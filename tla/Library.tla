-------------------------------- MODULE Library --------------------------------
(***************************************************************************)
(* The personal job library, services/profile_library.py: what concurrent  *)
(* save, patch and delete requests do to the table saved_jobs.             *)
(*                                                                         *)
(* Every request runs in a thread of its own with its own database         *)
(* session.  An action is one of its SQL statements, with the commit that  *)
(* follows a write, at READ COMMITTED.  An ORM object is a copy of what a  *)
(* statement read: a request computes from its copy, and its flush sends   *)
(* only the columns that differ from it.                                   *)
(*                                                                         *)
(* A source is one listing, (provider, provider_job_id).  Its provider may *)
(* retitle it: the dedup key is derived anew from each result (`role`),    *)
(* and RolesOf says which keys a listing derives over time.  Times are     *)
(* request numbers: a request takes `now` once.  A source is sent as one   *)
(* column.                                                                 *)
(***************************************************************************)
EXTENDS Naturals, FiniteSets

CONSTANTS
  Profile,     \* profile ids
  Source,      \* (provider, provider_job_id) pairs
  Role,        \* dedup keys: derive_dedup_key of a result
  RolesOf,     \* source -> the dedup keys its listing has at one time or another
  MaxRequests  \* bound: requests ever made

ASSUME LibraryAssumption ==
  /\ RolesOf \in [Source -> SUBSET Role]
  /\ MaxRequests \in Nat

VARIABLES
  rows,      \* the table saved_jobs: row id -> row
  inserted,  \* rows ever inserted; row ids count up
  requests   \* request number -> what it is doing

lvars == <<rows, inserted, requests>>

NoTime == 0
NoRow == 0
Time == 1..MaxRequests
RowId == 1..MaxRequests
State == {"saved", "applied"}

\* What a search result and a saved job have in common: the canonical source, the
\* dedup key and the identities of its alternate_sources.
Listing == [source : Source, role : Role, others : SUBSET Source]

Row == [profile : Profile, listing : Listing, state : State, savedAt : Time,
        appliedAt : Time \cup {NoTime}]

\* resolve_job: a result answers to each of its sources.
Identities(result) == {result.source} \cup result.others

\* The results live searches offer: consolidation joins listings of one dedup key.
Result == {r \in Listing : /\ r.source \notin r.others
                           /\ \A s \in Identities(r) : r.role \in RolesOf[s]}

\* A request's steps are named for the statement it is about to send.  `copy` is
\* what a save has loaded; `alone`: no other request ran at the same time.
SaveRequest ==
  [op : {"save"}, step : {"dedup", "merge", "upsert", "done"}, profile : Profile,
   identity : Source, result : Result, state : State, row : RowId \cup {NoRow},
   copy : Listing, alone : BOOLEAN, answer : {"pending", "ok", "error"}]

EditRequest ==
  [op : {"patch", "delete"}, step : {"write", "done"}, profile : Profile,
   state : State, row : RowId, alone : BOOLEAN,
   answer : {"pending", "ok", "missing", "error"}]

Init ==
  /\ rows = [r \in {} |-> 0]
  /\ inserted = 0
  /\ requests = [q \in {} |-> 0]

-----------------------------------------------------------------------------
(* The table and its unique constraints (models/saved_job.py).             *)

Owned(profile) == {r \in DOMAIN rows : rows[r].profile = profile}

\* uq_saved_jobs_profile_provider and uq_saved_jobs_profile_dedup: at most one row.
BySource(profile, source) ==
  {r \in Owned(profile) : rows[r].listing.source = source}
ByRole(profile, role) == {r \in Owned(profile) : rows[r].listing.role = role}

\* With the other rows of the profile, this listing may not be in row r.
Conflict(r, profile, listing) ==
  (BySource(profile, listing.source) \cup ByRole(profile, listing.role)) \ {r} # {}

PutRow(r, row) ==
  rows' = [x \in DOMAIN rows \cup {r} |-> IF x = r THEN row ELSE rows[x]]

-----------------------------------------------------------------------------
(* Requests.                                                               *)

Active == {q \in DOMAIN requests : requests[q].step # "done"}

\* The next request number, which is also the time of the request.
Arrival == Cardinality(DOMAIN requests) + 1

\* A request arrives; it and those in progress are not alone.
Arrive(request) ==
  /\ Arrival <= MaxRequests
  /\ requests' = [q \in DOMAIN requests \cup {Arrival} |->
                    IF q = Arrival THEN [request EXCEPT !.alone = Active = {}]
                    ELSE [requests[q] EXCEPT !.alone = @ /\ q \notin Active]]

GoOn(q, request) == requests' = [requests EXCEPT ![q] = request]

Answer(q, answer) ==
  GoOn(q, [requests[q] EXCEPT !.step = "done", !.answer = answer])

-----------------------------------------------------------------------------
(* POST /profiles/{id}/jobs: save_library_job.                             *)

\* The result is resolved from the live search, and the row with the identity that
\* was asked for is looked up: `created` decides between "dedup" and "upsert".
BeginSave(profile, result, identity, state) ==
  /\ Arrive([op |-> "save", profile |-> profile, identity |-> identity,
             step |-> IF BySource(profile, identity) = {} THEN "dedup" ELSE "upsert",
             result |-> result, state |-> state, row |-> NoRow, copy |-> result,
             alone |-> TRUE, answer |-> "pending"])
  /\ UNCHANGED <<rows, inserted>>

\* Wrong variant: the dedup key is not looked up.
LookupNothing(q) ==
  /\ requests[q].step = "dedup"
  /\ GoOn(q, [requests[q] EXCEPT !.step = "upsert"])
  /\ UNCHANGED <<rows, inserted>>

\* A new identity: is there a row of the same role?
LookupRole(q) ==
  LET req == requests[q]
      found == ByRole(req.profile, req.result.role)
  IN /\ req.step = "dedup"
     /\ \/ /\ found = {}
           /\ GoOn(q, [req EXCEPT !.step = "upsert"])
        \/ \E r \in found :
             GoOn(q, [req EXCEPT !.step = "merge", !.row = r, !.copy = rows[r].listing])
     /\ UNCHANGED <<rows, inserted>>

\* merged_alternate_sources: every source the copy had and the result has.
MergedSources(copy, result) ==
  (Identities(copy) \cup result.others) \ {result.source}

\* A flush sends the columns that differ from the copy and leaves the others alone.
Flushed(current, copy, new) ==
  [source |-> IF new.source = copy.source THEN current.source ELSE new.source,
   role |-> IF new.role = copy.role THEN current.role ELSE new.role,
   others |-> IF new.others = copy.others THEN current.others ELSE new.others]

\* Wrong variant: the merged row takes the state that was asked for.
MergedRowWithState(req, time, row) ==
  LET new == [source |-> req.result.source, role |-> req.result.role,
              others |-> MergedSources(req.copy, req.result)]
  IN [row EXCEPT !.listing = Flushed(@, req.copy, new), !.state = req.state,
                 !.appliedAt = IF req.state = "saved" THEN NoTime ELSE time]

\* The row a merge leaves: state and timestamps are those it has.
MergedRow(req, time, row) ==
  LET new == [source |-> req.result.source, role |-> req.result.role,
              others |-> MergedSources(req.copy, req.result)]
  IN [row EXCEPT !.listing = Flushed(@, req.copy, new)]

\* _merge_into_existing_by_dedup.  The row may be gone (StaleDataError), or what it
\* becomes taken (IntegrityError).
Merge(q) ==
  LET req == requests[q]
  IN /\ req.step = "merge"
     /\ \/ /\ req.row \in DOMAIN rows
           /\ ~Conflict(req.row, req.profile, MergedRow(req, q, rows[req.row]).listing)
           /\ PutRow(req.row, MergedRow(req, q, rows[req.row]))
           /\ Answer(q, "ok")
        \/ /\ \/ req.row \notin DOMAIN rows
              \/ Conflict(req.row, req.profile,
                          MergedRow(req, q, rows[req.row]).listing)
           /\ Answer(q, "error")
           /\ UNCHANGED rows
     /\ UNCHANGED inserted

\* Wrong variant: "saved" keeps the time of the application.
UpsertAppliedAtKept(req, time, old) == IF old = NoTime THEN time ELSE old

\* applied_at of an upsert: NULL for "saved", else the time it has or else now.
UpsertAppliedAt(req, time, old) ==
  IF req.state = "saved" THEN NoTime ELSE IF old = NoTime THEN time ELSE old

\* INSERT ... ON CONFLICT (profile, provider, provider_job_id) DO UPDATE: the row
\* with the canonical source is updated, its dedup key with it, or a new one is
\* inserted.  Either may meet the other constraint (IntegrityError).
Upsert(q) ==
  LET req == requests[q]
      same == BySource(req.profile, req.result.source)
  IN /\ req.step = "upsert"
     /\ \/ \E r \in same :
             /\ ~Conflict(r, req.profile, req.result)
             /\ PutRow(r, [rows[r] EXCEPT
                             !.listing = req.result, !.state = req.state,
                             !.appliedAt = UpsertAppliedAt(req, q, @)])
             /\ Answer(q, "ok")
             /\ UNCHANGED inserted
        \/ /\ same = {}
           /\ ~Conflict(NoRow, req.profile, req.result)
           /\ inserted' = inserted + 1
           /\ PutRow(inserted', [profile |-> req.profile, listing |-> req.result,
                                 state |-> req.state, savedAt |-> q,
                                 appliedAt |-> UpsertAppliedAt(req, q, NoTime)])
           /\ Answer(q, "ok")
        \/ /\ \E r \in (IF same = {} THEN {NoRow} ELSE same) :
                Conflict(r, req.profile, req.result)
           /\ Answer(q, "error")
           /\ UNCHANGED <<rows, inserted>>

-----------------------------------------------------------------------------
(* PATCH and DELETE /profiles/{id}/jobs/{row}.                             *)

\* Wrong variant: the row is found whoever owns it.
VisibleToAll(profile, r) == r \in DOMAIN rows

\* get_library_job finds a row only for the profile that owns it.
Visible(profile, r) == r \in Owned(profile)

Edit(op, step, profile, state, r, answer) ==
  [op |-> op, step |-> step, profile |-> profile, state |-> state, row |-> r,
   alone |-> TRUE, answer |-> answer]

\* update_library_job_state: read the row; in the state asked for it is left alone.
BeginPatch(profile, r, state) ==
  /\ \/ /\ ~Visible(profile, r)
        /\ Arrive(Edit("patch", "done", profile, state, r, "missing"))
     \/ /\ Visible(profile, r) /\ rows[r].state = state
        /\ Arrive(Edit("patch", "done", profile, state, r, "ok"))
     \/ /\ Visible(profile, r) /\ rows[r].state # state
        /\ Arrive(Edit("patch", "write", profile, state, r, "pending"))
  /\ UNCHANGED <<rows, inserted>>

\* _apply_state on the copy: both columns change, whatever the row is by now.  The
\* row may be gone (StaleDataError).
WritePatch(q) ==
  LET req == requests[q]
  IN /\ req.op = "patch" /\ req.step = "write"
     /\ \/ /\ req.row \in DOMAIN rows
           /\ PutRow(req.row, [rows[req.row] EXCEPT
                                 !.state = req.state,
                                 !.appliedAt = IF req.state = "applied" THEN q ELSE NoTime])
           /\ Answer(q, "ok")
        \/ /\ req.row \notin DOMAIN rows
           /\ Answer(q, "error")
           /\ UNCHANGED rows
     /\ UNCHANGED inserted

\* delete_library_job: read the row, then delete it.  That it is gone by then is
\* only a warning.
BeginDelete(profile, r) ==
  /\ \/ /\ ~Visible(profile, r)
        /\ Arrive(Edit("delete", "done", profile, "saved", r, "missing"))
     \/ /\ Visible(profile, r)
        /\ Arrive(Edit("delete", "write", profile, "saved", r, "pending"))
  /\ UNCHANGED <<rows, inserted>>

WriteDelete(q) ==
  /\ requests[q].op = "delete" /\ requests[q].step = "write"
  /\ rows' = [r \in DOMAIN rows \ {requests[q].row} |-> rows[r]]
  /\ Answer(q, "ok")
  /\ UNCHANGED inserted

-----------------------------------------------------------------------------
SaveStep(q) == LookupRole(q) \/ Merge(q) \/ Upsert(q)

Next ==
  \/ \E profile \in Profile, result \in Result, state \in State :
       \E identity \in Identities(result) : BeginSave(profile, result, identity, state)
  \/ \E profile \in Profile, r \in 1..inserted :
       (\E state \in State : BeginPatch(profile, r, state)) \/ BeginDelete(profile, r)
  \/ \E q \in Active : SaveStep(q) \/ WritePatch(q) \/ WriteDelete(q)

Spec == Init /\ [][Next]_lvars
-----------------------------------------------------------------------------
(* Correctness. *)

\* JE-004: entering "applied" sets applied_at and going back to "saved" clears it.
\* The two columns agree although saves, merges and patches computed from copies of
\* different age may write them in any order; ck_saved_jobs_applied_at never fires.
AppliedAtAgrees ==
  \A r \in DOMAIN rows : (rows[r].state = "applied") = (rows[r].appliedAt # NoTime)

\* JE-004 criterion 2: a request reads, changes and deletes rows of its own profile
\* only.
ProfilesAreIsolated ==
  [][\A q \in DOMAIN requests, r \in DOMAIN rows :
       /\ requests'[q] # requests[q]
       /\ requests[q].step # "done" /\ requests'[q].step = "done"
       /\ r \notin DOMAIN rows' \/ rows'[r] # rows[r]
       => rows[r].profile = requests[q].profile]_lvars

\* JE-008: saving a role that is held already, from whatever source, keeps the time
\* it was saved and, as long as it stays applied, the time it was applied; saved
\* from another source than the row's it keeps its state as well.  It holds when
\* the row changes between the lookup and the write.
SavingKeepsHistory ==
  [][\A q \in Active, r \in DOMAIN rows :
       /\ requests[q].op = "save"
       /\ requests'[q] # requests[q]
       /\ rows' # rows /\ r \in DOMAIN rows'
       => /\ rows'[r].savedAt = rows[r].savedAt
          /\ rows[r].state = "applied" /\ rows'[r].state = "applied" =>
               rows'[r].appliedAt = rows[r].appliedAt
          /\ requests[q].result.source # rows[r].listing.source =>
               rows'[r].state = rows[r].state]_lvars

\* A save by the result's own identity.
ByOwnIdentity(q) ==
  requests[q].op = "save" /\ requests[q].identity = requests[q].result.source

\* Two statements that look at different columns, and two unique constraints: a save
\* that no other request disturbs, and that names the result by its canonical source,
\* is refused for one reason only.  The listing has been retitled since it was saved,
\* and its new dedup key is that of another row.  (JE-008:76 has repeated saving a success
\* always; the code answers 500 then.)
RefusedOnlyIfRetitled ==
  [][\A q \in Active :
       /\ ByOwnIdentity(q) /\ requests[q].alone
       /\ requests'[q].answer = "error"
       => \E r, t \in Owned(requests[q].profile) :
            /\ rows[r].listing.source = requests[q].result.source
            /\ rows[r].listing.role # requests[q].result.role
            /\ rows[t].listing.role = requests[q].result.role]_lvars

\* JE-008: repeated saving remains a success rather than a conflict, and any source
\* of a result resolves to it.  So with any of its sources a save succeeds that no
\* other request disturbs.
AnySourceCanBeSaved ==
  \A q \in DOMAIN requests :
    requests[q].op = "save" /\ requests[q].alone => requests[q].answer # "error"
=============================================================================
