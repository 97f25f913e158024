----------------------------- MODULE LibraryProofs -----------------------------
(***************************************************************************)
(* Five facts about the personal library, for any number of profiles,      *)
(* listings and concurrent requests: the state of a saved job agrees with  *)
(* its applied_at, no request changes a row of another profile, saving     *)
(* again rewrites no history, a save that nothing disturbs is refused only *)
(* when its listing has been retitled into a role held already, and the    *)
(* migration that adds the dedup key forgets nothing of the rows it folds. *)
(*                                                                         *)
(* The second needs an invariant that spans a request's two statements: a  *)
(* row a request has read stays its profile's until it is written, because *)
(* ids are never given out twice and a row never changes hands.  So does   *)
(* the fourth: what a save has read of a table in which each source and    *)
(* each role has one row is so until it writes, if no other request is in  *)
(* progress.  The first four hold whether or not the table was migrated    *)
(* first.                                                                  *)
(***************************************************************************)
EXTENDS LibraryUpgrade, Counting

\* A row of the table whose columns state and applied_at agree.
Agrees(row) ==
  /\ row \in [profile : Profile, listing : Listing, state : State, savedAt : Nat,
              appliedAt : Nat]
  /\ (row.state = "applied") = (row.appliedAt # NoTime)

\* The two kinds of request.
Saving == [op : {"save"}, step : {"dedup", "merge", "upsert", "done"},
           profile : Profile, identity : Source, result : Listing, state : State,
           row : Nat, copy : Listing, alone : BOOLEAN,
           answer : {"pending", "ok", "error"}]
Editing == [op : {"patch", "delete"}, step : {"write", "done"}, profile : Profile,
            state : State, row : Nat, alone : BOOLEAN,
            answer : {"pending", "ok", "missing", "error"}]

\* A request about to write a row has read one of its own profile.
Claim(req) ==
  req.step \in {"merge", "write"} =>
    /\ req.row \in 1..inserted
    /\ req.row \in DOMAIN rows => rows[req.row].profile = req.profile

RowsInv ==
  /\ inserted \in Nat
  /\ DOMAIN rows \subseteq 1..inserted
  /\ \A r \in DOMAIN rows : Agrees(rows[r])

RequestsInv ==
  /\ \E n \in Nat : DOMAIN requests = 1..n
  /\ requests = [q \in DOMAIN requests |-> requests[q]]
  /\ \A q \in DOMAIN requests : requests[q] \in Saving \cup Editing

LibraryInv ==
  /\ RowsInv
  /\ RequestsInv
  /\ \A q \in DOMAIN requests : Claim(requests[q])

-----------------------------------------------------------------------------
(* What the requests do, whatever they are.                                *)

\* No id is given out twice and no row changes hands.
TableGrows ==
  /\ inserted' \in Nat /\ inserted <= inserted'
  /\ \A r \in DOMAIN rows' :
       r \in 1..inserted => r \in DOMAIN rows /\ rows'[r].profile = rows[r].profile

\* A claim made before such a step holds after it.
LEMMA ClaimsStay ==
  ASSUME RowsInv, TableGrows, NEW req, Claim(req)
  PROVE  req.step \in {"merge", "write"} =>
           /\ req.row \in 1..inserted'
           /\ req.row \in DOMAIN rows' => rows'[req.row].profile = req.profile
BY DEF RowsInv, TableGrows, Claim

LEMMA NothingMoves ==
  ASSUME RowsInv, UNCHANGED <<rows, inserted>>
  PROVE  RowsInv' /\ TableGrows
BY DEF RowsInv, TableGrows, Agrees

\* Only the request that takes the step moves.
LEMMA GoOnKeepsRequests ==
  ASSUME RequestsInv, NEW q \in DOMAIN requests, NEW req \in Saving \cup Editing,
         GoOn(q, req)
  PROVE  /\ RequestsInv'
         /\ DOMAIN requests' = DOMAIN requests
         /\ requests'[q] = req
         /\ \A p \in DOMAIN requests \ {q} : requests'[p] = requests[p]
BY DEF RequestsInv, GoOn

\* A step of a request keeps the invariant if it is right about its own claim.
LEMMA GoOnKeepsInv ==
  ASSUME LibraryInv, NEW q \in DOMAIN requests, NEW req \in Saving \cup Editing,
         GoOn(q, req), Claim(req), RowsInv', TableGrows
  PROVE  LibraryInv'
<1>1. RequestsInv' /\ DOMAIN requests' = DOMAIN requests
      /\ requests'[q] = req
      /\ \A p \in DOMAIN requests \ {q} : requests'[p] = requests[p]
  BY GoOnKeepsRequests DEF LibraryInv
<1>2. ASSUME NEW p \in DOMAIN requests'
      PROVE  Claim(requests[p])'
  <2>1. PICK was : was = requests'[p] /\ Claim(was)
    BY <1>1 DEF LibraryInv
  <2>2. was.step \in {"merge", "write"} =>
          /\ was.row \in 1..inserted'
          /\ was.row \in DOMAIN rows' => rows'[was.row].profile = was.profile
    BY <2>1, ClaimsStay DEF LibraryInv
  <2> QED
    BY <2>1, <2>2 DEF Claim
<1> QED
  BY <1>1, <1>2 DEF LibraryInv

\* A request that is over claims nothing.
LEMMA AnswerKeepsInv ==
  ASSUME LibraryInv, NEW q \in DOMAIN requests, NEW answer \in {"ok", "error"},
         Answer(q, answer), RowsInv', TableGrows
  PROVE  LibraryInv'
<1> DEFINE req == [requests[q] EXCEPT !.step = "done", !.answer = answer]
<1>1. req \in Saving \cup Editing /\ req.step = "done"
  BY ZenonT(60) DEF LibraryInv, RequestsInv, Saving, Editing
<1>2. GoOn(q, req)
  BY DEF Answer
<1>3. Claim(req)
  BY <1>1 DEF Claim
<1> HIDE DEF req
<1> QED
  BY <1>1, <1>2, <1>3, GoOnKeepsInv

LEMMA ArrivalIsNext ==
  ASSUME RequestsInv
  PROVE  /\ Arrival \in Nat \ {0}
         /\ Arrival \notin DOMAIN requests
         /\ DOMAIN requests \cup {Arrival} = 1..Arrival
         /\ \A q \in DOMAIN requests : q \in Nat \ {0}
<1>1. PICK n \in Nat : DOMAIN requests = 1..n
  BY DEF RequestsInv
<1>2. Cardinality(1..n) = n
  BY <1>1, FS_Interval
<1>3. Arrival = n + 1
  BY <1>1, <1>2 DEF Arrival
<1> QED
  BY <1>1, <1>3

\* A request that arrives takes nothing from the others but their being alone.
LEMMA ArriveKeepsInv ==
  ASSUME LibraryInv, NEW req \in Saving \cup Editing, Arrive(req), Claim(req),
         UNCHANGED <<rows, inserted>>
  PROVE  LibraryInv'
<1> DEFINE new == [req EXCEPT !.alone = Active = {}]
           old(q) == [requests[q] EXCEPT !.alone = @ /\ q \notin Active]
<1>1. new \in Saving \cup Editing /\ new.step = req.step /\ new.row = req.row
      /\ new.profile = req.profile
  <2>1. (Active = {}) \in BOOLEAN
    OBVIOUS
  <2> QED
    BY <2>1, Zenon DEF Saving, Editing
<1>2. ASSUME NEW q \in DOMAIN requests
      PROVE  /\ old(q) \in Saving \cup Editing
             /\ old(q).step = requests[q].step /\ old(q).row = requests[q].row
             /\ old(q).profile = requests[q].profile
  <2>1. requests[q] \in Saving \cup Editing
    BY DEF LibraryInv, RequestsInv
  <2>2. (requests[q].alone /\ q \notin Active) \in BOOLEAN
    OBVIOUS
  <2> QED
    BY <2>1, <2>2 DEF Saving, Editing
<1>3. requests' = [q \in DOMAIN requests \cup {Arrival} |->
                     IF q = Arrival THEN new ELSE old(q)]
  BY DEF Arrive
<1> HIDE DEF new, old
<1>4. RequestsInv'
  BY <1>1, <1>2, <1>3, ArrivalIsNext DEF LibraryInv, RequestsInv
<1>5. ASSUME NEW q \in DOMAIN requests'
      PROVE  Claim(requests[q])'
  <2>1. CASE q = Arrival
    BY <1>1, <1>3, <2>1 DEF Claim
  <2>2. CASE q # Arrival
    <3>1. q \in DOMAIN requests /\ requests'[q] = old(q)
      BY <1>3, <2>2
    <3>2. Claim(requests[q])
      BY <3>1 DEF LibraryInv
    <3> QED
      BY <1>2, <3>1, <3>2 DEF Claim
  <2> QED
    BY <2>1, <2>2
<1> QED
  BY <1>4, <1>5, NothingMoves DEF LibraryInv

-----------------------------------------------------------------------------
(* What the statements do to the table.                                    *)

\* Writing a row of the table, with the profile it has.
LEMMA PutOldRow ==
  ASSUME RowsInv, NEW r \in DOMAIN rows, NEW row, Agrees(row),
         row.profile = rows[r].profile, PutRow(r, row), inserted' = inserted
  PROVE  RowsInv' /\ TableGrows
BY DEF RowsInv, TableGrows, PutRow, Agrees

\* Inserting a row under an id not given out before.
LEMMA PutNewRow ==
  ASSUME RowsInv, NEW row, Agrees(row), PutRow(inserted', row),
         inserted' = inserted + 1
  PROVE  RowsInv' /\ TableGrows
BY DEF RowsInv, TableGrows, PutRow, Agrees

\* The listing a merge leaves is a listing.
LEMMA MergedRowAgrees ==
  ASSUME NEW req \in Saving, NEW time, NEW row, Agrees(row)
  PROVE  Agrees(MergedRow(req, time, row)) /\ MergedRow(req, time, row).profile = row.profile
<1> DEFINE new == [source |-> req.result.source, role |-> req.result.role,
                   others |-> MergedSources(req.copy, req.result)]
<1>1. req.result \in Listing /\ req.copy \in Listing
  BY DEF Saving
<1>2. new \in Listing
  BY <1>1 DEF MergedSources, Identities, Listing
<1> HIDE DEF new
<1>3. row.listing \in Listing
  BY DEF Agrees
<1>4. Flushed(row.listing, req.copy, new) \in Listing
  BY <1>1, <1>2, <1>3 DEF Flushed, Listing
<1>5. MergedRow(req, time, row) = [row EXCEPT !.listing = Flushed(@, req.copy, new)]
  BY DEF MergedRow, new
<1> QED
  BY <1>4, <1>5 DEF Agrees

\* The time of application an upsert writes agrees with the state it writes.
LEMMA UpsertAgrees ==
  ASSUME NEW req \in Saving, NEW time \in Nat \ {0}, NEW old \in Nat
  PROVE  /\ UpsertAppliedAt(req, time, old) \in Nat
         /\ (req.state = "applied") = (UpsertAppliedAt(req, time, old) # NoTime)
BY DEF UpsertAppliedAt, Saving, State, NoTime

-----------------------------------------------------------------------------
(* The actions.                                                            *)

\* The rows a step changes are of the profile of the request that takes it.
OwnRowsOnly(q) ==
  \A r \in DOMAIN rows :
    r \notin DOMAIN rows' \/ rows'[r] # rows[r] => rows[r].profile = requests[q].profile

LEMMA SavesAreShaped ==
  ASSUME LibraryInv, NEW q \in DOMAIN requests,
         requests[q].step \in {"dedup", "merge", "upsert"}
  PROVE  requests[q] \in Saving
BY DEF LibraryInv, RequestsInv, Editing

LEMMA BeginSaveKeepsInv ==
  ASSUME LibraryInv, NEW profile \in Profile, NEW result \in Result,
         NEW state \in State, NEW identity \in Identities(result),
         BeginSave(profile, result, identity, state)
  PROVE  LibraryInv'
<1>1. result \in Listing /\ identity \in Source
  BY DEF Result, Listing, Identities
<1> DEFINE step == IF BySource(profile, identity) = {} THEN "dedup" ELSE "upsert"
           req == [op |-> "save", profile |-> profile, identity |-> identity,
                   step |-> step, result |-> result, state |-> state, row |-> NoRow,
                   copy |-> result, alone |-> TRUE, answer |-> "pending"]
<1>2. req \in Saving
  BY <1>1 DEF Saving, NoRow
<1>3. Claim(req)
  BY DEF Claim
<1>4. Arrive(req) /\ UNCHANGED <<rows, inserted>>
  BY DEF BeginSave
<1> HIDE DEF req
<1> QED
  BY <1>2, <1>3, <1>4, ArriveKeepsInv

LEMMA EditArrivalKeepsInv ==
  ASSUME LibraryInv, NEW profile \in Profile, NEW r \in 1..inserted,
         NEW op \in {"patch", "delete"}, NEW step \in {"write", "done"},
         NEW state \in State, NEW answer \in {"pending", "ok", "missing"},
         Arrive(Edit(op, step, profile, state, r, answer)),
         step = "write" => Visible(profile, r), UNCHANGED <<rows, inserted>>
  PROVE  LibraryInv'
<1> DEFINE req == Edit(op, step, profile, state, r, answer)
<1>1. /\ req \in Editing
      /\ req.row = r /\ req.profile = profile /\ req.step = step
  BY DEF Edit, Editing, LibraryInv, RowsInv
<1>2. Claim(req)
  BY <1>1 DEF Claim, Visible, Owned
<1>3. Arrive(req)
  OBVIOUS
<1> HIDE DEF req
<1> QED
  BY <1>1, <1>2, <1>3, ArriveKeepsInv

LEMMA BeginPatchKeepsInv ==
  ASSUME LibraryInv, NEW profile \in Profile, NEW r \in 1..inserted,
         NEW state \in State, BeginPatch(profile, r, state)
  PROVE  LibraryInv'
BY EditArrivalKeepsInv DEF BeginPatch

LEMMA BeginDeleteKeepsInv ==
  ASSUME LibraryInv, NEW profile \in Profile, NEW r \in 1..inserted,
         BeginDelete(profile, r)
  PROVE  LibraryInv'
BY EditArrivalKeepsInv DEF BeginDelete, State

LEMMA LookupRoleKeepsInv ==
  ASSUME LibraryInv, NEW q \in DOMAIN requests, LookupRole(q)
  PROVE  LibraryInv' /\ OwnRowsOnly(q)
<1> DEFINE req == requests[q]
<1>1. req \in Saving
  BY SavesAreShaped DEF LookupRole
<1>2. RowsInv' /\ TableGrows
  BY NothingMoves DEF LibraryInv, LookupRole
<1>3. CASE GoOn(q, [req EXCEPT !.step = "upsert"])
  <2> DEFINE new == [req EXCEPT !.step = "upsert"]
  <2>1. new \in Saving /\ Claim(new)
    BY <1>1 DEF Saving, Claim
  <2>2. GoOn(q, new)
    BY <1>3
  <2> HIDE DEF new
  <2> QED
    BY <1>2, <2>1, <2>2, GoOnKeepsInv DEF LookupRole, OwnRowsOnly
<1>4. CASE \E r \in ByRole(req.profile, req.result.role) :
             GoOn(q, [req EXCEPT !.step = "merge", !.row = r,
                                 !.copy = rows[r].listing])
  <2>1. PICK r \in ByRole(req.profile, req.result.role) :
               GoOn(q, [req EXCEPT !.step = "merge", !.row = r,
                                   !.copy = rows[r].listing])
    BY <1>4
  <2> DEFINE new == [req EXCEPT !.step = "merge", !.row = r,
                                !.copy = rows[r].listing]
  <2>2. r \in DOMAIN rows /\ rows[r].profile = req.profile
    BY DEF ByRole, Owned
  <2>3. r \in 1..inserted /\ r \in Nat /\ rows[r].listing \in Listing
    BY <2>2 DEF LibraryInv, RowsInv, Agrees
  <2>4. new \in Saving /\ new.row = r /\ new.profile = req.profile
    BY <1>1, <2>3 DEF Saving
  <2>5. Claim(new)
    BY <2>2, <2>3, <2>4 DEF Claim
  <2>6. GoOn(q, new)
    BY <2>1
  <2> HIDE DEF new
  <2> QED
    BY <1>2, <2>4, <2>5, <2>6, GoOnKeepsInv DEF LookupRole, OwnRowsOnly
<1> QED
  BY <1>3, <1>4 DEF LookupRole

LEMMA MergeKeepsInv ==
  ASSUME LibraryInv, NEW q \in DOMAIN requests, Merge(q)
  PROVE  LibraryInv' /\ OwnRowsOnly(q)
<1> DEFINE req == requests[q]
<1>1. req \in Saving /\ RowsInv
  BY SavesAreShaped DEF Merge, LibraryInv
<1>2. CASE UNCHANGED rows /\ Answer(q, "error")
  <2>1. RowsInv' /\ TableGrows
    BY <1>1, <1>2, NothingMoves DEF Merge
  <2> QED
    BY <1>2, <2>1, AnswerKeepsInv DEF OwnRowsOnly
<1>3. CASE /\ req.row \in DOMAIN rows
           /\ PutRow(req.row, MergedRow(req, q, rows[req.row]))
           /\ Answer(q, "ok")
  <2> DEFINE row == MergedRow(req, q, rows[req.row])
  <2>1. rows[req.row].profile = req.profile
    BY <1>3 DEF LibraryInv, Claim, Merge
  <2>2. Agrees(row) /\ row.profile = rows[req.row].profile
    BY <1>1, <1>3, MergedRowAgrees DEF RowsInv
  <2>3. PutRow(req.row, row) /\ inserted' = inserted
    BY <1>3 DEF Merge
  <2> HIDE DEF row
  <2>4. RowsInv' /\ TableGrows
    BY <1>1, <1>3, <2>2, <2>3, PutOldRow
  <2>5. LibraryInv'
    BY <1>3, <2>4, AnswerKeepsInv
  <2> QED
    BY <2>1, <2>3, <2>5 DEF OwnRowsOnly, PutRow
<1> QED
  BY <1>2, <1>3 DEF Merge

\* A row an upsert finds by its source belongs to the profile it saves for.
LEMMA UpsertKeepsInv ==
  ASSUME LibraryInv, NEW q \in DOMAIN requests, Upsert(q)
  PROVE  LibraryInv' /\ OwnRowsOnly(q)
<1> DEFINE req == requests[q]
<1>1. req \in Saving /\ RowsInv /\ q \in Nat \ {0}
  BY SavesAreShaped, ArrivalIsNext DEF Upsert, LibraryInv
<1>2. CASE UNCHANGED <<rows, inserted>> /\ Answer(q, "error")
  BY <1>1, <1>2, NothingMoves, AnswerKeepsInv DEF OwnRowsOnly
<1>3. CASE \E r \in BySource(req.profile, req.result.source) :
             /\ PutRow(r, [rows[r] EXCEPT
                             !.listing = req.result, !.state = req.state,
                             !.appliedAt = UpsertAppliedAt(req, q, @)])
             /\ Answer(q, "ok")
             /\ UNCHANGED inserted
  <2>1. PICK r \in BySource(req.profile, req.result.source) :
             /\ PutRow(r, [rows[r] EXCEPT
                             !.listing = req.result, !.state = req.state,
                             !.appliedAt = UpsertAppliedAt(req, q, @)])
             /\ Answer(q, "ok")
             /\ UNCHANGED inserted
    BY <1>3
  <2>2. r \in DOMAIN rows /\ rows[r].profile = req.profile
    BY DEF BySource, Owned
  <2> DEFINE at == UpsertAppliedAt(req, q, rows[r].appliedAt)
             row == [rows[r] EXCEPT !.listing = req.result, !.state = req.state,
                                    !.appliedAt = at]
  <2>3. Agrees(rows[r])
    BY <2>2 DEF LibraryInv, RowsInv
  <2>4. at \in Nat /\ (req.state = "applied") = (at # NoTime)
    BY <1>1, <2>3, UpsertAgrees DEF Agrees
  <2>5. PutRow(r, row)
    BY <2>1
  <2> HIDE DEF at
  <2>6. Agrees(row) /\ row.profile = rows[r].profile
    BY <1>1, <2>3, <2>4 DEF Agrees, Saving
  <2> HIDE DEF row
  <2>7. RowsInv' /\ TableGrows
    BY <1>1, <2>1, <2>2, <2>5, <2>6, PutOldRow
  <2>8. LibraryInv'
    BY <2>1, <2>7, AnswerKeepsInv
  <2> QED
    BY <2>2, <2>5, <2>8 DEF OwnRowsOnly, PutRow
<1>4. CASE /\ inserted' = inserted + 1
           /\ PutRow(inserted', [profile |-> req.profile, listing |-> req.result,
                                 state |-> req.state, savedAt |-> q,
                                 appliedAt |-> UpsertAppliedAt(req, q, NoTime)])
           /\ Answer(q, "ok")
  <2> DEFINE at == UpsertAppliedAt(req, q, NoTime)
             row == [profile |-> req.profile, listing |-> req.result,
                     state |-> req.state, savedAt |-> q, appliedAt |-> at]
  <2>1. at \in Nat /\ (req.state = "applied") = (at # NoTime)
    BY <1>1, UpsertAgrees DEF NoTime
  <2>2. PutRow(inserted', row)
    BY <1>4
  <2> HIDE DEF at
  <2>3. Agrees(row)
    BY <1>1, <2>1 DEF Agrees, Saving
  <2> HIDE DEF row
  <2>4. RowsInv' /\ TableGrows
    BY <1>1, <1>4, <2>2, <2>3, PutNewRow
  <2>5. LibraryInv'
    BY <1>4, <2>4, AnswerKeepsInv
  <2>6. inserted' \notin DOMAIN rows
    BY <1>1, <1>4 DEF RowsInv
  <2> QED
    BY <2>2, <2>5, <2>6 DEF OwnRowsOnly, PutRow
<1> QED
  BY <1>2, <1>3, <1>4 DEF Upsert

LEMMA WritePatchKeepsInv ==
  ASSUME LibraryInv, NEW q \in DOMAIN requests, WritePatch(q)
  PROVE  LibraryInv' /\ OwnRowsOnly(q)
<1> DEFINE req == requests[q]
<1>1. req \in Editing /\ RowsInv /\ q \in Nat \ {0}
  BY ArrivalIsNext DEF WritePatch, LibraryInv, RequestsInv, Saving
<1>2. CASE UNCHANGED rows /\ Answer(q, "error")
  <2>1. RowsInv' /\ TableGrows
    BY <1>1, <1>2, NothingMoves DEF WritePatch
  <2> QED
    BY <1>2, <2>1, AnswerKeepsInv DEF OwnRowsOnly
<1>3. CASE /\ req.row \in DOMAIN rows
           /\ PutRow(req.row, [rows[req.row] EXCEPT
                                 !.state = req.state,
                                 !.appliedAt = IF req.state = "applied" THEN q ELSE NoTime])
           /\ Answer(q, "ok")
  <2> DEFINE at == IF req.state = "applied" THEN q ELSE NoTime
             row == [rows[req.row] EXCEPT !.state = req.state, !.appliedAt = at]
  <2>1. rows[req.row].profile = req.profile
    BY <1>3 DEF LibraryInv, Claim, WritePatch
  <2>2. at \in Nat /\ (req.state = "applied") = (at # NoTime)
    BY <1>1 DEF NoTime
  <2>3. PutRow(req.row, row) /\ inserted' = inserted
    BY <1>3 DEF WritePatch
  <2> HIDE DEF at
  <2>4. Agrees(row) /\ row.profile = rows[req.row].profile
    BY <1>1, <1>3, <2>2, ZenonT(60) DEF RowsInv, Agrees, Editing
  <2> HIDE DEF row
  <2>5. RowsInv' /\ TableGrows
    BY <1>1, <1>3, <2>3, <2>4, PutOldRow
  <2>6. LibraryInv'
    BY <1>3, <2>5, AnswerKeepsInv
  <2> QED
    BY <2>1, <2>3, <2>6 DEF OwnRowsOnly, PutRow
<1> QED
  BY <1>2, <1>3 DEF WritePatch

LEMMA WriteDeleteKeepsInv ==
  ASSUME LibraryInv, NEW q \in DOMAIN requests, WriteDelete(q)
  PROVE  LibraryInv' /\ OwnRowsOnly(q)
<1>1. RowsInv' /\ TableGrows
  BY DEF WriteDelete, LibraryInv, RowsInv, TableGrows, Agrees
<1>2. LibraryInv'
  BY <1>1, AnswerKeepsInv DEF WriteDelete
<1>3. requests[q].row \in DOMAIN rows => rows[requests[q].row].profile = requests[q].profile
  BY DEF WriteDelete, LibraryInv, Claim
<1> QED
  BY <1>2, <1>3 DEF WriteDelete, OwnRowsOnly

-----------------------------------------------------------------------------
(* The invariant.                                                          *)

LEMMA InitLibraryInv ==
  Init => LibraryInv
<1> SUFFICES ASSUME Init PROVE LibraryInv
  OBVIOUS
<1>1. DOMAIN requests = {} /\ DOMAIN rows = {} /\ inserted = 0
  BY DEF Init
<1>2. requests = [q \in DOMAIN requests |-> requests[q]]
  BY DEF Init
<1>3. DOMAIN requests = 1..0
  BY <1>1
<1> QED
  BY <1>1, <1>2, <1>3 DEF LibraryInv, RowsInv, RequestsInv

\* A step of a request's own keeps the invariant, and touches its own rows only.
LEMMA StepKeepsInv ==
  ASSUME LibraryInv, NEW q \in DOMAIN requests,
         SaveStep(q) \/ WritePatch(q) \/ WriteDelete(q)
  PROVE  /\ LibraryInv'
         /\ OwnRowsOnly(q)
         /\ \A p \in DOMAIN requests \ {q} : requests'[p] = requests[p]
<1>1. LibraryInv' /\ OwnRowsOnly(q)
  BY LookupRoleKeepsInv, MergeKeepsInv, UpsertKeepsInv, WritePatchKeepsInv,
     WriteDeleteKeepsInv DEF SaveStep
<1>2. \E req : GoOn(q, req)
  BY DEF SaveStep, LookupRole, Merge, Upsert, WritePatch, WriteDelete, Answer
<1> QED
  BY <1>1, <1>2 DEF GoOn

\* A new request touches no row.
LEMMA BeginKeepsInv ==
  ASSUME LibraryInv,
         \/ \E profile \in Profile, result \in Result, state \in State :
              \E identity \in Identities(result) :
                BeginSave(profile, result, identity, state)
         \/ \E profile \in Profile, r \in 1..inserted :
              (\E state \in State : BeginPatch(profile, r, state))
                \/ BeginDelete(profile, r)
  PROVE  LibraryInv' /\ rows' = rows
<1>1. LibraryInv'
  BY BeginSaveKeepsInv, BeginPatchKeepsInv, BeginDeleteKeepsInv
<1>2. rows' = rows
  BY DEF BeginSave, BeginPatch, BeginDelete
<1> QED
  BY <1>1, <1>2

LEMMA NextKeepsInv ==
  ASSUME LibraryInv, [Next]_lvars
  PROVE  LibraryInv'
<1>1. CASE UNCHANGED lvars
  BY <1>1 DEF lvars, LibraryInv, RowsInv, RequestsInv, Claim, Agrees
<1>2. CASE \E q \in Active : SaveStep(q) \/ WritePatch(q) \/ WriteDelete(q)
  BY <1>2, StepKeepsInv DEF Active
<1>3. CASE \/ \E profile \in Profile, result \in Result, state \in State :
                \E identity \in Identities(result) :
                  BeginSave(profile, result, identity, state)
           \/ \E profile \in Profile, r \in 1..inserted :
                (\E state \in State : BeginPatch(profile, r, state))
                  \/ BeginDelete(profile, r)
  BY <1>3, BeginKeepsInv
<1> QED
  BY <1>1, <1>2, <1>3 DEF Next

\* In every reachable state the table is well formed, its columns agree, and each
\* request in progress has read a row of its own profile.
THEOREM LibraryInvariant == Spec => []LibraryInv
<1>1. LibraryInv /\ [Next]_lvars => LibraryInv'
  BY NextKeepsInv
<1> QED
  BY InitLibraryInv, <1>1, PTL DEF Spec

\* However saves, merges, patches and deletes of any number of requests interleave,
\* a saved job is "applied" exactly if it has an applied_at.
THEOREM AppliedAtAlwaysAgrees == Spec => []AppliedAtAgrees
<1>1. LibraryInv => AppliedAtAgrees
  BY DEF LibraryInv, RowsInv, Agrees, AppliedAtAgrees
<1> QED
  BY LibraryInvariant, <1>1, PTL

\* What ProfilesAreIsolated says of a step.
Isolated ==
  \A q \in DOMAIN requests, r \in DOMAIN rows :
    /\ requests'[q] # requests[q]
    /\ requests[q].step # "done" /\ requests'[q].step = "done"
    /\ r \notin DOMAIN rows' \/ rows'[r] # rows[r]
    => rows[r].profile = requests[q].profile

LEMMA NextIsIsolated ==
  ASSUME LibraryInv, [Next]_lvars
  PROVE  [Isolated]_lvars
<1>1. CASE UNCHANGED lvars
  BY <1>1
<1>2. CASE \E q \in Active : SaveStep(q) \/ WritePatch(q) \/ WriteDelete(q)
  BY <1>2, StepKeepsInv DEF Active, OwnRowsOnly, Isolated
<1>3. CASE \/ \E profile \in Profile, result \in Result, state \in State :
                \E identity \in Identities(result) :
                  BeginSave(profile, result, identity, state)
           \/ \E profile \in Profile, r \in 1..inserted :
                (\E state \in State : BeginPatch(profile, r, state))
                  \/ BeginDelete(profile, r)
  BY <1>3, BeginKeepsInv DEF Isolated
<1> QED
  BY <1>1, <1>2, <1>3 DEF Next

\* No request ever changes or deletes a row of another profile, although it finds
\* the row in one statement and writes it in another.
THEOREM ProfilesAlwaysIsolated == Spec => ProfilesAreIsolated
<1>1. LibraryInv /\ [Next]_lvars => [Isolated]_lvars
  BY NextIsIsolated
<1> QED
  BY LibraryInvariant, <1>1, PTL DEF Spec, ProfilesAreIsolated, Isolated

-----------------------------------------------------------------------------
(* What saving again leaves as it was.                                     *)

\* What SavingKeepsHistory says of the step of a save, row by row.
KeepsHistory(q, r) ==
  /\ rows'[r].savedAt = rows[r].savedAt
  /\ rows[r].state = "applied" /\ rows'[r].state = "applied" =>
       rows'[r].appliedAt = rows[r].appliedAt
  /\ requests[q].result.source # rows[r].listing.source =>
       rows'[r].state = rows[r].state

LEMMA MergeKeepsHistory ==
  ASSUME LibraryInv, NEW q \in DOMAIN requests, Merge(q), NEW r \in DOMAIN rows
  PROVE  r \in DOMAIN rows' => KeepsHistory(q, r)
<1> DEFINE req == requests[q]
           row == MergedRow(req, q, rows[req.row])
<1>1. Agrees(rows[r])
  BY DEF LibraryInv, RowsInv
<1>2. CASE UNCHANGED rows
  BY <1>2 DEF KeepsHistory
<1>3. CASE r = req.row /\ PutRow(req.row, row)
  <2>1. rows'[r] = row
    BY <1>3 DEF PutRow
  <2>2. row.savedAt = rows[r].savedAt /\ row.appliedAt = rows[r].appliedAt
        /\ row.state = rows[r].state
    BY <1>1, <1>3 DEF MergedRow, Agrees
  <2> QED
    BY <2>1, <2>2 DEF KeepsHistory
<1>4. CASE r # req.row /\ PutRow(req.row, row)
  BY <1>4 DEF PutRow, KeepsHistory
<1> QED
  BY <1>2, <1>3, <1>4 DEF Merge

LEMMA UpsertKeepsHistory ==
  ASSUME LibraryInv, NEW q \in DOMAIN requests, Upsert(q), NEW r \in DOMAIN rows
  PROVE  r \in DOMAIN rows' => KeepsHistory(q, r)
<1> DEFINE req == requests[q]
<1>1. Agrees(rows[r]) /\ req \in Saving
  BY SavesAreShaped DEF LibraryInv, RowsInv, Upsert
<1>2. CASE UNCHANGED rows
  BY <1>2 DEF KeepsHistory
<1>3. CASE \E t \in BySource(req.profile, req.result.source) :
             PutRow(t, [rows[t] EXCEPT
                          !.listing = req.result, !.state = req.state,
                          !.appliedAt = UpsertAppliedAt(req, q, @)])
  <2>1. PICK t \in BySource(req.profile, req.result.source) :
               PutRow(t, [rows[t] EXCEPT
                            !.listing = req.result, !.state = req.state,
                            !.appliedAt = UpsertAppliedAt(req, q, @)])
    BY <1>3
  <2> DEFINE at == UpsertAppliedAt(req, q, rows[t].appliedAt)
  <2>2. CASE r # t
    BY <2>1, <2>2 DEF PutRow, KeepsHistory
  <2>3. CASE r = t
    <3>1. rows'[r] = [rows[r] EXCEPT !.listing = req.result, !.state = req.state,
                                     !.appliedAt = at]
      BY <2>1, <2>3 DEF PutRow
    <3>2. rows[r].listing.source = req.result.source
      BY <2>3 DEF BySource
    <3>3. rows[r].state = "applied" /\ req.state = "applied" => at = rows[r].appliedAt
      BY <1>1, <2>3 DEF Agrees, UpsertAppliedAt
    <3> HIDE DEF at
    <3>4. rows'[r].savedAt = rows[r].savedAt /\ rows'[r].state = req.state
          /\ rows'[r].appliedAt = at
      BY <1>1, <3>1 DEF Agrees
    <3> QED
      BY <3>2, <3>3, <3>4 DEF KeepsHistory
  <2> QED
    BY <2>2, <2>3
<1>4. CASE inserted' = inserted + 1
           /\ \E row : PutRow(inserted', row)
  <2>1. r # inserted'
    BY <1>4 DEF LibraryInv, RowsInv
  <2> QED
    BY <1>4, <2>1 DEF PutRow, KeepsHistory
<1> QED
  BY <1>2, <1>3, <1>4 DEF Upsert

\* What SavingKeepsHistory says of a step.
HistoryIsKept ==
  \A q \in Active, r \in DOMAIN rows :
    /\ requests[q].op = "save"
    /\ requests'[q] # requests[q]
    /\ rows' # rows /\ r \in DOMAIN rows'
    => KeepsHistory(q, r)

LEMMA NextKeepsHistory ==
  ASSUME LibraryInv, [Next]_lvars
  PROVE  [HistoryIsKept]_lvars
<1>1. CASE UNCHANGED lvars
  BY <1>1
<1>2. CASE \E q \in Active : SaveStep(q) \/ WritePatch(q) \/ WriteDelete(q)
  <2>1. PICK q \in Active : SaveStep(q) \/ WritePatch(q) \/ WriteDelete(q)
    BY <1>2
  <2>2. \A p \in DOMAIN requests \ {q} : requests'[p] = requests[p]
    BY <2>1, StepKeepsInv DEF Active
  <2>3. requests[q].op = "save" => SaveStep(q)
    BY <2>1 DEF WritePatch, WriteDelete
  <2>4. LookupRole(q) => rows' = rows
    BY DEF LookupRole
  <2>5. ASSUME NEW r \in DOMAIN rows, requests[q].op = "save", rows' # rows,
               r \in DOMAIN rows'
        PROVE  KeepsHistory(q, r)
    BY <2>3, <2>4, <2>5, MergeKeepsHistory, UpsertKeepsHistory DEF SaveStep, Active
  <2>6. \A p \in Active : p # q => requests'[p] = requests[p]
    BY <2>2 DEF Active
  <2> QED
    BY <2>5, <2>6 DEF HistoryIsKept
<1>3. CASE \/ \E profile \in Profile, result \in Result, state \in State :
                \E identity \in Identities(result) :
                  BeginSave(profile, result, identity, state)
           \/ \E profile \in Profile, r \in 1..inserted :
                (\E state \in State : BeginPatch(profile, r, state))
                  \/ BeginDelete(profile, r)
  BY <1>3, BeginKeepsInv DEF HistoryIsKept
<1> QED
  BY <1>1, <1>2, <1>3 DEF Next

\* Saving a role that is held already leaves the time it was saved, and what state it
\* has, and since when, if the save is not of the row's own listing - although the row
\* may have changed since the save looked for it.
THEOREM SavingAlwaysKeepsHistory == Spec => SavingKeepsHistory
<1>1. LibraryInv /\ [Next]_lvars => [HistoryIsKept]_lvars
  BY NextKeepsHistory
<1> QED
  BY LibraryInvariant, <1>1, PTL
     DEF Spec, SavingKeepsHistory, HistoryIsKept, KeepsHistory

-----------------------------------------------------------------------------
(* Saves that no other request disturbs.                                   *)

\* uq_saved_jobs_profile_provider and uq_saved_jobs_profile_dedup.
UniqueRows ==
  \A r, t \in DOMAIN rows :
    /\ rows[r].profile = rows[t].profile
    /\ \/ rows[r].listing.source = rows[t].listing.source
       \/ rows[r].listing.role = rows[t].listing.role
    => r = t

\* Who is alone and in progress is the only one in progress.
AloneInv ==
  \A p, q \in DOMAIN requests :
    /\ requests[q].alone
    /\ requests[p].step # "done" /\ requests[q].step # "done"
    => p = q

Undisturbed(req) == req.op = "save" /\ req.alone /\ req.identity = req.result.source

\* Nobody in progress has been refused yet, and what an undisturbed save has found out
\* is still so.
Sure(req) ==
  /\ req.step # "done" => req.answer # "error"
  /\ Undisturbed(req) =>
       /\ req.step \in {"dedup", "merge"} => BySource(req.profile, req.result.source) = {}
       /\ req.step = "merge" =>
            /\ req.row \in DOMAIN rows
            /\ rows[req.row].profile = req.profile
            /\ rows[req.row].listing = req.copy
            /\ req.copy.role = req.result.role
       /\ req.step = "upsert" =>
            \/ BySource(req.profile, req.result.source) # {}
            \/ ByRole(req.profile, req.result.role) = {}

SavesInv ==
  /\ UniqueRows
  /\ AloneInv
  /\ \A q \in DOMAIN requests : Sure(requests[q])

\* A step of the only request in progress leaves the others as sure as they were.
LEMMA StepLeavesOthersSure ==
  ASSUME LibraryInv, SavesInv, NEW q \in Active, NEW req \in Saving \cup Editing,
         GoOn(q, req), req.alone = requests[q].alone, Sure(requests[q])', UniqueRows'
  PROVE  SavesInv'
<1>1. /\ DOMAIN requests' = DOMAIN requests /\ q \in DOMAIN requests
      /\ requests'[q] = req /\ requests[q].step # "done"
      /\ \A p \in DOMAIN requests \ {q} : requests'[p] = requests[p]
  BY GoOnKeepsRequests DEF Active, LibraryInv
<1>2. AloneInv'
  BY <1>1 DEF SavesInv, AloneInv
<1>3. ASSUME NEW p \in DOMAIN requests'
      PROVE  Sure(requests[p])'
  <2>1. CASE p = q
    BY <2>1
  <2>2. CASE p # q
    <3>1. requests'[p] = requests[p] /\ Sure(requests[p])
      BY <1>1, <2>2 DEF SavesInv
    <3>2. requests[p].alone => requests[p].step = "done"
      BY <1>1, <2>2 DEF SavesInv, AloneInv
    <3> QED
      BY <3>1, <3>2 DEF Sure, Undisturbed
  <2> QED
    BY <2>1, <2>2
<1> QED
  BY <1>2, <1>3 DEF SavesInv

\* The request that arrives takes from the others in progress that they are alone.
LEMMA ArriveKeepsSaves ==
  ASSUME LibraryInv, SavesInv, NEW req \in Saving \cup Editing, Arrive(req), Sure(req),
         req.alone, UNCHANGED <<rows, inserted>>
  PROVE  SavesInv'
<1> DEFINE new == [req EXCEPT !.alone = Active = {}]
           old(q) == [requests[q] EXCEPT !.alone = @ /\ q \notin Active]
<1>1. /\ new.alone = (Active = {})
      /\ new.op = req.op /\ new.step = req.step /\ new.profile = req.profile
      /\ new.row = req.row /\ new.answer = req.answer
      /\ new.op = "save" => /\ new.identity = req.identity /\ new.result = req.result
                            /\ new.copy = req.copy
  BY DEF Saving, Editing
<1>2. ASSUME NEW q \in DOMAIN requests
      PROVE  /\ old(q).alone = (requests[q].alone /\ q \notin Active)
             /\ old(q).op = requests[q].op /\ old(q).step = requests[q].step
             /\ old(q).answer = requests[q].answer
             /\ old(q).op = "save" => /\ old(q).identity = requests[q].identity
                                      /\ old(q).result = requests[q].result
  <2>1. requests[q] \in Saving \cup Editing
    BY DEF LibraryInv, RequestsInv
  <2> QED
    BY <2>1 DEF Saving, Editing
<1>3. /\ requests' = [q \in DOMAIN requests \cup {Arrival} |->
                        IF q = Arrival THEN new ELSE old(q)]
      /\ Arrival \notin DOMAIN requests
  BY ArrivalIsNext DEF Arrive, LibraryInv
<1> HIDE DEF new, old
<1>4. /\ requests'[Arrival] = new
      /\ \A q \in DOMAIN requests : requests'[q] = old(q)
      /\ DOMAIN requests' = DOMAIN requests \cup {Arrival}
  BY <1>3
<1>5. \A q \in DOMAIN requests :
        old(q).alone => requests[q].alone /\ old(q).step = "done" /\ requests[q].step = "done"
  BY <1>2 DEF Active
<1>6. AloneInv'
  <2> SUFFICES ASSUME NEW p \in DOMAIN requests', NEW q \in DOMAIN requests',
                      requests'[q].alone, requests'[p].step # "done",
                      requests'[q].step # "done"
               PROVE  p = q
    BY DEF AloneInv
  <2>1. q = Arrival
    BY <1>4, <1>5
  <2>2. Active = {}
    BY <1>1, <1>4, <2>1
  <2>3. p \notin DOMAIN requests
    BY <1>2, <1>4, <2>2 DEF Active
  <2> QED
    BY <1>4, <2>1, <2>3
<1>7. ASSUME NEW q \in DOMAIN requests'
      PROVE  Sure(requests[q])'
  <2>1. CASE q = Arrival
    BY <1>1, <1>4, <2>1 DEF Sure, Undisturbed, BySource, ByRole, Owned
  <2>2. CASE q \in DOMAIN requests
    <3>1. Sure(requests[q])
      BY <2>2 DEF SavesInv
    <3> QED
      BY <1>2, <1>4, <1>5, <2>2, <3>1 DEF Sure, Undisturbed
  <2> QED
    BY <1>4, <2>1, <2>2
<1>8. UniqueRows'
  BY DEF SavesInv, UniqueRows
<1> QED
  BY <1>6, <1>7, <1>8 DEF SavesInv

LEMMA BeginSaveKeepsSaves ==
  ASSUME LibraryInv, SavesInv, NEW profile \in Profile, NEW result \in Result,
         NEW state \in State, NEW identity \in Identities(result),
         BeginSave(profile, result, identity, state)
  PROVE  SavesInv'
<1>1. result \in Listing /\ identity \in Source
  BY DEF Result, Listing, Identities
<1> DEFINE step == IF BySource(profile, identity) = {} THEN "dedup" ELSE "upsert"
           req == [op |-> "save", profile |-> profile, identity |-> identity,
                   step |-> step, result |-> result, state |-> state, row |-> NoRow,
                   copy |-> result, alone |-> TRUE, answer |-> "pending"]
<1>2. req \in Saving /\ req.alone
  BY <1>1 DEF Saving, NoRow
<1>3. Sure(req)
  BY DEF Sure, Undisturbed
<1>4. Arrive(req) /\ UNCHANGED <<rows, inserted>>
  BY DEF BeginSave
<1> HIDE DEF req
<1> QED
  BY <1>2, <1>3, <1>4, ArriveKeepsSaves

LEMMA BeginEditKeepsSaves ==
  ASSUME LibraryInv, SavesInv, NEW profile \in Profile, NEW r \in 1..inserted,
         (\E state \in State : BeginPatch(profile, r, state)) \/ BeginDelete(profile, r)
  PROVE  SavesInv'
<1>1. PICK op \in {"patch", "delete"}, step \in {"write", "done"}, state \in State,
           answer \in {"pending", "ok", "missing"} :
             Arrive(Edit(op, step, profile, state, r, answer))
  BY DEF BeginPatch, BeginDelete, State
<1> DEFINE req == Edit(op, step, profile, state, r, answer)
<1>2. req \in Editing /\ req.alone /\ req.op # "save" /\ req.answer # "error"
  BY DEF Edit, Editing, LibraryInv, RowsInv
<1>3. Sure(req)
  BY <1>2 DEF Sure, Undisturbed
<1>4. Arrive(req) /\ UNCHANGED <<rows, inserted>>
  BY <1>1 DEF BeginPatch, BeginDelete
<1> HIDE DEF req
<1> QED
  BY <1>2, <1>3, <1>4, ArriveKeepsSaves

LEMMA LookupRoleKeepsSaves ==
  ASSUME LibraryInv, SavesInv, NEW q \in Active, LookupRole(q)
  PROVE  SavesInv'
<1> DEFINE req == requests[q]
<1>1. /\ q \in DOMAIN requests /\ req \in Saving /\ UNCHANGED <<rows, inserted>>
      /\ Sure(req) /\ req.step = "dedup"
  BY SavesAreShaped DEF LookupRole, Active, SavesInv
<1>2. UniqueRows'
  BY <1>1 DEF SavesInv, UniqueRows
<1>3. CASE /\ ByRole(req.profile, req.result.role) = {}
           /\ GoOn(q, [req EXCEPT !.step = "upsert"])
  <2> DEFINE new == [req EXCEPT !.step = "upsert"]
  <2>1. /\ new \in Saving /\ new.alone = req.alone /\ new.step = "upsert"
        /\ new.profile = req.profile /\ new.result = req.result /\ new.op = req.op
        /\ new.identity = req.identity /\ new.answer = req.answer
    BY <1>1 DEF Saving
  <2>2. GoOn(q, new)
    BY <1>3
  <2> HIDE DEF new
  <2>3. requests'[q] = new
    BY <1>1, <2>1, <2>2, GoOnKeepsRequests DEF LibraryInv
  <2>4. Sure(requests[q])'
    BY <1>1, <1>3, <2>1, <2>3 DEF Sure, Undisturbed, ByRole, Owned
  <2> QED
    BY <1>2, <2>1, <2>2, <2>4, StepLeavesOthersSure
<1>4. CASE \E r \in ByRole(req.profile, req.result.role) :
             GoOn(q, [req EXCEPT !.step = "merge", !.row = r,
                                 !.copy = rows[r].listing])
  <2>1. PICK r \in ByRole(req.profile, req.result.role) :
               GoOn(q, [req EXCEPT !.step = "merge", !.row = r,
                                   !.copy = rows[r].listing])
    BY <1>4
  <2> DEFINE new == [req EXCEPT !.step = "merge", !.row = r,
                                !.copy = rows[r].listing]
  <2>2. /\ r \in DOMAIN rows /\ rows[r].profile = req.profile
        /\ rows[r].listing.role = req.result.role
    BY DEF ByRole, Owned
  <2>3. r \in Nat /\ rows[r].listing \in Listing
    BY <2>2 DEF LibraryInv, RowsInv, Agrees
  <2>4. /\ new \in Saving /\ new.alone = req.alone /\ new.step = "merge" /\ new.row = r
        /\ new.profile = req.profile /\ new.result = req.result /\ new.op = req.op
        /\ new.identity = req.identity /\ new.answer = req.answer
        /\ new.copy = rows[r].listing
    BY <1>1, <2>3 DEF Saving
  <2>5. GoOn(q, new)
    BY <2>1
  <2> HIDE DEF new
  <2>6. requests'[q] = new
    BY <1>1, <2>4, <2>5, GoOnKeepsRequests DEF LibraryInv
  <2>7. Sure(requests[q])'
    BY <1>1, <2>2, <2>4, <2>6 DEF Sure, Undisturbed, BySource, Owned
  <2> QED
    BY <1>2, <2>4, <2>5, <2>7, StepLeavesOthersSure
<1> QED
  BY <1>3, <1>4 DEF LookupRole

\* A request that answers.
LEMMA AnswerKeepsSaves ==
  ASSUME LibraryInv, SavesInv, NEW q \in Active, NEW answer \in {"ok", "error"},
         Answer(q, answer), UniqueRows'
  PROVE  SavesInv'
<1> DEFINE req == [requests[q] EXCEPT !.step = "done", !.answer = answer]
<1>1. q \in DOMAIN requests /\ requests[q] \in Saving \cup Editing
  BY DEF LibraryInv, RequestsInv, Active
<1>2. /\ req \in Saving \cup Editing /\ req.step = "done" /\ req.answer = answer
      /\ req.alone = requests[q].alone /\ req.op = requests[q].op
      /\ req.op = "save" => /\ req.identity = requests[q].identity
                            /\ req.result = requests[q].result
  BY <1>1 DEF Saving, Editing
<1>3. GoOn(q, req)
  BY DEF Answer
<1> HIDE DEF req
<1>4. requests'[q] = req
  BY <1>1, <1>2, <1>3, GoOnKeepsRequests DEF LibraryInv
<1>5. Sure(requests[q])'
  BY <1>2, <1>4 DEF Sure, Undisturbed
<1> QED
  BY <1>2, <1>3, <1>5, StepLeavesOthersSure

\* A listing that conflicts with no other row of the profile.
LEMMA PutKeepsUnique ==
  ASSUME UniqueRows, NEW r, NEW row, PutRow(r, row),
         ~Conflict(r, row.profile, row.listing)
  PROVE  UniqueRows'
<1>1. ASSUME NEW t \in DOMAIN rows, t # r, rows[t].profile = row.profile
      PROVE  /\ rows[t].listing.source # row.listing.source
             /\ rows[t].listing.role # row.listing.role
  BY <1>1 DEF Conflict, BySource, ByRole, Owned
<1>2. /\ DOMAIN rows' = DOMAIN rows \cup {r}
      /\ rows'[r] = row /\ \A t \in DOMAIN rows \ {r} : rows'[t] = rows[t]
  BY DEF PutRow
<1> QED
  BY <1>1, <1>2 DEF UniqueRows

LEMMA MergeKeepsSaves ==
  ASSUME LibraryInv, SavesInv, NEW q \in Active, Merge(q)
  PROVE  SavesInv'
<1> DEFINE req == requests[q]
           row == MergedRow(req, q, rows[req.row])
<1>1. /\ q \in DOMAIN requests /\ req \in Saving /\ req.step = "merge"
      /\ Claim(req) /\ UniqueRows
  BY SavesAreShaped DEF Merge, Active, SavesInv, LibraryInv
<1>2. CASE /\ req.row \in DOMAIN rows
           /\ ~Conflict(req.row, req.profile, row.listing)
           /\ PutRow(req.row, row)
           /\ Answer(q, "ok")
  <2>1. row.profile = req.profile
    <3>1. Agrees(rows[req.row]) /\ rows[req.row].profile = req.profile
      BY <1>1, <1>2 DEF LibraryInv, RowsInv, Claim
    <3> QED
      BY <1>1, <3>1, MergedRowAgrees
  <2> HIDE DEF row
  <2>2. UniqueRows'
    BY <1>1, <1>2, <2>1, PutKeepsUnique
  <2> QED
    BY <1>2, <2>2, AnswerKeepsSaves
<1>3. CASE Answer(q, "error") /\ UNCHANGED rows
  <2>1. UniqueRows'
    BY <1>1, <1>3 DEF UniqueRows
  <2> QED
    BY <1>3, <2>1, AnswerKeepsSaves
<1> QED
  BY <1>2, <1>3 DEF Merge

LEMMA UpsertKeepsSaves ==
  ASSUME LibraryInv, SavesInv, NEW q \in Active, Upsert(q)
  PROVE  SavesInv'
<1> DEFINE req == requests[q]
           same == BySource(req.profile, req.result.source)
<1>1. UniqueRows
  BY DEF SavesInv
<1>2. CASE \E r \in same :
             /\ ~Conflict(r, req.profile, req.result)
             /\ PutRow(r, [rows[r] EXCEPT
                             !.listing = req.result, !.state = req.state,
                             !.appliedAt = UpsertAppliedAt(req, q, @)])
             /\ Answer(q, "ok")
  <2>1. PICK r \in same :
             /\ ~Conflict(r, req.profile, req.result)
             /\ PutRow(r, [rows[r] EXCEPT
                             !.listing = req.result, !.state = req.state,
                             !.appliedAt = UpsertAppliedAt(req, q, @)])
             /\ Answer(q, "ok")
    BY <1>2
  <2> DEFINE at == UpsertAppliedAt(req, q, rows[r].appliedAt)
             row == [rows[r] EXCEPT !.listing = req.result, !.state = req.state,
                                    !.appliedAt = at]
  <2>2. r \in DOMAIN rows /\ rows[r].profile = req.profile
    BY DEF BySource, Owned
  <2>3. PutRow(r, row)
    BY <2>1
  <2> HIDE DEF at
  <2>4. row.profile = req.profile /\ row.listing = req.result
    <3>1. Agrees(rows[r])
      BY <2>2 DEF LibraryInv, RowsInv
    <3> QED
      BY <2>2, <3>1 DEF Agrees
  <2> HIDE DEF row
  <2>5. UniqueRows'
    BY <1>1, <2>1, <2>3, <2>4, PutKeepsUnique
  <2> QED
    BY <2>1, <2>5, AnswerKeepsSaves
<1>3. CASE /\ ~Conflict(NoRow, req.profile, req.result)
           /\ inserted' = inserted + 1
           /\ PutRow(inserted', [profile |-> req.profile, listing |-> req.result,
                                 state |-> req.state, savedAt |-> q,
                                 appliedAt |-> UpsertAppliedAt(req, q, NoTime)])
           /\ Answer(q, "ok")
  <2> DEFINE row == [profile |-> req.profile, listing |-> req.result,
                     state |-> req.state, savedAt |-> q,
                     appliedAt |-> UpsertAppliedAt(req, q, NoTime)]
  <2>1. NoRow \notin DOMAIN rows
    BY DEF LibraryInv, RowsInv, NoRow
  <2>2. ~Conflict(inserted', req.profile, req.result)
    BY <1>3, <2>1 DEF Conflict, BySource, ByRole, Owned
  <2>3. PutRow(inserted', row) /\ row.profile = req.profile /\ row.listing = req.result
    BY <1>3
  <2> HIDE DEF row
  <2>4. UniqueRows'
    BY <1>1, <2>2, <2>3, PutKeepsUnique
  <2> QED
    BY <1>3, <2>4, AnswerKeepsSaves
<1>4. CASE Answer(q, "error") /\ UNCHANGED <<rows, inserted>>
  <2>1. UniqueRows'
    BY <1>1, <1>4 DEF UniqueRows
  <2> QED
    BY <1>4, <2>1, AnswerKeepsSaves
<1> QED
  BY <1>2, <1>3, <1>4 DEF Upsert

LEMMA EditKeepsSaves ==
  ASSUME LibraryInv, SavesInv, NEW q \in Active, WritePatch(q) \/ WriteDelete(q)
  PROVE  SavesInv'
<1>1. UniqueRows
  BY DEF SavesInv
<1>2. UniqueRows'
  <2>1. /\ DOMAIN rows' \subseteq DOMAIN rows
        /\ \A r \in DOMAIN rows' : /\ rows'[r].profile = rows[r].profile
                                   /\ rows'[r].listing = rows[r].listing
    <3>1. \A r \in DOMAIN rows : Agrees(rows[r])
      BY DEF LibraryInv, RowsInv
    <3>2. CASE WriteDelete(q)
      BY <3>2 DEF WriteDelete
    <3>3. CASE WritePatch(q)
      <4> DEFINE x == requests[q].row
      <4>1. CASE x \notin DOMAIN rows
        <5>1. rows' = rows
          BY <3>3, <4>1 DEF WritePatch
        <5> QED
          BY <5>1
      <4>2. CASE x \in DOMAIN rows
        <5> DEFINE row == [rows[x] EXCEPT
                             !.state = requests[q].state,
                             !.appliedAt = IF requests[q].state = "applied" THEN q ELSE NoTime]
        <5>1. rows' = [y \in DOMAIN rows \cup {x} |-> IF y = x THEN row ELSE rows[y]]
          BY <3>3, <4>2 DEF WritePatch, PutRow
        <5>2. row.profile = rows[x].profile /\ row.listing = rows[x].listing
          <6>1. rows[x] \in [profile : Profile, listing : Listing, state : State,
                             savedAt : Nat, appliedAt : Nat]
            BY <3>1, <4>2 DEF Agrees
          <6> QED
            BY <6>1
        <5>3. DOMAIN rows \cup {x} = DOMAIN rows
          BY <4>2
        <5> HIDE DEF row, x
        <5> QED
          BY <5>1, <5>2, <5>3
      <4> QED
        BY <4>1, <4>2
    <3> QED
      BY <3>2, <3>3
  <2> QED
    BY <1>1, <2>1 DEF UniqueRows
<1>3. PICK answer \in {"ok", "error"} : Answer(q, answer)
  BY DEF WritePatch, WriteDelete
<1> QED
  BY <1>2, <1>3, AnswerKeepsSaves

LEMMA NextKeepsSaves ==
  ASSUME LibraryInv, SavesInv, [Next]_lvars
  PROVE  SavesInv'
<1>1. CASE UNCHANGED lvars
  BY <1>1 DEF lvars, SavesInv, UniqueRows, AloneInv, Sure, Undisturbed, BySource,
              ByRole, Owned
<1>2. CASE Next
  BY <1>2, BeginSaveKeepsSaves, BeginEditKeepsSaves, LookupRoleKeepsSaves,
     MergeKeepsSaves, UpsertKeepsSaves, EditKeepsSaves DEF Next, SaveStep
<1> QED
  BY <1>1, <1>2

\* The library holds the listing of this save under another role, and its role in
\* another row.
Retitled(req) ==
  \E r, t \in Owned(req.profile) :
    /\ rows[r].listing.source = req.result.source
    /\ rows[r].listing.role # req.result.role
    /\ rows[t].listing.role = req.result.role

\* A merge whose row is as it was read meets neither constraint.
LEMMA UndisturbedMergeSucceeds ==
  ASSUME LibraryInv, SavesInv, NEW q \in Active, Merge(q), Undisturbed(requests[q])
  PROVE  Answer(q, "ok")
<1> DEFINE req == requests[q]
           new == [source |-> req.result.source, role |-> req.result.role,
                   others |-> MergedSources(req.copy, req.result)]
           row == MergedRow(req, q, rows[req.row])
<1>1. req.step = "merge" /\ Sure(req) /\ UniqueRows
  BY DEF Merge, Active, SavesInv
<1>2. /\ req.row \in DOMAIN rows /\ rows[req.row].profile = req.profile
      /\ rows[req.row].listing = req.copy /\ req.copy.role = req.result.role
      /\ BySource(req.profile, req.result.source) = {}
  BY <1>1 DEF Sure
<1>3. row.listing = Flushed(rows[req.row].listing, req.copy, new)
  <2>1. Agrees(rows[req.row])
    BY <1>2 DEF LibraryInv, RowsInv
  <2> QED
    BY <2>1 DEF MergedRow, Agrees
<1>4. row.listing.source = req.result.source /\ row.listing.role = req.result.role
  BY <1>2, <1>3 DEF Flushed
<1>5. \A t \in ByRole(req.profile, req.result.role) : t = req.row
  BY <1>1, <1>2 DEF ByRole, Owned, UniqueRows
<1>6. ~Conflict(req.row, req.profile, row.listing)
  <2> HIDE DEF row
  <2> QED
    BY <1>2, <1>4, <1>5 DEF Conflict
<1> QED
  BY <1>2, <1>6 DEF Merge

\* An insert meets neither, and an update of the row that has the listing only the one
\* on the dedup key.
LEMMA UndisturbedUpsertRefused ==
  ASSUME LibraryInv, SavesInv, NEW q \in Active, Upsert(q), Undisturbed(requests[q])
  PROVE  Answer(q, "ok") \/ Retitled(requests[q])
<1> DEFINE req == requests[q]
           same == BySource(req.profile, req.result.source)
<1>1. Sure(req) /\ req.step = "upsert" /\ UniqueRows
  BY DEF Upsert, Active, SavesInv
<1>2. ASSUME NEW r \in (IF same = {} THEN {NoRow} ELSE same),
             Conflict(r, req.profile, req.result)
      PROVE  Retitled(req)
  <2>1. same # {}
    BY <1>1, <1>2 DEF Sure, Conflict
  <2>2. r \in Owned(req.profile) /\ rows[r].listing.source = req.result.source
    BY <1>2, <2>1 DEF BySource
  <2>3. PICK t \in Owned(req.profile) \ {r} :
               \/ rows[t].listing.source = req.result.source
               \/ rows[t].listing.role = req.result.role
    BY <1>2 DEF Conflict, BySource, ByRole
  <2>4. /\ rows[t].listing.source # rows[r].listing.source
        /\ rows[t].listing.role # rows[r].listing.role
    BY <1>1, <2>2, <2>3 DEF UniqueRows, Owned
  <2> QED
    BY <2>2, <2>3, <2>4 DEF Retitled
<1> QED
  BY <1>2 DEF Upsert

\* What RefusedOnlyIfRetitled says of a step.
RefusedRetitled ==
  \A q \in Active :
    /\ ByOwnIdentity(q) /\ requests[q].alone
    /\ requests'[q].answer = "error"
    => \E r, t \in Owned(requests[q].profile) :
         /\ rows[r].listing.source = requests[q].result.source
         /\ rows[r].listing.role # requests[q].result.role
         /\ rows[t].listing.role = requests[q].result.role

\* Only the step of the save itself can refuse it.
LEMMA NextRefusesRetitled ==
  ASSUME LibraryInv, SavesInv, [Next]_lvars
  PROVE  [RefusedRetitled]_lvars
<1>1. ASSUME NEW q \in Active, Undisturbed(requests[q]), requests'[q].answer = "error"
      PROVE  Retitled(requests[q])
  <2>1. /\ q \in DOMAIN requests /\ requests[q].step # "done"
        /\ requests[q].answer # "error" /\ requests[q] \in Saving
    BY <1>1 DEF Active, SavesInv, Sure, LibraryInv, RequestsInv, Undisturbed, Editing
  <2>2. CASE UNCHANGED lvars
    BY <1>1, <2>1, <2>2 DEF lvars
  <2>3. CASE \E req : Arrive(req)
    <3>1. requests'[q] = [requests[q] EXCEPT !.alone = @ /\ q \notin Active]
      BY <2>1, <2>3, ArrivalIsNext DEF Arrive, LibraryInv
    <3> QED
      BY <1>1, <2>1, <3>1 DEF Saving
  <2>4. CASE \E p \in Active : SaveStep(p) \/ WritePatch(p) \/ WriteDelete(p)
    <3>1. PICK p \in Active : SaveStep(p) \/ WritePatch(p) \/ WriteDelete(p)
      BY <2>4
    <3>2. p = q
      BY <1>1, <2>1, <3>1, StepKeepsInv DEF Active
    <3>3. SaveStep(q)
      BY <1>1, <3>1, <3>2 DEF WritePatch, WriteDelete, Undisturbed
    <3>4. ~Answer(q, "ok")
      <4>1. ASSUME Answer(q, "ok")
            PROVE  requests'[q].answer = "ok"
        BY <2>1, <4>1 DEF Answer, GoOn, Saving
      <4> QED
        BY <1>1, <4>1
    <3>5. ~LookupRole(q)
      <4>1. ASSUME LookupRole(q)
            PROVE  requests'[q].answer = requests[q].answer
        BY <2>1, <4>1 DEF LookupRole, GoOn, Saving
      <4> QED
        BY <1>1, <2>1, <4>1
    <3> QED
      BY <1>1, <3>3, <3>4, <3>5, UndisturbedMergeSucceeds, UndisturbedUpsertRefused
         DEF SaveStep
  <2> QED
    BY <2>2, <2>3, <2>4 DEF Next, BeginSave, BeginPatch, BeginDelete
<1> QED
  BY <1>1 DEF RefusedRetitled, Retitled, Undisturbed, ByOwnIdentity

\* save_library_job, whatever the table holds: a save by the canonical source that no
\* other request disturbs meets a unique constraint only if its listing has been
\* retitled into the role of another row.
THEOREM RefusalsMeanRetitled == Spec => RefusedOnlyIfRetitled
<1>1. Init => SavesInv
  BY DEF Init, SavesInv, UniqueRows, AloneInv
<1>2. LibraryInv /\ SavesInv /\ [Next]_lvars => SavesInv'
  BY NextKeepsSaves
<1>3. LibraryInv /\ SavesInv /\ [Next]_lvars => [RefusedRetitled]_lvars
  BY NextRefusesRetitled
<1> QED
  BY <1>1, <1>2, <1>3, LibraryInvariant, PTL
     DEF Spec, RefusedOnlyIfRetitled, RefusedRetitled

-----------------------------------------------------------------------------
(* A library that comes out of the migration.                              *)

\* A table of revision 004: ids are numbers, its rows are well formed and a profile has
\* a listing once.
LegacyInv ==
  /\ DOMAIN legacy \subseteq 1..inserted
  /\ \A r \in DOMAIN legacy : Agrees(legacy[r])
  /\ \A r, t \in DOMAIN legacy :
       /\ legacy[r].profile = legacy[t].profile
       /\ legacy[r].listing.source = legacy[t].listing.source
       => r = t

\* Until the migration is through there are no rows and no request is in progress.
UpgradeInv ==
  /\ LibraryInv
  /\ LegacyInv
  /\ legacy # NoRows => \A q \in DOMAIN requests : requests[q].step = "done"

LEMMA EarlierIsShaped ==
  ASSUME NEW row, Agrees(row)
  PROVE  Earlier(row) \in Saving /\ Earlier(row).step = "done"
BY DEF Agrees, Earlier, Saving, Listing, NoRow

LEMMA InitUpgradeInv ==
  ASSUME UpgradeInit
  PROVE  UpgradeInv
<1>1. PICK n \in 0..MaxLegacy : \E table \in LegacyTable(n) :
        /\ legacy = table
        /\ rows = NoRows
        /\ inserted = n
        /\ requests = [q \in 1..n |-> Earlier(table[q])]
  BY DEF UpgradeInit
<1>2. legacy \in LegacyTable(n) /\ requests = [q \in 1..n |-> Earlier(legacy[q])]
  BY <1>1
<1>3. n \in Nat /\ DOMAIN legacy = 1..n
  BY <1>2, UpgradeAssumption, LibraryAssumption DEF LegacyTable
<1>4. ASSUME NEW r \in DOMAIN legacy
      PROVE  Agrees(legacy[r])
  <2>1. legacy[r] \in Row /\ (legacy[r].state = "applied") = (legacy[r].appliedAt # NoTime)
    BY <1>2, <1>3 DEF LegacyTable
  <2>2. Time \subseteq Nat /\ NoTime \in Nat
    BY LibraryAssumption DEF Time, NoTime
  <2> QED
    BY <2>1, <2>2 DEF Row, Agrees
<1>5. \A q \in 1..n : Earlier(legacy[q]) \in Saving /\ Earlier(legacy[q]).step = "done"
  BY <1>3, <1>4, EarlierIsShaped
<1>6. RequestsInv /\ \A q \in DOMAIN requests : requests[q].step = "done"
  BY <1>2, <1>3, <1>5 DEF RequestsInv
<1>7. RowsInv
  BY <1>1, <1>3 DEF NoRows, RowsInv
<1>8. \A r, t \in DOMAIN legacy :
        /\ legacy[r].profile = legacy[t].profile
        /\ legacy[r].listing.source = legacy[t].listing.source
        => r = t
  BY <1>2, <1>3 DEF LegacyTable
<1> QED
  BY <1>1, <1>3, <1>4, <1>6, <1>7, <1>8 DEF UpgradeInv, LegacyInv, LibraryInv, Claim

LEMMA UpgradeKeepsInv ==
  ASSUME UpgradeInv, Upgrade
  PROVE  UpgradeInv'
<1>1. RowsInv'
  <2>1. DOMAIN rows' = Winners /\ Winners \subseteq DOMAIN legacy
    BY DEF Upgrade, Folded, Winners
  <2>2. ASSUME NEW r \in Winners
        PROVE  Agrees(Folded[r])
    <3> DEFINE others == {legacy[t].listing.source : t \in Group(r) \ {r}}
    <3>1. Agrees(legacy[r])
      BY <2>1 DEF UpgradeInv, LegacyInv
    <3>2. others \in SUBSET Source
      BY DEF Group, UpgradeInv, LegacyInv, Agrees, Listing
    <3>3. Folded[r] = [legacy[r] EXCEPT !.listing.others = others]
      BY DEF Folded
    <3> HIDE DEF others
    <3>4. [legacy[r].listing EXCEPT !.others = others] \in Listing
      BY <3>1, <3>2 DEF Agrees, Listing
    <3>5. Folded[r] = [legacy[r] EXCEPT !.listing = [legacy[r].listing EXCEPT !.others = others]]
      BY <3>3
    <3> QED
      BY <3>1, <3>4, <3>5 DEF Agrees
  <2> QED
    BY <2>1, <2>2 DEF Upgrade, UpgradeInv, LegacyInv, LibraryInv, RowsInv, Agrees
<1>2. RequestsInv' /\ \A q \in DOMAIN requests' : requests'[q].step = "done"
  BY DEF Upgrade, UpgradeInv, LibraryInv, RequestsInv
<1>3. legacy' = NoRows
  BY DEF Upgrade
<1> QED
  BY <1>1, <1>2, <1>3 DEF UpgradeInv, LegacyInv, LibraryInv, Claim, NoRows

LEMMA UpgradeNextKeepsInv ==
  ASSUME UpgradeInv, [UpgradeNext]_uvars
  PROVE  UpgradeInv'
<1>1. CASE Upgrade
  BY <1>1, UpgradeKeepsInv
<1>2. CASE legacy = NoRows /\ Next /\ UNCHANGED legacy
  <2>1. LibraryInv'
    BY <1>2, NextKeepsInv DEF UpgradeInv
  <2> QED
    BY <1>2, <2>1 DEF UpgradeInv, LegacyInv, NoRows
<1>3. CASE UNCHANGED uvars
  <2>1. LibraryInv'
    BY <1>3, NextKeepsInv DEF UpgradeInv, uvars, lvars
  <2> QED
    BY <1>3, <2>1 DEF UpgradeInv, LegacyInv, uvars, Agrees
<1> QED
  BY <1>1, <1>2, <1>3 DEF UpgradeNext

THEOREM UpgradeInvariant == UpgradeSpec => []UpgradeInv
<1>1. UpgradeInit => UpgradeInv
  BY InitUpgradeInv
<1>2. UpgradeInv /\ [UpgradeNext]_uvars => UpgradeInv'
  BY UpgradeNextKeepsInv
<1> QED
  BY <1>1, <1>2, PTL DEF UpgradeSpec

\* Among the rows of one role there is one that the migration prefers to all others.
LEMMA SomeoneWins ==
  ASSUME LegacyInv, inserted \in Nat, NEW r \in DOMAIN legacy
  PROVE  \E w \in Winners : r \in Group(w)
<1> DEFINE applied == {t \in Group(r) : legacy[t].state = "applied"}
           foremost == IF applied = {} THEN Group(r) ELSE applied
           times == {legacy[t].savedAt : t \in foremost}
<1>1. r \in Group(r) /\ Group(r) \subseteq DOMAIN legacy
  BY DEF Group
<1>2. foremost # {} /\ foremost \subseteq Group(r)
  BY <1>1
<1>3. /\ \A t \in Group(r) : legacy[t].savedAt \in Nat /\ legacy[t].state \in {"saved", "applied"}
      /\ \A t \in Group(r) : t \in Nat
  BY <1>1 DEF LegacyInv, Agrees, State
<1>4. PICK at \in times : \A time \in times : at <= time
  <2>1. times \in SUBSET Nat /\ times # {}
    BY <1>2, <1>3
  <2> QED
    BY <2>1, LeastNumber
<1> DEFINE oldest == {t \in foremost : legacy[t].savedAt = at}
<1>5. PICK w \in oldest : \A t \in oldest : w <= t
  <2>1. oldest \in SUBSET Nat /\ oldest # {}
    BY <1>2, <1>3, <1>4
  <2> QED
    BY <2>1, LeastNumber
<1>6. w \in Group(r) /\ w \in foremost /\ legacy[w].savedAt = at
  BY <1>2, <1>5
<1>7. Group(w) = Group(r)
  BY <1>6 DEF Group
<1>8. ASSUME NEW t \in Group(r) \ {w}
      PROVE  Preferred(w, t)
  <2>1. CASE t \notin foremost
    BY <1>3, <1>6, <2>1 DEF Preferred
  <2>2. CASE t \in foremost
    <3>1. legacy[w].state = legacy[t].state
      BY <1>3, <1>6, <2>2
    <3>2. at <= legacy[t].savedAt
      BY <1>4, <2>2
    <3>3. legacy[t].savedAt = at => w <= t
      BY <1>5, <2>2
    <3> QED
      BY <1>3, <1>6, <3>1, <3>2, <3>3 DEF Preferred
  <2> QED
    BY <2>1, <2>2
<1> QED
  BY <1>1, <1>6, <1>7, <1>8 DEF Winners

\* Whatever rows a table of revision 004 holds, the migration leaves every listing a
\* profile had saved in a row of that profile, which is applied for if the listing was.
THEOREM UpgradeAlwaysForgetsNothing == UpgradeSpec => UpgradeForgetsNothing
<1> DEFINE Kept ==
      \A r \in DOMAIN legacy :
        \E t \in DOMAIN rows' :
          /\ rows'[t].profile = legacy[r].profile
          /\ legacy[r].listing.source \in Identities(rows'[t].listing)
          /\ legacy[r].state = "applied" => rows'[t].state = "applied"
<1>1. ASSUME UpgradeInv, Upgrade, NEW r \in DOMAIN legacy
      PROVE  \E t \in DOMAIN rows' :
               /\ rows'[t].profile = legacy[r].profile
               /\ legacy[r].listing.source \in Identities(rows'[t].listing)
               /\ legacy[r].state = "applied" => rows'[t].state = "applied"
  <2>1. PICK w \in Winners : r \in Group(w)
    BY <1>1, SomeoneWins DEF UpgradeInv, LibraryInv, RowsInv
  <2> DEFINE others == {legacy[t].listing.source : t \in Group(w) \ {w}}
  <2>2. w \in DOMAIN rows' /\ rows'[w] = [legacy[w] EXCEPT !.listing.others = others]
    BY <1>1 DEF Upgrade, Folded
  <2>3. w \in DOMAIN legacy /\ Agrees(legacy[w]) /\ Agrees(legacy[r])
    BY <1>1, <2>1 DEF Winners, UpgradeInv, LegacyInv
  <2>4. r # w => legacy[r].listing.source \in others
    BY <2>1
  <2> HIDE DEF others
  <2>5. /\ rows'[w].profile = legacy[w].profile
        /\ rows'[w].state = legacy[w].state
        /\ rows'[w].listing.source = legacy[w].listing.source
        /\ rows'[w].listing.others = others
    BY <2>2, <2>3 DEF Agrees, Listing
  <2>6. legacy[w].profile = legacy[r].profile
    BY <2>1 DEF Group
  <2>7. legacy[r].state = "applied" => legacy[w].state = "applied"
    BY <2>1, <2>3 DEF Winners, Preferred, Agrees, State
  <2> QED
    BY <2>2, <2>4, <2>5, <2>6, <2>7 DEF Identities
<1>2. UpgradeInv /\ [UpgradeNext]_uvars => [Kept]_legacy
  BY <1>1 DEF UpgradeNext, uvars
<1> QED
  BY UpgradeInvariant, <1>2, PTL DEF UpgradeSpec, UpgradeForgetsNothing

\* Also in a library that comes out of the migration, whatever requests follow, a saved
\* job is "applied" exactly if it has an applied_at.
THEOREM AppliedAtAgreesAfterUpgrade == UpgradeSpec => []AppliedAtAgrees
<1>1. UpgradeInv => AppliedAtAgrees
  BY DEF UpgradeInv, LibraryInv, RowsInv, Agrees, AppliedAtAgrees
<1> QED
  BY UpgradeInvariant, <1>1, PTL

\* What the migration itself does, no request has done.
LEMMA UpgradeIsQuiet ==
  ASSUME UpgradeInv, [UpgradeNext]_uvars
  PROVE  [Isolated]_lvars /\ [HistoryIsKept]_lvars
<1>1. CASE Upgrade
  BY <1>1 DEF Upgrade, Isolated, HistoryIsKept
<1>2. CASE Next \/ UNCHANGED uvars
  <2>1. [Next]_lvars
    BY <1>2 DEF uvars, lvars
  <2> QED
    BY <2>1, NextIsIsolated, NextKeepsHistory DEF UpgradeInv
<1> QED
  BY <1>1, <1>2 DEF UpgradeNext

\* The same of the requests that follow a migration.
THEOREM IsolatedAfterUpgrade == UpgradeSpec => ProfilesAreIsolated
<1>1. UpgradeInv /\ [UpgradeNext]_uvars => [Isolated]_lvars
  BY UpgradeIsQuiet
<1> QED
  BY UpgradeInvariant, <1>1, PTL DEF UpgradeSpec, ProfilesAreIsolated, Isolated

\* A library that has been migrated keeps its history as well.
THEOREM HistoryKeptAfterUpgrade == UpgradeSpec => SavingKeepsHistory
<1>1. UpgradeInv /\ [UpgradeNext]_uvars => [HistoryIsKept]_lvars
  BY UpgradeIsQuiet
<1> QED
  BY UpgradeInvariant, <1>1, PTL
     DEF UpgradeSpec, SavingKeepsHistory, HistoryIsKept, KeepsHistory

\* The unique constraint that ends the migration leaves each role once, and a profile
\* had each listing once.
LEMMA UpgradeKeepsSaves ==
  ASSUME UpgradeInv, SavesInv, Upgrade
  PROVE  SavesInv'
<1>1. /\ requests' = requests
      /\ \A q \in DOMAIN requests : requests[q].step = "done"
  BY DEF Upgrade, UpgradeInv
<1>2. UniqueRows'
  <2>1. ASSUME NEW r \in Winners
        PROVE  /\ rows'[r].profile = legacy[r].profile
               /\ rows'[r].listing.source = legacy[r].listing.source
               /\ rows'[r].listing.role = legacy[r].listing.role
               /\ r \in DOMAIN legacy
    <3> DEFINE others == {legacy[t].listing.source : t \in Group(r) \ {r}}
    <3>1. r \in DOMAIN legacy /\ Agrees(legacy[r])
      BY DEF Winners, UpgradeInv, LegacyInv
    <3>2. rows'[r] = [legacy[r] EXCEPT !.listing.others = others]
      BY DEF Upgrade, Folded
    <3> HIDE DEF others
    <3> QED
      BY <3>1, <3>2 DEF Agrees, Listing
  <2>2. DOMAIN rows' = Winners /\ \A r, t \in Winners : t \in Group(r) => r = t
    BY DEF Upgrade, Folded
  <2> QED
    BY <2>1, <2>2 DEF UniqueRows, Group, UpgradeInv, LegacyInv
<1>3. AloneInv'
  BY <1>1 DEF AloneInv
<1>4. ASSUME NEW q \in DOMAIN requests'
      PROVE  Sure(requests[q])'
  <2>1. Sure(requests[q])
    BY <1>1 DEF SavesInv
  <2> QED
    BY <1>1, <2>1 DEF Sure, Undisturbed
<1> QED
  BY <1>2, <1>3, <1>4 DEF SavesInv

\* In a library that comes out of the migration as well.
THEOREM RefusalsMeanRetitledAfterUpgrade == UpgradeSpec => RefusedOnlyIfRetitled
<1>1. UpgradeInit => SavesInv
  <2> SUFFICES ASSUME UpgradeInit
               PROVE  SavesInv
    OBVIOUS
  <2>1. PICK n, table : rows = NoRows /\ requests = [q \in 1..n |-> Earlier(table[q])]
    BY DEF UpgradeInit
  <2>2. DOMAIN rows = {}
    BY <2>1 DEF NoRows
  <2>3. \A q \in DOMAIN requests : /\ requests[q].step = "done" /\ ~requests[q].alone
                                   /\ requests[q].answer = "ok"
    BY <2>1 DEF Earlier
  <2>4. UniqueRows
    BY <2>2 DEF UniqueRows
  <2>5. AloneInv
    BY <2>3 DEF AloneInv
  <2>6. \A q \in DOMAIN requests : Sure(requests[q])
    BY <2>3 DEF Sure, Undisturbed
  <2> QED
    BY <2>4, <2>5, <2>6 DEF SavesInv
<1>2. ASSUME UpgradeInv, SavesInv, [UpgradeNext]_uvars
      PROVE  SavesInv'
  <2>1. CASE Upgrade
    BY <1>2, <2>1, UpgradeKeepsSaves
  <2>2. CASE Next \/ UNCHANGED uvars
    <3>1. [Next]_lvars
      BY <2>2 DEF uvars, lvars
    <3> QED
      BY <1>2, <3>1, NextKeepsSaves DEF UpgradeInv
  <2> QED
    BY <1>2, <2>1, <2>2 DEF UpgradeNext
<1>3. UpgradeInv /\ SavesInv /\ [UpgradeNext]_uvars => SavesInv'
  BY <1>2
<1>4. ASSUME UpgradeInv, SavesInv, [UpgradeNext]_uvars
      PROVE  [RefusedRetitled]_lvars
  <2>1. CASE Upgrade
    <3>1. requests' = requests /\ \A q \in Active : requests[q].answer # "error"
      BY <1>4, <2>1 DEF Upgrade, SavesInv, Sure, Active
    <3> QED
      BY <3>1 DEF RefusedRetitled
  <2>2. CASE Next \/ UNCHANGED uvars
    <3>1. [Next]_lvars
      BY <2>2 DEF uvars, lvars
    <3> QED
      BY <1>4, <3>1, NextRefusesRetitled DEF UpgradeInv
  <2> QED
    BY <1>4, <2>1, <2>2 DEF UpgradeNext
<1>5. UpgradeInv /\ SavesInv /\ [UpgradeNext]_uvars => [RefusedRetitled]_lvars
  BY <1>4
<1> QED
  BY <1>1, <1>3, <1>5, UpgradeInvariant, PTL
     DEF UpgradeSpec, RefusedOnlyIfRetitled, RefusedRetitled
=============================================================================
