----------------------------- MODULE SearchThreads -----------------------------
(***************************************************************************)
(* The search registry as its threads see it (api/searches.py,             *)
(* api/profiles.py, search/live.py).                                       *)
(*                                                                         *)
(* LiveSearch takes every call as one step, which is right for code on the *)
(* event loop.  But FastAPI runs `async def` endpoints on the loop and     *)
(* `def` endpoints in worker threads, and nothing locks the dictionaries:  *)
(*   the loop   create_search, refresh_default_search, the end of a        *)
(*              populate task, the eviction pass - one at a time           *)
(*   a patcher  patch_profile: commit, then discard_profile_searches       *)
(*   a reader   get_search: page()                                         *)
(* An action is one operation on a shared dictionary or object, which the  *)
(* interpreter does not interrupt.  Iterating a dictionary in which the    *)
(* number of entries changes raises RuntimeError, deleting an entry that   *)
(* is gone raises KeyError.                                                *)
(*                                                                         *)
(* Skills are the number of the PATCH that wrote them.  When a search is   *)
(* too old to be reused or kept is left open; LiveSearch has the clock.    *)
(***************************************************************************)
EXTENDS Naturals, Sequences, FiniteSets, FiniteSetsExt

CONSTANTS
  Profile,      \* profile ids
  Key,          \* (profile, canonical filters) pairs
  ProfileOf,    \* the profile of a key
  Patcher,      \* worker threads that serve PATCH requests
  MaxSearches,  \* bound: searches ever started
  MaxPatches    \* bound: changes of the skills of one profile

ASSUME ThreadsAssumption ==
  /\ ProfileOf \in [Key -> Profile]
  /\ {MaxSearches, MaxPatches} \subseteq Nat
  /\ "loop" \notin Patcher

VARIABLES
  skills,    \* profiles.skills, as committed
  promised,  \* profile -> the newest skills a PATCH has answered 200 for
  search,    \* id -> SearchState; who holds a reference keeps it alive
  states,    \* the ids in self.states
  index,     \* self.latest and self.refreshing: key -> id or NoSearch
  evicted,   \* self.evicted
  tasks,     \* searches whose populate task is not cancelled or over
  evictor,   \* the task of _run_eviction_loop: "running", "killed" by a discard, "dead"
  loop,      \* what the event loop is in the middle of
  patch,     \* patcher -> what it is in the middle of
  call,      \* thread -> its call of _evict
  reader,    \* the worker thread in page()
  overtaken  \* history: searches that left while the loop was busy with them

tvars == <<skills, promised, search, states, index, evicted, tasks, evictor,
           loop, patch, call, reader, overtaken>>

NoSearch == 0
Nowhere == [step |-> "idle"]
Thread == Patcher \cup {"loop"}

Init ==
  /\ skills = [pr \in Profile |-> 0]
  /\ promised = [pr \in Profile |-> 0]
  /\ search = [s \in {} |-> 0]
  /\ states = {}
  /\ index = [name \in {"latest", "refreshing"} |-> [k \in Key |-> NoSearch]]
  /\ evicted = {}
  /\ tasks = {}
  /\ evictor = "running"
  /\ loop = Nowhere
  /\ patch = [w \in Patcher |-> Nowhere]
  /\ call = [w \in Thread |-> Nowhere]
  /\ reader = Nowhere
  /\ overtaken = {}

Owner(s) == ProfileOf[search[s].key]

At(step) == loop.step = step
Goto(step) == loop' = [loop EXCEPT !.step = step]

-----------------------------------------------------------------------------
(* create_search and refresh_default_search, on the loop.                  *)

\* db.get(Profile): the skills the search will be ranked by.
ReadProfile(k, force) ==
  /\ At("idle")
  /\ Cardinality(DOMAIN search) < MaxSearches
  /\ loop' = [step |-> "lookup", key |-> k, force |-> force,
              skills |-> skills[ProfileOf[k]], owed |-> promised[ProfileOf[k]]]
  /\ UNCHANGED <<skills, promised, search, states, index, evicted, tasks, evictor,
                 patch, call, reader, overtaken>>

\* start(): reuse the latest search, unless it is too old; or note the complete one a
\* refresh will be served over.
Lookup ==
  LET s == index["latest"][loop.key]
      live == s \in states
      Step(step, id, over) ==
        loop' = [step |-> step, key |-> loop.key, skills |-> loop.skills,
                 owed |-> loop.owed, search |-> id, over |-> over]
      id == Cardinality(DOMAIN search) + 1
  IN /\ At("lookup")
     /\ \/ ~loop.force /\ live /\ search[s].status # "failed" /\ Step("answer", s, FALSE)
        \/ ~loop.force /\ Step("register", id, FALSE)
        \/ loop.force /\ Step("register", id, live /\ search[s].status = "complete")
     /\ UNCHANGED <<skills, promised, search, states, index, evicted, tasks,
                    evictor, patch, call, reader, overtaken>>

\* self.states[state.id] = state.  `outdated`, a history variable: the skills had been
\* changed by then.
Register ==
  LET new == [key |-> loop.key, skills |-> loop.skills,
              outdated |-> loop.skills # skills[ProfileOf[loop.key]],
              status |-> "loading", items |-> "growing"]
  IN /\ At("register")
     /\ search' = [s \in DOMAIN search \cup {loop.search} |->
                     IF s = loop.search THEN new ELSE search[s]]
     /\ states' = states \cup {loop.search}
     /\ Goto("bind")
     /\ UNCHANGED <<skills, promised, index, evicted, tasks, evictor, patch, call,
                    reader, overtaken>>

Bind(name, k, s) == index' = [index EXCEPT ![name][k] = s]

BindNew ==
  /\ At("bind")
  /\ Bind(IF loop.over THEN "refreshing" ELSE "latest", loop.key, loop.search)
  /\ Goto("schedule")
  /\ UNCHANGED <<skills, promised, search, states, evicted, tasks, evictor, patch,
                 call, reader, overtaken>>

\* _schedule_populate
Schedule ==
  /\ At("schedule")
  /\ tasks' = tasks \cup {loop.search}
  /\ Goto("answer")
  /\ UNCHANGED <<skills, promised, search, states, index, evicted, evictor, patch,
                 call, reader, overtaken>>

\* The first page of the search, or 410, or 404.
Answer ==
  /\ At("answer")
  /\ loop' = Nowhere
  /\ UNCHANGED <<skills, promised, search, states, index, evicted, tasks, evictor,
                 patch, call, reader, overtaken>>

-----------------------------------------------------------------------------
(* The end of _populate, on the loop.                                      *)

\* What a search may come to: two of the fields a poller reads.
Outcome == [items : {"sorted"}, status : {"complete", "failed"}]

\* Wrong variant: settled, and then sorted.
SettledFirst == <<"status", "items">>

\* The order of the assignments.
WriteOrder == <<"items", "status">>

\* Every consumer is back, and so is the sort.
BeginSettling(s, outcome) ==
  /\ At("idle") /\ s \in tasks /\ search[s].status = "loading"
  /\ loop' = [step |-> "settle", search |-> s, outcome |-> outcome, left |-> WriteOrder]
  /\ UNCHANGED <<skills, promised, search, states, index, evicted, tasks, evictor,
                 patch, call, reader, overtaken>>

WriteField ==
  LET field == Head(loop.left)
  IN /\ At("settle")
     /\ search' = [search EXCEPT ![loop.search] = [@ EXCEPT ![field] = loop.outcome[field]]]
     /\ loop' = IF Len(loop.left) > 1 THEN [loop EXCEPT !.left = Tail(@)]
                ELSE [loop EXCEPT !.step = "promote"]
     /\ UNCHANGED <<skills, promised, states, index, evicted, tasks, evictor, patch,
                    call, reader, overtaken>>

Refreshing(s) == index["refreshing"][search[s].key] = s

\* A refresh is taken out of the index; if it did not fail, _promote_refresh goes on
\* to make it the latest.  The code looks the entry up twice and then pops it: a discard
\* in between makes no difference but a KeyError, which ends a task that is done anyhow.
Promote ==
  LET s == loop.search
      k == search[s].key
      failed == loop.outcome.status = "failed"
  IN /\ At("promote")
     /\ \/ /\ Refreshing(s) /\ ~failed
           /\ Bind("refreshing", k, NoSearch)
           /\ Goto("rebind")
           /\ UNCHANGED tasks
        \/ /\ Refreshing(s) /\ failed
           /\ Bind("refreshing", k, NoSearch)
           /\ loop' = Nowhere /\ tasks' = tasks \ {s}
        \/ /\ ~Refreshing(s)
           /\ loop' = Nowhere /\ tasks' = tasks \ {s}
           /\ UNCHANGED index
     /\ UNCHANGED <<skills, promised, search, states, evicted, evictor, patch, call,
                    reader, overtaken>>

Rebind ==
  /\ At("rebind")
  /\ Bind("latest", search[loop.search].key, loop.search)
  /\ loop' = Nowhere /\ tasks' = tasks \ {loop.search}
  /\ UNCHANGED <<skills, promised, search, states, evicted, evictor, patch, call,
                 reader, overtaken>>

-----------------------------------------------------------------------------
(* _evict, called by the eviction pass and by the patchers.                *)

\* The steps of an eviction pass.
Pass == {"scan", "weigh", "evict"}

\* A discard takes something away while an eviction pass runs: a history variable.
Disturb(w) ==
  loop' = IF w # "loop" /\ loop.step \in Pass THEN [loop EXCEPT !.disturbed = TRUE] ELSE loop

\* Wrong variant: out of the dictionary, and then noted as evicted.
PopFirst == <<"states", "evicted">>

\* The order in which a search leaves.
EvictOrder == <<"evicted", "states">>

\* `if search_id not in self.states: return`
CallEvict(w, s) ==
  /\ call[w].step = "idle"
  /\ s \in states
  /\ call' = [call EXCEPT ![w] = [step |-> "leave", search |-> s, left |-> EvictOrder]]

\* The loop is starting, populating or settling s, and may yet enter it in an index.
Busy(s) ==
  \/ s \in tasks
  \/ loop.step \in {"bind", "schedule", "settle", "promote", "rebind"} /\ loop.search = s

Leave(w) ==
  LET c == call[w]
      Into(name) == c.left # <<>> /\ Head(c.left) = name
  IN /\ c.step = "leave"
     /\ \/ /\ Into("evicted")
           /\ evicted' = evicted \cup {c.search}
           /\ UNCHANGED <<states, loop, overtaken>>
        \/ /\ Into("states")
           /\ states' = states \ {c.search}
           /\ overtaken' = overtaken \cup {s \in {c.search} : Busy(s)}
           /\ Disturb(w)
           /\ UNCHANGED evicted
     /\ call' = [call EXCEPT ![w] =
                   IF Len(c.left) > 1 THEN [c EXCEPT !.left = Tail(c.left)]
                   ELSE [step |-> "list", search |-> c.search, name |-> "latest"]]
     /\ UNCHANGED <<skills, promised, search, index, tasks, evictor, patch, reader>>

\* list(self.latest.items()), and later list(self.refreshing.items())
ListBound(w) ==
  /\ call[w].step = "list"
  /\ call' = [call EXCEPT ![w] =
                [step |-> "unbind", search |-> @.search, name |-> @.name,
                 keys |-> {k \in Key : index[@.name][k] = @.search}]]
  /\ UNCHANGED <<skills, promised, search, states, index, evicted, tasks, evictor,
                 loop, patch, reader, overtaken>>

Bound(name) == {k \in Key : index[name][k] # NoSearch}

\* Wrong variant: latest only.
UnbindLatest(w) ==
  LET c == call[w]
  IN /\ c.step = "unbind"
     /\ c.keys \subseteq Bound(c.name)
     /\ index' = [index EXCEPT ![c.name] =
                    [k \in Key |-> IF k \in c.keys THEN NoSearch ELSE @[k]]]
     /\ call' = [call EXCEPT ![w] = Nowhere]
     /\ Disturb(w)
     /\ UNCHANGED <<skills, promised, search, states, evicted, tasks, evictor,
                    patch, reader, overtaken>>

\* `del` of what was listed, whatever it is bound to by now.
Unbind(w) ==
  LET c == call[w]
  IN /\ c.step = "unbind"
     /\ c.keys \subseteq Bound(c.name)
     /\ index' = [index EXCEPT ![c.name] =
                    [k \in Key |-> IF k \in c.keys THEN NoSearch ELSE @[k]]]
     /\ call' = [call EXCEPT ![w] =
                   IF c.name = "latest"
                   THEN [step |-> "list", search |-> c.search, name |-> "refreshing"]
                   ELSE Nowhere]
     /\ Disturb(w)
     /\ UNCHANGED <<skills, promised, search, states, evicted, tasks, evictor,
                    patch, reader, overtaken>>

\* KeyError: somebody else evicts the same search.
KeyGone(w) ==
  /\ call[w].step = "unbind"
  /\ ~(call[w].keys \subseteq Bound(call[w].name))
  /\ call' = [call EXCEPT ![w] = Nowhere]

-----------------------------------------------------------------------------
(* The eviction pass, on the loop.                                         *)

BeginPass ==
  /\ At("idle") /\ evictor = "running" /\ states # {}
  /\ loop' = [step |-> "scan", cursor |-> 0, size |-> Cardinality(states), found |-> {},
              disturbed |-> FALSE]
  /\ UNCHANGED <<skills, promised, search, states, index, evicted, tasks, evictor,
                 patch, call, reader, overtaken>>

\* What an iteration comes upon next; entries are in the order of their insertion.
Following(cursor) == {s \in states : s > cursor}

\* Wrong variant: a search that is due is evicted as it is come upon.
ScanAndEvict ==
  /\ At("scan") /\ loop.size = Cardinality(states) /\ Following(loop.cursor) # {}
  /\ LET s == Min(Following(loop.cursor))
     IN /\ loop' = [loop EXCEPT !.cursor = s]
        /\ states' = IF search[s].status = "loading" THEN states ELSE states \ {s}
  /\ UNCHANGED <<skills, promised, search, index, evicted, tasks, evictor, patch,
                 call, reader, overtaken>>

ScanNext ==
  /\ At("scan") /\ loop.size = Cardinality(states) /\ Following(loop.cursor) # {}
  /\ LET s == Min(Following(loop.cursor))
     IN loop' = [loop EXCEPT !.cursor = s, !.found = @ \cup {s}]
  /\ UNCHANGED <<skills, promised, search, states, index, evicted, tasks, evictor,
                 patch, call, reader, overtaken>>

\* _is_budget_protected.  A search that is gone is not protected.
Protected(s) ==
  /\ s \in states
  /\ \/ search[s].status = "loading"
     \/ \E k \in Bound("refreshing") :
          index["latest"][k] = s /\ index["refreshing"][k] # s

\* Whichever of the others are due: by age, or oldest first by the two ceilings.
ChooseVictims ==
  /\ At("scan") /\ loop.size = Cardinality(states) /\ Following(loop.cursor) = {}
  /\ \E victims \in SUBSET {s \in loop.found : ~Protected(s)} :
       loop' = [step |-> "weigh", victims |-> victims, present |-> loop.found \cap states,
                refreshing |-> Bound("refreshing"), disturbed |-> loop.disturbed]
  /\ UNCHANGED <<skills, promised, search, states, index, evicted, tasks, evictor,
                 patch, call, reader, overtaken>>

\* Between `in self.states` and `self.states[...]`, or while self.refreshing is gone
\* through, something left.
Vanished == ~(loop.present \subseteq states) \/ loop.refreshing # Bound("refreshing")

WeighItems ==
  /\ At("weigh") /\ ~Vanished
  /\ loop' = [step |-> "evict", victims |-> loop.victims, disturbed |-> loop.disturbed]
  /\ UNCHANGED <<skills, promised, search, states, index, evicted, tasks, evictor,
                 patch, call, reader, overtaken>>

EvictVictim(s) ==
  /\ At("evict") /\ s \in loop.victims
  /\ \/ CallEvict("loop", s)
     \/ s \notin states /\ call["loop"].step = "idle" /\ UNCHANGED call
  /\ loop' = [loop EXCEPT !.victims = @ \ {s}]
  /\ UNCHANGED <<skills, promised, search, states, index, evicted, tasks, evictor,
                 patch, reader, overtaken>>

EndPass ==
  /\ At("evict") /\ loop.victims = {} /\ call["loop"].step = "idle"
  /\ loop' = Nowhere
  /\ UNCHANGED <<skills, promised, search, states, index, evicted, tasks, evictor,
                 patch, call, reader, overtaken>>

\* An exception leaves _run_eviction_loop, which catches CancelledError only.
PassRaises ==
  /\ \/ At("scan") /\ loop.size # Cardinality(states) /\ UNCHANGED call
     \/ At("weigh") /\ Vanished /\ UNCHANGED call
     \/ At("evict") /\ KeyGone("loop")
  /\ evictor' = IF loop.disturbed THEN "killed" ELSE "dead"
  /\ loop' = Nowhere
  /\ UNCHANGED <<skills, promised, search, states, index, evicted, tasks, patch,
                 reader, overtaken>>

-----------------------------------------------------------------------------
(* patch_profile, in a worker thread.                                      *)

PatchAt(w, step) == patch[w].step = step

\* update_profile: the new skills differ from the old ones and are committed.
CommitSkills(w, pr) ==
  /\ PatchAt(w, "idle") /\ skills[pr] < MaxPatches
  /\ skills' = [skills EXCEPT ![pr] = @ + 1]
  /\ patch' = [patch EXCEPT ![w] =
                 [step |-> "discard", profile |-> pr, skills |-> skills[pr] + 1]]
  /\ UNCHANGED <<promised, search, states, index, evicted, tasks, evictor, loop,
                 call, reader, overtaken>>

\* discard_profile_searches: the ids are collected.
BeginDiscard(w) ==
  /\ PatchAt(w, "discard")
  /\ patch' = [patch EXCEPT ![w] =
                 [step |-> "scan", profile |-> @.profile, skills |-> @.skills,
                  cursor |-> 0, size |-> Cardinality(states), found |-> {}]]
  /\ UNCHANGED <<skills, promised, search, states, index, evicted, tasks, evictor,
                 loop, call, reader, overtaken>>

ScanOn(w) ==
  LET p == patch[w]
      s == Min(Following(p.cursor))
  IN /\ p.step = "scan" /\ p.size = Cardinality(states) /\ Following(p.cursor) # {}
     /\ patch' = [patch EXCEPT
                    ![w].cursor = s,
                    ![w].found = @ \cup {t \in {s} : Owner(t) = p.profile}]
     /\ UNCHANGED <<skills, promised, search, states, index, evicted, tasks,
                    evictor, loop, call, reader, overtaken>>

EndScan(w) ==
  LET p == patch[w]
  IN /\ p.step = "scan" /\ p.size = Cardinality(states) /\ Following(p.cursor) = {}
     /\ patch' = [patch EXCEPT ![w] =
                    [step |-> "drop", profile |-> p.profile, skills |-> p.skills,
                     found |-> p.found]]
     /\ UNCHANGED <<skills, promised, search, states, index, evicted, tasks,
                    evictor, loop, call, reader, overtaken>>

\* Wrong variant: all tasks are cancelled, and then the searches evicted.
CancelAll(w) ==
  /\ PatchAt(w, "drop") /\ call[w].step = "idle" /\ patch[w].found # {}
  /\ tasks' = tasks \ patch[w].found
  /\ patch' = [patch EXCEPT ![w].step = "evict"]
  /\ UNCHANGED <<skills, promised, search, states, index, evicted, evictor, loop,
                 call, reader, overtaken>>

\* The next search: its task, if it has one by now, is cancelled.
CancelTask(w) ==
  /\ PatchAt(w, "drop") /\ call[w].step = "idle" /\ patch[w].found # {}
  /\ tasks' = tasks \ {Min(patch[w].found)}
  /\ patch' = [patch EXCEPT ![w].step = "evict"]
  /\ UNCHANGED <<skills, promised, search, states, index, evicted, evictor, loop,
                 call, reader, overtaken>>

DropSearch(w) ==
  LET s == Min(patch[w].found)
  IN /\ PatchAt(w, "evict")
     /\ \/ CallEvict(w, s)
        \/ s \notin states /\ UNCHANGED call
     /\ patch' = [patch EXCEPT ![w].step = "drop", ![w].found = @ \ {s}]
     /\ UNCHANGED <<skills, promised, search, states, index, evicted, tasks,
                    evictor, loop, reader, overtaken>>

\* 200.
AnswerPatch(w) ==
  LET p == patch[w]
  IN /\ p.step = "drop" /\ p.found = {} /\ call[w].step = "idle"
     /\ promised' = [promised EXCEPT ![p.profile] = Max({@, p.skills})]
     /\ patch' = [patch EXCEPT ![w] = Nowhere]
     /\ UNCHANGED <<skills, search, states, index, evicted, tasks, evictor, loop,
                    call, reader, overtaken>>

\* Wrong variant: the discard is tried, and the PATCH answers 200 anyhow.
AnswerAnyhow(w) ==
  LET p == patch[w]
  IN /\ \/ p.step = "scan" /\ p.size # Cardinality(states) /\ UNCHANGED call
        \/ KeyGone(w)
     /\ promised' = [promised EXCEPT ![p.profile] = Max({@, p.skills})]
     /\ patch' = [patch EXCEPT ![w] = Nowhere]
     /\ UNCHANGED <<skills, search, states, index, evicted, tasks, evictor, loop,
                    reader, overtaken>>

\* 500, after the commit: what was not dropped stays.
PatchRaises(w) ==
  LET p == patch[w]
  IN /\ \/ p.step = "scan" /\ p.size # Cardinality(states) /\ UNCHANGED call
        \/ KeyGone(w)
     /\ patch' = [patch EXCEPT ![w] = Nowhere]
     /\ UNCHANGED <<skills, promised, search, states, index, evicted, tasks,
                    evictor, loop, reader, overtaken>>

-----------------------------------------------------------------------------
(* get_search: page(), in a worker thread.                                 *)

\* Clients do not know the id of a search that is still being registered.
Known == DOMAIN search \ (IF loop.step \in {"bind", "schedule", "answer"}
                          THEN {loop.search} ELSE {})

\* `if search_id in self.evicted`.  `here`: it was there when the request came.
AskPage(s) ==
  /\ reader.step \in {"idle", "answered"} /\ s \in Known
  /\ reader' = IF s \in evicted THEN [step |-> "answered", code |-> 410]
               ELSE [step |-> "get", search |-> s, here |-> s \in states]
  /\ UNCHANGED <<skills, promised, search, states, index, evicted, tasks, evictor,
                 loop, patch, call, overtaken>>

\* self.states.get
GetState ==
  /\ reader.step = "get"
  /\ reader' = IF reader.search \in states
               THEN [step |-> "read", search |-> reader.search]
               ELSE [step |-> "answered", code |-> 404, here |-> reader.here]
  /\ UNCHANGED <<skills, promised, search, states, index, evicted, tasks, evictor,
                 loop, patch, call, overtaken>>

\* `complete`, which is_complete and total depend on.
ReadStatus ==
  /\ reader.step = "read"
  /\ reader' = [step |-> "items", search |-> reader.search,
                complete |-> search[reader.search].status # "loading"]
  /\ UNCHANGED <<skills, promised, search, states, index, evicted, tasks, evictor,
                 loop, patch, call, overtaken>>

\* The page, from the same object, even if it has left the dictionary by now.
ReadItems ==
  /\ reader.step = "items"
  /\ reader' = [step |-> "answered", code |-> 200, complete |-> reader.complete,
                items |-> search[reader.search].items]
  /\ UNCHANGED <<skills, promised, search, states, index, evicted, tasks, evictor,
                 loop, patch, call, overtaken>>

-----------------------------------------------------------------------------
LoopStep ==
  \/ \E k \in Key, force \in BOOLEAN : ReadProfile(k, force)
  \/ Lookup \/ Register \/ BindNew \/ Schedule \/ Answer
  \/ \E s \in tasks, outcome \in Outcome : BeginSettling(s, outcome)
  \/ WriteField \/ Promote \/ Rebind
  \/ BeginPass \/ ScanNext \/ ChooseVictims \/ WeighItems \/ EndPass \/ PassRaises
  \/ \E s \in DOMAIN search : EvictVictim(s)

PatchStep(w) ==
  \/ \E pr \in Profile : CommitSkills(w, pr)
  \/ BeginDiscard(w) \/ ScanOn(w) \/ EndScan(w) \/ CancelTask(w) \/ DropSearch(w)
  \/ AnswerPatch(w) \/ PatchRaises(w)

ReaderStep ==
  (\E s \in DOMAIN search : AskPage(s)) \/ GetState \/ ReadStatus \/ ReadItems

Next ==
  \/ LoopStep
  \/ \E w \in Patcher : PatchStep(w)
  \/ \E w \in Thread : Leave(w) \/ ListBound(w) \/ Unbind(w)
  \/ ReaderStep

Spec == Init /\ [][Next]_tvars

-----------------------------------------------------------------------------
(* Safety.                                                                 *)

\* A PATCH that answered 200 has left no search of the profile that is ranked by older
\* skills, whatever was started, reused, promoted or evicted while it looked for them.
\* The exception is a search whose endpoint had read the profile before the commit and
\* registered it after (discard_profile_searches after the commit in patch_profile, and
\* the exceptions it does not catch).
DiscardIsComplete ==
  \A s \in states : search[s].skills < promised[Owner(s)] => search[s].outdated

\* JE-010: "a subsequent search reflects the new list".  A search that is asked for after
\* the PATCH was answered is ranked by the skills the PATCH has set.  It is not so: the
\* outdated search is reused.
SubsequentSearchIsFresh ==
  At("answer") /\ loop.search \in states => search[loop.search].skills >= loop.owed

\* A search that has been evicted answers 410, to whoever asks once it is gone: 404 is
\* for an id that never was, or for the one poll that was under way at the time (page()
\* looks into `evicted` before `states`, _evict writes them in the opposite order).
NotFoundOnlyWhileLeaving ==
  reader.step = "answered" /\ reader.code = 404 => reader.here

\* A page that says the search is over shows it in its final order: a reader that looks
\* between two assignments of _populate may find the new items under the old status,
\* never the old ones under the new.
CompletePageIsFinal ==
  reader.step = "answered" /\ reader.code = 200 /\ reader.complete => reader.items = "sorted"

\* By itself an eviction pass never raises: the background task, which nothing restarts,
\* ends only when a discard takes entries away while a pass goes through them.
EvictorDiesOnlyOfDiscards == evictor # "dead"

\* An index names a search of that very key that is there, or is just leaving: except
\* where a discard in a worker thread has taken a search out of `states` while the loop
\* was starting or settling it (between two statements of start, live.py 200-205, or of
\* _promote_refresh, 259-261).  Such an entry stays; a start that comes upon it takes it
\* for none and replaces it (Lookup, BindNew).
OnlyOvertakenEntriesDangle ==
  \A name \in DOMAIN index, k \in Key :
    LET s == index[name][k]
    IN s # NoSearch =>
         /\ search[s].key = k
         /\ \/ s \in states
            \/ \E w \in Thread : call[w].step # "idle" /\ call[w].search = s
            \/ s \in overtaken

\* Somebody has a search in hand.
InHand(s) ==
  \/ s \in tasks
  \/ loop.step \in {"bind", "schedule", "answer", "settle", "promote", "rebind"} /\ loop.search = s
  \/ \E w \in Patcher : patch[w].step \in {"drop", "evict"} /\ s \in patch[w].found
  \/ \E w \in Thread : call[w].step # "idle" /\ call[w].search = s

\* Nobody waits for what will never come: a search that polls find loading, and a refresh
\* for whose sake an older result is protected from eviction, is being worked on, even
\* where a discard met the search before its task was scheduled, or was itself cut short
\* by an exception (a discard cancels a task and drops its search before the next one).
NobodyWaitsInVain ==
  /\ \A s \in states : search[s].status = "loading" => InHand(s)
  /\ \A k \in Bound("refreshing") : InHand(index["refreshing"][k])
=============================================================================
