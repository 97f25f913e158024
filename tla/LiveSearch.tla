------------------------------ MODULE LiveSearch ------------------------------
(***************************************************************************)
(* The in-memory search registry of search/live.py (LiveSearchManager).    *)
(*                                                                         *)
(* A search is started for a key (profile, canonical filters).  Its        *)
(* populate task drains every active provider concurrently, batch by       *)
(* batch, then sorts and settles the search.  Three dictionaries decide    *)
(* what a client is given:                                                 *)
(*   states      id -> state of every live search                         *)
(*   latest      key -> the search that is served                          *)
(*   refreshing  key -> a forced refresh that may replace it               *)
(* An action is the code of the asyncio event loop between two suspension  *)
(* points; page() and discard_profile_searches(), which worker threads     *)
(* run, come between two such steps here and between any two statements in *)
(* SearchThreads.  state.lock is never contended (its only body that       *)
(* suspends runs when no consumer is left), so a batch is one action.      *)
(*                                                                         *)
(* Search ids are drawn in order 1, 2, 3, ...: uuid4() gives a fresh id,   *)
(* and the order of the ids is the order of created_at (and of insertion   *)
(* in `states`, which breaks ties).  Results are counted, not listed.      *)
(***************************************************************************)
EXTENDS Naturals, FiniteSets, FiniteSetsExt

CONSTANTS
  Profile,        \* profile ids
  Key,            \* (profile, canonical filters) pairs
  Provider,       \* provider adapters the process was started with
  ProfileOf,      \* the profile of a key
  Active,         \* the providers a key's filters select (may be none)
  BatchSizes,     \* candidates in one provider batch
  MaxCandidates,  \* search_max_candidates_per_search
  MaxStates,      \* search_max_states
  MaxItems,       \* search_max_items
  ReuseWindow,    \* REUSE_WINDOW, in clock ticks
  StateTtl,       \* search_state_ttl_minutes, in clock ticks
  PromoteFloor,   \* the literal 25 of _should_promote
  MaxSearches,    \* bound: searches ever started
  MaxPages,       \* bound: batches one provider yields for one search
  MaxTime,        \* bound: last value of the clock
  MayClose        \* bound: whether the process may shut down

ASSUME ConstantsAssumption ==
  /\ ProfileOf \in [Key -> Profile]
  /\ Active \in [Key -> SUBSET Provider]
  /\ BatchSizes \subseteq Nat
  /\ {MaxCandidates, MaxStates, MaxItems, ReuseWindow, StateTtl} \subseteq Nat
  /\ PromoteFloor \in Nat \ {0}
  /\ {MaxSearches, MaxPages, MaxTime} \subseteq Nat
  /\ MayClose \in BOOLEAN

VARIABLES
  states,      \* self.states: live id -> SearchState
  latest,      \* self.latest: key -> id or NoSearch
  refreshing,  \* self.refreshing: key -> id or NoSearch
  evicted,     \* self.evicted: ids that answer 410
  started,     \* how many ids uuid4() has given
  now,         \* datetime.now(UTC)
  server       \* "open", "closing" (self._closed set), "closed" (tasks gone)

vars == <<states, latest, refreshing, evicted, started, now, server>>

NoSearch == 0
Search == 1..MaxSearches
SearchStatus == {"loading", "complete", "failed"}
\* "absent": the key's filters do not select the provider, no tracker exists.
TrackerStatus == {"absent", "loading", "complete", "failed"}

Tracker == [status : TrackerStatus, pages : 0..MaxPages,
            hadSuccess : BOOLEAN, incomplete : BOOLEAN]

SearchState == [key : Key, status : SearchStatus, created : 0..MaxTime,
                checked : Nat, accepted : 0..MaxCandidates, items : Nat,
                exhausted : BOOLEAN, isPartial : BOOLEAN, sorting : BOOLEAN,
                trackers : [Provider -> Tracker]]

Init ==
  /\ states = [s \in {} |-> 0]
  /\ latest = [k \in Key |-> NoSearch]
  /\ refreshing = [k \in Key |-> NoSearch]
  /\ evicted = {}
  /\ started = 0
  /\ now = 0
  /\ server = "open"

-----------------------------------------------------------------------------
(* Starting a search: start().                                             *)

NewTracker(active) ==
  [status |-> IF active THEN "loading" ELSE "absent", pages |-> 0,
   hadSuccess |-> FALSE, incomplete |-> FALSE]

NewState(k) ==
  [key |-> k, status |-> "loading", created |-> now, checked |-> 0,
   accepted |-> 0, items |-> 0, exhausted |-> FALSE, isPartial |-> FALSE,
   sorting |-> FALSE,
   trackers |-> [p \in Provider |-> NewTracker(p \in Active[k])]]

Register(s, k) ==
  /\ started' = s
  /\ states' = [t \in DOMAIN states \cup {s} |->
                  IF t = s THEN NewState(k) ELSE states[t]]

\* A plain start hands this search out again instead of starting another.
Reusable(k) ==
  /\ latest[k] \in DOMAIN states
  /\ states[latest[k]].status # "failed"
  /\ now - states[latest[k]].created < ReuseWindow

\* A forced start keeps serving this search while its replacement loads.
HasStale(k) ==
  /\ latest[k] \in DOMAIN states
  /\ states[latest[k]].status = "complete"

CanStart == server = "open" /\ started < MaxSearches

\* start(force=False) that finds nothing to reuse.
Start(k) ==
  /\ CanStart
  /\ ~Reusable(k)
  /\ Register(started + 1, k)
  /\ latest' = [latest EXCEPT ![k] = started + 1]
  /\ UNCHANGED <<refreshing, evicted, now, server>>

\* start(force=True) over a complete search: stale-while-refresh.  A refresh
\* that is already outstanding is forgotten, its task keeps running.
StartRefresh(k) ==
  /\ CanStart
  /\ HasStale(k)
  /\ Register(started + 1, k)
  /\ refreshing' = [refreshing EXCEPT ![k] = started + 1]
  /\ UNCHANGED <<latest, evicted, now, server>>

\* start(force=True) with nothing worth serving: it is served at once.
StartReplacing(k) ==
  /\ CanStart
  /\ ~HasStale(k)
  /\ Register(started + 1, k)
  /\ latest' = [latest EXCEPT ![k] = started + 1]
  /\ UNCHANGED <<refreshing, evicted, now, server>>

-----------------------------------------------------------------------------
(* Promotion of a refresh: _should_promote, _promote_refresh.              *)

\* Wrong variant: any examined result promotes.
ShouldPromoteEagerly(sts, stale, refresh) ==
  /\ refresh \in DOMAIN sts
  /\ sts[refresh].status = "complete" \/ sts[refresh].checked > 0

ShouldPromote(sts, stale, refresh) ==
  /\ refresh \in DOMAIN sts
  /\ \/ sts[refresh].status = "complete"
     \/ /\ stale \notin DOMAIN sts
        /\ sts[refresh].checked > 0
     \/ /\ stale \in DOMAIN sts
        /\ sts[refresh].checked >= sts[stale].checked
        /\ sts[refresh].checked >= PromoteFloor

PromoteRefresh(k) ==
  /\ latest' = [latest EXCEPT ![k] = refreshing[k]]
  /\ refreshing' = [refreshing EXCEPT ![k] = NoSearch]

\* serving_search_id(): a read that promotes an outstanding refresh.
ServingSearchId(k) ==
  /\ server = "open"
  /\ refreshing[k] # NoSearch
  /\ latest[k] # NoSearch
  /\ ShouldPromote(states, latest[k], refreshing[k])
  /\ PromoteRefresh(k)
  /\ UNCHANGED <<states, evicted, started, now, server>>

-----------------------------------------------------------------------------
(* Consuming providers: _consume_provider, _apply_batch.                   *)

\* The candidates of a batch the aggregate ceiling still admits.
Budgeted(st, raw) ==
  IF raw <= MaxCandidates - st.accepted THEN raw ELSE MaxCandidates - st.accepted

Finished(t) ==
  [t EXCEPT !.status = IF t.hadSuccess THEN "complete" ELSE "failed"]

\* Wrong variant: truncation does not mark the tracker incomplete.
ApplyBatchSilently(st, p, raw, warned, matched, fresh) ==
  LET truncated == Budgeted(st, raw) < raw
      t == [st.trackers[p] EXCEPT
              !.pages = @ + 1,
              !.hadSuccess = @ \/ ~warned \/ matched > 0,
              !.incomplete = @ \/ warned]
  IN [st EXCEPT
        !.accepted = @ + Budgeted(st, raw), !.exhausted = truncated,
        !.checked = @ + raw, !.items = @ + fresh,
        !.trackers = [@ EXCEPT ![p] = IF truncated THEN Finished(t) ELSE t]]

\* One batch: `raw` candidates, of which the budget admits some, `matched` pass
\* the local filters and `fresh` are not duplicates of a result already held.
\* A batch with warnings is a success only if something of it matched.
ApplyBatch(st, p, raw, warned, matched, fresh) ==
  LET truncated == Budgeted(st, raw) < raw
      t == [st.trackers[p] EXCEPT
              !.pages = @ + 1,
              !.hadSuccess = @ \/ ~warned \/ matched > 0,
              !.incomplete = @ \/ warned \/ truncated]
  IN [st EXCEPT
        !.accepted = @ + Budgeted(st, raw), !.exhausted = truncated,
        !.checked = @ + raw, !.items = @ + fresh,
        !.trackers = [@ EXCEPT ![p] = IF truncated THEN Finished(t) ELSE t]]

SetState(s, st) == states' = [states EXCEPT ![s] = st]

SetTracker(s, p, t) ==
  SetState(s, [states[s] EXCEPT !.trackers = [@ EXCEPT ![p] = t]])

\* The populate task of s runs and its consumer of p has not returned.
Consuming(s, p) ==
  /\ server # "closed"
  /\ s \in DOMAIN states
  /\ states[s].status = "loading"
  /\ states[s].trackers[p].status = "loading"

\* Does this search, with what it holds after the step, replace the stale one?
PromotesAfterBatch(s) ==
  LET k == states[s].key
  IN /\ refreshing[k] = s
     /\ ~states'[s].exhausted
     /\ latest[k] # NoSearch
     /\ ShouldPromote(states', latest[k], s)

ConsumeBatch(s, p) ==
  /\ Consuming(s, p)
  /\ ~states[s].exhausted
  /\ states[s].trackers[p].pages < MaxPages
  /\ \E raw \in BatchSizes, warned \in BOOLEAN :
       \E matched \in 0..Budgeted(states[s], raw) :
         \E fresh \in 0..matched :
           /\ matched > 0 => states[s].items + fresh > 0
           /\ SetState(s, ApplyBatch(states[s], p, raw, warned, matched, fresh))
  /\ \/ PromotesAfterBatch(s) /\ PromoteRefresh(states[s].key)
     \/ ~PromotesAfterBatch(s) /\ UNCHANGED <<latest, refreshing>>
  /\ UNCHANGED <<evicted, started, now, server>>

\* A batch that arrives once another provider has used up the budget.
DropBatch(s, p) ==
  /\ Consuming(s, p)
  /\ states[s].exhausted
  /\ states[s].trackers[p].pages < MaxPages
  /\ SetTracker(s, p, Finished([states[s].trackers[p] EXCEPT !.incomplete = TRUE]))
  /\ UNCHANGED <<latest, refreshing, evicted, started, now, server>>

\* The provider's generator ends.
ProviderEnds(s, p) ==
  /\ Consuming(s, p)
  /\ SetTracker(s, p, Finished(states[s].trackers[p]))
  /\ UNCHANGED <<latest, refreshing, evicted, started, now, server>>

\* The provider's generator raises: failed, whatever it delivered before.
ProviderRaises(s, p) ==
  /\ Consuming(s, p)
  /\ SetTracker(s, p, [states[s].trackers[p] EXCEPT !.status = "failed"])
  /\ UNCHANGED <<latest, refreshing, evicted, started, now, server>>

-----------------------------------------------------------------------------
(* Settling a search: the rest of _populate.                               *)

\* Wrong variant: waits only for providers that did not fail.
AllReturnedUnfailed(st) ==
  \A p \in Provider : st.trackers[p].status \in {"absent", "complete"}

\* gather() returned: every consumer has finished or failed.
AllReturned(st) ==
  \A p \in Provider : st.trackers[p].status # "loading"

HasActive(st) == \E p \in Provider : st.trackers[p].status # "absent"

\* Take the lock and hand the final sort to a thread.
BeginSort(s) ==
  /\ server # "closed"
  /\ s \in DOMAIN states
  /\ states[s].status = "loading" /\ ~states[s].sorting
  /\ HasActive(states[s]) /\ AllReturned(states[s])
  /\ SetState(s, [states[s] EXCEPT !.sorting = TRUE])
  /\ UNCHANGED <<latest, refreshing, evicted, started, now, server>>

\* Wrong variant: a provider that raised after it had delivered counts for nothing.
AnyCompleted(st) == \E p \in Provider : st.trackers[p].status = "complete"

AnySuccess(st) == \E p \in Provider : st.trackers[p].hadSuccess

Settled(st) ==
  IF AnySuccess(st)
  THEN [st EXCEPT
          !.status = "complete", !.sorting = FALSE,
          !.isPartial = \E p \in Provider : \/ st.trackers[p].status = "failed"
                                            \/ st.trackers[p].incomplete]
  ELSE [st EXCEPT !.status = "failed", !.sorting = FALSE, !.isPartial = FALSE]

\* Wrong variant: a failed refresh stays registered.
KeepRefresh(k) == UNCHANGED <<latest, refreshing>>

AbandonRefresh(k) ==
  /\ refreshing' = [refreshing EXCEPT ![k] = NoSearch]
  /\ UNCHANGED latest

\* The sort is back: settle, then promote or abandon an outstanding refresh.
FinishSearch(s) ==
  /\ server # "closed"
  /\ s \in DOMAIN states
  /\ states[s].sorting
  /\ SetState(s, Settled(states[s]))
  /\ LET k == states[s].key
     IN \/ /\ refreshing[k] = s
           /\ AnySuccess(states[s])
           /\ PromoteRefresh(k)
        \/ /\ refreshing[k] = s
           /\ ~AnySuccess(states[s])
           /\ AbandonRefresh(k)
        \/ /\ refreshing[k] # s
           /\ UNCHANGED <<latest, refreshing>>
  /\ UNCHANGED <<evicted, started, now, server>>

\* _complete_without_providers: nothing to ask, an empty complete search.
CompleteWithoutProviders(s) ==
  /\ server # "closed"
  /\ s \in DOMAIN states
  /\ states[s].status = "loading" /\ ~states[s].sorting
  /\ ~HasActive(states[s])
  /\ SetState(s, [states[s] EXCEPT !.status = "complete", !.items = 0,
                                   !.isPartial = FALSE])
  /\ LET k == states[s].key
     IN \/ refreshing[k] = s /\ PromoteRefresh(k)
        \/ refreshing[k] # s /\ UNCHANGED <<latest, refreshing>>
  /\ UNCHANGED <<evicted, started, now, server>>

-----------------------------------------------------------------------------
(* Retention: _is_budget_protected, evict_expired, _evict.                 *)

\* Wrong variant: the index a refresh still serves is not protected.
ProtectedLoadingOnly(s) == states[s].status = "loading"

\* Wrong variant: a search in progress is not protected.
ProtectedStaleOnly(s) ==
  \E k \in Key : refreshing[k] # NoSearch /\ latest[k] = s /\ refreshing[k] # s

Protected(s) ==
  \/ states[s].status = "loading"
  \/ \E k \in Key : refreshing[k] # NoSearch /\ latest[k] = s /\ refreshing[k] # s

Expired(s) == now - states[s].created >= StateTtl

ItemsHeld(S) == MapThenSumSet(LAMBDA s : states[s].items, S)

\* The n oldest searches of S.
Oldest(S, n) == {s \in S : Cardinality({t \in S : t < s}) < n}

\* What one pass evicts.  Oldest first: the expired, then as many more as bring
\* the number of searches down to MaxStates, then as many more as bring the
\* items held down to MaxItems; never a protected search.
EvictionPass ==
  LET Free     == {s \in DOMAIN states : ~Protected(s)}
      ByAge    == {s \in Free : Expired(s)}
      Kept     == Cardinality(DOMAIN states) - Cardinality(ByAge)
      ByCount  == ByAge \cup (IF Kept > MaxStates
                              THEN Oldest(Free \ ByAge, Kept - MaxStates)
                              ELSE {})
      Held     == ItemsHeld(DOMAIN states \ ByCount)
      ByItems  == {s \in Free \ ByCount :
                     Held > MaxItems + ItemsHeld({t \in Free \ ByCount : t < s})}
  IN ByCount \cup ByItems

Forget(index, S) == [k \in Key |-> IF index[k] \in S THEN NoSearch ELSE index[k]]

\* Wrong variant: ids leave without being remembered as evicted.
EvictSilently(S) ==
  /\ states' = [s \in DOMAIN states \ S |-> states[s]]
  /\ latest' = Forget(latest, S)
  /\ refreshing' = Forget(refreshing, S)
  /\ UNCHANGED evicted

Evict(S) ==
  /\ states' = [s \in DOMAIN states \ S |-> states[s]]
  /\ evicted' = evicted \cup S
  /\ latest' = Forget(latest, S)
  /\ refreshing' = Forget(refreshing, S)

\* One round of _run_eviction_loop.
EvictExpired ==
  /\ server = "open"
  /\ EvictionPass # {}
  /\ Evict(EvictionPass)
  /\ UNCHANGED <<started, now, server>>

\* discard_profile_searches(): every search of the profile leaves and its populate
\* task is cancelled.  patch_profile calls it in a worker thread, between any two
\* statements of the loop; here it comes between two of the loop's steps and is one
\* step itself.  SearchThreads has it with the rest.
DiscardProfile(pr) ==
  LET S == {s \in DOMAIN states : ProfileOf[states[s].key] = pr}
  IN /\ server = "open"
     /\ S # {}
     /\ Evict(S)
     /\ UNCHANGED <<started, now, server>>

-----------------------------------------------------------------------------
(* Shutdown (close) and time.                                              *)

\* close(): no more eviction passes; the populate tasks still run while the
\* background task is awaited.
BeginClose ==
  /\ MayClose
  /\ server = "open"
  /\ server' = "closing"
  /\ UNCHANGED <<states, latest, refreshing, evicted, started, now>>

\* close(), second half: every populate task is cancelled.
EndClose ==
  /\ server = "closing"
  /\ server' = "closed"
  /\ UNCHANGED <<states, latest, refreshing, evicted, started, now>>

Tick ==
  /\ server = "open"
  /\ now < MaxTime
  /\ now' = now + 1
  /\ UNCHANGED <<states, latest, refreshing, evicted, started, server>>

-----------------------------------------------------------------------------
ConsumerStep(s, p) ==
  \/ ConsumeBatch(s, p)
  \/ DropBatch(s, p)
  \/ ProviderEnds(s, p)
  \/ ProviderRaises(s, p)

PopulateStep(s) ==
  \/ BeginSort(s)
  \/ FinishSearch(s)
  \/ CompleteWithoutProviders(s)

Next ==
  \/ \E k \in Key : Start(k) \/ StartRefresh(k) \/ StartReplacing(k)
  \/ \E k \in Key : ServingSearchId(k)
  \/ \E s \in Search, p \in Provider : ConsumerStep(s, p)
  \/ \E s \in Search : PopulateStep(s)
  \/ EvictExpired
  \/ \E pr \in Profile : DiscardProfile(pr)
  \/ BeginClose \/ EndClose \/ Tick

Spec == Init /\ [][Next]_vars

\* The event loop runs every ready task, and a provider's generator ends: its
\* page budget is finite and every request has a timeout.  Requests, eviction
\* passes, shutdown and the clock owe nothing.
TaskFairness ==
  /\ \A s \in Search, p \in Provider : WF_vars(ConsumerStep(s, p))
  /\ \A s \in Search : WF_vars(PopulateStep(s))

FairSpec == Spec /\ TaskFairness
-----------------------------------------------------------------------------
(* Correctness.                                                            *)

\* The dictionaries hold what their annotations say (live.py 107-143), and no
\* search accepts more than the aggregate ceiling of candidates.
TypeOK ==
  /\ DOMAIN states \subseteq 1..started
  /\ states \in [DOMAIN states -> SearchState]
  /\ latest \in [Key -> Search \cup {NoSearch}]
  /\ refreshing \in [Key -> Search \cup {NoSearch}]
  /\ evicted \subseteq 1..started
  /\ started \in 0..MaxSearches
  /\ now \in 0..MaxTime
  /\ server \in {"open", "closing", "closed"}

\* An outstanding refresh is a search in progress, and something else is served
\* in the meantime (JE-005: a compatible completed index remains readable while
\* refresh runs): promotion, failure and eviction all leave the pair consistent,
\* and so does a discard that does not cut into a start or a promotion (live.py
\* 200-205, 246-261); for one that does, see OnlyOvertakenEntriesDangle.
RefreshHasServing ==
  \A k \in Key :
    refreshing[k] # NoSearch =>
      /\ states[refreshing[k]].status = "loading"
      /\ latest[k] \notin {NoSearch, refreshing[k]}

\* JE-007: a search is failed only when every participating provider failed, and
\* a complete search that hides a failed provider or a truncation is never
\* reported whole (JE-023: every ceiling marks the affected search partial).
OutcomeIsHonest ==
  \A s \in DOMAIN states :
    LET st == states[s]
    IN /\ st.status = "failed" =>
            \A p \in Active[st.key] : st.trackers[p].status = "failed"
       /\ st.status = "complete" /\ ~st.isPartial =>
            /\ ~st.exhausted
            /\ \A p \in Active[st.key] : st.trackers[p].status = "complete"

\* JE-023: what healthy providers have delivered survives the others' failures.  A
\* failed search never withholds a result that an earlier batch has let in, although
\* the provider may have raised afterwards, or only warned, or found the budget used up.
FailedHidesNothing ==
  \A s \in DOMAIN states : states[s].status = "failed" => states[s].items = 0

\* JE-005: the stale result stays served until the replacement is useful.  What
\* is served changes from one live search to an outstanding refresh only once
\* that refresh is complete or has examined at least as much.
StaleServedUntilUseful ==
  [][\A k \in Key :
       LET old == latest[k]
           new == latest'[k]
       IN old # NoSearch /\ new # old /\ new # NoSearch /\ new = refreshing[k] =>
            \/ states'[new].status = "complete"
            \/ states'[new].checked >= states'[old].checked /\ states'[new].checked > 0]_vars

\* JE-007: eviction never takes a search in progress nor the index a refresh is
\* still serving.  Either leaves only when its whole profile is discarded.
OnlyDiscardTakesBusySearches ==
  [][\A s \in DOMAIN states :
       /\ \/ states[s].status = "loading"
          \/ \E k \in Key : refreshing[k] # NoSearch /\ latest[k] = s
       /\ s \notin DOMAIN states'
       => \A t \in DOMAIN states' :
            ProfileOf[states'[t].key] # ProfileOf[states[s].key]]_vars

\* Every search settles: whatever its providers do, and however the steps of
\* several searches interleave, it leaves "loading" unless it is discarded or
\* the process shuts down.
EverySearchSettles ==
  \A s \in Search :
    s \in DOMAIN states ~>
      s \notin DOMAIN states \/ states[s].status # "loading" \/ server = "closed"

\* No key waits for a refresh for ever: the refresh is promoted, abandoned,
\* superseded or discarded, so the protection of the stale index ends as well.
RefreshIsResolved ==
  \A k \in Key, s \in Search :
    refreshing[k] = s ~> refreshing[k] # s \/ server = "closed"

-----------------------------------------------------------------------------
(* What a client sees of all this: the refinement of PolledSearch.          *)

\* What GET /searches/{id} answers for an id: page() asks `evicted` first.
PolledView(s) ==
  IF s \in evicted THEN "gone"
  ELSE IF s \in DOMAIN states THEN states[s].status ELSE "unknown"

PolledOwner(s) ==
  IF s \in DOMAIN states THEN ProfileOf[states[s].key] ELSE "nobody"

Polled == INSTANCE PolledSearch WITH
  Id <- Search, Owner <- Profile, Nobody <- "nobody",
  view <- [s \in Search |-> PolledView(s)],
  owner <- [s \in Search |-> PolledOwner(s)]

\* A client that polls an id sees it issued once, loading, then one outcome that
\* stays, then 410 for good; a search still loading vanishes only together with
\* all of its profile's searches.  Every handler that touches `states` or
\* `evicted` has to agree on this with the branches of page() (live.py 545-563).
PolledContract == Polled!Spec
=============================================================================
