--------------------------- MODULE LiveSearchProofs ---------------------------
(* Proofs about LiveSearch, for every value of its constants that satisfies
   ConstantsAssumption: a refresh has something served meanwhile, the outcome of
   a search is honest, the two action properties, and that the registry
   implements what PolledSearch promises a client. *)
EXTENDS LiveSearch, TLAPS

USE DEF NoSearch, Search

(***************************************************************************)
(* Operators on one search keep it a SearchState, and leave alone the      *)
(* fields the indexes depend on.                                           *)
(***************************************************************************)

\* A new search is well formed, loading, and belongs to the key it is for.
LEMMA NewStateType ==
  ASSUME NEW k \in Key, now \in 0..MaxTime
  PROVE  /\ NewState(k) \in SearchState
         /\ NewState(k).key = k
         /\ NewState(k).status = "loading"
         /\ NewState(k).sorting = FALSE
  BY ConstantsAssumption
  DEF NewState, NewTracker, SearchState, Tracker, TrackerStatus, SearchStatus

\* The budget admits no more of a batch than is left of the ceiling.
LEMMA BudgetedBound ==
  ASSUME NEW st \in SearchState, NEW raw \in BatchSizes
  PROVE  /\ Budgeted(st, raw) \in Nat
         /\ st.accepted + Budgeted(st, raw) \in 0..MaxCandidates
  BY ConstantsAssumption DEF Budgeted, SearchState

\* Finishing a tracker yields a tracker.
LEMMA FinishedType ==
  ASSUME NEW t \in Tracker
  PROVE  Finished(t) \in Tracker
  BY DEF Finished, Tracker, TrackerStatus

\* Replacing the tracker of one provider keeps the rest of the search.
LEMMA TrackerUpdateType ==
  ASSUME NEW st \in SearchState, NEW p \in Provider, NEW t \in Tracker,
         NEW u, u = [st EXCEPT !.trackers = [@ EXCEPT ![p] = t]]
  PROVE  /\ u \in SearchState
         /\ u.key = st.key /\ u.status = st.status /\ u.sorting = st.sorting
  BY DEF SearchState

\* Applying a batch yields a search of the same key, status and phase.
LEMMA ApplyBatchType ==
  ASSUME NEW st \in SearchState, NEW p \in Provider, NEW raw \in BatchSizes,
         NEW warned \in BOOLEAN, NEW matched \in Nat, NEW fresh \in Nat,
         st.trackers[p].pages < MaxPages,
         NEW u, u = ApplyBatch(st, p, raw, warned, matched, fresh)
  PROVE  /\ u \in SearchState
         /\ u.key = st.key /\ u.status = st.status /\ u.sorting = st.sorting
<1> DEFINE old == st.trackers[p]
           success == old.hadSuccess \/ ~warned \/ matched > 0
           cut == old.incomplete \/ warned \/ Budgeted(st, raw) < raw
           t == [old EXCEPT !.pages = old.pages + 1, !.hadSuccess = success,
                            !.incomplete = cut]
<1>1. t \in Tracker
  <2>1. old \in Tracker
    BY DEF SearchState
  <2>2. old.pages + 1 \in 0..MaxPages
    BY <2>1, ConstantsAssumption DEF Tracker
  <2>3. success \in BOOLEAN /\ cut \in BOOLEAN
    OBVIOUS
  <2> HIDE DEF old, success, cut
  <2> QED
    BY <2>1, <2>2, <2>3 DEF Tracker
<1>2. Finished(t) \in Tracker
  BY <1>1, FinishedType
<1>3. [st.trackers EXCEPT ![p] = IF Budgeted(st, raw) < raw THEN Finished(t) ELSE t]
        \in [Provider -> Tracker]
  BY <1>1, <1>2 DEF SearchState
<1>4. raw \in Nat
  BY ConstantsAssumption
<1> HIDE DEF t
<1> DEFINE accepted == st.accepted + Budgeted(st, raw)
           truncated == Budgeted(st, raw) < raw
           trackers == [st.trackers EXCEPT ![p] = IF truncated THEN Finished(t) ELSE t]
<1>5. u = [st EXCEPT !.accepted = accepted, !.exhausted = truncated,
                     !.checked = st.checked + raw, !.items = st.items + fresh,
                     !.trackers = trackers]
  BY DEF ApplyBatch, t, SearchState
<1>6. truncated \in BOOLEAN /\ accepted \in 0..MaxCandidates
  BY <1>4, BudgetedBound
<1>7. st.checked + raw \in Nat /\ st.items + fresh \in Nat
  BY <1>4 DEF SearchState
<1>8. trackers \in [Provider -> Tracker]
  BY <1>3
<1> HIDE DEF accepted, truncated, trackers
<1> QED
  BY <1>5, <1>6, <1>7, <1>8, ZenonT(60) DEF SearchState

\* Settling ends "loading" with one of the two outcomes.
LEMMA SettledType ==
  ASSUME NEW st \in SearchState
  PROVE  /\ Settled(st) \in SearchState
         /\ Settled(st).key = st.key
         /\ Settled(st).sorting = FALSE
         /\ Settled(st).status = IF AnySuccess(st) THEN "complete" ELSE "failed"
  BY DEF Settled, SearchState, SearchStatus, AnySuccess

-----------------------------------------------------------------------------
(***************************************************************************)
(* The inductive invariant.  IndexesResolve and RefreshHasServing need     *)
(* each other: an eviction pass keeps the search a refresh is served over  *)
(* because the pair is two different live searches, and a discard takes    *)
(* both because both belong to the key's profile.                          *)
(***************************************************************************)

\* The final sort runs only while the search still reads "loading".
SortingIsLoading ==
  \A s \in DOMAIN states : states[s].sorting => states[s].status = "loading"

\* Every id the two indexes hold is a live search of that very key.  A conjunct of the
\* invariant, and no claim about the code: it rests on DiscardProfile as one step, which
\* a worker thread may take in the middle of a start (OnlyOvertakenEntriesDangle in
\* SearchThreads says what holds then).
IndexesResolve ==
  \A k \in Key : \A s \in {latest[k], refreshing[k]} :
    s # NoSearch => s \in DOMAIN states /\ states[s].key = k

IndInv == TypeOK /\ SortingIsLoading /\ IndexesResolve /\ RefreshHasServing

\* The initial state satisfies the invariant.
LEMMA InitInv == Init => IndInv
  BY ConstantsAssumption
  DEF Init, IndInv, TypeOK, SortingIsLoading, IndexesResolve, RefreshHasServing

\* Registering adds one loading search under an id that was not in use.
LEMMA RegisterEffect ==
  ASSUME TypeOK, NEW k \in Key, CanStart, Register(started + 1, k)
  PROVE  /\ started + 1 \in Search /\ started + 1 \notin DOMAIN states
         /\ started' = started + 1 /\ started' \in 0..MaxSearches
         /\ DOMAIN states' = DOMAIN states \cup {started + 1}
         /\ DOMAIN states' \subseteq 1..started'
         /\ states' \in [DOMAIN states' -> SearchState]
         /\ states'[started + 1] = NewState(k)
         /\ \A t \in DOMAIN states : states'[t] = states[t]
<1>1. started \in 0..MaxSearches /\ started < MaxSearches /\ MaxSearches \in Nat
  BY ConstantsAssumption DEF TypeOK, CanStart
<1>2. /\ started + 1 \in Search /\ started + 1 \notin DOMAIN states
      /\ started + 1 \in 0..MaxSearches
  BY <1>1 DEF TypeOK
<1>3. NewState(k) \in SearchState
  BY NewStateType DEF TypeOK
<1>4. states' = [t \in DOMAIN states \cup {started + 1} |->
                  IF t = started + 1 THEN NewState(k) ELSE states[t]]
  BY DEF Register
<1>5. \A t \in DOMAIN states : states[t] \in SearchState
  BY DEF TypeOK
<1>6. DOMAIN states' = DOMAIN states \cup {started + 1}
  BY <1>4
<1>7. DOMAIN states' \subseteq 1..started'
  BY <1>1, <1>6 DEF TypeOK, Register
<1>8. states' \in [DOMAIN states' -> SearchState]
  BY <1>3, <1>4, <1>5
<1> QED
  BY <1>2, <1>4, <1>6, <1>7, <1>8 DEF Register

\* Overwriting a live search touches no other.
LEMMA SetStateEffect ==
  ASSUME TypeOK, NEW s \in DOMAIN states, NEW st \in SearchState, SetState(s, st)
  PROVE  /\ DOMAIN states' = DOMAIN states
         /\ states' \in [DOMAIN states' -> SearchState]
         /\ states'[s] = st
         /\ \A t \in DOMAIN states : t # s => states'[t] = states[t]
  BY DEF TypeOK, SetState

\* An eviction pass takes live, unprotected searches only.
LEMMA EvictionPassFree ==
  /\ EvictionPass \subseteq DOMAIN states
  /\ \A s \in EvictionPass : ~Protected(s)
  BY DEF EvictionPass, Oldest

-----------------------------------------------------------------------------
(* One lemma per action of Next: it preserves the invariant. *)

\* A plain or a replacing start: the new search is served.
LEMMA StartInv ==
  ASSUME IndInv, NEW k \in Key, Start(k) \/ StartReplacing(k)
  PROVE  IndInv'
<1>1. /\ CanStart /\ Register(started + 1, k)
      /\ latest' = [latest EXCEPT ![k] = started + 1]
      /\ UNCHANGED <<refreshing, evicted, now, server>>
  BY DEF Start, StartReplacing
<1>2. TypeOK
  BY DEF IndInv
<1>3. NewState(k).key = k /\ NewState(k).status = "loading" /\ ~NewState(k).sorting
  BY <1>2, NewStateType DEF TypeOK
<1>4. TypeOK'
  BY <1>1, <1>2, RegisterEffect DEF TypeOK
<1>5. SortingIsLoading'
  BY <1>1, <1>2, <1>3, RegisterEffect DEF IndInv, SortingIsLoading
<1>6. IndexesResolve'
  BY <1>1, <1>2, <1>3, RegisterEffect DEF IndInv, IndexesResolve, TypeOK
<1>7. RefreshHasServing'
  BY <1>1, <1>2, <1>3, RegisterEffect DEF IndInv, IndexesResolve, RefreshHasServing, TypeOK
<1> QED
  BY <1>4, <1>5, <1>6, <1>7 DEF IndInv

\* A forced start over a complete search: the new search becomes the refresh.
LEMMA StartRefreshInv ==
  ASSUME IndInv, NEW k \in Key, StartRefresh(k)
  PROVE  IndInv'
<1>1. /\ CanStart /\ HasStale(k) /\ Register(started + 1, k)
      /\ refreshing' = [refreshing EXCEPT ![k] = started + 1]
      /\ UNCHANGED <<latest, evicted, now, server>>
  BY DEF StartRefresh
<1>2. TypeOK
  BY DEF IndInv
<1>3. NewState(k).key = k /\ NewState(k).status = "loading" /\ ~NewState(k).sorting
  BY <1>2, NewStateType DEF TypeOK
<1>4. TypeOK'
  BY <1>1, <1>2, RegisterEffect DEF TypeOK
<1>5. SortingIsLoading'
  BY <1>1, <1>2, <1>3, RegisterEffect DEF IndInv, SortingIsLoading
<1>6. IndexesResolve'
  BY <1>1, <1>2, <1>3, RegisterEffect DEF IndInv, IndexesResolve, TypeOK
<1>7. RefreshHasServing'
  BY <1>1, <1>2, <1>3, RegisterEffect
  DEF IndInv, IndexesResolve, RefreshHasServing, TypeOK, HasStale
<1> QED
  BY <1>4, <1>5, <1>6, <1>7 DEF IndInv

\* A read that promotes.
LEMMA ServingSearchIdInv ==
  ASSUME IndInv, NEW k \in Key, ServingSearchId(k)
  PROVE  IndInv'
  BY DEF IndInv, ServingSearchId, PromoteRefresh, TypeOK, SortingIsLoading,
         IndexesResolve, RefreshHasServing

\* A step that overwrites one search without changing its key, status or phase,
\* and at most promotes it, preserves the invariant.
LEMMA QuietUpdateInv ==
  ASSUME IndInv, NEW s \in DOMAIN states, NEW st \in SearchState, SetState(s, st),
         st.key = states[s].key, st.status = states[s].status,
         st.sorting => st.status = "loading",
         \/ UNCHANGED <<latest, refreshing>>
         \/ refreshing[st.key] = s /\ PromoteRefresh(st.key),
         UNCHANGED <<evicted, started, now, server>>
  PROVE  IndInv'
<1>1. TypeOK
  BY DEF IndInv
<1>2. st.key \in Key
  BY DEF SearchState
<1>3. \A t \in DOMAIN states' :
        /\ t \in DOMAIN states
        /\ states'[t].key = states[t].key
        /\ states'[t].status = states[t].status
  BY <1>1, SetStateEffect
<1>4. DOMAIN states' = DOMAIN states
  BY <1>1, SetStateEffect
<1>5. TypeOK'
  BY <1>1, <1>2, SetStateEffect DEF TypeOK, PromoteRefresh
<1>6. SortingIsLoading'
  BY <1>1, SetStateEffect DEF IndInv, SortingIsLoading
<1>7. IndexesResolve'
  BY <1>1, <1>2, <1>3, <1>4 DEF IndInv, IndexesResolve, PromoteRefresh, TypeOK
<1>8. RefreshHasServing'
  BY <1>1, <1>2, <1>3, <1>4
  DEF IndInv, IndexesResolve, RefreshHasServing, PromoteRefresh, TypeOK
<1> QED
  BY <1>5, <1>6, <1>7, <1>8 DEF IndInv

\* Any step of a provider's consumer.
LEMMA ConsumerInv ==
  ASSUME IndInv, NEW s \in Search, NEW p \in Provider, ConsumerStep(s, p)
  PROVE  IndInv'
<1> DEFINE st == states[s]
<1>1. Consuming(s, p)
  BY DEF ConsumerStep, ConsumeBatch, DropBatch, ProviderEnds, ProviderRaises
<1>2. s \in DOMAIN states /\ st \in SearchState /\ st.trackers[p] \in Tracker
  BY <1>1 DEF Consuming, IndInv, TypeOK, SearchState
<1>3. st.sorting => st.status = "loading"
  BY <1>2 DEF IndInv, SortingIsLoading
<1>4. CASE ConsumeBatch(s, p)
  <2>1. PICK raw \in BatchSizes, warned \in BOOLEAN :
          \E matched \in 0..Budgeted(st, raw) : \E fresh \in 0..matched :
            SetState(s, ApplyBatch(st, p, raw, warned, matched, fresh))
    BY <1>4 DEF ConsumeBatch
  <2>2. PICK matched \in 0..Budgeted(st, raw) : \E fresh \in 0..matched :
            SetState(s, ApplyBatch(st, p, raw, warned, matched, fresh))
    BY <2>1
  <2>3. PICK fresh \in 0..matched :
            SetState(s, ApplyBatch(st, p, raw, warned, matched, fresh))
    BY <2>2
  <2> DEFINE u == ApplyBatch(st, p, raw, warned, matched, fresh)
  <2>4. matched \in Nat /\ fresh \in Nat
    OBVIOUS
  <2>5. st.trackers[p].pages < MaxPages
    BY <1>4 DEF ConsumeBatch
  <2>6. u \in SearchState /\ u.key = st.key /\ u.status = st.status
        /\ u.sorting = st.sorting
    BY <1>2, <2>4, <2>5, ApplyBatchType
  <2>7. \/ UNCHANGED <<latest, refreshing>>
        \/ refreshing[st.key] = s /\ PromoteRefresh(st.key)
    BY <1>4 DEF ConsumeBatch, PromotesAfterBatch
  <2>8. UNCHANGED <<evicted, started, now, server>>
    BY <1>4 DEF ConsumeBatch
  <2> HIDE DEF u, st
  <2> QED
    BY <1>2, <1>3, <2>3, <2>6, <2>7, <2>8, QuietUpdateInv DEF st, u
<1>5. CASE DropBatch(s, p) \/ ProviderEnds(s, p) \/ ProviderRaises(s, p)
  <2>1. PICK t \in Tracker : SetTracker(s, p, t)
    <3>1. [st.trackers[p] EXCEPT !.incomplete = TRUE] \in Tracker
      BY <1>2 DEF Tracker
    <3>2. [st.trackers[p] EXCEPT !.status = "failed"] \in Tracker
      BY <1>2 DEF Tracker, TrackerStatus
    <3> QED
      BY <1>2, <1>5, <3>1, <3>2, FinishedType DEF DropBatch, ProviderEnds, ProviderRaises
  <2> DEFINE u == [st EXCEPT !.trackers = [@ EXCEPT ![p] = t]]
  <2>2. SetState(s, u)
    BY <2>1 DEF SetTracker
  <2>3. u \in SearchState /\ u.key = st.key /\ u.status = st.status
        /\ u.sorting = st.sorting
    BY <1>2, TrackerUpdateType
  <2>4. UNCHANGED <<latest, refreshing, evicted, started, now, server>>
    BY <1>5 DEF DropBatch, ProviderEnds, ProviderRaises
  <2> HIDE DEF u
  <2> QED
    BY <1>2, <1>3, <2>2, <2>3, <2>4, QuietUpdateInv
<1> QED
  BY <1>4, <1>5 DEF ConsumerStep

\* The final sort is handed to a thread.
LEMMA BeginSortInv ==
  ASSUME IndInv, NEW s \in Search, BeginSort(s)
  PROVE  IndInv'
<1> DEFINE u == [states[s] EXCEPT !.sorting = TRUE]
<1>1. s \in DOMAIN states /\ states[s] \in SearchState /\ states[s].status = "loading"
  BY DEF BeginSort, IndInv, TypeOK
<1>2. u \in SearchState /\ u.key = states[s].key /\ u.status = "loading"
  BY <1>1 DEF SearchState
<1>3. SetState(s, u) /\ UNCHANGED <<latest, refreshing, evicted, started, now, server>>
  BY DEF BeginSort
<1> HIDE DEF u
<1> QED
  BY <1>1, <1>2, <1>3, QuietUpdateInv

\* Settling a search ends its status; an outstanding refresh leaves `refreshing`
\* in the same step, to become what is served or to be forgotten.
LEMMA SettleInv ==
  ASSUME IndInv, NEW s \in DOMAIN states, NEW st \in SearchState, SetState(s, st),
         st.key = states[s].key, ~st.sorting,
         \/ refreshing[st.key] = s /\ PromoteRefresh(st.key)
         \/ refreshing[st.key] = s /\ AbandonRefresh(st.key)
         \/ refreshing[st.key] # s /\ UNCHANGED <<latest, refreshing>>,
         UNCHANGED <<evicted, started, now, server>>
  PROVE  IndInv'
<1>1. TypeOK
  BY DEF IndInv
<1>2. st.key \in Key
  BY DEF SearchState
<1>3. /\ DOMAIN states' = DOMAIN states
      /\ \A t \in DOMAIN states :
           /\ states'[t].key = states[t].key
           /\ t # s => states'[t] = states[t]
  BY <1>1, SetStateEffect
<1>4. TypeOK'
  BY <1>1, <1>2, SetStateEffect DEF TypeOK, PromoteRefresh, AbandonRefresh
<1>5. SortingIsLoading'
  BY <1>1, SetStateEffect DEF IndInv, SortingIsLoading
<1> DEFINE k == st.key
<1>6. /\ \A j \in Key : j # k => latest'[j] = latest[j] /\ refreshing'[j] = refreshing[j]
      /\ \/ latest'[k] = s /\ refreshing[k] = s /\ refreshing'[k] = NoSearch
         \/ latest'[k] = latest[k] /\ refreshing[k] = s /\ refreshing'[k] = NoSearch
         \/ latest'[k] = latest[k] /\ refreshing[k] # s /\ refreshing'[k] = refreshing[k]
  BY <1>1, <1>2 DEF PromoteRefresh, AbandonRefresh, TypeOK
<1>7. \A j \in Key : j # k => refreshing[j] # s
  BY <1>1 DEF IndInv, IndexesResolve, TypeOK
<1> HIDE DEF k
<1>8. IndexesResolve'
  <2> SUFFICES ASSUME NEW j \in Key, NEW r \in {latest'[j], refreshing'[j]}, r # NoSearch
               PROVE  r \in DOMAIN states' /\ states'[r].key = j
    BY DEF IndexesResolve
  <2>1. r \in {latest[j], refreshing[j]}
    BY <1>6
  <2>2. r \in DOMAIN states /\ states[r].key = j
    BY <2>1 DEF IndInv, IndexesResolve
  <2> QED
    BY <1>3, <2>2
<1>9. RefreshHasServing'
  <2> SUFFICES ASSUME NEW j \in Key, refreshing'[j] # NoSearch
               PROVE  /\ states'[refreshing'[j]].status = "loading"
                      /\ latest'[j] \notin {NoSearch, refreshing'[j]}
    BY DEF RefreshHasServing
  <2>1. refreshing'[j] = refreshing[j] /\ latest'[j] = latest[j] /\ refreshing[j] # s
    BY <1>6, <1>7
  <2>2. refreshing[j] \in DOMAIN states
    BY <2>1 DEF IndInv, IndexesResolve
  <2>3. /\ states[refreshing[j]].status = "loading"
        /\ latest[j] \notin {NoSearch, refreshing[j]}
    BY <2>1 DEF IndInv, RefreshHasServing
  <2>4. states'[refreshing[j]] = states[refreshing[j]]
    BY <1>3, <2>1, <2>2
  <2> QED
    BY <2>1, <2>3, <2>4
<1> QED
  BY <1>4, <1>5, <1>8, <1>9 DEF IndInv

\* The search settles with the outcome of its providers.
LEMMA FinishSearchInv ==
  ASSUME IndInv, NEW s \in Search, FinishSearch(s)
  PROVE  IndInv'
<1> DEFINE u == Settled(states[s])
<1>1. s \in DOMAIN states /\ states[s] \in SearchState
  BY DEF FinishSearch, IndInv, TypeOK
<1>2. u \in SearchState /\ u.key = states[s].key /\ ~u.sorting
  BY <1>1, SettledType
<1>3. /\ SetState(s, u) /\ UNCHANGED <<evicted, started, now, server>>
      /\ \/ refreshing[u.key] = s /\ PromoteRefresh(u.key)
         \/ refreshing[u.key] = s /\ AbandonRefresh(u.key)
         \/ refreshing[u.key] # s /\ UNCHANGED <<latest, refreshing>>
  BY <1>2 DEF FinishSearch
<1> HIDE DEF u
<1> QED
  BY <1>1, <1>2, <1>3, SettleInv

\* The search of a key that selects no provider completes empty.
LEMMA CompleteWithoutProvidersInv ==
  ASSUME IndInv, NEW s \in Search, CompleteWithoutProviders(s)
  PROVE  IndInv'
<1> DEFINE st == states[s]
           u == [st EXCEPT !.status = "complete", !.items = 0, !.isPartial = FALSE]
<1>1. s \in DOMAIN states /\ st \in SearchState
  BY DEF CompleteWithoutProviders, IndInv, TypeOK
<1>2. u \in SearchState /\ u.key = st.key /\ u.sorting = st.sorting
  BY <1>1 DEF SearchState, SearchStatus
<1>3. ~u.sorting
  BY <1>2 DEF CompleteWithoutProviders
<1>4. /\ SetState(s, u) /\ UNCHANGED <<evicted, started, now, server>>
      /\ \/ refreshing[u.key] = s /\ PromoteRefresh(u.key)
         \/ refreshing[u.key] # s /\ UNCHANGED <<latest, refreshing>>
  BY <1>2 DEF CompleteWithoutProviders
<1> HIDE DEF u, st
<1> QED
  BY <1>1, <1>2, <1>3, <1>4, SettleInv DEF st

\* Removing searches preserves the invariant as long as no outstanding refresh
\* loses the search it is served over and stays itself.
LEMMA EvictInv ==
  ASSUME IndInv, NEW S \in SUBSET DOMAIN states, Evict(S),
         \A k \in Key : refreshing[k] # NoSearch /\ latest[k] \in S => refreshing[k] \in S,
         UNCHANGED <<started, now, server>>
  PROVE  IndInv'
<1>1. TypeOK
  BY DEF IndInv
<1>2. /\ DOMAIN states' = DOMAIN states \ S
      /\ states' \in [DOMAIN states' -> SearchState]
      /\ \A t \in DOMAIN states' : states'[t] = states[t]
      /\ evicted' = evicted \cup S
      /\ \A k \in Key : latest'[k] = IF latest[k] \in S THEN NoSearch ELSE latest[k]
      /\ \A k \in Key : refreshing'[k] = IF refreshing[k] \in S THEN NoSearch
                                        ELSE refreshing[k]
  BY <1>1 DEF Evict, Forget, TypeOK
<1>3. TypeOK'
  BY <1>1, <1>2 DEF TypeOK, Evict, Forget
<1>4. SortingIsLoading'
  BY <1>1, <1>2 DEF IndInv, SortingIsLoading
<1>5. IndexesResolve'
  BY <1>1, <1>2 DEF IndInv, IndexesResolve
<1>6. RefreshHasServing'
  <2> SUFFICES ASSUME NEW k \in Key, refreshing'[k] # NoSearch
               PROVE  /\ states'[refreshing'[k]].status = "loading"
                      /\ latest'[k] \notin {NoSearch, refreshing'[k]}
    BY DEF RefreshHasServing
  <2>1. refreshing[k] \notin S /\ refreshing'[k] = refreshing[k]
    BY <1>2
  <2>2. refreshing[k] \in DOMAIN states'
    BY <1>2, <2>1 DEF IndInv, IndexesResolve
  <2>3. states'[refreshing[k]] = states[refreshing[k]]
    BY <1>2, <2>2
  <2>4. latest'[k] = latest[k]
    BY <1>2, <2>1
  <2> QED
    BY <2>1, <2>3, <2>4 DEF IndInv, RefreshHasServing
<1> QED
  BY <1>3, <1>4, <1>5, <1>6 DEF IndInv

\* An eviction pass: the index a refresh is served over is protected.
LEMMA EvictExpiredInv ==
  ASSUME IndInv, EvictExpired
  PROVE  IndInv'
<1> DEFINE S == EvictionPass
<1>1. S \in SUBSET DOMAIN states /\ \A s \in S : ~Protected(s)
  BY EvictionPassFree
<1>2. \A k \in Key : refreshing[k] # NoSearch => latest[k] \notin S
  BY <1>1 DEF Protected, IndInv, RefreshHasServing
<1>3. Evict(S) /\ UNCHANGED <<started, now, server>>
  BY DEF EvictExpired
<1> HIDE DEF S
<1> QED
  BY <1>1, <1>2, <1>3, EvictInv

\* Discarding a profile: the refresh and what it is served over belong to the
\* same key, so to the same profile, and leave together.
LEMMA DiscardProfileInv ==
  ASSUME IndInv, NEW pr \in Profile, DiscardProfile(pr)
  PROVE  IndInv'
<1> DEFINE S == {s \in DOMAIN states : ProfileOf[states[s].key] = pr}
<1>1. Evict(S) /\ UNCHANGED <<started, now, server>>
  BY DEF DiscardProfile
<1>2. \A k \in Key : refreshing[k] # NoSearch /\ latest[k] \in S => refreshing[k] \in S
  BY DEF IndInv, IndexesResolve, RefreshHasServing
<1>3. S \in SUBSET DOMAIN states
  OBVIOUS
<1> HIDE DEF S
<1> QED
  BY <1>1, <1>2, <1>3, EvictInv

\* Shutdown and the clock touch no search.
LEMMA ServerInv ==
  ASSUME IndInv, BeginClose \/ EndClose \/ Tick
  PROVE  IndInv'
<1>1. now' \in 0..MaxTime /\ server' \in {"open", "closing", "closed"}
      /\ UNCHANGED <<states, latest, refreshing, evicted, started>>
  BY ConstantsAssumption DEF IndInv, TypeOK, BeginClose, EndClose, Tick
<1> QED
  BY <1>1 DEF IndInv, TypeOK, SortingIsLoading, IndexesResolve, RefreshHasServing

\* Every step preserves the invariant.
LEMMA NextInv == IndInv /\ [Next]_vars => IndInv'
<1> SUFFICES ASSUME IndInv, [Next]_vars PROVE IndInv'
  OBVIOUS
<1>1. CASE UNCHANGED vars
  BY <1>1
  DEF vars, IndInv, TypeOK, SortingIsLoading, IndexesResolve, RefreshHasServing
<1>2. CASE \E k \in Key : Start(k) \/ StartRefresh(k) \/ StartReplacing(k)
  BY <1>2, StartInv, StartRefreshInv
<1>3. CASE \E k \in Key : ServingSearchId(k)
  BY <1>3, ServingSearchIdInv
<1>4. CASE \E s \in Search, p \in Provider : ConsumerStep(s, p)
  BY <1>4, ConsumerInv
<1>5. CASE \E s \in Search : PopulateStep(s)
  BY <1>5, BeginSortInv, FinishSearchInv, CompleteWithoutProvidersInv DEF PopulateStep
<1>6. CASE EvictExpired
  BY <1>6, EvictExpiredInv
<1>7. CASE \E pr \in Profile : DiscardProfile(pr)
  BY <1>7, DiscardProfileInv
<1>8. CASE BeginClose \/ EndClose \/ Tick
  BY <1>8, ServerInv
<1> QED
  BY <1>1, <1>2, <1>3, <1>4, <1>5, <1>6, <1>7, <1>8 DEF Next

\* The invariant holds throughout.
THEOREM InductiveInvariant == Spec => []IndInv
<1>1. Init => IndInv
  BY InitInv
<1>2. IndInv /\ [Next]_vars => IndInv'
  BY NextInv
<1> QED
  BY <1>1, <1>2, PTL DEF Spec

\* Type correctness, with the aggregate candidate ceiling of live.py 349-357.
THEOREM TypeCorrect == Spec => []TypeOK
<1>1. IndInv => TypeOK
  BY DEF IndInv
<1> QED
  BY <1>1, InductiveInvariant, PTL

\* While a refresh is outstanding, it is loading and another search is served.
THEOREM RefreshAlwaysHasServing == Spec => []RefreshHasServing
<1>1. IndInv => RefreshHasServing
  BY DEF IndInv
<1> QED
  BY <1>1, InductiveInvariant, PTL

-----------------------------------------------------------------------------
(***************************************************************************)
(* The strengthening.  OutcomeIsHonest speaks of settled searches only; the *)
(* facts it rests on are about the trackers while the search is loading.    *)
(***************************************************************************)

\* What holds of one search at every moment of its life.
Drained(st) ==
  /\ \A p \in Provider :
       /\ st.trackers[p].status = "absent" <=> p \notin Active[st.key]
       /\ st.trackers[p].status = "absent" => ~st.trackers[p].incomplete
       /\ st.trackers[p].status = "complete" => st.trackers[p].hadSuccess
  /\ st.exhausted => \E p \in Active[st.key] : st.trackers[p].incomplete
  /\ st.sorting \/ st.status # "loading" => AllReturned(st)
  /\ st.items > 0 => AnySuccess(st)
  /\ st.status = "failed" => ~AnySuccess(st)
  /\ st.status = "complete" /\ ~st.isPartial =>
       \A p \in Provider : st.trackers[p].status # "failed" /\ ~st.trackers[p].incomplete

AllDrained == \A s \in DOMAIN states : Drained(states[s])

OutcomeInv == IndInv /\ AllDrained

\* Once drained, the outcome is honest.
LEMMA DrainedIsHonest == OutcomeInv => OutcomeIsHonest
<1> SUFFICES ASSUME OutcomeInv, NEW s \in DOMAIN states,
                    NEW st, st = states[s]
             PROVE  /\ st.status = "failed" =>
                          \A p \in Active[st.key] : st.trackers[p].status = "failed"
                    /\ st.status = "complete" /\ ~st.isPartial =>
                          /\ ~st.exhausted
                          /\ \A p \in Active[st.key] : st.trackers[p].status = "complete"
  BY DEF OutcomeIsHonest
<1>1. st \in SearchState /\ Drained(st)
  BY DEF OutcomeInv, AllDrained, IndInv, TypeOK
<1>2. Active[st.key] \subseteq Provider
  BY <1>1, ConstantsAssumption DEF SearchState
<1>3. \A p \in Provider : st.trackers[p].status \in TrackerStatus
  BY <1>1 DEF SearchState, Tracker
<1> QED
  BY <1>1, <1>2, <1>3 DEF Drained, AllReturned, AnySuccess, TrackerStatus

\* A new search is drained: nothing has happened to it.
LEMMA NewStateDrained ==
  ASSUME NEW k \in Key
  PROVE  Drained(NewState(k))
  BY ConstantsAssumption DEF Drained, NewState, NewTracker, AnySuccess

\* Replacing the tracker of a provider that was loading by one that is
\* consistent, and that bears the truncation if there is one.
LEMMA TrackerUpdateDrained ==
  ASSUME NEW st \in SearchState, Drained(st), NEW p \in Provider,
         st.status = "loading", st.trackers[p].status = "loading",
         NEW t \in Tracker, t.status # "absent",
         t.status = "complete" => t.hadSuccess,
         st.trackers[p].incomplete => t.incomplete,
         st.trackers[p].hadSuccess => t.hadSuccess,
         NEW u \in SearchState,
         u.key = st.key, u.status = st.status, u.sorting = st.sorting,
         u.trackers = [st.trackers EXCEPT ![p] = t],
         u.exhausted => st.exhausted \/ t.incomplete,
         u.items > 0 => st.items > 0 \/ t.hadSuccess
  PROVE  Drained(u)
<1>1. p \in Active[st.key]
  BY DEF Drained
<1>2. Active[st.key] \subseteq Provider
  BY ConstantsAssumption DEF SearchState
<1>3. /\ u.trackers[p] = t
      /\ \A q \in Provider : q # p => u.trackers[q] = st.trackers[q]
  BY DEF SearchState
<1>4. \A q \in Provider :
        /\ u.trackers[q].status = "absent" <=> q \notin Active[u.key]
        /\ u.trackers[q].status = "absent" => ~u.trackers[q].incomplete
        /\ u.trackers[q].status = "complete" => u.trackers[q].hadSuccess
  BY <1>1, <1>3 DEF Drained
<1>5. u.exhausted => \E q \in Active[u.key] : u.trackers[q].incomplete
  BY <1>1, <1>2, <1>3 DEF Drained
<1>6. ~st.sorting
  BY DEF Drained, AllReturned
<1>7. u.items > 0 => AnySuccess(u)
  BY <1>3 DEF Drained, AnySuccess
<1> QED
  BY <1>4, <1>5, <1>6, <1>7 DEF Drained

-----------------------------------------------------------------------------
(* Every step keeps every search drained. *)

\* Overwriting one search by a drained one.
LEMMA OverwriteDrained ==
  ASSUME TypeOK, AllDrained, NEW s \in DOMAIN states, NEW u, Drained(u),
         states' = [states EXCEPT ![s] = u]
  PROVE  AllDrained'
<1> SUFFICES ASSUME NEW t \in DOMAIN states PROVE Drained(states'[t])
  BY DEF AllDrained, TypeOK
<1>1. CASE t = s
  BY <1>1 DEF TypeOK
<1>2. CASE t # s
  <2>1. states'[t] = states[t]
    BY <1>2 DEF TypeOK
  <2> QED
    BY <2>1 DEF AllDrained
<1> QED
  BY <1>1, <1>2

\* Registering a search.
LEMMA StartDrained ==
  ASSUME OutcomeInv, NEW k \in Key, Start(k) \/ StartRefresh(k) \/ StartReplacing(k)
  PROVE  AllDrained'
<1>1. CanStart /\ Register(started + 1, k)
  BY DEF Start, StartRefresh, StartReplacing
<1>2. /\ DOMAIN states' = DOMAIN states \cup {started + 1}
      /\ states'[started + 1] = NewState(k)
      /\ \A t \in DOMAIN states : states'[t] = states[t]
  BY <1>1, RegisterEffect DEF OutcomeInv, IndInv
<1>3. Drained(NewState(k))
  BY NewStateDrained
<1> SUFFICES ASSUME NEW t \in DOMAIN states' PROVE Drained(states'[t])
  BY DEF AllDrained
<1>4. CASE t = started + 1
  BY <1>2, <1>3, <1>4
<1>5. CASE t # started + 1
  <2>1. t \in DOMAIN states /\ states'[t] = states[t]
    BY <1>2, <1>5
  <2> QED
    BY <2>1 DEF OutcomeInv, AllDrained
<1> QED
  BY <1>4, <1>5

\* A step of a consumer.
LEMMA ConsumerDrained ==
  ASSUME OutcomeInv, NEW s \in Search, NEW p \in Provider, ConsumerStep(s, p)
  PROVE  AllDrained'
<1> DEFINE st == states[s]
           old == st.trackers[p]
<1>1. Consuming(s, p)
  BY DEF ConsumerStep, ConsumeBatch, DropBatch, ProviderEnds, ProviderRaises
<1>2. /\ s \in DOMAIN states /\ st \in SearchState /\ old \in Tracker
      /\ st.status = "loading" /\ old.status = "loading"
      /\ TypeOK /\ AllDrained /\ Drained(st)
  BY <1>1 DEF Consuming, OutcomeInv, AllDrained, IndInv, TypeOK, SearchState
<1>3. CASE ConsumeBatch(s, p)
  <2>1. PICK raw \in BatchSizes, warned \in BOOLEAN :
          \E matched \in 0..Budgeted(st, raw) : \E fresh \in 0..matched :
            SetState(s, ApplyBatch(st, p, raw, warned, matched, fresh))
    BY <1>3 DEF ConsumeBatch
  <2>2. PICK matched \in 0..Budgeted(st, raw) : \E fresh \in 0..matched :
            SetState(s, ApplyBatch(st, p, raw, warned, matched, fresh))
    BY <2>1
  <2>3. PICK fresh \in 0..matched :
            SetState(s, ApplyBatch(st, p, raw, warned, matched, fresh))
    BY <2>2
  <2> DEFINE u == ApplyBatch(st, p, raw, warned, matched, fresh)
             truncated == Budgeted(st, raw) < raw
             success == old.hadSuccess \/ ~warned \/ matched > 0
             cut == old.incomplete \/ warned \/ truncated
             read == [old EXCEPT !.pages = old.pages + 1, !.hadSuccess = success,
                                 !.incomplete = cut]
             t == IF truncated THEN Finished(read) ELSE read
  <2>4. matched \in Nat /\ fresh \in Nat /\ old.pages < MaxPages
    BY <1>3 DEF ConsumeBatch
  <2>5. u \in SearchState /\ u.key = st.key /\ u.status = st.status
        /\ u.sorting = st.sorting
    BY <1>2, <2>4, ApplyBatchType
  <2>6. /\ u.trackers = [st.trackers EXCEPT ![p] = t] /\ u.exhausted = truncated
        /\ u.items = st.items + fresh
    BY <1>2 DEF ApplyBatch, SearchState
  <2>7. read \in Tracker /\ read.status = "loading" /\ read.incomplete = cut
        /\ read.hadSuccess = success
    <3>1. old.pages + 1 \in 0..MaxPages
      BY <1>2, <2>4, ConstantsAssumption DEF Tracker
    <3>2. success \in BOOLEAN /\ cut \in BOOLEAN
      OBVIOUS
    <3> HIDE DEF success, cut, old
    <3> QED
      BY <1>2, <3>1, <3>2 DEF Tracker
  <2> HIDE DEF read, u, truncated
  <2>8. /\ t \in Tracker /\ t.status # "absent" /\ t.incomplete = cut
        /\ t.status = "complete" => t.hadSuccess
        /\ t.hadSuccess = success
    BY <2>7, FinishedType DEF Finished, Tracker
  <2> HIDE DEF t
  <2>9. u.items > 0 => st.items > 0 \/ t.hadSuccess
    <3>1. fresh > 0 => success
      <4>1. fresh > 0 => matched > 0
        BY <2>4, fresh \in 0..matched
      <4> QED
        BY <4>1
    <3>2. st.items \in Nat /\ st.items + fresh > 0 => st.items > 0 \/ fresh > 0
      BY <2>4
    <3>3. st.items \in Nat
      BY <1>2 DEF SearchState
    <3> HIDE DEF success
    <3> QED
      BY <2>6, <2>8, <3>1, <3>2, <3>3
  <2> USE DEF t
  <2>10. Drained(u)
    BY <1>2, <2>5, <2>6, <2>8, <2>9, TrackerUpdateDrained, ZenonT(60)
  <2> QED
    BY <1>2, <2>3, <2>10, OverwriteDrained DEF SetState, u
<1>4. CASE DropBatch(s, p) \/ ProviderEnds(s, p) \/ ProviderRaises(s, p)
  <2>1. PICK t \in Tracker :
          /\ SetTracker(s, p, t)
          /\ t.status # "absent"
          /\ t.status = "complete" => t.hadSuccess
          /\ old.incomplete => t.incomplete
          /\ old.hadSuccess => t.hadSuccess
    <3>1. CASE DropBatch(s, p)
      <4> DEFINE dropped == [old EXCEPT !.incomplete = TRUE]
      <4>1. /\ dropped \in Tracker /\ dropped.incomplete
            /\ dropped.hadSuccess = old.hadSuccess
        BY <1>2 DEF Tracker
      <4>2. SetTracker(s, p, Finished(dropped))
        BY <3>1 DEF DropBatch
      <4> HIDE DEF dropped
      <4> QED
        BY <4>1, <4>2, FinishedType DEF Finished, Tracker
    <3>2. CASE ProviderEnds(s, p)
      BY <1>2, <3>2, FinishedType DEF ProviderEnds, Finished, Tracker
    <3>3. CASE ProviderRaises(s, p)
      BY <1>2, <3>3 DEF ProviderRaises, Tracker, TrackerStatus
    <3> QED
      BY <1>4, <3>1, <3>2, <3>3
  <2> DEFINE u == [st EXCEPT !.trackers = [st.trackers EXCEPT ![p] = t]]
  <2>2. states' = [states EXCEPT ![s] = u]
    BY <2>1 DEF SetTracker, SetState
  <2>3. u \in SearchState /\ u.key = st.key /\ u.status = st.status
        /\ u.sorting = st.sorting
    BY <1>2, TrackerUpdateType
  <2>4. /\ u.trackers = [st.trackers EXCEPT ![p] = t]
        /\ u.exhausted = st.exhausted /\ u.items = st.items
    BY <1>2 DEF SearchState
  <2> HIDE DEF u
  <2>5. Drained(u)
    BY <1>2, <2>1, <2>3, <2>4, TrackerUpdateDrained
  <2> QED
    BY <1>2, <2>2, <2>5, OverwriteDrained
<1> QED
  BY <1>3, <1>4 DEF ConsumerStep

\* A step of the populate task: the outcome is drawn from drained trackers.
LEMMA PopulateDrained ==
  ASSUME OutcomeInv, NEW s \in Search, PopulateStep(s)
  PROVE  AllDrained'
<1> DEFINE st == states[s]
<1>1. /\ s \in DOMAIN states /\ st \in SearchState
      /\ TypeOK /\ AllDrained /\ Drained(st)
  BY DEF PopulateStep, BeginSort, FinishSearch, CompleteWithoutProviders,
         OutcomeInv, AllDrained, IndInv, TypeOK
<1>2. CASE BeginSort(s)
  <2> DEFINE u == [st EXCEPT !.sorting = TRUE]
  <2>1. states' = [states EXCEPT ![s] = u] /\ AllReturned(st) /\ st.status = "loading"
    BY <1>2 DEF BeginSort, SetState
  <2>2. /\ u.key = st.key /\ u.status = st.status /\ u.items = st.items
        /\ u.trackers = st.trackers /\ u.exhausted = st.exhausted
    BY <1>1 DEF SearchState
  <2> HIDE DEF u
  <2>3. Drained(u)
    BY <1>1, <2>1, <2>2 DEF Drained, AllReturned, AnySuccess
  <2> QED
    BY <1>1, <2>1, <2>3, OverwriteDrained
<1>3. CASE FinishSearch(s)
  <2> DEFINE u == Settled(st)
  <2>1. states' = [states EXCEPT ![s] = u] /\ AllReturned(st)
    BY <1>1, <1>3 DEF FinishSearch, SetState, Drained
  <2>2. Drained(u)
    BY <1>1, <2>1 DEF Drained, AllReturned, AnySuccess, Settled, SearchState
  <2> QED
    BY <1>1, <2>1, <2>2, OverwriteDrained
<1>4. CASE CompleteWithoutProviders(s)
  <2> DEFINE u == [st EXCEPT !.status = "complete", !.items = 0, !.isPartial = FALSE]
  <2>1. states' = [states EXCEPT ![s] = u] /\ ~HasActive(st)
    BY <1>4 DEF CompleteWithoutProviders, SetState
  <2>2. /\ \A p \in Provider : st.trackers[p].status = "absent"
        /\ Active[st.key] = {}
    BY <1>1, <2>1, ConstantsAssumption DEF HasActive, Drained, SearchState
  <2>3. Drained(u)
    BY <1>1, <2>2 DEF Drained, AllReturned, SearchState
  <2> QED
    BY <1>1, <2>1, <2>3, OverwriteDrained
<1> QED
  BY <1>2, <1>3, <1>4 DEF PopulateStep

\* Every other step leaves the searches it keeps as they are.
LEMMA KeepDrained ==
  ASSUME OutcomeInv,
         DOMAIN states' \subseteq DOMAIN states,
         \A t \in DOMAIN states' : states'[t] = states[t]
  PROVE  AllDrained'
  BY DEF OutcomeInv, AllDrained

\* Every step preserves the strengthened invariant.
LEMMA OutcomeNext == OutcomeInv /\ [Next]_vars => OutcomeInv'
<1> SUFFICES ASSUME OutcomeInv, [Next]_vars PROVE OutcomeInv'
  OBVIOUS
<1>1. IndInv'
  BY NextInv DEF OutcomeInv
<1>2. AllDrained'
  <2>1. CASE \E k \in Key : Start(k) \/ StartRefresh(k) \/ StartReplacing(k)
    BY <2>1, StartDrained
  <2>2. CASE \E s \in Search, p \in Provider : ConsumerStep(s, p)
    BY <2>2, ConsumerDrained
  <2>3. CASE \E s \in Search : PopulateStep(s)
    BY <2>3, PopulateDrained
  <2>4. CASE EvictExpired
    BY <2>4, KeepDrained DEF EvictExpired, Evict
  <2>5. CASE \E pr \in Profile : DiscardProfile(pr)
    BY <2>5, KeepDrained DEF DiscardProfile, Evict
  <2>6. CASE \/ \E k \in Key : ServingSearchId(k)
             \/ BeginClose \/ EndClose \/ Tick \/ UNCHANGED vars
    BY <2>6, KeepDrained DEF ServingSearchId, BeginClose, EndClose, Tick, vars
  <2> QED
    BY <2>1, <2>2, <2>3, <2>4, <2>5, <2>6 DEF Next
<1> QED
  BY <1>1, <1>2 DEF OutcomeInv

\* JE-007: a search reads "failed" only when every participating provider
\* failed, and it is never reported whole when a provider failed or was cut off.
THEOREM OutcomeAlwaysHonest == Spec => []OutcomeIsHonest
<1>1. Init => OutcomeInv
  BY InitInv DEF Init, OutcomeInv, AllDrained
<1>2. OutcomeInv /\ [Next]_vars => OutcomeInv'
  BY OutcomeNext
<1>3. OutcomeInv => OutcomeIsHonest
  BY DrainedIsHonest
<1> QED
  BY <1>1, <1>2, <1>3, PTL DEF Spec

\* JE-023: a failed search withholds no result; one that holds any has had a success.
THEOREM FailedNeverHides == Spec => []FailedHidesNothing
<1>1. Init => OutcomeInv
  BY InitInv DEF Init, OutcomeInv, AllDrained
<1>2. OutcomeInv /\ [Next]_vars => OutcomeInv'
  BY OutcomeNext
<1>3. OutcomeInv => FailedHidesNothing
  <2> SUFFICES ASSUME OutcomeInv, NEW s \in DOMAIN states, states[s].status = "failed"
               PROVE  states[s].items = 0
    BY DEF FailedHidesNothing
  <2> QED
    BY DEF OutcomeInv, AllDrained, Drained, IndInv, TypeOK, SearchState
<1> QED
  BY <1>1, <1>2, <1>3, PTL DEF Spec

-----------------------------------------------------------------------------
(***************************************************************************)
(* Action properties.                                                      *)
(***************************************************************************)

\* The right-hand sides of the action properties, for one key and one search.
ReplacedOnceUseful(k) ==
  LET old == latest[k]
      new == latest'[k]
  IN old # NoSearch /\ new # old /\ new # NoSearch /\ new = refreshing[k] =>
       \/ states'[new].status = "complete"
       \/ states'[new].checked >= states'[old].checked /\ states'[new].checked > 0

\* Promoting when _should_promote says so, on the states it was asked about.
LEMMA PromotionIsUseful ==
  ASSUME IndInv, IndInv', NEW k \in Key, NEW r \in Search,
         refreshing[k] = r, latest[k] # NoSearch,
         DOMAIN states' = DOMAIN states,
         ShouldPromote(states', latest[k], r)
  PROVE  \/ states'[r].status = "complete"
         \/ states'[r].checked >= states'[latest[k]].checked /\ states'[r].checked > 0
<1>1. latest[k] \in DOMAIN states' /\ r \in DOMAIN states'
  <2>1. r # NoSearch
    BY ConstantsAssumption
  <2> QED
    BY <2>1 DEF IndInv, IndexesResolve
<1>2. states'[r].checked \in Nat /\ PromoteFloor \in Nat \ {0}
  BY <1>1, ConstantsAssumption DEF IndInv, TypeOK, SearchState
<1> QED
  BY <1>1, <1>2 DEF ShouldPromote

\* JE-005: the stale index is replaced by a refresh only once that is useful.
LEMMA StepStaleServed ==
  ASSUME IndInv, [Next]_vars, NEW k \in Key
  PROVE  ReplacedOnceUseful(k)
<1> SUFFICES ASSUME latest[k] # NoSearch, latest'[k] # latest[k],
                    latest'[k] # NoSearch, latest'[k] = refreshing[k]
             PROVE  \/ states'[latest'[k]].status = "complete"
                    \/ /\ states'[latest'[k]].checked >= states'[latest[k]].checked
                       /\ states'[latest'[k]].checked > 0
  BY DEF ReplacedOnceUseful
<1>1. IndInv'
  BY NextInv
<1>2. /\ TypeOK /\ refreshing[k] \in Search /\ refreshing[k] \in DOMAIN states
      /\ refreshing[k] # started + 1
  BY DEF IndInv, IndexesResolve, TypeOK
<1>3. CASE \E j \in Key : Start(j) \/ StartReplacing(j)
  <2>1. PICK j \in Key : latest' = [latest EXCEPT ![j] = started + 1]
    BY <1>3 DEF Start, StartReplacing
  <2> QED
    BY <1>2, <2>1 DEF TypeOK
<1>4. CASE \E j \in Key : ServingSearchId(j)
  <2>1. PICK j \in Key : ServingSearchId(j)
    BY <1>4
  <2>2. j = k /\ states' = states
    BY <1>2, <2>1 DEF ServingSearchId, PromoteRefresh, TypeOK
  <2>3. ShouldPromote(states', latest[k], refreshing[k])
    BY <2>1, <2>2 DEF ServingSearchId
  <2> QED
    BY <1>1, <1>2, <2>2, <2>3, PromotionIsUseful
<1>5. CASE \E s \in Search, p \in Provider : ConsumerStep(s, p)
  <2>1. PICK s \in Search, p \in Provider : ConsumeBatch(s, p)
    BY <1>5 DEF ConsumerStep, DropBatch, ProviderEnds, ProviderRaises
  <2>2. s \in DOMAIN states /\ states[s].key \in Key
    BY <1>2, <2>1 DEF ConsumeBatch, Consuming, TypeOK, SearchState
  <2>3. PromotesAfterBatch(s) /\ PromoteRefresh(states[s].key)
    BY <2>1 DEF ConsumeBatch
  <2>4. states[s].key = k /\ refreshing[k] = s
    BY <1>2, <2>2, <2>3 DEF PromotesAfterBatch, PromoteRefresh, TypeOK
  <2>5. DOMAIN states' = DOMAIN states
    BY <2>1 DEF ConsumeBatch, SetState
  <2>6. ShouldPromote(states', latest[k], s)
    BY <2>3, <2>4 DEF PromotesAfterBatch
  <2> QED
    BY <1>1, <1>2, <2>4, <2>5, <2>6, PromotionIsUseful
<1>6. CASE \E s \in Search : PopulateStep(s)
  <2>1. PICK s \in Search : FinishSearch(s) \/ CompleteWithoutProviders(s)
    BY <1>6 DEF PopulateStep, BeginSort
  <2>2. s \in DOMAIN states /\ states[s] \in SearchState
    BY <1>2, <2>1 DEF FinishSearch, CompleteWithoutProviders, TypeOK
  <2>3. PICK j \in Key : refreshing[j] = s /\ PromoteRefresh(j)
                         /\ states'[s].status = "complete"
    <3>1. CASE FinishSearch(s)
      BY <1>2, <2>2, <3>1, SettledType
      DEF FinishSearch, SetState, AbandonRefresh, SearchState, TypeOK
    <3>2. CASE CompleteWithoutProviders(s)
      BY <1>2, <2>2, <3>2 DEF CompleteWithoutProviders, SetState, SearchState, TypeOK
    <3> QED
      BY <2>1, <3>1, <3>2
  <2>4. j = k
    BY <1>2, <2>3 DEF PromoteRefresh, TypeOK
  <2> QED
    BY <2>3, <2>4
<1>7. CASE EvictExpired \/ \E pr \in Profile : DiscardProfile(pr)
  BY <1>2, <1>7 DEF EvictExpired, DiscardProfile, Evict, Forget
<1>8. CASE \/ \E j \in Key : StartRefresh(j)
           \/ BeginClose \/ EndClose \/ Tick \/ UNCHANGED vars
  BY <1>8 DEF StartRefresh, BeginClose, EndClose, Tick, vars
<1> QED
  BY <1>3, <1>4, <1>5, <1>6, <1>7, <1>8 DEF Next

\* The stale result stays served until its replacement is useful.
THEOREM StaleAlwaysServedUntilUseful == Spec => StaleServedUntilUseful
<1>1. IndInv /\ [Next]_vars => \A k \in Key : ReplacedOnceUseful(k)
  BY StepStaleServed
<1>2. (\A k \in Key : ReplacedOnceUseful(k)) =>
      [\A k \in Key :
         LET old == latest[k]
             new == latest'[k]
         IN old # NoSearch /\ new # old /\ new # NoSearch /\ new = refreshing[k] =>
              \/ states'[new].status = "complete"
              \/ states'[new].checked >= states'[old].checked
                 /\ states'[new].checked > 0]_vars
  BY DEF ReplacedOnceUseful
<1> QED
  BY <1>1, <1>2, InductiveInvariant, PTL DEF Spec, StaleServedUntilUseful

\* JE-007: what retention may take, for one search.
TakenOnlyWithItsProfile(s) ==
  /\ \/ states[s].status = "loading"
     \/ \E k \in Key : refreshing[k] # NoSearch /\ latest[k] = s
  /\ s \notin DOMAIN states'
  => \A t \in DOMAIN states' :
       ProfileOf[states'[t].key] # ProfileOf[states[s].key]

LEMMA StepTakes ==
  ASSUME IndInv, [Next]_vars, NEW s \in DOMAIN states
  PROVE  TakenOnlyWithItsProfile(s)
<1> SUFFICES ASSUME \/ states[s].status = "loading"
                    \/ \E k \in Key : refreshing[k] # NoSearch /\ latest[k] = s,
                    s \notin DOMAIN states'
             PROVE  \A t \in DOMAIN states' :
                      ProfileOf[states'[t].key] # ProfileOf[states[s].key]
  BY DEF TakenOnlyWithItsProfile
<1>1. ~EvictExpired
  <2>1. Protected(s)
    BY DEF Protected, IndInv, RefreshHasServing
  <2>2. EvictExpired => s \in EvictionPass
    BY DEF EvictExpired, Evict
  <2> QED
    BY <2>1, <2>2, EvictionPassFree
<1>2. \A s1 \in Search, p \in Provider : ~ConsumerStep(s1, p)
  BY DEF ConsumerStep, ConsumeBatch, DropBatch, ProviderEnds, ProviderRaises,
         SetTracker, SetState
<1>3. \A s1 \in Search : ~PopulateStep(s1)
  BY DEF PopulateStep, BeginSort, FinishSearch, CompleteWithoutProviders, SetState
<1>4. \A k \in Key : ~Start(k) /\ ~StartRefresh(k) /\ ~StartReplacing(k)
                     /\ ~ServingSearchId(k)
  BY DEF Start, StartRefresh, StartReplacing, Register, ServingSearchId
<1>5. ~BeginClose /\ ~EndClose /\ ~Tick /\ ~UNCHANGED vars
  BY DEF BeginClose, EndClose, Tick, vars
<1>6. PICK pr \in Profile : DiscardProfile(pr)
  BY <1>1, <1>2, <1>3, <1>4, <1>5 DEF Next
<1> QED
  BY <1>6 DEF DiscardProfile, Evict

\* A search in progress, and the index a refresh is served over, are taken only
\* together with everything of their profile.
THEOREM OnlyDiscardAlwaysTakesBusySearches == Spec => OnlyDiscardTakesBusySearches
<1>1. IndInv /\ [Next]_vars => \A s \in DOMAIN states : TakenOnlyWithItsProfile(s)
  BY StepTakes
<1>2. (\A s \in DOMAIN states : TakenOnlyWithItsProfile(s)) =>
      [\A s \in DOMAIN states :
         /\ \/ states[s].status = "loading"
            \/ \E k \in Key : refreshing[k] # NoSearch /\ latest[k] = s
         /\ s \notin DOMAIN states'
         => \A t \in DOMAIN states' :
              ProfileOf[states'[t].key] # ProfileOf[states[s].key]]_vars
  BY DEF TakenOnlyWithItsProfile
<1> QED
  BY <1>1, <1>2, InductiveInvariant, PTL DEF Spec, OnlyDiscardTakesBusySearches

-----------------------------------------------------------------------------
(***************************************************************************)
(* Refinement.  An id is issued by a start, settled by its populate task,  *)
(* expired by an eviction pass and withdrawn by a discard; every other     *)
(* step changes nothing a client sees.                                     *)
(***************************************************************************)

\* An id answers 410 or it is live, never both.
GoneIsNotLive == evicted \cap DOMAIN states = {}

RefineInv == IndInv /\ GoneIsNotLive

\* The refinement mapping of LiveSearch!Polled.
View == [s \in Search |-> PolledView(s)]
Owners == [s \in Search |-> PolledOwner(s)]

LEMMA GoneNext == RefineInv /\ [Next]_vars => GoneIsNotLive'
<1> SUFFICES ASSUME RefineInv, [Next]_vars PROVE GoneIsNotLive'
  OBVIOUS
<1>1. CASE \E k \in Key : Start(k) \/ StartRefresh(k) \/ StartReplacing(k)
  <2>1. /\ DOMAIN states' = DOMAIN states \cup {started + 1}
        /\ evicted' = evicted /\ evicted \subseteq 1..started
        /\ started \in Nat
    BY <1>1, ConstantsAssumption
    DEF RefineInv, IndInv, TypeOK, Start, StartRefresh, StartReplacing, Register
  <2> QED
    BY <2>1 DEF RefineInv, GoneIsNotLive
<1>2. CASE EvictExpired \/ \E pr \in Profile : DiscardProfile(pr)
  <2>1. PICK S : Evict(S)
    BY <1>2 DEF EvictExpired, DiscardProfile
  <2> QED
    BY <2>1 DEF Evict, RefineInv, GoneIsNotLive
<1>3. CASE DOMAIN states' = DOMAIN states /\ evicted' = evicted
  BY <1>3 DEF RefineInv, GoneIsNotLive
<1>4. CASE (\E s \in Search, p \in Provider : ConsumerStep(s, p))
           \/ (\E s \in Search : PopulateStep(s))
  BY <1>3, <1>4, ZenonT(60)
  DEF ConsumerStep, ConsumeBatch, DropBatch, ProviderEnds, ProviderRaises, SetTracker,
      PopulateStep, BeginSort, FinishSearch, CompleteWithoutProviders, SetState
<1>5. CASE \/ \E k \in Key : ServingSearchId(k)
           \/ BeginClose \/ EndClose \/ Tick \/ UNCHANGED vars
  BY <1>3, <1>5 DEF ServingSearchId, BeginClose, EndClose, Tick, vars
<1> QED
  BY <1>1, <1>2, <1>4, <1>5 DEF Next

\* Initially no id is known.
LEMMA RefineInit == Init => Polled!Init
  BY DEF Init, Polled!Init, PolledView, PolledOwner

\* A step that settles nothing, issues nothing and evicts nothing is a stutter.
LEMMA StutterStep ==
  ASSUME IndInv, DOMAIN states' = DOMAIN states, evicted' = evicted,
         \A s \in DOMAIN states : /\ states'[s].status = states[s].status
                                  /\ states'[s].key = states[s].key
  PROVE  UNCHANGED Polled!pvars
  BY DEF Polled!pvars, PolledView, PolledOwner

\* A start issues the next id.
LEMMA IssueStep ==
  ASSUME RefineInv, NEW k \in Key, Start(k) \/ StartRefresh(k) \/ StartReplacing(k)
  PROVE  Polled!Issue(started + 1, ProfileOf[k])
<1> DEFINE n == started + 1
<1>1. TypeOK /\ CanStart /\ Register(n, k) /\ evicted' = evicted
  BY DEF Start, StartRefresh, StartReplacing, RefineInv, IndInv
<1>2. /\ n \in Search /\ n \notin DOMAIN states
      /\ DOMAIN states' = DOMAIN states \cup {n}
      /\ states'[n] = NewState(k)
      /\ \A t \in DOMAIN states : states'[t] = states[t]
  BY <1>1, RegisterEffect
<1>3. NewState(k).key = k /\ NewState(k).status = "loading"
  BY <1>1, NewStateType DEF TypeOK
<1>4. n \notin evicted
  BY <1>1, ConstantsAssumption DEF TypeOK
<1>5. PolledView(n) = "unknown"
  BY <1>2, <1>4 DEF PolledView
<1>6. /\ n \in DOMAIN states' /\ states'[n].key = k /\ states'[n].status = "loading"
      /\ n \notin evicted'
  BY <1>1, <1>2, <1>3, <1>4
<1>7. \A t \in Search : t # n =>
        /\ t \in DOMAIN states' <=> t \in DOMAIN states
        /\ t \in DOMAIN states => states'[t] = states[t]
  BY <1>2
<1> HIDE DEF n
<1>8. View'[n] = "loading" /\ Owners'[n] = ProfileOf[k]
  BY <1>2, <1>6 DEF View, Owners, PolledView, PolledOwner
<1>9. \A t \in Search : t # n => View'[t] = View[t] /\ Owners'[t] = Owners[t]
  BY <1>1, <1>7 DEF View, Owners, PolledView, PolledOwner
<1>10. View[n] = "unknown"
  BY <1>2, <1>5 DEF View
<1>11. View' = [View EXCEPT ![n] = "loading"]
  BY <1>8, <1>9 DEF View
<1>12. Owners' = [Owners EXCEPT ![n] = ProfileOf[k]]
  BY <1>8, <1>9 DEF Owners
<1> QED
  BY <1>10, <1>11, <1>12 DEF Polled!Issue, View, Owners, n

\* Settling a search in progress, under its own key.
LEMMA SettleStep ==
  ASSUME RefineInv, NEW s \in DOMAIN states, NEW outcome,
         states[s].status = "loading",
         DOMAIN states' = DOMAIN states, evicted' = evicted,
         states'[s].status = outcome, states'[s].key = states[s].key,
         \A t \in DOMAIN states : t # s => states'[t] = states[t]
  PROVE  Polled!Settle(s, outcome)
<1>1. s \in Search /\ s \notin evicted
  <2>1. s \in Search
    BY ConstantsAssumption DEF RefineInv, IndInv, TypeOK
  <2> QED
    BY <2>1 DEF RefineInv, GoneIsNotLive
<1>2. View[s] = "loading" /\ View'[s] = outcome
  BY <1>1 DEF View, PolledView
<1>3. \A t \in Search : /\ t # s => View'[t] = View[t]
                        /\ Owners'[t] = Owners[t]
  BY DEF View, Owners, PolledView, PolledOwner
<1>4. View' = [View EXCEPT ![s] = outcome]
  BY <1>1, <1>2, <1>3 DEF View
<1>5. Owners' = Owners
  BY <1>3 DEF Owners
<1> QED
  BY <1>2, <1>4, <1>5 DEF Polled!Settle, View, Owners

\* Evicting live searches makes exactly their ids answer 410.
LEMMA GoneStep ==
  ASSUME RefineInv, NEW S \in SUBSET DOMAIN states,
         DOMAIN states' = DOMAIN states \ S, evicted' = evicted \cup S,
         \A t \in DOMAIN states' : states'[t] = states[t]
  PROVE  Polled!Gone(S)
<1>1. \A t \in Search : t \in S => View'[t] = "gone" /\ Owners'[t] = "nobody"
  BY DEF View, Owners, PolledView, PolledOwner
<1>2. \A t \in Search : t \notin S => View'[t] = View[t] /\ Owners'[t] = Owners[t]
  BY DEF View, Owners, PolledView, PolledOwner
<1>3. View' = [t \in Search |-> IF t \in S THEN "gone" ELSE View[t]]
  BY <1>1, <1>2 DEF View
<1>4. Owners' = [t \in Search |-> IF t \in S THEN "nobody" ELSE Owners[t]]
  BY <1>1, <1>2 DEF Owners
<1> QED
  BY <1>3, <1>4 DEF Polled!Gone, View, Owners

\* An eviction pass expires settled searches.
LEMMA ExpireStep ==
  ASSUME RefineInv, EvictExpired
  PROVE  \E S \in SUBSET Search : Polled!Expire(S)
<1> DEFINE S == EvictionPass
<1>1. S \in SUBSET DOMAIN states /\ S \in SUBSET Search /\ \A s \in S : ~Protected(s)
  BY EvictionPassFree, ConstantsAssumption DEF RefineInv, IndInv, TypeOK
<1>2. /\ DOMAIN states' = DOMAIN states \ S /\ evicted' = evicted \cup S
      /\ \A t \in DOMAIN states' : states'[t] = states[t]
  BY DEF EvictExpired, Evict
<1> HIDE DEF S
<1>3. Polled!Gone(S)
  BY <1>1, <1>2, GoneStep
<1>4. \A s \in S : View[s] \in {"complete", "failed"}
  <2> SUFFICES ASSUME NEW s \in S PROVE View[s] \in {"complete", "failed"}
    OBVIOUS
  <2>1. s \in Search /\ s \notin evicted /\ s \in DOMAIN states
    BY <1>1 DEF RefineInv, GoneIsNotLive
  <2>2. states[s].status \in SearchStatus /\ states[s].status # "loading"
    BY <1>1, <2>1 DEF Protected, RefineInv, IndInv, TypeOK, SearchState
  <2> QED
    BY <2>1, <2>2 DEF View, PolledView, SearchStatus
<1> QED
  BY <1>1, <1>3, <1>4 DEF Polled!Expire, View

\* A discard withdraws everything of its profile.
LEMMA WithdrawStep ==
  ASSUME RefineInv, NEW pr \in Profile, DiscardProfile(pr)
  PROVE  Polled!Withdraw(pr)
<1> DEFINE S == {s \in DOMAIN states : ProfileOf[states[s].key] = pr}
<1>1. /\ DOMAIN states' = DOMAIN states \ S /\ evicted' = evicted \cup S
      /\ \A t \in DOMAIN states' : states'[t] = states[t]
  BY DEF DiscardProfile, Evict
<1>2. S \in SUBSET DOMAIN states
  OBVIOUS
<1>3. S = {i \in Search : View[i] \in Polled!Live /\ Owners[i] = pr}
  <2>1. \A s \in S : s \in Search /\ View[s] \in Polled!Live /\ Owners[s] = pr
    <3> SUFFICES ASSUME NEW s \in S
                 PROVE  s \in Search /\ View[s] \in Polled!Live /\ Owners[s] = pr
      OBVIOUS
    <3>1. s \in Search
      BY ConstantsAssumption DEF RefineInv, IndInv, TypeOK
    <3>2. s \notin evicted /\ states[s].status \in SearchStatus
      BY DEF RefineInv, GoneIsNotLive, IndInv, TypeOK, SearchState
    <3> QED
      BY <3>1, <3>2 DEF View, Owners, PolledView, PolledOwner, Polled!Live, SearchStatus
  <2>2. \A i \in Search : View[i] \in Polled!Live /\ Owners[i] = pr => i \in S
    <3> SUFFICES ASSUME NEW i \in Search, View[i] \in Polled!Live, Owners[i] = pr
                 PROVE  i \in S
      OBVIOUS
    <3>1. i \in DOMAIN states
      BY DEF View, PolledView, Polled!Live
    <3> QED
      BY <3>1 DEF Owners, PolledOwner
  <2> QED
    BY <2>1, <2>2
<1> HIDE DEF S
<1>4. Polled!Gone(S)
  BY <1>1, <1>2, GoneStep
<1> QED
  BY <1>3, <1>4 DEF Polled!Withdraw, View, Owners

\* A step of a consumer is a stutter: what it changes, a client may read (the
\* items), but not the outcome.
LEMMA ConsumerStutters ==
  ASSUME RefineInv, NEW s \in Search, NEW p \in Provider, ConsumerStep(s, p)
  PROVE  UNCHANGED Polled!pvars
<1>1. /\ DOMAIN states' = DOMAIN states /\ evicted' = evicted
      /\ \A t \in DOMAIN states : /\ states'[t].status = states[t].status
                                  /\ states'[t].key = states[t].key
  <2>1. s \in DOMAIN states /\ states[s] \in SearchState
    BY DEF ConsumerStep, ConsumeBatch, DropBatch, ProviderEnds, ProviderRaises,
           Consuming, RefineInv, IndInv, TypeOK
  <2>2. PICK u : /\ states' = [states EXCEPT ![s] = u]
                 /\ u.status = states[s].status /\ u.key = states[s].key
                 /\ evicted' = evicted
    <3>1. CASE ConsumeBatch(s, p)
      <4>1. PICK raw \in BatchSizes, warned \in BOOLEAN :
              \E matched \in 0..Budgeted(states[s], raw) : \E fresh \in 0..matched :
                SetState(s, ApplyBatch(states[s], p, raw, warned, matched, fresh))
        BY <3>1 DEF ConsumeBatch
      <4>2. PICK matched, fresh :
              SetState(s, ApplyBatch(states[s], p, raw, warned, matched, fresh))
        BY <4>1
      <4>3. evicted' = evicted
        BY <3>1 DEF ConsumeBatch
      <4> QED
        BY <2>1, <4>2, <4>3 DEF ApplyBatch, SetState, SearchState
    <3>2. CASE DropBatch(s, p) \/ ProviderEnds(s, p) \/ ProviderRaises(s, p)
      BY <2>1, <3>2
      DEF DropBatch, ProviderEnds, ProviderRaises, SetTracker, SetState, SearchState
    <3> QED
      BY <3>1, <3>2 DEF ConsumerStep
  <2> QED
    BY <2>1, <2>2 DEF RefineInv, IndInv, TypeOK
<1> QED
  BY <1>1, StutterStep DEF RefineInv

\* The populate task settles, or (handing over the sort) changes nothing.
LEMMA PopulateSettles ==
  ASSUME RefineInv, NEW s \in Search, PopulateStep(s)
  PROVE  \/ UNCHANGED Polled!pvars
         \/ \E outcome \in {"complete", "failed"} : Polled!Settle(s, outcome)
<1>1. /\ s \in DOMAIN states /\ states[s] \in SearchState
      /\ states[s].status = "loading"
  BY DEF PopulateStep, BeginSort, FinishSearch, CompleteWithoutProviders,
         RefineInv, IndInv, TypeOK, SortingIsLoading
<1>2. CASE BeginSort(s)
  BY <1>1, <1>2, StutterStep DEF BeginSort, SetState, SearchState, RefineInv, IndInv, TypeOK
<1>3. CASE FinishSearch(s) \/ CompleteWithoutProviders(s)
  <2>1. PICK u \in SearchState :
          /\ states' = [states EXCEPT ![s] = u] /\ evicted' = evicted
          /\ u.key = states[s].key /\ u.status \in {"complete", "failed"}
    <3>1. CASE FinishSearch(s)
      BY <1>1, <3>1, SettledType DEF FinishSearch, SetState
    <3>2. CASE CompleteWithoutProviders(s)
      <4> DEFINE v == [states[s] EXCEPT !.status = "complete", !.items = 0,
                                         !.isPartial = FALSE]
      <4>1. v \in SearchState /\ v.key = states[s].key /\ v.status = "complete"
        BY <1>1 DEF SearchState, SearchStatus
      <4>2. states' = [states EXCEPT ![s] = v] /\ evicted' = evicted
        BY <3>2 DEF CompleteWithoutProviders, SetState
      <4> QED
        BY <4>1, <4>2
    <3> QED
      BY <1>3, <3>1, <3>2
  <2>2. /\ DOMAIN states' = DOMAIN states
        /\ states'[s] = u
        /\ \A t \in DOMAIN states : t # s => states'[t] = states[t]
    BY <1>1, <2>1 DEF RefineInv, IndInv, TypeOK
  <2>3. Polled!Settle(s, u.status)
    BY <1>1, <2>1, <2>2, SettleStep
  <2> QED
    BY <2>1, <2>3
<1> QED
  BY <1>2, <1>3 DEF PopulateStep

\* Every step of the registry is a step of the contract or a stutter.
LEMMA RefineNext == RefineInv /\ [Next]_vars => [Polled!Next]_(Polled!pvars)
<1> SUFFICES ASSUME RefineInv, [Next]_vars
             PROVE  Polled!Next \/ UNCHANGED Polled!pvars
  OBVIOUS
<1>1. CASE \E k \in Key : Start(k) \/ StartRefresh(k) \/ StartReplacing(k)
  <2>1. PICK k \in Key : Start(k) \/ StartRefresh(k) \/ StartReplacing(k)
    BY <1>1
  <2>2. Polled!Issue(started + 1, ProfileOf[k])
    BY <2>1, IssueStep
  <2>3. started + 1 \in Search /\ ProfileOf[k] \in Profile
    BY <2>1, ConstantsAssumption
    DEF Start, StartRefresh, StartReplacing, CanStart, RefineInv, IndInv, TypeOK
  <2> QED
    BY <2>2, <2>3 DEF Polled!Next
<1>2. CASE \E s \in Search, p \in Provider : ConsumerStep(s, p)
  BY <1>2, ConsumerStutters
<1>3. CASE \E s \in Search : PopulateStep(s)
  BY <1>3, PopulateSettles DEF Polled!Next
<1>4. CASE EvictExpired
  BY <1>4, ExpireStep DEF Polled!Next
<1>5. CASE \E pr \in Profile : DiscardProfile(pr)
  BY <1>5, WithdrawStep DEF Polled!Next
<1>6. CASE \/ \E k \in Key : ServingSearchId(k)
           \/ BeginClose \/ EndClose \/ Tick \/ UNCHANGED vars
  <2>1. states' = states /\ evicted' = evicted
    BY <1>6 DEF ServingSearchId, BeginClose, EndClose, Tick, vars
  <2> QED
    BY <2>1, StutterStep DEF RefineInv
<1> QED
  BY <1>1, <1>2, <1>3, <1>4, <1>5, <1>6 DEF Next

\* GET /searches/{id} keeps its contract: the registry implements PolledSearch.
THEOREM ImplementsPolledSearch == Spec => PolledContract
<1>1. Init => RefineInv /\ Polled!Init
  BY InitInv, RefineInit DEF Init, RefineInv, GoneIsNotLive
<1>2. RefineInv /\ [Next]_vars => RefineInv'
  BY NextInv, GoneNext DEF RefineInv
<1>3. RefineInv /\ [Next]_vars => [Polled!Next]_(Polled!pvars)
  BY RefineNext
<1> QED
  BY <1>1, <1>2, <1>3, PTL DEF Spec, PolledContract, Polled!Spec
=============================================================================
