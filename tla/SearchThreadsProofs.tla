-------------------------- MODULE SearchThreadsProofs --------------------------
(***************************************************************************)
(* The search registry under its threads, for any number of profiles,      *)
(* filters, searches and patchers.                                         *)
(*                                                                         *)
(* One invariant per hazard, each inductive beside the types:              *)
(*   PageInv     the items of a search are sorted before its status says   *)
(*               that it is over, also for a reader between two reads      *)
(*   LeaveInv    an id that was given out is live or evicted               *)
(*   PassInv     what the eviction pass holds is true of the dictionaries  *)
(*               unless a discard has disturbed it                         *)
(*   DiscardInv  a search that a PATCH made stale is found, ahead of the   *)
(*               cursor or on its way out, as long as the PATCH runs       *)
(*   DangleInv   what an index names is there, or on its way out, or was   *)
(*               taken from under the loop; with IndexInv                  *)
(*   WaitInv     what polls find loading has somebody who works on it or   *)
(*               takes it away; with IndexInv, VictimInv, CallsInv and     *)
(*               FoundsInv, and for one PATCH at a time only: of two, the  *)
(*               second may cancel the task of a refresh that the first    *)
(*               has dropped just before the loop bound it                 *)
(***************************************************************************)
EXTENDS SearchThreads, FiniteSetTheorems, WellFoundedInduction, TLAPS

-----------------------------------------------------------------------------
(* Types.  Every record is one of those its owner may hold at its step.    *)

Ids == DOMAIN search
Issued == Cardinality(Ids)

SearchState ==
  [key : Key, skills : Nat, outdated : BOOLEAN,
   status : {"loading", "complete", "failed"}, items : {"growing", "sorted"}]

LookupState == [step : {"lookup"}, key : Key, force : BOOLEAN, skills : Nat, owed : Nat]
StartState == [step : {"register", "bind", "schedule", "answer"}, key : Key, skills : Nat,
               owed : Nat, search : Nat, over : BOOLEAN]
SettleState == [step : {"settle", "promote", "rebind"}, search : Nat, outcome : Outcome,
                left : {<<"items", "status">>, <<"status">>}]
ScanState == [step : {"scan"}, cursor : Nat, size : Nat, found : SUBSET Nat,
              disturbed : BOOLEAN]
WeighState == [step : {"weigh"}, victims : SUBSET Nat, present : SUBSET Nat,
               refreshing : SUBSET Key, disturbed : BOOLEAN]
EvictState == [step : {"evict"}, victims : SUBSET Nat, disturbed : BOOLEAN]

LoopTyped ==
  \/ loop = Nowhere \/ loop \in LookupState \/ loop \in StartState
  \/ loop \in SettleState \/ loop \in ScanState \/ loop \in WeighState
  \/ loop \in EvictState

\* The ids the loop has in hand have been issued, or are the next to be.
LoopKnows ==
  /\ At("register") => loop.search = Issued + 1
  /\ loop.step \in {"bind", "schedule", "answer", "settle", "promote", "rebind"} =>
       loop.search \in Ids

PatchState ==
  {Nowhere}
  \cup [step : {"discard"}, profile : Profile, skills : Nat]
  \cup [step : {"scan"}, profile : Profile, skills : Nat, cursor : Nat, size : Nat,
        found : SUBSET Nat]
  \cup [step : {"drop", "evict"}, profile : Profile, skills : Nat, found : SUBSET Nat]

CallState ==
  {Nowhere}
  \cup [step : {"leave"}, search : Nat, left : {<<"evicted", "states">>, <<"states">>}]
  \cup [step : {"list"}, search : Nat, name : {"latest", "refreshing"}]
  \cup [step : {"unbind"}, search : Nat, name : {"latest", "refreshing"}, keys : SUBSET Key]

ReaderTyped ==
  \/ reader = Nowhere
  \/ /\ reader \in [step : {"get"}, search : Nat, here : BOOLEAN]
     /\ reader.search \in Ids
  \/ /\ reader \in [step : {"read"}, search : Nat]
     /\ reader.search \in Ids
  \/ /\ reader \in [step : {"items"}, search : Nat, complete : BOOLEAN]
     /\ reader.search \in Ids
  \/ reader.step = "answered"

TypeOK ==
  /\ skills \in [Profile -> Nat] /\ promised \in [Profile -> Nat]
  /\ Issued \in Nat /\ Ids = 1..Issued
  /\ search \in [Ids -> SearchState]
  /\ states \subseteq Ids /\ tasks \subseteq Ids
  /\ index \in [{"latest", "refreshing"} -> [Key -> Nat]]
  /\ LoopTyped /\ LoopKnows
  /\ patch \in [Patcher -> PatchState]
  /\ call \in [Thread -> CallState]
  /\ ReaderTyped

LEMMA LoopForms ==
  ASSUME TypeOK
  PROVE  /\ At("idle") => loop = Nowhere
         /\ At("lookup") => loop \in LookupState
         /\ loop.step \in {"register", "bind", "schedule", "answer"} => loop \in StartState
         /\ loop.step \in {"settle", "promote", "rebind"} => loop \in SettleState
         /\ At("scan") => loop \in ScanState
         /\ At("weigh") => loop \in WeighState
         /\ At("evict") => loop \in EvictState
BY DEF TypeOK, LoopTyped, At, Nowhere, LookupState, StartState, SettleState, ScanState,
       WeighState, EvictState

LEMMA InitTypes ==
  ASSUME Init
  PROVE  TypeOK
<1>1. Ids = {} /\ Issued = 0
  BY FS_EmptySet DEF Init, Ids, Issued
<1> QED
  BY <1>1, ThreadsAssumption
     DEF Init, TypeOK, LoopTyped, LoopKnows, ReaderTyped, PatchState, CallState, At, Nowhere,
         NoSearch, Ids, Issued

-----------------------------------------------------------------------------
\* Starting a search.
LEMMA StartTypes ==
  ASSUME TypeOK,
         \/ \E k \in Key, force \in BOOLEAN : ReadProfile(k, force)
         \/ Lookup \/ Register \/ BindNew \/ Schedule \/ Answer
  PROVE  TypeOK'
<1>1. ASSUME NEW k \in Key, NEW force \in BOOLEAN, ReadProfile(k, force)
      PROVE  TypeOK'
  BY <1>1, ThreadsAssumption
     DEF ReadProfile, TypeOK, LoopTyped, LoopKnows, LookupState, ReaderTyped, Ids, Issued, At
<1>2. CASE Lookup
  <2>1. loop \in LookupState
    BY <1>2, LoopForms DEF Lookup
  <2>2. loop' \in StartState /\ loop'.step \in {"register", "answer"}
    <3>1. /\ loop.key \in Key /\ loop.skills \in Nat /\ loop.owed \in Nat
          /\ index["latest"][loop.key] \in Nat /\ Cardinality(DOMAIN search) + 1 \in Nat
      BY <2>1 DEF LookupState, TypeOK, Ids, Issued
    <3>2. \E step \in {"register", "answer"}, id \in Nat, over \in BOOLEAN :
            loop' = [step |-> step, key |-> loop.key, skills |-> loop.skills,
                     owed |-> loop.owed, search |-> id, over |-> over]
      BY <1>2, <3>1 DEF Lookup
    <3> QED
      BY <3>1, <3>2 DEF StartState
  <2>3. LoopKnows'
    BY <1>2, <2>1 DEF Lookup, TypeOK, LookupState, LoopKnows, Ids, Issued, At
  <2> QED
    BY <1>2, <2>2, <2>3 DEF Lookup, TypeOK, LoopTyped, ReaderTyped, Ids, Issued
<1>3. CASE Register
  <2>1. loop \in StartState /\ loop.search = Issued + 1
    BY <1>3, LoopForms DEF Register, TypeOK, LoopKnows, At
  <2>2. /\ Ids' = Ids \cup {loop.search} /\ Ids' = 1..Issued + 1
        /\ Issued' = Issued + 1
    <3>1. Ids' = Ids \cup {loop.search} /\ loop.search \notin Ids
      BY <1>3, <2>1 DEF Register, Ids, TypeOK
    <3>2. IsFiniteSet(Ids)
      BY FS_Interval DEF TypeOK
    <3>3. Cardinality(Ids \cup {loop.search}) = Cardinality(Ids) + 1
      BY <3>1, <3>2, FS_AddElement
    <3> QED
      BY <3>1, <3>3, <2>1 DEF TypeOK, Issued
  <2>3. search' \in [Ids' -> SearchState]
    BY <1>3, <2>1, <2>2, ThreadsAssumption
       DEF Register, TypeOK, SearchState, StartState, Ids
  <2>4. loop' \in StartState /\ loop'.step = "bind" /\ loop'.search = loop.search
    BY <1>3, <2>1 DEF Register, Goto, StartState
  <2> QED
    <3>1. LoopTyped' /\ LoopKnows'
      BY <2>2, <2>4 DEF LoopTyped, LoopKnows, At
    <3> QED
      BY <1>3, <2>1, <2>2, <2>3, <3>1 DEF Register, TypeOK, ReaderTyped
<1>4. CASE BindNew
  <2>1. loop \in StartState /\ loop.search \in Ids
    BY <1>4, LoopForms DEF BindNew, TypeOK, LoopKnows, At
  <2>2. loop' \in StartState /\ loop'.step = "schedule" /\ loop'.search = loop.search
    BY <1>4, <2>1 DEF BindNew, Goto, StartState
  <2>3. index' \in [{"latest", "refreshing"} -> [Key -> Nat]]
    BY <1>4, <2>1 DEF BindNew, Bind, TypeOK, StartState
  <2> QED
    BY <1>4, <2>1, <2>2, <2>3
       DEF BindNew, TypeOK, LoopTyped, LoopKnows, ReaderTyped, At, Ids, Issued
<1>5. CASE Schedule
  <2>1. loop \in StartState /\ loop.search \in Ids
    BY <1>5, LoopForms DEF Schedule, TypeOK, LoopKnows, At
  <2>2. loop' \in StartState /\ loop'.step = "answer" /\ loop'.search = loop.search
    BY <1>5, <2>1 DEF Schedule, Goto, StartState
  <2> QED
    BY <1>5, <2>1, <2>2 DEF Schedule, TypeOK, LoopTyped, LoopKnows, ReaderTyped, At, Ids, Issued
<1>6. CASE Answer
  BY <1>6 DEF Answer, TypeOK, LoopTyped, LoopKnows, ReaderTyped, At, Nowhere, Ids, Issued
<1> QED
  BY <1>1, <1>2, <1>3, <1>4, <1>5, <1>6

\* The end of a populate task.
LEMMA SettleTypes ==
  ASSUME TypeOK,
         \/ \E s \in tasks, outcome \in Outcome : BeginSettling(s, outcome)
         \/ WriteField \/ Promote \/ Rebind
  PROVE  TypeOK'
<1>1. ASSUME NEW s \in tasks, NEW outcome \in Outcome, BeginSettling(s, outcome)
      PROVE  TypeOK'
  BY <1>1 DEF BeginSettling, TypeOK, LoopTyped, LoopKnows, SettleState, WriteOrder,
              ReaderTyped, Ids, Issued, At
<1>2. CASE WriteField
  <2>1. loop \in SettleState /\ loop.search \in Ids
    BY <1>2, LoopForms DEF WriteField, TypeOK, LoopKnows, At
  <2>2. /\ loop.outcome \in Outcome /\ search[loop.search] \in SearchState
        /\ \/ loop.left = <<"items", "status">> /\ Head(loop.left) = "items"
           \/ loop.left = <<"status">> /\ Head(loop.left) = "status"
    BY <2>1 DEF SettleState, TypeOK, Ids
  <2>3. Ids' = Ids /\ search' \in [Ids -> SearchState]
    <3>1. Ids' = Ids /\ search' = [search EXCEPT ![loop.search] =
                                     [@ EXCEPT ![Head(loop.left)] =
                                        loop.outcome[Head(loop.left)]]]
      BY <1>2 DEF WriteField, Ids, TypeOK
    <3>2. [search[loop.search] EXCEPT ![Head(loop.left)] = loop.outcome[Head(loop.left)]]
            \in SearchState
      BY <2>2 DEF SearchState, Outcome
    <3> QED
      BY <3>1, <3>2 DEF TypeOK
  <2>4. loop' \in SettleState /\ loop'.search = loop.search
    <3>1. CASE loop.left = <<"items", "status">>
      <4>1. Len(loop.left) = 2 /\ Tail(loop.left) = <<"status">>
        BY <3>1
      <4>2. loop' = [loop EXCEPT !.left = Tail(loop.left)]
        BY <1>2, <4>1 DEF WriteField
      <4> QED
        BY <2>1, <4>1, <4>2 DEF SettleState
    <3>2. CASE loop.left = <<"status">>
      <4>1. loop' = [loop EXCEPT !.step = "promote"]
        BY <1>2, <3>2 DEF WriteField
      <4> QED
        BY <2>1, <4>1 DEF SettleState
    <3> QED
      BY <2>2, <3>1, <3>2
  <2> QED
    BY <1>2, <2>1, <2>3, <2>4
       DEF WriteField, TypeOK, LoopTyped, LoopKnows, SettleState, ReaderTyped, At, Issued
<1>3. CASE Promote
  <2>1. loop \in SettleState /\ loop.search \in Ids
    BY <1>3, LoopForms DEF Promote, TypeOK, LoopKnows, At
  <2>2. index' \in [{"latest", "refreshing"} -> [Key -> Nat]]
    <3>1. index' = index \/ \E k \in Key : Bind("refreshing", k, NoSearch)
      BY <1>3, <2>1 DEF Promote, TypeOK, SearchState, Ids
    <3> QED
      BY <3>1 DEF Bind, NoSearch, TypeOK
  <2>3. \/ loop' = Nowhere
        \/ loop' \in SettleState /\ loop'.search = loop.search
    <3>1. loop' = Nowhere \/ loop' = [loop EXCEPT !.step = "rebind"]
      BY <1>3 DEF Promote, Goto
    <3> QED
      BY <2>1, <3>1 DEF SettleState
  <2> QED
    BY <1>3, <2>1, <2>2, <2>3
       DEF Promote, TypeOK, LoopTyped, LoopKnows, SettleState, ReaderTyped, At, Nowhere, Ids,
           Issued
<1>4. CASE Rebind
  <2>1. loop \in SettleState /\ loop.search \in Ids
    BY <1>4, LoopForms DEF Rebind, TypeOK, LoopKnows, At
  <2>2. index' \in [{"latest", "refreshing"} -> [Key -> Nat]]
    BY <1>4, <2>1 DEF Rebind, Bind, TypeOK, SettleState, SearchState, Ids
  <2> QED
    BY <1>4, <2>2
       DEF Rebind, TypeOK, LoopTyped, LoopKnows, ReaderTyped, At, Nowhere, Ids, Issued
<1> QED
  BY <1>1, <1>2, <1>3, <1>4

-----------------------------------------------------------------------------
\* A set of numbers that is not empty has a least element, which is its Min.
LEMMA MinOfNaturals ==
  ASSUME NEW S \in SUBSET Nat, S # {}
  PROVE  Min(S) \in S /\ \A m \in S : Min(S) <= m
<1> DEFINE Less == OpToRel(<, Nat)
<1>1. IsWellFoundedOn(Less, Nat)
  BY NatLessThanWellFounded
<1>2. \A m, n \in Nat : <<m, n>> \in Less <=> m < n
  BY DEF OpToRel
<1> HIDE DEF Less
<1>3. PICK n \in S : \A m \in S : ~(<<m, n>> \in Less)
  BY <1>1, WFMin
<1>4. \A m \in S : n <= m
  <2> TAKE m \in S
  <2>1. m \in Nat /\ n \in Nat /\ ~(m < n)
    BY <1>2, <1>3
  <2> QED
    BY <2>1
<1> QED
  BY <1>4 DEF Min

\* What an iteration comes upon next, if it comes upon anything.
LEMMA FollowingHasNext ==
  ASSUME TypeOK, NEW cursor \in Nat, Following(cursor) # {}
  PROVE  /\ Min(Following(cursor)) \in states /\ Min(Following(cursor)) \in Nat
         /\ Min(Following(cursor)) > cursor
         /\ \A s \in states : s > cursor => Min(Following(cursor)) <= s
<1>1. Following(cursor) \in SUBSET Nat
  <2>1. \A s \in states : s \in Nat
    BY DEF TypeOK
  <2> QED
    BY <2>1 DEF Following
<1> QED
  BY <1>1, MinOfNaturals DEF Following

LEMMA StatesAreFinite ==
  ASSUME TypeOK
  PROVE  IsFiniteSet(states) /\ Cardinality(states) \in Nat
<1>1. IsFiniteSet(Ids)
  BY FS_Interval DEF TypeOK
<1> QED
  BY <1>1, FS_Subset, FS_CardinalityType DEF TypeOK

\* The eviction pass.
LEMMA PassTypes ==
  ASSUME TypeOK,
         \/ BeginPass \/ ScanNext \/ ChooseVictims \/ WeighItems \/ EndPass \/ PassRaises
         \/ \E s \in DOMAIN search : EvictVictim(s)
  PROVE  TypeOK'
<1>1. CASE BeginPass
  <2>1. loop' \in ScanState
    BY <1>1, StatesAreFinite DEF BeginPass, ScanState
  <2> QED
    BY <1>1, <2>1
       DEF BeginPass, TypeOK, LoopTyped, LoopKnows, ScanState, ReaderTyped, At, Ids, Issued
<1>2. CASE ScanNext
  <2>1. loop \in ScanState
    BY <1>2, LoopForms DEF ScanNext
  <2>2. Min(Following(loop.cursor)) \in Nat
    BY <1>2, <2>1, FollowingHasNext DEF ScanNext, ScanState
  <2>3. loop' \in ScanState
    BY <1>2, <2>1, <2>2 DEF ScanNext, ScanState
  <2> QED
    BY <1>2, <2>3
       DEF ScanNext, TypeOK, LoopTyped, LoopKnows, ScanState, ReaderTyped, At, Ids, Issued
<1>3. CASE ChooseVictims
  <2>1. loop \in ScanState
    BY <1>3, LoopForms DEF ChooseVictims
  <2>2. loop' \in WeighState
    BY <1>3, <2>1 DEF ChooseVictims, ScanState, WeighState, Bound
  <2> QED
    BY <1>3, <2>2
       DEF ChooseVictims, TypeOK, LoopTyped, LoopKnows, WeighState, ReaderTyped, At, Ids, Issued
<1>4. CASE WeighItems
  <2>1. loop \in WeighState
    BY <1>4, LoopForms DEF WeighItems
  <2>2. loop' \in EvictState
    BY <1>4, <2>1 DEF WeighItems, WeighState, EvictState
  <2> QED
    BY <1>4, <2>2
       DEF WeighItems, TypeOK, LoopTyped, LoopKnows, EvictState, ReaderTyped, At, Ids, Issued
<1>5. CASE EndPass
  BY <1>5 DEF EndPass, TypeOK, LoopTyped, LoopKnows, ReaderTyped, At, Nowhere, Ids, Issued
<1>6. CASE PassRaises
  <2>1. call' \in [Thread -> CallState]
    BY <1>6 DEF PassRaises, KeyGone, TypeOK, CallState
  <2> QED
    BY <1>6, <2>1
       DEF PassRaises, TypeOK, LoopTyped, LoopKnows, ReaderTyped, At, Nowhere, Ids, Issued
<1>7. ASSUME NEW s \in DOMAIN search, EvictVictim(s)
      PROVE  TypeOK'
  <2>1. loop \in EvictState
    BY <1>7, LoopForms DEF EvictVictim
  <2>2. loop' \in EvictState
    BY <1>7, <2>1 DEF EvictVictim, EvictState
  <2>3. call' \in [Thread -> CallState]
    BY <1>7, SMTT(30) DEF EvictVictim, CallEvict, EvictOrder, TypeOK, CallState, Ids
  <2> QED
    BY <1>7, <2>2, <2>3
       DEF EvictVictim, TypeOK, LoopTyped, LoopKnows, EvictState, ReaderTyped, At, Ids, Issued
<1> QED
  BY <1>1, <1>2, <1>3, <1>4, <1>5, <1>6, <1>7

\* A discard that disturbs a pass changes nothing else of what the loop holds.
LEMMA DisturbTypes ==
  ASSUME TypeOK, NEW w \in Thread, Disturb(w), Ids' = Ids
  PROVE  /\ LoopTyped' /\ LoopKnows'
         /\ loop'.step = loop.step /\ (w = "loop" => loop' = loop)
         /\ loop.step \notin Pass => loop' = loop
         /\ At("scan") => loop'.found = loop.found
         /\ At("weigh") \/ At("evict") => loop'.victims = loop.victims
<1>1. CASE loop' = loop
  BY <1>1 DEF TypeOK, LoopTyped, LoopKnows, At, Issued
<1>2. CASE loop' # loop
  <2>1. /\ w # "loop" /\ loop.step \in Pass
        /\ loop' = [loop EXCEPT !.disturbed = TRUE]
    BY <1>2 DEF Disturb
  <2>2. loop \in ScanState \/ loop \in WeighState \/ loop \in EvictState
    BY <2>1, LoopForms DEF Pass, At
  <2>3. loop' \in ScanState \/ loop' \in WeighState \/ loop' \in EvictState
    BY <2>1, <2>2 DEF ScanState, WeighState, EvictState
  <2>4. /\ loop'.step = loop.step
        /\ At("scan") => loop'.found = loop.found
        /\ At("weigh") \/ At("evict") => loop'.victims = loop.victims
    BY <2>1, <2>2 DEF ScanState, WeighState, EvictState, At
  <2> QED
    BY <2>1, <2>3, <2>4 DEF LoopTyped, LoopKnows, At, Pass
<1> QED
  BY <1>1, <1>2

\* A call of _evict.
LEMMA EvictTypes ==
  ASSUME TypeOK, NEW w \in Thread, Leave(w) \/ ListBound(w) \/ Unbind(w)
  PROVE  TypeOK'
<1>1. CASE Leave(w)
  <2>1. Disturb(w) \/ loop' = loop
    BY <1>1 DEF Leave
  <2>2. LoopTyped' /\ LoopKnows'
    BY <1>1, <2>1, DisturbTypes DEF Leave, TypeOK, LoopTyped, LoopKnows, At, Ids, Issued
  <2>3. call[w] \in [step : {"leave"}, search : Nat,
                     left : {<<"evicted", "states">>, <<"states">>}]
    BY <1>1 DEF Leave, TypeOK, CallState, Nowhere
  <2>4. call' \in [Thread -> CallState]
    <3>1. CASE call[w].left = <<"evicted", "states">>
      <4>1. Len(call[w].left) = 2 /\ Tail(call[w].left) = <<"states">>
        BY <3>1
      <4>2. call' = [call EXCEPT ![w] = [call[w] EXCEPT !.left = Tail(call[w].left)]]
        BY <1>1, <4>1 DEF Leave
      <4>3. [call[w] EXCEPT !.left = Tail(call[w].left)] \in CallState
        BY <2>3, <4>1 DEF CallState
      <4> QED
        BY <4>2, <4>3 DEF TypeOK
    <3>2. CASE call[w].left = <<"states">>
      <4>1. call' = [call EXCEPT ![w] =
                       [step |-> "list", search |-> call[w].search, name |-> "latest"]]
        BY <1>1, <3>2 DEF Leave
      <4>2. [step |-> "list", search |-> call[w].search, name |-> "latest"] \in CallState
        BY <2>3 DEF CallState
      <4> QED
        BY <4>1, <4>2 DEF TypeOK
    <3> QED
      BY <2>3, <3>1, <3>2
  <2> QED
    BY <1>1, <2>2, <2>4 DEF Leave, TypeOK, ReaderTyped, Ids, Issued
<1>2. CASE ListBound(w)
  <2>1. call[w] \in [step : {"list"}, search : Nat, name : {"latest", "refreshing"}]
    BY <1>2 DEF ListBound, TypeOK, CallState, Nowhere
  <2>2. call' \in [Thread -> CallState]
    <3>1. [step |-> "unbind", search |-> call[w].search, name |-> call[w].name,
           keys |-> {k \in Key : index[call[w].name][k] = call[w].search}] \in CallState
      BY <2>1 DEF CallState
    <3> QED
      BY <1>2, <3>1 DEF ListBound, TypeOK
  <2> QED
    BY <1>2, <2>2
       DEF ListBound, TypeOK, LoopTyped, LoopKnows, ReaderTyped, At, Ids, Issued
<1>3. CASE Unbind(w)
  <2>1. LoopTyped' /\ LoopKnows'
    BY <1>3, DisturbTypes DEF Unbind, Ids
  <2>2. call[w] \in [step : {"unbind"}, search : Nat, name : {"latest", "refreshing"},
                     keys : SUBSET Key]
    BY <1>3 DEF Unbind, TypeOK, CallState, Nowhere
  <2>3. call' \in [Thread -> CallState]
    <3>1. /\ Nowhere \in CallState
          /\ [step |-> "list", search |-> call[w].search, name |-> "refreshing"] \in CallState
      BY <2>2 DEF CallState
    <3> QED
      BY <1>3, <3>1 DEF Unbind, TypeOK
  <2>4. index' \in [{"latest", "refreshing"} -> [Key -> Nat]]
    BY <1>3, <2>2 DEF Unbind, TypeOK, NoSearch
  <2> QED
    BY <1>3, <2>1, <2>3, <2>4 DEF Unbind, TypeOK, ReaderTyped, Ids, Issued
<1> QED
  BY <1>1, <1>2, <1>3

\* Each step of a patch has its form.
LEMMA PatchForms ==
  ASSUME TypeOK, NEW w \in Patcher
  PROVE  /\ PatchAt(w, "discard") =>
              patch[w] \in [step : {"discard"}, profile : Profile, skills : Nat]
         /\ PatchAt(w, "scan") =>
              patch[w] \in [step : {"scan"}, profile : Profile, skills : Nat, cursor : Nat,
                            size : Nat, found : SUBSET Nat]
         /\ PatchAt(w, "drop") \/ PatchAt(w, "evict") =>
              patch[w] \in [step : {"drop", "evict"}, profile : Profile, skills : Nat,
                            found : SUBSET Nat]
         /\ w \in Thread
BY DEF TypeOK, PatchState, PatchAt, Nowhere, Thread

LEMMA PatchTypes ==
  ASSUME TypeOK, NEW w \in Patcher, PatchStep(w)
  PROVE  TypeOK'
<1>1. ASSUME NEW pr \in Profile, CommitSkills(w, pr)
      PROVE  TypeOK'
  BY <1>1 DEF CommitSkills, TypeOK, PatchState, LoopTyped, LoopKnows, ReaderTyped, At, Ids,
              Issued
<1>2. CASE BeginDiscard(w)
  <2>1. patch'[w] \in PatchState
    BY <1>2, PatchForms, StatesAreFinite DEF BeginDiscard, TypeOK, PatchState
  <2> QED
    BY <1>2, <2>1
       DEF BeginDiscard, TypeOK, LoopTyped, LoopKnows, ReaderTyped, At, Ids, Issued
<1>3. CASE ScanOn(w)
  <2>1. patch[w] \in [step : {"scan"}, profile : Profile, skills : Nat, cursor : Nat,
                      size : Nat, found : SUBSET Nat]
    BY <1>3, PatchForms DEF ScanOn, PatchAt
  <2>2. Min(Following(patch[w].cursor)) \in Nat
    BY <1>3, <2>1, FollowingHasNext DEF ScanOn
  <2>3. patch'[w] \in PatchState
    BY <1>3, <2>1, <2>2 DEF ScanOn, TypeOK, PatchState
  <2> QED
    BY <1>3, <2>3 DEF ScanOn, TypeOK, LoopTyped, LoopKnows, ReaderTyped, At, Ids, Issued
<1>4. CASE EndScan(w)
  <2>1. patch'[w] \in PatchState
    BY <1>4, PatchForms DEF EndScan, TypeOK, PatchState, PatchAt
  <2> QED
    BY <1>4, <2>1 DEF EndScan, TypeOK, LoopTyped, LoopKnows, ReaderTyped, At, Ids, Issued
<1>5. CASE CancelTask(w)
  <2>1. patch'[w] \in PatchState
    BY <1>5, PatchForms, ZenonT(60) DEF CancelTask, TypeOK, PatchState
  <2> QED
    BY <1>5, <2>1 DEF CancelTask, TypeOK, LoopTyped, LoopKnows, ReaderTyped, At, Ids, Issued
<1>6. CASE DropSearch(w)
  <2>1. patch'[w] \in PatchState
    BY <1>6, PatchForms, ZenonT(60) DEF DropSearch, TypeOK, PatchState
  <2>2. call' \in [Thread -> CallState]
    <3>1. \A s \in states : s \in Nat
      BY DEF TypeOK
    <3>2. \A s \in Nat : [step |-> "leave", search |-> s, left |-> EvictOrder] \in CallState
      BY DEF CallState, EvictOrder
    <3> QED
      BY <1>6, <3>1, <3>2, ZenonT(60) DEF DropSearch, CallEvict, TypeOK
  <2> QED
    BY <1>6, <2>1, <2>2
       DEF DropSearch, TypeOK, LoopTyped, LoopKnows, ReaderTyped, At, Ids, Issued
<1>7. CASE AnswerPatch(w)
  <2>1. patch[w].skills \in Nat /\ patch[w].profile \in Profile
    BY <1>7, PatchForms DEF AnswerPatch, PatchAt
  <2>2. \A m, n \in Nat : Max({m, n}) \in Nat
    BY DEF Max
  <2> QED
    BY <1>7, <2>1, <2>2
       DEF AnswerPatch, TypeOK, PatchState, LoopTyped, LoopKnows, ReaderTyped, At, Ids, Issued
<1>8. CASE PatchRaises(w)
  BY <1>8, ZenonT(60) DEF PatchRaises, KeyGone, TypeOK, PatchState, CallState, LoopTyped, LoopKnows,
              ReaderTyped, At, Ids, Issued
<1> QED
  BY <1>1, <1>2, <1>3, <1>4, <1>5, <1>6, <1>7, <1>8 DEF PatchStep

LEMMA ReaderTypes ==
  ASSUME TypeOK, ReaderStep
  PROVE  TypeOK'
<1>1. ReaderTyped'
  <2>1. ASSUME NEW s \in DOMAIN search, AskPage(s)
        PROVE  ReaderTyped'
    <3>1. s \in Nat
      BY DEF TypeOK, Ids
    <3> QED
      BY <2>1, <3>1 DEF AskPage, ReaderTyped, Ids
  <2>2. CASE GetState
    BY <2>2 DEF GetState, TypeOK, ReaderTyped, Nowhere, Ids
  <2>3. CASE ReadStatus
    BY <2>3 DEF ReadStatus, TypeOK, ReaderTyped, Nowhere, Ids
  <2>4. CASE ReadItems
    BY <2>4 DEF ReadItems, ReaderTyped
  <2> QED
    BY <2>1, <2>2, <2>3, <2>4 DEF ReaderStep
<1> QED
  BY <1>1 DEF ReaderStep, AskPage, GetState, ReadStatus, ReadItems, TypeOK, LoopTyped,
              LoopKnows, At, Ids, Issued

LEMMA NextTypes ==
  ASSUME TypeOK, [Next]_tvars
  PROVE  TypeOK'
<1>1. CASE UNCHANGED tvars
  BY <1>1 DEF tvars, TypeOK, LoopTyped, LoopKnows, ReaderTyped, At, Ids, Issued
<1>2. CASE LoopStep
  BY <1>2, StartTypes, SettleTypes, PassTypes DEF LoopStep
<1> QED
  BY <1>1, <1>2, PatchTypes, EvictTypes, ReaderTypes DEF Next

\* Where each step leaves the loop.
LEMMA LoopOrder ==
  ASSUME TypeOK
  PROVE  /\ \A k \in Key, force \in BOOLEAN : ReadProfile(k, force) => At("lookup")'
         /\ Lookup => loop'.step \in {"register", "answer"}
         /\ Register => At("bind")' /\ loop'.search = loop.search /\ loop'.over = loop.over
         /\ BindNew => At("schedule")' /\ loop'.search = loop.search
         /\ Schedule => At("answer")' /\ loop'.search = loop.search
         /\ Answer \/ Rebind \/ EndPass \/ PassRaises => At("idle")'
         /\ Promote => (At("rebind")' /\ loop'.search = loop.search) \/ At("idle")'
         /\ BeginPass \/ ScanNext => At("scan")'
         /\ ChooseVictims => At("weigh")'
         /\ WeighItems => At("evict")'
         /\ \A s \in DOMAIN search : EvictVictim(s) => At("evict")'
<1>1. Register => At("bind")' /\ loop'.search = loop.search /\ loop'.over = loop.over
  BY LoopForms DEF Register, At, Goto, StartState
<1>2. BindNew => At("schedule")' /\ loop'.search = loop.search
  BY LoopForms DEF BindNew, At, Goto, StartState
<1>3. Schedule => At("answer")' /\ loop'.search = loop.search
  BY LoopForms DEF Schedule, At, Goto, StartState
<1>4. Promote => (At("rebind")' /\ loop'.search = loop.search) \/ At("idle")'
  BY LoopForms DEF Promote, At, Goto, SettleState, Nowhere
<1>5. ScanNext => At("scan")'
  BY LoopForms DEF ScanNext, At, ScanState
<1>6. \A s \in DOMAIN search : EvictVictim(s) => At("evict")'
  BY LoopForms DEF EvictVictim, At, EvictState
<1>7. Answer \/ Rebind \/ EndPass \/ PassRaises => At("idle")'
  BY DEF Answer, Rebind, EndPass, PassRaises, At, Nowhere
<1> QED
  BY <1>1, <1>2, <1>3, <1>4, <1>5, <1>6, <1>7
     DEF ReadProfile, Lookup, BeginPass, ChooseVictims, WeighItems, At

-----------------------------------------------------------------------------
(* A page that says the search is over: page() reads the status first and  *)
(* the items after, _populate writes them in the opposite order.           *)

PageInv ==
  /\ \A s \in Ids : search[s].status # "loading" => search[s].items = "sorted"
  /\ At("settle") /\ loop.left = <<"status">> => search[loop.search].items = "sorted"
  /\ reader.step = "items" /\ reader.complete => search[reader.search].items = "sorted"
  /\ CompletePageIsFinal

\* What moves neither the searches nor the reader.
LEMMA PageKept ==
  ASSUME PageInv, UNCHANGED <<search, reader>>,
         At("settle")' => loop' = loop \/ loop'.left = WriteOrder
  PROVE  PageInv'
<1>1. WriteOrder # <<"status">>
  BY DEF WriteOrder
<1> QED
  BY <1>1 DEF PageInv, CompletePageIsFinal, At, Ids

LEMMA RegisterKeepsPages ==
  ASSUME TypeOK, PageInv, Register
  PROVE  PageInv'
<1>1. loop.search \notin Ids /\ Ids' = Ids \cup {loop.search}
  BY DEF Register, TypeOK, LoopKnows, At, Ids
<1>2. \A s \in Ids : search'[s] = search[s]
  BY <1>1 DEF Register, Ids
<1>3. search'[loop.search].status = "loading"
  BY DEF Register
<1>4. ~At("settle")'
  BY LoopOrder DEF At
<1>5. reader' = reader
  BY DEF Register
<1> QED
  BY <1>1, <1>2, <1>3, <1>4, <1>5
     DEF PageInv, CompletePageIsFinal, TypeOK, ReaderTyped, Nowhere

LEMMA WriteFieldKeepsPages ==
  ASSUME TypeOK, PageInv, WriteField
  PROVE  PageInv'
<1>1. /\ loop \in SettleState /\ loop.search \in Ids /\ loop.outcome.items = "sorted"
      /\ search[loop.search] \in SearchState
  BY LoopForms DEF WriteField, TypeOK, LoopKnows, At, SettleState, Outcome, Ids
<1>2. /\ Ids' = Ids /\ reader' = reader
      /\ \A s \in Ids \ {loop.search} : search'[s] = search[s]
  BY DEF WriteField, Ids, TypeOK
<1>3. reader.step = "items" => reader.search \in Ids
  BY DEF TypeOK, ReaderTyped, Nowhere
<1>4. CASE loop.left = <<"items", "status">>
  <2>1. Head(loop.left) = "items"
    BY <1>4
  <2>2. search'[loop.search] = [search[loop.search] EXCEPT !["items"] = "sorted"]
    BY <1>1, <2>1 DEF WriteField, Ids, TypeOK
  <2>3. search'[loop.search].items = "sorted"
    BY <1>1, <2>2 DEF SearchState
  <2>4. loop'.search = loop.search
    BY <1>1, <1>4 DEF WriteField, SettleState
  <2> QED
    BY <1>1, <1>2, <1>3, <2>3, <2>4 DEF PageInv, CompletePageIsFinal
<1>5. CASE loop.left = <<"status">>
  <2>1. Head(loop.left) = "status" /\ Len(loop.left) = 1
    BY <1>5
  <2>2. search'[loop.search] = [search[loop.search] EXCEPT !["status"] = loop.outcome["status"]]
    BY <1>1, <2>1 DEF WriteField, Ids, TypeOK
  <2>3. search'[loop.search].items = search[loop.search].items
    BY <1>1, <2>2 DEF SearchState
  <2>4. search[loop.search].items = "sorted"
    BY <1>5 DEF PageInv, WriteField
  <2>5. ~At("settle")'
    BY <1>1, <2>1 DEF WriteField, SettleState, At
  <2> QED
    BY <1>1, <1>2, <1>3, <2>3, <2>4, <2>5 DEF PageInv, CompletePageIsFinal
<1> QED
  BY <1>1, <1>4, <1>5 DEF SettleState

LEMMA ReaderKeepsPages ==
  ASSUME TypeOK, PageInv, ReaderStep
  PROVE  PageInv'
<1>1. UNCHANGED <<search, loop>>
  BY DEF ReaderStep, AskPage, GetState, ReadStatus, ReadItems
<1>2. /\ reader'.step = "items" /\ reader'.complete =>
           search[reader'.search].items = "sorted"
      /\ CompletePageIsFinal'
  <2>1. ASSUME NEW s \in DOMAIN search, AskPage(s)
        PROVE  reader'.step # "items" /\ CompletePageIsFinal'
    BY <2>1 DEF AskPage, CompletePageIsFinal
  <2>2. CASE GetState
    BY <2>2 DEF GetState, CompletePageIsFinal
  <2>3. CASE ReadStatus
    <3>1. reader.search \in Ids
      BY <2>3 DEF ReadStatus, TypeOK, ReaderTyped, Nowhere
    <3> QED
      BY <2>3, <3>1 DEF ReadStatus, PageInv, CompletePageIsFinal
  <2>4. CASE ReadItems
    BY <2>4 DEF ReadItems, PageInv, CompletePageIsFinal
  <2> QED
    BY <2>1, <2>2, <2>3, <2>4 DEF ReaderStep
<1> QED
  BY <1>1, <1>2 DEF PageInv, At, Ids

LEMMA NextKeepsPages ==
  ASSUME TypeOK, PageInv, [Next]_tvars
  PROVE  PageInv'
<1>1. CASE UNCHANGED tvars
  BY <1>1, PageKept DEF tvars
<1>2. CASE LoopStep
  <2>1. ASSUME UNCHANGED <<search, reader>>, loop'.step # "settle"
        PROVE  PageInv'
    BY <2>1, PageKept DEF At
  <2>2. ASSUME NEW k \in Key, NEW force \in BOOLEAN, ReadProfile(k, force)
        PROVE  PageInv'
    BY <2>1, <2>2, LoopOrder DEF ReadProfile, At
  <2>3. CASE Lookup \/ BindNew \/ Schedule \/ Answer
    BY <2>1, <2>3, LoopOrder DEF Lookup, BindNew, Schedule, Answer, At
  <2>4. ASSUME NEW s \in tasks, NEW outcome \in Outcome, BeginSettling(s, outcome)
        PROVE  PageInv'
    BY <2>4, PageKept DEF BeginSettling
  <2>5. CASE Promote \/ Rebind
    BY <2>1, <2>5, LoopOrder DEF Promote, Rebind, At
  <2>6. CASE BeginPass \/ ScanNext \/ ChooseVictims \/ WeighItems \/ EndPass \/ PassRaises
    BY <2>1, <2>6, LoopOrder
       DEF BeginPass, ScanNext, ChooseVictims, WeighItems, EndPass, PassRaises, At
  <2>7. ASSUME NEW s \in DOMAIN search, EvictVictim(s)
        PROVE  PageInv'
    BY <2>1, <2>7, LoopOrder DEF EvictVictim, At
  <2> QED
    BY <1>2, <2>2, <2>3, <2>4, <2>5, <2>6, <2>7, RegisterKeepsPages, WriteFieldKeepsPages
       DEF LoopStep
<1>3. ASSUME NEW w \in Patcher, PatchStep(w)
      PROVE  PageInv'
  <2>1. UNCHANGED <<search, reader, loop>>
    BY <1>3 DEF PatchStep, CommitSkills, BeginDiscard, ScanOn, EndScan, CancelTask,
                DropSearch, AnswerPatch, PatchRaises
  <2> QED
    BY <2>1, PageKept
<1>4. ASSUME NEW w \in Thread, Leave(w) \/ ListBound(w) \/ Unbind(w)
      PROVE  PageInv'
  <2>1. UNCHANGED <<search, reader>>
    BY <1>4 DEF Leave, ListBound, Unbind
  <2>2. loop' = loop \/ Disturb(w)
    BY <1>4 DEF Leave, ListBound, Unbind
  <2>3. At("settle")' => loop' = loop
    BY <2>1, <2>2, DisturbTypes DEF At, Pass, Ids
  <2> QED
    BY <2>1, <2>3, PageKept
<1> QED
  BY <1>1, <1>2, <1>3, <1>4, ReaderKeepsPages DEF Next

-----------------------------------------------------------------------------
(* An evicted search answers 410: _evict writes `evicted` before it        *)
(* removes the state, page() looks into them in that order.                *)

LeaveInv ==
  /\ \A s \in Ids : s \in states \/ s \in evicted
  /\ \A w \in Thread : call[w].step = "leave" /\ call[w].left = <<"states">> =>
       call[w].search \in evicted
  /\ reader.step = "get" => reader.here
  /\ NotFoundOnlyWhileLeaving

\* What moves none of the two collections, and no call of _evict past its first removal.
LEMMA LeaveKept ==
  ASSUME LeaveInv, UNCHANGED <<states, evicted, reader>>, Ids' = Ids,
         \A w \in Thread :
           call'[w] = call[w] \/ call'[w].step # "leave" \/ call'[w].left # <<"states">>
  PROVE  LeaveInv'
BY DEF LeaveInv, NotFoundOnlyWhileLeaving

\* A call of _evict, and its end, are no removal.
LEMMA CallsThatRemoveNothing ==
  ASSUME TypeOK, NEW w \in Thread,
         \/ \E s \in Ids : CallEvict(w, s)
         \/ KeyGone(w)
         \/ ListBound(w)
         \/ Unbind(w)
  PROVE  \A v \in Thread :
           call'[v] = call[v] \/ call'[v].step # "leave" \/ call'[v].left # <<"states">>
BY DEF CallEvict, KeyGone, ListBound, Unbind, EvictOrder, TypeOK, Nowhere

LEMMA RemovalKeepsLeaving ==
  ASSUME TypeOK, LeaveInv, NEW w \in Thread, Leave(w)
  PROVE  LeaveInv'
<1>1. /\ call[w] \in [step : {"leave"}, search : Nat,
                      left : {<<"evicted", "states">>, <<"states">>}]
      /\ UNCHANGED <<search, reader>> /\ Ids' = Ids
      /\ \A v \in Thread \ {w} : call'[v] = call[v]
  BY DEF Leave, TypeOK, CallState, Nowhere, Ids
<1>2. CASE call[w].left = <<"evicted", "states">>
  <2>1. /\ Head(call[w].left) = "evicted" /\ Len(call[w].left) = 2
        /\ Tail(call[w].left) = <<"states">>
    BY <1>2
  <2>2. evicted' = evicted \cup {call[w].search} /\ states' = states
    BY <2>1 DEF Leave
  <2>3. call'[w].search = call[w].search
    BY <1>1, <2>1 DEF Leave, TypeOK
  <2> QED
    BY <1>1, <2>2, <2>3 DEF LeaveInv, NotFoundOnlyWhileLeaving
<1>3. CASE call[w].left = <<"states">>
  <2>1. Head(call[w].left) = "states" /\ Len(call[w].left) = 1
    BY <1>3
  <2>2. evicted' = evicted /\ states' = states \ {call[w].search}
    BY <2>1 DEF Leave
  <2>3. call'[w].step = "list" /\ call[w].search \in evicted
    <3>1. call' = [call EXCEPT ![w] =
                     [step |-> "list", search |-> call[w].search, name |-> "latest"]]
      BY <2>1 DEF Leave
    <3> QED
      BY <1>1, <1>3, <3>1 DEF TypeOK, LeaveInv
  <2> QED
    BY <1>1, <2>2, <2>3 DEF LeaveInv, NotFoundOnlyWhileLeaving
<1> QED
  BY <1>1, <1>2, <1>3

LEMMA ReaderKeepsLeaving ==
  ASSUME TypeOK, LeaveInv, ReaderStep
  PROVE  LeaveInv'
<1>1. UNCHANGED <<search, states, evicted, call>> /\ Ids' = Ids
  BY DEF ReaderStep, AskPage, GetState, ReadStatus, ReadItems, Ids
<1>2. (reader'.step = "get" => reader'.here) /\ NotFoundOnlyWhileLeaving'
  <2>1. ASSUME NEW s \in DOMAIN search, AskPage(s)
        PROVE  (reader'.step = "get" => reader'.here) /\ NotFoundOnlyWhileLeaving'
    <3>1. CASE s \in evicted
      BY <2>1, <3>1 DEF AskPage, NotFoundOnlyWhileLeaving
    <3>2. CASE s \notin evicted
      <4>1. (s \in states) = TRUE
        BY <3>2 DEF LeaveInv, Ids
      <4>2. reader' = [step |-> "get", search |-> s, here |-> TRUE]
        BY <2>1, <3>2, <4>1 DEF AskPage
      <4> QED
        BY <4>2 DEF NotFoundOnlyWhileLeaving
    <3> QED
      BY <3>1, <3>2
  <2>2. CASE GetState
    BY <2>2 DEF GetState, LeaveInv, NotFoundOnlyWhileLeaving
  <2>3. CASE ReadStatus \/ ReadItems
    BY <2>3 DEF ReadStatus, ReadItems, NotFoundOnlyWhileLeaving
  <2> QED
    BY <2>1, <2>2, <2>3 DEF ReaderStep
<1> QED
  BY <1>1, <1>2 DEF LeaveInv

LEMMA NextKeepsLeaving ==
  ASSUME TypeOK, LeaveInv, [Next]_tvars
  PROVE  LeaveInv'
<1>1. CASE UNCHANGED tvars
  BY <1>1, LeaveKept DEF tvars, Ids
<1>2. CASE LoopStep
  <2>1. CASE Register
    BY <2>1 DEF Register, LeaveInv, NotFoundOnlyWhileLeaving, Ids
  <2>2. CASE WriteField
    <3>1. Ids' = Ids
      BY <2>2 DEF WriteField, Ids, TypeOK
    <3> QED
      BY <2>2, <3>1, LeaveKept DEF WriteField
  <2>3. CASE PassRaises
    BY <2>3, LeaveKept, CallsThatRemoveNothing DEF PassRaises, Ids, Thread
  <2>4. ASSUME NEW s \in DOMAIN search, EvictVictim(s)
        PROVE  LeaveInv'
    BY <2>4, LeaveKept, CallsThatRemoveNothing DEF EvictVictim, Ids, Thread
  <2>5. CASE UNCHANGED <<search, states, evicted, reader, call>>
    BY <2>5, LeaveKept DEF Ids
  <2> QED
    BY <1>2, <2>1, <2>2, <2>3, <2>4, <2>5
       DEF LoopStep, ReadProfile, Lookup, BindNew, Schedule, Answer, BeginSettling, Promote,
           Rebind, BeginPass, ScanNext, ChooseVictims, WeighItems, EndPass
<1>3. ASSUME NEW w \in Patcher, PatchStep(w)
      PROVE  LeaveInv'
  <2>1. UNCHANGED <<search, states, evicted, reader>> /\ Ids' = Ids
    BY <1>3 DEF PatchStep, CommitSkills, BeginDiscard, ScanOn, EndScan, CancelTask,
                DropSearch, AnswerPatch, PatchRaises, Ids
  <2>2. UNCHANGED call \/ (\E s \in Ids : CallEvict(w, s)) \/ KeyGone(w)
    BY <1>3 DEF PatchStep, CommitSkills, BeginDiscard, ScanOn, EndScan, CancelTask,
                DropSearch, CallEvict, AnswerPatch, PatchRaises, TypeOK
  <2> QED
    BY <2>1, <2>2, LeaveKept, CallsThatRemoveNothing DEF Thread
<1>4. ASSUME NEW w \in Thread, ListBound(w) \/ Unbind(w)
      PROVE  LeaveInv'
  <2>1. UNCHANGED <<search, states, evicted, reader>> /\ Ids' = Ids
    BY <1>4 DEF ListBound, Unbind, Ids
  <2> QED
    BY <1>4, <2>1, LeaveKept, CallsThatRemoveNothing
<1> QED
  BY <1>1, <1>2, <1>3, <1>4, RemovalKeepsLeaving, ReaderKeepsLeaving DEF Next

-----------------------------------------------------------------------------
(* The eviction pass: whatever it holds against the dictionaries is right  *)
(* until a discard takes something away.                                   *)

PassInv ==
  /\ At("scan") /\ ~loop.disturbed => loop.size = Cardinality(states)
  /\ At("weigh") /\ ~loop.disturbed =>
       loop.present \subseteq states /\ loop.refreshing = Bound("refreshing")
  /\ call["loop"].step # "idle" => At("evict") /\ call["loop"].search # NoSearch
  /\ At("evict") /\ ~loop.disturbed /\ call["loop"].step = "unbind" =>
       call["loop"].keys \subseteq Bound(call["loop"].name)
  /\ EvictorDiesOnlyOfDiscards

\* Steps outside a pass.
LEMMA NoPass ==
  ASSUME PassInv, loop.step \notin Pass, loop'.step \notin Pass,
         UNCHANGED <<call, evictor>>
  PROVE  PassInv'
BY DEF PassInv, Pass, At, EvictorDiesOnlyOfDiscards

LEMMA PassKeepsPass ==
  ASSUME TypeOK, PassInv,
         \/ BeginPass \/ ScanNext \/ ChooseVictims \/ WeighItems \/ EndPass \/ PassRaises
         \/ \E s \in DOMAIN search : EvictVictim(s)
  PROVE  PassInv'
<1>1. CASE BeginPass
  BY <1>1 DEF BeginPass, PassInv, At, Nowhere, EvictorDiesOnlyOfDiscards
<1>2. CASE ScanNext
  <2>1. loop \in ScanState
    BY <1>2, LoopForms DEF ScanNext
  <2>2. At("scan")' /\ loop'.size = loop.size /\ loop'.disturbed = loop.disturbed
    BY <1>2, <2>1 DEF ScanNext, ScanState, At
  <2> QED
    BY <1>2, <2>2 DEF ScanNext, PassInv, At, EvictorDiesOnlyOfDiscards
<1>3. CASE ChooseVictims
  BY <1>3 DEF ChooseVictims, PassInv, At, Bound, EvictorDiesOnlyOfDiscards
<1>4. CASE WeighItems
  BY <1>4 DEF WeighItems, PassInv, At, EvictorDiesOnlyOfDiscards
<1>5. CASE EndPass
  BY <1>5 DEF EndPass, PassInv, At, Nowhere, EvictorDiesOnlyOfDiscards
<1>6. CASE PassRaises
  <2>1. loop.disturbed
    <3>1. CASE At("scan") /\ loop.size # Cardinality(states)
      BY <3>1 DEF PassInv
    <3>2. CASE At("weigh") /\ Vanished
      BY <3>2 DEF PassInv, Vanished
    <3>3. CASE At("evict") /\ KeyGone("loop")
      BY <3>3 DEF PassInv, KeyGone
    <3> QED
      BY <1>6, <3>1, <3>2, <3>3 DEF PassRaises
  <2>2. call'["loop"].step = "idle"
    BY <1>6 DEF PassRaises, KeyGone, PassInv, At, TypeOK, Nowhere, Thread
  <2> QED
    BY <1>6, <2>1, <2>2 DEF PassRaises, PassInv, At, Nowhere, EvictorDiesOnlyOfDiscards
<1>7. ASSUME NEW s \in DOMAIN search, EvictVictim(s)
      PROVE  PassInv'
  <2>1. loop \in EvictState
    BY <1>7, LoopForms DEF EvictVictim
  <2>2. At("evict")' /\ loop'.disturbed = loop.disturbed
    BY <1>7, <2>1 DEF EvictVictim, EvictState, At
  <2>3. s # NoSearch
    BY DEF NoSearch, TypeOK, Ids
  <2>4. \/ call' = call
        \/ call'["loop"].step = "leave" /\ call'["loop"].search = s
    BY <1>7 DEF EvictVictim, CallEvict, TypeOK, Thread
  <2> QED
    BY <1>7, <2>2, <2>3, <2>4 DEF EvictVictim, PassInv, At, Bound, EvictorDiesOnlyOfDiscards
<1> QED
  BY <1>1, <1>2, <1>3, <1>4, <1>5, <1>6, <1>7

\* Calls of _evict: those of the pass itself, and those of a discard.
LEMMA EvictKeepsPass ==
  ASSUME TypeOK, PassInv, NEW w \in Thread, Leave(w) \/ ListBound(w) \/ Unbind(w)
  PROVE  PassInv'
<1>1. /\ evictor' = evictor
      /\ \A v \in Thread \ {w} : call'[v] = call[v]
  BY DEF Leave, ListBound, Unbind, TypeOK
<1>2. CASE w # "loop"
  <2>1. call'["loop"] = call["loop"]
    BY <1>1, <1>2 DEF Thread
  <2>2. \/ loop' = loop /\ UNCHANGED <<states, index>>
        \/ Disturb(w)
    BY DEF Leave, ListBound, Unbind
  <2>3. CASE loop' = loop /\ UNCHANGED <<states, index>>
    BY <1>1, <2>1, <2>3 DEF PassInv, At, Bound, EvictorDiesOnlyOfDiscards
  <2>4. CASE Disturb(w)
    <3>1. CASE loop.step \in Pass
      <4>1. loop' = [loop EXCEPT !.disturbed = TRUE]
        BY <1>2, <2>4, <3>1 DEF Disturb
      <4>2. loop \in ScanState \/ loop \in WeighState \/ loop \in EvictState
        BY <3>1, LoopForms DEF Pass, At
      <4>3. loop'.disturbed = TRUE /\ loop'.step = loop.step
        BY <4>1, <4>2 DEF ScanState, WeighState, EvictState
      <4> QED
        BY <1>1, <2>1, <4>3 DEF PassInv, At, EvictorDiesOnlyOfDiscards
    <3>2. CASE loop.step \notin Pass
      BY <1>1, <2>1, <2>4, <3>2 DEF Disturb, PassInv, Pass, At, EvictorDiesOnlyOfDiscards
    <3> QED
      BY <3>1, <3>2
  <2> QED
    BY <2>2, <2>3, <2>4
<1>3. CASE w = "loop"
  <2>1. call["loop"].step # "idle"
    BY <1>3 DEF Leave, ListBound, Unbind
  <2>2. loop' = loop /\ At("evict") /\ call["loop"].search # NoSearch
    BY <1>3, <2>1 DEF Leave, ListBound, Unbind, Disturb, PassInv
  <2>3. CASE ListBound("loop")
    <3>1. call'["loop"] = [step |-> "unbind", search |-> call["loop"].search,
                           name |-> call["loop"].name,
                           keys |-> {k \in Key : index[call["loop"].name][k]
                                                   = call["loop"].search}]
      BY <2>3 DEF ListBound, TypeOK, Thread
    <3>2. UNCHANGED index
      BY <2>3 DEF ListBound
    <3> QED
      BY <1>1, <2>2, <3>1, <3>2 DEF PassInv, At, Bound, EvictorDiesOnlyOfDiscards
  <2>4. CASE Unbind("loop")
    <3>1. \/ call'["loop"] = [step |-> "list", search |-> call["loop"].search,
                              name |-> "refreshing"]
          \/ call'["loop"] = Nowhere
      BY <2>4 DEF Unbind, TypeOK, Thread
    <3> QED
      BY <1>1, <2>2, <3>1 DEF PassInv, At, Nowhere, EvictorDiesOnlyOfDiscards
  <2>5. CASE Leave("loop")
    <3>1. call["loop"] \in [step : {"leave"}, search : Nat,
                            left : {<<"evicted", "states">>, <<"states">>}]
      BY <2>5 DEF Leave, TypeOK, CallState, Nowhere, Thread
    <3>2. call'["loop"].step \in {"leave", "list"}
          /\ call'["loop"].search = call["loop"].search
      BY <2>5, <3>1 DEF Leave, TypeOK, Thread
    <3> QED
      BY <1>1, <2>2, <3>2 DEF PassInv, At, EvictorDiesOnlyOfDiscards
  <2> QED
    BY <1>3, <2>3, <2>4, <2>5
<1> QED
  BY <1>2, <1>3

LEMMA NextKeepsPass ==
  ASSUME TypeOK, PassInv, [Next]_tvars
  PROVE  PassInv'
<1>1. CASE UNCHANGED tvars
  BY <1>1 DEF tvars, PassInv, At, Bound, EvictorDiesOnlyOfDiscards
<1>2. CASE LoopStep
  <2>1. ASSUME NEW k \in Key, NEW force \in BOOLEAN, ReadProfile(k, force)
        PROVE  PassInv'
    BY <2>1, LoopOrder, NoPass DEF ReadProfile, At, Pass
  <2>2. CASE Lookup \/ Register \/ BindNew \/ Schedule \/ Answer
    BY <2>2, LoopOrder, NoPass DEF Lookup, Register, BindNew, Schedule, Answer, At, Pass
  <2>3. ASSUME NEW s \in tasks, NEW outcome \in Outcome, BeginSettling(s, outcome)
        PROVE  PassInv'
    BY <2>3, NoPass DEF BeginSettling, At, Pass
  <2>4. CASE WriteField
    <3>1. loop'.step \in {"settle", "promote"}
      BY <2>4, LoopForms DEF WriteField, At, SettleState
    <3> QED
      BY <2>4, <3>1, NoPass DEF WriteField, At, Pass
  <2>5. CASE Promote \/ Rebind
    BY <2>5, LoopOrder, NoPass DEF Promote, Rebind, At, Pass
  <2> QED
    BY <1>2, <2>1, <2>2, <2>3, <2>4, <2>5, PassKeepsPass DEF LoopStep
<1>3. ASSUME NEW w \in Patcher, PatchStep(w)
      PROVE  PassInv'
  <2>1. UNCHANGED <<states, index, loop, evictor>>
    BY <1>3 DEF PatchStep, CommitSkills, BeginDiscard, ScanOn, EndScan, CancelTask,
                DropSearch, AnswerPatch, PatchRaises
  <2>2. call'["loop"] = call["loop"]
    BY <1>3, ThreadsAssumption
       DEF PatchStep, CommitSkills, BeginDiscard, ScanOn, EndScan, CancelTask, DropSearch,
           CallEvict, AnswerPatch, PatchRaises, KeyGone, TypeOK, Thread
  <2> QED
    BY <2>1, <2>2 DEF PassInv, At, Bound, EvictorDiesOnlyOfDiscards
<1>4. CASE ReaderStep
  <2>1. UNCHANGED <<states, index, loop, evictor, call>>
    BY <1>4 DEF ReaderStep, AskPage, GetState, ReadStatus, ReadItems
  <2> QED
    BY <2>1 DEF PassInv, At, Bound, EvictorDiesOnlyOfDiscards
<1> QED
  BY <1>1, <1>2, <1>3, <1>4, EvictKeepsPass DEF Next

-----------------------------------------------------------------------------
(* A discard: what it has still to drop is what it has found, what it has  *)
(* yet to come upon, and what it is just dropping.  A search registered in *)
(* the meantime read the profile before the commit, or it is up to date.   *)

\* Ranked by skills of the profile older than those of PATCH n, and not known to be.
Stale(s, pr, n) == Owner(s) = pr /\ search[s].skills < n /\ ~search[s].outdated

Dropping(w, s) == call[w].step = "leave" /\ call[w].search = s

DiscardInv ==
  /\ \A pr \in Profile : promised[pr] <= skills[pr]
  /\ \A w \in Patcher : patch[w].step # "idle" => patch[w].skills <= skills[patch[w].profile]
  /\ \A w \in Patcher : PatchAt(w, "scan") =>
       \A s \in states : Stale(s, patch[w].profile, patch[w].skills) =>
         s \in patch[w].found \/ s > patch[w].cursor
  /\ \A w \in Patcher : patch[w].step \in {"drop", "evict"} =>
       \A s \in states : Stale(s, patch[w].profile, patch[w].skills) =>
         s \in patch[w].found \/ Dropping(w, s)
  /\ DiscardIsComplete

\* What starts no search and no PATCH, and drops nothing half.
LEMMA DiscardKept ==
  ASSUME DiscardInv, UNCHANGED <<skills, promised, patch>>, states' \subseteq states,
         \A s \in states' : /\ search'[s].key = search[s].key
                            /\ search'[s].skills = search[s].skills
                            /\ search'[s].outdated = search[s].outdated
                            /\ \A w \in Patcher : Dropping(w, s) => Dropping(w, s)'
  PROVE  DiscardInv'
<1>1. \A s \in states' : Owner(s)' = Owner(s)
  BY DEF Owner
<1>2. \A s \in states', pr \in Profile, n \in Nat : Stale(s, pr, n)' <=> Stale(s, pr, n)
  BY <1>1 DEF Stale
<1>3. \A w \in Patcher, s \in states' :
        Stale(s, patch[w].profile, patch[w].skills)' <=>
          Stale(s, patch[w].profile, patch[w].skills)
  BY <1>1 DEF Stale
<1>4. DiscardIsComplete'
  BY <1>1 DEF DiscardInv, DiscardIsComplete
<1>5. \A w \in Patcher : PatchAt(w, "scan")' => PatchAt(w, "scan")
  BY DEF PatchAt
<1> QED
  BY <1>3, <1>4, <1>5 DEF DiscardInv

LEMMA RegisterKeepsDiscards ==
  ASSUME TypeOK, DiscardInv, Register
  PROVE  DiscardInv'
<1>1. PICK id \in Nat : id = loop.search
  BY LoopForms DEF Register, At, StartState
<1> DEFINE now == skills[ProfileOf[loop.key]]
<1>2. /\ UNCHANGED <<skills, promised, patch, call>> /\ states' = states \cup {id}
      /\ id \notin Ids /\ \A s \in Ids : search'[s] = search[s]
      /\ search'[id] = [key |-> loop.key, skills |-> loop.skills,
                        outdated |-> loop.skills # now,
                        status |-> "loading", items |-> "growing"]
  BY <1>1 DEF Register, TypeOK, LoopKnows, At, Ids
<1>3. /\ ProfileOf[loop.key] \in Profile /\ loop.skills \in Nat /\ now \in Nat
      /\ promised[ProfileOf[loop.key]] \in Nat /\ promised[ProfileOf[loop.key]] <= now
  BY LoopForms, ThreadsAssumption DEF Register, At, StartState, TypeOK, DiscardInv
<1>4. /\ \A s \in states : s \in Ids /\ Owner(s)' = Owner(s)
      /\ Owner(id)' = ProfileOf[loop.key]
  BY <1>2 DEF Owner, TypeOK
<1>5. ASSUME NEW n \in Nat, n <= now, search'[id].skills < n
      PROVE  search'[id].outdated
  <2>1. loop.skills # now
    BY <1>2, <1>3, <1>5
  <2>2. search'[id] = [key |-> loop.key, skills |-> loop.skills, outdated |-> TRUE,
                       status |-> "loading", items |-> "growing"]
    <3>1. (loop.skills # now) = TRUE
      BY <2>1
    <3> QED
      BY <1>2, <3>1
  <2> QED
    BY <2>2
<1> HIDE DEF now
<1>6. ASSUME NEW w \in Patcher, patch[w].step # "idle"
      PROVE  /\ ~Stale(id, patch[w].profile, patch[w].skills)'
             /\ \A s \in states : Stale(s, patch[w].profile, patch[w].skills)' <=>
                                    Stale(s, patch[w].profile, patch[w].skills)
  <2>1. patch[w].skills \in Nat
    BY <1>6 DEF TypeOK, PatchState, Nowhere
  <2>2. patch[w].profile = ProfileOf[loop.key] => patch[w].skills <= now
    BY <1>6 DEF DiscardInv, now
  <2>3. ~Stale(id, patch[w].profile, patch[w].skills)'
    BY <1>2, <1>4, <1>5, <2>1, <2>2 DEF Stale
  <2>4. \A s \in states : Stale(s, patch[w].profile, patch[w].skills)' <=>
                            Stale(s, patch[w].profile, patch[w].skills)
    BY <1>2, <1>4 DEF Stale
  <2> QED
    BY <2>3, <2>4
<1>7. DiscardIsComplete'
  <2>1. search'[id].skills < promised'[Owner(id)'] => search'[id].outdated
    BY <1>2, <1>3, <1>4, <1>5
  <2>2. \A s \in states : search'[s].skills < promised'[Owner(s)'] => search'[s].outdated
    BY <1>2, <1>4 DEF DiscardInv, DiscardIsComplete
  <2> QED
    BY <1>2, <2>1, <2>2 DEF DiscardIsComplete, Owner
<1>8. \A w \in Patcher, s \in states : Dropping(w, s)' <=> Dropping(w, s)
  BY <1>2 DEF Dropping
<1>9. ASSUME NEW w \in Patcher
      PROVE  /\ patch'[w].step # "idle" => patch'[w].skills <= skills'[patch'[w].profile]
             /\ patch'[w].step = "scan" =>
                  \A s \in states' : Stale(s, patch[w].profile, patch[w].skills)' =>
                    s \in patch'[w].found \/ s > patch'[w].cursor
             /\ patch'[w].step \in {"drop", "evict"} =>
                  \A s \in states' : Stale(s, patch[w].profile, patch[w].skills)' =>
                    s \in patch'[w].found \/ Dropping(w, s)'
  BY <1>2, <1>6, <1>8 DEF DiscardInv, PatchAt
<1>10. \A pr \in Profile : promised'[pr] <= skills'[pr]
  BY <1>2 DEF DiscardInv
<1> QED
  BY <1>7, <1>9, <1>10 DEF DiscardInv, PatchAt

\* patch_profile.
LEMMA PatchKeepsDiscards ==
  ASSUME TypeOK, DiscardInv, NEW w \in Patcher, PatchStep(w)
  PROVE  DiscardInv'
<1> DEFINE Same == UNCHANGED <<search, states>>
           Others == \A v \in Patcher \ {w} : patch'[v] = patch[v] /\ call'[v] = call[v]
           Mine == /\ patch'[w].step # "idle" => patch'[w].skills <= skills'[patch'[w].profile]
                   /\ PatchAt(w, "scan")' =>
                        \A s \in states : Stale(s, patch'[w].profile, patch'[w].skills) =>
                          s \in patch'[w].found \/ s > patch'[w].cursor
                   /\ patch'[w].step \in {"drop", "evict"} =>
                        \A s \in states : Stale(s, patch'[w].profile, patch'[w].skills) =>
                          s \in patch'[w].found \/ Dropping(w, s)'
<1>1. ASSUME Same, Others, Mine, UNCHANGED <<skills, promised>>
      PROVE  DiscardInv'
  <2>2. DiscardIsComplete'
    BY <1>1 DEF DiscardInv, DiscardIsComplete, Owner
  <2>3. \A v \in Patcher \ {w} :
          /\ patch'[v].step # "idle" => patch'[v].skills <= skills'[patch'[v].profile]
          /\ PatchAt(v, "scan")' =>
               \A s \in states : Stale(s, patch'[v].profile, patch'[v].skills) =>
                 s \in patch'[v].found \/ s > patch'[v].cursor
          /\ patch'[v].step \in {"drop", "evict"} =>
               \A s \in states : Stale(s, patch'[v].profile, patch'[v].skills) =>
                 s \in patch'[v].found \/ Dropping(v, s)'
    BY <1>1 DEF DiscardInv, PatchAt, Dropping
  <2> QED
    BY <1>1, <2>2, <2>3 DEF DiscardInv, Stale, Owner
<1>2. Others
  <2>1. \A v \in Patcher \ {w} : patch'[v] = patch[v]
    BY DEF PatchStep, CommitSkills, BeginDiscard, ScanOn, EndScan, CancelTask, DropSearch,
           AnswerPatch, PatchRaises, TypeOK
  <2>2. call' = call \/ (\E s \in states : CallEvict(w, s)) \/ KeyGone(w)
    BY DEF PatchStep, CommitSkills, BeginDiscard, ScanOn, EndScan, CancelTask, DropSearch,
           CallEvict, AnswerPatch, PatchRaises
  <2>3. \A v \in Patcher \ {w} : call'[v] = call[v]
    BY <2>2 DEF CallEvict, KeyGone, TypeOK, Thread
  <2> QED
    BY <2>1, <2>3
<1>3. ASSUME NEW pr \in Profile, CommitSkills(w, pr)
      PROVE  DiscardInv'
  <2>1. /\ UNCHANGED <<search, states, promised, call>>
        /\ skills' = [skills EXCEPT ![pr] = @ + 1] /\ skills[pr] \in Nat
        /\ patch'[w] = [step |-> "discard", profile |-> pr, skills |-> skills[pr] + 1]
    BY <1>3 DEF CommitSkills, TypeOK
  <2>2. \A q \in Profile : /\ skills[q] \in Nat /\ promised[q] \in Nat
                           /\ skills'[q] \in Nat /\ skills[q] <= skills'[q]
    BY <2>1 DEF TypeOK
  <2>3. \A v \in Patcher \ {w} : patch[v].step # "idle" =>
          patch[v].skills \in Nat /\ patch[v].profile \in Profile
    BY DEF TypeOK, PatchState, Nowhere
  <2>4. \A v \in Patcher : patch'[v].step # "idle" =>
          patch'[v].skills <= skills'[patch'[v].profile]
    <3> TAKE v \in Patcher
    <3>1. CASE v = w
      <4>1. skills'[pr] = skills[pr] + 1
        BY <2>1 DEF TypeOK
      <4> QED
        BY <2>1, <3>1, <4>1
    <3>2. CASE v # w
      <4>1. patch'[v] = patch[v]
        BY <1>2, <3>2
      <4>2. patch[v].step # "idle" => patch[v].skills <= skills[patch[v].profile]
        BY DEF DiscardInv
      <4> QED
        BY <2>2, <2>3, <3>2, <4>1, <4>2
    <3> QED
      BY <3>1, <3>2
  <2>6. \A v \in Patcher \ {w} :
          /\ PatchAt(v, "scan")' =>
               \A s \in states : Stale(s, patch'[v].profile, patch'[v].skills) =>
                 s \in patch'[v].found \/ s > patch'[v].cursor
          /\ patch'[v].step \in {"drop", "evict"} =>
               \A s \in states : Stale(s, patch'[v].profile, patch'[v].skills) =>
                 s \in patch'[v].found \/ Dropping(v, s)'
    BY <1>2 DEF DiscardInv, PatchAt, Dropping
  <2>7. DiscardIsComplete'
    BY <2>1 DEF DiscardInv, DiscardIsComplete, Owner
  <2>8. \A q \in Profile : promised'[q] <= skills'[q]
    BY <2>1, <2>2 DEF DiscardInv
  <2> QED
    BY <2>1, <2>4, <2>6, <2>7, <2>8 DEF DiscardInv, PatchAt, Stale, Owner
<1>4. CASE BeginDiscard(w)
  <2>1. patch'[w] = [step |-> "scan", profile |-> patch[w].profile,
                     skills |-> patch[w].skills, cursor |-> 0,
                     size |-> Cardinality(states), found |-> {}]
    BY <1>4 DEF BeginDiscard, TypeOK
  <2>2. \A s \in states : s > 0
    BY DEF TypeOK
  <2>3. Mine
    BY <1>4, <2>1, <2>2 DEF BeginDiscard, DiscardInv, PatchAt
  <2> QED
    BY <1>1, <1>2, <1>4, <2>3 DEF BeginDiscard
<1>5. CASE ScanOn(w)
  <2> DEFINE p == patch[w]
             m == Min(Following(p.cursor))
  <2>1. p \in [step : {"scan"}, profile : Profile, skills : Nat, cursor : Nat,
               size : Nat, found : SUBSET Nat]
    BY <1>5, PatchForms DEF ScanOn, PatchAt
  <2>2. m \in Nat /\ \A s \in states : s \in Nat /\ (s > p.cursor => m <= s)
    BY <1>5, <2>1, FollowingHasNext, SMTT(30) DEF ScanOn, TypeOK
  <2>3. patch'[w] = [p EXCEPT !.cursor = m,
                              !.found = @ \cup {t \in {m} : Owner(t) = p.profile}]
    BY <1>5 DEF ScanOn, TypeOK
  <2>4. /\ patch'[w].step = "scan" /\ patch'[w].profile = p.profile
        /\ patch'[w].skills = p.skills /\ patch'[w].cursor = m
        /\ patch'[w].found = p.found \cup {t \in {m} : Owner(t) = p.profile}
    BY <2>1, <2>3
  <2>5. \A s \in states : Stale(s, p.profile, p.skills) => s \in p.found \/ s > p.cursor
    BY <2>1 DEF DiscardInv, PatchAt
  <2>6. p.skills <= skills[p.profile]
    BY <2>1 DEF DiscardInv
  <2>7. UNCHANGED <<search, states, skills, promised>>
    BY <1>5 DEF ScanOn
  <2> HIDE DEF p, m
  <2>8. \A s \in states : Stale(s, p.profile, p.skills) =>
          s \in patch'[w].found \/ s > patch'[w].cursor
    BY <2>2, <2>4, <2>5 DEF Stale
  <2>9. Mine
    BY <2>4, <2>6, <2>7, <2>8 DEF PatchAt
  <2> QED
    BY <1>1, <1>2, <2>7, <2>9
<1>6. CASE EndScan(w)
  <2>1. patch'[w] = [step |-> "drop", profile |-> patch[w].profile,
                     skills |-> patch[w].skills, found |-> patch[w].found]
    BY <1>6 DEF EndScan, TypeOK
  <2>2. \A s \in states : ~(s > patch[w].cursor)
    BY <1>6 DEF EndScan, Following
  <2>3. Mine
    BY <1>6, <2>1, <2>2 DEF EndScan, DiscardInv, PatchAt
  <2> QED
    BY <1>1, <1>2, <1>6, <2>3 DEF EndScan
<1>7. CASE CancelTask(w)
  <2>1. patch[w] \in [step : {"drop", "evict"}, profile : Profile, skills : Nat,
                      found : SUBSET Nat]
    BY <1>7, PatchForms DEF CancelTask
  <2>2. patch'[w] = [patch[w] EXCEPT !.step = "evict"] /\ call' = call
    BY <1>7 DEF CancelTask, TypeOK
  <2>3. /\ patch'[w].step = "evict" /\ patch'[w].profile = patch[w].profile
        /\ patch'[w].skills = patch[w].skills /\ patch'[w].found = patch[w].found
    BY <2>1, <2>2
  <2>4. Mine
    BY <1>7, <2>1, <2>2, <2>3 DEF CancelTask, DiscardInv, PatchAt, Dropping
  <2> QED
    BY <1>1, <1>2, <1>7, <2>4 DEF CancelTask
<1>8. CASE DropSearch(w)
  <2> DEFINE m == Min(patch[w].found)
  <2>1. patch[w] \in [step : {"drop", "evict"}, profile : Profile, skills : Nat,
                      found : SUBSET Nat]
    BY <1>8, PatchForms DEF DropSearch
  <2>2. patch'[w] = [patch[w] EXCEPT !.step = "drop", !.found = @ \ {m}]
    BY <1>8 DEF DropSearch, TypeOK
  <2>3. /\ patch'[w].step = "drop" /\ patch'[w].profile = patch[w].profile
        /\ patch'[w].skills = patch[w].skills /\ patch'[w].found = patch[w].found \ {m}
    BY <2>1, <2>2
  <2>4. \A s \in states : Dropping(w, s) \/ s = m => Dropping(w, s)'
    BY <1>8, PatchForms DEF DropSearch, CallEvict, Dropping, TypeOK
  <2>5. UNCHANGED <<search, states, skills, promised>>
    BY <1>8 DEF DropSearch
  <2>6. /\ patch[w].skills <= skills[patch[w].profile]
        /\ \A s \in states : Stale(s, patch[w].profile, patch[w].skills) =>
             s \in patch[w].found \/ Dropping(w, s)
    BY <2>1 DEF DiscardInv
  <2> HIDE DEF m
  <2>7. Mine
    BY <2>3, <2>4, <2>5, <2>6 DEF PatchAt
  <2> QED
    BY <1>1, <1>2, <2>5, <2>7
<1>9. CASE AnswerPatch(w)
  <2> DEFINE p == patch[w]
  <2>1. /\ p \in [step : {"drop", "evict"}, profile : Profile, skills : Nat,
                  found : SUBSET Nat]
        /\ p.found = {} /\ call[w].step = "idle"
    BY <1>9, PatchForms DEF AnswerPatch, PatchAt
  <2>2. /\ UNCHANGED <<search, states, skills, call>>
        /\ promised' = [promised EXCEPT ![p.profile] = Max({promised[p.profile], p.skills})]
        /\ patch'[w] = Nowhere
    BY <1>9 DEF AnswerPatch, TypeOK
  <2>3. /\ p.skills <= skills[p.profile]
        /\ \A s \in states : ~Stale(s, p.profile, p.skills)
    BY <2>1 DEF DiscardInv, Dropping
  <2>4. \A m, n \in Nat : Max({m, n}) \in {m, n}
    BY DEF Max
  <2>5. /\ promised[p.profile] \in Nat
        /\ promised'[p.profile] = promised[p.profile] \/ promised'[p.profile] = p.skills
        /\ \A q \in Profile \ {p.profile} : promised'[q] = promised[q]
    BY <2>1, <2>2, <2>4 DEF TypeOK
  <2> HIDE DEF p
  <2>6. \A q \in Profile : promised'[q] <= skills'[q]
    BY <2>2, <2>3, <2>5 DEF DiscardInv
  <2>7. DiscardIsComplete'
    <3> SUFFICES ASSUME NEW s \in states, search[s].skills < promised'[Owner(s)]
                 PROVE  search[s].outdated
      BY <2>2 DEF DiscardIsComplete, Owner
    <3>1. Owner(s) \in Profile
      BY ThreadsAssumption DEF Owner, TypeOK, SearchState
    <3>2. CASE promised'[Owner(s)] = promised[Owner(s)]
      BY <3>2 DEF DiscardInv, DiscardIsComplete
    <3>3. CASE Owner(s) = p.profile /\ promised'[p.profile] = p.skills
      BY <2>3, <3>3 DEF Stale
    <3> QED
      BY <2>5, <3>1, <3>2, <3>3
  <2>9. \A v \in Patcher \ {w} :
          /\ patch'[v].step # "idle" => patch'[v].skills <= skills'[patch'[v].profile]
          /\ PatchAt(v, "scan")' =>
               \A s \in states : Stale(s, patch'[v].profile, patch'[v].skills) =>
                 s \in patch'[v].found \/ s > patch'[v].cursor
          /\ patch'[v].step \in {"drop", "evict"} =>
               \A s \in states : Stale(s, patch'[v].profile, patch'[v].skills) =>
                 s \in patch'[v].found \/ Dropping(v, s)'
    BY <1>2, <2>2 DEF DiscardInv, PatchAt, Dropping
  <2> QED
    <3>1. patch'[w].step = "idle"
      BY <2>2 DEF Nowhere
    <3>2. /\ \A v \in Patcher : PatchAt(v, "scan")' =>
               \A s \in states' : Stale(s, patch[v].profile, patch[v].skills)' =>
                 s \in patch'[v].found \/ s > patch'[v].cursor
          /\ \A v \in Patcher : patch'[v].step \in {"drop", "evict"} =>
               \A s \in states' : Stale(s, patch[v].profile, patch[v].skills)' =>
                 s \in patch'[v].found \/ Dropping(v, s)'
      BY <2>2, <2>9, <3>1 DEF PatchAt, Stale, Owner
    <3>3. \A v \in Patcher : patch'[v].step # "idle" =>
            patch'[v].skills <= skills'[patch'[v].profile]
      BY <2>9, <3>1
    <3> QED
      BY <2>6, <2>7, <3>2, <3>3 DEF DiscardInv
<1>10. CASE PatchRaises(w)
  <2>1. patch'[w] = Nowhere /\ Same /\ UNCHANGED <<skills, promised>>
    BY <1>10 DEF PatchRaises, TypeOK
  <2> QED
    BY <1>1, <1>2, <2>1 DEF PatchAt, Nowhere
<1> QED
  BY <1>3, <1>4, <1>5, <1>6, <1>7, <1>8, <1>9, <1>10 DEF PatchStep

LEMMA EvictKeepsDiscards ==
  ASSUME TypeOK, DiscardInv, NEW w \in Thread, Leave(w) \/ ListBound(w) \/ Unbind(w)
  PROVE  DiscardInv'
<1>1. UNCHANGED <<search, skills, promised, patch>>
  BY DEF Leave, ListBound, Unbind
<1>2. states' \subseteq states
  BY DEF Leave, ListBound, Unbind
<1>3. \A v \in Patcher, s \in states' : Dropping(v, s) => Dropping(v, s)'
  <2>1. SUFFICES ASSUME NEW s \in states', Dropping(w, s)
                 PROVE  Dropping(w, s)'
    BY DEF Leave, ListBound, Unbind, Dropping, TypeOK, Thread
  <2>2. /\ Leave(w) /\ call[w].search = s
        /\ call[w] \in [step : {"leave"}, search : Nat,
                        left : {<<"evicted", "states">>, <<"states">>}]
    BY <2>1 DEF Leave, ListBound, Unbind, Dropping, TypeOK, CallState, Nowhere
  <2>3. CASE call[w].left = <<"evicted", "states">>
    <3>1. Len(call[w].left) = 2
      BY <2>3
    <3>2. call'[w] = [call[w] EXCEPT !.left = Tail(call[w].left)]
      BY <2>2, <3>1 DEF Leave, TypeOK
    <3> QED
      BY <2>2, <3>2 DEF Dropping
  <2>4. CASE call[w].left = <<"states">>
    <3>1. Head(call[w].left) = "states"
      BY <2>4
    <3>2. states' = states \ {s}
      BY <2>2, <3>1 DEF Leave
    <3> QED
      BY <3>2
  <2> QED
    BY <2>2, <2>3, <2>4
<1> QED
  BY <1>1, <1>2, <1>3, DiscardKept

LEMMA NextKeepsDiscards ==
  ASSUME TypeOK, DiscardInv, [Next]_tvars
  PROVE  DiscardInv'
<1>1. ASSUME UNCHANGED <<skills, promised, patch, states, search, call>>
      PROVE  DiscardInv'
  BY <1>1, DiscardKept DEF Dropping
<1>2. CASE UNCHANGED tvars
  BY <1>1, <1>2 DEF tvars
<1>3. CASE LoopStep
  <2>1. CASE WriteField
    <3>1. \A s \in Ids : /\ search'[s].key = search[s].key
                         /\ search'[s].skills = search[s].skills
                         /\ search'[s].outdated = search[s].outdated
      <4>1. /\ search[loop.search] \in SearchState
            /\ Head(loop.left) \in {"items", "status"}
        <5>1. loop \in SettleState /\ loop.search \in Ids
          BY <2>1, LoopForms DEF WriteField, TypeOK, LoopKnows, At
        <5>2. Head(<<"items", "status">>) = "items" /\ Head(<<"status">>) = "status"
          OBVIOUS
        <5> QED
          BY <5>1, <5>2 DEF SettleState, TypeOK
      <4>2. \A s \in Ids : search'[s] =
              IF s = loop.search
              THEN [search[s] EXCEPT ![Head(loop.left)] = loop.outcome[Head(loop.left)]]
              ELSE search[s]
        BY <2>1 DEF WriteField, TypeOK
      <4> QED
        BY <4>1, <4>2 DEF SearchState
    <3>2. UNCHANGED <<skills, promised, patch, states, call>>
      BY <2>1 DEF WriteField
    <3> QED
      BY <3>1, <3>2, DiscardKept DEF Dropping, TypeOK
  <2>2. CASE call' # call /\ (PassRaises \/ \E s \in DOMAIN search : EvictVictim(s))
    <3>1. /\ UNCHANGED <<skills, promised, patch, states, search>>
          /\ \A v \in Patcher : call'[v] = call[v]
      BY <2>2, ThreadsAssumption DEF PassRaises, KeyGone, EvictVictim, CallEvict, TypeOK, Thread
    <3> QED
      BY <3>1, DiscardKept DEF Dropping
  <2>3. ASSUME ~Register, ~WriteField,
               ~(call' # call /\ (PassRaises \/ \E s \in DOMAIN search : EvictVictim(s)))
        PROVE  UNCHANGED <<skills, promised, patch, states, search, call>>
    BY <1>3, <2>3
       DEF LoopStep, ReadProfile, Lookup, BindNew, Schedule, Answer, BeginSettling, Promote,
           Rebind, BeginPass, ScanNext, ChooseVictims, WeighItems, EndPass, PassRaises,
           EvictVictim
  <2> QED
    BY <1>1, <2>1, <2>2, <2>3, RegisterKeepsDiscards
<1>4. CASE ReaderStep
  BY <1>1, <1>4 DEF ReaderStep, AskPage, GetState, ReadStatus, ReadItems
<1> QED
  BY <1>2, <1>3, <1>4, PatchKeepsDiscards, EvictKeepsDiscards DEF Next

-----------------------------------------------------------------------------
(* Nobody waits for what will never come, when there is one PATCH at a     *)
(* time.  The index and the pass first, which hold for any number.         *)

Indexed(name, s) == \E k \in Key : index[name][k] = s

\* A refresh is bound at its own key, is never the latest search as well, and is still
\* loading or just being settled.
IndexInv ==
  /\ \A name \in {"latest", "refreshing"}, k \in Key : index[name][k] \in Ids \cup {NoSearch}
  /\ \A k \in Bound("refreshing") :
       LET s == index["refreshing"][k]
       IN /\ search[s].key = k
          /\ ~Indexed("latest", s)
          /\ \/ search[s].status = "loading"
             \/ loop.step \in {"settle", "promote"} /\ loop.search = s
  /\ At("bind") => ~Indexed("latest", loop.search) /\ ~Indexed("refreshing", loop.search)
  /\ At("bind") \/ At("schedule") =>
       search[loop.search].key = loop.key /\ search[loop.search].status = "loading"
  /\ At("promote") \/ At("rebind") => search[loop.search].status # "loading"
  /\ At("rebind") => ~Indexed("refreshing", loop.search)

\* A pass never evicts what is loading.
VictimInv ==
  /\ At("scan") => loop.found \subseteq Ids
  /\ At("weigh") \/ At("evict") =>
       \A s \in loop.victims : s \in Ids /\ (s \in states => search[s].status # "loading")
  /\ call["loop"].step # "idle" =>
       /\ call["loop"].search \in Ids
       /\ search[call["loop"].search].status # "loading"

\* A patcher's call of _evict: its search is out of what is left to drop, and then out of
\* the states; what it has to unbind is no refresh that is yet to be bound.
CallInv(w) ==
  LET c == call[w]
  IN /\ PatchAt(w, "evict") => patch[w].found # {} /\ c.step = "idle"
     /\ c.step # "idle" =>
          PatchAt(w, "drop") /\ c.search \in Ids /\ c.search \notin patch[w].found
     /\ c.step \in {"list", "unbind"} => c.search \notin states
     /\ c.step = "unbind" /\ c.name = "latest" /\ c.keys # {} =>
          ~Indexed("refreshing", c.search) /\ ~(At("bind") /\ loop.search = c.search)
     /\ c.step = "unbind" /\ c.name = "refreshing" => c.keys \subseteq {search[c.search].key}

\* What patchers have found was there, and is gone only if it was not loading.
FoundInv(w) ==
  patch[w].step \in {"scan", "drop", "evict"} =>
    \A s \in patch[w].found : s \in Ids /\ (s \in states \/ search[s].status # "loading")

\* The loop works for it.
Working(s) ==
  \/ s \in tasks
  \/ loop.step \in {"bind", "schedule", "settle", "promote"} /\ loop.search = s

\* A patcher has cancelled its task, and is to take it away.
Discarded(w, s) ==
  \/ PatchAt(w, "evict") /\ s = Min(patch[w].found)
  \/ call[w].step # "idle" /\ call[w].search = s

Kept(s) == Working(s) \/ \E w \in Patcher : Discarded(w, s)

WaitInv ==
  /\ \A s \in states : search[s].status = "loading" => Kept(s)
  /\ \A k \in Bound("refreshing") : Kept(index["refreshing"][k])
  /\ \A w \in Patcher : call[w].step = "unbind" /\ call[w].name = "refreshing" =>
       \A k \in Key : index["refreshing"][k] = call[w].search =>
         k \in call[w].keys \/ Working(call[w].search)

CallsInv == \A w \in Patcher : CallInv(w)
FoundsInv == \A w \in Patcher : FoundInv(w)

-----------------------------------------------------------------------------
\* Where nothing is bound and the loop goes on with the same search, if with any.
LEMMA IndexKept ==
  ASSUME IndexInv, UNCHANGED <<search, index>>,
         \/ loop' = loop
         \/ loop'.step \notin {"bind", "schedule", "promote", "rebind"}
            /\ (loop.step \in {"settle", "promote"} =>
                  loop'.step \in {"settle", "promote"} /\ loop'.search = loop.search)
  PROVE  IndexInv'
BY DEF IndexInv, Indexed, Bound, At, Ids

LEMMA NextKeepsIndex ==
  ASSUME TypeOK, IndexInv, [Next]_tvars
  PROVE  IndexInv'
<1>1. CASE UNCHANGED tvars
  BY <1>1, IndexKept DEF tvars
<1>2. CASE LoopStep
  <2>1. ASSUME NEW k \in Key, NEW force \in BOOLEAN, ReadProfile(k, force)
        PROVE  IndexInv'
    BY <2>1, IndexKept, LoopOrder DEF ReadProfile, At
  <2>2. CASE Lookup \/ Answer
    BY <2>2, IndexKept, LoopOrder DEF Lookup, Answer, At
  <2>3. CASE Register
    <3>1. PICK id \in Nat : id = loop.search
      BY <2>3, LoopForms DEF Register, At, StartState
    <3>2. /\ loop' = [loop EXCEPT !.step = "bind"] /\ loop \in StartState
          /\ loop'.step = "bind" /\ loop'.search = id /\ loop'.key = loop.key
      BY <2>3, <3>1, LoopForms DEF Register, Goto, At, StartState
    <3>3. /\ index' = index /\ id \notin Ids /\ Ids' = Ids \cup {id} /\ id # NoSearch
          /\ \A s \in Ids : search'[s] = search[s]
          /\ search'[id].key = loop.key /\ search'[id].status = "loading"
      BY <2>3, <3>1 DEF Register, TypeOK, LoopKnows, At, Ids, NoSearch
    <3>4. \A name \in {"latest", "refreshing"} : ~Indexed(name, id)
      BY <3>3 DEF IndexInv, Indexed
    <3>5. \A k \in Bound("refreshing") :
            LET s == index["refreshing"][k]
            IN /\ s \in Ids /\ search[s].key = k /\ ~Indexed("latest", s)
               /\ search[s].status = "loading"
      BY <2>3 DEF Register, At, IndexInv, Bound
    <3> QED
      BY <3>2, <3>3, <3>4, <3>5 DEF IndexInv, Indexed, Bound, At
  <2>4. CASE BindNew
    <3>1. PICK id \in Nat : id = loop.search
      BY <2>4, LoopForms DEF BindNew, At, StartState
    <3>2. /\ loop \in StartState /\ id \in Ids /\ id # NoSearch
          /\ ~Indexed("latest", id) /\ ~Indexed("refreshing", id)
          /\ search[id].key = loop.key /\ search[id].status = "loading"
      BY <2>4, <3>1, LoopForms DEF BindNew, At, IndexInv, TypeOK, LoopKnows, NoSearch
    <3>3. loop'.step = "schedule" /\ loop'.search = id /\ loop'.key = loop.key
      BY <2>4, <3>1, <3>2 DEF BindNew, Goto, StartState
    <3>4. PICK name \in {"latest", "refreshing"} :
            index' = [index EXCEPT ![name][loop.key] = id]
      BY <2>4, <3>1 DEF BindNew, Bind
    <3>5. \A other \in {"latest", "refreshing"}, k \in Key :
            index'[other][k] = IF other = name /\ k = loop.key THEN id ELSE index[other][k]
      BY <3>2, <3>4 DEF TypeOK
    <3>6. UNCHANGED <<search, Ids>>
      BY <2>4 DEF BindNew, Ids
    <3>7. \A other \in {"latest", "refreshing"}, k \in Key :
            index'[other][k] \in Ids \cup {NoSearch}
      BY <3>2, <3>5 DEF IndexInv
    <3>8. ASSUME NEW k \in Bound("refreshing")'
          PROVE  LET s == index'["refreshing"][k]
                 IN /\ search[s].key = k /\ search[s].status = "loading"
                    /\ \A l \in Key : index'["latest"][l] # s
      <4>1. CASE name = "refreshing" /\ k = loop.key
        BY <3>2, <3>5, <4>1 DEF Indexed, Bound
      <4>2. CASE ~(name = "refreshing" /\ k = loop.key)
        <5>1. k \in Bound("refreshing") /\ index'["refreshing"][k] = index["refreshing"][k]
          BY <3>5, <4>2 DEF Bound
        <5>2. index["refreshing"][k] # id
          BY <3>2, <5>1 DEF Indexed, Bound
        <5> QED
          BY <2>4, <3>5, <5>1, <5>2 DEF IndexInv, Indexed, BindNew, At
      <4> QED
        BY <4>1, <4>2
    <3> QED
      BY <3>2, <3>3, <3>6, <3>7, <3>8 DEF IndexInv, Indexed, At
  <2>5. CASE Schedule
    <3>1. loop'.step = "answer"
      BY <2>5, LoopOrder DEF At
    <3> QED
      BY <2>5, <3>1, IndexKept DEF Schedule, At
  <2>6. ASSUME NEW s \in tasks, NEW outcome \in Outcome, BeginSettling(s, outcome)
        PROVE  IndexInv'
    BY <2>6, IndexKept DEF BeginSettling, At
  <2>7. CASE WriteField
    <3>1. /\ loop \in SettleState /\ loop.search \in Ids /\ search[loop.search] \in SearchState
          /\ loop.outcome \in Outcome
      BY <2>7, LoopForms DEF WriteField, TypeOK, LoopKnows, At, Ids, SettleState
    <3>2. Ids' = Ids /\ index' = index
      BY <2>7 DEF WriteField, Ids, TypeOK
    <3>3. \A s \in Ids : search'[s].key = search[s].key
      <4>1. \A s \in Ids : search'[s] =
              IF s = loop.search
              THEN [search[s] EXCEPT ![Head(loop.left)] = loop.outcome[Head(loop.left)]]
              ELSE search[s]
        BY <2>7 DEF WriteField, TypeOK
      <4>2. Head(<<"items", "status">>) = "items" /\ Head(<<"status">>) = "status"
        OBVIOUS
      <4> QED
        BY <3>1, <4>1, <4>2, ZenonT(60) DEF SearchState, SettleState
    <3>4. \A s \in Ids \ {loop.search} : search'[s] = search[s]
      BY <2>7 DEF WriteField, TypeOK
    <3>5. /\ loop'.step \in {"settle", "promote"} /\ loop'.search = loop.search
          /\ loop'.step = "promote" => search'[loop.search].status # "loading"
      <4>1. CASE loop.left = <<"items", "status">>
        <5>1. Len(loop.left) = 2
          BY <4>1
        <5>2. loop' = [loop EXCEPT !.left = Tail(loop.left)]
          BY <2>7, <5>1 DEF WriteField
        <5> QED
          BY <2>7, <3>1, <5>2 DEF WriteField, SettleState, At
      <4>2. CASE loop.left = <<"status">>
        <5>1. Len(loop.left) = 1 /\ Head(loop.left) = "status"
          BY <4>2
        <5>2. loop' = [loop EXCEPT !.step = "promote"]
          BY <2>7, <5>1 DEF WriteField
        <5>3. search'[loop.search] =
                [search[loop.search] EXCEPT !["status"] = loop.outcome["status"]]
          BY <2>7, <3>1, <5>1 DEF WriteField, TypeOK
        <5> QED
          BY <3>1, <5>2, <5>3 DEF SettleState, SearchState, Outcome
      <4> QED
        BY <3>1, <4>1, <4>2 DEF SettleState
    <3>6. \A name \in {"latest", "refreshing"}, k \in Key :
            index[name][k] \in Ids \cup {NoSearch}
      BY DEF IndexInv
    <3>7. \A k \in Bound("refreshing") :
            LET s == index["refreshing"][k]
            IN /\ search'[s].key = k /\ ~Indexed("latest", s)
               /\ search'[s].status = "loading" \/ s = loop.search
      <4> TAKE k \in Bound("refreshing")
      <4>1. index["refreshing"][k] \in Ids
        BY <3>6 DEF Bound
      <4> QED
        BY <2>7, <3>3, <3>4, <4>1 DEF IndexInv, WriteField, At
    <3> QED
      BY <3>2, <3>5, <3>6, <3>7 DEF IndexInv, Indexed, Bound, At
  <2>8. CASE Promote
    <3> DEFINE s == loop.search
               k == search[s].key
    <3>1. loop \in SettleState /\ s \in Ids /\ k \in Key /\ search[s].status # "loading"
      BY <2>8, LoopForms DEF Promote, TypeOK, LoopKnows, At, IndexInv, SearchState, Ids
    <3>2. \/ loop'.step = "idle"
          \/ loop'.step = "rebind" /\ loop'.search = s
      BY <2>8, LoopOrder DEF At
    <3>3. UNCHANGED <<search, Ids>>
      BY <2>8 DEF Promote, Ids
    <3>4. \A l \in Key : /\ index'["latest"][l] = index["latest"][l]
                         /\ index'["refreshing"][l] =
                              IF index["refreshing"][l] = s THEN NoSearch
                              ELSE index["refreshing"][l]
      <4>1. s # NoSearch
        BY <3>1 DEF TypeOK, NoSearch
      <4>2. \A l \in Key : index["refreshing"][l] = s => l = k
        BY <4>1 DEF IndexInv, Bound
      <4>3. CASE Refreshing(s)
        <5>1. index' = [index EXCEPT !["refreshing"][k] = NoSearch]
          BY <2>8, <4>3 DEF Promote, Bind
        <5> QED
          BY <3>1, <4>2, <4>3, <5>1 DEF TypeOK, Refreshing
      <4>4. CASE ~Refreshing(s)
        <5>1. index' = index
          BY <2>8, <4>4 DEF Promote
        <5> QED
          BY <3>1, <4>2, <4>4, <5>1 DEF Refreshing
      <4> QED
        BY <4>3, <4>4
    <3>5. s # NoSearch
      BY <3>1 DEF TypeOK, NoSearch
    <3> HIDE DEF s, k
    <3>6. \A l \in Bound("refreshing")' :
            /\ l \in Bound("refreshing") /\ index'["refreshing"][l] = index["refreshing"][l]
            /\ index["refreshing"][l] # s
      BY <3>4 DEF Bound
    <3>7. \A l \in Bound("refreshing")' :
            /\ search[index["refreshing"][l]].key = l
            /\ search[index["refreshing"][l]].status = "loading"
            /\ ~Indexed("latest", index["refreshing"][l])
      BY <3>6 DEF IndexInv, s
    <3>8. /\ \A name \in {"latest", "refreshing"}, l \in Key :
               index'[name][l] \in Ids \cup {NoSearch}
          /\ \A l \in Key : index'["refreshing"][l] # s
      BY <3>4, <3>5 DEF IndexInv
    <3> QED
      BY <3>1, <3>2, <3>3, <3>4, <3>6, <3>7, <3>8 DEF IndexInv, Indexed, At
  <2>9. CASE Rebind
    <3> DEFINE s == loop.search
    <3>1. /\ s \in Ids /\ search[s].key \in Key /\ ~Indexed("refreshing", s)
          /\ loop'.step = "idle"
      BY <2>9, LoopOrder DEF Rebind, TypeOK, LoopKnows, At, IndexInv, SearchState, Ids
    <3>2. /\ UNCHANGED <<search, Ids>>
          /\ \A l \in Key : /\ index'["refreshing"][l] = index["refreshing"][l]
                            /\ index'["latest"][l] \in {index["latest"][l], s}
      BY <2>9, <3>1 DEF Rebind, Bind, TypeOK, Ids
    <3> HIDE DEF s
    <3>3. \A l \in Key : index'["latest"][l] \in Ids \cup {NoSearch}
      BY <3>1, <3>2 DEF IndexInv
    <3>4. \A l \in Bound("refreshing") :
            /\ search[index["refreshing"][l]].key = l
            /\ search[index["refreshing"][l]].status = "loading"
            /\ ~Indexed("latest", index["refreshing"][l])
      BY <2>9 DEF IndexInv, Rebind, At
    <3>5. \A l \in Bound("refreshing")' :
            /\ search[index'["refreshing"][l]].key = l
            /\ search[index'["refreshing"][l]].status = "loading"
            /\ \A m \in Key : index'["latest"][m] # index'["refreshing"][l]
      BY <3>1, <3>2, <3>4 DEF Indexed, Bound
    <3> QED
      BY <3>1, <3>2, <3>3, <3>5 DEF IndexInv, Indexed, At
  <2>10. CASE BeginPass \/ ScanNext \/ ChooseVictims \/ WeighItems \/ EndPass \/ PassRaises
    BY <2>10, IndexKept, LoopOrder
       DEF BeginPass, ScanNext, ChooseVictims, WeighItems, EndPass, PassRaises, At
  <2>11. ASSUME NEW s \in DOMAIN search, EvictVictim(s)
         PROVE  IndexInv'
    BY <2>11, IndexKept, LoopOrder DEF EvictVictim, At
  <2> QED
    BY <1>2, <2>1, <2>2, <2>3, <2>4, <2>5, <2>6, <2>7, <2>8, <2>9, <2>10, <2>11 DEF LoopStep
<1>3. ASSUME NEW w \in Patcher, PatchStep(w)
      PROVE  IndexInv'
  <2>1. UNCHANGED <<search, index, loop>>
    BY <1>3 DEF PatchStep, CommitSkills, BeginDiscard, ScanOn, EndScan, CancelTask,
                DropSearch, AnswerPatch, PatchRaises
  <2> QED
    BY <2>1, IndexKept
<1>4. ASSUME NEW w \in Thread, Leave(w) \/ ListBound(w)
      PROVE  IndexInv'
  <2>1. UNCHANGED <<search, index>> /\ (loop' = loop \/ Disturb(w))
    BY <1>4 DEF Leave, ListBound
  <2>2. loop'.step = loop.step /\ (loop.step \notin Pass => loop' = loop)
    BY <2>1, DisturbTypes DEF Ids
  <2> QED
    BY <2>1, <2>2, IndexKept DEF Pass
<1>5. ASSUME NEW w \in Thread, Unbind(w)
      PROVE  IndexInv'
  <2>1. /\ UNCHANGED <<search, Ids>> /\ loop'.step = loop.step
        /\ loop.step \notin Pass => loop' = loop
    BY <1>5, DisturbTypes DEF Unbind, Ids
  <2>2. \A name \in {"latest", "refreshing"}, k \in Key :
          index'[name][k] \in {index[name][k], NoSearch}
    BY <1>5 DEF Unbind, TypeOK
  <2>3. /\ \A k \in Bound("refreshing")' :
             k \in Bound("refreshing") /\ index'["refreshing"][k] = index["refreshing"][k]
        /\ \A name \in {"latest", "refreshing"}, s \in Ids : Indexed(name, s)' => Indexed(name, s)
    BY <2>2 DEF Bound, Indexed, TypeOK, NoSearch
  <2>4. /\ \A name \in {"latest", "refreshing"}, k \in Key :
             index'[name][k] \in Ids \cup {NoSearch}
        /\ \A k \in Bound("refreshing") : index["refreshing"][k] \in Ids
    BY <2>2 DEF IndexInv, Bound
  <2>5. CASE loop' = loop
    <3>1. At("bind") \/ At("rebind") => loop.search \in Ids
      BY DEF TypeOK, LoopKnows, At
    <3> QED
      BY <2>1, <2>3, <2>4, <2>5, <3>1 DEF IndexInv, At
  <2>6. CASE loop.step \in Pass /\ loop'.step \in Pass
    BY <2>1, <2>3, <2>4, <2>6 DEF IndexInv, At, Pass
  <2> QED
    BY <2>1, <2>5, <2>6
<1>6. CASE ReaderStep
  BY <1>6, IndexKept DEF ReaderStep, AskPage, GetState, ReadStatus, ReadItems
<1> QED
  BY <1>1, <1>2, <1>3, <1>4, <1>5, <1>6 DEF Next

-----------------------------------------------------------------------------
\* What a step may do with a search that has been issued: its status is final, it does
\* not come back, and it becomes a refresh only where the loop is about to bind it.
LEMMA SearchLife ==
  ASSUME TypeOK, [Next]_tvars, NEW s \in Ids
  PROVE  /\ s \in Ids' /\ search'[s].key = search[s].key
         /\ search[s].status # "loading" => search'[s].status # "loading"
         /\ s \in states' => s \in states
         /\ \A k \in Key : index'["refreshing"][k] = s =>
              index["refreshing"][k] = s \/ (BindNew /\ loop.search = s)
         /\ At("bind")' /\ loop'.search = s => At("bind") /\ loop.search = s
<1>1. s # NoSearch
  BY DEF TypeOK, NoSearch
<1>2. CASE WriteField
  <2>1. /\ loop \in SettleState /\ loop.search \in Ids /\ search[loop.search] \in SearchState
        /\ loop.outcome \in Outcome /\ search[s] \in SearchState
    BY <1>2, LoopForms DEF WriteField, TypeOK, LoopKnows, At, Ids, SettleState
  <2>2. search'[s] =
          IF s = loop.search
          THEN [search[s] EXCEPT ![Head(loop.left)] = loop.outcome[Head(loop.left)]]
          ELSE search[s]
    BY <1>2 DEF WriteField, TypeOK
  <2>3. Head(<<"items", "status">>) = "items" /\ Head(<<"status">>) = "status"
    OBVIOUS
  <2>4. /\ search'[s].key = search[s].key
        /\ search[s].status # "loading" => search'[s].status # "loading"
    BY <2>1, <2>2, <2>3 DEF SearchState, SettleState, Outcome
  <2>5. loop'.step \in {"settle", "promote"}
    BY <1>2, <2>1 DEF WriteField, SettleState, At
  <2> QED
    BY <1>2, <2>4, <2>5 DEF WriteField, Ids, TypeOK, At
<1>3. CASE Register
  <2>1. loop.search \notin Ids /\ loop'.search = loop.search
    BY <1>3, LoopOrder DEF Register, TypeOK, LoopKnows, At
  <2> QED
    BY <1>3, <2>1 DEF Register, Ids
<1>4. CASE BindNew
  <2>1. loop'.step = "schedule"
    BY <1>4, LoopOrder DEF At
  <2>2. \A k \in Key : index'["refreshing"][k] \in {index["refreshing"][k], loop.search}
    BY <1>4 DEF BindNew, Bind, TypeOK
  <2> QED
    BY <1>4, <2>1, <2>2 DEF BindNew, Ids, At
<1>5. CASE Promote
  <2>1. loop'.step # "bind"
    BY <1>5, LoopOrder DEF At
  <2>2. \A k \in Key : index'["refreshing"][k] \in {index["refreshing"][k], NoSearch}
    BY <1>5 DEF Promote, Bind, TypeOK
  <2> QED
    BY <1>1, <1>5, <2>1, <2>2 DEF Promote, Ids, At
<1>6. CASE Rebind
  <2>1. loop'.step # "bind"
    BY <1>6, LoopOrder DEF At
  <2>2. index'["refreshing"] = index["refreshing"]
    BY <1>6 DEF Rebind, Bind, TypeOK
  <2> QED
    BY <1>6, <2>1, <2>2 DEF Rebind, Ids, At
<1>7. ASSUME UNCHANGED <<search, index>>, states' \subseteq states,
             loop' = loop \/ loop'.step # "bind"
      PROVE  /\ s \in Ids' /\ search'[s] = search[s] /\ (s \in states' => s \in states)
             /\ \A k \in Key : index'["refreshing"][k] = s => index["refreshing"][k] = s
             /\ At("bind")' /\ loop'.search = s => At("bind") /\ loop.search = s
  BY <1>7 DEF Ids, At
<1>8. CASE LoopStep
  <2>1. ASSUME NEW k \in Key, NEW force \in BOOLEAN, ReadProfile(k, force)
        PROVE  UNCHANGED <<search, index, states>> /\ loop'.step # "bind"
    BY <2>1 DEF ReadProfile
  <2>2. CASE Lookup \/ Schedule \/ Answer
    BY <1>7, <2>2, LoopOrder DEF Lookup, Schedule, Answer, At
  <2>3. ASSUME NEW t \in tasks, NEW outcome \in Outcome, BeginSettling(t, outcome)
        PROVE  UNCHANGED <<search, index, states>> /\ loop'.step # "bind"
    BY <2>3 DEF BeginSettling
  <2>4. CASE BeginPass \/ ScanNext \/ ChooseVictims \/ WeighItems \/ EndPass \/ PassRaises
    BY <1>7, <2>4, LoopOrder
       DEF BeginPass, ScanNext, ChooseVictims, WeighItems, EndPass, PassRaises, At
  <2>5. ASSUME NEW t \in DOMAIN search, EvictVictim(t)
        PROVE  UNCHANGED <<search, index, states>> /\ loop'.step # "bind"
    BY <2>5, LoopOrder DEF EvictVictim, At
  <2> QED
    BY <1>2, <1>3, <1>4, <1>5, <1>6, <1>7, <1>8, <2>1, <2>2, <2>3, <2>4, <2>5 DEF LoopStep
<1>9. ASSUME NEW w \in Patcher, PatchStep(w)
      PROVE  UNCHANGED <<search, index, states, loop>>
  BY <1>9 DEF PatchStep, CommitSkills, BeginDiscard, ScanOn, EndScan, CancelTask,
              DropSearch, AnswerPatch, PatchRaises
<1>10. ASSUME NEW w \in Thread, Leave(w) \/ ListBound(w)
       PROVE  /\ UNCHANGED <<search, index>> /\ states' \subseteq states
              /\ loop' = loop \/ loop'.step # "bind"
  <2>1. UNCHANGED <<search, index>> /\ states' \subseteq states /\ (loop' = loop \/ Disturb(w))
    BY <1>10 DEF Leave, ListBound
  <2> QED
    BY <2>1, DisturbTypes DEF Ids, Pass
<1>11. ASSUME NEW w \in Thread, Unbind(w)
       PROVE  /\ UNCHANGED <<search, states>>
              /\ \A k \in Key : index'["refreshing"][k] \in {index["refreshing"][k], NoSearch}
              /\ loop' = loop \/ loop'.step # "bind"
  <2>1. loop' = loop \/ loop'.step # "bind"
    BY <1>11, DisturbTypes DEF Unbind, Ids, Pass
  <2>2. \A k \in Key : index'["refreshing"][k] \in {index["refreshing"][k], NoSearch}
    BY <1>11 DEF Unbind, TypeOK
  <2> QED
    BY <1>11, <2>1, <2>2 DEF Unbind
<1>12. CASE \E w \in Thread : Unbind(w)
  BY <1>1, <1>11, <1>12 DEF Ids, At
<1>13. CASE ReaderStep
  BY <1>7, <1>13 DEF ReaderStep, AskPage, GetState, ReadStatus, ReadItems
<1>14. CASE UNCHANGED tvars
  BY <1>7, <1>14 DEF tvars
<1> QED
  BY <1>7, <1>8, <1>9, <1>10, <1>12, <1>13, <1>14 DEF Next

-----------------------------------------------------------------------------
LEMMA NextKeepsVictims ==
  ASSUME TypeOK, PassInv, VictimInv, [Next]_tvars
  PROVE  VictimInv'
<1>1. ASSUME \/ loop'.step \notin Pass
             \/ /\ loop'.step = loop.step
                /\ At("scan") => loop'.found = loop.found
                /\ At("weigh") \/ At("evict") => loop'.victims = loop.victims,
             call'["loop"].step # "idle" =>
               call["loop"].step # "idle" /\ call'["loop"].search = call["loop"].search
      PROVE  VictimInv'
  BY <1>1, SearchLife DEF VictimInv, At, Pass
<1>2. CASE LoopStep /\ loop.step \notin Pass
  <2>1. call["loop"].step = "idle"
    BY <1>2 DEF PassInv, At, Pass
  <2>2. call' = call /\ (BeginPass \/ loop'.step \notin Pass)
    <3>1. \A k \in Key, force \in BOOLEAN :
            ReadProfile(k, force) => call' = call /\ loop'.step \notin Pass
      BY DEF ReadProfile, Pass
    <3>2. Lookup \/ Register \/ BindNew \/ Schedule \/ Answer =>
            call' = call /\ loop'.step \notin Pass
      BY LoopOrder DEF Lookup, Register, BindNew, Schedule, Answer, At, Pass
    <3>3. \A s \in tasks, outcome \in Outcome :
            BeginSettling(s, outcome) => call' = call /\ loop'.step \notin Pass
      BY DEF BeginSettling, Pass
    <3>4. WriteField => call' = call /\ loop'.step \notin Pass
      BY LoopForms DEF WriteField, At, SettleState, Pass
    <3>5. Promote \/ Rebind => call' = call /\ loop'.step \notin Pass
      BY LoopOrder DEF Promote, Rebind, At, Pass
    <3>6. /\ BeginPass => call' = call
          /\ ~(ScanNext \/ ChooseVictims \/ WeighItems \/ EndPass \/ PassRaises
               \/ \E s \in DOMAIN search : EvictVictim(s))
      BY <1>2 DEF BeginPass, ScanNext, ChooseVictims, WeighItems, EndPass, PassRaises,
                  EvictVictim, At, Pass
    <3> QED
      BY <1>2, <3>1, <3>2, <3>3, <3>4, <3>5, <3>6 DEF LoopStep
  <2>3. CASE BeginPass
    BY <2>1, <2>2, <2>3 DEF BeginPass, VictimInv, At
  <2> QED
    BY <1>1, <2>1, <2>2, <2>3
<1>3. CASE ScanNext
  <2>1. loop \in ScanState
    BY <1>3, LoopForms DEF ScanNext
  <2>2. Min(Following(loop.cursor)) \in Ids
    BY <1>3, <2>1, FollowingHasNext DEF ScanNext, ScanState, TypeOK
  <2>3. loop'.step = "scan" /\ loop'.found = loop.found \cup {Min(Following(loop.cursor))}
    BY <1>3, <2>1 DEF ScanNext, ScanState
  <2> QED
    BY <1>3, <2>2, <2>3 DEF ScanNext, VictimInv, At, Ids
<1>4. CASE ChooseVictims
  BY <1>4 DEF ChooseVictims, Protected, VictimInv, At, Ids
<1>5. CASE WeighItems
  BY <1>5 DEF WeighItems, VictimInv, At, Ids
<1>6. CASE EndPass
  BY <1>6 DEF EndPass, VictimInv, At, Nowhere
<1>7. CASE PassRaises
  <2>1. call'["loop"].step = "idle"
    BY <1>7 DEF PassRaises, KeyGone, PassInv, At, TypeOK, Nowhere, Thread
  <2> QED
    BY <1>7, <2>1 DEF PassRaises, VictimInv, At, Nowhere
<1>8. ASSUME NEW s \in DOMAIN search, EvictVictim(s)
      PROVE  VictimInv'
  <2>1. loop \in EvictState
    BY <1>8, LoopForms DEF EvictVictim
  <2>2. loop'.step = "evict" /\ loop'.victims = loop.victims \ {s} /\ s \in loop.victims
    BY <1>8, <2>1 DEF EvictVictim, EvictState
  <2>3. \/ call' = call
        \/ s \in states /\ call'["loop"].search = s
    BY <1>8 DEF EvictVictim, CallEvict, TypeOK, Thread
  <2> QED
    BY <1>8, <2>2, <2>3 DEF EvictVictim, VictimInv, At, Ids
<1>9. ASSUME NEW w \in Patcher, PatchStep(w)
      PROVE  VictimInv'
  <2>1. UNCHANGED loop
    BY <1>9 DEF PatchStep, CommitSkills, BeginDiscard, ScanOn, EndScan, CancelTask,
                DropSearch, AnswerPatch, PatchRaises
  <2>2. call'["loop"] = call["loop"]
    BY <1>9, ThreadsAssumption
       DEF PatchStep, CommitSkills, BeginDiscard, ScanOn, EndScan, CancelTask, DropSearch,
           CallEvict, AnswerPatch, PatchRaises, KeyGone, TypeOK, Thread
  <2> QED
    BY <1>1, <2>1, <2>2
<1>10. ASSUME NEW w \in Thread, Leave(w) \/ ListBound(w) \/ Unbind(w)
       PROVE  VictimInv'
  <2>1. loop' = loop \/ Disturb(w)
    BY <1>10 DEF Leave, ListBound, Unbind
  <2>2. Ids' = Ids
    BY <1>10 DEF Leave, ListBound, Unbind, Ids
  <2>3. call'["loop"].step # "idle" =>
          call["loop"].step # "idle" /\ call'["loop"].search = call["loop"].search
    <3>1. call[w] \in CallState
      BY DEF TypeOK
    <3>2. call'[w].step # "idle" => call[w].step # "idle" /\ call'[w].search = call[w].search
      BY <1>10, <3>1 DEF Leave, ListBound, Unbind, TypeOK, CallState, Nowhere
    <3>3. \A v \in Thread : v # w => call'[v] = call[v]
      BY <1>10 DEF Leave, ListBound, Unbind, TypeOK
    <3> QED
      BY <3>2, <3>3 DEF Thread
  <2> QED
    BY <1>1, <2>1, <2>2, <2>3, DisturbTypes
<1>11. CASE ReaderStep
  <2>1. UNCHANGED <<loop, call>>
    BY <1>11 DEF ReaderStep, AskPage, GetState, ReadStatus, ReadItems
  <2> QED
    BY <1>1, <2>1
<1>12. CASE UNCHANGED tvars
  BY <1>1, <1>12 DEF tvars
<1>13. LoopStep /\ loop.step \in Pass =>
         \/ ScanNext \/ ChooseVictims \/ WeighItems \/ EndPass \/ PassRaises
         \/ \E s \in DOMAIN search : EvictVictim(s)
  BY DEF LoopStep, ReadProfile, Lookup, Register, BindNew, Schedule, Answer, BeginSettling,
         WriteField, Promote, Rebind, BeginPass, At, Pass
<1> QED
  BY <1>2, <1>3, <1>4, <1>5, <1>6, <1>7, <1>8, <1>9, <1>10, <1>11, <1>12, <1>13 DEF Next

-----------------------------------------------------------------------------
\* What leaves a patcher and its call alone.
LEMMA CallKept ==
  ASSUME TypeOK, [Next]_tvars, NEW w \in Patcher, CallInv(w),
         patch'[w] = patch[w], call'[w] = call[w]
  PROVE  CallInv(w)'
<1>1. CASE call[w].step = "idle"
  BY <1>1 DEF CallInv, PatchAt
<1>2. CASE call[w].step # "idle"
  <2>1. PICK s \in Ids : s = call[w].search
    BY <1>2 DEF CallInv
  <2>2. /\ s \in Ids' /\ search'[s].key = search[s].key /\ (s \in states' => s \in states)
        /\ Indexed("refreshing", s)' => Indexed("refreshing", s) \/ (At("bind") /\ loop.search = s)
        /\ At("bind")' /\ loop'.search = s => At("bind") /\ loop.search = s
    BY SearchLife DEF Indexed, BindNew
  <2> QED
    BY <2>1, <2>2 DEF CallInv, PatchAt
<1> QED
  BY <1>1, <1>2

LEMMA OwnStepKeepsCall ==
  ASSUME TypeOK, NEW w \in Patcher, CallInv(w), PatchStep(w)
  PROVE  CallInv(w)'
<1>1. call'[w].step = "idle" /\ (PatchAt(w, "evict")' => patch'[w].found # {}) => CallInv(w)'
  BY DEF CallInv, PatchAt
<1>2. ASSUME NEW pr \in Profile, CommitSkills(w, pr)
      PROVE  CallInv(w)'
  BY <1>1, <1>2 DEF CommitSkills, CallInv, PatchAt, TypeOK
<1>3. CASE BeginDiscard(w) \/ EndScan(w)
  BY <1>1, <1>3 DEF BeginDiscard, EndScan, CallInv, PatchAt, TypeOK
<1>4. CASE ScanOn(w)
  <2>1. patch'[w].step = "scan"
    BY <1>4, PatchForms DEF ScanOn, PatchAt, TypeOK
  <2> QED
    BY <1>1, <1>4, <2>1 DEF ScanOn, CallInv, PatchAt
<1>5. CASE CancelTask(w)
  <2>1. patch'[w].found = patch[w].found
    BY <1>5, PatchForms DEF CancelTask, TypeOK
  <2> QED
    BY <1>1, <1>5, <2>1 DEF CancelTask
<1>6. CASE DropSearch(w)
  <2> DEFINE m == Min(patch[w].found)
  <2>1. patch'[w].step = "drop" /\ patch'[w].found = patch[w].found \ {m}
    BY <1>6, PatchForms DEF DropSearch, TypeOK
  <2>2. \/ call'[w] = [step |-> "leave", search |-> m, left |-> EvictOrder] /\ m \in states
        \/ call'[w] = call[w]
    BY <1>6 DEF DropSearch, CallEvict, TypeOK, Thread
  <2>3. call[w].step = "idle" /\ Ids' = Ids
    BY <1>6 DEF DropSearch, CallInv, Ids
  <2> HIDE DEF m
  <2>4. CASE call'[w] = call[w]
    BY <1>1, <2>1, <2>3, <2>4 DEF PatchAt
  <2>5. CASE call'[w] = [step |-> "leave", search |-> m, left |-> EvictOrder] /\ m \in states
    <3>1. m \in Ids' /\ m \notin patch'[w].found
      BY <2>1, <2>3, <2>5 DEF TypeOK
    <3> QED
      BY <2>1, <2>5, <3>1 DEF CallInv, PatchAt
  <2> QED
    BY <2>2, <2>4, <2>5
<1>7. CASE AnswerPatch(w)
  BY <1>1, <1>7 DEF AnswerPatch, TypeOK, PatchAt, Nowhere
<1>8. CASE PatchRaises(w)
  <2>1. call'[w].step = "idle"
    BY <1>8 DEF PatchRaises, KeyGone, CallInv, PatchAt, TypeOK, Nowhere, Thread
  <2> QED
    BY <1>1, <1>8, <2>1 DEF PatchRaises, TypeOK, PatchAt, Nowhere
<1> QED
  BY <1>2, <1>3, <1>4, <1>5, <1>6, <1>7, <1>8 DEF PatchStep

LEMMA OwnCallKeepsCall ==
  ASSUME TypeOK, IndexInv, NEW w \in Patcher, CallInv(w), Leave(w) \/ ListBound(w) \/ Unbind(w)
  PROVE  CallInv(w)'
<1>1. PICK s \in Ids : s = call[w].search
  BY DEF CallInv, Leave, ListBound, Unbind
<1>2. /\ PatchAt(w, "drop") /\ s \notin patch[w].found /\ Ids' = Ids /\ s # NoSearch
      /\ patch'[w] = patch[w] /\ search' = search /\ w \in Thread
  BY <1>1 DEF CallInv, Leave, ListBound, Unbind, Ids, TypeOK, NoSearch, Thread
<1>3. CASE Leave(w)
  <2>1. call[w] \in [step : {"leave"}, search : Nat,
                     left : {<<"evicted", "states">>, <<"states">>}]
    BY <1>3 DEF Leave, TypeOK, CallState, Nowhere, Thread
  <2>2. CASE call[w].left = <<"evicted", "states">>
    <3>1. Len(call[w].left) = 2
      BY <2>2
    <3>2. call'[w] = [call[w] EXCEPT !.left = Tail(call[w].left)]
      BY <1>2, <1>3, <3>1 DEF Leave, TypeOK
    <3>3. call'[w].step = "leave" /\ call'[w].search = s
      BY <1>1, <2>1, <3>2
    <3> QED
      BY <1>2, <3>3 DEF CallInv, PatchAt
  <2>3. CASE call[w].left = <<"states">>
    <3>1. Len(call[w].left) = 1 /\ Head(call[w].left) = "states"
      BY <2>3
    <3>2. call'[w] = [step |-> "list", search |-> s, name |-> "latest"]
      BY <1>1, <1>2, <1>3, <3>1 DEF Leave, TypeOK
    <3>3. s \notin states'
      BY <1>1, <1>3, <3>1 DEF Leave
    <3> QED
      BY <1>2, <3>2, <3>3 DEF CallInv, PatchAt
  <2> QED
    BY <2>1, <2>2, <2>3
<1>4. CASE ListBound(w)
  <2>1. call[w].name \in {"latest", "refreshing"}
    <3>1. call[w] \in [step : {"list"}, search : Nat, name : {"latest", "refreshing"}]
      BY <1>2, <1>4 DEF ListBound, TypeOK, CallState, Nowhere
    <3> QED
      BY <3>1
  <2>2. /\ call'[w] = [step |-> "unbind", search |-> s, name |-> call[w].name,
                       keys |-> {k \in Key : index[call[w].name][k] = s}]
        /\ UNCHANGED <<states, index, loop>> /\ s \notin states
    BY <1>1, <1>2, <1>4 DEF ListBound, TypeOK, CallInv
  <2>3. CASE call[w].name = "latest"
    <3>1. {k \in Key : index["latest"][k] = s} # {} =>
            ~Indexed("refreshing", s) /\ ~(At("bind") /\ loop.search = s)
      BY <1>2 DEF IndexInv, Indexed, Bound
    <3> QED
      BY <1>2, <2>2, <2>3, <3>1 DEF CallInv, PatchAt, Indexed, At
  <2>4. CASE call[w].name = "refreshing"
    <3>1. {k \in Key : index["refreshing"][k] = s} \subseteq {search[s].key}
      BY <1>2 DEF IndexInv, Bound
    <3> QED
      BY <1>2, <2>2, <2>4, <3>1 DEF CallInv, PatchAt
  <2> QED
    BY <2>1, <2>3, <2>4
<1>5. CASE Unbind(w)
  <2>1. \/ call'[w] = [step |-> "list", search |-> s, name |-> "refreshing"]
        \/ call'[w] = Nowhere
    BY <1>1, <1>2, <1>5 DEF Unbind, TypeOK
  <2>2. states' = states /\ s \notin states
    BY <1>1, <1>5 DEF Unbind, CallInv
  <2> QED
    BY <1>2, <2>1, <2>2 DEF CallInv, PatchAt, Nowhere
<1> QED
  BY <1>3, <1>4, <1>5

\* Who moves a patcher, and its call: nobody but itself.
LEMMA OthersLeaveAlone ==
  ASSUME TypeOK, [Next]_tvars, NEW w \in Patcher,
         ~PatchStep(w), ~(Leave(w) \/ ListBound(w) \/ Unbind(w))
  PROVE  patch'[w] = patch[w] /\ call'[w] = call[w]
<1>1. CASE LoopStep
  BY <1>1, ThreadsAssumption
     DEF LoopStep, ReadProfile, Lookup, Register, BindNew, Schedule, Answer, BeginSettling,
         WriteField, Promote, Rebind, BeginPass, ScanNext, ChooseVictims, WeighItems, EndPass,
         PassRaises, KeyGone, EvictVictim, CallEvict, TypeOK, Thread
<1>2. ASSUME NEW v \in Patcher, v # w, PatchStep(v)
      PROVE  patch'[w] = patch[w] /\ call'[w] = call[w]
  <2>1. patch'[w] = patch[w]
    BY <1>2 DEF PatchStep, CommitSkills, BeginDiscard, ScanOn, EndScan, CancelTask, DropSearch,
                AnswerPatch, PatchRaises, TypeOK
  <2>2. call' = call \/ (\E s \in states : CallEvict(v, s)) \/ KeyGone(v)
    BY <1>2 DEF PatchStep, CommitSkills, BeginDiscard, ScanOn, EndScan, CancelTask, DropSearch,
                CallEvict, AnswerPatch, PatchRaises
  <2>3. call'[w] = call[w]
    BY <1>2, <2>2 DEF CallEvict, KeyGone, TypeOK, Thread
  <2> QED
    BY <2>1, <2>3
<1>3. ASSUME NEW v \in Thread, v # w, Leave(v) \/ ListBound(v) \/ Unbind(v)
      PROVE  patch'[w] = patch[w] /\ call'[w] = call[w]
  BY <1>3 DEF Leave, ListBound, Unbind, TypeOK, Thread
<1>4. CASE ReaderStep
  BY <1>4 DEF ReaderStep, AskPage, GetState, ReadStatus, ReadItems
<1>5. CASE UNCHANGED tvars
  BY <1>5 DEF tvars
<1> QED
  BY <1>1, <1>2, <1>3, <1>4, <1>5 DEF Next

LEMMA NextKeepsCalls ==
  ASSUME TypeOK, IndexInv, CallsInv, [Next]_tvars
  PROVE  CallsInv'
<1> SUFFICES ASSUME NEW w \in Patcher
             PROVE  CallInv(w)'
  BY DEF CallsInv
<1>1. CallInv(w)
  BY DEF CallsInv
<1> QED
  BY <1>1, CallKept, OwnStepKeepsCall, OwnCallKeepsCall, OthersLeaveAlone

-----------------------------------------------------------------------------
(* What an index may name that is not there, for any number of PATCHes.    *)

\* What the loop is busy with is there, or was taken from under it.
BusyInv == \A s \in Ids : Busy(s) => s \in states \cup overtaken

\* The call takes this entry for s away, unless it meets an exception.
Covers(w, s, name, k) ==
  LET c == call[w]
  IN \/ c.step = "leave" /\ c.search = s
     \/ c.step = "list" /\ c.search = s /\ (c.name = "latest" \/ name = "refreshing")
     \/ c.step = "unbind" /\ c.search = s
        /\ IF c.name = name THEN k \in c.keys ELSE name = "refreshing"

\* What is entered is entered at its own key; if it is not there, somebody takes the entry
\* away or it was taken from under the loop.
EntryInv ==
  \A name \in {"latest", "refreshing"}, k \in Key :
    LET s == index[name][k]
    IN s # NoSearch =>
         /\ search[s].key = k
         /\ s \in states \cup overtaken \/ \E w \in Thread : Covers(w, s, name, k)

\* A call of _evict knows its search; what it has to unbind is bound at the search's key,
\* and not as a refresh as well.
LeaverInv ==
  \A w \in Thread :
    LET c == call[w]
    IN /\ c.step # "idle" => c.search \in Ids
       /\ c.step \in {"list", "unbind"} => c.search \notin states
       /\ c.step = "unbind" => c.keys \subseteq {search[c.search].key}
       /\ c.step = "unbind" /\ c.name = "latest" /\ c.keys # {} =>
            ~Indexed("refreshing", c.search) \/ c.search \in overtaken

DangleInv == BusyInv /\ EntryInv /\ LeaverInv

LEMMA BusyLife ==
  ASSUME TypeOK, [Next]_tvars, NEW s, Busy(s)'
  PROVE  Busy(s) \/ (Register /\ s = loop.search)
<1>1. CASE LoopStep
  <2>1. ASSUME NEW k \in Key, NEW force \in BOOLEAN, ReadProfile(k, force)
        PROVE  Busy(s)
    BY <2>1 DEF ReadProfile, Busy
  <2>2. CASE Lookup \/ Answer
    BY <2>2, LoopOrder DEF Lookup, Answer, Busy, At
  <2>3. CASE Register
    BY <2>3, LoopOrder DEF Register, Busy
  <2>4. CASE BindNew \/ Schedule
    BY <2>4, LoopOrder DEF BindNew, Schedule, Busy, At
  <2>5. ASSUME NEW t \in tasks, NEW outcome \in Outcome, BeginSettling(t, outcome)
        PROVE  Busy(s)
    BY <2>5 DEF BeginSettling, Busy
  <2>6. CASE WriteField
    BY <2>6, LoopForms DEF WriteField, Busy, At, SettleState
  <2>7. CASE Promote \/ Rebind
    BY <2>7, LoopOrder DEF Promote, Rebind, Busy, At
  <2>8. CASE BeginPass \/ ScanNext \/ ChooseVictims \/ WeighItems \/ EndPass \/ PassRaises
    BY <2>8, LoopOrder
       DEF BeginPass, ScanNext, ChooseVictims, WeighItems, EndPass, PassRaises, Busy, At
  <2>9. ASSUME NEW t \in DOMAIN search, EvictVictim(t)
        PROVE  Busy(s)
    BY <2>9, LoopOrder DEF EvictVictim, Busy, At
  <2> QED
    BY <1>1, <2>1, <2>2, <2>3, <2>4, <2>5, <2>6, <2>7, <2>8, <2>9 DEF LoopStep
<1>2. ASSUME NEW w \in Patcher, PatchStep(w)
      PROVE  Busy(s)
  <2>1. UNCHANGED loop /\ tasks' \subseteq tasks
    BY <1>2 DEF PatchStep, CommitSkills, BeginDiscard, ScanOn, EndScan, CancelTask,
                DropSearch, AnswerPatch, PatchRaises
  <2> QED
    BY <2>1 DEF Busy
<1>3. ASSUME NEW w \in Thread, Leave(w) \/ ListBound(w) \/ Unbind(w)
      PROVE  Busy(s)
  <2>1. UNCHANGED <<tasks, search>> /\ (loop' = loop \/ Disturb(w))
    BY <1>3 DEF Leave, ListBound, Unbind
  <2>2. loop' = loop \/ loop'.step \in Pass
    BY <2>1, DisturbTypes DEF Ids
  <2> QED
    BY <2>1, <2>2 DEF Busy, Pass
<1>4. CASE ReaderStep
  BY <1>4 DEF ReaderStep, AskPage, GetState, ReadStatus, ReadItems, Busy
<1>5. CASE UNCHANGED tvars
  BY <1>5 DEF tvars, Busy
<1> QED
  BY <1>1, <1>2, <1>3, <1>4, <1>5 DEF Next

\* A search leaves by a call of _evict, which goes on to look for it in the indexes.
LEMMA HowSearchesLeave ==
  ASSUME TypeOK, [Next]_tvars
  PROVE  /\ overtaken \subseteq overtaken'
         /\ \A s \in states \ states' :
              /\ Busy(s) => s \in overtaken'
              /\ \E w \in Thread :
                   call'[w] = [step |-> "list", search |-> s, name |-> "latest"]
<1>1. CASE UNCHANGED overtaken /\ states \subseteq states'
  BY <1>1
<1>2. ASSUME NEW w \in Thread, Leave(w)
      PROVE  /\ overtaken \subseteq overtaken'
             /\ \A s \in states \ states' :
                  /\ Busy(s) => s \in overtaken'
                  /\ call'[w] = [step |-> "list", search |-> s, name |-> "latest"]
  <2>1. call[w] \in [step : {"leave"}, search : Nat,
                     left : {<<"evicted", "states">>, <<"states">>}]
    BY <1>2 DEF Leave, TypeOK, CallState, Nowhere
  <2>2. CASE call[w].left = <<"evicted", "states">>
    <3>1. Head(call[w].left) = "evicted"
      BY <2>2
    <3> QED
      BY <1>2, <3>1 DEF Leave
  <2>3. CASE call[w].left = <<"states">>
    <3>1. Head(call[w].left) = "states" /\ Len(call[w].left) = 1
      BY <2>3
    <3>2. /\ states' = states \ {call[w].search}
          /\ overtaken' = overtaken \cup {s \in {call[w].search} : Busy(s)}
          /\ call' = [call EXCEPT ![w] =
                        [step |-> "list", search |-> call[w].search, name |-> "latest"]]
      BY <1>2, <3>1 DEF Leave
    <3> QED
      BY <3>2 DEF TypeOK
  <2> QED
    BY <2>1, <2>2, <2>3
<1>3. CASE LoopStep
  BY <1>1, <1>3
     DEF LoopStep, ReadProfile, Lookup, Register, BindNew, Schedule, Answer, BeginSettling,
         WriteField, Promote, Rebind, BeginPass, ScanNext, ChooseVictims, WeighItems, EndPass,
         PassRaises, EvictVictim
<1>4. ASSUME NEW w \in Patcher, PatchStep(w)
      PROVE  UNCHANGED <<overtaken, states>>
  BY <1>4 DEF PatchStep, CommitSkills, BeginDiscard, ScanOn, EndScan, CancelTask, DropSearch,
              AnswerPatch, PatchRaises
<1>5. ASSUME NEW w \in Thread, ListBound(w) \/ Unbind(w)
      PROVE  UNCHANGED <<overtaken, states>>
  BY <1>5 DEF ListBound, Unbind
<1>6. CASE ReaderStep \/ UNCHANGED tvars
  BY <1>1, <1>6 DEF ReaderStep, AskPage, GetState, ReadStatus, ReadItems, tvars
<1> QED
  BY <1>1, <1>2, <1>3, <1>4, <1>5, <1>6 DEF Next

LEMMA NextKeepsBusy ==
  ASSUME TypeOK, BusyInv, [Next]_tvars
  PROVE  BusyInv'
<1> SUFFICES ASSUME NEW s \in Ids', Busy(s)', s \notin overtaken'
             PROVE  s \in states'
  BY DEF BusyInv
<1>1. CASE Register /\ s = loop.search
  BY <1>1 DEF Register
<1>2. CASE Busy(s) /\ s \in Ids
  BY <1>2, HowSearchesLeave DEF BusyInv
<1>3. Busy(s) => s \in Ids
  BY DEF Busy, TypeOK, LoopKnows
<1> QED
  BY <1>1, <1>2, <1>3, BusyLife

\* Entries are made by the loop, of the search it is busy with and at its key.
LEMMA HowEntriesCome ==
  ASSUME TypeOK, IndexInv, [Next]_tvars, NEW name \in {"latest", "refreshing"}, NEW k \in Key
  PROVE  \/ index'[name][k] \in {index[name][k], NoSearch}
         \/ /\ index'[name][k] = loop.search /\ UNCHANGED <<search, states, overtaken>>
            /\ loop.search \in Ids /\ Busy(loop.search) /\ search[loop.search].key = k
<1>1. CASE UNCHANGED index
  BY <1>1
<1>2. CASE BindNew
  <2>1. index' \in {[index EXCEPT ![n][loop.key] = loop.search] : n \in DOMAIN index}
    BY <1>2 DEF BindNew, Bind, TypeOK
  <2>2. index'[name][k] = index[name][k] \/ (k = loop.key /\ index'[name][k] = loop.search)
    BY <2>1 DEF TypeOK
  <2>3. loop.search \in Ids /\ search[loop.search].key = loop.key
    BY <1>2 DEF BindNew, At, IndexInv, TypeOK, LoopKnows
  <2> QED
    BY <1>2, <2>2, <2>3 DEF BindNew, At, Busy
<1>3. CASE Promote
  BY <1>3 DEF Promote, Bind, TypeOK
<1>4. CASE Rebind
  <2>1. index' = [index EXCEPT !["latest"][search[loop.search].key] = loop.search]
    BY <1>4 DEF Rebind, Bind
  <2>2. \/ index'[name][k] = index[name][k]
        \/ k = search[loop.search].key /\ index'[name][k] = loop.search
    BY <2>1 DEF TypeOK
  <2>3. loop.search \in Ids
    BY <1>4 DEF Rebind, At, TypeOK, LoopKnows
  <2> QED
    BY <1>4, <2>2, <2>3 DEF Rebind, At, Busy
<1>5. CASE LoopStep
  BY <1>1, <1>2, <1>3, <1>4, <1>5
     DEF LoopStep, ReadProfile, Lookup, Register, Schedule, Answer, BeginSettling, WriteField,
         BeginPass, ScanNext, ChooseVictims, WeighItems, EndPass, PassRaises, EvictVictim
<1>6. ASSUME NEW w \in Patcher, PatchStep(w)
      PROVE  UNCHANGED index
  BY <1>6 DEF PatchStep, CommitSkills, BeginDiscard, ScanOn, EndScan, CancelTask, DropSearch,
              AnswerPatch, PatchRaises
<1>7. ASSUME NEW w \in Thread, Leave(w) \/ ListBound(w)
      PROVE  UNCHANGED index
  BY <1>7 DEF Leave, ListBound
<1>8. ASSUME NEW w \in Thread, Unbind(w)
      PROVE  index'[name][k] \in {index[name][k], NoSearch}
  BY <1>8 DEF Unbind, TypeOK
<1>9. CASE ReaderStep \/ UNCHANGED tvars
  BY <1>1, <1>9 DEF ReaderStep, AskPage, GetState, ReadStatus, ReadItems, tvars
<1> QED
  BY <1>1, <1>5, <1>6, <1>7, <1>8, <1>9 DEF Next

\* What moves a call of _evict.
LEMMA HowCallsMove ==
  ASSUME TypeOK, [Next]_tvars, NEW w \in Thread
  PROVE  \/ call'[w] = call[w]
         \/ \E s \in states : CallEvict(w, s)
         \/ KeyGone(w) /\ UNCHANGED <<search, states, index, overtaken>>
         \/ Leave(w) \/ ListBound(w) \/ Unbind(w)
<1>1. CASE LoopStep
  <2>1. \/ UNCHANGED call \/ PassRaises
        \/ \E s \in DOMAIN search : EvictVictim(s)
    BY <1>1 DEF LoopStep, ReadProfile, Lookup, Register, BindNew, Schedule, Answer,
                BeginSettling, WriteField, Promote, Rebind, BeginPass, ScanNext,
                ChooseVictims, WeighItems, EndPass
  <2>2. CASE PassRaises
    <3>1. UNCHANGED call \/ KeyGone("loop")
      BY <2>2 DEF PassRaises
    <3>2. w # "loop" => call'[w] = call[w]
      BY <3>1 DEF KeyGone, TypeOK
    <3> QED
      BY <2>2, <3>1, <3>2 DEF PassRaises
  <2>3. ASSUME NEW s \in DOMAIN search, EvictVictim(s)
        PROVE  call'[w] = call[w] \/ \E t \in states : CallEvict(w, t)
    <3>1. UNCHANGED call \/ CallEvict("loop", s)
      BY <2>3 DEF EvictVictim
    <3>2. w # "loop" => call'[w] = call[w]
      BY <3>1 DEF CallEvict, TypeOK
    <3> QED
      BY <3>1, <3>2 DEF CallEvict
  <2> QED
    BY <2>1, <2>2, <2>3
<1>2. ASSUME NEW v \in Patcher, PatchStep(v)
      PROVE  \/ call'[w] = call[w]
             \/ \E s \in states : CallEvict(w, s)
             \/ KeyGone(w) /\ UNCHANGED <<search, states, index, overtaken>>
  <2>1. /\ UNCHANGED call \/ (\E s \in states : CallEvict(v, s)) \/ KeyGone(v)
        /\ UNCHANGED <<search, states, index, overtaken>>
    BY <1>2 DEF PatchStep, CommitSkills, BeginDiscard, ScanOn, EndScan, CancelTask, DropSearch,
                CallEvict, AnswerPatch, PatchRaises
  <2>2. v # w => call'[w] = call[w]
    BY <2>1 DEF CallEvict, KeyGone, TypeOK
  <2> QED
    BY <2>1, <2>2
<1>3. ASSUME NEW v \in Thread, v # w, Leave(v) \/ ListBound(v) \/ Unbind(v)
      PROVE  call'[w] = call[w]
  BY <1>3 DEF Leave, ListBound, Unbind, TypeOK
<1>4. CASE ReaderStep \/ UNCHANGED tvars
  BY <1>4 DEF ReaderStep, AskPage, GetState, ReadStatus, ReadItems, tvars
<1> QED
  BY <1>1, <1>2, <1>3, <1>4 DEF Next

LEMMA LeaveGoesOn ==
  ASSUME TypeOK, NEW w \in Thread, Leave(w)
  PROVE  /\ call'[w].search = call[w].search
         /\ \/ call'[w].step = "leave"
            \/ /\ call'[w].step = "list" /\ call'[w].name = "latest"
               /\ call[w].search \notin states'
<1>1. call[w] \in [step : {"leave"}, search : Nat,
                   left : {<<"evicted", "states">>, <<"states">>}]
  BY DEF Leave, TypeOK, CallState, Nowhere
<1>2. CASE call[w].left = <<"evicted", "states">>
  <2>1. Len(call[w].left) = 2
    BY <1>2
  <2>2. call'[w] = [call[w] EXCEPT !.left = Tail(call[w].left)]
    BY <2>1 DEF Leave, TypeOK
  <2> QED
    BY <1>1, <2>2
<1>3. CASE call[w].left = <<"states">>
  <2>1. Head(call[w].left) = "states" /\ Len(call[w].left) = 1
    BY <1>3
  <2>2. /\ call'[w] = [step |-> "list", search |-> call[w].search, name |-> "latest"]
        /\ states' = states \ {call[w].search}
    BY <2>1 DEF Leave, TypeOK
  <2> QED
    BY <2>2
<1> QED
  BY <1>1, <1>2, <1>3

LEMMA NextKeepsLeavers ==
  ASSUME TypeOK, IndexInv, DangleInv, [Next]_tvars
  PROVE  LeaverInv'
<1> SUFFICES ASSUME NEW w \in Thread, call'[w].step # "idle"
             PROVE  LET c == call'[w]
                    IN /\ c.search \in Ids'
                       /\ c.step \in {"list", "unbind"} => c.search \notin states'
                       /\ c.step = "unbind" => c.keys \subseteq {search'[c.search].key}
                       /\ c.step = "unbind" /\ c.name = "latest" /\ c.keys # {} =>
                            \/ \A k \in Key : index'["refreshing"][k] # c.search
                            \/ c.search \in overtaken'
  BY DEF LeaverInv, Indexed
<1> DEFINE s == call[w].search
<1>1. ASSUME call'[w] = call[w]
      PROVE  /\ s \in Ids'
             /\ call[w].step \in {"list", "unbind"} => s \notin states'
             /\ call[w].step = "unbind" => call[w].keys \subseteq {search'[s].key}
             /\ call[w].step = "unbind" /\ call[w].name = "latest" /\ call[w].keys # {} =>
                  (\A k \in Key : index'["refreshing"][k] # s) \/ s \in overtaken'
  <2>1. /\ s \in Ids
        /\ call[w].step \in {"list", "unbind"} => s \notin states
        /\ call[w].step = "unbind" => call[w].keys \subseteq {search[s].key}
        /\ call[w].step = "unbind" /\ call[w].name = "latest" /\ call[w].keys # {} =>
             ~Indexed("refreshing", s) \/ s \in overtaken
    BY <1>1 DEF DangleInv, LeaverInv
  <2> HIDE DEF s
  <2>2. /\ s \in Ids' /\ search'[s].key = search[s].key /\ (s \in states' => s \in states)
        /\ \A k \in Key : index'["refreshing"][k] = s =>
             Indexed("refreshing", s) \/ (BindNew /\ loop.search = s)
    BY <2>1, SearchLife DEF Indexed
  <2>3. overtaken \subseteq overtaken'
    BY HowSearchesLeave
  <2>4. BindNew /\ loop.search = s => s \in states \cup overtaken
    BY <2>1 DEF DangleInv, BusyInv, Busy, BindNew, At
  <2> QED
    BY <2>1, <2>2, <2>3, <2>4
<1>2. ASSUME NEW t \in states, CallEvict(w, t)
      PROVE  call'[w].step = "leave" /\ call'[w].search \in Ids'
  <2>1. t \in Ids'
    BY SearchLife DEF TypeOK
  <2> QED
    BY <1>2, <2>1 DEF CallEvict, TypeOK
<1>3. CASE KeyGone(w)
  BY <1>3 DEF KeyGone, TypeOK, Nowhere
<1>4. CASE Leave(w)
  <2>1. s \in Ids
    BY <1>4 DEF Leave, DangleInv, LeaverInv
  <2>2. s \in Ids'
    BY <2>1, SearchLife
  <2> QED
    BY <1>4, <2>2, LeaveGoesOn
<1>5. CASE ListBound(w)
  <2>1. /\ call[w].name \in {"latest", "refreshing"} /\ s \in Ids /\ s \notin states
    <3>1. call[w] \in [step : {"list"}, search : Nat, name : {"latest", "refreshing"}]
      BY <1>5 DEF ListBound, TypeOK, CallState, Nowhere
    <3> QED
      BY <1>5, <3>1 DEF ListBound, DangleInv, LeaverInv
  <2>2. s # NoSearch
    BY <2>1 DEF TypeOK, NoSearch
  <2>3. /\ UNCHANGED <<search, states, index>> /\ Ids' = Ids
        /\ call'[w] = [step |-> "unbind", search |-> s, name |-> call[w].name,
                       keys |-> {k \in Key : index[call[w].name][k] = s}]
    BY <1>5 DEF ListBound, TypeOK, Ids
  <2>4. {k \in Key : index[call[w].name][k] = s} \subseteq {search[s].key}
    BY <2>1, <2>2 DEF DangleInv, EntryInv
  <2>5. {k \in Key : index["latest"][k] = s} # {} => ~Indexed("refreshing", s)
    BY <2>2 DEF IndexInv, Indexed, Bound
  <2> HIDE DEF s
  <2> QED
    BY <2>1, <2>3, <2>4, <2>5 DEF Indexed
<1>6. CASE Unbind(w)
  <2>1. s \in Ids /\ s \notin states /\ UNCHANGED <<search, states>> /\ Ids' = Ids
    BY <1>6 DEF Unbind, DangleInv, LeaverInv, Ids
  <2>2. \/ call'[w] = [step |-> "list", search |-> s, name |-> "refreshing"]
        \/ call'[w] = Nowhere
    BY <1>6 DEF Unbind, TypeOK
  <2> QED
    BY <2>1, <2>2 DEF Nowhere
<1> HIDE DEF s
<1> QED
  BY <1>1, <1>2, <1>3, <1>4, <1>5, <1>6, HowCallsMove DEF s

\* The call that is to take an entry away goes on to do so, or meets an exception only
\* where there is no such entry.
LEMMA CoverLasts ==
  ASSUME TypeOK, IndexInv, DangleInv, [Next]_tvars,
         NEW w \in Thread, NEW name \in {"latest", "refreshing"}, NEW k \in Key, NEW s \in Ids,
         index[name][k] = s, index'[name][k] = s, Covers(w, s, name, k)
  PROVE  Covers(w, s, name, k)' \/ s \in overtaken'
<1>1. call[w].step # "idle" /\ call[w].search = s /\ s # NoSearch
  BY DEF Covers, TypeOK, NoSearch
<1>2. CASE call'[w] = call[w]
  BY <1>2 DEF Covers
<1>3. CASE \E t \in states : CallEvict(w, t)
  BY <1>1, <1>3 DEF CallEvict
<1>4. CASE KeyGone(w) /\ UNCHANGED <<search, states, index, overtaken>>
  <2>1. /\ call[w].step = "unbind" /\ call[w].keys \subseteq {search[s].key}
        /\ call[w].name \in {"latest", "refreshing"}
        /\ ~(call[w].keys \subseteq Bound(call[w].name))
        /\ call[w].name = "latest" /\ call[w].keys # {} =>
             ~Indexed("refreshing", s) \/ s \in overtaken
    <3>1. call[w] \in [step : {"unbind"}, search : Nat, name : {"latest", "refreshing"},
                       keys : SUBSET Key]
      BY <1>4 DEF KeyGone, TypeOK, CallState, Nowhere
    <3> QED
      BY <1>1, <1>4, <3>1 DEF KeyGone, DangleInv, LeaverInv
  <2>2. k \in Bound(name) /\ k = search[s].key
    BY <1>1 DEF Bound, DangleInv, EntryInv
  <2>3. CASE call[w].name = name
    BY <2>1, <2>2, <2>3
  <2>4. CASE call[w].name # name
    BY <1>4, <2>1, <2>4 DEF Covers, Indexed
  <2> QED
    BY <2>3, <2>4
<1>5. CASE Leave(w)
  BY <1>1, <1>5, LeaveGoesOn DEF Leave, Covers
<1>6. CASE ListBound(w)
  <2>1. /\ call'[w] = [step |-> "unbind", search |-> s, name |-> call[w].name,
                       keys |-> {l \in Key : index[call[w].name][l] = s}]
        /\ call[w].name = "latest" \/ name = "refreshing"
        /\ call[w].name \in {"latest", "refreshing"}
    <3>1. call[w] \in [step : {"list"}, search : Nat, name : {"latest", "refreshing"}]
      BY <1>6 DEF ListBound, TypeOK, CallState, Nowhere
    <3> QED
      BY <1>1, <1>6, <3>1 DEF ListBound, Covers, TypeOK
  <2> QED
    BY <2>1 DEF Covers
<1>7. CASE Unbind(w)
  <2>1. /\ call[w].step = "unbind"
        /\ index' = [index EXCEPT ![call[w].name] =
                       [l \in Key |-> IF l \in call[w].keys THEN NoSearch ELSE @[l]]]
    BY <1>7 DEF Unbind
  <2>2. call[w].name # name
    BY <1>1, <2>1 DEF Covers, TypeOK
  <2>3. name = "refreshing" /\ call[w].name = "latest"
    <3>1. call[w] \in [step : {"unbind"}, search : Nat, name : {"latest", "refreshing"},
                       keys : SUBSET Key]
      BY <2>1 DEF TypeOK, CallState, Nowhere
    <3> QED
      BY <2>1, <2>2, <3>1 DEF Covers
  <2>4. call'[w] = [step |-> "list", search |-> s, name |-> "refreshing"]
    BY <1>1, <1>7, <2>3 DEF Unbind, TypeOK
  <2> QED
    BY <2>3, <2>4 DEF Covers
<1> QED
  BY <1>2, <1>3, <1>4, <1>5, <1>6, <1>7, HowCallsMove

LEMMA NextKeepsEntries ==
  ASSUME TypeOK, IndexInv, DangleInv, [Next]_tvars
  PROVE  EntryInv'
<1> SUFFICES ASSUME NEW name \in {"latest", "refreshing"}, NEW k \in Key,
                    NEW s, s = index'[name][k], s # NoSearch
             PROVE  /\ search'[s].key = k
                    /\ s \in states' \cup overtaken' \/ \E w \in Thread : Covers(w, s, name, k)'
  BY DEF EntryInv
<1>1. CASE /\ s = loop.search /\ UNCHANGED <<search, states, overtaken>>
           /\ loop.search \in Ids /\ Busy(loop.search) /\ search[loop.search].key = k
  BY <1>1 DEF DangleInv, BusyInv
<1>2. CASE s = index[name][k]
  <2>1. s \in Ids
    BY <1>2 DEF IndexInv
  <2>2. /\ search[s].key = k
        /\ s \in states \cup overtaken \/ \E w \in Thread : Covers(w, s, name, k)
    BY <1>2 DEF DangleInv, EntryInv
  <2>3. search'[s].key = k
    BY <2>1, <2>2, SearchLife
  <2>4. CASE s \in overtaken
    BY <2>3, <2>4, HowSearchesLeave
  <2>5. CASE s \in states
    <3>1. CASE s \in states'
      BY <2>3, <3>1
    <3>2. CASE s \notin states'
      <4>1. PICK w \in Thread : call'[w] = [step |-> "list", search |-> s, name |-> "latest"]
        BY <2>5, <3>2, HowSearchesLeave
      <4>2. Covers(w, s, name, k)'
        BY <4>1 DEF Covers
      <4> QED
        BY <2>3, <4>2
    <3> QED
      BY <3>1, <3>2
  <2>6. ASSUME NEW w \in Thread, Covers(w, s, name, k)
        PROVE  Covers(w, s, name, k)' \/ s \in overtaken'
    BY <1>2, <2>1, <2>6, CoverLasts
  <2> QED
    BY <2>2, <2>3, <2>4, <2>5, <2>6
<1> QED
  BY <1>1, <1>2, HowEntriesCome

LEMMA NextKeepsDangling ==
  ASSUME TypeOK, IndexInv, DangleInv, [Next]_tvars
  PROVE  DangleInv'
BY NextKeepsBusy, NextKeepsEntries, NextKeepsLeavers DEF DangleInv

-----------------------------------------------------------------------------
(* From here on, one PATCH at a time.                                      *)

OnePatcher == \A v, w \in Patcher : v = w

LEMMA NextKeepsFounds ==
  ASSUME OnePatcher, TypeOK, VictimInv, CallsInv, FoundsInv, [Next]_tvars
  PROVE  FoundsInv'
<1> SUFFICES ASSUME NEW w \in Patcher, patch'[w].step \in {"scan", "drop", "evict"},
                    NEW s \in patch'[w].found
             PROVE  s \in Ids' /\ (s \in states' \/ search'[s].status # "loading")
  BY DEF FoundsInv, FoundInv
<1>1. /\ CallInv(w) /\ FoundInv(w) /\ w \in Thread
  BY DEF CallsInv, FoundsInv, Thread
<1>2. \/ patch[w].step \in {"scan", "drop", "evict"} /\ s \in patch[w].found
      \/ ScanOn(w) /\ s = Min(Following(patch[w].cursor))
  <2>1. CASE patch'[w] = patch[w]
    BY <2>1
  <2>2. CASE PatchStep(w)
    <3>1. ASSUME NEW pr \in Profile, CommitSkills(w, pr)
          PROVE  FALSE
      BY <3>1 DEF CommitSkills, TypeOK
    <3>2. CASE BeginDiscard(w) \/ EndScan(w) \/ AnswerPatch(w) \/ PatchRaises(w)
      BY <3>2 DEF BeginDiscard, EndScan, AnswerPatch, PatchRaises, TypeOK, Nowhere
    <3>3. CASE ScanOn(w)
      <4>1. patch[w].step = "scan" /\ patch'[w].found \subseteq
                patch[w].found \cup {Min(Following(patch[w].cursor))}
        BY <3>3, PatchForms DEF ScanOn, TypeOK, PatchAt
      <4> QED
        BY <3>3, <4>1
    <3>4. CASE CancelTask(w)
      <4>1. patch'[w].found = patch[w].found
        BY <3>4, PatchForms DEF CancelTask, TypeOK
      <4> QED
        BY <3>4, <4>1 DEF CancelTask, PatchAt
    <3>5. CASE DropSearch(w)
      <4>1. patch'[w].found \subseteq patch[w].found
        BY <3>5, PatchForms DEF DropSearch, TypeOK
      <4> QED
        BY <3>5, <4>1 DEF DropSearch, PatchAt
    <3> QED
      BY <2>2, <3>1, <3>2, <3>3, <3>4, <3>5 DEF PatchStep
  <2>3. CASE Leave(w) \/ ListBound(w) \/ Unbind(w)
    BY <2>3 DEF Leave, ListBound, Unbind
  <2> QED
    BY <2>1, <2>2, <2>3, OthersLeaveAlone
<1>3. CASE ScanOn(w) /\ s = Min(Following(patch[w].cursor))
  <2>1. s \in states
    BY <1>3, PatchForms, FollowingHasNext DEF ScanOn, PatchAt
  <2> QED
    BY <1>3, <2>1 DEF ScanOn, TypeOK, Ids
<1>4. CASE patch[w].step \in {"scan", "drop", "evict"} /\ s \in patch[w].found
  <2>1. s \in Ids /\ (s \in states \/ search[s].status # "loading")
    BY <1>1, <1>4 DEF FoundInv
  <2>2. s \in Ids' /\ (search[s].status # "loading" => search'[s].status # "loading")
    BY <2>1, SearchLife
  <2>3. ASSUME s \in states, s \notin states'
        PROVE  search[s].status # "loading"
    <3>1. PICK v \in Thread : Leave(v) /\ s = call[v].search
      BY <2>3 DEF Next, LoopStep, ReadProfile, Lookup, Register, BindNew, Schedule, Answer,
                  BeginSettling, WriteField, Promote, Rebind, BeginPass, ScanNext,
                  ChooseVictims, WeighItems, EndPass, PassRaises, EvictVictim, PatchStep,
                  CommitSkills, BeginDiscard, ScanOn, EndScan, CancelTask, DropSearch,
                  AnswerPatch, PatchRaises, ReaderStep, AskPage, GetState, ReadStatus,
                  ReadItems, Leave, ListBound, Unbind, tvars
    <3>2. call[v].step = "leave"
      BY <3>1 DEF Leave
    <3>3. v # w
      BY <1>1, <1>4, <3>1, <3>2 DEF CallInv
    <3>4. v = "loop"
      BY <3>3 DEF Thread, OnePatcher
    <3> QED
      BY <3>1, <3>2, <3>4 DEF VictimInv
  <2> QED
    BY <2>1, <2>2, <2>3
<1> QED
  BY <1>2, <1>3, <1>4

\* A search the loop works for: the work goes on, or is over and nothing waits for it.
LEMMA WorkGoesOn ==
  ASSUME TypeOK, IndexInv, [Next]_tvars, NEW s \in Ids, Working(s),
         \A w \in Patcher : ~CancelTask(w)
  PROVE  \/ Working(s)'
         \/ search[s].status # "loading" /\ ~Indexed("refreshing", s)'
<1>1. s # NoSearch
  BY DEF TypeOK, NoSearch
<1>2. ASSUME tasks \subseteq tasks',
             loop.search = s /\ loop.step \in {"bind", "schedule", "settle", "promote"} =>
               loop'.search = s /\ loop'.step \in {"bind", "schedule", "settle", "promote"}
      PROVE  Working(s)'
  BY <1>2 DEF Working
<1>3. CASE LoopStep
  <2>1. CASE Lookup \/ Register \/ Answer \/ BeginPass \/ ScanNext \/ ChooseVictims
             \/ WeighItems \/ EndPass \/ PassRaises
             \/ (\E s_1 \in DOMAIN search : EvictVictim(s_1))
             \/ (\E k \in Key, force \in BOOLEAN : ReadProfile(k, force))
             \/ (\E s_1 \in tasks, outcome \in Outcome : BeginSettling(s_1, outcome))
    BY <1>2, <2>1
       DEF Lookup, Register, Answer, BeginPass, ScanNext, ChooseVictims, WeighItems, EndPass,
           PassRaises, EvictVictim, ReadProfile, BeginSettling, At
  <2>2. CASE BindNew
    BY <1>2, <2>2, LoopOrder DEF BindNew, At
  <2>3. CASE Schedule
    BY <2>3 DEF Schedule, Working, At
  <2>4. CASE WriteField
    <3>1. loop \in SettleState
      BY <2>4, LoopForms DEF WriteField, At
    <3>2. loop'.search = loop.search /\ loop'.step \in {"settle", "promote"}
      BY <2>4, <3>1 DEF WriteField, SettleState, At
    <3> QED
      BY <1>2, <2>4, <3>2 DEF WriteField
  <2>5. CASE Promote
    <3>1. CASE s = loop.search
      <4>1. search[s].status # "loading"
        BY <2>5, <3>1 DEF Promote, IndexInv
      <4>2. search[s].key \in Key
        BY DEF TypeOK, SearchState
      <4>3. \A k \in Key : index["refreshing"][k] = s => k = search[s].key
        BY <1>1 DEF IndexInv, Bound
      <4>4. \A k \in Key : index'["refreshing"][k] =
              IF Refreshing(s) /\ k = search[s].key THEN NoSearch ELSE index["refreshing"][k]
        BY <2>5, <3>1, <4>2 DEF Promote, Bind, TypeOK, Refreshing
      <4> QED
        BY <1>1, <4>1, <4>3, <4>4 DEF Indexed, Refreshing
    <3>2. CASE s # loop.search
      <4>1. s \in tasks'
        BY <2>5, <3>2 DEF Promote, Working
      <4> QED
        BY <4>1 DEF Working
    <3> QED
      BY <3>1, <3>2
  <2>6. CASE Rebind
    <3>1. CASE s = loop.search
      <4>1. search[s].status # "loading" /\ ~Indexed("refreshing", s)
        BY <2>6, <3>1 DEF Rebind, IndexInv
      <4>2. index'["refreshing"] = index["refreshing"]
        BY <2>6 DEF Rebind, Bind, TypeOK
      <4> QED
        BY <4>1, <4>2 DEF Indexed
    <3>2. CASE s # loop.search
      <4>1. s \in tasks'
        BY <2>6, <3>2 DEF Rebind, Working
      <4> QED
        BY <4>1 DEF Working
    <3> QED
      BY <3>1, <3>2
  <2> QED
    BY <1>3, <2>1, <2>2, <2>3, <2>4, <2>5, <2>6 DEF LoopStep
<1>4. ASSUME NEW w \in Patcher, PatchStep(w)
      PROVE  Working(s)'
  BY <1>2, <1>4 DEF PatchStep, CommitSkills, BeginDiscard, ScanOn, EndScan, DropSearch,
                    AnswerPatch, PatchRaises
<1>5. ASSUME NEW w \in Thread, Leave(w) \/ ListBound(w) \/ Unbind(w)
      PROVE  Working(s)'
  <2>1. tasks' = tasks /\ (loop' = loop \/ Disturb(w)) /\ Ids' = Ids
    BY <1>5 DEF Leave, ListBound, Unbind, Ids
  <2>2. loop.step \in Pass \/ loop' = loop
    BY <2>1, DisturbTypes
  <2> QED
    BY <1>2, <2>1, <2>2 DEF Pass
<1>6. CASE ReaderStep
  BY <1>2, <1>6 DEF ReaderStep, AskPage, GetState, ReadStatus, ReadItems
<1>7. CASE UNCHANGED tvars
  BY <1>2, <1>7 DEF tvars
<1> QED
  BY <1>3, <1>4, <1>5, <1>6, <1>7 DEF Next

\* A search somebody keeps: it is kept on, or nothing waits for it any more.
LEMMA KeptOn ==
  ASSUME OnePatcher, TypeOK, IndexInv, CallsInv, FoundsInv, WaitInv, [Next]_tvars,
         NEW s \in Ids, Kept(s)
  PROVE  \/ Kept(s)'
         \/ /\ search[s].status # "loading" \/ s \notin states'
            /\ ~Indexed("refreshing", s)'
<1>1. s # NoSearch
  BY DEF TypeOK, NoSearch
<1>2. CASE \E w \in Patcher : CancelTask(w)
  <2>1. PICK w \in Patcher : CancelTask(w)
    BY <1>2
  <2>2. /\ patch'[w] = [patch[w] EXCEPT !.step = "evict"]
        /\ patch[w] \in [step : {"drop", "evict"}, profile : Profile, skills : Nat,
                         found : SUBSET Nat]
    BY <2>1, PatchForms DEF CancelTask, TypeOK
  <2>3. patch'[w].step = "evict" /\ patch'[w].found = patch[w].found
    BY <2>2
  <2>4. /\ UNCHANGED <<loop, call>> /\ tasks' = tasks \ {Min(patch[w].found)}
        /\ call[w].step = "idle" /\ patch[w].step = "drop"
    BY <2>1 DEF CancelTask, PatchAt
  <2>5. Working(s)
    BY <2>4 DEF Kept, Discarded, PatchAt, OnePatcher
  <2>6. CASE s = Min(patch[w].found)
    BY <2>3, <2>6 DEF Kept, Discarded, PatchAt
  <2>7. CASE s # Min(patch[w].found)
    BY <2>4, <2>5, <2>7 DEF Kept, Working
  <2> QED
    BY <2>6, <2>7
<1>3. CASE Working(s) /\ ~(\E w \in Patcher : CancelTask(w))
  BY <1>3, WorkGoesOn DEF Kept
<1>4. ASSUME NEW w \in Patcher, Discarded(w, s), ~(\E v \in Patcher : CancelTask(v)), ~Working(s)
      PROVE  \/ Kept(s)'
             \/ /\ search[s].status # "loading" \/ s \notin states'
                /\ ~Indexed("refreshing", s)'
  <2>1. CallInv(w) /\ FoundInv(w) /\ w \in Thread
    BY DEF CallsInv, FoundsInv, Thread
  <2>2. CASE patch'[w] = patch[w] /\ call'[w] = call[w]
    BY <1>4, <2>2 DEF Kept, Discarded, PatchAt
  <2>3. CASE PatchStep(w)
    <3>1. PatchAt(w, "evict") /\ s = Min(patch[w].found) => DropSearch(w)
      BY <1>4, <2>1, <2>3
         DEF PatchStep, CommitSkills, BeginDiscard, ScanOn, EndScan, AnswerPatch, PatchRaises,
             KeyGone, CallInv, PatchAt
    <3>2. CASE DropSearch(w)
      <4>1. call[w].step = "idle" /\ s = Min(patch[w].found) /\ PatchAt(w, "evict")
        BY <1>4, <2>1, <3>2 DEF DropSearch, CallInv, Discarded
      <4>2. CASE s \in states
        <5>1. call'[w] = [step |-> "leave", search |-> s, left |-> EvictOrder]
          BY <2>1, <3>2, <4>1, <4>2 DEF DropSearch, CallEvict, TypeOK
        <5> QED
          BY <5>1 DEF Kept, Discarded
      <4>3. CASE s \notin states
        <5>1. s \in patch[w].found
          <6>1. patch[w].found # {} /\ patch[w].found \in SUBSET Nat
            BY <2>1, <4>1, PatchForms DEF CallInv
          <6> QED
            BY <4>1, <6>1, MinOfNaturals
        <5>2. search[s].status # "loading"
          BY <2>1, <4>1, <4>3, <5>1 DEF FoundInv, PatchAt
        <5>3. ~Indexed("refreshing", s)
          BY <1>1, <1>4, <5>2 DEF Indexed, IndexInv, Bound, Working
        <5>4. index' = index
          BY <3>2 DEF DropSearch
        <5> QED
          BY <5>2, <5>3, <5>4 DEF Indexed
      <4> QED
        BY <4>2, <4>3
    <3>3. CASE ~DropSearch(w)
      <4>1. call[w].step # "idle" /\ call[w].search = s
        BY <1>4, <3>1, <3>3 DEF Discarded
      <4>2. call' = call \/ (PatchRaises(w) /\ KeyGone(w))
        BY <1>4, <2>1, <2>3, <3>3
           DEF PatchStep, CommitSkills, BeginDiscard, ScanOn, EndScan, AnswerPatch,
               PatchRaises
      <4>3. CASE call' = call
        BY <4>1, <4>3 DEF Kept, Discarded
      <4>4. CASE PatchRaises(w) /\ KeyGone(w)
        <5>1. /\ call[w] \in [step : {"unbind"}, search : Nat,
                              name : {"latest", "refreshing"}, keys : SUBSET Key]
              /\ ~(call[w].keys \subseteq Bound(call[w].name))
          BY <2>1, <4>4 DEF KeyGone, TypeOK, CallState, Nowhere
        <5>2. s \notin states /\ UNCHANGED <<states, index>>
          BY <2>1, <4>1, <4>4, <5>1 DEF CallInv, PatchRaises
        <5>3. ~Indexed("refreshing", s)
          <6>1. CASE call[w].name = "latest"
            BY <2>1, <4>1, <5>1, <6>1 DEF CallInv
          <6>2. CASE call[w].name = "refreshing"
            <7>1. index["refreshing"][search[s].key] = NoSearch
              BY <2>1, <4>1, <5>1, <6>2 DEF CallInv, Bound
            <7> QED
              BY <1>1, <7>1 DEF Indexed, IndexInv, Bound
          <6> QED
            BY <5>1, <6>1, <6>2
        <5> QED
          BY <5>2, <5>3 DEF Indexed
      <4> QED
        BY <4>2, <4>3, <4>4
    <3> QED
      BY <3>2, <3>3
  <2>4. CASE Leave(w)
    <3>1. call[w] \in [step : {"leave"}, search : Nat,
                       left : {<<"evicted", "states">>, <<"states">>}]
      BY <2>1, <2>4 DEF Leave, TypeOK, CallState, Nowhere
    <3>2. call[w].search = s
      BY <1>4, <2>1, <2>4 DEF Discarded, CallInv, Leave
    <3>3. call'[w].step \in {"leave", "list"} /\ call'[w].search = s
      BY <2>1, <2>4, <3>1, <3>2 DEF Leave, TypeOK
    <3> QED
      BY <3>3 DEF Kept, Discarded
  <2>5. CASE ListBound(w)
    <3>1. call[w].search = s
      BY <1>4, <2>1, <2>5 DEF Discarded, CallInv, ListBound
    <3>2. call'[w].step = "unbind" /\ call'[w].search = s
      BY <2>1, <2>5, <3>1 DEF ListBound, TypeOK
    <3> QED
      BY <3>2 DEF Kept, Discarded
  <2>6. CASE Unbind(w)
    <3>1. call[w].search = s /\ s \notin states /\ states' = states
      BY <1>4, <2>1, <2>6 DEF Discarded, CallInv, Unbind
    <3>2. CASE call[w].name = "latest"
      <4>1. call'[w] = [step |-> "list", search |-> s, name |-> "refreshing"]
        BY <2>1, <2>6, <3>1, <3>2 DEF Unbind, TypeOK
      <4> QED
        BY <4>1 DEF Kept, Discarded
    <3>3. CASE call[w].name # "latest"
      <4>1. call[w].name = "refreshing"
        <5>1. call[w] \in [step : {"unbind"}, search : Nat,
                           name : {"latest", "refreshing"}, keys : SUBSET Key]
          BY <2>1, <2>6 DEF Unbind, TypeOK, CallState, Nowhere
        <5> QED
          BY <3>3, <5>1
      <4>2. \A k \in Key : index["refreshing"][k] = s => k \in call[w].keys
        BY <1>4, <2>6, <3>1, <4>1 DEF WaitInv, Unbind
      <4>3. \A k \in Key : index'["refreshing"][k] =
              IF k \in call[w].keys THEN NoSearch ELSE index["refreshing"][k]
        BY <2>6, <4>1 DEF Unbind, TypeOK
      <4> QED
        BY <1>1, <3>1, <4>2, <4>3 DEF Indexed
    <3> QED
      BY <3>2, <3>3
  <2> QED
    BY <2>2, <2>3, <2>4, <2>5, <2>6, OthersLeaveAlone
<1> QED
  BY <1>2, <1>3, <1>4 DEF Kept

LEMMA NextKeepsWaiting ==
  ASSUME OnePatcher, TypeOK, IndexInv, CallsInv, FoundsInv, WaitInv, [Next]_tvars
  PROVE  WaitInv'
<1>1. ASSUME NEW s \in states', search'[s].status = "loading"
      PROVE  Kept(s)'
  <2>1. CASE s \in Ids
    <3>1. s \in states /\ search[s].status = "loading"
      BY <1>1, <2>1, SearchLife
    <3>2. Kept(s)
      BY <3>1 DEF WaitInv
    <3> QED
      BY <1>1, <2>1, <3>1, <3>2, KeptOn
  <2>2. CASE s \notin Ids
    <3>1. Register /\ s = loop.search
      <4>1. states' \subseteq states \/ Register
        BY DEF Next, LoopStep, ReadProfile, Lookup, BindNew, Schedule, Answer,
               BeginSettling, WriteField, Promote, Rebind, BeginPass, ScanNext,
               ChooseVictims, WeighItems, EndPass, PassRaises, EvictVictim, PatchStep,
               CommitSkills, BeginDiscard, ScanOn, EndScan, CancelTask, DropSearch,
               AnswerPatch, PatchRaises, ReaderStep, AskPage, GetState, ReadStatus,
               ReadItems, Leave, ListBound, Unbind, tvars
      <4>2. Register => states' = states \cup {loop.search}
        BY DEF Register
      <4> QED
        BY <1>1, <2>2, <4>1, <4>2 DEF TypeOK
    <3>2. loop'.search = s /\ loop'.step = "bind"
      BY <3>1, LoopOrder DEF At
    <3> QED
      BY <3>2 DEF Kept, Working
  <2> QED
    BY <2>1, <2>2
<1>2. ASSUME NEW k \in Bound("refreshing")', NEW s \in Ids, s = index'["refreshing"][k]
      PROVE  Kept(s)'
  <2>1. k \in Key /\ Indexed("refreshing", s)'
    BY <1>2 DEF Bound, Indexed
  <2>2. CASE index["refreshing"][k] = s
    <3>1. Kept(s)
      BY <1>2, <2>1, <2>2 DEF WaitInv, Bound
    <3> QED
      BY <2>1, <3>1, KeptOn
  <2>3. CASE BindNew /\ loop.search = s
    <3>1. loop'.search = s /\ loop'.step = "schedule"
      BY <2>3, LoopOrder DEF At
    <3> QED
      BY <3>1 DEF Kept, Working
  <2> QED
    BY <1>2, <2>1, <2>2, <2>3, SearchLife
<1>3. \A k \in Bound("refreshing")' : index'["refreshing"][k] \in Ids
  <2>1. ASSUME NEW k \in Bound("refreshing")', index'["refreshing"][k] \notin Ids
        PROVE  FALSE
    <3>1. IndexInv'
      BY NextKeepsIndex
    <3>2. index'["refreshing"][k] \in Ids'
      BY <2>1, <3>1 DEF IndexInv, Bound
    <3>3. CASE Register
      <4>1. index' = index
        BY <3>3 DEF Register
      <4> QED
        BY <2>1, <4>1 DEF IndexInv, Bound
    <3>4. CASE ~Register
      <4>1. Ids' = Ids
        <5>1. CASE WriteField
          BY <5>1 DEF WriteField, Ids, TypeOK
        <5>2. CASE ~WriteField
          BY <3>4, <5>2
             DEF Next, LoopStep, ReadProfile, Lookup, BindNew, Schedule, Answer,
               BeginSettling, Promote, Rebind, BeginPass, ScanNext,
               ChooseVictims, WeighItems, EndPass, PassRaises, EvictVictim, PatchStep,
               CommitSkills, BeginDiscard, ScanOn, EndScan, CancelTask, DropSearch,
               AnswerPatch, PatchRaises, ReaderStep, AskPage, GetState, ReadStatus,
               ReadItems, Leave, ListBound, Unbind, tvars, Ids
        <5> QED
          BY <5>1, <5>2
      <4> QED
        BY <2>1, <3>2, <4>1
    <3> QED
      BY <3>3, <3>4
  <2> QED
    BY <2>1
<1>4. ASSUME NEW w \in Patcher, call'[w].step = "unbind", call'[w].name = "refreshing",
             NEW k \in Key, NEW s \in Ids, s = call'[w].search,
             index'["refreshing"][k] = s, k \notin call'[w].keys
      PROVE  Working(s)'
  <2>1. CallInv(w) /\ w \in Thread
    BY DEF CallsInv, Thread
  <2>2. CASE patch'[w] = patch[w] /\ call'[w] = call[w]
    <3>1. CASE BindNew /\ loop.search = s
      <4>1. loop'.search = s /\ loop'.step = "schedule"
        BY <3>1, LoopOrder DEF At
      <4> QED
        BY <4>1 DEF Working
    <3>2. CASE index["refreshing"][k] = s
      <4>1. Working(s)
        BY <1>4, <2>2, <3>2 DEF WaitInv
      <4>2. \A v \in Patcher : ~CancelTask(v)
        BY <1>4, <2>2 DEF CancelTask, OnePatcher
      <4>3. Indexed("refreshing", s)'
        BY <1>4 DEF Indexed
      <4> QED
        BY <4>1, <4>2, <4>3, WorkGoesOn
    <3> QED
      BY <1>4, <3>1, <3>2, SearchLife
  <2>3. CASE PatchStep(w)
    <3>1. call'[w] = call[w] /\ call[w].step # "idle"
      <4>1. call' = call \/ (\E t \in states : CallEvict(w, t)) \/ KeyGone(w)
        BY <2>3 DEF PatchStep, CommitSkills, BeginDiscard, ScanOn, EndScan, CancelTask,
                    DropSearch, CallEvict, AnswerPatch, PatchRaises
      <4> QED
        BY <1>4, <2>1, <4>1 DEF CallEvict, KeyGone, TypeOK, Nowhere
    <3>2. FALSE
      BY <1>4, <2>1, <2>3, <3>1
         DEF PatchStep, CommitSkills, BeginDiscard, ScanOn, EndScan, CancelTask, DropSearch,
             AnswerPatch, PatchRaises, KeyGone, CallInv, PatchAt, TypeOK, Nowhere
    <3> QED
      BY <3>2
  <2>4. CASE ListBound(w)
    BY <1>4, <2>1, <2>4 DEF ListBound, TypeOK
  <2>5. CASE Leave(w) \/ Unbind(w)
    <3>1. call[w] \in CallState
      BY <2>1 DEF TypeOK
    <3>2. call'[w].step # "unbind"
      BY <2>1, <2>5, <3>1 DEF Leave, Unbind, TypeOK, CallState, Nowhere
    <3> QED
      BY <1>4, <3>2
  <2> QED
    BY <2>2, <2>3, <2>4, <2>5, OthersLeaveAlone
<1>5. \A w \in Patcher : call'[w].step = "unbind" => call'[w].search \in Ids
  <2>1. ASSUME NEW w \in Patcher, call'[w].step = "unbind"
        PROVE  call'[w].search \in Ids
    <3>1. CallInv(w) /\ call[w] \in CallState /\ w \in Thread
      BY DEF CallsInv, TypeOK, Thread
    <3>2. call[w].step # "idle" /\ call'[w].search = call[w].search
      <4>1. CASE patch'[w] = patch[w] /\ call'[w] = call[w]
        BY <2>1, <4>1
      <4>2. CASE PatchStep(w)
        <5>1. call' = call \/ (\E t \in states : CallEvict(w, t)) \/ KeyGone(w)
          BY <4>2 DEF PatchStep, CommitSkills, BeginDiscard, ScanOn, EndScan, CancelTask,
                      DropSearch, CallEvict, AnswerPatch, PatchRaises
        <5> QED
          BY <2>1, <3>1, <5>1 DEF CallEvict, KeyGone, TypeOK, Nowhere
      <4>3. CASE Leave(w) \/ ListBound(w) \/ Unbind(w)
        BY <2>1, <3>1, <4>3 DEF Leave, ListBound, Unbind, TypeOK, CallState, Nowhere
      <4> QED
        BY <4>1, <4>2, <4>3, OthersLeaveAlone
    <3> QED
      BY <3>1, <3>2 DEF CallInv
  <2> QED
    BY <2>1
<1> QED
  BY <1>1, <1>2, <1>3, <1>4, <1>5 DEF WaitInv

-----------------------------------------------------------------------------
(* The theorems.                                                           *)

LEMMA InitThreads ==
  ASSUME Init
  PROVE  /\ PageInv /\ LeaveInv /\ PassInv /\ DiscardInv
         /\ IndexInv /\ VictimInv /\ CallsInv /\ FoundsInv /\ WaitInv /\ DangleInv
<1>1. Ids = {} /\ DOMAIN search = {}
  BY DEF Init, Ids
<1>2. PageInv /\ LeaveInv
  BY <1>1 DEF Init, PageInv, LeaveInv, CompletePageIsFinal, NotFoundOnlyWhileLeaving, At, Nowhere
<1>3. PassInv /\ VictimInv
  BY DEF Init, PassInv, VictimInv, EvictorDiesOnlyOfDiscards, At, Nowhere, Thread
<1>4. DiscardInv /\ FoundsInv
  BY DEF Init, DiscardInv, DiscardIsComplete, FoundsInv, FoundInv, PatchAt, Nowhere
<1>5. IndexInv /\ WaitInv
  BY DEF Init, IndexInv, WaitInv, Indexed, Bound, At, Nowhere, Thread
<1>6. CallsInv
  BY DEF Init, CallsInv, CallInv, PatchAt, Nowhere, Thread
<1>7. DangleInv
  BY <1>1 DEF Init, DangleInv, BusyInv, EntryInv, LeaverInv, Nowhere
<1> QED
  BY <1>2, <1>3, <1>4, <1>5, <1>6, <1>7

\* Type correctness of the registry, the loop, the patchers and the reader.
THEOREM ThreadsTypeCorrect == Spec => []TypeOK
<1>1. Init => TypeOK
  BY InitTypes
<1>2. TypeOK /\ [Next]_tvars => TypeOK'
  BY NextTypes
<1> QED
  BY <1>1, <1>2, PTL DEF Spec

\* A page that says the search is over shows it in its final order, wherever the reader's
\* thread was interrupted and whatever _populate assigned in between.
THEOREM CompletePagesAreFinal == Spec => []CompletePageIsFinal
<1>1. Init => PageInv
  BY InitThreads
<1>2. TypeOK /\ PageInv /\ [Next]_tvars => PageInv'
  BY NextKeepsPages
<1>3. PageInv => CompletePageIsFinal
  BY DEF PageInv
<1> QED
  BY <1>1, <1>2, <1>3, ThreadsTypeCorrect, PTL DEF Spec

\* Of a search that has been given out, 404 is answered only to a poll that was under way
\* when the search left: whoever asks later finds it in `evicted`.
THEOREM NotFoundOnlyWhenLeaving == Spec => []NotFoundOnlyWhileLeaving
<1>1. Init => LeaveInv
  BY InitThreads
<1>2. TypeOK /\ LeaveInv /\ [Next]_tvars => LeaveInv'
  BY NextKeepsLeaving
<1>3. LeaveInv => NotFoundOnlyWhileLeaving
  BY DEF LeaveInv
<1> QED
  BY <1>1, <1>2, <1>3, ThreadsTypeCorrect, PTL DEF Spec

\* However many PATCHes run, an eviction pass that none of them has disturbed goes through
\* without an exception.
THEOREM PassInvariant == Spec => []PassInv
<1>1. Init => PassInv
  BY InitThreads
<1>2. TypeOK /\ PassInv /\ [Next]_tvars => PassInv'
  BY NextKeepsPass
<1> QED
  BY <1>1, <1>2, ThreadsTypeCorrect, PTL DEF Spec

\* The background task of eviction ends only when a discard takes entries away under it.
THEOREM EvictorOnlyKilled == Spec => []EvictorDiesOnlyOfDiscards
<1>1. PassInv => EvictorDiesOnlyOfDiscards
  BY DEF PassInv
<1> QED
  BY <1>1, PassInvariant, PTL

\* patch_profile, however many run at once: one that answers 200 has left no search of the
\* profile ranked by older skills, but those whose endpoint read the profile before the
\* commit and registered the search after it.
THEOREM DiscardsAreComplete == Spec => []DiscardIsComplete
<1>1. Init => DiscardInv
  BY InitThreads
<1>2. TypeOK /\ DiscardInv /\ [Next]_tvars => DiscardInv'
  BY NextKeepsDiscards
<1>3. DiscardInv => DiscardIsComplete
  BY DEF DiscardInv
<1> QED
  BY <1>1, <1>2, <1>3, ThreadsTypeCorrect, PTL DEF Spec

\* A refresh is bound at its own key only, is not the latest search at the same time, and
\* is unbound before anybody can see it settled; a pass never evicts what is loading.
THEOREM IndexAndVictims == Spec => [](IndexInv /\ VictimInv)
<1>1. Init => IndexInv /\ VictimInv
  BY InitThreads
<1>2. /\ TypeOK /\ IndexInv /\ [Next]_tvars => IndexInv'
      /\ TypeOK /\ PassInv /\ VictimInv /\ [Next]_tvars => VictimInv'
  BY NextKeepsIndex, NextKeepsVictims
<1> QED
  BY <1>1, <1>2, ThreadsTypeCorrect, PassInvariant, PTL DEF Spec

\* However many PATCHes run, `latest` and `refreshing` name searches of the very key that
\* are there or on their way out, except those that a discard has taken out of `states`
\* while the loop was starting or settling them.
THEOREM EntriesDangleOnlyWhenOvertaken == Spec => []OnlyOvertakenEntriesDangle
<1>1. Init => DangleInv
  BY InitThreads
<1>2. TypeOK /\ IndexInv /\ DangleInv /\ [Next]_tvars => DangleInv'
  BY NextKeepsDangling
<1>3. ASSUME TypeOK, DangleInv
      PROVE  OnlyOvertakenEntriesDangle
  <2>1. ASSUME NEW w \in Thread, NEW s, NEW name, NEW k, Covers(w, s, name, k)
        PROVE  call[w].step # "idle" /\ call[w].search = s
    BY <2>1 DEF Covers
  <2>2. DOMAIN index = {"latest", "refreshing"}
    BY <1>3 DEF TypeOK
  <2> QED
    BY <1>3, <2>1, <2>2 DEF OnlyOvertakenEntriesDangle, DangleInv, EntryInv
<1> QED
  BY <1>1, <1>2, <1>3, ThreadsTypeCorrect, IndexAndVictims, PTL DEF Spec

\* With one PATCH at a time, whatever its discard meets, misses or is cut short by: a
\* search that polls find loading, and a refresh for whose sake an older result is
\* protected, is being worked on or is on its way out.
THEOREM NobodyEverWaitsInVain ==
  ASSUME OnePatcher
  PROVE  Spec => []NobodyWaitsInVain
<1>1. Init => CallsInv /\ FoundsInv /\ WaitInv
  BY InitThreads
<1>2. /\ TypeOK /\ IndexInv /\ CallsInv /\ [Next]_tvars => CallsInv'
      /\ TypeOK /\ VictimInv /\ CallsInv /\ FoundsInv /\ [Next]_tvars => FoundsInv'
      /\ TypeOK /\ IndexInv /\ CallsInv /\ FoundsInv /\ WaitInv /\ [Next]_tvars => WaitInv'
  BY NextKeepsCalls, NextKeepsFounds, NextKeepsWaiting
<1>3. ASSUME TypeOK, CallsInv, WaitInv
      PROVE  NobodyWaitsInVain
  <2>1. ASSUME NEW s, Kept(s)
        PROVE  InHand(s)
    <3>1. CASE Working(s)
      BY <3>1 DEF Working, InHand
    <3>2. ASSUME NEW w \in Patcher, PatchAt(w, "evict"), s = Min(patch[w].found)
          PROVE  InHand(s)
      <4>1. patch[w].found # {} /\ patch[w].found \in SUBSET Nat
        BY <1>3, <3>2, PatchForms DEF CallsInv, CallInv
      <4>2. s \in patch[w].found
        BY <3>2, <4>1, MinOfNaturals
      <4> QED
        BY <3>2, <4>2 DEF InHand, PatchAt
    <3>3. ASSUME NEW w \in Patcher, call[w].step # "idle", call[w].search = s
          PROVE  InHand(s)
      BY <3>3 DEF InHand, Thread
    <3> QED
      BY <2>1, <3>1, <3>2, <3>3 DEF Kept, Discarded
  <2> QED
    BY <1>3, <2>1 DEF NobodyWaitsInVain, WaitInv
<1> QED
  BY <1>1, <1>2, <1>3, ThreadsTypeCorrect, IndexAndVictims, PTL DEF Spec
=============================================================================
