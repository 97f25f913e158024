-------------------------- MODULE ConsolidationProofs --------------------------
(***************************************************************************)
(* Whatever listings there are and however they are batched, interleaved,  *)
(* repeated and cut off: a result shows the richest listing of its role,   *)
(* has every source that delivered it and none of another role, and is     *)
(* found by any of them, while the search loads and after the final sort.  *)
(*                                                                         *)
(* None of it is inductive.  That an offer is merged with all the offers   *)
(* of its role so far, and with no other, takes that the index and the     *)
(* list agree (IndexInv), which holds until the sort; what is left of it   *)
(* in the list itself (RolesInv) outlives the sort.                        *)
(*                                                                         *)
(* The order of the settled page is by scores, which are numbers because   *)
(* the words of a search are finitely many (RelevanceIsNatural).           *)
(***************************************************************************)
EXTENDS Consolidation, Counting

Result == [offer : Offer, alternates : SUBSET {Identity(o) : o \in Offer}]

ListInv ==
  /\ consolidated \subseteq Offer
  /\ inHand \in Seq(Offer)
  /\ accepted \in Nat
  /\ items \in Seq(Result)
  /\ inHand # <<>> => status = "loading"

\* Both ways: the index finds each key's result, and each result is found by its key.
IndexInv ==
  status = "loading" =>
    /\ dedupIndex = [k \in DOMAIN dedupIndex |-> dedupIndex[k]]
    /\ DOMAIN dedupIndex = {DedupKey(o) : o \in consolidated}
    /\ \A k \in DOMAIN dedupIndex :
         /\ dedupIndex[k] \in DOMAIN items
         /\ DedupKey(items[dedupIndex[k]].offer) = k
    /\ \A n \in DOMAIN items :
         /\ items[n].offer \in consolidated
         /\ dedupIndex[DedupKey(items[n].offer)] = n

\* What RichestIsShown and EverySourceKept say of one result, given its role's offers.
Speaks(result, offers) ==
  /\ \A o \in offers : ~Exceeds(Richness(o), Richness(result.offer))
  /\ Sources(result) = {Identity(o) : o \in offers}
  /\ Identity(result.offer) \notin result.alternates

\* The offers of a role after a step.
RoleNow(o) == {q \in consolidated' : DedupKey(q) = DedupKey(o)}

ConsolidationInv ==
  /\ ListInv
  /\ IndexInv
  /\ \A n \in DOMAIN items : Speaks(items[n], SameRole(items[n].offer))

-----------------------------------------------------------------------------
(* The order of tuples and the merge.                                      *)

LEMMA RichnessIsTuple ==
  ASSUME NEW o \in Offer
  PROVE  Richness(o) \in [1..4 -> Nat]
<1>1. /\ Precedence \in [Provider -> Nat] /\ o.provider \in Provider
      /\ o.low \in Nat /\ o.high \in Nat /\ o.length \in Nat /\ o.id \in Nat
  BY ConsolidationAssumption
<1> QED
  BY <1>1 DEF Richness

LEMMA ExceedsIsLexicographic ==
  ASSUME NEW a \in [1..4 -> Nat], NEW b \in [1..4 -> Nat]
  PROVE  Exceeds(a, b) <=>
           \/ a[1] > b[1]
           \/ a[1] = b[1] /\ a[2] > b[2]
           \/ a[1] = b[1] /\ a[2] = b[2] /\ a[3] > b[3]
           \/ a[1] = b[1] /\ a[2] = b[2] /\ a[3] = b[3] /\ a[4] > b[4]
<1>1. DOMAIN a = {1, 2, 3, 4}
  OBVIOUS
<1>2. 1..1-1 = {} /\ 1..2-1 = {1} /\ 1..3-1 = {1, 2} /\ 1..4-1 = {1, 2, 3}
  OBVIOUS
<1> QED
  BY <1>1, <1>2 DEF Exceeds

LEMMA ExceedsIsTransitive ==
  ASSUME NEW a \in [1..4 -> Nat], NEW b \in [1..4 -> Nat], NEW c \in [1..4 -> Nat]
  PROVE  /\ ~Exceeds(a, a)
         /\ Exceeds(b, a) => ~Exceeds(a, b)
         /\ ~Exceeds(a, b) /\ Exceeds(c, b) => ~Exceeds(a, c)
<1>1. /\ a[1] \in Nat /\ a[2] \in Nat /\ a[3] \in Nat /\ a[4] \in Nat
      /\ b[1] \in Nat /\ b[2] \in Nat /\ b[3] \in Nat /\ b[4] \in Nat
      /\ c[1] \in Nat /\ c[2] \in Nat /\ c[3] \in Nat /\ c[4] \in Nat
  OBVIOUS
<1> QED
  BY <1>1, ExceedsIsLexicographic

LEMMA NewSpeaks ==
  ASSUME NEW o \in Offer
  PROVE  NewResult(o) \in Result /\ NewResult(o).offer = o /\ Speaks(NewResult(o), {o})
<1>1. ~Exceeds(Richness(o), Richness(o))
  BY RichnessIsTuple, ExceedsIsTransitive
<1> QED
  BY <1>1 DEF NewResult, Result, Speaks, Sources

\* merge_results with an offer of the same role.
LEMMA MergeSpeaks ==
  ASSUME NEW current \in Result, NEW o \in Offer, NEW offers \in SUBSET Offer,
         Speaks(current, offers)
  PROVE  LET merged == MergeResults(current, NewResult(o))
         IN /\ merged \in Result
            /\ merged.offer \in {current.offer, o}
            /\ Speaks(merged, offers \cup {o})
<1> DEFINE incoming == NewResult(o)
           merged == MergeResults(current, incoming)
<1>1. incoming = [offer |-> o, alternates |-> {}]
  BY DEF NewResult
<1>2. CASE Exceeds(Richness(o), Richness(current.offer))
  <2>1. /\ merged.offer = o
        /\ merged.alternates = (current.alternates \cup {Identity(current.offer)})
                                  \ {Identity(o)}
        /\ merged = [offer |-> o, alternates |-> merged.alternates]
    BY <1>1, <1>2 DEF MergeResults, PickCanonical
  <2>2. Sources(merged) = Sources(current) \cup {Identity(o)}
    BY <2>1 DEF Sources
  <2>3. \A q \in offers \cup {o} : ~Exceeds(Richness(q), Richness(o))
    <3>1. ASSUME NEW q \in offers
          PROVE  ~Exceeds(Richness(q), Richness(o))
      <4>1. /\ Richness(q) \in [1..4 -> Nat] /\ Richness(o) \in [1..4 -> Nat]
            /\ Richness(current.offer) \in [1..4 -> Nat]
        BY RichnessIsTuple DEF Result
      <4> QED
        BY <4>1, <1>2, ExceedsIsTransitive DEF Speaks
    <3> QED
      BY <3>1, RichnessIsTuple, ExceedsIsTransitive
  <2>4. merged \in Result
    BY <2>1 DEF Result
  <2> QED
    BY <2>1, <2>2, <2>3, <2>4 DEF Speaks
<1>3. CASE ~Exceeds(Richness(o), Richness(current.offer))
  <2>1. /\ merged.offer = current.offer
        /\ merged.alternates = current.alternates \cup
             ({Identity(o)} \ {Identity(current.offer)})
        /\ merged = [offer |-> current.offer, alternates |-> merged.alternates]
    BY <1>1, <1>3 DEF MergeResults, PickCanonical, Result, Speaks
  <2>2. Sources(merged) = Sources(current) \cup {Identity(o)}
    BY <2>1 DEF Sources
  <2>3. merged \in Result
    BY <2>1 DEF Result
  <2> QED
    BY <1>3, <2>1, <2>2, <2>3 DEF Speaks
<1> QED
  BY <1>2, <1>3

-----------------------------------------------------------------------------
(* The actions.                                                            *)

LEMMA TakeBatchKeepsInv ==
  ASSUME ConsolidationInv, NEW p \in Provider, NEW batch \in Batch(p), TakeBatch(p, batch)
  PROVE  ConsolidationInv'
<1>1. batch \in Seq(Offer)
  BY DEF Batch, SeqOf
<1>2. accepted \in Nat /\ MaxCandidates \in Nat
  BY ConsolidationAssumption DEF ConsolidationInv, ListInv
<1> DEFINE remaining == IF accepted < MaxCandidates THEN MaxCandidates - accepted ELSE 0
           most == Min({Len(batch), remaining})
           budgeted == SubSeq(batch, 1, most)
<1>3. remaining \in Nat /\ Len(batch) \in Nat
  BY <1>1, <1>2
<1>4. most \in 0..Len(batch)
  BY <1>3 DEF Min
<1>5. inHand' = budgeted /\ accepted' = accepted + Len(budgeted)
  BY DEF TakeBatch
<1> HIDE DEF most
<1>6. budgeted \in Seq(Offer) /\ Len(budgeted) \in Nat
  BY <1>1, <1>4, SubSeqProperties
<1> HIDE DEF budgeted
<1>7. inHand' \in Seq(Offer) /\ accepted' \in Nat
  BY <1>2, <1>5, <1>6
<1> QED
  BY <1>7 DEF TakeBatch, Idle, ConsolidationInv, ListInv, IndexInv, SameRole

LEMMA SkipNextKeepsInv ==
  ASSUME ConsolidationInv, SkipNext
  PROVE  ConsolidationInv'
<1>1. inHand' \in Seq(Offer)
  BY DEF ConsolidationInv, ListInv, SkipNext
<1> QED
  BY <1>1 DEF SkipNext, ConsolidationInv, ListInv, IndexInv, SameRole

LEMMA ReturnKeepsInv ==
  ASSUME ConsolidationInv, NEW p \in Provider, ProviderReturns(p)
  PROVE  ConsolidationInv'
BY DEF ProviderReturns, Idle, ConsolidationInv, ListInv, IndexInv, SameRole

\* The sort only changes places.
LEMMA SortKeepsInv ==
  ASSUME ConsolidationInv, SortResults
  PROVE  ConsolidationInv'
<1>1. PICK order \in Orders : items' = [n \in DOMAIN items |-> items[order[n]]]
  BY DEF SortResults
<1>2. order \in [DOMAIN items -> DOMAIN items]
  BY DEF Orders, Bijection, Injection
<1>3. items \in Seq(Result)
  BY DEF ConsolidationInv, ListInv
<1>4. /\ items' \in Seq(Result)
      /\ DOMAIN items' = DOMAIN items
      /\ \A n \in DOMAIN items' : items'[n] = items[order[n]] /\ order[n] \in DOMAIN items
  BY <1>1, <1>2, <1>3
<1>5. ListInv' /\ IndexInv'
  BY <1>4 DEF SortResults, Idle, ConsolidationInv, ListInv, IndexInv
<1>6. \A n \in DOMAIN items' : Speaks(items'[n], SameRole(items'[n].offer))
  BY <1>4 DEF ConsolidationInv
<1> QED
  BY <1>5, <1>6 DEF ConsolidationInv, SortResults, SameRole, Speaks

\* An offer of a role there is no result of.
LEMMA AppendKeepsInv ==
  ASSUME ConsolidationInv, ConsolidateNext, DedupKey(Head(inHand)) \notin DOMAIN dedupIndex
  PROVE  ConsolidationInv'
<1> DEFINE o == Head(inHand)
           k == DedupKey(o)
<1>1. /\ o \in Offer /\ inHand' \in Seq(Offer) /\ status = "loading"
      /\ items \in Seq(Result)
  BY DEF ConsolidationInv, ListInv, ConsolidateNext
<1>2. /\ items' = Append(items, NewResult(o)) /\ dedupIndex' = Index(k)
      /\ consolidated' = consolidated \cup {o}
      /\ status' = status /\ accepted' = accepted
  BY DEF ConsolidateNext
<1>3. NewResult(o) \in Result /\ NewResult(o).offer = o /\ Speaks(NewResult(o), {o})
  BY <1>1, NewSpeaks
<1>4. \A q \in consolidated : DedupKey(q) # k
  BY <1>1 DEF ConsolidationInv, IndexInv
<1> HIDE DEF o, k
<1>5. /\ items' \in Seq(Result)
      /\ DOMAIN items' = DOMAIN items \cup {Len(items) + 1}
      /\ Len(items) + 1 \notin DOMAIN items
      /\ items'[Len(items) + 1] = NewResult(o)
      /\ \A n \in DOMAIN items : items'[n] = items[n]
  BY <1>1, <1>2, <1>3, AppendProperties
<1>6. ListInv'
  BY <1>1, <1>2, <1>5 DEF ConsolidationInv, ListInv, ConsolidateNext
<1>7. \A n \in DOMAIN items : items[n].offer \in consolidated /\ DedupKey(items[n].offer) # k
  BY <1>1, <1>4 DEF ConsolidationInv, IndexInv
<1>8. IndexInv'
  <2>1. /\ dedupIndex' = [key \in DOMAIN dedupIndex' |-> dedupIndex'[key]]
        /\ DOMAIN dedupIndex' = DOMAIN dedupIndex \cup {k}
        /\ dedupIndex'[k] = Len(items) + 1
        /\ \A key \in DOMAIN dedupIndex \ {k} : dedupIndex'[key] = dedupIndex[key]
    BY <1>2 DEF Index
  <2>2. DOMAIN dedupIndex' = {DedupKey(q) : q \in consolidated'}
    BY <1>1, <1>2, <2>1 DEF ConsolidationInv, IndexInv, k
  <2>3. ASSUME NEW key \in DOMAIN dedupIndex'
        PROVE  /\ dedupIndex'[key] \in DOMAIN items'
               /\ DedupKey(items'[dedupIndex'[key]].offer) = key
    <3>1. CASE key = k
      BY <3>1, <2>1, <1>3, <1>5 DEF k
    <3>2. CASE key # k
      <4>1. /\ key \in DOMAIN dedupIndex /\ dedupIndex[key] \in DOMAIN items
            /\ DedupKey(items[dedupIndex[key]].offer) = key
        BY <3>2, <2>1, <1>1 DEF ConsolidationInv, IndexInv
      <4> QED
        BY <4>1, <3>2, <2>1, <1>5
    <3> QED
      BY <3>1, <3>2
  <2>4. ASSUME NEW n \in DOMAIN items'
        PROVE  /\ items'[n].offer \in consolidated'
               /\ dedupIndex'[DedupKey(items'[n].offer)] = n
    <3>1. CASE n = Len(items) + 1
      BY <3>1, <2>1, <1>2, <1>3, <1>5 DEF k
    <3>2. CASE n \in DOMAIN items
      <4>1. /\ items[n].offer \in consolidated /\ DedupKey(items[n].offer) \in DOMAIN dedupIndex
            /\ dedupIndex[DedupKey(items[n].offer)] = n
        BY <3>2, <1>1 DEF ConsolidationInv, IndexInv
      <4> QED
        BY <4>1, <3>2, <2>1, <1>2, <1>5, <1>7
    <3> QED
      BY <3>1, <3>2, <1>5
  <2> QED
    BY <2>1, <2>2, <2>3, <2>4 DEF IndexInv
<1>9. ASSUME NEW n \in DOMAIN items'
      PROVE  Speaks(items'[n], RoleNow(items'[n].offer))
  <2>1. CASE n = Len(items) + 1
    <3>1. RoleNow(items'[n].offer) = {o}
      BY <2>1, <1>2, <1>3, <1>4, <1>5 DEF SameRole, RoleNow, k
    <3> QED
      BY <2>1, <3>1, <1>3, <1>5
  <2>2. CASE n \in DOMAIN items
    <3>1. RoleNow(items'[n].offer) = SameRole(items[n].offer)
      BY <2>2, <1>2, <1>5, <1>7 DEF SameRole, RoleNow, k
    <3> QED
      BY <2>2, <3>1, <1>5 DEF ConsolidationInv
  <2> QED
    BY <2>1, <2>2, <1>5
<1> QED
  BY <1>6, <1>8, <1>9 DEF ConsolidationInv, RoleNow, SameRole

\* An offer of a role there is a result of, the one the index names.
LEMMA MergeKeepsInv ==
  ASSUME ConsolidationInv, ConsolidateNext, DedupKey(Head(inHand)) \in DOMAIN dedupIndex
  PROVE  ConsolidationInv'
<1> DEFINE o == Head(inHand)
           k == DedupKey(o)
           m == dedupIndex[k]
           merged == MergeResults(items[m], NewResult(o))
<1>1. /\ o \in Offer /\ inHand' \in Seq(Offer) /\ status = "loading"
      /\ items \in Seq(Result)
  BY DEF ConsolidationInv, ListInv, ConsolidateNext
<1>2. /\ items' = [items EXCEPT ![m] = merged] /\ dedupIndex' = dedupIndex
      /\ consolidated' = consolidated \cup {o}
      /\ status' = status /\ accepted' = accepted
  BY DEF ConsolidateNext
<1>3. m \in DOMAIN items /\ DedupKey(items[m].offer) = k /\ items[m] \in Result
  BY <1>1 DEF ConsolidationInv, IndexInv
<1>4. /\ merged \in Result
      /\ merged.offer \in {items[m].offer, o}
      /\ Speaks(merged, SameRole(items[m].offer) \cup {o})
  <2>1. SameRole(items[m].offer) \in SUBSET Offer
    BY DEF ConsolidationInv, ListInv, SameRole
  <2>2. Speaks(items[m], SameRole(items[m].offer))
    BY <1>3 DEF ConsolidationInv
  <2> QED
    BY <1>1, <1>3, <2>1, <2>2, MergeSpeaks
<1>5. DedupKey(merged.offer) = k
  BY <1>3, <1>4
<1> HIDE DEF o, k, m, merged
<1>6. /\ items' \in Seq(Result)
      /\ DOMAIN items' = DOMAIN items
      /\ items'[m] = merged
      /\ \A n \in DOMAIN items \ {m} : items'[n] = items[n]
  BY <1>1, <1>2, <1>3, <1>4, ExceptSeq
<1>7. ListInv'
  BY <1>1, <1>2, <1>6 DEF ConsolidationInv, ListInv, ConsolidateNext
<1>8. \A n \in DOMAIN items : /\ items[n].offer \in consolidated
                              /\ DedupKey(items[n].offer) = k <=> n = m
  BY <1>1, <1>3 DEF ConsolidationInv, IndexInv, m
<1>9. IndexInv'
  <2>1. DOMAIN dedupIndex' = {DedupKey(q) : q \in consolidated'}
    BY <1>1, <1>2, <1>3, <1>8 DEF ConsolidationInv, IndexInv, k
  <2>2. \A key \in DOMAIN dedupIndex' :
          /\ dedupIndex'[key] \in DOMAIN items'
          /\ DedupKey(items'[dedupIndex'[key]].offer) = key
    BY <1>1, <1>2, <1>3, <1>5, <1>6, <1>8 DEF ConsolidationInv, IndexInv
  <2>3. \A n \in DOMAIN items' :
          /\ items'[n].offer \in consolidated'
          /\ dedupIndex'[DedupKey(items'[n].offer)] = n
    BY <1>1, <1>2, <1>3, <1>4, <1>5, <1>6, <1>8 DEF ConsolidationInv, IndexInv, m
  <2> QED
    BY <1>1, <1>2, <2>1, <2>2, <2>3 DEF ConsolidationInv, IndexInv
<1>10. ASSUME NEW n \in DOMAIN items'
       PROVE  Speaks(items'[n], RoleNow(items'[n].offer))
  <2>1. CASE n = m
    <3>1. RoleNow(items'[n].offer) = SameRole(items[m].offer) \cup {o}
      BY <2>1, <1>2, <1>3, <1>5, <1>6 DEF SameRole, RoleNow, k
    <3> QED
      BY <2>1, <3>1, <1>4, <1>6
  <2>2. CASE n # m
    <3>1. RoleNow(items'[n].offer) = SameRole(items[n].offer)
      BY <2>2, <1>2, <1>6, <1>8 DEF SameRole, RoleNow, k
    <3> QED
      BY <2>2, <3>1, <1>6 DEF ConsolidationInv
  <2> QED
    BY <2>1, <2>2
<1> QED
  BY <1>7, <1>9, <1>10 DEF ConsolidationInv, RoleNow, SameRole

-----------------------------------------------------------------------------
LEMMA InitSpeaks == Init => ConsolidationInv
BY DEF Init, ConsolidationInv, ListInv, IndexInv

LEMMA NextKeepsInv ==
  ASSUME ConsolidationInv, [Next]_cvars
  PROVE  ConsolidationInv'
<1>1. CASE Next
  BY <1>1, TakeBatchKeepsInv, SkipNextKeepsInv, ReturnKeepsInv, SortKeepsInv,
     AppendKeepsInv, MergeKeepsInv DEF Next
<1>2. CASE UNCHANGED cvars
  BY <1>2 DEF cvars, ConsolidationInv, ListInv, IndexInv, SameRole, Speaks
<1> QED
  BY <1>1, <1>2

LEMMA InvSpeaks ==
  ASSUME ConsolidationInv
  PROVE  RichestIsShown /\ EverySourceKept
BY DEF ConsolidationInv, Speaks, RichestIsShown, EverySourceKept

\* _consolidate_items, merge_results and _sort, for any listings in any order: no result
\* shows a listing that is less rich than another of its role.
THEOREM AlwaysShowsRichest == Spec => []RichestIsShown
BY InitSpeaks, NextKeepsInv, InvSpeaks, PTL DEF Spec

\* The same for the sources: each that delivered the role is kept, once, and none that
\* did not.
THEOREM AlwaysKeepsSources == Spec => []EverySourceKept
BY InitSpeaks, NextKeepsInv, InvSpeaks, PTL DEF Spec
-----------------------------------------------------------------------------
(* What the list says of itself, the sort included.                        *)

\* Every role that was delivered has exactly one result, and the settled results are in
\* the order of their keys.  Unlike IndexInv it outlives the sort.
RolesInv ==
  /\ \A n \in DOMAIN items : items[n].offer \in consolidated
  /\ \A o \in consolidated : \E n \in DOMAIN items : DedupKey(items[n].offer) = DedupKey(o)
  /\ \A m, n \in DOMAIN items :
       DedupKey(items[m].offer) = DedupKey(items[n].offer) => m = n

KeyOf(result) == SortKey(sort, result.offer)

SortedInv ==
  status = "settled" =>
    \A m, n \in DOMAIN items :
      m < n => Exceeds(KeyOf(items[m]), KeyOf(items[n])) \/ KeyOf(items[m]) = KeyOf(items[n])

StatusInv == status \in {"loading", "settled"}

ShownInv == RolesInv /\ SortedInv /\ StatusInv

\* While the search loads it is what the index says.
LEMMA IndexGivesRoles ==
  ASSUME ConsolidationInv', status' = "loading"
  PROVE  RolesInv'
<1>1. ASSUME NEW o \in consolidated'
      PROVE  \E n \in DOMAIN items' : DedupKey(items'[n].offer) = DedupKey(o)
  <2>1. DedupKey(o) \in DOMAIN dedupIndex'
    BY DEF ConsolidationInv, IndexInv
  <2> QED
    BY <2>1 DEF ConsolidationInv, IndexInv
<1>2. /\ \A n \in DOMAIN items' : items'[n].offer \in consolidated'
      /\ \A n \in DOMAIN items' : dedupIndex'[DedupKey(items'[n].offer)] = n
  BY DEF ConsolidationInv, IndexInv
<1>3. \A m, n \in DOMAIN items' :
        DedupKey(items'[m].offer) = DedupKey(items'[n].offer) => m = n
  BY <1>2
<1> QED
  BY <1>1, <1>2, <1>3 DEF RolesInv

\* _sort shows every result again, once.
LEMMA SortShowsAll ==
  ASSUME ConsolidationInv, ShownInv, SortResults
  PROVE  ShownInv'
<1>1. PICK order \in Orders : items' = [n \in DOMAIN items |-> items[order[n]]]
  BY DEF SortResults
<1>2. /\ order \in [DOMAIN items -> DOMAIN items]
      /\ \A m, n \in DOMAIN items : order[m] = order[n] => m = n
      /\ \A m \in DOMAIN items : \E n \in DOMAIN items : order[n] = m
      /\ \A m, n \in DOMAIN items : m < n => Ahead(order[m], order[n])
  BY DEF Orders, Bijection, Injection, Surjection, IsInjective
<1>3. /\ DOMAIN items' = DOMAIN items
      /\ \A n \in DOMAIN items : items'[n] = items[order[n]] /\ order[n] \in DOMAIN items
      /\ consolidated' = consolidated /\ sort' = sort /\ status' = "settled"
  BY <1>1, <1>2 DEF SortResults
<1>4. RolesInv'
  <2>1. \A n \in DOMAIN items' : items'[n].offer \in consolidated'
    BY <1>3 DEF ShownInv, RolesInv
  <2>2. ASSUME NEW o \in consolidated'
        PROVE  \E n \in DOMAIN items' : DedupKey(items'[n].offer) = DedupKey(o)
    <3>1. PICK m \in DOMAIN items : DedupKey(items[m].offer) = DedupKey(o)
      BY <1>3 DEF ShownInv, RolesInv
    <3>2. PICK n \in DOMAIN items : order[n] = m
      BY <1>2
    <3> QED
      BY <3>1, <3>2, <1>3
  <2>3. ASSUME NEW m \in DOMAIN items', NEW n \in DOMAIN items',
               DedupKey(items'[m].offer) = DedupKey(items'[n].offer)
        PROVE  m = n
    <3>1. order[m] = order[n]
      BY <2>3, <1>3 DEF ShownInv, RolesInv
    <3> QED
      BY <3>1, <1>2, <1>3
  <2> QED
    BY <2>1, <2>2, <2>3 DEF RolesInv
<1>5. SortedInv'
  <2> SUFFICES ASSUME NEW m \in DOMAIN items', NEW n \in DOMAIN items', m < n
               PROVE  \/ Exceeds(KeyOf(items[order[m]]), KeyOf(items[order[n]]))
                      \/ KeyOf(items[order[m]]) = KeyOf(items[order[n]])
    BY <1>3 DEF SortedInv, KeyOf
  <2>1. Ahead(order[m], order[n])
    BY <1>2, <1>3
  <2> QED
    BY <2>1 DEF Ahead, KeyOf
<1> QED
  BY <1>3, <1>4, <1>5 DEF ShownInv, StatusInv

LEMMA NextKeepsShown ==
  ASSUME ConsolidationInv, ConsolidationInv', ShownInv, [Next]_cvars
  PROVE  ShownInv'
<1>1. CASE SortResults
  BY <1>1, SortShowsAll
<1>2. CASE status = "loading" /\ status' = status
  <2>1. RolesInv'
    <3>1. ConsolidationInv' /\ status' = "loading"
      BY <1>2
    <3> QED
      BY <3>1, IndexGivesRoles
  <2> QED
    BY <1>2, <2>1 DEF ShownInv, SortedInv, StatusInv
<1>3. CASE UNCHANGED cvars
  BY <1>3 DEF cvars, ShownInv, RolesInv, SortedInv, StatusInv, KeyOf
<1>4. Next => SortResults \/ (status = "loading" /\ status' = status)
  BY DEF Next, TakeBatch, ProviderReturns, SkipNext, ConsolidateNext, Idle,
         ConsolidationInv, ListInv
<1> QED
  BY <1>1, <1>2, <1>3, <1>4

LEMMA InitShows == Init => ShownInv
BY DEF Init, ShownInv, RolesInv, SortedInv, StatusInv

LEMMA AlwaysShown == Spec => [](ConsolidationInv /\ ShownInv)
<1>1. ConsolidationInv /\ ShownInv /\ [Next]_cvars => ConsolidationInv' /\ ShownInv'
  BY NextKeepsInv, NextKeepsShown
<1> QED
  BY <1>1, InitSpeaks, InitShows, PTL DEF Spec

\* A result that carries a source is the result of the source's role, where there is one.
LEMMA CarriedByRole ==
  ASSUME ConsolidationInv, NEW o \in consolidated, KeepsRole(Identity(o)),
         NEW n \in DOMAIN items, Identity(o) \in Sources(items[n])
  PROVE  DedupKey(items[n].offer) = DedupKey(o)
<1>1. PICK q \in SameRole(items[n].offer) : Identity(q) = Identity(o)
  BY DEF ConsolidationInv, Speaks
<1>2. q \in consolidated /\ DedupKey(q) = DedupKey(items[n].offer)
  BY <1>1 DEF SameRole
<1> QED
  BY <1>1, <1>2 DEF KeepsRole

LEMMA ShownResolves ==
  ASSUME ConsolidationInv, ShownInv
  PROVE  AnySourceResolves
<1> SUFFICES ASSUME NEW o \in consolidated, KeepsRole(Identity(o))
             PROVE  /\ Resolved(Identity(o)) # NotFound
                    /\ DedupKey(items[Resolved(Identity(o))].offer) = DedupKey(o)
  BY DEF AnySourceResolves
<1> DEFINE found == {n \in DOMAIN items : Carries(items[n], Identity(o))}
<1>1. PICK n \in DOMAIN items : DedupKey(items[n].offer) = DedupKey(o)
  BY DEF ShownInv, RolesInv
<1>2. n \in found
  <2>1. o \in SameRole(items[n].offer)
    BY <1>1 DEF SameRole
  <2> QED
    BY <2>1 DEF Carries, ConsolidationInv, Speaks
<1>3. \A m \in found : DedupKey(items[m].offer) = DedupKey(o)
  BY CarriedByRole DEF Carries
<1>4. \A m \in found : m = n
  BY <1>1, <1>3 DEF ShownInv, RolesInv
<1>5. found = {n}
  BY <1>2, <1>4
<1>6. n \in Nat /\ n # 0
  BY DEF ConsolidationInv, ListInv
<1> HIDE DEF found
<1>7. Min(found) = n
  BY <1>5, <1>6 DEF Min
<1>8. Resolved(Identity(o)) = Min(found)
  BY <1>5 DEF Resolved, found
<1> QED
  BY <1>1, <1>6, <1>7, <1>8 DEF NotFound

\* resolve_job, while the search loads and after _sort has moved every result: whichever
\* source of a role a client names, it gets the result of that role.
THEOREM EverySourceAlwaysResolves == Spec => []AnySourceResolves
BY AlwaysShown, ShownResolves, PTL

-----------------------------------------------------------------------------
(* The order of the settled page.                                          *)

LEMMA SameKeySameListing ==
  ASSUME NEW o \in Offer, NEW q \in Offer, SortKey(sort, o) = SortKey(sort, q)
  PROVE  Identity(o) = Identity(q)
<1>1. /\ o.provider \in Provider /\ q.provider \in Provider
      /\ o.id \in Nat /\ q.id \in Nat
      /\ Alphabetical[o.provider] \in Nat /\ Alphabetical[q.provider] \in Nat
  BY ConsolidationAssumption
<1>2. Alphabetical[o.provider] = Alphabetical[q.provider] /\ o.id = q.id
  <2>1. CASE sort = "relevance"
    <3>1. /\ -Alphabetical[o.provider] = -Alphabetical[q.provider]
          /\ -o.id = -q.id
      BY <2>1 DEF SortKey
    <3> QED
      BY <1>1, <3>1
  <2>2. CASE sort # "relevance"
    BY <2>2 DEF SortKey
  <2> QED
    BY <2>1, <2>2
<1>3. o.provider = q.provider
  BY <1>1, <1>2, ConsolidationAssumption
<1> QED
  BY <1>2, <1>3 DEF Identity

LEMMA SortedIsFixed ==
  ASSUME ConsolidationInv, ShownInv
  PROVE  SettledOrderIsFixed
<1> DEFINE best == {o \in consolidated :
                      \A q \in SameRole(o) : ~Exceeds(Richness(q), Richness(o))}
<1> SUFFICES ASSUME status = "settled",
                    \A o \in consolidated : KeepsRole(Identity(o)),
                    \A o, q \in best : DedupKey(o) = DedupKey(q) => o = q
             PROVE  /\ {items[n].offer : n \in DOMAIN items} = best
                    /\ \A m, n \in DOMAIN items :
                         m < n => Exceeds(SortKey(sort, items[m].offer),
                                          SortKey(sort, items[n].offer))
  BY DEF SettledOrderIsFixed
<1>1. \A n \in DOMAIN items : items[n].offer \in best
  BY DEF ConsolidationInv, Speaks, ShownInv, RolesInv
<1>2. ASSUME NEW o \in best
      PROVE  \E n \in DOMAIN items : items[n].offer = o
  <2>1. PICK n \in DOMAIN items : DedupKey(items[n].offer) = DedupKey(o)
    BY DEF ShownInv, RolesInv
  <2> QED
    BY <2>1, <1>1
<1>3. ASSUME NEW m \in DOMAIN items, NEW n \in DOMAIN items, m < n
      PROVE  Exceeds(SortKey(sort, items[m].offer), SortKey(sort, items[n].offer))
  <2> SUFFICES ASSUME SortKey(sort, items[m].offer) = SortKey(sort, items[n].offer)
               PROVE  FALSE
    BY <1>3 DEF ShownInv, SortedInv, KeyOf
  <2>1. /\ items[m].offer \in consolidated /\ items[n].offer \in consolidated
        /\ items[m].offer \in Offer /\ items[n].offer \in Offer
    BY DEF ConsolidationInv, ListInv, ShownInv, RolesInv
  <2>2. Identity(items[m].offer) = Identity(items[n].offer)
    BY <2>1, SameKeySameListing
  <2>3. DedupKey(items[m].offer) = DedupKey(items[n].offer)
    BY <2>1, <2>2 DEF KeepsRole
  <2>4. m = n
    BY <2>3 DEF ShownInv, RolesInv
  <2>5. m \in Nat
    BY DEF ConsolidationInv, ListInv
  <2> QED
    BY <1>3, <2>4, <2>5
<1> QED
  BY <1>1, <1>2, <1>3

\* _sort: the settled page is the best offer of every role, in the order of their keys,
\* whatever order the batches came in.
THEOREM SettledOrderIsAlwaysFixed == Spec => []SettledOrderIsFixed
BY AlwaysShown, SortedIsFixed, PTL

\* The action of PlacesStayUntilSorted.
PlacesStay ==
  status' = "loading" =>
    \A n \in DOMAIN items :
      /\ n \in DOMAIN items'
      /\ DedupKey(items'[n].offer) = DedupKey(items[n].offer)
      /\ Sources(items[n]) \subseteq Sources(items'[n])

LEMMA FoldKeepsPlaces ==
  ASSUME ConsolidationInv, ConsolidateNext
  PROVE  PlacesStay
<1> DEFINE o == Head(inHand)
           k == DedupKey(o)
           m == dedupIndex[k]
<1>1. o \in Offer /\ status = "loading" /\ items \in Seq(Result)
  BY DEF ConsolidationInv, ListInv, ConsolidateNext
<1>2. CASE k \notin DOMAIN dedupIndex
  <2>1. items' = Append(items, NewResult(o))
    BY <1>2 DEF ConsolidateNext
  <2>2. \A n \in DOMAIN items : n \in DOMAIN items' /\ items'[n] = items[n]
    BY <2>1, <1>1
  <2> QED
    BY <2>2 DEF PlacesStay
<1>3. CASE k \in DOMAIN dedupIndex
  <2> DEFINE merged == MergeResults(items[m], NewResult(o))
  <2>1. items' = [items EXCEPT ![m] = merged]
    BY <1>3 DEF ConsolidateNext
  <2>2. /\ m \in DOMAIN items /\ DedupKey(items[m].offer) = k /\ items[m] \in Result
        /\ SameRole(items[m].offer) \in SUBSET Offer
        /\ Speaks(items[m], SameRole(items[m].offer))
    BY <1>1, <1>3 DEF ConsolidationInv, IndexInv, ListInv, SameRole
  <2>3. /\ merged.offer \in {items[m].offer, o}
        /\ Speaks(merged, SameRole(items[m].offer) \cup {o})
    BY <1>1, <2>2, MergeSpeaks
  <2>4. /\ DedupKey(merged.offer) = DedupKey(items[m].offer)
        /\ Sources(items[m]) \subseteq Sources(merged)
    BY <2>2, <2>3 DEF Speaks
  <2> HIDE DEF merged, m
  <2>5. \A n \in DOMAIN items : n \in DOMAIN items'
                                /\ items'[n] = IF n = m THEN merged ELSE items[n]
    BY <2>1, <2>2
  <2> QED
    BY <2>4, <2>5 DEF PlacesStay
<1> QED
  BY <1>2, <1>3

LEMMA NextKeepsPlaces ==
  ASSUME ConsolidationInv, [Next]_cvars
  PROVE  PlacesStay
<1>1. CASE ConsolidateNext
  BY <1>1, FoldKeepsPlaces
<1>2. CASE UNCHANGED items
  BY <1>2 DEF PlacesStay
<1>3. CASE SortResults
  BY <1>3 DEF SortResults, PlacesStay
<1> QED
  BY <1>1, <1>2, <1>3 DEF Next, TakeBatch, ProviderReturns, SkipNext, cvars

\* _consolidate_items: until the final sort a result stays where it is, is of the role it
\* was of, and loses no source, so that page() slices a list that only grows.
THEOREM PlacesAlwaysStay == Spec => PlacesStayUntilSorted
<1>1. ConsolidationInv /\ [Next]_cvars => [PlacesStay]_cvars
  BY NextKeepsPlaces
<1>2. Spec => [][PlacesStay]_cvars
  BY <1>1, InitSpeaks, NextKeepsInv, PTL DEF Spec
<1> QED
  BY <1>2 DEF PlacesStayUntilSorted, PlacesStay

-----------------------------------------------------------------------------
(* The words of a normalized title.                                        *)

\* normalize_title keeps every word that tells a level, in brackets or not.
LEMMA TitleKeepsRoleWords ==
  ASSUME NEW o \in Offer
  PROVE  ToSet(NormalizedTitle(o.title)) \cap RoleWord = RoleWords(o)
<1> DEFINE parts == o.title
           W == UNION {ToSet(parts[n].words) : n \in DOMAIN parts}
           Kept(part) == IF part.within = "plain" \/ (~IsGenderMarker(part) /\ IsMeaningful(part))
                         THEN part.words ELSE <<>>
           s == [n \in DOMAIN parts |-> Kept(parts[n])]
<1>1. /\ parts \in Seq(ToSet(parts))
      /\ \A n \in DOMAIN parts : parts[n].words \in Seq(ToSet(parts[n].words))
      /\ RoleWord \cap GenderWord = {}
  BY ConsolidationAssumption
<1>2. ASSUME NEW n \in DOMAIN parts
      PROVE  s[n] \in Seq(W) /\ ToSet(s[n]) \cap RoleWord = ToSet(parts[n].words) \cap RoleWord
  <2>1. ToSet(parts[n].words) \subseteq W
    OBVIOUS
  <2>2. parts[n].words \in Seq(W)
    BY <1>1, <2>1, SeqMonotonic
  <2>3. <<>> \in Seq(W) /\ ToSet(<<>>) = {}
    BY DEF ToSet
  <2>4. CASE s[n] = parts[n].words
    BY <2>2, <2>4
  <2>5. CASE s[n] = <<>> /\ (IsGenderMarker(parts[n]) \/ ~IsMeaningful(parts[n]))
    <3>1. ToSet(parts[n].words) \cap RoleWord = {}
      BY <1>1, <2>5 DEF IsGenderMarker, IsMeaningful
    <3> QED
      BY <2>3, <2>5, <3>1
  <2> QED
    BY <2>4, <2>5
<1>3. s \in Seq(Seq(W)) /\ DOMAIN s = DOMAIN parts
  <2>1. Len(parts) \in Nat /\ DOMAIN parts = 1..Len(parts)
    BY <1>1
  <2> HIDE DEF parts, W, s
  <2>2. s = [n \in 1..Len(parts) |-> s[n]]
    BY <2>1 DEF s
  <2> QED
    BY <1>2, <2>1, <2>2
<1>4. ToSet(FlattenSeq(s)) = UNION {ToSet(s[n]) : n \in DOMAIN s}
  <2> HIDE DEF W, s
  <2> QED
    BY <1>3, FlattenKeepsWords
<1>5. NormalizedTitle(parts) = FlattenSeq(s)
  BY DEF NormalizedTitle
<1> HIDE DEF s
<1>6. (UNION {ToSet(s[n]) : n \in DOMAIN parts}) \cap RoleWord
        = (UNION {ToSet(parts[n].words) : n \in DOMAIN parts}) \cap RoleWord
  <2> DEFINE A == {ToSet(s[n]) : n \in DOMAIN parts}
             B == {ToSet(parts[n].words) : n \in DOMAIN parts}
  <2>1. ASSUME NEW n \in DOMAIN parts, NEW w \in RoleWord
        PROVE  w \in ToSet(s[n]) <=> w \in ToSet(parts[n].words)
    BY <1>2
  <2>2. ASSUME NEW w \in RoleWord
        PROVE  w \in UNION A <=> w \in UNION B
    BY <2>1
  <2>3. (UNION A) \cap RoleWord = (UNION B) \cap RoleWord
    <3> HIDE DEF A, B
    <3> QED
      BY <2>2
  <2> QED
    BY <2>3
<1> QED
  BY <1>3, <1>4, <1>5, <1>6 DEF RoleWords

LEMMA SameRoleSameLevel ==
  ASSUME NEW o \in Offer, NEW q \in Offer, DedupKey(o) = DedupKey(q), ~LikeNoOther(o)
  PROVE  RoleWords(o) = RoleWords(q) /\ o.countries = q.countries
<1>1. "company" \in DOMAIN DedupKey(o)
  BY DEF DedupKey
<1>2. ~LikeNoOther(q)
  <2> SUFFICES ASSUME LikeNoOther(q)
               PROVE  FALSE
    OBVIOUS
  <2>1. DOMAIN DedupKey(q) = {"unique"}
    BY DEF DedupKey
  <2> QED
    BY <1>1, <2>1
<1>3. /\ DedupKey(o).title = NormalizedTitle(o.title)
      /\ DedupKey(q).title = NormalizedTitle(q.title)
      /\ DedupKey(o).eligibility = EligibilityToken(o)
      /\ DedupKey(q).eligibility = EligibilityToken(q)
  BY <1>2 DEF DedupKey
<1>4. EligibilityToken(o).countries = EligibilityToken(q).countries
  BY <1>3
<1> QED
  BY <1>3, <1>4, TitleKeepsRoleWords DEF EligibilityToken

LEMMA RolesApart ==
  ASSUME ConsolidationInv, ShownInv
  PROVE  DistinctRolesStayApart
<1> SUFFICES ASSUME NEW n \in DOMAIN items, NEW o \in consolidated,
                    Identity(o) \in Sources(items[n]), KeepsRole(Identity(o)),
                    ~LikeNoOther(o)
             PROVE  /\ RoleWords(o) = RoleWords(items[n].offer)
                    /\ o.countries = items[n].offer.countries
  BY DEF DistinctRolesStayApart
<1>1. o \in Offer /\ items[n].offer \in Offer
  BY DEF ConsolidationInv, ListInv, ShownInv, RolesInv
<1>2. DedupKey(items[n].offer) = DedupKey(o)
  BY CarriedByRole
<1> QED
  BY <1>1, <1>2, SameRoleSameLevel

\* derive_dedup_key and merge_results: whatever the titles say, in brackets or not, what is
\* listed under one result asks for the same level and hires in the same countries.
THEOREM DistinctRolesAlwaysApart == Spec => []DistinctRolesStayApart
BY AlwaysShown, RolesApart, PTL

-----------------------------------------------------------------------------
(* What SettledOrderIsFixed says leaves one list.                          *)

LEMMA KeysAreOrdered ==
  ASSUME NEW a \in [1..3 -> Int], NEW b \in [1..3 -> Int], Exceeds(a, b)
  PROVE  ~Exceeds(b, a) /\ a # b
<1>1. /\ a[1] \in Int /\ a[2] \in Int /\ a[3] \in Int
      /\ b[1] \in Int /\ b[2] \in Int /\ b[3] \in Int
      /\ DOMAIN a = {1, 2, 3} /\ DOMAIN b = {1, 2, 3}
      /\ 1..1-1 = {} /\ 1..2-1 = {1} /\ 1..3-1 = {1, 2}
  OBVIOUS
<1> DEFINE Later(x, y) == \/ x[1] > y[1]
                          \/ x[1] = y[1] /\ x[2] > y[2]
                          \/ x[1] = y[1] /\ x[2] = y[2] /\ x[3] > y[3]
<1>2. (Exceeds(a, b) <=> Later(a, b)) /\ (Exceeds(b, a) <=> Later(b, a))
  BY <1>1 DEF Exceeds
<1>3. Later(a, b) => ~Later(b, a) /\ a # b
  BY <1>1
<1> QED
  BY <1>2, <1>3

\* Each comes before all that follow it.
InOrder(before, list) ==
  \A m, n \in DOMAIN list : m < n => <<list[m], list[n]>> \in before

Asymmetric(before) == \A a, b : <<a, b>> \in before => <<b, a>> \notin before

LEMMA ListFacts ==
  ASSUME NEW S, NEW list \in Seq(S)
  PROVE  /\ Len(list) \in Nat /\ DOMAIN list = 1..Len(list)
         /\ \A n \in DOMAIN list : n \in Nat /\ n >= 1 /\ n <= Len(list) /\ list[n] \in S
OBVIOUS

\* Where two lists first differ the other one is ahead.
LEMMA FirstDifference ==
  ASSUME NEW S, NEW before, NEW one \in Seq(S), NEW other \in Seq(S), Asymmetric(before),
         ToSet(one) \subseteq ToSet(other), InOrder(before, one), InOrder(before, other),
         NEW i \in DOMAIN one, i \in DOMAIN other, one[i] # other[i],
         \A m \in 1..i - 1 : one[m] = other[m]
  PROVE  <<other[i], one[i]>> \in before
<1>1. PICK j \in DOMAIN other : one[i] = other[j]
  BY DEF ToSet
<1>2. /\ i \in Nat /\ j \in Nat /\ i >= 1 /\ j >= 1 /\ i <= Len(one)
      /\ Len(one) \in Nat /\ DOMAIN one = 1..Len(one)
  BY ListFacts
<1>3. ~(j < i)
  <2> SUFFICES ASSUME j < i
               PROVE  FALSE
    OBVIOUS
  <2>1. j \in 1..i - 1 /\ j \in DOMAIN one
    BY <1>2
  <2>2. one[j] = one[i]
    BY <1>1, <2>1
  <2>3. <<one[j], one[i]>> \in before
    BY <2>1 DEF InOrder
  <2> QED
    BY <2>2, <2>3 DEF Asymmetric
<1>4. i < j
  BY <1>1, <1>2, <1>3
<1>5. <<other[i], other[j]>> \in before
  BY <1>4 DEF InOrder
<1> QED
  BY <1>1, <1>5

LEMMA NotLonger ==
  ASSUME NEW S, NEW before, NEW one \in Seq(S), NEW other \in Seq(S), Asymmetric(before),
         ToSet(other) \subseteq ToSet(one), InOrder(before, other),
         \A n \in DOMAIN one \cap DOMAIN other : one[n] = other[n]
  PROVE  Len(other) <= Len(one)
<1> SUFFICES ASSUME ~(Len(other) <= Len(one))
             PROVE  FALSE
  OBVIOUS
<1> DEFINE n == Len(one) + 1
<1>1. /\ Len(one) \in Nat /\ DOMAIN one = 1..Len(one)
      /\ Len(other) \in Nat /\ DOMAIN other = 1..Len(other)
  BY ListFacts
<1>2. n \in DOMAIN other
  BY <1>1
<1>3. PICK k \in DOMAIN one : other[n] = one[k]
  BY <1>2 DEF ToSet
<1>4. k \in DOMAIN other /\ k < n
  BY <1>1, <1>2
<1>5. other[k] = other[n]
  BY <1>3, <1>4
<1>6. <<other[k], other[n]>> \in before
  BY <1>2, <1>4 DEF InOrder
<1> HIDE DEF n
<1> QED
  BY <1>5, <1>6 DEF Asymmetric

LEMMA OneListInOrder ==
  ASSUME NEW S, NEW before, NEW one \in Seq(S), NEW other \in Seq(S), Asymmetric(before),
         ToSet(one) = ToSet(other), InOrder(before, one), InOrder(before, other)
  PROVE  one = other
<1> DEFINE Bad == {n \in DOMAIN one \cap DOMAIN other : one[n] # other[n]}
<1>0. /\ Len(one) \in Nat /\ DOMAIN one = 1..Len(one)
      /\ Len(other) \in Nat /\ DOMAIN other = 1..Len(other)
  BY ListFacts
<1>1. Bad = {}
  <2> SUFFICES ASSUME Bad # {}
               PROVE  FALSE
    OBVIOUS
  <2>1. PICK i \in Bad : \A k \in Bad : i <= k
    <3>1. Bad \in SUBSET Nat
      BY <1>0
    <3> HIDE DEF Bad
    <3> QED
      BY <3>1, LeastNumber
  <2>2. i \in DOMAIN one /\ i \in DOMAIN other /\ one[i] # other[i] /\ i \in Nat
    BY <1>0, <2>1
  <2>3. \A m \in 1..i - 1 : one[m] = other[m]
    <3> SUFFICES ASSUME NEW m \in 1..i - 1
                 PROVE  one[m] = other[m]
      OBVIOUS
    <3>1. m \in DOMAIN one \cap DOMAIN other /\ ~(i <= m)
      BY <1>0, <2>2
    <3> QED
      BY <2>1, <3>1
  <2>4. <<other[i], one[i]>> \in before
    BY <2>2, <2>3, FirstDifference
  <2>5. <<one[i], other[i]>> \in before
    BY <2>2, <2>3, FirstDifference, SMTT(30)
  <2> QED
    BY <2>4, <2>5 DEF Asymmetric
<1>2. \A n \in DOMAIN one \cap DOMAIN other : one[n] = other[n]
  BY <1>1
<1>3. Len(other) <= Len(one)
  BY <1>2, NotLonger
<1>4. Len(one) <= Len(other)
  BY <1>2, NotLonger
<1>5. Len(one) = Len(other)
  <2> DEFINE a == Len(one)
             b == Len(other)
  <2>1. a \in Nat /\ b \in Nat /\ a <= b /\ b <= a
    BY <1>0, <1>3, <1>4
  <2> HIDE DEF a, b
  <2>2. a = b
    BY <2>1
  <2> QED
    BY <2>2 DEF a, b
<1>6. \A n \in 1..Len(one) : one[n] = other[n]
  BY <1>0, <1>2, <1>5
<1> QED
  BY <1>5, <1>6, SeqEqual

-----------------------------------------------------------------------------
(* What listings score.                                                    *)

LEMMA PowersArePositive ==
  ASSUME NEW n \in Nat
  PROVE  2 ^ n \in Nat \ {0}
<1>1. IsFiniteSet(1..n) /\ Cardinality(1..n) = n
  BY FS_Interval
<1>2. IsFiniteSet(SUBSET (1..n)) /\ Cardinality(SUBSET (1..n)) = 2 ^ Cardinality(1..n)
  BY <1>1, FS_SUBSET
<1>3. Cardinality(SUBSET (1..n)) \in Nat
  BY <1>2, FS_CardinalityType
<1>4. Cardinality(SUBSET (1..n)) # 0
  <2>1. SUBSET (1..n) # {}
    OBVIOUS
  <2> QED
    BY <1>2, <2>1, FS_EmptySet
<1> QED
  BY <1>1, <1>2, <1>3, <1>4

\* Each term has one token at most.
LEMMA TokensAreFew ==
  ASSUME NEW terms, IsFiniteSet(terms)
  PROVE  IsFiniteSet(UNION {Tokens(term) : term \in terms})
<1> DEFINE f == [term \in terms |-> Tokens(term)]
           T == {Tokens(term) : term \in terms}
<1>1. f \in Surjection(terms, T)
  BY DEF Surjection
<1>2. IsFiniteSet(T)
  <2> HIDE DEF f, T
  <2> QED
    BY <1>1, FS_Surjection
<1>3. \A t \in T : IsFiniteSet(t)
  BY FS_EmptySet, FS_Singleton, ZenonT(60) DEF Tokens
<1> HIDE DEF T
<1>4. IsFiniteSet(UNION T)
  BY <1>2, <1>3, FS_UNION
<1> QED
  BY <1>4 DEF T

LEMMA QueryAndSkillsAreFew == IsFiniteSet(QueryTokens) /\ IsFiniteSet(SkillTokens)
<1>1. IsFiniteSet(ToSet(Filters.query))
  <2> DEFINE q == Filters.query
  <2>1. q \in Seq(ToSet(q))
    BY RankingAssumption
  <2>2. Len(q) \in Nat /\ DOMAIN q = 1..Len(q)
    BY <2>1
  <2>3. IsFiniteSet(DOMAIN q)
    BY <2>2, FS_Interval
  <2>4. q \in Surjection(DOMAIN q, ToSet(q))
    BY <2>1 DEF Surjection, ToSet
  <2> HIDE DEF q
  <2>5. IsFiniteSet(ToSet(q))
    BY <2>3, <2>4, FS_Surjection
  <2> QED
    BY <2>5 DEF q
<1>2. IsFiniteSet(Skills)
  BY RankingAssumption
<1>3. IsFiniteSet(UNION {Tokens(term) : term \in ToSet(Filters.query)})
  BY <1>1, TokensAreFew
<1>4. IsFiniteSet(UNION {Tokens(term) : term \in Skills})
  BY <1>2, TokensAreFew
<1> QED
  BY <1>3, <1>4 DEF QueryTokens, SkillTokens

\* What MapThenSumSet makes of natural numbers: f[x] stands for what is added for x.
LEMMA TotalIsNatural ==
  ASSUME NEW S, IsFiniteSet(S), NEW f \in [S -> Nat]
  PROVE  (CHOOSE g : Sums(g, f, S))[S] \in Nat
<1>1. PICK h : Sums(h, f, S)
  BY SomeFunctionSums
<1> DEFINE g == CHOOSE k : Sums(k, f, S)
<1>2. Sums(g, f, S)
  BY <1>1
<1> HIDE DEF g
<1>3. g[S] \in Nat
  BY <1>2, SumsWithout
<1> QED
  BY <1>3 DEF g

LEMMA FieldWeightIsNatural ==
  ASSUME NEW token, NEW o, NEW weights, IsFiniteSet(DOMAIN weights),
         \A field \in DOMAIN weights : weights[field] \in Nat
  PROVE  FieldWeight(token, o, weights) \in Nat
<1> DEFINE S == DOMAIN weights
           Adds(field) == IF token \in FieldTokens(o)[field] THEN weights[field] ELSE 0
           f == [field \in S |-> Adds(field)]
           G(g) == g = [s \in SUBSET S |-> IF s = {} THEN 0 ELSE
                          Adds(AnyOf(s)) + g[s \ {AnyOf(s)}]]
<1>1. FieldWeight(token, o, weights) = (CHOOSE g : G(g))[S]
  BY DEF FieldWeight, MapThenSumSet, MapThenFoldSet, AnyOf
<1>2. \A field \in S : Adds(field) \in Nat /\ f[field] = Adds(field)
  OBVIOUS
<1>3. f \in [S -> Nat]
  BY <1>2
<1> HIDE DEF S, Adds, f
<1>4. ASSUME NEW g
      PROVE  G(g) <=> Sums(g, f, S)
  <2>1. \A s \in SUBSET S : s # {} => AnyOf(s) \in S
    BY DEF AnyOf
  <2>2. [s \in SUBSET S |-> IF s = {} THEN 0 ELSE Adds(AnyOf(s)) + g[s \ {AnyOf(s)}]]
          = [s \in SUBSET S |-> IF s = {} THEN 0 ELSE f[AnyOf(s)] + g[s \ {AnyOf(s)}]]
    BY <1>2, <2>1
  <2> QED
    BY <2>2, Zenon DEF Sums
<1>5. (CHOOSE g : G(g)) = (CHOOSE g : Sums(g, f, S))
  <2> HIDE DEF G
  <2> QED
    BY <1>4
<1>6. IsFiniteSet(S)
  BY DEF S
<1>7. (CHOOSE g : Sums(g, f, S))[S] \in Nat
  BY <1>3, <1>6, TotalIsNatural
<1> QED
  BY <1>1, <1>5, <1>7

\* The weights of the fields are natural numbers.
LEMMA WeightsAre ==
  /\ IsFiniteSet(DOMAIN QueryWeight) /\ IsFiniteSet(DOMAIN SkillWeight)
  /\ \A field \in DOMAIN QueryWeight : QueryWeight[field] \in Nat
  /\ \A field \in DOMAIN SkillWeight : SkillWeight[field] \in Nat
<1> DEFINE fields == {"title", "company", "location", "description"}
<1>1. DOMAIN QueryWeight = fields /\ DOMAIN SkillWeight = fields
  BY DEF QueryWeight, SkillWeight
<1>2. IsFiniteSet(fields)
  <2>1. IsFiniteSet({"title"})
    BY FS_Singleton
  <2>2. IsFiniteSet({"title"} \cup {"company"})
    BY <2>1, FS_AddElement
  <2>3. IsFiniteSet(({"title"} \cup {"company"}) \cup {"location"})
    BY <2>2, FS_AddElement
  <2>4. IsFiniteSet((({"title"} \cup {"company"}) \cup {"location"}) \cup {"description"})
    BY <2>3, FS_AddElement
  <2>5. fields = (({"title"} \cup {"company"}) \cup {"location"}) \cup {"description"}
    OBVIOUS
  <2> QED
    BY <2>4, <2>5
<1>3. \A field \in fields : QueryWeight[field] \in Nat /\ SkillWeight[field] \in Nat
  BY DEF QueryWeight, SkillWeight
<1> QED
  BY <1>1, <1>2, <1>3

LEMMA QueryContributionIsNatural ==
  ASSUME NEW o
  PROVE  QueryContribution(o) \in Nat
<1> DEFINE S == QueryTokens
           Weight(token) == FieldWeight(token, o, QueryWeight)
           f == [token \in S |-> Weight(token)]
           G(g) == g = [s \in SUBSET S |-> IF s = {} THEN 0 ELSE
                          Weight(AnyOf(s)) + g[s \ {AnyOf(s)}]]
           total == (CHOOSE g : G(g))[S]
           matched == Cardinality({token \in S : Weight(token) > 0})
<1>1. QueryContribution(o) = total * matched * 2 ^ Now
  BY DEF QueryContribution, MapThenSumSet, MapThenFoldSet, AnyOf
<1>2. \A token \in S : Weight(token) \in Nat
  BY WeightsAre, FieldWeightIsNatural
<1>3. IsFiniteSet(S)
  BY QueryAndSkillsAreFew
<1>4. matched \in Nat
  <2> HIDE DEF S, Weight
  <2>1. IsFiniteSet({token \in S : Weight(token) > 0})
    BY <1>3, FS_Subset
  <2> QED
    BY <2>1, FS_CardinalityType
<1> HIDE DEF S, Weight, matched
<1>5. f \in [S -> Nat] /\ \A token \in S : f[token] = Weight(token)
  BY <1>2
<1> HIDE DEF f
<1>6. ASSUME NEW g
      PROVE  G(g) <=> Sums(g, f, S)
  <2>1. \A s \in SUBSET S : s # {} => AnyOf(s) \in S
    BY DEF AnyOf
  <2>2. [s \in SUBSET S |-> IF s = {} THEN 0 ELSE Weight(AnyOf(s)) + g[s \ {AnyOf(s)}]]
          = [s \in SUBSET S |-> IF s = {} THEN 0 ELSE f[AnyOf(s)] + g[s \ {AnyOf(s)}]]
    BY <1>5, <2>1
  <2> QED
    BY <2>2, Zenon DEF Sums
<1>7. (CHOOSE g : G(g)) = (CHOOSE g : Sums(g, f, S))
  <2> HIDE DEF G
  <2> QED
    BY <1>6
<1>8. (CHOOSE g : Sums(g, f, S))[S] \in Nat
  BY <1>3, <1>5, TotalIsNatural
<1>9. total \in Nat
  BY <1>7, <1>8
<1>10. 2 ^ Now \in Nat
  BY PowersArePositive, RankingAssumption
<1> HIDE DEF total
<1> QED
  BY <1>1, <1>4, <1>9, <1>10

LEMMA GreaterAndLesser ==
  ASSUME NEW a \in Int, NEW b \in Int
  PROVE  /\ Max({a, b}) \in {a, b} /\ Max({a, b}) >= a /\ Max({a, b}) >= b
         /\ Min({a, b}) \in {a, b} /\ Min({a, b}) <= a /\ Min({a, b}) <= b
<1>1. \E x \in {a, b} : \A y \in {a, b} : x >= y
  OBVIOUS
<1>2. \E x \in {a, b} : \A y \in {a, b} : x <= y
  OBVIOUS
<1>3. Max({a, b}) \in {a, b} /\ \A y \in {a, b} : Max({a, b}) >= y
  BY <1>1 DEF Max
<1>4. Min({a, b}) \in {a, b} /\ \A y \in {a, b} : Min({a, b}) <= y
  BY <1>2 DEF Min
<1> QED
  BY <1>3, <1>4

LEMMA UnitIsPositive == Unit \in Nat \ {0}
<1> DEFINE n == Cardinality(QueryTokens)
           most == Max({1, n})
           power == 2 ^ Now
<1>1. n \in Nat
  BY QueryAndSkillsAreFew, FS_CardinalityType
<1>2. power \in Nat \ {0}
  BY PowersArePositive, RankingAssumption
<1>3. Unit = most * power
  BY DEF Unit
<1> HIDE DEF n, power
<1>4. most \in {1, n} /\ most >= 1
  BY <1>1, GreaterAndLesser
<1> HIDE DEF most
<1>5. most \in Nat /\ most >= 1
  BY <1>1, <1>4
<1>6. most * power \in Nat \ {0}
  BY <1>2, <1>5
<1> QED
  BY <1>3, <1>6

LEMMA SkillContributionIsNatural ==
  ASSUME NEW o
  PROVE  SkillContribution(o) \in Nat
<1> DEFINE S == SkillTokens
           Weight(token) == FieldWeight(token, o, SkillWeight)
           f == [token \in S |-> Weight(token)]
           G(g) == g = [s \in SUBSET S |-> IF s = {} THEN 0 ELSE
                          Weight(AnyOf(s)) + g[s \ {AnyOf(s)}]]
           total == (CHOOSE g : G(g))[S]
           least == Min({MaxSkillContribution, total})
<1>1. SkillContribution(o) = Unit * least
  BY DEF SkillContribution, MapThenSumSet, MapThenFoldSet, AnyOf
<1>2. \A token \in S : Weight(token) \in Nat
  BY WeightsAre, FieldWeightIsNatural
<1>3. IsFiniteSet(S)
  BY QueryAndSkillsAreFew
<1> HIDE DEF S, Weight
<1>4. f \in [S -> Nat] /\ \A token \in S : f[token] = Weight(token)
  BY <1>2
<1> HIDE DEF f
<1>5. ASSUME NEW g
      PROVE  G(g) <=> Sums(g, f, S)
  <2>1. \A s \in SUBSET S : s # {} => AnyOf(s) \in S
    BY DEF AnyOf
  <2>2. [s \in SUBSET S |-> IF s = {} THEN 0 ELSE Weight(AnyOf(s)) + g[s \ {AnyOf(s)}]]
          = [s \in SUBSET S |-> IF s = {} THEN 0 ELSE f[AnyOf(s)] + g[s \ {AnyOf(s)}]]
    BY <1>4, <2>1
  <2> QED
    BY <2>2, Zenon DEF Sums
<1>6. (CHOOSE g : G(g)) = (CHOOSE g : Sums(g, f, S))
  <2> HIDE DEF G
  <2> QED
    BY <1>5
<1>7. (CHOOSE g : Sums(g, f, S))[S] \in Nat
  BY <1>3, <1>4, TotalIsNatural
<1>8. total \in Nat
  BY <1>6, <1>7
<1> HIDE DEF total
<1>9. MaxSkillContribution \in Nat
  BY DEF MaxSkillContribution
<1>10. least \in Nat
  <2>1. least \in {MaxSkillContribution, total}
    BY <1>8, <1>9, GreaterAndLesser
  <2> QED
    BY <1>8, <1>9, <2>1
<1> HIDE DEF least
<1> QED
  BY <1>1, <1>10, UnitIsPositive

LEMMA StrengthIsNatural ==
  ASSUME NEW o
  PROVE  Strength(o) \in Nat
BY QueryContributionIsNatural, SkillContributionIsNatural DEF Strength

LEMMA BonusIsBounded ==
  ASSUME NEW o \in Offer
  PROVE  RecencyBonus(o) \in 0..MaxRecencyBonus * Unit
<1> DEFINE whole == MaxRecencyBonus * Unit
           age == Max({0, Now - o.posted})
           part == 2 ^ age
<1>1. whole \in Nat
  BY UnitIsPositive DEF MaxRecencyBonus
<1>2. age \in Nat
  <2>1. o.posted \in Nat /\ Now \in Nat
    BY ConsolidationAssumption, RankingAssumption
  <2> DEFINE past == Now - o.posted
  <2>2. past \in Int
    BY <2>1
  <2> HIDE DEF past
  <2>3. Max({0, past}) \in {0, past} /\ Max({0, past}) >= 0
    BY <2>2, GreaterAndLesser
  <2>4. Max({0, past}) \in Nat
    BY <2>2, <2>3
  <2> QED
    BY <2>4 DEF past
<1>3. RecencyBonus(o) = IF o.posted = 0 THEN 0 ELSE whole \div part
  BY DEF RecencyBonus
<1> HIDE DEF age
<1>4. part \in Nat /\ part >= 1
  BY <1>2, PowersArePositive
<1> HIDE DEF part, whole
<1>5. whole \div part \in 0..whole
  BY <1>1, <1>4
<1> QED
  BY <1>1, <1>3, <1>5 DEF whole

LEMMA RelevanceIsNatural ==
  /\ Relevance \in [Offer -> Nat]
  /\ \A o \in Offer : Relevance[o] = Strength(o) + RecencyBonus(o)
<1>1. \A o \in Offer : RelevanceScore(o) \in Nat
  <2> SUFFICES ASSUME NEW o \in Offer
               PROVE  RelevanceScore(o) \in Nat
    OBVIOUS
  <2>1. Strength(o) \in Nat /\ RecencyBonus(o) \in 0..MaxRecencyBonus * Unit
    BY StrengthIsNatural, BonusIsBounded
  <2>2. MaxRecencyBonus * Unit \in Nat
    BY UnitIsPositive DEF MaxRecencyBonus
  <2> QED
    BY <2>1, <2>2 DEF RelevanceScore
<1> QED
  BY <1>1 DEF Relevance, RelevanceScore

LEMMA SortKeysAreOrdered ==
  ASSUME NEW o \in Offer
  PROVE  SortKey(sort, o) \in [1..3 -> Int]
<1>1. /\ o.provider \in Provider /\ Alphabetical[o.provider] \in Nat
      /\ o.id \in Nat /\ o.posted \in Nat /\ o.high \in Nat /\ Relevance[o] \in Int
  BY ConsolidationAssumption, RelevanceIsNatural
<1> HIDE DEF Relevance
<1> QED
  BY <1>1 DEF SortKey

LEMMA SortedOnlyNudges ==
  ASSUME ConsolidationInv, ShownInv
  PROVE  RecencyOnlyNudges
<1> SUFFICES ASSUME status = "settled", sort = "relevance",
                    NEW m \in DOMAIN items, NEW n \in DOMAIN items, m < n
             PROVE  Strength(items[n].offer)
                      <= Strength(items[m].offer) + MaxRecencyBonus * Unit
  BY DEF RecencyOnlyNudges
<1> DEFINE a == items[m].offer
           b == items[n].offer
<1>1. a \in Offer /\ b \in Offer
  BY DEF ConsolidationInv, ListInv, ShownInv, RolesInv
<1>2. \/ Exceeds(SortKey(sort, a), SortKey(sort, b))
      \/ SortKey(sort, a) = SortKey(sort, b)
  BY DEF ShownInv, SortedInv, KeyOf
<1> HIDE DEF a, b
<1>3. /\ Relevance[a] \in Nat /\ Relevance[b] \in Nat
      /\ Relevance[a] = Strength(a) + RecencyBonus(a)
      /\ Relevance[b] = Strength(b) + RecencyBonus(b)
      /\ RecencyBonus(a) \in 0..MaxRecencyBonus * Unit
      /\ RecencyBonus(b) \in 0..MaxRecencyBonus * Unit
      /\ Strength(a) \in Nat /\ Strength(b) \in Nat
      /\ MaxRecencyBonus * Unit \in Nat
  BY <1>1, RelevanceIsNatural, StrengthIsNatural, BonusIsBounded, UnitIsPositive
     DEF MaxRecencyBonus
<1>4. SortKey(sort, a)[1] = Relevance[a] /\ SortKey(sort, b)[1] = Relevance[b]
  BY DEF SortKey
<1>5. Relevance[a] >= Relevance[b]
  <2>1. SortKey(sort, a) \in [1..3 -> Int] /\ SortKey(sort, b) \in [1..3 -> Int]
    BY <1>1, SortKeysAreOrdered
  <2>2. ~(Relevance[b] > Relevance[a])
    <3> SUFFICES ASSUME Relevance[b] > Relevance[a]
                 PROVE  FALSE
      OBVIOUS
    <3>1. 1..1 - 1 = {} /\ DOMAIN SortKey(sort, b) = 1..3
      BY <2>1
    <3>2. Exceeds(SortKey(sort, b), SortKey(sort, a))
      BY <1>4, <3>1 DEF Exceeds
    <3> QED
      BY <1>2, <1>3, <1>4, <2>1, <3>2, KeysAreOrdered
  <2> QED
    BY <1>3, <2>2
<1>6. Strength(b) <= Strength(a) + MaxRecencyBonus * Unit
  <2> DEFINE x == Strength(a)
             y == Strength(b)
             p == RecencyBonus(a)
             q == RecencyBonus(b)
             w == MaxRecencyBonus * Unit
  <2>1. x \in Nat /\ y \in Nat /\ w \in Nat /\ p \in 0..w /\ q \in 0..w /\ x + p >= y + q
    BY <1>3, <1>5
  <2> HIDE DEF x, y, p, q, w
  <2>2. y <= x + w
    BY <2>1
  <2> QED
    BY <2>2 DEF x, y, w
<1> QED
  BY <1>6 DEF a, b

\* _recency_bonus and _sort: in a settled search ranked by relevance no result stands before
\* one that matches better by more than the whole bonus, whenever both are dated.
THEOREM RecencyAlwaysOnlyNudges == Spec => []RecencyOnlyNudges
BY AlwaysShown, SortedOnlyNudges, PTL

\* _sort: what SettledOrderIsFixed says of the settled page leaves
\* one list, so that two searches to which the same was delivered show the same.
THEOREM SettledPageIsOne ==
  ASSUME NEW one \in Seq(Offer), NEW other \in Seq(Offer), ToSet(one) = ToSet(other),
         \A m, n \in DOMAIN one :
           m < n => Exceeds(SortKey(sort, one[m]), SortKey(sort, one[n])),
         \A m, n \in DOMAIN other :
           m < n => Exceeds(SortKey(sort, other[m]), SortKey(sort, other[n]))
  PROVE  one = other
<1> DEFINE before == {pair \in Offer \X Offer :
                        Exceeds(SortKey(sort, pair[1]), SortKey(sort, pair[2]))}
<1>1. Asymmetric(before)
  <2> SUFFICES ASSUME NEW a, NEW b, <<a, b>> \in before, <<b, a>> \in before
               PROVE  FALSE
    BY DEF Asymmetric
  <2>1. /\ a \in Offer /\ b \in Offer
        /\ Exceeds(SortKey(sort, a), SortKey(sort, b))
        /\ Exceeds(SortKey(sort, b), SortKey(sort, a))
    OBVIOUS
  <2> QED
    BY <2>1, SortKeysAreOrdered, KeysAreOrdered
<1>2. InOrder(before, one)
  BY ListFacts DEF InOrder
<1>3. InOrder(before, other)
  BY ListFacts DEF InOrder
<1> HIDE DEF before
<1> QED
  BY <1>1, <1>2, <1>3, OneListInOrder
=============================================================================
