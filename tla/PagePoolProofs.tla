---------------------------- MODULE PagePoolProofs ----------------------------
(***************************************************************************)
(* One call of a paginated provider's pages(), for any number of workers,  *)
(* pages, attempts and results.                                            *)
(*                                                                         *)
(* The two ceilings: only Send moves the request budget and only Yield the *)
(* results, so PoolInv needs nothing but itself.                           *)
(*                                                                         *)
(* The pages: a page that was taken from the queue is with one reader, in  *)
(* the output once, or yielded once (OnePlace, NoneLost), and each worker  *)
(* that stopped left one sentinel, behind all its batches (SentinelsInv).  *)
(* So the generator that counts as many sentinels as workers finds the     *)
(* output empty and every page yielded (PullSentinelKeepsAnswers).         *)
(***************************************************************************)
EXTENDS PagePool, FiniteSetTheorems, SequenceTheorems, TLAPS

\* What the cap admits is at most what is asked, and at most the room left.
LEMMA AtMostBounds ==
  ASSUME NEW n \in Nat, NEW room \in Nat
  PROVE  AtMost(n, room) \in Nat /\ AtMost(n, room) <= room /\ AtMost(n, room) <= n
BY DEF AtMost

\* cap(): yielding keeps the result cap, whatever the page held.
LEMMA YieldKeepsCap ==
  ASSUME NEW n \in Nat, NEW page, NEW warned, NEW pages,
         accepted \in Nat, accepted <= ResultCap, Yield(page, n, warned, pages)
  PROVE  accepted' \in Nat /\ accepted' <= ResultCap
<1>1. ResultCap - accepted \in Nat
  BY PoolAssumption
<1>2. /\ AtMost(n, ResultCap - accepted) \in Nat
      /\ AtMost(n, ResultCap - accepted) <= ResultCap - accepted
  BY <1>1, AtMostBounds
<1> DEFINE kept == AtMost(n, ResultCap - accepted)
<1>3. accepted' = accepted + kept
  BY DEF Yield
<1> HIDE DEF kept
<1>4. kept \in Nat /\ kept <= ResultCap - accepted
  BY <1>2 DEF kept
<1> QED
  BY <1>3, <1>4, PoolAssumption

\* What the results of a page change is well typed, and stays under the cap.
YieldTypes ==
  /\ accepted \in Nat /\ accepted <= ResultCap
  /\ told \in BOOLEAN
  /\ batches \in [Page -> Nat]

LEMMA YieldKeepsTypes ==
  ASSUME NEW n \in Nat, NEW page \in Nat, NEW warned \in BOOLEAN, NEW pages,
         YieldTypes, Yield(page, n, warned, pages)
  PROVE  YieldTypes'
<1>1. accepted' \in Nat /\ accepted' <= ResultCap
  BY YieldKeepsCap DEF YieldTypes
<1>2. told' \in BOOLEAN
  BY DEF Yield, YieldTypes
<1>3. batches' = [batches EXCEPT ![page] = @ + 1]
  BY DEF Yield
<1>4. batches' \in [Page -> Nat]
  <2>1. batches \in [Page -> Nat]
    BY DEF YieldTypes
  <2>2. page \in Page => batches[page] + 1 \in Nat
    BY <2>1
  <2> QED
    BY <1>3, <2>1, <2>2
<1> QED
  BY <1>1, <1>2, <1>4 DEF YieldTypes

-----------------------------------------------------------------------------
(* The invariant, in the parts the steps disturb together.                 *)

PoolInv == TypeOK /\ CeilingsKept

\* The two numbers of the request budget.
Requests == left \in Nat /\ sent \in Nat /\ sent + left = RequestBudget

\* Everything else: where the generator, the workers and the queues are.
Places ==
  /\ gen \in GenStates
  /\ total \in 0..MaxTotal
  /\ finished \in Nat /\ next \in Nat
  /\ reader \in [Reader -> ReaderState]
  /\ output \in Seq(Batch)
  /\ stop \in BOOLEAN

LEMMA PoolInvParts == PoolInv <=> Requests /\ YieldTypes /\ Places
BY DEF PoolInv, TypeOK, CeilingsKept, Requests, YieldTypes, Places

LEMMA PoolInvPartsNext == PoolInv' <=> Requests' /\ YieldTypes' /\ Places'
BY DEF PoolInv, TypeOK, CeilingsKept, Requests, YieldTypes, Places

LEMMA ReaderValues ==
  /\ Idle \in ReaderState
  /\ \A page \in 0..MaxTotal, attempt \in 0..MaxRetries :
       Asking(page, attempt) \in ReaderState
  /\ \A how \in {"unborn", "stopped", "cancelled"} : Off(how) \in ReaderState
  /\ Done \in Batch
BY PoolAssumption DEF Idle, Asking, Off, ReaderState, Done, Batch

LEMMA PoolInit ==
  ASSUME Init
  PROVE  PoolInv
<1>0. RequestBudget \in Nat /\ ResultCap \in Nat
  BY PoolAssumption
<1>1. Requests
  BY <1>0 DEF Init, Requests
<1>6. told \in BOOLEAN /\ stop \in BOOLEAN
  BY DEF Init
<1>7. batches \in [Page -> Nat]
  BY DEF Init
<1>8. YieldTypes
  BY <1>0, <1>6, <1>7 DEF Init, YieldTypes
<1>2. MaxTotal \in Nat /\ 1 \in 0..MaxTotal /\ 1 \in 0..MaxRetries
  BY PoolAssumption
<1>3. reader \in [Reader -> ReaderState]
  BY <1>2, ReaderValues DEF Init
<1>4. output \in Seq(Batch)
  BY DEF Init
<1>5. Places
  <2>1. gen \in GenStates
    BY DEF Init, GenStates
  <2>2. total \in 0..MaxTotal /\ finished \in Nat /\ next \in Nat
    BY <1>2 DEF Init
  <2> QED
    BY <2>1, <2>2, <1>3, <1>4, <1>6 DEF Places
<1> QED
  BY <1>1, <1>5, <1>8, PoolInvParts

\* budget.consume() moves one request from what is left to what was sent.
LEMMA SendKeepsInv ==
  ASSUME PoolInv, NEW r \in Reader, Send(r)
  PROVE  PoolInv'
<1> USE PoolInvParts
<1>1. Requests'
  BY DEF Send, Requests
<1>2. YieldTypes'
  BY DEF Send, YieldTypes
<1>3. [reader[r] EXCEPT !.at = "waiting"] \in ReaderState
  BY DEF Places, ReaderState
<1>4. Places'
  BY <1>3 DEF Send, Become, Places
<1> QED
  BY <1>1, <1>2, <1>4, PoolInvPartsNext

\* A page that could not be read yields or queues an empty batch with a warning.
LEMMA GiveUpKeepsInv ==
  ASSUME PoolInv, NEW r \in Reader, NEW stopping \in BOOLEAN, GiveUp(r, stopping)
  PROVE  YieldTypes' /\ Places'
<1> USE PoolInvParts
<1>1. CASE r = Main
  <2>1. Yield(1, 0, TRUE, 1)
    BY <1>1 DEF GiveUp
  <2>2. YieldTypes'
    BY <2>1, YieldKeepsTypes
  <2>3. reader' \in [Reader -> ReaderState]
    BY <1>1, ReaderValues DEF GiveUp, Become, Places
  <2>4. 1 \in 0..MaxTotal
    BY PoolAssumption
  <2>5. Places'
    BY <1>1, <2>3, <2>4 DEF GiveUp, Places, GenStates
  <2> QED
    BY <2>2, <2>5
<1>2. CASE r # Main
  <2> DEFINE batch == [page |-> reader[r].page, items |-> 0, warned |-> TRUE,
                       stop |-> stopping]
  <2>1. batch \in Batch
    BY DEF Batch, Places, ReaderState
  <2>2. output' = Append(output, batch)
    BY <1>2 DEF GiveUp
  <2> HIDE DEF batch
  <2>3. output' \in Seq(Batch)
    BY <2>1, <2>2 DEF Places
  <2>4. reader' \in [Reader -> ReaderState]
    BY <1>2, ReaderValues DEF GiveUp, Become, Places
  <2>5. Places'
    BY <1>2, <2>3, <2>4 DEF GiveUp, Places
  <2> QED
    BY <1>2, <2>5 DEF GiveUp, YieldTypes
<1> QED
  BY <1>1, <1>2

\* The answers of a request: every one but Send leaves the budget alone.
LEMMA AnswerKeepsInv ==
  ASSUME PoolInv, NEW r \in Reader,
         Starve(r) \/ Retry(r) \/ Fail(r) \/ QuotaRejected(r)
  PROVE  PoolInv'
<1> USE PoolInvParts
<1>1. Requests'
  BY DEF Starve, Retry, Fail, QuotaRejected, Requests
<1>2. CASE Retry(r)
  <2>1. Asking(reader[r].page, reader[r].attempt + 1) \in ReaderState
    BY <1>2, PoolAssumption DEF Retry, Places, Asking, ReaderState
  <2>2. Places'
    BY <1>2, <2>1 DEF Retry, Become, Places
  <2>3. YieldTypes'
    BY <1>2 DEF Retry, YieldTypes
  <2> QED
    BY <1>1, <2>2, <2>3, PoolInvPartsNext
<1>3. CASE Starve(r) \/ Fail(r) \/ QuotaRejected(r)
  <2>1. PICK stopping \in BOOLEAN : GiveUp(r, stopping)
    BY <1>3, PoolAssumption DEF Starve, Fail, QuotaRejected
  <2> QED
    BY <1>1, <2>1, GiveUpKeepsInv, PoolInvPartsNext
<1> QED
  BY <1>2, <1>3

\* Page 1: read, its results yielded; or it breaks the generator.
LEMMA MainStepKeepsInv ==
  ASSUME PoolInv, MainStep
  PROVE  PoolInv'
<1> USE PoolInvParts
<1>1. Main \in Reader
  BY DEF Reader
<1>2. CASE Send(Main)
  BY <1>1, <1>2, SendKeepsInv
<1>3. CASE Starve(Main) \/ Retry(Main) \/ Fail(Main) \/ QuotaRejected(Main)
  BY <1>1, <1>3, AnswerKeepsInv
<1>4. CASE FirstPage
  <2>1. PICK n \in PageSizes, pages \in Page :
          total' = pages /\ Yield(1, n, FALSE, pages)
    BY <1>4 DEF FirstPage
  <2>2. n \in Nat
    BY PoolAssumption
  <2>3. YieldTypes'
    BY <2>1, <2>2, YieldKeepsTypes
  <2>4. Requests'
    BY <1>4 DEF FirstPage, Requests
  <2>5. reader' \in [Reader -> ReaderState]
    BY <1>4, ReaderValues DEF FirstPage, Become, Places
  <2>6. total' \in 0..MaxTotal
    BY <2>1 DEF Page
  <2>7. Places'
    BY <1>4, <2>5, <2>6 DEF FirstPage, Places, GenStates
  <2> QED
    BY <2>3, <2>4, <2>7, PoolInvPartsNext
<1>5. CASE FirstPageRaises
  <2>1. reader' \in [Reader -> ReaderState]
    BY <1>5, ReaderValues DEF FirstPageRaises, Become, Places
  <2>2. Places'
    BY <1>5, <2>1 DEF FirstPageRaises, Places, GenStates
  <2>3. Requests' /\ YieldTypes'
    BY <1>5 DEF FirstPageRaises, Requests, YieldTypes
  <2> QED
    BY <2>2, <2>3, PoolInvPartsNext
<1> QED
  BY <1>2, <1>3, <1>4, <1>5 DEF MainStep

\* What a worker takes from the queue and puts in the output.
LEMMA WorkerStepKeepsInv ==
  ASSUME PoolInv, NEW w \in Worker, WorkerStep(w) \/ WorkerCancelled(w)
  PROVE  PoolInv'
<1> USE PoolInvParts
<1>1. w \in Reader
  BY DEF Reader
<1>2. CASE Send(w)
  BY <1>1, <1>2, SendKeepsInv
<1>3. CASE Starve(w) \/ Retry(w) \/ Fail(w) \/ QuotaRejected(w)
  BY <1>1, <1>3, AnswerKeepsInv
<1>4. CASE TakePage(w)
  <2>1. next \in 0..MaxTotal /\ 1 \in 0..MaxRetries /\ next + 1 \in Nat
    BY <1>4, PoolAssumption DEF TakePage, Places
  <2>2. Asking(next, 1) \in ReaderState
    BY <2>1, ReaderValues
  <2>3. Places'
    BY <1>1, <1>4, <2>1, <2>2 DEF TakePage, Become, Places
  <2>4. Requests' /\ YieldTypes'
    BY <1>4 DEF TakePage, Requests, YieldTypes
  <2> QED
    BY <2>3, <2>4, PoolInvPartsNext
<1>5. CASE TakeSentinel(w) \/ WorkerCancelled(w)
  <2>1. output' = Append(output, Done)
    BY <1>5 DEF TakeSentinel, WorkerCancelled
  <2>2. output' \in Seq(Batch)
    BY <2>1, ReaderValues DEF Places
  <2>3. PICK how \in {"stopped", "cancelled"} : Become(w, Off(how))
    BY <1>5 DEF TakeSentinel, WorkerCancelled
  <2>4. reader' \in [Reader -> ReaderState]
    BY <1>1, <2>3, ReaderValues DEF Become, Places
  <2>5. Places'
    BY <1>5, <2>2, <2>4 DEF TakeSentinel, WorkerCancelled, Places
  <2>6. Requests' /\ YieldTypes'
    BY <1>5 DEF TakeSentinel, WorkerCancelled, Requests, YieldTypes
  <2> QED
    BY <2>5, <2>6, PoolInvPartsNext
<1>6. CASE PageRead(w)
  <2>1. PICK n \in PageSizes :
          output' = Append(output, [page |-> reader[w].page, items |-> n,
                                    warned |-> FALSE, stop |-> FALSE])
    BY <1>6 DEF PageRead
  <2>2. [page |-> reader[w].page, items |-> n, warned |-> FALSE, stop |-> FALSE]
          \in Batch
    BY <1>1, PoolAssumption DEF Batch, Places, ReaderState
  <2>3. output' \in Seq(Batch)
    BY <2>1, <2>2 DEF Places
  <2>4. reader' \in [Reader -> ReaderState]
    BY <1>1, <1>6, ReaderValues DEF PageRead, Become, Places
  <2>5. Places'
    BY <1>6, <2>3, <2>4 DEF PageRead, Places
  <2>6. Requests' /\ YieldTypes'
    BY <1>6 DEF PageRead, Requests, YieldTypes
  <2> QED
    BY <2>5, <2>6, PoolInvPartsNext
<1> QED
  BY <1>2, <1>3, <1>4, <1>5, <1>6 DEF WorkerStep

\* The generator, its consumer and the event loop that closes it.
LEMMA GeneratorStepKeepsInv ==
  ASSUME PoolInv, GeneratorStep \/ Abandon \/ Cancel
  PROVE  PoolInv'
<1> USE PoolInvParts
<1>1. CASE StartPool
  <2>1. reader' \in [Reader -> ReaderState]
    BY <1>1, ReaderValues DEF StartPool, Places
  <2>2. Places'
    BY <1>1, <2>1 DEF StartPool, Places, GenStates
  <2>3. Requests' /\ YieldTypes'
    BY <1>1 DEF StartPool, Requests, YieldTypes
  <2> QED
    BY <2>2, <2>3, PoolInvPartsNext
<1>2. CASE EndAfterFirst \/ ResumePool \/ Close \/ Finalize \/ Abandon
  <2>1. gen' \in GenStates
    BY <1>2 DEF EndAfterFirst, ResumePool, Close, Finalize, Abandon, GenStates
  <2>2. Places'
    BY <1>2, <2>1 DEF EndAfterFirst, ResumePool, Close, Finalize, Abandon, Places
  <2>3. Requests' /\ YieldTypes'
    BY <1>2 DEF EndAfterFirst, ResumePool, Close, Finalize, Abandon, Requests,
                YieldTypes
  <2> QED
    BY <2>2, <2>3, PoolInvPartsNext
<1>3. CASE PullSentinel
  <2>1. output' \in Seq(Batch)
    BY <1>3 DEF PullSentinel, Places
  <2>2. gen' \in GenStates /\ finished' \in Nat
    BY <1>3 DEF PullSentinel, Places, GenStates
  <2>3. Places'
    BY <1>3, <2>1, <2>2 DEF PullSentinel, Places
  <2>4. Requests' /\ YieldTypes'
    BY <1>3 DEF PullSentinel, Requests, YieldTypes
  <2> QED
    BY <2>3, <2>4, PoolInvPartsNext
<1>4. CASE PullBatch
  <2> DEFINE b == Head(output)
  <2>1. b \in Batch
    BY <1>4 DEF PullBatch, Places
  <2>2. output' \in Seq(Batch)
    BY <1>4 DEF PullBatch, Places
  <2>3. Yield(b.page, b.items, b.warned, total) /\ stop' = b.stop
    BY <1>4 DEF PullBatch
  <2> HIDE DEF b
  <2>4. b.page \in Nat /\ b.items \in Nat /\ b.warned \in BOOLEAN /\ b.stop \in BOOLEAN
    BY <2>1 DEF Batch
  <2>5. YieldTypes'
    BY <2>3, <2>4, YieldKeepsTypes
  <2>6. Places'
    BY <1>4, <2>2, <2>3, <2>4 DEF PullBatch, Places, GenStates
  <2>7. Requests'
    BY <1>4 DEF PullBatch, Requests
  <2> QED
    BY <2>5, <2>6, <2>7, PoolInvPartsNext
<1>5. CASE Cancel
  <2>1. reader' \in [Reader -> ReaderState]
    BY <1>5, ReaderValues DEF Cancel, Places
  <2>2. Places'
    BY <1>5, <2>1 DEF Cancel, Places, GenStates
  <2>3. Requests' /\ YieldTypes'
    BY <1>5 DEF Cancel, Requests, YieldTypes
  <2> QED
    BY <2>2, <2>3, PoolInvPartsNext
<1> QED
  BY <1>1, <1>2, <1>3, <1>4, <1>5 DEF GeneratorStep

-----------------------------------------------------------------------------
LEMMA NextKeepsPoolInv ==
  ASSUME PoolInv, [Next]_pvars
  PROVE  PoolInv'
<1>1. CASE MainStep
  BY <1>1, MainStepKeepsInv
<1>2. CASE \E w \in Worker : WorkerStep(w) \/ WorkerCancelled(w)
  BY <1>2, WorkerStepKeepsInv
<1>3. CASE GeneratorStep \/ Abandon \/ Cancel
  BY <1>3, GeneratorStepKeepsInv
<1>4. CASE UNCHANGED pvars
  BY <1>4 DEF pvars, PoolInv, TypeOK, CeilingsKept
<1> QED
  BY <1>1, <1>2, <1>3, <1>4 DEF Next

THEOREM PoolInvariant == Spec => []PoolInv
<1>1. Init => PoolInv
  BY PoolInit
<1>2. PoolInv /\ [Next]_pvars => PoolInv'
  BY NextKeepsPoolInv
<1> QED
  BY <1>1, <1>2, PTL DEF Spec

\* The counters and queues of a page pool are well typed, whatever its size.
THEOREM PoolTypeCorrect == Spec => []TypeOK
<1>1. PoolInv => TypeOK
  BY DEF PoolInv
<1> QED
  BY <1>1, PoolInvariant, PTL

\* JE-023 criterion 8, for every number of workers, retries and pages: a search
\* sends no request beyond its budget and yields no result beyond its cap.
THEOREM CeilingsAlwaysKept == Spec => []CeilingsKept
<1>1. PoolInv => CeilingsKept
  BY DEF PoolInv
<1> QED
  BY <1>1, PoolInvariant, PTL

-----------------------------------------------------------------------------
(* Every page is in one place: not taken yet, with a worker, in the output, *)
(* or yielded.                                                              *)

Reading(w) == reader[w].at \in {"asking", "waiting"}

\* Pages no worker has taken are nowhere, and a page that is somewhere is there once.
OnePlace ==
  /\ next >= 2 /\ (next = 2 \/ next <= total + 1)
  /\ \A p \in Page : batches[p] \in {0, 1} /\ (batches[p] = 1 => p < next)
  /\ \A w \in Worker : Reading(w) =>
       /\ reader[w].page \in 2..next - 1
       /\ batches[reader[w].page] = 0
       /\ \A v \in Worker \ {w} : Reading(v) => reader[v].page # reader[w].page
  /\ \A n \in DOMAIN output : output[n] # Done =>
       /\ output[n].page \in 2..next - 1
       /\ batches[output[n].page] = 0
       /\ \A w \in Worker : Reading(w) => reader[w].page # output[n].page
       /\ \A m \in DOMAIN output \ {n} : output[m].page # output[n].page

\* Before the pool there is nothing of it.
Unstarted ==
  gen \in {"first", "last", "yielded"} =>
    /\ \A w \in Worker : reader[w].at = "unborn"
    /\ output = <<>> /\ finished = 0 /\ next = 2
    /\ gen = "first" => \A p \in Page : batches[p] = 0

InPool == gen \in {"pulling", "pooled"}

\* While the generator pulls, a page that was taken is not lost.
NoneLost ==
  /\ gen \in {"yielded", "pulling", "pooled"} => batches[1] = 1
  /\ InPool =>
       \A p \in 2..next - 1 :
         \/ batches[p] = 1
         \/ \E w \in Worker : Reading(w) /\ reader[w].page = p
         \/ \E n \in DOMAIN output : output[n].page = p

Stopped == {w \in Worker : reader[w].at = "stopped"}
Sentinels(queue) == {n \in DOMAIN queue : queue[n] = Done}

\* A worker that stopped has left one sentinel, behind all its batches, and has found
\* the queue empty.
SentinelsInv ==
  /\ gen \notin {"closing", "ended", "raised"} =>
       finished = 0 \/ finished < Cardinality(Alive)
  /\ InPool =>
       /\ finished < Cardinality(Alive)
       /\ finished + Cardinality(Sentinels(output)) = Cardinality(Stopped)
       /\ \A w \in Worker : reader[w].at # "cancelled"
       /\ Stopped # {} => next > total
       /\ Stopped = Alive /\ output # <<>> => output[Len(output)] = Done

\* The generator that has the last sentinel has yielded every page.
Answered ==
  gen = "closing" /\ finished > 0 /\ finished = Cardinality(Alive) =>
    \A p \in 1..total : batches[p] = 1

AnswersInv ==
  /\ PoolInv
  /\ OnePlace /\ Unstarted /\ NoneLost /\ SentinelsInv
  /\ NoWorkerOutlives /\ Answered

-----------------------------------------------------------------------------
(* Queues and the sentinels in them.                                       *)

LEMMA QueueAppend ==
  ASSUME NEW queue \in Seq(Batch), NEW b \in Batch
  PROVE  LET longer == Append(queue, b)
             last == Len(queue) + 1
         IN /\ DOMAIN longer = DOMAIN queue \cup {last} /\ last \notin DOMAIN queue
            /\ longer[last] = b /\ Len(longer) = last /\ longer # <<>>
            /\ \A n \in DOMAIN queue : longer[n] = queue[n]
            /\ Cardinality(Sentinels(queue)) \in Nat
            /\ Cardinality(Sentinels(longer)) =
                 Cardinality(Sentinels(queue)) + (IF b = Done THEN 1 ELSE 0)
<1> DEFINE longer == Append(queue, b)
           last == Len(queue) + 1
<1>1. /\ DOMAIN longer = DOMAIN queue \cup {last} /\ last \notin DOMAIN queue
      /\ longer[last] = b /\ Len(longer) = last /\ longer # <<>>
      /\ \A n \in DOMAIN queue : longer[n] = queue[n]
  OBVIOUS
<1> HIDE DEF longer, last
<1>2. IsFiniteSet(Sentinels(queue))
  <2>1. IsFiniteSet(1..Len(queue))
    BY FS_Interval
  <2>2. Sentinels(queue) \in SUBSET (1..Len(queue))
    BY DEF Sentinels
  <2> QED
    BY <2>1, <2>2, FS_Subset
<1>3. Cardinality(Sentinels(queue)) \in Nat
  BY <1>2, FS_CardinalityType
<1>4. CASE b = Done
  <2>1. Sentinels(longer) = Sentinels(queue) \cup {last} /\ last \notin Sentinels(queue)
    BY <1>1, <1>4 DEF Sentinels
  <2>2. Cardinality(Sentinels(longer)) = Cardinality(Sentinels(queue)) + 1
    BY <1>2, <2>1, FS_AddElement
  <2> QED
    BY <1>1, <1>3, <1>4, <2>2 DEF longer, last
<1>5. CASE b # Done
  <2>1. Sentinels(longer) = Sentinels(queue)
    BY <1>1, <1>5 DEF Sentinels
  <2>2. Cardinality(Sentinels(longer)) = Cardinality(Sentinels(queue)) + 0
    BY <1>3, <2>1
  <2> QED
    BY <1>1, <1>3, <1>5, <2>2 DEF longer, last
<1> QED
  BY <1>4, <1>5

LEMMA QueueTail ==
  ASSUME NEW queue \in Seq(Batch), queue # <<>>
  PROVE  LET rest == Tail(queue)
         IN /\ Len(queue) \in Nat \ {0} /\ DOMAIN queue = 1..Len(queue)
            /\ Len(rest) = Len(queue) - 1 /\ DOMAIN rest = 1..Len(queue) - 1
            /\ \A n \in DOMAIN rest : rest[n] = queue[n + 1]
            /\ Cardinality(Sentinels(rest)) \in Nat
            /\ Cardinality(Sentinels(queue)) =
                 Cardinality(Sentinels(rest)) + (IF Head(queue) = Done THEN 1 ELSE 0)
<1> DEFINE rest == Tail(queue)
           moved == {n \in Sentinels(queue) : n # 1}
           f == [n \in Sentinels(rest) |-> n + 1]
<1>1. /\ Len(queue) \in Nat \ {0} /\ DOMAIN queue = 1..Len(queue)
      /\ Len(rest) = Len(queue) - 1 /\ DOMAIN rest = 1..Len(queue) - 1
      /\ \A n \in DOMAIN rest : rest[n] = queue[n + 1]
      /\ Head(queue) = queue[1]
  <2>1. /\ Len(queue) \in Nat \ {0} /\ DOMAIN queue = 1..Len(queue)
        /\ Head(queue) = queue[1]
    BY EmptySeq
  <2>2. /\ rest \in Seq(Batch) /\ Len(rest) = Len(queue) - 1
        /\ \A n \in 1..Len(rest) : rest[n] = queue[n + 1]
    BY HeadTailProperties
  <2> QED
    BY <2>1, <2>2
<1> HIDE DEF rest
<1>2. IsFiniteSet(Sentinels(rest)) /\ IsFiniteSet(Sentinels(queue))
  <2>1. IsFiniteSet(1..Len(queue))
    BY <1>1, FS_Interval
  <2>2. /\ Sentinels(queue) \in SUBSET (1..Len(queue))
        /\ Sentinels(rest) \in SUBSET (1..Len(queue))
    BY <1>1 DEF Sentinels
  <2> QED
    BY <2>1, <2>2, FS_Subset
<1>3. f \in Bijection(Sentinels(rest), moved)
  <2>1. \A n \in Sentinels(rest) : f[n] = n + 1 /\ n \in Nat /\ n + 1 \in moved
    BY <1>1 DEF Sentinels
  <2>2. \A m \in moved : m - 1 \in Sentinels(rest) /\ f[m - 1] = m
    BY <1>1 DEF Sentinels
  <2>3. f \in [Sentinels(rest) -> moved]
    BY <2>1
  <2> HIDE DEF f, moved
  <2>4. f \in Injection(Sentinels(rest), moved)
    BY <2>1, <2>3 DEF Injection, IsInjective
  <2>5. f \in Surjection(Sentinels(rest), moved)
    BY <2>2, <2>3 DEF Surjection
  <2> QED
    BY <2>4, <2>5 DEF Bijection
<1>4. Cardinality(moved) = Cardinality(Sentinels(rest)) /\ IsFiniteSet(moved)
  BY <1>2, <1>3, FS_Bijection DEF ExistsBijection
<1>5. Cardinality(Sentinels(rest)) \in Nat
  BY <1>2, FS_CardinalityType
<1>6. CASE Head(queue) = Done
  <2>1. Sentinels(queue) = moved \cup {1} /\ 1 \notin moved
    BY <1>1, <1>6 DEF Sentinels
  <2>2. Cardinality(Sentinels(queue)) = Cardinality(moved) + 1
    BY <1>4, <2>1, FS_AddElement
  <2> QED
    BY <1>1, <1>4, <1>5, <1>6, <2>2 DEF rest
<1>7. CASE Head(queue) # Done
  <2>1. Sentinels(queue) = moved
    BY <1>1, <1>7 DEF Sentinels
  <2> HIDE DEF moved
  <2>2. Cardinality(Sentinels(queue)) = Cardinality(Sentinels(rest)) + 0
    BY <1>4, <1>5, <2>1
  <2> QED
    BY <1>1, <1>5, <1>7, <2>2 DEF rest
<1> QED
  BY <1>6, <1>7

-----------------------------------------------------------------------------
(* The actions of the readers.                                             *)

\* What the steps below rely on.
LEMMA PoolFacts ==
  ASSUME AnswersInv
  PROVE  /\ reader \in [Reader -> ReaderState] /\ output \in Seq(Batch)
         /\ batches \in [Page -> Nat] /\ total \in 0..MaxTotal
         /\ finished \in Nat /\ next \in Nat /\ gen \in GenStates
         /\ MaxTotal \in Nat \ {0} /\ 1 \in Page /\ Worker \subseteq Reader
         /\ Main \in Reader /\ Main \notin Worker
         /\ IsFiniteSet(Worker) /\ IsFiniteSet(Alive) /\ IsFiniteSet(Stopped)
         /\ Cardinality(Alive) \in Nat /\ Cardinality(Stopped) \in Nat
<1>1. IsFiniteSet(Alive) /\ IsFiniteSet(Stopped)
  <2>1. Alive \in SUBSET Worker /\ Stopped \in SUBSET Worker
    BY DEF Alive, Stopped
  <2> QED
    BY <2>1, FS_Subset, PoolAssumption
<1>2. Cardinality(Alive) \in Nat /\ Cardinality(Stopped) \in Nat
  BY <1>1, FS_CardinalityType
<1>3. /\ MaxTotal \in Nat \ {0} /\ 1 \in Page /\ Worker \subseteq Reader
      /\ Main \in Reader /\ Main \notin Worker /\ IsFiniteSet(Worker)
  BY PoolAssumption DEF Page, Reader, Main
<1> QED
  BY <1>1, <1>2, <1>3 DEF AnswersInv, PoolInv, TypeOK

\* The parts of the invariant besides the types.
Answers ==
  /\ OnePlace /\ Unstarted /\ NoneLost /\ SentinelsInv /\ NoWorkerOutlives /\ Answered

\* A step that leaves every worker where it is, and the pages.
LEMMA SamePlaces ==
  ASSUME AnswersInv,
         UNCHANGED <<gen, total, next, output, finished, batches>>,
         \A w \in Worker : /\ reader'[w].at = reader[w].at
                                \/ (Reading(w) /\ reader'[w].at \in {"asking", "waiting"})
                           /\ reader'[w].page = reader[w].page
  PROVE  Answers'
<1>1. \A w \in Worker : /\ Reading(w)' = Reading(w)
                        /\ \A at \in {"unborn", "stopped", "cancelled"} :
                             (reader'[w].at = at) = (reader[w].at = at)
  BY DEF Reading
<1>2. Alive' = Alive /\ Stopped' = Stopped /\ Gone' = Gone
  BY <1>1 DEF Alive, Stopped, Gone
<1>3. OnePlace'
  BY <1>1 DEF AnswersInv, OnePlace, Reading
<1>4. NoneLost'
  BY <1>1 DEF AnswersInv, NoneLost, InPool, Reading
<1>5. Unstarted' /\ SentinelsInv'
  BY <1>1, <1>2 DEF AnswersInv, Unstarted, SentinelsInv, InPool, Sentinels
<1> QED
  BY <1>2, <1>3, <1>4, <1>5 DEF Answers, AnswersInv, NoWorkerOutlives, Answered

LEMMA SendKeepsAnswers ==
  ASSUME AnswersInv, NEW r \in Reader, Send(r) \/ Retry(r),
         reader[r].at \in {"asking", "waiting"}
  PROVE  Answers'
<1>1. /\ UNCHANGED <<gen, total, next, output, finished, batches>>
      /\ reader' = [reader EXCEPT ![r] = reader'[r]]
      /\ reader'[r].at \in {"asking", "waiting"} /\ reader'[r].page = reader[r].page
  BY PoolFacts, SMTT(30) DEF Send, Retry, Become, Asking, ReaderState
<1>2. \A w \in Worker : /\ reader'[w].at = reader[w].at
                             \/ (Reading(w) /\ reader'[w].at \in {"asking", "waiting"})
                        /\ reader'[w].page = reader[w].page
  BY <1>1, PoolFacts DEF Reading
<1> QED
  BY <1>1, <1>2, SamePlaces

\* The generator has page 1, one way or another, and the workers are not there yet.
LEMMA FirstKeepsAnswers ==
  ASSUME AnswersInv, gen = "first", gen' \in {"last", "yielded"}, total' \in Page,
         batches' = [batches EXCEPT ![1] = @ + 1],
         UNCHANGED <<next, output, finished>>,
         \A w \in Worker : reader'[w] = reader[w]
  PROVE  Answers'
<1>1. /\ \A w \in Worker : reader'[w].at = "unborn" /\ reader[w].at = "unborn"
      /\ output = <<>> /\ finished = 0 /\ next = 2
      /\ \A p \in Page : batches[p] = 0
  BY DEF AnswersInv, Unstarted
<1>2. /\ batches'[1] = 1 /\ \A p \in Page \ {1} : batches'[p] = 0
  BY <1>1, PoolFacts
<1>3. OnePlace'
  BY <1>1, <1>2 DEF OnePlace, Reading
<1>4. NoneLost' /\ SentinelsInv' /\ Unstarted'
  BY <1>1, <1>2 DEF NoneLost, SentinelsInv, Unstarted, InPool
<1> QED
  BY <1>3, <1>4 DEF Answers, NoWorkerOutlives, Answered

LEMMA MainStepKeepsAnswers ==
  ASSUME AnswersInv, MainStep
  PROVE  Answers'
<1>0. gen = "first" /\ reader[Main].at \in {"asking", "waiting"}
  BY DEF MainStep, Running
<1>1. CASE Send(Main) \/ Retry(Main)
  BY <1>0, <1>1, PoolFacts, SendKeepsAnswers
<1>2. CASE Starve(Main) \/ Fail(Main) \/ QuotaRejected(Main)
  <2>1. /\ gen' = "last" /\ total' = 1 /\ UNCHANGED <<next, output, finished>>
        /\ batches' = [batches EXCEPT ![1] = @ + 1]
        /\ Become(Main, Off("stopped"))
    BY <1>2 DEF Starve, Fail, QuotaRejected, GiveUp, Yield
  <2>2. \A w \in Worker : reader'[w] = reader[w]
    BY <2>1, PoolFacts DEF Become
  <2> QED
    BY <1>0, <2>1, <2>2, PoolFacts, FirstKeepsAnswers
<1>3. CASE FirstPage
  <2>1. /\ gen' = "yielded" /\ total' \in Page /\ UNCHANGED <<next, output, finished>>
        /\ batches' = [batches EXCEPT ![1] = @ + 1]
        /\ Become(Main, Off("stopped"))
    BY <1>3 DEF FirstPage, Yield
  <2>2. \A w \in Worker : reader'[w] = reader[w]
    BY <2>1, PoolFacts DEF Become
  <2> QED
    BY <1>0, <2>1, <2>2, PoolFacts, FirstKeepsAnswers
<1>4. CASE FirstPageRaises
  <2>1. /\ gen' = "raised" /\ UNCHANGED <<total, next, output, finished, batches>>
        /\ Become(Main, Off("stopped"))
    BY <1>4 DEF FirstPageRaises
  <2>2. \A w \in Worker : reader'[w] = reader[w]
    BY <2>1, PoolFacts DEF Become
  <2>3. OnePlace'
    BY <2>1, <2>2 DEF AnswersInv, OnePlace, Reading
  <2>4. NoneLost' /\ SentinelsInv' /\ Unstarted'
    BY <2>1 DEF NoneLost, SentinelsInv, Unstarted, InPool
  <2> QED
    BY <2>1, <2>3, <2>4 DEF Answers, NoWorkerOutlives, Answered
<1> QED
  BY <1>1, <1>2, <1>3, <1>4 DEF MainStep

\* A worker queues a batch for the page it has been reading, and is idle.
LEMMA DeliveryKeepsAnswers ==
  ASSUME AnswersInv, NEW w \in Worker, Running(w), Reading(w),
         NEW b \in Batch, b.page = reader[w].page,
         output' = Append(output, b), Become(w, Idle),
         UNCHANGED <<gen, total, next, finished, batches>>
  PROVE  Answers'
<1> DEFINE last == Len(output) + 1
<1>1. /\ DOMAIN output' = DOMAIN output \cup {last} /\ last \notin DOMAIN output
      /\ output'[last] = b /\ \A n \in DOMAIN output : output'[n] = output[n]
  BY PoolFacts, QueueAppend
<1>2. /\ ~Reading(w)' /\ reader'[w].at = "idle"
      /\ \A v \in Worker \ {w} : reader'[v] = reader[v] /\ Reading(v)' = Reading(v)
  BY PoolFacts DEF Become, Idle, Reading
<1>3. /\ b.page \in 2..next - 1 /\ batches[b.page] = 0 /\ b.page # 0
      /\ \A v \in Worker \ {w} : Reading(v) => reader[v].page # b.page
      /\ \A n \in DOMAIN output : output[n].page # b.page
  <2>1. /\ b.page \in 2..next - 1 /\ batches[b.page] = 0
        /\ \A v \in Worker \ {w} : Reading(v) => reader[v].page # b.page
    BY DEF AnswersInv, OnePlace
  <2>2. b.page # 0
    BY <2>1, PoolFacts
  <2>3. ASSUME NEW n \in DOMAIN output
        PROVE  output[n].page # b.page
    <3>1. CASE output[n] = Done
      BY <3>1, <2>2 DEF Done
    <3>2. CASE output[n] # Done
      BY <3>2 DEF AnswersInv, OnePlace
    <3> QED
      BY <3>1, <3>2
  <2> QED
    BY <2>1, <2>2, <2>3
<1>4. b # Done /\ Cardinality(Sentinels(output')) = Cardinality(Sentinels(output))
  <2>1. b # Done
    BY <1>3 DEF Done
  <2> QED
    BY <2>1, PoolFacts, QueueAppend
<1> HIDE DEF last
<1>5. Alive' = Alive /\ Stopped' = Stopped /\ w \in Alive \ Stopped
  BY <1>2 DEF Alive, Stopped, Reading
<1>6. OnePlace'
  <2>1. \A v \in Worker : Reading(v)' =>
          /\ reader'[v].page \in 2..next' - 1
          /\ batches'[reader'[v].page] = 0
          /\ \A u \in Worker \ {v} : Reading(u)' => reader'[u].page # reader'[v].page
    BY <1>2, SMTT(30) DEF AnswersInv, OnePlace
  <2>2. \A n \in DOMAIN output' : output'[n] # Done =>
          /\ output'[n].page \in 2..next' - 1
          /\ batches'[output'[n].page] = 0
          /\ \A v \in Worker : Reading(v)' => reader'[v].page # output'[n].page
          /\ \A m \in DOMAIN output' \ {n} : output'[m].page # output'[n].page
    BY <1>1, <1>2, <1>3 DEF AnswersInv, OnePlace
  <2> QED
    BY <2>1, <2>2 DEF AnswersInv, OnePlace, Reading
<1>7. NoneLost'
  <2> SUFFICES ASSUME InPool, NEW p \in 2..next - 1
               PROVE  \/ batches[p] = 1
                      \/ \E v \in Worker : Reading(v)' /\ reader'[v].page = p
                      \/ \E n \in DOMAIN output' : output'[n].page = p
    BY DEF AnswersInv, NoneLost, InPool, Reading
  <2>1. CASE p = b.page
    BY <2>1, <1>1
  <2>2. CASE p # b.page
    BY <2>2, <1>1, <1>2 DEF AnswersInv, NoneLost
  <2> QED
    BY <2>1, <2>2
<1>8. Unstarted' /\ SentinelsInv' /\ NoWorkerOutlives' /\ Answered'
  <2>1. gen \in {"pulling", "pooled", "abandoned"}
    BY PoolFacts DEF Running
  <2>2. \A v \in Worker : reader'[v].at = "cancelled" => reader[v].at = "cancelled"
    BY <1>2
  <2> QED
    BY <2>1, <2>2, <1>4, <1>5
       DEF AnswersInv, Unstarted, SentinelsInv, NoWorkerOutlives, Answered, InPool
<1> QED
  BY <1>6, <1>7, <1>8 DEF Answers

LEMMA TakePageKeepsAnswers ==
  ASSUME AnswersInv, NEW w \in Worker, Running(w), reader[w].at = "idle", TakePage(w)
  PROVE  Answers'
<1>1. /\ next <= total /\ next' = next + 1 /\ next \in Nat
      /\ UNCHANGED <<gen, total, output, finished, batches>>
      /\ ~Reading(w) /\ Reading(w)' /\ reader'[w].page = next /\ reader'[w].at = "asking"
      /\ \A v \in Worker \ {w} : reader'[v] = reader[v] /\ Reading(v)' = Reading(v)
  BY PoolFacts DEF TakePage, Become, Asking, Reading
<1>2. Alive' = Alive /\ Stopped' = Stopped
  BY <1>1 DEF Alive, Stopped
<1>3. next \in Page /\ total \in Nat
  BY <1>1, PoolFacts DEF AnswersInv, OnePlace, Page
<1>4. batches[next] = 0
  BY <1>1, <1>3 DEF AnswersInv, OnePlace
<1>5. OnePlace'
  <2>1. /\ next' >= 2 /\ next' <= total' + 1
        /\ \A p \in Page : batches'[p] \in {0, 1} /\ (batches'[p] = 1 => p < next')
    BY <1>1, <1>3 DEF AnswersInv, OnePlace, Page
  <2>2. ASSUME NEW v \in Worker, Reading(v)'
        PROVE  /\ reader'[v].page \in 2..next' - 1
               /\ batches'[reader'[v].page] = 0
               /\ \A u \in Worker \ {v} : Reading(u)' => reader'[u].page # reader'[v].page
    <3>1. \A u \in Worker \ {w} :
            Reading(u) => /\ reader[u].page \in 2..next - 1 /\ reader[u].page # next
                          /\ batches[reader[u].page] = 0
      BY <1>1 DEF AnswersInv, OnePlace
    <3>2. next \in 2..next' - 1
      BY <1>1 DEF AnswersInv, OnePlace
    <3>3. CASE v = w
      BY <3>1, <3>2, <3>3, <1>1, <1>4
    <3>4. CASE v # w
      <4>1. Reading(v) /\ reader'[v] = reader[v] /\ reader[v].page \in 2..next' - 1
        BY <2>2, <3>1, <3>4, <1>1
      <4>2. \A u \in Worker \ {v} : Reading(u)' => reader'[u].page # reader'[v].page
        BY <4>1, <3>1, <3>4, <1>1 DEF AnswersInv, OnePlace
      <4> QED
        BY <4>1, <4>2, <3>1, <3>4, <1>1
    <3> QED
      BY <3>3, <3>4
  <2>3. ASSUME NEW n \in DOMAIN output', output'[n] # Done
        PROVE  /\ output'[n].page \in 2..next' - 1
               /\ batches'[output'[n].page] = 0
               /\ \A v \in Worker : Reading(v)' => reader'[v].page # output'[n].page
               /\ \A m \in DOMAIN output' \ {n} : output'[m].page # output'[n].page
    <3>1. /\ output[n].page \in 2..next - 1 /\ output[n].page # next
          /\ batches[output[n].page] = 0
          /\ \A v \in Worker : Reading(v) => reader[v].page # output[n].page
          /\ \A m \in DOMAIN output \ {n} : output[m].page # output[n].page
      BY <1>1, <2>3 DEF AnswersInv, OnePlace
    <3> QED
      BY <3>1, <1>1
  <2> QED
    BY <2>1, <2>2, <2>3 DEF OnePlace, Reading
<1>6. NoneLost'
  <2> SUFFICES ASSUME InPool, NEW p \in 2..next' - 1
               PROVE  \/ batches[p] = 1
                      \/ \E v \in Worker : Reading(v)' /\ reader'[v].page = p
                      \/ \E n \in DOMAIN output : output[n].page = p
    BY <1>1 DEF AnswersInv, NoneLost, InPool, Reading
  <2>1. CASE p = next
    BY <2>1, <1>1
  <2>2. CASE p # next
    <3>1. p \in 2..next - 1
      BY <2>2, <1>1
    <3> QED
      BY <3>1, <1>1 DEF AnswersInv, NoneLost
  <2> QED
    BY <2>1, <2>2
<1>7. Unstarted' /\ SentinelsInv' /\ NoWorkerOutlives' /\ Answered'
  <2>1. gen \in {"pulling", "pooled", "abandoned"}
    BY PoolFacts DEF Running
  <2>2. \A v \in Worker : reader'[v].at = "cancelled" => reader[v].at = "cancelled"
    BY <1>1
  <2>3. InPool => Stopped = {}
    BY <1>1, <1>3 DEF AnswersInv, SentinelsInv
  <2>4. Unstarted' /\ NoWorkerOutlives' /\ Answered'
    BY <2>1, <1>1 DEF Unstarted, NoWorkerOutlives, Answered
  <2>5. SentinelsInv'
    BY <2>1, <2>2, <2>3, <1>1, <1>2 DEF AnswersInv, SentinelsInv, InPool
  <2> QED
    BY <2>4, <2>5
<1> QED
  BY <1>5, <1>6, <1>7 DEF Answers

\* A worker ends, on its own or cancelled, and leaves a sentinel.
LEMMA SentinelKeepsAnswers ==
  ASSUME AnswersInv, NEW w \in Worker,
         \/ Running(w) /\ reader[w].at = "idle" /\ TakeSentinel(w)
         \/ WorkerCancelled(w)
  PROVE  Answers'
<1> DEFINE last == Len(output) + 1
<1>1. /\ output' = Append(output, Done) /\ Done \in Batch /\ Done.page = 0
      /\ UNCHANGED <<gen, total, next, finished, batches>>
      /\ \E how \in {"stopped", "cancelled"} : Become(w, Off(how))
      /\ reader[w].at \in {"idle", "asking", "waiting"}
  BY ReaderValues DEF TakeSentinel, WorkerCancelled, Done
<1>2. /\ DOMAIN output' = DOMAIN output \cup {last} /\ last \notin DOMAIN output
      /\ output'[last] = Done /\ \A n \in DOMAIN output : output'[n] = output[n]
      /\ Len(output') = last
      /\ Cardinality(Sentinels(output)) \in Nat
      /\ Cardinality(Sentinels(output')) = Cardinality(Sentinels(output)) + 1
  BY <1>1, PoolFacts, QueueAppend
<1> HIDE DEF last
<1>3. /\ ~Reading(w)' /\ reader'[w].at \in {"stopped", "cancelled"}
      /\ \A v \in Worker \ {w} : reader'[v] = reader[v] /\ Reading(v)' = Reading(v)
  BY <1>1, PoolFacts DEF Become, Off, Reading
<1>4. OnePlace'
  <2>1. \A v \in Worker : Reading(v)' =>
          /\ reader'[v].page \in 2..next' - 1
          /\ batches'[reader'[v].page] = 0
          /\ \A u \in Worker \ {v} : Reading(u)' => reader'[u].page # reader'[v].page
    BY <1>1, <1>3 DEF AnswersInv, OnePlace
  <2>2. ASSUME NEW n \in DOMAIN output', output'[n] # Done
        PROVE  /\ output'[n].page \in 2..next' - 1
               /\ batches'[output'[n].page] = 0
               /\ \A v \in Worker : Reading(v)' => reader'[v].page # output'[n].page
               /\ \A m \in DOMAIN output' \ {n} : output'[m].page # output'[n].page
    <3>1. n \in DOMAIN output /\ output'[n] = output[n]
      BY <1>2, <2>2
    <3>2. /\ output[n].page \in 2..next - 1 /\ batches[output[n].page] = 0
          /\ \A v \in Worker : Reading(v) => reader[v].page # output[n].page
          /\ \A m \in DOMAIN output \ {n} : output[m].page # output[n].page
      BY <2>2, <3>1 DEF AnswersInv, OnePlace
    <3>3. Done.page # output[n].page
      BY <1>1, <3>2
    <3>4. \A v \in Worker : Reading(v)' => reader'[v].page # output[n].page
      BY <1>3, <3>2
    <3>5. \A m \in DOMAIN output' \ {n} : output'[m].page # output[n].page
      BY <1>2, <3>2, <3>3
    <3> QED
      BY <1>1, <3>1, <3>2, <3>4, <3>5
  <2> QED
    BY <1>1, <2>1, <2>2 DEF AnswersInv, OnePlace, Reading
<1>5. Alive' = Alive /\ w \in Alive
  BY <1>1, <1>3 DEF Alive
<1>6. CASE Running(w) /\ TakeSentinel(w)
  <2>1. /\ gen \in {"pulling", "pooled", "abandoned"} /\ next > total
        /\ InPool => reader'[w].at = "stopped" /\ reader[w].at = "idle"
    BY <1>6, PoolFacts, <1>1 DEF Running, TakeSentinel, Become, Off, WorkerCancelled, InPool
  <2>2. InPool => Stopped' = Stopped \cup {w} /\ w \notin Stopped
    BY <2>1, <1>3 DEF Stopped
  <2>3. InPool => Cardinality(Stopped') = Cardinality(Stopped) + 1
    BY <2>2, PoolFacts, FS_AddElement
  <2>4. NoneLost'
    <3> SUFFICES ASSUME InPool, NEW p \in 2..next - 1
                 PROVE  \/ batches[p] = 1
                        \/ \E v \in Worker : Reading(v)' /\ reader'[v].page = p
                        \/ \E n \in DOMAIN output' : output'[n].page = p
      BY <1>1 DEF AnswersInv, NoneLost, InPool, Reading
    <3>1. ~Reading(w)
      BY <2>1 DEF Reading
    <3> QED
      BY <3>1, <1>2, <1>3 DEF AnswersInv, NoneLost
  <2>5. SentinelsInv'
    <3>1. InPool => /\ finished < Cardinality(Alive)
                    /\ finished + Cardinality(Sentinels(output)) = Cardinality(Stopped)
                    /\ \A v \in Worker : reader'[v].at # "cancelled"
      BY <2>1, <1>3 DEF AnswersInv, SentinelsInv
    <3>2. InPool => finished + Cardinality(Sentinels(output')) = Cardinality(Stopped')
      BY <3>1, <2>3, <1>2, PoolFacts
    <3>3. gen \notin {"closing", "ended", "raised"} =>
            finished = 0 \/ finished < Cardinality(Alive)
      BY DEF AnswersInv, SentinelsInv
    <3> QED
      BY <3>1, <3>2, <3>3, <2>1, <1>1, <1>2, <1>5 DEF SentinelsInv, InPool
  <2> QED
    BY <1>1, <1>4, <2>1, <2>4, <2>5
       DEF Answers, Unstarted, NoWorkerOutlives, Answered
<1>7. CASE WorkerCancelled(w)
  <2>1. gen \in {"closing", "raised"}
    BY <1>7 DEF WorkerCancelled
  <2> QED
    BY <2>1, <1>1, <1>4, <1>5
       DEF Answers, Unstarted, NoneLost, SentinelsInv, NoWorkerOutlives, Answered, InPool,
           AnswersInv
<1> QED
  BY <1>6, <1>7

LEMMA WorkerKeepsAnswers ==
  ASSUME AnswersInv, NEW w \in Worker, WorkerStep(w) \/ WorkerCancelled(w)
  PROVE  Answers'
<1>0. w \in Reader /\ w # Main
  BY PoolFacts
<1>1. CASE WorkerCancelled(w)
  BY <1>1, SentinelKeepsAnswers
<1>2. CASE Running(w) /\ reader[w].at = "idle" /\ (TakePage(w) \/ TakeSentinel(w))
  BY <1>2, SentinelKeepsAnswers, TakePageKeepsAnswers
<1>3. CASE reader[w].at \in {"asking", "waiting"} /\ (Send(w) \/ Retry(w))
  BY <1>0, <1>3, SendKeepsAnswers
<1>4. CASE /\ Running(w) /\ reader[w].at \in {"asking", "waiting"}
           /\ Starve(w) \/ Fail(w) \/ QuotaRejected(w)
  <2>1. PICK stopping \in BOOLEAN : GiveUp(w, stopping)
    BY <1>4, PoolAssumption DEF Starve, Fail, QuotaRejected
  <2> DEFINE b == [page |-> reader[w].page, items |-> 0, warned |-> TRUE, stop |-> stopping]
  <2>2. /\ output' = Append(output, b) /\ Become(w, Idle)
        /\ UNCHANGED <<gen, total, next, finished, batches>>
    BY <1>0, <2>1 DEF GiveUp
  <2>3. b \in Batch /\ b.page = reader[w].page
    BY <1>0, PoolFacts DEF Batch, ReaderState
  <2> HIDE DEF b
  <2> QED
    BY <1>4, <2>2, <2>3, DeliveryKeepsAnswers DEF Reading
<1>5. CASE Running(w) /\ reader[w].at = "waiting" /\ PageRead(w)
  <2>1. PICK n \in PageSizes :
          output' = Append(output, [page |-> reader[w].page, items |-> n,
                                    warned |-> FALSE, stop |-> FALSE])
    BY <1>5 DEF PageRead
  <2> DEFINE b == [page |-> reader[w].page, items |-> n, warned |-> FALSE, stop |-> FALSE]
  <2>2. /\ output' = Append(output, b) /\ Become(w, Idle)
        /\ UNCHANGED <<gen, total, next, finished, batches>>
    BY <1>5, <2>1 DEF PageRead
  <2>3. b \in Batch /\ b.page = reader[w].page
    BY <1>0, PoolFacts, PoolAssumption DEF Batch, ReaderState
  <2> HIDE DEF b
  <2> QED
    BY <1>5, <2>2, <2>3, DeliveryKeepsAnswers DEF Reading
<1> QED
  BY <1>1, <1>2, <1>3, <1>4, <1>5 DEF WorkerStep


-----------------------------------------------------------------------------
(* The actions of the generator.                                           *)

LEMMA StartPoolKeepsAnswers ==
  ASSUME AnswersInv, StartPool
  PROVE  Answers'
<1>1. PICK started \in SUBSET Worker :
        /\ Cardinality(started) = AtMost(total - 1, Cardinality(Worker))
        /\ reader' = [r \in Reader |-> IF r \in started THEN Idle ELSE reader[r]]
  BY DEF StartPool
<1>2. /\ gen = "yielded" /\ total > 1
      /\ gen' = (IF Worker = {} THEN "closing" ELSE "pulling")
      /\ UNCHANGED <<total, next, output, finished, batches>>
  BY DEF StartPool
<1>3. /\ \A w \in Worker : reader[w].at = "unborn"
      /\ output = <<>> /\ finished = 0 /\ next = 2 /\ batches[1] = 1
  BY <1>2 DEF AnswersInv, Unstarted, NoneLost
<1>4. \A w \in Worker : reader'[w] = IF w \in started THEN Idle ELSE reader[w]
  BY <1>1, PoolFacts
<1>5. \A w \in Worker : /\ ~Reading(w)'
                        /\ reader'[w].at \in {"idle", "unborn"}
                        /\ reader'[w].at # "unborn" <=> w \in started
  BY <1>3, <1>4 DEF Reading, Idle
<1>6. Alive' = started /\ Stopped' = {} /\ Sentinels(output') = {}
  BY <1>2, <1>3, <1>5 DEF Alive, Stopped, Sentinels
<1>7. Cardinality(Stopped') = 0 /\ Cardinality(Sentinels(output')) = 0
  BY <1>6, FS_EmptySet
<1>8. Worker # {} => 0 < Cardinality(Alive')
  <2>1. Cardinality(Worker) \in Nat /\ (Worker # {} => Cardinality(Worker) # 0)
    BY PoolFacts, FS_CardinalityType, FS_EmptySet
  <2> QED
    BY <2>1, <1>1, <1>2, <1>6, PoolFacts DEF AtMost
<1>9. OnePlace'
  BY <1>2, <1>3, <1>5 DEF AnswersInv, OnePlace, Reading
<1>10. NoneLost' /\ SentinelsInv'
  BY <1>2, <1>3, <1>5, <1>6, <1>7, <1>8, PoolFacts DEF NoneLost, SentinelsInv, InPool
<1> QED
  BY <1>2, <1>3, <1>9, <1>10 DEF Answers, Unstarted, NoWorkerOutlives, Answered

\* Steps of the generator in which only its own place changes.
LEMMA PlaceKeepsAnswers ==
  ASSUME AnswersInv,
         EndAfterFirst \/ ResumePool \/ Close \/ Finalize \/ Abandon
  PROVE  Answers'
<1>1. UNCHANGED <<total, next, reader, output, finished, batches>>
  BY DEF EndAfterFirst, ResumePool, Close, Finalize, Abandon
<1>2. Alive' = Alive /\ Stopped' = Stopped /\ Gone' = Gone
  BY <1>1 DEF Alive, Stopped, Gone
<1>3. OnePlace'
  BY <1>1 DEF AnswersInv, OnePlace, Reading
<1>4. NoWorkerOutlives'
  <2>1. CASE EndAfterFirst
    BY <2>1, <1>2 DEF EndAfterFirst, AnswersInv, Unstarted, NoWorkerOutlives, Alive, Gone
  <2>2. CASE Close
    BY <2>2, <1>2 DEF Close, NoWorkerOutlives
  <2>3. CASE ResumePool \/ Finalize \/ Abandon
    BY <2>3 DEF ResumePool, Finalize, Abandon, NoWorkerOutlives
  <2> QED
    BY <2>1, <2>2, <2>3
<1>5. /\ gen' \in {"ended", "pulling", "closing", "abandoned"}
      /\ gen' = "pulling" => gen = "pooled"
      /\ gen' = "abandoned" => gen \in Suspended
      /\ gen' = "closing" => gen \in {"pooled", "abandoned"}
  BY DEF EndAfterFirst, ResumePool, Close, Finalize, Abandon
<1>6. NoneLost' /\ Unstarted'
  BY <1>1, <1>5 DEF AnswersInv, NoneLost, Unstarted, InPool, Reading
<1>7. SentinelsInv'
  BY <1>1, <1>2, <1>5 DEF AnswersInv, SentinelsInv, InPool, Suspended
<1>8. Answered'
  BY <1>1, <1>2, <1>5, PoolFacts DEF AnswersInv, SentinelsInv, Answered
<1> QED
  BY <1>3, <1>4, <1>6, <1>7, <1>8 DEF Answers

\* The consumer is cancelled; the workers are not touched.
LEMMA CancelKeepsAnswers ==
  ASSUME AnswersInv, Cancel
  PROVE  Answers'
<1>1. /\ UNCHANGED <<total, next, output, finished, batches>>
      /\ gen \in {"first", "pulling", "closing"}
      /\ gen' = (IF gen = "pulling" THEN "closing" ELSE "raised")
      /\ \A w \in Worker : reader'[w] = reader[w]
  BY PoolFacts DEF Cancel
<1>2. Alive' = Alive
  BY <1>1 DEF Alive
<1>3. OnePlace'
  BY <1>1 DEF AnswersInv, OnePlace, Reading
<1>4. NoneLost' /\ Unstarted' /\ SentinelsInv' /\ NoWorkerOutlives'
  BY <1>1 DEF NoneLost, Unstarted, SentinelsInv, NoWorkerOutlives, InPool
<1>5. Answered'
  BY <1>1, <1>2, PoolFacts DEF AnswersInv, SentinelsInv, Answered, InPool
<1> QED
  BY <1>3, <1>4, <1>5 DEF Answers

\* A batch leaves the output for the consumer.
LEMMA PullBatchKeepsAnswers ==
  ASSUME AnswersInv, PullBatch
  PROVE  Answers'
<1> DEFINE p == Head(output).page
<1>1. /\ gen = "pulling" /\ gen' = "pooled" /\ output # <<>> /\ Head(output) # Done
      /\ output' = Tail(output) /\ batches' = [batches EXCEPT ![p] = @ + 1]
      /\ UNCHANGED <<total, next, reader, finished>>
  BY DEF PullBatch, Yield
<1>2. /\ Len(output) \in Nat \ {0} /\ DOMAIN output = 1..Len(output)
      /\ DOMAIN output' = 1..Len(output) - 1 /\ Len(output') = Len(output) - 1
      /\ \A n \in DOMAIN output' : output'[n] = output[n + 1]
      /\ Cardinality(Sentinels(output')) \in Nat
      /\ Cardinality(Sentinels(output)) = Cardinality(Sentinels(output')) + 0
  BY <1>1, PoolFacts, QueueTail
<1>3. output[1] = Head(output) /\ output[1] \in Batch /\ 1 \in DOMAIN output
  BY <1>1, <1>2, PoolFacts
<1>4. /\ p \in 2..next - 1 /\ p \in Page /\ batches[p] = 0
      /\ \A w \in Worker : Reading(w) => reader[w].page # p
      /\ \A n \in DOMAIN output \ {1} : output[n].page # p
  <2>1. /\ p \in 2..next - 1 /\ batches[p] = 0
        /\ \A w \in Worker : Reading(w) => reader[w].page # p
        /\ \A n \in DOMAIN output \ {1} : output[n].page # p
    BY <1>1, <1>3 DEF AnswersInv, OnePlace
  <2>2. next = 2 \/ next <= total + 1
    BY DEF AnswersInv, OnePlace
  <2> HIDE DEF p
  <2>3. p \in Page
    BY <2>1, <2>2, PoolFacts DEF Page
  <2> QED
    BY <2>1, <2>3
<1> HIDE DEF p
<1>5. batches'[p] = 1 /\ \A q \in Page \ {p} : batches'[q] = batches[q]
  BY <1>1, <1>4, PoolFacts
<1>6. \A n \in DOMAIN output' : n + 1 \in DOMAIN output \ {1} /\ output'[n] = output[n + 1]
  BY <1>2
<1>7. next = 2 \/ next <= total + 1
  BY DEF AnswersInv, OnePlace
<1>8. 2..next - 1 \subseteq Page
  BY <1>7, PoolFacts DEF Page
<1>9. OnePlace'
  <2>1. \A q \in Page : batches'[q] \in {0, 1} /\ (batches'[q] = 1 => q < next')
    BY <1>1, <1>4, <1>5, PoolFacts, SMTT(30) DEF AnswersInv, OnePlace
  <2>2. ASSUME NEW w \in Worker, Reading(w)
        PROVE  /\ reader[w].page \in 2..next - 1
               /\ batches'[reader[w].page] = 0
               /\ \A v \in Worker \ {w} : Reading(v) => reader[v].page # reader[w].page
    <3>1. /\ reader[w].page \in 2..next - 1 /\ batches[reader[w].page] = 0
          /\ reader[w].page # p
          /\ \A v \in Worker \ {w} : Reading(v) => reader[v].page # reader[w].page
      BY <2>2, <1>4 DEF AnswersInv, OnePlace
    <3> QED
      BY <3>1, <1>5, <1>8
  <2>3. ASSUME NEW n \in DOMAIN output', output'[n] # Done
        PROVE  /\ output'[n].page \in 2..next - 1
               /\ batches'[output'[n].page] = 0
               /\ \A w \in Worker : Reading(w) => reader[w].page # output'[n].page
               /\ \A m \in DOMAIN output' \ {n} : output'[m].page # output'[n].page
    <3>1. n + 1 \in DOMAIN output \ {1} /\ output'[n] = output[n + 1]
      BY <1>6
    <3>2. /\ output'[n].page \in 2..next - 1 /\ batches[output'[n].page] = 0
          /\ output'[n].page # p
          /\ \A w \in Worker : Reading(w) => reader[w].page # output'[n].page
          /\ \A m \in DOMAIN output \ {n + 1} : output[m].page # output'[n].page
      BY <3>1, <2>3, <1>4 DEF AnswersInv, OnePlace
    <3>3. \A m \in DOMAIN output' \ {n} : m + 1 \in DOMAIN output \ {n + 1}
      BY <1>2
    <3> QED
      BY <3>2, <3>3, <1>5, <1>6, <1>8
  <2> QED
    BY <1>1, <1>7, <2>1, <2>2, <2>3 DEF AnswersInv, OnePlace, Reading
<1>10. NoneLost'
  <2>1. batches'[1] = 1
    BY <1>1, <1>4, <1>5, PoolFacts DEF AnswersInv, NoneLost
  <2>2. ASSUME NEW q \in 2..next - 1
        PROVE  \/ batches'[q] = 1
               \/ \E w \in Worker : Reading(w) /\ reader[w].page = q
               \/ \E n \in DOMAIN output' : output'[n].page = q
    <3>1. CASE q = p
      BY <3>1, <1>5
    <3>2. ASSUME NEW n \in DOMAIN output, output[n].page = q, q # p
          PROVE  \E m \in DOMAIN output' : output'[m].page = q
      <4>1. n # 1
        BY <3>2, <1>3 DEF p
      <4>2. n - 1 \in DOMAIN output' /\ output'[n - 1] = output[n]
        BY <4>1, <1>2
      <4> QED
        BY <3>2, <4>2
    <3>3. \/ batches[q] = 1
          \/ \E w \in Worker : Reading(w) /\ reader[w].page = q
          \/ \E n \in DOMAIN output : output[n].page = q
      BY <1>1 DEF AnswersInv, NoneLost, InPool
    <3> QED
      BY <3>1, <3>2, <3>3, <1>5, <1>8
  <2> QED
    BY <1>1, <2>1, <2>2 DEF NoneLost, InPool, Reading
<1>11. SentinelsInv'
  <2>1. Alive' = Alive /\ Stopped' = Stopped
    BY <1>1 DEF Alive, Stopped
  <2>2. output' # <<>> => /\ Len(output') \in DOMAIN output'
                          /\ output'[Len(output')] = output[Len(output)]
    <3>1. output' # <<>> => Len(output') # 0
      BY <1>1, PoolFacts, EmptySeq, SMTT(30)
    <3> QED
      BY <3>1, <1>2
  <2> QED
    BY <1>1, <1>2, <2>1, <2>2, PoolFacts DEF AnswersInv, SentinelsInv, InPool
<1> QED
  BY <1>1, <1>9, <1>10, <1>11 DEF Answers, Unstarted, NoWorkerOutlives, Answered

\* A sentinel leaves the output: when it is the last one, every page has been yielded.
LEMMA PullSentinelKeepsAnswers ==
  ASSUME AnswersInv, PullSentinel
  PROVE  Answers'
<1>1. /\ gen = "pulling" /\ output # <<>> /\ Head(output) = Done
      /\ output' = Tail(output) /\ finished' = finished + 1
      /\ gen' = (IF finished + 1 = Cardinality(Alive) THEN "closing" ELSE "pulling")
      /\ UNCHANGED <<total, next, reader, batches>>
  BY DEF PullSentinel
<1>2. /\ Len(output) \in Nat \ {0} /\ DOMAIN output = 1..Len(output)
      /\ DOMAIN output' = 1..Len(output) - 1 /\ Len(output') = Len(output) - 1
      /\ \A n \in DOMAIN output' : output'[n] = output[n + 1]
      /\ Cardinality(Sentinels(output')) \in Nat
      /\ Cardinality(Sentinels(output)) = Cardinality(Sentinels(output')) + 1
  BY <1>1, PoolFacts, QueueTail
<1>3. output[1] = Done /\ 1 \in DOMAIN output
  BY <1>1, <1>2, PoolFacts
<1>4. \A n \in DOMAIN output' : n + 1 \in DOMAIN output \ {1} /\ output'[n] = output[n + 1]
  BY <1>2
<1>5. OnePlace'
  <2>1. ASSUME NEW n \in DOMAIN output', output'[n] # Done
        PROVE  /\ output'[n].page \in 2..next - 1
               /\ batches[output'[n].page] = 0
               /\ \A w \in Worker : Reading(w) => reader[w].page # output'[n].page
               /\ \A m \in DOMAIN output' \ {n} : output'[m].page # output'[n].page
    <3>1. n + 1 \in DOMAIN output \ {1} /\ output'[n] = output[n + 1]
      BY <1>4
    <3>2. \A m \in DOMAIN output' \ {n} : m + 1 \in DOMAIN output \ {n + 1}
      BY <1>2
    <3> QED
      BY <3>1, <3>2, <2>1, <1>4 DEF AnswersInv, OnePlace
  <2> QED
    BY <2>1, <1>1 DEF AnswersInv, OnePlace, Reading
<1>6. /\ batches[1] = 1
      /\ finished < Cardinality(Alive)
      /\ finished + Cardinality(Sentinels(output)) = Cardinality(Stopped)
      /\ \A w \in Worker : reader[w].at # "cancelled"
      /\ Stopped # {} => next > total
      /\ Stopped = Alive => output[Len(output)] = Done
  BY <1>1 DEF AnswersInv, NoneLost, SentinelsInv, InPool
<1>7. \A q \in 2..next - 1 :
        \/ batches[q] = 1
        \/ \E w \in Worker : Reading(w) /\ reader[w].page = q
        \/ \E n \in DOMAIN output' : output'[n].page = q
  <2> TAKE q \in 2..next - 1
  <2>1. ASSUME NEW n \in DOMAIN output, output[n].page = q
        PROVE  \E m \in DOMAIN output' : output'[m].page = q
    <3>1. n # 1
      BY <2>1, <1>3 DEF Done
    <3>2. n - 1 \in DOMAIN output' /\ output'[n - 1] = output[n]
      BY <3>1, <1>2
    <3> QED
      BY <2>1, <3>2
  <2> QED
    BY <2>1, <1>1 DEF AnswersInv, NoneLost, InPool
<1>8. Alive' = Alive /\ Stopped' = Stopped /\ Stopped \subseteq Alive
  BY <1>1 DEF Alive, Stopped
<1>9. CASE finished + 1 = Cardinality(Alive)
  <2>1. gen' = "closing"
    BY <1>1, <1>9
  <2>2. Cardinality(Stopped) = Cardinality(Alive)
    <3>1. Cardinality(Stopped) <= Cardinality(Alive)
      BY <1>8, PoolFacts, FS_Subset
    <3> QED
      BY <3>1, <1>2, <1>6, <1>9, PoolFacts, SMTT(30)
  <2>3. Stopped = Alive /\ Stopped # {}
    <3>1. Stopped = Alive
      BY <2>2, <1>8, PoolFacts, FS_Subset
    <3>2. Cardinality(Stopped) # 0
      BY <2>2, <1>9, PoolFacts
    <3> QED
      BY <3>1, <3>2, FS_EmptySet
  <2>4. output' = <<>>
    <3>1. Cardinality(Sentinels(output')) = 0
      BY <2>2, <1>2, <1>6, <1>9, PoolFacts, SMTT(30)
    <3>2. IsFiniteSet(Sentinels(output'))
      <4>1. IsFiniteSet(1..Len(output))
        BY <1>2, FS_Interval
      <4>2. Sentinels(output') \in SUBSET (1..Len(output))
        BY <1>2 DEF Sentinels
      <4> QED
        BY <4>1, <4>2, FS_Subset
    <3>3. Sentinels(output') = {}
      BY <3>1, <3>2, FS_EmptySet
    <3>4. output[Len(output)] = Done
      BY <2>3, <1>6
    <3>5. Len(output) = 1
      <4> SUFFICES ASSUME Len(output) # 1
                   PROVE  FALSE
        OBVIOUS
      <4>1. /\ Len(output) - 1 \in DOMAIN output'
            /\ output'[Len(output) - 1] = output[Len(output)]
        BY <1>2
      <4> QED
        BY <4>1, <3>3, <3>4 DEF Sentinels
    <3>6. output' \in Seq(Batch) /\ Len(output') = 0
      BY <3>5, <1>1, <1>2, PoolFacts
    <3> QED
      BY <3>6, EmptySeq
  <2>5. \A w \in Worker : ~Reading(w)
    BY <2>3 DEF Reading, Stopped, Alive
  <2>6. \A q \in 1..total : batches[q] = 1
    <3> TAKE q \in 1..total
    <3>1. CASE q = 1
      BY <3>1, <1>6
    <3>2. CASE q # 1
      <4>1. q \in 2..next - 1
        BY <3>2, <2>3, <1>6, PoolFacts
      <4>2. DOMAIN output' = {}
        BY <2>4
      <4> QED
        BY <4>1, <4>2, <2>5, <1>7
    <3> QED
      BY <3>1, <3>2
  <2> QED
    BY <2>1, <2>6, <1>1, <1>5
       DEF Answers, Unstarted, NoneLost, SentinelsInv, NoWorkerOutlives, Answered, InPool
<1>10. CASE finished + 1 # Cardinality(Alive)
  <2>1. gen' = "pulling"
    BY <1>1, <1>10
  <2>2. NoneLost'
    BY <2>1, <1>1, <1>6, <1>7 DEF NoneLost, InPool, Reading
  <2>3. output' # <<>> => output'[Len(output')] = output[Len(output)]
    <3>1. output' # <<>> => Len(output') # 0
      BY <1>1, PoolFacts, EmptySeq, SMTT(30)
    <3> QED
      BY <3>1, <1>2
  <2>4. /\ finished' < Cardinality(Alive)
        /\ finished' + Cardinality(Sentinels(output')) = Cardinality(Stopped)
    <3>1. finished' = finished + 1 /\ finished' # Cardinality(Alive)
      BY <1>1, <1>10
    <3>2. finished' < Cardinality(Alive)
      BY <3>1, <1>6, PoolFacts
    <3> QED
      BY <3>1, <3>2, <1>2, <1>6, PoolFacts
  <2>5. SentinelsInv'
    BY <2>1, <2>3, <2>4, <1>1, <1>6, <1>8 DEF SentinelsInv, InPool
  <2> QED
    BY <2>1, <2>2, <2>5, <1>5 DEF Answers, Unstarted, NoWorkerOutlives, Answered
<1> QED
  BY <1>9, <1>10

-----------------------------------------------------------------------------
LEMMA InitAnswers ==
  ASSUME Init
  PROVE  AnswersInv
<1>1. PoolInv
  BY PoolInit
<1>2. /\ gen = "first" /\ total = 0 /\ finished = 0 /\ next = 2 /\ output = <<>>
      /\ \A w \in Worker : reader[w].at = "unborn"
      /\ \A p \in Page : batches[p] = 0
  BY PoolAssumption DEF Init, Reader, Main, Off
<1> QED
  BY <1>1, <1>2 DEF AnswersInv, OnePlace, Unstarted, NoneLost, SentinelsInv, InPool, Reading,
                    NoWorkerOutlives, Answered

LEMMA NextKeepsAnswersInv ==
  ASSUME AnswersInv, [Next]_pvars
  PROVE  AnswersInv'
<1>1. PoolInv'
  BY NextKeepsPoolInv DEF AnswersInv
<1>2. CASE UNCHANGED pvars
  <2>1. \A w \in Worker : reader'[w] = reader[w]
    BY <1>2 DEF pvars
  <2>2. UNCHANGED <<gen, total, next, output, finished, batches>>
    BY <1>2 DEF pvars
  <2> QED
    BY <2>1, <2>2, <1>1, SamePlaces DEF Answers, AnswersInv
<1>3. CASE Next
  <2>1. Answers'
    BY <1>3, MainStepKeepsAnswers, WorkerKeepsAnswers, StartPoolKeepsAnswers,
       PlaceKeepsAnswers, CancelKeepsAnswers, PullBatchKeepsAnswers,
       PullSentinelKeepsAnswers DEF Next, GeneratorStep
  <2> QED
    BY <2>1, <1>1 DEF Answers, AnswersInv
<1> QED
  BY <1>2, <1>3

\* The inductive invariant of the pool: where each page and each sentinel is, at every
\* point of pages(), however its workers interleave, fail or are cancelled.
THEOREM PoolAnswers == Spec => []AnswersInv
<1>1. Init => AnswersInv
  BY InitAnswers
<1>2. AnswersInv /\ [Next]_pvars => AnswersInv'
  BY NextKeepsAnswersInv
<1> QED
  BY <1>1, <1>2, PTL DEF Spec

\* JE-023, for every number of workers, pages and failures: no page is yielded twice, and
\* a pool that ends because its last worker left has answered every page.
THEOREM EveryPageAlwaysAnswered == Spec => []EveryPageAnswered
<1>1. AnswersInv => EveryPageAnswered
  BY PoolFacts DEF AnswersInv, OnePlace, Answered, EveryPageAnswered
<1> QED
  BY <1>1, PoolAnswers, PTL

\* The finally clause of pages(): whichever way the generator came to its end, no worker
\* is left that could still send a request.
THEOREM NoWorkerEverOutlives == Spec => []NoWorkerOutlives
<1>1. AnswersInv => NoWorkerOutlives
  BY DEF AnswersInv
<1> QED
  BY <1>1, PoolAnswers, PTL
=============================================================================
