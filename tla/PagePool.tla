------------------------------- MODULE PagePool -------------------------------
(***************************************************************************)
(* The page pool of the two paginating providers, providers/himalayas.py   *)
(* and providers/adzuna.py: one call of pages(filters).                    *)
(*                                                                         *)
(* The async generator reads page 1 itself, then lets a pool of worker     *)
(* tasks read the others from a queue and yields their batches in the      *)
(* order they complete.  All of them share one request budget, and every   *)
(* batch is charged to one result cap.  A worker that stops puts a         *)
(* sentinel in the output, which is how the generator knows it may end.    *)
(*                                                                         *)
(* The two files differ in one thing: Adzuna has a daily quota, and gives  *)
(* up the pool when the quota or the request budget is exhausted           *)
(* (HasQuota).  Results are counted, not listed.                           *)
(***************************************************************************)
EXTENDS Naturals, Sequences, FiniteSets

CONSTANTS
  Worker,         \* worker tasks the configured concurrency allows
  HasQuota,       \* TRUE: adzuna.py, FALSE: himalayas.py
  RequestBudget,  \* requests one search may send
  ResultCap,      \* results one search may yield
  MaxRetries,     \* attempts per page
  PageSizes,      \* results a page may hold
  MaxTotal        \* bound: pages a provider announces

ASSUME PoolAssumption ==
  /\ IsFiniteSet(Worker)
  /\ "main" \notin Worker
  /\ HasQuota \in BOOLEAN
  /\ {RequestBudget, ResultCap} \subseteq Nat
  /\ {MaxRetries, MaxTotal} \subseteq Nat \ {0}
  /\ PageSizes \subseteq Nat

VARIABLES
  gen,       \* where the generator is, see GenStates
  total,     \* total_pages, 0 before page 1 is read
  left,      \* budget._remaining
  sent,      \* requests handed to the transport
  accepted,  \* results yielded so far
  next,      \* next page in `queue`; beyond `total` the queue holds sentinels
  reader,    \* what the generator and the workers do
  output,    \* the output queue: batches and Done
  finished,  \* sentinels the generator has taken
  stop,      \* the batch yielded last says that the pool is to be given up
  batches,   \* page -> batches yielded for it
  told       \* some batch yielded carried a warning

pvars == <<gen, total, left, sent, accepted, next, reader, output, finished, stop,
           batches, told>>

\* "first": reading page 1.  "last": suspended at a yield it ends after.
\* "yielded": suspended at the yield of page 1.  "pulling": waiting for the output
\* queue.  "pooled": suspended at a yield of the pool.  "abandoned": the consumer
\* broke off and the event loop has yet to close the generator.  "closing": in the
\* finally clause, waiting for the workers.  "ended", "raised": done.
GenStates == {"first", "last", "yielded", "pulling", "pooled", "abandoned", "closing",
              "ended", "raised"}
Suspended == {"last", "yielded", "pooled"}

Main == "main"
Reader == Worker \cup {Main}
Page == 1..MaxTotal
\* What the output holds: a page's batch, or the sentinel a worker leaves, page 0.
Batch == [page : 0..MaxTotal, items : Nat, warned : BOOLEAN, stop : BOOLEAN]
Done == [page |-> 0, items |-> 0, warned |-> FALSE, stop |-> FALSE]
\* A reader is idle, about to send attempt `attempt` for a page, or waiting for the
\* answer; a worker that is done is "stopped", one that was cancelled "cancelled".
ReaderState == [at : {"unborn", "idle", "asking", "waiting", "stopped", "cancelled"},
                page : 0..MaxTotal, attempt : 0..MaxRetries]

Idle == [at |-> "idle", page |-> 0, attempt |-> 0]
Asking(page, attempt) == [at |-> "asking", page |-> page, attempt |-> attempt]
Off(how) == [at |-> how, page |-> 0, attempt |-> 0]
Become(r, how) == reader' = [reader EXCEPT ![r] = how]

Init ==
  /\ gen = "first"
  /\ total = 0 /\ accepted = 0 /\ finished = 0 /\ sent = 0
  /\ left = RequestBudget
  /\ next = 2
  /\ reader = [r \in Reader |-> IF r = Main THEN Asking(1, 1) ELSE Off("unborn")]
  /\ output = <<>>
  /\ stop = FALSE /\ told = FALSE
  /\ batches = [p \in Page |-> 0]

-----------------------------------------------------------------------------
(* The result cap: cap() and the truncation warning beside it.             *)

AtMost(n, room) == IF n <= room THEN n ELSE room

\* Wrong variant: the cap bounds each batch, not their sum.
YieldUncapped(page, n, warned, pages) ==
  /\ accepted' = accepted + AtMost(n, ResultCap)
  /\ batches' = [batches EXCEPT ![page] = @ + 1]
  /\ told' = (told \/ warned \/ n > ResultCap)

\* Yield n results of a page, as many as the cap admits.  Results that are cut off
\* are reported, and so are pages that follow once the cap is reached.
Yield(page, n, warned, pages) ==
  LET kept == AtMost(n, ResultCap - accepted)
  IN /\ accepted' = accepted + kept
     /\ batches' = [batches EXCEPT ![page] = @ + 1]
     /\ told' = (told \/ warned \/ kept < n
                      \/ (accepted + kept >= ResultCap /\ page < pages))

Full == accepted >= ResultCap

-----------------------------------------------------------------------------
(* One request: _request_page.                                             *)

\* Readers act while the generator or an abandoned pool runs.
Running(r) ==
  IF r = Main THEN gen = "first"
  ELSE gen \in {"pulling", "pooled", "abandoned"}

\* Wrong variant: a worker that fails to read a page goes on to the next one.
GiveUpSilently(r, stopping) ==
  /\ r # Main
  /\ Become(r, Idle)
  /\ UNCHANGED <<gen, total, accepted, next, output, finished, stop, batches, told>>

\* The answer of a reader that gives up: no results, a warning.
GiveUp(r, stopping) ==
  IF r = Main
  THEN /\ gen' = "last"
       /\ total' = 1
       /\ Yield(1, 0, TRUE, 1)
       /\ Become(Main, Off("stopped"))
       /\ UNCHANGED <<next, output, finished, stop>>
  ELSE /\ output' = Append(output, [page |-> reader[r].page, items |-> 0,
                                    warned |-> TRUE, stop |-> stopping])
       /\ Become(r, Idle)
       /\ UNCHANGED <<gen, total, accepted, next, finished, stop, batches, told>>

\* budget.consume() succeeds and the request is handed to the transport.
Send(r) ==
  /\ left > 0
  /\ left' = left - 1
  /\ sent' = sent + 1
  /\ Become(r, [reader[r] EXCEPT !.at = "waiting"])
  /\ UNCHANGED <<gen, total, accepted, next, output, finished, stop, batches, told>>

\* budget.consume() fails.
Starve(r) ==
  /\ left = 0
  /\ GiveUp(r, HasQuota)
  /\ UNCHANGED <<left, sent>>

\* 429, 5xx, a timeout or a transport error: another attempt, if there is one.
Retry(r) ==
  /\ reader[r].attempt < MaxRetries
  /\ Become(r, Asking(reader[r].page, reader[r].attempt + 1))
  /\ UNCHANGED <<gen, total, left, sent, accepted, next, output, finished, stop,
                 batches, told>>

\* The same on the last attempt, or a payload that cannot be used.
Fail(r) ==
  /\ GiveUp(r, FALSE)
  /\ UNCHANGED <<left, sent>>

\* Adzuna's daily quota is exhausted: no retry.
QuotaRejected(r) ==
  /\ HasQuota
  /\ GiveUp(r, TRUE)
  /\ UNCHANGED <<left, sent>>

-----------------------------------------------------------------------------
(* Page 1, read by the generator itself.                                   *)

FirstPage ==
  /\ \E n \in PageSizes, pages \in Page :
       /\ total' = pages
       /\ Yield(1, n, FALSE, pages)
  /\ gen' = "yielded"
  /\ Become(Main, Off("stopped"))
  /\ UNCHANGED <<left, sent, next, output, finished, stop>>

\* The body is not JSON: nothing catches that here, the generator raises.
FirstPageRaises ==
  /\ gen' = "raised"
  /\ Become(Main, Off("stopped"))
  /\ UNCHANGED <<total, left, sent, accepted, next, output, finished, stop, batches,
                 told>>

MainStep ==
  /\ Running(Main)
  /\ \/ /\ reader[Main].at = "asking"
        /\ Send(Main) \/ Starve(Main)
     \/ /\ reader[Main].at = "waiting"
        /\ \/ FirstPage
           \/ FirstPageRaises
           \/ Retry(Main)
           \/ Fail(Main)
           \/ QuotaRejected(Main)

-----------------------------------------------------------------------------
(* The workers.                                                            *)

\* queue.get() returns a page.
TakePage(w) ==
  /\ next <= total
  /\ next' = next + 1
  /\ Become(w, Asking(next, 1))
  /\ UNCHANGED <<gen, total, left, sent, accepted, output, finished, stop, batches,
                 told>>

\* Wrong variant: a worker that ends leaves no sentinel.
TakeSentinelQuietly(w) ==
  /\ next > total
  /\ Become(w, Off("stopped"))
  /\ UNCHANGED <<gen, total, left, sent, accepted, next, output, finished, stop,
                 batches, told>>

\* queue.get() returns None: the worker ends, and its finally clause says so.
TakeSentinel(w) ==
  /\ next > total
  /\ Become(w, Off("stopped"))
  /\ output' = Append(output, Done)
  /\ UNCHANGED <<gen, total, left, sent, accepted, next, finished, stop, batches, told>>

\* The page is read.
PageRead(w) ==
  /\ \E n \in PageSizes :
       output' = Append(output, [page |-> reader[w].page, items |-> n,
                                 warned |-> FALSE, stop |-> FALSE])
  /\ Become(w, Idle)
  /\ UNCHANGED <<gen, total, left, sent, accepted, next, finished, stop, batches, told>>

WorkerStep(w) ==
  /\ Running(w)
  /\ \/ reader[w].at = "idle" /\ (TakePage(w) \/ TakeSentinel(w))
     \/ reader[w].at = "asking" /\ (Send(w) \/ Starve(w))
     \/ /\ reader[w].at = "waiting"
        /\ PageRead(w) \/ Retry(w) \/ Fail(w) \/ QuotaRejected(w)

\* In the finally clause every worker has been cancelled: its next step raises
\* CancelledError, whatever it was doing.
WorkerCancelled(w) ==
  /\ gen \in {"closing", "raised"}
  /\ reader[w].at \in {"idle", "asking", "waiting"}
  /\ Become(w, Off("cancelled"))
  /\ output' = Append(output, Done)
  /\ UNCHANGED <<gen, total, left, sent, accepted, next, finished, stop, batches, told>>

-----------------------------------------------------------------------------
(* The generator.                                                          *)

Alive == {w \in Worker : reader[w].at # "unborn"}
Gone == {w \in Worker : reader[w].at \in {"stopped", "cancelled"}}

\* The consumer asks for the batch after page 1: done, or start the pool, as many
\* workers as there are pages left, at most as configured.  Nothing keeps a configured
\* concurrency above 0: without workers the generator ends there and then.
StartPool ==
  /\ gen = "yielded"
  /\ total > 1 /\ ~Full
  /\ \E started \in SUBSET Worker :
       /\ Cardinality(started) = AtMost(total - 1, Cardinality(Worker))
       /\ reader' = [r \in Reader |-> IF r \in started THEN Idle ELSE reader[r]]
  /\ gen' = IF Worker = {} THEN "closing" ELSE "pulling"
  /\ UNCHANGED <<total, left, sent, accepted, next, output, finished, stop, batches,
                 told>>

EndAfterFirst ==
  /\ \/ gen = "last"
     \/ gen = "yielded" /\ (total <= 1 \/ Full)
  /\ gen' = "ended"
  /\ UNCHANGED <<total, left, sent, accepted, next, reader, output, finished, stop,
                 batches, told>>

\* output.get() returns a sentinel; after the last one the generator is done.
PullSentinel ==
  /\ gen = "pulling"
  /\ output # <<>> /\ Head(output) = Done
  /\ output' = Tail(output)
  /\ finished' = finished + 1
  /\ gen' = IF finished + 1 = Cardinality(Alive) THEN "closing" ELSE "pulling"
  /\ UNCHANGED <<total, left, sent, accepted, next, reader, stop, batches, told>>

\* output.get() returns a batch, which is capped and yielded.
PullBatch ==
  /\ gen = "pulling"
  /\ output # <<>> /\ Head(output) # Done
  /\ LET b == Head(output)
     IN Yield(b.page, b.items, b.warned, total) /\ stop' = b.stop
  /\ output' = Tail(output)
  /\ gen' = "pooled"
  /\ UNCHANGED <<total, left, sent, next, reader, finished>>

\* The consumer asks for more: break at the cap or on a stop, else go on pulling.
ResumePool ==
  /\ gen = "pooled"
  /\ gen' = IF Full \/ stop THEN "closing" ELSE "pulling"
  /\ UNCHANGED <<total, left, sent, accepted, next, reader, output, finished, stop,
                 batches, told>>

\* Wrong variant: the generator does not wait for its workers.
CloseUnreaped ==
  /\ gen = "closing"
  /\ gen' = "ended"
  /\ UNCHANGED <<total, left, sent, accepted, next, reader, output, finished, stop,
                 batches, told>>

\* gather() over the workers returned.
Close ==
  /\ gen = "closing"
  /\ Gone = Alive
  /\ gen' = "ended"
  /\ UNCHANGED <<total, left, sent, accepted, next, reader, output, finished, stop,
                 batches, told>>

\* The consumer breaks out of `async for`: the aggregate ceiling is reached.
Abandon ==
  /\ gen \in Suspended
  /\ gen' = "abandoned"
  /\ UNCHANGED <<total, left, sent, accepted, next, reader, output, finished, stop,
                 batches, told>>

\* The event loop runs aclose() on the generator nobody holds.
Finalize ==
  /\ gen = "abandoned"
  /\ gen' = "closing"
  /\ UNCHANGED <<total, left, sent, accepted, next, reader, output, finished, stop,
                 batches, told>>

\* The search is discarded: the consumer is cancelled while it waits in here, before
\* the pool exists, in the pool, or in the finally clause.
Cancel ==
  /\ gen \in {"first", "pulling", "closing"}
  /\ gen' = IF gen = "pulling" THEN "closing" ELSE "raised"
  /\ reader' = [reader EXCEPT ![Main] = Off("stopped")]
  /\ UNCHANGED <<total, left, sent, accepted, next, output, finished, stop, batches,
                 told>>

GeneratorStep ==
  \/ StartPool \/ EndAfterFirst \/ PullSentinel \/ PullBatch \/ ResumePool
  \/ Close \/ Finalize

Next ==
  \/ MainStep
  \/ \E w \in Worker : WorkerStep(w) \/ WorkerCancelled(w)
  \/ GeneratorStep
  \/ Abandon \/ Cancel

Spec == Init /\ [][Next]_pvars

\* Every request has a timeout, the loop runs every ready task, and the consumer of
\* live.py asks for the next batch as soon as it has applied one.
PoolFairness ==
  /\ WF_pvars(MainStep)
  /\ WF_pvars(GeneratorStep)
  /\ \A w \in Worker : WF_pvars(WorkerStep(w)) /\ WF_pvars(WorkerCancelled(w))

FairSpec == Spec /\ PoolFairness
-----------------------------------------------------------------------------
(* Correctness. *)

\* The counters and queues hold what they are declared to hold.
TypeOK ==
  /\ gen \in GenStates
  /\ total \in 0..MaxTotal
  /\ left \in Nat /\ sent \in Nat /\ accepted \in Nat /\ finished \in Nat
  /\ next \in Nat
  /\ reader \in [Reader -> ReaderState]
  /\ output \in Seq(Batch)
  /\ stop \in BOOLEAN /\ told \in BOOLEAN
  /\ batches \in [Page -> Nat]

\* JE-023 criterion 8: retries consume attempts, and concurrent pagination cannot
\* overshoot either ceiling.
CeilingsKept ==
  /\ sent + left = RequestBudget
  /\ accepted <= ResultCap

\* No page is yielded twice; and when the generator ends by itself, a page was left
\* out only because the cap was reached or the pool was given up.
EveryPageAnswered ==
  /\ \A p \in Page : batches[p] <= 1
  /\ gen = "closing" /\ finished > 0 /\ finished = Cardinality(Alive) =>
       \A p \in 1..total : batches[p] = 1

\* The finally clause: no worker is left behind, sending requests for a search that
\* is over, once the generator has returned.
NoWorkerOutlives == gen = "ended" => Gone = Alive

\* The generator ends and so do its workers, however they fail: each of them releases
\* the generator (himalayas.py 374: a worker that stops for any reason still releases
\* the consumer).
EventuallyEnds == <>[](gen \in {"ended", "raised"} /\ Gone = Alive)

\* JE-023: reaching an item ceiling marks the affected search partial.  A generator
\* that ends by itself having left out a page has yielded a warning.
NothingLostSilently ==
  gen = "closing" /\ Full /\ (\E p \in 1..total : batches[p] = 0) => told
=============================================================================
