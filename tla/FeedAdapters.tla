----------------------------- MODULE FeedAdapters -----------------------------
(***************************************************************************)
(* The adapters that read one document per search: providers/remotive.py,  *)
(* jobicy.py, remoteok.py and weworkremotely.py, one call of               *)
(* pages(filters) each.                                                    *)
(*                                                                         *)
(* The generator asks for the document, with retries, normalizes its rows  *)
(* up to a cap, and yields them as one or several batches; what it cannot  *)
(* deliver it says in a warning.  The consumer of search/live.py takes the *)
(* batches one by one and may break off or be cancelled.                   *)
(*                                                                         *)
(* A row is what the adapters look at in it; a result is the position of   *)
(* its row.  Waiting times (_retry_delay) are left out.  The adapter and   *)
(* its limits are those the registry has built from the settings.          *)
(***************************************************************************)
EXTENDS Registry, SequencesExt

CONSTANTS
  Configurations,  \* the settings checked
  Feeds,           \* documents: finite sequences of rows
  SourceLimit      \* the most rows each source sends for one request

AdapterKeys == {"remotive", "jobicy", "remoteok", "weworkremotely"}

\* object: a JSON object, or an RSS item with a title and a link or guid.
\* named: it has an id and a title (RemoteOK: and is not the legal notice; We Work
\* Remotely: a role after the colon).  valid: JobResult accepts it.
\* stamped: its publication time can be represented (sound) or is a number out of
\* range.  paid: its salary, where it has one, is a number.
Row == [object : BOOLEAN, named : BOOLEAN, valid : BOOLEAN, stamped : BOOLEAN,
        paid : BOOLEAN]

ASSUME FeedAssumption ==
  /\ Configurations \subseteq Settings([OptionNames -> {Absent, Junk} \cup Int])
  /\ \A feed \in Feeds : feed \in Seq(Row)
  /\ SourceLimit \in [AdapterKeys \ {"remoteok"} -> Nat \ {0}]

VARIABLES
  settings, \* what the process was started with
  adapter,  \* whose pages() this is
  broad,    \* _is_broad_search(filters)
  gen,      \* where the generator is, see GenStates
  attempt,  \* the number of the request sent last
  feed,     \* the rows of the document, once it is there
  more,     \* the provider has listings beyond those rows
  todo,     \* batches still to be yielded
  yielded   \* batches the consumer has taken

fvars == <<settings, adapter, broad, gen, attempt, feed, more, todo, yielded>>

\* "waiting": for an answer.  "pausing": asleep before the next attempt.
\* "suspended": at a yield.  "abandoned": the consumer broke off at one.
GenStates == {"waiting", "pausing", "suspended", "ended", "abandoned", "cancelled",
              "raised"}

BatchOf == [items : Seq(Nat), page : Nat, pages : Nat, warned : BOOLEAN]

Cap == ResultCapOf(settings, adapter)
BatchSize == BatchSizeOf(settings, adapter)
MaxRetries == RequestBudgetOf(settings, adapter)

Init ==
  /\ settings \in Configurations /\ ~Refused(settings)
  /\ adapter \in BuildProviders(settings) \cap AdapterKeys
  /\ broad \in BOOLEAN
  /\ gen = "waiting"
  /\ attempt = 1
  /\ feed = <<>> /\ more = FALSE
  /\ todo = <<>> /\ yielded = <<>>

-----------------------------------------------------------------------------
(* normalize_job of each adapter: "job", "skip" (None), or "raise".        *)

\* Only ValidationError is caught; an unrepresentable time raises before the result
\* is validated.  Free-text salaries that do not parse are left out.
RemotiveFate(row) ==
  IF ~row.named THEN "skip"
  ELSE IF ~row.stamped THEN "raise"
  ELSE IF row.valid THEN "job" ELSE "skip"

\* Decimal() of a salary that is not a number raises InvalidOperation, which is
\* neither of the exceptions _annual_salary catches.
JobicyFate(row) ==
  IF ~row.named THEN "skip"
  ELSE IF ~row.paid \/ ~row.stamped THEN "raise"
  ELSE IF row.valid THEN "job" ELSE "skip"

\* Wrong variant: nothing catches a ValidationError.
RemoteOKFateUncaught(row) ==
  IF ~row.named THEN "skip"
  ELSE IF row.stamped /\ row.valid THEN "job" ELSE "raise"

RemoteOKFate(row) ==
  IF ~row.named THEN "skip"
  ELSE IF ~row.stamped THEN "raise"
  ELSE IF row.valid THEN "job" ELSE "skip"

\* Feeds carry no salary.
WeWorkRemotelyFate(row) ==
  IF ~row.named THEN "skip"
  ELSE IF ~row.stamped THEN "raise"
  ELSE IF row.valid THEN "job" ELSE "skip"

FateOf(row) ==
  CASE adapter = "remotive" -> RemotiveFate(row)
    [] adapter = "jobicy" -> JobicyFate(row)
    [] adapter = "remoteok" -> RemoteOKFate(row)
    [] adapter = "weworkremotely" -> WeWorkRemotelyFate(row)

-----------------------------------------------------------------------------
(* The rows a document yields.                                             *)

Objects(rows) == {i \in DOMAIN rows : rows[i].object}
Jobs(rows) == {i \in Objects(rows) : FateOf(rows[i]) = "job"}
JobsBefore(rows, i) == Cardinality({j \in Jobs(rows) : j < i})
ObjectsBefore(rows, i) == Cardinality({j \in Objects(rows) : j < i})

\* The JSON adapters stop at the row after the one that filled the cap.
Reached(rows) == {i \in Objects(rows) : JobsBefore(rows, i) < Cap}
HitCap(rows) == Objects(rows) \ Reached(rows) # {}

\* We Work Remotely takes the first Cap entries that parse_feed returns.
Entries(rows) == {i \in Objects(rows) : ObjectsBefore(rows, i) < Cap}

Examined(rows) == IF adapter = "weworkremotely" THEN Entries(rows) ELSE Reached(rows)

\* The results in the order of the document.
Normalized(rows) ==
  LET kept == Examined(rows) \cap Jobs(rows)
  IN [n \in 1..Cardinality(kept) |->
        CHOOSE i \in kept : Cardinality({j \in kept : j < i}) = n - 1]

NormalizingRaises(rows) == \E i \in Examined(rows) : FateOf(rows[i]) = "raise"

-----------------------------------------------------------------------------
(* The batches made of them.                                               *)

\* An empty batch that only carries a warning.
Apology == <<[items |-> <<>>, page |-> 1, pages |-> 1, warned |-> TRUE]>>

OneBatch(items, warned) ==
  IF items = <<>> THEN Apology
  ELSE <<[items |-> items, page |-> 1, pages |-> 1, warned |-> warned]>>

AtMost(n, limit) == IF n <= limit THEN n ELSE limit

\* Wrong variant: the quotient is rounded down.
SplitDown(items, size, warned) ==
  LET pages == IF Len(items) < size THEN 1 ELSE Len(items) \div size
  IN IF items = <<>> THEN Apology
     ELSE [k \in 1..pages |->
             [items |-> SubSeq(items, (k - 1) * size + 1, AtMost(k * size, Len(items))),
              page |-> k, pages |-> pages, warned |-> warned /\ k = 1]]

\* Batches of `size` results; the first one carries the warnings.
Split(items, size, warned) ==
  LET pages == (Len(items) + size - 1) \div size
  IN IF items = <<>> THEN Apology
     ELSE [k \in 1..pages |->
             [items |-> SubSeq(items, (k - 1) * size + 1, AtMost(k * size, Len(items))),
              page |-> k, pages |-> pages, warned |-> warned /\ k = 1]]

\* Remotive says how many listings it has (total-job-count), in `counted`.
RemotiveBatches(rows, counted) ==
  OneBatch(Normalized(rows),
           broad /\ (HitCap(rows) \/ Len(rows) >= Cap \/ counted))

\* Wrong variant: only what the adapter itself cuts off is reported.
JobicyBatchesTrusting(rows) == OneBatch(Normalized(rows), broad /\ HitCap(rows))

JobicyBatches(rows) ==
  OneBatch(Normalized(rows), broad /\ (HitCap(rows) \/ Len(rows) >= Cap))

RemoteOKBatches(rows) == Split(Normalized(rows), Cap, HitCap(rows))

WeWorkRemotelyBatches(rows) ==
  Split(Normalized(rows), BatchSize, Cardinality(Objects(rows)) >= Cap)

BatchesOf(rows, counted) ==
  CASE adapter = "remotive" -> RemotiveBatches(rows, counted)
    [] adapter = "jobicy" -> JobicyBatches(rows)
    [] adapter = "remoteok" -> RemoteOKBatches(rows)
    [] adapter = "weworkremotely" -> WeWorkRemotelyBatches(rows)

-----------------------------------------------------------------------------
(* The request: _request.                                                  *)

\* Hand the first of some batches to the consumer, keeping the others.
Deliver(batches) ==
  /\ gen' = "suspended"
  /\ yielded' = Append(yielded, Head(batches))
  /\ todo' = Tail(batches)

\* 429, 5xx, a timeout, or any other HTTP error, and an attempt is left: sleep.
Retry ==
  /\ gen = "waiting"
  /\ attempt < MaxRetries
  /\ gen' = "pausing"
  /\ UNCHANGED <<settings, adapter, broad, attempt, feed, more, todo, yielded>>

Wake ==
  /\ gen = "pausing"
  /\ gen' = "waiting"
  /\ attempt' = attempt + 1
  /\ UNCHANGED <<settings, adapter, broad, feed, more, todo, yielded>>

\* Wrong variant: the generator returns without a word.
GiveUpSilently ==
  /\ gen = "waiting"
  /\ attempt = MaxRetries
  /\ gen' = "ended"
  /\ UNCHANGED <<settings, adapter, broad, attempt, feed, more, todo, yielded>>

\* The same on the last attempt.
GiveUp ==
  /\ gen = "waiting"
  /\ attempt = MaxRetries
  /\ Deliver(Apology)
  /\ UNCHANGED <<settings, adapter, broad, attempt, feed, more>>

\* A body that cannot be decoded.  Nothing in the JSON adapters catches that; We Work
\* Remotely catches ParseError.
Garbled ==
  /\ gen = "waiting"
  /\ IF adapter = "weworkremotely"
     THEN Deliver(Apology)
     ELSE gen' = "raised" /\ UNCHANGED <<todo, yielded>>
  /\ UNCHANGED <<settings, adapter, broad, attempt, feed, more>>

\* A body of another shape: not an object or list, no list of jobs, no channel.
Misshapen ==
  /\ gen = "waiting"
  /\ Deliver(Apology)
  /\ UNCHANGED <<settings, adapter, broad, attempt, feed, more>>

\* What the provider can have kept back: Remotive and Jobicy at the limit the request
\* names or at their own, whichever is less, We Work Remotely at the length of its feed.
\* RemoteOK sends all it has.
MayHaveMore(rows) ==
  /\ adapter # "remoteok"
  /\ Len(rows) >= IF adapter = "weworkremotely" THEN SourceLimit[adapter]
                  ELSE AtMost(Cap, SourceLimit[adapter])

\* The document is there.  Nothing suspends between its arrival and the first batch.
Document ==
  /\ gen = "waiting"
  /\ \E rows \in Feeds, rest \in BOOLEAN, counted \in BOOLEAN :
       /\ rest => MayHaveMore(rows)
       /\ feed' = rows
       /\ more' = rest
       /\ IF NormalizingRaises(rows)
          THEN gen' = "raised" /\ UNCHANGED <<todo, yielded>>
          ELSE Deliver(BatchesOf(rows, counted))
  /\ UNCHANGED <<settings, adapter, broad, attempt>>

-----------------------------------------------------------------------------
(* The consumer.                                                           *)

\* It asks for the next batch, or finds that there is none.
Resume ==
  /\ gen = "suspended"
  /\ IF todo = <<>>
     THEN gen' = "ended" /\ UNCHANGED <<todo, yielded>>
     ELSE Deliver(todo)
  /\ UNCHANGED <<settings, adapter, broad, attempt, feed, more>>

\* The aggregate ceiling of the search is reached.
Abandon ==
  /\ gen = "suspended"
  /\ gen' = "abandoned"
  /\ UNCHANGED <<settings, adapter, broad, attempt, feed, more, todo, yielded>>

\* The search is discarded: CancelledError at the await.
Cancel ==
  /\ gen \in {"waiting", "pausing"}
  /\ gen' = "cancelled"
  /\ UNCHANGED <<settings, adapter, broad, attempt, feed, more, todo, yielded>>

Next ==
  \/ Retry \/ Wake \/ GiveUp \/ Garbled \/ Misshapen \/ Document
  \/ Resume \/ Abandon \/ Cancel

Spec == Init /\ [][Next]_fvars
-----------------------------------------------------------------------------
(* Correctness. *)

Delivered == FlattenSeq([k \in DOMAIN yielded |-> yielded[k].items])
Shown == {Delivered[k] : k \in DOMAIN Delivered}
Told == \E k \in DOMAIN yielded : yielded[k].warned

\* JE-023: budgets are configurable and "validated as positive bounded integers".  A legal
\* result_cap and request_budget of the provider's own entry are what limits the results
\* shown and the requests sent, in each adapter and under the name it knows them by; any
\* other value leaves the defaults in force; and an adapter runs only if no setting
\* disables it.
ConfiguredLimitsHold ==
  LET entry == settings.config[adapter]
      set == Options(settings, adapter)
      own == IF adapter = "remoteok" /\ set.result_cap = Absent
             THEN set.batch_size ELSE set.result_cap
  IN /\ Cardinality(Shown) <= (IF own \in 1..MaxCap THEN own ELSE DefaultCap[adapter])
     /\ attempt <= (IF set.request_budget \in 1..MaxBudget
                    THEN set.request_budget ELSE DefaultBudget[adapter])
     /\ entry = Absent \/ entry.enabled

\* JE-007 and JE-013: one or more bounded batches with an honest total_pages.  A
\* generator that ends has yielded as many batches as each of them announced, none of
\* them too large, and in them, once and in order, every usable row up to the last one
\* it yielded; it stops early only because the cap was reached.
WholeFeedDelivered ==
  gen = "ended" =>
    /\ \A k \in DOMAIN yielded :
         /\ yielded[k].page = k /\ yielded[k].pages = Len(yielded)
         /\ Len(yielded[k].items) <=
              IF adapter = "weworkremotely" THEN BatchSize ELSE Cap
    /\ \A k, l \in DOMAIN Delivered : k < l => Delivered[k] < Delivered[l]
    /\ Shown \subseteq Jobs(feed)
    /\ \A i \in Jobs(feed) \ Shown :
         /\ \A j \in Shown : j < i
         /\ IF adapter = "weworkremotely"
            THEN ObjectsBefore(feed, i) >= Cap
            ELSE Cardinality(Shown) = Cap

\* JE-007 and JE-013: a cap that truncates coverage is reported rather than the
\* truncated set presented as complete, and already with the first batch, since the
\* consumer may not come back for another.  Remotive and Jobicy owe it for broad
\* searches.  What a provider itself keeps back is noticed only where the cap is within
\* the provider's own limit, because the adapters compare with the cap alone, and by We
\* Work Remotely only where every entry of its feed is well formed, because malformed
\* entries are dropped before counting.
CutsAreTold ==
  LET owed == adapter \in {"remotive", "jobicy"} => broad
      cut == FlattenSeq([k \in DOMAIN todo |-> todo[k].items])
      left == (Jobs(feed) \ Shown) \ {cut[k] : k \in DOMAIN cut}
      noticed == /\ Cap <= SourceLimit[adapter]
                 /\ adapter = "weworkremotely" => Objects(feed) = DOMAIN feed
  IN yielded # <<>> /\ owed /\ (left # {} \/ (more /\ noticed)) => yielded[1].warned

\* A warning marks the provider incomplete and the search partial, and without results
\* it makes the provider a failed one (live.py _apply_batch).  A document that gave
\* results is warned about only where the cap was reached, however many attempts it
\* took; and a generator that ends without results has said so.
WarningsAreEarned ==
  /\ Shown # {} /\ Told /\ adapter # "remotive" => Len(feed) >= Cap
  /\ gen = "ended" /\ Shown = {} => Told

\* Both ways: a consumer judges by the warnings alone whether a provider was heard in
\* full, so none may be missing and none may be there for nothing.
WarningsTellTheTruth == CutsAreTold /\ WarningsAreEarned

\* One bad row or answer of a provider is not to cost the others: what reaches the
\* consumer as an exception is a body that does not decode, or a row among those the
\* cap admits whose time or salary cannot be converted - never a row that only lacks
\* fields or fails validation (JE-013: a malformed entry is skippable), and never
\* after results were yielded.
OnlyConversionRaises ==
  gen = "raised" =>
    /\ yielded = <<>>
    /\ \/ feed = <<>> /\ adapter # "weworkremotely"
       \/ \E i \in Objects(feed) :
            /\ feed[i].named
            /\ ~feed[i].stamped \/ (adapter = "jobicy" /\ ~feed[i].paid)
            /\ JobsBefore(feed, i) < Cap
=============================================================================
