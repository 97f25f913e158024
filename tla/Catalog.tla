------------------------------- MODULE Catalog --------------------------------
(***************************************************************************)
(* The search of stored jobs, GET /jobs (services/job_search.py,           *)
(* schemas/job_search.py, api/jobs.py), over the table that the syncs of   *)
(* Ingestion write.                                                        *)
(*                                                                         *)
(* A request counts the rows that match and selects one page of them.  The *)
(* text of a job, where it is and what kind it is are told apart only by   *)
(* which contents a query accepts; its salary, date and eligibility are    *)
(* the fields NormalizedJobInput has made (schemas/job.py).                *)
(***************************************************************************)
EXTENDS Ingestion, Integers

CONSTANTS
  Advertised,  \* job -> content -> its fields
  IdOrder,     \* job -> place of its id among the ids
  Factor,      \* _ANNUAL_MULTIPLIERS
  Queries      \* the queries checked

\* A column that is NULL; amounts are positive.
NoAmount == 0
NotGiven == "none"
\* A parameter that is not given; zero is a bound.
NoBound == -1

\* eligible: {} where it is unknown, and otherwise one set of countries, empty for
\* worldwide.
Fields == [posted : Nat, currency : STRING, period : DOMAIN Factor \cup {"other", NotGiven},
           low : Nat, high : Nat, eligible : SUBSET SUBSET STRING]

\* NormalizedJobInput.validate_compensation_and_annualize.
Admissible(f) ==
  /\ {f.low, f.high} # {NoAmount} => NotGiven \notin {f.currency, f.period}
  /\ NoAmount \notin {f.low, f.high} => f.low <= f.high

\* JobSearchParams; a provider nobody knows is a legal one to ask for.
Query == [accepts : SUBSET Content, providers : SUBSET (Provider \cup STRING),
          countries : SUBSET STRING, postedAfter : Nat \cup {NoBound},
          salaryMin : Nat \cup {NoBound}, salaryMax : Nat \cup {NoBound},
          currency : STRING, sort : {"newest", "salary_asc", "salary_desc"},
          pageSize : Nat \ {0}]

ASSUME CatalogAssumption ==
  /\ Factor \in [DOMAIN Factor -> Nat \ {0}]
  /\ Advertised \in [Provider \X JobId -> [Content -> Fields]]
  /\ \A k \in Provider \X JobId, content \in Content : Admissible(Advertised[k][content])
  /\ IdOrder \in [Provider \X JobId -> Nat]
  /\ \A j, k \in Provider \X JobId : j # k => IdOrder[j] # IdOrder[k]
  /\ Queries \subseteq Query

FieldsOf(k) == Advertised[k][jobs[k].content]

\* annualize_bounds.  A period that is none of the usual ones gives no annual amount.
Annual(f, amount) == IF f.period \in DOMAIN Factor THEN amount * Factor[f.period] ELSE NoAmount
AnnualLow(k) == Annual(FieldsOf(k), FieldsOf(k).low)
AnnualHigh(k) == Annual(FieldsOf(k), FieldsOf(k).high)

-----------------------------------------------------------------------------
(* The query: JobSearchParams, _apply_filters.                             *)

Bounded(q) == q.salaryMin # NoBound \/ q.salaryMax # NoBound
BySalary(q) == q.sort \in {"salary_asc", "salary_desc"}

\* validate_salary_requirements; anything else answers 422.
Valid(q) ==
  /\ NoBound \notin {q.salaryMin, q.salaryMax} => q.salaryMin <= q.salaryMax
  /\ Bounded(q) \/ BySalary(q) => q.currency # NotGiven

HasAnnual(k) == {AnnualLow(k), AnnualHigh(k)} # {NoAmount}

\* coalesce: a listing with one bound has it for both.
EffectiveLow(k) == IF AnnualLow(k) # NoAmount THEN AnnualLow(k) ELSE AnnualHigh(k)

\* Wrong variant: a listing with a lower bound only reaches up to nothing.
StatedHigh(k) == AnnualHigh(k)

EffectiveHigh(k) == IF AnnualHigh(k) # NoAmount THEN AnnualHigh(k) ELSE AnnualLow(k)

\* Sorting by salary admits jobs of unknown currency, and bounds then ask for an amount.
MatchesSalary(q, k) ==
  q.currency # NotGiven /\ (Bounded(q) \/ BySalary(q)) =>
    /\ \/ FieldsOf(k).currency = q.currency
       \/ BySalary(q) /\ FieldsOf(k).currency = NotGiven
    /\ Bounded(q) => HasAnnual(k)
    /\ q.salaryMax # NoBound => EffectiveLow(k) <= q.salaryMax
    /\ q.salaryMin # NoBound => EffectiveHigh(k) >= q.salaryMin

MatchesCountry(q, k) ==
  q.countries # {} =>
    \E codes \in FieldsOf(k).eligible : codes = {} \/ codes \cap q.countries # {}

MatchesPosted(q, k) ==
  q.postedAfter # NoBound =>
    FieldsOf(k).posted # NoTime /\ FieldsOf(k).posted >= q.postedAfter

Filtered(q) ==
  {k \in DOMAIN jobs :
     /\ jobs[k].status = "active"
     /\ jobs[k].content \in q.accepts
     /\ q.providers # {} => k[1] \in q.providers
     /\ MatchesCountry(q, k) /\ MatchesPosted(q, k) /\ MatchesSalary(q, k)}

-----------------------------------------------------------------------------
(* The order and the page: _apply_sort, search_jobs.                       *)

Comparable(q, k) == HasAnnual(k) /\ FieldsOf(k).currency = q.currency

\* Ascending salaries count downwards.
SortKey(q, k) ==
  CASE q.sort = "newest" ->
         IF FieldsOf(k).posted # NoTime THEN FieldsOf(k).posted ELSE jobs[k].discovered
    [] q.sort = "salary_asc" -> -EffectiveLow(k)
    [] q.sort = "salary_desc" -> EffectiveHigh(k)

\* Sorted by salary, what has none that compares is NULL and comes last.
NullsLast(q, k) == BySalary(q) /\ ~Comparable(q, k)

\* Wrong variant: jobs that are equal in what is sorted by have no order.
AheadByKey(q, j, k) ==
  \/ ~NullsLast(q, j) /\ NullsLast(q, k)
  \/ ~NullsLast(q, j) /\ ~NullsLast(q, k) /\ SortKey(q, j) > SortKey(q, k)

Ahead(q, j, k) ==
  \/ ~NullsLast(q, j) /\ NullsLast(q, k)
  \/ ~NullsLast(q, j) /\ ~NullsLast(q, k) /\ SortKey(q, j) > SortKey(q, k)
  \/ /\ NullsLast(q, j) = NullsLast(q, k)
     /\ ~NullsLast(q, j) => SortKey(q, j) = SortKey(q, k)
     /\ IF q.sort = "salary_asc" THEN IdOrder[j] < IdOrder[k] ELSE IdOrder[j] > IdOrder[k]

Total(q) == Cardinality(Filtered(q))
TotalPages(q) == (Total(q) + q.pageSize - 1) \div q.pageSize

\* How many of the matching jobs come before one of them.
Places(q) ==
  LET matching == Filtered(q)
  IN [k \in matching |-> Cardinality({j \in matching : Ahead(q, j, k)})]

\* OFFSET and LIMIT.
OnPage(q, place, page) ==
  {k \in DOMAIN place :
     (page - 1) * q.pageSize <= place[k] /\ place[k] < page * q.pageSize}

-----------------------------------------------------------------------------
(* Correctness.                                                            *)

\* Every sync there was has come to its end.
Quiet == \A i \in DOMAIN process : process[i].step = "done"

\* JE-003 criteria 3 and 4: whatever syncs have left in the table, a client that pages
\* through a search meets every job that matches exactly once, although jobs tie in what
\* they are sorted by or lack it; the pages are as many as was announced, all but the
\* last are full, and a page past the end is empty.
PagingIsExact ==
  Quiet =>
    \A q \in Queries : Valid(q) =>
      LET last == TotalPages(q)
          place == Places(q)
          pages == [n \in 1..last + 1 |-> OnPage(q, place, n)]
      IN /\ \A k \in DOMAIN place : Cardinality({n \in 1..last : k \in pages[n]}) = 1
         /\ \A n \in 1..last - 1 : Cardinality(pages[n]) = q.pageSize
         /\ last > 0 => pages[last] # {}
         /\ pages[last + 1] = {}

\* JE-003 criteria 2 and 5: bounds of salary take from a search just those jobs that can
\* pay, in the currency asked for, an amount between them, whatever the search is sorted
\* by - even though sorting by salary lets in jobs whose currency is not known.
BoundsSelectByAmount ==
  Quiet =>
    \A q \in Queries : Valid(q) /\ Bounded(q) =>
      LET unbounded == [q EXCEPT !.salaryMin = NoBound, !.salaryMax = NoBound, !.sort = "newest"]
          Paid(k) == {AnnualLow(k), AnnualHigh(k)} \ {NoAmount}
          Least == IF q.salaryMin = NoBound THEN 0 ELSE q.salaryMin
          MayPay(k) ==
            \E low, high \in Paid(k) :
              /\ \A amount \in Paid(k) : low <= amount /\ amount <= high
              /\ \E amount \in low..high :
                   Least <= amount /\ (q.salaryMax # NoBound => amount <= q.salaryMax)
      IN Filtered(q) = {k \in Filtered(unbounded) : FieldsOf(k).currency = q.currency /\ MayPay(k)}

\* A search of the stored jobs leaves out nothing and shows nothing twice: it selects
\* by amount what it should, and its pages are that selection.
StoredSearchIsExact == PagingIsExact /\ BoundsSelectByAmount
=============================================================================
