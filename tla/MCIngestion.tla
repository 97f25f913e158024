------------------------------ MODULE MCIngestion ------------------------------
(* Values of the constants of Ingestion and Catalog for TLC.                     *)
EXTENDS Catalog, TLC

CONSTANTS board, feed, job1, job2, draft, draftElsewhere, final

\* A timestamp of the draft in another offset is stored as the same instant.
StoredInUtc == draft :> draft @@ draftElsewhere :> draft @@ final :> final

\* Nothing at all, one job, and that job changed together with another.
SmallBatches ==
  {Nothing, job1 :> draftElsewhere, job1 :> final @@ job2 :> draft}

\* Salaries with both bounds and with one, by the year and by the month, in another
\* currency, of an unusual period, and none; dates that tie and are missing.
Plain == [posted |-> NoTime, currency |-> NotGiven, period |-> NotGiven, low |-> NoAmount,
          high |-> NoAmount, eligible |-> {}]
Dollars(low, high) == [Plain EXCEPT !.currency = "usd", !.period = "yearly", !.low = low, !.high = high]
Listings ==
  [k \in Provider \X JobId |->
     CASE k = <<board, job1>> ->
            [c \in Content |-> IF c = final THEN [Dollars(3, 6) EXCEPT !.currency = "eur", !.posted = 2]
                               ELSE Dollars(4, NoAmount)]
       [] k = <<board, job2>> ->
            [c \in Content |-> [Dollars(1, 2) EXCEPT !.period = "monthly", !.posted = 2, !.eligible = {{}}]]
       [] k = <<feed, job1>> ->
            [c \in Content |-> IF c = final THEN [Dollars(3, 3) EXCEPT !.period = "other", !.posted = 2]
                               ELSE [Plain EXCEPT !.eligible = {{"br"}}]]
       [] k = <<feed, job2>> -> [c \in Content |-> Dollars(NoAmount, 4)]]

Ids == [k \in Provider \X JobId |->
          (IF k[1] = board THEN 0 ELSE 1) + (IF k[2] = job1 THEN 2 ELSE 0)]

\* Twelve months are two.
Months == [period \in {"yearly", "monthly"} |-> IF period = "monthly" THEN 2 ELSE 1]

Anything == [accepts |-> Content, providers |-> {}, countries |-> {}, postedAfter |-> NoBound,
             salaryMin |-> NoBound, salaryMax |-> NoBound, currency |-> NotGiven,
             sort |-> "newest", pageSize |-> 1]
InDollars(low, high, sort) ==
  [Anything EXCEPT !.salaryMin = low, !.salaryMax = high, !.sort = sort, !.currency = "usd",
                   !.pageSize = 2]

Searches ==
  {Anything, [Anything EXCEPT !.pageSize = 2], [Anything EXCEPT !.providers = {feed}],
   [Anything EXCEPT !.countries = {"br"}], [Anything EXCEPT !.postedAfter = 2],
   InDollars(NoBound, NoBound, "salary_asc"), InDollars(NoBound, NoBound, "salary_desc"),
   InDollars(4, NoBound, "newest"), InDollars(NoBound, 3, "salary_asc"),
   InDollars(3, 4, "salary_desc"), InDollars(4, 3, "newest")}
=============================================================================
