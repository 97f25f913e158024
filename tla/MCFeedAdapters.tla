---------------------------- MODULE MCFeedAdapters ----------------------------
(* Documents for FeedAdapters, every sequence of up to MaxRows rows of six kinds, and   *)
(* settings: the defaults, and entries whose options are legal, at the edge of what is  *)
(* legal, or not legal.  Caps of 3 and 4 stand for 100 and 1_000, two attempts for 50;  *)
(* a source sends 3 rows at most where that is its documented limit, as by default.     *)
EXTENDS FeedAdapters

CONSTANT MaxRows

Listing == [object |-> TRUE, named |-> TRUE, valid |-> TRUE, stamped |-> TRUE,
            paid |-> TRUE]
Stray == [Listing EXCEPT !.object = FALSE]
Nameless == [Listing EXCEPT !.named = FALSE]
Badlinked == [Listing EXCEPT !.valid = FALSE]
Misdated == [Listing EXCEPT !.stamped = FALSE, !.valid = FALSE]
Mispaid == [Listing EXCEPT !.paid = FALSE]

RowKinds == {Listing, Stray, Nameless, Misdated, Mispaid, Badlinked}
Documents == UNION {[1..n -> RowKinds] : n \in 0..MaxRows}

ThreeResults == [key \in KnownKeys |-> 3]
ThreeRows == [key \in AdapterKeys \ {"remoteok"} |-> 3]
OneAttempt == [key \in KnownKeys |-> 1]

Unset == [name \in OptionNames |-> Absent]
With(entry) == [config |-> [key \in KnownKeys |-> entry], stray |-> FALSE, credentials |-> FALSE]
Given(options) == With([enabled |-> TRUE, options |-> options])
Defaults == With(Absent)

Settled ==
  {Defaults,
   Given([Unset EXCEPT !["result_cap"] = 1, !["batch_size"] = 2, !["request_budget"] = 2]),
   Given([Unset EXCEPT !["result_cap"] = 4, !["request_budget"] = 1]),
   Given([Unset EXCEPT !["batch_size"] = 2, !["request_budget"] = Junk]),
   Given([Unset EXCEPT !["result_cap"] = Junk, !["batch_size"] = 1, !["request_budget"] = 0]),
   Given([Unset EXCEPT !["result_cap"] = 5, !["request_budget"] = 3])}

\* Some providers are disabled, none is usable, or the process does not start.
Odd ==
  {[Defaults EXCEPT !.config["jobicy"] = [enabled |-> FALSE, options |-> Unset],
                    !.config["remotive"] = [enabled |-> FALSE, options |-> Unset]],
   [With([enabled |-> FALSE, options |-> Unset]) EXCEPT
      !.config["adzuna"] = [enabled |-> TRUE, options |-> Unset]],
   With([enabled |-> FALSE, options |-> Unset]),
   [Defaults EXCEPT !.config["himalayas"] = Junk],
   [Defaults EXCEPT !.stray = TRUE]}

Environments == Settled \cup Odd
=============================================================================
