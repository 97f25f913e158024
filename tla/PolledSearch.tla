----------------------------- MODULE PolledSearch -----------------------------
(***************************************************************************)
(* What a client that polls GET /searches/{id} is promised, with nothing   *)
(* said of providers, indexes or budgets: an id is issued once, reads      *)
(* "loading" until its outcome is settled, keeps that outcome, and in the  *)
(* end is gone (410) for good.  Retention takes settled searches only;     *)
(* only withdrawing all of a profile's searches takes one still loading.   *)
(***************************************************************************)
CONSTANTS
  Id,     \* search ids
  Owner,  \* profiles
  Nobody  \* the owner of an id that is not live

VARIABLES
  view,   \* what GET answers for an id
  owner   \* the profile a live id belongs to, Nobody otherwise

pvars == <<view, owner>>

View == {"unknown", "loading", "complete", "failed", "gone"}
Live == {"loading", "complete", "failed"}

Init ==
  /\ view = [i \in Id |-> "unknown"]
  /\ owner = [i \in Id |-> Nobody]

Issue(i, pr) ==
  /\ view[i] = "unknown"
  /\ view' = [view EXCEPT ![i] = "loading"]
  /\ owner' = [owner EXCEPT ![i] = pr]

Settle(i, outcome) ==
  /\ view[i] = "loading"
  /\ view' = [view EXCEPT ![i] = outcome]
  /\ UNCHANGED owner

Gone(S) ==
  /\ view' = [i \in Id |-> IF i \in S THEN "gone" ELSE view[i]]
  /\ owner' = [i \in Id |-> IF i \in S THEN Nobody ELSE owner[i]]

\* Bounded retention: settled searches only.
Expire(S) ==
  /\ \A i \in S : view[i] \in {"complete", "failed"}
  /\ Gone(S)

\* Everything of one profile.
Withdraw(pr) == Gone({i \in Id : view[i] \in Live /\ owner[i] = pr})

Next ==
  \/ \E i \in Id, pr \in Owner : Issue(i, pr)
  \/ \E i \in Id, outcome \in {"complete", "failed"} : Settle(i, outcome)
  \/ \E S \in SUBSET Id : Expire(S)
  \/ \E pr \in Owner : Withdraw(pr)

Spec == Init /\ [][Next]_pvars
=============================================================================
