----------------------------- MODULE MCLiveSearch -----------------------------
(* Values of the constants of LiveSearch for TLC. *)
EXTENDS LiveSearch

CONSTANTS p1, p2, ann, bob, annJobs, bobJobs, annNone

\* Every key is ann's, except bobJobs.
KeyOwner == [k \in Key |-> IF k = bobJobs THEN bob ELSE ann]

\* Filters that select every provider, and filters (annNone) that select none.
EveryProvider == [k \in Key |-> Provider]
ProvidersOrNone == [k \in Key |-> IF k = annNone THEN {} ELSE Provider]
=============================================================================
