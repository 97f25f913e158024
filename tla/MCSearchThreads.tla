---------------------------- MODULE MCSearchThreads ----------------------------
\* Searches under two filters of one profile, and one of another profile.
EXTENDS SearchThreads, TLC

CONSTANTS ana, bo, remote, onsite, other, patcher

MCProfileOf == [k \in Key |-> IF k = other THEN bo ELSE ana]
Filters == Permutations({remote, onsite})
=============================================================================
