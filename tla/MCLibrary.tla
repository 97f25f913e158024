------------------------------- MODULE MCLibrary -------------------------------
(* Values of the constants of Library for TLC.                                 *)
EXTENDS LibraryUpgrade, TLC

CONSTANTS ann, bob, himalayas1, remoteok1, adzuna9, engineer, designer

\* Two listings of one role, one of which is retitled.
RolesWhenRetitled ==
  [s \in Source |-> IF s = adzuna9 THEN {engineer, designer} ELSE {engineer}]

\* Listings that keep their titles: two of one role, and one of another.
RolesForGood ==
  [s \in Source |-> IF s = adzuna9 THEN {designer} ELSE {engineer}]

\* The profiles are alike.
ProfileSymmetry == Permutations(Profile)
=============================================================================
