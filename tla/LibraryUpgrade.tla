---------------------------- MODULE LibraryUpgrade ----------------------------
(***************************************************************************)
(* A library that is older than the dedup key: migration 005               *)
(* (alembic/versions/005_add_saved_job_dedup.py) and the requests after    *)
(* it.  docker-entrypoint.dev.sh upgrades before it starts the             *)
(* application, in one transaction whose first statement locks the table.  *)
(*                                                                         *)
(* In a table of revision 004 a profile holds a listing once, but one role *)
(* as often as it has listings.  The requests that made it come first      *)
(* among the requests of Library.                                          *)
(***************************************************************************)
EXTENDS Library

CONSTANT MaxLegacy  \* bound: rows of the old table

ASSUME UpgradeAssumption == MaxLegacy \in 0..MaxRequests

VARIABLE legacy  \* saved_jobs as of revision 004; without rows once it is upgraded

uvars == <<rows, inserted, requests, legacy>>

NoRows == [r \in {} |-> 0]

\* ck_saved_jobs_applied_at and uq_saved_jobs_profile_provider hold in it.  It has no
\* dedup key yet: `role` is the one that a row's columns derive.
LegacyTable(n) ==
  {table \in [1..n -> {row \in Row : row.listing \in Result /\ row.listing.others = {}
                                     /\ row.savedAt <= n /\ row.appliedAt <= n}] :
     /\ \A r \in 1..n : (table[r].state = "applied") = (table[r].appliedAt # NoTime)
     /\ \A r, t \in 1..n :
          /\ table[r].profile = table[t].profile
          /\ table[r].listing.source = table[t].listing.source
          => r = t}

\* The request that has left a row.
Earlier(row) ==
  [op |-> "save", step |-> "done", profile |-> row.profile, identity |-> row.listing.source,
   result |-> row.listing, state |-> row.state, row |-> NoRow, copy |-> row.listing,
   alone |-> FALSE, answer |-> "ok"]

UpgradeInit ==
  \E n \in 0..MaxLegacy : \E table \in LegacyTable(n) :
    /\ legacy = table
    /\ rows = NoRows
    /\ inserted = n
    /\ requests = [q \in 1..n |-> Earlier(table[q])]

-----------------------------------------------------------------------------
\* Rows of one profile that derive one dedup key.
Group(r) ==
  {t \in DOMAIN legacy : /\ legacy[t].profile = legacy[r].profile
                         /\ legacy[t].listing.role = legacy[r].listing.role}

\* Wrong variant: the oldest row wins, applied or not.
OlderRow(r, t) ==
  \/ legacy[r].savedAt < legacy[t].savedAt
  \/ legacy[r].savedAt = legacy[t].savedAt /\ r < t

\* _pick_winner: what was applied for, then what was saved first, then by id.
Preferred(r, t) ==
  \/ legacy[r].state = "applied" /\ legacy[t].state = "saved"
  \/ /\ legacy[r].state = legacy[t].state
     /\ \/ legacy[r].savedAt < legacy[t].savedAt
        \/ legacy[r].savedAt = legacy[t].savedAt /\ r < t

Winners ==
  {r \in DOMAIN legacy : \A t \in Group(r) \ {r} : Preferred(r, t)}

\* Each winner carries the sources of the rows that are deleted.
Folded ==
  [r \in Winners |->
     [legacy[r] EXCEPT !.listing.others = {legacy[t].listing.source : t \in Group(r) \ {r}}]]

\* upgrade().  The unique constraint it ends with rolls everything back unless each role
\* is left once.
Upgrade ==
  /\ legacy # NoRows
  /\ \A r, t \in Winners : t \in Group(r) => r = t
  /\ rows' = Folded
  /\ legacy' = NoRows
  /\ UNCHANGED <<inserted, requests>>

\* The application starts once it is through.
UpgradeNext ==
  \/ Upgrade
  \/ legacy = NoRows /\ Next /\ UNCHANGED legacy

UpgradeSpec == UpgradeInit /\ [][UpgradeNext]_uvars

-----------------------------------------------------------------------------
(* Correctness. *)

\* JE-008, migration: of rows that collide the more advanced one is kept and the others'
\* identities are folded into it.  Every listing a profile has saved is found after the
\* upgrade in one row, which is applied for if the listing's row was.
UpgradeForgetsNothing ==
  [][\A r \in DOMAIN legacy :
       \E t \in DOMAIN rows' :
         /\ rows'[t].profile = legacy[r].profile
         /\ legacy[r].listing.source \in Identities(rows'[t].listing)
         /\ legacy[r].state = "applied" => rows'[t].state = "applied"]_legacy
=============================================================================
