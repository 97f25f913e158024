------------------------------ MODULE Ingestion ------------------------------
(***************************************************************************)
(* Manual provider syncs (ingestion/service.py, lock.py, fetch.py,         *)
(* upsert.py): processes that write the tables jobs and sync_runs.         *)
(*                                                                         *)
(* A process takes its provider's advisory lock, commits a running record, *)
(* fetches everything, then applies it and ends the record in one          *)
(* transaction.  The lock belongs to a connection of its own that idles    *)
(* meanwhile: when that connection drops, the lock is free and the process *)
(* goes on.  An action is a statement, or statements nothing can come      *)
(* between while the lock is held; processes crash between any two.        *)
(*                                                                         *)
(* Times are run numbers: started_at, the only time written to the jobs,   *)
(* is taken under the lock.  A job's normalized fields are one content; a  *)
(* timestamp column gives back the instant, not the offset it was given    *)
(* in, so that content may come back in another form (Stored).             *)
(***************************************************************************)
EXTENDS Naturals, FiniteSets, FiniteSetsExt

CONSTANTS
  Provider,       \* provider keys
  JobId,          \* provider_job_id values
  Content,        \* normalized content of a job
  Stored,         \* what the columns give back of a content
  Snapshot,       \* the providers whose sync_mode is full_snapshot
  Fetchable,      \* bound: the batches an adapter may return
  MaxFaults,      \* bound: locks and acknowledgements ever lost
  MaxInvocations  \* bound: sync commands ever run

ASSUME IngestionAssumption ==
  /\ Snapshot \subseteq Provider
  /\ Fetchable \subseteq UNION {[ids -> Content] : ids \in SUBSET JobId}
  /\ Stored \in [Content -> Content]
  /\ \A content \in Content : Stored[Stored[content]] = Stored[content]
  /\ IsFiniteSet(JobId)
  /\ {MaxFaults, MaxInvocations} \subseteq Nat

VARIABLES
  jobs,     \* the table jobs: (provider, id) -> row
  runs,     \* the table sync_runs: run number -> row
  process,  \* invocation number -> what the process is doing
  lock      \* provider -> the invocation that holds its advisory lock

ivars == <<jobs, runs, process, lock>>

NoOne == 0
NoTime == 0
NoRun == 0
Invocation == 1..MaxInvocations
Time == 1..MaxInvocations

Job == [content : Content, status : {"active", "inactive"}, discovered : Time,
        lastSeen : Time, updated : Time, inactiveAt : Time \cup {NoTime}]

Counts == [created : Nat, updated : Nat, unchanged : Nat, reactivated : Nat,
           deactivated : Nat]

\* What collect_jobs returns: no identity twice.
Batch == UNION {[ids -> Content] : ids \in SUBSET JobId}

\* `fetched` is the batch itself, of which the column holds the number.
Run == [provider : Provider, status : {"running", "succeeded", "failed"},
        fetched : Batch, counts : Counts]

NoCounts == [created |-> 0, updated |-> 0, unchanged |-> 0, reactivated |-> 0,
             deactivated |-> 0]
Nothing == [x \in {} |-> 0]

\* A process is named for what it does next.  `copies` are the rows apply_jobs has
\* loaded.  Its lock's connection may have been lost (`connected`), and the answer to
\* a COMMIT that took effect (`acked`).
Step == {"start", "fetch", "read", "write", "fail", "unlock", "done", "crashed"}

Init ==
  /\ jobs = Nothing
  /\ runs = Nothing
  /\ process = Nothing
  /\ lock = [pr \in Provider |-> NoOne]

Became(i, p) == process' = [process EXCEPT ![i] = p]

FaultsLeft ==
  Cardinality({i \in DOMAIN process : ~process[i].connected \/ ~process[i].acked})
    < MaxFaults

\* What a process has fetched and loaded is of no use to it any more.
Drops(i, step) ==
  Became(i, [process[i] EXCEPT !.step = step, !.batch = Nothing, !.copies = Nothing])

-----------------------------------------------------------------------------
(* run_sync up to the fetch.                                               *)

\* Wrong variant: the lock does not exclude.
FreeAlways(pr) == TRUE

Free(pr) == lock[pr] = NoOne

\* pg_try_advisory_lock: the provider is locked, or somebody has it.
Invoke(pr) ==
  LET i == Cardinality(DOMAIN process) + 1
      Begin(step) ==
        process' = [j \in DOMAIN process \cup {i} |->
                      IF j = i
                      THEN [provider |-> pr, step |-> step, run |-> NoRun,
                            batch |-> Nothing, copies |-> Nothing,
                            connected |-> TRUE, acked |-> TRUE]
                      ELSE process[j]]
  IN /\ i <= MaxInvocations
     /\ \/ /\ Free(pr)
           /\ lock' = [lock EXCEPT ![pr] = i]
           /\ Begin("start")
        \/ /\ ~Free(pr)
           /\ Begin("done")
           /\ UNCHANGED lock
     /\ UNCHANGED <<jobs, runs>>

NewRun(pr) == [provider |-> pr, status |-> "running", fetched |-> Nothing,
               counts |-> NoCounts]

\* The time of a run, datetime.now(UTC), is its number: the clock is assumed not to step
\* back between two runs.  Commit the running record; without it there is no run
\* (SetupFailure).  When only the answer is lost, the record stays.
StartRun(i) ==
  LET r == Cardinality(DOMAIN runs) + 1
      Insert == runs' = [t \in DOMAIN runs \cup {r} |->
                           IF t = r THEN NewRun(process[i].provider) ELSE runs[t]]
  IN /\ process[i].step = "start"
     /\ \/ Insert /\ Became(i, [process[i] EXCEPT !.step = "fetch", !.run = r])
        \/ UNCHANGED runs /\ Drops(i, "unlock")
        \/ /\ FaultsLeft
           /\ Insert /\ Became(i, [process[i] EXCEPT !.step = "unlock", !.acked = FALSE])
     /\ UNCHANGED <<jobs, lock>>

\* collect_jobs: everything, or an error (transport, malformed record, duplicate).
Fetch(i) ==
  /\ process[i].step = "fetch"
  /\ \/ \E batch \in Fetchable :
          Became(i, [process[i] EXCEPT !.step = "read", !.batch = batch])
     \/ Drops(i, "fail")
  /\ UNCHANGED <<jobs, runs, lock>>

-----------------------------------------------------------------------------
(* apply_jobs and the end of the run, one transaction.                     *)

Seen(p) == {p.provider} \X DOMAIN p.batch

\* The SELECTs of apply_jobs.
ReadJobs(i) ==
  LET p == process[i]
      copies == [k \in Seen(p) \cap DOMAIN jobs |-> jobs[k]]
  IN /\ p.step = "read"
     /\ \/ Became(i, [p EXCEPT !.step = "write", !.copies = copies])
        \/ Drops(i, "fail")
     /\ UNCHANGED <<jobs, runs, lock>>

NewJob(p, content) ==
  [content |-> Stored[content], status |-> "active", discovered |-> p.run,
   lastSeen |-> p.run, updated |-> p.run, inactiveAt |-> NoTime]

\* Wrong variant: a job that is back keeps its inactive_at.
RediscoveredInactiveAt(p, copy, row, content) ==
  LET back    == copy.status = "inactive"
      changed == copy.content # content
  IN [row EXCEPT !.lastSeen = p.run,
                 !.status = IF back THEN "active" ELSE @,
                 !.content = IF changed THEN Stored[content] ELSE @,
                 !.updated = IF back \/ changed THEN p.run ELSE @]

\* Rediscovered: decided on the copy, sent to the row as it is by then.
Rediscovered(p, copy, row, content) ==
  LET back    == copy.status = "inactive"
      changed == copy.content # content
  IN [row EXCEPT !.lastSeen = p.run,
                 !.status = IF back THEN "active" ELSE @,
                 !.inactiveAt = IF back THEN NoTime ELSE @,
                 !.content = IF changed THEN Stored[content] ELSE @,
                 !.updated = IF back \/ changed THEN p.run ELSE @]

Deactivated(p, row) ==
  [row EXCEPT !.status = "inactive", !.inactiveAt = p.run, !.updated = p.run]

\* Wrong variant: a snapshot of nothing deactivates nothing.
MissingUnlessEmpty(p) ==
  {k \in DOMAIN jobs : /\ p.provider \in Snapshot /\ p.batch # Nothing
                       /\ k[1] = p.provider /\ k \notin Seen(p)
                       /\ jobs[k].status = "active"}

\* A full snapshot deactivates what it did not see, be it everything.
Missing(p) ==
  {k \in DOMAIN jobs : /\ p.provider \in Snapshot
                       /\ k[1] = p.provider /\ k \notin Seen(p)
                       /\ jobs[k].status = "active"}

Applied(p) ==
  [k \in DOMAIN jobs \cup Seen(p) |->
     IF k \in Seen(p)
     THEN IF k \in DOMAIN p.copies
          THEN Rediscovered(p, p.copies[k], jobs[k], p.batch[k[2]])
          ELSE NewJob(p, p.batch[k[2]])
     ELSE IF k \in Missing(p) THEN Deactivated(p, jobs[k]) ELSE jobs[k]]

\* Wrong variant: a job that is back counts as reactivated only if nothing changed.
CountsOfOnce(p) ==
  LET held    == DOMAIN p.copies
      changed == {k \in held : p.copies[k].content # p.batch[k[2]]}
  IN [created |-> Cardinality(Seen(p) \ held),
      updated |-> Cardinality(changed),
      unchanged |-> Cardinality(held \ changed),
      reactivated |-> Cardinality({k \in held \ changed :
                                     p.copies[k].status = "inactive"}),
      deactivated |-> Cardinality(Missing(p))]

CountsOf(p) ==
  LET held    == DOMAIN p.copies
      changed == {k \in held : p.copies[k].content # p.batch[k[2]]}
  IN [created |-> Cardinality(Seen(p) \ held),
      updated |-> Cardinality(changed),
      unchanged |-> Cardinality(held \ changed),
      reactivated |-> Cardinality({k \in held : p.copies[k].status = "inactive"}),
      deactivated |-> Cardinality(Missing(p))]

\* uq_jobs_provider_identity: a job to insert has been inserted by somebody else.
Duplicate(p) == \E k \in Seen(p) \ DOMAIN p.copies : k \in DOMAIN jobs

\* The flush, _deactivate_missing, _mark_run_succeeded.
Apply(i) ==
  LET p == process[i]
  IN /\ ~Duplicate(p)
     /\ jobs' = Applied(p)
     /\ runs' = [runs EXCEPT ![p.run].status = "succeeded",
                             ![p.run].fetched = p.batch,
                             ![p.run].counts = CountsOf(p)]

\* Wrong variant: the error comes when part of it was committed.
WriteHalf(i) ==
  /\ process[i].step = "write"
  /\ \/ Apply(i) /\ Drops(i, "unlock")
     \/ /\ ~Duplicate(process[i]) /\ jobs' = Applied(process[i])
        /\ UNCHANGED runs /\ Drops(i, "fail")
  /\ UNCHANGED lock

\* The commit: done, or not, or done without an answer.
Write(i) ==
  /\ process[i].step = "write"
  /\ \/ Apply(i) /\ Drops(i, "unlock")
     \/ UNCHANGED <<jobs, runs>> /\ Drops(i, "fail")
     \/ /\ FaultsLeft
        /\ Apply(i)
        /\ Became(i, [process[i] EXCEPT !.step = "fail", !.batch = Nothing,
                                        !.copies = Nothing, !.acked = FALSE])
  /\ UNCHANGED lock

-----------------------------------------------------------------------------
(* The end of a process.                                                   *)

\* _mark_run_failed.  An error in there is logged and the record left as it is.
MarkFailed(i) ==
  /\ process[i].step = "fail"
  /\ \/ runs' = [runs EXCEPT ![process[i].run].status = "failed"]
     \/ UNCHANGED runs
  /\ Drops(i, "unlock")
  /\ UNCHANGED <<jobs, lock>>

\* Wrong variant: there is no finally clause, only a run that succeeded unlocks.
UnlockOnSuccess(i) ==
  LET p == process[i]
      succeeded == p.run # NoRun /\ runs[p.run].status = "succeeded"
  IN /\ p.step = "unlock"
     /\ \/ p.connected /\ succeeded /\ lock' = [lock EXCEPT ![p.provider] = NoOne]
        \/ ~(p.connected /\ succeeded) /\ UNCHANGED lock
     /\ Drops(i, "done")
     /\ UNCHANGED <<jobs, runs>>

\* pg_advisory_unlock.  Over a connection that is gone it raises, and that is how
\* the process ends, whatever the run came to.
Unlock(i) ==
  LET p == process[i]
  IN /\ p.step = "unlock"
     /\ \/ p.connected /\ lock' = [lock EXCEPT ![p.provider] = NoOne]
        \/ ~p.connected /\ UNCHANGED lock
     /\ Drops(i, "done")
     /\ UNCHANGED <<jobs, runs>>

Ended == {"done", "crashed"}

Crash(i) ==
  /\ process[i].step \notin Ended
  /\ Drops(i, "crashed")
  /\ UNCHANGED <<jobs, runs, lock>>

\* PostgreSQL releases the lock of a session that is gone.
Drop(i) ==
  /\ lock' = [lock EXCEPT ![process[i].provider] = NoOne]
  /\ UNCHANGED <<jobs, runs>>

\* The server finds a crashed process's connection dead.
Reap(i) ==
  /\ process[i].step = "crashed"
  /\ lock[process[i].provider] = i
  /\ Drop(i)
  /\ UNCHANGED process

\* The connection drops under a process that runs on.
Disconnect(i) ==
  /\ process[i].step \notin Ended
  /\ lock[process[i].provider] = i
  /\ FaultsLeft
  /\ Drop(i)
  /\ Became(i, [process[i] EXCEPT !.connected = FALSE])

-----------------------------------------------------------------------------
SyncStep(i) ==
  StartRun(i) \/ Fetch(i) \/ ReadJobs(i) \/ Write(i) \/ MarkFailed(i) \/ Unlock(i)

Next ==
  \/ \E pr \in Provider : Invoke(pr)
  \/ \E i \in DOMAIN process : SyncStep(i) \/ Crash(i) \/ Reap(i) \/ Disconnect(i)

Spec == Init /\ [][Next]_ivars

-----------------------------------------------------------------------------
(* Correctness. *)

\* No sync of the provider has lost its lock or an acknowledgement.
Undisturbed(pr) ==
  \A i \in DOMAIN process :
    process[i].provider = pr => process[i].connected /\ process[i].acked

Succeeded(pr) == {r \in DOMAIN runs :
                    runs[r].provider = pr /\ runs[r].status = "succeeded"}
ActiveJobs(pr) == {k \in DOMAIN jobs : k[1] = pr /\ jobs[k].status = "active"}

\* JE-002 criteria 3 to 5: whatever syncs failed, crashed or were turned away since,
\* a provider's active jobs hold what its last successful run fetched, and for a
\* full snapshot they are nothing else.  And a job is inactive exactly if it has an
\* inactive_at (ck_jobs_lifecycle_inactive_at), even when two processes sync at once.
ActiveIsLatestFetched ==
  /\ \A k \in DOMAIN jobs : (jobs[k].status = "active") = (jobs[k].inactiveAt = NoTime)
  /\ \A pr \in Provider, r \in DOMAIN runs :
       /\ Undisturbed(pr)
       /\ r \in Succeeded(pr) /\ \A t \in Succeeded(pr) : t <= r
       => LET seen == {pr} \X DOMAIN runs[r].fetched
          IN /\ \A k \in seen : /\ k \in ActiveJobs(pr)
                                /\ jobs[k].content = Stored[runs[r].fetched[k[2]]]
             /\ pr \in Snapshot => ActiveJobs(pr) \subseteq seen

\* The counters of the successful runs account for every job there is: what they
\* created and brought back, less what they deactivated, is active today.
CountersBalance ==
  \A pr \in Provider : Undisturbed(pr) =>
    LET Total(Of(_)) == MapThenSumSet(Of, Succeeded(pr))
    IN /\ Total(LAMBDA r : runs[r].counts.created + runs[r].counts.reactivated)
            = Cardinality(ActiveJobs(pr)) + Total(LAMBDA r : runs[r].counts.deactivated)
       /\ \A r \in Succeeded(pr) :
            runs[r].counts.created + runs[r].counts.updated + runs[r].counts.unchanged
              = Cardinality(DOMAIN runs[r].fetched)

\* JE-002, upsert rules: a job is never lost and keeps its discovered_at, and unless
\* a lock was lost it is never seen earlier than it was (as long as the clock does not
\* step back: see StartRun).
HistoryKept ==
  [][\A k \in DOMAIN jobs :
       /\ k \in DOMAIN jobs'
       /\ jobs'[k].discovered = jobs[k].discovered
       /\ Undisturbed(k[1]) => jobs'[k].lastSeen >= jobs[k].lastSeen]_ivars

\* JE-002 step 7 and criterion 6: a process that runs and has not lost its connection
\* holds its provider's lock, so no two of them sync one provider; and the lock is
\* held by nobody else, so one that has ended has released it in all outcomes.
OneSyncPerProvider ==
  /\ \A i \in DOMAIN process :
       process[i].step \notin Ended /\ process[i].connected => lock[process[i].provider] = i
  /\ \A pr \in Provider :
       lock[pr] # NoOne =>
         /\ process[lock[pr]].provider = pr
         /\ process[lock[pr]].step # "done" /\ process[lock[pr]].connected

\* JE-002 criterion 5: a persistence failure leaves all jobs as they were before the
\* run.  No job bears the time of a run that is recorded as failed, unless it failed
\* because the answer to its commit was lost.
FailedRunLeavesJobs ==
  \A r \in DOMAIN runs, k \in DOMAIN jobs :
    /\ runs[r].status # "succeeded"
    /\ \A i \in DOMAIN process : process[i].run = r => process[i].acked
    => r \notin {jobs[k].lastSeen, jobs[k].updated}
=============================================================================
