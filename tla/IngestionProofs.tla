---------------------------- MODULE IngestionProofs ----------------------------
(***************************************************************************)
(* The advisory lock does what it is taken for, and the tables hold what   *)
(* the syncs promise, for any number of providers, jobs, sync commands and *)
(* faults.                                                                 *)
(*                                                                         *)
(* OneSyncPerProvider needs only one thing more to be inductive (LockInv): *)
(* that a lock's holder is a process there is, and that processes are      *)
(* numbered 1, 2, ... so that a new one is never mistaken for it.          *)
(*                                                                         *)
(* The data (DataInv) rest on the lock: of the processes that sync one     *)
(* provider, which nothing has disturbed, only one is under way            *)
(* (OnlyOneUnderWay).  So the run of that one is the provider's newest and *)
(* the rows it has loaded are the rows there are (HeldInv), which makes    *)
(* the transaction that ends it leave exactly what it fetched (LatestInv)  *)
(* and count exactly what it changed (CountersMove), so that the sums over *)
(* all runs balance (BalanceInv).  What the tables say without the lock,   *)
(* that a failed run has left no trace and that the columns of a job       *)
(* agree, rests on run numbers that belong to one process each (OwnersInv) *)
(* and have marked nothing until the commit (PendingInv).                  *)
(*                                                                         *)
(* The stored job search (Catalog) reads any table of that type: the rows  *)
(* a query selects have places in its order (AheadOrders), and a page is   *)
(* the rows whose place, divided by the page size, is its number.          *)
(***************************************************************************)
EXTENDS Catalog, Counting

\* What of a process the lock depends on.
IsProcess(p) ==
  /\ {"provider", "step", "connected"} \subseteq DOMAIN p
  /\ p = [field \in DOMAIN p |-> p[field]]
  /\ p.provider \in Provider
  /\ p.step \in Step
  /\ p.connected \in BOOLEAN

ProcessesInv ==
  /\ \E n \in Nat : DOMAIN process = 1..n
  /\ process = [i \in DOMAIN process |-> process[i]]
  /\ \A i \in DOMAIN process : IsProcess(process[i])
  /\ lock \in [Provider -> DOMAIN process \cup {NoOne}]

LockInv == ProcessesInv /\ OneSyncPerProvider

USE DEF NoOne, Ended

-----------------------------------------------------------------------------
LEMMA NextInvocation ==
  ASSUME ProcessesInv, NEW i, i = Cardinality(DOMAIN process) + 1
  PROVE  /\ i \in Nat \ {0}
         /\ i \notin DOMAIN process
         /\ DOMAIN process \cup {i} = 1..i
         /\ NoOne \notin DOMAIN process
<1>1. PICK n \in Nat : DOMAIN process = 1..n
  BY DEF ProcessesInv
<1>2. Cardinality(1..n) = n
  BY <1>1, FS_Interval
<1> QED
  BY <1>1, <1>2

\* Only the process that takes the step moves.
LEMMA BecameMovesOne ==
  ASSUME ProcessesInv, NEW i \in DOMAIN process, NEW p, IsProcess(p), Became(i, p),
         lock' \in [Provider -> DOMAIN process \cup {NoOne}]
  PROVE  /\ ProcessesInv'
         /\ DOMAIN process' = DOMAIN process
         /\ process'[i] = p
         /\ \A j \in DOMAIN process \ {i} : process'[j] = process[j]
<1>1. /\ DOMAIN process' = DOMAIN process
      /\ process' = [j \in DOMAIN process' |-> process'[j]]
      /\ process'[i] = p
      /\ \A j \in DOMAIN process \ {i} : process'[j] = process[j]
  BY DEF ProcessesInv, Became
<1>2. \A j \in DOMAIN process' : IsProcess(process'[j])
  BY <1>1 DEF ProcessesInv
<1>3. \A j \in DOMAIN process' : IsProcess(process[j])'
  BY <1>2 DEF IsProcess
<1> QED
  BY <1>1, <1>3 DEF ProcessesInv

\* A running process that leaves the lock and its own hold on it as they are, and does
\* not end by being done.
LEMMA GoesOnWithLock ==
  ASSUME LockInv, NEW i \in DOMAIN process, process[i].step \notin Ended,
         NEW p, IsProcess(p), Became(i, p), UNCHANGED lock,
         p.provider = process[i].provider, p.connected = process[i].connected,
         p.step # "done"
  PROVE  LockInv'
<1>1. /\ ProcessesInv'
      /\ DOMAIN process' = DOMAIN process
      /\ process'[i] = p
      /\ \A j \in DOMAIN process \ {i} : process'[j] = process[j]
  BY BecameMovesOne DEF LockInv, ProcessesInv
<1>2. OneSyncPerProvider'
  <2>1. ASSUME NEW j \in DOMAIN process, process'[j].step \notin Ended, process'[j].connected
        PROVE  lock[process'[j].provider] = j
    <3>1. CASE j = i
      BY <1>1, <2>1, <3>1 DEF LockInv, OneSyncPerProvider
    <3>2. CASE j # i
      BY <1>1, <2>1, <3>2 DEF LockInv, OneSyncPerProvider
    <3> QED
      BY <3>1, <3>2
  <2>2. ASSUME NEW pr \in Provider, lock[pr] # NoOne
        PROVE  /\ process'[lock[pr]].provider = pr
               /\ process'[lock[pr]].step # "done" /\ process'[lock[pr]].connected
    <3>1. lock[pr] \in DOMAIN process
      BY <2>2 DEF LockInv, ProcessesInv
    <3>2. /\ process[lock[pr]].provider = pr
          /\ process[lock[pr]].step # "done" /\ process[lock[pr]].connected
      BY <2>2 DEF LockInv, OneSyncPerProvider
    <3> QED
      BY <1>1, <3>1, <3>2
  <2> QED
    BY <1>1, <2>1, <2>2 DEF OneSyncPerProvider
<1> QED
  BY <1>1, <1>2 DEF LockInv

\* What a process becomes differs from it in fields the lock does not look at.
LEMMA DropsIsProcess ==
  ASSUME NEW p, IsProcess(p), NEW step \in Step
  PROVE  LET q == [p EXCEPT !.step = step, !.batch = Nothing, !.copies = Nothing]
         IN /\ IsProcess(q)
            /\ q.provider = p.provider /\ q.connected = p.connected /\ q.step = step
BY DEF IsProcess

LEMMA DropsKeepsInv ==
  ASSUME LockInv, NEW i \in DOMAIN process, process[i].step \notin Ended,
         NEW step \in Step \ {"done"}, Drops(i, step), UNCHANGED lock
  PROVE  LockInv'
<1> DEFINE q == [process[i] EXCEPT !.step = step, !.batch = Nothing,
                                   !.copies = Nothing]
<1>1. IsProcess(process[i])
  BY DEF LockInv, ProcessesInv
<1>2. /\ IsProcess(q) /\ q.provider = process[i].provider
      /\ q.connected = process[i].connected /\ q.step = step
  BY <1>1, DropsIsProcess
<1>3. Became(i, q)
  BY DEF Drops
<1> HIDE DEF q
<1> QED
  BY <1>2, <1>3, GoesOnWithLock

-----------------------------------------------------------------------------
(* The actions.                                                            *)

LEMMA InvokeKeepsInv ==
  ASSUME LockInv, NEW pr \in Provider, Invoke(pr)
  PROVE  LockInv'
<1> DEFINE i == Cardinality(DOMAIN process) + 1
           new(step) == [provider |-> pr, step |-> step, run |-> NoRun,
                         batch |-> Nothing, copies |-> Nothing,
                         connected |-> TRUE, acked |-> TRUE]
<1>1. /\ i \in Nat \ {0} /\ i \notin DOMAIN process
      /\ DOMAIN process \cup {i} = 1..i /\ NoOne \notin DOMAIN process
  BY NextInvocation DEF LockInv
<1>2. PICK step \in {"start", "done"} :
        /\ process' = [j \in DOMAIN process \cup {i} |->
                         IF j = i THEN new(step) ELSE process[j]]
        /\ step = "start" => Free(pr) /\ lock' = [lock EXCEPT ![pr] = i]
        /\ step = "done" => UNCHANGED lock
  BY DEF Invoke
<1>3. IsProcess(new(step)) /\ new(step).provider = pr /\ new(step).step = step
      /\ new(step).connected = TRUE
  BY DEF IsProcess, Step
<1> HIDE DEF i, new
<1>4. /\ DOMAIN process' = DOMAIN process \cup {i}
      /\ process' = [j \in DOMAIN process' |-> process'[j]]
      /\ process'[i] = new(step)
      /\ \A j \in DOMAIN process : process'[j] = process[j]
  BY <1>1, <1>2
<1>5. lock' \in [Provider -> DOMAIN process' \cup {NoOne}]
  BY <1>2, <1>4 DEF LockInv, ProcessesInv
<1>6. \A j \in DOMAIN process' : IsProcess(process[j])'
  <2>1. \A j \in DOMAIN process' : IsProcess(process'[j])
    BY <1>3, <1>4 DEF LockInv, ProcessesInv
  <2> QED
    BY <2>1 DEF IsProcess
<1>7. ProcessesInv'
  BY <1>1, <1>4, <1>5, <1>6 DEF ProcessesInv
<1>8. ASSUME NEW j \in DOMAIN process', process'[j].step \notin Ended,
             process'[j].connected
      PROVE  lock'[process'[j].provider] = j
  <2>1. CASE j = i
    BY <2>1, <1>2, <1>3, <1>4, <1>8 DEF LockInv, ProcessesInv
  <2>2. CASE j # i
    <3>1. /\ j \in DOMAIN process /\ process'[j] = process[j]
          /\ lock[process[j].provider] = j /\ process[j].provider \in Provider
          /\ j # NoOne
      BY <2>2, <1>1, <1>4, <1>8
         DEF LockInv, ProcessesInv, OneSyncPerProvider, IsProcess
    <3> QED
      BY <3>1, <1>2 DEF Free, LockInv, ProcessesInv
  <2> QED
    BY <2>1, <2>2
<1>9. ASSUME NEW pro \in Provider, lock'[pro] # NoOne
      PROVE  /\ process'[lock'[pro]].provider = pro
             /\ process'[lock'[pro]].step # "done" /\ process'[lock'[pro]].connected
  <2>1. CASE lock'[pro] = lock[pro]
    <3>1. lock[pro] \in DOMAIN process
      BY <2>1, <1>9 DEF LockInv, ProcessesInv
    <3> QED
      BY <2>1, <3>1, <1>4, <1>9 DEF LockInv, OneSyncPerProvider
  <2>2. CASE lock'[pro] # lock[pro]
    BY <2>2, <1>2, <1>3, <1>4 DEF LockInv, ProcessesInv
  <2> QED
    BY <2>1, <2>2
<1>10. OneSyncPerProvider'
  BY <1>8, <1>9 DEF OneSyncPerProvider
<1> QED
  BY <1>7, <1>10 DEF LockInv

\* The steps of a sync between taking the lock and releasing it.
LEMMA WorkKeepsInv ==
  ASSUME LockInv, NEW i \in DOMAIN process,
         StartRun(i) \/ Fetch(i) \/ ReadJobs(i) \/ Write(i) \/ MarkFailed(i)
  PROVE  LockInv'
<1>1. /\ process[i].step \in {"start", "fetch", "read", "write", "fail"}
      /\ UNCHANGED lock
  BY DEF StartRun, Fetch, ReadJobs, Write, MarkFailed
<1>2. IsProcess(process[i])
  BY DEF LockInv, ProcessesInv
<1>3. CASE \E step \in Step \ {"done"} : Drops(i, step)
  BY <1>1, <1>3, DropsKeepsInv
<1>4. ASSUME NEW p, Became(i, p), IsProcess(p), p.provider = process[i].provider,
             p.connected = process[i].connected, p.step # "done"
      PROVE  LockInv'
  BY <1>1, <1>4, GoesOnWithLock
<1>5. CASE StartRun(i)
  <2>1. CASE Drops(i, "unlock")
    BY <2>1, <1>3 DEF Step
  <2>2. ASSUME NEW r, Became(i, [process[i] EXCEPT !.step = "fetch", !.run = r])
        PROVE  LockInv'
    <3> DEFINE q == [process[i] EXCEPT !.step = "fetch", !.run = r]
    <3>1. /\ IsProcess(q) /\ q.provider = process[i].provider
          /\ q.connected = process[i].connected /\ q.step # "done"
      BY <1>2 DEF IsProcess, Step
    <3>2. Became(i, q)
      BY <2>2
    <3> HIDE DEF q
    <3> QED
      BY <3>1, <3>2, <1>4
  <2>3. CASE Became(i, [process[i] EXCEPT !.step = "unlock", !.acked = FALSE])
    <3> DEFINE q == [process[i] EXCEPT !.step = "unlock", !.acked = FALSE]
    <3>1. /\ IsProcess(q) /\ q.provider = process[i].provider
          /\ q.connected = process[i].connected /\ q.step # "done"
      BY <1>2 DEF IsProcess, Step
    <3>2. Became(i, q)
      BY <2>3
    <3> HIDE DEF q
    <3> QED
      BY <3>1, <3>2, <1>4
  <2> QED
    BY <1>5, <2>1, <2>2, <2>3 DEF StartRun
<1>6. CASE Fetch(i)
  <2>1. CASE Drops(i, "fail")
    BY <2>1, <1>3 DEF Step
  <2>2. ASSUME NEW batch \in Fetchable,
               Became(i, [process[i] EXCEPT !.step = "read", !.batch = batch])
        PROVE  LockInv'
    <3> DEFINE q == [process[i] EXCEPT !.step = "read", !.batch = batch]
    <3>1. /\ IsProcess(q) /\ q.provider = process[i].provider
          /\ q.connected = process[i].connected /\ q.step # "done"
      BY <1>2 DEF IsProcess, Step
    <3>2. Became(i, q)
      BY <2>2
    <3> HIDE DEF q
    <3> QED
      BY <3>1, <3>2, <1>4
  <2> QED
    BY <1>6, <2>1, <2>2 DEF Fetch
<1>7. CASE ReadJobs(i)
  <2>1. CASE Drops(i, "fail")
    BY <2>1, <1>3 DEF Step
  <2>2. ASSUME NEW copies,
               Became(i, [process[i] EXCEPT !.step = "write", !.copies = copies])
        PROVE  LockInv'
    <3> DEFINE q == [process[i] EXCEPT !.step = "write", !.copies = copies]
    <3>1. /\ IsProcess(q) /\ q.provider = process[i].provider
          /\ q.connected = process[i].connected /\ q.step # "done"
      BY <1>2 DEF IsProcess, Step
    <3>2. Became(i, q)
      BY <2>2
    <3> HIDE DEF q
    <3> QED
      BY <3>1, <3>2, <1>4
  <2> QED
    BY <1>7, <2>1, <2>2 DEF ReadJobs
<1>8. CASE Write(i)
  <2>1. CASE Drops(i, "unlock") \/ Drops(i, "fail")
    BY <2>1, <1>3 DEF Step
  <2>2. CASE Became(i, [process[i] EXCEPT !.step = "fail", !.batch = Nothing,
                                          !.copies = Nothing, !.acked = FALSE])
    <3> DEFINE q == [process[i] EXCEPT !.step = "fail", !.batch = Nothing,
                                       !.copies = Nothing, !.acked = FALSE]
    <3>1. /\ IsProcess(q) /\ q.provider = process[i].provider
          /\ q.connected = process[i].connected /\ q.step # "done"
      BY <1>2 DEF IsProcess, Step
    <3>2. Became(i, q)
      BY <2>2
    <3> HIDE DEF q
    <3> QED
      BY <3>1, <3>2, <1>4
  <2> QED
    BY <1>8, <2>1, <2>2 DEF Write
<1>9. CASE MarkFailed(i)
  BY <1>9, <1>3 DEF MarkFailed, Step
<1> QED
  BY <1>5, <1>6, <1>7, <1>8, <1>9

\* A process whose hold on the lock ends has it no more, and the others keep theirs.
LEMMA LeavesLock ==
  ASSUME LockInv, NEW i \in DOMAIN process, NEW q, IsProcess(q), Became(i, q),
         q.step \in Ended \/ ~q.connected,
         lock' \in [Provider -> DOMAIN process \cup {NoOne}],
         \A pr \in Provider : lock'[pr] = (IF lock[pr] = i THEN NoOne ELSE lock[pr])
  PROVE  LockInv'
<1>1. /\ ProcessesInv'
      /\ DOMAIN process' = DOMAIN process
      /\ process'[i] = q
      /\ \A j \in DOMAIN process \ {i} : process'[j] = process[j]
  BY BecameMovesOne DEF LockInv
<1>2. ASSUME NEW j \in DOMAIN process', process'[j].step \notin Ended,
             process'[j].connected
      PROVE  lock'[process'[j].provider] = j
  <2>1. j # i /\ j \in DOMAIN process /\ process'[j] = process[j]
    BY <1>1, <1>2
  <2>2. lock[process[j].provider] = j /\ process[j].provider \in Provider
    BY <2>1, <1>2 DEF LockInv, ProcessesInv, OneSyncPerProvider, IsProcess
  <2> QED
    BY <2>1, <2>2
<1>3. ASSUME NEW pr \in Provider, lock'[pr] # NoOne
      PROVE  /\ process'[lock'[pr]].provider = pr
             /\ process'[lock'[pr]].step # "done" /\ process'[lock'[pr]].connected
  <2>1. lock'[pr] = lock[pr] /\ lock[pr] # i
    BY <1>3
  <2>2. lock[pr] \in DOMAIN process \ {i}
    BY <2>1, <1>3 DEF LockInv, ProcessesInv
  <2>3. process'[lock[pr]] = process[lock[pr]]
    BY <2>2, <1>1
  <2>4. /\ process[lock[pr]].provider = pr
        /\ process[lock[pr]].step # "done" /\ process[lock[pr]].connected
    BY <2>1, <1>3 DEF LockInv, OneSyncPerProvider
  <2> QED
    BY <2>1, <2>3, <2>4
<1> QED
  BY <1>1, <1>2, <1>3 DEF LockInv, OneSyncPerProvider

LEMMA UnlockKeepsInv ==
  ASSUME LockInv, NEW i \in DOMAIN process, Unlock(i)
  PROVE  LockInv'
<1> DEFINE q == [process[i] EXCEPT !.step = "done", !.batch = Nothing,
                                   !.copies = Nothing]
<1>1. IsProcess(process[i]) /\ process[i].step = "unlock"
  BY DEF LockInv, ProcessesInv, Unlock
<1>2. /\ IsProcess(q) /\ q.provider = process[i].provider
      /\ q.connected = process[i].connected /\ q.step = "done"
  BY <1>1, DropsIsProcess DEF Step
<1>3. Became(i, q)
  BY DEF Unlock, Drops
<1> HIDE DEF q
<1>4. process[i].provider \in Provider /\ i # NoOne
      /\ lock \in [Provider -> DOMAIN process \cup {NoOne}]
  BY <1>1, NextInvocation DEF LockInv, ProcessesInv, IsProcess
<1>5. /\ lock' \in [Provider -> DOMAIN process \cup {NoOne}]
      /\ \A pr \in Provider : lock'[pr] = (IF lock[pr] = i THEN NoOne ELSE lock[pr])
  <2>1. CASE process[i].connected
    <3>1. /\ lock' = [lock EXCEPT ![process[i].provider] = NoOne]
          /\ lock[process[i].provider] = i
      BY <2>1, <1>1 DEF Unlock, LockInv, OneSyncPerProvider
    <3>2. \A pr \in Provider : lock[pr] = i => pr = process[i].provider
      BY <1>4 DEF LockInv, OneSyncPerProvider
    <3> QED
      BY <3>1, <3>2, <1>4
  <2>2. CASE ~process[i].connected
    <3>1. \A pr \in Provider : lock[pr] # i
      BY <2>2, <1>4 DEF LockInv, OneSyncPerProvider
    <3> QED
      BY <2>2, <3>1, <1>4 DEF Unlock
  <2> QED
    BY <2>1, <2>2
<1> QED
  BY <1>2, <1>3, <1>5, LeavesLock

LEMMA ReapKeepsInv ==
  ASSUME LockInv, NEW i \in DOMAIN process, Reap(i)
  PROVE  LockInv'
BY DEF Reap, Drop, LockInv, ProcessesInv, OneSyncPerProvider, IsProcess

LEMMA DisconnectKeepsInv ==
  ASSUME LockInv, NEW i \in DOMAIN process, Disconnect(i)
  PROVE  LockInv'
<1> DEFINE q == [process[i] EXCEPT !.connected = FALSE]
<1>1. IsProcess(process[i])
  BY DEF LockInv, ProcessesInv
<1>2. /\ IsProcess(q) /\ q.provider = process[i].provider
      /\ q.connected = FALSE /\ q.step = process[i].step
  BY <1>1 DEF IsProcess
<1>3. Became(i, q) /\ lock[process[i].provider] = i
      /\ lock' = [lock EXCEPT ![process[i].provider] = NoOne]
  BY DEF Disconnect, Drop
<1> HIDE DEF q
<1>4. process[i].provider \in Provider /\ i # NoOne
      /\ lock \in [Provider -> DOMAIN process \cup {NoOne}]
  BY <1>1, NextInvocation DEF LockInv, ProcessesInv, IsProcess
<1>5. \A pr \in Provider : lock[pr] = i => pr = process[i].provider
  BY <1>4 DEF LockInv, OneSyncPerProvider
<1>6. /\ lock' \in [Provider -> DOMAIN process \cup {NoOne}]
      /\ \A pr \in Provider : lock'[pr] = (IF lock[pr] = i THEN NoOne ELSE lock[pr])
  BY <1>3, <1>4, <1>5
<1> QED
  BY <1>2, <1>3, <1>6, LeavesLock

-----------------------------------------------------------------------------
LEMMA NextKeepsInv ==
  ASSUME LockInv, Next
  PROVE  LockInv'
<1>1. CASE \E pr \in Provider : Invoke(pr)
  BY <1>1, InvokeKeepsInv
<1>2. ASSUME NEW i \in DOMAIN process, SyncStep(i)
      PROVE  LockInv'
  BY <1>2, WorkKeepsInv, UnlockKeepsInv DEF SyncStep
<1>3. ASSUME NEW i \in DOMAIN process, Crash(i)
      PROVE  LockInv'
  BY <1>3, DropsKeepsInv DEF Crash, Step
<1>4. ASSUME NEW i \in DOMAIN process, Reap(i)
      PROVE  LockInv'
  BY <1>4, ReapKeepsInv
<1>5. ASSUME NEW i \in DOMAIN process, Disconnect(i)
      PROVE  LockInv'
  BY <1>5, DisconnectKeepsInv
<1> QED
  BY <1>1, <1>2, <1>3, <1>4, <1>5 DEF Next

LEMMA InitHoldsNothing == Init => LockInv
<1> SUFFICES ASSUME Init PROVE LockInv
  OBVIOUS
<1>1. DOMAIN process = {} /\ 0 \in Nat /\ 1..0 = {}
  BY DEF Init, Nothing
<1> QED
  BY <1>1 DEF Init, LockInv, ProcessesInv, OneSyncPerProvider, Nothing

\* pg_try_advisory_lock and the release in the finally clause (ingestion/lock.py), for
\* any number of providers, commands, crashes and lost connections: a running process
\* that has kept its connection holds its provider's lock, so there is one at most,
\* and no process that is done does.
THEOREM AlwaysOneSyncPerProvider == Spec => []OneSyncPerProvider
<1>1. LockInv /\ [Next]_ivars => LockInv'
  <2>1. LockInv /\ UNCHANGED ivars => LockInv'
    BY DEF LockInv, ProcessesInv, OneSyncPerProvider, IsProcess, ivars
  <2> QED
    BY <2>1, NextKeepsInv
<1>2. LockInv => OneSyncPerProvider
  BY DEF LockInv
<1> QED
  BY InitHoldsNothing, <1>1, <1>2, PTL DEF Spec

-----------------------------------------------------------------------------
(* The tables.                                                             *)

\* Rows as they are for any bounds: run numbers are natural numbers.
Row == [content : Content, status : {"active", "inactive"}, discovered : Nat,
        lastSeen : Nat, updated : Nat, inactiveAt : Nat]
Table == UNION {[keys -> Row] : keys \in SUBSET (Provider \X JobId)}
Process == [provider : Provider, step : Step, run : Nat, batch : Batch,
            copies : Table, connected : BOOLEAN, acked : BOOLEAN]

RunsOf(pr) == {r \in DOMAIN runs : runs[r].provider = pr}

TypeInv ==
  /\ jobs \in Table /\ IsFiniteSet(DOMAIN jobs)
  /\ \E m \in Nat : DOMAIN runs = 1..m
  /\ runs \in [DOMAIN runs -> Run]
  /\ process \in [DOMAIN process -> Process]

\* A run is under way from its record to the failure or the success of it.
UnderWay(i) == process[i].step \in {"fetch", "read", "write", "fail"}
Bears(k, r) == r \in {jobs[k].lastSeen, jobs[k].updated}

\* The times of a job are runs of its provider, and its columns agree.
JobsInv ==
  \A k \in DOMAIN jobs :
    /\ {jobs[k].discovered, jobs[k].lastSeen, jobs[k].updated} \subseteq RunsOf(k[1])
    /\ (jobs[k].status = "active") = (jobs[k].inactiveAt = NoTime)
    /\ Stored[jobs[k].content] = jobs[k].content

\* A run belongs to one process.
Owns(i) ==
  /\ UnderWay(i) => process[i].run # NoRun
  /\ process[i].step = "start" => process[i].run = NoRun
  /\ process[i].run # NoRun => process[i].run \in RunsOf(process[i].provider)

OwnersInv ==
  \A i \in DOMAIN process :
    /\ Owns(i)
    /\ \A j \in DOMAIN process :
         process[i].run = process[j].run /\ process[i].run # NoRun => i = j

\* Until its commit is sent, a run has left no trace.
Pending(i) ==
  UnderWay(i) /\ process[i].acked =>
    /\ runs[process[i].run].status # "succeeded"
    /\ \A k \in DOMAIN jobs : ~Bears(k, process[i].run)

PendingInv == \A i \in DOMAIN process : Pending(i)

\* While no lock is lost, the run that is under way is the newest of its provider, and
\* what it loaded is still so.
IsNewest(i) == \A t \in RunsOf(process[i].provider) : t <= process[i].run
LoadedSome(i) == DOMAIN process[i].copies \subseteq Seen(process[i]) \cap DOMAIN jobs
LoadedAll(i) ==
  process[i].copies = [k \in Seen(process[i]) \cap DOMAIN jobs |-> jobs[k]]

Held(i) ==
  /\ process[i].step = "write" => LoadedSome(i)
  /\ Undisturbed(process[i].provider) =>
       /\ UnderWay(i) => IsNewest(i)
       /\ process[i].step = "write" => LoadedAll(i)

HeldInv == \A i \in DOMAIN process : Held(i)

\* Every job that was fetched is counted once.
CountedInv ==
  \A r \in DOMAIN runs :
    runs[r].status = "succeeded" =>
      runs[r].counts.created + runs[r].counts.updated + runs[r].counts.unchanged
        = Cardinality(DOMAIN runs[r].fetched)

\* The second half of ActiveIsLatestFetched, of one provider and run.
LatestAt(pr, r) ==
  /\ Undisturbed(pr)
  /\ r \in Succeeded(pr) /\ \A t \in Succeeded(pr) : t <= r
  => LET seen == {pr} \X DOMAIN runs[r].fetched
     IN /\ \A k \in seen : /\ k \in ActiveJobs(pr)
                           /\ jobs[k].content = Stored[runs[r].fetched[k[2]]]
        /\ pr \in Snapshot => ActiveJobs(pr) \subseteq seen

LatestInv == \A pr \in Provider, r \in DOMAIN runs : LatestAt(pr, r)

DataInv ==
  /\ TypeInv /\ LockInv /\ JobsInv /\ OwnersInv /\ PendingInv /\ HeldInv
  /\ FailedRunLeavesJobs /\ CountedInv /\ LatestInv

-----------------------------------------------------------------------------
USE DEF NoRun, NoTime

LEMMA NothingFits == Nothing \in Table /\ Nothing \in Batch
<1>1. {} \in SUBSET (Provider \X JobId) /\ Nothing \in [{} -> Row]
  BY DEF Nothing
<1>2. {} \in SUBSET JobId /\ Nothing \in [{} -> Content]
  BY DEF Nothing
<1> QED
  BY <1>1, <1>2 DEF Table, Batch

LEMMA TableIs ==
  ASSUME NEW t
  PROVE  t \in Table <=> DOMAIN t \subseteq Provider \X JobId /\ t \in [DOMAIN t -> Row]
BY DEF Table

LEMMA BatchIs ==
  ASSUME NEW b \in Batch
  PROVE  DOMAIN b \subseteq JobId /\ b \in [DOMAIN b -> Content]
BY DEF Batch

LEMMA FetchableIsBatch == Fetchable \subseteq Batch
BY IngestionAssumption DEF Batch

LEMMA SeenCounts ==
  ASSUME NEW p \in Process
  PROVE  IsFiniteSet(Seen(p)) /\ Cardinality(Seen(p)) = Cardinality(DOMAIN p.batch)
<1>1. IsFiniteSet(DOMAIN p.batch)
  <2>1. DOMAIN p.batch \subseteq JobId
    BY BatchIs DEF Process
  <2> QED
    BY <2>1, IngestionAssumption, FS_Subset
<1>2. IsFiniteSet({p.provider}) /\ Cardinality({p.provider}) = 1
  BY FS_Singleton
<1>3. Cardinality(DOMAIN p.batch) \in Nat
  BY <1>1, FS_CardinalityType
<1> QED
  BY <1>1, <1>2, <1>3, FS_Product DEF Seen

\* The lock lets one process of a provider work that nothing has disturbed.
LEMMA OnlyOneUnderWay ==
  ASSUME LockInv, NEW i \in DOMAIN process, NEW j \in DOMAIN process,
         process[i].step \notin Ended, process[j].step \notin Ended,
         process[i].provider = process[j].provider, Undisturbed(process[i].provider)
  PROVE  i = j
BY DEF LockInv, OneSyncPerProvider, Undisturbed

LEMMA MovesOne ==
  ASSUME TypeInv, NEW i \in DOMAIN process, NEW q \in Process, Became(i, q)
  PROVE  /\ DOMAIN process' = DOMAIN process
         /\ process' \in [DOMAIN process -> Process]
         /\ process'[i] = q
         /\ \A j \in DOMAIN process \ {i} : process'[j] = process[j]
BY DEF TypeInv, Became

\* A process that goes on without touching the tables.
LEMMA GoesOn ==
  ASSUME DataInv, LockInv', NEW i \in DOMAIN process, NEW q \in Process, Became(i, q),
         UNCHANGED <<jobs, runs>>,
         q.provider = process[i].provider, q.run = process[i].run,
         q.connected => process[i].connected, q.acked => process[i].acked,
         q.step \in {"fetch", "read", "write", "fail"} => UnderWay(i),
         q.step = "start" => process[i].step = "start",
         q.step = "write" =>
           /\ DOMAIN q.copies \subseteq Seen(q) \cap DOMAIN jobs
           /\ Undisturbed(q.provider) =>
                q.copies = [k \in Seen(q) \cap DOMAIN jobs |-> jobs[k]]
  PROVE  DataInv'
<1>1. /\ DOMAIN process' = DOMAIN process
      /\ process' \in [DOMAIN process -> Process]
      /\ process'[i] = q
      /\ \A j \in DOMAIN process \ {i} : process'[j] = process[j]
  BY MovesOne DEF DataInv
<1>2. jobs' = jobs /\ runs' = runs /\ \A pr : RunsOf(pr)' = RunsOf(pr)
  BY DEF RunsOf
<1>3. \A pr : Undisturbed(pr)' => Undisturbed(pr)
  BY <1>1 DEF Undisturbed
<1>4. TypeInv'
  BY <1>1, <1>2 DEF DataInv, TypeInv
<1>5. JobsInv'
  BY <1>2 DEF DataInv, JobsInv
<1>6. \A j \in DOMAIN process :
        /\ UnderWay(j)' => UnderWay(j)
        /\ process'[j].step = "start" => process[j].step = "start"
        /\ process'[j].run = process[j].run
        /\ process'[j].provider = process[j].provider
        /\ process'[j].acked => process[j].acked
  BY <1>1 DEF UnderWay
<1>7. OwnersInv'
  BY <1>1, <1>2, <1>6 DEF DataInv, OwnersInv, Owns, RunsOf
<1>8. PendingInv'
  BY <1>1, <1>2, <1>6 DEF DataInv, PendingInv, Pending, Bears
<1>9. ASSUME NEW j \in DOMAIN process
      PROVE  Held(j)'
  <2>1. Undisturbed(process[j].provider)' => Undisturbed(process[j].provider)
    BY <1>1, <1>6 DEF Undisturbed
  <2>2. IsNewest(j) => IsNewest(j)'
    BY <1>2, <1>6 DEF IsNewest, RunsOf
  <2>3. CASE j = i
    <3>1. process'[j] = q
      BY <2>3, <1>1
    <3>2. (process[j].step = "write")' => LoadedSome(j)'
      BY <3>1, <1>2 DEF LoadedSome
    <3>3. (process[j].step = "write")' /\ Undisturbed(process[j].provider) => LoadedAll(j)'
      BY <2>3, <3>1, <1>2 DEF LoadedAll
    <3> QED
      BY <2>1, <2>2, <3>2, <3>3, <1>6 DEF DataInv, HeldInv, Held
  <2>4. CASE j # i
    <3>1. process'[j] = process[j]
      BY <2>4, <1>1
    <3>2. (LoadedSome(j) => LoadedSome(j)') /\ (LoadedAll(j) => LoadedAll(j)')
      BY <3>1, <1>2 DEF LoadedSome, LoadedAll
    <3> QED
      BY <2>1, <2>2, <3>1, <3>2, <1>6 DEF DataInv, HeldInv, Held
  <2> QED
    BY <2>3, <2>4
<1>10. FailedRunLeavesJobs'
  BY <1>1, <1>2, <1>6 DEF DataInv, FailedRunLeavesJobs
<1>11. LatestInv'
  BY <1>2, <1>3 DEF DataInv, LatestInv, LatestAt, Succeeded, ActiveJobs
<1>12. CountedInv'
  BY <1>2 DEF DataInv, CountedInv
<1> QED
  BY <1>12, <1>4, <1>5, <1>7, <1>8, <1>9, <1>1, <1>10, <1>11 DEF DataInv, HeldInv

LEMMA DroppedFits ==
  ASSUME NEW p \in Process, NEW step \in Step
  PROVE  LET q == [p EXCEPT !.step = step, !.batch = Nothing, !.copies = Nothing]
         IN /\ q \in Process
            /\ q.provider = p.provider /\ q.run = p.run /\ q.step = step
            /\ q.connected = p.connected /\ q.acked = p.acked
BY NothingFits DEF Process

LEMMA DropsGoesOn ==
  ASSUME DataInv, LockInv', NEW i \in DOMAIN process,
         NEW step \in Step \ {"start", "fetch", "read", "write"},
         step = "fail" => UnderWay(i), Drops(i, step), UNCHANGED <<jobs, runs>>
  PROVE  DataInv'
<1> DEFINE q == [process[i] EXCEPT !.step = step, !.batch = Nothing,
                                   !.copies = Nothing]
<1>1. process[i] \in Process
  BY DEF DataInv, TypeInv
<1>2. /\ q \in Process
      /\ q.provider = process[i].provider /\ q.run = process[i].run /\ q.step = step
      /\ q.connected = process[i].connected /\ q.acked = process[i].acked
  BY <1>1, DroppedFits
<1>3. Became(i, q)
  BY DEF Drops
<1> HIDE DEF q
<1> QED
  BY <1>2, <1>3, GoesOn

LEMMA NextRun ==
  ASSUME TypeInv, NEW r, r = Cardinality(DOMAIN runs) + 1
  PROVE  /\ r \in Nat \ {0}
         /\ r \notin DOMAIN runs
         /\ DOMAIN runs \cup {r} = 1..r
         /\ \A t \in DOMAIN runs : t \in Nat \ {0} /\ t < r
<1>1. PICK m \in Nat : DOMAIN runs = 1..m
  BY DEF TypeInv
<1>2. Cardinality(1..m) = m
  BY <1>1, FS_Interval
<1> QED
  BY <1>1, <1>2

\* A process whose record is committed, whether it hears of it or not.
LEMMA InsertKeepsData ==
  ASSUME DataInv, LockInv', NEW i \in DOMAIN process, process[i].step = "start",
         NEW r, r = Cardinality(DOMAIN runs) + 1,
         runs' = [t \in DOMAIN runs \cup {r} |->
                    IF t = r THEN NewRun(process[i].provider) ELSE runs[t]],
         UNCHANGED jobs, NEW q \in Process, Became(i, q),
         q.provider = process[i].provider,
         q.connected => process[i].connected, q.acked => process[i].acked,
         \/ q.step = "fetch" /\ q.run = r
         \/ q.step = "unlock" /\ q.run = process[i].run
  PROVE  DataInv'
<1>1. /\ DOMAIN process' = DOMAIN process
      /\ process' \in [DOMAIN process -> Process]
      /\ process'[i] = q
      /\ \A j \in DOMAIN process \ {i} : process'[j] = process[j]
  BY MovesOne DEF DataInv
<1>2. /\ r \in Nat \ {0}
      /\ r \notin DOMAIN runs
      /\ DOMAIN runs \cup {r} = 1..r
      /\ \A t \in DOMAIN runs : t \in Nat \ {0} /\ t < r
  BY NextRun DEF DataInv
<1>3. /\ DOMAIN runs' = DOMAIN runs \cup {r}
      /\ \A t \in DOMAIN runs : runs'[t] = runs[t]
      /\ runs'[r].provider = process[i].provider
      /\ runs'[r].status = "running"
  BY <1>2 DEF NewRun
<1>4. process[i].run = NoRun
  BY DEF DataInv, OwnersInv, Owns
<1>5. \A pr : RunsOf(pr)' = RunsOf(pr) \cup (IF pr = process[i].provider THEN {r} ELSE {})
  BY <1>2, <1>3 DEF RunsOf
<1>6. \A j \in DOMAIN process : process[j].run = NoRun \/ process[j].run \in DOMAIN runs
  BY DEF DataInv, OwnersInv, Owns, RunsOf
<1>7. \A k \in DOMAIN jobs : jobs[k].lastSeen \in DOMAIN runs /\ jobs[k].updated \in DOMAIN runs
  BY DEF DataInv, JobsInv, RunsOf
<1>8. TypeInv'
  <2>1. NewRun(process[i].provider) \in Run
    <3>1. process[i].provider \in Provider
      BY DEF DataInv, TypeInv, Process
    <3> QED
      BY <3>1, NothingFits DEF NewRun, Run, Counts, NoCounts
  <2>2. runs' \in [DOMAIN runs' -> Run]
    BY <2>1, <1>3 DEF DataInv, TypeInv
  <2>3. \E m \in Nat : DOMAIN runs' = 1..m
    BY <1>2, <1>3
  <2> QED
    BY <2>2, <2>3, <1>1 DEF DataInv, TypeInv
<1>9. JobsInv'
  BY <1>5 DEF DataInv, JobsInv
<1>10. OwnersInv'
  <2>1. ASSUME NEW j \in DOMAIN process
        PROVE  Owns(j)'
    <3>1. RunsOf(process[j].provider)' = RunsOf(process[j].provider) \cup
            (IF process[j].provider = process[i].provider THEN {r} ELSE {})
      <4>1. process'[j].provider = process[j].provider
        BY <1>1
      <4> QED
        BY <4>1, <1>2, <1>3 DEF RunsOf
    <3>2. CASE j = i
      BY <3>1, <3>2, <1>1, <1>2, <1>4 DEF Owns, UnderWay
    <3>3. CASE j # i
      BY <3>1, <3>3, <1>1 DEF DataInv, OwnersInv, Owns, UnderWay
    <3> QED
      BY <3>2, <3>3
  <2>2. ASSUME NEW j \in DOMAIN process, NEW l \in DOMAIN process,
               process'[j].run = process'[l].run, process'[j].run # NoRun
        PROVE  j = l
    <3>1. j # i /\ l # i => process[j].run = process[l].run /\ process[j].run # NoRun
      BY <2>2, <1>1
    <3>2. j # i => process'[j].run # r \/ process'[j].run = NoRun
      BY <1>1, <1>2, <1>6
    <3>3. l # i => process'[l].run # r \/ process'[l].run = NoRun
      BY <1>1, <1>2, <1>6
    <3>4. process'[i].run \in {r, NoRun}
      BY <1>1, <1>4
    <3> QED
      BY <2>2, <3>1, <3>2, <3>3, <3>4 DEF DataInv, OwnersInv, Owns
  <2> QED
    BY <2>1, <2>2, <1>1 DEF OwnersInv
<1>11. PendingInv'
  <2> SUFFICES ASSUME NEW j \in DOMAIN process, UnderWay(j)', process'[j].acked
               PROVE  /\ runs'[process'[j].run].status # "succeeded"
                      /\ \A k \in DOMAIN jobs :
                           process'[j].run \notin {jobs[k].lastSeen, jobs[k].updated}
    BY <1>1 DEF PendingInv, Pending, Bears
  <2>1. CASE j = i
    BY <2>1, <1>1, <1>2, <1>3, <1>7 DEF UnderWay
  <2>2. CASE j # i
    <3>1. UnderWay(j) /\ process[j].acked /\ process'[j].run = process[j].run
      BY <2>2, <1>1 DEF UnderWay
    <3>2. process[j].run \in DOMAIN runs
      BY <3>1, <1>6 DEF DataInv, OwnersInv, Owns
    <3> QED
      BY <3>1, <3>2, <1>3 DEF DataInv, PendingInv, Pending, Bears
  <2> QED
    BY <2>1, <2>2
<1>12. ASSUME NEW j \in DOMAIN process
       PROVE  Held(j)'
  <2>1. CASE j = i
    <3>1. process'[j] = q /\ q.step # "write"
      BY <2>1, <1>1
    <3>2. RunsOf(process[j].provider)' \subseteq 1..r
      BY <1>2, <1>3 DEF RunsOf
    <3>3. q.step = "fetch" => IsNewest(j)'
      BY <3>1, <3>2, <1>2 DEF IsNewest
    <3> QED
      BY <3>1, <3>3 DEF Held, UnderWay
  <2>2. CASE j # i
    <3>1. process'[j] = process[j]
      BY <2>2, <1>1
    <3>2. (LoadedSome(j) => LoadedSome(j)') /\ (LoadedAll(j) => LoadedAll(j)')
      BY <3>1 DEF LoadedSome, LoadedAll
    <3>3. Undisturbed(process[j].provider)' => Undisturbed(process[j].provider)
      BY <1>1 DEF Undisturbed
    <3>4. UnderWay(j) /\ Undisturbed(process[j].provider) =>
            process[j].provider # process[i].provider
      <4>1. UnderWay(j) => process[j].step \notin Ended
        BY DEF UnderWay
      <4> QED
        BY <2>2, <4>1, OnlyOneUnderWay DEF DataInv
    <3>5. process[j].provider # process[i].provider /\ IsNewest(j) => IsNewest(j)'
      BY <3>1, <1>2, <1>3 DEF IsNewest, RunsOf
    <3> QED
      BY <3>1, <3>2, <3>3, <3>4, <3>5 DEF DataInv, HeldInv, Held, UnderWay
  <2> QED
    BY <2>1, <2>2
<1>13. FailedRunLeavesJobs'
  <2> SUFFICES ASSUME NEW t \in DOMAIN runs', NEW k \in DOMAIN jobs,
                      runs'[t].status # "succeeded",
                      \A j \in DOMAIN process : process'[j].run = t => process'[j].acked
               PROVE  t \notin {jobs[k].lastSeen, jobs[k].updated}
    BY <1>1 DEF FailedRunLeavesJobs
  <2>1. CASE t = r
    BY <2>1, <1>2, <1>7
  <2>2. CASE t # r
    <3>1. t \in DOMAIN runs /\ t # NoRun /\ runs'[t] = runs[t]
      BY <2>2, <1>2, <1>3 DEF NoRun
    <3>2. \A j \in DOMAIN process : process[j].run = t => process[j].acked
      BY <3>1, <1>1, <1>4
    <3> QED
      BY <3>1, <3>2 DEF DataInv, FailedRunLeavesJobs
  <2> QED
    BY <2>1, <2>2
<1>14. LatestInv'
  <2>1. \A pr : /\ Undisturbed(pr)' => Undisturbed(pr)
                /\ ActiveJobs(pr)' = ActiveJobs(pr)
    BY <1>1 DEF Undisturbed, ActiveJobs
  <2>2. \A pr : Succeeded(pr)' = Succeeded(pr) /\ Succeeded(pr) \subseteq DOMAIN runs
    BY <1>2, <1>3 DEF Succeeded
  <2>3. ASSUME NEW pr \in Provider, NEW t \in DOMAIN runs'
        PROVE  LatestAt(pr, t)'
    <3>1. CASE t \in DOMAIN runs
      BY <3>1, <2>1, <2>2, <1>3 DEF DataInv, LatestInv, LatestAt
    <3>2. CASE t \notin DOMAIN runs
      BY <3>2, <2>2 DEF LatestAt
    <3> QED
      BY <3>1, <3>2
  <2> QED
    BY <2>3 DEF LatestInv
<1>15. CountedInv'
  BY <1>2, <1>3 DEF DataInv, CountedInv
<1> QED
  BY <1>15, <1>1, <1>8, <1>9, <1>10, <1>11, <1>12, <1>13, <1>14 DEF DataInv, HeldInv

LEMMA InvokeKeepsData ==
  ASSUME DataInv, LockInv', NEW pr \in Provider, Invoke(pr)
  PROVE  DataInv'
<1> DEFINE i == Cardinality(DOMAIN process) + 1
           new(step) == [provider |-> pr, step |-> step, run |-> NoRun,
                         batch |-> Nothing, copies |-> Nothing,
                         connected |-> TRUE, acked |-> TRUE]
<1>1. /\ i \in Nat \ {0} /\ i \notin DOMAIN process
      /\ DOMAIN process \cup {i} = 1..i
  BY NextInvocation DEF DataInv, LockInv
<1>2. PICK step \in {"start", "done"} :
        process' = [j \in DOMAIN process \cup {i} |->
                      IF j = i THEN new(step) ELSE process[j]]
  BY DEF Invoke
<1>3. /\ new(step) \in Process
      /\ new(step).step = step /\ new(step).run = NoRun
  BY NothingFits DEF Process, Step
<1>4. jobs' = jobs /\ runs' = runs /\ \A pro : RunsOf(pro)' = RunsOf(pro)
  BY DEF Invoke, RunsOf
<1> HIDE DEF i, new
<1>5. /\ DOMAIN process' = DOMAIN process \cup {i}
      /\ process' = [j \in DOMAIN process' |-> process'[j]]
      /\ process'[i] = new(step)
      /\ \A j \in DOMAIN process : process'[j] = process[j]
  BY <1>1, <1>2
<1>6. TypeInv'
  BY <1>3, <1>4, <1>5 DEF DataInv, TypeInv
<1>7. \A pro : Undisturbed(pro)' => Undisturbed(pro)
  BY <1>5 DEF Undisturbed
<1>8. JobsInv'
  BY <1>4 DEF DataInv, JobsInv
<1>9. OwnersInv'
  <2>1. \A j \in DOMAIN process' : Owns(j)'
    BY <1>3, <1>4, <1>5 DEF DataInv, OwnersInv, Owns, UnderWay
  <2>2. ASSUME NEW j \in DOMAIN process', NEW l \in DOMAIN process',
               process'[j].run = process'[l].run, process'[j].run # NoRun
        PROVE  j = l
    BY <2>2, <1>3, <1>5 DEF DataInv, OwnersInv
  <2> QED
    BY <2>1, <2>2 DEF OwnersInv
<1>10. \A j \in DOMAIN process' : Pending(j)'
  BY <1>3, <1>4, <1>5 DEF DataInv, PendingInv, Pending, UnderWay, Bears
<1>11. ASSUME NEW j \in DOMAIN process'
       PROVE  Held(j)'
  <2>1. CASE j = i
    BY <2>1, <1>3, <1>5 DEF Held, UnderWay
  <2>2. CASE j # i
    <3>1. j \in DOMAIN process /\ process'[j] = process[j]
      BY <2>2, <1>5
    <3>2. (LoadedSome(j) => LoadedSome(j)') /\ (LoadedAll(j) => LoadedAll(j)')
      BY <3>1, <1>4 DEF LoadedSome, LoadedAll
    <3>3. IsNewest(j) => IsNewest(j)'
      BY <3>1, <1>4 DEF IsNewest, RunsOf
    <3>4. Undisturbed(process[j].provider)' => Undisturbed(process[j].provider)
      BY <3>1, <1>5 DEF Undisturbed
    <3> QED
      BY <3>1, <3>2, <3>3, <3>4 DEF DataInv, HeldInv, Held, UnderWay
  <2> QED
    BY <2>1, <2>2
<1>12. FailedRunLeavesJobs'
  BY <1>4, <1>5 DEF DataInv, FailedRunLeavesJobs
<1>13. LatestInv'
  BY <1>4, <1>7 DEF DataInv, LatestInv, LatestAt, Succeeded, ActiveJobs
<1>14. CountedInv'
  BY <1>4 DEF DataInv, CountedInv
<1> QED
  BY <1>14, <1>6, <1>8, <1>9, <1>10, <1>11, <1>12, <1>13 DEF DataInv, PendingInv, HeldInv

-----------------------------------------------------------------------------
(* What a run does to the table.                                           *)

\* A row that was there keeps its discovery; its columns still agree, whatever copy the
\* run decided on; and with a copy that is still so it becomes what was fetched.
LEMMA RediscoveredRow ==
  ASSUME NEW p \in Process, p.run # NoRun, NEW copy, NEW row \in Row,
         NEW content \in Content, NEW new, new = Rediscovered(p, copy, row, content)
  PROVE  /\ new \in Row
         /\ new.discovered = row.discovered /\ new.lastSeen = p.run
         /\ new.updated \in {p.run, row.updated}
         /\ (row.status = "active") = (row.inactiveAt = NoTime) =>
              (new.status = "active") = (new.inactiveAt = NoTime)
         /\ Stored[row.content] = row.content => Stored[new.content] = new.content
         /\ copy = row /\ Stored[row.content] = row.content =>
              new.status = "active" /\ new.content = Stored[content]
<1> DEFINE back == copy.status = "inactive"
           changed == copy.content # content
<1>1. Stored[content] \in Content /\ Stored[Stored[content]] = Stored[content]
  BY IngestionAssumption
<1>2. /\ new.discovered = row.discovered /\ new.lastSeen = p.run
      /\ new.status = (IF back THEN "active" ELSE row.status)
      /\ new.inactiveAt = (IF back THEN NoTime ELSE row.inactiveAt)
      /\ new.content = (IF changed THEN Stored[content] ELSE row.content)
      /\ new.updated = (IF back \/ changed THEN p.run ELSE row.updated)
  BY DEF Rediscovered, Row
<1>3. new \in Row
  BY <1>1 DEF Rediscovered, Row, Process
<1> QED
  BY <1>1, <1>2, <1>3 DEF Row

LEMMA NewJobRow ==
  ASSUME NEW p \in Process, p.run # NoRun, NEW content \in Content,
         NEW new, new = NewJob(p, content)
  PROVE  /\ new \in Row
         /\ new.discovered = p.run /\ new.lastSeen = p.run /\ new.updated = p.run
         /\ new.status = "active" /\ new.inactiveAt = NoTime
         /\ new.content = Stored[content] /\ Stored[new.content] = new.content
<1>1. Stored[content] \in Content /\ Stored[Stored[content]] = Stored[content]
  BY IngestionAssumption
<1> QED
  BY <1>1 DEF NewJob, Row, Process

LEMMA DeactivatedRow ==
  ASSUME NEW p \in Process, p.run # NoRun, NEW row \in Row,
         NEW new, new = Deactivated(p, row)
  PROVE  /\ new \in Row
         /\ new.discovered = row.discovered /\ new.lastSeen = row.lastSeen
         /\ new.updated = p.run
         /\ new.status = "inactive" /\ new.inactiveAt # NoTime
         /\ new.content = row.content
BY DEF Deactivated, Row, Process

LEMMA AppliedRow ==
  ASSUME DataInv, NEW i \in DOMAIN process, process[i].step = "write", Apply(i),
         NEW k \in DOMAIN jobs', NEW p, p = process[i]
  PROVE  /\ k \in Seen(p) \/ k \in DOMAIN jobs
         /\ k \in Seen(p) => k[1] = p.provider /\ k[2] \in DOMAIN p.batch
         /\ \/ /\ k \in Seen(p) /\ k \in DOMAIN p.copies /\ k \in DOMAIN jobs
               /\ jobs'[k] = Rediscovered(p, p.copies[k], jobs[k], p.batch[k[2]])
            \/ /\ k \in Seen(p) /\ k \notin DOMAIN jobs
               /\ jobs'[k] = NewJob(p, p.batch[k[2]])
            \/ /\ k \notin Seen(p) /\ k \in DOMAIN jobs /\ k \in Missing(p)
               /\ jobs'[k] = Deactivated(p, jobs[k])
            \/ /\ k \notin Seen(p) /\ k \in DOMAIN jobs /\ k \notin Missing(p)
               /\ jobs'[k] = jobs[k]
<1>1. jobs' = Applied(p) /\ ~Duplicate(p)
  BY DEF Apply
<1>2. k \in DOMAIN jobs \cup Seen(p)
  BY <1>1 DEF Applied
<1>3. DOMAIN p.copies \subseteq Seen(p) \cap DOMAIN jobs
  BY DEF DataInv, HeldInv, Held, LoadedSome
<1>4. k \in Seen(p) => k[1] = p.provider /\ k[2] \in DOMAIN p.batch
  BY DEF Seen
<1>5. jobs'[k] =
        IF k \in Seen(p)
        THEN IF k \in DOMAIN p.copies
             THEN Rediscovered(p, p.copies[k], jobs[k], p.batch[k[2]])
             ELSE NewJob(p, p.batch[k[2]])
        ELSE IF k \in Missing(p) THEN Deactivated(p, jobs[k]) ELSE jobs[k]
  BY <1>1, <1>2 DEF Applied
<1>6. k \in Seen(p) /\ k \notin DOMAIN p.copies => k \notin DOMAIN jobs
  BY <1>1 DEF Duplicate
<1> QED
  BY <1>2, <1>3, <1>4, <1>5, <1>6

\* A run writes rows of its provider alone, and every time it writes is its own.
LEMMA AppliedIs ==
  ASSUME DataInv, NEW i \in DOMAIN process, process[i].step = "write", Apply(i),
         NEW k \in DOMAIN jobs', NEW p, p = process[i]
  PROVE  /\ k \in Provider \X JobId
         /\ jobs'[k] \in Row
         /\ k[1] # p.provider => k \in DOMAIN jobs /\ jobs'[k] = jobs[k]
         /\ k \in DOMAIN jobs =>
              /\ jobs'[k].discovered = jobs[k].discovered
              /\ jobs'[k].lastSeen \in {p.run, jobs[k].lastSeen}
              /\ jobs'[k].updated \in {p.run, jobs[k].updated}
         /\ k \notin DOMAIN jobs =>
              /\ jobs'[k].discovered = p.run /\ jobs'[k].lastSeen = p.run
              /\ jobs'[k].updated = p.run
         /\ (jobs'[k].status = "active") = (jobs'[k].inactiveAt = NoTime)
         /\ Stored[jobs'[k].content] = jobs'[k].content
         /\ LoadedAll(i) =>
              /\ k \in Seen(p) => /\ jobs'[k].status = "active"
                                  /\ jobs'[k].content = Stored[p.batch[k[2]]]
              /\ k \notin Seen(p) /\ k[1] = p.provider /\ p.provider \in Snapshot =>
                   jobs'[k].status = "inactive"
<1>1. p \in Process /\ p.run # NoRun
  BY DEF DataInv, TypeInv, OwnersInv, Owns, UnderWay
<1>2. p.batch \in Batch /\ p.provider \in Provider
  BY <1>1 DEF Process
<1>3. /\ DOMAIN p.batch \subseteq JobId
      /\ k \in Seen(p) =>
           /\ p.batch[k[2]] \in Content
           /\ k \in Provider \X JobId /\ k[1] = p.provider
  BY <1>2, BatchIs DEF Seen
<1>4. k \in DOMAIN jobs =>
        /\ k \in Provider \X JobId /\ jobs[k] \in Row
        /\ (jobs[k].status = "active") = (jobs[k].inactiveAt = NoTime)
        /\ Stored[jobs[k].content] = jobs[k].content
  BY TableIs DEF DataInv, TypeInv, JobsInv
<1>5. LoadedAll(i) => \A l \in DOMAIN p.copies : p.copies[l] = jobs[l]
  BY DEF LoadedAll
<1>6. CASE /\ k \in Seen(p) /\ k \in DOMAIN p.copies /\ k \in DOMAIN jobs
           /\ jobs'[k] = Rediscovered(p, p.copies[k], jobs[k], p.batch[k[2]])
  <2> DEFINE new == jobs'[k]
  <2>1. /\ new \in Row
        /\ new.discovered = jobs[k].discovered /\ new.lastSeen = p.run
        /\ new.updated \in {p.run, jobs[k].updated}
        /\ (new.status = "active") = (new.inactiveAt = NoTime)
        /\ Stored[new.content] = new.content
        /\ p.copies[k] = jobs[k] =>
             new.status = "active" /\ new.content = Stored[p.batch[k[2]]]
    BY <1>1, <1>3, <1>4, <1>6, RediscoveredRow
  <2> QED
    BY <2>1, <1>3, <1>5, <1>6
<1>7. CASE /\ k \in Seen(p) /\ k \notin DOMAIN jobs
           /\ jobs'[k] = NewJob(p, p.batch[k[2]])
  <2> DEFINE new == jobs'[k]
  <2>1. /\ new \in Row
        /\ new.discovered = p.run /\ new.lastSeen = p.run /\ new.updated = p.run
        /\ new.status = "active" /\ new.inactiveAt = NoTime
        /\ new.content = Stored[p.batch[k[2]]] /\ Stored[new.content] = new.content
    BY <1>1, <1>3, <1>7, NewJobRow
  <2> QED
    BY <2>1, <1>3, <1>7
<1>8. CASE /\ k \notin Seen(p) /\ k \in DOMAIN jobs /\ k \in Missing(p)
           /\ jobs'[k] = Deactivated(p, jobs[k])
  <2> DEFINE new == jobs'[k]
  <2>1. /\ new \in Row
        /\ new.discovered = jobs[k].discovered /\ new.lastSeen = jobs[k].lastSeen
        /\ new.updated = p.run
        /\ new.status = "inactive" /\ new.inactiveAt # NoTime
        /\ new.content = jobs[k].content
    BY <1>1, <1>4, <1>8, DeactivatedRow
  <2>2. k[1] = p.provider
    BY <1>8 DEF Missing
  <2> QED
    BY <2>1, <2>2, <1>4, <1>8
<1>9. CASE /\ k \notin Seen(p) /\ k \in DOMAIN jobs /\ k \notin Missing(p)
           /\ jobs'[k] = jobs[k]
  <2>1. k[1] = p.provider /\ p.provider \in Snapshot => jobs[k].status # "active"
    BY <1>9 DEF Missing
  <2>2. jobs[k].status \in {"active", "inactive"}
    BY <1>4, <1>9 DEF Row
  <2> QED
    BY <2>1, <2>2, <1>4, <1>9
<1> QED
  BY <1>6, <1>7, <1>8, <1>9, AppliedRow

LEMMA SplitCounts ==
  ASSUME NEW S, NEW T, IsFiniteSet(S), T \subseteq S
  PROVE  Cardinality(S) = Cardinality(T) + Cardinality(S \ T)
<1>1. IsFiniteSet(T) /\ IsFiniteSet(S \ T)
  BY FS_Subset
<1>2. Cardinality(T) \in Nat /\ Cardinality(S \ T) \in Nat
  BY <1>1, FS_CardinalityType
<1>3. Cardinality(T \cup (S \ T)) =
        Cardinality(T) + Cardinality(S \ T) - Cardinality(T \cap (S \ T))
  BY <1>1, FS_Union
<1>4. T \cup (S \ T) = S /\ T \cap (S \ T) = {}
  OBVIOUS
<1>5. Cardinality({}) = 0
  BY FS_EmptySet
<1>6. Cardinality(S) = Cardinality(T) + Cardinality(S \ T) - 0
  BY <1>3, <1>4, <1>5, Zenon
<1> QED
  BY <1>2, <1>6

\* The counters, and that they leave out nothing that was fetched.
LEMMA CountsAre ==
  ASSUME TypeInv, NEW p \in Process, DOMAIN p.copies \subseteq Seen(p),
         NEW c, c = CountsOf(p)
  PROVE  /\ c \in Counts
         /\ c.created + c.updated + c.unchanged = Cardinality(DOMAIN p.batch)
<1> DEFINE held == DOMAIN p.copies
           changed == {k \in held : p.copies[k].content # p.batch[k[2]]}
           back == {k \in held : p.copies[k].status = "inactive"}
<1>2. IsFiniteSet(Seen(p)) /\ Cardinality(Seen(p)) = Cardinality(DOMAIN p.batch)
  BY SeenCounts
<1>3. IsFiniteSet(held) /\ IsFiniteSet(Seen(p) \ held) /\ IsFiniteSet(changed)
      /\ IsFiniteSet(held \ changed) /\ IsFiniteSet(back)
  <2>1. /\ held \in SUBSET Seen(p) /\ Seen(p) \ held \in SUBSET Seen(p)
        /\ changed \in SUBSET Seen(p) /\ held \ changed \in SUBSET Seen(p)
        /\ back \in SUBSET Seen(p)
    OBVIOUS
  <2> HIDE DEF changed, held, back
  <2> QED
    BY <2>1, <1>2, FS_Subset
<1>4. IsFiniteSet(Missing(p))
  <2>1. Missing(p) \in SUBSET DOMAIN jobs /\ IsFiniteSet(DOMAIN jobs)
    BY DEF Missing, TypeInv
  <2> QED
    BY <2>1, FS_Subset
<1>5. /\ Cardinality(Seen(p) \ held) \in Nat /\ Cardinality(changed) \in Nat
      /\ Cardinality(held \ changed) \in Nat /\ Cardinality(back) \in Nat
      /\ Cardinality(Missing(p)) \in Nat /\ Cardinality(held) \in Nat
  <2> HIDE DEF changed, held, back
  <2> QED
    BY <1>3, <1>4, FS_CardinalityType
<1>6. c = [created |-> Cardinality(Seen(p) \ held),
           updated |-> Cardinality(changed),
           unchanged |-> Cardinality(held \ changed),
           reactivated |-> Cardinality(back),
           deactivated |-> Cardinality(Missing(p))]
  BY DEF CountsOf
<1>7. Cardinality(held) = Cardinality(changed) + Cardinality(held \ changed)
  BY <1>3, SplitCounts
<1>8. Cardinality(Seen(p)) = Cardinality(held) + Cardinality(Seen(p) \ held)
  BY <1>2, SplitCounts
<1> HIDE DEF held, changed, back
<1> QED
  BY <1>2, <1>5, <1>6, <1>7, <1>8 DEF Counts

LEMMA RunApplied ==
  ASSUME DataInv, NEW i \in DOMAIN process, process[i].step = "write", Apply(i),
         NEW p, p = process[i]
  PROVE  /\ p \in Process /\ p.run \in RunsOf(p.provider) /\ p.run \in Nat
         /\ DOMAIN runs' = DOMAIN runs /\ runs' \in [DOMAIN runs -> Run]
         /\ \A t \in DOMAIN runs \ {p.run} : runs'[t] = runs[t]
         /\ runs'[p.run].provider = p.provider
         /\ runs'[p.run].status = "succeeded"
         /\ runs'[p.run].fetched = p.batch
         /\ runs'[p.run].counts = CountsOf(p)
         /\ CountsOf(p).created + CountsOf(p).updated + CountsOf(p).unchanged
              = Cardinality(DOMAIN p.batch)
<1>1. p \in Process /\ p.run \in RunsOf(p.provider)
  BY DEF DataInv, TypeInv, OwnersInv, Owns, UnderWay
<1>2. p.run \in DOMAIN runs /\ runs[p.run].provider = p.provider /\ p.run \in Nat
      /\ p.batch \in Batch
  BY <1>1 DEF RunsOf, Process
<1>3. DOMAIN p.copies \subseteq Seen(p)
  BY DEF DataInv, HeldInv, Held, LoadedSome
<1>4. /\ CountsOf(p) \in Counts
      /\ CountsOf(p).created + CountsOf(p).updated + CountsOf(p).unchanged
           = Cardinality(DOMAIN p.batch)
  BY <1>1, <1>3, CountsAre DEF DataInv
<1> DEFINE c == CountsOf(p)
<1>5. runs' = [runs EXCEPT ![p.run].status = "succeeded",
                           ![p.run].fetched = p.batch,
                           ![p.run].counts = c]
  BY DEF Apply
<1> HIDE DEF c
<1>6. runs \in [DOMAIN runs -> Run]
  BY DEF DataInv, TypeInv
<1>7. runs[p.run] \in Run /\ c \in Counts
  BY <1>2, <1>4, <1>6 DEF c
<1>8. /\ DOMAIN runs' = DOMAIN runs
      /\ \A t \in DOMAIN runs \ {p.run} : runs'[t] = runs[t]
      /\ runs'[p.run] = [runs[p.run] EXCEPT !.status = "succeeded", !.fetched = p.batch,
                                            !.counts = c]
      /\ runs' = [t \in DOMAIN runs |-> runs'[t]]
  BY <1>2, <1>5, <1>6
<1>9. /\ runs'[p.run] \in Run /\ runs'[p.run].provider = p.provider
      /\ runs'[p.run].status = "succeeded" /\ runs'[p.run].fetched = p.batch
      /\ runs'[p.run].counts = c
  BY <1>2, <1>7, <1>8 DEF Run
<1>10. runs' \in [DOMAIN runs -> Run]
  BY <1>6, <1>8, <1>9
<1> QED
  BY <1>1, <1>2, <1>4, <1>8, <1>9, <1>10 DEF c

LEMMA ApplyKeepsData ==
  ASSUME DataInv, LockInv', NEW i \in DOMAIN process, process[i].step = "write",
         Apply(i), NEW q \in Process, Became(i, q),
         q.provider = process[i].provider, q.run = process[i].run,
         q.connected => process[i].connected, q.acked => process[i].acked,
         q.step = "unlock" \/ (q.step = "fail" /\ ~q.acked)
  PROVE  DataInv'
<1> DEFINE p == process[i]
<1>1. /\ DOMAIN process' = DOMAIN process
      /\ process' \in [DOMAIN process -> Process]
      /\ process'[i] = q
      /\ \A j \in DOMAIN process \ {i} : process'[j] = process[j]
  BY MovesOne DEF DataInv
<1>2. /\ p \in Process /\ p.run \in RunsOf(p.provider) /\ p.run \in Nat
      /\ DOMAIN runs' = DOMAIN runs /\ runs' \in [DOMAIN runs -> Run]
      /\ \A t \in DOMAIN runs \ {p.run} : runs'[t] = runs[t]
      /\ runs'[p.run].provider = p.provider
      /\ runs'[p.run].status = "succeeded"
      /\ runs'[p.run].fetched = p.batch
      /\ runs'[p.run].counts = CountsOf(p)
      /\ CountsOf(p).created + CountsOf(p).updated + CountsOf(p).unchanged
           = Cardinality(DOMAIN p.batch)
  BY RunApplied
<1>3. p.run \in DOMAIN runs /\ runs[p.run].provider = p.provider
  BY <1>2 DEF RunsOf
<1>4. \A pr : RunsOf(pr)' = RunsOf(pr)
  BY <1>2, <1>3 DEF RunsOf
<1>5. \A k \in DOMAIN jobs' :
         /\ k \in Provider \X JobId
         /\ jobs'[k] \in Row
         /\ k[1] # p.provider => k \in DOMAIN jobs /\ jobs'[k] = jobs[k]
         /\ k \in DOMAIN jobs =>
              /\ jobs'[k].discovered = jobs[k].discovered
              /\ jobs'[k].lastSeen \in {p.run, jobs[k].lastSeen}
              /\ jobs'[k].updated \in {p.run, jobs[k].updated}
         /\ k \notin DOMAIN jobs =>
              /\ jobs'[k].discovered = p.run /\ jobs'[k].lastSeen = p.run
              /\ jobs'[k].updated = p.run
         /\ (jobs'[k].status = "active") = (jobs'[k].inactiveAt = NoTime)
         /\ Stored[jobs'[k].content] = jobs'[k].content
         /\ LoadedAll(i) =>
              /\ k \in Seen(p) => /\ jobs'[k].status = "active"
                                  /\ jobs'[k].content = Stored[p.batch[k[2]]]
              /\ k \notin Seen(p) /\ k[1] = p.provider /\ p.provider \in Snapshot =>
                   jobs'[k].status = "inactive"
  BY AppliedIs
<1>6. /\ DOMAIN jobs' = DOMAIN jobs \cup Seen(p)
      /\ jobs' = [k \in DOMAIN jobs' |-> jobs'[k]]
  BY DEF Apply, Applied
<1>7. \A pr : Undisturbed(pr)' => Undisturbed(pr)
  BY <1>1 DEF Undisturbed
<1>8. \A j \in DOMAIN process :
        /\ process'[j].run = process[j].run
        /\ process'[j].provider = process[j].provider
        /\ process'[j].acked => process[j].acked
        /\ process'[j].step = "start" => process[j].step = "start"
        /\ UnderWay(j)' => UnderWay(j)
  BY <1>1 DEF UnderWay
<1>9. \A j \in DOMAIN process : process[j].run = p.run => j = i
  BY <1>2 DEF DataInv, OwnersInv, Owns, UnderWay
<1>10. UnderWay(i)
  BY DEF UnderWay
<1> HIDE DEF p
<1>11. TypeInv'
  <2>1. jobs' \in Table
    <3>1. jobs' \in [DOMAIN jobs' -> Row] /\ DOMAIN jobs' \subseteq Provider \X JobId
      BY <1>5, <1>6
    <3> QED
      BY <3>1, TableIs
  <2>2. IsFiniteSet(DOMAIN jobs')
    <3>3. IsFiniteSet(Seen(p))
      BY <1>2, SeenCounts
    <3>4. IsFiniteSet(DOMAIN jobs)
      BY DEF DataInv, TypeInv
    <3>5. IsFiniteSet(DOMAIN jobs \cup Seen(p))
      BY <3>3, <3>4, FS_Union
    <3> QED
      BY <3>5, <1>6
  <2> QED
    BY <2>1, <2>2, <1>1, <1>2 DEF DataInv, TypeInv
<1>12. JobsInv'
  <2> SUFFICES ASSUME NEW k \in DOMAIN jobs'
               PROVE  {jobs'[k].discovered, jobs'[k].lastSeen, jobs'[k].updated}
                        \subseteq RunsOf(k[1])
    BY <1>4, <1>5 DEF JobsInv
  <2>1. k \in DOMAIN jobs =>
          {jobs[k].discovered, jobs[k].lastSeen, jobs[k].updated} \subseteq RunsOf(k[1])
    BY DEF DataInv, JobsInv
  <2>2. CASE k[1] = p.provider
    BY <2>1, <2>2, <1>2, <1>5
  <2>3. CASE k[1] # p.provider
    BY <2>1, <2>3, <1>5
  <2> QED
    BY <2>2, <2>3
<1>13. OwnersInv'
  <2>1. ASSUME NEW j \in DOMAIN process
        PROVE  Owns(j)'
    <3>1. RunsOf(process[j].provider)' = RunsOf(process[j].provider)
      BY <1>2, <1>3, <1>8 DEF RunsOf
    <3> QED
      BY <3>1, <1>8 DEF DataInv, OwnersInv, Owns
  <2> QED
    BY <2>1, <1>1, <1>8 DEF DataInv, OwnersInv
<1>14. PendingInv'
  <2> SUFFICES ASSUME NEW j \in DOMAIN process, UnderWay(j)', process'[j].acked
               PROVE  /\ runs'[process'[j].run].status # "succeeded"
                      /\ \A k \in DOMAIN jobs' :
                           process'[j].run \notin {jobs'[k].lastSeen, jobs'[k].updated}
    BY <1>1 DEF PendingInv, Pending, Bears
  <2>1. j # i
    BY <1>1 DEF UnderWay
  <2>2. process[j].run # p.run /\ UnderWay(j) /\ process[j].acked
    BY <2>1, <1>8, <1>9
  <2>3. process[j].run \in DOMAIN runs
    BY <2>2 DEF DataInv, OwnersInv, Owns, RunsOf
  <2>4. /\ runs[process[j].run].status # "succeeded"
        /\ \A k \in DOMAIN jobs : process[j].run \notin {jobs[k].lastSeen, jobs[k].updated}
    BY <2>2 DEF DataInv, PendingInv, Pending, Bears
  <2> QED
    BY <2>2, <2>3, <2>4, <1>2, <1>5, <1>8
<1>15. ASSUME NEW j \in DOMAIN process
       PROVE  Held(j)'
  <2>1. IsNewest(j) => IsNewest(j)'
    BY <1>2, <1>3, <1>8 DEF IsNewest, RunsOf
  <2>2. Undisturbed(process[j].provider)' => Undisturbed(process[j].provider)
    BY <1>1, <1>8 DEF Undisturbed
  <2>3. CASE j = i
    <3>1. process'[j].step # "write"
      BY <2>3, <1>1
    <3> QED
      BY <2>1, <2>2, <3>1, <1>8 DEF DataInv, HeldInv, Held
  <2>4. CASE j # i
    <3>1. process'[j] = process[j]
      BY <2>4, <1>1
    <3>2. LoadedSome(j) => LoadedSome(j)'
      BY <3>1, <1>6 DEF LoadedSome
    <3>3. process[j].provider # p.provider /\ LoadedAll(j) => LoadedAll(j)'
      <4>1. \A k \in Seen(process[j]) : k[1] = process[j].provider
        BY DEF Seen
      <4>2. ASSUME process[j].provider # p.provider
            PROVE  /\ Seen(process[j]) \cap DOMAIN jobs' = Seen(process[j]) \cap DOMAIN jobs
                   /\ \A k \in Seen(process[j]) \cap DOMAIN jobs : jobs'[k] = jobs[k]
        BY <4>1, <4>2, <1>5, <1>6
      <4> QED
        BY <3>1, <4>2 DEF LoadedAll
    <3>4. process[j].step = "write" /\ Undisturbed(process[j].provider) =>
            process[j].provider # p.provider
      BY <2>4, OnlyOneUnderWay DEF DataInv, p
    <3> QED
      BY <2>1, <2>2, <3>1, <3>2, <3>3, <3>4, <1>8 DEF DataInv, HeldInv, Held
  <2> QED
    BY <2>3, <2>4
<1>16. FailedRunLeavesJobs'
  <2> SUFFICES ASSUME NEW t \in DOMAIN runs, NEW k \in DOMAIN jobs',
                      runs'[t].status # "succeeded",
                      \A j \in DOMAIN process : process'[j].run = t => process'[j].acked
               PROVE  t \notin {jobs'[k].lastSeen, jobs'[k].updated}
    BY <1>1, <1>2 DEF FailedRunLeavesJobs
  <2>1. t # p.run /\ runs[t].status # "succeeded"
    BY <1>2
  <2>2. \A j \in DOMAIN process : process[j].run = t => process[j].acked
    BY <1>8
  <2>3. k \in DOMAIN jobs => t \notin {jobs[k].lastSeen, jobs[k].updated}
    BY <2>1, <2>2 DEF DataInv, FailedRunLeavesJobs
  <2> QED
    BY <2>1, <2>3, <1>5
<1>17. CountedInv'
  BY <1>2 DEF DataInv, CountedInv
<1>18. ASSUME NEW pr \in Provider, NEW t \in DOMAIN runs,
              Undisturbed(pr)', t \in Succeeded(pr)',
              \A s \in Succeeded(pr)' : s <= t
       PROVE  /\ \A k \in {pr} \X DOMAIN runs'[t].fetched :
                   /\ k \in ActiveJobs(pr)'
                   /\ jobs'[k].content = Stored[runs'[t].fetched[k[2]]]
              /\ pr \in Snapshot =>
                   ActiveJobs(pr)' \subseteq {pr} \X DOMAIN runs'[t].fetched
  <2>1. CASE pr = p.provider
    <3>1. Undisturbed(pr)
      BY <1>7, <1>18
    <3>2. IsNewest(i) /\ LoadedAll(i)
      BY <2>1, <3>1, <1>10 DEF DataInv, HeldInv, Held, p
    <3>3. p.run \in Succeeded(pr)'
      BY <2>1, <1>2, <1>3 DEF Succeeded
    <3>4. t \in RunsOf(pr)
      BY <1>4, <1>18 DEF Succeeded, RunsOf
    <3>5. t = p.run
      <4>1. t \in Nat
        BY DEF DataInv, TypeInv
      <4>2. p.run <= t
        BY <3>3, <1>18
      <4>3. t <= p.run
        BY <2>1, <3>2, <3>4 DEF IsNewest, p
      <4> QED
        BY <4>1, <4>2, <4>3, <1>2
    <3>6. runs'[t].fetched = p.batch /\ {pr} \X DOMAIN runs'[t].fetched = Seen(p)
      BY <2>1, <3>5, <1>2 DEF Seen
    <3>7. \A k \in Seen(p) : k[1] = pr /\ k \in DOMAIN jobs'
      BY <2>1, <1>6 DEF Seen
    <3>8. ActiveJobs(pr)' = {k \in DOMAIN jobs' : k[1] = pr /\ jobs'[k].status = "active"}
      BY DEF ActiveJobs
    <3> QED
      BY <2>1, <3>2, <3>6, <3>7, <3>8, <1>5
  <2>2. CASE pr # p.provider
    <3>1. Succeeded(pr)' = Succeeded(pr) /\ runs'[t] = runs[t]
      BY <2>2, <1>2, <1>3, <1>18 DEF Succeeded
    <3>2. ActiveJobs(pr)' = ActiveJobs(pr) /\ \A k \in ActiveJobs(pr) : jobs'[k] = jobs[k]
      BY <2>2, <1>5, <1>6 DEF ActiveJobs
    <3>3. Undisturbed(pr)
      BY <1>7, <1>18
    <3> QED
      BY <3>1, <3>2, <3>3, <1>18 DEF DataInv, LatestInv, LatestAt
  <2> QED
    BY <2>1, <2>2
<1>19. LatestInv'
  <2>1. \A pr \in Provider, t \in DOMAIN runs : LatestAt(pr, t)'
    BY <1>18 DEF LatestAt
  <2> QED
    BY <2>1, <1>2 DEF LatestInv
<1> QED
  BY <1>1, <1>11, <1>12, <1>13, <1>14, <1>15, <1>16, <1>17, <1>19 DEF DataInv, HeldInv

LEMMA MarkFailedKeepsData ==
  ASSUME DataInv, LockInv', NEW i \in DOMAIN process, process[i].step = "fail",
         runs' = [runs EXCEPT ![process[i].run].status = "failed"],
         UNCHANGED jobs, Drops(i, "unlock")
  PROVE  DataInv'
<1> DEFINE p == process[i]
           q == [p EXCEPT !.step = "unlock", !.batch = Nothing, !.copies = Nothing]
<1>1. p \in Process
  BY DEF DataInv, TypeInv
<1>2. /\ q \in Process
      /\ q.provider = p.provider /\ q.run = p.run /\ q.step = "unlock"
      /\ q.connected = p.connected /\ q.acked = p.acked
  BY <1>1, DroppedFits DEF Step
<1>3. Became(i, q)
  BY DEF Drops
<1> HIDE DEF q
<1>4. /\ DOMAIN process' = DOMAIN process
      /\ process' \in [DOMAIN process -> Process]
      /\ process'[i] = q
      /\ \A j \in DOMAIN process \ {i} : process'[j] = process[j]
  BY <1>2, <1>3, MovesOne DEF DataInv
<1>5. p.run # NoRun /\ p.run \in DOMAIN runs /\ runs[p.run].provider = p.provider
  BY DEF DataInv, OwnersInv, Owns, UnderWay, RunsOf
<1>6. /\ DOMAIN runs' = DOMAIN runs /\ runs' \in [DOMAIN runs -> Run]
      /\ \A t \in DOMAIN runs \ {p.run} : runs'[t] = runs[t]
      /\ runs'[p.run].provider = p.provider
      /\ runs'[p.run].status = "failed"
  BY <1>5 DEF DataInv, TypeInv, Run
<1>7. \A pr : RunsOf(pr)' = RunsOf(pr)
  BY <1>5, <1>6 DEF RunsOf
<1>8. \A j \in DOMAIN process :
        /\ process'[j].run = process[j].run
        /\ process'[j].provider = process[j].provider
        /\ process'[j].acked = process[j].acked
        /\ process'[j].step = "start" => process[j].step = "start"
        /\ UnderWay(j)' => UnderWay(j) /\ j # i
  BY <1>2, <1>4 DEF UnderWay
<1>9. \A j \in DOMAIN process : process[j].run = p.run => j = i
  BY <1>5 DEF DataInv, OwnersInv
<1>10. p.acked =>
         /\ runs[p.run].status # "succeeded"
         /\ \A k \in DOMAIN jobs : p.run \notin {jobs[k].lastSeen, jobs[k].updated}
  BY DEF DataInv, PendingInv, Pending, Bears, UnderWay
<1>11. TypeInv'
  BY <1>4, <1>6 DEF DataInv, TypeInv
<1>12. JobsInv'
  BY <1>7 DEF DataInv, JobsInv
<1>13. OwnersInv'
  <2>1. ASSUME NEW j \in DOMAIN process
        PROVE  Owns(j)'
    <3>1. RunsOf(process[j].provider)' = RunsOf(process[j].provider)
      BY <1>5, <1>6, <1>8 DEF RunsOf
    <3> QED
      BY <3>1, <1>8 DEF DataInv, OwnersInv, Owns
  <2> QED
    BY <2>1, <1>4, <1>8 DEF DataInv, OwnersInv
<1>14. PendingInv'
  <2> SUFFICES ASSUME NEW j \in DOMAIN process, UnderWay(j)', process'[j].acked
               PROVE  /\ runs'[process'[j].run].status # "succeeded"
                      /\ \A k \in DOMAIN jobs :
                           process'[j].run \notin {jobs[k].lastSeen, jobs[k].updated}
    BY <1>4 DEF PendingInv, Pending, Bears
  <2>1. process[j].run # p.run /\ UnderWay(j) /\ process[j].acked
    BY <1>8, <1>9
  <2>2. process[j].run \in DOMAIN runs
    BY <2>1 DEF DataInv, OwnersInv, Owns, RunsOf
  <2> QED
    BY <2>1, <2>2, <1>6, <1>8 DEF DataInv, PendingInv, Pending, Bears
<1>15. ASSUME NEW j \in DOMAIN process
       PROVE  Held(j)'
  <2>1. IsNewest(j) => IsNewest(j)'
    BY <1>5, <1>6, <1>8 DEF IsNewest, RunsOf
  <2>2. Undisturbed(process[j].provider)' => Undisturbed(process[j].provider)
    BY <1>2, <1>4, <1>8 DEF Undisturbed
  <2>3. process'[j].step = "write" => process'[j] = process[j]
    BY <1>2, <1>4
  <2>4. process'[j].step = "write" =>
          (LoadedSome(j) => LoadedSome(j)') /\ (LoadedAll(j) => LoadedAll(j)')
    BY <2>3 DEF LoadedSome, LoadedAll
  <2> QED
    BY <2>1, <2>2, <2>3, <2>4, <1>8 DEF DataInv, HeldInv, Held
<1>16. FailedRunLeavesJobs'
  <2> SUFFICES ASSUME NEW t \in DOMAIN runs, NEW k \in DOMAIN jobs,
                      runs'[t].status # "succeeded",
                      \A j \in DOMAIN process : process'[j].run = t => process'[j].acked
               PROVE  t \notin {jobs[k].lastSeen, jobs[k].updated}
    BY <1>4, <1>6 DEF FailedRunLeavesJobs
  <2>1. CASE t = p.run
    BY <2>1, <1>8, <1>10
  <2>2. CASE t # p.run
    BY <2>2, <1>6, <1>8 DEF DataInv, FailedRunLeavesJobs
  <2> QED
    BY <2>1, <2>2
<1>17. CountedInv'
  BY <1>6 DEF DataInv, CountedInv
<1>18. ASSUME NEW pr \in Provider, NEW t \in DOMAIN runs
       PROVE  LatestAt(pr, t)'
  <2>1. Undisturbed(pr)' => Undisturbed(pr)
    BY <1>2, <1>4 DEF Undisturbed
  <2>2. ActiveJobs(pr)' = ActiveJobs(pr)
    BY DEF ActiveJobs
  <2>3. Undisturbed(pr) => Succeeded(pr)' = Succeeded(pr)
    <3>1. Undisturbed(pr) /\ pr = p.provider => runs[p.run].status # "succeeded"
      BY <1>10 DEF Undisturbed
    <3> QED
      BY <3>1, <1>5, <1>6 DEF Succeeded
  <2>4. t \in Succeeded(pr)' => runs'[t] = runs[t]
    BY <1>6 DEF Succeeded
  <2> QED
    BY <2>1, <2>2, <2>3, <2>4 DEF DataInv, LatestInv, LatestAt
<1>19. LatestInv'
  BY <1>18, <1>6 DEF LatestInv
<1> QED
  BY <1>4, <1>11, <1>12, <1>13, <1>14, <1>15, <1>16, <1>17, <1>19 DEF DataInv, HeldInv

-----------------------------------------------------------------------------
LEMMA StepKeepsData ==
  ASSUME DataInv, LockInv', NEW i \in DOMAIN process, SyncStep(i)
  PROVE  DataInv'
<1>1. process[i] \in Process
  BY DEF DataInv, TypeInv
<1>2. CASE StartRun(i)
  <2>1. CASE UNCHANGED runs /\ Drops(i, "unlock")
    BY <1>2, <2>1, DropsGoesOn DEF StartRun, Step
  <2>2. ASSUME NEW r, r = Cardinality(DOMAIN runs) + 1,
               runs' = [t \in DOMAIN runs \cup {r} |->
                          IF t = r THEN NewRun(process[i].provider) ELSE runs[t]],
               NEW q, Became(i, q),
               \/ q = [process[i] EXCEPT !.step = "fetch", !.run = r]
               \/ q = [process[i] EXCEPT !.step = "unlock", !.acked = FALSE]
        PROVE  DataInv'
    <3>1. r \in Nat
      BY <2>2, NextRun DEF DataInv
    <3>2. /\ q \in Process
          /\ q.provider = process[i].provider
          /\ q.connected => process[i].connected
          /\ q.acked => process[i].acked
          /\ \/ q.step = "fetch" /\ q.run = r
             \/ q.step = "unlock" /\ q.run = process[i].run
      BY <1>1, <2>2, <3>1, ZenonT(60) DEF Process, Step
    <3>3. UNCHANGED jobs /\ process[i].step = "start"
      BY <1>2 DEF StartRun
    <3> QED
      BY <2>2, <3>2, <3>3, InsertKeepsData
  <2> QED
    BY <1>2, <2>1, <2>2 DEF StartRun
<1>3. CASE Fetch(i)
  <2>1. process[i].step = "fetch" /\ UNCHANGED <<jobs, runs>> /\ UnderWay(i)
    BY <1>3 DEF Fetch, UnderWay
  <2>2. CASE Drops(i, "fail")
    BY <2>1, <2>2, DropsGoesOn DEF Step
  <2>3. ASSUME NEW batch \in Fetchable, NEW q, Became(i, q),
               q = [process[i] EXCEPT !.step = "read", !.batch = batch]
        PROVE  DataInv'
    <3>1. batch \in Batch
      BY FetchableIsBatch
    <3>2. /\ q \in Process /\ q.step = "read"
          /\ q.provider = process[i].provider /\ q.run = process[i].run
          /\ q.connected = process[i].connected /\ q.acked = process[i].acked
      BY <1>1, <2>3, <3>1 DEF Process, Step
    <3> QED
      BY <2>1, <2>3, <3>2, GoesOn
  <2> QED
    BY <1>3, <2>2, <2>3 DEF Fetch
<1>4. CASE ReadJobs(i)
  <2>1. process[i].step = "read" /\ UNCHANGED <<jobs, runs>> /\ UnderWay(i)
    BY <1>4 DEF ReadJobs, UnderWay
  <2>2. CASE Drops(i, "fail")
    BY <2>1, <2>2, DropsGoesOn DEF Step
  <2>3. ASSUME NEW copies, copies = [k \in Seen(process[i]) \cap DOMAIN jobs |-> jobs[k]],
               NEW q, Became(i, q),
               q = [process[i] EXCEPT !.step = "write", !.copies = copies]
        PROVE  DataInv'
    <3>1. copies \in Table
      <4>1. DOMAIN jobs \subseteq Provider \X JobId /\ jobs \in [DOMAIN jobs -> Row]
        BY TableIs DEF DataInv, TypeInv
      <4>2. DOMAIN copies \subseteq Provider \X JobId /\ copies \in [DOMAIN copies -> Row]
        BY <2>3, <4>1
      <4> QED
        BY <4>2, TableIs
    <3>2. /\ q \in Process /\ q.step = "write" /\ q.copies = copies
          /\ q.provider = process[i].provider /\ q.run = process[i].run
          /\ q.batch = process[i].batch
          /\ q.connected = process[i].connected /\ q.acked = process[i].acked
      BY <1>1, <2>3, <3>1 DEF Process, Step
    <3>3. Seen(q) = Seen(process[i])
      BY <3>2 DEF Seen
    <3>4. /\ DOMAIN q.copies \subseteq Seen(q) \cap DOMAIN jobs
          /\ q.copies = [k \in Seen(q) \cap DOMAIN jobs |-> jobs[k]]
      BY <2>3, <3>2, <3>3
    <3> QED
      BY <2>1, <2>3, <3>2, <3>4, GoesOn
  <2> QED
    BY <1>4, <2>2, <2>3 DEF ReadJobs
<1>5. CASE Write(i)
  <2>1. process[i].step = "write" /\ UnderWay(i)
    BY <1>5 DEF Write, UnderWay
  <2>2. CASE UNCHANGED <<jobs, runs>> /\ Drops(i, "fail")
    BY <2>1, <2>2, DropsGoesOn DEF Step
  <2>3. ASSUME Apply(i), NEW q, Became(i, q),
               \/ q = [process[i] EXCEPT !.step = "unlock", !.batch = Nothing,
                                         !.copies = Nothing]
               \/ q = [process[i] EXCEPT !.step = "fail", !.batch = Nothing,
                                         !.copies = Nothing, !.acked = FALSE]
        PROVE  DataInv'
    <3>1. /\ q \in Process
          /\ q.provider = process[i].provider /\ q.run = process[i].run
          /\ q.connected => process[i].connected
          /\ q.acked => process[i].acked
          /\ q.step = "unlock" \/ (q.step = "fail" /\ ~q.acked)
      BY <1>1, <2>3, NothingFits, ZenonT(60) DEF Process, Step
    <3> QED
      BY <2>1, <2>3, <3>1, ApplyKeepsData
  <2>4. CASE Apply(i) /\ Drops(i, "unlock")
    BY <2>3, <2>4 DEF Drops
  <2> QED
    BY <1>5, <2>2, <2>3, <2>4 DEF Write
<1>6. CASE MarkFailed(i)
  <2>1. process[i].step = "fail" /\ Drops(i, "unlock") /\ UNCHANGED jobs
    BY <1>6 DEF MarkFailed
  <2>2. CASE UNCHANGED runs
    BY <2>1, <2>2, DropsGoesOn DEF Step
  <2> QED
    BY <1>6, <2>1, <2>2, MarkFailedKeepsData DEF MarkFailed
<1>7. CASE Unlock(i)
  BY <1>7, DropsGoesOn DEF Unlock, Step
<1> QED
  BY <1>2, <1>3, <1>4, <1>5, <1>6, <1>7 DEF SyncStep

LEMMA NextKeepsData ==
  ASSUME DataInv, Next
  PROVE  DataInv'
<1>1. LockInv'
  BY NextKeepsInv DEF DataInv
<1>2. CASE \E pr \in Provider : Invoke(pr)
  BY <1>1, <1>2, InvokeKeepsData
<1>3. ASSUME NEW i \in DOMAIN process, SyncStep(i)
      PROVE  DataInv'
  BY <1>1, <1>3, StepKeepsData
<1>4. ASSUME NEW i \in DOMAIN process, Crash(i)
      PROVE  DataInv'
  BY <1>1, <1>4, DropsGoesOn DEF Crash, Step
<1>5. ASSUME NEW i \in DOMAIN process, Reap(i) \/ Disconnect(i)
      PROVE  DataInv'
  <2> DEFINE q == [process[i] EXCEPT !.connected = FALSE]
  <2>1. UNCHANGED <<jobs, runs>>
    BY <1>5 DEF Reap, Disconnect, Drop
  <2>2. process[i] \in Process /\ process \in [DOMAIN process -> Process]
    BY DEF DataInv, TypeInv
  <2>3. CASE UNCHANGED process
    <3>1. Became(i, process[i])
      BY <2>2, <2>3 DEF Became
    <3>2. Held(i) /\ UnderWay(i) = (process[i].step \in {"fetch", "read", "write", "fail"})
      BY DEF DataInv, HeldInv, UnderWay
    <3> QED
      BY <1>1, <2>1, <2>2, <3>1, <3>2, GoesOn DEF Held, LoadedSome, LoadedAll
  <2>4. CASE Disconnect(i)
    <3>1. /\ q \in Process /\ q.step = process[i].step
          /\ q.provider = process[i].provider /\ q.run = process[i].run
          /\ q.copies = process[i].copies /\ Seen(q) = Seen(process[i])
          /\ ~q.connected /\ q.acked = process[i].acked
      BY <2>2 DEF Process, Seen
    <3>2. Became(i, q)
      BY <2>4 DEF Disconnect
    <3>3. Held(i) /\ UnderWay(i) = (process[i].step \in {"fetch", "read", "write", "fail"})
      BY DEF DataInv, HeldInv, UnderWay
    <3> HIDE DEF q
    <3> QED
      BY <1>1, <2>1, <3>1, <3>2, <3>3, GoesOn DEF Held, LoadedSome, LoadedAll
  <2> QED
    BY <1>5, <2>3, <2>4 DEF Reap
<1> QED
  BY <1>2, <1>3, <1>4, <1>5 DEF Next

LEMMA InitHasNoData == Init => DataInv
<1> SUFFICES ASSUME Init PROVE DataInv
  OBVIOUS
<1>1. /\ DOMAIN process = {} /\ DOMAIN runs = {} /\ DOMAIN jobs = {}
      /\ 0 \in Nat /\ 1..0 = {}
  BY DEF Init, Nothing
<1>2. TypeInv
  <2>1. jobs \in Table
    BY NothingFits DEF Init
  <2>2. IsFiniteSet(DOMAIN jobs)
    BY <1>1, FS_EmptySet
  <2>3. runs \in [DOMAIN runs -> Run] /\ process \in [DOMAIN process -> Process]
    BY DEF Init, Nothing
  <2> QED
    BY <1>1, <2>1, <2>2, <2>3 DEF TypeInv
<1> QED
  BY <1>1, <1>2, InitHoldsNothing
     DEF DataInv, JobsInv, OwnersInv, PendingInv, HeldInv, FailedRunLeavesJobs,
         CountedInv, LatestInv

LEMMA DataKept == DataInv /\ [Next]_ivars => DataInv'
<1>1. ASSUME DataInv, UNCHANGED ivars
      PROVE  DataInv'
  <2>1. UNCHANGED <<jobs, runs, process, lock>>
    BY <1>1 DEF ivars
  <2> USE <1>1, <2>1
  <2>2. TypeInv' /\ LockInv'
    BY DEF DataInv, TypeInv, LockInv, ProcessesInv, OneSyncPerProvider, IsProcess
  <2>3. JobsInv' /\ OwnersInv' /\ PendingInv'
    BY DEF DataInv, JobsInv, OwnersInv, Owns, PendingInv, Pending, Bears, UnderWay, RunsOf
  <2>4. HeldInv'
    <3>1. ASSUME NEW i \in DOMAIN process
          PROVE  Held(i)'
      <4>1. Undisturbed(process[i].provider)' = Undisturbed(process[i].provider)
        BY DEF Undisturbed
      <4>2. (IsNewest(i) => IsNewest(i)') /\ (LoadedSome(i) => LoadedSome(i)')
            /\ (LoadedAll(i) => LoadedAll(i)')
        BY DEF IsNewest, RunsOf, LoadedSome, LoadedAll
      <4> QED
        BY <4>1, <4>2 DEF DataInv, HeldInv, Held, UnderWay
    <3> QED
      BY <3>1 DEF HeldInv
  <2>5. FailedRunLeavesJobs' /\ CountedInv' /\ LatestInv'
    BY DEF DataInv, FailedRunLeavesJobs, CountedInv, LatestInv, LatestAt, Undisturbed,
           Succeeded, ActiveJobs
  <2> QED
    BY <2>2, <2>3, <2>4, <2>5 DEF DataInv
<1> QED
  BY <1>1, NextKeepsData

-----------------------------------------------------------------------------
(* What the tables promise.                                                *)

\* The tables, and what a process carries, keep their types (models/job.py,
\* models/sync_run.py), for any number of sync commands and jobs.
THEOREM SyncsTypeCorrect == Spec => []TypeInv
<1>1. DataInv => TypeInv
  BY DEF DataInv
<1> QED
  BY InitHasNoData, DataKept, <1>1, PTL DEF Spec

\* apply_jobs and _mark_run_succeeded are one transaction (ingestion/service.py): a run
\* that did not succeed has left its time on no job, whatever fails, crashes or runs at
\* the same time, unless the answer to its commit was lost.
THEOREM FailedRunsNeverTouchJobs == Spec => []FailedRunLeavesJobs
<1>1. DataInv => FailedRunLeavesJobs
  BY DEF DataInv
<1> QED
  BY InitHasNoData, DataKept, <1>1, PTL DEF Spec

\* The upsert and _deactivate_missing (ingestion/upsert.py), for any batches, providers
\* and interleavings of their syncs: what is active is what the last successful run
\* fetched, as long as no lock and no answer was lost; and inactive_at is set exactly
\* for the inactive, even when one was.
THEOREM ActiveIsAlwaysLatestFetched == Spec => []ActiveIsLatestFetched
<1>1. DataInv => ActiveIsLatestFetched
  <2> SUFFICES ASSUME DataInv PROVE ActiveIsLatestFetched
    OBVIOUS
  <2>1. \A k \in DOMAIN jobs : (jobs[k].status = "active") = (jobs[k].inactiveAt = NoTime)
    BY DEF DataInv, JobsInv
  <2>2. \A pr \in Provider, r \in DOMAIN runs : LatestAt(pr, r)
    BY DEF DataInv, LatestInv
  <2> QED
    BY <2>1, <2>2 DEF ActiveIsLatestFetched, LatestAt
<1> QED
  BY InitHasNoData, DataKept, <1>1, PTL DEF Spec

\* A step is the transaction of a run, or it leaves the jobs and the successful runs.
SucceededStay(pr) ==
  Succeeded(pr)' = Succeeded(pr) /\ \A t \in Succeeded(pr) : runs'[t] = runs[t]

LEMMA AppliesOrStays ==
  ASSUME DataInv, Next
  PROVE  \/ \E i \in DOMAIN process :
              /\ process[i].step = "write" /\ Apply(i)
              /\ \A j \in DOMAIN process :
                   /\ j \in DOMAIN process' /\ process'[j].provider = process[j].provider
                   /\ process'[j].connected = process[j].connected
                   /\ process'[j].acked => process[j].acked
         \/ /\ jobs' = jobs
            /\ \A pr \in Provider : Undisturbed(pr)' => SucceededStay(pr)
<1>1. process \in [DOMAIN process -> Process] /\ runs \in [DOMAIN runs -> Run]
  BY DEF DataInv, TypeInv
<1>2. ASSUME runs' = runs
      PROVE  \A pr \in Provider : SucceededStay(pr)
  BY <1>2 DEF SucceededStay, Succeeded
<1>3. ASSUME NEW i \in DOMAIN process, StartRun(i)
      PROVE  jobs' = jobs /\ \A pr \in Provider : SucceededStay(pr)
  <2>1. CASE runs' = runs
    BY <1>2, <1>3, <2>1 DEF StartRun
  <2>2. CASE runs' # runs
    <3>1. PICK r : /\ r \notin DOMAIN runs
                   /\ runs' = [t \in DOMAIN runs \cup {r} |->
                                 IF t = r THEN NewRun(process[i].provider) ELSE runs[t]]
      BY <1>3, <2>2, NextRun DEF StartRun, DataInv
    <3>2. runs'[r].status # "succeeded" /\ DOMAIN runs' = DOMAIN runs \cup {r}
          /\ \A t \in DOMAIN runs : runs'[t] = runs[t]
      BY <3>1 DEF NewRun
    <3>3. \A pr \in Provider : SucceededStay(pr)
      BY <3>1, <3>2 DEF SucceededStay, Succeeded
    <3> QED
      BY <1>3, <3>3 DEF StartRun
  <2> QED
    BY <2>1, <2>2
<1>4. ASSUME NEW i \in DOMAIN process, MarkFailed(i),
             NEW pr \in Provider, Undisturbed(pr)'
      PROVE  SucceededStay(pr)
  <2>1. CASE runs' = runs
    BY <1>2, <2>1
  <2>2. CASE runs' = [runs EXCEPT ![process[i].run].status = "failed"]
    <3>1. process[i].run \in DOMAIN runs /\ runs[process[i].run].provider = process[i].provider
      BY <1>4 DEF MarkFailed, DataInv, OwnersInv, Owns, UnderWay, RunsOf
    <3>2. /\ DOMAIN runs' = DOMAIN runs
          /\ \A t \in DOMAIN runs \ {process[i].run} : runs'[t] = runs[t]
          /\ runs'[process[i].run].status = "failed"
          /\ runs'[process[i].run].provider = process[i].provider
      BY <2>2, <3>1, <1>1 DEF Run
    <3>3. process[i].provider = pr => process[i].acked
      <4>1. i \in DOMAIN process' /\ process'[i].provider = process[i].provider
            /\ process'[i].acked = process[i].acked
        BY <1>1, <1>4 DEF MarkFailed, Drops, Became, Process
      <4> QED
        BY <4>1, <1>4 DEF Undisturbed
    <3>4. process[i].acked => runs[process[i].run].status # "succeeded"
      BY <1>4 DEF MarkFailed, DataInv, PendingInv, Pending, UnderWay
    <3> QED
      BY <3>1, <3>2, <3>3, <3>4 DEF SucceededStay, Succeeded
  <2> QED
    BY <1>4, <2>1, <2>2 DEF MarkFailed
<1>5. ASSUME NEW i \in DOMAIN process, Write(i), ~UNCHANGED <<jobs, runs>>
      PROVE  /\ process[i].step = "write" /\ Apply(i)
             /\ \A j \in DOMAIN process :
                  /\ j \in DOMAIN process' /\ process'[j].provider = process[j].provider
                  /\ process'[j].connected = process[j].connected
                  /\ process'[j].acked => process[j].acked
  <2>1. PICK q : /\ Became(i, q) /\ process[i].step = "write" /\ Apply(i)
                 /\ \/ q = [process[i] EXCEPT !.step = "unlock", !.batch = Nothing,
                                              !.copies = Nothing]
                    \/ q = [process[i] EXCEPT !.step = "fail", !.batch = Nothing,
                                              !.copies = Nothing, !.acked = FALSE]
    BY <1>5 DEF Write, Drops
  <2>2. /\ q.provider = process[i].provider /\ q.connected = process[i].connected
        /\ q.acked => process[i].acked
    BY <1>1, <2>1 DEF Process
  <2>3. /\ DOMAIN process' = DOMAIN process /\ process'[i] = q
        /\ \A j \in DOMAIN process \ {i} : process'[j] = process[j]
    BY <1>1, <2>1 DEF Became
  <2> QED
    BY <2>1, <2>2, <2>3
<1>6. CASE \E i \in DOMAIN process : StartRun(i) \/ MarkFailed(i) \/ Write(i)
  BY <1>2, <1>3, <1>4, <1>5, <1>6 DEF MarkFailed
<1>7. CASE jobs' = jobs /\ runs' = runs
  BY <1>2, <1>7
<1> QED
  BY <1>6, <1>7 DEF Next, Invoke, SyncStep, Fetch, ReadJobs, Unlock, Crash, Reap,
                    Disconnect, Drop

\* No code deletes a job or writes its discovered_at again, and started_at is taken under
\* the lock, so that last_seen_at goes forward (ingestion/upsert.py, service.py).
THEOREM HistoryIsAlwaysKept == Spec => HistoryKept
<1> DEFINE Kept == \A k \in DOMAIN jobs :
                     /\ k \in DOMAIN jobs'
                     /\ jobs'[k].discovered = jobs[k].discovered
                     /\ Undisturbed(k[1]) => jobs'[k].lastSeen >= jobs[k].lastSeen
<1>1. ASSUME DataInv, Next
      PROVE  Kept
  <2> SUFFICES ASSUME NEW k \in DOMAIN jobs
               PROVE  /\ k \in DOMAIN jobs'
                      /\ jobs'[k].discovered = jobs[k].discovered
                      /\ Undisturbed(k[1]) => jobs'[k].lastSeen >= jobs[k].lastSeen
    OBVIOUS
  <2>1. jobs[k].lastSeen \in Nat /\ jobs[k].lastSeen \in RunsOf(k[1])
    BY <1>1, TableIs DEF DataInv, TypeInv, JobsInv, Row
  <2>2. CASE jobs' = jobs
    BY <2>1, <2>2
  <2>3. CASE \E i \in DOMAIN process : process[i].step = "write" /\ Apply(i)
    <3>1. PICK i \in DOMAIN process : process[i].step = "write" /\ Apply(i)
      BY <2>3
    <3> DEFINE p == process[i]
    <3>2. k \in DOMAIN jobs'
      BY <3>1 DEF Apply, Applied
    <3>3. /\ jobs'[k].discovered = jobs[k].discovered
          /\ jobs'[k].lastSeen \in {p.run, jobs[k].lastSeen}
          /\ k[1] # p.provider => jobs'[k] = jobs[k]
      BY <1>1, <3>1, <3>2, AppliedIs
    <3>4. k[1] = p.provider /\ Undisturbed(k[1]) => jobs[k].lastSeen <= p.run
      BY <1>1, <2>1, <3>1 DEF DataInv, HeldInv, Held, IsNewest, UnderWay
    <3>5. p.run \in Nat
      BY <1>1 DEF DataInv, TypeInv, Process
    <3> HIDE DEF p
    <3> QED
      BY <2>1, <3>2, <3>3, <3>4, <3>5
  <2> QED
    BY <1>1, <2>2, <2>3, AppliesOrStays
<1>2. ASSUME DataInv, UNCHANGED ivars
      PROVE  Kept
  BY <1>2, TableIs DEF DataInv, TypeInv, Row, ivars
<1>3. DataInv /\ [Next]_ivars => [Kept]_ivars
  BY <1>1, <1>2
<1> QED
  BY InitHasNoData, DataKept, <1>3, PTL DEF Spec, HistoryKept

-----------------------------------------------------------------------------
(* The counters.                                                           *)

LEMMA DisjointUnionCounts ==
  ASSUME NEW S, NEW T, IsFiniteSet(S), IsFiniteSet(T), S \cap T = {}
  PROVE  /\ IsFiniteSet(S \cup T)
         /\ Cardinality(S \cup T) = Cardinality(S) + Cardinality(T)
<1>1. /\ IsFiniteSet(S \cup T)
      /\ Cardinality(S \cup T) = Cardinality(S) + Cardinality(T) - Cardinality(S \cap T)
  BY FS_Union
<1>2. Cardinality({}) = 0
  BY FS_EmptySet
<1>3. Cardinality(S \cup T) = Cardinality(S) + Cardinality(T) - 0
  BY <1>1, <1>2, Zenon
<1>4. Cardinality(S) \in Nat /\ Cardinality(T) \in Nat
  BY FS_CardinalityType
<1> QED
  BY <1>1, <1>3, <1>4

\* The step of CountersBalance: when a run of a provider succeeds, the others stay as they
\* are and its counters are the difference between the jobs active after and before;
\* otherwise nothing moves.
CountersMove ==
  \A pr \in Provider : Undisturbed(pr)' =>
    \/ SucceededStay(pr) /\ ActiveJobs(pr)' = ActiveJobs(pr)
    \/ \E r \in Succeeded(pr)' \ Succeeded(pr) :
         /\ Succeeded(pr)' = Succeeded(pr) \cup {r}
         /\ \A t \in Succeeded(pr) : runs'[t] = runs[t]
         /\ Cardinality(ActiveJobs(pr)') + runs'[r].counts.deactivated
              = Cardinality(ActiveJobs(pr)) + runs'[r].counts.created
                  + runs'[r].counts.reactivated

LEMMA ApplyMovesCounters ==
  ASSUME DataInv, NEW i \in DOMAIN process, process[i].step = "write", Apply(i),
         process[i].acked, Undisturbed(process[i].provider),
         NEW p, p = process[i], NEW pr, pr = p.provider, NEW r, r = p.run
  PROVE  /\ r \in Succeeded(pr)' \ Succeeded(pr)
         /\ Succeeded(pr)' = Succeeded(pr) \cup {r}
         /\ \A t \in Succeeded(pr) : runs'[t] = runs[t]
         /\ Cardinality(ActiveJobs(pr)') + runs'[r].counts.deactivated
              = Cardinality(ActiveJobs(pr)) + runs'[r].counts.created
                  + runs'[r].counts.reactivated
<1> DEFINE held == DOMAIN p.copies
           created == Seen(p) \ held
           back == {k \in held : p.copies[k].status = "inactive"}
           A == ActiveJobs(pr)
           B == ActiveJobs(pr)'
           M == Missing(p)
<1>1. /\ p \in Process /\ r \in RunsOf(pr) /\ DOMAIN runs' = DOMAIN runs
      /\ \A t \in DOMAIN runs \ {r} : runs'[t] = runs[t]
      /\ runs'[r].provider = pr /\ runs'[r].status = "succeeded"
      /\ runs'[r].counts = CountsOf(p)
  BY RunApplied
<1>2. runs[r].status # "succeeded"
  BY DEF DataInv, PendingInv, Pending, UnderWay
<1>3. LoadedAll(i)
  BY DEF DataInv, HeldInv, Held
<1>4. p.copies = [k \in Seen(p) \cap DOMAIN jobs |-> jobs[k]]
  BY <1>3 DEF LoadedAll
<1>5. \A k \in Seen(p) : k[1] = pr
  BY DEF Seen
<1>6. /\ held = Seen(p) \cap DOMAIN jobs
      /\ \A k \in held : p.copies[k] = jobs[k]
  BY <1>4
<1>7. \A k \in DOMAIN jobs' :
        /\ k \in Seen(p) => jobs'[k].status = "active"
        /\ k \notin Seen(p) => k \in DOMAIN jobs
        /\ k \notin Seen(p) /\ k \in M => jobs'[k].status = "inactive"
        /\ k \notin Seen(p) /\ k \notin M => jobs'[k] = jobs[k]
  <2> SUFFICES ASSUME NEW k \in DOMAIN jobs'
               PROVE  /\ k \in Seen(p) => jobs'[k].status = "active"
                      /\ k \notin Seen(p) => k \in DOMAIN jobs
                      /\ k \notin Seen(p) /\ k \in M => jobs'[k].status = "inactive"
                      /\ k \notin Seen(p) /\ k \notin M => jobs'[k] = jobs[k]
    OBVIOUS
  <2>1. /\ k \in Seen(p) => jobs'[k].status = "active"
        /\ k \notin Seen(p) /\ k[1] = p.provider /\ p.provider \in Snapshot =>
             jobs'[k].status = "inactive"
    BY <1>3, AppliedIs
  <2>2. k \in M => k[1] = p.provider /\ p.provider \in Snapshot
    BY DEF Missing
  <2>3. /\ k \notin Seen(p) => k \in DOMAIN jobs
        /\ k \notin Seen(p) /\ k \notin M => jobs'[k] = jobs[k]
    BY AppliedRow
  <2> QED
    BY <2>1, <2>2, <2>3
<1>8. DOMAIN jobs' = DOMAIN jobs \cup Seen(p)
  BY DEF Apply, Applied
<1>9. \A k \in DOMAIN jobs : jobs[k].status = "active" \/ jobs[k].status = "inactive"
  BY TableIs DEF DataInv, TypeInv, Row
<1>10. /\ M \subseteq A /\ M \cap Seen(p) = {}
       /\ A = {k \in DOMAIN jobs : k[1] = pr /\ jobs[k].status = "active"}
       /\ B = {k \in DOMAIN jobs' : k[1] = pr /\ jobs'[k].status = "active"}
  BY DEF Missing, ActiveJobs
<1>11. B = (A \ M) \cup (created \cup back)
  <2>1. ASSUME NEW k \in B
        PROVE  k \in (A \ M) \cup (created \cup back)
    <3>1. k \in Seen(p) => k \in created \/ k \in back \/ k \in A \ M
      BY <1>5, <1>6, <1>9, <1>10
    <3>2. k \notin Seen(p) => k \in A \ M
      BY <2>1, <1>7, <1>10
    <3> QED
      BY <3>1, <3>2
  <2>2. ASSUME NEW k \in (A \ M) \cup (created \cup back)
        PROVE  k \in B
    <3>1. k \in Seen(p) => k \in B
      BY <1>5, <1>7, <1>8, <1>10
    <3>2. k \notin Seen(p) => k \in A \ M
      BY <2>2, <1>6
    <3>3. k \notin Seen(p) => k \in B
      BY <3>2, <1>7, <1>8, <1>10
    <3> QED
      BY <3>1, <3>3
  <2> QED
    BY <2>1, <2>2
<1>12. /\ (A \ M) \cap (created \cup back) = {}
       /\ created \cap back = {}
  BY <1>6, <1>10
<1>13. IsFiniteSet(A) /\ IsFiniteSet(created) /\ IsFiniteSet(back)
  <2>1. A \subseteq DOMAIN jobs /\ back \subseteq DOMAIN jobs /\ IsFiniteSet(DOMAIN jobs)
    BY <1>6, <1>10 DEF DataInv, TypeInv
  <2>2. IsFiniteSet(Seen(p))
    BY <1>1, SeenCounts
  <2>3. created \subseteq Seen(p)
    OBVIOUS
  <2> HIDE DEF A, back, created
  <2> QED
    BY <2>1, <2>2, <2>3, FS_Subset
<1>14. /\ runs'[r].counts.created = Cardinality(created)
       /\ runs'[r].counts.reactivated = Cardinality(back)
       /\ runs'[r].counts.deactivated = Cardinality(M)
  BY <1>1 DEF CountsOf
<1>15. Succeeded(pr)' = Succeeded(pr) \cup {r} /\ r \notin Succeeded(pr)
       /\ \A t \in Succeeded(pr) : runs'[t] = runs[t]
  BY <1>1, <1>2 DEF Succeeded, RunsOf
<1> HIDE DEF held, created, back, A, B, M
<1>16. Cardinality(A) = Cardinality(M) + Cardinality(A \ M)
       /\ IsFiniteSet(M) /\ IsFiniteSet(A \ M)
  BY <1>10, <1>13, SplitCounts, FS_Subset
<1>17. Cardinality(created \cup back) = Cardinality(created) + Cardinality(back)
       /\ IsFiniteSet(created \cup back)
  BY <1>12, <1>13, DisjointUnionCounts
<1>18. Cardinality(B) = Cardinality(A \ M) + Cardinality(created \cup back)
  BY <1>11, <1>12, <1>16, <1>17, DisjointUnionCounts, Zenon
<1>19. /\ Cardinality(A \ M) \in Nat /\ Cardinality(M) \in Nat
       /\ Cardinality(created) \in Nat /\ Cardinality(back) \in Nat
  BY <1>13, <1>16, FS_CardinalityType
<1>20. Cardinality(B) + Cardinality(M) = Cardinality(A) + Cardinality(created) + Cardinality(back)
  BY <1>16, <1>17, <1>18, <1>19
<1> QED
  BY <1>14, <1>15, <1>20 DEF A, B

LEMMA NextMovesCounters ==
  ASSUME DataInv, Next
  PROVE  CountersMove
<1> SUFFICES ASSUME NEW pr \in Provider, Undisturbed(pr)'
             PROVE  \/ SucceededStay(pr) /\ ActiveJobs(pr)' = ActiveJobs(pr)
                    \/ \E r \in Succeeded(pr)' \ Succeeded(pr) :
                         /\ Succeeded(pr)' = Succeeded(pr) \cup {r}
                         /\ \A t \in Succeeded(pr) : runs'[t] = runs[t]
                         /\ Cardinality(ActiveJobs(pr)') + runs'[r].counts.deactivated
                              = Cardinality(ActiveJobs(pr)) + runs'[r].counts.created
                                  + runs'[r].counts.reactivated
  BY DEF CountersMove
<1>1. CASE jobs' = jobs /\ SucceededStay(pr)
  BY <1>1 DEF ActiveJobs
<1>2. ASSUME NEW i \in DOMAIN process, process[i].step = "write", Apply(i),
             \A j \in DOMAIN process :
               /\ j \in DOMAIN process' /\ process'[j].provider = process[j].provider
               /\ process'[j].connected = process[j].connected
               /\ process'[j].acked => process[j].acked
      PROVE  \/ SucceededStay(pr) /\ ActiveJobs(pr)' = ActiveJobs(pr)
             \/ \E r \in Succeeded(pr)' \ Succeeded(pr) :
                  /\ Succeeded(pr)' = Succeeded(pr) \cup {r}
                  /\ \A t \in Succeeded(pr) : runs'[t] = runs[t]
                  /\ Cardinality(ActiveJobs(pr)') + runs'[r].counts.deactivated
                       = Cardinality(ActiveJobs(pr)) + runs'[r].counts.created
                           + runs'[r].counts.reactivated
  <2>1. CASE process[i].provider = pr
    <3>1. Undisturbed(pr)
      BY <1>2 DEF Undisturbed
    <3>2. process[i].acked
      BY <2>1, <3>1 DEF Undisturbed
    <3> QED
      BY <1>2, <2>1, <3>1, <3>2, ApplyMovesCounters
  <2>2. CASE process[i].provider # pr
    <3>1. /\ process[i].run \in RunsOf(process[i].provider) /\ DOMAIN runs' = DOMAIN runs
          /\ \A t \in DOMAIN runs \ {process[i].run} : runs'[t] = runs[t]
          /\ runs'[process[i].run].provider = process[i].provider
      BY <1>2, RunApplied
    <3>2. SucceededStay(pr)
      BY <2>2, <3>1 DEF SucceededStay, Succeeded, RunsOf
    <3>3. \A k \in DOMAIN jobs' : k[1] = pr => k \in DOMAIN jobs /\ jobs'[k] = jobs[k]
      BY <1>2, <2>2, AppliedIs
    <3>4. DOMAIN jobs \subseteq DOMAIN jobs'
      BY <1>2 DEF Apply, Applied
    <3> QED
      BY <3>2, <3>3, <3>4 DEF ActiveJobs
  <2> QED
    BY <2>1, <2>2
<1> QED
  BY <1>1, <1>2, AppliesOrStays

\* The counters of sync_runs are exact (ingestion/upsert.py): as long as a provider has
\* lost no lock and no answer, each successful run accounts for the change of the number
\* of its active jobs, and no other step changes it.
THEOREM CountersAlwaysExact == Spec => [][CountersMove]_ivars
<1>1. DataInv /\ [Next]_ivars => [CountersMove]_ivars
  BY NextMovesCounters
<1> QED
  BY InitHasNoData, DataKept, <1>1, PTL DEF Spec

\* A lost lock or answer stays lost.
LEMMA StaysDisturbed ==
  ASSUME DataInv, Next, NEW pr, Undisturbed(pr)'
  PROVE  Undisturbed(pr)
<1>1. process \in [DOMAIN process -> Process]
  BY DEF DataInv, TypeInv
<1>2. ASSUME NEW i \in DOMAIN process, NEW q, Became(i, q), q.provider = process[i].provider,
             q.connected => process[i].connected, q.acked => process[i].acked
      PROVE  Undisturbed(pr)
  <2>1. /\ DOMAIN process' = DOMAIN process /\ process'[i] = q
        /\ \A j \in DOMAIN process \ {i} : process'[j] = process[j]
    BY <1>1, <1>2 DEF Became
  <2> QED
    BY <1>2, <2>1 DEF Undisturbed
<1>3. ASSUME NEW i \in DOMAIN process, NEW step, Drops(i, step)
      PROVE  Undisturbed(pr)
  <2> DEFINE q == [process[i] EXCEPT !.step = step, !.batch = Nothing, !.copies = Nothing]
  <2>1. q.provider = process[i].provider /\ q.connected = process[i].connected
        /\ q.acked = process[i].acked
    BY <1>1 DEF Process
  <2>2. Became(i, q)
    BY <1>3 DEF Drops
  <2> HIDE DEF q
  <2> QED
    BY <1>2, <2>1, <2>2
<1>4. CASE \E new \in Provider : Invoke(new)
  <2>1. PICK t, p : process' = [j \in DOMAIN process \cup {t} |->
                                  IF j = t THEN p ELSE process[j]]
                    /\ t = Cardinality(DOMAIN process) + 1
    BY <1>4 DEF Invoke
  <2>2. t \notin DOMAIN process
    BY <2>1, NextInvocation DEF DataInv, LockInv
  <2>3. \A j \in DOMAIN process : j \in DOMAIN process' /\ process'[j] = process[j]
    BY <2>1, <2>2
  <2> QED
    BY <2>3 DEF Undisturbed
<1>5. ASSUME NEW i \in DOMAIN process, SyncStep(i)
      PROVE  Undisturbed(pr)
  <2>1. CASE \E step : Drops(i, step)
    BY <1>3, <2>1
  <2>2. CASE ~ \E step : Drops(i, step)
    <3>1. PICK q : /\ Became(i, q)
                   /\ \/ \E r : q = [process[i] EXCEPT !.step = "fetch", !.run = r]
                      \/ q = [process[i] EXCEPT !.step = "unlock", !.acked = FALSE]
                      \/ \E batch : q = [process[i] EXCEPT !.step = "read", !.batch = batch]
                      \/ \E copies : q = [process[i] EXCEPT !.step = "write", !.copies = copies]
                      \/ q = [process[i] EXCEPT !.step = "fail", !.batch = Nothing,
                                                !.copies = Nothing, !.acked = FALSE]
      BY <1>5, <2>2 DEF SyncStep, StartRun, Fetch, ReadJobs, Write, MarkFailed, Unlock
    <3>2. /\ q.provider = process[i].provider
          /\ q.connected = process[i].connected /\ (q.acked => process[i].acked)
      BY <1>1, <3>1 DEF Process
    <3> QED
      BY <1>2, <3>1, <3>2
  <2> QED
    BY <2>1, <2>2
<1>6. ASSUME NEW i \in DOMAIN process, Crash(i) \/ Reap(i) \/ Disconnect(i)
      PROVE  Undisturbed(pr)
  <2>1. CASE Crash(i)
    BY <1>3, <2>1 DEF Crash
  <2>2. CASE Reap(i)
    BY <2>2 DEF Reap, Undisturbed
  <2>3. CASE Disconnect(i)
    <3> DEFINE q == [process[i] EXCEPT !.connected = FALSE]
    <3>1. /\ q.provider = process[i].provider /\ ~q.connected
          /\ q.acked = process[i].acked
      BY <1>1 DEF Process
    <3>2. Became(i, q)
      BY <2>3 DEF Disconnect
    <3> HIDE DEF q
    <3> QED
      BY <1>2, <3>1, <3>2
  <2> QED
    BY <1>6, <2>1, <2>2, <2>3
<1> QED
  BY <1>4, <1>5, <1>6 DEF Next

\* What each run made active, and what it made inactive.
Gains == [r \in DOMAIN runs |-> runs[r].counts.created + runs[r].counts.reactivated]
Losses == [r \in DOMAIN runs |-> runs[r].counts.deactivated]

\* CountersBalance, its sums as functions that add up.
BalanceInv ==
  \A pr \in Provider : Undisturbed(pr) =>
    \E g, h : /\ Sums(g, Gains, Succeeded(pr)) /\ Sums(h, Losses, Succeeded(pr))
              /\ g[Succeeded(pr)] = Cardinality(ActiveJobs(pr)) + h[Succeeded(pr)]

LEMMA RunsAreFinite ==
  ASSUME TypeInv, NEW pr
  PROVE  /\ IsFiniteSet(Succeeded(pr)) /\ Succeeded(pr) \subseteq DOMAIN runs
         /\ IsFiniteSet(ActiveJobs(pr)) /\ Cardinality(ActiveJobs(pr)) \in Nat
         /\ \A r \in Succeeded(pr) :
              /\ Gains[r] = runs[r].counts.created + runs[r].counts.reactivated
              /\ Losses[r] = runs[r].counts.deactivated
              /\ Gains[r] \in Nat /\ Losses[r] \in Nat
<1>1. Succeeded(pr) \subseteq DOMAIN runs /\ ActiveJobs(pr) \subseteq DOMAIN jobs
  BY DEF Succeeded, ActiveJobs
<1>2. IsFiniteSet(DOMAIN runs) /\ IsFiniteSet(DOMAIN jobs)
  <2>1. PICK m \in Nat : DOMAIN runs = 1..m
    BY DEF TypeInv
  <2>2. IsFiniteSet(1..m)
    BY FS_Interval
  <2> QED
    BY <2>1, <2>2 DEF TypeInv
<1>3. IsFiniteSet(Succeeded(pr)) /\ IsFiniteSet(ActiveJobs(pr))
  BY <1>1, <1>2, FS_Subset
<1>4. Cardinality(ActiveJobs(pr)) \in Nat
  BY <1>3, FS_CardinalityType
<1>5. ASSUME NEW r \in Succeeded(pr)
      PROVE  /\ Gains[r] = runs[r].counts.created + runs[r].counts.reactivated
             /\ Losses[r] = runs[r].counts.deactivated
             /\ Gains[r] \in Nat /\ Losses[r] \in Nat
  <2>1. r \in DOMAIN runs /\ runs[r] \in Run
    BY <1>1 DEF TypeInv
  <2>2. runs[r].counts \in Counts
    BY <2>1 DEF Run
  <2>3. /\ runs[r].counts.created \in Nat /\ runs[r].counts.reactivated \in Nat
        /\ runs[r].counts.deactivated \in Nat
    BY <2>2 DEF Counts
  <2>4. /\ Gains[r] = runs[r].counts.created + runs[r].counts.reactivated
        /\ Losses[r] = runs[r].counts.deactivated
    BY <2>1 DEF Gains, Losses
  <2> QED
    BY <2>3, <2>4
<1> QED
  BY <1>1, <1>3, <1>4, <1>5

\* What MapThenSumSet computes is what a function that adds up says.
LEMMA SumsAreTotals ==
  ASSUME TypeInv, NEW pr, NEW g, NEW h,
         Sums(g, Gains, Succeeded(pr)), Sums(h, Losses, Succeeded(pr))
  PROVE  /\ MapThenSumSet(LAMBDA r : runs[r].counts.created + runs[r].counts.reactivated,
                          Succeeded(pr)) = g[Succeeded(pr)]
         /\ MapThenSumSet(LAMBDA r : runs[r].counts.deactivated, Succeeded(pr))
              = h[Succeeded(pr)]
<1> DEFINE S == Succeeded(pr)
           Gain(r) == runs[r].counts.created + runs[r].counts.reactivated
           Loss(r) == runs[r].counts.deactivated
           G(f) == f = [s \in SUBSET S |-> IF s = {} THEN 0 ELSE
                          Gain(AnyOf(s)) + f[s \ {AnyOf(s)}]]
           L(f) == f = [s \in SUBSET S |-> IF s = {} THEN 0 ELSE
                          Loss(AnyOf(s)) + f[s \ {AnyOf(s)}]]
<1>1. /\ MapThenSumSet(LAMBDA r : runs[r].counts.created + runs[r].counts.reactivated, S)
           = (CHOOSE f : G(f))[S]
      /\ MapThenSumSet(LAMBDA r : runs[r].counts.deactivated, S) = (CHOOSE f : L(f))[S]
  BY DEF MapThenSumSet, MapThenFoldSet, AnyOf
<1>2. IsFiniteSet(S) /\ \A r \in S : Gains[r] = Gain(r) /\ Losses[r] = Loss(r)
  BY RunsAreFinite
<1> HIDE DEF S, Gain, Loss
<1>3. \A s \in SUBSET S : s # {} => AnyOf(s) \in S
  BY DEF AnyOf
<1>4. ASSUME NEW f
      PROVE  (G(f) <=> Sums(f, Gains, S)) /\ (L(f) <=> Sums(f, Losses, S))
  <2>1. [s \in SUBSET S |-> IF s = {} THEN 0 ELSE Gain(AnyOf(s)) + f[s \ {AnyOf(s)}]]
          = [s \in SUBSET S |-> IF s = {} THEN 0 ELSE Gains[AnyOf(s)] + f[s \ {AnyOf(s)}]]
    BY <1>2, <1>3
  <2>2. [s \in SUBSET S |-> IF s = {} THEN 0 ELSE Loss(AnyOf(s)) + f[s \ {AnyOf(s)}]]
          = [s \in SUBSET S |-> IF s = {} THEN 0 ELSE Losses[AnyOf(s)] + f[s \ {AnyOf(s)}]]
    BY <1>2, <1>3
  <2> QED
    BY <2>1, <2>2, Zenon DEF Sums
<1>5. G(g) /\ L(h)
  BY <1>4 DEF S
<1> DEFINE gain == CHOOSE f : G(f)
           loss == CHOOSE f : L(f)
<1> HIDE DEF G, L
<1>6. G(gain) /\ L(loss)
  BY <1>5
<1> HIDE DEF gain, loss
<1>7. Sums(gain, Gains, S) /\ Sums(loss, Losses, S) /\ Sums(g, Gains, S) /\ Sums(h, Losses, S)
  BY <1>4, <1>5, <1>6
<1>8. gain[S] = g[S]
  BY <1>2, <1>7, SumsAgree
<1>9. loss[S] = h[S]
  BY <1>2, <1>7, SumsAgree
<1> QED
  BY <1>1, <1>8, <1>9 DEF gain, loss, S

\* A step that adds a run to the sums, or none.
LEMMA BalanceKept ==
  ASSUME DataInv, DataInv', BalanceInv, CountersMove,
         NEW pr \in Provider, Undisturbed(pr), Undisturbed(pr)'
  PROVE  \E g, h : /\ Sums(g, Gains', Succeeded(pr)') /\ Sums(h, Losses', Succeeded(pr)')
                   /\ g[Succeeded(pr)'] = Cardinality(ActiveJobs(pr)') + h[Succeeded(pr)']
<1> DEFINE S == Succeeded(pr)
           T == Succeeded(pr)'
           A == ActiveJobs(pr)
           B == ActiveJobs(pr)'
<1>1. TypeInv /\ TypeInv'
  BY DEF DataInv
<1>2. /\ IsFiniteSet(S) /\ Cardinality(A) \in Nat
      /\ \A r \in S : /\ Gains[r] = runs[r].counts.created + runs[r].counts.reactivated
                      /\ Losses[r] = runs[r].counts.deactivated
                      /\ Gains[r] \in Nat /\ Losses[r] \in Nat
  BY <1>1, RunsAreFinite
<1>3. /\ IsFiniteSet(T) /\ Cardinality(B) \in Nat
      /\ \A r \in T : /\ Gains'[r] = runs'[r].counts.created + runs'[r].counts.reactivated
                      /\ Losses'[r] = runs'[r].counts.deactivated
                      /\ Gains'[r] \in Nat /\ Losses'[r] \in Nat
  <2>1. (/\ IsFiniteSet(Succeeded(pr)) /\ Cardinality(ActiveJobs(pr)) \in Nat
         /\ \A r \in Succeeded(pr) :
              /\ Gains[r] = runs[r].counts.created + runs[r].counts.reactivated
              /\ Losses[r] = runs[r].counts.deactivated
              /\ Gains[r] \in Nat /\ Losses[r] \in Nat)'
    BY <1>1, RunsAreFinite, PTL
  <2> QED
    BY <2>1
<1>4. PICK g, h : Sums(g, Gains, S) /\ Sums(h, Losses, S) /\ g[S] = Cardinality(A) + h[S]
  BY DEF BalanceInv
<1>5. PICK e, f : Sums(e, Gains', T) /\ Sums(f, Losses', T)
  BY <1>3, SomeFunctionSums
<1>6. ASSUME \A t \in S : runs'[t] = runs[t], S \subseteq T
      PROVE  \A t \in S : Gains[t] = Gains'[t] /\ Losses[t] = Losses'[t]
  BY <1>2, <1>3, <1>6
<1>7. CASE SucceededStay(pr) /\ B = A
  <2>1. T = S /\ \A t \in S : Gains[t] = Gains'[t] /\ Losses[t] = Losses'[t]
    BY <1>6, <1>7 DEF SucceededStay
  <2> DEFINE gain == Gains'
             loss == Losses'
  <2>5. /\ Sums(e, gain, S) /\ Sums(f, loss, S)
        /\ \A t \in S : Gains[t] = gain[t]
        /\ \A t \in S : Losses[t] = loss[t]
    <3> HIDE DEF S, T
    <3> QED
      BY <1>5, <2>1
  <2> HIDE DEF S, T, A, B, gain, loss
  <2>2. g[S] = e[S]
    BY <1>2, <1>4, <2>5, SumsAgree
  <2>3. h[S] = f[S]
    BY <1>2, <1>4, <2>5, SumsAgree
  <2>4. e[T] = Cardinality(B) + f[T]
    BY <1>4, <1>7, <2>1, <2>2, <2>3
  <2> QED
    BY <1>5, <2>4 DEF T, B
<1>8. ASSUME NEW r \in T \ S, T = S \cup {r}, \A t \in S : runs'[t] = runs[t],
             Cardinality(B) + runs'[r].counts.deactivated
               = Cardinality(A) + runs'[r].counts.created + runs'[r].counts.reactivated
      PROVE  e[T] = Cardinality(B) + f[T]
  <2>1. \A t \in S : Gains[t] = Gains'[t] /\ Losses[t] = Losses'[t]
    BY <1>6, <1>8
  <2> DEFINE gain == Gains'
             loss == Losses'
  <2>2. /\ gain[r] = runs'[r].counts.created + runs'[r].counts.reactivated
        /\ loss[r] = runs'[r].counts.deactivated
        /\ gain[r] \in Nat /\ loss[r] \in Nat
        /\ \A t \in S \cup {r} : gain[t] \in Nat /\ loss[t] \in Nat
        /\ \A t \in S : Gains[t] = gain[t] /\ Losses[t] = loss[t]
    BY <1>3, <1>8, <2>1
  <2>3. Sums(e, gain, T) /\ Sums(f, loss, T)
    BY <1>5
  <2>4. Cardinality(B) + loss[r] = Cardinality(A) + gain[r]
    <3>1. runs'[r].counts.created \in Nat /\ runs'[r].counts.reactivated \in Nat
      <4>1. r \in DOMAIN runs' /\ runs' \in [DOMAIN runs' -> Run]
        BY <1>1, <1>8 DEF TypeInv, Succeeded
      <4>2. runs'[r] \in Run
        BY <4>1
      <4>3. runs'[r].counts \in Counts
        BY <4>2 DEF Run
      <4> QED
        BY <4>3 DEF Counts
    <3> HIDE DEF A, B, gain, loss
    <3> QED
      BY <1>2, <1>3, <1>8, <2>2, <3>1
  <2> HIDE DEF S, T, A, B, gain, loss
  <2>5. IsFiniteSet(S) /\ r \notin S /\ T = S \cup {r}
    BY <1>2, <1>8
  <2>6. e[T] = gain[r] + g[S] /\ g[S] \in Nat
    <3>1. (\A t \in S : Gains[t] = gain[t]) /\ (\A t \in T : gain[t] \in Nat)
      BY <2>2, <2>5
    <3>2. Sums(g, Gains, S) /\ Sums(e, gain, T)
      BY <1>4, <2>3
    <3> QED
      BY <2>5, <3>1, <3>2, SumOfOneMore
  <2>7. f[T] = loss[r] + h[S] /\ h[S] \in Nat
    <3>1. (\A t \in S : Losses[t] = loss[t]) /\ (\A t \in T : loss[t] \in Nat)
      BY <2>2, <2>5
    <3>2. Sums(h, Losses, S) /\ Sums(f, loss, T)
      BY <1>4, <2>3
    <3> QED
      BY <2>5, <3>1, <3>2, SumOfOneMore
  <2> QED
    BY <1>2, <1>3, <1>4, <2>2, <2>4, <2>6, <2>7
<1>9. \/ SucceededStay(pr) /\ B = A
      \/ \E r \in T \ S :
           /\ T = S \cup {r} /\ \A t \in S : runs'[t] = runs[t]
           /\ Cardinality(B) + runs'[r].counts.deactivated
                = Cardinality(A) + runs'[r].counts.created + runs'[r].counts.reactivated
  BY DEF CountersMove
<1>10. ASSUME e[T] = Cardinality(B) + f[T]
       PROVE  \E a, b : /\ Sums(a, Gains', T) /\ Sums(b, Losses', T)
                        /\ a[T] = Cardinality(B) + b[T]
  BY <1>5, <1>10
<1> QED
  BY <1>7, <1>8, <1>9, <1>10

\* created, updated and unchanged account for all that a successful run fetched
\* (ingestion/upsert.py), each job once.
THEOREM FetchedAreAllCounted == Spec => []CountedInv
<1>1. DataInv => CountedInv
  BY DEF DataInv
<1> QED
  BY InitHasNoData, DataKept, <1>1, PTL DEF Spec

LEMMA InitIsBalanced == Init => BalanceInv
<1> SUFFICES ASSUME Init, NEW pr \in Provider
             PROVE  \E g, h : /\ Sums(g, Gains, Succeeded(pr)) /\ Sums(h, Losses, Succeeded(pr))
                              /\ g[Succeeded(pr)]
                                   = Cardinality(ActiveJobs(pr)) + h[Succeeded(pr)]
  BY DEF BalanceInv
<1>1. Succeeded(pr) = {} /\ ActiveJobs(pr) = {}
  BY DEF Init, Nothing, Succeeded, ActiveJobs
<1>2. IsFiniteSet({}) /\ Cardinality({}) = 0
  BY FS_EmptySet
<1>3. PICK g, h : Sums(g, Gains, {}) /\ Sums(h, Losses, {})
  BY <1>2, SomeFunctionSums
<1>4. g[{}] = 0 /\ h[{}] = 0
  BY <1>3 DEF Sums
<1> QED
  BY <1>1, <1>2, <1>3, <1>4

LEMMA BalanceKeptByAll == DataInv /\ DataInv' /\ BalanceInv /\ [Next]_ivars => BalanceInv'
<1> SUFFICES ASSUME DataInv, DataInv', BalanceInv, [Next]_ivars
             PROVE  BalanceInv'
  OBVIOUS
<1>1. CASE Next
  <2>1. CountersMove
    BY <1>1, NextMovesCounters
  <2>2. ASSUME NEW pr \in Provider, Undisturbed(pr)'
        PROVE  \E g, h : /\ Sums(g, Gains', Succeeded(pr)') /\ Sums(h, Losses', Succeeded(pr)')
                         /\ g[Succeeded(pr)']
                              = Cardinality(ActiveJobs(pr)') + h[Succeeded(pr)']
    <3>1. Undisturbed(pr)
      BY <1>1, <2>2, StaysDisturbed
    <3> QED
      BY <2>1, <2>2, <3>1, BalanceKept
  <2>3. ASSUME NEW pr \in Provider, Undisturbed(pr)'
        PROVE  (\E g, h : /\ Sums(g, Gains, Succeeded(pr)) /\ Sums(h, Losses, Succeeded(pr))
                          /\ g[Succeeded(pr)]
                               = Cardinality(ActiveJobs(pr)) + h[Succeeded(pr)])'
    <3>1. PICK g, h : /\ Sums(g, Gains', Succeeded(pr)') /\ Sums(h, Losses', Succeeded(pr)')
                      /\ g[Succeeded(pr)'] = Cardinality(ActiveJobs(pr)') + h[Succeeded(pr)']
      BY <2>2, <2>3
    <3>2. Sums(g, Gains, Succeeded(pr))' /\ Sums(h, Losses, Succeeded(pr))'
      BY <3>1 DEF Sums
    <3> QED
      BY <3>1, <3>2
  <2> QED
    BY <2>3 DEF BalanceInv
<1>2. CASE UNCHANGED ivars
  <2>1. \A pr : /\ Undisturbed(pr)' = Undisturbed(pr)
                /\ Succeeded(pr)' = Succeeded(pr) /\ ActiveJobs(pr)' = ActiveJobs(pr)
    BY <1>2 DEF ivars, Undisturbed, Succeeded, ActiveJobs
  <2>2. Gains' = Gains /\ Losses' = Losses
    BY <1>2 DEF ivars, Gains, Losses
  <2> QED
    <3>1. \A g, pr : /\ Sums(g, Gains, Succeeded(pr)) => Sums(g, Gains, Succeeded(pr))'
                     /\ Sums(g, Losses, Succeeded(pr)) => Sums(g, Losses, Succeeded(pr))'
      BY <2>1, <2>2 DEF Sums
    <3>2. ASSUME NEW pr \in Provider, Undisturbed(pr)'
          PROVE  (\E g, h : /\ Sums(g, Gains, Succeeded(pr)) /\ Sums(h, Losses, Succeeded(pr))
                            /\ g[Succeeded(pr)]
                                 = Cardinality(ActiveJobs(pr)) + h[Succeeded(pr)])'
      <4>1. PICK g, h : /\ Sums(g, Gains, Succeeded(pr)) /\ Sums(h, Losses, Succeeded(pr))
                        /\ g[Succeeded(pr)] = Cardinality(ActiveJobs(pr)) + h[Succeeded(pr)]
        BY <2>1, <3>2 DEF BalanceInv
      <4> QED
        BY <2>1, <3>1, <4>1
    <3> QED
      BY <3>2 DEF BalanceInv
<1> QED
  BY <1>1, <1>2

\* The counters of sync_runs balance (ingestion/service.py, upsert.py): as
\* long as a provider has lost no lock and no answer, what its successful runs created
\* and brought back, less what they deactivated, is what is active - for any number of
\* runs, and whatever failed between them.
THEOREM CountersAlwaysBalance == Spec => []CountersBalance
<1>1. ASSUME DataInv, BalanceInv
      PROVE  CountersBalance
  <2>1. ASSUME NEW pr \in Provider, Undisturbed(pr)
        PROVE  MapThenSumSet(LAMBDA r : runs[r].counts.created + runs[r].counts.reactivated,
                             Succeeded(pr))
                 = Cardinality(ActiveJobs(pr))
                     + MapThenSumSet(LAMBDA r : runs[r].counts.deactivated, Succeeded(pr))
    <3>1. PICK g, h : /\ Sums(g, Gains, Succeeded(pr)) /\ Sums(h, Losses, Succeeded(pr))
                      /\ g[Succeeded(pr)] = Cardinality(ActiveJobs(pr)) + h[Succeeded(pr)]
      BY <1>1, <2>1 DEF BalanceInv
    <3>2. TypeInv
      BY <1>1 DEF DataInv
    <3>3. /\ MapThenSumSet(LAMBDA r : runs[r].counts.created + runs[r].counts.reactivated,
                           Succeeded(pr)) = g[Succeeded(pr)]
          /\ MapThenSumSet(LAMBDA r : runs[r].counts.deactivated, Succeeded(pr))
               = h[Succeeded(pr)]
      BY <3>1, <3>2, SumsAreTotals
    <3> QED
      BY <3>1, <3>3
  <2>2. \A pr \in Provider : \A r \in Succeeded(pr) :
          runs[r].counts.created + runs[r].counts.updated + runs[r].counts.unchanged
            = Cardinality(DOMAIN runs[r].fetched)
    BY <1>1 DEF DataInv, CountedInv, Succeeded
  <2> QED
    BY <2>1, <2>2 DEF CountersBalance
<1>2. Init => DataInv /\ BalanceInv
  BY InitHasNoData, InitIsBalanced
<1>3. DataInv /\ BalanceInv /\ [Next]_ivars => (DataInv /\ BalanceInv)'
  BY DataKept, BalanceKeptByAll
<1> QED
  BY <1>1, <1>2, <1>3, PTL DEF Spec

-----------------------------------------------------------------------------
(* The search of stored jobs.                                              *)

\* What the table holds is what the columns of a job can hold.
LEMMA FieldsAre ==
  ASSUME TypeInv, NEW k \in DOMAIN jobs
  PROVE  /\ k \in Provider \X JobId
         /\ jobs[k] \in Row
         /\ FieldsOf(k) \in Fields
         /\ Admissible(FieldsOf(k))
<1>1. k \in Provider \X JobId /\ jobs[k] \in Row
  BY TableIs DEF TypeInv, Table
<1> QED
  BY <1>1, CatalogAssumption DEF FieldsOf, Row

\* Making amounts annual keeps whether there are any, and which is the greater.
LEMMA AnnualKeeps ==
  ASSUME NEW f \in Fields, Admissible(f)
  PROVE  /\ Annual(f, f.low) \in Nat /\ Annual(f, f.high) \in Nat
         /\ {Annual(f, f.low), Annual(f, f.high)} # {NoAmount} => f.currency # NotGiven
         /\ NoAmount \notin {Annual(f, f.low), Annual(f, f.high)}
              => Annual(f, f.low) <= Annual(f, f.high)
<1>1. f.low \in Nat /\ f.high \in Nat
  BY DEF Fields
<1>2. CASE f.period \in DOMAIN Factor
  <2> DEFINE times == Factor[f.period]
  <2>1. times \in Nat \ {0}
    BY <1>2, CatalogAssumption
  <2>2. Annual(f, f.low) = f.low * times /\ Annual(f, f.high) = f.high * times
    BY <1>2 DEF Annual
  <2> HIDE DEF times
  <2>3. /\ f.low * times \in Nat /\ f.high * times \in Nat
        /\ f.low * times # 0 => f.low # 0
        /\ f.high * times # 0 => f.high # 0
        /\ f.low <= f.high => f.low * times <= f.high * times
    BY <1>1, <2>1
  <2> QED
    BY <2>2, <2>3 DEF Admissible, NoAmount
<1>3. CASE f.period \notin DOMAIN Factor
  BY <1>3 DEF Annual, NoAmount
<1> QED
  BY <1>2, <1>3

\* The bounds a search compares are the least and the greatest amount of a job.
LEMMA EffectiveAre ==
  ASSUME TypeInv, NEW k \in DOMAIN jobs
  PROVE  LET paid == {AnnualLow(k), AnnualHigh(k)} \ {NoAmount}
         IN /\ EffectiveLow(k) \in Nat /\ EffectiveHigh(k) \in Nat
            /\ HasAnnual(k) <=> paid # {}
            /\ HasAnnual(k) =>
                 /\ FieldsOf(k).currency # NotGiven
                 /\ EffectiveLow(k) \in paid /\ EffectiveHigh(k) \in paid
                 /\ \A amount \in paid : /\ amount \in Nat
                                         /\ EffectiveLow(k) <= amount
                                         /\ amount <= EffectiveHigh(k)
<1> DEFINE f == FieldsOf(k)
           low == AnnualLow(k)
           high == AnnualHigh(k)
<1>1. f \in Fields /\ Admissible(f)
  BY FieldsAre
<1>2. low = Annual(f, f.low) /\ high = Annual(f, f.high)
  BY DEF AnnualLow, AnnualHigh
<1>3. /\ low \in Nat /\ high \in Nat
      /\ {low, high} # {NoAmount} => f.currency # NotGiven
      /\ NoAmount \notin {low, high} => low <= high
  <2> HIDE DEF f, low, high
  <2> QED
    BY <1>1, <1>2, AnnualKeeps
<1>4. /\ EffectiveLow(k) = IF low # NoAmount THEN low ELSE high
      /\ EffectiveHigh(k) = IF high # NoAmount THEN high ELSE low
      /\ HasAnnual(k) <=> {low, high} # {NoAmount}
  BY DEF EffectiveLow, EffectiveHigh, HasAnnual
<1> HIDE DEF f, low, high
<1>5. {low, high} # {NoAmount} <=> low # NoAmount \/ high # NoAmount
  OBVIOUS
<1>6. {low, high} \ {NoAmount} # {} <=> low # NoAmount \/ high # NoAmount
  OBVIOUS
<1>7. ASSUME low # NoAmount \/ high # NoAmount
      PROVE  /\ EffectiveLow(k) \in {low, high} \ {NoAmount}
             /\ EffectiveHigh(k) \in {low, high} \ {NoAmount}
             /\ \A amount \in {low, high} \ {NoAmount} :
                  /\ amount \in Nat
                  /\ EffectiveLow(k) <= amount /\ amount <= EffectiveHigh(k)
  BY <1>3, <1>4, <1>7
<1> QED
  BY <1>3, <1>4, <1>5, <1>6, <1>7 DEF f, low, high, NoAmount

\* A number between the bounds of a job and of a query.
LEMMA AmountBetween ==
  ASSUME NEW low \in Nat, NEW high \in Nat, low <= high, NEW least \in Nat, least <= high,
         NEW most, most = NoBound \/ (most \in Nat /\ low <= most /\ least <= most)
  PROVE  \E amount \in low..high :
           least <= amount /\ (most # NoBound => amount <= most)
<1> DEFINE amount == IF low <= least THEN least ELSE low
<1>1. amount \in low..high /\ least <= amount /\ (most # NoBound => amount <= most)
  BY DEF NoBound
<1> QED
  BY <1>1

LEMMA BoundsSelect == TypeInv => BoundsSelectByAmount
<1> SUFFICES ASSUME TypeInv, NEW q \in Queries, Valid(q), Bounded(q)
             PROVE  LET unbounded == [q EXCEPT !.salaryMin = NoBound, !.salaryMax = NoBound,
                                               !.sort = "newest"]
                        Paid(k) == {AnnualLow(k), AnnualHigh(k)} \ {NoAmount}
                        Least == IF q.salaryMin = NoBound THEN 0 ELSE q.salaryMin
                        MayPay(k) ==
                          \E low, high \in Paid(k) :
                            /\ \A amount \in Paid(k) : low <= amount /\ amount <= high
                            /\ \E amount \in low..high :
                                 Least <= amount
                                   /\ (q.salaryMax # NoBound => amount <= q.salaryMax)
                    IN Filtered(q) = {k \in Filtered(unbounded) :
                                        FieldsOf(k).currency = q.currency /\ MayPay(k)}
  BY DEF BoundsSelectByAmount
<1> DEFINE unbounded == [q EXCEPT !.salaryMin = NoBound, !.salaryMax = NoBound,
                                  !.sort = "newest"]
           Paid(k) == {AnnualLow(k), AnnualHigh(k)} \ {NoAmount}
           Least == IF q.salaryMin = NoBound THEN 0 ELSE q.salaryMin
           MayPay(k) ==
             \E low, high \in Paid(k) :
               /\ \A amount \in Paid(k) : low <= amount /\ amount <= high
               /\ \E amount \in low..high :
                    Least <= amount /\ (q.salaryMax # NoBound => amount <= q.salaryMax)
<1>1. /\ q \in Query
      /\ q.salaryMin \in Nat \cup {NoBound} /\ q.salaryMax \in Nat \cup {NoBound}
      /\ q.currency # NotGiven
      /\ NoBound \notin {q.salaryMin, q.salaryMax} => q.salaryMin <= q.salaryMax
      /\ Least \in Nat
  BY CatalogAssumption DEF Valid, Query
<1>2. /\ unbounded.accepts = q.accepts /\ unbounded.providers = q.providers
      /\ unbounded.countries = q.countries /\ unbounded.postedAfter = q.postedAfter
      /\ unbounded.salaryMin = NoBound /\ unbounded.salaryMax = NoBound
      /\ unbounded.sort = "newest"
  BY <1>1 DEF Query
<1>3. ~Bounded(unbounded) /\ ~BySalary(unbounded)
  BY <1>2 DEF Bounded, BySalary
<1> HIDE DEF unbounded
<1>4. ASSUME NEW k \in DOMAIN jobs
      PROVE  MatchesSalary(q, k) <=> FieldsOf(k).currency = q.currency /\ MayPay(k)
  <2>1. /\ EffectiveLow(k) \in Nat /\ EffectiveHigh(k) \in Nat
        /\ HasAnnual(k) <=> Paid(k) # {}
        /\ HasAnnual(k) =>
             /\ FieldsOf(k).currency # NotGiven
             /\ EffectiveLow(k) \in Paid(k) /\ EffectiveHigh(k) \in Paid(k)
             /\ \A amount \in Paid(k) : /\ amount \in Nat
                                        /\ EffectiveLow(k) <= amount
                                        /\ amount <= EffectiveHigh(k)
    BY EffectiveAre
  <2> HIDE DEF Paid
  <2>2. ASSUME MatchesSalary(q, k)
        PROVE  FieldsOf(k).currency = q.currency /\ MayPay(k)
    <3>1. /\ HasAnnual(k)
          /\ FieldsOf(k).currency = q.currency \/ FieldsOf(k).currency = NotGiven
          /\ q.salaryMax # NoBound => EffectiveLow(k) <= q.salaryMax
          /\ q.salaryMin # NoBound => EffectiveHigh(k) >= q.salaryMin
      BY <1>1, <2>2 DEF MatchesSalary
    <3>2. /\ EffectiveLow(k) <= EffectiveHigh(k) /\ Least <= EffectiveHigh(k)
          /\ q.salaryMax = NoBound
               \/ (/\ q.salaryMax \in Nat /\ EffectiveLow(k) <= q.salaryMax
                   /\ Least <= q.salaryMax)
      BY <1>1, <2>1, <3>1
    <3> HIDE DEF Least
    <3>3. \E amount \in EffectiveLow(k)..EffectiveHigh(k) :
            Least <= amount /\ (q.salaryMax # NoBound => amount <= q.salaryMax)
      BY <1>1, <2>1, <3>2, AmountBetween
    <3> QED
      BY <2>1, <3>1, <3>3
  <2>3. ASSUME FieldsOf(k).currency = q.currency, MayPay(k)
        PROVE  MatchesSalary(q, k)
    <3>0. PICK low \in Paid(k), high \in Paid(k) :
             /\ \A a \in Paid(k) : low <= a /\ a <= high
             /\ \E amount \in low..high :
                  Least <= amount /\ (q.salaryMax # NoBound => amount <= q.salaryMax)
      BY <2>3
    <3>1. PICK amount \in low..high :
             Least <= amount /\ (q.salaryMax # NoBound => amount <= q.salaryMax)
      BY <3>0
    <3>2. /\ HasAnnual(k) /\ low \in Nat /\ high \in Nat
          /\ low <= EffectiveLow(k) /\ EffectiveLow(k) <= low
          /\ EffectiveHigh(k) <= high /\ high <= EffectiveHigh(k)
      BY <2>1, <3>0
    <3>3. /\ q.salaryMax # NoBound => EffectiveLow(k) <= q.salaryMax
          /\ q.salaryMin # NoBound => EffectiveHigh(k) >= q.salaryMin
      BY <1>1, <2>1, <3>1, <3>2
    <3> QED
      BY <2>3, <3>2, <3>3 DEF MatchesSalary
  <2> QED
    BY <2>2, <2>3
<1>5. ASSUME NEW k \in DOMAIN jobs
      PROVE  k \in Filtered(q) <=> /\ k \in Filtered(unbounded)
                                   /\ FieldsOf(k).currency = q.currency /\ MayPay(k)
  <2> HIDE DEF MayPay
  <2> QED
    BY <1>2, <1>3, <1>4 DEF Filtered, MatchesCountry, MatchesPosted, MatchesSalary
<1> HIDE DEF MayPay
<1>6. Filtered(q) = {k \in Filtered(unbounded) :
                       FieldsOf(k).currency = q.currency /\ MayPay(k)}
  BY <1>5 DEF Filtered
<1> QED
  BY <1>6 DEF unbounded, MayPay, Paid, Least

-----------------------------------------------------------------------------
(* The pages of a search.                                                  *)

\* What the order compares: two numbers, of which the second is no other job's.
LEMMA KeysCompare ==
  ASSUME TypeInv, NEW q \in Queries, NEW k \in DOMAIN jobs
  PROVE  SortKey(q, k) \in Int /\ IdOrder[k] \in Nat
<1>1. q \in Query /\ q.sort \in {"newest", "salary_asc", "salary_desc"}
  BY CatalogAssumption DEF Query
<1>2. FieldsOf(k).posted \in Nat /\ jobs[k].discovered \in Nat
  BY FieldsAre DEF Fields, Row
<1>3. EffectiveLow(k) \in Nat /\ EffectiveHigh(k) \in Nat
  BY EffectiveAre
<1>4. IdOrder[k] \in Nat
  BY FieldsAre, CatalogAssumption
<1>5. CASE q.sort = "newest"
  <2>1. SortKey(q, k) = IF FieldsOf(k).posted # NoTime THEN FieldsOf(k).posted
                        ELSE jobs[k].discovered
    BY <1>5 DEF SortKey
  <2> QED
    BY <1>2, <1>4, <2>1
<1>6. CASE q.sort = "salary_asc"
  <2>1. SortKey(q, k) = -EffectiveLow(k)
    BY <1>6 DEF SortKey
  <2> QED
    BY <1>3, <1>4, <2>1
<1>7. CASE q.sort = "salary_desc"
  <2>1. SortKey(q, k) = EffectiveHigh(k)
    BY <1>7 DEF SortKey
  <2> QED
    BY <1>3, <1>4, <2>1
<1> QED
  BY <1>1, <1>4, <1>5, <1>6, <1>7

AheadOf(q) == {pair \in Filtered(q) \X Filtered(q) : Ahead(q, pair[1], pair[2])}

\* Ties are broken by the id, so that of two jobs one is ahead of the other.
LEMMA AheadOrders ==
  ASSUME TypeInv, NEW q \in Queries
  PROVE  StrictlyOrders(AheadOf(q), Filtered(q))
<1> DEFINE S == Filtered(q)
           key == [k \in S |-> SortKey(q, k)]
           late == [k \in S |-> NullsLast(q, k)]
<1>1. /\ S \subseteq DOMAIN jobs
      /\ \A k \in S : key[k] \in Int /\ IdOrder[k] \in Nat
  BY KeysCompare DEF Filtered
<1>2. \A j, k \in S : j # k => IdOrder[j] # IdOrder[k]
  BY <1>1, FieldsAre, CatalogAssumption
<1>3. ASSUME NEW j \in S, NEW k \in S
      PROVE  <<j, k>> \in AheadOf(q) <=>
               \/ ~late[j] /\ late[k]
               \/ ~late[j] /\ ~late[k] /\ key[j] > key[k]
               \/ /\ late[j] = late[k]
                  /\ ~late[j] => key[j] = key[k]
                  /\ IF q.sort = "salary_asc" THEN IdOrder[j] < IdOrder[k]
                     ELSE IdOrder[j] > IdOrder[k]
  BY DEF AheadOf, Ahead
<1>4. \A k \in S : late[k] \in BOOLEAN
  BY DEF NullsLast, BySalary
<1> HIDE DEF S, key, late
<1>5. \A j \in S : <<j, j>> \notin AheadOf(q)
  BY <1>1, <1>3, <1>4
<1>6. ASSUME NEW i \in S, NEW j \in S, NEW k \in S,
             <<i, j>> \in AheadOf(q), <<j, k>> \in AheadOf(q)
      PROVE  <<i, k>> \in AheadOf(q)
  <2>1. /\ key[i] \in Int /\ key[j] \in Int /\ key[k] \in Int
        /\ IdOrder[i] \in Nat /\ IdOrder[j] \in Nat /\ IdOrder[k] \in Nat
        /\ late[i] \in BOOLEAN /\ late[j] \in BOOLEAN /\ late[k] \in BOOLEAN
    BY <1>1, <1>4
  <2>2. CASE late[i] = late[j] /\ late[j] = late[k]
    BY <1>3, <1>6, <2>1, <2>2
  <2>3. CASE late[i] # late[j] \/ late[j] # late[k]
    BY <1>3, <1>6, <2>1, <2>3
  <2> QED
    BY <2>2, <2>3
<1>7. ASSUME NEW j \in S, NEW k \in S, j # k
      PROVE  <<j, k>> \in AheadOf(q) \/ <<k, j>> \in AheadOf(q)
  <2>1. /\ key[j] \in Int /\ key[k] \in Int
        /\ IdOrder[j] \in Nat /\ IdOrder[k] \in Nat /\ IdOrder[j] # IdOrder[k]
        /\ late[j] \in BOOLEAN /\ late[k] \in BOOLEAN
    BY <1>1, <1>2, <1>4, <1>7
  <2> QED
    BY <1>3, <2>1
<1>8. StrictlyOrders(AheadOf(q), S)
  BY <1>5, <1>6, <1>7 DEF StrictlyOrders
<1> QED
  BY <1>8 DEF S

\* The places of the jobs are the numbers of the rows of the whole result.
LEMMA PlacesAre ==
  ASSUME TypeInv, NEW q \in Queries
  PROVE  /\ Total(q) \in Nat
         /\ Places(q) \in Bijection(Filtered(q), 0..Total(q) - 1)
<1> DEFINE S == Filtered(q)
<1>1. IsFiniteSet(S)
  BY FS_Subset DEF Filtered, TypeInv
<1>2. ASSUME NEW k \in S
      PROVE  {j \in S : Ahead(q, j, k)} = Before(AheadOf(q), S, k)
  BY DEF AheadOf, Before
<1>3. Places(q) = PlaceIn(AheadOf(q), S)
  BY <1>2 DEF Places, PlaceIn
<1>4. Places(q) \in Bijection(S, 0..Cardinality(S) - 1)
  BY <1>1, <1>3, AheadOrders, PlacesCount
<1> QED
  BY <1>1, <1>4, FS_CardinalityType DEF Total

\* Pages of one size, cut out of any number of rows.
LEMMA PageOfRow ==
  ASSUME NEW row \in Nat, NEW size \in Nat \ {0}, NEW page \in Nat
  PROVE  ((page - 1) * size <= row /\ row < page * size) <=> page = row \div size + 1
<1> DEFINE d == row \div size
<1>1. d \in Nat /\ d * size <= row /\ row < d * size + size
  OBVIOUS
<1> HIDE DEF d
<1>2. (d + 1 - 1) * size <= row /\ row < (d + 1) * size
  BY <1>1
<1>3. page < d + 1 => page * size <= d * size
  BY <1>1
<1>4. page > d + 1 => (page - 1) * size >= d * size + size
  <2>1. page > d + 1 => page - 1 >= d + 1
    BY <1>1
  <2>2. page - 1 >= d + 1 => (page - 1) * size >= (d + 1) * size
    BY <1>1
  <2>3. (d + 1) * size = d * size + size
    BY <1>1
  <2> QED
    BY <2>1, <2>2, <2>3
<1>5. d * size \in Nat /\ page * size \in Nat /\ (page - 1) * size \in Int
  BY <1>1
<1>6. page < d + 1 \/ page = d + 1 \/ page > d + 1
  BY <1>1
<1>7. page = d + 1 <=> ((page - 1) * size <= row /\ row < page * size)
  BY <1>1, <1>2, <1>3, <1>4, <1>5, <1>6
<1> QED
  BY <1>7 DEF d

LEMMA PageCount ==
  ASSUME NEW total \in Nat, NEW size \in Nat \ {0}
  PROVE  LET last == (total + size - 1) \div size
         IN /\ last \in Nat
            /\ total <= last * size
            /\ last * size < total + size
<1> DEFINE last == (total + size - 1) \div size
<1>1. /\ last \in Nat
      /\ last * size <= total + size - 1 /\ total + size - 1 < last * size + size
  <2>1. total + size - 1 \in Nat
    OBVIOUS
  <2> QED
    BY <2>1
<1> HIDE DEF last
<1>2. last * size \in Nat
  BY <1>1
<1>3. total <= last * size /\ last * size < total + size
  BY <1>1, <1>2
<1> QED
  BY <1>1, <1>3 DEF last

\* Every job is on one page, and the pages are as long as they can be.
LEMMA PagesAreExact ==
  ASSUME TypeInv, NEW q \in Queries
  PROVE  LET last == TotalPages(q)
             place == Places(q)
             pages == [n \in 1..last + 1 |-> OnPage(q, place, n)]
         IN /\ \A k \in DOMAIN place : Cardinality({n \in 1..last : k \in pages[n]}) = 1
            /\ \A n \in 1..last - 1 : Cardinality(pages[n]) = q.pageSize
            /\ last > 0 => pages[last] # {}
            /\ pages[last + 1] = {}
<1> DEFINE S == Filtered(q)
           size == q.pageSize
           total == Total(q)
           last == TotalPages(q)
           place == Places(q)
           pages == [n \in 1..last + 1 |-> OnPage(q, place, n)]
<1>1. size \in Nat \ {0} /\ total \in Nat
  BY PlacesAre, CatalogAssumption DEF Query
<1>2. last \in Nat /\ total <= last * size /\ last * size < total + size
  BY <1>1, PageCount DEF TotalPages
<1>3. /\ place \in [S -> 0..total - 1]
      /\ \A j, k \in S : place[j] = place[k] => j = k
      /\ \A row \in 0..total - 1 : \E k \in S : place[k] = row
  <2> DEFINE rows == 0..total - 1
  <2>1. place \in Bijection(S, rows)
    BY PlacesAre
  <2> HIDE DEF S, place, rows
  <2>2. place \in Injection(S, rows) /\ place \in Surjection(S, rows)
    BY <2>1, Fun_BijectionProperties
  <2>3. /\ place \in [S -> rows]
        /\ \A j, k \in S : place[j] = place[k] => j = k
    BY <2>2, Fun_InjectionProperties
  <2>4. \A row \in rows : \E k \in S : place[k] = row
    BY <2>2, Fun_SurjectionProperties
  <2> QED
    BY <2>3, <2>4 DEF rows
<1>4. \A n \in Nat, k \in S :
        k \in OnPage(q, place, n) <=>
          (n - 1) * size <= place[k] /\ place[k] < n * size
  BY <1>3 DEF OnPage
<1>5. \A n \in Nat : OnPage(q, place, n) \subseteq S
  BY <1>3 DEF OnPage
<1>6. \A n \in 1..last + 1 : n \in Nat /\ pages[n] = OnPage(q, place, n)
  BY <1>2
<1> HIDE DEF S, size, total, last, place, pages
<1>7. ASSUME NEW k \in S
      PROVE  Cardinality({n \in 1..last : k \in pages[n]}) = 1
  <2> DEFINE d == place[k] \div size
  <2>1. place[k] \in Nat /\ place[k] < total
    BY <1>1, <1>3
  <2>2. d \in Nat /\ d * size <= place[k]
    BY <1>1, <2>1
  <2>3. \A n \in 1..last : k \in pages[n] <=> n = d + 1
    <3>1. ASSUME NEW n \in 1..last
          PROVE  k \in pages[n] <=> n = d + 1
      <4>1. n \in Nat /\ n \in 1..last + 1
        BY <1>2
      <4>2. k \in pages[n] <=> (n - 1) * size <= place[k] /\ place[k] < n * size
        BY <1>4, <1>6, <4>1
      <4> QED
        BY <1>1, <2>1, <4>1, <4>2, PageOfRow
    <3> QED
      BY <3>1
  <2> HIDE DEF d
  <2>4. d < last
    <3>1. d * size < last * size
      BY <1>1, <1>2, <2>1, <2>2
    <3>2. d >= last => d * size >= last * size
      BY <1>1, <1>2, <2>2
    <3> QED
      BY <1>1, <1>2, <2>2, <3>1, <3>2
  <2>5. d + 1 \in 1..last
    BY <1>2, <2>2, <2>4
  <2>6. {n \in 1..last : k \in pages[n]} = {d + 1}
    BY <2>3, <2>5
  <2> QED
    BY <2>6, FS_Singleton
<1>8. ASSUME NEW n \in 1..last - 1
      PROVE  Cardinality(pages[n]) = size
  <2> DEFINE P == pages[n]
             first == (n - 1) * size
             rows == first..n * size - 1
             f == [k \in P |-> place[k]]
  <2>1. n \in Nat \ {0} /\ n \in 1..last + 1
    BY <1>2
  <2>2. first \in Nat /\ n * size = first + size /\ n * size < total
    <3>1. first \in Nat /\ n * size = first + size
      BY <1>1, <2>1
    <3>2. n <= last - 1 /\ last - 1 \in Nat
      BY <1>2
    <3>3. n * size <= (last - 1) * size
      BY <1>1, <2>1, <3>2
    <3>4. (last - 1) * size = last * size - size /\ last * size \in Nat
      BY <1>1, <1>2
    <3> QED
      BY <1>1, <1>2, <3>1, <3>3, <3>4
  <2>3. /\ P \subseteq S
        /\ \A k \in S : k \in P <=> first <= place[k] /\ place[k] < n * size
    BY <1>4, <1>5, <1>6, <2>1
  <2> HIDE DEF P, first
  <2>4. f \in [P -> rows] /\ \A j, k \in P : f[j] = f[k] => j = k
    BY <1>1, <1>3, <2>2, <2>3
  <2>5. ASSUME NEW row \in rows
        PROVE  \E k \in P : f[k] = row
    <3>1. row \in 0..total - 1 /\ first <= row /\ row < n * size
      BY <1>1, <2>2
    <3>2. PICK k \in S : place[k] = row
      BY <1>3, <3>1
    <3> QED
      BY <2>3, <3>1, <3>2
  <2>6. IsFiniteSet(rows) /\ Cardinality(rows) = size
    <3>1. first \in Int /\ n * size - 1 \in Int /\ ~(first > n * size - 1)
      BY <1>1, <2>2
    <3>2. IsFiniteSet(rows) /\ Cardinality(rows) = n * size - 1 - first + 1
      BY <3>1, FS_Interval
    <3> QED
      BY <1>1, <2>2, <3>2
  <2> HIDE DEF rows, f
  <2>7. f \in Injection(P, rows) /\ f \in Surjection(P, rows)
    BY <2>4, <2>5, Fun_IsInj, Fun_IsSurj
  <2>8. Cardinality(P) = Cardinality(rows)
    BY <2>6, <2>7, FS_Injection
  <2> QED
    BY <2>6, <2>8 DEF P
<1>9. ASSUME last > 0
      PROVE  pages[last] # {}
  <2> DEFINE row == (last - 1) * size
  <2>1. row \in Nat /\ last * size = row + size
    BY <1>1, <1>2, <1>9
  <2>2. row \in 0..total - 1 /\ row < last * size
    BY <1>1, <1>2, <2>1
  <2>3. PICK k \in S : place[k] = row
    BY <1>3, <2>2
  <2>4. last \in Nat /\ last \in 1..last + 1
    BY <1>2, <1>9
  <2>5. k \in OnPage(q, place, last)
    BY <1>4, <2>1, <2>2, <2>3, <2>4
  <2> QED
    BY <1>6, <2>4, <2>5
<1>10. pages[last + 1] = {}
  <2> DEFINE next == last + 1
  <2>1. next \in Nat /\ next \in 1..last + 1 /\ next - 1 = last
    BY <1>2
  <2> HIDE DEF next
  <2>2. ASSUME NEW k \in S, k \in OnPage(q, place, next)
        PROVE  FALSE
    <3>1. (next - 1) * size <= place[k]
      BY <1>4, <2>1, <2>2
    <3>2. place[k] \in Nat /\ place[k] < total
      BY <1>1, <1>3
    <3>3. last * size \in Nat /\ last * size <= place[k]
      BY <1>1, <1>2, <2>1, <3>1
    <3> QED
      BY <1>1, <1>2, <3>2, <3>3
  <2>3. pages[next] = {}
    BY <1>5, <1>6, <2>1, <2>2
  <2> QED
    BY <2>3 DEF next
<1>11. DOMAIN place = S
  BY <1>3
<1>12. /\ \A k \in DOMAIN place : Cardinality({n \in 1..last : k \in pages[n]}) = 1
       /\ \A n \in 1..last - 1 : Cardinality(pages[n]) = size
       /\ last > 0 => pages[last] # {}
       /\ pages[last + 1] = {}
  BY <1>7, <1>8, <1>9, <1>10, <1>11
<1> QED
  BY <1>12 DEF size, last, place, pages

\* JE-003: whatever syncs have left in the table, however many jobs tie in what they are
\* sorted by, and whatever the size of a page: a stored search selects by amount what it
\* should, and its pages are that selection, each job once.
THEOREM StoredSearchIsAlwaysExact == Spec => []StoredSearchIsExact
<1>1. TypeInv => StoredSearchIsExact
  BY BoundsSelect, PagesAreExact DEF StoredSearchIsExact, PagingIsExact
<1> QED
  BY <1>1, SyncsTypeCorrect, PTL
=============================================================================
