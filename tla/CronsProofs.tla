---------------------------- MODULE CronsProofs ----------------------------
(***************************************************************************)
(* A job's lock is neither shared nor leaked, and no work loses its pool      *)
(* early: for any number of instances, jobs and keys, whichever jobs share     *)
(* one.  All it takes is that `None` is not the name of a run.                 *)
(*                                                                         *)
(* Then the notices the hourly job claims and queues: a marker stands for a    *)
(* notice, and a notice goes out once, whatever kinds, reports, attempts and    *)
(* days there are.  And the status page, which shows what the hourly canary     *)
(* found, for any hour and any time it keeps its result.                       *)
(***************************************************************************)
EXTENDS Crons, Integers, TLAPS

\* A lock is held by the run that works under it, on an open pool.
Holds(k, i, j) ==
  /\ holder[k] = <<i, j>> /\ Key[j] = k
  /\ run[i][j] \in {"works", "ends"} /\ phase[i] \notin {"closed", "off"}

HolderWorks == \A k \in Keys : holder[k] # None => \E i \in Instance, j \in Job : Holds(k, i, j)

\* A run that works or ends under a key holds the lock, unless its pool is closed.
WorkerHolds ==
  \A i \in Instance, j \in Job :
    (Key[j] # None /\ run[i][j] \in {"works", "ends"} /\ phase[i] # "closed") => holder[Key[j]] = <<i, j>>

\* Nothing runs on an instance that is off, and a shutdown has waited for what still runs.
Drained ==
  \A i \in Instance :
    /\ phase[i] = "off" => i \notin requests \cup mailing
    /\ phase[i] = "off" => \A j \in Job : run[i][j] = "idle"
    /\ phase[i] = "closed" => i \notin requests \cup mailing
    /\ phase[i] = "stopping" => i \notin requests
    /\ phase[i] \in {"stopping", "closed"} => i \in late \/ \A j \in Job : run[i][j] = "idle"

Guarded == TypeOK /\ HolderWorks /\ WorkerHolds /\ Drained

LEMMA NoRunMeans ==
  ASSUME TypeOK, NEW i \in Instance
  PROVE  run[i] = NoRun <=> \A j \in Job : run[i][j] = "idle"
  BY DEF TypeOK, NoRun

LEMMA KeyIn == \A j \in Job : Key[j] # None => Key[j] \in Keys
  BY DEF Keys

LEMMA GuardedInit == Init => Guarded
  BY DEF Init, Guarded, TypeOK, HolderWorks, WorkerHolds, Drained, NoRun

\* A step of one run, beside which nothing but its own lock changes.
LEMMA RunStep ==
  ASSUME None \notin Instance \X Job, Guarded,
         NEW i \in Instance, NEW j \in Job, NEW s \in {"idle", "starts", "works", "unpinned", "ends"},
         At(i, j, s), UNCHANGED <<phase, requests, mailing, late>>,
         run[i][j] # "idle" \/ phase[i] = "up",
         \/ /\ UNCHANGED holder
            /\ Key[j] = None \/ (run[i][j] \in {"works", "ends"} <=> s \in {"works", "ends"})
         \/ /\ s \in {"idle", "unpinned"} /\ Drop({<<i, j>>})
         \/ /\ Key[j] # None /\ s = "works" /\ phase[i] \notin {"closed", "off"}
            /\ holder[Key[j]] = None /\ holder' = [holder EXCEPT ![Key[j]] = <<i, j>>]
  PROVE  Guarded'
<1>0. TypeOK /\ <<i, j>> \in Instance \X Job
  BY DEF Guarded
<1>1. /\ \A h \in Instance, l \in Job : run'[h][l] = IF h = i /\ l = j THEN s ELSE run[h][l]
      /\ run' \in [Instance -> [Job -> {"idle", "starts", "works", "unpinned", "ends"}]]
  BY <1>0 DEF At, TypeOK
<1>2. holder' \in [Keys -> (Instance \X Job) \cup {None}]
  BY <1>0, KeyIn DEF Drop, TypeOK
<1>3. TypeOK'
  BY <1>0, <1>1, <1>2 DEF TypeOK
<1>4. Drained'
  BY <1>1 DEF Drained, Guarded
<1>5. phase[i] # "off" \/ run[i][j] = "idle"
  BY DEF Guarded, Drained
<1>6. HolderWorks' /\ WorkerHolds'
  <2>1. CASE UNCHANGED holder /\ Key[j] = None
    BY <1>0, <1>1, <2>1 DEF Guarded, HolderWorks, WorkerHolds, Holds, Keys
  <2>2. CASE UNCHANGED holder /\ (run[i][j] \in {"works", "ends"} <=> s \in {"works", "ends"})
    BY <1>0, <1>1, <2>2 DEF Guarded, HolderWorks, WorkerHolds, Holds
  <2>3. CASE s \in {"idle", "unpinned"} /\ Drop({<<i, j>>})
    <3>1. \A k \in Keys : holder'[k] = IF holder[k] = <<i, j>> THEN None ELSE holder[k]
      BY <2>3 DEF Drop
    <3>2. HolderWorks'
      <4> SUFFICES ASSUME NEW k \in Keys, holder'[k] # None
                   PROVE  \E h \in Instance, l \in Job : Holds(k, h, l)'
        BY DEF HolderWorks
      <4>1. PICK h \in Instance, l \in Job : Holds(k, h, l)
        BY <3>1 DEF Guarded, HolderWorks
      <4>2. ~(h = i /\ l = j) /\ holder'[k] = holder[k]
        BY <3>1, <4>1 DEF Holds
      <4> QED BY <1>1, <4>1, <4>2 DEF Holds
    <3>3. WorkerHolds'
      <4> SUFFICES ASSUME NEW h \in Instance, NEW l \in Job, Key[l] # None,
                          run'[h][l] \in {"works", "ends"}, phase[h] # "closed"
                   PROVE  holder'[Key[l]] = <<h, l>>
        BY DEF WorkerHolds
      <4>1. ~(h = i /\ l = j) /\ run[h][l] \in {"works", "ends"}
        BY <1>1, <2>3
      <4>2. holder[Key[l]] = <<h, l>>
        BY <4>1 DEF Guarded, WorkerHolds
      <4> QED BY <3>1, <4>1, <4>2, KeyIn
    <3> QED BY <3>2, <3>3
  <2>4. CASE /\ Key[j] # None /\ s = "works" /\ phase[i] \notin {"closed", "off"}
             /\ holder[Key[j]] = None /\ holder' = [holder EXCEPT ![Key[j]] = <<i, j>>]
    <3>1. \A k \in Keys : holder'[k] = IF k = Key[j] THEN <<i, j>> ELSE holder[k]
      BY <1>0, <2>4 DEF TypeOK
    <3>2. \A h \in Instance, l \in Job : <<h, l>> # None
      OBVIOUS
    <3>3. HolderWorks'
      <4> SUFFICES ASSUME NEW k \in Keys, holder'[k] # None
                   PROVE  \E h \in Instance, l \in Job : Holds(k, h, l)'
        BY DEF HolderWorks
      <4>1. CASE k = Key[j]
        BY <1>1, <2>4, <3>1, <4>1 DEF Holds
      <4>2. CASE k # Key[j]
        <5>1. PICK h \in Instance, l \in Job : Holds(k, h, l)
          BY <3>1, <4>2 DEF Guarded, HolderWorks
        <5> QED BY <1>1, <3>1, <4>2, <5>1 DEF Holds
      <4> QED BY <4>1, <4>2
    <3>4. WorkerHolds'
      <4> SUFFICES ASSUME NEW h \in Instance, NEW l \in Job, Key[l] # None,
                          run'[h][l] \in {"works", "ends"}, phase[h] # "closed"
                   PROVE  holder'[Key[l]] = <<h, l>>
        BY DEF WorkerHolds
      <4>1. CASE h = i /\ l = j
        BY <2>4, <3>1, <4>1, KeyIn
      <4>2. CASE ~(h = i /\ l = j)
        <5>1. holder[Key[l]] = <<h, l>>
          BY <1>1, <4>2 DEF Guarded, WorkerHolds
        <5>2. Key[l] # Key[j]
          BY <2>4, <3>2, <5>1
        <5> QED BY <3>1, <5>1, <5>2, KeyIn
      <4> QED BY <4>1, <4>2
    <3> QED BY <3>3, <3>4
  <2> QED BY <2>1, <2>2, <2>3, <2>4
<1> QED BY <1>3, <1>4, <1>6 DEF Guarded

\* An instance whose pool closes, or that goes, drops the locks of its runs.
LEMMA DropStep ==
  ASSUME Guarded, TypeOK', NEW i \in Instance, Drop(RunsOf(i)), phase'[i] \in {"closed", "off"},
         \A h \in Instance \ {i} : phase'[h] = phase[h] /\ run'[h] = run[h],
         phase'[i] = "off" => \A j \in Job : run'[i][j] = "idle"
  PROVE  HolderWorks' /\ WorkerHolds'
<1>1. \A k \in Keys : holder'[k] = IF holder[k] \in RunsOf(i) THEN None ELSE holder[k]
  BY DEF Drop
<1>2. HolderWorks'
  <2> SUFFICES ASSUME NEW k \in Keys, holder'[k] # None
               PROVE  \E h \in Instance, l \in Job : Holds(k, h, l)'
    BY DEF HolderWorks
  <2>1. PICK h \in Instance, l \in Job : Holds(k, h, l)
    BY <1>1 DEF Guarded, HolderWorks
  <2>2. holder[k] \notin RunsOf(i) /\ holder'[k] = holder[k]
    BY <1>1
  <2>3. h # i
    BY <2>1, <2>2 DEF Holds, RunsOf
  <2> QED BY <2>1, <2>2, <2>3 DEF Holds
<1>3. WorkerHolds'
  <2> SUFFICES ASSUME NEW h \in Instance, NEW l \in Job, Key[l] # None,
                      run'[h][l] \in {"works", "ends"}, phase'[h] # "closed"
               PROVE  holder'[Key[l]] = <<h, l>>
    BY DEF WorkerHolds
  <2>1. h # i
    OBVIOUS
  <2>2. holder[Key[l]] = <<h, l>>
    BY <2>1 DEF Guarded, WorkerHolds
  <2>3. <<h, l>> \notin RunsOf(i)
    BY <2>1 DEF RunsOf
  <2> QED BY <1>1, <2>2, <2>3, KeyIn
<1> QED BY <1>2, <1>3

LEMMA GuardedStep ==
  ASSUME None \notin Instance \X Job, Guarded, [Next]_vars
  PROVE  Guarded'
<1>0. TypeOK
  BY DEF Guarded
<1>1. ASSUME NEW i \in Instance, NEW j \in Job,
             \/ Fire(i, j) \/ Begin(i, j) \/ Work(i, j) \/ Unlock(i, j)
             \/ UnpinnedEnds(i, j) \/ ConnectionDies(i, j)
      PROVE  Guarded'
  <2>1. CASE Fire(i, j)
    BY <2>1, RunStep DEF Fire
  <2>2. CASE Begin(i, j)
    <3>1. phase[i] \notin {"closed", "off"}
      BY <2>2 DEF Begin, Guarded, Drained
    <3> QED BY <2>2, <3>1, RunStep DEF Begin, TrySessionLock
  <2>3. CASE Work(i, j)
    BY <2>3, RunStep DEF Work
  <2>4. CASE Unlock(i, j)
    BY <2>4, RunStep DEF Unlock
  <2>5. CASE UnpinnedEnds(i, j)
    BY <2>5, RunStep DEF UnpinnedEnds
  <2>6. CASE ConnectionDies(i, j)
    BY <2>6, RunStep DEF ConnectionDies
  <2> QED BY <1>1, <2>1, <2>2, <2>3, <2>4, <2>5, <2>6
<1>2. ASSUME NEW i \in Instance, Accept(i) \/ Respond(i) \/ TakeMail(i) \/ MailDone(i) \/ DrainTimesOut(i)
      PROVE  Guarded'
  <2>1. UNCHANGED <<phase, run, holder>> /\ TypeOK'
    BY <1>0, <1>2 DEF Accept, Respond, TakeMail, MailDone, DrainTimesOut, TypeOK
  <2>2. Drained'
    BY <1>2 DEF Accept, Respond, TakeMail, MailDone, DrainTimesOut, Guarded, Drained
  <2> QED BY <2>1, <2>2 DEF Guarded, HolderWorks, WorkerHolds, Holds
<1>3. ASSUME NEW i \in Instance, Signal(i) \/ StopWorker(i) \/ Restart(i) PROVE Guarded'
  <2>1. /\ UNCHANGED <<run, holder, requests, mailing, late>>
        /\ \E s \in {"up", "draining", "stopping"} : phase' = [phase EXCEPT ![i] = s]
        /\ phase[i] # "closed"
    BY <1>3 DEF Signal, StopWorker, Restart
  <2>2. TypeOK'
    BY <1>0, <2>1 DEF TypeOK
  <2>3. Drained'
    BY <1>0, <1>3, NoRunMeans DEF Signal, StopWorker, Restart, Guarded, Drained, TypeOK
  <2>4. \A h \in Instance : /\ phase[h] \notin {"closed", "off"} => phase'[h] \notin {"closed", "off"}
                            /\ phase'[h] # "closed" => phase[h] # "closed"
    BY <1>0, <2>1 DEF TypeOK
  <2>5. HolderWorks'
    BY <2>1, <2>4 DEF Guarded, HolderWorks, Holds
  <2>6. WorkerHolds'
    BY <2>1, <2>4 DEF Guarded, WorkerHolds
  <2> QED BY <2>2, <2>3, <2>5, <2>6 DEF Guarded
<1>4. ASSUME NEW i \in Instance, ClosePool(i) \/ Exit(i) PROVE Guarded'
  <2>1. TypeOK'
    <3>1. /\ phase' \in [Instance -> {"up", "draining", "stopping", "closed", "off"}]
          /\ requests' \subseteq Instance /\ mailing' \subseteq Instance /\ late' \subseteq Instance
      BY <1>0, <1>4 DEF ClosePool, Exit, TypeOK
    <3>2. NoRun \in [Job -> {"idle", "starts", "works", "unpinned", "ends"}]
      BY DEF NoRun
    <3>3. run' \in [Instance -> [Job -> {"idle", "starts", "works", "unpinned", "ends"}]]
      BY <1>0, <1>4, <3>2 DEF ClosePool, Exit, TypeOK
    <3>4. holder' \in [Keys -> (Instance \X Job) \cup {None}]
      BY <1>0, <1>4 DEF ClosePool, Exit, Drop, TypeOK
    <3> QED BY <3>1, <3>3, <3>4 DEF TypeOK
  <2>2. Drained'
    BY <1>0, <1>4 DEF ClosePool, Exit, NoRun, Guarded, Drained, TypeOK
  <2>3. /\ Drop(RunsOf(i)) /\ phase'[i] \in {"closed", "off"}
        /\ \A h \in Instance \ {i} : phase'[h] = phase[h] /\ run'[h] = run[h]
        /\ phase'[i] = "off" => \A j \in Job : run'[i][j] = "idle"
    BY <1>0, <1>4 DEF ClosePool, Exit, NoRun, TypeOK
  <2> QED BY <2>1, <2>2, <2>3, DropStep DEF Guarded
<1>5. CASE UNCHANGED vars
  BY <1>5 DEF vars, Guarded, TypeOK, HolderWorks, WorkerHolds, Holds, Drained
<1> QED BY <1>1, <1>2, <1>3, <1>4, <1>5 DEF Next

LEMMA CronsInvariant == ASSUME None \notin Instance \X Job PROVE Spec => []Guarded
  BY GuardedInit, GuardedStep, PTL DEF Spec

\* Instances, runs and locks keep their types.
THEOREM TypeCorrect == ASSUME None \notin Instance \X Job PROVE Spec => []TypeOK
  BY CronsInvariant, PTL DEF Guarded

LEMMA GuardedIsOneRun == ASSUME None \notin Instance \X Job PROVE Guarded => OneRun
<1> SUFFICES ASSUME Guarded PROVE OneRun
  OBVIOUS
<1>1. \A k \in Keys : holder[k] # None =>
        \E i \in Instance, j \in Job : /\ holder[k] = <<i, j>> /\ run[i][j] \in {"works", "ends"}
                                       /\ phase[i] \notin {"closed", "off"}
  BY DEF Guarded, HolderWorks, Holds
<1>2. ASSUME NEW i \in Instance, NEW h \in Instance, NEW j \in Job, NEW l \in Job,
             Key[j] = Key[l], Key[j] # None, run[i][j] = "works", run[h][l] = "works",
             phase[i] # "closed", phase[h] # "closed"
      PROVE  i = h /\ j = l
  <2>1. holder[Key[j]] = <<i, j>> /\ holder[Key[l]] = <<h, l>>
    BY <1>2 DEF Guarded, WorkerHolds
  <2> QED BY <1>2, <2>1
<1>3. ASSUME NEW i \in Instance, phase[i] = "closed"
      PROVE  i \notin requests \cup mailing /\ (run[i] # NoRun => i \in late)
  BY <1>3, NoRunMeans DEF Guarded, Drained
<1> QED BY <1>1, <1>2, <1>3 DEF OneRun

\* A lock is held by a run that is under way, two runs work under one key only when a
\* connection died, and the pool is closed under no request or e-mail, and under a job
\* only when the wait for it timed out (purgeExpiredCompanyData, shutdown).
THEOREM OneRunAtATime == ASSUME None \notin Instance \X Job PROVE Spec => []OneRun
  BY CronsInvariant, GuardedIsOneRun, PTL

-----------------------------------------------------------------------------
(* The notices of the hourly job *)

CONSTANTS Kind, Report, Attempts, MaxDay, MaxUnclear

VARIABLES day, deadline, owner, marker, claimed, job, handback, sent, lost, unclear

N == INSTANCE Notices

\* The queue tries at least once, and there is a day.
Bounds == Attempts \in Nat \ {0} /\ MaxDay \in Nat \ {0}

\* Who is left to send a notice, or has.
Standing(n) ==
  sent[n] > 0 \/ n \in claimed \/ N!Queued(n) \/ handback[n] = "release" \/ n \in lost

\* A marker stands for a notice, whatever the deadline is by now; a failed job is the
\* only one that is handed back, and one that is to be tried has attempts left.
Announced ==
  /\ N!TypeOK
  /\ \A n \in N!Notice : marker[n[1]] = n[2] => Standing(n)
  /\ \A m \in N!Mail : job[m].state = "done" => sent[m] > 0
  /\ \A m \in N!Mail : job[m].state \in {"none", "queued"} => job[m].tries < Attempts
  /\ \A m \in N!Mail : handback[m] # "none" => job[m].state = "failed"

JobRow == [state : {"none", "queued", "failed", "done"}, tries : 0 .. Attempts, stalled : BOOLEAN]

LEMMA NoJobType == ASSUME Bounds PROVE N!NoJob \in JobRow /\ N!NoJob.state = "none" /\ N!NoJob.tries = 0
  BY DEF N!NoJob, JobRow, Bounds

LEMMA AnnouncedInit == ASSUME Bounds PROVE N!Init => Announced
<1> SUFFICES ASSUME N!Init PROVE Announced
  OBVIOUS
<1>1. N!TypeOK
  BY NoJobType DEF N!Init, N!TypeOK, JobRow, Bounds, N!Day, N!Mail, N!Notice, N!Clock
<1>2. \A m \in N!Mail : job[m].state = "none" /\ job[m].tries = 0 /\ handback[m] = "none"
  BY NoJobType DEF N!Init
<1>3. \A n \in N!Notice : n[1] \in Kind /\ n[2] # 0
  BY DEF N!Notice, N!Day
<1> QED BY <1>1, <1>2, <1>3 DEF Announced, N!Init, Bounds, N!Mail

\* queue.add: a job that is there stays as it is.
LEMMA AddStep ==
  ASSUME Bounds, N!TypeOK, NEW m \in N!Mail, N!Add(m)
  PROVE  /\ job' \in [N!Mail -> JobRow]
         /\ \A l \in N!Mail \ {m} : job'[l] = job[l]
         /\ job[m].state = "none" => job'[m].state = "queued" /\ job'[m].tries = job[m].tries
         /\ job[m].state # "none" => job'[m] = job[m]
<1>1. job \in [N!Mail -> JobRow] /\ job[m] \in JobRow
  BY DEF N!TypeOK, JobRow
<1>2. [job[m] EXCEPT !.state = "queued"] \in JobRow
  BY <1>1 DEF JobRow
<1> QED BY <1>1, <1>2 DEF N!Add, JobRow

\* An attempt that fails is repeated, or the notice is handed back or given up.
LEMMA FailedStep ==
  ASSUME Bounds, Announced, NEW m \in N!Mail, N!Queued(m), N!Failed(m) \/ N!Stalled(m)
  PROVE  /\ job' \in [N!Mail -> JobRow]
         /\ \A l \in N!Mail \ {m} : job'[l] = job[l] /\ handback'[l] = handback[l]
         /\ handback' \in [N!Mail -> {"none", "release", "remove"}]
         /\ lost \subseteq lost' /\ lost' \subseteq N!Notice
         /\ \/ job'[m].state = "queued" /\ job'[m].tries < Attempts /\ handback'[m] = handback[m]
            \/ job'[m].state = "failed" /\ (m \in N!Notice => handback'[m] = "release" \/ m \in lost')
<1>1. /\ job \in [N!Mail -> JobRow] /\ job[m] \in JobRow /\ lost \subseteq N!Notice
      /\ handback \in [N!Mail -> {"none", "release", "remove"}]
  BY DEF Announced, N!TypeOK, JobRow
<1>2. /\ job[m].tries \in 0 .. Attempts /\ job[m].tries < Attempts
      /\ job[m].tries + 1 \in 0 .. Attempts /\ Attempts \in Nat
  BY <1>1 DEF Announced, N!Queued, JobRow, Bounds
<1>3. ASSUME NEW st \in {"queued", "failed"}, NEW t \in 0 .. Attempts,
             job' = [job EXCEPT ![m].state = st, ![m].tries = t]
      PROVE  /\ job' \in [N!Mail -> JobRow] /\ job'[m].state = st /\ job'[m].tries = t
             /\ \A l \in N!Mail \ {m} : job'[l] = job[l]
  BY <1>1, <1>3 DEF JobRow
<1>4. ASSUME NEW t \in 0 .. Attempts, N!Listener(m, t)
      PROVE  /\ handback' \in [N!Mail -> {"none", "release", "remove"}]
             /\ \A l \in N!Mail \ {m} : handback'[l] = handback[l]
             /\ N!Exhausted(t) /\ m \in N!Notice => handback'[m] = "release"
             /\ ~N!Exhausted(t) => handback'[m] = handback[m]
  BY <1>1, <1>4 DEF N!Listener
<1>5. CASE N!Failed(m)
  <2>1. PICK t \in 0 .. Attempts : t = job[m].tries + 1
    BY <1>2
  <2>2. PICK st : st = IF N!Retried(t) THEN "queued" ELSE "failed"
    OBVIOUS
  <2>3. /\ job' = [job EXCEPT ![m].state = st, ![m].tries = t] /\ N!Listener(m, t) /\ UNCHANGED lost
        /\ st \in {"queued", "failed"}
    BY <1>5, <2>1, <2>2 DEF N!Failed
  <2>4. \/ st = "queued" /\ t < Attempts /\ ~N!Exhausted(t)
        \/ st = "failed" /\ N!Exhausted(t)
    BY <1>2, <2>2 DEF N!Retried, N!Exhausted
  <2> QED BY <1>1, <1>3, <1>4, <2>3, <2>4
<1>6. CASE N!Stalled(m)
  <2>1. CASE job' = [job EXCEPT ![m].stalled = TRUE] /\ UNCHANGED <<handback, lost>>
    <3>1. [job[m] EXCEPT !.stalled = TRUE] \in JobRow
      BY <1>1 DEF JobRow
    <3>2. /\ job' \in [N!Mail -> JobRow] /\ job'[m].state = job[m].state /\ job'[m].tries = job[m].tries
          /\ \A l \in N!Mail \ {m} : job'[l] = job[l]
      BY <1>1, <2>1, <3>1 DEF JobRow
    <3> QED BY <1>1, <1>2, <2>1, <3>2 DEF N!Queued
  <2>2. ASSUME NEW t \in {job[m].tries, job[m].tries + 1},
               job' = [job EXCEPT ![m].state = "failed", ![m].tries = t], N!Listener(m, t),
               lost' = IF m \in N!Notice /\ ~N!Exhausted(t) THEN lost \cup {m} ELSE lost
        PROVE  /\ job' \in [N!Mail -> JobRow] /\ job'[m].state = "failed"
               /\ \A l \in N!Mail \ {m} : job'[l] = job[l] /\ handback'[l] = handback[l]
               /\ handback' \in [N!Mail -> {"none", "release", "remove"}]
               /\ lost \subseteq lost' /\ lost' \subseteq N!Notice
               /\ m \in N!Notice => handback'[m] = "release" \/ m \in lost'
    <3>1. t \in 0 .. Attempts
      BY <1>2
    <3> QED BY <1>1, <1>3, <1>4, <2>2, <3>1
  <2>3. (job' = [job EXCEPT ![m].stalled = TRUE] /\ UNCHANGED <<handback, lost>>)
        \/ \E t \in {job[m].tries, job[m].tries + 1} :
              /\ job' = [job EXCEPT ![m].state = "failed", ![m].tries = t] /\ N!Listener(m, t)
              /\ lost' = IF m \in N!Notice /\ ~N!Exhausted(t) THEN lost \cup {m} ELSE lost
    BY <1>6 DEF N!Stalled
  <2> QED BY <2>1, <2>2, <2>3
<1> QED BY <1>5, <1>6

\* Notices stand as before, or a marker is cleared: with jobs that change for one mail.
LEMMA AnnouncedFrame ==
  ASSUME Announced, N!TypeOK', NEW m \in N!Mail,
         \A n \in N!Notice : marker'[n[1]] = n[2] => marker[n[1]] = n[2] \/ n \in claimed',
         \A n \in N!Notice : marker'[n[1]] = n[2] /\ Standing(n) => Standing(n)',
         \A l \in N!Mail \ {m} : job'[l] = job[l],
         \A l \in N!Mail \ {m} : handback'[l] \in {handback[l], "none"},
         \A l \in N!Mail : sent[l] > 0 => sent'[l] > 0,
         job'[m].state = "done" => sent'[m] > 0,
         job'[m].state \in {"none", "queued"} => job'[m].tries < Attempts,
         handback'[m] # "none" => job'[m].state = "failed"
  PROVE  Announced'
<1>2. \A n \in N!Notice : marker'[n[1]] = n[2] => Standing(n)'
  BY DEF Announced, Standing
<1>3. \A l \in N!Mail : job'[l].state = "done" => sent'[l] > 0
  BY DEF Announced
<1>4. \A l \in N!Mail : job'[l].state \in {"none", "queued"} => job'[l].tries < Attempts
  BY DEF Announced
<1>5. \A l \in N!Mail : handback'[l] # "none" => job'[l].state = "failed"
  BY DEF Announced
<1> QED BY <1>2, <1>3, <1>4, <1>5 DEF Announced

LEMMA NoticeParts ==
  /\ \A n \in N!Notice : n \in N!Mail /\ n[1] \in Kind /\ n[2] \in N!Day /\ n = <<n[1], n[2]>>
  /\ \A k \in Kind, d \in N!Day : <<k, d>> \in N!Notice
  /\ \A r \in Report : r \in N!Mail
  BY DEF N!Notice, N!Mail

LEMMA ReleaseType ==
  ASSUME N!TypeOK, NEW n \in N!Notice, marker' = N!ReleaseClaim(n[1])
  PROVE  /\ marker' \in [Kind -> N!Day \cup {0}]
         /\ \A l \in N!Notice : marker'[l[1]] = l[2] => marker[l[1]] = l[2]
         /\ marker'[n[1]] = 0
  BY NoticeParts DEF N!TypeOK, N!ReleaseClaim, N!Day

LEMMA AnnouncedStep ==
  ASSUME Bounds, Announced, N!Next
  PROVE  Announced'
<1>0. N!TypeOK
  BY DEF Announced
<1>1. ASSUME NEW k \in Kind, N!Claim(k) PROVE Announced'
  <2>1. PICK d : d = deadline[N!clock(k)]
    OBVIOUS
  <2>2. d \in N!Day /\ <<k, d>> \in N!Notice
    BY <1>0, <1>1, <2>1, NoticeParts DEF N!Claim, N!Due, N!TypeOK, N!Clock, N!clock
  <2>3. marker' = [marker EXCEPT ![k] = d] /\ claimed' = claimed \cup {<<k, d>>}
    BY <1>1, <2>1 DEF N!Claim
  <2>4. N!TypeOK'
    BY <1>0, <1>1, <2>2, <2>3 DEF N!Claim, N!TypeOK
  <2>5. \A n \in N!Notice : marker'[n[1]] = n[2] => marker[n[1]] = n[2] \/ n \in claimed'
    BY <1>0, <2>3, NoticeParts DEF N!TypeOK
  <2>6. \A n \in N!Notice : Standing(n) => Standing(n)'
    BY <1>1, <2>3 DEF N!Claim, Standing, N!Queued
  <2> QED BY <1>1, <2>2, <2>4, <2>5, <2>6, AnnouncedFrame, NoticeParts DEF N!Claim, Announced
<1>2. ASSUME NEW n \in N!Notice, N!Enqueue(n) PROVE Announced'
  <2>1. n \in N!Mail /\ N!Add(n)
    BY <1>2, NoticeParts DEF N!Enqueue
  <2>2. N!TypeOK'
    BY <1>0, <1>2, <2>1, AddStep DEF N!Enqueue, N!TypeOK, JobRow
  <2>3. \A l \in N!Notice : Standing(l) => Standing(l)'
    BY <1>0, <1>2, <2>1, AddStep, NoticeParts DEF N!Enqueue, Standing, N!Queued, Announced, N!TypeOK
  <2> QED BY <1>2, <2>1, <2>2, <2>3, AddStep, AnnouncedFrame DEF N!Enqueue, Announced
<1>3. ASSUME NEW n \in N!Notice, N!EnqueueFails(n) PROVE Announced'
  <2>1. n \in N!Mail /\ (N!Add(n) \/ UNCHANGED job)
    BY <1>3, NoticeParts DEF N!EnqueueFails
  <2>2. marker' = N!ReleaseClaim(n[1]) \/ UNCHANGED marker
    BY <1>3 DEF N!EnqueueFails
  <2>3. N!TypeOK'
    <3>1. job' \in [N!Mail -> JobRow]
      BY <1>0, <2>1, AddStep DEF N!TypeOK, JobRow
    <3>2. marker \in [Kind -> N!Day \cup {0}]
      BY <1>0 DEF N!TypeOK
    <3>3. marker' \in [Kind -> N!Day \cup {0}]
      BY <1>0, <2>2, <3>2, ReleaseType
    <3>4. claimed' \subseteq N!Notice /\ lost' \subseteq N!Notice
      BY <1>0, <1>3, <2>1 DEF N!EnqueueFails, N!TypeOK
    <3>5. UNCHANGED <<day, deadline, owner, handback, sent, unclear>>
      BY <1>3 DEF N!EnqueueFails
    <3> QED BY <1>0, <3>1, <3>3, <3>4, <3>5 DEF N!TypeOK, JobRow
  <2>4. \A l \in N!Notice : marker'[l[1]] = l[2] => marker[l[1]] = l[2]
    BY <1>0, <2>2, ReleaseType
  <2>5. /\ \A l \in N!Mail \ {n} : job'[l] = job[l]
        /\ \/ job'[n] = job[n]
           \/ job'[n].state = "queued" /\ job'[n].tries = job[n].tries /\ job[n].state = "none"
    <3>1. CASE N!Add(n)
      BY <1>0, <2>1, <3>1, AddStep
    <3>2. CASE UNCHANGED job
      BY <3>2
    <3> QED BY <2>1, <3>1, <3>2
  <2>6. \A l \in N!Notice : marker'[l[1]] = l[2] /\ Standing(l) => Standing(l)'
    <3> SUFFICES ASSUME NEW l \in N!Notice, marker'[l[1]] = l[2], Standing(l) PROVE Standing(l)'
      OBVIOUS
    <3>1. CASE l = n
      <4>1. n[2] # 0
        BY NoticeParts DEF N!Day
      <4>2. lost' = lost \cup {n}
        BY <1>0, <1>3, <3>1, <4>1, ReleaseType DEF N!EnqueueFails
      <4> QED BY <3>1, <4>2 DEF Standing
    <3>2. CASE l # n
      <4>1. job'[l] = job[l]
        BY <2>5, <3>2, NoticeParts
      <4>2. UNCHANGED <<sent, handback>> /\ claimed' = claimed \ {n} /\ lost \subseteq lost'
        BY <1>3 DEF N!EnqueueFails
      <4> QED BY <3>2, <4>1, <4>2 DEF Standing, N!Queued
    <3> QED BY <3>1, <3>2
  <2>7. UNCHANGED <<sent, handback>>
    BY <1>3 DEF N!EnqueueFails
  <2>8. /\ job'[n].state = "done" => sent'[n] > 0
        /\ job'[n].state \in {"none", "queued"} => job'[n].tries < Attempts
        /\ handback'[n] # "none" => job'[n].state = "failed"
    BY <2>1, <2>5, <2>7 DEF Announced
  <2> QED BY <2>1, <2>3, <2>4, <2>5, <2>6, <2>7, <2>8, AnnouncedFrame
<1>4. ASSUME NEW r \in Report, N!Reported(r) PROVE Announced'
  <2>1. r \in N!Mail /\ N!Add(r)
    BY <1>4, NoticeParts DEF N!Reported
  <2>2. N!TypeOK'
    BY <1>0, <1>4, <2>1, AddStep DEF N!Reported, N!TypeOK, JobRow
  <2>3. \A l \in N!Notice : Standing(l) => Standing(l)'
    BY <1>0, <1>4, <2>1, AddStep, NoticeParts DEF N!Reported, Standing, N!Queued
  <2> QED BY <1>4, <2>1, <2>2, <2>3, AddStep, AnnouncedFrame DEF N!Reported, Announced
<1>5. ASSUME NEW m \in N!Mail, N!Send(m) PROVE Announced'
  <2>1. job[m] \in JobRow /\ [job[m] EXCEPT !.state = "done"] \in JobRow /\ sent[m] \in Nat
    BY <1>0 DEF N!TypeOK, JobRow
  <2>2. /\ job' \in [N!Mail -> JobRow] /\ job'[m].state = "done"
        /\ \A l \in N!Mail \ {m} : job'[l] = job[l]
    BY <1>0, <1>5, <2>1 DEF N!Send, N!TypeOK, JobRow
  <2>3. sent' \in [N!Mail -> Nat] /\ sent'[m] > 0 /\ \A l \in N!Mail : sent[l] > 0 => sent'[l] > 0
    BY <1>0, <1>5, <2>1 DEF N!Send, N!TypeOK
  <2>4. N!TypeOK'
    BY <1>0, <1>5, <2>2, <2>3 DEF N!Send, N!TypeOK, JobRow
  <2>5. \A l \in N!Notice : Standing(l) => Standing(l)'
    BY <1>5, <2>2, <2>3, NoticeParts DEF N!Send, Standing, N!Queued
  <2>6. UNCHANGED <<handback, marker>>
    BY <1>5 DEF N!Send
  <2>7. job'[m].state = "done" /\ handback'[m] = "none"
    BY <1>5, <2>2 DEF N!Send, N!Queued, Announced
  <2> QED BY <2>2, <2>3, <2>4, <2>5, <2>6, <2>7, AnnouncedFrame
<1>6. ASSUME NEW m \in N!Mail, N!Attempt(m) PROVE Announced'
  <2>1. /\ N!Queued(m) /\ (N!Failed(m) \/ N!Stalled(m))
        /\ UNCHANGED <<day, deadline, owner, marker, claimed, sent, unclear>>
    BY <1>6 DEF N!Attempt
  <2>2. N!TypeOK'
    BY <1>0, <2>1, FailedStep DEF N!TypeOK, JobRow
  <2>3. \A l \in N!Notice : Standing(l) => Standing(l)'
    BY <2>1, FailedStep, NoticeParts DEF Standing, N!Queued
  <2>4. job'[m].state = "queued" => handback'[m] = "none"
    BY <2>1, FailedStep DEF Announced, N!Queued
  <2> QED BY <2>1, <2>2, <2>3, <2>4, FailedStep, AnnouncedFrame
<1>7. ASSUME NEW m \in N!Mail, N!Unclear(m) PROVE Announced'
  <2>1. /\ N!Queued(m) /\ (N!Failed(m) \/ N!Stalled(m))
        /\ sent' = [sent EXCEPT ![m] = @ + 1] /\ unclear' = [unclear EXCEPT ![m] = @ + 1]
        /\ UNCHANGED <<day, deadline, owner, marker, claimed>>
    BY <1>7 DEF N!Unclear
  <2>2. sent' \in [N!Mail -> Nat] /\ sent'[m] > 0 /\ \A l \in N!Mail \ {m} : sent'[l] = sent[l]
    BY <1>0, <2>1 DEF N!TypeOK
  <2>3. /\ job' \in [N!Mail -> JobRow] /\ handback' \in [N!Mail -> {"none", "release", "remove"}]
        /\ \A l \in N!Mail \ {m} : job'[l] = job[l] /\ handback'[l] = handback[l]
        /\ \/ job'[m].state = "queued" /\ job'[m].tries < Attempts /\ handback'[m] = "none"
           \/ job'[m].state = "failed" /\ (m \in N!Notice => handback'[m] = "release" \/ m \in lost')
        /\ lost \subseteq lost' /\ lost' \subseteq N!Notice
    BY <2>1, FailedStep DEF Announced, N!Queued
  <2>4. N!TypeOK'
    BY <1>0, <2>1, <2>2, <2>3 DEF N!TypeOK, JobRow
  <2>5. \A l \in N!Notice : Standing(l) => Standing(l)'
    BY <2>1, <2>2, <2>3, NoticeParts DEF Standing, N!Queued
  <2> QED BY <2>1, <2>2, <2>3, <2>4, <2>5, AnnouncedFrame
<1>8. ASSUME NEW n \in N!Notice, N!Release(n) PROVE Announced'
  <2>1. /\ handback[n] = "release" /\ n \in N!Mail
        /\ \/ marker' = N!ReleaseClaim(n[1]) /\ handback' = [handback EXCEPT ![n] = "remove"] /\ UNCHANGED lost
           \/ lost' = lost \cup {n} /\ handback' = [handback EXCEPT ![n] = "none"] /\ UNCHANGED marker
        /\ UNCHANGED <<day, deadline, owner, claimed, job, sent, unclear>>
    BY <1>8, NoticeParts DEF N!Release
  <2>2. handback \in [N!Mail -> {"none", "release", "remove"}]
    BY <1>0 DEF N!TypeOK
  <2>3. marker' \in [Kind -> N!Day \cup {0}] /\ \A l \in N!Notice : marker'[l[1]] = l[2] => marker[l[1]] = l[2]
    BY <1>0, <2>1, ReleaseType DEF N!TypeOK
  <2>4. N!TypeOK'
    BY <1>0, <2>1, <2>2, <2>3 DEF N!TypeOK
  <2>5. \A l \in N!Notice : marker'[l[1]] = l[2] /\ Standing(l) => Standing(l)'
    <3> SUFFICES ASSUME NEW l \in N!Notice, marker'[l[1]] = l[2], Standing(l) PROVE Standing(l)'
      OBVIOUS
    <3>1. CASE l = n
      <4>1. n[2] # 0
        BY NoticeParts DEF N!Day
      <4>2. lost' = lost \cup {n}
        BY <1>0, <2>1, <3>1, <4>1, ReleaseType
      <4> QED BY <3>1, <4>2 DEF Standing
    <3>2. CASE l # n
      BY <2>1, <2>2, <3>2, NoticeParts DEF Standing, N!Queued
    <3> QED BY <3>1, <3>2
  <2>6. job'[n].state = "failed" /\ \A l \in N!Mail \ {n} : handback'[l] = handback[l]
    BY <2>1, <2>2 DEF Announced
  <2> QED BY <2>1, <2>3, <2>4, <2>5, <2>6, AnnouncedFrame
<1>9. ASSUME NEW n \in N!Notice, N!Remove(n) \/ N!Forget(n) PROVE Announced'
  <2>1. /\ n \in N!Mail /\ job' = [job EXCEPT ![n] = N!NoJob]
        /\ job[n].state \in {"failed", "done"}
        /\ handback' = [handback EXCEPT ![n] = "none"]
        /\ UNCHANGED <<day, deadline, owner, marker, claimed, sent, lost, unclear>>
    <3>1. handback \in [N!Mail -> {"none", "release", "remove"}] /\ n \in N!Mail
      BY <1>0, NoticeParts DEF N!TypeOK
    <3>2. CASE N!Remove(n)
      BY <3>1, <3>2 DEF N!Remove, Announced
    <3>3. CASE N!Forget(n)
      <4>1. job[n].state = "done" /\ handback[n] = "none"
        BY <3>1, <3>3 DEF N!Forget, Announced
      <4> QED BY <3>1, <3>3, <4>1 DEF N!Forget
    <3> QED BY <1>9, <3>2, <3>3
  <2>2. job' \in [N!Mail -> JobRow] /\ job'[n] = N!NoJob /\ \A l \in N!Mail \ {n} : job'[l] = job[l]
    BY <1>0, <2>1, NoJobType DEF N!TypeOK, JobRow
  <2>3. /\ handback' \in [N!Mail -> {"none", "release", "remove"}] /\ handback'[n] = "none"
        /\ \A l \in N!Mail \ {n} : handback'[l] = handback[l]
    BY <1>0, <2>1 DEF N!TypeOK
  <2>4. N!TypeOK'
    BY <1>0, <2>1, <2>2, <2>3 DEF N!TypeOK, JobRow
  <2>5. \A l \in N!Notice : Standing(l) => Standing(l)'
    <3> SUFFICES ASSUME NEW l \in N!Notice, Standing(l) PROVE Standing(l)'
      OBVIOUS
    <3>1. CASE l # n
      BY <2>1, <2>2, <2>3, <3>1, NoticeParts DEF Standing, N!Queued
    <3>2. CASE l = n
      <4>1. sent[n] > 0 \/ job[n].state = "failed"
        BY <2>1 DEF Announced
      <4>2. job[n].state = "failed" => handback[n] = "remove"
        BY <1>9 DEF N!Remove, N!Forget
      <4> QED BY <2>1, <3>2, <4>1, <4>2 DEF Standing, N!Queued
    <3> QED BY <3>1, <3>2
  <2>6. job'[n].state = "none" /\ job'[n].tries < Attempts
    BY <2>2, NoJobType DEF Bounds
  <2> QED BY <2>1, <2>2, <2>3, <2>4, <2>5, <2>6, AnnouncedFrame
<1>10. CASE N!Crash
  <2>1. /\ lost' = lost \cup claimed \cup {n \in N!Notice : handback[n] # "none"}
        /\ claimed' = {} /\ handback' = [m \in N!Mail |-> "none"]
        /\ UNCHANGED <<day, deadline, owner, marker, job, sent, unclear>>
    BY <1>10 DEF N!Crash
  <2>2. N!TypeOK'
    BY <1>0, <2>1 DEF N!TypeOK
  <2>3. \A n \in N!Notice : Standing(n) => Standing(n)'
    BY <2>1 DEF Standing, N!Queued
  <2> QED BY <2>1, <2>2, <2>3 DEF Announced
<1>11. CASE N!Midnight \/ N!OwnerChanges
  <2>1. UNCHANGED <<marker, claimed, job, handback, sent, lost, unclear>>
    BY <1>11 DEF N!Midnight, N!OwnerChanges
  <2>2. N!TypeOK'
    BY <1>0, <1>11, <2>1 DEF N!Midnight, N!OwnerChanges, N!TypeOK, N!Day, Bounds
  <2>3. \A n \in N!Notice : Standing(n) => Standing(n)'
    BY <2>1 DEF Standing, N!Queued
  <2> QED BY <2>1, <2>2, <2>3 DEF Announced
<1>12. ASSUME NEW d \in N!Day, N!Refund(d) \/ \E c \in N!Clock : N!Extend(c, d) PROVE Announced'
  <2>1. /\ marker' = marker \/ marker' = [marker EXCEPT !["subscription_ended"] = 0]
        /\ UNCHANGED <<day, owner, claimed, job, handback, sent, lost, unclear>>
        /\ \E c \in N!Clock : deadline' = [deadline EXCEPT ![c] = d]
    BY <1>12 DEF N!Refund, N!Extend, N!Clock
  <2>2. N!TypeOK'
    BY <1>0, <2>1 DEF N!TypeOK
  <2>3. \A n \in N!Notice : marker'[n[1]] = n[2] => marker[n[1]] = n[2]
    BY <1>0, <2>1, NoticeParts DEF N!TypeOK, N!Day
  <2>4. \A n \in N!Notice : Standing(n) => Standing(n)'
    BY <2>1 DEF Standing, N!Queued
  <2> QED BY <2>1, <2>2, <2>3, <2>4 DEF Announced
<1> QED BY <1>1, <1>2, <1>3, <1>4, <1>5, <1>6, <1>7, <1>8, <1>9, <1>10, <1>11, <1>12 DEF N!Next

LEMMA AnnouncedAlways == ASSUME Bounds PROVE N!Spec => []Announced
<1>1. Announced /\ UNCHANGED N!vars => Announced'
  BY DEF N!vars, Announced, N!TypeOK, Standing, N!Queued
<1> QED BY <1>1, AnnouncedInit, AnnouncedStep, PTL DEF N!Spec

-----------------------------------------------------------------------------

\* Nobody is about to send a notice, or to take back its claim.
Quiet(n) == n \notin claimed /\ ~N!Queued(n) /\ handback[n] = "none"

\* A notice that will not be claimed again: its marker stays, or its deadline is over.
Rested(n) ==
  /\ Quiet(n)
  /\ \/ marker[n[1]] = n[2] /\ \A e \in N!Day : Quiet(<<n[1], e>>)
     \/ deadline[N!clock(n[1])] # n[2] /\ (N!clock(n[1]) = "trial" \/ n[2] <= day)

\* The days the mails on paid time look ahead.
Lead(k) == IF k = "subscription_ending" THEN 1 ELSE 0

\* Paid time is announced when it is near; and a mail that went out is done with.
Mailed ==
  /\ \A n \in N!Notice :
       N!clock(n[1]) = "paid" /\ (n \in claimed \/ job[n].state # "none" \/ sent[n] > 0)
         => n[2] <= day + Lead(n[1])
  /\ \A m \in N!Mail : sent[m] > unclear[m] =>
       /\ sent[m] = unclear[m] + 1
       /\ \/ job[m].state = "done"
          \/ m \in N!Notice /\ job[m].state = "none" /\ Rested(m)

LEMMA Counts ==
  ASSUME N!TypeOK, NEW m \in N!Mail
  PROVE  sent[m] \in Nat /\ unclear[m] \in Nat /\ (sent[m] > unclear[m] => sent[m] > 0)
  BY DEF N!TypeOK

LEMMA MailedInit == N!Init => Mailed
<1> SUFFICES ASSUME N!Init PROVE Mailed
  OBVIOUS
<1>1. claimed = {} /\ \A m \in N!Mail : job[m].state = "none" /\ sent[m] = 0 /\ unclear[m] = 0
  BY DEF N!Init, N!NoJob
<1> QED BY <1>1, NoticeParts DEF Mailed

\* One mail goes on, and claims are only taken back while their kind is not quiet.
LEMMA MailedFrame ==
  ASSUME Announced, Mailed, NEW m \in N!Mail, UNCHANGED <<day, deadline>>,
         claimed' \subseteq claimed,
         \A k \in Kind : marker'[k] = marker[k] \/ \E e \in N!Day : ~Quiet(<<k, e>>),
         \A l \in N!Mail \ {m} : /\ job'[l] = job[l] /\ sent'[l] = sent[l]
                                 /\ unclear'[l] = unclear[l]
                                 /\ handback'[l] \in {handback[l], "none"},
         m \in N!Notice /\ Quiet(m) => Quiet(m)',
         m \in N!Notice /\ (job'[m].state # "none" \/ sent'[m] > 0)
           => m \in claimed \/ job[m].state # "none" \/ sent[m] > 0,
         sent'[m] > unclear'[m] =>
           /\ sent'[m] = unclear'[m] + 1
           /\ \/ job'[m].state = "done"
              \/ m \in N!Notice /\ job'[m].state = "none" /\ Rested(m)'
  PROVE  Mailed'
<1>1. \A n \in N!Notice : Quiet(n) => Quiet(n)'
  BY NoticeParts DEF Quiet, N!Queued
<1>2. ASSUME NEW n \in N!Notice, Rested(n) PROVE Rested(n)'
  <2>1. CASE deadline[N!clock(n[1])] # n[2] /\ (N!clock(n[1]) = "trial" \/ n[2] <= day)
    BY <1>1, <1>2, <2>1 DEF Rested
  <2>2. CASE marker[n[1]] = n[2] /\ \A e \in N!Day : Quiet(<<n[1], e>>)
    <3>1. marker'[n[1]] = n[2]
      BY <2>2, NoticeParts
    <3>2. \A e \in N!Day : Quiet(<<n[1], e>>)'
      BY <1>1, <2>2, NoticeParts
    <3> QED BY <1>1, <1>2, <3>1, <3>2 DEF Rested
  <2> QED BY <1>2, <2>1, <2>2 DEF Rested
<1>3. ASSUME NEW n \in N!Notice, N!clock(n[1]) = "paid",
             n \in claimed' \/ job'[n].state # "none" \/ sent'[n] > 0
      PROVE  n[2] <= day' + Lead(n[1])
  BY <1>3, NoticeParts DEF Mailed
<1>4. ASSUME NEW l \in N!Mail, sent'[l] > unclear'[l]
      PROVE  /\ sent'[l] = unclear'[l] + 1
             /\ \/ job'[l].state = "done"
                \/ l \in N!Notice /\ job'[l].state = "none" /\ Rested(l)'
  <2>1. CASE l = m
    BY <1>4, <2>1
  <2>2. CASE l # m
    BY <1>2, <1>4, <2>2 DEF Mailed
  <2> QED BY <2>1, <2>2
<1> QED BY <1>3, <1>4 DEF Mailed

\* The deadline moves to a day no notice has named, or back to one that lies ahead.
LEMMA MailedMoves ==
  ASSUME Announced, Mailed, NEW c \in N!Clock, NEW d \in N!Day,
         deadline' = [deadline EXCEPT ![c] = d],
         N!New(c, d) \/ (c = "paid" /\ d > day),
         marker' = marker \/ (c = "paid" /\ marker' = [marker EXCEPT !["subscription_ended"] = 0]),
         UNCHANGED <<day, claimed, job, handback, sent, unclear>>
  PROVE  Mailed'
<1>1. deadline \in [N!Clock -> N!Day \cup {0}] /\ marker \in [Kind -> N!Day \cup {0}] /\ day \in N!Day
  BY DEF Announced, N!TypeOK
<1>2. \A n : Quiet(n) <=> Quiet(n)'
  BY DEF Quiet, N!Queued
<1>3. ASSUME NEW n \in N!Notice, Rested(n), sent[n] > 0 PROVE Rested(n)'
  <2>1. n[1] \in Kind /\ n[2] \in N!Day /\ N!clock(n[1]) \in N!Clock /\ n = <<n[1], n[2]>>
    BY NoticeParts DEF N!clock, N!Clock
  <2>2. N!clock(n[1]) = "paid" => n[2] <= day + Lead(n[1])
    BY <1>3 DEF Mailed
  <2>3. N!clock(n[1]) = c /\ N!New(c, d) => d # n[2]
    BY <1>3, <2>1 DEF N!New
  <2>4. N!clock(n[1]) # c => deadline'[N!clock(n[1])] = deadline[N!clock(n[1])]
    BY <1>1, <2>1
  <2>5. N!clock(n[1]) = c => deadline'[N!clock(n[1])] = d
    BY <1>1
  <2>6. CASE deadline[N!clock(n[1])] # n[2] /\ (N!clock(n[1]) = "trial" \/ n[2] <= day)
    <3>1. N!clock(n[1]) = c => d # n[2]
      BY <1>1, <2>1, <2>3, <2>6 DEF N!Day
    <3> QED BY <1>2, <1>3, <2>4, <2>5, <2>6, <3>1 DEF Rested
  <2>7. CASE marker[n[1]] = n[2] /\ \A e \in N!Day : Quiet(<<n[1], e>>)
    <3>1. CASE marker'[n[1]] = marker[n[1]]
      BY <1>2, <1>3, <2>7, <3>1 DEF Rested
    <3>2. CASE marker'[n[1]] # marker[n[1]]
      <4>1. c = "paid" /\ n[1] = "subscription_ended"
        BY <1>1, <2>1, <3>2
      <4>2. N!clock(n[1]) = "paid" /\ n[2] <= day
        BY <1>1, <2>1, <2>2, <4>1 DEF N!clock, Lead, N!Day
      <4>3. d # n[2]
        BY <1>1, <2>1, <2>3, <4>1, <4>2 DEF N!Day
      <4> QED BY <1>2, <1>3, <2>5, <4>1, <4>2, <4>3 DEF Rested
    <3> QED BY <3>1, <3>2
  <2> QED BY <1>3, <2>6, <2>7 DEF Rested
<1>4. N!TypeOK
  BY DEF Announced
<1> QED BY <1>3, <1>4, Counts, NoticeParts DEF Mailed

LEMMA ClaimIsMailed ==
  ASSUME Announced, Mailed, NEW k \in Kind, N!Claim(k)
  PROVE  Mailed'
<1>1. PICK d : d = deadline[N!clock(k)]
  OBVIOUS
<1>2. d \in N!Day /\ marker \in [Kind -> N!Day \cup {0}] /\ day \in N!Day
  BY <1>1 DEF Announced, N!TypeOK, N!Claim, N!Due, N!Clock, N!clock
<1>3. /\ marker' = [marker EXCEPT ![k] = d] /\ claimed' = claimed \cup {<<k, d>>} /\ marker[k] # d
      /\ UNCHANGED <<day, deadline, job, handback, sent, unclear>>
  BY <1>1 DEF N!Claim, N!Unmarked
<1>4. N!clock(k) = "paid" => d <= day + Lead(k)
  BY <1>1, <1>2 DEF N!Claim, N!Due, N!Near, N!clock, Lead, N!Day
<1>5. N!clock(k) = "paid" /\ k = "subscription_ending" => day < d
  BY <1>1, <1>2 DEF N!Claim, N!Due, N!Near, N!clock, N!Day
<1>6. ASSUME NEW n \in N!Notice, Rested(n), sent[n] > 0 PROVE Rested(n)'
  <2>1. n[1] \in Kind /\ n[2] \in N!Day /\ n = <<n[1], n[2]>>
    BY NoticeParts
  <2>2. N!clock(n[1]) = "paid" => n[2] <= day + Lead(n[1])
    BY <1>6 DEF Mailed
  <2>3. n # <<k, d>>
    BY <1>1, <1>3, <1>6 DEF Rested
  <2>4. \A l : Quiet(l) /\ l # <<k, d>> => Quiet(l)'
    BY <1>3 DEF Quiet, N!Queued
  <2>5. CASE deadline[N!clock(n[1])] # n[2] /\ (N!clock(n[1]) = "trial" \/ n[2] <= day)
    BY <1>3, <1>6, <2>3, <2>4, <2>5 DEF Rested
  <2>6. CASE marker[n[1]] = n[2] /\ \A e \in N!Day : Quiet(<<n[1], e>>)
    <3>1. CASE n[1] = k
      <4>1. d # n[2]
        BY <1>3, <2>6, <3>1
      <4>2. N!clock(n[1]) = "trial" \/ n[2] <= day
        BY <1>2, <1>4, <1>5, <2>1, <2>2, <3>1, <4>1 DEF N!Day, Lead, N!clock
      <4> QED BY <1>1, <1>3, <1>6, <2>3, <2>4, <3>1, <4>1, <4>2 DEF Rested
    <3>2. CASE n[1] # k
      <4>1. marker'[n[1]] = n[2]
        BY <1>2, <1>3, <2>1, <2>6, <3>2
      <4>2. \A e \in N!Day : Quiet(<<n[1], e>>)'
        BY <2>4, <2>6, <3>2
      <4> QED BY <1>6, <2>3, <2>4, <4>1, <4>2 DEF Rested
    <3> QED BY <3>1, <3>2
  <2> QED BY <1>6, <2>5, <2>6 DEF Rested
<1>7. N!TypeOK
  BY DEF Announced
<1> QED BY <1>3, <1>4, <1>6, <1>7, Counts, NoticeParts DEF Mailed

LEMMA ReleaseKeeps ==
  ASSUME N!TypeOK, NEW n \in N!Notice, ~Quiet(n), marker' = marker \/ marker' = N!ReleaseClaim(n[1])
  PROVE  \A k \in Kind : marker'[k] = marker[k] \/ \E e \in N!Day : ~Quiet(<<k, e>>)
<1>1. n[2] \in N!Day /\ ~Quiet(<<n[1], n[2]>>)
  BY NoticeParts
<1>2. \A k \in Kind \ {n[1]} : marker'[k] = marker[k]
  BY DEF N!ReleaseClaim, N!TypeOK
<1> QED BY <1>1, <1>2

LEMMA MailedStep ==
  ASSUME Bounds, Report \cap N!Notice = {}, Announced, Mailed, N!Next
  PROVE  Mailed'
<1>0. N!TypeOK
  BY DEF Announced
<1>1. ASSUME NEW n \in N!Notice, N!Enqueue(n) \/ N!EnqueueFails(n) PROVE Mailed'
  <2>1. /\ n \in N!Mail /\ n \in claimed /\ claimed' = claimed \ {n} /\ ~Quiet(n)
        /\ UNCHANGED <<day, deadline, handback, sent, unclear>>
    BY <1>1, NoticeParts DEF N!Enqueue, N!EnqueueFails, Quiet
  <2>2. marker' = marker \/ marker' = N!ReleaseClaim(n[1])
    BY <1>1 DEF N!Enqueue, N!EnqueueFails
  <2>3. \A k \in Kind : marker'[k] = marker[k] \/ \E e \in N!Day : ~Quiet(<<k, e>>)
    BY <1>0, <2>1, <2>2, ReleaseKeeps
  <2>4. N!Add(n) \/ UNCHANGED job
    BY <1>1 DEF N!Enqueue, N!EnqueueFails
  <2>5. /\ \A l \in N!Mail \ {n} : job'[l] = job[l]
        /\ job[n].state # "none" => job'[n] = job[n]
    <3>1. CASE N!Add(n)
      BY <1>0, <2>1, <3>1, AddStep
    <3> QED BY <2>4, <3>1
  <2>6. sent[n] > unclear[n] => sent[n] = unclear[n] + 1 /\ job[n].state = "done"
    BY <2>1 DEF Mailed, Rested
  <2> QED BY <2>1, <2>3, <2>4, <2>5, <2>6, MailedFrame
<1>2. ASSUME NEW r \in Report, N!Reported(r) PROVE Mailed'
  <2>1. /\ r \in N!Mail /\ r \notin N!Notice /\ job[r].state = "none"
        /\ UNCHANGED <<day, deadline, marker, claimed, handback, sent, unclear>>
    BY <1>2, NoticeParts DEF N!Reported
  <2>2. \A l \in N!Mail \ {r} : job'[l] = job[l]
    BY <1>0, <1>2, <2>1, AddStep DEF N!Reported
  <2>3. ~(sent[r] > unclear[r])
    BY <2>1 DEF Mailed
  <2> QED BY <2>1, <2>2, <2>3, MailedFrame
<1>3. ASSUME NEW m \in N!Mail, N!Queued(m), ~(sent[m] > unclear[m])
      PROVE  N!Send(m) \/ N!Attempt(m) \/ N!Unclear(m) => Mailed'
  <2>1. ~Quiet(m)
    BY <1>3 DEF Quiet
  <2>2. CASE N!Send(m)
    <3>1. /\ UNCHANGED <<day, deadline, marker, claimed, handback, unclear>>
          /\ \A l \in N!Mail \ {m} : job'[l] = job[l] /\ sent'[l] = sent[l]
          /\ job'[m].state = "done" /\ (sent'[m] > unclear[m] => sent'[m] = unclear[m] + 1)
      <4>1. sent'[m] = sent[m] + 1 /\ sent[m] \in Nat /\ unclear[m] \in Nat
        BY <1>0, <2>2 DEF N!Send, N!TypeOK
      <4> QED BY <1>0, <1>3, <2>2, <4>1 DEF N!Send, N!TypeOK
    <3> QED BY <1>3, <2>1, <3>1, MailedFrame DEF N!Queued
  <2>3. CASE N!Attempt(m)
    <3>1. /\ N!Failed(m) \/ N!Stalled(m)
          /\ UNCHANGED <<day, deadline, marker, claimed, sent, unclear>>
      BY <2>3 DEF N!Attempt
    <3> QED BY <1>3, <2>1, <3>1, FailedStep, MailedFrame DEF N!Queued
  <2>4. CASE N!Unclear(m)
    <3>1. /\ N!Failed(m) \/ N!Stalled(m)
          /\ UNCHANGED <<day, deadline, marker, claimed>> /\ ~(sent'[m] > unclear'[m])
          /\ \A l \in N!Mail \ {m} : sent'[l] = sent[l] /\ unclear'[l] = unclear[l]
      <4>1. /\ sent'[m] = sent[m] + 1 /\ unclear'[m] = unclear[m] + 1
            /\ sent[m] \in Nat /\ unclear[m] \in Nat
        BY <1>0, <2>4 DEF N!Unclear, N!TypeOK
      <4> QED BY <1>0, <1>3, <2>4, <4>1 DEF N!Unclear, N!TypeOK
    <3>2. \A l \in N!Mail \ {m} : job'[l] = job[l] /\ handback'[l] = handback[l]
      BY <1>3, <3>1, FailedStep
    <3> QED BY <1>3, <2>1, <3>1, <3>2, MailedFrame DEF N!Queued
  <2> QED BY <2>2, <2>3, <2>4
<1>4. ASSUME NEW m \in N!Mail, N!Send(m) \/ N!Attempt(m) \/ N!Unclear(m) PROVE Mailed'
  <2>1. N!Queued(m)
    BY <1>4 DEF N!Send, N!Attempt, N!Unclear
  <2>2. ~(sent[m] > unclear[m])
    BY <2>1 DEF Mailed, N!Queued
  <2> QED BY <1>3, <1>4, <2>1, <2>2
<1>5. ASSUME NEW n \in N!Notice, N!Release(n) \/ N!Remove(n) PROVE Mailed'
  <2>1. /\ n \in N!Mail /\ handback[n] # "none" /\ ~Quiet(n) /\ job[n].state = "failed"
        /\ UNCHANGED <<day, deadline, claimed, sent, unclear>>
    BY <1>5, NoticeParts DEF N!Release, N!Remove, Quiet, Announced
  <2>2. /\ \A l \in N!Mail \ {n} : job'[l] = job[l] /\ handback'[l] = handback[l]
        /\ marker' = marker \/ marker' = N!ReleaseClaim(n[1])
    BY <1>0, <1>5 DEF N!Release, N!Remove, N!TypeOK
  <2>3. \A k \in Kind : marker'[k] = marker[k] \/ \E e \in N!Day : ~Quiet(<<k, e>>)
    BY <1>0, <2>1, <2>2, ReleaseKeeps
  <2>4. ~(sent[n] > unclear[n])
    BY <2>1 DEF Mailed
  <2> QED BY <2>1, <2>2, <2>3, <2>4, MailedFrame
<1>6. ASSUME NEW n \in N!Notice, N!Forget(n) PROVE Mailed'
  <2>1. /\ n \in N!Mail /\ job[n].state = "done" /\ job' = [job EXCEPT ![n] = N!NoJob]
        /\ UNCHANGED <<day, deadline, marker, claimed, handback, sent, unclear>>
        /\ marker[n[1]] = n[2] \/ (day >= n[2] /\ deadline[N!clock(n[1])] # n[2])
        /\ \A e \in N!Day : Quiet(<<n[1], e>>)
    BY <1>6, NoticeParts DEF N!Forget, Quiet
  <2>2. job'[n].state = "none" /\ \A l \in N!Mail \ {n} : job'[l] = job[l]
    BY <1>0, <2>1, NoJobType DEF N!TypeOK
  <2>3. Rested(n)
    BY <1>0, <2>1, NoticeParts DEF Rested, N!TypeOK, N!Day
  <2>4. \A l \in N!Notice : Quiet(l) => Quiet(l)'
    BY <2>1, <2>2, NoticeParts DEF Quiet, N!Queued
  <2>5. Rested(n)'
    BY <2>1, <2>3, <2>4, NoticeParts DEF Rested
  <2>6. sent'[n] > unclear'[n] => sent'[n] = unclear'[n] + 1
    BY <2>1 DEF Mailed
  <2> QED BY <2>1, <2>2, <2>4, <2>5, <2>6, MailedFrame
<1>7. ASSUME N!Crash \/ N!Midnight \/ N!OwnerChanges PROVE Mailed'
  <2>1. /\ UNCHANGED <<deadline, marker, job, sent, unclear>> /\ claimed' \subseteq claimed
        /\ \A n \in N!Notice : handback'[n] \in {handback[n], "none"}
    BY <1>7, NoticeParts DEF N!Crash, N!Midnight, N!OwnerChanges
  <2>2. \A n \in N!Notice : Quiet(n) => Quiet(n)'
    BY <2>1 DEF Quiet, N!Queued
  <2>3. \A d \in N!Day, e \in {0, 1} : d <= day + e => d <= day' + e
    BY <1>0, <1>7 DEF N!Crash, N!Midnight, N!OwnerChanges, N!TypeOK, N!Day
  <2>4. \A n \in N!Notice : n[2] <= day => n[2] <= day'
    BY <1>0, <1>7, NoticeParts DEF N!Crash, N!Midnight, N!OwnerChanges, N!TypeOK, N!Day
  <2>5. \A n \in N!Notice : Rested(n) => Rested(n)'
    BY <2>1, <2>2, <2>4, NoticeParts DEF Rested
  <2> QED BY <2>1, <2>3, <2>5, NoticeParts DEF Mailed, Lead
<1>8. ASSUME NEW d \in N!Day, N!Refund(d) \/ \E c \in N!Clock : N!Extend(c, d) PROVE Mailed'
  <2>1. CASE N!Refund(d)
    <3>1. "paid" \in N!Clock
      BY DEF N!Clock
    <3> QED BY <2>1, <3>1, MailedMoves DEF N!Refund
  <2>2. ASSUME NEW c \in N!Clock, N!Extend(c, d) PROVE Mailed'
    BY <2>2, MailedMoves DEF N!Extend
  <2> QED BY <1>8, <2>1, <2>2
<1> QED BY <1>1, <1>2, <1>4, <1>5, <1>6, <1>7, <1>8, ClaimIsMailed DEF N!Next

LEMMA NoticesInvariant ==
  ASSUME Bounds, Report \cap N!Notice = {}
  PROVE  N!Spec => [](Announced /\ Mailed)
<1>1. Announced /\ Mailed /\ UNCHANGED N!vars => Mailed'
  BY DEF N!vars, Mailed, Rested, Quiet, N!Queued
<1> QED BY <1>1, AnnouncedAlways, MailedInit, MailedStep, PTL DEF N!Spec

\* Days, markers and jobs of the notices keep their types.
THEOREM NoticesTyped == ASSUME Bounds PROVE N!Spec => []N!TypeOK
  BY AnnouncedAlways, PTL DEF Announced

\* "The marker is committed, so nothing would ever look at that company again"
\* (sendExpiryNotices): a marker stands for a notice that was sent or still will be, unless
\* a process or the database failed the hand-back, a tick came between its two steps, or
\* the worker died twice with the job.
THEOREM NoticesAreKept == ASSUME Bounds PROVE N!Spec => []N!NoticeKept
<1>1. Announced => N!NoticeKept
  <2> SUFFICES ASSUME Announced, NEW k \in Kind, marker[k] # 0
               PROVE  Standing(<<k, marker[k]>>)
    BY DEF N!NoticeKept, Standing, N!Queued
  <2>1. <<k, marker[k]>> \in N!Notice
    BY DEF Announced, N!TypeOK, N!Notice
  <2> QED BY <2>1 DEF Announced
<1> QED BY <1>1, AnnouncedAlways, PTL

\* One mail per notice and report, over claims, retries, hand-backs, crashes and moving
\* deadlines, and one more for each time the mail server took it without saying so
\* (claimExpiryNotices).
THEOREM NoticesGoOnce ==
  ASSUME Bounds, Report \cap N!Notice = {}
  PROVE  N!Spec => []N!NoticedOnce
<1>1. Announced /\ Mailed => N!NoticedOnce
  <2> SUFFICES ASSUME Announced, Mailed, NEW m \in N!Mail PROVE sent[m] <= 1 + unclear[m]
    BY DEF N!NoticedOnce
  <2>1. sent[m] \in Nat /\ unclear[m] \in Nat
    BY DEF Announced, N!TypeOK
  <2> QED BY <2>1 DEF Mailed
<1> QED BY <1>1, NoticesInvariant, PTL

-----------------------------------------------------------------------------
(* What the status page says of the mail server *)

CONSTANTS Sender, TTL, Hour
VARIABLES server, redis, mail, canary, sinceCanary, reconcile, last, check, cached, refusing

Smtp == INSTANCE SmtpHealth

\* There are ticks between canaries, and the page's result is kept for some.
Ticks == Hour \in Nat \ {0} /\ TTL \in Nat \ {0} /\ None \notin Smtp!Outcome

CanaryRow == [mail : {"idle", "sending"} \cup Smtp!Outcome, cron : {"idle", "waiting", "timed out"}]
CheckRow  == [running : BOOLEAN, record : Smtp!Outcome \cup {None, "unread"},
              verified : {"unread", "yes", "no"}]
ResultRow == [status : {"up", "degraded", "down"}, age : 0..(TTL - 1)]

Fields ==
  /\ server \in {"works", "refuses", "hangs"} /\ redis \in BOOLEAN
  /\ mail \in [Sender -> {"idle"} \cup Smtp!Outcome] /\ canary \in CanaryRow
  /\ sinceCanary \in Nat /\ sinceCanary <= Hour /\ reconcile \in {"waits", "runs", "over"}
  /\ last \in Smtp!Outcome \cup {None} /\ check \in CheckRow
  /\ cached # None => cached \in ResultRow
  /\ refusing \in Nat /\ refusing <= 2 * Hour + TTL

\* Nothing is under way between ticks; and once the server has refused for one, with Redis
\* there, nothing else is recorded.
Steady ==
  /\ ~check.running => check = Smtp!NoCheck
  /\ canary.mail # "idle" \/ canary.cron # "idle" => sinceCanary = 0
  /\ refusing > 0 => /\ server = "refuses" /\ redis
                     /\ \A s \in Sender : mail[s] \in {"idle", "hard"}
                     /\ canary.mail \in {"idle", "sending", "hard"} /\ canary.cron # "timed out"

\* What is not recorded yet will be: a canary is out, its turn is still to come, or the one
\* before gave way to the reconcile, which does not run again before the next.
Awaited ==
  refusing > 0 /\ last # "hard" =>
    \/ canary.mail # "idle" /\ refusing <= 2 * Hour
    \/ refusing <= sinceCanary
    \/ reconcile = "over" /\ refusing <= Hour + sinceCanary
    \/ reconcile = "runs" /\ sinceCanary = 0 /\ refusing <= Hour

\* What was read and kept since then says that the server is down.
Reported ==
  /\ refusing > 2 * Hour /\ check.record # "unread" => check.record = "hard"
  /\ cached # None => (refusing - cached.age > 2 * Hour => cached.status = "down")

Watched == Fields /\ Steady /\ Awaited /\ Reported

LEMMA ClassifiedType ==
  ASSUME Fields, NEW a \in Smtp!Answers
  PROVE  Smtp!Classify(a) \in Smtp!Outcome /\ (server = "refuses" => Smtp!Classify(a) = "hard")
  BY DEF Fields, Smtp!Answers, Smtp!Classify, Smtp!Outcome

LEMMA WatchedInit == ASSUME Ticks, Smtp!Init PROVE Watched
<1>1. Fields
  <2>1. check \in CheckRow
    BY DEF Smtp!Init, Smtp!NoCheck, CheckRow
  <2>2. canary \in CanaryRow
    BY DEF Smtp!Init, CanaryRow
  <2>3. refusing = 0 /\ sinceCanary = 0 /\ 0 <= Hour /\ 0 <= 2 * Hour + TTL
    BY DEF Smtp!Init, Ticks
  <2>4. last \in Smtp!Outcome \cup {None} /\ mail \in [Sender -> {"idle"} \cup Smtp!Outcome]
    BY DEF Smtp!Init, Smtp!Outcome
  <2> QED BY <2>1, <2>2, <2>3, <2>4 DEF Smtp!Init, Fields
<1>2. refusing = 0 /\ check = Smtp!NoCheck /\ cached = None /\ sinceCanary = 0 /\ ~(0 > 2 * Hour)
  BY DEF Smtp!Init, Ticks
<1> QED BY <1>1, <1>2 DEF Watched, Steady, Awaited, Reported

LEMMA WatchedStep == ASSUME Ticks, Watched, [Smtp!Next]_(Smtp!vars) PROVE Watched'
<1> USE DEF Ticks
<1>0. Hour \in Nat /\ Hour > 0 /\ TTL \in Nat /\ TTL > 0 /\ refusing \in Nat /\ sinceCanary \in Nat
  BY DEF Watched, Fields
<1>1. ASSUME NEW s \in Sender, Smtp!Answered(s) PROVE Watched'
  <2>1. PICK a \in Smtp!Answers : mail' = [mail EXCEPT ![s] = Smtp!Classify(a)]
    BY <1>1 DEF Smtp!Answered
  <2>2. Smtp!Classify(a) \in Smtp!Outcome /\ (server = "refuses" => Smtp!Classify(a) = "hard")
    BY ClassifiedType DEF Watched
  <2>3. Fields'
    BY <1>1, <2>1, <2>2 DEF Smtp!Answered, Watched, Fields
  <2>4. Steady'
    BY <1>1, <2>1, <2>2 DEF Smtp!Answered, Watched, Steady, Fields
  <2> QED BY <1>1, <2>3, <2>4 DEF Smtp!Answered, Watched, Awaited, Reported
<1>2. ASSUME NEW s \in Sender, Smtp!Recorded(s) PROVE Watched'
  <2>1. Fields'
    BY <1>2 DEF Smtp!Recorded, Smtp!Record, Watched, Fields
  <2>2. Steady'
    BY <1>2 DEF Smtp!Recorded, Watched, Steady, Fields
  <2>3. refusing > 0 => last' = "hard"
    BY <1>2 DEF Smtp!Recorded, Smtp!Record, Watched, Steady
  <2> QED BY <1>0, <1>2, <2>1, <2>2, <2>3 DEF Smtp!Recorded, Watched, Awaited, Reported
<1>3. CASE Smtp!CanaryTurn
  <2>1. /\ sinceCanary = Hour /\ sinceCanary' = 0
        /\ UNCHANGED <<server, redis, mail, last, check, cached, refusing>>
    BY <1>3 DEF Smtp!CanaryTurn
  <2>2. canary.mail = "idle" /\ canary.cron = "idle"
    BY <1>0, <2>1 DEF Watched, Steady
  <2>3. Reported'
    BY <2>1 DEF Watched, Reported
  <2>4. CASE Smtp!LockFree
    <3>1. canary' = [mail |-> "sending", cron |-> "waiting"] /\ reconcile' = "waits"
      BY <1>3, <2>4 DEF Smtp!CanaryTurn
    <3>2. canary' \in CanaryRow /\ canary'.mail = "sending" /\ canary'.cron = "waiting"
      BY <3>1 DEF CanaryRow
    <3>3. Fields'
      BY <1>0, <2>1, <3>1, <3>2 DEF Watched, Fields
    <3>4. Steady'
      BY <2>1, <3>2 DEF Watched, Steady
    <3>5. Awaited'
      BY <1>0, <2>1, <2>2, <2>4, <3>2 DEF Watched, Awaited, Smtp!LockFree
    <3> QED BY <2>3, <3>3, <3>4, <3>5 DEF Watched
  <2>5. CASE ~Smtp!LockFree
    <3>1. UNCHANGED <<canary, reconcile>> /\ reconcile = "runs"
      BY <1>3, <2>5 DEF Smtp!CanaryTurn, Smtp!LockFree
    <3>2. Fields'
      BY <1>0, <2>1, <3>1 DEF Watched, Fields
    <3>3. Steady'
      BY <2>1, <3>1 DEF Watched, Steady
    <3>4. Awaited'
      BY <1>0, <2>1, <2>2, <3>1 DEF Watched, Awaited
    <3> QED BY <2>3, <3>2, <3>3, <3>4 DEF Watched
  <2> QED BY <2>4, <2>5
<1>4. CASE Smtp!CanaryAnswered
  <2>1. PICK a \in Smtp!Answers : canary' = [canary EXCEPT !.mail = Smtp!Classify(a)]
    BY <1>4 DEF Smtp!CanaryAnswered
  <2>2. Smtp!Classify(a) \in Smtp!Outcome /\ (server = "refuses" => Smtp!Classify(a) = "hard")
    BY ClassifiedType DEF Watched
  <2>3. /\ canary'.mail = Smtp!Classify(a) /\ canary'.cron = canary.cron /\ canary'.mail # "idle"
        /\ canary' \in CanaryRow
    BY <2>1, <2>2 DEF Watched, Fields, CanaryRow, Smtp!Outcome
  <2>4. Fields'
    BY <1>4, <2>3 DEF Smtp!CanaryAnswered, Watched, Fields
  <2>5. Steady' /\ Awaited'
    BY <1>4, <2>2, <2>3 DEF Smtp!CanaryAnswered, Watched, Steady, Awaited
  <2> QED BY <1>4, <2>4, <2>5 DEF Smtp!CanaryAnswered, Watched, Reported
<1>5. CASE Smtp!CanaryRecorded
  <2>0. canary' \in CanaryRow /\ last' \in Smtp!Outcome \cup {None}
    BY <1>5 DEF Smtp!CanaryRecorded, Smtp!Record, Watched, Fields, CanaryRow
  <2>1. Fields'
    BY <1>5, <2>0 DEF Smtp!CanaryRecorded, Watched, Fields
  <2>2. Steady'
    BY <1>5 DEF Smtp!CanaryRecorded, Watched, Steady, Fields, Smtp!Outcome
  <2>3. refusing > 0 => last' = "hard"
    BY <1>5 DEF Smtp!CanaryRecorded, Smtp!Record, Watched, Steady, Smtp!Outcome
  <2> QED BY <1>0, <1>5, <2>1, <2>2, <2>3 DEF Smtp!CanaryRecorded, Watched, Awaited, Reported
<1>6. CASE Smtp!CanaryTimesOut
  <2>1. Fields'
    <3>1. canary' \in CanaryRow
      BY <1>6 DEF Smtp!CanaryTimesOut, Watched, Fields, CanaryRow
    <3> QED BY <1>6, <3>1 DEF Smtp!CanaryTimesOut, Watched, Fields
  <2>2. ~(refusing > 0)
    BY <1>6 DEF Smtp!CanaryTimesOut, Watched, Steady
  <2> QED BY <1>6, <2>1, <2>2 DEF Smtp!CanaryTimesOut, Watched, Steady, Awaited, Reported, Fields
<1>7. CASE Smtp!TimeoutRecorded
  <2>1. Fields'
    <3>1. canary' \in CanaryRow /\ last' \in Smtp!Outcome \cup {None}
      BY <1>7 DEF Smtp!TimeoutRecorded, Smtp!Record, Watched, Fields, CanaryRow, Smtp!Outcome
    <3> QED BY <1>7, <3>1 DEF Smtp!TimeoutRecorded, Watched, Fields
  <2>2. ~(refusing > 0)
    BY <1>7 DEF Smtp!TimeoutRecorded, Watched, Steady
  <2> QED BY <1>7, <2>1, <2>2 DEF Smtp!TimeoutRecorded, Watched, Steady, Awaited, Reported, Fields
<1>8. CASE Smtp!Reconcile \/ Smtp!ReconcileEnds
  <2>1. Fields'
    BY <1>8 DEF Smtp!Reconcile, Smtp!ReconcileEnds, Watched, Fields
  <2>2. Steady' /\ Reported'
    BY <1>8 DEF Smtp!Reconcile, Smtp!ReconcileEnds, Watched, Steady, Reported
  <2>3. Awaited'
    BY <1>0, <1>8 DEF Smtp!Reconcile, Smtp!ReconcileEnds, Watched, Awaited
  <2> QED BY <2>1, <2>2, <2>3 DEF Watched
<1>9. CASE Smtp!StartCheck \/ Smtp!ReadRecord \/ Smtp!Verify
  <2>1. UNCHANGED <<server, redis, mail, canary, sinceCanary, reconcile, last, cached, refusing>>
    BY <1>9 DEF Smtp!StartCheck, Smtp!ReadRecord, Smtp!Verify
  <2>2. refusing > 2 * Hour => last = "hard" /\ redis
    <3> SUFFICES ASSUME refusing > 2 * Hour PROVE last = "hard" /\ redis
      OBVIOUS
    <3>1. /\ refusing > 0 /\ ~(refusing <= 2 * Hour) /\ ~(refusing <= Hour)
          /\ ~(refusing <= sinceCanary) /\ ~(refusing <= Hour + sinceCanary)
      BY <1>0 DEF Watched, Fields
    <3>2. redis
      BY <3>1 DEF Watched, Steady
    <3>3. last = "hard"
      BY <3>1, Zenon DEF Watched, Awaited
    <3> QED BY <3>2, <3>3
  <2>3. PICK c \in CheckRow : c = check
    BY DEF Watched, Fields
  <2>4. /\ check' \in CheckRow /\ check'.running
        /\ check'.record # "unread" => check'.record = check.record \/ (redis => check'.record = last)
    <3>1. CASE Smtp!StartCheck
      BY <3>1 DEF Smtp!StartCheck, Smtp!NoCheck, CheckRow
    <3>2. CASE Smtp!ReadRecord
      BY <2>3, <3>2 DEF Smtp!ReadRecord, Watched, Fields, CheckRow
    <3>3. CASE Smtp!Verify
      BY <2>3, <3>3 DEF Smtp!Verify, CheckRow
    <3> QED BY <1>9, <3>1, <3>2, <3>3
  <2>5. Fields' /\ Steady' /\ Awaited'
    BY <2>1, <2>4 DEF Watched, Fields, Steady, Awaited
  <2>6. check'.record # "unread" /\ check'.record = check.record => check.record # "unread"
    OBVIOUS
  <2>7. Reported'
    BY <2>1, <2>2, <2>4, <2>6 DEF Watched, Reported
  <2> QED BY <2>5, <2>7 DEF Watched
<1>10. CASE Smtp!EndCheck
  <2>1. UNCHANGED <<server, redis, mail, canary, sinceCanary, reconcile, last, refusing>>
        /\ check' = Smtp!NoCheck
    BY <1>10 DEF Smtp!EndCheck
  <2>2. PICK f \in BOOLEAN :
          cached' = [status |-> Smtp!Health(check.record, check.verified, f), age |-> 0]
    BY <1>10 DEF Smtp!EndCheck
  <2>3. /\ check.record \in Smtp!Outcome \cup {None} /\ check.verified \in {"yes", "no"}
    BY <1>10 DEF Smtp!EndCheck, Watched, Fields, CheckRow
  <2>4. check.record = "hard" => Smtp!Health(check.record, check.verified, f) = "down"
    BY DEF Smtp!Health, Smtp!Outcome
  <2>5. Smtp!Health(check.record, check.verified, f) \in {"up", "degraded", "down"}
    BY <2>3 DEF Smtp!Health, Smtp!Outcome
  <2>6. cached' \in ResultRow /\ cached'.age = 0 /\ (check.record = "hard" => cached'.status = "down")
    BY <1>0, <2>2, <2>4, <2>5 DEF ResultRow
  <2>7. check' \in CheckRow /\ check'.record = "unread"
    BY <2>1 DEF Smtp!NoCheck, CheckRow
  <2>8. Fields' /\ Steady' /\ Awaited'
    BY <2>1, <2>6, <2>7 DEF Watched, Fields, Steady, Awaited
  <2>9. Reported'
    BY <1>0, <1>10, <2>1, <2>6, <2>7 DEF Smtp!EndCheck, Watched, Reported
  <2> QED BY <2>8, <2>9 DEF Watched
<1>11. ASSUME (\E s \in {"works", "refuses", "hangs"} : Smtp!ServerChanges(s)) \/ Smtp!RedisChanges
       PROVE  Watched'
  <2>1. /\ refusing' = 0 /\ server' \in {"works", "refuses", "hangs"} /\ redis' \in BOOLEAN
        /\ UNCHANGED <<mail, canary, sinceCanary, reconcile, last, check, cached>>
    BY <1>11 DEF Smtp!ServerChanges, Smtp!RedisChanges, Watched, Fields
  <2>2. Fields'
    BY <1>0, <2>1 DEF Watched, Fields
  <2>3. Steady'
    <3>1. ~(refusing' > 0)
      BY <2>1
    <3> QED BY <2>1, <3>1 DEF Watched, Steady
  <2>6. Awaited'
    <3>1. ~(refusing' > 0)
      BY <2>1
    <3> QED BY <3>1 DEF Awaited
  <2>4. cached # None => cached.age \in Nat
    BY DEF Watched, Fields, ResultRow
  <2>5. Reported'
    BY <1>0, <2>1, <2>4 DEF Reported
  <2> QED BY <2>2, <2>3, <2>5, <2>6 DEF Watched
<1>12. CASE Smtp!Tick
  <2>1. /\ sinceCanary < Hour /\ sinceCanary' = sinceCanary + 1 /\ reconcile # "runs" /\ ~check.running
        /\ \A s \in Sender : mail[s] = "idle"
        /\ canary.mail = "idle" /\ canary.cron = "idle"
        /\ UNCHANGED <<server, redis, mail, canary, reconcile, last, check>>
    BY <1>12 DEF Smtp!Tick
  <2>2. /\ refusing' \in Nat /\ refusing' <= 2 * Hour + TTL
        /\ refusing' > 0 => server = "refuses" /\ redis
        /\ refusing' <= refusing + 1
    <3>1. CASE server = "refuses" /\ redis /\ refusing <= Smtp!Limit
      <4>1. refusing' = refusing + 1
        BY <1>12, <3>1 DEF Smtp!Tick
      <4> QED BY <1>0, <3>1, <4>1 DEF Smtp!Limit
    <3>2. CASE ~(server = "refuses" /\ redis /\ refusing <= Smtp!Limit)
      <4>1. refusing' = refusing
        BY <1>12, <3>2 DEF Smtp!Tick
      <4>2. refusing <= 2 * Hour + TTL
        BY DEF Watched, Fields
      <4>3. refusing > 0 => server = "refuses" /\ redis
        BY DEF Watched, Steady
      <4>4. refusing <= refusing + 1
        BY <1>0
      <4> QED BY <1>0, <4>1, <4>2, <4>3, <4>4
    <3> QED BY <3>1, <3>2
  <2>3. cached' # None => /\ cached # None /\ cached' \in ResultRow /\ cached'.status = cached.status
                          /\ cached'.age = cached.age + 1 /\ cached.age \in Nat
    <3>1. CASE cached # None /\ cached.age + 1 < TTL
      <4>1. cached' = [cached EXCEPT !.age = @ + 1] /\ cached \in ResultRow
        BY <1>12, <3>1 DEF Smtp!Tick, Watched, Fields
      <4> QED BY <1>0, <3>1, <4>1 DEF ResultRow
    <3>2. CASE ~(cached # None /\ cached.age + 1 < TTL)
      BY <1>12, <3>2 DEF Smtp!Tick
    <3> QED BY <3>1, <3>2
  <2>4. Fields'
    BY <1>0, <2>1, <2>2, <2>3 DEF Watched, Fields
  <2>5. Steady'
    BY <2>1, <2>2 DEF Watched, Steady
  <2>6. Awaited'
    BY <1>0, <2>1, <2>2 DEF Watched, Awaited
  <2>7. check.record = "unread"
    BY <2>1 DEF Watched, Steady, Smtp!NoCheck
  <2>8. Reported'
    BY <1>0, <2>1, <2>2, <2>3, <2>7 DEF Watched, Reported
  <2> QED BY <2>4, <2>5, <2>6, <2>8 DEF Watched
<1>13. CASE UNCHANGED Smtp!vars
  BY <1>13 DEF Smtp!vars, Watched, Fields, Steady, Awaited, Reported
<1> QED
  BY <1>1, <1>2, <1>3, <1>4, <1>5, <1>6, <1>7, <1>8, <1>9, <1>10, <1>11, <1>12, <1>13 DEF Smtp!Next

LEMMA WatchedAlways == ASSUME Ticks PROVE Smtp!Spec => []Watched
  BY WatchedInit, WatchedStep, PTL DEF Smtp!Spec

\* The record, the sends and the page's check keep their types (smtpHealth, SystemStatus).
THEOREM SmtpTyped == ASSUME Ticks PROVE Smtp!Spec => []Smtp!TypeOK
<1>1. Fields => Smtp!TypeOK
  <2> SUFFICES ASSUME Fields PROVE Smtp!TypeOK
    OBVIOUS
  <2>1. sinceCanary \in 0..Hour
    BY DEF Fields, Ticks
  <2>2. refusing \in 0..(Smtp!Limit + 1)
    BY DEF Fields, Ticks, Smtp!Limit
  <2> QED BY <2>1, <2>2 DEF Fields, Smtp!TypeOK, CanaryRow, CheckRow, ResultRow
<1> QED BY <1>1, WatchedAlways, PTL DEF Watched

\* "A passing verify can never mask it" (checkSmtp): a mail server that has refused for two
\* turns of the canary is recorded as refusing, and the page says so as soon as what it has
\* kept from before is old; for any number of senders, any turn and any time it keeps.
THEOREM RefusalShows == ASSUME Ticks PROVE Smtp!Spec => []Smtp!RefusalIsShown
<1>1. Watched => Smtp!RefusalIsShown
  <2> SUFFICES ASSUME Watched PROVE Smtp!RefusalIsShown
    OBVIOUS
  <2>1. Hour \in Nat /\ TTL \in Nat /\ refusing \in Nat /\ sinceCanary \in Nat /\ sinceCanary <= Hour
    BY DEF Watched, Fields, Ticks
  <2>2. refusing > 2 * Hour => last = "hard"
    BY <2>1 DEF Watched, Awaited
  <2>3. cached # None => cached.age \in Nat /\ cached.age <= TTL - 1
    BY <2>1 DEF Watched, Fields, ResultRow
  <2>4. refusing > Smtp!Limit /\ cached # None => refusing - cached.age > 2 * Hour
    BY <2>1, <2>3 DEF Smtp!Limit
  <2> QED BY <2>2, <2>4 DEF Watched, Reported, Smtp!RefusalIsShown
<1> QED BY <1>1, WatchedAlways, PTL

=============================================================================
