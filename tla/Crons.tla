------------------------------- MODULE Crons -------------------------------
(***************************************************************************)
(* The scheduled jobs of several instances of the server: a job runs at most once in a *)
(* process, and once among the instances by a session advisory lock on a connection    *)
(* pinned to the run; and the shutdown, which waits for requests, jobs and e-mails      *)
(* before it closes the pool under them.                                                *)
(***************************************************************************)
EXTENDS FiniteSets

CONSTANTS
  Instance,
  Job,       \* crons with a run of their own in runTracker
  Key,       \* Key[j]: the advisory lock's key of job j, or None
  None

VARIABLES
  phase,     \* phase[i]: "up", "draining", "stopping" (the worker), "closed" (the pool), "off"
  run,       \* run[i][j]: "idle", "starts", "works", "unpinned" (its connection died), "ends"
  holder,    \* holder[k]: the run whose session holds k in Postgres, or None
  requests,  \* instances that serve a request
  mailing,   \* instances whose worker is at a job
  late       \* instances whose wait for the jobs timed out

vars == <<phase, run, holder, requests, mailing, late>>

Keys == {Key[j] : j \in Job} \ {None}

NoRun == [j \in Job |-> "idle"]

Init ==
  /\ phase = [i \in Instance |-> "up"]
  /\ run = [i \in Instance |-> NoRun]
  /\ holder = [k \in Keys |-> None]
  /\ requests = {} /\ mailing = {} /\ late = {}

At(i, j, s) == run' = [run EXCEPT ![i][j] = s]

\* Postgres drops the locks of a session that ends.
Drop(sessions) == holder' = [k \in Keys |-> IF holder[k] \in sessions THEN None ELSE holder[k]]

RunsOf(i) == {<<i, j>> : j \in Job}

-----------------------------------------------------------------------------
(* Jobs *)

\* A tick, unless the schedule is stopped or the job still runs (runExclusive).
Fire(i, j) ==
  /\ phase[i] = "up" /\ run[i][j] = "idle"
  /\ At(i, j, "starts")
  /\ UNCHANGED <<phase, holder, requests, mailing, late>>

\* Mutant: the lock of a transaction that commits before the work.
TryXactLock(i, j) ==
  /\ holder[Key[j]] = None /\ At(i, j, "works")
  /\ UNCHANGED holder

\* pg_try_advisory_lock on the pinned connection.
TrySessionLock(i, j) ==
  /\ holder[Key[j]] = None /\ At(i, j, "works")
  /\ holder' = [holder EXCEPT ![Key[j]] = <<i, j>>]

\* A job without a lock works at once; one that finds its lock taken is over.
Begin(i, j) ==
  /\ phase[i] # "closed" /\ run[i][j] = "starts"
  /\ \/ Key[j] = None /\ At(i, j, "works") /\ UNCHANGED holder
     \/ Key[j] # None /\ TrySessionLock(i, j)
     \/ Key[j] # None /\ holder[Key[j]] # None /\ At(i, j, "idle") /\ UNCHANGED holder
  /\ UNCHANGED <<phase, requests, mailing, late>>

\* What the job does, or the error that stops it: the lock is released in any case.
Work(i, j) ==
  /\ phase[i] # "closed" /\ run[i][j] = "works"
  /\ At(i, j, "ends")
  /\ UNCHANGED <<phase, holder, requests, mailing, late>>

\* sessionUnlock on the connection that took the lock, and its release.
Unlock(i, j) ==
  /\ phase[i] # "closed" /\ run[i][j] = "ends"
  /\ Drop({<<i, j>>})
  /\ At(i, j, "idle")
  /\ UNCHANGED <<phase, requests, mailing, late>>

\* The work goes on over other connections; the unlock fails and is logged.
UnpinnedEnds(i, j) ==
  /\ run[i][j] = "unpinned"
  /\ At(i, j, "idle")
  /\ UNCHANGED <<phase, holder, requests, mailing, late>>

ConnectionDies(i, j) ==
  /\ Key[j] # None /\ run[i][j] \in {"works", "ends"}
  /\ At(i, j, "unpinned")
  /\ Drop({<<i, j>>})
  /\ UNCHANGED <<phase, requests, mailing, late>>

-----------------------------------------------------------------------------
(* Requests and e-mails *)

Accept(i) ==
  /\ phase[i] = "up" /\ i \notin requests
  /\ requests' = requests \cup {i}
  /\ UNCHANGED <<phase, run, holder, mailing, late>>

Respond(i) ==
  /\ i \in requests
  /\ requests' = requests \ {i}
  /\ UNCHANGED <<phase, run, holder, mailing, late>>

TakeMail(i) ==
  /\ phase[i] \in {"up", "draining"} /\ i \notin mailing
  /\ mailing' = mailing \cup {i}
  /\ UNCHANGED <<phase, run, holder, requests, late>>

MailDone(i) ==
  /\ i \in mailing
  /\ mailing' = mailing \ {i}
  /\ UNCHANGED <<phase, run, holder, requests, late>>

-----------------------------------------------------------------------------
(* shutdown *)

\* The schedules stop, and no connection is accepted; a second signal changes nothing.
Signal(i) ==
  /\ phase[i] = "up"
  /\ phase' = [phase EXCEPT ![i] = "draining"]
  /\ UNCHANGED <<run, holder, requests, mailing, late>>

\* waitForRunningCrons gives up after CRON_DRAIN_MS.
DrainTimesOut(i) ==
  /\ phase[i] = "draining" /\ run[i] # NoRun
  /\ late' = late \cup {i}
  /\ UNCHANGED <<phase, run, holder, requests, mailing>>

\* The last response is sent and the jobs have ended, or are not waited for.
StopWorker(i) ==
  /\ phase[i] = "draining" /\ i \notin requests
  /\ run[i] = NoRun \/ i \in late
  /\ phase' = [phase EXCEPT ![i] = "stopping"]
  /\ UNCHANGED <<run, holder, requests, mailing, late>>

\* closeDatabase, once the worker has finished its e-mail: every session ends.
ClosePool(i) ==
  /\ phase[i] = "stopping" /\ i \notin mailing
  /\ phase' = [phase EXCEPT ![i] = "closed"]
  /\ Drop(RunsOf(i))
  /\ UNCHANGED <<run, requests, mailing, late>>

\* The end of the shutdown, its force timer, or a crash.
Exit(i) ==
  /\ phase[i] # "off"
  /\ phase' = [phase EXCEPT ![i] = "off"]
  /\ run' = [run EXCEPT ![i] = NoRun]
  /\ Drop(RunsOf(i))
  /\ requests' = requests \ {i} /\ mailing' = mailing \ {i} /\ late' = late \ {i}

Restart(i) ==
  /\ phase[i] = "off"
  /\ phase' = [phase EXCEPT ![i] = "up"]
  /\ UNCHANGED <<run, holder, requests, mailing, late>>

-----------------------------------------------------------------------------

Next ==
  \E i \in Instance :
    \/ \E j \in Job : \/ Fire(i, j) \/ Begin(i, j) \/ Work(i, j) \/ Unlock(i, j)
                      \/ UnpinnedEnds(i, j) \/ ConnectionDies(i, j)
    \/ Accept(i) \/ Respond(i) \/ TakeMail(i) \/ MailDone(i)
    \/ Signal(i) \/ DrainTimesOut(i) \/ StopWorker(i) \/ ClosePool(i)
    \/ Exit(i) \/ Restart(i)

Spec == Init /\ [][Next]_vars

\* Instances, runs, locks and the work under way have their types.
TypeOK ==
  /\ phase \in [Instance -> {"up", "draining", "stopping", "closed", "off"}]
  /\ run \in [Instance -> [Job -> {"idle", "starts", "works", "unpinned", "ends"}]]
  /\ holder \in [Keys -> (Instance \X Job) \cup {None}]
  /\ requests \subseteq Instance /\ mailing \subseteq Instance /\ late \subseteq Instance

\* However ticks, lost connections, shutdowns and crashes of the instances interleave: a lock
\* is held by a run that is under way and never leaks to a pooled connection, which would
\* "silently do nothing" at every later tick (purgeExpiredCompanyData); two runs work under
\* one key only when a connection died; and the pool is closed under no request or e-mail,
\* and under a job only when the wait for it timed out (shutdown).
OneRun ==
  /\ \A k \in Keys : holder[k] # None =>
       \E i \in Instance, j \in Job : /\ holder[k] = <<i, j>> /\ run[i][j] \in {"works", "ends"}
                                      /\ phase[i] \notin {"closed", "off"}
  /\ \A i, h \in Instance : \A j, l \in Job :
       (Key[j] = Key[l] /\ Key[j] # None /\ run[i][j] = "works" /\ run[h][l] = "works"
          /\ phase[i] # "closed" /\ phase[h] # "closed") => i = h /\ j = l
  /\ \A i \in Instance : phase[i] = "closed" =>
       i \notin requests \cup mailing /\ (run[i] # NoRun => i \in late)

=============================================================================
