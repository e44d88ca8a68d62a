---------------------------- MODULE SmtpHealth ----------------------------
(***************************************************************************)
(* What the admin's status page says of the mail server: the outcome of every send, *)
(* recorded in Redis; the hourly canary, which makes sure there are sends; and the     *)
(* page's own check, which reads the record and the login, shared by those who load the *)
(* page and kept for a while.                                                           *)
(*                                                                         *)
(* A tick is as long as a send or a check may take: both end before the next.          *)
(***************************************************************************)
EXTENDS Naturals

CONSTANTS
  Sender,   \* sends of the e-mail worker
  TTL,      \* CACHE_TTL_MS in ticks
  Hour,     \* between two canaries, in ticks
  None

VARIABLES
  server,      \* "works", "refuses" (logins are accepted, mail is not) or "hangs"
  redis,       \* reachable, or not
  mail,        \* mail[s]: the answer that sender s has to record, or "idle"
  canary,      \* the canary's send, and what its cron does
  sinceCanary, \* ticks since the last canary's turn
  reconcile,   \* the day's reconcile of subscriptions "waits", "runs" or is "over"
  last,        \* the last recorded outcome, or None
  check,       \* the check under way
  cached,      \* its result while it is fresh: the status, and its age in ticks
  refusing     \* ticks during which the server has only refused and Redis was there

vars == <<server, redis, mail, canary, sinceCanary, reconcile, last, check, cached, refusing>>

Outcome == {"ok", "recipient", "hard", "transient"}

NoCheck == [running |-> FALSE, record |-> "unread", verified |-> "unread"]

\* Ticks until the page shows a refusal: with the canary's lock busy at one turn, the
\* next comes an hour later, and what the page keeps is younger than TTL.
Limit == 2 * Hour + TTL - 1

Init ==
  /\ server = "works" /\ redis = TRUE
  /\ mail = [s \in Sender |-> "idle"]
  /\ canary = [mail |-> "idle", cron |-> "idle"]
  /\ sinceCanary = 0 /\ reconcile = "waits"
  /\ last \in {None, "ok"}
  /\ check = NoCheck /\ cached = None
  /\ refusing = 0

-----------------------------------------------------------------------------
(* Sends *)

\* classifySmtpFailure: a refusal of the account first, then of the recipient.
Classify(answer) == IF answer = "refused" THEN "hard" ELSE answer

\* What the server answers, if it does; a dropped connection counts as an answer.
Answers ==
  CASE server = "works"   -> {"ok", "recipient"}
    [] server = "refuses" -> {"refused"}
    [] server = "hangs"   -> {"transient"}

\* recordSmtpOutcome: without Redis the outcome is lost.
Record(outcome) == last' = IF redis THEN outcome ELSE last

\* sendMail, for an e-mail job, as far as the answer.
Answered(s) ==
  /\ mail[s] = "idle"
  /\ \E a \in Answers : mail' = [mail EXCEPT ![s] = Classify(a)]
  /\ UNCHANGED <<server, redis, canary, sinceCanary, reconcile, last, check, cached, refusing>>

Recorded(s) ==
  /\ mail[s] # "idle"
  /\ Record(mail[s])
  /\ mail' = [mail EXCEPT ![s] = "idle"]
  /\ UNCHANGED <<server, redis, canary, sinceCanary, reconcile, check, cached, refusing>>

-----------------------------------------------------------------------------
(* sendSmtpCanary *)

\* The reconcile of subscriptions uses the same advisory lock key.
LockFree == reconcile # "runs"

CanaryTurn ==
  /\ sinceCanary = Hour
  /\ sinceCanary' = 0
  /\ IF LockFree
     THEN /\ canary' = [mail |-> "sending", cron |-> "waiting"]
          /\ reconcile' = "waits"
     ELSE UNCHANGED <<canary, reconcile>>
  /\ UNCHANGED <<server, redis, mail, last, check, cached, refusing>>

CanaryAnswered ==
  /\ canary.mail = "sending"
  /\ \E a \in Answers : canary' = [canary EXCEPT !.mail = Classify(a)]
  /\ UNCHANGED <<server, redis, mail, sinceCanary, reconcile, last, check, cached, refusing>>

\* The send records itself, whether or not the cron still waits for it.
CanaryRecorded ==
  /\ canary.mail \in Outcome
  /\ Record(canary.mail)
  /\ canary' = [mail |-> "idle",
                cron |-> IF canary.cron = "waiting" THEN "idle" ELSE canary.cron]
  /\ UNCHANGED <<server, redis, mail, sinceCanary, reconcile, check, cached, refusing>>

\* withTimeout gives up waiting; the send goes on.
CanaryTimesOut ==
  /\ canary.cron = "waiting" /\ server = "hangs"
  /\ canary' = [canary EXCEPT !.cron = "timed out"]
  /\ UNCHANGED <<server, redis, mail, sinceCanary, reconcile, last, check, cached, refusing>>

TimeoutRecorded ==
  /\ canary.cron = "timed out"
  /\ Record("transient")
  /\ canary' = [canary EXCEPT !.cron = "idle"]
  /\ UNCHANGED <<server, redis, mail, sinceCanary, reconcile, check, cached, refusing>>

\* reconcileSubscriptions: once a day, so not at two turns in a row.
Reconcile ==
  /\ reconcile = "waits" /\ sinceCanary = Hour
  /\ reconcile' = "runs"
  /\ UNCHANGED <<server, redis, mail, canary, sinceCanary, last, check, cached, refusing>>

ReconcileEnds ==
  /\ reconcile = "runs"
  /\ reconcile' = "over"
  /\ UNCHANGED <<server, redis, mail, canary, sinceCanary, last, check, cached, refusing>>

-----------------------------------------------------------------------------
(* getStatus *)

\* A load without a result, or a refresh; further loads share the check.
StartCheck ==
  /\ ~check.running
  /\ check' = [NoCheck EXCEPT !.running = TRUE]
  /\ UNCHANGED <<server, redis, mail, canary, sinceCanary, reconcile, last, cached, refusing>>

\* readSmtpHealth; "a failed read is no record".
ReadRecord ==
  /\ check.running /\ check.record = "unread"
  /\ check' = [check EXCEPT !.record = IF redis THEN last ELSE None]
  /\ UNCHANGED <<server, redis, mail, canary, sinceCanary, reconcile, last, cached, refusing>>

\* transporter.verify proves the login.
Verify ==
  /\ check.running /\ check.verified = "unread"
  /\ check' = [check EXCEPT !.verified = IF server = "hangs" THEN "no" ELSE "yes"]
  /\ UNCHANGED <<server, redis, mail, canary, sinceCanary, reconcile, last, cached, refusing>>

\* Mutant: what is said of the last send comes after the login.
HealthByLogin(record, verified, failures) ==
  CASE verified = "yes"                       -> "up"
    [] record = "hard" \/ verified = "no"      -> "down"

\* classifySmtpHealth; failures: of jobs lately, if the queue could be read.
Health(record, verified, failures) ==
  CASE record = "hard"                         -> "down"
    [] record # "hard" /\ verified = "no"      -> "down"
    [] record = "transient" /\ verified = "yes" -> "degraded"
    [] record = None /\ verified = "yes"       -> IF failures THEN "degraded" ELSE "up"
    [] record \in {"ok", "recipient"} /\ verified = "yes" -> "up"

EndCheck ==
  /\ check.record # "unread" /\ check.verified # "unread"
  /\ \E failures \in BOOLEAN :
       cached' = [status |-> Health(check.record, check.verified, failures), age |-> 0]
  /\ check' = NoCheck
  /\ UNCHANGED <<server, redis, mail, canary, sinceCanary, reconcile, last, refusing>>

-----------------------------------------------------------------------------

\* Outbound sending is disabled, the network fails, or all is well again.
ServerChanges(s) ==
  /\ s # server
  /\ server' = s
  /\ refusing' = 0
  /\ UNCHANGED <<redis, mail, canary, sinceCanary, reconcile, last, check, cached>>

RedisChanges ==
  /\ redis' = ~redis
  /\ refusing' = 0
  /\ UNCHANGED <<server, mail, canary, sinceCanary, reconcile, last, check, cached>>

\* Crons are punctual, and what runs ends within a tick.
Tick ==
  /\ sinceCanary < Hour
  /\ \A s \in Sender : mail[s] = "idle"
  /\ canary = [mail |-> "idle", cron |-> "idle"] /\ ~check.running
  /\ reconcile # "runs"
  /\ sinceCanary' = sinceCanary + 1
  /\ cached' = IF cached # None /\ cached.age + 1 < TTL THEN [cached EXCEPT !.age = @ + 1] ELSE None
  /\ refusing' = IF server = "refuses" /\ redis /\ refusing <= Limit THEN refusing + 1 ELSE refusing
  /\ UNCHANGED <<server, redis, mail, canary, reconcile, last, check>>

Next ==
  \/ \E s \in Sender : Answered(s) \/ Recorded(s)
  \/ CanaryTurn \/ CanaryAnswered \/ CanaryRecorded \/ CanaryTimesOut \/ TimeoutRecorded
  \/ Reconcile \/ ReconcileEnds
  \/ StartCheck \/ ReadRecord \/ Verify \/ EndCheck
  \/ \E s \in {"works", "refuses", "hangs"} : ServerChanges(s)
  \/ RedisChanges \/ Tick

Spec == Init /\ [][Next]_vars

-----------------------------------------------------------------------------

\* The record, the sends, the check and its result have their types.
TypeOK ==
  /\ server \in {"works", "refuses", "hangs"} /\ redis \in BOOLEAN
  /\ mail \in [Sender -> {"idle"} \cup Outcome]
  /\ canary \in [mail : {"idle", "sending"} \cup Outcome, cron : {"idle", "waiting", "timed out"}]
  /\ sinceCanary \in 0..Hour /\ reconcile \in {"waits", "runs", "over"}
  /\ last \in Outcome \cup {None}
  /\ check \in [running : BOOLEAN, record : Outcome \cup {None, "unread"},
                verified : {"unread", "yes", "no"}]
  /\ cached # None => cached \in [status : {"up", "degraded", "down"}, age : 0..(TTL - 1)]
  /\ refusing \in 0..(Limit + 1)

\* "A passing verify can never mask it" (checkSmtp), and "the admin status turns red within
\* the hour even when no customer happens to trigger an email" (smtpCanary), or within two
\* when the reconcile holds the lock: however sends, timeouts and checks overlap, a server
\* that refuses mail for so long is recorded as refusing, and the page says that it is down.
RefusalIsShown ==
  /\ refusing > 2 * Hour => last = "hard"
  /\ refusing > Limit /\ cached # None => cached.status = "down"

=============================================================================
