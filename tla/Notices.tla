------------------------------ MODULE Notices ------------------------------
(***************************************************************************)
(* The mails one company gets on its own: the four expiry notices, which the *)
(* hourly cron claims in the database and then puts on the Redis queue, and   *)
(* reports of committed changes (receipts, refunds, failed renewals).         *)
(*                                                                         *)
(* A deadline is a day, and a notice is a kind with its deadline, which is also *)
(* the id of its job; the trial notices look two days ahead, the paid ones one.  *)
(* Attempts of one job are counted; the backoff between them is not.             *)
(***************************************************************************)
EXTENDS Integers

CONSTANTS
  Kind,       \* the kinds of notices told apart
  Report,     \* changes that are reported by mail
  Attempts,   \* attempts of a job (5 in the code)
  MaxDay,     \* bound: days
  MaxUnclear  \* bound: times the mail server takes one mail without saying so

VARIABLES
  day,        \* today
  deadline,   \* deadline[c]: the end of the trial or of the paid time, 0 for none
  owner,      \* "unverified", "plain", "held" (comped or deactivated) or "renewing"
  marker,     \* marker[k]: the deadline stamped as announced, 0 for none
  claimed,    \* notices claimed by a tick and not queued yet
  job,        \* job[m]: the queue's job for mail m
  handback,   \* handback[m]: the step of releaseNoticeClaim
  sent,       \* sent[m]: times the mail server accepted m
  lost,       \* notices given up with an error in the log, or with a process
  unclear     \* unclear[m]: times the mail server took m without saying so

vars == <<day, deadline, owner, marker, claimed, job, handback, sent, lost, unclear>>

Clock  == {"trial", "paid"}
Day    == 1 .. MaxDay
Notice == Kind \X Day
Mail   == Notice \cup Report

clock(k) == IF k \in {"trial_ending", "trial_ended"} THEN "trial" ELSE "paid"

NoJob == [state |-> "none", tries |-> 0, stalled |-> FALSE]

Init ==
  /\ day = 1
  /\ deadline = [c \in Clock |-> 0]
  /\ owner = "unverified"
  /\ marker = [k \in Kind |-> 0]
  /\ claimed = {}
  /\ job = [m \in Mail |-> NoJob]
  /\ handback = [m \in Mail |-> "none"]
  /\ sent = [m \in Mail |-> 0]
  /\ lost = {}
  /\ unclear = [m \in Mail |-> 0]

-----------------------------------------------------------------------------
(* The cron: claim, then queue *)

\* EXPIRY_NOTICE_SQL.
Near(k) ==
  LET d == deadline[clock(k)] IN
  CASE k = "trial_ending"        -> day < d /\ d <= day + 2
    [] k = "subscription_ending" -> day < d /\ d <= day + 1
    [] OTHER                     -> d <= day

Concerned(k) ==
  IF clock(k) = "trial" THEN owner # "unverified" /\ deadline["paid"] = 0
                        ELSE owner # "renewing"

Due(k) == deadline[clock(k)] # 0 /\ owner # "held" /\ Concerned(k) /\ Near(k)

\* Mutant: the marker is not compared with the deadline.
AnyMarker(k) == TRUE

\* IS DISTINCT FROM: also when there is no marker.
Unmarked(k) == marker[k] # deadline[clock(k)]

\* claimExpiryNotices, under the advisory lock of its kind.
Claim(k) ==
  /\ Due(k) /\ Unmarked(k)
  /\ marker' = [marker EXCEPT ![k] = deadline[clock(k)]]
  /\ claimed' = claimed \cup {<<k, deadline[clock(k)]>>}
  /\ UNCHANGED <<day, deadline, owner, job, handback, sent, lost, unclear>>

\* queue.add: a job with this id, also one that failed, makes it a duplicate.
Add(m) == job' = IF job[m].state = "none" THEN [job EXCEPT ![m].state = "queued"] ELSE job

\* A notice whose failed job is about to be removed is dropped with it.
Enqueue(n) ==
  /\ n \in claimed
  /\ claimed' = claimed \ {n}
  /\ Add(n)
  /\ lost' = IF job[n].state = "failed" THEN lost \cup {n} ELSE lost
  /\ UNCHANGED <<day, deadline, owner, marker, handback, sent, unclear>>

\* Mutant: the claim of a notice that could not be queued stays.
KeepClaim(k) == marker

\* releaseExpiryNotice, whatever deadline the marker names by now.
ReleaseClaim(k) == [marker EXCEPT ![k] = 0]

\* queue.add throws; it may have reached Redis.  The release may fail as well.
EnqueueFails(n) ==
  /\ n \in claimed
  /\ claimed' = claimed \ {n}
  /\ UNCHANGED job \/ Add(n)
  /\ \/ marker' = ReleaseClaim(n[1]) /\ UNCHANGED lost
     \/ lost' = lost \cup {n} /\ UNCHANGED marker
  /\ UNCHANGED <<day, deadline, owner, handback, sent, unclear>>

\* NotificationService: after the commit, and never to fail what it reports.
Reported(r) ==
  /\ job[r].state = "none" /\ Add(r)
  /\ UNCHANGED <<day, deadline, owner, marker, claimed, handback, sent, lost, unclear>>

-----------------------------------------------------------------------------
(* The worker *)

Queued(m) == job[m].state = "queued"

Send(m) ==
  /\ Queued(m)
  /\ job' = [job EXCEPT ![m].state = "done"]
  /\ sent' = [sent EXCEPT ![m] = @ + 1]
  /\ UNCHANGED <<day, deadline, owner, marker, claimed, handback, lost, unclear>>

\* hasExhaustedRetries.
Exhausted(tries) == tries >= Attempts

\* The queue's default job options: BullMQ tries again until the attempts are used up.
Retried(tries) == tries < Attempts

\* The listener on "failed" runs after BullMQ has stored the failure.
Listener(m, tries) ==
  handback' = IF m \in Notice /\ Exhausted(tries) THEN [handback EXCEPT ![m] = "release"] ELSE handback

Failed(m) ==
  LET tries == job[m].tries + 1 IN
  /\ job' = [job EXCEPT ![m].state = IF Retried(tries) THEN "queued" ELSE "failed", ![m].tries = tries]
  /\ Listener(m, tries)
  /\ UNCHANGED lost

\* The worker dies with the job.  BullMQ puts it back, and the second time fails it with
\* attempts left, which the listener does not take for final.
Stalled(m) ==
  \/ /\ ~job[m].stalled
     /\ job' = [job EXCEPT ![m].stalled = TRUE]
     /\ UNCHANGED <<handback, lost>>
  \/ /\ job[m].stalled
     /\ \E tries \in {job[m].tries, job[m].tries + 1} :
          /\ job' = [job EXCEPT ![m].state = "failed", ![m].tries = tries]
          /\ Listener(m, tries)
          /\ lost' = IF m \in Notice /\ ~Exhausted(tries) THEN lost \cup {m} ELSE lost

Attempt(m) ==
  /\ Queued(m)
  /\ Failed(m) \/ Stalled(m)
  /\ UNCHANGED <<day, deadline, owner, marker, claimed, sent, unclear>>

\* The server takes the mail, and the connection or the process dies before it is known.
Unclear(m) ==
  /\ Queued(m) /\ unclear[m] < MaxUnclear
  /\ sent' = [sent EXCEPT ![m] = @ + 1]
  /\ unclear' = [unclear EXCEPT ![m] = @ + 1]
  /\ Failed(m) \/ Stalled(m)
  /\ UNCHANGED <<day, deadline, owner, marker, claimed>>

\* releaseNoticeClaim: the claim first, and then the job.
Release(n) ==
  /\ handback[n] = "release"
  /\ \/ /\ marker' = ReleaseClaim(n[1])
        /\ handback' = [handback EXCEPT ![n] = "remove"]
        /\ UNCHANGED lost
     \/ /\ lost' = lost \cup {n}
        /\ handback' = [handback EXCEPT ![n] = "none"]
        /\ UNCHANGED marker
  /\ UNCHANGED <<day, deadline, owner, claimed, job, sent, unclear>>

Remove(n) ==
  /\ handback[n] = "remove"
  /\ handback' = [handback EXCEPT ![n] = "none"]
  /\ job' = [job EXCEPT ![n] = NoJob]
  /\ UNCHANGED <<day, deadline, owner, marker, claimed, sent, lost, unclear>>

\* removeOnComplete: a day or a thousand mails later, when an hourly tick has stamped
\* again what a hand-back cleared, and no other notice of the kind is being tried.
Forget(n) ==
  /\ job[n].state = "done"
  /\ marker[n[1]] = n[2] \/ (day >= n[2] /\ deadline[clock(n[1])] # n[2])
  /\ \A d \in Day : LET other == <<n[1], d>> IN
       ~Queued(other) /\ handback[other] = "none" /\ other \notin claimed
  /\ job' = [job EXCEPT ![n] = NoJob]
  /\ UNCHANGED <<day, deadline, owner, marker, claimed, handback, sent, lost, unclear>>

\* A process goes down with what its tick or its listeners had to do.
Crash ==
  /\ claimed # {} \/ \E n \in Notice : handback[n] # "none"
  /\ lost' = lost \cup claimed \cup {n \in Notice : handback[n] # "none"}
  /\ claimed' = {}
  /\ handback' = [m \in Mail |-> "none"]
  /\ UNCHANGED <<day, deadline, owner, marker, job, sent, unclear>>

-----------------------------------------------------------------------------
(* What the notices are about *)

\* A tick takes minutes.
Midnight ==
  /\ day < MaxDay /\ claimed = {}
  /\ day' = day + 1
  /\ UNCHANGED <<deadline, owner, marker, claimed, job, handback, sent, lost, unclear>>

\* A deadline is an instant: only a refund, which takes back exactly what was added,
\* ever returns to one that a notice has named.
New(c, d) ==
  \A k \in Kind : clock(k) = c =>
    LET n == <<k, d>> IN marker[k] # d /\ n \notin claimed /\ sent[n] = 0 /\ job[n] = NoJob

\* A trial starts or is extended, a plan is paid or renewed: later than before.
Extend(c, d) ==
  /\ d > day /\ d > deadline[c] /\ New(c, d)
  /\ deadline' = [deadline EXCEPT ![c] = d]
  /\ \/ UNCHANGED marker
     \/ c = "paid" /\ marker' = [marker EXCEPT !["subscription_ended"] = 0]
  /\ UNCHANGED <<day, owner, claimed, job, handback, sent, lost, unclear>>

\* subtractPaidWindow, for a refund.
Refund(d) ==
  /\ day <= d /\ d < deadline["paid"]
  /\ d > day \/ New("paid", d)
  /\ deadline' = [deadline EXCEPT !["paid"] = d]
  /\ marker' = [marker EXCEPT !["subscription_ended"] = 0]
  /\ UNCHANGED <<day, owner, claimed, job, handback, sent, lost, unclear>>

\* The owner verifies; a comp, a ban or a recurring subscription begins or ends.
OwnerChanges ==
  /\ \/ owner # "plain" /\ owner' = "plain"
     \/ owner = "plain" /\ owner' \in {"held", "renewing"}
  /\ UNCHANGED <<day, deadline, marker, claimed, job, handback, sent, lost, unclear>>

Next ==
  \/ \E k \in Kind : Claim(k)
  \/ \E n \in Notice : Enqueue(n) \/ EnqueueFails(n) \/ Release(n) \/ Remove(n) \/ Forget(n)
  \/ \E r \in Report : Reported(r)
  \/ \E m \in Mail : Send(m) \/ Attempt(m) \/ Unclear(m)
  \/ \E d \in Day : Refund(d) \/ \E c \in Clock : Extend(c, d)
  \/ Crash \/ Midnight \/ OwnerChanges

Spec == Init /\ [][Next]_vars

-----------------------------------------------------------------------------

\* Days, markers and jobs have their types.
TypeOK ==
  /\ day \in Day
  /\ deadline \in [Clock -> Day \cup {0}]
  /\ owner \in {"unverified", "plain", "held", "renewing"}
  /\ marker \in [Kind -> Day \cup {0}]
  /\ claimed \subseteq Notice
  /\ job \in [Mail -> [state : {"none", "queued", "failed", "done"}, tries : 0 .. Attempts,
                    stalled : BOOLEAN]]
  /\ handback \in [Mail -> {"none", "release", "remove"}]
  /\ sent \in [Mail -> Nat]
  /\ lost \subseteq Notice
  /\ unclear \in [Mail -> Nat]

\* "The marker is committed, so nothing would ever look at that company again"
\* (sendExpiryNotices): a marker that names the deadline stands for a notice that was
\* sent or still will be, unless a process or the database failed the hand-back, a tick came
\* between its two steps, or the worker died twice with the job.
NoticeKept ==
  \A k \in Kind :
    LET n == <<k, marker[k]>> IN
    (marker[k] # 0 /\ marker[k] = deadline[clock(k)]) =>
      \/ sent[n] > 0 \/ n \in claimed \/ Queued(n)
      \/ handback[n] = "release"
      \/ n \in lost

\* "Two app instances unable to both email the same customer" (claimExpiryNotices), also
\* over retries and hand-backs: one mail per notice and report, and one more for each time
\* the mail server took it without saying so.
NoticedOnce == \A m \in Mail : sent[m] <= 1 + unclear[m]

=============================================================================
