---------------------------- MODULE MCOperations ----------------------------
(* Registration for TLC, beside instances of LuckyDraw, Notices, PlanChanges,             *)
(* Subscriptions, SmtpHealth and Crons: what goes by links, mails, webhooks and jobs, and *)
(* the draw.  A behaviour is about one of them, its focus, and leaves the variables of    *)
(* the others alone.                                                                      *)
EXTENDS Registration, TLC

CONSTANTS m1, e1, p1, s1, s2

VARIABLES
  focus,
  running, banned, free, bought, used, granted, winner, entered, order, spin,
  day, deadline, owner, marker, claimed, mailJob, handback, sent, lost, unclear,
  price, billed, selling, remote, script, atPaypal, offered, stored, sale, lastCycle, worker,
  paypal, stateNotices, saleNotices, paypalChanges, row, lastEvent, current, paid, barred, saleOf,
  credited, flagged, handler, errors,
  server, redis, mail, canary, sinceCanary, reconcile, last, check, cached, refusing,
  phase, run, holder, requests, mailing, late

Two       == Account
One       == {m1}
HashOf(e) == <<e>>
Shared    == {{p1}, {Hash(e1), p1}}

\* One signup with everything that can happen to it, and two that share identities and go
\* through nothing but their verification.
Single ==
  /\ Next
  /\ \A a, b \in Account : account'[a].state # "unused" /\ account'[b].state # "unused" => a = b
  /\ \A a \in Account : account'[a].contact \subseteq {p1}

Pair ==
  /\ Next
  /\ UNCHANGED <<reset, change>>
  /\ \A w \in Worker : job'[w].task # "reset"
  /\ \A a \in Account : account'[a].payment = "none" /\ account'[a].held = "no"

Draw == INSTANCE LuckyDraw WITH Customer <- Two, MaxSpins <- 1

\* A notice retried once; one with a report beside it; and two with their own clocks.
Ended  == INSTANCE Notices WITH Kind <- {"subscription_ended"}, Report <- {},
                                Attempts <- 2, MaxDay <- 2, MaxUnclear <- 2,
                                job <- mailJob
Ending == INSTANCE Notices WITH Kind <- {"trial_ending"}, Report <- One,
                                Attempts <- 2, MaxDay <- 2, MaxUnclear <- 1,
                                job <- mailJob
Clocks == INSTANCE Notices WITH Kind <- {"trial_ended", "subscription_ending"}, Report <- {},
                                Attempts <- 2, MaxDay <- 2, MaxUnclear <- 1,
                                job <- mailJob

\* Two handlers of one sale, and two sales, named like the workers, whose notices come one by one.
Beside == INSTANCE PlanChanges WITH Plan <- Two, Price <- Two, Sale <- One
Behind == INSTANCE PlanChanges WITH Plan <- Two, Price <- Two, Sale <- Worker, Worker <- One

\* Suspension, a failing call and two handlers beside a subscription that is under way.
Billing == INSTANCE Subscriptions WITH Sub <- {s1, s2}, Sale <- One, NoSub <- None,
                                       MaxChanges <- 2, MaxErrors <- 1,
                                       MaySuspend <- TRUE, MayBan <- FALSE,
                                       notices <- stateNotices, changes <- paypalChanges,
                                       banned <- barred, worker <- handler

Status == INSTANCE SmtpHealth WITH Sender <- One, TTL <- 2, Hour <- 1

\* Two jobs that share a key, and one with a key of its own beside one without a lock.
Alike == "smtpCanary" :> "4820120" @@ "subscriptionReconcile" :> "4820120"
Plain == "accountDeletion" :> "47112027" @@ "tokenCleanup" :> None

Sharing == INSTANCE Crons WITH Instance <- Two, Job <- DOMAIN Alike, Key <- Alike
Apart   == INSTANCE Crons WITH Instance <- Two, Job <- DOMAIN Plain, Key <- Plain

registration == <<account, link, reset, change, claim, trials, job, cleaner>>
draw    == <<running, banned, free, bought, used, granted, winner, entered, order, spin>>
notices == <<day, deadline, owner, marker, claimed, mailJob, handback, sent, lost, unclear>>
changes == <<price, billed, selling, remote, script, atPaypal, offered, stored, sale, lastCycle,
             worker>>
billing == <<paypal, stateNotices, saleNotices, paypalChanges, row, lastEvent, current, paid,
             barred, saleOf, credited, flagged, handler, errors>>
status  == <<server, redis, mail, canary, sinceCanary, reconcile, last, check, cached, refusing>>
crons   == <<phase, run, holder, requests, mailing, late>>

NoDraw ==
  /\ running = None /\ banned = None /\ free = None /\ bought = None /\ used = None
  /\ granted = None /\ winner = None /\ entered = None /\ order = None /\ spin = None

NoChanges ==
  /\ price = None /\ billed = None /\ selling = None /\ remote = None /\ script = None
  /\ atPaypal = None /\ offered = None /\ stored = None /\ sale = None /\ lastCycle = None
  /\ worker = None

\* The first subscription is approved and its webhook handled.
Subscribed ==
  /\ paypal = [s \in {s1, s2} |-> [status |-> IF s = s1 THEN "ACTIVE" ELSE "none", failing |-> FALSE]]
  /\ stateNotices = {} /\ saleNotices = {} /\ paypalChanges = 1
  /\ row = [s \in {s1, s2} |-> IF s = s1 THEN "active" ELSE "absent"]
  /\ lastEvent = [s \in {s1, s2} |-> IF s = s1 THEN 1 ELSE 0]
  /\ current = s1 /\ paid = FALSE /\ barred = FALSE
  /\ saleOf = [i \in One |-> None] /\ credited = [i \in One |-> 0] /\ flagged = {}
  /\ handler = [w \in Worker |-> Billing!Resting] /\ errors = 0

AnyInit ==
  /\ focus \in {"alone", "pair", "draw", "ended", "ending", "clocks", "beside", "behind",
                "billing", "status", "shared", "plain"}
  /\ Init
  /\ IF focus = "draw" THEN Draw!Init ELSE NoDraw
  /\ IF focus = "ending" THEN Ending!Init ELSE IF focus = "clocks" THEN Clocks!Init ELSE Ended!Init
  /\ CASE focus = "beside" -> Beside!Init
       [] focus = "behind" -> Behind!Init
       [] OTHER            -> NoChanges
  /\ Subscribed
  /\ Status!Init /\ (focus # "status" => last = None)
  /\ IF focus = "shared" THEN Sharing!Init ELSE Apart!Init

AnyNext ==
  \/ focus = "alone" /\ Single /\ UNCHANGED <<focus, draw, notices, changes, billing, status, crons>>
  \/ focus = "pair" /\ Pair /\ UNCHANGED <<focus, draw, notices, changes, billing, status, crons>>
  \/ focus = "draw" /\ Draw!Next /\ UNCHANGED <<focus, registration, notices, changes, billing, status, crons>>
  \/ focus = "ended" /\ Ended!Next /\ UNCHANGED <<focus, registration, draw, changes, billing, status, crons>>
  \/ focus = "ending" /\ Ending!Next /\ UNCHANGED <<focus, registration, draw, changes, billing, status, crons>>
  \/ focus = "clocks" /\ Clocks!Next /\ UNCHANGED <<focus, registration, draw, changes, billing, status, crons>>
  \/ focus = "beside" /\ Beside!Next /\ UNCHANGED <<focus, registration, draw, notices, billing, status, crons>>
  \/ focus = "behind" /\ Behind!Next /\ UNCHANGED <<focus, registration, draw, notices, billing, status, crons>>
  \/ focus = "billing" /\ Billing!Next /\ UNCHANGED <<focus, registration, draw, notices, changes, status, crons>>
  \/ focus = "status" /\ Status!Next /\ UNCHANGED <<focus, registration, draw, notices, changes, billing, crons>>
  \/ focus = "shared" /\ Sharing!Next /\ UNCHANGED <<focus, registration, draw, notices, changes, billing, status>>
  \/ focus = "plain" /\ Apart!Next /\ UNCHANGED <<focus, registration, draw, notices, changes, billing, status>>

AnySpec ==
  AnyInit /\ [][AnyNext]_<<focus, registration, draw, notices, changes, billing, status, crons>>

Symmetric == Permutations(Account) \cup Permutations(Worker)

\* The variables of every module have their types.
AllTyped ==
  CASE focus \in {"alone", "pair"} -> TypeOK
    [] focus = "draw"   -> Draw!TypeOK
    [] focus = "ended"  -> Ended!TypeOK
    [] focus = "ending" -> Ending!TypeOK
    [] focus = "clocks" -> Clocks!TypeOK
    [] focus = "beside" -> Beside!TypeOK
    [] focus = "behind" -> Behind!TypeOK
    [] focus = "billing" -> Billing!TypeOK
    [] focus = "status" -> Status!TypeOK
    [] focus = "shared" -> Sharing!TypeOK
    [] focus = "plain"  -> Apart!TypeOK

\* No pool of spins is overdrawn (LuckyDrawService.spin).
SpinsWithinBudget == focus = "draw" => Draw!SpinsWithinBudget

\* A notice that is stamped as announced was or will be sent (sendExpiryNotices).
NoticeKept ==
  /\ focus = "ended"  => Ended!NoticeKept
  /\ focus = "ending" => Ending!NoticeKept
  /\ focus = "clocks" => Clocks!NoticeKept

\* A notice is sent once (claimExpiryNotices).
NoticedOnce ==
  /\ focus = "ended"  => Ended!NoticedOnce
  /\ focus = "ending" => Ending!NoticedOnce
  /\ focus = "clocks" => Clocks!NoticedOnce

\* A sale is credited to the plan that was charged, or flagged for a reason (creditCycle).
CreditedAsCharged ==
  /\ focus = "beside" => Beside!CreditedAsCharged
  /\ focus = "behind" => Behind!CreditedAsCharged

\* A sale extends the expiry once, whoever reports it (creditCycle).
CreditedOnce == focus = "billing" => Billing!CreditedOnce

\* A server that refuses mail is shown as down within two hours (smtpCanary).
RefusalIsShown == focus = "status" => Status!RefusalIsShown

\* A job's lock is neither shared nor leaked, and no work loses its pool early (shutdown).
OneRun ==
  /\ focus = "shared" => Sharing!OneRun
  /\ focus = "plain"  => Apart!OneRun

=============================================================================
