--------------------------- MODULE Subscriptions ---------------------------
(***************************************************************************)
(* Recurring PayPal subscriptions of one company: SubscriptionService, its  *)
(* rows and PayPal's side of them.  Every call to PayPal is a step of its    *)
(* own, so what a handler read may be old when its transaction runs.         *)
(*                                                                         *)
(* Of time, only whether the paid expiry lies ahead and the order of PayPal's *)
(* events are kept; the three hours after which an approval counts as         *)
(* abandoned only say that its subscribe request is over.                     *)
(* A sale costs its plan's exact price; which plan a cycle is credited to is  *)
(* left out.                                                                 *)
(***************************************************************************)
EXTENDS Integers, FiniteSets

CONSTANTS
  Sub,         \* subscription rows, each with its PayPal subscription
  Sale,        \* recurring charges PayPal may make
  Worker,      \* requests, webhook handlers and cron runs
  NoSub,       \* no subscription
  MaxChanges,  \* bound: changes PayPal makes on its own account
  MaxErrors,   \* bound: failed PayPal calls and crashed handlers
  MaySuspend,  \* PayPal may suspend a subscription, and bring it back
  MayBan       \* an admin may ban the company

ASSUME SubAssumption   == NoSub \notin Sub
ASSUME BoundAssumption == MaxChanges \in Nat /\ MaxErrors \in Nat
ASSUME FlagAssumption  == MaySuspend \in BOOLEAN /\ MayBan \in BOOLEAN

VARIABLES
  paypal,      \* paypal[s]: PayPal's status and whether its last charge failed
  notices,     \* state webhooks not yet handled: subscription and create_time
  saleNotices, \* PAYMENT.SALE.COMPLETED webhooks not yet handled
  changes,     \* changes at PayPal so far, the clock of create_time
  row,         \* row[s]: the status in `subscriptions`
  lastEvent,   \* last_event_at of each row
  current,     \* companies.current_subscription_id
  paid,        \* companies.subscription_expires_at lies in the future
  banned,      \* companies.deactivated_at is set
  saleOf,      \* saleOf[i]: the subscription sale i was charged on
  credited,    \* credited[i]: how often sale i extended the expiry
  flagged,     \* sales audited as charged on a duplicate
  worker,      \* worker[w]: what handler w has read and does next
  errors       \* errors so far

company == <<current, paid, banned>>
remotes == <<paypal, notices, changes>>
sales   == <<saleOf, saleNotices, credited, flagged>>
rows    == <<row, lastEvent>>
vars    == <<remotes, sales, rows, company, worker, errors>>

linked   == {s \in Sub : paypal[s].status # "none"}

State    == {"pending", "active", "past_due", "pending_cancel", "cancelled", "expired", "suspended"}
Live     == {"pending", "active", "past_due", "pending_cancel"}
Retired  == {"expired", "cancelled"}
Paypal   == {"none", "APPROVAL_PENDING", "ACTIVE", "SUSPENDED", "CANCELLED"}

Task     == {"webhook", "confirm", "sweep", "reconcile", "sale", "subscribe", "cancel", "ban", "none"}
Step     == {"idle", "create", "apply", "duplicate", "sales", "dupsale", "write"}
Resting  == [task |-> "none", step |-> "idle", sub |-> NoSub, time |-> 0,
             remote |-> [status |-> "none", failing |-> FALSE], todo |-> {}]

Idle(w)      == worker[w].step = "idle"
OtherLive(s) == \E t \in Sub \ {s} : row[t] \in Live

Init ==
  /\ paypal = [s \in Sub |-> [status |-> "none", failing |-> FALSE]]
  /\ notices = {} /\ saleNotices = {} /\ changes = 0
  /\ row = [s \in Sub |-> "absent"]
  /\ lastEvent = [s \in Sub |-> 0]
  /\ current = NoSub /\ paid = FALSE /\ banned = FALSE
  /\ saleOf = [i \in Sale |-> NoSub] /\ credited = [i \in Sale |-> 0] /\ flagged = {}
  /\ worker = [w \in Worker |-> Resting] /\ errors = 0

Error == errors < MaxErrors /\ errors' = errors + 1

Start(w, task, step, s) ==
  worker' = [worker EXCEPT ![w] = [Resting EXCEPT !.task = task, !.step = step, !.sub = s]]
Rest(w)       == worker' = [worker EXCEPT ![w] = Resting]
Goto(w, step) == worker' = [worker EXCEPT ![w].step = step]

-----------------------------------------------------------------------------
(* PayPal *)

\* s changes at PayPal, and a webhook with the next create_time joins those waiting.
ChangedBeside(waiting, s, status, failing) ==
  /\ paypal' = [paypal EXCEPT ![s] = [status |-> status, failing |-> failing]]
  /\ changes' = changes + 1
  /\ notices' = waiting \cup {[sub |-> s, time |-> changes + 1]}

Changed(s, status, failing) == ChangedBeside(notices, s, status, failing)

ByItself == changes < MaxChanges /\ UNCHANGED <<sales, rows, company, worker, errors>>

Approve(s) ==
  /\ paypal[s].status = "APPROVAL_PENDING" /\ ByItself
  /\ Changed(s, "ACTIVE", FALSE)

ChargeFails(s) ==
  /\ paypal[s] = [status |-> "ACTIVE", failing |-> FALSE] /\ ByItself
  /\ Changed(s, "ACTIVE", TRUE)

Suspend(s) ==
  /\ MaySuspend
  /\ paypal[s].status = "ACTIVE" /\ ByItself
  /\ Changed(s, "SUSPENDED", paypal[s].failing)

Reactivate(s) ==
  /\ paypal[s].status = "SUSPENDED" /\ ByItself
  /\ Changed(s, "ACTIVE", FALSE)

\* The buyer cancels on PayPal's own site.
CancelledByBuyer(s) ==
  /\ paypal[s].status \in {"ACTIVE", "SUSPENDED"} /\ ByItself
  /\ Changed(s, "CANCELLED", FALSE)

Charge(s) ==
  /\ paypal[s].status = "ACTIVE"
  /\ \E i \in Sale :
       /\ saleOf[i] = NoSub
       /\ saleOf' = [saleOf EXCEPT ![i] = s]
       /\ saleNotices' = saleNotices \cup {i}
  /\ paypal' = [paypal EXCEPT ![s].failing = FALSE]
  /\ UNCHANGED <<notices, changes, credited, flagged, rows, company, worker, errors>>

\* cancelSubscription: 404 while the approval is pending; 422, taken as done, when
\* the subscription is already cancelled.
CancelAtPaypal(s, waiting) ==
  \/ /\ paypal[s].status \in {"ACTIVE", "SUSPENDED"}
     /\ ChangedBeside(waiting, s, "CANCELLED", FALSE)
  \/ /\ paypal[s].status = "CANCELLED"
     /\ notices' = waiting /\ UNCHANGED <<paypal, changes>>

-----------------------------------------------------------------------------
(* subscribe *)

EndedCancellation(s) == row[s] = "pending_cancel" /\ ~paid

RetireEnded(r) == [s \in Sub |-> IF EndedCancellation(s) THEN "cancelled" ELSE r[s]]

Free(s) == row[s] = "absent" /\ \A v \in Worker : worker[v].sub # s

\* The company is read without a lock; then ended cancellations are retired and the
\* row inserted in one transaction, which the partial unique index undoes when another
\* live row is left.  One step: a live current row would fail the insert as well.
Subscribe(w) ==
  /\ Idle(w) /\ ~banned
  /\ \A t \in Sub : row[t] \notin Live \/ EndedCancellation(t)
  /\ \E s \in Sub :
       /\ Free(s)
       /\ row' = [RetireEnded(row) EXCEPT ![s] = "pending"]
       /\ Start(w, "subscribe", "create", s)
  /\ UNCHANGED <<lastEvent, remotes, sales, company, errors>>

\* PayPal has created it and its id is stored; the buyer gets the approval link.
Create(w) ==
  LET s == worker[w].sub IN
  /\ worker[w].step = "create"
  /\ paypal' = [paypal EXCEPT ![s].status = "APPROVAL_PENDING"]
  /\ Rest(w)
  /\ UNCHANGED <<notices, changes, sales, row, lastEvent, company, errors>>

CreateFails(w) ==
  LET s == worker[w].sub IN
  /\ worker[w].step = "create" /\ Error
  /\ row' = [row EXCEPT ![s] = "absent"]
  /\ Rest(w)
  /\ UNCHANGED <<remotes, sales, lastEvent, company>>

-----------------------------------------------------------------------------
(* applyRemoteState and its callers *)

\* getSubscription: PayPal's answer is what the handler goes on with.
Read(w, task, s, time) ==
  worker' = [worker EXCEPT ![w] = [Resting EXCEPT
    !.task = task, !.step = "apply", !.sub = s, !.time = time, !.remote = paypal[s]]]

Handling(n) == \E v \in Worker : worker[v].task = "webhook" /\ worker[v].sub = n.sub /\ worker[v].time = n.time

\* The ledger lets one handler at a time have an event.
Webhook(w, n) ==
  /\ Idle(w) /\ n \in notices /\ ~Handling(n)
  /\ Read(w, "webhook", n.sub, n.time)
  /\ UNCHANGED <<remotes, sales, rows, company, errors>>

\* The buyer returns from PayPal, or opens the return URL again later.
Confirm(w, s) ==
  /\ Idle(w) /\ s \in linked /\ ~banned
  /\ Read(w, "confirm", s, 0)
  /\ UNCHANGED <<remotes, sales, rows, company, errors>>

\* Mutant: the daily reconcile leaves cancelled subscriptions out of its list.
ReconciledOnlyUnpaid(s) == row[s] = "past_due" /\ s \in linked

Reconciled(s) == row[s] \in {"active", "past_due", "pending_cancel"} /\ s \in linked

Reconcile(w, s) ==
  /\ Idle(w) /\ Reconciled(s)
  /\ Read(w, "reconcile", s, 0)
  /\ UNCHANGED <<remotes, sales, rows, company, errors>>

\* retireAbandonedApprovals, hourly and before each subscribe.
Sweep(w, s) ==
  /\ Idle(w) /\ row[s] = "pending" /\ \A v \in Worker : worker[v].task = "subscribe" => worker[v].sub # s
  /\ Read(w, "sweep", s, 0)
  /\ UNCHANGED <<remotes, sales, rows, company, errors>>

OnNotice(w) == [sub |-> worker[w].sub, time |-> worker[w].time]

\* The status to store: PayPal's, past_due while a charge is failing, and a
\* pending_cancel of ours kept against PayPal's CANCELLED.
Mapped(remote) ==
  CASE remote.status = "ACTIVE"    -> IF remote.failing THEN "past_due" ELSE "active"
    [] remote.status = "SUSPENDED" -> "suspended"
    [] remote.status = "CANCELLED" -> "cancelled"
    [] OTHER                       -> "pending"

NewStatus(s, remote) ==
  IF row[s] = "pending_cancel" /\ remote.status = "CANCELLED" THEN "pending_cancel" ELSE Mapped(remote)

Abandoned(w) ==
  worker[w].task = "sweep" /\ worker[w].remote.status \in {"none", "APPROVAL_PENDING"}

Applying(w) == worker[w].step = "apply" /\ ~Abandoned(w)

OutOfOrder(w) == worker[w].time # 0 /\ worker[w].time <= lastEvent[worker[w].sub]

\* Mutant: a revived row is not checked against the newer one.
NeverDuplicate(s, status) == FALSE

Duplicate(s, status) == row[s] \in Retired /\ status \in Live /\ OtherLive(s)

\* The index refuses the write: the transaction is rolled back and the call throws.
Refused(s, status) == status \in Live /\ row[s] \notin Live /\ OtherLive(s)

\* expireIfPending.
ExpireAbandoned(w) ==
  LET s == worker[w].sub IN
  /\ worker[w].step = "apply" /\ Abandoned(w)
  /\ row' = [row EXCEPT ![s] = IF @ = "pending" THEN "expired" ELSE @]
  /\ Rest(w)
  /\ UNCHANGED <<remotes, sales, lastEvent, company, errors>>

\* The handler is done with its event; a reconcile goes on to the sales.
Listed(s)  == {i \in Sale : saleOf[i] = s}
Continue(w) ==
  IF worker[w].task = "reconcile" /\ Listed(worker[w].sub) # {}
    THEN worker' = [worker EXCEPT ![w].step = "sales", ![w].todo = Listed(worker[w].sub)]
    ELSE Rest(w)

Applied(w) == notices' = notices \ {OnNotice(w)} /\ Continue(w)

IgnoreOldEvent(w) ==
  /\ Applying(w) /\ OutOfOrder(w)
  /\ Applied(w)
  /\ UNCHANGED <<paypal, changes, sales, rows, company, errors>>

\* Mutant: only a confirmation points the company at its subscription.
CurrentOnConfirm(w, s, status) ==
  current' = IF status \in {"active", "past_due"} /\ worker[w].task = "confirm" THEN s ELSE current

SetCurrent(w, s, status) ==
  current' = IF status \in {"active", "past_due"} THEN s ELSE current

ApplyRemoteState(w) ==
  LET s == worker[w].sub  status == NewStatus(s, worker[w].remote) IN
  /\ Applying(w) /\ ~OutOfOrder(w)
  /\ ~Duplicate(s, status) /\ ~Refused(s, status)
  /\ row' = [row EXCEPT ![s] = status]
  /\ lastEvent' = [lastEvent EXCEPT ![s] = IF worker[w].time # 0 THEN worker[w].time ELSE @]
  /\ SetCurrent(w, s, status)
  /\ Applied(w)
  /\ UNCHANGED <<paypal, changes, sales, paid, banned, errors>>

FindDuplicate(w) ==
  LET s == worker[w].sub  status == NewStatus(s, worker[w].remote) IN
  /\ Applying(w) /\ ~OutOfOrder(w) /\ Duplicate(s, status)
  /\ Goto(w, "duplicate")
  /\ UNCHANGED <<remotes, sales, rows, company, errors>>

\* The webhook is answered 5xx and stays to be delivered again.
ApplyRefused(w) ==
  LET s == worker[w].sub  status == NewStatus(s, worker[w].remote) IN
  /\ Applying(w) /\ ~OutOfOrder(w) /\ ~Duplicate(s, status) /\ Refused(s, status)
  /\ Rest(w)
  /\ UNCHANGED <<remotes, sales, rows, company, errors>>

\* After the commit.  The webhook is done with only when PayPal has cancelled.
CancelDuplicate(w) ==
  LET s == worker[w].sub IN
  /\ worker[w].step = "duplicate"
  /\ CancelAtPaypal(s, notices \ {OnNotice(w)})
  /\ Continue(w)
  /\ UNCHANGED <<sales, rows, company, errors>>

CancelDuplicateRefused(w) ==
  /\ worker[w].step = "duplicate"
  /\ paypal[worker[w].sub].status = "APPROVAL_PENDING"
  /\ Rest(w)
  /\ UNCHANGED <<remotes, sales, rows, company, errors>>

-----------------------------------------------------------------------------
(* creditCycle *)

\* Mutant: the expiry is extended before the sale's row is inserted.
ExtendFirst(i) == credited' = [credited EXCEPT ![i] = @ + 1]

\* The sale's unique index admits it once, and only then the expiry is extended.
InsertThenExtend(i) == credited' = [credited EXCEPT ![i] = IF @ = 0 THEN 1 ELSE @]

\* Mutant: a charge on a revived row is credited like any other.
NeverCharged(s) == FALSE

ChargedOnDuplicate(s) == row[s] \in Retired /\ OtherLive(s)

CreditCycle(i, s) ==
  /\ InsertThenExtend(i)
  /\ IF credited[i] = 0
       THEN row' = [row EXCEPT ![s] = "active"] /\ paid' = TRUE
       ELSE UNCHANGED <<row, paid>>
  /\ UNCHANGED <<flagged, lastEvent, current, banned>>

CreditRefused(i, s) == credited[i] = 0 /\ Refused(s, "active")

\* A sale's webhook.
CreditSale(w, i) ==
  LET s == saleOf[i] IN
  /\ Idle(w) /\ i \in saleNotices
  /\ ~ChargedOnDuplicate(s) /\ ~CreditRefused(i, s)
  /\ CreditCycle(i, s)
  /\ saleNotices' = saleNotices \ {i}
  /\ UNCHANGED <<remotes, saleOf, worker, errors>>

FlagSale(w, i) ==
  LET s == saleOf[i] IN
  /\ Idle(w) /\ i \in saleNotices
  /\ ChargedOnDuplicate(s)
  /\ flagged' = flagged \cup {i}
  /\ saleNotices' = saleNotices \ {i}
  /\ Start(w, "sale", "dupsale", s)
  /\ UNCHANGED <<remotes, saleOf, credited, rows, company, errors>>

\* The cancel after a flagged sale: a failure is logged.
GoOn(w) == IF worker[w].todo = {} THEN Rest(w) ELSE Goto(w, "sales")

CancelAfterSale(w) ==
  /\ worker[w].step = "dupsale"
  /\ CancelAtPaypal(worker[w].sub, notices)
  /\ GoOn(w)
  /\ UNCHANGED <<sales, rows, company, errors>>

CancelAfterSaleFails(w) ==
  /\ worker[w].step = "dupsale" /\ Error
  /\ GoOn(w)
  /\ UNCHANGED <<remotes, sales, rows, company>>

\* The reconcile's sales, one after the other; an exception ends its run of s.
CreditListed(w, i) ==
  LET s == worker[w].sub  rest == worker[w].todo \ {i} IN
  /\ worker[w].step = "sales" /\ i \in worker[w].todo
  /\ ~ChargedOnDuplicate(s)
  /\ \/ /\ CreditRefused(i, s)
        /\ Rest(w)
        /\ UNCHANGED <<credited, flagged, rows, company>>
     \/ /\ ~CreditRefused(i, s) /\ CreditCycle(i, s)
        /\ IF rest = {} THEN Rest(w) ELSE worker' = [worker EXCEPT ![w].todo = rest]
  /\ UNCHANGED <<remotes, saleOf, saleNotices, errors>>

FlagListed(w, i) ==
  /\ worker[w].step = "sales" /\ i \in worker[w].todo
  /\ ChargedOnDuplicate(worker[w].sub)
  /\ flagged' = flagged \cup {i}
  /\ worker' = [worker EXCEPT ![w].step = "dupsale", ![w].todo = @ \ {i}]
  /\ UNCHANGED <<remotes, saleOf, saleNotices, credited, rows, company, errors>>

-----------------------------------------------------------------------------
(* cancel and cancelForAdmin *)

Cancel(w) ==
  /\ Idle(w) /\ ~banned
  /\ current # NoSub /\ row[current] \in {"active", "past_due"}
  /\ CancelAtPaypal(current, notices)
  /\ Start(w, "cancel", "write", current)
  /\ UNCHANGED <<sales, rows, company, errors>>

\* By id, whatever the row has become.
WriteCancel(w) ==
  LET s == worker[w].sub IN
  /\ worker[w].step = "write" /\ worker[w].task = "cancel"
  /\ row' = IF Refused(s, "pending_cancel") THEN row ELSE [row EXCEPT ![s] = "pending_cancel"]
  /\ Rest(w)
  /\ UNCHANGED <<remotes, sales, lastEvent, company, errors>>

\* AdminBanService.deactivateCompany, in one transaction around the PayPal call.
Ban(w) ==
  /\ MayBan /\ Idle(w) /\ ~banned
  /\ IF current # NoSub /\ row[current] \in Live
       THEN /\ CancelAtPaypal(current, notices)
            /\ Start(w, "ban", "write", current)
            /\ UNCHANGED banned
       ELSE banned' = TRUE /\ UNCHANGED <<remotes, worker>>
  /\ UNCHANGED <<sales, rows, current, paid, errors>>

WriteBan(w) ==
  LET s == worker[w].sub IN
  /\ worker[w].step = "write" /\ worker[w].task = "ban"
  /\ row' = [row EXCEPT ![s] = "cancelled"]
  /\ banned' = TRUE
  /\ Rest(w)
  /\ UNCHANGED <<remotes, sales, lastEvent, current, paid, errors>>

-----------------------------------------------------------------------------
(* Time and failure *)

\* Mutant: nothing moves an ended cancellation on.
KeepEnded == UNCHANGED row

RetireEndedCancellations == row' = RetireEnded(row)

\* The hourly cron.
Hourly ==
  /\ RetireEndedCancellations
  /\ UNCHANGED <<remotes, sales, lastEvent, company, worker, errors>>

PaidTimeEnds ==
  /\ paid' = FALSE
  /\ UNCHANGED <<remotes, sales, rows, current, banned, worker, errors>>

\* A handler dies, or a PayPal call of it fails before anything is written.
Dies(w) ==
  /\ ~Idle(w) /\ Error
  /\ Rest(w)
  /\ UNCHANGED <<remotes, sales, rows, company>>

-----------------------------------------------------------------------------

Handle(w) ==
  \/ Create(w)
  \/ ExpireAbandoned(w) \/ IgnoreOldEvent(w) \/ ApplyRemoteState(w) \/ ApplyRefused(w)
  \/ FindDuplicate(w) \/ CancelDuplicate(w) \/ CancelDuplicateRefused(w)
  \/ \E i \in Sale : CreditListed(w, i) \/ FlagListed(w, i)
  \/ CancelAfterSale(w) \/ WriteCancel(w) \/ WriteBan(w)

Fail(w) == CreateFails(w) \/ CancelAfterSaleFails(w) \/ Dies(w)

Paypals ==
  \E s \in Sub : Approve(s) \/ ChargeFails(s) \/ Suspend(s) \/ Reactivate(s)
                  \/ CancelledByBuyer(s) \/ Charge(s)

Next ==
  \/ Paypals \/ Hourly \/ PaidTimeEnds
  \/ \E w \in Worker :
       \/ Handle(w) \/ Fail(w) \/ Subscribe(w) \/ Cancel(w) \/ Ban(w)
       \/ \E n \in notices : Webhook(w, n)
       \/ \E s \in Sub : Confirm(w, s) \/ Reconcile(w, s) \/ Sweep(w, s)
       \/ \E i \in Sale : CreditSale(w, i) \/ FlagSale(w, i)

Spec == Init /\ [][Next]_vars

Running == \A w \in Worker : WF_vars(Handle(w))

\* The crons run; a webhook may never be handled, as one that is lost.
CronsRun ==
  /\ Running
  /\ WF_vars(Hourly)
  /\ \A s \in Sub :
       /\ SF_vars(\E w \in Worker : Reconcile(w, s))
       /\ SF_vars(\E w \in Worker : Sweep(w, s))

CronSpec == Spec /\ CronsRun

\* PayPal retries its webhooks until they are answered 2xx.
NoticeHandled(s) == \E w \in Worker, n \in notices : n.sub = s /\ Webhook(w, n)
SaleHandled(i)   == \E w \in Worker : CreditSale(w, i) \/ FlagSale(w, i)

WebhookSpec ==
  /\ Spec /\ Running
  /\ \A s \in Sub : SF_vars(NoticeHandled(s))
  /\ \A i \in Sale : SF_vars(SaleHandled(i))

-----------------------------------------------------------------------------

\* Rows, PayPal's side, sales and handlers have their types.
TypeOK ==
  /\ paypal \in [Sub -> [status : Paypal, failing : BOOLEAN]]
  /\ notices \subseteq [sub : Sub, time : Nat] /\ saleNotices \subseteq Sale /\ changes \in Nat
  /\ row \in [Sub -> State \cup {"absent"}]
  /\ lastEvent \in [Sub -> Nat]
  /\ current \in Sub \cup {NoSub} /\ paid \in BOOLEAN /\ banned \in BOOLEAN
  /\ saleOf \in [Sale -> Sub \cup {NoSub}] /\ credited \in [Sale -> Nat] /\ flagged \subseteq Sale
  /\ worker \in [Worker -> [task : Task, step : Step, sub : Sub \cup {NoSub}, time : Nat,
                            remote : [status : Paypal, failing : BOOLEAN], todo : SUBSET Sale]]
  /\ errors \in Nat

\* A sale extends the expiry once, whoever reports it: its webhook, again or late, or
\* the daily reconcile.
CreditedOnce == \A i \in Sale : credited[i] <= 1

\* Every charge is credited, or flagged for a refund, in the end.
SalesSettled ==
  \A i \in Sale : (saleOf[i] # NoSub) ~> (credited[i] > 0 \/ i \in flagged)

\* A subscription that ended at PayPal is not shown active for good, even when its
\* webhook is lost.
EndIsShown ==
  \A s \in Sub : paypal[s].status = "CANCELLED" ~> row[s] \notin {"active", "past_due"}

\* Of two subscriptions PayPal bills at once, one is cancelled there.
BilledOnce ==
  \A s, t \in Sub : s # t =>
    (paypal[s].status = "ACTIVE" /\ paypal[t].status = "ACTIVE") ~>
      (paypal[s].status # "ACTIVE" \/ paypal[t].status # "ACTIVE")

\* The one-live slot is not held for good by a cancellation whose time is over or by
\* an approval nobody gave.
SlotIsFreed ==
  \A s \in Sub :
    /\ row[s] = "pending_cancel" ~> (row[s] # "pending_cancel" \/ paid)
    /\ row[s] = "pending" ~> (row[s] # "pending")

\* The company comes to point at its live subscription, without which cancel and
\* changePlan refuse and a ban does not stop the billing.
CurrentFollows ==
  \A s \in Sub : row[s] \in {"active", "past_due"} ~>
    (current = s \/ row[s] \notin {"active", "past_due"})

\* "a banned company must stop being charged" (cancelForAdmin).
BannedIsNotBilled == banned ~> \A s \in Sub : paypal[s].status # "ACTIVE"

=============================================================================
