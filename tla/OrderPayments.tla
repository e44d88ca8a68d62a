---------------------------- MODULE OrderPayments ----------------------------
(***************************************************************************)
(* One company buying one-time plan orders and Lucky Draw spin add-ons      *)
(* through PayPal's Orders API: the rows of the `payments` table, the paid  *)
(* expiry they move (companies.subscription_expires_at), PayPal's own view  *)
(* of each order, and the four paths that settle a row:                     *)
(*   - the synchronous capture  (PaymentService.capturePayment),            *)
(*   - the webhook PAYMENT.CAPTURE.COMPLETED (PaymentService.handleWebhook),*)
(*   - the reversal webhooks    (PaypalWebhookService.handleReversal),      *)
(*   - the reconcile cron       (PaymentService.reconcileStuckCaptures).    *)
(*                                                                         *)
(* Time is counted in ticks of at least RECONCILE_AFTER_MINUTES, so a row   *)
(* claimed in an earlier tick is "stuck" for the reconcile cron.            *)
(***************************************************************************)
EXTENDS Integers, FiniteSets

CONSTANTS
  Order,             \* payment rows, each with its PayPal order
  Req,               \* concurrent executions of capturePayment
  Kind,              \* Kind[o]: what the order buys
  Days,              \* ticks of access one plan order buys (plans.duration_days)
  MaxTime,           \* bound: the clock stops here
  BatchSize,         \* rows one reconcile run looks at (RECONCILE_BATCH_SIZE)
  PendingAnswers,    \* PayPal may leave a capture PENDING (eCheck, review)
  Returns,           \* ways money goes back: refunded, reversed, partial
  Null               \* a NULL column

Kinds == {"order", "spin_addon"}

ASSUME OrderAssumption  == IsFiniteSet(Order)
ASSUME KindAssumption   == Kind \in [Order -> Kinds]
ASSUME DaysAssumption   == Days \in Nat \ {0}
ASSUME TimeAssumption   == MaxTime \in Nat
ASSUME BatchAssumption  == BatchSize \in Nat \ {0}
ASSUME AnswerAssumption == PendingAnswers \in BOOLEAN
ASSUME ReturnAssumption == Returns \subseteq {"refunded", "reversed", "partial"}
ASSUME NullAssumption   == Null \notin Int /\ Null \notin Order

VARIABLES
  now,         \* the clock
  status,      \* status[o]: payments.status; "none" before the row exists
  startsAt,    \* startsAt[o]: payments.subscription_starts_at
  endsAt,      \* endsAt[o]: payments.subscription_ends_at
  claimedAt,   \* claimedAt[o]: payments.updated_at, kept only while capturing
  captureId,   \* captureId[o]: paypal_response names the capture
  flagged,     \* orders whose paypal_response carries a partial refund
  expiry,      \* companies.subscription_expires_at
  freeOpen,    \* the trial or comp period spins were bought for is still open
  req,         \* req[r]: where an execution of capturePayment is
  recon,       \* the reconcile run in progress
  paypal,      \* paypal[o]: PayPal's state of the order and its capture
  sent,        \* notifications PayPal has issued, never withdrawn
  handled,     \* reversal notifications the event ledger has marked processed
  grants,      \* history: how often order o has extended the paid expiry
  takebacks    \* history: how often a reversal of o has taken that back

rows     == <<status, startsAt, endsAt, claimedAt, captureId, flagged>>
company  == <<expiry, freeOpen>>
remote   == <<paypal, sent>>
history  == <<grants, takebacks>>
vars     == <<now, rows, company, req, recon, remote, handled, history>>

Status     == {"none", "pending", "capturing", "captured", "failed", "refunded"}
Paid       == {"completed", "partly_refunded"}   \* PayPal holds the buyer's money
PaypalState == {"none", "created", "approved", "pending", "declined",
                "refunded"} \cup Paid
Answer     == {"none", "completed", "not_completed", "declined"}
ReqState   == [pc : {"idle", "claimed", "calling", "answered"},
               order : Order \cup {Null}, answer : Answer]
Decision   == {"none", "complete", "fail", "wait"}
ReversalType == {"refunded", "reversed", "denied", "partial"}
Event      == [type : ReversalType \cup {"completed"}, order : Order]

Idle       == [pc |-> "idle", order |-> Null, answer |-> "none"]
Resting    == [stuck |-> {}, order |-> Null, decision |-> "none"]
Notice(type, o) == [type |-> type, order |-> o]

\* A request that has claimed o and not yet given up or finished.
Active(r, o) == req[r].pc # "idle" /\ req[r].order = o

Extends(o) == Kind[o] = "order"
Later(a, b) == IF a >= b THEN a ELSE b

-----------------------------------------------------------------------------

Init ==
  /\ now = 0
  /\ status = [o \in Order |-> "none"]
  /\ startsAt = [o \in Order |-> Null]
  /\ endsAt = [o \in Order |-> Null]
  /\ claimedAt = [o \in Order |-> 0]
  /\ captureId = [o \in Order |-> FALSE]
  /\ flagged = {}
  /\ expiry = Null
  /\ freeOpen = TRUE
  /\ req = [r \in Req |-> Idle]
  /\ recon = Resting
  /\ paypal = [o \in Order |-> "none"]
  /\ sent = {}
  /\ handled = {}
  /\ grants = [o \in Order |-> 0]
  /\ takebacks = [o \in Order |-> 0]

-----------------------------------------------------------------------------
(* Buying: initiatePayment and initiateSpinPurchase.                         *)

\* findCurrentPaidWindow: the window of a captured plan order running now.
RunningWindow(w) ==
  /\ status[w] = "captured" /\ Extends(w)
  /\ startsAt[w] <= now /\ now < endsAt[w]

\* createOrder at PayPal, then the pending row.  If the process dies in between
\* nobody is given a link to the order, and nothing more can happen to it.  An
\* add-on bought on a paid plan copies the running window; one bought on a trial
\* or comp names that free period, which is freeOpen here; a plan order has no
\* window until it is captured.
Initiate(o) ==
  /\ status[o] = "none"
  /\ status' = [status EXCEPT ![o] = "pending"]
  /\ paypal' = [paypal EXCEPT ![o] = "created"]
  /\ \/ Kind[o] = "order" /\ UNCHANGED <<startsAt, endsAt>>
     \/ /\ Kind[o] = "spin_addon"
        /\ \E w \in Order :
             /\ RunningWindow(w)
             /\ startsAt' = [startsAt EXCEPT ![o] = startsAt[w]]
             /\ endsAt' = [endsAt EXCEPT ![o] = endsAt[w]]
     \/ /\ Kind[o] = "spin_addon" /\ freeOpen
        /\ ~ \E w \in Order : RunningWindow(w)
        /\ UNCHANGED <<startsAt, endsAt>>
  /\ UNCHANGED <<now, claimedAt, captureId, flagged, company, req, recon, sent,
                 handled, history>>

-----------------------------------------------------------------------------
(* capturePayment.                                                          *)

\* Mutant: the claim forgets `status = 'pending'`.
ClaimAnyOpenRow(r, o) ==
  /\ req[r].pc = "idle" /\ now < MaxTime
  /\ status[o] \in {"pending", "capturing"}
  /\ status' = [status EXCEPT ![o] = "capturing"]
  /\ claimedAt' = [claimedAt EXCEPT ![o] = now]
  /\ req' = [req EXCEPT ![r] = [pc |-> IF Extends(o) THEN "calling" ELSE "claimed",
                                order |-> o, answer |-> "none"]]
  /\ UNCHANGED <<now, startsAt, endsAt, captureId, flagged, company, recon, remote,
                 handled, history>>

\* claimForCapture: one conditional UPDATE, pending -> capturing.  A caller
\* that does not win it returns or throws without changing anything.
ClaimForCapture(r, o) ==
  /\ req[r].pc = "idle" /\ now < MaxTime
  /\ status[o] = "pending"
  /\ status' = [status EXCEPT ![o] = "capturing"]
  /\ claimedAt' = [claimedAt EXCEPT ![o] = now]
  /\ req' = [req EXCEPT ![r] = [pc |-> IF Extends(o) THEN "calling" ELSE "claimed",
                                order |-> o, answer |-> "none"]]
  /\ UNCHANGED <<now, startsAt, endsAt, captureId, flagged, company, recon, remote,
                 handled, history>>

\* spinWindowClosed, or the free period no longer open (freeDrawPeriodOpen) for
\* spins that were bought in one and so have no window here.
AddonClosed(o) ==
  /\ ~Extends(o)
  /\ IF endsAt[o] = Null THEN ~freeOpen ELSE endsAt[o] <= now

\* updateStatus(id, "failed", response): by id, whatever the row says now.  The
\* response replaces paypal_response, and with it any partial-refund entry.
MarkFailed(o, knowsCapture) ==
  /\ status' = [status EXCEPT ![o] = "failed"]
  /\ captureId' = [captureId EXCEPT ![o] = knowsCapture]
  /\ flagged' = flagged \ {o}
  /\ claimedAt' = [claimedAt EXCEPT ![o] = 0]
  /\ UNCHANGED <<startsAt, endsAt>>

\* An add-on whose period closed while the buyer was at PayPal is refused.
RefuseClosedAddon(r) ==
  LET o == req[r].order IN
  /\ req[r].pc = "claimed"
  /\ AddonClosed(o)
  /\ MarkFailed(o, FALSE)
  /\ req' = [req EXCEPT ![r] = Idle]
  /\ UNCHANGED <<now, company, recon, remote, handled, history>>

CallPaypal(r) ==
  /\ req[r].pc = "claimed"
  /\ ~AddonClosed(req[r].order)
  /\ req' = [req EXCEPT ![r].pc = "calling"]
  /\ UNCHANGED <<now, rows, company, recon, remote, handled, history>>

\* PayPal executes the capture call.  A capture that completes is announced by
\* a COMPLETED notification.
PaypalCaptures(r, outcome) ==
  LET o == req[r].order
      answered(a) == req' = [req EXCEPT ![r].pc = "answered", ![r].answer = a]
      becomes(s)  == paypal' = [paypal EXCEPT ![o] = s]
  IN
  /\ req[r].pc = "calling"
  /\ \/ /\ outcome = "completed" /\ paypal[o] = "approved"
        /\ becomes("completed") /\ answered("completed")
        /\ sent' = sent \cup {Notice("completed", o)}
     \/ /\ outcome = "pending" /\ paypal[o] = "approved" /\ PendingAnswers
        /\ becomes("pending") /\ answered("not_completed")
        /\ UNCHANGED sent
     \/ /\ outcome = "declined" /\ paypal[o] = "approved"
        /\ becomes("declined") /\ answered("not_completed")
        /\ UNCHANGED sent
     \/ \* NO_FUNDS_MOVED_ISSUES: the buyer may approve again
        /\ outcome = "refused" /\ paypal[o] \in {"created", "approved"}
        /\ answered("declined") /\ becomes("created")
        /\ UNCHANGED sent
  /\ UNCHANGED <<now, rows, company, recon, handled, history>>

\* Mutant: an aborted request rolls its row back to `pending`.
RequestRollsBack(r) ==
  /\ req[r].pc # "idle"
  /\ status' = [status EXCEPT ![req[r].order] = IF @ = "capturing" THEN "pending" ELSE @]
  /\ req' = [req EXCEPT ![r] = Idle]
  /\ UNCHANGED <<now, startsAt, endsAt, claimedAt, captureId, flagged, company, recon,
                 remote, handled, history>>

\* Any other failure of the request: a 5xx, a timeout before or after PayPal
\* acted, ORDER_ALREADY_CAPTURED, or the process dying.  The row stays as it is.
RequestLost(r) ==
  /\ req[r].pc # "idle"
  /\ req' = [req EXCEPT ![r] = Idle]
  /\ UNCHANGED <<now, rows, company, recon, remote, handled, history>>

\* PaypalDeclinedError: releaseCaptureClaim, conditional on `capturing`.
ReleaseCaptureClaim(r) ==
  LET o == req[r].order IN
  /\ req[r].pc = "answered" /\ req[r].answer = "declined"
  /\ IF status[o] = "capturing"
       THEN /\ status' = [status EXCEPT ![o] = "pending"]
            /\ claimedAt' = [claimedAt EXCEPT ![o] = 0]
       ELSE UNCHANGED <<status, claimedAt>>
  /\ req' = [req EXCEPT ![r] = Idle]
  /\ UNCHANGED <<now, startsAt, endsAt, captureId, flagged, company, recon,
                 remote, handled, history>>

\* The answer is not COMPLETED: updateStatus(failed), unconditionally.
CaptureNotCompleted(r) ==
  /\ req[r].pc = "answered" /\ req[r].answer = "not_completed"
  /\ MarkFailed(req[r].order, TRUE)
  /\ req' = [req EXCEPT ![r] = Idle]
  /\ UNCHANGED <<now, company, recon, remote, handled, history>>

\* extendSubscription: GREATEST(COALESCE(expires, now), now) + days.
NewExpiry == (IF expiry = Null THEN now ELSE Later(expiry, now)) + Days

\* Mutant: the status is not checked again under the row lock.
FinalizeUnchecked(o) ==
  /\ status' = [status EXCEPT ![o] = "captured"]
  /\ captureId' = [captureId EXCEPT ![o] = TRUE]
  /\ flagged' = flagged \ {o}
  /\ IF Extends(o)
       THEN /\ expiry' = NewExpiry
            /\ startsAt' = [startsAt EXCEPT ![o] = NewExpiry - Days]
            /\ endsAt' = [endsAt EXCEPT ![o] = NewExpiry]
            /\ grants' = [grants EXCEPT ![o] = @ + 1]
       ELSE UNCHANGED <<expiry, startsAt, endsAt, grants>>
  /\ claimedAt' = [claimedAt EXCEPT ![o] = 0]

\* finalizeCapture: one transaction under the row lock.  Only `captured` is
\* skipped; every other status becomes captured.
FinalizeCapture(o) ==
  IF status[o] = "captured"
    THEN UNCHANGED <<rows, expiry, grants>>
    ELSE /\ status' = [status EXCEPT ![o] = "captured"]
         /\ captureId' = [captureId EXCEPT ![o] = TRUE]
         /\ flagged' = flagged \ {o}
         /\ IF Extends(o)
              THEN /\ expiry' = NewExpiry
                   /\ startsAt' = [startsAt EXCEPT ![o] = NewExpiry - Days]
                   /\ endsAt' = [endsAt EXCEPT ![o] = NewExpiry]
                   /\ grants' = [grants EXCEPT ![o] = @ + 1]
              ELSE UNCHANGED <<expiry, startsAt, endsAt, grants>>
         /\ claimedAt' = [claimedAt EXCEPT ![o] = 0]

CaptureCompleted(r) ==
  /\ req[r].pc = "answered" /\ req[r].answer = "completed"
  /\ FinalizeCapture(req[r].order)
  /\ req' = [req EXCEPT ![r] = Idle]
  /\ UNCHANGED <<now, freeOpen, recon, remote, handled, takebacks>>

-----------------------------------------------------------------------------
(* Webhooks.  PayPal delivers at least once and in any order.               *)

\* PAYMENT.CAPTURE.COMPLETED: not in the event ledger, so every delivery runs.
\* An unknown order throws and is retried; a captured row returns early.
WebhookCompleted(o) ==
  /\ Notice("completed", o) \in sent
  /\ status[o] \notin {"none", "captured"}
  /\ FinalizeCapture(o)
  /\ UNCHANGED <<now, freeOpen, req, recon, remote, handled, takebacks>>

\* Mutant: a reversal changes the status and leaves the expiry alone.
KeepPaidWindow(o) == UNCHANGED expiry

\* subtractPaidWindow: exactly the window's length comes off the expiry.
SubtractPaidWindow(o) ==
  expiry' = IF expiry = Null THEN Null ELSE expiry - (endsAt[o] - startsAt[o])

\* findForReversalForUpdate finds the row by order id, or by a capture id that
\* paypal_response holds; not every reversal carries the order id.
FindsRow(o, carriesOrderId) == status[o] # "none" /\ (carriesOrderId \/ captureId[o])

\* A full reversal of o found its row in the transaction.
FullReversal(o, type) ==
  /\ status' = [status EXCEPT ![o] =
       IF type = "denied" /\ status[o] # "captured" THEN "failed" ELSE "refunded"]
  /\ IF status[o] = "captured" /\ Extends(o)
       THEN /\ SubtractPaidWindow(o)
            /\ takebacks' = [takebacks EXCEPT ![o] = @ + 1]
       ELSE UNCHANGED <<expiry, takebacks>>
  /\ claimedAt' = [claimedAt EXCEPT ![o] = 0]
  /\ UNCHANGED <<startsAt, endsAt, captureId, flagged>>

\* handleReversal, called once per event by the ledger (PaypalWebhookEvents).
\* A reversal whose row is not found, or already refunded, is acknowledged.
HandleReversal(o, type) ==
  LET e == Notice(type, o) IN
  /\ e \in sent \ handled
  /\ handled' = handled \cup {e}
  /\ \E carriesOrderId \in BOOLEAN :
       \/ /\ ~FindsRow(o, carriesOrderId) \/ status[o] = "refunded"
          /\ UNCHANGED <<rows, expiry, takebacks>>
       \/ /\ FindsRow(o, carriesOrderId) /\ status[o] # "refunded"
          /\ \/ type = "partial" /\ flagged' = flagged \cup {o}
                /\ UNCHANGED <<status, startsAt, endsAt, claimedAt, captureId,
                               expiry, takebacks>>
             \/ type # "partial" /\ FullReversal(o, type)
  /\ UNCHANGED <<now, freeOpen, req, recon, remote, grants>>

-----------------------------------------------------------------------------
(* The reconcile cron, under a session advisory lock: one run at a time.     *)

\* Mutant: rows are looked at however recently they were claimed.
StuckAtOnce(o) == status[o] = "capturing"

Stuck(o) == status[o] = "capturing" /\ claimedAt[o] < now

\* findStuckCapturing: the BatchSize rows claimed longest ago.
OldestStuck(batch) ==
  LET stuck == {o \in Order : Stuck(o)} IN
  /\ batch \subseteq stuck /\ batch # {}
  /\ \/ batch = stuck /\ Cardinality(stuck) <= BatchSize
     \/ Cardinality(batch) = BatchSize /\ BatchSize < Cardinality(stuck)
  /\ \A b \in batch, s \in stuck \ batch : claimedAt[b] <= claimedAt[s]

ReconcileStart ==
  /\ recon = Resting
  /\ \E batch \in SUBSET Order :
       OldestStuck(batch) /\ recon' = [Resting EXCEPT !.stuck = batch]
  /\ UNCHANGED <<now, rows, company, req, remote, handled, history>>

\* Mutants: an order PayPal never captured is left for a human; a captured one is;
\* a PENDING capture counts as money received.
DecideNeverFails(view) ==
  CASE view = "completed" -> "complete"
    [] OTHER              -> "wait"
DecideNeverCompletes(view) ==
  CASE view \in {"completed", "pending"} -> "wait"
    [] OTHER                             -> "fail"
DecidePendingIsPaid(view) ==
  CASE view \in {"completed", "pending"} -> "complete"
    [] OTHER                             -> "fail"

\* decideStuckCapture, over PayPal's view of the order.  Never captured, voided,
\* declined, unknown, and refunded in full or in part: all are closed as failed.
DecideStuckCapture(view) ==
  CASE view = "completed" -> "complete"
    [] view = "pending"   -> "wait"
    [] OTHER              -> "fail"

\* getOrder answered for one row of the batch.
ReconcileAsk(o) ==
  /\ recon.order = Null /\ o \in recon.stuck
  /\ recon' = [stuck |-> recon.stuck \ {o}, order |-> o,
               decision |-> DecideStuckCapture(paypal[o])]
  /\ UNCHANGED <<now, rows, company, req, remote, handled, history>>

\* getOrder failed: counted as an error, the next row is tried.
ReconcileError(o) ==
  /\ recon.order = Null /\ o \in recon.stuck
  /\ recon' = [recon EXCEPT !.stuck = @ \ {o}]
  /\ UNCHANGED <<now, rows, company, req, remote, handled, history>>

\* failIfCapturing replaces paypal_response, so the capture id is lost.
FailIfCapturing(o) ==
  IF status[o] = "capturing" THEN MarkFailed(o, FALSE) ELSE UNCHANGED rows

ReconcileApply ==
  LET o == recon.order IN
  /\ o # Null
  /\ \/ recon.decision = "complete" /\ FinalizeCapture(o)
     \/ recon.decision = "fail" /\ FailIfCapturing(o) /\ UNCHANGED <<expiry, grants>>
     \/ recon.decision = "wait" /\ UNCHANGED <<rows, expiry, grants>>
  /\ recon' = [recon EXCEPT !.order = Null, !.decision = "none"]
  /\ UNCHANGED <<now, freeOpen, req, remote, handled, takebacks>>

\* The process dies, or the run is abandoned at shutdown; the lock goes with it.
ReconcileCrash ==
  /\ recon # Resting
  /\ recon' = Resting
  /\ UNCHANGED <<now, rows, company, req, remote, handled, history>>

-----------------------------------------------------------------------------
(* PayPal and the buyer.                                                     *)

\* The buyer approves.  An order that lapses at PayPal is one never approved.
BuyerApproves(o) ==
  /\ paypal[o] = "created"
  /\ paypal' = [paypal EXCEPT ![o] = "approved"]
  /\ UNCHANGED <<now, rows, company, req, recon, sent, handled, history>>

\* A PENDING capture clears or is denied.
CaptureSettles(o) ==
  /\ paypal[o] = "pending"
  /\ \/ /\ paypal' = [paypal EXCEPT ![o] = "completed"]
        /\ sent' = sent \cup {Notice("completed", o)}
     \/ /\ paypal' = [paypal EXCEPT ![o] = "declined"]
        /\ sent' = sent \cup {Notice("denied", o)}
  /\ UNCHANGED <<now, rows, company, req, recon, handled, history>>

\* The money goes back: a full refund or chargeback (one capture may draw both
\* notifications), or part of it.
MoneyReturned(o) ==
  /\ \/ /\ paypal[o] \in Paid \cup {"refunded"}
        /\ paypal' = [paypal EXCEPT ![o] = "refunded"]
        /\ \E type \in Returns \ {"partial"} : sent' = sent \cup {Notice(type, o)}
     \/ /\ paypal[o] = "completed" /\ "partial" \in Returns
        /\ paypal' = [paypal EXCEPT ![o] = "partly_refunded"]
        /\ sent' = sent \cup {Notice("partial", o)}
  /\ UNCHANGED <<now, rows, company, req, recon, handled, history>>

-----------------------------------------------------------------------------

FreePeriodEnds ==
  /\ freeOpen /\ \E o \in Order : ~Extends(o)
  /\ freeOpen' = FALSE
  /\ UNCHANGED <<now, rows, expiry, req, recon, remote, handled, history>>

\* An execution of capturePayment ends or dies within a tick: its one HTTP call
\* times out after 15 s, against the 15 minutes of RECONCILE_AFTER_MINUTES.
Tick ==
  /\ now < MaxTime
  /\ \A r \in Req : req[r].pc = "idle"
  /\ now' = now + 1
  /\ UNCHANGED <<rows, company, req, recon, remote, handled, history>>

Outcome == {"completed", "pending", "declined", "refused"}

Capture(r) ==
  \/ \E o \in Order : ClaimForCapture(r, o)
  \/ RefuseClosedAddon(r) \/ CallPaypal(r)
  \/ \E outcome \in Outcome : PaypalCaptures(r, outcome)
  \/ RequestLost(r)
  \/ ReleaseCaptureClaim(r) \/ CaptureNotCompleted(r) \/ CaptureCompleted(r)

Webhook(o) ==
  WebhookCompleted(o) \/ \E type \in ReversalType : HandleReversal(o, type)

Reconcile ==
  \/ ReconcileStart \/ ReconcileApply \/ ReconcileCrash
  \/ \E o \in Order : ReconcileAsk(o) \/ ReconcileError(o)

Environment(o) ==
  BuyerApproves(o) \/ CaptureSettles(o) \/ MoneyReturned(o)

Next ==
  \/ \E o \in Order : Initiate(o) \/ Webhook(o) \/ Environment(o)
  \/ \E r \in Req : Capture(r)
  \/ Reconcile
  \/ FreePeriodEnds
  \/ Tick

Spec == Init /\ [][Next]_vars

\* The crons run, PayPal's order API answers infinitely often, requests end, and
\* the clock is not held back by buyers who keep retrying a declined card.
\* Nothing is assumed of the webhooks: every one may be lost.
Fairness ==
  /\ SF_vars(Tick)
  /\ \A r \in Req : WF_vars(RequestLost(r))
  /\ WF_vars(ReconcileStart)
  /\ \A o \in Order : /\ SF_vars(ReconcileAsk(o))
                      /\ SF_vars(recon.order = o /\ ReconcileApply)

FairSpec == Spec /\ Fairness

-----------------------------------------------------------------------------
(* Properties.                                                               *)

\* Every column holds a value of its type, and PayPal's state one of its own.
TypeOK ==
  /\ now \in Nat
  /\ status \in [Order -> Status]
  /\ startsAt \in [Order -> Int \cup {Null}]
  /\ endsAt \in [Order -> Int \cup {Null}]
  /\ claimedAt \in [Order -> Nat]
  /\ captureId \in [Order -> BOOLEAN]
  /\ flagged \subseteq Order
  /\ expiry \in Int \cup {Null}
  /\ freeOpen \in BOOLEAN
  /\ req \in [Req -> ReqState]
  /\ recon \in [stuck : SUBSET Order, order : Order \cup {Null}, decision : Decision]
  /\ paypal \in [Order -> PaypalState]
  /\ sent \subseteq Event
  /\ handled \subseteq Event
  /\ grants \in [Order -> Nat]
  /\ takebacks \in [Order -> Nat]

\* claimForCapture is mutual exclusion: two executions of capturePayment are
\* never both between their claim and their answer on one order, however
\* declines, lost requests and the reconcile cron interleave.
OneCaptureCall ==
  \A r1, r2 \in Req, o \in Order : Active(r1, o) /\ Active(r2, o) => r1 = r2

\* Access is never granted for money PayPal did not take: a captured row is one
\* whose capture completed (it may have been given back since).
CapturedMeansPaid ==
  \A o \in Order : status[o] = "captured" => paypal[o] \in Paid \cup {"refunded"}

\* releaseCaptureClaim hands a row back for another attempt only when PayPal
\* took nothing, so a retry cannot charge the buyer twice.
RetryOnlyUnpaid ==
  [][\A o \in Order : status[o] = "capturing" /\ status'[o] = "pending"
        => paypal[o] \notin Paid \cup {"pending", "refunded"}]_vars

\* A row is failed only when the buyer was not charged: "PayPal answered and told
\* us it did NOT complete - safe to mark failed" (capturePayment).
FailedMeansUnpaid ==
  \A o \in Order : status[o] = "failed" => paypal[o] # "completed"

\* Each order's days are on the expiry exactly while its row says captured: the
\* capture, its retries, the webhook, the cron and the reversals together never
\* add or take back a window twice.
GrantBalance ==
  \A o \in Order : Extends(o) =>
    grants[o] - takebacks[o] = IF status[o] = "captured" THEN 1 ELSE 0

\* What is left of the paid access never exceeds what the captured, unreversed
\* orders bought.
AccessWithinPaid ==
  expiry # Null /\ expiry > now =>
    expiry - now <= Days * Cardinality({o \in Order : Extends(o) /\ status[o] = "captured"})

\* A row left in `capturing` is settled even if no webhook ever arrives
\* (reconcileStuckCaptures): "within about 25 minutes instead of never".
StuckIsSettled ==
  \A o \in Order : status[o] = "capturing" ~> status[o] # "capturing"

\* A buyer PayPal charged gets what they paid for, or their money back, even if
\* every webhook is lost.
PaidIsGranted ==
  \A o \in Order : paypal[o] = "completed" ~> (status[o] = "captured" \/ paypal[o] # "completed")

\* The capture path and the webhook "cannot interleave and double-apply": an
\* order's days are never on the expiry more than once.
NoDoubleApply ==
  \A o \in Order : grants[o] - takebacks[o] <= 1

=============================================================================
