------------------------ MODULE OrderPaymentsProofs ------------------------
(***************************************************************************)
(* Proofs about OrderPayments, for any number of orders and requests.      *)
(*                                                                         *)
(* Each layer of the inductive invariant rests on the ones before it:      *)
(*   Typed      the types, and what an active request or a granted window  *)
(*              holds;                                                     *)
(*   Exclusive  one request per order, whose row was claimed in this tick; *)
(*   Settled    captured rows, completed answers and COMPLETED notices     *)
(*              belong to orders PayPal has captured;                      *)
(*   Declined   what a declined answer on its way says of PayPal;          *)
(* and, when PayPal leaves no capture PENDING,                             *)
(*   Instant    an answer other than COMPLETED is final;                   *)
(*   Windows    a captured order's window has the length that was bought;  *)
(*   Watched    failed rows, and those the cron closes, are not captured;  *)
(*   Returned   a refunded row's money was given back.                     *)
(***************************************************************************)
EXTENDS OrderPayments, TLAPS, FiniteSetTheorems

USE OrderAssumption, KindAssumption, DaysAssumption, TimeAssumption,
    AnswerAssumption, ReturnAssumption, NullAssumption

\* The types, and what they alone do not say: a request past its claim has an
\* order, and a captured plan order has a window.
Typed ==
  /\ TypeOK
  /\ \A r \in Req : req[r].pc # "idle" => req[r].order \in Order
  /\ \A o \in Order : status[o] = "captured" /\ Extends(o) =>
       startsAt[o] \in Int /\ endsAt[o] \in Int

LEMMA TypedInit == Init => Typed
  BY DEF Init, Typed, TypeOK, Status, ReqState, Idle, Resting, Decision, PaypalState, Answer

\* finalizeCapture keeps the row and the expiry well typed.
LEMMA FinalizeTyped ==
  ASSUME Typed, NEW o \in Order, FinalizeCapture(o)
  PROVE  /\ status' \in [Order -> Status]
         /\ startsAt' \in [Order -> Int \cup {Null}]
         /\ endsAt' \in [Order -> Int \cup {Null}]
         /\ claimedAt' \in [Order -> Nat]
         /\ captureId' \in [Order -> BOOLEAN]
         /\ flagged' \subseteq Order
         /\ expiry' \in Int \cup {Null}
         /\ grants' \in [Order -> Nat]
         /\ \A p \in Order : status'[p] = "captured" /\ Extends(p) =>
              startsAt'[p] \in Int /\ endsAt'[p] \in Int
<1>1. NewExpiry \in Int
  BY DEF Typed, TypeOK, NewExpiry, Later
<1>2. CASE status[o] = "captured"
  BY <1>2 DEF FinalizeCapture, Typed, TypeOK, rows
<1>3. CASE status[o] # "captured"
  <2>1. /\ status' \in [Order -> Status] /\ status'[o] = "captured"
        /\ \A p \in Order \ {o} : status'[p] = status[p]
    BY <1>3 DEF FinalizeCapture, Typed, TypeOK, Status
  <2>2. captureId' \in [Order -> BOOLEAN] /\ flagged' \subseteq Order
    BY <1>3, Zenon DEF FinalizeCapture, Typed, TypeOK
  <2>3. claimedAt' \in [Order -> Nat]
    BY <1>3 DEF FinalizeCapture, Typed, TypeOK
  <2>4. CASE Extends(o)
    <3>1. /\ startsAt' = [startsAt EXCEPT ![o] = NewExpiry - Days]
          /\ endsAt' = [endsAt EXCEPT ![o] = NewExpiry]
          /\ grants' = [grants EXCEPT ![o] = @ + 1]
          /\ expiry' = NewExpiry
      BY <1>3, <2>4 DEF FinalizeCapture
    <3>2. NewExpiry - Days \in Int
      BY <1>1
    <3> QED BY <1>1, <2>1, <2>2, <2>3, <3>1, <3>2 DEF Typed, TypeOK
  <2>5. CASE ~Extends(o)
    BY <1>3, <2>1, <2>2, <2>3, <2>5 DEF FinalizeCapture, Typed, TypeOK
  <2> QED BY <2>4, <2>5
<1> QED BY <1>2, <1>3

\* So does a row that is marked failed.
LEMMA MarkFailedTyped ==
  ASSUME Typed, NEW o \in Order, NEW k \in BOOLEAN, MarkFailed(o, k)
  PROVE  /\ status' \in [Order -> Status]
         /\ startsAt' \in [Order -> Int \cup {Null}]
         /\ endsAt' \in [Order -> Int \cup {Null}]
         /\ claimedAt' \in [Order -> Nat]
         /\ captureId' \in [Order -> BOOLEAN]
         /\ flagged' \subseteq Order
         /\ \A p \in Order : status'[p] = "captured" /\ Extends(p) =>
              startsAt'[p] \in Int /\ endsAt'[p] \in Int
  BY DEF MarkFailed, Typed, TypeOK, Status

LEMMA TypedBuying ==
  ASSUME Typed, NEW o \in Order, Initiate(o)
  PROVE  Typed'
<1>1. startsAt' \in [Order -> Int \cup {Null}] /\ endsAt' \in [Order -> Int \cup {Null}]
  BY DEF Initiate, Typed, TypeOK
<1>2. status' \in [Order -> Status] /\ paypal' \in [Order -> PaypalState]
  BY DEF Initiate, Typed, TypeOK, Status, PaypalState
<1>3. \A p \in Order : status'[p] = "captured" /\ Extends(p) =>
        startsAt'[p] \in Int /\ endsAt'[p] \in Int
  BY DEF Initiate, Typed, TypeOK
<1> QED
  BY <1>1, <1>2, <1>3 DEF Initiate, Typed, TypeOK, company, history

LEMMA TypedCapture ==
  ASSUME Typed, NEW r \in Req, Capture(r)
  PROVE  Typed'
<1> USE DEF rows, company, remote, history
<1>1. CASE \E o \in Order : ClaimForCapture(r, o)
  BY <1>1 DEF ClaimForCapture, Typed, TypeOK, Status, ReqState, Answer
<1>2. CASE RefuseClosedAddon(r)
  <2>1. req[r].order \in Order /\ FALSE \in BOOLEAN
    BY <1>2 DEF RefuseClosedAddon, Typed
  <2>2. req' \in [Req -> ReqState]
        /\ \A q \in Req : req'[q].pc # "idle" => req'[q].order \in Order
    BY <1>2 DEF RefuseClosedAddon, Typed, TypeOK, ReqState, Idle, Answer
  <2> QED BY <1>2, <2>1, <2>2, MarkFailedTyped DEF RefuseClosedAddon, Typed, TypeOK
<1>3. CASE CallPaypal(r)
  BY <1>3 DEF CallPaypal, Typed, TypeOK, ReqState
<1>4. ASSUME NEW outcome \in Outcome, PaypalCaptures(r, outcome)
      PROVE  Typed'
  <2>1. req[r].order \in Order
    BY <1>4 DEF PaypalCaptures, Typed
  <2>2. /\ \E s \in PaypalState : paypal' = [paypal EXCEPT ![req[r].order] = s]
        /\ sent' \subseteq sent \cup {Notice("completed", req[r].order)}
    BY <1>4 DEF PaypalCaptures, PaypalState, Paid
  <2>3. paypal' \in [Order -> PaypalState] /\ sent' \subseteq Event
    BY <2>1, <2>2 DEF Typed, TypeOK, Event, Notice
  <2>4. PICK a \in Answer : req' = [req EXCEPT ![r].pc = "answered", ![r].answer = a]
    BY <1>4 DEF PaypalCaptures, Answer
  <2>5. req' \in [Req -> ReqState]
        /\ \A q \in Req : req'[q].pc # "idle" => req'[q].order \in Order
    <3>1. req[r] \in ReqState
      BY DEF Typed, TypeOK
    <3>2. req'[r] = [req[r] EXCEPT !.pc = "answered", !.answer = a]
      BY <2>4 DEF Typed, TypeOK
    <3>3. req'[r] \in ReqState /\ req'[r].order = req[r].order
      BY <3>1, <3>2 DEF ReqState
    <3> QED BY <2>1, <2>4, <3>3 DEF Typed, TypeOK
  <2> QED BY <1>4, <2>3, <2>5 DEF PaypalCaptures, Typed, TypeOK
<1>5. CASE RequestLost(r)
  BY <1>5 DEF RequestLost, Typed, TypeOK, ReqState, Idle, Answer
<1>6. CASE ReleaseCaptureClaim(r)
  BY <1>6 DEF ReleaseCaptureClaim, Typed, TypeOK, ReqState, Idle, Answer, Status
<1>7. CASE CaptureNotCompleted(r)
  <2>1. req[r].order \in Order /\ TRUE \in BOOLEAN
    BY <1>7 DEF CaptureNotCompleted, Typed
  <2>2. req' \in [Req -> ReqState]
        /\ \A q \in Req : req'[q].pc # "idle" => req'[q].order \in Order
    BY <1>7 DEF CaptureNotCompleted, Typed, TypeOK, ReqState, Idle, Answer
  <2> QED BY <1>7, <2>1, <2>2, MarkFailedTyped DEF CaptureNotCompleted, Typed, TypeOK
<1>8. CASE CaptureCompleted(r)
  <2>1. req[r].order \in Order
    BY <1>8 DEF CaptureCompleted, Typed
  <2>2. req' \in [Req -> ReqState]
        /\ \A q \in Req : req'[q].pc # "idle" => req'[q].order \in Order
    BY <1>8 DEF CaptureCompleted, Typed, TypeOK, ReqState, Idle, Answer
  <2> QED BY <1>8, <2>1, <2>2, FinalizeTyped DEF CaptureCompleted, Typed, TypeOK
<1> QED
  BY <1>1, <1>2, <1>3, <1>4, <1>5, <1>6, <1>7, <1>8 DEF Capture

LEMMA TypedWebhook ==
  ASSUME Typed, NEW o \in Order, Webhook(o)
  PROVE  Typed'
<1> USE DEF remote, history
<1>1. CASE WebhookCompleted(o)
  BY <1>1, FinalizeTyped DEF WebhookCompleted, Typed, TypeOK
<1>2. ASSUME NEW type \in ReversalType, HandleReversal(o, type)
      PROVE  Typed'
  <2>1. handled' \subseteq Event
    BY <1>2 DEF HandleReversal, Typed, TypeOK
  <2>2. ASSUME FullReversal(o, type)
        PROVE  /\ status' \in [Order -> Status]
               /\ claimedAt' \in [Order -> Nat]
               /\ expiry' \in Int \cup {Null}
               /\ takebacks' \in [Order -> Nat]
               /\ UNCHANGED <<startsAt, endsAt, captureId, flagged>>
               /\ \A p \in Order : status'[p] = "captured" /\ Extends(p) =>
                    status[p] = "captured"
    BY <2>2 DEF FullReversal, SubtractPaidWindow, Typed, TypeOK, Status
  <2>3. CASE UNCHANGED <<rows, expiry, takebacks>>
    BY <1>2, <2>1, <2>3 DEF HandleReversal, Typed, TypeOK, rows
  <2>4. CASE /\ flagged' = flagged \cup {o}
             /\ UNCHANGED <<status, startsAt, endsAt, claimedAt, captureId,
                            expiry, takebacks>>
    BY <1>2, <2>1, <2>4 DEF HandleReversal, Typed, TypeOK
  <2>5. CASE FullReversal(o, type)
    BY <1>2, <2>1, <2>2, <2>5 DEF HandleReversal, Typed, TypeOK
  <2> QED BY <1>2, <2>3, <2>4, <2>5 DEF HandleReversal
<1> QED BY <1>1, <1>2 DEF Webhook

LEMMA TypedReconcile ==
  ASSUME Typed, Reconcile
  PROVE  Typed'
<1> USE DEF rows, company, remote, history
<1>1. CASE ReconcileStart
  BY <1>1 DEF ReconcileStart, OldestStuck, Resting, Decision, Typed, TypeOK
<1>2. CASE ReconcileApply
  <2>1. recon.order \in Order /\ FALSE \in BOOLEAN
    BY <1>2 DEF ReconcileApply, Typed, TypeOK
  <2>2. recon' \in [stuck : SUBSET Order, order : Order \cup {Null}, decision : Decision]
    BY <1>2 DEF ReconcileApply, Typed, TypeOK, Decision
  <2>3. CASE FinalizeCapture(recon.order)
    BY <1>2, <2>1, <2>2, <2>3, FinalizeTyped DEF ReconcileApply, Typed, TypeOK
  <2>4. CASE MarkFailed(recon.order, FALSE) /\ UNCHANGED <<expiry, grants>>
    BY <1>2, <2>1, <2>2, <2>4, MarkFailedTyped DEF ReconcileApply, Typed, TypeOK
  <2>5. CASE UNCHANGED <<rows, expiry, grants>>
    BY <1>2, <2>2, <2>5 DEF ReconcileApply, Typed, TypeOK
  <2> QED BY <1>2, <2>3, <2>4, <2>5 DEF ReconcileApply, FailIfCapturing
<1>3. CASE ReconcileCrash
  BY <1>3 DEF ReconcileCrash, Resting, Decision, Typed, TypeOK
<1>4. ASSUME NEW o \in Order, ReconcileAsk(o) \/ ReconcileError(o)
      PROVE  Typed'
  BY <1>4 DEF ReconcileAsk, ReconcileError, DecideStuckCapture, Decision, Typed, TypeOK
<1> QED BY <1>1, <1>2, <1>3, <1>4 DEF Reconcile

LEMMA TypedEnvironment ==
  ASSUME Typed, NEW o \in Order, Environment(o)
  PROVE  Typed'
<1> USE DEF rows, company, history
<1>1. CASE BuyerApproves(o)
  BY <1>1 DEF BuyerApproves, Typed, TypeOK, PaypalState
<1>2. CASE CaptureSettles(o)
  BY <1>2 DEF CaptureSettles, Typed, TypeOK, PaypalState, Paid, Event, ReversalType, Notice
<1>3. CASE MoneyReturned(o)
  BY <1>3 DEF MoneyReturned, Typed, TypeOK, PaypalState, Paid, Event, ReversalType, Notice
<1> QED BY <1>1, <1>2, <1>3 DEF Environment

LEMMA TypedStep == Typed /\ [Next]_vars => Typed'
<1> SUFFICES ASSUME Typed, [Next]_vars PROVE Typed'
  OBVIOUS
<1>1. CASE FreePeriodEnds
  BY <1>1 DEF FreePeriodEnds, Typed, TypeOK, rows, remote, history
<1>3. CASE Tick
  BY <1>3 DEF Tick, Typed, TypeOK, rows, company, remote, history
<1>2. CASE UNCHANGED vars
  BY <1>2 DEF Typed, TypeOK, vars, rows, company, remote, history
<1> QED
  BY <1>1, <1>2, <1>3, TypedBuying, TypedCapture, TypedWebhook, TypedReconcile,
     TypedEnvironment DEF Next

\* Every row, request and reconcile run keeps its type, for any orders and requests.
THEOREM TypeCorrect == Spec => []TypeOK
<1>1. Spec => []Typed
  BY TypedInit, TypedStep, PTL DEF Spec
<1>2. Typed => TypeOK
  BY DEF Typed
<1> QED BY <1>1, <1>2, PTL

-----------------------------------------------------------------------------
(* One request per order.                                                    *)

\* A request past its claim holds a row that left `pending` in this very tick.
Exclusive ==
  /\ OneCaptureCall
  /\ \A r \in Req, o \in Order : Active(r, o) =>
       /\ status[o] \notin {"none", "pending"}
       /\ status[o] = "capturing" => claimedAt[o] = now

Closed == {"captured", "failed", "refunded"}

\* What every way of closing row o does to the other rows: nothing.
ClosesOnly(o) ==
  /\ status'[o] \in Closed
  /\ \A p \in Order \ {o} : status'[p] = status[p] /\ claimedAt'[p] = claimedAt[p]

LEMMA FinalizeCloses ==
  ASSUME Typed, NEW o \in Order, FinalizeCapture(o)
  PROVE  ClosesOnly(o) /\ status'[o] = "captured"
  BY DEF FinalizeCapture, ClosesOnly, Closed, Typed, TypeOK, rows

LEMMA MarkFailedCloses ==
  ASSUME Typed, NEW o \in Order, NEW k, MarkFailed(o, k)
  PROVE  ClosesOnly(o) /\ status'[o] = "failed"
  BY DEF MarkFailed, ClosesOnly, Closed, Typed, TypeOK

LEMMA ReversalCloses ==
  ASSUME Typed, NEW o \in Order, NEW type, FullReversal(o, type)
  PROVE  /\ ClosesOnly(o)
         /\ status'[o] \in {"failed", "refunded"}
         /\ status'[o] = "failed" => type = "denied"
  BY DEF FullReversal, ClosesOnly, Closed, Typed, TypeOK

\* A step that starts no request and changes an active request's row only by
\* closing it keeps requests exclusive.
LEMMA ExclusiveKept ==
  ASSUME Exclusive, now' = now,
         \A r \in Req, o \in Order : Active(r, o)' =>
           /\ Active(r, o)
           /\ \/ status'[o] = status[o] /\ claimedAt'[o] = claimedAt[o]
              \/ status'[o] \in Closed
  PROVE  Exclusive'
  BY DEF Exclusive, OneCaptureCall, Closed

LEMMA ExclusiveCapture ==
  ASSUME Typed, Exclusive, NEW r \in Req, Capture(r)
  PROVE  Exclusive'
<1>1. ASSUME NEW o \in Order, ClaimForCapture(r, o)
      PROVE  Exclusive'
  <2>1. \A q \in Req, p \in Order : Active(q, p)' =>
          (q = r /\ p = o) \/ (q # r /\ p # o /\ Active(q, p))
    BY <1>1 DEF ClaimForCapture, Exclusive, Active, Typed, TypeOK, ReqState
  <2>2. /\ status'[o] = "capturing" /\ claimedAt'[o] = now /\ now' = now
        /\ \A p \in Order \ {o} : status'[p] = status[p] /\ claimedAt'[p] = claimedAt[p]
    BY <1>1 DEF ClaimForCapture, Typed, TypeOK
  <2> QED BY <2>1, <2>2 DEF Exclusive, OneCaptureCall
<1>2. CASE RefuseClosedAddon(r) \/ CaptureNotCompleted(r) \/ CaptureCompleted(r)
  <2>1. PICK o \in Order : ClosesOnly(o)
    BY <1>2, MarkFailedCloses, FinalizeCloses
       DEF RefuseClosedAddon, CaptureNotCompleted, CaptureCompleted, Typed
  <2>2. now' = now /\ req' = [req EXCEPT ![r] = Idle]
    BY <1>2 DEF RefuseClosedAddon, CaptureNotCompleted, CaptureCompleted
  <2>3. \A q \in Req, p \in Order : Active(q, p)' => Active(q, p)
    BY <2>2 DEF Active, Idle, Typed, TypeOK
  <2> QED BY <2>1, <2>2, <2>3, ExclusiveKept DEF ClosesOnly
<1>3. CASE CallPaypal(r) \/ RequestLost(r) \/ \E outcome \in Outcome : PaypalCaptures(r, outcome)
  <2>1. now' = now /\ UNCHANGED <<status, claimedAt>>
    BY <1>3 DEF CallPaypal, RequestLost, PaypalCaptures, rows
  <2>2. \A q \in Req, p \in Order : Active(q, p)' => Active(q, p)
    BY <1>3 DEF CallPaypal, RequestLost, PaypalCaptures, Active, Idle, Typed, TypeOK, ReqState
  <2> QED BY <2>1, <2>2, ExclusiveKept
<1>4. CASE ReleaseCaptureClaim(r)
  <2>1. /\ now' = now
        /\ req' = [req EXCEPT ![r] = Idle]
        /\ \A q \in Req, p \in Order : Active(q, p)' => Active(q, p) /\ q # r
    BY <1>4 DEF ReleaseCaptureClaim, Active, Idle, Typed, TypeOK
  <2>2. Active(r, req[r].order) /\ req[r].order \in Order
    BY <1>4 DEF ReleaseCaptureClaim, Active, Typed
  <2>3. \A p \in Order \ {req[r].order} : status'[p] = status[p] /\ claimedAt'[p] = claimedAt[p]
    BY <1>4 DEF ReleaseCaptureClaim, Typed, TypeOK
  <2>4. \A q \in Req, p \in Order : Active(q, p)' => p # req[r].order
    BY <2>1, <2>2 DEF Exclusive, OneCaptureCall
  <2> QED BY <2>1, <2>3, <2>4, ExclusiveKept
<1> QED BY <1>1, <1>2, <1>3, <1>4 DEF Capture

LEMMA ExclusiveWebhook ==
  ASSUME Typed, Exclusive, NEW o \in Order, Webhook(o)
  PROVE  Exclusive'
<1>1. now' = now /\ UNCHANGED req
  BY DEF Webhook, WebhookCompleted, HandleReversal
<1>2. ClosesOnly(o) \/ UNCHANGED <<status, claimedAt>>
  BY FinalizeCloses, ReversalCloses DEF Webhook, WebhookCompleted, HandleReversal, rows
<1> QED BY <1>1, <1>2, ExclusiveKept DEF Active, ClosesOnly

LEMMA ExclusiveReconcile ==
  ASSUME Typed, Exclusive, Reconcile
  PROVE  Exclusive'
<1>1. now' = now /\ UNCHANGED req
  BY DEF Reconcile, ReconcileStart, ReconcileApply, ReconcileCrash, ReconcileAsk, ReconcileError
<1>2. (\E o \in Order : ClosesOnly(o)) \/ UNCHANGED <<status, claimedAt>>
  <2>1. CASE ReconcileApply
    <3>1. recon.order \in Order
      BY <2>1 DEF ReconcileApply, Typed, TypeOK
    <3> QED BY <2>1, <3>1, FinalizeCloses, MarkFailedCloses DEF ReconcileApply, FailIfCapturing, rows
  <2>2. CASE ~ReconcileApply
    BY <2>2 DEF Reconcile, ReconcileStart, ReconcileCrash, ReconcileAsk, ReconcileError, rows
  <2> QED BY <2>1, <2>2
<1> QED BY <1>1, <1>2, ExclusiveKept DEF Active, ClosesOnly

LEMMA ExclusiveStep == Typed /\ Exclusive /\ [Next]_vars => Exclusive'
<1> SUFFICES ASSUME Typed, Exclusive, [Next]_vars PROVE Exclusive'
  OBVIOUS
<1>1. ASSUME NEW o \in Order, Initiate(o) PROVE Exclusive'
  <2>1. \A r \in Req, p \in Order : Active(r, p)' => Active(r, p) /\ p # o
    BY <1>1 DEF Initiate, Active, Exclusive
  <2>2. now' = now /\ \A p \in Order \ {o} : status'[p] = status[p] /\ claimedAt'[p] = claimedAt[p]
    BY <1>1 DEF Initiate, Typed, TypeOK
  <2> QED BY <2>1, <2>2, ExclusiveKept
<1>2. ASSUME NEW o \in Order, Environment(o) PROVE Exclusive'
  BY <1>2, ExclusiveKept DEF Environment, BuyerApproves, CaptureSettles, MoneyReturned, Active, rows
<1>3. CASE FreePeriodEnds \/ UNCHANGED vars
  BY <1>3, ExclusiveKept DEF FreePeriodEnds, Active, rows, vars
<1>4. CASE Tick
  BY <1>4 DEF Tick, Exclusive, OneCaptureCall, Active
<1> QED
  BY <1>1, <1>2, <1>3, <1>4, ExclusiveCapture, ExclusiveWebhook, ExclusiveReconcile DEF Next

\* claimForCapture is mutual exclusion for any number of concurrent requests.
THEOREM CaptureExclusive == Spec => []OneCaptureCall
<1>1. Init => Typed /\ Exclusive
  BY TypedInit DEF Init, Exclusive, OneCaptureCall, Active, Idle
<1>2. Spec => [](Typed /\ Exclusive)
  BY <1>1, TypedStep, ExclusiveStep, PTL DEF Spec
<1>3. Exclusive => OneCaptureCall
  BY DEF Exclusive
<1> QED BY <1>2, <1>3, PTL

-----------------------------------------------------------------------------
(* Money.                                                                    *)

WasPaid(o) == paypal[o] \in Paid \cup {"refunded"}

\* Whatever says an order was captured is right, and stays right.
Settled ==
  /\ \A o \in Order : status[o] = "none" => paypal[o] = "none"
  /\ \A o \in Order : status[o] = "captured" => WasPaid(o)
  /\ \A o \in Order : Notice("completed", o) \in sent => WasPaid(o)
  /\ \A r \in Req : req[r].pc = "answered" /\ req[r].answer = "completed"
       => WasPaid(req[r].order)
  /\ recon.order # Null /\ recon.decision = "complete" => WasPaid(recon.order)

\* An order PayPal has captured never becomes an uncaptured one.
LEMMA PaidStays ==
  ASSUME Typed, Settled, [Next]_vars, NEW o \in Order, WasPaid(o)
  PROVE  WasPaid(o)'
<1> USE DEF WasPaid, Paid
<1>1. ASSUME NEW p \in Order, Initiate(p) PROVE WasPaid(o)'
  BY <1>1 DEF Initiate, Settled, Typed, TypeOK
<1>2. ASSUME NEW p \in Order, Environment(p) PROVE WasPaid(o)'
  BY <1>2 DEF Environment, BuyerApproves, CaptureSettles, MoneyReturned, Typed, TypeOK
<1>3. ASSUME NEW r \in Req, NEW outcome \in Outcome, PaypalCaptures(r, outcome) PROVE WasPaid(o)'
  BY <1>3 DEF PaypalCaptures, Typed, TypeOK
<1>4. ASSUME NEW r \in Req, Capture(r), UNCHANGED paypal PROVE WasPaid(o)'
  BY <1>4
<1>5. ASSUME NEW r \in Req, Capture(r), ~UNCHANGED paypal
      PROVE  \E outcome \in Outcome : PaypalCaptures(r, outcome)
  BY <1>5 DEF Capture, ClaimForCapture, RefuseClosedAddon, CallPaypal, RequestLost,
     ReleaseCaptureClaim, CaptureNotCompleted, CaptureCompleted, remote
<1>6. ASSUME NEW p \in Order, Webhook(p) PROVE UNCHANGED paypal
  BY <1>6 DEF Webhook, WebhookCompleted, HandleReversal, remote
<1>7. Reconcile => UNCHANGED paypal
  BY DEF Reconcile, ReconcileStart, ReconcileApply, ReconcileCrash, ReconcileAsk,
     ReconcileError, remote
<1>8. FreePeriodEnds \/ Tick \/ UNCHANGED vars => UNCHANGED paypal
  BY DEF FreePeriodEnds, Tick, vars, remote
<1> QED BY <1>1, <1>2, <1>3, <1>4, <1>5, <1>6, <1>7, <1>8 DEF Next

\* A step that draws no new conclusion about PayPal leaves every old one right.
LEMMA SettledKept ==
  ASSUME Typed, Settled, [Next]_vars,
         \A o \in Order : status'[o] = "none" => status[o] = "none" /\ paypal'[o] = paypal[o],
         \A o \in Order : status'[o] = "captured" => status[o] = "captured" \/ WasPaid(o),
         \A o \in Order : Notice("completed", o) \in sent' => Notice("completed", o) \in sent,
         \A r \in Req : req'[r].pc = "answered" /\ req'[r].answer = "completed" => req'[r] = req[r],
         recon'.order # Null /\ recon'.decision = "complete" => recon' = recon
  PROVE  Settled'
<1>1. \A o \in Order : WasPaid(o) => WasPaid(o)'
  BY PaidStays
<1>2. \A o \in Order : status'[o] = "none" => paypal'[o] = "none"
  BY DEF Settled
<1>3. \A o \in Order : status'[o] = "captured" => WasPaid(o)'
  BY <1>1 DEF Settled
<1>4. \A o \in Order : Notice("completed", o) \in sent' => WasPaid(o)'
  BY <1>1 DEF Settled
<1>5. \A r \in Req : req'[r].pc = "answered" /\ req'[r].answer = "completed"
        => WasPaid(req[r].order)'
  <2>1. ASSUME NEW r \in Req, req'[r].pc = "answered", req'[r].answer = "completed"
        PROVE  req'[r] = req[r] /\ req[r].order \in Order /\ WasPaid(req[r].order)
    BY <2>1 DEF Settled, Typed
  <2> QED BY <1>1, <2>1 DEF WasPaid
<1>6. recon'.order # Null /\ recon'.decision = "complete" => WasPaid(recon.order)'
  BY <1>1 DEF Settled, WasPaid, Typed, TypeOK
<1> QED BY <1>2, <1>3, <1>4, <1>5, <1>6 DEF Settled, WasPaid

LEMMA SettledCapture ==
  ASSUME Typed, Settled, Exclusive, NEW r \in Req, Capture(r)
  PROVE  Settled'
<1> [Next]_vars
  BY DEF Next
<1>1. ASSUME NEW outcome \in Outcome, PaypalCaptures(r, outcome), UNCHANGED sent
      PROVE  Settled'
  <2>1. req[r].order \in Order /\ status[req[r].order] # "none"
    BY <1>1 DEF PaypalCaptures, Typed, Exclusive, Active
  <2>2. UNCHANGED <<status, recon>>
        /\ \A o \in Order \ {req[r].order} : paypal'[o] = paypal[o]
    BY <1>1 DEF PaypalCaptures, Typed, TypeOK, rows
  <2>3. outcome = "completed" => sent' = sent \cup {Notice("completed", req[r].order)}
                                 /\ paypal[req[r].order] = "approved"
    BY <1>1 DEF PaypalCaptures
  <2>4. outcome # "completed"
    BY <1>1, <2>1, <2>3 DEF Settled, WasPaid, Paid
  <2>5. \A q \in Req : req'[q].pc = "answered" /\ req'[q].answer = "completed" => req'[q] = req[q]
    BY <1>1, <2>4 DEF PaypalCaptures, Typed, TypeOK, ReqState
  <2> QED BY <1>1, <2>1, <2>2, <2>5, SettledKept
<1>2. ASSUME NEW outcome \in Outcome, PaypalCaptures(r, outcome), ~UNCHANGED sent
      PROVE  Settled'
  <2>1. PICK o \in Order : o = req[r].order /\ status[o] # "none"
    BY <1>2 DEF PaypalCaptures, Typed, Exclusive, Active
  <2>2. /\ paypal' = [paypal EXCEPT ![o] = "completed"]
        /\ sent' = sent \cup {Notice("completed", o)}
        /\ UNCHANGED <<status, recon>>
    BY <1>2, <2>1 DEF PaypalCaptures, rows
  <2>3. req'[r].order = o /\ \A q \in Req \ {r} : req'[q] = req[q]
    BY <1>2, <2>1 DEF PaypalCaptures, Typed, TypeOK, ReqState
  <2>4. WasPaid(o)' /\ \A p \in Order : WasPaid(p) => WasPaid(p)'
    <3>1. WasPaid(o)'
      BY <2>2 DEF WasPaid, Paid, Typed, TypeOK
    <3> QED BY <3>1, PaidStays
  <2>5. \A p \in Order : status'[p] = "none" => paypal'[p] = "none"
    BY <2>1, <2>2 DEF Settled, Typed, TypeOK
  <2>6. \A p \in Order : status'[p] = "captured" => WasPaid(p)'
    BY <2>2, <2>4 DEF Settled
  <2>7. \A p \in Order : Notice("completed", p) \in sent' => WasPaid(p)'
    <3>1. \A p \in Order : Notice("completed", p) = Notice("completed", o) => p = o
      BY DEF Notice
    <3> QED BY <2>2, <2>4, <3>1 DEF Settled
  <2>8. \A q \in Req : req'[q].pc = "answered" /\ req'[q].answer = "completed"
          => WasPaid(req[q].order)'
    BY <2>3, <2>4 DEF Settled, WasPaid, Typed, TypeOK
  <2>9. recon'.order # Null /\ recon'.decision = "complete" => WasPaid(recon.order)'
    BY <2>2, <2>4 DEF Settled, WasPaid, Typed, TypeOK
  <2> QED BY <2>5, <2>6, <2>7, <2>8, <2>9 DEF Settled, WasPaid
<1>3. ASSUME UNCHANGED <<paypal, sent, recon>>,
             \A o \in Order : status'[o] = "none" => status[o] = "none",
             \A o \in Order : status'[o] = "captured" => status[o] = "captured" \/ WasPaid(o),
             \A q \in Req : req'[q].pc = "answered" => req'[q] = req[q]
      PROVE  Settled'
  BY <1>3, SettledKept
<1>4. CASE CallPaypal(r) \/ RequestLost(r) \/ (\E o \in Order : ClaimForCapture(r, o))
           \/ ReleaseCaptureClaim(r)
  <2>1. \A q \in Req : req'[q].pc = "answered" => req'[q] = req[q]
    BY <1>4 DEF CallPaypal, RequestLost, ClaimForCapture, ReleaseCaptureClaim, Idle,
                Typed, TypeOK, ReqState
  <2>2. UNCHANGED <<paypal, sent, recon>>
    BY <1>4 DEF CallPaypal, RequestLost, ClaimForCapture, ReleaseCaptureClaim, remote
  <2>3. \A o \in Order : status'[o] \in {"none", "captured"} => status'[o] = status[o]
    BY <1>4 DEF CallPaypal, RequestLost, ClaimForCapture, ReleaseCaptureClaim, rows,
                Typed, TypeOK
  <2> QED BY <1>3, <2>1, <2>2, <2>3
<1>5. CASE RefuseClosedAddon(r) \/ CaptureNotCompleted(r) \/ CaptureCompleted(r)
  <2> DEFINE o == req[r].order
  <2>1. o \in Order
    BY <1>5 DEF RefuseClosedAddon, CaptureNotCompleted, CaptureCompleted, Typed
  <2>2. UNCHANGED <<paypal, sent, recon>> /\ req' = [req EXCEPT ![r] = Idle]
    BY <1>5 DEF RefuseClosedAddon, CaptureNotCompleted, CaptureCompleted, remote
  <2>3. ClosesOnly(o) /\ (status'[o] = "captured" => WasPaid(o))
    BY <1>5, <2>1, MarkFailedCloses, FinalizeCloses
       DEF RefuseClosedAddon, CaptureNotCompleted, CaptureCompleted, Settled
  <2>4. \A q \in Req : req'[q].pc = "answered" => req'[q] = req[q]
    BY <2>2 DEF Idle, Typed, TypeOK
  <2> QED BY <1>3, <2>2, <2>3, <2>4 DEF ClosesOnly, Closed
<1> QED BY <1>1, <1>2, <1>4, <1>5 DEF Capture

LEMMA SettledWebhook ==
  ASSUME Typed, Settled, NEW o \in Order, Webhook(o)
  PROVE  Settled'
<1>1. UNCHANGED <<paypal, sent, req, recon>>
  BY DEF Webhook, WebhookCompleted, HandleReversal, remote
<1>2. CASE WebhookCompleted(o)
  <2>1. ClosesOnly(o) /\ WasPaid(o)
    BY <1>2, FinalizeCloses DEF WebhookCompleted, Settled
  <2> QED BY <1>1, <2>1, SettledKept DEF ClosesOnly, Closed, Next
<1>3. ASSUME NEW type \in ReversalType, HandleReversal(o, type)
      PROVE  Settled'
  <2>1. UNCHANGED status \/ (ClosesOnly(o) /\ status'[o] # "captured")
    BY <1>3, ReversalCloses DEF HandleReversal, rows
  <2> QED BY <1>1, <2>1, SettledKept DEF ClosesOnly, Closed, Next
<1> QED BY <1>2, <1>3 DEF Webhook

LEMMA SettledReconcile ==
  ASSUME Typed, Settled, Reconcile
  PROVE  Settled'
<1>1. UNCHANGED <<paypal, sent, req>>
  BY DEF Reconcile, ReconcileStart, ReconcileApply, ReconcileCrash, ReconcileAsk,
         ReconcileError, remote
<1>2. CASE ReconcileStart \/ ReconcileCrash \/ \E o \in Order : ReconcileError(o)
  <2>1. UNCHANGED status /\ recon'.order = Null
    BY <1>2 DEF ReconcileStart, ReconcileCrash, ReconcileError, Resting, rows, Typed, TypeOK
  <2> QED BY <1>1, <2>1, SettledKept DEF Next
<1>3. ASSUME NEW o \in Order, ReconcileAsk(o)
      PROVE  Settled'
  <2>1. UNCHANGED status /\ recon'.order = o
        /\ (recon'.decision = "complete" => paypal[o] = "completed")
    BY <1>3 DEF ReconcileAsk, DecideStuckCapture, rows
  <2> QED BY <1>1, <2>1 DEF Settled, WasPaid, Paid
<1>4. CASE ReconcileApply
  <2>1. recon.order \in Order /\ recon'.order = Null
    BY <1>4 DEF ReconcileApply, Typed, TypeOK
  <2>2. UNCHANGED status \/ (ClosesOnly(recon.order) /\ (status'[recon.order] = "captured"
           => WasPaid(recon.order)))
    BY <1>4, <2>1, FinalizeCloses, MarkFailedCloses DEF ReconcileApply, FailIfCapturing, Settled, rows
  <2> QED BY <1>1, <2>1, <2>2, SettledKept DEF ClosesOnly, Closed, Next
<1> QED BY <1>2, <1>3, <1>4 DEF Reconcile

LEMMA SettledStep == Typed /\ Exclusive /\ Settled /\ [Next]_vars => Settled'
<1> SUFFICES ASSUME Typed, Exclusive, Settled, [Next]_vars PROVE Settled'
  OBVIOUS
<1>1. ASSUME NEW o \in Order, Initiate(o) PROVE Settled'
  <2>1. \A p \in Order : status'[p] \in {"none", "captured"} =>
          status'[p] = status[p] /\ paypal'[p] = paypal[p]
    BY <1>1 DEF Initiate, Typed, TypeOK
  <2> QED BY <1>1, <2>1, SettledKept DEF Initiate
<1>2. ASSUME NEW o \in Order, Environment(o) PROVE Settled'
  <2>1. UNCHANGED <<status, req, recon>>
    BY <1>2 DEF Environment, BuyerApproves, CaptureSettles, MoneyReturned, rows
  <2>2. \A p \in Order : status'[p] = "none" => paypal'[p] = "none"
    BY <1>2, <2>1 DEF Environment, BuyerApproves, CaptureSettles, MoneyReturned,
                      Settled, Paid, Typed, TypeOK
  <2>3. \A p \in Order : WasPaid(p) => WasPaid(p)'
    BY PaidStays
  <2>4. \A p \in Order : Notice("completed", p) \in sent' =>
          Notice("completed", p) \in sent \/ WasPaid(p)'
    BY <1>2 DEF Environment, BuyerApproves, CaptureSettles, MoneyReturned, Notice,
                WasPaid, Paid, Typed, TypeOK, ReturnAssumption
  <2> QED BY <2>1, <2>2, <2>3, <2>4 DEF Settled, WasPaid, Typed, TypeOK
<1>3. CASE FreePeriodEnds \/ Tick \/ UNCHANGED vars
  BY <1>3 DEF FreePeriodEnds, Tick, Settled, WasPaid, rows, remote, vars
<1> QED
  BY <1>1, <1>2, <1>3, SettledCapture, SettledWebhook, SettledReconcile DEF Next

Sound == Typed /\ Exclusive /\ Settled

LEMMA SoundAlways == Spec => []Sound
<1>1. Init => Sound
  BY TypedInit DEF Init, Sound, Exclusive, OneCaptureCall, Active, Settled, Idle, Resting
<1>2. Sound /\ [Next]_vars => Sound'
  BY TypedStep, ExclusiveStep, SettledStep DEF Sound
<1> QED BY <1>1, <1>2, PTL DEF Spec

\* No row is ever captured, and so no access granted, for an order PayPal has not
\* captured: not by a late webhook, a retried request or the reconcile cron.
THEOREM NothingForFree == Spec => []CapturedMeansPaid
<1>1. Sound => CapturedMeansPaid
  BY DEF Sound, Settled, CapturedMeansPaid, WasPaid
<1> QED BY <1>1, SoundAlways, PTL

-----------------------------------------------------------------------------
(* Retries.                                                                  *)

\* While a declined answer is on its way, nobody else can capture the order.
Declined ==
  \A r \in Req : req[r].pc = "answered" /\ req[r].answer = "declined"
     => paypal[req[r].order] \in {"created", "approved"}

LEMMA DeclinedStep == Sound /\ Declined /\ [Next]_vars => Declined'
<1> SUFFICES ASSUME Sound, Declined, [Next]_vars,
                    NEW q \in Req, req'[q].pc = "answered", req'[q].answer = "declined"
             PROVE  paypal'[req'[q].order] \in {"created", "approved"}
  BY DEF Declined
<1> USE DEF Sound
<1>1. ASSUME NEW r \in Req, NEW outcome \in Outcome, PaypalCaptures(r, outcome)
      PROVE  paypal'[req'[q].order] \in {"created", "approved"}
  <2>1. CASE q = r
    BY <1>1, <2>1 DEF PaypalCaptures, Typed, TypeOK, ReqState
  <2>2. CASE q # r
    <3>1. req'[q] = req[q] /\ req[r].order # req[q].order
          /\ req[r].order \in Order /\ req[q].order \in Order
      BY <1>1, <2>2 DEF PaypalCaptures, Typed, TypeOK, Exclusive, OneCaptureCall, Active
    <3> QED BY <1>1, <3>1 DEF PaypalCaptures, Declined, Typed, TypeOK
  <2> QED BY <2>1, <2>2
<1>2. ASSUME req'[q] = req[q], UNCHANGED paypal
      PROVE  paypal'[req'[q].order] \in {"created", "approved"}
  BY <1>2 DEF Declined
<1>3. ASSUME NEW r \in Req, Capture(r), ~ \E outcome \in Outcome : PaypalCaptures(r, outcome)
      PROVE  req'[q] = req[q] /\ UNCHANGED paypal
  <2>1. \/ \E o \in Order : req' = [req EXCEPT ![r] =
             [pc |-> IF Extends(o) THEN "calling" ELSE "claimed", order |-> o, answer |-> "none"]]
        \/ req' = [req EXCEPT ![r].pc = "calling"]
        \/ req' = [req EXCEPT ![r] = Idle]
    BY <1>3 DEF Capture, ClaimForCapture, RefuseClosedAddon, CallPaypal, RequestLost,
                ReleaseCaptureClaim, CaptureNotCompleted, CaptureCompleted
  <2>2. UNCHANGED paypal
    BY <1>3 DEF Capture, ClaimForCapture, RefuseClosedAddon, CallPaypal, RequestLost,
                ReleaseCaptureClaim, CaptureNotCompleted, CaptureCompleted, remote
  <2>3. q # r
    BY <2>1 DEF Idle, Typed, TypeOK, ReqState
  <2> QED BY <2>1, <2>2, <2>3 DEF Typed, TypeOK
<1>4. ASSUME NEW o \in Order, Initiate(o)
      PROVE  paypal'[req'[q].order] \in {"created", "approved"}
  BY <1>4 DEF Initiate, Declined, Typed, TypeOK
<1>5. ASSUME NEW o \in Order, Environment(o)
      PROVE  paypal'[req'[q].order] \in {"created", "approved"}
  BY <1>5 DEF Environment, BuyerApproves, CaptureSettles, MoneyReturned, Paid, Declined,
              Typed, TypeOK
<1>6. ASSUME NEW o \in Order, Webhook(o) PROVE UNCHANGED <<req, paypal>>
  BY <1>6 DEF Webhook, WebhookCompleted, HandleReversal, remote
<1>7. Reconcile => UNCHANGED <<req, paypal>>
  BY DEF Reconcile, ReconcileStart, ReconcileApply, ReconcileCrash, ReconcileAsk,
         ReconcileError, remote
<1>8. FreePeriodEnds \/ Tick \/ UNCHANGED vars => UNCHANGED <<req, paypal>>
  BY DEF FreePeriodEnds, Tick, vars, remote
<1> QED BY <1>1, <1>2, <1>3, <1>4, <1>5, <1>6, <1>7, <1>8 DEF Next

\* A step that returns a row to `pending` is releaseCaptureClaim.
LEMMA OnlyReleaseReopens ==
  ASSUME Typed, [Next]_vars, NEW o \in Order, status[o] = "capturing", status'[o] = "pending"
  PROVE  \E r \in Req : ReleaseCaptureClaim(r) /\ req[r].order = o
<1>1. ASSUME NEW p \in Order, Initiate(p) PROVE FALSE
  BY <1>1 DEF Initiate, Typed, TypeOK
<1>2. ASSUME NEW p \in Order, Environment(p) PROVE FALSE
  BY <1>2 DEF Environment, BuyerApproves, CaptureSettles, MoneyReturned, rows
<1>3. ASSUME NEW p \in Order, Webhook(p) PROVE FALSE
  <2>1. ClosesOnly(p) \/ UNCHANGED status
    BY <1>3, FinalizeCloses, ReversalCloses DEF Webhook, WebhookCompleted, HandleReversal, rows
  <2> QED BY <2>1 DEF ClosesOnly, Closed
<1>4. ASSUME Reconcile PROVE FALSE
  <2>1. CASE ReconcileApply
    <3>1. recon.order \in Order
      BY <2>1 DEF ReconcileApply, Typed, TypeOK
    <3>2. ClosesOnly(recon.order) \/ UNCHANGED status
      BY <2>1, <3>1, FinalizeCloses, MarkFailedCloses DEF ReconcileApply, FailIfCapturing, rows
    <3> QED BY <3>2 DEF ClosesOnly, Closed
  <2>2. CASE ~ReconcileApply
    BY <1>4, <2>2 DEF Reconcile, ReconcileStart, ReconcileCrash, ReconcileAsk, ReconcileError, rows
  <2> QED BY <2>1, <2>2
<1>5. ASSUME FreePeriodEnds \/ Tick \/ UNCHANGED vars PROVE FALSE
  BY <1>5 DEF FreePeriodEnds, Tick, vars, rows
<1>6. ASSUME NEW r \in Req, Capture(r)
      PROVE  ReleaseCaptureClaim(r) /\ req[r].order = o
  <2>1. CASE RefuseClosedAddon(r) \/ CaptureNotCompleted(r) \/ CaptureCompleted(r)
    <3>1. PICK p \in Order : ClosesOnly(p)
      BY <2>1, MarkFailedCloses, FinalizeCloses
         DEF RefuseClosedAddon, CaptureNotCompleted, CaptureCompleted, Typed
    <3> QED BY <3>1 DEF ClosesOnly, Closed
  <2>2. CASE CallPaypal(r) \/ RequestLost(r) \/ (\E outcome \in Outcome : PaypalCaptures(r, outcome))
    BY <2>2 DEF CallPaypal, RequestLost, PaypalCaptures, rows
  <2>3. CASE \E p \in Order : ClaimForCapture(r, p)
    BY <2>3 DEF ClaimForCapture, Typed, TypeOK
  <2>4. CASE ReleaseCaptureClaim(r)
    BY <2>4 DEF ReleaseCaptureClaim, Typed, TypeOK
  <2> QED BY <1>6, <2>1, <2>2, <2>3, <2>4 DEF Capture
<1> QED BY <1>1, <1>2, <1>3, <1>4, <1>5, <1>6 DEF Next

\* A row goes back to `pending`, where it can be captured again, only when PayPal
\* took nothing: the buyer cannot be charged twice for one order.
THEOREM RetriesAreFree == Spec => RetryOnlyUnpaid
<1>1. Init => Declined
  BY DEF Init, Declined, Idle
<1>2. Sound /\ Declined /\ [Next]_vars =>
        [\A o \in Order : status[o] = "capturing" /\ status'[o] = "pending"
            => paypal[o] \notin Paid \cup {"pending", "refunded"}]_vars
  BY OnlyReleaseReopens DEF Sound, Declined, ReleaseCaptureClaim, Paid
<1> QED BY <1>1, <1>2, SoundAlways, DeclinedStep, PTL DEF Spec, RetryOnlyUnpaid

-----------------------------------------------------------------------------
(* Captures that PayPal answers at once: no eChecks, no payment review.      *)

\* Without PENDING captures, PayPal denies nothing later, and an answer other
\* than COMPLETED means the capture was declined for good.
Instant ==
  /\ \A o \in Order : paypal[o] # "pending" /\ Notice("denied", o) \notin sent
  /\ \A r \in Req : req[r].pc = "answered" /\ req[r].answer = "not_completed"
       => paypal[req[r].order] = "declined"

LEMMA InstantStep ==
  ASSUME ~PendingAnswers
  PROVE  Sound /\ Instant /\ [Next]_vars => Instant'
<1> SUFFICES ASSUME Sound, Instant, [Next]_vars PROVE Instant'
  OBVIOUS
<1> USE DEF Sound
<1>1. ASSUME NEW r \in Req, NEW outcome \in Outcome, PaypalCaptures(r, outcome)
      PROVE  Instant'
  <2>1. \A o \in Order : paypal'[o] # "pending" /\ (paypal[o] = "declined" => paypal'[o] = "declined")
    BY <1>1 DEF PaypalCaptures, Instant, Typed, TypeOK
  <2>2. \A o \in Order : Notice("denied", o) \notin sent'
    <3>1. sent' \subseteq sent \cup {Notice("completed", req[r].order)}
      BY <1>1 DEF PaypalCaptures
    <3>2. \A o \in Order : Notice("denied", o) # Notice("completed", req[r].order)
      BY DEF Notice
    <3> QED BY <3>1, <3>2 DEF Instant
  <2>3. \A q \in Req \ {r} : req'[q] = req[q]
    BY <1>1 DEF PaypalCaptures, Typed, TypeOK
  <2>4. req'[r].answer = "not_completed" => paypal'[req'[r].order] = "declined"
    BY <1>1 DEF PaypalCaptures, Typed, TypeOK, ReqState
  <2>5. ASSUME NEW q \in Req, q # r, req'[q].pc = "answered", req'[q].answer = "not_completed"
        PROVE  paypal'[req'[q].order] = "declined"
    BY <2>1, <2>3, <2>5 DEF Instant, Typed
  <2> QED BY <2>1, <2>2, <2>4, <2>5 DEF Instant
<1>2. ASSUME UNCHANGED <<paypal, sent>>,
             \A q \in Req : req'[q].pc = "answered" => req'[q] = req[q]
      PROVE  Instant'
  BY <1>2 DEF Instant
<1>3. ASSUME NEW r \in Req, Capture(r), ~ \E outcome \in Outcome : PaypalCaptures(r, outcome)
      PROVE  Instant'
  <2>1. \/ \E o \in Order : req' = [req EXCEPT ![r] =
             [pc |-> IF Extends(o) THEN "calling" ELSE "claimed", order |-> o, answer |-> "none"]]
        \/ req' = [req EXCEPT ![r].pc = "calling"]
        \/ req' = [req EXCEPT ![r] = Idle]
    BY <1>3 DEF Capture, ClaimForCapture, RefuseClosedAddon, CallPaypal, RequestLost,
                ReleaseCaptureClaim, CaptureNotCompleted, CaptureCompleted
  <2>2. UNCHANGED <<paypal, sent>>
    BY <1>3 DEF Capture, ClaimForCapture, RefuseClosedAddon, CallPaypal, RequestLost,
                ReleaseCaptureClaim, CaptureNotCompleted, CaptureCompleted, remote
  <2>3. \A q \in Req : req'[q].pc = "answered" => req'[q] = req[q]
    BY <2>1 DEF Idle, Typed, TypeOK, ReqState
  <2> QED BY <1>2, <2>2, <2>3
<1>4. ASSUME NEW o \in Order, Initiate(o) \/ BuyerApproves(o) \/ MoneyReturned(o)
      PROVE  Instant'
  <2>1. UNCHANGED req /\ \A p \in Order : Notice("denied", p) \notin sent'
    BY <1>4 DEF Initiate, BuyerApproves, MoneyReturned, Instant, Notice
  <2>2. \A p \in Order : paypal'[p] # "pending" /\ (paypal[p] = "declined" => paypal'[p] = "declined")
    BY <1>4 DEF Initiate, BuyerApproves, MoneyReturned, Instant, Settled, Paid, Typed, TypeOK
  <2> QED BY <2>1, <2>2 DEF Instant, Typed
<1>5. ASSUME NEW o \in Order, CaptureSettles(o) PROVE Instant'
  BY <1>5 DEF CaptureSettles, Instant
<1>6. ASSUME NEW o \in Order, Webhook(o) PROVE UNCHANGED <<req, paypal, sent>>
  BY <1>6 DEF Webhook, WebhookCompleted, HandleReversal, remote
<1>7. Reconcile => UNCHANGED <<req, paypal, sent>>
  BY DEF Reconcile, ReconcileStart, ReconcileApply, ReconcileCrash, ReconcileAsk,
         ReconcileError, remote
<1>8. FreePeriodEnds \/ Tick \/ UNCHANGED vars => UNCHANGED <<req, paypal, sent>>
  BY DEF FreePeriodEnds, Tick, vars, remote
<1> QED BY <1>1, <1>2, <1>3, <1>4, <1>5, <1>6, <1>7, <1>8 DEF Next, Environment

\* Once per order: the window is granted with the row's move to captured, and
\* taken back with its move from captured to refunded.
LEMMA BalanceStep ==
  ASSUME ~PendingAnswers
  PROVE  Sound /\ Instant /\ GrantBalance /\ [Next]_vars => GrantBalance'
<1> SUFFICES ASSUME Sound, Instant, GrantBalance, [Next]_vars,
                    NEW p \in Order, Extends(p)
             PROVE  grants'[p] - takebacks'[p] = IF status'[p] = "captured" THEN 1 ELSE 0
  BY DEF GrantBalance
<1> DEFINE Balance(s, g, t) == g[p] - t[p] = IF s[p] = "captured" THEN 1 ELSE 0
<1> USE DEF Sound
<1>0. Balance(status, grants, takebacks)
  BY DEF GrantBalance
<1>1. ASSUME UNCHANGED <<grants, takebacks>>, status'[p] = "captured" <=> status[p] = "captured"
      PROVE  Balance(status', grants', takebacks')
  BY <1>0, <1>1
<1>2. ASSUME NEW o \in Order, FinalizeCapture(o), UNCHANGED takebacks
      PROVE  Balance(status', grants', takebacks')
  <2>1. CASE status[o] = "captured"
    BY <1>0, <1>2, <2>1 DEF FinalizeCapture, rows
  <2>2. CASE status[o] # "captured" /\ o # p
    BY <1>0, <1>2, <2>2 DEF FinalizeCapture, Typed, TypeOK
  <2>3. CASE status[o] # "captured" /\ o = p
    BY <1>0, <1>2, <2>3 DEF FinalizeCapture, Typed, TypeOK
  <2> QED BY <2>1, <2>2, <2>3
<1>3. ASSUME NEW o \in Order, NEW type, FullReversal(o, type), UNCHANGED grants
      PROVE  Balance(status', grants', takebacks')
  <2>1. CASE o # p
    BY <1>0, <1>3, <2>1 DEF FullReversal, Typed, TypeOK
  <2>2. CASE o = p
    BY <1>0, <1>3, <2>2 DEF FullReversal, Typed, TypeOK
  <2> QED BY <2>1, <2>2
<1>4. ASSUME NEW r \in Req, Capture(r)
      PROVE  Balance(status', grants', takebacks')
  <2>1. CASE RefuseClosedAddon(r)
    BY <1>1, <2>1 DEF RefuseClosedAddon, MarkFailed, AddonClosed, Extends, history, Typed, TypeOK
  <2>2. CASE CaptureNotCompleted(r)
    <3>1. status[req[r].order] # "captured"
      BY <2>2 DEF CaptureNotCompleted, Instant, Settled, WasPaid, Paid, Typed
    <3> QED BY <1>1, <2>2, <3>1 DEF CaptureNotCompleted, MarkFailed, history, Typed, TypeOK
  <2>3. CASE CaptureCompleted(r)
    BY <1>2, <2>3 DEF CaptureCompleted, Typed
  <2>4. CASE CallPaypal(r) \/ RequestLost(r) \/ (\E outcome \in Outcome : PaypalCaptures(r, outcome))
    BY <1>1, <2>4 DEF CallPaypal, RequestLost, PaypalCaptures, rows, history
  <2>5. CASE ReleaseCaptureClaim(r) \/ \E o \in Order : ClaimForCapture(r, o)
    BY <1>1, <2>5 DEF ReleaseCaptureClaim, ClaimForCapture, history, Typed, TypeOK
  <2> QED BY <1>4, <2>1, <2>2, <2>3, <2>4, <2>5 DEF Capture
<1>5. ASSUME NEW o \in Order, Webhook(o)
      PROVE  Balance(status', grants', takebacks')
  <2>1. CASE WebhookCompleted(o)
    BY <1>2, <2>1 DEF WebhookCompleted
  <2>2. ASSUME NEW type \in ReversalType, HandleReversal(o, type)
        PROVE  Balance(status', grants', takebacks')
    BY <1>1, <1>3, <2>2 DEF HandleReversal, rows
  <2> QED BY <1>5, <2>1, <2>2 DEF Webhook
<1>6. ASSUME Reconcile
      PROVE  Balance(status', grants', takebacks')
  <2>1. CASE ReconcileApply
    <3>1. recon.order \in Order
      BY <2>1 DEF ReconcileApply, Typed, TypeOK
    <3>2. CASE FinalizeCapture(recon.order)
      BY <1>2, <2>1, <3>1, <3>2 DEF ReconcileApply
    <3>3. CASE FailIfCapturing(recon.order) /\ UNCHANGED grants
      BY <1>1, <2>1, <3>1, <3>3 DEF ReconcileApply, FailIfCapturing, MarkFailed, rows, Typed, TypeOK
    <3>4. CASE UNCHANGED <<rows, grants>>
      BY <1>1, <2>1, <3>4 DEF ReconcileApply, rows
    <3> QED BY <2>1, <3>2, <3>3, <3>4 DEF ReconcileApply
  <2>2. CASE ~ReconcileApply
    BY <1>1, <1>6, <2>2 DEF Reconcile, ReconcileStart, ReconcileCrash, ReconcileAsk,
                            ReconcileError, rows, history
  <2> QED BY <2>1, <2>2
<1>7. ASSUME NEW o \in Order, Initiate(o) \/ Environment(o)
      PROVE  Balance(status', grants', takebacks')
  BY <1>1, <1>7 DEF Initiate, Environment, BuyerApproves, CaptureSettles, MoneyReturned,
                    rows, history, Typed, TypeOK
<1>8. FreePeriodEnds \/ Tick \/ UNCHANGED vars => Balance(status', grants', takebacks')
  BY <1>1 DEF FreePeriodEnds, Tick, rows, history, vars
<1> QED BY <1>4, <1>5, <1>6, <1>7, <1>8 DEF Next

\* With captures answered at once, an order's days are on the expiry exactly while
\* its row is captured, whatever interleaving of capture, webhooks and cron.
THEOREM GrantedOnce ==
  ASSUME ~PendingAnswers
  PROVE  Spec => []GrantBalance
<1>1. Init => Instant /\ GrantBalance
  BY DEF Init, Instant, GrantBalance, Idle
<1> QED BY <1>1, SoundAlways, InstantStep, BalanceStep, PTL DEF Spec

-----------------------------------------------------------------------------
(* What is left of the paid access.                                          *)

Granted == {o \in Order : Extends(o) /\ status[o] = "captured"}

\* A granted window is as long as what was bought.
Windows == \A o \in Granted : endsAt[o] - startsAt[o] = Days

\* A step leaves every granted window alone, grants one, or takes one back.
KeepsGrants == UNCHANGED <<Granted, expiry>> /\ \A o \in Granted : UNCHANGED <<startsAt[o], endsAt[o]>>

Grants(o) ==
  /\ o \notin Granted /\ Granted' = Granted \cup {o}
  /\ expiry' = NewExpiry /\ startsAt'[o] = NewExpiry - Days /\ endsAt'[o] = NewExpiry
  /\ \A p \in Granted : UNCHANGED <<startsAt[p], endsAt[p]>>

TakesBack(o) ==
  /\ o \in Granted /\ Granted' = Granted \ {o}
  /\ expiry' = IF expiry = Null THEN Null ELSE expiry - (endsAt[o] - startsAt[o])
  /\ UNCHANGED <<startsAt, endsAt>>

LEMMA FinalizeGrants ==
  ASSUME Sound, NEW o \in Order, FinalizeCapture(o)
  PROVE  KeepsGrants \/ Grants(o)
<1> USE DEF Sound, Typed, TypeOK
<1>1. CASE status[o] = "captured"
  BY <1>1 DEF FinalizeCapture, rows, KeepsGrants, Granted, Extends
<1>2. CASE status[o] # "captured"
  <2>1. /\ status' = [status EXCEPT ![o] = "captured"]
        /\ \/ ~Extends(o) /\ UNCHANGED <<expiry, startsAt, endsAt>>
           \/ /\ Extends(o) /\ expiry' = NewExpiry
              /\ startsAt' = [startsAt EXCEPT ![o] = NewExpiry - Days]
              /\ endsAt' = [endsAt EXCEPT ![o] = NewExpiry]
    BY <1>2 DEF FinalizeCapture
  <2>2. \A p \in Order : status'[p] = IF p = o THEN "captured" ELSE status[p]
    BY <2>1
  <2>3. CASE ~Extends(o)
    <3>1. Granted' = Granted
      BY <2>2, <2>3 DEF Granted, Extends
    <3> QED BY <2>1, <2>3, <3>1 DEF KeepsGrants
  <2>4. CASE Extends(o)
    <3>1. o \notin Granted /\ Granted' = Granted \cup {o}
      BY <1>2, <2>2, <2>4 DEF Granted, Extends
    <3>2. \A p \in Granted : p \in Order /\ p # o
      BY <3>1 DEF Granted
    <3> QED BY <2>1, <2>4, <3>1, <3>2 DEF Grants
  <2> QED BY <2>3, <2>4
<1> QED BY <1>1, <1>2

LEMMA GrantsMove ==
  ASSUME Sound, Instant, [Next]_vars
  PROVE  /\ KeepsGrants \/ \E o \in Order : Grants(o) \/ TakesBack(o)
         /\ now' \in Nat /\ now <= now' /\ now \in Nat
<1> USE DEF Sound
<1> DEFINE Moved == KeepsGrants \/ \E o \in Order : Grants(o) \/ TakesBack(o)
<1>1. now \in Nat /\ (now' = now \/ now' = now + 1)
  BY DEF Typed, TypeOK, Next, vars, Initiate, Webhook, Environment, Capture, Reconcile, FreePeriodEnds, Tick,
         WebhookCompleted, HandleReversal, BuyerApproves, CaptureSettles, MoneyReturned,
         ClaimForCapture, RefuseClosedAddon, CallPaypal, PaypalCaptures, RequestLost, ReleaseCaptureClaim,
         CaptureNotCompleted, CaptureCompleted, ReconcileStart, ReconcileApply, ReconcileCrash, ReconcileAsk,
         ReconcileError
<1>2. ASSUME UNCHANGED <<expiry, startsAt, endsAt>>,
             \A p \in Order : Extends(p) => (status'[p] = "captured" <=> status[p] = "captured")
      PROVE  Moved
  BY <1>2 DEF KeepsGrants, Granted, Extends
<1>0. ASSUME UNCHANGED <<expiry, rows>> PROVE Moved
  BY <1>2, <1>0 DEF rows
<1>3. ASSUME NEW o \in Order, NEW type, FullReversal(o, type) PROVE Moved
  <2>1. UNCHANGED <<startsAt, endsAt>> /\ \A p \in Order \ {o} : status'[p] = status[p]
    BY <1>3 DEF FullReversal, Typed, TypeOK
  <2>2. status'[o] # "captured"
    BY <1>3 DEF FullReversal, Typed, TypeOK
  <2>3. CASE status[o] = "captured" /\ Extends(o)
    <3>1. o \in Granted /\ Granted' = Granted \ {o}
      BY <2>1, <2>2, <2>3 DEF Granted, Extends
    <3> QED BY <1>3, <2>1, <2>3, <3>1 DEF FullReversal, SubtractPaidWindow, TakesBack
  <2>4. CASE ~(status[o] = "captured" /\ Extends(o))
    BY <1>2, <1>3, <2>1, <2>2, <2>4 DEF FullReversal
  <2> QED BY <2>3, <2>4
<1>4. ASSUME NEW r \in Req, Capture(r) PROVE Moved
  <2>1. CASE RefuseClosedAddon(r)
    BY <1>2, <2>1 DEF RefuseClosedAddon, MarkFailed, AddonClosed, company, Typed, TypeOK
  <2>2. CASE CaptureNotCompleted(r)
    <3>1. status[req[r].order] # "captured"
      BY <2>2 DEF CaptureNotCompleted, Instant, Settled, WasPaid, Paid, Typed
    <3> QED BY <1>2, <2>2, <3>1 DEF CaptureNotCompleted, MarkFailed, company, Typed, TypeOK
  <2>3. CASE CaptureCompleted(r)
    BY <2>3, FinalizeGrants DEF CaptureCompleted, Typed
  <2>4. CASE CallPaypal(r) \/ RequestLost(r) \/ (\E outcome \in Outcome : PaypalCaptures(r, outcome))
    BY <1>2, <2>4 DEF CallPaypal, RequestLost, PaypalCaptures, rows, company
  <2>5. CASE ReleaseCaptureClaim(r) \/ \E o \in Order : ClaimForCapture(r, o)
    BY <1>2, <2>5 DEF ReleaseCaptureClaim, ClaimForCapture, company, Typed, TypeOK
  <2> QED BY <1>4, <2>1, <2>2, <2>3, <2>4, <2>5 DEF Capture
<1>5. ASSUME NEW o \in Order, Webhook(o) PROVE Moved
  <2>1. CASE WebhookCompleted(o)
    BY <2>1, FinalizeGrants DEF WebhookCompleted
  <2>2. ASSUME NEW type \in ReversalType, HandleReversal(o, type) PROVE Moved
    BY <1>2, <1>3, <2>2 DEF HandleReversal, rows
  <2> QED BY <1>5, <2>1, <2>2 DEF Webhook
<1>6. ASSUME Reconcile PROVE Moved
  <2>1. CASE ReconcileApply
    <3>1. PICK o \in Order : o = recon.order
      BY <2>1 DEF ReconcileApply, Typed, TypeOK
    <3>2. CASE FinalizeCapture(o)
      BY <3>2, FinalizeGrants
    <3>3. CASE FailIfCapturing(o) /\ UNCHANGED expiry
      <4>1. UNCHANGED rows \/ (status[o] = "capturing" /\ MarkFailed(o, FALSE))
        BY <3>3 DEF FailIfCapturing
      <4> QED BY <1>0, <1>2, <3>3, <4>1 DEF MarkFailed, Typed, TypeOK
    <3>4. CASE UNCHANGED <<rows, expiry>>
      BY <1>0, <3>4
    <3> QED BY <2>1, <3>1, <3>2, <3>3, <3>4 DEF ReconcileApply
  <2>2. CASE ~ReconcileApply
    BY <1>0, <1>6, <2>2 DEF Reconcile, ReconcileStart, ReconcileCrash, ReconcileAsk,
                            ReconcileError, company
  <2> QED BY <2>1, <2>2
<1>7. ASSUME NEW o \in Order, Initiate(o) PROVE Moved
  <2>1. status[o] = "none" /\ status' = [status EXCEPT ![o] = "pending"] /\ UNCHANGED expiry
    BY <1>7 DEF Initiate, company
  <2>2. \A p \in Order \ {o} : UNCHANGED <<startsAt[p], endsAt[p]>>
    BY <1>7 DEF Initiate, Typed, TypeOK
  <2>3. Granted' = Granted /\ o \notin Granted
    BY <2>1 DEF Granted, Extends, Typed, TypeOK
  <2> QED BY <2>1, <2>2, <2>3 DEF KeepsGrants, Granted
<1>8. ASSUME NEW o \in Order, Environment(o) PROVE Moved
  BY <1>2, <1>8 DEF Environment, BuyerApproves, CaptureSettles, MoneyReturned, rows, company
<1>9. ASSUME FreePeriodEnds \/ Tick \/ UNCHANGED vars PROVE Moved
  BY <1>0, <1>9 DEF FreePeriodEnds, Tick, company, vars
<1>10. Moved
  BY <1>4, <1>5, <1>6, <1>7, <1>8, <1>9 DEF Next
<1> QED BY <1>1, <1>10

\* A window more in the expiry is an order more that is captured, and so the other way round.
LEMMA WithinStep ==
  ASSUME ~PendingAnswers
  PROVE  Sound /\ Instant /\ Windows /\ AccessWithinPaid /\ [Next]_vars => (Windows /\ AccessWithinPaid)'
<1> SUFFICES ASSUME Sound, Instant, Windows, AccessWithinPaid, [Next]_vars
             PROVE  (Windows /\ AccessWithinPaid)'
  OBVIOUS
<1>1. /\ Days \in Nat /\ Days > 0 /\ now \in Nat /\ now' \in Nat /\ now <= now'
      /\ expiry \in Int \cup {Null}
  BY GrantsMove DEF Sound, Typed, TypeOK
<1>2. IsFiniteSet(Granted) /\ IsFiniteSet(Granted') /\ Cardinality(Granted) \in Nat
  BY FS_Subset, FS_CardinalityType DEF Granted
<1>3. expiry # Null /\ expiry > now => expiry - now <= Days * Cardinality(Granted)
  BY DEF AccessWithinPaid, Granted
<1>4. SUFFICES /\ \A p \in Granted' : endsAt'[p] - startsAt'[p] = Days
               /\ expiry' # Null /\ expiry' > now' => expiry' - now' <= Days * Cardinality(Granted')
  BY DEF Windows, AccessWithinPaid, Granted
<1>5. Days * Cardinality(Granted) >= 0 /\ Days * Cardinality(Granted) \in Nat
  BY <1>1, <1>2
<1>6. CASE KeepsGrants
  BY <1>1, <1>3, <1>5, <1>6 DEF KeepsGrants, Windows
<1>7. ASSUME NEW o \in Order, Grants(o)
      PROVE  /\ \A p \in Granted' : endsAt'[p] - startsAt'[p] = Days
             /\ expiry' # Null /\ expiry' > now' => expiry' - now' <= Days * Cardinality(Granted')
  <2>1. Cardinality(Granted') = Cardinality(Granted) + 1
    BY <1>2, <1>7, FS_AddElement DEF Grants
  <2>2. Days * (Cardinality(Granted) + 1) = Days * Cardinality(Granted) + Days
    BY <1>1, <1>2
  <2>3. NewExpiry \in Int /\ expiry' = NewExpiry
    BY <1>1, <1>7 DEF Grants, NewExpiry, Later
  <2>4. NewExpiry - now <= Days * Cardinality(Granted) + Days
    BY <1>1, <1>3, <1>5 DEF NewExpiry, Later
  <2>5. \A p \in Granted' : endsAt'[p] - startsAt'[p] = Days
    BY <1>1, <1>7, <2>3 DEF Grants, Windows
  <2> QED BY <1>1, <1>5, <2>1, <2>2, <2>3, <2>4, <2>5
<1>8. ASSUME NEW o \in Order, TakesBack(o)
      PROVE  /\ \A p \in Granted' : endsAt'[p] - startsAt'[p] = Days
             /\ expiry' # Null /\ expiry' > now' => expiry' - now' <= Days * Cardinality(Granted')
  <2>1. Cardinality(Granted') = Cardinality(Granted) - 1 /\ Cardinality(Granted') \in Nat
    BY <1>2, <1>8, FS_RemoveElement, FS_CardinalityType DEF TakesBack
  <2>2. Days * (Cardinality(Granted) - 1) = Days * Cardinality(Granted) - Days
    BY <1>1, <1>2
  <2>3. expiry' = IF expiry = Null THEN Null ELSE expiry - Days
    BY <1>8 DEF TakesBack, Windows
  <2>4. \A p \in Granted' : endsAt'[p] - startsAt'[p] = Days
    BY <1>8 DEF TakesBack, Windows
  <2> QED BY <1>1, <1>3, <1>5, <2>1, <2>2, <2>3, <2>4
<1> QED BY <1>6, <1>7, <1>8, GrantsMove

\* With captures answered at once, the company never has more paid time ahead of it than the
\* captured and unreversed orders bought, in whatever order captures, webhooks, the cron and
\* reversals move the expiry (extendSubscription, subtractPaidWindow).
THEOREM PaidTimeOnly ==
  ASSUME ~PendingAnswers
  PROVE  Spec => []AccessWithinPaid
<1>1. Init => Instant /\ Windows /\ AccessWithinPaid
  BY DEF Init, Instant, Windows, Granted, AccessWithinPaid, Idle
<1> QED BY <1>1, SoundAlways, InstantStep, WithinStep, PTL DEF Spec

-----------------------------------------------------------------------------
(* A failed row is one the buyer was not charged for.                        *)

Untaken(o) == paypal[o] \in {"created", "approved"}

\* Nobody is capturing an order that the reconcile run looks at or that is
\* failed, and one that nobody has called PayPal about is not captured there.
Watched ==
  /\ \A o \in Order : o \in recon.stuck \/ o = recon.order =>
       /\ status[o] \notin {"none", "pending"}
       /\ \A r \in Req : ~Active(r, o)
  /\ \A o \in Order : o = recon.order /\ recon.decision = "fail" => paypal[o] # "completed"
  /\ \A o \in Order : status[o] = "pending" => Untaken(o)
  /\ \A r \in Req : req[r].pc = "claimed" => Untaken(req[r].order)
  /\ \A o \in Order : status[o] = "failed" =>
       paypal[o] # "completed" /\ \A r \in Req : ~Active(r, o)

\* PayPal's state changes for an order nobody is capturing, and nothing else does.
\* (Without PENDING captures only the buyer, or a refund, can do this.)
LEMMA WatchedEnvironment ==
  ASSUME Sound, Instant, Watched, NEW o \in Order, Environment(o)
  PROVE  Watched'
<1>1. UNCHANGED <<status, req, recon>>
  BY DEF Environment, BuyerApproves, CaptureSettles, MoneyReturned, rows
<1>2. \A p \in Order : /\ paypal'[p] = "completed" => paypal[p] = "completed"
                       /\ Untaken(p) => Untaken(p)'
  BY DEF Environment, BuyerApproves, CaptureSettles, MoneyReturned, Instant, Untaken, Paid,
         Sound, Typed, TypeOK
<1> QED BY <1>1, <1>2 DEF Watched, Untaken, Active, Sound, Typed

\* PayPal's state stays, requests only give up, and rows only close, as failed
\* only when PayPal has not captured the order and nobody is about to.
LEMMA WatchedKept ==
  ASSUME Sound, Watched, UNCHANGED <<paypal, recon>>,
         \A r \in Req : req'[r].pc # "idle" => req'[r].order = req[r].order /\ req[r].pc # "idle",
         \A r \in Req : req'[r].pc = "claimed" => req[r].pc = "claimed",
         \A o \in Order : \/ status'[o] = status[o]
                          \/ status'[o] \in {"captured", "refunded"}
                          \/ /\ status'[o] = "failed"
                             /\ paypal[o] # "completed" /\ \A r \in Req : ~Active(r, o)'
                          \/ /\ status'[o] = "pending" /\ Untaken(o)
                             /\ \E r \in Req : Active(r, o)
  PROVE  Watched'
<1>1. \A r \in Req, o \in Order : Active(r, o)' => Active(r, o)
  BY DEF Active
<1>2. \A o \in Order : o \in recon'.stuck \/ o = recon'.order =>
       status'[o] \notin {"none", "pending"} /\ \A r \in Req : ~Active(r, o)'
  BY <1>1 DEF Watched
<1>3. \A o \in Order : o = recon'.order /\ recon'.decision = "fail" => paypal'[o] # "completed"
  BY DEF Watched
<1>4. \A o \in Order : status'[o] = "pending" => Untaken(o)'
  BY DEF Watched, Untaken
<1>5. \A r \in Req : req'[r].pc = "claimed" => paypal'[req'[r].order] \in {"created", "approved"}
  BY DEF Watched, Untaken
<1>6. \A o \in Order : status'[o] = "failed" =>
        paypal'[o] # "completed" /\ \A r \in Req : ~Active(r, o)'
  BY <1>1 DEF Watched
<1> QED BY <1>2, <1>3, <1>4, <1>5, <1>6 DEF Watched, Untaken

LEMMA WatchedCapture ==
  ASSUME Sound, Declined, Instant, Watched, NEW r \in Req, Capture(r)
  PROVE  Watched'
<1> USE DEF Sound
<1>1. ASSUME NEW o \in Order, ClaimForCapture(r, o)
      PROVE  Watched'
  <2>1. /\ UNCHANGED <<paypal, recon>>
        /\ status[o] = "pending" /\ status'[o] = "capturing"
        /\ \A p \in Order \ {o} : status'[p] = status[p]
    BY <1>1 DEF ClaimForCapture, remote, Typed, TypeOK
  <2>2. req'[r].order = o /\ \A q \in Req \ {r} : req'[q] = req[q]
    BY <1>1 DEF ClaimForCapture, Typed, TypeOK
  <2>3. \A q \in Req, p \in Order \ {o} : Active(q, p)' => Active(q, p)
    BY <2>2 DEF Active
  <2> QED BY <2>1, <2>2, <2>3 DEF Watched, Untaken
<1>2. ASSUME NEW outcome \in Outcome, PaypalCaptures(r, outcome)
      PROVE  Watched'
  <2>1. PICK o \in Order : o = req[r].order /\ Active(r, o)
    BY <1>2 DEF PaypalCaptures, Active, Typed
  <2>2. UNCHANGED <<status, recon>> /\ \A p \in Order \ {o} : paypal'[p] = paypal[p]
    BY <1>2, <2>1 DEF PaypalCaptures, rows, Typed, TypeOK
  <2>3. /\ req'[r].pc = "answered" /\ req'[r].order = o
        /\ \A q \in Req \ {r} : req'[q] = req[q]
    BY <1>2, <2>1 DEF PaypalCaptures, Typed, TypeOK, ReqState
  <2>4. \A q \in Req \ {r} : req[q].pc # "idle" => req[q].order # o
    BY <2>1 DEF Exclusive, OneCaptureCall, Active
  <2>5. status[o] \notin {"none", "pending", "failed"} /\ o \notin recon.stuck /\ o # recon.order
    BY <2>1 DEF Watched, Exclusive
  <2>6. \A q \in Req, p \in Order : Active(q, p)' => Active(q, p)
    BY <2>1, <2>3 DEF Active
  <2> QED BY <2>2, <2>3, <2>4, <2>5, <2>6 DEF Watched, Untaken, Typed
<1>3. CASE CallPaypal(r) \/ RequestLost(r)
  <2>1. UNCHANGED <<status, paypal, recon>>
    BY <1>3 DEF CallPaypal, RequestLost, rows, remote
  <2>2. \/ req' = [req EXCEPT ![r].pc = "calling"] /\ req[r].pc = "claimed"
        \/ req' = [req EXCEPT ![r] = Idle]
    BY <1>3 DEF CallPaypal, RequestLost
  <2>3. \A q \in Req : /\ req'[q].pc # "idle" => req'[q].order = req[q].order /\ req[q].pc # "idle"
                       /\ req'[q].pc = "claimed" => req[q].pc = "claimed"
    BY <2>2 DEF Idle, Typed, TypeOK, ReqState
  <2> QED BY <2>1, <2>3, WatchedKept
<1>4. ASSUME NEW o \in Order, o = req[r].order,
             req' = [req EXCEPT ![r] = Idle], req[r].pc # "idle", UNCHANGED <<paypal, recon>>,
             \A p \in Order \ {o} : status'[p] = status[p],
             \/ status'[o] \in {status[o], "captured"}
             \/ status'[o] = "failed" /\ paypal[o] # "completed"
             \/ status'[o] = "pending" /\ Untaken(o)
      PROVE  Watched'
  <2>1. Active(r, o)
    BY <1>4 DEF Active
  <2>2. \A q \in Req : ~Active(q, o)'
    <3>1. \A q \in Req \ {r} : ~Active(q, o)
      BY <2>1 DEF Exclusive, OneCaptureCall
    <3>2. \A q \in Req : q # r => req'[q] = req[q]
      BY <1>4 DEF Typed, TypeOK
    <3>3. req'[r].pc = "idle"
      BY <1>4 DEF Idle, Typed, TypeOK
    <3> QED BY <3>1, <3>2, <3>3 DEF Active
  <2>3. \A q \in Req : /\ req'[q].pc # "idle" => req'[q].order = req[q].order /\ req[q].pc # "idle"
                       /\ req'[q].pc = "claimed" => req[q].pc = "claimed"
    BY <1>4 DEF Idle, Typed, TypeOK
  <2> QED BY <1>4, <2>1, <2>2, <2>3, WatchedKept
<1>5. CASE RefuseClosedAddon(r) \/ CaptureNotCompleted(r) \/ CaptureCompleted(r)
  <2>1. req' = [req EXCEPT ![r] = Idle] /\ req[r].pc # "idle" /\ UNCHANGED <<paypal, recon>>
    BY <1>5 DEF RefuseClosedAddon, CaptureNotCompleted, CaptureCompleted, remote
  <2>2. PICK o \in Order : o = req[r].order
    BY <2>1 DEF Typed
  <2>3. ClosesOnly(o) /\ (status'[o] = "captured"
          \/ (status'[o] = "failed" /\ paypal[o] # "completed"))
    BY <1>5, <2>2, MarkFailedCloses, FinalizeCloses
       DEF RefuseClosedAddon, CaptureNotCompleted, CaptureCompleted, Watched, Untaken, Instant
  <2> QED BY <1>4, <2>1, <2>2, <2>3 DEF ClosesOnly
<1>6. CASE ReleaseCaptureClaim(r)
  <2>1. req' = [req EXCEPT ![r] = Idle] /\ req[r].pc # "idle" /\ UNCHANGED <<paypal, recon>>
    BY <1>6 DEF ReleaseCaptureClaim, remote
  <2>2. \A p \in Order : status'[p] = status[p] \/ (p = req[r].order /\ status'[p] = "pending")
    BY <1>6 DEF ReleaseCaptureClaim, Typed, TypeOK
  <2>3. Untaken(req[r].order) /\ req[r].order \in Order
    BY <1>6 DEF ReleaseCaptureClaim, Declined, Untaken, Typed
  <2> QED BY <1>4, <2>1, <2>2, <2>3
<1> QED BY <1>1, <1>2, <1>3, <1>5, <1>6 DEF Capture

LEMMA WatchedWebhook ==
  ASSUME Sound, Instant, Watched, NEW o \in Order, Webhook(o)
  PROVE  Watched'
<1> USE DEF Sound
<1>1. UNCHANGED <<paypal, req, recon>>
  BY DEF Webhook, WebhookCompleted, HandleReversal, remote
<1>2. UNCHANGED status \/ (ClosesOnly(o) /\ status'[o] \in {"captured", "refunded"})
  <2>1. CASE WebhookCompleted(o)
    BY <2>1, FinalizeCloses DEF WebhookCompleted
  <2>2. ASSUME NEW type \in ReversalType, HandleReversal(o, type), ~UNCHANGED status
        PROVE  FullReversal(o, type) /\ type # "denied"
    BY <2>2 DEF HandleReversal, Instant, rows, Notice
  <2> QED BY <2>1, <2>2, ReversalCloses DEF Webhook
<1> QED BY <1>1, <1>2, WatchedKept DEF ClosesOnly, Active

LEMMA WatchedReconcile ==
  ASSUME Sound, Watched, Reconcile
  PROVE  Watched'
<1> USE DEF Sound
<1>1. UNCHANGED <<paypal, req>>
  BY DEF Reconcile, ReconcileStart, ReconcileApply, ReconcileCrash, ReconcileAsk,
         ReconcileError, remote
<1>2. CASE ReconcileStart
  <2>1. UNCHANGED status /\ recon'.order = Null /\ \A o \in recon'.stuck : Stuck(o)
    BY <1>2 DEF ReconcileStart, OldestStuck, Resting, rows
  <2>2. \A o \in Order : Stuck(o) => status[o] = "capturing" /\ \A r \in Req : ~Active(r, o)
    BY DEF Stuck, Exclusive, Typed, TypeOK
  <2> QED BY <1>1, <2>1, <2>2 DEF Watched, Untaken, Active
<1>3. CASE ReconcileCrash \/ \E o \in Order : ReconcileError(o) \/ ReconcileAsk(o)
  <2>1. UNCHANGED status
    BY <1>3 DEF ReconcileCrash, ReconcileError, ReconcileAsk, rows
  <2>2. /\ recon'.stuck \subseteq recon.stuck
        /\ \A o \in Order : o = recon'.order =>
             o \in recon.stuck /\ (recon'.decision = "fail" => paypal[o] # "completed")
    BY <1>3 DEF ReconcileCrash, ReconcileError, ReconcileAsk, DecideStuckCapture, Resting, Typed, TypeOK
  <2> QED BY <1>1, <2>1, <2>2 DEF Watched, Untaken, Active
<1>4. CASE ReconcileApply
  <2>1. PICK o \in Order : o = recon.order
    BY <1>4 DEF ReconcileApply, Typed, TypeOK
  <2>2. recon'.stuck = recon.stuck /\ recon'.order = Null
    BY <1>4 DEF ReconcileApply, Typed, TypeOK
  <2>3. \/ UNCHANGED status
        \/ ClosesOnly(o) /\ (status'[o] = "captured" \/ (status'[o] = "failed" /\ paypal[o] # "completed"))
    BY <1>4, <2>1, FinalizeCloses, MarkFailedCloses DEF ReconcileApply, FailIfCapturing, Watched, rows
  <2>4. \A r \in Req : ~Active(r, o)
    BY <2>1 DEF Watched
  <2> QED BY <1>1, <2>1, <2>2, <2>3, <2>4 DEF Watched, Untaken, Active, ClosesOnly
<1> QED BY <1>2, <1>3, <1>4 DEF Reconcile

LEMMA WatchedStep == Sound /\ Declined /\ Instant /\ Watched /\ [Next]_vars => Watched'
<1> SUFFICES ASSUME Sound, Declined, Instant, Watched, [Next]_vars PROVE Watched'
  OBVIOUS
<1>1. ASSUME NEW o \in Order, Initiate(o) PROVE Watched'
  <2>1. /\ UNCHANGED <<req, recon>> /\ status[o] = "none" /\ paypal'[o] = "created"
        /\ status'[o] = "pending"
        /\ \A p \in Order \ {o} : status'[p] = status[p] /\ paypal'[p] = paypal[p]
    BY <1>1 DEF Initiate, Sound, Typed, TypeOK
  <2>2. \A r \in Req : ~Active(r, o)
    BY <2>1 DEF Sound, Exclusive
  <2> QED BY <2>1, <2>2 DEF Watched, Untaken, Active, Sound, Typed
<1>2. CASE FreePeriodEnds \/ Tick \/ UNCHANGED vars
  BY <1>2 DEF FreePeriodEnds, Tick, Watched, Untaken, Active, rows, remote, vars
<1> QED
  BY <1>1, <1>2, WatchedCapture, WatchedWebhook, WatchedReconcile, WatchedEnvironment DEF Next

\* With captures answered at once, no row is failed while PayPal holds the buyer's
\* money: the addon refusal, the declined answer and the cron never close one.
THEOREM FailedUnpaid ==
  ASSUME ~PendingAnswers
  PROVE  Spec => []FailedMeansUnpaid
<1>1. Init => Declined /\ Instant /\ Watched
  BY DEF Init, Declined, Instant, Watched, Idle, Resting
<1>2. Watched => FailedMeansUnpaid
  BY DEF Watched, FailedMeansUnpaid
<1> QED BY <1>1, <1>2, SoundAlways, DeclinedStep, InstantStep, WatchedStep, PTL DEF Spec

-----------------------------------------------------------------------------
(* The buyer's money stays where the cron finds it.                           *)

\* A row is refunded, and PayPal says so, only when PayPal has given all of it back; and no row
\* was claimed later than now.
Returned ==
  /\ \A o \in Order :
       \/ status[o] = "refunded"
       \/ Notice("refunded", o) \in sent \/ Notice("reversed", o) \in sent
       => paypal[o] = "refunded"
  /\ \A o \in Order : claimedAt[o] <= now

LEMMA NoticesDiffer ==
  \A a, b, o, p : Notice(a, o) = Notice(b, p) => a = b /\ o = p
  BY DEF Notice

LEMMA ReturnedStep == Sound /\ Instant /\ Returned /\ [Next]_vars => Returned'
<1> SUFFICES ASSUME Sound, Instant, Returned, [Next]_vars PROVE Returned'
  OBVIOUS
<1> USE DEF Sound
<1>0. /\ status \in [Order -> Status] /\ claimedAt \in [Order -> Nat] /\ paypal \in [Order -> PaypalState]
      /\ now \in Nat
  BY DEF Typed, TypeOK
\* Rows are claimed now or not at all, and refunded where PayPal gave the money back.
<1>1. ASSUME UNCHANGED <<paypal, sent, now>>,
             \A o \in Order : status'[o] = "refunded" => status[o] = "refunded" \/ paypal[o] = "refunded",
             \A o \in Order : claimedAt'[o] \in {0, now, claimedAt[o]}
      PROVE  Returned'
  BY <1>0, <1>1 DEF Returned, Notice
<1>2. ASSUME NEW o \in Order, FinalizeCapture(o), UNCHANGED <<paypal, sent, now>> PROVE Returned'
  BY <1>0, <1>1, <1>2 DEF FinalizeCapture, rows
<1>3. ASSUME NEW o \in Order, NEW knows, MarkFailed(o, knows), UNCHANGED <<paypal, sent, now>> PROVE Returned'
  BY <1>0, <1>1, <1>3 DEF MarkFailed
<1>4. ASSUME UNCHANGED <<status, claimedAt, paypal, sent, now>> PROVE Returned'
  BY <1>1, <1>4
<1>5. ASSUME NEW o \in Order, Initiate(o) PROVE Returned'
  <2>1. paypal[o] = "none"
    BY <1>5 DEF Initiate, Settled
  <2>2. /\ \A p \in Order \ {o} : paypal'[p] = paypal[p] /\ status'[p] = status[p]
        /\ status'[o] = "pending" /\ UNCHANGED <<claimedAt, sent, now>>
    BY <1>0, <1>5 DEF Initiate
  <2> QED BY <2>1, <2>2 DEF Returned, Notice
<1>6. ASSUME NEW o \in Order, WebhookCompleted(o) PROVE Returned'
  BY <1>2, <1>6 DEF WebhookCompleted, remote
<1>7. ASSUME NEW o \in Order, NEW type \in ReversalType, HandleReversal(o, type) PROVE Returned'
  <2>1. Notice(type, o) \in sent /\ UNCHANGED <<paypal, sent, now>>
    BY <1>7 DEF HandleReversal, remote
  <2>2. type \in {"refunded", "reversed"} => paypal[o] = "refunded"
    BY <2>1 DEF Returned
  <2>3. type # "denied"
    BY <2>1 DEF Instant
  <2>4. CASE UNCHANGED <<status, claimedAt>>
    BY <1>4, <2>1, <2>4
  <2>5. CASE type # "partial" /\ FullReversal(o, type)
    BY <1>0, <1>1, <2>1, <2>2, <2>3, <2>5 DEF FullReversal, ReversalType
  <2> QED BY <1>7, <2>4, <2>5 DEF HandleReversal, rows
<1>8. ASSUME NEW o \in Order, Environment(o) PROVE Returned'
  <2>1. UNCHANGED <<status, claimedAt, now>>
    BY <1>8 DEF Environment, BuyerApproves, CaptureSettles, MoneyReturned, rows
  <2>2. CASE BuyerApproves(o)
    BY <1>0, <2>1, <2>2 DEF BuyerApproves, Returned, Notice
  <2>3. CASE CaptureSettles(o)
    BY <2>3 DEF CaptureSettles, Instant
  <2>4. CASE MoneyReturned(o)
    <3>1. PICK type \in {"refunded", "reversed", "partial"} :
            /\ sent' = sent \cup {Notice(type, o)}
            /\ \/ type # "partial" /\ paypal' = [paypal EXCEPT ![o] = "refunded"]
               \/ /\ type = "partial" /\ paypal[o] = "completed"
                  /\ paypal' = [paypal EXCEPT ![o] = "partly_refunded"]
      BY <2>4 DEF MoneyReturned
    <3>2. \A p \in Order \ {o} : /\ paypal'[p] = paypal[p]
                                 /\ \A t : Notice(t, p) \in sent' => Notice(t, p) \in sent
      BY <1>0, <3>1, NoticesDiffer
    <3>3. CASE type = "partial"
      <4>1. \A t \in {"refunded", "reversed"} : Notice(t, o) \in sent' => Notice(t, o) \in sent
        BY <3>1, <3>3, NoticesDiffer
      <4> QED BY <2>1, <3>1, <3>2, <3>3, <4>1 DEF Returned
    <3>4. CASE type # "partial"
      <4>1. paypal'[o] = "refunded"
        BY <1>0, <3>1, <3>4
      <4> QED BY <2>1, <3>2, <4>1 DEF Returned
    <3> QED BY <3>3, <3>4
  <2> QED BY <1>8, <2>2, <2>3, <2>4 DEF Environment
<1>9. ASSUME NEW r \in Req, Capture(r) PROVE Returned'
  <2>1. ASSUME NEW o \in Order, ClaimForCapture(r, o) PROVE Returned'
    BY <1>0, <1>1, <2>1 DEF ClaimForCapture, remote
  <2>2. CASE RefuseClosedAddon(r)
    <3>1. req[r].order \in Order
      BY <2>2 DEF RefuseClosedAddon, Typed, TypeOK, ReqState
    <3> QED BY <1>3, <2>2, <3>1 DEF RefuseClosedAddon, remote
  <2>3. CASE CallPaypal(r) \/ RequestLost(r)
    BY <1>4, <2>3 DEF CallPaypal, RequestLost, rows, remote
  <2>4. ASSUME NEW outcome \in Outcome, PaypalCaptures(r, outcome) PROVE Returned'
    <3>1. \A p \in Order : paypal[p] = "refunded" => paypal'[p] = "refunded"
      BY <1>0, <2>4 DEF PaypalCaptures
    <3>2. sent' = sent \/ sent' = sent \cup {Notice("completed", req[r].order)}
      BY <2>4 DEF PaypalCaptures
    <3>3. \A p \in Order, t \in {"refunded", "reversed"} : Notice(t, p) \in sent' => Notice(t, p) \in sent
      BY <3>2, NoticesDiffer
    <3>4. UNCHANGED <<status, claimedAt, now>>
      BY <2>4 DEF PaypalCaptures, rows
    <3> QED BY <3>1, <3>3, <3>4 DEF Returned
  <2>5. CASE ReleaseCaptureClaim(r)
    BY <1>0, <1>1, <2>5 DEF ReleaseCaptureClaim, remote
  <2>6. CASE CaptureNotCompleted(r) \/ CaptureCompleted(r)
    <3>1. req[r].order \in Order
      BY <2>6 DEF CaptureNotCompleted, CaptureCompleted, Typed, TypeOK, ReqState
    <3> QED BY <1>2, <1>3, <2>6, <3>1 DEF CaptureNotCompleted, CaptureCompleted, remote
  <2> QED BY <1>9, <2>1, <2>2, <2>3, <2>4, <2>5, <2>6 DEF Capture
<1>10. CASE Reconcile
  <2>1. CASE ReconcileApply
    <3>1. recon.order \in Order
      BY <2>1 DEF ReconcileApply, Typed, TypeOK
    <3>2. \/ FinalizeCapture(recon.order) \/ MarkFailed(recon.order, FALSE) \/ UNCHANGED rows
      BY <2>1 DEF ReconcileApply, FailIfCapturing
    <3>3. UNCHANGED <<paypal, sent, now>>
      BY <2>1 DEF ReconcileApply, remote
    <3> QED BY <1>2, <1>3, <1>4, <3>1, <3>2, <3>3 DEF rows
  <2>2. CASE \/ ReconcileStart \/ ReconcileCrash \/ \E o \in Order : ReconcileAsk(o) \/ ReconcileError(o)
    BY <1>4, <2>2 DEF ReconcileStart, ReconcileCrash, ReconcileAsk, ReconcileError, rows, remote
  <2> QED BY <1>10, <2>1, <2>2 DEF Reconcile
<1>11. CASE FreePeriodEnds \/ UNCHANGED vars
  BY <1>4, <1>11 DEF FreePeriodEnds, vars, rows, remote
<1>12. CASE Tick
  <2>1. UNCHANGED <<status, claimedAt, paypal, sent>> /\ now' = now + 1
    BY <1>12 DEF Tick, rows, remote
  <2> QED BY <1>0, <2>1 DEF Returned, Notice
<1> QED BY <1>5, <1>6, <1>7, <1>8, <1>9, <1>10, <1>11, <1>12 DEF Next, Webhook

\* With captures answered at once, what PayPal holds of the buyer's is on a captured row or on
\* one that counts as stuck from the next tick on, within the cron's reach: no webhook, refusal,
\* rollback or reversal takes it out (the safety half of PaidIsGranted; reconcileStuckCaptures).
THEOREM MoneyStaysInReach ==
  ASSUME ~PendingAnswers
  PROVE  Spec => [](\A o \in Order : paypal[o] = "completed" =>
                      \/ status[o] = "captured"
                      \/ status[o] = "capturing" /\ claimedAt[o] <= now)
<1>1. Init => Declined /\ Instant /\ Watched /\ Returned
  BY TimeAssumption DEF Init, Declined, Instant, Watched, Returned, Idle, Resting
<1>2. Sound /\ Watched /\ Returned =>
        \A o \in Order : paypal[o] = "completed" =>
          \/ status[o] = "captured"
          \/ status[o] = "capturing" /\ claimedAt[o] <= now
  BY DEF Watched, Untaken, Returned, Sound, Settled, Typed, TypeOK, Status
<1> QED BY <1>1, <1>2, SoundAlways, DeclinedStep, InstantStep, WatchedStep, ReturnedStep, PTL DEF Spec

=============================================================================
