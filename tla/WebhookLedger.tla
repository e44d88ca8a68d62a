--------------------------- MODULE WebhookLedger ---------------------------
(***************************************************************************)
(* The idempotency ledger of PayPal webhooks (paypal_webhook_events) and    *)
(* PaypalWebhookService.handle: claim the event's row, dispatch, mark the   *)
(* row processed; delete the row when dispatch throws.  Workers are request *)
(* handlers of any server process.                                          *)
(*                                                                         *)
(* The five minutes after which an unfinished claim may be taken over are   *)
(* one step, FiveMinutes, that makes every row `old`.                       *)
(***************************************************************************)
EXTENDS Integers, FiniteSets

CONSTANTS
  Event,        \* webhook events PayPal has issued
  Worker,       \* requests of POST /payments/webhook
  MaxFaults,    \* bound: crashes, failed dispatches and failed ledger writes
  NoEvent       \* an idle worker's event

ASSUME EventAssumption  == NoEvent \notin Event
ASSUME FaultAssumption  == MaxFaults \in Nat

VARIABLES
  row,       \* row[e]: the ledger row, absent, claimed or processed
  old,       \* rows received more than five minutes ago
  worker,    \* worker[w]: its step in `handle` and its event
  recent,    \* events PayPal has delivered within the last five minutes
  hasty,     \* events PayPal has delivered twice within five minutes
  acked,     \* events PayPal has had a 2xx for
  effects,   \* effects[e]: how often a dispatch of e has committed
  faults     \* faults so far

vars == <<row, old, worker, recent, hasty, acked, effects, faults>>

Row      == {"absent", "claimed", "processed"}
Step     == {"idle", "dispatching", "committed", "throwing"}
Resting  == [step |-> "idle", event |-> NoEvent]

Working(w, e) == worker[w].step # "idle" /\ worker[w].event = e

Init ==
  /\ row = [e \in Event |-> "absent"]
  /\ old = {}
  /\ worker = [w \in Worker |-> Resting]
  /\ recent = {}
  /\ hasty = {}
  /\ acked = {}
  /\ effects = [e \in Event |-> 0]
  /\ faults = 0

Fault == faults < MaxFaults /\ faults' = faults + 1

\* Mutants: the takeover does not wait; there is none.
ClaimableAtOnce(e) == row[e] \in {"absent", "claimed"}
InsertOnly(e)      == row[e] = "absent"

\* claim: insert the row, or take over an old one that was never processed.
Claimable(e) == row[e] = "absent" \/ (row[e] = "claimed" /\ e \in old)

\* PayPal delivers e, and delivers it again, on its own schedule.
Delivered(e) ==
  /\ recent' = recent \cup {e}
  /\ hasty' = hasty \cup ({e} \cap recent)

Claim(w, e) ==
  /\ worker[w].step = "idle" /\ Delivered(e)
  /\ Claimable(e)
  /\ row' = [row EXCEPT ![e] = "claimed"]
  /\ old' = old \ {e}
  /\ worker' = [worker EXCEPT ![w] = [step |-> "dispatching", event |-> e]]
  /\ UNCHANGED <<acked, effects, faults>>

\* No row back: "Duplicate webhook - already processed", and 200.
Duplicate(w, e) ==
  /\ worker[w].step = "idle" /\ Delivered(e)
  /\ ~Claimable(e)
  /\ acked' = acked \cup {e}
  /\ UNCHANGED <<row, old, worker, effects, faults>>

DispatchCommits(w) ==
  /\ worker[w].step = "dispatching"
  /\ worker' = [worker EXCEPT ![w].step = "committed"]
  /\ effects' = [effects EXCEPT ![worker[w].event] = @ + 1]
  /\ UNCHANGED <<row, old, recent, hasty, acked, faults>>

\* dispatch throws: before its transaction, or in the PayPal call after it.
DispatchThrows(w) ==
  /\ worker[w].step \in {"dispatching", "committed"} /\ Fault
  /\ worker' = [worker EXCEPT ![w].step = "throwing"]
  /\ UNCHANGED <<row, old, recent, hasty, acked, effects>>

Release(e) ==
  /\ row' = [row EXCEPT ![e] = "absent"]
  /\ old' = old \ {e}

\* The claim is deleted and 500 answered; the deletion may fail too, and is logged.
ReleaseClaim(w) ==
  /\ worker[w].step = "throwing"
  /\ \/ Release(worker[w].event) /\ UNCHANGED faults
     \/ Fault /\ UNCHANGED <<row, old>>
  /\ worker' = [worker EXCEPT ![w] = Resting]
  /\ UNCHANGED <<recent, hasty, acked, effects>>

\* Mutant: the row is marked processed while the dispatch is still running.
MarkEarly(w) ==
  /\ worker[w].step \in {"dispatching", "committed"}
  /\ row' = [row EXCEPT ![worker[w].event] = "processed"]
  /\ acked' = acked \cup {worker[w].event}
  /\ worker' = [worker EXCEPT ![w] = Resting]
  /\ UNCHANGED <<old, recent, hasty, effects, faults>>

\* markProcessed, and 200.
MarkProcessed(w) ==
  /\ worker[w].step = "committed"
  /\ row' = [row EXCEPT ![worker[w].event] = "processed"]
  /\ acked' = acked \cup {worker[w].event}
  /\ worker' = [worker EXCEPT ![w] = Resting]
  /\ UNCHANGED <<old, recent, hasty, effects, faults>>

\* The process dies, or markProcessed fails: the row stays claimed.
Interrupted(w) ==
  /\ worker[w].step # "idle" /\ Fault
  /\ worker' = [worker EXCEPT ![w] = Resting]
  /\ UNCHANGED <<row, old, recent, hasty, acked, effects>>

\* "Five minutes is far longer than any dispatch takes": no request spans them.
FiveMinutes ==
  /\ \A w \in Worker : worker[w].step = "idle"
  /\ old' = {e \in Event : row[e] # "absent"}
  /\ recent' = {}
  /\ UNCHANGED <<row, worker, hasty, acked, effects, faults>>

Handle(w) ==
  DispatchCommits(w) \/ DispatchThrows(w) \/ ReleaseClaim(w) \/ MarkProcessed(w) \/ Interrupted(w)

Next ==
  \/ \E w \in Worker : Handle(w) \/ \E e \in Event : Claim(w, e) \/ Duplicate(w, e)
  \/ FiveMinutes

Spec == Init /\ [][Next]_vars

\* PayPal delivers e again, more than five minutes after the last time.
Redelivered(e) ==
  /\ e \notin recent \cup acked
  /\ \E w \in Worker : Claim(w, e) \/ Duplicate(w, e)

\* PayPal retries what it has no 2xx for, requests run to their end, time passes.
FairSpec ==
  /\ Spec
  /\ WF_vars(FiveMinutes)
  /\ \A w \in Worker : WF_vars(DispatchCommits(w) \/ ReleaseClaim(w) \/ MarkProcessed(w))
  /\ \A e \in Event : SF_vars(Redelivered(e))

-----------------------------------------------------------------------------

\* Ledger rows, workers and counters have their types.
TypeOK ==
  /\ row \in [Event -> Row]
  /\ old \subseteq Event
  /\ worker \in [Worker -> [step : Step, event : Event \cup {NoEvent}]]
  /\ recent \subseteq Event
  /\ hasty \subseteq Event
  /\ acked \subseteq Event
  /\ effects \in [Event -> Nat]
  /\ faults \in Nat

\* The abstract view: a worker holds the event it is handling, and a processed row
\* is an event handled for good.
held    == [w \in Worker |-> {e \in Event : Working(w, e)}]
handled == {e \in Event : row[e] = "processed"}

Ledger == INSTANCE EventHandling WITH held <- held, handled <- handled

\* "Idempotency is enforced by the database": under concurrent and repeated
\* deliveries, crashes and takeovers, an event is in one worker's hands at a time
\* and is never taken again once processed.
OneHandling == Ledger!Spec

\* A processed event has taken effect: no delivery marks a row whose dispatch was
\* lost.
ProcessedTookEffect ==
  \A e \in Event : row[e] = "processed" => effects[e] > 0

\* "2xx = we have taken responsibility for this event" (PaymentController.webhook):
\* an acknowledged event has taken effect or some request is still at it, unless
\* PayPal delivered it twice within five minutes.
AckedIsHandled ==
  \A e \in acked \ hasty : effects[e] > 0 \/ \E w \in Worker : Working(w, e)

\* A crash, a failed dispatch or a failed deletion only delays an event: PayPal's
\* retries, spaced more than five minutes apart, get it applied.
EventuallyApplied ==
  \A e \in Event : <>(effects[e] > 0 \/ e \in hasty)

=============================================================================
