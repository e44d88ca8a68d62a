------------------------ MODULE WebhookLedgerProofs ------------------------
(***************************************************************************)
(* The ledger implements EventHandling, and marks processed, or answers with *)
(* a 2xx, only what took effect, for any number of events, requests and      *)
(* faults.                                                                   *)
(***************************************************************************)
EXTENDS WebhookLedger, TLAPS

\* A request at work has the only open claim on its event, claimed in the last
\* five minutes.
Claimed ==
  /\ TypeOK
  /\ \A w \in Worker : worker[w].step # "idle" => worker[w].event \in Event
  /\ \A w \in Worker, e \in Event : Working(w, e) => row[e] = "claimed" /\ e \notin old
  /\ \A w1, w2 \in Worker, e \in Event : Working(w1, e) /\ Working(w2, e) => w1 = w2

\* A dispatch that committed, or whose row is processed, has taken effect.
Effective ==
  /\ \A w \in Worker : worker[w].step = "committed" => effects[worker[w].event] > 0
  /\ \A e \in Event : row[e] = "processed" => effects[e] > 0

USE EventAssumption, FaultAssumption

LEMMA ClaimedInit == Init => Claimed /\ Effective
  BY DEF Init, Claimed, Effective, TypeOK, Row, Step, Resting, Working

LEMMA ClaimedClaim ==
  ASSUME Claimed, NEW w \in Worker, NEW e \in Event, Claim(w, e)
  PROVE  Claimed'
<1>1. TypeOK'
  BY DEF Claim, Delivered, Claimed, TypeOK, Row, Step
<1>2. \A v \in Worker, d \in Event : Working(v, d)' =>
        (v = w /\ d = e) \/ (v # w /\ Working(v, d))
  BY DEF Claim, Claimed, TypeOK, Working
<1>3. \A v \in Worker : ~Working(v, e)
  BY DEF Claim, Claimable, Claimed
<1>4. \A v \in Worker : worker'[v].step # "idle" => worker'[v].event \in Event
  BY DEF Claim, Claimed, TypeOK
<1>5. \A v \in Worker, d \in Event : Working(v, d)' => row'[d] = "claimed" /\ d \notin old'
  BY <1>2 DEF Claim, Claimed, TypeOK
<1>6. \A v1, v2 \in Worker, d \in Event : Working(v1, d)' /\ Working(v2, d)' => v1 = v2
  BY <1>2, <1>3 DEF Claimed
<1> QED BY <1>1, <1>4, <1>5, <1>6 DEF Claimed

\* A request that stays at its event, or rests, and leaves other events' rows alone.
LEMMA ClaimedHandle ==
  ASSUME Claimed, NEW w \in Worker, Handle(w)
  PROVE  Claimed'
<1> USE DEF DispatchCommits, DispatchThrows, ReleaseClaim, MarkProcessed, Interrupted,
            Release, Fault
<1>1. PICK e \in Event : e = worker[w].event /\ Working(w, e)
  BY DEF Handle, Claimed, Working
<1>2. TypeOK'
  BY <1>1 DEF Handle, Claimed, TypeOK, Row, Step, Resting
<1>3. \/ worker' = [worker EXCEPT ![w] = Resting]
      \/ /\ \E s \in Step \ {"idle"} : worker' = [worker EXCEPT ![w].step = s]
         /\ UNCHANGED <<row, old>>
  BY DEF Handle, Step
<1>4. \A v \in Worker, d \in Event : Working(v, d)' =>
        Working(v, d) /\ (v # w \/ UNCHANGED <<row, old>>)
  BY <1>1, <1>3 DEF Working, Resting, Claimed, TypeOK
<1>5. \A d \in Event \ {e} : row'[d] = row[d] /\ (d \in old' => d \in old)
  BY <1>1 DEF Handle, Claimed, TypeOK
<1>6. \A v \in Worker : worker'[v].step # "idle" => worker'[v].event \in Event
  BY <1>1, <1>3 DEF Resting, Claimed, TypeOK
<1>7. \A v \in Worker, d \in Event : Working(v, d)' => row'[d] = "claimed" /\ d \notin old'
  BY <1>1, <1>4, <1>5 DEF Claimed
<1> QED BY <1>2, <1>4, <1>6, <1>7 DEF Claimed

LEMMA ClaimedStep == Claimed /\ [Next]_vars => Claimed'
<1> SUFFICES ASSUME Claimed, [Next]_vars PROVE Claimed'
  OBVIOUS
<1>1. ASSUME NEW w \in Worker, NEW e \in Event, Duplicate(w, e) PROVE Claimed'
  BY <1>1 DEF Duplicate, Delivered, Claimed, TypeOK, Working
<1>2. CASE FiveMinutes
  BY <1>2 DEF FiveMinutes, Claimed, TypeOK, Working
<1>3. CASE UNCHANGED vars
  BY <1>3 DEF vars, Claimed, TypeOK, Working
<1> QED BY <1>1, <1>2, <1>3, ClaimedClaim, ClaimedHandle DEF Next

LEMMA EffectiveStep == Claimed /\ Effective /\ [Next]_vars => Effective'
<1> SUFFICES ASSUME Claimed, Effective, [Next]_vars PROVE Effective'
  OBVIOUS
<1>1. ASSUME NEW w \in Worker, NEW e \in Event, Claim(w, e) PROVE Effective'
  BY <1>1 DEF Claim, Effective, Claimed, TypeOK
<1>2. ASSUME NEW w \in Worker, NEW e \in Event, Duplicate(w, e) PROVE Effective'
  BY <1>2 DEF Duplicate, Effective
<1>3. ASSUME NEW w \in Worker, DispatchCommits(w) PROVE Effective'
  BY <1>3 DEF DispatchCommits, Effective, Claimed, TypeOK
<1>4. ASSUME NEW w \in Worker, MarkProcessed(w) PROVE Effective'
  BY <1>4 DEF MarkProcessed, Resting, Effective, Claimed, TypeOK
<1>5. ASSUME NEW w \in Worker, DispatchThrows(w) \/ ReleaseClaim(w) \/ Interrupted(w)
      PROVE  Effective'
  BY <1>5 DEF DispatchThrows, ReleaseClaim, Release, Interrupted, Resting, Effective,
              Claimed, TypeOK
<1>6. CASE FiveMinutes \/ UNCHANGED vars
  BY <1>6 DEF FiveMinutes, vars, Effective
<1> QED BY <1>1, <1>2, <1>3, <1>4, <1>5, <1>6 DEF Next, Handle

LEMMA LedgerInvariant == Spec => [](Claimed /\ Effective)
  BY ClaimedInit, ClaimedStep, EffectiveStep, PTL DEF Spec

\* No delivery ever marks processed an event whose dispatch did not commit.
THEOREM ProcessedIsEffective == Spec => []ProcessedTookEffect
<1>1. Effective => ProcessedTookEffect
  BY DEF Effective, ProcessedTookEffect
<1> QED BY <1>1, LedgerInvariant, PTL

\* Ledger rows, workers and counters keep their types (paypal_webhook_events).
THEOREM TypeCorrect == Spec => []TypeOK
  BY LedgerInvariant, PTL DEF Claimed

\* A claim that cannot be taken over yet was delivered in the last five minutes, and what
\* was acknowledged, other than to a hasty delivery, took effect.
Answered ==
  /\ \A e \in Event : row[e] = "claimed" /\ e \notin old => e \in recent
  /\ \A e \in acked \ hasty : effects[e] > 0

LEMMA AnsweredStep == Claimed /\ Effective /\ Answered /\ [Next]_vars => Answered'
<1> SUFFICES ASSUME Claimed, Effective, Answered, [Next]_vars PROVE Answered'
  OBVIOUS
<1> USE DEF Answered
<1>1. ASSUME NEW w \in Worker, NEW e \in Event, Claim(w, e) PROVE Answered'
  BY <1>1 DEF Claim, Delivered, Claimed, TypeOK
<1>2. ASSUME NEW w \in Worker, NEW e \in Event, Duplicate(w, e) PROVE Answered'
  <2>1. row[e] = "processed" \/ e \in recent
    BY <1>2 DEF Duplicate, Claimable, Claimed, TypeOK, Row
  <2>2. e \in hasty' \/ effects[e] > 0
    BY <1>2, <2>1 DEF Duplicate, Delivered, Effective
  <2> QED BY <1>2, <2>2 DEF Duplicate, Delivered
<1>3. ASSUME NEW w \in Worker, DispatchCommits(w) PROVE Answered'
  BY <1>3 DEF DispatchCommits, Claimed, TypeOK
<1>4. ASSUME NEW w \in Worker, MarkProcessed(w) PROVE Answered'
  BY <1>4 DEF MarkProcessed, Effective, Claimed, TypeOK
<1>5. ASSUME NEW w \in Worker, DispatchThrows(w) \/ ReleaseClaim(w) \/ Interrupted(w)
      PROVE  Answered'
  BY <1>5 DEF DispatchThrows, ReleaseClaim, Release, Interrupted, Claimed, TypeOK
<1>6. CASE FiveMinutes \/ UNCHANGED vars
  BY <1>6 DEF FiveMinutes, vars, Claimed, TypeOK
<1> QED BY <1>1, <1>2, <1>3, <1>4, <1>5, <1>6 DEF Next, Handle

\* A 2xx means the event took effect, or is in a request's hands, unless PayPal delivered
\* it twice within five minutes (PaymentController.webhook).
THEOREM AcknowledgedIsHandled == Spec => []AckedIsHandled
<1>1. Init => Answered
  BY DEF Init, Answered
<1>2. Answered => AckedIsHandled
  BY DEF Answered, AckedIsHandled
<1> QED BY <1>1, <1>2, AnsweredStep, LedgerInvariant, PTL DEF Spec

\* Each step of the ledger is a step of EventHandling, or changes nothing there.
LEMMA LedgerStep == Claimed /\ Claimed' /\ [Next]_vars => [Ledger!Next]_Ledger!vars
<1> SUFFICES ASSUME Claimed, Claimed', [Next]_vars PROVE [Ledger!Next]_Ledger!vars
  OBVIOUS
<1> USE DEF Ledger!Next, Ledger!vars
<1>1. ASSUME NEW w \in Worker, NEW e \in Event, Claim(w, e)
      PROVE  Ledger!Take(w, e)
  <2>1. held[w] = {} /\ \A v \in Worker : e \notin held[v]
    BY <1>1 DEF Claim, Claimable, held, Working, Claimed
  <2>2. e \notin handled /\ handled' = handled
    BY <1>1 DEF Claim, Claimable, handled, Claimed, TypeOK
  <2>3. held'[w] = {e} /\ \A v \in Worker \ {w} : held'[v] = held[v]
    BY <1>1 DEF Claim, held, Working, Claimed, TypeOK
  <2> QED BY <2>1, <2>2, <2>3 DEF Ledger!Take, Ledger!Free, held
<1>2. ASSUME NEW w \in Worker, NEW s \in Step \ {"idle"}, worker[w].step # "idle",
             worker' = [worker EXCEPT ![w].step = s], UNCHANGED row
      PROVE  UNCHANGED <<held, handled>>
  BY <1>2 DEF held, handled, Working, Claimed, TypeOK
<1>3. ASSUME NEW w \in Worker, worker[w].step # "idle", worker' = [worker EXCEPT ![w] = Resting]
      PROVE  /\ held[w] = {worker[w].event} /\ held' = [held EXCEPT ![w] = {}]
             /\ worker[w].event \in Event
  <2>1. worker[w].event \in Event
    BY <1>3 DEF Claimed
  <2>2. held[w] = {worker[w].event}
    BY <1>3, <2>1 DEF held, Working
  <2>3. \A v \in Worker, e \in Event : Working(v, e)' <=> v # w /\ Working(v, e)
    BY <1>3 DEF Working, Resting, Claimed, TypeOK
  <2>4. \A v \in Worker : held'[v] = IF v = w THEN {} ELSE held[v]
    BY <2>3 DEF held
  <2>5. held' = [held EXCEPT ![w] = {}]
    BY <2>4 DEF held
  <2> QED BY <2>1, <2>2, <2>5
<1>4. ASSUME NEW w \in Worker, MarkProcessed(w)
      PROVE  Ledger!Finish(w, worker[w].event) /\ worker[w].event \in Event
  <2>1. handled' = handled \cup {worker[w].event}
    BY <1>3, <1>4 DEF MarkProcessed, handled, Claimed, TypeOK
  <2> QED BY <1>3, <1>4, <2>1 DEF MarkProcessed, Ledger!Finish
<1>5. ASSUME NEW w \in Worker, ReleaseClaim(w) \/ Interrupted(w)
      PROVE  Ledger!PutBack(w)
  <2>1. worker[w].step # "idle" /\ worker' = [worker EXCEPT ![w] = Resting]
    BY <1>5 DEF ReleaseClaim, Interrupted
  <2>2. row[worker[w].event] = "claimed" /\ worker[w].event \in Event
    BY <2>1 DEF Claimed, Working
  <2>3. handled' = handled
    BY <1>5, <2>2 DEF ReleaseClaim, Release, Interrupted, handled, Claimed, TypeOK
  <2> QED BY <1>3, <2>1, <2>3 DEF Ledger!PutBack
<1>6. ASSUME NEW w \in Worker, DispatchCommits(w) \/ DispatchThrows(w)
      PROVE  UNCHANGED <<held, handled>>
  BY <1>2, <1>6 DEF DispatchCommits, DispatchThrows, Step
<1>7. ASSUME NEW w \in Worker, NEW e \in Event, Duplicate(w, e)
      PROVE  UNCHANGED <<held, handled>>
  BY <1>7 DEF Duplicate, held, handled, Working
<1>8. CASE FiveMinutes \/ UNCHANGED vars
  BY <1>8 DEF FiveMinutes, vars, held, handled, Working
<1> QED BY <1>1, <1>4, <1>5, <1>6, <1>7, <1>8 DEF Next, Handle

\* The ledger keeps the promise of EventHandling: one worker at a time, and no event
\* taken again once it is processed.
THEOREM LedgerImplements == Spec => OneHandling
<1>1. Init => Ledger!Init
  BY DEF Init, Ledger!Init, held, handled, Working, Resting
<1>2. Spec => []Claimed
  BY LedgerInvariant, PTL
<1> QED BY <1>1, <1>2, LedgerStep, PTL DEF Spec, OneHandling, Ledger!Spec

=============================================================================
