---------------------------- MODULE PlanChanges ----------------------------
(***************************************************************************)
(* Which plan a recurring sale is credited to.  A subscription has a plan at PayPal and *)
(* one in its row, which a change of plan moves apart; a plan has a price at PayPal that *)
(* never changes and one in its row that an admin may edit.                              *)
(*                                                                         *)
(* One live subscription, whose states are those of Subscriptions.  A price stands for  *)
(* an amount and its currency.  A failed or abandoned request simply ends.               *)
(***************************************************************************)
EXTENDS Naturals

CONSTANTS
  Plan, Price,
  Sale,       \* charges PayPal makes
  Worker,     \* requests of the company, webhooks and crons
  None

VARIABLES
  price,      \* price[p]: in the plan's row, or None
  billed,     \* plans whose row has a PayPal plan id
  selling,    \* plans that are active and not archived
  remote,     \* remote[p]: the price of the plan at PayPal made for p, or None
  script,     \* sync-paypal-plans: the prices it has read, and the plan it has made
  atPaypal,   \* the subscription's plan at PayPal
  offered,    \* the plan the buyer is asked to approve, or None
  stored,     \* the subscription's plan_id
  sale,       \* sale[i]: None, or what was charged and what became of it
  lastCycle,  \* the plan of the last credited payment, or None
  worker      \* worker[w]: what request w has read and does next

catalogue    == <<price, billed, selling, remote, script>>
subscription == <<atPaypal, offered, stored>>
vars == <<catalogue, subscription, sale, lastCycle, worker>>

Idle == [step |-> "idle", plan |-> None, sale |-> None, odd |-> FALSE]

Start(w, step, p, i) ==
  /\ worker[w] = Idle
  /\ worker' = [worker EXCEPT ![w] = [Idle EXCEPT !.step = step, !.plan = p, !.sale = i]]

Goto(w, step) == worker' = [worker EXCEPT ![w].step = step]
End(w) == worker' = [worker EXCEPT ![w] = Idle]

NoScript == [read |-> [p \in Plan |-> None], made |-> None]

\* Every plan there is sells at PayPal for its price, and one of them is subscribed to.
Init ==
  /\ price \in [Plan -> Price \cup {None}]
  /\ remote = price
  /\ billed = {p \in Plan : price[p] # None} /\ selling = billed
  /\ script = NoScript
  /\ atPaypal \in billed /\ stored = atPaypal /\ offered = None
  /\ sale = [i \in Sale |-> None] /\ lastCycle = None
  /\ worker = [w \in Worker |-> Idle]

-----------------------------------------------------------------------------
(* The catalogue: PlanService.update, and the script *)

\* Of payments only: a subscription that was never charged is no history.
CarriesHistory(p) == \E i \in Sale : sale[i] # None /\ sale[i].credited = p

EditInPlace(p, new) ==
  /\ p \in selling /\ ~CarriesHistory(p)
  /\ price' = [price EXCEPT ![p] = new]
  /\ UNCHANGED <<billed, selling, remote, script, subscription, sale, lastCycle, worker>>

\* The successor has no plan at PayPal before the script's next run.
EditVersion(p, q, new) ==
  /\ p \in selling /\ CarriesHistory(p) /\ price[q] = None /\ new # price[p]
  /\ price' = [price EXCEPT ![q] = new]
  /\ selling' = (selling \ {p}) \cup {q}
  /\ UNCHANGED <<billed, remote, script, subscription, sale, lastCycle, worker>>

ScriptReads ==
  /\ script = NoScript /\ selling \ billed # {}
  /\ script' = [NoScript EXCEPT !.read =
                 [p \in Plan |-> IF p \in selling \ billed THEN price[p] ELSE None]]
  /\ UNCHANGED <<price, billed, selling, remote, subscription, sale, lastCycle, worker>>

\* The Request-Id is the plan's: PayPal answers with the plan that it has made before.
CreateBillingPlan(p) ==
  /\ script.read[p] # None /\ script.made = None
  /\ remote' = IF remote[p] = None THEN [remote EXCEPT ![p] = script.read[p]] ELSE remote
  /\ script' = [script EXCEPT !.made = p]
  /\ UNCHANGED <<price, billed, selling, subscription, sale, lastCycle, worker>>

ScriptStores ==
  /\ script.made # None
  /\ billed' = billed \cup {script.made}
  /\ script' = [read |-> [script.read EXCEPT ![script.made] = None], made |-> None]
  /\ UNCHANGED <<price, selling, remote, subscription, sale, lastCycle, worker>>

ScriptDies ==
  /\ script # NoScript
  /\ script' = NoScript
  /\ UNCHANGED <<price, billed, selling, remote, subscription, sale, lastCycle, worker>>

-----------------------------------------------------------------------------
(* PayPal *)

Charge(i) ==
  /\ sale[i] = None
  /\ sale' = [sale EXCEPT ![i] = [plan |-> atPaypal, paid |-> remote[atPaypal], moved |-> FALSE,
                                  credited |-> None, odd |-> FALSE, late |-> FALSE, flagged |-> "no"]]
  /\ UNCHANGED <<catalogue, subscription, lastCycle, worker>>

\* The subscription is on plan p now; the sales charged so far were for another one.
Moves(p) ==
  /\ atPaypal' = p
  /\ sale' = [i \in Sale |-> IF sale[i] # None /\ p # atPaypal THEN [sale[i] EXCEPT !.moved = TRUE]
                                                               ELSE sale[i]]

Approve ==
  /\ offered # None
  /\ Moves(offered)
  /\ offered' = None
  /\ UNCHANGED <<catalogue, stored, lastCycle, worker>>

-----------------------------------------------------------------------------
(* changePlan *)

ChangePlan(w, p) ==
  /\ p \in selling \cap billed /\ p # stored
  /\ Start(w, "revise", p, None)
  /\ UNCHANGED <<catalogue, subscription, sale, lastCycle>>

\* reviseSubscription: PayPal may ask for the buyer's approval first.
Revise(w) ==
  /\ worker[w].step = "revise"
  /\ \/ Moves(worker[w].plan) /\ Goto(w, "write") /\ UNCHANGED offered
     \/ offered' = worker[w].plan /\ End(w) /\ UNCHANGED <<atPaypal, sale>>
  /\ UNCHANGED <<catalogue, stored, lastCycle>>

\* Once the next billing time was read; otherwise the row keeps the old plan (GiveUp).
WriteChange(w) ==
  /\ worker[w].step = "write"
  /\ stored' = worker[w].plan
  /\ End(w)
  /\ UNCHANGED <<catalogue, atPaypal, offered, sale, lastCycle>>

-----------------------------------------------------------------------------
(* applyRemoteState *)

ReadState(w) ==
  /\ Start(w, "apply", atPaypal, None)
  /\ UNCHANGED <<catalogue, subscription, sale, lastCycle>>

\* syncPlanFromPaypal: "no match leaves the row alone".
SyncPlan(w) ==
  /\ worker[w].step = "apply"
  /\ stored' = IF worker[w].plan \in billed THEN worker[w].plan ELSE stored
  /\ End(w)
  /\ UNCHANGED <<catalogue, atPaypal, offered, sale, lastCycle>>

-----------------------------------------------------------------------------
(* creditCycle *)

\* By a webhook, or once more by the reconcile; getSubscription may fail.
ReadPlan(w, i) ==
  /\ sale[i] # None
  /\ \E p \in {atPaypal, None} : Start(w, "find", p, i)
  /\ UNCHANGED <<catalogue, subscription, sale, lastCycle>>

\* Mutant: only the stored plan is looked at.
StoredOnly(read) == {stored}

\* The plan PayPal reports, the stored one, and that of the last cycle.
Candidates(read) == ({read} \cap billed) \cup {stored} \cup ({lastCycle} \ {None})

\* findCyclePlan among the plans with the price that was paid (saleMatchesPlan).
Matching(read, paid) == {p \in Candidates(read) : price[p] = paid}

CyclePlan(read, paid) ==
  LET S == Matching(read, paid) IN
  IF read \in S THEN read ELSE IF stored \in S THEN stored ELSE lastCycle

\* PayPal was not read, or the plan has moved, or its price was edited: the sale may be odd.
Odd(w) ==
  LET s == sale[worker[w].sale] IN worker[w].plan = None \/ s.moved \/ price[s.plan] # s.paid

\* The subscription's row is locked from the look-up to the commit.
Alone(w) == \A v \in Worker \ {w} : worker[v].step # "insert"

FindCyclePlan(w) ==
  LET i == worker[w].sale
      S == Matching(worker[w].plan, sale[i].paid) IN
  /\ worker[w].step = "find" /\ Alone(w) /\ S # {}
  /\ worker' = [worker EXCEPT ![w].step = "insert",
                              ![w].plan = CyclePlan(worker[w].plan, sale[i].paid),
                              ![w].odd = Odd(w)]
  /\ UNCHANGED <<catalogue, subscription, sale, lastCycle>>

\* insertAmountMismatchOnce: an admin is to credit or refund it.
FlagMismatch(w) ==
  LET i == worker[w].sale IN
  /\ worker[w].step = "find" /\ Alone(w) /\ Matching(worker[w].plan, sale[i].paid) = {}
  /\ sale' = IF sale[i].flagged # "no" THEN sale
             ELSE [sale EXCEPT ![i].flagged = IF Odd(w) THEN "odd" ELSE "plain"]
  /\ End(w)
  /\ UNCHANGED <<catalogue, subscription, lastCycle>>

\* insertSubscriptionCycle, once for a sale id; an edit may have come between.
InsertCycle(w) ==
  LET i == worker[w].sale
      p == worker[w].plan IN
  /\ worker[w].step = "insert"
  /\ IF sale[i].credited # None THEN UNCHANGED <<sale, lastCycle>>
     ELSE /\ sale' = [sale EXCEPT ![i].credited = p, ![i].odd = worker[w].odd,
                                  ![i].late = price[p] # sale[i].paid]
          /\ lastCycle' = p
  /\ End(w)
  /\ UNCHANGED <<catalogue, subscription>>

\* Any request may fail at a call to PayPal, or die.
GiveUp(w) ==
  /\ worker[w] # Idle
  /\ End(w)
  /\ UNCHANGED <<catalogue, subscription, sale, lastCycle>>

-----------------------------------------------------------------------------

Next ==
  \/ \E p \in Plan, new \in Price : EditInPlace(p, new) \/ \E q \in Plan : EditVersion(p, q, new)
  \/ ScriptReads \/ ScriptStores \/ ScriptDies \/ \E p \in Plan : CreateBillingPlan(p)
  \/ Approve \/ \E i \in Sale : Charge(i)
  \/ \E w \in Worker :
       \/ Revise(w) \/ WriteChange(w) \/ ReadState(w) \/ SyncPlan(w)
       \/ FindCyclePlan(w) \/ FlagMismatch(w) \/ InsertCycle(w) \/ GiveUp(w)
       \/ \E p \in Plan : ChangePlan(w, p)
       \/ \E i \in Sale : ReadPlan(w, i)

Spec == Init /\ [][Next]_vars

\* Plans, the subscription, its sales and the requests have their types.
TypeOK ==
  /\ price \in [Plan -> Price \cup {None}] /\ remote \in [Plan -> Price \cup {None}]
  /\ billed \subseteq Plan /\ selling \subseteq Plan
  /\ script \in [read : [Plan -> Price \cup {None}], made : Plan \cup {None}]
  /\ atPaypal \in Plan /\ stored \in Plan /\ offered \in Plan \cup {None}
  /\ \A i \in Sale : sale[i] # None =>
       sale[i] \in [plan : Plan, paid : Price, moved : BOOLEAN, credited : Plan \cup {None},
                    odd : BOOLEAN, late : BOOLEAN, flagged : {"no", "odd", "plain"}]
  /\ lastCycle \in Plan \cup {None}
  /\ \A w \in Worker :
       worker[w] \in [step : {"idle", "revise", "write", "apply", "find", "insert"},
                      plan : Plan \cup {None}, sale : Sale \cup {None}, odd : BOOLEAN]

\* "The sale amount is the only real evidence of which plan was charged" (creditCycle): however
\* changes of plan, late notices, replays, edits of the catalogue and the script interleave,
\* the plan a sale is credited to has, and keeps, the price that was paid, unless an edit
\* came between look-up and insert; a sale that PayPal was asked about, on a plan that has
\* neither moved since nor been repriced, is credited to just that plan and never flagged.
CreditedAsCharged ==
  \A i \in Sale : sale[i] # None =>
    LET s == sale[i] IN
    /\ s.credited # None /\ ~s.late => price[s.credited] = s.paid
    /\ s.credited # None /\ ~s.odd => s.credited = s.plan
    /\ s.flagged # "plain"

=============================================================================
