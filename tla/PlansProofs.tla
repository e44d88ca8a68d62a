----------------------------- MODULE PlansProofs ----------------------------
(***************************************************************************)
(* What is paid for stays what it was: a recurring sale is credited to the *)
(* plan that was charged, the catalogue keeps the terms of what was sold   *)
(* and something to sell, a subscription's charge buys one period or is    *)
(* flagged, what is shown as cancelled is not billed, a duplicate is known *)
(* from its row, and no pool of spins is overdrawn; for any plans, prices, *)
(* subscriptions, sales, customers and requests.                           *)
(***************************************************************************)
EXTENDS PlanChanges, TLAPS, FiniteSetTheorems

-----------------------------------------------------------------------------
(* Types *)

SaleRow == [plan : Plan, paid : Price, moved : BOOLEAN, credited : Plan \cup {None},
            odd : BOOLEAN, late : BOOLEAN, flagged : {"no", "odd", "plain"}]

Request == [step : {"idle", "revise", "write", "apply", "find", "insert"},
            plan : Plan \cup {None}, sale : Sale \cup {None}, odd : BOOLEAN]

Script == [read : [Plan -> Price \cup {None}], made : Plan \cup {None}]

\* None is nothing else.
Distinct == None \notin Plan /\ None \notin Price /\ None \notin SaleRow

Rows ==
  /\ price \in [Plan -> Price \cup {None}] /\ remote \in [Plan -> Price \cup {None}]
  /\ billed \subseteq Plan /\ selling \subseteq Plan /\ script \in Script
  /\ stored \in Plan /\ lastCycle \in Plan \cup {None}
  /\ sale \in [Sale -> SaleRow \cup {None}] /\ worker \in [Worker -> Request]

-----------------------------------------------------------------------------
(* The invariant *)

\* What is billed has a price at PayPal, and what is subscribed to, offered or being made
\* there is billed, or will be.
Sellable ==
  /\ \A p \in billed : remote[p] # None
  /\ atPaypal \in billed /\ offered \in billed \cup {None}
  /\ script.made # None => remote[script.made] # None

\* A sale that has not moved is for the plan PayPal charges; a credited one is for its plan
\* and at its price, and a flagged one is odd.
Right(s) ==
  /\ s.plan \in billed
  /\ ~s.moved => s.plan = atPaypal
  /\ s.credited # None /\ ~s.late => price[s.credited] = s.paid
  /\ s.credited # None /\ ~s.odd => s.credited = s.plan
  /\ s.flagged # "plain"

\* A request that has read PayPal's plan has read that of its sale, unless it has moved; one
\* that is to credit a sale that is not odd has found its plan.
Knows(q) ==
  /\ q.step \in {"revise", "write"} => q.plan \in billed
  /\ q.step \in {"find", "insert"} => q.sale \in Sale /\ sale[q.sale] # None
  /\ q.step = "find" /\ q.plan # None /\ ~sale[q.sale].moved => q.plan = sale[q.sale].plan
  /\ q.step = "insert" => q.plan \in Plan
  /\ q.step = "insert" /\ ~q.odd => q.plan = sale[q.sale].plan

Charged ==
  /\ Rows /\ Sellable
  /\ \A i \in Sale : sale[i] # None => Right(sale[i])
  /\ \A w \in Worker : Knows(worker[w])

LEMMA IdleType == Idle \in Request /\ Knows(Idle)
  BY DEF Idle, Request, Knows

LEMMA ChargedInit == ASSUME Distinct, Init PROVE Charged
<1>1. Rows
  <2>1. NoScript \in Script
    BY DEF NoScript, Script
  <2>2. worker \in [Worker -> Request]
    BY IdleType DEF Init
  <2> QED BY <2>1, <2>2 DEF Init, Rows
<1>2. Sellable
  BY DEF Init, Sellable, NoScript
<1>3. \A w \in Worker : Knows(worker[w])
  BY IdleType DEF Init
<1> QED BY <1>1, <1>2, <1>3 DEF Init, Charged

\* A sale stays charged for its plan, and does not move back.
SalesStay ==
  \A i \in Sale : sale[i] # None =>
    /\ sale'[i] # None
    /\ sale'[i].plan = sale[i].plan
    /\ sale[i].moved => sale'[i].moved

\* A request knows what it knew as long as sales stay charged for their plans.
LEMMA KnowsFrame ==
  ASSUME NEW q \in Request, Knows(q), billed \subseteq billed',
         SalesStay
  PROVE  Knows(q)'
  BY DEF Knows, Request, SalesStay

\* One request moves on.
LEMMA WorkFrame ==
  ASSUME Charged, NEW w \in Worker, NEW q \in Request, worker' = [worker EXCEPT ![w] = q],
         Knows(q)',
         billed \subseteq billed',
         SalesStay
  PROVE  worker' \in [Worker -> Request] /\ \A v \in Worker : Knows(worker[v])'
<1>1. worker'[w] = q /\ (\A v \in Worker \ {w} : worker'[v] = worker[v]) /\ worker' \in [Worker -> Request]
  BY DEF Charged, Rows
<1>2. ASSUME NEW v \in Worker \ {w} PROVE Knows(worker[v])'
  <2>1. PICK r \in Request : r = worker[v]
    BY DEF Charged, Rows
  <2>2. Knows(r)'
    BY <2>1, KnowsFrame DEF Charged
  <2> QED BY <1>1, <2>1, <2>2 DEF Knows
<1>3. Knows(worker[w])'
  BY <1>1 DEF Knows
<1> QED BY <1>1, <1>2, <1>3

\* No request moves.
LEMMA RestFrame ==
  ASSUME Charged, UNCHANGED worker, billed \subseteq billed',
         SalesStay
  PROVE  \A v \in Worker : Knows(worker[v])'
<1>1. ASSUME NEW v \in Worker PROVE Knows(worker[v])'
  <2>1. PICK r \in Request : r = worker[v]
    BY DEF Charged, Rows
  <2>2. Knows(r)'
    BY <2>1, KnowsFrame DEF Charged
  <2> QED BY <2>1, <2>2 DEF Knows
<1> QED BY <1>1

\* The catalogue changes, and no plan that was credited gets another price.
LEMMA CatalogueFrame ==
  ASSUME Charged, UNCHANGED <<subscription, sale, lastCycle, worker>>, billed \subseteq billed',
         price' \in [Plan -> Price \cup {None}], remote' \in [Plan -> Price \cup {None}],
         billed' \subseteq Plan, selling' \subseteq Plan, script' \in Script,
         \A p \in billed' : remote'[p] # None,
         script'.made # None => remote'[script'.made] # None,
         \A i \in Sale : sale[i] # None /\ sale[i].credited # None /\ ~sale[i].late =>
           price'[sale[i].credited] = price[sale[i].credited]
  PROVE  Charged'
<1>1. Rows' /\ Sellable'
  BY DEF Charged, Rows, Sellable, subscription
<1>2. \A i \in Sale : sale[i] # None => Right(sale[i])'
  BY DEF Charged, Right, subscription
<1>3. \A w \in Worker : Knows(worker[w])'
  BY RestFrame DEF SalesStay
<1> QED BY <1>1, <1>2, <1>3 DEF Charged

\* One request moves on, and nothing else but the stored plan.
LEMMA RequestFrame ==
  ASSUME Charged, UNCHANGED <<catalogue, atPaypal, sale, lastCycle>>, stored' \in Plan,
         offered' \in billed \cup {None},
         NEW w \in Worker, NEW q \in Request, worker' = [worker EXCEPT ![w] = q], Knows(q)
  PROVE  Charged'
<1>1. Knows(q)'
  BY DEF Knows, catalogue
<1>2. worker' \in [Worker -> Request] /\ \A v \in Worker : Knows(worker[v])'
  BY <1>1, WorkFrame DEF catalogue, SalesStay
<1>3. Rows' /\ Sellable'
  BY <1>2 DEF Charged, Rows, Sellable, catalogue
<1>4. \A i \in Sale : sale[i] # None => Right(sale[i])'
  BY DEF Charged, Right, catalogue
<1> QED BY <1>2, <1>3, <1>4 DEF Charged

\* The subscription is on plan p now; sales charged for another one have moved.
LEMMA MovesFrame ==
  ASSUME Charged, Distinct, NEW p \in billed, Moves(p), UNCHANGED catalogue
  PROVE  /\ sale' \in [Sale -> SaleRow \cup {None}]
         /\ \A i \in Sale : sale'[i] # None => Right(sale[i])'
         /\ SalesStay
<1>1. ASSUME NEW i \in Sale, sale[i] # None
      PROVE  sale'[i] \in SaleRow /\ sale'[i] # None /\ Right(sale[i])'
             /\ sale'[i].plan = sale[i].plan /\ (~sale'[i].moved => ~sale[i].moved)
  <2>1. sale[i] \in SaleRow /\ Right(sale[i])
    BY <1>1 DEF Charged, Rows
  <2>2. CASE p = atPaypal
    BY <1>1, <2>1, <2>2 DEF Moves, Right, catalogue
  <2>3. CASE p # atPaypal
    <3>1. PICK s \in SaleRow : s = sale[i]
      BY <2>1
    <3>2. sale'[i] = [s EXCEPT !.moved = TRUE]
      BY <1>1, <2>3, <3>1 DEF Moves
    <3>3. [s EXCEPT !.moved = TRUE] \in SaleRow
      BY DEF SaleRow
    <3>4. /\ sale'[i].plan = s.plan /\ sale'[i].moved /\ sale'[i].credited = s.credited
          /\ sale'[i].late = s.late /\ sale'[i].odd = s.odd /\ sale'[i].paid = s.paid
          /\ sale'[i].flagged = s.flagged
      BY <3>2 DEF SaleRow
    <3>5. Right(s)
      BY <2>1, <3>1
    <3>6. Right(sale[i])'
      BY <3>4, <3>5 DEF Right, catalogue
    <3> QED BY <3>1, <3>2, <3>3, <3>4, <3>6 DEF Distinct
  <2> QED BY <2>2, <2>3
<1>2. \A i \in Sale : sale[i] = None => sale'[i] = None
  BY DEF Moves
<1>3. sale' \in [Sale -> SaleRow \cup {None}]
  <2>1. sale' = [i \in Sale |-> sale'[i]]
    BY DEF Moves
  <2>2. \A i \in Sale : sale'[i] \in SaleRow \cup {None}
    BY <1>1, <1>2
  <2> QED BY <2>1, <2>2
<1> QED BY <1>1, <1>2, <1>3 DEF SalesStay

\* A sale is flagged or credited, and its request ends.
LEMMA SaleFrame ==
  ASSUME Charged, Distinct, NEW i \in Sale, NEW s \in SaleRow, sale[i] # None,
         sale' = [sale EXCEPT ![i] = s], s.plan = sale[i].plan, s.moved = sale[i].moved, Right(s),
         lastCycle' \in Plan \cup {None}, UNCHANGED <<catalogue, subscription>>,
         NEW w \in Worker, End(w)
  PROVE  Charged'
<1>1. sale'[i] = s /\ \A j \in Sale \ {i} : sale'[j] = sale[j]
  BY DEF Charged, Rows
<1>2. SalesStay
  BY <1>1 DEF Distinct, SalesStay
<1>3. PICK q \in Request : q = Idle
  BY IdleType
<1>4. worker' \in [Worker -> Request] /\ \A v \in Worker : Knows(worker[v])'
  <2>1. Knows(q)'
    BY <1>3 DEF Knows, Idle
  <2> QED BY <1>2, <1>3, <2>1, WorkFrame DEF End, catalogue
<1>5. Rows' /\ Sellable'
  <2>1. sale' \in [Sale -> SaleRow \cup {None}]
    BY DEF Charged, Rows
  <2> QED BY <1>4, <2>1 DEF Charged, Rows, Sellable, catalogue, subscription
<1>6. Right(s)'
  BY DEF Right, catalogue, subscription
<1>7. \A j \in Sale : sale'[j] # None => Right(sale[j])'
  BY <1>1, <1>6 DEF Charged, Right, catalogue, subscription
<1> QED BY <1>4, <1>5, <1>7 DEF Charged

\* A sale that is not odd was charged for the plan that was read, at that plan's price; it
\* matches just that plan.
LEMMA NotOdd ==
  ASSUME Charged, NEW w \in Worker, worker[w].step = "find", ~Odd(w)
  PROVE  LET s == sale[worker[w].sale] IN
         /\ worker[w].plan = s.plan /\ s.plan \in Matching(worker[w].plan, s.paid)
         /\ CyclePlan(worker[w].plan, s.paid) = s.plan
<1> DEFINE s == sale[worker[w].sale]
<1>1. worker[w].plan # None /\ ~s.moved /\ price[s.plan] = s.paid
  BY DEF Odd
<1>2. worker[w].sale \in Sale /\ s # None /\ worker[w].plan = s.plan
  BY <1>1 DEF Charged, Knows
<1>3. s.plan \in billed
  BY <1>2 DEF Charged, Right
<1>4. s.plan \in Matching(worker[w].plan, s.paid)
  BY <1>1, <1>2, <1>3 DEF Matching, Candidates, Charged, Rows
<1> QED BY <1>2, <1>4 DEF CyclePlan

\* What matches is a plan.
LEMMA Matched ==
  ASSUME Charged, NEW read, NEW paid, Matching(read, paid) # {}
  PROVE  CyclePlan(read, paid) \in Plan
<1>1. Matching(read, paid) \subseteq Plan /\ Matching(read, paid) \subseteq {read, stored, lastCycle}
  BY DEF Matching, Candidates, Charged, Rows
<1> QED BY <1>1 DEF CyclePlan

LEMMA ChargedStep == ASSUME Distinct, Charged, [Next]_vars PROVE Charged'
<1>1. ASSUME NEW p \in Plan, NEW new \in Price, EditInPlace(p, new) PROVE Charged'
  <2>1. \A i \in Sale : sale[i] # None /\ sale[i].credited # None =>
          price'[sale[i].credited] = price[sale[i].credited]
    BY <1>1 DEF EditInPlace, CarriesHistory, Charged, Rows, SaleRow
  <2> QED BY <1>1, <2>1, CatalogueFrame DEF EditInPlace, Charged, Rows, Sellable
<1>2. ASSUME NEW p \in Plan, NEW q \in Plan, NEW new \in Price, EditVersion(p, q, new) PROVE Charged'
  <2>1. ASSUME NEW i \in Sale, sale[i] # None, sale[i].credited # None, ~sale[i].late
        PROVE  price'[sale[i].credited] = price[sale[i].credited]
    <3>1. sale[i] \in SaleRow /\ price[sale[i].credited] = sale[i].paid
      BY <2>1 DEF Charged, Rows, Right
    <3>2. sale[i].credited # q
      BY <1>2, <3>1 DEF EditVersion, SaleRow, Distinct
    <3> QED BY <1>2, <3>2 DEF EditVersion
  <2> QED BY <1>2, <2>1, CatalogueFrame DEF EditVersion, Charged, Rows, Sellable
<1>3. CASE ScriptReads
  <2>1. script' = [read |-> [p \in Plan |-> IF p \in selling \ billed THEN price[p] ELSE None], made |-> None]
    BY <1>3 DEF ScriptReads, NoScript
  <2>2. script' \in Script
    BY <2>1 DEF Script, Charged, Rows
  <2> QED BY <1>3, <2>1, <2>2, CatalogueFrame DEF ScriptReads, Charged, Rows, Sellable
<1>4. ASSUME NEW p \in Plan, CreateBillingPlan(p) PROVE Charged'
  <2>1. script.read[p] \in Price /\ script \in Script
    BY <1>4 DEF CreateBillingPlan, Charged, Rows, Script
  <2>2. /\ remote' \in [Plan -> Price \cup {None}] /\ remote'[p] # None
        /\ \A q \in Plan : remote[q] # None => remote'[q] # None
    BY <1>4, <2>1 DEF CreateBillingPlan, Charged, Rows, Distinct
  <2>3. script' = [read |-> script.read, made |-> p]
    BY <1>4, <2>1 DEF CreateBillingPlan, Script
  <2>4. script' \in Script
    BY <2>1, <2>3 DEF Script
  <2> QED BY <1>4, <2>2, <2>3, <2>4, CatalogueFrame DEF CreateBillingPlan, Charged, Rows, Sellable
<1>5. CASE ScriptStores
  <2>1. script \in Script /\ script.made \in Plan /\ remote[script.made] # None
    BY <1>5 DEF ScriptStores, Charged, Rows, Sellable, Script
  <2>2. script' \in Script /\ script'.made = None
    BY <1>5, <2>1 DEF ScriptStores, Script
  <2> QED BY <1>5, <2>1, <2>2, CatalogueFrame DEF ScriptStores, Charged, Rows, Sellable
<1>6. CASE ScriptDies
  <2>1. script' \in Script /\ script'.made = None
    BY <1>6 DEF ScriptDies, NoScript, Script
  <2> QED BY <1>6, <2>1, CatalogueFrame DEF ScriptDies, Charged, Rows, Sellable
<1>7. ASSUME NEW i \in Sale, Charge(i) PROVE Charged'
  <2>0. PICK s : s = [plan |-> atPaypal, paid |-> remote[atPaypal], moved |-> FALSE,
                      credited |-> None, odd |-> FALSE, late |-> FALSE, flagged |-> "no"]
    OBVIOUS
  <2>1. s \in SaleRow /\ Right(s)'
    BY <1>7, <2>0 DEF Charge, SaleRow, Right, Charged, Rows, Sellable, catalogue, subscription
  <2>2. sale' = [sale EXCEPT ![i] = s]
    BY <1>7, <2>0 DEF Charge
  <2>3. sale'[i] = s /\ (\A j \in Sale \ {i} : sale'[j] = sale[j]) /\ sale' \in [Sale -> SaleRow \cup {None}]
    BY <2>1, <2>2 DEF Charged, Rows
  <2>4. \A j \in Sale : sale'[j] # None => Right(sale[j])'
    BY <1>7, <2>1, <2>3 DEF Charge, Charged, Right, catalogue, subscription
  <2>5. \A v \in Worker : Knows(worker[v])'
    BY <1>7, <2>3, RestFrame DEF Charge, catalogue, subscription, SalesStay
  <2>6. Rows' /\ Sellable'
    BY <1>7, <2>3 DEF Charge, Charged, Rows, Sellable, catalogue, subscription
  <2> QED BY <2>4, <2>5, <2>6 DEF Charged
<1>8. CASE Approve
  <2>1. offered \in billed /\ Moves(offered) /\ offered' = None
        /\ UNCHANGED <<catalogue, stored, lastCycle, worker>>
    BY <1>8 DEF Approve, Charged, Sellable
  <2>2. \A v \in Worker : Knows(worker[v])'
    BY <2>1, MovesFrame, RestFrame DEF catalogue
  <2>3. Rows' /\ Sellable'
    BY <2>1, MovesFrame DEF Charged, Rows, Sellable, Moves, catalogue
  <2> QED BY <2>1, <2>2, <2>3, MovesFrame DEF Charged
<1>9. ASSUME NEW w \in Worker, NEW p \in Plan, ChangePlan(w, p) PROVE Charged'
  <2>1. PICK q \in Request : q = [Idle EXCEPT !.step = "revise", !.plan = p, !.sale = None]
    BY DEF Idle, Request
  <2>2. Knows(q)
    BY <1>9, <2>1 DEF ChangePlan, Knows, Idle
  <2>3. worker' = [worker EXCEPT ![w] = q]
    BY <1>9, <2>1 DEF ChangePlan, Start
  <2> QED BY <1>9, <2>2, <2>3, RequestFrame DEF ChangePlan, subscription, Charged, Rows, Sellable
<1>10. ASSUME NEW w \in Worker, Revise(w) PROVE Charged'
  <2>1. worker[w] \in Request /\ Knows(worker[w]) /\ worker[w].step = "revise" /\ worker[w].plan \in billed
    BY <1>10 DEF Revise, Charged, Rows, Knows
  <2>2. CASE Moves(worker[w].plan) /\ Goto(w, "write") /\ UNCHANGED offered
    <3>1. PICK q \in Request : q = [worker[w] EXCEPT !.step = "write"]
      BY <2>1 DEF Request
    <3>2. Knows(q)'
      BY <1>10, <2>1, <3>1 DEF Revise, Knows, Request, catalogue
    <3>3. worker' = [worker EXCEPT ![w] = q]
      BY <2>2, <3>1 DEF Goto
    <3>4. /\ sale' \in [Sale -> SaleRow \cup {None}]
          /\ \A i \in Sale : sale'[i] # None => Right(sale[i])'
          /\ SalesStay
      BY <1>10, <2>1, <2>2, MovesFrame DEF Revise
    <3>5. worker' \in [Worker -> Request] /\ \A v \in Worker : Knows(worker[v])'
      BY <1>10, <3>2, <3>3, <3>4, WorkFrame DEF Revise, catalogue
    <3>6. Rows' /\ Sellable'
      BY <1>10, <2>1, <2>2, <3>4, <3>5 DEF Revise, Charged, Rows, Sellable, Moves, catalogue
    <3> QED BY <3>4, <3>5, <3>6 DEF Charged
  <2>3. CASE offered' = worker[w].plan /\ End(w) /\ UNCHANGED <<atPaypal, sale>>
    BY <1>10, <2>1, <2>3, IdleType, RequestFrame DEF Revise, End, Charged, Rows
  <2> QED BY <1>10, <2>2, <2>3 DEF Revise
<1>11. ASSUME NEW w \in Worker, WriteChange(w) PROVE Charged'
  <2>1. worker[w].plan \in billed
    BY <1>11 DEF WriteChange, Charged, Knows
  <2> QED BY <1>11, <2>1, IdleType, RequestFrame DEF WriteChange, End, Charged, Rows, Sellable
<1>12. ASSUME NEW w \in Worker, ReadState(w) PROVE Charged'
  <2>1. PICK q \in Request : q = [Idle EXCEPT !.step = "apply", !.plan = atPaypal, !.sale = None]
    BY DEF Idle, Request, Charged, Rows, Sellable
  <2>2. Knows(q)
    BY <2>1 DEF Knows, Idle
  <2>3. worker' = [worker EXCEPT ![w] = q]
    BY <1>12, <2>1 DEF ReadState, Start
  <2> QED BY <1>12, <2>2, <2>3, RequestFrame DEF ReadState, subscription, Charged, Rows, Sellable
<1>13. ASSUME NEW w \in Worker, SyncPlan(w) PROVE Charged'
  BY <1>13, IdleType, RequestFrame DEF SyncPlan, End, Charged, Rows, Sellable
<1>14. ASSUME NEW w \in Worker, NEW i \in Sale, ReadPlan(w, i) PROVE Charged'
  <2>1. PICK p \in {atPaypal, None} : Start(w, "find", p, i)
    BY <1>14 DEF ReadPlan
  <2>2. PICK q \in Request : q = [Idle EXCEPT !.step = "find", !.plan = p, !.sale = i]
    BY DEF Idle, Request, Charged, Rows, Sellable
  <2>3. Knows(q)
    BY <1>14, <2>2 DEF ReadPlan, Knows, Idle, Charged, Right
  <2>4. worker' = [worker EXCEPT ![w] = q]
    BY <2>1, <2>2 DEF Start
  <2> QED BY <1>14, <2>3, <2>4, RequestFrame DEF ReadPlan, subscription, Charged, Rows, Sellable
<1>15. ASSUME NEW w \in Worker, FindCyclePlan(w) PROVE Charged'
  <2> DEFINE i == worker[w].sale
             c == CyclePlan(worker[w].plan, sale[i].paid)
             o == Odd(w)
  <2>1. worker[w] \in Request /\ Knows(worker[w]) /\ worker[w].step = "find"
    BY <1>15 DEF FindCyclePlan, Charged, Rows
  <2>2. c \in Plan
    BY <1>15, Matched DEF FindCyclePlan
  <2>3. o \in BOOLEAN /\ (~o => c = sale[i].plan)
    BY <2>1, NotOdd DEF Odd
  <2>4. worker' = [worker EXCEPT ![w] = [worker[w] EXCEPT !.step = "insert", !.plan = c, !.odd = o]]
    BY <1>15, <2>1 DEF FindCyclePlan, Charged, Rows
  <2> HIDE DEF c, o
  <2>5. PICK q \in Request : q = [worker[w] EXCEPT !.step = "insert", !.plan = c, !.odd = o]
    BY <2>1, <2>2, <2>3 DEF Request
  <2>6. Knows(q)
    BY <2>1, <2>2, <2>3, <2>5 DEF Knows, Request
  <2> QED
    BY <1>15, <2>4, <2>5, <2>6, RequestFrame DEF FindCyclePlan, subscription, Charged, Rows, Sellable
<1>16. ASSUME NEW w \in Worker, FlagMismatch(w) PROVE Charged'
  <2> DEFINE i == worker[w].sale
  <2>1. i \in Sale /\ sale[i] # None /\ sale[i] \in SaleRow /\ Right(sale[i])
    BY <1>16 DEF FlagMismatch, Charged, Rows, Knows
  <2>2. Odd(w)
    BY <1>16, NotOdd DEF FlagMismatch
  <2>3. CASE UNCHANGED sale
    BY <1>16, <2>3, IdleType, RequestFrame
    DEF FlagMismatch, End, subscription, Charged, Rows, Sellable
  <2>4. CASE sale' = [sale EXCEPT ![i].flagged = "odd"]
    <3>1. PICK s : s = [sale[i] EXCEPT !.flagged = "odd"]
      OBVIOUS
    <3>2. s \in SaleRow /\ Right(s) /\ s.plan = sale[i].plan /\ s.moved = sale[i].moved
      BY <2>1, <3>1 DEF SaleRow, Right
    <3>3. sale' = [sale EXCEPT ![i] = s]
      BY <2>4, <3>1
    <3> QED BY <1>16, <2>1, <3>2, <3>3, SaleFrame DEF FlagMismatch, Charged, Rows
  <2> QED BY <1>16, <2>2, <2>3, <2>4 DEF FlagMismatch
<1>17. ASSUME NEW w \in Worker, InsertCycle(w) PROVE Charged'
  <2> DEFINE i == worker[w].sale
             p == worker[w].plan
             o == worker[w].odd
             l == price[p] # sale[i].paid
  <2>1. i \in Sale /\ sale[i] # None /\ sale[i] \in SaleRow /\ Right(sale[i])
        /\ p \in Plan /\ o \in BOOLEAN /\ (~o => p = sale[i].plan)
    BY <1>17 DEF InsertCycle, Charged, Rows, Knows, Request
  <2>2. CASE UNCHANGED <<sale, lastCycle>>
    BY <1>17, <2>2, IdleType, RequestFrame
    DEF InsertCycle, End, subscription, Charged, Rows, Sellable
  <2>3. CASE /\ sale' = [sale EXCEPT ![i].credited = p, ![i].odd = o, ![i].late = l]
             /\ lastCycle' = p
    <3>1. l \in BOOLEAN /\ (~l => price[p] = sale[i].paid)
      OBVIOUS
    <3> HIDE DEF l
    <3>2. PICK s : s = [sale[i] EXCEPT !.credited = p, !.odd = o, !.late = l]
      OBVIOUS
    <3>3. s \in SaleRow /\ s.plan = sale[i].plan /\ s.moved = sale[i].moved
      BY <2>1, <3>1, <3>2 DEF SaleRow
    <3>4. Right(s)
      BY <2>1, <3>1, <3>2 DEF SaleRow, Right
    <3>5. sale' = [sale EXCEPT ![i] = s]
      BY <2>1, <2>3, <3>2 DEF Charged, Rows
    <3> QED BY <1>17, <2>1, <2>3, <3>3, <3>4, <3>5, SaleFrame DEF InsertCycle
  <2> QED BY <1>17, <2>2, <2>3 DEF InsertCycle
<1>18. ASSUME NEW w \in Worker, GiveUp(w) PROVE Charged'
  BY <1>18, IdleType, RequestFrame DEF GiveUp, End, subscription, Charged, Rows, Sellable
<1>19. CASE UNCHANGED vars
  BY <1>19, CatalogueFrame DEF vars, catalogue, Charged, Rows, Sellable
<1> QED
  BY <1>1, <1>2, <1>3, <1>4, <1>5, <1>6, <1>7, <1>8, <1>9, <1>10, <1>11, <1>12, <1>13, <1>14,
     <1>15, <1>16, <1>17, <1>18, <1>19 DEF Next

LEMMA ChargedInvariant == ASSUME Distinct PROVE Spec => []Charged
  BY ChargedInit, ChargedStep, PTL DEF Spec

\* Plans, the subscription, its sales and the requests keep their types (subscriptions,
\* payments).
THEOREM TypeCorrect == ASSUME Distinct PROVE Spec => []TypeOK
<1>1. Charged => TypeOK
  BY DEF Charged, Rows, Sellable, SaleRow, Request, Script, TypeOK
<1> QED BY <1>1, ChargedInvariant, PTL

\* However changes of plan, late and repeated notices, edits of the catalogue and the script
\* interleave, a sale is credited to a plan with the price that was paid, and to the plan it
\* was charged for where PayPal could tell (creditCycle).
THEOREM CreditedToItsPlan == ASSUME Distinct PROVE Spec => []CreditedAsCharged
<1>1. Charged => CreditedAsCharged
  BY DEF Charged, Right, CreditedAsCharged
<1> QED BY <1>1, ChargedInvariant, PTL

-----------------------------------------------------------------------------
(* The catalogue *)

CONSTANTS Currency, USD, Purchase
VARIABLES row, active, archived, popular, currency, switched, checkout, txn

Shop == INSTANCE Plans

PlanRow     == [price : Price, currency : Currency, supersedes : Plan \cup {None}]
CheckoutRow == [plan : Plan, price : Price, stored : BOOLEAN, late : BOOLEAN]
Transaction == [op : {"idle", "create", "edit", "hide", "show"}, plan : Plan \cup {None},
                to : Price \cup Currency \cup {None}, paid : BOOLEAN]

\* None is nothing else, and a new platform has its currency.
Catalogue == None \notin Plan /\ None \notin PlanRow /\ None \notin CheckoutRow /\ USD \in Currency

Listed ==
  /\ row \in [Plan -> PlanRow \cup {None}]
  /\ active \subseteq Shop!Stored /\ archived \subseteq Shop!Stored
  /\ currency \in Currency /\ switched \subseteq Plan
  /\ checkout \in [Purchase -> CheckoutRow \cup {None}] /\ txn \in [Worker -> Transaction]

\* A plan being created is not there yet; one being edited is not archived, and where nothing
\* was paid for it nothing is before the edit commits; and no two requests do either to one.
Fits(t) ==
  /\ t.op = "create" => /\ t.plan \in Plan /\ row[t.plan] = None /\ t.to \in Currency
                        /\ t.plan \in switched \/ t.to = currency
  /\ t.op = "edit" => /\ t.plan \in Shop!Stored /\ t.plan \notin archived /\ t.to \in Price
                      /\ t.paid \/ t.to = row[t.plan].price \/ ~Shop!Paid(t.plan)
  /\ t.op \in {"hide", "show"} => t.plan \in Shop!Stored

OneEach ==
  \A v, w \in Worker : txn[v].op \in {"create", "edit"} /\ txn[v].op = txn[w].op
                       /\ txn[v].plan = txn[w].plan => v = w

\* What a checkout refers to is there; what was stored in time has its plan's price.
Sold(c) ==
  /\ row[c.plan] # None
  /\ c.stored /\ ~c.late => row[c.plan].price = c.price

\* What has a successor is archived, and has no other.
Succession ==
  /\ \A p \in Shop!Stored : row[p].supersedes # None => row[p].supersedes \in archived
  /\ \A p, q \in Shop!Stored : row[p].supersedes = row[q].supersedes /\ row[p].supersedes # None => p = q

\* One plan at most wears the badge, and it is on sale; the others of another currency have
\* been there before the change.
Page ==
  /\ popular \subseteq Shop!OnSale /\ \A p, q \in popular : p = q
  /\ \A p \in Shop!Stored \ switched : row[p].currency = currency

Kept ==
  /\ Listed /\ OneEach /\ Succession /\ Page
  /\ \A w \in Worker : Fits(txn[w])
  /\ \A i \in Purchase : checkout[i] # None => Sold(checkout[i])

LEMMA NoTransaction == Shop!Idle \in Transaction /\ Fits(Shop!Idle) /\ Shop!Idle.op = "idle"
  BY DEF Shop!Idle, Transaction, Fits

LEMMA KeptInit == ASSUME Catalogue, Shop!Init PROVE Kept
<1>1. \A w \in Worker : txn[w] \in Transaction /\ Fits(txn[w]) /\ txn[w].op = "idle"
  BY NoTransaction DEF Shop!Init
<1>2. txn \in [Worker -> Transaction]
  BY NoTransaction DEF Shop!Init
<1>3. CASE row = [p \in Plan |-> None] /\ active = {}
  BY <1>1, <1>2, <1>3
  DEF Shop!Init, Catalogue, Kept, Listed, OneEach, Succession, Page, Shop!Stored, Shop!OnSale
<1>4. ASSUME NEW p \in Plan, NEW c \in Price, active = {p},
             row = [q \in Plan |-> IF q = p THEN [price |-> c, currency |-> currency, supersedes |-> None]
                                            ELSE None]
      PROVE  Kept
  <2>1. row \in [Plan -> PlanRow \cup {None}]
    BY <1>4 DEF Shop!Init, Catalogue, PlanRow
  <2>2. Shop!Stored = {p} /\ row[p].supersedes = None /\ row[p].currency = currency
    <3>1. row[p] # None
      BY <1>4 DEF Shop!Init, Catalogue, PlanRow
    <3> QED BY <1>4, <3>1 DEF Shop!Stored
  <2> QED BY <1>1, <1>2, <1>4, <2>1, <2>2
          DEF Shop!Init, Catalogue, Kept, Listed, OneEach, Succession, Page, Shop!OnSale
<1> QED BY <1>3, <1>4 DEF Shop!Init

\* A request's plan stays what it was to it while others commit.
LEMMA FitsFrame ==
  ASSUME NEW t \in Transaction, Fits(t), \A p \in Shop!Stored : row'[p] # None,
         t.op \in {"create", "edit"} => row'[t.plan] = row[t.plan],
         t.op = "edit" => t.plan \notin archived' /\ (Shop!Paid(t.plan)' => Shop!Paid(t.plan)),
         switched \subseteq switched',
         currency' = currency \/ (t.op = "create" => t.plan \in switched')
  PROVE  Fits(t)'
<1>1. t.op = "create" => Fits(t)'
  BY DEF Fits
<1>2. t.op = "edit" => Fits(t)'
  BY DEF Fits, Shop!Stored
<1>3. t.op \in {"hide", "show", "idle"} => Fits(t)'
  BY DEF Fits, Shop!Stored
<1> QED BY <1>1, <1>2, <1>3 DEF Transaction

\* A request begins.
LEMMA BeginFrame ==
  ASSUME Kept, UNCHANGED <<row, active, archived, popular, currency, switched, checkout>>,
         NEW w \in Worker, NEW q \in Transaction, txn' = [txn EXCEPT ![w] = q], Fits(q),
         q.op \in {"create", "edit"} =>
           \A v \in Worker \ {w} : ~(txn[v].op = q.op /\ txn[v].plan = q.plan)
  PROVE  Kept'
<1>1. txn'[w] = q /\ (\A v \in Worker \ {w} : txn'[v] = txn[v]) /\ txn' \in [Worker -> Transaction]
  BY DEF Kept, Listed
<1>2. Listed' /\ Succession' /\ Page'
  BY <1>1 DEF Kept, Listed, Succession, Page, Shop!Stored, Shop!OnSale
<1>3. OneEach'
  BY <1>1 DEF Kept, OneEach
<1>4. \A v \in Worker : Fits(txn[v])'
  BY <1>1 DEF Kept, Fits, Shop!Stored, Shop!Paid
<1>5. \A i \in Purchase : checkout'[i] # None => Sold(checkout[i])'
  BY DEF Kept, Sold
<1> QED BY <1>2, <1>3, <1>4, <1>5 DEF Kept

\* A request ends, and what it has written is nobody else's.
LEMMA EndFrame ==
  ASSUME Kept, NEW w \in Worker, Shop!End(w), \A p \in Shop!Stored : row'[p] # None,
         \A v \in Worker \ {w} :
           /\ txn[v].op \in {"create", "edit"} => row'[txn[v].plan] = row[txn[v].plan]
           /\ txn[v].op = "edit" => txn[v].plan \notin archived',
         switched \subseteq switched', UNCHANGED <<currency, checkout>>
  PROVE  txn' \in [Worker -> Transaction] /\ OneEach' /\ \A v \in Worker : Fits(txn[v])'
<1>1. txn'[w] = Shop!Idle /\ \A v \in Worker \ {w} : txn'[v] = txn[v]
  BY DEF Kept, Listed, Shop!End
<1>2. txn' \in [Worker -> Transaction]
  BY NoTransaction DEF Kept, Listed, Shop!End
<1>3. OneEach'
  BY <1>1, NoTransaction DEF Kept, OneEach
<1>4. ASSUME NEW v \in Worker \ {w} PROVE Fits(txn[v])'
  <2>1. PICK t \in Transaction : t = txn[v]
    BY DEF Kept, Listed
  <2>2. Shop!Paid(t.plan)' => Shop!Paid(t.plan)
    BY DEF Shop!Paid
  <2>3. Fits(t)
    BY <2>1 DEF Kept
  <2>4. Fits(t)'
    BY <2>1, <2>2, <2>3, FitsFrame
  <2> QED BY <1>1, <2>1, <2>4 DEF Fits
<1>5. Fits(txn[w])'
  <2>1. PICK t \in Transaction : t = Shop!Idle
    BY NoTransaction
  <2>2. Fits(t)'
    BY <2>1, NoTransaction DEF Fits
  <2> QED BY <1>1, <2>1, <2>2 DEF Fits
<1> QED BY <1>2, <1>3, <1>4, <1>5

\* A request ends that has changed nothing but flags.
LEMMA FlagsFrame ==
  ASSUME Kept, NEW w \in Worker, Shop!End(w),
         UNCHANGED <<row, archived, currency, switched, checkout>>,
         active' \subseteq Shop!Stored, popular' \subseteq popular, popular' \subseteq active'
  PROVE  Kept'
<1>1. \A p \in Shop!Stored : row'[p] # None
  BY DEF Shop!Stored
<1>2. \A v \in Worker : txn[v].op = "edit" => txn[v].plan \notin archived
  BY DEF Kept, Fits
<1>3. txn' \in [Worker -> Transaction] /\ OneEach' /\ \A v \in Worker : Fits(txn[v])'
  BY <1>1, <1>2, EndFrame
<1>4. Listed' /\ Succession' /\ Page'
  BY <1>3 DEF Kept, Listed, Succession, Page, Shop!Stored, Shop!OnSale
<1>5. \A i \in Purchase : checkout'[i] # None => Sold(checkout[i])'
  BY DEF Kept, Sold
<1> QED BY <1>3, <1>4, <1>5 DEF Kept

LEMMA KeptStep == ASSUME Catalogue, Kept, [Shop!Next]_(Shop!vars) PROVE Kept'
<1> USE DEF Shop!catalogue
<1>1. ASSUME NEW w \in Worker, NEW p \in Plan, Shop!CreateOpen(w, p) PROVE Kept'
  <2>1. PICK q \in Transaction : q = [op |-> "create", plan |-> p, to |-> currency, paid |-> FALSE]
    BY DEF Transaction, Kept, Listed
  <2>2. Fits(q)
    BY <1>1, <2>1 DEF Shop!CreateOpen, Fits, Kept, Listed
  <2> QED BY <1>1, <2>1, <2>2, BeginFrame DEF Shop!CreateOpen, Shop!Begin
<1>2. ASSUME NEW w \in Worker, NEW p \in Plan, NEW new \in Price, Shop!EditOpen(w, p, new) PROVE Kept'
  <2> DEFINE h == (new # row[p].price /\ Shop!CarriesHistory(p))
  <2>1. h \in BOOLEAN /\ (h \/ new = row[p].price \/ ~Shop!Paid(p))
    BY DEF Shop!CarriesHistory
  <2>2. txn' = [txn EXCEPT ![w] = [op |-> "edit", plan |-> p, to |-> new, paid |-> h]]
    BY <1>2 DEF Shop!EditOpen, Shop!Begin
  <2> HIDE DEF h
  <2>3. PICK q \in Transaction : q = [op |-> "edit", plan |-> p, to |-> new, paid |-> h]
    BY <2>1 DEF Transaction
  <2>4. Fits(q)
    BY <1>2, <2>1, <2>3 DEF Shop!EditOpen, Fits
  <2>5. \A v \in Worker \ {w} : ~(txn[v].op = "edit" /\ txn[v].plan = p)
    BY <1>2 DEF Shop!EditOpen, Shop!Free, Shop!Locked
  <2> QED BY <1>2, <2>2, <2>3, <2>4, <2>5, BeginFrame DEF Shop!EditOpen
<1>3. ASSUME NEW w \in Worker, NEW p \in Plan, Shop!HideOpen(w, p) \/ Shop!ShowOpen(w, p) PROVE Kept'
  <2>1. PICK b \in BOOLEAN, op \in {"hide", "show"} :
          txn' = [txn EXCEPT ![w] = [op |-> op, plan |-> p, to |-> None, paid |-> b]]
    <3>1. CASE Shop!HideOpen(w, p)
      <4> DEFINE b == Shop!Cardinality(active) > 1
      <4>1. b \in BOOLEAN
        OBVIOUS
      <4>2. txn' = [txn EXCEPT ![w] = [op |-> "hide", plan |-> p, to |-> None, paid |-> b]]
        BY <3>1 DEF Shop!HideOpen, Shop!Begin
      <4> HIDE DEF b
      <4> QED BY <4>1, <4>2
    <3>2. CASE Shop!ShowOpen(w, p)
      BY <3>2 DEF Shop!ShowOpen, Shop!Begin
    <3> QED BY <1>3, <3>1, <3>2
  <2>2. PICK q \in Transaction : q = [op |-> op, plan |-> p, to |-> None, paid |-> b]
    BY DEF Transaction
  <2>3. Fits(q)
    BY <1>3, <2>2 DEF Shop!HideOpen, Shop!ShowOpen, Fits, Kept, Listed
  <2> QED BY <1>3, <2>1, <2>2, <2>3, BeginFrame DEF Shop!HideOpen, Shop!ShowOpen
<1>4. ASSUME NEW w \in Worker, NEW new \in Price, NEW on \in BOOLEAN, NEW wanted \in BOOLEAN,
             Shop!CreateCommit(w, new, on, wanted)
      PROVE  Kept'
  <2> DEFINE p == txn[w].plan
  <2>1. p \in Plan /\ row[p] = None /\ txn[w].to \in Currency /\ (p \in switched \/ txn[w].to = currency)
    BY <1>4 DEF Shop!CreateCommit, Kept, Fits
  <2>2. PICK r \in PlanRow : r = [price |-> new, currency |-> txn[w].to, supersedes |-> None]
    BY <2>1 DEF PlanRow
  <2>3. row' = [row EXCEPT ![p] = r] /\ r.supersedes = None /\ r.currency = txn[w].to
    BY <1>4, <2>2 DEF Shop!CreateCommit
  <2>4. row'[p] = r /\ (\A q \in Plan \ {p} : row'[q] = row[q]) /\ row' \in [Plan -> PlanRow \cup {None}]
    BY <2>1, <2>3 DEF Kept, Listed
  <2>5. Shop!Stored' = Shop!Stored \cup {p} /\ p \notin Shop!Stored
    BY <2>1, <2>4 DEF Shop!Stored, Catalogue
  <2>6. txn' \in [Worker -> Transaction] /\ OneEach' /\ \A v \in Worker : Fits(txn[v])'
    <3>1. \A v \in Worker \ {w} : txn[v].op \in {"create", "edit"} => txn[v].plan # p /\ txn[v].plan \in Plan
      BY <1>4, <2>1 DEF Shop!CreateCommit, Kept, OneEach, Fits, Shop!Stored
    <3>2. \A v \in Worker \ {w} : txn[v].op = "edit" => txn[v].plan \notin archived
      BY DEF Kept, Fits
    <3>3. \A q \in Shop!Stored : row'[q] # None
      BY <2>1, <2>4 DEF Shop!Stored
    <3> QED BY <1>4, <2>4, <3>1, <3>2, <3>3, EndFrame DEF Shop!CreateCommit
  <2>7. Listed'
    BY <1>4, <2>1, <2>4, <2>5, <2>6 DEF Shop!CreateCommit, Kept, Listed
  <2>8. Succession'
    BY <1>4, <2>3, <2>4, <2>5 DEF Shop!CreateCommit, Kept, Succession, Shop!Stored
  <2>9. Page'
    <3>1. popular' \subseteq Shop!OnSale' /\ \A x, y \in popular' : x = y
      BY <1>4, <2>5 DEF Shop!CreateCommit, Shop!Badge, Kept, Listed, Page, Shop!OnSale
    <3>2. \A x \in Shop!Stored' \ switched' : row'[x].currency = currency'
      BY <1>4, <2>1, <2>3, <2>4, <2>5 DEF Shop!CreateCommit, Kept, Page, Shop!Stored
    <3> QED BY <3>1, <3>2 DEF Page
  <2>10. \A i \in Purchase : checkout'[i] # None => Sold(checkout[i])'
    BY <1>4, <2>1, <2>4 DEF Shop!CreateCommit, Kept, Listed, CheckoutRow, Sold
  <2> QED BY <2>6, <2>7, <2>8, <2>9, <2>10 DEF Kept
<1>5. ASSUME NEW w \in Worker, NEW wanted \in BOOLEAN, Shop!EditInPlace(w, wanted) PROVE Kept'
  <2> DEFINE p == txn[w].plan
             to == txn[w].to
  <2>1. /\ p \in Plan /\ row[p] \in PlanRow /\ row[p] # None /\ p \notin archived /\ to \in Price
        /\ to = row[p].price \/ ~Shop!Paid(p)
    BY <1>5 DEF Shop!EditInPlace, Kept, Fits, Listed, Shop!Stored
  <2>2. PICK r \in PlanRow : r = [row[p] EXCEPT !.price = to]
    BY <2>1 DEF PlanRow
  <2>3. row' = [row EXCEPT ![p] = r] /\ r.supersedes = row[p].supersedes /\ r.currency = row[p].currency
        /\ r.price = to
    BY <1>5, <2>1, <2>2 DEF Shop!EditInPlace, PlanRow
  <2>4. row'[p] = r /\ (\A q \in Plan \ {p} : row'[q] = row[q]) /\ row' \in [Plan -> PlanRow \cup {None}]
    BY <2>1, <2>3 DEF Kept, Listed
  <2>5. Shop!Stored' = Shop!Stored /\ p \in Shop!Stored
    BY <2>1, <2>4 DEF Shop!Stored, Catalogue
  <2>6. txn' \in [Worker -> Transaction] /\ OneEach' /\ \A v \in Worker : Fits(txn[v])'
    <3>1. \A v \in Worker \ {w} : txn[v].op \in {"create", "edit"} => txn[v].plan # p /\ txn[v].plan \in Plan
      BY <1>5, <2>1 DEF Shop!EditInPlace, Kept, OneEach, Fits, Shop!Stored
    <3>2. \A v \in Worker \ {w} : txn[v].op = "edit" => txn[v].plan \notin archived
      BY DEF Kept, Fits
    <3>3. \A q \in Shop!Stored : row'[q] # None
      BY <2>1, <2>4 DEF Shop!Stored, Catalogue
    <3> QED BY <1>5, <2>4, <3>1, <3>2, <3>3, EndFrame DEF Shop!EditInPlace
  <2>7. Listed'
    BY <1>5, <2>1, <2>4, <2>5, <2>6 DEF Shop!EditInPlace, Kept, Listed
  <2>8. Succession'
    <3>1. \A q \in Plan : row'[q].supersedes = row[q].supersedes
      BY <2>3, <2>4
    <3> QED BY <1>5, <2>5, <3>1 DEF Shop!EditInPlace, Kept, Succession, Shop!Stored
  <2>9. Page'
    <3>1. popular' \subseteq Shop!OnSale' /\ \A x, y \in popular' : x = y
      BY <1>5, <2>1 DEF Shop!EditInPlace, Shop!Badge, Kept, Page, Shop!OnSale
    <3>2. \A q \in Plan : row'[q].currency = row[q].currency
      BY <2>3, <2>4
    <3>3. \A x \in Shop!Stored' \ switched' : row'[x].currency = currency'
      BY <1>5, <2>5, <3>2 DEF Shop!EditInPlace, Kept, Page, Shop!Stored
    <3> QED BY <3>1, <3>3 DEF Page
  <2>10. ASSUME NEW i \in Purchase, checkout'[i] # None PROVE Sold(checkout[i])'
    <3>1. PICK c \in CheckoutRow : c = checkout[i]
      BY <1>5, <2>10 DEF Shop!EditInPlace, Kept, Listed
    <3>2. Sold(c) /\ checkout'[i] = c /\ c.plan \in Plan
      BY <1>5, <2>10, <3>1 DEF Shop!EditInPlace, Kept, CheckoutRow
    <3>3. c.stored /\ c.plan = p => to = row[p].price
      BY <1>5, <2>1, <2>10, <3>1 DEF Shop!EditInPlace, Shop!Paid
    <3>4. row'[c.plan] # None
      BY <2>1, <2>4, <3>2 DEF Sold, Catalogue
    <3>5. c.stored /\ ~c.late => row'[c.plan].price = c.price
      BY <2>3, <2>4, <3>2, <3>3 DEF Sold
    <3> QED BY <3>2, <3>4, <3>5 DEF Sold
  <2> QED BY <2>6, <2>7, <2>8, <2>9, <2>10 DEF Kept
<1>6. ASSUME NEW w \in Worker, NEW q \in Plan, NEW wanted \in BOOLEAN, Shop!EditVersion(w, q, wanted)
      PROVE  Kept'
  <2> DEFINE p == txn[w].plan
             to == txn[w].to
  <2>1. p \in Plan /\ row[p] \in PlanRow /\ row[p] # None /\ p \notin archived /\ to \in Price /\ row[q] = None
    BY <1>6 DEF Shop!EditVersion, Kept, Fits, Listed, Shop!Stored
  <2>2. PICK r \in PlanRow : r = [row[p] EXCEPT !.price = to, !.supersedes = p]
    BY <2>1 DEF PlanRow
  <2>3. row' = [row EXCEPT ![q] = r] /\ r.supersedes = p /\ r.currency = row[p].currency
    BY <1>6, <2>1, <2>2 DEF Shop!EditVersion, PlanRow
  <2>4. row'[q] = r /\ (\A x \in Plan \ {q} : row'[x] = row[x]) /\ row' \in [Plan -> PlanRow \cup {None}]
    BY <2>1, <2>3 DEF Kept, Listed
  <2>5. Shop!Stored' = Shop!Stored \cup {q} /\ q \notin Shop!Stored /\ p \in Shop!Stored
    BY <2>1, <2>4 DEF Shop!Stored, Catalogue
  <2>6. txn' \in [Worker -> Transaction] /\ OneEach' /\ \A v \in Worker : Fits(txn[v])'
    <3>1. \A v \in Worker : txn[v].op \in {"create", "edit"} => txn[v].plan # q /\ txn[v].plan \in Plan
      BY <1>6 DEF Shop!EditVersion, Kept, Fits, Shop!Stored
    <3>2. \A v \in Worker \ {w} : txn[v].op = "edit" => txn[v].plan \notin archived /\ txn[v].plan # p
      BY <1>6 DEF Shop!EditVersion, Kept, OneEach, Fits
    <3>3. \A x \in Shop!Stored : row'[x] # None
      BY <2>5 DEF Shop!Stored
    <3> QED BY <1>6, <2>4, <3>1, <3>2, <3>3, EndFrame DEF Shop!EditVersion
  <2>7. Listed'
    BY <1>6, <2>1, <2>4, <2>5, <2>6 DEF Shop!EditVersion, Kept, Listed
  <2>8. Succession'
    <3>1. \A x \in Shop!Stored : row'[x] = row[x]
      BY <2>4, <2>5 DEF Shop!Stored
    <3>2. \A x \in Shop!Stored : row[x].supersedes # None =>
            row[x].supersedes \in archived /\ row[x].supersedes # p
      BY <2>1 DEF Kept, Succession
    <3>3. row'[q].supersedes = p /\ p \in archived'
      BY <1>6, <2>3, <2>4 DEF Shop!EditVersion
    <3>4. \A x \in Shop!Stored' : row'[x].supersedes # None => row'[x].supersedes \in archived'
      BY <1>6, <2>5, <3>1, <3>2, <3>3 DEF Shop!EditVersion
    <3>5. \A x, y \in Shop!Stored' :
            row'[x].supersedes = row'[y].supersedes /\ row'[x].supersedes # None => x = y
      BY <2>5, <3>1, <3>2, <3>3 DEF Kept, Succession
    <3> QED BY <3>4, <3>5 DEF Succession
  <2>9. Page'
    <3>1. q \notin archived /\ q \notin active /\ q # p
      BY <2>5 DEF Kept, Listed
    <3>2. popular' \subseteq Shop!OnSale'
      BY <1>6, <2>1, <3>1 DEF Shop!EditVersion, Kept, Page, Shop!OnSale
    <3>3. \A x, y \in popular' : x = y
      BY <1>6 DEF Shop!EditVersion, Kept, Page
    <3>4. \A x \in Shop!Stored' \ switched' : row'[x].currency = currency'
      BY <1>6, <2>3, <2>4, <2>5 DEF Shop!EditVersion, Kept, Page, Shop!Stored
    <3> QED BY <3>2, <3>3, <3>4 DEF Page
  <2>10. \A i \in Purchase : checkout'[i] # None => Sold(checkout[i])'
    BY <1>6, <2>1, <2>4 DEF Shop!EditVersion, Kept, Listed, CheckoutRow, Sold
  <2> QED BY <2>6, <2>7, <2>8, <2>9, <2>10 DEF Kept
<1>7. ASSUME NEW w \in Worker, Shop!Abort(w) PROVE Kept'
  BY <1>7, FlagsFrame DEF Shop!Abort, Kept, Listed, Page, Shop!OnSale
<1>8. ASSUME NEW w \in Worker, Shop!HideCommit(w) PROVE Kept'
  BY <1>8, FlagsFrame DEF Shop!HideCommit, Kept, Listed, Page, Shop!OnSale
<1>9. ASSUME NEW w \in Worker, Shop!ShowCommit(w) PROVE Kept'
  <2>1. txn[w].plan \in Shop!Stored
    BY <1>9 DEF Shop!ShowCommit, Kept, Fits
  <2> QED BY <1>9, <2>1, FlagsFrame DEF Shop!ShowCommit, Kept, Listed, Page, Shop!OnSale
<1>10. ASSUME NEW c \in Currency, Shop!SetPlatformCurrency(c) PROVE Kept'
  <2>1. UNCHANGED <<row, active, archived, popular, checkout, txn>> /\ currency' = c
        /\ switched' = switched \cup (Shop!Stored \ Shop!OnSale)
                       \cup {txn[w].plan : w \in {v \in Worker : txn[v].op = "create"}}
    BY <1>10 DEF Shop!SetPlatformCurrency
  <2>2. \A w \in Worker : txn[w].op = "create" => txn[w].plan \in switched' /\ txn[w].plan \in Plan
    BY <2>1 DEF Kept, Fits
  <2>3. switched' \subseteq Plan
    BY <2>1, <2>2 DEF Kept, Listed, Fits, Shop!Stored
  <2>4. Listed' /\ OneEach' /\ Succession'
    BY <2>1, <2>3 DEF Kept, Listed, OneEach, Succession, Shop!Stored
  <2>5. Page'
    <3>1. \A p \in Shop!OnSale : row[p].currency = c
      BY <1>10 DEF Shop!SetPlatformCurrency, Shop!Blocking
    <3> QED BY <2>1, <3>1 DEF Kept, Page, Shop!Stored, Shop!OnSale
  <2>6. ASSUME NEW w \in Worker PROVE Fits(txn[w])'
    <3>1. PICK t \in Transaction : t = txn[w]
      BY DEF Kept, Listed
    <3>2. Fits(t) /\ txn'[w] = t /\ (t.op = "create" => t.plan \in switched')
      BY <2>1, <2>2, <3>1 DEF Kept
    <3>3. Shop!Paid(t.plan)' => Shop!Paid(t.plan)
      BY <2>1 DEF Shop!Paid
    <3>4. Fits(t)'
      BY <2>1, <3>2, <3>3, FitsFrame DEF Fits, Shop!Stored
    <3> QED BY <3>2, <3>4 DEF Fits
  <2>7. \A i \in Purchase : checkout'[i] # None => Sold(checkout[i])'
    BY <2>1 DEF Kept, Sold
  <2> QED BY <2>4, <2>5, <2>6, <2>7 DEF Kept
<1>11. ASSUME NEW i \in Purchase, Shop!Store(i) \/ \E p \in Plan : Shop!Buy(i, p) PROVE Kept'
  <2>1. UNCHANGED <<row, active, archived, popular, currency, switched, txn>>
    BY <1>11 DEF Shop!Buy, Shop!Store
  <2>2. PICK c \in CheckoutRow :
          /\ checkout' = [checkout EXCEPT ![i] = c] /\ Sold(c)
          /\ c.stored => \A w \in Worker : c.plan \notin Shop!Locked(w)
    <3>1. ASSUME NEW p \in Plan, Shop!Buy(i, p)
          PROVE  \E c \in CheckoutRow :
                   /\ checkout' = [checkout EXCEPT ![i] = c] /\ Sold(c)
                   /\ c.stored => \A w \in Worker : c.plan \notin Shop!Locked(w)
      <4>1. row[p] \in PlanRow /\ row[p] # None
        BY <3>1 DEF Shop!Buy, Shop!OnSale, Shop!Stored, Kept, Listed
      <4>2. PICK c \in CheckoutRow : c = [plan |-> p, price |-> row[p].price, stored |-> FALSE, late |-> FALSE]
        BY <4>1 DEF CheckoutRow, PlanRow
      <4> QED BY <3>1, <4>1, <4>2 DEF Shop!Buy, Sold
    <3>2. CASE Shop!Store(i)
      <4> DEFINE l == row[checkout[i].plan].price # checkout[i].price
      <4>1. checkout[i] \in CheckoutRow /\ Sold(checkout[i])
        BY <3>2 DEF Shop!Store, Kept, Listed
      <4>2. l \in BOOLEAN /\ (~l => row[checkout[i].plan].price = checkout[i].price)
        OBVIOUS
      <4>3. checkout' = [checkout EXCEPT ![i].stored = TRUE, ![i].late = l]
        BY <3>2 DEF Shop!Store
      <4> HIDE DEF l
      <4>4. PICK c \in CheckoutRow : c = [checkout[i] EXCEPT !.stored = TRUE, !.late = l]
        BY <4>1, <4>2 DEF CheckoutRow
      <4>5. checkout' = [checkout EXCEPT ![i] = c]
        BY <4>3, <4>4 DEF Kept, Listed
      <4>6. Sold(c) /\ c.plan = checkout[i].plan
        BY <4>1, <4>2, <4>4 DEF CheckoutRow, Sold
      <4> QED BY <3>2, <4>5, <4>6 DEF Shop!Store
    <3> QED BY <1>11, <3>1, <3>2
  <2>3. checkout'[i] = c /\ \A j \in Purchase \ {i} : checkout'[j] = checkout[j]
    BY <2>2 DEF Kept, Listed
  <2>4. Listed' /\ OneEach' /\ Succession' /\ Page'
    BY <2>1, <2>2 DEF Kept, Listed, OneEach, Succession, Page, Shop!Stored, Shop!OnSale
  <2>5. \A j \in Purchase : checkout'[j] # None => Sold(checkout[j])'
    BY <2>1, <2>2, <2>3 DEF Kept, Sold
  <2>6. ASSUME NEW w \in Worker PROVE Fits(txn[w])'
    <3>1. PICK t \in Transaction : t = txn[w]
      BY DEF Kept, Listed
    <3>2. Fits(t) /\ txn'[w] = t
      BY <2>1, <3>1 DEF Kept
    <3>3. t.op = "edit" => (Shop!Paid(t.plan)' => Shop!Paid(t.plan))
      BY <2>2, <2>3, <3>1 DEF Shop!Paid, Shop!Locked
    <3>4. Fits(t)'
      BY <2>1, <3>2, <3>3, FitsFrame DEF Fits, Shop!Stored
    <3> QED BY <3>2, <3>4 DEF Fits
  <2> QED BY <2>4, <2>5, <2>6 DEF Kept
<1>12. CASE UNCHANGED Shop!vars
  <2>1. Listed' /\ OneEach' /\ Succession' /\ Page'
    BY <1>12 DEF Shop!vars, Kept, Listed, OneEach, Succession, Page, Shop!Stored, Shop!OnSale
  <2>2. (\A w \in Worker : Fits(txn[w])') /\ \A i \in Purchase : checkout'[i] # None => Sold(checkout[i])'
    BY <1>12 DEF Shop!vars, Kept, Fits, Sold, Shop!Stored, Shop!Paid
  <2> QED BY <2>1, <2>2 DEF Kept
<1> QED
  BY <1>1, <1>2, <1>3, <1>4, <1>5, <1>6, <1>7, <1>8, <1>9, <1>10, <1>11, <1>12 DEF Shop!Next

LEMMA KeptInvariant == ASSUME Catalogue PROVE Shop!Spec => []Kept
  BY KeptInit, KeptStep, PTL DEF Shop!Spec

\* Plans, checkouts and the requests of admins keep their types (plans, payments).
THEOREM CatalogueTyped == ASSUME Catalogue PROVE Shop!Spec => []Shop!TypeOK
<1>1. Kept => Shop!TypeOK
  BY DEF Kept, Listed, PlanRow, CheckoutRow, Transaction, Shop!TypeOK
<1> QED BY <1>1, KeptInvariant, PTL

\* A receipt keeps its price: the plan of a stored payment keeps the terms it was sold on,
\* unless an edit overtook the checkout; and no plan has two successors (PlanService.update).
THEOREM HistoryIsKept == ASSUME Catalogue PROVE Shop!Spec => []Shop!HistoryKept
<1>1. Kept => Shop!HistoryKept
  BY DEF Kept, Listed, Sold, Succession, Shop!HistoryKept
<1> QED BY <1>1, KeptInvariant, PTL

LEMMA Counted == \A S : Shop!Cardinality(S) = Cardinality(S)
  BY DEF Shop!Cardinality, Cardinality

\* Of several plans one is left without this one.
LEMMA Several == ASSUME NEW S, NEW p, Shop!Cardinality(S) > 1 PROVE S \ {p} # {}
<1>1. Cardinality({p}) = 1 /\ Cardinality({}) = 0
  BY FS_Singleton, FS_EmptySet
<1> QED BY <1>1, Counted

LEMMA AtMostOne == ASSUME NEW S, \A x, y \in S : x = y PROVE Shop!Cardinality(S) <= 1
<1>1. CASE S = {}
  BY <1>1, Counted, FS_EmptySet
<1>2. ASSUME NEW x \in S PROVE Shop!Cardinality(S) <= 1
  <2>1. S = {x}
    OBVIOUS
  <2>2. Cardinality({x}) = 1
    BY FS_Singleton
  <2> QED BY <2>1, <2>2, Counted
<1> QED BY <1>1, <1>2

LEMMA StaysOnSale ==
  ASSUME Catalogue, Kept, Kept', [Shop!Next]_(Shop!vars), Shop!OnSale # {}, active \cap archived = {}
  PROVE  Shop!OnSale' # {}
<1> USE DEF Shop!catalogue
<1>1. CASE UNCHANGED archived /\ active \subseteq active'
  BY <1>1 DEF Shop!OnSale
<1>2. ASSUME NEW w \in Worker, NEW q \in Plan, NEW wanted \in BOOLEAN, Shop!EditVersion(w, q, wanted)
      PROVE  Shop!OnSale' # {}
  <2>1. q \notin archived /\ q # txn[w].plan
    BY <1>2 DEF Shop!EditVersion, Kept, Listed, Fits, Shop!Stored
  <2>2. CASE txn[w].plan \in active
    BY <1>2, <2>1, <2>2 DEF Shop!EditVersion, Shop!OnSale
  <2>3. CASE txn[w].plan \notin active
    BY <1>2, <2>3 DEF Shop!EditVersion, Shop!OnSale
  <2> QED BY <2>2, <2>3
<1>3. ASSUME NEW w \in Worker, Shop!HideCommit(w) PROVE Shop!OnSale' # {}
  <2>1. active \ {txn[w].plan} # {}
    BY <1>3, Several DEF Shop!HideCommit, Shop!OthersActive
  <2> QED BY <1>3, <2>1 DEF Shop!HideCommit, Shop!OnSale
<1>4. ASSUME NEW w \in Worker, NEW new \in Price, NEW on \in BOOLEAN, NEW wanted \in BOOLEAN,
             Shop!CreateCommit(w, new, on, wanted)
      PROVE  Shop!OnSale' # {}
  BY <1>1, <1>4 DEF Shop!CreateCommit
<1>5. ASSUME NEW w \in Worker,
             \/ \E p \in Plan : Shop!CreateOpen(w, p) \/ Shop!HideOpen(w, p) \/ Shop!ShowOpen(w, p)
             \/ \E p \in Plan, new \in Price : Shop!EditOpen(w, p, new)
             \/ \E wanted \in BOOLEAN : Shop!EditInPlace(w, wanted)
             \/ Shop!ShowCommit(w) \/ Shop!Abort(w)
      PROVE  Shop!OnSale' # {}
  BY <1>1, <1>5 DEF Shop!CreateOpen, Shop!HideOpen, Shop!ShowOpen, Shop!EditOpen, Shop!EditInPlace,
                    Shop!ShowCommit, Shop!Abort
<1>6. ASSUME \/ \E c \in Currency : Shop!SetPlatformCurrency(c)
             \/ \E i \in Purchase : Shop!Store(i) \/ \E p \in Plan : Shop!Buy(i, p)
             \/ UNCHANGED Shop!vars
      PROVE  Shop!OnSale' # {}
  BY <1>1, <1>6 DEF Shop!SetPlatformCurrency, Shop!Store, Shop!Buy, Shop!vars
<1> QED BY <1>2, <1>3, <1>4, <1>5, <1>6 DEF Shop!Next

\* The billing page always has something to sell, once it has, unless a race has put an
\* archived plan back on sale; one plan at most wears the badge, and only plans from before
\* a change of currency have another one (setActive, setPlatformCurrency).
THEOREM BillingPageKept == ASSUME Catalogue PROVE Shop!Spec => Shop!BillingPage
<1>1. Kept => popular \subseteq Shop!OnSale /\ Shop!Cardinality(popular) <= 1
  BY AtMostOne DEF Kept, Page
<1>2. Kept => \A p \in Shop!OnSale \ switched : row[p].currency = currency
  BY DEF Kept, Listed, Page, Shop!OnSale
<1>3. Kept /\ Kept' /\ [Shop!Next]_(Shop!vars) =>
        [Shop!OnSale # {} /\ active \cap archived = {} => Shop!OnSale' # {}]_(Shop!vars)
  BY StaysOnSale
<1> QED BY <1>1, <1>2, <1>3, KeptInvariant, PTL DEF Shop!Spec, Shop!BillingPage

-----------------------------------------------------------------------------
(* Subscriptions: what a charge buys.                                        *)

CONSTANTS Sub, NoSub, MaxChanges, MaxErrors, MaySuspend, MayBan
VARIABLES paypal, notices, saleNotices, changes, status, lastEvent, current, paid, companyBanned,
          saleOf, credited, flagged, handler, errors

Billing == INSTANCE Subscriptions WITH row <- status, worker <- handler, banned <- companyBanned

RemoteRow  == [status : Billing!Paypal, failing : BOOLEAN]
NoticeRow  == [sub : Sub, time : Nat]
HandlerRow ==
  {h \in [task : Billing!Task, step : Billing!Step, sub : Sub \cup {NoSub}, time : Nat,
          remote : RemoteRow, todo : SUBSET Sale] : h.step # "idle" => h.sub \in Sub}

Company ==
  /\ current \in Sub \cup {NoSub} /\ paid \in BOOLEAN /\ companyBanned \in BOOLEAN
  /\ errors \in Nat

Remotes == paypal \in [Sub -> RemoteRow] /\ notices \subseteq NoticeRow /\ changes \in Nat

Stored == status \in [Sub -> Billing!State \cup {"absent"}] /\ lastEvent \in [Sub -> Nat]

\* No sale is counted twice, and one that was charged is counted, flagged, or its notice is
\* still to come: no answer to PayPal drops it.
NothingDropped ==
  \A i \in Sale : saleOf[i] # NoSub => i \in saleNotices \/ credited[i] = 1 \/ i \in flagged

Sales ==
  /\ saleNotices \subseteq Sale /\ flagged \subseteq Sale
  /\ saleOf \in [Sale -> Sub \cup {NoSub}] /\ credited \in [Sale -> {0, 1}]
  /\ \A i \in saleNotices : saleOf[i] \in Sub
  /\ NothingDropped

Handlers == handler \in [Worker -> HandlerRow]

Billed == Company /\ Remotes /\ Stored /\ Sales /\ Handlers

LEMMA RestingTyped == Billing!Resting \in HandlerRow
<1>1. [status |-> "none", failing |-> FALSE] \in RemoteRow
  BY DEF RemoteRow, Billing!Paypal
<1> QED BY <1>1 DEF Billing!Resting, HandlerRow, Billing!Task, Billing!Step

\* What a handler goes on with has its type, however it goes on.
LEMMA HandlersMove ==
  ASSUME Handlers, NEW w \in Worker,
         \/ Billing!Rest(w)
         \/ \E task \in Billing!Task, step \in Billing!Step, s \in Sub : Billing!Start(w, task, step, s)
         \/ ~Billing!Idle(w) /\ \E step \in Billing!Step : Billing!Goto(w, step)
         \/ ~Billing!Idle(w) /\ \E todo \in SUBSET Sale : handler' = [handler EXCEPT ![w].todo = todo]
         \/ ~Billing!Idle(w) /\ \E todo \in SUBSET Sale, step \in Billing!Step :
              handler' = [handler EXCEPT ![w].step = step, ![w].todo = todo]
  PROVE  Handlers'
<1>1. PICK h \in HandlerRow : handler[w] = h
  BY DEF Handlers
<1>2. CASE Billing!Rest(w)
  BY <1>2, RestingTyped DEF Handlers, Billing!Rest
<1>3. CASE \E task \in Billing!Task, step \in Billing!Step, s \in Sub : Billing!Start(w, task, step, s)
  BY <1>3, RestingTyped DEF Handlers, Billing!Start, HandlerRow
<1>4. CASE ~Billing!Idle(w) /\ \E step \in Billing!Step : Billing!Goto(w, step)
  BY <1>1, <1>4 DEF Handlers, Billing!Goto, Billing!Idle, HandlerRow
<1>5. CASE ~Billing!Idle(w) /\ \E todo \in SUBSET Sale : handler' = [handler EXCEPT ![w].todo = todo]
  BY <1>1, <1>5 DEF Handlers, Billing!Idle, HandlerRow
<1>6. ASSUME ~Billing!Idle(w), NEW todo \in SUBSET Sale, NEW step \in Billing!Step,
             handler' = [handler EXCEPT ![w].step = step, ![w].todo = todo]
      PROVE  Handlers'
  <2>1. [h EXCEPT !.step = step, !.todo = todo] \in HandlerRow
    BY <1>1, <1>6 DEF Billing!Idle, HandlerRow
  <2>2. handler' = [handler EXCEPT ![w] = [h EXCEPT !.step = step, !.todo = todo]]
    BY <1>1, <1>6 DEF Handlers, HandlerRow
  <2> QED BY <2>1, <2>2 DEF Handlers
<1> QED BY <1>2, <1>3, <1>4, <1>5, <1>6

LEMMA ReadTyped ==
  ASSUME Handlers, Remotes, NEW w \in Worker, NEW s \in Sub, NEW time \in Nat,
         NEW task \in {"webhook", "confirm", "reconcile", "sweep"}, Billing!Read(w, task, s, time)
  PROVE  Handlers'
<1>1. paypal[s] \in RemoteRow
  BY DEF Remotes
<1>2. [Billing!Resting EXCEPT !.task = task, !.step = "apply", !.sub = s, !.time = time,
                              !.remote = paypal[s]] \in HandlerRow
  BY <1>1, RestingTyped DEF HandlerRow, Billing!Task, Billing!Step
<1> QED BY <1>2 DEF Handlers, Billing!Read

LEMMA ChangedTyped ==
  ASSUME Remotes, NEW s \in Sub, NEW waiting \in SUBSET NoticeRow,
         NEW st \in Billing!Paypal, NEW failing \in BOOLEAN, Billing!ChangedBeside(waiting, s, st, failing)
  PROVE  Remotes'
<1>1. [status |-> st, failing |-> failing] \in RemoteRow
  BY DEF RemoteRow
<1>2. changes + 1 \in Nat /\ [sub |-> s, time |-> changes + 1] \in NoticeRow
  BY DEF Remotes, NoticeRow
<1> QED BY <1>1, <1>2 DEF Remotes, Billing!ChangedBeside

LEMMA CancelTyped ==
  ASSUME Remotes, NEW s \in Sub, NEW waiting \in SUBSET NoticeRow,
         Billing!CancelAtPaypal(s, waiting)
  PROVE  Remotes'
<1>1. CASE Billing!ChangedBeside(waiting, s, "CANCELLED", FALSE)
  BY <1>1, ChangedTyped DEF Billing!Paypal
<1>2. CASE notices' = waiting /\ UNCHANGED <<paypal, changes>>
  BY <1>2 DEF Remotes
<1> QED BY <1>1, <1>2 DEF Billing!CancelAtPaypal

LEMMA BilledInit == ASSUME Billing!Init PROVE Billed
<1>1. [status |-> "none", failing |-> FALSE] \in RemoteRow
  BY DEF RemoteRow, Billing!Paypal
<1>2. Company /\ Remotes /\ Stored
  BY <1>1 DEF Billing!Init, Company, Remotes, Stored
<1>3. Sales
  BY DEF Billing!Init, Sales, NothingDropped
<1>4. Handlers
  BY RestingTyped DEF Billing!Init, Handlers
<1> QED BY <1>2, <1>3, <1>4 DEF Billed

LEMMA BilledPaypals ==
  ASSUME Billed, NEW s \in Sub,
         \/ Billing!Approve(s) \/ Billing!ChargeFails(s) \/ Billing!Suspend(s) \/ Billing!Reactivate(s)
         \/ Billing!CancelledByBuyer(s) \/ Billing!Charge(s)
  PROVE  Billed'
<1> USE DEF Billed
<1>1. PICK r \in RemoteRow : r = paypal[s]
  BY DEF Remotes
<1>2. CASE \E st \in Billing!Paypal, failing \in BOOLEAN : Billing!Changed(s, st, failing) /\ Billing!ByItself
  <2>1. Remotes'
    BY <1>2, ChangedTyped DEF Billing!Changed, Remotes
  <2>2. UNCHANGED <<status, lastEvent, current, paid, companyBanned, saleOf, saleNotices, credited, flagged, handler, errors>>
    BY <1>2 DEF Billing!ByItself, Billing!sales, Billing!rows, Billing!company
  <2> QED BY <2>1, <2>2 DEF Company, Stored, Sales, NothingDropped, Handlers
<1>3. CASE Billing!Charge(s)
  <2>1. PICK i \in Sale : /\ saleOf' = [saleOf EXCEPT ![i] = s] /\ saleNotices' = saleNotices \cup {i}
    BY <1>3 DEF Billing!Charge
  <2>2. /\ paypal' = [paypal EXCEPT ![s].failing = FALSE]
        /\ UNCHANGED <<notices, changes, credited, flagged, status, lastEvent, current, paid, companyBanned, handler, errors>>
    BY <1>3 DEF Billing!Charge, Billing!rows, Billing!company
  <2>3. Sales'
    BY <2>1, <2>2 DEF Sales, NothingDropped
  <2>4. Remotes'
    BY <1>1, <2>2 DEF Remotes, RemoteRow
  <2> QED BY <2>2, <2>3, <2>4 DEF Company, Stored, Handlers
<1>4. r.failing \in BOOLEAN
  BY DEF RemoteRow
<1> QED
  BY <1>1, <1>2, <1>3, <1>4 DEF Billing!Approve, Billing!ChargeFails, Billing!Suspend, Billing!Reactivate,
     Billing!CancelledByBuyer, Billing!Paypal

\* The handlers' own steps leave the sales alone, but for those of creditCycle.
LEMMA BilledStarts ==
  ASSUME Billed, NEW w \in Worker,
         \/ Billing!Subscribe(w) \/ Billing!Cancel(w) \/ Billing!Ban(w)
         \/ \E n \in notices : Billing!Webhook(w, n)
         \/ \E s \in Sub : Billing!Confirm(w, s) \/ Billing!Reconcile(w, s) \/ Billing!Sweep(w, s)
  PROVE  Billed'
<1> USE DEF Billed
<1>1. UNCHANGED <<saleOf, saleNotices, credited, flagged, errors, lastEvent>>
  BY DEF Billing!Subscribe, Billing!Cancel, Billing!Ban, Billing!Webhook, Billing!Confirm, Billing!Reconcile,
         Billing!Sweep, Billing!sales, Billing!rows
<1>2. Sales'
  BY <1>1 DEF Sales, NothingDropped
<1>3. CASE Billing!Subscribe(w)
  <2>1. PICK s \in Sub : /\ status' = [Billing!RetireEnded(status) EXCEPT ![s] = "pending"]
                         /\ Billing!Start(w, "subscribe", "create", s)
    BY <1>3 DEF Billing!Subscribe
  <2>2. Stored'
    BY <1>1, <2>1 DEF Stored, Billing!RetireEnded, Billing!State
  <2>3. Handlers'
    BY <2>1, HandlersMove DEF Billing!Task, Billing!Step
  <2>4. UNCHANGED <<paypal, notices, changes, current, paid, companyBanned>>
    BY <1>3 DEF Billing!Subscribe, Billing!remotes, Billing!company
  <2> QED BY <1>1, <1>2, <2>2, <2>3, <2>4 DEF Company, Remotes
<1>4. CASE Billing!Cancel(w)
  <2>1. current \in Sub
    BY <1>4 DEF Billing!Cancel, Company
  <2>2. Remotes'
    BY <1>4, <2>1, CancelTyped DEF Billing!Cancel, Remotes
  <2>3. Handlers'
    BY <1>4, <2>1, HandlersMove DEF Billing!Cancel, Billing!Task, Billing!Step
  <2>4. UNCHANGED <<status, current, paid, companyBanned>>
    BY <1>4 DEF Billing!Cancel, Billing!rows, Billing!company
  <2> QED BY <1>1, <1>2, <2>2, <2>3, <2>4 DEF Company, Stored
<1>5. CASE Billing!Ban(w)
  <2>1. UNCHANGED <<status, current, paid>>
    BY <1>5 DEF Billing!Ban, Billing!rows
  <2>2. CASE current # NoSub /\ status[current] \in Billing!Live
    <3>1. current \in Sub
      BY <2>2 DEF Company
    <3>2. Remotes'
      BY <1>5, <2>2, <3>1, CancelTyped DEF Billing!Ban, Remotes
    <3>3. Handlers'
      BY <1>5, <2>2, <3>1, HandlersMove DEF Billing!Ban, Billing!Task, Billing!Step
    <3>4. UNCHANGED companyBanned
      BY <1>5, <2>2 DEF Billing!Ban
    <3> QED BY <1>1, <1>2, <2>1, <3>2, <3>3, <3>4 DEF Company, Stored
  <2>3. CASE ~(current # NoSub /\ status[current] \in Billing!Live)
    <3>1. companyBanned' = TRUE /\ UNCHANGED <<paypal, notices, changes, handler>>
      BY <1>5, <2>3 DEF Billing!Ban, Billing!remotes
    <3> QED BY <1>1, <1>2, <2>1, <3>1 DEF Company, Stored, Remotes, Handlers
  <2> QED BY <2>2, <2>3
<1>6. ASSUME \/ \E n \in notices : Billing!Webhook(w, n)
             \/ \E s \in Sub : Billing!Confirm(w, s) \/ Billing!Reconcile(w, s) \/ Billing!Sweep(w, s)
      PROVE  Billed'
  <2>1. UNCHANGED <<paypal, notices, changes, status, current, paid, companyBanned>>
    BY <1>6 DEF Billing!Webhook, Billing!Confirm, Billing!Reconcile, Billing!Sweep, Billing!remotes,
                Billing!rows, Billing!company
  <2>2. \E s \in Sub, time \in Nat, task \in {"webhook", "confirm", "reconcile", "sweep"} :
          Billing!Read(w, task, s, time)
    BY <1>6 DEF Billing!Webhook, Billing!Confirm, Billing!Reconcile, Billing!Sweep, Remotes, NoticeRow
  <2>3. Handlers'
    BY <2>2, ReadTyped
  <2> QED BY <1>1, <1>2, <2>1, <2>3 DEF Company, Stored, Remotes
<1> QED BY <1>3, <1>4, <1>5, <1>6

\* creditCycle counts a sale that was not counted, and drops none.
LEMMA CreditCounts ==
  ASSUME Stored, Sales, Company, NEW i \in Sale, NEW s \in Sub \cup {NoSub}, Billing!CreditCycle(i, s),
         UNCHANGED <<saleOf, errors>>,
         saleNotices' \in {saleNotices, saleNotices \ {i}}
  PROVE  Stored' /\ Sales' /\ Company'
<1>1. credited' \in [Sale -> {0, 1}] /\ credited'[i] = 1 /\ \A j \in Sale \ {i} : credited'[j] = credited[j]
  BY DEF Billing!CreditCycle, Billing!InsertThenExtend, Sales
<1>2. UNCHANGED flagged
  BY DEF Billing!CreditCycle
<1>3. Sales'
  BY <1>1, <1>2 DEF Sales, NothingDropped
<1>4. Stored' /\ Company'
  BY DEF Billing!CreditCycle, Stored, Company, Billing!State
<1> QED BY <1>3, <1>4

LEMMA BilledSales ==
  ASSUME Billed, NEW w \in Worker, NEW i \in Sale,
         \/ Billing!CreditSale(w, i) \/ Billing!FlagSale(w, i)
         \/ Billing!CreditListed(w, i) \/ Billing!FlagListed(w, i)
  PROVE  Billed'
<1> USE DEF Billed
<1>1. Remotes'
  BY DEF Billing!CreditSale, Billing!FlagSale, Billing!CreditListed, Billing!FlagListed, Billing!remotes, Remotes
<1>2. CASE Billing!CreditSale(w, i)
  <2>1. saleOf[i] \in Sub /\ Billing!CreditCycle(i, saleOf[i]) /\ saleNotices' = saleNotices \ {i}
        /\ UNCHANGED <<saleOf, handler, errors>>
    BY <1>2 DEF Billing!CreditSale, Sales
  <2> QED BY <1>1, <2>1, CreditCounts DEF Handlers
<1>3. CASE Billing!FlagSale(w, i)
  <2>1. /\ saleOf[i] \in Sub /\ flagged' = flagged \cup {i} /\ saleNotices' = saleNotices \ {i}
        /\ Billing!Start(w, "sale", "dupsale", saleOf[i])
        /\ UNCHANGED <<saleOf, credited, status, lastEvent, current, paid, companyBanned, errors>>
    BY <1>3 DEF Billing!FlagSale, Billing!rows, Billing!company, Sales
  <2>2. Handlers'
    BY <2>1, HandlersMove DEF Billing!Task, Billing!Step
  <2>3. Sales'
    BY <2>1 DEF Sales, NothingDropped
  <2> QED BY <1>1, <2>1, <2>2, <2>3 DEF Company, Stored
<1>4. CASE Billing!CreditListed(w, i)
  <2>1. ~Billing!Idle(w) /\ handler[w].todo \in SUBSET Sale
    BY <1>4 DEF Billing!CreditListed, Billing!Idle, Handlers, HandlerRow
  <2>2. UNCHANGED <<saleOf, saleNotices, errors>>
    BY <1>4 DEF Billing!CreditListed
  <2>3. Billing!Rest(w) \/ handler' = [handler EXCEPT ![w].todo = handler[w].todo \ {i}]
    BY <1>4 DEF Billing!CreditListed
  <2>4. Handlers'
    BY <2>1, <2>3, HandlersMove
  <2>5. CASE UNCHANGED <<credited, flagged, Billing!rows, Billing!company>>
    BY <1>1, <2>2, <2>4, <2>5 DEF Billing!rows, Billing!company, Sales, NothingDropped, Stored, Company
  <2>6. CASE Billing!CreditCycle(i, handler[w].sub)
    <3>1. PICK s \in Sub \cup {NoSub} : s = handler[w].sub
      BY DEF Handlers, HandlerRow
    <3> QED BY <1>1, <2>2, <2>4, <2>6, <3>1, CreditCounts
  <2> QED BY <1>4, <2>5, <2>6 DEF Billing!CreditListed
<1>5. CASE Billing!FlagListed(w, i)
  <2>1. ~Billing!Idle(w) /\ handler[w].todo \in SUBSET Sale
    BY <1>5 DEF Billing!FlagListed, Billing!Idle, Handlers, HandlerRow
  <2>2. /\ flagged' = flagged \cup {i}
        /\ handler' = [handler EXCEPT ![w].step = "dupsale", ![w].todo = handler[w].todo \ {i}]
        /\ UNCHANGED <<saleOf, saleNotices, credited, status, lastEvent, current, paid, companyBanned, errors>>
    BY <1>5 DEF Billing!FlagListed, Billing!rows, Billing!company
  <2>3. Handlers'
    BY <2>1, <2>2, HandlersMove DEF Billing!Step
  <2>4. Sales'
    BY <2>2 DEF Sales, NothingDropped
  <2> QED BY <1>1, <2>2, <2>3, <2>4 DEF Company, Stored
<1> QED BY <1>2, <1>3, <1>4, <1>5

LEMMA BilledHandlers ==
  ASSUME Billed, NEW w \in Worker,
         \/ Billing!Create(w) \/ Billing!CreateFails(w)
         \/ Billing!ExpireAbandoned(w) \/ Billing!IgnoreOldEvent(w) \/ Billing!ApplyRemoteState(w)
         \/ Billing!ApplyRefused(w) \/ Billing!FindDuplicate(w) \/ Billing!CancelDuplicate(w)
         \/ Billing!CancelDuplicateRefused(w) \/ Billing!CancelAfterSale(w) \/ Billing!CancelAfterSaleFails(w)
         \/ Billing!WriteCancel(w) \/ Billing!WriteBan(w) \/ Billing!Dies(w)
  PROVE  Billed'
<1> USE DEF Billed
<1>0. PICK h \in HandlerRow : h = handler[w]
  BY DEF Handlers
<1>1. h.step # "idle" => h.sub \in Sub
  BY DEF HandlerRow
<1>2. UNCHANGED <<saleOf, saleNotices, credited, flagged>>
  BY DEF Billing!Create, Billing!CreateFails, Billing!ExpireAbandoned, Billing!IgnoreOldEvent,
         Billing!ApplyRemoteState, Billing!ApplyRefused, Billing!FindDuplicate, Billing!CancelDuplicate,
         Billing!CancelDuplicateRefused, Billing!CancelAfterSale, Billing!CancelAfterSaleFails,
         Billing!WriteCancel, Billing!WriteBan, Billing!Dies, Billing!sales
<1>3. Sales'
  BY <1>2 DEF Sales, NothingDropped
<1>4. handler[w].step # "idle" /\ ~Billing!Idle(w)
  BY DEF Billing!Create, Billing!CreateFails, Billing!ExpireAbandoned, Billing!IgnoreOldEvent,
         Billing!ApplyRemoteState, Billing!ApplyRefused, Billing!FindDuplicate, Billing!CancelDuplicate,
         Billing!CancelDuplicateRefused, Billing!CancelAfterSale, Billing!CancelAfterSaleFails,
         Billing!WriteCancel, Billing!WriteBan, Billing!Dies, Billing!Applying, Billing!Idle
<1>5. PICK s \in Sub : s = handler[w].sub
  BY <1>0, <1>1, <1>4
<1>6. Handlers'
  <2>1. ASSUME Billing!Continue(w) PROVE Handlers'
    <3>1. Billing!Listed(handler[w].sub) \in SUBSET Sale
      BY DEF Billing!Listed
    <3> QED BY <1>4, <2>1, <3>1, HandlersMove DEF Billing!Continue, Billing!Step
  <2>2. ASSUME Billing!GoOn(w) PROVE Handlers'
    BY <1>4, <2>2, HandlersMove DEF Billing!GoOn, Billing!Step
  <2>3. \/ Billing!Continue(w) \/ Billing!GoOn(w) \/ Billing!Rest(w) \/ Billing!Goto(w, "duplicate")
    BY DEF Billing!Create, Billing!CreateFails, Billing!ExpireAbandoned, Billing!IgnoreOldEvent,
           Billing!ApplyRemoteState, Billing!ApplyRefused, Billing!FindDuplicate, Billing!CancelDuplicate,
           Billing!CancelDuplicateRefused, Billing!CancelAfterSale, Billing!CancelAfterSaleFails,
           Billing!WriteCancel, Billing!WriteBan, Billing!Dies, Billing!Applied
  <2> QED BY <1>4, <2>1, <2>2, <2>3, HandlersMove DEF Billing!Step
<1>7. Remotes'
  <2>1. notices \ {Billing!OnNotice(w)} \in SUBSET NoticeRow /\ notices \in SUBSET NoticeRow
    BY DEF Remotes
  <2>2. CASE Billing!Create(w)
    <3>1. paypal' = [paypal EXCEPT ![s].status = "APPROVAL_PENDING"] /\ UNCHANGED <<notices, changes>>
      BY <1>5, <2>2 DEF Billing!Create
    <3>2. PICK r \in RemoteRow : r = paypal[s]
      BY DEF Remotes
    <3> QED BY <3>1, <3>2 DEF Remotes, RemoteRow, Billing!Paypal
  <2>3. CASE Billing!CancelDuplicate(w)
    BY <1>5, <2>1, <2>3, CancelTyped DEF Billing!CancelDuplicate
  <2>4. CASE Billing!CancelAfterSale(w)
    BY <1>5, <2>1, <2>4, CancelTyped DEF Billing!CancelAfterSale
  <2>5. CASE Billing!IgnoreOldEvent(w) \/ Billing!ApplyRemoteState(w)
    BY <2>1, <2>5 DEF Billing!IgnoreOldEvent, Billing!ApplyRemoteState, Billing!Applied, Remotes
  <2>6. CASE \/ Billing!CreateFails(w) \/ Billing!ExpireAbandoned(w) \/ Billing!ApplyRefused(w)
             \/ Billing!FindDuplicate(w) \/ Billing!CancelDuplicateRefused(w)
             \/ Billing!CancelAfterSaleFails(w) \/ Billing!WriteCancel(w) \/ Billing!WriteBan(w)
             \/ Billing!Dies(w)
    BY <2>6 DEF Billing!CreateFails, Billing!ExpireAbandoned, Billing!ApplyRefused, Billing!FindDuplicate,
                Billing!CancelDuplicateRefused, Billing!CancelAfterSaleFails, Billing!WriteCancel,
                Billing!WriteBan, Billing!Dies, Billing!remotes, Remotes
  <2> QED BY <2>2, <2>3, <2>4, <2>5, <2>6
<1>8. Stored' /\ Company'
  <2>1. CASE \/ Billing!Create(w) \/ Billing!IgnoreOldEvent(w) \/ Billing!ApplyRefused(w)
             \/ Billing!FindDuplicate(w) \/ Billing!CancelDuplicate(w) \/ Billing!CancelDuplicateRefused(w)
             \/ Billing!CancelAfterSale(w) \/ Billing!CancelAfterSaleFails(w) \/ Billing!Dies(w)
    BY <2>1 DEF Billing!Create, Billing!IgnoreOldEvent, Billing!ApplyRefused, Billing!FindDuplicate,
                Billing!CancelDuplicate, Billing!CancelDuplicateRefused, Billing!CancelAfterSale,
                Billing!CancelAfterSaleFails, Billing!Dies, Billing!Error, Billing!rows, Billing!company,
                Stored, Company
  <2>2. CASE Billing!CreateFails(w) \/ Billing!ExpireAbandoned(w) \/ Billing!WriteCancel(w)
    <3>1. /\ UNCHANGED <<lastEvent, current, paid, companyBanned>> /\ errors' \in {errors, errors + 1}
          /\ \E st \in Billing!State \cup {"absent"} : status' = status \/ status' = [status EXCEPT ![s] = st]
      <4>1. CASE Billing!CreateFails(w)
        BY <1>5, <4>1 DEF Billing!CreateFails, Billing!Error, Billing!company
      <4>2. CASE Billing!ExpireAbandoned(w)
        BY <1>5, <4>2 DEF Billing!ExpireAbandoned, Billing!company, Billing!State, Stored
      <4>3. CASE Billing!WriteCancel(w)
        BY <1>5, <4>3 DEF Billing!WriteCancel, Billing!company, Billing!State
      <4> QED BY <2>2, <4>1, <4>2, <4>3
    <3> QED BY <3>1 DEF Stored, Company
  <2>3. CASE Billing!WriteBan(w)
    BY <2>3 DEF Billing!WriteBan, Stored, Company, Billing!State
  <2>4. CASE Billing!ApplyRemoteState(w)
    <3>1. Billing!NewStatus(s, handler[w].remote) \in Billing!State
      BY DEF Billing!NewStatus, Billing!Mapped, Billing!State
    <3>2. handler[w].time \in Nat
      BY <1>0 DEF HandlerRow
    <3>3. current' \in {current, s} /\ UNCHANGED <<paid, companyBanned, errors>>
      BY <1>5, <2>4 DEF Billing!ApplyRemoteState, Billing!SetCurrent
    <3>4. /\ status' = [status EXCEPT ![s] = Billing!NewStatus(s, handler[w].remote)]
          /\ lastEvent' = [lastEvent EXCEPT ![s] = IF handler[w].time # 0 THEN handler[w].time ELSE @]
      BY <1>5, <2>4 DEF Billing!ApplyRemoteState
    <3>5. Stored'
      BY <3>1, <3>2, <3>4 DEF Stored
    <3> QED BY <3>3, <3>5 DEF Company
  <2> QED BY <2>1, <2>2, <2>3, <2>4
<1> QED BY <1>3, <1>6, <1>7, <1>8

LEMMA BilledStep == Billed /\ [Billing!Next]_(Billing!vars) => Billed'
<1> SUFFICES ASSUME Billed, [Billing!Next]_(Billing!vars) PROVE Billed'
  OBVIOUS
<1>1. CASE Billing!Hourly
  <2>1. status' = Billing!RetireEnded(status)
        /\ UNCHANGED <<paypal, notices, changes, saleOf, saleNotices, credited, flagged, lastEvent, current, paid,
                       companyBanned, handler, errors>>
    BY <1>1 DEF Billing!Hourly, Billing!RetireEndedCancellations, Billing!remotes, Billing!sales, Billing!company
  <2>2. status' \in [Sub -> Billing!State \cup {"absent"}]
    BY <2>1 DEF Billed, Stored, Billing!RetireEnded, Billing!State
  <2> QED BY <2>1, <2>2 DEF Billed, Company, Remotes, Stored, Sales, NothingDropped, Handlers
<1>2. CASE Billing!PaidTimeEnds
  BY <1>2 DEF Billing!PaidTimeEnds, Billing!remotes, Billing!sales, Billing!rows, Billed, Company, Remotes, Stored,
              Sales, NothingDropped, Handlers
<1>3. CASE UNCHANGED Billing!vars
  BY <1>3 DEF Billing!vars, Billing!remotes, Billing!sales, Billing!rows, Billing!company, Billed, Company, Remotes,
              Stored, Sales, NothingDropped, Handlers
<1>4. CASE Billing!Paypals
  BY <1>4, BilledPaypals DEF Billing!Paypals
<1>5. ASSUME NEW w \in Worker, Billing!Handle(w) \/ Billing!Fail(w) PROVE Billed'
  BY <1>5, BilledHandlers, BilledSales DEF Billing!Handle, Billing!Fail
<1> QED BY <1>1, <1>2, <1>3, <1>4, <1>5, BilledStarts, BilledSales DEF Billing!Next

LEMMA BilledInvariant == Billing!Spec => []Billed
  BY BilledInit, BilledStep, PTL DEF Billing!Spec

LEMMA BilledIsTyped == Billed => Billing!TypeOK
  BY DEF Billed, Company, Remotes, Stored, Sales, Handlers, HandlerRow, RemoteRow, NoticeRow, Billing!TypeOK

LEMMA BilledCountsOnce == Billed => Billing!CreditedOnce
  BY DEF Billed, Sales, Billing!CreditedOnce

\* Rows, PayPal's side, the sales and the handlers keep their types (subscriptions, payments).
THEOREM BillingTyped == Billing!Spec => []Billing!TypeOK
  BY BilledIsTyped, BilledInvariant, PTL

\* A sale extends the expiry once, whoever reports it and however often (creditCycle).
THEOREM SaleCountsOnce == Billing!Spec => []Billing!CreditedOnce
  BY BilledCountsOnce, BilledInvariant, PTL

\* PayPal is told that a charge is dealt with only when it is: one whose notice was
\* acknowledged has extended the expiry or is flagged for a refund, whatever handlers die,
\* duplicates are found or cancellations fail (handleSaleCompleted).
THEOREM NoChargeDropped ==
  Billing!Spec => [](\A i \in Sale : saleOf[i] # NoSub /\ i \notin saleNotices => credited[i] = 1 \/ i \in flagged)
<1>1. Billed => \A i \in Sale : saleOf[i] # NoSub /\ i \notin saleNotices => credited[i] = 1 \/ i \in flagged
  BY DEF Billed, Sales, NothingDropped
<1> QED BY <1>1, BilledInvariant, PTL

-----------------------------------------------------------------------------
(* Subscriptions: what is cancelled, and what is billed beside it.           *)

Gone == {"pending_cancel", "cancelled"}

\* A subscription is made at PayPal by the request that inserted its row, and by no other.
Creating ==
  /\ \A s \in Sub : status[s] = "absent" => paypal[s].status = "none"
  /\ \A n \in notices : paypal[n.sub].status # "none"
  /\ \A w \in Worker :
       /\ handler[w].step = "create" <=> handler[w].task = "subscribe"
       /\ handler[w].step = "create" =>
            /\ status[handler[w].sub] = "pending" /\ paypal[handler[w].sub].status = "none"
            /\ \A v \in Worker \ {w} : handler[v].sub # handler[w].sub

\* A row is marked cancelled, or a handler about to mark it, when PayPal has cancelled.
Ceased ==
  /\ \A s \in Sub : status[s] \in Gone => paypal[s].status = "CANCELLED"
  /\ \A w \in Worker :
       \/ handler[w].step = "write"
       \/ handler[w].step = "apply" /\ handler[w].remote.status = "CANCELLED"
       => paypal[handler[w].sub].status = "CANCELLED"

OneLive == \A s, t \in Sub : status[s] \in Billing!Live /\ status[t] \in Billing!Live => s = t

\* What is charged, and what a reconcile works on, was made at PayPal.
Made(h) == h.task = "reconcile" \/ h.step = "sales" \/ h.todo # {}
Known ==
  /\ \A i \in Sale : saleOf[i] # NoSub => paypal[saleOf[i]].status # "none"
  /\ \A w \in Worker : Made(handler[w]) => /\ handler[w].sub \in Sub
                                          /\ paypal[handler[w].sub].status # "none"

Cancelling == Billed /\ Creating /\ Ceased /\ Known

\* What PayPal has cancelled stays so, and what it has does not go away.
Final ==
  \A s \in Sub : /\ paypal[s].status = "CANCELLED" => paypal'[s].status = "CANCELLED"
                 /\ paypal[s].status # "none" => paypal'[s].status # "none"

LEMMA ChangeIsFinal ==
  ASSUME Remotes, NEW s \in Sub, NEW st \in {"ACTIVE", "SUSPENDED", "CANCELLED"}, NEW failing \in BOOLEAN,
         NEW waiting \in SUBSET notices, Billing!ChangedBeside(waiting, s, st, failing),
         paypal[s].status \in {"APPROVAL_PENDING", "ACTIVE", "SUSPENDED"},
         \A n \in notices : paypal[n.sub].status # "none"
  PROVE  /\ Final /\ paypal'[s].status = st
         /\ \A n \in notices' : paypal'[n.sub].status # "none"
         /\ \A t \in Sub \ {s} : paypal'[t] = paypal[t]
<1>1. /\ paypal' = [paypal EXCEPT ![s] = [status |-> st, failing |-> failing]]
      /\ notices' = waiting \cup {[sub |-> s, time |-> changes + 1]}
  BY DEF Billing!ChangedBeside
<1>2. \A n \in notices : n.sub \in Sub
  BY DEF Remotes, NoticeRow
<1>3. /\ paypal'[s].status = st /\ \A t \in Sub \ {s} : paypal'[t] = paypal[t]
  BY <1>1 DEF Remotes
<1>4. Final
  BY <1>3 DEF Final
<1>5. \A n \in notices' : n.sub \in Sub /\ (n \in notices \/ n.sub = s)
  BY <1>1, <1>2
<1> QED BY <1>3, <1>4, <1>5, <1>2 DEF Final

LEMMA CancelIsFinal ==
  ASSUME Remotes, NEW s \in Sub, NEW waiting \in SUBSET notices, Billing!CancelAtPaypal(s, waiting),
         \A n \in notices : paypal[n.sub].status # "none"
  PROVE  /\ Final /\ paypal'[s].status = "CANCELLED" /\ paypal[s].status # "none"
         /\ \A n \in notices' : paypal'[n.sub].status # "none"
         /\ \A t \in Sub \ {s} : paypal'[t] = paypal[t]
<1>1. CASE paypal[s].status \in {"ACTIVE", "SUSPENDED"} /\ Billing!ChangedBeside(waiting, s, "CANCELLED", FALSE)
  BY <1>1, ChangeIsFinal
<1>2. CASE paypal[s].status = "CANCELLED" /\ notices' = waiting /\ UNCHANGED <<paypal, changes>>
  BY <1>2 DEF Final
<1> QED BY <1>1, <1>2 DEF Billing!CancelAtPaypal

\* A step that leaves rows and handlers alone, or moves one handler on to a step in which it
\* neither makes nor cancels a subscription.
LEMMA Rested ==
  ASSUME NoSub \notin Sub, Cancelling, Final, UNCHANGED status, NEW w \in Worker,
         \A v \in Worker \ {w} : handler'[v] = handler[v],
         handler'[w] = handler[w] \/ /\ handler'[w].step \notin {"create", "apply", "write"}
                                     /\ handler'[w].task # "subscribe"
                                     /\ handler'[w].sub \in {handler[w].sub, NoSub},
         \A n \in notices' : paypal'[n.sub].status # "none",
         \A s \in Sub : paypal[s].status = "none" => paypal'[s].status = "none"
  PROVE  Creating' /\ Ceased'
<1>1. \A v \in Worker : handler[v].step # "idle" => handler[v].sub \in Sub
  BY DEF Cancelling, Billed, Handlers, HandlerRow
<1>2. Creating'
  <2>1. ASSUME NEW u \in Worker, handler'[u].step = "create"
        PROVE  /\ status'[handler'[u].sub] = "pending" /\ paypal'[handler'[u].sub].status = "none"
               /\ \A v \in Worker \ {u} : handler'[v].sub # handler'[u].sub
    <3>1. handler'[u] = handler[u] /\ handler[u].sub \in Sub
      BY <1>1, <2>1
    <3>2. handler[u].sub # NoSub
      BY <3>1
    <3>3. \A v \in Worker \ {u} : handler'[v].sub \in {handler[v].sub, NoSub}
      OBVIOUS
    <3> QED BY <2>1, <3>1, <3>2, <3>3 DEF Cancelling, Creating
  <2>2. \A u \in Worker : handler'[u].step = "create" <=> handler'[u].task = "subscribe"
    BY DEF Cancelling, Creating
  <2>3. \A s \in Sub : status'[s] = "absent" => paypal'[s].status = "none"
    BY DEF Cancelling, Creating
  <2> QED BY <2>1, <2>2, <2>3 DEF Creating
<1>3. Ceased'
  BY <1>1 DEF Cancelling, Ceased, Final
<1> QED BY <1>2, <1>3

LEMMA CeasedPaypals ==
  ASSUME NoSub \notin Sub, Cancelling, NEW s \in Sub,
         \/ Billing!Approve(s) \/ Billing!ChargeFails(s) \/ Billing!Suspend(s) \/ Billing!Reactivate(s)
         \/ Billing!CancelledByBuyer(s) \/ Billing!Charge(s)
  PROVE  Creating' /\ Ceased' /\ Final /\ UNCHANGED status
<1>0. Remotes /\ Handlers
  BY DEF Cancelling, Billed
<1>1. UNCHANGED <<status, handler>>
  BY DEF Billing!Approve, Billing!ChargeFails, Billing!Suspend, Billing!Reactivate, Billing!CancelledByBuyer,
         Billing!Charge, Billing!ByItself, Billing!rows
<1>2. PICK r \in RemoteRow : r = paypal[s]
  BY <1>0 DEF Remotes
<1>3. /\ Final /\ \A n \in notices' : paypal'[n.sub].status # "none"
      /\ \A t \in Sub : paypal[t].status = "none" => paypal'[t].status = "none"
  <2>1. CASE Billing!Charge(s)
    <3>1. /\ paypal' = [paypal EXCEPT ![s].failing = FALSE] /\ UNCHANGED notices
      BY <2>1 DEF Billing!Charge
    <3>2. \A t \in Sub : paypal'[t].status = paypal[t].status
      BY <1>0, <1>2, <3>1 DEF Remotes, RemoteRow
    <3>3. \A n \in notices : n.sub \in Sub
      BY <1>0 DEF Remotes, NoticeRow
    <3> QED BY <3>1, <3>2, <3>3 DEF Final, Cancelling, Creating
  <2>2. CASE \E st \in {"ACTIVE", "SUSPENDED", "CANCELLED"}, failing \in BOOLEAN :
               /\ Billing!ChangedBeside(notices, s, st, failing)
               /\ paypal[s].status \in {"APPROVAL_PENDING", "ACTIVE", "SUSPENDED"}
    BY <1>0, <2>2, ChangeIsFinal DEF Cancelling, Creating
  <2>3. r.failing \in BOOLEAN
    BY DEF RemoteRow
  <2>4. CASE Billing!Approve(s)
    BY <2>2, <2>4 DEF Billing!Approve, Billing!Changed
  <2>5. CASE Billing!ChargeFails(s)
    <3>1. paypal[s].status = "ACTIVE"
      BY <2>5 DEF Billing!ChargeFails
    <3> QED BY <2>2, <2>5, <3>1 DEF Billing!ChargeFails, Billing!Changed
  <2>6. CASE Billing!Suspend(s)
    BY <1>2, <2>2, <2>3, <2>6 DEF Billing!Suspend, Billing!Changed
  <2>7. CASE Billing!Reactivate(s)
    BY <2>2, <2>7 DEF Billing!Reactivate, Billing!Changed
  <2>8. CASE Billing!CancelledByBuyer(s)
    BY <2>2, <2>8 DEF Billing!CancelledByBuyer, Billing!Changed
  <2> QED BY <2>1, <2>4, <2>5, <2>6, <2>7, <2>8
<1>4. \A v \in Worker : handler[v].step # "idle" => handler[v].sub \in Sub
  BY <1>0 DEF Handlers, HandlerRow
<1>5. Creating'
  BY <1>1, <1>3, <1>4 DEF Creating, Cancelling
<1>6. Ceased'
  BY <1>1, <1>3, <1>4 DEF Ceased, Cancelling, Final
<1> QED BY <1>1, <1>3, <1>5, <1>6

LEMMA CeasedInit == ASSUME Billing!Init PROVE Creating /\ Ceased /\ Known /\ OneLive
  BY DEF Billing!Init, Creating, Ceased, Known, Made, OneLive, Billing!Resting, Billing!Live, Gone

\* Requests, webhooks and jobs read before they write.
LEMMA CeasedStarts ==
  ASSUME NoSub \notin Sub, Cancelling, NEW w \in Worker,
         \/ Billing!Subscribe(w) \/ Billing!Cancel(w) \/ Billing!Ban(w)
         \/ \E n \in notices : Billing!Webhook(w, n)
         \/ \E s \in Sub : Billing!Confirm(w, s) \/ Billing!Reconcile(w, s) \/ Billing!Sweep(w, s)
  PROVE  Creating' /\ Ceased' /\ Final
<1>0. Remotes /\ Handlers /\ Stored /\ Company
  BY DEF Cancelling, Billed
<1>4. \A v \in Worker : handler[v].step # "idle" => handler[v].sub \in Sub
  BY <1>0 DEF Handlers, HandlerRow
<1>5. \A n \in notices : n.sub \in Sub
  BY <1>0 DEF Remotes, NoticeRow
<1>1. CASE Billing!Subscribe(w)
  <2>1. PICK s \in Sub : /\ Billing!Free(s) /\ status' = [Billing!RetireEnded(status) EXCEPT ![s] = "pending"]
                         /\ Billing!Start(w, "subscribe", "create", s)
    BY <1>1 DEF Billing!Subscribe
  <2>2. UNCHANGED <<paypal, notices>>
    BY <1>1 DEF Billing!Subscribe, Billing!remotes
  <2>3. /\ status'[s] = "pending" /\ status[s] = "absent"
        /\ \A t \in Sub \ {s} : status'[t] = status[t] \/ (status[t] = "pending_cancel" /\ status'[t] = "cancelled")
    <3>1. status[s] = "absent"
      BY <2>1 DEF Billing!Free
    <3>2. \A t \in Sub : status'[t] = IF t = s THEN "pending"
                                      ELSE IF Billing!EndedCancellation(t) THEN "cancelled" ELSE status[t]
      BY <2>1 DEF Billing!RetireEnded
    <3>3. status'[s] = "pending"
      BY <3>2
    <3>4. ASSUME NEW t \in Sub \ {s}
          PROVE  status'[t] = status[t] \/ (status[t] = "pending_cancel" /\ status'[t] = "cancelled")
      <4>1. CASE Billing!EndedCancellation(t)
        BY <3>2, <4>1 DEF Billing!EndedCancellation
      <4>2. CASE ~Billing!EndedCancellation(t)
        BY <3>2, <4>2
      <4> QED BY <4>1, <4>2
    <3> QED BY <3>1, <3>3, <3>4
  <2>4. /\ handler'[w].step = "create" /\ handler'[w].task = "subscribe" /\ handler'[w].sub = s
        /\ \A v \in Worker \ {w} : handler'[v] = handler[v] /\ handler[v].sub # s
    BY <1>0, <2>1 DEF Handlers, Billing!Start, Billing!Resting, Billing!Free
  <2>5. Creating'
    BY <1>4, <1>5, <2>2, <2>3, <2>4 DEF Cancelling, Creating
  <2>6. Ceased'
    BY <1>4, <2>2, <2>3, <2>4 DEF Cancelling, Ceased, Gone
  <2> QED BY <2>2, <2>5, <2>6 DEF Final
<1>2. ASSUME NEW s \in Sub, NEW task \in {"cancel", "ban"}, Billing!CancelAtPaypal(s, notices),
             Billing!Start(w, task, "write", s), UNCHANGED status
      PROVE  Creating' /\ Ceased' /\ Final
  <2>1. /\ Final /\ paypal'[s].status = "CANCELLED" /\ paypal[s].status # "none"
        /\ \A n \in notices' : paypal'[n.sub].status # "none"
        /\ \A t \in Sub \ {s} : paypal'[t] = paypal[t]
    BY <1>0, <1>2, CancelIsFinal DEF Cancelling, Creating
  <2>2. /\ handler'[w].step = "write" /\ handler'[w].task = task /\ handler'[w].sub = s
        /\ \A v \in Worker \ {w} : handler'[v] = handler[v]
    BY <1>0, <1>2 DEF Handlers, Billing!Start, Billing!Resting
  <2>3. Creating'
    BY <1>2, <1>4, <2>1, <2>2 DEF Cancelling, Creating
  <2>4. Ceased'
    BY <1>2, <1>4, <2>1, <2>2 DEF Cancelling, Ceased, Final
  <2> QED BY <2>1, <2>3, <2>4
<1>3. CASE Billing!Cancel(w)
  BY <1>0, <1>2, <1>3 DEF Billing!Cancel, Company, Billing!rows
<1>6. CASE Billing!Ban(w)
  <2>1. CASE current # NoSub /\ status[current] \in Billing!Live
    BY <1>0, <1>2, <1>6, <2>1 DEF Billing!Ban, Company, Billing!rows
  <2>2. CASE ~(current # NoSub /\ status[current] \in Billing!Live)
    BY <1>6, <2>2 DEF Billing!Ban, Billing!remotes, Billing!rows, Cancelling, Creating, Ceased, Final
  <2> QED BY <2>1, <2>2
<1>7. ASSUME NEW s \in Sub, NEW time, NEW task \in {"webhook", "confirm", "reconcile", "sweep"},
             Billing!Read(w, task, s, time), UNCHANGED <<paypal, notices, status>>,
             \A v \in Worker : handler[v].step = "create" => handler[v].sub # s
      PROVE  Creating' /\ Ceased' /\ Final
  <2>2. /\ handler'[w].step = "apply" /\ handler'[w].task = task /\ handler'[w].sub = s
        /\ handler'[w].remote = paypal[s]
        /\ \A v \in Worker \ {w} : handler'[v] = handler[v]
    BY <1>0, <1>7 DEF Handlers, Billing!Read, Billing!Resting
  <2>3. Creating'
    BY <1>4, <1>5, <1>7, <2>2 DEF Cancelling, Creating
  <2>4. Ceased'
    BY <1>4, <1>7, <2>2 DEF Cancelling, Ceased
  <2> QED BY <1>7, <2>3, <2>4 DEF Final
<1>8. \A s \in Sub : paypal[s].status # "none" =>
        \A v \in Worker : handler[v].step = "create" => handler[v].sub # s
  BY DEF Cancelling, Creating
<1>9. ASSUME NEW s \in Sub, Billing!Reconcile(w, s) PROVE Creating' /\ Ceased' /\ Final
  BY <1>7, <1>8, <1>9 DEF Billing!Reconcile, Billing!Reconciled, Billing!linked, Billing!remotes, Billing!rows
<1>10. ASSUME NEW s \in Sub, Billing!Confirm(w, s) PROVE Creating' /\ Ceased' /\ Final
  BY <1>7, <1>8, <1>10 DEF Billing!Confirm, Billing!linked, Billing!remotes, Billing!rows
<1>11. ASSUME NEW s \in Sub, Billing!Sweep(w, s) PROVE Creating' /\ Ceased' /\ Final
  <2>1. \A v \in Worker : handler[v].step = "create" => handler[v].sub # s
    BY <1>11 DEF Billing!Sweep, Cancelling, Creating
  <2> QED BY <1>7, <1>11, <2>1 DEF Billing!Sweep, Billing!remotes, Billing!rows
<1>12. ASSUME NEW n \in notices, Billing!Webhook(w, n) PROVE Creating' /\ Ceased' /\ Final
  <2>1. \A v \in Worker : handler[v].step = "create" => handler[v].sub # n.sub
    BY <1>5, <1>8 DEF Cancelling, Creating
  <2> QED BY <1>5, <1>7, <1>12, <2>1 DEF Billing!Webhook, Billing!remotes, Billing!rows
<1> QED BY <1>1, <1>3, <1>6, <1>9, <1>10, <1>11, <1>12

\* What the handlers write, and what they leave for PayPal.
LEMMA CeasedHandlers ==
  ASSUME NoSub \notin Sub, Cancelling, NEW w \in Worker,
         \/ Billing!Create(w) \/ Billing!CreateFails(w)
         \/ Billing!ExpireAbandoned(w) \/ Billing!IgnoreOldEvent(w) \/ Billing!ApplyRemoteState(w)
         \/ Billing!ApplyRefused(w) \/ Billing!FindDuplicate(w) \/ Billing!CancelDuplicate(w)
         \/ Billing!CancelDuplicateRefused(w) \/ Billing!CancelAfterSale(w) \/ Billing!CancelAfterSaleFails(w)
         \/ Billing!WriteCancel(w) \/ Billing!WriteBan(w) \/ Billing!Dies(w)
  PROVE  Creating' /\ Ceased' /\ Final
<1>0. Remotes /\ Handlers /\ Stored
  BY DEF Cancelling, Billed
<1>1. \A v \in Worker : handler[v].step # "idle" => handler[v].sub \in Sub
  BY <1>0 DEF Handlers, HandlerRow
<1>2. \A n \in notices : n.sub \in Sub /\ paypal[n.sub].status # "none"
  BY <1>0 DEF Remotes, NoticeRow, Cancelling, Creating
<1>3. handler[w].step # "idle"
  BY DEF Billing!Create, Billing!CreateFails, Billing!ExpireAbandoned, Billing!IgnoreOldEvent,
         Billing!ApplyRemoteState, Billing!ApplyRefused, Billing!FindDuplicate, Billing!CancelDuplicate,
         Billing!CancelDuplicateRefused, Billing!CancelAfterSale, Billing!CancelAfterSaleFails,
         Billing!WriteCancel, Billing!WriteBan, Billing!Dies, Billing!Applying, Billing!Idle
<1>4. PICK s \in Sub : s = handler[w].sub
  BY <1>1, <1>3
\* What a handler comes to after its step.
<1>5. ASSUME \/ Billing!Rest(w) \/ Billing!Continue(w) \/ Billing!GoOn(w)
             \/ Billing!Goto(w, "duplicate")
      PROVE  /\ \A v \in Worker \ {w} : handler'[v] = handler[v]
             /\ handler'[w].step \notin {"create", "apply", "write"}
             /\ handler'[w].task = "subscribe" => handler[w].task = "subscribe" /\ ~Billing!Rest(w)
             /\ handler'[w].sub \in {handler[w].sub, NoSub}
  <2>1. CASE Billing!Rest(w)
    BY <1>0, <2>1 DEF Billing!Rest, Billing!Resting, Handlers
  <2>2. ASSUME NEW step \in {"duplicate", "sales"}, NEW todo,
               \/ handler' = [handler EXCEPT ![w].step = step]
               \/ handler' = [handler EXCEPT ![w].step = step, ![w].todo = todo]
        PROVE  /\ \A v \in Worker \ {w} : handler'[v] = handler[v]
               /\ handler'[w].step = step /\ handler'[w].task = handler[w].task
               /\ handler'[w].sub = handler[w].sub
    BY <1>0, <2>2 DEF Handlers, HandlerRow
  <2>3. Billing!Rest(w) \/ \E step \in {"duplicate", "sales"}, todo \in SUBSET Sale :
               \/ handler' = [handler EXCEPT ![w].step = step]
               \/ handler' = [handler EXCEPT ![w].step = step, ![w].todo = todo]
    BY <1>5 DEF Billing!Continue, Billing!GoOn, Billing!Goto, Billing!Listed
  <2>4. CASE ~Billing!Rest(w)
    <3>1. /\ \A v \in Worker \ {w} : handler'[v] = handler[v]
          /\ handler'[w].step \in {"duplicate", "sales"} /\ handler'[w].task = handler[w].task
          /\ handler'[w].sub = handler[w].sub
      BY <2>2, <2>3, <2>4
    <3> QED BY <2>4, <3>1
  <2> QED BY <2>1, <2>4
<1>6. handler[w].step # "create" => handler[w].task # "subscribe"
  BY DEF Cancelling, Creating
<1>7. CASE Billing!Create(w)
  <2>1. /\ paypal' = [paypal EXCEPT ![s].status = "APPROVAL_PENDING"]
        /\ Billing!Rest(w) /\ UNCHANGED <<notices, status>>
    BY <1>4, <1>7 DEF Billing!Create
  <2>2. /\ status[s] = "pending" /\ paypal[s].status = "none"
        /\ \A v \in Worker \ {w} : handler[v].sub # s
    BY <1>4, <1>7 DEF Billing!Create, Cancelling, Creating
  <2>3. PICK r \in RemoteRow : r = paypal[s]
    BY <1>0 DEF Remotes
  <2>4. paypal'[s].status = "APPROVAL_PENDING" /\ \A t \in Sub \ {s} : paypal'[t] = paypal[t]
    BY <1>0, <2>1, <2>3 DEF Remotes, RemoteRow
  <2>5. /\ \A v \in Worker \ {w} : handler'[v] = handler[v]
        /\ handler'[w] = Billing!Resting
    BY <1>0, <2>1 DEF Billing!Rest, Handlers
  <2>6. Creating'
    BY <1>1, <1>2, <2>1, <2>2, <2>4, <2>5 DEF Creating, Cancelling, Billing!Resting
  <2>7. Ceased'
    BY <1>1, <2>1, <2>2, <2>4, <2>5 DEF Ceased, Cancelling, Billing!Resting, Gone
  <2> QED BY <2>2, <2>4, <2>6, <2>7 DEF Final
<1>8. CASE Billing!CreateFails(w)
  <2>1. /\ status' = [status EXCEPT ![s] = "absent"]
        /\ Billing!Rest(w) /\ UNCHANGED <<notices, paypal>>
    BY <1>4, <1>8 DEF Billing!CreateFails, Billing!remotes
  <2>2. /\ paypal[s].status = "none" /\ \A v \in Worker \ {w} : handler[v].sub # s
    BY <1>4, <1>8 DEF Billing!CreateFails, Cancelling, Creating
  <2>3. status'[s] = "absent" /\ \A t \in Sub \ {s} : status'[t] = status[t]
    BY <1>0, <2>1 DEF Stored
  <2>4. /\ \A v \in Worker \ {w} : handler'[v] = handler[v]
        /\ handler'[w] = Billing!Resting
    BY <1>0, <2>1 DEF Billing!Rest, Handlers
  <2>5. Creating'
    BY <1>1, <1>2, <2>1, <2>2, <2>3, <2>4 DEF Creating, Cancelling, Billing!Resting
  <2>6. Ceased'
    BY <1>1, <2>1, <2>2, <2>3, <2>4 DEF Ceased, Cancelling, Billing!Resting, Gone
  <2> QED BY <2>1, <2>5, <2>6 DEF Final
\* Steps that write the row: the handler is not making a subscription, nor is another for s.
<1>9. ASSUME NEW st, st \notin {"absent"}, st \in Gone => paypal[s].status = "CANCELLED",
             status' = [status EXCEPT ![s] = st], UNCHANGED paypal, notices' \subseteq notices,
             Billing!Rest(w) \/ Billing!Continue(w), handler[w].step # "create",
             \A v \in Worker : handler[v].step = "create" => handler[v].sub # s
      PROVE  Creating' /\ Ceased' /\ Final
  <2>1. status'[s] = st /\ \A t \in Sub \ {s} : status'[t] = status[t]
    BY <1>0, <1>9 DEF Stored
  <2>2. /\ \A v \in Worker \ {w} : handler'[v] = handler[v]
        /\ handler'[w].step \notin {"create", "apply", "write"} /\ handler'[w].task # "subscribe"
        /\ handler'[w].sub \in {handler[w].sub, NoSub}
    BY <1>5, <1>6, <1>9
  <2>3. Creating'
    BY <1>1, <1>2, <1>4, <1>9, <2>1, <2>2 DEF Creating, Cancelling
  <2>4. Ceased'
    BY <1>1, <1>9, <2>1, <2>2 DEF Ceased, Cancelling, Gone
  <2> QED BY <1>9, <2>3, <2>4 DEF Final
<1>10. \A v \in Worker : handler[v].step = "create" /\ handler[w].step # "create" => handler[v].sub # s
  BY <1>4 DEF Cancelling, Creating
<1>11. CASE Billing!ApplyRemoteState(w)
  <2>1. PICK st : st = Billing!NewStatus(s, handler[w].remote)
    OBVIOUS
  <2>2. handler[w].step = "apply" /\ st # "absent"
    BY <1>11, <2>1 DEF Billing!ApplyRemoteState, Billing!Applying, Billing!NewStatus, Billing!Mapped
  <2>3. st \in Gone => handler[w].remote.status = "CANCELLED"
    BY <2>1 DEF Billing!NewStatus, Billing!Mapped, Gone
  <2>4. st \in Gone => paypal[s].status = "CANCELLED"
    BY <1>4, <2>2, <2>3 DEF Cancelling, Ceased
  <2>5. /\ status' = [status EXCEPT ![s] = st] /\ UNCHANGED paypal /\ Billing!Continue(w)
        /\ notices' \subseteq notices
    BY <1>4, <1>11, <2>1 DEF Billing!ApplyRemoteState, Billing!Applied
  <2> QED BY <1>9, <1>10, <2>2, <2>4, <2>5
<1>12. CASE Billing!ExpireAbandoned(w)
  <2>1. /\ status' = [status EXCEPT ![s] = IF status[s] = "pending" THEN "expired" ELSE status[s]]
        /\ Billing!Rest(w) /\ UNCHANGED <<paypal, notices>> /\ handler[w].step = "apply"
    BY <1>0, <1>4, <1>12 DEF Billing!ExpireAbandoned, Billing!remotes, Stored
  <2>2. CASE status[s] = "pending"
    <3>1. status' = [status EXCEPT ![s] = "expired"]
      BY <2>1, <2>2
    <3>2. UNCHANGED paypal /\ notices' \subseteq notices /\ handler[w].step # "create"
      BY <2>1
    <3> QED BY <1>9, <1>10, <2>1, <3>1, <3>2 DEF Gone
  <2>3. CASE status[s] # "pending"
    <3>1. UNCHANGED status
      BY <1>0, <2>1, <2>3 DEF Stored
    <3>2. Final
      BY <2>1 DEF Final
    <3>3. /\ \A v \in Worker \ {w} : handler'[v] = handler[v]
          /\ handler'[w].step \notin {"create", "apply", "write"} /\ handler'[w].task # "subscribe"
          /\ handler'[w].sub \in {handler[w].sub, NoSub}
      BY <1>5, <1>6, <2>1
    <3> QED BY <1>2, <2>1, <3>1, <3>2, <3>3, Rested
  <2> QED BY <2>2, <2>3
<1>13. CASE Billing!WriteCancel(w) \/ Billing!WriteBan(w)
  <2>1. handler[w].step = "write" /\ Billing!Rest(w) /\ UNCHANGED <<paypal, notices>>
    BY <1>13 DEF Billing!WriteCancel, Billing!WriteBan, Billing!remotes
  <2>2. paypal[s].status = "CANCELLED"
    BY <1>4, <2>1 DEF Cancelling, Ceased
  <2>3. UNCHANGED status \/ \E st \in Gone : status' = [status EXCEPT ![s] = st]
    BY <1>4, <1>13 DEF Billing!WriteCancel, Billing!WriteBan, Gone
  <2>4. CASE \E st \in Gone : status' = [status EXCEPT ![s] = st]
    BY <1>9, <1>10, <2>1, <2>2, <2>4 DEF Gone
  <2>5. CASE UNCHANGED status
    <3>2. Final
      BY <2>1 DEF Final
    <3>3. /\ \A v \in Worker \ {w} : handler'[v] = handler[v]
          /\ handler'[w].step \notin {"create", "apply", "write"} /\ handler'[w].task # "subscribe"
          /\ handler'[w].sub \in {handler[w].sub, NoSub}
      BY <1>5, <1>6, <2>1
    <3> QED BY <1>2, <2>1, <2>5, <3>2, <3>3, Rested
  <2> QED BY <2>3, <2>4, <2>5
<1>14. CASE Billing!CancelDuplicate(w) \/ Billing!CancelAfterSale(w)
  <2>1. /\ handler[w].step \in {"duplicate", "dupsale"} /\ UNCHANGED status
        /\ Billing!Continue(w) \/ Billing!GoOn(w)
        /\ \E waiting \in SUBSET notices : Billing!CancelAtPaypal(s, waiting)
    BY <1>4, <1>14 DEF Billing!CancelDuplicate, Billing!CancelAfterSale, Billing!rows
  <2>2. /\ Final /\ paypal'[s].status = "CANCELLED" /\ paypal[s].status # "none"
        /\ \A n \in notices' : paypal'[n.sub].status # "none"
        /\ \A t \in Sub \ {s} : paypal'[t] = paypal[t]
    BY <1>0, <1>2, <2>1, CancelIsFinal
  <2>3. /\ \A v \in Worker \ {w} : handler'[v] = handler[v]
        /\ handler'[w].step \notin {"create", "apply", "write"} /\ handler'[w].task # "subscribe"
        /\ handler'[w].sub \in {handler[w].sub, NoSub}
    BY <1>5, <1>6, <2>1
  <2>4. \A t \in Sub : paypal[t].status = "none" => paypal'[t].status = "none"
    BY <2>2
  <2> QED BY <2>1, <2>2, <2>3, <2>4, Rested
<1>15. CASE \/ Billing!IgnoreOldEvent(w) \/ Billing!ApplyRefused(w) \/ Billing!FindDuplicate(w)
            \/ Billing!CancelDuplicateRefused(w) \/ Billing!CancelAfterSaleFails(w)
  <2>1. /\ handler[w].step # "create" /\ UNCHANGED <<status, paypal>> /\ notices' \subseteq notices
        /\ Billing!Rest(w) \/ Billing!Continue(w) \/ Billing!GoOn(w) \/ Billing!Goto(w, "duplicate")
    BY <1>15 DEF Billing!IgnoreOldEvent, Billing!ApplyRefused, Billing!FindDuplicate,
       Billing!CancelDuplicateRefused, Billing!CancelAfterSaleFails, Billing!Applied, Billing!Applying,
       Billing!rows, Billing!remotes
  <2>2. Final
    BY <2>1 DEF Final
  <2>3. /\ \A v \in Worker \ {w} : handler'[v] = handler[v]
        /\ handler'[w].step \notin {"create", "apply", "write"} /\ handler'[w].task # "subscribe"
        /\ handler'[w].sub \in {handler[w].sub, NoSub}
    BY <1>5, <1>6, <2>1
  <2> QED BY <1>2, <2>1, <2>2, <2>3, Rested
<1>16. CASE Billing!Dies(w)
  <2>1. UNCHANGED <<status, paypal, notices>> /\ Billing!Rest(w)
    BY <1>16 DEF Billing!Dies, Billing!rows, Billing!remotes
  <2>2. Final
    BY <2>1 DEF Final
  <2>3. /\ \A v \in Worker \ {w} : handler'[v] = handler[v]
        /\ handler'[w].step \notin {"create", "apply", "write"} /\ handler'[w].task # "subscribe"
        /\ handler'[w].sub \in {handler[w].sub, NoSub}
    BY <1>5, <2>1
  <2> QED BY <1>2, <2>1, <2>2, <2>3, Rested
<1> QED BY <1>7, <1>8, <1>11, <1>12, <1>13, <1>14, <1>15, <1>16

\* creditCycle shows its row as active, which is not one that is being made.
LEMMA CeasedSales ==
  ASSUME NoSub \notin Sub, Cancelling, NEW w \in Worker, NEW i \in Sale,
         \/ Billing!CreditSale(w, i) \/ Billing!FlagSale(w, i)
         \/ Billing!CreditListed(w, i) \/ Billing!FlagListed(w, i)
  PROVE  Creating' /\ Ceased' /\ Final
<1>0. Remotes /\ Handlers /\ Stored /\ Sales
  BY DEF Cancelling, Billed
<1>1. \A v \in Worker : handler[v].step # "idle" => handler[v].sub \in Sub
  BY <1>0 DEF Handlers, HandlerRow
<1>2. UNCHANGED <<paypal, notices>>
  BY DEF Billing!CreditSale, Billing!FlagSale, Billing!CreditListed, Billing!FlagListed, Billing!remotes
<1>3. Final
  BY <1>2 DEF Final
<1>4. ASSUME NEW s \in Sub, paypal[s].status # "none", Billing!CreditCycle(i, s)
      PROVE  \/ UNCHANGED status
             \/ /\ status'[s] = "active" /\ \A t \in Sub \ {s} : status'[t] = status[t]
                /\ \A v \in Worker : handler[v].step = "create" => handler[v].sub # s
  <2>1. \A v \in Worker : handler[v].step = "create" => handler[v].sub # s
    BY <1>4 DEF Cancelling, Creating
  <2>2. UNCHANGED status \/ status' = [status EXCEPT ![s] = "active"]
    BY <1>4 DEF Billing!CreditCycle
  <2> QED BY <1>0, <1>4, <2>1, <2>2 DEF Stored
<1>5. ASSUME NEW s \in Sub, UNCHANGED status \/ Billing!CreditCycle(i, s), paypal[s].status # "none",
             \A v \in Worker \ {w} : handler'[v] = handler[v],
             handler'[w] = handler[w] \/ /\ handler'[w].step \in {"idle", "sales", "dupsale"}
                                         /\ handler'[w].task # "subscribe"
                                         /\ handler'[w].sub \in {s, NoSub}
      PROVE  Creating' /\ Ceased'
  <2>1. \/ UNCHANGED status
        \/ /\ status'[s] = "active" /\ \A t \in Sub \ {s} : status'[t] = status[t]
           /\ \A v \in Worker : handler[v].step = "create" => handler[v].sub # s
    BY <1>4, <1>5
  <2>2. \A v \in Worker : handler[v].step = "create" => handler[v].sub # s
    BY <1>5 DEF Cancelling, Creating
  <2>3. ASSUME NEW u \in Worker, handler'[u].step = "create"
        PROVE  /\ status'[handler'[u].sub] = "pending" /\ paypal'[handler'[u].sub].status = "none"
               /\ \A v \in Worker \ {u} : handler'[v].sub # handler'[u].sub
    <3>1. handler'[u] = handler[u] /\ handler[u].sub \in Sub /\ handler[u].sub # s
      BY <1>1, <1>5, <2>2, <2>3
    <3>2. \A v \in Worker \ {u} : handler'[v].sub \in {handler[v].sub, s, NoSub}
      BY <1>5
    <3> QED BY <1>2, <2>1, <2>3, <3>1, <3>2 DEF Cancelling, Creating
  <2>4. \A u \in Worker : handler'[u].step = "create" <=> handler'[u].task = "subscribe"
    BY <1>5 DEF Cancelling, Creating
  <2>5. \A t \in Sub : status'[t] = "absent" => paypal'[t].status = "none"
    BY <1>2, <2>1 DEF Cancelling, Creating
  <2>6. Creating'
    BY <1>2, <2>3, <2>4, <2>5 DEF Cancelling, Creating
  <2>7. Ceased'
    BY <1>1, <1>2, <1>5, <2>1 DEF Cancelling, Ceased, Gone
  <2> QED BY <2>6, <2>7
<1>6. i \in saleNotices => saleOf[i] \in Sub /\ paypal[saleOf[i]].status # "none"
  BY <1>0 DEF Sales, Cancelling, Known
<1>7. CASE Billing!CreditSale(w, i)
  <2>1. /\ i \in saleNotices /\ Billing!CreditCycle(i, saleOf[i]) /\ UNCHANGED handler
    BY <1>7 DEF Billing!CreditSale
  <2> QED BY <1>3, <1>5, <1>6, <2>1
<1>8. CASE Billing!FlagSale(w, i)
  <2>1. /\ i \in saleNotices /\ Billing!Start(w, "sale", "dupsale", saleOf[i]) /\ UNCHANGED status
    BY <1>8 DEF Billing!FlagSale, Billing!rows
  <2>2. /\ \A v \in Worker \ {w} : handler'[v] = handler[v]
        /\ handler'[w].step = "dupsale" /\ handler'[w].task = "sale" /\ handler'[w].sub = saleOf[i]
    BY <1>0, <2>1 DEF Handlers, Billing!Start, Billing!Resting
  <2> QED BY <1>3, <1>5, <1>6, <2>1, <2>2
<1>9. CASE Billing!CreditListed(w, i) \/ Billing!FlagListed(w, i)
  <2>1. PICK s \in Sub : s = handler[w].sub
    BY <1>1, <1>9 DEF Billing!CreditListed, Billing!FlagListed
  <2>2. /\ handler[w].step = "sales" /\ paypal[s].status # "none" /\ handler[w].task # "subscribe"
    BY <1>9, <2>1 DEF Billing!CreditListed, Billing!FlagListed, Cancelling, Known, Made, Creating
  <2>3. UNCHANGED status \/ Billing!CreditCycle(i, s)
    BY <1>9, <2>1 DEF Billing!CreditListed, Billing!FlagListed, Billing!rows
  <2>4. \/ Billing!Rest(w)
        \/ \E todo \in SUBSET Sale : \/ handler' = [handler EXCEPT ![w].todo = todo]
                                     \/ handler' = [handler EXCEPT ![w].step = "dupsale", ![w].todo = todo]
    <3>1. handler[w].todo \ {i} \in SUBSET Sale
      BY <1>0 DEF Handlers, HandlerRow
    <3> QED BY <1>9, <3>1 DEF Billing!CreditListed, Billing!FlagListed
  <2>5. /\ \A v \in Worker \ {w} : handler'[v] = handler[v]
        /\ handler'[w].step \in {"idle", "sales", "dupsale"} /\ handler'[w].task # "subscribe"
        /\ handler'[w].sub \in {s, NoSub}
    BY <1>0, <2>1, <2>2, <2>4 DEF Handlers, HandlerRow, Billing!Rest, Billing!Resting
  <2> QED BY <1>3, <1>5, <2>2, <2>3, <2>5
<1> QED BY <1>7, <1>8, <1>9

LEMMA KnownStep ==
  ASSUME NoSub \notin Sub, Cancelling, Final, [Billing!Next]_(Billing!vars)
  PROVE  Known'
<1>0. Handlers /\ Sales
  BY DEF Cancelling, Billed
<1>1. \A v \in Worker : handler[v].step # "idle" => handler[v].sub \in Sub
  BY <1>0 DEF Handlers, HandlerRow
<1>2. \A i \in Sale : saleOf'[i] # NoSub => saleOf'[i] \in Sub /\ paypal'[saleOf'[i]].status # "none"
  <2>1. UNCHANGED saleOf \/ \E s \in Sub, i \in Sale : /\ saleOf' = [saleOf EXCEPT ![i] = s]
                                                      /\ paypal[s].status = "ACTIVE"
    BY DEF Billing!Next, Billing!Paypals, Billing!Approve, Billing!ChargeFails, Billing!Suspend,
       Billing!Reactivate, Billing!CancelledByBuyer, Billing!Charge, Billing!ByItself, Billing!Hourly,
       Billing!PaidTimeEnds, Billing!Handle, Billing!Fail, Billing!Create, Billing!ExpireAbandoned,
       Billing!IgnoreOldEvent, Billing!ApplyRemoteState, Billing!ApplyRefused, Billing!FindDuplicate,
       Billing!CancelDuplicate, Billing!CancelDuplicateRefused, Billing!CreditListed, Billing!FlagListed,
       Billing!CancelAfterSale, Billing!WriteCancel, Billing!WriteBan, Billing!CreateFails,
       Billing!CancelAfterSaleFails, Billing!Dies, Billing!Subscribe, Billing!Cancel, Billing!Ban,
       Billing!Webhook, Billing!Confirm, Billing!Reconcile, Billing!Sweep, Billing!CreditSale,
       Billing!FlagSale, Billing!sales, Billing!vars
  <2>2. \A i \in Sale : saleOf[i] # NoSub => saleOf[i] \in Sub /\ paypal[saleOf[i]].status # "none"
    BY <1>0 DEF Sales, Cancelling, Known
  <2> QED BY <1>0, <2>1, <2>2 DEF Final, Sales
\* A handler's step keeps its subscription, rests, or starts on one that was made.
<1>3. ASSUME NEW w \in Worker,
             \/ handler'[w] = handler[w] \/ ~Made(handler'[w])
             \/ handler'[w].sub = handler[w].sub /\ (Made(handler'[w]) => Made(handler[w]))
             \/ handler'[w].sub \in Sub /\ paypal[handler'[w].sub].status # "none"
      PROVE  Made(handler'[w]) => handler'[w].sub \in Sub /\ paypal'[handler'[w].sub].status # "none"
  <2>1. Made(handler[w]) => handler[w].sub \in Sub /\ paypal[handler[w].sub].status # "none"
    BY DEF Cancelling, Known
  <2> QED BY <1>3, <2>1 DEF Final
<1>4. ASSUME NEW w \in Worker,
             \/ Billing!Rest(w)
             \/ \E task \in Billing!Task \ {"reconcile"}, step \in Billing!Step \ {"sales"}, s \in Sub :
                  Billing!Start(w, task, step, s)
             \/ \E task \in {"webhook", "confirm", "sweep"}, s \in Sub, time \in Nat :
                  Billing!Read(w, task, s, time)
      PROVE  handler'[w] = handler[w] \/ ~Made(handler'[w])
  <2>1. CASE Billing!Rest(w)
    BY <1>0, <2>1 DEF Handlers, Billing!Rest, Billing!Resting, Made
  <2>2. ASSUME NEW task \in Billing!Task \ {"reconcile"}, NEW step \in Billing!Step \ {"sales"}, NEW s \in Sub,
               Billing!Start(w, task, step, s)
        PROVE  ~Made(handler'[w])
    BY <1>0, <2>2 DEF Handlers, Billing!Start, Billing!Resting, Made
  <2>3. ASSUME NEW task \in {"webhook", "confirm", "sweep"}, NEW s \in Sub, NEW time \in Nat,
               Billing!Read(w, task, s, time)
        PROVE  ~Made(handler'[w])
    BY <1>0, <2>3 DEF Handlers, Billing!Read, Billing!Resting, Made
  <2> QED BY <1>4, <2>1, <2>2, <2>3
<1>5. ASSUME NEW w \in Worker, NEW s \in Sub, Billing!Reconcile(w, s)
      PROVE  handler'[w].sub \in Sub /\ paypal[handler'[w].sub].status # "none"
  <2>1. handler'[w].sub = s
    BY <1>0, <1>5 DEF Billing!Reconcile, Billing!Read, Billing!Resting, Handlers
  <2> QED BY <1>5, <2>1 DEF Billing!Reconcile, Billing!Reconciled, Billing!linked
<1>6. ASSUME NEW w \in Worker,
             \/ ~Billing!Rest(w) /\ (Billing!Continue(w) \/ Billing!GoOn(w))
             \/ Billing!Goto(w, "duplicate")
             \/ /\ handler[w].step = "sales"
                /\ \E todo : \/ handler' = [handler EXCEPT ![w].todo = todo]
                            \/ handler' = [handler EXCEPT ![w].step = "dupsale", ![w].todo = todo]
      PROVE  handler'[w].sub = handler[w].sub /\ (Made(handler'[w]) => Made(handler[w]))
  BY <1>0, <1>6 DEF Billing!Continue, Billing!GoOn, Billing!Goto, Made, Handlers, HandlerRow
<1> DEFINE Follows(w) == \/ handler'[w] = handler[w] \/ ~Made(handler'[w])
                         \/ handler'[w].sub = handler[w].sub /\ (Made(handler'[w]) => Made(handler[w]))
                         \/ handler'[w].sub \in Sub /\ paypal[handler'[w].sub].status # "none"
<1>7. ASSUME NEW w \in Worker, NEW v \in Worker, v # w,
             \/ Billing!Handle(w) \/ Billing!Fail(w) \/ Billing!Subscribe(w) \/ Billing!Cancel(w) \/ Billing!Ban(w)
             \/ \E n \in notices : Billing!Webhook(w, n)
             \/ \E s \in Sub : Billing!Confirm(w, s) \/ Billing!Reconcile(w, s) \/ Billing!Sweep(w, s)
             \/ \E i \in Sale : Billing!CreditSale(w, i) \/ Billing!FlagSale(w, i)
      PROVE  handler'[v] = handler[v]
  BY <1>0, <1>7 DEF Handlers, Billing!Handle, Billing!Fail, Billing!Create, Billing!ExpireAbandoned,
       Billing!IgnoreOldEvent, Billing!ApplyRemoteState, Billing!ApplyRefused, Billing!FindDuplicate,
       Billing!CancelDuplicate, Billing!CancelDuplicateRefused, Billing!CreditListed, Billing!FlagListed,
       Billing!CancelAfterSale, Billing!WriteCancel, Billing!WriteBan, Billing!CreateFails,
       Billing!CancelAfterSaleFails, Billing!Dies, Billing!Subscribe, Billing!Cancel, Billing!Ban,
       Billing!Webhook, Billing!Confirm, Billing!Reconcile, Billing!Sweep, Billing!CreditSale,
       Billing!FlagSale, Billing!remotes, Billing!Rest, Billing!Start, Billing!Read, Billing!Goto,
       Billing!Applied, Billing!Continue, Billing!GoOn
<1>8. ASSUME NEW w \in Worker, Billing!Handle(w) \/ Billing!Fail(w) PROVE Follows(w)
  <2>1. \/ Billing!Rest(w) \/ Billing!Continue(w) \/ Billing!GoOn(w) \/ Billing!Goto(w, "duplicate")
        \/ /\ handler[w].step = "sales"
           /\ \E todo : \/ handler' = [handler EXCEPT ![w].todo = todo]
                       \/ handler' = [handler EXCEPT ![w].step = "dupsale", ![w].todo = todo]
    BY <1>8 DEF Billing!Handle, Billing!Fail, Billing!Create, Billing!ExpireAbandoned,
       Billing!IgnoreOldEvent, Billing!ApplyRemoteState, Billing!ApplyRefused, Billing!FindDuplicate,
       Billing!CancelDuplicate, Billing!CancelDuplicateRefused, Billing!CreditListed, Billing!FlagListed,
       Billing!CancelAfterSale, Billing!WriteCancel, Billing!WriteBan, Billing!CreateFails,
       Billing!CancelAfterSaleFails, Billing!Dies, Billing!Applied
  <2>2. CASE Billing!Rest(w)
    BY <1>4, <2>2
  <2>3. CASE ~Billing!Rest(w)
    BY <1>6, <2>1, <2>3
  <2> QED BY <2>2, <2>3
<1>9. ASSUME NEW w \in Worker,
             \/ Billing!Subscribe(w) \/ Billing!Cancel(w) \/ Billing!Ban(w)
             \/ \E n \in notices : Billing!Webhook(w, n)
             \/ \E s \in Sub : Billing!Confirm(w, s) \/ Billing!Reconcile(w, s) \/ Billing!Sweep(w, s)
             \/ \E i \in Sale : Billing!CreditSale(w, i) \/ Billing!FlagSale(w, i)
      PROVE  Follows(w)
  <2>1. /\ \A n \in notices : n.sub \in Sub /\ n.time \in Nat
        /\ current # NoSub => current \in Sub
        /\ \A i \in saleNotices : saleOf[i] \in Sub
    BY DEF Cancelling, Billed, Remotes, NoticeRow, Company, Sales
  <2>2. CASE \E s \in Sub : Billing!Reconcile(w, s)
    BY <1>5, <2>2
  <2>3. CASE UNCHANGED handler
    BY <2>3
  <2>4. CASE ~(\E s \in Sub : Billing!Reconcile(w, s)) /\ ~(UNCHANGED handler)
    <3>1. \/ \E task \in Billing!Task \ {"reconcile"}, step \in Billing!Step \ {"sales"}, s \in Sub :
               Billing!Start(w, task, step, s)
          \/ \E task \in {"webhook", "confirm", "sweep"}, s \in Sub, time \in Nat :
               Billing!Read(w, task, s, time)
      BY <1>9, <2>1, <2>4 DEF Billing!Subscribe, Billing!Cancel, Billing!Ban, Billing!Webhook, Billing!Confirm,
         Billing!Sweep, Billing!CreditSale, Billing!FlagSale, Billing!Task, Billing!Step
    <3> QED BY <1>4, <3>1
  <2> QED BY <2>2, <2>3, <2>4
<1>10. ASSUME UNCHANGED handler, NEW w \in Worker PROVE Follows(w)
  BY <1>10
<1>11. \A w \in Worker : Follows(w)
  <2>1. CASE Billing!Paypals \/ Billing!Hourly \/ Billing!PaidTimeEnds \/ UNCHANGED Billing!vars
    <3>1. UNCHANGED handler
      BY <2>1 DEF Billing!Paypals, Billing!Approve, Billing!ChargeFails, Billing!Suspend, Billing!Reactivate,
         Billing!CancelledByBuyer, Billing!Charge, Billing!ByItself, Billing!Hourly, Billing!PaidTimeEnds,
         Billing!vars
    <3> QED BY <1>10, <3>1
  <2>2. ASSUME NEW w \in Worker,
             \/ Billing!Handle(w) \/ Billing!Fail(w) \/ Billing!Subscribe(w) \/ Billing!Cancel(w) \/ Billing!Ban(w)
             \/ \E n \in notices : Billing!Webhook(w, n)
             \/ \E s \in Sub : Billing!Confirm(w, s) \/ Billing!Reconcile(w, s) \/ Billing!Sweep(w, s)
             \/ \E i \in Sale : Billing!CreditSale(w, i) \/ Billing!FlagSale(w, i),
             NEW v \in Worker
        PROVE  Follows(v)
    <3>1. CASE v = w
      <4>1. Follows(w)
        BY <1>8, <1>9, <2>2
      <4> QED BY <3>1, <4>1
    <3>2. CASE v # w
      BY <1>7, <2>2, <3>2
    <3> QED BY <3>1, <3>2
  <2> QED BY <2>1, <2>2 DEF Billing!Next
<1> HIDE DEF Follows
<1>12. \A w \in Worker :
         Made(handler'[w]) => handler'[w].sub \in Sub /\ paypal'[handler'[w].sub].status # "none"
  BY <1>3, <1>11 DEF Follows
<1> QED BY <1>2, <1>12 DEF Known, Made

\* No step gives the company a second live row: the index refuses it, or the row in its way is
\* retired by the same transaction.
LEMMA OneLiveStep ==
  ASSUME Billed, OneLive, [Billing!Next]_(Billing!vars)
  PROVE  OneLive'
<1>0. status \in [Sub -> Billing!State \cup {"absent"}] /\ Handlers
  BY DEF Billed, Stored
<1>1. ASSUME NEW s \in Sub, NEW st, status' = [status EXCEPT ![s] = st],
             st \notin Billing!Live \/ ~Billing!Refused(s, st)
      PROVE  OneLive'
  <2>1. st \in Billing!Live => status[s] \in Billing!Live \/ \A t \in Sub \ {s} : status[t] \notin Billing!Live
    BY <1>1 DEF Billing!Refused, Billing!OtherLive
  <2>2. status'[s] = st /\ \A t \in Sub \ {s} : status'[t] = status[t]
    BY <1>0, <1>1
  <2> QED BY <2>1, <2>2 DEF OneLive
<1>2. ASSUME UNCHANGED status PROVE OneLive'
  BY <1>2 DEF OneLive
<1>3. CASE Billing!Hourly
  <2>1. status' = Billing!RetireEnded(status)
    BY <1>3 DEF Billing!Hourly, Billing!RetireEndedCancellations
  <2>2. \A s \in Sub : status'[s] \in Billing!Live => status[s] \in Billing!Live
    BY <2>1 DEF Billing!RetireEnded, Billing!Live
  <2> QED BY <2>2 DEF OneLive
<1>4. ASSUME NEW w \in Worker, Billing!Subscribe(w) PROVE OneLive'
  <2>1. PICK s \in Sub : status' = [Billing!RetireEnded(status) EXCEPT ![s] = "pending"]
    BY <1>4 DEF Billing!Subscribe
  <2>2. \A t \in Sub : status[t] \notin Billing!Live \/ Billing!EndedCancellation(t)
    BY <1>4 DEF Billing!Subscribe
  <2>3. ASSUME NEW t \in Sub, t # s PROVE status'[t] \notin Billing!Live
    <3>1. status'[t] = IF Billing!EndedCancellation(t) THEN "cancelled" ELSE status[t]
      BY <2>1, <2>3 DEF Billing!RetireEnded
    <3>2. CASE Billing!EndedCancellation(t)
      BY <3>1, <3>2 DEF Billing!Live
    <3>3. CASE ~Billing!EndedCancellation(t)
      BY <2>2, <3>1, <3>3
    <3> QED BY <3>2, <3>3
  <2> QED BY <2>3 DEF OneLive
<1>5. ASSUME NEW i \in Sale, NEW s \in Sub, Billing!CreditCycle(i, s), ~Billing!CreditRefused(i, s)
      PROVE  OneLive'
  <2>1. CASE credited[i] = 0
    BY <1>1, <1>5, <2>1 DEF Billing!CreditCycle, Billing!CreditRefused
  <2>2. CASE credited[i] # 0
    BY <1>2, <1>5, <2>2 DEF Billing!CreditCycle
  <2> QED BY <2>1, <2>2
<1>6. ASSUME NEW w \in Worker, Billing!Handle(w) \/ Billing!Fail(w) PROVE OneLive'
  <2>0. handler[w].step # "idle" => handler[w].sub \in Sub
    BY <1>0 DEF Handlers, HandlerRow
  <2>1. CASE Billing!CreateFails(w)
    BY <1>1, <2>0, <2>1 DEF Billing!CreateFails, Billing!Live
  <2>2. CASE Billing!ExpireAbandoned(w)
    <3>1. status' = [status EXCEPT ![handler[w].sub] = "expired"] \/ UNCHANGED status
      BY <1>0, <2>0, <2>2 DEF Billing!ExpireAbandoned
    <3> QED BY <1>1, <1>2, <2>0, <2>2, <3>1 DEF Billing!ExpireAbandoned, Billing!Live
  <2>3. CASE Billing!ApplyRemoteState(w)
    BY <1>1, <2>0, <2>3 DEF Billing!ApplyRemoteState, Billing!Applying
  <2>4. CASE Billing!WriteCancel(w)
    BY <1>1, <1>2, <2>0, <2>4 DEF Billing!WriteCancel
  <2>5. CASE Billing!WriteBan(w)
    BY <1>1, <2>0, <2>5 DEF Billing!WriteBan, Billing!Live
  <2>6. ASSUME NEW i \in Sale, Billing!CreditListed(w, i) PROVE OneLive'
    BY <1>2, <1>5, <2>0, <2>6 DEF Billing!CreditListed, Billing!rows
  <2>7. ASSUME NEW i \in Sale, Billing!FlagListed(w, i) PROVE OneLive'
    BY <1>2, <2>7 DEF Billing!FlagListed, Billing!rows
  <2>8. CASE \/ Billing!Create(w) \/ Billing!IgnoreOldEvent(w) \/ Billing!ApplyRefused(w)
             \/ Billing!FindDuplicate(w) \/ Billing!CancelDuplicate(w) \/ Billing!CancelDuplicateRefused(w)
             \/ Billing!CancelAfterSale(w) \/ Billing!CancelAfterSaleFails(w) \/ Billing!Dies(w)
    <3>1. UNCHANGED status
      BY <2>8 DEF Billing!Create, Billing!IgnoreOldEvent, Billing!ApplyRefused, Billing!FindDuplicate,
         Billing!CancelDuplicate, Billing!CancelDuplicateRefused, Billing!CancelAfterSale,
         Billing!CancelAfterSaleFails, Billing!Dies, Billing!rows
    <3> QED BY <1>2, <3>1
  <2> QED BY <1>6, <2>1, <2>2, <2>3, <2>4, <2>5, <2>6, <2>7, <2>8 DEF Billing!Handle, Billing!Fail
<1>7. ASSUME NEW w \in Worker, NEW i \in Sale, Billing!CreditSale(w, i) \/ Billing!FlagSale(w, i) PROVE OneLive'
  <2>1. CASE Billing!CreditSale(w, i)
    <3>1. saleOf[i] \in Sub
      BY <2>1 DEF Billing!CreditSale, Billed, Sales
    <3> QED BY <1>5, <2>1, <3>1 DEF Billing!CreditSale
  <2>2. CASE Billing!FlagSale(w, i)
    BY <1>2, <2>2 DEF Billing!FlagSale, Billing!rows
  <2> QED BY <1>7, <2>1, <2>2
<1>8. CASE \/ Billing!Paypals \/ Billing!PaidTimeEnds \/ UNCHANGED Billing!vars
           \/ \E w \in Worker :
                \/ Billing!Cancel(w) \/ Billing!Ban(w) \/ \E n \in notices : Billing!Webhook(w, n)
                \/ \E s \in Sub : Billing!Confirm(w, s) \/ Billing!Reconcile(w, s) \/ Billing!Sweep(w, s)
  <2>1. UNCHANGED status
    BY <1>8 DEF Billing!Paypals, Billing!Approve, Billing!ChargeFails, Billing!Suspend, Billing!Reactivate,
         Billing!CancelledByBuyer, Billing!Charge, Billing!ByItself, Billing!PaidTimeEnds, Billing!vars,
         Billing!Cancel, Billing!Ban, Billing!Webhook, Billing!Confirm, Billing!Reconcile, Billing!Sweep, Billing!rows
  <2> QED BY <1>2, <2>1
<1> QED BY <1>3, <1>4, <1>6, <1>7, <1>8 DEF Billing!Next

LEMMA CancellingStep ==
  ASSUME NoSub \notin Sub
  PROVE  Cancelling /\ OneLive /\ [Billing!Next]_(Billing!vars) => (Cancelling /\ OneLive)'
<1> SUFFICES ASSUME Cancelling, OneLive, [Billing!Next]_(Billing!vars) PROVE (Cancelling /\ OneLive)'
  OBVIOUS
<1>1. Billed' /\ OneLive'
  BY BilledStep, OneLiveStep DEF Cancelling
<1>2. Creating' /\ Ceased' /\ Final
  <2>1. CASE Billing!Hourly
    <3>1. status' = Billing!RetireEnded(status) /\ UNCHANGED <<paypal, notices, handler>>
      BY <2>1 DEF Billing!Hourly, Billing!RetireEndedCancellations, Billing!remotes
    <3>2. \A s \in Sub : status'[s] = status[s] \/ (status[s] = "pending_cancel" /\ status'[s] = "cancelled")
      <4>1. ASSUME NEW s \in Sub
            PROVE  status'[s] = status[s] \/ (status[s] = "pending_cancel" /\ status'[s] = "cancelled")
        <5>1. status'[s] = IF Billing!EndedCancellation(s) THEN "cancelled" ELSE status[s]
          BY <3>1 DEF Billing!RetireEnded
        <5>2. CASE Billing!EndedCancellation(s)
          BY <5>1, <5>2 DEF Billing!EndedCancellation
        <5>3. CASE ~Billing!EndedCancellation(s)
          BY <5>1, <5>3
        <5> QED BY <5>2, <5>3
      <4> QED BY <4>1
    <3>3. \A v \in Worker : handler[v].step # "idle" => handler[v].sub \in Sub
      BY DEF Cancelling, Billed, Handlers, HandlerRow
    <3>4. Creating'
      BY <3>1, <3>2, <3>3 DEF Cancelling, Creating
    <3>5. Ceased' /\ Final
      BY <3>1, <3>2 DEF Cancelling, Ceased, Final, Gone
    <3> QED BY <3>4, <3>5
  <2>2. CASE Billing!PaidTimeEnds \/ UNCHANGED Billing!vars
    BY <2>2 DEF Billing!PaidTimeEnds, Billing!vars, Billing!remotes, Billing!rows, Cancelling, Creating, Ceased,
                Final
  <2>3. ASSUME NEW w \in Worker, Billing!Handle(w) \/ Billing!Fail(w) PROVE Creating' /\ Ceased' /\ Final
    BY <2>3, CeasedHandlers, CeasedSales DEF Billing!Handle, Billing!Fail
  <2> QED BY <2>1, <2>2, <2>3, CeasedPaypals, CeasedStarts, CeasedSales DEF Billing!Next, Billing!Paypals
<1> QED BY <1>1, <1>2, KnownStep DEF Cancelling

LEMMA CancellingInvariant == ASSUME NoSub \notin Sub PROVE Billing!Spec => [](Cancelling /\ OneLive)
<1>1. Billing!Init => Cancelling /\ OneLive
  BY BilledInit, CeasedInit DEF Cancelling
<1> QED BY <1>1, CancellingStep, PTL DEF Billing!Spec

\* The company is told its subscription is cancelled only when PayPal bills it no more, for good:
\* whatever a webhook, a confirmation, a sweep or a reconcile read before the cancellation and
\* writes after it (cancel, cancelForAdmin, applyRemoteState).
THEOREM CancelledIsNotBilled ==
  ASSUME NoSub \notin Sub
  PROVE  Billing!Spec => [](\A s \in Sub : status[s] \in Gone => paypal[s].status = "CANCELLED")
<1>1. Cancelling => \A s \in Sub : status[s] \in Gone => paypal[s].status = "CANCELLED"
  BY DEF Cancelling, Ceased
<1> QED BY <1>1, CancellingInvariant, PTL

\* Of two subscriptions that PayPal bills at once the rows give one away: it is shown as expired,
\* and while the other is live its next charge is taken for a duplicate's, or as suspended, and
\* its next charge is refused by the index (the safety half of BilledOnce; creditCycle).
THEOREM DuplicateIsKnown ==
  ASSUME NoSub \notin Sub
  PROVE  Billing!Spec =>
           [](\A s, t \in Sub :
                s # t /\ paypal[s].status = "ACTIVE" /\ paypal[t].status = "ACTIVE"
                => status[s] \in {"expired", "suspended"} \/ status[t] \in {"expired", "suspended"})
<1>1. Cancelling /\ OneLive =>
        \A s, t \in Sub : s # t /\ paypal[s].status = "ACTIVE" /\ paypal[t].status = "ACTIVE"
                          => status[s] \in {"expired", "suspended"} \/ status[t] \in {"expired", "suspended"}
  <2>1. Stored => \A s \in Sub : \/ status[s] \in Billing!Live \/ status[s] \in Gone \/ status[s] = "absent"
                                 \/ status[s] \in {"expired", "suspended"}
    BY DEF Stored, Billing!State, Billing!Live, Gone
  <2> QED BY <2>1 DEF Cancelling, Billed, Creating, Ceased, OneLive
<1> QED BY <1>1, CancellingInvariant, PTL

-----------------------------------------------------------------------------
(* The lucky draw *)

CONSTANTS Customer, MaxSpins
VARIABLES running, banned, free, bought, used, granted, winner, entered, order, spin

Draw == INSTANCE LuckyDraw

\* The pools that are bought are those of the periods; a free period has one of its own.
LEMMA Pools ==
  /\ \A b \in Draw!Base : Draw!Bought(b) \in Draw!Pool /\ Draw!base(Draw!Bought(b)) = b /\ 
                            Draw!Bought(b) \notin Draw!Free
  /\ \A p \in Draw!Pool \ Draw!Free : Draw!base(p) \in Draw!Base /\ Draw!Bought(Draw!base(p)) = p
  /\ \A p \in Draw!Free : Draw!base(p) = p /\ p \in Draw!Base /\ p \in Draw!Pool
  /\ \A b, c \in Draw!Base : Draw!Bought(b) = Draw!Bought(c) => b = c
  BY DEF Draw!Base, Draw!Free, Draw!Pool, Draw!base, Draw!Bought

\* One spin at a time is under way.
OneSpin == \A v, w \in Worker : spin[v] # None /\ spin[w] # None => v = w

\* The history of a pool covers what it has now.
Covered ==
  /\ \A p \in Draw!Free : free[p] <= granted[p]
  /\ \A b \in Draw!Base : bought[b] <= granted[Draw!Bought(b)]

\* The spin that is under way has one to draw.
Reserved == \A w \in Worker : spin[w] # None => used[spin[w]] < granted[spin[w]]

Budgeted == Draw!TypeOK /\ OneSpin /\ Covered /\ Reserved /\ Draw!SpinsWithinBudget

LEMMA BudgetedInit == ASSUME MaxSpins \in Nat PROVE Draw!Init => Budgeted
<1> SUFFICES ASSUME MaxSpins \in Nat, Draw!Init PROVE Budgeted
  OBVIOUS
<1>1. Draw!TypeOK
  <2>1. running \in [Draw!Base -> BOOLEAN] /\ banned \in BOOLEAN /\ order \in Draw!Base \cup {None}
    BY DEF Draw!Init
  <2>2. free \in [Draw!Free -> Draw!Count] /\ bought \in [Draw!Base -> Draw!Count]
        /\ granted \in [Draw!Pool -> Draw!Count]
    BY DEF Draw!Init, Draw!Count
  <2>3. used \in [Draw!Pool -> Nat]
    BY DEF Draw!Init
  <2>4. winner \in [Draw!Base -> SUBSET Customer] /\ entered \in SUBSET Customer
    BY DEF Draw!Init
  <2>5. spin \in [Worker -> Draw!Pool \cup {None}]
    BY DEF Draw!Init
  <2> QED BY <2>1, <2>2, <2>3, <2>4, <2>5 DEF Draw!TypeOK
<1>2. OneSpin /\ Reserved
  BY DEF Draw!Init, OneSpin, Reserved
<1>3. Covered /\ Draw!SpinsWithinBudget
  BY Pools DEF Draw!Init, Covered, Draw!SpinsWithinBudget
<1> QED BY <1>1, <1>2, <1>3 DEF Budgeted

\* A pool that has spins left has been granted them.
LEMMA LeftIsGranted ==
  ASSUME Budgeted, MaxSpins \in Nat, NEW p \in Draw!Pool, Draw!Left(p) > 0
  PROVE  used[p] < granted[p]
<1>1. used[p] \in Nat /\ granted[p] \in Nat
  BY DEF Budgeted, Draw!TypeOK, Draw!Count
<1>2. Draw!Spins(p) > used[p]
  BY DEF Draw!Left
<1>3. CASE p \in Draw!Free
  <2>1. free[p] <= granted[p] /\ free[p] \in Nat
    BY <1>3 DEF Budgeted, Covered, Draw!TypeOK, Draw!Count
  <2>2. Draw!Spins(p) = 0 \/ Draw!Spins(p) = free[p]
    BY <1>3 DEF Draw!Spins
  <2> QED BY <1>1, <1>2, <2>1, <2>2
<1>4. CASE p \notin Draw!Free
  <2>1. bought[Draw!base(p)] <= granted[p] /\ bought[Draw!base(p)] \in Nat
    BY <1>4, Pools DEF Budgeted, Covered, Draw!TypeOK, Draw!Count
  <2>2. Draw!Spins(p) = 0 \/ Draw!Spins(p) = bought[Draw!base(p)]
    BY <1>4 DEF Draw!Spins
  <2> QED BY <1>1, <1>2, <2>1, <2>2
<1> QED BY <1>3, <1>4

\* Nothing is drawn, and no pool is granted less.
LEMMA GrantFrame ==
  ASSUME Budgeted, MaxSpins \in Nat, Draw!TypeOK', UNCHANGED <<used, spin>>, Covered',
         \A p \in Draw!Pool : granted[p] <= granted'[p]
  PROVE  Budgeted'
<1>1. \A p \in Draw!Pool : used[p] \in Nat /\ granted[p] \in Nat /\ granted'[p] \in Nat
  BY DEF Budgeted, Draw!TypeOK, Draw!Count
<1>2. \A w \in Worker : spin[w] # None => spin[w] \in Draw!Pool
  BY DEF Budgeted, Draw!TypeOK
<1>3. Reserved'
  BY <1>1, <1>2 DEF Budgeted, Reserved
<1>4. Draw!SpinsWithinBudget'
  BY <1>1 DEF Budgeted, Draw!SpinsWithinBudget
<1> QED BY <1>3, <1>4 DEF Budgeted, OneSpin

\* A period starts, beside no spin: what it counts starts over.
LEMMA PeriodFrame ==
  ASSUME Budgeted, MaxSpins \in Nat, Draw!TypeOK', UNCHANGED spin, Draw!LockFree, Covered',
         \A p \in Draw!Pool : used'[p] = 0 \/ (used'[p] = used[p] /\ granted'[p] = granted[p])
  PROVE  Budgeted'
<1>1. \A p \in Draw!Pool : used[p] \in Nat /\ granted[p] \in Nat /\ granted'[p] \in Nat
  BY DEF Budgeted, Draw!TypeOK, Draw!Count
<1>2. Draw!SpinsWithinBudget'
  BY <1>1 DEF Budgeted, Draw!SpinsWithinBudget
<1> QED BY <1>2 DEF Budgeted, OneSpin, Reserved, Draw!LockFree

LEMMA BudgetedStep ==
  ASSUME Budgeted, [Draw!Next]_(Draw!vars), MaxSpins \in Nat, None \notin Draw!Pool
  PROVE  Budgeted'
<1>0. Draw!TypeOK
  BY DEF Budgeted
<1>1. ASSUME NEW n \in 0 .. MaxSpins, Draw!Comp(n) PROVE Budgeted'
  <2>1. Draw!TypeOK'
    BY <1>0, <1>1 DEF Draw!Comp, Draw!Restart, Draw!TypeOK, Draw!Count, Draw!Base, Draw!Free, Draw!Pool
  <2>2. Covered'
    BY <1>0, <1>1 DEF Draw!Comp, Draw!Restart, Draw!TypeOK, Draw!Count, Budgeted, Covered,
         Draw!Base, Draw!Free, Draw!Pool, Draw!Bought
  <2>3. \A p \in Draw!Pool : used'[p] = 0 \/ (used'[p] = used[p] /\ granted'[p] = granted[p])
    BY <1>0, <1>1 DEF Draw!Comp, Draw!Restart, Draw!TypeOK, Draw!Pool, Draw!base
  <2> QED BY <1>1, <2>1, <2>2, <2>3, PeriodFrame DEF Draw!Comp
<1>2. ASSUME NEW n \in 0 .. MaxSpins, Draw!Plan(n) PROVE Budgeted'
  <2>1. Draw!TypeOK'
    BY <1>0, <1>2 DEF Draw!Plan, Draw!Restart, Draw!TypeOK, Draw!Count, Draw!Base, Draw!Free, Draw!Pool
  <2>2. Covered'
    BY <1>0, <1>2 DEF Draw!Plan, Draw!Restart, Draw!TypeOK, Draw!Count, Budgeted, Covered,
         Draw!Base, Draw!Free, Draw!Pool, Draw!Bought
  <2>3. \A p \in Draw!Pool : used'[p] = 0 \/ (used'[p] = used[p] /\ granted'[p] = granted[p])
    BY <1>0, <1>2 DEF Draw!Plan, Draw!Restart, Draw!TypeOK, Draw!Pool, Draw!base
  <2> QED BY <1>2, <2>1, <2>2, <2>3, PeriodFrame DEF Draw!Plan
<1>3. ASSUME NEW n \in 0 .. MaxSpins, Draw!Adjust(n) \/ Draw!Setting(n) PROVE Budgeted'
  <2>1. PICK p \in Draw!Free : free' = [free EXCEPT ![p] = n] /\ granted' = Draw!Grants(p, n) /\ UNCHANGED bought
    BY <1>3 DEF Draw!Adjust, Draw!Setting, Draw!Free
  <2>2. Draw!TypeOK'
    <3>1. running' \in [Draw!Base -> BOOLEAN]
      BY <1>0, <1>3 DEF Draw!Adjust, Draw!Setting, Draw!TypeOK, Draw!Base
    <3> QED BY <1>0, <1>3, <3>1 DEF Draw!Adjust, Draw!Setting, Draw!Grants, Draw!TypeOK, Draw!Count,
              Draw!Free, Draw!Pool
  <2>3. \A q \in Draw!Pool : granted[q] <= granted'[q] /\ granted[q] \in Int /\ granted'[q] \in Int
    BY <1>0, <2>1 DEF Draw!Grants, Draw!TypeOK, Draw!Count
  <2>4. granted'[p] >= n
    BY <1>0, <2>1, Pools DEF Draw!Grants, Draw!TypeOK, Draw!Count
  <2>5. \A q \in Draw!Free : free'[q] <= granted'[q]
    BY <1>0, <2>1, <2>3, <2>4, Pools DEF Draw!TypeOK, Draw!Count, Budgeted, Covered
  <2>6. \A b \in Draw!Base : bought'[b] <= granted'[Draw!Bought(b)]
    BY <1>0, <2>1, <2>3, Pools DEF Draw!TypeOK, Draw!Count, Budgeted, Covered
  <2>7. UNCHANGED <<used, spin>>
    BY <1>3 DEF Draw!Adjust, Draw!Setting
  <2> QED BY <2>2, <2>3, <2>5, <2>6, <2>7, GrantFrame DEF Covered
<1>4. CASE Draw!Captured
  <2>1. Draw!TypeOK'
    BY <1>0, <1>4, Pools DEF Draw!Captured, Draw!Grants, Draw!TypeOK, Draw!Count
  <2>2. CASE UNCHANGED <<bought, granted>>
    BY <1>0, <1>4, <2>1, <2>2, GrantFrame DEF Draw!Captured, Budgeted, Covered, Draw!TypeOK, Draw!Count
  <2>3. ASSUME order \in Draw!Base, bought' = [bought EXCEPT ![order] = @ + 1],
               granted' = Draw!Grants(Draw!Bought(order), bought[order] + 1)
        PROVE  Budgeted'
    <3>1. \A q \in Draw!Pool : granted[q] <= granted'[q] /\ granted[q] \in Int /\ granted'[q] \in Int
      BY <1>0, <2>3 DEF Draw!Grants, Draw!TypeOK, Draw!Count
    <3>2. granted'[Draw!Bought(order)] >= bought'[order]
      BY <1>0, <2>3, Pools DEF Draw!Grants, Draw!TypeOK, Draw!Count
    <3>3. \A p \in Draw!Free : free'[p] <= granted'[p]
      BY <1>0, <1>4, <3>1, Pools DEF Draw!Captured, Draw!TypeOK, Draw!Count, Budgeted, Covered
    <3>4. \A b \in Draw!Base : bought'[b] <= granted'[Draw!Bought(b)]
      BY <1>0, <2>3, <3>1, <3>2, Pools DEF Draw!TypeOK, Draw!Count, Budgeted, Covered
    <3> QED BY <1>4, <2>1, <3>1, <3>3, <3>4, GrantFrame DEF Draw!Captured, Covered
  <2> QED BY <1>0, <1>4, <2>2, <2>3 DEF Draw!Captured, Draw!TypeOK
<1>5. ASSUME NEW w \in Worker, NEW p \in Draw!Pool, Draw!SpinLock(w, p) PROVE Budgeted'
  <2>1. used[p] < granted[p]
    BY <1>5, LeftIsGranted DEF Draw!SpinLock, Draw!Next1
  <2>2. \A v \in Worker : spin'[v] = IF v = w THEN p ELSE None
    BY <1>0, <1>5 DEF Draw!SpinLock, Draw!LockFree, Draw!TypeOK
  <2>3. Draw!TypeOK'
    BY <1>0, <1>5 DEF Draw!SpinLock, Draw!TypeOK
  <2>4. OneSpin' /\ Reserved'
    BY <1>5, <2>1, <2>2 DEF Draw!SpinLock, OneSpin, Reserved
  <2> QED BY <1>5, <2>3, <2>4 DEF Draw!SpinLock, Budgeted, Covered, Draw!SpinsWithinBudget
<1>6. ASSUME NEW w \in Worker, Draw!SpinWrite(w) \/ Draw!SpinDies(w) PROVE Budgeted'
  <2>1. \A v \in Worker : spin'[v] = None
    BY <1>0, <1>6 DEF Draw!SpinWrite, Draw!SpinDies, Budgeted, OneSpin, Draw!TypeOK
  <2>2. spin[w] \in Draw!Pool /\ spin[w] # None
    BY <1>0, <1>6 DEF Draw!SpinWrite, Draw!SpinDies, Draw!TypeOK
  <2>3. UNCHANGED <<granted, free, bought>>
    BY <1>6 DEF Draw!SpinWrite, Draw!SpinDies
  <2>4. used' = used \/ used' = [used EXCEPT ![spin[w]] = @ + 1]
    BY <1>6 DEF Draw!SpinWrite, Draw!SpinDies
  <2>5. Draw!TypeOK'
    <3>1. winner' = winner \/ \E c \in entered : winner' = [winner EXCEPT ![Draw!base(spin[w])] = @ \cup {c}]
      BY <1>6 DEF Draw!SpinWrite, Draw!SpinDies, Draw!Eligible
    <3>2. winner' \in [Draw!Base -> SUBSET Customer]
      BY <1>0, <3>1 DEF Draw!TypeOK
    <3>3. used' \in [Draw!Pool -> Nat]
      BY <1>0, <2>2, <2>4 DEF Draw!TypeOK
    <3>4. spin' \in [Worker -> Draw!Pool \cup {None}]
      BY <1>0, <1>6 DEF Draw!SpinWrite, Draw!SpinDies, Draw!TypeOK
    <3> QED BY <1>0, <1>6, <3>2, <3>3, <3>4 DEF Draw!SpinWrite, Draw!SpinDies, Draw!TypeOK
  <2>6. Draw!SpinsWithinBudget'
    BY <1>0, <2>2, <2>3, <2>4 DEF Budgeted, Reserved, Draw!SpinsWithinBudget, Draw!TypeOK, Draw!Count
  <2> QED BY <2>1, <2>3, <2>5, <2>6 DEF Budgeted, OneSpin, Reserved, Covered
<1>7. ASSUME \/ \E b \in Draw!Base : Draw!End(b)
             \/ Draw!Trial \/ Draw!Ban \/ Draw!Buy
             \/ \E c \in Customer : Draw!Enter(c)
             \/ UNCHANGED Draw!vars
      PROVE  Budgeted'
  <2>1. UNCHANGED <<free, bought, used, granted, spin>>
    BY <1>7 DEF Draw!End, Draw!Trial, Draw!Ban, Draw!Buy, Draw!Enter, Draw!vars
  <2>2. Draw!TypeOK'
    BY <1>0, <1>7 DEF Draw!End, Draw!Trial, Draw!Ban, Draw!Buy, Draw!Enter, Draw!vars, Draw!TypeOK, Draw!Base, Draw!Free
  <2> QED BY <2>1, <2>2 DEF Budgeted, OneSpin, Covered, Reserved, Draw!SpinsWithinBudget
<1> QED BY <1>1, <1>2, <1>3, <1>4, <1>5, <1>6, <1>7 DEF Draw!Next

LEMMA DrawInvariant == ASSUME MaxSpins \in Nat, None \notin Draw!Pool PROVE Draw!Spec => []Budgeted
  BY BudgetedInit, BudgetedStep, PTL DEF Draw!Spec

\* The counts of the pools and the periods keep their types (draws, companies).
THEOREM DrawTypeCorrect == ASSUME MaxSpins \in Nat, None \notin Draw!Pool PROVE Draw!Spec => []Draw!TypeOK
  BY DrawInvariant, PTL DEF Budgeted

\* However clicks, captures and the changes of an admin interleave, no pool is drawn from
\* more often than the spins it has had (lockCompany).
THEOREM BudgetIsKept == ASSUME MaxSpins \in Nat, None \notin Draw!Pool PROVE Draw!Spec => []Draw!SpinsWithinBudget
  BY DrawInvariant, PTL DEF Budgeted

=============================================================================
