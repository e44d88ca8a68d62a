------------------------------ MODULE Plans ------------------------------
(***************************************************************************)
(* The plan catalogue, the platform's currency and the purchases that refer   *)
(* to a plan.                                                                *)
(*                                                                         *)
(* An admin's edit, hide or show is one database transaction: a first step that *)
(* reads, and locks where the code does, and a second one that writes and        *)
(* commits.  A plan's price stands for its price and duration, the terms that a  *)
(* payment was made on.  A plan is never deleted.                                *)
(***************************************************************************)
EXTENDS Naturals, FiniteSets

CONSTANTS
  Plan, Price,
  Currency, USD,   \* and the one a new platform starts with
  Purchase,    \* checkouts of a plan
  Worker,      \* concurrent requests of admins
  None

VARIABLES
  row,         \* row[p]: the plan's price, currency and the plan it supersedes, or None
  active, archived, popular,   \* the sets of plans with these flags
  currency,    \* the platform's
  switched,    \* plans hidden or being created when the currency changed, and their successors
  checkout,    \* checkout[i]: the plan and the price read, and whether the payment is stored
  txn          \* txn[w]: the admin request's transaction

catalogue == <<row, active, archived, popular>>
vars == <<row, active, archived, popular, currency, switched, checkout, txn>>

Idle   == [op |-> "idle", plan |-> None, to |-> None, paid |-> FALSE]
OnSale == active \ archived
Stored == {p \in Plan : row[p] # None}

Begin(w, op, p, to, paid) ==
  txn' = [txn EXCEPT ![w] = [op |-> op, plan |-> p, to |-> to, paid |-> paid]]
End(w) == txn' = [txn EXCEPT ![w] = Idle]

\* A platform before its first plan, or one that sells.
Init ==
  /\ currency = USD
  /\ \/ row = [p \in Plan |-> None] /\ active = {}
     \/ \E p \in Plan, price \in Price :
          /\ row = [q \in Plan |->
               IF q = p THEN [price |-> price, currency |-> currency, supersedes |-> None]
                        ELSE None]
          /\ active = {p}
  /\ popular \in SUBSET active
  /\ archived = {} /\ switched = {}
  /\ checkout = [i \in Purchase |-> None]
  /\ txn = [w \in Worker |-> Idle]

-----------------------------------------------------------------------------
(* Row locks: an edit holds its plan from the first read to the commit *)

\* Mutant: findByIdForUpdate without its lock.
NoLock(w) == {}

\* findByIdForUpdate.
Locked(w) == IF txn[w].op = "edit" THEN {txn[w].plan} ELSE {}

\* No other request holds any of these rows.
Free(w, ps) == \A v \in Worker \ {w} : Locked(v) \cap ps = {}

\* uq_plans_single_popular: the badge is taken from whoever wears it before it is given.
Badge(w, p, wanted) ==
  IF wanted THEN Free(w, popular) /\ popular' = {p} ELSE popular' = popular \ {p}

-----------------------------------------------------------------------------
(* create *)

CreateOpen(w, p) ==
  /\ txn[w] = Idle /\ row[p] = None /\ \A v \in Worker : txn[v].plan # p
  /\ Begin(w, "create", p, currency, FALSE)
  /\ UNCHANGED <<catalogue, currency, switched, checkout>>

CreateCommit(w, price, on, wanted) ==
  LET p == txn[w].plan IN
  /\ txn[w].op = "create"
  /\ wanted => on
  /\ row' = [row EXCEPT ![p] = [price |-> price, currency |-> txn[w].to, supersedes |-> None]]
  /\ active' = IF on THEN active \cup {p} ELSE active
  /\ Badge(w, p, wanted)
  /\ End(w)
  /\ UNCHANGED <<archived, currency, switched, checkout>>

-----------------------------------------------------------------------------
(* update *)

Paid(p) == \E i \in Purchase : checkout[i] # None /\ checkout[i].stored /\ checkout[i].plan = p

\* Mutant: billing history is not looked for.
NoHistory(p) == FALSE

\* carriesHistory, of payments that are stored by now.
CarriesHistory(p) == Paid(p)

EditOpen(w, p, price) ==
  /\ txn[w] = Idle /\ p \in Stored
  /\ p \notin archived /\ Free(w, {p})
  /\ Begin(w, "edit", p, price, price # row[p].price /\ CarriesHistory(p))
  /\ UNCHANGED <<catalogue, currency, switched, checkout>>

\* Nothing that was paid for changes: the row itself is updated.
EditInPlace(w, wanted) ==
  LET p == txn[w].plan IN
  /\ txn[w].op = "edit" /\ ~txn[w].paid
  /\ wanted => p \in active
  /\ row' = [row EXCEPT ![p].price = txn[w].to]
  /\ Badge(w, p, wanted)
  /\ End(w)
  /\ UNCHANGED <<active, archived, currency, switched, checkout>>

\* The plan is archived, and a successor q with the new price takes its place.
EditVersion(w, q, wanted) ==
  LET p == txn[w].plan IN
  /\ txn[w].op = "edit" /\ txn[w].paid
  /\ row[q] = None /\ \A v \in Worker : txn[v].plan # q
  /\ wanted => p \in active
  /\ row' = [row EXCEPT ![q] = [row[p] EXCEPT !.price = txn[w].to, !.supersedes = p]]
  /\ active' = (active \ {p}) \cup (IF p \in active THEN {q} ELSE {})
  /\ archived' = archived \cup {p}
  \* Without the predecessor's badge, another holder's makes the insert fail.
  /\ IF wanted THEN popular \subseteq {p} /\ popular' = {q} ELSE popular' = popular \ {p}
  /\ switched' = IF p \in switched THEN switched \cup {q} ELSE switched
  /\ End(w)
  /\ UNCHANGED <<currency, checkout>>

\* Any request may be refused, fail, or be given up.
Abort(w) ==
  /\ txn[w] # Idle
  /\ End(w)
  /\ UNCHANGED <<catalogue, currency, switched, checkout>>

-----------------------------------------------------------------------------
(* setActive *)

\* findByIdAnyState: the plan is read without a lock.
HideOpen(w, p) ==
  /\ txn[w] = Idle /\ p \in active
  /\ Begin(w, "hide", p, None, Cardinality(active) > 1)
  /\ UNCHANGED <<catalogue, currency, switched, checkout>>

\* Mutant: the plans on sale are counted without a lock, before another hides one.
OthersRead(w) == txn[w].paid

\* countActiveForUpdate waits for the rows and counts those still active.
OthersActive(w) == Free(w, active) /\ Cardinality(active) > 1

HideCommit(w) ==
  LET p == txn[w].plan IN
  /\ txn[w].op = "hide"
  /\ OthersActive(w)
  /\ active' = active \ {p} /\ popular' = popular \ {p}
  /\ End(w)
  /\ UNCHANGED <<row, archived, currency, switched, checkout>>

ShowOpen(w, p) ==
  /\ txn[w] = Idle /\ p \in (Stored \ active) \ archived
  /\ Begin(w, "show", p, None, FALSE)
  /\ UNCHANGED <<catalogue, currency, switched, checkout>>

\* Neither an edit that has archived the plan nor its currency is looked at again.
ShowCommit(w) ==
  LET p == txn[w].plan IN
  /\ txn[w].op = "show" /\ Free(w, {p})
  /\ active' = active \cup {p}
  /\ End(w)
  /\ UNCHANGED <<row, archived, popular, currency, switched, checkout>>

-----------------------------------------------------------------------------
(* setPlatformCurrency *)

\* Mutant: plans priced in the old currency are not looked for.
NoBlocking(c) == {}

\* countSellablePlansNotIn.
Blocking(c) == {p \in OnSale : row[p].currency # c}

SetPlatformCurrency(c) ==
  /\ currency = USD /\ c # USD   \* bound: one change
  /\ Blocking(c) = {}
  /\ currency' = c
  /\ switched' = switched \cup (Stored \ OnSale)
                 \cup {txn[w].plan : w \in {v \in Worker : txn[v].op = "create"}}
  /\ UNCHANGED <<catalogue, checkout, txn>>

-----------------------------------------------------------------------------
(* initiatePayment *)

Buy(i, p) ==
  /\ checkout[i] = None /\ p \in OnSale
  /\ checkout' = [checkout EXCEPT ![i] =
       [plan |-> p, price |-> row[p].price, stored |-> FALSE, late |-> FALSE]]
  /\ UNCHANGED <<catalogue, currency, switched, txn>>

\* PayPal has made the order.  The payment's foreign key waits for an edit of its plan.
Store(i) ==
  LET c == checkout[i] IN
  /\ c # None /\ ~c.stored
  /\ \A w \in Worker : c.plan \notin Locked(w)
  /\ checkout' = [checkout EXCEPT ![i].stored = TRUE, ![i].late = row[c.plan].price # c.price]
  /\ UNCHANGED <<catalogue, currency, switched, txn>>

Next ==
  \/ \E w \in Worker :
       \/ \E p \in Plan : CreateOpen(w, p) \/ HideOpen(w, p) \/ ShowOpen(w, p)
       \/ \E p \in Plan, price \in Price : EditOpen(w, p, price)
       \/ \E price \in Price, on, wanted \in BOOLEAN : CreateCommit(w, price, on, wanted)
       \/ \E wanted \in BOOLEAN : EditInPlace(w, wanted)
       \/ \E q \in Plan, wanted \in BOOLEAN : EditVersion(w, q, wanted)
       \/ HideCommit(w) \/ ShowCommit(w) \/ Abort(w)
  \/ \E c \in Currency : SetPlatformCurrency(c)
  \/ \E i \in Purchase : Store(i) \/ \E p \in Plan : Buy(i, p)

Spec == Init /\ [][Next]_vars

-----------------------------------------------------------------------------

\* Rows, flags, checkouts and transactions have their types.
TypeOK ==
  /\ \A p \in Plan : row[p] # None =>
       row[p] \in [price : Price, currency : Currency, supersedes : Plan \cup {None}]
  /\ active \subseteq Stored /\ archived \subseteq Stored
  /\ currency \in Currency /\ switched \subseteq Plan
  /\ \A i \in Purchase : checkout[i] # None =>
       checkout[i] \in [plan : Plan, price : Price, stored : BOOLEAN, late : BOOLEAN]
  /\ \A w \in Worker :
       txn[w] \in [op : {"idle", "create", "edit", "hide", "show"}, plan : Plan \cup {None},
                   to : Price \cup Currency \cup {None}, paid : BOOLEAN]

\* "A receipt for a R250 purchase would start claiming the new price" (PlanService.update):
\* the plan of a stored payment keeps the price it was sold at, unless an edit overtook
\* the checkout; and "an orphaned live plan nobody knows about": no plan is ever
\* succeeded by two.
HistoryKept ==
  /\ \A i \in Purchase : checkout[i] # None =>
       (checkout[i].stored /\ ~checkout[i].late => row[checkout[i].plan].price = checkout[i].price)
  /\ \A p, q \in Stored :
       (row[p].supersedes = row[q].supersedes /\ row[p].supersedes # None) => p = q

\* "With no active plan the billing page has nothing to sell" (setActive): a platform that
\* sells something never stops to, unless an archived plan was put back on sale by a race
\* and is counted as one; one plan at most wears the badge, and customers can see it; and
\* only a plan that was hidden or being created when the currency changed, or the
\* successor of one, has another currency than the platform's.
BillingPage ==
  /\ [][OnSale # {} /\ active \cap archived = {} => OnSale' # {}]_vars
  /\ [](popular \subseteq OnSale /\ Cardinality(popular) <= 1)
  /\ [](\A p \in OnSale \ switched : row[p].currency = currency)

=============================================================================
