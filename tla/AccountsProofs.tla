--------------------------- MODULE AccountsProofs ---------------------------
(***************************************************************************)
(* The counter: totals, cooldown and closing of an account, for any number *)
(* of mobiles, vehicles, invoices, purchases and requests; `None` is not a *)
(* customer, and the purchases are finitely many.  Then the run `accounts`:*)
(* what is proved of each module holds of the behaviours the run puts      *)
(* together.                                                               *)
(***************************************************************************)
EXTENDS MCAccounts, TLAPS, FiniteSetTheorems

-----------------------------------------------------------------------------
(* The invariant *)

CompanyRow  == [open : BOOLEAN, asked : {"no", "new", "due"}, closed : BOOLEAN]
CustomerRow == [exists : BOOLEAN, count : Nat, recent : BOOLEAN]
PurchaseRow == [state : {"none", "live", "voided", "erased"}, by : Customer \cup {None},
                invoice : Invoice \cup {None}, fresh : BOOLEAN, late : BOOLEAN]
Request     == [task : {"none", "submit", "void", "ask"}, step : {"idle", "read", "checked"},
                by : Customer \cup {None}, invoice : Invoice \cup {None},
                purchase : Purchase \cup {None}, known : BOOLEAN, late : BOOLEAN]

\* TypeOK without a bound on the count.
Rows ==
  /\ company \in CompanyRow /\ customer \in [Customer -> CustomerRow]
  /\ purchase \in [Purchase -> PurchaseRow] /\ job \in [Worker -> Request]
  /\ due \in BOOLEAN

Task(w)    == job[w].task
Checked(w) == job[w].task = "submit" /\ job[w].step = "checked"

\* A request that voids has a live purchase to itself; one that submits is a customer's.
Claims ==
  /\ \A w \in Worker : Task(w) = "void" => job[w].purchase \in Purchase /\ Live(job[w].purchase)
  /\ \A v, w \in Worker : Task(v) = "void" /\ Task(w) = "void" /\ job[v].purchase = job[w].purchase
                          => v = w
  /\ \A w \in Worker : Task(w) = "submit" => job[w].by \in Customer

\* A fresh purchase keeps its mobile number cool, and a checked submission has it alone.
Cooling ==
  /\ \A p \in Purchase : purchase[p].fresh =>
       purchase[p].by \in Customer /\ customer[purchase[p].by].exists /\ customer[purchase[p].by].recent
  /\ \A p, q \in Purchase : purchase[p].fresh /\ purchase[q].fresh
                            /\ purchase[p].by[1] = purchase[q].by[1] => p = q
  /\ \A w \in Worker : Checked(w) => ~Recent(job[w].by[1])
  /\ \A v, w \in Worker : Checked(v) /\ Checked(w) /\ job[v].by[1] = job[w].by[1] => v = w

\* A closed account was asked for; what is left or still to come in it is late.
Closing ==
  company.closed =>
    /\ company.asked # "no"
    /\ \A p \in Purchase : purchase[p].state \in {"live", "voided"} => purchase[p].late
    /\ \A w \in Worker : Task(w) = "submit" => job[w].late

\* The totals agree; only a customer's purchase counts, and none is fresh before it is made.
Totals ==
  /\ TotalsAgree
  /\ \A p \in Purchase : /\ Live(p) => purchase[p].by \in Customer
                         /\ purchase[p].state = "none" => ~purchase[p].fresh

Counted == Rows /\ Claims /\ Cooling /\ Closing /\ Totals

\* The purchases a customer's total counts.
Mine(c) == {p \in Purchase : Live(p) /\ purchase[p].by = c}

LEMMA CountOf == \A c : Count(c) = Cardinality(Mine(c))
  BY DEF Count, Mine

LEMMA MineFinite == ASSUME IsFiniteSet(Purchase) PROVE \A c : IsFiniteSet(Mine(c)) /\ Count(c) \in Nat
  BY FS_Subset, FS_CardinalityType, CountOf DEF Mine

LEMMA Customers == \A c \in Customer : c[1] \in Mobile /\ c[2] \in Vehicle /\ c = <<c[1], c[2]>>
  BY DEF Customer

LEMMA RestingType == Resting \in Request /\ Resting.task = "none" /\ Resting.step = "idle"
  BY DEF Resting, Request

LEMMA CountedInit == ASSUME IsFiniteSet(Purchase) PROVE Init => Counted
<1> SUFFICES ASSUME Init PROVE Counted
  OBVIOUS
<1>1. NoCustomer \in CustomerRow /\ NoPurchase \in PurchaseRow
  BY DEF NoCustomer, NoPurchase, CustomerRow, PurchaseRow
<1>2. Rows
  BY <1>1, RestingType DEF Init, Rows, CompanyRow
<1>3. Claims /\ Cooling /\ Closing
  BY RestingType DEF Init, Claims, Cooling, Closing, Task, Checked, NoPurchase
<1>4. \A c : Mine(c) = {}
  BY DEF Init, Mine, Live, NoPurchase
<1>5. Totals
  BY <1>4, CountOf, FS_EmptySet DEF Init, Totals, TotalsAgree, Live, NoPurchase, NoCustomer
<1> QED BY <1>2, <1>3, <1>5 DEF Counted

-----------------------------------------------------------------------------
(* The steps *)

\* Rows stay; requests rest, or begin to ask for deletion, or stay where they are.
LEMMA Quiet ==
  ASSUME Counted, Rows', UNCHANGED <<customer, purchase>>,
         \A w \in Worker : job'[w] = job[w] \/ job'[w].task \in {"none", "ask"},
         company'.closed = company.closed,
         company.closed => company'.asked # "no"
  PROVE  Counted'
<1>1. Claims'
  BY DEF Counted, Claims, Task, Live
<1>2. Cooling'
  BY DEF Counted, Cooling, Checked, Recent
<1>3. Closing'
  BY DEF Counted, Closing, Task
<1>4. Totals'
  BY DEF Counted, Totals, TotalsAgree, Count, Live
<1> QED BY <1>1, <1>2, <1>3, <1>4 DEF Counted

LEMMA Reads ==
  ASSUME Counted, NEW w \in Worker, NEW c \in Customer, NEW i \in Invoice, SubmitRead(w, c, i)
  PROVE  Counted'
<1> DEFINE r == [Resting EXCEPT !.task = "submit", !.step = "read", !.by = c, !.invoice = i]
<1>1. r \in Request /\ r.task = "submit" /\ r.step = "read" /\ r.by = c
  BY DEF Resting, Request
<1>2. job' = [job EXCEPT ![w] = r] /\ UNCHANGED <<company, customer, purchase, due>> /\ ~company.closed
  BY DEF SubmitRead
<1> HIDE DEF r
<1>3. Rows' /\ \A v \in Worker : job'[v] = IF v = w THEN r ELSE job[v]
  BY <1>1, <1>2 DEF Counted, Rows
<1>4. Claims'
  BY <1>1, <1>2, <1>3 DEF Counted, Claims, Task, Live
<1>5. Cooling'
  <2>1. \A v \in Worker : Checked(v)' => Checked(v) /\ job'[v] = job[v]
    BY <1>1, <1>3 DEF Checked
  <2>2. \A m : Recent(m)' = Recent(m)
    BY <1>2 DEF Recent
  <2> QED BY <1>2, <2>1, <2>2 DEF Counted, Cooling
<1>6. Closing'
  BY <1>2 DEF Closing
<1>7. Totals'
  BY <1>2 DEF Counted, Totals, TotalsAgree, Count, Live
<1> QED BY <1>3, <1>4, <1>5, <1>6, <1>7 DEF Counted

\* Of two submissions that pass their checks, one waits for the other's mobile number.
LEMMA Checks ==
  ASSUME Counted, NEW w \in Worker, SubmitCheck(w)
  PROVE  Counted'
<1> DEFINE c == job[w].by
<1>1. UNCHANGED <<company, customer, purchase, due>> /\ Task(w) = "submit" /\ c \in Customer
  BY DEF SubmitCheck, Counted, Claims, Task
<1>2. CASE Rest(w)
  <2>1. job' = [job EXCEPT ![w] = Resting]
    BY <1>2 DEF Rest
  <2>2. Rows' /\ \A v \in Worker : job'[v] = IF v = w THEN Resting ELSE job[v]
    BY <1>1, <2>1, RestingType DEF Counted, Rows
  <2>3. company.closed => company.asked # "no"
    BY DEF Counted, Closing
  <2> QED BY <1>1, <2>2, <2>3, RestingType, Quiet
<1>3. CASE job' = [job EXCEPT ![w].step = "checked", ![w].known = customer[c].exists] /\ ~Recent(c[1])
  <2>1. \A v \in Worker \ {w} : Checked(v) => job[v].by[1] # c[1]
    BY DEF SubmitCheck, Checked, SameEntry
  <2>2. customer[c].exists \in BOOLEAN
    BY <1>1 DEF Counted, Rows, CustomerRow
  <2>3. [job[w] EXCEPT !.step = "checked", !.known = customer[c].exists] \in Request
    BY <2>2 DEF Counted, Rows, Request
  <2>4. job' = [job EXCEPT ![w] = [job[w] EXCEPT !.step = "checked", !.known = customer[c].exists]]
    BY <1>3 DEF Counted, Rows
  <2>5. Rows'
    BY <1>1, <2>3, <2>4 DEF Counted, Rows
  <2>6. \A v \in Worker : /\ job'[v].task = job[v].task /\ job'[v].by = job[v].by
                          /\ job'[v].purchase = job[v].purchase /\ job'[v].late = job[v].late
                          /\ v # w => job'[v] = job[v]
    BY <1>3 DEF Counted, Rows, Request
  <2>7. Claims' /\ Closing'
    BY <1>1, <2>6 DEF Counted, Claims, Closing, Task, Live
  <2>8. \A v \in Worker : Checked(v)' => v = w \/ Checked(v)
    BY <2>6 DEF Checked
  <2>9. \A m : Recent(m)' = Recent(m)
    BY <1>1 DEF Recent
  <2>10. \A v \in Worker : Checked(v)' => ~Recent(job[v].by[1])'
    <3>1. \A v \in Worker : Checked(v)' => ~Recent(job[v].by[1])
      BY <1>3, <2>8 DEF Counted, Cooling
    <3> QED BY <2>6, <2>9, <3>1
  <2>11. \A u, v \in Worker : Checked(u)' /\ Checked(v)' /\ job'[u].by[1] = job'[v].by[1] => u = v
    BY <2>1, <2>6, <2>8 DEF Counted, Cooling
  <2>12. Cooling'
    BY <1>1, <2>10, <2>11 DEF Counted, Cooling
  <2>13. Totals'
    BY <1>1 DEF Counted, Totals, TotalsAgree, Count, Live
  <2> QED BY <2>5, <2>7, <2>12, <2>13 DEF Counted
<1> QED BY <1>2, <1>3 DEF SubmitCheck

\* A new purchase is one more of its customer's, and the only fresh one of the mobile.
LEMMA Writes ==
  ASSUME IsFiniteSet(Purchase), None \notin Customer, Counted, NEW w \in Worker, SubmitWrite(w)
  PROVE  Counted'
<1>0. PICK c \in Customer : c = job[w].by
  BY DEF SubmitWrite, Counted, Claims, Task
<1>1. Checked(w) /\ UNCHANGED <<company, due>>
  BY DEF SubmitWrite, Checked
<1>2. job' = [job EXCEPT ![w] = Resting]
  BY DEF SubmitWrite, Rest
<1>3. /\ job' \in [Worker -> Request]
      /\ \A v \in Worker : job'[v] = IF v = w THEN Resting ELSE job[v]
  BY <1>2, RestingType DEF Counted, Rows
<1>4. CASE UNCHANGED <<customer, purchase>>
  <2>1. Rows'
    BY <1>1, <1>3, <1>4 DEF Counted, Rows
  <2>2. company.closed => company.asked # "no"
    BY DEF Counted, Closing
  <2> QED BY <1>1, <1>3, <1>4, <2>1, <2>2, RestingType, Quiet
<1>5. ASSUME NEW p \in Purchase, purchase[p].state = "none",
             purchase' = [purchase EXCEPT ![p] = [state |-> "live", by |-> c, invoice |-> job[w].invoice,
                                                  fresh |-> TRUE, late |-> job[w].late]],
             customer' = [customer EXCEPT ![c] = [exists |-> TRUE, count |-> @.count + 1, recent |-> TRUE]]
      PROVE  Counted'
  <2>1. /\ \A q \in Purchase \ {p} : purchase'[q] = purchase[q]
        /\ purchase'[p].state = "live" /\ purchase'[p].by = c /\ purchase'[p].fresh
        /\ purchase'[p].late = job[w].late
    BY <1>5 DEF Counted, Rows
  <2>2. /\ \A d \in Customer \ {c} : customer'[d] = customer[d]
        /\ customer'[c].exists /\ customer'[c].recent /\ customer'[c].count = customer[c].count + 1
    BY <1>1, <1>5 DEF Counted, Rows
  <2>3. Rows'
    <3>1. [state |-> "live", by |-> c, invoice |-> job[w].invoice, fresh |-> TRUE, late |-> job[w].late]
            \in PurchaseRow
      BY <1>0 DEF PurchaseRow, Counted, Rows, Request
    <3>2. [exists |-> TRUE, count |-> customer[c].count + 1, recent |-> TRUE] \in CustomerRow
      BY <1>1 DEF CustomerRow, Counted, Rows
    <3> QED BY <1>1, <1>3, <1>5, <3>1, <3>2 DEF Counted, Rows
  <2>4. Claims'
    <3>1. \A v \in Worker : job'[v].task # "none" => job'[v] = job[v]
      BY <1>3, RestingType
    <3>2. \A q \in Purchase : Live(q) => Live(q)'
      BY <2>1 DEF Live
    <3> QED BY <3>1, <3>2 DEF Counted, Claims, Task
  <2>5. \A m \in Mobile : Recent(m)' => Recent(m) \/ m = c[1]
    BY <1>0, <2>2, Customers DEF Recent, Customer
  <2>6. \A v \in Worker : Checked(v)' => v # w /\ Checked(v) /\ job'[v] = job[v]
    BY <1>3, RestingType DEF Checked
  <2>7. \A q \in Purchase : purchase[q].fresh => purchase[q].by[1] # c[1]
    <3> SUFFICES ASSUME NEW q \in Purchase, purchase[q].fresh, purchase[q].by[1] = c[1] PROVE FALSE
      OBVIOUS
    <3>1. purchase[q].by \in Customer /\ customer[purchase[q].by].exists /\ customer[purchase[q].by].recent
      BY DEF Counted, Cooling
    <3>2. Recent(c[1])
      BY <3>1, Customers DEF Recent
    <3> QED BY <1>0, <1>1, <3>2 DEF Counted, Cooling
  <2>8. Cooling'
    <3>1. \A q \in Purchase : purchase'[q].fresh =>
            purchase'[q].by \in Customer /\ customer'[purchase'[q].by].exists
                                         /\ customer'[purchase'[q].by].recent
      BY <1>1, <2>1, <2>2 DEF Counted, Cooling
    <3>2. \A q, r \in Purchase : purchase'[q].fresh /\ purchase'[r].fresh
                                 /\ purchase'[q].by[1] = purchase'[r].by[1] => q = r
      BY <2>1, <2>7 DEF Counted, Cooling
    <3>3. \A v \in Worker : Checked(v)' => ~Recent(job[v].by[1])'
      <4> SUFFICES ASSUME NEW v \in Worker, Checked(v)' PROVE ~Recent(job[v].by[1])'
        OBVIOUS
      <4>1. v # w /\ Checked(v) /\ job'[v] = job[v]
        BY <2>6
      <4>2. job[v].by \in Customer /\ job[v].by[1] # c[1] /\ ~Recent(job[v].by[1])
        BY <1>0, <1>1, <4>1 DEF Counted, Cooling, Claims, Checked, Task
      <4> QED BY <2>5, <4>1, <4>2, Customers
    <3>4. \A u, v \in Worker : Checked(u)' /\ Checked(v)' /\ job'[u].by[1] = job'[v].by[1] => u = v
      BY <2>6 DEF Counted, Cooling
    <3> QED BY <3>1, <3>2, <3>3, <3>4 DEF Cooling
  <2>9. Closing'
    <3>1. job[w].late \/ ~company.closed
      BY <1>1 DEF Counted, Closing, Task, Checked
    <3>2. \A v \in Worker : job'[v].task = "submit" => job'[v] = job[v]
      BY <1>3, RestingType
    <3>3. \A q \in Purchase : company.closed /\ purchase'[q].state \in {"live", "voided"} => purchase'[q].late
      BY <2>1, <3>1 DEF Counted, Closing
    <3>4. company' = company
      BY <1>1
    <3>5. ASSUME company.closed PROVE /\ company.asked # "no"
                                      /\ \A v \in Worker : job'[v].task = "submit" => job'[v].late
      BY <3>2, <3>5 DEF Counted, Closing, Task
    <3> QED BY <3>3, <3>4, <3>5 DEF Closing, Task
  <2>10. Mine(c)' = Mine(c) \cup {p} /\ p \notin Mine(c)
    BY <1>5, <2>1 DEF Mine, Live
  <2>11. \A d \in Customer \ {c} : Mine(d)' = Mine(d)
    BY <1>5, <2>1 DEF Mine, Live
  <2>12. \A d \in Customer : Cardinality(Mine(d)') = customer'[d].count
    <3> SUFFICES ASSUME NEW d \in Customer PROVE Cardinality(Mine(d)') = customer'[d].count
      OBVIOUS
    <3>1. Cardinality(Mine(d)) = customer[d].count /\ IsFiniteSet(Mine(d))
      BY CountOf, MineFinite DEF Counted, Totals, TotalsAgree
    <3>2. CASE d = c
      <4>1. Cardinality(Mine(c)') = Cardinality(Mine(c)) + 1
        BY <2>10, <3>1, <3>2, FS_AddElement
      <4> QED BY <2>2, <3>1, <3>2, <4>1
    <3>3. CASE d # c
      BY <2>2, <2>11, <3>1, <3>3
    <3> QED BY <3>2, <3>3
  <2>13. Totals'
    BY <1>1, <2>1, <2>12 DEF Counted, Totals, TotalsAgree, Count, Mine, Live
  <2> QED BY <2>3, <2>4, <2>8, <2>9, <2>13 DEF Counted
<1> QED BY <1>0, <1>4, <1>5 DEF SubmitWrite

LEMMA Cools ==
  ASSUME None \notin Customer, Counted, NEW m \in Mobile, CooldownOver(m)
  PROVE  Counted'
<1>1. /\ customer' = [c \in Customer |-> IF c[1] = m THEN [customer[c] EXCEPT !.recent = FALSE] ELSE customer[c]]
      /\ purchase' = [p \in Purchase |-> IF purchase[p].by # None /\ purchase[p].by[1] = m
                                         THEN [purchase[p] EXCEPT !.fresh = FALSE] ELSE purchase[p]]
      /\ UNCHANGED <<company, job, due>>
  BY DEF CooldownOver
<1>2. Rows'
  <2>1. \A c \in Customer : customer[c] \in CustomerRow /\ [customer[c] EXCEPT !.recent = FALSE] \in CustomerRow
    BY DEF Counted, Rows, CustomerRow
  <2>2. \A p \in Purchase : purchase[p] \in PurchaseRow /\ [purchase[p] EXCEPT !.fresh = FALSE] \in PurchaseRow
    BY DEF Counted, Rows, PurchaseRow
  <2> QED BY <1>1, <2>1, <2>2 DEF Counted, Rows
<1>3. \A c \in Customer : /\ customer'[c].exists = customer[c].exists
                          /\ customer'[c].count = customer[c].count
                          /\ customer'[c].recent => customer[c].recent
                          /\ c[1] # m => customer'[c].recent = customer[c].recent
  BY <1>1 DEF Counted, Rows, CustomerRow
<1>4. \A p \in Purchase : /\ purchase'[p].state = purchase[p].state /\ purchase'[p].by = purchase[p].by
                          /\ purchase'[p].late = purchase[p].late
  BY <1>1 DEF Counted, Rows, PurchaseRow
<1>5. \A p \in Purchase : purchase'[p].fresh =>
        purchase[p].fresh /\ purchase[p].by \in Customer /\ purchase[p].by[1] # m
  <2> SUFFICES ASSUME NEW p \in Purchase, purchase'[p].fresh
               PROVE  purchase[p].fresh /\ purchase[p].by \in Customer /\ purchase[p].by[1] # m
    OBVIOUS
  <2>1. CASE purchase[p].by # None /\ purchase[p].by[1] = m
    <3>1. purchase'[p] = [purchase[p] EXCEPT !.fresh = FALSE]
      BY <1>1, <2>1
    <3>2. purchase'[p].fresh = FALSE
      BY <3>1 DEF Counted, Rows, PurchaseRow
    <3> QED BY <3>2
  <2>2. CASE ~(purchase[p].by # None /\ purchase[p].by[1] = m)
    <3>1. purchase'[p] = purchase[p]
      BY <1>1, <2>2
    <3>2. purchase[p].fresh /\ purchase[p].by \in Customer
      BY <3>1 DEF Counted, Cooling
    <3> QED BY <2>2, <3>2
  <2> QED BY <2>1, <2>2
<1>6. Claims' /\ Closing'
  BY <1>1, <1>4 DEF Counted, Claims, Closing, Task, Live
<1>7. \A n \in Mobile : Recent(n)' => Recent(n)
  BY <1>3 DEF Recent, Customer
<1>8. Cooling'
  <2>1. \A p \in Purchase : purchase'[p].fresh =>
          purchase'[p].by \in Customer /\ customer'[purchase'[p].by].exists /\ customer'[purchase'[p].by].recent
    BY <1>3, <1>4, <1>5 DEF Counted, Cooling
  <2>2. \A p, q \in Purchase : purchase'[p].fresh /\ purchase'[q].fresh
                               /\ purchase'[p].by[1] = purchase'[q].by[1] => p = q
    BY <1>4, <1>5 DEF Counted, Cooling
  <2>3. \A w \in Worker : Checked(w) => job[w].by[1] \in Mobile
    BY Customers DEF Counted, Claims, Checked, Task
  <2>4. \A w \in Worker : Checked(w)' => ~Recent(job[w].by[1])'
    <3> SUFFICES ASSUME NEW w \in Worker, Checked(w)' PROVE ~Recent(job[w].by[1])'
      OBVIOUS
    <3>1. Checked(w) /\ job'[w] = job[w]
      BY <1>1 DEF Checked
    <3>2. ~Recent(job[w].by[1]) /\ job[w].by[1] \in Mobile
      BY <2>3, <3>1 DEF Counted, Cooling
    <3> QED BY <1>7, <3>1, <3>2
  <2> QED BY <1>1, <2>1, <2>2, <2>4 DEF Counted, Cooling, Checked
<1>9. \A c : Mine(c)' = Mine(c)
  BY <1>4 DEF Mine, Live
<1>10. Totals'
  <2>1. TotalsAgree'
    BY <1>3, <1>9 DEF Counted, Totals, TotalsAgree, Count, Mine
  <2>2. \A p \in Purchase : Live(p)' => purchase'[p].by \in Customer
    BY <1>4 DEF Counted, Totals, Live
  <2>3. \A p \in Purchase : purchase'[p].state = "none" => ~purchase'[p].fresh
    BY <1>4, <1>5 DEF Counted, Totals
  <2> QED BY <2>1, <2>2, <2>3 DEF Totals
<1> QED BY <1>2, <1>6, <1>8, <1>10 DEF Counted

LEMMA VoidReads ==
  ASSUME Counted, NEW w \in Worker, NEW p \in Purchase, VoidRead(w, p)
  PROVE  Counted'
<1> DEFINE r == [Resting EXCEPT !.task = "void", !.step = "checked", !.purchase = p]
<1>1. r \in Request /\ r.task = "void" /\ r.purchase = p
  BY DEF Resting, Request
<1>2. /\ job' = [job EXCEPT ![w] = r] /\ UNCHANGED <<company, customer, purchase, due>>
      /\ Live(p) /\ \A v \in Worker : Task(v) = "void" => job[v].purchase # p
  BY DEF VoidRead, Voidable, Voiding, Task
<1> HIDE DEF r
<1>3. Rows' /\ \A v \in Worker : job'[v] = IF v = w THEN r ELSE job[v]
  BY <1>1, <1>2 DEF Counted, Rows
<1>4. Claims'
  BY <1>1, <1>2, <1>3 DEF Counted, Claims, Task, Live
<1>5. \A v \in Worker : Checked(v)' => Checked(v) /\ job'[v] = job[v]
  BY <1>1, <1>3 DEF Checked
<1>6. \A m : Recent(m)' = Recent(m)
  BY <1>2 DEF Recent
<1>7. Cooling'
  BY <1>2, <1>5, <1>6 DEF Counted, Cooling
<1>8. Closing'
  BY <1>1, <1>2, <1>3 DEF Counted, Closing, Task
<1>9. Totals'
  BY <1>2 DEF Counted, Totals, TotalsAgree, Count, Live
<1> QED BY <1>3, <1>4, <1>7, <1>8, <1>9 DEF Counted

\* The purchase is still live, and its customer has counted it.
LEMMA VoidWrites ==
  ASSUME IsFiniteSet(Purchase), Counted, NEW w \in Worker, VoidWrite(w)
  PROVE  Counted'
<1>1. PICK p \in Purchase : p = job[w].purchase /\ Live(p)
  BY DEF VoidWrite, Counted, Claims, Task
<1>2. PICK c \in Customer : c = purchase[p].by
  BY <1>1 DEF Counted, Totals
<1>3. /\ purchase' = [purchase EXCEPT ![p].state = "voided"]
      /\ customer' = [customer EXCEPT ![c].count = IF @ > 0 THEN @ - 1 ELSE 0]
      /\ job' = [job EXCEPT ![w] = Resting]
      /\ UNCHANGED <<company, due>> /\ Task(w) = "void"
  BY <1>1, <1>2 DEF VoidWrite, Rest, Task
<1>4. \A v \in Worker : job'[v] = IF v = w THEN Resting ELSE job[v]
  BY <1>3 DEF Counted, Rows
<1>5. \A q \in Purchase : /\ purchase'[q].by = purchase[q].by /\ purchase'[q].fresh = purchase[q].fresh
                          /\ purchase'[q].late = purchase[q].late
                          /\ purchase'[q].state = IF q = p THEN "voided" ELSE purchase[q].state
  BY <1>3 DEF Counted, Rows, PurchaseRow
<1>6. \A d \in Customer : /\ customer'[d].exists = customer[d].exists
                          /\ customer'[d].recent = customer[d].recent
                          /\ customer'[d].count = IF d # c THEN customer[d].count
                                                  ELSE IF customer[c].count > 0 THEN customer[c].count - 1 ELSE 0
  BY <1>3 DEF Counted, Rows, CustomerRow
<1>7. Rows'
  <2>1. [purchase[p] EXCEPT !.state = "voided"] \in PurchaseRow
    BY DEF Counted, Rows, PurchaseRow
  <2>2. \E n \in Nat : customer' = [customer EXCEPT ![c] = [customer[c] EXCEPT !.count = n]]
    <3>1. customer[c].count \in Nat
      BY DEF Counted, Rows, CustomerRow
    <3>2. (IF customer[c].count > 0 THEN customer[c].count - 1 ELSE 0) \in Nat
      BY <3>1
    <3> QED BY <1>3, <3>2 DEF Counted, Rows
  <2>3. \A n \in Nat : [customer[c] EXCEPT !.count = n] \in CustomerRow
    BY DEF Counted, Rows, CustomerRow
  <2>4. customer' \in [Customer -> CustomerRow]
    BY <2>2, <2>3 DEF Counted, Rows
  <2>5. purchase' = [purchase EXCEPT ![p] = [purchase[p] EXCEPT !.state = "voided"]]
    BY <1>3 DEF Counted, Rows
  <2>6. purchase' \in [Purchase -> PurchaseRow]
    BY <2>1, <2>5 DEF Counted, Rows
  <2> QED BY <1>3, <2>4, <2>6, RestingType DEF Counted, Rows
<1>8. Claims'
  <2>1. \A v \in Worker : job'[v].task # "none" => v # w /\ job'[v] = job[v]
    BY <1>4, RestingType
  <2>2. \A v \in Worker \ {w} : Task(v) = "void" => job[v].purchase # p
    BY <1>1, <1>3 DEF Counted, Claims
  <2> QED BY <1>5, <2>1, <2>2 DEF Counted, Claims, Task, Live
<1>9. Cooling'
  <2>1. \A v \in Worker : Checked(v)' => Checked(v) /\ job'[v] = job[v]
    BY <1>4, RestingType DEF Checked
  <2>2. \A v \in Worker : Checked(v) => job[v].by[1] \in Mobile
    BY Customers DEF Counted, Claims, Checked, Task
  <2>3. \A m \in Mobile : Recent(m)' => Recent(m)
    BY <1>6 DEF Recent, Customer
  <2>4. \A v \in Worker : Checked(v)' => ~Recent(job[v].by[1])'
    <3> SUFFICES ASSUME NEW v \in Worker, Checked(v)' PROVE ~Recent(job[v].by[1])'
      OBVIOUS
    <3>1. Checked(v) /\ job'[v] = job[v] /\ ~Recent(job[v].by[1]) /\ job[v].by[1] \in Mobile
      BY <2>1, <2>2 DEF Counted, Cooling
    <3> QED BY <2>3, <3>1
  <2>5. \A q \in Purchase : purchase'[q].fresh =>
          purchase'[q].by \in Customer /\ customer'[purchase'[q].by].exists /\ customer'[purchase'[q].by].recent
    BY <1>5, <1>6 DEF Counted, Cooling
  <2>6. \A q, r \in Purchase : purchase'[q].fresh /\ purchase'[r].fresh
                               /\ purchase'[q].by[1] = purchase'[r].by[1] => q = r
    BY <1>5 DEF Counted, Cooling
  <2>7. \A u, v \in Worker : Checked(u)' /\ Checked(v)' /\ job'[u].by[1] = job'[v].by[1] => u = v
    BY <2>1 DEF Counted, Cooling
  <2> QED BY <2>4, <2>5, <2>6, <2>7 DEF Cooling
<1>10. Closing'
  <2>1. \A v \in Worker : job'[v].task = "submit" => job'[v] = job[v]
    BY <1>4, RestingType
  <2>2. \A q \in Purchase : purchase'[q].state \in {"live", "voided"} =>
          purchase[q].state \in {"live", "voided"} /\ purchase'[q].late = purchase[q].late
    BY <1>1, <1>5 DEF Live
  <2> QED BY <1>3, <2>1, <2>2 DEF Counted, Closing, Task
<1>11. Mine(c)' = Mine(c) \ {p} /\ p \in Mine(c)
  BY <1>1, <1>2, <1>5 DEF Mine, Live
<1>12. \A d \in Customer \ {c} : Mine(d)' = Mine(d)
  BY <1>2, <1>5 DEF Mine, Live
<1>13. \A d \in Customer : Cardinality(Mine(d)') = customer'[d].count
  <2> SUFFICES ASSUME NEW d \in Customer PROVE Cardinality(Mine(d)') = customer'[d].count
    OBVIOUS
  <2>1. Cardinality(Mine(d)) = customer[d].count /\ IsFiniteSet(Mine(d)) /\ customer[d].count \in Nat
    BY CountOf, MineFinite DEF Counted, Totals, TotalsAgree, Rows, CustomerRow
  <2>2. CASE d = c
    <3>1. Cardinality(Mine(c)') = Cardinality(Mine(c)) - 1
      BY <1>11, <2>1, <2>2, FS_RemoveElement
    <3>2. customer[c].count > 0
      BY <1>11, <2>1, <2>2, FS_EmptySet
    <3> QED BY <1>6, <2>1, <2>2, <3>1, <3>2
  <2>3. CASE d # c
    BY <1>6, <1>12, <2>1, <2>3
  <2> QED BY <2>2, <2>3
<1>14. Totals'
  BY <1>5, <1>13 DEF Counted, Totals, TotalsAgree, Count, Mine, Live
<1> QED BY <1>7, <1>8, <1>9, <1>10, <1>14 DEF Counted

\* Nothing is left but what is late.
LEMMA Erases ==
  ASSUME Counted, Erase, due' \in BOOLEAN, company' \in CompanyRow, company'.closed => company'.asked # "no"
  PROVE  Counted'
<1>1. NoCustomer \in CustomerRow /\ [NoPurchase EXCEPT !.state = "erased"] \in PurchaseRow
      /\ NoCustomer.count = 0 /\ ~NoCustomer.exists
  BY DEF NoCustomer, NoPurchase, CustomerRow, PurchaseRow
<1>2. \A p \in Purchase : \/ purchase'[p] = purchase[p] /\ purchase[p].state = "none"
                          \/ purchase'[p] = [NoPurchase EXCEPT !.state = "erased"]
  BY DEF Erase
<1>3. \A p \in Purchase : purchase'[p].state \in {"none", "erased"} /\ ~purchase'[p].fresh
  BY <1>2 DEF NoPurchase, Counted, Totals
<1>4. \A w \in Worker : /\ job'[w] = [job[w] EXCEPT !.late = (Task(w) = "submit")]
                        /\ job'[w].task = job[w].task /\ job'[w].step = job[w].step
                        /\ job'[w].by = job[w].by
                        /\ job'[w].task = "submit" => job'[w].late
  BY DEF Erase, Task, Counted, Rows, Request
<1>5. Rows'
  <2>1. \A w \in Worker : [job[w] EXCEPT !.late = (Task(w) = "submit")] \in Request
    BY DEF Counted, Rows, Request
  <2>2. job' \in [Worker -> Request]
    BY <1>4, <2>1 DEF Erase, Task
  <2>3. purchase' \in [Purchase -> PurchaseRow]
    BY <1>1, <1>2 DEF Erase, Counted, Rows
  <2> QED BY <1>1, <2>2, <2>3 DEF Erase, Counted, Rows
<1>6. Claims'
  BY <1>4 DEF Erase, Counted, Claims, Task
<1>7. \A c \in Customer : customer'[c] = NoCustomer
  BY DEF Erase
<1>8. \A m \in Mobile : ~Recent(m)'
  BY <1>1, <1>7 DEF Recent, Customer
<1>9. Cooling'
  <2>1. \A w \in Worker : Checked(w)' => Checked(w) /\ job'[w].by = job[w].by /\ job[w].by \in Customer
    BY <1>4 DEF Checked, Counted, Claims, Task
  <2>2. \A w \in Worker : Checked(w)' => ~Recent(job[w].by[1])'
    BY <1>8, <2>1, Customers
  <2>3. \A v, w \in Worker : Checked(v)' /\ Checked(w)' /\ job'[v].by[1] = job'[w].by[1] => v = w
    BY <2>1 DEF Counted, Cooling
  <2> QED BY <1>3, <2>2, <2>3 DEF Cooling
<1>10. Closing'
  BY <1>3, <1>4 DEF Closing, Task
<1>11. \A c : Mine(c)' = {}
  BY <1>3 DEF Mine, Live
<1>12. Totals'
  BY <1>1, <1>3, <1>7, <1>11, FS_EmptySet DEF Totals, TotalsAgree, Count, Mine, Live
<1> QED BY <1>5, <1>6, <1>9, <1>10, <1>12 DEF Counted

LEMMA CountedStep ==
  ASSUME IsFiniteSet(Purchase), None \notin Customer, Counted, [Next]_vars
  PROVE  Counted'
<1>1. company \in CompanyRow /\ (company.closed => company.asked # "no")
  BY DEF Counted, Rows, Closing
<1>2. ASSUME NEW w \in Worker, Rest(w), UNCHANGED <<customer, purchase, due>>,
             company' \in CompanyRow, company'.closed = company.closed, company.closed => company'.asked # "no"
      PROVE  Counted'
  <2>1. Rows' /\ \A v \in Worker : job'[v] = IF v = w THEN Resting ELSE job[v]
    BY <1>2, RestingType DEF Rest, Counted, Rows
  <2> QED BY <1>2, <2>1, RestingType, Quiet
<1>3. ASSUME NEW w \in Worker, AskWrite(w) PROVE Counted'
  <2>1. /\ company' \in CompanyRow /\ company'.closed = company.closed /\ company'.asked = "new"
    BY <1>1, <1>3 DEF AskWrite, CompanyRow
  <2> QED BY <1>2, <1>3, <2>1 DEF AskWrite
<1>4. ASSUME NEW w \in Worker, AskRead(w) PROVE Counted'
  <2> DEFINE r == [Resting EXCEPT !.task = "ask", !.step = "read"]
  <2>1. r \in Request /\ r.task = "ask"
    BY DEF Resting, Request
  <2>2. job' = [job EXCEPT ![w] = r] /\ UNCHANGED <<company, customer, purchase, due>>
    BY <1>4 DEF AskRead
  <2> HIDE DEF r
  <2>3. Rows' /\ \A v \in Worker : job'[v] = IF v = w THEN r ELSE job[v]
    BY <2>1, <2>2 DEF Counted, Rows
  <2> QED BY <1>1, <2>1, <2>2, <2>3, Quiet
<1>5. ASSUME NEW w \in Worker, Dies(w) PROVE Counted'
  BY <1>1, <1>2, <1>5 DEF Dies
<1>6. ASSUME CallOff \/ GraceOver \/ Reopen PROVE Counted'
  <2>1. /\ company' \in CompanyRow /\ company'.closed = company.closed
        /\ company.closed => company'.asked # "no"
    BY <1>1, <1>6 DEF CallOff, GraceOver, Reopen, CompanyRow
  <2>2. UNCHANGED <<customer, purchase, job, due>>
    BY <1>6 DEF CallOff, GraceOver, Reopen
  <2> QED BY <2>1, <2>2, Quiet DEF Counted, Rows
<1>7. ASSUME ListDue \/ UNCHANGED vars PROVE Counted'
  <2>1. UNCHANGED <<company, customer, purchase, job>> /\ due' \in BOOLEAN
    BY <1>7 DEF ListDue, vars, Counted, Rows
  <2> QED BY <1>1, <2>1, Quiet DEF Counted, Rows
<1>8. ASSUME PurgeCompany PROVE Counted'
  <2>1. CASE StillAsked
    <3>1. /\ Erase /\ due' \in BOOLEAN /\ company' \in CompanyRow /\ company'.asked # "no"
      BY <1>1, <1>8, <2>1 DEF PurgeCompany, StillAsked, CompanyRow
    <3> QED BY <3>1, Erases
  <2>2. CASE ~StillAsked
    <3>1. UNCHANGED <<company, customer, purchase, job>> /\ due' \in BOOLEAN
      BY <1>8, <2>2 DEF PurgeCompany
    <3> QED BY <1>1, <3>1, Quiet DEF Counted, Rows
  <2> QED BY <2>1, <2>2
<1>9. ASSUME EraseExpired PROVE Counted'
  BY <1>1, <1>9, Erases DEF EraseExpired, Counted, Rows
<1> QED
  BY <1>3, <1>4, <1>5, <1>6, <1>7, <1>8, <1>9, Reads, Checks, Writes, Cools, VoidReads, VoidWrites DEF Next

LEMMA IntakeInvariant ==
  ASSUME IsFiniteSet(Purchase), None \notin Customer
  PROVE  Spec => []Counted
  BY CountedInit, CountedStep, PTL DEF Spec

-----------------------------------------------------------------------------
(* What a company relies on *)

\* A customer's running total is the number of purchases that are not voided, however
\* submissions, voids and erasures interleave (voidPurchase).
THEOREM TotalsAlwaysAgree ==
  ASSUME IsFiniteSet(Purchase), None \notin Customer
  PROVE  Spec => []TotalsAgree
  BY IntakeInvariant, PTL DEF Counted, Totals

\* Rows and requests keep their types: no count exceeds the purchases there are.
THEOREM TypeCorrect ==
  ASSUME IsFiniteSet(Purchase), None \notin Customer
  PROVE  Spec => []TypeOK
<1>1. Counted => TypeOK
  <2> SUFFICES ASSUME Counted PROVE TypeOK
    OBVIOUS
  <2>1. \A c \in Customer : Count(c) <= Cardinality(Purchase) /\ Count(c) \in Nat
    BY MineFinite, CountOf, FS_Subset DEF Mine
  <2>2. Cardinality(Purchase) \in Nat
    BY FS_CardinalityType
  <2>3. \A c \in Customer : customer[c] \in [exists : BOOLEAN, count : 0 .. Cardinality(Purchase), recent : BOOLEAN]
    BY <2>1, <2>2 DEF Counted, Rows, CustomerRow, Totals, TotalsAgree
  <2> QED BY <2>3 DEF TypeOK, Counted, Rows, CompanyRow, PurchaseRow, Request
<1> QED BY <1>1, IntakeInvariant, PTL

\* Within the interval a mobile number enters once, whatever the vehicle and however many
\* submissions arrive together (assertResubmitCooldown).
THEOREM CooldownIsKept ==
  ASSUME IsFiniteSet(Purchase), None \notin Customer
  PROVE  Spec => []CooldownKept
<1>1. Counted => CooldownKept
  <2> SUFFICES ASSUME Counted, NEW m \in Mobile
               PROVE  Cardinality({p \in Purchase : purchase[p].fresh /\ purchase[p].by[1] = m}) <= 1
    BY DEF CooldownKept
  <2> DEFINE S == {p \in Purchase : purchase[p].fresh /\ purchase[p].by[1] = m}
  <2>1. \A p, q \in S : p = q
    BY DEF Counted, Cooling
  <2>2. S = {} \/ \E p : S = {p}
    BY <2>1
  <2> HIDE DEF S
  <2>3. Cardinality(S) <= 1
    BY <2>2, FS_EmptySet, FS_Singleton
  <2> QED BY <2>3 DEF S
<1> QED BY <1>1, IntakeInvariant, PTL

\* An account is closed on a request that stands, and holds no one's data afterwards but
\* that of a form under way (purgeCompany).
THEOREM ClosedIsAsked ==
  ASSUME IsFiniteSet(Purchase), None \notin Customer
  PROVE  Spec => []ClosedOnRequest
<1>1. Counted => ClosedOnRequest
  BY DEF Counted, Closing, ClosedOnRequest
<1> QED BY <1>1, IntakeInvariant, PTL

-----------------------------------------------------------------------------
(* The run `accounts`: its behaviours are behaviours of each of the modules it   *)
(* puts together, so what is proved of a module holds in the run.                 *)

Login  == INSTANCE SessionsProofs WITH
            Token <- Three, NoToken <- None, MaxChanges <- 1, Call <- One, Life <- 4, MaxTime <- 8
Access == INSTANCE SessionsProofs WITH
            Token <- One, NoToken <- None, MaxChanges <- 1, Call <- One, Life <- 4, MaxTime <- 8

\* Of PlansProofs only the part on the catalogue; the constants and variables of its other
\* parts are nothing.
Sold == INSTANCE PlansProofs WITH
  Plan <- Three, Price <- Worker, Purchase <- One, Currency <- {USD, ZAR},
  Sale <- {}, Sub <- {}, NoSub <- None, MaxChanges <- 0, MaxErrors <- 0, MaySuspend <- FALSE,
  MayBan <- FALSE, Customer <- {}, MaxSpins <- 0,
  price <- None, billed <- None, selling <- None, remote <- None, script <- None, atPaypal <- None,
  offered <- None, stored <- None, sale <- None, lastCycle <- None, worker <- None,
  paypal <- None, notices <- None, saleNotices <- None, changes <- None, status <- None,
  lastEvent <- None, current <- None, paid <- None, saleOf <- None, credited <- None,
  flagged <- None, handler <- None, errors <- None, companyBanned <- None, running <- None,
  banned <- None, free <- None, bought <- None,
  used <- None, granted <- None, winner <- None, entered <- None, order <- None, spin <- None

\* None is not a customer, a time or a plan, and the purchases are finitely many.
Apart ==
  /\ IsFiniteSet(Purchase) /\ None \notin Customer /\ None \notin Nat /\ None \notin Three
  /\ None \notin Sold!PlanRow /\ None \notin Sold!CheckoutRow

\* The instances of the run are those the theorems are about.
LEMMA SameSessions ==
  /\ Session!Init => Login!Init
  /\ [Session!Next]_(Session!vars) => [Login!Next]_(Login!vars)
  /\ Login!TypeOK => Session!TypeOK
  /\ Login!OldPasswordOut => Session!OldPasswordOut
  BY Zenon DEF
     Session!vars, Login!vars, Session!RowState, Login!RowState, Session!Task, Login!Task, Session!Step,
     Login!Step, Session!Resting, Login!Resting, Session!Unissued, Login!Unissued, Session!Init, Login!Init,
     Session!Idle, Login!Idle, Session!Live, Login!Live, Session!Issued, Login!Issued, Session!Expired,
     Login!Expired, Session!Locked, Login!Locked, Session!Rest, Login!Rest, Session!Go, Login!Go,
     Session!Changing, Login!Changing, Session!Late, Login!Late, Session!Pair, Login!Pair,
     Session!LoginCheck, Login!LoginCheck, Session!LoginIssue, Login!LoginIssue, Session!RefreshRead,
     Login!RefreshRead, Session!Wins, Login!Wins, Session!RotateLock, Login!RotateLock, Session!RotateCommit,
     Login!RotateCommit, Session!RowsToRevoke, Login!RowsToRevoke, Session!ReuseRevoke, Login!ReuseRevoke,
     Session!Revoke, Login!Revoke, Session!ReuseRevoked, Login!ReuseRevoked, Session!Logout, Login!Logout,
     Session!ChangeCheck, Login!ChangeCheck, Session!ChangeStart, Login!ChangeStart, Session!RevokeSessions,
     Login!RevokeSessions, Session!ChangeCommit, Login!ChangeCommit, Session!Bar, Login!Bar, Session!Lapse,
     Login!Lapse, Session!Cleanup, Login!Cleanup, Session!Dies, Login!Dies, Session!Next, Login!Next,
     Session!TypeOK, Login!TypeOK, Session!OldPasswordOut, Login!OldPasswordOut

LEMMA SameFamilies ==
  /\ Login!Families!Init => Session!Families!Init
  /\ [Login!Families!Next]_(Login!Families!vars) => [Session!Families!Next]_(Session!Families!vars)
  BY Zenon DEF
     Session!holders, Login!holders, Session!Live, Login!Live, Session!Issued, Login!Issued,
     Session!Families!vars, Login!Families!vars, Session!Families!Init, Login!Families!Init,
     Session!Families!Open, Login!Families!Open, Session!Families!Renew, Login!Families!Renew,
     Session!Families!End, Login!Families!End, Session!Families!Next, Login!Families!Next

LEMMA SameBearers ==
  /\ Bearer!Init => Access!Bearer!Init
  /\ [Bearer!Next]_(Bearer!vars) => [Access!Bearer!Next]_(Access!Bearer!vars)
  /\ Access!Bearer!TypeOK => Bearer!TypeOK
  /\ Access!Bearer!AccessEnds => Bearer!AccessEnds
  BY Zenon DEF
     Bearer!vars, Access!Bearer!vars, Bearer!Free, Access!Bearer!Free, Bearer!Init, Access!Bearer!Init,
     Bearer!Seconds, Access!Bearer!Seconds, Bearer!Expires, Access!Bearer!Expires, Bearer!Valid,
     Access!Bearer!Valid, Bearer!Remaining, Access!Bearer!Remaining, Bearer!BeforeChange,
     Access!Bearer!BeforeChange, Bearer!Issue, Access!Bearer!Issue, Bearer!ChangePassword,
     Access!Bearer!ChangePassword, Bearer!Deactivate, Access!Bearer!Deactivate, Bearer!Logout,
     Access!Bearer!Logout, Bearer!Arrive, Access!Bearer!Arrive, Bearer!Answer, Access!Bearer!Answer,
     Bearer!CheckDenied, Access!Bearer!CheckDenied, Bearer!CheckUser, Access!Bearer!CheckUser,
     Bearer!CheckCompany, Access!Bearer!CheckCompany, Bearer!Redis, Access!Bearer!Redis, Bearer!Tick,
     Access!Bearer!Tick, Bearer!Next, Access!Bearer!Next, Bearer!TypeOK, Access!Bearer!TypeOK,
     Bearer!AccessEnds, Access!Bearer!AccessEnds

LEMMA SameCatalogue ==
  /\ Catalogue!Init => Sold!Shop!Init
  /\ [Catalogue!Next]_(Catalogue!vars) => [Sold!Shop!Next]_(Sold!Shop!vars)
  /\ Sold!Shop!TypeOK => Catalogue!TypeOK
  /\ Sold!Shop!HistoryKept => Catalogue!HistoryKept
  /\ Sold!Shop!vars = Catalogue!vars /\ Sold!Shop!OnSale = Catalogue!OnSale
  /\ \A S : Sold!Shop!Cardinality(S) = Catalogue!Cardinality(S)
  BY Zenon DEF Catalogue!Cardinality, Sold!Shop!Cardinality,
     Catalogue!catalogue, Sold!Shop!catalogue, Catalogue!vars, Sold!Shop!vars, Catalogue!Idle,
     Sold!Shop!Idle, Catalogue!OnSale, Sold!Shop!OnSale, Catalogue!Stored, Sold!Shop!Stored, Catalogue!Begin,
     Sold!Shop!Begin, Catalogue!End, Sold!Shop!End, Catalogue!Init, Sold!Shop!Init, Catalogue!Locked,
     Sold!Shop!Locked, Catalogue!Free, Sold!Shop!Free, Catalogue!Badge, Sold!Shop!Badge,
     Catalogue!CreateOpen, Sold!Shop!CreateOpen, Catalogue!CreateCommit, Sold!Shop!CreateCommit,
     Catalogue!Paid, Sold!Shop!Paid, Catalogue!CarriesHistory, Sold!Shop!CarriesHistory, Catalogue!EditOpen,
     Sold!Shop!EditOpen, Catalogue!EditInPlace, Sold!Shop!EditInPlace, Catalogue!EditVersion,
     Sold!Shop!EditVersion, Catalogue!Abort, Sold!Shop!Abort, Catalogue!HideOpen, Sold!Shop!HideOpen,
     Catalogue!OthersActive, Sold!Shop!OthersActive, Catalogue!HideCommit, Sold!Shop!HideCommit,
     Catalogue!ShowOpen, Sold!Shop!ShowOpen, Catalogue!ShowCommit, Sold!Shop!ShowCommit, Catalogue!Blocking,
     Sold!Shop!Blocking, Catalogue!SetPlatformCurrency, Sold!Shop!SetPlatformCurrency, Catalogue!Buy,
     Sold!Shop!Buy, Catalogue!Store, Sold!Shop!Store, Catalogue!Next, Sold!Shop!Next, Catalogue!TypeOK,
     Sold!Shop!TypeOK, Catalogue!HistoryKept, Sold!Shop!HistoryKept

anyvars == <<focus, sessions, bearers, intake, plans>>

\* In every focus each module's own variables move as it says, or not at all.
LEMMA EachModule ==
  /\ AnyInit => Login!Init /\ Access!Bearer!Init /\ Init
  /\ [AnyNext]_anyvars => /\ [Login!Next]_(Login!vars)
                          /\ [Access!Bearer!Next]_(Access!Bearer!vars)
                          /\ [Next]_vars
<1>1. AnyInit => Login!Init /\ Access!Bearer!Init /\ Init
  BY SameSessions, SameBearers DEF AnyInit
<1>2. [AnyNext]_anyvars => [Session!Next]_(Session!vars) /\ [Bearer!Next]_(Bearer!vars) /\ [Next]_vars
  BY Zenon DEF AnyNext, anyvars, sessions, bearers, intake, vars, Session!vars, Bearer!vars
<1> QED BY <1>1, <1>2, SameSessions, SameBearers

\* The catalogue has plans only in its own focus.
LEMMA CatalogueOnly ==
  /\ AnyInit => (focus = "plans" => Sold!Shop!Init) /\ (~(focus = "plans") => NoPlans)
  /\ [AnyNext]_anyvars =>
       /\ (focus = "plans")' <=> focus = "plans"
       /\ focus = "plans" => [Sold!Shop!Next]_(Sold!Shop!vars)
       /\ ~(focus = "plans") => UNCHANGED plans
<1>1. [AnyNext]_anyvars =>
        /\ focus' = focus
        /\ focus = "plans" => [Catalogue!Next]_(Catalogue!vars)
        /\ ~(focus = "plans") => UNCHANGED plans
  BY Zenon DEF AnyNext, anyvars, plans, Catalogue!vars
<1>2. AnyInit => (focus = "plans" => Catalogue!Init) /\ (~(focus = "plans") => NoPlans)
  BY DEF AnyInit
<1>3. [AnyNext]_anyvars => ((focus = "plans")' <=> focus = "plans")
  BY <1>1
<1> QED BY <1>1, <1>2, <1>3, SameCatalogue, Zenon

LEMMA InFocus == AnySpec => [](focus \in {"sessions", "bearers", "intake", "plans"})
<1>1. AnyInit => focus \in {"sessions", "bearers", "intake", "plans"}
  BY DEF AnyInit
<1>2. focus \in {"sessions", "bearers", "intake", "plans"} /\ [AnyNext]_anyvars
        => (focus \in {"sessions", "bearers", "intake", "plans"})'
  BY Zenon DEF AnyNext, anyvars
<1> QED BY <1>1, <1>2, PTL DEF AnySpec, anyvars

LEMMA RunIsEach == AnySpec => Login!Spec /\ Access!Bearer!Spec /\ Spec
  BY EachModule, PTL DEF AnySpec, anyvars, Login!Spec, Access!Bearer!Spec, Spec

\* However many requests present a token, its login has one holder at a time, and is not
\* revived (rotateRefreshToken).
THEOREM LoginHasOneHolder == AnySpec => OneSession
<1>1. Login!Spec => Login!Families!Spec
  BY Login!RotationImplements, PTL DEF Login!OneSession
<1> QED BY <1>1, RunIsEach, SameFamilies, PTL
        DEF OneSession, Session!OneSession, Session!Families!Spec, Login!Families!Spec

\* After a password change neither its old sessions nor their access tokens are of use, but
\* within the margins the code names (changePassword, authMiddleware).
THEOREM OldPasswordIsUseless == ASSUME None \notin Nat PROVE AnySpec => []OldPasswordOut
<1>1. Access!Times
  BY DEF Access!Times
<1>2. Login!Spec => []Login!OldPasswordOut
  BY Login!OldPasswordIsOut
<1>3. Access!Bearer!Spec => []Access!Bearer!AccessEnds
  BY <1>1, Access!AccessEndsForGood
<1>4. Login!OldPasswordOut /\ Access!Bearer!AccessEnds => OldPasswordOut
  BY SameSessions, SameBearers DEF OldPasswordOut
<1> QED BY <1>2, <1>3, <1>4, RunIsEach, PTL

\* None is nothing else, and the platform starts with a currency it has.
LEMMA ApartThere == ASSUME Apart PROVE Sold!Catalogue
  BY DEF Apart, Sold!Catalogue

LEMMA CatalogueFocus == AnySpec /\ focus = "plans" => Sold!Shop!Spec /\ [](focus = "plans")
  BY CatalogueOnly, PTL DEF AnySpec, anyvars, Sold!Shop!Spec

LEMMA NoCatalogue == AnySpec /\ ~(focus = "plans") => [](NoPlans /\ ~(focus = "plans")) /\ [][FALSE]_plans
<1>1. NoPlans /\ UNCHANGED plans => NoPlans'
  BY DEF NoPlans, plans
<1> QED BY <1>1, CatalogueOnly, PTL DEF AnySpec, anyvars

\* A plan keeps the terms it was paid on, and has one successor (PlanService.update).
THEOREM PlanHistoryKept == ASSUME Apart PROVE AnySpec => []HistoryKept
<1>1. Sold!Shop!Spec => []Sold!Shop!HistoryKept
  BY ApartThere, Sold!HistoryIsKept
<1>2. focus = "plans" /\ Sold!Shop!HistoryKept => HistoryKept
  BY SameCatalogue DEF HistoryKept
<1>3. ~(focus = "plans") => HistoryKept
  BY DEF HistoryKept
<1> QED BY <1>1, <1>2, <1>3, CatalogueFocus, NoCatalogue, PTL

\* The billing page has something to sell, once it has, in one currency (setActive).
THEOREM BillingPageSells == ASSUME Apart PROVE AnySpec => BillingPage
<1>1. Sold!Shop!Spec => Sold!Shop!BillingPage
  BY ApartThere, Sold!BillingPageKept
<1>2. /\ [Sold!Shop!OnSale # {} /\ active \cap archived = {} => Sold!Shop!OnSale' # {}]_(Sold!Shop!vars)
        => [Catalogue!OnSale # {} /\ active \cap archived = {} => Catalogue!OnSale' # {}]_(Catalogue!vars)
      /\ popular \subseteq Sold!Shop!OnSale /\ Sold!Shop!Cardinality(popular) <= 1
        => popular \subseteq Catalogue!OnSale /\ Catalogue!Cardinality(popular) <= 1
      /\ (\A p \in Sold!Shop!OnSale \ switched : row[p].currency = currency)
        => \A p \in Catalogue!OnSale \ switched : row[p].currency = currency
  BY SameCatalogue DEF Sold!Shop!OnSale, Catalogue!OnSale, Sold!Shop!vars, Catalogue!vars
<1>3. Sold!Shop!Spec => Catalogue!BillingPage
  BY <1>1, <1>2, PTL DEF Sold!Shop!BillingPage, Catalogue!BillingPage
<1>4. NoPlans => /\ popular \subseteq Catalogue!OnSale /\ Catalogue!Cardinality(popular) <= 1
                 /\ \A p \in Catalogue!OnSale \ switched : row[p].currency = currency
  BY FS_EmptySet DEF NoPlans, Catalogue!OnSale, Catalogue!Cardinality, Cardinality
<1>5. UNCHANGED plans => UNCHANGED Catalogue!vars
  BY DEF plans, Catalogue!vars
<1>6. AnySpec /\ ~(focus = "plans") => Catalogue!BillingPage
  BY <1>4, <1>5, NoCatalogue, PTL DEF Catalogue!BillingPage
<1> QED BY <1>3, <1>6, CatalogueFocus, PTL DEF BillingPage

\* What the counter promises holds in every behaviour of the run (submitPurchase, voidPurchase,
\* purgeCompany).
THEOREM CounterInRun == ASSUME Apart PROVE AnySpec => [](TotalsAgree /\ CooldownKept /\ ClosedOnRequest)
<1>1. Spec => []TotalsAgree /\ []CooldownKept /\ []ClosedOnRequest
  BY TotalsAlwaysAgree, CooldownIsKept, ClosedIsAsked DEF Apart
<1> QED BY <1>1, RunIsEach, PTL

\* The variables of every module have their types.
THEOREM AllModulesTyped == ASSUME Apart PROVE AnySpec => []AllTyped
<1>1. Access!Times
  BY DEF Apart, Access!Times
<1>2. Login!Spec => []Login!TypeOK
  BY Login!TypeCorrect
<1>3. Access!Bearer!Spec => []Access!Bearer!TypeOK
  BY <1>1, Access!BearerTypeCorrect
<1>4. Spec => []TypeOK
  BY TypeCorrect DEF Apart
<1>5. Sold!Shop!Spec => []Sold!Shop!TypeOK
  BY ApartThere, Sold!CatalogueTyped
<1>6. AnySpec => [](focus = "plans" => Sold!Shop!TypeOK)
  BY <1>5, CatalogueFocus, NoCatalogue, PTL
<1>7. /\ focus \in {"sessions", "bearers", "intake", "plans"}
      /\ Login!TypeOK /\ Access!Bearer!TypeOK /\ TypeOK /\ (focus = "plans" => Sold!Shop!TypeOK)
      => AllTyped
  BY SameSessions, SameBearers, SameCatalogue DEF AllTyped
<1> QED BY <1>2, <1>3, <1>4, <1>6, <1>7, RunIsEach, InFocus, PTL

=============================================================================
