------------------------------- MODULE Intake -------------------------------
(***************************************************************************)
(* One company's customers and purchases: the public QR form (submitPurchase), *)
(* voiding a purchase, and the two erasures, of a closed account and of an     *)
(* expired one, with the request that leads to the first.                      *)
(*                                                                         *)
(* A customer is a mobile number with a vehicle.  Amounts are left out: the     *)
(* counter moves in the same statements as the amount.  A submission is cut      *)
(* after it has read the company, and again after the checks its advisory locks   *)
(* guard; its last step is the one whose foreign key waits for the company's row.  *)
(***************************************************************************)
EXTENDS Integers, FiniteSets

CONSTANTS
  Mobile, Vehicle,   \* what a customer types
  Invoice,           \* invoice numbers
  Purchase,          \* purchases rows
  Worker,            \* requests
  None               \* no purchase, no value

VARIABLES
  company,    \* the company: whether it takes entries, its deletion request, its end
  customer,   \* customer[c]: the customers row of mobile c[1] with vehicle c[2]
  purchase,   \* purchase[p]: the purchases row
  job,        \* job[w]: what request w has read and holds
  due         \* the deletion cron has listed the company

vars == <<company, customer, purchase, job, due>>

Customer == Mobile \X Vehicle

NoCustomer == [exists |-> FALSE, count |-> 0, recent |-> FALSE]
NoPurchase == [state |-> "none", by |-> None, invoice |-> None, fresh |-> FALSE, late |-> FALSE]
Resting == [task |-> "none", step |-> "idle", by |-> None, invoice |-> None, purchase |-> None,
            known |-> FALSE, late |-> FALSE]

Init ==
  /\ company = [open |-> TRUE, asked |-> "no", closed |-> FALSE]
  /\ customer = [c \in Customer |-> NoCustomer]
  /\ purchase = [p \in Purchase |-> NoPurchase]
  /\ job = [w \in Worker |-> Resting]
  /\ due = FALSE

Idle(w)  == job[w].step = "idle"
Rest(w)  == job' = [job EXCEPT ![w] = Resting]
Live(p)  == purchase[p].state = "live"
Count(c) == Cardinality({p \in Purchase : Live(p) /\ purchase[p].by = c})

-----------------------------------------------------------------------------
(* submitPurchase *)

\* The company of the QR token, not paused and with access; a closed one's token is gone.
SubmitRead(w, c, i) ==
  /\ Idle(w) /\ company.open /\ ~company.closed
  /\ job' = [job EXCEPT ![w] = [Resting EXCEPT !.task = "submit", !.step = "read", !.by = c, !.invoice = i]]
  /\ UNCHANGED <<company, customer, purchase, due>>

\* Mutant: no lock on the mobile number.
SameInvoice(w, v) == job[v].invoice = job[w].invoice

\* submissionLockKeys: the mobile number and the invoice number.
SameEntry(w, v) == job[v].by[1] = job[w].by[1] \/ job[v].invoice = job[w].invoice

Recent(m) == \E v \in Vehicle : customer[<<m, v>>].exists /\ customer[<<m, v>>].recent

\* Under the locks: the cooldown, the invoice, and the customer this entry belongs to.
SubmitCheck(w) ==
  LET c == job[w].by IN
  /\ job[w].task = "submit" /\ job[w].step = "read"
  /\ \A v \in Worker \ {w} :
       (job[v].task = "submit" /\ job[v].step = "checked") => ~SameEntry(w, v)
  /\ IF Recent(c[1]) \/ \E p \in Purchase : Live(p) /\ purchase[p].invoice = job[w].invoice
       THEN Rest(w)
       ELSE job' = [job EXCEPT ![w].step = "checked", ![w].known = customer[c].exists]
  /\ UNCHANGED <<company, customer, purchase, due>>

\* The rows' foreign keys and unique indexes have the last word, and roll back.
Refused(w) ==
  LET c == job[w].by IN
  \/ customer[c].exists # job[w].known
  \/ \E p \in Purchase : Live(p) /\ purchase[p].invoice = job[w].invoice

SubmitWrite(w) ==
  LET c == job[w].by IN
  /\ job[w].task = "submit" /\ job[w].step = "checked"
  /\ IF Refused(w) THEN UNCHANGED <<customer, purchase>>
     ELSE \E p \in Purchase :
       /\ purchase[p].state = "none"
       /\ purchase' = [purchase EXCEPT ![p] = [state |-> "live", by |-> c, invoice |-> job[w].invoice,
                                              fresh |-> TRUE, late |-> job[w].late]]
       /\ customer' = [customer EXCEPT ![c] = [exists |-> TRUE, count |-> @.count + 1, recent |-> TRUE]]
  /\ Rest(w)
  /\ UNCHANGED <<company, due>>

\* QR_MIN_RESUBMIT_INTERVAL_MIN passes since a customer's last entry.
CooldownOver(m) ==
  /\ Recent(m)
  /\ customer' = [c \in Customer |-> IF c[1] = m THEN [customer[c] EXCEPT !.recent = FALSE] ELSE customer[c]]
  /\ purchase' = [p \in Purchase |-> IF purchase[p].by # None /\ purchase[p].by[1] = m
                                     THEN [purchase[p] EXCEPT !.fresh = FALSE] ELSE purchase[p]]
  /\ UNCHANGED <<company, job, due>>

-----------------------------------------------------------------------------
(* voidPurchase *)

Voiding(p) == \E w \in Worker : job[w].task = "void" /\ job[w].purchase = p

\* Mutant: the row is read without FOR UPDATE.
Readable(p) == Live(p)

\* lockForVoid, and a row that is not voided yet.
Voidable(p) == Live(p) /\ ~Voiding(p)

VoidRead(w, p) ==
  /\ Idle(w) /\ Voidable(p)
  /\ job' = [job EXCEPT ![w] = [Resting EXCEPT !.task = "void", !.step = "checked", !.purchase = p]]
  /\ UNCHANGED <<company, customer, purchase, due>>

\* markVoided and subtractPurchase, which never takes the counter below zero.
VoidWrite(w) ==
  LET p == job[w].purchase
      c == purchase[p].by
  IN
  /\ job[w].task = "void"
  /\ purchase' = [purchase EXCEPT ![p].state = "voided"]
  /\ customer' = [customer EXCEPT ![c].count = IF @ > 0 THEN @ - 1 ELSE 0]
  /\ Rest(w)
  /\ UNCHANGED <<company, due>>

-----------------------------------------------------------------------------
(* Asking for deletion, and the purge *)

\* requestDeletion reads the company, cancels its subscription, and then marks it.
AskRead(w) ==
  /\ Idle(w) /\ ~company.closed /\ company.asked = "no"
  /\ job' = [job EXCEPT ![w] = [Resting EXCEPT !.task = "ask", !.step = "read"]]
  /\ UNCHANGED <<company, customer, purchase, due>>

AskWrite(w) ==
  /\ job[w].task = "ask"
  /\ company' = [company EXCEPT !.asked = "new"]
  /\ Rest(w)
  /\ UNCHANGED <<customer, purchase, due>>

CallOff ==
  /\ company.asked # "no" /\ ~company.closed
  /\ company' = [company EXCEPT !.asked = "no"]
  /\ UNCHANGED <<customer, purchase, job, due>>

GraceOver ==
  /\ company.asked = "new"
  /\ company' = [company EXCEPT !.asked = "due"]
  /\ UNCHANGED <<customer, purchase, job, due>>

ListDue ==
  /\ company.asked = "due" /\ ~company.closed /\ ~due
  /\ due' = TRUE
  /\ UNCHANGED <<company, customer, purchase, job>>

\* Rows are deleted; a submission or an erasure that read before is late.
Erase ==
  /\ \A w \in Worker : job[w].task # "void"
  /\ customer' = [c \in Customer |-> NoCustomer]
  /\ purchase' = [p \in Purchase |-> IF purchase[p].state = "none" THEN purchase[p]
                                     ELSE [NoPurchase EXCEPT !.state = "erased"]]
  /\ job' = [w \in Worker |-> [job[w] EXCEPT !.late = job[w].task = "submit"]]

\* Mutant: the request is not looked at again once the row is locked.
StillListed == ~company.closed

\* lockForPurge: that a deletion is asked for, not how long ago.
StillAsked == company.asked # "no" /\ ~company.closed

PurgeCompany ==
  /\ due
  /\ due' = FALSE
  /\ IF StillAsked
       THEN /\ Erase
            /\ company' = [company EXCEPT !.closed = TRUE, !.open = FALSE]
       ELSE UNCHANGED <<company, customer, purchase, job>>

\* eraseOne, long after access ended.
EraseExpired ==
  /\ ~company.open /\ ~company.closed
  /\ \E c \in Customer : customer[c].exists
  /\ Erase
  /\ UNCHANGED <<company, due>>

\* Access ends or the company pauses its code, or that is over.
Reopen ==
  /\ ~company.closed
  /\ company' = [company EXCEPT !.open = ~@]
  /\ UNCHANGED <<customer, purchase, job, due>>

\* A request fails, or its process dies: its transaction is rolled back.
Dies(w) ==
  /\ ~Idle(w)
  /\ Rest(w)
  /\ UNCHANGED <<company, customer, purchase, due>>

Next ==
  \/ \E w \in Worker :
       \/ \E c \in Customer, i \in Invoice : SubmitRead(w, c, i)
       \/ SubmitCheck(w) \/ SubmitWrite(w)
       \/ \E p \in Purchase : VoidRead(w, p)
       \/ VoidWrite(w) \/ AskRead(w) \/ AskWrite(w) \/ Dies(w)
  \/ \E m \in Mobile : CooldownOver(m)
  \/ CallOff \/ GraceOver \/ ListDue \/ PurgeCompany \/ EraseExpired \/ Reopen

Spec == Init /\ [][Next]_vars

-----------------------------------------------------------------------------

\* Rows and requests have their types.
TypeOK ==
  /\ company \in [open : BOOLEAN, asked : {"no", "new", "due"}, closed : BOOLEAN]
  /\ customer \in [Customer -> [exists : BOOLEAN, count : 0 .. Cardinality(Purchase), recent : BOOLEAN]]
  /\ purchase \in [Purchase -> [state : {"none", "live", "voided", "erased"}, by : Customer \cup {None},
                                invoice : Invoice \cup {None}, fresh : BOOLEAN, late : BOOLEAN]]
  /\ job \in [Worker -> [task : {"none", "submit", "void", "ask"}, step : {"idle", "read", "checked"},
                         by : Customer \cup {None}, invoice : Invoice \cup {None},
                         purchase : Purchase \cup {None}, known : BOOLEAN, late : BOOLEAN]]
  /\ due \in BOOLEAN

\* A customer's running total is the sum of the purchases that are not voided
\* ("two clicks cannot both decrement the customer", voidPurchase).
TotalsAgree == \A c \in Customer : customer[c].count = Count(c)

\* assertResubmitCooldown: within the interval a mobile number enters once, whatever the
\* vehicle, and however many submissions arrive together.
CooldownKept ==
  \A m \in Mobile : Cardinality({p \in Purchase : purchase[p].fresh /\ purchase[p].by[1] = m}) <= 1

\* An account is closed on a request that stands, not on one that was called off, and
\* holds no one's data afterwards but that of a form under way (purgeCompany).
ClosedOnRequest ==
  company.closed =>
    /\ company.asked # "no"
    /\ \A p \in Purchase : purchase[p].state \in {"live", "voided"} => purchase[p].late

=============================================================================
