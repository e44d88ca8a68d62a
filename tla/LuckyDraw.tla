----------------------------- MODULE LuckyDraw -----------------------------
(***************************************************************************)
(* One company's lucky draw: the periods in which it has spins, buying more   *)
(* (spinPurchaseOption), and the spin itself.                                *)
(*                                                                         *)
(* A paid window is one pool.  A comp and a trial are two each: the free spins  *)
(* and the ones bought during it, counted apart under "buy:" and the period's    *)
(* key.  The spin is cut after it has read the pools under the company's lock;    *)
(* customers who submit and merchants who void do not take that lock, nor does     *)
(* an admin who changes the trial's free spins.                                   *)
(***************************************************************************)
EXTENDS Integers, FiniteSets, FiniteSetsExt

CONSTANTS
  Customer,   \* customers with purchases
  Worker,     \* spins under way
  None,       \* no pool, no order
  MaxSpins    \* bound: spins of a pool

VARIABLES
  running,   \* running[b]: the period b is open
  banned,    \* the company is deactivated
  free,      \* free[b]: comp_draw_spins, and the trial's spins as the admin has set them
  bought,    \* bought[b]: captured spins: of the paid window, or bought during b
  used,      \* used[p]: draws recorded under pool p of the current period
  granted,   \* granted[p]: history, the most spins pool p has had in the current period
  winner,    \* winner[b]: who has won in the current period
  entered,   \* customers with a purchase in the window that is not voided
  order,     \* the period for which spins are being bought, or None
  spin       \* spin[w]: the pool of the spin that holds the lock, or None

vars == <<running, banned, free, bought, used, granted, winner, entered, order, spin>>

Free   == {"comp", "trial"}
Base   == {"paid"} \cup Free
Pool   == {"paid", "comp", "trial", "buy:comp", "buy:trial"}
base(p) == CASE p = "buy:comp" -> "comp" [] p = "buy:trial" -> "trial" [] OTHER -> p
Bought(b) == CASE b = "paid" -> "paid" [] b = "comp" -> "buy:comp" [] b = "trial" -> "buy:trial"

Init ==
  /\ running = [b \in Base |-> FALSE]
  /\ banned = FALSE
  /\ free = [b \in Free |-> 0]
  /\ bought = [b \in Base |-> 0]
  /\ used = [p \in Pool |-> 0]
  /\ granted = [p \in Pool |-> 0]
  /\ winner = [b \in Base |-> {}]
  /\ entered = {}
  /\ order = None
  /\ spin = [w \in Worker |-> None]

\* FREE_PERIODS_SQL and the paid windows.
OpenPeriod(b) == running[b] /\ (b \in Free => ~banned)

\* computeEntitlement(..).isTrial: neither comped nor paid.
OnTrial == OpenPeriod("trial") /\ ~running["comp"] /\ ~running["paid"]

\* activePeriods: the spins of a pool that is open right now.
Spins(p) ==
  IF ~OpenPeriod(base(p)) THEN 0
  ELSE IF p \in Free THEN (IF p = "trial" /\ ~OnTrial THEN 0 ELSE free[p])
  ELSE bought[base(p)]

Left(p) == IF Spins(p) > used[p] THEN Spins(p) - used[p] ELSE 0
Remaining == MapThenSumSet(Left, Pool)

\* Mutant: the company is not locked.
Unlocked == TRUE

\* lockCompany: the company's row, which an admin's comp waits for too.
LockFree == \A w \in Worker : spin[w] = None

-----------------------------------------------------------------------------
(* Periods *)

Grants(p, n) == [granted EXCEPT ![p] = IF n > @ THEN n ELSE @]
Restart(b) ==
  /\ used' = [p \in Pool |-> IF base(p) = b THEN 0 ELSE used[p]]
  /\ bought' = [bought EXCEPT ![b] = 0]
  /\ winner' = [winner EXCEPT ![b] = {}]

\* A comp granted when none runs, compSpinWindowStart, has a key of its own.  setComp reads
\* the company without a lock: another admin's comp may have begun since.
Comp(n) ==
  /\ LockFree
  /\ running' = [running EXCEPT !["comp"] = TRUE]
  /\ free' = [free EXCEPT !["comp"] = n]
  /\ granted' = [granted EXCEPT !["comp"] = n, !["buy:comp"] = 0]
  /\ Restart("comp")
  /\ order' = IF order = "comp" THEN None ELSE order
  /\ UNCHANGED <<banned, entered, spin>>

\* A running comp's spins are adjusted and its key stays; one that has ended since it was
\* read runs again under it.
Adjust(n) ==
  /\ LockFree
  /\ running' = [running EXCEPT !["comp"] = TRUE]
  /\ free' = [free EXCEPT !["comp"] = n]
  /\ granted' = Grants("comp", n)
  /\ UNCHANGED <<banned, bought, used, winner, entered, order, spin>>

\* The admin's setting reaches the trials that are running.
Setting(n) ==
  /\ n # free["trial"]
  /\ free' = [free EXCEPT !["trial"] = n]
  /\ granted' = Grants("trial", n)
  /\ UNCHANGED <<running, banned, bought, used, winner, entered, order, spin>>

\* A trial starts, or is extended after its end: the key is its start.
Trial ==
  /\ ~running["trial"] /\ LockFree
  /\ running' = [running EXCEPT !["trial"] = TRUE]
  /\ UNCHANGED <<banned, free, bought, used, granted, winner, entered, order, spin>>

\* A plan is paid: a new window with the plan's spins.
Plan(n) ==
  /\ ~running["paid"] /\ LockFree
  /\ running' = [running EXCEPT !["paid"] = TRUE]
  /\ Restart("paid")
  /\ bought' = [bought EXCEPT !["paid"] = n]
  /\ granted' = [granted EXCEPT !["paid"] = n]
  /\ order' = IF order = "paid" THEN None ELSE order
  /\ UNCHANGED <<banned, free, entered, spin>>

End(b) ==
  /\ running[b]
  /\ running' = [running EXCEPT ![b] = FALSE]
  /\ UNCHANGED <<banned, free, bought, used, granted, winner, entered, order, spin>>

Ban ==
  /\ LockFree
  /\ banned' = ~banned
  /\ UNCHANGED <<running, free, bought, used, granted, winner, entered, order, spin>>

-----------------------------------------------------------------------------
(* Buying spins *)

\* spinPurchaseOption: on the paid window always, on a comp before a trial, and there
\* only when no spin is left.
Buy ==
  /\ order = None /\ ~banned
  /\ \/ running["paid"] /\ order' = "paid"
     \/ /\ ~running["paid"] /\ Remaining = 0
        /\ \/ running["comp"] /\ order' = "comp"
           \/ ~running["comp"] /\ running["trial"] /\ order' = "trial"
  /\ UNCHANGED <<running, banned, free, bought, used, granted, winner, entered, spin>>

\* freeDrawPeriodOpen and spinWindowClosed are looked at again before the capture.
Captured ==
  /\ order # None
  /\ order' = None
  /\ IF OpenPeriod(order)
       THEN /\ bought[order] < MaxSpins
            /\ bought' = [bought EXCEPT ![order] = @ + 1]
            /\ granted' = Grants(Bought(order), bought[order] + 1)
       ELSE UNCHANGED <<bought, granted>>
  /\ UNCHANGED <<running, banned, free, used, winner, entered, spin>>

-----------------------------------------------------------------------------
(* The spin *)

\* Within a period the free pool is used before the bought one.
Next1(p) == Left(p) > 0 /\ (p # base(p) => Left(base(p)) = 0)

SpinLock(w, p) ==
  /\ spin[w] = None /\ LockFree
  /\ Next1(p)
  /\ spin' = [spin EXCEPT ![w] = p]
  /\ UNCHANGED <<running, banned, free, bought, used, granted, winner, entered, order>>

\* ELIGIBLE_WHERE: nobody wins twice in a period and the pool bought during it.
Eligible(p) == entered \ winner[base(p)]

\* pickRandomEntry and insertDraw; with nobody in the pool the spin stays.
SpinWrite(w) ==
  LET p == spin[w] IN
  /\ p # None
  /\ \/ /\ Eligible(p) = {}
        /\ UNCHANGED <<used, winner>>
     \/ \E c \in Eligible(p) :
          /\ used' = [used EXCEPT ![p] = @ + 1]
          /\ winner' = [winner EXCEPT ![base(p)] = @ \cup {c}]
  /\ spin' = [spin EXCEPT ![w] = None]
  /\ UNCHANGED <<running, banned, free, bought, granted, entered, order>>

SpinDies(w) ==
  /\ spin[w] # None
  /\ spin' = [spin EXCEPT ![w] = None]
  /\ UNCHANGED <<running, banned, free, bought, used, granted, winner, entered, order>>

\* A customer submits, has the last purchase voided, or is erased.
Enter(c) ==
  /\ entered' = IF c \in entered THEN entered \ {c} ELSE entered \cup {c}
  /\ UNCHANGED <<running, banned, free, bought, used, granted, winner, order, spin>>

Next ==
  \/ \E n \in 0 .. MaxSpins : Comp(n) \/ Adjust(n) \/ Setting(n) \/ Plan(n)
  \/ \E b \in Base : End(b)
  \/ Trial \/ Ban \/ Buy \/ Captured
  \/ \E w \in Worker : (\E p \in Pool : SpinLock(w, p)) \/ SpinWrite(w) \/ SpinDies(w)
  \/ \E c \in Customer : Enter(c)

Spec == Init /\ [][Next]_vars

-----------------------------------------------------------------------------

Count == 0 .. MaxSpins

\* The counts and the periods have their types.
TypeOK ==
  /\ running \in [Base -> BOOLEAN] /\ banned \in BOOLEAN
  /\ free \in [Free -> Count] /\ bought \in [Base -> Count]
  /\ used \in [Pool -> Nat] /\ granted \in [Pool -> Count]
  /\ winner \in [Base -> SUBSET Customer] /\ entered \in SUBSET Customer
  /\ order \in Base \cup {None} /\ spin \in [Worker -> Pool \cup {None}]

\* "Two clicks could both read 1 spin remaining and both spend it" (lockCompany): no pool
\* is drawn from more often than the spins it has had.
SpinsWithinBudget == \A p \in Pool : used[p] <= granted[p]

=============================================================================
