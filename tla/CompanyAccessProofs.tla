------------------------ MODULE CompanyAccessProofs ------------------------
(***************************************************************************)
(* The SQL projection is computeEntitlement; access that was given is kept; *)
(* data is erased only after the retention period.  For every clock, bound  *)
(* and number of requests.                                                  *)
(***************************************************************************)
EXTENDS CompanyAccess, TLAPS

USE NullAssumption, DaysAssumption, BoundAssumption

-----------------------------------------------------------------------------
(* Entitlement *)

\* For every company record and time, the arms of the SQL statement decide as
\* computeEntitlement does.
THEOREM Mirror ==
  ASSUME NEW c, NEW t
  PROVE  [status |-> ReconcileStatus(c, t), hasAccess |-> ReconcileAccess(c, t)]
           = computeEntitlement(c, t)
  BY DEF ReconcileStatus, ReconcileAccess, computeEntitlement, Entitlement

\* Access is a live comp, paid time or trial of a company that is not banned.
LEMMA AccessIs ==
  ASSUME NEW c, NEW t
  PROVE  HasAccess(c, t) <=> ReconcileAccess(c, t)
  BY DEF HasAccess, ReconcileAccess, computeEntitlement, Entitlement

LEMMA ProjectType ==
  ASSUME NEW c, NEW t
  PROVE  Project(computeEntitlement(c, t)) \in Columns
  BY DEF Project, computeEntitlement, Entitlement, Columns, Status

LEMMA ReconcileType ==
  ASSUME NEW c, NEW t, c.deactivated \in BOOLEAN
  PROVE  [status |-> ReconcileStatus(c, t), isActive |-> ReconcileAccess(c, t)] \in Columns
  BY DEF ReconcileStatus, ReconcileAccess, Columns, Status

\* A stacked date lies at least the added days after both.
LEMMA ExtendedLater ==
  ASSUME NEW d \in Int \cup {Null}, NEW from \in Int, NEW days \in Nat \ {0}
  PROVE  /\ Extended(d, from, days) \in Int
         /\ Extended(d, from, days) >= from + days
         /\ \A t \in Int : Later(d, t) => Later(Extended(d, from, days), t)
  BY DEF Extended, Later

-----------------------------------------------------------------------------
(* Types *)

LEMMA TypeInit == Init => TypeOK
<1> SUFFICES ASSUME Init PROVE TypeOK
  OBVIOUS
<1>1. PICK comped \in BOOLEAN, until \in Int \cup {Null} : company = Fresh(comped, until)
  <2>1. CASE company = Fresh(FALSE, Null)
    BY <2>1
  <2>2. ASSUME NEW until \in (Date \ {0}) \cup {Null}, company = Fresh(TRUE, until)
        PROVE  until \in Int \cup {Null} /\ TRUE \in BOOLEAN
    BY DEF Date
  <2> QED BY <2>1, <2>2, Zenon DEF Init
<1>2. company \in Company
  BY <1>1 DEF Fresh, Company
<1>3. shown \in Columns
  BY ProjectType DEF Init
<1>4. Resting \in [task : Task, read : Company \cup {Null}] /\ Resting.task = "none"
  BY DEF Resting, Task
<1>5. worker \in [Worker -> [task : Task, read : Company \cup {Null}]]
      /\ \A w \in Worker : worker[w].task = "none"
  BY <1>4 DEF Init
<1>6. claimed \in BOOLEAN /\ verified \in BOOLEAN /\ data \in BOOLEAN /\ purged \in BOOLEAN /\ listed \in BOOLEAN
  BY DEF Init
<1>7. now \in Nat /\ sweep = Null /\ charges \in Nat /\ refunds \in Nat /\ edits \in Nat /\ lostAt \in Int
  BY DEF Init
<1> QED BY <1>2, <1>3, <1>5, <1>6, <1>7 DEF TypeOK

\* The columns a step writes, and its history.
LEMMA BecomesType ==
  ASSUME TypeOK, NEW c \in Company, Becomes(c)
  PROVE  company' \in Company /\ lostAt' \in Int
  BY DEF Becomes, TypeOK

\* What a worker may hold.
Held == [task : Task, read : Company \cup {Null}]

LEMMA WorkerType ==
  ASSUME TypeOK, NEW w \in Worker, NEW h \in Held,
         h.task \notin {"none", "verify"} => h.read \in Company,
         worker' = [worker EXCEPT ![w] = h]
  PROVE  /\ worker' \in [Worker -> Held]
         /\ \A v \in Worker : worker'[v].task \notin {"none", "verify"} => worker'[v].read \in Company
  BY DEF TypeOK, Held

LEMMA FinishType ==
  ASSUME TypeOK, NEW w \in Worker, Finish(w)
  PROVE  /\ worker' \in [Worker -> Held]
         /\ \A v \in Worker : worker'[v].task \notin {"none", "verify"} => worker'[v].read \in Company
<1>1. Resting \in Held /\ Resting.task = "none"
  BY DEF Resting, Held, Task
<1> QED BY <1>1, WorkerType DEF Finish

LEMMA BeginType ==
  ASSUME TypeOK, NEW w \in Worker, NEW task \in Task, Begin(w, task)
  PROVE  /\ worker' \in [Worker -> Held]
         /\ \A v \in Worker : worker'[v].task \notin {"none", "verify"} => worker'[v].read \in Company
<1> DEFINE h == [task |-> task, read |-> company]
<1>1. h \in Held /\ h.read \in Company
  BY DEF TypeOK, Held
<1> HIDE DEF h
<1>2. worker' = [worker EXCEPT ![w] = h]
  BY DEF Begin, h
<1> QED BY <1>1, <1>2, WorkerType

LEMMA TypeRequest ==
  ASSUME TypeOK, NEW w \in Worker, NEW task \in Task, NEW allowed, Request(w, task, allowed)
  PROVE  TypeOK'
<1>1. UNCHANGED <<now, dates, signup, sweep, erasure, charges, refunds>> /\ edits' \in Nat
  BY DEF Request, TypeOK
<1>2. Begin(w, task)
  BY DEF Request
<1> QED BY <1>1, <1>2, BeginType DEF TypeOK, Held, dates, signup, erasure

\* A commit is well typed when the columns it writes are.
LEMMA TypeCommit ==
  ASSUME TypeOK, NEW w \in Worker, NEW task, Commit(w, task),
         NEW c \in Company, Becomes(c), shown' \in Columns
  PROVE  TypeOK'
<1>1. UNCHANGED <<now, signup, sweep, erasure, bounds>> /\ Finish(w)
  BY DEF Commit
<1> QED BY <1>1, FinishType, BecomesType DEF TypeOK, Held, signup, erasure, bounds

LEMMA TypeRequests ==
  ASSUME TypeOK, NEW w \in Worker, Requests(w)
  PROVE  TypeOK'
<1>1. ASSUME BanReads(w) \/ UnbanReads(w) \/ CompReads(w) \/ GrantReads(w)
      PROVE  TypeOK'
  BY <1>1, TypeRequest DEF BanReads, UnbanReads, CompReads, GrantReads, Task
<1>2. CASE setDeactivated(w)
  <2>1. [company EXCEPT !.deactivated = TRUE] \in Company
    BY DEF TypeOK, Company
  <2>2. shown' \in Columns
    BY <1>2 DEF setDeactivated, TypeOK, Columns
  <2> QED BY <1>2, <2>1, <2>2, TypeCommit DEF setDeactivated
<1>3. CASE activateCompany(w)
  <2>1. [company EXCEPT !.deactivated = FALSE] \in Company
    BY DEF TypeOK, Company
  <2>2. shown' \in Columns
    BY <1>3, ProjectType DEF activateCompany
  <2> QED BY <1>3, <2>1, <2>2, TypeCommit DEF activateCompany
<1>4. ASSUME NEW comped \in BOOLEAN, NEW until \in {d \in Date : d > now} \cup {Null},
             setComp(w, comped, until)
      PROVE  TypeOK'
  <2>1. until \in Int \cup {Null}
    BY DEF Date
  <2>2. [company EXCEPT !.comped = comped, !.compedUntil = until] \in Company
    BY <2>1 DEF TypeOK, Company
  <2>3. shown' \in Columns
    BY <1>4, ProjectType DEF setComp
  <2> QED BY <1>4, <2>2, <2>3, TypeCommit DEF setComp
<1>5. CASE extendTrial(w)
  <2> DEFINE ends == Extended(company.trialEnds, now, TrialDays)
  <2>1. company.trialEnds \in Int \cup {Null} /\ now \in Int
    BY DEF TypeOK, Company
  <2>0. ends \in Int
    BY <2>1, ExtendedLater
  <2>2. [company EXCEPT !.trialEnds = ends] \in Company
    BY <2>0 DEF TypeOK, Company
  <2>3. shown' \in Columns
    BY <1>5, ProjectType DEF extendTrial
  <2> QED BY <1>5, <2>2, <2>3, TypeCommit DEF extendTrial
<1>6. CASE ConfirmReadsUser(w)
  <2> DEFINE h == [worker[w] EXCEPT !.task = "verify"]
  <2>1. h \in Held /\ h.task = "verify"
    BY DEF TypeOK, Held, Task
  <2>2. worker' = [worker EXCEPT ![w] = h]
    BY <1>6 DEF ConfirmReadsUser, TypeOK
  <2> HIDE DEF h
  <2>3. UNCHANGED <<now, dates, signup, sweep, erasure, bounds>>
    BY <1>6 DEF ConfirmReadsUser
  <2> QED BY <2>1, <2>2, <2>3, WorkerType DEF TypeOK, Held, dates, signup, erasure, bounds
<1>7. CASE ConfirmReadsCompany(w)
  <2>1. UNCHANGED <<now, dates, signup, sweep, erasure, bounds>> /\ Begin(w, "confirm")
    BY <1>7 DEF ConfirmReadsCompany
  <2> QED BY <2>1, BeginType DEF TypeOK, Held, Task, dates, signup, erasure, bounds
<1>8. CASE confirmEmailVerification(w)
  <2>1. UNCHANGED <<now, sweep, erasure, bounds>> /\ Finish(w) /\ verified' = TRUE
    BY <1>8 DEF confirmEmailVerification
  <2>2. claimed' \in BOOLEAN /\ company' \in Company /\ lostAt' \in Int /\ shown' \in Columns
    <3>1. CASE StartTrial(w)
      <4>1. [company EXCEPT !.trialEnds = now + TrialDays] \in Company
        BY DEF TypeOK, Company
      <4>2. company' \in Company /\ lostAt' \in Int
        BY <3>1, <4>1, BecomesType DEF StartTrial
      <4> QED BY <3>1, <4>2 DEF StartTrial, Columns, Status
    <3>2. CASE NoTrial(w)
      BY <3>2 DEF NoTrial, TypeOK, dates
    <3> QED BY <1>8, <3>1, <3>2 DEF confirmEmailVerification
  <2> QED BY <2>1, <2>2, FinishType DEF TypeOK, Held, erasure, bounds
<1> QED BY <1>1, <1>2, <1>3, <1>4, <1>5, <1>6, <1>7, <1>8 DEF Requests

LEMMA TypeNext == TypeOK /\ [Next]_vars => TypeOK'
<1> SUFFICES ASSUME TypeOK, [Next]_vars PROVE TypeOK'
  OBVIOUS
<1>1. ASSUME NEW w \in Worker, Requests(w) PROVE TypeOK'
  BY <1>1, TypeRequests
<1>2. CASE extendSubscription
  <2>1. PICK from \in ChargeFrom :
          /\ Becomes([company EXCEPT !.paidUntil = Extended(company.paidUntil, from, PlanDays)])
          /\ shown' = [shown EXCEPT !.isActive = ~company.deactivated]
          /\ charges' = charges + 1
          /\ UNCHANGED <<now, signup, worker, sweep, erasure, refunds, edits>>
    BY <1>2 DEF extendSubscription
  <2>2. from \in Int
    BY DEF ChargeFrom, TypeOK, Company, Later
  <2>3. [company EXCEPT !.paidUntil = Extended(company.paidUntil, from, PlanDays)] \in Company
    BY <2>2, ExtendedLater DEF TypeOK, Company
  <2>4. company' \in Company /\ lostAt' \in Int
    BY <2>1, <2>3, BecomesType
  <2>5. shown' \in Columns
    BY <2>1 DEF TypeOK, Columns, Company
  <2> QED BY <2>1, <2>4, <2>5 DEF TypeOK, signup, erasure
<1>3. CASE subtractPaidWindow
  <2>1. [company EXCEPT !.paidUntil = @ - PlanDays] \in Company
    BY <1>3 DEF subtractPaidWindow, TypeOK, Company
  <2>2. company' \in Company /\ lostAt' \in Int
    BY <1>3, <2>1, BecomesType DEF subtractPaidWindow
  <2> QED BY <1>3, <2>2 DEF subtractPaidWindow, TypeOK, signup, erasure
<1>4. CASE releaseTrialIdentity
  <2>1. edits' \in Nat
    BY <1>4 DEF releaseTrialIdentity, TypeOK
  <2>0. claimed' \in BOOLEAN
    BY <1>4, Zenon DEF releaseTrialIdentity
  <2>2. UNCHANGED <<now, company, lostAt, shown, verified, worker, sweep, data, purged, listed,
                    charges, refunds>>
    BY <1>4 DEF releaseTrialIdentity, dates, erasure
  <2> QED BY <2>0, <2>1, <2>2 DEF TypeOK
<1>5. CASE confirmPasswordReset
  BY <1>5 DEF confirmPasswordReset, TypeOK, dates, erasure, bounds
<1>6. CASE Reconcile
  <2>1. CASE ReconcileReads
    <3>1. sweep' \in Columns
      BY <2>1, ReconcileType DEF ReconcileReads, TypeOK, Company
    <3> QED BY <2>1, <3>1 DEF ReconcileReads, TypeOK, dates, signup, erasure, bounds
  <2>2. CASE ReconcileWrites
    <3>1. shown' \in Columns
      BY <2>2 DEF ReconcileWrites, TypeOK
    <3> QED BY <2>2, <3>1 DEF ReconcileWrites, TypeOK, signup, erasure, bounds
  <2> QED BY <1>6, <2>1, <2>2 DEF Reconcile
<1>7. CASE Purge
  BY <1>7 DEF Purge, findDue, purge, TypeOK, dates, signup, bounds
<1>8. CASE submitPurchase
  BY <1>8 DEF submitPurchase, TypeOK, dates, signup, bounds
<1>9. CASE Tick
  BY <1>9 DEF Tick, TypeOK, signup, erasure, bounds
<1>10. CASE UNCHANGED vars
  BY <1>10 DEF vars, TypeOK, dates, signup, erasure, bounds
<1> QED BY <1>1, <1>2, <1>3, <1>4, <1>5, <1>6, <1>7, <1>8, <1>9, <1>10 DEF Next

\* Every variable keeps its type.
THEOREM TypeCorrect == Spec => []TypeOK
  BY TypeInit, TypeNext, PTL DEF Spec

\* At every moment the projection agrees with computeEntitlement.
THEOREM MirrorCorrect == Spec => []MirrorAgrees
<1>1. MirrorAgrees
  BY Mirror DEF MirrorAgrees
<1> QED BY <1>1, PTL

-----------------------------------------------------------------------------
(* Access is kept *)

\* Without an admin's trial extension, at most one request stands between its reading of the
\* company and its start of a trial, and a company it read without a trial still has none.
Confirming ==
  /\ TypeOK
  /\ \A w \in Worker : worker[w].task # "grant"
  /\ \A v, w \in Worker : worker[v].task = "confirm" /\ worker[w].task = "confirm" => v = w
  /\ \A w \in Worker : worker[w].task = "confirm" /\ worker[w].read.trialEnds = Null
                         => company.trialEnds = Null

LEMMA ConfirmingInit == Init => Confirming
<1> SUFFICES ASSUME Init PROVE Confirming
  OBVIOUS
<1>1. \A w \in Worker : worker[w].task = "none"
  BY DEF Init, Resting
<1> QED BY <1>1, TypeInit DEF Confirming

\* A step that neither reads nor ends a verification, and leaves the trial alone.
LEMMA Unbothered ==
  ASSUME Confirming, TypeOK', company'.trialEnds = company.trialEnds,
         \A v \in Worker : worker'[v] = worker[v] \/ worker'[v].task \notin {"grant", "confirm"}
  PROVE  Confirming'
  BY DEF Confirming

LEMMA Rests ==
  ASSUME TypeOK, NEW w \in Worker, Finish(w)
  PROVE  \A v \in Worker : /\ v # w => worker'[v] = worker[v]
                           /\ v = w => worker'[v].task = "none"
  BY DEF Finish, Resting, TypeOK

LEMMA Reads ==
  ASSUME TypeOK, NEW w \in Worker, NEW task, Begin(w, task)
  PROVE  \A v \in Worker : /\ v # w => worker'[v] = worker[v]
                           /\ v = w => worker'[v] = [task |-> task, read |-> company]
  BY DEF Begin, TypeOK

LEMMA ConfirmingRequests ==
  ASSUME Confirming, MayGrant = FALSE, NEW w \in Worker, Requests(w)
  PROVE  Confirming'
<1> USE DEF Confirming
<1>0. TypeOK'
  BY TypeRequests
<1>1. ASSUME BanReads(w) \/ UnbanReads(w) \/ CompReads(w)
      PROVE  Confirming'
  <2>1. PICK task \in {"ban", "unban", "comp"} : Begin(w, task) /\ UNCHANGED company
    BY <1>1 DEF BanReads, UnbanReads, CompReads, Request, dates
  <2>2. ASSUME NEW v \in Worker
        PROVE  worker'[v] = worker[v] \/ worker'[v].task \notin {"grant", "confirm"}
    <3>1. CASE v # w
      BY <2>1, <3>1, Reads
    <3>2. CASE v = w
      <4>1. worker'[v] = [task |-> task, read |-> company]
        BY <2>1, <3>2, Reads
      <4> QED BY <4>1
    <3> QED BY <3>1, <3>2
  <2> QED BY <1>0, <2>1, <2>2, Unbothered
<1>2. ASSUME setDeactivated(w) \/ activateCompany(w)
             \/ (\E comped \in BOOLEAN, until \in {d \in Date : d > now} \cup {Null} :
                   setComp(w, comped, until))
      PROVE  Confirming'
  <2>1. Finish(w)
    BY <1>2 DEF setDeactivated, activateCompany, setComp, Commit
  <2>2. company'.trialEnds = company.trialEnds
    BY <1>2 DEF setDeactivated, activateCompany, setComp, Becomes, TypeOK, Company
  <2> QED BY <1>0, <2>1, <2>2, Rests, Unbothered
<1>3. ~GrantReads(w) /\ ~extendTrial(w)
  BY DEF GrantReads, extendTrial, Commit
<1>4. CASE ConfirmReadsUser(w)
  <2>1. \A v \in Worker : worker'[v] = worker[v] \/ worker'[v].task = "verify"
    BY <1>4 DEF ConfirmReadsUser, TypeOK
  <2> QED BY <1>0, <1>4, <2>1, Unbothered DEF ConfirmReadsUser, dates
<1>5. CASE ConfirmReadsCompany(w)
  <2>1. /\ Begin(w, "confirm") /\ UNCHANGED company
        /\ \A v \in Worker : worker[v].task # "confirm"
    BY <1>5 DEF ConfirmReadsCompany, dates
  <2>2. \A v \in Worker : v # w => worker'[v] = worker[v] /\ worker'[v].task # "confirm"
    BY <2>1, Reads
  <2>3. worker'[w].task = "confirm" /\ worker'[w].read = company'
    <3>1. worker'[w] = [task |-> "confirm", read |-> company]
      BY <2>1, Reads
    <3> QED BY <2>1, <3>1
  <2>4. \A v \in Worker : worker'[v].task # "grant"
    BY <2>2, <2>3
  <2> QED BY <1>0, <2>2, <2>3, <2>4
<1>6. CASE confirmEmailVerification(w)
  <2>1. Finish(w) /\ worker[w].task = "confirm"
    BY <1>6 DEF confirmEmailVerification
  <2>2. \A v \in Worker : worker'[v].task # "confirm" /\ worker'[v].task # "grant"
    BY <2>1, Rests
  <2> QED BY <1>0, <2>2
<1> QED BY <1>1, <1>2, <1>3, <1>4, <1>5, <1>6 DEF Requests

LEMMA ConfirmingNext == Confirming /\ MayGrant = FALSE /\ [Next]_vars => Confirming'
<1> SUFFICES ASSUME Confirming, MayGrant = FALSE, [Next]_vars PROVE Confirming'
  OBVIOUS
<1>0. TypeOK'
  BY TypeNext DEF Confirming
<1>1. ASSUME NEW w \in Worker, Requests(w) PROVE Confirming'
  BY <1>1, ConfirmingRequests
<1>2. CASE extendSubscription \/ subtractPaidWindow
  <2>1. UNCHANGED worker /\ company'.trialEnds = company.trialEnds
    BY <1>2 DEF extendSubscription, subtractPaidWindow, Becomes, Confirming, TypeOK, Company
  <2> QED BY <1>0, <2>1, Unbothered
<1>3. CASE releaseTrialIdentity \/ confirmPasswordReset \/ Reconcile \/ Purge
           \/ submitPurchase \/ Tick \/ UNCHANGED vars
  <2>1. UNCHANGED <<worker, company>>
    BY <1>3 DEF releaseTrialIdentity, confirmPasswordReset, Reconcile, ReconcileReads,
         ReconcileWrites, Purge, findDue, purge, submitPurchase, Tick, vars, dates
  <2> QED BY <1>0, <2>1, Unbothered
<1> QED BY <1>1, <1>2, <1>3 DEF Next

\* Later dates, and the same ban and comp, give no less access.
LEMMA GivesMore ==
  ASSUME NEW c, NEW d,
         d.deactivated = c.deactivated, d.comped = c.comped, d.compedUntil = c.compedUntil,
         \A t \in Int : Later(c.paidUntil, t) => Later(d.paidUntil, t),
         \A t \in Int : Later(c.trialEnds, t) => Later(d.trialEnds, t)
  PROVE  \A t \in Int : HasAccess(c, t) => HasAccess(d, t)
  BY AccessIs DEF ReconcileAccess, CompLive

Keeps == \A t \in Int : HasAccess(company, t) => HasAccess(company', t)

LEMMA KeepsRequests ==
  ASSUME Confirming, MayGrant = FALSE, NEW w \in Worker, Requests(w)
  PROVE  TakenBack \/ Keeps
<1> USE DEF Confirming
<1>1. CASE UNCHANGED company
  BY <1>1 DEF Keeps
<1>2. ASSUME BanReads(w) \/ UnbanReads(w) \/ CompReads(w) \/ ConfirmReadsUser(w) \/ ConfirmReadsCompany(w)
      PROVE  UNCHANGED company
  BY <1>2 DEF BanReads, UnbanReads, CompReads, ConfirmReadsUser, ConfirmReadsCompany, Request, dates
<1>3. ASSUME NEW b \in BOOLEAN, company' = [company EXCEPT !.deactivated = b]
      PROVE  TakenBack \/ Keeps
  <2>1. CASE company'.deactivated = company.deactivated
    <3>1. company' = company
      BY <1>3, <2>1 DEF TypeOK, Company
    <3> QED BY <3>1 DEF Keeps
  <2>2. CASE company'.deactivated # company.deactivated
    BY <2>2 DEF TakenBack
  <2> QED BY <2>1, <2>2
<1>4. CASE setDeactivated(w) \/ activateCompany(w)
  BY <1>3, <1>4 DEF setDeactivated, activateCompany, Becomes
<1>5. ASSUME NEW comped \in BOOLEAN, NEW until, setComp(w, comped, until)
      PROVE  TakenBack \/ Keeps
  <2>1. company' = [company EXCEPT !.comped = comped, !.compedUntil = until]
    BY <1>5 DEF setComp, Becomes
  <2>2. CASE company'.comped = company.comped /\ company'.compedUntil = company.compedUntil
    <3>1. company' = company
      BY <2>1, <2>2 DEF TypeOK, Company
    <3> QED BY <3>1 DEF Keeps
  <2> QED BY <2>2 DEF TakenBack
<1>6. ~GrantReads(w) /\ ~extendTrial(w)
  BY DEF GrantReads, extendTrial, Commit
<1>7. CASE confirmEmailVerification(w)
  <2>1. CASE NoTrial(w)
    BY <1>1, <2>1 DEF NoTrial, dates
  <2>2. CASE StartTrial(w)
    <3>1. worker[w].task = "confirm" /\ worker[w].read.trialEnds = Null
      BY <1>7, <2>2 DEF confirmEmailVerification, StartTrial, MayTrial
    <3>2. company.trialEnds = Null
      BY <3>1
    <3>3. company' = [company EXCEPT !.trialEnds = now + TrialDays]
      BY <2>2 DEF StartTrial, Becomes
    <3>4. /\ company'.deactivated = company.deactivated /\ company'.comped = company.comped
          /\ company'.compedUntil = company.compedUntil /\ company'.paidUntil = company.paidUntil
      BY <3>3 DEF TypeOK, Company
    <3>5. \A t \in Int : ~Later(company.trialEnds, t)
      BY <3>2 DEF Later
    <3> QED BY <3>4, <3>5, GivesMore DEF Keeps
  <2> QED BY <1>7, <2>1, <2>2 DEF confirmEmailVerification
<1> QED BY <1>1, <1>2, <1>4, <1>5, <1>6, <1>7 DEF Requests

LEMMA KeepsNext == Confirming /\ MayGrant = FALSE /\ [Next]_vars => TakenBack \/ Keeps
<1> SUFFICES ASSUME Confirming, MayGrant = FALSE, [Next]_vars PROVE TakenBack \/ Keeps
  OBVIOUS
<1>1. ASSUME NEW w \in Worker, Requests(w) PROVE TakenBack \/ Keeps
  BY <1>1, KeepsRequests
<1>2. CASE extendSubscription
  <2>1. PICK from \in ChargeFrom :
          company' = [company EXCEPT !.paidUntil = Extended(company.paidUntil, from, PlanDays)]
    BY <1>2 DEF extendSubscription, Becomes
  <2>2. from \in Int /\ company.paidUntil \in Int \cup {Null}
    BY DEF ChargeFrom, Confirming, TypeOK, Company, Later
  <2>3. \A t \in Int : Later(company.paidUntil, t) => Later(company'.paidUntil, t)
    BY <2>1, <2>2, ExtendedLater DEF Confirming, TypeOK, Company
  <2>4. /\ company'.deactivated = company.deactivated /\ company'.comped = company.comped
        /\ company'.compedUntil = company.compedUntil /\ company'.trialEnds = company.trialEnds
    BY <2>1 DEF Confirming, TypeOK, Company
  <2> QED BY <2>3, <2>4, GivesMore DEF Keeps
<1>3. CASE subtractPaidWindow
  BY <1>3 DEF subtractPaidWindow, TakenBack, Confirming, TypeOK
<1>4. CASE releaseTrialIdentity \/ confirmPasswordReset \/ Reconcile \/ Purge
           \/ submitPurchase \/ Tick \/ UNCHANGED vars
  <2>1. UNCHANGED company
    BY <1>4 DEF releaseTrialIdentity, confirmPasswordReset, Reconcile, ReconcileReads,
         ReconcileWrites, Purge, findDue, purge, submitPurchase, Tick, vars, dates
  <2> QED BY <2>1 DEF Keeps
<1> QED BY <1>1, <1>2, <1>3, <1>4 DEF Next

\* Where no admin extends trials, no step but a ban, a change of the comp or a refund takes
\* away access the company had been given for a later day.
THEOREM AccessIsKept ==
  ASSUME MayGrant = FALSE
  PROVE  Spec => AccessKept
<1>1. Confirming /\ [Next]_vars
        => [TakenBack \/ \A t \in Date : t >= now /\ HasAccess(company, t) => HasAccess(company', t)]_vars
  BY KeepsNext DEF Keeps, Date
<1>2. Confirming /\ [Next]_vars => Confirming'
  BY ConfirmingNext
<1> QED BY <1>1, <1>2, ConfirmingInit, PTL DEF Spec, AccessKept

-----------------------------------------------------------------------------
(* Data is kept for the retention period *)

\* Access ended no later than the dates the purge counts from.
Ended ==
  /\ TypeOK
  /\ company.comped \/ lostAt <= accessEndedAt(company)
  /\ lostAt <= now

LEMMA EndedInt ==
  ASSUME NEW c \in Company
  PROVE  accessEndedAt(c) \in Int
  BY DEF accessEndedAt, Company

\* Without a comp, access lasts only until those dates.
LEMMA EndsAfter ==
  ASSUME NEW c \in Company, ~c.comped, NEW t \in Nat, HasAccess(c, t)
  PROVE  accessEndedAt(c) > t
<1>1. Later(c.paidUntil, t) \/ Later(c.trialEnds, t)
  BY AccessIs DEF ReconcileAccess, CompLive
<1> QED BY <1>1 DEF Later, accessEndedAt, Company

LEMMA EndedBecomes ==
  ASSUME Ended, NEW c \in Company, Becomes(c), company.comped => c.comped,
         c.comped \/ accessEndedAt(c) >= accessEndedAt(company) \/ accessEndedAt(c) > now
  PROVE  (company'.comped \/ lostAt' <= accessEndedAt(company')) /\ lostAt' <= now
<1> USE DEF Ended, TypeOK
<1>1. accessEndedAt(c) \in Int /\ accessEndedAt(company) \in Int
  BY EndedInt
<1>2. company' = c
  BY DEF Becomes
<1>3. CASE lostAt' = lostAt
  BY <1>1, <1>2, <1>3
<1>4. CASE lostAt' = now /\ HasAccess(company, now)
  <2>1. CASE company.comped
    BY <1>2, <1>4, <2>1
  <2>2. CASE ~company.comped
    <3>1. accessEndedAt(company) > now
      BY <1>4, <2>2, EndsAfter
    <3> QED BY <1>1, <1>2, <1>4, <3>1
  <2> QED BY <2>1, <2>2
<1> QED BY <1>3, <1>4 DEF Becomes

\* A later paid expiry or trial end.
LEMMA EndsLater ==
  ASSUME NEW c \in Company, NEW t \in Nat, Later(c.paidUntil, t) \/ Later(c.trialEnds, t)
  PROVE  accessEndedAt(c) > t
  BY DEF Later, accessEndedAt, Company

LEMMA EndedRequests ==
  ASSUME Ended, MayTakeBack = FALSE, NEW w \in Worker, Requests(w)
  PROVE  Ended'
<1> USE DEF Ended
<1>0. TypeOK'
  BY TypeRequests
<1>1. CASE UNCHANGED <<now, company, lostAt>>
  BY <1>0, <1>1
<1>2. ASSUME BanReads(w) \/ UnbanReads(w) \/ CompReads(w) \/ GrantReads(w)
             \/ ConfirmReadsUser(w) \/ ConfirmReadsCompany(w)
      PROVE  UNCHANGED <<now, company, lostAt>>
  BY <1>2 DEF BanReads, UnbanReads, CompReads, GrantReads, ConfirmReadsUser, ConfirmReadsCompany,
       Request, dates
<1>3. ASSUME NEW c \in Company, Becomes(c), UNCHANGED now, company.comped => c.comped,
             c.comped \/ accessEndedAt(c) >= accessEndedAt(company) \/ accessEndedAt(c) > now
      PROVE  Ended'
  BY <1>0, <1>3, EndedBecomes
<1>4. ASSUME NEW b \in BOOLEAN, Becomes([company EXCEPT !.deactivated = b]), UNCHANGED now
      PROVE  Ended'
  <2> DEFINE c == [company EXCEPT !.deactivated = b]
  <2>1. c \in Company /\ c.comped = company.comped /\ accessEndedAt(c) = accessEndedAt(company)
    BY DEF TypeOK, Company, accessEndedAt
  <2> HIDE DEF c
  <2>2. Becomes(c)
    BY <1>4 DEF c
  <2>3. accessEndedAt(c) >= accessEndedAt(company)
    BY <2>1, EndedInt DEF TypeOK
  <2> QED BY <1>3, <1>4, <2>1, <2>2, <2>3
<1>5. CASE setDeactivated(w) \/ activateCompany(w)
  BY <1>4, <1>5 DEF setDeactivated, activateCompany, Commit
<1>6. ASSUME NEW comped \in BOOLEAN, NEW until \in {d \in Date : d > now} \cup {Null},
             setComp(w, comped, until)
      PROVE  Ended'
  <2> DEFINE c == [company EXCEPT !.comped = comped, !.compedUntil = until]
  <2>1. until \in Int \cup {Null}
    BY DEF Date
  <2>2. comped = TRUE
    BY <1>6 DEF setComp
  <2>3. c \in Company /\ c.comped
    BY <2>1, <2>2 DEF TypeOK, Company
  <2>4. Becomes(c) /\ UNCHANGED now
    BY <1>6 DEF setComp, Commit
  <2> HIDE DEF c
  <2> QED BY <1>3, <2>3, <2>4
<1>7. ASSUME NEW ends \in Int, ends > now, Becomes([company EXCEPT !.trialEnds = ends]), UNCHANGED now
      PROVE  Ended'
  <2> DEFINE c == [company EXCEPT !.trialEnds = ends]
  <2>1. c \in Company /\ c.comped = company.comped /\ Later(c.trialEnds, now)
    BY <1>7 DEF TypeOK, Company, Later
  <2>2. Becomes(c)
    BY <1>7
  <2> HIDE DEF c
  <2>3. accessEndedAt(c) > now
    BY <2>1, EndsLater DEF TypeOK
  <2> QED BY <1>3, <1>7, <2>1, <2>2, <2>3
<1>8. CASE extendTrial(w)
  <2> DEFINE ends == Extended(company.trialEnds, now, TrialDays)
  <2>1. company.trialEnds \in Int \cup {Null} /\ now \in Int
    BY DEF TypeOK, Company
  <2>2. ends \in Int /\ ends >= now + TrialDays
    BY <2>1, ExtendedLater
  <2>3. Becomes([company EXCEPT !.trialEnds = ends]) /\ UNCHANGED now
    BY <1>8 DEF extendTrial, Commit
  <2> HIDE DEF ends
  <2> QED BY <1>7, <2>1, <2>2, <2>3
<1>9. CASE confirmEmailVerification(w)
  <2>1. CASE NoTrial(w)
    BY <1>1, <1>9, <2>1 DEF NoTrial, dates, confirmEmailVerification
  <2>2. CASE StartTrial(w)
    <3>1. Becomes([company EXCEPT !.trialEnds = now + TrialDays]) /\ UNCHANGED now
      BY <1>9, <2>2 DEF StartTrial, confirmEmailVerification
    <3>2. now + TrialDays \in Int /\ now + TrialDays > now
      BY DEF TypeOK
    <3> QED BY <1>7, <3>1, <3>2
  <2> QED BY <1>9, <2>1, <2>2 DEF confirmEmailVerification
<1> QED BY <1>1, <1>2, <1>5, <1>6, <1>8, <1>9 DEF Requests

LEMMA EndedNext == Ended /\ MayTakeBack = FALSE /\ [Next]_vars => Ended'
<1> SUFFICES ASSUME Ended, MayTakeBack = FALSE, [Next]_vars PROVE Ended'
  OBVIOUS
<1> USE DEF Ended
<1>0. TypeOK'
  BY TypeNext
<1>1. ASSUME NEW w \in Worker, Requests(w) PROVE Ended'
  BY <1>1, EndedRequests
<1>2. CASE extendSubscription
  <2>1. PICK from \in ChargeFrom :
          /\ Becomes([company EXCEPT !.paidUntil = Extended(company.paidUntil, from, PlanDays)])
          /\ UNCHANGED now
    BY <1>2 DEF extendSubscription
  <2> DEFINE until == Extended(company.paidUntil, from, PlanDays)
             c     == [company EXCEPT !.paidUntil = until]
  <2>2. from \in Int /\ from >= now /\ company.paidUntil \in Int \cup {Null}
    BY DEF ChargeFrom, TypeOK, Company, Later
  <2>3. until \in Int /\ until > now
    <3>1. until \in Int /\ until >= from + PlanDays
      BY <2>2, ExtendedLater
    <3> HIDE DEF until
    <3> QED BY <2>2, <3>1 DEF TypeOK
  <2> HIDE DEF until
  <2>4. c \in Company /\ c.comped = company.comped /\ Later(c.paidUntil, now)
    BY <2>3 DEF TypeOK, Company, Later
  <2>5. Becomes(c)
    BY <2>1 DEF until
  <2> HIDE DEF c
  <2>6. accessEndedAt(c) > now
    BY <2>4, EndsLater DEF TypeOK
  <2> QED BY <1>0, <2>1, <2>4, <2>5, <2>6, EndedBecomes
<1>3. ~subtractPaidWindow
  BY DEF subtractPaidWindow
<1>4. CASE releaseTrialIdentity \/ confirmPasswordReset \/ Reconcile \/ Purge
           \/ submitPurchase \/ UNCHANGED vars
  <2>1. UNCHANGED <<now, company, lostAt>>
    BY <1>4 DEF releaseTrialIdentity, confirmPasswordReset, Reconcile, ReconcileReads,
         ReconcileWrites, Purge, findDue, purge, submitPurchase, vars, dates
  <2> QED BY <1>0, <2>1
<1>5. CASE Tick
  <2>1. /\ now' = now + 1 /\ UNCHANGED company
        /\ lostAt' = lostAt \/ (lostAt' = now + 1 /\ HasAccess(company, now))
    BY <1>5 DEF Tick
  <2>2. ~company.comped /\ HasAccess(company, now) => accessEndedAt(company) >= now + 1
    BY EndsAfter, EndedInt DEF TypeOK
  <2>3. lostAt' <= now'
    BY <2>1 DEF TypeOK
  <2>4. company'.comped \/ lostAt' <= accessEndedAt(company')
    BY <2>1, <2>2
  <2> QED BY <1>0, <2>3, <2>4
<1> QED BY <1>1, <1>2, <1>3, <1>4, <1>5 DEF Next

LEMMA EndedInit == Init => Ended
<1> SUFFICES ASSUME Init PROVE Ended
  OBVIOUS
<1>1. TypeOK
  BY TypeInit
<1>2. accessEndedAt(company) = 0
  BY DEF Init, Fresh, accessEndedAt
<1> QED BY <1>1, <1>2 DEF Ended, Init

LEMMA PurgesLapsed == Ended /\ [Next]_vars => [purged' # purged => Lapsed]_vars
<1> SUFFICES ASSUME Ended, Next, purged' # purged PROVE Lapsed
  BY DEF vars
<1> USE DEF Ended
<1>1. StillEligible
  BY DEF Next, Requests, BanReads, setDeactivated, UnbanReads, activateCompany, CompReads, setComp,
       GrantReads, extendTrial, ConfirmReadsUser, ConfirmReadsCompany, confirmEmailVerification,
       Request, Commit, extendSubscription, subtractPaidWindow, releaseTrialIdentity,
       confirmPasswordReset, Reconcile, ReconcileReads, ReconcileWrites, Purge, findDue, purge,
       submitPurchase, Tick, erasure
<1>2. ~company.comped /\ accessEndedAt(company) <= now - Retention
  BY <1>1 DEF StillEligible
<1>3. accessEndedAt(company) \in Int /\ company \in Company
  BY EndedInt DEF TypeOK
<1>4. ~HasAccess(company, now)
  BY <1>2, <1>3, EndsAfter DEF TypeOK
<1> QED BY <1>2, <1>3, <1>4 DEF Lapsed, TypeOK

\* Where no comp is ended and no payment refunded, data is erased only when the company has
\* been without access for the whole retention period.
THEOREM RetentionIsKept ==
  ASSUME MayTakeBack = FALSE
  PROVE  Spec => RetentionKept
<1>1. Ended /\ [Next]_vars => Ended'
  BY EndedNext
<1> QED BY <1>1, EndedInit, PurgesLapsed, PTL DEF Spec, RetentionKept

=============================================================================
