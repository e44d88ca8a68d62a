--------------------------- MODULE CompanyAccess ---------------------------
(***************************************************************************)
(* What one company may do, and until when: the access columns of           *)
(* `companies`, computeEntitlement and its SQL projection, the handlers     *)
(* that move those columns, and the purge of a lapsed company's data.       *)
(*                                                                         *)
(* A transaction reads the company without a lock and is split there: what  *)
(* it read may be old when it writes.  From its first UPDATE to its commit  *)
(* it holds the row, so its writes are one step.                            *)
(* trial_started_at is left out: it is null exactly when trial_ends_at is.  *)
(***************************************************************************)
EXTENDS Integers, FiniteSets

CONSTANTS
  Worker,      \* admin requests and e-mail confirmations under way
  Null,        \* SQL NULL
  TrialDays,   \* length of a trial, and of an admin's extension
  PlanDays,    \* length of a paid window
  Retention,   \* EXPIRY_RETENTION_DAYS
  MaxTime,     \* bound: the clock
  MaxDate,     \* bound: dates written
  MaxCharges,  \* bound: payments applied
  MaxEdits,    \* bound: admin requests
  MayGrant,    \* admins extend trials
  MayTakeBack  \* admins end comps, payments are refunded

ASSUME NullAssumption  == Null \notin Int
ASSUME DaysAssumption  == TrialDays \in Nat \ {0} /\ PlanDays \in Nat \ {0} /\ Retention \in Nat \ {0}
ASSUME BoundAssumption == MaxTime \in Nat /\ MaxDate \in Nat /\ MaxCharges \in Nat /\ MaxEdits \in Nat
ASSUME FlagAssumption  == MayGrant \in BOOLEAN /\ MayTakeBack \in BOOLEAN

VARIABLES
  now,         \* the clock, in days
  company,     \* the company's access columns
  shown,       \* companies.subscription_status and is_active
  verified,    \* users.email_verified_at is set
  claimed,     \* an identifier of the company has used its trial
  worker,      \* worker[w]: its task and the company it has read
  sweep,       \* what the hourly projection computed from its snapshot, or Null
  data,        \* the company holds customer data
  purged,      \* data_purged_at is set
  listed,      \* the purge under way has the company on its list
  charges,     \* payments applied so far
  refunds,     \* payments refunded so far
  edits,       \* admin requests so far
  lostAt       \* history: when the company last lost its access, -1 for never

dates   == <<company, lostAt, shown>>
signup  == <<verified, claimed>>
erasure == <<data, purged, listed>>
bounds  == <<charges, refunds, edits>>
vars    == <<now, dates, signup, worker, sweep, erasure, bounds>>

Date    == 0..MaxDate
Company == [deactivated : BOOLEAN, paidUntil : Int \cup {Null}, trialEnds : Int \cup {Null},
            comped : BOOLEAN, compedUntil : Int \cup {Null}]
Status  == {"deactivated", "active", "trialing", "expired", "trial_expired", "pending", "past_due"}

-----------------------------------------------------------------------------
(* Entitlement *)

\* isFuture, and SQL's > on a column that may be NULL.
Later(d, t) == d # Null /\ d > t

CompLive(c, t) == c.comped /\ (c.compedUntil = Null \/ Later(c.compedUntil, t))

Entitlement(status, hasAccess) == [status |-> status, hasAccess |-> hasAccess]

computeEntitlement(c, t) ==
  IF c.deactivated              THEN Entitlement("deactivated", FALSE)
  ELSE IF CompLive(c, t)        THEN Entitlement("active", TRUE)
  ELSE IF Later(c.paidUntil, t) THEN Entitlement("active", TRUE)
  ELSE IF Later(c.trialEnds, t) THEN Entitlement("trialing", TRUE)
  ELSE IF c.paidUntil # Null    THEN Entitlement("expired", FALSE)
  ELSE IF c.trialEnds # Null    THEN Entitlement("trial_expired", FALSE)
  ELSE Entitlement("pending", FALSE)

HasAccess(c, t) == computeEntitlement(c, t).hasAccess

\* Mutant: the trial arm stands before the paid one.
TrialBeforePaid(c, t) ==
  IF Later(c.trialEnds, t) /\ ~c.deactivated /\ ~CompLive(c, t)
  THEN "trialing" ELSE computeEntitlement(c, t).status

\* The two CASEs of SUBSCRIPTION_STATUS_RECONCILE_SQL.
ReconcileStatus(c, t) ==
  IF c.deactivated              THEN "deactivated"
  ELSE IF CompLive(c, t)        THEN "active"
  ELSE IF Later(c.paidUntil, t) THEN "active"
  ELSE IF Later(c.trialEnds, t) THEN "trialing"
  ELSE IF c.paidUntil # Null    THEN "expired"
  ELSE IF c.trialEnds # Null    THEN "trial_expired"
  ELSE "pending"

ReconcileAccess(c, t) ==
  /\ ~c.deactivated
  /\ CompLive(c, t) \/ Later(c.paidUntil, t) \/ Later(c.trialEnds, t)

\* The columns as setEntitlementState writes them.
Project(e) == [status |-> e.status, isActive |-> e.hasAccess]

-----------------------------------------------------------------------------

Resting == [task |-> "none", read |-> Null]

\* A company that registered, or that an admin onboarded with a comp.
Fresh(comped, until) ==
  [deactivated |-> FALSE, paidUntil |-> Null, trialEnds |-> Null,
   comped |-> comped, compedUntil |-> until]

Init ==
  /\ now = 0
  /\ \/ company = Fresh(FALSE, Null)
     \/ \E until \in (Date \ {0}) \cup {Null} : company = Fresh(TRUE, until)
  /\ shown = Project(computeEntitlement(company, now))
  /\ verified = FALSE /\ claimed \in BOOLEAN
  /\ worker = [w \in Worker |-> Resting]
  /\ sweep = Null
  /\ data = FALSE /\ purged = FALSE /\ listed = FALSE
  /\ charges = 0 /\ refunds = 0 /\ edits = 0
  /\ lostAt = -1

\* The columns become c.
Becomes(c) ==
  /\ company' = c
  /\ lostAt' = IF HasAccess(company, now) /\ ~HasAccess(c, now) THEN now ELSE lostAt

Idle(w)        == worker[w].task = "none"
Begin(w, task) == worker' = [worker EXCEPT ![w] = [task |-> task, read |-> company]]
Finish(w)      == worker' = [worker EXCEPT ![w] = Resting]

-----------------------------------------------------------------------------
(* Payments *)

\* Mutant: a payment's window replaces the running one.
NotStacked(d, from, days) == from + days

\* GREATEST(COALESCE(d, from), from) + days
Extended(d, from, days) == (IF Later(d, from) THEN d ELSE from) + days

\* A captured order counts from now, a recurring cycle from the end of a running trial.
ChargeFrom == {now} \cup (IF Later(company.trialEnds, now) THEN {company.trialEnds} ELSE {})

extendSubscription ==
  \E from \in ChargeFrom :
    LET until == Extended(company.paidUntil, from, PlanDays) IN
    /\ charges < MaxCharges /\ until <= MaxDate
    /\ Becomes([company EXCEPT !.paidUntil = until])
    /\ shown' = [shown EXCEPT !.isActive = ~company.deactivated]
    /\ charges' = charges + 1
    /\ UNCHANGED <<now, signup, worker, sweep, erasure, refunds, edits>>

subtractPaidWindow ==
  /\ MayTakeBack /\ refunds < charges /\ company.paidUntil # Null
  /\ refunds' = refunds + 1
  /\ Becomes([company EXCEPT !.paidUntil = @ - PlanDays])
  /\ UNCHANGED <<now, shown, signup, worker, sweep, erasure, charges, edits>>

-----------------------------------------------------------------------------
(* Admin requests: a read, then the writes *)

Request(w, task, allowed) ==
  /\ Idle(w) /\ allowed
  /\ edits < MaxEdits /\ edits' = edits + 1
  /\ Begin(w, task)
  /\ UNCHANGED <<now, dates, signup, sweep, erasure, charges, refunds>>

Commit(w, task) ==
  /\ worker[w].task = task
  /\ Finish(w)
  /\ UNCHANGED <<now, signup, sweep, erasure, bounds>>

BanReads(w) == Request(w, "ban", ~company.deactivated)

setDeactivated(w) ==
  /\ Commit(w, "ban")
  /\ Becomes([company EXCEPT !.deactivated = TRUE])
  /\ shown' = [shown EXCEPT !.isActive = FALSE]

UnbanReads(w) == Request(w, "unban", company.deactivated)

activateCompany(w) ==
  /\ Commit(w, "unban")
  /\ Becomes([company EXCEPT !.deactivated = FALSE])
  /\ shown' = Project(computeEntitlement([worker[w].read EXCEPT !.deactivated = FALSE], now))

CompReads(w) == Request(w, "comp", TRUE)

setComp(w, comped, until) ==
  LET granted(c) == [c EXCEPT !.comped = comped, !.compedUntil = until] IN
  /\ Commit(w, "comp")
  /\ comped \/ (MayTakeBack /\ until = Null)
  /\ Becomes(granted(company))
  /\ shown' = Project(computeEntitlement(granted(worker[w].read), now))

GrantReads(w) == MayGrant /\ Request(w, "grant", ~company.deactivated)

extendTrial(w) ==
  LET ends == Extended(company.trialEnds, now, TrialDays)
      granted(c) == [c EXCEPT !.trialEnds = ends] IN
  /\ Commit(w, "grant")
  /\ ends <= MaxDate
  /\ Becomes(granted(company))
  /\ shown' = Project(computeEntitlement(granted(worker[w].read), now))

releaseTrialIdentity ==
  /\ MayGrant /\ claimed /\ edits < MaxEdits
  /\ claimed' = FALSE /\ edits' = edits + 1
  /\ UNCHANGED <<now, dates, verified, worker, sweep, erasure, charges, refunds>>

-----------------------------------------------------------------------------
(* The verification link, and the free trial it starts *)

\* The user is read before the token is consumed, the company after the user row is locked.
ConfirmReadsUser(w) ==
  /\ Idle(w) /\ ~verified
  /\ worker' = [worker EXCEPT ![w].task = "verify"]
  /\ UNCHANGED <<now, dates, signup, sweep, erasure, bounds>>

ConfirmReadsCompany(w) ==
  /\ worker[w].task = "verify"
  /\ \A v \in Worker : worker[v].task # "confirm"
  /\ Begin(w, "confirm")
  /\ UNCHANGED <<now, dates, signup, sweep, erasure, bounds>>

MayTrial(c) == ~c.deactivated /\ c.trialEnds = Null /\ c.paidUntil = Null

StartTrial(w) ==
  /\ MayTrial(worker[w].read) /\ ~claimed
  /\ now + TrialDays <= MaxDate
  /\ claimed' = TRUE
  /\ Becomes([company EXCEPT !.trialEnds = now + TrialDays])
  /\ shown' = [status |-> "trialing", isActive |-> TRUE]

NoTrial(w) ==
  /\ ~MayTrial(worker[w].read) \/ claimed
  /\ UNCHANGED <<claimed, dates>>

confirmEmailVerification(w) ==
  /\ worker[w].task = "confirm"
  /\ verified' = TRUE
  /\ StartTrial(w) \/ NoTrial(w)
  /\ Finish(w)
  /\ UNCHANGED <<now, sweep, erasure, bounds>>

\* A password reset proves the mailbox too, and starts no trial.
confirmPasswordReset ==
  /\ ~verified /\ verified' = TRUE
  /\ \A w \in Worker : worker[w].task # "confirm"
  /\ UNCHANGED <<now, dates, claimed, worker, sweep, erasure, bounds>>

-----------------------------------------------------------------------------
(* The hourly projection: it waits for the row with what its snapshot said *)

Differs(seen) == shown.status # seen.status \/ shown.isActive # seen.isActive

ReconcileReads ==
  /\ sweep = Null
  /\ sweep' = [status |-> ReconcileStatus(company, now), isActive |-> ReconcileAccess(company, now)]
  /\ Differs(sweep')
  /\ UNCHANGED <<now, dates, signup, worker, erasure, bounds>>

\* Mutant: only the status is written.
WritesStatusOnly ==
  /\ sweep # Null /\ sweep' = Null
  /\ shown' = [shown EXCEPT !.status = sweep.status]
  /\ UNCHANGED <<now, company, lostAt, signup, worker, erasure, bounds>>

ReconcileWrites ==
  /\ sweep # Null /\ sweep' = Null
  /\ shown' = IF Differs(sweep) THEN sweep ELSE shown
  /\ UNCHANGED <<now, company, lostAt, signup, worker, erasure, bounds>>

-----------------------------------------------------------------------------
(* Customer data and its purge *)

submitPurchase ==
  /\ HasAccess(company, now)
  /\ ~data /\ data' = TRUE
  /\ UNCHANGED <<now, dates, signup, worker, sweep, purged, listed, bounds>>

\* GREATEST of the trial end and the paid expiry, the epoch for NULL.
accessEndedAt(c) ==
  LET paid  == IF c.paidUntil = Null THEN 0 ELSE c.paidUntil
      trial == IF c.trialEnds = Null THEN 0 ELSE c.trialEnds
  IN  IF paid > trial THEN paid ELSE trial

Due ==
  /\ ~purged /\ ~company.comped
  /\ company.trialEnds # Null \/ company.paidUntil # Null
  /\ accessEndedAt(company) <= now - Retention

findDue ==
  /\ Due /\ ~listed /\ listed' = TRUE
  /\ UNCHANGED <<now, dates, signup, worker, sweep, data, purged, bounds>>

\* Mutant: the list is trusted.
AsListed == TRUE

StillEligible == ~purged /\ ~company.comped /\ accessEndedAt(company) <= now - Retention

purge ==
  /\ listed /\ listed' = FALSE
  /\ IF StillEligible
     THEN data' = FALSE /\ purged' = TRUE
     ELSE UNCHANGED <<data, purged>>
  /\ UNCHANGED <<now, dates, signup, worker, sweep, bounds>>

-----------------------------------------------------------------------------

Tick ==
  /\ now < MaxTime /\ now' = now + 1
  /\ lostAt' = IF HasAccess(company, now) /\ ~HasAccess(company, now + 1) THEN now + 1 ELSE lostAt
  /\ UNCHANGED <<company, shown, signup, worker, sweep, erasure, bounds>>

Requests(w) ==
  \/ BanReads(w)   \/ setDeactivated(w)
  \/ UnbanReads(w) \/ activateCompany(w)
  \/ CompReads(w)
  \/ \E comped \in BOOLEAN, until \in {d \in Date : d > now} \cup {Null} : setComp(w, comped, until)
  \/ GrantReads(w) \/ extendTrial(w)
  \/ ConfirmReadsUser(w) \/ ConfirmReadsCompany(w) \/ confirmEmailVerification(w)

Reconcile == ReconcileReads \/ ReconcileWrites
Purge     == findDue \/ purge

Next ==
  \/ \E w \in Worker : Requests(w)
  \/ extendSubscription \/ subtractPaidWindow
  \/ releaseTrialIdentity \/ confirmPasswordReset
  \/ Reconcile \/ Purge \/ submitPurchase \/ Tick

Spec == Init /\ [][Next]_vars

\* The hourly and the nightly job keep running; nothing else has to happen.
CronSpec == Spec /\ WF_vars(Reconcile) /\ WF_vars(Purge)

-----------------------------------------------------------------------------
(* Properties *)

Task    == {"none", "ban", "unban", "comp", "grant", "verify", "confirm"}
Columns == [status : Status, isActive : BOOLEAN]

\* Every variable has its type.
TypeOK ==
  /\ now \in Nat /\ company \in Company /\ shown \in Columns
  /\ verified \in BOOLEAN /\ claimed \in BOOLEAN
  /\ data \in BOOLEAN /\ purged \in BOOLEAN /\ listed \in BOOLEAN
  /\ worker \in [Worker -> [task : Task, read : Company \cup {Null}]]
  /\ \A w \in Worker : worker[w].task \notin {"none", "verify"} => worker[w].read \in Company
  /\ sweep \in Columns \cup {Null}
  /\ charges \in Nat /\ refunds \in Nat /\ edits \in Nat
  /\ lostAt \in Int

\* The SQL projection says at every moment what computeEntitlement says of the same
\* company: the arms of SUBSCRIPTION_STATUS_RECONCILE_SQL mirror utils/entitlement.ts.
MirrorAgrees ==
  \A t \in Date : [status |-> ReconcileStatus(company, t), hasAccess |-> ReconcileAccess(company, t)]
                  = computeEntitlement(company, t)

\* An admin took access away, or a payment went back.
TakenBack ==
  \/ company'.deactivated # company.deactivated
  \/ <<company'.comped, company'.compedUntil>> # <<company.comped, company.compedUntil>>
  \/ refunds' # refunds

\* No payment, trial start, trial extension, projection or purge takes away access the
\* company had been given for a later day (extendSubscription stacks, a trial starts once).
AccessKept ==
  [][TakenBack \/ \A t \in Date : t >= now /\ HasAccess(company, t) => HasAccess(company', t)]_vars

\* The company has been without access for the whole retention period, or always.
Lapsed == ~HasAccess(company, now) /\ lostAt + Retention <= now

\* The purge never erases a company's data before that (the e-mails promise the period).
RetentionKept == [][purged' # purged => Lapsed]_vars

\* Once the company stops changing, the hourly projection makes the two columns say what
\* computeEntitlement says, and they stay so.
StatusCatchesUp == <>[](shown = Project(computeEntitlement(company, now)))

=============================================================================
