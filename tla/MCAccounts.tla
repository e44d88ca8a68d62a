----------------------------- MODULE MCAccounts -----------------------------
(* Intake for TLC, beside instances of Sessions, AccessTokens and Plans: what those   *)
(* who are signed in, or at the counter, do.  A behaviour is about one of them, its    *)
(* focus, and leaves the variables of the others alone.                                *)
EXTENDS Intake, TLC

CONSTANTS USD, ZAR

VARIABLES
  focus,
  token, password, barred, session,
  now, minted, changed, banned, redis, denied, out, request,
  row, active, archived, popular, currency, switched, checkout, txn

Three == Purchase
One   == Mobile

Session == INSTANCE Sessions WITH Token <- Three, NoToken <- None, MaxChanges <- 1

\* A second is two ticks; a token lasts for two seconds, and the clock runs for four.
Bearer == INSTANCE AccessTokens WITH Token <- One, Request <- One, Life <- 4, MaxTime <- 8

Catalogue == INSTANCE Plans WITH Plan <- Three, Price <- Worker, Purchase <- One,
                                 Currency <- {USD, ZAR}

sessions == <<token, password, barred, session>>
bearers  == <<now, minted, changed, banned, redis, denied, out, request>>
intake   == <<company, customer, purchase, job, due>>
plans    == <<row, active, archived, popular, currency, switched, checkout, txn>>

NoPlans ==
  /\ row = None /\ currency = None /\ checkout = None /\ txn = None
  /\ active = {} /\ archived = {} /\ popular = {} /\ switched = {}

AnyInit ==
  /\ focus \in {"sessions", "bearers", "intake", "plans"}
  /\ Init /\ Session!Init /\ Bearer!Init
  /\ IF focus = "plans" THEN Catalogue!Init ELSE NoPlans

AnyNext ==
  \/ focus = "sessions" /\ Session!Next /\ UNCHANGED <<focus, bearers, intake, plans>>
  \/ focus = "bearers" /\ Bearer!Next /\ UNCHANGED <<focus, sessions, intake, plans>>
  \/ focus = "intake" /\ Next /\ UNCHANGED <<focus, sessions, bearers, plans>>
  \/ focus = "plans" /\ Catalogue!Next /\ UNCHANGED <<focus, sessions, bearers, intake>>

AnySpec == AnyInit /\ [][AnyNext]_<<focus, sessions, bearers, intake, plans>>

Symmetric == Permutations(Three) \cup Permutations(Worker)

\* The variables of every module have their types.
AllTyped ==
  CASE focus = "sessions" -> Session!TypeOK
    [] focus = "bearers"  -> Bearer!TypeOK
    [] focus = "intake"   -> TypeOK
    [] focus = "plans"    -> Catalogue!TypeOK

\* A login has one session at a time, whoever rotates, and is not revived (rotateRefreshToken).
OneSession == Session!OneSession

\* A changed password ends the sessions of the old one (changePassword), and the access
\* tokens they were given, as a logout and a deactivation do (authMiddleware).
OldPasswordOut ==
  /\ focus = "sessions" => Session!OldPasswordOut
  /\ focus = "bearers"  => Bearer!AccessEnds

\* A plan keeps the terms it was paid on, and has one successor (PlanService.update).
HistoryKept == focus = "plans" => Catalogue!HistoryKept

\* The billing page always has something to sell, in one currency (PlanService.setActive).
BillingPage == Catalogue!BillingPage

=============================================================================
