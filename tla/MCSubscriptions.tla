-------------------------- MODULE MCSubscriptions --------------------------
(* Instances of Subscriptions for TLC.                                      *)
EXTENDS Subscriptions

\* A company that is not new.  It has had a first subscription: whose last charge failed,
\* that PayPal has suspended since, or that was paid once and has ended.
First  == CHOOSE s \in Sub : TRUE
Past   == {[row |-> "past_due",  status |-> "ACTIVE",    failing |-> TRUE],
           [row |-> "suspended", status |-> "SUSPENDED", failing |-> TRUE],
           [row |-> "cancelled", status |-> "CANCELLED", failing |-> FALSE]}

Returning ==
  \E past \in Past :
    /\ paypal = [s \in Sub |-> [status  |-> IF s = First THEN past.status ELSE "none",
                                failing |-> s = First /\ past.failing]]
    /\ row = [s \in Sub |-> IF s = First THEN past.row ELSE "absent"]
    /\ changes = IF past.row = "cancelled" THEN 0 ELSE 1
    /\ saleOf = [i \in Sale |-> IF past.row = "cancelled" THEN First ELSE NoSub]
    /\ credited = [i \in Sale |-> IF past.row = "cancelled" THEN 1 ELSE 0]
    /\ current = First /\ paid = FALSE /\ banned = FALSE
    /\ lastEvent = [s \in Sub |-> 0]
    /\ notices = {} /\ saleNotices = {} /\ flagged = {}
    /\ worker = [w \in Worker |-> Resting] /\ errors = 0

ReturningSpec == Returning /\ [][Next]_vars /\ CronsRun

=============================================================================
