-------------------------- MODULE MCOrderPayments --------------------------
(* Instances of OrderPayments for TLC.                                      *)
EXTENDS OrderPayments, TLC

CONSTANTS o1, o2

\* Two plan orders, which stack on one expiry.
TwoPlans == [o \in {o1, o2} |-> "order"]

\* A plan order and a spin add-on, bought inside its window or in a free period.
PlanAndAddon == (o1 :> "order") @@ (o2 :> "spin_addon")

=============================================================================
