--------------------------- MODULE EventHandling ---------------------------
(***************************************************************************)
(* What the ledger of PayPal webhook events promises: an event is in the    *)
(* hands of at most one worker, it may be put back, and once handled it is  *)
(* never taken again.                                                       *)
(***************************************************************************)
CONSTANTS Event, Worker

VARIABLES
  held,     \* held[w]: the events worker w is handling
  handled   \* events finished for good

vars == <<held, handled>>

Init == held = [w \in Worker |-> {}] /\ handled = {}

Free(e) == e \notin handled /\ \A w \in Worker : e \notin held[w]

Take(w, e) ==
  /\ held[w] = {} /\ Free(e)
  /\ held' = [held EXCEPT ![w] = {e}]
  /\ UNCHANGED handled

Finish(w, e) ==
  /\ e \in held[w]
  /\ held' = [held EXCEPT ![w] = {}]
  /\ handled' = handled \cup {e}

PutBack(w) ==
  /\ held[w] # {}
  /\ held' = [held EXCEPT ![w] = {}]
  /\ UNCHANGED handled

Next ==
  \E w \in Worker : PutBack(w) \/ \E e \in Event : Take(w, e) \/ Finish(w, e)

Spec == Init /\ [][Next]_vars

=============================================================================
