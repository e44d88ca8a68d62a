-------------------------- MODULE SessionFamilies --------------------------
(***************************************************************************)
(* What refresh-token rotation promises: a login is at any time in the      *)
(* hands of at most one refresh token, each token is handed out once, and a  *)
(* login that has ended never comes back.                                   *)
(***************************************************************************)
CONSTANTS
  Token,   \* refresh tokens
  Login    \* logins, each named after its first token

VARIABLES
  holders,  \* holders[l]: the tokens that can renew login l
  used      \* tokens handed out so far

vars == <<holders, used>>

Init == holders = [l \in Login |-> {}] /\ used = {}

\* A login is named after its first token.
Open(t) ==
  /\ t \notin used /\ used' = used \cup {t}
  /\ holders[t] = {}
  /\ holders' = [holders EXCEPT ![t] = {t}]

Renew(l, new) ==
  /\ new \notin used /\ used' = used \cup {new}
  /\ \E old \in Token : holders[l] = {old}
  /\ holders' = [holders EXCEPT ![l] = {new}]

\* Some logins end together: a logout, a changed password, a token used twice.
End ==
  /\ UNCHANGED used
  /\ \E ended \in SUBSET Login :
       holders' = [l \in Login |-> IF l \in ended THEN {} ELSE holders[l]]

Next ==
  \/ \E t \in Token : Open(t) \/ \E l \in Login : Renew(l, t)
  \/ End

Spec == Init /\ [][Next]_vars

=============================================================================
