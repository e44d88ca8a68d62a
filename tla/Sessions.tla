------------------------------ MODULE Sessions ------------------------------
(***************************************************************************)
(* Sessions of one account: AuthService's login, refresh-token rotation with *)
(* reuse detection, logout, password change and reset, and the nightly token  *)
(* cleanup.                                                                  *)
(*                                                                         *)
(* A token t stands for the refresh token of a pair issueTokens makes, and the  *)
(* first pair of a login names the login.  A request is cut where another         *)
(* transaction can come between: after its reads, and while its UPDATE waits for a *)
(* row lock.  Of time only the age of a pair against its lifetime is kept.  The   *)
(* access tokens of the pairs are in AccessTokens.                                  *)
(***************************************************************************)
EXTENDS Integers, FiniteSets

CONSTANTS
  Token,       \* refresh tokens
  Worker,      \* requests
  NoToken,     \* no token
  MaxChanges   \* bound: password changes

VARIABLES
  token,      \* token[t]: the row, its login, and the password it was issued under
  password,   \* generation of users.password
  barred,     \* the company is deactivated, or the user inactive
  session     \* session[w]: what request w has read and does next

vars == <<token, password, barred, session>>

RowState == {"unissued", "live", "revoked", "deleted"}

Task    == {"none", "login", "refresh", "reuse", "change"}
Step    == {"idle", "checked", "locked", "revoking"}
Resting == [task |-> "none", step |-> "idle", token |-> NoToken, gen |-> 0, late |-> FALSE, seen |-> {}]

Unissued == [state |-> "unissued", login |-> NoToken, gen |-> 0, late |-> FALSE, lapsed |-> FALSE]

Init ==
  /\ token = [t \in Token |-> Unissued]
  /\ password = 0
  /\ barred = FALSE
  /\ session = [w \in Worker |-> Resting]

Idle(w)   == session[w].step = "idle"
Live(t)   == token[t].state = "live"
Issued    == {t \in Token : token[t].state # "unissued"}
Expired(t) == token[t].lapsed

\* The rotation that has updated t's row and not committed holds its lock.
Locked(t) == \E w \in Worker : session[w].step = "locked" /\ session[w].token = t

Rest(w) == session' = [session EXCEPT ![w] = Resting]
Go(w, task, step, t) ==
  session' = [session EXCEPT ![w] = [Resting EXCEPT !.task = task, !.step = step,
                                                   !.token = t, !.gen = password]]

Changing(w) == session[w].task = "change"

\* The request was under way when the password changed, or a change is committing.
Late(w) == session[w].late \/ \E v \in Worker : Changing(v) /\ session[v].step = "revoking"

Pair(login, gen, late) ==
  [state |-> "live", login |-> login, gen |-> gen, late |-> late, lapsed |-> FALSE]

-----------------------------------------------------------------------------
(* login *)

\* The password and the ban are checked outside the transaction.
LoginCheck(w) ==
  /\ Idle(w) /\ ~barred
  /\ Go(w, "login", "checked", NoToken)
  /\ UNCHANGED <<token, password, barred>>

LoginIssue(w) ==
  /\ session[w].task = "login"
  /\ \E t \in Token \ Issued :
       token' = [token EXCEPT ![t] = Pair(t, session[w].gen, Late(w))]
  /\ Rest(w)
  /\ UNCHANGED <<password, barred>>

-----------------------------------------------------------------------------
(* refreshTokens: rotateRefreshToken, and what follows a reuse *)

\* An unknown or expired token is refused and changes nothing.
RefreshRead(w, t) ==
  /\ Idle(w) /\ token[t].state \in {"live", "revoked"}
  /\ IF token[t].state = "revoked"
       THEN Go(w, "reuse", "checked", t)
       ELSE ~Expired(t) /\ Go(w, "refresh", "checked", t)
  /\ UNCHANGED <<token, password, barred>>

\* Mutant: the number of rows the UPDATE changed is not looked at.
AnyoneWins(t) == TRUE

\* revokeRefreshToken: UPDATE .. WHERE revoked_at IS NULL, one row affected.
Wins(t) == Live(t)

RotateLock(w) ==
  LET t == session[w].token IN
  /\ session[w].task = "refresh" /\ session[w].step = "checked"
  /\ ~Locked(t)
  /\ IF Wins(t)
       THEN session' = [session EXCEPT ![w].step = "locked"]
       ELSE session' = [session EXCEPT ![w].task = "reuse"]
  /\ UNCHANGED <<token, password, barred>>

\* The new pair and the revocation commit together; a ban rolls both back.
RotateCommit(w) ==
  LET t == session[w].token IN
  /\ session[w].step = "locked"
  /\ \/ barred /\ UNCHANGED token
     \/ /\ ~barred
        /\ \E u \in Token \ Issued :
             token' = [token EXCEPT
               ![t].state = "revoked",
               ![u] = Pair(token[t].login, token[t].gen, token[t].late \/ Late(w))]
  /\ Rest(w)
  /\ UNCHANGED <<password, barred>>

\* revokeAllRefreshTokensForUser: the rows its UPDATE finds when it starts.
RowsToRevoke(w) == {t \in Token : Live(t)}

\* A transaction of its own, after the one that detected the reuse has rolled back.
ReuseRevoke(w) ==
  /\ session[w].task = "reuse" /\ session[w].step = "checked"
  /\ session' = [session EXCEPT ![w].step = "revoking", ![w].seen = RowsToRevoke(w)]
  /\ UNCHANGED <<token, password, barred>>

Revoke(rows) ==
  [t \in Token |-> IF t \in rows /\ Live(t) THEN [token[t] EXCEPT !.state = "revoked"] ELSE token[t]]

\* The UPDATE has waited for the rotations under way on its rows.
ReuseRevoked(w) ==
  /\ session[w].task = "reuse" /\ session[w].step = "revoking"
  /\ \A t \in session[w].seen : ~Locked(t)
  /\ token' = Revoke(session[w].seen)
  /\ Rest(w)
  /\ UNCHANGED <<password, barred>>

-----------------------------------------------------------------------------
(* logout *)

\* The row's UPDATE waits for a rotation, and then finds the row revoked.
Logout(t) ==
  /\ token[t].state \in {"live", "revoked"} /\ ~Locked(t)
  /\ token' = Revoke({t})
  /\ UNCHANGED <<password, barred, session>>

-----------------------------------------------------------------------------
(* changePassword and confirmPasswordReset *)

\* The current password is checked, or the reset link is usable: a link that is being
\* used by another request still is.
ChangeCheck(w) ==
  /\ Idle(w) /\ password < MaxChanges
  /\ Go(w, "change", "checked", NoToken)
  /\ UNCHANGED <<token, password, barred>>

\* updatePasswordChanged stamps the row and locks it; then the UPDATE of the tokens
\* takes its snapshot.
ChangeStart(w) ==
  /\ Changing(w) /\ session[w].step = "checked"
  /\ \A v \in Worker : ~(Changing(v) /\ session[v].step = "revoking")
  /\ session' = [session EXCEPT ![w].step = "revoking", ![w].seen = RowsToRevoke(w)]
  /\ UNCHANGED <<token, password, barred>>

\* Mutant: the sessions are not revoked with the password.
KeepSessions(rows) == token

RevokeSessions(rows) == Revoke(rows)

ChangeCommit(w) ==
  /\ Changing(w) /\ session[w].step = "revoking"
  /\ \A t \in session[w].seen : ~Locked(t)
  /\ token' = RevokeSessions(session[w].seen)
  /\ password' = password + 1
  /\ session' = [v \in Worker |-> IF v = w THEN Resting
                                  ELSE [session[v] EXCEPT !.late = session[v].step # "idle"]]
  /\ UNCHANGED barred

-----------------------------------------------------------------------------
(* Bans, time and failure *)

Bar ==
  /\ barred' = ~barred
  /\ UNCHANGED <<token, password, session>>

\* The lifetimes of all pairs pass; no request is under way for so long.
Lapse ==
  /\ \A w \in Worker : Idle(w)
  /\ \E t \in Issued : ~Expired(t)
  /\ token' = [t \in Token |-> IF t \in Issued THEN [token[t] EXCEPT !.lapsed = TRUE] ELSE token[t]]
  /\ UNCHANGED <<password, barred, session>>

\* deleteTombstonedOlderThan, 03:00 every day: what is more than thirty days old has
\* lapsed before.
Cleanup(t) ==
  /\ token[t].state \in {"live", "revoked"} /\ Expired(t)
  /\ token' = [token EXCEPT ![t].state = "deleted"]
  /\ UNCHANGED <<password, barred, session>>

\* The request fails or the process dies: its transaction is rolled back.
Dies(w) ==
  /\ ~Idle(w)
  /\ Rest(w)
  /\ UNCHANGED <<token, password, barred>>

Next ==
  \/ \E w \in Worker :
       \/ LoginCheck(w) \/ LoginIssue(w)
       \/ \E t \in Token : RefreshRead(w, t)
       \/ RotateLock(w) \/ RotateCommit(w) \/ ReuseRevoke(w) \/ ReuseRevoked(w)
       \/ ChangeCheck(w) \/ ChangeStart(w) \/ ChangeCommit(w)
       \/ Dies(w)
  \/ \E t \in Token : Logout(t) \/ Cleanup(t)
  \/ Bar \/ Lapse

Spec == Init /\ [][Next]_vars

-----------------------------------------------------------------------------

\* Pairs and requests have their types.
TypeOK ==
  /\ token \in [Token -> [state : RowState, login : Token \cup {NoToken}, gen : Nat,
                          late : BOOLEAN, lapsed : BOOLEAN]]
  /\ password \in Nat
  /\ barred \in BOOLEAN
  /\ session \in [Worker -> [task : Task, step : Step, token : Token \cup {NoToken}, gen : Nat,
                             late : BOOLEAN, seen : SUBSET Token]]

\* The tokens that can renew a login, and every token handed out.
holders == [l \in Token |-> {t \in Token : Live(t) /\ token[t].login = l}]

Families == INSTANCE SessionFamilies WITH Login <- Token, holders <- holders, used <- Issued

\* "Whoever wins this UPDATE owns the rotation" (rotateRefreshToken): however many
\* requests present a token, its login has one holder at a time, and a login that was
\* ended by a logout, a reuse or a password change is not revived.
OneSession == Families!Spec

\* "Password changed; all sessions revoked": a session of an older password outlives
\* the change only if its login or rotation was under way during it.
OldPasswordOut ==
  \A t \in Token : (token[t].gen < password /\ Live(t)) => token[t].late

=============================================================================
