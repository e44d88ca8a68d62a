--------------------------- MODULE SessionsProofs ---------------------------
(***************************************************************************)
(* Rotation keeps the promise of SessionFamilies, and a changed password     *)
(* ends the sessions of the old one: for any number of tokens, requests and  *)
(* password changes.                                                        *)
(***************************************************************************)
EXTENDS Sessions, TLAPS

-----------------------------------------------------------------------------
(* Types *)

PairRow == [state : RowState, login : Token \cup {NoToken}, gen : Nat, late : BOOLEAN, lapsed : BOOLEAN]
Request == [task : Task, step : Step, token : Token \cup {NoToken}, gen : Nat, late : BOOLEAN,
            seen : SUBSET Token]

LEMMA Typed ==
  TypeOK <=> /\ token \in [Token -> PairRow] /\ session \in [Worker -> Request]
             /\ password \in Nat /\ barred \in BOOLEAN
  BY DEF TypeOK, PairRow, Request

\* A refresh at work presents a token handed out and not lapsed; one that holds a row's
\* lock holds it alone, on a live row; and a login has one live token.
Owned ==
  /\ TypeOK
  /\ \A w \in Worker : session[w].task = "refresh" =>
       session[w].token \in Issued /\ ~Expired(session[w].token) /\ ~Idle(w)
  /\ \A w \in Worker : session[w].step = "locked" => session[w].task = "refresh" /\ Live(session[w].token)
  /\ \A v, w \in Worker : session[v].step = "locked" /\ session[w].step = "locked"
                          /\ session[v].token = session[w].token => v = w
  /\ \A t \in Issued : token[t].login \in Issued
  /\ \A t, u \in Token : Live(t) /\ Live(u) /\ token[t].login = token[u].login => t = u

LEMMA RestType == Resting \in Request
  BY DEF Resting, Request, Task, Step

LEMMA GoType ==
  ASSUME TypeOK, NEW w \in Worker, NEW task \in Task, NEW step \in Step,
         NEW t \in Token \cup {NoToken}, Go(w, task, step, t)
  PROVE  session' \in [Worker -> Request]
<1> DEFINE r == [Resting EXCEPT !.task = task, !.step = step, !.token = t, !.gen = password]
<1>1. r \in Request
  BY DEF Resting, Request, TypeOK
<1>2. session' = [session EXCEPT ![w] = r]
  BY DEF Go
<1> HIDE DEF r
<1> QED BY <1>1, <1>2, Typed

LEMMA PairType ==
  ASSUME NEW l \in Token \cup {NoToken}, NEW g \in Nat, NEW b \in BOOLEAN
  PROVE  Pair(l, g, b) \in PairRow
  BY DEF Pair, PairRow, RowState

LEMMA LateType == ASSUME TypeOK, NEW w \in Worker PROVE Late(w) \in BOOLEAN
  BY DEF Late, Changing, TypeOK

LEMMA RevokeType ==
  ASSUME TypeOK, NEW rows PROVE Revoke(rows) \in [Token -> PairRow]
<1>1. ASSUME NEW t \in Token PROVE token[t] \in PairRow /\ [token[t] EXCEPT !.state = "revoked"] \in PairRow
  BY Typed DEF PairRow, RowState
<1> QED BY <1>1 DEF Revoke

LEMMA TypeStep == Owned /\ [Next]_vars => TypeOK'
<1> SUFFICES ASSUME Owned, [Next]_vars
             PROVE  /\ token' \in [Token -> PairRow] /\ session' \in [Worker -> Request]
                    /\ password' \in Nat /\ barred' \in BOOLEAN
  BY DEF TypeOK, PairRow, Request
<1>0. TypeOK /\ token \in [Token -> PairRow] /\ session \in [Worker -> Request]
             /\ password \in Nat /\ barred \in BOOLEAN
  BY Typed DEF Owned
<1>t. "none" \in Task /\ "login" \in Task /\ "refresh" \in Task /\ "reuse" \in Task /\ "change" \in Task
      /\ "checked" \in Step /\ "locked" \in Step /\ "revoking" \in Step /\ "idle" \in Step
  BY DEF Task, Step
<1>1. ASSUME NEW w \in Worker, LoginCheck(w) \/ ChangeCheck(w) PROVE session' \in [Worker -> Request]
  BY <1>0, <1>t, <1>1, GoType DEF LoginCheck, ChangeCheck
<1>2. ASSUME NEW w \in Worker, LoginIssue(w), NEW t \in Token,
             token' = [token EXCEPT ![t] = Pair(t, session[w].gen, Late(w))]
      PROVE  token' \in [Token -> PairRow] /\ session' \in [Worker -> Request]
  <2>1. Pair(t, session[w].gen, Late(w)) \in PairRow
    BY <1>0, LateType, PairType DEF Request
  <2> QED BY <1>0, <1>2, <2>1, RestType DEF LoginIssue, Rest
<1>3. ASSUME NEW w \in Worker, NEW t \in Token, RefreshRead(w, t) PROVE session' \in [Worker -> Request]
  BY <1>0, <1>t, <1>3, GoType DEF RefreshRead
<1>4. ASSUME NEW w \in Worker, RotateLock(w) PROVE session' \in [Worker -> Request]
  <2>1. [session[w] EXCEPT !.step = "locked"] \in Request /\ [session[w] EXCEPT !.task = "reuse"] \in Request
    BY <1>0, <1>t DEF Request
  <2>2. \/ session' = [session EXCEPT ![w] = [session[w] EXCEPT !.step = "locked"]]
        \/ session' = [session EXCEPT ![w] = [session[w] EXCEPT !.task = "reuse"]]
    BY <1>4 DEF RotateLock
  <2> QED BY <1>0, <2>1, <2>2
<1>5. ASSUME NEW w \in Worker, RotateCommit(w)
      PROVE  token' \in [Token -> PairRow] /\ session' \in [Worker -> Request]
  <2> DEFINE t == session[w].token
             new == Pair(token[t].login, token[t].gen, token[t].late \/ Late(w))
  <2>1. t \in Token
    BY <1>5 DEF RotateCommit, Owned, Issued
  <2>2. new \in PairRow
    BY <1>0, <2>1, PairType, LateType DEF PairRow
  <2>3. [token[t] EXCEPT !.state = "revoked"] \in PairRow
    BY <1>0, <2>1 DEF PairRow, RowState
  <2>4. token' = token \/ \E u \in Token : token' = [token EXCEPT ![t].state = "revoked", ![u] = new]
    BY <1>5 DEF RotateCommit, Issued
  <2> HIDE DEF t, new
  <2>5. token' \in [Token -> PairRow]
    BY <1>0, <2>1, <2>2, <2>3, <2>4
  <2> QED BY <1>0, <1>5, <2>5, RestType DEF RotateCommit, Rest
<1>6. ASSUME NEW w \in Worker, ReuseRevoke(w) \/ ChangeStart(w) PROVE session' \in [Worker -> Request]
  <2>1. [session[w] EXCEPT !.step = "revoking", !.seen = RowsToRevoke(w)] \in Request
    BY <1>0, <1>t DEF Request, RowsToRevoke
  <2>2. session' = [session EXCEPT ![w] = [session[w] EXCEPT !.step = "revoking", !.seen = RowsToRevoke(w)]]
    BY <1>0, <1>6 DEF ReuseRevoke, ChangeStart, Request
  <2> QED BY <1>0, <2>1, <2>2
<1>7. ASSUME NEW w \in Worker, ReuseRevoked(w)
      PROVE  token' \in [Token -> PairRow] /\ session' \in [Worker -> Request]
  BY <1>0, <1>7, RestType, RevokeType DEF ReuseRevoked, Rest
<1>8. ASSUME NEW w \in Worker, ChangeCommit(w)
      PROVE  token' \in [Token -> PairRow] /\ session' \in [Worker -> Request] /\ password' \in Nat
  <2>1. \A v \in Worker : [session[v] EXCEPT !.late = session[v].step # "idle"] \in Request
    BY <1>0 DEF Request
  <2> QED BY <1>0, <1>8, <2>1, RestType, RevokeType DEF ChangeCommit, RevokeSessions
<1>9. ASSUME NEW t \in Token, Logout(t) \/ Cleanup(t) PROVE token' \in [Token -> PairRow]
  <2>1. [token[t] EXCEPT !.state = "deleted"] \in PairRow
    BY <1>0 DEF PairRow, RowState
  <2> QED BY <1>0, <1>9, <2>1, RevokeType DEF Logout, Cleanup
<1>10. ASSUME Lapse PROVE token' \in [Token -> PairRow]
  <2>1. \A t \in Token : [token[t] EXCEPT !.lapsed = TRUE] \in PairRow
    BY <1>0 DEF PairRow
  <2> QED BY <1>0, <1>10, <2>1 DEF Lapse
<1>11. CASE UNCHANGED vars
  BY <1>0, <1>11 DEF vars
<1>12. ASSUME NEW w \in Worker, LoginIssue(w)
       PROVE  token' \in [Token -> PairRow] /\ session' \in [Worker -> Request]
  BY <1>2, <1>12 DEF LoginIssue, Issued
<1> QED
  BY <1>0, <1>1, <1>12, <1>3, <1>4, <1>5, <1>6, <1>7, <1>8, <1>9, <1>10, <1>11, RestType
  DEF Next, LoginCheck, LoginIssue, RefreshRead, RotateLock, RotateCommit, ReuseRevoke, ReuseRevoked, 
      ChangeCheck, ChangeStart, ChangeCommit, Dies, Rest, Logout, Cleanup, Bar, Lapse

-----------------------------------------------------------------------------
(* Row locks, lapsing and logins *)

\* Requests that rest or stay where they are, and rows that are only ended: not those
\* that are locked.
LEMMA OwnedFrame ==
  ASSUME Owned, TypeOK',
         \A w \in Worker : \/ session'[w].task = "none" /\ session'[w].step = "idle"
                           \/ /\ session'[w].task = session[w].task
                              /\ session'[w].step = session[w].step
                              /\ session'[w].token = session[w].token,
         \A t \in Token : /\ token'[t].state # "unissued" <=> token[t].state # "unissued"
                          /\ token'[t].login = token[t].login
                          /\ token'[t].state = "live" => token[t].state = "live",
         \A t \in Token : Locked(t) => token'[t].state = token[t].state,
         \A w \in Worker : session[w].task = "refresh" => token'[session[w].token].lapsed
                                                         = token[session[w].token].lapsed
  PROVE  Owned'
<1>1. Issued' = Issued
  BY DEF Issued
<1>2. \A w \in Worker : session'[w].step = "locked" => 
        session[w].step = "locked" /\ session[w].token \in Token /\ Locked(session[w].token)
  BY DEF Owned, Issued, Locked
<1>3. \A w \in Worker : session'[w].task = "refresh" =>
        session'[w].token \in Issued' /\ ~Expired(session[w].token)' /\ ~Idle(w)'
  BY <1>1 DEF Owned, Expired, Idle
<1>4. \A w \in Worker : session'[w].step = "locked" => session'[w].task = "refresh" /\ Live(session[w].token)'
  BY <1>2 DEF Owned, Live
<1>5. \A v, w \in Worker : session'[v].step = "locked" /\ session'[w].step = "locked"
                          /\ session'[v].token = session'[w].token => v = w
  BY DEF Owned
<1>6. \A t \in Issued' : token'[t].login \in Issued'
  BY <1>1 DEF Owned, Issued
<1>7. \A t, u \in Token : Live(t)' /\ Live(u)' /\ token'[t].login = token'[u].login => t = u
  BY DEF Owned, Live
<1> QED BY <1>3, <1>4, <1>5, <1>6, <1>7 DEF Owned

LEMMA OwnedIssue ==
  ASSUME Owned, TypeOK', NEW w \in Worker, LoginIssue(w)
  PROVE  Owned'
<1>1. PICK t \in Token \ Issued : token' = [token EXCEPT ![t] = Pair(t, session[w].gen, Late(w))]
  BY DEF LoginIssue
<1>2. session' = [session EXCEPT ![w] = Resting]
  BY DEF LoginIssue, Rest
<1>3. Issued' = Issued \cup {t} /\ token'[t].login = t /\ \A u \in Token \ {t} : token'[u] = token[u]
  BY <1>1 DEF Issued, Pair, Owned, TypeOK
<1>4. \A v \in Worker \ {w} : session'[v] = session[v]
  BY <1>2 DEF Owned, TypeOK
<1>5. session'[w].task = "none" /\ session'[w].step = "idle"
  BY <1>2 DEF Owned, TypeOK, Resting
<1>6. \A v \in Worker : session'[v].task = "refresh" => 
        session'[v].token \in Issued' /\ ~Expired(session[v].token)' /\ ~Idle(v)'
  BY <1>1, <1>3, <1>4, <1>5 DEF Owned, Expired, Idle, Issued
<1>7. \A v \in Worker : session'[v].step = "locked" => session'[v].task = "refresh" /\ Live(session[v].token)'
  BY <1>1, <1>3, <1>4, <1>5 DEF Owned, Live, Issued
<1>8. \A u, v \in Worker : session'[v].step = "locked" /\ session'[u].step = "locked"
                          /\ session'[v].token = session'[u].token => v = u
  BY <1>4, <1>5 DEF Owned
<1>9. \A u \in Issued' : token'[u].login \in Issued'
  BY <1>1, <1>3 DEF Owned, Issued
<1>10. \A u \in Token \ {t} : Live(u)' => token'[u].login \in Issued /\ Live(u)
  BY <1>3 DEF Owned, Issued, Live
<1>11. \A u, v \in Token : Live(u)' /\ Live(v)' /\ token'[u].login = token'[v].login => u = v
  BY <1>1, <1>3, <1>10 DEF Owned
<1> QED BY <1>6, <1>7, <1>8, <1>9, <1>11 DEF Owned

\* The rotated token has ended when its login's next one begins.
LEMMA OwnedRotate ==
  ASSUME Owned, TypeOK', NEW w \in Worker, RotateCommit(w)
  PROVE  Owned'
<1> DEFINE t == session[w].token
<1>1. t \in Issued /\ Live(t) /\ t \in Token /\ token[t].login \in Issued
  BY DEF RotateCommit, Owned, Issued
<1>2. session' = [session EXCEPT ![w] = Resting]
  BY DEF RotateCommit, Rest
<1>3. /\ \A v \in Worker \ {w} : session'[v] = session[v]
      /\ session'[w].task = "none" /\ session'[w].step = "idle"
  BY <1>2 DEF Owned, TypeOK, Resting
<1>4. CASE UNCHANGED token
  BY <1>3, <1>4, OwnedFrame DEF Owned, Issued
<1>5. ASSUME NEW u \in Token \ Issued,
             token' = [token EXCEPT ![t].state = "revoked",
                         ![u] = Pair(token[t].login, token[t].gen, token[t].late \/ Late(w))]
      PROVE  Owned'
  <2>1. /\ token'[u].state = "live" /\ token'[u].login = token[t].login /\ token'[t].state = "revoked"
        /\ token'[t].login = token[t].login /\ u # t
        /\ \A x \in Token \ {t, u} : token'[x] = token[x]
    BY <1>1, <1>5 DEF Pair, Owned, TypeOK
  <2>2. Issued' = Issued \cup {u}
    BY <1>1, <2>1 DEF Issued
  <2>3. \A v \in Worker \ {w} : session[v].step = "locked" => session[v].token # t
    BY DEF RotateCommit, Owned
  <2>4. \A v \in Worker : session'[v].task = "refresh" =>
          session'[v].token \in Issued' /\ ~Expired(session[v].token)' /\ ~Idle(v)'
    <3> SUFFICES ASSUME NEW v \in Worker, session'[v].task = "refresh"
                 PROVE  session'[v].token \in Issued' /\ ~Expired(session[v].token)' /\ ~Idle(v)'
      OBVIOUS
    <3>1. session'[v] = session[v] /\ session[v].token \in Issued /\ ~Expired(session[v].token) /\ ~Idle(v)
      BY <1>3 DEF Owned
    <3>2. session[v].token \in Token \ {u}
      BY <1>5, <3>1 DEF Issued
    <3>3. token'[t].lapsed = token[t].lapsed
      <4>1. u # t
        BY <2>1
      <4>2. DOMAIN token = Token
        BY DEF Owned, TypeOK
      <4>3. token'[t] = [token[t] EXCEPT !.state = "revoked"]
        BY <1>1, <1>5, <4>1, <4>2
      <4> QED BY <4>3
    <3>4. token'[session[v].token].lapsed = token[session[v].token].lapsed
      BY <2>1, <3>2, <3>3
    <3> QED BY <2>2, <3>1, <3>4 DEF Expired, Idle
  <2>5. \A v \in Worker : session'[v].step = "locked" =>
          session'[v].task = "refresh" /\ Live(session[v].token)'
    <3> SUFFICES ASSUME NEW v \in Worker, session'[v].step = "locked"
                 PROVE  session'[v].task = "refresh" /\ Live(session[v].token)'
      OBVIOUS
    <3>1. session'[v] = session[v] /\ session[v].task = "refresh" /\ Live(session[v].token)
          /\ session[v].token # t /\ session[v].token \in Token
      BY <1>3, <2>3 DEF Owned, Issued
    <3> QED BY <2>1, <3>1 DEF Live
  <2>6. \A x, v \in Worker : session'[v].step = "locked" /\ session'[x].step = "locked"
                            /\ session'[v].token = session'[x].token => v = x
    BY <1>3 DEF Owned
  <2>7. \A x \in Issued' : token'[x].login \in Issued'
    BY <1>1, <2>1, <2>2 DEF Owned, Issued
  <2>8. \A x \in Token \ {u} : Live(x)' => Live(x) /\ x # t /\ token'[x].login = token[x].login
    BY <2>1 DEF Live
  <2>9. \A x, y \in Token : Live(x)' /\ Live(y)' /\ token'[x].login = token'[y].login => x = y
    <3>1. \A x \in Token \ {u} : Live(x)' => token'[x].login # token'[u].login
      BY <1>1, <2>1, <2>8 DEF Owned
    <3> QED BY <2>8, <3>1 DEF Owned
  <2> QED BY <2>4, <2>5, <2>6, <2>7, <2>9 DEF Owned
<1> QED BY <1>4, <1>5 DEF RotateCommit

LEMMA OwnedLock ==
  ASSUME Owned, TypeOK', NEW w \in Worker, RotateLock(w)
  PROVE  Owned'
<1> DEFINE t == session[w].token
<1>1. /\ UNCHANGED token /\ ~Locked(t) /\ session[w].task = "refresh" /\ session[w].step = "checked"
      /\ t \in Issued
  BY DEF RotateLock, Owned
<1>2. CASE Live(t) /\ session' = [session EXCEPT ![w].step = "locked"]
  <2>1. /\ \A v \in Worker \ {w} : session'[v] = session[v]
        /\ session'[w].task = "refresh" /\ session'[w].step = "locked" /\ session'[w].token = t
    BY <1>1, <1>2 DEF Owned, TypeOK
  <2>2. \A v \in Worker : session[v].step = "locked" => session[v].token # t
    BY <1>1 DEF Locked
  <2> QED BY <1>1, <1>2, <2>1, <2>2 DEF Owned, Issued, Expired, Idle, Live
<1>3. CASE session' = [session EXCEPT ![w].task = "reuse"]
  <2>1. /\ \A v \in Worker \ {w} : session'[v] = session[v]
        /\ session'[w].task = "reuse" /\ session'[w].step = "checked"
    BY <1>1, <1>3 DEF Owned, TypeOK
  <2> QED BY <1>1, <2>1 DEF Owned, Issued, Expired, Idle, Live
<1> QED BY <1>2, <1>3 DEF RotateLock, Wins

LEMMA OwnedGo ==
  ASSUME Owned, TypeOK', NEW w \in Worker, UNCHANGED token, NEW task, NEW t, Go(w, task, "checked", t),
         task = "refresh" => t \in Issued /\ ~Expired(t)
  PROVE  Owned'
<1>1. /\ \A v \in Worker \ {w} : session'[v] = session[v]
      /\ session'[w].task = task /\ session'[w].step = "checked" /\ session'[w].token = t
  BY DEF Go, Resting, Owned, TypeOK
<1> QED BY <1>1 DEF Owned, Issued, Expired, Idle, Live

LEMMA OwnedSnapshot ==
  ASSUME Owned, TypeOK', NEW w \in Worker, ReuseRevoke(w) \/ ChangeStart(w)
  PROVE  Owned'
<1>1. /\ \A v \in Worker \ {w} : session'[v] = session[v]
      /\ session'[w].task = session[w].task /\ session'[w].step = "revoking"
      /\ session[w].task # "refresh" /\ UNCHANGED token
  BY DEF ReuseRevoke, ChangeStart, Changing, Owned, TypeOK
<1> QED BY <1>1 DEF Owned, Issued, Expired, Idle, Live

\* What revoking does to a row, if it is not locked.
LEMMA RevokedRows ==
  ASSUME TypeOK, NEW rows, NEW t \in Token
  PROVE  /\ Revoke(rows)[t].state # "unissued" <=> token[t].state # "unissued"
         /\ Revoke(rows)[t].login = token[t].login
         /\ Revoke(rows)[t].gen = token[t].gen
         /\ Revoke(rows)[t].late = token[t].late
         /\ Revoke(rows)[t].lapsed = token[t].lapsed
         /\ Revoke(rows)[t].state = "live" => token[t].state = "live" /\ t \notin rows
         /\ t \notin rows => Revoke(rows)[t] = token[t]
  BY DEF Revoke, Live, TypeOK

LEMMA OwnedStep == Owned /\ [Next]_vars => Owned'
<1> SUFFICES ASSUME Owned, [Next]_vars PROVE Owned'
  OBVIOUS
<1>0. TypeOK' /\ TypeOK
  BY TypeStep DEF Owned
<1>1. ASSUME NEW w \in Worker, LoginCheck(w) \/ ChangeCheck(w) PROVE Owned'
  <2>1. UNCHANGED token /\ \E task \in {"login", "change"} : Go(w, task, "checked", NoToken)
    BY <1>1 DEF LoginCheck, ChangeCheck
  <2> QED BY <1>0, <2>1, OwnedGo
<1>2. ASSUME NEW w \in Worker, NEW t \in Token, RefreshRead(w, t) PROVE Owned'
  <2>1. UNCHANGED token /\ \E task \in {"reuse", "refresh"} :
          Go(w, task, "checked", t) /\ (task = "refresh" => t \in Issued /\ ~Expired(t))
    BY <1>2 DEF RefreshRead, Issued
  <2> QED BY <1>0, <2>1, OwnedGo
<1>3. ASSUME NEW w \in Worker, ReuseRevoked(w) \/ ChangeCommit(w) PROVE Owned'
  <2>1. \A v \in Worker : \/ session'[v].task = "none" /\ session'[v].step = "idle"
                          \/ /\ session'[v].task = session[v].task
                             /\ session'[v].step = session[v].step
                             /\ session'[v].token = session[v].token
    BY <1>0, <1>3 DEF ReuseRevoked, ChangeCommit, Rest, Resting, TypeOK
  <2>2. token' = Revoke(session[w].seen) /\ \A t \in session[w].seen : ~Locked(t)
    BY <1>3 DEF ReuseRevoked, ChangeCommit, RevokeSessions
  <2>3. \A v \in Worker : session[v].task = "refresh" => session[v].token \in Token
    BY DEF Owned, Issued
  <2> HIDE DEF Owned
  <2> QED BY <1>0, <2>1, <2>2, <2>3, RevokedRows, OwnedFrame
<1>4. ASSUME NEW t \in Token, Logout(t) PROVE Owned'
  <2>1. token' = Revoke({t}) /\ ~Locked(t) /\ UNCHANGED session
    BY <1>4 DEF Logout
  <2>2. \A v \in Worker : session[v].task = "refresh" => session[v].token \in Token
    BY DEF Owned, Issued
  <2> QED BY <1>0, <2>1, <2>2, RevokedRows, OwnedFrame
<1>5. ASSUME NEW t \in Token, Cleanup(t) PROVE Owned'
  <2>1. UNCHANGED session /\ token' = [token EXCEPT ![t].state = "deleted"] /\ Expired(t)
        /\ token[t].state # "unissued"
    BY <1>5 DEF Cleanup
  <2>2. ~Locked(t)
    BY <2>1 DEF Locked, Owned
  <2>3. \A u \in Token : /\ token'[u].state = IF u = t THEN "deleted" ELSE token[u].state
                         /\ token'[u].login = token[u].login /\ token'[u].lapsed = token[u].lapsed
    BY <1>0, <2>1 DEF TypeOK
  <2>4. \A v \in Worker : session[v].task = "refresh" => session[v].token \in Token
    BY DEF Owned, Issued
  <2> QED BY <1>0, <2>1, <2>2, <2>3, <2>4, OwnedFrame
<1>6. CASE Lapse
  <2>1. /\ UNCHANGED session
        /\ \A t \in Token : token'[t].state = token[t].state /\ token'[t].login = token[t].login
        /\ \A w \in Worker : session[w].task # "refresh"
    BY <1>0, <1>6 DEF Lapse, TypeOK, Owned
  <2> QED BY <1>0, <2>1, OwnedFrame
<1>7. ASSUME NEW w \in Worker, Dies(w) PROVE Owned'
  <2>1. /\ \A v \in Worker \ {w} : session'[v] = session[v]
        /\ session'[w].task = "none" /\ session'[w].step = "idle" /\ UNCHANGED token
    BY <1>0, <1>7 DEF Dies, Rest, Resting, TypeOK
  <2> QED BY <1>0, <2>1, OwnedFrame
<1>8. CASE Bar \/ UNCHANGED vars
  BY <1>0, <1>8, OwnedFrame DEF Bar, vars
<1> QED
  BY <1>0, <1>1, <1>2, <1>3, <1>4, <1>5, <1>6, <1>7, <1>8, OwnedIssue, OwnedRotate, OwnedLock,
     OwnedSnapshot DEF Next

LEMMA OwnedInit == Init => Owned
<1>1. Unissued \in PairRow /\ Resting \in Request
  BY RestType DEF Unissued, PairRow, RowState
<1>2. Init => TypeOK
  <2> SUFFICES ASSUME Init
               PROVE  /\ token \in [Token -> PairRow] /\ session \in [Worker -> Request]
                      /\ password \in Nat /\ barred \in BOOLEAN
    BY Typed
  <2> QED BY <1>1 DEF Init
<1> QED BY <1>2 DEF Init, Owned, Issued, Live, Resting, Unissued

LEMMA SessionsInvariant == Spec => []Owned
  BY OwnedInit, OwnedStep, PTL DEF Spec

\* Pairs and requests keep their types (AuthService, refresh_tokens).
THEOREM TypeCorrect == Spec => []TypeOK
  BY SessionsInvariant, PTL DEF Owned

-----------------------------------------------------------------------------
(* The promise of SessionFamilies *)

\* Rows that stay or end are an End of the families, or nothing at all.
LEMMA FamiliesEnd ==
  ASSUME Owned,
         \A t \in Token : /\ token'[t].state # "unissued" <=> token[t].state # "unissued"
                          /\ token'[t].login = token[t].login
                          /\ token'[t].state = "live" => token[t].state = "live"
  PROVE  Families!Next
<1> DEFINE ended == {l \in Token : holders'[l] = {}}
<1>1. Issued' = Issued
  BY DEF Issued
<1>2. \A l \in Token : holders'[l] = {} \/ holders'[l] = holders[l]
  <2> SUFFICES ASSUME NEW l \in Token, holders'[l] # {} PROVE holders'[l] = holders[l]
    OBVIOUS
  <2>1. holders'[l] = {t \in Token : token'[t].state = "live" /\ token'[t].login = l}
    BY DEF holders, Live
  <2>2. PICK t \in Token : t \in holders'[l]
    BY <2>1
  <2>3. holders[l] = {u \in Token : Live(u) /\ token[u].login = l}
    BY DEF holders
  <2>4. \A u \in holders[l] : u = t
    BY <2>1, <2>2, <2>3 DEF Owned, Live
  <2>5. holders'[l] \subseteq holders[l]
    BY <2>1, <2>3 DEF Live
  <2> QED BY <2>2, <2>4, <2>5
<1>3. holders' = [l \in Token |-> IF l \in ended THEN {} ELSE holders[l]]
  BY <1>2 DEF holders
<1>4. ended \in SUBSET Token
  OBVIOUS
<1> HIDE DEF ended
<1>5. Families!End
  BY <1>1, <1>3, <1>4 DEF Families!End
<1> QED BY <1>5 DEF Families!Next

\* Every step of a request is a step of the families: a login opens one, a rotation
\* renews it for its only holder, everything else ends some or leaves them alone.
LEMMA FamiliesStep == Owned /\ [Next]_vars => [Families!Next]_Families!vars
<1> SUFFICES ASSUME Owned, [Next]_vars PROVE [Families!Next]_Families!vars
  OBVIOUS
<1>0. TypeOK
  BY DEF Owned
<1>1. ASSUME UNCHANGED token PROVE UNCHANGED Families!vars
  BY <1>1 DEF Families!vars, holders, Issued, Live
<1>2. ASSUME NEW w \in Worker, LoginIssue(w) PROVE Families!Next
  <2>1. PICK t \in Token \ Issued : token' = [token EXCEPT ![t] = Pair(t, session[w].gen, Late(w))]
    BY <1>2 DEF LoginIssue
  <2>2. /\ token'[t].state = "live" /\ token'[t].login = t
        /\ \A u \in Token \ {t} : token'[u] = token[u]
    BY <1>0, <2>1 DEF Pair, TypeOK
  <2>3. Issued' = Issued \cup {t}
    BY <2>2 DEF Issued
  <2>4. \A u \in Token : Live(u) => token[u].login # t /\ u # t
    BY <2>1 DEF Owned, Issued, Live
  <2>5. holders[t] = {}
    BY <2>4 DEF holders
  <2>6. \A l \in Token : holders'[l] = IF l = t THEN {t} ELSE holders[l]
    BY <2>2, <2>4 DEF holders, Live
  <2>7. holders' = [holders EXCEPT ![t] = {t}]
    BY <2>6 DEF holders
  <2> QED BY <2>1, <2>3, <2>5, <2>7 DEF Families!Next, Families!Open
<1>3. ASSUME NEW w \in Worker, RotateCommit(w), ~UNCHANGED token PROVE Families!Next
  <2> DEFINE t == session[w].token
             l == token[t].login
  <2>1. t \in Token /\ Live(t) /\ t \in Issued /\ l \in Issued /\ l \in Token
    BY <1>3 DEF RotateCommit, Owned, Issued
  <2>2. PICK u \in Token \ Issued :
          token' = [token EXCEPT ![t].state = "revoked",
                      ![u] = Pair(l, token[t].gen, token[t].late \/ Late(w))]
    BY <1>3 DEF RotateCommit
  <2>3. /\ token'[u].state = "live" /\ token'[u].login = l /\ token'[t].state = "revoked" /\ u # t
        /\ \A x \in Token \ {t, u} : token'[x] = token[x]
    BY <1>0, <2>1, <2>2 DEF Pair, TypeOK
  <2>4. Issued' = Issued \cup {u}
    BY <2>1, <2>3 DEF Issued
  <2> HIDE DEF t, l
  <2>5. holders[l] = {x \in Token : Live(x) /\ token[x].login = l}
    BY <2>1 DEF holders
  <2>6. holders[l] = {t}
    BY <2>1, <2>5 DEF Owned, t, l
  <2>7. \E x \in Token : holders[l] = {x}
    BY <2>1, <2>6
  <2>8. ~Live(u)
    BY <2>2 DEF Issued, Live
  <2>9. \A x \in Token : Live(x) /\ token[x].login = l => x = t
    BY <2>1 DEF Owned, t, l
  <2>10. \A m \in Token : holders'[m] = IF m = l THEN {u} ELSE holders[m]
    <3> SUFFICES ASSUME NEW m \in Token, NEW x \in Token
                 PROVE  (Live(x)' /\ token'[x].login = m)
                          <=> (IF m = l THEN x = u ELSE Live(x) /\ token[x].login = m)
      BY DEF holders
    <3>1. CASE x = u
      BY <2>3, <2>8, <3>1 DEF Live
    <3>2. CASE x = t
      BY <2>3, <3>2 DEF Live, l
    <3>3. CASE x \notin {t, u}
      BY <2>3, <2>9, <3>3 DEF Live
    <3> QED BY <3>1, <3>2, <3>3
  <2>11. holders' = [holders EXCEPT ![l] = {u}]
    BY <2>1, <2>10 DEF holders
  <2> QED BY <2>1, <2>2, <2>4, <2>7, <2>11 DEF Families!Next, Families!Renew
<1>4. ASSUME NEW rows, token' = Revoke(rows) PROVE Families!Next
  BY <1>0, <1>4, RevokedRows, FamiliesEnd
<1>5. ASSUME NEW t \in Token, Cleanup(t) PROVE Families!Next
  <2>1. \A u \in Token : /\ token'[u].state = IF u = t THEN "deleted" ELSE token[u].state
                         /\ token'[u].login = token[u].login
        /\ token[t].state # "unissued"
    BY <1>0, <1>5 DEF Cleanup, TypeOK
  <2> QED BY <2>1, FamiliesEnd
<1>6. CASE Lapse
  <2>1. \A t \in Token : token'[t].state = token[t].state /\ token'[t].login = token[t].login
    BY <1>0, <1>6 DEF Lapse, TypeOK
  <2> QED BY <2>1, FamiliesEnd
<1>7. CASE UNCHANGED vars
  BY <1>1, <1>7 DEF vars
<1> QED
  BY <1>1, <1>2, <1>3, <1>4, <1>5, <1>6, <1>7
  DEF Next, LoginCheck, RefreshRead, RotateLock, ReuseRevoke, ReuseRevoked, ChangeCheck, ChangeStart,
      ChangeCommit, RevokeSessions, Dies, Logout, Bar

\* However many requests present a token, its login has one holder at a time, and a login
\* that was ended is not revived (rotateRefreshToken).
THEOREM RotationImplements == Spec => OneSession
<1>1. Init => Families!Init
  BY DEF Init, Families!Init, holders, Issued, Live, Unissued
<1> QED BY <1>1, SessionsInvariant, FamiliesStep, PTL DEF Spec, OneSession, Families!Spec

-----------------------------------------------------------------------------
(* Sessions of an old password *)

\* A session, or a request, of an older password has been under way during a change; and a
\* change that is committing has seen every live row but those that come late.
Ousted ==
  /\ \A t \in Token : Live(t) /\ token[t].gen < password => token[t].late
  /\ \A w \in Worker : session[w].task = "login" => ~Idle(w)
  /\ \A w \in Worker : ~Idle(w) /\ session[w].gen < password => session[w].late
  /\ \A w \in Worker : Changing(w) /\ session[w].step = "revoking" =>
       \A t \in Token : Live(t) => t \in session[w].seen \/ token[t].late

\* Rows that stay or end, and requests that go on, rest, begin, or take their snapshot.
LEMMA OustedFrame ==
  ASSUME TypeOK, Ousted, UNCHANGED password,
         \A w \in Worker : session'[w].task = "login" => session'[w].step # "idle",
         \A w \in Worker : session'[w].step # "idle" =>
           \/ session'[w].gen = password
           \/ session[w].step # "idle" /\ session'[w].gen = session[w].gen
              /\ (session[w].late => session'[w].late),
         \A w \in Worker : session'[w].task = "change" /\ session'[w].step = "revoking" =>
           \/ session[w].task = "change" /\ session[w].step = "revoking" /\ session'[w].seen = session[w].seen
           \/ \A t \in Token : token[t].state = "live" => t \in session'[w].seen,
         \A t \in Token : token'[t].state = "live" =>
           token[t].state = "live" /\ token'[t].gen = token[t].gen /\ (token[t].late => token'[t].late)
  PROVE  Ousted'
<1> USE DEF Ousted, Live, Idle, Changing
<1>1. \A t \in Token : token'[t].state = "live" /\ token'[t].gen < password => token'[t].late
  OBVIOUS
<1>2. \A w \in Worker : session'[w].step # "idle" /\ session'[w].gen < password => session'[w].late
  BY DEF TypeOK
<1>3. \A w \in Worker : session'[w].task = "change" /\ session'[w].step = "revoking" =>
        \A t \in Token : token'[t].state = "live" => t \in session'[w].seen \/ token'[t].late
  OBVIOUS
<1>4. password' = password
  OBVIOUS
<1> QED BY <1>1, <1>2, <1>3, <1>4

\* A new pair of a request that was late is late.
LEMMA OustedStep == Owned /\ Ousted /\ [Next]_vars => Ousted'
<1> SUFFICES ASSUME Owned, Ousted, [Next]_vars PROVE Ousted'
  OBVIOUS
<1>0. TypeOK
  BY DEF Owned
<1> USE DEF Ousted, Live, Idle, Changing
<1>1. ASSUME NEW w \in Worker, NEW task, NEW t, Go(w, task, "checked", t), UNCHANGED <<token, password>>
      PROVE  Ousted'
  <2>1. /\ \A v \in Worker \ {w} : session'[v] = session[v]
        /\ session'[w].gen = password /\ session'[w].step = "checked"
    BY <1>0, <1>1 DEF Go, Resting, TypeOK
  <2> QED BY <1>0, <1>1, <2>1, OustedFrame
<1>2. ASSUME NEW w \in Worker, Rest(w) 
      PROVE  /\ \A v \in Worker \ {w} : session'[v] = session[v]
             /\ session'[w].step = "idle" /\ session'[w].task = "none"
  BY <1>0, <1>2 DEF Rest, Resting, TypeOK
<1>3. ASSUME NEW w \in Worker, Rest(w), UNCHANGED password,
             \A t \in Token : token'[t].state = "live" =>
               \/ token[t].state = "live" /\ token'[t].gen = token[t].gen /\ token'[t].late = token[t].late
               \/ /\ token'[t].gen < password => token'[t].late
                  /\ Late(w) => token'[t].late
      PROVE  Ousted'
  <2>1. \A t \in Token : token'[t].state = "live" /\ token'[t].gen < password => token'[t].late
    BY <1>3
  <2>2. \A v \in Worker : session'[v].step # "idle" /\ session'[v].gen < password => session'[v].late
    BY <1>2, <1>3
  <2>3. ASSUME NEW v \in Worker, session'[v].task = "change", session'[v].step = "revoking",
               NEW t \in Token, token'[t].state = "live"
        PROVE  t \in session'[v].seen \/ token'[t].late
    <3>1. session'[v] = session[v] /\ session[v].task = "change" /\ session[v].step = "revoking"
      BY <1>2, <1>3, <2>3
    <3>2. Late(w)
      BY <3>1 DEF Late
    <3> QED BY <1>3, <2>3, <3>1, <3>2
  <2>4. \A v \in Worker : session'[v].task = "login" => session'[v].step # "idle"
    BY <1>2, <1>3
  <2>5. \A v \in Worker : session'[v].task = "change" /\ session'[v].step = "revoking" =>
          \A t \in Token : token'[t].state = "live" => t \in session'[v].seen \/ token'[t].late
    BY <2>3
  <2> QED BY <1>3, <2>1, <2>2, <2>4, <2>5
<1>4. ASSUME NEW w \in Worker, LoginIssue(w) PROVE Ousted'
  <2>1. PICK t \in Token \ Issued : token' = [token EXCEPT ![t] = Pair(t, session[w].gen, Late(w))]
    BY <1>4 DEF LoginIssue
  <2>2. token'[t].gen = session[w].gen /\ token'[t].late = Late(w)
        /\ \A u \in Token \ {t} : token'[u] = token[u]
    BY <1>0, <2>1 DEF Pair, TypeOK
  <2>3. session[w].late => Late(w)
    BY DEF Late
  <2>4. session[w].gen < password => session[w].late
    BY <1>4 DEF LoginIssue
  <2> QED BY <1>3, <1>4, <2>2, <2>3, <2>4 DEF LoginIssue
<1>5. ASSUME NEW w \in Worker, RotateCommit(w) PROVE Ousted'
  <2> DEFINE t == session[w].token
  <2>1. t \in Token /\ Live(t)
    BY <1>5 DEF RotateCommit, Owned, Issued
  <2>2. CASE UNCHANGED token
    BY <1>3, <1>5, <2>2 DEF RotateCommit
  <2>3. ASSUME NEW u \in Token \ Issued,
               token' = [token EXCEPT ![t].state = "revoked",
                           ![u] = Pair(token[t].login, token[t].gen, token[t].late \/ Late(w))]
        PROVE  Ousted'
    <3>1. /\ token'[u].gen = token[t].gen /\ token'[u].late = (token[t].late \/ Late(w))
          /\ token'[t].state = "revoked"
          /\ \A x \in Token \ {t, u} : token'[x] = token[x]
      BY <1>0, <2>1, <2>3 DEF Pair, TypeOK, Issued
    <3>2. token[t].gen < password => token[t].late
      BY <2>1
    <3> QED BY <1>3, <1>5, <3>1, <3>2 DEF RotateCommit
  <2> QED BY <1>5, <2>2, <2>3 DEF RotateCommit
<1>6. ASSUME NEW w \in Worker, RotateLock(w) PROVE Ousted'
  <2>1. \A v \in Worker : /\ session'[v].gen = session[v].gen /\ session'[v].late = session[v].late
                          /\ session'[v].seen = session[v].seen
                          /\ session'[v].step # "idle" => session[v].step # "idle"
                          /\ session'[v].task \in {"change", "login"} => session[v].task = session'[v].task
                          /\ session[v].step # "idle" => session'[v].step # "idle"
                          /\ session'[v].step = "revoking" => session[v].step = "revoking"
    BY <1>0, <1>6 DEF RotateLock, TypeOK
  <2>2. UNCHANGED <<token, password>>
    BY <1>6 DEF RotateLock
  <2> QED BY <1>0, <2>1, <2>2, OustedFrame
<1>7. ASSUME NEW w \in Worker, ReuseRevoke(w) \/ ChangeStart(w) PROVE Ousted'
  <2>1. /\ \A v \in Worker \ {w} : session'[v] = session[v]
        /\ session'[w].gen = session[w].gen /\ session'[w].late = session[w].late
        /\ session'[w].seen = {t \in Token : Live(t)} /\ session[w].step # "idle"
        /\ session'[w].task = session[w].task /\ session'[w].step = "revoking"
        /\ UNCHANGED <<token, password>>
    BY <1>0, <1>7 DEF ReuseRevoke, ChangeStart, RowsToRevoke, TypeOK
  <2> QED BY <1>0, <2>1, OustedFrame
<1>8. ASSUME NEW w \in Worker, ReuseRevoked(w) PROVE Ousted'
  BY <1>0, <1>3, <1>8, RevokedRows DEF ReuseRevoked
<1>9. ASSUME NEW w \in Worker, ChangeCommit(w) PROVE Ousted'
  <2>1. \A v \in Worker : /\ session'[v].step # "idle" => session'[v].late /\ v # w
                          /\ session'[v].task = "login" => session'[v].step # "idle"
                          /\ session'[v].step # "idle" => /\ session'[v].task = session[v].task
                                                          /\ session'[v].step = session[v].step
                                                          /\ session'[v].seen = session[v].seen
    BY <1>0, <1>9 DEF ChangeCommit, Resting, TypeOK
  <2>2. \A t \in Token : token'[t].state = "live" =>
          token[t].state = "live" /\ t \notin session[w].seen /\ token'[t].late = token[t].late
    BY <1>0, <1>9, RevokedRows DEF ChangeCommit, RevokeSessions
  <2>3. \A t \in Token : token'[t].state = "live" => token'[t].late
    BY <1>9, <2>2 DEF ChangeCommit
  <2>4. \A v \in Worker : session'[v].task = "change" /\ session'[v].step = "revoking" =>
          \A t \in Token : token'[t].state = "live" => token'[t].late
    BY <2>3
  <2>5. \A t \in Token : token'[t].state = "live" /\ token'[t].gen < password' => token'[t].late
    BY <2>3
  <2>6. \A v \in Worker : session'[v].step # "idle" /\ session'[v].gen < password' => session'[v].late
    BY <2>1
  <2>7. \A v \in Worker : session'[v].task = "login" => session'[v].step # "idle"
    BY <2>1
  <2> QED BY <2>4, <2>5, <2>6, <2>7
<1>10. ASSUME NEW t \in Token, Logout(t) \/ Cleanup(t) PROVE Ousted'
  <2>1. UNCHANGED <<session, password>>
        /\ \A u \in Token : token'[u].state = "live" =>
             token[u].state = "live" /\ token'[u].gen = token[u].gen /\ token'[u].late = token[u].late
    BY <1>0, <1>10, RevokedRows DEF Logout, Cleanup, TypeOK
  <2> QED BY <1>0, <2>1, OustedFrame
<1>11. CASE Lapse
  <2>1. UNCHANGED <<session, password>>
        /\ \A u \in Token : /\ token'[u].state = token[u].state
                            /\ token'[u].gen = token[u].gen /\ token'[u].late = token[u].late
    BY <1>0, <1>11 DEF Lapse, TypeOK
  <2> QED BY <1>0, <2>1, OustedFrame
<1>12. ASSUME NEW w \in Worker, Dies(w) PROVE Ousted'
  BY <1>3, <1>12 DEF Dies
<1>13. CASE Bar \/ UNCHANGED vars
  BY <1>13 DEF Bar, vars
<1>14. ASSUME NEW w \in Worker, LoginCheck(w) \/ ChangeCheck(w) PROVE Ousted'
  BY <1>1, <1>14 DEF LoginCheck, ChangeCheck
<1>15. ASSUME NEW w \in Worker, NEW t \in Token, RefreshRead(w, t) PROVE Ousted'
  BY <1>1, <1>15 DEF RefreshRead
<1> QED
  BY <1>4, <1>5, <1>6, <1>7, <1>8, <1>9, <1>10, <1>11, <1>12, <1>13, <1>14, <1>15 DEF Next

\* A changed password ends every session of the old one, unless its login or rotation was
\* under way during the change (changePassword, confirmPasswordReset).
THEOREM OldPasswordIsOut == Spec => []OldPasswordOut
<1>1. Init => Ousted
  BY DEF Init, Ousted, Live, Idle, Changing, Resting, Unissued
<1>2. Ousted => OldPasswordOut
  BY DEF Ousted, OldPasswordOut
<1> QED BY <1>1, <1>2, SessionsInvariant, OustedStep, PTL DEF Spec

-----------------------------------------------------------------------------
(* Access tokens *)

CONSTANTS Call, Life, MaxTime, None
VARIABLES now, minted, changed, banned, redis, denied, out, request

Bearer == INSTANCE AccessTokens WITH Request <- Call

\* A lifetime is in whole seconds, and no time is None.
Times == MaxTime \in Nat /\ Life \in Nat /\ (\E n \in Nat : Life = 2 * n) /\ None \notin Nat

Moment == 0..MaxTime \cup {None}
Check  == {"free", "denied?", "user?", "company?", "accepted", "refused", "stale"}
CallRow == [token : Token \cup {None}, out : BOOLEAN, blind : BOOLEAN, step : Check,
            changed : Moment, banned : BOOLEAN]

BearerTyped ==
  /\ now \in 0..MaxTime /\ minted \in [Token -> Moment]
  /\ changed \in Moment /\ banned \in BOOLEAN /\ redis \in BOOLEAN
  /\ denied \in [Token -> 0..(MaxTime + Life)] /\ out \subseteq Token
  /\ request \in [Call -> CallRow]

\* What a token's times and its logout say: Redis remembers it until it has expired.
Known ==
  /\ \A t \in Token : minted[t] # None => minted[t] <= now
  /\ \A t \in out : minted[t] # None /\ denied[t] >= Bearer!Expires(t)

\* What a request met when it arrived is still so, and what it has been asked it has shown.
Shown(q) ==
  /\ q.step # "free" => q.token \in Token /\ minted[q.token] # None
  /\ q.changed # None => q.changed = changed
  /\ q.banned => banned
  /\ q.step # "free" /\ q.out => q.token \in out
  /\ q.step \in {"user?", "company?", "accepted"} /\ q.out => q.blind
  /\ q.step \in {"company?", "accepted"} /\ q.changed # None => minted[q.token] + 2 >= q.changed
  /\ q.step = "accepted" => ~q.banned
  /\ q.step = "stale" => changed # None /\ minted[q.token] < changed

Guarded == BearerTyped /\ Known /\ \A r \in Call : Shown(request[r])

\* Half-seconds and the whole seconds they lie in.
LEMMA Truncation ==
  ASSUME NEW t \in Nat
  PROVE  Bearer!Seconds(t) \in Nat /\ Bearer!Seconds(t) <= t /\ t <= Bearer!Seconds(t) + 1
  BY DEF Bearer!Seconds

LEMMA Even == ASSUME NEW t \in Nat PROVE \E n \in Nat : Bearer!Seconds(t) = 2 * n
  BY DEF Bearer!Seconds

\* What has expired by the clock has expired by its whole seconds.
LEMMA WholeSeconds ==
  ASSUME NEW m \in Nat, NEW t \in Nat, NEW l \in Nat, \E n \in Nat : l = 2 * n,
         Bearer!Seconds(m) + l <= t
  PROVE  Bearer!Seconds(m) + l <= Bearer!Seconds(t)
<1>1. PICK a \in Nat : Bearer!Seconds(m) = 2 * a
  BY Even
<1>2. PICK b \in Nat : Bearer!Seconds(t) = 2 * b
  BY Even
<1>3. PICK n \in Nat : l = 2 * n
  OBVIOUS
<1> QED BY <1>1, <1>2, <1>3, Truncation

\* Nothing but a request's own answer changes what is shown, as long as time only passes,
\* and what was issued, denied, changed or closed stays so.
LEMMA ShownFrame ==
  ASSUME Guarded, Times, NEW r \in Call, request'[r] = request[r],
         \A t \in Token : minted[t] # None => minted'[t] = minted[t],
         changed # None => changed' = changed, banned => banned', out \subseteq out'
  PROVE  Shown(request[r])'
<1>1. request[r] \in CallRow /\ Shown(request[r])
  BY DEF Guarded, BearerTyped
<1>2. PICK q \in CallRow : q = request[r]
  BY <1>1
<1>3. q.step # "free" => minted'[q.token] = minted[q.token]
  BY <1>1, <1>2 DEF Shown
<1> QED BY <1>1, <1>2, <1>3 DEF Shown, CallRow

\* An answer moves one request on.
LEMMA AnswerFrame ==
  ASSUME Guarded, Times, NEW r \in Call, NEW q \in CallRow, request' = [request EXCEPT ![r] = q],
         UNCHANGED <<now, minted, changed, banned, redis, denied, out>>, Shown(q)
  PROVE  Guarded'
<1>1. BearerTyped'
  BY DEF Guarded, BearerTyped
<1>2. Known'
  BY DEF Guarded, Known, Bearer!Expires
<1>3. request'[r] = q /\ \A s \in Call \ {r} : request'[s] = request[s]
  BY DEF Guarded, BearerTyped
<1>4. \A s \in Call \ {r} : Shown(request[s])'
  BY <1>3, ShownFrame
<1>5. Shown(request[r])'
  BY <1>3 DEF Shown
<1> QED BY <1>1, <1>2, <1>4, <1>5 DEF Guarded

\* The clock, the accounts and Redis move, and no request does.
LEMMA WorldFrame ==
  ASSUME Guarded, Times, UNCHANGED request, BearerTyped', Known',
         \A t \in Token : minted[t] # None => minted'[t] = minted[t],
         changed # None => changed' = changed, banned => banned', out \subseteq out'
  PROVE  Guarded'
  BY ShownFrame DEF Guarded

LEMMA GuardedStep == ASSUME Times, Guarded, [Bearer!Next]_(Bearer!vars) PROVE Guarded'
<1> USE DEF Times
<1>1. ASSUME NEW t \in Token, Bearer!Issue(t) PROVE Guarded'
  <2>1. BearerTyped'
    BY <1>1 DEF Bearer!Issue, Guarded, BearerTyped, Moment
  <2>2. \A u \in Token : minted[u] # None => minted'[u] = minted[u]
    BY <1>1 DEF Bearer!Issue, Guarded, BearerTyped
  <2>3. minted'[t] = now /\ \A u \in Token \ {t} : minted'[u] = minted[u]
    BY <1>1 DEF Bearer!Issue, Guarded, BearerTyped
  <2>4. Known'
    <3>1. \A u \in Token : minted'[u] # None => minted'[u] <= now'
      BY <1>1, <2>3 DEF Bearer!Issue, Guarded, BearerTyped, Known
    <3>2. \A u \in out' : minted'[u] # None /\ denied'[u] >= Bearer!Expires(u)'
      BY <1>1, <2>2 DEF Bearer!Issue, Bearer!Expires, Guarded, BearerTyped, Known
    <3> QED BY <3>1, <3>2 DEF Known
  <2> QED BY <1>1, <2>1, <2>2, <2>4, WorldFrame DEF Bearer!Issue
<1>2. ASSUME NEW t \in Token, Bearer!Logout(t) PROVE Guarded'
  <2>1. CASE UNCHANGED <<denied, out>>
    <3>1. BearerTyped' /\ Known'
      BY <1>2, <2>1 DEF Bearer!Logout, Bearer!Expires, Guarded, BearerTyped, Known
    <3> QED BY <1>2, <2>1, <3>1, WorldFrame DEF Bearer!Logout
  <2>2. CASE denied' = [denied EXCEPT ![t] = now + Bearer!Remaining(t)] /\ out' = out \cup {t}
    <3>1. minted[t] \in Nat /\ minted[t] <= now /\ now \in Nat /\ minted[t] # None
      BY <1>2 DEF Bearer!Logout, Bearer!Valid, Guarded, BearerTyped, Moment, Known
    <3> DEFINE s == Bearer!Seconds(now)
               m == Bearer!Seconds(minted[t])
    <3>0. s \in Nat /\ s <= now /\ now <= s + 1 /\ m \in Nat /\ m <= minted[t]
      BY <3>1, Truncation
    <3>2. now + Bearer!Remaining(t) >= Bearer!Expires(t)
      BY <3>0, <3>1 DEF Bearer!Remaining, Bearer!Expires
    <3>3. Bearer!Seconds(minted[t]) <= Bearer!Seconds(now)
      BY <3>1 DEF Bearer!Seconds
    <3>4. Bearer!Seconds(now) < Bearer!Expires(t)
      BY <1>2 DEF Bearer!Logout, Bearer!Valid
    <3>5. now + Bearer!Remaining(t) \in 0..(MaxTime + Life)
      BY <3>0, <3>1, <3>3, <3>4 DEF Bearer!Remaining, Bearer!Expires, Guarded, BearerTyped
    <3>6. BearerTyped'
      BY <1>2, <2>2, <3>5 DEF Bearer!Logout, Guarded, BearerTyped
    <3>7. denied'[t] = now + Bearer!Remaining(t) /\ \A u \in Token \ {t} : denied'[u] = denied[u]
      BY <2>2 DEF Guarded, BearerTyped
    <3>8. Known'
      BY <1>2, <2>2, <3>1, <3>2, <3>7 DEF Bearer!Logout, Bearer!Expires, Guarded, BearerTyped, Known
    <3> QED BY <1>2, <2>2, <3>6, <3>8, WorldFrame DEF Bearer!Logout
  <2> QED BY <1>2, <2>1, <2>2 DEF Bearer!Logout
<1>3. ASSUME NEW r \in Call, NEW t \in Token, Bearer!Arrive(r, t) PROVE Guarded'
  <2> DEFINE o == t \in out
             q == [token |-> t, step |-> "denied?", out |-> o, blind |-> FALSE,
                   changed |-> changed, banned |-> banned]
  <2>2. request' = [request EXCEPT ![r] = q]
        /\ UNCHANGED <<now, minted, changed, banned, redis, denied, out>>
    BY <1>3 DEF Bearer!Arrive
  <2>3. o \in BOOLEAN /\ (o => t \in out) /\ minted[t] # None
    BY <1>3 DEF Bearer!Arrive, Bearer!Valid
  <2> HIDE DEF o
  <2>4. q \in CallRow
    BY <2>3 DEF Guarded, BearerTyped, CallRow, Check
  <2>5. Shown(q)
    BY <2>3 DEF Shown
  <2> HIDE DEF q
  <2> QED BY <2>2, <2>4, <2>5, AnswerFrame
<1>4. ASSUME NEW r \in Call, Bearer!CheckDenied(r) PROVE Guarded'
  <2> DEFINE t == request[r].token
             b == (~redis \/ ~Bearer!Valid(t))
             no == [request[r] EXCEPT !.step = "refused"]
             on == [request[r] EXCEPT !.step = "user?", !.blind = b]
  <2>1. request[r] \in CallRow /\ Shown(request[r]) /\ request[r].step = "denied?"
    BY <1>4 DEF Bearer!CheckDenied, Guarded, BearerTyped
  <2>2. UNCHANGED <<now, minted, changed, banned, redis, denied, out>>
    BY <1>4 DEF Bearer!CheckDenied
  <2>3. CASE redis /\ denied[t] > now
    <3>1. no \in CallRow /\ Shown(no)
      BY <2>1 DEF Shown, CallRow, Check
    <3>2. request' = [request EXCEPT ![r] = no]
      BY <1>4, <2>3 DEF Bearer!CheckDenied, Bearer!Answer
    <3> HIDE DEF no
    <3> QED BY <2>2, <3>1, <3>2, AnswerFrame
  <2>4. CASE ~(redis /\ denied[t] > now)
    <3>1. t \in out => b
      <4> SUFFICES ASSUME t \in out, redis PROVE ~Bearer!Valid(t)
        OBVIOUS
      <4>1. t \in Token /\ minted[t] \in Nat /\ now \in Nat /\ denied[t] \in Nat
        BY DEF Guarded, BearerTyped, Moment, Known
      <4> DEFINE s == Bearer!Seconds(now)
                 m == Bearer!Seconds(minted[t])
      <4>0. s \in Nat /\ m \in Nat
        BY <4>1, Truncation
      <4>5. denied[t] >= m + Life
        BY DEF Guarded, Known, Bearer!Expires
      <4>2. m + Life <= now
        BY <2>4, <4>0, <4>1, <4>5
      <4>3. Bearer!Seconds(minted[t]) + Life <= Bearer!Seconds(now)
        BY <4>1, <4>2, WholeSeconds
      <4> QED BY <4>0, <4>3 DEF Bearer!Valid, Bearer!Expires
    <3>2. request' = [request EXCEPT ![r] = on]
      BY <1>4, <2>4 DEF Bearer!CheckDenied
    <3>3. b \in BOOLEAN
      OBVIOUS
    <3> HIDE DEF b
    <3>4. on \in CallRow /\ Shown(on)
      BY <2>1, <3>1, <3>3 DEF Shown, CallRow, Check
    <3> HIDE DEF on
    <3> QED BY <2>2, <3>2, <3>4, AnswerFrame
  <2> QED BY <2>3, <2>4
<1>5. ASSUME NEW r \in Call, Bearer!CheckUser(r) PROVE Guarded'
  <2> DEFINE t == request[r].token
             no == [request[r] EXCEPT !.step = "stale"]
             on == [request[r] EXCEPT !.step = "company?"]
  <2>1. request[r] \in CallRow /\ Shown(request[r]) /\ request[r].step = "user?"
    BY <1>5 DEF Bearer!CheckUser, Guarded, BearerTyped
  <2>2. UNCHANGED <<now, minted, changed, banned, redis, denied, out>>
    BY <1>5 DEF Bearer!CheckUser
  <2>3. t \in Token /\ minted[t] \in Nat
    BY <2>1 DEF Shown, Guarded, BearerTyped, Moment
  <2>4. CASE changed # None /\ Bearer!BeforeChange(t)
    <3>0. Bearer!Seconds(minted[t]) \in Nat /\ minted[t] <= Bearer!Seconds(minted[t]) + 1
      BY <2>3, Truncation
    <3>1. minted[t] < changed
      BY <2>3, <2>4, <3>0 DEF Bearer!BeforeChange, Guarded, BearerTyped, Moment
    <3>2. no \in CallRow /\ Shown(no)
      BY <2>1, <2>4, <3>1 DEF Shown, CallRow, Check
    <3>3. request' = [request EXCEPT ![r] = no]
      BY <1>5, <2>4 DEF Bearer!CheckUser, Bearer!Answer
    <3> HIDE DEF no
    <3> QED BY <2>2, <3>2, <3>3, AnswerFrame
  <2>5. CASE ~(changed # None /\ Bearer!BeforeChange(t))
    <3>0. Bearer!Seconds(minted[t]) \in Nat /\ Bearer!Seconds(minted[t]) <= minted[t]
      BY <2>3, Truncation
    <3>1. changed # None => minted[t] + 2 >= changed
      BY <2>3, <2>5, <3>0 DEF Bearer!BeforeChange, Guarded, BearerTyped, Moment
    <3>2. on \in CallRow /\ Shown(on)
      BY <2>1, <3>1 DEF Shown, CallRow, Check
    <3>3. request' = [request EXCEPT ![r] = on]
      BY <1>5, <2>5 DEF Bearer!CheckUser, Bearer!Answer
    <3> HIDE DEF on
    <3> QED BY <2>2, <3>2, <3>3, AnswerFrame
  <2> QED BY <2>4, <2>5
<1>6. ASSUME NEW r \in Call, Bearer!CheckCompany(r) PROVE Guarded'
  <2>1. request[r] \in CallRow /\ Shown(request[r]) /\ request[r].step = "company?"
    BY <1>6 DEF Bearer!CheckCompany, Guarded, BearerTyped
  <2>2. UNCHANGED <<now, minted, changed, banned, redis, denied, out>>
    BY <1>6 DEF Bearer!CheckCompany
  <2>3. PICK s \in {"refused", "accepted"} :
          request' = [request EXCEPT ![r].step = s] /\ (s = "accepted" => ~banned)
    BY <1>6 DEF Bearer!CheckCompany, Bearer!Answer
  <2> DEFINE q == [request[r] EXCEPT !.step = s]
  <2>4. q \in CallRow /\ Shown(q)
    BY <2>1, <2>3 DEF Shown, CallRow, Check
  <2>5. request' = [request EXCEPT ![r] = q]
    BY <2>3
  <2> HIDE DEF q
  <2> QED BY <2>2, <2>4, <2>5, AnswerFrame
<1>7. CASE Bearer!ChangePassword \/ Bearer!Deactivate \/ Bearer!Redis
  <2>1. BearerTyped'
    BY <1>7 DEF Bearer!ChangePassword, Bearer!Deactivate, Bearer!Redis, Guarded, BearerTyped, Moment
  <2>2. Known'
    BY <1>7 DEF Bearer!ChangePassword, Bearer!Deactivate, Bearer!Redis, Guarded, Known, Bearer!Expires
  <2> QED
    BY <1>7, <2>1, <2>2, WorldFrame DEF Bearer!ChangePassword, Bearer!Deactivate, Bearer!Redis
<1>8. CASE Bearer!Tick
  <2>1. BearerTyped'
    BY <1>8 DEF Bearer!Tick, Guarded, BearerTyped
  <2>2. Known'
    BY <1>8 DEF Bearer!Tick, Guarded, BearerTyped, Moment, Known, Bearer!Expires
  <2> QED BY <1>8, <2>1, <2>2, WorldFrame DEF Bearer!Tick
<1>9. CASE UNCHANGED Bearer!vars
  <2>1. BearerTyped' /\ Known'
    BY <1>9 DEF Bearer!vars, Guarded, BearerTyped, Known, Bearer!Expires
  <2> QED BY <1>9, <2>1, WorldFrame DEF Bearer!vars
<1> QED BY <1>1, <1>2, <1>3, <1>4, <1>5, <1>6, <1>7, <1>8, <1>9 DEF Bearer!Next

LEMMA GuardedInit == ASSUME Times, Bearer!Init PROVE Guarded
<1>1. Bearer!Free \in CallRow
  BY DEF Bearer!Free, CallRow, Moment, Check
<1>2. BearerTyped
  <2>1. 0 \in 0..MaxTime /\ 0 \in 0..(MaxTime + Life)
    BY DEF Times
  <2>2. request \in [Call -> CallRow]
    BY <1>1 DEF Bearer!Init
  <2> QED BY <2>1, <2>2 DEF Bearer!Init, BearerTyped, Moment
<1>3. Known
  BY DEF Bearer!Init, Known
<1>4. Shown(Bearer!Free)
  BY DEF Bearer!Free, Shown
<1> QED BY <1>2, <1>3, <1>4 DEF Bearer!Init, Guarded

\* Access tokens, requests and what Redis remembers keep their types.
THEOREM BearerTypeCorrect == ASSUME Times PROVE Bearer!Spec => []Bearer!TypeOK
<1>1. Guarded => Bearer!TypeOK
  BY DEF Guarded, BearerTyped, Bearer!TypeOK, CallRow, Check, Moment
<1> QED BY <1>1, GuardedInit, GuardedStep, PTL DEF Bearer!Spec

\* What arrives after a password change, a deactivation or a completed logout gets in only
\* with a token at most a second older than the change, to a company in good standing, and
\* not with the token logged out, unless Redis did not answer or the token ran out under
\* way (companyMiddleware), for any lifetime, tokens and requests.
THEOREM AccessEndsForGood == ASSUME Times PROVE Bearer!Spec => []Bearer!AccessEnds
<1>1. Guarded => Bearer!AccessEnds
  BY DEF Guarded, Shown, Bearer!AccessEnds
<1> QED BY <1>1, GuardedInit, GuardedStep, PTL DEF Bearer!Spec

=============================================================================
