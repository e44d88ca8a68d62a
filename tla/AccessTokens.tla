--------------------------- MODULE AccessTokens ---------------------------
(***************************************************************************)
(* Access tokens: signed, never stored, and checked on every request by the    *)
(* middleware, in three steps that each wait for another store.  A logout denies *)
(* one token in Redis, a password change every older token, a deactivation the    *)
(* company.                                                                       *)
(*                                                                         *)
(* The clock counts half-seconds; a token states its times in whole seconds.      *)
(***************************************************************************)
EXTENDS Naturals

CONSTANTS
  Token, Request,
  Life,      \* JWT_EXPIRES_IN in half-seconds
  MaxTime,   \* bound on the clock
  None

VARIABLES
  now,
  minted,    \* minted[t]: when token t was issued, or None
  changed,   \* passwordChangedAt, or None
  banned,    \* the company is deactivated
  redis,     \* Redis answers within REVOCATION_CHECK_TIMEOUT_MS
  denied,    \* denied[t]: when Redis forgets that t was logged out; 0: it never was told
  out,       \* the tokens whose logout is complete
  request    \* request[r]: the token, the middleware's next step, and what was so before

vars == <<now, minted, changed, banned, redis, denied, out, request>>

Free == [token |-> None, step |-> "free", out |-> FALSE, blind |-> FALSE,
         changed |-> None, banned |-> FALSE]

Init ==
  /\ now = 0 /\ changed = None /\ banned = FALSE /\ redis = TRUE
  /\ minted = [t \in Token |-> None]
  /\ denied = [t \in Token |-> 0] /\ out = {}
  /\ request = [r \in Request |-> Free]

-----------------------------------------------------------------------------

\* Whole seconds, in half-seconds: iat, exp and what jsonwebtoken takes for now.
Seconds(t) == (t \div 2) * 2

Expires(t) == Seconds(minted[t]) + Life

\* verifyAccessJwt: the signature is right and exp is ahead.
Valid(t) == minted[t] # None /\ Seconds(now) < Expires(t)

\* Mutant: the expiry is taken for the time left.
RemainingIsExpiry(t) == Expires(t)

\* remainingLifetimeSeconds.
Remaining(t) == Expires(t) - Seconds(now)

\* authMiddleware: "one second of slack absorbs the truncation".
BeforeChange(t) == Seconds(minted[t]) + 2 < changed

\* signAccessToken, at a login or a rotation.
Issue(t) ==
  /\ minted[t] = None /\ ~banned
  /\ minted' = [minted EXCEPT ![t] = now]
  /\ UNCHANGED <<now, changed, banned, redis, denied, out, request>>

\* changePassword and confirmPasswordReset stamp the user.
ChangePassword ==
  /\ changed = None   \* bound: one change
  /\ changed' = now
  /\ UNCHANGED <<now, minted, banned, redis, denied, out, request>>

\* deactivateCompany.
Deactivate ==
  /\ ~banned
  /\ banned' = TRUE
  /\ UNCHANGED <<now, minted, changed, redis, denied, out, request>>

\* Logout answers in any case; without Redis the token is not denied.
Logout(t) ==
  /\ Valid(t) /\ t \notin out
  /\ IF redis
     THEN denied' = [denied EXCEPT ![t] = now + Remaining(t)] /\ out' = out \cup {t}
     ELSE UNCHANGED <<denied, out>>
  /\ UNCHANGED <<now, minted, changed, banned, redis, request>>

-----------------------------------------------------------------------------
(* companyMiddleware *)

Arrive(r, t) ==
  /\ request[r].step \in {"free", "accepted", "refused", "stale"} /\ Valid(t)
  /\ request' = [request EXCEPT ![r] =
       [token |-> t, step |-> "denied?", out |-> t \in out, blind |-> FALSE,
        changed |-> changed, banned |-> banned]]
  /\ UNCHANGED <<now, minted, changed, banned, redis, denied, out>>

Answer(r, step) == [request EXCEPT ![r].step = step]

\* isAccessTokenRevoked: open to everybody while Redis does not answer.
CheckDenied(r) ==
  /\ request[r].step = "denied?"
  /\ request' = IF redis /\ denied[request[r].token] > now
                THEN Answer(r, "refused")
                ELSE [request EXCEPT ![r].step = "user?",
                                     ![r].blind = ~redis \/ ~Valid(request[r].token)]
  /\ UNCHANGED <<now, minted, changed, banned, redis, denied, out>>

\* The user is read, and the password's age compared.
CheckUser(r) ==
  LET t == request[r].token IN
  /\ request[r].step = "user?"
  /\ request' = Answer(r, IF changed # None /\ BeforeChange(t) THEN "stale" ELSE "company?")
  /\ UNCHANGED <<now, minted, changed, banned, redis, denied, out>>

\* The company is read, and its entitlement computed.
CheckCompany(r) ==
  /\ request[r].step = "company?"
  /\ request' = Answer(r, IF banned THEN "refused" ELSE "accepted")
  /\ UNCHANGED <<now, minted, changed, banned, redis, denied, out>>

-----------------------------------------------------------------------------

\* Redis stops answering or comes back; its entries outlive the outage.
Redis ==
  /\ redis' = ~redis
  /\ UNCHANGED <<now, minted, changed, banned, denied, out, request>>

Tick ==
  /\ now < MaxTime
  /\ now' = now + 1
  /\ UNCHANGED <<minted, changed, banned, redis, denied, out, request>>

Next ==
  \/ \E t \in Token : Issue(t) \/ Logout(t)
  \/ \E r \in Request :
       \/ \E t \in Token : Arrive(r, t)
       \/ CheckDenied(r) \/ CheckUser(r) \/ CheckCompany(r)
  \/ ChangePassword \/ Deactivate \/ Redis \/ Tick

Spec == Init /\ [][Next]_vars

-----------------------------------------------------------------------------

\* Times and requests have their types.
TypeOK ==
  /\ now \in 0..MaxTime /\ minted \in [Token -> 0..MaxTime \cup {None}]
  /\ changed \in 0..MaxTime \cup {None} /\ banned \in BOOLEAN /\ redis \in BOOLEAN
  /\ denied \in [Token -> 0..(MaxTime + Life)] /\ out \subseteq Token
  /\ request \in [Request -> [token : Token \cup {None}, out : BOOLEAN, blind : BOOLEAN,
       step : {"free", "denied?", "user?", "company?", "accepted", "refused", "stale"},
       changed : 0..MaxTime \cup {None}, banned : BOOLEAN]]

\* "A user who changes their password precisely because they've been compromised"
\* (authMiddleware): what arrives after a password change, a deactivation or a completed
\* logout gets in only with a token at most a second older than the change, to a company
\* in good standing, and not with the token logged out, unless Redis did not answer or the
\* token expired under way; and nobody is sent away for a password that was changed before
\* the token was issued.
AccessEnds ==
  \A r \in Request : LET q == request[r] IN
    /\ q.step = "accepted" =>
         /\ q.changed # None => minted[q.token] + 2 >= q.changed
         /\ ~q.banned
         /\ q.out => q.blind
    /\ q.step = "stale" => minted[q.token] < changed

=============================================================================
