---------------------------- MODULE Registration ----------------------------
(***************************************************************************)
(* From the registration form to a verified account: runRegistration, the   *)
(* verification and reset links, the free trial and its identity claims,     *)
(* changing the login e-mail, and the nightly removal of signups nobody      *)
(* verified.                                                                *)
(*                                                                         *)
(* An account is a user with the company it owns; account numbers are not    *)
(* used twice.  A link is kept with the mailbox it was sent to: whoever reads *)
(* that mailbox can open it until it is used, replaced or deleted.  Requests  *)
(* that read before they write, or lock, are cut there; transactions that take *)
(* their row locks first are one step.                                        *)
(***************************************************************************)
EXTENDS Integers, FiniteSets

CONSTANTS
  Account,    \* signups
  Email,      \* e-mail addresses
  Contact,    \* what a signup gives as contact: sets of identity hashes
  Hash(_),    \* hashIdentifier of an address
  Worker,     \* requests
  None        \* no address, no account

VARIABLES
  account,   \* account[a]: the user row and its company
  link,      \* link[a]: the live verification link
  reset,     \* reset[a]: the live password-reset link
  change,    \* change[a]: the address of the live e-mail change link, or None
  claim,     \* claim[i]: the company in the identity's unreleased row, or None
  trials,    \* trials[i]: accounts that got a free trial with i since its last release
  job,       \* job[w]: what request w has read and does next
  cleaner    \* the cleanup run: what it listed, and what it has locked

vars == <<account, link, reset, change, claim, trials, job, cleaner>>

Identity == {Hash(e) : e \in Email} \cup UNION Contact

NoLink == [to |-> None, late |-> FALSE]
Unused == [state |-> "unused", email |-> None, contact |-> {}, verified |-> FALSE,
           trial |-> FALSE, payment |-> "none", held |-> "no"]
Resting == [task |-> "none", of |-> None, email |-> None, verified |-> FALSE,
            locked |-> FALSE, late |-> FALSE, todo |-> {}, mine |-> {}, refused |-> FALSE]

Payments == {"none", "moving", "paid"}
Holds    == {"no", "comped", "banned", "leaving"}

Init ==
  /\ account = [a \in Account |-> Unused]
  /\ link = [a \in Account |-> NoLink]
  /\ reset = [a \in Account |-> NoLink]
  /\ change = [a \in Account |-> None]
  /\ claim = [i \in Identity |-> None]
  /\ trials = [i \in Identity |-> {}]
  /\ job = [w \in Worker |-> Resting]
  /\ cleaner = [listed |-> {}, locked |-> None]

Open(a)     == account[a].state = "open"
Taken(e)    == \E a \in Account : Open(a) /\ account[a].email = e
Idle(w)     == job[w].task = "none"
Rest(w)     == job' = [job EXCEPT ![w] = Resting]

\* The user's row is locked by a confirmation or by the cleanup.
Locked(a) == cleaner.locked = a \/ \E w \in Worker : job[w].of = a /\ job[w].locked

-----------------------------------------------------------------------------
(* Registering *)

\* runRegistration: a taken address creates nothing, also when the unique index finds it.
Register(a, e, c) ==
  /\ account[a].state = "unused" /\ ~Taken(e)
  /\ account' = [account EXCEPT ![a] = [Unused EXCEPT !.state = "open", !.email = e, !.contact = c]]
  /\ UNCHANGED <<link, reset, change, claim, trials, job, cleaner>>

\* requestEmailVerification and requestPasswordReset read the user; an unverified one
\* for a verification link.
LinkRead(w, a, task) ==
  /\ Idle(w) /\ Open(a)
  /\ task = "link" => ~account[a].verified
  /\ job' = [job EXCEPT ![w] = [Resting EXCEPT !.task = task, !.of = a, !.email = account[a].email]]
  /\ UNCHANGED <<account, link, reset, change, claim, trials, cleaner>>

Confirming(w, a) == job[w].task = "confirm" /\ job[w].of = a
Late(ws) == [w \in Worker |-> IF w \in ws THEN [job[w] EXCEPT !.late = TRUE] ELSE job[w]]

\* The transaction retires the old link, which a confirmation may have opened, and
\* inserts the new one; it is mailed to the address read before.
LinkIssue(w) ==
  LET a == job[w].of IN
  /\ job[w].task \in {"link", "reset"}
  /\ cleaner.locked # a
  /\ LET new == [to |-> job[w].email, late |-> job[w].late] IN
     IF ~Open(a) THEN UNCHANGED <<link, reset>>
     ELSE IF job[w].task = "link" THEN link' = [link EXCEPT ![a] = new] /\ UNCHANGED reset
     ELSE reset' = [reset EXCEPT ![a] = new] /\ UNCHANGED link
  /\ job' = [Late({v \in Worker : job[w].task = "link" /\ Confirming(v, a)}) EXCEPT ![w] = Resting]
  /\ UNCHANGED <<account, change, claim, trials, cleaner>>

-----------------------------------------------------------------------------
(* confirmEmailVerification and confirmPasswordReset *)

\* The link is usable; the user is read without a lock.
ConfirmRead(w, a) ==
  /\ Idle(w) /\ Open(a) /\ link[a].to # None
  /\ job' = [job EXCEPT ![w] = [Resting EXCEPT !.task = "confirm", !.of = a, !.email = account[a].email,
                                             !.verified = account[a].verified]]
  /\ UNCHANGED <<account, link, reset, change, claim, trials, cleaner>>

\* Mutant: the address is claimed as it was typed, not by its hash.
IdentifiersRaw(a, e) == {e} \cup account[a].contact

\* toClaims: the login address and what the company gave as contact, each hash once.
Identifiers(a, e) == {Hash(e)} \cup account[a].contact

\* Whether a trial is due, read once the user's row is locked.
TrialDue(a) ==
  account[a].held # "banned" /\ ~account[a].trial /\ account[a].payment # "paid"

\* consumeEmailVerificationToken: the link opened, unless another replaced it.
Consume(w) == link' = IF job[w].late THEN link ELSE [link EXCEPT ![job[w].of] = NoLink]

\* markEmailVerified waits for the row's lock; a user found verified is left alone.
ConfirmLock(w) ==
  LET a == job[w].of IN
  /\ job[w].task = "confirm" /\ ~job[w].locked /\ ~Locked(a)
  /\ IF ~Open(a) \/ job[w].verified
       THEN Consume(w) /\ Rest(w)
       ELSE /\ job' = [job EXCEPT ![w].locked = TRUE,
                                  ![w].todo = IF TrialDue(a) THEN Identifiers(a, job[w].email) ELSE {},
                                  ![w].refused = ~TrialDue(a)]
            /\ UNCHANGED link
  /\ UNCHANGED <<account, reset, change, claim, trials, cleaner>>

\* INSERT .. ON CONFLICT DO NOTHING: waits for a claim under way on the same identity.
Claim(w, i) ==
  /\ job[w].locked /\ i \in job[w].todo
  /\ \A v \in Worker \ {w} : i \notin job[v].mine
  /\ job' = [job EXCEPT ![w].todo = @ \ {i},
                        ![w].mine = IF claim[i] = None THEN @ \cup {i} ELSE @,
                        ![w].refused = @ \/ claim[i] # None]
  /\ UNCHANGED <<account, link, reset, change, claim, trials, cleaner>>

\* Mutant: some of the identifiers are enough.
GrantedAny(w) == job[w].mine # {}

\* claim: every identifier's row was inserted by this call.
Granted(w) == ~job[w].refused

\* The rows inserted stay, whether or not a trial was granted.
ConfirmCommit(w) ==
  LET a == job[w].of IN
  /\ job[w].locked /\ job[w].todo = {}
  /\ account' = [account EXCEPT ![a].verified = TRUE, ![a].trial = @ \/ Granted(w)]
  /\ Consume(w)
  /\ claim' = [i \in Identity |-> IF i \in job[w].mine THEN a ELSE claim[i]]
  /\ trials' = [i \in Identity |->
       IF Granted(w) /\ i \in Identifiers(a, job[w].email) THEN trials[i] \cup {a} ELSE trials[i]]
  /\ Rest(w)
  /\ UNCHANGED <<reset, change, cleaner>>

\* A reset link proves the mailbox too: verified, and no trial.
ConfirmReset(a) ==
  /\ Open(a) /\ reset[a].to # None /\ ~Locked(a)
  /\ account' = [account EXCEPT ![a].verified = TRUE]
  /\ reset' = [reset EXCEPT ![a] = NoLink]
  /\ UNCHANGED <<link, change, claim, trials, job, cleaner>>

\* An admin hands an identity back.
Release(i) ==
  /\ claim[i] # None
  /\ claim' = [claim EXCEPT ![i] = None]
  /\ trials' = [trials EXCEPT ![i] = {}]
  /\ UNCHANGED <<account, link, reset, change, job, cleaner>>

-----------------------------------------------------------------------------
(* Changing the login e-mail *)

\* request: whether the address is taken is only looked at here to be friendly.
RequestChange(a, e) ==
  /\ Open(a) /\ account[a].email # e /\ ~Locked(a)
  /\ change' = [change EXCEPT ![a] = e]
  /\ UNCHANGED <<account, link, reset, claim, trials, job, cleaner>>

\* Mutant: the links mailed to the old address are left alive.
KeepLinks(old, a) == old

\* invalidateActiveEmailVerifications and invalidateActivePasswordResets.
RetireLinks(old, a) == [old EXCEPT ![a] = NoLink]

\* confirm.  A company that never verified and has had neither trial nor plan is left to
\* verify the new address, which starts its trial.
ConfirmChange(a) ==
  LET e == change[a] IN
  /\ Open(a) /\ e # None /\ ~Taken(e) /\ ~Locked(a)
  /\ account' = [account EXCEPT ![a].email = e,
                   ![a].verified = @ \/ account[a].trial \/ account[a].payment = "paid"
                                     \/ account[a].held = "comped"]
  /\ change' = [change EXCEPT ![a] = None]
  /\ link' = RetireLinks(link, a)
  /\ reset' = RetireLinks(reset, a)
  /\ job' = Late({w \in Worker : job[w].of = a /\ job[w].task \in {"link", "reset"}})
  /\ UNCHANGED <<claim, trials, cleaner>>

-----------------------------------------------------------------------------
(* Removing signups nobody verified *)

\* UNVERIFIED_SIGNUP_PREDICATE, of a signup a week old.
Abandoned(a) ==
  Open(a) /\ ~account[a].verified /\ account[a].held = "no" /\ account[a].payment = "none"

List ==
  /\ cleaner.listed = {} /\ cleaner.locked = None
  /\ cleaner' = [cleaner EXCEPT !.listed = {a \in Account : Abandoned(a)}]
  /\ cleaner.listed # cleaner'.listed
  /\ UNCHANGED <<account, link, reset, change, claim, trials, job>>

\* Mutant: the locked row is not checked again.
StillListed(a) == Open(a)

\* LOCK_UNVERIFIED_CANDIDATE_SQL has the same WHERE as the list.
StillAbandoned(a) == Abandoned(a)

LockCandidate(a) ==
  /\ a \in cleaner.listed /\ cleaner.locked = None /\ ~Locked(a)
  /\ cleaner' = [listed |-> cleaner.listed \ {a}, locked |-> IF StillAbandoned(a) THEN a ELSE None]
  /\ UNCHANGED <<account, link, reset, change, claim, trials, job>>

\* The deletes, in one transaction.  A payment that moved meanwhile survives its DELETE,
\* and its foreign key rolls the transaction back; so does a verified user.
Remove ==
  LET a == cleaner.locked IN
  /\ a # None
  /\ IF account[a].payment # "none" \/ account[a].verified THEN UNCHANGED <<account, link, reset, change, claim>>
     ELSE /\ account' = [account EXCEPT ![a].state = "gone"]
          /\ link' = [link EXCEPT ![a] = NoLink]
          /\ reset' = [reset EXCEPT ![a] = NoLink]
          /\ change' = [change EXCEPT ![a] = None]
          /\ UNCHANGED claim
  /\ cleaner' = [cleaner EXCEPT !.locked = None]
  /\ UNCHANGED <<trials, job>>

-----------------------------------------------------------------------------
(* Payments, admins and failure *)

\* A payment row, also one old enough to be deleted, is captured, activates the plan,
\* or comes to nothing.
Pay(a) ==
  /\ Open(a)
  /\ \E next \in CASE account[a].payment = "none"   -> {"moving"}
                   [] account[a].payment = "moving" -> {"paid", "none"}
                   [] account[a].payment = "paid"   -> {} :
       /\ next = "paid" => cleaner.locked # a
       /\ account' = [account EXCEPT ![a].payment = next]
  /\ UNCHANGED <<link, reset, change, claim, trials, job, cleaner>>

\* The company is banned, is comped, asks for its deletion, or that ends.
Hold(a) ==
  /\ Open(a) /\ cleaner.locked # a
  /\ \E h \in Holds : h # account[a].held /\ account' = [account EXCEPT ![a].held = h]
  /\ UNCHANGED <<link, reset, change, claim, trials, job, cleaner>>

\* A request fails or its process dies; a deadlock's victim is rolled back the same way.
Dies(w) ==
  /\ ~Idle(w)
  /\ Rest(w)
  /\ UNCHANGED <<account, link, reset, change, claim, trials, cleaner>>

CleanerDies ==
  /\ cleaner # [listed |-> {}, locked |-> None]
  /\ cleaner' = [listed |-> {}, locked |-> None]
  /\ UNCHANGED <<account, link, reset, change, claim, trials, job>>

Next ==
  \/ \E a \in Account :
       \/ \E e \in Email : (\E c \in Contact : Register(a, e, c)) \/ RequestChange(a, e)
       \/ ConfirmReset(a) \/ ConfirmChange(a) \/ LockCandidate(a) \/ Pay(a) \/ Hold(a)
  \/ \E w \in Worker :
       \/ \E a \in Account : ConfirmRead(w, a) \/ \E task \in {"link", "reset"} : LinkRead(w, a, task)
       \/ LinkIssue(w) \/ ConfirmLock(w) \/ ConfirmCommit(w) \/ Dies(w)
       \/ \E i \in Identity : Claim(w, i)
  \/ \E i \in Identity : Release(i)
  \/ List \/ Remove \/ CleanerDies

Spec == Init /\ [][Next]_vars

-----------------------------------------------------------------------------

Link == [to : Email \cup {None}, late : BOOLEAN]

\* Rows and requests have their types.
TypeOK ==
  /\ account \in [Account -> [state : {"unused", "open", "gone"}, email : Email \cup {None},
                              contact : Contact \cup {{}}, verified : BOOLEAN, trial : BOOLEAN,
                              payment : Payments, held : Holds]]
  /\ link \in [Account -> Link] /\ reset \in [Account -> Link]
  /\ change \in [Account -> Email \cup {None}]
  /\ claim \in [Identity -> Account \cup {None}]
  /\ trials \in [Identity -> SUBSET Account]
  /\ job \in [Worker -> [task : {"none", "link", "reset", "confirm"}, of : Account \cup {None},
                         email : Email \cup {None}, verified : BOOLEAN,
                         locked : BOOLEAN, late : BOOLEAN, todo : SUBSET Identity, mine : SUBSET Identity, refused : BOOLEAN]]
  /\ cleaner \in [listed : SUBSET Account, locked : Account \cup {None}]

\* "One trial per email address and per phone number, ever, across all companies"
\* (confirmEmailVerification), however verifications race, unless an admin releases it.
OneTrialPerIdentity == \A i \in Identity : Cardinality(trials[i]) <= 1

\* The cleanup removes no account that verified, pays, or is in an admin's hands
\* (removeCandidate: "stopped qualifying since the candidate list was read").
RemovedWasAbandoned ==
  \A a \in Account : account[a].state = "gone" =>
    ~account[a].verified /\ account[a].payment = "none" /\ account[a].held = "no"

\* "Whoever holds that mailbox must not be able to take the account back" (confirm): a
\* link lies in the mailbox of the login e-mail, or its request met the change half-way.
LinksFollowEmail ==
  \A a \in Account : \A l \in {link[a], reset[a]} :
    (l.to # None /\ ~l.late) => l.to = account[a].email

=============================================================================
