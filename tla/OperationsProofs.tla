-------------------------- MODULE OperationsProofs --------------------------
(***************************************************************************)
(* Signups, trials, links and the cleanup, for any number of accounts,     *)
(* addresses, identities and requests, and whatever the hash of an address *)
(* is; all it takes is that `None` is not an account.  Then the run        *)
(* `operations`: what is proved of each module holds of the behaviours the *)
(* run puts together.                                                      *)
(***************************************************************************)
EXTENDS MCOperations, TLAPS, FiniteSetTheorems

-----------------------------------------------------------------------------
(* The invariant *)

AccountRow == [state : {"unused", "open", "gone"}, email : Email \cup {None},
               contact : Contact \cup {{}}, verified : BOOLEAN, trial : BOOLEAN,
               payment : Payments, held : Holds]
Request    == [task : {"none", "link", "reset", "confirm"}, of : Account \cup {None},
               email : Email \cup {None}, verified : BOOLEAN, locked : BOOLEAN, late : BOOLEAN,
               todo : SUBSET Identity, mine : SUBSET Identity, refused : BOOLEAN]
Cleaner    == [listed : SUBSET Account, locked : Account \cup {None}]

\* TypeOK.
Rows ==
  /\ account \in [Account -> AccountRow]
  /\ link \in [Account -> Link] /\ reset \in [Account -> Link]
  /\ change \in [Account -> Email \cup {None}]
  /\ claim \in [Identity -> Account \cup {None}] /\ trials \in [Identity -> SUBSET Account]
  /\ job \in [Worker -> Request] /\ cleaner \in Cleaner

\* A request is about an account that exists; one for a link knows its address or is late.
\* One that holds the row's lock claims what is left of its identifiers, and has not been
\* overtaken by the cleanup.
Working ==
  \A w \in Worker :
    /\ job[w].task # "none" =>
         job[w].of \in Account /\ account[job[w].of].state # "unused" /\ job[w].email \in Email
    /\ job[w].task \in {"link", "reset"} /\ ~job[w].late => job[w].email = account[job[w].of].email
    /\ job[w].locked =>
         job[w].task = "confirm" /\ account[job[w].of].state = "open" /\ cleaner.locked # job[w].of
    /\ ~job[w].locked => job[w].todo = {} /\ job[w].mine = {}
    /\ job[w].locked /\ ~job[w].refused =>
         job[w].todo \cup job[w].mine = Identifiers(job[w].of, job[w].email)

\* What a request has inserted nobody else has, and a free identity has had no trial.
Claiming ==
  /\ \A w \in Worker : \A i \in job[w].mine : claim[i] = None
  /\ \A v, w \in Worker : \A i \in job[v].mine : i \in job[w].mine => v = w
  /\ \A i \in Identity : claim[i] = None => trials[i] = {}
  /\ \A i \in Identity : \A a, b \in trials[i] : a = b

\* The cleanup's lock keeps an admin from taking the account in hand.
Cleaning ==
  /\ cleaner.locked # None => account[cleaner.locked].state = "open" /\ account[cleaner.locked].held = "no"
  /\ RemovedWasAbandoned

\* Accounts have an address, and links from the time they do.
Mailing ==
  /\ \A a \in Account : /\ account[a].state = "unused" => link[a].to = None /\ reset[a].to = None
                        /\ account[a].state = "open" => account[a].email \in Email
  /\ LinksFollowEmail

Sound == Rows /\ Working /\ Claiming /\ Cleaning /\ Mailing

LEMMA RestingType ==
  /\ Resting \in Request /\ Resting.task = "none" /\ ~Resting.locked
  /\ Resting.todo = {} /\ Resting.mine = {}
  BY DEF Resting, Request

LEMMA UnusedType ==
  /\ Unused \in AccountRow /\ Unused.state = "unused"
  /\ NoLink \in Link /\ NoLink.to = None
  BY DEF Unused, AccountRow, NoLink, Link, Payments, Holds

LEMMA SoundInit == Init => Sound
<1> SUFFICES ASSUME Init PROVE Sound
  OBVIOUS
<1>1. cleaner \in Cleaner /\ cleaner.locked = None
  BY DEF Init, Cleaner
<1>2. Rows
  BY <1>1, RestingType, UnusedType DEF Init, Rows
<1>3. Working
  BY RestingType DEF Init, Working
<1>4. Claiming
  BY RestingType DEF Init, Claiming
<1>5. Cleaning /\ Mailing
  BY <1>1, UnusedType DEF Init, Cleaning, Mailing, RemovedWasAbandoned, LinksFollowEmail
<1> QED BY <1>2, <1>3, <1>4, <1>5 DEF Sound

-----------------------------------------------------------------------------
(* Requests *)

\* A request begins, or is over: its own record changes, and at most a link is used up.
LEMMA Begins ==
  ASSUME Sound, NEW w \in Worker, NEW r \in Request, job' = [job EXCEPT ![w] = r],
         ~r.locked, r.todo = {}, r.mine = {},
         r.task # "none" => /\ r.of \in Account /\ account[r.of].state # "unused"
                            /\ r.email \in Email,
         r.task \in {"link", "reset"} => r.email = account[r.of].email,
         link' = link \/ \E a \in Account : link' = [link EXCEPT ![a] = NoLink],
         UNCHANGED <<account, reset, change, claim, trials, cleaner>>
  PROVE  Sound'
<1>1. Rows'
  BY UnusedType DEF Sound, Rows
<1>2. \A v \in Worker : job'[v] = IF v = w THEN r ELSE job[v]
  BY DEF Sound, Rows
<1>3. Working'
  BY <1>2 DEF Sound, Working, Identifiers
<1>4. Claiming'
  BY <1>2 DEF Sound, Claiming
<1>5. Cleaning'
  BY DEF Sound, Cleaning, RemovedWasAbandoned
<1>6. \A a \in Account : link'[a] = link[a] \/ link'[a].to = None
  BY UnusedType DEF Sound, Rows
<1>7. Mailing'
  BY <1>6 DEF Sound, Mailing, LinksFollowEmail
<1> QED BY <1>1, <1>3, <1>4, <1>5, <1>7 DEF Sound

LEMMA LinkReads ==
  ASSUME Sound, NEW w \in Worker, NEW a \in Account, NEW task \in {"link", "reset"}, LinkRead(w, a, task)
  PROVE  Sound'
<1> DEFINE r == [Resting EXCEPT !.task = task, !.of = a, !.email = account[a].email]
<1>1. account[a].state = "open" /\ account[a].email \in Email
  BY DEF LinkRead, Open, Sound, Mailing
<1>2. /\ r \in Request /\ ~r.locked /\ r.todo = {} /\ r.mine = {}
      /\ r.of = a /\ r.email = account[a].email
  BY <1>1 DEF Resting, Request
<1>3. job' = [job EXCEPT ![w] = r] /\ UNCHANGED <<account, link, reset, change, claim, trials, cleaner>>
  BY DEF LinkRead
<1> HIDE DEF r
<1> QED BY <1>1, <1>2, <1>3, Begins

LEMMA ConfirmReads ==
  ASSUME Sound, NEW w \in Worker, NEW a \in Account, ConfirmRead(w, a)
  PROVE  Sound'
<1> DEFINE r == [Resting EXCEPT !.task = "confirm", !.of = a, !.email = account[a].email,
                                !.verified = account[a].verified]
<1>1. account[a].state = "open" /\ account[a].email \in Email /\ account[a].verified \in BOOLEAN
  BY DEF ConfirmRead, Open, Sound, Rows, Mailing, AccountRow
<1>2. /\ r \in Request /\ ~r.locked /\ r.todo = {} /\ r.mine = {}
      /\ r.task = "confirm" /\ r.of = a /\ r.email = account[a].email
  BY <1>1 DEF Resting, Request
<1>3. job' = [job EXCEPT ![w] = r] /\ UNCHANGED <<account, link, reset, change, claim, trials, cleaner>>
  BY DEF ConfirmRead
<1> HIDE DEF r
<1> QED BY <1>1, <1>2, <1>3, Begins

LEMMA RequestDies ==
  ASSUME Sound, NEW w \in Worker, Dies(w)
  PROVE  Sound'
  BY RestingType, Begins DEF Dies, Rest

\* The new link goes where the account's mail goes, or its request met an address change.
LEMMA LinkIssues ==
  ASSUME Sound, NEW w \in Worker, LinkIssue(w)
  PROVE  Sound'
<1>1. PICK a \in Account : a = job[w].of
  BY DEF LinkIssue, Sound, Working
<1>2. UNCHANGED <<account, change, claim, trials, cleaner>> /\ job[w].task \in {"link", "reset"}
  BY DEF LinkIssue
<1> DEFINE new == [to |-> job[w].email, late |-> job[w].late]
<1>3. /\ new \in Link /\ new.to = job[w].email /\ new.late = job[w].late
  BY DEF Sound, Rows, Request, Link
<1>4. \/ UNCHANGED <<link, reset>>
      \/ account[a].state = "open" /\ link' = [link EXCEPT ![a] = new] /\ UNCHANGED reset
      \/ account[a].state = "open" /\ reset' = [reset EXCEPT ![a] = new] /\ UNCHANGED link
  BY <1>1 DEF LinkIssue, Open
<1> HIDE DEF new
<1>5. PICK ws \in SUBSET Worker : job' = [Late(ws) EXCEPT ![w] = Resting]
  <2> DEFINE ws == {v \in Worker : job[w].task = "link" /\ Confirming(v, job[w].of)}
  <2>1. ws \in SUBSET Worker /\ job' = [Late(ws) EXCEPT ![w] = Resting]
    BY DEF LinkIssue
  <2> QED BY <2>1
<1>6. \A v \in Worker : /\ v = w => job'[v] = Resting
                        /\ v # w => job'[v] = job[v] \/ job'[v] = [job[v] EXCEPT !.late = TRUE]
  BY <1>5 DEF Late
<1>7. job' \in [Worker -> Request]
  <2>1. \A v \in Worker : job[v] \in Request /\ [job[v] EXCEPT !.late = TRUE] \in Request
    BY DEF Sound, Rows, Request
  <2> QED BY <1>5, <2>1, RestingType DEF Late
<1>8. Rows'
  BY <1>2, <1>3, <1>4, <1>7 DEF Sound, Rows
<1>9. \A v \in Worker : \/ v = w /\ job'[v] = Resting
                        \/ /\ job'[v].task = job[v].task /\ job'[v].of = job[v].of
                           /\ job'[v].email = job[v].email /\ job'[v].locked = job[v].locked
                           /\ job'[v].todo = job[v].todo /\ job'[v].mine = job[v].mine
                           /\ job'[v].refused = job[v].refused
                           /\ ~job'[v].late => ~job[v].late
  <2> SUFFICES ASSUME NEW v \in Worker, v # w, job'[v] = [job[v] EXCEPT !.late = TRUE]
               PROVE  /\ job'[v].task = job[v].task /\ job'[v].of = job[v].of
                      /\ job'[v].email = job[v].email /\ job'[v].locked = job[v].locked
                      /\ job'[v].todo = job[v].todo /\ job'[v].mine = job[v].mine
                      /\ job'[v].refused = job[v].refused
                      /\ job'[v].late
    BY <1>6
  <2>1. job[v] \in Request
    BY DEF Sound, Rows
  <2> QED BY <2>1 DEF Request
<1>10. Working'
  BY <1>2, <1>9, RestingType DEF Sound, Working, Identifiers
<1>11. Claiming'
  BY <1>2, <1>9, RestingType DEF Sound, Claiming
<1>12. Cleaning'
  BY <1>2 DEF Sound, Cleaning, RemovedWasAbandoned
<1>13. Mailing'
  <2>1. new.to # None /\ ~new.late => new.to = account[a].email
    BY <1>1, <1>2, <1>3 DEF Sound, Working
  <2>2. \A b \in Account : /\ link'[b] = link[b] \/ (b = a /\ link'[b] = new /\ account[a].state = "open")
                           /\ reset'[b] = reset[b] \/ (b = a /\ reset'[b] = new /\ account[a].state = "open")
    BY <1>4 DEF Sound, Rows
  <2> QED BY <1>2, <2>1, <2>2 DEF Sound, Mailing, LinksFollowEmail
<1> QED BY <1>8, <1>10, <1>11, <1>12, <1>13 DEF Sound

-----------------------------------------------------------------------------
(* Confirmations *)

LEMMA ConfirmLocks ==
  ASSUME Sound, NEW w \in Worker, ConfirmLock(w)
  PROVE  Sound'
<1>1. PICK a \in Account : a = job[w].of
  BY DEF ConfirmLock, Sound, Working
<1>2. /\ job[w].task = "confirm" /\ ~job[w].locked /\ cleaner.locked # a /\ job[w].email \in Email
      /\ UNCHANGED <<account, reset, change, claim, trials, cleaner>>
  BY <1>1 DEF ConfirmLock, Locked, Sound, Working
<1>3. CASE Consume(w) /\ Rest(w)
  <2>1. link' = link \/ link' = [link EXCEPT ![a] = NoLink]
    BY <1>1, <1>3 DEF Consume
  <2> QED BY <1>2, <1>3, <2>1, RestingType, Begins DEF Rest
<1>4. ASSUME account[a].state = "open", UNCHANGED link, NEW todo \in SUBSET Identity, NEW refused \in BOOLEAN,
             ~refused => todo = Identifiers(a, job[w].email),
             job' = [job EXCEPT ![w].locked = TRUE, ![w].todo = todo, ![w].refused = refused]
      PROVE  Sound'
  <2> DEFINE r == [job[w] EXCEPT !.locked = TRUE, !.todo = todo, !.refused = refused]
  <2>1. /\ r \in Request /\ r.task = "confirm" /\ r.of = a /\ r.email = job[w].email
        /\ r.locked /\ r.todo = todo /\ r.mine = job[w].mine /\ r.refused = refused
    BY <1>1, <1>2 DEF Sound, Rows, Request
  <2>2. job' = [job EXCEPT ![w] = r]
    BY <1>4 DEF Sound, Rows
  <2> HIDE DEF r
  <2>3. Rows'
    BY <1>2, <1>4, <2>1, <2>2 DEF Sound, Rows
  <2>4. \A v \in Worker : job'[v] = IF v = w THEN r ELSE job[v]
    BY <2>2 DEF Sound, Rows
  <2>5. job[w].mine = {}
    BY <1>2 DEF Sound, Working
  <2>6. Working'
    <3>1. /\ r.of \in Account /\ account[r.of].state = "open" /\ cleaner.locked # r.of
          /\ r.email \in Email /\ r.task = "confirm"
          /\ ~r.refused => r.todo \cup r.mine = Identifiers(r.of, r.email)
      BY <1>2, <1>4, <2>1, <2>5
    <3>2. account' = account /\ cleaner' = cleaner
      BY <1>2
    <3> QED BY <2>1, <2>4, <3>1, <3>2 DEF Sound, Working, Identifiers
  <2>7. Claiming'
    BY <1>2, <2>1, <2>4, <2>5 DEF Sound, Claiming
  <2>8. Cleaning' /\ Mailing'
    BY <1>2, <1>4 DEF Sound, Cleaning, Mailing, RemovedWasAbandoned, LinksFollowEmail
  <2> QED BY <2>3, <2>6, <2>7, <2>8 DEF Sound
<1>5. Identifiers(a, job[w].email) \in SUBSET Identity
  BY <1>2 DEF Sound, Rows, AccountRow, Identifiers, Identity
<1>6. CASE ~(Consume(w) /\ Rest(w))
  <2>1. PICK refused \in BOOLEAN : refused = ~TrialDue(a)
    OBVIOUS
  <2> DEFINE todo == IF TrialDue(a) THEN Identifiers(a, job[w].email) ELSE {}
  <2>2. /\ account[a].state = "open" /\ UNCHANGED link
        /\ job' = [job EXCEPT ![w].locked = TRUE, ![w].todo = todo, ![w].refused = refused]
    BY <1>1, <1>6, <2>1 DEF ConfirmLock, Open
  <2>3. todo \in SUBSET Identity /\ (~refused => todo = Identifiers(a, job[w].email))
    BY <1>5, <2>1
  <2> HIDE DEF todo
  <2> QED BY <1>4, <2>2, <2>3
<1> QED BY <1>3, <1>6

\* An identifier that a claim under way has, or that has a row, is refused.
LEMMA Claims ==
  ASSUME Sound, NEW w \in Worker, NEW i \in Identity, Claim(w, i)
  PROVE  Sound'
<1>1. /\ job[w].locked /\ i \in job[w].todo /\ \A v \in Worker \ {w} : i \notin job[v].mine
      /\ UNCHANGED <<account, link, reset, change, claim, trials, cleaner>>
  BY DEF Claim
<1>2. PICK mine \in SUBSET Identity :
        mine = IF claim[i] = None THEN job[w].mine \cup {i} ELSE job[w].mine
  BY DEF Sound, Rows, Request
<1>3. PICK refused \in BOOLEAN : refused <=> job[w].refused \/ claim[i] # None
  OBVIOUS
<1> DEFINE r == [job[w] EXCEPT !.todo = job[w].todo \ {i}, !.mine = mine, !.refused = refused]
<1>4. /\ r \in Request /\ r.task = job[w].task /\ r.of = job[w].of /\ r.email = job[w].email
      /\ r.late = job[w].late /\ r.locked /\ r.todo = job[w].todo \ {i} /\ r.mine = mine
      /\ r.refused = refused
  BY <1>1 DEF Sound, Rows, Request
<1>5. job' = [job EXCEPT ![w] = r]
  <2>1. refused = (job[w].refused \/ claim[i] # None)
    BY <1>3 DEF Sound, Rows, Request
  <2> QED BY <1>2, <2>1 DEF Claim, Sound, Rows
<1> HIDE DEF r
<1>6. Rows'
  BY <1>1, <1>4, <1>5 DEF Sound, Rows
<1>7. \A v \in Worker : job'[v] = IF v = w THEN r ELSE job[v]
  BY <1>5 DEF Sound, Rows
<1>8. Working'
  <2>1. ~refused => r.todo \cup r.mine = Identifiers(r.of, r.email)
    BY <1>1, <1>2, <1>3, <1>4 DEF Sound, Working
  <2> QED BY <1>1, <1>4, <1>7, <2>1 DEF Sound, Working, Identifiers
<1>9. Claiming'
  <2>1. \A j \in mine : claim[j] = None /\ \A v \in Worker \ {w} : j \notin job[v].mine
    BY <1>1, <1>2 DEF Sound, Claiming
  <2> QED BY <1>1, <1>4, <1>7, <2>1 DEF Sound, Claiming
<1>10. Cleaning' /\ Mailing'
  BY <1>1 DEF Sound, Cleaning, Mailing, RemovedWasAbandoned, LinksFollowEmail
<1> QED BY <1>6, <1>8, <1>9, <1>10 DEF Sound

\* A trial is granted on identities that had none, and that are claimed with it.
LEMMA ConfirmCommits ==
  ASSUME None \notin Account, Sound, NEW w \in Worker, ConfirmCommit(w)
  PROVE  Sound'
<1>1. PICK a \in Account : /\ a = job[w].of /\ account[a].state = "open" /\ cleaner.locked # a
                           /\ job[w].locked /\ job[w].todo = {}
  BY DEF ConfirmCommit, Sound, Working
<1>2. PICK entitled \in BOOLEAN : entitled <=> ~job[w].refused
  OBVIOUS
<1> DEFINE mine == job[w].mine
<1>0. PICK trial \in BOOLEAN : trial = (account[a].trial \/ Granted(w))
  OBVIOUS
<1>3. /\ account' = [account EXCEPT ![a] = [account[a] EXCEPT !.verified = TRUE, !.trial = trial]]
      /\ claim' = [i \in Identity |-> IF i \in mine THEN a ELSE claim[i]]
      /\ trials' = [i \in Identity |-> IF entitled /\ i \in Identifiers(a, job[w].email)
                                       THEN trials[i] \cup {a} ELSE trials[i]]
      /\ job' = [job EXCEPT ![w] = Resting]
      /\ link' = link \/ link' = [link EXCEPT ![a] = NoLink]
      /\ UNCHANGED <<reset, change, cleaner>>
  <2>1. account' = [account EXCEPT ![a] = [account[a] EXCEPT !.verified = TRUE, !.trial = trial]]
    BY <1>1, <1>0 DEF ConfirmCommit, Sound, Rows
  <2> QED BY <1>1, <1>2, <2>1 DEF ConfirmCommit, Consume, Rest, Granted
<1>4. entitled => mine = Identifiers(a, job[w].email)
  BY <1>1, <1>2 DEF Sound, Working
<1>5. \A b \in Account : /\ account'[b].state = account[b].state /\ account'[b].email = account[b].email
                         /\ account'[b].contact = account[b].contact
                         /\ account'[b].payment = account[b].payment /\ account'[b].held = account[b].held
                         /\ b # a => account'[b] = account[b]
  BY <1>3 DEF Sound, Rows, AccountRow
<1>6. Rows'
  <2>1. [account[a] EXCEPT !.verified = TRUE, !.trial = trial] \in AccountRow
    <3>1. account[a] \in AccountRow
      BY DEF Sound, Rows
    <3> QED BY <3>1 DEF AccountRow
  <2>2. account' \in [Account -> AccountRow]
    BY <1>3, <2>1 DEF Sound, Rows
  <2>3. claim' \in [Identity -> Account \cup {None}] /\ trials' \in [Identity -> SUBSET Account]
    BY <1>3 DEF Sound, Rows
  <2>4. link' \in [Account -> Link] /\ job' \in [Worker -> Request]
    BY <1>3, UnusedType, RestingType DEF Sound, Rows
  <2> QED BY <1>3, <2>2, <2>3, <2>4 DEF Sound, Rows
<1>7. \A v \in Worker : job'[v] = IF v = w THEN Resting ELSE job[v]
  BY <1>3 DEF Sound, Rows
<1>8. Working'
  <2> SUFFICES ASSUME NEW v \in Worker, v # w
               PROVE  /\ job'[v].task # "none" =>
                           /\ job'[v].of \in Account /\ account'[job'[v].of].state # "unused"
                           /\ job'[v].email \in Email
                      /\ job'[v].task \in {"link", "reset"} /\ ~job'[v].late =>
                           job'[v].email = account'[job'[v].of].email
                      /\ job'[v].locked => /\ job'[v].task = "confirm"
                                           /\ account'[job'[v].of].state = "open" /\ cleaner'.locked # job'[v].of
                      /\ ~job'[v].locked => job'[v].todo = {} /\ job'[v].mine = {}
                      /\ job'[v].locked /\ ~job'[v].refused =>
                           job'[v].todo \cup job'[v].mine = {Hash(job'[v].email)} \cup account'[job'[v].of].contact
    BY <1>7, RestingType DEF Working, Identifiers
  <2>1. job'[v] = job[v] /\ cleaner' = cleaner
    BY <1>3, <1>7
  <2>2. job[v].task # "none" => account'[job[v].of].contact = account[job[v].of].contact
    BY <1>5 DEF Sound, Working
  <2> QED BY <1>5, <2>1, <2>2 DEF Sound, Working, Identifiers
<1>9. Claiming'
  <2>1. \A v \in Worker \ {w} : job'[v] = job[v] /\ \A i \in job[v].mine : i \notin mine
    BY <1>7 DEF Sound, Claiming
  <2>2. \A v \in Worker : \A i \in job'[v].mine : claim'[i] = None
    BY <1>3, <1>7, <2>1, RestingType DEF Sound, Claiming, Rows, Request
  <2>3. \A u, v \in Worker : \A i \in job'[u].mine : i \in job'[v].mine => u = v
    BY <1>7, RestingType DEF Sound, Claiming
  <2>4. \A i \in Identity : i \in mine => trials[i] = {}
    BY DEF Sound, Claiming
  <2>5. \A i \in Identity : claim'[i] = None => i \notin mine /\ claim[i] = None
    BY <1>3
  <2>6. \A i \in Identity : \/ trials'[i] = trials[i]
                            \/ i \in mine /\ trials'[i] = {a}
    BY <1>3, <1>4, <2>4
  <2>7. \A i \in Identity : claim'[i] = None => trials'[i] = {}
    BY <2>5, <2>6 DEF Sound, Claiming
  <2>8. \A i \in Identity : \A b, c \in trials'[i] : b = c
    BY <2>6 DEF Sound, Claiming
  <2> QED BY <2>2, <2>3, <2>7, <2>8 DEF Claiming
<1>10. Cleaning'
  BY <1>1, <1>3, <1>5 DEF Sound, Cleaning, RemovedWasAbandoned, Rows, Cleaner
<1>11. Mailing'
  <2>1. \A b \in Account : link'[b] = link[b] \/ link'[b].to = None
    BY <1>3, UnusedType DEF Sound, Rows
  <2>2. reset' = reset
    BY <1>3
  <2> QED BY <1>5, <2>1, <2>2 DEF Sound, Mailing, LinksFollowEmail
<1> QED BY <1>6, <1>8, <1>9, <1>10, <1>11 DEF Sound

-----------------------------------------------------------------------------
(* Accounts, addresses and identities *)

\* A row is created, or changes in what neither its address nor its contact depends on.
LEMMA RowChanges ==
  ASSUME Sound, NEW a \in Account, NEW r \in AccountRow, account' = [account EXCEPT ![a] = r],
         \/ account[a].state = "unused" /\ r.email \in Email
         \/ /\ account[a].state = "open" /\ r.email = account[a].email /\ r.contact = account[a].contact
            /\ r.held = account[a].held \/ cleaner.locked # a,
         r.state = "open",
         reset' = reset \/ reset' = [reset EXCEPT ![a] = NoLink],
         UNCHANGED <<link, change, claim, trials, job, cleaner>>
  PROVE  Sound'
<1>1. \A b \in Account : account'[b] = IF b = a THEN r ELSE account[b]
  BY DEF Sound, Rows
<1>2. Rows'
  BY UnusedType DEF Sound, Rows
<1>3. Working'
  <2> SUFFICES ASSUME NEW w \in Worker
               PROVE  /\ job[w].task # "none" =>
                           /\ job[w].of \in Account /\ account'[job[w].of].state # "unused"
                           /\ job[w].email \in Email
                      /\ job[w].task \in {"link", "reset"} /\ ~job[w].late =>
                           job[w].email = account'[job[w].of].email
                      /\ job[w].locked => /\ job[w].task = "confirm"
                                          /\ account'[job[w].of].state = "open" /\ cleaner.locked # job[w].of
                      /\ ~job[w].locked => job[w].todo = {} /\ job[w].mine = {}
                      /\ job[w].locked /\ ~job[w].refused =>
                           job[w].todo \cup job[w].mine = {Hash(job[w].email)} \cup account'[job[w].of].contact
    BY DEF Working, Identifiers
  <2>1. job[w].task # "none" =>
          /\ account'[job[w].of].contact = account[job[w].of].contact
          /\ account'[job[w].of].email = account[job[w].of].email
          /\ account[job[w].of].state = "open" => account'[job[w].of].state = "open"
          /\ account'[job[w].of].state # "unused"
    BY <1>1 DEF Sound, Working
  <2> QED BY <2>1 DEF Sound, Working, Identifiers
<1>4. Claiming'
  BY DEF Sound, Claiming
<1>5. Cleaning'
  BY <1>1 DEF Sound, Cleaning, RemovedWasAbandoned, Rows, Cleaner
<1>6. Mailing'
  <2>1. \A b \in Account : reset'[b] = reset[b] \/ reset'[b].to = None
    BY UnusedType DEF Sound, Rows
  <2>2. \A b \in Account : \/ account'[b] = account[b]
                           \/ account'[b].state = "open" /\ account'[b].email \in Email
    BY <1>1 DEF Sound, Mailing
  <2>3. \A b \in Account : \/ link[b].to = None /\ reset[b].to = None
                           \/ account'[b].email = account[b].email
    BY <1>1 DEF Sound, Mailing
  <2> QED BY <2>1, <2>2, <2>3 DEF Sound, Mailing, LinksFollowEmail
<1> QED BY <1>2, <1>3, <1>4, <1>5, <1>6 DEF Sound

LEMMA Registers ==
  ASSUME Sound, NEW a \in Account, NEW e \in Email, NEW c \in Contact, Register(a, e, c)
  PROVE  Sound'
<1> DEFINE r == [Unused EXCEPT !.state = "open", !.email = e, !.contact = c]
<1>1. r \in AccountRow /\ r.email = e /\ r.state = "open"
  BY DEF Unused, AccountRow, Payments, Holds
<1>2. /\ account[a].state = "unused" /\ account' = [account EXCEPT ![a] = r]
      /\ UNCHANGED <<link, reset, change, claim, trials, job, cleaner>>
  BY DEF Register
<1> HIDE DEF r
<1> QED BY <1>1, <1>2, RowChanges

\* Payments and holds move, and a reset link proves the mailbox.
LEMMA RowMoves ==
  ASSUME Sound, NEW a \in Account, Pay(a) \/ Hold(a) \/ ConfirmReset(a)
  PROVE  Sound'
<1>1. account[a] \in AccountRow /\ account[a].state = "open"
  BY DEF Sound, Rows, Pay, Hold, ConfirmReset, Open
<1>2. UNCHANGED <<link, change, claim, trials, job, cleaner>>
  BY DEF Pay, Hold, ConfirmReset
<1>3. CASE Pay(a)
  <2>1. PICK next \in Payments : account' = [account EXCEPT ![a].payment = next]
    BY <1>1, <1>3 DEF Pay, Payments, AccountRow
  <2> DEFINE r == [account[a] EXCEPT !.payment = next]
  <2>2. /\ r \in AccountRow /\ r.state = "open" /\ r.email = account[a].email
        /\ r.contact = account[a].contact /\ r.held = account[a].held
    BY <1>1 DEF AccountRow
  <2>3. account' = [account EXCEPT ![a] = r] /\ UNCHANGED reset
    BY <1>3, <2>1 DEF Pay, Sound, Rows
  <2> HIDE DEF r
  <2> QED BY <1>1, <1>2, <2>2, <2>3, RowChanges
<1>4. CASE Hold(a)
  <2>1. PICK h \in Holds : account' = [account EXCEPT ![a].held = h]
    BY <1>4 DEF Hold
  <2> DEFINE r == [account[a] EXCEPT !.held = h]
  <2>2. /\ r \in AccountRow /\ r.state = "open" /\ r.email = account[a].email
        /\ r.contact = account[a].contact
    BY <1>1 DEF AccountRow
  <2>3. account' = [account EXCEPT ![a] = r] /\ UNCHANGED reset /\ cleaner.locked # a
    BY <1>4, <2>1 DEF Hold, Sound, Rows
  <2> HIDE DEF r
  <2> QED BY <1>1, <1>2, <2>2, <2>3, RowChanges
<1>5. CASE ConfirmReset(a)
  <2> DEFINE r == [account[a] EXCEPT !.verified = TRUE]
  <2>1. /\ r \in AccountRow /\ r.state = "open" /\ r.email = account[a].email
        /\ r.contact = account[a].contact /\ r.held = account[a].held
    BY <1>1 DEF AccountRow
  <2>2. account' = [account EXCEPT ![a] = r] /\ reset' = [reset EXCEPT ![a] = NoLink]
    BY <1>5 DEF ConfirmReset, Sound, Rows
  <2> HIDE DEF r
  <2> QED BY <1>1, <1>2, <2>1, <2>2, RowChanges
<1> QED BY <1>3, <1>4, <1>5

LEMMA Releases ==
  ASSUME Sound, NEW i \in Identity, Release(i)
  PROVE  Sound'
<1>1. Rows'
  BY DEF Release, Sound, Rows
<1>2. Working' /\ Cleaning' /\ Mailing'
  BY DEF Release, Sound, Working, Identifiers, Cleaning, Mailing, RemovedWasAbandoned, LinksFollowEmail
<1>3. Claiming'
  <2>1. \A j \in Identity : \/ claim'[j] = claim[j] /\ trials'[j] = trials[j]
                            \/ claim'[j] = None /\ trials'[j] = {}
    BY DEF Release, Sound, Rows
  <2>2. \A w \in Worker : job[w].mine \subseteq Identity /\ job' = job
    BY DEF Release, Sound, Rows, Request
  <2> QED BY <2>1, <2>2 DEF Sound, Claiming
<1> QED BY <1>1, <1>2, <1>3 DEF Sound

LEMMA RequestsChange ==
  ASSUME Sound, NEW a \in Account, NEW e \in Email, RequestChange(a, e)
  PROVE  Sound'
<1>1. Rows'
  BY DEF RequestChange, Sound, Rows
<1> QED BY <1>1 DEF RequestChange, Sound, Working, Identifiers, Claiming, Cleaning, Mailing,
                    RemovedWasAbandoned, LinksFollowEmail

\* Whoever asked for a link before the change is late, and the links of the old address go.
LEMMA ConfirmsChange ==
  ASSUME Sound, NEW a \in Account, ConfirmChange(a)
  PROVE  Sound'
<1>1. PICK e \in Email : e = change[a]
  BY DEF ConfirmChange, Sound, Rows
<1>2. PICK v \in BOOLEAN : v = (account[a].verified \/ account[a].trial \/ account[a].payment = "paid"
                                                    \/ account[a].held = "comped")
  OBVIOUS
<1> DEFINE r == [account[a] EXCEPT !.email = e, !.verified = v]
<1>3. /\ account' = [account EXCEPT ![a] = r] /\ account[a].state = "open"
      /\ change' = [change EXCEPT ![a] = None]
      /\ link' = [link EXCEPT ![a] = NoLink] /\ reset' = [reset EXCEPT ![a] = NoLink]
      /\ UNCHANGED <<claim, trials, cleaner>>
  BY <1>1, <1>2 DEF ConfirmChange, RetireLinks, Open, Sound, Rows
<1>4. /\ r \in AccountRow /\ r.state = "open" /\ r.email = e
      /\ r.contact = account[a].contact /\ r.held = account[a].held
  <2>1. account[a] \in AccountRow
    BY DEF Sound, Rows
  <2> QED BY <1>3, <2>1 DEF AccountRow
<1> HIDE DEF r
<1>5. \A b \in Account : account'[b] = IF b = a THEN r ELSE account[b]
  BY <1>3 DEF Sound, Rows
<1>6. PICK ws \in SUBSET Worker :
        /\ ws = {w \in Worker : job[w].of = a /\ job[w].task \in {"link", "reset"}}
        /\ job' = Late(ws)
  BY DEF ConfirmChange
<1>7. \A w \in Worker : /\ job[w] \in Request /\ [job[w] EXCEPT !.late = TRUE] \in Request
                        /\ job'[w] = IF w \in ws THEN [job[w] EXCEPT !.late = TRUE] ELSE job[w]
  BY <1>6 DEF Sound, Rows, Request, Late
<1>8. Rows'
  <2>1. job' \in [Worker -> Request]
    BY <1>6, <1>7 DEF Late
  <2> QED BY <1>3, <1>4, <2>1, UnusedType DEF Sound, Rows
<1>9. \A w \in Worker : /\ job'[w].task = job[w].task /\ job'[w].of = job[w].of
                        /\ job'[w].email = job[w].email /\ job'[w].locked = job[w].locked
                        /\ job'[w].todo = job[w].todo /\ job'[w].mine = job[w].mine
                        /\ job'[w].refused = job[w].refused
                        /\ ~job'[w].late => w \notin ws /\ ~job[w].late
  <2> SUFFICES ASSUME NEW w \in Worker, w \in ws
               PROVE  /\ job'[w].task = job[w].task /\ job'[w].of = job[w].of
                      /\ job'[w].email = job[w].email /\ job'[w].locked = job[w].locked
                      /\ job'[w].todo = job[w].todo /\ job'[w].mine = job[w].mine
                      /\ job'[w].refused = job[w].refused /\ job'[w].late
    BY <1>7
  <2>1. job[w] \in Request /\ job'[w] = [job[w] EXCEPT !.late = TRUE]
    BY <1>7
  <2> QED BY <2>1 DEF Request
<1>10. Working'
  <2> SUFFICES ASSUME NEW w \in Worker
               PROVE  /\ job[w].task # "none" =>
                           /\ job[w].of \in Account /\ account'[job[w].of].state # "unused"
                           /\ job[w].email \in Email
                      /\ job[w].task \in {"link", "reset"} /\ ~job'[w].late =>
                           job[w].email = account'[job[w].of].email
                      /\ job[w].locked => /\ job[w].task = "confirm"
                                          /\ account'[job[w].of].state = "open" /\ cleaner.locked # job[w].of
                      /\ ~job[w].locked => job[w].todo = {} /\ job[w].mine = {}
                      /\ job[w].locked /\ ~job[w].refused =>
                           job[w].todo \cup job[w].mine = {Hash(job[w].email)} \cup account'[job[w].of].contact
    BY <1>3, <1>9 DEF Working, Identifiers
  <2>1. job[w].task # "none" =>
          /\ account'[job[w].of].contact = account[job[w].of].contact
          /\ account'[job[w].of].state = account[job[w].of].state
          /\ job[w].of # a => account'[job[w].of].email = account[job[w].of].email
    BY <1>3, <1>4, <1>5 DEF Sound, Working
  <2>2. job[w].task \in {"link", "reset"} /\ ~job'[w].late => job[w].of # a /\ ~job[w].late
    BY <1>6, <1>9
  <2> QED BY <2>1, <2>2 DEF Sound, Working, Identifiers
<1>11. Claiming'
  BY <1>3, <1>9 DEF Sound, Claiming
<1>12. Cleaning'
  BY <1>3, <1>4, <1>5 DEF Sound, Cleaning, RemovedWasAbandoned, Rows, Cleaner
<1>13. Mailing'
  <2>1. \A b \in Account : \/ account'[b] = account[b] /\ link'[b] = link[b] /\ reset'[b] = reset[b]
                           \/ /\ link'[b].to = None /\ reset'[b].to = None
                              /\ account'[b].state = "open" /\ account'[b].email \in Email
    BY <1>3, <1>4, <1>5, UnusedType DEF Sound, Rows
  <2> QED BY <2>1 DEF Sound, Mailing, LinksFollowEmail
<1> QED BY <1>8, <1>10, <1>11, <1>12, <1>13 DEF Sound

-----------------------------------------------------------------------------
(* The cleanup *)

\* Only the cleanup's own record changes; what it locks still qualifies and is nobody's.
LEMMA CleanerMoves ==
  ASSUME Sound, NEW listed \in SUBSET Account, NEW locked \in Account \cup {None},
         cleaner' = [listed |-> listed, locked |-> locked],
         \/ locked = None \/ locked = cleaner.locked
         \/ /\ account[locked].state = "open" /\ account[locked].held = "no"
            /\ \A w \in Worker : job[w].locked => job[w].of # locked,
         UNCHANGED <<account, link, reset, change, claim, trials, job>>, None \notin Account
  PROVE  Sound'
<1>1. cleaner' \in Cleaner /\ cleaner'.locked = locked
  BY DEF Cleaner
<1>2. Rows'
  BY <1>1 DEF Sound, Rows
<1>3. Working'
  BY <1>1 DEF Sound, Working, Identifiers
<1>4. Claiming' /\ Cleaning' /\ Mailing'
  BY <1>1 DEF Sound, Claiming, Cleaning, Mailing, RemovedWasAbandoned, LinksFollowEmail
<1> QED BY <1>2, <1>3, <1>4 DEF Sound

LEMMA CleanerSteps ==
  ASSUME None \notin Account, Sound, List \/ (\E a \in Account : LockCandidate(a)) \/ CleanerDies
  PROVE  Sound'
<1>1. cleaner \in Cleaner
  BY DEF Sound, Rows
<1>2. CASE List
  <2>1. cleaner' = [listed |-> {a \in Account : Abandoned(a)}, locked |-> cleaner.locked]
    BY <1>1, <1>2 DEF List, Cleaner
  <2> QED BY <1>1, <1>2, <2>1, CleanerMoves DEF List, Cleaner
<1>3. ASSUME NEW a \in Account, LockCandidate(a) PROVE Sound'
  <2>1. PICK locked \in Account \cup {None} : locked = IF StillAbandoned(a) THEN a ELSE None
    OBVIOUS
  <2>2. cleaner' = [listed |-> cleaner.listed \ {a}, locked |-> locked]
        /\ UNCHANGED <<account, link, reset, change, claim, trials, job>>
    BY <1>3, <2>1 DEF LockCandidate
  <2>3. \A w \in Worker : job[w].locked => job[w].of # a
    BY <1>3 DEF LockCandidate, Locked
  <2>4. StillAbandoned(a) => account[a].state = "open" /\ account[a].held = "no"
    BY DEF StillAbandoned, Abandoned, Open
  <2>5. cleaner.listed \ {a} \in SUBSET Account
    BY <1>1 DEF Cleaner
  <2> QED BY <2>1, <2>2, <2>3, <2>4, <2>5, CleanerMoves
<1>4. CASE CleanerDies
  BY <1>4, CleanerMoves DEF CleanerDies
<1> QED BY <1>2, <1>3, <1>4

\* Nobody holds the row's lock beside the cleanup, so what it removes it had checked.
LEMMA Removes ==
  ASSUME None \notin Account, Sound, Remove
  PROVE  Sound'
<1>1. PICK a \in Account : a = cleaner.locked
  BY DEF Remove, Sound, Rows, Cleaner
<1>2. cleaner' = [listed |-> cleaner.listed, locked |-> None] /\ cleaner.listed \in SUBSET Account
  BY DEF Remove, Sound, Rows, Cleaner
<1>3. account[a].state = "open" /\ account[a].held = "no"
  BY <1>1 DEF Sound, Cleaning
<1>4. CASE UNCHANGED <<account, link, reset, change, claim>>
  BY <1>2, <1>4, CleanerMoves DEF Remove
<1>5. CASE ~UNCHANGED <<account, link, reset, change, claim>>
  <2>1. /\ account[a].payment = "none" /\ ~account[a].verified
        /\ account' = [account EXCEPT ![a].state = "gone"]
        /\ link' = [link EXCEPT ![a] = NoLink] /\ reset' = [reset EXCEPT ![a] = NoLink]
        /\ change' = [change EXCEPT ![a] = None] /\ UNCHANGED <<claim, trials, job>>
    BY <1>1, <1>5 DEF Remove
  <2> DEFINE r == [account[a] EXCEPT !.state = "gone"]
  <2>2. /\ r \in AccountRow /\ r.state = "gone" /\ r.email = account[a].email
        /\ r.contact = account[a].contact /\ r.held = "no" /\ r.payment = "none" /\ ~r.verified
    <3>1. account[a] \in AccountRow
      BY DEF Sound, Rows
    <3> QED BY <1>3, <2>1, <3>1 DEF AccountRow
  <2>3. account' = [account EXCEPT ![a] = r]
    BY <2>1 DEF Sound, Rows
  <2> HIDE DEF r
  <2>4. \A b \in Account : account'[b] = IF b = a THEN r ELSE account[b]
    BY <2>3 DEF Sound, Rows
  <2>5. cleaner' \in Cleaner /\ cleaner'.locked = None
    BY <1>2 DEF Cleaner
  <2>6. Rows'
    BY <2>1, <2>2, <2>3, <2>5, UnusedType DEF Sound, Rows
  <2>7. Working'
    <3> SUFFICES ASSUME NEW w \in Worker
                 PROVE  /\ job[w].task # "none" =>
                             /\ job[w].of \in Account /\ account'[job[w].of].state # "unused"
                             /\ job[w].email \in Email
                        /\ job[w].task \in {"link", "reset"} /\ ~job[w].late =>
                             job[w].email = account'[job[w].of].email
                        /\ job[w].locked => /\ job[w].task = "confirm"
                                            /\ account'[job[w].of].state = "open" /\ job[w].of # None
                        /\ ~job[w].locked => job[w].todo = {} /\ job[w].mine = {}
                        /\ job[w].locked /\ ~job[w].refused =>
                             job[w].todo \cup job[w].mine = {Hash(job[w].email)} \cup account'[job[w].of].contact
      BY <2>1, <2>5 DEF Working, Identifiers
    <3>1. job[w].locked => job[w].of # a
      BY <1>1 DEF Sound, Working
    <3>2. job[w].task # "none" =>
            /\ account'[job[w].of].contact = account[job[w].of].contact
            /\ account'[job[w].of].email = account[job[w].of].email
            /\ account'[job[w].of].state # "unused"
            /\ job[w].of # a => account'[job[w].of].state = account[job[w].of].state
      BY <2>2, <2>4 DEF Sound, Working
    <3> QED BY <3>1, <3>2 DEF Sound, Working, Identifiers
  <2>8. Claiming'
    BY <2>1 DEF Sound, Claiming
  <2>9. Cleaning'
    BY <2>2, <2>4, <2>5 DEF Sound, Cleaning, RemovedWasAbandoned
  <2>10. Mailing'
    <3>1. \A b \in Account : \/ account'[b] = account[b] /\ link'[b] = link[b] /\ reset'[b] = reset[b]
                             \/ /\ link'[b].to = None /\ reset'[b].to = None
                                /\ account'[b].state = "gone"
      BY <2>1, <2>2, <2>4, UnusedType DEF Sound, Rows
    <3> QED BY <3>1 DEF Sound, Mailing, LinksFollowEmail
  <2> QED BY <2>6, <2>7, <2>8, <2>9, <2>10 DEF Sound
<1> QED BY <1>4, <1>5

-----------------------------------------------------------------------------
(* What signing up promises *)

LEMMA SoundStep ==
  ASSUME None \notin Account, Sound, [Next]_vars
  PROVE  Sound'
<1>1. CASE UNCHANGED vars
  <2>1. UNCHANGED <<account, link, reset, change, claim, trials, job, cleaner>>
    BY <1>1 DEF vars
  <2> QED BY <2>1 DEF Sound, Rows, Working, Identifiers, Claiming, Cleaning, Mailing,
                      RemovedWasAbandoned, LinksFollowEmail
<1>2. ASSUME NEW w \in Worker,
             LinkIssue(w) \/ ConfirmLock(w) \/ ConfirmCommit(w) \/ Dies(w)
      PROVE  Sound'
  BY <1>2, LinkIssues, ConfirmLocks, ConfirmCommits, RequestDies
<1>3. ASSUME List \/ (\E a \in Account : LockCandidate(a)) \/ Remove \/ CleanerDies PROVE Sound'
  BY <1>3, CleanerSteps, Removes
<1> QED
  BY <1>1, <1>2, <1>3, LinkReads, ConfirmReads, Claims, Registers, RowMoves, Releases,
     RequestsChange, ConfirmsChange DEF Next

LEMMA RegistrationInvariant == ASSUME None \notin Account PROVE Spec => []Sound
  BY SoundInit, SoundStep, PTL DEF Spec

\* Rows and requests keep their types.
THEOREM TypeCorrect == ASSUME None \notin Account PROVE Spec => []TypeOK
<1>1. Sound => TypeOK
  BY DEF Sound, Rows, TypeOK, AccountRow, Request, Cleaner
<1> QED BY <1>1, RegistrationInvariant, PTL

\* One free trial per address and per phone number, however verifications race, unless an
\* admin releases the identity (confirmEmailVerification, trial identity claim).
THEOREM TrialIsOnce == ASSUME None \notin Account PROVE Spec => []OneTrialPerIdentity
<1>1. Sound => OneTrialPerIdentity
  <2> SUFFICES ASSUME Sound, NEW i \in Identity PROVE Cardinality(trials[i]) <= 1
    BY DEF OneTrialPerIdentity
  <2>1. trials[i] = {} \/ \E a : trials[i] = {a}
    BY DEF Sound, Claiming
  <2> DEFINE S == trials[i]
  <2> HIDE DEF S
  <2>2. S = {} \/ \E a : S = {a}
    BY <2>1 DEF S
  <2>3. Cardinality(S) <= 1
    <3>1. CASE S = {}
      BY <3>1, FS_EmptySet
    <3>2. ASSUME NEW a, S = {a} PROVE Cardinality(S) = 1
      BY <3>2, FS_Singleton
    <3> QED BY <2>2, <3>1, <3>2
  <2> QED BY <2>3 DEF S
<1> QED BY <1>1, RegistrationInvariant, PTL

\* The nightly cleanup removes abandoned signups only (removeCandidate).
THEOREM OnlyAbandonedRemoved == ASSUME None \notin Account PROVE Spec => []RemovedWasAbandoned
<1>1. Sound => RemovedWasAbandoned
  BY DEF Sound, Cleaning
<1> QED BY <1>1, RegistrationInvariant, PTL

\* Links lie in the mailbox of the login address, or their request met its change half-way
\* (EmailChangeService.confirm).
THEOREM LinksStayWithEmail == ASSUME None \notin Account PROVE Spec => []LinksFollowEmail
<1>1. Sound => LinksFollowEmail
  BY DEF Sound, Mailing
<1> QED BY <1>1, RegistrationInvariant, PTL
-----------------------------------------------------------------------------
(* The run `operations`: in each focus its behaviours are behaviours of the        *)
(* module in focus, so what is proved of the module holds in the run.               *)

\* One sale beside the admin, the subscriptions and the draw; and several sales.
Money == INSTANCE PlansProofs WITH
  Plan <- Two, Price <- Two, Sale <- One, Purchase <- {}, Currency <- {}, USD <- None,
  Sub <- {s1, s2}, NoSub <- None, MaxChanges <- 2, MaxErrors <- 1, MaySuspend <- TRUE,
  MayBan <- FALSE, Customer <- Two, MaxSpins <- 1,
  notices <- stateNotices, changes <- paypalChanges, status <- row, companyBanned <- barred,
  row <- None, active <- None, archived <- None, popular <- None, currency <- None,
  switched <- None, checkout <- None, txn <- None
Sales == INSTANCE PlansProofs WITH
  Plan <- Two, Price <- Two, Sale <- Worker, Worker <- One, Purchase <- {}, Currency <- {}, USD <- None,
  Sub <- {s1, s2}, NoSub <- None, MaxChanges <- 2, MaxErrors <- 1, MaySuspend <- TRUE,
  MayBan <- FALSE, Customer <- Two, MaxSpins <- 1,
  notices <- stateNotices, changes <- paypalChanges, status <- row, companyBanned <- barred,
  row <- None, active <- None, archived <- None, popular <- None, currency <- None,
  switched <- None, checkout <- None, txn <- None

\* The three instances of Notices and the two of Crons; SmtpHealth is the same in all.
First == INSTANCE CronsProofs WITH
  Instance <- Two, Job <- DOMAIN Alike, Key <- Alike, Kind <- {"subscription_ended"}, Report <- {},
  Attempts <- 2, MaxDay <- 2, MaxUnclear <- 2, Sender <- One, TTL <- 2, Hour <- 1, job <- mailJob
Second == INSTANCE CronsProofs WITH
  Instance <- Two, Job <- DOMAIN Plain, Key <- Plain, Kind <- {"trial_ending"}, Report <- One,
  Attempts <- 2, MaxDay <- 2, MaxUnclear <- 1, Sender <- One, TTL <- 2, Hour <- 1, job <- mailJob
Third == INSTANCE CronsProofs WITH
  Instance <- Two, Job <- DOMAIN Plain, Key <- Plain, Kind <- {"trial_ended", "subscription_ending"},
  Report <- {}, Attempts <- 2, MaxDay <- 2, MaxUnclear <- 1, Sender <- One, TTL <- 2, Hour <- 1, job <- mailJob

\* None is nothing else, and a report is not a notice.
Distinct ==
  /\ None \notin Account /\ None \notin {s1, s2}
  /\ None \notin Money!SaleRow /\ None \notin Money!Draw!Pool /\ None \notin First!Smtp!Outcome
  /\ None \notin Two \X DOMAIN Alike /\ None \notin Two \X DOMAIN Plain
  /\ m1 \notin Second!N!Notice

\* The instances of the run are those the theorems are about.
LEMMA SameDraw ==
  /\ Draw!Init => Money!Draw!Init
  /\ [Draw!Next]_(Draw!vars) => [Money!Draw!Next]_(Money!Draw!vars)
  /\ Money!Draw!TypeOK => Draw!TypeOK
  /\ Money!Draw!SpinsWithinBudget => Draw!SpinsWithinBudget
  BY Zenon DEF Draw!MapThenSumSet, Money!Draw!MapThenSumSet, Draw!MapThenFoldSet, Money!Draw!MapThenFoldSet,
     Draw!vars, Money!Draw!vars, Draw!Free, Money!Draw!Free, Draw!Base, Money!Draw!Base, Draw!Pool,
     Money!Draw!Pool, Draw!base, Money!Draw!base, Draw!Bought, Money!Draw!Bought, Draw!Init, Money!Draw!Init,
     Draw!OpenPeriod, Money!Draw!OpenPeriod, Draw!OnTrial, Money!Draw!OnTrial, Draw!Spins, Money!Draw!Spins,
     Draw!Left, Money!Draw!Left, Draw!Remaining, Money!Draw!Remaining, Draw!LockFree, Money!Draw!LockFree,
     Draw!Grants, Money!Draw!Grants, Draw!Restart, Money!Draw!Restart, Draw!Comp, Money!Draw!Comp,
     Draw!Adjust, Money!Draw!Adjust, Draw!Setting, Money!Draw!Setting, Draw!Trial, Money!Draw!Trial,
     Draw!Plan, Money!Draw!Plan, Draw!End, Money!Draw!End, Draw!Ban, Money!Draw!Ban, Draw!Buy,
     Money!Draw!Buy, Draw!Captured, Money!Draw!Captured, Draw!Next1, Money!Draw!Next1, Draw!SpinLock,
     Money!Draw!SpinLock, Draw!Eligible, Money!Draw!Eligible, Draw!SpinWrite, Money!Draw!SpinWrite,
     Draw!SpinDies, Money!Draw!SpinDies, Draw!Enter, Money!Draw!Enter, Draw!Next, Money!Draw!Next,
     Draw!Count, Money!Draw!Count, Draw!TypeOK, Money!Draw!TypeOK, Draw!SpinsWithinBudget,
     Money!Draw!SpinsWithinBudget

LEMMA SameEnded ==
  /\ Ended!Init => First!N!Init
  /\ [Ended!Next]_(Ended!vars) => [First!N!Next]_(First!N!vars)
  /\ First!N!TypeOK => Ended!TypeOK
  /\ First!N!NoticeKept => Ended!NoticeKept
  /\ First!N!NoticedOnce => Ended!NoticedOnce
  BY Zenon DEF
     Ended!vars, First!N!vars, Ended!Clock, First!N!Clock, Ended!Day, First!N!Day, Ended!Notice,
     First!N!Notice, Ended!Mail, First!N!Mail, Ended!clock, First!N!clock, Ended!NoJob, First!N!NoJob,
     Ended!Init, First!N!Init, Ended!Near, First!N!Near, Ended!Concerned, First!N!Concerned, Ended!Due,
     First!N!Due, Ended!Unmarked, First!N!Unmarked, Ended!Claim, First!N!Claim, Ended!Add, First!N!Add,
     Ended!Enqueue, First!N!Enqueue, Ended!ReleaseClaim, First!N!ReleaseClaim, Ended!EnqueueFails,
     First!N!EnqueueFails, Ended!Reported, First!N!Reported, Ended!Queued, First!N!Queued, Ended!Send,
     First!N!Send, Ended!Exhausted, First!N!Exhausted, Ended!Retried, First!N!Retried, Ended!Listener,
     First!N!Listener, Ended!Failed, First!N!Failed, Ended!Stalled, First!N!Stalled, Ended!Attempt,
     First!N!Attempt, Ended!Unclear, First!N!Unclear, Ended!Release, First!N!Release, Ended!Remove,
     First!N!Remove, Ended!Forget, First!N!Forget, Ended!Crash, First!N!Crash, Ended!Midnight,
     First!N!Midnight, Ended!New, First!N!New, Ended!Extend, First!N!Extend, Ended!Refund, First!N!Refund,
     Ended!OwnerChanges, First!N!OwnerChanges, Ended!Next, First!N!Next, Ended!TypeOK, First!N!TypeOK,
     Ended!NoticeKept, First!N!NoticeKept, Ended!NoticedOnce, First!N!NoticedOnce

LEMMA SameEnding ==
  /\ Ending!Init => Second!N!Init
  /\ [Ending!Next]_(Ending!vars) => [Second!N!Next]_(Second!N!vars)
  /\ Second!N!TypeOK => Ending!TypeOK
  /\ Second!N!NoticeKept => Ending!NoticeKept
  /\ Second!N!NoticedOnce => Ending!NoticedOnce
  BY Zenon DEF
     Ending!vars, Second!N!vars, Ending!Clock, Second!N!Clock, Ending!Day, Second!N!Day, Ending!Notice,
     Second!N!Notice, Ending!Mail, Second!N!Mail, Ending!clock, Second!N!clock, Ending!NoJob, Second!N!NoJob,
     Ending!Init, Second!N!Init, Ending!Near, Second!N!Near, Ending!Concerned, Second!N!Concerned,
     Ending!Due, Second!N!Due, Ending!Unmarked, Second!N!Unmarked, Ending!Claim, Second!N!Claim, Ending!Add,
     Second!N!Add, Ending!Enqueue, Second!N!Enqueue, Ending!ReleaseClaim, Second!N!ReleaseClaim,
     Ending!EnqueueFails, Second!N!EnqueueFails, Ending!Reported, Second!N!Reported, Ending!Queued,
     Second!N!Queued, Ending!Send, Second!N!Send, Ending!Exhausted, Second!N!Exhausted, Ending!Retried,
     Second!N!Retried, Ending!Listener, Second!N!Listener, Ending!Failed, Second!N!Failed, Ending!Stalled,
     Second!N!Stalled, Ending!Attempt, Second!N!Attempt, Ending!Unclear, Second!N!Unclear, Ending!Release,
     Second!N!Release, Ending!Remove, Second!N!Remove, Ending!Forget, Second!N!Forget, Ending!Crash,
     Second!N!Crash, Ending!Midnight, Second!N!Midnight, Ending!New, Second!N!New, Ending!Extend,
     Second!N!Extend, Ending!Refund, Second!N!Refund, Ending!OwnerChanges, Second!N!OwnerChanges,
     Ending!Next, Second!N!Next, Ending!TypeOK, Second!N!TypeOK, Ending!NoticeKept, Second!N!NoticeKept,
     Ending!NoticedOnce, Second!N!NoticedOnce

LEMMA SameClocks ==
  /\ Clocks!Init => Third!N!Init
  /\ [Clocks!Next]_(Clocks!vars) => [Third!N!Next]_(Third!N!vars)
  /\ Third!N!TypeOK => Clocks!TypeOK
  /\ Third!N!NoticeKept => Clocks!NoticeKept
  /\ Third!N!NoticedOnce => Clocks!NoticedOnce
  BY Zenon DEF
     Clocks!vars, Third!N!vars, Clocks!Clock, Third!N!Clock, Clocks!Day, Third!N!Day, Clocks!Notice,
     Third!N!Notice, Clocks!Mail, Third!N!Mail, Clocks!clock, Third!N!clock, Clocks!NoJob, Third!N!NoJob,
     Clocks!Init, Third!N!Init, Clocks!Near, Third!N!Near, Clocks!Concerned, Third!N!Concerned, Clocks!Due,
     Third!N!Due, Clocks!Unmarked, Third!N!Unmarked, Clocks!Claim, Third!N!Claim, Clocks!Add, Third!N!Add,
     Clocks!Enqueue, Third!N!Enqueue, Clocks!ReleaseClaim, Third!N!ReleaseClaim, Clocks!EnqueueFails,
     Third!N!EnqueueFails, Clocks!Reported, Third!N!Reported, Clocks!Queued, Third!N!Queued, Clocks!Send,
     Third!N!Send, Clocks!Exhausted, Third!N!Exhausted, Clocks!Retried, Third!N!Retried, Clocks!Listener,
     Third!N!Listener, Clocks!Failed, Third!N!Failed, Clocks!Stalled, Third!N!Stalled, Clocks!Attempt,
     Third!N!Attempt, Clocks!Unclear, Third!N!Unclear, Clocks!Release, Third!N!Release, Clocks!Remove,
     Third!N!Remove, Clocks!Forget, Third!N!Forget, Clocks!Crash, Third!N!Crash, Clocks!Midnight,
     Third!N!Midnight, Clocks!New, Third!N!New, Clocks!Extend, Third!N!Extend, Clocks!Refund, Third!N!Refund,
     Clocks!OwnerChanges, Third!N!OwnerChanges, Clocks!Next, Third!N!Next, Clocks!TypeOK, Third!N!TypeOK,
     Clocks!NoticeKept, Third!N!NoticeKept, Clocks!NoticedOnce, Third!N!NoticedOnce

LEMMA SameBeside ==
  /\ Beside!Init => Money!Init
  /\ [Beside!Next]_(Beside!vars) => [Money!Next]_(Money!vars)
  /\ Money!TypeOK => Beside!TypeOK
  /\ Money!CreditedAsCharged => Beside!CreditedAsCharged
  BY Zenon DEF
     Beside!catalogue, Money!catalogue, Beside!subscription, Money!subscription, Beside!vars, Money!vars,
     Beside!Idle, Money!Idle, Beside!Start, Money!Start, Beside!Goto, Money!Goto, Beside!End, Money!End,
     Beside!NoScript, Money!NoScript, Beside!Init, Money!Init, Beside!CarriesHistory, Money!CarriesHistory,
     Beside!EditInPlace, Money!EditInPlace, Beside!EditVersion, Money!EditVersion, Beside!ScriptReads,
     Money!ScriptReads, Beside!CreateBillingPlan, Money!CreateBillingPlan, Beside!ScriptStores,
     Money!ScriptStores, Beside!ScriptDies, Money!ScriptDies, Beside!Charge, Money!Charge, Beside!Moves,
     Money!Moves, Beside!Approve, Money!Approve, Beside!ChangePlan, Money!ChangePlan, Beside!Revise,
     Money!Revise, Beside!WriteChange, Money!WriteChange, Beside!ReadState, Money!ReadState, Beside!SyncPlan,
     Money!SyncPlan, Beside!ReadPlan, Money!ReadPlan, Beside!Candidates, Money!Candidates, Beside!Matching,
     Money!Matching, Beside!CyclePlan, Money!CyclePlan, Beside!Odd, Money!Odd, Beside!Alone, Money!Alone,
     Beside!FindCyclePlan, Money!FindCyclePlan, Beside!FlagMismatch, Money!FlagMismatch, Beside!InsertCycle,
     Money!InsertCycle, Beside!GiveUp, Money!GiveUp, Beside!Next, Money!Next, Beside!TypeOK, Money!TypeOK,
     Beside!CreditedAsCharged, Money!CreditedAsCharged

LEMMA SameBehind ==
  /\ Behind!Init => Sales!Init
  /\ [Behind!Next]_(Behind!vars) => [Sales!Next]_(Sales!vars)
  /\ Sales!TypeOK => Behind!TypeOK
  /\ Sales!CreditedAsCharged => Behind!CreditedAsCharged
  BY Zenon DEF
     Behind!catalogue, Sales!catalogue, Behind!subscription, Sales!subscription, Behind!vars, Sales!vars,
     Behind!Idle, Sales!Idle, Behind!Start, Sales!Start, Behind!Goto, Sales!Goto, Behind!End, Sales!End,
     Behind!NoScript, Sales!NoScript, Behind!Init, Sales!Init, Behind!CarriesHistory, Sales!CarriesHistory,
     Behind!EditInPlace, Sales!EditInPlace, Behind!EditVersion, Sales!EditVersion, Behind!ScriptReads,
     Sales!ScriptReads, Behind!CreateBillingPlan, Sales!CreateBillingPlan, Behind!ScriptStores,
     Sales!ScriptStores, Behind!ScriptDies, Sales!ScriptDies, Behind!Charge, Sales!Charge, Behind!Moves,
     Sales!Moves, Behind!Approve, Sales!Approve, Behind!ChangePlan, Sales!ChangePlan, Behind!Revise,
     Sales!Revise, Behind!WriteChange, Sales!WriteChange, Behind!ReadState, Sales!ReadState, Behind!SyncPlan,
     Sales!SyncPlan, Behind!ReadPlan, Sales!ReadPlan, Behind!Candidates, Sales!Candidates, Behind!Matching,
     Sales!Matching, Behind!CyclePlan, Sales!CyclePlan, Behind!Odd, Sales!Odd, Behind!Alone, Sales!Alone,
     Behind!FindCyclePlan, Sales!FindCyclePlan, Behind!FlagMismatch, Sales!FlagMismatch, Behind!InsertCycle,
     Sales!InsertCycle, Behind!GiveUp, Sales!GiveUp, Behind!Next, Sales!Next, Behind!TypeOK, Sales!TypeOK,
     Behind!CreditedAsCharged, Sales!CreditedAsCharged

LEMMA SameBilling ==
  /\ [Billing!Next]_(Billing!vars) => [Money!Billing!Next]_(Money!Billing!vars)
  /\ Money!Billing!TypeOK => Billing!TypeOK
  /\ Money!Billing!CreditedOnce => Billing!CreditedOnce
  BY Zenon DEF
     Billing!company, Money!Billing!company, Billing!remotes, Money!Billing!remotes, Billing!sales,
     Money!Billing!sales, Billing!rows, Money!Billing!rows, Billing!vars, Money!Billing!vars, Billing!linked,
     Money!Billing!linked, Billing!State, Money!Billing!State, Billing!Live, Money!Billing!Live,
     Billing!Retired, Money!Billing!Retired, Billing!Paypal, Money!Billing!Paypal, Billing!Task,
     Money!Billing!Task, Billing!Step, Money!Billing!Step, Billing!Resting, Money!Billing!Resting,
     Billing!Idle, Money!Billing!Idle, Billing!OtherLive, Money!Billing!OtherLive, Billing!Error,
     Money!Billing!Error, Billing!Start, Money!Billing!Start, Billing!Rest, Money!Billing!Rest, Billing!Goto,
     Money!Billing!Goto, Billing!ChangedBeside, Money!Billing!ChangedBeside, Billing!Changed,
     Money!Billing!Changed, Billing!ByItself, Money!Billing!ByItself, Billing!Approve, Money!Billing!Approve,
     Billing!ChargeFails, Money!Billing!ChargeFails, Billing!Suspend, Money!Billing!Suspend,
     Billing!Reactivate, Money!Billing!Reactivate, Billing!CancelledByBuyer, Money!Billing!CancelledByBuyer,
     Billing!Charge, Money!Billing!Charge, Billing!CancelAtPaypal, Money!Billing!CancelAtPaypal,
     Billing!EndedCancellation, Money!Billing!EndedCancellation, Billing!RetireEnded,
     Money!Billing!RetireEnded, Billing!Free, Money!Billing!Free, Billing!Subscribe, Money!Billing!Subscribe,
     Billing!Create, Money!Billing!Create, Billing!CreateFails, Money!Billing!CreateFails, Billing!Read,
     Money!Billing!Read, Billing!Handling, Money!Billing!Handling, Billing!Webhook, Money!Billing!Webhook,
     Billing!Confirm, Money!Billing!Confirm, Billing!Reconciled, Money!Billing!Reconciled, Billing!Reconcile,
     Money!Billing!Reconcile, Billing!Sweep, Money!Billing!Sweep, Billing!OnNotice, Money!Billing!OnNotice,
     Billing!Mapped, Money!Billing!Mapped, Billing!NewStatus, Money!Billing!NewStatus, Billing!Abandoned,
     Money!Billing!Abandoned, Billing!Applying, Money!Billing!Applying, Billing!OutOfOrder,
     Money!Billing!OutOfOrder, Billing!Duplicate, Money!Billing!Duplicate, Billing!Refused,
     Money!Billing!Refused, Billing!ExpireAbandoned, Money!Billing!ExpireAbandoned, Billing!Listed,
     Money!Billing!Listed, Billing!Continue, Money!Billing!Continue, Billing!Applied, Money!Billing!Applied,
     Billing!IgnoreOldEvent, Money!Billing!IgnoreOldEvent, Billing!SetCurrent, Money!Billing!SetCurrent,
     Billing!ApplyRemoteState, Money!Billing!ApplyRemoteState, Billing!FindDuplicate,
     Money!Billing!FindDuplicate, Billing!ApplyRefused, Money!Billing!ApplyRefused, Billing!CancelDuplicate,
     Money!Billing!CancelDuplicate, Billing!CancelDuplicateRefused, Money!Billing!CancelDuplicateRefused,
     Billing!InsertThenExtend, Money!Billing!InsertThenExtend, Billing!ChargedOnDuplicate,
     Money!Billing!ChargedOnDuplicate, Billing!CreditCycle, Money!Billing!CreditCycle, Billing!CreditRefused,
     Money!Billing!CreditRefused, Billing!CreditSale, Money!Billing!CreditSale, Billing!FlagSale,
     Money!Billing!FlagSale, Billing!GoOn, Money!Billing!GoOn, Billing!CancelAfterSale,
     Money!Billing!CancelAfterSale, Billing!CancelAfterSaleFails, Money!Billing!CancelAfterSaleFails,
     Billing!CreditListed, Money!Billing!CreditListed, Billing!FlagListed, Money!Billing!FlagListed,
     Billing!Cancel, Money!Billing!Cancel, Billing!WriteCancel, Money!Billing!WriteCancel, Billing!Ban,
     Money!Billing!Ban, Billing!WriteBan, Money!Billing!WriteBan, Billing!RetireEndedCancellations,
     Money!Billing!RetireEndedCancellations, Billing!Hourly, Money!Billing!Hourly, Billing!PaidTimeEnds,
     Money!Billing!PaidTimeEnds, Billing!Dies, Money!Billing!Dies, Billing!Handle, Money!Billing!Handle,
     Billing!Fail, Money!Billing!Fail, Billing!Paypals, Money!Billing!Paypals, Billing!Next,
     Money!Billing!Next, Billing!TypeOK, Money!Billing!TypeOK, Billing!CreditedOnce,
     Money!Billing!CreditedOnce

LEMMA SameStatus ==
  /\ Status!Init => First!Smtp!Init
  /\ [Status!Next]_(Status!vars) => [First!Smtp!Next]_(First!Smtp!vars)
  /\ First!Smtp!TypeOK => Status!TypeOK
  /\ First!Smtp!RefusalIsShown => Status!RefusalIsShown
  BY Zenon DEF
     Status!vars, First!Smtp!vars, Status!Outcome, First!Smtp!Outcome, Status!NoCheck, First!Smtp!NoCheck,
     Status!Limit, First!Smtp!Limit, Status!Init, First!Smtp!Init, Status!Classify, First!Smtp!Classify,
     Status!Answers, First!Smtp!Answers, Status!Record, First!Smtp!Record, Status!Answered,
     First!Smtp!Answered, Status!Recorded, First!Smtp!Recorded, Status!LockFree, First!Smtp!LockFree,
     Status!CanaryTurn, First!Smtp!CanaryTurn, Status!CanaryAnswered, First!Smtp!CanaryAnswered,
     Status!CanaryRecorded, First!Smtp!CanaryRecorded, Status!CanaryTimesOut, First!Smtp!CanaryTimesOut,
     Status!TimeoutRecorded, First!Smtp!TimeoutRecorded, Status!Reconcile, First!Smtp!Reconcile,
     Status!ReconcileEnds, First!Smtp!ReconcileEnds, Status!StartCheck, First!Smtp!StartCheck,
     Status!ReadRecord, First!Smtp!ReadRecord, Status!Verify, First!Smtp!Verify, Status!Health,
     First!Smtp!Health, Status!EndCheck, First!Smtp!EndCheck, Status!ServerChanges, First!Smtp!ServerChanges,
     Status!RedisChanges, First!Smtp!RedisChanges, Status!Tick, First!Smtp!Tick, Status!Next,
     First!Smtp!Next, Status!TypeOK, First!Smtp!TypeOK, Status!RefusalIsShown, First!Smtp!RefusalIsShown

LEMMA SameSharing ==
  /\ Sharing!Init => First!Init
  /\ [Sharing!Next]_(Sharing!vars) => [First!Next]_(First!vars)
  /\ First!TypeOK => Sharing!TypeOK
  /\ First!OneRun => Sharing!OneRun
  BY Zenon DEF
     Sharing!vars, First!vars, Sharing!Keys, First!Keys, Sharing!NoRun, First!NoRun, Sharing!Init,
     First!Init, Sharing!At, First!At, Sharing!Drop, First!Drop, Sharing!RunsOf, First!RunsOf, Sharing!Fire,
     First!Fire, Sharing!TrySessionLock, First!TrySessionLock, Sharing!Begin, First!Begin, Sharing!Work,
     First!Work, Sharing!Unlock, First!Unlock, Sharing!UnpinnedEnds, First!UnpinnedEnds,
     Sharing!ConnectionDies, First!ConnectionDies, Sharing!Accept, First!Accept, Sharing!Respond,
     First!Respond, Sharing!TakeMail, First!TakeMail, Sharing!MailDone, First!MailDone, Sharing!Signal,
     First!Signal, Sharing!DrainTimesOut, First!DrainTimesOut, Sharing!StopWorker, First!StopWorker,
     Sharing!ClosePool, First!ClosePool, Sharing!Exit, First!Exit, Sharing!Restart, First!Restart,
     Sharing!Next, First!Next, Sharing!TypeOK, First!TypeOK, Sharing!OneRun, First!OneRun

LEMMA SameApart ==
  /\ Apart!Init => Second!Init
  /\ [Apart!Next]_(Apart!vars) => [Second!Next]_(Second!vars)
  /\ Second!TypeOK => Apart!TypeOK
  /\ Second!OneRun => Apart!OneRun
  BY Zenon DEF
     Apart!vars, Second!vars, Apart!Keys, Second!Keys, Apart!NoRun, Second!NoRun, Apart!Init, Second!Init,
     Apart!At, Second!At, Apart!Drop, Second!Drop, Apart!RunsOf, Second!RunsOf, Apart!Fire, Second!Fire,
     Apart!TrySessionLock, Second!TrySessionLock, Apart!Begin, Second!Begin, Apart!Work, Second!Work,
     Apart!Unlock, Second!Unlock, Apart!UnpinnedEnds, Second!UnpinnedEnds, Apart!ConnectionDies,
     Second!ConnectionDies, Apart!Accept, Second!Accept, Apart!Respond, Second!Respond, Apart!TakeMail,
     Second!TakeMail, Apart!MailDone, Second!MailDone, Apart!Signal, Second!Signal, Apart!DrainTimesOut,
     Second!DrainTimesOut, Apart!StopWorker, Second!StopWorker, Apart!ClosePool, Second!ClosePool,
     Apart!Exit, Second!Exit, Apart!Restart, Second!Restart, Apart!Next, Second!Next, Apart!TypeOK,
     Second!TypeOK, Apart!OneRun, Second!OneRun

anyvars == <<focus, registration, draw, notices, changes, billing, status, crons>>

\* A behaviour keeps its focus.
LEMMA FocusStays ==
  /\ AnyInit => focus \in {"alone", "pair", "draw", "ended", "ending", "clocks", "beside", "behind",
                           "billing", "status", "shared", "plain"}
  /\ [AnyNext]_anyvars => UNCHANGED focus
  BY Zenon DEF AnyInit, AnyNext, anyvars

LEMMA InFocus ==
  AnySpec => [](focus \in {"alone", "pair", "draw", "ended", "ending", "clocks", "beside", "behind",
                           "billing", "status", "shared", "plain"})
<1>1. focus \in {"alone", "pair", "draw", "ended", "ending", "clocks", "beside", "behind",
                 "billing", "status", "shared", "plain"} /\ [AnyNext]_anyvars
        => (focus \in {"alone", "pair", "draw", "ended", "ending", "clocks", "beside", "behind",
                       "billing", "status", "shared", "plain"})'
  BY FocusStays
<1> QED BY <1>1, FocusStays, PTL DEF AnySpec, anyvars

\* The two restrictions of Registration take none but its steps.
LEMMA RegistrationAlways == AnySpec => Spec
<1>1. AnyInit => Init
  BY DEF AnyInit
<1>2. [AnyNext]_anyvars => [Next]_vars
  BY Zenon DEF AnyNext, anyvars, registration, vars, Single, Pair
<1> QED BY <1>1, <1>2, PTL DEF AnySpec, anyvars, Spec

LEMMA InDraw == AnySpec => \/ [](focus = "draw") /\ Money!Draw!Spec
                        \/ []~(focus = "draw")
<1>1. AnyInit /\ focus = "draw" => Money!Draw!Init
  BY SameDraw DEF AnyInit
<1>2. [AnyNext]_anyvars /\ focus = "draw" => [Draw!Next]_(Draw!vars)
  BY Zenon DEF AnyNext, anyvars, draw, Draw!vars
<1>3. [AnyNext]_anyvars => ((focus = "draw")' <=> focus = "draw")
  BY FocusStays
<1> QED BY <1>1, <1>2, <1>3, SameDraw, PTL DEF AnySpec, anyvars, Money!Draw!Spec

LEMMA InEnded == AnySpec => \/ [](focus = "ended") /\ First!N!Spec
                        \/ []~(focus = "ended")
<1>1. AnyInit /\ focus = "ended" => First!N!Init
  BY SameEnded DEF AnyInit
<1>2. [AnyNext]_anyvars /\ focus = "ended" => [Ended!Next]_(Ended!vars)
  BY Zenon DEF AnyNext, anyvars, notices, Ended!vars
<1>3. [AnyNext]_anyvars => ((focus = "ended")' <=> focus = "ended")
  BY FocusStays
<1> QED BY <1>1, <1>2, <1>3, SameEnded, PTL DEF AnySpec, anyvars, First!N!Spec

LEMMA InEnding == AnySpec => \/ [](focus = "ending") /\ Second!N!Spec
                        \/ []~(focus = "ending")
<1>1. AnyInit /\ focus = "ending" => Second!N!Init
  BY SameEnding DEF AnyInit
<1>2. [AnyNext]_anyvars /\ focus = "ending" => [Ending!Next]_(Ending!vars)
  BY Zenon DEF AnyNext, anyvars, notices, Ending!vars
<1>3. [AnyNext]_anyvars => ((focus = "ending")' <=> focus = "ending")
  BY FocusStays
<1> QED BY <1>1, <1>2, <1>3, SameEnding, PTL DEF AnySpec, anyvars, Second!N!Spec

LEMMA InClocks == AnySpec => \/ [](focus = "clocks") /\ Third!N!Spec
                        \/ []~(focus = "clocks")
<1>1. AnyInit /\ focus = "clocks" => Third!N!Init
  BY SameClocks DEF AnyInit
<1>2. [AnyNext]_anyvars /\ focus = "clocks" => [Clocks!Next]_(Clocks!vars)
  BY Zenon DEF AnyNext, anyvars, notices, Clocks!vars
<1>3. [AnyNext]_anyvars => ((focus = "clocks")' <=> focus = "clocks")
  BY FocusStays
<1> QED BY <1>1, <1>2, <1>3, SameClocks, PTL DEF AnySpec, anyvars, Third!N!Spec

LEMMA InBeside == AnySpec => \/ [](focus = "beside") /\ Money!Spec
                        \/ []~(focus = "beside")
<1>1. AnyInit /\ focus = "beside" => Money!Init
  BY SameBeside DEF AnyInit
<1>2. [AnyNext]_anyvars /\ focus = "beside" => [Beside!Next]_(Beside!vars)
  BY Zenon DEF AnyNext, anyvars, changes, Beside!vars, Beside!catalogue, Beside!subscription
<1>3. [AnyNext]_anyvars => ((focus = "beside")' <=> focus = "beside")
  BY FocusStays
<1> QED BY <1>1, <1>2, <1>3, SameBeside, PTL DEF AnySpec, anyvars, Money!Spec

LEMMA InBehind == AnySpec => \/ [](focus = "behind") /\ Sales!Spec
                        \/ []~(focus = "behind")
<1>1. AnyInit /\ focus = "behind" => Sales!Init
  BY SameBehind DEF AnyInit
<1>2. [AnyNext]_anyvars /\ focus = "behind" => [Behind!Next]_(Behind!vars)
  BY Zenon DEF AnyNext, anyvars, changes, Behind!vars, Behind!catalogue, Behind!subscription
<1>3. [AnyNext]_anyvars => ((focus = "behind")' <=> focus = "behind")
  BY FocusStays
<1> QED BY <1>1, <1>2, <1>3, SameBehind, PTL DEF AnySpec, anyvars, Sales!Spec

LEMMA InStatus == AnySpec => \/ [](focus = "status") /\ First!Smtp!Spec
                        \/ []~(focus = "status")
<1>1. AnyInit /\ focus = "status" => First!Smtp!Init
  BY SameStatus DEF AnyInit
<1>2. [AnyNext]_anyvars /\ focus = "status" => [Status!Next]_(Status!vars)
  BY Zenon DEF AnyNext, anyvars, status, Status!vars
<1>3. [AnyNext]_anyvars => ((focus = "status")' <=> focus = "status")
  BY FocusStays
<1> QED BY <1>1, <1>2, <1>3, SameStatus, PTL DEF AnySpec, anyvars, First!Smtp!Spec

LEMMA InSharing == AnySpec => \/ [](focus = "shared") /\ First!Spec
                        \/ []~(focus = "shared")
<1>1. AnyInit /\ focus = "shared" => First!Init
  BY SameSharing DEF AnyInit
<1>2. [AnyNext]_anyvars /\ focus = "shared" => [Sharing!Next]_(Sharing!vars)
  BY Zenon DEF AnyNext, anyvars, crons, Sharing!vars
<1>3. [AnyNext]_anyvars => ((focus = "shared")' <=> focus = "shared")
  BY FocusStays
<1> QED BY <1>1, <1>2, <1>3, SameSharing, PTL DEF AnySpec, anyvars, First!Spec

LEMMA InApart == AnySpec => \/ [](focus = "plain") /\ Second!Spec
                        \/ []~(focus = "plain")
<1>1. AnyInit /\ focus = "plain" => Second!Init
  BY SameApart DEF AnyInit
<1>2. [AnyNext]_anyvars /\ focus = "plain" => [Apart!Next]_(Apart!vars)
  BY Zenon DEF AnyNext, anyvars, crons, Apart!vars
<1>3. [AnyNext]_anyvars => ((focus = "plain")' <=> focus = "plain")
  BY FocusStays
<1> QED BY <1>1, <1>2, <1>3, SameApart, PTL DEF AnySpec, anyvars, Second!Spec

\* A subscription under way, as if the first one's approval had just been handled.
LEMMA SubscribedIsBilled == ASSUME Distinct, Subscribed PROVE Money!Billed
<1> USE DEF Subscribed
<1>1. paypal \in [{s1, s2} -> Money!RemoteRow] /\ stateNotices \subseteq Money!NoticeRow
  BY DEF Money!RemoteRow, Money!Billing!Paypal
<1>2. Money!Company /\ Money!Remotes
  BY <1>1 DEF Money!Company, Money!Remotes
<1>3. Money!Stored
  BY DEF Money!Stored, Money!Billing!State
<1>4. Money!Sales
  BY DEF Money!Sales, Money!NothingDropped
<1>5. Money!Handlers
  BY Money!RestingTyped DEF Money!Handlers, Billing!Resting, Money!Billing!Resting
<1> QED BY <1>2, <1>3, <1>4, <1>5 DEF Money!Billed

LEMMA InBilling == ASSUME Distinct PROVE AnySpec => \/ [](focus = "billing") /\ []Money!Billed
                                                   \/ []~(focus = "billing")
<1>1. AnyInit => Money!Billed
  BY SubscribedIsBilled DEF AnyInit
<1>2. [AnyNext]_anyvars /\ focus = "billing" => [Billing!Next]_(Billing!vars)
  BY Zenon DEF AnyNext, anyvars, billing, Billing!vars, Billing!company, Billing!remotes, Billing!sales, Billing!rows
<1>3. [AnyNext]_anyvars => ((focus = "billing")' <=> focus = "billing")
  BY FocusStays
<1>4. Money!Billed /\ [AnyNext]_anyvars /\ focus = "billing" => Money!Billed'
  BY <1>2, SameBilling, Money!BilledStep DEF Distinct
<1> QED BY <1>1, <1>3, <1>4, PTL DEF AnySpec, anyvars

\* No pool of spins is overdrawn (LuckyDrawService.spin).
THEOREM PoolsLast == ASSUME Distinct PROVE AnySpec => []SpinsWithinBudget
<1>1. Money!Draw!Spec => []Money!Draw!SpinsWithinBudget
  BY Money!BudgetIsKept DEF Distinct
<1>2. Money!Draw!SpinsWithinBudget \/ ~(focus = "draw") => SpinsWithinBudget
  BY SameDraw DEF SpinsWithinBudget
<1> QED BY <1>1, <1>2, InDraw, PTL

\* A notice stamped as announced was or will be sent, but in the ways the code names
\* (sendExpiryNotices).
THEOREM NoticesStand == ASSUME Distinct PROVE AnySpec => []NoticeKept
<1>1. First!Bounds /\ Second!Bounds /\ Third!Bounds
  BY DEF First!Bounds, Second!Bounds, Third!Bounds
<1>2. First!N!Spec => []First!N!NoticeKept
  BY <1>1, First!NoticesAreKept
<1>3. Second!N!Spec => []Second!N!NoticeKept
  BY <1>1, Second!NoticesAreKept
<1>4. Third!N!Spec => []Third!N!NoticeKept
  BY <1>1, Third!NoticesAreKept
<1>5. /\ First!N!NoticeKept \/ ~(focus = "ended")
      /\ Second!N!NoticeKept \/ ~(focus = "ending")
      /\ Third!N!NoticeKept \/ ~(focus = "clocks")
      => NoticeKept
  BY SameEnded, SameEnding, SameClocks DEF NoticeKept
<1> QED BY <1>2, <1>3, <1>4, <1>5, InEnded, InEnding, InClocks, PTL

\* A notice or report is sent once, and once more for each time the mail server took it
\* without saying so (claimExpiryNotices).
THEOREM NoticesGoOnceEach == ASSUME Distinct PROVE AnySpec => []NoticedOnce
<1>1. First!Bounds /\ Second!Bounds /\ Third!Bounds
  BY DEF First!Bounds, Second!Bounds, Third!Bounds
<1>2. First!N!Spec => []First!N!NoticedOnce
  BY <1>1, First!NoticesGoOnce
<1>3. Second!N!Spec => []Second!N!NoticedOnce
  <2>1. One \cap Second!N!Notice = {}
    BY DEF Distinct, One
  <2> QED BY <1>1, <2>1, Second!NoticesGoOnce
<1>4. Third!N!Spec => []Third!N!NoticedOnce
  BY <1>1, Third!NoticesGoOnce
<1>5. /\ First!N!NoticedOnce \/ ~(focus = "ended")
      /\ Second!N!NoticedOnce \/ ~(focus = "ending")
      /\ Third!N!NoticedOnce \/ ~(focus = "clocks")
      => NoticedOnce
  BY SameEnded, SameEnding, SameClocks DEF NoticedOnce
<1> QED BY <1>2, <1>3, <1>4, <1>5, InEnded, InEnding, InClocks, PTL

LEMMA DistinctThere == ASSUME Distinct PROVE Money!Distinct /\ Sales!Distinct
<1>1. Sales!SaleRow = Money!SaleRow
  BY DEF Sales!SaleRow, Money!SaleRow
<1>2. None \notin Two
  BY DEF Distinct, Two
<1> QED BY <1>1, <1>2 DEF Distinct, Money!Distinct, Sales!Distinct

\* A sale is credited to the plan that was charged, or flagged for a reason (creditCycle).
THEOREM SalesFindTheirPlan == ASSUME Distinct PROVE AnySpec => []CreditedAsCharged
<1>1. Money!Spec => []Money!CreditedAsCharged
  BY DistinctThere, Money!CreditedToItsPlan DEF Distinct
<1>2. Sales!Spec => []Sales!CreditedAsCharged
  BY DistinctThere, Sales!CreditedToItsPlan DEF Distinct
<1>3. /\ Money!CreditedAsCharged \/ ~(focus = "beside")
      /\ Sales!CreditedAsCharged \/ ~(focus = "behind")
      => CreditedAsCharged
  BY SameBeside, SameBehind DEF CreditedAsCharged
<1> QED BY <1>1, <1>2, <1>3, InBeside, InBehind, PTL

\* A sale extends the expiry once, whoever reports it, also in the middle of a subscription's
\* life, where the run starts (creditCycle).
THEOREM SalesCountOnce == ASSUME Distinct PROVE AnySpec => []CreditedOnce
<1>1. Money!Billed \/ ~(focus = "billing") => CreditedOnce
  BY SameBilling, Money!BilledCountsOnce DEF CreditedOnce, Distinct
<1> QED BY <1>1, InBilling, PTL

\* A server that refuses mail is shown as down within two hours (smtpCanary).
THEOREM RefusalIsSeen == ASSUME Distinct PROVE AnySpec => []RefusalIsShown
<1>1. First!Ticks
  BY DEF First!Ticks, Distinct
<1>2. First!Smtp!Spec => []First!Smtp!RefusalIsShown
  BY <1>1, First!RefusalShows
<1>3. First!Smtp!RefusalIsShown \/ ~(focus = "status") => RefusalIsShown
  BY SameStatus DEF RefusalIsShown
<1> QED BY <1>2, <1>3, InStatus, PTL

\* A job's lock is neither shared nor leaked, and no work loses its pool early (shutdown).
THEOREM JobsRunOnce == ASSUME Distinct PROVE AnySpec => []OneRun
<1>1. First!Spec => []First!OneRun
  BY First!OneRunAtATime DEF Distinct
<1>2. Second!Spec => []Second!OneRun
  BY Second!OneRunAtATime DEF Distinct
<1>3. (First!OneRun \/ ~(focus = "shared")) /\ (Second!OneRun \/ ~(focus = "plain")) => OneRun
  BY SameSharing, SameApart DEF OneRun
<1> QED BY <1>1, <1>2, <1>3, InSharing, InApart, PTL

\* What is promised of signups, trials and links holds in every behaviour of the run
\* (confirmEmailVerification, cleanupUnverifiedSignups).
THEOREM SignupsInRun ==
  ASSUME None \notin Account
  PROVE  AnySpec => [](OneTrialPerIdentity /\ RemovedWasAbandoned /\ LinksFollowEmail)
  BY TrialIsOnce, OnlyAbandonedRemoved, LinksStayWithEmail, RegistrationAlways, PTL

\* The variables of every module have their types.
THEOREM AllModulesTyped == ASSUME Distinct PROVE AnySpec => []AllTyped
<1>1. First!Bounds /\ Second!Bounds /\ Third!Bounds /\ First!Ticks
  BY DEF First!Bounds, Second!Bounds, Third!Bounds, First!Ticks, Distinct
<1>2. Spec => []TypeOK
  BY TypeCorrect DEF Distinct
<1>3. Money!Draw!Spec => []Money!Draw!TypeOK
  BY Money!DrawTypeCorrect DEF Distinct
<1>4. First!N!Spec => []First!N!TypeOK
  BY <1>1, First!NoticesTyped
<1>5. Second!N!Spec => []Second!N!TypeOK
  BY <1>1, Second!NoticesTyped
<1>6. Third!N!Spec => []Third!N!TypeOK
  BY <1>1, Third!NoticesTyped
<1>7. Money!Spec => []Money!TypeOK
  BY DistinctThere, Money!TypeCorrect DEF Distinct
<1>8. Sales!Spec => []Sales!TypeOK
  BY DistinctThere, Sales!TypeCorrect DEF Distinct
<1>9. First!Smtp!Spec => []First!Smtp!TypeOK
  BY <1>1, First!SmtpTyped
<1>10. First!Spec => []First!TypeOK
  BY First!TypeCorrect DEF Distinct
<1>11. Second!Spec => []Second!TypeOK
  BY Second!TypeCorrect DEF Distinct
<1>12. Money!Billed => Billing!TypeOK
  BY SameBilling, Money!BilledIsTyped DEF Distinct
<1>13. ASSUME focus \in {"alone", "pair", "draw", "ended", "ending", "clocks", "beside", "behind",
                         "billing", "status", "shared", "plain"},
              TypeOK, Money!Draw!TypeOK \/ ~(focus = "draw"),
              First!N!TypeOK \/ ~(focus = "ended"), Second!N!TypeOK \/ ~(focus = "ending"),
              Third!N!TypeOK \/ ~(focus = "clocks"),
              Money!TypeOK \/ ~(focus = "beside"), Sales!TypeOK \/ ~(focus = "behind"),
              Billing!TypeOK \/ ~(focus = "billing"), First!Smtp!TypeOK \/ ~(focus = "status"),
              First!TypeOK \/ ~(focus = "shared"), Second!TypeOK \/ ~(focus = "plain")
       PROVE  AllTyped
  <2>1. CASE focus \in {"alone", "pair"}
    BY <1>13, <2>1 DEF AllTyped
  <2>2. CASE focus = "draw"
    BY <1>13, <2>2, SameDraw DEF AllTyped
  <2>3. CASE focus = "ended"
    BY <1>13, <2>3, SameEnded DEF AllTyped
  <2>4. CASE focus = "ending"
    BY <1>13, <2>4, SameEnding DEF AllTyped
  <2>5. CASE focus = "clocks"
    BY <1>13, <2>5, SameClocks DEF AllTyped
  <2>6. CASE focus = "beside"
    BY <1>13, <2>6, SameBeside DEF AllTyped
  <2>7. CASE focus = "behind"
    BY <1>13, <2>7, SameBehind DEF AllTyped
  <2>8. CASE focus = "billing"
    BY <1>13, <2>8 DEF AllTyped
  <2>9. CASE focus = "status"
    BY <1>13, <2>9, SameStatus DEF AllTyped
  <2>10. CASE focus = "shared"
    BY <1>13, <2>10, SameSharing DEF AllTyped
  <2>11. CASE focus = "plain"
    BY <1>13, <2>11, SameApart DEF AllTyped
  <2> QED BY <1>13, <2>1, <2>2, <2>3, <2>4, <2>5, <2>6, <2>7, <2>8, <2>9, <2>10, <2>11
<1> QED
  BY <1>2, <1>3, <1>4, <1>5, <1>6, <1>7, <1>8, <1>9, <1>10, <1>11, <1>12, <1>13, RegistrationAlways,
     InDraw, InEnded, InEnding, InClocks, InBeside, InBehind, InBilling, InStatus, InSharing, InApart,
     InFocus, PTL

=============================================================================
