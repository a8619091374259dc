------------------------------ MODULE Accounts ------------------------------
(***************************************************************************)
(* Readers' accounts: src/api/security.py, routers/auth.py, routers/me.py  *)
(* and the tables of migrations 008 and 009.  Requests run at one time in  *)
(* one or more workers; each statement of a handler is a transaction of    *)
(* its own, and who is asking is looked up once, before the first.         *)
(*                                                                         *)
(* Of passwords there is only whether the one sent was right, so raising   *)
(* the cost of a stored hash (needs_rehash) changes nothing here; nor does *)
(* last_seen_at, which nothing but the export reads.  Requests that are    *)
(* refused before they write anything are stuttering steps.                *)
(***************************************************************************)
EXTENDS Naturals, FiniteSets

CONSTANTS
  Ids,             \* user ids, each given out at most once
  Addresses,       \* e-mail addresses as somebody may type them
  Fold,            \* lower(email): the one spelling that stands for a mailbox
  Address,         \* the address that each id registers with, as typed
  Callers,         \* client addresses told apart: none without TRUST_PROXY_IP
  Tokens,          \* session tokens
  Articles, Categories,
  Requests,        \* requests that may be in flight at one time
  Calls,           \* what clients ask for
  MaxFailedLogins, \* MAX_FAILED_LOGINS, within LOGIN_WINDOW
  None

ASSUME AddressesAssumption ==
  /\ Address \in [Ids -> Addresses] /\ Addresses \cap Callers = {}
  /\ Fold \in [Addresses -> Addresses] /\ \A a \in Addresses : Fold[Fold[a]] = Fold[a]
ASSUME BudgetAssumption == MaxFailedLogins \in Nat \ {0}
ASSUME RequestsAssumption == IsFiniteSet(Requests) /\ Requests # {}
ASSUME NoneIsNone == None \notin Ids \cup Callers \cup Addresses

VARIABLES
  given,    \* ids given out so far
  users,
  owner,    \* sessions: the user of each token, None where there is no row
  minted,   \* tokens given out so far
  expired,  \* tokens past expires_at
  saved,    \* saved_articles
  follows,  \* subscriptions
  failures, \* rows of login_attempts within the window, per identifier
  pc,       \* where each request stands
  who,      \* the account it acts on
  asked,    \* the mailbox and the caller a sign-in is counted against
  want      \* the categories a request is to store

sessions == <<owner, minted, expired>>
tables == <<given, users, sessions, saved, follows, failures>>
requestVars == <<pc, who, asked, want>>
vars == <<tables, requestVars>>

Mailboxes == {Fold[a] : a \in Addresses}
Identifiers(r) == {asked[r].address, asked[r].caller} \ {None}

Init ==
  /\ given = {} /\ users = {}
  /\ owner = [t \in Tokens |-> None] /\ minted = {} /\ expired = {}
  /\ saved = {} /\ follows = {}
  /\ failures = [i \in Addresses \cup Callers |-> 0]
  /\ pc = [r \in Requests |-> "idle"]
  /\ who = [r \in Requests |-> None]
  /\ asked \in [Requests -> [address : Mailboxes, caller : {None}]]
  /\ want = [r \in Requests |-> {}]

Reply(r) == pc' = [pc EXCEPT ![r] = "idle"]

-----------------------------------------------------------------------------
(***************************************************************************)
(* Signing up, in and out.                                                 *)
(***************************************************************************)

\* users_email_key, on lower(email), turns a second account away.
Register(r, u) ==
  /\ "register" \in Calls /\ pc[r] = "idle" /\ u \notin given
  /\ \A v \in users : Fold[Address[v]] # Fold[Address[u]]
  /\ given' = given \cup {u} /\ users' = users \cup {u}
  /\ pc' = [pc EXCEPT ![r] = "open"]
  /\ who' = [who EXCEPT ![r] = u]
  /\ UNCHANGED <<sessions, saved, follows, failures, asked, want>>

\* Mutant: an attempt that is turned away counts as another failure.
CheckBudget_Counts(r, a, c) ==
  /\ "login" \in Calls /\ pc[r] = "idle"
  /\ asked' = [asked EXCEPT ![r] = [address |-> Fold[a], caller |-> c]]
  /\ pc' = [pc EXCEPT ![r] =
       IF \A i \in {Fold[a], c} \ {None} : failures[i] < MaxFailedLogins THEN "lookup"
       ELSE IF \A i \in {Fold[a], c} \ {None} : failures[i] < MaxFailedLogins + 2
       THEN "refuse" ELSE "idle"]
  /\ UNCHANGED <<tables, who, want>>

\* Mutant: the count may reach the limit.
CheckBudget_Late(r, a, c) ==
  /\ "login" \in Calls /\ pc[r] = "idle"
  /\ \A i \in {Fold[a], c} \ {None} : failures[i] <= MaxFailedLogins
  /\ asked' = [asked EXCEPT ![r] = [address |-> Fold[a], caller |-> c]]
  /\ pc' = [pc EXCEPT ![r] = "lookup"]
  /\ UNCHANGED <<tables, who, want>>

\* too_many_failures; the rows it deletes no longer count.
CheckBudget(r, a, c) ==
  /\ "login" \in Calls /\ pc[r] = "idle"
  /\ \A i \in {Fold[a], c} \ {None} : failures[i] < MaxFailedLogins
  /\ asked' = [asked EXCEPT ![r] = [address |-> Fold[a], caller |-> c]]
  /\ pc' = [pc EXCEPT ![r] = "lookup"]
  /\ UNCHANGED <<tables, who, want>>

\* No such account, a wrong password, or the right one.
Lookup(r) ==
  /\ pc[r] = "lookup"
  /\ \/ /\ pc' = [pc EXCEPT ![r] = "refuse"]
        /\ UNCHANGED who
     \/ \E u \in users :
          /\ Fold[Address[u]] = asked[r].address
          /\ pc' = [pc EXCEPT ![r] = "clear"]
          /\ who' = [who EXCEPT ![r] = u]
  /\ UNCHANGED <<tables, asked, want>>

RecordFailure(r) ==
  /\ pc[r] = "refuse"
  /\ failures' = [i \in DOMAIN failures |->
       IF i \in Identifiers(r) THEN failures[i] + 1 ELSE failures[i]]
  /\ Reply(r)
  /\ UNCHANGED <<given, users, sessions, saved, follows, who, asked, want>>

ClearFailures(r) ==
  /\ pc[r] = "clear"
  /\ failures' = [i \in DOMAIN failures |-> IF i \in Identifiers(r) THEN 0 ELSE failures[i]]
  /\ pc' = [pc EXCEPT ![r] = "open"]
  /\ UNCHANGED <<given, users, sessions, saved, follows, who, asked, want>>

\* sessions.user_id references users: without one the insert raises.
OpenSession(r, t) ==
  /\ pc[r] = "open" /\ t \notin minted
  /\ IF who[r] \in users
     THEN /\ minted' = minted \cup {t}
          /\ owner' = [owner EXCEPT ![t] = who[r]]
     ELSE UNCHANGED <<minted, owner>>
  /\ Reply(r)
  /\ UNCHANGED <<given, users, expired, saved, follows, failures, who, asked, want>>

CloseSession(t) ==
  /\ "logout" \in Calls /\ owner[t] # None
  /\ owner' = [owner EXCEPT ![t] = None]
  /\ UNCHANGED <<given, users, minted, expired, saved, follows, failures, requestVars>>

-----------------------------------------------------------------------------
(***************************************************************************)
(* The requests of somebody who is signed in.                              *)
(***************************************************************************)

\* require_user; C is what PUT /me/subscriptions carries.
ResolveSession(r, t, call, C) ==
  /\ call \in Calls \cap {"save", "subscribe", "export", "erase"}
  /\ pc[r] = "idle" /\ owner[t] # None /\ t \notin expired
  /\ pc' = [pc EXCEPT ![r] = IF call = "subscribe" THEN "unsubscribe"
                             ELSE IF call = "erase" THEN "closeall" ELSE call]
  /\ who' = [who EXCEPT ![r] = owner[t]]
  /\ want' = [want EXCEPT ![r] = C]
  /\ C # {} => call = "subscribe"
  /\ UNCHANGED <<tables, asked>>

\* Nothing is stored for a user who is gone: the foreign key answers 404.
SaveArticle(r, a) ==
  /\ pc[r] = "save"
  /\ saved' = IF who[r] \in users THEN saved \cup {<<who[r], a>>} ELSE saved
  /\ Reply(r)
  /\ UNCHANGED <<given, users, sessions, follows, failures, who, asked, want>>

UnsaveArticle(r, a) ==
  /\ pc[r] = "save"
  /\ saved' = saved \ {<<who[r], a>>}
  /\ Reply(r)
  /\ UNCHANGED <<given, users, sessions, follows, failures, who, asked, want>>

DeleteSubscriptions(r) ==
  /\ pc[r] = "unsubscribe"
  /\ follows' = {f \in follows : f[1] # who[r]}
  /\ pc' = [pc EXCEPT ![r] = "subscribe"]
  /\ UNCHANGED <<given, users, sessions, saved, failures, who, asked, want>>

\* One transaction: a row that is there by now, or a user who is not, and the
\* insert raises and stores nothing.
InsertSubscriptions(r) ==
  LET rows == {who[r]} \X want[r]
  IN  /\ pc[r] = "subscribe"
      /\ follows' = IF who[r] \in users /\ rows \cap follows = {}
                    THEN follows \cup rows ELSE follows
      /\ Reply(r)
      /\ UNCHANGED <<given, users, sessions, saved, failures, who, asked, want>>

\* The first of the four reads of GET /me/export.
ReadAccount(r) ==
  /\ pc[r] = "export"
  /\ Reply(r)
  /\ UNCHANGED <<tables, who, asked, want>>

CloseAllSessions(r) ==
  /\ pc[r] = "closeall"
  /\ owner' = [t \in Tokens |-> IF owner[t] = who[r] THEN None ELSE owner[t]]
  /\ pc' = [pc EXCEPT ![r] = "erase"]
  /\ UNCHANGED <<given, users, minted, expired, saved, follows, failures, who, asked, want>>

\* Mutant: the sessions went first, so only the rest is left to go.
DeleteUser_TrustsOrder(r) ==
  /\ pc[r] = "erase"
  /\ users' = users \ {who[r]}
  /\ saved' = {s \in saved : s[1] # who[r]}
  /\ follows' = {f \in follows : f[1] # who[r]}
  /\ Reply(r)
  /\ UNCHANGED <<given, sessions, failures, who, asked, want>>

\* ON DELETE CASCADE
DeleteUser(r) ==
  /\ pc[r] = "erase"
  /\ users' = users \ {who[r]}
  /\ owner' = [t \in Tokens |-> IF owner[t] = who[r] THEN None ELSE owner[t]]
  /\ saved' = {s \in saved : s[1] # who[r]}
  /\ follows' = {f \in follows : f[1] # who[r]}
  /\ Reply(r)
  /\ UNCHANGED <<given, minted, expired, failures, who, asked, want>>

-----------------------------------------------------------------------------
\* The worker dies, or the connection of the request does.
Crash(r) ==
  /\ pc[r] # "idle"
  /\ Reply(r)
  /\ UNCHANGED <<tables, who, asked, want>>

ExpireSession(t) ==
  /\ owner[t] # None /\ t \notin expired
  /\ expired' = expired \cup {t}
  /\ UNCHANGED <<given, users, owner, minted, saved, follows, failures, requestVars>>

\* A failed attempt leaves the window.
ExpireFailure(i) ==
  /\ failures[i] > 0
  /\ failures' = [failures EXCEPT ![i] = @ - 1]
  /\ UNCHANGED <<given, users, sessions, saved, follows, requestVars>>

\* client_address returns None for everybody, or tells the callers apart.
KnownCallers == IF Callers = {} THEN {None} ELSE Callers

SignIn(r) ==
  \/ \E u \in Ids : Register(r, u)
  \/ \E a \in Addresses, c \in KnownCallers : CheckBudget(r, a, c)
  \/ Lookup(r) \/ RecordFailure(r) \/ ClearFailures(r)
  \/ \E t \in Tokens : OpenSession(r, t)

SignedIn(r) ==
  \/ \E t \in Tokens, call \in Calls, C \in SUBSET Categories : ResolveSession(r, t, call, C)
  \/ \E a \in Articles : SaveArticle(r, a) \/ UnsaveArticle(r, a)
  \/ DeleteSubscriptions(r) \/ InsertSubscriptions(r)
  \/ ReadAccount(r) \/ CloseAllSessions(r) \/ DeleteUser(r)

Next ==
  \/ \E r \in Requests : SignIn(r) \/ SignedIn(r) \/ Crash(r)
  \/ \E t \in Tokens : CloseSession(t) \/ ExpireSession(t)
  \/ \E i \in DOMAIN failures : ExpireFailure(i)

Spec == Init /\ [][Next]_vars

\* Time passes.
Fairness == \A i \in Addresses \cup Callers : WF_vars(ExpireFailure(i))
FairSpec == Spec /\ Fairness

-----------------------------------------------------------------------------
(***************************************************************************)
(* Properties.                                                             *)
(***************************************************************************)
TypeOK ==
  /\ users \subseteq given /\ given \subseteq Ids
  /\ owner \in [Tokens -> Ids \cup {None}]
  /\ minted \subseteq Tokens /\ expired \subseteq Tokens
  /\ saved \subseteq Ids \X Articles
  /\ follows \subseteq Ids \X Categories
  /\ failures \in [Addresses \cup Callers -> Nat]
  /\ pc \in [Requests -> {"idle", "open", "lookup", "refuse", "clear", "save", "unsubscribe",
                          "subscribe", "export", "closeall", "erase"}]
  /\ who \in [Requests -> Ids \cup {None}]
  /\ asked \in [Requests -> [address : Mailboxes, caller : Callers \cup {None}]]
  /\ want \in [Requests -> SUBSET Categories]

\* migrations/008:5 "a real DELETE with ON DELETE CASCADE": no row of the
\* account outlives it, those of requests that were under way included.
NothingOutlivesTheAccount ==
  /\ \A t \in Tokens : owner[t] # None => owner[t] \in users
  /\ \A s \in saved : s[1] \in users
  /\ \A f \in follows : f[1] \in users

\* The budget is checked before the password and charged after it: what is in
\* flight at the check may overrun it, and nothing more.  Typing an address in
\* another way (migrations/008:22 "the same mailbox") buys no second budget: of
\* the spellings of a mailbox only one is ever counted.
OverrunBounded ==
  /\ \A i \in Addresses \cup Callers :
       failures[i] < MaxFailedLogins + Cardinality(Requests)
  /\ \A a, b \in Addresses :
       Fold[a] = Fold[b] /\ failures[a] > 0 /\ failures[b] > 0 => a = b

\* A lockout ends, however often the locked-out go on trying: an attempt that
\* is turned away is not another failure.
LockoutEnds ==
  \A i \in Addresses \cup Callers :
    failures[i] >= MaxFailedLogins ~> failures[i] < MaxFailedLogins

\* me.py:151 "the session resolved, so the row exists".
ResolvedMeansExists ==
  [][\A r \in Requests : ReadAccount(r) => who[r] \in users]_vars

Rows(u) ==
  <<{t \in Tokens : owner[t] = u}, {s \in saved : s[1] = u}, {f \in follows : f[1] = u}>>

\* me.py:165 "Sessions go first so that a request in flight on another device
\* cannot act on an account that is halfway gone".
HalfwayGoneIsInert ==
  [][\A r \in Requests, u \in Ids :
       pc[r] = "erase" /\ pc'[r] = "erase" /\ who[r] = u => Rows(u)' = Rows(u)]_vars

\* test_api_account.py:82 "the set sent is the set stored", by a request that
\* succeeds.
SetSentIsSetStored ==
  [][\A r \in Requests :
       InsertSubscriptions(r) /\ follows' # follows
         => {f \in follows' : f[1] = who[r]} = {who[r]} \X want[r]]_vars

\* migrations/008:6 "a right-to-erasure request has to leave nothing behind".
ErasureLeavesNothing ==
  [][\A r \in Requests : DeleteUser(r) /\ who[r] # None => failures'[Fold[Address[who[r]]]] = 0]_vars

=============================================================================
