-------------------------- MODULE Accounts_proofs --------------------------
(***************************************************************************)
(* What the account handlers guarantee for every set of users, addresses,  *)
(* tokens and requests, and every budget of failed sign-ins.               *)
(*                                                                         *)
(* How far the budget is overrun is not inductive: Charged adds to the     *)
(* failures on record those that requests past the check may yet add.      *)
(***************************************************************************)
EXTENDS Accounts, FiniteSetTheorems, TLAPS

\* The requests that have passed the check and may still fail.
InFlight(i) == {r \in Requests : pc[r] \in {"lookup", "refuse"} /\ i \in Identifiers(r)}

Charged ==
  \A i \in Addresses \cup Callers :
    failures[i] + Cardinality(InFlight(i)) < MaxFailedLogins + Cardinality(Requests)

\* Failures are counted by mailbox, never by the spelling that was typed.
CountedFolded == \A a \in Addresses : failures[a] > 0 => Fold[a] = a

IInv == TypeOK /\ NothingOutlivesTheAccount /\ CountedFolded /\ Charged

-----------------------------------------------------------------------------
LEMMA InFlightIsFinite ==
  \A i : IsFiniteSet(InFlight(i)) /\ Cardinality(InFlight(i)) <= Cardinality(Requests)
         /\ Cardinality(InFlight(i)) \in Nat
<1> TAKE i
<1>1. InFlight(i) \subseteq Requests
  BY DEF InFlight
<1>2. QED
  BY <1>1, RequestsAssumption, FS_Subset, FS_CardinalityType

LEMMA RequestsCounted == Cardinality(Requests) \in Nat /\ Cardinality(Requests) > 0
BY RequestsAssumption, FS_CardinalityType, FS_EmptySet

LEMMA InitIInv == Init => IInv
<1> SUFFICES ASSUME Init PROVE IInv
  OBVIOUS
<1>1. TypeOK
  BY DEF Init, TypeOK
<1>2. NothingOutlivesTheAccount /\ CountedFolded
  BY DEF Init, NothingOutlivesTheAccount, CountedFolded
<1>3. Charged
  <2>1. \A i : InFlight(i) = {}
    BY DEF Init, InFlight
  <2>2. QED
    <3>1. \A i : Cardinality(InFlight(i)) = 0
      BY <2>1, FS_EmptySet
    <3>2. \A i \in Addresses \cup Callers : failures[i] = 0
      BY DEF Init
    <3>3. QED BY <3>1, <3>2, RequestsCounted, BudgetAssumption DEF Charged
<1>4. QED BY <1>1, <1>2, <1>3 DEF IInv

\* Moving one request to c, with what each action says of the others.
LEMMA MovesKeepType ==
  ASSUME TypeOK, NEW r \in Requests,
         NEW c \in {"idle", "open", "lookup", "refuse", "clear", "save", "unsubscribe",
                    "subscribe", "export", "closeall", "erase"}
  PROVE  [pc EXCEPT ![r] = c] \in
           [Requests -> {"idle", "open", "lookup", "refuse", "clear", "save", "unsubscribe",
                         "subscribe", "export", "closeall", "erase"}]
BY DEF TypeOK

LEMMA NextTypeOK == TypeOK /\ [Next]_vars => TypeOK'
<1> SUFFICES ASSUME TypeOK, [Next]_vars PROVE TypeOK'
  OBVIOUS
<1> USE DEF TypeOK, sessions, tables, requestVars, Reply
<1>1. ASSUME NEW r \in Requests, NEW u \in Ids, Register(r, u) PROVE TypeOK'
  BY <1>1, MovesKeepType DEF Register
<1>2. ASSUME NEW r \in Requests, NEW a \in Addresses, NEW c \in KnownCallers,
             CheckBudget(r, a, c)
      PROVE  TypeOK'
  BY <1>2, MovesKeepType DEF CheckBudget, KnownCallers, Mailboxes
<1>3. ASSUME NEW r \in Requests, Lookup(r) PROVE TypeOK'
  BY <1>3, MovesKeepType DEF Lookup
<1>4. ASSUME NEW r \in Requests, RecordFailure(r) PROVE TypeOK'
  BY <1>4, MovesKeepType DEF RecordFailure
<1>5. ASSUME NEW r \in Requests, ClearFailures(r) PROVE TypeOK'
  BY <1>5, MovesKeepType DEF ClearFailures
<1>6. ASSUME NEW r \in Requests, NEW t \in Tokens, OpenSession(r, t) PROVE TypeOK'
  BY <1>6, MovesKeepType DEF OpenSession
<1>7. ASSUME NEW r \in Requests, NEW t \in Tokens, NEW call \in Calls,
             NEW C \in SUBSET Categories, ResolveSession(r, t, call, C)
      PROVE  TypeOK'
  <2>1. \E c \in {"save", "unsubscribe", "export", "closeall"} : pc' = [pc EXCEPT ![r] = c]
    BY <1>7 DEF ResolveSession
  <2>2. pc' \in [Requests -> {"idle", "open", "lookup", "refuse", "clear", "save",
                              "unsubscribe", "subscribe", "export", "closeall", "erase"}]
    BY <2>1, MovesKeepType
  <2>3. QED BY <1>7, <2>2 DEF ResolveSession
<1>8. ASSUME NEW r \in Requests, NEW a \in Articles, SaveArticle(r, a) \/ UnsaveArticle(r, a)
      PROVE  TypeOK'
  <2>1. saved' \subseteq Ids \X Articles
    BY <1>8 DEF SaveArticle, UnsaveArticle
  <2>2. QED BY <1>8, <2>1, MovesKeepType DEF SaveArticle, UnsaveArticle
<1>9. ASSUME NEW r \in Requests, DeleteSubscriptions(r) PROVE TypeOK'
  BY <1>9, MovesKeepType DEF DeleteSubscriptions
<1>10. ASSUME NEW r \in Requests, InsertSubscriptions(r) PROVE TypeOK'
  BY <1>10, MovesKeepType DEF InsertSubscriptions
<1>11. ASSUME NEW r \in Requests, ReadAccount(r) \/ Crash(r) PROVE TypeOK'
  BY <1>11, MovesKeepType DEF ReadAccount, Crash
<1>12. ASSUME NEW r \in Requests, CloseAllSessions(r) PROVE TypeOK'
  BY <1>12, MovesKeepType DEF CloseAllSessions
<1>13. ASSUME NEW r \in Requests, DeleteUser(r) PROVE TypeOK'
  BY <1>13, MovesKeepType DEF DeleteUser
<1>14. ASSUME NEW t \in Tokens, CloseSession(t) \/ ExpireSession(t) PROVE TypeOK'
  BY <1>14 DEF CloseSession, ExpireSession
<1>15. ASSUME NEW i \in DOMAIN failures, ExpireFailure(i) PROVE TypeOK'
  BY <1>15 DEF ExpireFailure
<1>16. CASE UNCHANGED vars
  BY <1>16 DEF vars
<1>17. QED
  BY <1>1, <1>2, <1>3, <1>4, <1>5, <1>6, <1>7, <1>8, <1>9, <1>10, <1>11, <1>12, <1>13, <1>14,
     <1>15, <1>16 DEF Next, SignIn, SignedIn

\* Rows come and go with their user.
LEMMA NextRows ==
  TypeOK /\ NothingOutlivesTheAccount /\ [Next]_vars => NothingOutlivesTheAccount'
<1> SUFFICES ASSUME TypeOK, NothingOutlivesTheAccount, [Next]_vars
             PROVE  NothingOutlivesTheAccount'
  OBVIOUS
<1> DEFINE Rest == NothingOutlivesTheAccount
<1> USE DEF NothingOutlivesTheAccount, sessions, tables, requestVars
<1>1. ASSUME NEW r \in Requests, NEW u \in Ids, Register(r, u) PROVE Rest'
  BY <1>1 DEF Register
<1>2. ASSUME UNCHANGED <<users, owner, saved, follows>> PROVE Rest'
  BY <1>2
<1>3. ASSUME NEW r \in Requests, NEW t \in Tokens, OpenSession(r, t) PROVE Rest'
  BY <1>3 DEF OpenSession, TypeOK
<1>4. ASSUME NEW r \in Requests, NEW a \in Articles, SaveArticle(r, a) \/ UnsaveArticle(r, a)
      PROVE  Rest'
  BY <1>4 DEF SaveArticle, UnsaveArticle
<1>5. ASSUME NEW r \in Requests, DeleteSubscriptions(r) PROVE Rest'
  BY <1>5 DEF DeleteSubscriptions
<1>6. ASSUME NEW r \in Requests, InsertSubscriptions(r) PROVE Rest'
  BY <1>6 DEF InsertSubscriptions
<1>7. ASSUME NEW r \in Requests, CloseAllSessions(r) PROVE Rest'
  BY <1>7 DEF CloseAllSessions, TypeOK
<1>8. ASSUME NEW r \in Requests, DeleteUser(r) PROVE Rest'
  BY <1>8 DEF DeleteUser, TypeOK
<1>9. ASSUME NEW t \in Tokens, CloseSession(t) PROVE Rest'
  BY <1>9 DEF CloseSession, TypeOK
<1>10. CASE UNCHANGED vars
  BY <1>2, <1>10 DEF vars
<1>11. CASE Next
  BY <1>1, <1>2, <1>3, <1>4, <1>5, <1>6, <1>7, <1>8, <1>9, <1>11
     DEF Next, SignIn, SignedIn, CheckBudget, Lookup, RecordFailure, ClearFailures,
         ResolveSession, ReadAccount, Crash, ExpireSession, ExpireFailure
<1>12. QED BY <1>10, <1>11

\* Only a failed sign-in counts, and it counts against a mailbox.
LEMMA NextCountedFolded == TypeOK /\ CountedFolded /\ [Next]_vars => CountedFolded'
<1> SUFFICES ASSUME TypeOK, CountedFolded, [Next]_vars, NEW a \in Addresses, failures'[a] > 0
             PROVE  Fold[a] = a
  BY DEF CountedFolded
<1>1. ASSUME failures'[a] <= failures[a] PROVE Fold[a] = a
  <2>1. failures[a] \in Nat /\ failures'[a] \in Nat
    BY NextTypeOK DEF TypeOK
  <2>2. QED BY <1>1, <2>1 DEF CountedFolded
<1>2. ASSUME NEW r \in Requests, RecordFailure(r), a \in Identifiers(r) PROVE Fold[a] = a
  <2>1. asked[r].address \in Mailboxes /\ asked[r].caller \in Callers \cup {None}
    BY DEF TypeOK
  <2>2. a \in Mailboxes
    BY <1>2, <2>1, AddressesAssumption, NoneIsNone DEF Identifiers
  <2>3. QED BY <2>2, AddressesAssumption DEF Mailboxes
<1>3. ASSUME NEW r \in Requests, RecordFailure(r), a \notin Identifiers(r) PROVE Fold[a] = a
  <2>1. failures'[a] = failures[a]
    BY <1>3 DEF RecordFailure, TypeOK
  <2>2. QED BY <2>1 DEF CountedFolded
<1>4. ASSUME NEW r \in Requests, ClearFailures(r) PROVE Fold[a] = a
  <2>1. failures'[a] <= failures[a]
    <3>1. failures[a] \in Nat
      BY DEF TypeOK
    <3>2. QED BY <1>4, <3>1 DEF ClearFailures, TypeOK
  <2>2. QED BY <1>1, <2>1
<1>5. ASSUME NEW i \in DOMAIN failures, ExpireFailure(i) PROVE Fold[a] = a
  <2>1. failures'[a] <= failures[a]
    <3>1. failures[a] \in Nat /\ failures[i] \in Nat
      BY <1>5 DEF TypeOK
    <3>2. QED BY <1>5, <3>1 DEF ExpireFailure, TypeOK
  <2>2. QED BY <1>1, <2>1
<1>6. CASE UNCHANGED failures
  BY <1>6 DEF CountedFolded
<1>7. CASE UNCHANGED vars
  BY <1>6, <1>7 DEF vars, tables
<1>8. CASE Next
  BY <1>2, <1>3, <1>4, <1>5, <1>6, <1>8
     DEF Next, SignIn, SignedIn, Register, CheckBudget, Lookup, OpenSession, ResolveSession,
         SaveArticle, UnsaveArticle, DeleteSubscriptions, InsertSubscriptions, ReadAccount,
         CloseAllSessions, DeleteUser, Crash, CloseSession, ExpireSession,
         tables, sessions, requestVars
<1>9. QED BY <1>7, <1>8

LEMMA NextCharged == TypeOK /\ Charged /\ [Next]_vars => Charged'
<1> SUFFICES ASSUME TypeOK, Charged, [Next]_vars,
                    NEW i \in Addresses \cup Callers
             PROVE  (failures[i] + Cardinality(InFlight(i))
                       < MaxFailedLogins + Cardinality(Requests))'
  BY DEF Charged
<1> DEFINE Below ==
      failures[i] + Cardinality(InFlight(i)) < MaxFailedLogins + Cardinality(Requests)
<1>0. failures[i] \in Nat /\ failures'[i] \in Nat /\ MaxFailedLogins \in Nat
  BY NextTypeOK, BudgetAssumption DEF TypeOK
<1>1. Below
  BY DEF Charged
\* Whatever neither charges nor lets a request past the check.
<1>2. ASSUME failures'[i] <= failures[i], InFlight(i)' \subseteq InFlight(i)
      PROVE  Below'
  <2>1. /\ Cardinality(InFlight(i)') <= Cardinality(InFlight(i))
        /\ Cardinality(InFlight(i)') \in Nat /\ Cardinality(InFlight(i)) \in Nat
    BY <1>2, InFlightIsFinite, FS_Subset, FS_CardinalityType
  <2>2. QED BY <1>0, <1>1, <1>2, <2>1, RequestsCounted
<1> USE DEF sessions, tables, requestVars, Reply
<1>3. ASSUME NEW r \in Requests, NEW a \in Addresses, NEW c \in KnownCallers,
             CheckBudget(r, a, c)
      PROVE  Below'
  <2>1. CASE i \in {Fold[a], c} \ {None}
    <3>1. failures'[i] < MaxFailedLogins
      BY <1>3, <2>1 DEF CheckBudget
    <3>2. /\ Cardinality(InFlight(i)') <= Cardinality(Requests)
          /\ Cardinality(InFlight(i)') \in Nat
      <4>1. InFlight(i)' \subseteq Requests
        BY DEF InFlight
      <4>2. QED BY <4>1, RequestsAssumption, FS_Subset, FS_CardinalityType
    <3>3. QED BY <1>0, <3>1, <3>2, RequestsCounted
  <2>2. CASE i \notin {Fold[a], c} \ {None}
    <3>1. InFlight(i)' \subseteq InFlight(i)
      BY <1>3, <2>2 DEF CheckBudget, InFlight, Identifiers, TypeOK
    <3>2. QED BY <1>0, <1>2, <1>3, <3>1 DEF CheckBudget
  <2>3. QED BY <2>1, <2>2
<1>4. ASSUME NEW r \in Requests, RecordFailure(r)
      PROVE  Below'
  <2>1. CASE i \in Identifiers(r)
    <3>1. r \in InFlight(i) /\ InFlight(i)' = InFlight(i) \ {r}
      BY <1>4, <2>1 DEF RecordFailure, InFlight, Identifiers, TypeOK
    <3>2. Cardinality(InFlight(i)') = Cardinality(InFlight(i)) - 1
      BY <3>1, InFlightIsFinite, FS_RemoveElement
    <3>3. failures'[i] = failures[i] + 1
      BY <1>4, <2>1 DEF RecordFailure, TypeOK
    <3>4. QED BY <1>0, <1>1, <3>2, <3>3, InFlightIsFinite, RequestsCounted
  <2>2. CASE i \notin Identifiers(r)
    <3>1. InFlight(i)' \subseteq InFlight(i)
      BY <1>4 DEF RecordFailure, InFlight, Identifiers, TypeOK
    <3>2. failures'[i] = failures[i]
      BY <1>4, <2>2 DEF RecordFailure, TypeOK
    <3>3. QED BY <1>0, <1>2, <3>1, <3>2
  <2>3. QED BY <2>1, <2>2
<1>5. ASSUME NEW r \in Requests, ClearFailures(r)
      PROVE  Below'
  <2>1. failures'[i] <= failures[i]
    BY <1>0, <1>5 DEF ClearFailures, TypeOK
  <2>2. InFlight(i)' \subseteq InFlight(i)
    BY <1>5 DEF ClearFailures, InFlight, Identifiers, TypeOK
  <2>3. QED BY <1>2, <2>1, <2>2
<1>6. ASSUME NEW k \in DOMAIN failures, ExpireFailure(k)
      PROVE  Below'
  <2>1. failures'[i] <= failures[i]
    BY <1>0, <1>6 DEF ExpireFailure, TypeOK
  <2>2. InFlight(i)' = InFlight(i)
    BY <1>6 DEF ExpireFailure, InFlight, Identifiers
  <2>3. QED BY <1>2, <2>1, <2>2
\* A looked-up sign-in is still in flight, or is none any more.
<1>7. ASSUME NEW r \in Requests, Lookup(r)
      PROVE  Below'
  <2>1. InFlight(i)' \subseteq InFlight(i)
    BY <1>7 DEF Lookup, InFlight, Identifiers, TypeOK
  <2>2. QED BY <1>0, <1>2, <1>7, <2>1 DEF Lookup
<1>8. ASSUME NEW r \in Requests, NEW c, c \notin {"lookup", "refuse"},
             pc' = [pc EXCEPT ![r] = c], UNCHANGED <<failures, asked>>
      PROVE  Below'
  <2>1. InFlight(i)' \subseteq InFlight(i)
    BY <1>8 DEF InFlight, Identifiers, TypeOK
  <2>2. QED BY <1>0, <1>2, <1>8, <2>1
<1>9. ASSUME UNCHANGED <<failures, pc, asked>>
      PROVE  Below'
  <2>1. InFlight(i)' = InFlight(i)
    BY <1>9 DEF InFlight, Identifiers
  <2>2. QED BY <1>0, <1>2, <1>9, <2>1
<1>10. ASSUME NEW r \in Requests,
              \/ \E u \in Ids : Register(r, u)
              \/ \E t \in Tokens : OpenSession(r, t)
              \/ \E a \in Articles : SaveArticle(r, a) \/ UnsaveArticle(r, a)
              \/ DeleteSubscriptions(r) \/ InsertSubscriptions(r)
              \/ ReadAccount(r) \/ CloseAllSessions(r) \/ DeleteUser(r) \/ Crash(r)
       PROVE  Below'
  <2>1. /\ UNCHANGED <<failures, asked>>
        /\ \E c \in {"idle", "open", "subscribe", "erase"} : pc' = [pc EXCEPT ![r] = c]
    BY <1>10 DEF Register, OpenSession, SaveArticle, UnsaveArticle, DeleteSubscriptions,
       InsertSubscriptions, ReadAccount, CloseAllSessions, DeleteUser, Crash
  <2>2. QED BY <1>8, <2>1
<1>11. ASSUME NEW r \in Requests, NEW t \in Tokens, NEW call \in Calls,
              NEW C \in SUBSET Categories, ResolveSession(r, t, call, C)
       PROVE  Below'
  <2>1. /\ UNCHANGED <<failures, asked>>
        /\ \E c \in {"save", "unsubscribe", "export", "closeall"} : pc' = [pc EXCEPT ![r] = c]
    BY <1>11 DEF ResolveSession
  <2>2. QED BY <1>8, <2>1
<1>12. ASSUME NEW t \in Tokens, CloseSession(t) \/ ExpireSession(t)
       PROVE  Below'
  BY <1>9, <1>12 DEF CloseSession, ExpireSession
<1>13. CASE UNCHANGED vars
  BY <1>9, <1>13 DEF vars
<1>14. CASE Next
  BY <1>3, <1>4, <1>5, <1>6, <1>7, <1>10, <1>11, <1>12, <1>14 DEF Next, SignIn, SignedIn
<1>15. QED BY <1>13, <1>14

THEOREM InductiveInvariant == Spec => []IInv
<1>1. IInv /\ [Next]_vars => IInv'
  BY NextTypeOK, NextRows, NextCountedFolded, NextCharged DEF IInv
<1>2. QED BY <1>1, InitIInv, PTL DEF Spec

-----------------------------------------------------------------------------
\* Every variable keeps its type (the tables of migrations 008 and 009).
THEOREM TypeCorrect == Spec => []TypeOK
BY InductiveInvariant, PTL DEF IInv

\* delete_account leaves no session, bookmark or subscription, and no request
\* under way in the meantime can bring one back.
THEOREM NothingEverOutlives == Spec => []NothingOutlivesTheAccount
BY InductiveInvariant, PTL DEF IInv

\* However many sign-ins race the check of too_many_failures, the failures on
\* record stay below the budget and the requests in flight taken together, and
\* are on record under one spelling of the address.
THEOREM OverrunIsBounded == Spec => []OverrunBounded
<1>1. IInv => OverrunBounded
  <2> SUFFICES ASSUME IInv PROVE OverrunBounded
    OBVIOUS
  <2>1. ASSUME NEW i \in Addresses \cup Callers
        PROVE  failures[i] < MaxFailedLogins + Cardinality(Requests)
    <3>1. failures[i] \in Nat /\ MaxFailedLogins \in Nat
      BY BudgetAssumption DEF IInv, TypeOK
    <3>2. failures[i] + Cardinality(InFlight(i)) < MaxFailedLogins + Cardinality(Requests)
      BY DEF IInv, Charged
    <3>3. QED BY <3>1, <3>2, InFlightIsFinite, RequestsCounted
  <2>2. ASSUME NEW a \in Addresses, NEW b \in Addresses,
               Fold[a] = Fold[b], failures[a] > 0, failures[b] > 0
        PROVE  a = b
    BY <2>2 DEF IInv, CountedFolded
  <2>3. QED BY <2>1, <2>2 DEF OverrunBounded
<1>2. QED BY <1>1, InductiveInvariant, PTL

=============================================================================
