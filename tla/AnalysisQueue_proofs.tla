------------------------ MODULE AnalysisQueue_proofs ------------------------
(***************************************************************************)
(* What AnalysisQueue guarantees for every set of articles, of passes and  *)
(* of limits, and for every value of the retry policy.                     *)
(***************************************************************************)
EXTENDS AnalysisQueue, FiniteSetTheorems, TLAPS

\* A pass that is not running holds nothing and has counted nothing.
AtRest ==
  \A p \in Passes :
    pc[p] \in {"idle", "down"} => Held(p) = {} /\ consecutive[p] = 0

\* A pass only holds articles that are stored.
HeldIsStored == \A p \in Passes : Held(p) \subseteq Stored

\* A row that is not stored yet was never charged.
AbsentIsFresh == \A a \in Articles : status[a] = "absent" => attempts[a] = 0

\* Between its two writes about an article a pass has the reply on record.
ReplyOnRecord ==
  \A p \in Passes, a \in Articles :
    pc[p] = "mark" /\ Current(p, a) => <<a, verdict[p]>> \in rows

\* The inductive invariant of any number of overlapping passes.
IInv ==
  /\ TypeOK
  /\ AtRest
  /\ HeldIsStored
  /\ AbsentIsFresh
  /\ ReplyOnRecord
  /\ QueueIsNotStuck
  /\ SettledCarriesAnalysis
  /\ RetiredIsExhausted
  /\ AbortForgets

-----------------------------------------------------------------------------
(***************************************************************************)
(* Types.                                                                  *)
(***************************************************************************)

LEMMA FirstByIdIsASubset == \A S, n : FirstById(S, n) \subseteq S
BY DEF FirstById

LEMMA DueIsPending == Due \subseteq Pending \ gold /\ Pending \subseteq Articles
BY DEF Due, Pending

LEMMA RestedIsNat == Rested \in Nat
BY PolicyAssumption DEF Rested

LEMMA InitTypeOK == Init => TypeOK
BY RestedIsNat DEF Init, TypeOK, Statuses, Verdicts

LEMMA NextTypeOK == TypeOK /\ [Next]_vars => TypeOK'
<1> SUFFICES ASSUME TypeOK, [Next]_vars PROVE TypeOK'
  OBVIOUS
<1> USE DEF TypeOK
<1>1. ASSUME NEW p \in Passes, NEW limit \in Limits, LoadPending(p, limit)
      PROVE  TypeOK'
  <2>1. FirstById(Due, limit) \subseteq Articles
    BY FirstByIdIsASubset, DueIsPending
  <2>2. QED
    BY <1>1, <2>1 DEF LoadPending, articleVars, trackerVars
<1>2. ASSUME NEW p \in Passes, NEW a \in Articles, RecordFailure(p, a)
      PROVE  TypeOK'
  BY <1>2 DEF RecordFailure, articleVars
<1>3. ASSUME NEW p \in Passes, NEW a \in Articles, RecordSuccess(p, a)
      PROVE  TypeOK'
  BY <1>3 DEF RecordSuccess, articleVars
<1>4. ASSUME NEW p \in Passes, NEW a \in Articles, SaveAnalysis(p, a)
      PROVE  TypeOK'
  BY <1>4 DEF SaveAnalysis, articleVars, trackerVars
<1>5. ASSUME NEW p \in Passes, NEW a \in Articles, MarkAnalyzed(p, a)
      PROVE  TypeOK'
  BY <1>5 DEF MarkAnalyzed, trackerVars, Outcome, Statuses
<1>6. ASSUME NEW p \in Passes, BumpAttempts(p)
      PROVE  TypeOK'
  BY <1>6 DEF BumpAttempts, Statuses
<1>7. ASSUME NEW p \in Passes, Crash(p) \/ Restart(p)
      PROVE  TypeOK'
  BY <1>7 DEF Crash, Restart, articleVars, trackerVars
<1>8. ASSUME NEW a \in Articles, Arrive(a)
      PROVE  TypeOK'
  BY <1>8 DEF Arrive, Statuses, passVars
<1>9. ASSUME NEW S \in SUBSET Articles, Reanalyze(S)
      PROVE  TypeOK'
  BY <1>9, RestedIsNat DEF Reanalyze, Statuses, passVars
<1>10. ASSUME Hour PROVE TypeOK'
  BY <1>10 DEF Hour, passVars
<1>11. ASSUME Backend PROVE TypeOK'
  BY <1>11 DEF Backend, articleVars, passVars
<1>12. ASSUME NEW S \in SUBSET Articles, LoadGold(S) PROVE TypeOK'
  BY <1>12 DEF LoadGold, articleVars, passVars
<1>13. ASSUME UNCHANGED vars PROVE TypeOK'
  BY <1>13 DEF vars, articleVars, passVars
<1>14. QED
  BY <1>1, <1>2, <1>3, <1>4, <1>5, <1>6, <1>7, <1>8, <1>9, <1>10, <1>11, <1>12, <1>13
     DEF Next, Step

\* Every variable keeps its type: statuses are those migrations/001 admits, and
\* the retry counter and the tracker of a pass stay natural numbers.
THEOREM TypeCorrect == Spec => []TypeOK
BY InitTypeOK, NextTypeOK, PTL DEF Spec

-----------------------------------------------------------------------------
(***************************************************************************)
(* The invariant, for any number of overlapping passes.                    *)
(***************************************************************************)

LEMMA InitIInv == Init => IInv
<1> SUFFICES ASSUME Init PROVE IInv
  OBVIOUS
<1>1. TypeOK
  BY InitTypeOK
<1>2. \A p \in Passes : Held(p) = {} /\ consecutive[p] = 0
  BY DEF Init, Held
<1>3. AtRest /\ HeldIsStored /\ AbortForgets
  BY <1>2 DEF AtRest, HeldIsStored, AbortForgets
<1>4. QueueIsNotStuck /\ SettledCarriesAnalysis /\ RetiredIsExhausted /\ AbsentIsFresh
  BY PolicyAssumption
  DEF Init, QueueIsNotStuck, SettledCarriesAnalysis, RetiredIsExhausted, AbsentIsFresh
<1>5. ReplyOnRecord
  BY DEF Init, ReplyOnRecord
<1>6. QED
  BY <1>1, <1>3, <1>4, <1>5 DEF IInv

LEMMA NextIInv == IInv /\ [Next]_vars => IInv'
<1> SUFFICES ASSUME IInv, [Next]_vars PROVE IInv'
  OBVIOUS
<1>0. TypeOK /\ TypeOK'
  BY NextTypeOK DEF IInv
<1> USE <1>0
<1> USE DEF IInv
<1>1. ASSUME NEW p \in Passes, NEW limit \in Limits, LoadPending(p, limit)
      PROVE  IInv'
  <2>1. FirstById(Due, limit) \subseteq Stored
    BY FirstByIdIsASubset, DueIsPending DEF Pending, Stored
  <2>2. /\ UNCHANGED <<status, attempts, rows, consecutive, charged, verdict>>
        /\ pc' = [pc EXCEPT ![p] = "loop"]
        /\ todo' = [todo EXCEPT ![p] = FirstById(Due, limit)]
        /\ pc[p] = "idle"
    BY <1>1 DEF LoadPending, articleVars, trackerVars
  <2>3. AtRest'
    BY <2>2 DEF TypeOK, AtRest, Held
  <2>4. HeldIsStored'
    BY <2>1, <2>2 DEF TypeOK, HeldIsStored, Held, Stored
  <2>5. ReplyOnRecord'
    BY <2>2 DEF TypeOK, ReplyOnRecord, Current
  <2>6. AbortForgets'
    <3>1. consecutive[p] < CONSECUTIVE_FAILURE_LIMIT
      BY <2>2, PolicyAssumption DEF AtRest
    <3>2. QED
      BY <2>2, <3>1, PolicyAssumption DEF TypeOK, AbortForgets, Held
  <2>7. (QueueIsNotStuck /\ SettledCarriesAnalysis /\ RetiredIsExhausted /\ AbsentIsFresh)'
    BY <2>2 DEF QueueIsNotStuck, SettledCarriesAnalysis, RetiredIsExhausted, AbsentIsFresh
  <2>8. QED
    BY <2>3, <2>4, <2>5, <2>6, <2>7
<1>2. ASSUME NEW p \in Passes, NEW a \in Articles, RecordFailure(p, a)
      PROVE  IInv'
  <2>1. /\ UNCHANGED <<status, attempts, rows, pc, verdict>>
        /\ pc[p] = "loop" /\ a \in todo[p]
        /\ consecutive' = [consecutive EXCEPT ![p] = @ + 1]
    BY <1>2 DEF RecordFailure, articleVars, Current
  <2>2. /\ \A q \in Passes \ {p} : Held(q)' = Held(q) /\ todo'[q] = todo[q]
        /\ Held(p)' \subseteq Held(p)
        /\ consecutive[p] + 1 >= CONSECUTIVE_FAILURE_LIMIT => Held(p)' = {}
    BY <1>2, <2>1, PolicyAssumption DEF RecordFailure, Aborts, TypeOK, Held
  <2>3. AtRest'
    BY <2>1, <2>2 DEF TypeOK, AtRest
  <2>4. HeldIsStored'
    BY <2>1, <2>2 DEF HeldIsStored, Stored
  <2>5. ReplyOnRecord'
    BY <2>1, <2>2 DEF ReplyOnRecord, Current
  <2>6. AbortForgets'
    BY <2>1, <2>2 DEF TypeOK, AbortForgets
  <2>7. (QueueIsNotStuck /\ SettledCarriesAnalysis /\ RetiredIsExhausted /\ AbsentIsFresh)'
    BY <2>1 DEF QueueIsNotStuck, SettledCarriesAnalysis, RetiredIsExhausted, AbsentIsFresh
  <2>8. QED
    BY <2>3, <2>4, <2>5, <2>6, <2>7
<1>3. ASSUME NEW p \in Passes, NEW a \in Articles, RecordSuccess(p, a)
      PROVE  IInv'
  <2>1. /\ UNCHANGED <<status, attempts, rows, todo, charged>>
        /\ pc[p] = "loop" /\ pc' = [pc EXCEPT ![p] = "save"]
        /\ consecutive' = [consecutive EXCEPT ![p] = 0]
        /\ \A q \in Passes \ {p} : verdict'[q] = verdict[q]
    BY <1>3 DEF RecordSuccess, articleVars, TypeOK
  <2>2. \A q \in Passes : Held(q)' = Held(q)
    BY <2>1 DEF Held
  <2>3. AtRest' /\ HeldIsStored'
    BY <2>1, <2>2 DEF TypeOK, AtRest, HeldIsStored, Stored
  <2>4. ReplyOnRecord'
    BY <2>1 DEF TypeOK, ReplyOnRecord, Current
  <2>5. AbortForgets'
    BY <2>1, <2>2, PolicyAssumption DEF TypeOK, AbortForgets
  <2>6. (QueueIsNotStuck /\ SettledCarriesAnalysis /\ RetiredIsExhausted /\ AbsentIsFresh)'
    BY <2>1 DEF QueueIsNotStuck, SettledCarriesAnalysis, RetiredIsExhausted, AbsentIsFresh
  <2>7. QED
    BY <2>3, <2>4, <2>5, <2>6
<1>4. ASSUME NEW p \in Passes, NEW a \in Articles, SaveAnalysis(p, a)
      PROVE  IInv'
  <2>1. /\ UNCHANGED <<status, attempts, todo, charged, consecutive, verdict>>
        /\ pc[p] = "save" /\ pc' = [pc EXCEPT ![p] = "mark"]
        /\ a \in todo[p] /\ \A b \in todo[p] : a <= b
        /\ rows' = rows \cup {<<a, verdict[p]>>}
    BY <1>4 DEF SaveAnalysis, articleVars, trackerVars, Current
  <2>2. \A q \in Passes : Held(q)' = Held(q)
    BY <2>1 DEF Held
  <2>3. AtRest' /\ HeldIsStored' /\ AbortForgets'
    BY <2>1, <2>2 DEF TypeOK, AtRest, HeldIsStored, Stored, AbortForgets
  <2>4. ReplyOnRecord'
    <3> SUFFICES ASSUME NEW q \in Passes, NEW b \in Articles, pc'[q] = "mark", Current(q, b)'
                 PROVE  <<b, verdict'[q]>> \in rows'
      BY DEF ReplyOnRecord
    <3>1. CASE q = p
      <4>1. a \in Nat /\ b \in Nat /\ a <= b /\ b <= a
        BY <2>1, <3>1, ArticlesAssumption DEF Current
      <4>2. a = b
        BY <4>1
      <4>3. QED
        BY <2>1, <3>1, <4>2
    <3>2. CASE q # p
      BY <2>1, <3>2 DEF TypeOK, ReplyOnRecord, Current
    <3>3. QED
      BY <3>1, <3>2
  <2>5. (QueueIsNotStuck /\ SettledCarriesAnalysis /\ RetiredIsExhausted /\ AbsentIsFresh)'
    BY <2>1 DEF QueueIsNotStuck, SettledCarriesAnalysis, RetiredIsExhausted, AbsentIsFresh
  <2>6. QED
    BY <2>3, <2>4, <2>5
<1>5. ASSUME NEW p \in Passes, NEW a \in Articles, MarkAnalyzed(p, a)
      PROVE  IInv'
  <2>1. /\ UNCHANGED <<attempts, rows, charged, consecutive, verdict>>
        /\ pc[p] = "mark" /\ pc' = [pc EXCEPT ![p] = "loop"]
        /\ todo' = [todo EXCEPT ![p] = @ \ {a}]
        /\ status' = [status EXCEPT ![a] = Outcome(verdict[p])]
        /\ <<a, verdict[p]>> \in rows
    BY <1>5 DEF MarkAnalyzed, trackerVars, ReplyOnRecord
  <2>2. Outcome(verdict[p]) \in {"analyzed", "failed"}
    BY DEF Outcome
  <2>3. \A q \in Passes : Held(q)' \subseteq Held(q)
    BY <2>1 DEF Held, TypeOK
  <2>4. Stored \subseteq Stored'
    BY <2>1, <2>2 DEF TypeOK, Stored
  <2>5. AtRest' /\ HeldIsStored' /\ AbortForgets'
    BY <2>1, <2>3, <2>4 DEF TypeOK, AtRest, HeldIsStored, AbortForgets
  <2>6. ReplyOnRecord'
    BY <2>1 DEF TypeOK, ReplyOnRecord, Current
  <2>7. SettledCarriesAnalysis'
    BY <2>1, <2>2 DEF TypeOK, SettledCarriesAnalysis, Outcome, Verdicts
  <2>8. (QueueIsNotStuck /\ RetiredIsExhausted /\ AbsentIsFresh)'
    BY <2>1, <2>2 DEF TypeOK, QueueIsNotStuck, RetiredIsExhausted, AbsentIsFresh
  <2>9. QED
    BY <2>5, <2>6, <2>7, <2>8
<1>6. ASSUME NEW p \in Passes, BumpAttempts(p)
      PROVE  IInv'
  <2>1. /\ UNCHANGED <<rows, todo, verdict>>
        /\ pc[p] = "loop" /\ todo[p] = {}
        /\ pc' = [pc EXCEPT ![p] = "idle"]
        /\ consecutive' = [consecutive EXCEPT ![p] = 0]
        /\ charged' = [charged EXCEPT ![p] = {}]
    BY <1>6 DEF BumpAttempts
  <2>2. \A b \in Articles :
          \/ /\ b \in charged[p]
             /\ attempts'[b] = attempts[b] + 1
             /\ status'[b] = IF attempts[b] + 1 >= MAX_ATTEMPTS
                             THEN "failed_permanent" ELSE status[b]
          \/ attempts'[b] = attempts[b] /\ status'[b] = status[b]
    BY <1>6 DEF BumpAttempts, Retires
  <2>3. \A q \in Passes : Held(q)' \subseteq Held(q) /\ Held(p)' = {}
    BY <2>1 DEF Held, TypeOK
  <2>4. Stored \subseteq Stored'
    BY <2>2 DEF Stored
  <2>5. AtRest' /\ HeldIsStored' /\ AbortForgets'
    BY <2>1, <2>3, <2>4, PolicyAssumption DEF TypeOK, AtRest, HeldIsStored, AbortForgets
  <2>6. ReplyOnRecord'
    BY <2>1 DEF TypeOK, ReplyOnRecord, Current
  <2>7. charged[p] \subseteq Stored
    BY DEF HeldIsStored, Held
  <2>8. AbsentIsFresh'
    BY <2>2, <2>7 DEF AbsentIsFresh, Stored
  <2>9. (QueueIsNotStuck /\ RetiredIsExhausted)'
    BY <2>2, PolicyAssumption DEF TypeOK, QueueIsNotStuck, RetiredIsExhausted
  <2>10. SettledCarriesAnalysis'
    BY <2>1, <2>2 DEF SettledCarriesAnalysis
  <2>11. QED
    BY <2>5, <2>6, <2>8, <2>9, <2>10
<1>7. ASSUME NEW p \in Passes, Crash(p) \/ Restart(p)
      PROVE  IInv'
  <2>1. /\ UNCHANGED <<status, attempts, rows, verdict>>
        /\ pc' \in {[pc EXCEPT ![p] = "down"], [pc EXCEPT ![p] = "idle"]}
        /\ \A q \in Passes \ {p} : UNCHANGED <<todo[q], charged[q], consecutive[q]>>
    BY <1>7 DEF Crash, Restart, articleVars, trackerVars, TypeOK
  <2>2. Held(p)' = {} /\ consecutive'[p] = 0
    BY <1>7 DEF Crash, Restart, trackerVars, TypeOK, AtRest, Held
  <2>3. \A q \in Passes : Held(q)' \subseteq Held(q)
    BY <2>1, <2>2 DEF Held
  <2>4. AtRest' /\ HeldIsStored' /\ AbortForgets'
    BY <2>1, <2>2, <2>3, PolicyAssumption DEF TypeOK, AtRest, HeldIsStored, Stored, AbortForgets
  <2>5. ReplyOnRecord'
    BY <2>1 DEF TypeOK, ReplyOnRecord, Current
  <2>6. (QueueIsNotStuck /\ SettledCarriesAnalysis /\ RetiredIsExhausted /\ AbsentIsFresh)'
    BY <2>1 DEF QueueIsNotStuck, SettledCarriesAnalysis, RetiredIsExhausted, AbsentIsFresh
  <2>7. QED
    BY <2>4, <2>5, <2>6
<1>8. ASSUME NEW a \in Articles, Arrive(a)
      PROVE  IInv'
  <2>1. /\ UNCHANGED <<attempts, rows, pc, todo, charged, consecutive, verdict>>
        /\ status[a] = "absent" /\ status' = [status EXCEPT ![a] = "pending"]
    BY <1>8 DEF Arrive, passVars
  <2>2. Stored \subseteq Stored'
    BY <2>1 DEF TypeOK, Stored
  <2>3. AtRest' /\ HeldIsStored' /\ AbortForgets' /\ ReplyOnRecord'
    BY <2>1, <2>2 DEF AtRest, HeldIsStored, AbortForgets, ReplyOnRecord, Held, Current
  <2>4. (QueueIsNotStuck /\ SettledCarriesAnalysis /\ RetiredIsExhausted /\ AbsentIsFresh)'
    BY <2>1, PolicyAssumption
    DEF TypeOK, QueueIsNotStuck, SettledCarriesAnalysis, RetiredIsExhausted, AbsentIsFresh
  <2>5. QED
    BY <2>3, <2>4
<1>9. ASSUME NEW S \in SUBSET Articles, Reanalyze(S)
      PROVE  IInv'
  <2>1. /\ UNCHANGED <<rows, pc, todo, charged, consecutive, verdict>>
        /\ \A b \in Articles :
             \/ b \in S /\ status'[b] = "pending" /\ attempts'[b] = 0
             \/ status'[b] = status[b] /\ attempts'[b] = attempts[b]
    BY <1>9 DEF Reanalyze, passVars
  <2>2. Stored \subseteq Stored'
    BY <2>1 DEF Stored
  <2>3. AtRest' /\ HeldIsStored' /\ AbortForgets' /\ ReplyOnRecord'
    BY <2>1, <2>2 DEF AtRest, HeldIsStored, AbortForgets, ReplyOnRecord, Held, Current
  <2>4. (QueueIsNotStuck /\ SettledCarriesAnalysis /\ RetiredIsExhausted /\ AbsentIsFresh)'
    BY <2>1, PolicyAssumption
    DEF QueueIsNotStuck, SettledCarriesAnalysis, RetiredIsExhausted, AbsentIsFresh
  <2>5. QED
    BY <2>3, <2>4
<1>10. ASSUME UNCHANGED <<status, attempts, rows, passVars>>
       PROVE  IInv'
  BY <1>10 DEF passVars, AtRest, HeldIsStored, AbsentIsFresh, ReplyOnRecord,
     QueueIsNotStuck, SettledCarriesAnalysis, RetiredIsExhausted, AbortForgets,
     Held, Stored, Current
<1>11. /\ Hour \/ Backend \/ UNCHANGED vars => UNCHANGED <<status, attempts, rows, passVars>>
       /\ \A S \in SUBSET Articles :
            LoadGold(S) => UNCHANGED <<status, attempts, rows, passVars>>
  BY DEF Hour, Backend, LoadGold, vars, articleVars
<1>12. QED
  BY <1>1, <1>2, <1>3, <1>4, <1>5, <1>6, <1>7, <1>8, <1>9, <1>10, <1>11 DEF Next, Step

LEMMA InductiveInvariant == Spec => []IInv
BY InitIInv, NextIInv, PTL DEF Spec

\* evals/audit_data.py "queue is not stuck" can never report an article, however
\* many passes overlap and wherever they die.
THEOREM QueueIsNeverStuck == Spec => []QueueIsNotStuck
<1>1. IInv => QueueIsNotStuck
  BY DEF IInv
<1>2. QED
  BY <1>1, InductiveInvariant, PTL

\* evals/audit_data.py "analysed articles carry an analysis": the row is written
\* before the status, so no crash and no overlap can leave a status without it.
THEOREM SettledAlwaysCarriesAnalysis == Spec => []SettledCarriesAnalysis
<1>1. IInv => SettledCarriesAnalysis
  BY DEF IInv
<1>2. QED
  BY <1>1, InductiveInvariant, PTL

\* Nothing is retired to failed_permanent before its attempts are used up.
THEOREM RetiredIsAlwaysExhausted == Spec => []RetiredIsExhausted
<1>1. IInv => RetiredIsExhausted
  BY DEF IInv
<1>2. QED
  BY <1>1, InductiveInvariant, PTL

\* A pass that hits the consecutive-failure limit charges nobody.
THEOREM AbortAlwaysForgets == Spec => []AbortForgets
<1>1. IInv => AbortForgets
  BY DEF IInv
<1>2. QED
  BY <1>1, InductiveInvariant, PTL

-----------------------------------------------------------------------------
(***************************************************************************)
(* How far overlapping passes can charge an article past the ceiling.      *)
(***************************************************************************)

\* The passes that may yet charge article a.
Holders(a) == {p \in Passes : a \in Held(p)}

LEMMA HoldersAreFew ==
  ASSUME NEW S \in SUBSET Passes
  PROVE  IsFiniteSet(S) /\ Cardinality(S) \in Nat /\ Cardinality(S) <= Cardinality(Passes)
         /\ Cardinality(Passes) \in Nat
BY PassesAssumption, FS_Subset, FS_CardinalityType

\* Letting go of articles, and forgetting attempts, cannot break the bound.
LEMMA FewerHoldersKeepTheBound ==
  ASSUME TypeOK, TypeOK', OverrunBounded,
         NEW a \in Articles, Holders(a)' \subseteq Holders(a), attempts'[a] <= attempts[a]
  PROVE  attempts'[a] + Cardinality(Holders(a)') <= MAX_ATTEMPTS - 1 + Cardinality(Passes)
<1>1. Holders(a) \in SUBSET Passes /\ Holders(a)' \in SUBSET Passes
  BY DEF Holders
<1>2. IsFiniteSet(Holders(a)) /\ Cardinality(Holders(a)) \in Nat
  BY <1>1, HoldersAreFew
<1>3. Cardinality(Holders(a)') <= Cardinality(Holders(a)) /\ Cardinality(Holders(a)') \in Nat
  BY <1>1, <1>2, HoldersAreFew, FS_Subset
<1>4. attempts[a] + Cardinality(Holders(a)) <= MAX_ATTEMPTS - 1 + Cardinality(Passes)
  BY DEF OverrunBounded, Holders
<1>5. attempts[a] \in Nat /\ attempts'[a] \in Nat /\ Cardinality(Passes) \in Nat
  BY HoldersAreFew DEF TypeOK
<1>6. QED
  BY <1>2, <1>3, <1>4, <1>5, PolicyAssumption

LEMMA NextOverrunBounded == IInv /\ OverrunBounded /\ [Next]_vars => OverrunBounded'
<1> SUFFICES ASSUME IInv, OverrunBounded, [Next]_vars, NEW a \in Articles
             PROVE  attempts'[a] + Cardinality(Holders(a)')
                      <= MAX_ATTEMPTS - 1 + Cardinality(Passes)
  BY DEF OverrunBounded, Holders
<1>0. TypeOK /\ TypeOK'
  BY NextTypeOK DEF IInv
<1> DEFINE Loosens == Holders(a)' \subseteq Holders(a) /\ attempts'[a] <= attempts[a]
<1>1. SUFFICES ASSUME ~Loosens
               PROVE  attempts'[a] + Cardinality(Holders(a)')
                        <= MAX_ATTEMPTS - 1 + Cardinality(Passes)
  BY <1>0, FewerHoldersKeepTheBound
<1>2. ASSUME NEW p \in Passes, NEW limit \in Limits, LoadPending(p, limit)
      PROVE  attempts'[a] + Cardinality(Holders(a)')
               <= MAX_ATTEMPTS - 1 + Cardinality(Passes)
  <2>1. /\ UNCHANGED <<attempts, charged>>
        /\ \A q \in Passes \ {p} : todo'[q] = todo[q]
        /\ todo'[p] \subseteq Pending
    BY <1>0, <1>2, FirstByIdIsASubset, DueIsPending DEF TypeOK, LoadPending, articleVars, trackerVars
  <2>2. a \in todo'[p]
    BY <1>0, <1>1, <2>1 DEF Holders, Held, TypeOK
  <2>3. attempts[a] < MAX_ATTEMPTS
    BY <2>1, <2>2 DEF IInv, QueueIsNotStuck, Pending
  <2>4. Holders(a)' \in SUBSET Passes
    BY DEF Holders
  <2>5. QED
    BY <1>0, <2>1, <2>3, <2>4, HoldersAreFew, PolicyAssumption DEF TypeOK
<1>3. ASSUME NEW p \in Passes, BumpAttempts(p)
      PROVE  attempts'[a] + Cardinality(Holders(a)')
               <= MAX_ATTEMPTS - 1 + Cardinality(Passes)
  <2>1. /\ todo' = todo /\ todo[p] = {}
        /\ charged' = [charged EXCEPT ![p] = {}]
        /\ attempts'[a] = IF a \in charged[p] THEN attempts[a] + 1 ELSE attempts[a]
    BY <1>3 DEF BumpAttempts
  <2>2. Holders(a)' = Holders(a) \ {p}
    BY <1>0, <2>1 DEF Holders, Held, TypeOK
  <2>3. a \in charged[p] /\ p \in Holders(a)
    BY <1>0, <1>1, <2>1, <2>2 DEF Holders, Held, TypeOK
  <2>4. IsFiniteSet(Holders(a)) /\ Cardinality(Holders(a)) \in Nat
    BY HoldersAreFew DEF Holders
  <2>5. Cardinality(Holders(a)') = Cardinality(Holders(a)) - 1
    BY <2>2, <2>3, <2>4, FS_RemoveElement
  <2>6. attempts[a] + Cardinality(Holders(a)) <= MAX_ATTEMPTS - 1 + Cardinality(Passes)
    BY DEF OverrunBounded, Holders
  <2>7. attempts[a] \in Nat /\ Cardinality(Passes) \in Nat
    BY <1>0, HoldersAreFew DEF TypeOK
  <2>8. QED
    BY <2>1, <2>3, <2>4, <2>5, <2>6, <2>7, PolicyAssumption
<1>4. ASSUME NEW S \in SUBSET Articles, Reanalyze(S)
      PROVE  Loosens
  BY <1>0, <1>4 DEF Reanalyze, passVars, Holders, Held, TypeOK
<1>5. ASSUME NEW p \in Passes, NEW b \in Articles,
             RecordFailure(p, b) \/ RecordSuccess(p, b) \/ SaveAnalysis(p, b) \/ MarkAnalyzed(p, b)
      PROVE  Loosens
  <2>1. attempts' = attempts
    BY <1>5 DEF RecordFailure, RecordSuccess, SaveAnalysis, MarkAnalyzed, articleVars
  <2>2. \A q \in Passes : Held(q)' \subseteq Held(q)
    BY <1>0, <1>5 DEF RecordFailure, RecordSuccess, SaveAnalysis, MarkAnalyzed,
       trackerVars, Held, TypeOK, Current
  <2>3. QED
    BY <1>0, <2>1, <2>2 DEF Holders, TypeOK
<1>6. ASSUME NEW p \in Passes, Crash(p) \/ Restart(p)
      PROVE  Loosens
  <2>1. attempts' = attempts /\ \A q \in Passes : Held(q)' \subseteq Held(q)
    BY <1>0, <1>6 DEF Crash, Restart, articleVars, trackerVars, Held, TypeOK
  <2>2. QED
    BY <1>0, <2>1 DEF Holders, TypeOK
<1>7. ASSUME \/ (\E b \in Articles : Arrive(b)) \/ Hour \/ Backend \/ UNCHANGED vars
             \/ \E S \in SUBSET Articles : LoadGold(S)
      PROVE  Loosens
  <2>1. UNCHANGED <<attempts, todo, charged>>
    BY <1>7 DEF Arrive, Hour, Backend, LoadGold, vars, articleVars, passVars, trackerVars
  <2>2. QED
    BY <1>0, <2>1 DEF Holders, Held, TypeOK
<1>8. QED
  BY <1>1, <1>2, <1>3, <1>4, <1>5, <1>6, <1>7 DEF Next, Step

\* Passes that overlap charge an article past the ceiling by at most one each,
\* however many there are: whoever still holds it may add one more, and nobody
\* loads it again.
THEOREM OverrunIsBounded == Spec => []OverrunBounded
<1>1. Init => OverrunBounded
  <2> SUFFICES ASSUME Init, NEW a \in Articles
               PROVE  attempts[a] + Cardinality(Holders(a))
                        <= MAX_ATTEMPTS - 1 + Cardinality(Passes)
    BY DEF OverrunBounded, Holders
  <2>1. Holders(a) \in SUBSET Passes /\ attempts[a] = 0
    BY DEF Init, Holders
  <2>2. QED
    BY <2>1, HoldersAreFew, PolicyAssumption
<1>2. QED
  BY <1>1, NextOverrunBounded, InductiveInvariant, PTL DEF Spec

-----------------------------------------------------------------------------
(***************************************************************************)
(* One analyzer.  The rest holds when a single pass runs at a time, as the *)
(* compose file deploys it; QueueOverlapHeld.cfg shows two passes break it.*)
(***************************************************************************)

SoleAnalyzer == \A p, q \in Passes : p = q

\* What the pass holds is still due, and no article is both yet to be analysed
\* and already charged.
SoleInv ==
  /\ HeldIsPending
  /\ \A p \in Passes : \A a \in Held(p) : age[a] > BackOff(attempts[a])
  /\ \A p \in Passes : todo[p] \cap charged[p] = {}

LEMMA InitSoleInv == Init => SoleInv
BY DEF Init, SoleInv, HeldIsPending, Held

LEMMA NextSoleInv ==
  ASSUME SoleAnalyzer, IInv, SoleInv, [Next]_vars
  PROVE  SoleInv'
<1>0. TypeOK /\ AtRest /\ HeldIsStored
  BY DEF IInv
<1> USE <1>0
<1>1. ASSUME NEW p \in Passes, NEW limit \in Limits, LoadPending(p, limit)
      PROVE  SoleInv'
  <2>1. /\ UNCHANGED <<status, attempts, age, charged>>
        /\ todo'[p] = FirstById(Due, limit) /\ todo[p] = {} /\ charged[p] = {}
    BY <1>1 DEF LoadPending, articleVars, trackerVars, TypeOK, AtRest, Held
  <2>2. Held(p)' \subseteq Due
    BY <2>1, FirstByIdIsASubset DEF Held
  <2>3. \A q \in Passes : q = p
    BY DEF SoleAnalyzer
  <2>4. \A a \in Due : a \in Pending /\ age[a] > BackOff(attempts[a])
    BY DEF Due
  <2>5. Pending' = Pending
    BY <2>1 DEF Pending
  <2>6. QED
    BY <2>1, <2>2, <2>3, <2>4, <2>5 DEF SoleInv, HeldIsPending
<1>2. ASSUME NEW p \in Passes, NEW a \in Articles, RecordFailure(p, a)
      PROVE  SoleInv'
  <2>1. UNCHANGED <<status, attempts, age>>
    BY <1>2 DEF RecordFailure, articleVars
  <2>2. \A q \in Passes : Held(q)' \subseteq Held(q) /\ (todo[q] \cap charged[q])' = {}
    BY <1>2 DEF RecordFailure, Current, TypeOK, Held, SoleInv
  <2>3. QED
    BY <2>1, <2>2 DEF SoleInv, HeldIsPending, Pending
<1>3. ASSUME NEW p \in Passes, NEW a \in Articles, MarkAnalyzed(p, a)
      PROVE  SoleInv'
  <2>1. /\ UNCHANGED <<attempts, age, charged>>
        /\ a \in todo[p] /\ a \notin charged[p]
        /\ todo' = [todo EXCEPT ![p] = @ \ {a}]
        /\ status' = [status EXCEPT ![a] = Outcome(verdict[p])]
    BY <1>3 DEF MarkAnalyzed, Current, trackerVars, SoleInv
  <2>2. \A q \in Passes : Held(q)' \subseteq Held(q) \ {a} /\ (todo[q] \cap charged[q])' = {}
    BY <2>1 DEF TypeOK, Held, SoleInv, SoleAnalyzer
  <2>3. Pending \ {a} \subseteq Pending'
    BY <2>1 DEF TypeOK, Pending
  <2>4. QED
    BY <2>1, <2>2, <2>3 DEF SoleInv, HeldIsPending
<1>4. ASSUME NEW p \in Passes, BumpAttempts(p)
      PROVE  SoleInv'
  <2>1. \A q \in Passes : Held(q)' = {}
    BY <1>4 DEF BumpAttempts, TypeOK, Held, SoleAnalyzer
  <2>2. QED
    BY <2>1 DEF SoleInv, HeldIsPending, Held
<1>5. ASSUME NEW p \in Passes, Crash(p) \/ Restart(p)
      PROVE  SoleInv'
  <2>1. UNCHANGED <<status, attempts, age>>
    BY <1>5 DEF Crash, Restart, articleVars
  <2>2. \A q \in Passes : Held(q)' \subseteq Held(q) /\ (todo[q] \cap charged[q])' = {}
    BY <1>5 DEF Crash, Restart, trackerVars, TypeOK, Held, SoleInv
  <2>3. QED
    BY <2>1, <2>2 DEF SoleInv, HeldIsPending, Pending
<1>6. ASSUME NEW a \in Articles, Arrive(a)
      PROVE  SoleInv'
  <2>1. /\ UNCHANGED <<attempts, age, todo, charged>>
        /\ status' = [status EXCEPT ![a] = "pending"]
    BY <1>6 DEF Arrive, passVars
  <2>2. Pending \subseteq Pending'
    BY <2>1 DEF TypeOK, Pending
  <2>3. QED
    BY <2>1, <2>2 DEF SoleInv, HeldIsPending, Held
<1>7. ASSUME NEW S \in SUBSET Articles, Reanalyze(S)
      PROVE  SoleInv'
  <2>1. /\ UNCHANGED <<todo, charged>>
        /\ \A b \in Articles \ S : UNCHANGED <<status[b], attempts[b], age[b]>>
        /\ \A b \in S : status[b] = "analyzed" /\ status'[b] = "pending"
    BY <1>7 DEF Reanalyze, passVars
  <2>2. Pending \subseteq Pending' /\ Pending \subseteq Articles \ S
    BY <2>1 DEF Pending
  <2>3. QED
    BY <2>1, <2>2 DEF SoleInv, HeldIsPending, Held
<1>8. ASSUME Hour
      PROVE  SoleInv'
  <2>1. /\ UNCHANGED <<status, attempts, todo, charged>>
        /\ \A b \in Articles : age[b] \in Nat /\ age'[b] \in Nat /\ age'[b] >= age[b]
    BY <1>8 DEF Hour, passVars, TypeOK
  <2>2. ASSUME NEW p \in Passes, NEW b \in Held(p)
        PROVE  age'[b] > BackOff(attempts[b])
    <3>1. b \in Articles /\ age[b] > BackOff(attempts[b])
      BY DEF SoleInv, HeldIsPending, Pending
    <3>2. BackOff(attempts[b]) \in Nat
      BY <3>1, PolicyAssumption DEF TypeOK, BackOff
    <3>3. QED
      BY <2>1, <3>1, <3>2
  <2>3. QED
    BY <2>1, <2>2 DEF SoleInv, HeldIsPending, Pending, Held
<1>9. ASSUME UNCHANGED <<articleVars, todo, charged>>
      PROVE  SoleInv'
  BY <1>9 DEF articleVars, SoleInv, HeldIsPending, Pending, Held
<1>10. ASSUME NEW p \in Passes, NEW a \in Articles, RecordSuccess(p, a) \/ SaveAnalysis(p, a)
       PROVE  UNCHANGED <<articleVars, todo, charged>>
  BY <1>10 DEF RecordSuccess, SaveAnalysis, trackerVars
<1>11. /\ Backend \/ UNCHANGED vars => UNCHANGED <<articleVars, todo, charged>>
       /\ \A S \in SUBSET Articles : LoadGold(S) => UNCHANGED <<articleVars, todo, charged>>
  BY DEF Backend, LoadGold, vars, passVars, trackerVars
<1>12. QED
  BY <1>1, <1>2, <1>3, <1>4, <1>5, <1>6, <1>7, <1>8, <1>9, <1>10, <1>11 DEF Next, Step

LEMMA SoleInvariant ==
  ASSUME SoleAnalyzer
  PROVE  Spec => [](IInv /\ SoleInv)
<1>1. IInv /\ SoleInv /\ [Next]_vars => (IInv /\ SoleInv)'
  BY NextIInv, NextSoleInv
<1>2. QED
  BY <1>1, InitIInv, InitSoleInv, PTL DEF Spec

\* A sole analyzer only ever writes about articles that are still in the queue.
THEOREM SoleAnalyzerHoldsPending ==
  ASSUME SoleAnalyzer
  PROVE  Spec => []HeldIsPending
<1>1. SoleInv => HeldIsPending
  BY DEF SoleInv
<1>2. QED
  BY <1>1, SoleInvariant, PTL

\* A sole analyzer never charges an article inside its back-off: between the
\* n-th charge and the next lie more than n back-off periods.
THEOREM SoleAnalyzerRespectsBackOff ==
  ASSUME SoleAnalyzer
  PROVE  Spec => BackOffRespected
<1>1. IInv /\ SoleInv /\ [Next]_vars =>
        [\A a \in Articles : attempts'[a] > attempts[a] => age[a] > BackOff(attempts[a])]_vars
  <2> SUFFICES ASSUME IInv, SoleInv, [Next]_vars, NEW a \in Articles, attempts'[a] > attempts[a]
               PROVE  age[a] > BackOff(attempts[a])
    OBVIOUS
  <2>1. attempts \in [Articles -> Nat]
    BY DEF IInv, TypeOK
  <2>2. CASE \E p \in Passes : BumpAttempts(p)
    <3>1. PICK p \in Passes : BumpAttempts(p)
      BY <2>2
    <3>2. a \in charged[p]
      BY <2>1, <3>1 DEF BumpAttempts
    <3>3. QED
      BY <3>2 DEF SoleInv, Held
  <2>3. CASE \E S \in SUBSET Articles : Reanalyze(S)
    BY <2>1, <2>3 DEF Reanalyze
  <2>4. CASE UNCHANGED attempts
    BY <2>1, <2>4
  <2>5. QED
    BY <2>2, <2>3, <2>4 DEF Next, Step, LoadPending, RecordFailure, RecordSuccess,
       SaveAnalysis, MarkAnalyzed, Crash, Restart, Arrive, Hour, Backend, LoadGold, vars, articleVars
<1>2. QED
  BY <1>1, SoleInvariant, PTL DEF Spec, BackOffRespected

LEMMA NextImplementsContract ==
  ASSUME SoleAnalyzer, IInv, SoleInv, [Next]_vars
  PROVE  [Contract!Next]_(Contract!cvars)
<1> USE DEF Contract!BackOff, Contract!Rested, Contract!Waiting, Contract!cvars
<1>0. TypeOK
  BY DEF IInv
<1>1. ASSUME NEW p \in Passes, NEW a \in Articles, SaveAnalysis(p, a)
      PROVE  Contract!Next
  <2>1. verdict[p] \in {"parsed", "unparsed"}
    BY <1>0 DEF TypeOK, Verdicts
  <2>2. a \in Pending
    BY <1>1 DEF SaveAnalysis, Current, SoleInv, HeldIsPending, Held
  <2>3. Contract!Record(a, verdict[p])
    BY <1>1, <2>2 DEF SaveAnalysis, Contract!Record, articleVars, Pending
  <2>4. QED
    BY <2>1, <2>3 DEF Contract!Next
<1>2. ASSUME NEW p \in Passes, NEW a \in Articles, MarkAnalyzed(p, a)
      PROVE  Contract!Next
  <2>1. verdict[p] \in {"parsed", "unparsed"}
    BY <1>0 DEF TypeOK, Verdicts
  <2>2. a \in Pending
    BY <1>2 DEF MarkAnalyzed, Current, SoleInv, HeldIsPending, Held
  <2>3. <<a, verdict[p]>> \in rows
    BY <1>2 DEF MarkAnalyzed, IInv, ReplyOnRecord
  <2>4. Contract!Settle(a, verdict[p])
    BY <1>2, <2>2, <2>3 DEF MarkAnalyzed, Contract!Settle, Outcome, Pending
  <2>5. QED
    BY <2>1, <2>4 DEF Contract!Next
<1>3. ASSUME NEW p \in Passes, BumpAttempts(p)
      PROVE  Contract!Next
  <2>1. \A a \in charged[p] : a \in Pending /\ age[a] > BackOff(attempts[a])
    BY DEF SoleInv, HeldIsPending, Held
  <2>2. Contract!Charge(charged[p])
    BY <1>3, <2>1 DEF BumpAttempts, Contract!Charge, Pending, BackOff, Retires
  <2>3. charged[p] \in SUBSET Articles
    BY <1>0 DEF TypeOK
  <2>4. QED
    BY <2>2, <2>3 DEF Contract!Next
<1>4. ASSUME NEW a \in Articles, Arrive(a)
      PROVE  Contract!Next
  BY <1>4 DEF Arrive, Contract!Arrive, Contract!Next
<1>5. ASSUME NEW S \in SUBSET Articles, Reanalyze(S)
      PROVE  Contract!Next
  <2>1. Contract!Requeue(S)
    BY <1>5 DEF Reanalyze, Contract!Requeue, Rested
  <2>2. QED
    BY <2>1 DEF Contract!Next
<1>6. ASSUME Hour
      PROVE  Contract!Next
  BY <1>6 DEF Hour, Contract!Hour, Contract!Next, Rested
<1>7. ASSUME NEW p \in Passes, NEW a \in Articles, RecordFailure(p, a) \/ RecordSuccess(p, a)
      PROVE  UNCHANGED Contract!cvars
  BY <1>7 DEF RecordFailure, RecordSuccess, articleVars
<1>8. ASSUME NEW p \in Passes, Crash(p) \/ Restart(p) \/ (\E limit \in Limits : LoadPending(p, limit))
      PROVE  UNCHANGED Contract!cvars
  BY <1>8 DEF Crash, Restart, LoadPending, articleVars
<1>9. Backend \/ UNCHANGED vars => UNCHANGED Contract!cvars
  BY DEF Backend, vars, articleVars
<1>10. ASSUME NEW S \in SUBSET Articles, LoadGold(S)
       PROVE  Contract!Next
  <2>1. Contract!LoadGold(S)
    BY <1>10 DEF LoadGold, Contract!LoadGold, Stored, articleVars
  <2>2. QED
    BY <2>1 DEF Contract!Next
<1>11. QED
  BY <1>1, <1>2, <1>3, <1>4, <1>5, <1>6, <1>7, <1>8, <1>9, <1>10 DEF Next, Step

\* A sole analyzer implements the contract of QueueContract: every change of an
\* article's status, attempts or age is one of the five the contract allows.
THEOREM SoleAnalyzerImplementsContract ==
  ASSUME SoleAnalyzer
  PROVE  Spec => ImplementsContract
<1>1. Init => Contract!Init
  BY DEF Init, Contract!Init, Rested, Contract!Rested
<1>2. IInv /\ SoleInv /\ [Next]_vars => [Contract!Next]_(Contract!cvars)
  BY NextImplementsContract
<1>3. QED
  BY <1>1, <1>2, SoleInvariant, PTL DEF Spec, ImplementsContract, Contract!Spec

=============================================================================
