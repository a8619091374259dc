--------------------------- MODULE QueueContract ---------------------------
(***************************************************************************)
(* What the columns status, attempts and last_attempt_at of an article     *)
(* promise whoever reads them, when one analyzer works the queue: every    *)
(* change of status is one of five, and each takes the article from where  *)
(* it says.  There are no passes here, no provider and no memory.  An      *)
(* article that a gold load takes up may still be settled or charged, by a *)
(* pass that had it in hand, but never requeued.                           *)
(***************************************************************************)
EXTENDS Integers

CONSTANTS Articles, MAX_ATTEMPTS, RETRY_BACKOFF_HOURS

VARIABLES status, attempts, age, replies, gold

cvars == <<status, attempts, age, replies, gold>>

BackOff(n) == RETRY_BACKOFF_HOURS * n
Rested == RETRY_BACKOFF_HOURS * MAX_ATTEMPTS
Waiting(a) == status[a] = "pending"

Init ==
  /\ gold = {}
  /\ status = [a \in Articles |-> "absent"]
  /\ attempts = [a \in Articles |-> 0]
  /\ age = [a \in Articles |-> Rested]
  /\ replies = {}

Arrive(a) ==
  /\ status[a] = "absent"
  /\ status' = [status EXCEPT ![a] = "pending"]
  /\ UNCHANGED <<attempts, age, replies, gold>>

\* A reply about a waiting article is recorded.
Record(a, v) ==
  /\ Waiting(a)
  /\ replies' = replies \cup {<<a, v>>}
  /\ UNCHANGED <<status, attempts, age, gold>>

\* A waiting article leaves the queue with the verdict of a recorded reply.
Settle(a, v) ==
  /\ Waiting(a)
  /\ <<a, v>> \in replies
  /\ status' = [status EXCEPT ![a] = IF v = "parsed" THEN "analyzed" ELSE "failed"]
  /\ UNCHANGED <<attempts, age, replies, gold>>

\* Waiting articles past their back-off are charged together, each exactly
\* once; those whose attempts that uses up are retired in the same step.
Charge(S) ==
  /\ \A a \in S : Waiting(a) /\ age[a] > BackOff(attempts[a])
  /\ attempts' = [a \in Articles |-> IF a \in S THEN attempts[a] + 1 ELSE attempts[a]]
  /\ age' = [a \in Articles |-> IF a \in S THEN 0 ELSE age[a]]
  /\ status' = [a \in Articles |->
       IF a \in S /\ attempts[a] + 1 >= MAX_ATTEMPTS THEN "failed_permanent" ELSE status[a]]
  /\ UNCHANGED <<replies, gold>>

\* Only an analysed article returns to the queue, and with a clean slate.
Requeue(S) ==
  /\ \A a \in S : status[a] = "analyzed" /\ a \notin gold
  /\ status' = [a \in Articles |-> IF a \in S THEN "pending" ELSE status[a]]
  /\ attempts' = [a \in Articles |-> IF a \in S THEN 0 ELSE attempts[a]]
  /\ age' = [a \in Articles |-> IF a \in S THEN Rested ELSE age[a]]
  /\ UNCHANGED <<replies, gold>>

\* The gold rows of a split go in one step and come in another.
LoadGold(S) ==
  /\ \A a \in S : status[a] # "absent"
  /\ gold' \in {gold \ S, gold \cup S}
  /\ UNCHANGED <<status, attempts, age, replies>>

Hour ==
  /\ age' = [a \in Articles |-> IF age[a] < Rested THEN age[a] + 1 ELSE age[a]]
  /\ UNCHANGED <<status, attempts, replies, gold>>

Next ==
  \/ \E a \in Articles : Arrive(a)
  \/ \E a \in Articles, v \in {"parsed", "unparsed"} : Record(a, v) \/ Settle(a, v)
  \/ \E S \in SUBSET Articles : Charge(S) \/ Requeue(S) \/ LoadGold(S)
  \/ Hour

Spec == Init /\ [][Next]_cvars

=============================================================================
