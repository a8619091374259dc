---------------------------- MODULE AccountPanel ----------------------------
(***************************************************************************)
(* The account page's form: web/components/account-panel.tsx, which sends  *)
(* the chosen categories as a whole and erases the account.  It sends one  *)
(* request at a time, and the checkboxes stay live while one is pending.   *)
(* Behind it are the handlers of me.py, each in two transactions after the *)
(* look-up of the session.  A request whose fetch rejected is over for the *)
(* page, not for the server, which may carry it out after a later one has  *)
(* been answered.  What other pages of the same reader send is the subject *)
(* of Accounts.                                                            *)
(***************************************************************************)
EXTENDS Naturals

CONSTANTS
  Categories,
  MaxRequests  \* bound on the requests of one visit

VARIABLES
  chosen, outcome, busy, confirming,  \* the state of the component
  left,        \* has it navigated away?
  sent,        \* how many requests it has sent
  asked,       \* what each of them asks for
  fate,        \* how far each has come at the server
  stored,      \* the subscriptions of the account
  session,     \* is the reader signed in?
  erased,      \* is the account gone?
  stragglers   \* history: requests given up that the server still had when
               \* the last one was sent

screen == <<chosen, outcome, busy, confirming, left>>
requests == <<sent, asked, stragglers>>
vars == <<screen, requests, fate, stored, session, erased>>

Requests == 1..MaxRequests
Final == {"none", "done", "refused"}

Init ==
  /\ stored \in SUBSET Categories /\ chosen = stored
  /\ session = TRUE /\ erased = FALSE
  /\ outcome = "none" /\ busy = FALSE /\ confirming = FALSE /\ left = FALSE
  /\ sent = 0 /\ stragglers = {}
  /\ asked = [n \in Requests |-> [kind |-> "none", categories |-> {}]]
  /\ fate = [n \in Requests |-> "none"]

Toggle(c) ==
  /\ ~left
  /\ outcome' = "none"
  /\ chosen' = IF c \in chosen THEN chosen \ {c} ELSE chosen \cup {c}
  /\ UNCHANGED <<busy, confirming, left, requests, fate, stored, session, erased>>

Confirm ==
  /\ ~left
  /\ confirming' = ~confirming
  /\ UNCHANGED <<chosen, outcome, busy, left, requests, fate, stored, session, erased>>

\* mutate: the buttons are disabled while a request is pending.
Send(kind, categories) ==
  /\ ~left /\ ~busy /\ sent < MaxRequests
  /\ busy' = TRUE
  /\ sent' = sent + 1
  /\ asked' = [asked EXCEPT ![sent'] = [kind |-> kind, categories |-> categories]]
  /\ fate' = [fate EXCEPT ![sent'] = "sent"]
  /\ stragglers' = {n \in Requests : fate[n] \notin Final}
  /\ UNCHANGED <<chosen, outcome, confirming, left, stored, session, erased>>

Save == Send("save", chosen)
Remove == confirming /\ Send("erase", {})

-----------------------------------------------------------------------------
(***************************************************************************)
(* The server.                                                             *)
(***************************************************************************)
Goes(n, f) == fate' = [fate EXCEPT ![n] = f]

\* require_user
Resolve(n) ==
  /\ fate[n] = "sent"
  /\ Goes(n, IF session THEN "resolved" ELSE "refused")
  /\ UNCHANGED <<screen, requests, stored, session, erased>>

DeleteSubscriptions(n) ==
  /\ fate[n] = "resolved" /\ asked[n].kind = "save"
  /\ stored' = {}
  /\ Goes(n, "deleted")
  /\ UNCHANGED <<screen, requests, session, erased>>

\* A row that is there by now, or a user who is not, and the insert raises.
InsertSubscriptions(n) ==
  /\ fate[n] = "deleted"
  /\ IF asked[n].categories = {} \/ (~erased /\ asked[n].categories \cap stored = {})
     THEN /\ stored' = stored \cup asked[n].categories
          /\ Goes(n, "done")
     ELSE /\ Goes(n, "refused")
          /\ UNCHANGED stored
  /\ UNCHANGED <<screen, requests, session, erased>>

CloseAllSessions(n) ==
  /\ fate[n] = "resolved" /\ asked[n].kind = "erase"
  /\ session' = FALSE
  /\ Goes(n, "closed")
  /\ UNCHANGED <<screen, requests, stored, erased>>

\* ON DELETE CASCADE
DeleteUser(n) ==
  /\ fate[n] = "closed"
  /\ erased' = TRUE /\ session' = FALSE
  /\ stored' = {}
  /\ Goes(n, "done")
  /\ UNCHANGED <<screen, requests>>

\* A 500, a worker that dies, or a request that never arrives.
Break(n) ==
  /\ fate[n] \notin Final
  /\ Goes(n, "refused")
  /\ UNCHANGED <<screen, requests, stored, session, erased>>

-----------------------------------------------------------------------------
(***************************************************************************)
(* The answers: a 2xx, or any other status, or none, for whatever reason.  *)
(***************************************************************************)

\* Mutant: mutate resolves, so the request is taken to have succeeded.
SaveAnswered_Assumes(succeeded) ==
  /\ busy /\ asked[sent].kind = "save"
  /\ succeeded => fate[sent] = "done"
  /\ outcome' = "saved"
  /\ busy' = FALSE
  /\ UNCHANGED <<chosen, confirming, left, requests, fate, stored, session, erased>>

SaveAnswered(succeeded) ==
  /\ busy /\ asked[sent].kind = "save"
  /\ succeeded => fate[sent] = "done"
  /\ outcome' = IF succeeded THEN "saved" ELSE "failed"
  /\ busy' = FALSE
  /\ UNCHANGED <<chosen, confirming, left, requests, fate, stored, session, erased>>

\* Mutant: it leaves whatever the answer was.
RemoveAnswered_Leaves(succeeded) ==
  /\ busy /\ asked[sent].kind = "erase" /\ ~left
  /\ succeeded => fate[sent] = "done"
  /\ left' = TRUE
  /\ UNCHANGED <<chosen, outcome, busy, confirming, requests, fate, stored, session, erased>>

\* Only a success leaves the page, which stays busy to the end.
RemoveAnswered(succeeded) ==
  /\ busy /\ asked[sent].kind = "erase" /\ ~left
  /\ succeeded => fate[sent] = "done"
  /\ IF succeeded
     THEN /\ left' = TRUE
          /\ UNCHANGED <<outcome, busy>>
     ELSE /\ outcome' = "failed" /\ busy' = FALSE
          /\ UNCHANGED left
  /\ UNCHANGED <<chosen, confirming, requests, fate, stored, session, erased>>

Next ==
  \/ \E c \in Categories : Toggle(c)
  \/ Save \/ Confirm \/ Remove
  \/ \E n \in Requests :
       \/ Resolve(n) \/ DeleteSubscriptions(n) \/ InsertSubscriptions(n)
       \/ CloseAllSessions(n) \/ DeleteUser(n) \/ Break(n)
  \/ \E succeeded \in BOOLEAN : SaveAnswered(succeeded) \/ RemoveAnswered(succeeded)

Spec == Init /\ [][Next]_vars

-----------------------------------------------------------------------------
(***************************************************************************)
(* Properties.                                                             *)
(***************************************************************************)

\* account-panel.tsx:23 '"saved", "failed" and "nothing said yet" are different
\* things': of a choice that was never sent, nothing has been said yet.  That
\* is not so of a box that is ticked while a request is pending.
SavedIsWhatIsChosen == outcome = "saved" /\ ~busy => stored = chosen

=============================================================================
