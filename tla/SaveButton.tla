----------------------------- MODULE SaveButton -----------------------------
(***************************************************************************)
(* The bookmark button of an article page: web/components/save-button.tsx, *)
(* with mutate of web/lib/mutate.ts and the two handlers of me.py behind   *)
(* it.  Every tap turns the button at once, sends a request of its own and *)
(* turns the button back if that comes to nothing; it may be tapped again  *)
(* meanwhile.  The server looks the session up and writes in transactions  *)
(* of their own.  mutate reports a failure (UNREACHABLE) whenever fetch    *)
(* rejects, wherever the request is by then: the server may have carried   *)
(* it out, or do so later.  router.refresh() renders the page anew, which  *)
(* useState ignores.                                                       *)
(***************************************************************************)
EXTENDS Naturals

CONSTANTS
  MaxTaps,  \* bound on the taps of one visit
  Lossy     \* the taps whose fetch may reject

VARIABLES
  on,       \* the state of the button
  taps,     \* how often it has been tapped
  next,     \* what each tap asked for
  waiting,  \* taps that have not had their answer
  put,      \* how far the request of each tap has come at the server
  saved,    \* is there a row in saved_articles?
  session,  \* is the reader signed in?
  erased,   \* is the account gone?
  alone,    \* history: did the last tap find nothing under way?
  muddled   \* history: taps overlapped, or one was given up that the server
            \* still had, and none that was alone has succeeded since

button == <<on, taps, next, waiting>>
history == <<alone, muddled>>
vars == <<button, put, saved, session, erased, history>>

Taps == 1..MaxTaps
UnderWay == waiting \cup {n \in Taps : put[n] \in {"sent", "resolved"}}

Init ==
  /\ on \in BOOLEAN /\ saved = on
  /\ session = TRUE /\ erased = FALSE
  /\ taps = 0 /\ waiting = {}
  /\ next = [n \in Taps |-> FALSE]
  /\ put = [n \in Taps |-> "none"]
  /\ alone = TRUE /\ muddled = FALSE

Toggle ==
  /\ taps < MaxTaps
  /\ on' = ~on
  /\ taps' = taps + 1
  /\ next' = [next EXCEPT ![taps'] = ~on]
  /\ waiting' = waiting \cup {taps'}
  /\ put' = [put EXCEPT ![taps'] = "sent"]
  /\ alone' = (UnderWay = {})
  /\ muddled' = (muddled \/ UnderWay # {})
  /\ UNCHANGED <<saved, session, erased>>

\* require_user
Resolve(n) ==
  /\ put[n] = "sent"
  /\ put' = [put EXCEPT ![n] = IF session THEN "resolved" ELSE "refused"]
  /\ UNCHANGED <<button, saved, session, erased, history>>

\* save_article, unsave_article: either may be repeated, and the first needs a
\* user to refer to.
Write(n) ==
  /\ put[n] = "resolved"
  /\ IF next[n] /\ erased
     THEN /\ put' = [put EXCEPT ![n] = "refused"]
          /\ UNCHANGED saved
     ELSE /\ put' = [put EXCEPT ![n] = "done"]
          /\ saved' = next[n]
  /\ UNCHANGED <<button, session, erased, history>>

\* A 500, a worker that dies, or a request that never arrives.
Break(n) ==
  /\ put[n] \in {"sent", "resolved"}
  /\ put' = [put EXCEPT ![n] = "refused"]
  /\ UNCHANGED <<button, saved, session, erased, history>>

\* Mutant: a failure is left as it is, for the refresh to correct.
Answer_Assumes(n, succeeded) ==
  /\ n \in waiting
  /\ IF succeeded THEN put[n] = "done" ELSE put[n] = "refused" \/ n \in Lossy
  /\ waiting' = waiting \ {n}
  /\ muddled' = IF succeeded THEN muddled /\ ~(alone /\ n = taps)
                ELSE muddled \/ put[n] # "refused"
  /\ UNCHANGED <<on, taps, next, put, saved, session, erased, alone>>

\* A 2xx, or any other status, or none.
Answer(n, succeeded) ==
  /\ n \in waiting
  /\ IF succeeded THEN put[n] = "done" ELSE put[n] = "refused" \/ n \in Lossy
  /\ on' = IF succeeded THEN on ELSE ~next[n]
  /\ waiting' = waiting \ {n}
  /\ muddled' = IF succeeded THEN muddled /\ ~(alone /\ n = taps)
                ELSE muddled \/ put[n] # "refused"
  /\ UNCHANGED <<taps, next, put, saved, session, erased, alone>>

Next ==
  \/ Toggle
  \/ \E n \in Taps : Resolve(n) \/ Write(n) \/ Break(n) \/ Answer(n, TRUE) \/ Answer(n, FALSE)

Spec == Init /\ [][Next]_vars

-----------------------------------------------------------------------------
(***************************************************************************)
(* Properties.                                                             *)
(***************************************************************************)

\* save-button.tsx:12-15: reverted by hand, the button does not "sit there
\* claiming the opposite of what the database holds".  Of taps that overlap,
\* or answers that are lost, that is not so.
ButtonTellsTheTruth == UnderWay = {} => on = saved

=============================================================================
