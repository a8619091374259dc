------------------------------ MODULE WebClient ------------------------------
(***************************************************************************)
(* One reader with two tabs on one account: an article page with its       *)
(* bookmark button (SaveButton) and the account page (AccountPanel).  Both *)
(* go through mutate of web/lib/mutate.ts, and they meet at the server:    *)
(* they share the session that an erasure closes, and erasing the account  *)
(* takes the bookmark with it (ON DELETE CASCADE).                         *)
(***************************************************************************)
EXTENDS Naturals

CONSTANTS MaxTaps, Lossy, Categories, MaxRequests

ASSUME WebClientAssumption == MaxTaps \in Nat /\ MaxRequests \in Nat

VARIABLES
  on, taps, next, waiting, put, saved, alone, muddled,
  chosen, outcome, busy, confirming, left, sent, asked, fate, stored, stragglers,
  session, erased

Button == INSTANCE SaveButton
Panel == INSTANCE AccountPanel

buttonVars == <<on, taps, next, waiting, put, alone, muddled>>
panelVars == <<chosen, outcome, busy, confirming, left, sent, asked, fate, stored, stragglers>>
webVars == <<buttonVars, panelVars, saved, session, erased>>

WebInit == Button!Init /\ Panel!Init

\* The first tab.
ButtonStep == Button!Next /\ UNCHANGED panelVars

\* The second tab.
PanelStep ==
  /\ Panel!Next
  /\ saved' = (saved /\ ~erased')
  /\ UNCHANGED buttonVars

\* The session expires, or the reader signs in again in yet another tab.
SessionChanges ==
  /\ session' = ~session /\ ~erased
  /\ UNCHANGED <<buttonVars, panelVars, saved, erased>>

WebNext == ButtonStep \/ PanelStep \/ SessionChanges

WebSpec == WebInit /\ [][WebNext]_webVars

-----------------------------------------------------------------------------
(***************************************************************************)
(* Properties.                                                             *)
(***************************************************************************)

\* save-button.tsx:12-15: reverted by hand, the button does not "sit there
\* claiming the opposite of what the database holds".  It may after taps that
\* overlapped, or one that was given up while the server still had it or had
\* carried it out; never otherwise, and not beyond the next tap that finds
\* nothing under way and succeeds.
ButtonIsTrueUnlessMuddled ==
  ~erased /\ ~muddled /\ Button!UnderWay = {} => on = saved

\* account-panel.tsx "the one claim here that has to be true": the page is left
\* only when the account is gone, and its bookmark and subscriptions with it,
\* whatever either tab still has under way at the server.
LeavesOnlyErased == left => erased /\ ~saved /\ stored = {}

\* "saved" is said of a set that the account holds, unless a request that was
\* given up before is carried out after all; and then the account holds nothing
\* but what was asked for in one of these requests.
SaidSavedIsStored ==
  outcome = "saved" /\ ~busy /\ ~erased =>
    /\ stored \subseteq UNION {asked[n].categories : n \in stragglers \cup {sent}}
    /\ stragglers = {} => stored = asked[sent].categories

=============================================================================
