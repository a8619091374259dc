---------------------------- MODULE Crawl_proofs ----------------------------
(***************************************************************************)
(* For any sources, portals, hosts, delays and answers of the portals:     *)
(*                                                                         *)
(*   - AlwaysPolite: a process leaves a host alone for the delay between   *)
(*     two requests of its own accord;                                     *)
(*   - ForbiddenIsNeverStored: nothing is stored of a source whose host    *)
(*     tells it, all along its turn, to stay away;                         *)
(*   - OneRowEach: an article is one row, and one candidate of the audit.  *)
(***************************************************************************)
EXTENDS Crawl, FiniteSetTheorems, SequenceTheorems, WellFoundedInduction, TLAPS

Stages(c) == IF c = "ingest" THEN {"idle", "robots", "fetch", "save", "done"}
             ELSE {"home", "feed", "verdict", "done"}

Ages == [Clients -> [Hosts -> 0..CRAWL_DELAY]]

ClockTypeOK ==
  /\ pc \in [Clients -> {"idle", "robots", "fetch", "save", "home", "feed", "verdict", "done"}]
  /\ \A c \in Clients : pc[c] \in Stages(c)
  /\ asleep = [c \in Clients |-> asleep[c]]
  /\ hops \in [Clients -> Nat \cup {None}]
  /\ last \in Ages /\ quiet \in Ages /\ strange \in [Clients -> SUBSET Hosts]

\* What a client that is asleep has yet to sleep makes up for what its host has
\* yet to be left alone.
Waits(c) ==
  Asking(c) /\ asleep[c] # None /\ hops[c] = None /\ Host(Target(c)) \in Hosts =>
    /\ asleep[c] \in Nat
    /\ \/ Host(Target(c)) \in strange[c]
       \/ quiet[c][Host(Target(c))] + asleep[c] >= CRAWL_DELAY

\* The throttle never believes that a host was left alone for longer than it was,
\* except between two passes, when a new throttle will believe so of every host,
\* and of hosts that this process has yet to ask.
Remembers(c) ==
  pc[c] # "idle" => \A h \in Hosts \ strange[c] : quiet[c][h] >= last[c][h]

\* Between two passes the interval makes up for it.
Pauses(c) ==
  pc[c] = "idle" =>
    \/ asleep[c] = None /\ \A h \in Hosts \ strange[c] : quiet[c][h] >= CRAWL_DELAY
    \/ /\ asleep[c] \in Nat
       /\ \A h \in Hosts \ strange[c] : quiet[c][h] + asleep[c] >= CRAWL_DELAY

ClockInv == ClockTypeOK /\ \A c \in Clients : Waits(c) /\ Remembers(c) /\ Pauses(c)

\* What a client asks for depends on its own progress only.
OwnProgress(c) == IF c = "ingest" THEN ingestVars ELSE auditVars

LEMMA TargetStays ==
  ASSUME NEW c \in Clients, pc[c] \in Stages(c), pc'[c] = pc[c], OwnProgress(c)' = OwnProgress(c)
  PROVE  /\ Asking(c)' = Asking(c)
         /\ Asking(c) => Target(c)' = Target(c)
<1>1. pc[c] = "fetch" => c = "ingest"
  BY DEF Stages
<1>2. CASE c = "ingest"
  <2>1. Current' = Current
    BY <1>2 DEF OwnProgress, ingestVars, Current, First
  <2>2. Asking(c) => pc[c] \in {"robots", "fetch"}
    BY <1>2 DEF Stages, Asking
  <2>3. Asking(c)' = Asking(c)
    BY <2>1 DEF Asking, Supported
  <2> QED  BY <2>1, <2>2, <2>3 DEF Target
<1>3. CASE c # "ingest"
  <2>1. turn' = turn /\ feeds' = feeds /\ reports' = reports
    BY <1>3 DEF OwnProgress, auditVars
  <2>2. pc[c] \notin {"robots", "fetch"}
    BY <1>3 DEF Stages
  <2>3. Asking(c)' = Asking(c)
    BY <1>1, <1>3 DEF Asking
  <2> QED  BY <2>1, <2>2, <2>3 DEF Target
<1> QED  BY <1>2, <1>3

LEMMA ClockInit == Init => ClockInv
<1> SUFFICES ASSUME Init PROVE ClockInv
  OBVIOUS
<1>1. PICK running : pc = [c \in Clients |-> IF c \notin running THEN "done"
                              ELSE IF c = "ingest" THEN "idle" ELSE "home"]
  BY DEF Init
<1>2. ClockTypeOK
  <2>1. pc \in [Clients -> {"idle", "robots", "fetch", "save", "home", "feed", "verdict", "done"}]
    BY <1>1
  <2>2. \A c \in Clients : pc[c] \in Stages(c)
    BY <1>1 DEF Stages
  <2>3. last \in Ages /\ quiet \in Ages
    BY DelayAssumption DEF Init, Ages
  <2> QED  BY <2>1, <2>2, <2>3 DEF Init, ClockTypeOK
<1>3. ASSUME NEW c \in Clients PROVE Waits(c) /\ Remembers(c) /\ Pauses(c)
  BY DelayAssumption DEF Init, Waits, Remembers, Pauses
<1> QED  BY <1>2, <1>3 DEF ClockInv

\* What a step of client c must establish of the others: nothing, when it leaves
\* their clocks, their stage and their progress alone.
LEMMA OthersStay ==
  ASSUME ClockInv, NEW d \in Clients,
         pc'[d] = pc[d], asleep'[d] = asleep[d], hops'[d] = hops[d],
         last'[d] = last[d], quiet'[d] = quiet[d], strange'[d] = strange[d], OwnProgress(d)' = OwnProgress(d)
  PROVE  Waits(d)' /\ Remembers(d)' /\ Pauses(d)'
<1>1. Asking(d)' = Asking(d) /\ (Asking(d) => Target(d)' = Target(d))
  BY TargetStays DEF ClockInv, ClockTypeOK
<1>2. Waits(d) /\ Remembers(d) /\ Pauses(d)
  BY DEF ClockInv
<1> QED  BY <1>1, <1>2 DEF Waits, Remembers, Pauses

\* So a step of c preserves the invariant if it does so for c.
LEMMA OfOneClient ==
  ASSUME ClockInv, ClockTypeOK', NEW c \in Clients, Waits(c)', Remembers(c)', Pauses(c)',
         \A d \in Clients \ {c} :
           /\ pc'[d] = pc[d] /\ asleep'[d] = asleep[d] /\ hops'[d] = hops[d]
           /\ last'[d] = last[d] /\ quiet'[d] = quiet[d] /\ strange'[d] = strange[d]
           /\ OwnProgress(d)' = OwnProgress(d)
  PROVE  ClockInv'
<1>1. ASSUME NEW d \in Clients PROVE (Waits(d) /\ Remembers(d) /\ Pauses(d))'
  BY OthersStay
<1> QED  BY <1>1 DEF ClockInv

\* Ingest's progress is not the audit's.
LEMMA OthersProgress ==
  ASSUME ClockTypeOK, NEW c \in Clients, NEW d \in Clients \ {c},
         \/ pc[c] \in {"idle", "robots", "fetch", "save"} /\ UNCHANGED auditVars
         \/ pc[c] \in {"home", "feed", "verdict"} /\ UNCHANGED ingestVars
         \/ UNCHANGED <<ingestVars, auditVars>>
  PROVE  OwnProgress(d)' = OwnProgress(d)
<1>1. pc[c] \in Stages(c) /\ c \in {"ingest", "audit"} /\ d \in {"ingest", "audit"}
  BY ClientsAssumption DEF ClockTypeOK
<1>2. CASE d = "ingest"
  <2>1. pc[c] \notin {"idle", "robots", "fetch", "save"}
    BY <1>1, <1>2 DEF Stages
  <2> QED  BY <1>2, <2>1 DEF OwnProgress
<1>3. CASE d # "ingest"
  <2>1. pc[c] \notin {"home", "feed", "verdict"}
    BY <1>1, <1>3 DEF Stages
  <2> QED  BY <1>3, <2>1 DEF OwnProgress
<1> QED  BY <1>2, <1>3

-----------------------------------------------------------------------------
\* Throttle.wait makes up for what its host has yet to be left alone.
LEMMA StartWaitKeeps ==
  ASSUME ClockInv, NEW c \in Clients, StartWait(c)
  PROVE  ClockInv'
<1>1. ClockTypeOK'
  BY DEF ClockInv, ClockTypeOK, StartWait
<1>2. Waits(c)'
  <2> SUFFICES ASSUME Host(Target(c)) \in Hosts
               PROVE  /\ CRAWL_DELAY - last[c][Host(Target(c))] \in Nat
                      /\ Host(Target(c)) \notin strange[c] =>
                           quiet[c][Host(Target(c))] + (CRAWL_DELAY - last[c][Host(Target(c))])
                             >= CRAWL_DELAY
    <3>1. OwnProgress(c)' = OwnProgress(c) /\ pc'[c] = pc[c]
      BY DEF OwnProgress, StartWait, ingestVars, auditVars
    <3>2. Target(c)' = Target(c)
      BY <3>1, TargetStays DEF ClockInv, ClockTypeOK, StartWait
    <3>3. asleep'[c] = CRAWL_DELAY - last[c][Host(Target(c))]
      BY DEF StartWait, ClockInv, ClockTypeOK
    <3> QED  BY <3>2, <3>3 DEF Waits, StartWait
  <2>1. Host(Target(c)) \notin strange[c] =>
          quiet[c][Host(Target(c))] >= last[c][Host(Target(c))]
    BY DEF ClockInv, Remembers, StartWait, Asking
  <2>2. /\ last[c][Host(Target(c))] \in 0..CRAWL_DELAY
        /\ quiet[c][Host(Target(c))] \in 0..CRAWL_DELAY
    BY DEF ClockInv, ClockTypeOK, Ages
  <2> QED  BY <2>1, <2>2, DelayAssumption
<1>3. Remembers(c)'
  BY DEF ClockInv, Remembers, StartWait
<1>4. Pauses(c)'
  BY DEF ClockInv, Pauses, StartWait, Asking
<1>5. \A d \in Clients \ {c} :
        /\ pc'[d] = pc[d] /\ asleep'[d] = asleep[d] /\ hops'[d] = hops[d]
        /\ last'[d] = last[d] /\ quiet'[d] = quiet[d] /\ strange'[d] = strange[d]
        /\ OwnProgress(d)' = OwnProgress(d)
  BY OthersProgress DEF ClockInv, ClockTypeOK, StartWait
<1> QED  BY <1>1, <1>2, <1>3, <1>4, <1>5, OfOneClient

\* What is sent is remembered as sent, and the client is no longer about to ask.
LEMMA SendKeeps ==
  ASSUME ClockInv, NEW c \in Clients, NEW h \in Hosts, Send(c, h)
  PROVE  ClockInv'
<1>1. ClockTypeOK'
  BY DelayAssumption DEF ClockInv, ClockTypeOK, Send, Ages
<1>2. hops'[c] # None
  BY NoneIsNoTime DEF ClockInv, ClockTypeOK, Send
<1>3. Remembers(c)'
  BY DEF ClockInv, ClockTypeOK, Ages, Remembers, Send
<1>4. pc'[c] = pc[c] /\ pc[c] # "idle"
  BY DEF Send, Asking
<1>5. \A d \in Clients \ {c} :
        /\ pc'[d] = pc[d] /\ asleep'[d] = asleep[d] /\ hops'[d] = hops[d]
        /\ last'[d] = last[d] /\ quiet'[d] = quiet[d] /\ strange'[d] = strange[d]
        /\ OwnProgress(d)' = OwnProgress(d)
  BY OthersProgress DEF ClockInv, ClockTypeOK, Ages, Send
<1>6. Waits(c)' /\ Pauses(c)'
  BY <1>2, <1>4 DEF Waits, Pauses
<1> QED  BY <1>1, <1>3, <1>5, <1>6, OfOneClient

\* A redirect moves no clock.
LEMMA RedirectKeeps ==
  ASSUME ClockInv, NEW c \in Clients, NEW h \in Hosts, Redirect(c, h)
  PROVE  ClockInv'
<1>1. ClockTypeOK'
  BY DEF ClockInv, ClockTypeOK, Redirect
<1>2. hops'[c] # None
  BY NoneIsNoTime DEF ClockInv, ClockTypeOK, Redirect
<1>3. Waits(c)' /\ Remembers(c)' /\ Pauses(c)'
  BY <1>2 DEF ClockInv, Waits, Remembers, Pauses, Redirect
<1>4. \A d \in Clients \ {c} :
        /\ pc'[d] = pc[d] /\ asleep'[d] = asleep[d] /\ hops'[d] = hops[d]
        /\ last'[d] = last[d] /\ quiet'[d] = quiet[d] /\ strange'[d] = strange[d]
        /\ OwnProgress(d)' = OwnProgress(d)
  BY OthersProgress DEF ClockInv, ClockTypeOK, Redirect
<1> QED  BY <1>1, <1>3, <1>4, OfOneClient

\* An answer leads to another stage of the same run, and the next request has
\* yet to be waited for.
LEMMA AnsweredKeeps ==
  ASSUME ClockInv, NEW c \in Clients, NEW next \in Stages(c) \ {"idle"}, Answered(c, next),
         \/ pc[c] \in {"robots", "fetch"} /\ UNCHANGED auditVars
         \/ pc[c] \in {"home", "feed", "verdict"} /\ UNCHANGED ingestVars
  PROVE  ClockInv'
<1>1. ClockTypeOK'
  BY DEF ClockInv, ClockTypeOK, Answered, Stages
<1>2. pc'[c] = next /\ asleep'[c] = None
  BY DEF ClockInv, ClockTypeOK, Answered
<1>3. Waits(c)' /\ Pauses(c)'
  BY <1>2 DEF Waits, Pauses
<1>4. Remembers(c)'
  BY DEF ClockInv, Remembers, Answered
<1>5. \A d \in Clients \ {c} :
        /\ pc'[d] = pc[d] /\ asleep'[d] = asleep[d] /\ hops'[d] = hops[d]
        /\ last'[d] = last[d] /\ quiet'[d] = quiet[d] /\ strange'[d] = strange[d]
        /\ OwnProgress(d)' = OwnProgress(d)
  BY OthersProgress DEF ClockInv, ClockTypeOK, Answered
<1> QED  BY <1>1, <1>3, <1>4, <1>5, OfOneClient

\* The next source has yet to be waited for, and the interval is no shorter than
\* the delay.
LEMMA GoOnKeeps ==
  ASSUME ClockInv, NEW c \in Clients, pc[c] \in {"robots", "fetch", "save"}, GoOn(c)
  PROVE  ClockInv'
<1>1. c = "ingest" /\ c \in Clients
  BY DEF ClockInv, ClockTypeOK, Stages
<1>2. ClockTypeOK'
  BY <1>1 DEF ClockInv, ClockTypeOK, GoOn, Stages
<1>3. ASSUME todo' = {} PROVE (Waits(c) /\ Remembers(c) /\ Pauses(c))'
  <2>1. pc'[c] = "idle" /\ asleep'[c] = INTERVAL /\ quiet' = quiet
    BY <1>3 DEF ClockInv, ClockTypeOK, GoOn
  <2>2. strange' = strange /\ \A h \in Hosts : quiet[c][h] + INTERVAL >= CRAWL_DELAY
    BY DelayAssumption DEF ClockInv, ClockTypeOK, Ages, GoOn
  <2> QED  BY <2>1, <2>2, DelayAssumption DEF Waits, Remembers, Pauses, Asking
<1>4. ASSUME todo' # {} PROVE (Waits(c) /\ Remembers(c) /\ Pauses(c))'
  <2>1. pc'[c] = "robots" /\ asleep'[c] = None
    BY <1>4 DEF ClockInv, ClockTypeOK, GoOn
  <2>2. Remembers(c)'
    BY DEF ClockInv, Remembers, GoOn
  <2> QED  BY <2>1, <2>2 DEF Waits, Pauses
<1>5. \A d \in Clients \ {c} :
        /\ pc'[d] = pc[d] /\ asleep'[d] = asleep[d] /\ hops'[d] = hops[d]
        /\ last'[d] = last[d] /\ quiet'[d] = quiet[d] /\ strange'[d] = strange[d]
        /\ OwnProgress(d)' = OwnProgress(d)
  BY OthersProgress DEF ClockInv, ClockTypeOK, GoOn
<1> QED  BY <1>2, <1>3, <1>4, <1>5, OfOneClient


\* A pass starts with a throttle that remembers nothing, when there is nothing
\* left to remember.
LEMMA StartPassKeeps ==
  ASSUME ClockInv, NEW c \in Clients, StartPass(c)
  PROVE  ClockInv'
<1>1. ClockTypeOK'
  <2>1. c = "ingest" /\ pc' = [pc EXCEPT ![c] = "robots"]
    BY DEF StartPass
  <2>2. \A d \in Clients : pc'[d] \in Stages(d)
    BY <2>1 DEF ClockInv, ClockTypeOK, Stages
  <2>3. last' \in Ages /\ quiet' \in Ages
    BY DelayAssumption DEF ClockInv, ClockTypeOK, StartPass, Ages
  <2>4. /\ hops' \in [Clients -> Nat \cup {None}] /\ asleep' = [d \in Clients |-> asleep'[d]]
        /\ strange' \in [Clients -> SUBSET Hosts]
    BY DEF ClockInv, ClockTypeOK, StartPass
  <2> QED  BY <2>1, <2>2, <2>3, <2>4 DEF ClockInv, ClockTypeOK
<1>2. pc'[c] = "robots" /\ asleep'[c] = None /\ quiet' = quiet /\ strange' = strange
  BY DEF ClockInv, ClockTypeOK, StartPass
<1>3. \A h \in Hosts : last'[c][h] = CRAWL_DELAY
  BY DEF ClockInv, ClockTypeOK, Ages, StartPass
<1>4. \A h \in Hosts \ strange[c] : quiet[c][h] >= CRAWL_DELAY
  <2>1. Pauses(c) /\ pc[c] = "idle" /\ asleep[c] \in {None, 0}
    BY DEF ClockInv, StartPass
  <2>2. \A h \in Hosts : quiet[c][h] \in 0..CRAWL_DELAY
    BY DEF ClockInv, ClockTypeOK, Ages
  <2> QED  BY <2>1, <2>2, DelayAssumption, NoneIsNoTime DEF Pauses
<1>5. Waits(c)' /\ Remembers(c)' /\ Pauses(c)'
  BY <1>2, <1>3, <1>4 DEF Waits, Remembers, Pauses
<1>6. \A d \in Clients \ {c} :
        /\ pc'[d] = pc[d] /\ asleep'[d] = asleep[d] /\ hops'[d] = hops[d]
        /\ last'[d] = last[d] /\ quiet'[d] = quiet[d] /\ strange'[d] = strange[d]
        /\ OwnProgress(d)' = OwnProgress(d)
  BY OthersProgress DEF ClockInv, ClockTypeOK, Ages, StartPass
<1> QED  BY <1>1, <1>5, <1>6, OfOneClient

\* A process that starts has asked nobody.
LEMMA CrashKeeps ==
  ASSUME ClockInv, NEW c \in Clients, Crash(c)
  PROVE  ClockInv'
<1>1. pc[c] \in {"idle", "robots", "fetch", "save"}
  BY DEF ClockInv, ClockTypeOK, Crash, Stages
<1>2. ClockTypeOK'
  <2>1. c = "ingest" /\ pc' = [pc EXCEPT ![c] = "idle"]
    BY DEF Crash
  <2>2. \A d \in Clients : pc'[d] \in Stages(d)
    BY <2>1 DEF ClockInv, ClockTypeOK, Stages
  <2>3. last' \in Ages /\ quiet' \in Ages /\ strange' \in [Clients -> SUBSET Hosts]
    BY DEF ClockInv, ClockTypeOK, Crash
  <2>4. hops' \in [Clients -> Nat \cup {None}] /\ asleep' = [d \in Clients |-> asleep'[d]]
    BY DEF ClockInv, ClockTypeOK, Crash
  <2> QED  BY <2>1, <2>2, <2>3, <2>4 DEF ClockInv, ClockTypeOK
<1>3. pc'[c] = "idle" /\ asleep'[c] = None /\ strange'[c] = Hosts
  BY DEF ClockInv, ClockTypeOK, Crash
<1>4. Waits(c)' /\ Remembers(c)' /\ Pauses(c)'
  BY <1>3 DEF Waits, Remembers, Pauses
<1>5. \A d \in Clients \ {c} :
        /\ pc'[d] = pc[d] /\ asleep'[d] = asleep[d] /\ hops'[d] = hops[d]
        /\ last'[d] = last[d] /\ quiet'[d] = quiet[d] /\ strange'[d] = strange[d]
        /\ OwnProgress(d)' = OwnProgress(d)
  BY <1>1, OthersProgress DEF ClockInv, ClockTypeOK, Ages, Crash
<1> QED  BY <1>2, <1>4, <1>5, OfOneClient

\* Time works off what there is to sleep no faster than it leaves hosts alone.
LEMMA TickKeeps ==
  ASSUME ClockInv, Tick
  PROVE  ClockInv'
<1> DEFINE Older(age) == [c \in Clients |-> [h \in Hosts |->
             IF age[c][h] < CRAWL_DELAY THEN age[c][h] + 1 ELSE age[c][h]]]
           Awake == [c \in Clients |->
             IF asleep[c] = None \/ asleep[c] = 0 THEN asleep[c] ELSE asleep[c] - 1]
<1>1. /\ asleep' = Awake /\ last' = Older(last) /\ quiet' = Older(quiet)
      /\ pc' = pc /\ hops' = hops /\ strange' = strange /\ UNCHANGED <<ingestVars, auditVars>>
  BY DEF Tick
<1>2. \A age \in Ages : Older(age) \in Ages
  BY DelayAssumption DEF Ages
<1>3. ClockTypeOK'
  BY <1>1, <1>2 DEF ClockInv, ClockTypeOK, Stages
<1>4. ASSUME NEW c \in Clients PROVE (Waits(c) /\ Remembers(c) /\ Pauses(c))'
  <2>1. ASSUME NEW h \in Hosts
        PROVE  /\ quiet[c][h] \in 0..CRAWL_DELAY /\ last[c][h] \in 0..CRAWL_DELAY
               /\ quiet'[c][h] = IF quiet[c][h] < CRAWL_DELAY THEN quiet[c][h] + 1 ELSE quiet[c][h]
               /\ last'[c][h] = IF last[c][h] < CRAWL_DELAY THEN last[c][h] + 1 ELSE last[c][h]
    BY <1>1 DEF ClockInv, ClockTypeOK, Ages
  <2>2. /\ asleep[c] = None => asleep'[c] = None
        /\ asleep[c] \in Nat => /\ asleep'[c] \in Nat
                                /\ asleep'[c] = IF asleep[c] = 0 THEN 0 ELSE asleep[c] - 1
    <3>1. asleep'[c] = IF asleep[c] = None \/ asleep[c] = 0 THEN asleep[c] ELSE asleep[c] - 1
      BY <1>1
    <3>2. asleep[c] \in Nat => asleep[c] # None
      BY NoneIsNoTime
    <3> QED  BY <3>1, <3>2
  <2>3. Asking(c)' = Asking(c) /\ (Asking(c) => Target(c)' = Target(c))
    BY <1>1, TargetStays DEF ClockInv, ClockTypeOK, OwnProgress, ingestVars, auditVars
  <2>4. Waits(c)'
    <3> DEFINE h == Host(Target(c))
    <3>1. SUFFICES ASSUME Asking(c), asleep[c] # None, hops[c] = None, h \in Hosts
                   PROVE  /\ asleep'[c] \in Nat
                          /\ h \in strange[c] \/ quiet'[c][h] + asleep'[c] >= CRAWL_DELAY
      BY <1>1, <2>2, <2>3 DEF Waits
    <3>2. /\ asleep[c] \in Nat
          /\ h \in strange[c] \/ quiet[c][h] + asleep[c] >= CRAWL_DELAY
      BY <3>1 DEF ClockInv, Waits
    <3> HIDE DEF h
    <3> QED  BY <2>1, <2>2, <3>1, <3>2, DelayAssumption
  <2>5. Remembers(c)'
    BY <1>1, <2>1, DelayAssumption DEF ClockInv, Remembers
  <2>6. Pauses(c)'
    BY <1>1, <2>1, <2>2, DelayAssumption DEF ClockInv, Pauses
  <2> QED  BY <2>4, <2>5, <2>6
<1> QED  BY <1>3, <1>4 DEF ClockInv

LEMMA ClockStep == ClockInv /\ [Next]_vars => ClockInv'
<1> SUFFICES ASSUME ClockInv, [Next]_vars PROVE ClockInv'
  OBVIOUS
<1>1. ASSUME NEW c \in Clients, Request(c) PROVE ClockInv'
  BY <1>1, StartWaitKeeps, SendKeeps, RedirectKeeps DEF Request
<1>2. ASSUME NEW c \in Clients, IngestStep(c) PROVE ClockInv'
  <2>1. CASE StartPass(c)
    BY <2>1, StartPassKeeps
  <2>2. CASE RobotsVerdict(c)
    <3>1. pc[c] = "robots" /\ "fetch" \in Stages(c) \ {"idle"}
      BY <2>2 DEF RobotsVerdict, ClockInv, ClockTypeOK, Stages
    <3>2. CASE NextSource(c)
      BY <3>1, <3>2, GoOnKeeps DEF NextSource
    <3>3. CASE \E told \in Told : Read(c, told)
      BY <3>1, <3>3, AnsweredKeeps DEF Read
    <3> QED  BY <2>2, <3>2, <3>3 DEF RobotsVerdict
  <2>3. CASE Unsupported(c) \/ FetchYieldsNothing(c) \/ SaveArticles(c)
    BY <2>3, GoOnKeeps DEF Unsupported, FetchYieldsNothing, SaveArticles, NextSource
  <2>4. CASE FetchSource(c)
    <3>1. pc[c] = "fetch" /\ "save" \in Stages(c) \ {"idle"}
      BY <2>4 DEF FetchSource, ClockInv, ClockTypeOK, Stages
    <3>2. Answered(c, "save") /\ UNCHANGED auditVars
      BY <2>4 DEF FetchSource
    <3> QED  BY <3>1, <3>2, AnsweredKeeps
  <2> QED  BY <1>2, <2>1, <2>2, <2>3, <2>4 DEF IngestStep
<1>3. ASSUME NEW c \in Clients, AuditStep(c) PROVE ClockInv'
  <2>1. pc[c] \in {"home", "feed", "verdict"} /\ UNCHANGED ingestVars
    BY <1>3 DEF AuditStep, DiscoverFeeds, Probe, Verdict
  <2>2. {"home", "feed", "verdict", "done"} \subseteq Stages(c) \ {"idle"}
    BY <2>1 DEF ClockInv, ClockTypeOK, Stages
  <2>3. PICK next \in {"home", "feed", "verdict", "done"} : Answered(c, next)
    BY <1>3 DEF AuditStep, DiscoverFeeds, Probe, Verdict
  <2> QED  BY <2>1, <2>2, <2>3, AnsweredKeeps
<1>4. ASSUME NEW c \in Clients, Crash(c) PROVE ClockInv'
  BY <1>4, CrashKeeps
<1>5. CASE (\E h \in Hosts : ChangeRules(h)) \/ StoreGold \/ UNCHANGED vars
  <2>1. UNCHANGED <<pc, asleep, last, quiet, strange, hops, ingestVars, auditVars>>
    BY <1>5 DEF ChangeRules, StoreGold, vars, clockVars
  <2>2. ClockTypeOK'
    BY <2>1 DEF ClockInv, ClockTypeOK, Stages
  <2>3. \A d \in Clients : OwnProgress(d)' = OwnProgress(d)
    BY <2>1 DEF OwnProgress
  <2> QED  BY <2>1, <2>2, <2>3, OthersStay DEF ClockInv
<1>6. CASE Tick
  BY <1>6, TickKeeps
<1> QED  BY <1>1, <1>2, <1>3, <1>4, <1>5, <1>6 DEF Next

\* fetch.py:51: for any sources, portals and addresses, wherever passes end, a
\* client asks a host again at least the delay after it last asked it, but for
\* the first time that a restarted process asks it.
THEOREM AlwaysPolite == Spec => Polite
<1>1. ASSUME ClockInv, NEW c \in Clients, NEW h \in Hosts, Send(c, h), h \notin strange[c]
      PROVE  quiet[c][h] >= CRAWL_DELAY
  <2>1. /\ asleep[c] = 0 /\ 0 # None /\ Asking(c) /\ hops[c] = None
        /\ h = Host(Target(c))
    BY <1>1, NoneIsNoTime DEF Send
  <2>2. Waits(c)
    BY <1>1 DEF ClockInv
  <2>3. quiet[c][h] \in 0..CRAWL_DELAY
    BY <1>1 DEF ClockInv, ClockTypeOK, Ages
  <2>4. quiet[c][h] + asleep[c] >= CRAWL_DELAY
    BY <1>1, <2>1, <2>2 DEF Waits
  <2> QED  BY <2>1, <2>3, <2>4, DelayAssumption
<1>2. ClockInv /\ [Next]_vars =>
        [\A c \in Clients, h \in Hosts :
           Send(c, h) => quiet[c][h] >= CRAWL_DELAY \/ h \in strange[c]]_vars
  BY <1>1
<1> QED  BY <1>2, ClockInit, ClockStep, PTL DEF Spec, Polite

-----------------------------------------------------------------------------
(***************************************************************************)
(* One row per article: what Deduplicated keeps.                           *)
(***************************************************************************)
LEMMA LeastExists ==
  ASSUME NEW T \in SUBSET Nat, T # {}
  PROVE  \E t \in T : \A y \in T : t <= y
<1>1. PICK t \in T : \A y \in T : ~(<<y, t>> \in OpToRel(<, Nat))
  BY NatLessThanWellFounded, WFMin
<1>2. \A y \in T : ~(y < t)
  BY <1>1 DEF OpToRel
<1> QED  BY <1>2

Sorts(p, places) ==
  /\ p \in [1..Cardinality(places) -> places]
  /\ \A j, k \in DOMAIN p : j < k => p[j] < p[k]

\* The places in a sequence can be put in their order.
LEMMA SortedExists ==
  \A n \in Nat : \A places \in SUBSET (1..n) : \E p : Sorts(p, places)
<1> DEFINE Wrong == {n \in Nat : \E places \in SUBSET (1..n) : ~\E p : Sorts(p, places)}
<1>1. SUFFICES ASSUME Wrong # {} PROVE FALSE
  OBVIOUS
<1>2. PICK n \in Wrong : \A m \in Wrong : n <= m
  BY <1>1, LeastExists
<1>3. PICK places \in SUBSET (1..n) : ~\E p : Sorts(p, places)
  BY <1>2
<1>4. n \in Nat
  BY <1>2
<1>5. \A m \in Nat : m < n => \A some \in SUBSET (1..m) : \E p : Sorts(p, some)
  BY <1>2
<1> HIDE DEF Wrong
<1>6. n \in places
  <2> SUFFICES ASSUME n \notin places PROVE FALSE
    OBVIOUS
  <2>1. CASE n = 0
    <3>1. places = {}
      BY <1>3, <2>1
    <3>2. Cardinality(places) = 0
      BY <3>1, FS_EmptySet
    <3>3. Sorts([i \in 1..0 |-> 0], places)
      BY <3>1, <3>2 DEF Sorts
    <3> QED  BY <1>3, <3>3
  <2>2. CASE n # 0
    <3>1. n - 1 \in Nat /\ n - 1 < n /\ places \in SUBSET (1..n - 1)
      BY <1>3, <1>4, <2>2
    <3> QED  BY <1>3, <1>5, <3>1
  <2> QED  BY <2>1, <2>2
<1> DEFINE rest == places \ {n}
<1>7. n - 1 \in Nat /\ n - 1 < n /\ rest \in SUBSET (1..n - 1)
  BY <1>3, <1>4, <1>6
<1>8. PICK q : Sorts(q, rest)
  BY <1>5, <1>7
<1>9. /\ IsFiniteSet(places) /\ Cardinality(rest) \in Nat
      /\ Cardinality(places) = Cardinality(rest) + 1
  <2>1. IsFiniteSet(rest)
    <3>1. 1 \in Int /\ n - 1 \in Int
      BY <1>4
    <3>2. IsFiniteSet(1..n - 1)
      BY <3>1, FS_Interval
    <3> HIDE DEF rest
    <3> QED  BY <1>7, <3>2, FS_Subset
  <2>2. places = rest \cup {n} /\ n \notin rest
    BY <1>6
  <2> HIDE DEF rest
  <2> QED  BY <2>1, <2>2, FS_AddElement, FS_CardinalityType
<1> DEFINE m == Cardinality(rest)
           p == [i \in 1..m + 1 |-> IF i = m + 1 THEN n ELSE q[i]]
<1>10. p \in [1..Cardinality(places) -> places]
  <2>1. ASSUME NEW i \in 1..m + 1 PROVE p[i] \in places
    <3>1. q \in [1..m -> rest] /\ m \in Nat
      BY <1>8, <1>9 DEF Sorts
    <3>2. CASE i = m + 1
      BY <1>6, <3>2
    <3>3. CASE i # m + 1
      <4> HIDE DEF m
      <4>1. i \in 1..m /\ p[i] = q[i]
        BY <3>1, <3>3
      <4> QED  BY <3>1, <4>1
    <3> QED  BY <3>2, <3>3
  <2>2. p \in [1..m + 1 -> places]
    BY <2>1
  <2> QED  BY <1>9, <2>2
<1>11. ASSUME NEW j \in DOMAIN p, NEW k \in DOMAIN p, j < k PROVE p[j] < p[k]
  <2>1. m \in Nat /\ j \in 1..m /\ k \in 1..m + 1 /\ q \in [1..m -> rest]
    <3>1. q \in [1..m -> rest] /\ m \in Nat
      BY <1>8, <1>9 DEF Sorts
    <3>2. j \in 1..m + 1 /\ k \in 1..m + 1
      OBVIOUS
    <3> HIDE DEF m
    <3> QED  BY <1>11, <3>1, <3>2
  <2>2. CASE k = m + 1
    <3>1. q[j] \in 1..n - 1
      BY <1>7, <2>1
    <3>2. p[j] = q[j] /\ p[k] = n
      <4> HIDE DEF m
      <4> QED  BY <2>1, <2>2
    <3> QED  BY <1>4, <3>1, <3>2
  <2>3. CASE k # m + 1
    <3>1. k \in 1..m /\ p[j] = q[j] /\ p[k] = q[k]
      BY <2>1, <2>3
    <3> QED  BY <1>8, <1>11, <2>1, <3>1 DEF Sorts
  <2> QED  BY <2>2, <2>3
<1>12. Sorts(p, places)
  BY <1>10, <1>11 DEF Sorts
<1> QED  BY <1>3, <1>12

\* At takes each of the places once, in their order.
Takes(s, places, p) ==
  LET m == Cardinality(places)
  IN /\ m \in Nat
     /\ p \in [1..m -> places]
     /\ At(s, places) = [k \in 1..m |-> s[p[k]]]
     /\ \A j, k \in 1..m : j < k => p[j] < p[k]
     /\ \A i \in places : \E k \in 1..m : p[k] = i

LEMMA AtPlaces ==
  ASSUME NEW s, NEW n \in Nat, NEW places \in SUBSET (1..n)
  PROVE  \E p : Takes(s, places, p)
<1> DEFINE m == Cardinality(places)
           p == CHOOSE p \in [1..m -> places] : \A j, k \in DOMAIN p : j < k => p[j] < p[k]
<1>1. IsFiniteSet(places) /\ m \in Nat
  <2>1. 1 \in Int /\ n \in Int
    OBVIOUS
  <2>2. IsFiniteSet(1..n)
    BY <2>1, FS_Interval
  <2>3. IsFiniteSet(places)
    BY <2>2, FS_Subset
  <2> QED  BY <2>3, FS_CardinalityType
<1>2. p \in [1..m -> places] /\ \A j, k \in DOMAIN p : j < k => p[j] < p[k]
  <2>1. \E q \in [1..m -> places] : \A j, k \in DOMAIN q : j < k => q[j] < q[k]
    BY SortedExists DEF Sorts
  <2> HIDE DEF m
  <2> QED  BY <2>1
<1>3. At(s, places) = [k \in 1..m |-> s[p[k]]]
  <2>1. At(s, places) = [k \in DOMAIN p |-> s[p[k]]]
    BY DEF At
  <2> HIDE DEF p, m
  <2> QED  BY <1>2, <2>1
<1> HIDE DEF p
<1>4. \A i \in places : \E k \in 1..m : p[k] = i
  <2>1. p \in Injection(1..m, places)
    <3>1. ASSUME NEW j \in 1..m, NEW k \in 1..m, p[j] = p[k] PROVE j = k
      <4>1. p[j] \in 1..n /\ p[k] \in 1..n
        BY <1>2
      <4>2. ~(j < k) /\ ~(k < j)
        BY <1>1, <1>2, <3>1, <4>1
      <4> QED  BY <1>1, <4>2
    <3> QED  BY <1>2, <3>1 DEF Injection, IsInjective
  <2>2. Cardinality(1..m) = m
    BY <1>1, FS_Interval
  <2>3. p \in Surjection(1..m, places)
    <3> HIDE DEF m
    <3>1. Cardinality(1..m) = Cardinality(places)
      BY <2>2 DEF m
    <3> QED  BY <1>1, <2>1, <3>1, FS_Injection
  <2> QED  BY <2>3 DEF Surjection
<1>5. Takes(s, places, p)
  BY <1>1, <1>2, <1>3, <1>4 DEF Takes
<1> QED  BY <1>5

LEMMA AtIsSeq ==
  ASSUME NEW S, NEW s, Len(s) \in Nat, DOMAIN s = 1..Len(s),
         NEW places \in SUBSET DOMAIN s, \A i \in places : s[i] \in S
  PROVE  At(s, places) \in Seq(S)
<1>2. PICK p : Takes(s, places, p)
  <2>1. places \in SUBSET (1..Len(s))
    OBVIOUS
  <2> QED  BY <2>1, AtPlaces
<1>3. /\ Cardinality(places) \in Nat /\ p \in [1..Cardinality(places) -> places]
      /\ At(s, places) = [k \in 1..Cardinality(places) |-> s[p[k]]]
  BY <1>2 DEF Takes
<1>4. \A k \in 1..Cardinality(places) : s[p[k]] \in S
  BY <1>3
<1> QED  BY <1>3, <1>4

\* fetch.py:253: every address once, and no address is lost.
LEMMA DeduplicatedFacts ==
  ASSUME NEW S, NEW found \in Seq(S)
  PROVE  LET kept == Deduplicated(found)
         IN /\ kept \in Seq(S)
            /\ \A j, k \in DOMAIN kept : kept[j].url = kept[k].url => j = k
            /\ \A i \in DOMAIN found : \E k \in DOMAIN kept : kept[k].url = found[i].url
<1> DEFINE first == {i \in DOMAIN found : \A j \in 1..i-1 : found[j].url # found[i].url}
           kept == At(found, first)
           m == Cardinality(first)
<1>1. Len(found) \in Nat /\ DOMAIN found = 1..Len(found) /\ first \in SUBSET (1..Len(found))
  OBVIOUS
<1>2. kept \in Seq(S)
  <2>1. first \subseteq DOMAIN found /\ \A i \in first : found[i] \in S
    OBVIOUS
  <2> HIDE DEF first
  <2> QED  BY <1>1, <2>1, AtIsSeq
<1>3. PICK p : Takes(found, first, p)
  <2> HIDE DEF first
  <2> QED  BY <1>1, AtPlaces
<1>4. /\ m \in Nat /\ p \in [1..m -> first]
      /\ kept = [k \in 1..m |-> found[p[k]]]
      /\ \A j, k \in 1..m : j < k => p[j] < p[k]
      /\ \A i \in first : \E k \in 1..m : p[k] = i
  <2> HIDE DEF first
  <2> QED  BY <1>3 DEF Takes
<1> HIDE DEF kept, m
<1>5. ASSUME NEW j \in 1..m, NEW k \in 1..m, j < k PROVE found[p[j]].url # found[p[k]].url
  <2>1. p[j] \in 1..Len(found) /\ p[k] \in first /\ p[k] \in 1..Len(found) /\ p[j] < p[k]
    BY <1>1, <1>4, <1>5
  <2>2. p[j] \in 1..p[k] - 1
    BY <1>1, <2>1
  <2> QED  BY <2>1, <2>2
<1>6. \A j, k \in DOMAIN kept : kept[j].url = kept[k].url => j = k
  <2> SUFFICES ASSUME NEW j \in 1..m, NEW k \in 1..m, found[p[j]].url = found[p[k]].url
               PROVE  j = k
    BY <1>4
  <2>1. ~(j < k) /\ ~(k < j)
    BY <1>5
  <2> QED  BY <1>4, <2>1
<1>7. ASSUME NEW i \in DOMAIN found PROVE \E k \in DOMAIN kept : kept[k].url = found[i].url
  <2> DEFINE same == {j \in DOMAIN found : found[j].url = found[i].url}
  <2>1. PICK j \in same : \A y \in same : j <= y
    <3>1. same \in SUBSET Nat /\ i \in same
      BY <1>1
    <3> QED  BY <3>1, LeastExists
  <2>2. j \in first
    <3>1. j \in DOMAIN found /\ found[j].url = found[i].url /\ j \in 1..Len(found)
      BY <1>1, <2>1
    <3>2. ASSUME NEW y \in 1..j-1 PROVE found[y].url # found[j].url
      <4>1. y \in 1..Len(found) /\ ~(j <= y)
        BY <1>1, <3>1
      <4> QED  BY <1>1, <2>1, <3>1, <4>1
    <3> QED  BY <3>1, <3>2
  <2>3. PICK k \in 1..m : p[k] = j
    BY <1>4, <2>2
  <2> QED  BY <1>4, <2>1, <2>3
<1> QED  BY <1>2, <1>6, <1>7 DEF Deduplicated, kept

-----------------------------------------------------------------------------
(***************************************************************************)
(* One row per article: the invariant.                                     *)
(***************************************************************************)
Urls == {Canonical(l) : l \in Links}
Linked == {e \in UNION {Range(b) : b \in Answers} : e.link # None}

\* Who is busy has something to be busy with.
Busy ==
  /\ todo \in SUBSET Sources
  /\ \A c \in Clients : pc[c] \in {"robots", "fetch", "save"} => todo # {}
  /\ turn \in Nat
  /\ \A c \in Clients : pc[c] \in {"home", "feed", "verdict"} => turn \in DOMAIN Portals
  /\ feeds \in Seq(Feeds)
  /\ \A c \in Clients : pc[c] = "feed" => feeds # <<>>

\* Every address on its way to the table, or in it, is the canonical one of a link.
KeptOnce ==
  /\ \A a \in Range(body) \cup articles : a.url \in Urls
  /\ \A a, b \in articles : a.url = b.url => a = b

\* The candidates are written once, from all entries.
Written ==
  /\ entries \in Seq([url : Urls, portal : Nat])
  /\ candidates # None =>
       /\ \A c \in Clients : pc[c] \notin {"home", "feed", "verdict"}
       /\ candidates = Deduplicated(entries)

\* However it is decorated, a link of one article is one address.
LEMMA OneAddress ==
  ASSUME NEW u \in Urls, NEW v \in Urls, Story(u) = Story(v)
  PROVE  u = v
<1>1. PICK l \in Links : u = Canonical(l)
  BY DEF Urls
<1>2. PICK m \in Links : v = Canonical(m)
  BY DEF Urls
<1>3. /\ l = [path |-> l.path, params |-> l.params]
      /\ m = [path |-> m.path, params |-> m.params]
      /\ Story([path |-> l.path, params |-> l.params \ TRACKING_PARAMS]) = Story(l)
      /\ Story([path |-> m.path, params |-> m.params \ TRACKING_PARAMS]) = Story(m)
  BY StoriesAssumption
<1>4. /\ u = [path |-> l.path, params |-> l.params \ TRACKING_PARAMS]
      /\ v = [path |-> m.path, params |-> m.params \ TRACKING_PARAMS]
  BY <1>1, <1>2, <1>3 DEF Canonical
<1>5. Story(l) = Story(m)
  BY <1>3, <1>4
<1>6. l.path = m.path /\ l.params \ TRACKING_PARAMS = m.params \ TRACKING_PARAMS
  BY <1>5, StoriesAssumption
<1> QED  BY <1>4, <1>6

LEMMA UsableType ==
  ASSUME NEW b \in Answers \cup {<<>>}
  PROVE  Usable(b) \in Seq(Linked)
<1> DEFINE places == {i \in DOMAIN b : b[i].titled /\ b[i].link # None}
<1>1. Len(b) \in Nat /\ DOMAIN b = 1..Len(b)
  BY StoriesAssumption
<1>2. ASSUME NEW i \in places PROVE b[i] \in Linked
  <2>1. i \in DOMAIN b /\ b \in Answers /\ b[i].link # None
    BY <1>1
  <2>2. b[i] \in Range(b)
    BY <2>1 DEF Range
  <2> QED  BY <2>1, <2>2 DEF Linked
<1>3. At(b, places) \in Seq(Linked)
  <2>1. places \subseteq DOMAIN b
    OBVIOUS
  <2> HIDE DEF places
  <2> QED  BY <1>1, <1>2, <2>1, AtIsSeq
<1> QED  BY <1>3 DEF Usable

LEMMA LinkedUrl ==
  ASSUME NEW e \in Linked
  PROVE  Canonical(e.link) \in Urls
BY DEF Linked, Links, Urls

LEMMA ParsedUrls ==
  ASSUME NEW b \in Answers, NEW a \in Range(ParseFeed(b)) \cup Range(ParseListing(b))
  PROVE  a.url \in Urls
<1> DEFINE usable == Usable(b)
           cards == At(usable, {i \in DOMAIN usable : usable[i].hops <= MAX_ANCHOR_HOPS})
           read == [i \in DOMAIN usable |->
                     [url |-> Canonical(usable[i].link), lead |-> HasEntryLead(usable[i])]]
           listed == [i \in DOMAIN cards |-> [url |-> Canonical(cards[i].link), lead |-> FALSE]]
           Found == [url : Urls, lead : BOOLEAN]
<1>1. usable \in Seq(Linked)
  BY UsableType
<1> HIDE DEF usable
<1>2. cards \in Seq(Linked)
  <2> DEFINE places == {i \in DOMAIN usable : usable[i].hops <= MAX_ANCHOR_HOPS}
  <2>1. Len(usable) \in Nat /\ DOMAIN usable = 1..Len(usable) /\ places \subseteq DOMAIN usable
    BY <1>1
  <2>2. \A i \in places : usable[i] \in Linked
    BY <1>1
  <2> HIDE DEF places
  <2>3. At(usable, places) \in Seq(Linked)
    BY <2>1, <2>2, AtIsSeq
  <2> QED  BY <2>3 DEF places
<1> HIDE DEF cards
<1>3. read \in Seq(Found)
  <2>1. \A i \in 1..Len(usable) : read[i] \in Found
    BY <1>1, LinkedUrl DEF HasEntryLead
  <2>2. Len(usable) \in Nat /\ read \in [1..Len(usable) -> Found]
    <3>1. Len(usable) \in Nat /\ DOMAIN usable = 1..Len(usable)
      BY <1>1
    <3>2. read = [i \in 1..Len(usable) |-> read[i]]
      BY <3>1
    <3> HIDE DEF read, Found
    <3> QED  BY <2>1, <3>1, <3>2
  <2> HIDE DEF read, Found
  <2> QED  BY <2>2
<1>4. listed \in Seq(Found)
  <2>1. \A i \in 1..Len(cards) : listed[i] \in Found
    BY <1>2, LinkedUrl
  <2>2. Len(cards) \in Nat /\ listed \in [1..Len(cards) -> Found]
    <3>1. Len(cards) \in Nat /\ DOMAIN cards = 1..Len(cards)
      BY <1>2
    <3>2. listed = [i \in 1..Len(cards) |-> listed[i]]
      BY <3>1
    <3> HIDE DEF listed, Found
    <3> QED  BY <2>1, <3>1, <3>2
  <2> HIDE DEF listed, Found
  <2> QED  BY <2>2
<1>5. Deduplicated(read) \in Seq(Found) /\ Deduplicated(listed) \in Seq(Found)
  <2> HIDE DEF read, listed, Found
  <2> QED  BY <1>3, <1>4, DeduplicatedFacts
<1>6. ParseFeed(b) = Deduplicated(read) /\ ParseListing(b) = Deduplicated(listed)
  BY DEF ParseFeed, ParseListing, usable, cards
<1>7. a \in Found
  <2> HIDE DEF read, listed, Found
  <2> QED  BY <1>5, <1>6 DEF Range
<1> QED  BY <1>7

LEMMA CurrentIsNext ==
  ASSUME Busy, todo # {}
  PROVE  Current \in todo
<1>1. \E s \in todo : \A r \in todo : s <= r
  <2>1. todo \in SUBSET Nat
    BY AddressesAssumption DEF Busy
  <2> QED  BY <2>1, LeastExists
<1> QED  BY <1>1 DEF Current, First


\* A step that does not touch the work leaves everybody as busy as before.
LEMMA BusyStays ==
  ASSUME Busy, todo' = todo, turn' = turn, feeds' = feeds,
         \A c \in Clients :
           /\ pc'[c] \in {"robots", "fetch", "save"} => pc[c] \in {"robots", "fetch", "save"}
           /\ pc'[c] \in {"home", "feed", "verdict"} => pc'[c] = pc[c]
  PROVE  Busy'
BY DEF Busy

LEMMA GoOnBusy ==
  ASSUME ClockTypeOK, ClockTypeOK', Busy, NEW c \in Clients,
         pc[c] \in {"robots", "fetch", "save"}, GoOn(c)
  PROVE  Busy'
<1>1. /\ todo' \in SUBSET Sources /\ turn' = turn /\ feeds' = feeds
      /\ pc' = [pc EXCEPT ![c] = IF todo' = {} THEN "idle" ELSE "robots"]
  BY DEF GoOn, Busy, auditVars
<1>2. \A d \in Clients \ {c} : pc'[d] = pc[d] /\ pc[d] \notin {"robots", "fetch", "save"}
  BY <1>1 DEF ClockTypeOK, Stages
<1>3. pc'[c] = IF todo' = {} THEN "idle" ELSE "robots"
  BY <1>1 DEF ClockTypeOK
<1> QED  BY <1>1, <1>2, <1>3 DEF Busy

LEMMA BusyInit == Init => Busy
<1> SUFFICES ASSUME Init PROVE Busy
  OBVIOUS
<1>1. \A c \in Clients : pc[c] \in {"done", "idle", "home"}
  BY DEF Init
<1>2. todo = {} /\ turn = 1 /\ feeds = <<>>
  BY DEF Init
<1>3. 1 \in DOMAIN Portals
  <2>1. Portals \in Seq(Range(Portals)) /\ Portals # <<>>
    BY AddressesAssumption
  <2> QED  BY <2>1
<1> QED  BY <1>1, <1>2, <1>3 DEF Busy

LEMMA BusyStep == ClockTypeOK /\ ClockTypeOK' /\ Busy /\ [Next]_vars => Busy'
<1> SUFFICES ASSUME ClockTypeOK, ClockTypeOK', Busy, [Next]_vars PROVE Busy'
  OBVIOUS
<1>1. ASSUME NEW c \in Clients, Request(c) PROVE Busy'
  BY <1>1, BusyStays DEF Request, StartWait, Send, Redirect, ingestVars, auditVars
<1>2. CASE (\E h \in Hosts : ChangeRules(h)) \/ Tick \/ StoreGold \/ UNCHANGED vars
  BY <1>2, BusyStays DEF ChangeRules, Tick, StoreGold, vars, ingestVars, auditVars
\* Only ingest has sources to go through.
<1>3. ASSUME NEW c \in Clients, c = "ingest", NEW next, pc' = [pc EXCEPT ![c] = next],
             todo' \in SUBSET Sources, next \in {"robots", "fetch", "save"} => todo' # {},
             next \notin {"home", "feed", "verdict"}, turn' = turn, feeds' = feeds
      PROVE  Busy'
  <2>1. \A d \in Clients \ {c} : pc'[d] = pc[d] /\ pc[d] \notin {"robots", "fetch", "save"}
    BY <1>3 DEF ClockTypeOK, Stages
  <2>2. pc'[c] = next
    BY <1>3 DEF ClockTypeOK
  <2> QED  BY <1>3, <2>1, <2>2 DEF Busy
<1>4. ASSUME NEW c \in Clients, StartPass(c) PROVE Busy'
  <2>1. Sources # {} /\ "robots" \notin {"home", "feed", "verdict"}
    BY AddressesAssumption
  <2> QED  BY <1>3, <1>4, <2>1 DEF StartPass, auditVars
<1>5. ASSUME NEW c \in Clients, Crash(c) PROVE Busy'
  BY <1>3, <1>5 DEF Crash, auditVars
<1>6. ASSUME NEW c \in Clients, RobotsVerdict(c) \/ FetchSource(c) PROVE Busy'
  <2>1. pc[c] \in {"robots", "fetch"} /\ c = "ingest"
    BY <1>6 DEF RobotsVerdict, FetchSource, ClockTypeOK, Stages
  <2>2. CASE GoOn(c)
    BY <2>1, <2>2, GoOnBusy
  <2>3. ASSUME NEW next \in {"fetch", "save"}, pc' = [pc EXCEPT ![c] = next],
               todo' = todo, turn' = turn, feeds' = feeds
        PROVE  Busy'
    <3>1. todo \in SUBSET Sources /\ todo # {}
      BY <2>1 DEF Busy
    <3> QED  BY <1>3, <2>1, <2>3, <3>1
  <2>4. CASE \E told \in Told : Read(c, told)
    BY <2>3, <2>4 DEF Read, Answered, ingestVars, auditVars
  <2>5. CASE FetchSource(c)
    BY <2>3, <2>5 DEF FetchSource, Answered, auditVars
  <2> QED  BY <1>6, <2>2, <2>4, <2>5 DEF RobotsVerdict, NextSource
<1>7. ASSUME NEW c \in Clients, Unsupported(c) \/ FetchYieldsNothing(c) \/ SaveArticles(c)
      PROVE  Busy'
  BY <1>7, GoOnBusy DEF Unsupported, FetchYieldsNothing, SaveArticles, NextSource
\* Only the audit has portals.
<1>8. ASSUME NEW c \in Clients, pc[c] \in {"home", "feed", "verdict"}, NEW next,
             pc' = [pc EXCEPT ![c] = next], next \in {"home", "feed", "verdict", "done"},
             todo' = todo, turn' \in Nat, feeds' \in Seq(Feeds),
             next # "done" => turn' \in DOMAIN Portals, next = "feed" => feeds' # <<>>
      PROVE  Busy'
  <2>1. \A d \in Clients \ {c} : pc'[d] = pc[d] /\ pc[d] \notin {"home", "feed", "verdict"}
    BY <1>8, ClientsAssumption DEF ClockTypeOK, Stages
  <2>2. pc'[c] = next
    BY <1>8 DEF ClockTypeOK
  <2> QED  BY <1>8, <2>1, <2>2 DEF Busy
<1>9. ASSUME NEW c \in Clients, DiscoverFeeds(c) PROVE Busy'
  <2>1. /\ turn \in Nat /\ turn \in DOMAIN Portals /\ pc[c] = "home"
        /\ todo' = todo /\ turn' = turn
    BY <1>9 DEF DiscoverFeeds, Busy, ingestVars
  <2>2. PICK declared \in {<<>>, Portals[turn].declared} :
          feeds' = Portals[turn].known \o
            At(declared, {i \in DOMAIN declared : declared[i] \notin Range(Portals[turn].known)})
    BY <1>9 DEF DiscoverFeeds
  <2>3. feeds' \in Seq(Feeds)
    <3> DEFINE portal == Portals[turn]
               new == {i \in DOMAIN declared : declared[i] \notin Range(portal.known)}
    <3>1. portal \in Range(Portals)
      BY <2>1 DEF Range
    <3>2. portal.known \in Seq(Range(portal.known)) /\ portal.declared \in Seq(Range(portal.declared))
      BY <3>1, AddressesAssumption
    <3>3. Range(portal.known) \subseteq Feeds /\ Range(portal.declared) \subseteq Feeds
      BY <3>1 DEF Feeds
    <3> HIDE DEF portal
    <3>4. portal.known \in Seq(Feeds)
      BY <3>2, <3>3
    <3>5. declared \in {<<>>, portal.declared}
      BY <2>2 DEF portal
    <3>6. /\ Len(declared) \in Nat /\ DOMAIN declared = 1..Len(declared)
          /\ \A i \in DOMAIN declared : declared[i] \in Feeds
      <4>1. CASE declared = <<>>
        BY <4>1
      <4>2. CASE declared = portal.declared
        BY <3>2, <3>3, <4>2
      <4> QED  BY <3>5, <4>1, <4>2
    <3>7. At(declared, new) \in Seq(Feeds)
      <4>1. new \subseteq DOMAIN declared
        OBVIOUS
      <4> HIDE DEF new
      <4> QED  BY <3>6, <4>1, AtIsSeq
    <3>8. feeds' = portal.known \o At(declared, new)
      BY <2>2 DEF portal
    <3> HIDE DEF new
    <3> QED  BY <3>4, <3>7, <3>8
  <2>4. pc' = [pc EXCEPT ![c] = IF feeds' = <<>> THEN "verdict" ELSE "feed"]
    BY <1>9 DEF DiscoverFeeds, Answered
  <2> QED  BY <1>8, <2>1, <2>3, <2>4
<1>10. ASSUME NEW c \in Clients, Probe(c) PROVE Busy'
  <2>1. /\ turn \in Nat /\ turn \in DOMAIN Portals /\ pc[c] = "feed"
        /\ todo' = todo /\ turn' = turn /\ feeds' = Tail(feeds)
        /\ feeds \in Seq(Feeds) /\ feeds # <<>>
    BY <1>10 DEF Probe, Busy, ingestVars
  <2>2. feeds' \in Seq(Feeds)
    BY <2>1
  <2>3. pc' = [pc EXCEPT ![c] = IF feeds' = <<>> THEN "verdict" ELSE "feed"]
    BY <1>10 DEF Probe, Answered
  <2> QED  BY <1>8, <2>1, <2>2, <2>3
<1>11. ASSUME NEW c \in Clients, Verdict(c) PROVE Busy'
  <2>1. /\ turn \in Nat /\ turn' = turn + 1 /\ pc[c] = "verdict"
        /\ todo' = todo /\ feeds' = feeds /\ feeds \in Seq(Feeds)
    BY <1>11 DEF Verdict, Busy, ingestVars
  <2>2. CASE turn' \in DOMAIN Portals
    <3>1. pc' = [pc EXCEPT ![c] = "home"]
      BY <1>11, <2>2 DEF Verdict, Answered
    <3>2. turn' \in Nat /\ feeds' \in Seq(Feeds)
      BY <2>1
    <3> QED  BY <1>8, <2>1, <2>2, <3>1, <3>2
  <2>3. CASE turn' \notin DOMAIN Portals
    <3>1. pc' = [pc EXCEPT ![c] = "done"]
      BY <1>11, <2>3 DEF Verdict, Answered
    <3>2. turn' \in Nat /\ feeds' \in Seq(Feeds)
      BY <2>1
    <3> QED  BY <1>8, <2>1, <3>1, <3>2
  <2> QED  BY <2>2, <2>3
<1> QED  BY <1>1, <1>2, <1>4, <1>5, <1>6, <1>7, <1>9, <1>10, <1>11
         DEF Next, IngestStep, AuditStep

-----------------------------------------------------------------------------
\* Rows of canonical addresses, one of each address, leave the table so.
LEMMA InsertKeeps ==
  ASSUME KeptOnce, NEW rows, Insert(rows),
         \A a \in rows : a.url \in Urls,
         \A a, b \in rows : a.url = b.url => a = b
  PROVE  /\ \A a \in articles' : a.url \in Urls
         /\ \A a, b \in articles' : a.url = b.url => a = b
BY DEF KeptOnce, Insert

LEMMA KeptOnceStep ==
  ClockTypeOK /\ Busy /\ KeptOnce /\ [Next]_vars => KeptOnce'
<1> SUFFICES ASSUME ClockTypeOK, Busy, KeptOnce, [Next]_vars PROVE KeptOnce'
  OBVIOUS
\* What is parsed is dropped with the source.
<1>1. ASSUME articles' = articles, body' = body \/ body' = <<>> PROVE KeptOnce'
  <2>1. Range(body') \subseteq Range(body)
    BY <1>1 DEF Range
  <2> QED  BY <1>1, <2>1 DEF KeptOnce
<1>2. ASSUME NEW c \in Clients, Request(c) \/ StartPass(c) \/ RobotsVerdict(c) \/ Unsupported(c)
               \/ FetchYieldsNothing(c) \/ AuditStep(c) \/ Crash(c)
      PROVE  KeptOnce'
  BY <1>1, <1>2 DEF Request, StartWait, Send, Redirect, StartPass, RobotsVerdict, Read, Unsupported,
       FetchYieldsNothing, NextSource, GoOn, AuditStep, DiscoverFeeds, Probe, Verdict, Crash,
       ingestVars
<1>3. CASE (\E h \in Hosts : ChangeRules(h)) \/ Tick \/ UNCHANGED vars
  BY <1>1, <1>3 DEF ChangeRules, Tick, vars, ingestVars
<1>4. ASSUME NEW c \in Clients, FetchSource(c) PROVE KeptOnce'
  <2>1. pc[c] = "fetch" /\ articles' = articles
    BY <1>4 DEF FetchSource
  <2>2. Current \in Sources
    BY <2>1, CurrentIsNext DEF Busy
  <2>3. PICK b \in Bodies(Address[Current]) :
          body' = IF Strategy[Current] = "rss" THEN ParseFeed(b) ELSE ParseListing(b)
    BY <1>4 DEF FetchSource
  <2>4. b \in Answers
    BY <2>2, <2>3 DEF Answers
  <2>5. \A a \in Range(body') : a.url \in Urls
    BY <2>3, <2>4, ParsedUrls
  <2> QED  BY <2>1, <2>5 DEF KeptOnce
<1>5. ASSUME NEW c \in Clients, SaveArticles(c) PROVE KeptOnce'
  <2> DEFINE rows == {[url |-> a.url, source |-> Current] : a \in Range(body)}
  <2>1. Insert(rows) /\ body' = <<>>
    BY <1>5 DEF SaveArticles, GoOn
  <2>2. /\ \A a \in rows : a.url \in Urls
        /\ \A a, b \in rows : a.url = b.url => a = b
    BY DEF KeptOnce
  <2>3. Range(body') = {}
    BY <2>1 DEF Range
  <2> HIDE DEF rows
  <2> QED  BY <2>1, <2>2, <2>3, InsertKeeps DEF KeptOnce
<1>6. CASE StoreGold
  <2>1. PICK link \in GoldLinks : Insert({[url |-> Canonical(link), source |-> None]})
    BY <1>6 DEF StoreGold
  <2>2. Canonical(link) \in Urls
    BY DEF Urls, Links
  <2> DEFINE rows == {[url |-> Canonical(link), source |-> None]}
  <2>3. /\ \A a \in rows : a.url \in Urls
        /\ \A a, b \in rows : a.url = b.url => a = b
    BY <2>2
  <2>4. Insert(rows) /\ body' = body
    BY <1>6, <2>1 DEF StoreGold, ingestVars
  <2> HIDE DEF rows
  <2> QED  BY <2>3, <2>4, InsertKeeps DEF KeptOnce
<1> QED  BY <1>2, <1>3, <1>4, <1>5, <1>6 DEF Next, IngestStep

LEMMA WrittenStep ==
  ClockTypeOK /\ ClockTypeOK' /\ Busy /\ Written /\ [Next]_vars => Written'
<1> SUFFICES ASSUME ClockTypeOK, ClockTypeOK', Busy, Written, [Next]_vars PROVE Written'
  OBVIOUS
<1>1. ASSUME entries' = entries, candidates' = candidates,
             \A d \in Clients : pc'[d] \in {"home", "feed", "verdict"} =>
               pc[d] \in {"home", "feed", "verdict"}
      PROVE  Written'
  BY <1>1 DEF Written
<1>2. ASSUME NEW c \in Clients, Request(c) PROVE Written'
  BY <1>1, <1>2 DEF Request, StartWait, Send, Redirect, auditVars
<1>3. CASE (\E h \in Hosts : ChangeRules(h)) \/ Tick \/ StoreGold \/ UNCHANGED vars
  BY <1>1, <1>3 DEF ChangeRules, Tick, StoreGold, vars, auditVars
<1>4. ASSUME NEW c \in Clients, IngestStep(c) \/ Crash(c) PROVE Written'
  <2>1. entries' = entries /\ candidates' = candidates
    BY <1>4 DEF IngestStep, StartPass, RobotsVerdict, Read, Unsupported, FetchYieldsNothing, FetchSource,
         SaveArticles, NextSource, GoOn, Crash, auditVars
  <2>2. PICK next \in {"idle", "robots", "fetch", "save"} : pc' = [pc EXCEPT ![c] = next]
    BY <1>4 DEF IngestStep, StartPass, RobotsVerdict, Read, Unsupported, FetchYieldsNothing, FetchSource,
         SaveArticles, NextSource, GoOn, Answered, Crash
  <2>3. \A d \in Clients : pc'[d] = IF d = c THEN next ELSE pc[d]
    BY <2>2 DEF ClockTypeOK
  <2> QED  BY <1>1, <2>1, <2>3
\* The audit is at work, so it has not written its candidates.
<1>5. ASSUME NEW c \in Clients, pc[c] \in {"home", "feed", "verdict"},
             candidates' = candidates, entries' \in Seq([url : Urls, portal : Nat])
      PROVE  Written'
  BY <1>5 DEF Written
<1>6. ASSUME NEW c \in Clients, DiscoverFeeds(c) PROVE Written'
  BY <1>5, <1>6 DEF DiscoverFeeds, Written
<1>7. ASSUME NEW c \in Clients, Probe(c) PROVE Written'
  <2>1. /\ pc[c] = "feed" /\ candidates' = candidates /\ turn \in Nat
        /\ feeds \in Seq(Feeds) /\ feeds # <<>> /\ entries \in Seq([url : Urls, portal : Nat])
    BY <1>7 DEF Probe, Busy, Written
  <2>2. PICK b \in Bodies(Head(feeds)) \cup {<<>>} :
          entries' = entries \o [i \in DOMAIN Usable(b) |->
                       [url |-> Canonical(Usable(b)[i].link), portal |-> turn]]
    BY <1>7 DEF Probe
  <2>3. b \in Answers \cup {<<>>}
    <3>1. Head(feeds) \in Feeds
      BY <2>1
    <3> QED  BY <2>2, <3>1 DEF Answers
  <2> DEFINE usable == Usable(b)
             new == [i \in DOMAIN usable |-> [url |-> Canonical(usable[i].link), portal |-> turn]]
             Row == [url : Urls, portal : Nat]
  <2>4. usable \in Seq(Linked)
    BY <2>3, UsableType
  <2>5. entries' = entries \o new
    BY <2>2
  <2> HIDE DEF usable
  <2>6. Len(usable) \in Nat /\ DOMAIN usable = 1..Len(usable)
    BY <2>4
  <2>7. \A i \in 1..Len(usable) : new[i] \in Row
    BY <2>1, <2>4, <2>6, LinkedUrl
  <2>8. new = [i \in 1..Len(usable) |-> new[i]]
    BY <2>6
  <2> HIDE DEF new
  <2>9. new \in Seq(Row)
    <3> HIDE DEF Row
    <3>1. new \in [1..Len(usable) -> Row]
      BY <2>7, <2>8
    <3> QED  BY <2>6, <3>1
  <2>10. entries' \in Seq(Row)
    <3>1. entries \in Seq(Row)
      BY <2>1
    <3> HIDE DEF Row
    <3> QED  BY <2>5, <2>9, <3>1
  <2> QED  BY <1>5, <2>1, <2>10
<1>8. ASSUME NEW c \in Clients, Verdict(c) PROVE Written'
  <2>1. pc[c] = "verdict" /\ entries' = entries /\ entries \in Seq([url : Urls, portal : Nat])
    BY <1>8 DEF Verdict, Written
  <2>2. CASE turn' \in DOMAIN Portals
    BY <1>5, <1>8, <2>1, <2>2 DEF Verdict
  <2>3. CASE turn' \notin DOMAIN Portals
    <3>1. pc' = [pc EXCEPT ![c] = "done"] /\ candidates' = Deduplicated(entries)
      BY <1>8, <2>3 DEF Verdict, Answered
    <3>2. \A d \in Clients : pc'[d] \notin {"home", "feed", "verdict"}
      BY <2>1, <3>1, ClientsAssumption DEF ClockTypeOK, Stages
    <3> QED  BY <2>1, <3>1, <3>2 DEF Written
  <2> QED  BY <2>2, <2>3
<1> QED  BY <1>2, <1>3, <1>4, <1>6, <1>7, <1>8 DEF Next, AuditStep

-----------------------------------------------------------------------------
(***************************************************************************)
(* Robots.txt.                                                             *)
(***************************************************************************)
\* Where the turn of the current source has come to: what has allowed it since
\* is noted, and what is fetched or stored has been allowed.
InTurn(c) == pc[c] \in {"robots", "fetch", "save"}
Cleared ==
  \A c \in Clients :
    /\ InTurn(c) /\ Permits(Host(Address[Current])) => permitted
    /\ pc[c] \in {"fetch", "save"} => permitted

\* A step in which no turn begins, no source is cleared and no rule changes.
LEMMA ClearedStays ==
  ASSUME Cleared, UNCHANGED <<rules, permitted>>,
         \A c \in Clients :
           /\ InTurn(c)' => InTurn(c) /\ todo' = todo
           /\ pc'[c] \in {"fetch", "save"} => pc[c] \in {"fetch", "save"}
  PROVE  Cleared'
<1> SUFFICES ASSUME NEW c \in Clients
             PROVE  /\ InTurn(c)' /\ Permits(Host(Address[Current]))' => permitted
                    /\ pc'[c] \in {"fetch", "save"} => permitted
  BY DEF Cleared
<1>1. InTurn(c)' => Permits(Host(Address[Current]))' = Permits(Host(Address[Current]))
  BY DEF Current, First, Permits
<1> QED  BY <1>1 DEF Cleared, InTurn

\* When a turn begins, only what its host's rules say is known.
LEMMA TurnBegins ==
  ASSUME ClockTypeOK, ClockTypeOK', NEW c \in Clients, c = "ingest",
         pc'[c] \in {"idle", "robots"}, rules' = rules,
         pc'[c] = "robots" /\ Permits(Host(Address[First(todo')])) => permitted'
  PROVE  Cleared'
<1>1. \A d \in Clients : InTurn(d)' => d = c
  BY DEF ClockTypeOK, Stages, InTurn
<1>2. pc'[c] = "robots" /\ Permits(Host(Address[Current]))' => permitted'
  BY DEF Current, First, Permits
<1> QED  BY <1>1, <1>2 DEF Cleared, InTurn

LEMMA ClearedStep ==
  ClockTypeOK /\ ClockTypeOK' /\ Busy /\ Cleared /\ [Next]_vars => Cleared'
<1> SUFFICES ASSUME ClockTypeOK, ClockTypeOK', Busy, Cleared, [Next]_vars PROVE Cleared'
  OBVIOUS
<1>1. ASSUME NEW c \in Clients, InTurn(c), GoOn(c) PROVE Cleared'
  <2>1. c = "ingest"
    BY <1>1 DEF ClockTypeOK, Stages, InTurn
  <2>2. pc'[c] = IF todo' = {} THEN "idle" ELSE "robots"
    BY <1>1 DEF ClockTypeOK, GoOn
  <2>3. todo' # {} /\ Permits(Host(Address[First(todo')])) => permitted'
    BY <1>1 DEF GoOn
  <2>4. rules' = rules
    BY <1>1 DEF GoOn
  <2> QED  BY <2>1, <2>2, <2>3, <2>4, TurnBegins
<1>2. ASSUME NEW c \in Clients, StartPass(c) PROVE Cleared'
  <2>1. c = "ingest" /\ pc'[c] = "robots"
    BY <1>2 DEF ClockTypeOK, StartPass
  <2>2. todo' = Sources /\ rules' = rules
    BY <1>2 DEF StartPass
  <2>3. Permits(Host(Address[First(todo')])) => permitted'
    BY <1>2, <2>2 DEF StartPass
  <2> QED  BY <2>1, <2>2, <2>3, TurnBegins
<1>3. ASSUME NEW c \in Clients, Crash(c) PROVE Cleared'
  <2>1. c = "ingest" /\ pc'[c] = "idle"
    BY <1>3 DEF ClockTypeOK, Crash
  <2> QED  BY <1>3, <2>1, TurnBegins DEF Crash
\* Whoever goes on to fetch was allowed, or told nothing.
<1>4. ASSUME NEW c \in Clients, RobotsVerdict(c) PROVE Cleared'
  <2>1. CASE NextSource(c)
    BY <1>1, <1>4, <2>1 DEF NextSource, RobotsVerdict, InTurn
  <2>2. ASSUME NEW told \in Told \ {"disallow"}, Read(c, told) PROVE Cleared'
    <3>1. permitted'
      <4>1. CASE told = "nothing"
        BY <2>2, <4>1 DEF Read
      <4>2. CASE told = rules[Host(Address[Current])]
        <5>1. InTurn(c) /\ Permits(Host(Address[Current]))
          BY <1>4, <2>2, <4>2 DEF RobotsVerdict, InTurn, Permits
        <5> QED  BY <2>2, <5>1 DEF Cleared, Read
      <4> QED  BY <2>2, <4>1, <4>2 DEF Told
    <3> QED  BY <3>1 DEF Cleared
  <2> QED  BY <1>4, <2>1, <2>2 DEF RobotsVerdict
<1>5. ASSUME NEW c \in Clients, Unsupported(c) \/ FetchYieldsNothing(c) \/ SaveArticles(c)
      PROVE  Cleared'
  BY <1>1, <1>5 DEF Unsupported, FetchYieldsNothing, SaveArticles, NextSource, InTurn
<1>6. ASSUME NEW c \in Clients, FetchSource(c) PROVE Cleared'
  <2>1. pc[c] = "fetch" /\ todo' = todo /\ UNCHANGED <<rules, permitted>>
    BY <1>6 DEF FetchSource, Answered
  <2>2. \A d \in Clients : pc'[d] = IF d = c THEN "save" ELSE pc[d]
    BY <1>6 DEF FetchSource, Answered, ClockTypeOK
  <2> QED  BY <2>1, <2>2, ClearedStays DEF InTurn
<1>7. ASSUME NEW h \in Hosts, ChangeRules(h) PROVE Cleared'
  <2> SUFFICES ASSUME NEW c \in Clients, InTurn(c)
               PROVE  /\ Permits(Host(Address[Current]))' => permitted'
                      /\ pc[c] \in {"fetch", "save"} => permitted'
    BY <1>7 DEF Cleared, InTurn, ChangeRules
  <2>1. todo # {} /\ Current' = Current
    BY <1>7 DEF Busy, InTurn, ChangeRules, ingestVars, Current, First
  <2>2. permitted' = (permitted \/ rules'[Host(Address[Current])] # "disallow")
    BY <1>7, <2>1 DEF ChangeRules
  <2>3. pc[c] \in {"fetch", "save"} => permitted
    BY DEF Cleared
  <2> QED  BY <2>1, <2>2, <2>3 DEF Permits
<1>8. ASSUME NEW c \in Clients, AuditStep(c) PROVE Cleared'
  <2>1. todo' = todo /\ UNCHANGED <<rules, permitted>>
    BY <1>8 DEF AuditStep, DiscoverFeeds, Probe, Verdict, Answered, ingestVars
  <2>2. PICK next \in {"home", "feed", "verdict", "done"} : pc' = [pc EXCEPT ![c] = next]
    BY <1>8 DEF AuditStep, DiscoverFeeds, Probe, Verdict, Answered
  <2>3. \A d \in Clients : pc'[d] = IF d = c THEN next ELSE pc[d]
    BY <2>2 DEF ClockTypeOK
  <2> QED  BY <2>1, <2>3, ClearedStays DEF InTurn
<1>9. ASSUME NEW c \in Clients, Request(c) PROVE Cleared'
  <2>1. UNCHANGED <<rules, permitted, pc, todo>>
    BY <1>9 DEF Request, StartWait, Send, Redirect, robotsVars, ingestVars
  <2> QED  BY <2>1, ClearedStays DEF InTurn
<1>10. CASE StoreGold \/ Tick \/ UNCHANGED vars
  <2>1. UNCHANGED <<rules, permitted, pc, todo>>
    BY <1>10 DEF StoreGold, Tick, vars, robotsVars, ingestVars
  <2> QED  BY <2>1, ClearedStays DEF InTurn
<1> QED  BY <1>2, <1>3, <1>4, <1>5, <1>6, <1>7, <1>8, <1>9, <1>10 DEF Next, IngestStep

\* A step that stores something of a source is a SaveArticles in its turn.
LEMMA OnlyTheCleared ==
  ASSUME ClockTypeOK, Cleared, Next, NEW a \in articles' \ articles, a.source # None
  PROVE  a.source = Current /\ permitted
<1>1. CASE \E c \in Clients : SaveArticles(c)
  <2>1. PICK c \in Clients : SaveArticles(c)
    BY <1>1
  <2>2. pc[c] = "save" /\ a.source = Current
    BY <2>1 DEF SaveArticles, Insert
  <2> QED  BY <2>2 DEF Cleared
<1>2. CASE StoreGold
  BY <1>2 DEF StoreGold, Insert
<1>3. CASE \A c \in Clients : ~SaveArticles(c)
  <2>1. articles' = articles \/ StoreGold
    BY <1>3 DEF Next, Request, StartWait, Send, Redirect, IngestStep, StartPass, RobotsVerdict, Read,
         Unsupported, FetchYieldsNothing, FetchSource, NextSource, AuditStep, DiscoverFeeds, Probe,
         Verdict, Crash, ChangeRules, Tick
  <2> QED  BY <1>2, <2>1
<1> QED  BY <1>1, <1>3

\* ingest/__main__.py:77: for any sources, whenever portals change their rules,
\* whatever is redirected where and whoever dies, nothing is stored of a source
\* whose host answers for its robots.txt and disallows it throughout its turn.
THEOREM ForbiddenIsNeverStored == Spec => ForbiddenIsNotStored
<1>1. Init => Busy /\ Cleared
  <2> SUFFICES ASSUME Init PROVE Busy /\ Cleared
    OBVIOUS
  <2>1. \A c \in Clients : pc[c] \in {"done", "idle", "home"}
    BY DEF Init
  <2> QED  BY <2>1, BusyInit DEF Cleared, InTurn
<1>2. ClockInv => ClockTypeOK
  BY DEF ClockInv
<1>3. ClockTypeOK /\ Cleared /\ [Next]_vars =>
        [\A a \in articles' \ articles :
           a.source # None => a.source = Current /\ permitted]_vars
  BY OnlyTheCleared
<1> QED  BY <1>1, <1>2, <1>3, ClockInit, ClockStep, BusyStep, ClearedStep, PTL
         DEF Spec, ForbiddenIsNotStored

\* fetch.py:85: for any sources, portals, feeds and listings, however a link is
\* decorated and whoever stores it first, an article is one row of the table and
\* one candidate, and no article that the audit saw is left out.
THEOREM OneRowEach == Spec => []OneRowPerArticle
<1>1. Init => Busy /\ KeptOnce /\ Written
  <2> SUFFICES ASSUME Init PROVE KeptOnce /\ Written
    BY BusyInit
  <2>1. body = <<>> /\ articles = {} /\ entries = <<>> /\ candidates = None
    BY DEF Init
  <2>2. Range(body) = {}
    BY <2>1 DEF Range
  <2> QED  BY <2>1, <2>2 DEF KeptOnce, Written
<1>2. KeptOnce /\ Written => OneRowPerArticle
  <2> SUFFICES ASSUME KeptOnce, Written PROVE OneRowPerArticle
    OBVIOUS
  <2>1. \A a, b \in articles : Story(a.url) = Story(b.url) => a = b
    BY OneAddress DEF KeptOnce
  <2>2. ASSUME candidates # None
        PROVE  /\ \A i, j \in DOMAIN candidates :
                    Story(candidates[i].url) = Story(candidates[j].url) => i = j
               /\ \A e \in Range(entries) : \E x \in Range(candidates) : Story(e.url) = Story(x.url)
    <3> DEFINE Row == [url : Urls, portal : Nat]
    <3>1. entries \in Seq(Row) /\ candidates = Deduplicated(entries)
      BY <2>2 DEF Written
    <3>2. /\ candidates \in Seq(Row)
          /\ \A i, j \in DOMAIN candidates : candidates[i].url = candidates[j].url => i = j
          /\ \A i \in DOMAIN entries : \E k \in DOMAIN candidates :
               candidates[k].url = entries[i].url
      <4> HIDE DEF Row
      <4> QED  BY <3>1, DeduplicatedFacts
    <3>3. \A i \in DOMAIN candidates : candidates[i].url \in Urls
      <4>1. \A i \in DOMAIN candidates : candidates[i] \in Row
        <5> HIDE DEF Row
        <5> QED  BY <3>2
      <4> QED  BY <4>1
    <3>4. \A i, j \in DOMAIN candidates :
            Story(candidates[i].url) = Story(candidates[j].url) => i = j
      BY <3>2, <3>3, OneAddress
    <3>5. \A e \in Range(entries) : \E x \in Range(candidates) : Story(e.url) = Story(x.url)
      BY <3>2 DEF Range
    <3> QED  BY <3>4, <3>5
  <2> QED  BY <2>1, <2>2 DEF OneRowPerArticle
<1>3. ClockInv => ClockTypeOK
  BY DEF ClockInv
<1> QED  BY <1>1, <1>2, <1>3, ClockInit, ClockStep, BusyStep, KeptOnceStep, WrittenStep, PTL DEF Spec

=============================================================================
