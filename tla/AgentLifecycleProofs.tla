------------------------ MODULE AgentLifecycleProofs -------------------------
(***************************************************************************)
(* Proofs about AgentLifecycle for any number of processes, forks and      *)
(* restarts.                                                               *)
(***************************************************************************)
EXTENDS AgentLifecycle, TLAPS

(* What the results need to know of an agent object: the process that ran  *)
(* __bootstrap last has existed, the registered handlers are counted by    *)
(* the flag, and only Events created so far are set.                       *)
Born == alive \cup exited

Record == [started : BOOLEAN, startedPid : Pid \cup {NoPid}, reporting : BOOLEAN,
           hooks : BOOLEAN, finiRegistered : BOOLEAN, atexit : Nat,
           finalized : Nat, event : Nat, set : SUBSET Nat, bootPid : Pid \cup {NoPid}]

Sound(a) ==
  /\ a \in Record
  /\ a.atexit = (IF a.finiRegistered THEN 1 ELSE 0)
  /\ \A e \in a.set : e <= a.event

Registered(p, a) == a.reporting /\ a.bootPid = p => a.finiRegistered

LifeInv ==
  /\ alive \subseteq Pid /\ exited \subseteq Pid
  /\ agent \in [Pid -> Record]
  /\ threads \in [Pid -> SUBSET [event : Nat, turn : {"top", "busy", "zombie"}]]
  /\ \A p \in Pid : Sound(agent[p]) /\ Registered(p, agent[p])
  /\ \A p \in Pid : agent[p].bootPid \in Born \cup {NoPid}
  /\ ReportingHasReporter

-----------------------------------------------------------------------------
(* What the constants' assumption says.                                    *)
LEMMA Pids == NoPid \notin Pid
BY LifecycleAssumption DEF LifecycleAssumption, NoPid

(* __init_instrumentation and the start of start().                        *)
LEMMA EnteredIs ==
  ASSUME NEW p \in Pid, NEW a, Sound(a)
  PROVE  /\ Sound(Entered(p, a))
         /\ Entered(p, a).reporting = a.reporting /\ Entered(p, a).bootPid = a.bootPid
         /\ Entered(p, a).event = a.event /\ Entered(p, a).set = a.set
         /\ Entered(p, a).finiRegistered = a.finiRegistered
<1> DEFINE i == Instrument(a)
<1>1. /\ i \in Record /\ i.reporting = a.reporting /\ i.bootPid = a.bootPid
      /\ i.event = a.event /\ i.set = a.set
      /\ i.finiRegistered = a.finiRegistered /\ i.atexit = a.atexit
  <2>1. CASE a.started
    BY <2>1 DEF Sound, Record, Instrument
  <2>2. CASE ~a.started
    <3>1. PICK n \in Nat : n = a.finalized + 1
      BY DEF Sound, Record
    <3>2. i = [a EXCEPT !.started = TRUE, !.finalized = n]
      BY <2>2, <3>1 DEF Instrument
    <3> HIDE DEF i
    <3> QED BY <3>2 DEF Sound, Record
  <2> QED BY <2>1, <2>2
<1> HIDE DEF i
<1>2. Entered(p, a) = [i EXCEPT !.startedPid = p]
  BY DEF Entered, i
<1>3. /\ [i EXCEPT !.startedPid = p] \in Record
      /\ [i EXCEPT !.startedPid = p].reporting = a.reporting
      /\ [i EXCEPT !.startedPid = p].bootPid = a.bootPid
      /\ [i EXCEPT !.startedPid = p].event = a.event
      /\ [i EXCEPT !.startedPid = p].set = a.set
      /\ [i EXCEPT !.startedPid = p].finiRegistered = a.finiRegistered
      /\ [i EXCEPT !.startedPid = p].atexit = a.atexit
  BY <1>1 DEF Record
<1> QED BY <1>2, <1>3 DEF Sound

(* A successful start(): a fresh Event, a handler, this process.           *)
LEMMA StartedIs ==
  ASSUME NEW p \in Pid, NEW a, Sound(a)
  PROVE  /\ Sound(Started(p, a))
         /\ Started(p, a).bootPid = p /\ Started(p, a).finiRegistered
         /\ Started(p, a).event \in Nat
         /\ Started(p, a).event \notin Started(p, a).set
<1> DEFINE e == Entered(p, a)
           b == Bootstrap(p, e)
           r == RegisterFini(b)
           h == ArmHooks(r)
<1>1. Sound(e)
  BY EnteredIs
<1> HIDE DEF e
<1>2. /\ b \in Record /\ b.bootPid = p /\ b.event = e.event + 1 /\ b.set = e.set
      /\ b.finiRegistered = e.finiRegistered /\ b.atexit = e.atexit
  <2>1. PICK n \in Nat : n = e.event + 1
    BY <1>1 DEF Sound, Record
  <2>2. b = [e EXCEPT !.event = n, !.reporting = TRUE, !.bootPid = p]
    BY <2>1 DEF Bootstrap
  <2> HIDE DEF b
  <2> QED BY <1>1, <2>1, <2>2 DEF Sound, Record
<1>a. e.event \in Nat /\ e.set \subseteq Nat
  BY <1>1 DEF Sound, Record
<1>b. \A n \in b.set : n < b.event
  BY <1>1, <1>2, <1>a DEF Sound
<1>c. b.atexit = (IF b.finiRegistered THEN 1 ELSE 0)
  BY <1>1, <1>2 DEF Sound
<1>d. b.event \in Nat
  BY <1>2, <1>a
<1> HIDE DEF b
<1>3. /\ r \in Record /\ r.bootPid = p /\ r.event = b.event /\ r.set = b.set
      /\ r.finiRegistered /\ r.atexit = 1
  <2>1. CASE b.finiRegistered
    BY <2>1, <1>2, <1>c DEF RegisterFini
  <2>2. CASE ~b.finiRegistered
    <3>1. b.atexit + 1 = 1
      BY <2>2, <1>c
    <3>2. r = [b EXCEPT !.finiRegistered = TRUE, !.atexit = 1]
      BY <2>2, <3>1 DEF RegisterFini
    <3> HIDE DEF r
    <3> QED BY <3>2, <1>2 DEF Record
  <2> QED BY <2>1, <2>2
<1> HIDE DEF r
<1>4. /\ h \in Record /\ h.bootPid = p /\ h.event = b.event /\ h.set = b.set
      /\ h.finiRegistered /\ h.atexit = 1
  BY <1>3, LifecycleAssumption DEF Record, ArmHooks, LifecycleAssumption
<1> HIDE DEF h
<1>5. Started(p, a) = h
  BY DEF Started, h, r, b, e
<1>6. \A n \in h.set : n < h.event /\ n \in Nat
  BY <1>4, <1>b, <1>2, <1>a
<1>7. h.event \in Nat /\ h.event \notin h.set
  BY <1>4, <1>d, <1>6
<1>8. Sound(h)
  BY <1>4, <1>6, <1>7 DEF Sound
<1> QED BY <1>4, <1>5, <1>7, <1>8

(* __fini sets the current Event.                                          *)
LEMMA FiniIs ==
  ASSUME NEW a, Sound(a)
  PROVE  Sound(Fini(a)) /\ Fini(a).bootPid = a.bootPid /\ Fini(a).reporting = a.reporting
         /\ Fini(a).finiRegistered = a.finiRegistered
BY DEF Sound, Record, Fini

-----------------------------------------------------------------------------
(* start() entered: nothing but the start marks change.                    *)
LEMMA EnteredStep ==
  ASSUME LifeInv, NEW p \in alive, NEW a, Sound(a),
         a.reporting = agent[p].reporting, a.bootPid = agent[p].bootPid,
         a.event = agent[p].event, a.set = agent[p].set,
         a.finiRegistered = agent[p].finiRegistered,
         agent' = [agent EXCEPT ![p] = a], UNCHANGED <<alive, exited, threads>>
  PROVE  LifeInv'
<1>1. p \in Pid /\ a \in Record
  BY DEF LifeInv, Sound
<1>2. \A q \in Pid : agent'[q] = IF q = p THEN a ELSE agent[q]
  BY <1>1 DEF LifeInv
<1>3. agent' \in [Pid -> Record]
  BY <1>1 DEF LifeInv
<1>4. \A q \in Pid : Sound(agent'[q]) /\ Registered(q, agent'[q])
  BY <1>2 DEF LifeInv, Registered
<1>5. \A q \in Pid : agent'[q].bootPid \in Born' \cup {NoPid}
  BY <1>1, <1>2 DEF LifeInv, Born
<1>6. ReportingHasReporter'
  BY <1>1, <1>2 DEF LifeInv, ReportingHasReporter
<1> QED BY <1>3, <1>4, <1>5, <1>6 DEF LifeInv, Sound, Registered

(* start() leaves a handler and a reporter on the fresh Event.             *)
LEMMA StartStep == ASSUME LifeInv, NEW p \in Pid, Start(p) PROVE LifeInv'
<1> DEFINE a == Started(p, agent[p])
           t == StartedThread(a)
<1>1. /\ Sound(a) /\ a.bootPid = p /\ a.finiRegistered /\ a.event \in Nat
      /\ a.event \notin a.set
  BY StartedIs DEF LifeInv
<1>2. /\ p \in alive /\ agent' = [agent EXCEPT ![p] = a]
      /\ threads' = [threads EXCEPT ![p] = @ \cup {t}] /\ UNCHANGED <<alive, exited>>
  BY DEF Start
<1>3. t \in [event : Nat, turn : {"top", "busy", "zombie"}] /\ t.event = a.event
  BY <1>1 DEF StartedThread
<1> HIDE DEF a, t
<1>4. agent' \in [Pid -> Record]
  BY <1>1, <1>2 DEF LifeInv, Sound
<1>5. threads' \in [Pid -> SUBSET [event : Nat, turn : {"top", "busy", "zombie"}]]
  BY <1>2, <1>3 DEF LifeInv
<1>6. \A q \in Pid : /\ agent'[q] = IF q = p THEN a ELSE agent[q]
                     /\ threads'[q] = IF q = p THEN threads[q] \cup {t} ELSE threads[q]
  BY <1>2 DEF LifeInv
<1>7. \A q \in Pid : Sound(agent'[q]) /\ Registered(q, agent'[q])
  BY <1>1, <1>6 DEF LifeInv, Registered
<1>8. \A q \in Pid : agent'[q].bootPid \in Born' \cup {NoPid}
  BY <1>1, <1>2, <1>6 DEF LifeInv, Born
<1>9. ReportingHasReporter'
  BY <1>1, <1>2, <1>3, <1>6 DEF LifeInv, ReportingHasReporter
<1> QED BY <1>2, <1>4, <1>5, <1>7, <1>8, <1>9 DEF LifeInv, Sound, Registered

(* A start() whose bootstrap raises touches no Event and no handler.       *)
LEMMA StartFailsStep == ASSUME LifeInv, NEW p \in Pid, StartFails(p) PROVE LifeInv'
BY EnteredIs, EnteredStep DEF StartFails, LifeInv

(* start() of a pre-fork master arms the hooks and bootstraps nothing.     *)
LEMMA MasterStep == ASSUME LifeInv, NEW p \in Pid, StartPreforkMaster(p) PROVE LifeInv'
<1> DEFINE e == Entered(p, agent[p])
           h == ArmHooks(e)
<1>1. /\ Sound(e) /\ e.reporting = agent[p].reporting /\ e.bootPid = agent[p].bootPid
      /\ e.event = agent[p].event /\ e.set = agent[p].set
      /\ e.finiRegistered = agent[p].finiRegistered
  BY EnteredIs DEF LifeInv
<1>2. p \in alive /\ agent' = [agent EXCEPT ![p] = h] /\ UNCHANGED <<alive, exited, threads>>
  BY DEF StartPreforkMaster
<1> HIDE DEF e
<1>3. /\ h \in Record /\ h.reporting = e.reporting /\ h.bootPid = e.bootPid
      /\ h.event = e.event /\ h.set = e.set /\ h.atexit = e.atexit
      /\ h.finiRegistered = e.finiRegistered
  BY <1>1, LifecycleAssumption DEF Sound, Record, ArmHooks, LifecycleAssumption
<1> HIDE DEF h
<1>4. Sound(h)
  BY <1>1, <1>3 DEF Sound
<1> QED BY <1>1, <1>2, <1>3, <1>4, EnteredStep

(* stop() drops the handler only together with reporting.                  *)
LEMMA StopStep == ASSUME LifeInv, NEW p \in Pid, Stop(p) PROVE LifeInv'
<1> DEFINE f == Fini(agent[p])
           s == [f EXCEPT !.finiRegistered = FALSE, !.atexit = 0,
                          !.reporting = FALSE, !.started = FALSE]
<1>1. Sound(f) /\ f.bootPid = agent[p].bootPid
  BY FiniIs DEF LifeInv
<1>2. agent' = [agent EXCEPT ![p] = s] /\ UNCHANGED <<alive, exited, threads>>
  BY DEF Stop
<1> HIDE DEF f
<1>3. /\ s \in Record /\ s.bootPid = f.bootPid /\ s.event = f.event /\ s.set = f.set
      /\ s.reporting = FALSE /\ s.finiRegistered = FALSE /\ s.atexit = 0
  BY <1>1 DEF Sound, Record
<1> HIDE DEF s
<1>4. Sound(s)
  BY <1>1, <1>3 DEF Sound
<1>5. agent' \in [Pid -> Record]
  BY <1>2, <1>3 DEF LifeInv
<1>6. \A q \in Pid : agent'[q] = IF q = p THEN s ELSE agent[q]
  BY <1>2 DEF LifeInv
<1>7. \A q \in Pid : Sound(agent'[q]) /\ Registered(q, agent'[q])
  BY <1>3, <1>4, <1>6 DEF LifeInv, Registered
<1>8. \A q \in Pid : agent'[q].bootPid \in Born' \cup {NoPid}
  BY <1>1, <1>2, <1>3, <1>6 DEF LifeInv, Born
<1>9. ReportingHasReporter'
  BY <1>2, <1>3, <1>6 DEF LifeInv, ReportingHasReporter
<1> QED BY <1>2, <1>5, <1>7, <1>8, <1>9 DEF LifeInv, Sound, Registered

(* The child's agent after a fork is one of three: bootstrapped in the     *)
(* child with a thread of its own, or the parent's, whose last bootstrap   *)
(* was in a process older than the child.                                  *)
LEMMA ForkStep == ASSUME LifeInv, NEW p \in Pid, NEW c \in Pid, Fork(p, c) PROVE LifeInv'
<1> DEFINE Th == [event : Nat, turn : {"top", "busy", "zombie"}]
<1>1. /\ p \in alive /\ c \notin Born /\ alive' = alive \cup {c} /\ exited' = exited
      /\ c # NoPid
  BY Pids DEF Fork, Born
<1>2. agent[p].bootPid # c /\ agent[p].bootPid \in Born \cup {NoPid} /\ Sound(agent[p])
  BY <1>1 DEF LifeInv
<1>3. PICK a : /\ agent' = [agent EXCEPT ![c] = a] /\ Sound(a)
               /\ \/ /\ a.bootPid = c /\ a.finiRegistered /\ a.event \notin a.set
                     /\ \E t \in Th : /\ t.event = a.event
                                      /\ threads' = [threads EXCEPT ![c] = {t}]
                  \/ a.bootPid = agent[p].bootPid /\ UNCHANGED threads
  <2>1. CASE LET a == Started(c, agent[p])
             IN /\ agent' = [agent EXCEPT ![c] = a]
                /\ threads' = [threads EXCEPT ![c] = {StartedThread(a)}]
    <3> DEFINE a == Started(c, agent[p])
    <3>1. /\ Sound(a) /\ a.bootPid = c /\ a.finiRegistered /\ a.event \in Nat
          /\ a.event \notin a.set
      BY <1>2, StartedIs
    <3>2. agent' = [agent EXCEPT ![c] = a] /\ threads' = [threads EXCEPT ![c] = {StartedThread(a)}]
      BY <2>1
    <3> HIDE DEF a
    <3>3. StartedThread(a) \in Th /\ StartedThread(a).event = a.event
      BY <3>1 DEF StartedThread
    <3>4. \E t \in Th : t.event = a.event /\ threads' = [threads EXCEPT ![c] = {t}]
      BY <3>2, <3>3
    <3> QED BY <3>1, <3>2, <3>4, Zenon
  <2>2. CASE agent' = [agent EXCEPT ![c] = Entered(c, agent[p])] /\ UNCHANGED threads
    <3>1. Sound(Entered(c, agent[p])) /\ Entered(c, agent[p]).bootPid = agent[p].bootPid
      BY <1>2, EnteredIs
    <3> QED BY <2>2, <3>1, Zenon
  <2>3. CASE agent' = [agent EXCEPT ![c] = agent[p]] /\ UNCHANGED threads
    BY <2>3, <1>2
  <2> QED BY <2>1, <2>2, <2>3 DEF Fork
<1>4. agent' \in [Pid -> Record]
  BY <1>3 DEF LifeInv, Sound
<1>5. threads' \in [Pid -> SUBSET Th]
  BY <1>3 DEF LifeInv
<1>6. \A q \in Pid : agent'[q] = IF q = c THEN a ELSE agent[q]
  BY <1>3 DEF LifeInv
<1>7. \A q \in Pid : q # c => threads'[q] = threads[q]
  BY <1>3 DEF LifeInv
<1>8. \A q \in Pid : Sound(agent'[q]) /\ Registered(q, agent'[q])
  BY <1>2, <1>3, <1>6 DEF LifeInv, Registered
<1>9. \A q \in Pid : agent'[q].bootPid \in Born' \cup {NoPid}
  BY <1>1, <1>2, <1>3, <1>6 DEF LifeInv, Born
<1>10. ReportingHasReporter'
  <2> SUFFICES ASSUME NEW q \in alive', agent'[q].reporting, agent'[q].bootPid = q
               PROVE  \E t \in threads'[q] : /\ t.event = agent'[q].event
                                             /\ agent'[q].event \notin agent'[q].set
    BY DEF ReportingHasReporter
  <2>1. CASE q = c
    <3>1. agent'[c] = a /\ a.bootPid = c
      BY <1>6, <2>1
    <3>2. a.event \notin a.set /\ \E t \in Th : t.event = a.event /\ threads'[c] = {t}
      BY <1>2, <1>3, <3>1 DEF LifeInv
    <3> QED BY <2>1, <3>1, <3>2
  <2>2. CASE q # c
    BY <1>1, <1>6, <1>7, <2>2 DEF LifeInv, ReportingHasReporter
  <2> QED BY <2>1, <2>2
<1>11. alive' \subseteq Pid /\ exited' \subseteq Pid
  BY <1>1 DEF LifeInv
<1> QED BY <1>4, <1>5, <1>8, <1>9, <1>10, <1>11 DEF LifeInv, Sound, Registered

(* An exit ends the process's threads and changes no other process.        *)
LEMMA ExitStep == ASSUME LifeInv, NEW p \in Pid, Exit(p) PROVE LifeInv'
<1> DEFINE a == IF agent[p].atexit > 0 THEN Fini(agent[p]) ELSE agent[p]
<1>1. /\ Sound(a) /\ a.bootPid = agent[p].bootPid /\ a.reporting = agent[p].reporting
      /\ a.finiRegistered = agent[p].finiRegistered
  BY FiniIs DEF LifeInv
<1>2. /\ alive' = alive \ {p} /\ exited' = exited \cup {p}
      /\ agent' = [agent EXCEPT ![p] = a] /\ threads' = [threads EXCEPT ![p] = {}]
  BY DEF Exit
<1> HIDE DEF a
<1>3. agent' \in [Pid -> Record]
  BY <1>1, <1>2 DEF LifeInv, Sound
<1>4. threads' \in [Pid -> SUBSET [event : Nat, turn : {"top", "busy", "zombie"}]]
  BY <1>2 DEF LifeInv
<1>5. \A q \in Pid : /\ agent'[q] = IF q = p THEN a ELSE agent[q]
                     /\ q # p => threads'[q] = threads[q]
  BY <1>2 DEF LifeInv
<1>6. \A q \in Pid : Sound(agent'[q]) /\ Registered(q, agent'[q])
  BY <1>1, <1>5 DEF LifeInv, Registered
<1>7. \A q \in Pid : agent'[q].bootPid \in Born' \cup {NoPid}
  BY <1>1, <1>2, <1>5 DEF LifeInv, Born
<1>8. ReportingHasReporter'
  BY <1>2, <1>5 DEF LifeInv, ReportingHasReporter
<1>9. alive' \subseteq Pid /\ exited' \subseteq Pid
  BY <1>2 DEF LifeInv
<1> QED BY <1>3, <1>4, <1>6, <1>7, <1>8, <1>9 DEF LifeInv, Sound, Registered

(* A thread's step keeps it, unless the current Event is set.              *)
LEMMA ThreadStep ==
  ASSUME LifeInv, NEW p \in Pid, NEW t \in threads[p], Turn(p, t) \/ TurnEnds(p, t)
  PROVE  LifeInv'
<1> DEFINE Th == [event : Nat, turn : {"top", "busy", "zombie"}]
<1>1. UNCHANGED <<alive, exited, agent>>
  BY DEF Turn, TurnEnds
<1>2. PICK N \in SUBSET Th :
         /\ threads' = [threads EXCEPT ![p] = (@ \ {t}) \cup N]
         /\ agent[p].event \notin agent[p].set => \E n \in N : n.event = t.event
  <2>0. t \in Th
    BY DEF LifeInv
  <2>1. CASE TurnEnds(p, t)
    <3>1. [t EXCEPT !.turn = "top"] \in Th /\ [t EXCEPT !.turn = "top"].event = t.event
      BY <2>0
    <3> QED BY <2>1, <3>1 DEF TurnEnds
  <2>2. CASE Turn(p, t)
    <3> DEFINE w == IF t.event \in agent[p].set THEN "zombie" ELSE "busy"
               u == [t EXCEPT !.turn = w]
    <3>1. u \in Th /\ u.event = t.event
      BY <2>0
    <3>2. threads' = [threads EXCEPT ![p] = (@ \ {t}) \cup IF ~TurnGoesOn(p, t) THEN {} ELSE {u}]
      BY <2>2 DEF Turn
    <3> HIDE DEF u
    <3> QED BY <3>1, <3>2 DEF TurnGoesOn
  <2> QED BY <2>1, <2>2
<1>3. threads' \in [Pid -> SUBSET Th]
  BY <1>2 DEF LifeInv
<1>4. \A q \in Pid : threads'[q] = IF q = p THEN (threads[q] \ {t}) \cup N ELSE threads[q]
  BY <1>2 DEF LifeInv
<1>5. ReportingHasReporter'
  BY <1>1, <1>2, <1>4 DEF LifeInv, ReportingHasReporter
<1> QED BY <1>1, <1>3, <1>5 DEF LifeInv, Sound, Registered, Born

-----------------------------------------------------------------------------
(* The inductive invariant holds for any set of processes and any number   *)
(* of starts, stops, forks and exits.                                      *)
THEOREM LifecycleInvariant == Spec => []LifeInv
<1>1. Init => LifeInv
  <2> SUFFICES ASSUME Init PROVE LifeInv
    OBVIOUS
  <2>1. NewAgent \in Record /\ NewAgent.reporting = FALSE /\ NewAgent.bootPid = NoPid
        /\ NewAgent.finiRegistered = FALSE /\ NewAgent.atexit = 0 /\ NewAgent.set = {}
    BY DEF NewAgent, Record
  <2>2. Sound(NewAgent)
    BY <2>1 DEF Sound
  <2> QED BY <2>1, <2>2 DEF Init, LifeInv, Registered, ReportingHasReporter, Born
<1>2. LifeInv /\ [Next]_vars => LifeInv'
  <2> SUFFICES ASSUME LifeInv, [Next]_vars PROVE LifeInv'
    OBVIOUS
  <2>1. CASE UNCHANGED vars
    BY <2>1 DEF vars, LifeInv, Sound, Registered, Born, ReportingHasReporter
  <2>2. ASSUME NEW p \in Pid, Process(p) PROVE LifeInv'
    BY <2>2, StartStep, StartFailsStep, MasterStep, StopStep, ExitStep DEF Process
  <2>3. ASSUME NEW p \in Pid, NEW c \in Pid, Fork(p, c) PROVE LifeInv'
    BY <2>3, ForkStep
  <2>4. ASSUME NEW p \in Pid, NEW t \in threads[p], Turn(p, t) \/ TurnEnds(p, t)
        PROVE LifeInv'
    BY <2>4, ThreadStep
  <2> QED BY <2>1, <2>2, <2>3, <2>4 DEF Next
<1> QED BY <1>1, <1>2, PTL DEF Spec

(* __fini is registered at most once in every running process, and exactly *)
(* once in one that reports from its own bootstrap: the guard              *)
(* _fini_registered survives forks with the inherited registration.        *)
THEOREM FiniOnce == Spec => []FiniOncePerProcess
<1>1. LifeInv => FiniOncePerProcess
  <2> SUFFICES ASSUME LifeInv, NEW p \in alive
               PROVE  /\ agent[p].atexit <= 1
                      /\ agent[p].reporting /\ agent[p].bootPid = p => agent[p].atexit = 1
    BY DEF FiniOncePerProcess
  <2>1. p \in Pid /\ Sound(agent[p]) /\ Registered(p, agent[p])
    BY DEF LifeInv
  <2> QED BY <2>1 DEF Sound, Registered
<1> QED BY <1>1, LifecycleInvariant, PTL

(* A process that reports from its own bootstrap has a reporter thread on  *)
(* its current Event, which is not set.                                    *)
THEOREM ReportersStay == Spec => []ReportingHasReporter
<1>1. LifeInv => ReportingHasReporter
  BY DEF LifeInv
<1> QED BY <1>1, LifecycleInvariant, PTL
=============================================================================
