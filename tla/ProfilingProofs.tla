--------------------------- MODULE ProfilingProofs ---------------------------
(***************************************************************************)
(* Proofs about Profiling for any commands, tasks, traces and slots: a     *)
(* task is finished once, two tasks never profile at the same time, a      *)
(* command is not executed twice, no slot is leaked or given out twice,    *)
(* and no task samples more traces than it asks for.                       *)
(***************************************************************************)
EXTENDS Profiling, FiniteSetTheorems, SequenceTheorems, TLAPS

WorkerPc == {"none", "loop", "release", "ending", "failed", "done"}
Workers == [TaskNo -> [pc : WorkerPc, at : Nat]]

(* The types these results need.                                           *)
TaskTypes ==
  /\ commands \in Seq(Serial) /\ dispatching \in Serial \cup {NoSerial}
  /\ tasks \in Seq(Serial) /\ Len(tasks) <= MaxTasks
  /\ taskList \in SUBSET TaskNo /\ toStart \in SUBSET TaskNo /\ stopEvent \in SUBSET TaskNo
  /\ current \in TaskNo \cup {NoTask} /\ rlock \in TaskNo \cup {NoTask}
  /\ finished \in [TaskNo -> Nat]
  /\ worker \in Workers

(* A task goes through its stages once: added, waiting for its start       *)
(* timer, being installed under _rlock, current, finished. Only tasks that *)
(* were added are at any later stage.                                      *)
StagesOnce ==
  \A n \in TaskNo :
    /\ n \in toStart => finished[n] = 0 /\ current # n /\ rlock # n
    /\ rlock = n => finished[n] = 0
    /\ (n \in toStart \/ rlock = n \/ current = n \/ finished[n] > 0) => n <= Len(tasks)

(* While process_profile_task holds _rlock, the previous task is stopped.  *)
InstallsAlone == rlock # NoTask => current = NoTask

TaskInv == /\ TaskTypes /\ StagesOnce /\ InstallsAlone
           /\ FinishedOnce /\ OneTaskAtATime

-----------------------------------------------------------------------------
(* TaskInv speaks about these variables only.                              *)
invVars == <<commands, dispatching, tasks, taskList, toStart, stopEvent, current, rlock,
             finished, worker>>

(* What the assumptions on the constants say.                              *)
LEMMA Constants == MaxTasks \in Nat /\ NoTask \notin TaskNo /\ TaskNo \subseteq Nat /\ MaxParallel \in Nat
BY ProfilingAssumption DEF ProfilingAssumption, NoTask, TaskNo

(* A step that leaves the variables of TaskInv alone preserves it.         *)
LEMMA StutterKeeps == ASSUME TaskInv, UNCHANGED invVars PROVE TaskInv'
BY DEF invVars, TaskInv, TaskTypes, StagesOnce, InstallsAlone, FinishedOnce, OneTaskAtATime

(* The command steps touch the commands only.                              *)
LEMMA CommandsKeep ==
  ASSUME TaskInv, Frame, (\E s \in Serial : Receive(s)) \/ DispatchGet
  PROVE  TaskInv'
<1>1. commands' \in Seq(Serial) /\ dispatching' \in Serial \cup {NoSerial}
  <2>1. ASSUME NEW s \in Serial, Receive(s) PROVE commands' \in Seq(Serial) /\ dispatching' = dispatching
    BY <2>1 DEF Receive, TaskInv, TaskTypes
  <2>2. ASSUME DispatchGet PROVE commands' \in Seq(Serial) /\ dispatching' \in Serial \cup {NoSerial}
    <3>1. Head(commands) \in Serial /\ Tail(commands) \in Seq(Serial)
      BY <2>2 DEF DispatchGet, TaskInv, TaskTypes
    <3> QED BY <3>1, <2>2 DEF DispatchGet
  <2> QED BY <2>1, <2>2 DEF TaskInv, TaskTypes
<1> QED
  BY <1>1 DEF Frame, taskVars, slotVars, TaskInv, TaskTypes, StagesOnce, InstallsAlone,
              FinishedOnce, OneTaskAtATime

(* add_profile_task numbers a task that no stage has seen before.          *)
LEMMA AddKeeps == ASSUME TaskInv, AddProfileTask PROVE TaskInv'
<1> DEFINE n == Len(tasks) + 1
<1>1. UNCHANGED <<stopEvent, current, rlock, finished, worker>>
  BY DEF AddProfileTask, slotVars
<1>2. commands' = commands /\ dispatching' = NoSerial /\ dispatching \in Serial
  BY DEF AddProfileTask, DispatchExecuted, TaskInv, TaskTypes
<1>3. CASE Acceptable(dispatching)
  <2>1. /\ tasks' = Append(tasks, dispatching) /\ Len(tasks) < MaxTasks
        /\ taskList' = taskList \cup {n} /\ toStart' = toStart \cup {n}
    BY <1>3 DEF AddProfileTask
  <2>2. n \in TaskNo /\ n \in Nat /\ Len(tasks) \in Nat
    BY <2>1, Constants DEF TaskInv, TaskTypes, TaskNo
  <2>3. tasks' \in Seq(Serial) /\ Len(tasks') = n
    BY <2>1, <1>2 DEF TaskInv, TaskTypes
  <2>4. TaskTypes'
    <3>1. taskList' \in SUBSET TaskNo /\ toStart' \in SUBSET TaskNo
      BY <2>1, <2>2 DEF TaskInv, TaskTypes
    <3>2. Len(tasks') <= MaxTasks
      BY <2>1, <2>2, <2>3, Constants
    <3> QED BY <1>1, <1>2, <2>3, <3>1, <3>2 DEF TaskInv, TaskTypes
  <2>5. n \notin toStart /\ rlock # n /\ current # n /\ ~(finished[n] > 0)
    BY <2>2 DEF TaskInv, StagesOnce
  <2>6. finished[n] = 0
    BY <2>5, <2>2 DEF TaskInv, TaskTypes
  <2>7. StagesOnce'
    BY <1>1, <2>1, <2>2, <2>3, <2>5, <2>6, Constants DEF TaskInv, TaskTypes, StagesOnce
  <2>8. FinishedOnce'
    BY <1>1, <2>1, <2>5 DEF TaskInv, FinishedOnce
  <2> QED
    BY <1>1, <2>4, <2>7, <2>8 DEF TaskInv, InstallsAlone, OneTaskAtATime
<1>4. CASE ~Acceptable(dispatching)
  <2>1. UNCHANGED <<tasks, taskList, toStart>>
    BY <1>4 DEF AddProfileTask
  <2> QED
    BY <1>1, <1>2, <2>1 DEF TaskInv, TaskTypes, StagesOnce, InstallsAlone, FinishedOnce, OneTaskAtATime
<1> QED BY <1>3, <1>4

-----------------------------------------------------------------------------
(* stop_current_profile_task, whoever calls it while nobody is being       *)
(* installed: the task that is current becomes finished.                   *)
LEMMA StopKeeps ==
  ASSUME TaskInv, NEW n \in TaskNo \cup {NoTask}, StopTask(n), rlock = NoTask,
         UNCHANGED <<commands, dispatching, tasks>>,
         rlock' = NoTask \/ (rlock' \in toStart /\ (n = current \/ current = NoTask)
                             /\ toStart' = toStart \ {rlock'}),
         toStart' = toStart \/ toStart' = toStart \ {rlock'},
         worker' = worker
           \/ \E m \in TaskNo : worker' = [worker EXCEPT ![m].pc = "done"]
  PROVE  TaskInv'
<1>1. worker' \in Workers
  BY DEF TaskInv, TaskTypes, Workers, WorkerPc
<1>2. \A m \in TaskNo : worker'[m].pc \in {"loop", "release"} => worker[m].pc = worker'[m].pc
  BY DEF TaskInv, TaskTypes, Workers
<1>3. toStart' \subseteq toStart /\ rlock' \notin toStart' /\ rlock' \in TaskNo \cup {NoTask}
  BY Constants DEF TaskInv, TaskTypes
<1>4. CASE ~IsCurrent(n)
  <2>1. UNCHANGED <<current, stopEvent, taskList, finished>>
    BY <1>4 DEF StopTask
  <2>2. rlock' # NoTask => current = NoTask
    BY <1>4 DEF IsCurrent
  <2> QED
    BY <1>1, <1>2, <1>3, <2>1, <2>2, Constants
    DEF TaskInv, TaskTypes, StagesOnce, InstallsAlone, FinishedOnce, OneTaskAtATime
<1>5. CASE IsCurrent(n)
  <2>1. /\ n \in TaskNo /\ current = n /\ current' = NoTask
        /\ stopEvent' = stopEvent \cup {n} /\ taskList' = taskList \ {n}
        /\ finished' = [finished EXCEPT ![n] = @ + 1]
    BY <1>5 DEF StopTask, IsCurrent
  <2>2. finished[n] = 0 /\ n \notin toStart /\ n # rlock' /\ n <= Len(tasks)
    BY <2>1, <1>3, Constants DEF TaskInv, TaskTypes, StagesOnce, FinishedOnce
  <2>3. \A m \in TaskNo : finished'[m] = IF m = n THEN 1 ELSE finished[m]
    BY <2>1, <2>2 DEF TaskInv, TaskTypes
  <2>4. TaskTypes'
    BY <1>1, <1>3, <2>1, Constants DEF TaskInv, TaskTypes
  <2>5. StagesOnce'
    BY <1>3, <2>1, <2>2, <2>3, Constants DEF TaskInv, StagesOnce
  <2>6. FinishedOnce'
    BY <2>1, <2>3, Constants DEF TaskInv, FinishedOnce
  <2>7. InstallsAlone' /\ OneTaskAtATime'
    BY <1>2, <2>1 DEF TaskInv, InstallsAlone, OneTaskAtATime
  <2> QED BY <2>4, <2>5, <2>6, <2>7 DEF TaskInv
<1> QED BY <1>4, <1>5

(* The timers.                                                             *)
LEMMA TimersKeep == ASSUME TaskInv, NEW n \in TaskNo, Timers(n) PROVE TaskInv'
<1>1. CASE ProcessTask(n)
  <2>1. /\ n \in toStart /\ rlock = NoTask /\ toStart' = toStart \ {n} /\ rlock' = n
        /\ StopTask(current) /\ UNCHANGED <<commands, dispatching, tasks, worker>>
    BY <1>1 DEF ProcessTask, StopsPrevious, commandVars, slotVars
  <2>2. current \in TaskNo \cup {NoTask}
    BY DEF TaskInv, TaskTypes
  <2> QED BY <2>1, <2>2, StopKeeps
<1>2. CASE StopTimerFires(n)
  <2>1. /\ rlock = NoTask /\ rlock' = NoTask /\ toStart' = toStart
        /\ StopTask(n) /\ UNCHANGED <<commands, dispatching, tasks, worker>>
    BY <1>2 DEF StopTimerFires, commandVars, slotVars
  <2> QED BY <2>1, StopKeeps
<1>3. CASE StartTask(n)
  <2>1. /\ rlock = n /\ current' = n /\ rlock' = NoTask
        /\ worker' = [worker EXCEPT ![n] = Worker("loop", MaxParallel + 1)]
        /\ UNCHANGED <<commands, dispatching, tasks, taskList, toStart, finished, stopEvent>>
    BY <1>3 DEF StartTask, commandVars
  <2>2. current = NoTask /\ finished[n] = 0 /\ n <= Len(tasks) /\ n \notin toStart
    BY <2>1, Constants DEF TaskInv, InstallsAlone, StagesOnce
  <2>3. worker' \in Workers /\ \A m \in TaskNo \ {n} : worker'[m] = worker[m]
    BY <2>1, Constants DEF TaskInv, TaskTypes, Worker, Workers, WorkerPc
  <2>4. TaskTypes'
    BY <2>1, <2>3 DEF TaskInv, TaskTypes
  <2>5. StagesOnce' /\ InstallsAlone'
    BY <2>1, <2>2, Constants DEF TaskInv, StagesOnce, InstallsAlone
  <2>6. FinishedOnce'
    BY <2>1, <2>2 DEF TaskInv, FinishedOnce
  <2>7. OneTaskAtATime'
    BY <2>1, <2>2, <2>3, Constants DEF TaskInv, OneTaskAtATime
  <2> QED BY <2>4, <2>5, <2>6, <2>7 DEF TaskInv
<1> QED BY <1>1, <1>2, <1>3 DEF Timers

-----------------------------------------------------------------------------
(* A profiling thread moves on: it starts no profiling by itself.          *)
LEMMA WorkerMoves ==
  ASSUME TaskInv, NEW n \in TaskNo, WorkerFrame,
         worker[n].pc \in {"loop", "release"},
         worker' \in Workers,
         \A m \in TaskNo \ {n} : worker'[m] = worker[m]
  PROVE  TaskInv'
<1>1. UNCHANGED <<commands, dispatching, tasks, taskList, toStart, stopEvent, current, rlock, finished>>
  BY DEF WorkerFrame, commandVars, taskVars
<1>2. OneTaskAtATime'
  BY <1>1 DEF TaskInv, OneTaskAtATime
<1> QED
  BY <1>1, <1>2 DEF TaskInv, TaskTypes, StagesOnce, InstallsAlone, FinishedOnce

(* No step of a profiling thread disturbs the stages of the tasks.         *)
LEMMA ProfileKeeps == ASSUME TaskInv, NEW n \in TaskNo, Profile(n) PROVE TaskInv'
<1> USE DEF TaskInv, TaskTypes
<1>1. CASE WorkerEnds(n)
  <2>1. /\ rlock = NoTask /\ rlock' = NoTask /\ toStart' = toStart /\ StopTask(n)
        /\ worker' = [worker EXCEPT ![n].pc = "done"] /\ UNCHANGED <<commands, dispatching, tasks>>
    BY <1>1 DEF WorkerEnds, commandVars
  <2> HIDE DEF TaskInv
  <2> QED BY <2>1, StopKeeps
<1>2. CASE Skip(n) \/ Promote(n) \/ Snapshot(n) \/ StopTracing(n)
  <2>1. WorkerFrame /\ worker[n].pc = "loop"
    BY <1>2 DEF Skip, Promote, Snapshot, StopTracing, Dumps, Visits
  <2>2. \/ worker' = Advanced(n) \/ worker' = [worker EXCEPT ![n].pc = "failed"]
        \/ worker' = [worker EXCEPT ![n].pc = "release"]
    BY <1>2 DEF Skip, Promote, Snapshot, StopTracing
  <2>3. /\ worker' \in Workers
        /\ \A m \in TaskNo \ {n} : worker'[m] = worker[m]
    <3>1. CASE worker' = Advanced(n)
      <4>1. worker[n] \in [pc : WorkerPc, at : Nat] /\ worker[n].at + 1 \in Nat
        BY DEF Workers
      <4> QED BY <3>1, <4>1 DEF Advanced, Workers
    <3>2. CASE worker' = [worker EXCEPT ![n].pc = "failed"] \/ worker' = [worker EXCEPT ![n].pc = "release"]
      BY <3>2 DEF Workers, WorkerPc
    <3> QED BY <2>2, <3>1, <3>2
  <2> HIDE DEF TaskInv
  <2> QED BY <2>1, <2>3, WorkerMoves
<1>3. CASE Release(n) \/ NextPass(n)
  <2>1. WorkerFrame /\ worker[n].pc \in {"loop", "release"}
    BY <1>3 DEF Release, NextPass
  <2>2. \E p \in WorkerPc, i \in Nat : worker' = [worker EXCEPT ![n] = Worker(p, i)]
    BY <1>3 DEF Release, NextPass, Workers, WorkerPc
  <2>3. /\ worker' \in Workers
        /\ \A m \in TaskNo \ {n} : worker'[m] = worker[m]
    BY <2>2 DEF Worker, Workers
  <2> HIDE DEF TaskInv
  <2> QED BY <2>1, <2>3, WorkerMoves
<1> QED BY <1>1, <1>2, <1>3 DEF Profile

(* The host threads leave the tasks alone.                                 *)
LEMMA HostKeeps == ASSUME TaskInv, NEW r \in Trace, Host(r) PROVE TaskInv'
<1>1. HostFrame
  BY DEF Host, Attempt, NotProfiled, Claim, Occupy, Bind, Update, HostEnds
<1>2. UNCHANGED invVars
  BY <1>1 DEF HostFrame, invVars, commandVars, taskVars
<1> QED BY <1>2, StutterKeeps

-----------------------------------------------------------------------------
(* The service starts without tasks.                                       *)
LEMMA TaskInvInitially == Init => TaskInv
<1> SUFFICES ASSUME Init PROVE TaskInv OBVIOUS
<1>1. TaskTypes
  <2>1. <<>> \in Seq(Serial) /\ Len(<<>>) = 0
    OBVIOUS
  <2> QED BY <2>1, Constants DEF Init, CommandInit, TaskTypes, Worker, Workers, WorkerPc
<1>2. StagesOnce
  BY Constants DEF Init, StagesOnce
<1>3. InstallsAlone /\ FinishedOnce
  BY DEF Init, InstallsAlone, FinishedOnce
<1>4. OneTaskAtATime
  BY DEF Init, OneTaskAtATime, Worker
<1> QED BY <1>1, <1>2, <1>3, <1>4 DEF TaskInv

(* Every step of every thread and timer preserves TaskInv.                 *)
LEMMA TaskInvPreserved == TaskInv /\ [Next]_vars => TaskInv'
<1> SUFFICES ASSUME TaskInv, [Next]_vars PROVE TaskInv' OBVIOUS
<1>1. CASE UNCHANGED vars
  BY <1>1, StutterKeeps DEF vars, commandVars, taskVars, slotVars, invVars
<1>2. CASE Next
  BY <1>2, CommandsKeep, AddKeeps, TimersKeep, ProfileKeeps, HostKeeps DEF Next
<1> QED BY <1>1, <1>2

(* The inductive invariant of ProfileTaskExecutionService: every task goes *)
(* through its stages once, and a task is installed only after the previous *)
(* one stopped.                                                            *)
THEOREM TaskInvariant == Spec => []TaskInv
<1> QED BY TaskInvInitially, TaskInvPreserved, PTL DEF Spec

(* Whichever of the stop timer, the next task's start and the profiling    *)
(* thread's finally clause comes first, stop_current_profile_task reports  *)
(* a task finished once, and from then on it is neither current nor listed.*)
THEOREM TaskFinishedOnce == Spec => []FinishedOnce
<1>1. TaskInv => FinishedOnce BY DEF TaskInv
<1> QED BY <1>1, TaskInvariant, PTL

(* process_profile_task never lets two profiling threads that were not     *)
(* told to stop run at the same time.                                      *)
THEOREM ProfilesOneTask == Spec => []OneTaskAtATime
<1>1. TaskInv => OneTaskAtATime BY DEF TaskInv
<1> QED BY <1>1, TaskInvariant, PTL

-----------------------------------------------------------------------------
(***************************************************************************)
(* CommandService. The cache is the end of the history of the executed     *)
(* commands, without repetitions, and the command that the dispatch thread *)
(* holds is not in it.                                                     *)
(***************************************************************************)
CacheIsWindow ==
  /\ cache \in Seq(Serial) /\ executed \in Seq(Serial)
  /\ Len(cache) <= CacheLen /\ Len(cache) <= Len(executed)
  /\ Len(cache) < CacheLen => Len(cache) = Len(executed)
  /\ \A k \in 1..Len(cache) : cache[k] = executed[Len(executed) - Len(cache) + k]

CacheDistinct == \A k, l \in 1..Len(cache) : cache[k] = cache[l] => k = l

HeldIsNew == dispatching # NoSerial => \A k \in 1..Len(cache) : cache[k] # dispatching

CacheInv == CacheIsWindow /\ CacheDistinct /\ HeldIsNew /\ ExecutedOnce

LEMMA InCache ==
  ASSUME CacheInv, NEW s PROVE IsExecuted(s) <=> \E k \in 1..Len(cache) : cache[k] = s
BY DEF CacheInv, CacheIsWindow, IsExecuted, Range

(* Different members of a sequence are as many as it is long.              *)
LEMMA DistinctMembers ==
  ASSUME NEW S, NEW s \in Seq(S), \A k, l \in 1..Len(s) : s[k] = s[l] => k = l
  PROVE  LET T == {s[k] : k \in 1..Len(s)} IN IsFiniteSet(T) /\ Cardinality(T) = Len(s)
<1> DEFINE n == Len(s)
           T == {s[k] : k \in 1..n}
           f == [k \in 1..n |-> s[k]]
<1>1. n \in Nat /\ \A k, l \in 1..n : s[k] = s[l] => k = l
  OBVIOUS
<1> HIDE DEF n
<1>2. f \in Surjection(1..n, T)
  BY DEF Surjection
<1>3. f \in Injection(1..n, T)
  <2>1. f \in [1..n -> T] /\ \A k \in 1..n : f[k] = s[k]
    OBVIOUS
  <2> HIDE DEF f, T
  <2> QED BY <1>1, <2>1 DEF Injection, IsInjective
<1>4. IsFiniteSet(1..n) /\ Cardinality(1..n) = n
  BY <1>1, FS_Interval
<1> HIDE DEF f, T
<1>5. IsFiniteSet(T) /\ Cardinality(T) = Cardinality(1..n)
  BY <1>2, <1>3, <1>4, FS_Surjection
<1> QED BY <1>4, <1>5 DEF T, n

LEMMA WindowFinite ==
  ASSUME NEW f, NEW i \in Int, NEW j \in Int PROVE IsFiniteSet({f[k] : k \in i..j})
<1> DEFINE g == [k \in i..j |-> f[k]]
           T == {f[k] : k \in i..j}
<1>1. g \in Surjection(i..j, T)
  BY DEF Surjection
<1>2. IsFiniteSet(i..j)
  BY FS_Interval
<1> HIDE DEF g, T
<1>3. IsFiniteSet(T)
  BY <1>1, <1>2, FS_Surjection
<1> QED BY <1>3 DEF T

(* A command outside the cache was executed before the commands in it.     *)
LEMMA ExecutedLongAgo ==
  ASSUME CacheInv, NEW s, \A k \in 1..Len(cache) : cache[k] # s,
         NEW i \in 1..Len(executed), executed[i] = s
  PROVE  Cardinality({executed[k] : k \in i + 1 .. Len(executed)}) >= CacheLen
<1> DEFINE L == Len(executed)
           C == Len(cache)
           W == {executed[k] : k \in i + 1 .. L}
           T == {cache[k] : k \in 1..C}
<1>1. L \in Nat /\ C \in Nat /\ C <= L /\ CacheLen \in Nat /\ (C < CacheLen => C = L) /\ C <= CacheLen
  BY CommandAssumption DEF CacheInv, CacheIsWindow
<1>2. \A k \in 1..C : cache[k] = executed[L - C + k]
  BY DEF CacheInv, CacheIsWindow
<1> HIDE DEF L, C
<1>3. i \in 1..L
  BY DEF L
<1>4. i <= L - C
  <2>1. SUFFICES ASSUME i > L - C PROVE FALSE
    BY <1>1, <1>3
  <2> DEFINE k == i - (L - C)
  <2>2. k \in 1..C /\ L - C + k = i
    BY <1>1, <1>3, <2>1
  <2> HIDE DEF k
  <2>3. cache[k] = s
    BY <1>2, <2>2
  <2> QED BY <2>2, <2>3 DEF C
<1>5. C = CacheLen
  BY <1>1, <1>3, <1>4
<1>6. T \subseteq W
  <2>1. SUFFICES ASSUME NEW k \in 1..C PROVE cache[k] \in W
    OBVIOUS
  <2>2. L - C + k \in i + 1 .. L
    BY <1>1, <1>3, <1>4
  <2> QED BY <1>2, <2>2
<1>7. IsFiniteSet(W)
  <2> DEFINE from == i + 1
  <2>1. from \in Int /\ L \in Int
    BY <1>1, <1>3
  <2> HIDE DEF from
  <2>2. IsFiniteSet({executed[k] : k \in from .. L})
    BY <2>1, WindowFinite
  <2> QED BY <2>2 DEF from
<1>8. IsFiniteSet(T) /\ Cardinality(T) = C
  BY DistinctMembers DEF CacheInv, CacheIsWindow, CacheDistinct, C
<1> HIDE DEF T, W
<1>9. Cardinality(T) <= Cardinality(W)
  BY <1>6, <1>7, FS_Subset
<1>10. Cardinality(W) \in Nat
  BY <1>7, FS_CardinalityType
<1>11. Cardinality(W) >= CacheLen
  BY <1>1, <1>5, <1>8, <1>9, <1>10
<1> QED
  BY <1>11 DEF W, L

LEMMA CacheInit == Init => CacheInv
<1>1. <<>> \in Seq(Serial) /\ Len(<<>>) = 0
  OBVIOUS
<1>2. DOMAIN <<>> = {}
  BY <1>1, SMT
<1> QED
  BY <1>1, <1>2, CommandAssumption
  DEF Init, CommandInit, CacheInv, CacheIsWindow, CacheDistinct, HeldIsNew, ExecutedOnce

LEMMA ExecutedCache == ASSUME TaskInv, CacheInv, DispatchExecuted PROVE CacheInv'
<1> DEFINE s == dispatching
           L == Len(executed)
           kept == IF Len(cache) = CacheLen THEN Tail(cache) ELSE cache
           C == Len(kept)
<1>1. s \in Serial /\ executed' = Append(executed, s) /\ cache' = Append(kept, s) /\ dispatching' = NoSerial
  BY DEF DispatchExecuted, Remembered, TaskInv, TaskTypes
<1>2. /\ executed \in Seq(Serial) /\ cache \in Seq(Serial) /\ L \in Nat /\ Len(cache) \in Nat
      /\ CacheLen \in Nat /\ CacheLen > 0 /\ Len(cache) <= CacheLen /\ Len(cache) <= L
      /\ Len(cache) < CacheLen => Len(cache) = L
  BY CommandAssumption DEF CacheInv, CacheIsWindow
<1>3. /\ executed' \in Seq(Serial) /\ Len(executed') = L + 1
      /\ \A i \in 1..L : executed'[i] = executed[i]
      /\ executed'[L + 1] = s
  BY <1>1, <1>2, AppendProperties
<1>4. /\ kept \in Seq(Serial) /\ C \in Nat /\ C < CacheLen /\ C <= L
      /\ C + 1 < CacheLen => C = L
      /\ \A k \in 1..C : kept[k] = executed[L - C + k]
      /\ \A k, l \in 1..C : kept[k] = kept[l] => k = l
      /\ \A k \in 1..C : kept[k] # s
  <2>1. CASE Len(cache) = CacheLen
    <3>1. /\ Tail(cache) \in Seq(Serial) /\ Len(Tail(cache)) = Len(cache) - 1
          /\ \A k \in 1..Len(Tail(cache)) : Tail(cache)[k] = cache[k + 1]
      BY <1>2, <2>1
    <3>2. kept = Tail(cache)
      BY <2>1
    <3>3. ASSUME NEW k \in 1..C PROVE /\ k + 1 \in 1..Len(cache) /\ kept[k] = cache[k + 1]
                                     /\ L - C + k = L - Len(cache) + (k + 1)
      <4>1. PICK tail, c, n, m : tail = Tail(cache) /\ c = C /\ n = Len(cache) /\ m = L
        OBVIOUS
      <4>2. c = Len(tail) /\ kept = tail /\ k \in 1..c
        BY <3>2, <3>3, <4>1
      <4> HIDE DEF kept, C, L
      <4>3. c = n - 1 /\ n \in Nat /\ m \in Nat
        BY <1>2, <3>1, <4>1, <4>2
      <4>4. kept[k] = cache[k + 1]
        BY <3>1, <4>1, <4>2
      <4>5. k + 1 \in 1..n /\ m - c + k = m - n + (k + 1)
        BY <4>2, <4>3
      <4> QED BY <4>1, <4>4, <4>5
    <3>4. \A k \in 1..C : kept[k] = executed[L - C + k]
      BY <3>3 DEF CacheInv, CacheIsWindow
    <3>5. \A k, l \in 1..C : kept[k] = kept[l] => k = l
      BY <3>3 DEF CacheInv, CacheDistinct
    <3>6. \A k \in 1..C : kept[k] # s
      BY <3>3 DEF CacheInv, HeldIsNew, DispatchExecuted
    <3> QED BY <1>2, <2>1, <3>1, <3>2, <3>4, <3>5, <3>6
  <2>2. CASE Len(cache) # CacheLen
    <3>1. kept = cache /\ C = Len(cache)
      BY <2>2
    <3>2. /\ \A k \in 1..Len(cache) : cache[k] = executed[L - Len(cache) + k]
          /\ \A k, l \in 1..Len(cache) : cache[k] = cache[l] => k = l
          /\ \A k \in 1..Len(cache) : cache[k] # s
      BY DEF CacheInv, CacheIsWindow, CacheDistinct, HeldIsNew, DispatchExecuted
    <3> HIDE DEF kept, C, L, s
    <3>3. C \in Nat /\ C < CacheLen /\ C <= L /\ (C + 1 < CacheLen => C = L)
      BY <1>2, <2>2, <3>1
    <3> QED BY <1>2, <3>1, <3>2, <3>3
  <2> QED BY <2>1, <2>2
<1> HIDE DEF kept
<1>5. /\ cache' \in Seq(Serial) /\ Len(cache') = C + 1
      /\ \A k \in 1..C : cache'[k] = kept[k]
      /\ cache'[C + 1] = s
  BY <1>1, <1>4, AppendProperties
<1> HIDE DEF s, L, C
<1>6. CacheIsWindow'
  <2>1. ASSUME NEW k \in 1..Len(cache') PROVE cache'[k] = executed'[Len(executed') - Len(cache') + k]
    <3>1. CASE k \in 1..C
      <4>1. L - C + k \in 1..L /\ Len(executed') - Len(cache') + k = L - C + k
        BY <1>2, <1>3, <1>4, <1>5, <3>1 DEF L
      <4> QED BY <1>3, <1>4, <1>5, <3>1, <4>1
    <3>2. CASE k = C + 1
      <4>1. Len(executed') - Len(cache') + k = L + 1
        BY <1>2, <1>3, <1>4, <1>5, <3>2 DEF L
      <4> QED BY <1>3, <1>5, <3>2, <4>1
    <3> QED BY <1>4, <1>5, <3>1, <3>2
  <2> QED BY <1>2, <1>3, <1>4, <1>5, <2>1 DEF CacheIsWindow
<1>7. CacheDistinct'
  <2>1. ASSUME NEW k \in 1..Len(cache'), NEW l \in 1..Len(cache'), cache'[k] = cache'[l] PROVE k = l
    <3>1. k \in 1..C \/ k = C + 1
      BY <1>4, <1>5
    <3>2. l \in 1..C \/ l = C + 1
      BY <1>4, <1>5
    <3> QED BY <1>4, <1>5, <2>1, <3>1, <3>2
  <2> QED BY <2>1 DEF CacheDistinct
<1>8. HeldIsNew'
  BY <1>1 DEF HeldIsNew
<1>9. ExecutedOnce'
  <2>1. SUFFICES ASSUME NEW i \in 1..(L + 1), NEW j \in 1..(L + 1), i < j, executed'[i] = executed'[j]
                 PROVE  Cardinality({executed'[k] : k \in i + 1 .. j - 1}) >= CacheLen
    <3>1. DOMAIN executed' = 1..(L + 1)
      BY <1>3
    <3> QED BY <3>1 DEF ExecutedOnce
  <2>2. i \in 1..L /\ executed'[i] = executed[i]
    BY <1>2, <1>3, <2>1 DEF L
  <2>3. {executed'[k] : k \in i + 1 .. j - 1} = {executed[k] : k \in i + 1 .. j - 1}
    <3>1. \A k \in i + 1 .. j - 1 : executed'[k] = executed[k]
      <4>1. PICK n \in Nat : n = L
        BY <1>2 DEF L
      <4>2. \A k \in 1 .. n : executed'[k] = executed[k]
        BY <1>2, <1>3, <4>1 DEF L
      <4>3. \A k \in i + 1 .. j - 1 : k \in 1 .. n
        <5> HIDE DEF L
        <5>1. i \in 1 .. n + 1 /\ j \in 1 .. n + 1
          BY <2>1, <4>1
        <5> QED BY <5>1
      <4> QED BY <4>2, <4>3
    <3> QED BY <3>1
  <2>4. CASE j = L + 1
    <3>1. executed[i] = s /\ \A k \in 1..Len(cache) : cache[k] # s
      BY <1>3, <2>1, <2>2, <2>4 DEF CacheInv, HeldIsNew, DispatchExecuted, s
    <3>2. Cardinality({executed[k] : k \in i + 1 .. Len(executed)}) >= CacheLen
      BY <2>2, <3>1, ExecutedLongAgo DEF L
    <3>3. j - 1 = Len(executed)
      BY <1>2, <2>4 DEF L
    <3> QED BY <2>3, <3>2, <3>3
  <2>5. CASE j \in 1..L
    <3>1. executed[i] = executed[j]
      BY <1>3, <2>1, <2>2, <2>5
    <3>2. DOMAIN executed = 1..L
      BY <1>2 DEF L
    <3> QED BY <2>1, <2>2, <2>3, <2>5, <3>1, <3>2 DEF CacheInv, ExecutedOnce
  <2> QED BY <1>2, <2>1, <2>4, <2>5 DEF L
<1> QED
  BY <1>6, <1>7, <1>8, <1>9 DEF CacheInv

LEMMA CachePreserved == TaskInv /\ CacheInv /\ [Next]_vars => CacheInv'
<1> SUFFICES ASSUME TaskInv, CacheInv, [Next]_vars PROVE CacheInv' OBVIOUS
<1> DEFINE Quiet == UNCHANGED <<cache, dispatching, executed>>
<1>1. ASSUME Quiet PROVE CacheInv'
  BY <1>1 DEF CacheInv, CacheIsWindow, CacheDistinct, HeldIsNew, ExecutedOnce
<1>2. CASE UNCHANGED vars
  BY <1>1, <1>2 DEF vars, commandVars
<1>3. ASSUME NEW s \in Serial, Receive(s) PROVE CacheInv'
  BY <1>1, <1>3 DEF Receive
<1>4. CASE DispatchGet
  <2>1. cache' = cache /\ executed' = executed
        /\ dispatching' = IF IsExecuted(Head(commands)) THEN NoSerial ELSE Head(commands)
    BY <1>4 DEF DispatchGet
  <2>2. HeldIsNew'
    BY <2>1, InCache DEF HeldIsNew
  <2>3. cache' = cache /\ executed' = executed
    BY <2>1
  <2>4. CacheIsWindow' /\ CacheDistinct' /\ ExecutedOnce'
    BY <2>3 DEF CacheInv, CacheIsWindow, CacheDistinct, ExecutedOnce
  <2> QED
    BY <2>2, <2>4 DEF CacheInv
<1>5. CASE AddProfileTask
  BY <1>5, ExecutedCache DEF AddProfileTask
<1>6. ASSUME NEW n \in TaskNo, Timers(n) PROVE CacheInv'
  BY <1>1, <1>6 DEF Timers, ProcessTask, StartTask, StopTimerFires, commandVars
<1>7. ASSUME NEW n \in TaskNo, Profile(n) PROVE CacheInv'
  BY <1>1, <1>7 DEF Profile, Skip, Promote, Snapshot, StopTracing, Release, NextPass, WorkerEnds,
                    WorkerFrame, commandVars
<1>8. ASSUME NEW r \in Trace, Host(r) PROVE CacheInv'
  BY <1>1, <1>8 DEF Host, Attempt, NotProfiled, Claim, Occupy, Bind, Update, HostEnds, HostFrame, commandVars
<1> QED
  BY <1>2, <1>3, <1>4, <1>5, <1>6, <1>7, <1>8 DEF Next

(***************************************************************************)
(* CommandService: between two executions of a command that the OAP        *)
(* repeated, at least CacheLen different commands were executed, whatever  *)
(* was queued when the repetition arrived, for a cache of any length.      *)
(***************************************************************************)
THEOREM NotExecutedTwice == Spec => []ExecutedOnce
<1>1. TaskInv /\ CacheInv => ExecutedOnce
  BY DEF CacheInv
<1> QED
  BY <1>1, TaskInvInitially, TaskInvPreserved, CacheInit, CachePreserved, PTL DEF Spec

-----------------------------------------------------------------------------
(***************************************************************************)
(* Slots and samples. HostFlow: what a host thread knows at each step of   *)
(* attempt_profiling; a trace that got a slot keeps a status other than    *)
(* NONE and never asks again.                                              *)
(***************************************************************************)
HostPc == {"new", "claim", "occupy", "bind", "update", "done"}
Status == {"NONE", "PENDING", "PROFILING", "STOPPED"}
TraceType == [pc : HostPc, task : TaskNo \cup {NoTask}, seen : Nat, at : Nat, bound : BOOLEAN,
              status : Status, saved : Status, dumped : BOOLEAN, alive : BOOLEAN]

SlotTypes ==
  /\ trace \in [Trace -> TraceType]
  /\ slots \in [TaskNo -> [Slot -> Trace \cup {NoTrace}]]
  /\ count \in [TaskNo -> Nat] /\ total \in [TaskNo -> Nat]

FlowOK(t) ==
  /\ t.pc \in {"new", "claim"} => t.status = "NONE" /\ t.dumped = FALSE
  /\ t.pc \in {"occupy", "bind", "update"} => t.status # "NONE"
  /\ t.pc = "update" => t.saved # "NONE"
  /\ t.pc \in {"claim", "occupy"} => t.task \in TaskNo
  /\ t.pc = "claim" => t.seen < MaxParallel
  /\ t.pc = "occupy" => t.at >= 1
  /\ t.dumped = TRUE => t.status # "NONE"

HostFlow == \A r \in Trace : FlowOK(trace[r])

(* A trace in a slot took it for this task, and has no other.              *)
HasSlot(t, n) == t.task = n /\ t.pc \in {"bind", "update", "done"} /\ t.status # "NONE"

SlotsOwned ==
  \A n \in TaskNo : \A i \in Slot :
    slots[n][i] # NoTrace => HasSlot(trace[slots[n][i]], n)

OneSlot ==
  \A n \in TaskNo : \A i, j \in Slot : slots[n][i] # NoTrace /\ slots[n][i] = slots[n][j] => i = j

Counting ==
  \A n \in TaskNo :
    /\ IsFiniteSet(Claiming(n))
    /\ count[n] = Cardinality(Occupied(n)) + Cardinality(Claiming(n))
                    + (IF worker[n].pc = "release" THEN 1 ELSE 0)
    /\ count[n] <= MaxParallel

(***************************************************************************)
(* From every slot on there is room for the traces that still look there:  *)
(* a trace passes a slot only when it is occupied.                         *)
(***************************************************************************)
Seeks(t, n) == t.pc = "occupy" /\ t.task = n
SeeksFrom(t, n, k) == Seeks(t, n) /\ t.at >= k

OccupiedFrom(n, k) == {i \in Slot : slots[n][i] # NoTrace /\ i >= k}
ClaimingFrom(n, k) == {r \in Trace : SeeksFrom(trace[r], n, k)}

Room ==
  \A n \in TaskNo : \A k \in 1 .. MaxParallel + 1 :
    Cardinality(OccupiedFrom(n, k)) + Cardinality(ClaimingFrom(n, k)) <= MaxParallel + 1 - k

(* The profiling thread of a task starts once.                             *)
NotStarted ==
  \A n \in TaskNo : n \in toStart \/ rlock = n \/ n > Len(tasks) => worker[n].pc = "none"

SampledFor(t, n) == t.dumped = TRUE /\ t.task = n
Sampled(n) == {r \in Trace : SampledFor(trace[r], n)}

SamplesCounted ==
  \A n \in TaskNo :
    /\ IsFiniteSet(Sampled(n)) /\ Cardinality(Sampled(n)) <= MaxSamples
    /\ Cardinality(Sampled(n)) <= total[n]

SlotInv ==
  SlotTypes /\ HostFlow /\ SlotsOwned /\ OneSlot /\ Counting /\ Room /\ NotStarted /\ SamplesCounted

-----------------------------------------------------------------------------
(* What the constants are, and that everything counted is finite.          *)
LEMMA SlotConstants ==
  /\ MaxParallel \in Nat /\ MaxParallel >= 1 /\ MaxSamples \in Nat
  /\ IsFiniteSet(Slot) /\ Cardinality(Slot) = MaxParallel
  /\ NoTask \notin TaskNo /\ TaskNo \subseteq Nat
<1>1. IsFiniteSet(1..MaxParallel) /\ Cardinality(1..MaxParallel) = MaxParallel
  BY ProfilingAssumption, FS_Interval
<1> QED BY <1>1, Constants, ProfilingAssumption DEF Slot

LEMMA FiniteSides ==
  ASSUME SlotInv, NEW n \in TaskNo
  PROVE  /\ IsFiniteSet(Occupied(n)) /\ Cardinality(Occupied(n)) \in Nat
         /\ IsFiniteSet(Claiming(n)) /\ Cardinality(Claiming(n)) \in Nat
         /\ \A k : /\ IsFiniteSet(OccupiedFrom(n, k)) /\ Cardinality(OccupiedFrom(n, k)) \in Nat
                   /\ IsFiniteSet(ClaimingFrom(n, k)) /\ Cardinality(ClaimingFrom(n, k)) \in Nat
                   /\ Cardinality(OccupiedFrom(n, k)) <= Cardinality(Occupied(n))
                   /\ Cardinality(ClaimingFrom(n, k)) <= Cardinality(Claiming(n))
<1>1. IsFiniteSet(Claiming(n))
  BY DEF SlotInv, Counting
<1>2. Occupied(n) \in SUBSET Slot
  BY DEF Occupied
<1>3. IsFiniteSet(Occupied(n))
  BY <1>2, SlotConstants, FS_Subset
<1>4. ASSUME NEW k
      PROVE OccupiedFrom(n, k) \in SUBSET Occupied(n) /\ ClaimingFrom(n, k) \in SUBSET Claiming(n)
  BY DEF OccupiedFrom, Occupied, ClaimingFrom, Claiming, SeeksFrom, Seeks
<1>5. ASSUME NEW k
      PROVE /\ IsFiniteSet(OccupiedFrom(n, k)) /\ Cardinality(OccupiedFrom(n, k)) <= Cardinality(Occupied(n))
            /\ IsFiniteSet(ClaimingFrom(n, k)) /\ Cardinality(ClaimingFrom(n, k)) <= Cardinality(Claiming(n))
  BY <1>1, <1>3, <1>4, FS_Subset
<1> QED BY <1>1, <1>3, <1>5, FS_CardinalityType

LEMMA ClaimingSeeks == ASSUME NEW n PROVE Claiming(n) = {r \in Trace : Seeks(trace[r], n)}
BY DEF Claiming, Seeks

LEMMA ClaimingSeeksNext == ASSUME NEW n PROVE Claiming(n)' = {r \in Trace : Seeks(trace'[r], n)}
BY DEF Claiming, Seeks

(* What counts and room depend on is unchanged.                            *)
LEMMA AccountFrame ==
  ASSUME SlotInv, slots' = slots, count' = count,
         \A n \in TaskNo : worker'[n].pc = "release" <=> worker[n].pc = "release",
         \A r \in Trace : \A n : Seeks(trace'[r], n) <=> Seeks(trace[r], n),
         \A r \in Trace : \A n, k : SeeksFrom(trace'[r], n, k) <=> SeeksFrom(trace[r], n, k)
  PROVE  Counting' /\ Room'
<1>1. ASSUME NEW n \in TaskNo
      PROVE /\ Occupied(n)' = Occupied(n) /\ Claiming(n)' = Claiming(n)
            /\ \A k : OccupiedFrom(n, k)' = OccupiedFrom(n, k) /\ ClaimingFrom(n, k)' = ClaimingFrom(n, k)
  <2>1. Occupied(n)' = Occupied(n) /\ \A k : OccupiedFrom(n, k)' = OccupiedFrom(n, k)
    BY DEF Occupied, OccupiedFrom
  <2>2. Claiming(n)' = Claiming(n)
    BY ClaimingSeeks, ClaimingSeeksNext
  <2>3. ASSUME NEW k PROVE ClaimingFrom(n, k)' = ClaimingFrom(n, k)
    BY DEF ClaimingFrom
  <2> QED BY <2>1, <2>2, <2>3
<1>2. Counting'
  BY <1>1 DEF SlotInv, Counting
<1>3. Room'
  BY <1>1 DEF SlotInv, Room
<1> QED BY <1>2, <1>3

(* The same traces are sampled, and no sample is uncounted.                *)
LEMMA SamplesFrame ==
  ASSUME SlotInv, total' \in [TaskNo -> Nat], \A n \in TaskNo : total'[n] >= total[n],
         \A r \in Trace : \A n \in TaskNo : SampledFor(trace'[r], n) <=> SampledFor(trace[r], n)
  PROVE  SamplesCounted'
<1>1. ASSUME NEW n \in TaskNo PROVE Sampled(n)' = Sampled(n)
  BY DEF Sampled
<1>2. ASSUME NEW n \in TaskNo PROVE Cardinality(Sampled(n)) \in Nat
  BY FS_CardinalityType DEF SlotInv, SamplesCounted
<1>3. ASSUME NEW n \in TaskNo
      PROVE IsFiniteSet(Sampled(n)') /\ Cardinality(Sampled(n)') <= MaxSamples /\ Cardinality(Sampled(n)') <= total'[n]
  BY <1>1, <1>2 DEF SlotInv, SamplesCounted, SlotTypes
<1> QED BY <1>3 DEF SamplesCounted

(* Tasks whose profiling thread is still to come keep it so.               *)
LEMMA NotStartedFrame ==
  ASSUME NotStarted, toStart' \subseteq toStart, rlock' = rlock \/ rlock' \in toStart \/ rlock' = NoTask,
         tasks' = tasks, \A n \in TaskNo : worker[n].pc = "none" => worker'[n].pc = "none"
  PROVE  NotStarted'
BY SlotConstants DEF NotStarted

(* A step that touches neither traces nor slots.                           *)
LEMMA QuietSlots ==
  ASSUME SlotInv, UNCHANGED <<trace, slots, count, total>>, NotStarted',
         \A n \in TaskNo : worker'[n].pc = "release" <=> worker[n].pc = "release"
  PROVE  SlotInv'
<1>1. Counting' /\ Room'
  BY AccountFrame
<1>2. SamplesCounted'
  BY SamplesFrame DEF SlotInv, SlotTypes
<1>3. SlotTypes' /\ HostFlow' /\ SlotsOwned' /\ OneSlot'
  BY DEF SlotInv, SlotTypes, HostFlow, SlotsOwned, OneSlot
<1> QED
  BY <1>1, <1>2, <1>3 DEF SlotInv

(* A step that changes one trace, not whether it looks for a slot.         *)
LEMMA TraceCore ==
  ASSUME SlotInv, NEW r \in Trace, NEW t \in TraceType, trace' = [trace EXCEPT ![r] = t], FlowOK(t),
         UNCHANGED <<slots, count>>, total' \in [TaskNo -> Nat], NotStarted',
         \A n \in TaskNo : worker'[n].pc = "release" <=> worker[n].pc = "release",
         \A n : Seeks(t, n) <=> Seeks(trace[r], n),
         \A n, k : SeeksFrom(t, n, k) <=> SeeksFrom(trace[r], n, k),
         \A n \in TaskNo : HasSlot(trace[r], n) => HasSlot(t, n),
         SamplesCounted'
  PROVE  SlotInv'
<1>1. /\ trace' \in [Trace -> TraceType] /\ trace'[r] = t
      /\ \A q \in Trace : q # r => trace'[q] = trace[q]
  BY DEF SlotInv, SlotTypes
<1>2. SlotTypes'
  BY <1>1 DEF SlotInv, SlotTypes
<1>3. HostFlow'
  BY <1>1 DEF SlotInv, HostFlow
<1>4. SlotsOwned'
  <2>1. SUFFICES ASSUME NEW n \in TaskNo, NEW i \in Slot, slots[n][i] # NoTrace
                 PROVE  HasSlot(trace'[slots[n][i]], n)
    BY DEF SlotsOwned
  <2>2. slots[n][i] \in Trace /\ HasSlot(trace[slots[n][i]], n)
    BY <2>1 DEF SlotInv, SlotTypes, SlotsOwned
  <2> QED BY <1>1, <2>2
<1>5. OneSlot'
  BY DEF SlotInv, OneSlot
<1>6. \A q \in Trace : \A n : Seeks(trace'[q], n) <=> Seeks(trace[q], n)
  BY <1>1
<1>7. \A q \in Trace : \A n, k : SeeksFrom(trace'[q], n, k) <=> SeeksFrom(trace[q], n, k)
  BY <1>1
<1>8. Counting' /\ Room'
  BY <1>6, <1>7, AccountFrame
<1> QED
  BY <1>2, <1>3, <1>4, <1>5, <1>8 DEF SlotInv

(* ... nor whether it was sampled.                                         *)
LEMMA TraceStep ==
  ASSUME SlotInv, NEW r \in Trace, NEW t \in TraceType, trace' = [trace EXCEPT ![r] = t], FlowOK(t),
         UNCHANGED <<slots, count, total>>, NotStarted',
         \A n \in TaskNo : worker'[n].pc = "release" <=> worker[n].pc = "release",
         \A n : Seeks(t, n) <=> Seeks(trace[r], n),
         \A n, k : SeeksFrom(t, n, k) <=> SeeksFrom(trace[r], n, k),
         \A n \in TaskNo : SampledFor(t, n) <=> SampledFor(trace[r], n),
         \A n \in TaskNo : HasSlot(trace[r], n) => HasSlot(t, n)
  PROVE  SlotInv'
<1>1. trace'[r] = t /\ \A q \in Trace : q # r => trace'[q] = trace[q]
  BY DEF SlotInv, SlotTypes
<1>2. \A q \in Trace : \A n \in TaskNo : SampledFor(trace'[q], n) <=> SampledFor(trace[q], n)
  BY <1>1
<1>3. total' \in [TaskNo -> Nat] /\ \A n \in TaskNo : total'[n] >= total[n]
  BY DEF SlotInv, SlotTypes
<1>4. SamplesCounted'
  BY <1>2, <1>3, SamplesFrame
<1> QED
  BY <1>3, <1>4, TraceCore

(* A step of a host thread that neither begins nor ends to look for a slot.*)
LEMMA HostStep ==
  ASSUME SlotInv, NEW r \in Trace, NEW t \in TraceType, trace' = [trace EXCEPT ![r] = t],
         HostFrame, UNCHANGED <<slots, count>>, FlowOK(t),
         t.pc # "occupy", trace[r].pc # "occupy",
         t.dumped = trace[r].dumped, t.task = trace[r].task \/ trace[r].dumped = FALSE,
         \A n \in TaskNo : HasSlot(trace[r], n) => HasSlot(t, n)
  PROVE  SlotInv'
<1>1. UNCHANGED <<worker, total, toStart, rlock, tasks>>
  BY DEF HostFrame, taskVars
<1>2. NotStarted'
  BY <1>1 DEF SlotInv, NotStarted
<1>3. /\ \A n : ~Seeks(t, n) /\ ~Seeks(trace[r], n)
      /\ \A n, k : ~SeeksFrom(t, n, k) /\ ~SeeksFrom(trace[r], n, k)
  BY DEF Seeks, SeeksFrom
<1>4. trace[r] \in TraceType
  BY DEF SlotInv, SlotTypes
<1>5. \A n \in TaskNo : SampledFor(t, n) <=> SampledFor(trace[r], n)
  BY <1>4 DEF SampledFor, TraceType
<1> QED
  BY <1>1, <1>2, <1>3, <1>5, TraceStep

LEMMA TraceFacts ==
  ASSUME SlotInv, NEW r \in Trace
  PROVE  trace[r] \in TraceType /\ FlowOK(trace[r]) /\ trace \in [Trace -> TraceType]
BY DEF SlotInv, SlotTypes, HostFlow

LEMMA AttemptSlots == ASSUME TaskInv, SlotInv, NEW r \in Trace, Attempt(r) PROVE SlotInv'
<1> DEFINE o == trace[r]
<1>1. o \in TraceType /\ FlowOK(o) /\ trace \in [Trace -> TraceType]
  BY TraceFacts
<1>2. o.status = "NONE" /\ o.pc \in {"new", "done"} /\ o.dumped = FALSE
  BY <1>1 DEF Attempt, Asks, Reached, FlowOK, TraceType
<1>3. HostFrame /\ UNCHANGED <<slots, count>> /\ current \in TaskNo
  BY DEF Attempt, TaskInv, TaskTypes
<1>4. \/ /\ count[current] < MaxParallel
         /\ trace' = [trace EXCEPT ![r].pc = "claim", ![r].task = current, ![r].seen = count[current]]
      \/ trace' = [trace EXCEPT ![r].pc = "done", ![r].bound = TRUE]
  BY DEF Attempt
<1>5. count[current] \in Nat
  BY <1>3 DEF SlotInv, SlotTypes
<1>6. \A n \in TaskNo : ~HasSlot(o, n)
  BY <1>2 DEF HasSlot
<1> HIDE DEF o
<1>7. CASE /\ count[current] < MaxParallel
           /\ trace' = [trace EXCEPT ![r].pc = "claim", ![r].task = current, ![r].seen = count[current]]
  <2> DEFINE t == [o EXCEPT !.pc = "claim", !.task = current, !.seen = count[current]]
  <2>1. trace' = [trace EXCEPT ![r] = t]
    BY <1>1, <1>7 DEF o
  <2>2. /\ t \in TraceType /\ t.pc = "claim" /\ t.status = "NONE" /\ t.dumped = FALSE
        /\ t.task = current /\ t.seen = count[current]
    BY <1>1, <1>2, <1>3, <1>5 DEF TraceType, HostPc
  <2> HIDE DEF t
  <2>3. FlowOK(t)
    BY <1>3, <1>7, <2>2 DEF FlowOK
  <2> QED BY <1>2, <1>3, <1>6, <2>1, <2>2, <2>3, HostStep DEF o
<1>8. CASE trace' = [trace EXCEPT ![r].pc = "done", ![r].bound = TRUE]
  <2> DEFINE t == [o EXCEPT !.pc = "done", !.bound = TRUE]
  <2>1. trace' = [trace EXCEPT ![r] = t]
    BY <1>1, <1>8 DEF o
  <2>2. /\ t \in TraceType /\ t.pc = "done" /\ t.status = "NONE" /\ t.dumped = FALSE
        /\ t.task = o.task
    BY <1>1, <1>2 DEF TraceType, HostPc
  <2> HIDE DEF t
  <2>3. FlowOK(t)
    BY <2>2 DEF FlowOK
  <2> QED BY <1>2, <1>3, <1>6, <2>1, <2>2, <2>3, HostStep DEF o
<1> QED BY <1>4, <1>7, <1>8

(* The host thread is through with attempt_profiling, without a slot.      *)
LEMMA DoneSlots ==
  ASSUME SlotInv, NEW r \in Trace, HostFrame, UNCHANGED <<slots, count>>,
         trace[r].pc \in {"new", "claim"},
         trace' = [trace EXCEPT ![r].pc = "done", ![r].bound = TRUE]
  PROVE  SlotInv'
<1> DEFINE o == trace[r]
           t == [o EXCEPT !.pc = "done", !.bound = TRUE]
<1>1. o \in TraceType /\ FlowOK(o) /\ trace \in [Trace -> TraceType]
  BY TraceFacts
<1>2. o.status = "NONE" /\ o.dumped = FALSE /\ o.pc \in {"new", "claim"}
  BY <1>1 DEF FlowOK
<1>3. trace' = [trace EXCEPT ![r] = t]
  BY <1>1
<1>4. /\ t \in TraceType /\ t.pc = "done" /\ t.status = "NONE" /\ t.dumped = FALSE
      /\ t.task = o.task
  BY <1>1, <1>2 DEF TraceType, HostPc
<1>5. \A n \in TaskNo : ~HasSlot(o, n)
  BY <1>2 DEF HasSlot
<1> HIDE DEF t
<1>6. FlowOK(t)
  BY <1>4 DEF FlowOK
<1> QED BY <1>2, <1>3, <1>4, <1>5, <1>6, HostStep

(* The end of an attempt that got its slot, and the end of the host.       *)
LEMMA SettledSlots ==
  ASSUME SlotInv, NEW r \in Trace, Bind(r) \/ Update(r) \/ HostEnds(r) PROVE SlotInv'
<1> DEFINE o == trace[r]
<1>0. HostFrame /\ UNCHANGED <<slots, count>>
  BY DEF Bind, Update, HostEnds
<1>1. o \in TraceType /\ FlowOK(o) /\ trace \in [Trace -> TraceType]
  BY TraceFacts
<1>2. ASSUME NEW t \in TraceType, trace' = [trace EXCEPT ![r] = t], o.pc \in {"bind", "update", "done"},
             t.pc \in {"update", "done"}, t.pc = "update" => t.saved # "NONE",
             t.status = "NONE" => o.status = "NONE" /\ o.pc = "done" /\ t.pc = "done",
             t.dumped = o.dumped, t.task = o.task
      PROVE SlotInv'
  <2>1. FlowOK(t)
    BY <1>1, <1>2 DEF FlowOK
  <2>2. \A n \in TaskNo : HasSlot(o, n) => HasSlot(t, n)
    BY <1>2 DEF HasSlot
  <2> QED BY <1>0, <1>2, <2>1, <2>2, HostStep
<1>3. CASE Bind(r) /\ o.bound
  <2> DEFINE t == [o EXCEPT !.pc = "update", !.saved = o.status]
  <2>1. trace' = [trace EXCEPT ![r] = t] /\ o.pc = "bind"
    BY <1>1, <1>3 DEF Bind, Reached
  <2> HIDE DEF o
  <2>2. /\ t \in TraceType /\ t.pc = "update" /\ t.status = o.status /\ t.saved = o.status
        /\ t.dumped = o.dumped /\ t.task = o.task
    BY <1>1 DEF TraceType, HostPc
  <2> HIDE DEF t
  <2>3. o.status # "NONE"
    BY <1>1, <2>1 DEF FlowOK
  <2> QED BY <1>2, <2>1, <2>2, <2>3
<1>4. CASE Bind(r) /\ ~o.bound
  <2> DEFINE t == [o EXCEPT !.pc = "done", !.bound = TRUE]
  <2>1. trace' = [trace EXCEPT ![r] = t] /\ o.pc = "bind"
    BY <1>1, <1>4 DEF Bind, Reached
  <2> HIDE DEF o
  <2>2. /\ t \in TraceType /\ t.pc = "done" /\ t.status = o.status
        /\ t.dumped = o.dumped /\ t.task = o.task
    BY <1>1 DEF TraceType, HostPc
  <2> HIDE DEF t
  <2>3. o.status # "NONE"
    BY <1>1, <2>1 DEF FlowOK
  <2> QED BY <1>2, <2>1, <2>2, <2>3
<1>5. CASE Update(r)
  <2> DEFINE t == [o EXCEPT !.pc = "done", !.status = o.saved]
  <2>1. trace' = [trace EXCEPT ![r] = t] /\ o.pc = "update"
    BY <1>1, <1>5 DEF Update, Reached
  <2> HIDE DEF o
  <2>2. /\ t \in TraceType /\ t.pc = "done" /\ t.status = o.saved
        /\ t.dumped = o.dumped /\ t.task = o.task
    BY <1>1 DEF TraceType, HostPc
  <2> HIDE DEF t
  <2>3. o.saved # "NONE"
    BY <1>1, <2>1 DEF FlowOK
  <2> QED BY <1>2, <2>1, <2>2, <2>3
<1>6. CASE HostEnds(r)
  <2> DEFINE t == [o EXCEPT !.alive = FALSE]
  <2>1. trace' = [trace EXCEPT ![r] = t] /\ o.pc = "done"
    BY <1>1, <1>6 DEF HostEnds, Reached
  <2> HIDE DEF o
  <2>2. /\ t \in TraceType /\ t.pc = "done" /\ t.status = o.status
        /\ t.dumped = o.dumped /\ t.task = o.task
    BY <1>1, <2>1 DEF TraceType, HostPc
  <2> HIDE DEF t
  <2> QED BY <1>2, <2>1, <2>2
<1> QED BY <1>3, <1>4, <1>5, <1>6

-----------------------------------------------------------------------------
(* One trace and the slots change: what stays as it is.                    *)
LEMMA OneTrace ==
  ASSUME SlotInv, NEW r \in Trace, NEW t \in TraceType, trace' = [trace EXCEPT ![r] = t], FlowOK(t)
  PROVE  /\ trace' \in [Trace -> TraceType] /\ trace'[r] = t
         /\ \A q \in Trace : q # r => trace'[q] = trace[q]
         /\ HostFlow'
<1>1. /\ trace' \in [Trace -> TraceType] /\ trace'[r] = t
      /\ \A q \in Trace : q # r => trace'[q] = trace[q]
  BY DEF SlotInv, SlotTypes
<1>2. HostFlow'
  BY <1>1 DEF SlotInv, HostFlow
<1> QED BY <1>1, <1>2

(* compare_and_set let the trace in: one more looks for a slot, from the   *)
(* first slot on, and the count says so.                                   *)
LEMMA ClaimSlots ==
  ASSUME SlotInv, NEW r \in Trace, Claim(r), MayClaim(trace[r].task, trace[r].seen) PROVE SlotInv'
<1> DEFINE o == trace[r]
           t == [o EXCEPT !.pc = "occupy", !.at = 1, !.status = "PENDING"]
<1>1. o \in TraceType /\ FlowOK(o) /\ trace \in [Trace -> TraceType]
  BY TraceFacts
<1>0. o.pc = "claim"
  BY DEF Claim, Reached
<1>01. o.task \in TaskNo
  BY <1>0, <1>1 DEF FlowOK
<1>02. PICK n \in TaskNo : o.task = n
  BY <1>01
<1>2. /\ UNCHANGED <<slots, worker, total, toStart, rlock, tasks>>
      /\ count[n] = o.seen
      /\ count' = [count EXCEPT ![n] = o.seen + 1]
      /\ trace' = [trace EXCEPT ![r] = t]
  BY <1>1, <1>02 DEF Claim, MayClaim, HostFrame, taskVars
<1>3. o.seen < MaxParallel /\ o.seen \in Nat /\ o.status = "NONE" /\ o.dumped = FALSE
  BY <1>0, <1>1 DEF FlowOK, TraceType
<1>4. /\ t \in TraceType /\ t.pc = "occupy" /\ t.at = 1 /\ t.status = "PENDING" /\ t.task = n
      /\ t.dumped = FALSE
  BY <1>1, <1>3, <1>02 DEF TraceType, HostPc, Status
<1> HIDE DEF t
<1>5. FlowOK(t)
  BY <1>3, <1>4 DEF FlowOK
<1>6. /\ trace' \in [Trace -> TraceType] /\ trace'[r] = t
      /\ \A q \in Trace : q # r => trace'[q] = trace[q]
      /\ HostFlow'
  BY <1>2, <1>4, <1>5, OneTrace
<1>7. SlotTypes'
  BY <1>2, <1>3, <1>6 DEF SlotInv, SlotTypes
<1>8. SlotsOwned'
  <2>1. SUFFICES ASSUME NEW m \in TaskNo, NEW i \in Slot, slots[m][i] # NoTrace
                 PROVE  HasSlot(trace'[slots[m][i]], m)
    BY <1>2 DEF SlotsOwned
  <2>2. slots[m][i] \in Trace /\ HasSlot(trace[slots[m][i]], m)
    BY <2>1 DEF SlotInv, SlotTypes, SlotsOwned
  <2>3. slots[m][i] # r
    BY <1>0, <2>2 DEF HasSlot
  <2> QED BY <1>6, <2>2, <2>3
<1>9. OneSlot'
  BY <1>2 DEF SlotInv, OneSlot
<1>10. NotStarted'
  BY <1>2 DEF SlotInv, NotStarted
<1>11. SamplesCounted'
  <2>1. \A q \in Trace : \A m \in TaskNo : SampledFor(trace'[q], m) <=> SampledFor(trace[q], m)
    BY <1>3, <1>4, <1>6 DEF SampledFor
  <2>2. total' \in [TaskNo -> Nat] /\ \A m \in TaskNo : total'[m] >= total[m]
    BY <1>2 DEF SlotInv, SlotTypes
  <2> QED BY <2>1, <2>2, SamplesFrame
<1>12. ASSUME NEW m \in TaskNo
       PROVE /\ Occupied(m)' = Occupied(m) /\ \A k : OccupiedFrom(m, k)' = OccupiedFrom(m, k)
             /\ m # n => Claiming(m)' = Claiming(m)
             /\ \A k : m # n => ClaimingFrom(m, k)' = ClaimingFrom(m, k)
  <2>1. Occupied(m)' = Occupied(m) /\ \A k : OccupiedFrom(m, k)' = OccupiedFrom(m, k)
    BY <1>2 DEF Occupied, OccupiedFrom
  <2>2. ASSUME m # n PROVE \A q \in Trace : Seeks(trace'[q], m) <=> Seeks(trace[q], m)
    BY <1>0, <1>4, <1>6, <2>2 DEF Seeks
  <2>3. ASSUME m # n, NEW k PROVE \A q \in Trace : SeeksFrom(trace'[q], m, k) <=> SeeksFrom(trace[q], m, k)
    BY <1>0, <1>4, <1>6, <2>3 DEF SeeksFrom, Seeks
  <2>4. m # n => Claiming(m)' = Claiming(m)
    BY <2>2, ClaimingSeeks, ClaimingSeeksNext
  <2>5. \A k : m # n => ClaimingFrom(m, k)' = ClaimingFrom(m, k)
    BY <2>3 DEF ClaimingFrom
  <2> QED BY <2>1, <2>4, <2>5
<1>13. Claiming(n)' = Claiming(n) \cup {r} /\ r \notin Claiming(n)
  <2>1. Seeks(t, n) /\ ~Seeks(o, n)
    BY <1>0, <1>4 DEF Seeks
  <2>2. \A q \in Trace : Seeks(trace'[q], n) <=> (Seeks(trace[q], n) \/ q = r)
    BY <1>6, <2>1
  <2> QED BY <2>1, <2>2, ClaimingSeeks, ClaimingSeeksNext
<1>14. ASSUME NEW k \in Nat, k >= 2 PROVE ClaimingFrom(n, k)' = ClaimingFrom(n, k)
  <2>1. \A q \in Trace : SeeksFrom(trace'[q], n, k) <=> SeeksFrom(trace[q], n, k)
    BY <1>0, <1>4, <1>6, <1>14 DEF SeeksFrom, Seeks
  <2> QED BY <2>1 DEF ClaimingFrom
<1>15. /\ IsFiniteSet(Claiming(n)') /\ Cardinality(Claiming(n)') = Cardinality(Claiming(n)) + 1
  BY <1>3, <1>13, FiniteSides, FS_AddElement
<1>16. ClaimingFrom(n, 1)' \subseteq Claiming(n)' /\ OccupiedFrom(n, 1) \subseteq Occupied(n)
  BY DEF ClaimingFrom, SeeksFrom, Seeks, Claiming, OccupiedFrom, Occupied
<1>17. Cardinality(ClaimingFrom(n, 1)') \in Nat /\ Cardinality(ClaimingFrom(n, 1)') <= Cardinality(Claiming(n)')
  BY <1>15, <1>16, FS_Subset, FS_CardinalityType
<1>18. count'[n] = count[n] + 1 /\ count'[n] <= MaxParallel /\ \A m \in TaskNo : m # n => count'[m] = count[m]
  BY <1>2, <1>3, SlotConstants DEF SlotInv, SlotTypes
<1>19. count[n] = Cardinality(Occupied(n)) + Cardinality(Claiming(n)) + (IF worker[n].pc = "release" THEN 1 ELSE 0)
  BY <1>3 DEF SlotInv, Counting
<1>20. Counting'
  <2>1. SUFFICES ASSUME NEW m \in TaskNo
                 PROVE /\ IsFiniteSet(Claiming(m)')
                       /\ count'[m] = Cardinality(Occupied(m)') + Cardinality(Claiming(m)')
                                       + (IF worker'[m].pc = "release" THEN 1 ELSE 0)
                       /\ count'[m] <= MaxParallel
    BY DEF Counting
  <2>2. CASE m # n
    BY <1>2, <1>12, <1>18, <2>2 DEF SlotInv, Counting
  <2>3. CASE m = n
    BY <1>2, <1>3, <1>12, <1>15, <1>18, <1>19, <2>3, FiniteSides
  <2> QED BY <2>2, <2>3
<1>21. Room'
  <2>1. SUFFICES ASSUME NEW m \in TaskNo, NEW k \in 1 .. MaxParallel + 1
                 PROVE Cardinality(OccupiedFrom(m, k)') + Cardinality(ClaimingFrom(m, k)') <= MaxParallel + 1 - k
    BY DEF Room
  <2>2. CASE m # n
    BY <1>12, <2>2 DEF SlotInv, Room
  <2>3. CASE m = n /\ k # 1
    <3>1. k \in Nat /\ k >= 2
      BY <2>3, SlotConstants
    <3> QED BY <1>12, <1>14, <2>3, <3>1 DEF SlotInv, Room
  <2>4. CASE m = n /\ k = 1
    <3>1. Cardinality(OccupiedFrom(n, 1)) <= Cardinality(Occupied(n)) /\ Cardinality(OccupiedFrom(n, 1)) \in Nat
          /\ Cardinality(Occupied(n)) \in Nat /\ Cardinality(Claiming(n)) \in Nat
      BY <1>3, FiniteSides
    <3>2. Cardinality(OccupiedFrom(n, 1)) + Cardinality(ClaimingFrom(n, 1)') <= count'[n]
      BY <1>15, <1>17, <1>18, <1>19, <3>1
    <3>3. Cardinality(OccupiedFrom(n, 1)) + Cardinality(ClaimingFrom(n, 1)') <= MaxParallel
      BY <1>15, <1>17, <1>18, <1>19, <3>1, SlotConstants
    <3> QED BY <1>12, <1>17, <2>4, <3>1, <3>3, SlotConstants
  <2> QED BY <2>2, <2>3, <2>4
<1> QED
  BY <1>6, <1>7, <1>8, <1>9, <1>10, <1>11, <1>20, <1>21 DEF SlotInv

(* A free slot: the trace leaves those that look for one and the slot is   *)
(* occupied, so that the room from every slot on stays what it was.        *)
LEMMA OccupySlots ==
  ASSUME SlotInv, NEW r \in Trace, Occupy(r), slots[trace[r].task][trace[r].at] = NoTrace PROVE SlotInv'
<1> DEFINE o == trace[r]
           t == [o EXCEPT !.pc = "bind"]
<1>1. o \in TraceType /\ FlowOK(o) /\ trace \in [Trace -> TraceType]
  BY TraceFacts
<1>2. o.pc = "occupy" /\ o.at \in Slot
  BY DEF Occupy, Reached
<1>3. o.task \in TaskNo /\ o.status # "NONE"
  BY <1>1, <1>2 DEF FlowOK
<1>4. PICK n \in TaskNo : o.task = n
  BY <1>3
<1>5. PICK i \in Slot : o.at = i
  BY <1>2
<1>6. /\ UNCHANGED <<count, worker, total, toStart, rlock, tasks>>
      /\ slots[n][i] = NoTrace
      /\ slots' = [slots EXCEPT ![n][i] = r]
      /\ trace' = [trace EXCEPT ![r] = t]
  BY <1>1, <1>4, <1>5 DEF Occupy, HostFrame, taskVars
<1>7. /\ t \in TraceType /\ t.pc = "bind" /\ t.task = n /\ t.status # "NONE" /\ t.dumped = o.dumped
  BY <1>1, <1>3, <1>4 DEF TraceType, HostPc
<1> HIDE DEF t
<1>8. FlowOK(t)
  BY <1>7 DEF FlowOK
<1>9. /\ trace' \in [Trace -> TraceType] /\ trace'[r] = t
      /\ \A q \in Trace : q # r => trace'[q] = trace[q]
      /\ HostFlow'
  BY <1>6, <1>7, <1>8, OneTrace
<1>10. /\ slots' \in [TaskNo -> [Slot -> Trace \cup {NoTrace}]]
       /\ slots'[n][i] = r
       /\ \A m \in TaskNo, j \in Slot : m # n \/ j # i => slots'[m][j] = slots[m][j]
  BY <1>6 DEF SlotInv, SlotTypes
<1>11. SlotTypes'
  BY <1>6, <1>9, <1>10 DEF SlotInv, SlotTypes
<1>12. ASSUME NEW m \in TaskNo, NEW j \in Slot PROVE slots[m][j] # r
  BY <1>2, TraceAssumption DEF SlotInv, SlotsOwned, HasSlot
<1>13. SlotsOwned'
  <2>1. SUFFICES ASSUME NEW m \in TaskNo, NEW j \in Slot, slots'[m][j] # NoTrace
                 PROVE  HasSlot(trace'[slots'[m][j]], m)
    BY DEF SlotsOwned
  <2>2. CASE m = n /\ j = i
    BY <1>7, <1>9, <1>10, <2>2 DEF HasSlot
  <2>3. CASE m # n \/ j # i
    <3>1. slots'[m][j] = slots[m][j] /\ slots[m][j] \in Trace /\ HasSlot(trace[slots[m][j]], m)
      BY <1>10, <2>1, <2>3 DEF SlotInv, SlotTypes, SlotsOwned
    <3> QED BY <1>9, <1>12, <3>1
  <2> QED BY <2>2, <2>3
<1>14. OneSlot'
  <2>1. SUFFICES ASSUME NEW m \in TaskNo, NEW j \in Slot, NEW l \in Slot,
                        slots'[m][j] # NoTrace, slots'[m][j] = slots'[m][l]
                 PROVE  j = l
    BY DEF OneSlot
  <2>2. CASE m # n \/ (j # i /\ l # i)
    BY <1>10, <2>1, <2>2 DEF SlotInv, OneSlot
  <2>3. CASE m = n /\ (j = i \/ l = i)
    BY <1>10, <1>12, <2>1, <2>3
  <2> QED BY <2>2, <2>3
<1>15. NotStarted'
  BY <1>6 DEF SlotInv, NotStarted
<1>16. SamplesCounted'
  <2>1. \A q \in Trace : \A m \in TaskNo : SampledFor(trace'[q], m) <=> SampledFor(trace[q], m)
    BY <1>4, <1>7, <1>9 DEF SampledFor
  <2>2. total' \in [TaskNo -> Nat] /\ \A m \in TaskNo : total'[m] >= total[m]
    BY <1>6 DEF SlotInv, SlotTypes
  <2> QED BY <2>1, <2>2, SamplesFrame
<1>17. ASSUME NEW m \in TaskNo, m # n
       PROVE /\ Occupied(m)' = Occupied(m) /\ Claiming(m)' = Claiming(m)
             /\ \A k : OccupiedFrom(m, k)' = OccupiedFrom(m, k) /\ ClaimingFrom(m, k)' = ClaimingFrom(m, k)
  <2>1. Occupied(m)' = Occupied(m) /\ \A k : OccupiedFrom(m, k)' = OccupiedFrom(m, k)
    BY <1>10, <1>17 DEF Occupied, OccupiedFrom
  <2>2. \A q \in Trace : Seeks(trace'[q], m) <=> Seeks(trace[q], m)
    BY <1>4, <1>7, <1>9, <1>17 DEF Seeks
  <2>3. ASSUME NEW k PROVE \A q \in Trace : SeeksFrom(trace'[q], m, k) <=> SeeksFrom(trace[q], m, k)
    BY <1>4, <1>7, <1>9, <1>17 DEF SeeksFrom, Seeks
  <2>4. Claiming(m)' = Claiming(m)
    BY <2>2, ClaimingSeeks, ClaimingSeeksNext
  <2>5. \A k : ClaimingFrom(m, k)' = ClaimingFrom(m, k)
    BY <2>3 DEF ClaimingFrom
  <2> QED BY <2>1, <2>4, <2>5
<1>18. /\ Occupied(n)' = Occupied(n) \cup {i} /\ i \notin Occupied(n)
       /\ Claiming(n)' = Claiming(n) \ {r} /\ r \in Claiming(n)
  <2>1. Occupied(n)' = Occupied(n) \cup {i} /\ i \notin Occupied(n)
    BY <1>6, <1>10, TraceAssumption DEF Occupied
  <2>2. ~Seeks(t, n) /\ Seeks(o, n)
    BY <1>2, <1>4, <1>7 DEF Seeks
  <2>3. \A q \in Trace : Seeks(trace'[q], n) <=> (Seeks(trace[q], n) /\ q # r)
    BY <1>9, <2>2
  <2> QED BY <2>1, <2>2, <2>3, ClaimingSeeks, ClaimingSeeksNext
<1>19. ASSUME NEW k \in Nat, k <= i
       PROVE /\ OccupiedFrom(n, k)' = OccupiedFrom(n, k) \cup {i} /\ i \notin OccupiedFrom(n, k)
             /\ ClaimingFrom(n, k)' = ClaimingFrom(n, k) \ {r} /\ r \in ClaimingFrom(n, k)
  <2>1. OccupiedFrom(n, k)' = OccupiedFrom(n, k) \cup {i} /\ i \notin OccupiedFrom(n, k)
    BY <1>6, <1>10, <1>19, SlotConstants, TraceAssumption DEF OccupiedFrom, Slot
  <2>2. ~SeeksFrom(t, n, k) /\ SeeksFrom(o, n, k)
    BY <1>2, <1>4, <1>5, <1>7, <1>19 DEF SeeksFrom, Seeks, Slot
  <2>3. \A q \in Trace : SeeksFrom(trace'[q], n, k) <=> (SeeksFrom(trace[q], n, k) /\ q # r)
    BY <1>9, <2>2
  <2> QED BY <2>1, <2>2, <2>3 DEF ClaimingFrom
<1>20. ASSUME NEW k \in Nat, k > i
       PROVE OccupiedFrom(n, k)' = OccupiedFrom(n, k) /\ ClaimingFrom(n, k)' = ClaimingFrom(n, k)
  <2>1. OccupiedFrom(n, k)' = OccupiedFrom(n, k)
    BY <1>10, <1>20 DEF OccupiedFrom, Slot
  <2>2. ~SeeksFrom(t, n, k) /\ ~SeeksFrom(o, n, k)
    BY <1>5, <1>7, <1>20 DEF SeeksFrom, Seeks, Slot
  <2>3. \A q \in Trace : SeeksFrom(trace'[q], n, k) <=> SeeksFrom(trace[q], n, k)
    BY <1>9, <2>2
  <2> QED BY <2>1, <2>3 DEF ClaimingFrom
<1>21. Counting'
  <2>1. SUFFICES ASSUME NEW m \in TaskNo
                 PROVE /\ IsFiniteSet(Claiming(m)')
                       /\ count'[m] = Cardinality(Occupied(m)') + Cardinality(Claiming(m)')
                                       + (IF worker'[m].pc = "release" THEN 1 ELSE 0)
                       /\ count'[m] <= MaxParallel
    BY DEF Counting
  <2>2. CASE m # n
    BY <1>6, <1>17, <2>2 DEF SlotInv, Counting
  <2>3. CASE m = n
    <3>1. Cardinality(Occupied(n)') = Cardinality(Occupied(n)) + 1
      BY <1>18, FiniteSides, FS_AddElement
    <3>2. IsFiniteSet(Claiming(n)') /\ Cardinality(Claiming(n)') = Cardinality(Claiming(n)) - 1
      BY <1>18, FiniteSides, FS_RemoveElement
    <3>3. Cardinality(Occupied(n)) \in Nat /\ Cardinality(Claiming(n)) \in Nat
      BY FiniteSides
    <3>4. /\ count[n] = Cardinality(Occupied(n)) + Cardinality(Claiming(n)) + (IF worker[n].pc = "release" THEN 1 ELSE 0)
          /\ count[n] <= MaxParallel
      BY DEF SlotInv, Counting
    <3> QED BY <1>6, <2>3, <3>1, <3>2, <3>3, <3>4
  <2> QED BY <2>2, <2>3
<1>22. Room'
  <2>1. SUFFICES ASSUME NEW m \in TaskNo, NEW k \in 1 .. MaxParallel + 1
                 PROVE Cardinality(OccupiedFrom(m, k)') + Cardinality(ClaimingFrom(m, k)') <= MaxParallel + 1 - k
    BY DEF Room
  <2>2. CASE m # n
    BY <1>17, <2>2 DEF SlotInv, Room
  <2>3. CASE m = n /\ k > i
    <3>1. k \in Nat
      BY SlotConstants
    <3> QED BY <1>20, <2>3, <3>1 DEF SlotInv, Room
  <2>4. CASE m = n /\ k <= i
    <3>0. k \in Nat
      BY SlotConstants
    <3>1. Cardinality(OccupiedFrom(n, k)') = Cardinality(OccupiedFrom(n, k)) + 1
      BY <1>19, <2>4, <3>0, FiniteSides, FS_AddElement
    <3>2. Cardinality(ClaimingFrom(n, k)') = Cardinality(ClaimingFrom(n, k)) - 1
      BY <1>19, <2>4, <3>0, FiniteSides, FS_RemoveElement
    <3>3. Cardinality(OccupiedFrom(n, k)) \in Nat /\ Cardinality(ClaimingFrom(n, k)) \in Nat
      BY FiniteSides
    <3>4. Cardinality(OccupiedFrom(n, k)) + Cardinality(ClaimingFrom(n, k)) <= MaxParallel + 1 - k
      BY DEF SlotInv, Room
    <3> QED BY <2>4, <3>1, <3>2, <3>3, <3>4
  <2>5. k > i \/ k <= i
    BY SlotConstants DEF Slot
  <2> QED BY <2>2, <2>3, <2>4, <2>5
<1> QED
  BY <1>9, <1>11, <1>13, <1>14, <1>15, <1>16, <1>21, <1>22 DEF SlotInv

(* An occupied slot: the trace moves on. From the next slot on there is    *)
(* room for it too, because the slot it leaves behind takes one.           *)
LEMMA PassSlots ==
  ASSUME SlotInv, NEW r \in Trace, Occupy(r), slots[trace[r].task][trace[r].at] # NoTrace PROVE SlotInv'
<1> DEFINE o == trace[r]
           t == [o EXCEPT !.at = o.at + 1]
<1>1. o \in TraceType /\ FlowOK(o) /\ trace \in [Trace -> TraceType]
  BY TraceFacts
<1>2. o.pc = "occupy" /\ o.at \in Slot
  BY DEF Occupy, Reached
<1>3. o.task \in TaskNo /\ o.status # "NONE"
  BY <1>1, <1>2 DEF FlowOK
<1>4. PICK n \in TaskNo : o.task = n
  BY <1>3
<1>5. PICK i \in Slot : o.at = i
  BY <1>2
<1>6. /\ UNCHANGED <<slots, count, worker, total, toStart, rlock, tasks>>
      /\ slots[n][i] # NoTrace
      /\ trace' = [trace EXCEPT ![r] = t]
  BY <1>1, <1>4, <1>5 DEF Occupy, HostFrame, taskVars
<1>7. i \in Nat /\ i >= 1 /\ i <= MaxParallel
  BY SlotConstants DEF Slot
<1>8. /\ t \in TraceType /\ t.pc = "occupy" /\ t.task = n /\ t.status = o.status /\ t.dumped = o.dumped
      /\ t.at = i + 1
  BY <1>1, <1>2, <1>4, <1>5, <1>7 DEF TraceType, HostPc
<1> HIDE DEF t
<1>9. FlowOK(t)
  BY <1>3, <1>7, <1>8 DEF FlowOK
<1>10. /\ trace' \in [Trace -> TraceType] /\ trace'[r] = t
       /\ \A q \in Trace : q # r => trace'[q] = trace[q]
       /\ HostFlow'
  BY <1>6, <1>8, <1>9, OneTrace
<1>11. SlotTypes' /\ OneSlot' /\ NotStarted'
  BY <1>6, <1>10 DEF SlotInv, SlotTypes, OneSlot, NotStarted
<1>12. SlotsOwned'
  <2>1. SUFFICES ASSUME NEW m \in TaskNo, NEW j \in Slot, slots[m][j] # NoTrace
                 PROVE  HasSlot(trace'[slots[m][j]], m)
    BY <1>6 DEF SlotsOwned
  <2>2. slots[m][j] \in Trace /\ HasSlot(trace[slots[m][j]], m)
    BY <2>1 DEF SlotInv, SlotTypes, SlotsOwned
  <2>3. slots[m][j] # r
    BY <1>2, <2>2 DEF HasSlot
  <2> QED BY <1>10, <2>2, <2>3
<1>13. SamplesCounted'
  <2>1. \A q \in Trace : \A m \in TaskNo : SampledFor(trace'[q], m) <=> SampledFor(trace[q], m)
    BY <1>4, <1>8, <1>10 DEF SampledFor
  <2>2. total' \in [TaskNo -> Nat] /\ \A m \in TaskNo : total'[m] >= total[m]
    BY <1>6 DEF SlotInv, SlotTypes
  <2> QED BY <2>1, <2>2, SamplesFrame
<1>14. ASSUME NEW m \in TaskNo
       PROVE /\ Occupied(m)' = Occupied(m) /\ Claiming(m)' = Claiming(m)
             /\ \A k : OccupiedFrom(m, k)' = OccupiedFrom(m, k)
             /\ \A k : m # n => ClaimingFrom(m, k)' = ClaimingFrom(m, k)
  <2>1. Occupied(m)' = Occupied(m) /\ \A k : OccupiedFrom(m, k)' = OccupiedFrom(m, k)
    BY <1>6 DEF Occupied, OccupiedFrom
  <2>2. \A q \in Trace : Seeks(trace'[q], m) <=> Seeks(trace[q], m)
    BY <1>2, <1>4, <1>8, <1>10 DEF Seeks
  <2>3. ASSUME NEW k, m # n PROVE \A q \in Trace : SeeksFrom(trace'[q], m, k) <=> SeeksFrom(trace[q], m, k)
    BY <1>4, <1>8, <1>10, <2>3 DEF SeeksFrom, Seeks
  <2>4. Claiming(m)' = Claiming(m)
    BY <2>2, ClaimingSeeks, ClaimingSeeksNext
  <2>5. \A k : m # n => ClaimingFrom(m, k)' = ClaimingFrom(m, k)
    BY <2>3 DEF ClaimingFrom
  <2> QED BY <2>1, <2>4, <2>5
<1>15. ASSUME NEW k \in Nat, k # i + 1 PROVE ClaimingFrom(n, k)' = ClaimingFrom(n, k)
  <2>1. SeeksFrom(t, n, k) <=> SeeksFrom(o, n, k)
    BY <1>2, <1>4, <1>5, <1>7, <1>8, <1>15 DEF SeeksFrom, Seeks
  <2>2. \A q \in Trace : SeeksFrom(trace'[q], n, k) <=> SeeksFrom(trace[q], n, k)
    BY <1>10, <2>1
  <2> QED BY <2>2 DEF ClaimingFrom
<1>16. /\ OccupiedFrom(n, i) = OccupiedFrom(n, i + 1) \cup {i} /\ i \notin OccupiedFrom(n, i + 1)
       /\ ClaimingFrom(n, i + 1)' \subseteq ClaimingFrom(n, i)
  <2>1. OccupiedFrom(n, i) = OccupiedFrom(n, i + 1) \cup {i} /\ i \notin OccupiedFrom(n, i + 1)
    BY <1>6, <1>7 DEF OccupiedFrom, Slot
  <2>2. SeeksFrom(o, n, i)
    BY <1>2, <1>4, <1>5, <1>7 DEF SeeksFrom, Seeks
  <2>3. \A q \in Trace : trace[q].at \in Nat
    BY DEF SlotInv, SlotTypes, TraceType
  <2>4. \A q \in Trace : q # r /\ SeeksFrom(trace[q], n, i + 1) => SeeksFrom(trace[q], n, i)
    BY <1>7, <2>3 DEF SeeksFrom
  <2>5. \A q \in Trace : SeeksFrom(trace'[q], n, i + 1) => SeeksFrom(trace[q], n, i)
    BY <1>10, <2>2, <2>4
  <2> QED BY <2>1, <2>5 DEF ClaimingFrom
<1>17. Counting'
  BY <1>6, <1>14 DEF SlotInv, Counting
<1>18. Room'
  <2>1. SUFFICES ASSUME NEW m \in TaskNo, NEW k \in 1 .. MaxParallel + 1
                 PROVE Cardinality(OccupiedFrom(m, k)') + Cardinality(ClaimingFrom(m, k)') <= MaxParallel + 1 - k
    BY DEF Room
  <2>2. CASE m # n
    BY <1>14, <2>2 DEF SlotInv, Room
  <2>3. CASE m = n /\ k # i + 1
    <3>1. k \in Nat
      BY SlotConstants
    <3> QED BY <1>14, <1>15, <2>3, <3>1 DEF SlotInv, Room
  <2>4. CASE m = n /\ k = i + 1
    <3>1. Cardinality(OccupiedFrom(n, i)) = Cardinality(OccupiedFrom(n, i + 1)) + 1
      BY <1>16, FiniteSides, FS_AddElement
    <3>2. Cardinality(ClaimingFrom(n, i + 1)') <= Cardinality(ClaimingFrom(n, i)) /\ Cardinality(ClaimingFrom(n, i + 1)') \in Nat
      BY <1>16, FiniteSides, FS_Subset, FS_CardinalityType
    <3>3. Cardinality(OccupiedFrom(n, i + 1)) \in Nat /\ Cardinality(ClaimingFrom(n, i)) \in Nat
      BY FiniteSides
    <3>4. i \in 1 .. MaxParallel + 1
      BY <1>7, SlotConstants
    <3>5. Cardinality(OccupiedFrom(n, i)) + Cardinality(ClaimingFrom(n, i)) <= MaxParallel + 1 - i
      BY <3>4 DEF SlotInv, Room
    <3>6. Cardinality(OccupiedFrom(n, i + 1)) + Cardinality(ClaimingFrom(n, i + 1)') <= MaxParallel + 1 - (i + 1)
      BY <1>7, <3>1, <3>2, <3>3, <3>5, SlotConstants
    <3> QED BY <1>14, <2>4, <3>6
  <2> QED BY <2>2, <2>3, <2>4
<1> QED
  BY <1>10, <1>11, <1>12, <1>13, <1>17, <1>18 DEF SlotInv

LEMMA HostSlots == ASSUME TaskInv, SlotInv, NEW r \in Trace, Host(r) PROVE SlotInv'
<1>1. CASE Attempt(r)
  BY <1>1, AttemptSlots
<1>2. CASE NotProfiled(r)
  BY <1>2, DoneSlots DEF NotProfiled, Reached
<1>3. CASE Claim(r)
  <2>1. CASE MayClaim(trace[r].task, trace[r].seen)
    BY <1>3, <2>1, ClaimSlots
  <2>2. CASE ~MayClaim(trace[r].task, trace[r].seen)
    BY <1>3, <2>2, DoneSlots DEF Claim, Reached
  <2> QED BY <2>1, <2>2
<1>4. CASE Occupy(r)
  BY <1>4, OccupySlots, PassSlots
<1>5. CASE Bind(r) \/ Update(r) \/ HostEnds(r)
  BY <1>5, SettledSlots
<1> QED BY <1>1, <1>2, <1>3, <1>4, <1>5 DEF Host

-----------------------------------------------------------------------------
(* The slot a profiling thread visits, and the trace in it.                *)
LEMMA Visited ==
  ASSUME TaskInv, SlotInv, NEW n \in TaskNo, Visits(n), At(n) # NoTrace
  PROVE  \E i \in Slot, r \in Trace :
           /\ worker[n].at = i /\ slots[n][i] = r /\ At(n) = r
           /\ trace[r] \in TraceType /\ FlowOK(trace[r]) /\ HasSlot(trace[r], n)
<1>1. PICK i \in Slot : worker[n].at = i
  BY DEF Visits
<1>2. slots[n][i] \in Trace /\ At(n) = slots[n][i]
  BY <1>1 DEF At, SlotInv, SlotTypes
<1>3. HasSlot(trace[slots[n][i]], n)
  BY <1>2 DEF SlotInv, SlotsOwned
<1> QED BY <1>1, <1>2, <1>3, TraceFacts

(* A step of the profiling thread of n other than its start and its end.   *)
LEMMA WorkerFrameKeeps ==
  ASSUME TaskInv, SlotInv, NEW n \in TaskNo, WorkerFrame, worker[n].pc \in {"loop", "release"},
         \A m \in TaskNo : m # n => worker'[m] = worker[m]
  PROVE  NotStarted'
<1>1. UNCHANGED <<toStart, rlock, tasks>>
  BY DEF WorkerFrame, taskVars
<1> QED BY <1>1, NotStartedFrame DEF SlotInv

LEMMA PromoteSlots == ASSUME TaskInv, SlotInv, NEW n \in TaskNo, Promote(n) PROVE SlotInv'
<1>1. Visits(n) /\ At(n) # NoTrace /\ WorkerFrame /\ UNCHANGED <<slots, count, total>>
  BY DEF Promote
<1>2. PICK i \in Slot, r \in Trace :
        /\ worker[n].at = i /\ slots[n][i] = r /\ At(n) = r
        /\ trace[r] \in TraceType /\ FlowOK(trace[r]) /\ HasSlot(trace[r], n)
  BY <1>1, Visited
<1>3. worker \in Workers /\ worker[n].pc = "loop"
  BY <1>1 DEF TaskInv, TaskTypes, Visits
<1>4. /\ \A m \in TaskNo : m # n => worker'[m] = worker[m]
      /\ worker'[n].pc # "release"
  BY <1>3 DEF Promote, Advanced, Workers
<1>5. NotStarted'
  BY <1>1, <1>3, <1>4, WorkerFrameKeeps
<1>6. \A m \in TaskNo : worker'[m].pc = "release" <=> worker[m].pc = "release"
  BY <1>3, <1>4
<1>7. CASE UNCHANGED trace
  BY <1>1, <1>5, <1>6, <1>7, QuietSlots
<1>8. CASE trace' = [trace EXCEPT ![r].status = "PROFILING"]
  <2> DEFINE o == trace[r]
             t == [o EXCEPT !.status = "PROFILING"]
  <2>1. trace' = [trace EXCEPT ![r] = t]
    BY <1>8, TraceFacts
  <2> HIDE DEF o
  <2>2. o \in TraceType /\ FlowOK(o) /\ HasSlot(o, n)
    BY <1>2 DEF o
  <2>3. /\ t \in TraceType /\ t.pc = o.pc /\ t.status = "PROFILING" /\ t.saved = o.saved /\ t.at = o.at
        /\ t.dumped = o.dumped /\ t.task = o.task
    BY <2>2 DEF TraceType, Status
  <2> HIDE DEF t
  <2>4. FlowOK(t)
    BY <2>2, <2>3 DEF FlowOK, HasSlot
  <2>5. /\ \A m : Seeks(t, m) <=> Seeks(o, m)
        /\ \A m, k : SeeksFrom(t, m, k) <=> SeeksFrom(o, m, k)
        /\ \A m \in TaskNo : SampledFor(t, m) <=> SampledFor(o, m)
        /\ \A m \in TaskNo : HasSlot(o, m) => HasSlot(t, m)
    BY <2>3 DEF Seeks, SeeksFrom, SampledFor, HasSlot
  <2> QED
    BY <1>1, <1>5, <1>6, <2>1, <2>3, <2>4, <2>5, TraceStep DEF o
<1> QED BY <1>2, <1>7, <1>8 DEF Promote

(* The first snapshot of a trace is the one that counts.                   *)
LEMMA SnapshotSlots == ASSUME TaskInv, SlotInv, NEW n \in TaskNo, Snapshot(n) PROVE SlotInv'
<1>1. /\ Visits(n) /\ At(n) # NoTrace /\ WorkerFrame /\ UNCHANGED <<slots, count>>
      /\ trace[At(n)].status = "PROFILING"
  BY DEF Snapshot, Dumps
<1>2. PICK i \in Slot, r \in Trace :
        /\ worker[n].at = i /\ slots[n][i] = r /\ At(n) = r
        /\ trace[r] \in TraceType /\ FlowOK(trace[r]) /\ HasSlot(trace[r], n)
  BY <1>1, Visited
<1>3. worker \in Workers /\ worker[n].pc = "loop"
  BY <1>1 DEF TaskInv, TaskTypes, Visits
<1>4. /\ \A m \in TaskNo : m # n => worker'[m] = worker[m]
      /\ worker'[n].pc # "release"
  BY <1>3 DEF Snapshot, Advanced, Workers
<1>5. NotStarted'
  BY <1>1, <1>3, <1>4, WorkerFrameKeeps
<1>6. \A m \in TaskNo : worker'[m].pc = "release" <=> worker[m].pc = "release"
  BY <1>3, <1>4
<1> DEFINE o == trace[r]
           t == [o EXCEPT !.dumped = TRUE]
<1>7. trace' = [trace EXCEPT ![r] = t]
  BY <1>2, TraceFacts DEF Snapshot
<1>8. \/ o.dumped = TRUE /\ total' = total
      \/ o.dumped = FALSE /\ total' = Counted(n) /\ total[n] + 1 <= MaxSamples
  BY <1>2 DEF Snapshot, StartProfileable, TraceType
<1>9. o \in TraceType /\ FlowOK(o) /\ HasSlot(o, n) /\ o.status = "PROFILING"
  BY <1>1, <1>2
<1> HIDE DEF o
<1>10. /\ t \in TraceType /\ t.pc = o.pc /\ t.status = o.status /\ t.saved = o.saved /\ t.at = o.at
       /\ t.dumped = TRUE /\ t.task = o.task
  BY <1>9 DEF TraceType, Status
<1> HIDE DEF t
<1>11. FlowOK(t)
  BY <1>9, <1>10 DEF FlowOK, HasSlot
<1>12. /\ \A m : Seeks(t, m) <=> Seeks(o, m)
       /\ \A m, k : SeeksFrom(t, m, k) <=> SeeksFrom(o, m, k)
       /\ \A m \in TaskNo : HasSlot(o, m) => HasSlot(t, m)
  BY <1>10 DEF Seeks, SeeksFrom, HasSlot
<1>13. /\ trace'[r] = t /\ \A q \in Trace : q # r => trace'[q] = trace[q]
  BY <1>7, <1>10, <1>11, OneTrace
<1>14. o.task = n
  BY <1>9 DEF HasSlot
<1>15. /\ total' \in [TaskNo -> Nat]
       /\ \A m \in TaskNo : total'[m] >= total[m]
       /\ o.dumped = FALSE => total'[n] = total[n] + 1
  <2>1. total \in [TaskNo -> Nat]
    BY DEF SlotInv, SlotTypes
  <2>2. CASE o.dumped = TRUE /\ total' = total
    BY <2>1, <2>2
  <2>3. CASE o.dumped = FALSE /\ total' = Counted(n)
    BY <2>1, <2>3 DEF Counted
  <2> QED BY <1>8, <2>2, <2>3
<1>16. SamplesCounted'
  <2>1. CASE o.dumped = TRUE
    <3>1. \A m \in TaskNo : SampledFor(t, m) <=> SampledFor(o, m)
      BY <1>10, <2>1 DEF SampledFor
    <3>2. \A q \in Trace : \A m \in TaskNo : SampledFor(trace'[q], m) <=> SampledFor(trace[q], m)
      BY <1>13, <3>1 DEF o
    <3> QED BY <1>15, <3>2, SamplesFrame
  <2>2. CASE o.dumped = FALSE
    <3>1. \A m \in TaskNo : m # n => ~SampledFor(t, m) /\ ~SampledFor(o, m)
      BY <1>10, <1>14 DEF SampledFor
    <3>2. SampledFor(t, n) /\ ~SampledFor(o, n)
      BY <1>10, <1>14, <2>2 DEF SampledFor
    <3>3. ASSUME NEW m \in TaskNo, m # n PROVE Sampled(m)' = Sampled(m)
      BY <1>13, <3>1, <3>3 DEF Sampled, o
    <3>4. Sampled(n)' = Sampled(n) \cup {r} /\ r \notin Sampled(n)
      BY <1>13, <3>2 DEF Sampled, o
    <3>5. \A m \in TaskNo : IsFiniteSet(Sampled(m)) /\ Cardinality(Sampled(m)) \in Nat
      BY FS_CardinalityType DEF SlotInv, SamplesCounted
    <3>6. IsFiniteSet(Sampled(n)') /\ Cardinality(Sampled(n)') = Cardinality(Sampled(n)) + 1
      BY <3>4, <3>5, FS_AddElement
    <3>7. \A m \in TaskNo : Cardinality(Sampled(m)) <= total[m] /\ Cardinality(Sampled(m)) <= MaxSamples
      BY DEF SlotInv, SamplesCounted
    <3>8. total[n] + 1 <= MaxSamples /\ total'[n] = total[n] + 1 /\ \A m \in TaskNo : total[m] \in Nat /\ total'[m] \in Nat
      BY <1>8, <1>15, <2>2 DEF SlotInv, SlotTypes
    <3>9. ASSUME NEW m \in TaskNo
          PROVE /\ IsFiniteSet(Sampled(m)') /\ Cardinality(Sampled(m)') <= MaxSamples
                /\ Cardinality(Sampled(m)') <= total'[m]
      <4>1. CASE m = n
        BY <3>5, <3>6, <3>7, <3>8, <4>1, SlotConstants
      <4>2. CASE m # n
        BY <1>15, <3>3, <3>5, <3>7, <3>8, <4>2
      <4> QED BY <4>1, <4>2
    <3> QED BY <3>9 DEF SamplesCounted
  <2> QED BY <1>8, <2>1, <2>2
<1> QED
  BY <1>1, <1>5, <1>6, <1>7, <1>10, <1>11, <1>12, <1>15, <1>16, TraceCore DEF o

(* stop_tracing_profile: the slot is empty, the count still to be given    *)
(* back by this thread.                                                    *)
LEMMA StopTracingSlots == ASSUME TaskInv, SlotInv, NEW n \in TaskNo, StopTracing(n) PROVE SlotInv'
<1>1. /\ Visits(n) /\ At(n) # NoTrace /\ WorkerFrame /\ UNCHANGED count
      /\ worker' = [worker EXCEPT ![n].pc = "release"]
  BY DEF StopTracing, Dumps
<1>2. PICK i \in Slot, r \in Trace :
        /\ worker[n].at = i /\ slots[n][i] = r /\ At(n) = r
        /\ trace[r] \in TraceType /\ FlowOK(trace[r]) /\ HasSlot(trace[r], n)
  BY <1>1, Visited
<1>3. worker \in Workers /\ worker[n].pc = "loop"
  BY <1>1 DEF TaskInv, TaskTypes, Visits
<1>4. /\ \A m \in TaskNo : m # n => worker'[m] = worker[m]
      /\ worker'[n].pc = "release"
  BY <1>1, <1>3 DEF Workers
<1>5. NotStarted'
  BY <1>1, <1>3, <1>4, WorkerFrameKeeps
<1> DEFINE o == trace[r]
           t == [o EXCEPT !.status = "STOPPED"]
<1>6. trace' = [trace EXCEPT ![r] = t] /\ slots' = [slots EXCEPT ![n][i] = NoTrace]
  BY <1>2, TraceFacts DEF StopTracing
<1>7. total' = total \/ total' = Counted(n)
  BY DEF StopTracing
<1>8. o \in TraceType /\ FlowOK(o) /\ HasSlot(o, n)
  BY <1>2
<1> HIDE DEF o
<1>9. /\ t \in TraceType /\ t.pc = o.pc /\ t.status = "STOPPED" /\ t.saved = o.saved /\ t.at = o.at
      /\ t.dumped = o.dumped /\ t.task = o.task
  BY <1>8 DEF TraceType, Status
<1> HIDE DEF t
<1>10. FlowOK(t)
  BY <1>8, <1>9 DEF FlowOK, HasSlot
<1>11. /\ \A m : Seeks(t, m) <=> Seeks(o, m)
       /\ \A m, k : SeeksFrom(t, m, k) <=> SeeksFrom(o, m, k)
       /\ \A m \in TaskNo : SampledFor(t, m) <=> SampledFor(o, m)
       /\ \A m \in TaskNo : HasSlot(o, m) => HasSlot(t, m)
  BY <1>9 DEF Seeks, SeeksFrom, SampledFor, HasSlot
<1>12. /\ trace' \in [Trace -> TraceType] /\ trace'[r] = t
       /\ \A q \in Trace : q # r => trace'[q] = trace[q]
       /\ HostFlow'
  BY <1>6, <1>9, <1>10, OneTrace
<1>13. /\ slots' \in [TaskNo -> [Slot -> Trace \cup {NoTrace}]]
       /\ slots'[n][i] = NoTrace
       /\ \A m \in TaskNo, j \in Slot : m # n \/ j # i => slots'[m][j] = slots[m][j]
  BY <1>6 DEF SlotInv, SlotTypes
<1>14. total' \in [TaskNo -> Nat] /\ \A m \in TaskNo : total'[m] >= total[m]
  <2>1. total \in [TaskNo -> Nat]
    BY DEF SlotInv, SlotTypes
  <2>2. CASE total' = total
    BY <2>1, <2>2
  <2>3. CASE total' = Counted(n)
    BY <2>1, <2>3 DEF Counted
  <2> QED BY <1>7, <2>2, <2>3
<1>15. SlotTypes'
  BY <1>1, <1>12, <1>13, <1>14 DEF SlotInv, SlotTypes
<1>16. SlotsOwned'
  <2>1. SUFFICES ASSUME NEW m \in TaskNo, NEW j \in Slot, slots'[m][j] # NoTrace
                 PROVE  HasSlot(trace'[slots'[m][j]], m)
    BY DEF SlotsOwned
  <2>2. slots'[m][j] = slots[m][j] /\ slots[m][j] \in Trace /\ HasSlot(trace[slots[m][j]], m)
    BY <1>13, <2>1 DEF SlotInv, SlotTypes, SlotsOwned
  <2> QED BY <1>11, <1>12, <2>2 DEF o
<1>17. OneSlot'
  BY <1>13 DEF SlotInv, OneSlot
<1>18. SamplesCounted'
  <2>1. \A q \in Trace : \A m \in TaskNo : SampledFor(trace'[q], m) <=> SampledFor(trace[q], m)
    BY <1>11, <1>12 DEF o
  <2> QED BY <1>14, <2>1, SamplesFrame
<1>19. ASSUME NEW m \in TaskNo
       PROVE /\ Claiming(m)' = Claiming(m) /\ \A k : ClaimingFrom(m, k)' = ClaimingFrom(m, k)
             /\ \A k : OccupiedFrom(m, k)' \subseteq OccupiedFrom(m, k)
             /\ m # n => Occupied(m)' = Occupied(m)
  <2>1. \A q \in Trace : Seeks(trace'[q], m) <=> Seeks(trace[q], m)
    BY <1>11, <1>12 DEF o
  <2>2. \A k : \A q \in Trace : SeeksFrom(trace'[q], m, k) <=> SeeksFrom(trace[q], m, k)
    BY <1>11, <1>12 DEF o
  <2>3. Claiming(m)' = Claiming(m)
    BY <2>1, ClaimingSeeks, ClaimingSeeksNext
  <2>4. \A k : ClaimingFrom(m, k)' = ClaimingFrom(m, k)
    BY <2>2 DEF ClaimingFrom
  <2>5. \A k : OccupiedFrom(m, k)' \subseteq OccupiedFrom(m, k)
    BY <1>13 DEF OccupiedFrom
  <2>6. m # n => Occupied(m)' = Occupied(m)
    BY <1>13 DEF Occupied
  <2> QED BY <2>3, <2>4, <2>5, <2>6
<1>20. Occupied(n)' = Occupied(n) \ {i} /\ i \in Occupied(n)
  BY <1>2, <1>13, TraceAssumption DEF Occupied
<1>21. Counting'
  <2>1. SUFFICES ASSUME NEW m \in TaskNo
                 PROVE /\ IsFiniteSet(Claiming(m)')
                       /\ count'[m] = Cardinality(Occupied(m)') + Cardinality(Claiming(m)')
                                       + (IF worker'[m].pc = "release" THEN 1 ELSE 0)
                       /\ count'[m] <= MaxParallel
    BY DEF Counting
  <2>2. CASE m # n
    BY <1>1, <1>4, <1>19, <2>2 DEF SlotInv, Counting
  <2>3. CASE m = n
    <3>1. Cardinality(Occupied(n)') = Cardinality(Occupied(n)) - 1
      BY <1>20, FiniteSides, FS_RemoveElement
    <3>2. /\ Cardinality(Occupied(n)) \in Nat /\ Cardinality(Claiming(n)) \in Nat
          /\ IsFiniteSet(Claiming(n))
      BY FiniteSides
    <3>3. count[n] = Cardinality(Occupied(n)) + Cardinality(Claiming(n)) /\ count[n] <= MaxParallel
      BY <1>3, <3>2 DEF SlotInv, Counting
    <3> QED BY <1>1, <1>4, <1>19, <2>3, <3>1, <3>2, <3>3
  <2> QED BY <2>2, <2>3
<1>22. Room'
  <2>1. SUFFICES ASSUME NEW m \in TaskNo, NEW k \in 1 .. MaxParallel + 1
                 PROVE Cardinality(OccupiedFrom(m, k)') + Cardinality(ClaimingFrom(m, k)') <= MaxParallel + 1 - k
    BY DEF Room
  <2>2. Cardinality(OccupiedFrom(m, k)) \in Nat /\ Cardinality(ClaimingFrom(m, k)) \in Nat
    BY FiniteSides
  <2>3. Cardinality(OccupiedFrom(m, k)') \in Nat /\ Cardinality(OccupiedFrom(m, k)') <= Cardinality(OccupiedFrom(m, k))
    BY <1>19, FiniteSides, FS_Subset, FS_CardinalityType
  <2>4. Cardinality(OccupiedFrom(m, k)) + Cardinality(ClaimingFrom(m, k)) <= MaxParallel + 1 - k
    BY DEF SlotInv, Room
  <2> QED BY <1>19, <2>2, <2>3, <2>4, SlotConstants
<1> QED
  BY <1>5, <1>12, <1>15, <1>16, <1>17, <1>18, <1>21, <1>22 DEF SlotInv

(* ... and the count is given back.                                        *)
LEMMA ReleaseSlots == ASSUME TaskInv, SlotInv, NEW n \in TaskNo, Release(n) PROVE SlotInv'
<1>1. /\ worker[n].pc = "release" /\ WorkerFrame /\ UNCHANGED <<slots, total, trace>>
      /\ count' = [count EXCEPT ![n] = count[n] - 1]
      /\ worker' = [worker EXCEPT ![n] = Worker("loop", worker[n].at + 1)]
  BY DEF Release, Released
<1>2. /\ \A m \in TaskNo : m # n => worker'[m] = worker[m]
      /\ worker'[n].pc = "loop"
  BY <1>1 DEF TaskInv, TaskTypes, Workers, Worker
<1>3. NotStarted'
  BY <1>1, <1>2, WorkerFrameKeeps
<1>4. /\ count[n] = Cardinality(Occupied(n)) + Cardinality(Claiming(n)) + 1
      /\ Cardinality(Occupied(n)) \in Nat /\ Cardinality(Claiming(n)) \in Nat
      /\ count[n] \in Nat /\ count[n] <= MaxParallel
  BY <1>1, FiniteSides DEF SlotInv, Counting, SlotTypes
<1>5. /\ count' \in [TaskNo -> Nat] /\ count'[n] = count[n] - 1
      /\ \A m \in TaskNo : m # n => count'[m] = count[m]
  BY <1>1, <1>4 DEF SlotInv, SlotTypes
<1>6. SlotTypes' /\ HostFlow' /\ SlotsOwned' /\ OneSlot'
  BY <1>1, <1>5 DEF SlotInv, SlotTypes, HostFlow, SlotsOwned, OneSlot
<1>7. ASSUME NEW m \in TaskNo
      PROVE /\ Occupied(m)' = Occupied(m) /\ Claiming(m)' = Claiming(m) /\ Sampled(m)' = Sampled(m)
            /\ \A k : OccupiedFrom(m, k)' = OccupiedFrom(m, k) /\ ClaimingFrom(m, k)' = ClaimingFrom(m, k)
  BY <1>1 DEF Occupied, Claiming, Sampled, OccupiedFrom, ClaimingFrom
<1>8. Counting'
  <2>1. SUFFICES ASSUME NEW m \in TaskNo
                 PROVE /\ IsFiniteSet(Claiming(m)')
                       /\ count'[m] = Cardinality(Occupied(m)') + Cardinality(Claiming(m)')
                                       + (IF worker'[m].pc = "release" THEN 1 ELSE 0)
                       /\ count'[m] <= MaxParallel
    BY DEF Counting
  <2>2. CASE m # n
    BY <1>2, <1>5, <1>7, <2>2 DEF SlotInv, Counting
  <2>3. CASE m = n
    BY <1>2, <1>4, <1>5, <1>7, <2>3, FiniteSides, SlotConstants
  <2> QED BY <2>2, <2>3
<1>9. Room' /\ SamplesCounted'
  BY <1>1, <1>7 DEF SlotInv, Room, SamplesCounted
<1> QED
  BY <1>3, <1>6, <1>8, <1>9 DEF SlotInv

LEMMA ProfileSlots == ASSUME TaskInv, SlotInv, NEW n \in TaskNo, Profile(n) PROVE SlotInv'
<1>0. worker \in Workers
  BY DEF TaskInv, TaskTypes
<1>1. CASE Skip(n)
  <2>1. /\ UNCHANGED <<slots, count, total, trace>> /\ WorkerFrame /\ worker[n].pc = "loop"
        /\ worker'[n].pc = "loop" /\ \A m \in TaskNo : m # n => worker'[m] = worker[m]
    BY <1>0, <1>1 DEF Skip, Visits, Advanced, Workers
  <2> QED BY <2>1, WorkerFrameKeeps, QuietSlots
<1>2. CASE Promote(n)
  BY <1>2, PromoteSlots
<1>3. CASE Snapshot(n)
  BY <1>3, SnapshotSlots
<1>4. CASE StopTracing(n)
  BY <1>4, StopTracingSlots
<1>5. CASE Release(n)
  BY <1>5, ReleaseSlots
<1>6. CASE NextPass(n)
  <2>1. /\ UNCHANGED <<slots, count, total, trace>> /\ WorkerFrame /\ worker[n].pc = "loop"
        /\ worker'[n].pc \in {"loop", "ending"} /\ \A m \in TaskNo : m # n => worker'[m] = worker[m]
    BY <1>0, <1>6 DEF NextPass, Worker, Workers
  <2> QED BY <2>1, WorkerFrameKeeps, QuietSlots
<1>7. CASE WorkerEnds(n)
  <2>1. /\ UNCHANGED <<slots, count, total, trace, tasks, toStart, rlock>>
        /\ worker[n].pc \in {"ending", "failed"}
        /\ worker'[n].pc = "done" /\ \A m \in TaskNo : m # n => worker'[m] = worker[m]
    BY <1>0, <1>7 DEF WorkerEnds, Workers
  <2>2. NotStarted'
    BY <2>1, NotStartedFrame DEF SlotInv
  <2> QED BY <2>1, <2>2, QuietSlots
<1> QED BY <1>1, <1>2, <1>3, <1>4, <1>5, <1>6, <1>7 DEF Profile

-----------------------------------------------------------------------------
(* Tasks and commands: the slots do not change.                            *)
LEMMA TimersSlots == ASSUME TaskInv, SlotInv, NEW n \in TaskNo, Timers(n) PROVE SlotInv'
<1>1. CASE ProcessTask(n)
  <2>1. /\ UNCHANGED <<slots, count, total, trace, worker, tasks>> /\ toStart' \subseteq toStart
        /\ rlock' \in toStart
    BY <1>1 DEF ProcessTask, slotVars
  <2>2. NotStarted'
    BY <2>1, NotStartedFrame DEF SlotInv
  <2> QED BY <2>1, <2>2, QuietSlots
<1>2. CASE StartTask(n)
  <2>1. /\ UNCHANGED <<slots, count, total, trace, tasks, toStart>> /\ rlock = n /\ rlock' = NoTask
        /\ worker'[n].pc = "loop" /\ \A m \in TaskNo : m # n => worker'[m] = worker[m]
    BY <1>2 DEF StartTask, Worker, TaskInv, TaskTypes, Workers
  <2>2. n \notin toStart /\ n <= Len(tasks) /\ worker[n].pc = "none"
    BY <2>1 DEF TaskInv, StagesOnce, SlotInv, NotStarted
  <2>3. Len(tasks) \in Nat /\ n \in Nat
    BY SlotConstants DEF TaskInv, TaskTypes
  <2>4. NotStarted'
    <3>1. SUFFICES ASSUME NEW m \in TaskNo, m \in toStart \/ rlock' = m \/ m > Len(tasks)
                   PROVE worker'[m].pc = "none"
      BY <2>1 DEF NotStarted
    <3>2. m # n /\ (m \in toStart \/ m > Len(tasks))
      BY <2>1, <2>2, <2>3, <3>1, SlotConstants
    <3> QED BY <2>1, <3>2 DEF SlotInv, NotStarted
  <2> QED BY <2>1, <2>2, <2>4, QuietSlots
<1>3. CASE StopTimerFires(n)
  <2>1. UNCHANGED <<slots, count, total, trace, worker, tasks, toStart, rlock>>
    BY <1>3 DEF StopTimerFires, slotVars
  <2>2. NotStarted'
    BY <2>1, NotStartedFrame DEF SlotInv
  <2> QED BY <2>1, <2>2, QuietSlots
<1> QED BY <1>1, <1>2, <1>3 DEF Timers

LEMMA AddSlots == ASSUME TaskInv, SlotInv, AddProfileTask PROVE SlotInv'
<1>1. UNCHANGED <<slots, count, total, trace, worker, rlock>>
  BY DEF AddProfileTask, slotVars
<1>2. Len(tasks) \in Nat /\ tasks \in Seq(Serial)
  BY DEF TaskInv, TaskTypes
<1>3. \/ UNCHANGED <<tasks, toStart>>
      \/ Len(tasks') = Len(tasks) + 1 /\ toStart' = toStart \cup {Len(tasks) + 1}
  BY <1>2, AppendProperties DEF AddProfileTask
<1>4. NotStarted'
  BY <1>1, <1>2, <1>3, SlotConstants DEF SlotInv, NotStarted
<1> QED BY <1>1, <1>4, QuietSlots

LEMMA SlotPreserved == TaskInv /\ SlotInv /\ [Next]_vars => SlotInv'
<1> SUFFICES ASSUME TaskInv, SlotInv, [Next]_vars PROVE SlotInv'
  OBVIOUS
<1>1. ASSUME UNCHANGED <<taskVars, slotVars, trace>> PROVE SlotInv'
  <2>1. UNCHANGED <<slots, count, total, trace, worker, tasks, toStart, rlock>>
    BY <1>1 DEF taskVars, slotVars
  <2>2. NotStarted'
    BY <2>1 DEF SlotInv, NotStarted
  <2> QED BY <2>1, <2>2, QuietSlots
<1>2. CASE \E s \in Serial : Receive(s) /\ Frame
  BY <1>1, <1>2 DEF Frame
<1>3. CASE DispatchGet /\ Frame
  BY <1>1, <1>3 DEF Frame
<1>4. CASE AddProfileTask
  BY <1>4, AddSlots
<1>5. CASE \E n \in TaskNo : Timers(n) \/ Profile(n)
  BY <1>5, TimersSlots, ProfileSlots
<1>6. CASE \E r \in Trace : Host(r)
  BY <1>6, HostSlots
<1>7. CASE UNCHANGED vars
  BY <1>1, <1>7 DEF vars
<1> QED BY <1>2, <1>3, <1>4, <1>5, <1>6, <1>7 DEF Next

LEMMA SlotInit == Init => SlotInv
<1> SUFFICES ASSUME Init PROVE SlotInv
  OBVIOUS
<1>1. /\ trace = [r \in Trace |-> NewTrace] /\ slots = [n \in TaskNo |-> [i \in Slot |-> NoTrace]]
      /\ count = [n \in TaskNo |-> 0] /\ total = [n \in TaskNo |-> 0]
      /\ worker = [n \in TaskNo |-> Worker("none", 1)]
  BY DEF Init
<1>2. /\ NewTrace \in TraceType /\ FlowOK(NewTrace) /\ NewTrace.pc = "new" /\ NewTrace.dumped = FALSE
  BY DEF NewTrace, TraceType, FlowOK, HostPc, Status
<1> HIDE DEF NewTrace
<1>3. SlotTypes /\ HostFlow /\ SlotsOwned /\ OneSlot
  BY <1>1, <1>2 DEF SlotTypes, HostFlow, SlotsOwned, OneSlot
<1>4. ASSUME NEW n \in TaskNo
      PROVE /\ Occupied(n) = {} /\ Claiming(n) = {} /\ Sampled(n) = {}
            /\ \A k : OccupiedFrom(n, k) = {} /\ ClaimingFrom(n, k) = {}
  BY <1>1, <1>2 DEF Occupied, Claiming, Sampled, SampledFor, OccupiedFrom, ClaimingFrom, SeeksFrom, Seeks
<1>5. IsFiniteSet({}) /\ Cardinality({}) = 0
  BY FS_EmptySet
<1>6. Counting
  <2>1. \A n \in TaskNo : worker[n].pc = "none" /\ count[n] = 0
    BY <1>1 DEF Worker
  <2> QED BY <1>4, <1>5, <2>1, SlotConstants DEF Counting
<1>7. Room
  BY <1>4, <1>5, SlotConstants DEF Room
<1>8. NotStarted
  BY <1>1 DEF NotStarted, Worker
<1>9. SamplesCounted
  BY <1>1, <1>4, <1>5, SlotConstants DEF SamplesCounted
<1> QED BY <1>3, <1>6, <1>7, <1>8, <1>9 DEF SlotInv

(* What the reader of the code sees of SlotInv.                            *)
LEMMA SlotInvAccounts == ASSUME SlotInv PROVE SlotAccounting
<1>1. ASSUME NEW n \in TaskNo
      PROVE /\ count[n] = Cardinality(Occupied(n)) + Cardinality(Claiming(n))
                            + (IF worker[n].pc = "release" THEN 1 ELSE 0)
            /\ \A i, j \in Occupied(n) : slots[n][i] = slots[n][j] => i = j
  <2>1. \A i, j \in Occupied(n) : slots[n][i] = slots[n][j] => i = j
    BY DEF SlotInv, OneSlot, Occupied
  <2> QED BY <2>1 DEF SlotInv, Counting
<1>2. ASSUME NEW r \in Trace, trace[r].pc = "occupy" PROVE trace[r].at \in Slot
  <2>1. trace[r].task \in TaskNo /\ trace[r].at >= 1 /\ trace[r].at \in Nat
    BY <1>2, TraceFacts DEF FlowOK, TraceType
  <2>2. PICK n \in TaskNo : trace[r].task = n
    BY <2>1
  <2> DEFINE k == MaxParallel + 1
  <2>3. k \in Nat /\ k \in 1 .. MaxParallel + 1 /\ MaxParallel + 1 - k = 0
    BY SlotConstants
  <2>4. Cardinality(OccupiedFrom(n, k)) + Cardinality(ClaimingFrom(n, k)) <= MaxParallel + 1 - k
    BY <2>3 DEF SlotInv, Room
  <2> HIDE DEF k
  <2>5. /\ Cardinality(OccupiedFrom(n, k)) \in Nat /\ Cardinality(ClaimingFrom(n, k)) \in Nat
        /\ IsFiniteSet(ClaimingFrom(n, k))
    BY FiniteSides
  <2>6. Cardinality(ClaimingFrom(n, k)) = 0
    BY <2>3, <2>4, <2>5
  <2>7. ClaimingFrom(n, k) = {}
    BY <2>5, <2>6, FS_EmptySet
  <2>8. ~(trace[r].at >= k)
    BY <1>2, <2>2, <2>7 DEF ClaimingFrom, SeeksFrom, Seeks
  <2> QED BY <2>1, <2>8, SlotConstants DEF Slot, k
<1> QED BY <1>1, <1>2 DEF SlotAccounting

(* Between compare_and_set on the count, the tries of one slot after the   *)
(* other by the host threads and the release in two steps by the profiling *)
(* thread, no slot is leaked or given out twice, and a host thread that    *)
(* won a claim finds a free slot before it runs off the end of the array:  *)
(* for any number of traces, tasks and slots.                              *)
THEOREM SlotsAccounted == Spec => []SlotAccounting
<1>1. SlotInv => SlotAccounting
  BY SlotInvAccounts
<1> QED
  BY <1>1, TaskInvInitially, TaskInvPreserved, SlotInit, SlotPreserved, PTL DEF Spec

(* is_start_profileable lets at most max_sampling_count traces of a task   *)
(* have their first snapshot, however attempts, rechecks and snapshots     *)
(* interleave; the check before the claim does not (it reads total early). *)
THEOREM SamplingBounded == Spec => []SamplingBound
<1>1. SlotInv => SamplingBound
  <2> SUFFICES ASSUME SlotInv, NEW n \in TaskNo
               PROVE Cardinality({r \in Trace : trace[r].dumped /\ trace[r].task = n}) <= MaxSamples
    BY DEF SamplingBound
  <2>1. \A r \in Trace : trace[r].dumped \in BOOLEAN
    BY DEF SlotInv, SlotTypes, TraceType
  <2>2. {r \in Trace : trace[r].dumped /\ trace[r].task = n} = Sampled(n)
    BY <2>1 DEF Sampled, SampledFor
  <2> QED BY <2>2 DEF SlotInv, SamplesCounted
<1> QED
  BY <1>1, TaskInvInitially, TaskInvPreserved, SlotInit, SlotPreserved, PTL DEF Spec
=============================================================================
