------------------------------ MODULE Profiling ------------------------------
(***************************************************************************)
(* Trace profiling with threads: ProfileTaskExecutionService accepts,      *)
(* starts and stops tasks, ProfileTaskExecutionContext hands its slots to  *)
(* traces, and one profiling thread per task takes the snapshots.          *)
(*                                                                         *)
(* Actors: the dispatch thread (CommandService), the timers that start and *)
(* stop tasks, the profiling threads, and the host thread of every trace,  *)
(* which asks for a slot when its entry span opens and again when a plugin *)
(* renames that span. Time is abstract: timers fire in any order.          *)
(***************************************************************************)
EXTENDS CommandService

CONSTANTS Trace,        \* trace contexts, each in a host thread
          WellFormed,   \* serials whose task passes the attribute checks
          StartTime,    \* [Serial -> Nat]: start_time of the tasks
          FinishTime,   \* [Serial -> Nat]: start_time + duration
          MaxParallel,  \* agent_profile_max_parallel
          MaxSamples,   \* max_sampling_count of the tasks
          MaxTasks      \* bound: tasks accepted

ASSUME ProfilingAssumption ==
  /\ WellFormed \subseteq Serial /\ MaxParallel \in Nat \ {0}
  /\ MaxSamples \in Nat \ {0} /\ MaxTasks \in Nat
  /\ StartTime \in [Serial -> Nat] /\ FinishTime \in [Serial -> Nat]

VARIABLES
  tasks,      \* accepted ProfileTask objects, by number: their serial
  taskList,   \* _profile_task_list (its order is never used): task numbers
  toStart,    \* tasks whose start timer is pending
  toStop,     \* tasks whose stop timer is pending
  current,    \* task_execution_context: a task number, or NoTask
  rlock,      \* the task that holds _rlock between its two steps
  finished,   \* how often the finish of each task was reported
  stopEvent,  \* tasks whose profiling thread was told to stop
  worker,     \* the profiling thread of each task
  slots,      \* profiling_segment_slots of each task
  count,      \* _current_profiling_cnt of each task
  total,      \* _total_started_profiling_cnt of each task
  trace       \* the traces

taskVars == <<tasks, taskList, toStart, toStop, current, rlock, finished, stopEvent>>
slotVars == <<worker, slots, count, total>>
vars == <<commandVars, taskVars, slotVars, trace>>

NoTask == 0
TaskNo == 1 .. MaxTasks
Slot == 1 .. MaxParallel
NoTrace == "none"
ASSUME TraceAssumption == NoTrace \notin Trace

(* A profiling thread: where it is in its pass over the slots.             *)
Worker(pc, at) == [pc |-> pc, at |-> at]

(* A trace: the step of its host thread in attempt_profiling for a task,   *)
(* the count it read, the next slot it tries; whether profile_status is    *)
(* set (bound), its value and the value a recheck read; whether a snapshot *)
(* was taken and its thread lives.                                         *)
NewTrace == [pc |-> "new", task |-> NoTask, seen |-> 0, at |-> 1,
             bound |-> FALSE, status |-> "NONE", saved |-> "NONE", dumped |-> FALSE, alive |-> TRUE]

Init ==
  /\ CommandInit
  /\ tasks = <<>> /\ taskList = {} /\ toStart = {} /\ toStop = {}
  /\ current = NoTask /\ rlock = NoTask /\ stopEvent = {}
  /\ finished = [n \in TaskNo |-> 0]
  /\ worker = [n \in TaskNo |-> Worker("none", 1)]
  /\ slots = [n \in TaskNo |-> [i \in Slot |-> NoTrace]]
  /\ count = [n \in TaskNo |-> 0] /\ total = [n \in TaskNo |-> 0]
  /\ trace = [r \in Trace |-> NewTrace]

-----------------------------------------------------------------------------
(* Faulty variants for the mutation runs.                                  *)

MayClaimStale(n, seen) == seen < MaxParallel
IsCurrentAlways(n) == n # NoTask
StartProfileableOffByOne(n) == total[n] <= MaxSamples
StopsPreviousNever == NoTask

-----------------------------------------------------------------------------
(* _check_profile_task, the overlap test included: it rejects a task that  *)
(* would finish before some accepted task does.                            *)
Acceptable(s) ==
  /\ s \in WellFormed
  /\ \A n \in taskList :
       ~(StartTime[s] <= FinishTime[s] /\ FinishTime[s] <= FinishTime[tasks[n]])

(* The dispatch thread executes a command: add_profile_task.               *)
AddProfileTask ==
  /\ DispatchExecuted
  /\ Acceptable(dispatching) => Len(tasks) < MaxTasks
  /\ LET n == Len(tasks) + 1
     IN IF Acceptable(dispatching)
        THEN /\ tasks' = Append(tasks, dispatching)
             /\ taskList' = taskList \cup {n}
             /\ toStart' = toStart \cup {n}
        ELSE UNCHANGED <<tasks, taskList, toStart>>
  /\ UNCHANGED <<toStop, current, rlock, finished, stopEvent, slotVars, trace>>

(* compare_and_set(need_stop, None)                                        *)
IsCurrent(n) == n # NoTask /\ current = n

(* stop_current_profile_task(n): a no-op unless n is the current task.     *)
StopTask(n) ==
  IF IsCurrent(n)
  THEN /\ current' = NoTask
       /\ stopEvent' = stopEvent \cup {n}
       /\ taskList' = taskList \ {n}
       /\ finished' = [finished EXCEPT ![n] = @ + 1]
  ELSE UNCHANGED <<current, stopEvent, taskList, finished>>

(* "make sure prev profile task already stopped"                           *)
StopsPrevious == current

(* process_profile_task: the start timer of n stops the previous task ...  *)
ProcessTask(n) ==
  /\ n \in toStart /\ rlock = NoTask
  /\ toStart' = toStart \ {n}
  /\ rlock' = n
  /\ StopTask(StopsPrevious)
  /\ UNCHANGED <<commandVars, tasks, toStop, slotVars, trace>>

(* ... and installs n, its profiling thread, which starts with the check   *)
(* of the stop event, and its stop timer.                                  *)
StartTask(n) ==
  /\ rlock = n /\ n # NoTask
  /\ current' = n
  /\ worker' = [worker EXCEPT ![n] = Worker("loop", MaxParallel + 1)]
  /\ toStop' = toStop \cup {n}
  /\ rlock' = NoTask
  /\ UNCHANGED <<commandVars, tasks, taskList, toStart, finished, stopEvent,
                 slots, count, total, trace>>

StopTimerFires(n) ==
  /\ n \in toStop /\ rlock = NoTask
  /\ toStop' = toStop \ {n}
  /\ StopTask(n)
  /\ UNCHANGED <<commandVars, tasks, toStart, rlock, slotVars, trace>>

-----------------------------------------------------------------------------
(* A host thread in attempt_profiling. First the checks that need no slot: *)
(* a free slot, the operation name, the sampling count.                    *)
HostFrame == UNCHANGED <<commandVars, taskVars, worker, total>>

Reached(r, pc) == trace[r].pc = pc /\ trace[r].alive

(* add_profiling on the first entry span, profiling_recheck after a rename *)
(* of it while the status is still NONE.                                   *)
Asks(r) == \/ Reached(r, "new")
           \/ Reached(r, "done") /\ trace[r].status = "NONE"

Attempt(r) ==
  /\ Asks(r) /\ current # NoTask
  /\ IF count[current] < MaxParallel /\ total[current] <= MaxSamples
     THEN trace' = [trace EXCEPT ![r].pc = "claim", ![r].task = current,
                                 ![r].seen = count[current]]
     ELSE trace' = [trace EXCEPT ![r].pc = "done", ![r].bound = TRUE]
  /\ HostFrame /\ UNCHANGED <<slots, count>>

(* No task, or an operation name no task asks for.                         *)
NotProfiled(r) ==
  /\ Reached(r, "new")
  /\ trace' = [trace EXCEPT ![r].pc = "done", ![r].bound = TRUE]
  /\ HostFrame /\ UNCHANGED <<slots, count>>

(* compare_and_set on the number of slots in use.                          *)
MayClaim(n, seen) == count[n] = seen

Claim(r) ==
  /\ Reached(r, "claim")
  /\ LET n == trace[r].task
     IN IF MayClaim(n, trace[r].seen)
        THEN /\ count' = [count EXCEPT ![n] = trace[r].seen + 1]
             /\ trace' = [trace EXCEPT ![r].pc = "occupy", ![r].at = 1,
                                       ![r].status = "PENDING"]
        ELSE /\ trace' = [trace EXCEPT ![r].pc = "done", ![r].bound = TRUE]
             /\ UNCHANGED count
  /\ HostFrame /\ UNCHANGED slots

(* The slots are tried in order, each with its own compare_and_set.        *)
Occupy(r) ==
  /\ Reached(r, "occupy") /\ trace[r].at \in Slot
  /\ LET n == trace[r].task
         i == trace[r].at
     IN IF slots[n][i] = NoTrace
        THEN /\ slots' = [slots EXCEPT ![n][i] = r]
             /\ trace' = [trace EXCEPT ![r].pc = "bind"]
        ELSE /\ trace' = [trace EXCEPT ![r].at = i + 1]
             /\ UNCHANGED slots
  /\ HostFrame /\ UNCHANGED count

(* new_entry_span stores the reference as profile_status; a recheck, which *)
(* has it already, reads its value ...                                     *)
Bind(r) ==
  /\ Reached(r, "bind")
  /\ trace' = IF trace[r].bound
              THEN [trace EXCEPT ![r].pc = "update", ![r].saved = trace[r].status]
              ELSE [trace EXCEPT ![r].pc = "done", ![r].bound = TRUE]
  /\ HostFrame /\ UNCHANGED <<slots, count>>

(* ... and writes it back, stale or not.                                   *)
Update(r) ==
  /\ Reached(r, "update")
  /\ trace' = [trace EXCEPT ![r].pc = "done", ![r].status = trace[r].saved]
  /\ HostFrame /\ UNCHANGED <<slots, count>>

(* The host thread ends.                                                   *)
HostEnds(r) ==
  /\ Reached(r, "done")
  /\ trace' = [trace EXCEPT ![r].alive = FALSE]
  /\ HostFrame /\ UNCHANGED <<slots, count>>

-----------------------------------------------------------------------------
(* A profiling thread visits its slots one by one.                         *)
At(n) == slots[n][worker[n].at]
Visits(n) == worker[n].pc = "loop" /\ worker[n].at \in Slot
Advanced(n) == [worker EXCEPT ![n].at = @ + 1]
WorkerFrame == UNCHANGED <<commandVars, taskVars>>

(* An empty slot, or a trace younger than min_duration_threshold.          *)
Skip(n) ==
  /\ Visits(n)
  /\ At(n) # NoTrace => trace[At(n)].status # "PROFILING"
  /\ worker' = Advanced(n)
  /\ WorkerFrame /\ UNCHANGED <<slots, count, total, trace>>

(* start_profiling_if_need: goes through trace_context.profile_status; if  *)
(* the host has not stored it yet this raises and ends the thread.         *)
Promote(n) ==
  /\ Visits(n) /\ At(n) # NoTrace /\ trace[At(n)].status = "PENDING"
  /\ IF trace[At(n)].bound
     THEN /\ trace' = [trace EXCEPT ![At(n)].status = "PROFILING"]
          /\ worker' = Advanced(n)
     ELSE /\ worker' = [worker EXCEPT ![n].pc = "failed"]
          /\ UNCHANGED trace
  /\ WorkerFrame /\ UNCHANGED <<slots, count, total>>

(* is_start_profileable on the first snapshot of a trace.                  *)
StartProfileable(n) == total[n] + 1 <= MaxSamples

Dumps(n) == /\ Visits(n) /\ At(n) # NoTrace /\ trace[At(n)].status = "PROFILING"

Counted(n) == [total EXCEPT ![n] = @ + 1]

Snapshot(n) ==
  /\ Dumps(n) /\ trace[At(n)].alive
  /\ trace[At(n)].dumped \/ StartProfileable(n)
  /\ total' = IF trace[At(n)].dumped THEN total ELSE Counted(n)
  /\ trace' = [trace EXCEPT ![At(n)].dumped = TRUE]
  /\ worker' = Advanced(n)
  /\ WorkerFrame /\ UNCHANGED <<slots, count>>

(* No snapshot: stop_tracing_profile empties the slot ...                  *)
StopTracing(n) ==
  /\ Dumps(n)
  /\ \/ ~trace[At(n)].alive /\ UNCHANGED total
     \/ /\ trace[At(n)].alive /\ ~trace[At(n)].dumped /\ ~StartProfileable(n)
        /\ total' = Counted(n)
  /\ slots' = [slots EXCEPT ![n][worker[n].at] = NoTrace]
  /\ trace' = [trace EXCEPT ![At(n)].status = "STOPPED"]
  /\ worker' = [worker EXCEPT ![n].pc = "release"]
  /\ WorkerFrame /\ UNCHANGED count

Released(n) == count[n] - 1

(* ... and then gives the count back.                                      *)
Release(n) ==
  /\ worker[n].pc = "release"
  /\ count' = [count EXCEPT ![n] = Released(n)]
  /\ worker' = [worker EXCEPT ![n] = Worker("loop", worker[n].at + 1)]
  /\ WorkerFrame /\ UNCHANGED <<slots, total, trace>>

(* Before a pass: the loop ends once the stop event is set.                *)
NextPass(n) ==
  /\ worker[n].pc = "loop" /\ worker[n].at = MaxParallel + 1
  /\ worker' = [worker EXCEPT ![n] = Worker(IF n \in stopEvent THEN "ending" ELSE "loop", 1)]
  /\ WorkerFrame /\ UNCHANGED <<slots, count, total, trace>>

(* The finally clause of ProfileThread.start.                              *)
WorkerEnds(n) ==
  /\ worker[n].pc \in {"ending", "failed"} /\ rlock = NoTask
  /\ StopTask(n)
  /\ worker' = [worker EXCEPT ![n].pc = "done"]
  /\ UNCHANGED <<commandVars, tasks, toStart, toStop, rlock, slots, count, total, trace>>

-----------------------------------------------------------------------------
Frame == UNCHANGED <<taskVars, slotVars, trace>>

Host(r) == Attempt(r) \/ NotProfiled(r) \/ Claim(r) \/ Occupy(r) \/ Bind(r)
           \/ Update(r) \/ HostEnds(r)
Timers(n) == ProcessTask(n) \/ StartTask(n) \/ StopTimerFires(n)
Profile(n) == \/ Skip(n) \/ Promote(n) \/ Snapshot(n) \/ StopTracing(n)
              \/ Release(n) \/ NextPass(n) \/ WorkerEnds(n)

Next == \/ \E s \in Serial : Receive(s) /\ Frame
        \/ DispatchGet /\ Frame
        \/ AddProfileTask
        \/ \E n \in TaskNo : Timers(n) \/ Profile(n)
        \/ \E r \in Trace : Host(r)

Spec == Init /\ [][Next]_vars

-----------------------------------------------------------------------------
(* Properties.                                                             *)

Occupied(n) == {i \in Slot : slots[n][i] # NoTrace}
Claiming(n) == {r \in Trace : trace[r].pc = "occupy" /\ trace[r].task = n}

(* No slot is leaked or handed out twice: the count is the occupied slots  *)
(* plus the claims and the release under way, and a trace holds one slot.  *)
(* So a host thread that won a claim finds a free slot, although slots are *)
(* tried one at a time while others come and go.                           *)
SlotAccounting ==
  /\ \A n \in TaskNo :
       /\ count[n] = Cardinality(Occupied(n)) + Cardinality(Claiming(n))
                       + (IF worker[n].pc = "release" THEN 1 ELSE 0)
       /\ \A i, j \in Occupied(n) : slots[n][i] = slots[n][j] => i = j
  /\ \A r \in Trace : trace[r].pc = "occupy" => trace[r].at \in Slot

(* No more traces of a task are sampled than its max_sampling_count.       *)
SamplingBound ==
  \A n \in TaskNo : Cardinality({r \in Trace : trace[r].dumped /\ trace[r].task = n}) <= MaxSamples

(* The stop timer, the next task and the profiling thread's own finally    *)
(* clause race to stop a task: it is reported finished once, and then it   *)
(* is neither current nor listed and its thread was told to stop.          *)
FinishedOnce ==
  \A n \in TaskNo : finished[n] > 0 =>
    finished[n] = 1 /\ current # n /\ n \notin taskList /\ n \in stopEvent

(* Two tasks never profile at once: a thread that was not told to stop     *)
(* belongs to the current task.                                            *)
OneTaskAtATime ==
  \A n \in TaskNo : worker[n].pc \in {"loop", "release"} /\ n \notin stopEvent => current = n

(* Not true of this code, see the README:                                  *)
(* "the profiling thread can fetch the complete profiling info": it does   *)
(* not fail while it profiles a request.                                   *)
ProfilingThreadSurvives == \A n \in TaskNo : worker[n].pc # "failed"
=============================================================================
