----------------------------- MODULE AsyncAgent ------------------------------
(***************************************************************************)
(* SkyWalkingAgentAsync with the gRPC protocol: host threads hand items to *)
(* the event loop thread, whose root coroutine starts the background       *)
(* tasks, supervises them and cleans up at shutdown.                       *)
(*                                                                         *)
(* On the loop only one coroutine runs at a time, so what lies between two *)
(* awaits is one step; host threads interleave with every step. One of the *)
(* four queues is modelled, with its reporter task; "dispatch" stands for  *)
(* the one background task that may raise (__command_dispatch).            *)
(***************************************************************************)
EXTENDS Integers, Sequences, FiniteSets, Functions

CONSTANTS MaxSize,      \* maxsize of the asyncio.Queue
          MaxItems,     \* bound: items the host archives
          MaxFailures   \* bound: streams that fail

ASSUME AsyncAssumption ==
  MaxSize \in Nat \ {0} /\ MaxItems \in Nat /\ MaxFailures \in Nat

Item == 1 .. MaxItems
Task == {"report", "dispatch"}

(* Callbacks handed to call_soon_threadsafe: the put of an item into the   *)
(* queue, which was None when the host read it too early, or _finished.set *)
PutCall(i, bound) == [item |-> i, bound |-> bound]
FinishCall == [item |-> 0, bound |-> TRUE]

VARIABLES
  thread,      \* event_loop_thread: "none", "run", "dead"
  loop,        \* self.loop: "unset", "open", "closed"
  finished,    \* self._finished: "unset", "clear", "set"
  root,        \* the root coroutine
  calls,       \* callbacks the loop has not run yet
  archived,    \* items handed to the loop so far
  hosts,       \* archive_* calls between is_closed() and call_soon_threadsafe
  stopper,     \* the thread in stop(): "no", "signal", "join", "raised", "stopped"
  queue,       \* the asyncio.Queue
  unfinished,  \* its unfinished tasks
  ready,       \* protocol.is_ready()
  task,        \* the background tasks
  cancelling,  \* tasks that were cancelled and have not seen it yet
  logs,        \* how often the outcome of each task was logged
  batch,       \* items the generator of the current stream has yielded
  ghosts,      \* generators of failed streams still waiting in queue.get()
  unbound,     \* history: items archived before the queue existed
  delivered, dropped, failures

loopVars == <<thread, loop, finished, root>>
hostVars == <<calls, archived, hosts, unbound>>
queueVars == <<queue, unfinished>>
taskVars == <<task, cancelling, logs>>
streamVars == <<batch, ghosts, delivered, failures>>
vars == <<loopVars, hostVars, stopper, queueVars, ready, taskVars, streamVars, dropped>>

Init ==
  /\ thread = "none" /\ loop = "unset" /\ finished = "unset" /\ root = "none"
  /\ calls = <<>> /\ archived = 0 /\ hosts = 0 /\ unbound = {} /\ stopper = "no"
  /\ queue = <<>> /\ unfinished = 0 /\ ready = FALSE
  /\ task = [t \in Task |-> "off"] /\ cancelling = {} /\ logs = [t \in Task |-> 0]
  /\ batch = <<>> /\ ghosts = 0 /\ delivered = {} /\ failures = 0
  /\ dropped = {}

-----------------------------------------------------------------------------
(* Faulty variants for the mutation runs.                                  *)

UnhandledAlways(t) == task[t] = "failed"
YieldedBeforeLast == {batch[i] : i \in 1 .. Len(batch) - 1}
StreamReturnsBatch ==
  batch' = <<>> /\ queue' = batch \o queue /\ unfinished' = unfinished + Len(batch)

RootJoinUntimed ==
  /\ root = "join" /\ unfinished = 0
  /\ root' = "cancel"
  /\ UNCHANGED <<thread, loop, finished, hostVars, stopper, queueVars, ready,
                 taskVars, streamVars, dropped>>

-----------------------------------------------------------------------------
(* start(): the loop runs in a thread of its own.                          *)
Start ==
  /\ thread = "none"
  /\ thread' = "run" /\ root' = "new"
  /\ UNCHANGED <<loop, finished, hostVars, stopper, queueVars, ready, taskVars,
                 streamVars, dropped>>

(* archive_*: reads self.loop (and raises in the host while it is unset)   *)
(* and gives up silently when the loop is closed.                          *)
Archive ==
  /\ thread # "none" /\ loop = "open" /\ hosts + archived < MaxItems
  /\ hosts' = hosts + 1
  /\ UNCHANGED <<loopVars, calls, archived, unbound, stopper, queueVars, ready,
                 taskVars, streamVars, dropped>>

HandOver ==
  /\ hosts > 0 /\ loop = "open"
  /\ hosts' = hosts - 1
  /\ archived' = archived + 1
  /\ calls' = Append(calls, PutCall(archived + 1, finished # "unset"))
  /\ unbound' = IF finished = "unset" THEN unbound \cup {archived + 1} ELSE unbound
  /\ UNCHANGED <<loopVars, stopper, queueVars, ready, taskVars, streamVars, dropped>>

(* The loop was closed since: call_soon_threadsafe raises in the host.     *)
HandOverRaises ==
  /\ hosts > 0 /\ loop = "closed"
  /\ hosts' = hosts - 1
  /\ UNCHANGED <<loopVars, calls, archived, unbound, stopper, queueVars, ready,
                 taskVars, streamVars, dropped>>

(* stop() -> __fini(): asks the loop to finish, if there is one that can be *)
(* asked, and joins the thread with a timeout.                             *)
StopCheck ==
  /\ thread # "none" /\ stopper = "no"
  /\ stopper' = IF loop = "open" /\ finished # "unset" THEN "signal" ELSE "join"
  /\ UNCHANGED <<loopVars, hostVars, queueVars, ready, taskVars, streamVars, dropped>>

StopSignal ==
  /\ stopper = "signal"
  /\ IF loop = "open"
     THEN stopper' = "join" /\ calls' = Append(calls, FinishCall)
     ELSE stopper' = "raised" /\ UNCHANGED calls
  /\ UNCHANGED <<loopVars, archived, hosts, unbound, queueVars, ready, taskVars,
                 streamVars, dropped>>

StopJoin ==
  /\ stopper = "join"
  /\ stopper' = "stopped"
  /\ UNCHANGED <<loopVars, hostVars, queueVars, ready, taskVars, streamVars, dropped>>

-----------------------------------------------------------------------------
(* asyncio.Queue and the drop counter.                                     *)

Full == Len(queue) >= MaxSize

Taken(n) == unfinished' = unfinished - n

CountDropped(S) == dropped' = dropped \cup S

(* The loop runs its next callback: __asyncio_queue_put_nowait, which      *)
(* raises on a queue that is None, or _finished.set.                       *)
RunCallback ==
  /\ loop = "open" /\ calls # <<>>
  /\ calls' = Tail(calls)
  /\ LET c == Head(calls)
     IN \/ /\ c = FinishCall
           /\ finished' = "set"
           /\ UNCHANGED <<queueVars, dropped>>
        \/ /\ c # FinishCall /\ ~c.bound
           /\ UNCHANGED <<finished, queueVars, dropped>>
        \/ /\ c # FinishCall /\ c.bound /\ ~Full
           /\ queue' = Append(queue, c.item) /\ unfinished' = unfinished + 1
           /\ UNCHANGED <<finished, dropped>>
        \/ /\ c # FinishCall /\ c.bound /\ Full
           /\ CountDropped({c.item})
           /\ UNCHANGED <<finished, queueVars>>
  /\ UNCHANGED <<thread, loop, root, archived, hosts, unbound, stopper, ready,
                 taskVars, streamVars>>

(* watch_connectivity and is_ready follow the channel.                     *)
Connectivity ==
  /\ root \in {"serve", "join", "gather"}
  /\ ready' = ~ready
  /\ UNCHANGED <<loopVars, hostVars, stopper, queueVars, taskVars, streamVars, dropped>>

-----------------------------------------------------------------------------
(* The root coroutine.                                                     *)

RootLoop ==
  /\ root = "new"
  /\ loop' = "open" /\ root' = "create"
  /\ UNCHANGED <<thread, finished, hostVars, stopper, queueVars, ready, taskVars,
                 streamVars, dropped>>

(* The queues and the Event are created after self.loop is set.            *)
RootCreate ==
  /\ root = "create"
  /\ finished' = "clear" /\ root' = "boot"
  /\ UNCHANGED <<thread, loop, hostVars, stopper, queueVars, ready, taskVars,
                 streamVars, dropped>>

(* __bootstrap and create_task; a protocol that cannot be built raises out *)
(* of asyncio.run.                                                         *)
RootBoot ==
  /\ root = "boot"
  /\ \/ /\ root' = "serve"
        /\ task' = [t \in Task |-> "run"]
     \/ root' = "end" /\ UNCHANGED task
  /\ UNCHANGED <<thread, loop, finished, hostVars, stopper, queueVars, ready,
                 cancelling, logs, streamVars, dropped>>

(* _log_background_task_outcome: once, if the task raised.                 *)
Unhandled(t) == task[t] = "failed" /\ logs[t] = 0

Logged == [t \in Task |-> IF Unhandled(t) THEN logs[t] + 1 ELSE logs[t]]

(* A background task ended although nobody asked for it.                   *)
Supervised == \E t \in Task : task[t] = "failed"

(* _await_shutdown_or_background_failure returns.                          *)
RootWake ==
  /\ root = "serve"
  /\ \/ finished = "set" /\ UNCHANGED <<finished, logs>>
     \/ finished # "set" /\ Supervised /\ finished' = "set" /\ logs' = Logged
  /\ root' = "abandon"
  /\ UNCHANGED <<thread, loop, hostVars, stopper, queueVars, ready, task,
                 cancelling, streamVars, dropped>>

(* _shutdown_async_queue: drop and count what is queued ...                *)
RootAbandon ==
  /\ root = "abandon"
  /\ queue' = <<>> /\ Taken(Len(queue))
  /\ CountDropped(Range(queue))
  /\ root' = "join"
  /\ UNCHANGED <<thread, loop, finished, hostVars, stopper, ready, taskVars, streamVars>>

(* ... then join() it: until all is done or two seconds have passed.       *)
RootJoin ==
  /\ root = "join"
  /\ root' = "cancel"
  /\ UNCHANGED <<thread, loop, finished, hostVars, stopper, queueVars, ready,
                 taskVars, streamVars, dropped>>

(* _cancel_pending_tasks cancels what still runs and waits, again timed.   *)
Running(t) == task[t] \in {"run", "stream"}

RootCancel ==
  /\ root = "cancel"
  /\ logs' = Logged
  /\ cancelling' = {t \in Task : Running(t)}
  /\ root' = "gather"
  /\ UNCHANGED <<thread, loop, finished, hostVars, stopper, queueVars, ready, task,
                 streamVars, dropped>>

RootGathered ==
  /\ root = "gather"
  /\ root' = "close"
  /\ UNCHANGED <<thread, loop, finished, hostVars, stopper, queueVars, ready,
                 taskVars, streamVars, dropped>>

(* protocol.aclose()                                                       *)
RootClose ==
  /\ root = "close"
  /\ root' = "end"
  /\ UNCHANGED <<thread, loop, finished, hostVars, stopper, queueVars, ready,
                 taskVars, streamVars, dropped>>

(* A stream ends early: the OAP received some prefix of what was yielded.  *)
ReceivedPrefix ==
  \E k \in 0 .. Len(batch) : delivered' = delivered \cup {batch[i] : i \in 1 .. k}

(* The end of asyncio.run: remaining tasks are cancelled, the loop is      *)
(* closed with the callbacks it has not run, and the thread ends.          *)
RunnerEnds ==
  /\ root = "end" /\ thread = "run"
  /\ thread' = "dead" /\ loop' = "closed" /\ finished' = "set" /\ calls' = <<>>
  /\ task' = [t \in Task |-> IF Running(t) THEN "cancelled" ELSE task[t]]
  /\ cancelling' = {} /\ ghosts' = 0
  /\ ReceivedPrefix /\ batch' = <<>>
  /\ UNCHANGED <<root, archived, hosts, unbound, stopper, queueVars, ready, logs,
                 failures, dropped>>

-----------------------------------------------------------------------------
(* The background tasks.                                                   *)
TaskFrame == UNCHANGED <<loopVars, hostVars, stopper, ready, cancelling, logs>>

(* A turn of report_with_backoff_async: leave once _finished is set, open  *)
(* a stream if the channel is READY and something is queued, else wait.    *)
ReporterExit ==
  /\ task["report"] = "run" /\ "report" \notin cancelling /\ finished = "set"
  /\ task' = [task EXCEPT !["report"] = "done"]
  /\ TaskFrame /\ UNCHANGED <<queueVars, streamVars, dropped>>

ReporterOpen ==
  /\ task["report"] = "run" /\ "report" \notin cancelling /\ finished # "set"
  /\ ready /\ queue # <<>>
  /\ task' = [task EXCEPT !["report"] = "stream"]
  /\ TaskFrame /\ UNCHANGED <<queueVars, streamVars, dropped>>

(* The generator: get(), task_done(), sent += 1, yield, without an await   *)
(* in between; its get() is not timed.                                     *)
GeneratorYields ==
  /\ task["report"] = "stream" /\ queue # <<>> /\ root # "end"
  /\ queue' = Tail(queue) /\ Taken(1)
  /\ batch' = Append(batch, Head(queue))
  /\ TaskFrame /\ UNCHANGED <<task, ghosts, delivered, failures, dropped>>

(* The items behind the sent counter.                                      *)
Yielded == Range(batch)

StreamReturns == batch' = <<>> /\ UNCHANGED queueVars

(* grpc.RpcError: everything the stream carried is counted as dropped; the *)
(* generator may be left waiting in get().                                 *)
StreamFails ==
  /\ task["report"] = "stream" /\ "report" \notin cancelling
  /\ failures < MaxFailures
  /\ failures' = failures + 1
  /\ ReceivedPrefix
  /\ CountDropped(Yielded)
  /\ ghosts' \in {ghosts, ghosts + 1}
  /\ StreamReturns
  /\ task' = [task EXCEPT !["report"] = "run"]
  /\ TaskFrame

(* A generator left behind takes one item, whose write then fails.         *)
GhostTakes ==
  /\ ghosts > 0 /\ queue # <<>> /\ loop = "open"
  /\ ghosts' = ghosts - 1
  /\ queue' = Tail(queue) /\ Taken(1)
  /\ TaskFrame /\ UNCHANGED <<task, batch, delivered, failures, dropped>>

(* command_service_async.dispatch() raises.                                *)
DispatchFails ==
  /\ task["dispatch"] = "run" /\ "dispatch" \notin cancelling
  /\ task' = [task EXCEPT !["dispatch"] = "failed"]
  /\ TaskFrame /\ UNCHANGED <<queueVars, streamVars, dropped>>

(* CancelledError reaches the task; it passes every except clause of the   *)
(* reporter, so a stream's items are not counted.                          *)
TaskCancelled(t) ==
  /\ t \in cancelling
  /\ cancelling' = cancelling \ {t}
  /\ task' = [task EXCEPT ![t] = "cancelled"]
  /\ IF task[t] = "stream"
     THEN ReceivedPrefix /\ batch' = <<>> /\ UNCHANGED <<ghosts, failures>>
     ELSE UNCHANGED streamVars
  /\ UNCHANGED <<loopVars, hostVars, stopper, queueVars, ready, logs, dropped>>

-----------------------------------------------------------------------------
Host == Start \/ Archive \/ HandOver \/ HandOverRaises \/ StopCheck \/ StopSignal \/ StopJoin
Root == \/ RootLoop \/ RootCreate \/ RootBoot \/ RootWake \/ RootAbandon \/ RootJoin
        \/ RootCancel \/ RootGathered \/ RootClose \/ RunnerEnds
Tasks == \/ ReporterExit \/ ReporterOpen \/ GeneratorYields \/ StreamFails \/ GhostTakes
         \/ DispatchFails \/ \E t \in Task : TaskCancelled(t)

Next == Host \/ RunCallback \/ Connectivity \/ Root \/ Tasks

(* The loop runs what is ready in FIFO order, so neither its callbacks nor *)
(* the root coroutine starve; both waits of the cleanup are timed. Nothing *)
(* is assumed of the host, the channel, the streams and the tasks.         *)
Spec == Init /\ [][Next]_vars /\ WF_vars(RunCallback) /\ WF_vars(Root)

-----------------------------------------------------------------------------
(* Properties.                                                             *)

Waiting == {calls[i].item : i \in DOMAIN calls} \ {0}
Pending == Waiting \cup Range(queue) \cup Range(batch)
Settled == delivered \cup dropped
Silent == (1 .. archived) \ (Pending \cup Settled)

(* The host's view: an item handed to the loop is delivered or lost once   *)
(* and never comes back, also when a stream breaks or the loop closes.     *)
Abstract == INSTANCE LossyChannel WITH
  accepted <- archived, pending <- Pending,
  lost <- (1 .. archived) \ (Pending \cup delivered)

BestEffortAtMostOnce == Abstract!Spec

(* A running agent loses without counting at most one item per failed      *)
(* stream, besides those archived before the queue existed.                *)
SilentLossBound ==
  root \in {"boot", "serve", "abandon"} => Cardinality(Silent \ unbound) <= failures

(* A background failure is logged exactly once, by the supervisor or, if   *)
(* it came during the shutdown, by the cleanup.                            *)
FailureLoggedOnce ==
  \A t \in Task :
    /\ logs[t] <= 1
    /\ root \in {"gather", "close", "end"} /\ task[t] = "failed" => logs[t] = 1

(* The loop is not wedged: a stop() that could reach it ends it, and so    *)
(* does a background task that fails ("Background tasks are expected to    *)
(* run until shutdown"), although the streams never end, the host goes on  *)
(* archiving and tasks are slow to see their cancel.                       *)
LoopEnds ==
  (FinishCall \in Range(calls) \/ task["dispatch"] = "failed") ~> (thread = "dead")
=============================================================================
