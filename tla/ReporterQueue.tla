---------------------------- MODULE ReporterQueue ----------------------------
(***************************************************************************)
(* One telemetry queue of the synchronous agent, from the host thread that *)
(* archives an item to the gRPC stream that carries it to the OAP, and the *)
(* shutdown of the agent racing all of it.                                 *)
(*                                                                         *)
(* The agent keeps four such queues (segment, log, meter, snapshot); they  *)
(* have the same archive_* method, the same report_* generator and the     *)
(* same shutdown routine, and share nothing but _finished and the channel. *)
(*                                                                         *)
(* Threads: host threads (Put, PutFull), the reporter thread (variable     *)
(* loop), the thread that runs stop() (fini), the daemon thread that       *)
(* flushes at shutdown (flush) and, for every RPC, the gRPC thread that    *)
(* consumes the request generator (gen[n]).                                *)
(***************************************************************************)
EXTENDS Integers, Sequences, FiniteSets, Functions

CONSTANTS MaxSize,      \* maxsize of the queue
          MaxItems,     \* bound: items the host archives
          MaxFailures   \* bound: RPCs that fail before the channel is closed

ASSUME BoundsAssumption ==
  /\ MaxSize \in Nat \ {0}
  /\ MaxItems \in Nat
  /\ MaxFailures \in Nat

(***************************************************************************)
(* Items are numbered in the order in which archive_* is called.           *)
(* Call slots: one per thread that may report, one per failed RPC whose    *)
(* generator thread is still running.                                      *)
(***************************************************************************)
Item == 1 .. MaxItems
Call == 1 .. (MaxFailures + 2)
Caller == {"loop", "flush"}
NoItem == 0

VARIABLES
  queue,       \* the queue.Queue: items put and not yet taken by get()
  unfinished,  \* its unfinished_tasks
  archived,    \* number of items archived so far
  reporting,   \* self.__reporting
  finished,    \* self._finished is set
  ready,       \* the watched channel state is READY
  closed,      \* protocol.close() has closed the channel
  loop,        \* reporter thread: "top", "report", "rpc", "exit"
  call,        \* who waits for RPC n: "free", a Caller, or "orphan"
  gen,         \* generator thread of RPC n: "off", "get", "got"
  held,        \* item of RPC n between get() and task_done()
  batch,       \* items the generator of RPC n has yielded (its sent counter)
  fini,        \* shutdown thread
  maySend,     \* may_send of __fini
  flush,       \* flush thread: "off", "report", "rpc", "done"
  abandoned,   \* items taken by _abandon_sync_queue, not yet logged
  delivered,   \* items the OAP has received
  dropped,     \* items passed to log_dropped_throttled
  counted,     \* sum of the counts passed to log_dropped_throttled
  late,        \* items taken by a generator whose RPC had already failed
  failures     \* number of failed RPCs

queueVars == <<queue, unfinished, archived>>
chanVars  == <<ready, closed>>
callVars  == <<call, gen, held, batch>>
finiVars  == <<fini, maySend, abandoned>>
fateVars  == <<delivered, dropped, counted, late, failures>>
vars == <<queueVars, reporting, finished, chanVars, loop, callVars, finiVars,
          flush, fateVars>>

LoopStates == {"top", "report", "rpc", "exit"}
FlushStates == {"off", "report", "rpc", "done"}
FiniStates == {"none", "drain", "flush", "abandon", "join", "close",
               "closed", "stopped"}

Init ==
  /\ queue = <<>> /\ unfinished = 0 /\ archived = 0
  /\ reporting = TRUE /\ finished = FALSE
  /\ ready = FALSE /\ closed = FALSE
  /\ loop = "top" /\ flush = "off"
  /\ call = [n \in Call |-> "free"]
  /\ gen = [n \in Call |-> "off"]
  /\ held = [n \in Call |-> NoItem]
  /\ batch = [n \in Call |-> <<>>]
  /\ fini = "none" /\ maySend = FALSE /\ abandoned = {}
  /\ delivered = {} /\ dropped = {} /\ counted = 0 /\ late = {}
  /\ failures = 0

-----------------------------------------------------------------------------
(* Faulty variants, substituted for the definitions they are named after   *)
(* to show that the properties can fail.                                   *)

QueueFullOffByOne == Len(queue) > MaxSize
TaskDoneForgotten == UNCHANGED unfinished
SentBeforeLast(n) == {batch[n][i] : i \in 1 .. Len(batch[n]) - 1}
BatchEndsOnFirstGet(n) == TRUE

FiniJoinUntimed ==
  /\ fini = "join" /\ unfinished = 0
  /\ fini' = "close"
  /\ UNCHANGED <<queueVars, reporting, finished, chanVars, loop, callVars,
                 maySend, abandoned, flush, fateVars>>

RpcFailRequeues(n) ==
  /\ call[n] \in Caller /\ gen[n] = "off" /\ failures < MaxFailures
  /\ \E k \in 0 .. Len(batch[n]) :
       delivered' = delivered \cup {batch[n][i] : i \in 1 .. k}
  /\ queue' = batch[n] \o queue
  /\ unfinished' = unfinished + Len(batch[n])
  /\ failures' = failures + 1
  /\ call' = [call EXCEPT ![n] = "free"]
  /\ batch' = [batch EXCEPT ![n] = <<>>]
  /\ loop' = "top"
  /\ UNCHANGED <<archived, reporting, finished, chanVars, gen, held, finiVars,
                 flush, dropped, counted, late>>

-----------------------------------------------------------------------------
(* Operations of queue.Queue and of the drop counter.                      *)

QueueFull == Len(queue) >= MaxSize
PutItem(i) == Append(queue, i)
TaskDone == unfinished' = unfinished - 1

(* log_dropped_throttled(kind, count) for the items of S.                  *)
CountDropped(S) ==
  /\ dropped' = dropped \cup S
  /\ counted' = counted + Cardinality(S)

-----------------------------------------------------------------------------
(* Host threads: archive_segment, archive_log, archive_meter and           *)
(* add_profiling_snapshot. Queue.put(block=False) is atomic; a full queue  *)
(* drops the item and counts it.                                           *)

Put ==
  /\ reporting /\ archived < MaxItems /\ ~QueueFull
  /\ archived' = archived + 1
  /\ queue' = PutItem(archived + 1)
  /\ unfinished' = unfinished + 1
  /\ UNCHANGED <<reporting, finished, chanVars, loop, callVars, finiVars,
                 flush, fateVars>>

PutFull ==
  /\ reporting /\ archived < MaxItems /\ QueueFull
  /\ archived' = archived + 1
  /\ CountDropped({archived + 1})
  /\ UNCHANGED <<queue, unfinished, reporting, finished, chanVars, loop,
                 callVars, finiVars, flush, delivered, late, failures>>

(* The connectivity callback moves the watched state to or from READY;     *)
(* close() unsubscribes it.                                                *)
Connectivity ==
  /\ ~closed
  /\ ready' = ~ready
  /\ UNCHANGED <<queueVars, reporting, finished, closed, loop, callVars,
                 finiVars, flush, fateVars>>

-----------------------------------------------------------------------------
(* The reporter loop and the RPC it makes.                                 *)

(* One turn of report_with_backoff that finds a READY channel and a        *)
(* non-empty queue; the other turns only wait.                             *)
LoopPoll ==
  /\ loop = "top" /\ ~finished
  /\ ready /\ queue # <<>>
  /\ loop' = "report"
  /\ UNCHANGED <<queueVars, reporting, finished, chanVars, callVars, finiVars,
                 flush, fateVars>>

LoopExit ==
  /\ loop = "top" /\ finished
  /\ loop' = "exit"
  /\ UNCHANGED <<queueVars, reporting, finished, chanVars, callVars, finiVars,
                 flush, fateVars>>

(* The stub starts the RPC and a thread that consumes the generator.       *)
OpenCall(c) ==
  \E n \in Call :
    /\ call[n] = "free"
    /\ call' = [call EXCEPT ![n] = c]
    /\ gen' = [gen EXCEPT ![n] = "get"]
    /\ UNCHANGED <<held, batch>>

(* report_* of the protocol re-checks is_ready() before it touches the     *)
(* queue; on a closed channel the stub raises before the generator runs.   *)
MayOpen == ready /\ ~closed

LoopReport ==
  /\ loop = "report"
  /\ \/ MayOpen /\ OpenCall("loop") /\ loop' = "rpc"
     \/ ~MayOpen /\ loop' = "top" /\ UNCHANGED callVars
  /\ UNCHANGED <<queueVars, reporting, finished, chanVars, finiVars, flush,
                 fateVars>>

FlushReport ==
  /\ flush = "report"
  /\ \/ MayOpen /\ OpenCall("flush") /\ flush' = "rpc"
     \/ ~MayOpen /\ flush' = "done" /\ UNCHANGED callVars
  /\ UNCHANGED <<queueVars, reporting, finished, chanVars, loop, finiVars,
                 fateVars>>

(* queue.get() inside _queue_get_within_batch returns an item.             *)
GenGet(n) ==
  /\ gen[n] = "get" /\ queue # <<>>
  /\ queue' = Tail(queue)
  /\ held' = [held EXCEPT ![n] = Head(queue)]
  /\ gen' = [gen EXCEPT ![n] = "got"]
  /\ UNCHANGED <<unfinished, archived, reporting, finished, chanVars, loop,
                 call, batch, finiVars, flush, fateVars>>

(* task_done(), sent += 1, yield. If the RPC has failed meanwhile, the     *)
(* gRPC thread throws the yielded item away and ends.                      *)
GenDone(n) ==
  /\ gen[n] = "got"
  /\ TaskDone
  /\ held' = [held EXCEPT ![n] = NoItem]
  /\ IF call[n] = "orphan"
     THEN /\ late' = late \cup {held[n]}
          /\ call' = [call EXCEPT ![n] = "free"]
          /\ gen' = [gen EXCEPT ![n] = "off"]
          /\ batch' = [batch EXCEPT ![n] = <<>>]
     ELSE /\ batch' = [batch EXCEPT ![n] = Append(@, held[n])]
          /\ gen' = [gen EXCEPT ![n] = "get"]
          /\ UNCHANGED <<call, late>>
  /\ UNCHANGED <<queue, archived, reporting, finished, chanVars, loop,
                 finiVars, flush, delivered, dropped, counted, failures>>

(* _queue_get_within_batch returns None: the queue stayed empty or the     *)
(* batch window closed. The window never ends the first get               *)
(* (allow_immediate), so a batch that found an item holds one.             *)
BatchEnds(n) == queue = <<>> \/ batch[n] # <<>>

GenEnd(n) ==
  /\ gen[n] = "get" /\ BatchEnds(n)
  /\ gen' = [gen EXCEPT ![n] = "off"]
  /\ IF call[n] = "orphan"
     THEN /\ call' = [call EXCEPT ![n] = "free"]
          /\ batch' = [batch EXCEPT ![n] = <<>>]
     ELSE UNCHANGED <<call, batch>>
  /\ UNCHANGED <<queueVars, reporting, finished, chanVars, loop, held,
                 finiVars, flush, fateVars>>

(* The items behind the sent counter of the generator.                     *)
Sent(n) == Range(batch[n])

(* report_*() returns or raises: its caller goes on.                       *)
Return(c) ==
  /\ loop' = IF c = "loop" THEN "top" ELSE loop
  /\ flush' = IF c = "flush" THEN "done" ELSE flush

(* The stream was half-closed and the OAP answered OK.                     *)
RpcOk(n) ==
  /\ call[n] \in Caller /\ gen[n] = "off"
  /\ delivered' = delivered \cup Sent(n)
  /\ call' = [call EXCEPT ![n] = "free"]
  /\ batch' = [batch EXCEPT ![n] = <<>>]
  /\ Return(call[n])
  /\ UNCHANGED <<queueVars, reporting, finished, chanVars, gen, held,
                 finiVars, dropped, counted, late, failures>>

(* grpc.RpcError: the stream broke, its deadline passed, or the channel    *)
(* was closed. The OAP may have received any prefix of the batch; the      *)
(* caller counts all of it as dropped and never retries. The generator     *)
(* thread may still be inside get().                                       *)
RpcFail(n) ==
  /\ call[n] \in Caller
  /\ failures < MaxFailures \/ closed
  /\ \E k \in 0 .. Len(batch[n]) :
       delivered' = delivered \cup {batch[n][i] : i \in 1 .. k}
  /\ CountDropped(Sent(n))
  /\ failures' = failures + 1
  /\ call' = [call EXCEPT ![n] = IF gen[n] = "off" THEN "free" ELSE "orphan"]
  /\ batch' = [batch EXCEPT ![n] = IF gen[n] = "off" THEN <<>> ELSE @]
  /\ Return(call[n])
  /\ UNCHANGED <<queueVars, reporting, finished, chanVars, gen, held,
                 finiVars, late>>

-----------------------------------------------------------------------------
(* stop() -> __fini() -> _shutdown_sync_queue().                           *)

(* _finished is set and may_send is read before anything is drained.       *)
FiniStart ==
  /\ fini = "none" /\ reporting
  /\ finished' = TRUE
  /\ maySend' = ready
  /\ fini' = "drain"
  /\ UNCHANGED <<queueVars, reporting, chanVars, loop, callVars, flush,
                 abandoned, fateVars>>

FiniFlush ==
  /\ fini = "drain"
  /\ \/ /\ maySend /\ queue # <<>>
        /\ flush' = "report"
        /\ fini' = "flush"
     \/ /\ ~(maySend /\ queue # <<>>)
        /\ fini' = "abandon"
        /\ UNCHANGED flush
  /\ UNCHANGED <<queueVars, reporting, finished, chanVars, loop, callVars,
                 maySend, abandoned, fateVars>>

(* done.wait(_SHUTDOWN_FLUSH_TIMEOUT_SEC) returns: the flush is done or    *)
(* two seconds have passed.                                                *)
FiniFlushWait ==
  /\ fini = "flush"
  /\ fini' = "abandon"
  /\ UNCHANGED <<queueVars, reporting, finished, chanVars, loop, callVars,
                 maySend, abandoned, flush, fateVars>>

(* One turn of _abandon_sync_queue: get_nowait() and task_done().          *)
FiniAbandon ==
  /\ fini = "abandon" /\ queue # <<>>
  /\ queue' = Tail(queue)
  /\ TaskDone
  /\ abandoned' = abandoned \cup {Head(queue)}
  /\ UNCHANGED <<archived, reporting, finished, chanVars, loop, callVars,
                 fini, maySend, flush, fateVars>>

(* Empty ends the loop; the abandoned items are counted as dropped.        *)
FiniAbandoned ==
  /\ fini = "abandon" /\ queue = <<>>
  /\ CountDropped(abandoned)
  /\ abandoned' = {}
  /\ fini' = "join"
  /\ UNCHANGED <<queueVars, reporting, finished, chanVars, loop, callVars,
                 maySend, flush, delivered, late, failures>>

(* _join_sync_queue returns: unfinished_tasks fell to zero or two seconds  *)
(* have passed.                                                            *)
FiniJoin ==
  /\ fini = "join"
  /\ fini' = "close"
  /\ UNCHANGED <<queueVars, reporting, finished, chanVars, loop, callVars,
                 maySend, abandoned, flush, fateVars>>

FiniClose ==
  /\ fini = "close"
  /\ closed' = TRUE
  /\ fini' = "closed"
  /\ UNCHANGED <<queueVars, reporting, finished, ready, loop, callVars,
                 maySend, abandoned, flush, fateVars>>

(* stop() clears __reporting only after __fini() has returned.             *)
StopReturn ==
  /\ fini = "closed"
  /\ reporting' = FALSE
  /\ fini' = "stopped"
  /\ UNCHANGED <<queueVars, finished, chanVars, loop, callVars, maySend,
                 abandoned, flush, fateVars>>

-----------------------------------------------------------------------------
Host == Put \/ PutFull
Loop == LoopPoll \/ LoopExit \/ LoopReport
Rpc == \E n \in Call : GenGet(n) \/ GenDone(n) \/ GenEnd(n) \/ RpcOk(n) \/ RpcFail(n)
Fini == \/ FiniFlush \/ FiniFlushWait \/ FiniAbandon \/ FiniAbandoned
        \/ FiniJoin \/ FiniClose \/ StopReturn

Next == Host \/ Connectivity \/ Loop \/ FlushReport \/ Rpc \/ FiniStart \/ Fini

Spec == Init /\ [][Next]_vars

(***************************************************************************)
(* Fairness. The shutdown thread is a running Python thread: no step of it *)
(* is blocked for good, because both its waits are timed. Nothing is       *)
(* assumed of the other threads in ShutdownSpec. DeliveryFairness adds the *)
(* reporter thread, the generator threads (their get() is timed) and the   *)
(* end of every RPC (each has a deadline).                                 *)
(***************************************************************************)
ShutdownSpec == Spec /\ WF_vars(Fini)

DeliveryFairness ==
  /\ WF_vars(Loop)
  /\ \A n \in Call : /\ WF_vars(GenGet(n) \/ GenDone(n) \/ GenEnd(n))
                     /\ WF_vars(RpcOk(n) \/ RpcFail(n))

-----------------------------------------------------------------------------
(* Properties.                                                             *)

(* The state stays within its types: queue bounded by maxsize, every RPC   *)
(* slot, thread position and item set in range.                            *)
TypeOK ==
  /\ queue \in Seq(Item) /\ Len(queue) <= MaxSize
  /\ unfinished \in Nat
  /\ archived \in 0 .. MaxItems
  /\ reporting \in BOOLEAN /\ finished \in BOOLEAN
  /\ ready \in BOOLEAN /\ closed \in BOOLEAN
  /\ loop \in LoopStates /\ flush \in FlushStates
  /\ call \in [Call -> Caller \cup {"free", "orphan"}]
  /\ gen \in [Call -> {"off", "get", "got"}]
  /\ held \in [Call -> Item \cup {NoItem}]
  /\ batch \in [Call -> Seq(Item)]
  /\ fini \in FiniStates /\ maySend \in BOOLEAN
  /\ abandoned \in SUBSET Item
  /\ delivered \in SUBSET Item /\ dropped \in SUBSET Item
  /\ late \in SUBSET Item
  /\ counted \in Nat /\ failures \in Nat

Holding == {n \in Call : gen[n] = "got"}
Flying == {n \in Call : call[n] \in Caller}
HeldItems == {held[n] : n \in Holding}
InBatches == UNION {Range(batch[n]) : n \in Flying}
Pending == Range(queue) \cup HeldItems \cup InBatches \cup abandoned
Gone == delivered \cup dropped \cup late

(* Queue.join() can finish: unfinished_tasks is exactly the items in the   *)
(* queue plus those some generator thread has taken and not yet marked     *)
(* done, whatever threads get(), abandon and task_done() concurrently.     *)
UnfinishedBalance == unfinished = Len(queue) + Cardinality(Holding)

(* No telemetry disappears unaccounted, whoever gives it up: an archived   *)
(* item is pending, delivered, dropped, or the one item that the generator *)
(* thread of a failed RPC was taking when the caller read sent; and the    *)
(* drop count is the number of dropped items, so that a failed batch, an   *)
(* abandoned queue and a full queue are each counted once.                 *)
LossesAccounted ==
  /\ 1 .. archived = Pending \cup Gone
  /\ Cardinality(late \ (delivered \cup dropped)) <= failures
  /\ counted = Cardinality(dropped)

(* From some time on the host archives nothing (here: after MaxItems).     *)
HostFallsSilent == <>[][~Host]_vars

(* stop() returns whatever the channel, the RPCs and the reporter do, once *)
(* the host archives no more. The host's silence is needed: the loop of    *)
(* _abandon_sync_queue has no deadline and runs while __reporting still    *)
(* lets the host archive, so "Never blocks longer than flush+join budgets" *)
(* is not what the code guarantees against a host that never pauses.       *)
ShutdownTerminates == HostFallsSilent => (fini = "drain" ~> fini = "stopped")

(* While the channel stays READY and the agent runs, the queue is drained  *)
(* again and again: gate, batch window and failed RPCs never wedge it.     *)
QueueDrains ==
  DeliveryFairness => (<>[](ready /\ ~finished) => []<>(queue = <<>>))

(* The queue keeps the promise of LossyChannel: every step of the threads  *)
(* above accepts an item, settles some pending ones, or is invisible.      *)
Abstract == INSTANCE LossyChannel WITH
  accepted <- archived, pending <- Pending, lost <- (dropped \cup late) \ delivered

BestEffortAtMostOnce == Abstract!Spec
=============================================================================
