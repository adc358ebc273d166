-------------------------- MODULE HttpKafkaReporters --------------------------
(***************************************************************************)
(* The reporters of the HTTP and the Kafka protocol, threaded and asyncio: *)
(* one telemetry queue from archive_* to the collector, the shutdown of    *)
(* the agent, and the heartbeat. ReporterQueue models the same for gRPC;   *)
(* here the thread that reports runs the generator itself, nothing waits   *)
(* for a channel, and what fails is not counted.                           *)
(*                                                                         *)
(* A route is the way one kind of telemetry takes under one protocol:      *)
(* async says which agent, kafka which client, and batch whether the       *)
(* client makes one message of the whole generator instead of one of each  *)
(* item.                                                                   *)
(***************************************************************************)
EXTENDS Integers, Sequences, FiniteSets, Functions

CONSTANTS Routes,       \* set of routes
          MaxSize,      \* maxsize of the queue
          MaxItems,     \* bound: items the host archives
          MaxFailures,  \* bound: messages that fail
          Factor,       \* agent_collector_properties_report_period_factor
          MaxBeats      \* bound: heartbeats

ASSUME RoutesAssumption ==
  /\ Routes \subseteq [async : BOOLEAN, kafka : BOOLEAN, batch : BOOLEAN]
  /\ MaxSize \in Nat \ {0} /\ Factor \in Nat \ {0}
  /\ MaxItems \in Nat /\ MaxFailures \in Nat /\ MaxBeats \in Nat

(* The routes. The asyncio twin of a route differs in its generator, which *)
(* waits for the queue without a timeout and never ends.                   *)
HttpSegments == [async |-> FALSE, kafka |-> FALSE, batch |-> FALSE]
HttpLogs == [async |-> FALSE, kafka |-> FALSE, batch |-> TRUE]
KafkaSegments == [async |-> FALSE, kafka |-> TRUE, batch |-> FALSE]
KafkaLogs == KafkaSegments
KafkaMeters == [async |-> FALSE, kafka |-> TRUE, batch |-> TRUE]
AioHttpSegments == [HttpSegments EXCEPT !.async = TRUE]
AioHttpLogs == [HttpLogs EXCEPT !.async = TRUE]
AioKafkaSegments == [KafkaSegments EXCEPT !.async = TRUE]
AioKafkaLogs == [KafkaLogs EXCEPT !.async = TRUE]
AioKafkaMeters == [KafkaMeters EXCEPT !.async = TRUE]

VARIABLES
  route,      \* the route of this queue
  queue,      \* the queue
  archived,   \* number of items archived so far
  caller,     \* reporter thread or task, and the flush of the shutdown
  buffer,     \* messages in the buffer of KafkaProducer
  fini,       \* the shutdown: "none", "drain", "flush", "abandon", "join", "cancel", "stopped"
  abandoned,  \* items taken by the shutdown, not yet logged
  delivered,  \* items the collector has received
  dropped,    \* items passed to log_dropped_throttled
  failures,   \* number of messages that failed
  hb          \* the heartbeat

queueVars == <<route, queue, archived>>
fateVars == <<delivered, dropped, failures>>
vars == <<queueVars, caller, buffer, fini, abandoned, fateVars, hb>>

Caller == {"loop", "flush"}
Quiet(pc) == [pc |-> pc, batch |-> <<>>, first |-> TRUE]

Init ==
  /\ route \in Routes
  /\ queue = <<>> /\ archived = 0 /\ buffer = <<>>
  /\ caller = [c \in Caller |-> Quiet(IF c = "loop" THEN "top" ELSE "off")]
  /\ fini = "none" /\ abandoned = {}
  /\ delivered = {} /\ dropped = {} /\ failures = 0
  /\ hb = [sent |-> FALSE, counter |-> 0, answered |-> FALSE, gap |-> 0, missed |-> 0, beats |-> 0]

finished == fini # "none"

-----------------------------------------------------------------------------
(* Faulty variants for the mutation runs.                                  *)

Retried(c) ==
  IF caller[c].batch # <<>> THEN [caller[c] EXCEPT !.pc = "send"]
  ELSE Quiet(IF c = "loop" THEN "top" ELSE "done")
SentEarly(ok) == TRUE
CountedNot(S) == dropped
MayEndWithout(c) == ~route.async /\ queue = <<>> /\ caller[c].batch = <<>>

-----------------------------------------------------------------------------
(* log_dropped_throttled                                                   *)
Counted(S) == dropped \cup S

(* Host threads: archive_*                                                 *)

Put ==
  /\ fini # "stopped" /\ archived < MaxItems
  /\ archived' = archived + 1
  /\ IF Len(queue) < MaxSize
     THEN queue' = Append(queue, archived + 1) /\ UNCHANGED dropped
     ELSE dropped' = Counted({archived + 1}) /\ UNCHANGED queue
  /\ UNCHANGED <<route, caller, buffer, fini, abandoned, delivered, failures, hb>>

-----------------------------------------------------------------------------
(* One call of report_segment, report_log or report_meter                  *)

LoopStart ==
  /\ caller["loop"].pc = "top" /\ ~finished /\ queue # <<>>
  /\ caller' = [caller EXCEPT !["loop"] = Quiet("get")]
  /\ UNCHANGED <<queueVars, buffer, fini, abandoned, fateVars, hb>>

LoopExit ==
  /\ caller["loop"].pc = "top" /\ finished
  /\ caller' = [caller EXCEPT !["loop"] = Quiet("exit")]
  /\ UNCHANGED <<queueVars, buffer, fini, abandoned, fateVars, hb>>

(* The generator takes an item and marks it done at once. It yields to a   *)
(* loop that sends it, or to a list.                                       *)
Get(c) ==
  /\ caller[c].pc = "get" /\ queue # <<>>
  /\ queue' = Tail(queue)
  /\ caller' = [caller EXCEPT ![c] = [pc |-> IF route.batch THEN "get" ELSE "send",
                                      batch |-> Append(@.batch, Head(queue)), first |-> FALSE]]
  /\ UNCHANGED <<route, archived, buffer, fini, abandoned, fateVars, hb>>

(* The call ends, or raises: the next turn of the loop.                    *)
Returned(c) == Quiet(IF c = "loop" THEN "top" ELSE "done")

(* The queue stays empty for agent_queue_timeout, or the time since the    *)
(* first item is over; the aio generators go on for ever.                  *)
MayEnd(c) == ~route.async /\ (queue = <<>> \/ ~caller[c].first)

(* An AIOKafkaProducer is started before the first item is taken from the  *)
(* queue, by every report until it succeeds.                               *)
ProducerStartFails(c) ==
  /\ caller[c].pc = "get" /\ Len(queue) + Cardinality(dropped) = archived
  /\ route.kafka /\ route.async /\ failures < MaxFailures
  /\ failures' = failures + 1
  /\ caller' = [caller EXCEPT ![c] = Returned(c)]
  /\ UNCHANGED <<queueVars, buffer, fini, abandoned, delivered, dropped, hb>>

(* An empty list of logs is not posted; an empty meter collection is sent. *)
GeneratorEnds(c) ==
  /\ caller[c].pc = "get" /\ MayEnd(c)
  /\ LET post == route.batch /\ (caller[c].batch # <<>> \/ route.kafka)
     IN caller' = [caller EXCEPT ![c] = IF post THEN [@ EXCEPT !.pc = "send"] ELSE Returned(c)]
  /\ UNCHANGED <<queueVars, buffer, fini, abandoned, fateVars, hb>>

(* What follows a message that was sent: the generator again, or the end.  *)
AfterSend(c) == IF route.batch THEN Returned(c) ELSE [Quiet("get") EXCEPT !.first = FALSE]

(* KafkaProducer.send: the caller goes on without the answer.              *)
Unawaited == route.kafka /\ ~route.async

(* KafkaProducer.send puts the message into its buffer; send_and_wait and  *)
(* session.post wait for an answer.                                        *)
Send(c) ==
  /\ caller[c].pc = "send"
  /\ IF Unawaited
     THEN buffer' = buffer \o caller[c].batch /\ UNCHANGED delivered
     ELSE delivered' = delivered \cup Range(caller[c].batch) /\ UNCHANGED buffer
  /\ caller' = [caller EXCEPT ![c] = AfterSend(c)]
  /\ UNCHANGED <<queueVars, fini, abandoned, dropped, failures, hb>>

(* An HTTP answer with an error status is an answer like any other: nobody *)
(* looks at it, and the generator goes on.                                 *)
SendRefused(c) ==
  /\ caller[c].pc = "send" /\ ~route.kafka /\ failures < MaxFailures
  /\ failures' = failures + 1
  /\ caller' = [caller EXCEPT ![c] = AfterSend(c)]
  /\ UNCHANGED <<queueVars, buffer, fini, abandoned, delivered, dropped, hb>>

(* An exception ends the call. The HTTP protocol and the aio ones swallow  *)
(* it, the threaded Kafka protocol leaves it to the backoff; no item is    *)
(* counted or tried again. The collector may have got the message.         *)
SendFails(c) ==
  /\ caller[c].pc = "send" /\ failures < MaxFailures
  /\ \/ UNCHANGED delivered
     \/ /\ ~Unawaited
        /\ delivered' = delivered \cup Range(caller[c].batch)
  /\ failures' = failures + 1
  /\ caller' = [caller EXCEPT ![c] = Returned(c)]
  /\ UNCHANGED <<queueVars, buffer, fini, abandoned, dropped, hb>>

(* The sender thread of KafkaProducer: nobody looks at its futures.        *)
BrokerAnswers ==
  /\ buffer # <<>>
  /\ \/ delivered' = delivered \cup {Head(buffer)} /\ UNCHANGED failures
     \/ /\ failures < MaxFailures
        /\ failures' = failures + 1
        /\ UNCHANGED delivered
  /\ buffer' = Tail(buffer)
  /\ UNCHANGED <<queueVars, caller, fini, abandoned, dropped, hb>>

-----------------------------------------------------------------------------
(* The shutdown: _shutdown_sync_queue, or __async_shutdown_cleanup, which  *)
(* must not report and cancels the tasks instead.                          *)

FiniStart ==
  /\ fini = "none"
  /\ fini' = IF route.async THEN "abandon" ELSE "drain"
  /\ UNCHANGED <<queueVars, caller, buffer, abandoned, fateVars, hb>>

(* The protocols are always ready: what is queued is flushed, without      *)
(* waiting for more.                                                       *)
FiniFlush ==
  /\ fini = "drain"
  /\ IF queue # <<>>
     THEN fini' = "flush" /\ caller' = [caller EXCEPT !["flush"] = Quiet("get")]
     ELSE fini' = "abandon" /\ UNCHANGED caller
  /\ UNCHANGED <<queueVars, buffer, abandoned, fateVars, hb>>

(* The flush is done, or two seconds have passed.                          *)
FiniFlushWait ==
  /\ fini = "flush"
  /\ fini' = "abandon"
  /\ UNCHANGED <<queueVars, caller, buffer, abandoned, fateVars, hb>>

FiniAbandon ==
  /\ fini = "abandon" /\ queue # <<>>
  /\ queue' = Tail(queue)
  /\ abandoned' = abandoned \cup {Head(queue)}
  /\ UNCHANGED <<route, archived, caller, buffer, fini, fateVars, hb>>

FiniAbandoned ==
  /\ fini = "abandon" /\ queue = <<>>
  /\ dropped' = Counted(abandoned)
  /\ abandoned' = {}
  /\ fini' = IF route.async THEN "cancel" ELSE "join"
  /\ UNCHANGED <<queueVars, caller, buffer, delivered, failures, hb>>

(* _join_sync_queue: the queue is joined, or two seconds have passed. The  *)
(* host may archive until __reporting is reset after it.                   *)
FiniJoin ==
  /\ fini = "join"
  /\ fini' = "stopped"
  /\ UNCHANGED <<queueVars, caller, buffer, abandoned, fateVars, hb>>

(* _cancel_pending_tasks: what the task had taken is gone.                 *)
FiniCancel ==
  /\ fini = "cancel"
  /\ caller' = [caller EXCEPT !["loop"] = Quiet("exit")]
  /\ fini' = "stopped"
  /\ UNCHANGED <<queueVars, buffer, abandoned, delivered, dropped, failures, hb>>

-----------------------------------------------------------------------------
(* The heartbeat: one turn of the loop. props and ping say whether the     *)
(* messages were answered. HTTP sends the properties until it had an       *)
(* answer once; the Kafka client sent them when it was made and does not   *)
(* know what became of them. Every Factor-th beat refreshes them.          *)

SentAfter(ok) == ok

RefreshDue(counter) == counter % Factor = 0

(* send_instance_props, with or without an answer                          *)
Props(h, ok) ==
  IF ok THEN [h EXCEPT !.answered = TRUE, !.gap = 0, !.missed = 0]
        ELSE [h EXCEPT !.missed = @ + 1]

Registers == ~route.kafka /\ ~hb.sent

Beat(register, refresh, ping) ==
  /\ fini = "none" /\ hb.beats < MaxBeats
  /\ LET counted == [hb EXCEPT !.beats = @ + 1]
         h1 == IF Registers
               THEN [Props(counted, register) EXCEPT !.sent = SentAfter(register)]
               ELSE counted
         h2 == [h1 EXCEPT !.counter = @ + 1]
         h3 == IF RefreshDue(h2.counter) THEN Props(h2, refresh) ELSE h2
     IN hb' = IF Registers /\ ~register THEN h1
              ELSE IF RefreshDue(h2.counter) /\ ~refresh /\ ~Unawaited THEN h3
              ELSE [h3 EXCEPT !.gap = IF ping THEN @ + 1 ELSE @]
  /\ UNCHANGED <<queueVars, caller, buffer, fini, abandoned, fateVars>>

-----------------------------------------------------------------------------
Call(c) ==
  \/ Get(c) \/ GeneratorEnds(c) \/ ProducerStartFails(c)
  \/ Send(c) \/ SendRefused(c) \/ SendFails(c)
Loop == LoopStart \/ LoopExit
Fini == FiniFlush \/ FiniFlushWait \/ FiniAbandon \/ FiniAbandoned \/ FiniJoin \/ FiniCancel

Next ==
  \/ Put \/ Loop \/ BrokerAnswers \/ FiniStart \/ Fini
  \/ \E c \in Caller : Call(c)
  \/ \E register, refresh, ping \in BOOLEAN : Beat(register, refresh, ping)

Spec == Init /\ [][Next]_vars

(***************************************************************************)
(* Fairness: the reporter, the flush and the shutdown are running threads  *)
(* (or tasks of a running loop). That a post ends is an assumption about   *)
(* the collector: neither HTTP client sets a timeout of its own.           *)
(***************************************************************************)
FairSpec ==
  /\ Spec /\ WF_vars(Loop) /\ WF_vars(Fini) /\ WF_vars(BrokerAnswers)
  /\ \A c \in Caller : WF_vars(Get(c) \/ GeneratorEnds(c)) /\ WF_vars(Send(c))

-----------------------------------------------------------------------------
(* Properties.                                                             *)

Held == UNION {Range(caller[c].batch) : c \in Caller}
Pending == Range(queue) \cup Held \cup Range(buffer) \cup abandoned

(* Lost without a trace.                                                   *)
Silent == (1 .. archived) \ (Pending \cup delivered \cup dropped)

(* Silent losses have a cause: one item for each failed message where they *)
(* go one by one, and one more once the task was cancelled. Where a list   *)
(* is sent, no failure and no cancellation means no silent loss.           *)
SilentLossBound ==
  IF route.batch
  THEN failures = 0 /\ ~(route.async /\ fini = "stopped") => Silent = {}
  ELSE Cardinality(Silent) <= failures + IF route.async /\ fini = "stopped" THEN 1 ELSE 0

(* The collector knows the instance: no HTTP ping before the properties    *)
(* had an answer, and at most Factor pings between two answered properties *)
(* for each refresh that failed in between, plus one.                      *)
InstanceRegistered ==
  /\ ~route.kafka /\ hb.gap > 0 => hb.answered
  /\ hb.gap <= Factor * (hb.missed + 1)

(* "If True, Python agent will report collected logs to the OAP or         *)
(* Satellite": what a reporter takes from the queue does not stay with it, *)
(* as long as the agent runs.                                              *)
TakenIsSent == \A i \in 1 .. MaxItems : i \in Held ~> (i \notin Pending \/ finished)

(* The reporters keep the promise of LossyChannel: nothing is delivered or *)
(* given up twice, and nothing that was given up is sent later.            *)
Abstract == INSTANCE LossyChannel WITH
  accepted <- archived, pending <- Pending, lost <- (dropped \cup Silent) \ delivered

BestEffortAtMostOnce == Abstract!Spec
=============================================================================
