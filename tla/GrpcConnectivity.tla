-------------------------- MODULE GrpcConnectivity ---------------------------
(***************************************************************************)
(* The watched connectivity of the one gRPC channel of the sync agent, the *)
(* READY gate, and the heartbeat that registers the instance properties    *)
(* with whichever OAP the channel is connected to.                         *)
(*                                                                         *)
(* gRPC moves the channel (core, backend) on its own and reports changes   *)
(* to the subscriptions from a delivery thread, which compares the current *)
(* state with the last one delivered: short-lived states are never seen.   *)
(* The callback _cb, the heartbeat thread and the reporter threads that    *)
(* re-subscribe after an RpcError interleave.                              *)
(***************************************************************************)
EXTENDS Integers, Sequences, FiniteSets

CONSTANTS Backend,      \* independent OAPs behind the address list
          Reporter,     \* reporter threads other than the heartbeat
          Factor,       \* agent_collector_properties_report_period_factor
          MaxFailures,  \* bound: RPCs that fail on a READY channel
          RecordsExpire \* the OAPs forget silent instances (TTL)

CONSTANT Heartbeat      \* the heartbeat thread

ASSUME ConnectivityAssumption ==
  /\ Backend # {} /\ Heartbeat \notin Reporter
  /\ Factor \in Nat \ {0} /\ MaxFailures \in Nat
  /\ RecordsExpire \in BOOLEAN

VARIABLES
  core,        \* connectivity of the channel inside gRPC
  backend,     \* the OAP it is, or was last, connected to
  subs,        \* subscriptions of _cb: the state last delivered to each
  cb,          \* step of the running _cb: "none", "reset", "set"
  cbArg,       \* its argument
  state,       \* self.state, the watched state
  propsSent,   \* self.properties_sent
  counter,     \* sent_properties_counter, modulo Factor
  hb,          \* step of the heartbeat thread
  err,         \* step of on_error() in each thread: "none", "unsub", "sub"
  registered,  \* OAPs that hold the properties of this instance
  failures,    \* failed RPCs on a READY channel
  propsBroken, \* the OAPs reject the properties of this instance, always
  unseen       \* history: the backend changed and no subscription saw it

coreVars == <<core, backend, unseen, propsBroken>>
cbVars == <<subs, cb, cbArg>>
vars == <<coreVars, cbVars, state, propsSent, counter, hb, err, registered,
          failures>>

Thread == Reporter \cup {Heartbeat}
CoreState == {"IDLE", "CONNECTING", "READY", "TRANSIENT_FAILURE"}
NoState == "None"

Init ==
  /\ core = "IDLE" /\ backend \in Backend /\ unseen = FALSE
  /\ subs = <<NoState>> /\ cb = "none" /\ cbArg = NoState
  /\ state = NoState /\ propsSent = FALSE /\ counter = 0
  /\ hb = "idle" /\ err = [t \in Thread |-> "none"]
  /\ registered = {} /\ failures = 0
  /\ propsBroken \in BOOLEAN

-----------------------------------------------------------------------------
(* Faulty variants for the mutation runs.                                  *)

NudgeNever == FALSE /\ UNCHANGED vars
RefreshDueNever(c) == FALSE
ResubscribeForgotten == UNCHANGED subs
AfterPropsFailureAborts == "idle"

-----------------------------------------------------------------------------
(* gRPC core.                                                              *)

CoreStep(s) ==
  /\ core' = s
  /\ UNCHANGED <<backend, unseen, propsBroken, cbVars, state, propsSent, counter, hb, err,
                 registered, failures>>

ConnectFails == core = "CONNECTING" /\ CoreStep("TRANSIENT_FAILURE")
RetryConnect == core = "TRANSIENT_FAILURE" /\ CoreStep("CONNECTING")
Disconnect == /\ core = "READY"
              /\ \E s \in {"IDLE", "CONNECTING"} : CoreStep(s)

(* A switch of backend is unseen when no subscription was told of a state  *)
(* other than READY meanwhile.                                             *)
SwitchSeen ==
  \/ state # "READY"
  \/ cb # "none" /\ cbArg # "READY"

Connect(b) ==
  /\ core = "CONNECTING"
  /\ core' = "READY"
  /\ backend' = b
  /\ unseen' = (unseen \/ (b # backend /\ ~SwitchSeen))
  /\ UNCHANGED <<propsBroken, cbVars, state, propsSent, counter, hb, err,
                 registered, failures>>

(* Records of a silent instance expire in the OAP (TTL).                   *)
Expire(b) ==
  /\ RecordsExpire /\ b \in registered
  /\ registered' = registered \ {b}
  /\ UNCHANGED <<coreVars, cbVars, state, propsSent, counter, hb, err, failures>>

-----------------------------------------------------------------------------
(* Connectivity callback.                                                  *)

(* One pass of the delivery thread: every subscription whose last state is *)
(* not the current one is called with it (two calls of _cb with the same   *)
(* state do what one does).                                                *)
Deliver ==
  /\ cb = "none"
  /\ \E i \in DOMAIN subs : subs[i] # core
  /\ subs' = [i \in DOMAIN subs |-> core]
  /\ cb' = "reset" /\ cbArg' = core
  /\ UNCHANGED <<coreVars, state, propsSent, counter, hb, err, registered,
                 failures>>

LeavesReady == state = "READY" /\ cbArg # "READY"

(* A reset between the load and the store of the heartbeat's "counter += 1"*)
(* is lost.                                                                *)
CounterAfterReset == {0} \cup IF hb = "count" THEN {counter} ELSE {}

CbReset ==
  /\ cb = "reset"
  /\ cb' = "set"
  /\ propsSent' = (propsSent /\ ~LeavesReady)
  /\ counter' \in IF LeavesReady THEN CounterAfterReset ELSE {counter}
  /\ UNCHANGED <<coreVars, subs, cbArg, state, hb, err, registered,
                 failures>>

(* Assigned last, outside the try block of _cb.                            *)
WatchedAfter == cbArg

CbSet ==
  /\ cb = "set"
  /\ state' = WatchedAfter
  /\ cb' = "none" /\ cbArg' = NoState
  /\ UNCHANGED <<coreVars, subs, propsSent, counter, hb, err, registered,
                 failures>>

-----------------------------------------------------------------------------
(* The READY gate: every reporter loop polls is_ready() at least twice a   *)
(* second; in the watched state IDLE it asks the channel to connect.       *)
Nudge ==
  /\ state = "IDLE" /\ core = "IDLE"
  /\ CoreStep("CONNECTING")

(* handle_rpc_error: an authentication error is only logged, any other     *)
(* error makes the thread re-subscribe.                                    *)
RpcErrorHook(t) ==
  \E e \in {"none", "unsub"} : err' = [err EXCEPT ![t] = e]

(* A reporter thread's RPC fails.                                          *)
ReportFails(t) ==
  /\ err[t] = "none" /\ failures < MaxFailures
  /\ failures' = failures + 1
  /\ err' = [err EXCEPT ![t] = "unsub"]
  /\ UNCHANGED <<coreVars, cbVars, state, propsSent, counter, hb, registered>>

Unsubscribed == IF subs = <<>> THEN subs ELSE Tail(subs)

Unsubscribe(t) ==
  /\ err[t] = "unsub"
  /\ subs' = Unsubscribed
  /\ err' = [err EXCEPT ![t] = "sub"]
  /\ UNCHANGED <<coreVars, cb, cbArg, state, propsSent, counter, hb,
                 registered, failures>>

Resubscribe == subs' = Append(subs, NoState)

(* subscribe(try_to_connect=True) also nudges an idle channel.             *)
Subscribe(t) ==
  /\ err[t] = "sub"
  /\ Resubscribe
  /\ core' = IF core = "IDLE" THEN "CONNECTING" ELSE core
  /\ err' = [err EXCEPT ![t] = "none"]
  /\ UNCHANGED <<backend, unseen, propsBroken, cb, cbArg, state, propsSent, counter, hb,
                 registered, failures>>

-----------------------------------------------------------------------------
(* The heartbeat thread: __heartbeat, GrpcProtocol.heartbeat and           *)
(* GrpcServiceManagementClient.send_heart_beat.                            *)

HbFrame == UNCHANGED <<coreVars, cbVars, state>>

HbStart ==
  /\ hb = "idle" /\ err[Heartbeat] = "none" /\ state = "READY"
  /\ hb' = IF propsSent THEN "count" ELSE "props"
  /\ HbFrame /\ UNCHANGED <<propsSent, counter, err, registered, failures>>

(* An RPC reaches the backend of a READY channel ...                       *)
PropsArrive == core = "READY" /\ ~propsBroken

(* ... and fails on any other, or a bounded number of times on a READY one.*)
CallFails ==
  \/ core # "READY" /\ UNCHANGED failures
  \/ failures < MaxFailures /\ failures' = failures + 1

PropsFail == CallFails \/ (propsBroken /\ UNCHANGED failures)

(* A failed registration is handled; the heartbeat goes on.                *)
AfterPropsFailure == "count"

HbProps ==
  /\ hb = "props"
  /\ \/ /\ PropsArrive
        /\ registered' = registered \cup {backend}
        /\ hb' = "mark"
        /\ UNCHANGED <<err, failures>>
     \/ /\ PropsFail
        /\ RpcErrorHook(Heartbeat)
        /\ hb' = AfterPropsFailure
        /\ UNCHANGED registered
  /\ HbFrame /\ UNCHANGED <<propsSent, counter>>

HbMark ==
  /\ hb = "mark"
  /\ propsSent' = TRUE
  /\ hb' = "count"
  /\ HbFrame /\ UNCHANGED <<counter, err, registered, failures>>

RefreshDue(c) == c % Factor = 0

(* refresh_instance_props                                                  *)
HbCount ==
  /\ hb = "count" /\ err[Heartbeat] = "none"
  /\ counter' = (counter + 1) % Factor
  /\ hb' = IF RefreshDue(counter + 1) THEN "refresh" ELSE "ping"
  /\ HbFrame /\ UNCHANGED <<propsSent, err, registered, failures>>

(* A failed refresh is logged; the ping is sent anyway.                    *)
HbRefresh ==
  /\ hb = "refresh"
  /\ \/ /\ PropsArrive
        /\ registered' = registered \cup {backend}
        /\ hb' = "ping"
        /\ UNCHANGED failures
     \/ /\ PropsFail
        /\ hb' = "ping"
        /\ UNCHANGED registered
  /\ HbFrame /\ UNCHANGED <<propsSent, counter, err>>

HbPing ==
  /\ hb = "ping"
  /\ \/ /\ core = "READY"
        /\ UNCHANGED <<err, failures>>
     \/ /\ CallFails
        /\ RpcErrorHook(Heartbeat)
  /\ hb' = "idle"
  /\ HbFrame /\ UNCHANGED <<propsSent, counter, registered>>

-----------------------------------------------------------------------------
Core == ConnectFails \/ RetryConnect \/ Disconnect \/ \E b \in Backend : Connect(b) \/ Expire(b)
Callback == Deliver \/ CbReset \/ CbSet
OnError(t) == Unsubscribe(t) \/ Subscribe(t)
HeartbeatStep == HbStart \/ HbProps \/ HbMark \/ HbCount \/ HbRefresh \/ HbPing

Next == \/ Core \/ Callback \/ Nudge \/ HeartbeatStep
        \/ \E t \in Thread : OnError(t)
        \/ \E t \in Reporter : ReportFails(t)

(* The delivery thread, the heartbeat, the pollers and on_error() run in   *)
(* live threads; nothing is assumed of the network.                        *)
Fairness == /\ WF_vars(Callback) /\ WF_vars(Nudge) /\ WF_vars(HeartbeatStep)
            /\ \A t \in Thread : WF_vars(OnError(t))

Spec == Init /\ [][Next]_vars /\ Fairness

-----------------------------------------------------------------------------
(* Properties.                                                             *)

(* The agent never loses its watch: some subscription exists, or a thread  *)
(* inside on_error() is about to make one, however the unsubscribe and     *)
(* subscribe calls of several threads interleave; and the watched state is *)
(* not stuck behind the channel: when no callback is pending, running or   *)
(* missing, it equals the channel's state.                                 *)
WatchKept ==
  /\ subs # <<>> \/ \E t \in Thread : err[t] = "sub"
  /\ (cb = "none" /\ subs # <<>> /\ \A i \in DOMAIN subs : subs[i] = core) => state = core

(* An idle channel does not stay idle: the skipped RPCs of the READY gate  *)
(* would otherwise leave it idle forever.                                  *)
IdleIsLeft == core = "IDLE" ~> core # "IDLE"

(* A stable connection to an OAP that accepts them ends with the OAP       *)
(* holding the properties, also after a switch nobody saw, a record that   *)
(* expired or a lost reset.                                                *)
EventuallyRegistered ==
  ~propsBroken /\ <>[](core = "READY") => []<>(backend \in registered)

(* The keepAlive pings go on although every properties report fails.       *)
PingsGoOn == <>[](core = "READY") => []<><<HbPing /\ core = "READY">>_vars

(* Not true of this code, see the README:                                  *)
(* "Immediate send via properties_sent": with an idle heartbeat and no     *)
(* callback outstanding, properties_sent is only set for an OAP that has   *)
(* the properties, unless the switch was silent.                           *)
ImmediateRegistration ==
  (propsSent /\ ~unseen /\ hb = "idle" /\ cb = "none" /\ core = "READY" /\ state = "READY")
    => backend \in registered
=============================================================================
