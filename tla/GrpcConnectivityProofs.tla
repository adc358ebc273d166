----------------------- MODULE GrpcConnectivityProofs ------------------------
(***************************************************************************)
(* Proofs about GrpcConnectivity, for every set of OAPs, every number of   *)
(* reporter threads and every number of failing RPCs.                      *)
(***************************************************************************)
EXTENDS GrpcConnectivity, TLAPS

HbStates == {"idle", "props", "mark", "count", "refresh", "ping"}

ChannelOK ==
  /\ core \in CoreState
  /\ subs \in Seq(CoreState \cup {NoState})
  /\ err \in [Thread -> {"none", "unsub", "sub"}]
  /\ hb \in HbStates

(* on_error() runs in the thread whose RPC failed: the heartbeat thread    *)
(* makes no other RPC before its on_error() has returned. Without this a   *)
(* second error could overwrite a re-subscription that is still due.       *)
OneErrorAtATime ==
  hb \in {"props", "mark", "refresh", "ping"} => err[Heartbeat] = "none"

SomeWatch == subs # <<>> \/ \E t \in Thread : err[t] = "sub"

(* What was delivered to a subscription is what _cb has stored, or is      *)
(* about to store.                                                         *)
LastDelivered == IF cb = "none" THEN state ELSE cbArg

DeliveryKept == \A i \in DOMAIN subs : subs[i] \in {NoState, LastDelivered}

WatchInv == ChannelOK /\ OneErrorAtATime /\ SomeWatch /\ DeliveryKept

-----------------------------------------------------------------------------
LEMMA WatchInit == Init => WatchInv
<1> SUFFICES ASSUME Init PROVE WatchInv
  OBVIOUS
<1>1. ChannelOK
  <2>1. <<NoState>> \in Seq(CoreState \cup {NoState})
    OBVIOUS
  <2> QED BY <2>1 DEF Init, ChannelOK, CoreState, HbStates
<1>2. OneErrorAtATime
  BY DEF Init, OneErrorAtATime
<1>3. SomeWatch
  BY DEF Init, SomeWatch
<1>4. DeliveryKept
  BY DEF Init, DeliveryKept
<1> QED BY <1>1, <1>2, <1>3, <1>4 DEF WatchInv

(* unsubscribe() removes the oldest subscription, if there is one; the     *)
(* others keep what was delivered to them.                                 *)
LEMMA UnsubscribeEffect ==
  ASSUME ChannelOK, DeliveryKept
  PROVE  /\ Unsubscribed \in Seq(CoreState \cup {NoState})
         /\ \A i \in DOMAIN Unsubscribed : Unsubscribed[i] \in {NoState, LastDelivered}
<1>1. CASE subs = <<>>
  BY <1>1 DEF Unsubscribed, ChannelOK, DeliveryKept
<1>2. CASE subs # <<>>
  <2>1. subs \in Seq(CoreState \cup {NoState}) /\ Unsubscribed = Tail(subs)
    BY <1>2 DEF Unsubscribed, ChannelOK
  <2>2. /\ Tail(subs) \in Seq(CoreState \cup {NoState})
        /\ \A i \in DOMAIN Tail(subs) : i + 1 \in DOMAIN subs /\ Tail(subs)[i] = subs[i + 1]
    BY <1>2, <2>1
  <2> QED BY <2>1, <2>2 DEF DeliveryKept
<1> QED BY <1>1, <1>2

LEMMA WatchStep == WatchInv /\ [Next]_vars => WatchInv'
<1> SUFFICES ASSUME WatchInv, [Next]_vars PROVE WatchInv'
  OBVIOUS
<1> USE DEF WatchInv, coreVars, cbVars, CoreState
<1>1. Heartbeat \in Thread /\ Heartbeat \notin Reporter
  BY ConnectivityAssumption DEF Thread, ConnectivityAssumption
<1>2. CASE Core \/ Nudge
  <2>1. core' \in CoreState /\ UNCHANGED <<cbVars, state, hb, err>>
    BY <1>2 DEF Core, ConnectFails, RetryConnect, Disconnect, Connect, Expire, Nudge, CoreStep, ChannelOK
  <2>2. ChannelOK' /\ OneErrorAtATime' /\ SomeWatch'
    BY <2>1 DEF ChannelOK, OneErrorAtATime, SomeWatch
  <2>3. DeliveryKept'
    BY <2>1 DEF DeliveryKept, LastDelivered
  <2> QED BY <2>2, <2>3
<1>3. CASE Deliver
  <2>1. /\ subs' = [i \in DOMAIN subs |-> core] /\ cb' = "reset" /\ cbArg' = core
        /\ UNCHANGED <<core, state, hb, err>>
    BY <1>3 DEF Deliver
  <2>2. subs' \in Seq(CoreState \cup {NoState}) /\ (subs # <<>> => subs' # <<>>)
    BY <2>1 DEF ChannelOK
  <2>3. ChannelOK' /\ OneErrorAtATime' /\ SomeWatch'
    BY <2>1, <2>2 DEF ChannelOK, OneErrorAtATime, SomeWatch
  <2>4. DeliveryKept'
    BY <2>1 DEF DeliveryKept, LastDelivered
  <2> QED BY <2>3, <2>4
<1>4. CASE CbReset \/ CbSet
  <2>1. UNCHANGED <<core, subs, hb, err>>
    BY <1>4 DEF CbReset, CbSet
  <2>2. LastDelivered' = LastDelivered
    BY <1>4 DEF CbReset, CbSet, WatchedAfter, LastDelivered
  <2>3. ChannelOK' /\ OneErrorAtATime' /\ SomeWatch'
    BY <2>1 DEF ChannelOK, OneErrorAtATime, SomeWatch
  <2>4. DeliveryKept'
    BY <2>1, <2>2 DEF DeliveryKept
  <2> QED BY <2>3, <2>4
<1>5. CASE HbStart \/ HbMark \/ HbCount \/ HbRefresh
  <2>1. UNCHANGED <<core, cbVars, state, err>> /\ hb' \in HbStates
    BY <1>5 DEF HbStart, HbMark, HbCount, HbRefresh, HbFrame, HbStates
  <2>2. OneErrorAtATime'
    BY <1>5 DEF HbStart, HbMark, HbCount, HbRefresh, OneErrorAtATime
  <2>3. ChannelOK' /\ SomeWatch'
    BY <2>1 DEF ChannelOK, SomeWatch
  <2>4. DeliveryKept'
    BY <2>1 DEF DeliveryKept, LastDelivered
  <2> QED BY <2>2, <2>3, <2>4
<1>6. CASE HbProps \/ HbPing
  <2>1. UNCHANGED <<core, cbVars, state>> /\ err[Heartbeat] = "none"
    BY <1>6 DEF HbProps, HbPing, HbFrame, OneErrorAtATime
  <2>2. err' = err \/ \E e \in {"none", "unsub"} : err' = [err EXCEPT ![Heartbeat] = e]
    BY <1>6 DEF HbProps, HbPing, RpcErrorHook
  <2>3. err' \in [Thread -> {"none", "unsub", "sub"}] /\ \A t \in Thread : err[t] = "sub" => err'[t] = "sub"
    BY <2>1, <2>2 DEF ChannelOK
  <2>4. hb' \in HbStates /\ (hb' = "mark" => err' = err) /\ hb' \notin {"props", "refresh", "ping"}
    BY <1>6 DEF HbProps, HbPing, AfterPropsFailure, HbStates
  <2>5. ChannelOK' /\ SomeWatch' /\ OneErrorAtATime'
    BY <2>1, <2>3, <2>4 DEF ChannelOK, SomeWatch, OneErrorAtATime
  <2>6. DeliveryKept'
    BY <2>1 DEF DeliveryKept, LastDelivered
  <2> QED BY <2>5, <2>6
<1>7. ASSUME NEW t \in Thread, Unsubscribe(t)
      PROVE  WatchInv'
  <2>1. /\ err[t] = "unsub" /\ subs' = Unsubscribed /\ err' = [err EXCEPT ![t] = "sub"]
        /\ UNCHANGED <<core, cb, cbArg, state, hb>>
    BY <1>7 DEF Unsubscribe
  <2>2. ChannelOK'
    BY <2>1, UnsubscribeEffect DEF ChannelOK
  <2>3. SomeWatch'
    BY <2>1 DEF SomeWatch, ChannelOK
  <2>4. OneErrorAtATime'
    BY <1>1, <2>1 DEF OneErrorAtATime, ChannelOK
  <2>5. DeliveryKept'
    BY <2>1, UnsubscribeEffect DEF DeliveryKept, LastDelivered
  <2> QED BY <2>2, <2>3, <2>4, <2>5
<1>8. ASSUME NEW t \in Thread, Subscribe(t)
      PROVE  WatchInv'
  <2>1. /\ err[t] = "sub" /\ subs' = Append(subs, NoState) /\ err' = [err EXCEPT ![t] = "none"]
        /\ core' \in CoreState
        /\ UNCHANGED <<cb, cbArg, state, hb>>
    BY <1>8 DEF Subscribe, Resubscribe, ChannelOK
  <2>2. subs \in Seq(CoreState \cup {NoState})
    BY DEF ChannelOK
  <2>3. /\ subs' \in Seq(CoreState \cup {NoState}) /\ subs' # <<>>
        /\ \A i \in DOMAIN subs' : subs'[i] = NoState \/ (i \in DOMAIN subs /\ subs'[i] = subs[i])
    BY <2>1, <2>2
  <2>4. ChannelOK' /\ SomeWatch'
    BY <2>1, <2>3 DEF ChannelOK, SomeWatch
  <2>5. OneErrorAtATime'
    BY <2>1 DEF OneErrorAtATime, ChannelOK
  <2>6. DeliveryKept'
    BY <2>1, <2>3 DEF DeliveryKept, LastDelivered
  <2> QED BY <2>4, <2>5, <2>6
<1>9. ASSUME NEW t \in Reporter, ReportFails(t)
      PROVE  WatchInv'
  <2>1. /\ err[t] = "none" /\ err' = [err EXCEPT ![t] = "unsub"] /\ t \in Thread /\ t # Heartbeat
        /\ UNCHANGED <<core, cbVars, state, hb>>
    BY <1>1, <1>9 DEF ReportFails, Thread
  <2>2. ChannelOK' /\ SomeWatch' /\ OneErrorAtATime'
    BY <1>1, <2>1 DEF ChannelOK, SomeWatch, OneErrorAtATime
  <2>3. DeliveryKept'
    BY <2>1 DEF DeliveryKept, LastDelivered
  <2> QED BY <2>2, <2>3
<1>10. CASE UNCHANGED vars
  <2>1. UNCHANGED <<core, cbVars, state, hb, err>>
    BY <1>10 DEF vars
  <2>2. ChannelOK' /\ SomeWatch' /\ OneErrorAtATime'
    BY <2>1 DEF ChannelOK, SomeWatch, OneErrorAtATime
  <2>3. DeliveryKept'
    BY <2>1 DEF DeliveryKept, LastDelivered
  <2> QED BY <2>2, <2>3
<1> QED
  BY <1>2, <1>3, <1>4, <1>5, <1>6, <1>7, <1>8, <1>9, <1>10
     DEF Next, Callback, HeartbeatStep, OnError

-----------------------------------------------------------------------------
(* However many threads re-subscribe after an RpcError and however their   *)
(* unsubscribe and subscribe calls interleave with the delivery thread,    *)
(* the agent keeps a watch on the channel or is about to renew it, and     *)
(* with nothing outstanding the watched state is the channel's.            *)
THEOREM WatchNeverLost == Spec => []WatchKept
<1>1. WatchInv => WatchKept
  <2> SUFFICES ASSUME WatchInv PROVE WatchKept
    OBVIOUS
  <2>1. subs # <<>> \/ \E t \in Thread : err[t] = "sub"
    BY DEF WatchInv, SomeWatch
  <2>2. ASSUME cb = "none", subs # <<>>, \A i \in DOMAIN subs : subs[i] = core
        PROVE  state = core
    <3>1. 1 \in DOMAIN subs
      BY <2>2 DEF WatchInv, ChannelOK
    <3>2. core \in {NoState, state} /\ core # NoState
      BY <2>2, <3>1 DEF WatchInv, DeliveryKept, LastDelivered, ChannelOK, CoreState, NoState
    <3> QED BY <3>2
  <2> QED BY <2>1, <2>2 DEF WatchKept
<1> QED BY WatchInit, WatchStep, <1>1, PTL DEF Spec
=============================================================================
