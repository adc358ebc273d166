-------------------------- MODULE ReporterQueueProofs ------------------------
(***************************************************************************)
(* Proofs about ReporterQueue, for every queue size, number of items and   *)
(* number of failing RPCs.                                                 *)
(***************************************************************************)
EXTENDS ReporterQueue, FiniteSetTheorems, TLAPS

(* A generator thread holds an item between get() and task_done(), and a   *)
(* slot that nobody uses has no generator thread.                          *)
SlotOK ==
  \A n \in Call : /\ gen[n] = "got" => held[n] \in Item
                  /\ call[n] = "free" => gen[n] = "off"

AccountInv == TypeOK /\ SlotOK /\ UnfinishedBalance

-----------------------------------------------------------------------------
(* Items and RPC slots are finite sets, and so is every set of them.       *)
LEMMA FiniteSets ==
  /\ IsFiniteSet(Item)
  /\ \A S \in SUBSET Item : IsFiniteSet(S) /\ Cardinality(S) \in Nat
  /\ \A S \in SUBSET Call : IsFiniteSet(S) /\ Cardinality(S) \in Nat
<1>1. IsFiniteSet(Item) /\ IsFiniteSet(Call)
  BY BoundsAssumption, FS_Interval DEF Item, Call, BoundsAssumption
<1>2. \A S \in SUBSET Item : IsFiniteSet(S) /\ Cardinality(S) \in Nat
  BY <1>1, FS_Subset, FS_CardinalityType
<1>3. \A S \in SUBSET Call : IsFiniteSet(S) /\ Cardinality(S) \in Nat
  BY <1>1, FS_Subset, FS_CardinalityType
<1> QED BY <1>1, <1>2, <1>3

(* A get() adds one thread to those holding an item, a task_done() or the  *)
(* end of a generator removes one.                                         *)
LEMMA HoldingChange ==
  ASSUME TypeOK, NEW n \in Call
  PROVE  /\ Cardinality(Holding) \in Nat
         /\ (gen[n] = "get" /\ gen' = [gen EXCEPT ![n] = "got"])
              => Cardinality(Holding') = Cardinality(Holding) + 1
         /\ (gen[n] = "got" /\ (gen' = [gen EXCEPT ![n] = "get"] \/ gen' = [gen EXCEPT ![n] = "off"]))
              => /\ Cardinality(Holding') = Cardinality(Holding) - 1
                 /\ Cardinality(Holding) > 0
         /\ (gen[n] = "get" /\ gen' = [gen EXCEPT ![n] = "off"])
              => Cardinality(Holding') = Cardinality(Holding)
         /\ (gen[n] = "off" /\ gen' = [gen EXCEPT ![n] = "get"])
              => Cardinality(Holding') = Cardinality(Holding)
<1>1. Holding \in SUBSET Call
  BY DEF Holding
<1>2. IsFiniteSet(Holding) /\ Cardinality(Holding) \in Nat
  BY <1>1, FiniteSets
<1>3. ASSUME gen[n] = "get", gen' = [gen EXCEPT ![n] = "got"]
      PROVE  Cardinality(Holding') = Cardinality(Holding) + 1
  <2>1. Holding' = Holding \cup {n} /\ n \notin Holding
    BY <1>3 DEF Holding, TypeOK
  <2> QED BY <2>1, <1>2, FS_AddElement
<1>4. ASSUME gen[n] = "got",
             gen' = [gen EXCEPT ![n] = "get"] \/ gen' = [gen EXCEPT ![n] = "off"]
      PROVE  /\ Cardinality(Holding') = Cardinality(Holding) - 1
             /\ Cardinality(Holding) > 0
  <2>1. Holding' = Holding \ {n} /\ n \in Holding
    BY <1>4 DEF Holding, TypeOK
  <2>2. Cardinality(Holding) # 0
    BY <2>1, <1>2, FS_EmptySet
  <2> QED BY <2>1, <2>2, <1>2, FS_RemoveElement
<1>5. ASSUME gen[n] = "get", gen' = [gen EXCEPT ![n] = "off"]
      PROVE  Cardinality(Holding') = Cardinality(Holding)
  <2>1. Holding' = Holding
    BY <1>5 DEF Holding, TypeOK
  <2> QED BY <2>1
<1>6. ASSUME gen[n] = "off", gen' = [gen EXCEPT ![n] = "get"]
      PROVE  Cardinality(Holding') = Cardinality(Holding)
  <2>1. Holding' = Holding
    BY <1>6 DEF Holding, TypeOK
  <2> QED BY <2>1
<1> QED BY <1>2, <1>3, <1>4, <1>5, <1>6

(* What an item taken off the queue is, and what the queue is afterwards.  *)
LEMMA TakeHead ==
  ASSUME TypeOK, queue # <<>>
  PROVE  /\ Head(queue) \in Item
         /\ Tail(queue) \in Seq(Item)
         /\ Len(Tail(queue)) = Len(queue) - 1
         /\ Len(queue) > 0
  BY DEF TypeOK

(* Counting finitely many dropped items keeps both drop variables typed.   *)
LEMMA CountType ==
  ASSUME TypeOK, NEW S \in SUBSET Item, CountDropped(S)
  PROVE  dropped' \in SUBSET Item /\ counted' \in Nat
<1>1. Cardinality(S) \in Nat
  BY FiniteSets
<1> QED BY <1>1 DEF CountDropped, TypeOK

-----------------------------------------------------------------------------
LEMMA AccountInit == Init => AccountInv
<1> SUFFICES ASSUME Init PROVE AccountInv
  OBVIOUS
<1> USE DEF Init
<1>1. TypeOK
  <2>1. <<>> \in Seq(Item) /\ Len(<<>>) = 0
    OBVIOUS
  <2>2. /\ call \in [Call -> Caller \cup {"free", "orphan"}]
        /\ gen \in [Call -> {"off", "get", "got"}]
        /\ held \in [Call -> Item \cup {NoItem}]
        /\ batch \in [Call -> Seq(Item)]
    BY <2>1
  <2>3. /\ loop \in LoopStates /\ flush \in FlushStates /\ fini \in FiniStates
        /\ reporting \in BOOLEAN /\ finished \in BOOLEAN /\ ready \in BOOLEAN
        /\ closed \in BOOLEAN /\ maySend \in BOOLEAN
    BY DEF LoopStates, FlushStates, FiniStates
  <2>4. queue \in Seq(Item) /\ Len(queue) <= MaxSize /\ archived \in 0 .. MaxItems
    BY <2>1, BoundsAssumption DEF BoundsAssumption
  <2> QED BY <2>2, <2>3, <2>4 DEF TypeOK
<1>2. SlotOK
  BY DEF SlotOK
<1>3. Holding = {}
  BY DEF Holding
<1>4. UnfinishedBalance
  BY <1>3, FS_EmptySet DEF UnfinishedBalance
<1> QED BY <1>1, <1>2, <1>4 DEF AccountInv

(* Steps that touch neither the queue nor a generator thread.              *)
LEMMA AccountFrame ==
  ASSUME UnfinishedBalance, SlotOK, UNCHANGED <<queue, unfinished, call, gen, held>>
  PROVE  UnfinishedBalance' /\ SlotOK'
<1>1. Holding' = Holding
  BY DEF Holding
<1> QED BY <1>1 DEF UnfinishedBalance, SlotOK

LEMMA AccountStep == AccountInv /\ [Next]_vars => AccountInv'
<1> SUFFICES ASSUME AccountInv, [Next]_vars PROVE AccountInv'
  OBVIOUS
<1> USE BoundsAssumption DEF BoundsAssumption, AccountInv
<1> USE DEF queueVars, chanVars, callVars, finiVars, fateVars, Caller, NoItem,
            LoopStates, FlushStates, FiniStates
<1>1. CASE Put
  <2>1. archived + 1 \in Item /\ Holding' = Holding
    BY <1>1 DEF Put, TypeOK, Item, Holding
  <2>2. TypeOK'
    BY <1>1, <2>1 DEF Put, TypeOK, QueueFull, PutItem
  <2>3. SlotOK' /\ UnfinishedBalance'
    <3>1. Len(queue') = Len(queue) + 1
      BY <1>1, <2>1 DEF Put, PutItem, TypeOK
    <3>2. Cardinality(Holding) \in Nat
      BY FiniteSets DEF Holding
    <3> QED BY <1>1, <2>1, <3>1, <3>2 DEF Put, SlotOK, UnfinishedBalance, TypeOK
  <2> QED BY <2>2, <2>3
<1>2. CASE PutFull
  <2>1. archived + 1 \in Item
    BY <1>2 DEF PutFull, TypeOK, Item
  <2>2. dropped' \in SUBSET Item /\ counted' \in Nat
    BY <1>2, <2>1, CountType DEF PutFull
  <2>3. TypeOK'
    BY <1>2, <2>1, <2>2 DEF PutFull, TypeOK
  <2> QED BY <1>2, <2>3, AccountFrame DEF PutFull
<1>3. CASE Connectivity
  <2>1. TypeOK'
    BY <1>3 DEF Connectivity, TypeOK
  <2> QED BY <1>3, <2>1, AccountFrame DEF Connectivity
<1>4. CASE LoopPoll \/ LoopExit
  <2>1. TypeOK'
    BY <1>4 DEF LoopPoll, LoopExit, TypeOK
  <2> QED BY <1>4, <2>1, AccountFrame DEF LoopPoll, LoopExit
<1>5. ASSUME NEW c \in Caller, OpenCall(c), UNCHANGED <<queue, unfinished>>
      PROVE  /\ call' \in [Call -> Caller \cup {"free", "orphan"}]
             /\ gen' \in [Call -> {"off", "get", "got"}]
             /\ held' = held /\ batch' = batch
             /\ SlotOK' /\ UnfinishedBalance'
  <2>1. PICK n \in Call : /\ call' = [call EXCEPT ![n] = c]
                          /\ gen' = [gen EXCEPT ![n] = "get"]
                          /\ call[n] = "free"
                          /\ UNCHANGED <<held, batch>>
    BY <1>5 DEF OpenCall
  <2>2. call' \in [Call -> Caller \cup {"free", "orphan"}] /\ gen' \in [Call -> {"off", "get", "got"}]
    BY <2>1 DEF TypeOK
  <2>3. SlotOK'
    BY <2>1 DEF SlotOK, TypeOK
  <2>4. UnfinishedBalance'
    BY <1>5, <2>1, HoldingChange DEF SlotOK, UnfinishedBalance
  <2> QED BY <2>1, <2>2, <2>3, <2>4
<1>6. CASE LoopReport
  <2>1. CASE OpenCall("loop") /\ loop' = "rpc"
    BY <1>6, <2>1, <1>5 DEF LoopReport, TypeOK
  <2>2. CASE loop' = "top" /\ UNCHANGED callVars
    <3>1. TypeOK'
      BY <1>6, <2>2 DEF LoopReport, TypeOK
    <3> QED BY <1>6, <2>2, <3>1, AccountFrame DEF LoopReport
  <2> QED BY <1>6, <2>1, <2>2 DEF LoopReport
<1>7. CASE FlushReport
  <2>1. CASE OpenCall("flush") /\ flush' = "rpc"
    BY <1>7, <2>1, <1>5 DEF FlushReport, TypeOK
  <2>2. CASE flush' = "done" /\ UNCHANGED callVars
    <3>1. TypeOK'
      BY <1>7, <2>2 DEF FlushReport, TypeOK
    <3> QED BY <1>7, <2>2, <3>1, AccountFrame DEF FlushReport
  <2> QED BY <1>7, <2>1, <2>2 DEF FlushReport
<1>8. ASSUME NEW n \in Call, GenGet(n)
      PROVE  AccountInv'
  <2>1. TypeOK'
    BY <1>8, TakeHead DEF GenGet, TypeOK
  <2>2. SlotOK'
    BY <1>8, TakeHead DEF GenGet, SlotOK, TypeOK
  <2>3. UnfinishedBalance'
    <3>1. Cardinality(Holding') = Cardinality(Holding) + 1 /\ Cardinality(Holding) \in Nat
      BY <1>8, HoldingChange DEF GenGet
    <3>2. Len(queue') = Len(queue) - 1 /\ Len(queue) \in Nat /\ unfinished' = unfinished
      BY <1>8, TakeHead DEF GenGet, TypeOK
    <3> QED BY <3>1, <3>2 DEF UnfinishedBalance
  <2> QED BY <2>1, <2>2, <2>3
<1>9. ASSUME NEW n \in Call, GenDone(n)
      PROVE  AccountInv'
  <2>1. held[n] \in Item
    BY <1>9 DEF GenDone, SlotOK
  <2>2. /\ gen' = [gen EXCEPT ![n] = "get"] \/ gen' = [gen EXCEPT ![n] = "off"]
        /\ gen[n] = "got"
    BY <1>9 DEF GenDone
  <2>3. UnfinishedBalance' /\ unfinished' \in Nat
    <3>1. /\ Cardinality(Holding') = Cardinality(Holding) - 1
          /\ Cardinality(Holding) > 0 /\ Cardinality(Holding) \in Nat
      BY <2>2, HoldingChange
    <3>2. Len(queue) \in Nat /\ queue' = queue /\ unfinished' = unfinished - 1
      BY <1>9 DEF GenDone, TaskDone, TypeOK
    <3> QED BY <3>1, <3>2 DEF UnfinishedBalance
  <2>4. CASE call[n] = "orphan"
    <3>1. TypeOK'
      <4>1. batch' \in [Call -> Seq(Item)]
        <5>1. <<>> \in Seq(Item) /\ batch \in [Call -> Seq(Item)]
          BY DEF TypeOK
        <5>2. batch' = [batch EXCEPT ![n] = <<>>]
          BY <1>9, <2>4 DEF GenDone
        <5> QED BY <5>1, <5>2
      <4>2. late' \in SUBSET Item
        BY <1>9, <2>1, <2>4 DEF GenDone, TypeOK
      <4>3. /\ call' \in [Call -> Caller \cup {"free", "orphan"}]
            /\ gen' \in [Call -> {"off", "get", "got"}]
            /\ held' \in [Call -> Item \cup {NoItem}]
        BY <1>9, <2>4 DEF GenDone, TypeOK
      <4> QED BY <1>9, <2>3, <2>4, <4>1, <4>2, <4>3 DEF GenDone, TypeOK
    <3>2. SlotOK'
      BY <1>9, <2>4 DEF GenDone, SlotOK, TypeOK
    <3> QED BY <2>3, <3>1, <3>2
  <2>5. CASE call[n] # "orphan"
    <3>1. batch' \in [Call -> Seq(Item)]
      <4>1. batch[n] \in Seq(Item) /\ batch \in [Call -> Seq(Item)]
        BY DEF TypeOK
      <4>2. Append(batch[n], held[n]) \in Seq(Item)
        BY <2>1, <4>1
      <4>3. batch' = [batch EXCEPT ![n] = Append(batch[n], held[n])]
        BY <1>9, <2>5 DEF GenDone
      <4> QED BY <4>1, <4>2, <4>3
    <3>2. TypeOK'
      <4>1. /\ gen' \in [Call -> {"off", "get", "got"}]
            /\ held' \in [Call -> Item \cup {NoItem}]
        BY <1>9, <2>5 DEF GenDone, TypeOK
      <4> QED BY <1>9, <2>3, <2>5, <3>1, <4>1 DEF GenDone, TypeOK
    <3>3. SlotOK'
      BY <1>9, <2>5 DEF GenDone, SlotOK, TypeOK
    <3> QED BY <2>3, <3>2, <3>3
  <2> QED BY <2>4, <2>5
<1>10. ASSUME NEW n \in Call, GenEnd(n)
       PROVE  AccountInv'
  <2>1. TypeOK'
    <3>1. /\ gen' \in [Call -> {"off", "get", "got"}]
          /\ call' \in [Call -> Caller \cup {"free", "orphan"}]
      BY <1>10 DEF GenEnd, TypeOK
    <3>2. batch' \in [Call -> Seq(Item)]
      <4>1. <<>> \in Seq(Item) /\ batch \in [Call -> Seq(Item)]
        BY DEF TypeOK
      <4>2. batch' = [batch EXCEPT ![n] = <<>>] \/ batch' = batch
        BY <1>10 DEF GenEnd
      <4> QED BY <4>1, <4>2
    <3> QED BY <1>10, <3>1, <3>2 DEF GenEnd, TypeOK
  <2>2. SlotOK'
    BY <1>10 DEF GenEnd, SlotOK, TypeOK
  <2>3. UnfinishedBalance'
    BY <1>10, HoldingChange DEF GenEnd, UnfinishedBalance
  <2> QED BY <2>1, <2>2, <2>3
<1>11. ASSUME NEW n \in Call
       PROVE  Sent(n) \in SUBSET Item
  BY DEF Sent, Range, TypeOK
<1>12. ASSUME NEW n \in Call, RpcOk(n)
       PROVE  AccountInv'
  <2>1. TypeOK'
    BY <1>12, <1>11 DEF RpcOk, Return, TypeOK
  <2>2. SlotOK'
    BY <1>12 DEF RpcOk, SlotOK, TypeOK
  <2>3. Holding' = Holding
    BY <1>12 DEF RpcOk, Holding
  <2>4. UnfinishedBalance'
    BY <1>12, <2>3 DEF RpcOk, UnfinishedBalance
  <2> QED BY <2>1, <2>2, <2>4
<1>13. ASSUME NEW n \in Call, RpcFail(n)
       PROVE  AccountInv'
  <2>1. delivered' \in SUBSET Item
    BY <1>13 DEF RpcFail, TypeOK
  <2>2. dropped' \in SUBSET Item /\ counted' \in Nat
    BY <1>13, <1>11, CountType DEF RpcFail
  <2>3. TypeOK'
    BY <1>13, <2>1, <2>2 DEF RpcFail, Return, TypeOK
  <2>4. SlotOK'
    BY <1>13 DEF RpcFail, SlotOK, TypeOK
  <2>5. Holding' = Holding
    BY <1>13 DEF RpcFail, Holding
  <2>6. UnfinishedBalance'
    BY <1>13, <2>5 DEF RpcFail, UnfinishedBalance
  <2> QED BY <2>3, <2>4, <2>6
<1>14. CASE FiniStart \/ FiniFlush \/ FiniFlushWait \/ FiniJoin \/ FiniClose \/ StopReturn
  <2>1. TypeOK'
    <3>1. CASE FiniStart
      BY <3>1 DEF FiniStart, TypeOK
    <3>2. CASE FiniFlush
      BY <3>2 DEF FiniFlush, TypeOK
    <3>3. CASE FiniFlushWait \/ FiniJoin
      BY <3>3 DEF FiniFlushWait, FiniJoin, TypeOK
    <3>4. CASE FiniClose
      BY <3>4 DEF FiniClose, TypeOK
    <3>5. CASE StopReturn
      BY <3>5 DEF StopReturn, TypeOK
    <3> QED BY <1>14, <3>1, <3>2, <3>3, <3>4, <3>5
  <2>2. UNCHANGED <<queue, unfinished, call, gen, held>>
    BY <1>14 DEF FiniStart, FiniFlush, FiniFlushWait, FiniJoin, FiniClose, StopReturn
  <2> QED BY <2>1, <2>2, AccountFrame
<1>15. CASE FiniAbandon
  <2>1. Holding' = Holding /\ Cardinality(Holding) \in Nat
    BY <1>15, FiniteSets DEF FiniAbandon, Holding
  <2>2. UnfinishedBalance' /\ unfinished' \in Nat
    <3>1. Len(queue') = Len(queue) - 1 /\ Len(queue) > 0 /\ Len(queue) \in Nat /\ unfinished' = unfinished - 1
      BY <1>15, TakeHead DEF FiniAbandon, TaskDone, TypeOK
    <3> QED BY <2>1, <3>1 DEF UnfinishedBalance
  <2>3. TypeOK'
    BY <1>15, <2>2, TakeHead DEF FiniAbandon, TypeOK
  <2>4. SlotOK'
    BY <1>15 DEF FiniAbandon, SlotOK
  <2> QED BY <2>2, <2>3, <2>4
<1>16. CASE FiniAbandoned
  <2>1. dropped' \in SUBSET Item /\ counted' \in Nat
    BY <1>16, CountType DEF FiniAbandoned, TypeOK
  <2>2. TypeOK'
    BY <1>16, <2>1 DEF FiniAbandoned, TypeOK
  <2> QED BY <1>16, <2>2, AccountFrame DEF FiniAbandoned
<1>17. CASE UNCHANGED vars
  <2>1. TypeOK'
    BY <1>17 DEF vars, TypeOK
  <2> QED BY <1>17, <2>1, AccountFrame DEF vars
<1> QED
  BY <1>1, <1>2, <1>3, <1>4, <1>6, <1>7, <1>8, <1>9, <1>10, <1>12, <1>13,
     <1>14, <1>15, <1>16, <1>17
     DEF Next, Host, Loop, Rpc, Fini

-----------------------------------------------------------------------------
(***************************************************************************)
(* Where an item is. LossesAccounted and the refinement of LossyChannel    *)
(* are not inductive by themselves: that a batch is counted once needs     *)
(* that no other thread holds one of its items, hence that every item is   *)
(* in one place only, hence that the queue, the generator threads and the  *)
(* batches hold no item twice.                                             *)
(***************************************************************************)
Orphans == {n \in Call : call[n] = "orphan"}

NoDuplicates ==
  /\ \A i, j \in DOMAIN queue : queue[i] = queue[j] => i = j
  /\ \A m, n \in Holding : held[m] = held[n] => m = n
  /\ \A m, n \in Flying : m # n => Sent(m) \cap Sent(n) = {}
  /\ \A n \in Call : call[n] = "free" => batch[n] = <<>>

Apart ==
  /\ Range(queue) \cap (HeldItems \cup InBatches \cup abandoned \cup Gone) = {}
  /\ HeldItems \cap (InBatches \cup abandoned \cup Gone) = {}
  /\ InBatches \cap (abandoned \cup Gone) = {}
  /\ abandoned \cap Gone = {}

AllPlaced == 1 .. archived = Pending \cup Gone

(* Every failed RPC leaves at most one generator thread behind, which      *)
(* takes at most one item more.                                            *)
OrphanBudget == Cardinality(late) + Cardinality(Orphans) <= failures

DropsCounted == counted = Cardinality(dropped)

PlaceInv == AccountInv /\ NoDuplicates /\ Apart /\ AllPlaced /\ OrphanBudget /\ DropsCounted

-----------------------------------------------------------------------------
(* get() or get_nowait() moves exactly one item out of the queue.          *)
LEMMA TakeEffect ==
  ASSUME TypeOK, NoDuplicates, queue # <<>>, queue' = Tail(queue)
  PROVE  /\ Head(queue) \in Range(queue)
         /\ Range(queue') = Range(queue) \ {Head(queue)}
         /\ \A i, j \in DOMAIN queue' : queue'[i] = queue'[j] => i = j
<1>1. /\ queue \in Seq(Item) /\ Len(queue) \in Nat /\ Len(queue) > 0
      /\ Tail(queue) \in Seq(Item) /\ Len(Tail(queue)) = Len(queue) - 1
      /\ Head(queue) = queue[1]
  BY DEF TypeOK
<1>2. /\ DOMAIN queue = 1 .. Len(queue) /\ DOMAIN queue' = 1 .. (Len(queue) - 1)
      /\ \A i \in DOMAIN queue' : queue'[i] = queue[i + 1]
  BY <1>1
<1>3. \A i, j \in DOMAIN queue : queue[i] = queue[j] => i = j
  BY DEF NoDuplicates
<1>4. \A i, j \in DOMAIN queue' : queue'[i] = queue'[j] => i = j
  BY <1>1, <1>2, <1>3
<1>5. Head(queue) \in Range(queue)
  BY <1>1, <1>2 DEF Range
<1>6. Range(queue') \subseteq Range(queue) \ {Head(queue)}
  BY <1>1, <1>2, <1>3 DEF Range
<1>7. Range(queue) \ {Head(queue)} \subseteq Range(queue')
  <2> SUFFICES ASSUME NEW i \in DOMAIN queue, queue[i] # Head(queue)
               PROVE  queue[i] \in Range(queue')
    BY DEF Range
  <2>1. i # 1 /\ i - 1 \in DOMAIN queue' /\ queue'[i - 1] = queue[i]
    BY <1>1, <1>2
  <2> QED BY <2>1 DEF Range
<1> QED BY <1>4, <1>5, <1>6, <1>7

(* put() adds exactly the new item, at the end.                            *)
LEMMA PutEffect ==
  ASSUME TypeOK, NoDuplicates, NEW x \in Item, x \notin Range(queue), queue' = Append(queue, x)
  PROVE  /\ Range(queue') = Range(queue) \cup {x}
         /\ \A i, j \in DOMAIN queue' : queue'[i] = queue'[j] => i = j
<1>1. queue \in Seq(Item) /\ Len(queue) \in Nat
  BY DEF TypeOK
<1>2. /\ DOMAIN queue = 1 .. Len(queue) /\ DOMAIN queue' = 1 .. (Len(queue) + 1)
      /\ \A i \in DOMAIN queue : queue'[i] = queue[i]
      /\ queue'[Len(queue) + 1] = x
  BY <1>1
<1>3. \A i \in DOMAIN queue' : i \in DOMAIN queue \/ i = Len(queue) + 1
  BY <1>1, <1>2
<1>4. \A i \in DOMAIN queue : queue[i] # x
  BY DEF Range
<1>5. \A i, j \in DOMAIN queue : queue[i] = queue[j] => i = j
  BY DEF NoDuplicates
<1>6. \A i, j \in DOMAIN queue' : queue'[i] = queue'[j] => i = j
  BY <1>2, <1>3, <1>4, <1>5
<1>7. \A i \in DOMAIN queue : i \in DOMAIN queue'
  BY <1>1, <1>2
<1>8. Len(queue) + 1 \in DOMAIN queue'
  BY <1>1, <1>2
<1>9. Range(queue') = Range(queue) \cup {x}
  BY <1>2, <1>3, <1>7, <1>8 DEF Range
<1> QED BY <1>6, <1>9

(* A get() by the generator of RPC n adds its item to the held ones.       *)
LEMMA HoldEffect ==
  ASSUME TypeOK, NoDuplicates, NEW n \in Call, NEW x, x \notin HeldItems, gen[n] = "get",
         gen' = [gen EXCEPT ![n] = "got"], held' = [held EXCEPT ![n] = x]
  PROVE  /\ HeldItems' = HeldItems \cup {x}
         /\ \A k, m \in Holding' : held'[k] = held'[m] => k = m
<1>1. gen \in [Call -> {"off", "get", "got"}] /\ held \in [Call -> Item \cup {NoItem}]
  BY DEF TypeOK
<1>2. Holding' = Holding \cup {n} /\ n \notin Holding
  BY <1>1 DEF Holding
<1>3. held'[n] = x /\ \A m \in Holding : held'[m] = held[m]
  BY <1>1, <1>2 DEF Holding
<1>4. HeldItems' = HeldItems \cup {x}
  BY <1>2, <1>3 DEF HeldItems
<1>5. \A m \in Holding : held[m] # x
  BY DEF HeldItems
<1>6. \A k, m \in Holding : held[k] = held[m] => k = m
  BY DEF NoDuplicates
<1> QED BY <1>2, <1>3, <1>4, <1>5, <1>6

(* A task_done() by the generator of RPC n removes exactly its item.       *)
LEMMA ReleaseEffect ==
  ASSUME TypeOK, NoDuplicates, NEW n \in Call, NEW s \in {"get", "off"}, gen[n] = "got",
         gen' = [gen EXCEPT ![n] = s], held' = [held EXCEPT ![n] = NoItem]
  PROVE  /\ held[n] \in HeldItems
         /\ HeldItems' = HeldItems \ {held[n]}
         /\ \A k, m \in Holding' : held'[k] = held'[m] => k = m
<1>1. gen \in [Call -> {"off", "get", "got"}] /\ held \in [Call -> Item \cup {NoItem}]
  BY DEF TypeOK
<1>2. Holding' = Holding \ {n} /\ n \in Holding
  BY <1>1 DEF Holding
<1>3. \A m \in Holding' : held'[m] = held[m]
  BY <1>1, <1>2 DEF Holding
<1>4. \A k, m \in Holding : held[k] = held[m] => k = m
  BY DEF NoDuplicates
<1>5. HeldItems' = HeldItems \ {held[n]} /\ held[n] \in HeldItems
  BY <1>2, <1>3, <1>4 DEF HeldItems
<1> QED BY <1>2, <1>3, <1>4, <1>5

(* Opening an RPC, or ending a generator without an item, moves no item.   *)
LEMMA SlotEffect ==
  ASSUME TypeOK, NoDuplicates, UNCHANGED held, Holding' = Holding,
         \A m \in Flying' : (m \in Flying /\ batch'[m] = batch[m]) \/ batch'[m] = <<>>,
         \A m \in Flying : m \in Flying' /\ batch'[m] = batch[m]
  PROVE  /\ HeldItems' = HeldItems /\ InBatches' = InBatches
         /\ \A k, m \in Holding' : held'[k] = held'[m] => k = m
         /\ \A k, m \in Flying' : k # m => Sent(k)' \cap Sent(m)' = {}
<1>1. Range(<<>>) = {}
  BY DEF Range
<1>2. HeldItems' = HeldItems /\ \A k, m \in Holding' : held'[k] = held'[m] => k = m
  BY DEF HeldItems, NoDuplicates
<1>3. \A m \in Flying' : Range(batch'[m]) = {} \/ (m \in Flying /\ Range(batch'[m]) = Range(batch[m]))
  BY <1>1
<1>4. InBatches' = InBatches
  BY <1>3 DEF InBatches
<1>5. \A k, m \in Flying' : k # m => Sent(k)' \cap Sent(m)' = {}
  BY <1>3 DEF NoDuplicates, Sent
<1> QED BY <1>2, <1>4, <1>5

(* yield adds exactly the held item to the batch of RPC n.                 *)
LEMMA YieldEffect ==
  ASSUME TypeOK, NoDuplicates, NEW n \in Call, n \in Flying, NEW x \in Item, x \notin InBatches,
         UNCHANGED call, batch' = [batch EXCEPT ![n] = Append(@, x)]
  PROVE  /\ InBatches' = InBatches \cup {x}
         /\ \A k, m \in Flying' : k # m => Sent(k)' \cap Sent(m)' = {}
         /\ \A m \in Call : call'[m] = "free" => batch'[m] = <<>>
<1>1. batch[n] \in Seq(Item) /\ batch \in [Call -> Seq(Item)] /\ Len(batch[n]) \in Nat
  BY DEF TypeOK
<1>2. batch'[n] = Append(batch[n], x) /\ \A m \in Call : m # n => batch'[m] = batch[m]
  BY <1>1
<1>3. Range(batch'[n]) = Range(batch[n]) \cup {x}
  <2>1. /\ DOMAIN batch[n] = 1 .. Len(batch[n]) /\ DOMAIN batch'[n] = 1 .. (Len(batch[n]) + 1)
        /\ \A i \in DOMAIN batch[n] : batch'[n][i] = batch[n][i]
        /\ batch'[n][Len(batch[n]) + 1] = x
    BY <1>1, <1>2
  <2>2. \A i \in DOMAIN batch'[n] : i \in DOMAIN batch[n] \/ i = Len(batch[n]) + 1
    BY <1>1, <2>1
  <2>3. \A i \in DOMAIN batch[n] : i \in DOMAIN batch'[n]
    BY <1>1, <2>1
  <2>4. Len(batch[n]) + 1 \in DOMAIN batch'[n]
    BY <1>1, <2>1
  <2> QED BY <2>1, <2>2, <2>3, <2>4 DEF Range
<1>4. Flying' = Flying /\ Flying \subseteq Call
  BY DEF Flying
<1>5. \A m \in Flying : m # n => Range(batch'[m]) = Range(batch[m])
  BY <1>2, <1>4
<1>6. InBatches' = InBatches \cup {x}
  BY <1>3, <1>4, <1>5 DEF InBatches
<1>7. \A m \in Flying : x \notin Range(batch[m])
  BY DEF InBatches
<1>8. \A k, m \in Flying : k # m => Range(batch[k]) \cap Range(batch[m]) = {}
  BY DEF NoDuplicates, Sent
<1>9. \A k, m \in Flying' : k # m => Range(batch'[k]) \cap Range(batch'[m]) = {}
  BY <1>3, <1>4, <1>5, <1>7, <1>8
<1>10. call[n] # "free"
  BY DEF Flying, Caller
<1>11. \A m \in Call : call'[m] = "free" => batch'[m] = <<>>
  BY <1>2, <1>10 DEF NoDuplicates
<1> QED BY <1>6, <1>9, <1>11 DEF Sent

(* The end of RPC n takes exactly its batch out of flight.                 *)
LEMMA ReturnEffect ==
  ASSUME TypeOK, NoDuplicates, NEW n \in Call, n \in Flying, NEW s \in {"free", "orphan"}, NEW b,
         call' = [call EXCEPT ![n] = s], batch' = [batch EXCEPT ![n] = b], s = "free" => b = <<>>
  PROVE  /\ Sent(n) \subseteq InBatches /\ InBatches' = InBatches \ Sent(n)
         /\ \A k, m \in Flying' : k # m => Sent(k)' \cap Sent(m)' = {}
         /\ \A m \in Call : call'[m] = "free" => batch'[m] = <<>>
<1>1. call \in [Call -> Caller \cup {"free", "orphan"}] /\ batch \in [Call -> Seq(Item)]
  BY DEF TypeOK
<1>2. Flying' = Flying \ {n} /\ Flying \subseteq Call
  BY <1>1 DEF Flying, Caller
<1>3. \A m \in Flying' : batch'[m] = batch[m]
  BY <1>1, <1>2
<1>4. \A k, m \in Flying : k # m => Range(batch[k]) \cap Range(batch[m]) = {}
  BY DEF NoDuplicates, Sent
<1>5. \A k, m \in Flying' : k # m => Range(batch'[k]) \cap Range(batch'[m]) = {}
  BY <1>2, <1>3, <1>4
<1>6. InBatches' = UNION {Range(batch[m]) : m \in Flying \ {n}}
  BY <1>2, <1>3 DEF InBatches
<1>7. InBatches' = InBatches \ Range(batch[n]) /\ Range(batch[n]) \subseteq InBatches
  BY <1>4, <1>6 DEF InBatches
<1>8. \A m \in Call : call'[m] = "free" => batch'[m] = <<>>
  BY <1>1 DEF NoDuplicates
<1> QED BY <1>5, <1>7, <1>8 DEF Sent

(* The end of a generator left behind by a failed RPC frees its slot and   *)
(* moves no item.                                                          *)
LEMMA OrphanEndEffect ==
  ASSUME TypeOK, NoDuplicates, NEW n \in Call, call[n] = "orphan",
         call' = [call EXCEPT ![n] = "free"], batch' = [batch EXCEPT ![n] = <<>>]
  PROVE  /\ InBatches' = InBatches
         /\ \A k, m \in Flying' : k # m => Sent(k)' \cap Sent(m)' = {}
         /\ \A m \in Call : call'[m] = "free" => batch'[m] = <<>>
         /\ Cardinality(Orphans') = Cardinality(Orphans) - 1
         /\ Cardinality(Orphans) \in Nat
<1>1. call \in [Call -> Caller \cup {"free", "orphan"}] /\ batch \in [Call -> Seq(Item)]
  BY DEF TypeOK
<1>2. Flying' = Flying /\ n \notin Flying /\ Flying \subseteq Call
  BY <1>1 DEF Flying, Caller
<1>3. \A m \in Flying' : batch'[m] = batch[m]
  BY <1>1, <1>2
<1>4. InBatches' = InBatches
  BY <1>2, <1>3 DEF InBatches
<1>5. \A k, m \in Flying' : k # m => Sent(k)' \cap Sent(m)' = {}
  BY <1>2, <1>3 DEF Sent, NoDuplicates
<1>6. \A m \in Call : call'[m] = "free" => batch'[m] = <<>>
  BY <1>1 DEF NoDuplicates
<1>7. Orphans' = Orphans \ {n} /\ n \in Orphans /\ Orphans \in SUBSET Call
  BY <1>1 DEF Orphans
<1>8. Cardinality(Orphans') = Cardinality(Orphans) - 1 /\ Cardinality(Orphans) \in Nat
  BY <1>7, FiniteSets, FS_RemoveElement
<1> QED BY <1>4, <1>5, <1>6, <1>8

(* Counting items as dropped that were not dropped before keeps the drop   *)
(* count equal to the number of dropped items.                             *)
LEMMA CountEffect ==
  ASSUME TypeOK, DropsCounted, NEW S \in SUBSET Item, S \cap dropped = {}, CountDropped(S)
  PROVE  DropsCounted'
<1>1. IsFiniteSet(S) /\ IsFiniteSet(dropped) /\ Cardinality(S) \in Nat /\ Cardinality(dropped) \in Nat
  BY FiniteSets DEF TypeOK
<1>2. Cardinality(dropped \cup S) = Cardinality(dropped) + Cardinality(S) - Cardinality(dropped \cap S)
  BY <1>1, FS_Union
<1>3. Cardinality(dropped \cap S) = 0
  <2>1. dropped \cap S = {}
    OBVIOUS
  <2> QED BY <2>1, FS_EmptySet
<1> QED BY <1>1, <1>2, <1>3 DEF CountDropped, DropsCounted

(* Settling pending items, each as delivered or as lost, is a step of the  *)
(* abstract channel.                                                       *)
LEMMA SettleStep ==
  ASSUME NEW d \in SUBSET Pending, NEW x \in SUBSET Pending, d \cap x = {},
         Pending' = Pending \ (d \cup x), delivered' = delivered \cup d,
         (dropped' \cup late') \ delivered' = ((dropped \cup late) \ delivered) \cup x,
         archived' = archived
  PROVE  Abstract!Settle
  BY DEF Abstract!Settle

-----------------------------------------------------------------------------
LEMMA PlaceInit == Init => PlaceInv /\ Abstract!Init
<1> SUFFICES ASSUME Init PROVE PlaceInv /\ Abstract!Init
  OBVIOUS
<1>1. AccountInv
  BY AccountInit
<1>2. Range(queue) = {}
  BY DEF Init, Range
<1>3. Holding = {} /\ Flying = {} /\ Orphans = {}
  BY DEF Init, Holding, Flying, Orphans, Caller
<1>4. HeldItems = {} /\ InBatches = {}
  BY <1>3 DEF HeldItems, InBatches
<1>5. Pending = {} /\ Gone = {}
  BY <1>2, <1>4 DEF Init, Pending, Gone
<1>6. NoDuplicates
  <2>1. DOMAIN queue = {}
    BY DEF Init
  <2>2. \A n \in Call : batch[n] = <<>>
    BY DEF Init
  <2> QED BY <1>3, <2>1, <2>2 DEF NoDuplicates
<1>7. Apart
  BY <1>2, <1>4, <1>5 DEF Apart, Init
<1>8. AllPlaced
  <2>1. 1 .. archived = {}
    BY DEF Init
  <2> QED BY <2>1, <1>5 DEF AllPlaced
<1>9. OrphanBudget /\ DropsCounted
  BY <1>3, FS_EmptySet DEF Init, OrphanBudget, DropsCounted
<1>10. Abstract!Init
  BY <1>5 DEF Init, Abstract!Init
<1> QED BY <1>1, <1>6, <1>7, <1>8, <1>9, <1>10 DEF PlaceInv

(* A step that moves no item from one place to another is invisible.       *)
LEMMA PlaceFrame ==
  ASSUME PlaceInv, UNCHANGED <<queue, archived, abandoned, fateVars>>,
         HeldItems' = HeldItems, InBatches' = InBatches
  PROVE  /\ Apart' /\ AllPlaced' /\ DropsCounted'
         /\ UNCHANGED Abstract!vars
<1>1. Range(queue)' = Range(queue) /\ Gone' = Gone
  BY DEF fateVars, Gone
<1>2. Pending' = Pending
  BY <1>1 DEF Pending
<1> QED BY <1>1, <1>2 DEF PlaceInv, Apart, AllPlaced, DropsCounted, fateVars, Abstract!vars

(* A step that touches neither the queue nor an RPC nor an item's fate.    *)
LEMMA PlaceStutter ==
  ASSUME PlaceInv, UNCHANGED <<queue, archived, callVars, abandoned, fateVars>>
  PROVE  /\ NoDuplicates' /\ Apart' /\ AllPlaced' /\ OrphanBudget' /\ DropsCounted'
         /\ UNCHANGED Abstract!vars
<1>1. Holding' = Holding /\ Flying' = Flying /\ Orphans' = Orphans
  BY DEF callVars, Holding, Flying, Orphans
<1>2. HeldItems' = HeldItems /\ InBatches' = InBatches
  BY <1>1 DEF callVars, HeldItems, InBatches
<1>3. NoDuplicates'
  BY <1>1 DEF PlaceInv, NoDuplicates, callVars, Sent
<1>4. OrphanBudget'
  BY <1>1 DEF PlaceInv, OrphanBudget, fateVars
<1> QED BY <1>2, <1>3, <1>4, PlaceFrame

(* An RPC is opened on a free slot, whose batch is empty.                  *)
LEMMA PlaceOpen ==
  ASSUME PlaceInv, NEW c \in Caller, OpenCall(c), UNCHANGED <<queue, archived, abandoned, fateVars>>
  PROVE  /\ NoDuplicates' /\ Apart' /\ AllPlaced' /\ OrphanBudget' /\ DropsCounted'
         /\ UNCHANGED Abstract!vars
<1> USE DEF PlaceInv, AccountInv
<1>1. PICK n \in Call : /\ call[n] = "free"
                        /\ call' = [call EXCEPT ![n] = c]
                        /\ gen' = [gen EXCEPT ![n] = "get"]
                        /\ UNCHANGED <<held, batch>>
  BY DEF OpenCall
<1>2. call \in [Call -> Caller \cup {"free", "orphan"}] /\ gen \in [Call -> {"off", "get", "got"}]
  BY DEF TypeOK
<1>3. Flying' = Flying \cup {n} /\ Orphans' = Orphans
  BY <1>1, <1>2 DEF Flying, Orphans, Caller
<1>4. Holding' = Holding
  BY <1>1, <1>2 DEF Holding, SlotOK
<1>5. batch[n] = <<>>
  BY <1>1 DEF NoDuplicates
<1>6. /\ HeldItems' = HeldItems /\ InBatches' = InBatches
      /\ \A k, m \in Holding' : held'[k] = held'[m] => k = m
      /\ \A k, m \in Flying' : k # m => Sent(k)' \cap Sent(m)' = {}
  BY <1>1, <1>3, <1>4, <1>5, SlotEffect
<1>7. \A m \in Call : call'[m] = "free" => batch'[m] = <<>>
  BY <1>1, <1>2 DEF NoDuplicates, Caller
<1>8. NoDuplicates'
  BY <1>6, <1>7 DEF NoDuplicates
<1>9. OrphanBudget'
  BY <1>3 DEF OrphanBudget, fateVars
<1> QED BY <1>6, <1>8, <1>9, PlaceFrame

(* Every step keeps each item in one place and maps to a step of           *)
(* LossyChannel or to none.                                                *)
LEMMA PlaceStep == PlaceInv /\ [Next]_vars => PlaceInv' /\ [Abstract!Next]_(Abstract!vars)
<1> DEFINE Kept == NoDuplicates' /\ Apart' /\ AllPlaced' /\ OrphanBudget' /\ DropsCounted'
           Mapped == [Abstract!Next]_(Abstract!vars)
<1> SUFFICES ASSUME PlaceInv, [Next]_vars PROVE Kept /\ Mapped
  BY AccountStep DEF PlaceInv
<1> USE DEF PlaceInv, AccountInv
<1>1. archived \in Nat /\ archived + 1 \notin 1 .. archived /\ 1 .. (archived + 1) = (1 .. archived) \cup {archived + 1}
  BY BoundsAssumption DEF TypeOK, BoundsAssumption
<1>2. archived + 1 \notin Pending \cup Gone
  BY <1>1 DEF AllPlaced
<1>3. CASE Put
  <2>1. archived + 1 \in Item /\ archived < MaxItems
    BY <1>3, BoundsAssumption DEF Put, TypeOK, Item, BoundsAssumption
  <2>2. /\ queue' = Append(queue, archived + 1) /\ archived' = archived + 1
        /\ UNCHANGED <<callVars, abandoned, fateVars>>
    BY <1>3 DEF Put, PutItem, finiVars
  <2>3. /\ Range(queue)' = Range(queue) \cup {archived + 1}
        /\ \A i, j \in DOMAIN queue' : queue'[i] = queue'[j] => i = j
    BY <1>2, <2>1, <2>2, PutEffect DEF Pending
  <2>4. Holding' = Holding /\ Flying' = Flying /\ Orphans' = Orphans
    BY <2>2 DEF callVars, Holding, Flying, Orphans
  <2>5. HeldItems' = HeldItems /\ InBatches' = InBatches /\ Gone' = Gone
    BY <2>2, <2>4 DEF callVars, fateVars, HeldItems, InBatches, Gone
  <2>6. NoDuplicates'
    BY <2>2, <2>3, <2>4 DEF NoDuplicates, callVars, Sent
  <2>7. Pending' = Pending \cup {archived + 1}
    BY <2>2, <2>3, <2>5 DEF Pending
  <2>8. Apart'
    BY <1>2, <2>2, <2>3, <2>5 DEF Apart, Pending
  <2>9. AllPlaced'
    BY <1>1, <2>2, <2>5, <2>7 DEF AllPlaced
  <2>10. OrphanBudget' /\ DropsCounted'
    BY <2>2, <2>4 DEF OrphanBudget, DropsCounted, fateVars
  <2>11. Abstract!Accept
    BY <2>1, <2>2, <2>7 DEF Abstract!Accept, fateVars
  <2> QED BY <2>6, <2>8, <2>9, <2>10, <2>11 DEF Abstract!Next
<1>4. CASE PutFull
  <2>1. archived + 1 \in Item /\ archived < MaxItems
    BY <1>4, BoundsAssumption DEF PutFull, TypeOK, Item, BoundsAssumption
  <2>2. /\ UNCHANGED <<queue, callVars, abandoned, delivered, late, failures>>
        /\ archived' = archived + 1 /\ CountDropped({archived + 1})
    BY <1>4 DEF PutFull, finiVars
  <2>3. Holding' = Holding /\ Flying' = Flying /\ Orphans' = Orphans
    BY <2>2 DEF callVars, Holding, Flying, Orphans
  <2>4. HeldItems' = HeldItems /\ InBatches' = InBatches
    BY <2>2, <2>3 DEF callVars, HeldItems, InBatches
  <2>5. NoDuplicates'
    BY <2>2, <2>3 DEF NoDuplicates, callVars, Sent
  <2>6. Pending' = Pending /\ dropped' = dropped \cup {archived + 1}
    BY <2>2, <2>4 DEF Pending, CountDropped
  <2>7. Gone' = Gone \cup {archived + 1}
    BY <2>2, <2>6 DEF Gone
  <2>8. Apart'
    BY <1>2, <2>2, <2>4, <2>7 DEF Apart, Pending
  <2>9. AllPlaced'
    BY <1>1, <2>2, <2>6, <2>7 DEF AllPlaced
  <2>10. DropsCounted'
    BY <1>2, <2>1, <2>2, CountEffect DEF Gone
  <2>11. OrphanBudget'
    BY <2>2, <2>3 DEF OrphanBudget
  <2>12. Abstract!Refuse
    BY <1>2, <2>1, <2>2, <2>6 DEF Abstract!Refuse, Gone
  <2> QED BY <2>5, <2>8, <2>9, <2>10, <2>11, <2>12 DEF Abstract!Next
<1>5. CASE Connectivity \/ LoopPoll \/ LoopExit
  <2>1. UNCHANGED <<queue, archived, callVars, abandoned, fateVars>>
    BY <1>5 DEF Connectivity, LoopPoll, LoopExit, queueVars, finiVars
  <2> QED BY <2>1, PlaceStutter
<1>6. CASE LoopReport
  <2>1. UNCHANGED <<queue, archived, abandoned, fateVars>>
    BY <1>6 DEF LoopReport, queueVars, finiVars
  <2>2. OpenCall("loop") \/ UNCHANGED callVars
    BY <1>6 DEF LoopReport
  <2> QED BY <2>1, <2>2, PlaceOpen, PlaceStutter DEF Caller
<1>7. CASE FlushReport
  <2>1. UNCHANGED <<queue, archived, abandoned, fateVars>>
    BY <1>7 DEF FlushReport, queueVars, finiVars
  <2>2. OpenCall("flush") \/ UNCHANGED callVars
    BY <1>7 DEF FlushReport
  <2> QED BY <2>1, <2>2, PlaceOpen, PlaceStutter DEF Caller
<1>8. ASSUME NEW n \in Call, GenGet(n)
      PROVE  Kept /\ Mapped
  <2> DEFINE x == Head(queue)
  <2>1. /\ gen[n] = "get" /\ queue # <<>> /\ queue' = Tail(queue)
        /\ gen' = [gen EXCEPT ![n] = "got"] /\ held' = [held EXCEPT ![n] = x]
        /\ UNCHANGED <<archived, call, batch, abandoned, fateVars>>
    BY <1>8 DEF GenGet, finiVars
  <2>2. /\ x \in Range(queue) /\ Range(queue)' = Range(queue) \ {x}
        /\ \A i, j \in DOMAIN queue' : queue'[i] = queue'[j] => i = j
    BY <2>1, TakeEffect
  <2>3. x \notin HeldItems \cup InBatches \cup abandoned \cup Gone
    BY <2>2 DEF Apart
  <2>4. /\ HeldItems' = HeldItems \cup {x}
        /\ \A k, m \in Holding' : held'[k] = held'[m] => k = m
    BY <2>1, <2>3, HoldEffect
  <2>5. Flying' = Flying /\ Orphans' = Orphans /\ Gone' = Gone
    BY <2>1 DEF Flying, Orphans, Gone, fateVars
  <2>6. InBatches' = InBatches
    BY <2>1, <2>5 DEF InBatches
  <2>7. NoDuplicates'
    BY <2>1, <2>2, <2>4, <2>5 DEF NoDuplicates, Sent
  <2>8. Pending' = Pending
    BY <2>1, <2>2, <2>4, <2>6 DEF Pending
  <2>9. Apart'
    BY <2>1, <2>2, <2>3, <2>4, <2>5, <2>6 DEF Apart
  <2>10. AllPlaced' /\ OrphanBudget' /\ DropsCounted' /\ UNCHANGED Abstract!vars
    BY <2>1, <2>5, <2>8 DEF AllPlaced, OrphanBudget, DropsCounted, fateVars, Abstract!vars
  <2> QED BY <2>7, <2>9, <2>10
<1>9. ASSUME NEW n \in Call, GenDone(n), call[n] = "orphan"
      PROVE  Kept /\ Mapped
  <2> DEFINE x == held[n]
  <2>1. /\ gen[n] = "got" /\ gen' = [gen EXCEPT ![n] = "off"]
        /\ held' = [held EXCEPT ![n] = NoItem]
        /\ call' = [call EXCEPT ![n] = "free"] /\ batch' = [batch EXCEPT ![n] = <<>>]
        /\ late' = late \cup {x}
        /\ UNCHANGED <<queue, archived, abandoned, delivered, dropped, counted, failures>>
    BY <1>9 DEF GenDone, finiVars
  <2>2. /\ x \in HeldItems /\ HeldItems' = HeldItems \ {x}
        /\ \A k, m \in Holding' : held'[k] = held'[m] => k = m
    BY <2>1, ReleaseEffect
  <2>3. /\ InBatches' = InBatches
        /\ \A k, m \in Flying' : k # m => Sent(k)' \cap Sent(m)' = {}
        /\ \A m \in Call : call'[m] = "free" => batch'[m] = <<>>
        /\ Cardinality(Orphans') = Cardinality(Orphans) - 1
        /\ Cardinality(Orphans) \in Nat
    BY <1>9, <2>1, OrphanEndEffect
  <2>4. x \notin Range(queue) \cup InBatches \cup abandoned \cup Gone
    BY <2>2 DEF Apart
  <2>5. Gone' = Gone \cup {x} /\ Range(queue)' = Range(queue)
    BY <2>1 DEF Gone
  <2>6. Pending' = Pending \ {x} /\ x \in Pending
    BY <2>1, <2>2, <2>3, <2>4, <2>5 DEF Pending
  <2>7. NoDuplicates'
    BY <2>1, <2>2, <2>3 DEF NoDuplicates
  <2>8. Apart'
    BY <2>1, <2>2, <2>3, <2>4, <2>5 DEF Apart
  <2>9. AllPlaced' /\ DropsCounted'
    BY <2>1, <2>5, <2>6 DEF AllPlaced, DropsCounted
  <2>10. OrphanBudget'
    <3>1. IsFiniteSet(late) /\ Cardinality(late) \in Nat /\ x \notin late
      BY <2>4, FiniteSets DEF TypeOK, Gone
    <3>2. Cardinality(late') = Cardinality(late) + 1
      BY <2>1, <3>1, FS_AddElement
    <3> QED BY <2>1, <2>3, <3>1, <3>2 DEF OrphanBudget, TypeOK
  <2>11. (dropped' \cup late') \ delivered' = ((dropped \cup late) \ delivered) \cup {x}
    BY <2>1, <2>4 DEF Gone
  <2>12. Abstract!Settle
    <3>1. /\ {} \in SUBSET Pending /\ {x} \in SUBSET Pending /\ {} \cap {x} = {}
          /\ Pending' = Pending \ ({} \cup {x}) /\ delivered' = delivered \cup {}
      BY <2>1, <2>6
    <3> QED BY <2>1, <2>11, <3>1, SettleStep
  <2> QED BY <2>7, <2>8, <2>9, <2>10, <2>12 DEF Abstract!Next
<1>10. ASSUME NEW n \in Call, GenDone(n), call[n] # "orphan"
       PROVE  Kept /\ Mapped
  <2> DEFINE x == held[n]
  <2>1. /\ gen[n] = "got" /\ gen' = [gen EXCEPT ![n] = "get"]
        /\ held' = [held EXCEPT ![n] = NoItem]
        /\ batch' = [batch EXCEPT ![n] = Append(@, x)]
        /\ UNCHANGED <<queue, archived, abandoned, call, fateVars>>
    BY <1>10 DEF GenDone, finiVars, fateVars
  <2>2. x \in Item /\ n \in Flying
    BY <1>10, <2>1 DEF SlotOK, Flying, TypeOK
  <2>3. /\ x \in HeldItems /\ HeldItems' = HeldItems \ {x}
        /\ \A k, m \in Holding' : held'[k] = held'[m] => k = m
    BY <2>1, ReleaseEffect
  <2>4. x \notin Range(queue) \cup InBatches \cup abandoned \cup Gone
    BY <2>3 DEF Apart
  <2>5. /\ InBatches' = InBatches \cup {x}
        /\ \A k, m \in Flying' : k # m => Sent(k)' \cap Sent(m)' = {}
        /\ \A m \in Call : call'[m] = "free" => batch'[m] = <<>>
    BY <2>1, <2>2, <2>4, YieldEffect
  <2>6. Gone' = Gone /\ Range(queue)' = Range(queue) /\ Orphans' = Orphans
    BY <2>1 DEF Gone, fateVars, Orphans
  <2>7. Pending' = Pending
    BY <2>1, <2>3, <2>5, <2>6 DEF Pending
  <2>8. NoDuplicates'
    BY <2>1, <2>3, <2>5 DEF NoDuplicates
  <2>9. Apart'
    BY <2>1, <2>3, <2>4, <2>5, <2>6 DEF Apart
  <2>10. AllPlaced' /\ OrphanBudget' /\ DropsCounted' /\ UNCHANGED Abstract!vars
    BY <2>1, <2>6, <2>7 DEF AllPlaced, OrphanBudget, DropsCounted, fateVars, Abstract!vars
  <2> QED BY <2>8, <2>9, <2>10
<1>11. ASSUME NEW n \in Call, GenEnd(n)
       PROVE  Kept /\ Mapped
  <2>1. /\ gen[n] = "get" /\ gen' = [gen EXCEPT ![n] = "off"]
        /\ UNCHANGED <<queue, archived, held, abandoned, fateVars>>
    BY <1>11 DEF GenEnd, finiVars, queueVars
  <2>2. Holding' = Holding
    BY <2>1 DEF Holding, TypeOK
  <2>3. HeldItems' = HeldItems /\ \A k, m \in Holding' : held'[k] = held'[m] => k = m
    BY <2>1, <2>2 DEF HeldItems, NoDuplicates
  <2>4. CASE call[n] = "orphan"
    <3>1. call' = [call EXCEPT ![n] = "free"] /\ batch' = [batch EXCEPT ![n] = <<>>]
      BY <1>11, <2>4 DEF GenEnd
    <3>2. /\ InBatches' = InBatches
          /\ \A k, m \in Flying' : k # m => Sent(k)' \cap Sent(m)' = {}
          /\ \A m \in Call : call'[m] = "free" => batch'[m] = <<>>
          /\ Cardinality(Orphans') = Cardinality(Orphans) - 1
          /\ Cardinality(Orphans) \in Nat
      BY <2>4, <3>1, OrphanEndEffect
    <3>3. NoDuplicates'
      BY <2>1, <2>3, <3>2 DEF NoDuplicates
    <3>4. OrphanBudget'
      <4>1. Cardinality(late) \in Nat
        BY FiniteSets DEF TypeOK
      <4> QED BY <2>1, <3>2, <4>1 DEF OrphanBudget, fateVars, TypeOK
    <3> QED BY <2>1, <2>3, <3>2, <3>3, <3>4, PlaceFrame
  <2>5. CASE call[n] # "orphan"
    <3>1. call' = call /\ batch' = batch
      BY <1>11, <2>5 DEF GenEnd
    <3>2. Flying' = Flying /\ Orphans' = Orphans
      BY <3>1 DEF Flying, Orphans
    <3>3. InBatches' = InBatches
      BY <3>1, <3>2 DEF InBatches
    <3>4. NoDuplicates'
      BY <2>1, <2>3, <3>1, <3>2 DEF NoDuplicates, Sent
    <3>5. OrphanBudget'
      BY <2>1, <3>2 DEF OrphanBudget, fateVars
    <3> QED BY <2>1, <2>3, <3>3, <3>4, <3>5, PlaceFrame
  <2> QED BY <2>4, <2>5
<1>12. ASSUME NEW n \in Call, RpcOk(n)
       PROVE  Kept /\ Mapped
  <2>1. /\ call[n] \in Caller /\ n \in Flying
        /\ call' = [call EXCEPT ![n] = "free"] /\ batch' = [batch EXCEPT ![n] = <<>>]
        /\ delivered' = delivered \cup Sent(n)
        /\ UNCHANGED <<queue, archived, gen, held, abandoned, dropped, counted, late, failures>>
    BY <1>12 DEF RpcOk, Flying, queueVars, finiVars
  <2>2. /\ Sent(n) \subseteq InBatches /\ InBatches' = InBatches \ Sent(n)
        /\ \A k, m \in Flying' : k # m => Sent(k)' \cap Sent(m)' = {}
        /\ \A m \in Call : call'[m] = "free" => batch'[m] = <<>>
    BY <2>1, ReturnEffect
  <2>3. Holding' = Holding /\ Orphans' = Orphans
    BY <2>1 DEF Holding, Orphans, Caller, TypeOK
  <2>4. HeldItems' = HeldItems /\ Range(queue)' = Range(queue) /\ Gone' = Gone \cup Sent(n)
    BY <2>1, <2>3 DEF HeldItems, Gone
  <2>5. Sent(n) \cap (Range(queue) \cup HeldItems \cup abandoned \cup Gone) = {}
    BY <2>2 DEF Apart
  <2>6. Pending' = Pending \ Sent(n) /\ Sent(n) \subseteq Pending
    BY <2>1, <2>2, <2>4, <2>5 DEF Pending
  <2>7. NoDuplicates'
    BY <2>1, <2>2, <2>3 DEF NoDuplicates
  <2>8. Apart'
    BY <2>1, <2>2, <2>4, <2>5 DEF Apart
  <2>9. AllPlaced' /\ OrphanBudget' /\ DropsCounted'
    BY <2>1, <2>3, <2>4, <2>6 DEF AllPlaced, OrphanBudget, DropsCounted
  <2>10. (dropped' \cup late') \ delivered' = ((dropped \cup late) \ delivered) \cup {}
    BY <2>1, <2>5 DEF Gone
  <2>11. Abstract!Settle
    <3>1. /\ Sent(n) \in SUBSET Pending /\ {} \in SUBSET Pending /\ Sent(n) \cap {} = {}
          /\ Pending' = Pending \ (Sent(n) \cup {})
      BY <2>6
    <3> QED BY <2>1, <2>10, <3>1, SettleStep
  <2> QED BY <2>7, <2>8, <2>9, <2>11 DEF Abstract!Next
<1>13. ASSUME NEW n \in Call, RpcFail(n)
       PROVE  Kept /\ Mapped
  <2> DEFINE s == IF gen[n] = "off" THEN "free" ELSE "orphan"
             b == IF gen[n] = "off" THEN <<>> ELSE batch[n]
  <2>1. PICK k \in 0 .. Len(batch[n]) : delivered' = delivered \cup {batch[n][i] : i \in 1 .. k}
    BY <1>13 DEF RpcFail
  <2> DEFINE d == {batch[n][i] : i \in 1 .. k}
  <2>2. /\ call[n] \in Caller /\ n \in Flying
        /\ call' = [call EXCEPT ![n] = s] /\ batch' = [batch EXCEPT ![n] = b]
        /\ CountDropped(Sent(n)) /\ failures' = failures + 1
        /\ UNCHANGED <<queue, archived, gen, held, abandoned, late>>
    BY <1>13 DEF RpcFail, Flying, queueVars, finiVars
  <2>3. d \subseteq Sent(n) /\ Sent(n) \in SUBSET Item
    BY <2>1 DEF Sent, Range, TypeOK
  <2>4. /\ Sent(n) \subseteq InBatches /\ InBatches' = InBatches \ Sent(n)
        /\ \A j, m \in Flying' : j # m => Sent(j)' \cap Sent(m)' = {}
        /\ \A m \in Call : call'[m] = "free" => batch'[m] = <<>>
    BY <2>2, ReturnEffect
  <2>5. Holding' = Holding
    BY <2>2 DEF Holding
  <2>6. dropped' = dropped \cup Sent(n)
    BY <2>2 DEF CountDropped
  <2>7. HeldItems' = HeldItems /\ Range(queue)' = Range(queue) /\ Gone' = Gone \cup Sent(n)
    BY <2>1, <2>2, <2>3, <2>5, <2>6 DEF HeldItems, Gone
  <2>8. Sent(n) \cap (Range(queue) \cup HeldItems \cup abandoned \cup Gone) = {}
    BY <2>4 DEF Apart
  <2>9. Pending' = Pending \ Sent(n) /\ Sent(n) \subseteq Pending
    BY <2>2, <2>4, <2>7, <2>8 DEF Pending
  <2>10. NoDuplicates'
    BY <2>2, <2>4, <2>5 DEF NoDuplicates
  <2>11. Apart'
    BY <2>2, <2>4, <2>7, <2>8 DEF Apart
  <2>12. AllPlaced'
    BY <2>2, <2>7, <2>9 DEF AllPlaced
  <2>13. DropsCounted'
    BY <2>2, <2>3, <2>8, CountEffect DEF Gone
  <2>14. OrphanBudget'
    <3>1. Orphans' \subseteq Orphans \cup {n} /\ Orphans \in SUBSET Call
      BY <2>2 DEF Orphans, TypeOK
    <3>2. IsFiniteSet(Orphans) /\ Cardinality(Orphans) \in Nat /\ Cardinality(late) \in Nat
      BY <3>1, FiniteSets DEF TypeOK
    <3>3. IsFiniteSet(Orphans \cup {n}) /\ Cardinality(Orphans \cup {n}) <= Cardinality(Orphans) + 1
      <4>1. CASE n \in Orphans
        <5>1. Orphans \cup {n} = Orphans
          BY <4>1
        <5>2. IsFiniteSet(Orphans \cup {n}) /\ Cardinality(Orphans \cup {n}) = Cardinality(Orphans)
          BY <3>2, <5>1, Zenon
        <5> QED BY <3>2, <5>2
      <4>2. CASE n \notin Orphans
        <5>1. IsFiniteSet(Orphans \cup {n}) /\ Cardinality(Orphans \cup {n}) = Cardinality(Orphans) + 1
          BY <3>2, <4>2, FS_AddElement, Zenon
        <5> QED BY <3>2, <5>1
      <4> QED BY <4>1, <4>2
    <3>4. Cardinality(Orphans') <= Cardinality(Orphans \cup {n}) /\ Cardinality(Orphans') \in Nat
          /\ Cardinality(Orphans \cup {n}) \in Nat
      BY <3>1, <3>3, FS_Subset, FS_CardinalityType
    <3> QED BY <2>2, <3>2, <3>3, <3>4 DEF OrphanBudget, TypeOK
  <2>15. (dropped' \cup late') \ delivered' = ((dropped \cup late) \ delivered) \cup (Sent(n) \ d)
    BY <2>1, <2>2, <2>3, <2>6, <2>8 DEF Gone
  <2>16. Abstract!Settle
    <3>1. d \in SUBSET Pending /\ Sent(n) \ d \in SUBSET Pending /\ d \cap (Sent(n) \ d) = {}
      BY <2>3, <2>9
    <3>2. Pending' = Pending \ (d \cup (Sent(n) \ d))
      BY <2>3, <2>9
    <3> QED BY <2>1, <2>2, <2>15, <3>1, <3>2, SettleStep
  <2> QED BY <2>10, <2>11, <2>12, <2>13, <2>14, <2>16 DEF Abstract!Next
<1>14. CASE FiniStart \/ FiniFlush \/ FiniFlushWait \/ FiniJoin \/ FiniClose \/ StopReturn
  <2>1. UNCHANGED <<queue, archived, callVars, abandoned, fateVars>>
    BY <1>14 DEF FiniStart, FiniFlush, FiniFlushWait, FiniJoin, FiniClose, StopReturn, queueVars
  <2> QED BY <2>1, PlaceStutter
<1>15. CASE FiniAbandon
  <2> DEFINE x == Head(queue)
  <2>1. /\ queue # <<>> /\ queue' = Tail(queue) /\ abandoned' = abandoned \cup {x}
        /\ UNCHANGED <<archived, callVars, fateVars>>
    BY <1>15 DEF FiniAbandon
  <2>2. /\ x \in Range(queue) /\ Range(queue)' = Range(queue) \ {x}
        /\ \A i, j \in DOMAIN queue' : queue'[i] = queue'[j] => i = j
    BY <2>1, TakeEffect
  <2>3. Holding' = Holding /\ Flying' = Flying /\ Orphans' = Orphans /\ Gone' = Gone
    BY <2>1 DEF callVars, fateVars, Holding, Flying, Orphans, Gone
  <2>4. HeldItems' = HeldItems /\ InBatches' = InBatches
    BY <2>1, <2>3 DEF callVars, HeldItems, InBatches
  <2>5. x \notin HeldItems \cup InBatches \cup Gone
    BY <2>2 DEF Apart
  <2>6. NoDuplicates'
    BY <2>1, <2>2, <2>3 DEF NoDuplicates, callVars, Sent
  <2>7. Pending' = Pending
    BY <2>1, <2>2, <2>4 DEF Pending
  <2>8. Apart'
    BY <2>1, <2>2, <2>3, <2>4, <2>5 DEF Apart
  <2>9. AllPlaced' /\ OrphanBudget' /\ DropsCounted' /\ UNCHANGED Abstract!vars
    BY <2>1, <2>3, <2>7 DEF AllPlaced, OrphanBudget, DropsCounted, fateVars, Abstract!vars
  <2> QED BY <2>6, <2>8, <2>9
<1>16. CASE FiniAbandoned
  <2>1. /\ CountDropped(abandoned) /\ abandoned' = {}
        /\ UNCHANGED <<queue, archived, callVars, delivered, late, failures>>
    BY <1>16 DEF FiniAbandoned, queueVars
  <2>2. dropped' = dropped \cup abandoned
    BY <2>1 DEF CountDropped
  <2>3. Holding' = Holding /\ Flying' = Flying /\ Orphans' = Orphans
    BY <2>1 DEF callVars, Holding, Flying, Orphans
  <2>4. HeldItems' = HeldItems /\ InBatches' = InBatches /\ Range(queue)' = Range(queue)
    BY <2>1, <2>3 DEF callVars, HeldItems, InBatches
  <2>5. Gone' = Gone \cup abandoned
    BY <2>1, <2>2 DEF Gone
  <2>6. abandoned \cap (Range(queue) \cup HeldItems \cup InBatches \cup Gone) = {}
    BY DEF Apart
  <2>7. Pending' = Pending \ abandoned /\ abandoned \subseteq Pending
    BY <2>1, <2>4, <2>6 DEF Pending
  <2>8. NoDuplicates'
    BY <2>1, <2>3 DEF NoDuplicates, callVars, Sent
  <2>9. Apart'
    BY <2>1, <2>4, <2>5, <2>6 DEF Apart
  <2>10. AllPlaced' /\ OrphanBudget'
    BY <2>1, <2>3, <2>5, <2>7 DEF AllPlaced, OrphanBudget
  <2>11. DropsCounted'
    BY <2>1, <2>6, CountEffect DEF Gone, TypeOK
  <2>12. (dropped' \cup late') \ delivered' = ((dropped \cup late) \ delivered) \cup abandoned
    BY <2>1, <2>2, <2>6 DEF Gone
  <2>13. Abstract!Settle
    <3>1. /\ {} \in SUBSET Pending /\ abandoned \in SUBSET Pending /\ {} \cap abandoned = {}
          /\ Pending' = Pending \ ({} \cup abandoned) /\ delivered' = delivered \cup {}
      BY <2>1, <2>7
    <3> QED BY <2>1, <2>12, <3>1, SettleStep
  <2> QED BY <2>8, <2>9, <2>10, <2>11, <2>13 DEF Abstract!Next
<1>17. CASE UNCHANGED vars
  <2>1. UNCHANGED <<queue, archived, callVars, abandoned, fateVars>>
    BY <1>17 DEF vars, queueVars, finiVars
  <2> QED BY <2>1, PlaceStutter
<1> QED
  BY <1>3, <1>4, <1>5, <1>6, <1>7, <1>8, <1>9, <1>10, <1>11, <1>12, <1>13,
     <1>14, <1>15, <1>16, <1>17
     DEF Next, Host, Loop, Rpc, Fini

-----------------------------------------------------------------------------
(* The state of queue, threads and RPCs always has its type; in particular *)
(* the queue never exceeds maxsize and task_done() is never called more    *)
(* often than there are unfinished tasks (Queue would raise ValueError).   *)
THEOREM TypeCorrect == Spec => []TypeOK
<1>1. AccountInv => TypeOK
  BY DEF AccountInv
<1> QED BY AccountInit, AccountStep, <1>1, PTL DEF Spec

(* Queue.join() is released exactly when the queue is empty and no thread  *)
(* is between get() and task_done(), for any number of racing threads.     *)
THEOREM JoinBalance == Spec => []UnfinishedBalance
<1>1. AccountInv => UnfinishedBalance
  BY DEF AccountInv
<1> QED BY AccountInit, AccountStep, <1>1, PTL DEF Spec

(* No telemetry disappears unaccounted: every archived item is pending,    *)
(* delivered or counted as dropped, once, except at most one item per      *)
(* failed RPC, whichever of full queue, failed batch and shutdown gives it *)
(* up, for any number of items and failures.                               *)
THEOREM NoSilentLoss == Spec => []LossesAccounted
<1>1. PlaceInv => LossesAccounted
  <2> SUFFICES ASSUME PlaceInv PROVE LossesAccounted
    OBVIOUS
  <2> USE DEF PlaceInv, AccountInv
  <2>1. /\ IsFiniteSet(late) /\ Cardinality(late) \in Nat
        /\ Cardinality(late \ (delivered \cup dropped)) \in Nat
        /\ Cardinality(Orphans) \in Nat
    BY FiniteSets DEF TypeOK, Orphans
  <2>2. Cardinality(late \ (delivered \cup dropped)) <= Cardinality(late)
    BY <2>1, FS_Subset
  <2> QED BY <2>1, <2>2 DEF LossesAccounted, AllPlaced, OrphanBudget, DropsCounted, TypeOK
<1> QED BY PlaceInit, PlaceStep, <1>1, PTL DEF Spec

(* The queue, its threads, its RPCs and its shutdown together implement    *)
(* the lossy channel: an item is settled once, as delivered or as lost,    *)
(* and is never sent again afterwards.                                     *)
THEOREM QueueIsLossyChannel == Spec => BestEffortAtMostOnce
<1> QED BY PlaceInit, PlaceStep, PTL DEF Spec, BestEffortAtMostOnce, Abstract!Spec
=============================================================================
