--------------------------- MODULE AsyncAgentProofs ---------------------------
(***************************************************************************)
(* Proofs about AsyncAgent, for every queue size, number of items and      *)
(* number of failing streams.                                              *)
(***************************************************************************)
EXTENDS AsyncAgent, FiniteSetTheorems, TLAPS

RootPc == {"none", "new", "create", "boot", "serve", "abandon", "join", "cancel",
           "gather", "close", "end"}
TaskPc == {"off", "run", "stream", "done", "failed", "cancelled"}

(* The cleanup has looked at the tasks.                                    *)
Cleaned == {"gather", "close", "end"}

TaskTypes ==
  /\ root \in RootPc
  /\ task \in [Task -> TaskPc] /\ logs \in [Task -> Nat] /\ cancelling \in SUBSET Task

(* Only tasks that still run are being cancelled, by the cleanup, and      *)
(* after it has looked no task runs that it did not cancel: so none fails  *)
(* behind its back. A logged task has failed and stays so.                 *)
TaskFlow ==
  /\ thread = "none" => root = "none"
  /\ root \in {"none", "new", "create", "boot"} => \A t \in Task : task[t] = "off"
  /\ cancelling # {} => root \in Cleaned
  /\ \A t \in Task :
       /\ t \in cancelling => Running(t)
       /\ root \in Cleaned /\ Running(t) => t \in cancelling
       /\ logs[t] > 0 => task[t] = "failed"

LogInv == TaskTypes /\ TaskFlow /\ FailureLoggedOnce

-----------------------------------------------------------------------------
(* Steps that leave the tasks alone.                                       *)
LEMMA LogFrame ==
  ASSUME LogInv, UNCHANGED <<task, cancelling, logs>>, root' \in RootPc,
         root' \in {"none", "new", "create", "boot"} => root \in {"none", "new", "create", "boot"},
         root \in Cleaned <=> root' \in Cleaned,
         thread' = "none" => thread = "none" /\ root' = root
  PROVE  LogInv'
<1>1. TaskTypes' /\ TaskFlow'
  BY DEF LogInv, TaskTypes, TaskFlow, Running
<1>2. FailureLoggedOnce'
  BY DEF LogInv, FailureLoggedOnce, Cleaned
<1> QED BY <1>1, <1>2 DEF LogInv

(* One task moves while the root stays where it is.                        *)
LEMMA LogMove ==
  ASSUME LogInv, NEW t \in Task, NEW pc \in TaskPc, task' = [task EXCEPT ![t] = pc],
         UNCHANGED <<thread, root, logs>>, cancelling' \in {cancelling, cancelling \ {t}},
         Running(t), pc # "off",
         t \in cancelling' => pc \in {"run", "stream"},
         root \in Cleaned => pc \notin {"run", "stream", "failed"}
  PROVE  LogInv'
<1>1. /\ task' \in [Task -> TaskPc] /\ task'[t] = pc
      /\ \A u \in Task : u # t => task'[u] = task[u]
  BY DEF LogInv, TaskTypes
<1>2. task[t] \in {"run", "stream"} /\ logs[t] = 0
  BY DEF Running, LogInv, TaskFlow, TaskTypes
<1>3. root \notin {"none", "new", "create", "boot"}
  BY <1>2 DEF LogInv, TaskFlow
<1>4. TaskTypes'
  BY <1>1 DEF LogInv, TaskTypes
<1>5. TaskFlow'
  <2>1. cancelling' # {} => root' \in Cleaned
    BY DEF LogInv, TaskFlow
  <2>2. ASSUME NEW u \in Task
        PROVE /\ u \in cancelling' => Running(u)'
              /\ root' \in Cleaned /\ Running(u)' => u \in cancelling'
              /\ logs'[u] > 0 => task'[u] = "failed"
    <3>1. CASE u = t
      BY <1>1, <1>2, <3>1 DEF Running
    <3>2. CASE u # t
      BY <1>1, <3>2 DEF Running, LogInv, TaskFlow
    <3> QED BY <3>1, <3>2
  <2>3. thread' = "none" => root' = "none"
    BY DEF LogInv, TaskFlow
  <2> QED BY <1>3, <2>1, <2>2, <2>3 DEF TaskFlow
<1>6. FailureLoggedOnce'
  BY <1>1, <1>2 DEF LogInv, FailureLoggedOnce, Cleaned
<1> QED BY <1>4, <1>5, <1>6 DEF LogInv

(* The outcome of the tasks is logged, once.                               *)
LEMMA LoggedOnce ==
  ASSUME LogInv, logs' = Logged
  PROVE  /\ logs' \in [Task -> Nat]
         /\ \A t \in Task : /\ logs'[t] <= 1
                            /\ logs'[t] > 0 => task[t] = "failed"
                            /\ task[t] = "failed" => logs'[t] = 1
<1>1. ASSUME NEW t \in Task PROVE logs[t] \in Nat /\ logs[t] <= 1 /\ (logs[t] > 0 => task[t] = "failed")
  BY DEF LogInv, TaskTypes, TaskFlow, FailureLoggedOnce
<1> QED BY <1>1 DEF Logged, Unhandled

LEMMA LogStep == LogInv /\ [Next]_vars => LogInv'
<1> SUFFICES ASSUME LogInv, [Next]_vars PROVE LogInv'
  OBVIOUS
<1>0. /\ root \in RootPc /\ cancelling \subseteq Task /\ task \in [Task -> TaskPc]
      /\ logs \in [Task -> Nat] /\ (thread = "none" => root = "none")
  BY DEF LogInv, TaskTypes, TaskFlow
<1>1. CASE UNCHANGED <<thread, root, task, cancelling, logs>>
  BY <1>0, <1>1, LogFrame
<1>2. CASE \/ Archive \/ HandOver \/ HandOverRaises \/ StopCheck \/ StopSignal \/ StopJoin \/ RunCallback
           \/ Connectivity \/ GeneratorYields \/ GhostTakes \/ UNCHANGED vars
  BY <1>1, <1>2 DEF Archive, HandOver, HandOverRaises, StopCheck, StopSignal, StopJoin, RunCallback,
     Connectivity, GeneratorYields, GhostTakes, TaskFrame, loopVars, taskVars, vars
<1>3. CASE \/ Start \/ RootLoop \/ RootCreate \/ RootAbandon \/ RootJoin \/ RootGathered \/ RootClose
  <2>1. UNCHANGED <<task, cancelling, logs>> /\ (thread' = thread \/ (thread' = "run" /\ root = "none"))
    BY <1>0, <1>3 DEF Start, RootLoop, RootCreate, RootAbandon, RootJoin, RootGathered, RootClose, taskVars
  <2>2. \/ root = "none" /\ root' = "new"
        \/ root = "new" /\ root' = "create"
        \/ root = "create" /\ root' = "boot"
        \/ root = "abandon" /\ root' = "join"
        \/ root = "join" /\ root' = "cancel"
        \/ root = "gather" /\ root' = "close"
        \/ root = "close" /\ root' = "end"
    BY <1>0, <1>3 DEF Start, RootLoop, RootCreate, RootAbandon, RootJoin, RootGathered, RootClose
  <2>3. thread' # "none"
    BY <1>0, <1>3 DEF Start, RootLoop, RootCreate, RootAbandon, RootJoin, RootGathered, RootClose
  <2> QED BY <2>1, <2>2, <2>3, LogFrame DEF RootPc, Cleaned
<1>4. CASE RootBoot
  <2>1. /\ root = "boot" /\ UNCHANGED <<thread, cancelling, logs>>
        /\ \/ root' = "serve" /\ task' = [t \in Task |-> "run"]
           \/ root' = "end" /\ task' = task
    BY <1>4 DEF RootBoot
  <2>2. (\A t \in Task : task[t] = "off" /\ logs[t] = 0) /\ cancelling = {} /\ thread # "none"
    BY <1>0, <2>1 DEF LogInv, TaskFlow, TaskTypes, Cleaned
  <2>3. TaskTypes'
    BY <1>0, <2>1 DEF TaskTypes, RootPc, TaskPc
  <2>4. TaskFlow' /\ FailureLoggedOnce'
    BY <2>1, <2>2 DEF TaskFlow, FailureLoggedOnce, Running, Cleaned
  <2> QED BY <2>3, <2>4 DEF LogInv
<1>5. CASE RootWake
  <2>1. /\ root = "serve" /\ root' = "abandon" /\ UNCHANGED <<thread, task, cancelling>>
        /\ logs' = logs \/ logs' = Logged
    BY <1>5 DEF RootWake
  <2>2. /\ logs' \in [Task -> Nat]
        /\ \A t \in Task : logs'[t] <= 1 /\ (logs'[t] > 0 => task[t] = "failed")
    BY <2>1, LoggedOnce DEF LogInv, TaskTypes, TaskFlow, FailureLoggedOnce
  <2>3. TaskTypes'
    BY <1>0, <2>1, <2>2 DEF TaskTypes, RootPc
  <2>4. TaskFlow' /\ FailureLoggedOnce'
    BY <2>1, <2>2 DEF LogInv, TaskFlow, FailureLoggedOnce, Running, Cleaned
  <2> QED BY <2>3, <2>4 DEF LogInv
<1>6. CASE RootCancel
  <2>1. /\ root = "cancel" /\ root' = "gather" /\ UNCHANGED <<thread, task>>
        /\ logs' = Logged /\ cancelling' = {t \in Task : Running(t)}
    BY <1>6 DEF RootCancel
  <2>2. /\ logs' \in [Task -> Nat]
        /\ \A t \in Task : /\ logs'[t] <= 1 /\ (logs'[t] > 0 => task[t] = "failed")
                           /\ task[t] = "failed" => logs'[t] = 1
    BY <2>1, LoggedOnce
  <2>3. TaskTypes'
    BY <1>0, <2>1, <2>2 DEF TaskTypes, RootPc
  <2>4. TaskFlow' /\ FailureLoggedOnce'
    BY <2>1, <2>2 DEF LogInv, TaskFlow, FailureLoggedOnce, Running, Cleaned
  <2> QED BY <2>3, <2>4 DEF LogInv
<1>7. CASE RunnerEnds
  <2>1. /\ root = "end" /\ UNCHANGED <<root, logs>> /\ thread' = "dead" /\ cancelling' = {}
        /\ task' = [t \in Task |-> IF Running(t) THEN "cancelled" ELSE task[t]]
    BY <1>7 DEF RunnerEnds
  <2>2. task' \in [Task -> TaskPc]
    BY <1>0, <2>1 DEF TaskPc
  <2>3. \A t \in Task : /\ task'[t] \notin {"run", "stream"}
                        /\ task'[t] = "failed" <=> task[t] = "failed"
    BY <1>0, <2>1 DEF Running
  <2>4. TaskTypes'
    BY <1>0, <2>1, <2>2 DEF TaskTypes
  <2>5. TaskFlow' /\ FailureLoggedOnce'
    BY <2>1, <2>3 DEF LogInv, TaskFlow, FailureLoggedOnce, Running
  <2> QED BY <2>4, <2>5 DEF LogInv
<1>8. CASE ReporterExit
  <2>1. /\ Running("report") /\ "report" \notin cancelling /\ "report" \in Task /\ "done" \in TaskPc
        /\ task' = [task EXCEPT !["report"] = "done"] /\ UNCHANGED <<thread, root, logs, cancelling>>
    BY <1>8 DEF ReporterExit, TaskFrame, loopVars, Running, Task, TaskPc
  <2> QED BY <2>1, LogMove
<1>9. CASE ReporterOpen \/ StreamFails \/ DispatchFails
  <2>1. PICK t \in Task, pc \in {"stream", "run", "failed"} :
        /\ Running(t) /\ t \notin cancelling
        /\ task' = [task EXCEPT ![t] = pc] /\ UNCHANGED <<thread, root, logs, cancelling>>
    BY <1>9 DEF ReporterOpen, StreamFails, DispatchFails, TaskFrame, loopVars, Running, Task
  <2>2. root \notin Cleaned /\ pc \in TaskPc
    BY <2>1 DEF LogInv, TaskFlow, TaskPc
  <2> QED BY <2>1, <2>2, LogMove
<1>10. CASE \E t \in Task : TaskCancelled(t)
  <2>1. PICK t \in Task :
        /\ t \in cancelling /\ cancelling' = cancelling \ {t}
        /\ task' = [task EXCEPT ![t] = "cancelled"] /\ UNCHANGED <<thread, root, logs>>
    BY <1>10 DEF TaskCancelled, loopVars
  <2>2. Running(t) /\ "cancelled" \in TaskPc /\ t \notin cancelling'
    BY <2>1 DEF LogInv, TaskFlow, TaskPc
  <2> QED BY <2>1, <2>2, LogMove
<1> QED
  BY <1>2, <1>3, <1>4, <1>5, <1>6, <1>7, <1>8, <1>9, <1>10 DEF Next, Host, Root, Tasks

LEMMA LogInit == Init => LogInv
BY DEF Init, LogInv, TaskTypes, TaskFlow, FailureLoggedOnce, RootPc, TaskPc, Running, Cleaned

(* A background task that fails is logged once: by the supervisor, or by   *)
(* _cancel_pending_tasks when it failed after the shutdown had begun, but  *)
(* never by both, and never by neither once the cleanup has looked.        *)
THEOREM FailureLogged == Spec => []FailureLoggedOnce
<1>1. LogInv => FailureLoggedOnce
  BY DEF LogInv
<1> QED BY <1>1, LogInit, LogStep, PTL DEF Spec

-----------------------------------------------------------------------------
(***************************************************************************)
(* Where the items are. Every item is in one place: waiting in a callback, *)
(* in the queue, in the hands of the generator, or settled.                *)
(***************************************************************************)
Callback == {PutCall(i, b) : i \in Item, b \in BOOLEAN} \cup {FinishCall}

ItemsOf(cs) == {cs[i].item : i \in DOMAIN cs} \ {0}
OncePut(cs) == \A i, j \in DOMAIN cs : cs[i].item = cs[j].item /\ cs[i].item # 0 => i = j
NoRepeat(s) == \A i, j \in DOMAIN s : s[i] = s[j] => i = j

QueueTypes ==
  /\ archived \in Nat /\ hosts \in Nat /\ hosts + archived <= MaxItems
  /\ calls \in Seq(Callback) /\ queue \in Seq(Item) /\ batch \in Seq(Item)
  /\ failures \in Nat /\ ghosts \in Nat

NoDuplicates == OncePut(calls) /\ NoRepeat(queue) /\ NoRepeat(batch)

ApartSets(w, q, b, settled, n) ==
  /\ w \cap (q \cup b \cup settled) = {} /\ q \cap (b \cup settled) = {} /\ b \cap settled = {}
  /\ w \cup q \cup b \cup settled \subseteq 1 .. n

Apart == ApartSets(Waiting, Range(queue), Range(batch), Settled, archived)

(* A put whose queue was None when the host read it is known as such.      *)
TooEarly(cs, u) == \A i \in DOMAIN cs : cs[i].bound = FALSE => cs[i].item \in u

(* Every generator left behind by a failed stream may still take one item. *)
Budget == root \notin Cleaned => Cardinality(Silent \ unbound) + ghosts <= failures

PlaceInv == QueueTypes /\ NoDuplicates /\ Apart /\ TooEarly(calls, unbound) /\ Budget

-----------------------------------------------------------------------------
(* Sequences without repetition.                                           *)
LEMMA Empties ==
  /\ Range(<<>>) = {} /\ NoRepeat(<<>>) /\ ItemsOf(<<>>) = {} /\ OncePut(<<>>)
  /\ \A u : TooEarly(<<>>, u)
  BY DEF Range, NoRepeat, ItemsOf, OncePut, TooEarly

LEMMA TakeHead ==
  ASSUME NEW s \in Seq(Item), s # <<>>, NoRepeat(s)
  PROVE  /\ Tail(s) \in Seq(Item) /\ Head(s) \in Item /\ Head(s) \in Range(s)
         /\ Range(Tail(s)) = Range(s) \ {Head(s)} /\ NoRepeat(Tail(s))
<1> DEFINE t == Tail(s)
<1>1. /\ Len(s) \in Nat /\ Len(s) > 0 /\ Head(s) = s[1] /\ Head(s) \in Item
      /\ t \in Seq(Item) /\ Len(t) = Len(s) - 1
  OBVIOUS
<1>2. /\ DOMAIN s = 1 .. Len(s) /\ DOMAIN t = 1 .. (Len(s) - 1)
      /\ \A i \in DOMAIN t : t[i] = s[i + 1]
  BY <1>1
<1>3. \A i, j \in DOMAIN s : s[i] = s[j] => i = j
  BY DEF NoRepeat
<1> HIDE DEF t
<1>4. NoRepeat(t)
  BY <1>1, <1>2, <1>3 DEF NoRepeat
<1>5. Head(s) \in Range(s)
  BY <1>1, <1>2 DEF Range
<1>6. Range(t) \subseteq Range(s) \ {Head(s)}
  BY <1>1, <1>2, <1>3 DEF Range
<1>7. ASSUME NEW i \in DOMAIN s, s[i] # Head(s) PROVE s[i] \in Range(t)
  <2>1. i # 1 /\ i - 1 \in DOMAIN t /\ t[i - 1] = s[i]
    BY <1>1, <1>2, <1>7
  <2> QED BY <2>1 DEF Range
<1>8. Range(s) \ {Head(s)} \subseteq Range(t)
  BY <1>7 DEF Range
<1> QED BY <1>1, <1>4, <1>5, <1>6, <1>8 DEF t

LEMMA PutLast ==
  ASSUME NEW s \in Seq(Item), NEW x \in Item, x \notin Range(s), NoRepeat(s)
  PROVE  /\ Append(s, x) \in Seq(Item)
         /\ Range(Append(s, x)) = Range(s) \cup {x} /\ NoRepeat(Append(s, x))
<1> DEFINE t == Append(s, x)
<1>1. /\ DOMAIN s = 1 .. Len(s) /\ DOMAIN t = 1 .. (Len(s) + 1) /\ Len(s) \in Nat
      /\ \A i \in DOMAIN s : t[i] = s[i]
      /\ t[Len(s) + 1] = x /\ t \in Seq(Item)
  OBVIOUS
<1> HIDE DEF t
<1>2. /\ \A i \in DOMAIN t : i \in DOMAIN s \/ i = Len(s) + 1
      /\ \A i \in DOMAIN s : i \in DOMAIN t
      /\ Len(s) + 1 \in DOMAIN t
  BY <1>1
<1>3. \A i \in DOMAIN s : s[i] # x
  BY DEF Range
<1>4. NoRepeat(t)
  BY <1>1, <1>2, <1>3 DEF NoRepeat
<1>5. Range(t) = Range(s) \cup {x}
  BY <1>1, <1>2 DEF Range
<1> QED BY <1>1, <1>4, <1>5 DEF t

(* The loop takes its next callback ...                                    *)
LEMMA NextCall ==
  ASSUME NEW cs \in Seq(Callback), cs # <<>>, OncePut(cs), NEW u, TooEarly(cs, u)
  PROVE  /\ Tail(cs) \in Seq(Callback) /\ Head(cs) \in Callback
         /\ ItemsOf(Tail(cs)) = ItemsOf(cs) \ {Head(cs).item}
         /\ Head(cs).item # 0 => Head(cs).item \in ItemsOf(cs)
         /\ Head(cs).bound = FALSE => Head(cs).item \in u
         /\ OncePut(Tail(cs)) /\ TooEarly(Tail(cs), u)
<1> DEFINE t == Tail(cs)
           h == Head(cs)
<1>1. /\ Len(cs) \in Nat /\ Len(cs) > 0 /\ h = cs[1] /\ h \in Callback
      /\ t \in Seq(Callback) /\ Len(t) = Len(cs) - 1
  OBVIOUS
<1>2. /\ DOMAIN cs = 1 .. Len(cs) /\ DOMAIN t = 1 .. (Len(cs) - 1)
      /\ \A i \in DOMAIN t : t[i] = cs[i + 1] /\ i + 1 \in DOMAIN cs
  BY <1>1
<1>3. \A i, j \in DOMAIN cs : cs[i].item = cs[j].item /\ cs[i].item # 0 => i = j
  BY DEF OncePut
<1> HIDE DEF t, h
<1>4. OncePut(t)
  BY <1>1, <1>2, <1>3 DEF OncePut
<1>5. TooEarly(t, u)
  BY <1>1, <1>2 DEF TooEarly
<1>6. 1 \in DOMAIN cs
  BY <1>1, <1>2
<1>7. ItemsOf(t) \subseteq ItemsOf(cs) \ {h.item}
  <2> SUFFICES ASSUME NEW i \in DOMAIN t, t[i].item # 0 PROVE t[i].item \in ItemsOf(cs) /\ t[i].item # h.item
    BY DEF ItemsOf
  <2>1. t[i] = cs[i + 1] /\ i + 1 \in DOMAIN cs /\ i + 1 # 1
    BY <1>1, <1>2
  <2> QED BY <1>1, <1>3, <1>6, <2>1 DEF ItemsOf
<1>8. ASSUME NEW i \in DOMAIN cs, cs[i].item # h.item, cs[i].item # 0 PROVE cs[i].item \in ItemsOf(t)
  <2>1. i # 1 /\ i - 1 \in DOMAIN t /\ t[i - 1] = cs[i]
    BY <1>1, <1>2, <1>8
  <2> QED BY <1>8, <2>1 DEF ItemsOf
<1>9. ItemsOf(cs) \ {h.item} \subseteq ItemsOf(t)
  BY <1>8 DEF ItemsOf
<1>10. /\ h.item # 0 => h.item \in ItemsOf(cs)
       /\ h.bound = FALSE => h.item \in u
  BY <1>1, <1>6 DEF ItemsOf, TooEarly
<1> QED BY <1>1, <1>4, <1>5, <1>7, <1>9, <1>10 DEF t, h

(* ... and another thread hands it one.                                    *)
LEMMA AddCall ==
  ASSUME NEW cs \in Seq(Callback), NEW c \in Callback, OncePut(cs), NEW u, NEW v, TooEarly(cs, u),
         u \subseteq v, c.item # 0 => c.item \notin ItemsOf(cs), c.bound = FALSE => c.item \in v
  PROVE  /\ Append(cs, c) \in Seq(Callback) /\ OncePut(Append(cs, c)) /\ TooEarly(Append(cs, c), v)
         /\ ItemsOf(Append(cs, c)) = ItemsOf(cs) \cup ({c.item} \ {0})
<1> DEFINE t == Append(cs, c)
<1>1. /\ DOMAIN cs = 1 .. Len(cs) /\ DOMAIN t = 1 .. (Len(cs) + 1) /\ Len(cs) \in Nat
      /\ \A i \in DOMAIN cs : t[i] = cs[i]
      /\ t[Len(cs) + 1] = c /\ t \in Seq(Callback)
  OBVIOUS
<1> HIDE DEF t
<1>2. /\ \A i \in DOMAIN t : i \in DOMAIN cs \/ i = Len(cs) + 1
      /\ \A i \in DOMAIN cs : i \in DOMAIN t
      /\ Len(cs) + 1 \in DOMAIN t
  BY <1>1
<1>3. \A i \in DOMAIN cs : cs[i].item = c.item => c.item = 0
  BY DEF ItemsOf
<1>4. OncePut(t)
  BY <1>1, <1>2, <1>3 DEF OncePut
<1>5. TooEarly(t, v)
  BY <1>1, <1>2 DEF TooEarly
<1>6. ItemsOf(t) = ItemsOf(cs) \cup ({c.item} \ {0})
  BY <1>1, <1>2 DEF ItemsOf
<1> QED BY <1>1, <1>4, <1>5, <1>6 DEF t

LEMMA WaitingItems == Waiting = ItemsOf(calls) /\ Waiting' = ItemsOf(calls')
BY DEF Waiting, ItemsOf

-----------------------------------------------------------------------------
(* Silent losses are counted against the generators left behind.           *)
LEMMA SilentFinite ==
  ASSUME NEW n \in Nat, NEW S
  PROVE  IsFiniteSet((1 .. n) \ S) /\ Cardinality((1 .. n) \ S) \in Nat
<1>1. IsFiniteSet(1 .. n)
  BY FS_Interval
<1>2. (1 .. n) \ S \subseteq 1 .. n
  OBVIOUS
<1> QED BY <1>1, <1>2, FS_Subset, FS_CardinalityType

LEMMA AddOne ==
  ASSUME NEW A, IsFiniteSet(A), NEW x
  PROVE  /\ IsFiniteSet(A \cup {x}) /\ Cardinality(A) \in Nat
         /\ Cardinality(A \cup {x}) \in Nat /\ Cardinality(A \cup {x}) <= Cardinality(A) + 1
<1>1. Cardinality(A) \in Nat
  BY FS_CardinalityType
<1>2. CASE x \in A
  <2>1. A \cup {x} = A
    BY <1>2
  <2> QED BY <1>1, <2>1
<1>3. CASE x \notin A
  BY <1>1, <1>3, FS_AddElement
<1> QED BY <1>2, <1>3

(* A step of items that were already archived settles some of them.        *)
LEMMA Flow ==
  ASSUME PlaceInv, archived' = archived, unbound' = unbound, QueueTypes', NoDuplicates', Apart',
         TooEarly(calls', unbound), Pending' \subseteq Pending,
         delivered \subseteq delivered', delivered' \subseteq delivered \cup (Pending \ Pending'), Budget'
  PROVE  PlaceInv' /\ [Abstract!Next]_(Abstract!vars)
<1>1. PlaceInv'
  BY DEF PlaceInv
<1>2. Pending \cap delivered = {} /\ Pending \subseteq 1 .. archived
  BY DEF PlaceInv, Apart, ApartSets, Pending, Settled
<1> DEFINE d == delivered' \ delivered
           x == (Pending \ Pending') \ d
           lost == (1 .. archived) \ (Pending \cup delivered)
<1>3. d \in SUBSET Pending /\ x \in SUBSET Pending /\ d \cap x = {}
  OBVIOUS
<1>4. Pending' = Pending \ (d \cup x)
  OBVIOUS
<1>5. delivered' = delivered \cup d
  OBVIOUS
<1>6. (1 .. archived) \ (Pending' \cup delivered') = lost \cup x
  BY <1>2
<1> HIDE DEF d, x
<1>7. Abstract!Settle
  BY <1>3, <1>4, <1>5, <1>6 DEF Abstract!Settle
<1> QED BY <1>1, <1>7 DEF Abstract!Next

(* No item is lost silently that was not before.                           *)
LEMMA BudgetKept ==
  ASSUME PlaceInv, archived' = archived, unbound' = unbound, failures' \in Nat, ghosts' \in Nat,
         Silent' \subseteq Silent \cup unbound, root' \notin Cleaned => root \notin Cleaned,
         ghosts' + failures <= ghosts + failures'
  PROVE  Budget'
<1> DEFINE A == Silent \ unbound
           B == Silent' \ unbound
<1>1. IsFiniteSet(Silent) /\ archived \in Nat
  BY SilentFinite DEF Silent, PlaceInv, QueueTypes
<1>2. IsFiniteSet(A) /\ B \subseteq A
  BY <1>1, FS_Subset
<1>3. Cardinality(A) \in Nat /\ Cardinality(B) \in Nat /\ Cardinality(B) <= Cardinality(A)
  BY <1>2, FS_Subset, FS_CardinalityType
<1>4. root \notin Cleaned => Cardinality(A) + ghosts <= failures
  BY DEF PlaceInv, Budget
<1>5. ghosts \in Nat /\ failures \in Nat
  BY DEF PlaceInv, QueueTypes
<1>6. PICK a \in Nat, b \in Nat : a = Cardinality(A) /\ b = Cardinality(B)
  BY <1>3
<1>7. b <= a /\ (root \notin Cleaned => a + ghosts <= failures)
  BY <1>3, <1>4, <1>6
<1> HIDE DEF A, B
<1>8. root' \notin Cleaned => b + ghosts' <= failures'
  <2>1. SUFFICES ASSUME root \notin Cleaned PROVE b + ghosts' <= failures'
    OBVIOUS
  <2>2. PICK g \in Nat, g1 \in Nat, f \in Nat, f1 \in Nat : g = ghosts /\ g1 = ghosts' /\ f = failures /\ f1 = failures'
    BY <1>5
  <2>3. a + g <= f /\ g1 + f <= g + f1
    BY <1>7, <2>1, <2>2
  <2>4. b + g1 <= f1
    BY <1>7, <2>3
  <2> QED BY <2>2, <2>4
<1> QED BY <1>6, <1>8 DEF Budget, B

(* A step that moves no item.                                              *)
LEMMA PlaceStay ==
  ASSUME PlaceInv, UNCHANGED <<archived, calls, queue, batch, streamVars, dropped, unbound>>,
         hosts' \in Nat, hosts' + archived <= MaxItems, root' \notin Cleaned => root \notin Cleaned
  PROVE  PlaceInv' /\ [Abstract!Next]_(Abstract!vars)
<1>1. /\ Waiting' = Waiting /\ Pending' = Pending /\ Settled' = Settled /\ Silent' = Silent
      /\ UNCHANGED <<delivered, failures, ghosts>>
  BY DEF Waiting, Pending, Settled, Silent, streamVars
<1>2. QueueTypes' /\ NoDuplicates' /\ Apart' /\ TooEarly(calls', unbound)
  BY <1>1 DEF PlaceInv, QueueTypes, NoDuplicates, Apart
<1>3. Budget'
  BY <1>1, BudgetKept DEF PlaceInv, QueueTypes
<1> QED BY <1>1, <1>2, <1>3, Flow

-----------------------------------------------------------------------------
(* archive_*: the item waits in a callback.                                *)
LEMMA HandOverPlaces == ASSUME PlaceInv, HandOver PROVE PlaceInv' /\ [Abstract!Next]_(Abstract!vars)
<1> DEFINE n == archived + 1
           c == PutCall(n, finished # "unset")
<1>1. /\ hosts \in Nat /\ hosts > 0 /\ archived \in Nat /\ archived + hosts <= MaxItems
      /\ hosts' = hosts - 1 /\ archived' = n /\ calls' = Append(calls, c)
      /\ UNCHANGED <<root, queue, batch, ghosts, delivered, failures, dropped>>
      /\ unbound' = IF finished = "unset" THEN unbound \cup {n} ELSE unbound
      /\ calls \in Seq(Callback) /\ MaxItems \in Nat
  BY AsyncAssumption DEF HandOver, PlaceInv, QueueTypes, queueVars, streamVars, loopVars, AsyncAssumption
<1>2. /\ c \in Callback /\ c.item = n /\ (c.bound = FALSE => finished = "unset") /\ n # 0
      /\ n \in Nat /\ n \in Item /\ archived < MaxItems /\ n \notin 1 .. archived
  <2>1. /\ n # 0 /\ n \in Nat /\ n \in Item /\ archived < MaxItems /\ n \notin 1 .. archived
    BY <1>1 DEF Item
  <2>2. PICK b \in BOOLEAN : b = (finished # "unset")
    OBVIOUS
  <2>3. c = PutCall(n, b)
    BY <2>2
  <2> HIDE DEF c, n
  <2>4. c \in Callback
    BY <2>1, <2>3 DEF Callback
  <2>5. c.item = n /\ c.bound = b
    BY <2>3 DEF PutCall
  <2> QED BY <2>1, <2>2, <2>4, <2>5
<1>3. n \notin Pending \cup Settled
  BY <1>2 DEF PlaceInv, Apart, ApartSets, Pending, Settled
<1>4. n \notin ItemsOf(calls)
  BY <1>3, WaitingItems DEF Pending
<1>5. unbound \subseteq unbound' /\ (c.bound = FALSE => n \in unbound') /\ unbound' \subseteq unbound \cup {n}
  BY <1>1, <1>2
<1>6. OncePut(calls) /\ TooEarly(calls, unbound)
  BY DEF PlaceInv, NoDuplicates
<1> HIDE DEF c
<1>7. /\ calls' \in Seq(Callback) /\ OncePut(calls') /\ TooEarly(calls', unbound')
      /\ ItemsOf(calls') = ItemsOf(calls) \cup ({c.item} \ {0})
  BY <1>1, <1>2, <1>4, <1>5, <1>6, AddCall
<1>8. Waiting' = Waiting \cup {n}
  BY <1>2, <1>7, WaitingItems
<1>9. Settled' = Settled /\ Pending' = Pending \cup {n}
  BY <1>1, <1>8 DEF Settled, Pending
<1>10. 1 .. archived' = (1 .. archived) \cup {n}
  BY <1>1
<1> HIDE DEF n
<1>11. QueueTypes'
  BY <1>1, <1>2, <1>7 DEF PlaceInv, QueueTypes, n
<1>12. NoDuplicates'
  BY <1>1, <1>7 DEF PlaceInv, NoDuplicates
<1>13. ApartSets(Waiting, Range(queue), Range(batch), Settled, archived)
  BY DEF PlaceInv, Apart
<1>14. Apart'
  BY <1>1, <1>3, <1>8, <1>9, <1>10, <1>13 DEF Apart, ApartSets, Pending
<1>15. Silent' = Silent
  <2>1. n \notin 1 .. archived
    BY <1>2
  <2> QED BY <1>9, <1>10, <2>1 DEF Silent
<1>16. Silent' \ unbound' = Silent \ unbound
  <2>1. n \notin Silent
    BY <1>2 DEF Silent
  <2> QED BY <1>5, <1>15, <2>1
<1>17. Budget'
  BY <1>1, <1>16 DEF PlaceInv, Budget
<1>18. (1 .. archived') \ (Pending' \cup delivered') = (1 .. archived) \ (Pending \cup delivered)
  BY <1>1, <1>2, <1>9, <1>10 DEF PlaceInv, QueueTypes
<1>19. Abstract!Accept
  BY <1>1, <1>2, <1>9, <1>18 DEF Abstract!Accept, n
<1> QED BY <1>7, <1>11, <1>12, <1>14, <1>17, <1>19 DEF PlaceInv, Abstract!Next

(* _finished.set is handed to the loop.                                    *)
LEMMA StopPlaces == ASSUME PlaceInv, StopSignal PROVE PlaceInv' /\ [Abstract!Next]_(Abstract!vars)
<1>1. /\ UNCHANGED <<root, queue, batch, streamVars, dropped, archived, hosts, unbound>>
      /\ calls' = calls \/ calls' = Append(calls, FinishCall)
  BY DEF StopSignal, loopVars, queueVars, streamVars
<1>2. CASE calls' = calls
  BY <1>1, <1>2, PlaceStay DEF PlaceInv, QueueTypes
<1>3. CASE calls' = Append(calls, FinishCall)
  <2>1. FinishCall \in Callback /\ FinishCall.item = 0 /\ FinishCall.bound = TRUE
    BY DEF Callback, FinishCall
  <2>2. OncePut(calls) /\ TooEarly(calls, unbound) /\ calls \in Seq(Callback)
    BY DEF PlaceInv, NoDuplicates, QueueTypes
  <2>3. /\ calls' \in Seq(Callback) /\ OncePut(calls') /\ TooEarly(calls', unbound)
        /\ ItemsOf(calls') = ItemsOf(calls)
    <3> DEFINE c == FinishCall
    <3> HIDE DEF c
    <3>1. c \in Callback /\ c.item = 0 /\ ~(c.bound = FALSE) /\ calls' = Append(calls, c)
      BY <1>3, <2>1 DEF c
    <3>2. /\ calls' \in Seq(Callback) /\ OncePut(calls') /\ TooEarly(calls', unbound)
          /\ ItemsOf(calls') = ItemsOf(calls) \cup ({c.item} \ {0})
      BY <2>2, <3>1, AddCall
    <3> QED BY <3>1, <3>2
  <2>4. /\ Waiting' = Waiting /\ Pending' = Pending /\ Settled' = Settled /\ Silent' = Silent
        /\ UNCHANGED <<delivered, failures, ghosts>>
    BY <1>1, <2>3, WaitingItems DEF Pending, Settled, Silent, streamVars
  <2>5. QueueTypes' /\ NoDuplicates' /\ Apart'
    BY <1>1, <2>3, <2>4 DEF PlaceInv, QueueTypes, NoDuplicates, Apart
  <2>6. Budget'
    BY <1>1, <2>4, BudgetKept DEF PlaceInv, QueueTypes
  <2> QED BY <1>1, <2>3, <2>4, <2>5, <2>6, Flow
<1> QED BY <1>1, <1>2, <1>3

(* The loop runs a put.                                                    *)
LEMMA CallbackPlaces == ASSUME PlaceInv, RunCallback PROVE PlaceInv' /\ [Abstract!Next]_(Abstract!vars)
<1> DEFINE c == Head(calls)
<1>1. /\ calls # <<>> /\ calls' = Tail(calls)
      /\ UNCHANGED <<root, archived, hosts, unbound, batch, ghosts, delivered, failures>>
  BY DEF RunCallback, streamVars
<1>2. \/ c = FinishCall /\ UNCHANGED <<queue, dropped>>
      \/ c # FinishCall /\ ~c.bound /\ UNCHANGED <<queue, dropped>>
      \/ c # FinishCall /\ queue' = Append(queue, c.item) /\ dropped' = dropped
      \/ c # FinishCall /\ dropped' = dropped \cup {c.item} /\ queue' = queue
  BY DEF RunCallback, queueVars, CountDropped
<1>3. OncePut(calls) /\ TooEarly(calls, unbound) /\ calls \in Seq(Callback)
  BY DEF PlaceInv, NoDuplicates, QueueTypes
<1>4. /\ calls' \in Seq(Callback) /\ c \in Callback
      /\ ItemsOf(calls') = ItemsOf(calls) \ {c.item}
      /\ c.item # 0 => c.item \in ItemsOf(calls)
      /\ c.bound = FALSE => c.item \in unbound
      /\ OncePut(calls') /\ TooEarly(calls', unbound)
  BY <1>1, <1>3, NextCall
<1>5. /\ c = FinishCall => c.item = 0
      /\ c # FinishCall => c.item \in Item /\ c.item # 0 /\ c.bound \in BOOLEAN
  <2>1. CASE c = FinishCall
    <3>1. c.item = 0
      BY <2>1 DEF FinishCall
    <3> QED BY <2>1, <3>1
  <2>2. CASE \E i \in Item, b \in BOOLEAN : c = PutCall(i, b)
    <3>1. PICK i \in Item, b \in BOOLEAN : c = PutCall(i, b)
      BY <2>2
    <3>2. c.item = i /\ c.bound = b /\ i # 0
      BY <3>1 DEF PutCall, Item
    <3> QED BY <3>2 DEF FinishCall
  <2> QED BY <1>4, <2>1, <2>2 DEF Callback
<1> HIDE DEF c
<1>6. PICK x : x = c.item
  OBVIOUS
<1>7. Waiting' = Waiting \ {x} /\ (x # 0 => x \in Waiting) /\ 0 \notin Waiting
  BY <1>4, <1>6, WaitingItems DEF ItemsOf
<1>8. ApartSets(Waiting, Range(queue), Range(batch), Settled, archived)
  BY DEF PlaceInv, Apart
<1>9. UNCHANGED <<archived, batch, delivered>>
  BY <1>1
<1>10. CASE UNCHANGED <<queue, dropped>> /\ (c = FinishCall \/ x \in unbound)
  <2>1. Settled' = Settled /\ Range(queue)' = Range(queue) /\ Range(batch)' = Range(batch)
    BY <1>9, <1>10 DEF Settled
  <2>2. Waiting' \subseteq Waiting /\ (Waiting \ Waiting') \subseteq unbound
    BY <1>5, <1>6, <1>7, <1>10
  <2>3. Apart'
    BY <1>8, <1>9, <2>1, <2>2 DEF Apart, ApartSets
  <2>4. QueueTypes' /\ NoDuplicates'
    BY <1>1, <1>4, <1>10 DEF PlaceInv, QueueTypes, NoDuplicates
  <2>5. Pending' \subseteq Pending /\ Pending \ Pending' \subseteq unbound
    BY <2>1, <2>2 DEF Pending
  <2>6. Silent' \subseteq Silent \cup unbound
    BY <1>9, <2>1, <2>5 DEF Silent
  <2>7. Budget'
    BY <1>1, <2>6, BudgetKept DEF PlaceInv, QueueTypes
  <2> QED BY <1>1, <1>4, <2>3, <2>4, <2>5, <2>7, Flow
<1>11. CASE c # FinishCall /\ queue' = Append(queue, x) /\ dropped' = dropped
  <2>1. x \in Item /\ x \in Waiting /\ x \notin Range(queue)
    BY <1>5, <1>6, <1>7, <1>8, <1>11 DEF ApartSets
  <2>2. /\ queue' \in Seq(Item) /\ Range(queue') = Range(queue) \cup {x} /\ NoRepeat(queue')
    BY <1>11, <2>1, PutLast DEF PlaceInv, QueueTypes, NoDuplicates
  <2>3. Settled' = Settled /\ Range(batch)' = Range(batch) /\ Range(queue)' = Range(queue) \cup {x}
    BY <1>9, <1>11, <2>2 DEF Settled
  <2>4. Apart'
    BY <1>7, <1>8, <1>9, <2>1, <2>3 DEF Apart, ApartSets
  <2>5. QueueTypes' /\ NoDuplicates'
    BY <1>1, <1>4, <2>2 DEF PlaceInv, QueueTypes, NoDuplicates
  <2>6. Pending' = Pending
    BY <1>7, <2>1, <2>3 DEF Pending
  <2>7. Silent' = Silent
    BY <1>9, <2>3, <2>6 DEF Silent
  <2>8. Budget'
    BY <1>1, <2>7, BudgetKept DEF PlaceInv, QueueTypes
  <2> QED BY <1>1, <1>4, <2>4, <2>5, <2>6, <2>8, Flow
<1>12. CASE c # FinishCall /\ dropped' = dropped \cup {x} /\ queue' = queue
  <2>1. x \in Item /\ x \in Waiting
    BY <1>5, <1>6, <1>7, <1>12
  <2>2. Settled' = Settled \cup {x} /\ Range(batch)' = Range(batch) /\ Range(queue)' = Range(queue)
    BY <1>9, <1>12 DEF Settled
  <2>3. Apart'
    BY <1>7, <1>8, <1>9, <2>1, <2>2 DEF Apart, ApartSets
  <2>4. QueueTypes' /\ NoDuplicates'
    BY <1>1, <1>4, <1>12 DEF PlaceInv, QueueTypes, NoDuplicates
  <2>5. Pending' \subseteq Pending /\ Pending \subseteq Pending' \cup {x}
    BY <1>7, <2>2 DEF Pending
  <2>6. Silent' \subseteq Silent
    BY <1>9, <2>2, <2>5 DEF Silent
  <2>7. Budget'
    BY <1>1, <2>6, BudgetKept DEF PlaceInv, QueueTypes
  <2> QED BY <1>1, <1>4, <2>3, <2>4, <2>5, <2>7, Flow
<1> QED BY <1>2, <1>4, <1>5, <1>6, <1>10, <1>11, <1>12

(* _shutdown_async_queue counts what is queued as dropped.                 *)
LEMMA AbandonPlaces == ASSUME PlaceInv, RootAbandon PROVE PlaceInv' /\ [Abstract!Next]_(Abstract!vars)
<1>1. /\ queue' = <<>> /\ dropped' = dropped \cup Range(queue) /\ root = "abandon"
      /\ UNCHANGED <<archived, hosts, calls, unbound, batch, ghosts, delivered, failures>>
  BY DEF RootAbandon, CountDropped, hostVars, streamVars
<1>2. Range(queue') = {} /\ NoRepeat(queue') /\ queue' \in Seq(Item)
  BY <1>1, Empties
<1>3. /\ Waiting' = Waiting /\ Range(batch)' = Range(batch) /\ Range(queue)' = {}
      /\ Settled' = Settled \cup Range(queue)
  BY <1>1, <1>2 DEF Waiting, Settled
<1>4. Apart'
  BY <1>1, <1>3 DEF PlaceInv, Apart, ApartSets
<1>5. QueueTypes' /\ NoDuplicates' /\ TooEarly(calls', unbound)
  BY <1>1, <1>2 DEF PlaceInv, QueueTypes, NoDuplicates
<1>6. Pending' \subseteq Pending /\ Silent' \subseteq Silent
  BY <1>1, <1>3 DEF Pending, Silent
<1>7. Budget'
  BY <1>1, <1>6, BudgetKept DEF PlaceInv, QueueTypes, Cleaned
<1> QED BY <1>1, <1>4, <1>5, <1>6, <1>7, Flow

(* The generator takes an item; one that was left behind loses it.         *)
LEMMA TakePlaces ==
  ASSUME PlaceInv, GeneratorYields \/ GhostTakes PROVE PlaceInv' /\ [Abstract!Next]_(Abstract!vars)
<1>1. /\ queue # <<>> /\ queue' = Tail(queue)
      /\ UNCHANGED <<root, archived, hosts, calls, unbound, delivered, failures, dropped>>
  BY DEF GeneratorYields, GhostTakes, TaskFrame, loopVars, hostVars
<1>2. queue \in Seq(Item) /\ NoRepeat(queue)
  BY DEF PlaceInv, QueueTypes, NoDuplicates
<1>3. PICK x : x = Head(queue)
  OBVIOUS
<1>4. /\ queue' \in Seq(Item) /\ x \in Item /\ x \in Range(queue)
      /\ Range(queue') = Range(queue) \ {x} /\ NoRepeat(queue')
  BY <1>1, <1>2, <1>3, TakeHead
<1>5. ApartSets(Waiting, Range(queue), Range(batch), Settled, archived)
  BY DEF PlaceInv, Apart
<1>6. Waiting' = Waiting /\ Settled' = Settled /\ Range(queue)' = Range(queue) \ {x}
  BY <1>1, <1>4 DEF Waiting, Settled
<1>7. CASE GeneratorYields
  <2>1. batch' = Append(batch, x) /\ ghosts' = ghosts
    BY <1>3, <1>7 DEF GeneratorYields
  <2>2. batch \in Seq(Item) /\ NoRepeat(batch) /\ x \notin Range(batch)
    BY <1>4, <1>5 DEF PlaceInv, QueueTypes, NoDuplicates, ApartSets
  <2>3. batch' \in Seq(Item) /\ Range(batch') = Range(batch) \cup {x} /\ NoRepeat(batch')
    BY <1>4, <2>1, <2>2, PutLast
  <2>4. Range(batch)' = Range(batch) \cup {x}
    BY <2>3
  <2>5. Apart'
    BY <1>1, <1>4, <1>5, <1>6, <2>4 DEF Apart, ApartSets
  <2>6. QueueTypes' /\ NoDuplicates' /\ TooEarly(calls', unbound)
    BY <1>1, <1>4, <2>1, <2>3 DEF PlaceInv, QueueTypes, NoDuplicates
  <2>7. Pending' = Pending
    BY <1>4, <1>6, <2>4 DEF Pending
  <2>8. Silent' = Silent
    BY <1>1, <1>6, <2>7 DEF Silent
  <2>9. Budget'
    BY <1>1, <2>1, <2>8, BudgetKept DEF PlaceInv, QueueTypes
  <2> QED BY <1>1, <2>5, <2>6, <2>7, <2>9, Flow
<1>8. CASE GhostTakes
  <2>1. batch' = batch /\ ghosts > 0 /\ ghosts' = ghosts - 1
    BY <1>8 DEF GhostTakes
  <2>2. Range(batch)' = Range(batch)
    BY <2>1
  <2>3. Apart'
    BY <1>1, <1>5, <1>6, <2>2 DEF Apart, ApartSets
  <2>4. QueueTypes' /\ NoDuplicates' /\ TooEarly(calls', unbound)
    BY <1>1, <1>4, <2>1 DEF PlaceInv, QueueTypes, NoDuplicates
  <2>5. Pending' \subseteq Pending /\ Pending \subseteq Pending' \cup {x}
    BY <1>6, <2>2 DEF Pending
  <2>6. Silent' \subseteq Silent \cup {x}
    BY <1>1, <1>6, <2>5 DEF Silent
  <2>7. Budget'
    <3> DEFINE A == Silent \ unbound
               B == Silent' \ unbound
    <3>1. IsFiniteSet(Silent) /\ archived \in Nat
      BY SilentFinite DEF Silent, PlaceInv, QueueTypes
    <3>2. IsFiniteSet(A) /\ B \subseteq A \cup {x}
      BY <2>6, <3>1, FS_Subset
    <3>3. /\ IsFiniteSet(A \cup {x}) /\ Cardinality(A) \in Nat
          /\ Cardinality(A \cup {x}) \in Nat /\ Cardinality(A \cup {x}) <= Cardinality(A) + 1
      BY <3>2, AddOne
    <3>4. Cardinality(B) \in Nat /\ Cardinality(B) <= Cardinality(A) + 1
      BY <3>2, <3>3, FS_Subset, FS_CardinalityType
    <3>5. root \notin Cleaned => Cardinality(A) + ghosts <= failures
      BY DEF PlaceInv, Budget
    <3>6. ghosts \in Nat /\ failures \in Nat
      BY DEF PlaceInv, QueueTypes
    <3> HIDE DEF A, B
    <3>7. root' \notin Cleaned => Cardinality(B) + ghosts' <= failures'
      BY <1>1, <2>1, <3>3, <3>4, <3>5, <3>6
    <3> QED BY <1>1, <3>7 DEF Budget, B
  <2> QED BY <1>1, <2>3, <2>4, <2>5, <2>7, Flow
<1> QED BY <1>7, <1>8

-----------------------------------------------------------------------------
(* A stream ends: what arrived is a part of what it carried.               *)
LEMMA Received ==
  ASSUME batch \in Seq(Item), ReceivedPrefix
  PROVE  delivered \subseteq delivered' /\ delivered' \subseteq delivered \cup Range(batch)
<1>1. PICK k \in 0 .. Len(batch) : delivered' = delivered \cup {batch[i] : i \in 1 .. k}
  BY DEF ReceivedPrefix
<1>2. {batch[i] : i \in 1 .. k} \subseteq Range(batch)
  BY <1>1 DEF Range
<1> QED BY <1>1, <1>2

LEMMA FailPlaces == ASSUME PlaceInv, StreamFails PROVE PlaceInv' /\ [Abstract!Next]_(Abstract!vars)
<1>1. /\ batch' = <<>> /\ dropped' = dropped \cup Range(batch) /\ ReceivedPrefix
      /\ failures' = failures + 1 /\ ghosts' \in {ghosts, ghosts + 1}
      /\ UNCHANGED <<root, archived, hosts, calls, unbound, queue>>
  BY DEF StreamFails, CountDropped, Yielded, StreamReturns, queueVars, TaskFrame, loopVars, hostVars
<1>2. batch \in Seq(Item) /\ failures \in Nat /\ ghosts \in Nat
  BY DEF PlaceInv, QueueTypes
<1>3. delivered \subseteq delivered' /\ delivered' \subseteq delivered \cup Range(batch)
  BY <1>1, <1>2, Received
<1>4. Range(batch') = {} /\ NoRepeat(batch') /\ batch' \in Seq(Item)
  BY <1>1, Empties
<1>5. /\ Waiting' = Waiting /\ Range(queue)' = Range(queue) /\ Range(batch)' = {}
      /\ Settled' = Settled \cup Range(batch)
  BY <1>1, <1>3, <1>4 DEF Waiting, Settled
<1>6. ApartSets(Waiting, Range(queue), Range(batch), Settled, archived)
  BY DEF PlaceInv, Apart
<1>7. Apart'
  BY <1>1, <1>5, <1>6 DEF Apart, ApartSets
<1>8. QueueTypes' /\ NoDuplicates' /\ TooEarly(calls', unbound)
  BY <1>1, <1>2, <1>4 DEF PlaceInv, QueueTypes, NoDuplicates
<1>9. Pending' \subseteq Pending /\ Range(batch) \subseteq Pending \ Pending' /\ Silent' \subseteq Silent
  BY <1>1, <1>5, <1>6 DEF Pending, Silent, ApartSets
<1>10. Budget'
  <2>1. ghosts' \in Nat /\ failures' \in Nat /\ ghosts' + failures <= ghosts + failures'
    <3>1. PICK g \in Nat, f \in Nat : g = ghosts /\ f = failures
      BY <1>2
    <3>2. (ghosts' = g \/ ghosts' = g + 1) /\ failures' = f + 1
      BY <1>1, <3>1
    <3> QED BY <3>1, <3>2
  <2> QED BY <1>1, <1>9, <2>1, BudgetKept
<1> QED BY <1>1, <1>3, <1>7, <1>8, <1>9, <1>10, Flow

(* The cleanup is past: what a cancelled stream carried, and the callbacks *)
(* the loop did not run, are lost.                                         *)
LEMMA EndPlaces ==
  ASSUME PlaceInv, root \in Cleaned, root' = root, UNCHANGED <<archived, hosts, queue, unbound, failures, dropped>>,
         batch' = <<>>, ReceivedPrefix, calls' = calls \/ calls' = <<>>, ghosts' \in Nat
  PROVE  PlaceInv' /\ [Abstract!Next]_(Abstract!vars)
<1>1. batch \in Seq(Item) /\ failures \in Nat
  BY DEF PlaceInv, QueueTypes
<1>2. delivered \subseteq delivered' /\ delivered' \subseteq delivered \cup Range(batch)
  BY <1>1, Received
<1>3. Range(batch') = {} /\ NoRepeat(batch') /\ batch' \in Seq(Item)
  BY Empties
<1>4. /\ calls' \in Seq(Callback) /\ OncePut(calls') /\ TooEarly(calls', unbound)
      /\ ItemsOf(calls') \subseteq ItemsOf(calls)
  <2>1. CASE calls' = calls
    BY <2>1 DEF PlaceInv, QueueTypes, NoDuplicates
  <2>2. CASE calls' = <<>>
    BY <2>2, Empties
  <2> QED BY <2>1, <2>2
<1>5. /\ Waiting' \subseteq Waiting /\ Range(queue)' = Range(queue) /\ Range(batch)' = {}
      /\ Settled' \subseteq Settled \cup Range(batch)
  BY <1>2, <1>3, <1>4, WaitingItems DEF Settled
<1>6. ApartSets(Waiting, Range(queue), Range(batch), Settled, archived)
  BY DEF PlaceInv, Apart
<1>7. Apart'
  BY <1>5, <1>6 DEF Apart, ApartSets
<1>8. QueueTypes' /\ NoDuplicates'
  BY <1>1, <1>3, <1>4 DEF PlaceInv, QueueTypes, NoDuplicates
<1>9. Pending' \subseteq Pending /\ Range(batch) \subseteq Pending \ Pending'
  BY <1>5, <1>6 DEF Pending, ApartSets
<1>10. Budget'
  BY DEF Budget
<1> QED BY <1>2, <1>4, <1>7, <1>8, <1>9, <1>10, Flow

LEMMA PlaceStep == LogInv /\ PlaceInv /\ [Next]_vars => PlaceInv' /\ [Abstract!Next]_(Abstract!vars)
<1> SUFFICES ASSUME LogInv, PlaceInv, [Next]_vars PROVE PlaceInv' /\ [Abstract!Next]_(Abstract!vars)
  OBVIOUS
<1>0. archived \in Nat /\ hosts \in Nat /\ hosts + archived <= MaxItems /\ MaxItems \in Nat
  BY AsyncAssumption DEF PlaceInv, QueueTypes, AsyncAssumption
<1>1. CASE Archive
  <2>1. /\ UNCHANGED <<root, archived, calls, queue, batch, streamVars, dropped, unbound>>
        /\ hosts' = hosts + 1 /\ hosts + archived < MaxItems
    BY <1>1 DEF Archive, loopVars, queueVars, streamVars
  <2> QED BY <1>0, <2>1, PlaceStay
<1>2. CASE HandOverRaises
  <2>1. /\ UNCHANGED <<root, archived, calls, queue, batch, streamVars, dropped, unbound>>
        /\ hosts' = hosts - 1 /\ hosts > 0
    BY <1>2 DEF HandOverRaises, loopVars, queueVars, streamVars
  <2> QED BY <1>0, <2>1, PlaceStay
<1>3. CASE \/ Start \/ StopCheck \/ StopJoin \/ Connectivity \/ RootLoop \/ RootCreate \/ RootBoot \/ RootWake
           \/ RootJoin \/ RootCancel \/ RootGathered \/ RootClose \/ UNCHANGED vars
  <2>1. UNCHANGED <<hosts, archived, calls, queue, batch, streamVars, dropped, unbound>>
    BY <1>3 DEF Start, StopCheck, StopJoin, Connectivity, RootLoop, RootCreate, RootBoot, RootWake,
       RootJoin, RootCancel, RootGathered, RootClose, hostVars, queueVars, streamVars, vars
  <2>2. root' \notin Cleaned => root \notin Cleaned
    BY <1>3 DEF Start, StopCheck, StopJoin, Connectivity, RootLoop, RootCreate, RootBoot, RootWake,
       RootJoin, RootCancel, RootGathered, RootClose, loopVars, vars, Cleaned, LogInv, TaskFlow
  <2> QED BY <1>0, <2>1, <2>2, PlaceStay
<1>4. CASE ReporterExit \/ ReporterOpen \/ DispatchFails
  <2>1. UNCHANGED <<root, hosts, archived, calls, queue, batch, streamVars, dropped, unbound>>
    BY <1>4 DEF ReporterExit, ReporterOpen, DispatchFails, TaskFrame, loopVars, hostVars, queueVars, streamVars
  <2> QED BY <1>0, <2>1, PlaceStay
<1>5. CASE HandOver
  BY <1>5, HandOverPlaces
<1>6. CASE StopSignal
  BY <1>6, StopPlaces
<1>7. CASE RunCallback
  BY <1>7, CallbackPlaces
<1>8. CASE RootAbandon
  BY <1>8, AbandonPlaces
<1>9. CASE GeneratorYields \/ GhostTakes
  BY <1>9, TakePlaces
<1>10. CASE StreamFails
  BY <1>10, FailPlaces
<1>11. CASE RunnerEnds
  <2>1. /\ root \in Cleaned /\ root' = root /\ UNCHANGED <<archived, hosts, queue, unbound, failures, dropped>>
        /\ batch' = <<>> /\ ReceivedPrefix /\ calls' = <<>> /\ ghosts' = 0
    BY <1>11 DEF RunnerEnds, Cleaned, queueVars
  <2> QED BY <2>1, EndPlaces
<1>12. CASE \E t \in Task : TaskCancelled(t)
  <2>1. PICK t \in Task : TaskCancelled(t)
    BY <1>12
  <2>2. root \in Cleaned /\ UNCHANGED <<root, hosts, archived, calls, queue, unbound, dropped>>
    BY <2>1 DEF TaskCancelled, loopVars, hostVars, queueVars, LogInv, TaskFlow
  <2>3. CASE UNCHANGED streamVars
    BY <1>0, <2>2, <2>3, PlaceStay DEF streamVars
  <2>4. CASE ReceivedPrefix /\ batch' = <<>> /\ UNCHANGED <<ghosts, failures>>
    BY <2>2, <2>4, EndPlaces DEF PlaceInv, QueueTypes
  <2> QED BY <2>1, <2>3, <2>4 DEF TaskCancelled
<1> QED
  BY <1>1, <1>2, <1>3, <1>4, <1>5, <1>6, <1>7, <1>8, <1>9, <1>10, <1>11, <1>12 DEF Next, Host, Root, Tasks

LEMMA PlaceInit == Init => PlaceInv /\ Abstract!Init
<1> SUFFICES ASSUME Init PROVE PlaceInv /\ Abstract!Init
  OBVIOUS
<1>1. /\ calls = <<>> /\ archived = 0 /\ hosts = 0 /\ unbound = {} /\ queue = <<>> /\ batch = <<>>
      /\ ghosts = 0 /\ delivered = {} /\ failures = 0 /\ dropped = {}
  BY DEF Init
<1>2. Waiting = {} /\ Range(queue) = {} /\ Range(batch) = {} /\ Settled = {} /\ 1 .. archived = {}
  BY <1>1, Empties, WaitingItems DEF Settled
<1>3. Pending = {} /\ Silent = {}
  BY <1>2 DEF Pending, Silent
<1>4. QueueTypes
  BY <1>1, AsyncAssumption DEF QueueTypes, AsyncAssumption
<1>5. NoDuplicates /\ TooEarly(calls, unbound) /\ Apart
  BY <1>1, <1>2, Empties DEF NoDuplicates, Apart, ApartSets
<1>6. Budget
  <2>1. Silent \ unbound = {}
    BY <1>3
  <2>2. Cardinality(Silent \ unbound) = 0
    BY <2>1, FS_EmptySet
  <2> QED BY <1>1, <2>2 DEF Budget
<1>7. Abstract!Init
  BY <1>1, <1>2, <1>3 DEF Abstract!Init
<1> QED BY <1>4, <1>5, <1>6, <1>7 DEF PlaceInv

(* Until the cleanup, an async agent loses without counting at most one    *)
(* item per failed stream (a generator left waiting in queue.get() takes   *)
(* one more), besides the puts handed to a queue that was still None.      *)
THEOREM SilentLossBounded == Spec => []SilentLossBound
<1>1. PlaceInv => SilentLossBound
  <2> SUFFICES ASSUME PlaceInv, root \in {"boot", "serve", "abandon"}
               PROVE  Cardinality(Silent \ unbound) <= failures
    BY DEF SilentLossBound
  <2>1. root \notin Cleaned
    BY DEF Cleaned
  <2>2. Silent \ unbound = (1 .. archived) \ (Pending \cup Settled \cup unbound)
    BY DEF Silent
  <2>3. Cardinality(Silent \ unbound) \in Nat
    BY <2>2, SilentFinite DEF PlaceInv, QueueTypes
  <2> QED BY <2>1, <2>3 DEF PlaceInv, Budget, QueueTypes
<1> QED BY <1>1, LogInit, LogStep, PlaceInit, PlaceStep, PTL DEF Spec

(* The event loop, its callbacks, its queue, its streams and its shutdown  *)
(* implement the lossy channel: an item handed to the loop is delivered or *)
(* lost once, and neither a broken stream nor a closing loop brings it     *)
(* back.                                                                   *)
THEOREM AsyncIsLossyChannel == Spec => BestEffortAtMostOnce
<1> QED BY LogInit, LogStep, PlaceInit, PlaceStep, PTL DEF Spec, BestEffortAtMostOnce, Abstract!Spec
=============================================================================
