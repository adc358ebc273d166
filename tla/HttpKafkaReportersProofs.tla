---------------------- MODULE HttpKafkaReportersProofs -----------------------
(***************************************************************************)
(* Proofs about HttpKafkaReporters, for every set of routes, every queue   *)
(* size, number of items, number of failures and every refresh period.     *)
(***************************************************************************)
EXTENDS HttpKafkaReporters, FiniteSetTheorems, TLAPS

Item == 1 .. MaxItems
CallerRecord == [pc : {"top", "off", "get", "send", "done", "exit"}, batch : Seq(Item), first : BOOLEAN]

QueueTypeOK ==
  /\ route \in [async : BOOLEAN, kafka : BOOLEAN, batch : BOOLEAN]
  /\ queue \in Seq(Item) /\ buffer \in Seq(Item)
  /\ archived \in 0 .. MaxItems
  /\ caller \in [Caller -> CallerRecord]
  /\ fini \in {"none", "drain", "flush", "abandon", "join", "cancel", "stopped"}
  /\ abandoned \in SUBSET Item
  /\ delivered \in SUBSET Item /\ dropped \in SUBSET Item
  /\ failures \in Nat

(* What a call holds: nothing before and after, nothing between two        *)
(* messages where items go one by one, and then one item at most. The      *)
(* flush starts once, and only tasks are cancelled.                        *)
FlowOf(r) ==
  /\ r.pc \notin {"get", "send"} => r.batch = <<>>
  /\ ~route.batch /\ r.pc = "get" => r.batch = <<>>
  /\ ~route.batch => Len(r.batch) <= 1

CallFlow ==
  /\ \A c \in Caller : FlowOf(caller[c])
  /\ fini \in {"none", "drain"} => caller["flush"].pc = "off"
  /\ fini = "cancel" => route.async

NoRepeat(s) == \A i, j \in DOMAIN s : s[i] = s[j] => i = j

NoDuplicates ==
  /\ NoRepeat(queue) /\ NoRepeat(buffer)
  /\ \A c \in Caller : NoRepeat(caller[c].batch)
  /\ Range(caller["loop"].batch) \cap Range(caller["flush"].batch) = {}

Settled == delivered \cup dropped

(* Every item is in one place.                                             *)
Apart ==
  /\ Range(queue) \cap (Held \cup Range(buffer) \cup abandoned \cup Settled) = {}
  /\ Held \cap (Range(buffer) \cup abandoned \cup Settled) = {}
  /\ Range(buffer) \cap (abandoned \cup Settled) = {}
  /\ abandoned \cap Settled = {}
  /\ Pending \cup Settled \subseteq 1 .. archived

RouteInv == QueueTypeOK /\ CallFlow /\ NoDuplicates /\ Apart /\ SilentLossBound

(* The heartbeat: gap never outgrows the failed refreshes and the beats    *)
(* since the counter was last due.                                         *)
BeatInv ==
  /\ route \in [async : BOOLEAN, kafka : BOOLEAN, batch : BOOLEAN]
  /\ hb \in [sent : BOOLEAN, counter : Nat, answered : BOOLEAN, gap : Nat, missed : Nat, beats : Nat]
  /\ ~route.kafka /\ (hb.sent \/ hb.gap > 0) => hb.answered
  /\ hb.gap <= Factor * hb.missed + (hb.counter % Factor) + 1

-----------------------------------------------------------------------------
(* Division with remainder is unique.                                      *)
LEMMA RemainderUnique ==
  ASSUME NEW F \in Nat, F > 0, NEW d \in Int, NEW r \in 0 .. (F - 1), NEW s \in 0 .. (F - 1),
         d * F = r + 1 - s
  PROVE  s = IF r = F - 1 THEN 0 ELSE r + 1
<1>1. CASE d = 0
  BY <1>1
<1>2. CASE d >= 1
  <2>1. (d - 1) * F >= 0
    BY <1>2
  <2>2. d * F >= F
    BY <2>1
  <2> QED BY <2>2
<1>3. CASE d <= -1
  <2>1. (-1 - d) * F >= 0
    BY <1>3
  <2>2. d * F <= -F
    BY <2>1
  <2> QED BY <2>2
<1> QED BY <1>1, <1>2, <1>3

(* The counter modulo Factor goes up by one until the refresh is due.      *)
LEMMA CounterMod ==
  ASSUME NEW c \in Nat
  PROVE  /\ c % Factor \in 0 .. (Factor - 1)
         /\ RefreshDue(c + 1) => c % Factor = Factor - 1
         /\ ~RefreshDue(c + 1) => (c + 1) % Factor = (c % Factor) + 1
<1> DEFINE q == c \div Factor
           q1 == (c + 1) \div Factor
           r == c % Factor
           r1 == (c + 1) % Factor
<1>1. Factor \in Nat /\ Factor > 0
  BY RoutesAssumption DEF RoutesAssumption
<1>2. r \in 0 .. (Factor - 1) /\ r1 \in 0 .. (Factor - 1) /\ q \in Int /\ q1 \in Int
  BY <1>1
<1>3. c = Factor * q + r
  BY <1>1
<1>4. c + 1 = Factor * q1 + r1
  BY <1>1
<1>5. (q1 - q) * Factor = r + 1 - r1 /\ q1 - q \in Int
  BY <1>1, <1>2, <1>3, <1>4
<1>6. r1 = IF r = Factor - 1 THEN 0 ELSE r + 1
  BY <1>1, <1>2, <1>5, RemainderUnique
<1> QED BY <1>1, <1>2, <1>6 DEF RefreshDue

-----------------------------------------------------------------------------
(* One beat: what it does to the history of the properties.                *)
LEMMA BeatStep ==
  ASSUME BeatInv, NEW register \in BOOLEAN, NEW refresh \in BOOLEAN, NEW ping \in BOOLEAN,
         Beat(register, refresh, ping)
  PROVE  BeatInv'
<1> DEFINE counted == [hb EXCEPT !.beats = @ + 1]
           h1 == IF Registers THEN [Props(counted, register) EXCEPT !.sent = SentAfter(register)]
                 ELSE counted
           h2 == [h1 EXCEPT !.counter = @ + 1]
           h3 == IF RefreshDue(h2.counter) THEN Props(h2, refresh) ELSE h2
           c == hb.counter
           Record == [sent : BOOLEAN, counter : Nat, answered : BOOLEAN, gap : Nat, missed : Nat, beats : Nat]
           Bound(h) == h.gap <= Factor * h.missed + (h.counter % Factor) + 1
<1>1. /\ hb' = IF Registers /\ ~register THEN h1
               ELSE IF RefreshDue(h2.counter) /\ ~refresh /\ ~Unawaited THEN h3
               ELSE [h3 EXCEPT !.gap = IF ping THEN @ + 1 ELSE @]
      /\ route' = route
  BY DEF Beat, queueVars
<1>2. Factor \in Nat /\ Factor > 0 /\ c \in Nat /\ hb \in Record
  BY RoutesAssumption DEF RoutesAssumption, BeatInv
<1>3. /\ h1 \in Record /\ h1.counter = c
      /\ ~route.kafka /\ (h1.sent \/ h1.gap > 0) => h1.answered
      /\ h1.gap <= hb.gap
      /\ h1.missed \in {hb.missed, hb.missed + 1} \/ (h1.missed = 0 /\ h1.gap = 0)
      /\ Registers /\ register => h1.answered
  <2> DEFINE p == Props(counted, register)
  <2>1. /\ counted \in Record /\ counted.counter = c /\ counted.gap = hb.gap
        /\ counted.missed = hb.missed /\ counted.answered = hb.answered
    BY <1>2
  <2>2. CASE Registers
    <3> HIDE DEF counted
    <3>1. h1 = [p EXCEPT !.sent = register]
      BY <2>2 DEF SentAfter
    <3>2. CASE register
      <4>1. p = [counted EXCEPT !.answered = TRUE, !.gap = 0, !.missed = 0]
        BY <3>2 DEF Props
      <4> HIDE DEF p
      <4>2. p \in Record /\ p.counter = c /\ p.gap = 0 /\ p.missed = 0 /\ p.answered = TRUE
        BY <2>1, <4>1
      <4> HIDE DEF h1
      <4>3. /\ h1 \in Record /\ h1.counter = c /\ h1.gap = 0 /\ h1.missed = 0 /\ h1.answered = TRUE
        BY <3>1, <4>2
      <4> QED BY <1>2, <4>3
    <3>3. CASE ~register
      <4>1. p = [counted EXCEPT !.missed = @ + 1]
        BY <3>3 DEF Props
      <4> HIDE DEF p
      <4>2. /\ p \in Record /\ p.counter = c /\ p.gap = hb.gap /\ p.missed = hb.missed + 1
            /\ p.answered = hb.answered
        BY <1>2, <2>1, <4>1
      <4> HIDE DEF h1
      <4>3. /\ h1 \in Record /\ h1.counter = c /\ h1.gap = hb.gap /\ h1.missed = hb.missed + 1
            /\ h1.answered = hb.answered /\ h1.sent = register
        BY <3>1, <4>2
      <4> QED BY <1>2, <3>3, <4>3 DEF BeatInv
    <3> QED BY <3>2, <3>3
  <2>3. CASE ~Registers
    BY <1>2, <2>3 DEF BeatInv
  <2> QED BY <2>2, <2>3
<1>4. Bound(h1)
  <2>1. c % Factor >= 0 /\ c % Factor \in Int
    BY <1>2, CounterMod
  <2>2. hb.gap <= Factor * hb.missed + (c % Factor) + 1
    BY DEF BeatInv
  <2>3. CASE h1.missed = 0 /\ h1.gap = 0
    BY <1>2, <1>3, <2>1, <2>3
  <2>4. CASE h1.missed = hb.missed
    BY <1>2, <1>3, <2>1, <2>2, <2>4
  <2>5. CASE h1.missed = hb.missed + 1
    <3>1. Factor * (hb.missed + 1) = Factor * hb.missed + Factor
      BY <1>2
    <3> QED BY <1>2, <1>3, <2>1, <2>2, <2>5, <3>1
  <2> QED BY <1>3, <2>3, <2>4, <2>5
<1>5. CASE Registers /\ ~register
  BY <1>1, <1>3, <1>4, <1>5 DEF BeatInv
<1>6. CASE ~(Registers /\ ~register)
  <2> HIDE DEF h1
  <2> DEFINE m == h1.missed
             g == h1.gap
  <2>1. /\ h2 \in Record /\ h2.counter = c + 1 /\ h2.gap = g /\ h2.missed = m
        /\ h2.sent = h1.sent /\ h2.answered = h1.answered
    BY <1>2, <1>3
  <2>2. ~route.kafka => h1.answered
    BY <1>3, <1>6 DEF Registers, BeatInv, Props, SentAfter, h1
  <2>3. m \in Nat /\ g \in Nat /\ g <= Factor * m + (c % Factor) + 1
    BY <1>3, <1>4
  <2>4. /\ c % Factor \in 0 .. (Factor - 1)
        /\ RefreshDue(c + 1) => c % Factor = Factor - 1 /\ (c + 1) % Factor = 0
        /\ ~RefreshDue(c + 1) => (c + 1) % Factor = (c % Factor) + 1
    BY <1>2, CounterMod DEF RefreshDue
  <2> HIDE DEF h2
  <2>5. /\ h3 \in Record /\ h3.counter = c + 1 /\ h3.sent = h1.sent
        /\ ~route.kafka => h3.answered
        /\ h3.gap + 1 <= Factor * h3.missed + ((c + 1) % Factor) + 1
    <3>1. CASE RefreshDue(c + 1) /\ refresh
      <4>1. h3 = [h2 EXCEPT !.answered = TRUE, !.gap = 0, !.missed = 0]
        BY <2>1, <3>1 DEF Props
      <4> HIDE DEF h3
      <4>2. h3 \in Record /\ h3.counter = c + 1 /\ h3.sent = h1.sent /\ h3.answered = TRUE /\ h3.gap = 0 /\ h3.missed = 0
        BY <2>1, <4>1
      <4> QED BY <1>2, <2>4, <3>1, <4>2
    <3>2. CASE RefreshDue(c + 1) /\ ~refresh
      <4>1. h3 = [h2 EXCEPT !.missed = m + 1]
        BY <2>1, <3>2 DEF Props
      <4>2. /\ h3 \in Record /\ h3.counter = c + 1 /\ h3.sent = h1.sent /\ h3.answered = h1.answered
            /\ h3.gap = g /\ h3.missed = m + 1
        BY <2>1, <2>3, <4>1
      <4>3. Factor * (m + 1) = Factor * m + Factor
        BY <1>2, <2>3
      <4>4. g + 1 <= Factor * (m + 1) + 0 + 1
        BY <1>2, <2>3, <2>4, <3>2, <4>3
      <4> QED BY <2>2, <2>4, <3>2, <4>2, <4>4
    <3>3. CASE ~RefreshDue(c + 1)
      <4>1. h3 = h2
        BY <2>1, <3>3
      <4>2. g + 1 <= Factor * m + ((c % Factor) + 1) + 1
        BY <1>2, <2>3, <2>4
      <4> QED BY <2>1, <2>2, <2>4, <3>3, <4>1, <4>2
    <3> QED BY <3>1, <3>2, <3>3
  <2> HIDE DEF h3
  <2>6. /\ hb' \in Record /\ hb'.counter = c + 1
        /\ hb'.gap <= h3.gap + 1 /\ hb'.missed = h3.missed /\ hb'.answered = h3.answered
    <3>1. hb' = h3 \/ hb' = [h3 EXCEPT !.gap = IF ping THEN @ + 1 ELSE @]
      BY <1>1, <1>6
    <3> QED BY <2>5, <3>1
  <2>7. Factor * h3.missed \in Int /\ (c + 1) % Factor \in Int
    BY <1>2, <2>5
  <2>8. hb'.gap <= Factor * hb'.missed + (hb'.counter % Factor) + 1
    BY <2>5, <2>6, <2>7
  <2> QED BY <1>1, <2>5, <2>6, <2>8 DEF BeatInv
<1> QED BY <1>5, <1>6

(* An instance the collector has not heard of is not pinged over HTTP, and *)
(* the pings between two answered properties are bounded by the refreshes  *)
(* that failed, for every refresh period.                                  *)
THEOREM PropertiesKept == Spec => []InstanceRegistered
<1>1. Init => BeatInv
  <2> SUFFICES ASSUME Init PROVE BeatInv
    OBVIOUS
  <2>1. Factor \in Nat /\ Factor > 0 /\ Routes \subseteq [async : BOOLEAN, kafka : BOOLEAN, batch : BOOLEAN]
    BY RoutesAssumption DEF RoutesAssumption
  <2>2. 0 % Factor \in 0 .. (Factor - 1)
    BY <2>1
  <2> QED BY <2>1, <2>2 DEF Init, BeatInv
<1>2. BeatInv /\ [Next]_vars => BeatInv'
  <2> SUFFICES ASSUME BeatInv, [Next]_vars PROVE BeatInv'
    OBVIOUS
  <2>1. CASE UNCHANGED <<route, hb>>
    BY <2>1 DEF BeatInv
  <2>2. ASSUME NEW register \in BOOLEAN, NEW refresh \in BOOLEAN, NEW ping \in BOOLEAN,
               Beat(register, refresh, ping)
        PROVE  BeatInv'
    BY <2>2, BeatStep
  <2>3. ASSUME NEW c \in Caller, Call(c)
        PROVE  UNCHANGED <<route, hb>>
    BY <2>3 DEF Call, Get, GeneratorEnds, ProducerStartFails, Send, SendRefused, SendFails, queueVars
  <2>4. CASE Put \/ Loop \/ BrokerAnswers \/ FiniStart \/ Fini \/ UNCHANGED vars
    BY <2>1, <2>4 DEF Put, Loop, LoopStart, LoopExit, BrokerAnswers, FiniStart, Fini, FiniFlush,
       FiniFlushWait, FiniAbandon, FiniAbandoned, FiniJoin, FiniCancel, queueVars, vars
  <2> QED BY <2>1, <2>2, <2>3, <2>4 DEF Next
<1>3. BeatInv => InstanceRegistered
  <2> SUFFICES ASSUME BeatInv PROVE InstanceRegistered
    OBVIOUS
  <2>1. Factor \in Nat /\ Factor > 0 /\ hb.missed \in Nat /\ hb.gap \in Nat /\ hb.counter \in Nat
    BY RoutesAssumption DEF RoutesAssumption, BeatInv
  <2>2. hb.counter % Factor <= Factor - 1 /\ hb.counter % Factor \in Int
    BY <2>1, CounterMod
  <2>3. Factor * (hb.missed + 1) = Factor * hb.missed + Factor
    BY <2>1
  <2> QED BY <2>1, <2>2, <2>3 DEF BeatInv, InstanceRegistered
<1> QED BY <1>1, <1>2, <1>3, PTL DEF Spec

-----------------------------------------------------------------------------
(* Sequences without repetition: taking the head, putting an item at the   *)
(* end and appending one to another.                                       *)
LEMMA EmptyRange == Range(<<>>) = {} /\ NoRepeat(<<>>)
  BY DEF Range, NoRepeat

LEMMA TakeHead ==
  ASSUME NEW s \in Seq(Item), s # <<>>, NoRepeat(s)
  PROVE  /\ Head(s) \in Item /\ Tail(s) \in Seq(Item)
         /\ Head(s) \in Range(s)
         /\ Range(Tail(s)) = Range(s) \ {Head(s)}
         /\ NoRepeat(Tail(s))
<1> DEFINE t == Tail(s)
<1>1. /\ Len(s) \in Nat /\ Len(s) > 0 /\ Head(s) = s[1] /\ Head(s) \in Item
      /\ t \in Seq(Item) /\ Len(t) = Len(s) - 1
  OBVIOUS
<1>2. /\ DOMAIN s = 1 .. Len(s) /\ DOMAIN t = 1 .. (Len(s) - 1)
      /\ \A i \in DOMAIN t : t[i] = s[i + 1]
  BY <1>1
<1>3. \A i, j \in DOMAIN s : s[i] = s[j] => i = j
  BY DEF NoRepeat
<1> HIDE DEF t
<1>4. NoRepeat(t)
  BY <1>1, <1>2, <1>3 DEF NoRepeat
<1>5. Head(s) \in Range(s)
  BY <1>1, <1>2 DEF Range
<1>6. Range(t) \subseteq Range(s) \ {Head(s)}
  BY <1>1, <1>2, <1>3 DEF Range
<1>7. Range(s) \ {Head(s)} \subseteq Range(t)
  <2> SUFFICES ASSUME NEW i \in DOMAIN s, s[i] # Head(s)
               PROVE  s[i] \in Range(t)
    BY DEF Range
  <2>1. i # 1 /\ i - 1 \in DOMAIN t /\ t[i - 1] = s[i]
    BY <1>1, <1>2
  <2> QED BY <2>1 DEF Range
<1> QED BY <1>1, <1>4, <1>5, <1>6, <1>7 DEF t

LEMMA PutLast ==
  ASSUME NEW s \in Seq(Item), NEW x \in Item, x \notin Range(s), NoRepeat(s)
  PROVE  /\ Append(s, x) \in Seq(Item)
         /\ Range(Append(s, x)) = Range(s) \cup {x}
         /\ NoRepeat(Append(s, x))
         /\ Len(Append(s, x)) = Len(s) + 1
<1> DEFINE t == Append(s, x)
<1>1. /\ DOMAIN s = 1 .. Len(s) /\ DOMAIN t = 1 .. (Len(s) + 1) /\ Len(s) \in Nat
      /\ \A i \in DOMAIN s : t[i] = s[i]
      /\ t[Len(s) + 1] = x /\ t \in Seq(Item) /\ Len(t) = Len(s) + 1
  OBVIOUS
<1> HIDE DEF t
<1>2. /\ \A i \in DOMAIN t : i \in DOMAIN s \/ i = Len(s) + 1
      /\ \A i \in DOMAIN s : i \in DOMAIN t
      /\ Len(s) + 1 \in DOMAIN t
  BY <1>1
<1>3. \A i \in DOMAIN s : s[i] # x
  BY DEF Range
<1>4. NoRepeat(t)
  BY <1>1, <1>2, <1>3 DEF NoRepeat
<1>5. Range(t) = Range(s) \cup {x}
  BY <1>1, <1>2 DEF Range
<1> QED BY <1>1, <1>4, <1>5 DEF t

LEMMA Concat ==
  ASSUME NEW s \in Seq(Item), NEW t \in Seq(Item), Range(s) \cap Range(t) = {},
         NoRepeat(s), NoRepeat(t)
  PROVE  /\ s \o t \in Seq(Item)
         /\ Range(s \o t) = Range(s) \cup Range(t)
         /\ NoRepeat(s \o t)
<1> DEFINE u == s \o t
           m == Len(s)
           n == Len(t)
<1>1. /\ m \in Nat /\ n \in Nat /\ u \in Seq(Item)
      /\ DOMAIN s = 1 .. m /\ DOMAIN t = 1 .. n /\ DOMAIN u = 1 .. (m + n)
      /\ \A i \in 1 .. m : u[i] = s[i]
      /\ \A i \in (m + 1) .. (m + n) : u[i] = t[i - m]
  OBVIOUS
<1> HIDE DEF u, m, n
<1>2. \A i \in DOMAIN s : i \in DOMAIN u /\ u[i] = s[i]
  BY <1>1
<1>3. \A i \in DOMAIN t : i + m \in DOMAIN u /\ u[i + m] = t[i]
  BY <1>1
<1>4. \A i \in DOMAIN u : i \in DOMAIN s \/ (i - m \in DOMAIN t /\ u[i] = t[i - m] /\ i \in Int)
  BY <1>1
<1>5. Range(u) = Range(s) \cup Range(t)
  <2>1. Range(s) \subseteq Range(u)
    BY <1>2 DEF Range
  <2>2. Range(t) \subseteq Range(u)
    BY <1>3 DEF Range
  <2>3. Range(u) \subseteq Range(s) \cup Range(t)
    BY <1>2, <1>4 DEF Range
  <2> QED BY <2>1, <2>2, <2>3
<1>6. \A i \in DOMAIN s, j \in DOMAIN t : s[i] # t[j]
  BY DEF Range
<1>7. NoRepeat(u)
  <2> SUFFICES ASSUME NEW i \in DOMAIN u, NEW j \in DOMAIN u, u[i] = u[j]
               PROVE  i = j
    BY DEF NoRepeat
  <2>1. i \in Int /\ j \in Int /\ m \in Int
    BY <1>1
  <2>2. CASE i \in DOMAIN s /\ j \in DOMAIN s
    BY <1>2, <2>2 DEF NoRepeat
  <2>3. CASE i - m \in DOMAIN t /\ u[i] = t[i - m] /\ j - m \in DOMAIN t /\ u[j] = t[j - m]
    <3>1. i - m = j - m
      BY <2>3 DEF NoRepeat
    <3> QED BY <2>1, <3>1
  <2>4. CASE i \in DOMAIN s /\ j - m \in DOMAIN t /\ u[j] = t[j - m]
    BY <1>2, <1>6, <2>4
  <2>5. CASE j \in DOMAIN s /\ i - m \in DOMAIN t /\ u[i] = t[i - m]
    BY <1>2, <1>6, <2>5
  <2> QED BY <1>4, <2>2, <2>3, <2>4, <2>5
<1> QED BY <1>1, <1>5, <1>7 DEF u

(* A sequence without repetition has as many items as places.              *)
LEMMA RangeSize ==
  ASSUME NEW s \in Seq(Item), NoRepeat(s)
  PROVE  IsFiniteSet(Range(s)) /\ Cardinality(Range(s)) = Len(s)
<1>1. Len(s) \in Nat /\ DOMAIN s = 1 .. Len(s)
  OBVIOUS
<1>2. s \in Bijection(1 .. Len(s), Range(s))
  BY <1>1 DEF Bijection, Injection, Surjection, IsInjective, NoRepeat, Range
<1>3. ExistsBijection(1 .. Len(s), Range(s))
  BY <1>2 DEF ExistsBijection
<1>4. Cardinality(Range(s)) = Len(s)
  BY <1>1, <1>3, FS_CountingElements
<1>5. IsFiniteSet(1 .. Len(s))
  BY <1>1, FS_Interval
<1> QED BY <1>3, <1>4, <1>5, FS_Bijection

LEMMA ItemSets ==
  ASSUME NEW S \in SUBSET Item
  PROVE  IsFiniteSet(S) /\ Cardinality(S) \in Nat
<1>1. IsFiniteSet(Item)
  BY RoutesAssumption, FS_Interval DEF Item, RoutesAssumption
<1> QED BY <1>1, FS_Subset, FS_CardinalityType

-----------------------------------------------------------------------------
(* The records a call goes through when it holds nothing.                  *)
LEMMA QuietRecords ==
  /\ \A pc \in {"top", "off", "get", "send", "done", "exit"} :
       /\ Quiet(pc) \in CallerRecord /\ Quiet(pc).batch = <<>> /\ Quiet(pc).pc = pc
  /\ \A c \in Caller :
       /\ Returned(c) \in CallerRecord /\ Returned(c).batch = <<>>
       /\ AfterSend(c) \in CallerRecord /\ AfterSend(c).batch = <<>>
<1>1. ASSUME NEW pc \in {"top", "off", "get", "send", "done", "exit"}
      PROVE  Quiet(pc) \in CallerRecord /\ Quiet(pc).batch = <<>> /\ Quiet(pc).pc = pc
  <2>1. <<>> \in Seq(Item)
    OBVIOUS
  <2> QED BY <2>1 DEF Quiet, CallerRecord
<1>2. ASSUME NEW c \in Caller
      PROVE  Returned(c) \in CallerRecord /\ Returned(c).batch = <<>>
  BY <1>1 DEF Returned
<1>3. ASSUME NEW c \in Caller
      PROVE  AfterSend(c) \in CallerRecord /\ AfterSend(c).batch = <<>>
  <2>1. CASE route.batch
    BY <1>2, <2>1 DEF AfterSend
  <2>2. CASE ~route.batch
    <3>1. Quiet("get") \in CallerRecord /\ Quiet("get").batch = <<>>
      BY <1>1
    <3>2. AfterSend(c) = [Quiet("get") EXCEPT !.first = FALSE]
      BY <2>2 DEF AfterSend
    <3> QED BY <3>1, <3>2 DEF CallerRecord
  <2> QED BY <2>1, <2>2
<1> QED BY <1>1, <1>2, <1>3

LEMMA EmptyFlow ==
  ASSUME NEW r, r.batch = <<>>
  PROVE  FlowOf(r)
<1>1. Len(<<>>) = 0
  OBVIOUS
<1> QED BY <1>1 DEF FlowOf

(* One caller goes on, with another batch: what the callers hold.          *)
LEMMA CallerEffect ==
  ASSUME QueueTypeOK, NoDuplicates, NEW c \in Caller, NEW r \in CallerRecord,
         caller' = [caller EXCEPT ![c] = r], NoRepeat(r.batch),
         Range(r.batch) \cap (Held \ Range(caller[c].batch)) = {}
  PROVE  /\ caller' \in [Caller -> CallerRecord]
         /\ caller'[c] = r /\ \A k \in Caller : k # c => caller'[k] = caller[k]
         /\ Range(caller[c].batch) \subseteq Held
         /\ Held' = (Held \ Range(caller[c].batch)) \cup Range(r.batch)
         /\ \A k \in Caller : NoRepeat(caller'[k].batch)
         /\ Range(caller'["loop"].batch) \cap Range(caller'["flush"].batch) = {}
<1>1. caller \in [Caller -> CallerRecord]
  BY DEF QueueTypeOK
<1>2. /\ caller' \in [Caller -> CallerRecord]
      /\ caller'[c] = r /\ \A k \in Caller : k # c => caller'[k] = caller[k]
  BY <1>1
<1> DEFINE L == Range(caller["loop"].batch)
           F == Range(caller["flush"].batch)
           L1 == Range(caller'["loop"].batch)
           F1 == Range(caller'["flush"].batch)
<1>3. Held = L \cup F /\ Held' = L1 \cup F1 /\ L \cap F = {}
  BY DEF Held, Caller, NoDuplicates
<1>4. \A k \in Caller : NoRepeat(caller'[k].batch)
  BY <1>2 DEF NoDuplicates
<1>5. \/ c = "loop" /\ L1 = Range(r.batch) /\ F1 = F /\ Range(caller[c].batch) = L
      \/ c = "flush" /\ F1 = Range(r.batch) /\ L1 = L /\ Range(caller[c].batch) = F
  BY <1>2 DEF Caller
<1> HIDE DEF L, F, L1, F1
<1>6. /\ Range(caller[c].batch) \subseteq Held
      /\ Held' = (Held \ Range(caller[c].batch)) \cup Range(r.batch)
      /\ L1 \cap F1 = {}
  BY <1>3, <1>5
<1> QED BY <1>2, <1>4, <1>6 DEF L1, F1

(* The caller lets go of its batch: it is sent or given up.                *)
LEMMA ReleaseEffect ==
  ASSUME QueueTypeOK, CallFlow, NoDuplicates, NEW c \in Caller, NEW r \in CallerRecord, r.batch = <<>>,
         caller' = [caller EXCEPT ![c] = r], UNCHANGED route
  PROVE  /\ caller' \in [Caller -> CallerRecord]
         /\ caller'[c] = r /\ \A k \in Caller : k # c => caller'[k] = caller[k]
         /\ Range(caller[c].batch) \subseteq Held
         /\ Held' = Held \ Range(caller[c].batch)
         /\ \A k \in Caller : NoRepeat(caller'[k].batch)
         /\ Range(caller'["loop"].batch) \cap Range(caller'["flush"].batch) = {}
         /\ \A k \in Caller : FlowOf(caller[k])'
<1>1. NoRepeat(r.batch) /\ Range(r.batch) = {}
  BY EmptyRange
<1>2. /\ caller' \in [Caller -> CallerRecord]
      /\ caller'[c] = r /\ \A k \in Caller : k # c => caller'[k] = caller[k]
      /\ Range(caller[c].batch) \subseteq Held
      /\ Held' = (Held \ Range(caller[c].batch)) \cup Range(r.batch)
      /\ \A k \in Caller : NoRepeat(caller'[k].batch)
      /\ Range(caller'["loop"].batch) \cap Range(caller'["flush"].batch) = {}
  BY <1>1, CallerEffect
<1>3. FlowOf(r)
  BY EmptyFlow
<1>4. \A k \in Caller : FlowOf(caller[k])'
  BY <1>2, <1>3 DEF FlowOf, CallFlow
<1> QED BY <1>1, <1>2, <1>4

(* The batch of a caller that sends items one by one has one item at most. *)
LEMMA OneByOne ==
  ASSUME QueueTypeOK, CallFlow, NoDuplicates, NEW c \in Caller
  PROVE  /\ caller[c].batch \in Seq(Item) /\ Range(caller[c].batch) \in SUBSET Item
         /\ ~route.batch => Cardinality(Range(caller[c].batch)) <= 1
<1>1. caller[c].batch \in Seq(Item)
  BY DEF QueueTypeOK, CallerRecord
<1>2. Cardinality(Range(caller[c].batch)) = Len(caller[c].batch)
  BY <1>1, RangeSize DEF NoDuplicates
<1>3. ~route.batch => Len(caller[c].batch) <= 1
  BY DEF CallFlow, FlowOf
<1>4. Range(caller[c].batch) \in SUBSET Item
  BY <1>1 DEF Range
<1> QED BY <1>1, <1>2, <1>3, <1>4

(* Items move between places: nothing the host could notice.               *)
LEMMA MoveEffect ==
  ASSUME Pending' = Pending, UNCHANGED <<archived, delivered, dropped>>
  PROVE  Silent' = Silent /\ UNCHANGED Abstract!vars
<1>1. Silent' = Silent
  BY DEF Silent
<1> QED BY <1>1 DEF Abstract!vars

(* Items D are delivered, items X given up, of which Y is counted.         *)
LEMMA SettleEffect ==
  ASSUME QueueTypeOK, Apart, NEW D, NEW X, NEW Y \in SUBSET X, D \subseteq Pending, X \subseteq Pending,
         D \cap X = {}, Pending' = Pending \ (D \cup X), archived' = archived,
         delivered' = delivered \cup D, dropped' = dropped \cup Y
  PROVE  Silent' = Silent \cup (X \ Y) /\ Abstract!Settle
<1>1. Pending \cap Settled = {}
  BY DEF Apart, Pending
<1>2. Pending \cup Settled \subseteq 1 .. archived
  BY DEF Apart
<1>3. Silent' = Silent \cup (X \ Y)
  BY <1>1, <1>2 DEF Silent, Settled
<1>4. (dropped' \cup Silent') \ delivered' = ((dropped \cup Silent) \ delivered) \cup X
  BY <1>1, <1>3 DEF Settled, Silent
<1> QED BY <1>3, <1>4 DEF Abstract!Settle

(* A step without a silent loss keeps the bound.                           *)
LEMMA CauseKept ==
  ASSUME QueueTypeOK, SilentLossBound, Silent' = Silent, UNCHANGED route,
         failures' \in {failures, failures + 1}, fini = "stopped" => fini' = "stopped"
  PROVE  SilentLossBound'
<1>1. Silent \in SUBSET Item
  BY RoutesAssumption DEF Silent, Item, QueueTypeOK, RoutesAssumption
<1>2. Cardinality(Silent) \in Nat /\ failures \in Nat
  BY <1>1, ItemSets DEF QueueTypeOK
<1>3. CASE route.batch
  BY <1>2, <1>3 DEF SilentLossBound
<1>4. CASE ~route.batch
  BY <1>2, <1>4 DEF SilentLossBound
<1> QED BY <1>3, <1>4

(* A failed message, or the cancellation of a task, pays for its loss.     *)
LEMMA CausePaid ==
  ASSUME QueueTypeOK, SilentLossBound, UNCHANGED route, NEW X \in SUBSET Item,
         ~route.batch => Cardinality(X) <= 1, Silent' \subseteq Silent \cup X,
         \/ failures' = failures + 1 /\ fini' = fini
         \/ failures' = failures /\ fini # "stopped" /\ fini' = "stopped" /\ route.async
  PROVE  SilentLossBound'
<1>1. Silent \in SUBSET Item
  BY RoutesAssumption DEF Silent, Item, QueueTypeOK, RoutesAssumption
<1>2. /\ IsFiniteSet(Silent) /\ IsFiniteSet(X) /\ Cardinality(Silent) \in Nat /\ Cardinality(X) \in Nat
      /\ failures \in Nat
  BY <1>1, ItemSets DEF QueueTypeOK
<1>3. CASE route.batch
  BY <1>2, <1>3 DEF SilentLossBound
<1>4. CASE ~route.batch
  <2>1. /\ IsFiniteSet(Silent \cup X)
        /\ Cardinality(Silent \cup X) = Cardinality(Silent) + Cardinality(X) - Cardinality(Silent \cap X)
    BY <1>2, FS_Union
  <2>2. Cardinality(Silent \cap X) \in Nat
    <3>1. Silent \cap X \in SUBSET Item
      BY <1>1
    <3> QED BY <3>1, ItemSets
  <2>3. Cardinality(Silent') <= Cardinality(Silent \cup X) /\ Silent' \in SUBSET Item
    BY <1>1, <2>1, FS_Subset
  <2>4. Cardinality(Silent') \in Nat
    BY <2>3, ItemSets
  <2>5. Cardinality(Silent') <= Cardinality(Silent) + 1
    BY <1>2, <1>4, <2>1, <2>2, <2>3, <2>4
  <2> QED BY <1>2, <1>4, <2>4, <2>5 DEF SilentLossBound
<1> QED BY <1>3, <1>4

-----------------------------------------------------------------------------
LEMMA RouteInit == Init => RouteInv /\ Abstract!Init
<1> SUFFICES ASSUME Init PROVE RouteInv /\ Abstract!Init
  OBVIOUS
<1>1. /\ \A c \in Caller : caller[c] \in CallerRecord /\ caller[c].batch = <<>>
      /\ caller["flush"].pc = "off"
  BY QuietRecords DEF Init, Caller
<1>2. QueueTypeOK
  <2>1. <<>> \in Seq(Item)
    OBVIOUS
  <2>2. caller \in [Caller -> CallerRecord]
    BY <1>1 DEF Init
  <2> QED BY <2>1, <2>2, RoutesAssumption DEF Init, QueueTypeOK, RoutesAssumption
<1>3. CallFlow
  BY <1>1, EmptyFlow DEF Init, CallFlow
<1>4. Range(queue) = {} /\ Range(buffer) = {} /\ Held = {}
  BY <1>1, EmptyRange DEF Init, Held
<1>5. NoDuplicates
  BY <1>1, EmptyRange DEF Init, NoDuplicates, Caller
<1>6. Pending = {} /\ Settled = {} /\ 1 .. archived = {}
  BY <1>4 DEF Init, Pending, Settled
<1>7. Apart
  BY <1>4, <1>6 DEF Apart, Init
<1>8. Silent = {}
  BY <1>6 DEF Silent
<1>9. SilentLossBound
  BY <1>8, FS_EmptySet DEF SilentLossBound, Init
<1>10. Abstract!Init
  BY <1>6, <1>8 DEF Abstract!Init, Init
<1> QED BY <1>2, <1>3, <1>5, <1>7, <1>9, <1>10 DEF RouteInv

(* Steps that touch no item.                                               *)
LEMMA RouteFrame ==
  ASSUME RouteInv, UNCHANGED <<queueVars, buffer, abandoned, delivered, dropped>>,
         Held' = Held, failures' \in {failures, failures + 1}, fini = "stopped" => fini' = "stopped"
  PROVE  /\ NoRepeat(queue)' /\ NoRepeat(buffer)' /\ Apart' /\ SilentLossBound'
         /\ UNCHANGED Abstract!vars
<1>1. Pending' = Pending /\ Settled' = Settled
  BY DEF Pending, Settled, queueVars
<1>2. Silent' = Silent /\ UNCHANGED Abstract!vars
  BY <1>1, MoveEffect DEF queueVars
<1>3. SilentLossBound'
  BY <1>2, CauseKept DEF RouteInv, queueVars
<1>4. Apart'
  BY <1>1 DEF RouteInv, Apart, queueVars
<1>5. NoRepeat(queue)' /\ NoRepeat(buffer)'
  BY DEF RouteInv, NoDuplicates, NoRepeat, queueVars
<1> QED BY <1>2, <1>3, <1>4, <1>5

(* A caller goes on without an item, before or after.                      *)
LEMMA QuietStep ==
  ASSUME RouteInv, NEW c \in Caller, NEW r \in CallerRecord, r.batch = <<>>, caller[c].batch = <<>>,
         caller' = [caller EXCEPT ![c] = r], UNCHANGED <<queueVars, buffer, fini, abandoned, delivered, dropped>>,
         failures' \in {failures, failures + 1}, c = "flush" => caller[c].pc # "off"
  PROVE  RouteInv' /\ UNCHANGED Abstract!vars
<1> USE DEF RouteInv
<1>1. /\ caller' \in [Caller -> CallerRecord]
      /\ caller'[c] = r /\ \A k \in Caller : k # c => caller'[k] = caller[k]
      /\ Held' = Held \ Range(caller[c].batch)
      /\ \A k \in Caller : NoRepeat(caller'[k].batch)
      /\ Range(caller'["loop"].batch) \cap Range(caller'["flush"].batch) = {}
      /\ \A k \in Caller : FlowOf(caller[k])'
  BY ReleaseEffect DEF queueVars
<1>2. Held' = Held
  BY <1>1, EmptyRange
<1>3. /\ NoRepeat(queue)' /\ NoRepeat(buffer)' /\ Apart' /\ SilentLossBound'
      /\ UNCHANGED Abstract!vars
  BY <1>2, RouteFrame
<1>4. QueueTypeOK'
  BY <1>1 DEF QueueTypeOK, queueVars
<1>5. CallFlow'
  BY <1>1 DEF CallFlow, queueVars, Caller
<1>6. NoDuplicates'
  BY <1>1, <1>3 DEF NoDuplicates
<1> QED BY <1>3, <1>4, <1>5, <1>6

(* A message ends the way D, X says and its batch is no longer held.       *)
LEMMA EndStep ==
  ASSUME RouteInv, NEW c \in Caller, NEW r \in CallerRecord, r.batch = <<>>, caller[c].pc = "send",
         caller' = [caller EXCEPT ![c] = r], UNCHANGED <<queueVars, buffer, fini, abandoned, dropped>>,
         \/ delivered' = delivered \cup Range(caller[c].batch) /\ failures' \in {failures, failures + 1}
         \/ delivered' = delivered /\ failures' = failures + 1
  PROVE  RouteInv' /\ [Abstract!Next]_(Abstract!vars)
<1> USE DEF RouteInv
<1> DEFINE B == Range(caller[c].batch)
<1>1. /\ caller' \in [Caller -> CallerRecord]
      /\ caller'[c] = r /\ \A k \in Caller : k # c => caller'[k] = caller[k]
      /\ B \subseteq Held /\ Held' = Held \ B
      /\ \A k \in Caller : NoRepeat(caller'[k].batch)
      /\ Range(caller'["loop"].batch) \cap Range(caller'["flush"].batch) = {}
      /\ \A k \in Caller : FlowOf(caller[k])'
  BY ReleaseEffect DEF queueVars
<1>2. B \in SUBSET Item /\ (~route.batch => Cardinality(B) <= 1)
  BY OneByOne
<1> HIDE DEF B
<1>3. QueueTypeOK'
  BY <1>1, <1>2 DEF QueueTypeOK, queueVars, B
<1>4. CallFlow'
  BY <1>1 DEF CallFlow, queueVars, Caller
<1>5. NoDuplicates'
  BY <1>1 DEF NoDuplicates, queueVars, NoRepeat
<1>6. B \subseteq Pending /\ B \cap (Range(queue) \cup Range(buffer) \cup abandoned \cup Settled) = {}
  BY <1>1 DEF Apart, Pending
<1>7. Pending' = Pending \ B
  BY <1>1, <1>6 DEF Pending, queueVars
<1>8. CASE delivered' = delivered \cup B /\ failures' \in {failures, failures + 1}
  <2>1. Silent' = Silent \cup ({} \ {}) /\ Abstract!Settle
    <3>1. /\ {} \subseteq Pending /\ B \cap {} = {} /\ Pending' = Pending \ (B \cup {})
          /\ dropped' = dropped \cup {} /\ {} \in SUBSET {} /\ archived' = archived
      BY <1>7 DEF queueVars
    <3> QED BY <1>6, <1>8, <3>1, SettleEffect
  <2>2. SilentLossBound'
    BY <1>8, <2>1, CauseKept DEF queueVars
  <2>3. Settled' = Settled \cup B
    BY <1>8 DEF Settled
  <2>4. Apart'
    BY <1>1, <1>6, <1>7, <2>3 DEF Apart, queueVars
  <2> QED BY <1>3, <1>4, <1>5, <2>1, <2>2, <2>4 DEF Abstract!Next
<1>9. CASE delivered' = delivered /\ failures' = failures + 1
  <2>1. Silent' = Silent \cup (B \ {}) /\ Abstract!Settle
    <3>1. /\ {} \subseteq Pending /\ {} \cap B = {} /\ Pending' = Pending \ ({} \cup B)
          /\ dropped' = dropped \cup {} /\ {} \in SUBSET B /\ archived' = archived
          /\ delivered' = delivered \cup {}
      BY <1>7, <1>9 DEF queueVars
    <3> QED BY <1>6, <3>1, SettleEffect
  <2>2. SilentLossBound'
    BY <1>2, <1>9, <2>1, CausePaid DEF queueVars
  <2>3. Settled' = Settled
    BY <1>9 DEF Settled
  <2>4. Apart'
    BY <1>1, <1>6, <1>7, <2>3 DEF Apart, queueVars
  <2> QED BY <1>3, <1>4, <1>5, <2>1, <2>2, <2>4 DEF Abstract!Next
<1> QED BY <1>8, <1>9 DEF B

(* Before the first item was ever taken, no caller holds one.              *)
LEMMA NothingTaken ==
  ASSUME RouteInv, Len(queue) + Cardinality(dropped) = archived, NEW c \in Caller
  PROVE  caller[c].batch = <<>>
<1> USE DEF RouteInv
<1> DEFINE Q == Range(queue)
<1>1. queue \in Seq(Item) /\ dropped \in SUBSET Item /\ archived \in Nat
  BY RoutesAssumption DEF QueueTypeOK, RoutesAssumption
<1>2. IsFiniteSet(Q) /\ Cardinality(Q) = Len(queue) /\ Len(queue) \in Nat
  BY <1>1, RangeSize DEF NoDuplicates
<1>3. IsFiniteSet(dropped) /\ Cardinality(dropped) \in Nat
  BY <1>1, ItemSets
<1>4. Q \cap dropped = {} /\ Q \cup dropped \subseteq 1 .. archived
  BY DEF Apart, Settled, Pending
<1> HIDE DEF Q
<1>5. Cardinality(Q \cup dropped) = archived
  <2>1. Cardinality(Q \cup dropped) = Cardinality(Q) + Cardinality(dropped) - Cardinality(Q \cap dropped)
    BY <1>2, <1>3, FS_Union
  <2>2. Cardinality(Q \cap dropped) = 0
    BY <1>4, FS_EmptySet
  <2> QED BY <1>2, <1>3, <2>1, <2>2
<1>6. IsFiniteSet(1 .. archived) /\ Cardinality(1 .. archived) = archived
  BY <1>1, FS_Interval
<1>7. Q \cup dropped = 1 .. archived
  BY <1>4, <1>5, <1>6, FS_Subset
<1>8. Range(caller[c].batch) \cap (Q \cup dropped) = {} /\ Range(caller[c].batch) \subseteq 1 .. archived
  <2>1. Range(caller[c].batch) \subseteq Held
    BY DEF Held
  <2> QED BY <2>1 DEF Apart, Settled, Pending, Q
<1>9. Range(caller[c].batch) = {}
  BY <1>7, <1>8
<1>10. caller[c].batch \in Seq(Item)
  BY DEF QueueTypeOK, CallerRecord
<1>11. CASE caller[c].batch # <<>>
  <2>1. 1 \in DOMAIN caller[c].batch
    BY <1>10, <1>11
  <2> QED BY <1>9, <2>1 DEF Range
<1> QED BY <1>11

(* Every step keeps each item in one place and maps to a step of           *)
(* LossyChannel or to none.                                                *)
LEMMA RouteStep == RouteInv /\ [Next]_vars => RouteInv' /\ [Abstract!Next]_(Abstract!vars)
<1> DEFINE Mapped == [Abstract!Next]_(Abstract!vars)
<1> SUFFICES ASSUME RouteInv, [Next]_vars PROVE RouteInv' /\ Mapped
  OBVIOUS
<1> USE DEF RouteInv
<1>1. archived \in Nat /\ archived + 1 \notin 1 .. archived /\ 1 .. (archived + 1) = (1 .. archived) \cup {archived + 1}
  BY RoutesAssumption DEF QueueTypeOK, RoutesAssumption
<1>2. archived + 1 \notin Pending \cup Settled \cup Silent
  BY <1>1 DEF Apart, Silent
<1>3. CASE Put
  <2> DEFINE x == archived + 1
  <2>1. /\ archived < MaxItems /\ x \in Item /\ archived' = x /\ x \in 0 .. MaxItems
        /\ UNCHANGED <<route, caller, buffer, fini, abandoned, delivered, failures>>
    BY <1>3, <1>1, RoutesAssumption DEF Put, Item, RoutesAssumption
  <2>2. Held' = Held /\ CallFlow'
    BY <2>1 DEF Held, CallFlow, FlowOf
  <2>3. CASE Len(queue) < MaxSize
    <3>1. queue' = Append(queue, x) /\ dropped' = dropped
      BY <1>3, <2>3 DEF Put
    <3> HIDE DEF x
    <3>2. queue' \in Seq(Item) /\ Range(queue)' = Range(queue) \cup {x} /\ NoRepeat(queue)'
      BY <1>2, <2>1, <3>1, PutLast DEF QueueTypeOK, NoDuplicates, Pending, x
    <3>3. QueueTypeOK'
      BY <2>1, <3>1, <3>2 DEF QueueTypeOK
    <3>4. NoDuplicates'
      BY <2>1, <3>2 DEF NoDuplicates, NoRepeat
    <3>5. Pending' = Pending \cup {x} /\ Settled' = Settled
      BY <2>1, <2>2, <3>1, <3>2 DEF Pending, Settled
    <3>6. Apart'
      BY <1>1, <1>2, <2>1, <2>2, <3>2, <3>5 DEF Apart, Pending, x
    <3>7. Silent' = Silent
      BY <1>1, <1>2, <2>1, <3>1, <3>5 DEF Silent, x
    <3>8. SilentLossBound'
      BY <2>1, <3>7, CauseKept
    <3>9. Abstract!Accept
      BY <2>1, <3>1, <3>5, <3>7 DEF Abstract!Accept, x
    <3> QED BY <2>2, <3>3, <3>4, <3>6, <3>8, <3>9 DEF Abstract!Next
  <2>4. CASE ~(Len(queue) < MaxSize)
    <3>1. dropped' = dropped \cup {x} /\ queue' = queue
      BY <1>3, <2>4 DEF Put, Counted
    <3> HIDE DEF x
    <3>2. QueueTypeOK'
      BY <2>1, <3>1 DEF QueueTypeOK
    <3>3. NoDuplicates'
      BY <2>1, <3>1 DEF NoDuplicates, NoRepeat
    <3>4. Pending' = Pending /\ Settled' = Settled \cup {x}
      BY <2>1, <2>2, <3>1 DEF Pending, Settled
    <3>5. Apart'
      BY <1>1, <1>2, <2>1, <2>2, <3>1, <3>4 DEF Apart, Pending, x
    <3>6. Silent' = Silent
      BY <1>1, <1>2, <2>1, <3>1, <3>4 DEF Silent, x
    <3>7. SilentLossBound'
      BY <2>1, <3>6, CauseKept
    <3>8. Abstract!Refuse
      <4>1. x \notin delivered
        BY <1>2 DEF Settled, x
      <4>2. (dropped' \cup Silent') \ delivered' = ((dropped \cup Silent) \ delivered) \cup {x}
        BY <2>1, <3>1, <3>6, <4>1
      <4> QED BY <2>1, <3>4, <4>2 DEF Abstract!Refuse, x
    <3> QED BY <2>2, <3>2, <3>3, <3>5, <3>7, <3>8 DEF Abstract!Next
  <2> QED BY <2>3, <2>4
<1>4. CASE Loop
  <2>1. \E pc \in {"get", "exit"} : caller' = [caller EXCEPT !["loop"] = Quiet(pc)]
    BY <1>4 DEF Loop, LoopStart, LoopExit
  <2>2. UNCHANGED <<queueVars, buffer, fini, abandoned, fateVars>> /\ caller["loop"].pc = "top"
    BY <1>4 DEF Loop, LoopStart, LoopExit
  <2>3. caller["loop"].batch = <<>>
    BY <2>2 DEF CallFlow, FlowOf, Caller
  <2> QED BY <2>1, <2>2, <2>3, QuietRecords, QuietStep DEF Caller, fateVars
<1>5. ASSUME NEW c \in Caller, Get(c)
      PROVE  RouteInv' /\ Mapped
  <2> DEFINE x == Head(queue)
             b == Append(caller[c].batch, x)
             r == [pc |-> IF route.batch THEN "get" ELSE "send", batch |-> b, first |-> FALSE]
  <2>1. /\ caller[c].pc = "get" /\ queue # <<>> /\ queue' = Tail(queue)
        /\ caller' = [caller EXCEPT ![c] = r]
        /\ UNCHANGED <<route, archived, buffer, fini, abandoned, fateVars>>
    BY <1>5 DEF Get
  <2>2. /\ x \in Item /\ queue' \in Seq(Item) /\ x \in Range(queue)
        /\ Range(queue)' = Range(queue) \ {x} /\ NoRepeat(queue)'
    BY <2>1, TakeHead DEF QueueTypeOK, NoDuplicates
  <2>3. x \notin Held \cup Range(buffer) \cup abandoned \cup Settled
    BY <2>2 DEF Apart
  <2>4. Range(caller[c].batch) \subseteq Held /\ caller[c].batch \in Seq(Item)
    BY DEF Held, QueueTypeOK, CallerRecord
  <2> HIDE DEF x
  <2>5. /\ b \in Seq(Item) /\ Range(b) = Range(caller[c].batch) \cup {x} /\ NoRepeat(b)
        /\ Len(b) = Len(caller[c].batch) + 1
    BY <2>2, <2>3, <2>4, PutLast DEF NoDuplicates
  <2>6. r \in CallerRecord /\ r.batch = b
    BY <2>5 DEF CallerRecord
  <2>7. ~route.batch => Len(b) = 1 /\ r.pc = "send"
    <3>1. ~route.batch => caller[c].batch = <<>>
      BY <2>1 DEF CallFlow, FlowOf
    <3>2. Len(<<>>) = 0
      OBVIOUS
    <3> QED BY <2>5, <3>1, <3>2
  <2>8. FlowOf(r)
    BY <2>6, <2>7 DEF FlowOf
  <2> HIDE DEF b, r
  <2>9. Range(r.batch) \cap (Held \ Range(caller[c].batch)) = {}
    BY <2>3, <2>5, <2>6
  <2>10. /\ caller' \in [Caller -> CallerRecord]
         /\ caller'[c] = r /\ \A k \in Caller : k # c => caller'[k] = caller[k]
         /\ Held' = (Held \ Range(caller[c].batch)) \cup Range(r.batch)
         /\ \A k \in Caller : NoRepeat(caller'[k].batch)
         /\ Range(caller'["loop"].batch) \cap Range(caller'["flush"].batch) = {}
    BY <2>1, <2>5, <2>6, <2>9, CallerEffect
  <2>11. Held' = Held \cup {x}
    BY <2>4, <2>5, <2>6, <2>10
  <2>12. QueueTypeOK'
    BY <2>1, <2>2, <2>10 DEF QueueTypeOK, fateVars
  <2>13. CallFlow'
    <3>1. \A k \in Caller : FlowOf(caller[k])'
      BY <2>1, <2>8, <2>10 DEF CallFlow, FlowOf
    <3>2. fini \notin {"none", "drain"} \/ c # "flush"
      BY <2>1 DEF CallFlow
    <3> QED BY <2>1, <2>10, <3>1, <3>2 DEF CallFlow, Caller
  <2>14. NoDuplicates'
    BY <2>1, <2>2, <2>10 DEF NoDuplicates, NoRepeat
  <2>15. Pending' = Pending /\ Settled' = Settled
    BY <2>1, <2>2, <2>11 DEF Pending, Settled, fateVars
  <2>16. Apart'
    BY <2>1, <2>2, <2>3, <2>11, <2>15 DEF Apart
  <2>17. Silent' = Silent /\ UNCHANGED Abstract!vars
    BY <2>1, <2>15, MoveEffect DEF fateVars
  <2>18. SilentLossBound'
    BY <2>1, <2>17, CauseKept DEF fateVars
  <2> QED BY <2>12, <2>13, <2>14, <2>16, <2>17, <2>18
<1>6. ASSUME NEW c \in Caller, GeneratorEnds(c)
      PROVE  RouteInv' /\ Mapped
  <2>1. caller[c].pc = "get" /\ UNCHANGED <<queueVars, buffer, fini, abandoned, fateVars>>
    BY <1>6 DEF GeneratorEnds
  <2>2. CASE route.batch /\ (caller[c].batch # <<>> \/ route.kafka)
    <3> DEFINE r == [caller[c] EXCEPT !.pc = "send"]
    <3>1. caller' = [caller EXCEPT ![c] = r]
      BY <1>6, <2>2 DEF GeneratorEnds
    <3>2. r \in CallerRecord /\ r.batch = caller[c].batch /\ r.pc = "send" /\ caller[c].batch \in Seq(Item)
      BY DEF QueueTypeOK, CallerRecord
    <3> HIDE DEF r
    <3>3. NoRepeat(r.batch) /\ Range(r.batch) \cap (Held \ Range(caller[c].batch)) = {}
      BY <3>2 DEF NoDuplicates
    <3>4. /\ caller' \in [Caller -> CallerRecord]
          /\ caller'[c] = r /\ \A k \in Caller : k # c => caller'[k] = caller[k]
          /\ Range(caller[c].batch) \subseteq Held
          /\ Held' = (Held \ Range(caller[c].batch)) \cup Range(r.batch)
          /\ \A k \in Caller : NoRepeat(caller'[k].batch)
          /\ Range(caller'["loop"].batch) \cap Range(caller'["flush"].batch) = {}
      BY <3>1, <3>2, <3>3, CallerEffect
    <3>5. Held' = Held
      BY <3>2, <3>4
    <3>6. /\ NoRepeat(queue)' /\ NoRepeat(buffer)' /\ Apart' /\ SilentLossBound'
          /\ UNCHANGED Abstract!vars
      BY <2>1, <3>5, RouteFrame DEF fateVars
    <3>7. QueueTypeOK'
      BY <2>1, <3>4 DEF QueueTypeOK, queueVars, fateVars
    <3>8. CallFlow'
      <4>1. \A k \in Caller : FlowOf(caller[k])'
        BY <2>1, <2>2, <3>2, <3>4 DEF CallFlow, FlowOf, queueVars
      <4>2. fini \notin {"none", "drain"} \/ c # "flush"
        BY <2>1 DEF CallFlow
      <4> QED BY <2>1, <3>4, <4>1, <4>2 DEF CallFlow, Caller, queueVars
    <3> QED BY <3>4, <3>6, <3>7, <3>8 DEF NoDuplicates
  <2>3. CASE ~(route.batch /\ (caller[c].batch # <<>> \/ route.kafka))
    <3>1. caller' = [caller EXCEPT ![c] = Returned(c)]
      BY <1>6, <2>3 DEF GeneratorEnds
    <3>2. caller[c].batch = <<>>
      BY <2>1, <2>3 DEF CallFlow, FlowOf
    <3> QED BY <2>1, <3>1, <3>2, QuietRecords, QuietStep DEF fateVars
  <2> QED BY <2>2, <2>3
<1>7. ASSUME NEW c \in Caller, ProducerStartFails(c)
      PROVE  RouteInv' /\ Mapped
  <2>1. /\ caller[c].pc = "get" /\ caller' = [caller EXCEPT ![c] = Returned(c)] /\ failures' = failures + 1
        /\ UNCHANGED <<queueVars, buffer, fini, abandoned, delivered, dropped>>
    BY <1>7 DEF ProducerStartFails
  <2>2. caller[c].batch = <<>>
    BY <1>7, NothingTaken DEF ProducerStartFails
  <2> QED BY <2>1, <2>2, QuietRecords, QuietStep
<1>8. ASSUME NEW c \in Caller, Send(c), ~Unawaited
      PROVE  RouteInv' /\ Mapped
  <2>1. /\ caller[c].pc = "send" /\ caller' = [caller EXCEPT ![c] = AfterSend(c)]
        /\ delivered' = delivered \cup Range(caller[c].batch)
        /\ UNCHANGED <<queueVars, buffer, fini, abandoned, dropped, failures>>
    BY <1>8 DEF Send
  <2>2. AfterSend(c) \in CallerRecord /\ AfterSend(c).batch = <<>>
    BY QuietRecords
  <2> QED BY <2>1, <2>2, EndStep
<1>9. ASSUME NEW c \in Caller, Send(c), Unawaited
      PROVE  RouteInv' /\ Mapped
  <2> DEFINE r == AfterSend(c)
             b == caller[c].batch
  <2>1. /\ caller[c].pc = "send" /\ caller' = [caller EXCEPT ![c] = r] /\ buffer' = buffer \o b
        /\ UNCHANGED <<queueVars, fini, abandoned, delivered, dropped, failures>>
    BY <1>9 DEF Send
  <2>2. r \in CallerRecord /\ r.batch = <<>>
    BY QuietRecords
  <2> HIDE DEF r
  <2>3. /\ caller' \in [Caller -> CallerRecord]
        /\ caller'[c] = r /\ \A k \in Caller : k # c => caller'[k] = caller[k]
        /\ Range(b) \subseteq Held /\ Held' = Held \ Range(b)
        /\ \A k \in Caller : NoRepeat(caller'[k].batch)
        /\ Range(caller'["loop"].batch) \cap Range(caller'["flush"].batch) = {}
        /\ \A k \in Caller : FlowOf(caller[k])'
    BY <2>1, <2>2, ReleaseEffect DEF queueVars
  <2>4. b \in Seq(Item) /\ NoRepeat(b)
    BY OneByOne DEF NoDuplicates
  <2> HIDE DEF b
  <2>5. Range(b) \cap (Range(queue) \cup Range(buffer) \cup abandoned \cup Settled) = {}
    BY <2>3 DEF Apart
  <2>6. /\ buffer' \in Seq(Item) /\ Range(buffer)' = Range(buffer) \cup Range(b)
        /\ NoRepeat(buffer)'
    <3>1. Range(buffer) \cap Range(b) = {}
      BY <2>5
    <3> QED BY <2>1, <2>4, <3>1, Concat DEF QueueTypeOK, NoDuplicates
  <2>7. QueueTypeOK'
    BY <2>1, <2>3, <2>6 DEF QueueTypeOK, queueVars
  <2>8. CallFlow'
    BY <2>1, <2>3 DEF CallFlow, queueVars, Caller
  <2>9. NoDuplicates'
    BY <2>1, <2>3, <2>6 DEF NoDuplicates, NoRepeat, queueVars
  <2>10. Pending' = Pending /\ Settled' = Settled
    BY <2>1, <2>3, <2>6 DEF Pending, Settled, queueVars
  <2>11. Apart'
    BY <2>1, <2>3, <2>5, <2>6, <2>10 DEF Apart, queueVars
  <2>12. Silent' = Silent /\ UNCHANGED Abstract!vars
    BY <2>1, <2>10, MoveEffect DEF queueVars
  <2>13. SilentLossBound'
    BY <2>1, <2>12, CauseKept DEF queueVars
  <2> QED BY <2>7, <2>8, <2>9, <2>11, <2>12, <2>13
<1>10. ASSUME NEW c \in Caller, SendRefused(c) \/ SendFails(c)
       PROVE  RouteInv' /\ Mapped
  <2>1. /\ caller[c].pc = "send" /\ failures' = failures + 1
        /\ caller' = [caller EXCEPT ![c] = AfterSend(c)] \/ caller' = [caller EXCEPT ![c] = Returned(c)]
        /\ delivered' = delivered \/ delivered' = delivered \cup Range(caller[c].batch)
        /\ UNCHANGED <<queueVars, buffer, fini, abandoned, dropped>>
    BY <1>10 DEF SendRefused, SendFails
  <2>2. /\ AfterSend(c) \in CallerRecord /\ AfterSend(c).batch = <<>>
        /\ Returned(c) \in CallerRecord /\ Returned(c).batch = <<>>
    BY QuietRecords
  <2> QED BY <2>1, <2>2, EndStep
<1>11. CASE BrokerAnswers
  <2> DEFINE x == Head(buffer)
  <2>1. /\ buffer # <<>> /\ buffer' = Tail(buffer)
        /\ \/ delivered' = delivered \cup {x} /\ failures' = failures
           \/ delivered' = delivered /\ failures' = failures + 1
        /\ UNCHANGED <<queueVars, caller, fini, abandoned, dropped>>
    BY <1>11 DEF BrokerAnswers
  <2>2. /\ x \in Item /\ buffer' \in Seq(Item) /\ x \in Range(buffer)
        /\ Range(buffer)' = Range(buffer) \ {x} /\ NoRepeat(buffer)'
    BY <2>1, TakeHead DEF QueueTypeOK, NoDuplicates
  <2> HIDE DEF x
  <2>3. Held' = Held /\ CallFlow'
    BY <2>1 DEF Held, CallFlow, FlowOf, queueVars
  <2>4. x \notin Range(queue) \cup Held \cup abandoned \cup Settled
    BY <2>2 DEF Apart
  <2>5. QueueTypeOK'
    BY <2>1, <2>2 DEF QueueTypeOK, queueVars
  <2>6. NoDuplicates'
    BY <2>1, <2>2 DEF NoDuplicates, NoRepeat, queueVars
  <2>7. Pending' = Pending \ {x} /\ x \in Pending
    BY <2>1, <2>2, <2>3, <2>4 DEF Pending, queueVars
  <2> DEFINE S == {x}
  <2>8. S \in SUBSET Item /\ S \subseteq Pending /\ Pending' = Pending \ S
    BY <2>2, <2>7
  <2>9. Cardinality(S) = 1
    BY FS_Singleton
  <2>10. CASE delivered' = delivered \cup {x} /\ failures' = failures
    <3>1. Silent' = Silent \cup ({} \ {}) /\ Abstract!Settle
      <4>1. /\ {} \subseteq Pending /\ S \cap {} = {} /\ Pending' = Pending \ (S \cup {})
            /\ dropped' = dropped \cup {} /\ {} \in SUBSET {} /\ archived' = archived
            /\ delivered' = delivered \cup S
        BY <2>1, <2>10, <2>8 DEF queueVars
      <4> HIDE DEF S
      <4> QED BY <2>8, <4>1, SettleEffect
    <3>2. SilentLossBound'
      BY <2>1, <2>10, <3>1, CauseKept DEF queueVars
    <3>3. Settled' = Settled \cup {x}
      BY <2>1, <2>10 DEF Settled
    <3>4. Apart'
      BY <2>1, <2>2, <2>3, <2>4, <2>7, <3>3 DEF Apart, queueVars
    <3> QED BY <2>3, <2>5, <2>6, <3>1, <3>2, <3>4 DEF Abstract!Next
  <2>11. CASE delivered' = delivered /\ failures' = failures + 1
    <3>1. Silent' = Silent \cup (S \ {}) /\ Abstract!Settle
      <4>1. /\ {} \subseteq Pending /\ {} \cap S = {} /\ Pending' = Pending \ ({} \cup S)
            /\ dropped' = dropped \cup {} /\ {} \in SUBSET S /\ archived' = archived
            /\ delivered' = delivered \cup {}
        BY <2>1, <2>11, <2>8 DEF queueVars
      <4> HIDE DEF S
      <4> QED BY <2>8, <4>1, SettleEffect
    <3>2. SilentLossBound'
      <4> HIDE DEF S
      <4>1. Cardinality(S) <= 1
        BY <2>9
      <4> QED BY <2>1, <2>11, <2>8, <3>1, <4>1, CausePaid DEF queueVars
    <3>3. Settled' = Settled
      BY <2>1, <2>11 DEF Settled
    <3>4. Apart'
      BY <2>1, <2>2, <2>3, <2>4, <2>7, <3>3 DEF Apart, queueVars
    <3> QED BY <2>3, <2>5, <2>6, <3>1, <3>2, <3>4 DEF Abstract!Next
  <2> QED BY <2>1, <2>10, <2>11
<1>12. ASSUME UNCHANGED <<queueVars, buffer, caller, abandoned, fateVars>>,
              fini' \in {"none", "drain", "flush", "abandon", "join", "cancel", "stopped"},
              fini = "stopped" => fini' = "stopped",
              fini' \in {"none", "drain"} => fini \in {"none", "drain"},
              fini' = "cancel" => fini = "cancel"
       PROVE  RouteInv' /\ Mapped
  <2>1. Held' = Held
    BY <1>12 DEF Held
  <2>2. /\ NoRepeat(queue)' /\ NoRepeat(buffer)' /\ Apart' /\ SilentLossBound'
        /\ UNCHANGED Abstract!vars
    BY <1>12, <2>1, RouteFrame DEF fateVars
  <2>3. QueueTypeOK'
    BY <1>12 DEF QueueTypeOK, queueVars, fateVars
  <2>4. CallFlow'
    BY <1>12 DEF CallFlow, FlowOf, queueVars
  <2>5. NoDuplicates'
    BY <1>12, <2>2 DEF NoDuplicates
  <2> QED BY <2>2, <2>3, <2>4, <2>5
<1>13. CASE FiniStart
  BY <1>13, <1>12 DEF FiniStart
<1>14. CASE FiniFlushWait
  BY <1>14, <1>12 DEF FiniFlushWait
<1>15. CASE FiniFlush
  <2>1. CASE queue = <<>>
    BY <1>15, <2>1, <1>12 DEF FiniFlush
  <2>2. CASE queue # <<>>
    <3>1. /\ fini = "drain" /\ fini' = "flush" /\ caller' = [caller EXCEPT !["flush"] = Quiet("get")]
          /\ UNCHANGED <<queueVars, buffer, abandoned, fateVars>>
      BY <1>15, <2>2 DEF FiniFlush
    <3>2. caller["flush"].batch = <<>>
      BY <3>1 DEF CallFlow, FlowOf, Caller
    <3>3. Quiet("get") \in CallerRecord /\ Quiet("get").batch = <<>> /\ "flush" \in Caller
      BY QuietRecords DEF Caller
    <3>4. /\ caller' \in [Caller -> CallerRecord]
          /\ Held' = Held \ Range(caller["flush"].batch)
          /\ \A k \in Caller : NoRepeat(caller'[k].batch)
          /\ Range(caller'["loop"].batch) \cap Range(caller'["flush"].batch) = {}
          /\ \A k \in Caller : FlowOf(caller[k])'
      BY <3>1, <3>3, ReleaseEffect DEF queueVars
    <3>5. Held' = Held
      BY <3>2, <3>4, EmptyRange
    <3>6. /\ NoRepeat(queue)' /\ NoRepeat(buffer)' /\ Apart' /\ SilentLossBound'
          /\ UNCHANGED Abstract!vars
      BY <3>1, <3>5, RouteFrame DEF fateVars
    <3>7. QueueTypeOK'
      BY <3>1, <3>4 DEF QueueTypeOK, queueVars, fateVars
    <3>8. CallFlow'
      BY <3>1, <3>4 DEF CallFlow
    <3> QED BY <3>4, <3>6, <3>7, <3>8 DEF NoDuplicates
  <2> QED BY <2>1, <2>2
<1>16. CASE FiniAbandon
  <2> DEFINE x == Head(queue)
  <2>1. /\ queue # <<>> /\ queue' = Tail(queue) /\ abandoned' = abandoned \cup {x}
        /\ UNCHANGED <<route, archived, caller, buffer, fini, fateVars>>
    BY <1>16 DEF FiniAbandon
  <2>2. /\ x \in Item /\ queue' \in Seq(Item) /\ x \in Range(queue)
        /\ Range(queue)' = Range(queue) \ {x} /\ NoRepeat(queue)'
    BY <2>1, TakeHead DEF QueueTypeOK, NoDuplicates
  <2> HIDE DEF x
  <2>3. Held' = Held /\ CallFlow'
    BY <2>1 DEF Held, CallFlow, FlowOf
  <2>4. x \notin Held \cup Range(buffer) \cup Settled
    BY <2>2 DEF Apart
  <2>5. QueueTypeOK'
    BY <2>1, <2>2 DEF QueueTypeOK, fateVars
  <2>6. NoDuplicates'
    BY <2>1, <2>2 DEF NoDuplicates, NoRepeat
  <2>7. Pending' = Pending /\ Settled' = Settled
    BY <2>1, <2>2, <2>3 DEF Pending, Settled, fateVars
  <2>8. Apart'
    BY <2>1, <2>2, <2>3, <2>4, <2>7 DEF Apart
  <2>9. Silent' = Silent /\ UNCHANGED Abstract!vars
    BY <2>1, <2>7, MoveEffect DEF fateVars
  <2>10. SilentLossBound'
    BY <2>1, <2>9, CauseKept DEF fateVars
  <2> QED BY <2>3, <2>5, <2>6, <2>8, <2>9, <2>10
<1>17. CASE FiniAbandoned
  <2>1. /\ fini = "abandon" /\ dropped' = dropped \cup abandoned /\ abandoned' = {}
        /\ fini' = IF route.async THEN "cancel" ELSE "join"
        /\ UNCHANGED <<queueVars, caller, buffer, delivered, failures>>
    BY <1>17 DEF FiniAbandoned, Counted
  <2>2. Held' = Held
    BY <2>1 DEF Held
  <2>3. CallFlow'
    BY <2>1 DEF CallFlow, FlowOf, queueVars
  <2>4. QueueTypeOK'
    BY <2>1 DEF QueueTypeOK, queueVars
  <2>5. NoDuplicates'
    BY <2>1 DEF NoDuplicates, NoRepeat, queueVars
  <2>6. abandoned \cap (Range(queue) \cup Held \cup Range(buffer) \cup Settled) = {}
    BY DEF Apart
  <2>7. Pending' = Pending \ abandoned /\ abandoned \subseteq Pending /\ Settled' = Settled \cup abandoned
    BY <2>1, <2>2, <2>6 DEF Pending, Settled, queueVars
  <2>8. Silent' = Silent \cup (abandoned \ abandoned) /\ Abstract!Settle
    <3>1. /\ {} \subseteq Pending /\ {} \cap abandoned = {} /\ Pending' = Pending \ ({} \cup abandoned)
          /\ delivered' = delivered \cup {} /\ abandoned \in SUBSET abandoned /\ archived' = archived
      BY <2>1, <2>7 DEF queueVars
    <3> QED BY <2>1, <2>7, <3>1, SettleEffect
  <2>9. Apart'
    BY <2>1, <2>2, <2>6, <2>7 DEF Apart, queueVars
  <2>10. SilentLossBound'
    BY <2>1, <2>8, CauseKept DEF queueVars
  <2> QED BY <2>3, <2>4, <2>5, <2>8, <2>9, <2>10 DEF Abstract!Next
<1>18. CASE FiniCancel
  <2> DEFINE B == Range(caller["loop"].batch)
             r == Quiet("exit")
  <2>1. /\ fini = "cancel" /\ fini' = "stopped" /\ caller' = [caller EXCEPT !["loop"] = r]
        /\ UNCHANGED <<queueVars, buffer, abandoned, delivered, dropped, failures>>
    BY <1>18 DEF FiniCancel
  <2>2. r \in CallerRecord /\ r.batch = <<>> /\ "loop" \in Caller
    BY QuietRecords DEF Caller
  <2> HIDE DEF r
  <2>3. /\ caller' \in [Caller -> CallerRecord]
        /\ B \subseteq Held /\ Held' = Held \ B
        /\ \A k \in Caller : NoRepeat(caller'[k].batch)
        /\ Range(caller'["loop"].batch) \cap Range(caller'["flush"].batch) = {}
        /\ \A k \in Caller : FlowOf(caller[k])'
    BY <2>1, <2>2, ReleaseEffect DEF queueVars
  <2>4. B \in SUBSET Item /\ (~route.batch => Cardinality(B) <= 1)
    BY <2>2, OneByOne
  <2> HIDE DEF B
  <2>5. route.async
    BY <2>1 DEF CallFlow
  <2>6. QueueTypeOK'
    BY <2>1, <2>3 DEF QueueTypeOK, queueVars
  <2>7. CallFlow'
    BY <2>1, <2>3 DEF CallFlow
  <2>8. NoDuplicates'
    BY <2>1, <2>3 DEF NoDuplicates, NoRepeat, queueVars
  <2>9. B \cap (Range(queue) \cup Range(buffer) \cup abandoned \cup Settled) = {}
    BY <2>3 DEF Apart
  <2>10. Pending' = Pending \ B /\ B \subseteq Pending /\ Settled' = Settled
    BY <2>1, <2>3, <2>9 DEF Pending, Settled, queueVars
  <2>11. Silent' = Silent \cup (B \ {}) /\ Abstract!Settle
    <3>1. /\ {} \subseteq Pending /\ {} \cap B = {} /\ Pending' = Pending \ ({} \cup B)
          /\ dropped' = dropped \cup {} /\ {} \in SUBSET B /\ archived' = archived
          /\ delivered' = delivered \cup {}
      BY <2>1, <2>10 DEF queueVars
    <3> QED BY <2>10, <3>1, SettleEffect
  <2>12. SilentLossBound'
    BY <2>1, <2>4, <2>5, <2>11, CausePaid DEF queueVars
  <2>13. Apart'
    BY <2>1, <2>3, <2>9, <2>10 DEF Apart, queueVars
  <2> QED BY <2>6, <2>7, <2>8, <2>11, <2>12, <2>13 DEF Abstract!Next
<1>19. CASE FiniJoin
  BY <1>19, <1>12 DEF FiniJoin
<1>20. ASSUME NEW register \in BOOLEAN, NEW refresh \in BOOLEAN, NEW ping \in BOOLEAN,
              Beat(register, refresh, ping)
       PROVE  RouteInv' /\ Mapped
  <2>1. UNCHANGED <<queueVars, caller, buffer, fini, abandoned, fateVars>>
    BY <1>20 DEF Beat
  <2> QED BY <2>1, <1>12 DEF QueueTypeOK
<1>21. CASE UNCHANGED vars
  <2>1. UNCHANGED <<queueVars, caller, buffer, fini, abandoned, fateVars>>
    BY <1>21 DEF vars
  <2> QED BY <2>1, <1>12 DEF QueueTypeOK
<1> QED
  BY <1>3, <1>4, <1>5, <1>6, <1>7, <1>8, <1>9, <1>10, <1>11, <1>13, <1>14, <1>15, <1>16, <1>17, <1>18,
     <1>19, <1>20, <1>21
     DEF Next, Call, Fini

-----------------------------------------------------------------------------
(* Under HTTP and Kafka, threaded or asyncio, no item is lost without a    *)
(* failed message or a cancelled task to show for it, for any number of    *)
(* items and failures.                                                     *)
THEOREM LossHasCause == Spec => []SilentLossBound
<1>1. RouteInv => SilentLossBound
  BY DEF RouteInv
<1> QED BY RouteInit, RouteStep, <1>1, PTL DEF Spec

(* The HTTP and Kafka reporters implement the same lossy channel as the    *)
(* gRPC ones: an item is settled once and never sent again afterwards.     *)
THEOREM ReportersAreLossyChannel == Spec => BestEffortAtMostOnce
<1> QED BY RouteInit, RouteStep, PTL DEF Spec, BestEffortAtMostOnce, Abstract!Spec
=============================================================================
