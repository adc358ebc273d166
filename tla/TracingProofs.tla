---------------------------- MODULE TracingProofs ----------------------------
(***************************************************************************)
(* Proofs about SpanContext, about Propagation, which extends it, and      *)
(* about PluginSpans on top of both: for any number of tasks, spans and    *)
(* nested with blocks.                                                     *)
(*                                                                         *)
(* Those about SpanContext are for hosts where tasks are created or spans  *)
(* are inherited by nested plugins, but not both: with both, a task may    *)
(* inherit a span that its creator has finished.                           *)
(***************************************************************************)
EXTENDS PluginSpans, FiniteSetTheorems, SequenceTheorems, WellFoundedInduction, NaturalsInduction,
        TLAPS

SpanType == [ctx : Nat, sid : Int, pid : Int, kind : Kind, depth : Nat, peer : BOOLEAN, ref : Nat]
CtxType == [noop : BOOLEAN, sid : Nat, nspans : Nat, segment : Seq(Nat), archived : Nat, primary : Nat]

ObjectsOK(ss, cs) ==
  ss \in Seq(SpanType) /\ cs \in Seq(CtxType) /\ \A s \in 1 .. Len(ss) : ss[s].ctx \in 1 .. Len(cs)

(***************************************************************************)
(* A stack s, with blocks b, and their lengths. The stack holds each span  *)
(* once. It ends with the spans of the with blocks, in their order (a span *)
(* that was inherited stands for several blocks); without child tasks it   *)
(* holds nothing else.                                                     *)
(***************************************************************************)
In(x, q, n) == \E i \in 1 .. n : q[i] = x
Once(s, ls) == \A p, q \in 1 .. ls : s[p] = s[q] => p = q
Ordered(b, lb, s, ls) ==
  \A i, j \in 1 .. lb : \A p, q \in 1 .. ls : i <= j /\ b[i] = s[p] /\ b[j] = s[q] => p <= q
OnStack(b, lb, s, ls) == \A i \in 1 .. lb : In(b[i], s, ls)
Suffix(b, lb, s, ls) == \A p, q \in 1 .. ls : p <= q /\ In(s[p], b, lb) => In(s[q], b, lb)
Whole(b, lb, s, ls) == \A p \in 1 .. ls : In(s[p], b, lb)
Within(q, lq, n) == \A i \in 1 .. lq : q[i] \in 1 .. n

StackAt(b, lb, s, ls, n, md) ==
  /\ Within(b, lb, n) /\ Within(s, ls, n) /\ Once(s, ls)
  /\ OnStack(b, lb, s, ls) /\ Ordered(b, lb, s, ls) /\ Suffix(b, lb, s, ls)
  /\ md = "sync" => Whole(b, lb, s, ls)

StackOK(b, s, n, md) ==
  b \in Seq(Nat) /\ s \in Seq(Nat) /\ StackAt(b, Len(b), s, Len(s), n, md)

(* The depth of a span counts its with blocks, all of one task.            *)
Opened(s, b) == In(s, b, Len(b))
Uses(b, s) == {i \in 1 .. Len(b) : b[i] = s}

DepthsOK(bl, ss) ==
  /\ \A t \in Task : \A s \in 1 .. Len(ss) :
       Opened(s, bl[t]) => ss[s].depth = Cardinality(Uses(bl[t], s))
  /\ \A s \in 1 .. Len(ss) : ss[s].depth > 0 => \E t \in Task : Opened(s, bl[t])
  /\ \A t, u \in Task : \A s \in 1 .. Len(ss) : Opened(s, bl[t]) /\ Opened(s, bl[u]) => t = u

StackInv ==
  /\ mode \in {"sync", "async"} /\ live \in SUBSET Task
  /\ ObjectsOK(spans, ctxs)
  /\ stack \in [Task -> Seq(Nat)] /\ blocks \in [Task -> Seq(Nat)]
  /\ \A t \in Task : /\ StackOK(blocks[t], stack[t], Len(spans), mode)
                     /\ t \notin live => blocks[t] = <<>>
  /\ DepthsOK(blocks, spans)

(***************************************************************************)
(* A context counts its open spans. A traced one has given out the ids     *)
(* below its sid, one per span, holds the finished ones in its segment,    *)
(* and was archived if none is open.                                       *)
(***************************************************************************)
SpansIn(c, ss) == {s \in 1 .. Len(ss) : ss[s].ctx = c}
OpenIn(c, ss) == {s \in SpansIn(c, ss) : ss[s].depth # 0}
EntriesIn(c, ss) == {s \in SpansIn(c, ss) : ss[s].kind = "Entry"}

IdsOK(n, c, ss) ==
  /\ \A s \in SpansIn(c, ss) :
       /\ ss[s].sid \in 0 .. n - 1 /\ ss[s].pid \in -1 .. ss[s].sid - 1
       /\ ss[s].pid = -1 <=> ss[s].sid = 0
  /\ \A k \in 0 .. n - 1 : \E s \in SpansIn(c, ss) : ss[s].sid = k

SegmentOK(seg, c, ss) ==
  /\ \A i \in 1 .. Len(seg) : seg[i] \in SpansIn(c, ss) /\ ss[seg[i]].depth = 0
  /\ \A s \in SpansIn(c, ss) : ss[s].depth = 0 => In(s, seg, Len(seg))

PrimaryOK(p, c, ss) ==
  /\ p \in SpansIn(c, ss)
  /\ EntriesIn(c, ss) = {} => \A s \in SpansIn(c, ss) : p <= s
  /\ EntriesIn(c, ss) # {} => p \in EntriesIn(c, ss) /\ \A s \in EntriesIn(c, ss) : p <= s

TracedOK(r, c, ss) ==
  /\ Len(r.segment) + r.nspans = r.sid
  /\ r.archived = IF r.nspans = 0 THEN 1 ELSE 0
  /\ IdsOK(r.sid, c, ss) /\ SegmentOK(r.segment, c, ss) /\ PrimaryOK(r.primary, c, ss)

CtxOK(r, c, ss) ==
  /\ r.nspans = Cardinality(OpenIn(c, ss))
  /\ IF r.noop THEN r.archived = 0 ELSE TracedOK(r, c, ss)

CtxInv == \A c \in CtxNo : CtxOK(ctxs[c], c, spans)

SpanInv == StackInv /\ CtxInv

(* What concerns the objects alone, whatever the stacks look like.         *)
BaseInv ==
  /\ ObjectsOK(spans, ctxs) /\ CtxInv
  /\ stack \in [Task -> Seq(Nat)] /\ blocks \in [Task -> Seq(Nat)]
  /\ \A t \in Task : /\ Within(blocks[t], Len(blocks[t]), Len(spans))
                     /\ Within(stack[t], Len(stack[t]), Len(spans))

-----------------------------------------------------------------------------
(* Sequences.                                                              *)

(* Removing the innermost span takes the last element away.                *)
LEMMA RemoveAtEnd ==
  ASSUME NEW s \in Seq(Nat), Len(s) # 0
  PROVE  /\ RemoveAt(s, Len(s)) \in Seq(Nat)
         /\ Len(RemoveAt(s, Len(s))) = Len(s) - 1
         /\ \A i \in 1 .. Len(s) - 1 : RemoveAt(s, Len(s))[i] = s[i]
<1> PICK n \in Nat : n = Len(s) OBVIOUS
<1>1. /\ SubSeq(s, 1, n - 1) \in Seq(Nat) /\ Len(SubSeq(s, 1, n - 1)) = n - 1
      /\ \A i \in 1 .. n - 1 : SubSeq(s, 1, n - 1)[i] = s[i]
  OBVIOUS
<1>2. SubSeq(s, n + 1, n) = <<>>
  BY SubSeqEmpty
<1> QED BY SMTT(30), <1>1, <1>2 DEF RemoveAt

LEMMA RemoveFirstOfOnce ==
  ASSUME NEW s \in Seq(Nat), Len(s) # 0, Once(s, Len(s))
  PROVE  RemoveFirst(s, s[Len(s)]) = RemoveAt(s, Len(s))
<1> DEFINE I == {i \in 1 .. Len(s) : s[i] = s[Len(s)]}
<1>1. I = {Len(s)}
  BY DEF Once
<1>2. Min(I) = Len(s)
  BY <1>1 DEF Min
<1>3. SelectInSeq(s, LAMBDA v : v = s[Len(s)]) = Min(I)
  BY <1>1 DEF SelectInSeq
<1>4. \E i \in 1 .. Len(s) : s[i] = s[Len(s)]
  OBVIOUS
<1> QED BY <1>2, <1>3, <1>4 DEF RemoveFirst

-----------------------------------------------------------------------------
(* Stacks and with blocks.                                                 *)

(* More spans, the same stack.                                             *)
LEMMA StackKept ==
  ASSUME NEW b, NEW s, NEW n \in Nat, NEW m \in Nat, n <= m,
         NEW md, StackOK(b, s, n, md)
  PROVE  StackOK(b, s, m, md)
<1>1. \A q : \A lq \in Nat : Within(q, lq, n) => Within(q, lq, m)
  BY DEF Within
<1> QED BY <1>1 DEF StackOK, StackAt

(* A new span goes on the stack and gets its with block.                   *)
LEMMA StackPushed ==
  ASSUME NEW b, NEW s, NEW n \in Nat, NEW md, StackOK(b, s, n, md)
  PROVE  StackOK(Append(b, n + 1), Append(s, n + 1), n + 1, md)
<1>seq. b \in Seq(Nat) /\ s \in Seq(Nat)
  BY DEF StackOK
<1>lb. PICK lb \in Nat : lb = Len(b)
  BY <1>seq
<1>ls. PICK ls \in Nat : ls = Len(s)
  BY <1>seq
<1>b2. PICK b2 : b2 = Append(b, n + 1)
  OBVIOUS
<1>s2. PICK s2 : s2 = Append(s, n + 1)
  OBVIOUS
<1>0. StackAt(b, lb, s, ls, n, md)
  BY <1>seq, <1>lb, <1>ls DEF StackOK
<1>1. /\ b2 \in Seq(Nat) /\ Len(b2) = lb + 1 /\ b2[lb + 1] = n + 1
      /\ \A i \in 1 .. lb : b2[i] = b[i]
  BY <1>seq, <1>lb, <1>ls, <1>b2, AppendProperties
<1>2. /\ s2 \in Seq(Nat) /\ Len(s2) = ls + 1 /\ s2[ls + 1] = n + 1
      /\ \A i \in 1 .. ls : s2[i] = s[i]
  BY <1>seq, <1>lb, <1>ls, <1>s2, AppendProperties
<1>3. /\ \A i \in 1 .. lb : b[i] \in Nat /\ b[i] < n + 1
      /\ \A i \in 1 .. ls : s[i] \in Nat /\ s[i] < n + 1
  BY <1>0 DEF StackAt, Within
<1>4. Within(b2, lb + 1, n + 1) /\ Within(s2, ls + 1, n + 1)
  <2>1. Within(b2, lb + 1, n + 1)
    BY SMTT(30), <1>0, <1>1 DEF StackAt, Within
  <2>2. Within(s2, ls + 1, n + 1)
    <3> SUFFICES ASSUME NEW p \in 1 .. ls + 1 PROVE s2[p] \in 1 .. n + 1
      BY DEF Within
    <3>1. CASE p = ls + 1
      BY <3>1, <1>2
    <3>2. CASE p # ls + 1
      <4>1. s2[p] = s[p] /\ s[p] \in 1 .. n
        BY <3>2, <1>0, <1>2 DEF StackAt, Within
      <4> QED BY <4>1
    <3> QED BY <3>1, <3>2
  <2> QED BY <2>1, <2>2
<1>5. Once(s2, ls + 1)
  BY <1>0, <1>2, <1>3 DEF StackAt, Once
<1>6. \A x : In(x, b2, lb + 1) <=> In(x, b, lb) \/ x = n + 1
  BY <1>1 DEF In
<1>7. \A x : In(x, s2, ls + 1) <=> In(x, s, ls) \/ x = n + 1
  BY <1>2 DEF In
<1>8. OnStack(b2, lb + 1, s2, ls + 1)
  BY <1>0, <1>1, <1>7 DEF StackAt, OnStack
<1>9. Ordered(b2, lb + 1, s2, ls + 1)
  <2> SUFFICES ASSUME NEW i \in 1 .. lb + 1, NEW j \in 1 .. lb + 1,
                      NEW p \in 1 .. ls + 1, NEW q \in 1 .. ls + 1,
                      i <= j, b2[i] = s2[p], b2[j] = s2[q]
               PROVE  p <= q
    BY DEF Ordered
  <2>1. CASE j = lb + 1
    <3>1. q = ls + 1
      BY <2>1, <1>1, <1>2, <1>3
    <3> QED BY <3>1
  <2>2. CASE j # lb + 1
    <3>1. i \in 1 .. lb /\ j \in 1 .. lb
      BY <2>2
    <3>2. b2[i] < n + 1 /\ b2[j] < n + 1
      BY <3>1, <1>1, <1>3
    <3>3. p \in 1 .. ls /\ q \in 1 .. ls
      BY <3>2, <1>2
    <3>4. b[i] = s[p] /\ b[j] = s[q]
      BY <3>1, <3>3, <1>1, <1>2
    <3> QED BY <1>0, <3>1, <3>3, <3>4 DEF StackAt, Ordered
  <2> QED BY <2>1, <2>2
<1>10. Suffix(b2, lb + 1, s2, ls + 1)
  <2> SUFFICES ASSUME NEW p \in 1 .. ls + 1, NEW q \in 1 .. ls + 1,
                      p <= q, In(s2[p], b2, lb + 1)
               PROVE  In(s2[q], b2, lb + 1)
    BY DEF Suffix
  <2>1. CASE q = ls + 1
    BY <2>1, <1>2, <1>6
  <2>2. CASE q # ls + 1
    <3>1. p \in 1 .. ls /\ q \in 1 .. ls
      BY <2>2
    <3>2. s2[p] = s[p] /\ s2[q] = s[q] /\ s[p] # n + 1
      BY <3>1, <1>2, <1>3
    <3>3. In(s[p], b, lb)
      BY <3>2, <1>6
    <3>4. In(s[q], b, lb)
      BY <1>0, <3>1, <3>3 DEF StackAt, Suffix
    <3> QED BY <3>2, <3>4, <1>6
  <2> QED BY <2>1, <2>2
<1>11. md = "sync" => Whole(b2, lb + 1, s2, ls + 1)
  BY <1>0, <1>2, <1>6 DEF StackAt, Whole
<1>12. StackAt(b2, lb + 1, s2, ls + 1, n + 1, md)
  BY <1>4, <1>5, <1>8, <1>9, <1>10, <1>11 DEF StackAt
<1> QED BY <1>b2, <1>s2, <1>1, <1>2, <1>12 DEF StackOK

(* The span of the innermost with block is on top of the stack.            *)
LEMMA TopIsLast ==
  ASSUME NEW b, NEW s, NEW n \in Nat, NEW md, StackOK(b, s, n, md),
         Len(b) # 0 \/ (md = "sync" /\ Len(s) # 0)
  PROVE  Len(b) # 0 /\ Len(s) # 0 /\ b[Len(b)] = s[Len(s)]
<1>seq. b \in Seq(Nat) /\ s \in Seq(Nat)
  BY DEF StackOK
<1>lb. PICK lb \in Nat : lb = Len(b)
  BY <1>seq
<1>ls. PICK ls \in Nat : ls = Len(s)
  BY <1>seq
<1>0. StackAt(b, lb, s, ls, n, md)
  BY <1>seq, <1>lb, <1>ls DEF StackOK
<1>1. lb # 0
  <2>1. CASE md = "sync" /\ ls # 0
    BY <1>0, <2>1 DEF StackAt, Whole, In
  <2> QED BY <2>1, <1>lb, <1>ls
<1>2. PICK q \in 1 .. ls : s[q] = b[lb]
  BY <1>0, <1>1 DEF StackAt, OnStack, In
<1>3. In(s[q], b, lb)
  BY <1>1, <1>2 DEF In
<1>4. In(s[ls], b, lb)
  BY <1>0, <1>2, <1>3 DEF StackAt, Suffix
<1>5. PICK i \in 1 .. lb : b[i] = s[ls]
  BY <1>4 DEF In
<1>6. ls <= q
  BY <1>0, <1>1, <1>2, <1>5 DEF StackAt, Ordered
<1>7. q = ls
  BY <1>6
<1> QED BY <1>lb, <1>ls, <1>1, <1>2, <1>7

(* The span on top gets another with block.                                *)
LEMMA StackReentered ==
  ASSUME NEW b, NEW s, NEW n \in Nat, NEW md, StackOK(b, s, n, md),
         Len(b) # 0
  PROVE  StackOK(Append(b, s[Len(s)]), s, n, md)
<1>seq. b \in Seq(Nat) /\ s \in Seq(Nat)
  BY DEF StackOK
<1>lb. PICK lb \in Nat : lb = Len(b)
  BY <1>seq
<1>ls. PICK ls \in Nat : ls = Len(s)
  BY <1>seq
<1>0. StackAt(b, lb, s, ls, n, md)
  BY <1>seq, <1>lb, <1>ls DEF StackOK
<1>1. ls \in 1 .. ls /\ lb \in 1 .. lb /\ b[lb] = s[ls] /\ s[ls] \in Nat
  BY <1>seq, <1>lb, <1>ls, TopIsLast
<1>b2. PICK b2 : b2 = Append(b, s[ls])
  OBVIOUS
<1>2. /\ b2 \in Seq(Nat) /\ Len(b2) = lb + 1 /\ b2[lb + 1] = s[ls]
      /\ \A i \in 1 .. lb : b2[i] = b[i]
  BY <1>seq, <1>lb, <1>ls, <1>b2, <1>1, AppendProperties
<1>3. Within(b2, lb + 1, n)
  BY SMTT(30), <1>0, <1>1, <1>2 DEF StackAt, Within
<1>4. \A x : In(x, b2, lb + 1) <=> In(x, b, lb)
  BY <1>1, <1>2 DEF In
<1>5. OnStack(b2, lb + 1, s, ls)
  BY <1>0, <1>1, <1>2 DEF StackAt, OnStack
<1>6. Ordered(b2, lb + 1, s, ls)
  <2> SUFFICES ASSUME NEW i \in 1 .. lb + 1, NEW j \in 1 .. lb + 1,
                      NEW p \in 1 .. ls, NEW q \in 1 .. ls,
                      i <= j, b2[i] = s[p], b2[j] = s[q]
               PROVE  p <= q
    BY DEF Ordered
  <2>1. CASE j = lb + 1
    <3>1. q = ls
      BY <2>1, <1>0, <1>1, <1>2 DEF StackAt, Once
    <3> QED BY <3>1
  <2>2. CASE j # lb + 1
    <3>1. i \in 1 .. lb /\ j \in 1 .. lb
      BY <2>2
    <3>2. b[i] = s[p] /\ b[j] = s[q]
      BY <3>1, <1>2
    <3> QED BY <3>1, <3>2, <1>0 DEF StackAt, Ordered
  <2> QED BY <2>1, <2>2
<1>7. StackAt(b2, lb + 1, s, ls, n, md)
  BY <1>0, <1>3, <1>4, <1>5, <1>6 DEF StackAt, Suffix, Whole
<1> QED BY <1>b2, <1>ls, <1>seq, <1>2, <1>7 DEF StackOK

(* The innermost with block ends, its span has another one.                *)
LEMMA StackLeft ==
  ASSUME NEW b, NEW s, NEW n \in Nat, NEW md, StackOK(b, s, n, md),
         Len(b) # 0, NEW i \in 1 .. Len(b), i # Len(b), b[i] = b[Len(b)]
  PROVE  StackOK(RemoveAt(b, Len(b)), s, n, md)
<1>seq. b \in Seq(Nat) /\ s \in Seq(Nat)
  BY DEF StackOK
<1>lb. PICK lb \in Nat : lb = Len(b)
  BY <1>seq
<1>ls. PICK ls \in Nat : ls = Len(s)
  BY <1>seq
<1>0. StackAt(b, lb, s, ls, n, md) /\ lb - 1 \in Nat
  BY <1>seq, <1>lb, <1>ls DEF StackOK
<1>b2. PICK b2 : b2 = RemoveAt(b, Len(b))
  OBVIOUS
<1>1. /\ b2 \in Seq(Nat) /\ Len(b2) = lb - 1
      /\ \A j \in 1 .. lb - 1 : b2[j] = b[j]
  BY <1>seq, <1>lb, <1>b2, RemoveAtEnd
<1>2. Within(b2, lb - 1, n)
  <2> SUFFICES ASSUME NEW j \in 1 .. lb - 1 PROVE b2[j] \in 1 .. n
    BY DEF Within
  <2>1. j \in 1 .. lb /\ b2[j] = b[j]
    BY <1>1
  <2> QED BY <2>1, <1>0 DEF StackAt, Within
<1>3. OnStack(b2, lb - 1, s, ls)
  BY <1>0, <1>1 DEF StackAt, OnStack
<1>4. Ordered(b2, lb - 1, s, ls)
  BY <1>0, <1>1 DEF StackAt, Ordered
<1>5. \A x : In(x, b2, lb - 1) <=> In(x, b, lb)
  <2>1. \A j \in 1 .. lb : j = lb \/ j \in 1 .. lb - 1
    OBVIOUS
  <2>2. i \in 1 .. lb - 1 /\ b[i] = b[lb]
    BY <1>lb
  <2>3. \A j \in 1 .. lb - 1 : j \in 1 .. lb
    OBVIOUS
  <2>4. \A x : In(x, b2, lb - 1) => In(x, b, lb)
    BY <2>3, <1>1 DEF In
  <2>5. \A x : In(x, b, lb) => In(x, b2, lb - 1)
    BY <2>1, <2>2, <1>1 DEF In
  <2> QED BY <2>4, <2>5
<1>6. StackAt(b2, lb - 1, s, ls, n, md)
  BY <1>0, <1>2, <1>3, <1>4, <1>5 DEF StackAt, Suffix, Whole
<1> QED BY <1>b2, <1>ls, <1>seq, <1>1, <1>6 DEF StackOK

(* The only with block of the innermost span ends.                         *)
LEMMA StackPopped ==
  ASSUME NEW b, NEW s, NEW n \in Nat, NEW md, StackOK(b, s, n, md),
         Len(b) # 0, \A i \in 1 .. Len(b) : b[i] = b[Len(b)] => i = Len(b)
  PROVE  StackOK(RemoveAt(b, Len(b)), RemoveFirst(s, b[Len(b)]), n, md)
<1>seq. b \in Seq(Nat) /\ s \in Seq(Nat)
  BY DEF StackOK
<1>lb. PICK lb \in Nat : lb = Len(b)
  BY <1>seq
<1>ls. PICK ls \in Nat : ls = Len(s)
  BY <1>seq
<1>0. StackAt(b, lb, s, ls, n, md) /\ lb - 1 \in Nat
  BY <1>seq, <1>lb, <1>ls DEF StackOK
<1>1. ls # 0 /\ b[lb] = s[ls] /\ ls - 1 \in Nat
  BY <1>seq, <1>lb, <1>ls, TopIsLast
<1>b2. PICK b2 : b2 = RemoveAt(b, Len(b))
  OBVIOUS
<1>s2. PICK s2 : s2 = RemoveFirst(s, b[Len(b)])
  OBVIOUS
<1>2. /\ b2 \in Seq(Nat) /\ Len(b2) = lb - 1
      /\ \A j \in 1 .. lb - 1 : j \in 1 .. lb /\ b2[j] = b[j] /\ b[j] # b[lb]
  BY SMTT(30), <1>seq, <1>lb, <1>ls, <1>b2, RemoveAtEnd
<1>3. s2 = RemoveAt(s, ls)
  BY <1>seq, <1>lb, <1>ls, <1>s2, <1>0, <1>1, RemoveFirstOfOnce DEF StackAt
<1>4. /\ s2 \in Seq(Nat) /\ Len(s2) = ls - 1
      /\ \A j \in 1 .. ls - 1 : j \in 1 .. ls /\ s2[j] = s[j] /\ s[j] # b[lb]
  <2>1. \A j \in 1 .. ls - 1 : j \in 1 .. ls /\ s[j] # b[lb]
    BY <1>0, <1>1 DEF StackAt, Once
  <2> QED BY <1>seq, <1>ls, <1>1, <1>3, <2>1, RemoveAtEnd
<1>5. Within(b2, lb - 1, n) /\ Within(s2, ls - 1, n) /\ Once(s2, ls - 1)
  BY <1>0, <1>2, <1>4 DEF StackAt, Within, Once
<1>6. \A x : x # b[lb] => (In(x, b, lb) <=> In(x, b2, lb - 1))
  <2>1. \A j \in 1 .. lb : j = lb \/ j \in 1 .. lb - 1
    OBVIOUS
  <2> QED BY <2>1, <1>2 DEF In
<1>7. \A x : x # b[lb] => (In(x, s, ls) <=> In(x, s2, ls - 1))
  <2>1. \A j \in 1 .. ls : j = ls \/ j \in 1 .. ls - 1
    OBVIOUS
  <2> QED BY <2>1, <1>1, <1>4 DEF In
<1>8. OnStack(b2, lb - 1, s2, ls - 1)
  BY <1>0, <1>2, <1>7 DEF StackAt, OnStack
<1>9. Ordered(b2, lb - 1, s2, ls - 1)
  BY <1>0, <1>2, <1>4 DEF StackAt, Ordered
<1>10. Suffix(b2, lb - 1, s2, ls - 1)
  BY <1>0, <1>4, <1>6 DEF StackAt, Suffix
<1>11. md = "sync" => Whole(b2, lb - 1, s2, ls - 1)
  BY <1>0, <1>4, <1>6 DEF StackAt, Whole
<1>12. StackAt(b2, lb - 1, s2, ls - 1, n, md)
  BY <1>5, <1>8, <1>9, <1>10, <1>11 DEF StackAt
<1> QED BY <1>b2, <1>s2, <1>2, <1>4, <1>12 DEF StackOK

(* A new task has its creator's stack and no with block.                   *)
LEMMA StackCopied ==
  ASSUME NEW b, NEW s, NEW n \in Nat, NEW md, md # "sync", StackOK(b, s, n, md)
  PROVE  StackOK(<<>>, s, n, md)
BY DEF StackOK, StackAt, Within, OnStack, Ordered, Suffix, In

-----------------------------------------------------------------------------
(* The with blocks of a span.                                              *)

LEMMA UsesFacts ==
  ASSUME NEW b \in Seq(Nat), NEW x
  PROVE  /\ IsFiniteSet(Uses(b, x)) /\ Cardinality(Uses(b, x)) \in Nat
         /\ Opened(x, b) <=> Cardinality(Uses(b, x)) # 0
<1>1. IsFiniteSet(1 .. Len(b))
  BY FS_Interval
<1>2. IsFiniteSet(Uses(b, x))
  BY <1>1, FS_Subset DEF Uses
<1>3. Opened(x, b) <=> Uses(b, x) # {}
  BY DEF Opened, In, Uses
<1> QED BY <1>2, <1>3, FS_CardinalityType, FS_EmptySet

LEMMA UsesAppended ==
  ASSUME NEW b \in Seq(Nat), NEW y \in Nat, NEW x
  PROVE  /\ x # y => Uses(Append(b, y), x) = Uses(b, x)
         /\ x = y => Cardinality(Uses(Append(b, y), x)) = Cardinality(Uses(b, x)) + 1
         /\ Opened(x, Append(b, y)) <=> Opened(x, b) \/ x = y
<1>1. PICK n \in Nat : n = Len(b)
  OBVIOUS
<1>2. PICK b2 : b2 = Append(b, y)
  OBVIOUS
<1>3. /\ b2 \in Seq(Nat) /\ Len(b2) = n + 1 /\ b2[n + 1] = y
      /\ \A i \in 1 .. n : b2[i] = b[i]
  BY <1>1, <1>2, AppendProperties
<1>4. \A i \in 1 .. n + 1 : i = n + 1 \/ i \in 1 .. n
  OBVIOUS
<1>5. x # y => Uses(b2, x) = Uses(b, x)
  BY <1>1, <1>3, <1>4 DEF Uses
<1>6. ASSUME x = y PROVE Cardinality(Uses(b2, x)) = Cardinality(Uses(b, x)) + 1
  <2>1. Uses(b2, x) = Uses(b, x) \cup {n + 1}
    BY <1>1, <1>3, <1>4, <1>6 DEF Uses
  <2>2. n + 1 \notin Uses(b, x)
    BY <1>1 DEF Uses
  <2> QED BY <2>1, <2>2, UsesFacts, FS_AddElement
<1>7. Opened(x, b2) <=> Opened(x, b) \/ x = y
  BY <1>1, <1>3, <1>4 DEF Opened, In
<1> QED BY <1>2, <1>5, <1>6, <1>7

(* The number of a block's own span grows by one.                          *)
LEMMA UsesAgain ==
  ASSUME NEW b \in Seq(Nat), NEW x \in Nat
  PROVE  /\ Cardinality(Uses(Append(b, x), x)) = Cardinality(Uses(b, x)) + 1
         /\ Cardinality(Uses(b, x)) \in Nat
         /\ Opened(x, b) <=> Cardinality(Uses(b, x)) # 0
<1>1. Cardinality(Uses(Append(b, x), x)) = Cardinality(Uses(b, x)) + 1
  BY UsesAppended
<1>2. Cardinality(Uses(b, x)) \in Nat /\ (Opened(x, b) <=> Cardinality(Uses(b, x)) # 0)
  BY UsesFacts
<1> QED BY <1>1, <1>2

LEMMA UsesRemoved ==
  ASSUME NEW b \in Seq(Nat), Len(b) # 0, NEW x
  PROVE  /\ x # b[Len(b)] => Uses(RemoveAt(b, Len(b)), x) = Uses(b, x)
         /\ x = b[Len(b)] => Cardinality(Uses(RemoveAt(b, Len(b)), x)) = Cardinality(Uses(b, x)) - 1
         /\ Opened(x, RemoveAt(b, Len(b))) => Opened(x, b)
         /\ Opened(x, b) => x = b[Len(b)] \/ Opened(x, RemoveAt(b, Len(b)))
<1>1. PICK n \in Nat : n = Len(b)
  OBVIOUS
<1>2. PICK b2 : b2 = RemoveAt(b, Len(b))
  OBVIOUS
<1>3. b2 \in Seq(Nat) /\ Len(b2) = n - 1 /\ \A i \in 1 .. n - 1 : b2[i] = b[i]
  BY <1>1, <1>2, RemoveAtEnd
<1>4. /\ \A i \in 1 .. n : i = n \/ i \in 1 .. n - 1
      /\ \A i \in 1 .. n - 1 : i \in 1 .. n
      /\ n \notin 1 .. n - 1 /\ n \in 1 .. n
  BY <1>1
<1>5. x # b[n] => Uses(b2, x) = Uses(b, x)
  BY <1>1, <1>3, <1>4 DEF Uses
<1>6. ASSUME x = b[n] PROVE Cardinality(Uses(b2, x)) = Cardinality(Uses(b, x)) - 1
  <2>1. Uses(b2, x) = Uses(b, x) \ {n} /\ n \in Uses(b, x)
    BY <1>1, <1>3, <1>4, <1>6 DEF Uses
  <2>2. IsFiniteSet(Uses(b, x))
    BY UsesFacts
  <2>3. Cardinality(Uses(b, x) \ {n}) = Cardinality(Uses(b, x)) - 1
    BY <2>1, <2>2, FS_RemoveElement
  <2> QED BY <2>1, <2>3
<1>7. Opened(x, b2) => Opened(x, b)
  BY <1>1, <1>3, <1>4 DEF Opened, In
<1>8. Opened(x, b) => x = b[n] \/ Opened(x, b2)
  BY <1>1, <1>3, <1>4 DEF Opened, In
<1> QED BY <1>1, <1>2, <1>5, <1>6, <1>7, <1>8

(* Whether the innermost with block is the only one of its span.           *)
LEMMA OutermostUse ==
  ASSUME NEW b \in Seq(Nat), Len(b) # 0
  PROVE  /\ Cardinality(Uses(b, b[Len(b)])) # 0
         /\ Cardinality(Uses(b, b[Len(b)])) = 1 =>
              \A i \in 1 .. Len(b) : b[i] = b[Len(b)] => i = Len(b)
         /\ Cardinality(Uses(b, b[Len(b)])) # 1 =>
              \E i \in 1 .. Len(b) : i # Len(b) /\ b[i] = b[Len(b)]
<1>1. PICK n \in Nat : n = Len(b)
  OBVIOUS
<1>2. PICK U : U = Uses(b, b[n])
  OBVIOUS
<1>3. n \in U /\ \A i \in 1 .. n : b[i] = b[n] <=> i \in U
  BY <1>1, <1>2 DEF Uses
<1>4. IsFiniteSet(U)
  BY <1>2, UsesFacts
<1>5. Cardinality(U \ {n}) = Cardinality(U) - 1 /\ IsFiniteSet(U \ {n}) /\ Cardinality(U) \in Nat
  BY <1>3, <1>4, FS_RemoveElement, FS_CardinalityType
<1>6. Cardinality(U \ {n}) \in Nat /\ (Cardinality(U \ {n}) = 0 <=> U \ {n} = {})
  BY <1>5, FS_CardinalityType, FS_EmptySet
<1>7. Cardinality(U) # 0 /\ (Cardinality(U) = 1 <=> U \ {n} = {})
  BY <1>5, <1>6
<1>8. U \subseteq 1 .. n
  BY <1>1, <1>2 DEF Uses
<1> QED BY <1>1, <1>2, <1>3, <1>7, <1>8

(* Task t enters a with block of span x, which no other task has entered.  *)
EntersBlock(t, x, bl, bn, ss, s2) ==
  /\ bn[t] = Append(bl[t], x) /\ \A u \in Task : u # t => bn[u] = bl[u]
  /\ x \in 1 .. Len(s2)
  /\ \A s \in 1 .. Len(s2) : s # x => s \in 1 .. Len(ss) /\ s2[s].depth = ss[s].depth
  /\ s2[x].depth = Cardinality(Uses(bl[t], x)) + 1
  /\ \A u \in Task : Opened(x, bl[u]) => u = t

LEMMA DepthsEntered ==
  ASSUME NEW bl \in [Task -> Seq(Nat)], NEW bn, NEW ss, NEW s2, NEW t \in Task, NEW x,
         EntersBlock(t, x, bl, bn, ss, s2), DepthsOK(bl, ss)
  PROVE  DepthsOK(bn, s2)
<1>0. /\ x \in 1 .. Len(s2)
      /\ \A s \in 1 .. Len(s2) : s # x => s \in 1 .. Len(ss) /\ s2[s].depth = ss[s].depth
  BY DEF EntersBlock
<1>1. /\ s2[x].depth = Cardinality(Uses(bl[t], x)) + 1
      /\ \A u \in Task : Opened(x, bl[u]) => u = t
  BY DEF EntersBlock
<1>2. /\ \A u \in Task : u # t => bn[u] = bl[u]
      /\ bn[t] = Append(bl[t], x) /\ bl[t] \in Seq(Nat) /\ x \in Nat
  BY DEF EntersBlock
<1>3. \A s : /\ s # x => Uses(bn[t], s) = Uses(bl[t], s)
             /\ Opened(s, bn[t]) <=> Opened(s, bl[t]) \/ s = x
  BY <1>2, UsesAppended
<1>4. Cardinality(Uses(bn[t], x)) = Cardinality(Uses(bl[t], x)) + 1
  BY <1>2, UsesAppended
<1>5. ASSUME NEW u \in Task, NEW s \in 1 .. Len(s2), Opened(s, bn[u])
      PROVE  s2[s].depth = Cardinality(Uses(bn[u], s))
  <2>1. CASE s = x
    <3>1. u = t
      BY <2>1, <1>1, <1>2, <1>5
    <3> QED BY <2>1, <3>1, <1>1, <1>4
  <2>2. CASE s # x
    <3>1. Opened(s, bl[u]) /\ Uses(bn[u], s) = Uses(bl[u], s)
      BY <2>2, <1>2, <1>3, <1>5
    <3>2. s \in 1 .. Len(ss) /\ s2[s].depth = ss[s].depth
      BY <2>2, <1>0
    <3> QED BY <3>1, <3>2 DEF DepthsOK
  <2> QED BY <2>1, <2>2
<1>6. ASSUME NEW s \in 1 .. Len(s2), s2[s].depth > 0
      PROVE  \E u \in Task : Opened(s, bn[u])
  <2>1. CASE s = x
    BY <2>1, <1>3
  <2>2. CASE s # x
    <3>1. PICK u \in Task : Opened(s, bl[u])
      BY <2>2, <1>0, <1>6 DEF DepthsOK
    <3> QED BY <3>1, <1>2, <1>3
  <2> QED BY <2>1, <2>2
<1>7. ASSUME NEW u \in Task, NEW v \in Task, NEW s \in 1 .. Len(s2),
             Opened(s, bn[u]), Opened(s, bn[v])
      PROVE  u = v
  <2>1. CASE s = x
    BY <2>1, <1>1, <1>2, <1>7
  <2>2. CASE s # x
    <3>1. Opened(s, bl[u]) /\ Opened(s, bl[v]) /\ s \in 1 .. Len(ss)
      BY <2>2, <1>0, <1>2, <1>3, <1>7
    <3> QED BY <3>1 DEF DepthsOK
  <2> QED BY <2>1, <2>2
<1> QED BY <1>5, <1>6, <1>7 DEF DepthsOK

(* The innermost with block of a task ends.                                *)
LeavesBlock(t, x, bl, bn, ss, s2) ==
  /\ Len(bl[t]) # 0 /\ x = bl[t][Len(bl[t])] /\ x \in 1 .. Len(ss)
  /\ bn[t] = RemoveAt(bl[t], Len(bl[t])) /\ \A u \in Task : u # t => bn[u] = bl[u]
  /\ Len(s2) = Len(ss) /\ \A s \in 1 .. Len(ss) : s # x => s2[s].depth = ss[s].depth
  /\ s2[x].depth = ss[x].depth - 1

LEMMA DepthsLeft ==
  ASSUME NEW bl \in [Task -> Seq(Nat)], NEW bn, NEW ss, NEW s2, NEW t \in Task, NEW x,
         LeavesBlock(t, x, bl, bn, ss, s2), DepthsOK(bl, ss)
  PROVE  DepthsOK(bn, s2)
<1>0. x \in 1 .. Len(ss) /\ Len(s2) = Len(ss) /\ s2[x].depth = ss[x].depth - 1
  BY DEF LeavesBlock
<1>1. \A s \in 1 .. Len(ss) : s # x => s2[s].depth = ss[s].depth
  BY DEF LeavesBlock
<1>2. /\ \A u \in Task : u # t => bn[u] = bl[u]
      /\ bn[t] = RemoveAt(bl[t], Len(bl[t])) /\ bl[t] \in Seq(Nat)
      /\ Len(bl[t]) # 0 /\ x = bl[t][Len(bl[t])]
  BY DEF LeavesBlock
<1>3. \A s : /\ s # x => Uses(bn[t], s) = Uses(bl[t], s)
             /\ Opened(s, bn[t]) => Opened(s, bl[t])
             /\ Opened(s, bl[t]) => s = x \/ Opened(s, bn[t])
  BY <1>2, UsesRemoved
<1>4. Cardinality(Uses(bn[t], x)) = Cardinality(Uses(bl[t], x)) - 1
  BY <1>2, UsesRemoved
<1>5. Opened(x, bl[t])
  BY <1>2, UsesFacts, OutermostUse
<1>6. \A u \in Task : Opened(x, bl[u]) => u = t
  BY <1>0, <1>5 DEF DepthsOK
<1>7. ss[x].depth = Cardinality(Uses(bl[t], x))
  BY <1>0, <1>5 DEF DepthsOK
<1>8. s2[x].depth = Cardinality(Uses(bn[t], x))
  BY <1>0, <1>4, <1>7
<1>9. bn[t] \in Seq(Nat)
  BY <1>2, RemoveAtEnd
<1>10. ASSUME NEW u \in Task, NEW s \in 1 .. Len(s2), Opened(s, bn[u])
       PROVE  s2[s].depth = Cardinality(Uses(bn[u], s))
  <2>1. CASE s = x
    <3>1. u = t
      BY <2>1, <1>2, <1>6, <1>10
    <3> QED BY <2>1, <3>1, <1>8
  <2>2. CASE s # x
    <3>1. Opened(s, bl[u]) /\ Uses(bn[u], s) = Uses(bl[u], s)
      BY <2>2, <1>2, <1>3, <1>10
    <3>2. s \in 1 .. Len(ss) /\ s2[s].depth = ss[s].depth
      BY <2>2, <1>0, <1>1
    <3> QED BY <3>1, <3>2 DEF DepthsOK
  <2> QED BY <2>1, <2>2
<1>11. ASSUME NEW s \in 1 .. Len(s2), s2[s].depth > 0
       PROVE  \E u \in Task : Opened(s, bn[u])
  <2>1. CASE s = x
    <3>1. Cardinality(Uses(bn[t], x)) # 0
      BY <2>1, <1>8, <1>11
    <3> QED BY <2>1, <3>1, <1>9, UsesFacts
  <2>2. CASE s # x
    <3>1. PICK u \in Task : Opened(s, bl[u])
      BY <2>2, <1>0, <1>1, <1>11 DEF DepthsOK
    <3> QED BY <2>2, <3>1, <1>2, <1>3
  <2> QED BY <2>1, <2>2
<1>12. ASSUME NEW u \in Task, NEW v \in Task, NEW s \in 1 .. Len(s2),
              Opened(s, bn[u]), Opened(s, bn[v])
       PROVE  u = v
  <2>1. Opened(s, bl[u]) /\ Opened(s, bl[v])
    BY <1>2, <1>3, <1>12
  <2> QED BY <2>1, <1>0 DEF DepthsOK
<1> QED BY <1>10, <1>11, <1>12 DEF DepthsOK

-----------------------------------------------------------------------------
(* Contexts and their spans.                                               *)

LEMMA OpenFacts ==
  ASSUME NEW c, NEW ss, Len(ss) \in Nat
  PROVE  /\ IsFiniteSet(OpenIn(c, ss)) /\ Cardinality(OpenIn(c, ss)) \in Nat
         /\ Cardinality(OpenIn(c, ss)) = 0 <=> OpenIn(c, ss) = {}
<1>1. IsFiniteSet(1 .. Len(ss))
  BY FS_Interval
<1>2. OpenIn(c, ss) \subseteq 1 .. Len(ss)
  BY DEF OpenIn, SpansIn
<1>3. IsFiniteSet(OpenIn(c, ss))
  BY <1>1, <1>2, FS_Subset
<1> QED BY <1>3, FS_CardinalityType, FS_EmptySet

LEMMA IdsKept ==
  ASSUME NEW c, NEW n, NEW ss, NEW s2, SpansIn(c, s2) = SpansIn(c, ss),
         \A s \in SpansIn(c, ss) : s2[s].sid = ss[s].sid /\ s2[s].pid = ss[s].pid,
         IdsOK(n, c, ss)
  PROVE  IdsOK(n, c, s2)
BY DEF IdsOK

(* The next id goes to span x, whose parent has an earlier one.            *)
LEMMA IdsJoined ==
  ASSUME NEW c, NEW n \in Nat, NEW ss, NEW s2, NEW x, NEW pid \in Int,
         SpansIn(c, s2) = SpansIn(c, ss) \cup {x},
         \A s \in SpansIn(c, ss) : s2[s] = ss[s],
         s2[x].sid = n, s2[x].pid = pid, 0 <= pid, pid < n,
         IdsOK(n, c, ss)
  PROVE  IdsOK(n + 1, c, s2)
<1>1. ASSUME NEW k \in 0 .. (n + 1) - 1
      PROVE  \E s \in SpansIn(c, s2) : s2[s].sid = k
  <2>1. CASE k = n
    BY <2>1
  <2>2. CASE k # n
    <3>1. PICK s \in SpansIn(c, ss) : ss[s].sid = k
      BY <2>2 DEF IdsOK
    <3> QED BY <3>1
  <2> QED BY <2>1, <2>2
<1>2. ASSUME NEW s \in SpansIn(c, ss)
      PROVE  /\ s2[s].sid \in 0 .. (n + 1) - 1 /\ s2[s].pid \in -1 .. s2[s].sid - 1
             /\ s2[s].pid = -1 <=> s2[s].sid = 0
  <2>1. /\ ss[s].sid \in 0 .. n - 1 /\ ss[s].pid \in -1 .. ss[s].sid - 1
        /\ ss[s].pid = -1 <=> ss[s].sid = 0
    BY DEF IdsOK
  <2> QED BY <2>1
<1>3. /\ s2[x].sid \in 0 .. (n + 1) - 1 /\ s2[x].pid \in -1 .. s2[x].sid - 1
      /\ s2[x].pid = -1 <=> s2[x].sid = 0
  OBVIOUS
<1> QED BY <1>1, <1>2, <1>3 DEF IdsOK

(* A context is not concerned by spans of others, nor by a with block that *)
(* is not the outermost one of its span.                                   *)
LEMMA CtxKept ==
  ASSUME NEW c, NEW r, NEW ss, NEW s2, SpansIn(c, s2) = SpansIn(c, ss),
         \A s \in SpansIn(c, ss) :
           /\ s2[s].sid = ss[s].sid /\ s2[s].pid = ss[s].pid /\ s2[s].kind = ss[s].kind
           /\ s2[s].depth = 0 <=> ss[s].depth = 0,
         CtxOK(r, c, ss)
  PROVE  CtxOK(r, c, s2)
<1>1. OpenIn(c, s2) = OpenIn(c, ss)
  BY DEF OpenIn
<1>2. EntriesIn(c, s2) = EntriesIn(c, ss)
  BY DEF EntriesIn
<1>3. \A n : IdsOK(n, c, ss) => IdsOK(n, c, s2)
  BY DEF IdsOK
<1>4. \A q : SegmentOK(q, c, ss) => SegmentOK(q, c, s2)
  BY DEF SegmentOK
<1>5. \A p : PrimaryOK(p, c, ss) => PrimaryOK(p, c, s2)
  BY <1>2 DEF PrimaryOK
<1>6. TracedOK(r, c, ss) => TracedOK(r, c, s2)
  BY <1>3, <1>4, <1>5 DEF TracedOK
<1> QED BY <1>1, <1>6 DEF CtxOK

(* A new context with its first span, x.                                   *)
LEMMA CtxFirst ==
  ASSUME NEW c, NEW r, NEW s2, NEW x \in Nat, SpansIn(c, s2) = {x}, s2[x].depth = 1,
         r.noop \in BOOLEAN, r.nspans = 1, r.archived = 0, r.primary = x, r.segment = <<>>,
         ~r.noop => r.sid = 1 /\ s2[x].sid = 0 /\ s2[x].pid = -1
  PROVE  CtxOK(r, c, s2)
<1>1. OpenIn(c, s2) = {x}
  BY DEF OpenIn
<1>2. Cardinality({x}) = 1
  BY FS_Singleton
<1>3. ASSUME ~r.noop PROVE TracedOK(r, c, s2)
  <2>1. IdsOK(1, c, s2)
    <3>1. \A k \in 0 .. 0 : k = 0
      OBVIOUS
    <3> QED BY <1>3, <3>1 DEF IdsOK
  <2>2. SegmentOK(<<>>, c, s2)
    BY DEF SegmentOK, In
  <2>3. PrimaryOK(x, c, s2)
    <3>1. EntriesIn(c, s2) \subseteq {x}
      BY DEF EntriesIn
    <3> QED BY <3>1 DEF PrimaryOK
  <2>4. Len(r.segment) + r.nspans = r.sid
    BY <1>3
  <2> QED BY <1>3, <2>1, <2>2, <2>3, <2>4 DEF TracedOK
<1> QED BY <1>1, <1>2, <1>3 DEF CtxOK

(* Another span, x, in a context that has open ones if it is traced.       *)
LEMMA CtxJoined ==
  ASSUME NEW c, NEW r, NEW r2, NEW ss, NEW s2, NEW x \in Nat,
         Len(ss) \in Nat, x = Len(ss) + 1, SpansIn(c, s2) = SpansIn(c, ss) \cup {x},
         \A s \in SpansIn(c, ss) : s2[s] = ss[s],
         s2[x].depth = 1,
         r.nspans \in Nat, r.sid \in Nat, CtxOK(r, c, ss),
         r2.noop = r.noop, r2.nspans = r.nspans + 1, r2.archived = r.archived,
         r2.segment = r.segment,
         r.noop \in BOOLEAN,
         ~r.noop =>
           /\ r.nspans # 0 /\ r2.sid = r.sid + 1 /\ s2[x].sid = r.sid
           /\ s2[x].pid \in Int /\ 0 <= s2[x].pid /\ s2[x].pid < r.sid
           /\ r2.primary = IF s2[r.primary].kind # "Entry" /\ s2[x].kind = "Entry"
                           THEN x ELSE r.primary
  PROVE  CtxOK(r2, c, s2)
<1>0. x \notin SpansIn(c, ss) /\ \A s \in SpansIn(c, ss) : s \in Nat /\ s < x
  BY DEF SpansIn
<1>1. OpenIn(c, s2) = OpenIn(c, ss) \cup {x} /\ x \notin OpenIn(c, ss)
  BY <1>0 DEF OpenIn
<1>2. Cardinality(OpenIn(c, s2)) = r2.nspans
  <2>1. Cardinality(OpenIn(c, ss)) = r.nspans
    BY DEF CtxOK
  <2>2. PICK A : A = OpenIn(c, ss)
    OBVIOUS
  <2>3. IsFiniteSet(A)
    BY <2>2, OpenFacts
  <2>4. Cardinality(A \cup {x}) = Cardinality(A) + 1
    BY <1>1, <2>2, <2>3, FS_AddElement
  <2> QED BY <1>1, <2>1, <2>2, <2>4
<1>3. ASSUME ~r.noop PROVE TracedOK(r2, c, s2)
  <2>0. TracedOK(r, c, ss)
    BY <1>3 DEF CtxOK
  <2>1. IdsOK(r.sid + 1, c, s2)
    BY <1>3, <2>0, IdsJoined DEF TracedOK
  <2>2. SegmentOK(r.segment, c, s2)
    BY <1>0, <2>0 DEF TracedOK, SegmentOK
  <2>3. PrimaryOK(r2.primary, c, s2)
    <3>0. PrimaryOK(r.primary, c, ss)
      BY <2>0 DEF TracedOK
    <3>1. r.primary \in SpansIn(c, ss) /\ s2[r.primary] = ss[r.primary]
      BY <3>0 DEF PrimaryOK
    <3>2. CASE s2[x].kind = "Entry"
      <4>1. EntriesIn(c, s2) = EntriesIn(c, ss) \cup {x}
        BY <3>2 DEF EntriesIn
      <4>2. CASE ss[r.primary].kind = "Entry"
        <5>1. r.primary \in EntriesIn(c, ss)
          BY <4>2, <3>1 DEF EntriesIn
        <5>2. r2.primary = r.primary
          BY <1>3, <3>1, <4>2
        <5> QED BY <1>0, <3>0, <3>1, <4>1, <5>1, <5>2 DEF PrimaryOK
      <4>3. CASE ss[r.primary].kind # "Entry"
        <5>1. EntriesIn(c, ss) = {}
          BY <4>3, <3>0 DEF PrimaryOK, EntriesIn
        <5>2. r2.primary = x
          BY <1>3, <3>1, <3>2, <4>3
        <5> QED BY <4>1, <5>1, <5>2 DEF PrimaryOK
      <4> QED BY <4>2, <4>3
    <3>3. CASE s2[x].kind # "Entry"
      <4>1. EntriesIn(c, s2) = EntriesIn(c, ss)
        BY <3>3 DEF EntriesIn
      <4>2. r2.primary = r.primary
        BY <1>3, <3>3
      <4> QED BY <1>0, <3>0, <3>1, <4>1, <4>2 DEF PrimaryOK
    <3> QED BY <3>2, <3>3
  <2>4. Len(r2.segment) + r2.nspans = r2.sid
    <3>1. Len(r.segment) + r.nspans = r.sid
      BY <2>0 DEF TracedOK
    <3>2. PICK q : q = Len(r.segment)
      OBVIOUS
    <3> QED BY SMTT(30), <1>3, <3>1, <3>2
  <2>5. r2.archived = IF r2.nspans = 0 THEN 1 ELSE 0
    BY <1>3, <2>0 DEF TracedOK
  <2> QED BY <1>3, <2>1, <2>2, <2>3, <2>4, <2>5 DEF TracedOK
<1> QED BY <1>2, <1>3 DEF CtxOK

(* Span x of the context finishes.                                         *)
(* Span x of context c, a record r, ends and leaves r2 (SpanContext.stop). *)
Stops(x, c, r, r2, ss, s2) ==
  /\ x \in SpansIn(c, ss) /\ Len(ss) \in Nat /\ SpansIn(c, s2) = SpansIn(c, ss)
  /\ \A s \in SpansIn(c, ss) : s # x => s2[s] = ss[s]
  /\ ss[x].depth = 1 /\ s2[x].depth = 0
  /\ s2[x].sid = ss[x].sid /\ s2[x].pid = ss[x].pid /\ s2[x].kind = ss[x].kind
  /\ r.nspans \in Nat /\ r.segment \in Seq(Nat) /\ CtxOK(r, c, ss)
  /\ r.noop \in BOOLEAN /\ r2.noop = r.noop /\ r2.nspans = r.nspans - 1
  /\ r.noop => r2.archived = r.archived
  /\ ~r.noop => /\ r2.sid = r.sid /\ r2.primary = r.primary
                /\ r2.segment = Append(r.segment, x)
                /\ r2.archived = IF r2.nspans = 0 THEN r.archived + 1 ELSE r.archived

LEMMA CtxStopped ==
  ASSUME NEW c, NEW r, NEW r2, NEW ss, NEW s2, NEW x, Stops(x, c, r, r2, ss, s2)
  PROVE  CtxOK(r2, c, s2)
<1> /\ x \in SpansIn(c, ss) /\ Len(ss) \in Nat /\ SpansIn(c, s2) = SpansIn(c, ss)
    /\ \A s \in SpansIn(c, ss) : s # x => s2[s] = ss[s]
    /\ ss[x].depth = 1 /\ s2[x].depth = 0
    /\ s2[x].sid = ss[x].sid /\ s2[x].pid = ss[x].pid /\ s2[x].kind = ss[x].kind
    /\ r.nspans \in Nat /\ r.segment \in Seq(Nat) /\ CtxOK(r, c, ss)
    /\ r.noop \in BOOLEAN /\ r2.noop = r.noop /\ r2.nspans = r.nspans - 1
    /\ r.noop => r2.archived = r.archived
    /\ ~r.noop => /\ r2.sid = r.sid /\ r2.primary = r.primary
                  /\ r2.segment = Append(r.segment, x)
                  /\ r2.archived = IF r2.nspans = 0 THEN r.archived + 1 ELSE r.archived
  BY DEF Stops
<1>1. OpenIn(c, s2) = OpenIn(c, ss) \ {x} /\ x \in OpenIn(c, ss)
  BY DEF OpenIn
<1>2. Cardinality(OpenIn(c, s2)) = r2.nspans /\ r.nspans # 0
  <2>1. IsFiniteSet(OpenIn(c, ss)) /\ Cardinality(OpenIn(c, ss)) = r.nspans
    BY OpenFacts DEF CtxOK
  <2>2. Cardinality(OpenIn(c, ss) \ {x}) = Cardinality(OpenIn(c, ss)) - 1
    BY <1>1, <2>1, FS_RemoveElement
  <2>3. Cardinality(OpenIn(c, ss)) # 0
    BY <1>1, OpenFacts
  <2> QED BY <1>1, <2>1, <2>2, <2>3
<1>3. ASSUME ~r.noop PROVE TracedOK(r2, c, s2)
  <2>0. TracedOK(r, c, ss)
    BY <1>3 DEF CtxOK
  <2>1. IdsOK(r.sid, c, s2)
    <3>1. \A s \in SpansIn(c, ss) : s2[s].sid = ss[s].sid /\ s2[s].pid = ss[s].pid
      OBVIOUS
    <3> QED BY <2>0, <3>1, IdsKept DEF TracedOK
  <2>2. SegmentOK(r2.segment, c, s2) /\ Len(r2.segment) = Len(r.segment) + 1
    <3>1. PICK q \in Seq(Nat) : q = r.segment
      OBVIOUS
    <3>2. PICK n \in Nat : n = Len(q)
      BY <3>1
    <3>3. PICK q2 : q2 = Append(q, x)
      OBVIOUS
    <3>4. x \in Nat
      BY DEF SpansIn
    <3>5. /\ q2 \in Seq(Nat) /\ Len(q2) = n + 1 /\ q2[n + 1] = x
          /\ \A i \in 1 .. n : q2[i] = q[i]
      BY <3>2, <3>3, <3>4, AppendProperties
    <3>6. /\ \A i \in 1 .. n : q[i] \in SpansIn(c, ss) /\ ss[q[i]].depth = 0
          /\ \A s \in SpansIn(c, ss) : ss[s].depth = 0 => In(s, q, n)
      BY <2>0, <3>1, <3>2 DEF TracedOK, SegmentOK
    <3>7. \A i \in 1 .. n + 1 : q2[i] \in SpansIn(c, s2) /\ s2[q2[i]].depth = 0
      <4> SUFFICES ASSUME NEW i \in 1 .. n + 1
                   PROVE  q2[i] \in SpansIn(c, s2) /\ s2[q2[i]].depth = 0
        OBVIOUS
      <4>1. CASE i = n + 1
        BY <4>1, <3>5
      <4>2. CASE i # n + 1
        <5>1. i \in 1 .. n
          BY <4>2
        <5>2. q[i] \in SpansIn(c, ss) /\ ss[q[i]].depth = 0 /\ q2[i] = q[i]
          BY <5>1, <3>5, <3>6
        <5>3. q[i] # x
          BY <5>2
        <5> QED BY <5>2, <5>3
      <4> QED BY <4>1, <4>2
    <3>8. ASSUME NEW s \in SpansIn(c, s2), s2[s].depth = 0
          PROVE  In(s, q2, n + 1)
      <4>1. CASE s = x
        BY <4>1, <3>5 DEF In
      <4>2. CASE s # x
        <5>1. In(s, q, n)
          BY <4>2, <3>6, <3>8
        <5> QED BY <5>1, <3>5 DEF In
      <4> QED BY <4>1, <4>2
    <3>9. SegmentOK(q2, c, s2)
      BY <3>5, <3>7, <3>8 DEF SegmentOK
    <3> QED BY <1>3, <3>1, <3>2, <3>3, <3>5, <3>9
  <2>3. PrimaryOK(r2.primary, c, s2)
    <3>1. EntriesIn(c, s2) = EntriesIn(c, ss)
      BY DEF EntriesIn
    <3> QED BY <1>3, <2>0, <3>1 DEF TracedOK, PrimaryOK
  <2>4. Len(r2.segment) + r2.nspans = r2.sid
    <3>1. Len(r.segment) + r.nspans = r.sid /\ Len(r.segment) \in Nat
      BY <2>0 DEF TracedOK
    <3>2. PICK n \in Nat : n = Len(r.segment)
      BY <3>1
    <3>3. Len(r2.segment) = n + 1
      BY <2>2, <3>2
    <3>4. PICK k \in Nat : k = r.nspans
      OBVIOUS
    <3>5. n + k = r.sid
      BY <3>1, <3>2, <3>4
    <3>6. (n + 1) + (k - 1) = n + k
      OBVIOUS
    <3>7. r2.nspans = k - 1 /\ r2.sid = r.sid
      BY <1>3, <3>4
    <3> QED BY <3>3, <3>5, <3>6, <3>7
  <2>5. r2.archived = IF r2.nspans = 0 THEN 1 ELSE 0
    BY <1>2, <1>3, <2>0 DEF TracedOK
  <2> QED BY <1>3, <2>1, <2>2, <2>3, <2>4, <2>5 DEF TracedOK
<1> QED BY <1>2, <1>3 DEF CtxOK

(* All contexts when span n + 1 opens in a new one, or in an old one.      *)
LEMMA SpansInOther ==
  ASSUME NEW c, NEW ss, NEW s2, NEW n \in Nat, Len(ss) = n, Len(s2) = n + 1,
         \A s \in 1 .. n : s2[s] = ss[s]
  PROVE  s2[n + 1].ctx # c => SpansIn(c, s2) = SpansIn(c, ss)
<1>1. \A s \in 1 .. n + 1 : s = n + 1 \/ s \in 1 .. n
  OBVIOUS
<1>2. \A s \in 1 .. n : s \in 1 .. n + 1
  OBVIOUS
<1>3. n + 1 \in 1 .. n + 1
  OBVIOUS
<1> QED BY <1>1, <1>2, <1>3 DEF SpansIn

LEMMA CtxsElsewhere ==
  ASSUME NEW c, NEW r, NEW ss, NEW s2, NEW n \in Nat, Len(ss) = n, Len(s2) = n + 1,
         \A s \in 1 .. n : s2[s] = ss[s], s2[n + 1].ctx # c, CtxOK(r, c, ss)
  PROVE  CtxOK(r, c, s2)
<1>1. SpansIn(c, s2) = SpansIn(c, ss)
  BY SpansInOther
<1>2. \A s \in SpansIn(c, ss) : s2[s] = ss[s]
  BY DEF SpansIn
<1> QED BY <1>1, <1>2, CtxKept

LEMMA CtxsFirst ==
  ASSUME NEW ss, NEW cs, NEW s2, NEW c2, NEW n \in Nat, NEW k \in Nat,
         ObjectsOK(ss, cs), Len(ss) = n, Len(cs) = k, Len(s2) = n + 1, Len(c2) = k + 1,
         \A s \in 1 .. n : s2[s] = ss[s], \A c \in 1 .. k : c2[c] = cs[c],
         \A c \in 1 .. k : CtxOK(cs[c], c, ss),
         s2[n + 1].ctx = k + 1, s2[n + 1].depth = 1,
         c2[k + 1].noop \in BOOLEAN, c2[k + 1].nspans = 1, c2[k + 1].archived = 0,
         c2[k + 1].primary = n + 1, c2[k + 1].segment = <<>>,
         ~c2[k + 1].noop => c2[k + 1].sid = 1 /\ s2[n + 1].sid = 0 /\ s2[n + 1].pid = -1
  PROVE  \A c \in 1 .. k + 1 : CtxOK(c2[c], c, s2)
<1> SUFFICES ASSUME NEW c \in 1 .. k + 1 PROVE CtxOK(c2[c], c, s2)
  OBVIOUS
<1>1. CASE c = k + 1
  <2>2. SpansIn(k + 1, s2) = {n + 1}
    <3>1. \A s \in 1 .. n + 1 : s2[s].ctx = k + 1 <=> s = n + 1
      <4> SUFFICES ASSUME NEW s \in 1 .. n + 1 PROVE s2[s].ctx = k + 1 <=> s = n + 1
        OBVIOUS
      <4>1. CASE s # n + 1
        <5>1. s \in 1 .. n
          BY <4>1
        <5>2. ss[s].ctx \in 1 .. k /\ s2[s] = ss[s]
          BY <5>1 DEF ObjectsOK
        <5> QED BY <4>1, <5>2
      <4> QED BY <4>1
    <3> QED BY <3>1 DEF SpansIn
  <2> QED BY <1>1, <2>2, CtxFirst
<1>2. CASE c # k + 1
  <2>1. c \in 1 .. k
    BY <1>2
  <2>2. CtxOK(cs[c], c, ss) /\ c2[c] = cs[c] /\ s2[n + 1].ctx # c
    BY <1>2, <2>1
  <2> QED BY <2>2, CtxsElsewhere
<1> QED BY <1>1, <1>2

(* Span n + 1 joins context j.                                             *)
Adopts(j, n, k, ss, s2, cs, c2) ==
  /\ n \in Nat /\ k \in Nat /\ j \in 1 .. k
  /\ Len(ss) = n /\ Len(cs) = k /\ Len(s2) = n + 1 /\ Len(c2) = k
  /\ \A s \in 1 .. n : s2[s] = ss[s]
  /\ \A c \in 1 .. k : c # j => c2[c] = cs[c]
  /\ s2[n + 1].ctx = j /\ s2[n + 1].depth = 1
  /\ c2[j].noop = cs[j].noop /\ c2[j].nspans = cs[j].nspans + 1
  /\ c2[j].archived = cs[j].archived /\ c2[j].segment = cs[j].segment

AdoptsTraced(j, n, s2, cs, c2) ==
  /\ cs[j].nspans # 0 /\ c2[j].sid = cs[j].sid + 1 /\ s2[n + 1].sid = cs[j].sid
  /\ s2[n + 1].pid \in Int /\ 0 <= s2[n + 1].pid /\ s2[n + 1].pid < cs[j].sid
  /\ c2[j].primary = IF s2[cs[j].primary].kind # "Entry" /\ s2[n + 1].kind = "Entry"
                     THEN n + 1 ELSE cs[j].primary

LEMMA CtxsJoined ==
  ASSUME NEW ss, NEW cs, NEW s2, NEW c2, NEW n, NEW k, NEW j,
         ObjectsOK(ss, cs), Adopts(j, n, k, ss, s2, cs, c2),
         cs[j].noop = TRUE \/ AdoptsTraced(j, n, s2, cs, c2),
         \A c \in 1 .. k : CtxOK(cs[c], c, ss)
  PROVE  \A c \in 1 .. k : CtxOK(c2[c], c, s2)
<1>0. /\ n \in Nat /\ k \in Nat /\ j \in 1 .. k
      /\ Len(ss) = n /\ Len(cs) = k /\ Len(s2) = n + 1 /\ Len(c2) = k
      /\ \A s \in 1 .. n : s2[s] = ss[s]
      /\ \A c \in 1 .. k : c # j => c2[c] = cs[c]
      /\ s2[n + 1].ctx = j /\ s2[n + 1].depth = 1
      /\ c2[j].noop = cs[j].noop /\ c2[j].nspans = cs[j].nspans + 1
      /\ c2[j].archived = cs[j].archived /\ c2[j].segment = cs[j].segment
  BY DEF Adopts
<1> SUFFICES ASSUME NEW c \in 1 .. k PROVE CtxOK(c2[c], c, s2)
  OBVIOUS
<1>1. CASE c = j
  <2>0. /\ n \in Nat /\ Len(ss) = n /\ Len(s2) = n + 1 /\ s2[n + 1].ctx = j
        /\ \A s \in 1 .. n : s2[s] = ss[s]
    BY <1>0
  <2>1. SpansIn(j, s2) = SpansIn(j, ss) \cup {n + 1}
    <3>1. \A s \in 1 .. n + 1 : s = n + 1 \/ s \in 1 .. n
      BY <2>0
    <3>2. (\A s \in 1 .. n : s \in 1 .. n + 1) /\ n + 1 \in 1 .. n + 1
      BY <2>0
    <3> QED BY <2>0, <3>1, <3>2 DEF SpansIn
  <2>2. \A s \in SpansIn(j, ss) : s2[s] = ss[s]
    BY <1>0 DEF SpansIn
  <2>3. cs[j] \in CtxType
    BY <1>0 DEF ObjectsOK
  <2>4. cs[j].nspans \in Nat /\ cs[j].sid \in Nat /\ cs[j].noop \in BOOLEAN
    BY <2>3 DEF CtxType
  <2>5. CtxOK(c2[j], j, s2)
    <3>1. PICK r : r = cs[j]
      OBVIOUS
    <3>2. PICK r2 : r2 = c2[j]
      OBVIOUS
    <3>3. PICK x \in Nat : x = n + 1
      BY <1>0
    <3>4. /\ Len(ss) \in Nat /\ x = Len(ss) + 1 /\ SpansIn(j, s2) = SpansIn(j, ss) \cup {x}
          /\ \A s \in SpansIn(j, ss) : s2[s] = ss[s]
          /\ s2[x].depth = 1
      BY <1>0, <2>1, <2>2, <3>3
    <3>5. /\ r.nspans \in Nat /\ r.sid \in Nat /\ CtxOK(r, j, ss) /\ r.noop \in BOOLEAN
          /\ r2.noop = r.noop /\ r2.nspans = r.nspans + 1 /\ r2.archived = r.archived
          /\ r2.segment = r.segment
      BY <1>0, <2>4, <3>1, <3>2
    <3>6. ~r.noop =>
            /\ r.nspans # 0 /\ r2.sid = r.sid + 1 /\ s2[x].sid = r.sid
            /\ s2[x].pid \in Int /\ 0 <= s2[x].pid /\ s2[x].pid < r.sid
            /\ r2.primary = IF s2[r.primary].kind # "Entry" /\ s2[x].kind = "Entry"
                            THEN x ELSE r.primary
      BY <3>1, <3>2, <3>3 DEF AdoptsTraced
    <3>7. CtxOK(r2, j, s2)
      BY <3>4, <3>5, <3>6, CtxJoined, SMTT(60)
    <3> QED BY <3>2, <3>7
  <2> QED BY <1>1, <2>5
<1>2. CASE c # j
  <2>1. CtxOK(cs[c], c, ss) /\ c2[c] = cs[c] /\ s2[n + 1].ctx # c
    BY <1>0, <1>2
  <2> QED BY <1>0, <2>1, CtxsElsewhere
<1> QED BY <1>1, <1>2

-----------------------------------------------------------------------------
(* Opening and closing with blocks.                                        *)

LEMMA SeqUpdated ==
  ASSUME NEW S, NEW q \in Seq(S), NEW i \in 1 .. Len(q), NEW v \in S
  PROVE  /\ [q EXCEPT ![i] = v] \in Seq(S) /\ Len([q EXCEPT ![i] = v]) = Len(q)
         /\ [q EXCEPT ![i] = v][i] = v
         /\ \A j \in 1 .. Len(q) : j # i => [q EXCEPT ![i] = v][j] = q[j]
OBVIOUS

LEMMA SpanDeepened ==
  ASSUME NEW sp \in SpanType, NEW d \in Nat
  PROVE  LET s2 == [sp EXCEPT !.depth = d]
         IN /\ s2 \in SpanType /\ s2.depth = d
            /\ s2.ctx = sp.ctx /\ s2.sid = sp.sid /\ s2.pid = sp.pid /\ s2.kind = sp.kind
BY DEF SpanType

LEMMA CtxBegun ==
  ASSUME NEW r \in CtxType, NEW s \in Nat, NEW p \in Nat
  PROVE  LET r2 == [r EXCEPT !.nspans = @ + 1, !.primary = p]
         IN /\ r2 \in CtxType /\ r2.nspans = r.nspans + 1 /\ r2.primary = p
            /\ r2.noop = r.noop /\ r2.sid = r.sid /\ r2.segment = r.segment
            /\ r2.archived = r.archived
<1> DEFINE r2 == [r EXCEPT !.nspans = @ + 1, !.primary = p]
<1>1. r \in CtxType /\ r.nspans + 1 \in Nat
  BY DEF CtxType
<1>2. r2 \in CtxType
  BY <1>1 DEF CtxType
<1>3. /\ r2.nspans = r.nspans + 1 /\ r2.primary = p
      /\ r2.noop = r.noop /\ r2.sid = r.sid /\ r2.segment = r.segment
      /\ r2.archived = r.archived
  BY <1>1 DEF CtxType
<1> QED BY <1>2, <1>3

(***************************************************************************)
(* The with block of a new span, number n + 1: new is its record before    *)
(* and cs are the k contexts before it starts.                             *)
(***************************************************************************)
Starts(t, new, n, k, cs) ==
  /\ t \in live /\ new \in SpanType /\ new.depth = 0
  /\ n \in Nat /\ n = Len(spans)
  /\ cs \in Seq(CtxType) /\ k \in Nat /\ k = Len(cs) /\ Len(ctxs) <= k /\ new.ctx \in 1 .. k
  /\ Enter(t, n + 1, Append(spans, new), cs)

Started(new, n, k, ss, s2, cs, c2) ==
  /\ Len(s2) = n + 1 /\ \A s \in 1 .. n : s2[s] = ss[s]
  /\ s2[n + 1].depth = 1 /\ s2[n + 1].ctx = new.ctx
  /\ s2[n + 1].sid = new.sid /\ s2[n + 1].pid = new.pid /\ s2[n + 1].kind = new.kind
  /\ Len(c2) = k /\ \A c \in 1 .. k : c # new.ctx => c2[c] = cs[c]
  /\ c2[new.ctx].noop = cs[new.ctx].noop /\ c2[new.ctx].sid = cs[new.ctx].sid
  /\ c2[new.ctx].segment = cs[new.ctx].segment /\ c2[new.ctx].archived = cs[new.ctx].archived
  /\ c2[new.ctx].nspans = cs[new.ctx].nspans + 1
  /\ c2[new.ctx].primary = IF \/ cs[new.ctx].primary = NoSpan
                              \/ s2[cs[new.ctx].primary].kind # "Entry" /\ new.kind = "Entry"
                           THEN n + 1 ELSE cs[new.ctx].primary

(* A span goes on the stack of t and gets its with block.                  *)
Pushes(t, x) ==
  /\ stack' = [stack EXCEPT ![t] = Append(@, x)]
  /\ blocks' = [blocks EXCEPT ![t] = Append(@, x)]
  /\ mode' = mode /\ live' = live

LEMMA EnterFresh ==
  ASSUME BaseInv, NEW t \in Task, NEW new, NEW n, NEW k, NEW cs, Starts(t, new, n, k, cs)
  PROVE  /\ Started(new, n, k, spans, spans', cs, ctxs') /\ ObjectsOK(spans', ctxs')
         /\ Pushes(t, n + 1)
<1>a. /\ t \in live /\ new \in SpanType /\ new.depth = 0
      /\ n \in Nat /\ n = Len(spans)
      /\ cs \in Seq(CtxType) /\ k \in Nat /\ k = Len(cs) /\ Len(ctxs) <= k /\ new.ctx \in 1 .. k
  BY DEF Starts
<1>b. Enter(t, n + 1, Append(spans, new), cs)
  BY DEF Starts
<1>0. /\ ObjectsOK(spans, ctxs) /\ spans \in Seq(SpanType)
      /\ stack \in [Task -> Seq(Nat)] /\ blocks \in [Task -> Seq(Nat)]
      /\ \A u \in Task : Within(stack[u], Len(stack[u]), n)
  BY <1>a DEF BaseInv, ObjectsOK
<1>A. PICK A : A = Append(spans, new)
  OBVIOUS
<1>1. /\ A \in Seq(SpanType) /\ Len(A) = n + 1 /\ A[n + 1] = new
      /\ \A s \in 1 .. n : A[s] = spans[s]
  BY <1>a, <1>0, <1>A, AppendProperties
<1>2. /\ A[n + 1] = new /\ FirstStart(A[n + 1])
      /\ spans' = [A EXCEPT ![n + 1].depth = @ + 1]
      /\ ctxs' = [cs EXCEPT ![new.ctx] = BeganIn(@, t, n + 1, new.kind)]
      /\ stack' = [stack EXCEPT ![t] = Pushed(t, n + 1)]
      /\ blocks' = [blocks EXCEPT ![t] = Append(@, n + 1)]
      /\ mode' = mode /\ live' = live
  BY <1>a, <1>b, <1>1, <1>A DEF Enter, FirstStart
<1>s2. PICK s2 : s2 = spans'
  OBVIOUS
<1>3. s2 = [A EXCEPT ![n + 1] = [new EXCEPT !.depth = 1]]
  BY <1>a, <1>s2, <1>1, <1>2
<1>4. /\ [new EXCEPT !.depth = 1] \in SpanType
      /\ [new EXCEPT !.depth = 1].depth = 1 /\ [new EXCEPT !.depth = 1].ctx = new.ctx
      /\ [new EXCEPT !.depth = 1].sid = new.sid /\ [new EXCEPT !.depth = 1].pid = new.pid
      /\ [new EXCEPT !.depth = 1].kind = new.kind
  BY <1>a, SpanDeepened
<1>5. /\ s2 \in Seq(SpanType) /\ Len(s2) = n + 1 /\ \A s \in 1 .. n : s2[s] = spans[s]
      /\ s2[n + 1] = [new EXCEPT !.depth = 1]
  <2>1. n + 1 \in 1 .. Len(A) /\ \A s \in 1 .. n : s # n + 1 /\ s \in 1 .. Len(A)
    BY <1>a, <1>1
  <2> QED BY <1>a, <1>1, <1>3, <1>4, <2>1, SeqUpdated
<1>6. /\ s2[n + 1].depth = 1 /\ s2[n + 1].ctx = new.ctx
      /\ s2[n + 1].sid = new.sid /\ s2[n + 1].pid = new.pid /\ s2[n + 1].kind = new.kind
  BY <1>a, <1>4, <1>5
<1>7. \A u \in Task : \A i \in 1 .. Len(stack[u]) : stack[u][i] # n + 1
  BY <1>a, <1>0 DEF Within
<1>8. n + 1 \notin Range(stack[t])
  <2>1. PICK q \in Seq(Nat) : q = stack[t]
    BY <1>a, <1>0
  <2>2. \A i \in 1 .. Len(q) : q[i] # n + 1
    BY <1>a, <1>0, <1>7, <2>1
  <2>3. DOMAIN q = 1 .. Len(q)
    OBVIOUS
  <2> QED BY <1>a, <2>1, <2>2, <2>3 DEF Range
<1>9. /\ stack' = [stack EXCEPT ![t] = Append(@, n + 1)]
      /\ BeganIn(cs[new.ctx], t, n + 1, new.kind) =
           [cs[new.ctx] EXCEPT !.nspans = @ + 1,
                               !.primary = Primary(@, n + 1, new.kind)]
  BY <1>a, <1>0, <1>2, <1>8 DEF Pushed, BeganIn
<1>r. PICK r : r = cs[new.ctx]
  OBVIOUS
<1>p. PICK p : p = IF \/ r.primary = NoSpan
                      \/ s2[r.primary].kind # "Entry" /\ new.kind = "Entry"
                   THEN n + 1 ELSE r.primary
  OBVIOUS
<1>10. r \in CtxType /\ r.primary \in Nat /\ p \in Nat
  <2>1. r \in CtxType
    BY <1>a, <1>r
  <2>2. r.primary \in Nat
    BY <1>a, <2>1 DEF CtxType
  <2> QED BY <1>a, <2>1, <2>2, <1>p
<1>11. Primary(r.primary, n + 1, new.kind) = p
  BY <1>a, <1>s2, <1>p DEF Primary
<1>r2. PICK r2 : r2 = [r EXCEPT !.nspans = @ + 1, !.primary = p]
  OBVIOUS
<1>12. /\ r2 \in CtxType /\ r2.nspans = r.nspans + 1 /\ r2.primary = p
       /\ r2.noop = r.noop /\ r2.sid = r.sid /\ r2.segment = r.segment
       /\ r2.archived = r.archived
  BY <1>a, <1>10, <1>r2, CtxBegun
<1>c2. PICK c2 : c2 = ctxs'
  OBVIOUS
<1>13. c2 = [cs EXCEPT ![new.ctx] = r2]
  BY <1>a, <1>c2, <1>2, <1>9, <1>11, <1>r, <1>r2
<1>14. /\ c2 \in Seq(CtxType) /\ Len(c2) = k /\ c2[new.ctx] = r2
       /\ \A c \in 1 .. k : c # new.ctx => c2[c] = cs[c]
  BY <1>a, <1>12, <1>13, SeqUpdated
<1>15. ObjectsOK(s2, c2)
  <2>1. \A s \in 1 .. n + 1 : s = n + 1 \/ s \in 1 .. n
    BY <1>a
  <2>2. \A s \in 1 .. n : spans[s].ctx \in 1 .. k
    BY <1>a, <1>0 DEF ObjectsOK
  <2> QED BY <1>a, <1>5, <1>6, <1>14, <2>1, <2>2 DEF ObjectsOK
<1> QED
  <2>1. Started(new, n, k, spans, s2, cs, c2)
    BY <1>5, <1>6, <1>12, <1>14, <1>r, <1>p DEF Started
  <2>2. Pushes(t, n + 1)
    BY <1>2, <1>9 DEF Pushes
  <2> QED BY <1>s2, <1>c2, <1>15, <2>1, <2>2

(* Contexts are added one at a time; they keep their kind and give out one *)
(* id at a time.                                                           *)
Grows(cs, c2) ==
  /\ Len(c2) = Len(cs) \/ Len(c2) = Len(cs) + 1
  /\ \A c \in 1 .. Len(cs) :
       c2[c].noop = cs[c].noop /\ (c2[c].sid = cs[c].sid \/ c2[c].sid = cs[c].sid + 1)

LEMMA PeekFacts ==
  ASSUME BaseInv, NEW t \in Task
  PROVE  /\ Peek(t) = NoSpan <=> Len(stack[t]) = 0
         /\ Peek(t) # NoSpan => /\ Peek(t) = stack[t][Len(stack[t])]
                                /\ Peek(t) \in 1 .. Len(spans)
                                /\ spans[Peek(t)] \in SpanType
                                /\ spans[Peek(t)].ctx \in 1 .. Len(ctxs)
                                /\ ctxs[spans[Peek(t)].ctx] \in CtxType
<1>1. PICK q \in Seq(Nat) : q = stack[t]
  BY DEF BaseInv
<1>2. q = <<>> <=> Len(q) = 0
  OBVIOUS
<1>3. \A i \in 1 .. Len(q) : q[i] \in 1 .. Len(spans)
  BY <1>1 DEF BaseInv, Within
<1>4. Len(spans) \in Nat /\ spans \in Seq(SpanType) /\ ctxs \in Seq(CtxType)
      /\ \A s \in 1 .. Len(spans) : spans[s].ctx \in 1 .. Len(ctxs)
  BY DEF BaseInv, ObjectsOK
<1>5. Len(q) # 0 => /\ Peek(t) = q[Len(q)] /\ q[Len(q)] \in 1 .. Len(spans)
                    /\ Peek(t) # NoSpan
  BY <1>1, <1>2, <1>3, <1>4 DEF Peek, Last, NoSpan
<1>6. Len(q) = 0 => Peek(t) = NoSpan
  BY <1>1, <1>2 DEF Peek
<1> QED BY <1>1, <1>4, <1>5, <1>6

LEMMA StackBase ==
  ASSUME SpanInv
  PROVE  BaseInv
BY DEF SpanInv, StackInv, StackOK, StackAt, BaseInv

(* Task t has opened a new span.                                           *)
Opens(t) ==
  /\ t \in live /\ Pushes(t, Len(spans) + 1)
  /\ Len(spans') = Len(spans) + 1 /\ \A s \in 1 .. Len(spans) : spans'[s] = spans[s]
  /\ spans'[Len(spans) + 1].depth = 1
  /\ ObjectsOK(spans', ctxs') /\ CtxInv' /\ Grows(ctxs, ctxs')

(* Whether it is a NoopSpan.                                               *)
OpensIn(t, dark) ==
  Opens(t) /\ ctxs'[spans'[Len(spans) + 1].ctx].noop = dark

LEMMA OpensDark ==
  ASSUME BaseInv, NEW t \in Task, OpenDark(t)
  PROVE  OpensIn(t, TRUE)
<1>0. /\ t \in live /\ CtxInv /\ ObjectsOK(spans, ctxs)
      /\ spans \in Seq(SpanType) /\ ctxs \in Seq(CtxType)
  BY DEF BaseInv, ObjectsOK, OpenDark, MayOpen
<1>1. PICK n \in Nat, k \in Nat : n = Len(spans) /\ k = Len(ctxs)
  BY <1>0
<1>2. PICK new : new = NewSpan(k + 1, -1, -1, "Local", NoSpan)
  OBVIOUS
<1>3. new \in SpanType /\ new.depth = 0 /\ new.ctx = k + 1
  BY <1>2 DEF NewSpan, SpanType, Kind, NoSpan
<1>4. PICK r : r = NewContext(TRUE)
  OBVIOUS
<1>5. /\ r \in CtxType /\ r.noop = TRUE /\ r.nspans = 0 /\ r.archived = 0
      /\ r.primary = NoSpan /\ r.segment = <<>>
  BY <1>4 DEF NewContext, CtxType, NoSpan
<1>6. PICK cs : cs = Append(ctxs, r)
  OBVIOUS
<1>7. /\ cs \in Seq(CtxType) /\ Len(cs) = k + 1 /\ cs[k + 1] = r
      /\ \A c \in 1 .. k : cs[c] = ctxs[c]
  BY <1>0, <1>1, <1>5, <1>6, AppendProperties
<1>8. Enter(t, n + 1, Append(spans, new), cs)
  BY <1>1, <1>2, <1>4, <1>6 DEF OpenDark
<1>9. k + 1 \in Nat /\ Len(ctxs) <= k + 1 /\ new.ctx \in 1 .. k + 1
  BY <1>1, <1>3
<1>10. /\ Pushes(t, n + 1) /\ ObjectsOK(spans', ctxs')
       /\ Len(spans') = n + 1 /\ \A s \in 1 .. n : spans'[s] = spans[s]
       /\ spans'[n + 1].depth = 1 /\ spans'[n + 1].ctx = k + 1
       /\ Len(ctxs') = k + 1 /\ \A c \in 1 .. k + 1 : c # k + 1 => ctxs'[c] = cs[c]
       /\ ctxs'[k + 1].noop = TRUE /\ ctxs'[k + 1].segment = <<>>
       /\ ctxs'[k + 1].archived = 0 /\ ctxs'[k + 1].nspans = 0 + 1
       /\ ctxs'[k + 1].primary = n + 1
  <2>1. Starts(t, new, n, k + 1, cs)
    BY <1>0, <1>1, <1>3, <1>7, <1>8, <1>9 DEF Starts
  <2>2. /\ Started(new, n, k + 1, spans, spans', cs, ctxs')
        /\ Pushes(t, n + 1) /\ ObjectsOK(spans', ctxs')
    BY <1>0, <2>1, EnterFresh
  <2>3. /\ new.ctx = k + 1 /\ cs[new.ctx].noop = TRUE /\ cs[new.ctx].nspans = 0
        /\ cs[new.ctx].archived = 0 /\ cs[new.ctx].primary = NoSpan /\ cs[new.ctx].segment = <<>>
    BY <1>3, <1>5, <1>7
  <2> QED BY <2>2, <2>3 DEF Started
<1>11. PICK s2, c2, ss, c1 : s2 = spans' /\ c2 = ctxs' /\ ss = spans /\ c1 = ctxs
  OBVIOUS
<1>12. /\ ObjectsOK(ss, c1) /\ Len(ss) = n /\ Len(c1) = k /\ Len(s2) = n + 1 /\ Len(c2) = k + 1
       /\ \A c \in 1 .. k : CtxOK(c1[c], c, ss)
       /\ \A s \in 1 .. n : s2[s] = ss[s]
  BY <1>0, <1>1, <1>10, <1>11 DEF CtxInv, CtxNo
<1>13. \A c \in 1 .. k : c2[c] = c1[c]
  BY <1>7, <1>10, <1>11
<1>14. /\ s2[n + 1].ctx = k + 1 /\ s2[n + 1].depth = 1
       /\ c2[k + 1].noop = TRUE /\ c2[k + 1].nspans = 1 /\ c2[k + 1].archived = 0
       /\ c2[k + 1].primary = n + 1 /\ c2[k + 1].segment = <<>>
  BY <1>10, <1>11
<1>15. \A c \in 1 .. k + 1 : CtxOK(c2[c], c, s2)
  BY <1>12, <1>13, <1>14, CtxsFirst
<1>16. CtxInv'
  BY <1>11, <1>12, <1>15 DEF CtxInv, CtxNo
<1>17. Grows(c1, c2)
  BY <1>12, <1>13 DEF Grows
<1>18. Opens(t)
  BY <1>0, <1>1, <1>10, <1>11, <1>16, <1>17 DEF Opens
<1> QED BY <1>1, <1>10, <1>18 DEF OpensIn

(* A context with an open span counts it.                                  *)
LEMMA CtxOpen ==
  ASSUME NEW r, NEW c, NEW ss, Len(ss) \in Nat, NEW x \in SpansIn(c, ss), ss[x].depth # 0,
         CtxOK(r, c, ss)
  PROVE  r.nspans # 0
<1>1. x \in OpenIn(c, ss)
  BY DEF OpenIn
<1> QED BY <1>1, OpenFacts DEF CtxOK

LEMMA OpensNoop ==
  ASSUME BaseInv, NEW t \in Task, OpenNoop(t)
  PROVE  OpensIn(t, TRUE)
<1>0. /\ t \in live /\ CtxInv /\ ObjectsOK(spans, ctxs)
      /\ spans \in Seq(SpanType) /\ ctxs \in Seq(CtxType)
  BY DEF BaseInv, ObjectsOK, OpenNoop, MayOpen
<1>1. PICK n \in Nat, k \in Nat : n = Len(spans) /\ k = Len(ctxs)
  BY <1>0
<1>2. Peek(t) # NoSpan /\ ctxs[spans[Peek(t)].ctx].noop # FALSE
  BY DEF OpenNoop, Traced
<1>3. PICK j \in 1 .. k : j = spans[Peek(t)].ctx
  BY <1>0, <1>1, <1>2, PeekFacts
<1>4. ctxs[j] \in CtxType /\ ctxs[j].noop = TRUE
  <2>1. ctxs[j] \in CtxType
    BY <1>0, <1>1
  <2>2. ctxs[j].noop \in BOOLEAN
    BY <2>1 DEF CtxType
  <2> QED BY <1>2, <1>3, <2>1, <2>2
<1>5. PICK new : new = NewSpan(j, -1, -1, "Local", NoSpan)
  OBVIOUS
<1>6. new \in SpanType /\ new.depth = 0 /\ new.ctx = j
  BY <1>5 DEF NewSpan, SpanType, Kind, NoSpan
<1>7. Enter(t, n + 1, Append(spans, new), ctxs)
  BY <1>1, <1>3, <1>5 DEF OpenNoop
<1>8. Len(ctxs) <= k
  BY <1>1
<1>9. /\ Pushes(t, n + 1) /\ ObjectsOK(spans', ctxs')
      /\ Len(spans') = n + 1 /\ \A s \in 1 .. n : spans'[s] = spans[s]
      /\ spans'[n + 1].depth = 1 /\ spans'[n + 1].ctx = j
      /\ Len(ctxs') = k /\ \A c \in 1 .. k : c # j => ctxs'[c] = ctxs[c]
      /\ ctxs'[j].noop = ctxs[j].noop /\ ctxs'[j].sid = ctxs[j].sid
      /\ ctxs'[j].segment = ctxs[j].segment
      /\ ctxs'[j].archived = ctxs[j].archived /\ ctxs'[j].nspans = ctxs[j].nspans + 1
  <2>1. Starts(t, new, n, k, ctxs)
    BY <1>0, <1>1, <1>6, <1>7, <1>8 DEF Starts
  <2>2. /\ Started(new, n, k, spans, spans', ctxs, ctxs')
        /\ Pushes(t, n + 1) /\ ObjectsOK(spans', ctxs')
    BY <1>0, <2>1, EnterFresh
  <2> QED BY <1>6, <2>2 DEF Started
<1>10. PICK s2, c2, ss, cs : s2 = spans' /\ c2 = ctxs' /\ ss = spans /\ cs = ctxs
  OBVIOUS
<1>11. /\ ObjectsOK(ss, cs) /\ Len(ss) = n /\ Len(cs) = k /\ Len(s2) = n + 1 /\ Len(c2) = k
       /\ \A c \in 1 .. k : CtxOK(cs[c], c, ss)
       /\ \A s \in 1 .. n : s2[s] = ss[s]
  BY <1>0, <1>1, <1>9, <1>10 DEF CtxInv, CtxNo
<1>12. /\ \A c \in 1 .. k : c # j => c2[c] = cs[c]
       /\ s2[n + 1].ctx = j /\ s2[n + 1].depth = 1
       /\ c2[j].noop = cs[j].noop /\ c2[j].nspans = cs[j].nspans + 1
       /\ c2[j].archived = cs[j].archived /\ c2[j].segment = cs[j].segment
       /\ cs[j].noop = TRUE
  BY <1>4, <1>9, <1>10
<1>13. Adopts(j, n, k, ss, s2, cs, c2)
  BY <1>11, <1>12 DEF Adopts
<1>14. \A c \in 1 .. k : CtxOK(c2[c], c, s2)
  BY <1>11, <1>12, <1>13, CtxsJoined
<1>15. CtxInv'
  BY <1>10, <1>11, <1>14 DEF CtxInv, CtxNo
<1>16. Grows(cs, c2)
  <2>1. c2[j].sid = cs[j].sid
    BY <1>9, <1>10
  <2> QED BY <1>11, <1>12, <2>1 DEF Grows
<1>17. Opens(t)
  BY <1>0, <1>1, <1>9, <1>10, <1>15, <1>16 DEF Opens
<1> QED BY <1>1, <1>4, <1>9, <1>17 DEF OpensIn

(* new_span with a context of its own, at the top or below a finished      *)
(* parent.                                                                 *)
LEMMA OpensFirst ==
  ASSUME BaseInv, NEW t \in Task, NEW kind \in Kind, OpenNew(t, kind),
         Peek(t) = NoSpan \/ Finished(Peek(t))
  PROVE  OpensIn(t, FALSE)
<1>0. /\ t \in live /\ CtxInv /\ ObjectsOK(spans, ctxs)
      /\ spans \in Seq(SpanType) /\ ctxs \in Seq(CtxType)
  BY DEF BaseInv, ObjectsOK, OpenNew, MayOpen
<1>1. PICK n \in Nat, k \in Nat : n = Len(spans) /\ k = Len(ctxs)
  BY <1>0
<1>2. PICK ref \in Nat : ref = IF Finished(Peek(t)) THEN Peek(t) ELSE NoSpan
  BY <1>0, <1>1, PeekFacts DEF NoSpan
<1>3. PICK new : new = NewSpan(k + 1, 0, -1, kind, ref)
  OBVIOUS
<1>4. new \in SpanType /\ new.depth = 0 /\ new.ctx = k + 1 /\ new.sid = 0 /\ new.pid = -1
  BY <1>3 DEF NewSpan, SpanType
<1>5. PICK new0 : new0 = NewContext(FALSE)
  OBVIOUS
<1>6. /\ new0 \in CtxType /\ new0.noop = FALSE /\ new0.nspans = 0 /\ new0.archived = 0
      /\ new0.sid = 0 /\ new0.primary = NoSpan /\ new0.segment = <<>>
  BY <1>5 DEF NewContext, CtxType, NoSpan
<1>7. PICK r : r = [new0 EXCEPT !.sid = new0.sid + 1]
  OBVIOUS
<1>8. /\ r \in CtxType /\ r.noop = FALSE /\ r.nspans = 0 /\ r.archived = 0 /\ r.sid = 1
      /\ r.primary = NoSpan /\ r.segment = <<>>
  <2>1. r \in CtxType
    BY <1>6, <1>7 DEF CtxType
  <2> QED BY <1>6, <1>7, <2>1 DEF CtxType
<1>9a. PICK A : A = Append(ctxs, new0)
  OBVIOUS
<1>9. /\ A \in Seq(CtxType) /\ Len(A) = k + 1 /\ A[k + 1] = new0
      /\ \A c \in 1 .. k : A[c] = ctxs[c]
  BY <1>0, <1>1, <1>6, <1>9a, AppendProperties
<1>10. PICK cs : cs = [A EXCEPT ![k + 1] = r]
  OBVIOUS
<1>11. /\ cs \in Seq(CtxType) /\ Len(cs) = k + 1 /\ cs[k + 1] = r
       /\ \A c \in 1 .. k : cs[c] = ctxs[c]
  <2>1. k + 1 \in 1 .. Len(A) /\ \A c \in 1 .. k : c # k + 1 /\ c \in 1 .. Len(A)
    BY <1>9
  <2> QED BY <1>8, <1>9, <1>10, <2>1, SeqUpdated
<1>12. [A EXCEPT ![k + 1].sid = @ + 1] = cs
  <2>1. [A[k + 1] EXCEPT !.sid = A[k + 1].sid + 1] = r
    BY <1>7, <1>9
  <2> QED BY <1>9, <1>10, <2>1
<1>13. Enter(t, n + 1, Append(spans, new), cs)
  <2>1. ParentId(Peek(t)) = -1 /\ A[Len(A)].sid = 0 /\ Len(A) = k + 1
    BY <1>6, <1>9 DEF ParentId
  <2>2. NewSpan(Len(A), A[Len(A)].sid, ParentId(Peek(t)), kind,
                IF Finished(Peek(t)) THEN Peek(t) ELSE NoSpan) = new
    BY <1>2, <1>3, <2>1
  <2>3. Enter(t, Len(spans) + 1,
              Append(spans, NewSpan(Len(A), A[Len(A)].sid, ParentId(Peek(t)), kind,
                                    IF Finished(Peek(t)) THEN Peek(t) ELSE NoSpan)),
              [A EXCEPT ![Len(A)].sid = @ + 1])
    BY <1>5, <1>9a DEF OpenNew
  <2> QED BY <1>1, <1>12, <2>1, <2>2, <2>3
<1>14. k + 1 \in Nat /\ Len(ctxs) <= k + 1 /\ new.ctx \in 1 .. k + 1
  BY <1>1, <1>4
<1>15. Starts(t, new, n, k + 1, cs)
  BY <1>0, <1>1, <1>4, <1>11, <1>13, <1>14 DEF Starts
<1>16. /\ Started(new, n, k + 1, spans, spans', cs, ctxs')
       /\ Pushes(t, n + 1) /\ ObjectsOK(spans', ctxs')
  BY <1>0, <1>15, EnterFresh
<1>17. PICK s2, c2, ss, c1 : s2 = spans' /\ c2 = ctxs' /\ ss = spans /\ c1 = ctxs
  OBVIOUS
<1>18. Started(new, n, k + 1, ss, s2, cs, c2)
  BY <1>16, <1>17
<1>19. /\ ObjectsOK(ss, c1) /\ Len(ss) = n /\ Len(c1) = k /\ Len(s2) = n + 1 /\ Len(c2) = k + 1
       /\ \A c \in 1 .. k : CtxOK(c1[c], c, ss)
       /\ \A s \in 1 .. n : s2[s] = ss[s]
  BY <1>0, <1>1, <1>17, <1>18 DEF CtxInv, CtxNo, Started
<1>20. \A c \in 1 .. k : c2[c] = c1[c]
  BY <1>4, <1>11, <1>17, <1>18 DEF Started
<1>21. /\ s2[n + 1].ctx = k + 1 /\ s2[n + 1].depth = 1 /\ s2[n + 1].sid = 0 /\ s2[n + 1].pid = -1
       /\ c2[k + 1].noop = FALSE /\ c2[k + 1].nspans = 1 /\ c2[k + 1].archived = 0
       /\ c2[k + 1].primary = n + 1 /\ c2[k + 1].segment = <<>> /\ c2[k + 1].sid = 1
  BY <1>4, <1>8, <1>11, <1>18 DEF Started
<1>22. \A c \in 1 .. k + 1 : CtxOK(c2[c], c, s2)
  BY <1>19, <1>20, <1>21, CtxsFirst
<1>23. CtxInv'
  BY <1>17, <1>19, <1>22 DEF CtxInv, CtxNo
<1>24. Grows(c1, c2)
  BY <1>19, <1>20 DEF Grows
<1>25. Opens(t)
  BY <1>0, <1>1, <1>16, <1>17, <1>19, <1>21, <1>23, <1>24 DEF Opens
<1> QED BY <1>1, <1>17, <1>21, <1>25 DEF OpensIn

(* new_span in the context of its parent.                                  *)
LEMMA OpensBelow ==
  ASSUME BaseInv, NEW t \in Task, NEW kind \in Kind, OpenNew(t, kind),
         ~(Peek(t) = NoSpan \/ Finished(Peek(t)))
  PROVE  OpensIn(t, FALSE)
<1>0. /\ t \in live /\ CtxInv /\ ObjectsOK(spans, ctxs)
      /\ spans \in Seq(SpanType) /\ ctxs \in Seq(CtxType)
  BY DEF BaseInv, ObjectsOK, OpenNew, MayOpen
<1>1. PICK n \in Nat, k \in Nat : n = Len(spans) /\ k = Len(ctxs)
  BY <1>0
<1>2. PICK p \in 1 .. n : p = Peek(t)
  BY <1>0, <1>1, PeekFacts
<1>3. PICK j \in 1 .. k : j = spans[p].ctx
  BY <1>0, <1>1, <1>2 DEF ObjectsOK
<1>4. PICK r : r = ctxs[j]
  OBVIOUS
<1>5. r \in CtxType /\ r.noop \in BOOLEAN /\ r.sid \in Nat /\ r.nspans \in Nat /\ r.primary \in Nat
  <2>1. r \in CtxType
    BY <1>0, <1>1, <1>4
  <2> QED BY <2>1 DEF CtxType
<1>6. r.noop = FALSE
  BY <1>2, <1>3, <1>4, <1>5 DEF OpenNew, Traced
<1>7. spans[p].depth # 0 /\ spans[p] \in SpanType /\ spans[p].sid \in Int
  <2>1. spans[p] \in SpanType
    BY <1>0, <1>1
  <2> QED BY <1>2, <2>1 DEF Finished, SpanType
<1>8. p \in SpansIn(j, spans) /\ CtxOK(r, j, spans)
  BY <1>0, <1>1, <1>3, <1>4 DEF SpansIn, CtxInv, CtxNo
<1>9. r.nspans # 0
  BY <1>0, <1>7, <1>8, CtxOpen
<1>10. /\ spans[p].sid \in 0 .. r.sid - 1
       /\ r.primary # NoSpan
  BY <1>6, <1>8 DEF CtxOK, TracedOK, IdsOK, PrimaryOK, SpansIn, NoSpan
<1>11. PICK new : new = NewSpan(j, r.sid, spans[p].sid, kind, NoSpan)
  OBVIOUS
<1>12. /\ new \in SpanType /\ new.depth = 0 /\ new.ctx = j
       /\ new.sid = r.sid /\ new.pid = spans[p].sid
  BY <1>5, <1>7, <1>11 DEF NewSpan, SpanType, NoSpan
<1>13. PICK r1 : r1 = [r EXCEPT !.sid = r.sid + 1]
  OBVIOUS
<1>14. r1 \in CtxType
  BY SMTT(30), <1>5, <1>13 DEF CtxType
<1>15. /\ r1.noop = r.noop /\ r1.nspans = r.nspans /\ r1.archived = r.archived
       /\ r1.primary = r.primary /\ r1.segment = r.segment /\ r1.sid = r.sid + 1
  BY <1>5, <1>13 DEF CtxType
<1>16. PICK cs : cs = [ctxs EXCEPT ![j] = r1]
  OBVIOUS
<1>17. /\ cs \in Seq(CtxType) /\ Len(cs) = k /\ cs[j] = r1
       /\ \A c \in 1 .. k : c # j => cs[c] = ctxs[c]
  BY <1>0, <1>1, <1>14, <1>16, SeqUpdated
<1>18. Enter(t, n + 1, Append(spans, new), cs)
  <2>1. ParentId(p) = spans[p].sid
    BY <1>2 DEF ParentId
  <2>2. NewSpan(j, ctxs[j].sid, ParentId(p), kind, NoSpan) = new
    BY <1>4, <1>11, <2>1
  <2>3. [ctxs EXCEPT ![j].sid = @ + 1] = cs
    BY <1>0, <1>1, <1>4, <1>13, <1>16
  <2>4. Enter(t, Len(spans) + 1, Append(spans, NewSpan(j, ctxs[j].sid, ParentId(p), kind, NoSpan)),
              [ctxs EXCEPT ![j].sid = @ + 1])
    BY <1>2, <1>3 DEF OpenNew
  <2> QED BY <1>1, <2>2, <2>3, <2>4
<1>19. Starts(t, new, n, k, cs)
  BY <1>0, <1>1, <1>12, <1>17, <1>18 DEF Starts
<1>20. /\ Started(new, n, k, spans, spans', cs, ctxs')
       /\ Pushes(t, n + 1) /\ ObjectsOK(spans', ctxs')
  BY <1>0, <1>19, EnterFresh
<1>21. PICK s2, c2, ss, c1 : s2 = spans' /\ c2 = ctxs' /\ ss = spans /\ c1 = ctxs
  OBVIOUS
<1>22. Started(new, n, k, ss, s2, cs, c2)
  BY <1>20, <1>21
<1>23. Adopts(j, n, k, ss, s2, c1, c2)
  BY <1>1, <1>4, <1>12, <1>15, <1>17, <1>21, <1>22 DEF Started, Adopts
<1>24. AdoptsTraced(j, n, s2, c1, c2)
  <2>1. /\ s2[n + 1].sid = r.sid /\ s2[n + 1].pid = spans[p].sid /\ s2[n + 1].kind = new.kind
        /\ c2[j].sid = r.sid + 1 /\ c1[j] = r
        /\ c2[j].primary = IF \/ r.primary = NoSpan
                              \/ s2[r.primary].kind # "Entry" /\ new.kind = "Entry"
                           THEN n + 1 ELSE r.primary
    BY <1>4, <1>12, <1>15, <1>17, <1>21, <1>22 DEF Started
  <2>2. /\ s2[n + 1].pid \in Int /\ 0 <= s2[n + 1].pid /\ s2[n + 1].pid < r.sid
    BY <1>5, <1>10, <2>1
  <2> QED BY <1>9, <1>10, <2>1, <2>2 DEF AdoptsTraced
<1>25. ObjectsOK(ss, c1) /\ \A c \in 1 .. k : CtxOK(c1[c], c, ss)
  BY <1>0, <1>1, <1>21 DEF CtxInv, CtxNo
<1>26. \A c \in 1 .. k : CtxOK(c2[c], c, s2)
  BY <1>23, <1>24, <1>25, CtxsJoined
<1>27. Len(c2) = k
  BY <1>22 DEF Started
<1>28. CtxInv'
  BY <1>21, <1>26, <1>27 DEF CtxInv, CtxNo
<1>29. Grows(c1, c2)
  BY <1>23, <1>24 DEF Grows, Adopts, AdoptsTraced
<1>30. /\ Len(s2) = n + 1 /\ \A s \in 1 .. n : s2[s] = ss[s]
       /\ s2[n + 1].depth = 1 /\ s2[n + 1].ctx = j /\ c2[j].noop = FALSE
  BY <1>4, <1>6, <1>21, <1>23 DEF Adopts
<1>31. Opens(t)
  BY <1>0, <1>1, <1>20, <1>21, <1>28, <1>29, <1>30 DEF Opens
<1> QED BY <1>1, <1>21, <1>30, <1>31 DEF OpensIn

(* The stacks after that.                                                  *)
LEMMA StackGrows ==
  ASSUME SpanInv, NEW t \in Task, Opens(t)
  PROVE  SpanInv' /\ Grows(ctxs, ctxs')
<1>0. PICK s2 : s2 = spans'
  OBVIOUS
<1>1. PICK n \in Nat : n = Len(spans)
  BY DEF SpanInv, StackInv, ObjectsOK
<1>2. /\ mode \in {"sync", "async"} /\ live \in SUBSET Task
      /\ stack \in [Task -> Seq(Nat)] /\ blocks \in [Task -> Seq(Nat)]
      /\ \A u \in Task : /\ StackOK(blocks[u], stack[u], n, mode)
                         /\ u \notin live => blocks[u] = <<>>
      /\ DepthsOK(blocks, spans)
  BY <1>1 DEF SpanInv, StackInv
<1>3. /\ t \in live /\ Len(s2) = n + 1 /\ \A s \in 1 .. n : s2[s] = spans[s]
      /\ s2[n + 1].depth = 1 /\ ObjectsOK(spans', ctxs')
  BY <1>0, <1>1 DEF Opens
<1>4. /\ stack' = [stack EXCEPT ![t] = Append(@, n + 1)]
      /\ blocks' = [blocks EXCEPT ![t] = Append(@, n + 1)]
      /\ mode' = mode /\ live' = live
  BY <1>1 DEF Opens, Pushes
<1>5. Append(blocks[t], n + 1) \in Seq(Nat) /\ Append(stack[t], n + 1) \in Seq(Nat)
  BY <1>2, AppendProperties
<1>6. stack' \in [Task -> Seq(Nat)] /\ blocks' \in [Task -> Seq(Nat)]
  BY <1>2, <1>4, <1>5
<1>7. ASSUME NEW u \in Task
      PROVE  StackOK(blocks'[u], stack'[u], n + 1, mode)
  <2>1. CASE u = t
    <3>1. blocks'[t] = Append(blocks[t], n + 1) /\ stack'[t] = Append(stack[t], n + 1)
      BY <1>2, <1>4
    <3> QED BY <1>2, <2>1, <3>1, StackPushed
  <2>2. CASE u # t
    <3>1. blocks'[u] = blocks[u] /\ stack'[u] = stack[u]
      BY <1>2, <1>4, <2>2
    <3> QED BY <1>2, <3>1, StackKept
  <2> QED BY <2>1, <2>2
<1>8. \A u \in Task : u \notin live => blocks'[u] = <<>>
  BY <1>2, <1>3, <1>4
<1>9. DepthsOK(blocks', s2)
  <2>1. ASSUME NEW u \in Task
        PROVE  Cardinality(Uses(blocks[u], n + 1)) = 0 /\ ~Opened(n + 1, blocks[u])
    <3>1. \A i \in 1 .. Len(blocks[u]) : blocks[u][i] # n + 1
      BY <1>2 DEF StackOK, StackAt, Within
    <3>2. ~Opened(n + 1, blocks[u])
      BY <3>1 DEF Opened, In
    <3> QED BY <1>2, <3>2, UsesFacts
  <2>2. \A s \in 1 .. n + 1 : s # n + 1 => s \in 1 .. n /\ s2[s].depth = spans[s].depth
    BY <1>3
  <2>3. n + 1 \in 1 .. n + 1 /\ n + 1 \in Nat
    BY <1>1
  <2>4. s2[n + 1].depth = Cardinality(Uses(blocks[t], n + 1)) + 1
    BY <1>3, <2>1
  <2>5. PICK ss, bn : ss = spans /\ bn = blocks'
    OBVIOUS
  <2>6. PICK x \in Nat, bl \in [Task -> Seq(Nat)] : x = n + 1 /\ bl = blocks
    BY <1>2
  <2>7. /\ x \in 1 .. Len(s2)
        /\ \A s \in 1 .. Len(s2) : s # x => s \in 1 .. Len(ss) /\ s2[s].depth = ss[s].depth
        /\ s2[x].depth = Cardinality(Uses(bl[t], x)) + 1
        /\ \A u \in Task : Opened(x, bl[u]) => u = t
        /\ DepthsOK(bl, ss)
    BY <1>1, <1>2, <1>3, <2>1, <2>2, <2>3, <2>4, <2>5, <2>6
  <2>8. bn[t] = Append(bl[t], x) /\ \A u \in Task : u # t => bn[u] = bl[u]
    BY <1>2, <1>4, <2>5, <2>6
  <2>9. EntersBlock(t, x, bl, bn, ss, s2)
    BY <2>7, <2>8 DEF EntersBlock
  <2> QED BY <2>5, <2>7, <2>9, DepthsEntered
<1>10. StackInv'
  BY <1>0, <1>1, <1>2, <1>3, <1>4, <1>6, <1>7, <1>8, <1>9 DEF StackInv
<1> QED BY <1>10 DEF SpanInv, Opens

(* The depth of span x changes, and nothing else of any span.              *)
Touches(x, d, ss, s2) ==
  /\ s2 \in Seq(SpanType) /\ Len(s2) = Len(ss) /\ \A s \in 1 .. Len(ss) : s # x => s2[s] = ss[s]
  /\ s2[x].ctx = ss[x].ctx /\ s2[x].sid = ss[x].sid /\ s2[x].pid = ss[x].pid
  /\ s2[x].kind = ss[x].kind /\ s2[x].depth = d

LEMMA Touched ==
  ASSUME NEW ss \in Seq(SpanType), NEW x \in 1 .. Len(ss), NEW d \in Nat
  PROVE  Touches(x, d, ss, [ss EXCEPT ![x] = [ss[x] EXCEPT !.depth = d]])
<1>1. PICK sp : sp = [ss[x] EXCEPT !.depth = d]
  OBVIOUS
<1>2. /\ sp \in SpanType /\ sp.depth = d
      /\ sp.ctx = ss[x].ctx /\ sp.sid = ss[x].sid /\ sp.pid = ss[x].pid /\ sp.kind = ss[x].kind
  BY <1>1, SpanDeepened
<1> QED BY <1>1, <1>2, SeqUpdated DEF Touches

LEMMA SpansInTouched ==
  ASSUME NEW ss, NEW s2, NEW x, NEW d, Touches(x, d, ss, s2), NEW c
  PROVE  SpansIn(c, s2) = SpansIn(c, ss)
BY DEF Touches, SpansIn

LEMMA CtxTouched ==
  ASSUME NEW ss, NEW s2, NEW x, NEW d, Touches(x, d, ss, s2), NEW c, NEW r,
         ss[x].ctx # c \/ (d = 0 <=> ss[x].depth = 0), CtxOK(r, c, ss)
  PROVE  CtxOK(r, c, s2)
<1>1. SpansIn(c, s2) = SpansIn(c, ss)
  BY SpansInTouched
<1>2. ASSUME NEW s \in SpansIn(c, ss)
      PROVE  /\ s2[s].sid = ss[s].sid /\ s2[s].pid = ss[s].pid /\ s2[s].kind = ss[s].kind
             /\ s2[s].depth = 0 <=> ss[s].depth = 0
  <2>1. CASE s = x
    BY <2>1 DEF SpansIn, Touches
  <2>2. CASE s # x
    <3>1. s2[s] = ss[s]
      BY <2>2 DEF SpansIn, Touches
    <3> QED BY <3>1
  <2> QED BY <2>1, <2>2
<1> QED BY <1>1, <1>2, CtxKept

(* Task t enters another with block of span x, which is open.              *)
Reenters(t, x) ==
  /\ x \in 1 .. Len(spans) /\ Touches(x, spans[x].depth + 1, spans, spans')
  /\ blocks' = [blocks EXCEPT ![t] = Append(@, x)]
  /\ ctxs' = ctxs /\ stack' = stack /\ mode' = mode /\ live' = live
  /\ ObjectsOK(spans', ctxs') /\ CtxInv'

LEMMA SpanReentered ==
  ASSUME BaseInv, NEW t \in Task, NEW x \in 1 .. Len(spans), spans[x].depth # 0,
         Enter(t, x, spans, ctxs)
  PROVE  Reenters(t, x)
<1>0. CtxInv /\ ObjectsOK(spans, ctxs) /\ spans \in Seq(SpanType)
  BY DEF BaseInv, ObjectsOK
<1>1. /\ spans' = [spans EXCEPT ![x].depth = @ + 1]
      /\ ctxs' = ctxs /\ stack' = stack
      /\ blocks' = [blocks EXCEPT ![t] = Append(@, x)]
      /\ mode' = mode /\ live' = live
  BY DEF Enter, FirstStart
<1>2. PICK ss, s2 : ss = spans /\ s2 = spans'
  OBVIOUS
<1>3. ss \in Seq(SpanType) /\ x \in 1 .. Len(ss)
  BY <1>0, <1>2
<1>4. ss[x].depth \in Nat
  <2>1. ss[x] \in SpanType
    BY <1>3
  <2> QED BY <2>1 DEF SpanType
<1>5. PICK e \in Nat : e = ss[x].depth + 1
  BY <1>4
<1>6. Touches(x, e, ss, s2)
  <2>1. s2 = [ss EXCEPT ![x] = [ss[x] EXCEPT !.depth = e]]
    BY <1>1, <1>2, <1>3, <1>5
  <2>2. Touches(x, e, ss, [ss EXCEPT ![x] = [ss[x] EXCEPT !.depth = e]])
    BY <1>3, Touched
  <2> QED BY <2>1, <2>2
<1>7. \A c \in CtxNo : CtxOK(ctxs[c], c, s2)
  <2>1. e = 0 <=> ss[x].depth = 0
    BY <1>2, <1>4, <1>5
  <2>2. \A c \in CtxNo : CtxOK(ctxs[c], c, ss)
    BY <1>0, <1>2 DEF CtxInv
  <2> QED BY <1>6, <2>1, <2>2, CtxTouched
<1>8. ObjectsOK(s2, ctxs)
  <2>1. \A s \in 1 .. Len(ss) : s2[s].ctx = ss[s].ctx
    BY <1>6 DEF Touches
  <2> QED BY <1>0, <1>2, <1>6, <2>1 DEF ObjectsOK, Touches
<1>9. CtxInv'
  BY <1>1, <1>2, <1>7 DEF CtxInv, CtxNo
<1> QED BY <1>1, <1>2, <1>5, <1>6, <1>8, <1>9 DEF Reenters

(* A plugin inherits the span of the plugin around it.                     *)
LEMMA InheritsSpan ==
  ASSUME SpanInv, NEW t \in Task, NEW kind \in Kind, OpenInherited(t, kind)
  PROVE  SpanInv' /\ Grows(ctxs, ctxs')
<1>0. /\ BaseInv /\ mode = "sync" /\ live \in SUBSET Task
      /\ stack \in [Task -> Seq(Nat)] /\ blocks \in [Task -> Seq(Nat)]
      /\ \A u \in Task : /\ StackOK(blocks[u], stack[u], Len(spans), mode)
                         /\ u \notin live => blocks[u] = <<>>
      /\ DepthsOK(blocks, spans)
  BY StackBase DEF SpanInv, StackInv, OpenInherited
<1>1. PICK n \in Nat : n = Len(spans)
  BY <1>0 DEF BaseInv, ObjectsOK
<1>2. Peek(t) # NoSpan /\ Enter(t, Peek(t), spans, ctxs) /\ t \in live
  BY DEF OpenInherited, MayOpen
<1>3. PICK x \in 1 .. n : x = Peek(t)
  BY <1>0, <1>1, <1>2, PeekFacts
<1>4. x = stack[t][Len(stack[t])] /\ Len(stack[t]) # 0
  BY <1>0, <1>2, <1>3, PeekFacts
<1>5. Len(blocks[t]) # 0 /\ blocks[t][Len(blocks[t])] = x
  BY <1>0, <1>1, <1>4, TopIsLast
<1>6. Opened(x, blocks[t])
  <2>1. blocks[t] \in Seq(Nat)
    BY <1>0
  <2> QED BY <2>1, <1>5 DEF Opened, In
<1>7. PICK d \in Nat : d = Cardinality(Uses(blocks[t], x))
  BY <1>0, UsesFacts
<1>8. d # 0 /\ spans[x].depth = d
  BY <1>0, <1>1, <1>6, <1>7, UsesFacts DEF DepthsOK
<1>9. Reenters(t, x)
  BY <1>0, <1>1, <1>2, <1>3, <1>8, SpanReentered
<1>10. PICK s2, ss : s2 = spans' /\ ss = spans
  OBVIOUS
<1>11. /\ Touches(x, d + 1, ss, s2) /\ blocks' = [blocks EXCEPT ![t] = Append(@, x)]
       /\ ctxs' = ctxs /\ stack' = stack /\ mode' = mode /\ live' = live
  BY <1>8, <1>9, <1>10 DEF Reenters
<1>12. Append(blocks[t], x) \in Seq(Nat)
  BY <1>0, AppendProperties
<1>13. blocks' \in [Task -> Seq(Nat)]
  BY <1>0, <1>11, <1>12
<1>14. ASSUME NEW u \in Task
       PROVE  /\ StackOK(blocks'[u], stack[u], n, mode)
              /\ u \notin live => blocks'[u] = <<>>
  <2>1. CASE u = t
    <3>1. blocks'[t] = Append(blocks[t], stack[t][Len(stack[t])])
      BY <1>0, <1>4, <1>11
    <3> QED BY <1>0, <1>1, <1>2, <1>5, <2>1, <3>1, StackReentered
  <2>2. CASE u # t
    <3>1. blocks'[u] = blocks[u]
      BY <1>0, <1>11, <2>2
    <3> QED BY <1>0, <1>1, <3>1
  <2> QED BY <2>1, <2>2
<1>15. DepthsOK(blocks', s2)
  <2>1. PICK bl, bn : bl = blocks /\ bn = blocks' /\ bl \in [Task -> Seq(Nat)]
    BY <1>0
  <2>2. /\ bn[t] = Append(bl[t], x) /\ \A u \in Task : u # t => bn[u] = bl[u]
    BY <1>0, <1>11, <2>1
  <2>3. /\ x \in 1 .. Len(s2)
        /\ \A s \in 1 .. Len(s2) : s # x => s \in 1 .. Len(ss) /\ s2[s].depth = ss[s].depth
        /\ s2[x].depth = d + 1
    BY <1>1, <1>10, <1>11 DEF Touches
  <2>4. \A u \in Task : Opened(x, bl[u]) => u = t
    BY <1>0, <1>1, <1>6, <2>1 DEF DepthsOK
  <2>5. EntersBlock(t, x, bl, bn, ss, s2)
    BY <1>7, <2>1, <2>2, <2>3, <2>4 DEF EntersBlock
  <2>6. DepthsOK(bl, ss)
    BY <1>0, <1>10, <2>1
  <2> QED BY <2>1, <2>5, <2>6, DepthsEntered
<1>16. Len(s2) = n
  BY <1>1, <1>10, <1>11 DEF Touches
<1>17. ObjectsOK(spans', ctxs') /\ CtxInv'
  BY <1>9 DEF Reenters
<1>18. StackInv'
  BY <1>0, <1>10, <1>11, <1>13, <1>14, <1>15, <1>16, <1>17 DEF StackInv
<1> QED BY <1>11, <1>17, <1>18 DEF SpanInv, Grows

(* The i-th with block of t ends.                                          *)
Leaves(t, i, x, d) ==
  /\ Touches(x, d - 1, spans, spans')
  /\ blocks' = [blocks EXCEPT ![t] = RemoveAt(@, i)]
  /\ stack' = IF d = 1 THEN [stack EXCEPT ![t] = RemoveFirst(@, x)] ELSE stack
  /\ mode' = mode /\ live' = live
  /\ ObjectsOK(spans', ctxs') /\ CtxInv' /\ Grows(ctxs, ctxs') /\ Len(ctxs') = Len(ctxs)

LEMMA BlockLeft ==
  ASSUME BaseInv, NEW t \in Task, NEW i, CloseBlock(t, i),
         NEW x \in 1 .. Len(spans), x = blocks[t][i],
         NEW d \in Nat, d # 0, spans[x].depth = d
  PROVE  Leaves(t, i, x, d)
<1>0. /\ CtxInv /\ ObjectsOK(spans, ctxs) /\ spans \in Seq(SpanType) /\ ctxs \in Seq(CtxType)
      /\ stack \in [Task -> Seq(Nat)]
  BY DEF BaseInv, ObjectsOK
<1>1. PICK n \in Nat : n = Len(spans)
  BY <1>0
<1>2. PICK j \in CtxNo : j = spans[x].ctx
  BY <1>0, <1>1 DEF ObjectsOK, CtxNo
<1>3. /\ spans' = [spans EXCEPT ![x].depth = @ - 1]
      /\ ctxs' = IF d = 1 THEN [ctxs EXCEPT ![j] = StoppedIn(j, x)] ELSE ctxs
      /\ stack' = IF d = 1 THEN [stack EXCEPT ![t] = RemoveFirst(@, x)] ELSE stack
      /\ blocks' = [blocks EXCEPT ![t] = RemoveAt(@, i)]
      /\ mode' = mode /\ live' = live
  BY <1>0, <1>2 DEF CloseBlock, Removed
<1>4. PICK s2, ss : s2 = spans' /\ ss = spans
  OBVIOUS
<1>5. PICK e \in Nat : e = d - 1
  OBVIOUS
<1>6. Touches(x, e, ss, s2)
  <2>1. ss \in Seq(SpanType) /\ x \in 1 .. Len(ss)
    BY <1>0, <1>4
  <2>2. Touches(x, e, ss, [ss EXCEPT ![x] = [ss[x] EXCEPT !.depth = e]])
    BY <2>1, Touched
  <2>3. s2 = [ss EXCEPT ![x] = [ss[x] EXCEPT !.depth = e]]
    BY <1>0, <1>3, <1>4, <1>5
  <2> QED BY <2>2, <2>3
<1>7. Len(s2) = n /\ \A s \in 1 .. n : s2[s].ctx = ss[s].ctx
  BY <1>1, <1>4, <1>6 DEF Touches
<1>8. \A c \in CtxNo : CtxOK(ctxs[c], c, ss)
  BY <1>0, <1>4 DEF CtxInv
<1>9. CASE d # 1
  <2>1. ctxs' = ctxs
    BY <1>3, <1>9
  <2>2. ObjectsOK(s2, ctxs)
    BY <1>0, <1>1, <1>4, <1>6, <1>7 DEF ObjectsOK, Touches
  <2>3. e = 0 <=> ss[x].depth = 0
    BY <1>4, <1>5, <1>9
  <2>4. \A c \in CtxNo : CtxOK(ctxs[c], c, s2)
    BY <1>6, <1>8, <2>3, CtxTouched
  <2>5. CtxInv' /\ Grows(ctxs, ctxs')
    BY <1>4, <2>1, <2>4 DEF CtxInv, CtxNo, Grows
  <2> QED BY <1>3, <1>4, <1>5, <1>6, <2>1, <2>2, <2>5 DEF Leaves
<1>10. CASE d = 1
  <2>1. PICK r : r = ctxs[j]
    OBVIOUS
  <2>2. r \in CtxType
    BY <1>0, <2>1 DEF CtxNo
  <2>3. /\ r.noop \in BOOLEAN /\ r.sid \in Nat /\ r.nspans \in Nat /\ r.segment \in Seq(Nat)
        /\ r.archived \in Nat /\ r.primary \in Nat
    BY <2>2 DEF CtxType
  <2>4. x \in SpansIn(j, ss) /\ ss[x].depth = 1 /\ CtxOK(r, j, ss) /\ Len(ss) \in Nat
    BY <1>1, <1>2, <1>4, <1>8, <1>10, <2>1 DEF SpansIn
  <2>5. r.nspans # 0 /\ r.nspans - 1 \in Nat
    BY <2>3, <2>4, CtxOpen
  <2>6. PICK seg \in Seq(Nat) : seg = IF r.noop THEN r.segment ELSE Append(r.segment, x)
    <3>1. Append(r.segment, x) \in Seq(Nat)
      BY <2>3, AppendProperties
    <3> QED BY <2>3, <3>1
  <2>7. PICK ar \in Nat : ar = IF ~r.noop /\ r.nspans - 1 = 0 THEN r.archived + 1 ELSE r.archived
    BY <2>3
  <2>8. PICK r2 : r2 = [r EXCEPT !.nspans = r.nspans - 1, !.segment = seg, !.archived = ar]
    OBVIOUS
  <2>9. r2 \in CtxType
    BY <2>2, <2>5, <2>8 DEF CtxType
  <2>10. /\ r2.noop = r.noop /\ r2.nspans = r.nspans - 1 /\ r2.sid = r.sid
         /\ r2.primary = r.primary /\ r2.segment = seg /\ r2.archived = ar
    BY <2>2, <2>8 DEF CtxType
  <2>11. StoppedIn(j, x) = r2
    BY <2>1, <2>6, <2>7, <2>8 DEF StoppedIn, ArchiveDue
  <2>12. PICK c2 : c2 = ctxs'
    OBVIOUS
  <2>13. /\ c2 \in Seq(CtxType) /\ Len(c2) = Len(ctxs) /\ c2[j] = r2
         /\ \A c \in CtxNo : c # j => c2[c] = ctxs[c]
    BY <1>0, <1>3, <1>10, <2>9, <2>11, <2>12, SeqUpdated DEF CtxNo
  <2>14. ObjectsOK(s2, c2)
    BY <1>0, <1>1, <1>4, <1>6, <1>7, <2>13 DEF ObjectsOK, Touches
  <2>15. CtxOK(r2, j, s2)
    <3>1. SpansIn(j, s2) = SpansIn(j, ss)
      BY <1>6, SpansInTouched
    <3>2. /\ \A s \in SpansIn(j, ss) : s # x => s2[s] = ss[s]
          /\ s2[x].depth = 0 /\ s2[x].sid = ss[x].sid /\ s2[x].pid = ss[x].pid
          /\ s2[x].kind = ss[x].kind
      BY <1>5, <1>6, <1>10 DEF Touches, SpansIn
    <3>3. r.noop => r2.archived = r.archived
      BY <2>7, <2>10
    <3>4. ~r.noop => /\ r2.segment = Append(r.segment, x)
                     /\ r2.archived = IF r2.nspans = 0 THEN r.archived + 1 ELSE r.archived
      BY <2>6, <2>7, <2>10
    <3>5. Stops(x, j, r, r2, ss, s2)
      BY <2>3, <2>4, <2>10, <3>1, <3>2, <3>3, <3>4 DEF Stops
    <3> QED BY <3>5, CtxStopped
  <2>16. ASSUME NEW c \in CtxNo PROVE CtxOK(c2[c], c, s2)
    <3>1. CASE c = j
      BY <2>13, <2>15, <3>1
    <3>2. CASE c # j
      <4>1. ss[x].ctx # c /\ c2[c] = ctxs[c]
        BY <1>2, <1>4, <2>13, <3>2
      <4> QED BY <1>6, <1>8, <4>1, CtxTouched
    <3> QED BY <3>1, <3>2
  <2>17. Grows(ctxs, c2)
    <3>1. c2[j].noop = ctxs[j].noop /\ c2[j].sid = ctxs[j].sid
      BY <2>1, <2>10, <2>13
    <3> QED BY <2>13, <3>1 DEF Grows, CtxNo
  <2>18. CtxInv'
    BY <1>4, <2>12, <2>13, <2>16 DEF CtxInv, CtxNo
  <2> QED BY <1>3, <1>4, <1>5, <1>6, <2>12, <2>13, <2>14, <2>17, <2>18 DEF Leaves
<1> QED BY <1>9, <1>10

(* The innermost with block of a task ends.                                *)
LEMMA ClosesBlock ==
  ASSUME SpanInv, NEW t \in Task, Close(t)
  PROVE  SpanInv' /\ Grows(ctxs, ctxs')
<1>0. /\ BaseInv /\ mode \in {"sync", "async"} /\ live \in SUBSET Task
      /\ stack \in [Task -> Seq(Nat)] /\ blocks \in [Task -> Seq(Nat)]
      /\ \A u \in Task : /\ StackOK(blocks[u], stack[u], Len(spans), mode)
                         /\ u \notin live => blocks[u] = <<>>
      /\ DepthsOK(blocks, spans)
  BY StackBase DEF SpanInv, StackInv
<1>1. PICK n \in Nat : n = Len(spans)
  BY StackBase DEF BaseInv, ObjectsOK
<1>2. PICK b \in Seq(Nat) : b = blocks[t]
  BY <1>0
<1>3. PICK m \in Nat : m = Len(b) /\ m # 0
  BY <1>2 DEF Close
<1>4. StackOK(b, stack[t], n, mode)
  BY <1>0, <1>1, <1>2
<1>5. PICK x \in 1 .. n : x = b[m]
  BY <1>3, <1>4 DEF StackOK, StackAt, Within
<1>6. PICK d \in Nat : d = Cardinality(Uses(b, x))
  BY UsesFacts
<1>7. Opened(x, b)
  BY <1>3, <1>5 DEF Opened, In
<1>8. d # 0 /\ spans[x].depth = d
  BY <1>0, <1>1, <1>2, <1>6, <1>7, UsesFacts DEF DepthsOK
<1>9. Leaves(t, m, x, d)
  <2>1. CloseBlock(t, m) /\ x = blocks[t][m]
    BY <1>2, <1>3, <1>5 DEF Close
  <2> QED BY <1>0, <1>1, <1>8, <2>1, BlockLeft
<1>10. PICK s2, ss : s2 = spans' /\ ss = spans
  OBVIOUS
<1>11. /\ Touches(x, d - 1, ss, s2) /\ blocks' = [blocks EXCEPT ![t] = RemoveAt(@, m)]
       /\ stack' = IF d = 1 THEN [stack EXCEPT ![t] = RemoveFirst(@, x)] ELSE stack
       /\ mode' = mode /\ live' = live
       /\ ObjectsOK(spans', ctxs') /\ CtxInv' /\ Grows(ctxs, ctxs')
  BY <1>9, <1>10 DEF Leaves
<1>12. Len(s2) = n
  BY <1>1, <1>10, <1>11 DEF Touches
<1>13. PICK b2 : b2 = RemoveAt(b, m)
  OBVIOUS
<1>14. b2 \in Seq(Nat)
  BY <1>3, <1>13, RemoveAtEnd
<1>15. blocks'[t] = b2 /\ \A u \in Task : u # t => blocks'[u] = blocks[u]
  BY <1>0, <1>2, <1>11, <1>13
<1>16. blocks' \in [Task -> Seq(Nat)]
  BY <1>0, <1>11, <1>14, <1>15
<1>17. \A u \in Task : u \notin live => blocks'[u] = <<>>
  <2>1. t \in live
    BY <1>0, <1>2, <1>3
  <2> QED BY <1>0, <1>15, <2>1
<1>18. DepthsOK(blocks', s2)
  <2>1. PICK bl, bn : bl = blocks /\ bn = blocks' /\ bl \in [Task -> Seq(Nat)]
    BY <1>0
  <2>2. bn[t] = RemoveAt(bl[t], Len(bl[t])) /\ \A u \in Task : u # t => bn[u] = bl[u]
    BY <1>2, <1>3, <1>13, <1>15, <2>1
  <2>3. Len(bl[t]) # 0 /\ x = bl[t][Len(bl[t])] /\ x \in 1 .. Len(ss)
    BY <1>1, <1>2, <1>3, <1>5, <1>10, <2>1
  <2>4. /\ Len(s2) = Len(ss) /\ \A s \in 1 .. Len(ss) : s # x => s2[s].depth = ss[s].depth
        /\ s2[x].depth = ss[x].depth - 1
    BY <1>8, <1>10, <1>11 DEF Touches
  <2>5. LeavesBlock(t, x, bl, bn, ss, s2)
    BY <2>2, <2>3, <2>4 DEF LeavesBlock
  <2>6. DepthsOK(bl, ss)
    BY <1>0, <1>10, <2>1
  <2> QED BY <2>1, <2>5, <2>6, DepthsLeft
<1>19. stack' \in [Task -> Seq(Nat)] /\ \A u \in Task : StackOK(blocks'[u], stack'[u], n, mode)
  <2>1. CASE d # 1
    <3>1. PICK i \in 1 .. Len(b) : i # Len(b) /\ b[i] = b[Len(b)]
      BY <1>3, <1>5, <1>6, <2>1, OutermostUse
    <3>2. StackOK(b2, stack[t], n, mode)
      BY <1>3, <1>4, <1>13, <3>1, StackLeft
    <3> QED BY <1>0, <1>1, <1>11, <1>15, <2>1, <3>2
  <2>2. CASE d = 1
    <3>1. \A i \in 1 .. Len(b) : b[i] = b[Len(b)] => i = Len(b)
      BY <1>3, <1>5, <1>6, <2>2, OutermostUse
    <3>2. PICK st : st = RemoveFirst(stack[t], x)
      OBVIOUS
    <3>3. StackOK(b2, st, n, mode)
      BY <1>3, <1>4, <1>5, <1>13, <3>1, <3>2, StackPopped
    <3>4. stack' = [stack EXCEPT ![t] = st] /\ st \in Seq(Nat)
      BY <1>11, <2>2, <3>2, <3>3 DEF StackOK
    <3> QED BY <1>0, <1>1, <1>15, <3>3, <3>4
  <2> QED BY <2>1, <2>2
<1>20. StackInv'
  BY <1>0, <1>10, <1>11, <1>12, <1>16, <1>17, <1>18, <1>19 DEF StackInv
<1> QED BY <1>11, <1>20 DEF SpanInv

(* A task is created.                                                      *)
LEMMA SpawnsTask ==
  ASSUME SpanInv, NEW t \in Task, NEW u \in Task, Spawn(t, u)
  PROVE  SpanInv' /\ Grows(ctxs, ctxs')
<1>0. /\ StackInv /\ CtxInv /\ ObjectsOK(spans, ctxs) /\ mode \in {"sync", "async"}
      /\ live \in SUBSET Task
      /\ stack \in [Task -> Seq(Nat)] /\ blocks \in [Task -> Seq(Nat)]
      /\ \A v \in Task : /\ StackOK(blocks[v], stack[v], Len(spans), mode)
                         /\ v \notin live => blocks[v] = <<>>
      /\ DepthsOK(blocks, spans)
  BY DEF SpanInv, StackInv
<1>1. /\ mode # "sync" /\ u \notin live /\ live' = live \cup {u}
      /\ stack' = [stack EXCEPT ![u] = stack[t]]
      /\ mode' = mode /\ spans' = spans /\ ctxs' = ctxs /\ blocks' = blocks
  BY DEF Spawn
<1>2. Len(spans) \in Nat
  BY <1>0 DEF ObjectsOK
<1>3. ASSUME NEW v \in Task PROVE StackOK(blocks[v], stack'[v], Len(spans), mode)
  <2>1. CASE v = u
    <3>1. blocks[v] = <<>> /\ stack'[v] = stack[t]
      BY <1>0, <1>1, <2>1
    <3> QED BY <1>0, <1>1, <1>2, <3>1, StackCopied
  <2>2. CASE v # u
    BY <1>0, <1>1, <2>2
  <2> QED BY <2>1, <2>2
<1>4. stack' \in [Task -> Seq(Nat)] /\ live' \in SUBSET Task
  BY <1>0, <1>1
<1>5. \A v \in Task : v \notin live' => blocks[v] = <<>>
  BY <1>0, <1>1
<1>6. StackInv'
  BY <1>0, <1>1, <1>3, <1>4, <1>5 DEF StackInv
<1>7. CtxInv'
  BY <1>0, <1>1 DEF CtxInv, CtxNo
<1> QED BY <1>1, <1>6, <1>7 DEF SpanInv, Grows

LEMMA SpanInvStep ==
  ASSUME SpanInv, [Next]_vars
  PROVE  SpanInv' /\ Grows(ctxs, ctxs')
<1>1. CASE UNCHANGED vars
  BY <1>1 DEF SpanInv, StackInv, CtxInv, CtxNo, vars, Grows
<1>2. ASSUME NEW t \in Task, OpenIgnored(t) PROVE SpanInv' /\ Grows(ctxs, ctxs')
  BY <1>2, StackBase, OpensDark, StackGrows DEF OpenIgnored, OpensIn
<1>3. ASSUME NEW t \in Task, OpenNoop(t) PROVE SpanInv' /\ Grows(ctxs, ctxs')
  BY <1>3, StackBase, OpensNoop, StackGrows DEF OpensIn
<1>4. ASSUME NEW t \in Task, OpenRaises(t) PROVE SpanInv' /\ Grows(ctxs, ctxs')
  BY <1>4 DEF OpenRaises, SpanInv, StackInv, CtxInv, CtxNo, Grows
<1>5. ASSUME NEW t \in Task, Close(t) PROVE SpanInv' /\ Grows(ctxs, ctxs')
  BY <1>5, ClosesBlock
<1>6. ASSUME NEW t \in Task, NEW k \in Kind, OpenInherited(t, k) PROVE SpanInv' /\ Grows(ctxs, ctxs')
  BY <1>6, InheritsSpan
<1>7. ASSUME NEW t \in Task, NEW k \in Kind, OpenNew(t, k) PROVE SpanInv' /\ Grows(ctxs, ctxs')
  <2>1. CASE Peek(t) = NoSpan \/ Finished(Peek(t))
    BY <1>7, <2>1, StackBase, OpensFirst, StackGrows DEF OpensIn
  <2>2. CASE ~(Peek(t) = NoSpan \/ Finished(Peek(t)))
    BY <1>7, <2>2, StackBase, OpensBelow, StackGrows DEF OpensIn
  <2> QED BY <2>1, <2>2
<1>8. ASSUME NEW t \in Task, NEW u \in Task, Spawn(t, u) PROVE SpanInv' /\ Grows(ctxs, ctxs')
  BY <1>8, SpawnsTask
<1> QED BY <1>1, <1>2, <1>3, <1>4, <1>5, <1>6, <1>7, <1>8 DEF Next

(* Nothing is open in the beginning.                                       *)
LEMMA SpanInvBegins ==
  ASSUME mode \in {"sync", "async"}, live \in SUBSET Task, spans = <<>>, ctxs = <<>>,
         stack = [t \in Task |-> <<>>], blocks = [t \in Task |-> <<>>]
  PROVE  SpanInv
<1>1. ObjectsOK(spans, ctxs)
  BY DEF ObjectsOK
<1>2. stack \in [Task -> Seq(Nat)] /\ blocks \in [Task -> Seq(Nat)]
  OBVIOUS
<1>3. StackAt(<<>>, 0, <<>>, 0, 0, mode)
  BY DEF StackAt, Within, Once, OnStack, Ordered, Suffix, Whole
<1>4. StackOK(<<>>, <<>>, 0, mode)
  BY <1>3 DEF StackOK
<1>5. DepthsOK(blocks, spans)
  BY DEF DepthsOK
<1>6. StackInv
  BY <1>1, <1>2, <1>4, <1>5 DEF StackInv
<1>7. CtxInv
  BY DEF CtxInv, CtxNo
<1> QED BY <1>6, <1>7 DEF SpanInv

LEMMA SpanInvAlways ==
  ASSUME "mixed" \notin Modes
  PROVE  Spec => []SpanInv
<1>1. Init => SpanInv
  <2> SUFFICES ASSUME Init PROVE SpanInv
    OBVIOUS
  <2>1. mode \in {"sync", "async"} /\ live \in SUBSET Task
    BY SpanAssumption DEF Init
  <2> QED BY <2>1, SpanInvBegins DEF Init
<1>2. SpanInv /\ [Next]_vars => SpanInv'
  BY SpanInvStep
<1> QED BY <1>1, <1>2, PTL DEF Spec

(* Propagation takes only steps of SpanContext, or none.                   *)
LEMMA PropagationSteps ==
  ASSUME [PNext]_<<vars, pvars>>
  PROVE  [Next]_vars
<1>1. CASE UNCHANGED <<vars, pvars>>
  BY <1>1
<1>2. ASSUME NEW t \in Task, NEW c, NewEntry(t, c) PROVE [Next]_vars
  BY <1>2 DEF NewEntry, EntryDark, EntryNoop, EntryInherited, EntryNew, Next, Kind
<1>3. ASSUME NEW t \in Task, NEW c, Extract(t, c) PROVE [Next]_vars
  BY <1>3 DEF Extract
<1>4. ASSUME NEW t \in Task, NewPlain(t, "Local") PROVE [Next]_vars
  BY <1>4 DEF NewPlain, Next, Kind
<1>5. ASSUME NEW t \in Task, NewExit(t) PROVE [Next]_vars
  BY <1>5 DEF NewExit, Next, Kind
<1>6. ASSUME NEW t \in Task, Capture(t) PROVE [Next]_vars
  BY <1>6 DEF Capture
<1>7. ASSUME NEW t \in Task, End(t) PROVE [Next]_vars
  BY <1>7 DEF End, Next
<1>8. ASSUME NEW t \in Task, NEW k, NEW v, PutCorrelation(t, k, v) PROVE [Next]_vars
  BY <1>8 DEF PutCorrelation
<1>9. ASSUME NEW t \in Task, NEW sn, Resume(t, sn) PROVE [Next]_vars
  BY <1>9 DEF Resume, Next, Kind
<1> QED BY <1>1, <1>2, <1>3, <1>4, <1>5, <1>6, <1>7, <1>8, <1>9 DEF PNext

-----------------------------------------------------------------------------
(* What follows from the invariant.                                        *)

(* A span is open exactly while one of its with blocks is.                 *)
LEMMA ClosedSpans ==
  ASSUME SpanInv, NEW s \in 1 .. Len(spans), \A t \in Task : ~Opened(s, blocks[t])
  PROVE  spans[s].depth = 0
<1>1. spans[s] \in SpanType
  BY DEF SpanInv, StackInv, ObjectsOK
<1>2. spans[s].depth \in Nat
  BY <1>1 DEF SpanType
<1>3. ~(spans[s].depth > 0)
  BY DEF SpanInv, StackInv, DepthsOK
<1> QED BY <1>2, <1>3

LEMMA InnermostHolds ==
  SpanInv => InnermostIsParent
<1> SUFFICES ASSUME SpanInv, NEW t \in Task, blocks[t] # <<>>
             PROVE  Peek(t) = Last(blocks[t])
  BY DEF InnermostIsParent
<1>1. StackInv /\ StackOK(blocks[t], stack[t], Len(spans), mode) /\ Len(spans) \in Nat
  BY DEF SpanInv, StackInv, ObjectsOK
<1>2. PICK b \in Seq(Nat) : b = blocks[t]
  BY DEF SpanInv, StackInv
<1>3. Len(b) # 0
  BY <1>2
<1>4. Len(stack[t]) # 0 /\ b[Len(b)] = stack[t][Len(stack[t])]
  BY <1>1, <1>2, <1>3, TopIsLast
<1>5. Peek(t) = stack[t][Len(stack[t])]
  BY <1>1, <1>4, StackBase, PeekFacts
<1> QED BY <1>2, <1>4, <1>5 DEF Last

LEMMA NothingStrandedHolds ==
  SpanInv => NothingStranded
<1> SUFFICES ASSUME SpanInv, \A t \in Task : blocks[t] = <<>>
             PROVE  /\ \A c \in CtxNo : ctxs[c].nspans = 0 /\ (ctxs[c].noop \/ ctxs[c].archived = 1)
                    /\ \A t \in Task : \A s \in Range(stack[t]) : spans[s].depth = 0
  BY DEF NothingStranded
<1>1. \A s \in 1 .. Len(spans) : spans[s].depth = 0
  <2> SUFFICES ASSUME NEW s \in 1 .. Len(spans) PROVE spans[s].depth = 0
    OBVIOUS
  <2>1. \A t \in Task : ~Opened(s, blocks[t])
    BY DEF Opened, In
  <2> QED BY <2>1, ClosedSpans
<1>2. Len(spans) \in Nat
  BY DEF SpanInv, StackInv, ObjectsOK
<1>3. ASSUME NEW c \in CtxNo
      PROVE  ctxs[c].nspans = 0 /\ (ctxs[c].noop \/ ctxs[c].archived = 1)
  <2>1. OpenIn(c, spans) = {}
    BY <1>1 DEF OpenIn, SpansIn
  <2>2. CtxOK(ctxs[c], c, spans)
    BY <1>3 DEF SpanInv, CtxInv
  <2>3. ctxs[c].nspans = 0
    BY <1>2, <2>1, <2>2, OpenFacts DEF CtxOK
  <2> QED BY <2>2, <2>3 DEF CtxOK, TracedOK
<1>4. ASSUME NEW t \in Task, NEW s \in Range(stack[t]) PROVE spans[s].depth = 0
  <2>1. PICK q \in Seq(Nat) : q = stack[t]
    BY DEF SpanInv, StackInv
  <2>2. \A i \in 1 .. Len(q) : q[i] \in 1 .. Len(spans)
    BY <2>1 DEF SpanInv, StackInv, StackOK, StackAt, Within
  <2>3. DOMAIN q = 1 .. Len(q)
    OBVIOUS
  <2>4. s \in 1 .. Len(spans)
    BY <1>4, <2>1, <2>2, <2>3 DEF Range
  <2> QED BY <1>1, <2>4
<1> QED BY <1>3, <1>4

(* The least element, when there is one.                                   *)
LEMMA MinIs ==
  ASSUME NEW S \in SUBSET Nat, NEW p \in S, \A s \in S : p <= s
  PROVE  p = Min(S)
<1>1. PICK m : m = CHOOSE x \in S : \A y \in S : x =< y
  OBVIOUS
<1>2. m \in S /\ \A y \in S : m =< y
  <2>1. \E x \in S : \A y \in S : x =< y
    OBVIOUS
  <2> QED BY <1>1, <2>1
<1>3. m = p
  <2>1. m \in Nat /\ p \in Nat /\ m <= p /\ p <= m
    BY <1>2
  <2> QED BY <2>1
<1> QED BY <1>1, <1>3 DEF Min

LEMMA ArchivedWholeHolds ==
  SpanInv => ArchivedWhole
<1> SUFFICES ASSUME SpanInv, NEW c \in CtxNo, ctxs[c].archived > 0
             PROVE  LET seg == ctxs[c].segment
                        sid(i) == spans[seg[i]].sid
                        pid(i) == spans[seg[i]].pid
                        entries == {s \in SpansOf(c) : spans[s].kind = "Entry"}
                    IN /\ ctxs[c].archived = 1 /\ ctxs[c].nspans = 0
                       /\ \A s \in SpansOf(c) : spans[s].depth = 0
                       /\ {sid(i) : i \in DOMAIN seg} = 0 .. Len(seg) - 1
                       /\ \A i \in DOMAIN seg : pid(i) < sid(i) /\ (pid(i) = -1 <=> sid(i) = 0)
                       /\ ctxs[c].primary = Min(IF entries = {} THEN SpansOf(c) ELSE entries)
  BY DEF ArchivedWhole
<1>1. PICK r : r = ctxs[c]
  OBVIOUS
<1>2. r \in CtxType
  BY <1>1 DEF SpanInv, StackInv, ObjectsOK, CtxNo
<1>3. /\ r.noop \in BOOLEAN /\ r.sid \in Nat /\ r.nspans \in Nat /\ r.segment \in Seq(Nat)
      /\ r.archived \in Nat /\ r.archived > 0
  BY <1>1, <1>2 DEF CtxType
<1>4. CtxOK(r, c, spans)
  BY <1>1 DEF SpanInv, CtxInv
<1>5. TracedOK(r, c, spans)
  BY <1>3, <1>4 DEF CtxOK
<1>6. r.archived = 1 /\ r.nspans = 0
  BY <1>3, <1>5 DEF TracedOK
<1>7. SpansOf(c) = SpansIn(c, spans) /\ SpansOf(c) \in SUBSET Nat
  BY DEF SpansOf, SpanNo, SpansIn
<1>8. \A s \in SpansIn(c, spans) : spans[s].depth = 0
  <2>1. Len(spans) \in Nat
    BY DEF SpanInv, StackInv, ObjectsOK
  <2>2. OpenIn(c, spans) = {}
    BY <1>4, <1>6, <2>1, OpenFacts DEF CtxOK
  <2> QED BY <2>2 DEF OpenIn
<1>9. PICK seg \in Seq(Nat) : seg = r.segment
  BY <1>3
<1>10. PICK n \in Nat : n = Len(seg)
  OBVIOUS
<1>11. DOMAIN seg = 1 .. n /\ r.sid = n
  BY <1>3, <1>5, <1>6, <1>9, <1>10 DEF TracedOK
<1>12. \A i \in 1 .. n : seg[i] \in SpansIn(c, spans)
  BY <1>5, <1>9, <1>10 DEF TracedOK, SegmentOK
<1>13. \A s \in SpansIn(c, spans) : \E i \in 1 .. n : seg[i] = s
  BY <1>5, <1>8, <1>9, <1>10 DEF TracedOK, SegmentOK, In
<1>14. IdsOK(n, c, spans)
  BY <1>5, <1>11 DEF TracedOK
<1>15. \A i \in 1 .. n :
         /\ spans[seg[i]].sid \in 0 .. n - 1
         /\ spans[seg[i]].pid \in -1 .. spans[seg[i]].sid - 1
         /\ spans[seg[i]].pid = -1 <=> spans[seg[i]].sid = 0
  BY <1>12, <1>14 DEF IdsOK
<1>16. \A k \in 0 .. n - 1 : \E i \in 1 .. n : spans[seg[i]].sid = k
  <2> SUFFICES ASSUME NEW k \in 0 .. n - 1 PROVE \E i \in 1 .. n : spans[seg[i]].sid = k
    OBVIOUS
  <2>1. PICK s \in SpansIn(c, spans) : spans[s].sid = k
    BY <1>14 DEF IdsOK
  <2>2. PICK i \in 1 .. n : seg[i] = s
    BY <1>13
  <2> QED BY <2>1, <2>2
<1>17. {spans[seg[i]].sid : i \in DOMAIN seg} = 0 .. n - 1
  <2>1. \A k \in {spans[seg[i]].sid : i \in 1 .. n} : k \in 0 .. n - 1
    BY <1>15
  <2>2. \A k \in 0 .. n - 1 : k \in {spans[seg[i]].sid : i \in 1 .. n}
    BY <1>16
  <2> QED BY <1>11, <2>1, <2>2
<1>18. \A i \in DOMAIN seg : /\ spans[seg[i]].pid < spans[seg[i]].sid
                             /\ spans[seg[i]].pid = -1 <=> spans[seg[i]].sid = 0
  <2> SUFFICES ASSUME NEW i \in 1 .. n
               PROVE  /\ spans[seg[i]].pid < spans[seg[i]].sid
                      /\ spans[seg[i]].pid = -1 <=> spans[seg[i]].sid = 0
    BY <1>11
  <2>1. PICK a, b : a = spans[seg[i]].sid /\ b = spans[seg[i]].pid
    OBVIOUS
  <2>2. a \in 0 .. n - 1 /\ b \in -1 .. a - 1 /\ (b = -1 <=> a = 0)
    BY <1>15, <2>1
  <2>3. b < a
    BY <2>2
  <2> QED BY <2>1, <2>2, <2>3, Zenon
<1>19. PICK E : E = {s \in SpansOf(c) : spans[s].kind = "Entry"}
  OBVIOUS
<1>20. E = EntriesIn(c, spans) /\ E \in SUBSET Nat
  BY <1>7, <1>19 DEF EntriesIn
<1>21. PrimaryOK(r.primary, c, spans)
  BY <1>5 DEF TracedOK
<1>22. r.primary = Min(IF E = {} THEN SpansOf(c) ELSE E)
  <2>1. CASE E = {}
    BY <1>7, <1>20, <1>21, <2>1, MinIs DEF PrimaryOK
  <2>2. CASE E # {}
    BY <1>20, <1>21, <2>2, MinIs DEF PrimaryOK
  <2> QED BY <2>1, <2>2
<1> QED BY <1>1, <1>6, <1>7, <1>8, <1>9, <1>10, <1>17, <1>18, <1>19, <1>22

(* Where tasks are created or spans inherited, but not both: the span a    *)
(* task takes as parent (SpanContext.peek) is the one of its innermost     *)
(* with block, whatever the other tasks push and pop.                      *)
THEOREM ParentIsInnermost ==
  ASSUME "mixed" \notin Modes
  PROVE  Spec => []InnermostIsParent
<1>1. Spec => []SpanInv
  BY SpanInvAlways
<1> QED BY <1>1, InnermostHolds, PTL

(* When every with block has ended, SpanContext.stop has archived every    *)
(* traced segment and no unfinished span is left on a stack.               *)
THEOREM NoSegmentStranded ==
  ASSUME "mixed" \notin Modes
  PROVE  Spec => []NothingStranded
<1>1. Spec => []SpanInv
  BY SpanInvAlways
<1> QED BY <1>1, NothingStrandedHolds, PTL

(* A segment is archived once, whole and as a tree of its span ids, with   *)
(* the right primary endpoint, when its last open span stops.              *)
THEOREM SegmentsWhole ==
  ASSUME "mixed" \notin Modes
  PROVE  Spec => []ArchivedWhole
<1>1. Spec => []SpanInv
  BY SpanInvAlways
<1> QED BY <1>1, ArchivedWholeHolds, PTL

-----------------------------------------------------------------------------
(***************************************************************************)
(* The invariant of Propagation. A segment g resolves span id sid and      *)
(* trace tr when it is traced, made that span, was asked for its trace id, *)
(* and is related to tr or had the id it gave out replaced later. So does  *)
(* every reference, and so do the valid headers and snapshots, from which  *)
(* references are made.                                                    *)
(***************************************************************************)
Resolves(g, sid, tr, cs, dt) ==
  /\ g \in 1 .. Len(cs) /\ cs[g].noop = FALSE /\ sid \in 0 .. cs[g].sid - 1
  /\ dt[g].gave /\ (tr \in Range(dt[g].traces) \/ dt[g].split)

(* A header of a NoopContext tells its receiver not to trace.              *)
CarrierOK(c, cs, dt) ==
  /\ c.trace \in Int
  /\ IsValid(c) /\ c.seg # Elsewhere => Resolves(c.seg, c.sid, c.trace, cs, dt)
  /\ c.by = 0 \/ (c.by \in 1 .. Len(cs) /\ (cs[c.by].noop => IsSuppressed(c)))

SnapshotOK(sn, cs, dt) ==
  sn.trace \in Int /\ (sn.seg # 0 => Resolves(sn.seg, sn.sid, sn.trace, cs, dt))

IsData(d) ==
  /\ d = [traces |-> d.traces, fresh |-> d.fresh, corr |-> d.corr, refs |-> d.refs,
          gave |-> d.gave, split |-> d.split, joined |-> d.joined, senders |-> d.senders]
  /\ d.fresh \in BOOLEAN /\ d.gave \in BOOLEAN /\ d.split \in BOOLEAN /\ d.joined \in BOOLEAN
  /\ d.traces \in Seq(Int) /\ Len(d.traces) # 0

RefOK(r, i, d, cs, dt) ==
  /\ r.trace \in Range(d.traces)
  /\ r.seg # Elsewhere => Resolves(r.seg, r.sid, r.trace, cs, dt)
  /\ r.type = "CrossThread" => r.seg # i

(* What a segment that left its own trace id leads with.                   *)
Leads(i, d, sns) ==
  \/ Head(d.traces) # i
  \/ \E r \in d.refs : r.trace = i
  \/ d.joined /\ \E sn \in sns : sn.trace = i /\ sn.seg # i

DataOK(i, d, cs, dt, sns) ==
  /\ IsData(d)
  /\ d.fresh => Len(d.traces) = 1 /\ d.refs = {}
  /\ ~d.fresh => Leads(i, d, sns)
  /\ \A r \in d.refs : RefOK(r, i, d, cs, dt)
  /\ \A u \in d.senders : u \in 1 .. Len(cs) /\ (cs[u].noop => cs[i].noop)

PropAt(cs, dt, w, sns) ==
  /\ dt \in Seq(Range(dt)) /\ Len(dt) = Len(cs)
  /\ \A i \in 1 .. Len(cs) : DataOK(i, dt[i], cs, dt, sns)
  /\ \A c \in w : CarrierOK(c, cs, dt)
  /\ \A sn \in sns : SnapshotOK(sn, cs, dt)

PropInv == PropAt(ctxs, data, wire, snaps)

(* What a segment resolves it goes on resolving.                           *)
Evolves(d, e) ==
  /\ d.gave => e.gave
  /\ \A tr : d.gave /\ (tr \in Range(d.traces) \/ d.split)
               => tr \in Range(e.traces) \/ e.split

AllEvolve(cs, dt, c2, d2) ==
  /\ Grows(cs, c2)
  /\ \A g \in 1 .. Len(cs) : Evolves(dt[g], d2[g])

LEMMA ResolvesKept ==
  ASSUME NEW cs \in Seq(CtxType), NEW c2, NEW dt, NEW d2, AllEvolve(cs, dt, c2, d2),
         NEW g, NEW sid, NEW tr, Resolves(g, sid, tr, cs, dt)
  PROVE  Resolves(g, sid, tr, c2, d2)
<1>1. PICK n, k : n = Len(cs) /\ k = cs[g].sid
  OBVIOUS
<1>t. n \in Nat /\ g \in 1 .. n /\ sid \in 0 .. k - 1 /\ cs[g] \in CtxType
  BY <1>1 DEF Resolves
<1>2. g \in 1 .. n /\ sid \in 0 .. k - 1 /\ k \in Nat /\ g \in 1 .. Len(c2)
  <2>1. k \in Nat
    BY <1>1, <1>t DEF CtxType
  <2>2. Len(c2) = n \/ Len(c2) = n + 1
    BY <1>1 DEF AllEvolve, Grows
  <2> QED BY <1>t, <2>1, <2>2
<1>3. c2[g].noop = FALSE /\ (c2[g].sid = k \/ c2[g].sid = k + 1)
  BY <1>1, <1>2 DEF Resolves, AllEvolve, Grows
<1>4. sid \in 0 .. c2[g].sid - 1
  BY <1>2, <1>3
<1>5. d2[g].gave /\ (tr \in Range(d2[g].traces) \/ d2[g].split)
  BY <1>1, <1>2 DEF Resolves, AllEvolve, Evolves
<1> QED BY <1>2, <1>3, <1>4, <1>5 DEF Resolves

LEMMA CarriersKept ==
  ASSUME NEW cs \in Seq(CtxType), NEW c2, NEW dt, NEW d2, AllEvolve(cs, dt, c2, d2),
         NEW c, CarrierOK(c, cs, dt)
  PROVE  CarrierOK(c, c2, d2)
<1>1. IsValid(c) /\ c.seg # Elsewhere => Resolves(c.seg, c.sid, c.trace, c2, d2)
  BY ResolvesKept DEF CarrierOK
<1>2. PICK n \in Nat : n = Len(cs)
  OBVIOUS
<1>3. ASSUME c.by \in 1 .. n
      PROVE  c.by \in 1 .. Len(c2) /\ c2[c.by].noop = cs[c.by].noop
  BY <1>2, <1>3 DEF AllEvolve, Grows
<1> QED BY <1>1, <1>2, <1>3 DEF CarrierOK

LEMMA SnapshotsKept ==
  ASSUME NEW cs \in Seq(CtxType), NEW c2, NEW dt, NEW d2, AllEvolve(cs, dt, c2, d2),
         NEW sn, SnapshotOK(sn, cs, dt)
  PROVE  SnapshotOK(sn, c2, d2)
BY ResolvesKept DEF SnapshotOK

(* The data of one context stays right when that of others changes.       *)
LEMMA DataKept ==
  ASSUME NEW cs \in Seq(CtxType), NEW c2, NEW dt, NEW d2, AllEvolve(cs, dt, c2, d2),
         NEW sns, NEW s2, sns \subseteq s2,
         NEW i \in 1 .. Len(cs), NEW d, DataOK(i, d, cs, dt, sns)
  PROVE  DataOK(i, d, c2, d2, s2)
<1>1. \A r \in d.refs : RefOK(r, i, d, c2, d2)
  BY ResolvesKept DEF DataOK, RefOK
<1>2. PICK n \in Nat : n = Len(cs)
  OBVIOUS
<1>3. \A u \in 1 .. n : u \in 1 .. Len(c2) /\ c2[u].noop = cs[u].noop
  BY <1>2 DEF AllEvolve, Grows
<1>4. \A u \in d.senders : u \in 1 .. Len(c2) /\ (c2[u].noop => c2[i].noop)
  BY <1>2, <1>3 DEF DataOK
<1>5. Leads(i, d, sns) => Leads(i, d, s2)
  BY DEF Leads
<1> QED BY <1>1, <1>4, <1>5 DEF DataOK

(* One context's data changes.                                             *)
LEMMA DataChanged ==
  ASSUME NEW cs \in Seq(CtxType), NEW dt, NEW w, NEW sns, PropAt(cs, dt, w, sns),
         NEW i \in 1 .. Len(cs), NEW e, Evolves(dt[i], e), DataOK(i, e, cs, dt, sns)
  PROVE  /\ PropAt(cs, [dt EXCEPT ![i] = e], w, sns)
         /\ AllEvolve(cs, dt, cs, [dt EXCEPT ![i] = e])
         /\ [dt EXCEPT ![i] = e][i] = e
<1>1. PICK S : S = Range(dt) /\ dt \in Seq(S)
  BY DEF PropAt
<1>2. PICK d2 : d2 = [dt EXCEPT ![i] = e]
  OBVIOUS
<1>3. dt \in Seq(S \cup {e}) /\ i \in 1 .. Len(dt)
  BY <1>1, SeqMonotonic DEF PropAt
<1>4. /\ d2 \in Seq(S \cup {e}) /\ Len(d2) = Len(dt) /\ d2[i] = e
      /\ \A j \in 1 .. Len(cs) : j # i => d2[j] = dt[j]
  BY <1>2, <1>3, ExceptSeq DEF PropAt
<1>5. d2 \in Seq(Range(d2))
  BY <1>4, SeqOfRange
<1>6. AllEvolve(cs, dt, cs, d2)
  BY <1>4 DEF AllEvolve, Grows, Evolves
<1>7. \A j \in 1 .. Len(cs) : DataOK(j, d2[j], cs, d2, sns)
  <2> SUFFICES ASSUME NEW j \in 1 .. Len(cs) PROVE DataOK(j, d2[j], cs, d2, sns)
    OBVIOUS
  <2>1. DataOK(j, d2[j], cs, dt, sns)
    BY <1>4 DEF PropAt
  <2> QED BY <1>6, <2>1, DataKept
<1>8. /\ \A c \in w : CarrierOK(c, cs, d2)
      /\ \A sn \in sns : SnapshotOK(sn, cs, d2)
  BY <1>6, CarriersKept, SnapshotsKept DEF PropAt
<1> QED BY <1>2, <1>4, <1>5, <1>6, <1>7, <1>8 DEF PropAt

(* A header is sent, a snapshot captured.                                  *)
LEMMA CarrierSent ==
  ASSUME NEW cs, NEW dt, NEW w, NEW sns, PropAt(cs, dt, w, sns),
         NEW c, CarrierOK(c, cs, dt)
  PROVE  PropAt(cs, dt, w \cup {c}, sns)
BY DEF PropAt

LEMMA SnapshotTaken ==
  ASSUME NEW cs \in Seq(CtxType), NEW dt, NEW w, NEW sns, PropAt(cs, dt, w, sns),
         NEW sn, SnapshotOK(sn, cs, dt)
  PROVE  PropAt(cs, dt, w, sns \cup {sn})
<1>1. AllEvolve(cs, dt, cs, dt)
  BY DEF AllEvolve, Grows, Evolves
<1>2. \A i \in 1 .. Len(cs) : DataOK(i, dt[i], cs, dt, sns \cup {sn})
  BY <1>1, DataKept DEF PropAt
<1> QED BY <1>2 DEF PropAt

(* A context is made, or none.                                             *)
LEMMA NewDataOK ==
  ASSUME NEW i \in Nat, i # 0, NEW noop \in BOOLEAN, NEW cs, NEW dt, NEW sns
  PROVE  DataOK(i, NewData(i, noop), cs, dt, sns)
<1>1. PICK e : e = NewData(i, noop)
  OBVIOUS
<1>2. PICK tr \in Int : tr = IF noop THEN 0 ELSE i
  OBVIOUS
<1>3. /\ e.traces = <<tr>> /\ e.fresh = ~noop /\ e.corr = <<>> /\ e.refs = {} /\ e.gave = FALSE
      /\ e.split = FALSE /\ e.joined = FALSE /\ e.senders = {}
  BY <1>1, <1>2 DEF NewData
<1>4. <<tr>> \in Seq(Int) /\ Len(<<tr>>) = 1 /\ Head(<<tr>>) = tr
  OBVIOUS
<1>5. e = [traces |-> e.traces, fresh |-> e.fresh, corr |-> e.corr, refs |-> e.refs,
           gave |-> e.gave, split |-> e.split, joined |-> e.joined, senders |-> e.senders]
  BY <1>1, <1>2, <1>3 DEF NewData
<1>6. IsData(e)
  <2>1. e.fresh \in BOOLEAN /\ e.gave \in BOOLEAN /\ e.split \in BOOLEAN /\ e.joined \in BOOLEAN
    BY <1>3
  <2>2. e.traces \in Seq(Int) /\ Len(e.traces) # 0
    BY <1>3, <1>4
  <2> QED BY <1>5, <2>1, <2>2, Zenon DEF IsData
<1>7. ~e.fresh => Leads(i, e, sns)
  BY <1>2, <1>3, <1>4 DEF Leads
<1> QED BY <1>1, <1>3, <1>4, <1>6, <1>7 DEF DataOK

Adds(dt, c2, d2) ==
  d2 = IF Len(c2) > Len(dt) THEN Append(dt, NewData(Len(c2), c2[Len(c2)].noop)) ELSE dt

LEMMA DataAdded ==
  ASSUME NEW cs \in Seq(CtxType), NEW c2 \in Seq(CtxType), Grows(cs, c2),
         NEW dt, NEW w, NEW sns, PropAt(cs, dt, w, sns),
         NEW d2, Adds(dt, c2, d2)
  PROVE  PropAt(c2, d2, w, sns) /\ AllEvolve(cs, dt, c2, d2)
         /\ \A j \in 1 .. Len(cs) : d2[j] = dt[j]
<1>1. PICK n \in Nat, m \in Nat : n = Len(cs) /\ m = Len(c2)
  OBVIOUS
<1>2. Len(dt) = n /\ (m = n \/ m = n + 1) /\ dt \in Seq(Range(dt))
  BY <1>1 DEF PropAt, Grows
<1>3. PICK new : new = NewData(m, c2[m].noop)
  OBVIOUS
<1>4. /\ d2 \in Seq(Range(d2)) /\ Len(d2) = m
      /\ \A j \in 1 .. n : d2[j] = dt[j]
      /\ m = n + 1 => d2[m] = new
  <2>1. CASE m = n
    BY <1>1, <1>2, <2>1 DEF Adds
  <2>2. CASE m = n + 1
    <3>1. d2 = Append(dt, new)
      BY <1>1, <1>2, <1>3, <2>2 DEF Adds
    <3>2. dt \in Seq(Range(dt) \cup {new})
      BY <1>2, SeqMonotonic
    <3>3. /\ d2 \in Seq(Range(dt) \cup {new}) /\ Len(d2) = n + 1 /\ d2[n + 1] = new
          /\ \A j \in 1 .. n : d2[j] = dt[j]
      BY <1>2, <3>1, <3>2, AppendProperties
    <3>4. d2 \in Seq(Range(d2))
      BY <3>3, SeqOfRange
    <3> QED BY <2>2, <3>3, <3>4
  <2> QED BY <1>2, <2>1, <2>2
<1>5. AllEvolve(cs, dt, c2, d2)
  BY <1>1, <1>4 DEF AllEvolve, Evolves
<1>6. \A i \in 1 .. m : DataOK(i, d2[i], c2, d2, sns)
  <2> SUFFICES ASSUME NEW i \in 1 .. m PROVE DataOK(i, d2[i], c2, d2, sns)
    OBVIOUS
  <2>1. CASE i \in 1 .. n
    <3>1. DataOK(i, dt[i], cs, dt, sns)
      BY <1>1, <2>1 DEF PropAt
    <3>2. DataOK(i, dt[i], c2, d2, sns)
      BY <1>1, <1>5, <2>1, <3>1, DataKept
    <3> QED BY <1>4, <2>1, <3>2
  <2>2. CASE i \notin 1 .. n
    <3>1. i = m /\ m = n + 1 /\ m # 0
      BY <1>2, <2>2
    <3>2. c2[m] \in CtxType
      <4>1. m \in 1 .. Len(c2)
        BY <1>1, <3>1
      <4> QED BY <4>1, ElementOfSeq
    <3>3. c2[m].noop \in BOOLEAN
      BY <3>2 DEF CtxType
    <3>4. DataOK(m, new, c2, d2, sns)
      BY <1>3, <3>1, <3>3, NewDataOK
    <3> QED BY <1>4, <3>1, <3>4
  <2> QED BY <2>1, <2>2
<1>7. /\ \A c \in w : CarrierOK(c, c2, d2)
      /\ \A sn \in sns : SnapshotOK(sn, c2, d2)
  BY <1>5, CarriersKept, SnapshotsKept DEF PropAt
<1> QED BY <1>1, <1>4, <1>5, <1>6, <1>7 DEF PropAt

-----------------------------------------------------------------------------
(* The changes to a context's data.                                        *)

(* Segment.relate, with what extract and continued do beside it.           *)
Relates(d, e, tr) ==
  /\ IsData(e) /\ e.fresh = FALSE /\ e.gave = d.gave /\ e.senders = d.senders
  /\ e.traces = IF d.fresh THEN <<tr>> ELSE Append(d.traces, tr)
  /\ e.split = (d.split \/ (d.fresh /\ d.gave /\ tr # Head(d.traces)))
  /\ d.joined => e.joined

LEMMA RelatedIs ==
  ASSUME NEW d, IsData(d), NEW tr \in Int
  PROVE  /\ Relates(d, Related(d, tr), tr) /\ Related(d, tr).corr = d.corr
         /\ Related(d, tr).refs = d.refs /\ Related(d, tr).joined = d.joined
<1>1. PICK e : e = Related(d, tr)
  OBVIOUS
<1>2. PICK tt : tt = IF d.fresh THEN <<tr>> ELSE Append(d.traces, tr)
  OBVIOUS
<1>3. tt \in Seq(Int) /\ Len(tt) # 0
  BY <1>2, AppendProperties DEF IsData
<1>4. PICK sp \in BOOLEAN : sp = (d.split \/ (d.fresh /\ d.gave /\ tr # Head(d.traces)))
  OBVIOUS
<1>5. e = [d EXCEPT !.traces = tt, !.fresh = FALSE, !.split = sp]
  BY <1>1, <1>2, <1>4 DEF Related
<1>6. /\ e = [traces |-> tt, fresh |-> FALSE, corr |-> d.corr, refs |-> d.refs,
              gave |-> d.gave, split |-> sp, joined |-> d.joined, senders |-> d.senders]
  BY <1>5 DEF IsData
<1>7. /\ e.traces = tt /\ e.fresh = FALSE /\ e.corr = d.corr /\ e.refs = d.refs
      /\ e.gave = d.gave /\ e.split = sp /\ e.joined = d.joined /\ e.senders = d.senders
  BY <1>6
<1>8. IsData(e)
  BY <1>3, <1>6, <1>7 DEF IsData
<1> QED BY <1>1, <1>2, <1>4, <1>7, <1>8 DEF Relates

(* The trace ids before are still there or, if the segment's own id was    *)
(* replaced, no reference needed it.                                       *)
LEMMA RelatesOK ==
  ASSUME NEW i, NEW d, NEW e, NEW tr \in Int, NEW cs, NEW dt, NEW sns,
         DataOK(i, d, cs, dt, sns), Relates(d, e, tr), d.refs \subseteq e.refs,
         \A r \in e.refs : r \in d.refs \/ RefOK(r, i, e, cs, dt),
         tr # i \/ (\E r \in e.refs : r.trace = i)
                \/ (e.joined /\ \E sn \in sns : sn.trace = i /\ sn.seg # i)
  PROVE  DataOK(i, e, cs, dt, sns) /\ Evolves(d, e) /\ tr \in Range(e.traces)
<1>0. IsData(d) /\ IsData(e) /\ d.traces \in Seq(Int) /\ Len(d.traces) # 0
  BY DEF DataOK, IsData, Relates
<1>1. CASE d.fresh
  <2>1. e.traces = <<tr>>
    BY <1>1 DEF Relates
  <2>2. Head(e.traces) = tr /\ tr \in Range(e.traces)
    BY <2>1 DEF Range
  <2>3. PICK o : d.traces[1] = o /\ Len(d.traces) = 1 /\ d.refs = {}
    BY <1>1 DEF DataOK
  <2>4. Head(d.traces) = o /\ Range(d.traces) = {o}
    BY <1>0, <2>3 DEF Range
  <2>5. e.split = (d.split \/ (d.gave /\ tr # o))
    BY <1>1, <2>4 DEF Relates
  <2>6. Evolves(d, e)
    BY <2>2, <2>4, <2>5 DEF Evolves, Relates
  <2>7. Leads(i, e, sns)
    BY <2>2 DEF Leads
  <2>8. \A r \in e.refs : RefOK(r, i, e, cs, dt)
    BY <2>3
  <2>9. \A u \in e.senders : u \in 1 .. Len(cs) /\ (cs[u].noop => cs[i].noop)
    BY DEF DataOK, Relates
  <2>10. e.fresh = FALSE
    BY DEF Relates
  <2> QED BY <1>0, <2>2, <2>6, <2>7, <2>8, <2>9, <2>10 DEF DataOK
<1>2. CASE ~d.fresh
  <2>1. e.traces = Append(d.traces, tr)
    BY <1>2 DEF Relates
  <2>2. /\ Len(e.traces) = Len(d.traces) + 1 /\ e.traces[Len(d.traces) + 1] = tr
        /\ \A j \in 1 .. Len(d.traces) : e.traces[j] = d.traces[j]
    BY <1>0, <2>1, AppendProperties
  <2>3. Head(e.traces) = Head(d.traces)
    BY SMTT(30), <1>0, <2>2 DEF IsData
  <2>4. tr \in Range(e.traces) /\ \A x \in Range(d.traces) : x \in Range(e.traces)
    <3>1. PICK q \in Seq(Int), p \in Seq(Int) : q = e.traces /\ p = d.traces
      BY <1>0 DEF IsData
    <3>2. /\ DOMAIN q = 1 .. Len(q) /\ DOMAIN p = 1 .. Len(p) /\ Len(p) \in Nat
          /\ Len(q) = Len(p) + 1 /\ q[Len(p) + 1] = tr /\ \A j \in 1 .. Len(p) : q[j] = p[j]
      BY <2>2, <3>1
    <3>3. tr \in Range(q) /\ \A x \in Range(p) : x \in Range(q)
      BY <3>2 DEF Range
    <3> QED BY <3>1, <3>3
  <2>5. e.split = d.split
    BY <1>0, <1>2 DEF Relates, IsData
  <2>6. Evolves(d, e)
    BY <2>4, <2>5 DEF Evolves, Relates
  <2>7. Leads(i, e, sns)
    BY <1>2, <2>3 DEF DataOK, Leads, Relates
  <2>8. \A r \in e.refs : RefOK(r, i, e, cs, dt)
    <3> SUFFICES ASSUME NEW r \in d.refs PROVE RefOK(r, i, e, cs, dt)
      OBVIOUS
    <3>1. RefOK(r, i, d, cs, dt)
      BY DEF DataOK
    <3> QED BY <2>4, <3>1 DEF RefOK
  <2>9. \A u \in e.senders : u \in 1 .. Len(cs) /\ (cs[u].noop => cs[i].noop)
    BY DEF DataOK, Relates
  <2>10. e.fresh = FALSE
    BY DEF Relates
  <2> QED BY <1>0, <2>4, <2>6, <2>7, <2>8, <2>9, <2>10 DEF DataOK
<1> QED BY <1>1, <1>2

(* Every other change leaves the traces and the references alone.          *)
Retains(d, e) ==
  /\ IsData(e) /\ e.traces = d.traces /\ e.fresh = d.fresh /\ e.refs = d.refs
  /\ e.split = d.split /\ (d.gave => e.gave) /\ (d.joined => e.joined)

LEMMA RetainsOK ==
  ASSUME NEW i, NEW d, NEW e, NEW cs, NEW dt, NEW sns,
         DataOK(i, d, cs, dt, sns), Retains(d, e),
         \A u \in e.senders : u \in d.senders \/ (u \in 1 .. Len(cs) /\ (cs[u].noop => cs[i].noop))
  PROVE  DataOK(i, e, cs, dt, sns) /\ Evolves(d, e)
<1>1. Evolves(d, e)
  BY DEF Evolves, Retains
<1>2. Leads(i, d, sns) => Leads(i, e, sns)
  BY DEF Leads, Retains
<1>3. \A r \in e.refs : RefOK(r, i, e, cs, dt)
  BY DEF DataOK, RefOK, Retains
<1>4. \A u \in e.senders : u \in 1 .. Len(cs) /\ (cs[u].noop => cs[i].noop)
  BY DEF DataOK
<1> QED BY <1>1, <1>2, <1>3, <1>4 DEF DataOK, Retains

LEMMA SendersAdded ==
  ASSUME NEW d, IsData(d), NEW v
  PROVE  /\ Retains(d, [d EXCEPT !.senders = v])
         /\ [d EXCEPT !.senders = v].senders = v
<1>1. PICK e : e = [d EXCEPT !.senders = v]
  OBVIOUS
<1>2. e = [traces |-> d.traces, fresh |-> d.fresh, corr |-> d.corr, refs |-> d.refs,
           gave |-> d.gave, split |-> d.split, joined |-> d.joined, senders |-> v]
  BY <1>1 DEF IsData
<1>3. /\ e.traces = d.traces /\ e.fresh = d.fresh /\ e.corr = d.corr /\ e.refs = d.refs
      /\ e.gave = d.gave /\ e.split = d.split /\ e.joined = d.joined /\ e.senders = v
  BY <1>2
<1>4. IsData(e)
  BY <1>2, <1>3 DEF IsData
<1> QED BY <1>1, <1>3, <1>4 DEF Retains

LEMMA GivenOut ==
  ASSUME NEW d, IsData(d)
  PROVE  /\ Retains(d, [d EXCEPT !.gave = TRUE])
         /\ [d EXCEPT !.gave = TRUE].gave = TRUE
         /\ [d EXCEPT !.gave = TRUE].senders = d.senders
<1>1. PICK e : e = [d EXCEPT !.gave = TRUE]
  OBVIOUS
<1>2. e = [traces |-> d.traces, fresh |-> d.fresh, corr |-> d.corr, refs |-> d.refs,
           gave |-> TRUE, split |-> d.split, joined |-> d.joined, senders |-> d.senders]
  BY <1>1 DEF IsData
<1>3. /\ e.traces = d.traces /\ e.fresh = d.fresh /\ e.corr = d.corr /\ e.refs = d.refs
      /\ e.gave = TRUE /\ e.split = d.split /\ e.joined = d.joined /\ e.senders = d.senders
  BY <1>2
<1>4. IsData(e)
  BY <1>2, <1>3 DEF IsData
<1> QED BY <1>1, <1>3, <1>4 DEF Retains

(* The correlation context, which no reference depends on.                 *)
LEMMA CorrelationSet ==
  ASSUME NEW d, IsData(d), NEW v
  PROVE  LET e == [d EXCEPT !.corr = v]
         IN /\ IsData(e) /\ e.traces = d.traces /\ e.fresh = d.fresh /\ e.refs = d.refs
            /\ e.gave = d.gave /\ e.split = d.split /\ e.joined = d.joined /\ e.senders = d.senders
<1>1. PICK e : e = [d EXCEPT !.corr = v]
  OBVIOUS
<1>2. e = [traces |-> d.traces, fresh |-> d.fresh, corr |-> v, refs |-> d.refs,
           gave |-> d.gave, split |-> d.split, joined |-> d.joined, senders |-> d.senders]
  BY <1>1 DEF IsData
<1>3. /\ e.traces = d.traces /\ e.fresh = d.fresh /\ e.corr = v /\ e.refs = d.refs
      /\ e.gave = d.gave /\ e.split = d.split /\ e.joined = d.joined /\ e.senders = d.senders
  BY <1>2
<1>4. IsData(e)
  BY <1>2, <1>3 DEF IsData
<1> QED BY <1>1, <1>3, <1>4

LEMMA RefsSet ==
  ASSUME NEW d, IsData(d), NEW v
  PROVE  LET e == [d EXCEPT !.refs = v]
         IN /\ IsData(e) /\ e.traces = d.traces /\ e.fresh = d.fresh /\ e.refs = v
            /\ e.gave = d.gave /\ e.split = d.split /\ e.joined = d.joined /\ e.senders = d.senders
<1>1. PICK e : e = [d EXCEPT !.refs = v]
  OBVIOUS
<1>2. e = [traces |-> d.traces, fresh |-> d.fresh, corr |-> d.corr, refs |-> v,
           gave |-> d.gave, split |-> d.split, joined |-> d.joined, senders |-> d.senders]
  BY <1>1 DEF IsData
<1>3. /\ e.traces = d.traces /\ e.fresh = d.fresh /\ e.corr = d.corr /\ e.refs = v
      /\ e.gave = d.gave /\ e.split = d.split /\ e.joined = d.joined /\ e.senders = d.senders
  BY <1>2
<1>4. IsData(e)
  BY <1>2, <1>3 DEF IsData
<1> QED BY <1>1, <1>3, <1>4

JoinsTrace(d, v, w, e) == e = [d EXCEPT !.refs = v, !.corr = w, !.joined = TRUE]

JoinedAs(d, v, e) ==
  /\ IsData(e) /\ e.traces = d.traces /\ e.fresh = d.fresh /\ e.refs = v
  /\ e.gave = d.gave /\ e.split = d.split /\ e.joined = TRUE /\ e.senders = d.senders

LEMMA JoinedSet ==
  ASSUME NEW d, IsData(d), NEW v, NEW w, NEW e, JoinsTrace(d, v, w, e)
  PROVE  JoinedAs(d, v, e)
<1>2. e = [traces |-> d.traces, fresh |-> d.fresh, corr |-> w, refs |-> v,
           gave |-> d.gave, split |-> d.split, joined |-> TRUE, senders |-> d.senders]
  BY DEF IsData, JoinsTrace
<1>3. /\ e.traces = d.traces /\ e.fresh = d.fresh /\ e.corr = w /\ e.refs = v
      /\ e.gave = d.gave /\ e.split = d.split /\ e.joined = TRUE /\ e.senders = d.senders
  BY <1>2
<1>4. IsData(e)
  BY <1>2, <1>3 DEF IsData
<1> QED BY <1>3, <1>4 DEF JoinedAs

LEMMA TraceRelated ==
  ASSUME NEW d, IsData(d), NEW tr \in Int
  PROVE  tr \in Range(IF d.fresh THEN <<tr>> ELSE Append(d.traces, tr))
<1>1. tr \in Range(<<tr>>)
  BY DEF Range
<1>2. PICK p \in Seq(Int) : p = d.traces
  BY DEF IsData
<1>3. PICK q \in Seq(Int) : q = Append(p, tr)
  BY AppendProperties
<1>4. DOMAIN q = 1 .. Len(q) /\ Len(p) \in Nat /\ Len(q) = Len(p) + 1 /\ q[Len(p) + 1] = tr
  BY <1>3, AppendProperties
<1>5. tr \in Range(q)
  BY <1>4 DEF Range
<1> QED BY <1>1, <1>2, <1>3, <1>5

(* Span.extract of any header that was sent.                               *)
LEMMA ExtractedOK ==
  ASSUME NEW i \in Nat, i # 0, NEW d, NEW c, NEW cs, NEW dt, NEW sns,
         DataOK(i, d, cs, dt, sns), CarrierOK(c, cs, dt)
  PROVE  DataOK(i, Extracted(d, i, c), cs, dt, sns) /\ Evolves(d, Extracted(d, i, c))
<1>1. PICK tr \in Int : tr = IF IsValid(c) THEN c.trace ELSE -i
  BY DEF CarrierOK
<1>2. PICK x : x = Related(d, tr)
  OBVIOUS
<1>3. IsData(d)
  BY DEF DataOK
<1>4. Relates(d, x, tr) /\ x.refs = d.refs /\ IsData(x)
  BY <1>2, <1>3, RelatedIs DEF Relates
<1>5. PICK y : y = [x EXCEPT !.corr = Kept(c.corr)]
  OBVIOUS
<1>6. /\ IsData(y) /\ y.traces = x.traces /\ y.fresh = x.fresh /\ y.refs = x.refs
      /\ y.gave = x.gave /\ y.split = x.split /\ y.joined = x.joined /\ y.senders = x.senders
  BY <1>4, <1>5, CorrelationSet
<1>7. Relates(d, y, tr) /\ y.refs = d.refs
  BY <1>4, <1>6 DEF Relates
<1>8. CASE ~IsValid(c)
  <2>1. Extracted(d, i, c) = y /\ tr # i
    BY <1>1, <1>2, <1>5, <1>8 DEF Extracted
  <2>2. DataOK(i, y, cs, dt, sns) /\ Evolves(d, y)
    BY <1>7, <2>1, RelatesOK
  <2> QED BY <2>1, <2>2
<1>9. CASE IsValid(c)
  <2>1. PICK r : r = [type |-> "CrossProcess", seg |-> c.seg, sid |-> c.sid, trace |-> c.trace]
    OBVIOUS
  <2>2. r.type = "CrossProcess" /\ r.seg = c.seg /\ r.sid = c.sid /\ r.trace = tr /\ c.trace = tr
    BY <1>1, <1>9, <2>1
  <2>3. PICK z : z = [y EXCEPT !.refs = d.refs \cup {r}]
    OBVIOUS
  <2>4. Extracted(d, i, c) = z
    <3>1. Extracted(d, i, c) = [y EXCEPT !.refs = y.refs \cup {r}]
      BY <1>1, <1>2, <1>5, <1>9, <2>1 DEF Extracted
    <3> QED BY <1>7, <2>3, <3>1
  <2>5. /\ IsData(z) /\ z.traces = y.traces /\ z.fresh = y.fresh /\ z.refs = d.refs \cup {r}
        /\ z.gave = y.gave /\ z.split = y.split /\ z.joined = y.joined /\ z.senders = y.senders
    BY <1>6, <2>3, RefsSet
  <2>6. Relates(d, z, tr)
    BY <1>7, <2>5 DEF Relates
  <2>8. tr \in Range(z.traces)
    <3>1. IsData(z) /\ z.traces = IF d.fresh THEN <<tr>> ELSE Append(d.traces, tr)
      BY <2>6 DEF Relates
    <3> QED BY <1>3, <3>1, TraceRelated
  <2>9. RefOK(r, i, z, cs, dt)
    BY <1>9, <2>2, <2>8 DEF RefOK, CarrierOK
  <2>10. DataOK(i, z, cs, dt, sns) /\ Evolves(d, z)
    <3>1. \A q \in z.refs : q \in d.refs \/ RefOK(q, i, z, cs, dt)
      BY <2>5, <2>9
    <3>2. tr # i \/ \E q \in z.refs : q.trace = i
      BY <2>2, <2>5
    <3>3. d.refs \subseteq z.refs
      BY <2>5
    <3> QED BY <2>6, <3>1, <3>2, <3>3, RelatesOK
  <2> QED BY <2>4, <2>10
<1> QED BY <1>8, <1>9

(* context.continued of any snapshot that was captured.                    *)
LEMMA ContinuedOK ==
  ASSUME NEW i, NEW d, NEW sn, NEW noop \in BOOLEAN, NEW ref \in BOOLEAN,
         NEW cs, NEW dt, NEW sns, sn \in sns,
         DataOK(i, d, cs, dt, sns), SnapshotOK(sn, cs, dt)
  PROVE  /\ DataOK(i, Continued(i, noop, d, sn, ref), cs, dt, sns)
         /\ Evolves(d, Continued(i, noop, d, sn, ref))
<1>1. IsData(d)
  BY DEF DataOK
<1>2. CASE noop
  <2>m. PICK m : m = Merged(d.corr, sn.corr)
    OBVIOUS
  <2>1. PICK e : e = [d EXCEPT !.refs = d.refs, !.corr = m, !.joined = TRUE]
    OBVIOUS
  <2>2. /\ IsData(e) /\ e.traces = d.traces /\ e.fresh = d.fresh /\ e.refs = d.refs
        /\ e.gave = d.gave /\ e.split = d.split /\ e.joined = TRUE /\ e.senders = d.senders
    <3>1. JoinsTrace(d, d.refs, m, e)
      BY <2>1 DEF JoinsTrace
    <3>2. JoinedAs(d, d.refs, e)
      BY <1>1, <3>1, JoinedSet
    <3> QED BY <3>2 DEF JoinedAs
  <2>3. Continued(i, noop, d, sn, ref) = e
    <3>1. Continued(i, noop, d, sn, ref) = [d EXCEPT !.corr = m, !.joined = TRUE]
      BY <1>2, <2>m DEF Continued
    <3>2. [d EXCEPT !.corr = m, !.joined = TRUE] = [d EXCEPT !.refs = d.refs, !.corr = m, !.joined = TRUE]
      BY <1>1 DEF IsData
    <3> QED BY <2>1, <3>1, <3>2
  <2>4. Retains(d, e)
    BY <2>2 DEF Retains
  <2>5. DataOK(i, e, cs, dt, sns) /\ Evolves(d, e)
    BY <2>2, <2>4, RetainsOK
  <2> QED BY <2>3, <2>5
<1>3. CASE ~noop /\ ~(sn.seg # 0 /\ FromElsewhere(sn, i))
  <2>1. Continued(i, noop, d, sn, ref) = d
    BY <1>3 DEF Continued
  <2> QED BY <2>1 DEF Evolves
<1>4. CASE ~noop /\ sn.seg # 0 /\ FromElsewhere(sn, i)
  <2>1. PICK tr \in Int : tr = sn.trace
    BY DEF SnapshotOK
  <2>2. PICK x : x = Related(d, tr)
    OBVIOUS
  <2>3. Relates(d, x, tr) /\ x.refs = d.refs /\ IsData(x)
    BY <1>1, <2>2, RelatedIs DEF Relates
  <2>4. PICK r : r = [type |-> "CrossThread", seg |-> sn.seg, sid |-> sn.sid, trace |-> sn.trace]
    OBVIOUS
  <2>5. r.type = "CrossThread" /\ r.seg = sn.seg /\ r.sid = sn.sid /\ r.trace = tr
    BY <2>1, <2>4
  <2>6. PICK rs : rs = IF ref THEN d.refs \cup {r} ELSE d.refs
    OBVIOUS
  <2>m. PICK m : m = Merged(x.corr, sn.corr)
    OBVIOUS
  <2>7. PICK e : e = [x EXCEPT !.refs = rs, !.corr = m, !.joined = TRUE]
    OBVIOUS
  <2>8. Continued(i, noop, d, sn, ref) = e
    BY <1>4, <2>1, <2>2, <2>3, <2>4, <2>6, <2>7, <2>m DEF Continued
  <2>9. /\ IsData(e) /\ e.traces = x.traces /\ e.fresh = x.fresh /\ e.refs = rs
        /\ e.gave = x.gave /\ e.split = x.split /\ e.joined = TRUE /\ e.senders = x.senders
    <3>1. JoinsTrace(x, rs, m, e)
      BY <2>7 DEF JoinsTrace
    <3>2. JoinedAs(x, rs, e)
      BY <2>3, <3>1, JoinedSet
    <3> QED BY <3>2 DEF JoinedAs
  <2>10. Relates(d, e, tr)
    BY <2>3, <2>9 DEF Relates
  <2>11. tr \in Range(e.traces)
    <3>1. e.traces = IF d.fresh THEN <<tr>> ELSE Append(d.traces, tr)
      BY <2>10 DEF Relates
    <3> QED BY <1>1, <3>1, TraceRelated
  <2>12. RefOK(r, i, e, cs, dt)
    BY <1>4, <2>1, <2>5, <2>11 DEF RefOK, SnapshotOK, FromElsewhere
  <2>13. DataOK(i, e, cs, dt, sns) /\ Evolves(d, e)
    <3>1. \A q \in e.refs : q \in d.refs \/ RefOK(q, i, e, cs, dt)
      BY <2>6, <2>9, <2>12
    <3>2. d.refs \subseteq e.refs
      BY <2>6, <2>9
    <3>3. tr # i \/ (e.joined /\ \E q \in sns : q.trace = i /\ q.seg # i)
      BY <1>4, <2>1, <2>9 DEF FromElsewhere
    <3> QED BY <2>10, <3>1, <3>2, <3>3, RelatesOK
  <2> QED BY <2>8, <2>13
<1> QED BY <1>2, <1>3, <1>4

-----------------------------------------------------------------------------
(* The steps.                                                              *)

(* The span of the innermost with block, after a step that opened one.     *)
LEMMA TopFacts ==
  ASSUME SpanInv', NEW t \in Task, blocks'[t] # <<>>
  PROVE  /\ ctxs' \in Seq(CtxType) /\ TopContext(t) \in 1 .. Len(ctxs')
         /\ ctxs'[TopContext(t)].noop \in BOOLEAN
         /\ ctxs'[TopContext(t)].noop = FALSE => TopSid(t) \in 0 .. ctxs'[TopContext(t)].sid - 1
<1>1. PICK ss, cs, b : ss = spans' /\ cs = ctxs' /\ b = blocks'[t]
  OBVIOUS
<1>2. /\ ObjectsOK(ss, cs) /\ b \in Seq(Nat) /\ b # <<>>
      /\ \A j \in 1 .. Len(b) : b[j] \in 1 .. Len(ss)
      /\ \A c \in 1 .. Len(cs) : CtxOK(cs[c], c, ss)
  BY <1>1 DEF SpanInv, StackInv, CtxInv, CtxNo, StackOK, StackAt, Within
<1>3. PICK x : x = b[Len(b)]
  OBVIOUS
<1>4. x \in 1 .. Len(ss) /\ x = Last(b)
  BY <1>2, <1>3 DEF Last
<1>5. PICK c : c = ss[x].ctx
  OBVIOUS
<1>6. c \in 1 .. Len(cs) /\ cs \in Seq(CtxType) /\ x \in SpansIn(c, ss)
  BY <1>2, <1>4, <1>5 DEF ObjectsOK, SpansIn
<1>7. cs[c].noop \in BOOLEAN
  <2>1. cs[c] \in CtxType
    BY <1>6
  <2> QED BY <2>1 DEF CtxType
<1>8. cs[c].noop = FALSE => ss[x].sid \in 0 .. cs[c].sid - 1
  BY <1>2, <1>6 DEF CtxOK, TracedOK, IdsOK
<1>9. TopContext(t) = c /\ TopSid(t) = ss[x].sid
  BY <1>1, <1>4, <1>5 DEF TopContext, TopSid
<1> QED BY <1>1, <1>6, <1>7, <1>8, <1>9

LEMMA EntersTop ==
  ASSUME SpanInv, NEW t \in Task, NEW s, NEW ss, NEW cs, Enter(t, s, ss, cs)
  PROVE  blocks'[t] # <<>>
<1>1. blocks \in [Task -> Seq(Nat)]
  BY DEF SpanInv, StackInv
<1>2. PICK b \in Seq(Nat) : b = blocks[t]
  BY <1>1
<1>3. blocks'[t] = Append(b, s)
  BY <1>1, <1>2 DEF Enter
<1> QED BY <1>2, <1>3

LEMMA OpensTop ==
  ASSUME SpanInv, NEW t \in Task, NEW kind,
         OpenIgnored(t) \/ OpenNoop(t) \/ OpenInherited(t, kind) \/ OpenNew(t, kind)
  PROVE  blocks'[t] # <<>>
BY EntersTop DEF OpenIgnored, OpenDark, OpenNoop, OpenInherited, OpenNew

LEMMA DarkTop ==
  ASSUME SpanInv, NEW t \in Task, OpenDark(t)
  PROVE  ctxs'[TopContext(t)].noop = TRUE
<1>1. PICK n \in Nat : n = Len(spans)
  BY StackBase DEF BaseInv, ObjectsOK
<1>2. /\ blocks' = [blocks EXCEPT ![t] = Append(@, n + 1)]
      /\ ctxs'[spans'[n + 1].ctx].noop = TRUE
  BY <1>1, StackBase, OpensDark DEF OpensIn, Opens, Pushes
<1>3. PICK b \in Seq(Nat) : b = blocks[t]
  BY DEF SpanInv, StackInv
<1>4. blocks'[t] = Append(b, n + 1)
  BY <1>2, <1>3 DEF SpanInv, StackInv
<1>5. Len(Append(b, n + 1)) = Len(b) + 1 /\ Append(b, n + 1)[Len(b) + 1] = n + 1
  BY AppendProperties
<1>6. TopContext(t) = spans'[n + 1].ctx
  BY <1>4, <1>5 DEF TopContext, Last
<1> QED BY <1>2, <1>6

(* Steps that make no context.                                             *)
LEMMA SameContexts ==
  ASSUME SpanInv, SpanInv', NEW t \in Task, OpenNoop(t) \/ OpenInherited(t, "Entry") \/ Close(t)
  PROVE  Len(ctxs') = Len(ctxs)
<1>1. ctxs \in Seq(CtxType) /\ ctxs' \in Seq(CtxType)
  BY DEF SpanInv, StackInv, ObjectsOK
<1>2. DOMAIN ctxs' = DOMAIN ctxs
  BY DEF OpenNoop, OpenInherited, Close, CloseBlock, Enter
<1>3. PICK n \in Nat, m \in Nat : n = Len(ctxs) /\ m = Len(ctxs')
  BY <1>1
<1>4. 1 .. n = 1 .. m
  BY <1>1, <1>2, <1>3
<1> QED BY <1>3, <1>4

LEMMA GrownOK ==
  ASSUME SpanInv, PropInv, [PNext]_<<vars, pvars>>
  PROVE  /\ SpanInv' /\ ctxs \in Seq(CtxType) /\ ctxs' \in Seq(CtxType) /\ Grows(ctxs, ctxs')
         /\ PropAt(ctxs', Grown, wire, snaps) /\ AllEvolve(ctxs, data, ctxs', Grown)
         /\ Len(data) = Len(ctxs) /\ (Len(ctxs') = Len(ctxs) => Grown = data)
<1>1. SpanInv' /\ Grows(ctxs, ctxs')
  BY PropagationSteps, SpanInvStep
<1>2. ctxs \in Seq(CtxType) /\ ctxs' \in Seq(CtxType)
  BY <1>1 DEF SpanInv, StackInv, ObjectsOK
<1>3. PICK cs, c2, d2, dt : cs = ctxs /\ c2 = ctxs' /\ d2 = Grown /\ dt = data
  OBVIOUS
<1>4. /\ cs \in Seq(CtxType) /\ c2 \in Seq(CtxType) /\ Grows(cs, c2) /\ PropAt(cs, dt, wire, snaps)
      /\ Adds(dt, c2, d2)
  BY <1>1, <1>2, <1>3 DEF PropInv, Grown, Adds
<1>5. PropAt(c2, d2, wire, snaps) /\ AllEvolve(cs, dt, c2, d2)
  BY <1>4, DataAdded
<1>6. Len(dt) = Len(cs) /\ (Len(c2) = Len(cs) => d2 = dt)
  BY <1>4 DEF PropAt, Adds
<1> QED BY <1>1, <1>2, <1>3, <1>5, <1>6

LEMMA NoHeaderOK ==
  ASSUME NEW w, NEW cs, NEW dt, \A c \in w : CarrierOK(c, cs, dt)
  PROVE  \A c \in w \cup {NoHeader} : CarrierOK(c, cs, dt)
<1>1. NoHeader.seg = 0 /\ NoHeader.trace = 0 /\ NoHeader.by = 0
  BY DEF NoHeader
<1>2. CarrierOK(NoHeader, cs, dt)
  BY <1>1 DEF CarrierOK, IsValid
<1> QED BY <1>2

(* Passing a header to new_entry_span.                                     *)
LEMMA SenderFacts ==
  ASSUME NEW cs, NEW dt, NEW c, CarrierOK(c, cs, dt), NEW i,
         cs[i].noop = TRUE \/ ~IsSuppressed(c)
  PROVE  \A u \in SenderOf(c) : u \in 1 .. Len(cs) /\ (cs[u].noop => cs[i].noop)
BY DEF CarrierOK, SenderOf

LEMMA SendersNoted ==
  ASSUME NEW cs \in Seq(CtxType), NEW dt, NEW w, NEW sns, PropAt(cs, dt, w, sns),
         NEW c, CarrierOK(c, cs, dt), NEW i \in 1 .. Len(cs),
         cs[i].noop = TRUE \/ ~IsSuppressed(c)
  PROVE  LET e == [dt[i] EXCEPT !.senders = @ \cup SenderOf(c)]
         IN Evolves(dt[i], e) /\ DataOK(i, e, cs, dt, sns)
<1>1. PICK d, v, e : d = dt[i] /\ v = d.senders \cup SenderOf(c) /\ e = [d EXCEPT !.senders = v]
  OBVIOUS
<1>2. DataOK(i, d, cs, dt, sns)
  BY <1>1 DEF PropAt
<1>3. IsData(d)
  BY <1>2 DEF DataOK
<1>4. Retains(d, e) /\ e.senders = v
  BY <1>1, <1>3, SendersAdded
<1>5. \A u \in e.senders : u \in d.senders \/ (u \in 1 .. Len(cs) /\ (cs[u].noop => cs[i].noop))
  BY <1>1, <1>4, SenderFacts
<1>6. DataOK(i, e, cs, dt, sns) /\ Evolves(d, e)
  BY <1>2, <1>4, <1>5, RetainsOK
<1> QED BY <1>1, <1>6

LEMMA EntryOK ==
  ASSUME SpanInv, PropInv, [PNext]_<<vars, pvars>>,
         NEW t \in Task, NEW c \in wire \cup {NoHeader}, NewEntry(t, c)
  PROVE  PropInv'
<1>1. /\ SpanInv' /\ ctxs' \in Seq(CtxType) /\ PropAt(ctxs', Grown, wire, snaps)
      /\ Len(ctxs') = Len(ctxs) => Grown = data
  BY GrownOK
<1>2. PICK cs, g : cs = ctxs' /\ g = Grown
  OBVIOUS
<1>3. cs \in Seq(CtxType) /\ PropAt(cs, g, wire, snaps) /\ CarrierOK(c, cs, g)
  BY <1>1, <1>2, NoHeaderOK DEF PropAt
<1>4. wire' = wire /\ snaps' = snaps
  BY DEF NewEntry
<1>5. SUFFICES PropAt(cs, data', wire, snaps)
  BY <1>2, <1>4 DEF PropInv
<1>6. PICK i : i = TopContext(t)
  OBVIOUS
<1>7. PICK e : e = [g[i] EXCEPT !.senders = @ \cup SenderOf(c)]
  OBVIOUS
<1>8. ASSUME i \in 1 .. Len(cs), cs[i].noop = TRUE \/ ~IsSuppressed(c)
      PROVE  /\ Evolves(g[i], e) /\ DataOK(i, e, cs, g, snaps)
             /\ PropAt(cs, [g EXCEPT ![i] = e], wire, snaps)
  BY <1>3, <1>7, <1>8, SendersNoted, DataChanged
<1>9. CASE EntryDark(t, c)
  <2>1. OpenDark(t) /\ blocks'[t] # <<>>
    BY <1>9, OpensTop DEF EntryDark, OpenIgnored
  <2>2. i \in 1 .. Len(cs) /\ cs[i].noop = TRUE
    BY <1>1, <1>2, <1>6, <2>1, TopFacts, DarkTop
  <2>3. data' = [g EXCEPT ![i] = e]
    BY <1>2, <1>6, <1>7, <1>9 DEF EntryDark
  <2> QED BY <1>8, <2>2, <2>3
<1>10. CASE EntryNoop(t, c)
  <2>1. Len(ctxs') = Len(ctxs) /\ data' = data
    BY <1>1, <1>10, SameContexts DEF EntryNoop
  <2> QED BY <1>1, <1>2, <1>3, <2>1
<1>11. CASE EntryInherited(t, c)
  <2>1. OpenInherited(t, "Entry") /\ blocks'[t] # <<>> /\ ~IsSuppressed(c)
    BY <1>11, OpensTop DEF EntryInherited
  <2>2. i \in 1 .. Len(cs)
    BY <1>1, <1>2, <1>6, <2>1, TopFacts
  <2>3. g = data
    BY <1>1, <1>2, <2>1, SameContexts
  <2>4. data' = [g EXCEPT ![i] = e]
    BY <1>6, <1>7, <1>11, <2>3 DEF EntryInherited
  <2> QED BY <1>8, <2>1, <2>2, <2>4
<1>12. CASE EntryNew(t, c)
  <2>1. OpenNew(t, "Entry") /\ blocks'[t] # <<>> /\ ~IsSuppressed(c)
    BY <1>12, OpensTop DEF EntryNew
  <2>2. i \in 1 .. Len(cs)
    BY <1>1, <1>2, <1>6, <2>1, TopFacts
  <2>3. Evolves(g[i], e) /\ DataOK(i, e, cs, g, snaps) /\ PropAt(cs, [g EXCEPT ![i] = e], wire, snaps)
    BY <1>8, <2>1, <2>2
  <2>4. data' = [g EXCEPT ![i] = IF IsValid(c) THEN Extracted(e, i, c) ELSE e]
    BY <1>2, <1>6, <1>7, <1>12 DEF EntryNew
  <2>5. PICK x : x = Extracted(e, i, c)
    OBVIOUS
  <2>6. i \in Nat /\ i # 0
    BY <1>3, <2>2
  <2>7. DataOK(i, x, cs, g, snaps) /\ Evolves(e, x)
    BY <1>3, <2>3, <2>5, <2>6, ExtractedOK
  <2>8. Evolves(g[i], x)
    BY <2>3, <2>7 DEF Evolves
  <2>9. PropAt(cs, [g EXCEPT ![i] = x], wire, snaps)
    BY <1>3, <2>2, <2>7, <2>8, DataChanged
  <2> QED BY <2>3, <2>4, <2>5, <2>9
<1> QED BY <1>9, <1>10, <1>11, <1>12 DEF NewEntry

LEMMA PlainOK ==
  ASSUME SpanInv, PropInv, [PNext]_<<vars, pvars>>, NEW t \in Task, NewPlain(t, "Local")
  PROVE  PropInv'
<1>1. PropAt(ctxs', Grown, wire, snaps)
  BY GrownOK
<1>2. data' = Grown /\ wire' = wire /\ snaps' = snaps
  BY DEF NewPlain
<1> QED BY <1>1, <1>2 DEF PropInv

(* What a segment gives out is in its traces, and it is marked.            *)
Marks(dt, i, d2) == d2 = [dt EXCEPT ![i] = [dt[i] EXCEPT !.gave = TRUE]]

LEMMA GivesOut ==
  ASSUME NEW cs \in Seq(CtxType), NEW dt, NEW w, NEW sns, PropAt(cs, dt, w, sns),
         NEW i \in 1 .. Len(cs), NEW d2, Marks(dt, i, d2)
  PROVE  /\ PropAt(cs, d2, w, sns) /\ Head(dt[i].traces) \in Int
         /\ cs[i].noop = FALSE =>
              \A sid \in 0 .. cs[i].sid - 1 : Resolves(i, sid, Head(dt[i].traces), cs, d2)
<1>1. PICK d, e : d = dt[i] /\ e = [d EXCEPT !.gave = TRUE]
  OBVIOUS
<1>2. DataOK(i, d, cs, dt, sns)
  BY <1>1 DEF PropAt
<1>3. IsData(d)
  BY <1>2 DEF DataOK
<1>4. Retains(d, e) /\ e.gave = TRUE /\ e.senders = d.senders
  BY <1>1, <1>3, GivenOut
<1>5. DataOK(i, e, cs, dt, sns) /\ Evolves(d, e)
  BY <1>2, <1>4, RetainsOK
<1>6. PropAt(cs, d2, w, sns) /\ d2[i] = e
  <2>1. d2 = [dt EXCEPT ![i] = e]
    BY <1>1 DEF Marks
  <2>2. Evolves(dt[i], e)
    BY <1>1, <1>5
  <2>3. PropAt(cs, [dt EXCEPT ![i] = e], w, sns) /\ [dt EXCEPT ![i] = e][i] = e
    BY <1>5, <2>2, DataChanged
  <2> QED BY <2>1, <2>3
<1>7. PICK q \in Seq(Int) : q = d.traces /\ Len(q) # 0
  BY <1>3 DEF IsData
<1>8. Head(q) \in Int /\ Head(q) \in Range(q)
  BY <1>7 DEF Range
<1>9. e.traces = q
  BY <1>4, <1>7 DEF Retains
<1>10. cs[i].noop = FALSE => \A sid \in 0 .. cs[i].sid - 1 : Resolves(i, sid, Head(q), cs, d2)
  BY <1>4, <1>6, <1>8, <1>9 DEF Resolves
<1> QED BY <1>1, <1>6, <1>7, <1>8, <1>10

LEMMA ExitOK ==
  ASSUME SpanInv, PropInv, [PNext]_<<vars, pvars>>, NEW t \in Task, NewExit(t)
  PROVE  PropInv'
<1>1. SpanInv' /\ ctxs' \in Seq(CtxType) /\ PropAt(ctxs', Grown, wire, snaps)
  BY GrownOK
<1>2. PICK cs, g, i, sid : cs = ctxs' /\ g = Grown /\ i = TopContext(t) /\ sid = TopSid(t)
  OBVIOUS
<1>3. /\ cs \in Seq(CtxType) /\ PropAt(cs, g, wire, snaps) /\ i \in 1 .. Len(cs)
      /\ cs[i].noop \in BOOLEAN /\ (cs[i].noop = FALSE => sid \in 0 .. cs[i].sid - 1)
  <2>1. blocks'[t] # <<>>
    BY OpensTop DEF NewExit
  <2> QED BY <1>1, <1>2, <2>1, TopFacts
<1>4. i # 0 /\ i # Elsewhere
  BY <1>3 DEF Elsewhere
<1>5. CASE cs[i].noop = TRUE
  <2>1. data' = g /\ wire' = wire \cup {NoopCarrier(i)} /\ snaps' = snaps
    BY <1>2, <1>5 DEF NewExit
  <2>2. PICK c : c = NoopCarrier(i)
    OBVIOUS
  <2>3. c.seg = 0 /\ c.trace = 0 /\ c.text = TRUE /\ c.by = i
    BY <2>2 DEF NoopCarrier, NoHeader
  <2>4. CarrierOK(c, cs, g)
    BY <1>3, <2>3 DEF CarrierOK, IsValid, IsSuppressed
  <2>5. PropAt(cs, g, wire \cup {c}, snaps)
    BY <1>3, <2>4, CarrierSent
  <2> QED BY <1>2, <2>1, <2>2, <2>5 DEF PropInv
<1>6. CASE cs[i].noop = FALSE
  <2>1. PICK d2, c : d2 = [g EXCEPT ![i] = [g[i] EXCEPT !.gave = TRUE]] /\ c = Injected(i, sid, g[i])
    OBVIOUS
  <2>2. data' = d2 /\ wire' = wire \cup {c} /\ snaps' = snaps
    BY <1>2, <1>6, <2>1 DEF NewExit
  <2>3. c.seg = i /\ c.sid = sid /\ c.trace = Head(g[i].traces) /\ c.text = TRUE /\ c.by = i
    BY <2>1 DEF Injected
  <2>4. /\ PropAt(cs, d2, wire, snaps) /\ Head(g[i].traces) \in Int
        /\ Resolves(i, sid, Head(g[i].traces), cs, d2)
    BY <1>3, <1>6, <2>1, GivesOut DEF Marks
  <2>5. CarrierOK(c, cs, d2)
    BY <1>3, <1>6, <2>3, <2>4 DEF CarrierOK
  <2>6. PropAt(cs, d2, wire \cup {c}, snaps)
    BY <2>4, <2>5, CarrierSent
  <2> QED BY <1>2, <2>2, <2>6 DEF PropInv
<1> QED BY <1>3, <1>5, <1>6

LEMMA ExtractOK ==
  ASSUME SpanInv, PropInv, NEW t \in Task, NEW c \in wire \cup {NoHeader}, Extract(t, c)
  PROVE  PropInv'
<1>1. PICK i : i = spans[Peek(t)].ctx
  OBVIOUS
<1>2. i \in 1 .. Len(ctxs) /\ ctxs \in Seq(CtxType)
  BY <1>1, StackBase, PeekFacts DEF Extract, SpanInv, StackInv, ObjectsOK
<1>3. PropAt(ctxs, data, wire, snaps) /\ CarrierOK(c, ctxs, data)
  BY NoHeaderOK DEF PropInv, PropAt
<1>4. PICK d, e : d = data[i] /\ e = Extracted(d, i, c)
  OBVIOUS
<1>5. i \in Nat /\ i # 0 /\ DataOK(i, d, ctxs, data, snaps)
  BY <1>2, <1>3, <1>4 DEF PropAt
<1>6. DataOK(i, e, ctxs, data, snaps) /\ Evolves(d, e)
  BY <1>3, <1>4, <1>5, ExtractedOK
<1>7. PropAt(ctxs, [data EXCEPT ![i] = e], wire, snaps)
  BY <1>2, <1>3, <1>4, <1>6, DataChanged
<1>8. data' = [data EXCEPT ![i] = e] /\ ctxs' = ctxs /\ wire' = wire /\ snaps' = snaps
  BY <1>1, <1>4 DEF Extract, vars
<1> QED BY <1>7, <1>8 DEF PropInv

LEMMA PutOK ==
  ASSUME SpanInv, PropInv, NEW t \in Task, NEW k, NEW value, PutCorrelation(t, k, value)
  PROVE  PropInv'
<1>1. PICK i : i = spans[Peek(t)].ctx
  OBVIOUS
<1>2. i \in 1 .. Len(ctxs) /\ ctxs \in Seq(CtxType)
  BY <1>1, StackBase, PeekFacts DEF PutCorrelation, SpanInv, StackInv, ObjectsOK
<1>3. PropAt(ctxs, data, wire, snaps)
  BY DEF PropInv
<1>4. PICK put : data' = [data EXCEPT ![i].corr = put]
  BY <1>1 DEF PutCorrelation
<1>5. PICK d, e : d = data[i] /\ e = [d EXCEPT !.corr = put]
  OBVIOUS
<1>6. DataOK(i, d, ctxs, data, snaps) /\ IsData(d)
  BY <1>2, <1>3, <1>5 DEF PropAt, DataOK
<1>7. Retains(d, e) /\ e.senders = d.senders
  BY <1>5, <1>6, CorrelationSet DEF Retains
<1>8. DataOK(i, e, ctxs, data, snaps) /\ Evolves(d, e)
  BY <1>6, <1>7, RetainsOK
<1>9. PropAt(ctxs, [data EXCEPT ![i] = e], wire, snaps)
  BY <1>2, <1>3, <1>5, <1>8, DataChanged
<1>10. data' = [data EXCEPT ![i] = e] /\ ctxs' = ctxs /\ wire' = wire /\ snaps' = snaps
  BY <1>4, <1>5 DEF PutCorrelation, vars
<1> QED BY <1>9, <1>10 DEF PropInv

LEMMA CaptureOK ==
  ASSUME SpanInv, PropInv, NEW t \in Task, Capture(t)
  PROVE  PropInv'
<1>1. PICK x, i : x = Peek(t) /\ i = spans[x].ctx
  OBVIOUS
<1>2. /\ i \in 1 .. Len(ctxs) /\ ctxs \in Seq(CtxType) /\ x \in 1 .. Len(spans)
      /\ ctxs[i] \in CtxType
  BY <1>1, StackBase, PeekFacts DEF Capture, SpanInv, StackInv, ObjectsOK
<1>3. PropAt(ctxs, data, wire, snaps)
  BY DEF PropInv
<1>4. ctxs[i].noop \in BOOLEAN
  BY <1>2 DEF CtxType
<1>5. ctxs[i].noop = FALSE => spans[x].sid \in 0 .. ctxs[i].sid - 1
  BY <1>1, <1>2 DEF SpanInv, CtxInv, CtxNo, CtxOK, TracedOK, IdsOK, SpansIn
<1>6. PICK tr, d2 : tr = Head(data[i].traces) /\ d2 = [data EXCEPT ![i] = [data[i] EXCEPT !.gave = TRUE]]
  OBVIOUS
<1>7. /\ PropAt(ctxs, d2, wire, snaps) /\ tr \in Int
      /\ ctxs[i].noop = FALSE => Resolves(i, spans[x].sid, tr, ctxs, d2)
  BY <1>2, <1>3, <1>5, <1>6, GivesOut DEF Marks
<1>8. PICK sn : sn = [seg |-> IF ctxs[i].noop THEN 0 ELSE i, sid |-> spans[x].sid,
                      trace |-> tr, corr |-> data[i].corr]
  OBVIOUS
<1>9. sn.seg = (IF ctxs[i].noop THEN 0 ELSE i) /\ sn.sid = spans[x].sid /\ sn.trace = tr
  BY <1>8
<1>10. SnapshotOK(sn, ctxs, d2)
  BY <1>4, <1>7, <1>9 DEF SnapshotOK
<1>11. PropAt(ctxs, d2, wire, snaps \cup {sn})
  BY <1>2, <1>7, <1>10, SnapshotTaken
<1>12. data' = d2 /\ snaps' = snaps \cup {sn} /\ wire' = wire /\ ctxs' = ctxs
  BY <1>1, <1>6, <1>8 DEF Capture, vars
<1> QED BY <1>11, <1>12 DEF PropInv

LEMMA ResumeOK ==
  ASSUME SpanInv, PropInv, [PNext]_<<vars, pvars>>,
         NEW t \in Task, NEW sn \in snaps, Resume(t, sn)
  PROVE  PropInv'
<1>1. /\ SpanInv' /\ ctxs \in Seq(CtxType) /\ ctxs' \in Seq(CtxType) /\ Grows(ctxs, ctxs')
      /\ PropAt(ctxs', Grown, wire, snaps)
  BY GrownOK
<1>2. PICK cs, g : cs = ctxs' /\ g = Grown
  OBVIOUS
<1>3. cs \in Seq(CtxType) /\ PropAt(cs, g, wire, snaps) /\ SnapshotOK(sn, cs, g)
  BY <1>1, <1>2 DEF PropAt
<1>4. wire' = wire /\ snaps' = snaps
  BY DEF Resume
<1>5. SUFFICES PropAt(cs, data', wire, snaps)
  BY <1>2, <1>4 DEF PropInv
<1>6. ASSUME NEW i \in 1 .. Len(cs), NEW noop \in BOOLEAN, NEW ref \in BOOLEAN
      PROVE  PropAt(cs, [g EXCEPT ![i] = Continued(i, noop, g[i], sn, ref)], wire, snaps)
  <2>1. PICK e : e = Continued(i, noop, g[i], sn, ref)
    OBVIOUS
  <2>2. DataOK(i, g[i], cs, g, snaps)
    BY <1>3 DEF PropAt
  <2>3. DataOK(i, e, cs, g, snaps) /\ Evolves(g[i], e)
    BY <1>3, <2>1, <2>2, ContinuedOK
  <2>4. PropAt(cs, [g EXCEPT ![i] = e], wire, snaps)
    BY <1>3, <2>3, DataChanged
  <2> QED BY <2>1, <2>4
<1>7. CASE /\ OpenNoop(t) \/ OpenNew(t, "Local") \/ (OpenIgnored(t) /\ Peek(t) = NoSpan)
           /\ data' = [Grown EXCEPT ![TopContext(t)] =
                         Continued(TopContext(t), ctxs'[TopContext(t)].noop, @, sn, TRUE)]
  <2>1. PICK i, noop : i = TopContext(t) /\ noop = ctxs'[i].noop
    OBVIOUS
  <2>2. blocks'[t] # <<>>
    BY <1>7, OpensTop
  <2>3. i \in 1 .. Len(cs) /\ noop \in BOOLEAN
    BY <1>1, <1>2, <2>1, <2>2, TopFacts
  <2>4. data' = [g EXCEPT ![i] = Continued(i, noop, g[i], sn, TRUE)]
    BY <1>2, <1>7, <2>1
  <2> QED BY <1>6, <2>3, <2>4
<1>8. CASE OpenIgnored(t) /\ Peek(t) = NoSpan /\ data' = Grown
  BY <1>2, <1>3, <1>8
<1>9. CASE /\ OpenIgnored(t) /\ Peek(t) # NoSpan
           /\ data' = [Grown EXCEPT ![spans[Peek(t)].ctx] =
                         Continued(spans[Peek(t)].ctx, FALSE, @, sn, FALSE)]
  <2>1. PICK i : i = spans[Peek(t)].ctx
    OBVIOUS
  <2>2. i \in 1 .. Len(ctxs)
    BY <1>9, <2>1, StackBase, PeekFacts
  <2>3. i \in 1 .. Len(cs)
    BY <1>1, <1>2, <2>2 DEF Grows
  <2>4. data' = [g EXCEPT ![i] = Continued(i, FALSE, g[i], sn, FALSE)]
    BY <1>2, <1>9, <2>1
  <2> QED BY <1>6, <2>3, <2>4
<1> QED BY <1>7, <1>8, <1>9 DEF Resume

LEMMA PropInvStep ==
  ASSUME SpanInv, PropInv, [PNext]_<<vars, pvars>>
  PROVE  PropInv'
<1>1. CASE UNCHANGED <<vars, pvars>>
  BY <1>1 DEF PropInv, vars, pvars
<1>2. ASSUME NEW t \in Task, NEW c \in wire \cup {NoHeader}, NewEntry(t, c) PROVE PropInv'
  BY <1>2, EntryOK
<1>3. ASSUME NEW t \in Task, NEW c \in wire \cup {NoHeader}, Extract(t, c) PROVE PropInv'
  BY <1>3, ExtractOK
<1>4. ASSUME NEW t \in Task, NewPlain(t, "Local") PROVE PropInv'
  BY <1>4, PlainOK
<1>5. ASSUME NEW t \in Task, NewExit(t) PROVE PropInv'
  BY <1>5, ExitOK
<1>6. ASSUME NEW t \in Task, Capture(t) PROVE PropInv'
  BY <1>6, CaptureOK
<1>7. ASSUME NEW t \in Task, End(t) PROVE PropInv'
  <2>1. SpanInv' /\ PropAt(ctxs', Grown, wire, snaps) /\ (Len(ctxs') = Len(ctxs) => Grown = data)
    BY GrownOK
  <2>2. Len(ctxs') = Len(ctxs)
    BY <1>7, <2>1, SameContexts DEF End
  <2> QED BY <1>7, <2>1, <2>2 DEF End, pvars, PropInv
<1>8. ASSUME NEW t \in Task, NEW k, NEW v, PutCorrelation(t, k, v) PROVE PropInv'
  BY <1>8, PutOK
<1>9. ASSUME NEW t \in Task, NEW sn \in snaps, Resume(t, sn) PROVE PropInv'
  BY <1>9, ResumeOK
<1> QED BY <1>1, <1>2, <1>3, <1>4, <1>5, <1>6, <1>7, <1>8, <1>9 DEF PNext

LEMMA PropInvAlways ==
  PSpec => [](SpanInv /\ PropInv)
<1>1. PInit => SpanInv /\ PropInv
  <2> SUFFICES ASSUME PInit PROVE PropInv
    BY SpanInvBegins DEF PInit
  <2>1. ctxs = <<>> /\ data = <<>> /\ snaps = {} /\ \E q : wire = {ForeignHeader(q)}
    BY DEF PInit
  <2>2. data \in Seq(Range(data)) /\ Len(data) = Len(ctxs) /\ 1 .. Len(ctxs) = {}
    BY <2>1 DEF Range
  <2>3. ASSUME NEW q PROVE CarrierOK(ForeignHeader(q), ctxs, data)
    <3>1. ForeignTrace \in Int
      BY SpanAssumption DEF ForeignTrace
    <3>2. PICK c : c = ForeignHeader(q)
      OBVIOUS
    <3>3. c.seg = Elsewhere /\ c.trace = ForeignTrace /\ c.by = 0
      BY <3>2 DEF ForeignHeader
    <3> QED BY <3>1, <3>2, <3>3 DEF CarrierOK
  <2> QED BY <2>1, <2>2, <2>3 DEF PropInv, PropAt
<1>2. SpanInv /\ PropInv /\ [PNext]_<<vars, pvars>> => SpanInv' /\ PropInv'
  BY PropagationSteps, SpanInvStep, PropInvStep
<1> QED BY <1>1, <1>2, PTL DEF PSpec

(* Every reference of a segment can be followed, whatever order headers    *)
(* and snapshots arrive in: the span it names exists in a traced segment,  *)
(* which is related to its trace unless it had its own id replaced after   *)
(* it gave that out (Span.extract, SpanContext.continued, Segment.relate). *)
THEOREM ReferencesResolve ==
  PSpec => []RefResolves
<1>1. SpanInv /\ PropInv => RefResolves
  BY DEF PropInv, PropAt, DataOK, RefOK, Resolves, RefResolves, CtxNo
<1> QED BY <1>1, PropInvAlways, PTL

(* A segment that refers to another one leads with a trace id it got, and  *)
(* keeps the trace of every reference (Segment.relate).                    *)
THEOREM TraceIsContinued ==
  PSpec => []TraceContinues
<1>1. PropInv => TraceContinues
  BY DEF PropInv, PropAt, DataOK, RefOK, Leads, TraceContinues, CtxNo
<1> QED BY <1>1, PropInvAlways, PTL

(* A header that NoopSpan.inject made never opens a traced segment in      *)
(* new_entry_span.                                                         *)
THEOREM DarkIsKept ==
  PSpec => []DarkStaysDark
<1>1. PropInv => DarkStaysDark
  BY DEF PropInv, PropAt, DataOK, DarkStaysDark, CtxNo
<1> QED BY <1>1, PropInvAlways, PTL

-----------------------------------------------------------------------------
(***************************************************************************)
(* The correlation context. Keys are merged by a fold, so first: what a    *)
(* fold over a sequence stays inside of. Induction over the naturals in    *)
(* the form of a set of them, and the recursion of a fold over the sets of *)
(* positions.                                                              *)
(***************************************************************************)

(* A set of naturals with 0 and every successor.                           *)
LEMMA Induction ==
  ASSUME NEW T, 0 \in T, \A n \in Nat : n \in T => n + 1 \in T
  PROVE  Nat \subseteq T
<1> DEFINE B == Nat \ T
<1> SUFFICES ASSUME B # {} PROVE FALSE
  OBVIOUS
<1>1. PICK R : R = OpToRel(<, Nat)
  OBVIOUS
<1>2. IsWellFoundedOn(R, Nat)
  BY <1>1, NatLessThanWellFounded
<1>3. \A y, x \in Nat : y < x => <<y, x>> \in R
  BY <1>1 DEF OpToRel
<1>4. B \subseteq Nat
  OBVIOUS
<1>5. PICK x \in B : \A y \in B : ~(<<y, x>> \in R)
  BY <1>2, <1>4, WFMin
<1>6. x \in Nat /\ x # 0 /\ x \notin T
  OBVIOUS
<1>7. x - 1 \in Nat /\ x - 1 < x /\ (x - 1) + 1 = x
  BY <1>6
<1>8. x - 1 \notin T
  BY <1>6, <1>7
<1>9. x - 1 \in B
  BY <1>7, <1>8
<1> QED BY <1>3, <1>5, <1>6, <1>7, <1>9

(* The last position of a set of positions.                                *)
LEMMA MaxIs ==
  ASSUME NEW n \in Nat, NEW s \in SUBSET (1 .. n + 1), n + 1 \in s
  PROVE  Max(s) = n + 1
<1>1. \A y \in s : n + 1 >= y
  OBVIOUS
<1>2. \A x \in s : (\A y \in s : x >= y) => x = n + 1
  BY <1>1
<1> QED BY <1>1, <1>2 DEF Max

LEMMA MaxInside ==
  ASSUME NEW n \in Nat, NEW s \in SUBSET (1 .. n), s # {}
  PROVE  Max(s) \in 1 .. n
<1> DEFINE T == {k \in Nat : \A r \in SUBSET (1 .. k) : r # {} => \E x \in r : \A y \in r : x >= y}
<1>1. 0 \in T
  <2>1. 1 .. 0 = {}
    OBVIOUS
  <2> QED BY <2>1
<1>2. ASSUME NEW k \in Nat, k \in T PROVE k + 1 \in T
  <2> SUFFICES ASSUME NEW r \in SUBSET (1 .. k + 1), r # {}
               PROVE  \E x \in r : \A y \in r : x >= y
    OBVIOUS
  <2>1. CASE k + 1 \in r
    BY <2>1
  <2>2. CASE k + 1 \notin r
    <3>1. r \in SUBSET (1 .. k)
      BY <2>2
    <3> QED BY <1>2, <3>1
  <2> QED BY <2>1, <2>2
<1> HIDE DEF T
<1>3. Nat \subseteq T
  BY <1>1, <1>2, Induction
<1>4. \E x \in s : \A y \in s : x >= y
  BY <1>3 DEF T
<1>5. Max(s) \in s
  BY <1>4 DEF Max
<1> QED BY <1>5

(* g folds H over every set of positions, the last position outermost; for *)
(* a finite number of positions there is such a g.                         *)
Solves(g, n, b, H) ==
  g = [s \in SUBSET (1 .. n) |-> IF s = {} THEN b ELSE H[<<g[s \ {Max(s)}], Max(s)>>]]

Solvable(n, b, H, V) == \E g \in [SUBSET (1 .. n) -> V] : Solves(g, n, b, H)

LEMMA FoldExists ==
  ASSUME NEW m \in Nat, NEW V, NEW b \in V, NEW H \in [V \X (1 .. m) -> V]
  PROVE  Solvable(m, b, H, V)
<1> DEFINE T == {n \in Nat : n <= m => Solvable(n, b, H, V)}
<1>1. 0 \in T
  <2>1. PICK g : g = [s \in SUBSET (1 .. 0) |-> b]
    OBVIOUS
  <2>2. SUBSET (1 .. 0) = {{}}
    OBVIOUS
  <2>3. Solves(g, 0, b, H)
    BY <2>1, <2>2 DEF Solves
  <2>4. g \in [SUBSET (1 .. 0) -> V]
    BY <2>1
  <2>5. Solvable(0, b, H, V)
    BY <2>3, <2>4 DEF Solvable
  <2> QED BY <2>5
<1>2. ASSUME NEW n \in Nat, n \in T PROVE n + 1 \in T
  <2>0. n + 1 \in Nat
    OBVIOUS
  <2> SUFFICES ASSUME n + 1 <= m PROVE Solvable(n + 1, b, H, V)
    BY <2>0
  <2>1. PICK g \in [SUBSET (1 .. n) -> V] : Solves(g, n, b, H)
    <3>1. n <= m
      OBVIOUS
    <3> QED BY <1>2, <3>1 DEF Solvable
  <2>2. PICK k \in 1 .. m : k = n + 1
    OBVIOUS
  <2>3. PICK h : h = [s \in SUBSET (1 .. k) |-> IF k \in s THEN H[<<g[s \ {k}], k>>] ELSE g[s]]
    OBVIOUS
  <2>4. /\ \A s \in SUBSET (1 .. k) : s \ {k} \in SUBSET (1 .. n)
        /\ \A s \in SUBSET (1 .. k) : k \notin s => s \in SUBSET (1 .. n)
    BY <2>2
  <2>5. \A s \in SUBSET (1 .. n) : s \in SUBSET (1 .. k) /\ k \notin s
    BY <2>2
  <2>6. \A s \in SUBSET (1 .. n) : h[s] = g[s]
    BY <2>3, <2>5
  <2>7. \A s \in SUBSET (1 .. k) : h[s] \in V
    <3> SUFFICES ASSUME NEW s \in SUBSET (1 .. k) PROVE h[s] \in V
      OBVIOUS
    <3>1. CASE k \in s
      <4>1. g[s \ {k}] \in V
        BY <2>1, <2>4
      <4>2. h[s] = H[<<g[s \ {k}], k>>]
        BY <2>3, <3>1
      <4> QED BY <4>1, <4>2
    <3>2. CASE k \notin s
      BY <2>1, <2>3, <2>4, <3>2
    <3> QED BY <3>1, <3>2
  <2>8. h \in [SUBSET (1 .. k) -> V]
    BY <2>3, <2>7
  <2>9. ASSUME NEW s \in SUBSET (1 .. k)
        PROVE  h[s] = IF s = {} THEN b ELSE H[<<h[s \ {Max(s)}], Max(s)>>]
    <3>1. CASE k \in s
      <4>1. Max(s) = k
        BY <2>2, <3>1, MaxIs
      <4>2. h[s] = H[<<g[s \ {k}], k>>]
        BY <2>3, <3>1
      <4>3. h[s \ {k}] = g[s \ {k}]
        BY <2>4, <2>6
      <4> QED BY <3>1, <4>1, <4>2, <4>3
    <3>2. CASE k \notin s
      <4>1. s \in SUBSET (1 .. n) /\ s \ {Max(s)} \in SUBSET (1 .. n)
        BY <2>4, <3>2
      <4>2. h[s] = g[s] /\ h[s \ {Max(s)}] = g[s \ {Max(s)}]
        BY <2>6, <4>1
      <4>3. g[s] = IF s = {} THEN b ELSE H[<<g[s \ {Max(s)}], Max(s)>>]
        BY <2>1, <4>1 DEF Solves
      <4> QED BY <4>2, <4>3
    <3> QED BY <3>1, <3>2
  <2>10. Solves(h, k, b, H)
    BY <2>3, <2>9 DEF Solves
  <2> QED BY <2>2, <2>8, <2>10 DEF Solvable
<1> HIDE DEF T
<1>3. Nat \subseteq T
  BY <1>1, <1>2, Induction
<1>4. m \in T
  BY <1>3
<1> QED BY <1>4 DEF T

(* h follows the recursion as long as it stays inside V.                   *)
Follows(h, n, b, H, V) ==
  /\ h[{}] = b
  /\ \A s \in SUBSET (1 .. n) : s # {} /\ h[s \ {Max(s)}] \in V =>
       h[s] = H[<<h[s \ {Max(s)}], Max(s)>>]

LEMMA FoldInside ==
  ASSUME NEW n \in Nat, NEW V, NEW b \in V, NEW H \in [V \X (1 .. n) -> V], NEW h,
         Follows(h, n, b, H, V)
  PROVE  h[1 .. n] \in V
<1> DEFINE T == {k \in Nat : k <= n => \A s \in SUBSET (1 .. k) : h[s] \in V}
<1>1. 0 \in T
  <2>1. 1 .. 0 = {} /\ h[{}] \in V
    BY DEF Follows
  <2>2. \A s \in SUBSET (1 .. 0) : h[s] \in V
    BY <2>1
  <2> QED BY <2>2
<1>2. ASSUME NEW k \in Nat, k \in T PROVE k + 1 \in T
  <2>0. k + 1 \in Nat
    OBVIOUS
  <2> SUFFICES ASSUME k + 1 <= n, NEW s \in SUBSET (1 .. k + 1) PROVE h[s] \in V
    BY <2>0
  <2>1. \A r \in SUBSET (1 .. k) : h[r] \in V
    <3>1. k <= n
      OBVIOUS
    <3> QED BY <1>2, <3>1
  <2>2. CASE k + 1 \notin s
    <3>1. s \in SUBSET (1 .. k)
      BY <2>2
    <3> QED BY <2>1, <3>1
  <2>3. CASE k + 1 \in s
    <3>1. Max(s) = k + 1 /\ s # {}
      BY <2>3, MaxIs
    <3>2. s \ {k + 1} \in SUBSET (1 .. k) /\ s \in SUBSET (1 .. n) /\ k + 1 \in 1 .. n
      OBVIOUS
    <3>3. h[s \ {k + 1}] \in V
      BY <2>1, <3>2
    <3>4. h[s] = H[<<h[s \ {k + 1}], k + 1>>]
      BY <3>1, <3>2, <3>3 DEF Follows
    <3> QED BY <3>2, <3>3, <3>4
  <2> QED BY <2>2, <2>3
<1> HIDE DEF T
<1>3. Nat \subseteq T
  BY <1>1, <1>2, Induction
<1>4. n \in T /\ 1 .. n \in SUBSET (1 .. n)
  BY <1>3
<1> QED BY <1>4 DEF T

AddKey(acc, k) == IF Contains(acc, k) THEN acc ELSE Append(acc, k)

MergeSteps(h, corr, more) ==
  h = [s \in SUBSET DOMAIN more |->
         IF s = {} THEN corr ELSE AddKey(h[s \ {Max(s)}], more[Max(s)])]

LEMMA MergedIs ==
  ASSUME NEW corr, NEW more
  PROVE  Merged(corr, more) = (CHOOSE h : MergeSteps(h, corr, more))[DOMAIN more]
BY DEF Merged, AddKey, FoldLeft, MapThenFoldSet, MergeSteps

LEMMA MergedType ==
  ASSUME NEW corr \in Seq(Key), NEW more \in Seq(Key)
  PROVE  Merged(corr, more) \in Seq(Key)
<1>1. PICK n \in Nat : n = Len(more) /\ DOMAIN more = 1 .. n
  OBVIOUS
<1>2. PICK V, H : V = Seq(Key) /\ H = [p \in V \X (1 .. n) |-> AddKey(p[1], more[p[2]])]
  OBVIOUS
<1>3. /\ H \in [V \X (1 .. n) -> V]
      /\ \A v \in V, i \in 1 .. n : H[<<v, i>>] = AddKey(v, more[i])
  <2>1. \A v \in V, i \in 1 .. n : AddKey(v, more[i]) \in V
    BY <1>1, <1>2, AppendProperties DEF AddKey
  <2> QED BY <1>2, <2>1
<1>4. PICK g \in [SUBSET (1 .. n) -> V] : Solves(g, n, corr, H)
  BY <1>2, <1>3, FoldExists DEF Solvable
<1>5. \A s \in SUBSET (1 .. n) : s # {} => Max(s) \in 1 .. n
  BY MaxInside
<1>6. MergeSteps(g, corr, more)
  <2>1. g = [s \in SUBSET (1 .. n) |-> g[s]]
    OBVIOUS
  <2>2. ASSUME NEW s \in SUBSET (1 .. n)
        PROVE  g[s] = IF s = {} THEN corr ELSE AddKey(g[s \ {Max(s)}], more[Max(s)])
    <3>1. g[s] = IF s = {} THEN corr ELSE H[<<g[s \ {Max(s)}], Max(s)>>]
      BY <1>4 DEF Solves
    <3>2. g[s \ {Max(s)}] \in V
      OBVIOUS
    <3> QED BY <1>3, <1>5, <3>1, <3>2
  <2> QED BY <1>1, <2>1, <2>2 DEF MergeSteps
<1>7. PICK h : MergeSteps(h, corr, more) /\ Merged(corr, more) = h[1 .. n]
  BY <1>1, <1>6, MergedIs
<1>8. Follows(h, n, corr, H, V)
  <2>1. \A s \in SUBSET (1 .. n) :
          h[s] = IF s = {} THEN corr ELSE AddKey(h[s \ {Max(s)}], more[Max(s)])
    BY <1>1, <1>7 DEF MergeSteps
  <2>2. h[{}] = corr
    BY <2>1
  <2> QED BY <1>3, <1>5, <2>1, <2>2 DEF Follows
<1>9. h[1 .. n] \in V
  BY <1>2, <1>3, <1>8, FoldInside
<1> QED BY <1>2, <1>7, <1>9

(* dict.pop                                                                *)
LEMMA RemovedType ==
  ASSUME NEW corr \in Seq(Key), NEW k
  PROVE  RemoveFirst(corr, k) \in Seq(Key) /\ Len(RemoveFirst(corr, k)) <= Len(corr)
<1>1. PICK n \in Nat : n = Len(corr)
  OBVIOUS
<1>2. CASE ~\E i \in 1 .. Len(corr) : corr[i] = k
  BY <1>1, <1>2 DEF RemoveFirst
<1>3. CASE \E i \in 1 .. Len(corr) : corr[i] = k
  <2>1. PICK I : I = {i \in 1 .. n : corr[i] = k}
    OBVIOUS
  <2>2. I # {} /\ I \subseteq 1 .. n /\ I \subseteq Nat
    BY <1>1, <1>3, <2>1
  <2>3. PICK m \in I : \A y \in I : ~(y < m)
    <3>1. PICK R : R = OpToRel(<, Nat)
      OBVIOUS
    <3>2. IsWellFoundedOn(R, Nat)
      BY <3>1, NatLessThanWellFounded
    <3>3. \A y, x \in Nat : y < x => <<y, x>> \in R
      BY <3>1 DEF OpToRel
    <3>4. PICK x \in I : \A y \in I : ~(<<y, x>> \in R)
      BY <2>2, <3>2, WFMin
    <3> QED BY <2>2, <3>3, <3>4
  <2>4. \E x \in I : \A y \in I : x =< y
    <3>1. \A y \in I : m =< y
      BY <2>2, <2>3
    <3> QED BY <3>1
  <2>5. Min(I) \in I
    BY <2>4 DEF Min
  <2>6. PICK j \in 1 .. n : j = Min(I)
    BY <2>2, <2>5
  <2>7. RemoveFirst(corr, k) = SubSeq(corr, 1, j - 1) \o SubSeq(corr, j + 1, Len(corr))
    BY <1>1, <1>3, <2>1, <2>2, <2>6 DEF RemoveFirst, RemoveAt, SelectInSeq
  <2>8. PICK a, c : a = SubSeq(corr, 1, j - 1) /\ c = SubSeq(corr, j + 1, Len(corr))
    OBVIOUS
  <2>9. /\ a \in Seq(Key) /\ Len(a) = j - 1
        /\ c \in Seq(Key) /\ Len(c) = n - j
    <3>1. \A i \in 1 .. n : corr[i] \in Key
      BY <1>1
    <3>2. a \in Seq(Key) /\ Len(a) = j - 1
      BY <1>1, <2>8, <3>1, SubSeqProperties
    <3>3. c \in Seq(Key) /\ Len(c) = n - j
      BY <1>1, <2>8, <3>1, SubSeqProperties
    <3> QED BY <3>2, <3>3
  <2>10. a \o c \in Seq(Key) /\ Len(a \o c) = (j - 1) + (n - j)
    <3>1. a \o c \in Seq(Key) /\ Len(a \o c) = Len(a) + Len(c)
      BY <2>9, ConcatProperties
    <3> QED BY <2>9, <3>1
  <2>11. (j - 1) + (n - j) <= n
    OBVIOUS
  <2> QED BY <1>1, <2>7, <2>8, <2>10, <2>11
<1> QED BY <1>2, <1>3

LEMMA KeptType ==
  ASSUME NEW corr \in Seq(Key)
  PROVE  Kept(corr) \in Seq(Key) /\ Len(Kept(corr)) <= MaxCorrelation + 1
<1>1. PICK n \in Nat, m \in Nat : n = Len(corr) /\ m = MaxCorrelation + 1
  BY PropagationAssumption
<1>2. CASE n > m
  <2>1. SubSeq(corr, 1, m) \in Seq(Key) /\ Len(SubSeq(corr, 1, m)) = m
    BY <1>1, <1>2, SubSeqProperties
  <2> QED BY <1>1, <1>2, <2>1 DEF Kept
<1>3. CASE ~(n > m)
  BY <1>1, <1>3 DEF Kept
<1> QED BY <1>2, <1>3

(* What a context carries: keys, and of a context that continued no        *)
(* snapshot one more than the maximum at most. Headers and snapshots carry *)
(* keys too, of a context that continued some perhaps too many.            *)
CorrOK(d) ==
  /\ d.corr \in Seq(Key)
  /\ d.joined \/ Len(d.corr) <= MaxCorrelation + 1

KeysAt(n, dt, w, sns) ==
  /\ \A i \in 1 .. n : CorrOK(dt[i])
  /\ \A c \in w : c.corr \in Seq(Key)
  /\ \A sn \in sns : sn.corr \in Seq(Key)

CorrInv == KeysAt(Len(ctxs), data, wire, snaps)

LEMMA SameCorr ==
  ASSUME NEW d, IsData(d), CorrOK(d), NEW v
  PROVE  CorrOK([d EXCEPT !.senders = v]) /\ CorrOK([d EXCEPT !.gave = TRUE])
<1>1. PICK e, f : e = [d EXCEPT !.senders = v] /\ f = [d EXCEPT !.gave = TRUE]
  OBVIOUS
<1>2. /\ e = [traces |-> d.traces, fresh |-> d.fresh, corr |-> d.corr, refs |-> d.refs,
              gave |-> d.gave, split |-> d.split, joined |-> d.joined, senders |-> v]
      /\ f = [traces |-> d.traces, fresh |-> d.fresh, corr |-> d.corr, refs |-> d.refs,
              gave |-> TRUE, split |-> d.split, joined |-> d.joined, senders |-> d.senders]
  BY <1>1 DEF IsData
<1>3. e.corr = d.corr /\ e.joined = d.joined /\ f.corr = d.corr /\ f.joined = d.joined
  BY <1>2
<1>4. CorrOK(e) /\ CorrOK(f)
  BY <1>3 DEF CorrOK
<1> QED BY <1>1, <1>4

LEMMA CorrSet ==
  ASSUME NEW d, IsData(d), NEW v \in Seq(Key), d.joined \/ Len(v) <= MaxCorrelation + 1
  PROVE  CorrOK([d EXCEPT !.corr = v])
<1>1. PICK e : e = [d EXCEPT !.corr = v]
  OBVIOUS
<1>2. e = [traces |-> d.traces, fresh |-> d.fresh, corr |-> v, refs |-> d.refs,
           gave |-> d.gave, split |-> d.split, joined |-> d.joined, senders |-> d.senders]
  BY <1>1 DEF IsData
<1>3. e.corr = v /\ e.joined = d.joined
  BY <1>2
<1>4. CorrOK(e)
  BY <1>3 DEF CorrOK
<1> QED BY <1>1, <1>4

LEMMA RefsCorr ==
  ASSUME NEW d, IsData(d), CorrOK(d), NEW v, NEW e, e = [d EXCEPT !.refs = v]
  PROVE  CorrOK(e)
<1>2. e = [traces |-> d.traces, fresh |-> d.fresh, corr |-> d.corr, refs |-> v,
           gave |-> d.gave, split |-> d.split, joined |-> d.joined, senders |-> d.senders]
  BY DEF IsData
<1>3. e.corr = d.corr /\ e.joined = d.joined
  BY <1>2
<1>4. CorrOK(e)
  BY <1>3 DEF CorrOK
<1> QED BY <1>4

(* Span.extract: whatever a header brings, the parser stops in time.       *)
LEMMA ExtractedCorr ==
  ASSUME NEW i \in Nat, NEW d, IsData(d), NEW c, c.trace \in Int, c.corr \in Seq(Key)
  PROVE  CorrOK(Extracted(d, i, c))
<1>1. PICK tr \in Int : tr = IF IsValid(c) THEN c.trace ELSE -i
  OBVIOUS
<1>2. PICK x : x = Related(d, tr)
  OBVIOUS
<1>3. IsData(x)
  BY <1>2, RelatedIs DEF Relates
<1>4. PICK k, y : k = Kept(c.corr) /\ y = [x EXCEPT !.corr = k]
  OBVIOUS
<1>5. k \in Seq(Key) /\ Len(k) <= MaxCorrelation + 1
  <2>1. PICK q \in Seq(Key) : q = c.corr
    OBVIOUS
  <2> QED BY <1>4, <2>1, KeptType
<1>6. CorrOK(y) /\ IsData(y)
  BY <1>3, <1>4, <1>5, CorrSet, CorrelationSet
<1>7. CASE ~IsValid(c)
  <2>1. Extracted(d, i, c) = y
    BY <1>1, <1>2, <1>4, <1>7 DEF Extracted
  <2> QED BY <1>6, <2>1
<1>8. CASE IsValid(c)
  <2>1. PICK v : Extracted(d, i, c) = [y EXCEPT !.refs = v]
    BY <1>1, <1>2, <1>4, <1>8 DEF Extracted
  <2>2. PICK e : e = Extracted(d, i, c)
    OBVIOUS
  <2>3. CorrOK(e)
    BY <1>6, <2>1, <2>2, RefsCorr
  <2> QED BY <2>2, <2>3
<1> QED BY <1>7, <1>8

LEMMA JoinedCorr ==
  ASSUME NEW d, IsData(d), NEW v, NEW w \in Seq(Key), NEW e, JoinsTrace(d, v, w, e)
  PROVE  CorrOK(e)
<1>1. e = [traces |-> d.traces, fresh |-> d.fresh, corr |-> w, refs |-> v,
           gave |-> d.gave, split |-> d.split, joined |-> TRUE, senders |-> d.senders]
  BY DEF IsData, JoinsTrace
<1>2. e.corr = w /\ e.joined = TRUE
  BY <1>1
<1> QED BY <1>2 DEF CorrOK

(* context.continued: no limit, and the context is marked.                 *)
LEMMA ContinuedCorr ==
  ASSUME NEW i, NEW d, IsData(d), CorrOK(d), NEW sn, sn.trace \in Int, sn.corr \in Seq(Key),
         NEW noop \in BOOLEAN, NEW ref \in BOOLEAN
  PROVE  CorrOK(Continued(i, noop, d, sn, ref))
<1>1. PICK q \in Seq(Key), r \in Seq(Key) : q = d.corr /\ r = sn.corr
  BY DEF CorrOK
<1>2. PICK m \in Seq(Key) : m = Merged(q, r)
  BY MergedType
<1>3. CASE noop
  <2>1. PICK e : e = [d EXCEPT !.refs = d.refs, !.corr = m, !.joined = TRUE]
    OBVIOUS
  <2>2. CorrOK(e)
    BY <2>1, JoinedCorr DEF JoinsTrace
  <2>3. Continued(i, noop, d, sn, ref) = [d EXCEPT !.corr = m, !.joined = TRUE]
    BY <1>1, <1>2, <1>3 DEF Continued
  <2>4. [d EXCEPT !.corr = m, !.joined = TRUE] = [d EXCEPT !.refs = d.refs, !.corr = m, !.joined = TRUE]
    BY DEF IsData
  <2> QED BY <2>1, <2>2, <2>3, <2>4
<1>4. CASE ~noop /\ ~(sn.seg # 0 /\ FromElsewhere(sn, i))
  BY <1>4 DEF Continued
<1>5. CASE ~noop /\ sn.seg # 0 /\ FromElsewhere(sn, i)
  <2>1. PICK tr \in Int : tr = sn.trace
    OBVIOUS
  <2>2. PICK x : x = Related(d, tr)
    OBVIOUS
  <2>3. IsData(x) /\ x.corr = q
    BY <1>1, <2>2, RelatedIs DEF Relates
  <2>4. PICK rs : rs = IF ref THEN x.refs \cup {[type |-> "CrossThread", seg |-> sn.seg,
                                                 sid |-> sn.sid, trace |-> sn.trace]}
                       ELSE x.refs
    OBVIOUS
  <2>5. PICK e : e = [x EXCEPT !.refs = rs, !.corr = m, !.joined = TRUE]
    OBVIOUS
  <2>6. Continued(i, noop, d, sn, ref) = e
    BY <1>1, <1>2, <1>5, <2>1, <2>2, <2>3, <2>4, <2>5 DEF Continued
  <2>7. CorrOK(e)
    BY <2>3, <2>5, JoinedCorr DEF JoinsTrace
  <2> QED BY <2>6, <2>7
<1> QED BY <1>3, <1>4, <1>5

LEMMA PutCorr ==
  ASSUME NEW d, IsData(d), CorrOK(d), NEW k \in Key, NEW value, NEW q, q = d.corr
  PROVE  CorrOK([d EXCEPT !.corr =
           IF value = "none" THEN RemoveFirst(q, k)
           ELSE IF value = "long" \/ Len(q) > MaxCorrelation \/ Contains(q, k) THEN q
                ELSE Append(q, k)])
<1>1. PICK n \in Nat, m \in Nat : n = Len(q) /\ m = MaxCorrelation /\ q \in Seq(Key)
  BY PropagationAssumption DEF CorrOK
<1>2. d.joined \/ n <= m + 1
  BY <1>1 DEF CorrOK
<1>3. CASE value = "none"
  <2>1. PICK v : v = RemoveFirst(q, k)
    OBVIOUS
  <2>2. v \in Seq(Key) /\ Len(v) <= n
    BY <1>1, <2>1, RemovedType
  <2>3. Len(v) \in Nat
    BY <2>2
  <2>4. d.joined \/ Len(v) <= MaxCorrelation + 1
    BY <1>1, <1>2, <2>2, <2>3
  <2>5. CorrOK([d EXCEPT !.corr = v])
    BY <2>2, <2>4, CorrSet
  <2> QED BY <1>3, <2>1, <2>5
<1>4. CASE value # "none" /\ (value = "long" \/ n > m \/ Contains(q, k))
  <2>1. CorrOK([d EXCEPT !.corr = q])
    BY <1>1, <1>2, CorrSet
  <2> QED BY <1>1, <1>4, <2>1
<1>5. CASE value # "none" /\ ~(value = "long" \/ n > m \/ Contains(q, k))
  <2>1. PICK v : v = Append(q, k)
    OBVIOUS
  <2>2. v \in Seq(Key) /\ Len(v) = n + 1
    BY <1>1, <2>1, AppendProperties
  <2>3. Len(v) <= MaxCorrelation + 1
    BY <1>1, <1>5, <2>2
  <2>4. CorrOK([d EXCEPT !.corr = v])
    BY <2>2, <2>3, CorrSet
  <2> QED BY <1>1, <1>5, <2>1, <2>4
<1> QED BY <1>3, <1>4, <1>5

(* The steps.                                                              *)

LEMMA CorrChanged ==
  ASSUME NEW cs \in Seq(CtxType), NEW dt, NEW w, NEW sns, PropAt(cs, dt, w, sns),
         NEW v, NEW u, KeysAt(Len(cs), dt, v, u), NEW i \in 1 .. Len(cs), NEW e, CorrOK(e)
  PROVE  KeysAt(Len(cs), [dt EXCEPT ![i] = e], v, u)
<1>1. PICK n \in Nat : n = Len(cs) /\ DOMAIN dt = 1 .. n
  BY DEF PropAt
<1>2. PICK d2 : d2 = [dt EXCEPT ![i] = e]
  OBVIOUS
<1>3. \A j \in 1 .. n : d2[j] = IF j = i THEN e ELSE dt[j]
  BY <1>1, <1>2
<1>4. \A j \in 1 .. n : CorrOK(d2[j])
  BY <1>1, <1>3 DEF KeysAt
<1> QED BY <1>1, <1>2, <1>4 DEF KeysAt

LEMMA NewDataCorr ==
  ASSUME NEW i, NEW noop
  PROVE  CorrOK(NewData(i, noop))
<1>1. PICK e, q : e = NewData(i, noop) /\ q = <<>>
  OBVIOUS
<1>2. e.corr = q
  BY <1>1 DEF NewData
<1>3. q \in Seq(Key) /\ Len(q) = 0
  BY <1>1
<1>4. 0 <= MaxCorrelation + 1
  BY PropagationAssumption
<1> QED BY <1>1, <1>2, <1>3, <1>4 DEF CorrOK

LEMMA GrownCorr ==
  ASSUME SpanInv, PropInv, CorrInv, [PNext]_<<vars, pvars>>
  PROVE  KeysAt(Len(ctxs'), Grown, wire, snaps)
<1>1. /\ ctxs \in Seq(CtxType) /\ ctxs' \in Seq(CtxType)
      /\ PropAt(ctxs', Grown, wire, snaps) /\ Len(data) = Len(ctxs)
  BY GrownOK
<1>2. PICK n \in Nat, m \in Nat : n = Len(ctxs) /\ m = Len(ctxs')
  BY <1>1
<1>3. PICK dt, g, S : dt = data /\ g = Grown /\ S = Range(dt)
  OBVIOUS
<1>4. dt \in Seq(S) /\ Len(dt) = n /\ Len(g) = m /\ \A j \in 1 .. n : CorrOK(dt[j])
  BY <1>1, <1>2, <1>3 DEF PropInv, PropAt, CorrInv, KeysAt
<1>5. \A j \in 1 .. m : CorrOK(g[j])
  <2>1. CASE m > n
    <3>1. PICK e : e = NewData(m, ctxs'[m].noop)
      OBVIOUS
    <3>2. g = Append(dt, e) /\ CorrOK(e)
      BY <1>2, <1>3, <1>4, <2>1, <3>1, NewDataCorr DEF Grown
    <3>3. dt \in Seq(S \cup {e})
      BY <1>4, SeqMonotonic
    <3>4. /\ Len(g) = n + 1 /\ g[n + 1] = e /\ \A j \in 1 .. n : g[j] = dt[j]
      BY <1>4, <3>2, <3>3, AppendProperties
    <3>5. m = n + 1 /\ \A j \in 1 .. n + 1 : j = n + 1 \/ j \in 1 .. n
      BY <1>4, <3>4
    <3> QED BY <1>4, <3>2, <3>4, <3>5
  <2>2. CASE ~(m > n)
    <3>1. g = dt
      BY <1>2, <1>3, <1>4, <2>2 DEF Grown
    <3> QED BY <1>4, <2>2, <3>1
  <2> QED BY <2>1, <2>2
<1> QED BY <1>2, <1>3, <1>5 DEF CorrInv, KeysAt

LEMMA HeaderCorr ==
  ASSUME SpanInv, PropInv, CorrInv, NEW c \in wire \cup {NoHeader}
  PROVE  c.trace \in Int /\ c.corr \in Seq(Key)
<1>1. CASE c \in wire
  BY <1>1 DEF PropInv, PropAt, CarrierOK, CorrInv, KeysAt
<1>2. CASE c = NoHeader
  <2>1. PICK q : q = <<>>
    OBVIOUS
  <2>2. c.trace = 0 /\ c.corr = q /\ q \in Seq(Key)
    BY <1>2, <2>1 DEF NoHeader
  <2> QED BY <2>2
<1> QED BY <1>1, <1>2

LEMMA EntryCorr ==
  ASSUME SpanInv, PropInv, CorrInv, [PNext]_<<vars, pvars>>,
         NEW t \in Task, NEW c \in wire \cup {NoHeader}, NewEntry(t, c)
  PROVE  CorrInv'
<1>1. /\ SpanInv' /\ ctxs' \in Seq(CtxType) /\ PropAt(ctxs', Grown, wire, snaps)
      /\ Len(ctxs') = Len(ctxs) => Grown = data
  BY GrownOK
<1>2. PICK cs, g : cs = ctxs' /\ g = Grown
  OBVIOUS
<1>3. cs \in Seq(CtxType) /\ PropAt(cs, g, wire, snaps) /\ KeysAt(Len(cs), g, wire, snaps)
  BY <1>1, <1>2, GrownCorr
<1>4. wire' = wire /\ snaps' = snaps
  BY DEF NewEntry
<1>5. SUFFICES KeysAt(Len(cs), data', wire, snaps)
  BY <1>2, <1>4 DEF CorrInv
<1>6. PICK i : i = TopContext(t)
  OBVIOUS
<1>7. PICK v, e : v = g[i].senders \cup SenderOf(c) /\ e = [g[i] EXCEPT !.senders = v]
  OBVIOUS
<1>8. ASSUME i \in 1 .. Len(cs)
      PROVE  IsData(e) /\ CorrOK(e) /\ KeysAt(Len(cs), [g EXCEPT ![i] = e], wire, snaps)
  <2>1. PICK d : d = g[i]
    OBVIOUS
  <2>2. IsData(d) /\ CorrOK(d)
    BY <1>3, <1>8, <2>1 DEF PropAt, DataOK, KeysAt
  <2>3. CorrOK(e) /\ IsData(e)
    BY <1>7, <2>1, <2>2, SameCorr, SendersAdded DEF Retains
  <2> QED BY <1>3, <1>8, <2>3, CorrChanged
<1>9. CASE EntryDark(t, c)
  <2>1. blocks'[t] # <<>>
    BY <1>9, OpensTop DEF EntryDark
  <2>2. i \in 1 .. Len(cs)
    BY <1>1, <1>2, <1>6, <2>1, TopFacts
  <2>3. data' = [g EXCEPT ![i] = e]
    BY <1>2, <1>6, <1>7, <1>9 DEF EntryDark
  <2> QED BY <1>8, <2>2, <2>3
<1>10. CASE EntryNoop(t, c)
  <2>1. Len(ctxs') = Len(ctxs) /\ data' = data
    BY <1>1, <1>10, SameContexts DEF EntryNoop
  <2> QED BY <1>1, <1>2, <1>3, <2>1
<1>11. CASE EntryInherited(t, c)
  <2>1. OpenInherited(t, "Entry") /\ blocks'[t] # <<>>
    BY <1>11, OpensTop DEF EntryInherited
  <2>2. i \in 1 .. Len(cs)
    BY <1>1, <1>2, <1>6, <2>1, TopFacts
  <2>3. g = data
    BY <1>1, <1>2, <2>1, SameContexts
  <2>4. data' = [g EXCEPT ![i] = e]
    BY <1>6, <1>7, <1>11, <2>3 DEF EntryInherited
  <2> QED BY <1>8, <2>2, <2>4
<1>12. CASE EntryNew(t, c)
  <2>1. blocks'[t] # <<>>
    BY <1>12, OpensTop DEF EntryNew
  <2>b. i \in 1 .. Len(cs)
    BY <1>1, <1>2, <1>6, <2>1, TopFacts
  <2>a. Len(cs) \in Nat
    BY <1>3
  <2>2. i \in 1 .. Len(cs) /\ i \in Nat
    BY <2>a, <2>b
  <2>3. data' = [g EXCEPT ![i] = IF IsValid(c) THEN Extracted(e, i, c) ELSE e]
    BY <1>2, <1>6, <1>7, <1>12 DEF EntryNew
  <2>4. PICK x : x = Extracted(e, i, c)
    OBVIOUS
  <2>5. IsData(e) /\ CorrOK(e) /\ KeysAt(Len(cs), [g EXCEPT ![i] = e], wire, snaps)
    BY <1>8, <2>2
  <2>6. CorrOK(x)
    BY <2>2, <2>4, <2>5, HeaderCorr, ExtractedCorr
  <2>7. KeysAt(Len(cs), [g EXCEPT ![i] = x], wire, snaps)
    BY <1>3, <2>2, <2>6, CorrChanged
  <2> QED BY <2>3, <2>4, <2>5, <2>7
<1> QED BY <1>9, <1>10, <1>11, <1>12 DEF NewEntry

LEMMA ExitCorr ==
  ASSUME SpanInv, PropInv, CorrInv, [PNext]_<<vars, pvars>>, NEW t \in Task, NewExit(t)
  PROVE  CorrInv'
<1>1. SpanInv' /\ ctxs' \in Seq(CtxType) /\ PropAt(ctxs', Grown, wire, snaps)
  BY GrownOK
<1>2. PICK cs, g, i : cs = ctxs' /\ g = Grown /\ i = TopContext(t)
  OBVIOUS
<1>3. /\ cs \in Seq(CtxType) /\ PropAt(cs, g, wire, snaps) /\ KeysAt(Len(cs), g, wire, snaps)
      /\ i \in 1 .. Len(cs) /\ cs[i].noop \in BOOLEAN
  <2>1. blocks'[t] # <<>>
    BY OpensTop DEF NewExit
  <2> QED BY <1>1, <1>2, <2>1, GrownCorr, TopFacts
<1>4. PICK d, e : d = g[i] /\ e = [d EXCEPT !.gave = TRUE]
  OBVIOUS
<1>5. IsData(d) /\ CorrOK(d)
  BY <1>3, <1>4 DEF PropAt, DataOK, KeysAt
<1>6. CASE cs[i].noop = TRUE
  <2>1. PICK c : c = NoopCarrier(i)
    OBVIOUS
  <2>2. data' = g /\ wire' = wire \cup {c} /\ snaps' = snaps
    BY <1>2, <1>6, <2>1 DEF NewExit
  <2>3. PICK q : q = <<>>
    OBVIOUS
  <2>4. c.corr = q /\ q \in Seq(Key)
    BY <2>1, <2>3 DEF NoopCarrier, NoHeader
  <2>5. KeysAt(Len(cs), g, wire \cup {c}, snaps)
    BY <1>3, <2>4 DEF KeysAt
  <2> QED BY <1>2, <2>2, <2>5 DEF CorrInv
<1>7. CASE cs[i].noop = FALSE
  <2>1. PICK d2, c : d2 = [g EXCEPT ![i] = e] /\ c = Injected(i, TopSid(t), g[i])
    OBVIOUS
  <2>2. data' = d2 /\ wire' = wire \cup {c} /\ snaps' = snaps
    BY <1>2, <1>4, <1>7, <2>1 DEF NewExit
  <2>3. c.corr = d.corr
    BY <1>4, <2>1 DEF Injected
  <2>4. c.corr \in Seq(Key) /\ CorrOK(e)
    BY <1>4, <1>5, <2>3, SameCorr DEF CorrOK
  <2>5. KeysAt(Len(cs), d2, wire, snaps)
    BY <1>3, <2>1, <2>4, CorrChanged
  <2>6. KeysAt(Len(cs), d2, wire \cup {c}, snaps)
    BY <2>4, <2>5 DEF KeysAt
  <2> QED BY <1>2, <2>2, <2>6 DEF CorrInv
<1> QED BY <1>3, <1>6, <1>7

(* Steps on the context of the active span.                                *)
LEMMA ActiveCorr ==
  ASSUME SpanInv, PropInv, CorrInv, NEW t \in Task, Peek(t) # NoSpan
  PROVE  LET i == spans[Peek(t)].ctx
         IN /\ i \in 1 .. Len(ctxs) /\ i \in Nat /\ ctxs \in Seq(CtxType)
            /\ IsData(data[i]) /\ CorrOK(data[i])
<1>1. PICK i : i = spans[Peek(t)].ctx
  OBVIOUS
<1>2. i \in 1 .. Len(ctxs) /\ ctxs \in Seq(CtxType)
  BY <1>1, StackBase, PeekFacts DEF SpanInv, StackInv, ObjectsOK
<1>3. i \in Nat
  BY <1>2
<1>4. IsData(data[i]) /\ CorrOK(data[i])
  BY <1>2 DEF PropInv, PropAt, DataOK, CorrInv, KeysAt
<1> QED BY <1>1, <1>2, <1>3, <1>4

LEMMA ActiveChanged ==
  ASSUME SpanInv, PropInv, CorrInv, NEW i \in 1 .. Len(ctxs), NEW e, CorrOK(e),
         ctxs \in Seq(CtxType), data' = [data EXCEPT ![i] = e], ctxs' = ctxs, wire' = wire,
         NEW q \in Seq(Key), \A sn \in snaps' : sn \in snaps \/ sn.corr = q
  PROVE  CorrInv'
<1>1. PropAt(ctxs, data, wire, snaps) /\ KeysAt(Len(ctxs), data, wire, snaps)
  BY DEF PropInv, CorrInv
<1>2. KeysAt(Len(ctxs), [data EXCEPT ![i] = e], wire, snaps)
  BY <1>1, CorrChanged
<1>3. \A sn \in snaps' : sn.corr \in Seq(Key)
  BY <1>1 DEF KeysAt
<1> QED BY <1>2, <1>3 DEF CorrInv, KeysAt

LEMMA ActiveStepsCorr ==
  ASSUME SpanInv, PropInv, CorrInv, NEW t \in Task,
         \/ \E c \in wire \cup {NoHeader} : Extract(t, c)
         \/ \E k \in Key : \E value : PutCorrelation(t, k, value)
         \/ Capture(t)
  PROVE  CorrInv'
<1>0. Peek(t) # NoSpan
  BY DEF Extract, PutCorrelation, Capture
<1>1. PICK i, d : i = spans[Peek(t)].ctx /\ d = data[i]
  OBVIOUS
<1>2. i \in 1 .. Len(ctxs) /\ i \in Nat /\ ctxs \in Seq(CtxType) /\ IsData(d) /\ CorrOK(d)
  BY <1>0, <1>1, ActiveCorr
<1>3. PICK q \in Seq(Key) : q = d.corr
  BY <1>2 DEF CorrOK
<1>4. ASSUME NEW c \in wire \cup {NoHeader}, Extract(t, c) PROVE CorrInv'
  <2>1. PICK e : e = Extracted(d, i, c)
    OBVIOUS
  <2>2. CorrOK(e)
    BY <1>2, <2>1, HeaderCorr, ExtractedCorr
  <2>3. data' = [data EXCEPT ![i] = e] /\ ctxs' = ctxs /\ wire' = wire /\ snaps' = snaps
    BY <1>1, <1>4, <2>1 DEF Extract, vars
  <2> QED BY <1>2, <1>3, <2>2, <2>3, ActiveChanged
<1>5. ASSUME NEW k \in Key, NEW value, PutCorrelation(t, k, value) PROVE CorrInv'
  <2>1. PICK put : put = IF value = "none" THEN RemoveFirst(q, k)
                         ELSE IF value = "long" \/ Len(q) > MaxCorrelation \/ Contains(q, k) THEN q
                              ELSE Append(q, k)
    OBVIOUS
  <2>2. PICK e : e = [d EXCEPT !.corr = put]
    OBVIOUS
  <2>3. CorrOK(e)
    BY <1>2, <1>3, <2>1, <2>2, PutCorr
  <2>4. data' = [data EXCEPT ![i].corr = put] /\ ctxs' = ctxs /\ wire' = wire /\ snaps' = snaps
    BY <1>1, <1>3, <1>5, <2>1 DEF PutCorrelation, vars
  <2>5. data' = [data EXCEPT ![i] = e]
    BY <1>1, <2>2, <2>4
  <2> QED BY <1>2, <1>3, <2>3, <2>4, <2>5, ActiveChanged
<1>6. ASSUME Capture(t) PROVE CorrInv'
  <2>1. PICK e : e = [d EXCEPT !.gave = TRUE]
    OBVIOUS
  <2>2. CorrOK(e)
    BY <1>2, <2>1, SameCorr
  <2>3. PICK sn : sn = [seg |-> IF ctxs[i].noop THEN 0 ELSE i, sid |-> spans[Peek(t)].sid,
                        trace |-> Head(d.traces), corr |-> d.corr]
    OBVIOUS
  <2>4. sn.corr = q
    BY <1>3, <2>3
  <2>5. /\ data' = [data EXCEPT ![i] = e] /\ ctxs' = ctxs /\ wire' = wire
        /\ snaps' = snaps \cup {sn}
    BY <1>1, <1>6, <2>1, <2>3 DEF Capture, vars
  <2> QED BY <1>2, <2>2, <2>4, <2>5, ActiveChanged
<1> QED BY <1>4, <1>5, <1>6

LEMMA ResumeCorr ==
  ASSUME SpanInv, PropInv, CorrInv, [PNext]_<<vars, pvars>>,
         NEW t \in Task, NEW sn \in snaps, Resume(t, sn)
  PROVE  CorrInv'
<1>1. /\ SpanInv' /\ ctxs \in Seq(CtxType) /\ ctxs' \in Seq(CtxType) /\ Grows(ctxs, ctxs')
      /\ PropAt(ctxs', Grown, wire, snaps)
  BY GrownOK
<1>2. PICK cs, g : cs = ctxs' /\ g = Grown
  OBVIOUS
<1>3. /\ cs \in Seq(CtxType) /\ PropAt(cs, g, wire, snaps) /\ KeysAt(Len(cs), g, wire, snaps)
      /\ sn.trace \in Int /\ sn.corr \in Seq(Key)
  <2>1. sn.trace \in Int /\ sn.corr \in Seq(Key)
    BY DEF PropInv, PropAt, SnapshotOK, CorrInv, KeysAt
  <2> QED BY <1>1, <1>2, <2>1, GrownCorr
<1>4. wire' = wire /\ snaps' = snaps
  BY DEF Resume
<1>5. SUFFICES KeysAt(Len(cs), data', wire, snaps)
  BY <1>2, <1>4 DEF CorrInv
<1>6. ASSUME NEW i \in 1 .. Len(cs), NEW noop \in BOOLEAN, NEW ref \in BOOLEAN
      PROVE  KeysAt(Len(cs), [g EXCEPT ![i] = Continued(i, noop, g[i], sn, ref)], wire, snaps)
  <2>1. PICK d, e : d = g[i] /\ e = Continued(i, noop, d, sn, ref)
    OBVIOUS
  <2>2. IsData(d) /\ CorrOK(d)
    BY <1>3, <2>1 DEF PropAt, DataOK, KeysAt
  <2>3. CorrOK(e)
    BY <1>3, <2>1, <2>2, ContinuedCorr
  <2>4. KeysAt(Len(cs), [g EXCEPT ![i] = e], wire, snaps)
    BY <1>3, <2>3, CorrChanged
  <2> QED BY <2>1, <2>4
<1>7. CASE /\ OpenNoop(t) \/ OpenNew(t, "Local") \/ (OpenIgnored(t) /\ Peek(t) = NoSpan)
           /\ data' = [Grown EXCEPT ![TopContext(t)] =
                         Continued(TopContext(t), ctxs'[TopContext(t)].noop, @, sn, TRUE)]
  <2>1. PICK i, noop : i = TopContext(t) /\ noop = ctxs'[i].noop
    OBVIOUS
  <2>2. blocks'[t] # <<>>
    BY <1>7, OpensTop
  <2>3. i \in 1 .. Len(cs) /\ noop \in BOOLEAN
    BY <1>1, <1>2, <2>1, <2>2, TopFacts
  <2>4. data' = [g EXCEPT ![i] = Continued(i, noop, g[i], sn, TRUE)]
    BY <1>2, <1>7, <2>1
  <2> QED BY <1>6, <2>3, <2>4
<1>8. CASE OpenIgnored(t) /\ Peek(t) = NoSpan /\ data' = Grown
  BY <1>2, <1>3, <1>8
<1>9. CASE /\ OpenIgnored(t) /\ Peek(t) # NoSpan
           /\ data' = [Grown EXCEPT ![spans[Peek(t)].ctx] =
                         Continued(spans[Peek(t)].ctx, FALSE, @, sn, FALSE)]
  <2>1. PICK i : i = spans[Peek(t)].ctx
    OBVIOUS
  <2>2. i \in 1 .. Len(ctxs)
    BY <1>9, <2>1, StackBase, PeekFacts
  <2>3. i \in 1 .. Len(cs)
    BY <1>1, <1>2, <2>2 DEF Grows
  <2>4. data' = [g EXCEPT ![i] = Continued(i, FALSE, g[i], sn, FALSE)]
    BY <1>2, <1>9, <2>1
  <2> QED BY <1>6, <2>3, <2>4
<1> QED BY <1>7, <1>8, <1>9 DEF Resume

LEMMA CorrInvStep ==
  ASSUME SpanInv, PropInv, CorrInv, [PNext]_<<vars, pvars>>
  PROVE  CorrInv'
<1>1. CASE UNCHANGED <<vars, pvars>>
  BY <1>1 DEF CorrInv, vars, pvars
<1>2. ASSUME NEW t \in Task, NEW c \in wire \cup {NoHeader}, NewEntry(t, c) PROVE CorrInv'
  BY <1>2, EntryCorr
<1>3. ASSUME NEW t \in Task, NEW c \in wire \cup {NoHeader}, Extract(t, c) PROVE CorrInv'
  BY <1>3, ActiveStepsCorr
<1>4. ASSUME NEW t \in Task, NewPlain(t, "Local") PROVE CorrInv'
  <2>1. KeysAt(Len(ctxs'), Grown, wire, snaps)
    BY GrownCorr
  <2>2. data' = Grown /\ wire' = wire /\ snaps' = snaps
    BY <1>4 DEF NewPlain
  <2> QED BY <2>1, <2>2 DEF CorrInv
<1>5. ASSUME NEW t \in Task, NewExit(t) PROVE CorrInv'
  BY <1>5, ExitCorr
<1>6. ASSUME NEW t \in Task, Capture(t) PROVE CorrInv'
  BY <1>6, ActiveStepsCorr
<1>7. ASSUME NEW t \in Task, End(t) PROVE CorrInv'
  <2>1. SpanInv' /\ KeysAt(Len(ctxs'), Grown, wire, snaps) /\ (Len(ctxs') = Len(ctxs) => Grown = data)
    BY GrownOK, GrownCorr
  <2>2. Len(ctxs') = Len(ctxs)
    BY <1>7, <2>1, SameContexts DEF End
  <2> QED BY <1>7, <2>1, <2>2 DEF End, pvars, CorrInv
<1>8. ASSUME NEW t \in Task, NEW k \in Key, NEW v, PutCorrelation(t, k, v) PROVE CorrInv'
  BY <1>8, ActiveStepsCorr
<1>9. ASSUME NEW t \in Task, NEW sn \in snaps, Resume(t, sn) PROVE CorrInv'
  BY <1>9, ResumeCorr
<1> QED BY <1>1, <1>2, <1>3, <1>4, <1>5, <1>6, <1>7, <1>8, <1>9 DEF PNext

LEMMA CorrInvBegins == PInit => CorrInv
<1> SUFFICES ASSUME PInit PROVE CorrInv
  OBVIOUS
<1>1. PICK q \in SetToSeqs(Key) : wire = {ForeignHeader(q)}
  BY DEF PInit
<1>2. ctxs = <<>> /\ snaps = {}
  BY DEF PInit
<1>3. PICK n \in Nat : n = Cardinality(Key)
  BY PropagationAssumption, FS_CardinalityType
<1>4. q \in [1 .. n -> Key]
  BY <1>1, <1>3 DEF SetToSeqs
<1>5. q \in Seq(Key)
  BY <1>4, SeqDef
<1>6. ForeignHeader(q).corr = q
  BY DEF ForeignHeader
<1>7. 1 .. Len(ctxs) = {}
  BY <1>2
<1> QED BY <1>1, <1>2, <1>5, <1>6, <1>7 DEF CorrInv, KeysAt

(* However often put_correlation is called and whatever headers come in,   *)
(* those of other agents too: a context that continued no snapshot carries *)
(* one correlation element more than the maximum at most (put_correlation, *)
(* SW8CorrelationCarrier.val, Span.extract).                               *)
THEOREM CorrelationIsBounded ==
  PSpec => []CorrelationBound
<1>1. CorrInv => CorrelationBound
  BY DEF CorrInv, KeysAt, CorrOK, CorrelationBound, CtxNo
<1>2. SpanInv /\ PropInv /\ CorrInv /\ [PNext]_<<vars, pvars>> => CorrInv'
  BY CorrInvStep
<1> QED BY <1>1, <1>2, CorrInvBegins, PropInvAlways, PTL DEF PSpec

-----------------------------------------------------------------------------
(***************************************************************************)
(* PluginSpans: a span for which something went wrong has the error flag   *)
(* as long as it is open. That an error status is seen at all depends on   *)
(* the kinds of wrappers there are.                                        *)
(***************************************************************************)
Shape == {"around", "after", "generator", "events"}
Status == {"no", "returned", "finally", "default"}
Frame == [shape : Shape, status : Status, records : {"no", "extract", "extract_bytes"}]

WrapperType ==
  [kind : Kind, general : BOOLEAN, joins : BOOLEAN, ignorable : BOOLEAN, bypass : BOOLEAN,
   carries : {"no", "inject", "argument", "extract", "extract_bytes"}, shape : Shape, status : Status]

ErrorInv == frames \in [Task -> Seq(Frame)] /\ failed \subseteq errs /\ hidden = {}

LEMMA BasicWrappers ==
  /\ Exit \in WrapperType /\ Entry \in WrapperType /\ Local \in WrapperType
  /\ HttpExit \in WrapperType /\ HttpEntry \in WrapperType
  /\ Producer \in WrapperType /\ Consumer \in WrapperType
<1>1. Exit \in WrapperType
  BY DEF Exit, WrapperType, Shape, Status, Kind
<1>2. Entry \in WrapperType /\ Local \in WrapperType
  BY <1>1 DEF Entry, Local, WrapperType, Kind
<1>3. HttpExit \in WrapperType /\ HttpEntry \in WrapperType
  BY <1>1, <1>2 DEF HttpExit, HttpEntry, WrapperType, Status
<1>4. Producer \in WrapperType /\ Consumer \in WrapperType
  BY <1>1, <1>2 DEF Producer, Consumer, WrapperType
<1> QED BY <1>1, <1>2, <1>3, <1>4

LEMMA ClientWrappers ==
  HttpClients \subseteq WrapperType
<1>1. /\ requests_request \in WrapperType /\ aiohttp_request \in WrapperType
      /\ urllib_open \in WrapperType /\ websockets_handshake_client \in WrapperType
      /\ websockets_handshake \in WrapperType
  BY BasicWrappers DEF requests_request, aiohttp_request, urllib_open,
     websockets_handshake_client, websockets_handshake, WrapperType, Status
<1> QED BY <1>1, BasicWrappers DEF HttpClients, urllib3_request, urllib3_v2_request,
           httpx_async_send, httpx_send

LEMMA ServerWrappers ==
  HttpServers \subseteq WrapperType
<1>1. werkzeug_run_wsgi \in WrapperType /\ http_server_do_method \in WrapperType
  BY BasicWrappers DEF werkzeug_run_wsgi, http_server_do_method, WrapperType, Status
<1>2. /\ aiohttp_handle_request \in WrapperType /\ flask_full_dispatch_request \in WrapperType
      /\ django_get_response \in WrapperType /\ bottle_app_call \in WrapperType
  BY BasicWrappers DEF aiohttp_handle_request, flask_full_dispatch_request,
     django_get_response, bottle_app_call, WrapperType
<1>3. /\ falcon_api \in WrapperType /\ falcon_v3_app \in WrapperType
      /\ sanic_handle_request \in WrapperType /\ sanic_v2_listeners \in WrapperType
  BY BasicWrappers DEF falcon_api, falcon_v3_app, sanic_handle_request, sanic_v2_listeners,
     WrapperType, Status, Shape
<1>4. fastapi_create_span \in WrapperType
  BY BasicWrappers DEF fastapi_create_span, WrapperType, Status
<1>5. fastapi_call \in WrapperType
  BY <1>4 DEF fastapi_call, WrapperType
<1> QED BY <1>1, <1>2, <1>3, <1>5, BasicWrappers DEF HttpServers, http_server_handle,
           tornado_execute_async, tornado_execute_coroutine, pyramid_invoke_request

LEMMA QueueWrappers ==
  Queues \subseteq WrapperType
<1>1. rabbitmq_on_deliver \in WrapperType /\ kafka_send \in WrapperType
  BY BasicWrappers DEF rabbitmq_on_deliver, kafka_send, WrapperType
<1>2. /\ rabbitmq_basic_get \in WrapperType /\ rabbitmq_consume \in WrapperType
      /\ pulsar_receive \in WrapperType
  BY BasicWrappers DEF rabbitmq_basic_get, rabbitmq_consume, pulsar_receive, rabbitmq_callback,
     WrapperType, Shape
<1>3. kafka_poll_once \in WrapperType /\ confluent_message \in WrapperType
  BY BasicWrappers DEF kafka_poll_once, confluent_message, WrapperType, Shape
<1> QED BY <1>1, <1>2, <1>3, BasicWrappers DEF Queues, celery_fun, rabbitmq_basic_publish,
           rabbitmq_callback, rabbitmq_basic_consume, confluent_produce, confluent_poll_consume,
           pulsar_send, celery_send_task, amqp_basic_publish, amqp_callback,
           aiormq_basic_publish, aiormq_callback

LEMMA DatabaseWrappers ==
  Databases \subseteq WrapperType
<1>1. psycopg_stream \in WrapperType /\ psycopg_async_stream \in WrapperType
  BY BasicWrappers DEF psycopg_stream, psycopg_async_stream, WrapperType, Shape
<1>2. pymongo_command \in WrapperType
  BY BasicWrappers DEF pymongo_command, WrapperType
<1> QED BY <1>1, <1>2, BasicWrappers DEF Databases, redis_send_command,
           aioredis_execute_command, elasticsearch_perform_request, psycopg_execute,
           psycopg_executemany, psycopg_async_execute, psycopg_async_executemany,
           psycopg2_execute, psycopg2_executemany, psycopg2_callproc, asyncpg_bind,
           asyncpg_wrappers, mysqlclient_execute, pymysql_execute, neo4j_session_run,
           neo4j_transaction_run, neo4j_async_session_run, neo4j_async_transaction_run,
           happybase_create_table, happybase_opt, happybase_operations,
           pymongo_bulk_execute, pymongo_send_message

LEMMA GrpcWrappers ==
  Grpc \subseteq WrapperType
<1>1. grpc_server_unary \in WrapperType /\ grpc_aio_server_unary \in WrapperType
  BY BasicWrappers DEF grpc_server_unary, grpc_aio_server_unary, WrapperType
<1>2. grpc_server_streaming \in WrapperType /\ grpc_aio_server_streaming \in WrapperType
  BY <1>1 DEF grpc_server_streaming, grpc_aio_server_streaming, WrapperType, Shape
<1>3. grpc_client_intercept \in WrapperType /\ grpc_aio_client_intercept \in WrapperType
  BY BasicWrappers DEF grpc_client_intercept, grpc_aio_client_intercept, WrapperType
<1>4. grpc_channel_factory \in WrapperType /\ grpc_aio_channel \in WrapperType
  BY <1>3 DEF grpc_channel_factory, grpc_aio_channel, grpc_aio_interceptors, WrapperType
<1> QED BY <1>1, <1>2, <1>4 DEF Grpc, grpc_intercept_service, grpc_aio_intercept_service

LEMMA WrapperFrames ==
  ASSUME NEW w \in Wrapper
  PROVE  Running(w) \in Frame
<1>1. w \in WrapperType
  BY BasicWrappers, ClientWrappers, ServerWrappers, QueueWrappers, DatabaseWrappers, GrpcWrappers
     DEF Wrapper, trace_decorator
<1> QED BY <1>1 DEF Running, Frame, WrapperType

(* Every failure that a wrapper can end with is one that marks its span.   *)
LEMMA WrongIsMarked ==
  ASSUME NEW w \in Frame, NEW out \in Outcome, MayEnd(w, out), WentWrong(out)
  PROVE  Marked(w, out)
<1>1. w.status \in Status /\ w.shape \in Shape
  BY DEF Frame
<1>2. CASE out.raised = "exception"
  <2>1. w.shape # "events"
    BY <1>2 DEF MayEnd
  <2> QED BY <1>2, <2>1 DEF Marked
<1>3. CASE out.raised = "no" /\ out.answer = "bad"
  <2>1. w.status \in {"returned", "finally", "default"}
    BY <1>1, <1>3 DEF MayEnd, Status
  <2>2. StatusBad(w, out)
    BY <1>3, <2>1 DEF StatusBad
  <2> QED BY <2>2 DEF Marked
<1> QED BY <1>2, <1>3 DEF WentWrong

LEMMA FrameRemoved ==
  ASSUME NEW q \in Seq(Frame), NEW i \in 1 .. Len(q)
  PROVE  RemoveAt(q, i) \in Seq(Frame)
<1>1. SubSeq(q, 1, i - 1) \in Seq(Frame)
  BY SubSeqProperties
<1>2. SubSeq(q, i + 1, Len(q)) \in Seq(Frame)
  BY SubSeqProperties
<1> QED BY <1>1, <1>2, ConcatProperties DEF RemoveAt

LEMMA ErrorInvStep ==
  ASSUME ErrorInv, [WNext]_all
  PROVE  ErrorInv'
<1>0. frames \in [Task -> Seq(Frame)] /\ failed \subseteq errs /\ hidden = {}
  BY DEF ErrorInv
<1>1. CASE UNCHANGED all
  BY <1>1 DEF ErrorInv, all, wvars
<1>2. CASE PassThrough
  BY <1>2 DEF ErrorInv, PassThrough, all, wvars
<1>3. ASSUME NEW t \in Task, NEW w \in Wrapper, NEW c, Begin(t, w, c) PROVE ErrorInv'
  <2>1. errs' = errs /\ failed' = failed /\ hidden' = hidden
    BY <1>3 DEF Begin, AfterStart
  <2>2. frames' = [frames EXCEPT ![t] = Append(frames[t], Running(w))]
    BY <1>3 DEF Begin
  <2>3. frames' \in [Task -> Seq(Frame)]
    BY <1>0, <2>2, WrapperFrames, AppendProperties
  <2> QED BY <1>0, <2>1, <2>3 DEF ErrorInv
<1>4. ASSUME NEW t \in Task, NEW c, Record(t, c) PROVE ErrorInv'
  BY <1>4 DEF ErrorInv, Record, wvars
<1>5. ASSUME NEW t \in Task, NEW i, NEW out \in Outcome, Finish(t, i, out) PROVE ErrorInv'
  <2>1. PICK q \in Seq(Frame) : q = frames[t]
    BY <1>0
  <2>2. i \in 1 .. Len(q) /\ frames' = [frames EXCEPT ![t] = RemoveAt(q, i)]
    BY <1>5, <2>1 DEF Finish
  <2>3. frames' \in [Task -> Seq(Frame)]
    BY <1>0, <2>1, <2>2, FrameRemoved
  <2>4. PICK w \in Frame : w = q[i]
    BY <2>1, <2>2
  <2>5. PICK s, over, marked, wrong :
          /\ marked = IF Marked(w, out) THEN errs \cup {s} ELSE errs
          /\ wrong = IF WentWrong(out) THEN failed \cup {s} ELSE failed
          /\ MayEnd(w, out)
          /\ errs' = marked \ over /\ failed' = wrong \ over
          /\ hidden' = hidden \cup ((wrong \ marked) \cap over)
    BY <1>5, <2>1, <2>4 DEF Finish
  <2>6. wrong \subseteq marked
    BY <1>0, <2>5, WrongIsMarked
  <2> QED BY <1>0, <2>3, <2>5, <2>6 DEF ErrorInv
<1>6. ASSUME NEW t \in Task, NoResponse(t) PROVE ErrorInv'
  <2>1. PICK q \in Seq(Frame) : q = frames[t]
    BY <1>0
  <2>2. q # <<>> /\ frames' = [frames EXCEPT ![t] = SubSeq(q, 1, Len(q) - 1)]
    BY <1>6, <2>1 DEF NoResponse, Front
  <2>3. SubSeq(q, 1, Len(q) - 1) \in Seq(Frame)
    BY <2>2, SubSeqProperties
  <2>4. errs' = errs /\ failed' = failed /\ hidden' = hidden
    BY <1>6 DEF NoResponse
  <2> QED BY <1>0, <2>2, <2>3, <2>4 DEF ErrorInv
<1>7. ASSUME NEW t \in Task, MarkActive(t) PROVE ErrorInv'
  BY <1>0, <1>7 DEF ErrorInv, MarkActive
<1>8. ASSUME NEW t \in Task, Hook(t) PROVE ErrorInv'
  BY <1>7, <1>8 DEF Hook, flask_handle_user_exception, flask_handle_exception,
     django_handle_uncaught_exception, tornado_log_exception, sanic_error_handler_response,
     sanic_format_http1_response
<1> QED BY <1>1, <1>2, <1>3, <1>4, <1>5, <1>6, <1>8 DEF WNext

(* A failure that a plugin's wrapper or hook gets to see is on the span    *)
(* when it is reported, also when the wrapper of a framework joins the     *)
(* span of the server below it later (EntrySpan.start, Span.__exit__).     *)
THEOREM FailuresAreShown ==
  WSpec => []ErrorsShown
<1>1. WInit => ErrorInv
  BY DEF WInit, ErrorInv
<1>2. ErrorInv /\ [WNext]_all => ErrorInv'
  BY ErrorInvStep
<1>3. ErrorInv => ErrorsShown
  BY DEF ErrorInv, ErrorsShown
<1> QED BY <1>1, <1>2, <1>3, PTL DEF WSpec

-----------------------------------------------------------------------------
(***************************************************************************)
(* PluginSpans: generators may end in any order and some requests never    *)
(* get their response, so a stack s need not follow its with blocks b. It  *)
(* still holds their spans, once each and all open, and nothing else but   *)
(* spans of lost requests (L); above a NoopSpan there are only NoopSpans.  *)
(***************************************************************************)
NoopOf(x, ss, cs) == cs[ss[x].ctx].noop

Dark(q, ss, cs) ==
  \A i, j \in 1 .. Len(q) : i < j /\ NoopOf(q[i], ss, cs) => NoopOf(q[j], ss, cs)

(* The depth of a span counts its with blocks, and those that were lost.   *)
CountedAs(x, b, ss, L) ==
  /\ ss[x].depth >= Cardinality(Uses(b, x))
  /\ ss[x].ctx \notin L => ss[x].depth = Cardinality(Uses(b, x))

HeldAt(b, s, ss, cs, L) ==
  /\ Once(s, Len(s)) /\ \A i \in 1 .. Len(b) : Opened(b[i], s)
  /\ \A p \in 1 .. Len(s) : /\ ss[s[p]].depth > 0
                            /\ Opened(s[p], b) \/ ss[s[p]].ctx \in L
  /\ Dark(s, ss, cs) /\ Dark(b, ss, cs)
  /\ \A i \in 1 .. Len(b) : CountedAs(b[i], b, ss, L)

Held(bl, st, ss, cs, L) ==
  /\ \A t \in Task : HeldAt(bl[t], st[t], ss, cs, L)
  /\ \A x \in 1 .. Len(ss) : ss[x].depth > 0 => \E t \in Task : Opened(x, st[t])
  /\ \A t, u \in Task : \A x \in 1 .. Len(ss) : Opened(x, st[t]) /\ Opened(x, st[u]) => t = u

HeldInv ==
  /\ BaseInv /\ Held(blocks, stack, spans, ctxs, lost)
  /\ \A t \in Task : Len(frames[t]) = Len(blocks[t])

(* Where the j-th element of a sequence without its i-th one was before.   *)
Past(j, i) == IF j < i THEN j ELSE j + 1

LEMMA RemovedAt ==
  ASSUME NEW S, NEW q \in Seq(S), NEW i \in 1 .. Len(q)
  PROVE  /\ RemoveAt(q, i) \in Seq(S) /\ Len(RemoveAt(q, i)) = Len(q) - 1
         /\ \A j \in 1 .. Len(q) - 1 : RemoveAt(q, i)[j] = q[Past(j, i)]
<1>1. PICK n \in Nat : n = Len(q)
  OBVIOUS
<1>2. PICK a, c : a = SubSeq(q, 1, i - 1) /\ c = SubSeq(q, i + 1, n)
  OBVIOUS
<1>3. a \in Seq(S) /\ Len(a) = i - 1 /\ \A j \in 1 .. i - 1 : a[j] = q[j]
  BY <1>1, <1>2, SubSeqProperties
<1>4. c \in Seq(S) /\ Len(c) = n - i /\ \A j \in 1 .. n - i : c[j] = q[i + j]
  <2>1. c \in Seq(S) /\ Len(c) = n - i
    BY <1>1, <1>2, SubSeqProperties
  <2>2. \A j \in 1 .. n - i : c[j] = q[i + 1 + j - 1]
    BY <1>1, <1>2
  <2> QED BY <2>1, <2>2
<1>5. RemoveAt(q, i) = a \o c
  BY <1>1, <1>2 DEF RemoveAt
<1>6. a \o c \in Seq(S) /\ Len(a \o c) = n - 1
  <2>1. a \o c \in Seq(S) /\ Len(a \o c) = Len(a) + Len(c)
    BY <1>3, <1>4, ConcatProperties
  <2> QED BY <1>1, <1>3, <1>4, <2>1
<1>7. ASSUME NEW j \in 1 .. n - 1 PROVE (a \o c)[j] = q[Past(j, i)]
  <2>1. CASE j < i
    BY <1>3, <1>4, <2>1 DEF Past
  <2>2. CASE ~(j < i)
    <3>1. j - (i - 1) \in 1 .. n - i /\ i + (j - (i - 1)) = j + 1
      BY <1>1, <2>2
    <3>2. (a \o c)[j] = c[j - (i - 1)]
      BY <1>3, <1>4, <2>2, <3>1
    <3> QED BY <1>4, <2>2, <3>1, <3>2 DEF Past
  <2> QED BY <2>1, <2>2
<1> QED BY <1>1, <1>5, <1>6, <1>7

LEMMA PastFacts ==
  ASSUME NEW n \in Nat, NEW i \in 1 .. n
  PROVE  /\ \A j \in 1 .. n - 1 : Past(j, i) \in 1 .. n /\ Past(j, i) # i
         /\ \A j, k \in 1 .. n - 1 : j < k => Past(j, i) < Past(k, i)
         /\ \A m \in 1 .. n : m # i => \E j \in 1 .. n - 1 : m = Past(j, i)
<1>1. \A m \in 1 .. n : m < i => m \in 1 .. n - 1 /\ m = Past(m, i)
  BY DEF Past
<1>2. \A m \in 1 .. n : m > i => m - 1 \in 1 .. n - 1 /\ m = Past(m - 1, i)
  BY DEF Past
<1>3. \A m \in 1 .. n : m # i => m < i \/ m > i
  OBVIOUS
<1> QED BY <1>1, <1>2, <1>3 DEF Past

(* What is left when one with block ends.                                  *)
LEMMA UsesLeft ==
  ASSUME NEW b \in Seq(Nat), NEW i \in 1 .. Len(b), NEW x
  PROVE  /\ x # b[i] => Cardinality(Uses(RemoveAt(b, i), x)) = Cardinality(Uses(b, x))
         /\ x = b[i] => Cardinality(Uses(RemoveAt(b, i), x)) = Cardinality(Uses(b, x)) - 1
         /\ Opened(x, RemoveAt(b, i)) => Opened(x, b)
         /\ Opened(x, b) => x = b[i] \/ Opened(x, RemoveAt(b, i))
<1>0. PICK r : r = RemoveAt(b, i)
  OBVIOUS
<1>1. PICK n \in Nat : n = Len(b)
  OBVIOUS
<1>2. r \in Seq(Nat) /\ Len(r) = n - 1 /\ \A j \in 1 .. n - 1 : r[j] = b[Past(j, i)]
  BY <1>0, <1>1, RemovedAt
<1>3. /\ \A j \in 1 .. n - 1 : Past(j, i) \in 1 .. n /\ Past(j, i) # i
      /\ \A m \in 1 .. n : m # i => \E j \in 1 .. n - 1 : m = Past(j, i)
  BY <1>0, <1>1, PastFacts
<1>4. Opened(x, r) => Opened(x, b)
  BY SMTT(30), <1>0, <1>1, <1>2, <1>3 DEF Opened, In
<1>5. Opened(x, b) => x = b[i] \/ Opened(x, r)
  <2> SUFFICES ASSUME NEW m \in 1 .. n, b[m] = x, x # b[i] PROVE Opened(x, r)
    BY <1>0, <1>1 DEF Opened, In
  <2>1. PICK j \in 1 .. n - 1 : m = Past(j, i)
    BY <1>3
  <2> QED BY <1>2, <2>1 DEF Opened, In
<1>6. PICK U, V : U = Uses(b, x) \ {i} /\ V = Uses(r, x)
  OBVIOUS
<1>7. IsFiniteSet(V) /\ IsFiniteSet(U)
  BY <1>2, <1>6, UsesFacts, FS_RemoveElement, FS_Subset
<1>8. Cardinality(U) = Cardinality(V)
  <2>1. PICK f : f = [j \in V |-> Past(j, i)]
    OBVIOUS
  <2>2. \A j \in V : j \in 1 .. n - 1 /\ f[j] = Past(j, i) /\ r[j] = x
    BY <1>2, <1>6, <2>1 DEF Uses
  <2>3. f \in [V -> U]
    <3>1. \A j \in V : Past(j, i) \in U
      BY <1>0, <1>1, <1>2, <1>3, <1>6, <2>2 DEF Uses
    <3> QED BY <2>1, <3>1
  <2>4. \A j, k \in V : f[j] = f[k] => j = k
    BY <2>2 DEF Past
  <2>5. ASSUME NEW m \in U PROVE \E j \in V : f[j] = m
    <3>1. m \in 1 .. n /\ m # i /\ b[m] = x
      BY <1>0, <1>1, <1>6 DEF Uses
    <3>2. PICK j \in 1 .. n - 1 : m = Past(j, i)
      BY <1>3, <3>1
    <3>3. j \in V
      BY <1>2, <1>6, <3>1, <3>2 DEF Uses
    <3> QED BY <2>2, <3>2, <3>3
  <2>6. f \in Bijection(V, U)
    BY <2>3, <2>4, <2>5 DEF Bijection, Injection, IsInjective, Surjection
  <2>7. ExistsBijection(V, U)
    BY <2>6 DEF ExistsBijection
  <2> QED BY <1>7, <2>7, FS_Bijection
<1>9. x # b[i] => Cardinality(V) = Cardinality(Uses(b, x))
  <2>1. x # b[i] => U = Uses(b, x)
    BY <1>6 DEF Uses
  <2> QED BY <1>8, <2>1
<1>10. x = b[i] => Cardinality(V) = Cardinality(Uses(b, x)) - 1
  <2>1. x = b[i] => i \in Uses(b, x)
    BY <1>0, <1>1 DEF Uses
  <2> QED BY <1>6, <1>8, <2>1, UsesFacts, FS_RemoveElement
<1> QED BY <1>0, <1>1, <1>4, <1>5, <1>6, <1>9, <1>10

(* A span that is on a stack once is taken from where it is.               *)
LEMMA RemovedFirst ==
  ASSUME NEW s \in Seq(Nat), NEW p \in 1 .. Len(s), Once(s, Len(s))
  PROVE  RemoveFirst(s, s[p]) = RemoveAt(s, p)
<1> DEFINE I == {i \in 1 .. Len(s) : s[i] = s[p]}
<1>1. I = {p}
  BY DEF Once
<1>2. Min(I) = p
  BY <1>1 DEF Min
<1>3. SelectInSeq(s, LAMBDA v : v = s[p]) = Min(I)
  BY <1>1 DEF SelectInSeq
<1>4. \E i \in 1 .. Len(s) : s[i] = s[p]
  OBVIOUS
<1> QED BY <1>2, <1>3, <1>4 DEF RemoveFirst

LEMMA OnceLeft ==
  ASSUME NEW s \in Seq(Nat), NEW p \in 1 .. Len(s), Once(s, Len(s))
  PROVE  Once(RemoveAt(s, p), Len(RemoveAt(s, p))) /\ ~Opened(s[p], RemoveAt(s, p))
<1>0. PICK r : r = RemoveAt(s, p)
  OBVIOUS
<1>1. PICK n \in Nat : n = Len(s)
  OBVIOUS
<1>2. r \in Seq(Nat) /\ Len(r) = n - 1 /\ \A j \in 1 .. n - 1 : r[j] = s[Past(j, p)]
  BY <1>0, <1>1, RemovedAt
<1>3. /\ \A j \in 1 .. n - 1 : Past(j, p) \in 1 .. n /\ Past(j, p) # p
      /\ \A j, k \in 1 .. n - 1 : j < k => Past(j, p) < Past(k, p)
  BY <1>0, <1>1, PastFacts
<1>4. Once(r, n - 1)
  <2> SUFFICES ASSUME NEW j \in 1 .. n - 1, NEW k \in 1 .. n - 1, r[j] = r[k] PROVE j = k
    BY DEF Once
  <2>1. Past(j, p) = Past(k, p)
    BY <1>1, <1>2, <1>3 DEF Once
  <2> QED BY <2>1 DEF Past
<1>5. ~Opened(s[p], r)
  BY SMTT(30), <1>0, <1>1, <1>2, <1>3 DEF Once, Opened, In
<1> QED BY <1>0, <1>1, <1>2, <1>4, <1>5

LEMMA DarkLeft ==
  ASSUME NEW q \in Seq(Nat), NEW i \in 1 .. Len(q), NEW ss, NEW cs, Dark(q, ss, cs)
  PROVE  Dark(RemoveAt(q, i), ss, cs)
<1>0. PICK r : r = RemoveAt(q, i)
  OBVIOUS
<1>1. PICK n \in Nat : n = Len(q)
  OBVIOUS
<1>2. r \in Seq(Nat) /\ Len(r) = n - 1 /\ \A j \in 1 .. n - 1 : r[j] = q[Past(j, i)]
  BY <1>0, <1>1, RemovedAt
<1>3. /\ \A j \in 1 .. n - 1 : Past(j, i) \in 1 .. n /\ Past(j, i) # i
      /\ \A j, k \in 1 .. n - 1 : j < k => Past(j, i) < Past(k, i)
  BY <1>0, <1>1, PastFacts
<1> SUFFICES ASSUME NEW j \in 1 .. n - 1, NEW k \in 1 .. n - 1, j < k, NoopOf(r[j], ss, cs)
             PROVE  NoopOf(r[k], ss, cs)
  BY <1>0, <1>2 DEF Dark
<1>4. Past(j, i) \in 1 .. n /\ Past(k, i) \in 1 .. n /\ Past(j, i) < Past(k, i)
  BY <1>3
<1> QED BY <1>1, <1>2, <1>4 DEF Dark

(* A span on top of a stack, above a traced one or itself a NoopSpan.      *)
LEMMA DarkAppended ==
  ASSUME NEW q \in Seq(Nat), NEW x \in Nat, NEW ss, NEW cs, Dark(q, ss, cs),
         \A i \in 1 .. Len(q) : NoopOf(q[i], ss, cs) => NoopOf(x, ss, cs)
  PROVE  Dark(Append(q, x), ss, cs)
<1>0. PICK r : r = Append(q, x)
  OBVIOUS
<1>1. PICK n \in Nat : n = Len(q)
  OBVIOUS
<1>2. r \in Seq(Nat) /\ Len(r) = n + 1 /\ r[n + 1] = x /\ \A i \in 1 .. n : r[i] = q[i]
  BY <1>0, <1>1, AppendProperties
<1> SUFFICES ASSUME NEW i \in 1 .. n + 1, NEW j \in 1 .. n + 1, i < j, NoopOf(r[i], ss, cs)
             PROVE  NoopOf(r[j], ss, cs)
  BY <1>0, <1>1, <1>2 DEF Dark
<1>3. i \in 1 .. n /\ r[i] = q[i]
  BY <1>2
<1>4. CASE j = n + 1
  BY <1>0, <1>1, <1>2, <1>3, <1>4
<1>5. CASE j # n + 1
  <2>1. j \in 1 .. n /\ r[j] = q[j]
    BY <1>2, <1>5
  <2> QED BY <1>0, <1>1, <1>3, <2>1 DEF Dark
<1> QED BY <1>4, <1>5

(* Nothing changes for a stack whose spans do not change.                  *)
SameSpan(x, ss, s2, cs, c2) ==
  s2[x].ctx = ss[x].ctx /\ s2[x].depth = ss[x].depth /\ c2[s2[x].ctx].noop = cs[ss[x].ctx].noop

LEMMA HeldKept ==
  ASSUME NEW b, NEW s, NEW ss, NEW s2, NEW cs, NEW c2, NEW L, NEW L2, L \subseteq L2,
         HeldAt(b, s, ss, cs, L), \A p \in 1 .. Len(s) : SameSpan(s[p], ss, s2, cs, c2)
  PROVE  HeldAt(b, s, s2, c2, L2)
<1>1. /\ Once(s, Len(s)) /\ \A i \in 1 .. Len(b) : Opened(b[i], s)
      /\ \A p \in 1 .. Len(s) : /\ ss[s[p]].depth > 0
                                /\ Opened(s[p], b) \/ ss[s[p]].ctx \in L
      /\ Dark(s, ss, cs) /\ Dark(b, ss, cs)
      /\ \A i \in 1 .. Len(b) : CountedAs(b[i], b, ss, L)
  BY DEF HeldAt
<1>2. \A i \in 1 .. Len(b) : SameSpan(b[i], ss, s2, cs, c2)
  BY <1>1 DEF Opened, In
<1>3. Dark(s, s2, c2)
  BY <1>1 DEF Dark, NoopOf, SameSpan
<1>4. Dark(b, s2, c2)
  BY <1>1, <1>2 DEF Dark, NoopOf, SameSpan
<1>5. \A i \in 1 .. Len(b) : CountedAs(b[i], b, s2, L2)
  BY <1>1, <1>2 DEF CountedAs, SameSpan
<1>6. \A p \in 1 .. Len(s) : s2[s[p]].depth > 0 /\ (Opened(s[p], b) \/ s2[s[p]].ctx \in L2)
  BY <1>1 DEF SameSpan
<1> QED BY <1>1, <1>3, <1>4, <1>5, <1>6 DEF HeldAt

(* A new span.                                                             *)
LEMMA HeldPushed ==
  ASSUME NEW b \in Seq(Nat), NEW s \in Seq(Nat), NEW x \in Nat, NEW ss, NEW cs, NEW L,
         HeldAt(b, s, ss, cs, L), ~Opened(x, s), ss[x].depth = 1,
         \A p \in 1 .. Len(s) : NoopOf(s[p], ss, cs) => NoopOf(x, ss, cs)
  PROVE  HeldAt(Append(b, x), Append(s, x), ss, cs, L)
<1>1. /\ Once(s, Len(s)) /\ \A i \in 1 .. Len(b) : Opened(b[i], s)
      /\ \A p \in 1 .. Len(s) : /\ ss[s[p]].depth > 0
                                /\ Opened(s[p], b) \/ ss[s[p]].ctx \in L
      /\ Dark(s, ss, cs) /\ Dark(b, ss, cs)
      /\ \A i \in 1 .. Len(b) : CountedAs(b[i], b, ss, L)
  BY DEF HeldAt
<1>2. PICK b2, s2 : b2 = Append(b, x) /\ s2 = Append(s, x)
  OBVIOUS
<1>3. PICK lb \in Nat, ls \in Nat : lb = Len(b) /\ ls = Len(s)
  OBVIOUS
<1>4. b2 \in Seq(Nat) /\ Len(b2) = lb + 1 /\ b2[lb + 1] = x /\ \A i \in 1 .. lb : b2[i] = b[i]
  BY <1>2, <1>3, AppendProperties
<1>5. s2 \in Seq(Nat) /\ Len(s2) = ls + 1 /\ s2[ls + 1] = x /\ \A i \in 1 .. ls : s2[i] = s[i]
  BY <1>2, <1>3, AppendProperties
<1>6. \A y : /\ y # x => Uses(b2, y) = Uses(b, y)
             /\ Opened(y, b2) <=> Opened(y, b) \/ y = x
             /\ Opened(y, s2) <=> Opened(y, s) \/ y = x
  <2> SUFFICES ASSUME NEW y
               PROVE  /\ y # x => Uses(b2, y) = Uses(b, y)
                      /\ Opened(y, b2) <=> Opened(y, b) \/ y = x
                      /\ Opened(y, s2) <=> Opened(y, s) \/ y = x
    OBVIOUS
  <2>1. /\ y # x => Uses(b2, y) = Uses(b, y)
        /\ Opened(y, b2) <=> Opened(y, b) \/ y = x
    BY <1>2, UsesAppended
  <2>2. Opened(y, s2) <=> Opened(y, s) \/ y = x
    BY <1>2, UsesAppended
  <2> QED BY <2>1, <2>2
<1>7. ~Opened(x, b) /\ \A p \in 1 .. ls : s[p] # x
  <2>1. \A p \in 1 .. ls : s[p] # x
    BY <1>3 DEF Opened, In
  <2> QED BY <1>1, <2>1 DEF Opened, In
<1>8. Cardinality(Uses(b2, x)) = 1
  BY <1>2, <1>7, UsesFacts, UsesAppended
<1>9. /\ \A i \in 1 .. lb + 1 : i = lb + 1 \/ i \in 1 .. lb
      /\ \A i \in 1 .. ls + 1 : i = ls + 1 \/ i \in 1 .. ls
  OBVIOUS
<1>10. Once(s2, ls + 1)
  <2> SUFFICES ASSUME NEW p \in 1 .. ls + 1, NEW q \in 1 .. ls + 1, s2[p] = s2[q] PROVE p = q
    BY DEF Once
  <2>1. CASE p \in 1 .. ls /\ q \in 1 .. ls
    BY <1>1, <1>3, <1>5, <2>1 DEF Once
  <2>2. CASE ~(p \in 1 .. ls /\ q \in 1 .. ls)
    BY <1>5, <1>7, <1>9, <2>2
  <2> QED BY <2>1, <2>2
<1>11. \A i \in 1 .. lb + 1 : Opened(b2[i], s2)
  BY <1>1, <1>3, <1>4, <1>6, <1>9
<1>12. \A p \in 1 .. ls + 1 : ss[s2[p]].depth > 0 /\ (Opened(s2[p], b2) \/ ss[s2[p]].ctx \in L)
  BY SMTT(30), <1>1, <1>3, <1>5, <1>6, <1>9
<1>13. Dark(s2, ss, cs)
  BY <1>1, <1>2, DarkAppended
<1>14. \A i \in 1 .. lb : NoopOf(b[i], ss, cs) => NoopOf(x, ss, cs)
  BY <1>1, <1>3 DEF Opened, In
<1>15. Dark(b2, ss, cs)
  BY <1>1, <1>2, <1>3, <1>14, DarkAppended
<1>16. ASSUME NEW i \in 1 .. lb + 1 PROVE CountedAs(b2[i], b2, ss, L)
  <2>1. CASE i = lb + 1
    BY <1>4, <1>8, <2>1 DEF CountedAs
  <2>2. CASE i \in 1 .. lb
    <3>1. b2[i] = b[i] /\ Opened(b[i], b)
      BY <1>3, <1>4, <2>2 DEF Opened, In
    <3>2. Uses(b2, b[i]) = Uses(b, b[i])
      BY <1>6, <1>7, <3>1
    <3> QED BY <1>1, <1>3, <2>2, <3>1, <3>2 DEF CountedAs
  <2> QED BY <1>9, <2>1, <2>2
<1> QED BY <1>2, <1>4, <1>5, <1>10, <1>11, <1>12, <1>13, <1>15, <1>16 DEF HeldAt

(* No span of the stack but x changes.                                     *)
DepthsButOf(x, s, ss, s2) ==
  \A p \in 1 .. Len(s) : /\ s2[s[p]].ctx = ss[s[p]].ctx
                         /\ s[p] # x => s2[s[p]].depth = ss[s[p]].depth

(* Another with block of the span on top.                                  *)
LEMMA HeldReentered ==
  ASSUME NEW b \in Seq(Nat), NEW s \in Seq(Nat), NEW x \in Nat, NEW ss, NEW s2, NEW cs, NEW L,
         HeldAt(b, s, ss, cs, L), Len(s) # 0, x = s[Len(s)], ss[x].depth \in Nat,
         DepthsButOf(x, s, ss, s2),
         s2[x].depth = ss[x].depth + 1
  PROVE  HeldAt(Append(b, x), s, s2, cs, L)
<1> USE DEF DepthsButOf
<1>1. /\ Once(s, Len(s)) /\ \A i \in 1 .. Len(b) : Opened(b[i], s)
      /\ \A p \in 1 .. Len(s) : /\ ss[s[p]].depth > 0
                                /\ Opened(s[p], b) \/ ss[s[p]].ctx \in L
      /\ Dark(s, ss, cs) /\ Dark(b, ss, cs)
      /\ \A i \in 1 .. Len(b) : CountedAs(b[i], b, ss, L)
  BY DEF HeldAt
<1>2. PICK b2 : b2 = Append(b, x)
  OBVIOUS
<1>3. PICK lb \in Nat, ls \in Nat : lb = Len(b) /\ ls = Len(s) /\ ls \in 1 .. ls
  OBVIOUS
<1>4. b2 \in Seq(Nat) /\ Len(b2) = lb + 1 /\ b2[lb + 1] = x /\ \A i \in 1 .. lb : b2[i] = b[i]
  BY <1>2, <1>3, AppendProperties
<1>5. \A y : /\ y # x => Uses(b2, y) = Uses(b, y)
             /\ Opened(y, b2) <=> Opened(y, b) \/ y = x
  BY <1>2, UsesAppended
<1>6. /\ Cardinality(Uses(b2, x)) = Cardinality(Uses(b, x)) + 1 /\ Cardinality(Uses(b, x)) \in Nat
      /\ Opened(x, b) <=> Cardinality(Uses(b, x)) # 0
  BY <1>2, UsesAgain
<1>7. \A i \in 1 .. lb + 1 : i = lb + 1 \/ i \in 1 .. lb
  OBVIOUS
<1>8. Opened(x, s)
  BY <1>3 DEF Opened, In
<1>9. \A i \in 1 .. lb + 1 : Opened(b2[i], s)
  BY <1>1, <1>3, <1>4, <1>7, <1>8
<1>10. ASSUME NEW p \in 1 .. ls
       PROVE  s2[s[p]].depth > 0 /\ (Opened(s[p], b2) \/ s2[s[p]].ctx \in L)
  <2>1. s2[s[p]].depth > 0
    <3>1. CASE s[p] = x
      BY <3>1
    <3>2. CASE s[p] # x
      BY <1>1, <1>3, <3>2
    <3> QED BY <3>1, <3>2
  <2>2. Opened(s[p], b2) \/ s2[s[p]].ctx \in L
    BY <1>1, <1>3, <1>5
  <2> QED BY <2>1, <2>2
<1>11. \A y : Opened(y, s) => NoopOf(y, s2, cs) = NoopOf(y, ss, cs)
  BY DEF Opened, In, NoopOf
<1>12. Dark(s, s2, cs)
  <2>1. \A p \in 1 .. ls : NoopOf(s[p], s2, cs) = NoopOf(s[p], ss, cs)
    BY <1>3 DEF NoopOf
  <2> QED BY <1>1, <1>3, <2>1 DEF Dark
<1>13. Dark(b, s2, cs)
  BY <1>1, <1>11 DEF Dark
<1>14. ASSUME NEW i \in 1 .. lb, NoopOf(b[i], s2, cs) PROVE NoopOf(x, s2, cs)
  <2>1. PICK p \in 1 .. ls : s[p] = b[i]
    BY <1>1, <1>3 DEF Opened, In
  <2>2. p < ls \/ s[p] = x
    BY <1>3, <2>1
  <2> QED BY <1>3, <1>12, <1>14, <2>1, <2>2 DEF Dark
<1>15. Dark(b2, s2, cs)
  BY <1>2, <1>3, <1>13, <1>14, DarkAppended
<1>16. CountedAs(x, b2, s2, L)
  <2>1. CASE Opened(x, b)
    <3>1. CountedAs(x, b, ss, L)
      BY <1>1, <2>1 DEF Opened, In
    <3> QED BY <1>3, <1>6, <3>1 DEF CountedAs
  <2>2. CASE ~Opened(x, b)
    <3>1. ss[x].ctx \in L /\ s2[x].ctx = ss[x].ctx
      BY <1>1, <1>3, <2>2
    <3> QED BY <1>6, <2>2, <3>1 DEF CountedAs
  <2> QED BY <2>1, <2>2
<1>17. ASSUME NEW i \in 1 .. lb + 1 PROVE CountedAs(b2[i], b2, s2, L)
  <2>1. CASE b2[i] = x
    BY <1>16, <2>1
  <2>2. CASE b2[i] # x
    <3>1. i \in 1 .. lb /\ b2[i] = b[i] /\ Opened(b[i], s)
      BY <1>1, <1>3, <1>4, <1>7, <2>2
    <3>2. s2[b[i]].ctx = ss[b[i]].ctx /\ s2[b[i]].depth = ss[b[i]].depth
      BY <2>2, <3>1 DEF Opened, In
    <3>3. Uses(b2, b[i]) = Uses(b, b[i]) /\ CountedAs(b[i], b, ss, L)
      BY <1>1, <1>3, <1>5, <2>2, <3>1
    <3> QED BY <3>1, <3>2, <3>3 DEF CountedAs
  <2> QED BY <2>1, <2>2
<1> QED BY <1>1, <1>2, <1>3, <1>4, <1>9, <1>10, <1>12, <1>15, <1>17 DEF HeldAt

(* A with block ends whose span has others.                                *)
LEMMA HeldLeft ==
  ASSUME NEW b \in Seq(Nat), NEW s \in Seq(Nat), NEW ss, NEW s2, NEW cs, NEW L,
         HeldAt(b, s, ss, cs, L), NEW i \in 1 .. Len(b), NEW x, x = b[i],
         NEW d \in Nat, d > 1, ss[x].depth = d, s2[x].depth = d - 1,
         DepthsButOf(x, s, ss, s2)
  PROVE  HeldAt(RemoveAt(b, i), s, s2, cs, L)
<1> USE DEF DepthsButOf
<1>1. /\ Once(s, Len(s)) /\ \A j \in 1 .. Len(b) : Opened(b[j], s)
      /\ \A p \in 1 .. Len(s) : /\ ss[s[p]].depth > 0
                                /\ Opened(s[p], b) \/ ss[s[p]].ctx \in L
      /\ Dark(s, ss, cs) /\ Dark(b, ss, cs)
      /\ \A j \in 1 .. Len(b) : CountedAs(b[j], b, ss, L)
  BY DEF HeldAt
<1>2. PICK r : r = RemoveAt(b, i)
  OBVIOUS
<1>3. r \in Seq(Nat) /\ Dark(r, ss, cs)
  BY <1>1, <1>2, RemovedAt, DarkLeft
<1>4. \A y : /\ y # x => Cardinality(Uses(r, y)) = Cardinality(Uses(b, y))
             /\ y = x => Cardinality(Uses(r, y)) = Cardinality(Uses(b, y)) - 1
             /\ Opened(y, r) => Opened(y, b)
             /\ Opened(y, b) => y = x \/ Opened(y, r)
  BY <1>2, UsesLeft
<1>5. \A y : Opened(y, b) => Opened(y, s) /\ CountedAs(y, b, ss, L)
  BY <1>1 DEF Opened, In
<1>6. \A j \in 1 .. Len(r) : Opened(r[j], r)
  BY DEF Opened, In
<1>7. \A y : Opened(y, s) => s2[y].ctx = ss[y].ctx /\ (y # x => s2[y].depth = ss[y].depth)
  BY DEF Opened, In
<1>8. Opened(x, b)
  BY DEF Opened, In
<1>9. PICK u \in Nat : u = Cardinality(Uses(b, x))
  BY UsesFacts
<1>10. /\ s2[x].ctx = ss[x].ctx /\ d >= u /\ (ss[x].ctx \notin L => d = u)
       /\ Cardinality(Uses(r, x)) = u - 1
  BY <1>4, <1>5, <1>7, <1>8, <1>9 DEF CountedAs
<1>11. ss[x].ctx \notin L => Opened(x, r)
  BY <1>3, <1>10, UsesFacts
<1>12. ASSUME NEW p \in 1 .. Len(s)
       PROVE  s2[s[p]].depth > 0 /\ (Opened(s[p], r) \/ s2[s[p]].ctx \in L)
  <2>1. CASE s[p] = x
    BY <1>10, <1>11, <2>1
  <2>2. CASE s[p] # x
    BY <1>1, <1>4, <2>2
  <2> QED BY <2>1, <2>2
<1>13. \A y : Opened(y, s) => NoopOf(y, s2, cs) = NoopOf(y, ss, cs)
  BY <1>7 DEF NoopOf
<1>14. \A p \in 1 .. Len(s) : Opened(s[p], s)
  BY DEF Opened, In
<1>15. Dark(s, s2, cs)
  BY <1>1, <1>13, <1>14 DEF Dark
<1>16. Dark(r, s2, cs)
  BY <1>3, <1>4, <1>5, <1>6, <1>13 DEF Dark
<1>17. ASSUME NEW j \in 1 .. Len(r) PROVE CountedAs(r[j], r, s2, L)
  <2>1. CASE r[j] = x
    BY <1>10, <2>1 DEF CountedAs
  <2>2. CASE r[j] # x
    <3>1. /\ CountedAs(r[j], b, ss, L) /\ Cardinality(Uses(r, r[j])) = Cardinality(Uses(b, r[j]))
          /\ s2[r[j]].ctx = ss[r[j]].ctx /\ s2[r[j]].depth = ss[r[j]].depth
      BY <1>4, <1>5, <1>6, <1>7, <2>2
    <3> QED BY <3>1 DEF CountedAs
  <2> QED BY <2>1, <2>2
<1>18. \A j \in 1 .. Len(r) : Opened(r[j], s)
  BY <1>4, <1>5, <1>6
<1> QED BY <1>1, <1>2, <1>12, <1>15, <1>16, <1>17, <1>18 DEF HeldAt

(* A span leaves its stack, and nothing else does.                         *)
LEMMA SpanTaken ==
  ASSUME NEW s \in Seq(Nat), Once(s, Len(s)), NEW x, Opened(x, s)
  PROVE  /\ RemoveFirst(s, x) \in Seq(Nat) /\ Once(RemoveFirst(s, x), Len(RemoveFirst(s, x)))
         /\ \A y : Opened(y, RemoveFirst(s, x)) <=> Opened(y, s) /\ y # x
<1>1. PICK p \in 1 .. Len(s) : s[p] = x
  BY DEF Opened, In
<1>2. PICK q : q = RemoveFirst(s, x)
  OBVIOUS
<1>3. q = RemoveAt(s, p)
  BY <1>1, <1>2, RemovedFirst
<1>4. q \in Seq(Nat) /\ Once(q, Len(q)) /\ ~Opened(x, q)
  BY <1>1, <1>3, RemovedAt, OnceLeft
<1>5. \A y : Opened(y, q) <=> Opened(y, s) /\ y # x
  BY <1>1, <1>3, <1>4, UsesLeft
<1> QED BY <1>2, <1>4, <1>5

(* The only with block of a span ends, wherever the span is on the stack.  *)
LEMMA HeldTaken ==
  ASSUME NEW b \in Seq(Nat), NEW s \in Seq(Nat), NEW ss, NEW s2, NEW cs, NEW L,
         HeldAt(b, s, ss, cs, L), NEW i \in 1 .. Len(b), NEW x, x = b[i], ss[x].depth = 1,
         DepthsButOf(x, s, ss, s2)
  PROVE  HeldAt(RemoveAt(b, i), RemoveFirst(s, x), s2, cs, L)
<1> USE DEF DepthsButOf
<1>1. /\ Once(s, Len(s)) /\ \A j \in 1 .. Len(b) : Opened(b[j], s)
      /\ \A p \in 1 .. Len(s) : /\ ss[s[p]].depth > 0
                                /\ Opened(s[p], b) \/ ss[s[p]].ctx \in L
      /\ Dark(s, ss, cs) /\ Dark(b, ss, cs)
      /\ \A j \in 1 .. Len(b) : CountedAs(b[j], b, ss, L)
  BY DEF HeldAt
<1>2. PICK r : r = RemoveAt(b, i)
  OBVIOUS
<1>3. r \in Seq(Nat) /\ Dark(r, ss, cs)
  BY <1>1, <1>2, RemovedAt, DarkLeft
<1>4. \A y : /\ y # x => Cardinality(Uses(r, y)) = Cardinality(Uses(b, y))
             /\ y = x => Cardinality(Uses(r, y)) = Cardinality(Uses(b, y)) - 1
             /\ Opened(y, r) => Opened(y, b)
             /\ Opened(y, b) => y = x \/ Opened(y, r)
  BY <1>2, UsesLeft
<1>5. \A y : Opened(y, b) => Opened(y, s) /\ CountedAs(y, b, ss, L)
  BY <1>1 DEF Opened, In
<1>6. PICK p \in 1 .. Len(s) : s[p] = x
  BY <1>1 DEF Opened, In
<1>7. PICK q : q = RemoveFirst(s, x)
  OBVIOUS
<1>8. q = RemoveAt(s, p)
  BY <1>1, <1>6, <1>7, RemovedFirst
<1>9. Opened(x, s) /\ Dark(q, ss, cs)
  BY <1>1, <1>6, <1>8, DarkLeft
<1>10. /\ Once(q, Len(q)) /\ \A y : Opened(y, q) <=> Opened(y, s) /\ y # x
  BY <1>1, <1>7, <1>9, SpanTaken
<1>11. ~Opened(x, r)
  <2>1. Opened(x, b)
    BY DEF Opened, In
  <2>2. PICK u \in Nat : u = Cardinality(Uses(b, x))
    BY UsesFacts
  <2>3. u # 0 /\ 1 >= u
    BY <1>5, <2>1, <2>2, UsesFacts DEF CountedAs
  <2>4. Cardinality(Uses(r, x)) = 0
    BY <1>4, <2>2, <2>3
  <2> QED BY <1>3, <2>4, UsesFacts
<1>12. /\ \A j \in 1 .. Len(r) : Opened(r[j], r) /\ r[j] # x
       /\ \A j \in 1 .. Len(q) : Opened(q[j], q) /\ q[j] # x
  BY <1>10, <1>11 DEF Opened, In
<1>13. \A y : Opened(y, s) /\ y # x => s2[y].ctx = ss[y].ctx /\ s2[y].depth = ss[y].depth
  BY DEF Opened, In
<1>14. ASSUME NEW j \in 1 .. Len(q)
       PROVE  s2[q[j]].depth > 0 /\ (Opened(q[j], r) \/ s2[q[j]].ctx \in L)
  <2>1. Opened(q[j], s) /\ q[j] # x
    BY <1>10, <1>12
  <2>2. ss[q[j]].depth > 0 /\ (Opened(q[j], b) \/ ss[q[j]].ctx \in L)
    <3>1. PICK k \in 1 .. Len(s) : s[k] = q[j]
      BY <2>1 DEF Opened, In
    <3> QED BY <1>1, <3>1
  <2> QED BY <1>4, <1>13, <2>1, <2>2
<1>15. \A y : Opened(y, s) /\ y # x => NoopOf(y, s2, cs) = NoopOf(y, ss, cs)
  BY <1>13 DEF NoopOf
<1>16. Dark(q, s2, cs)
  BY <1>9, <1>10, <1>12, <1>15 DEF Dark
<1>17. \A j \in 1 .. Len(r) : Opened(r[j], s) /\ r[j] # x
  BY <1>4, <1>5, <1>12
<1>18. Dark(r, s2, cs)
  BY <1>3, <1>15, <1>17 DEF Dark
<1>19. ASSUME NEW j \in 1 .. Len(r) PROVE CountedAs(r[j], r, s2, L)
  <2>1. /\ CountedAs(r[j], b, ss, L) /\ Cardinality(Uses(r, r[j])) = Cardinality(Uses(b, r[j]))
        /\ s2[r[j]].ctx = ss[r[j]].ctx /\ s2[r[j]].depth = ss[r[j]].depth
    BY <1>4, <1>5, <1>12, <1>13
  <2> QED BY <2>1 DEF CountedAs
<1>20. \A j \in 1 .. Len(r) : Opened(r[j], q)
  BY <1>10, <1>17
<1>21. HeldAt(r, q, s2, cs, L)
  BY <1>10, <1>14, <1>16, <1>18, <1>19, <1>20 DEF HeldAt
<1> QED BY <1>2, <1>7, <1>21

(* A request never gets its response.                                      *)
LEMMA HeldLost ==
  ASSUME NEW b \in Seq(Nat), NEW s \in Seq(Nat), NEW ss, NEW cs, NEW L,
         HeldAt(b, s, ss, cs, L), NEW i \in 1 .. Len(b),
         \A j \in 1 .. Len(b) : ss[b[j]].depth \in Nat
  PROVE  HeldAt(RemoveAt(b, i), s, ss, cs, L \cup {ss[b[i]].ctx})
<1>1. /\ Once(s, Len(s)) /\ \A j \in 1 .. Len(b) : Opened(b[j], s)
      /\ \A p \in 1 .. Len(s) : /\ ss[s[p]].depth > 0
                                /\ Opened(s[p], b) \/ ss[s[p]].ctx \in L
      /\ Dark(s, ss, cs) /\ Dark(b, ss, cs)
      /\ \A j \in 1 .. Len(b) : CountedAs(b[j], b, ss, L)
  BY DEF HeldAt
<1>2. PICK r, x, L2 : r = RemoveAt(b, i) /\ x = b[i] /\ L2 = L \cup {ss[x].ctx}
  OBVIOUS
<1>3. r \in Seq(Nat) /\ Dark(r, ss, cs)
  BY <1>1, <1>2, RemovedAt, DarkLeft
<1>4. \A y : /\ y # x => Cardinality(Uses(r, y)) = Cardinality(Uses(b, y))
             /\ y = x => Cardinality(Uses(r, y)) = Cardinality(Uses(b, y)) - 1
             /\ Opened(y, r) => Opened(y, b)
             /\ Opened(y, b) => y = x \/ Opened(y, r)
  BY <1>2, UsesLeft
<1>5. \A y : Opened(y, b) => Opened(y, s) /\ CountedAs(y, b, ss, L) /\ ss[y].depth \in Nat
  BY <1>1 DEF Opened, In
<1>6. \A j \in 1 .. Len(r) : Opened(r[j], r)
  BY DEF Opened, In
<1>7. \A p \in 1 .. Len(s) : ss[s[p]].depth > 0 /\ (Opened(s[p], r) \/ ss[s[p]].ctx \in L2)
  BY <1>1, <1>2, <1>4
<1>8. ASSUME NEW j \in 1 .. Len(r) PROVE CountedAs(r[j], r, ss, L2)
  <2>1. Opened(r[j], b) /\ CountedAs(r[j], b, ss, L)
    BY <1>4, <1>5, <1>6
  <2>2. CASE r[j] = x
    <3>1. PICK u \in Nat : u = Cardinality(Uses(b, x))
      BY UsesFacts
    <3>2. ss[x].depth >= u /\ Cardinality(Uses(r, x)) = u - 1 /\ ss[x].depth \in Nat
      BY <1>4, <1>5, <2>1, <2>2, <3>1 DEF CountedAs
    <3>3. ss[x].depth >= u - 1
      BY <3>1, <3>2
    <3> QED BY <1>2, <2>2, <3>2, <3>3 DEF CountedAs
  <2>3. CASE r[j] # x
    BY <1>2, <1>4, <2>1, <2>3 DEF CountedAs
  <2> QED BY <2>2, <2>3
<1>9. \A j \in 1 .. Len(r) : Opened(r[j], s)
  BY <1>4, <1>5, <1>6
<1> QED BY <1>1, <1>2, <1>3, <1>7, <1>8, <1>9 DEF HeldAt

-----------------------------------------------------------------------------
(* The steps of PluginSpans.                                               *)

(* A new span, which is a NoopSpan when one is on the stack.               *)
LEMMA HeldOpens ==
  ASSUME BaseInv, Held(blocks, stack, spans, ctxs, lost), NEW t \in Task,
         OpensIn(t, TRUE) \/ (OpensIn(t, FALSE) /\ Traced(t))
  PROVE  BaseInv' /\ Held(blocks', stack', spans', ctxs', lost)
<1>0. spans \in Seq(SpanType)
  BY DEF BaseInv, ObjectsOK
<1>1. PICK n \in Nat : n = Len(spans)
  BY <1>0
<1>2. PICK ss, s2, cs, c2 : ss = spans /\ s2 = spans' /\ cs = ctxs /\ c2 = ctxs'
  OBVIOUS
<1>3. PICK st, sn, bl, bn : st = stack /\ sn = stack' /\ bl = blocks /\ bn = blocks'
  OBVIOUS
<1>4. /\ ObjectsOK(ss, cs) /\ Len(ss) = n
      /\ st \in [Task -> Seq(Nat)] /\ bl \in [Task -> Seq(Nat)]
      /\ \A u \in Task : Within(bl[u], Len(bl[u]), n) /\ Within(st[u], Len(st[u]), n)
  BY <1>1, <1>2, <1>3 DEF BaseInv
<1>5. /\ Len(s2) = n + 1 /\ (\A s \in 1 .. n : s2[s] = ss[s]) /\ s2[n + 1].depth = 1
      /\ ObjectsOK(s2, c2) /\ Grows(cs, c2) /\ CtxInv'
  BY <1>1, <1>2 DEF OpensIn, Opens
<1>6. sn = [st EXCEPT ![t] = Append(@, n + 1)] /\ bn = [bl EXCEPT ![t] = Append(@, n + 1)]
  BY <1>1, <1>3 DEF OpensIn, Opens, Pushes
<1>7. Append(st[t], n + 1) \in Seq(Nat) /\ Append(bl[t], n + 1) \in Seq(Nat)
  BY <1>4, AppendProperties
<1>8. sn \in [Task -> Seq(Nat)] /\ bn \in [Task -> Seq(Nat)]
  BY <1>4, <1>6, <1>7
<1>9. /\ sn[t] = Append(st[t], n + 1) /\ bn[t] = Append(bl[t], n + 1)
      /\ \A u \in Task : u # t => sn[u] = st[u] /\ bn[u] = bl[u]
  BY <1>4, <1>6
<1>10. ASSUME NEW q \in Seq(Nat), Within(q, Len(q), n)
       PROVE  Within(q, Len(q), n + 1) /\ Within(Append(q, n + 1), Len(Append(q, n + 1)), n + 1)
  <2>0. PICK y \in Nat : y = n + 1
    OBVIOUS
  <2>m. PICK m \in Nat : m = Len(q)
    OBVIOUS
  <2>1. PICK r : r = Append(q, y)
    OBVIOUS
  <2>2. r \in Seq(Nat) /\ Len(r) = m + 1 /\ r[m + 1] = y /\ \A i \in 1 .. m : r[i] = q[i]
    BY <2>m, <2>1, AppendProperties
  <2>3. \A i \in 1 .. m + 1 : i = m + 1 \/ i \in 1 .. m
    OBVIOUS
  <2>4. \A i \in 1 .. m : q[i] \in 1 .. n + 1
    BY <1>10, <2>m DEF Within
  <2> QED BY <2>0, <2>m, <2>1, <2>2, <2>3, <2>4 DEF Within
<1>11. \A u \in Task : Within(bn[u], Len(bn[u]), n + 1) /\ Within(sn[u], Len(sn[u]), n + 1)
  BY <1>4, <1>9, <1>10
<1>12. BaseInv'
  BY <1>2, <1>3, <1>5, <1>8, <1>11 DEF BaseInv
<1>13. /\ \A u \in Task : HeldAt(bl[u], st[u], ss, cs, lost)
       /\ \A x \in 1 .. n : ss[x].depth > 0 => \E u \in Task : Opened(x, st[u])
       /\ \A u, v \in Task : \A x \in 1 .. n : Opened(x, st[u]) /\ Opened(x, st[v]) => u = v
  BY <1>2, <1>3, <1>4 DEF Held
<1>14. \A x \in 1 .. n : SameSpan(x, ss, s2, cs, c2)
  BY <1>4, <1>5 DEF SameSpan, Grows, ObjectsOK
<1>15. ASSUME NEW u \in Task PROVE HeldAt(bl[u], st[u], s2, c2, lost)
  <2>1. \A p \in 1 .. Len(st[u]) : SameSpan(st[u][p], ss, s2, cs, c2)
    BY <1>4, <1>14 DEF Within
  <2>2. HeldAt(bl[u], st[u], ss, cs, lost) /\ lost \subseteq lost
    BY <1>13
  <2> QED BY <2>1, <2>2, HeldKept
<1>16. \A u \in Task : ~Opened(n + 1, st[u])
  BY <1>4 DEF Within, Opened, In
<1>17. \A p \in 1 .. Len(st[t]) : NoopOf(st[t][p], s2, c2) => NoopOf(n + 1, s2, c2)
  <2>1. CASE OpensIn(t, TRUE)
    BY <1>1, <1>2, <2>1 DEF OpensIn, NoopOf
  <2>2. CASE Traced(t)
    <3> SUFFICES ASSUME NEW p \in 1 .. Len(st[t]) PROVE ~NoopOf(st[t][p], s2, c2)
      OBVIOUS
    <3>1. PICK q \in Seq(Nat) : q = st[t]
      BY <1>4
    <3>2. PICK m \in Nat : m = Len(q) /\ m \in 1 .. m /\ p \in 1 .. m
      BY <3>1
    <3>3. Peek(t) = q[m] /\ Peek(t) # NoSpan
      BY <1>3, <3>1, <3>2, PeekFacts
    <3>4. ~NoopOf(q[m], ss, cs)
      BY <1>2, <2>2, <3>3 DEF Traced, NoopOf
    <3>5. q[m] \in 1 .. n
      BY <1>4, <3>1, <3>2 DEF Within
    <3>6. ~NoopOf(q[m], s2, c2)
      BY <1>14, <3>4, <3>5 DEF SameSpan, NoopOf
    <3>7. Dark(q, s2, c2)
      BY <1>15, <3>1 DEF HeldAt
    <3>8. p = m \/ p < m
      BY <3>2
    <3> QED BY <3>1, <3>2, <3>6, <3>7, <3>8 DEF Dark
  <2> QED BY <2>1, <2>2
<1>18. HeldAt(bn[t], sn[t], s2, c2, lost)
  <2>1. bl[t] \in Seq(Nat) /\ st[t] \in Seq(Nat) /\ HeldAt(bl[t], st[t], s2, c2, lost)
    BY <1>4, <1>15
  <2>2. PICK b, s, x : b = bl[t] /\ s = st[t] /\ x = n + 1
    OBVIOUS
  <2>3. /\ b \in Seq(Nat) /\ s \in Seq(Nat) /\ x \in Nat /\ HeldAt(b, s, s2, c2, lost)
        /\ ~Opened(x, s) /\ s2[x].depth = 1
        /\ \A p \in 1 .. Len(s) : NoopOf(s[p], s2, c2) => NoopOf(x, s2, c2)
    BY <1>5, <1>16, <1>17, <2>1, <2>2
  <2>4. HeldAt(Append(b, x), Append(s, x), s2, c2, lost)
    BY <2>3, HeldPushed
  <2> QED BY <1>9, <2>2, <2>4
<1>19. \A u \in Task : HeldAt(bn[u], sn[u], s2, c2, lost)
  BY <1>9, <1>15, <1>18
<1>20. \A y : Opened(y, sn[t]) <=> Opened(y, st[t]) \/ y = n + 1
  BY <1>4, <1>9, UsesAppended
<1>21. ASSUME NEW x \in 1 .. n + 1, s2[x].depth > 0 PROVE \E u \in Task : Opened(x, sn[u])
  <2>1. CASE x = n + 1
    BY <1>20, <2>1
  <2>2. CASE x # n + 1
    <3>1. PICK u \in Task : Opened(x, st[u])
      BY <1>5, <1>13, <1>21, <2>2
    <3> QED BY <1>9, <1>20, <3>1
  <2> QED BY <2>1, <2>2
<1>22. ASSUME NEW u \in Task, NEW v \in Task, NEW x \in 1 .. n + 1,
              Opened(x, sn[u]), Opened(x, sn[v])
       PROVE  u = v
  <2>1. CASE x = n + 1
    BY <1>9, <1>16, <1>22, <2>1
  <2>2. CASE x # n + 1
    <3>1. x \in 1 .. n
      BY <2>2
    <3>2. \A y \in Task : Opened(x, sn[y]) => Opened(x, st[y])
      BY <1>9, <1>20, <2>2
    <3>3. Opened(x, st[u]) /\ Opened(x, st[v])
      BY <1>22, <3>2
    <3> QED BY <1>13, <3>1, <3>3
  <2> QED BY <2>1, <2>2
<1>23. Held(bn, sn, s2, c2, lost)
  BY <1>5, <1>19, <1>21, <1>22 DEF Held
<1> QED BY <1>2, <1>3, <1>12, <1>23

(* The span of the innermost plugin is entered once more.                  *)
LEMMA HeldReenters ==
  ASSUME BaseInv, Held(blocks, stack, spans, ctxs, lost), NEW t \in Task,
         Peek(t) # NoSpan, Reenters(t, Peek(t))
  PROVE  BaseInv' /\ Held(blocks', stack', spans', ctxs', lost)
<1>0. spans \in Seq(SpanType)
  BY DEF BaseInv, ObjectsOK
<1>1. PICK n \in Nat : n = Len(spans)
  BY <1>0
<1>2. PICK ss, s2, cs : ss = spans /\ s2 = spans' /\ cs = ctxs
  OBVIOUS
<1>3. PICK st, bl, bn : st = stack /\ bl = blocks /\ bn = blocks'
  OBVIOUS
<1>4. /\ ObjectsOK(ss, cs) /\ Len(ss) = n /\ ss \in Seq(SpanType)
      /\ st \in [Task -> Seq(Nat)] /\ bl \in [Task -> Seq(Nat)]
      /\ \A u \in Task : Within(bl[u], Len(bl[u]), n) /\ Within(st[u], Len(st[u]), n)
  BY <1>0, <1>1, <1>2, <1>3 DEF BaseInv
<1>5. PICK s \in Seq(Nat) : s = st[t]
  BY <1>4
<1>6. PICK b \in Seq(Nat) : b = bl[t]
  BY <1>4
<1>7. PICK x \in 1 .. n : x = Peek(t) /\ Len(s) # 0 /\ x = s[Len(s)]
  BY <1>1, <1>3, <1>5, PeekFacts
<1>8. /\ Touches(x, ss[x].depth + 1, ss, s2) /\ bn = [bl EXCEPT ![t] = Append(b, x)]
      /\ ctxs' = cs /\ stack' = st /\ ObjectsOK(s2, cs) /\ CtxInv'
  BY <1>2, <1>3, <1>6, <1>7 DEF Reenters
<1>9. PICK d \in Nat : d = ss[x].depth
  <2>1. ss[x] \in SpanType
    BY <1>4
  <2> QED BY <2>1 DEF SpanType
<1>10. /\ Len(s2) = n /\ s2[x].depth = d + 1 /\ \A y \in 1 .. n : s2[y].ctx = ss[y].ctx
       /\ \A y \in 1 .. n : y # x => s2[y] = ss[y]
  BY <1>4, <1>8, <1>9 DEF Touches
<1>11. /\ bn[t] = Append(b, x) /\ \A u \in Task : u # t => bn[u] = bl[u]
  BY <1>4, <1>8
<1>12. Append(b, x) \in Seq(Nat) /\ Within(Append(b, x), Len(Append(b, x)), n)
  <2>1. PICK m \in Nat : m = Len(b)
    OBVIOUS
  <2>2. PICK r : r = Append(b, x)
    OBVIOUS
  <2>3. x \in Nat
    OBVIOUS
  <2>4. r \in Seq(Nat) /\ Len(r) = m + 1 /\ r[m + 1] = x /\ \A i \in 1 .. m : r[i] = b[i]
    BY <2>1, <2>2, <2>3, AppendProperties
  <2>5. \A i \in 1 .. m + 1 : i = m + 1 \/ i \in 1 .. m
    OBVIOUS
  <2>6. \A i \in 1 .. m : b[i] \in 1 .. n
    BY <1>4, <1>6, <2>1 DEF Within
  <2> QED BY <2>2, <2>4, <2>5, <2>6 DEF Within
<1>13. bn \in [Task -> Seq(Nat)]
  BY <1>4, <1>8, <1>12
<1>14. \A u \in Task : Within(bn[u], Len(bn[u]), n)
  BY <1>4, <1>11, <1>12
<1>15. BaseInv'
  BY <1>2, <1>3, <1>4, <1>8, <1>10, <1>13, <1>14 DEF BaseInv
<1>16. /\ \A u \in Task : HeldAt(bl[u], st[u], ss, cs, lost)
       /\ \A y \in 1 .. n : ss[y].depth > 0 => \E u \in Task : Opened(y, st[u])
       /\ \A u, v \in Task : \A y \in 1 .. n : Opened(y, st[u]) /\ Opened(y, st[v]) => u = v
  BY <1>2, <1>3, <1>4 DEF Held
<1>17. Opened(x, st[t])
  <2>1. Len(s) \in 1 .. Len(s)
    BY <1>7
  <2> QED BY <1>5, <1>7, <2>1 DEF Opened, In
<1>18. HeldAt(bn[t], st[t], s2, cs, lost)
  <2>1. x \in Nat /\ HeldAt(b, s, ss, cs, lost) /\ ss[x].depth \in Nat
    BY <1>5, <1>6, <1>9, <1>16
  <2>2. \A p \in 1 .. Len(s) : s[p] \in 1 .. n
    BY <1>4, <1>5 DEF Within
  <2>3. DepthsButOf(x, s, ss, s2)
    BY <1>10, <2>2 DEF DepthsButOf
  <2>4. s2[x].depth = ss[x].depth + 1
    BY <1>9, <1>10
  <2>5. HeldAt(Append(b, x), s, s2, cs, lost)
    BY <1>7, <2>1, <2>3, <2>4, HeldReentered
  <2> QED BY <1>5, <1>11, <2>5
<1>19. ASSUME NEW u \in Task, u # t PROVE HeldAt(bn[u], st[u], s2, cs, lost)
  <2>1. ~Opened(x, st[u])
    BY <1>16, <1>17, <1>19
  <2>2. \A p \in 1 .. Len(st[u]) : st[u][p] \in 1 .. n /\ st[u][p] # x
    BY <1>4, <2>1 DEF Within, Opened, In
  <2>3. \A p \in 1 .. Len(st[u]) : SameSpan(st[u][p], ss, s2, cs, cs)
    BY <1>10, <2>2 DEF SameSpan
  <2>4. HeldAt(bl[u], st[u], ss, cs, lost) /\ lost \subseteq lost
    BY <1>16
  <2> QED BY <1>11, <1>19, <2>3, <2>4, HeldKept
<1>20. ASSUME NEW y \in 1 .. n, s2[y].depth > 0 PROVE \E u \in Task : Opened(y, st[u])
  <2>1. CASE y = x
    BY <1>17, <2>1
  <2>2. CASE y # x
    BY <1>10, <1>16, <1>20, <2>2
  <2> QED BY <2>1, <2>2
<1>21. Held(bn, st, s2, cs, lost)
  BY <1>10, <1>16, <1>18, <1>19, <1>20 DEF Held
<1> QED BY <1>2, <1>3, <1>8, <1>15, <1>21

(* The i-th with block of a thread ends; the span, if it was its last one, *)
(* leaves the stack wherever it is there.                                  *)
LEMMA HeldLeaves ==
  ASSUME BaseInv, Held(blocks, stack, spans, ctxs, lost), NEW t \in Task,
         NEW i \in 1 .. Len(blocks[t]), CloseBlock(t, i)
  PROVE  BaseInv' /\ Held(blocks', stack', spans', ctxs', lost)
<1>0. spans \in Seq(SpanType)
  BY DEF BaseInv, ObjectsOK
<1>1. PICK n \in Nat : n = Len(spans)
  BY <1>0
<1>2. PICK ss, s2, cs, c2 : ss = spans /\ s2 = spans' /\ cs = ctxs /\ c2 = ctxs'
  OBVIOUS
<1>3. PICK st, sn, bl, bn : st = stack /\ sn = stack' /\ bl = blocks /\ bn = blocks'
  OBVIOUS
<1>4. /\ ObjectsOK(ss, cs) /\ Len(ss) = n /\ ss \in Seq(SpanType)
      /\ st \in [Task -> Seq(Nat)] /\ bl \in [Task -> Seq(Nat)]
      /\ \A u \in Task : Within(bl[u], Len(bl[u]), n) /\ Within(st[u], Len(st[u]), n)
  BY <1>0, <1>1, <1>2, <1>3 DEF BaseInv
<1>5. PICK s \in Seq(Nat) : s = st[t]
  BY <1>4
<1>6. PICK b \in Seq(Nat) : b = bl[t] /\ i \in 1 .. Len(b)
  BY <1>3, <1>4
<1>7. PICK x \in 1 .. n : x = b[i]
  BY <1>4, <1>6 DEF Within
<1>8. /\ \A u \in Task : HeldAt(bl[u], st[u], ss, cs, lost)
      /\ \A y \in 1 .. n : ss[y].depth > 0 => \E u \in Task : Opened(y, st[u])
      /\ \A u, v \in Task : \A y \in 1 .. n : Opened(y, st[u]) /\ Opened(y, st[v]) => u = v
  BY <1>2, <1>3, <1>4 DEF Held
<1>9. Opened(x, s) /\ ss[x].depth > 0
  <2>1. HeldAt(b, s, ss, cs, lost)
    BY <1>5, <1>6, <1>8
  <2>2. Opened(x, s)
    BY <1>6, <1>7, <2>1 DEF HeldAt
  <2>3. \A p \in 1 .. Len(s) : ss[s[p]].depth > 0
    BY <2>1 DEF HeldAt
  <2> QED BY <2>2, <2>3 DEF Opened, In
<1>10. PICK d \in Nat : d = ss[x].depth /\ d # 0
  <2>1. ss[x] \in SpanType
    BY <1>4
  <2> QED BY <1>9, <2>1 DEF SpanType
<1>11. Leaves(t, i, x, d)
  <2>1. x \in 1 .. Len(spans) /\ x = blocks[t][i] /\ spans[x].depth = d
    BY <1>1, <1>2, <1>3, <1>6, <1>7, <1>10
  <2> QED BY <1>10, <2>1, BlockLeft
<1>12. /\ Touches(x, d - 1, ss, s2) /\ bn = [bl EXCEPT ![t] = RemoveAt(b, i)]
       /\ sn = IF d = 1 THEN [st EXCEPT ![t] = RemoveFirst(s, x)] ELSE st
       /\ ObjectsOK(s2, c2) /\ CtxInv' /\ Grows(cs, c2)
  BY <1>2, <1>3, <1>5, <1>6, <1>11 DEF Leaves
<1>13. /\ Len(s2) = n /\ s2[x].depth = d - 1 /\ \A y \in 1 .. n : s2[y].ctx = ss[y].ctx
       /\ \A y \in 1 .. n : y # x => s2[y] = ss[y]
  BY <1>4, <1>12 DEF Touches
<1>14. \A y \in 1 .. n : c2[ss[y].ctx].noop = cs[ss[y].ctx].noop
  BY <1>4, <1>12 DEF Grows, ObjectsOK
<1>15. bn[t] = RemoveAt(b, i) /\ \A u \in Task : u # t => bn[u] = bl[u]
  BY <1>4, <1>12
<1>16. /\ d = 1 => sn[t] = RemoveFirst(s, x) /\ \A u \in Task : u # t => sn[u] = st[u]
       /\ d # 1 => sn = st
  BY <1>4, <1>12
<1>17. \A p \in 1 .. Len(s) : s[p] \in 1 .. n
  BY <1>4, <1>5 DEF Within
<1>18. HeldAt(b, s, ss, cs, lost) /\ DepthsButOf(x, s, ss, s2)
  BY <1>5, <1>6, <1>8, <1>13, <1>17 DEF DepthsButOf
<1>19. /\ HeldAt(bn[t], sn[t], s2, cs, lost) /\ sn[t] \in Seq(Nat)
       /\ \A y : Opened(y, sn[t]) <=> Opened(y, s) /\ (y # x \/ d # 1)
  <2>1. CASE d = 1
    <3>1. ss[x].depth = 1
      BY <1>10, <2>1
    <3>2. /\ HeldAt(RemoveAt(b, i), RemoveFirst(s, x), s2, cs, lost)
          /\ RemoveFirst(s, x) \in Seq(Nat)
          /\ \A y : Opened(y, RemoveFirst(s, x)) <=> Opened(y, s) /\ y # x
      <4>1. /\ i \in 1 .. Len(b) /\ x = b[i] /\ HeldAt(b, s, ss, cs, lost)
            /\ DepthsButOf(x, s, ss, s2)
        BY <1>6, <1>7, <1>18
      <4>2. Once(s, Len(s))
        BY <4>1 DEF HeldAt
      <4>3. HeldAt(RemoveAt(b, i), RemoveFirst(s, x), s2, cs, lost)
        BY <3>1, <4>1, HeldTaken
      <4> QED BY <1>9, <4>2, <4>3, SpanTaken
    <3> QED BY <1>15, <1>16, <2>1, <3>2
  <2>2. CASE d # 1
    <3>1. d # 0 /\ ss[x].depth = d /\ s2[x].depth = d - 1
      BY <1>10, <1>13
    <3>2. d > 1
      BY <2>2, <3>1
    <3>3. HeldAt(RemoveAt(b, i), s, s2, cs, lost)
      BY <1>6, <1>7, <1>18, <3>1, <3>2, HeldLeft
    <3> QED BY <1>5, <1>15, <1>16, <2>2, <3>3
  <2> QED BY <2>1, <2>2
<1>20. ASSUME NEW u \in Task, u # t
       PROVE  HeldAt(bn[u], sn[u], s2, cs, lost) /\ sn[u] = st[u]
  <2>1. ~Opened(x, st[u])
    BY <1>5, <1>8, <1>9, <1>20
  <2>2. \A p \in 1 .. Len(st[u]) : st[u][p] \in 1 .. n /\ st[u][p] # x
    BY <1>4, <2>1 DEF Within, Opened, In
  <2>3. \A p \in 1 .. Len(st[u]) : SameSpan(st[u][p], ss, s2, cs, cs)
    BY <1>13, <2>2 DEF SameSpan
  <2>4. HeldAt(bl[u], st[u], ss, cs, lost) /\ lost \subseteq lost
    BY <1>8
  <2>5. HeldAt(bl[u], st[u], s2, cs, lost)
    BY <2>3, <2>4, HeldKept
  <2> QED BY <1>15, <1>16, <1>20, <2>5
<1>21. \A u \in Task : \A y : Opened(y, sn[u]) => Opened(y, st[u])
  BY <1>5, <1>19, <1>20
<1>22. \A u \in Task : Within(sn[u], Len(sn[u]), n)
  <2>1. \A u \in Task : \A y : Opened(y, st[u]) => y \in 1 .. n
    BY <1>4 DEF Opened, In, Within
  <2> QED BY <1>21, <2>1 DEF Opened, In, Within
<1>23. RemoveAt(b, i) \in Seq(Nat) /\ Within(RemoveAt(b, i), Len(RemoveAt(b, i)), n)
  <2>1. RemoveAt(b, i) \in Seq(Nat)
    BY <1>6, RemovedAt
  <2>2. \A y : Opened(y, RemoveAt(b, i)) => Opened(y, b)
    BY <1>6, UsesLeft
  <2>3. \A y : Opened(y, b) => y \in 1 .. n
    BY <1>4, <1>6 DEF Opened, In, Within
  <2> QED BY <2>1, <2>2, <2>3 DEF Opened, In, Within
<1>24. bn \in [Task -> Seq(Nat)] /\ sn \in [Task -> Seq(Nat)]
  <2>1. bn \in [Task -> Seq(Nat)]
    BY <1>4, <1>12, <1>23
  <2>2. CASE d = 1
    BY <1>4, <1>12, <1>16, <1>19, <2>1, <2>2
  <2>3. CASE d # 1
    BY <1>4, <1>16, <2>1, <2>3
  <2> QED BY <2>2, <2>3
<1>25. \A u \in Task : Within(bn[u], Len(bn[u]), n)
  BY <1>4, <1>15, <1>23
<1>26. BaseInv'
  BY <1>2, <1>3, <1>12, <1>13, <1>22, <1>24, <1>25 DEF BaseInv
<1>27. ASSUME NEW u \in Task PROVE HeldAt(bn[u], sn[u], s2, c2, lost)
  <2>1. \A p \in 1 .. Len(sn[u]) : sn[u][p] \in 1 .. n
    BY <1>22 DEF Within
  <2>2. \A p \in 1 .. Len(sn[u]) : SameSpan(sn[u][p], s2, s2, cs, c2)
    BY <1>13, <1>14, <2>1 DEF SameSpan
  <2>3. HeldAt(bn[u], sn[u], s2, cs, lost) /\ lost \subseteq lost
    BY <1>19, <1>20
  <2> QED BY <2>2, <2>3, HeldKept
<1>28. ASSUME NEW y \in 1 .. n, s2[y].depth > 0 PROVE \E u \in Task : Opened(y, sn[u])
  <2>1. CASE y = x
    <3>1. d # 1
      BY <1>13, <1>28, <2>1
    <3> QED BY <1>9, <1>19, <2>1, <3>1
  <2>2. CASE y # x
    <3>1. PICK u \in Task : Opened(y, st[u])
      BY <1>8, <1>13, <1>28, <2>2
    <3> QED BY <1>5, <1>19, <1>20, <2>2, <3>1
  <2> QED BY <2>1, <2>2
<1>29. Held(bn, sn, s2, c2, lost)
  BY <1>8, <1>13, <1>21, <1>27, <1>28 DEF Held
<1> QED BY <1>2, <1>3, <1>26, <1>29

(* A request whose response never comes: its with block is gone, its span  *)
(* stays open on the stack.                                                *)
LEMMA HeldLoses ==
  ASSUME BaseInv, Held(blocks, stack, spans, ctxs, lost), NEW t \in Task,
         NEW i \in 1 .. Len(blocks[t]), blocks' = [blocks EXCEPT ![t] = RemoveAt(@, i)],
         lost' = lost \cup {spans[blocks[t][i]].ctx},
         spans' = spans, ctxs' = ctxs, stack' = stack
  PROVE  BaseInv' /\ Held(blocks', stack', spans', ctxs', lost')
<1>0. spans \in Seq(SpanType)
  BY DEF BaseInv, ObjectsOK
<1>1. PICK n \in Nat : n = Len(spans)
  BY <1>0
<1>2. PICK bl, bn, L : bl = blocks /\ bn = blocks' /\ L = lost'
  OBVIOUS
<1>3. /\ Len(spans) = n /\ stack \in [Task -> Seq(Nat)] /\ bl \in [Task -> Seq(Nat)]
      /\ \A u \in Task : Within(bl[u], Len(bl[u]), n)
  BY <1>1, <1>2 DEF BaseInv
<1>4. PICK b \in Seq(Nat) : b = bl[t] /\ i \in 1 .. Len(b)
  BY <1>2, <1>3
<1>5. PICK r : r = RemoveAt(b, i)
  OBVIOUS
<1>6. r \in Seq(Nat) /\ Within(r, Len(r), n)
  <2>1. r \in Seq(Nat)
    BY <1>4, <1>5, RemovedAt
  <2>2. \A y : Opened(y, r) => Opened(y, b)
    BY <1>4, <1>5, UsesLeft
  <2>3. \A y : Opened(y, b) => y \in 1 .. n
    BY <1>3, <1>4 DEF Opened, In, Within
  <2> QED BY <2>1, <2>2, <2>3 DEF Opened, In, Within
<1>7. bn[t] = r /\ bn \in [Task -> Seq(Nat)] /\ \A u \in Task : u # t => bn[u] = bl[u]
  BY <1>2, <1>3, <1>4, <1>5, <1>6
<1>8. \A u \in Task : Within(bn[u], Len(bn[u]), n)
  BY <1>3, <1>6, <1>7
<1>9. CtxInv'
  BY DEF BaseInv, CtxInv, CtxNo
<1>10. BaseInv'
  BY <1>1, <1>2, <1>7, <1>8, <1>9 DEF BaseInv
<1>11. \A u \in Task : HeldAt(bl[u], stack[u], spans, ctxs, lost)
  BY <1>2 DEF Held
<1>12. HeldAt(bn[t], stack[t], spans, ctxs, L)
  <2>1. \A j \in 1 .. Len(b) : b[j] \in 1 .. n
    BY <1>3, <1>4 DEF Within
  <2>2. \A j \in 1 .. Len(b) : spans[b[j]].depth \in Nat
    <3> SUFFICES ASSUME NEW j \in 1 .. Len(b) PROVE spans[b[j]].depth \in Nat
      OBVIOUS
    <3>1. spans[b[j]] \in SpanType
      BY <1>0, <1>1, <2>1
    <3> QED BY <3>1 DEF SpanType
  <2>3. HeldAt(b, stack[t], spans, ctxs, lost) /\ stack[t] \in Seq(Nat)
    BY <1>3, <1>4, <1>11
  <2>4. HeldAt(RemoveAt(b, i), stack[t], spans, ctxs, lost \cup {spans[b[i]].ctx})
    BY <1>4, <2>2, <2>3, HeldLost
  <2> QED BY <1>2, <1>4, <1>5, <1>7, <2>4
<1>13. ASSUME NEW u \in Task, u # t PROVE HeldAt(bn[u], stack[u], spans, ctxs, L)
  <2>1. \A p \in 1 .. Len(stack[u]) : SameSpan(stack[u][p], spans, spans, ctxs, ctxs)
    BY DEF SameSpan
  <2>2. lost \subseteq L
    BY <1>2
  <2>3. HeldAt(bl[u], stack[u], spans, ctxs, lost)
    BY <1>11
  <2> QED BY <1>7, <1>13, <2>1, <2>2, <2>3, HeldKept
<1>14. Held(bn, stack, spans, ctxs, L)
  BY <1>12, <1>13 DEF Held
<1> QED BY <1>2, <1>10, <1>14

(* What a wrapper does to the stack when it begins.                        *)
Enters(t) ==
  \/ OpensIn(t, TRUE) \/ (OpensIn(t, FALSE) /\ Traced(t))
  \/ Peek(t) # NoSpan /\ Reenters(t, Peek(t))

LEMMA WrapperEnters ==
  ASSUME BaseInv, Held(blocks, stack, spans, ctxs, lost), NEW t \in Task, NEW w, NEW c,
         Begin(t, w, c)
  PROVE  Enters(t)
<1>1. OpenDark(t) => Enters(t)
  BY OpensDark DEF Enters
<1>2. OpenIgnored(t) => Enters(t)
  BY <1>1 DEF OpenIgnored
<1>3. OpenNoop(t) => Enters(t)
  BY OpensNoop DEF Enters
<1>4. ASSUME NEW k \in Kind, OpenNew(t, k) PROVE Enters(t)
  <2>1. OpensIn(t, FALSE)
    BY <1>4, OpensFirst, OpensBelow
  <2>2. Traced(t)
    BY <1>4 DEF OpenNew
  <2> QED BY <2>1, <2>2 DEF Enters
<1>5. ASSUME OpenInherited(t, "Entry") PROVE Enters(t)
  <2>1. Peek(t) # NoSpan /\ Enter(t, Peek(t), spans, ctxs)
    BY <1>5 DEF OpenInherited
  <2>2. Peek(t) \in 1 .. Len(spans) /\ Peek(t) = stack[t][Len(stack[t])] /\ Len(stack[t]) # 0
    BY <2>1, PeekFacts
  <2>3. stack[t] \in Seq(Nat) /\ HeldAt(blocks[t], stack[t], spans, ctxs, lost)
    BY DEF BaseInv, Held
  <2>4. Len(stack[t]) \in 1 .. Len(stack[t])
    BY <2>2, <2>3
  <2>5. spans[Peek(t)].depth # 0
    BY <2>2, <2>3, <2>4 DEF HeldAt
  <2>6. Reenters(t, Peek(t))
    BY <2>1, <2>2, <2>5, SpanReentered
  <2> QED BY <2>1, <2>6 DEF Enters
<1>6. "Entry" \in Kind /\ "Exit" \in Kind /\ "Local" \in Kind
  BY DEF Kind
<1>7. IgnoredMethod(t) => Enters(t)
  BY <1>1 DEF IgnoredMethod
<1>8. OpenEntry(t, w, c) => Enters(t)
  BY <1>2, <1>3, <1>4, <1>5, <1>6
     DEF OpenEntry, EntryDark, EntryNoop, EntryInherited, EntryNew
<1>9. ASSUME NEW k \in Kind, NewPlain(t, k) PROVE Enters(t)
  BY <1>2, <1>3, <1>4, <1>9 DEF NewPlain
<1>10. OpenExit(t, w) => Enters(t)
  BY <1>2, <1>3, <1>4, <1>6, <1>9 DEF OpenExit, NewExit
<1> QED BY <1>6, <1>7, <1>8, <1>9, <1>10 DEF Begin

LEMMA HeldEntered ==
  ASSUME BaseInv, Held(blocks, stack, spans, ctxs, lost), NEW t \in Task, Enters(t)
  PROVE  /\ BaseInv' /\ Held(blocks', stack', spans', ctxs', lost)
         /\ Len(blocks'[t]) = Len(blocks[t]) + 1
         /\ \A u \in Task : u # t => blocks'[u] = blocks[u]
<1>1. BaseInv' /\ Held(blocks', stack', spans', ctxs', lost)
  BY HeldOpens, HeldReenters DEF Enters
<1>2. spans \in Seq(SpanType) /\ blocks \in [Task -> Seq(Nat)]
  BY DEF BaseInv, ObjectsOK
<1>3. PICK x \in Nat : blocks' = [blocks EXCEPT ![t] = Append(@, x)]
  <2>1. Len(spans) + 1 \in Nat /\ (Peek(t) # NoSpan => Peek(t) \in Nat)
    BY <1>2, PeekFacts
  <2> QED BY <2>1 DEF Enters, OpensIn, Opens, Pushes, Reenters
<1>4. Len(blocks'[t]) = Len(blocks[t]) + 1
  BY <1>2, <1>3, AppendProperties
<1>5. \A u \in Task : u # t => blocks'[u] = blocks[u]
  BY <1>2, <1>3
<1> QED BY <1>1, <1>4, <1>5

LEMMA FrontIs ==
  ASSUME NEW S, NEW q \in Seq(S), Len(q) # 0
  PROVE  Front(q) = RemoveAt(q, Len(q))
<1>1. PICK m \in Nat : m = Len(q) /\ m # 0
  OBVIOUS
<1>2. PICK f : f = SubSeq(q, 1, m - 1)
  OBVIOUS
<1>3. f \in Seq(S) /\ Front(q) = f
  BY <1>1, <1>2, SubSeqProperties DEF Front
<1>4. SubSeq(q, m + 1, m) = <<>>
  BY <1>1
<1>5. f \o <<>> = f
  BY <1>3, ConcatEmptySeq
<1> QED BY <1>1, <1>2, <1>3, <1>4, <1>5 DEF RemoveAt

LEMMA HeldInvStep ==
  ASSUME ErrorInv, HeldInv, [WNext]_all
  PROVE  HeldInv'
<1>0. /\ frames \in [Task -> Seq(Frame)]
      /\ BaseInv /\ Held(blocks, stack, spans, ctxs, lost)
      /\ \A t \in Task : Len(frames[t]) = Len(blocks[t])
      /\ blocks \in [Task -> Seq(Nat)]
  BY DEF ErrorInv, HeldInv, BaseInv
<1>1. ASSUME UNCHANGED <<vars, frames, lost>> PROVE HeldInv'
  <2>1. /\ stack' = stack /\ blocks' = blocks /\ spans' = spans /\ ctxs' = ctxs
        /\ frames' = frames /\ lost' = lost
    BY <1>1 DEF vars
  <2>2. BaseInv'
    BY <1>0, <2>1 DEF BaseInv, CtxInv, CtxNo
  <2>3. Held(blocks, stack, spans, ctxs, lost)'
    BY <1>0, <2>1
  <2> QED BY <1>0, <2>1, <2>2, <2>3 DEF HeldInv
<1>2. CASE UNCHANGED all
  BY <1>1, <1>2 DEF all, wvars
<1>3. CASE PassThrough
  BY <1>1, <1>3 DEF PassThrough, all, wvars
<1>4. ASSUME NEW t \in Task, NEW w \in Wrapper, NEW c, Begin(t, w, c) PROVE HeldInv'
  <2>1. lost' = lost /\ frames' = [frames EXCEPT ![t] = Append(frames[t], Running(w))]
    BY <1>4 DEF Begin
  <2>2. Enters(t)
    BY <1>0, <1>4, WrapperEnters
  <2>3. /\ BaseInv' /\ Held(blocks', stack', spans', ctxs', lost)
        /\ Len(blocks'[t]) = Len(blocks[t]) + 1
        /\ \A u \in Task : u # t => blocks'[u] = blocks[u]
    BY <1>0, <2>2, HeldEntered
  <2>4. Len(frames'[t]) = Len(frames[t]) + 1 /\ \A u \in Task : u # t => frames'[u] = frames[u]
    BY <1>0, <2>1, WrapperFrames, AppendProperties
  <2>5. \A u \in Task : Len(frames'[u]) = Len(blocks'[u])
    BY <1>0, <2>3, <2>4
  <2> QED BY <2>1, <2>3, <2>5 DEF HeldInv
<1>5. ASSUME NEW t \in Task, NEW c, Record(t, c) PROVE HeldInv'
  BY <1>1, <1>5 DEF Record, Extract, wvars
<1>6. ASSUME NEW t \in Task, NEW i, NEW b \in Seq(Nat), NEW q \in Seq(Frame),
             b = blocks[t], q = frames[t], i \in 1 .. Len(b),
             blocks' = [blocks EXCEPT ![t] = RemoveAt(b, i)],
             frames' = [frames EXCEPT ![t] = RemoveAt(q, i)]
      PROVE  \A u \in Task : Len(frames'[u]) = Len(blocks'[u])
  <2>1. Len(q) = Len(b)
    BY <1>0, <1>6
  <2>2. Len(RemoveAt(b, i)) = Len(b) - 1 /\ Len(RemoveAt(q, i)) = Len(q) - 1
    BY <1>6, <2>1, RemovedAt
  <2>3. blocks'[t] = RemoveAt(b, i) /\ \A u \in Task : u # t => blocks'[u] = blocks[u]
    BY <1>0, <1>6
  <2>4. frames'[t] = RemoveAt(q, i) /\ \A u \in Task : u # t => frames'[u] = frames[u]
    BY <1>0, <1>6
  <2> QED BY <1>0, <2>1, <2>2, <2>3, <2>4
<1>7. ASSUME NEW t \in Task, NEW i, NEW out, Finish(t, i, out) PROVE HeldInv'
  <2>1. PICK q \in Seq(Frame) : q = frames[t]
    BY <1>0
  <2>2. PICK b \in Seq(Nat) : b = blocks[t]
    BY <1>0
  <2>3. i \in 1 .. Len(q) /\ Len(q) = Len(b)
    BY <1>0, <1>7, <2>1, <2>2 DEF Finish
  <2>4. /\ CloseBlock(t, i) /\ lost' = lost
        /\ frames' = [frames EXCEPT ![t] = RemoveAt(q, i)]
    BY <1>7, <2>1 DEF Finish
  <2>5. blocks' = [blocks EXCEPT ![t] = RemoveAt(b, i)]
    BY <2>2, <2>4 DEF CloseBlock
  <2>6. \A u \in Task : Len(frames'[u]) = Len(blocks'[u])
    BY <1>6, <2>1, <2>2, <2>3, <2>4, <2>5
  <2>7. BaseInv' /\ Held(blocks', stack', spans', ctxs', lost)
    BY <1>0, <2>2, <2>3, <2>4, HeldLeaves
  <2> QED BY <2>4, <2>6, <2>7 DEF HeldInv
<1>8. ASSUME NEW t \in Task, NoResponse(t) PROVE HeldInv'
  <2>1. PICK q \in Seq(Frame) : q = frames[t]
    BY <1>0
  <2>2. PICK b \in Seq(Nat) : b = blocks[t]
    BY <1>0
  <2>3. PICK m \in Nat : m = Len(q) /\ m = Len(b) /\ m \in 1 .. m
    BY <1>0, <1>8, <2>1, <2>2 DEF NoResponse
  <2>4. Front(q) = RemoveAt(q, m) /\ Front(b) = RemoveAt(b, m)
    <3>1. Len(q) # 0 /\ Len(b) # 0
      BY <2>3
    <3>2. Front(q) = RemoveAt(q, Len(q))
      BY <3>1, FrontIs
    <3>3. Front(b) = RemoveAt(b, Len(b))
      BY <3>1, FrontIs
    <3> QED BY <2>3, <3>2, <3>3
  <2>5. /\ blocks' = [blocks EXCEPT ![t] = RemoveAt(b, m)]
        /\ frames' = [frames EXCEPT ![t] = RemoveAt(q, m)]
    BY <1>8, <2>1, <2>2, <2>4 DEF NoResponse
  <2>6. \A u \in Task : Len(frames'[u]) = Len(blocks'[u])
    BY <1>6, <2>1, <2>2, <2>3, <2>5
  <2>7. /\ lost' = lost \cup {spans[b[m]].ctx}
        /\ spans' = spans /\ ctxs' = ctxs /\ stack' = stack
    BY <1>8, <2>2, <2>3 DEF NoResponse, Last
  <2>8. BaseInv' /\ Held(blocks', stack', spans', ctxs', lost')
    BY <1>0, <2>2, <2>3, <2>5, <2>7, HeldLoses
  <2> QED BY <2>6, <2>8 DEF HeldInv
<1>9. ASSUME NEW t \in Task, MarkActive(t) PROVE HeldInv'
  BY <1>1, <1>9 DEF MarkActive
<1>10. ASSUME NEW t \in Task, Hook(t) PROVE HeldInv'
  BY <1>9, <1>10 DEF Hook, flask_handle_user_exception, flask_handle_exception,
     django_handle_uncaught_exception, tornado_log_exception, sanic_error_handler_response,
     sanic_format_http1_response
<1> QED BY <1>2, <1>3, <1>4, <1>5, <1>7, <1>8, <1>10 DEF WNext

LEMMA HeldInvBegins ==
  ASSUME WInit
  PROVE  HeldInv
<1>1. /\ mode \in {"sync", "async"} /\ live \in SUBSET Task /\ spans = <<>> /\ ctxs = <<>>
      /\ stack = [t \in Task |-> <<>>] /\ blocks = [t \in Task |-> <<>>]
      /\ frames = [t \in Task |-> <<>>]
  BY DEF WInit, PInit
<1>2. BaseInv
  BY <1>1, SpanInvBegins, StackBase
<1>3. HeldAt(<<>>, <<>>, <<>>, <<>>, lost)
  BY DEF HeldAt, Once, Dark
<1>4. Held(blocks, stack, spans, ctxs, lost)
  BY <1>1, <1>3 DEF Held
<1> QED BY <1>1, <1>2, <1>4 DEF HeldInv

LEMMA HeldInvAlways ==
  WSpec => []HeldInv
<1>1. WInit => ErrorInv /\ HeldInv
  BY HeldInvBegins DEF WInit, ErrorInv
<1>2. ErrorInv /\ HeldInv /\ [WNext]_all => (ErrorInv /\ HeldInv)'
  BY ErrorInvStep, HeldInvStep
<1> QED BY <1>1, <1>2, PTL DEF WSpec

(* Once no wrapper runs, only the spans of lost requests are open.         *)
LEMMA RequestsReportedHolds ==
  ASSUME HeldInv
  PROVE  RequestsReported
<1> SUFFICES ASSUME \A t \in Task : frames[t] = <<>>
             PROVE  /\ \A c \in CtxNo \ lost :
                         ctxs[c].nspans = 0 /\ (ctxs[c].noop \/ ctxs[c].archived = 1)
                    /\ \A t \in Task : \A s \in Range(stack[t]) : spans[s].ctx \in lost
  BY DEF RequestsReported
<1>1. /\ BaseInv /\ Held(blocks, stack, spans, ctxs, lost)
      /\ \A t \in Task : Len(blocks[t]) = 0
  BY DEF HeldInv
<1>2. ASSUME NEW t \in Task, NEW s, Opened(s, stack[t]) PROVE spans[s].ctx \in lost
  <2>1. PICK p \in 1 .. Len(stack[t]) : stack[t][p] = s
    BY <1>2 DEF Opened, In
  <2>2. Opened(s, blocks[t]) \/ spans[s].ctx \in lost
    BY <1>1, <2>1 DEF Held, HeldAt
  <2>3. ~Opened(s, blocks[t])
    BY <1>1 DEF Opened, In
  <2> QED BY <2>2, <2>3
<1>3. \A t \in Task : \A s \in Range(stack[t]) : Opened(s, stack[t])
  <2>1. \A t \in Task : stack[t] \in Seq(Nat)
    BY <1>1 DEF BaseInv
  <2> QED BY <2>1 DEF Range, Opened, In
<1>4. ASSUME NEW c \in CtxNo \ lost
      PROVE  ctxs[c].nspans = 0 /\ (ctxs[c].noop \/ ctxs[c].archived = 1)
  <2>1. CtxOK(ctxs[c], c, spans)
    BY <1>1 DEF BaseInv, CtxInv
  <2>2. Len(spans) \in Nat
    BY <1>1 DEF BaseInv, ObjectsOK
  <2>3. \A s \in SpansIn(c, spans) : spans[s].depth = 0
    <3> SUFFICES ASSUME NEW s \in SpansIn(c, spans), spans[s].depth # 0 PROVE FALSE
      OBVIOUS
    <3>1. s \in 1 .. Len(spans) /\ spans[s].ctx = c
      BY DEF SpansIn
    <3>2. spans[s] \in SpanType
      BY <1>1, <3>1 DEF BaseInv, ObjectsOK
    <3>3. spans[s].depth > 0
      BY <3>2 DEF SpanType
    <3>4. PICK t \in Task : Opened(s, stack[t])
      BY <1>1, <3>1, <3>3 DEF Held
    <3> QED BY <1>2, <3>1, <3>4
  <2>4. OpenIn(c, spans) = {}
    BY <2>3 DEF OpenIn
  <2>5. ctxs[c].nspans = 0
    BY <2>1, <2>2, <2>4, OpenFacts DEF CtxOK
  <2> QED BY <2>1, <2>5 DEF CtxOK, TracedOK
<1> QED BY <1>2, <1>3, <1>4

LEMMA DarkInsideHolds ==
  ASSUME HeldInv
  PROVE  DarkInside
<1> SUFFICES ASSUME NEW t \in Task, NEW i \in DOMAIN blocks[t], NEW j \in DOMAIN blocks[t], i < j,
                    ctxs[spans[blocks[t][i]].ctx].noop
             PROVE  ctxs[spans[blocks[t][j]].ctx].noop
  BY DEF DarkInside
<1>1. PICK b \in Seq(Nat) : b = blocks[t]
  BY DEF HeldInv, BaseInv
<1>2. Dark(b, spans, ctxs)
  BY <1>1 DEF HeldInv, Held, HeldAt
<1>3. i \in 1 .. Len(b) /\ j \in 1 .. Len(b)
  BY <1>1
<1>4. NoopOf(b[i], spans, ctxs)
  BY <1>1 DEF NoopOf
<1>5. NoopOf(b[j], spans, ctxs)
  BY <1>2, <1>3, <1>4 DEF Dark
<1> QED BY <1>1, <1>5 DEF NoopOf

(* Whatever the wrappers of the plugins do, in whatever order suspended    *)
(* generators end: once none runs, every segment was archived exactly once *)
(* (SpanContext.stop) and the stacks are empty, but for the requests whose *)
(* on_response never came.                                                 *)
THEOREM NothingLeftBehind ==
  WSpec => []RequestsReported
BY HeldInvAlways, RequestsReportedHolds, PTL

(* Inside an ignored or unsampled call every span a plugin opens is a      *)
(* NoopSpan (new_*_span below a NoopContext), also after generators around *)
(* it have ended in another order than they began.                         *)
THEOREM DarkIsInherited ==
  WSpec => []DarkInside
BY HeldInvAlways, DarkInsideHolds, PTL
=============================================================================
