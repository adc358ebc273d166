----------------------------- MODULE Propagation -----------------------------
(***************************************************************************)
(* How a trace goes from one process or thread to the next: the sw8 header *)
(* (Carrier, inject, extract), the correlation context and its header, the *)
(* snapshots of @runnable (capture, continued) and the trace ids a segment *)
(* is related to.                                                          *)
(*                                                                         *)
(* It extends SpanContext. The tasks are threads, of one process or of     *)
(* several that run this agent: each starts with an empty stack. A header  *)
(* stays on the wire, so it may be received late, twice or never.          *)
(***************************************************************************)
EXTENDS SpanContext

CONSTANTS Key,             \* correlation keys
          MaxCorrelation,  \* correlation_element_max_number
          MaxSnapshots,    \* bound: snapshots captured
          MaxExtras        \* bound: explicit extracts, continued snapshots, puts

ASSUME PropagationAssumption ==
  /\ IsFiniteSet(Key) /\ MaxCorrelation \in Nat /\ MaxSnapshots \in Nat /\ MaxExtras \in Nat

VARIABLES
  data,     \* what each context carries, by number
  wire,     \* carriers that were sent
  snaps,    \* snapshots that were captured
  extras    \* number of explicit extracts, continued snapshots and puts

pvars == <<data, wire, snaps, extras>>

(***************************************************************************)
(* Segment i has i as its own trace id; an id made up from an empty header *)
(* is -i; a NoopSegment has the empty id 0. Beside the related traces, the *)
(* references of the segment's spans and the correlation keys in the order *)
(* they came, three histories: whether the own id was given out, whether   *)
(* it was replaced after that, and the senders whose header was passed to  *)
(* new_entry_span.                                                         *)
(***************************************************************************)
NewData(i, noop) ==
  [traces |-> <<IF noop THEN 0 ELSE i>>, fresh |-> ~noop, corr |-> <<>>,
   refs |-> {}, gave |-> FALSE, split |-> FALSE, joined |-> FALSE, senders |-> {}]

(* A header as the receiver parses it. NoHeader is a request without one;  *)
(* "text" says that the sw8 header was set, "by" is the sending context.   *)
NoHeader == [seg |-> 0, sid |-> -1, trace |-> 0, corr |-> <<>>, text |-> FALSE, by |-> 0]

(* The header of another agent, whose limits are its own.                  *)
Elsewhere == -1
ForeignTrace == -MaxSpans - 1
ForeignHeader(corr) ==
  [seg |-> Elsewhere, sid |-> 0, trace |-> ForeignTrace, corr |-> corr, text |-> TRUE, by |-> 0]

IsValid(c) == c.seg # 0
IsSuppressed(c) == c.text /\ ~IsValid(c)
SenderOf(c) == {c.by} \ {0}

PInit ==
  /\ mode = "sync" /\ live = Task
  /\ spans = <<>> /\ ctxs = <<>> /\ unlinked = {}
  /\ stack = [t \in Task |-> <<>>] /\ blocks = [t \in Task |-> <<>>]
  /\ data = <<>> /\ wire \in {{ForeignHeader(q)} : q \in SetToSeqs(Key)} /\ snaps = {} /\ extras = 0

-----------------------------------------------------------------------------
(* Faulty variants for the mutation runs.                                  *)

RelatedAtTail(d, tr) == [d EXCEPT !.traces = Append(@, tr), !.fresh = FALSE]
KeptAll(corr) == corr
NoopCarrierUnset(c) == [NoHeader EXCEPT !.by = c]
FromOther(sn, c) == TRUE

-----------------------------------------------------------------------------
(* The data of the contexts after a step that may have made one.           *)
Grown == IF Len(ctxs') > Len(data)
         THEN Append(data, NewData(Len(ctxs'), ctxs'[Len(ctxs')].noop))
         ELSE data

TopContext(t) == spans'[Last(blocks'[t])].ctx
TopSid(t) == spans'[Last(blocks'[t])].sid

(* Segment.relate: the id the segment was created with is replaced once.   *)
Related(d, tr) ==
  [d EXCEPT !.traces = IF d.fresh THEN <<tr>> ELSE Append(@, tr),
            !.fresh = FALSE,
            !.split = @ \/ (d.fresh /\ d.gave /\ tr # Head(d.traces))]

(* SW8CorrelationCarrier.val: the parser stops when it has more than the   *)
(* maximum.                                                                *)
Kept(corr) ==
  IF Len(corr) > MaxCorrelation + 1 THEN SubSeq(corr, 1, MaxCorrelation + 1) ELSE corr

(* Span.extract: the trace is related and the correlation replaced even    *)
(* when the header turns out to be invalid; an empty trace id becomes a    *)
(* new one.                                                                *)
Extracted(d, i, c) ==
  LET e == [Related(d, IF IsValid(c) THEN c.trace ELSE -i) EXCEPT !.corr = Kept(c.corr)]
  IN IF IsValid(c)
     THEN [e EXCEPT !.refs = @ \cup {[type |-> "CrossProcess", seg |-> c.seg,
                                      sid |-> c.sid, trace |-> c.trace]}]
     ELSE e

(* NoopSpan.inject: a header of empty fields, which is not an empty header *)
NoopCarrier(c) == [NoHeader EXCEPT !.text = TRUE, !.by = c]

(* ExitSpan.inject                                                         *)
Injected(c, sid, d) ==
  [seg |-> c, sid |-> sid, trace |-> Head(d.traces), corr |-> d.corr,
   text |-> TRUE, by |-> c]

-----------------------------------------------------------------------------
(* context.new_entry_span(op, carrier, inherit) and its with block.        *)
EntryDark(t, c) ==
  /\ OpenIgnored(t)
  /\ data' = [Grown EXCEPT ![TopContext(t)].senders = @ \cup SenderOf(c)]

EntryNoop(t, c) == OpenNoop(t) /\ UNCHANGED data

EntryInherited(t, c) ==
  /\ ~IsSuppressed(c)
  /\ OpenInherited(t, "Entry")
  /\ data' = [data EXCEPT ![TopContext(t)].senders = @ \cup SenderOf(c)]

EntryNew(t, c) ==
  /\ ~IsSuppressed(c)
  /\ OpenNew(t, "Entry")
  /\ LET i == TopContext(t)
         d == [Grown[i] EXCEPT !.senders = @ \cup SenderOf(c)]
     IN data' = [Grown EXCEPT ![i] = IF IsValid(c) THEN Extracted(d, i, c) ELSE d]

NewEntry(t, c) ==
  /\ EntryDark(t, c) \/ EntryNoop(t, c) \/ EntryInherited(t, c) \/ EntryNew(t, c)
  /\ UNCHANGED <<wire, snaps, extras>>

(* context.new_local_span(op); a span that carries nothing.                *)
NewPlain(t, kind) ==
  /\ OpenIgnored(t) \/ OpenNoop(t) \/ OpenNew(t, kind)
  /\ data' = Grown
  /\ UNCHANGED <<wire, snaps, extras>>

(* context.new_exit_span(op, peer), and span.inject() in its with block.   *)
NewExit(t) ==
  /\ OpenIgnored(t) \/ OpenNoop(t) \/ OpenNew(t, "Exit")
  /\ LET i == TopContext(t)
     IN IF ctxs'[i].noop
        THEN data' = Grown /\ wire' = wire \cup {NoopCarrier(i)}
        ELSE /\ data' = [Grown EXCEPT ![i].gave = TRUE]
             /\ wire' = wire \cup {Injected(i, TopSid(t), Grown[i])}
  /\ UNCHANGED <<snaps, extras>>

(* span.extract(carrier) in the with block of an entry span, the way the   *)
(* consumers of message queues link the messages they got.                 *)
Extract(t, c) ==
  /\ extras < MaxExtras
  /\ Peek(t) # NoSpan /\ spans[Peek(t)].kind = "Entry"
  /\ LET i == spans[Peek(t)].ctx IN data' = [data EXCEPT ![i] = Extracted(@, i, c)]
  /\ extras' = extras + 1
  /\ UNCHANGED <<vars, wire, snaps>>

-----------------------------------------------------------------------------
(* context.put_correlation(key, value): no value removes the key.          *)
PutCorrelation(t, k, value) ==
  /\ extras < MaxExtras
  /\ Peek(t) # NoSpan
  /\ LET i == spans[Peek(t)].ctx
         corr == data[i].corr
         rejected == value = "long" \/ Len(corr) > MaxCorrelation
         put == IF value = "none" THEN RemoveFirst(corr, k)
                ELSE IF rejected \/ Contains(corr, k) THEN corr ELSE Append(corr, k)
     IN data' = [data EXCEPT ![i].corr = put]
  /\ extras' = extras + 1
  /\ UNCHANGED <<vars, wire, snaps>>

(* get_context().capture(): @runnable and continue_tracing().              *)
Capture(t) ==
  /\ Cardinality(snaps) < MaxSnapshots
  /\ Peek(t) # NoSpan
  /\ LET s == spans[Peek(t)]
         d == data[s.ctx]
         noop == ctxs[s.ctx].noop
     IN /\ snaps' = snaps \cup {[seg |-> IF noop THEN 0 ELSE s.ctx, sid |-> s.sid,
                                 trace |-> Head(d.traces), corr |-> d.corr]}
        /\ data' = [data EXCEPT ![s.ctx].gave = TRUE]
  /\ UNCHANGED <<vars, wire, extras>>

(* snapshot.is_from_current(context)                                       *)
FromElsewhere(sn, c) == sn.seg # c

(* dict.update: new keys come after the ones that were there.              *)
Merged(corr, more) ==
  FoldLeft(LAMBDA acc, k : IF Contains(acc, k) THEN acc ELSE Append(acc, k), corr, more)

(* context.continued(snapshot) of a context with number i; ref says that   *)
(* the active span belongs to it.                                          *)
Continued(i, noop, d, sn, ref) ==
  IF noop THEN [d EXCEPT !.corr = Merged(@, sn.corr), !.joined = TRUE]
  ELSE IF sn.seg # 0 /\ FromElsewhere(sn, i)
       THEN [Related(d, sn.trace) EXCEPT
               !.refs = IF ref
                        THEN @ \cup {[type |-> "CrossThread", seg |-> sn.seg,
                                      sid |-> sn.sid, trace |-> sn.trace]}
                        ELSE @,
               !.corr = Merged(@, sn.corr),
               !.joined = TRUE]
       ELSE d

(* The wrapper of @runnable: the context is taken, a local span opened and *)
(* the snapshot continued. When the local span is ignored, the context is  *)
(* still the one that was taken before; a new one is simply lost. On an    *)
(* empty stack a request that is not sampled takes a NoopContext, which    *)
(* the local span belongs to and which takes over the correlation.         *)
Resume(t, sn) ==
  /\ extras < MaxExtras
  /\ \/ /\ OpenNoop(t) \/ OpenNew(t, "Local") \/ (OpenIgnored(t) /\ Peek(t) = NoSpan)
        /\ LET i == TopContext(t)
           IN data' = [Grown EXCEPT ![i] = Continued(i, ctxs'[i].noop, @, sn, TRUE)]
     \/ /\ OpenIgnored(t)
        /\ data' = IF Peek(t) = NoSpan THEN Grown
                   ELSE [Grown EXCEPT ![spans[Peek(t)].ctx] =
                           Continued(spans[Peek(t)].ctx, FALSE, @, sn, FALSE)]
  /\ extras' = extras + 1
  /\ UNCHANGED <<wire, snaps>>

End(t) == Close(t) /\ UNCHANGED pvars

PNext == \E t \in Task :
  \/ \E c \in wire \cup {NoHeader} : NewEntry(t, c) \/ Extract(t, c)
  \/ NewPlain(t, "Local") \/ NewExit(t) \/ Capture(t) \/ End(t)
  \/ \E k \in Key, v \in {"short", "long", "none"} : PutCorrelation(t, k, v)
  \/ \E sn \in snaps : Resume(t, sn)

PSpec == PInit /\ [][PNext]_<<vars, pvars>>

-----------------------------------------------------------------------------
(* Properties.                                                             *)

(* Every reference can be followed: the segment it names gave out that     *)
(* span id, a cross-thread reference never names its own segment, and the  *)
(* two segments share the trace id of the reference, unless the upstream   *)
(* segment's own id was replaced after it had been given out.              *)
RefResolves ==
  \A i \in CtxNo : \A r \in data[i].refs : r.seg # Elsewhere =>
    /\ r.seg \in CtxNo /\ ~ctxs[r.seg].noop /\ r.sid \in 0 .. ctxs[r.seg].sid - 1
    /\ r.type = "CrossThread" => r.seg # i
    /\ r.trace \in Range(data[r.seg].traces) \/ data[r.seg].split

(* A request that is not traced stays so downstream: a header sent by a    *)
(* NoopContext and passed to new_entry_span never opens a traced segment.  *)
DarkStaysDark ==
  \A i \in CtxNo : (\E u \in data[i].senders : ctxs[u].noop) => ctxs[i].noop

(* "Max element count of the correlation context", as the configuration    *)
(* describes correlation_element_max_number. Not true of this code:        *)
(* put_correlation rejects only when the context already holds more than   *)
(* the maximum, and continued() merges without a limit.                    *)
CorrelationWithinMax == \A i \in CtxNo : Len(data[i].corr) <= MaxCorrelation

(* What the code keeps to instead, over every sequence of put_correlation  *)
(* and extracted headers: one element past the documented maximum and no   *)
(* more, because put_correlation and the parser of the header both compare *)
(* with >. A context that continued a snapshot is exempt: continued()      *)
(* merges whatever the snapshot holds.                                     *)
CorrelationBound ==
  \A i \in CtxNo : ~data[i].joined => Len(data[i].corr) <= MaxCorrelation + 1

(* A segment that refers to another one has left the trace id it was       *)
(* created with: the id it leads with, and sends downstream, is one it got *)
(* (its own only when a reference, or the snapshot of a segment downstream *)
(* that it continued, brought that back).                                  *)
TraceContinues ==
  \A i \in CtxNo : data[i].refs # {} =>
    /\ \A r \in data[i].refs : r.trace \in Range(data[i].traces)
    /\ \/ Head(data[i].traces) # i
       \/ \E r \in data[i].refs : r.trace = i
       \/ data[i].joined /\ \E sn \in snaps : sn.trace = i /\ sn.seg # i
=============================================================================
