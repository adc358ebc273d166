----------------------------- MODULE SpanContext -----------------------------
(***************************************************************************)
(* Spans, contexts and segments: get_context(), new_local_span(),          *)
(* new_entry_span(), new_exit_span(), Span.start/stop and                  *)
(* SpanContext.start/stop, in the tasks of an event loop.                  *)
(*                                                                         *)
(* Every task has its own stack of spans (a ContextVar); a new task begins *)
(* with a copy of its creator's stack and both go on independently. So a   *)
(* task may find spans on its stack that another task has finished. A span *)
(* is opened and started in one stretch without an await (the with block). *)
(***************************************************************************)
EXTENDS Integers, Sequences, FiniteSets, SequencesExt

CONSTANTS Task,      \* tasks of the event loop
          MaxSpans,  \* bound: spans created
          MaxDepth,  \* bound: with blocks a task has open
          Modes      \* which kinds of host to consider, see Init

ASSUME SpanAssumption ==
  /\ Task # {} /\ MaxSpans \in Nat /\ MaxDepth \in Nat
  /\ Modes \subseteq {"sync", "async", "mixed"}

VARIABLES
  mode,     \* "sync": no child tasks; "async": no plugin inherits a span;
            \* "mixed": both happen (FastAPI below an instrumented server)
  live,     \* tasks that were created
  spans,    \* all Span objects, by number
  ctxs,     \* all SpanContext and NoopContext objects, by number
  stack,    \* the ContextVar of each task: span numbers
  blocks,   \* the with blocks of each task: span numbers
  unlinked  \* history: finished spans under which work was opened unlinked

vars == <<mode, live, spans, ctxs, stack, blocks, unlinked>>

Kind == {"Local", "Entry", "Exit"}
NoSpan == 0

(***************************************************************************)
(* A span: its context, its ids, its kind, the nesting of its with blocks, *)
(* whether it has a peer, and the finished span it refers to. A context    *)
(* and its segment: whether it is a NoopContext, _sid, _nspans, the spans  *)
(* of the segment in the order they finished, how often the segment was    *)
(* archived, and the primary endpoint.                                     *)
(* Exit spans are created with their peer, entry spans of requests get it  *)
(* from their plugin at once, local spans never have one (nor have the     *)
(* entry spans of message consumers, for which they stand here).           *)
(***************************************************************************)
NewSpan(c, sid, pid, kind, ref) ==
  [ctx |-> c, sid |-> sid, pid |-> pid, kind |-> kind, depth |-> 0,
   peer |-> kind # "Local", ref |-> ref]

NewContext(noop) ==
  [noop |-> noop, sid |-> 0, nspans |-> 0, segment |-> <<>>, archived |-> 0,
   primary |-> NoSpan]

Init ==
  /\ mode \in Modes
  /\ \E t \in Task : live = {t}
  /\ spans = <<>> /\ ctxs = <<>>
  /\ stack = [t \in Task |-> <<>>]
  /\ blocks = [t \in Task |-> <<>>]
  /\ unlinked = {}

-----------------------------------------------------------------------------
(* Faulty variants for the mutation runs.                                  *)

ArchiveDueWhenRoot(n, sid) == sid = 0
ArchiveDueAtRoot(n, sid) == n = 0 /\ sid = 0
RemovedNone(t, s) == stack[t]
RemovedLast(t, s) == IF stack[t] = <<>> THEN <<>> ELSE Front(stack[t])

-----------------------------------------------------------------------------
Peek(t) == IF stack[t] = <<>> THEN NoSpan ELSE Last(stack[t])

(* A parent on the stack that another task has finished meanwhile.         *)
Finished(p) == p # NoSpan /\ spans[p].depth = 0

Pushed(t, s) ==
  IF s \in Range(stack[t]) THEN stack[t] ELSE Append(stack[t], s)

(* PrimaryEndpoint: the first span, replaced by the first entry span.      *)
Primary(old, s, kind) ==
  IF old = NoSpan \/ (spans'[old].kind # "Entry" /\ kind = "Entry") THEN s ELSE old

(* SpanContext.start(span), on the first start of the span; ctx is the     *)
(* record of its context before.                                           *)
BeganIn(ctx, t, s, kind) ==
  LET fresh == s \notin Range(stack[t])
  IN [ctx EXCEPT !.nspans = @ + 1,
                 !.primary = IF fresh THEN Primary(@, s, kind) ELSE @]

(* span.start(): only the outermost with block of a span reaches its       *)
(* context.                                                                *)
FirstStart(s) == s.depth = 0

(* A span s, new or inherited, in context c is entered by t. ss and cs are *)
(* the spans and contexts with the new objects in place.                   *)
Enter(t, s, ss, cs) ==
  LET c == ss[s].ctx
  IN /\ spans' = [ss EXCEPT ![s].depth = @ + 1]
     /\ ctxs' = IF FirstStart(ss[s])
                THEN [cs EXCEPT ![c] = BeganIn(@, t, s, ss[s].kind)]
                ELSE cs
     /\ stack' = IF FirstStart(ss[s]) THEN [stack EXCEPT ![t] = Pushed(t, s)] ELSE stack
     /\ blocks' = [blocks EXCEPT ![t] = Append(@, s)]
     /\ UNCHANGED <<mode, live>>

Traced(t) == Peek(t) # NoSpan => ~ctxs[spans[Peek(t)].ctx].noop

MayOpen(t) == t \in live /\ Len(blocks[t]) < MaxDepth

(* A NoopSpan in a NoopContext of its own.                                 *)
OpenDark(t) ==
  /\ MayOpen(t) /\ Len(spans) < MaxSpans
  /\ LET c == Len(ctxs) + 1
         s == Len(spans) + 1
     IN Enter(t, s, Append(spans, NewSpan(c, -1, -1, "Local", NoSpan)),
                    Append(ctxs, NewContext(TRUE)))
  /\ UNCHANGED unlinked

(* ignore_check: an ignored path, a full segment queue or a suppressed     *)
(* carrier gives a NoopSpan; so does a request that is not sampled.        *)
OpenIgnored(t) == Traced(t) /\ OpenDark(t)

(* Below a NoopSpan everything is a NoopSpan of the same context.          *)
OpenNoop(t) ==
  /\ MayOpen(t) /\ Len(spans) < MaxSpans
  /\ ~Traced(t)
  /\ Enter(t, Len(spans) + 1,
           Append(spans, NewSpan(spans[Peek(t)].ctx, -1, -1, "Local", NoSpan)), ctxs)
  /\ UNCHANGED unlinked

(* new_entry_span and new_exit_span take the parent itself when it has the *)
(* same kind and the components match.                                     *)
OpenInherited(t, kind) ==
  /\ MayOpen(t) /\ mode # "async" /\ kind # "Local"
  /\ Peek(t) # NoSpan /\ Traced(t) /\ spans[Peek(t)].kind = kind
  /\ Enter(t, Peek(t), spans, ctxs)
  /\ unlinked' = unlinked \cup IF Finished(Peek(t)) THEN {Peek(t)} ELSE {}

ParentId(p) == IF p = NoSpan \/ Finished(p) THEN -1 ELSE spans[p].sid

(* new_span: in the parent's context, or the one get_context() just made;  *)
(* below a finished parent in a new context whose span refers to it.       *)
OpenNew(t, kind) ==
  /\ MayOpen(t) /\ Len(spans) < MaxSpans /\ Traced(t)
  /\ LET p == Peek(t)
         fresh == p = NoSpan \/ Finished(p)
         cs == IF fresh THEN Append(ctxs, NewContext(FALSE)) ELSE ctxs
         c == IF fresh THEN Len(cs) ELSE spans[p].ctx
         new == NewSpan(c, cs[c].sid, ParentId(p), kind,
                        IF Finished(p) THEN p ELSE NoSpan)
     IN /\ Finished(p) => spans[p].peer
        /\ Enter(t, Len(spans) + 1, Append(spans, new), [cs EXCEPT ![c].sid = @ + 1])
  /\ UNCHANGED unlinked

(* Carrier.is_valid takes len() of the client address: a finished parent   *)
(* without a peer makes new_span raise, before anything is started.        *)
OpenRaises(t) ==
  /\ MayOpen(t) /\ Traced(t) /\ Finished(Peek(t)) /\ ~spans[Peek(t)].peer
  /\ unlinked' = unlinked \cup {Peek(t)}
  /\ UNCHANGED <<mode, live, spans, ctxs, stack, blocks>>

-----------------------------------------------------------------------------
Removed(t, s) == RemoveFirst(stack[t], s)

(* The segment goes to the agent when its last open span stops.            *)
ArchiveDue(n, sid) == n = 0

(* SpanContext.stop(span)                                                  *)
StoppedIn(c, s) ==
  LET n == ctxs[c].nspans - 1
      due == ~ctxs[c].noop /\ ArchiveDue(n, spans[s].sid)
  IN [ctxs[c] EXCEPT !.nspans = n,
                     !.segment = IF ctxs[c].noop THEN @ ELSE Append(@, s),
                     !.archived = IF due THEN @ + 1 ELSE @]

(* The i-th with block of t ends: Span.__exit__, Span.stop().              *)
CloseBlock(t, i) ==
  /\ LET s == blocks[t][i]
         c == spans[s].ctx
         outermost == spans[s].depth = 1
     IN /\ spans' = [spans EXCEPT ![s].depth = @ - 1]
        /\ ctxs' = IF outermost THEN [ctxs EXCEPT ![c] = StoppedIn(c, s)] ELSE ctxs
        /\ stack' = IF outermost THEN [stack EXCEPT ![t] = Removed(t, s)] ELSE stack
  /\ blocks' = [blocks EXCEPT ![t] = RemoveAt(@, i)]
  /\ UNCHANGED <<mode, live, unlinked>>

(* With blocks nest: the innermost one ends.                               *)
Close(t) == blocks[t] # <<>> /\ CloseBlock(t, Len(blocks[t]))

(* asyncio.create_task: the child starts with a copy of the context.       *)
Spawn(t, u) ==
  /\ mode # "sync" /\ t \in live /\ u \in Task \ live
  /\ live' = live \cup {u}
  /\ stack' = [stack EXCEPT ![u] = stack[t]]
  /\ UNCHANGED <<mode, spans, ctxs, blocks, unlinked>>

Next == \E t \in Task :
          \/ OpenIgnored(t) \/ OpenNoop(t) \/ OpenRaises(t) \/ Close(t)
          \/ \E k \in Kind : OpenInherited(t, k) \/ OpenNew(t, k)
          \/ \E u \in Task : Spawn(t, u)

Spec == Init /\ [][Next]_vars

-----------------------------------------------------------------------------
(* Properties.                                                             *)

SpanNo == 1 .. Len(spans)
CtxNo == 1 .. Len(ctxs)
SpansOf(c) == {s \in SpanNo : spans[s].ctx = c}

(* A segment is archived at most once, when every span ever opened in it   *)
(* has finished, and as one whole tree: the span ids 0..n-1 once each, one *)
(* root, and every parent id belongs to an earlier span of the segment.    *)
(* Its primary endpoint was its first entry span or, without any, its root *)
(* ("1. Use the first entry span's operation name 2. Use the first         *)
(* span's").                                                               *)
ArchivedWhole ==
  \A c \in CtxNo : ctxs[c].archived > 0 =>
    LET seg == ctxs[c].segment
        sid(i) == spans[seg[i]].sid
        pid(i) == spans[seg[i]].pid
        entries == {s \in SpansOf(c) : spans[s].kind = "Entry"}
    IN /\ ctxs[c].archived = 1 /\ ctxs[c].nspans = 0
       /\ \A s \in SpansOf(c) : spans[s].depth = 0
       /\ {sid(i) : i \in DOMAIN seg} = 0 .. Len(seg) - 1
       /\ \A i \in DOMAIN seg : pid(i) < sid(i) /\ (pid(i) = -1 <=> sid(i) = 0)
       /\ ctxs[c].primary = Min(IF entries = {} THEN SpansOf(c) ELSE entries)

(* No segment is stranded: once no with block is open in any task, every   *)
(* segment was archived and no unfinished span is left on any stack.       *)
NothingStranded ==
  (\A t \in Task : blocks[t] = <<>>) =>
    /\ \A c \in CtxNo : ctxs[c].nspans = 0 /\ (ctxs[c].noop \/ ctxs[c].archived = 1)
    /\ \A t \in Task : \A s \in Range(stack[t]) : spans[s].depth = 0

(* The span a task would use as parent is the one of its innermost with    *)
(* block, however other tasks push and pop theirs.                         *)
InnermostIsParent ==
  \A t \in Task : blocks[t] # <<>> => Peek(t) = Last(blocks[t])

(* Not true of this code, see the README:                                  *)
(* "if parent finished and segment was archived before this child starts   *)
(* then we need to refer to parent": no work is opened below a finished    *)
(* span without a reference to it.                                         *)
FinishedParentReferred == unlinked = {}
=============================================================================
