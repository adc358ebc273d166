----------------------------- MODULE PluginSpans -----------------------------
(***************************************************************************)
(* The wrappers of the plugins at work in a thread: calls nest, fail, are  *)
(* cancelled, answer with an error status, come from another process with  *)
(* a header, and stay suspended as generators while other calls go on. It  *)
(* extends Propagation, whose operators open the spans.                    *)
(***************************************************************************)
EXTENDS Propagation, Wrappers

VARIABLES
  frames,   \* wrappers that run in each thread, parallel to blocks
  general,  \* open spans whose component is Component.General
  errs,     \* open spans with error_occurred
  failed,   \* history: open spans for which something went wrong
  hidden,   \* history: finished spans that failed and do not say so
  lost      \* history: contexts whose on_response callback never came

wvars == <<frames, general, errs, failed, hidden, lost>>
all == <<vars, pvars, wvars>>

(* How a wrapped call ends: an Exception or another BaseException (task    *)
(* cancelled, generator closed, exit) may leave it, and an answer with a   *)
(* status may have been made by then.                                      *)
Outcome == [raised : {"no", "exception", "base"}, answer : {"none", "good", "bad"}]

WInit ==
  /\ PInit
  /\ frames = [t \in Task |-> <<>>]
  /\ general = {} /\ errs = {} /\ failed = {} /\ hidden = {} /\ lost = {}

-----------------------------------------------------------------------------
(* Faulty variants for the mutation runs.                                  *)

StartClears(s) == errs \ {s}

-----------------------------------------------------------------------------
(* EntrySpan.start resets component, tags and logs, but not the error flag *)
AfterStart(s) == errs

(* An ignored method: a NoopSpan in a new NoopContext, whatever encloses   *)
(* the call.                                                               *)
IgnoredMethod(t) ==
  /\ OpenDark(t)
  /\ data' = Grown
  /\ UNCHANGED <<wire, snaps, extras>>

(* new_entry_span takes the parent over when it is an entry span that has  *)
(* the component the wrapper may inherit from.                             *)
Joins(t, w) ==
  w.joins /\ Peek(t) # NoSpan /\ spans[Peek(t)].kind = "Entry" /\ Peek(t) \in general

OpenEntry(t, w, c) ==
  /\ w.carries # "argument" => c = NoHeader
  /\ \/ EntryDark(t, c) \/ EntryNoop(t, c)
     \/ Joins(t, w) /\ EntryInherited(t, c)
     \/ ~Joins(t, w) /\ EntryNew(t, c)
  /\ UNCHANGED <<wire, snaps, extras>>

OpenExit(t, w) == IF w.carries = "inject" THEN NewExit(t) ELSE NewPlain(t, "Exit")

(* The span a thread has just entered.                                     *)
Entered(t) == Last(blocks'[t])

(* What matters of a wrapper once its span is open.                        *)
Running(w) ==
  [shape |-> w.shape, status |-> w.status,
   records |-> IF w.carries \in {"extract", "extract_bytes"} THEN w.carries ELSE "no"]

(* A wrapped function is called. The with block of an "after" wrapper      *)
(* holds no call.                                                          *)
Begin(t, w, c) ==
  /\ frames[t] # <<>> => Last(frames[t]).shape # "after"
  /\ \/ w.ignorable /\ c = NoHeader /\ IgnoredMethod(t)
     \/ w.kind = "Entry" /\ OpenEntry(t, w, c)
     \/ w.kind = "Exit" /\ c = NoHeader /\ OpenExit(t, w)
     \/ w.kind = "Local" /\ c = NoHeader /\ NewPlain(t, "Local")
  /\ frames' = [frames EXCEPT ![t] = Append(@, Running(w))]
  /\ general' = IF w.general THEN general \cup {Entered(t)} ELSE general \ {Entered(t)}
  /\ errs' = AfterStart(Entered(t))
  /\ UNCHANGED <<failed, hidden, lost>>

(* The agent's own traffic, empty polls and the like: nothing is traced.   *)
PassThrough == {w \in Wrapper : w.bypass} # {} /\ UNCHANGED all

(* The records of a poll. Bytes put through str() give a header that can   *)
(* be parsed unless it holds correlation.                                  *)
Record(t, c) ==
  /\ frames[t] # <<>>
  /\ \/ Last(frames[t]).records = "extract"
     \/ Last(frames[t]).records = "extract_bytes" /\ c.corr = <<>>
  /\ Extract(t, c)
  /\ UNCHANGED wvars

-----------------------------------------------------------------------------
(* The status of the answer, as the wrapper sees it.                       *)
StatusBad(w, out) ==
  CASE w.status = "returned" -> out.raised = "no" /\ out.answer = "bad"
    [] w.status = "finally" -> out.answer = "bad"
    [] w.status = "default" -> out.answer # "good"
    [] OTHER -> FALSE

(* Span.__exit__ marks the span for an Exception only; a span that is      *)
(* stopped by a callback has no __exit__.                                  *)
Marked(w, out) ==
  (w.shape # "events" /\ out.raised = "exception") \/ StatusBad(w, out)

(* An Exception left the call, or it came back with an error status.       *)
WentWrong(out) ==
  out.raised = "exception" \/ (out.raised = "no" /\ out.answer = "bad")

(* How a wrapper of each shape may end: a with block without a call cannot *)
(* fail, except on a header it cannot parse, and the framework turns what  *)
(* a handler raised into an answer before it calls on_response. Without a  *)
(* look at the status every answer is a good one.                          *)
MayEnd(w, out) ==
  /\ w.shape = "after" => /\ out.answer = "good" /\ out.raised # "base"
                          /\ out.raised = "exception" => w.records = "extract_bytes"
  /\ w.shape = "events" => out.raised = "no"
  /\ out.raised = "no" => out.answer # "none"
  /\ w.status = "no" => out.answer = "good"

(* The i-th wrapper of t ends. Calls end innermost first; a generator ends *)
(* when it is exhausted or closed, which may be at any time.               *)
Finish(t, i, out) ==
  /\ i \in DOMAIN frames[t]
  /\ \/ frames[t][i].shape = "generator"
     \/ \A j \in i + 1 .. Len(frames[t]) : frames[t][j].shape = "generator"
  /\ LET w == frames[t][i]
         s == blocks[t][i]
         over == IF spans[s].depth = 1 THEN {s} ELSE {}
         marked == IF Marked(w, out) THEN errs \cup {s} ELSE errs
         wrong == IF WentWrong(out) THEN failed \cup {s} ELSE failed
     IN /\ MayEnd(w, out)
        /\ errs' = marked \ over
        /\ failed' = wrong \ over
        /\ general' = general \ over
        /\ hidden' = hidden \cup ((wrong \ marked) \cap over)
  /\ CloseBlock(t, i)
  /\ frames' = [frames EXCEPT ![t] = RemoveAt(@, i)]
  /\ UNCHANGED <<pvars, lost>>

(* The connection is gone before the response: on_response is not called,  *)
(* and the span stays on the stack of the connection's task.               *)
NoResponse(t) ==
  /\ frames[t] # <<>> /\ Last(frames[t]).shape = "events"
  /\ frames' = [frames EXCEPT ![t] = Front(@)]
  /\ blocks' = [blocks EXCEPT ![t] = Front(@)]
  /\ lost' = lost \cup {spans[Last(blocks[t])].ctx}
  /\ UNCHANGED <<mode, live, spans, ctxs, stack, unlinked, pvars, general, errs, failed, hidden>>

(* Hooks into the error handling and the response of a framework mark the  *)
(* active span; a second mark changes nothing.                             *)
MarkActive(t) ==
  /\ frames[t] # <<>> /\ Last(frames[t]).shape # "after"
  /\ Peek(t) # NoSpan /\ Peek(t) \notin failed
  /\ errs' = errs \cup {Peek(t)}
  /\ failed' = failed \cup {Peek(t)}
  /\ UNCHANGED <<vars, pvars, frames, general, hidden, lost>>

flask_handle_user_exception(t) == MarkActive(t)
flask_handle_exception(t) == MarkActive(t)
django_handle_uncaught_exception(t) == MarkActive(t)
tornado_log_exception(t) == MarkActive(t)
sanic_error_handler_response(t) == MarkActive(t)
sanic_format_http1_response(t) == MarkActive(t)

Hook(t) ==
  \/ flask_handle_user_exception(t) \/ flask_handle_exception(t)
  \/ django_handle_uncaught_exception(t) \/ tornado_log_exception(t)
  \/ sanic_error_handler_response(t) \/ sanic_format_http1_response(t)

WNext == PassThrough \/ \E t \in Task :
  \/ \E w \in Wrapper, c \in wire \cup {NoHeader} : Begin(t, w, c)
  \/ \E c \in wire \cup {NoHeader} : Record(t, c)
  \/ \E i \in 1 .. MaxDepth, out \in Outcome : Finish(t, i, out)
  \/ NoResponse(t) \/ Hook(t)

WSpec == WInit /\ [][WNext]_all

-----------------------------------------------------------------------------
(* Properties.                                                             *)

(* Between requests nothing is left behind: when no wrapper runs, every    *)
(* segment was archived exactly once and the stacks are empty, in whatever *)
(* order suspended generators were closed. Only a segment with a request   *)
(* that never got its on_response is not reported.                         *)
RequestsReported ==
  (\A t \in Task : frames[t] = <<>>) =>
    /\ \A c \in CtxNo \ lost : ctxs[c].nspans = 0 /\ (ctxs[c].noop \/ ctxs[c].archived = 1)
    /\ \A t \in Task : \A s \in Range(stack[t]) : spans[s].ctx \in lost

(* No failure is hidden: a span through which an Exception went, or whose  *)
(* wrapper saw an error status, is reported with the error flag, also when *)
(* another wrapper of the request joined the span later.                   *)
ErrorsShown == hidden = {}

(* What runs inside an ignored or unsampled call is not traced: a span     *)
(* opened while such a call is open is a NoopSpan.                         *)
DarkInside ==
  \A t \in Task : \A i, j \in DOMAIN blocks[t] :
    i < j /\ ctxs[spans[blocks[t][i]].ctx].noop => ctxs[spans[blocks[t][j]].ctx].noop
=============================================================================
