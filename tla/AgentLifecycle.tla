--------------------------- MODULE AgentLifecycle ----------------------------
(***************************************************************************)
(* The life of the sync agent over the processes of a host application:    *)
(* start, stop, the pre-fork master, fork with and without the fork hooks, *)
(* exit, and the reporter threads that outlive a stop().                   *)
(*                                                                         *)
(* A process is its pid. fork() copies the agent object and every flag of  *)
(* it, and none of the threads. One thread stands for the reporter threads *)
(* of one bootstrap; it re-reads self._finished at the top of every turn.  *)
(***************************************************************************)
EXTENDS Integers, FiniteSets

CONSTANTS Pid,          \* process ids, each used once
          ForkSupport,  \* config.agent_experimental_fork_support
          MaxBoots      \* bound: bootstraps in the line of a process

ASSUME LifecycleAssumption ==
  /\ Pid \subseteq Nat \ {0} /\ ForkSupport \in BOOLEAN /\ MaxBoots \in Nat

NoPid == 0

VARIABLES alive,    \* running processes
          exited,   \* processes that have exited
          agent,    \* the agent object of each process
          threads   \* the reporter threads of each process

vars == <<alive, exited, agent, threads>>

(***************************************************************************)
(* event numbers the Event objects: self._finished is number event, the    *)
(* set ones are in set. bootPid is the process that ran __bootstrap last,  *)
(* atexit the number of registered __fini handlers, finalized the number   *)
(* of runs of config.finalize() and plugins.install().                     *)
(***************************************************************************)
NewAgent == [started |-> FALSE, startedPid |-> NoPid, reporting |-> FALSE,
             hooks |-> FALSE, finiRegistered |-> FALSE, atexit |-> 0,
             finalized |-> 0, event |-> 0, set |-> {}, bootPid |-> NoPid]

Init ==
  /\ \E p \in Pid : alive = {p}
  /\ exited = {}
  /\ agent = [p \in Pid |-> NewAgent]
  /\ threads = [p \in Pid |-> {}]

-----------------------------------------------------------------------------
(* Faulty variants for the mutation runs.                                  *)

RegisterFiniAlways(a) == [a EXCEPT !.finiRegistered = TRUE, !.atexit = @ + 1]
BootstrapOldEvent(p, a) == [a EXCEPT !.reporting = TRUE, !.bootPid = p]
TurnGoesOnOwnEvent(p, t) == t.event \notin agent[p].set \/ agent[p].event # t.event

-----------------------------------------------------------------------------
(* __init_instrumentation: skipped by forked children, which inherit the   *)
(* patches and the flag.                                                   *)
Instrument(a) ==
  IF a.started THEN a ELSE [a EXCEPT !.started = TRUE, !.finalized = @ + 1]

ArmHooks(a) == [a EXCEPT !.hooks = @ \/ ForkSupport]

(* __bootstrap: new queues, a new protocol, a new Event, new threads.      *)
Bootstrap(p, a) == [a EXCEPT !.event = @ + 1, !.reporting = TRUE, !.bootPid = p]

(* atexit registrations are fork-inherited: one per lineage.               *)
RegisterFini(a) ==
  IF a.finiRegistered THEN a
  ELSE [a EXCEPT !.finiRegistered = TRUE, !.atexit = @ + 1]

WithinBounds(a) == a.event < MaxBoots /\ a.finalized < MaxBoots

(* start() raises when the agent was already started in this process.      *)
MayStart(p, a) == ~(a.started /\ a.startedPid = p)

Entered(p, a) == [Instrument(a) EXCEPT !.startedPid = p]
Started(p, a) == ArmHooks(RegisterFini(Bootstrap(p, Entered(p, a))))
StartedThread(a) == [event |-> a.event, turn |-> "top"]

Start(p) ==
  /\ p \in alive /\ MayStart(p, agent[p]) /\ WithinBounds(agent[p])
  /\ LET a == Started(p, agent[p])
     IN /\ agent' = [agent EXCEPT ![p] = a]
        /\ threads' = [threads EXCEPT ![p] = @ \cup {StartedThread(a)}]
  /\ UNCHANGED <<alive, exited>>

(* The protocol's constructor raises (bad address or TLS material): start()*)
(* leaves the agent started and not bootstrapped.                          *)
StartFails(p) ==
  /\ p \in alive /\ MayStart(p, agent[p]) /\ WithinBounds(agent[p])
  /\ agent' = [agent EXCEPT ![p] = Entered(p, @)]
  /\ UNCHANGED <<alive, exited, threads>>

StartPreforkMaster(p) ==
  /\ p \in alive /\ WithinBounds(agent[p])
  /\ agent' = [agent EXCEPT ![p] = ArmHooks(Entered(p, @))]
  /\ UNCHANGED <<alive, exited, threads>>

(* __fini sets the current Event, unless this agent never bootstrapped.    *)
Fini(a) == IF a.reporting THEN [a EXCEPT !.set = @ \cup {a.event}] ELSE a

Stop(p) ==
  /\ p \in alive
  /\ agent' = [agent EXCEPT ![p] =
                [Fini(@) EXCEPT !.finiRegistered = FALSE, !.atexit = 0,
                                !.reporting = FALSE, !.started = FALSE]]
  /\ UNCHANGED <<alive, exited, threads>>

(* os.fork(): with the hooks armed the child calls start() before it runs  *)
(* anything else; an error of start() in the hook is printed and ignored.  *)
Fork(p, c) ==
  /\ p \in alive /\ c \in Pid \ (alive \cup exited)
  /\ alive' = alive \cup {c}
  /\ \/ /\ agent[p].hooks /\ WithinBounds(agent[p])
        /\ LET a == Started(c, agent[p])
           IN /\ agent' = [agent EXCEPT ![c] = a]
              /\ threads' = [threads EXCEPT ![c] = {StartedThread(a)}]
     \/ /\ agent[p].hooks /\ WithinBounds(agent[p])
        /\ agent' = [agent EXCEPT ![c] = Entered(c, agent[p])]
        /\ UNCHANGED threads
     \/ /\ ~agent[p].hooks
        /\ agent' = [agent EXCEPT ![c] = agent[p]]
        /\ UNCHANGED threads
  /\ UNCHANGED exited

(* The interpreter exits: every registered __fini runs, daemon threads die.*)
Exit(p) ==
  /\ p \in alive
  /\ alive' = alive \ {p} /\ exited' = exited \cup {p}
  /\ agent' = [agent EXCEPT ![p] = IF @.atexit > 0 THEN Fini(@) ELSE @]
  /\ threads' = [threads EXCEPT ![p] = {}]

-----------------------------------------------------------------------------
(* report_with_backoff: "while not self._finished.is_set()" looks at the   *)
(* Event that is current now. A turn begun after the thread's own Event    *)
(* was set is a zombie turn.                                               *)
TurnGoesOn(p, t) == agent[p].event \notin agent[p].set

Turn(p, t) ==
  /\ t \in threads[p] /\ t.turn = "top"
  /\ threads' = [threads EXCEPT ![p] =
       (@ \ {t}) \cup
       IF ~TurnGoesOn(p, t) THEN {}
       ELSE {[t EXCEPT !.turn = IF t.event \in agent[p].set THEN "zombie" ELSE "busy"]}]
  /\ UNCHANGED <<alive, exited, agent>>

TurnEnds(p, t) ==
  /\ t \in threads[p] /\ t.turn # "top"
  /\ threads' = [threads EXCEPT ![p] = (@ \ {t}) \cup {[t EXCEPT !.turn = "top"]}]
  /\ UNCHANGED <<alive, exited, agent>>

Process(p) == Start(p) \/ StartFails(p) \/ StartPreforkMaster(p) \/ Stop(p) \/ Exit(p)

Next == \E p \in Pid :
          \/ Process(p)
          \/ \E c \in Pid : Fork(p, c)
          \/ \E t \in threads[p] : Turn(p, t) \/ TurnEnds(p, t)

Spec == Init /\ [][Next]_vars

(* The interpreter schedules every reporter thread: one that is at the top *)
(* of its loop goes on. Nothing is assumed of the calls a turn makes.      *)
Fairness == \A p \in Pid : \A e \in 1 .. MaxBoots :
              WF_vars(\E t \in threads[p] : t.event = e /\ Turn(p, t))

FairSpec == Spec /\ Fairness

-----------------------------------------------------------------------------
(* Properties.                                                             *)

(* Whatever forks, stops and restarts led to it, a process that reports    *)
(* from its own bootstrap runs __fini exactly once at exit.                *)
FiniOncePerProcess ==
  \A p \in alive : /\ agent[p].atexit <= 1
                   /\ agent[p].reporting /\ agent[p].bootPid = p => agent[p].atexit = 1

(* A process that reports from its own bootstrap has a reporter thread     *)
(* that will not find its Event set: restarts and forks never leave queues *)
(* that fill up behind dead reporters.                                     *)
ReportingHasReporter ==
  \A p \in alive : agent[p].reporting /\ agent[p].bootPid = p =>
    \E t \in threads[p] : t.event = agent[p].event /\ agent[p].event \notin agent[p].set

(* The calls of the reporter threads of p return. A gRPC call has a        *)
(* deadline and a Kafka send is bounded; an HTTP post has no timeout, so   *)
(* over HTTP this is an assumption about the collector.                    *)
CallsReturn(p) == \A e \in 1 .. MaxBoots :
                    WF_vars(\E t \in threads[p] : t.event = e /\ TurnEnds(p, t))

(* A process that is never started again after its Event was set begins no *)
(* further turn from some time on, in the reporters of earlier bootstraps  *)
(* too: what is left are threads inside a call, and if the calls return    *)
(* the process runs out of reporter threads.                               *)
StoppedRunsOut ==
  \A p \in Pid :
    <>[](agent[p].event \in agent[p].set) =>
      /\ <>[](\A t \in threads[p] : t.turn # "top")
      /\ CallsReturn(p) => <>[](threads[p] = {})

(* Not true of this code, see the README:                                  *)
(* "Stop reporter loops first": a reporter whose Event was set begins no   *)
(* further turn.                                                           *)
StoppedReportersStop == \A p \in Pid : \A t \in threads[p] : t.turn # "zombie"
=============================================================================
