--------------------------- MODULE CommandService ----------------------------
(***************************************************************************)
(* CommandService: the thread that queries the OAP receives commands, the  *)
(* dispatch thread executes them, and a cache of serial numbers keeps a    *)
(* command the OAP repeats from being executed twice. Executing a command  *)
(* is left to the module that extends this one.                            *)
(***************************************************************************)
EXTENDS Integers, Sequences, FiniteSets, SequencesExt

CONSTANTS Serial,      \* serial numbers of the commands of the OAP
          CacheLen,    \* maxlen of CommandSerialNumberCache
          MaxReceived  \* bound: commands received

ASSUME CommandAssumption == CacheLen \in Nat \ {0} /\ MaxReceived \in Nat

NoSerial == "none"

VARIABLES commands,    \* the queue of received commands
          cache,       \* serial numbers of the latest executed commands
          dispatching, \* the command the dispatch thread holds, or NoSerial
          received,    \* number of commands received
          executed     \* history: the commands executed, in order

commandVars == <<commands, cache, dispatching, received, executed>>

CommandInit ==
  /\ commands = <<>> /\ cache = <<>> /\ dispatching = NoSerial
  /\ received = 0 /\ executed = <<>>

(* Faulty variants for the mutation runs.                                  *)
IsExecutedNever(s) == FALSE

IsExecuted(s) == s \in Range(cache)

(* receive_command: a command that was executed is ignored, an unknown one *)
(* never gets this far.                                                    *)
Receive(s) ==
  /\ received < MaxReceived
  /\ received' = received + 1
  /\ commands' = IF IsExecuted(s) THEN commands ELSE Append(commands, s)
  /\ UNCHANGED <<cache, dispatching, executed>>

(* dispatch: the next command, dropped when its number is in the cache.    *)
DispatchGet ==
  /\ commands # <<>> /\ dispatching = NoSerial
  /\ commands' = Tail(commands)
  /\ dispatching' = IF IsExecuted(Head(commands)) THEN NoSerial ELSE Head(commands)
  /\ UNCHANGED <<cache, received, executed>>

(* deque(maxlen): a full cache forgets its oldest number.                  *)
Remembered(s) ==
  Append(IF Len(cache) = CacheLen THEN Tail(cache) ELSE cache, s)

DispatchExecuted ==
  /\ dispatching # NoSerial
  /\ executed' = Append(executed, dispatching)
  /\ cache' = Remembered(dispatching)
  /\ dispatching' = NoSerial
  /\ UNCHANGED <<commands, received>>

(* "don't execute same command twice": a command the OAP repeats, also     *)
(* while its first copy is still queued or executing, is executed once     *)
(* unless CacheLen others were executed in between.                        *)
ExecutedOnce ==
  \A i, j \in DOMAIN executed :
    i < j /\ executed[i] = executed[j] =>
      Cardinality({executed[k] : k \in i + 1 .. j - 1}) >= CacheLen
=============================================================================
