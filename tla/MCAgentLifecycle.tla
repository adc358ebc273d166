-------------------------- MODULE MCAgentLifecycle ---------------------------
(* Finite instances of AgentLifecycle: Pid, ForkSupport and MaxBoots are    *)
(* given by each configuration.                                            *)
EXTENDS AgentLifecycle
=============================================================================
