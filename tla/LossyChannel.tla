---------------------------- MODULE LossyChannel -----------------------------
(***************************************************************************)
(* What a telemetry queue of the agent promises to the host: an item that  *)
(* is archived is pending until it is settled, exactly once, as delivered  *)
(* to the OAP or as lost ("best-effort; never retried"). Nothing settled   *)
(* comes back, nothing is delivered that was not archived.                 *)
(***************************************************************************)
EXTENDS Integers

CONSTANT MaxItems

VARIABLES accepted,   \* number of items archived, numbered in that order
          pending,    \* archived, not yet settled
          delivered,  \* settled: the OAP has received them
          lost        \* settled: given up

vars == <<accepted, pending, delivered, lost>>

Init == accepted = 0 /\ pending = {} /\ delivered = {} /\ lost = {}

Accept ==
  /\ accepted < MaxItems
  /\ accepted' = accepted + 1
  /\ pending' = pending \cup {accepted + 1}
  /\ UNCHANGED <<delivered, lost>>

(* The buffer is full.                                                     *)
Refuse ==
  /\ accepted < MaxItems
  /\ accepted' = accepted + 1
  /\ lost' = lost \cup {accepted + 1}
  /\ UNCHANGED <<pending, delivered>>

(* A batch ends: d of it arrived, x of it did not.                         *)
Settle ==
  /\ \E d, x \in SUBSET pending :
       /\ d \cap x = {}
       /\ pending' = pending \ (d \cup x)
       /\ delivered' = delivered \cup d
       /\ lost' = lost \cup x
  /\ UNCHANGED accepted

Next == Accept \/ Refuse \/ Settle

Spec == Init /\ [][Next]_vars
=============================================================================
