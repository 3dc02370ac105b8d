--------------------------- MODULE DropCtrRegistry ---------------------------
(***************************************************************************)
(* What the congestion-drop-counter request table promises (spec 4.4 and   *)
(* the DropCounterRequest entity): a bounded set of periodic requests,     *)
(* unique by id, that a registration of a new id with a non-zero interval  *)
(* joins while there is room and that a cancellation of the id leaves.     *)
(* The state is the set of <<id, interval>> pairs registered.              *)
(***************************************************************************)
EXTENDS Naturals, FiniteSets

CONSTANTS Ids,        \* request ids
          Intervals,  \* non-zero collection intervals
          MaxRequests \* room in the table

VARIABLE regs

\* The ids registered.
RegisteredIds == {p[1] : p \in regs}

RegTypeOK == regs \subseteq Ids \X Intervals

RegInit == regs = {}

\* A new id with a non-zero interval is registered while the table has room.
Register(id, ivl) ==
    /\ id \notin RegisteredIds
    /\ Cardinality(regs) < MaxRequests
    /\ regs' = regs \cup {<<id, ivl>>}

\* Cancelling an id removes its request.
Cancel(id) ==
    /\ id \in RegisteredIds
    /\ regs' = {p \in regs : p[1] # id}

RegNext ==
    \/ \E id \in Ids, ivl \in Intervals : Register(id, ivl)
    \/ \E id \in Ids : Cancel(id)

RegSpec == RegInit /\ [][RegNext]_regs
=============================================================================
