------------------------------ MODULE BstTimer ------------------------------
(***************************************************************************)
(* TimerSubsystem of the BST engine (src/src/apps/bst/bst.c):              *)
(* bst_periodic_collection_timer_add and bst_periodic_collection_timer_   *)
(* delete over the system timer facility.                                  *)
(*                                                                         *)
(* The timer state is one record T with two fields:                        *)
(*   T.slot[s] : the BVIEW_BST_TIMER_t of timer slot s: in_use, the        *)
(*               callback context (cmd, index) and the handle bstTimer;    *)
(*   T.os[h]   : the system timer with handle h, NoTimer when h is free,   *)
(*               else the slot whose context it points to (the facility    *)
(*               keeps &timer_ptr->context, not a copy) and its interval.  *)
(* The operators are functions from one timer state to the next, so a      *)
(* handler that deletes and re-adds a timer in one step composes them.     *)
(***************************************************************************)
EXTENDS Naturals, FiniteSets

CONSTANTS
    Handles,        \* the handles the system timer facility can hand out
    NoHandle,       \* bstTimer of a slot that never held a timer
    NoTimer,        \* a free system timer handle
    DeleteMayFail,  \* system_timer_delete can return an error
    AddMayFail      \* system_timer_add can return an error

ASSUME /\ IsFiniteSet(Handles) /\ Handles \subseteq Nat
       /\ DeleteMayFail \in BOOLEAN /\ AddMayFail \in BOOLEAN

\* The commands a timer context can carry: none (cleared by memset),
\* BVIEW_BST_CMD_API_GET_REPORT and BVIEW_BST_CMD_API_GET_CGSN_DRP_CTRS.
TimerCmds == {"none", "report", "cgsn"}

\* A context after memset(&timer_ptr->context, 0, ...).
ZeroCtx == [cmd |-> "none", index |-> 0]

\* A slot after memset: not in use, cleared context, no handle.
ZeroTimerSlot == [inUse |-> FALSE, ctx |-> ZeroCtx, h |-> NoHandle]

\* The outcomes a system timer call may have.
Outcomes(mayFail) == IF mayFail THEN BOOLEAN ELSE {TRUE}

\* bst_periodic_collection_timer_delete: when the slot is in use, call
\* system_timer_delete; on success clear in_use and the context, on failure
\* only log, leaving the system timer armed and the slot in use.
TimerDelete(T, s, delOk) ==
    IF T.slot[s].inUse /\ delOk
    THEN [T EXCEPT !.slot[s] = [@ EXCEPT !.inUse = FALSE, !.ctx = ZeroCtx],
                   !.os[T.slot[s].h] = NoTimer]
    ELSE T

\* The handle system_timer_add hands out: the lowest free one.
FreeHandles(T) == {h \in Handles : T.os[h] = NoTimer}

\* bst_periodic_collection_timer_add: fill the slot's context, delete the
\* timer first when the slot is in use (a failure is only logged), then
\* system_timer_add a periodic timer that keeps a pointer to the slot's
\* context. It fails when the facility returns an error or has no free
\* handle; on success the slot is in use with the new handle.
TimerAdd(T, s, ctx, ivl, delOk, addOk) ==
    LET T1 == [T EXCEPT !.slot[s].ctx = ctx]
        T2 == IF T1.slot[s].inUse THEN TimerDelete(T1, s, delOk) ELSE T1
        free == FreeHandles(T2)
        h == CHOOSE x \in free : \A y \in free : x <= y
    IN  IF addOk /\ free # {}
        THEN [T2 EXCEPT !.slot[s] = [@ EXCEPT !.inUse = TRUE, !.h = h],
                        !.os[h] = [owner |-> s, ivl |-> ivl]]
        ELSE T2

\* The system timers that are armed.
ArmedHandles(T) == {h \in Handles : T.os[h] # NoTimer}
=============================================================================
