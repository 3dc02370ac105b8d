------------------------------ MODULE BstEngine ------------------------------
(***************************************************************************)
(* The BST engine of one unit: the worker thread that takes requests off   *)
(* its message queue one at a time, the feature configuration with its     *)
(* periodic statistics timer (bst_config_feature_set), the congestion-     *)
(* drop-counter request table with one timer per slot                      *)
(* (bst_get_cgsn_drp_ctrs, bst_cancel_request), and the system timer       *)
(* thread that posts a periodic request whenever an armed timer fires.     *)
(*                                                                         *)
(* The REST handlers and the timer callback only post to the queue         *)
(* (bst_send_request); every handler runs to completion on the worker      *)
(* thread, so a handler is one step.  The drop-counter values and the      *)
(* statistics snapshot are abstracted to a count of collections.           *)
(***************************************************************************)
EXTENDS Naturals, Sequences, FiniteSets, BstTimer

CONSTANTS
    Ids,                   \* request ids a client uses (the parser allows 1..100000)
    DropIntervals,         \* non-zero drop-counter intervals (the parser allows 1..3600)
    MaxRequests,           \* BVIEW_MAX_REQUESTS, the slots of drop_ctrs_db
    DefaultPluginInterval, \* BVIEW_BST_DEFAULT_PLUGIN_INTERVAL
    StatsTimer,            \* the slot bst_collection_timer of the unit
    ClientRequests,        \* the requests the REST clients may post
    QueueBound,            \* capacity of the BST message queue
    MaxClientReqs,         \* bound on the number of client posts
    MaxCollects,           \* collections counted per id (saturating)
    SbMayFail              \* sbapi_bst_config_get/set can return an error

ASSUME /\ Ids \subseteq Nat \ {0} /\ DropIntervals \subseteq Nat \ {0}
       /\ MaxRequests \in Nat \ {0}
       /\ DefaultPluginInterval \in Nat \ {0}
       /\ QueueBound \in Nat \ {0} /\ MaxClientReqs \in Nat
       /\ MaxCollects \in Nat \ {0} /\ SbMayFail \in BOOLEAN

\* Indices of drop_ctrs_db.
Slots == 0..MaxRequests-1

\* The timer slots: the statistics timer and one per table slot.
TimerSlots == {StatsTimer} \cup Slots

VARIABLES
    cfg,      \* BVIEW_BST_CONFIG_PARAMS_t: collectionInterval, sendAsyncReports, bstEnable
    hw,       \* the asic's bst mode as sbapi_bst_config_set last programmed it
    db,       \* drop_ctrs_db: id, req.intrvl, in_use of each slot
    timers,   \* the timer slots and the system timers (module BstTimer)
    queue,    \* the BST message queue
    sent,     \* client posts so far
    collects, \* bst_collect_cgsn_drop_counters calls per request id
    reports   \* periodic GET_REPORT collections

vars == <<cfg, hw, db, timers, queue, sent, collects, reports>>

\* A free table entry after memset.
ZeroEntry == [id |-> 0, intrvl |-> 0, inUse |-> FALSE]

\* The periodic request a timer's context turns into (bst_periodic_collection_cb).
TimerMsg(ctx) == [type |-> ctx.cmd, periodic |-> TRUE, id |-> ctx.index]

TypeOK ==
    /\ cfg \in [collectionInterval : Nat, sendAsyncReports : BOOLEAN, bstEnable : BOOLEAN]
    /\ hw \in [enable : BOOLEAN, period : Nat]
    /\ db \in [Slots -> [id : {0} \cup Ids, intrvl : Nat, inUse : BOOLEAN]]
    /\ timers.slot \in [TimerSlots -> [inUse : BOOLEAN,
                                       ctx : [cmd : TimerCmds, index : {0} \cup Ids],
                                       h : Handles \cup {NoHandle}]]
    /\ timers.os \in [Handles -> {NoTimer} \cup [owner : TimerSlots, ivl : Nat]]
    /\ Len(queue) <= QueueBound
    /\ sent \in 0..MaxClientReqs
    /\ collects \in [Ids -> 0..MaxCollects]
    /\ reports \in 0..MaxCollects

\* Process start: defaults of the config, an empty table, no timers.
Init ==
    /\ cfg = [collectionInterval |-> DefaultPluginInterval,
              sendAsyncReports |-> FALSE, bstEnable |-> FALSE]
    /\ hw = [enable |-> FALSE, period |-> DefaultPluginInterval]
    /\ db = [s \in Slots |-> ZeroEntry]
    /\ timers = [slot |-> [s \in TimerSlots |-> ZeroTimerSlot],
                 os |-> [h \in Handles |-> NoTimer]]
    /\ queue = <<>>
    /\ sent = 0
    /\ collects = [i \in Ids |-> 0]
    /\ reports = 0

(***************************************************************************)
(* Posting to the queue: a REST handler, or the timer callback.            *)
(***************************************************************************)

\* Mutant: a send that never finds the queue full.
PostUnbounded(m) == queue' = Append(queue, m)

\* bst_send_request: the message is lost when the queue is full.
Post(m) == queue' = IF Len(queue) < QueueBound THEN Append(queue, m) ELSE queue

\* A REST handler (bstjson_*_impl) posts a client request.
ClientPost ==
    /\ sent < MaxClientReqs
    /\ \E m \in ClientRequests : Post(m)
    /\ sent' = sent + 1
    /\ UNCHANGED <<cfg, hw, db, timers, collects, reports>>

\* The system timer h fires: the callback posts a periodic request built
\* from the context the timer points to, as that context is now.
TimerFire(h) ==
    /\ timers.os[h] # NoTimer
    /\ Post(TimerMsg(timers.slot[timers.os[h].owner].ctx))
    /\ UNCHANGED <<cfg, hw, db, timers, sent, collects, reports>>

(***************************************************************************)
(* Handlers run by the BST worker thread.                                  *)
(***************************************************************************)

\* The hardware collection period: 0 or above the default is the default.
PluginInterval(i) ==
    IF i = 0 \/ i > DefaultPluginInterval THEN DefaultPluginInterval ELSE i

\* bst_config_feature_set.  Under the write lock: a changed interval asks
\* for a timer update; with SND_ASYNC_REP set, true turns reports on (a
\* change asks for a timer update, and an update re-adds the timer) and
\* false deletes the timer.  Then, only with ENABLE in the mask, read the
\* asic mode and program it; bstEnable follows a successful set.
\* A masked interval that differs from the configured one.
IntervalChanged(m) ==
    "interval" \in m.mask /\ cfg.collectionInterval # m.interval

\* Mutant: the false-to-true change of sendAsyncReports does not ask for a
\* timer update.
TimerUpdateReqdIntervalOnly(m) == IntervalChanged(m)

\* timerUpdateReqd of bst_config_feature_set: the interval changed, or
\* asynchronous reports turn on.
TimerUpdateReqd(m) ==
    \/ IntervalChanged(m)
    \/ "async" \in m.mask /\ m.async /\ ~cfg.sendAsyncReports

\* Mutant: bstEnable is stored with the other settings, before the asic
\* is programmed.
StoredEnableEarly(m, programmed) ==
    IF "enable" \in m.mask THEN m.enable ELSE cfg.bstEnable

\* The bstEnable bst_config_feature_set leaves: the request's once
\* sbapi_bst_config_set succeeded, the old one otherwise.
StoredEnable(m, programmed) == IF programmed THEN m.enable ELSE cfg.bstEnable

ConfigFeatureSet(m) ==
    LET interval == IF IntervalChanged(m) THEN m.interval ELSE cfg.collectionInterval
        asyncOn == "async" \in m.mask /\ m.async
        timerUpdateReqd == TimerUpdateReqd(m)
        async == IF "async" \in m.mask THEN m.async ELSE cfg.sendAsyncReports
        reportCtx == [timers.slot[StatsTimer].ctx EXCEPT !.cmd = "report"]
    IN  \E delOk \in Outcomes(DeleteMayFail), addOk \in Outcomes(AddMayFail),
           getOk \in Outcomes(SbMayFail), setOk \in Outcomes(SbMayFail) :
           LET programmed == "enable" \in m.mask /\ getOk /\ setOk
           IN  /\ timers' =
                    CASE asyncOn /\ timerUpdateReqd ->
                           TimerAdd(timers, StatsTimer, reportCtx, interval, delOk, addOk)
                      [] "async" \in m.mask /\ ~m.async ->
                           TimerDelete(timers, StatsTimer, delOk)
                      [] OTHER -> timers
               /\ hw' = IF programmed
                        THEN [enable |-> m.enable, period |-> PluginInterval(interval)]
                        ELSE hw
               /\ cfg' = [collectionInterval |-> interval,
                          sendAsyncReports |-> async,
                          bstEnable |-> StoredEnable(m, programmed)]

\* bst_get_report for a periodic GET_REPORT: one collection of the snapshot.
PeriodicReport ==
    /\ reports' = IF reports < MaxCollects THEN reports + 1 ELSE reports
    /\ UNCHANGED <<cfg, hw, db, timers, collects>>

\* bst_drop_ctrs_db_get_rec_index: the slots whose id matches, in_use or not.
RecIndex(id) == {s \in Slots : db[s].id = id}

\* bst_drop_ctrs_db_get_free_index: the slots not in use.
FreeIndex == {s \in Slots : ~db[s].inUse}

\* The first slot of a non-empty set, as the code's loops scan from 0.
First(S) == CHOOSE s \in S : \A t \in S : s <= t

\* bst_collect_cgsn_drop_counters: one collection recorded against id.
Collect(id) ==
    collects' = [collects EXCEPT ![id] = IF @ < MaxCollects THEN @ + 1 ELSE @]

\* Mutant: the context index is the table slot rather than the request id.
DropTimerCtxSlot(ii, id) == [cmd |-> "cgsn", index |-> ii]

\* The context bst_periodic_collection_timer_add fills for the timer of
\* slot ii: the drop-counter command and the id stored in the slot.
DropTimerCtx(ii, id) == [cmd |-> "cgsn", index |-> id]

\* Mutant: no check for an id already in the table.
RegisterRejectedNoDup(m) == FreeIndex = {}

\* The early returns of the registration path: ALREADY_CONFIGURED when the
\* id is in the table, FAILURE when there is no free slot.
RegisterRejected(m) == RecIndex(m.id) # {} \/ FreeIndex = {}

\* Mutant: every request is stored, the one-shot ones included.
IsPeriodicAlways(m) == TRUE

\* A request with a non-zero interval is stored and gets a timer.
IsPeriodic(m) == m.intrvl # 0

\* bst_get_cgsn_drp_ctrs, non-periodic request: after the early returns, a
\* non-zero interval stores the request in the first free slot and starts
\* its timer (the result is ignored), and the counters are collected.
RegisterDropCtrs(m) ==
    IF RegisterRejected(m)
    THEN UNCHANGED <<db, timers, collects>>
    ELSE LET ii == First(FreeIndex) IN
         /\ IF IsPeriodic(m)
            THEN /\ db' = [db EXCEPT ![ii] = [id |-> m.id, intrvl |-> m.intrvl, inUse |-> TRUE]]
                 /\ \E delOk \in Outcomes(DeleteMayFail), addOk \in Outcomes(AddMayFail) :
                       timers' = TimerAdd(timers, ii, DropTimerCtx(ii, m.id),
                                          m.intrvl, delOk, addOk)
            ELSE UNCHANGED <<db, timers>>
         /\ Collect(m.id)

\* Mutant: the periodic path returns before it collects.
PeriodicDropCtrsNoCollect(m) == UNCHANGED <<db, timers, collects>>

\* Mutant: the periodic path collects the id of the tick without looking it
\* up in the table.
PeriodicDropCtrsNoLookup(m) ==
    /\ Collect(m.id)
    /\ UNCHANGED <<db, timers>>

\* bst_get_cgsn_drp_ctrs, periodic request: look the id up and collect
\* with the stored request; an unknown id returns FAILURE.
PeriodicDropCtrs(m) ==
    /\ IF RecIndex(m.id) # {}
       THEN Collect(db[First(RecIndex(m.id))].id)
       ELSE UNCHANGED collects
    /\ UNCHANGED <<db, timers>>

\* Mutant: the entry is cleared without deleting its timer first.
CancelRequestNoDelete(id) ==
    /\ IF RecIndex(id) # {}
       THEN LET index == First(RecIndex(id)) IN
            /\ timers' = [timers EXCEPT !.slot[index] = ZeroTimerSlot]
            /\ db' = [db EXCEPT ![index] = ZeroEntry]
       ELSE UNCHANGED <<db, timers>>
    /\ UNCHANGED collects

\* bst_cancel_request: when the id is found, delete the slot's timer (the
\* result is ignored) and memset the whole entry, its timer slot included;
\* otherwise NOT_CONFIGURED.
CancelRequest(id) ==
    /\ IF RecIndex(id) # {}
       THEN LET index == First(RecIndex(id)) IN
            \E delOk \in Outcomes(DeleteMayFail) :
               /\ timers' = [TimerDelete(timers, index, delOk)
                               EXCEPT !.slot[index] = ZeroTimerSlot]
               /\ db' = [db EXCEPT ![index] = ZeroEntry]
       ELSE UNCHANGED <<db, timers>>
    /\ UNCHANGED collects

\* The worker thread takes the head of the queue and dispatches it on its
\* command; a context cleared by memset carries no command and is dropped.
Dispatch ==
    /\ queue # <<>>
    /\ queue' = Tail(queue)
    /\ LET m == Head(queue) IN
       \/ /\ m.type = "feature"
          /\ ConfigFeatureSet(m)
          /\ UNCHANGED <<db, collects, reports>>
       \/ /\ m.type = "cgsn" /\ ~m.periodic
          /\ RegisterDropCtrs(m)
          /\ UNCHANGED <<cfg, hw, reports>>
       \/ /\ m.type = "cgsn" /\ m.periodic
          /\ PeriodicDropCtrs(m)
          /\ UNCHANGED <<cfg, hw, reports>>
       \/ /\ m.type = "cancel"
          /\ CancelRequest(m.id)
          /\ UNCHANGED <<cfg, hw, reports>>
       \/ /\ m.type = "report"
          /\ PeriodicReport
       \/ /\ m.type = "none"
          /\ UNCHANGED <<cfg, hw, db, timers, collects, reports>>
    /\ UNCHANGED sent

Next ==
    \/ ClientPost
    \/ \E h \in Handles : TimerFire(h)
    \/ Dispatch

\* The worker thread always drains its queue.  The timer facility fires
\* every armed timer once per interval whatever the other timers do, so a
\* timer whose post finds room in the queue again and again is eventually
\* posted (strong fairness: a full queue only loses single firings).
\* Clients are under no obligation to post.
Fairness == WF_vars(Dispatch) /\ \A h \in Handles : SF_vars(TimerFire(h))

Spec == Init /\ [][Next]_vars /\ Fairness
(***************************************************************************)
(* Properties.                                                             *)
(***************************************************************************)

\* No two requests in use in drop_ctrs_db share an id: the registration
\* path of bst_get_cgsn_drp_ctrs rejects an id already in the table, and
\* the periodic and cancel paths, which look a request up by id, depend on
\* it.
UniqueRequestIds ==
    \A s, t \in Slots :
        s # t /\ db[s].inUse /\ db[t].inUse => db[s].id # db[t].id

\* Every armed system timer is the one its owning timer slot records as in
\* use, and a table slot has a timer exactly while its request is in use:
\* bst_cancel_request and the delete-before-add of
\* bst_periodic_collection_timer_add never leave a timer nobody owns.
TimersAccounted ==
    /\ \A h \in ArmedHandles(timers) :
          LET s == timers.os[h].owner
          IN  timers.slot[s].inUse /\ timers.slot[s].h = h
    /\ \A s \in Slots : timers.slot[s].inUse <=> db[s].inUse

\* The timer of a table slot in use carries the context of the request in
\* that slot, so that its firing collects that request: the context
\* bst_periodic_collection_timer_add fills is the request id, not the slot.
DropTimerContext ==
    \A s \in Slots :
        timers.slot[s].inUse => timers.slot[s].ctx = [cmd |-> "cgsn", index |-> db[s].id]

\* At most one armed timer delivers the periodic requests of an id, so a
\* request is collected once per interval (spec: "exactly one armed timer
\* ... no duplicate firings").
OneTimerPerRequest ==
    \A i \in Ids :
        Cardinality({h \in ArmedHandles(timers) :
                        timers.slot[timers.os[h].owner].ctx
                            = [cmd |-> "cgsn", index |-> i]}) <= 1

\* ConfigParams.bstEnable is the enable the asic was last programmed with:
\* bst_config_feature_set stores the interval and report settings before
\* it calls sbapi_bst_config_get and sbapi_bst_config_set, but bstEnable
\* only after the set succeeded, so a failed get or set leaves software and
\* asic in agreement.
EnableMatchesAsic == cfg.bstEnable = hw.enable

\* While asynchronous reports are on, the statistics timer is armed:
\* bst_config_feature_set adds it when reports turn on and deletes it only
\* when they turn off.
StatsTimerArmed ==
    cfg.sendAsyncReports => timers.slot[StatsTimer].inUse

\* While asynchronous reports are on, the statistics timer fires periodic
\* GET_REPORT requests: its context names the GET_REPORT command.
StatsTimerContext ==
    cfg.sendAsyncReports /\ timers.slot[StatsTimer].inUse
        => timers.slot[StatsTimer].ctx.cmd = "report"

\* While asynchronous reports are on, the statistics timer runs at the
\* configured collection interval (spec 4.3: re-armed whenever
\* collectionInterval changes while enabled).
StatsTimerInterval ==
    cfg.sendAsyncReports /\ timers.slot[StatsTimer].inUse
        => timers.os[timers.slot[StatsTimer].h].ivl = cfg.collectionInterval

\* A request registered with a non-zero interval is collected again and
\* again until it is cancelled: its timer fires, the worker looks the id
\* up and calls bst_collect_cgsn_drop_counters.
Registered(i) == \E s \in Slots : db[s].inUse /\ db[s].id = i

DropCollectProgress ==
    \A i \in Ids, n \in 0..MaxCollects-1 :
        (Registered(i) /\ collects[i] = n) ~> (collects[i] > n \/ ~Registered(i))

\* A drop-counter collection is made only for a request in the table or for
\* the client request being handled: a periodic tick the timer posted before
\* bst_cancel_request ran stays queued, and when the worker reaches it the
\* lookup by id finds no entry and collects nothing (spec 5: after a
\* cancellation no further firings occur).
CollectsOnlyRegistered ==
    [][\A i \in Ids :
          collects'[i] # collects[i] =>
              \/ Registered(i)
              \/ LET m == Head(queue)
                 IN  m.type = "cgsn" /\ ~m.periodic /\ m.id = i]_vars

\* The table as the abstract registry sees it: the requests in use.
Registry == INSTANCE DropCtrRegistry WITH Intervals <- DropIntervals,
                regs <- {<<db[s].id, db[s].intrvl>> : s \in {t \in Slots : db[t].inUse}}

\* The request table implements the abstract registry: registrations of a
\* new id with an interval join while a slot is free, a cancellation of
\* the id removes it, and nothing else (no periodic collection, timer
\* failure or feature request) changes the set of requests.
RegistryRefinement == Registry!RegSpec

=============================================================================
