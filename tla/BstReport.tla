------------------------------ MODULE BstReport ------------------------------
(***************************************************************************)
(* The report records of one BST unit (src/src/apps/bst/bst.c and          *)
(* api/bst_json_encoder.c).                                                 *)
(*                                                                         *)
(* Statistics: three snapshot buffers under the roles current, active and   *)
(* backup.  bst_get_report clears the current buffer and fills it from      *)
(* sbapi_bst_snapshot_get; when the handler returns success the dispatcher  *)
(* rotates the roles (bst_update_data) and reports the active buffer.       *)
(* bst_clear_stats_set clears all three.  A buffer holds the number of the  *)
(* capture that filled it, 0 when cleared, Torn when the capture failed.    *)
(*                                                                         *)
(* Congestion drops: bst_collect_cgsn_drop_counters fills the current drop  *)
(* record from the asic, the record becomes the active one, and            *)
(* bst_json_encode_get_bst_cgsn_drop_counters sorts it for the top-N       *)
(* request types (bst_sort_records) and lists its non-zero counters.  The   *)
(* asic counters are fixed for a behaviour; a report is a sequence of drop  *)
(* entries in the order the encoder writes them.                           *)
(***************************************************************************)
EXTENDS Naturals, Sequences, FiniteSets, SequencesExt

CONSTANTS
    NumPorts,        \* asic_capabilities.numPorts
    NumCos,          \* BVIEW_BST_APP_NUM_COS_PORT, queues per port
    DropValues,      \* the values a hardware drop counter may hold
    DropProfiles,    \* the counter vectors the asic may present
    DropRequests,    \* the parsed get-bst-congestion-drop-counters commands
    ReportKinds,     \* FALSE: GET_REPORT; TRUE: TRIGGER_REPORT
    MaxCaptures,     \* bound on snapshot captures
    MaxDropReqs,     \* bound on drop-counter requests
    SnapshotMayFail, \* sbapi_bst_snapshot_get can return an error
    TriggerMayFail   \* bst_enable_on_trigger can return an error

ASSUME /\ NumPorts \in Nat \ {0} /\ NumCos \in Nat \ {0}
       /\ DropValues \subseteq Nat /\ 0 \in DropValues
       /\ ReportKinds \subseteq BOOLEAN
       /\ MaxCaptures \in Nat /\ MaxDropReqs \in Nat
       /\ SnapshotMayFail \in BOOLEAN /\ TriggerMayFail \in BOOLEAN

Ports == 1..NumPorts
Roles == {"current", "active", "backup"}
Buffers == 1..3
Torn == -1

SnapshotOutcomes == IF SnapshotMayFail THEN BOOLEAN ELSE {TRUE}
TriggerOutcomes  == IF TriggerMayFail THEN BOOLEAN ELSE {TRUE}

(***************************************************************************)
(* The drop-counter record: the flat array drop_ctrs and its index macros  *)
(* (BVIEW_BST_*_DROP_CTR_INDEX_GET): one slot per port for the total, then *)
(* one per port and queue for unicast, then for multicast.                 *)
(***************************************************************************)
TotalIndex(p)    == p
UcastIndex(p, q) == NumPorts + 1 + (p - 1) * NumCos + q
McastIndex(p, q) == NumPorts + 1 + NumPorts * NumCos + (p - 1) * NumCos + q
TotalCtrs == NumPorts + 1 + 2 * NumPorts * NumCos
CtrIndex  == 0..TotalCtrs - 1

\* A hardware counter: its type, port and queue (0 for a port total).
DropKeys ==
    [type : {"total"}, port : Ports, queue : {0}]
    \cup [type : {"ucast", "mcast"}, port : Ports, queue : 0..NumCos - 1]

KeyIndex(k) ==
    CASE k.type = "total" -> TotalIndex(k.port)
      [] k.type = "ucast" -> UcastIndex(k.port, k.queue)
      [] k.type = "mcast" -> McastIndex(k.port, k.queue)

ASSUME DropProfiles \subseteq [DropKeys -> DropValues]

\* A drop_ctrs entry after memset.
ZeroEntry == [type |-> "none", port |-> 0, queue |-> 0, ctr |-> 0]

VARIABLES
    asicDrops,   \* the asic's congestion-drop counters
    role,        \* stats_{current,active,backup}_record_ptr
    rec,         \* the contents of the three snapshot buffers
    captures,    \* snapshot captures so far
    reported,    \* the captures reported as active since the last clear
    drpCurr,     \* cgsn_drp_curr
    drpActive,   \* cgsn_drp_active
    report,      \* the drop entries of the last encoded response
    lastReq,     \* the command of the last drop-counter request
    drops        \* drop-counter requests so far

vars == <<asicDrops, role, rec, captures, reported, drpCurr, drpActive,
          report, lastReq, drops>>

DropEntries == [type : {"none", "total", "ucast", "mcast"}, port : 0..NumPorts,
                queue : 0..NumCos, ctr : DropValues]

NoReq == [type |-> "none"]

\* The shape of the state.  Its bounds on captures and requests are the
\* model's own, so no run checks it.
TypeOK ==
    /\ asicDrops \in [DropKeys -> DropValues]
    /\ role \in [Roles -> Buffers]
    /\ rec \in [Buffers -> {Torn} \cup 0..MaxCaptures]
    /\ captures \in 0..MaxCaptures
    /\ reported \in Seq(1..MaxCaptures)
    /\ drpCurr \in [CtrIndex -> DropEntries]
    /\ drpActive \in [CtrIndex -> DropEntries]
    /\ report \in Seq(DropEntries)
    /\ lastReq \in DropRequests \cup {NoReq}
    /\ drops \in 0..MaxDropReqs

(***************************************************************************)
(* Statistics snapshots.                                                   *)
(***************************************************************************)

\* Mutant: the rotation without the temporary, so the old backup is lost
\* and current and backup alias the same buffer.
UpdateDataNoTemp(r) ==
    [current |-> r.active, active |-> r.current, backup |-> r.active]

\* bst_update_data(BVIEW_BST_STATS): the old backup becomes current, the
\* active becomes backup and the current becomes active.
UpdateData(r) ==
    [current |-> r.backup, active |-> r.current, backup |-> r.active]

\* The dispatcher (bst_app.c): after a get-report handler returns success
\* it rotates the records; after an error the cycle is skipped (spec 4.5).
DispatchReport(rv, r) == IF rv THEN UpdateData(r) ELSE r

\* bst_get_report for GET_REPORT or TRIGGER_REPORT: clear the current
\* buffer and fill it from the asic under the lock.  A failed snapshot is
\* only logged; for a trigger report the result of bst_enable_on_trigger
\* replaces rv, so the handler's result is that call's.
GetReport(trigger, snapOk, trigOk) ==
    LET n  == captures + 1
        rv == IF trigger THEN trigOk ELSE snapOk
    IN  /\ rec' = [rec EXCEPT ![role.current] = IF snapOk THEN n ELSE Torn]
        /\ role' = DispatchReport(rv, role)
        /\ reported' = IF rv THEN Append(reported, n) ELSE reported
        /\ captures' = n

\* A get-bst-report, periodic or on demand, or a trigger report.
StatsReport ==
    /\ captures < MaxCaptures
    /\ \E trigger \in ReportKinds, snapOk \in SnapshotOutcomes,
          trigOk \in TriggerOutcomes :
          GetReport(trigger, snapOk, trigOk)
    /\ UNCHANGED <<asicDrops, drpCurr, drpActive, report, lastReq, drops>>

\* bst_clear_stats_set: clear backup, active and current under the lock,
\* then the asic counters (a failure there is only returned).
ClearStats ==
    /\ rec' = [b \in Buffers |-> 0]
    /\ reported' = <<>>
    /\ UNCHANGED <<asicDrops, role, captures, drpCurr, drpActive, report,
                   lastReq, drops>>

(***************************************************************************)
(* Congestion-drop counters.  A command has the fields of                  *)
(* BSTJSON_GET_BST_CGSN_DROP_CTRS_t the collection reads: type (req_type), *)
(* count, allPorts (the port list "all"), ports (port_list), queues        *)
(* (queue_list: bit q+1 for queue q) and qtype (queue_type).               *)
(***************************************************************************)
TopTypes == {"top", "topq"}

\* The ports collected: every port for the top-N types and for "all",
\* otherwise the request's port list.
CollectPorts(r) ==
    IF r.type \in TopTypes \/ r.allPorts THEN Ports ELSE r.ports

\* The queue bits collected: every queue for top-port-queue drops; the
\* request's queue list only when the ports came from the request.
CollectQueues(r) ==
    IF r.type \in TopTypes \/ r.allPorts
    THEN IF r.type = "topq" THEN 1..NumCos ELSE {}
    ELSE r.queues

\* The queue counter types a queue_type selects.
QueueTypes(qt) == IF qt = "all" THEN {"ucast", "mcast"} ELSE {qt}

\* Mutant: the queue taken as the queue-list bit, without the -1.
CollectKeysQueueBit(r) ==
    IF r.type \in {"top", "prt"}
    THEN {k \in DropKeys : k.type = "total" /\ k.port \in CollectPorts(r)}
    ELSE {k \in DropKeys : /\ k.type \in QueueTypes(r.qtype)
                           /\ k.port \in CollectPorts(r)
                           /\ k.queue \in CollectQueues(r)}

\* The counters whose bst_cgsn_drop_ctr_get the port and queue loops call.
CollectKeys(r) ==
    IF r.type \in {"top", "prt"}
    THEN {k \in DropKeys : k.type = "total" /\ k.port \in CollectPorts(r)}
    ELSE {k \in DropKeys : /\ k.type \in QueueTypes(r.qtype)
                           /\ k.port \in CollectPorts(r)
                           /\ k.queue + 1 \in CollectQueues(r)}

\* bst_cgsn_drop_ctr_get: type, port and queue go into the indexed slot
\* and the asic writes the counter into it.
Fetched(k) == [type |-> k.type, port |-> k.port, queue |-> k.queue,
               ctr |-> asicDrops[k]]

\* bst_collect_cgsn_drop_counters: the record cleared, then every selected
\* counter fetched into its slot.
CollectDropCounters(r) ==
    [i \in CtrIndex |->
        LET ks == {k \in CollectKeys(r) : KeyIndex(k) = i}
        IN  IF ks = {} THEN ZeroEntry ELSE Fetched(CHOOSE k \in ks : TRUE)]

\* Mutant: the inner loop stops before the last slot.
SortRecordsShortInner(a, count) ==
    LET RECURSIVE Pass(_, _, _)
        Pass(b, i, j) ==
            IF i >= count THEN b
            ELSE IF j >= TotalCtrs - 1 THEN Pass(b, i + 1, i + 2)
            ELSE Pass(IF b[i].ctr < b[j].ctr
                      THEN [b EXCEPT ![i] = b[j], ![j] = b[i]] ELSE b,
                      i, j + 1)
    IN  Pass(a, 0, 1)

\* bst_sort_records: for i < count and every j > i in the array, swap
\* entries i and j when ctr[i] < ctr[j].
SortRecords(a, count) ==
    LET RECURSIVE Pass(_, _, _)
        Pass(b, i, j) ==
            IF i >= count THEN b
            ELSE IF j >= TotalCtrs THEN Pass(b, i + 1, i + 2)
            ELSE Pass(IF b[i].ctr < b[j].ctr
                      THEN [b EXCEPT ![i] = b[j], ![j] = b[i]] ELSE b,
                      i, j + 1)
    IN  Pass(a, 0, 1)

NonZero(e) == e.ctr # 0

\* The entries i = lo..hi of a record, in order.
Slice(d, lo, hi) == [k \in 1..(hi - lo + 1) |-> d[lo + k - 1]]

\* The queue entries of port p the port-queue branch writes: unicast
\* queues 0..NumCos-1, then multicast, as queue_type selects.
PortQueueEntries(d, r, p) ==
    LET Part(t, Ix(_, _)) ==
            IF t \in QueueTypes(r.qtype)
            THEN SelectSeq([q \in 1..NumCos |-> d[Ix(p, q - 1)]], NonZero)
            ELSE <<>>
    IN  Part("ucast", UcastIndex) \o Part("mcast", McastIndex)

\* bst_json_encode_get_bst_cgsn_drop_counters: the entries it writes.
\* Top and port drops walk i = begin..end inclusive with end = count for
\* top drops; top-port-queue drops walk i = 0..count and skip entries
\* that are not queue counters; port-queue drops walk prt = 1 while
\* prt < numPorts.
EncodeDrops(d, r) ==
    CASE r.type = "prt" ->
            SelectSeq(Slice(d, TotalIndex(1), TotalIndex(NumPorts)), NonZero)
      [] r.type = "top" -> SelectSeq(Slice(d, 0, r.count), NonZero)
      [] r.type = "topq" ->
            SelectSeq(Slice(d, 0, r.count),
                      LAMBDA e : NonZero(e) /\ e.type \in {"ucast", "mcast"})
      [] r.type = "prtq" ->
            FlattenSeq([p \in 1..(NumPorts - 1) |-> PortQueueEntries(d, r, p)])

\* A get-bst-congestion-drop-counters request, or a periodic one from its
\* timer, that reaches the collection (the request table is BstEngine's):
\* bst_get_cgsn_drp_ctrs collects into the current record; the dispatcher
\* (bst_app.c) makes it the active record, the old active one the next
\* current, and hands it to the encoder, which sorts the active record
\* for the top-N types and writes it.  Spec 9 leaves the promotion open.
DropCounterReport ==
    /\ drops < MaxDropReqs
    /\ \E r \in DropRequests :
          LET collected == CollectDropCounters(r)
              sorted == IF r.type \in TopTypes
                        THEN SortRecords(collected, r.count) ELSE collected
          IN  /\ drpCurr' = drpActive
              /\ drpActive' = sorted
              /\ report' = EncodeDrops(sorted, r)
              /\ lastReq' = r
    /\ drops' = drops + 1
    /\ UNCHANGED <<asicDrops, role, rec, captures, reported>>

Init ==
    /\ asicDrops \in DropProfiles
    /\ role = [current |-> 1, active |-> 2, backup |-> 3]
    /\ rec = [b \in Buffers |-> 0]
    /\ captures = 0
    /\ reported = <<>>
    /\ drpCurr = [i \in CtrIndex |-> ZeroEntry]
    /\ drpActive = [i \in CtrIndex |-> ZeroEntry]
    /\ report = <<>>
    /\ lastReq = NoReq
    /\ drops = 0

Next == StatsReport \/ ClearStats \/ DropCounterReport

Spec == Init /\ [][Next]_vars

(***************************************************************************)
(* Properties.                                                             *)
(***************************************************************************)

\* The k-th latest capture the dispatcher reported, 0 when there is none.
Latest(k) == IF Len(reported) >= k THEN reported[Len(reported) - k + 1] ELSE 0

\* The rotation of bst_update_data under get-report and clear-stats
\* requests and failing snapshots (spec 8): the three roles name three
\* different buffers, the active buffer holds the capture last reported
\* and the backup buffer the one reported before it.
RotationInvariant ==
    /\ IsInjective(role)
    /\ rec[role.active] = Latest(1)
    /\ rec[role.backup] = Latest(2)

\* How often entry e occurs in record a.
Occurrences(a, e) == Cardinality({i \in DOMAIN a : a[i] = e})

\* The count largest counters lead, in non-increasing order.
TopFront(a, count) ==
    \A i, j \in CtrIndex : i < count /\ i < j => a[i].ctr >= a[j].ctr

\* bst_sort_records on the active record (spec 8, top-N selection): the
\* active record holds exactly the entries the last request collected,
\* and for the top-N types its first count entries are the largest
\* counters in non-increasing order.
SortSelectsTopN ==
    lastReq # NoReq =>
        LET collected == CollectDropCounters(lastReq)
        IN  /\ \A e \in Range(drpActive) \cup Range(collected) :
                   Occurrences(drpActive, e) = Occurrences(collected, e)
            /\ lastReq.type \in TopTypes => TopFront(drpActive, lastReq.count)

\* The counters a request asks for (spec 4.4): every port for the top-N
\* types and "all"; every queue for top-port-queue drops, the request's
\* queue list otherwise.
RequestedKeys(r) ==
    LET ports  == IF r.type \in TopTypes \/ r.allPorts THEN Ports ELSE r.ports
        queues == IF r.type = "topq" THEN 1..NumCos ELSE r.queues
    IN  IF r.type \in {"top", "prt"}
        THEN {k \in DropKeys : k.type = "total" /\ k.port \in ports}
        ELSE {k \in DropKeys : /\ k.type \in QueueTypes(r.qtype)
                               /\ k.port \in ports /\ k.queue + 1 \in queues}

\* The response to a drop-counter request lists each requested non-zero
\* counter once: all of them for the port types, and for the top-N types
\* count of them (fewer when fewer are non-zero), none smaller than a
\* counter left out.
DropReportComplete ==
    lastReq # NoReq =>
        LET want == {Fetched(k) : k \in {k \in RequestedKeys(lastReq) :
                                             asicDrops[k] # 0}}
            got  == Range(report)
        IN  /\ Len(report) = Cardinality(got)
            /\ got \subseteq want
            /\ IF lastReq.type \in TopTypes
               THEN /\ Len(report) = IF lastReq.count < Cardinality(want)
                                     THEN lastReq.count ELSE Cardinality(want)
                    /\ \A e \in got, f \in want \ got : e.ctr >= f.ctr
               ELSE got = want
====
