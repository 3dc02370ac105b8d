---------------------------- MODULE BstThreshold ----------------------------
(***************************************************************************)
(* ThresholdEngine of the BST engine (src/src/apps/bst/bst.c): the eleven  *)
(* realm handlers behind bst_config_threshold_set, bst_clear_threshold_set *)
(* and the GET_THRESHOLD branch of bst_get_report, composed with the OVSDB *)
(* south-bound plugin they program and read through.                       *)
(*                                                                         *)
(*   units  : how the unit's config expresses thresholds: "bytes",         *)
(*            "cells" (statUnitsInCells) or "percent" (statsInPercentage); *)
(*   cache  : bst_thresholds_cache, one entry per realm field (bytes);     *)
(*   record : the threshold record filled by a GET_THRESHOLD request;      *)
(*   reqs   : requests issued so far, bounded by MaxThresholdReqs.         *)
(* All requests run on the single BST thread under the unit lock, so each  *)
(* is one step. A realm entry has one index in the model: every handler    *)
(* addresses a single index and entries of different indexes never meet.   *)
(***************************************************************************)
EXTENDS Naturals, Sequences, SequencesExt

CONSTANTS
    RealmSeq,          \* the realms requests address, in commit order
    UnitModes,         \* the unit configurations explored
    MaxBuf,            \* umShareMaxBuf etc. of sbapi_system_max_buf_snapshot_get
    CellToByte,        \* asic_capabilities.cellToByteConv
    AbsInputs,         \* threshold inputs in bytes or cells
    PercentInputs,     \* threshold inputs in percent
    ClearRequests,     \* clients issue clear-thresholds requests
    MaxThresholdReqs,  \* bound on the requests clients issue
    DefaultThreshold, SendMayFail, OpenMayFail,  \* of OvsdbBstPlugin
    TxnMayFail, MonitorMayFail, InitialConfig

VARIABLES units, cache, record, reqs,
          rpc, txq, ovsdb, notif, pcache, sysdb, pconfig, monitor  \* of OvsdbBstPlugin

pluginVars == <<rpc, txq, ovsdb, notif, pcache, sysdb, pconfig, monitor>>

vars == <<units, cache, record, reqs, pluginVars>>

\* The fields of each realm's request, in the order the handler builds them:
\* device threshold; i_p_pg umShare, umHeadroom; i_p_sp and i_sp umShare;
\* ep_sp ucShare, umShare, mcShare; e_sp umShare, mcShare; and the single
\* buffer field of the uc-queue, uc-queue-group, mc-queue, cpu and rqe realms.
RealmFields ==
    [device |-> <<"data">>, ippg |-> <<"umShare", "umHeadroom">>,
     ipsp |-> <<"umShare">>, isp |-> <<"umShare">>,
     epsp |-> <<"ucShare", "umShare", "mcShare">>,
     esp |-> <<"umShare", "mcShare">>, euq |-> <<"uc">>, euqg |-> <<"uc">>,
     emc |-> <<"mc">>, ecpu |-> <<"cpu">>, erqe |-> <<"rqe">>]

Realms == ToSet(RealmSeq)

Fields(realm) == ToSet(RealmFields[realm])

ThresholdRows == UNION {{<<realm, f>> : f \in Fields(realm)} : realm \in Realms}

Plugin == INSTANCE OvsdbBstPlugin WITH Rows <- ThresholdRows

\* Every row of every realm, realm by realm in RealmSeq order.
AllRowSeq == FlattenSeq([i \in 1..Len(RealmSeq) |->
                 LET realm == RealmSeq[i]
                 IN  [j \in DOMAIN RealmFields[realm] |->
                        <<realm, RealmFields[realm][j]>>]])

\* The largest threshold a request can program: the buffer in bytes.
MaxThreshold == MaxBuf * CellToByte

ThresholdValues == 0..MaxThreshold

Validator == INSTANCE BstThresholdValidator

\* The field bits of the masks the REST layer posts for a realm: the
\* handlers test only those, so the index bits are left out.
RequestMasks(realm) ==
    {p.mask \cap Fields(realm) :
        p \in {q \in Validator!PostedRequests : q.realm = realm}}

\* The set-threshold requests for a realm: the realm, the mask bits of a
\* request the REST layer posts and the value of each masked field.
RealmRequests(realm, inputs) ==
    UNION {{[realm |-> realm, mask |-> mask, val |-> val] :
              val \in [mask -> inputs]} : mask \in RequestMasks(realm)}

\* The inputs a request can carry under each unit configuration.
InputsFor(u) == IF u = "percent" THEN PercentInputs ELSE AbsInputs

BufmonWrites ==
    [table : {"bufmon"}, row : ThresholdRows, val : ThresholdValues]

TypeOK ==
    /\ units \in UnitModes
    /\ cache \in [ThresholdRows -> ThresholdValues]
    /\ record \in [ThresholdRows -> ThresholdValues]
    /\ reqs \in 0..MaxThresholdReqs
    /\ rpc \in {"closed", "up", "failed"}
    /\ txq \in Seq(BufmonWrites)
    /\ ovsdb \in [ThresholdRows -> ThresholdValues]
    /\ \A i \in DOMAIN notif :
          notif[i] \in IF notif[i].table = "bufmon" THEN BufmonWrites
                       ELSE [table : {"System"}, row : {"System"},
                             val : Plugin!BufmonConfigs]
    /\ pcache \in [ThresholdRows -> ThresholdValues]
    /\ sysdb \in Plugin!BufmonConfigs
    /\ pconfig \in Plugin!BufmonConfigs
    /\ monitor \in {"up", "down"}

Init ==
    /\ Plugin!PluginInit
    /\ units \in UnitModes
    /\ cache = [r \in ThresholdRows |-> DefaultThreshold]
    /\ record = [r \in ThresholdRows |-> 0]
    /\ reqs = 0

(***************************************************************************)
(* Unit conversion of a masked field.                                      *)
(***************************************************************************)

\* bst_calculate_value_from_percentage with round_value: the product is
\* divided as integers before the conversion to double, so round_value
\* only ever sees a whole number and the result is the floor.
PercentToCellsNoDiv(maxVal, percentage) == maxVal * percentage

PercentToCells(maxVal, percentage) == (maxVal * percentage) \div 100

\* BST_CONVERT_CELLS_TO_BYTES.
CellsToBytes(c) == c * CellToByte

\* BST_VALIDATE_PERCENTAGE_INPUT: a percentage above 100 makes the handler
\* return BVIEW_STATUS_INVALID_PARAMETER.
InvalidPercentage(x) == x > 100

\* The value programmed for a masked field: in percentage mode the share of
\* the field's maximum buffer, in cells converted to bytes, else as given.
ConvertThreshold(x) ==
    CASE units = "percent" -> CellsToBytes(PercentToCells(MaxBuf, x))
      [] units = "cells"   -> CellsToBytes(x)
      [] OTHER             -> x

(***************************************************************************)
(* The realm handlers.                                                     *)
(***************************************************************************)

\* The value a handler programs for field f of the request's entry: the
\* converted input when f is in the mask, the cached value otherwise.
ProgrammedValue(m, f) ==
    IF f \in m.mask THEN ConvertThreshold(m.val[f])
    ELSE cache[<<m.realm, f>>]

\* The writes the realm's sbapi setter commits, one per field in order.
RealmWrites(m) ==
    [i \in DOMAIN RealmFields[m.realm] |->
        LET f == RealmFields[m.realm][i]
        IN  Plugin!Write(<<m.realm, f>>, ProgrammedValue(m, f))]

\* Some masked percentage fails BST_VALIDATE_PERCENTAGE_INPUT.
RequestInvalid(m) ==
    units = "percent" /\ \E f \in m.mask : InvalidPercentage(m.val[f])

\* Mutant: the cache takes the request's input rather than the converted
\* value that was programmed.
MaskedCacheUpdateRaw(m) ==
    [r \in ThresholdRows |->
        IF r[1] = m.realm /\ r[2] \in m.mask THEN m.val[r[2]]
        ELSE cache[r]]

\* The cache after a successful set that updates the masked fields only.
MaskedCacheUpdate(m) ==
    [r \in ThresholdRows |->
        IF r[1] = m.realm /\ r[2] \in m.mask THEN ProgrammedValue(m, r[2])
        ELSE cache[r]]

\* The cache after a successful set that updates every field of the entry.
EntryCacheUpdate(m) ==
    [r \in ThresholdRows |->
        IF r[1] = m.realm THEN ProgrammedValue(m, r[2]) ELSE cache[r]]

\* The shape every realm handler shares: an invalid percentage returns
\* before any hardware call; otherwise every field's value is built, the
\* sbapi setter commits them, and on success the cache takes newCache.
RealmThresholdSet(m, newCache, openOk, k) ==
    \/ /\ RequestInvalid(m)
       /\ UNCHANGED <<cache, rpc, txq>>
    \/ /\ ~RequestInvalid(m)
       /\ Plugin!ThresholdCommit(RealmWrites(m), openOk, k)
       /\ cache' = IF Plugin!CommitOk(openOk) THEN newCache ELSE cache

\* bst_device_threshold_set: acts only when the device mask bit is set.
DeviceThresholdSet(m, openOk, k) ==
    IF "data" \in m.mask
    THEN RealmThresholdSet(m, MaskedCacheUpdate(m), openOk, k)
    ELSE UNCHANGED <<cache, rpc, txq>>

\* bst_ippg_threshold_set: umShare and umHeadroom, masked fields cached.
IppgThresholdSet(m, openOk, k) ==
    RealmThresholdSet(m, MaskedCacheUpdate(m), openOk, k)

\* bst_ipsp_threshold_set: umShare, cached on success whatever the mask.
IpspThresholdSet(m, openOk, k) ==
    RealmThresholdSet(m, EntryCacheUpdate(m), openOk, k)

\* bst_isp_threshold_set: umShare, cached on success whatever the mask.
IspThresholdSet(m, openOk, k) ==
    RealmThresholdSet(m, EntryCacheUpdate(m), openOk, k)

\* bst_epsp_threshold_set: ucShare, umShare and mcShare, masked ones cached.
EpspThresholdSet(m, openOk, k) ==
    RealmThresholdSet(m, MaskedCacheUpdate(m), openOk, k)

\* bst_esp_threshold_set: umShare and mcShare, masked ones cached.
EspThresholdSet(m, openOk, k) ==
    RealmThresholdSet(m, MaskedCacheUpdate(m), openOk, k)

\* bst_euq_threshold_set: the uc buffer, cached when masked.
EuqThresholdSet(m, openOk, k) ==
    RealmThresholdSet(m, MaskedCacheUpdate(m), openOk, k)

\* bst_euqg_threshold_set: the uc buffer, cached when masked (read through
\* the e_ucq_threshold member of the request union, which shares its field).
EuqgThresholdSet(m, openOk, k) ==
    RealmThresholdSet(m, MaskedCacheUpdate(m), openOk, k)

\* bst_emc_threshold_set: the mc buffer, cached when masked.
EmcThresholdSet(m, openOk, k) ==
    RealmThresholdSet(m, MaskedCacheUpdate(m), openOk, k)

\* bst_ecpu_threshold_set: the cpu buffer, cached when masked.
EcpuThresholdSet(m, openOk, k) ==
    RealmThresholdSet(m, MaskedCacheUpdate(m), openOk, k)

\* bst_erqe_threshold_set: the rqe buffer, cached when masked.
ErqeThresholdSet(m, openOk, k) ==
    RealmThresholdSet(m, MaskedCacheUpdate(m), openOk, k)

\* bst_config_threshold_set: the realm table picks the handler.
ConfigThresholdSet(m, openOk, k) ==
    CASE m.realm = "device" -> DeviceThresholdSet(m, openOk, k)
      [] m.realm = "ippg"   -> IppgThresholdSet(m, openOk, k)
      [] m.realm = "ipsp"   -> IpspThresholdSet(m, openOk, k)
      [] m.realm = "isp"    -> IspThresholdSet(m, openOk, k)
      [] m.realm = "epsp"   -> EpspThresholdSet(m, openOk, k)
      [] m.realm = "esp"    -> EspThresholdSet(m, openOk, k)
      [] m.realm = "euq"    -> EuqThresholdSet(m, openOk, k)
      [] m.realm = "euqg"   -> EuqgThresholdSet(m, openOk, k)
      [] m.realm = "emc"    -> EmcThresholdSet(m, openOk, k)
      [] m.realm = "ecpu"   -> EcpuThresholdSet(m, openOk, k)
      [] m.realm = "erqe"   -> ErqeThresholdSet(m, openOk, k)


\* sbapi_bst_threshold_get: every row's threshold from the plugin cache.
ThresholdsGet == [r \in ThresholdRows |-> Plugin!ThresholdGet(r)]

\* sbapi_bst_clear_thresholds: the plugin's clear, which commits the default
\* threshold of every row through the same session.
DefaultWrites ==
    [i \in DOMAIN AllRowSeq |-> Plugin!Write(AllRowSeq[i], DefaultThreshold)]

\* bst_clear_threshold_set: clear the thresholds; when that succeeds, under
\* the lock, zero the threshold record and the cache and refill the cache
\* with sbapi_bst_threshold_get.
ClearThresholdSet(openOk, k) ==
    /\ Plugin!ThresholdCommit(DefaultWrites, openOk, k)
    /\ IF Plugin!CommitOk(openOk)
       THEN /\ record' = [r \in ThresholdRows |-> 0]
            /\ cache' = ThresholdsGet
       ELSE UNCHANGED <<record, cache>>

\* The GET_THRESHOLD branch of bst_get_report: under the lock, zero the
\* threshold record and fill it with sbapi_bst_threshold_get.
GetThreshold ==
    /\ reqs < MaxThresholdReqs
    /\ record' = ThresholdsGet
    /\ reqs' = reqs + 1
    /\ UNCHANGED <<units, cache, pluginVars>>

\* A client's set-threshold request, handled by the BST thread.
SetThreshold ==
    /\ reqs < MaxThresholdReqs
    /\ \E realm \in Realms :
       \E m \in RealmRequests(realm, InputsFor(units)) :
       \E openOk \in Plugin!OpenOutcomes :
       \E k \in Plugin!SentCounts(Len(RealmWrites(m))) :
          ConfigThresholdSet(m, openOk, k)
    /\ reqs' = reqs + 1
    /\ UNCHANGED <<units, record, ovsdb, notif, pcache, sysdb, pconfig, monitor>>

\* A client's clear-thresholds request, handled by the BST thread.
ClearThresholds ==
    /\ ClearRequests
    /\ reqs < MaxThresholdReqs
    /\ \E openOk \in Plugin!OpenOutcomes :
       \E k \in Plugin!SentCounts(Len(DefaultWrites)) :
          ClearThresholdSet(openOk, k)
    /\ reqs' = reqs + 1
    /\ UNCHANGED <<units, ovsdb, notif, pcache, sysdb, pconfig, monitor>>

(***************************************************************************)
(* The get-bst-thresholds response.                                        *)
(***************************************************************************)

\* round_int of the encoder applied to the double n / d (n, d > 0): half
\* away from zero; a zero quotient takes the r - 0.5 branch, which the
\* conversion to uint64_t truncates to 0.
RoundQuotient(n, d) == (2 * n + d) \div (2 * d)

\* bst_json_convert_data for a threshold report: the asic threshold is in
\* bytes; in percentage mode it becomes cells and then the rounded share of
\* maxBufVal, at most 100 (0 when maxBufVal is 0); in cells mode it becomes
\* cells; in bytes it is reported as it is.
ConvertData(v, maxBufVal) ==
    CASE units = "percent" ->
            IF maxBufVal = 0 THEN 0
            ELSE LET p == RoundQuotient((v \div CellToByte) * 100, maxBufVal)
                 IN  IF p > 100 THEN 100 ELSE p
      [] units = "cells" -> v \div CellToByte
      [] OTHER -> v

\* The value a get-bst-thresholds response carries for each row: the record
\* converted against the realm's maximum buffer (_jsonencode_report_device
\* for the device realm; the encoders of the other realms, which are not in
\* the repository, are taken to call the same conversion).
ThresholdReport == [r \in ThresholdRows |-> ConvertData(record[r], MaxBuf)]

ServerTransact ==
    Plugin!ServerTransact /\ UNCHANGED <<units, cache, record, reqs>>

MonitorUpdate ==
    Plugin!MonitorUpdate /\ UNCHANGED <<units, cache, record, reqs>>

Next ==
    \/ SetThreshold
    \/ ClearThresholds
    \/ GetThreshold
    \/ ServerTransact
    \/ MonitorUpdate

\* ovsdb-server and the monitor thread run on their own and always take
\* their next queued message; the clients may stop at any time.
Fairness == WF_vars(ServerTransact) /\ WF_vars(MonitorUpdate)

Spec == Init /\ [][Next]_vars /\ Fairness

(***************************************************************************)
(* Properties.                                                             *)
(***************************************************************************)

\* Apply one update notification to the plugin cache's thresholds (th) and
\* config_data (cfg).
ApplyUpdate(p, w) ==
    IF w.table = "bufmon" THEN [p EXCEPT !.th[w.row] = w.val]
    ELSE [p EXCEPT !.cfg = w.val]

\* The monitor thread's plugin cache, with the "update" notifications still
\* queued applied in order, is the server's bufmon table and System row:
\* the plugin never loses, reorders or invents what ovsdb-server committed.
PluginCacheFollowsServer ==
    FoldLeft(ApplyUpdate, [th |-> pcache, cfg |-> pconfig], notif)
        = [th |-> ovsdb, cfg |-> sysdb]

\* Once the clients stop, the plugin cache that bst_ovsdb_threshold_get and
\* bst_ovsdb_bst_config_get read settles on the server's contents.
PluginCacheConverges == <>[](pcache = ovsdb /\ pconfig = sysdb)

\* Once the clients stop, the engine's bst_thresholds_cache, which resolves
\* the unmasked fields of every later partial update, settles on what the
\* plugin reports as programmed (spec: the cache mirrors the last value
\* successfully programmed).
EngineCacheConverges == <>[](cache = pcache)

\* A GET_THRESHOLD request reports the thresholds last programmed (spec:
\* a threshold set is fully applied before a subsequent get observes it).
GetReturnsProgrammed == [][GetThreshold => record' = cache]_vars

\* A threshold set in bytes or cells reads back as it was set: every value
\* a get-bst-thresholds response reports is 0 (no get yet, or cleared), the
\* default, or an input some request gave. bst_json_convert_data must undo
\* the conversion the realm handler applied, also for the unmasked fields
\* the handlers rewrite from bst_thresholds_cache on a later partial update
\* (percentages are the subject of PercentThresholdRounds).
ThresholdReadBack ==
    units # "percent" =>
        \A r \in ThresholdRows :
            ThresholdReport[r] \in
                {0, ConvertData(DefaultThreshold, MaxBuf)} \cup AbsInputs

\* In percentage mode every threshold the engine caches as programmed is
\* the default or round(maxBuf * p / 100) cells, rounded half away from
\* zero, for a valid percentage p (spec 4.2), as bst_calculate_value_from_
\* percentage is meant to compute.
PercentThresholdRounds ==
    units = "percent" =>
        \A r \in ThresholdRows :
            cache[r] \in {DefaultThreshold} \cup
                {CellsToBytes((MaxBuf * p + 50) \div 100) :
                    p \in {q \in PercentInputs : ~InvalidPercentage(q)}}

=============================================================================
