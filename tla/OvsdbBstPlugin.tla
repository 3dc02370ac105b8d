--------------------------- MODULE OvsdbBstPlugin ---------------------------
(***************************************************************************)
(* The OVSDB south-bound plugin's threshold and configuration paths      *)
(* (src/src/sb_plugin/sb_ovsdb/bst/ovsdb_bst_ctl.c, sbplugin_bst_ovsdb.c)  *)
(* and the ovsdb-server it talks to.                                       *)
(*                                                                         *)
(*   rpc    : the static commit session of bst_ovsdb_threshold_commit:    *)
(*            "closed" while count = 0, "up" once opened, "failed" once a  *)
(*            jsonrpc_send has failed (the jsonrpc status is sticky and    *)
(*            the session is never reopened since count stays 1);          *)
(*   txq    : "transact" requests sent on that session, not yet executed;  *)
(*   ovsdb  : the trigger_threshold column of the bufmon rows;             *)
(*   notif  : "update" notifications queued on the monitor session;        *)
(*   pcache : the threshold field of the plugin cache rows, written by    *)
(*            the monitor thread and read by bst_ovsdb_threshold_get;      *)
(*   sysdb  : the bufmon_config column of the System row (enabled,         *)
(*            counters_mode, periodic_collection_enabled);                 *)
(*   pconfig: the plugin cache's config_data, written by the monitor       *)
(*            thread and read by bst_ovsdb_bst_config_get.                 *)
(*   monitor: the monitor thread's session: "up", or "down" once its open  *)
(*            or its monitor request failed or a jsonrpc_recv returned an  *)
(*            error; bst_ovsdb_monitor never opens another one.            *)
(* A bufmon row is a member of Rows; a threshold a number. Both tables     *)
(* reach the monitor in one stream of notifications, applied in order.    *)
(***************************************************************************)
EXTENDS Naturals, Sequences

CONSTANTS
    Rows,              \* the bufmon rows (realm counter, index)
    DefaultThreshold,  \* trigger_threshold of a row nobody has set
    SendMayFail,       \* jsonrpc_send can return an error
    OpenMayFail,       \* open_jsonrpc can fail
    TxnMayFail,        \* jsonrpc_transact_block can fail or return an error
    MonitorMayFail,    \* the monitor session can fail to open or break
    InitialConfig      \* the System row's bufmon_config at start

VARIABLES rpc, txq, ovsdb, notif, pcache, sysdb, pconfig, monitor

pluginVars == <<rpc, txq, ovsdb, notif, pcache, sysdb, pconfig, monitor>>

\* One write of a trigger_threshold column, and the update notification of
\* a bufmon row carrying it.
Write(r, v) == [table |-> "bufmon", row |-> r, val |-> v]

\* The bufmon_config values the plugin keeps in config_data.
BufmonConfigs ==
    [enable : BOOLEAN, mode : {"current", "peak"}, periodic : BOOLEAN]

\* The update notification of the System row carrying bufmon_config c.
SystemUpdate(c) == [table |-> "System", row |-> "System", val |-> c]

\* bst_ovsdb_monitor at start: open_jsonrpc and the "monitor" request
\* succeed, or the thread logs the failure and returns.
MonitorStarts == IF MonitorMayFail THEN {"up", "down"} ELSE {"up"}

\* The outcomes of one jsonrpc_recv with a message pending: the message, or
\* an error, which the jsonrpc session keeps returning from then on.
RecvOutcomes == IF MonitorMayFail THEN BOOLEAN ELSE {TRUE}

PluginInit ==
    /\ rpc = "closed"
    /\ txq = <<>>
    /\ ovsdb = [r \in Rows |-> DefaultThreshold]
    /\ notif = <<>>
    /\ pcache = [r \in Rows |-> DefaultThreshold]
    /\ sysdb = InitialConfig
    /\ pconfig = InitialConfig
    /\ monitor \in MonitorStarts

\* The outcomes open_jsonrpc may have on the first commit.
OpenOutcomes == IF OpenMayFail THEN BOOLEAN ELSE {TRUE}

\* How many writes of a batch of n reach the session: all of them, or, when
\* a send can fail, the ones before the first failed jsonrpc_send.
SentCounts(n) == IF SendMayFail THEN 0..n ELSE {n}

\* bst_ovsdb_threshold_commit applied to each write of ws in turn, as the
\* sbapi threshold setters do for the fields of one realm entry. The
\* session is opened on the first commit (count == 0); when that fails the
\* commit returns FAILURE and nothing is sent. Otherwise every write is
\* sent until a jsonrpc_send fails; that error is only logged, the session
\* stays broken, every later send on it fails as well, and the commit
\* still returns SUCCESS. k is the number of writes the session accepts.
CommitOk(openOk) == rpc # "closed" \/ openOk

ThresholdCommit(ws, openOk, k) ==
    IF ~CommitOk(openOk) THEN UNCHANGED <<rpc, txq>>
    ELSE LET sent == IF rpc = "failed" THEN 0 ELSE k
         IN  /\ txq' = txq \o SubSeq(ws, 1, sent)
             /\ rpc' = IF rpc = "failed" \/ sent < Len(ws) THEN "failed"
                       ELSE "up"

\* ovsdb-server executes the oldest transaction of the commit session and,
\* when the column changed, notifies the monitor session of the new row.
ServerTransact ==
    /\ txq # <<>>
    /\ LET w == Head(txq)
       IN  /\ ovsdb' = [ovsdb EXCEPT ![w.row] = w.val]
           /\ notif' = IF ovsdb[w.row] # w.val THEN Append(notif, w)
                       ELSE notif
    /\ txq' = Tail(txq)
    /\ UNCHANGED <<rpc, pcache, sysdb, pconfig, monitor>>

\* bst_ovsdb_cache_update_table for a bufmon row: a row whose name and
\* hw_unit_id are present is copied into the plugin cache, its threshold
\* taken from the trigger_threshold column of the update.
CacheUpdateTableNoThreshold(w) == pcache

CacheUpdateTable(w) == [pcache EXCEPT ![w.row] = w.val]

\* bst_system_bufmon_config_update: the System row's bufmon_config map
\* replaces enabled, counters_mode and periodic_collection_enabled of the
\* plugin's config_data under the write lock.
BufmonConfigUpdate(w) == w.val

\* The monitor thread of bst_ovsdb_monitor receives the next "update"
\* notification and bst_ovsdb_cache_update applies it, table by table.  A
\* receive error breaks out of the inner loop and the outer loop polls the
\* same session again: the thread is alive but its session is down.
MonitorIgnoresUpdates == UNCHANGED pluginVars

MonitorUpdate ==
    /\ monitor = "up"
    /\ notif # <<>>
    /\ \E ok \in RecvOutcomes :
          IF ok
          THEN /\ LET w == Head(notif)
                  IN  IF w.table = "bufmon"
                      THEN pcache' = CacheUpdateTable(w) /\ UNCHANGED pconfig
                      ELSE pconfig' = BufmonConfigUpdate(w) /\ UNCHANGED pcache
               /\ notif' = Tail(notif)
               /\ UNCHANGED monitor
          ELSE /\ monitor' = "down"
               /\ UNCHANGED <<notif, pcache, pconfig>>
    /\ UNCHANGED <<rpc, txq, ovsdb, sysdb>>

\* bst_ovsdb_threshold_get: the threshold of a row, read from the plugin
\* cache under the read lock.
ThresholdGet(r) == pcache[r]

\* bst_ovsdb_bst_config_get: the configuration, read from the plugin cache.
ConfigGet == pconfig

\* The outcomes of one blocking transaction.
TxnOutcomes == IF TxnMayFail THEN BOOLEAN ELSE {TRUE}

\* bst_ovsdb_bst_config_commit: open a new session (a failure returns
\* FAILURE) and run the System update with jsonrpc_transact_block; ovsdb-
\* server commits it and, when bufmon_config changed, notifies the monitor.
\* check_txn only logs a failed or rejected transaction, and the commit
\* returns SUCCESS in every case once the session was opened.
ConfigCommit(c, openOk, txnOk) ==
    /\ UNCHANGED <<rpc, txq, ovsdb, pcache, pconfig, monitor>>
    /\ IF openOk /\ txnOk
       THEN /\ sysdb' = c
            /\ notif' = IF sysdb # c THEN Append(notif, SystemUpdate(c))
                        ELSE notif
       ELSE UNCHANGED <<sysdb, notif>>
=============================================================================
