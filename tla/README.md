# TLA+ models of the BroadView BST engine

This directory holds TLA+ models of the Buffer Statistics Tracking (BST) engine of
`openswitch-ops-broadview`. The models are checked with TLC. The engine's main source
is `src/src/apps/bst/bst.c`. Its north-bound entry points are in `bst_nb_api.c` and
`bst_plugin_req.c`. Its south-bound OVSDB plugin is in `src/src/sb_plugin/sb_ovsdb/bst/`.

## 1. The system

### Components, their state and operations

| Component | Source | State | Operations (state-changing) |
|---|---|---|---|
| RequestDispatcher (BST worker thread) | `bst_app.c` (not in `src/`), `bst_nb_api.c`, `bst_plugin_req.c` | one SysV message queue | REST `_impl` handlers and plugin requests post with `bst_send_request`; the worker takes one message at a time and calls a handler of `bst.c` |
| ConfigParams (feature) | `bst.c` `bst_config_feature_set` 127-288 | `collectionInterval`, `sendAsyncReports`, `bstEnable`, trigger and unit options | masked field updates under the write lock; statistics timer add or delete; asic programming through `sbapi_bst_config_get/set` |
| TrackParams | `bst.c` `bst_config_track_set` 333-483 | 12 tracking flags, `trackMode` | compare with the request; if anything differs, program the asic and copy on success |
| TimerSubsystem | `bst.c` `bst_periodic_collection_timer_add/delete` 667-815, the system timer facility | per timer slot: `in_use`, context (`cmd`, `index`), handle; the armed system timers | add, which deletes an armed slot before re-adding; delete; firing posts a periodic request built from the context |
| DropCounterRequest table | `bst.c` 1083-1147, 1337-1416, 1448-1486 | `drop_ctrs_db[BVIEW_MAX_REQUESTS]`: `id`, `req`, `in_use`, timer slot | register (checks for a duplicate, then a free slot, stores periodic requests, adds their timer, collects); periodic collect; cancel |
| DropCounterCollector | `bst.c` 1152-1322, 1419-1445; `bst_json_encoder.c` 700-1021 | `cgsn_drp_curr`, `cgsn_drp_active` | collect per port and queue; top-N sort; encode the top `count` entries |
| SnapshotStore | `bst.c` 548-646, 946-1025 | current, active and backup statistics records; one threshold record | GET_REPORT or TRIGGER capture into `current`; `bst_update_data` rotates the three records; clear-stats |
| ThresholdEngine | `bst.c` 817-932, 1491-2420 | `ThresholdCache` for 11 realms | per-realm set with a field mask, percentage and cell conversion, and cache update on success; clear-thresholds, which refreshes the cache |
| OVSDB south-bound plugin | `ovsdb_bst_ctl.c`, `sbplugin_bst_ovsdb.c` | plugin cache `p_cache` under an rwlock | threshold and config commits to ovsdb-server over JSON-RPC; the monitor thread applies update notifications to the cache; get operations read the cache |
| REST parsing and validation | `get_bst_cgsn_drop_counters.c`, `bst_nb_api.c` 538-928 | none | decode and validate, then post (the drop-counter parser is `DropCounterParser`, the threshold validators `BstThresholdValidator`) |
| System and bootstrap | `system.c`, `agent.c`, `sbplugin_system.c`, `ovsdb_system_ctl.c`, `ovsdb_common_ctl.c`, `rest_config.c` | static info and configuration | init order, getters |

### How the parts interact

REST threads, the OVSDB plugin and the system timer thread never run a handler
themselves. Each one posts a message to the BST queue. The single worker thread runs one
handler at a time to completion. A handler runs under the unit lock or the rwlock for its
mutations and calls into the south-bound API.

The timer facility keeps a pointer to the slot's context. It does not keep a copy. When a
timer fires, the callback posts a periodic request built from whatever that context holds
at that moment.

A write on the OVSDB side is fire-and-forget:
- `bst_ovsdb_threshold_commit` sends a JSON-RPC transaction and returns SUCCESS whatever
  `jsonrpc_send` says.
- The plugin cache only changes later, when the monitor thread receives ovsdb-server's
  update.

### Hard behaviours

- Timer replacement: `bst_periodic_collection_timer_add` fills the context, then deletes
  the armed timer, and that delete clears the context. Then it adds a timer with the
  cleared context.
- An interval change that is not masked together with `SND_ASYNC_REP` does not re-arm the
  statistics timer.
- `bst_cancel_request` ignores a failed timer delete and memsets the slot anyway. The system
  timer survives, and it points into a slot that a later registration will reuse.
- Registration ignores the result of its timer add. The request then occupies a slot, is
  never collected again, and later registrations of the same id are refused.
- A queue that is full loses timer ticks and client requests.
- The south-bound paths fail partially:
  - the trigger path overwrites `rv` (bst.c 614-617);
  - clear-thresholds leaves a zeroed cache when its refresh fails (905-916);
  - an OVSDB send failure is reported as success;
  - `bst_config_feature_set` stores the interval and report settings before its asic
    calls, and `bstEnable` only after them (bst.c 256-283).
- Numeric edges:
  - percentage conversion divides before it rounds (bst.c 829);
  - the encoder's top-N loops read `count+1` entries (bst_json_encoder.c 806), and its
    port-queue loop stops before the last port (883).
- Validation gaps: the egress-port-service-pool validator accepts a command whose only
  value bit is MCSHARE_QUEUE, which its handler does not test (bst_nb_api.c 664);
  `bst_ovsdb_resolve_index` checks only the upper bound of the index it computes.
- Stale reads: a threshold get right after a set reads the plugin cache before the
  monitor thread has applied the update.

### Correctness properties per component

- Timers:
  - every armed system timer is owned by the slot that records it;
  - a table slot has a timer exactly while its request is in use;
  - the timer's context names its owner's command and request;
  - at most one timer delivers the ticks of an id;
  - while reports are on, the statistics timer is armed, names GET_REPORT, and runs at
    the configured interval.
- Drop-counter table:
  - ids are unique;
  - the table refines an abstract bounded registry;
  - every registered periodic request is collected again and again until it is
    cancelled.
- ConfigParams:
  - `bstEnable` is the enable the asic holds, whatever asic call fails.
- SnapshotStore:
  - the three records are distinct;
  - after a successful capture and rotation, `active` holds the latest capture;
  - a failed capture is never reported as success.
- ThresholdEngine:
  - after a successful set, the cache equals what the asic was programmed with;
  - fields outside the mask keep their value;
  - a failed set leaves the cache unchanged.
- OVSDB:
  - the plugin cache eventually reflects every committed threshold;
  - reads after writes are stale until then.
- Top-N:
  - the sorted prefix holds the `count` largest counters;
  - the response lists `count` counters (fewer when fewer are non-zero), and for port
    requests every requested non-zero counter.

## 2. Plan

Modules are listed most important behaviour first. Modules 1 to 9 exist. The refinement in 10 is
planned.

1. `BstTimer`: the TimerSubsystem, as functions from one timer state to the next. It is
   used by 2.
2. `BstEngine`: the worker thread, the queue, the feature configuration with its
   statistics timer, the drop-counter request table with its timers, and the timer thread.
   It EXTENDS `BstTimer`. `MC_BstEngine` instantiates it.
3. `DropCtrRegistry`: the abstract specification of the request table. `BstEngine` refines
   it: `Registry == INSTANCE DropCtrRegistry WITH regs <- ...`, checked as
   `RegistryRefinement`. The registry is a set of (id, interval) pairs, so with the
   single interval of the MC instance a second registration of an id leaves it
   unchanged; a dropped duplicate check is caught by `UniqueRequestIds`, not here.
4. `OvsdbBstPlugin`: the OVSDB plugin and ovsdb-server: the threshold commit session,
   the config commit, the server's transactions and notifications, the monitor thread
   and the plugin cache.
5. `BstThreshold`: the ThresholdEngine (all eleven realm handlers, clear-thresholds,
   GET_THRESHOLD) over `Plugin == INSTANCE OvsdbBstPlugin`. `MC_BstThreshold`
   instantiates it for the three threshold violation runs.
6. `BstConfig`: EXTENDS `BstThreshold` with TrackParams (`bst_config_track_set`) and the
   enable path of `bst_config_feature_set` through the same plugin. `MC_BstConfig`
   instantiates the composition for the main passing run.
7. `BstReport`: the SnapshotStore (three statistics buffers, capture, rotation, clear)
   and the DropCounterCollector with the top-N sort and the drop-counter encoder.
   `MC_BstReport` instantiates it. Its two parts share no state. They are one module
   because each run checks both of them.
8. `DropCounterParser`: the get-bst-congestion-drop-counters parser, from the fields of
   a JSON request to the command it posts. `MC_BstReport` builds its drop-counter
   requests with it.
9. `BstThresholdValidator`: configure-bst-thresholds on the REST side, from a parsed
   command to the set-threshold request it posts. `BstThreshold` takes its requests from
   it.
10. Planned refinement: the threshold path against an abstract "last write wins"
   register per row, once the monitor catches up (it cannot hold while sends are lost,
   so it is to be stated with `SendMayFail = FALSE`).

The project keeps twelve runs. Later checks are to be added to the existing passing
runs (as further properties) or replace a run whose question they subsume.

## 3. What is modelled now

### `BstTimer`

The state `T` has two fields:
- `T.slot[s]` is the `BVIEW_BST_TIMER_t` of slot `s`: `in_use`, the context, and
  `bstTimer`.
- `T.os[h]` is the system timer with handle `h`: the slot whose context it points to, and
  its interval.

`TimerDelete` and `TimerAdd` translate the two bst.c functions line by line:
- the add fills the context first;
- when the slot is in use, it deletes first, ignoring the delete's result;
- on success it marks the slot in use with the new handle.

The facility's failures are the constants `DeleteMayFail` and `AddMayFail`. With both TRUE,
every call chooses its outcome nondeterministically.

### `BstEngine`

Variables and what they stand for in the code:

| Variable | Code |
|---|---|
| `cfg` | `BVIEW_BST_CONFIG_PARAMS_t`: `collectionInterval`, `sendAsyncReports`, `bstEnable` |
| `hw` | the bst mode last programmed through `sbapi_bst_config_set` |
| `db` | `drop_ctrs_db`: `id`, `req.intrvl`, `in_use` |
| `timers` | the `BstTimer` state for the statistics timer `StatsTimer` and one timer slot per table slot |
| `queue` | the BST message queue |
| `sent` | the client posts so far |
| `collects`, `reports` | counts of collections, used by the liveness property |

Actions:
- `ClientPost` is a REST `_impl` handler posting one of `ClientRequests`.
- `TimerFire(h)` is the timer callback. It posts the periodic request that the context
  names.
- `Dispatch` is the worker. It has one disjunct per command:
  - `ConfigFeatureSet`: `bst_config_feature_set`;
  - `RegisterDropCtrs` and `PeriodicDropCtrs`: the two paths of `bst_get_cgsn_drp_ctrs`;
  - `CancelRequest`: `bst_cancel_request`;
  - `PeriodicReport`: the periodic path of `bst_get_report`;
  - a context cleared by memset carries no command, and its message is dropped.

Abstractions:
- The counter values and the snapshot contents are left out. Only the number of
  collections is kept.
- The configuration fields that affect only reports (trigger options, units, percentage)
  are left out.

Fairness is `WF(Dispatch)` and `SF(TimerFire(h))` for each handle:
- The worker loops on its queue forever.
- A periodic timer fires once per interval whatever the other timers do. Only a full
  queue makes a single post fail, so a timer that finds room infinitely often gets posted.
- Clients have no fairness.

The engine may stop for real. Once the bounded clients are done and no timer is armed, it
waits on an empty queue forever. So every cfg has `CHECK_DEADLOCK FALSE`.

### Runs of `MC_BstEngine`

Every run has these bounds:
- three ids and two table slots, so the table fills and a third id is refused;
- three timer handles: the statistics timer plus two slots;
- a queue of 2, so a full queue and lost posts happen;
- intervals: drop-counter intervals {0, 1}; collection intervals {1, 2} with default 1,
  so the asic clamp applies;
- collection counts saturate at 2.

| Run | cfg | Expect | Shows |
|---|---|---|---|
| `engine_main` | `MC_BstEngine_main.cfg` | pass | Interleaved drop-counter and feature requests, reliable timer calls, failing asic calls: ids stay unique; every armed timer is owned and matches its request's slot; contexts name the request id; registered requests are collected until they are cancelled, and a tick still queued for a cancelled id collects nothing; the table refines `DropCtrRegistry`; reports on implies an armed statistics timer; a failed asic get or set never leaves `bstEnable` different from the enable the asic holds (`EnableMatchesAsic`, the partial failure at bst.c 256). |
| `stats_timer_context` | `MC_BstEngine_statsctx.cfg` | violation | Turning reports on and then changing the interval re-adds the timer with a cleared context: periodic reports stop. |
| `stats_timer_interval` | `MC_BstEngine_statsivl.cfg` | violation | An interval change without the `SND_ASYNC_REP` bit leaves the timer running at the old interval. |
| `leaked_drop_timer` | `MC_BstEngine_leak.cfg` | violation | A cancel whose timer delete fails leaks the timer. Once the slot is reused, two timers deliver the new id. |
| `drop_timer_add_failure` | `MC_BstEngine_addfail.cfg` | violation | A registration whose timer add fails leaves the request in the table, never collected. |

These bounds are enough:
- Every early return of the two handlers is reached: duplicate id, full table, one-shot
  request, unknown id on cancel, and a periodic tick for a cancelled id.
- Every branch of the timer add is reached.
- Each violation above needs at most five requests.

### `OvsdbBstPlugin`

| Variable | Code |
|---|---|
| `rpc` | the static session of `bst_ovsdb_threshold_commit`: `closed` while `count == 0`, `up`, or `failed` once a `jsonrpc_send` failed (the status is sticky and the session is never reopened) |
| `txq` | transactions sent and not yet executed by ovsdb-server |
| `ovsdb`, `sysdb` | the `trigger_threshold` of each bufmon row; the System row's `bufmon_config` (enabled, counters_mode, periodic_collection_enabled) |
| `notif` | update notifications queued on the monitor session, both tables in one stream |
| `pcache`, `pconfig` | the plugin cache `p_cache`: row thresholds and `config_data` |
| `monitor` | the monitor thread's session: `up`, or `down` once its open or its monitor request failed or a `jsonrpc_recv` returned an error |

Operators and actions:
- `ThresholdCommit(ws, openOk, k)` is `bst_ovsdb_threshold_commit` applied to each write
  of one realm entry. The open may fail (FAILURE, nothing sent). A send may fail; that is
  only logged, SUCCESS is returned and all later sends are lost.
- `ConfigCommit(c, openOk, txnOk)` is `bst_ovsdb_bst_config_commit`. It opens a fresh
  session each time, runs a blocking transaction and returns SUCCESS even when
  `check_txn` saw an error.
- `ServerTransact` is ovsdb-server executing the oldest transaction and notifying the
  monitor only when the column changed. `MonitorUpdate` is the monitor thread
  (`bst_ovsdb_cache_update`) applying the next notification. With `MonitorMayFail`
  the session may be down from the start (`MonitorStarts`: `bst_ovsdb_monitor` returns)
  or a receive may fail (`RecvOutcomes`). The jsonrpc status is sticky and the thread
  never opens another session, so `down` is final.
- `ThresholdGet` and `ConfigGet` read the plugin cache.

### `BstThreshold`

Variables: `units` (bytes, cells or percent, from `statUnitsInCells` and
`statsInPercentage`), `cache` (`bst_thresholds_cache`, one entry per realm field),
`record` (the GET_THRESHOLD record) and `reqs` (client requests so far, bounded by
`MaxThresholdReqs`). Each realm handler is one action step, since the BST thread runs
it to completion under the unit lock:
- it validates percentages (above 100 returns early);
- it converts masked fields with `ConvertThreshold` (floor percentage to cells, then
  cells to bytes) and takes unmasked fields from the cache;
- it commits one write per field through the plugin;
- on success it updates the cache: masked fields only, or every field for ipsp and isp.

The set-threshold requests are the ones the REST layer posts (`RealmRequests`): the
masks `BstThresholdValidator` lets through, cut to the realm's field bits, since the
handlers test only those. For the realms in the MC instances these are the non-empty
field masks; for egress-port-service-pool a command carrying only the MCSHARE_QUEUE bit
gives the empty mask, and the handler then rewrites all three fields from the cache.

`ClearThresholdSet` commits the default to every row and then refills the cache from the
plugin cache (`sbapi_bst_clear_thresholds`, not in `src/`, is modelled from the
specification as that commit).

`ThresholdReport` is what a get-bst-thresholds response carries for each row:
`ConvertData` (`bst_json_convert_data`, threshold branch) applied to the record. The
threshold comes in bytes. Percent mode divides by the cell size and takes the share of
the maximum buffer, rounded by `round_int` (`RoundQuotient`) and capped at 100; cells
mode divides by the cell size; bytes are reported as they are.

### `BstConfig`

`bstEnable` is `ConfigParams.bstEnable` and `track` is TrackParams. `track.peak` is
`trackPeakStats`; `track.realms` stands for the eleven realm flags, which the code only
compares and stores.
- `TrackSet` is `bst_config_track_set`. If no flag differs from TrackParams it returns
  early. Otherwise it commits enable from `bstEnable`, the mode from the request and
  periodic on, and stores the request on success.
- `FeatureEnableSet` is `bst_config_feature_set` with the enable bit (the plugin's
  `bst_prepare_configure_bst_feature_req` always sets it). It commits the plugin cache's
  `bufmon_config` with enable and periodic replaced, so counters_mode is whatever the
  cache held.

Fairness: `WF` on `ServerTransact` and `MonitorUpdate`. ovsdb-server and the monitor
thread are separate processes and threads that loop on their input. Clients have no
fairness and stop after `MaxThresholdReqs` requests, so the liveness properties say what
the system settles on once clients stop. `CHECK_DEADLOCK FALSE`: the system really stops
when clients are done and the queues drain.

### Runs of `MC_BstConfig` and `MC_BstThreshold`

Bounds:
- A 3-cell buffer of 2-byte cells; thresholds 0..6 bytes.
- Absolute inputs {2, 3}: 2 bytes is one whole cell and 3 bytes is not, so the byte and
  cell conversions both round-trip or both show a loss. Percent inputs {50, 150}: 50% of 3 cells is 1.5 cells, where
  floor and rounding differ, and 150% fails validation.
- Realms: device (one field, masked update) and ippg (two fields, so a partial mask
  keeps a cached field). `MC_BstThreshold` adds isp, whose cache update takes every field.
- Three client requests, enough for a tracking change followed by a feature-enable
  before the monitor catches up, or a set, a lost send and a later set.

| Run | cfg | Expect | Shows |
|---|---|---|---|
| `thresholds_and_config` | `MC_BstConfig.cfg` | pass | With failing opens and sends, under every kind of request: thresholds stay within the buffer; the plugin cache, with its pending notifications applied in order, equals ovsdb-server's tables and settles on them; the enabled column ends up as `ConfigParams.bstEnable`; a threshold set in bytes or cells reads back from get-bst-thresholds as it was set. Transactions are assumed to succeed and the monitor session to stay up (see the hazards at ovsdb_bst_ctl.c 751 and 595). |
| `tracking_mode_reverted` | `MC_BstConfig_mode.cfg` | violation | A tracking change followed by a feature-enable request, before the monitor applies the change, writes back the stale counters_mode. Repeating the tracking request returns early, so the mode on the switch never matches TrackParams again. |
| `threshold_lost_send` | `MC_BstThreshold_lostsend.cfg` | violation | After a failed `jsonrpc_send`, the engine caches thresholds the database never receives. |
| `threshold_read_after_write` | `MC_BstThreshold_ryw.cfg` | violation | A get right after a successful set reports the previous threshold (it reads the plugin cache). |
| `percent_rounding` | `MC_BstThreshold_rounding.cfg` | violation | 50% of 3 cells programs 1 cell (the floor), where the specification says round(1.5) = 2. |

Two faults are in the model but off in the passing run. TLC shows each of them with a
copy of `MC_BstConfig.cfg`, and no run is left to show them separately:
- With `TxnMayFail = TRUE`, `EnableProgrammed` fails: `check_txn` only logs a refused
  System transaction, and `ConfigParams.bstEnable` is stored anyway (ovsdb_bst_ctl.c 751).
- With `MonitorMayFail = TRUE`, `PluginCacheConverges` fails in three steps: the monitor
  session never came up, so the plugin cache never follows a committed configuration
  (ovsdb_bst_ctl.c 570-599).

### `BstReport`

Source: `bst.c` 548-646 (`bst_get_report`), 946-972 (`bst_clear_stats_set`),
991-1025 (`bst_update_data`), 1152-1321 (`bst_cgsn_drop_ctr_get`,
`bst_collect_cgsn_drop_counters`), 1337-1416 (`bst_get_cgsn_drp_ctrs`) and 1419-1445
(`bst_sort_records`); `bst_json_encoder.c` 692-1021
(`bstjson_encode_get_cgsn_drop_ctrs`).

State:
- `role` maps current, active and backup to one of three buffers: these are the record
  pointers.
- `rec` is what each buffer holds: the number of the capture that filled it, 0 after a
  memset, or `Torn` after a failed `sbapi_bst_snapshot_get`.
- `reported` is a history variable: the captures the dispatcher reported as active
  since the last clear.
- `asicDrops` holds the hardware drop counters. They are chosen at Init from
  `DropProfiles`.
- `drpCurr` and `drpActive` are the two drop records. Each is a function from the array
  index to `[type, port, queue, ctr]`.
- `report` is the sequence of entries the encoder writes; `lastReq` is the last command.

Actions:
- `StatsReport` is one GET_REPORT or TRIGGER_REPORT. `GetReport` clears and fills the
  current buffer. For a trigger, rv comes from `bst_enable_on_trigger` (line 616).
  `DispatchReport` rotates by `UpdateData` when rv is success. The dispatcher is in
  `bst_app.c`, so that step is modelled from spec 4.5.
- `ClearStats` zeroes all three buffers.
- `DropCounterReport` collects (`CollectDropCounters`), promotes the collected record to
  active, sorts it for the two top-N types (`SortRecords`, a RECURSIVE operator
  following the loop `i < count`, `j = i+1 .. TOTAL-1`), and encodes it (`EncodeDrops`,
  with the code's loop bounds). Where the ports and queues come from: `CollectPorts`
  and `CollectQueues` take the all-ports branch for the top types or for `"all"`.
  Otherwise they take the request's masks.
- The index macros (`TotalIndex`, `UcastIndex`, `McastIndex`) are not in the
  repository. They follow spec 3: region sizes `numPorts+1` and `numPorts x NumCos`,
  with slot 0 unused.
- The promotion of the current drop record to active is also not in the repository,
  and spec 9 leaves it open. The model assumes it. `bst_sort_records` sorts the active
  record, so without the promotion the response would be sorted from the previous
  request's data.

Properties:
- `RotationInvariant`: the roles name three distinct buffers; active holds the latest
  reported capture and backup the one before.
- `SortSelectsTopN`: the active record is a permutation of the collected one, and for
  the top types its first `count` entries are the largest, in non-increasing order.
  This is the reference definition of top-N selection against which `SortRecords` is
  checked.
- `DropReportComplete`: the response lists each requested non-zero counter at most
  once. For port requests it lists all of them. For top requests it lists
  `min(count, #non-zero)` of them, none smaller than one left out.

### `DropCounterParser`

Source: `get_bst_cgsn_drop_counters.c` 32-80 and 201-349
(`bstjson_get_bst_congestion_drop_counters` and its two string lookups), with the
mask bits of `get_bst_cgsn_drop_counters.h`. It has no state. `ParseDropRequest(j)`
maps the fields of a JSON request to the command the parser posts, or to `ParseError`:
- `ParseFails` is the field checks: an unknown request-type, a count outside
  1..`CountMax` (64), a port list with `"all"` and another entry, an unknown queue-type;
- fields the request leaves out stay 0 from the `memset`: count 0, no ports, no queues,
  queue type `none` (0 is none of the `BVIEW_BST_CGSN_*` queue types);
- `QueueBits` turns queue `q` into bit `q+1`;
- `RequestMask` and `CombinationValid` are the "permitted combinations" test. The
  command is posted whatever the test says; the test only decides whether `root` is
  freed early.

`CombinationValid` is `(mask & VALID) && (~mask & ~VALID)` with `~` on a `MaskWidth`-bit
word. The mask is 32 bits wide, but every bit the header defines is below 2^6, so any
width above 6 gives the same outcome, and the model uses 16 to stay inside TLC's integers.

### `BstThresholdValidator`

Source: `bst_nb_api.c` 51-85 (`bst_realm_type_get`), 229-290
(`bstjson_configure_bst_thresholds_impl`) and 538-928 (the eleven
`bst_*_threshold_input_validate`). It has no state. A command is its realm string, the
set of mask bits the JSON parser set (named after the `BstThreshold` field or index
they select) and the set of masked values that fail their range macro.
`ConfigureBstThresholds(c, capsOk)` follows the impl's order: an unknown realm is
INVALID_PARAMETER, a failed `sbapi_system_asic_capabilities_get` is FAILURE, a command
the realm's validator refuses is INVALID_PARAMETER, and otherwise the request is posted
with the whole mask. `Validators` lists, per realm, the value bits of which one must be
set, the index bits that must all be set, and the bits whose range is checked when
masked. The range macros, the mask values and `_BST_INPUT_PARAMS_CHECK` are defined
outside the repository: the macros are an input (`outOfRange`), and the index check is
taken to pass. The else branches that copy values whatever the mask are left out, since
the handlers read only masked values. `PostedRequests` is every request a command can
produce; `BstThreshold` draws its requests from it.

### Runs of `MC_BstReport`

Bounds:
- Two ports of two queues, so the record has 11 slots and a last port that differs
  from the first.
- Counter values {0, 1, 2}, in every vector with at most two non-zero counters. These
  cover ties, a larger counter after a smaller one, and a counter in the last slot.
- Up to four captures, with clear-stats at any point.
- One drop-counter request per behaviour. The drop records do not depend on earlier
  requests: every collection clears the record and the sort and the encoder read only
  the new record.
- Requests: top drops with count 1 and 2; top port-queue drops with count 1 and 3 for
  queue types all and ucast; port drops by list and by `"all"`; port-queue drops by
  list, with one or both queues, for queue types all and mcast. Three more requests lie
  outside the `VALID` sets: top drops without a count, top port-queue drops with a port
  list, and port drops with a count and a queue type. Every request is a JSON request
  (`MCJsonRequests`) passed through `ParseDropRequest`. An `ASSUME` checks that each of
  them passes the combination test: the test accepts every combination, because the
  mask always holds the request-type bit and `~mask & ~VALID` keeps the high bits.

| Run | cfg | Expect | Shows |
|---|---|---|---|
| `bst_report` | `MC_BstReport.cfg` | pass | Under failing snapshots the rotation keeps active and backup on the last two reported captures. The sort selects the top `count`. Top, top port-queue and port responses list exactly the requested counters. The encoder's extra read at `i = count` (806, 838) never adds an entry: slot 0 starts at zero, and the exchange sort always leaves a zero in slot `count`. |
| `port_queue_drops_last_port` | `MC_BstReport_portq.cfg` | violation | A port-queue request for both ports gets no entry for port 2: the loop `prt < numPorts` (883) skips the last port. |

Two hazards are shown by TLC with these cfgs, but no run is left for them:
- With trigger reports added (`ReportKinds = {FALSE, TRUE}`), `RotationInvariant`
  fails in two steps. A failed capture is rotated in as active because the trigger's rv
  replaces the snapshot's (bst.c 616).
- With a port-queue request whose port list is `"all"`, `DropReportComplete` fails in
  one step. The all-ports branch leaves the queue list empty (bst.c 1249-1266).

## 4. Not modelled, and why

- Wire formats: cJSON parsing, string copies and notation mapping, and the JSON text the
  encoders write. Three parts are modelled: the drop-counter parser's fields and checks
  (`DropCounterParser`), the entries the drop-counter encoder writes, and the threshold
  conversion of the get-bst-thresholds response. Logging and the CLI are also left out.
- The JSON parsers of configure-bst-thresholds, -feature and -tracking, which are not in
  the repository, and the range macros the threshold validators call, which are defined
  outside it. The validators themselves are modelled (`BstThresholdValidator`); the
  feature and tracking requests are the input sets of the MC modules.
- The egress-port-service-pool realm in the MC instances: its three fields take the
  `thresholds_and_config` run past five minutes. The request with only the
  MCSHARE_QUEUE bit, which reaches its handler with no field bit, is listed as a hazard
  (bst_nb_api.c 664).
- System and bootstrap: `system.c`, `agent.c`, `rest_config.c`, `sbplugin_system.c` and
  `ovsdb_system_ctl.c`. This covers the start-up order, static system information, the
  REST configuration file and the asic and port notation translators. It is sequential
  start-up I/O with one asic, and no state a property tells apart. The asic-id
  translator's missing check for negative values is listed as a hazard
  (sbplugin_system.c 332).
- Counter statistics of the plugin (`bst_ovsdb_stat_get`), the row-key builder,
  `bst_ovsdb_resolve_index` and the connection file. The plugin cache's row layout is
  filled by `bst_ovsdb_row_update`, which is not in the repository, so the model keeps
  thresholds by row. The index arithmetic's missing check for port 0 and for an index
  past the row is listed as a hazard (sbplugin_bst_ovsdb.c 227), and so is the
  unterminated System row UUID (ovsdb_bst_ctl.c 362).
- The collection period in `bufmon_config`: it is formatted into `buf`, but
  `BST_OVSDB_CONFIG_JSON_FORMAT` (ovsdb_bst_ctl.c 63) has no key for it, so it is never
  written (hazard at ovsdb_bst_ctl.c 727).
- `bst_app.c`, the timer facility and `bst_send_request` are not in `src/`. They are
  modelled from the specification (`Dispatch`, `TimerFire`, `Post`) and marked
  `spec_modelled`.
- Failed drop-counter fetches: `bst_collect_cgsn_drop_counters` ignores them (hazard
  at bst.c 1282). One outcome per counter would multiply the states of every request.
- Drop-counter counts near the parser's limit: the parser allows up to 64, and the
  record has one slot per port and queue of the platform, so `drop_ctrs[count]` stays
  inside it. The model keeps counts inside its smaller array.
- Several units: every handler is per unit and units share nothing but the queue.
