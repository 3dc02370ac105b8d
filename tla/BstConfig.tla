------------------------------ MODULE BstConfig ------------------------------
(***************************************************************************)
(* ConfigParams and TrackParams of the BST engine (src/src/apps/bst/bst.c) *)
(* as they reach the switch: bst_config_feature_set with the enable bit in  *)
(* its mask and bst_config_track_set both read the System row's           *)
(* bufmon_config through sbapi_bst_config_get, change it and write it back *)
(* through sbapi_bst_config_set, which is bst_ovsdb_bst_config_commit of   *)
(* the OVSDB plugin. The threshold requests of BstThreshold share the      *)
(* plugin, the server and the monitor thread with them.                    *)
(*                                                                         *)
(*   bstEnable : ConfigParams.bstEnable, the last enable programmed;       *)
(*   track     : TrackParams, the last tracking request programmed: peak  *)
(*               is trackPeakStats, realms stands for the eleven per-realm *)
(*               track flags, which the code only compares and stores.     *)
(***************************************************************************)
EXTENDS BstThreshold

VARIABLES bstEnable, track

configVars == <<vars, bstEnable, track>>

TrackRequests == [peak : BOOLEAN, realms : BOOLEAN]

ConfigInit ==
    /\ Init
    /\ bstEnable = InitialConfig.enable
    /\ track = [peak |-> InitialConfig.mode = "peak", realms |-> FALSE]

ConfigTypeOK ==
    /\ TypeOK
    /\ bstEnable \in BOOLEAN
    /\ track \in TrackRequests

\* The counters_mode a tracking request programs.
TrackingMode(t) == IF t.peak THEN "peak" ELSE "current"

(***************************************************************************)
(* The handlers, each one step of the BST thread under the unit lock.      *)
(***************************************************************************)

\* The bufmon_config bst_config_track_set programs: bstMode is filled from
\* sbapi_bst_config_get, but enable comes from ConfigParams.bstEnable, the
\* mode from the request and periodic collection is always on.
TrackConfigStaleEnable(t) ==
    [enable |-> Plugin!ConfigGet.enable, mode |-> TrackingMode(t),
     periodic |-> TRUE]

TrackConfig(t) ==
    [enable |-> bstEnable, mode |-> TrackingMode(t), periodic |-> TRUE]

\* bst_config_track_set: when no flag of the request differs from
\* TrackParams it returns at once; otherwise it programs the switch and,
\* when sbapi_bst_config_set succeeds, stores the request as TrackParams.
TrackSet(t, openOk, txnOk) ==
    IF t = track THEN UNCHANGED <<pluginVars, track>>
    ELSE /\ Plugin!ConfigCommit(TrackConfig(t), openOk, txnOk)
         /\ track' = IF openOk THEN t ELSE track

\* The bufmon_config bst_config_feature_set programs when the enable bit is
\* in the mask: the one sbapi_bst_config_get returned, with enable taken
\* from the request and periodic collection turned on. counters_mode keeps
\* whatever the plugin cache held.
FeatureConfig(en) ==
    [Plugin!ConfigGet EXCEPT !.enable = en, !.periodic = TRUE]

\* bst_config_feature_set with the enable bit in its mask: program the
\* switch and, on success, store bstEnable.
FeatureEnableSet(en, openOk, txnOk) ==
    /\ Plugin!ConfigCommit(FeatureConfig(en), openOk, txnOk)
    /\ bstEnable' = IF openOk THEN en ELSE bstEnable

\* A configure-bst-tracking request (bst_prepare_configure_tracking_req or
\* the JSON-RPC method), handled by the BST thread.
ConfigureTracking ==
    /\ reqs < MaxThresholdReqs
    /\ \E t \in TrackRequests, openOk \in Plugin!OpenOutcomes,
          txnOk \in Plugin!TxnOutcomes :
          TrackSet(t, openOk, txnOk)
    /\ reqs' = reqs + 1
    /\ UNCHANGED <<units, cache, record, bstEnable>>

\* A configure-bst-feature request that carries the enable bit
\* (bst_prepare_configure_bst_feature_req always sets it).
ConfigureFeature ==
    /\ reqs < MaxThresholdReqs
    /\ \E en \in BOOLEAN, openOk \in Plugin!OpenOutcomes,
          txnOk \in Plugin!TxnOutcomes :
          FeatureEnableSet(en, openOk, txnOk)
    /\ reqs' = reqs + 1
    /\ UNCHANGED <<units, cache, record, track>>

\* The steps of BstThreshold, which leave ConfigParams and TrackParams alone.
ThresholdStep(A) == A /\ UNCHANGED <<bstEnable, track>>

ConfigNext ==
    \/ ThresholdStep(SetThreshold)
    \/ ThresholdStep(ClearThresholds)
    \/ ThresholdStep(GetThreshold)
    \/ ThresholdStep(ServerTransact)
    \/ ThresholdStep(MonitorUpdate)
    \/ ConfigureTracking
    \/ ConfigureFeature

\* ovsdb-server and the monitor thread keep running, as in BstThreshold.
ConfigSpec ==
    ConfigInit /\ [][ConfigNext]_configVars
    /\ WF_configVars(ThresholdStep(ServerTransact))
    /\ WF_configVars(ThresholdStep(MonitorUpdate))

(***************************************************************************)
(* Properties.                                                             *)
(***************************************************************************)

\* Once the clients stop, the enabled column of bufmon_config is the
\* ConfigParams.bstEnable the engine believes it programmed: a tracking
\* change, which writes bufmon_config whole, never turns BST back on or off.
EnableProgrammed == <>[](sysdb.enable = bstEnable)

\* Once the clients stop, counters_mode is the tracking mode of TrackParams
\* (spec 3: a TrackParams change re-programs the tracking mode).
TrackingModeProgrammed == <>[](sysdb.mode = TrackingMode(track))
=============================================================================
