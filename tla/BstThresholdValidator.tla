------------------------ MODULE BstThresholdValidator ------------------------
(***************************************************************************)
(* The REST side of configure-bst-thresholds (src/src/apps/bst/            *)
(* bst_nb_api.c): bstjson_configure_bst_thresholds_impl looks the realm    *)
(* string up in realm_threshold_map, runs the realm's input validator on   *)
(* the parsed command and posts the set-threshold request to the BST       *)
(* application with the command's mask.                                    *)
(*                                                                         *)
(* A command is a record: realm (the realm string), mask (the set of mask  *)
(* bits the JSON parser set) and outOfRange (the masked values whose       *)
(* BVIEW_BST_*_CHECK range macro fails; the macros and the mask values     *)
(* are defined outside the repository).  A mask bit is named after the     *)
(* BstThreshold field it selects ("data" is BVIEW_BST_DEVICE_MASK), or     *)
(* after the index it carries (port, pg, sp, queue).                       *)
(***************************************************************************)
EXTENDS Naturals

\* realm_threshold_map: the realm string, the realm (threshold type) it
\* selects and the validator, which the realm names.
RealmThresholdMap ==
    << [realm |-> "device",                       type |-> "device"],
       [realm |-> "ingress-port-priority-group",  type |-> "ippg"],
       [realm |-> "ingress-port-service-pool",    type |-> "ipsp"],
       [realm |-> "ingress-service-pool",         type |-> "isp"],
       [realm |-> "egress-port-service-pool",     type |-> "epsp"],
       [realm |-> "egress-service-pool",          type |-> "esp"],
       [realm |-> "egress-uc-queue",              type |-> "euq"],
       [realm |-> "egress-uc-queue-group",        type |-> "euqg"],
       [realm |-> "egress-mc-queue",              type |-> "emc"],
       [realm |-> "egress-cpu-queue",             type |-> "ecpu"],
       [realm |-> "egress-rqe-queue",             type |-> "erqe"] >>

RealmStrings == {RealmThresholdMap[i].realm : i \in DOMAIN RealmThresholdMap}

\* bst_realm_type_get: the threshold type of the first entry whose string
\* matches, or "none" (FAILURE) when no entry does.
RealmTypeGet(str) ==
    LET hits == {i \in DOMAIN RealmThresholdMap : RealmThresholdMap[i].realm = str}
    IN  IF hits = {} THEN "none"
        ELSE RealmThresholdMap[CHOOSE i \in hits : \A j \in hits : i <= j].type

(***************************************************************************)
(* The eleven bst_*_threshold_input_validate functions, as the bits each   *)
(* one tests: at least one of its value bits, every one of its index bits, *)
(* and the range check of each masked bit it checks.  The else branches    *)
(* that copy the command's values into the request whatever the mask are   *)
(* left out: the realm handlers read only the masked values.               *)
(***************************************************************************)
Validators ==
    [device |-> [values |-> {"data"}, index |-> {},
                 checked |-> {"data"}],
     ippg   |-> [values |-> {"umShare", "umHeadroom"}, index |-> {"port", "pg"},
                 checked |-> {"umShare", "umHeadroom"}],
     ipsp   |-> [values |-> {"umShare"}, index |-> {"port", "sp"},
                 checked |-> {"umShare"}],
     isp    |-> [values |-> {"umShare"}, index |-> {"sp"},
                 checked |-> {"umShare"}],
     epsp   |-> [values |-> {"umShare", "ucShare", "mcShare", "mcShareQueue"},
                 index |-> {"port", "sp"},
                 checked |-> {"umShare", "ucShare", "mcShare", "mcShareQueue"}],
     esp    |-> [values |-> {"umShare", "mcShare"}, index |-> {"sp"},
                 checked |-> {"umShare", "mcShare"}],
     euq    |-> [values |-> {"uc"}, index |-> {"queue"}, checked |-> {"uc"}],
     euqg   |-> [values |-> {"uc"}, index |-> {"queue"}, checked |-> {"uc"}],
     emc    |-> [values |-> {"mc"}, index |-> {"queue"},
                 checked |-> {"mc", "mcQueue"}],
     ecpu   |-> [values |-> {"cpu"}, index |-> {"queue"}, checked |-> {"cpu"}],
     erqe   |-> [values |-> {"rqe"}, index |-> {"queue"}, checked |-> {"rqe"}]]

\* The mask bits a validator looks at.
RealmBits(t) == Validators[t].values \cup Validators[t].index \cup Validators[t].checked

\* The validator of realm t accepts command c.
InputValidate(t, c) ==
    /\ c.mask \cap Validators[t].values # {}
    /\ Validators[t].index \subseteq c.mask
    /\ c.mask \cap Validators[t].checked \cap c.outOfRange = {}

\* bstjson_configure_bst_thresholds_impl: an unknown realm or a command its
\* validator refuses is INVALID_PARAMETER, a failed
\* sbapi_system_asic_capabilities_get is FAILURE; otherwise the request is
\* posted with the realm's threshold type and the command's whole mask.
\* (_BST_INPUT_PARAMS_CHECK, defined outside the repository, is taken to
\* pass: the commands carry indexes within the asic's capabilities.)
ConfigureBstThresholds(c, capsOk) ==
    LET t == RealmTypeGet(c.realm)
    IN  CASE t = "none"              -> [status |-> "invalid"]
          [] ~capsOk                 -> [status |-> "failure"]
          [] ~InputValidate(t, c)    -> [status |-> "invalid"]
          [] OTHER -> [status |-> "posted", msg |-> [realm |-> t, mask |-> c.mask]]

\* The commands a client can send for the realm string str: any set of the
\* bits its validator looks at (bits of other realms only travel along in
\* the mask and no handler of this realm tests them), any subset of them
\* out of range.
Commands(str) ==
    LET bits == IF RealmTypeGet(str) = "none" THEN {}
                ELSE RealmBits(RealmTypeGet(str))
    IN  {[realm |-> str, mask |-> m, outOfRange |-> o] :
            m \in SUBSET bits, o \in SUBSET bits}

\* The outcomes of every command a client can send.
CommandOutcomes ==
    {ConfigureBstThresholds(c, ok) :
        c \in UNION {Commands(s) : s \in RealmStrings}, ok \in BOOLEAN}

\* Every request the REST layer posts to the BST application.
PostedRequests == {r.msg : r \in {x \in CommandOutcomes : x.status = "posted"}}
=============================================================================
