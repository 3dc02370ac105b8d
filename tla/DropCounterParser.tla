-------------------------- MODULE DropCounterParser --------------------------
(***************************************************************************)
(* The REST parser of get-bst-congestion-drop-counters                     *)
(* (src/src/apps/bst/api/get_bst_cgsn_drop_counters.c): from the fields of *)
(* a JSON request to the command it posts to the BST application, or to    *)
(* the error it returns.                                                   *)
(*                                                                         *)
(* A JSON request is a record: type (the request-type string), count,      *)
(* ports (the port-list: a set of port numbers, or All for "all"), qtype   *)
(* (the queue-type string) and queues (the queue-list numbers); a field    *)
(* the request leaves out is Absent.  Port strings are taken as already    *)
(* mapped from their notation; 0 stands for one that maps to no port.      *)
(***************************************************************************)
EXTENDS Integers, FiniteSets, Bitwise

CONSTANTS
    CountMax,  \* BVIEW_BST_CGSN_COUNT_MAX
    Absent,    \* a field the request does not carry
    All,       \* the port-list entry "all"
    MaskWidth  \* the width of the unsigned mask

\* The request-type strings of cgsn_drp_req_map and the queue-type strings
\* of cgsn_drp_q_type_map, with the values the lookups write.
ReqTypeMap   == [s \in {"top-drops", "top-port-queue-drops", "port-drops",
                        "port-queue-drops"} |->
                    CASE s = "top-drops"            -> "top"
                      [] s = "top-port-queue-drops" -> "topq"
                      [] s = "port-drops"           -> "prt"
                      [] s = "port-queue-drops"     -> "prtq"]
QueueTypeMap == [s \in {"ucast", "mcast", "all"} |-> s]

\* The mask bits of get_bst_cgsn_drop_counters.h.
PortListBit  == 2
CountBit     == 4
QueueTypeBit == 8
QueueListBit == 16
ReqTypeBit   == 32

\* BVIEW_BST_*_DRP_VALID: the fields each request type is meant to carry.
ValidMask ==
    [top  |-> CountBit + ReqTypeBit,
     topq |-> CountBit + ReqTypeBit + QueueTypeBit,
     prt  |-> PortListBit + ReqTypeBit,
     prtq |-> PortListBit + ReqTypeBit + QueueTypeBit + QueueListBit]

\* ~x on the unsigned mask.  The mask is 32 bits wide; every bit the
\* header defines lies below 2^6, so any width above 6 gives the test the
\* same outcome, and a model may take a smaller one than TLC's integers
\* can hold.
Complement(x) == 2^MaskWidth - 1 - x

ParseError == [type |-> "error"]

Has(j, f) == j[f] # Absent

\* The outcome of the field checks, in the order the parser makes them: an
\* unknown request-type, a count outside [1, CountMax], a port list with
\* "all" and another entry, or an unknown queue-type returns an error.
ParseFails(j) ==
    \/ j.type \notin DOMAIN ReqTypeMap
    \/ Has(j, "count") /\ j.count \notin 1..CountMax
    \/ Has(j, "ports") /\ All \in j.ports /\ Cardinality(j.ports) > 1
    \/ Has(j, "qtype") /\ j.qtype \notin DOMAIN QueueTypeMap

\* The queue-list bits: each queue number plus one, a resulting 0 skipped.
QueueBits(j) == IF Has(j, "queues") THEN {q + 1 : q \in j.queues} \ {0}
                ELSE {}

\* The mask the parser accumulates: the request type always, count,
\* port-list and queue-type when present, queue-list when a bit was set.
RequestMask(j) ==
    ReqTypeBit
    + (IF Has(j, "count") THEN CountBit ELSE 0)
    + (IF Has(j, "ports") THEN PortListBit ELSE 0)
    + (IF Has(j, "qtype") THEN QueueTypeBit ELSE 0)
    + (IF QueueBits(j) # {} THEN QueueListBit ELSE 0)

\* The "permitted combinations" test: (mask & VALID) && (~mask & ~VALID).
CombinationValid(t, mask) ==
    /\ (mask & ValidMask[t]) # 0
    /\ (Complement(mask) & Complement(ValidMask[t])) # 0

\* bstjson_get_bst_congestion_drop_counters: the command it posts.  It
\* starts from a zeroed command; fields the request leaves out stay 0
\* (queue_type 0 is none of the BVIEW_BST_CGSN_* queue types).  The result
\* of the combination test only decides whether root is freed early; the
\* command is posted either way.
ParseDropRequest(j) ==
    IF ParseFails(j) THEN ParseError
    ELSE [type     |-> ReqTypeMap[j.type],
          count    |-> IF Has(j, "count") THEN j.count ELSE 0,
          allPorts |-> Has(j, "ports") /\ All \in j.ports,
          ports    |-> IF Has(j, "ports") THEN j.ports \ {All, 0} ELSE {},
          queues   |-> QueueBits(j),
          qtype    |-> IF Has(j, "qtype") THEN QueueTypeMap[j.qtype]
                       ELSE "none"]
=============================================================================
