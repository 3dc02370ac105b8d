----------------------------- MODULE MC_BstReport -----------------------------
(***************************************************************************)
(* Instances of BstReport: two ports of two queues, so that every drop     *)
(* record has eleven slots and the last port differs from the first.       *)
(***************************************************************************)
EXTENDS BstReport

CONSTANTS Absent, All

Parser == INSTANCE DropCounterParser WITH CountMax <- 64, MaskWidth <- 16

\* A JSON request with the given fields.
Json(t, c, ps, qt, qs) ==
    [type |-> t, count |-> c, ports |-> ps, qtype |-> qt, queues |-> qs]

\* Top drops with count 1 and 2 and top port-queue drops for two queue
\* types, port drops by list and by "all"; and combinations outside the
\* BVIEW_BST_*_DRP_VALID sets that the combination test lets through:
\* top drops without a count, top port-queue drops with a port list, port
\* drops with a count and a queue type.
MCJsonRequests ==
    {Json("top-drops", c, Absent, Absent, Absent) : c \in {1, 2}}
    \cup {Json("top-port-queue-drops", c, Absent, qt, Absent) :
            c \in {1, 3}, qt \in {"all", "ucast"}}
    \cup {Json("port-drops", Absent, ps, Absent, Absent) :
            ps \in {{1}, {1, 2}, {All}}}
    \cup {Json("top-drops", Absent, Absent, Absent, Absent),
          Json("top-port-queue-drops", 1, {1}, "mcast", Absent),
          Json("port-drops", 1, {2}, "ucast", Absent)}

\* Every request above passes the combination test, those outside the
\* permitted sets included: mask always holds the request-type bit, which
\* every VALID set holds, and ~mask & ~VALID always keeps the high bits.
ASSUME \A j \in MCJsonRequests :
          Parser!CombinationValid(Parser!ReqTypeMap[j.type],
                                  Parser!RequestMask(j))

MCReportRequests == {Parser!ParseDropRequest(j) : j \in MCJsonRequests}

\* Port-queue drops for both ports by list.
MCPortQueueRequests ==
    {Parser!ParseDropRequest(Json("port-queue-drops", Absent, {1, 2}, qt, qs)) :
        qs \in {{0}, {0, 1}}, qt \in {"all", "mcast"}}

\* Counter vectors with at most two non-zero counters, equal or not.
MCDropProfiles ==
    {[k \in DropKeys |-> IF k = a THEN x ELSE IF k = b THEN y ELSE 0] :
        a \in DropKeys, b \in DropKeys, x \in DropValues, y \in DropValues}

=============================================================================
