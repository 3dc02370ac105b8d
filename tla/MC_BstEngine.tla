---------------------------- MODULE MC_BstEngine ----------------------------
(***************************************************************************)
(* Instances of BstEngine for TLC: three request ids over two table        *)
(* slots (so the table fills up and a third id is refused), drop-counter   *)
(* intervals 0 (one-shot) and 1, collection intervals 1 and 2 with a       *)
(* default plugin interval of 1 (so 2 is clamped for the asic).            *)
(***************************************************************************)
EXTENDS BstEngine

MCIds == {1, 2, 3}
MCHandles == 1..3
MCDropIntervals == {1}

\* Registrations (one-shot and periodic) and cancellations of every id.
DropRequests ==
    [type : {"cgsn"}, periodic : {FALSE}, id : MCIds, intrvl : {0} \cup MCDropIntervals]
    \cup [type : {"cancel"}, id : MCIds]

\* Feature requests: reports on or off with or without a new interval,
\* the interval alone, and the enable bit with reports on.
FeatureRequests ==
    [type : {"feature"}, mask : {{"async"}, {"interval", "async"}, {"interval"},
                                 {"enable", "async"}},
     interval : {1, 2}, async : BOOLEAN, enable : {TRUE}]
\* Both kinds of client request.
AllRequests == DropRequests \cup FeatureRequests
=============================================================================
