---------------------------- MODULE MC_BstConfig ----------------------------
(***************************************************************************)
(* BstConfig for TLC: configuration and tracking requests interleaved with *)
(* threshold requests on the device realm and the two-field ingress port  *)
(* priority-group realm; a 3-cell buffer of 2-byte cells.                   *)
(***************************************************************************)
EXTENDS BstConfig

MCRealmSeq == <<"device", "ippg">>
MCUnitModes == {"bytes", "cells", "percent"}
MCAbsInputs == {2, 3}
MCPercentInputs == {50, 150}
\* The System row as ovsdb-server starts it: BST off, current mode,
\* periodic collection on.
MCInitialConfig == [enable |-> FALSE, mode |-> "current", periodic |-> TRUE]
=============================================================================
