-------------------------- MODULE MC_BstThreshold --------------------------
(***************************************************************************)
(* BstThreshold for TLC: the device realm, the two-field ingress port      *)
(* priority-group realm (masked cache update) and the ingress service-pool *)
(* realm (unconditional cache update); a 3-cell buffer of 2-byte cells.    *)
(***************************************************************************)
EXTENDS BstThreshold

MCRealmSeq == <<"device", "ippg", "isp">>
MCUnitModes == {"bytes", "cells", "percent"}
MCAbsInputs == {1, 3}
\* 50% of 3 cells is 1.5 cells: the case where floor and rounding differ;
\* 150% fails the percentage validation.
MCPercentInputs == {50, 150}
MCInitialConfig == [enable |-> FALSE, mode |-> "current", periodic |-> TRUE]
=============================================================================
