--------------------------- MODULE MCSftpTransfer ---------------------------
(* Small instances of the transfer engine for TLC. *)
EXTENDS SftpTransfer, TLC

(* Version 2 is shorter than version 1: a stale tail would show. *)
TwoVersions == {1, 2}
SizesTwo == [v \in TwoVersions |-> IF v = 1 THEN 3 ELSE 2]

OneVersion == {1}
SizeThree == [v \in OneVersion |-> 3]
SizeTwo == [v \in OneVersion |-> 2]

LaneSymmetry == Permutations(Lanes)
=============================================================================
