------------------------------- MODULE MCCell -------------------------------
(***************************************************************************)
(* An instance of Cell for TLC.                                            *)
(***************************************************************************)
EXTENDS Cell

(* Every shape from no inner node at all to three of them in a row, and    *)
(* two fine enough for the thin layers of MIC3D_8: grids of an even and of *)
(* odd numbers of elements.                                                *)
Grids == ((2 .. 5) \X (2 .. 5) \X (2 .. 5)) \cup {<<6, 7, 6>>, <<4, 6, 7>>}

(* With two or six elements in y some centres are as far from an axis of   *)
(* MIC3D_FIBS_20_ORDER as its radius, and rounding decides: left out.      *)
Rounded(s) == IF s[2] \in {3, 7} THEN {"MIC3D_FIBS_20_ORDER"} ELSE {}

AllStructures(s) == MicroType \ Rounded(s)
=============================================================================
