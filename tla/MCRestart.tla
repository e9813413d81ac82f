----------------------------- MODULE MCRestart -----------------------------
(***************************************************************************)
(* An instance of Restart for TLC.                                         *)
(***************************************************************************)
EXTENDS Restart

(* Two points make a file with something after a point, one a file of      *)
(* another length.                                                         *)
Ngp == <<2, 1>>

(* Both orders in which the points of a rank may pass their limits, and a  *)
(* point that never does.                                                  *)
Histories == {<<<<1, 2>>, <<2>>>>, <<<<2, 1>>, <<9>>>>, <<<<9, 2>>, <<1>>>>}
=============================================================================
