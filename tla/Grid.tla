-------------------------------- MODULE Grid --------------------------------
(***************************************************************************)
(* The structured grid of a cell and the places its nodes have in a matrix *)
(* in ELLPACK format: the table made by ell_init_cols, and the slots that  *)
(* ell_add_3D and its OpenACC and CUDA versions add element matrices into. *)
(*                                                                         *)
(* A grid node is <<x, y, z>>.  The nfield components of a node stand side *)
(* by side and are counted as one.                                         *)
(***************************************************************************)
EXTENDS Integers

CONSTANTS
  nx, ny, nz   \* nodes of the grid in each direction

ASSUME GridAssumption ==
  nx \in Nat \ {0} /\ ny \in Nat \ {0} /\ nz \in Nat \ {0}

Plane == 0 .. nz - 1
GridNode == (0 .. nx - 1) \X (0 .. ny - 1) \X Plane

(* nod_index3D *)
Index(n) == n[3] * (nx * ny) + n[2] * nx + n[1]

Slot == 0 .. 26

(* Mutant: the neighbours listed by x, then y, then z.                     *)
OffsetByX(s) == <<(s \div 9) - 1, ((s \div 3) % 3) - 1, (s % 3) - 1>>

(* Slot s of a row stands for the neighbour at this offset; the table in   *)
(* the code lists the 27 of them by z, then y, then x.                     *)
Offset(s) == <<(s % 3) - 1, ((s \div 3) % 3) - 1, (s \div 9) - 1>>

Neighbour(n, s) ==
  <<n[1] + Offset(s)[1], n[2] + Offset(s)[2], n[3] + Offset(s)[3]>>

(* The eight nodes of an element, in the order of ix_glo.                  *)
Corner(e, a) ==
  LET o == <<<<0, 0, 0>>, <<1, 0, 0>>, <<1, 1, 0>>, <<0, 1, 0>>,
             <<0, 0, 1>>, <<1, 0, 1>>, <<1, 1, 1>>, <<0, 1, 1>>>>[a]
  IN  <<e[1] + o[1], e[2] + o[2], e[3] + o[3]>>

Element == (0 .. nx - 2) \X (0 .. ny - 2) \X (0 .. nz - 2)

(* cols_row: the slot in row a of an element's node b.                     *)
ColsRow ==
  <<<<13, 14, 17, 16, 22, 23, 26, 25>>,
    <<12, 13, 16, 15, 21, 22, 25, 24>>,
    << 9, 10, 13, 12, 18, 19, 22, 21>>,
    <<10, 11, 14, 13, 19, 20, 23, 22>>,
    << 4,  5,  8,  7, 13, 14, 17, 16>>,
    << 3,  4,  7,  6, 12, 13, 16, 15>>,
    << 0,  1,  4,  3,  9, 10, 13, 12>>,
    << 1,  2,  5,  4, 10, 11, 14, 13>>>>

(* The slot of the diagonal, shift.                                        *)
Shift == 13
=============================================================================
