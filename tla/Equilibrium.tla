---------------------------- MODULE Equilibrium ----------------------------
(***************************************************************************)
(* The equilibrium of a cell: what newton_raphson of src/solve.cpp does to *)
(* the nodes of the grid through set_displ_bc, assembly_rhs, assembly_mat, *)
(* ell_set_bc_3D and the preconditioned conjugate gradient ell_solve_cgpd. *)
(*                                                                         *)
(* Three routines walk over the six faces of the cell, each with loop      *)
(* bounds of its own: one imposes displacements, one clears residuals, one *)
(* replaces rows of the matrix.  The matrix keeps its boundary columns, so *)
(* it is not symmetric; the conjugate gradient works because no boundary   *)
(* component ever becomes other than zero.  This module is about that.     *)
(*                                                                         *)
(* Data.  A vector is represented by the set of nodes where it may differ  *)
(* from zero, a matrix row by the elements that have added to it, and the  *)
(* displacement of a node by the position whose affine displacement it is. *)
(* z = k * r has the nodes of r, and Ap is used up in the iteration that   *)
(* makes it: neither is kept.  One run solves for one strain after another *)
(* on one grid; use_A0 is refused by the constructor and left out.         *)
(***************************************************************************)
EXTENDS Integers, FiniteSets

CONSTANTS
  Sizes,     \* the grids considered, <<nx, ny, nz>>
  NrMaxIts,  \* nr_max_its
  CgMaxIts   \* max_its of the matrix

ASSUME EquilibriumAssumption ==
  /\ Sizes \subseteq (Nat \ {0, 1}) \X (Nat \ {0, 1}) \X (Nat \ {0, 1})
  /\ NrMaxIts \in Nat
  /\ CgMaxIts \in Nat

VARIABLES
  size,     \* the grid
  pc,       \* the routine the solver is in
  face,     \* which of its six loops over a face is next
  its,      \* Newton iterations done
  cg,       \* conjugate gradient iterations done
  u, b, rows,
  x, r, p   \* vectors of ell_solve_cgpd

vars == <<size, pc, face, its, cg, u, b, rows, x, r, p>>

Last(d) == size[d] - 1
All(d) == 0 .. Last(d)
Inner(d) == 1 .. Last(d) - 1
Low == {0}
High(d) == {Last(d)}

Node == All(1) \X All(2) \X All(3)

Boundary == {n \in Node : \E d \in 1 .. 3 : n[d] \in Low \cup High(d)}

Element == (0 .. Last(1) - 1) \X (0 .. Last(2) - 1) \X (0 .. Last(3) - 1)

Nodes(e) == (e[1] .. e[1] + 1) \X (e[2] .. e[2] + 1) \X (e[3] .. e[3] + 1)

ElementsAt(n) == {e \in Element : n \in Nodes(e)}

(* The position of a displacement that is no affine one of the strain.     *)
Elsewhere == <<-1, -1, -1>>

(***************************************************************************)
(* The loops over the faces, in the order z = 0, z = lz, y = 0, y = ly,    *)
(* x = 0, x = lx.                                                          *)
(***************************************************************************)

(* set_displ_bc walks over each face completely: an edge is written twice, *)
(* a corner three times.                                                   *)
FacesOfDispl ==
  <<All(1) \X All(2) \X Low,    All(1) \X All(2) \X High(3),
    All(1) \X Low \X All(3),    All(1) \X High(2) \X All(3),
    Low \X All(2) \X All(3),    High(1) \X All(2) \X All(3)>>

(* Mutant: the last loop copies the coordinate of the one before.          *)
CoorCopied(f, n) ==
  CASE f = 1 -> [n EXCEPT ![3] = 0] [] f = 2 -> [n EXCEPT ![3] = Last(3)]
    [] f = 3 -> [n EXCEPT ![2] = 0] [] f = 4 -> [n EXCEPT ![2] = Last(2)]
    [] f = 5 -> [n EXCEPT ![1] = 0] [] f = 6 -> [n EXCEPT ![1] = 0]

(* The coordinates the loop over face f computes for a node, in units of   *)
(* dx, dy and dz: two from its counters, the third is 0 or the length.     *)
Coor(f, n) ==
  CASE f = 1 -> [n EXCEPT ![3] = 0] [] f = 2 -> [n EXCEPT ![3] = Last(3)]
    [] f = 3 -> [n EXCEPT ![2] = 0] [] f = 4 -> [n EXCEPT ![2] = Last(2)]
    [] f = 5 -> [n EXCEPT ![1] = 0] [] f = 6 -> [n EXCEPT ![1] = Last(1)]

(* Mutant: the loop over y = 0 ends one plane early.                       *)
FacesOfRhsShort ==
  <<All(1) \X All(2) \X Low,        All(1) \X All(2) \X High(3),
    All(1) \X Low \X (1 .. Last(3) - 2), All(1) \X High(2) \X Inner(3),
    Low \X Inner(2) \X Inner(3),    High(1) \X Inner(2) \X Inner(3)>>

(* assembly_rhs leaves out what an earlier face has done.                  *)
FacesOfRhs ==
  <<All(1) \X All(2) \X Low,        All(1) \X All(2) \X High(3),
    All(1) \X Low \X Inner(3),      All(1) \X High(2) \X Inner(3),
    Low \X Inner(2) \X Inner(3),    High(1) \X Inner(2) \X Inner(3)>>

(* Mutant: the loop over x = lx is one row of nodes further in.            *)
FacesOfMatShifted ==
  <<All(1) \X All(2) \X Low,        All(1) \X All(2) \X High(3),
    All(1) \X Low \X Inner(3),      All(1) \X High(2) \X Inner(3),
    Low \X Inner(2) \X Inner(3),    {Last(1) - 1} \X All(2) \X All(3)>>

(* So does ell_set_bc_3D, except for the last face.                        *)
FacesOfMat ==
  <<All(1) \X All(2) \X Low,        All(1) \X All(2) \X High(3),
    All(1) \X Low \X Inner(3),      All(1) \X High(2) \X Inner(3),
    Low \X Inner(2) \X Inner(3),    High(1) \X All(2) \X All(3)>>

(* After the loop over a face: the next one, or the next routine.          *)
NextFace(routine) ==
  IF face < 6 THEN face' = face + 1 /\ UNCHANGED pc
              ELSE face' = 1 /\ pc' = routine

(***************************************************************************)
(* newton_raphson.                                                         *)
(***************************************************************************)

Vector == SUBSET Node

Stiffness(n) == [identity |-> FALSE, from |-> ElementsAt(n)]
Identity == [identity |-> TRUE, from |-> {}]
Empty == [identity |-> FALSE, from |-> {}]

Init ==
  /\ size \in Sizes
  /\ pc = "displ" /\ face = 1 /\ its = 0 /\ cg = 0
  /\ u = [n \in Node |-> Elsewhere]
  /\ b = {}
  /\ rows = [n \in Node |-> Empty]
  /\ x = {} /\ r = {} /\ p = {}

(* set_displ_bc.                                                           *)
ImposeFace ==
  /\ pc = "displ"
  /\ u' = [n \in Node |-> IF n \in FacesOfDispl[face] THEN Coor(face, n) ELSE u[n]]
  /\ NextFace("rhs")
  /\ UNCHANGED <<size, its, cg, b, rows, x, r, p>>

(* The element loop of assembly_rhs: every node of an element receives.    *)
AssembleRhs ==
  /\ pc = "rhs"
  /\ b' = UNION {Nodes(e) : e \in Element}
  /\ pc' = "bc_rhs"
  /\ UNCHANGED <<size, face, its, cg, u, rows, x, r, p>>

ClearFace ==
  /\ pc = "bc_rhs"
  /\ b' = b \ FacesOfRhs[face]
  /\ NextFace("test")
  /\ UNCHANGED <<size, its, cg, u, rows, x, r, p>>

(* The head of the loop: enough iterations, or a small residual.           *)
NewtonEnd ==
  /\ pc = "test"
  /\ pc' = "done"
  /\ UNCHANGED <<size, face, its, cg, u, b, rows, x, r, p>>

(* Mutant: its <= nr_max_its.                                              *)
AssembleMatOnceMore ==
  /\ pc = "test"
  /\ its <= NrMaxIts
  /\ b # {}
  /\ rows' = [n \in Node |-> Stiffness(n)]
  /\ pc' = "bc_mat"
  /\ UNCHANGED <<size, face, its, cg, u, b, x, r, p>>

(* ell_set_zero_mat and the element loop of assembly_mat; a residual of    *)
(* zero has ended the loop.                                                *)
AssembleMat ==
  /\ pc = "test"
  /\ its < NrMaxIts
  /\ b # {}
  /\ rows' = [n \in Node |-> Stiffness(n)]
  /\ pc' = "bc_mat"
  /\ UNCHANGED <<size, face, its, cg, u, b, x, r, p>>

(* ell_set_bc_3D.                                                          *)
ReplaceFace ==
  /\ pc = "bc_mat"
  /\ rows' = [n \in Node |-> IF n \in FacesOfMat[face] THEN Identity ELSE rows[n]]
  /\ NextFace("cg_start")
  /\ UNCHANGED <<size, its, cg, u, b, x, r, p>>

(* x = 0, r = b, p = z.                                                    *)
CgStart ==
  /\ pc = "cg_start"
  /\ x' = {} /\ r' = b /\ p' = b /\ cg' = 0
  /\ pc' = "cg"
  /\ UNCHANGED <<size, face, its, u, b, rows>>

(* Row n has an entry in column m.                                         *)
Entry(n, m) == \/ rows[n].identity /\ n = m
               \/ \E e \in rows[n].from : m \in Nodes(e)

(* ell_mvp.                                                                *)
Product(v) == {n \in Node : \E m \in v : Entry(n, m)}

(* One iteration; with r = 0 the loop has ended.                           *)
CgIterate ==
  /\ pc = "cg"
  /\ cg < CgMaxIts
  /\ r # {}
  /\ x' = x \cup p
  /\ r' = r \cup Product(p)
  /\ p' = r' \cup p
  /\ cg' = cg + 1
  /\ UNCHANGED <<size, pc, face, its, u, b, rows>>

(* The loop of the conjugate gradient ends, and u += du.                   *)
CgEnd ==
  /\ pc = "cg"
  /\ u' = [n \in Node |-> IF n \in x THEN Elsewhere ELSE u[n]]
  /\ its' = its + 1
  /\ pc' = "rhs"
  /\ UNCHANGED <<size, face, cg, b, rows, x, r, p>>

Step == \/ ImposeFace \/ AssembleRhs \/ ClearFace \/ NewtonEnd \/ AssembleMat
        \/ ReplaceFace \/ CgStart \/ CgIterate \/ CgEnd

(* newton_raphson is called again with another strain: what was imposed is *)
(* no displacement of the new one.                                         *)
Again ==
  /\ pc = "done"
  /\ pc' = "displ"
  /\ its' = 0
  /\ u' = [n \in Node |-> Elsewhere]
  /\ UNCHANGED <<size, face, cg, b, rows, x, r, p>>

Next == Step \/ Again

Spec == Init /\ [][Next]_vars

(***************************************************************************)
(* Properties.                                                             *)
(***************************************************************************)

TypeOK ==
  /\ size \in Sizes
  /\ pc \in {"displ", "rhs", "bc_rhs", "test", "bc_mat", "cg_start", "cg", "done"}
  /\ face \in 1 .. 6
  /\ its \in 0 .. NrMaxIts
  /\ cg \in 0 .. CgMaxIts
  /\ u \in [Node -> Node \cup {Elsewhere}]
  /\ rows \in [Node -> [identity : BOOLEAN, from : SUBSET Element]]
  /\ b \in Vector /\ x \in Vector /\ r \in Vector /\ p \in Vector

(* From set_displ_bc to the end of newton_raphson every boundary node has  *)
(* the displacement the strain gives it at its own position: the faces     *)
(* agree on the edges they share, and no Newton iteration moves it.        *)
BoundaryIsImposed ==
  pc # "displ" => \A n \in Boundary : u[n] = n

(* The linear system the solver is given: the rows replaced, the residuals *)
(* cleared and the displacements imposed are those of the same nodes, the  *)
(* boundary, and every other row has the stiffness of its eight elements.  *)
BoundariesAgree ==
  pc = "cg_start" =>
    \A n \in Node : /\ rows[n].identity <=> n \in Boundary
                    /\ n \in b <=> n \notin Boundary
                    /\ n \notin Boundary => Cardinality(rows[n].from) = 8

(* No boundary component of the vectors of the conjugate gradient is ever  *)
(* touched, so that what it works on is the symmetric inner part of the    *)
(* matrix, and the absent neighbours, which count as column 0, add zeros.  *)
CgStaysInside ==
  pc = "cg" => (x \cup r \cup p) \cap Boundary = {}
=============================================================================
