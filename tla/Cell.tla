-------------------------------- MODULE Cell --------------------------------
(***************************************************************************)
(* A cell from its construction on: the constructor gives every element a  *)
(* type (Geometry) and counts the phases for the rules of mixture; then    *)
(* newton_raphson solves for one strain after another (Equilibrium), and   *)
(* the matrix it assembles has in each row the materials of the elements   *)
(* around a node.                                                          *)
(***************************************************************************)
EXTENDS Equilibrium, Geometry

CONSTANT Structures(_)   \* the micro-structures considered on a grid

ASSUME CellAssumption ==
  \A s \in Sizes : /\ Structures(s) \subseteq MicroType
                   /\ \A d \in 1 .. 3 : lx % (2 * (s[d] - 1)) = 0

VARIABLES
  micro_type,
  made,         \* what the constructor has done: "nothing", "types", "all"
  elem_type,
  Vm, Vf        \* volumes of matrix and fibres, in elements

cellVars == <<micro_type, made, elem_type, Vm, Vf>>

NrElements == [d \in 1 .. 3 |-> size[d] - 1]

CentreOf(e) == Centre(e, NrElements)

CellInit ==
  /\ Init
  /\ micro_type \in Structures(size)
  /\ made = "nothing"
  /\ elem_type = [e \in Element |-> -1]
  /\ Vm = 0 /\ Vf = 0

(* The loop of the constructor over the elements.                          *)
SetElemTypes ==
  /\ made = "nothing"
  /\ elem_type' = [e \in Element |-> ElemType(micro_type, CentreOf(e))]
  /\ made' = "types"
  /\ UNCHANGED <<vars, micro_type, Vm, Vf>>

(* calc_volume_fractions                                                   *)
CalcVolumeFractions ==
  /\ made = "types"
  /\ Vm' = Cardinality({e \in Element : elem_type[e] = 0})
  /\ Vf' = Cardinality({e \in Element : elem_type[e] >= 1})
  /\ made' = "all"
  /\ UNCHANGED <<vars, micro_type, elem_type>>

(* The constructor has returned.                                           *)
Solve == made = "all" /\ Step /\ UNCHANGED cellVars
SolveAgain == made = "all" /\ Again /\ UNCHANGED cellVars

CellNext == SetElemTypes \/ CalcVolumeFractions \/ Solve \/ SolveAgain

CellSpec == CellInit /\ [][CellNext]_<<vars, cellVars>>

(***************************************************************************)
(* Properties.                                                             *)
(***************************************************************************)

CellTypeOK ==
  /\ TypeOK
  /\ micro_type \in MicroType
  /\ made \in {"nothing", "types", "all"}
  /\ elem_type \in [Element -> -1 .. 2]
  /\ Vm \in 0 .. Cardinality(Element) /\ Vf \in 0 .. Cardinality(Element)
  /\ made = "all" => Vm + Vf = Cardinality(Element)

(* The place of c relative to the axis of f, which is parallel to x or z.  *)
OffAxis(f, c) == [d \in 1 .. 3 |-> IF f.dir[d] = 0 THEN c[d] - f.center[d] ELSE 0]

(* Distance from the axis, without angles.                                 *)
WithinFibre(f, c) == Dot(OffAxis(f, c), OffAxis(f, c)) <= f.radius * f.radius

(* Fibres run through the cell, from face to face, and come before the     *)
(* layers around them; with one exception: an element whose centre is the  *)
(* very point by which the code gives a fibre (the middle element of a     *)
(* grid that has odd numbers of them) is not of the fibre, because its     *)
(* angle is not a number.                                                  *)
FibresRunThrough ==
  made = "types" /\ Fibres(micro_type) # {} =>
    \A e \in Element :
      elem_type[e] = 1 <=>
        \E f \in Fibres(micro_type) : WithinFibre(f, CentreOf(e)) /\ CentreOf(e) # f.center

Mirror(d, n, s) == [n EXCEPT ![d] = s[d] - 1 - @]

(* A structure that is its own mirror image gives the solver a linear      *)
(* system that is, too: the mirror image of a node has in its row the      *)
(* mirror images of the node's elements, of the same materials.            *)
SystemIsOfTheCell ==
  pc = "cg_start" =>
    \A d \in MirrorAxes(micro_type) :
      /\ \A e \in Element : elem_type[Mirror(d, e, NrElements)] = elem_type[e]
      /\ \A n \in Node :
           rows[Mirror(d, n, size)].from = {Mirror(d, e, NrElements) : e \in rows[n].from}
=============================================================================
