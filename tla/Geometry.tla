------------------------------ MODULE Geometry ------------------------------
(***************************************************************************)
(* The micro-structures: which material an element of the cell is of, as   *)
(* get_elem_type of src/micropp.cpp decides from the place of its centre.  *)
(*                                                                         *)
(* Data.  The cell is the unit cube.  Lengths are counted in 600ths of its *)
(* side, in which all the lengths of the code and the centres of the       *)
(* elements of the grids considered are integers; where no length is equal *)
(* to a radius that is not exact in binary, doubles decide as integers do. *)
(* MIC3D_SPHERES and MIC3D_FIBS_20_DISORDER, tables of forty spheres and   *)
(* of twenty oblique fibres given to the same two tests, are left out.     *)
(***************************************************************************)
EXTENDS Integers

CONSTANT geo_param   \* geo_params[0], a radius or a width

ASSUME GeometryAssumption == geo_param \in Nat

lx == 600

MicroType ==
  {"MIC_HOMOGENEOUS", "MIC_SPHERE", "MIC_LAYER_Y", "MIC_CILI_FIB_X",
   "MIC_CILI_FIB_Z", "MIC_CILI_FIB_XZ", "MIC_QUAD_FIB_XYZ", "MIC_QUAD_FIB_XZ",
   "MIC_QUAD_FIB_XZ_BROKEN_X", "MIC3D_8", "MIC3D_FIBS_20_ORDER"}

(* Mutant: the near corner of the element.                                 *)
CentreOfCorner(e, ne) == [d \in 1 .. 3 |-> e[d] * (lx \div ne[d])]

(* coor, of element e in a grid of ne elements.                            *)
Centre(e, ne) == [d \in 1 .. 3 |-> (2 * e[d] + 1) * (lx \div (2 * ne[d]))]

Minus(p, q) == [d \in 1 .. 3 |-> p[d] - q[d]]
Dot(v, w) == v[1] * w[1] + v[2] * w[2] + v[3] * w[3]
Distance(a, b) == IF a < b THEN b - a ELSE a - b

Middle == <<lx \div 2, lx \div 2, lx \div 2>>

(* point_inside_sphere                                                     *)
InsideSphere(center, radius, p) ==
  Dot(Minus(p, center), Minus(p, center)) < radius * radius

(* point_inside_cilinder_inf: the distance from the axis by way of the     *)
(* angle between the axis and v, the place of p relative to a point of the *)
(* axis.  At that point itself v = 0 has no angle: 0 / 0 is not a number,  *)
(* and no comparison with it is true.                                      *)
InsideCilinder(f, more, p) ==
  LET v == Minus(p, f.center)
      r == f.radius + more
  IN  /\ Dot(v, v) # 0
      /\ Dot(v, v) * Dot(f.dir, f.dir) - Dot(v, f.dir) * Dot(v, f.dir)
           <= r * r * Dot(f.dir, f.dir)

DirX == <<1, 0, 0>>
DirZ == <<0, 0, 1>>

Fibre(dir, center, radius) == [dir |-> dir, center |-> center, radius |-> radius]

(* The cylinders a structure is tested for.                                *)
Fibres(micro) ==
  CASE micro = "MIC_CILI_FIB_X" -> {Fibre(DirX, Middle, geo_param)}
    [] micro = "MIC_CILI_FIB_Z" -> {Fibre(DirZ, Middle, geo_param)}
    [] micro = "MIC_CILI_FIB_XZ" -> {Fibre(DirZ, <<300, 450, 300>>, geo_param),
                                     Fibre(DirX, <<300, 150, 300>>, geo_param)}
    [] micro = "MIC3D_8" -> {Fibre(DirZ, <<150, 450, 0>>, 60), Fibre(DirZ, <<450, 450, 0>>, 60),
                             Fibre(DirX, <<0, 150, 150>>, 60), Fibre(DirX, <<0, 150, 450>>, 60)}
    [] micro = "MIC3D_FIBS_20_ORDER" ->
         {Fibre(DirX, <<0, 120 * j, 100 * i>>, 30) : j \in 1 .. 4, i \in 1 .. 5}
    [] OTHER -> {}

InFibre(micro, more, p) == \E f \in Fibres(micro) : InsideCilinder(f, more, p)

(* The square bars of the MIC_QUAD structures.                             *)
Near(d, p) == Distance(p[d], Middle[d]) < geo_param
BarX(p) == Near(2, p) /\ Near(3, p)
BarY(p) == Near(1, p) /\ Near(3, p)
BarZ(p) == Near(1, p) /\ Near(2, p)
Gap(p) == 480 <= p[1] /\ p[1] <= 540

(* What is of the second material, in the structures of two.               *)
InFibrePhase(micro, p) ==
  CASE micro = "MIC_HOMOGENEOUS" -> FALSE
    [] micro = "MIC_SPHERE" -> InsideSphere(Middle, geo_param, p)
    [] micro = "MIC_LAYER_Y" -> p[2] < geo_param
    [] micro = "MIC_QUAD_FIB_XYZ" -> BarZ(p) \/ BarY(p) \/ BarX(p)
    [] micro = "MIC_QUAD_FIB_XZ" -> BarZ(p) \/ BarX(p)
    [] micro = "MIC_QUAD_FIB_XZ_BROKEN_X" -> BarZ(p) \/ (BarX(p) /\ ~Gap(p))
    [] OTHER -> InFibre(micro, 0, p)

(* The layers of MIC3D_8: around its fibres, and a flat one.               *)
InLayer(micro, p) ==
  micro = "MIC3D_8" /\ (InFibre(micro, 6, p) \/ Distance(p[2], Middle[2]) < 12)

(* Mutant: the layers are tested before the fibres.                        *)
TypeLayersFirst(micro, p) ==
  IF InLayer(micro, p) THEN 2 ELSE IF InFibrePhase(micro, p) THEN 1 ELSE 0

(* get_elem_type                                                           *)
ElemType(micro, p) ==
  IF InFibrePhase(micro, p) THEN 1 ELSE IF InLayer(micro, p) THEN 2 ELSE 0

(* The directions in which a structure is its own mirror image.            *)
MirrorAxes(micro) ==
  CASE micro = "MIC_LAYER_Y" -> {1, 3}
    [] micro = "MIC_CILI_FIB_XZ" -> {1, 3}
    [] micro = "MIC_QUAD_FIB_XZ_BROKEN_X" -> {2, 3}
    [] micro = "MIC3D_8" -> {1, 3}
    [] OTHER -> {1, 2, 3}
=============================================================================
