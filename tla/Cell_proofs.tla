---------------------------- MODULE Cell_proofs ----------------------------
(***************************************************************************)
(* What holds of a cell.  Of its equilibrium, for every grid of at least   *)
(* one element, and every limit of the Newton iteration and of the         *)
(* conjugate gradient; then, that a cell behaves as its equilibrium and    *)
(* its geometry say: the theorems about Equilibrium hold of the cell, and  *)
(* those of the micro-structures for every grid in which the centres of    *)
(* the elements are whole numbers.                                         *)
(***************************************************************************)
EXTENDS Cell, FiniteSetTheorems, TLAPS

(***************************************************************************)
(* The grid and its faces.                                                 *)
(***************************************************************************)

LEMMA LastType ==
  ASSUME size \in Sizes
  PROVE  Last(1) \in Nat \ {0} /\ Last(2) \in Nat \ {0} /\ Last(3) \in Nat \ {0}
BY EquilibriumAssumption DEF EquilibriumAssumption, Last

LEMMA NodeIsTriple ==
  \A n : n \in Node <=> /\ n = <<n[1], n[2], n[3]>>
                        /\ n[1] \in All(1) /\ n[2] \in All(2) /\ n[3] \in All(3)
BY DEF Node

LEMMA BoundaryOf ==
  \A n \in Node : n \in Boundary <=> \/ n[1] = 0 \/ n[1] = Last(1)
                                     \/ n[2] = 0 \/ n[2] = Last(2)
                                     \/ n[3] = 0 \/ n[3] = Last(3)
BY DEF Boundary, Low, High

(* A loop of set_displ_bc computes the coordinates of the nodes it visits. *)
LEMMA CoorIsPosition ==
  ASSUME NEW f \in 1 .. 6, NEW n \in FacesOfDispl[f]
  PROVE  Coor(f, n) = n
BY DEF FacesOfDispl, Coor, Low, High

(* The loops of set_displ_bc together visit the boundary, those of         *)
(* assembly_rhs and of ell_set_bc_3D the same nodes and no other.          *)
LEMMA DisplCovers ==
  ASSUME size \in Sizes, NEW n \in Node
  PROVE  n \in Boundary <=> \E f \in 1 .. 6 : n \in FacesOfDispl[f]
BY BoundaryOf, NodeIsTriple, LastType DEF FacesOfDispl, Low, High, All

LEMMA RhsCovers ==
  ASSUME size \in Sizes, NEW n \in Node
  PROVE  n \in Boundary <=> \E f \in 1 .. 6 : n \in FacesOfRhs[f]
BY BoundaryOf, NodeIsTriple, LastType DEF FacesOfRhs, Low, High, All, Inner

LEMMA MatCovers ==
  ASSUME size \in Sizes, NEW n \in Node
  PROVE  n \in Boundary <=> \E f \in 1 .. 6 : n \in FacesOfMat[f]
BY BoundaryOf, NodeIsTriple, LastType DEF FacesOfMat, Low, High, All, Inner

(* Every node belongs to an element, an inner one to eight.                *)
LEMMA NodesOfElements ==
  ASSUME size \in Sizes
  PROVE  UNION {Nodes(e) : e \in Element} = Node
<1>1. ASSUME NEW e \in Element, NEW n \in Nodes(e) PROVE n \in Node
  BY LastType DEF Element, Nodes, Node, All
<1>2. ASSUME NEW n \in Node PROVE \E e \in Element : n \in Nodes(e)
  <2>. DEFINE low(d) == IF n[d] = Last(d) THEN n[d] - 1 ELSE n[d]
              e == <<low(1), low(2), low(3)>>
  <2>1. e \in Element
    BY LastType DEF Node, All, Element
  <2>2. n \in Nodes(e)
    BY LastType DEF Node, All, Nodes
  <2>. QED
    BY <2>1, <2>2
<1>. QED
  BY <1>1, <1>2

LEMMA ElementsAround ==
  ASSUME size \in Sizes, NEW n \in Node, n \notin Boundary
  PROVE  /\ n[1] \in Int /\ n[2] \in Int /\ n[3] \in Int
         /\ ElementsAt(n) = (n[1] - 1 .. n[1]) \X (n[2] - 1 .. n[2]) \X (n[3] - 1 .. n[3])
<1>. DEFINE Around == (n[1] - 1 .. n[1]) \X (n[2] - 1 .. n[2]) \X (n[3] - 1 .. n[3])
<1>1. /\ n = <<n[1], n[2], n[3]>>
      /\ n[1] \in 1 .. Last(1) - 1 /\ n[2] \in 1 .. Last(2) - 1 /\ n[3] \in 1 .. Last(3) - 1
      /\ Last(1) \in Nat /\ Last(2) \in Nat /\ Last(3) \in Nat
  BY BoundaryOf, NodeIsTriple, LastType DEF All
<1>2. ASSUME NEW e \in Element, n \in Nodes(e) PROVE e \in Around
  BY <1>1, <1>2 DEF Element, Nodes
<1>3. ASSUME NEW e \in Around PROVE e \in Element /\ n \in Nodes(e)
  BY <1>1 DEF Element, Nodes
<1>. QED
  BY <1>1, <1>2, <1>3 DEF ElementsAt

LEMMA EightAround ==
  ASSUME NEW i \in Int, NEW j \in Int, NEW k \in Int
  PROVE  Cardinality((i - 1 .. i) \X (j - 1 .. j) \X (k - 1 .. k)) = 8
<1>. DEFINE At(di, dj, dk) == <<i - di, j - dj, k - dk>>
            S1 == {At(0, 0, 0)}
            S2 == S1 \cup {At(1, 0, 0)}
            S3 == S2 \cup {At(0, 1, 0)}
            S4 == S3 \cup {At(1, 1, 0)}
            S5 == S4 \cup {At(0, 0, 1)}
            S6 == S5 \cup {At(1, 0, 1)}
            S7 == S6 \cup {At(0, 1, 1)}
            S8 == S7 \cup {At(1, 1, 1)}
<1>1. (i - 1 .. i) \X (j - 1 .. j) \X (k - 1 .. k) = S8
  <2>1. (i - 1 .. i) = {i - 1, i} /\ (j - 1 .. j) = {j - 1, j} /\ (k - 1 .. k) = {k - 1, k}
    OBVIOUS
  <2>2. S8 = {i - 1, i} \X {j - 1, j} \X {k - 1, k}
    BY DEF S8
  <2>. QED
    BY <2>1, <2>2
<1>2. IsFiniteSet(S1) /\ Cardinality(S1) = 1
  BY FS_Singleton
<1>3. IsFiniteSet(S2) /\ Cardinality(S2) = 2
  <2>1. At(1, 0, 0) \notin S1
    OBVIOUS
  <2>. HIDE DEF S1, At
  <2>. QED
    BY <1>2, <2>1, FS_AddElement
<1>4. IsFiniteSet(S3) /\ Cardinality(S3) = 3
  <2>1. At(0, 1, 0) \notin S2
    OBVIOUS
  <2>. HIDE DEF S2, At
  <2>. QED
    BY <1>3, <2>1, FS_AddElement
<1>5. IsFiniteSet(S4) /\ Cardinality(S4) = 4
  <2>1. At(1, 1, 0) \notin S3
    OBVIOUS
  <2>. HIDE DEF S3, At
  <2>. QED
    BY <1>4, <2>1, FS_AddElement
<1>6. IsFiniteSet(S5) /\ Cardinality(S5) = 5
  <2>1. At(0, 0, 1) \notin S4
    OBVIOUS
  <2>. HIDE DEF S4, At
  <2>. QED
    BY <1>5, <2>1, FS_AddElement
<1>7. IsFiniteSet(S6) /\ Cardinality(S6) = 6
  <2>1. At(1, 0, 1) \notin S5
    OBVIOUS
  <2>. HIDE DEF S5, At
  <2>. QED
    BY <1>6, <2>1, FS_AddElement
<1>8. IsFiniteSet(S7) /\ Cardinality(S7) = 7
  <2>1. At(0, 1, 1) \notin S6
    OBVIOUS
  <2>. HIDE DEF S6, At
  <2>. QED
    BY <1>7, <2>1, FS_AddElement
<1>9. IsFiniteSet(S8) /\ Cardinality(S8) = 8
  <2>1. At(1, 1, 1) \notin S7
    OBVIOUS
  <2>. HIDE DEF S7, At
  <2>. QED
    BY <1>8, <2>1, FS_AddElement
<1>. QED
  BY <1>1, <1>9

(***************************************************************************)
(* The inductive invariant.                                                *)
(***************************************************************************)

(* The loops are left only at their end, and an iteration begun is one of  *)
(* the NrMaxIts.                                                           *)
CountInv ==
  /\ pc \notin {"displ", "bc_rhs", "bc_mat"} => face = 1
  /\ pc \in {"bc_mat", "cg_start", "cg"} => its < NrMaxIts

(* What the loops over the faces have done so far.                         *)
DisplInv ==
  /\ pc = "displ" => \A n \in Node, f \in 1 .. 6 :
       f < face /\ n \in FacesOfDispl[f] => u[n] = n
  /\ pc # "displ" => \A n \in Boundary : u[n] = n

RhsInv ==
  /\ pc = "bc_rhs" => \A n \in Node :
       n \in b <=> ~\E f \in 1 .. 6 : f < face /\ n \in FacesOfRhs[f]
  /\ pc \in {"test", "bc_mat", "cg_start"} => b = Node \ Boundary

StiffnessRows == [n \in Node |-> Stiffness(n)]

MatInv ==
  /\ pc = "bc_mat" => \A n \in Node :
       rows[n] = IF \E f \in 1 .. 6 : f < face /\ n \in FacesOfMat[f]
                   THEN Identity ELSE StiffnessRows[n]
  /\ pc \in {"cg_start", "cg"} => \A n \in Node :
       rows[n] = IF n \in Boundary THEN Identity ELSE StiffnessRows[n]

Inv == TypeOK /\ CountInv /\ DisplInv /\ RhsInv /\ MatInv /\ CgStaysInside

LEMMA StiffnessType ==
  /\ StiffnessRows \in [Node -> [identity : BOOLEAN, from : SUBSET Element]]
  /\ Identity \in [identity : BOOLEAN, from : SUBSET Element]
  /\ Empty \in [identity : BOOLEAN, from : SUBSET Element]
BY DEF StiffnessRows, Stiffness, Identity, Empty, ElementsAt

LEMMA InitInv == Init => Inv
<1>. SUFFICES ASSUME Init PROVE Inv
  OBVIOUS
<1>1. TypeOK
  BY StiffnessType, EquilibriumAssumption
     DEF EquilibriumAssumption, Init, TypeOK, Vector
<1>. QED
  BY <1>1 DEF Init, Inv, CountInv, DisplInv, RhsInv, MatInv, CgStaysInside

(* The grid is the same in every state.                                    *)
LEMMA GridKept ==
  ASSUME size' = size
  PROVE  /\ Node' = Node /\ Boundary' = Boundary /\ Element' = Element
         /\ FacesOfDispl' = FacesOfDispl /\ FacesOfRhs' = FacesOfRhs
         /\ FacesOfMat' = FacesOfMat /\ StiffnessRows' = StiffnessRows
BY DEF Node, Boundary, Element, FacesOfDispl, FacesOfRhs, FacesOfMat, StiffnessRows,
       Stiffness, ElementsAt, Nodes, All, Inner, Low, High, Last

LEMMA NextFaceStep ==
  ASSUME face \in 1 .. 6, NEW routine, NextFace(routine)
  PROVE  /\ face' \in 1 .. 6
         /\ \/ face < 6 /\ face' = face + 1 /\ pc' = pc
            \/ face = 6 /\ face' = 1 /\ pc' = routine
BY DEF NextFace

LEMMA ImposeFaceStep == Inv /\ ImposeFace => Inv'
<1>. SUFFICES ASSUME Inv, ImposeFace PROVE Inv'
  OBVIOUS
<1>1. /\ pc = "displ" /\ UNCHANGED <<size, its, cg, b, rows, x, r, p>>
      /\ u' = [n \in Node |-> IF n \in FacesOfDispl[face] THEN Coor(face, n) ELSE u[n]]
      /\ face' \in 1 .. 6
      /\ \/ face < 6 /\ face' = face + 1 /\ pc' = "displ"
         \/ face = 6 /\ face' = 1 /\ pc' = "rhs"
      /\ size \in Sizes /\ face \in 1 .. 6
  BY NextFaceStep DEF ImposeFace, Inv, TypeOK
<1>2. /\ Node' = Node /\ Boundary' = Boundary /\ Element' = Element
      /\ FacesOfDispl' = FacesOfDispl
  BY <1>1, GridKept
<1>3. \A n \in Node : u'[n] = IF n \in FacesOfDispl[face] THEN n ELSE u[n]
  BY <1>1, CoorIsPosition
<1>4. TypeOK'
  <2>. u' \in [Node -> Node \cup {Elsewhere}]
    BY <1>1, <1>3 DEF Inv, TypeOK
  <2>. QED
    BY <1>1, <1>2 DEF Inv, TypeOK, Vector
<1>5. \A n \in Node, f \in 1 .. 6 : f < face + 1 /\ n \in FacesOfDispl[f] => u'[n] = n
  BY <1>1, <1>3 DEF Inv, DisplInv
<1>6. DisplInv'
  <2>1. CASE pc' = "displ"
    BY <1>1, <1>2, <1>5, <2>1 DEF DisplInv
  <2>2. CASE pc' # "displ"
    <3>. \A n \in Boundary : u'[n] = n
      BY <1>1, <1>5, <2>2, DisplCovers DEF Boundary
    <3>. QED
      BY <1>2, <2>2 DEF DisplInv
  <2>. QED
    BY <2>1, <2>2
<1>7. CountInv' /\ RhsInv' /\ MatInv' /\ CgStaysInside'
  BY <1>1 DEF CountInv, RhsInv, MatInv, CgStaysInside
<1>. QED
  BY <1>4, <1>6, <1>7 DEF Inv

LEMMA AssembleRhsStep == Inv /\ AssembleRhs => Inv'
<1>. SUFFICES ASSUME Inv, AssembleRhs PROVE Inv'
  OBVIOUS
<1>1. /\ pc = "rhs" /\ pc' = "bc_rhs" /\ UNCHANGED <<size, face, its, cg, u, rows, x, r, p>>
      /\ b' = Node /\ face = 1 /\ size \in Sizes
  BY NodesOfElements DEF AssembleRhs, Inv, TypeOK, CountInv
<1>2. /\ Node' = Node /\ Boundary' = Boundary /\ Element' = Element
      /\ FacesOfRhs' = FacesOfRhs
  BY <1>1, GridKept
<1>3. TypeOK'
  BY <1>1, <1>2 DEF Inv, TypeOK, Vector
<1>4. DisplInv' /\ RhsInv'
  BY <1>1, <1>2 DEF Inv, DisplInv, RhsInv
<1>5. CountInv' /\ MatInv' /\ CgStaysInside'
  BY <1>1 DEF CountInv, MatInv, CgStaysInside
<1>. QED
  BY <1>3, <1>4, <1>5 DEF Inv

LEMMA ClearFaceStep == Inv /\ ClearFace => Inv'
<1>. SUFFICES ASSUME Inv, ClearFace PROVE Inv'
  OBVIOUS
<1>1. /\ pc = "bc_rhs" /\ UNCHANGED <<size, its, cg, u, rows, x, r, p>>
      /\ b' = b \ FacesOfRhs[face]
      /\ face' \in 1 .. 6
      /\ \/ face < 6 /\ face' = face + 1 /\ pc' = "bc_rhs"
         \/ face = 6 /\ face' = 1 /\ pc' = "test"
      /\ size \in Sizes /\ face \in 1 .. 6 /\ b \subseteq Node
  BY NextFaceStep DEF ClearFace, Inv, TypeOK, Vector
<1>2. /\ Node' = Node /\ Boundary' = Boundary /\ Element' = Element
      /\ FacesOfRhs' = FacesOfRhs
  BY <1>1, GridKept
<1>3. TypeOK'
  BY <1>1, <1>2 DEF Inv, TypeOK, Vector
<1>4. \A n \in Node :
        n \in b' <=> ~\E f \in 1 .. 6 : f < face + 1 /\ n \in FacesOfRhs[f]
  BY <1>1 DEF Inv, RhsInv
<1>5. RhsInv'
  <2>1. CASE pc' = "bc_rhs"
    BY <1>1, <1>2, <1>4, <2>1 DEF RhsInv
  <2>2. CASE pc' = "test"
    <3>. b' = Node \ Boundary
      BY <1>1, <1>4, <2>2, RhsCovers
    <3>. QED
      BY <1>2, <2>2 DEF RhsInv
  <2>. QED
    BY <1>1, <2>1, <2>2
<1>6. DisplInv'
  BY <1>1, <1>2 DEF Inv, DisplInv
<1>7. CountInv' /\ MatInv' /\ CgStaysInside'
  BY <1>1 DEF CountInv, MatInv, CgStaysInside
<1>. QED
  BY <1>3, <1>5, <1>6, <1>7 DEF Inv

LEMMA AssembleMatStep == Inv /\ AssembleMat => Inv'
<1>. SUFFICES ASSUME Inv, AssembleMat PROVE Inv'
  OBVIOUS
<1>1. /\ pc = "test" /\ pc' = "bc_mat" /\ UNCHANGED <<size, face, its, cg, u, b, x, r, p>>
      /\ rows' = StiffnessRows /\ face = 1 /\ its < NrMaxIts
  BY DEF AssembleMat, StiffnessRows, Inv, CountInv
<1>2. /\ Node' = Node /\ Boundary' = Boundary /\ Element' = Element
      /\ FacesOfMat' = FacesOfMat /\ StiffnessRows' = StiffnessRows
  BY <1>1, GridKept
<1>3. TypeOK'
  BY <1>1, <1>2, StiffnessType DEF Inv, TypeOK, Vector
<1>4. DisplInv' /\ RhsInv'
  BY <1>1, <1>2 DEF Inv, DisplInv, RhsInv
<1>5. CountInv' /\ MatInv' /\ CgStaysInside'
  BY <1>1, <1>2 DEF CountInv, MatInv, CgStaysInside
<1>. QED
  BY <1>3, <1>4, <1>5 DEF Inv

LEMMA ReplaceFaceStep == Inv /\ ReplaceFace => Inv'
<1>. SUFFICES ASSUME Inv, ReplaceFace PROVE Inv'
  OBVIOUS
<1>1. /\ pc = "bc_mat" /\ UNCHANGED <<size, its, cg, u, b, x, r, p>>
      /\ rows' = [n \in Node |-> IF n \in FacesOfMat[face] THEN Identity ELSE rows[n]]
      /\ face' \in 1 .. 6
      /\ \/ face < 6 /\ face' = face + 1 /\ pc' = "bc_mat"
         \/ face = 6 /\ face' = 1 /\ pc' = "cg_start"
      /\ size \in Sizes /\ face \in 1 .. 6
  BY NextFaceStep DEF ReplaceFace, Inv, TypeOK
<1>2. /\ Node' = Node /\ Boundary' = Boundary /\ Element' = Element
      /\ FacesOfMat' = FacesOfMat /\ StiffnessRows' = StiffnessRows
  BY <1>1, GridKept
<1>3. TypeOK'
  <2>. rows' \in [Node -> [identity : BOOLEAN, from : SUBSET Element]]
    BY <1>1, StiffnessType DEF Inv, TypeOK
  <2>. QED
    BY <1>1, <1>2 DEF Inv, TypeOK, Vector
<1>4. \A n \in Node :
        rows'[n] = IF \E f \in 1 .. 6 : f < face + 1 /\ n \in FacesOfMat[f]
                     THEN Identity ELSE StiffnessRows[n]
  BY <1>1 DEF Inv, MatInv
<1>5. MatInv'
  <2>1. CASE pc' = "bc_mat"
    BY <1>1, <1>2, <1>4, <2>1 DEF MatInv, Identity
  <2>2. CASE pc' = "cg_start"
    <3>. \A n \in Node : rows'[n] = IF n \in Boundary THEN Identity ELSE StiffnessRows[n]
      BY <1>1, <1>4, <2>2, MatCovers
    <3>. QED
      BY <1>2, <2>2 DEF MatInv, Identity
  <2>. QED
    BY <1>1, <2>1, <2>2
<1>6. DisplInv' /\ RhsInv'
  BY <1>1, <1>2 DEF Inv, DisplInv, RhsInv
<1>7. CountInv' /\ CgStaysInside'
  BY <1>1 DEF Inv, CountInv, CgStaysInside
<1>. QED
  BY <1>3, <1>5, <1>6, <1>7 DEF Inv

LEMMA CgStartStep == Inv /\ CgStart => Inv'
<1>. SUFFICES ASSUME Inv, CgStart PROVE Inv'
  OBVIOUS
<1>1. /\ pc = "cg_start" /\ pc' = "cg" /\ UNCHANGED <<size, face, its, u, b, rows>>
      /\ x' = {} /\ r' = b /\ p' = b /\ cg' = 0
      /\ b \subseteq Node /\ b \cap Boundary = {}
  BY DEF CgStart, Inv, RhsInv
<1>2. /\ Node' = Node /\ Boundary' = Boundary /\ Element' = Element
      /\ StiffnessRows' = StiffnessRows
  BY <1>1, GridKept
<1>3. TypeOK'
  BY <1>1, <1>2, EquilibriumAssumption DEF EquilibriumAssumption, Inv, TypeOK, Vector
<1>4. DisplInv' /\ RhsInv' /\ CountInv' /\ CgStaysInside'
  BY <1>1, <1>2 DEF Inv, DisplInv, RhsInv, CountInv, CgStaysInside
<1>5. MatInv'
  BY <1>1, <1>2 DEF Inv, MatInv, Identity
<1>. QED
  BY <1>3, <1>4, <1>5 DEF Inv

(* The replaced rows keep a product away from the boundary.                *)
LEMMA ProductInside ==
  ASSUME Inv, pc = "cg", NEW v, v \subseteq Node, v \cap Boundary = {}
  PROVE  Product(v) \subseteq Node /\ Product(v) \cap Boundary = {}
<1>1. ASSUME NEW n \in Boundary, NEW m \in v, Entry(n, m) PROVE FALSE
  <2>. n \in Node /\ rows[n] = Identity
    BY DEF Inv, MatInv, Boundary
  <2>. n = m
    BY <1>1 DEF Entry, Identity
  <2>. QED
    OBVIOUS
<1>. QED
  BY <1>1 DEF Product

LEMMA CgIterateStep == Inv /\ CgIterate => Inv'
<1>. SUFFICES ASSUME Inv, CgIterate PROVE Inv'
  OBVIOUS
<1>1. /\ pc = "cg" /\ cg < CgMaxIts /\ UNCHANGED <<size, pc, face, its, u, b, rows>>
      /\ x' = x \cup p /\ r' = r \cup Product(p) /\ p' = r' \cup p /\ cg' = cg + 1
      /\ x \subseteq Node /\ r \subseteq Node /\ p \subseteq Node
      /\ (x \cup r \cup p) \cap Boundary = {}
      /\ cg \in 0 .. CgMaxIts /\ CgMaxIts \in Nat
  BY EquilibriumAssumption
     DEF EquilibriumAssumption, CgIterate, Inv, TypeOK, Vector, CgStaysInside
<1>2. Product(p) \subseteq Node /\ Product(p) \cap Boundary = {}
  BY <1>1, ProductInside
<1>3. /\ Node' = Node /\ Boundary' = Boundary /\ Element' = Element
      /\ StiffnessRows' = StiffnessRows
  BY <1>1, GridKept
<1>4. /\ x' \subseteq Node /\ r' \subseteq Node /\ p' \subseteq Node
      /\ (x' \cup r' \cup p') \cap Boundary = {}
      /\ cg' \in 0 .. CgMaxIts
  BY <1>1, <1>2
<1>5. TypeOK'
  BY <1>1, <1>3, <1>4 DEF Inv, TypeOK, Vector
<1>6. DisplInv' /\ RhsInv' /\ CountInv' /\ CgStaysInside'
  BY <1>1, <1>3, <1>4 DEF Inv, DisplInv, RhsInv, CountInv, CgStaysInside
<1>7. MatInv'
  BY <1>1, <1>3 DEF Inv, MatInv, Identity
<1>. QED
  BY <1>5, <1>6, <1>7 DEF Inv

LEMMA CgEndStep == Inv /\ CgEnd => Inv'
<1>. SUFFICES ASSUME Inv, CgEnd PROVE Inv'
  OBVIOUS
<1>1. /\ pc = "cg" /\ pc' = "rhs" /\ UNCHANGED <<size, face, cg, b, rows, x, r, p>>
      /\ u' = [n \in Node |-> IF n \in x THEN Elsewhere ELSE u[n]]
      /\ its' = its + 1 /\ its < NrMaxIts /\ x \cap Boundary = {} /\ face = 1
      /\ its \in 0 .. NrMaxIts /\ NrMaxIts \in Nat
  BY EquilibriumAssumption
     DEF EquilibriumAssumption, CgEnd, Inv, TypeOK, CountInv, CgStaysInside
<1>2. Node' = Node /\ Boundary' = Boundary /\ Element' = Element
  BY <1>1, GridKept
<1>3. TypeOK'
  <2>. u' \in [Node -> Node \cup {Elsewhere}]
    BY <1>1 DEF Inv, TypeOK
  <2>. its' \in 0 .. NrMaxIts
    BY <1>1
  <2>. QED
    BY <1>1, <1>2 DEF Inv, TypeOK, Vector
<1>4. DisplInv'
  <2>. \A n \in Boundary : u'[n] = n
    BY <1>1 DEF Inv, DisplInv, Boundary
  <2>. QED
    BY <1>1, <1>2 DEF DisplInv
<1>5. RhsInv' /\ MatInv' /\ CountInv' /\ CgStaysInside'
  BY <1>1 DEF RhsInv, MatInv, CountInv, CgStaysInside
<1>. QED
  BY <1>3, <1>4, <1>5 DEF Inv

LEMMA EndStep == Inv /\ (NewtonEnd \/ Again) => Inv'
<1>. SUFFICES ASSUME Inv, NewtonEnd \/ Again PROVE Inv'
  OBVIOUS
<1>1. /\ UNCHANGED <<size, face, cg, b, rows, x, r, p>> /\ face = 1
      /\ its' \in 0 .. NrMaxIts /\ pc' \in {"done", "displ"}
  BY EquilibriumAssumption
     DEF EquilibriumAssumption, NewtonEnd, Again, Inv, TypeOK, CountInv
<1>2. /\ Node' = Node /\ Boundary' = Boundary /\ Element' = Element
      /\ FacesOfDispl' = FacesOfDispl
  BY <1>1, GridKept
<1>3. TypeOK'
  <2>. u' \in [Node -> Node \cup {Elsewhere}]
    BY DEF NewtonEnd, Again, Inv, TypeOK
  <2>. QED
    BY <1>1, <1>2 DEF Inv, TypeOK, Vector
<1>4. DisplInv'
  <2>1. CASE NewtonEnd
    BY <1>2, <2>1 DEF NewtonEnd, Inv, DisplInv
  <2>2. CASE Again
    BY <1>1, <2>2 DEF Again, DisplInv
  <2>. QED
    BY <2>1, <2>2
<1>5. RhsInv' /\ MatInv' /\ CountInv' /\ CgStaysInside'
  BY <1>1 DEF RhsInv, MatInv, CountInv, CgStaysInside
<1>. QED
  BY <1>3, <1>4, <1>5 DEF Inv

LEMMA StutterStep == Inv /\ UNCHANGED vars => Inv'
<1>. SUFFICES ASSUME Inv, UNCHANGED vars PROVE Inv'
  OBVIOUS
<1>1. UNCHANGED <<size, pc, face, its, cg, u, b, rows, x, r, p>>
  BY DEF vars
<1>2. /\ Node' = Node /\ Boundary' = Boundary /\ Element' = Element
      /\ FacesOfDispl' = FacesOfDispl /\ FacesOfRhs' = FacesOfRhs
      /\ FacesOfMat' = FacesOfMat /\ StiffnessRows' = StiffnessRows
  BY <1>1, GridKept
<1>3. TypeOK' /\ CountInv' /\ CgStaysInside'
  BY <1>1, <1>2 DEF Inv, TypeOK, Vector, CountInv, CgStaysInside
<1>4. DisplInv' /\ RhsInv'
  BY <1>1, <1>2 DEF Inv, DisplInv, RhsInv
<1>5. MatInv'
  BY <1>1, <1>2 DEF Inv, MatInv, Identity
<1>. QED
  BY <1>3, <1>4, <1>5 DEF Inv

(***************************************************************************)
(* Theorems.                                                               *)
(***************************************************************************)

(* Everything the invariant says holds in every state.                     *)
THEOREM Invariance == Spec => []Inv
<1>1. Inv /\ [Next]_vars => Inv'
  BY ImposeFaceStep, AssembleRhsStep, ClearFaceStep, AssembleMatStep, ReplaceFaceStep,
     CgStartStep, CgIterateStep, CgEndStep, EndStep, StutterStep DEF Next, Step
<1>. QED
  BY <1>1, InitInv, PTL DEF Spec

(* The vectors stay on the grid, and the iterations within their limits.   *)
THEOREM TypeCorrectness == Spec => []TypeOK
BY Invariance, PTL DEF Inv

(* The six loops of set_displ_bc agree on the edges and corners they share *)
(* and reach every boundary node, and no Newton iteration moves one of     *)
(* them away from the displacement the strain gives it.                    *)
THEOREM BoundaryStaysImposed == Spec => []BoundaryIsImposed
<1>1. Inv => BoundaryIsImposed
  BY DEF Inv, DisplInv, BoundaryIsImposed
<1>. QED
  BY <1>1, Invariance, PTL

(* Three routines with loop bounds of their own mean the same boundary:    *)
(* the linear system has its rows replaced and its residual cleared in     *)
(* exactly the nodes whose displacement is imposed, on every grid, and in  *)
(* every other row the stiffness of eight elements.                        *)
THEOREM SystemsAgree == Spec => []BoundariesAgree
<1>1. Inv => BoundariesAgree
  <2>. SUFFICES ASSUME Inv, pc = "cg_start", NEW n \in Node
                PROVE  /\ rows[n].identity <=> n \in Boundary
                       /\ n \in b <=> n \notin Boundary
                       /\ n \notin Boundary => Cardinality(rows[n].from) = 8
    BY DEF BoundariesAgree
  <2>1. rows[n] = IF n \in Boundary THEN Identity ELSE StiffnessRows[n]
    BY DEF Inv, MatInv
  <2>2. n \in b <=> n \notin Boundary
    BY DEF Inv, RhsInv
  <2>3. CASE n \in Boundary
    BY <2>1, <2>2, <2>3 DEF Identity
  <2>4. CASE n \notin Boundary
    <3>1. ~rows[n].identity /\ rows[n].from = ElementsAt(n)
      BY <2>1, <2>4 DEF StiffnessRows, Stiffness
    <3>2. Cardinality(ElementsAt(n)) = 8
      <4>1. size \in Sizes
        BY DEF Inv, TypeOK
      <4>2. /\ n[1] \in Int /\ n[2] \in Int /\ n[3] \in Int
            /\ ElementsAt(n)
                 = (n[1] - 1 .. n[1]) \X (n[2] - 1 .. n[2]) \X (n[3] - 1 .. n[3])
        BY <2>4, <4>1, ElementsAround
      <4>3. Cardinality((n[1] - 1 .. n[1]) \X (n[2] - 1 .. n[2]) \X (n[3] - 1 .. n[3])) = 8
        BY <4>2, EightAround
      <4>. QED
        BY <4>2, <4>3
    <3>. QED
      BY <2>2, <2>4, <3>1, <3>2
  <2>. QED
    BY <2>3, <2>4
<1>. QED
  BY <1>1, Invariance, PTL

(* The conjugate gradient never touches a boundary component, so that it   *)
(* works on the symmetric inner part of a matrix that is not symmetric.    *)
THEOREM CgNeverLeaves == Spec => []CgStaysInside
BY Invariance, PTL DEF Inv

(***************************************************************************)
(* The solver of a cell is the solver of the equilibrium.                  *)
(***************************************************************************)

(* The constructor runs before the solver and touches none of its          *)
(* variables.                                                              *)
THEOREM CellSolves == CellSpec => Spec
<1>1. CellInit => Init
  BY DEF CellInit
<1>2. [CellNext]_<<vars, cellVars>> => [Next]_vars
  BY DEF CellNext, SetElemTypes, CalcVolumeFractions, Solve, SolveAgain, Next
<1>. QED
  BY <1>1, <1>2, PTL DEF CellSpec, Spec

(* set_displ_bc, assembly_rhs and ell_set_bc_3D mean the same nodes, the   *)
(* boundary keeps what is imposed on it and the conjugate gradient stays   *)
(* away from it, in every cell.                                            *)
THEOREM CellEquilibrium ==
  CellSpec => /\ []BoundaryIsImposed
              /\ []BoundariesAgree
              /\ []CgStaysInside
BY CellSolves, BoundaryStaysImposed, SystemsAgree, CgNeverLeaves, PTL

(***************************************************************************)
(* Types and volumes.                                                      *)
(***************************************************************************)

LEMMA FiniteTriples ==
  ASSUME NEW A, NEW B, NEW C, IsFiniteSet(A), IsFiniteSet(B), IsFiniteSet(C)
  PROVE  IsFiniteSet(A \X B \X C)
<1>. DEFINE pairs == (A \X B) \X C
            triples == A \X B \X C
            flat == [t \in pairs |-> <<t[1][1], t[1][2], t[2]>>]
<1>1. IsFiniteSet(pairs)
  BY FS_Product
<1>2. flat \in Surjection(pairs, triples)
  <2>1. flat \in [pairs -> triples]
    OBVIOUS
  <2>2. ASSUME NEW s \in triples PROVE \E t \in pairs : flat[t] = s
    <3>. <<<<s[1], s[2]>>, s[3]>> \in pairs /\ flat[<<<<s[1], s[2]>>, s[3]>>] = s
      OBVIOUS
    <3>. QED
      OBVIOUS
  <2>. QED
    BY <2>1, <2>2 DEF Surjection
<1>3. IsFiniteSet(triples)
  <2>. HIDE DEF pairs, triples, flat
  <2>. QED
    BY <1>1, <1>2, FS_Surjection
<1>. QED
  BY <1>3

LEMMA ElementsFinite ==
  size \in Sizes => IsFiniteSet(Element) /\ Cardinality(Element) \in Nat
<1>. SUFFICES ASSUME size \in Sizes PROVE IsFiniteSet(Element)
  BY FS_CardinalityType
<1>. DEFINE A == 0 .. Last(1) - 1
            B == 0 .. Last(2) - 1
            C == 0 .. Last(3) - 1
<1>1. IsFiniteSet(A) /\ IsFiniteSet(B) /\ IsFiniteSet(C)
  <2>1. Last(1) - 1 \in Int /\ Last(2) - 1 \in Int /\ Last(3) - 1 \in Int
    BY LastType
  <2>2. \A i, j \in Int : IsFiniteSet(i .. j)
    BY FS_Interval
  <2>. QED
    BY <2>1, <2>2
<1>2. IsFiniteSet(A \X B \X C)
  <2>. HIDE DEF A, B, C
  <2>. QED
    BY <1>1, FiniteTriples, Zenon
<1>. QED
  BY <1>2 DEF Element

LEMMA TypesSeparate == \A m, c : ElemType(m, c) \in 0 .. 2
BY DEF ElemType

(* What the constructor has done so far; the solver waits for all of it.   *)
CellInv ==
  /\ size \in Sizes
  /\ micro_type \in Structures(size)
  /\ made \in {"nothing", "types", "all"}
  /\ made = "nothing" => elem_type = [e \in Element |-> -1] /\ Vm = 0 /\ Vf = 0
  /\ made # "nothing" =>
       elem_type = [e \in Element |-> ElemType(micro_type, CentreOf(e))]
  /\ made = "types" => Vm = 0 /\ Vf = 0
  /\ made = "all" => /\ Vm = Cardinality({e \in Element : elem_type[e] = 0})
                     /\ Vf = Cardinality({e \in Element : elem_type[e] >= 1})
  /\ pc # "displ" => made = "all"

LEMMA CellInvStep == CellInv /\ [CellNext]_<<vars, cellVars>> => CellInv'
<1>. SUFFICES ASSUME CellInv, [CellNext]_<<vars, cellVars>> PROVE CellInv'
  OBVIOUS
<1>1. size' = size /\ micro_type' = micro_type
  BY DEF CellNext, SetElemTypes, CalcVolumeFractions, Solve, SolveAgain, Step, Again,
         ImposeFace, AssembleRhs, ClearFace, NewtonEnd, AssembleMat, ReplaceFace,
         CgStart, CgIterate, CgEnd, vars, cellVars
<1>2. Element' = Element
  BY <1>1, GridKept
<1>. DEFINE Types == [e \in Element |-> ElemType(micro_type, CentreOf(e))]
<1>3. Types' = Types
  BY <1>1, <1>2 DEF CentreOf, NrElements, Centre
<1>4. CASE SetElemTypes
  <2>. elem_type' = Types /\ made = "nothing" /\ made' = "types" /\ UNCHANGED <<pc, Vm, Vf>>
    BY <1>4 DEF SetElemTypes, vars
  <2>. QED
    BY <1>1, <1>2, <1>3 DEF CellInv
<1>5. CASE CalcVolumeFractions
  <2>. /\ UNCHANGED <<pc, elem_type>> /\ made = "types" /\ made' = "all"
       /\ Vm' = Cardinality({e \in Element : elem_type[e] = 0})
       /\ Vf' = Cardinality({e \in Element : elem_type[e] >= 1})
    BY <1>5 DEF CalcVolumeFractions, vars
  <2>. QED
    BY <1>1, <1>2, <1>3 DEF CellInv
<1>6. CASE Solve \/ SolveAgain \/ UNCHANGED <<vars, cellVars>>
  <2>. UNCHANGED <<made, elem_type, Vm, Vf>> /\ (made = "all" \/ pc' = pc)
    BY <1>6 DEF Solve, SolveAgain, vars, cellVars
  <2>. QED
    BY <1>1, <1>2, <1>3 DEF CellInv
<1>. QED
  BY <1>4, <1>5, <1>6 DEF CellNext

THEOREM CellInvariance == CellSpec => []CellInv
<1>1. CellInit => CellInv
  BY DEF CellInit, Init, CellInv
<1>. QED
  BY <1>1, CellInvStep, PTL DEF CellSpec

(* The types of the cell; and what calc_volume_fractions counts as matrix  *)
(* and as fibre is together all of it, because get_elem_type never leaves  *)
(* an element without a type.                                              *)
THEOREM CellTypeCorrectness == CellSpec => []CellTypeOK
<1>1. TypeOK /\ CellInv => CellTypeOK
  <2>. SUFFICES ASSUME TypeOK, CellInv PROVE CellTypeOK
    OBVIOUS
  <2>. DEFINE M == {e \in Element : elem_type[e] = 0}
              F == {e \in Element : elem_type[e] >= 1}
              Count == Cardinality(Element)
  <2>1. IsFiniteSet(Element) /\ Count \in Nat
    BY ElementsFinite DEF CellInv
  <2>2. micro_type \in MicroType
    BY CellAssumption DEF CellAssumption, CellInv
  <2>3. made # "nothing" => elem_type \in [Element -> 0 .. 2]
    BY TypesSeparate DEF CellInv
  <2>4. elem_type \in [Element -> -1 .. 2]
    BY <2>3 DEF CellInv
  <2>5. /\ IsFiniteSet(M) /\ Cardinality(M) \in 0 .. Count
        /\ IsFiniteSet(F) /\ Cardinality(F) \in 0 .. Count
    <3>. M \in SUBSET Element /\ F \in SUBSET Element
      OBVIOUS
    <3>. HIDE DEF M, F
    <3>. QED
      BY <2>1, FS_Subset, FS_CardinalityType
  <2>6. Vm \in 0 .. Count /\ Vf \in 0 .. Count
    BY <2>1, <2>5 DEF CellInv
  <2>7. made = "all" => Vm + Vf = Count
    <3>. SUFFICES ASSUME made = "all" PROVE Vm + Vf = Count
      OBVIOUS
    <3>1. Vm = Cardinality(M) /\ Vf = Cardinality(F)
      BY DEF CellInv
    <3>2. M \cup F = Element /\ M \cap F = {}
      BY <2>3
    <3>. HIDE DEF M, F
    <3>3. Cardinality(M \cup F) = Cardinality(M) + Cardinality(F) - Cardinality(M \cap F)
      BY <2>5, FS_Union
    <3>4. Cardinality(M \cap F) = 0
      BY <3>2, FS_EmptySet
    <3>5. Cardinality(M \cup F) = Count
      BY <3>2
    <3>. HIDE DEF Count
    <3>. QED
      BY <2>1, <2>5, <3>1, <3>3, <3>4, <3>5
  <2>. QED
    BY <2>2, <2>4, <2>6, <2>7 DEF CellTypeOK, CellInv
<1>. QED
  BY <1>1, CellSolves, TypeCorrectness, CellInvariance, PTL

(***************************************************************************)
(* Fibres.                                                                 *)
(***************************************************************************)

Point == [1 .. 3 -> Int]

(* The fibres of every structure are parallel to x or to z.                *)
FibreShape(f) ==
  /\ f.dir \in {DirX, DirZ}
  /\ f.center \in Point
  /\ f.radius \in Nat

LEMMA FibresShaped == \A m : \A f \in Fibres(m) : FibreShape(f)
<1>. SUFFICES ASSUME NEW m, NEW f \in Fibres(m) PROVE FibreShape(f)
  OBVIOUS
<1>1. \A d \in {DirX, DirZ}, i, j, k \in Int, w \in Nat : FibreShape(Fibre(d, <<i, j, k>>, w))
  BY DEF FibreShape, Fibre, Point
<1>2. /\ 300 \in Int /\ 450 \in Int /\ 150 \in Int /\ 0 \in Int /\ 60 \in Nat /\ 30 \in Nat
      /\ \A i \in 1 .. 5 : 100 * i \in Int /\ 120 * i \in Int
      /\ geo_param \in Nat /\ Middle = <<300, 300, 300>>
  BY GeometryAssumption DEF GeometryAssumption, Middle, lx
<1>3. m \in {"MIC_CILI_FIB_X", "MIC_CILI_FIB_Z", "MIC_CILI_FIB_XZ", "MIC3D_8",
             "MIC3D_FIBS_20_ORDER"}
  BY DEF Fibres
<1>4. CASE m = "MIC_CILI_FIB_X"
  BY <1>1, <1>2, <1>4 DEF Fibres
<1>5. CASE m = "MIC_CILI_FIB_Z"
  BY <1>1, <1>2, <1>5 DEF Fibres
<1>6. CASE m = "MIC_CILI_FIB_XZ"
  BY <1>1, <1>2, <1>6 DEF Fibres
<1>7. CASE m = "MIC3D_8"
  BY <1>1, <1>2, <1>7 DEF Fibres
<1>8. CASE m = "MIC3D_FIBS_20_ORDER"
  <2>. PICK j \in 1 .. 4, i \in 1 .. 5 : f = Fibre(DirX, <<0, 120 * j, 100 * i>>, 30)
    BY <1>8 DEF Fibres
  <2>. QED
    BY <1>1, <1>2
<1>. QED
  BY <1>3, <1>4, <1>5, <1>6, <1>7, <1>8

LEMMA Squares ==
  /\ \A i \in Int : i * i \in Nat
  /\ \A i \in Int : i * i = 0 => i = 0
OBVIOUS

(* The test by way of the angle is a test of the distance from the axis,   *)
(* but at one point.                                                       *)
LEMMA InsideAlongX ==
  ASSUME NEW f, FibreShape(f), f.dir = DirX, NEW more \in Int, NEW c \in Point
  PROVE  InsideCilinder(f, more, c) <=>
           /\ \E d \in 1 .. 3 : c[d] # f.center[d]
           /\ (c[2] - f.center[2]) * (c[2] - f.center[2])
                + (c[3] - f.center[3]) * (c[3] - f.center[3])
                <= (f.radius + more) * (f.radius + more)
<1>. DEFINE i == c[1] - f.center[1]
            j == c[2] - f.center[2]
            k == c[3] - f.center[3]
            w == f.radius + more
<1>1. i \in Int /\ j \in Int /\ k \in Int /\ w \in Int
  BY DEF FibreShape, Point
<1>2. Minus(c, f.center)[1] = i /\ Minus(c, f.center)[2] = j /\ Minus(c, f.center)[3] = k
  BY DEF Minus
<1>3. DirX[1] = 1 /\ DirX[2] = 0 /\ DirX[3] = 0
  BY DEF DirX
<1>4. (\E d \in 1 .. 3 : c[d] # f.center[d]) <=> i # 0 \/ j # 0 \/ k # 0
  <2>1. \A d \in 1 .. 3 : c[d] \in Int /\ f.center[d] \in Int
    BY DEF FibreShape, Point
  <2>2. (\E d \in 1 .. 3 : c[d] # f.center[d]) <=>
          c[1] # f.center[1] \/ c[2] # f.center[2] \/ c[3] # f.center[3]
    OBVIOUS
  <2>. QED
    BY <2>1, <2>2
<1>5. InsideCilinder(f, more, c) <=>
        /\ i * i + j * j + k * k # 0
        /\ (i * i + j * j + k * k) * (1 * 1 + 0 * 0 + 0 * 0)
             - (i * 1 + j * 0 + k * 0) * (i * 1 + j * 0 + k * 0)
             <= w * w * (1 * 1 + 0 * 0 + 0 * 0)
  <2>. HIDE DEF i, j, k
  <2>. QED
    BY <1>2, <1>3 DEF InsideCilinder, Dot
<1>. HIDE DEF i, j, k, w
<1>6. i * i + j * j + k * k # 0 <=> i # 0 \/ j # 0 \/ k # 0
  BY <1>1, Squares
<1>7. (i * i + j * j + k * k) * (1 * 1 + 0 * 0 + 0 * 0)
         - (i * 1 + j * 0 + k * 0) * (i * 1 + j * 0 + k * 0) = j * j + k * k
  BY <1>1
<1>8. w * w * (1 * 1 + 0 * 0 + 0 * 0) = w * w
  BY <1>1
<1>9. InsideCilinder(f, more, c) <=>
        /\ \E d \in 1 .. 3 : c[d] # f.center[d]
        /\ j * j + k * k <= w * w
  BY <1>4, <1>5, <1>6, <1>7, <1>8
<1>. QED
  BY <1>9 DEF j, k, w

LEMMA InsideAlongZ ==
  ASSUME NEW f, FibreShape(f), f.dir = DirZ, NEW more \in Int, NEW c \in Point
  PROVE  InsideCilinder(f, more, c) <=>
           /\ \E d \in 1 .. 3 : c[d] # f.center[d]
           /\ (c[1] - f.center[1]) * (c[1] - f.center[1])
                + (c[2] - f.center[2]) * (c[2] - f.center[2])
                <= (f.radius + more) * (f.radius + more)
<1>. DEFINE i == c[1] - f.center[1]
            j == c[2] - f.center[2]
            k == c[3] - f.center[3]
            w == f.radius + more
<1>1. i \in Int /\ j \in Int /\ k \in Int /\ w \in Int
  BY DEF FibreShape, Point
<1>2. Minus(c, f.center)[1] = i /\ Minus(c, f.center)[2] = j /\ Minus(c, f.center)[3] = k
  BY DEF Minus
<1>3. DirZ[1] = 0 /\ DirZ[2] = 0 /\ DirZ[3] = 1
  BY DEF DirZ
<1>4. (\E d \in 1 .. 3 : c[d] # f.center[d]) <=> i # 0 \/ j # 0 \/ k # 0
  <2>1. \A d \in 1 .. 3 : c[d] \in Int /\ f.center[d] \in Int
    BY DEF FibreShape, Point
  <2>2. (\E d \in 1 .. 3 : c[d] # f.center[d]) <=>
          c[1] # f.center[1] \/ c[2] # f.center[2] \/ c[3] # f.center[3]
    OBVIOUS
  <2>. QED
    BY <2>1, <2>2
<1>5. InsideCilinder(f, more, c) <=>
        /\ i * i + j * j + k * k # 0
        /\ (i * i + j * j + k * k) * (0 * 0 + 0 * 0 + 1 * 1)
             - (i * 0 + j * 0 + k * 1) * (i * 0 + j * 0 + k * 1)
             <= w * w * (0 * 0 + 0 * 0 + 1 * 1)
  <2>. HIDE DEF i, j, k
  <2>. QED
    BY <1>2, <1>3 DEF InsideCilinder, Dot
<1>. HIDE DEF i, j, k, w
<1>6. i * i + j * j + k * k # 0 <=> i # 0 \/ j # 0 \/ k # 0
  BY <1>1, Squares
<1>7. (i * i + j * j + k * k) * (0 * 0 + 0 * 0 + 1 * 1)
         - (i * 0 + j * 0 + k * 1) * (i * 0 + j * 0 + k * 1) = i * i + j * j
  BY <1>1
<1>8. w * w * (0 * 0 + 0 * 0 + 1 * 1) = w * w
  BY <1>1
<1>9. InsideCilinder(f, more, c) <=>
        /\ \E d \in 1 .. 3 : c[d] # f.center[d]
        /\ i * i + j * j <= w * w
  BY <1>4, <1>5, <1>6, <1>7, <1>8
<1>. QED
  BY <1>9 DEF i, j, w

LEMMA InsideIsWithin ==
  ASSUME NEW f, FibreShape(f), NEW c \in Point
  PROVE  InsideCilinder(f, 0, c) <=> WithinFibre(f, c) /\ c # f.center
<1>1. c # f.center <=> \E d \in 1 .. 3 : c[d] # f.center[d]
  BY DEF FibreShape, Point
<1>2. /\ c[1] - f.center[1] \in Int /\ c[2] - f.center[2] \in Int
      /\ c[3] - f.center[3] \in Int /\ f.radius \in Int /\ f.radius + 0 = f.radius
  BY DEF FibreShape, Point
<1>3. CASE f.dir = DirX
  <2>1. /\ OffAxis(f, c)[1] = 0 /\ OffAxis(f, c)[2] = c[2] - f.center[2]
        /\ OffAxis(f, c)[3] = c[3] - f.center[3]
    BY <1>3 DEF OffAxis, DirX
  <2>2. WithinFibre(f, c) <=> (c[2] - f.center[2]) * (c[2] - f.center[2])
                + (c[3] - f.center[3]) * (c[3] - f.center[3]) <= f.radius * f.radius
    BY <1>2, <2>1 DEF WithinFibre, Dot
  <2>. QED
    BY <1>1, <1>2, <1>3, <2>2, InsideAlongX
<1>4. CASE f.dir = DirZ
  <2>1. /\ OffAxis(f, c)[3] = 0 /\ OffAxis(f, c)[1] = c[1] - f.center[1]
        /\ OffAxis(f, c)[2] = c[2] - f.center[2]
    BY <1>4 DEF OffAxis, DirZ
  <2>2. WithinFibre(f, c) <=> (c[1] - f.center[1]) * (c[1] - f.center[1])
                + (c[2] - f.center[2]) * (c[2] - f.center[2]) <= f.radius * f.radius
    BY <1>2, <2>1 DEF WithinFibre, Dot
  <2>. QED
    BY <1>1, <1>2, <1>4, <2>2, InsideAlongZ
<1>. QED
  BY <1>3, <1>4 DEF FibreShape

(* Centres are inside the cell, at whole numbers.                          *)
LEMMA Halves ==
  ASSUME NEW n \in Nat \ {0}, lx % (2 * n) = 0
  PROVE  lx \div (2 * n) \in Nat \ {0} /\ 2 * n * (lx \div (2 * n)) = lx
BY DEF lx

InCell(c) == \A d \in 1 .. 3 : 0 < c[d] /\ c[d] < lx

LEMMA CentresInCell ==
  ASSUME size \in Sizes, NEW e \in Element
  PROVE  /\ CentreOf(e) \in Point /\ InCell(CentreOf(e))
         /\ \A d \in 1 .. 3 : CentreOf(e)[d] = (2 * e[d] + 1) * (lx \div (2 * (size[d] - 1)))
<1>. SUFFICES ASSUME NEW d \in 1 .. 3
              PROVE  /\ CentreOf(e)[d] \in Int
                     /\ 0 < CentreOf(e)[d] /\ CentreOf(e)[d] < lx
                     /\ CentreOf(e)[d] = (2 * e[d] + 1) * (lx \div (2 * (size[d] - 1)))
  BY DEF Point, InCell, CentreOf, Centre
<1>. DEFINE n == size[d] - 1
            h == lx \div (2 * n)
<1>1. n \in Nat \ {0} /\ lx % (2 * n) = 0
  BY EquilibriumAssumption, CellAssumption DEF EquilibriumAssumption, CellAssumption
<1>2. e[d] \in 0 .. n - 1
  BY DEF Element, Last
<1>3. CentreOf(e)[d] = (2 * e[d] + 1) * h
  BY DEF CentreOf, Centre, NrElements
<1>. HIDE DEF n
<1>4. h \in Nat \ {0} /\ 2 * n * h = lx
  BY <1>1, Halves
<1>. HIDE DEF h
<1>5. ASSUME NEW k \in 0 .. n - 1 PROVE 0 < (2 * k + 1) * h /\ (2 * k + 1) * h < 2 * n * h
  BY <1>1, <1>4
<1>. QED
  BY <1>2, <1>3, <1>4, <1>5 DEF h, n

(* Every fibre goes through the whole cell and lies before the layers,     *)
(* with a hole at the point it is given by, in every grid.                 *)
THEOREM FibresGoThrough == CellSpec => []FibresRunThrough
<1>1. CellInv => FibresRunThrough
  <2>. SUFFICES ASSUME CellInv, made = "types", Fibres(micro_type) # {}, NEW e \in Element
                PROVE  elem_type[e] = 1 <=>
                         \E f \in Fibres(micro_type) :
                           WithinFibre(f, CentreOf(e)) /\ CentreOf(e) # f.center
    BY DEF FibresRunThrough
  <2>1. CentreOf(e) \in Point
    BY CentresInCell DEF CellInv
  <2>2. elem_type[e] = ElemType(micro_type, CentreOf(e))
    BY DEF CellInv
  <2>3. InFibrePhase(micro_type, CentreOf(e)) <=> InFibre(micro_type, 0, CentreOf(e))
    BY DEF InFibrePhase, Fibres
  <2>4. elem_type[e] = 1 <=> InFibre(micro_type, 0, CentreOf(e))
    BY <2>2, <2>3 DEF ElemType
  <2>5. \A f \in Fibres(micro_type) : InsideCilinder(f, 0, CentreOf(e)) <=>
                                        WithinFibre(f, CentreOf(e)) /\ CentreOf(e) # f.center
    BY <2>1, FibresShaped, InsideIsWithin
  <2>. QED
    BY <2>4, <2>5 DEF InFibre
<1>. QED
  BY <1>1, CellInvariance, PTL

(***************************************************************************)
(* Mirror images.                                                          *)
(***************************************************************************)

Reflect(d, c) == [c EXCEPT ![d] = lx - @]

LEMMA ReflectLaw ==
  ASSUME NEW d \in 1 .. 3, NEW c \in Point, InCell(c)
  PROVE  /\ Reflect(d, c) \in Point /\ InCell(Reflect(d, c))
         /\ Reflect(d, c)[d] = lx - c[d]
         /\ \A a \in 1 .. 3 \ {d} : Reflect(d, c)[a] = c[a]
         /\ Reflect(d, Reflect(d, c)) = c
<1>1. Reflect(d, c) \in Point /\ Reflect(d, c)[d] = lx - c[d]
  BY DEF Reflect, Point, lx
<1>2. \A a \in 1 .. 3 \ {d} : Reflect(d, c)[a] = c[a]
  BY DEF Reflect, Point
<1>3. InCell(Reflect(d, c))
  BY <1>1, <1>2 DEF InCell, Point, lx
<1>4. Reflect(d, Reflect(d, c)) = c
  <2>1. lx - (lx - c[d]) = c[d]
    BY DEF Point, lx
  <2>. QED
    BY <1>1, <2>1 DEF Reflect, Point
<1>. QED
  BY <1>1, <1>2, <1>3, <1>4

(* g is the mirror image of f, as far as the inside of the cell can tell.  *)
MirrorFibre(d, f, g) ==
  /\ g.dir = f.dir /\ g.radius = f.radius
  /\ \A a \in 1 .. 3 \ {d} : g.center[a] = f.center[a]
  /\ \/ g.center[d] = lx - f.center[d]
     \/ g.dir[d] = 1 /\ f.center[d] = 0 /\ g.center[d] = 0

LEMMA MirrorSquares ==
  \A i, j \in Int : ((lx - i) - (lx - j)) * ((lx - i) - (lx - j)) = (i - j) * (i - j)
BY DEF lx

LEMMA FibreReflected ==
  ASSUME NEW d \in 1 .. 3, NEW f, NEW g, FibreShape(f), FibreShape(g), MirrorFibre(d, f, g),
         NEW more \in Int, NEW c \in Point, InCell(c), InsideCilinder(f, more, c)
  PROVE  InsideCilinder(g, more, Reflect(d, c))
<1>. DEFINE s == Reflect(d, c)
<1>1. /\ s \in Point /\ InCell(s) /\ s[d] = lx - c[d]
      /\ \A a \in 1 .. 3 \ {d} : s[a] = c[a]
  BY ReflectLaw
<1>. HIDE DEF s
<1>2. \A a \in 1 .. 3 : c[a] \in Int /\ f.center[a] \in Int
  BY DEF FibreShape, Point
<1>3. ASSUME NEW a \in 1 .. 3, f.dir[a] = 0
      PROVE  (s[a] - g.center[a]) * (s[a] - g.center[a])
               = (c[a] - f.center[a]) * (c[a] - f.center[a])
  <2>1. CASE a = d
    <3>1. g.center[d] = lx - f.center[d]
      BY <1>3, <2>1 DEF MirrorFibre
    <3>2. s[a] - g.center[a] = (lx - c[a]) - (lx - f.center[a])
      BY <1>1, <2>1, <3>1
    <3>. QED
      BY <1>2, <3>2, MirrorSquares
  <2>2. CASE a # d
    BY <1>1, <2>2 DEF MirrorFibre
  <2>. QED
    BY <2>1, <2>2
<1>4. (\E a \in 1 .. 3 : c[a] # f.center[a]) => \E a \in 1 .. 3 : s[a] # g.center[a]
  <2>. SUFFICES ASSUME NEW a \in 1 .. 3, c[a] # f.center[a]
                PROVE  \E k \in 1 .. 3 : s[k] # g.center[k]
    OBVIOUS
  <2>1. CASE a # d
    BY <1>1, <2>1 DEF MirrorFibre
  <2>2. CASE a = d /\ g.center[d] = lx - f.center[d]
    <3>. s[d] # g.center[d]
      BY <1>1, <1>2, <2>2 DEF lx
    <3>. QED
      OBVIOUS
  <2>3. CASE g.center[d] = 0
    <3>. s[d] # g.center[d]
      BY <1>1, <2>3 DEF InCell
    <3>. QED
      OBVIOUS
  <2>. QED
    BY <2>1, <2>2, <2>3 DEF MirrorFibre
<1>5. g.radius = f.radius /\ g.dir = f.dir
  BY DEF MirrorFibre
<1>6. CASE f.dir = DirX
  <2>. f.dir[2] = 0 /\ f.dir[3] = 0
    BY <1>6 DEF DirX
  <2>. QED
    BY <1>1, <1>3, <1>4, <1>5, <1>6, InsideAlongX DEF s
<1>7. CASE f.dir = DirZ
  <2>. f.dir[1] = 0 /\ f.dir[2] = 0
    BY <1>7 DEF DirZ
  <2>. QED
    BY <1>1, <1>3, <1>4, <1>5, <1>7, InsideAlongZ DEF s
<1>. QED
  BY <1>6, <1>7 DEF FibreShape

(* The fibres of a structure are each other's mirror images.               *)
LEMMA FibresMirrored ==
  \A m : \A d \in MirrorAxes(m) : \A f \in Fibres(m) :
    d \in 1 .. 3 /\ \E g \in Fibres(m) : MirrorFibre(d, f, g)
<1>. SUFFICES ASSUME NEW m, NEW d \in MirrorAxes(m), NEW f \in Fibres(m)
              PROVE  d \in 1 .. 3 /\ \E g \in Fibres(m) : MirrorFibre(d, f, g)
  OBVIOUS
<1>1. m \in {"MIC_CILI_FIB_X", "MIC_CILI_FIB_Z", "MIC_CILI_FIB_XZ", "MIC3D_8",
             "MIC3D_FIBS_20_ORDER"}
  BY DEF Fibres
<1>2. d \in 1 .. 3
  BY DEF MirrorAxes
<1>3. CASE m \in {"MIC_CILI_FIB_X", "MIC_CILI_FIB_Z"}
  <2>1. f.center = <<300, 300, 300>>
    BY <1>3 DEF Fibres, Fibre, Middle, lx
  <2>2. MirrorFibre(d, f, f)
    BY <1>2, <2>1 DEF MirrorFibre, lx
  <2>. QED
    BY <1>2, <2>2
<1>4. CASE m = "MIC_CILI_FIB_XZ"
  <2>1. d \in {1, 3} /\ f.center[1] = 300 /\ f.center[3] = 300
    BY <1>4 DEF Fibres, Fibre, MirrorAxes
  <2>2. MirrorFibre(d, f, f)
    BY <1>2, <2>1 DEF MirrorFibre, lx
  <2>. QED
    BY <1>2, <2>2
<1>5. CASE m = "MIC3D_8"
  <2>. DEFINE A == Fibre(DirZ, <<150, 450, 0>>, 60)
              B == Fibre(DirZ, <<450, 450, 0>>, 60)
              C == Fibre(DirX, <<0, 150, 150>>, 60)
              D == Fibre(DirX, <<0, 150, 450>>, 60)
  <2>1. d \in {1, 3} /\ Fibres(m) = {A, B, C, D}
    BY <1>5 DEF Fibres, MirrorAxes
  <2>2. MirrorFibre(1, A, B) /\ MirrorFibre(1, B, A)
    BY DEF MirrorFibre, Fibre, lx
  <2>3. MirrorFibre(1, C, C) /\ MirrorFibre(1, D, D)
    BY DEF MirrorFibre, Fibre, DirX, lx
  <2>4. MirrorFibre(3, C, D) /\ MirrorFibre(3, D, C)
    BY DEF MirrorFibre, Fibre, lx
  <2>5. MirrorFibre(3, A, A) /\ MirrorFibre(3, B, B)
    BY DEF MirrorFibre, Fibre, DirZ, lx
  <2>. HIDE DEF A, B, C, D
  <2>. QED
    BY <1>2, <2>1, <2>2, <2>3, <2>4, <2>5
<1>6. CASE m = "MIC3D_FIBS_20_ORDER"
  <2>. DEFINE F(j, i) == Fibre(DirX, <<0, 120 * j, 100 * i>>, 30)
  <2>1. PICK j \in 1 .. 4, i \in 1 .. 5 : f = F(j, i)
    BY <1>6 DEF Fibres
  <2>2. \A a \in 1 .. 4, k \in 1 .. 5 : F(a, k) \in Fibres(m)
    BY <1>6 DEF Fibres
  <2>3. CASE d = 1
    <3>1. MirrorFibre(1, F(j, i), F(j, i))
      BY DEF MirrorFibre, Fibre, DirX, lx
    <3>. QED
      BY <2>1, <2>2, <2>3, <3>1
  <2>4. CASE d = 2
    <3>1. MirrorFibre(2, F(j, i), F(5 - j, i))
      BY DEF MirrorFibre, Fibre, DirX, lx
    <3>2. F(5 - j, i) \in Fibres(m)
      BY <2>2
    <3>. QED
      BY <2>1, <2>4, <3>1, <3>2
  <2>5. CASE d = 3
    <3>1. MirrorFibre(3, F(j, i), F(j, 6 - i))
      BY DEF MirrorFibre, Fibre, DirX, lx
    <3>2. F(j, 6 - i) \in Fibres(m)
      BY <2>2
    <3>. QED
      BY <2>1, <2>5, <3>1, <3>2
  <2>. QED
    BY <1>2, <2>3, <2>4, <2>5
<1>. QED
  BY <1>1, <1>3, <1>4, <1>5, <1>6

LEMMA InFibreReflected ==
  ASSUME NEW m, NEW d \in MirrorAxes(m), d \in 1 .. 3, NEW more \in Int,
         NEW c \in Point, InCell(c)
  PROVE  InFibre(m, more, Reflect(d, c)) <=> InFibre(m, more, c)
<1>1. ASSUME NEW a \in Point, InCell(a), InFibre(m, more, a)
      PROVE  InFibre(m, more, Reflect(d, a))
  <2>1. PICK f \in Fibres(m) : InsideCilinder(f, more, a)
    BY <1>1 DEF InFibre
  <2>2. PICK g \in Fibres(m) : MirrorFibre(d, f, g)
    BY FibresMirrored
  <2>3. InsideCilinder(g, more, Reflect(d, a))
    BY <1>1, <2>1, <2>2, FibreReflected, FibresShaped
  <2>. QED
    BY <2>3 DEF InFibre
<1>2. /\ Reflect(d, c) \in Point /\ InCell(Reflect(d, c))
      /\ Reflect(d, Reflect(d, c)) = c
  BY ReflectLaw
<1>. QED
  BY <1>1, <1>2

LEMMA NearReflected ==
  ASSUME NEW d \in 1 .. 3, NEW a \in 1 .. 3, NEW c \in Point, InCell(c)
  PROVE  Near(a, Reflect(d, c)) <=> Near(a, c)
<1>1. Middle[a] = 300
  BY DEF Middle, lx
<1>2. Distance(lx - c[a], 300) = Distance(c[a], 300)
  BY DEF Distance, lx, Point
<1>3. Reflect(d, c)[a] = IF a = d THEN lx - c[a] ELSE c[a]
  BY ReflectLaw
<1>. QED
  BY <1>1, <1>2, <1>3 DEF Near

LEMMA SphereReflected ==
  ASSUME NEW d \in 1 .. 3, NEW w, NEW c \in Point, InCell(c)
  PROVE  InsideSphere(Middle, w, Reflect(d, c)) <=> InsideSphere(Middle, w, c)
<1>. DEFINE s == Reflect(d, c)
<1>1. \A a \in 1 .. 3 : c[a] \in Int /\ s[a] = IF a = d THEN lx - c[a] ELSE c[a]
  BY ReflectLaw, ZenonT(60) DEF Point
<1>. HIDE DEF s
<1>2. \A i \in Int : ((lx - i) - 300) * ((lx - i) - 300) = (i - 300) * (i - 300)
  BY DEF lx
<1>3. \A a \in 1 .. 3 : (s[a] - 300) * (s[a] - 300) = (c[a] - 300) * (c[a] - 300)
  BY <1>1, <1>2
<1>4. \A q : Dot(Minus(q, Middle), Minus(q, Middle))
               = (q[1] - 300) * (q[1] - 300) + (q[2] - 300) * (q[2] - 300)
                   + (q[3] - 300) * (q[3] - 300)
  BY DEF Dot, Minus, Middle, lx
<1>5. Dot(Minus(s, Middle), Minus(s, Middle)) = Dot(Minus(c, Middle), Minus(c, Middle))
  BY <1>3, <1>4
<1>. QED
  BY <1>5 DEF InsideSphere, s

(* The material at a point is the material at its mirror image.            *)
LEMMA ElemTypeReflected ==
  ASSUME NEW m \in MicroType, NEW d \in MirrorAxes(m), NEW c \in Point, InCell(c)
  PROVE  d \in 1 .. 3 /\ ElemType(m, Reflect(d, c)) = ElemType(m, c)
<1>1. d \in 1 .. 3
  BY DEF MirrorAxes
<1>. DEFINE s == Reflect(d, c)
<1>2. \A a \in 1 .. 3 : a # d => s[a] = c[a]
  BY <1>1, ReflectLaw
<1>3. \A a \in 1 .. 3 : Near(a, s) <=> Near(a, c)
  BY <1>1, NearReflected
<1>4. InFibre(m, 0, s) <=> InFibre(m, 0, c)
  BY <1>1, InFibreReflected
<1>5. InFibre(m, 6, s) <=> InFibre(m, 6, c)
  BY <1>1, InFibreReflected
<1>6. InsideSphere(Middle, geo_param, s) <=> InsideSphere(Middle, geo_param, c)
  BY <1>1, SphereReflected
<1>. HIDE DEF s
<1>7. /\ m = "MIC_LAYER_Y" => s[2] = c[2]
      /\ m = "MIC_QUAD_FIB_XZ_BROKEN_X" => s[1] = c[1]
      /\ m = "MIC3D_8" => s[2] = c[2]
  BY <1>2 DEF MirrorAxes
<1>8. (BarX(s) <=> BarX(c)) /\ (BarY(s) <=> BarY(c)) /\ (BarZ(s) <=> BarZ(c))
  BY <1>3 DEF BarX, BarY, BarZ
<1>9. InFibrePhase(m, s) <=> InFibrePhase(m, c)
  BY <1>4, <1>6, <1>7, <1>8 DEF InFibrePhase, MicroType, Gap
<1>10. InLayer(m, s) <=> InLayer(m, c)
  BY <1>5, <1>7 DEF InLayer
<1>. QED
  BY <1>1, <1>9, <1>10 DEF ElemType, s

Triple == Int \X Int \X Int

LEMMA MirrorOfTriple ==
  ASSUME NEW n \in Triple, NEW s, s[1] \in Int, s[2] \in Int, s[3] \in Int, NEW d \in 1 .. 3
  PROVE  /\ Mirror(d, n, s) \in Triple
         /\ Mirror(d, n, s)[d] = s[d] - 1 - n[d]
         /\ \A a \in 1 .. 3 \ {d} : Mirror(d, n, s)[a] = n[a]
<1>1. /\ n = <<n[1], n[2], n[3]>>
      /\ n[1] \in Int /\ n[2] \in Int /\ n[3] \in Int
  BY DEF Triple
<1>2. CASE d = 1
  <2>. Mirror(d, n, s) = <<s[1] - 1 - n[1], n[2], n[3]>>
    BY <1>1, <1>2 DEF Mirror
  <2>. QED
    BY <1>1, <1>2 DEF Triple
<1>3. CASE d = 2
  <2>. Mirror(d, n, s) = <<n[1], s[2] - 1 - n[2], n[3]>>
    BY <1>1, <1>3 DEF Mirror
  <2>. QED
    BY <1>1, <1>3 DEF Triple
<1>4. CASE d = 3
  <2>. Mirror(d, n, s) = <<n[1], n[2], s[3] - 1 - n[3]>>
    BY <1>1, <1>4 DEF Mirror
  <2>. QED
    BY <1>1, <1>4 DEF Triple
<1>. QED
  BY <1>2, <1>3, <1>4

LEMMA TriplesEqual ==
  ASSUME NEW n \in Triple, NEW m \in Triple, \A d \in 1 .. 3 : n[d] = m[d]
  PROVE  n = m
<1>. n = <<n[1], n[2], n[3]>> /\ m = <<m[1], m[2], m[3]>>
  BY DEF Triple
<1>. QED
  OBVIOUS

LEMMA MirrorOfElement ==
  ASSUME size \in Sizes, NEW d \in 1 .. 3, NEW e \in Element
  PROVE  /\ Mirror(d, e, NrElements) \in Element
         /\ Mirror(d, e, NrElements)[d] = size[d] - 2 - e[d]
         /\ \A a \in 1 .. 3 \ {d} : Mirror(d, e, NrElements)[a] = e[a]
         /\ Mirror(d, Mirror(d, e, NrElements), NrElements) = e
         /\ CentreOf(Mirror(d, e, NrElements)) = Reflect(d, CentreOf(e))
<1>. DEFINE k == Mirror(d, e, NrElements)
<1>1. /\ e \in Triple
      /\ \A a \in 1 .. 3 : e[a] \in 0 .. size[a] - 2 /\ size[a] \in Nat \ {0, 1}
      /\ \A a \in 1 .. 3 : NrElements[a] = size[a] - 1 /\ NrElements[a] \in Int
  BY EquilibriumAssumption DEF EquilibriumAssumption, Element, Last, NrElements, Triple
<1>2. \A t \in Triple : /\ Mirror(d, t, NrElements) \in Triple
                       /\ Mirror(d, t, NrElements)[d] = size[d] - 2 - t[d]
                       /\ \A a \in 1 .. 3 \ {d} : Mirror(d, t, NrElements)[a] = t[a]
  <2>. SUFFICES ASSUME NEW t \in Triple
                PROVE  /\ Mirror(d, t, NrElements) \in Triple
                       /\ Mirror(d, t, NrElements)[d] = size[d] - 2 - t[d]
                       /\ \A a \in 1 .. 3 \ {d} : Mirror(d, t, NrElements)[a] = t[a]
    OBVIOUS
  <2>. DEFINE ne == NrElements
  <2>1. ne[1] \in Int /\ ne[2] \in Int /\ ne[3] \in Int /\ ne[d] = size[d] - 1
    BY <1>1
  <2>. HIDE DEF ne
  <2>2. Mirror(d, t, ne) \in Triple
    BY <2>1, MirrorOfTriple
  <2>3. Mirror(d, t, ne)[d] = ne[d] - 1 - t[d]
    BY <2>1, MirrorOfTriple
  <2>4. \A a \in 1 .. 3 \ {d} : Mirror(d, t, ne)[a] = t[a]
    BY <2>1, MirrorOfTriple
  <2>5. t[d] \in Int /\ size[d] \in Int
    BY <1>1 DEF Triple
  <2>6. ne[d] - 1 - t[d] = size[d] - 2 - t[d]
    BY <2>1, <2>5
  <2>. QED
    BY <2>2, <2>3, <2>4, <2>6 DEF ne
<1>3. k \in Triple /\ k[d] = size[d] - 2 - e[d] /\ \A a \in 1 .. 3 \ {d} : k[a] = e[a]
  BY <1>1, <1>2
<1>. HIDE DEF k
<1>4. \A a \in 1 .. 3 : k[a] \in 0 .. size[a] - 2
  BY <1>1, <1>3
<1>5. k \in Element
  BY <1>1, <1>3, <1>4 DEF Element, Last, Triple
<1>6. Mirror(d, k, NrElements) = e
  <2>. DEFINE l == Mirror(d, k, NrElements)
  <2>1. l \in Triple /\ l[d] = size[d] - 2 - k[d] /\ \A a \in 1 .. 3 \ {d} : l[a] = k[a]
    BY <1>2, <1>3
  <2>. HIDE DEF l
  <2>2. \A a \in 1 .. 3 : l[a] = e[a]
    BY <1>1, <1>3, <2>1
  <2>. QED
    BY <1>1, <2>1, <2>2, TriplesEqual DEF l
<1>7. CentreOf(k) = Reflect(d, CentreOf(e))
  <2>. DEFINE h == lx \div (2 * (size[d] - 1))
  <2>1. /\ CentreOf(e) \in Point /\ InCell(CentreOf(e)) /\ CentreOf(k) \in Point
        /\ \A a \in 1 .. 3 : CentreOf(e)[a] = (2 * e[a] + 1) * (lx \div (2 * (size[a] - 1)))
        /\ \A a \in 1 .. 3 : CentreOf(k)[a] = (2 * k[a] + 1) * (lx \div (2 * (size[a] - 1)))
    BY <1>5, CentresInCell
  <2>2. \A a \in 1 .. 3 \ {d} : CentreOf(k)[a] = CentreOf(e)[a]
    BY <1>3, <2>1
  <2>3. CentreOf(k)[d] = lx - CentreOf(e)[d]
    <3>1. h \in Nat \ {0} /\ 2 * (size[d] - 1) * h = lx
      BY <1>1, Halves, CellAssumption DEF CellAssumption
    <3>2. CentreOf(k)[d] = (2 * k[d] + 1) * h /\ CentreOf(e)[d] = (2 * e[d] + 1) * h
      BY <2>1
    <3>. HIDE DEF h
    <3>3. \A i, j \in Int : (2 * (i - 2 - j) + 1) * h = 2 * (i - 1) * h - (2 * j + 1) * h
      BY <3>1
    <3>4. size[d] \in Int /\ e[d] \in Int
      BY <1>1
    <3>. QED
      BY <1>3, <3>1, <3>2, <3>3, <3>4
  <2>4. /\ Reflect(d, CentreOf(e)) \in Point
        /\ Reflect(d, CentreOf(e))[d] = lx - CentreOf(e)[d]
        /\ \A a \in 1 .. 3 \ {d} : Reflect(d, CentreOf(e))[a] = CentreOf(e)[a]
    BY <2>1, ReflectLaw
  <2>. QED
    BY <2>1, <2>2, <2>3, <2>4 DEF Point
<1>. QED
  BY <1>3, <1>5, <1>6, <1>7 DEF k

LEMMA MirrorOfNode ==
  ASSUME size \in Sizes, NEW d \in 1 .. 3, NEW n \in Node
  PROVE  /\ Mirror(d, n, size) \in Node
         /\ Mirror(d, n, size) \in Boundary <=> n \in Boundary
         /\ \A e \in Element : Mirror(d, n, size) \in Nodes(Mirror(d, e, NrElements))
                                 <=> n \in Nodes(e)
<1>. DEFINE k == Mirror(d, n, size)
<1>1. /\ n \in Triple /\ size[1] \in Int /\ size[2] \in Int /\ size[3] \in Int
      /\ \A a \in 1 .. 3 : n[a] \in 0 .. size[a] - 1 /\ size[a] \in Nat \ {0, 1}
  BY EquilibriumAssumption DEF EquilibriumAssumption, Node, All, Last, Triple
<1>2. k \in Triple /\ k[d] = size[d] - 1 - n[d] /\ \A a \in 1 .. 3 \ {d} : k[a] = n[a]
  <2>1. n \in Triple /\ size[1] \in Int /\ size[2] \in Int /\ size[3] \in Int
    BY <1>1
  <2>2. k \in Triple
    BY <2>1, MirrorOfTriple
  <2>3. k[d] = size[d] - 1 - n[d]
    BY <2>1, MirrorOfTriple
  <2>4. \A a \in 1 .. 3 \ {d} : k[a] = n[a]
    BY <2>1, MirrorOfTriple
  <2>. QED
    BY <2>2, <2>3, <2>4
<1>. HIDE DEF k
<1>3. \A a \in 1 .. 3 : k[a] \in 0 .. size[a] - 1
  BY <1>1, <1>2
<1>4. k \in Node
  BY <1>2, <1>3 DEF Node, All, Last, Triple
<1>5. \A a \in 1 .. 3 : k[a] \in Low \cup High(a) <=> n[a] \in Low \cup High(a)
  BY <1>1, <1>2 DEF Low, High, Last
<1>6. k \in Boundary <=> n \in Boundary
  BY <1>4, <1>5 DEF Boundary
<1>7. ASSUME NEW e \in Element
      PROVE  k \in Nodes(Mirror(d, e, NrElements)) <=> n \in Nodes(e)
  <2>. DEFINE l == Mirror(d, e, NrElements)
  <2>1. l \in Element /\ l[d] = size[d] - 2 - e[d]
    BY MirrorOfElement
  <2>2. \A a \in 1 .. 3 \ {d} : l[a] = e[a]
    BY MirrorOfElement
  <2>. HIDE DEF l
  <2>3. \A a \in 1 .. 3 : e[a] \in Int
    BY DEF Element
  <2>4. \A a \in 1 .. 3 : k[a] \in l[a] .. l[a] + 1 <=> n[a] \in e[a] .. e[a] + 1
    BY <1>1, <1>2, <2>1, <2>2, <2>3
  <2>5. k \in Nodes(l) <=> \A a \in 1 .. 3 : k[a] \in l[a] .. l[a] + 1
    BY <1>2 DEF Nodes, Triple
  <2>6. n \in Nodes(e) <=> \A a \in 1 .. 3 : n[a] \in e[a] .. e[a] + 1
    BY <1>1 DEF Nodes, Triple
  <2>. QED
    BY <2>4, <2>5, <2>6 DEF l
<1>. QED
  BY <1>4, <1>6, <1>7 DEF k

(* The rows of a mirror image have the mirror images of the elements.      *)
LEMMA ElementsMirrored ==
  ASSUME size \in Sizes, NEW d \in 1 .. 3, NEW n \in Node
  PROVE  ElementsAt(Mirror(d, n, size))
           = {Mirror(d, e, NrElements) : e \in ElementsAt(n)}
<1>. DEFINE M(e) == Mirror(d, e, NrElements)
            k == Mirror(d, n, size)
<1>1. \A e \in Element : M(e) \in Element /\ M(M(e)) = e
  BY MirrorOfElement
<1>2. \A e \in Element : k \in Nodes(M(e)) <=> n \in Nodes(e)
  BY MirrorOfNode
<1>. HIDE DEF M, k
<1>3. ElementsAt(k) = {M(e) : e \in ElementsAt(n)}
  BY <1>1, <1>2 DEF ElementsAt
<1>. QED
  BY <1>3 DEF M, k

(* A mirror symmetric structure gives mirror symmetric linear systems, on  *)
(* every grid and in every Newton iteration of every solution.             *)
THEOREM SystemsAreOfTheCell == CellSpec => []SystemIsOfTheCell
<1>1. Inv /\ CellInv => SystemIsOfTheCell
  <2>. SUFFICES ASSUME Inv, CellInv, pc = "cg_start", NEW d \in MirrorAxes(micro_type)
                PROVE  /\ \A e \in Element : elem_type[Mirror(d, e, NrElements)] = elem_type[e]
                       /\ \A n \in Node :
                            rows[Mirror(d, n, size)].from
                              = {Mirror(d, e, NrElements) : e \in rows[n].from}
    BY DEF SystemIsOfTheCell
  <2>1. /\ d \in 1 .. 3 /\ size \in Sizes /\ micro_type \in MicroType
        /\ elem_type = [e \in Element |-> ElemType(micro_type, CentreOf(e))]
    BY CellAssumption DEF CellAssumption, CellInv, MirrorAxes
  <2>2. ASSUME NEW e \in Element PROVE elem_type[Mirror(d, e, NrElements)] = elem_type[e]
    <3>1. /\ Mirror(d, e, NrElements) \in Element
          /\ CentreOf(Mirror(d, e, NrElements)) = Reflect(d, CentreOf(e))
      BY <2>1, MirrorOfElement
    <3>2. CentreOf(e) \in Point /\ InCell(CentreOf(e))
      BY <2>1, CentresInCell
    <3>3. ElemType(micro_type, Reflect(d, CentreOf(e))) = ElemType(micro_type, CentreOf(e))
      BY <2>1, <3>2, ElemTypeReflected
    <3>. QED
      BY <2>1, <3>1, <3>3
  <2>3. ASSUME NEW n \in Node
        PROVE  rows[Mirror(d, n, size)].from
                 = {Mirror(d, e, NrElements) : e \in rows[n].from}
    <3>. DEFINE k == Mirror(d, n, size)
    <3>1. k \in Node /\ (k \in Boundary <=> n \in Boundary)
      BY <2>1, MirrorOfNode
    <3>2. \A a \in Node : rows[a].from = IF a \in Boundary THEN {} ELSE ElementsAt(a)
      <4>1. Identity.from = {} /\ \A a \in Node : StiffnessRows[a].from = ElementsAt(a)
        BY DEF Identity, StiffnessRows, Stiffness
      <4>2. \A a \in Node : rows[a] = IF a \in Boundary THEN Identity ELSE StiffnessRows[a]
        BY DEF Inv, MatInv
      <4>. QED
        BY <4>1, <4>2
    <3>3. ElementsAt(k) = {Mirror(d, e, NrElements) : e \in ElementsAt(n)}
      BY <2>1, ElementsMirrored
    <3>. HIDE DEF k
    <3>4. CASE n \in Boundary
      <4>1. rows[n].from = {} /\ rows[k].from = {}
        BY <3>1, <3>2, <3>4
      <4>. QED
        BY <4>1 DEF k
    <3>5. CASE n \notin Boundary
      <4>1. rows[n].from = ElementsAt(n) /\ rows[k].from = ElementsAt(k)
        BY <3>1, <3>2, <3>5
      <4>. QED
        BY <3>3, <4>1 DEF k
    <3>. QED
      BY <3>4, <3>5
  <2>. QED
    BY <2>2, <2>3
<1>. QED
  BY <1>1, CellSolves, Invariance, CellInvariance, PTL

=============================================================================
