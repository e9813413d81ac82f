--------------------------- MODULE Restart_proofs ---------------------------
(***************************************************************************)
(* What holds of restart files for every number of ranks, points and       *)
(* restart numbers, and every load history: what a set of whole files      *)
(* restores, and what a torn one does not do.                              *)
(***************************************************************************)
EXTENDS Restart, FiniteSetTheorems, TLAPS

(***************************************************************************)
(* The inductive invariant.                                                *)
(***************************************************************************)

(* What an array holds in a place, and a file.                             *)
Data == {Zero} \cup {Value(r, p, s) : r \in Rank, p \in Nat, s \in Nat}

Pieces == BOOLEAN \cup Data

GP == [allocated : BOOLEAN, vars_n : [1 .. NV -> Data], vars_k : [1 .. NV -> Data],
       u_n : [1 .. NU -> Data], u_k : [1 .. NU -> Data]]

SavedGP == [allocated : BOOLEAN, vars_n : [1 .. NV -> Data], u_n : [1 .. NU -> Data]]

TypeInv ==
  /\ job \in {"run", "write", "read", "restored", "down"}
  /\ job \in {"write", "read", "restored"} => id \in Id
  /\ step \in Nat /\ fresh \in BOOLEAN
  /\ DOMAIN mem = Rank /\ \A r \in Rank : mem[r] \in [Point(r) -> GP]
  /\ writer \in [Rank -> {"open", "write", "closed"}]
  /\ igp \in [Rank -> Nat] /\ put \in [Rank -> Nat] /\ get \in [Rank -> Nat]
  /\ DOMAIN disk = File /\ \A r \in Rank, i \in Id : disk[<<r, i>>] \in Seq(Pieces)
  /\ DOMAIN meant = File
  /\ \A r \in Rank, i \in Id : meant[<<r, i>>] \in [Point(r) -> SavedGP]
  /\ whole \in [Id -> BOOLEAN] /\ stepOf \in [Id -> Nat]

(* Pieces in a file before point p of w.                                   *)
AllocatedBefore(w, p) == {q \in 1 .. p - 1 : w[q].allocated}

Before(w, p) == p - 1 + (NV + NU) * Cardinality(AllocatedBefore(w, p))

(* A file is the beginning of the records of the n points w.               *)
IsPart(file, w, n) ==
  /\ Len(file) <= Before(w, n + 1)
  /\ \A p \in 1 .. n : \A k \in 1 .. RecordSize(w[p]) :
       Before(w, p) + k <= Len(file) => file[Before(w, p) + k] = Record(w[p])[k]

IsAll(file, w, n) == Len(file) = Before(w, n + 1)

FileInv ==
  \A r \in Rank, i \in Id : IsPart(disk[<<r, i>>], meant[<<r, i>>], ngp[r])

WholeInv ==
  \A i \in Id : whole[i] =>
    \A r \in Rank : IsAll(disk[<<r, i>>], meant[<<r, i>>], ngp[r])

(* A rank in the loop of write_restart.                                    *)
Writing(r) ==
  LET w == meant[<<r, id>>]
  IN  /\ w = Saved(mem[r])
      /\ igp[r] \in 1 .. ngp[r] + 1
      /\ igp[r] <= ngp[r] => put[r] < RecordSize(w[igp[r]])
      /\ igp[r] > ngp[r] => put[r] = 0
      /\ Len(disk[<<r, id>>]) = Before(w, igp[r]) + put[r]

WriteInv ==
  job = "write" =>
    /\ ~whole[id]
    /\ \A r \in Rank :
         /\ writer[r] = "write" => Writing(r)
         /\ writer[r] = "closed" => IsAll(disk[<<r, id>>], meant[<<r, id>>], ngp[r])

LoopInv ==
  /\ \A r \in Rank : job # "read" => get[r] = 0
  /\ \A r \in Rank : writer[r] # "write" => put[r] = 0
  /\ \A r \in Rank : job # "read" /\ writer[r] # "write" => igp[r] = 1
  /\ job # "write" => \A r \in Rank : writer[r] = "closed"

(* A point as it is in a new object.                                       *)
IsNew(g) ==
  ~g.allocated /\ g.vars_n = Array(NV, Zero) /\ g.u_n = Array(NU, Zero)

(* A point read from a file that was to hold w.                            *)
IsRead(g, w) ==
  /\ whole[id] =>
       /\ g.allocated = w.allocated
       /\ g.allocated => g.vars_n = w.vars_n /\ g.u_n = w.u_n
       /\ fresh /\ ~g.allocated => g.vars_n = Array(NV, Zero)
  /\ fresh =>
       /\ g.allocated => w.allocated
       /\ \A i \in 1 .. NV : g.vars_n[i] \in {Zero, w.vars_n[i]}
       /\ \A i \in 1 .. NU : g.u_n[i] \in {Zero, w.u_n[i]}

(* A rank in the loop of read_restart: where its stream is, and the points *)
(* on both sides of the loop variable.                                     *)
Reading(r) ==
  LET w == meant[<<r, id>>]
  IN  /\ igp[r] \in 1 .. ngp[r] + 1
      /\ \/ get[r] = Before(w, igp[r])
         \/ ~whole[id] /\ get[r] >= Len(disk[<<r, id>>])
      /\ \A p \in Point(r) : p < igp[r] => IsRead(mem[r][p], w[p])
      /\ fresh => \A p \in Point(r) : p >= igp[r] => IsNew(mem[r][p])

ReadInv ==
  /\ job \in {"read", "restored"} => whole[id] \/ fresh
  /\ job = "read" => \A r \in Rank : Reading(r)
  /\ job = "restored" =>
       \A r \in Rank : \A p \in Point(r) : IsRead(mem[r][p], meant[<<r, id>>][p])

Inv == TypeInv /\ FileInv /\ WholeInv /\ WriteInv /\ LoopInv /\ ReadInv

(***************************************************************************)
(* Places in a file.                                                       *)
(***************************************************************************)

LEMMA Times ==
  ASSUME NEW m \in Nat, NEW c \in Nat
  PROVE  m * c \in Nat /\ m * (c + 1) = m * c + m /\ m * 0 = 0
OBVIOUS

LEMMA TimesMore ==
  ASSUME NEW m \in Nat, NEW c \in Nat, NEW d \in Nat, c <= d
  PROVE  m * c <= m * d
<1>1. PICK e \in Nat : d = c + e
  <2>. d - c \in Nat /\ d = c + (d - c)
    OBVIOUS
  <2>. QED
    OBVIOUS
<1>2. m * e \in Nat /\ m * c \in Nat /\ m * (c + e) = m * c + m * e
  OBVIOUS
<1>. QED
  BY <1>1, <1>2

LEMMA Sizes ==
  /\ NV \in Nat \ {0} /\ NU \in Nat \ {0} /\ NV + NU \in Nat
  /\ \A r \in Rank : ngp[r] \in Nat \ {0}
BY RestartAssumption DEF RestartAssumption

LEMMA AllocatedFinite ==
  ASSUME NEW w, NEW p \in Nat \ {0}
  PROVE  /\ IsFiniteSet(AllocatedBefore(w, p))
         /\ Cardinality(AllocatedBefore(w, p)) \in Nat
<1>1. IsFiniteSet(1 .. p - 1)
  BY FS_Interval
<1>2. AllocatedBefore(w, p) \subseteq 1 .. p - 1
  BY DEF AllocatedBefore
<1>. QED
  BY <1>1, <1>2, FS_Subset, FS_CardinalityType

LEMMA BeforeType ==
  ASSUME NEW w, NEW p \in Nat \ {0}
  PROVE  Before(w, p) \in Nat
<1>. DEFINE c == Cardinality(AllocatedBefore(w, p))
<1>1. c \in Nat
  BY AllocatedFinite
<1>. HIDE DEF c
<1>2. (NV + NU) * c \in Nat /\ p - 1 \in Nat
  BY <1>1, Sizes, Times
<1>. QED
  BY <1>2 DEF Before, c

LEMMA BeforeFirst == ASSUME NEW w PROVE Before(w, 1) = 0
<1>1. AllocatedBefore(w, 1) = {}
  BY DEF AllocatedBefore
<1>2. Cardinality({}) = 0
  BY FS_EmptySet
<1>3. (NV + NU) * 0 = 0
  BY Sizes, Times
<1>. QED
  BY <1>1, <1>2, <1>3 DEF Before

LEMMA SizeType ==
  ASSUME NEW g, g.allocated \in BOOLEAN
  PROVE  RecordSize(g) \in Nat \ {0}
BY Sizes DEF RecordSize

LEMMA BeforeNext ==
  ASSUME NEW w, NEW p \in Nat \ {0}, w[p].allocated \in BOOLEAN
  PROVE  Before(w, p + 1) = Before(w, p) + RecordSize(w[p])
<1>. DEFINE A == AllocatedBefore(w, p)
            B == AllocatedBefore(w, p + 1)
            m == NV + NU
<1>1. IsFiniteSet(A) /\ Cardinality(A) \in Nat /\ m \in Nat
  BY AllocatedFinite, Sizes
<1>2. Before(w, p + 1) = p + m * Cardinality(B)
  BY DEF Before
<1>3. Before(w, p) = p - 1 + m * Cardinality(A)
  BY DEF Before
<1>4. CASE w[p].allocated
  <2>1. B = A \cup {p} /\ p \notin A
    BY <1>4 DEF AllocatedBefore
  <2>. HIDE DEF A, B, m
  <2>2. Cardinality(B) = Cardinality(A) + 1
    BY <1>1, <2>1, FS_AddElement
  <2>3. m * Cardinality(B) = m * Cardinality(A) + m /\ m * Cardinality(A) \in Nat
    BY <1>1, <2>2, Times
  <2>4. RecordSize(w[p]) = 1 + m
    BY <1>4, Sizes DEF RecordSize, m
  <2>. QED
    BY <1>1, <1>2, <1>3, <2>3, <2>4
<1>5. CASE ~w[p].allocated
  <2>1. B = A
    BY <1>5 DEF AllocatedBefore
  <2>2. RecordSize(w[p]) = 1
    BY <1>5 DEF RecordSize
  <2>. HIDE DEF A, B, m
  <2>3. m * Cardinality(A) \in Nat
    BY <1>1, Times
  <2>. QED
    BY <1>1, <1>2, <1>3, <2>1, <2>2, <2>3
<1>. QED
  BY <1>4, <1>5

LEMMA BeforeMore ==
  ASSUME NEW w, NEW p \in Nat \ {0}, NEW q \in Nat \ {0}, p <= q
  PROVE  Before(w, p) <= Before(w, q)
<1>. DEFINE A == AllocatedBefore(w, p)
            B == AllocatedBefore(w, q)
            m == NV + NU
<1>1. A \subseteq B
  BY DEF AllocatedBefore
<1>2. /\ IsFiniteSet(B) /\ Cardinality(A) \in Nat /\ Cardinality(B) \in Nat
      /\ m \in Nat
  BY AllocatedFinite, Sizes
<1>3. Before(w, p) = p - 1 + m * Cardinality(A)
  BY DEF Before
<1>4. Before(w, q) = q - 1 + m * Cardinality(B)
  BY DEF Before
<1>. HIDE DEF A, B, m
<1>5. Cardinality(A) <= Cardinality(B)
  BY <1>1, <1>2, FS_Subset
<1>6. /\ m * Cardinality(A) <= m * Cardinality(B)
      /\ m * Cardinality(A) \in Nat /\ m * Cardinality(B) \in Nat
  BY <1>2, <1>5, TimesMore, Times
<1>. QED
  BY <1>3, <1>4, <1>6

(* The records before a point of points that are typed.                    *)
LEMMA Places ==
  ASSUME NEW n \in Nat, NEW w, \A q \in 1 .. n : w[q].allocated \in BOOLEAN,
         NEW p \in 1 .. n
  PROVE  /\ Before(w, p) \in Nat /\ RecordSize(w[p]) \in Nat \ {0}
         /\ Before(w, p + 1) = Before(w, p) + RecordSize(w[p])
         /\ Before(w, p) + RecordSize(w[p]) <= Before(w, n + 1)
         /\ Before(w, n + 1) \in Nat
         /\ \A q \in 1 .. n : q < p => Before(w, q) + RecordSize(w[q]) <= Before(w, p)
<1>1. p \in Nat \ {0} /\ p + 1 <= n + 1 /\ p + 1 \in Nat \ {0} /\ n + 1 \in Nat \ {0}
  OBVIOUS
<1>2. Before(w, p + 1) = Before(w, p) + RecordSize(w[p])
  BY <1>1, BeforeNext
<1>3. \A q \in 1 .. n : q < p => Before(w, q) + RecordSize(w[q]) <= Before(w, p)
  <2>. SUFFICES ASSUME NEW q \in 1 .. n, q < p
                PROVE  Before(w, q) + RecordSize(w[q]) <= Before(w, p)
    OBVIOUS
  <2>1. q \in Nat \ {0} /\ q + 1 \in Nat \ {0} /\ q + 1 <= p
    OBVIOUS
  <2>2. Before(w, q + 1) = Before(w, q) + RecordSize(w[q])
    BY <2>1, BeforeNext
  <2>3. Before(w, q + 1) <= Before(w, p)
    BY <1>1, <2>1, BeforeMore
  <2>. QED
    BY <2>2, <2>3
<1>4. Before(w, p + 1) <= Before(w, n + 1)
  BY <1>1, BeforeMore
<1>. QED
  BY <1>1, <1>2, <1>3, <1>4, BeforeType, SizeType

(***************************************************************************)
(* Records and files.                                                      *)
(***************************************************************************)

LEMMA RecordType ==
  ASSUME NEW g \in SavedGP
  PROVE  /\ Len(Record(g)) = RecordSize(g)
         /\ \A k \in 1 .. RecordSize(g) : Record(g)[k] \in Pieces
         /\ Record(g)[1] = g.allocated
         /\ g.allocated => /\ \A i \in 1 .. NV : Record(g)[1 + i] = g.vars_n[i]
                           /\ \A i \in 1 .. NU : Record(g)[1 + NV + i] = g.u_n[i]
<1>1. /\ g.allocated \in BOOLEAN /\ g.vars_n \in [1 .. NV -> Data]
      /\ g.u_n \in [1 .. NU -> Data]
  BY DEF SavedGP
<1>2. RecordSize(g) \in Nat \ {0}
  BY <1>1, SizeType
<1>3. Len(Record(g)) = RecordSize(g)
  <2>. DEFINE n == RecordSize(g)
              f(k) == CASE k = 1 -> g.allocated
                        [] k \in 2 .. NV + 1 -> g.vars_n[k - 1]
                        [] OTHER -> g.u_n[k - NV - 1]
  <2>1. Record(g) = [k \in 1 .. n |-> f(k)]
    BY DEF Record
  <2>. HIDE DEF n, f
  <2>2. n \in Nat
    BY <1>2 DEF n
  <2>3. Len([k \in 1 .. n |-> f(k)]) = n
    BY <2>2
  <2>. QED
    BY <2>1, <2>3 DEF n
<1>4. Record(g)[1] = g.allocated
  BY <1>2 DEF Record
<1>5. ASSUME g.allocated, NEW i \in 1 .. NV PROVE Record(g)[1 + i] = g.vars_n[i]
  <2>1. /\ RecordSize(g) = 1 + NV + NU /\ NV \in Nat /\ NU \in Nat
        /\ 1 + i \in 1 .. RecordSize(g) /\ 1 + i # 1 /\ 1 + i \in 2 .. NV + 1
        /\ (1 + i) - 1 = i
    BY <1>5, Sizes DEF RecordSize
  <2>. QED
    BY <2>1 DEF Record
<1>6. ASSUME g.allocated, NEW i \in 1 .. NU PROVE Record(g)[1 + NV + i] = g.u_n[i]
  <2>1. /\ RecordSize(g) = 1 + NV + NU /\ NV \in Nat /\ NU \in Nat
        /\ 1 + NV + i \in 1 .. RecordSize(g) /\ 1 + NV + i # 1
        /\ 1 + NV + i \notin 2 .. NV + 1 /\ (1 + NV + i) - NV - 1 = i
    BY <1>6, Sizes DEF RecordSize
  <2>. QED
    BY <2>1 DEF Record
<1>7. ASSUME NEW k \in 1 .. RecordSize(g) PROVE Record(g)[k] \in Pieces
  <2>1. CASE k = 1
    BY <1>1, <1>4, <2>1 DEF Pieces
  <2>2. CASE k # 1
    <3>1. g.allocated /\ RecordSize(g) = 1 + NV + NU /\ NV \in Nat /\ NU \in Nat
      BY <2>2, <1>7, Sizes DEF RecordSize
    <3>2. CASE k <= NV + 1
      <4>. k - 1 \in 1 .. NV /\ 1 + (k - 1) = k
        BY <2>2, <3>1, <3>2
      <4>. Record(g)[k] = g.vars_n[k - 1]
        BY <1>5, <3>1
      <4>. QED
        BY <1>1 DEF Pieces
    <3>3. CASE k > NV + 1
      <4>. k - NV - 1 \in 1 .. NU /\ 1 + NV + (k - NV - 1) = k
        BY <2>2, <3>1, <3>3
      <4>. Record(g)[k] = g.u_n[k - NV - 1]
        BY <1>6, <3>1
      <4>. QED
        BY <1>1 DEF Pieces
    <3>. QED
      BY <3>1, <3>2, <3>3
  <2>. QED
    BY <2>1, <2>2
<1>. QED
  BY <1>3, <1>4, <1>5, <1>6, <1>7

LEMMA SavedType ==
  ASSUME NEW n \in Nat, NEW points \in [1 .. n -> GP]
  PROVE  /\ Saved(points) \in [1 .. n -> SavedGP]
         /\ \A p \in 1 .. n :
              /\ Record(points[p]) = Record(Saved(points)[p])
              /\ RecordSize(points[p]) = RecordSize(Saved(points)[p])
<1>1. ASSUME NEW p \in 1 .. n
      PROVE  /\ Saved(points)[p] = [allocated |-> points[p].allocated,
                                    vars_n |-> points[p].vars_n, u_n |-> points[p].u_n]
             /\ Saved(points)[p] \in SavedGP
  <2>1. Saved(points)[p] = [allocated |-> points[p].allocated,
                            vars_n |-> points[p].vars_n, u_n |-> points[p].u_n]
    BY DEF Saved
  <2>2. /\ points[p].allocated \in BOOLEAN /\ points[p].vars_n \in [1 .. NV -> Data]
        /\ points[p].u_n \in [1 .. NU -> Data]
    BY DEF GP
  <2>. QED
    BY <2>1, <2>2 DEF SavedGP
<1>2. Saved(points) = [p \in 1 .. n |-> Saved(points)[p]]
  BY DEF Saved
<1>. QED
  BY <1>1, <1>2 DEF Record, RecordSize

LEMMA PointsTyped ==
  ASSUME NEW n \in Nat, NEW w \in [1 .. n -> SavedGP]
  PROVE  \A q \in 1 .. n : w[q].allocated \in BOOLEAN
BY DEF SavedGP

(* One more piece of the point the file has come to.                       *)
LEMMA AppendPart ==
  ASSUME NEW n \in Nat, NEW w \in [1 .. n -> SavedGP], NEW file \in Seq(Pieces),
         IsPart(file, w, n), NEW p \in 1 .. n, NEW k \in Nat, k < RecordSize(w[p]),
         Len(file) = Before(w, p) + k
  PROVE  LET longer == Append(file, Record(w[p])[k + 1])
         IN  /\ longer \in Seq(Pieces) /\ Len(longer) = Len(file) + 1
             /\ IsPart(longer, w, n)
<1>. DEFINE piece == Record(w[p])[k + 1]
            longer == Append(file, piece)
<1>1. /\ Before(w, p) \in Nat /\ RecordSize(w[p]) \in Nat \ {0}
      /\ Before(w, p) + RecordSize(w[p]) <= Before(w, n + 1)
      /\ Before(w, n + 1) \in Nat
  BY PointsTyped, Places
<1>2. piece \in Pieces
  <2>. k + 1 \in 1 .. RecordSize(w[p])
    BY <1>1
  <2>. QED
    BY RecordType
<1>. HIDE DEF piece
<1>3. /\ longer \in Seq(Pieces) /\ Len(file) \in Nat
      /\ Len(longer) = Len(file) + 1 /\ longer[Len(file) + 1] = piece
      /\ \A j \in 1 .. Len(file) : longer[j] = file[j]
  BY <1>2
<1>4. Len(longer) <= Before(w, n + 1)
  BY <1>1, <1>3
<1>5. ASSUME NEW q \in 1 .. n, NEW j \in 1 .. RecordSize(w[q]),
             Before(w, q) + j <= Len(longer)
      PROVE  longer[Before(w, q) + j] = Record(w[q])[j]
  <2>1. /\ Before(w, q) \in Nat /\ RecordSize(w[q]) \in Nat
        /\ q < p => Before(w, q) + RecordSize(w[q]) <= Before(w, p)
        /\ p < q => Before(w, p) + RecordSize(w[p]) <= Before(w, q)
    BY PointsTyped, Places
  <2>2. CASE Before(w, q) + j <= Len(file)
    <3>1. file[Before(w, q) + j] = Record(w[q])[j]
      BY <2>2 DEF IsPart
    <3>2. Before(w, q) + j \in 1 .. Len(file)
      BY <1>3, <2>1, <2>2
    <3>. QED
      BY <1>3, <3>1, <3>2
  <2>3. CASE ~(Before(w, q) + j <= Len(file))
    <3>1. Before(w, q) + j = Before(w, p) + k + 1
      BY <1>1, <1>3, <1>5, <2>1, <2>3, SMTT(60)
    <3>2. q = p
      BY <1>1, <2>1, <3>1
    <3>3. j = k + 1
      BY <1>1, <3>1, <3>2
    <3>4. Before(w, q) + j = Len(file) + 1
      BY <1>1, <3>1
    <3>. QED
      BY <1>3, <3>2, <3>3, <3>4 DEF piece
  <2>. QED
    BY <2>2, <2>3
<1>. QED
  BY <1>3, <1>4, <1>5 DEF IsPart, piece

LEMMA EmptyPart ==
  ASSUME NEW n \in Nat, NEW w \in [1 .. n -> SavedGP]
  PROVE  IsPart(<<>>, w, n)
<1>1. Before(w, n + 1) \in Nat
  BY BeforeType
<1>2. ASSUME NEW p \in 1 .. n, NEW k \in 1 .. RecordSize(w[p]) 
      PROVE  ~(Before(w, p) + k <= 0)
  <2>. Before(w, p) \in Nat /\ RecordSize(w[p]) \in Nat
    BY PointsTyped, Places
  <2>. QED
    OBVIOUS
<1>3. Len(<<>>) = 0
  OBVIOUS
<1>. QED
  BY <1>1, <1>2, <1>3 DEF IsPart

(***************************************************************************)
(* Steps of the computation.                                               *)
(***************************************************************************)

LEMMA ArrayType ==
  ASSUME NEW n \in Nat, NEW v \in Data
  PROVE  Array(n, v) \in [1 .. n -> Data]
BY DEF Array

LEMMA ZeroType == Zero \in Data
BY DEF Data

LEMMA PointRange == \A r \in Rank : Point(r) = 1 .. ngp[r]
BY DEF Point

LEMMA NewType ==
  ASSUME NEW r \in Rank
  PROVE  /\ NewPoints(r) \in [Point(r) -> GP]
         /\ \A p \in Point(r) : IsNew(NewPoints(r)[p])
<1>1. /\ Array(NV, Zero) \in [1 .. NV -> Data] /\ Array(NU, Zero) \in [1 .. NU -> Data]
  BY ZeroType, ArrayType, Sizes
<1>2. NewPoint \in GP /\ IsNew(NewPoint)
  BY <1>1 DEF NewPoint, GP, IsNew
<1>. QED
  BY <1>2 DEF NewPoints

LEMMA InitInv == Init => Inv
<1>. SUFFICES ASSUME Init PROVE Inv
  OBVIOUS
<1>1. /\ job = "run" /\ step = 0 /\ fresh = TRUE
      /\ mem = [r \in Rank |-> NewPoints(r)]
      /\ writer = [r \in Rank |-> "closed"]
      /\ igp = [r \in Rank |-> 1] /\ put = [r \in Rank |-> 0] /\ get = [r \in Rank |-> 0]
      /\ whole = [i \in Id |-> FALSE] /\ stepOf = [i \in Id |-> 0]
  BY DEF Init
<1>2. /\ DOMAIN disk = File /\ DOMAIN meant = File
      /\ \A r \in Rank, i \in Id :
           disk[<<r, i>>] = <<>> /\ meant[<<r, i>>] = Saved(NewPoints(r))
  BY DEF Init, File
<1>3. \A r \in Rank, i \in Id : meant[<<r, i>>] \in [Point(r) -> SavedGP]
  <2>1. \A r \in Rank : Saved(NewPoints(r)) \in [Point(r) -> SavedGP]
    <3>. SUFFICES ASSUME NEW r \in Rank
                  PROVE  Saved(NewPoints(r)) \in [Point(r) -> SavedGP]
      OBVIOUS
    <3>. ngp[r] \in Nat /\ Point(r) = 1 .. ngp[r]
      BY PointRange, Sizes
    <3>. NewPoints(r) \in [1 .. ngp[r] -> GP]
      BY NewType
    <3>. QED
      BY SavedType
  <2>. QED
    BY <1>2, <2>1
<1>4. TypeInv
  <2>. <<>> \in Seq(Pieces)
    OBVIOUS
  <2>1. \A r \in Rank, i \in Id : disk[<<r, i>>] \in Seq(Pieces)
    BY <1>2, Zenon
  <2>2. fresh \in BOOLEAN /\ whole \in [Id -> BOOLEAN] /\ stepOf \in [Id -> Nat]
    BY <1>1
  <2>. QED
    BY <1>1, <1>2, <1>3, <2>1, <2>2, NewType DEF TypeInv
<1>5. FileInv
  BY <1>2, <1>3, EmptyPart, PointRange, Sizes DEF FileInv
<1>6. WholeInv /\ WriteInv /\ LoopInv /\ ReadInv
  BY <1>1 DEF WholeInv, WriteInv, LoopInv, ReadInv
<1>. QED
  BY <1>4, <1>5, <1>6 DEF Inv

LEMMA ValueType ==
  ASSUME NEW r \in Rank, NEW p \in Nat, NEW s \in Nat
  PROVE  Value(r, p, s) \in Data
BY DEF Data

LEMMA SolvedType ==
  ASSUME Inv, NEW r \in Rank, NEW p \in Point(r), NEW g \in GP
  PROVE  Solved(r, p, g) \in GP
<1>. DEFINE evolves == step + 1 >= load[r][p] \/ g.allocated
            v == Value(r, p, step + 1)
<1>1. v \in Data
  <2>1. p \in Nat
    <3>. ngp[r] \in Nat /\ p \in 1 .. ngp[r]
      BY PointRange, Sizes
    <3>. QED
      OBVIOUS
  <2>2. step + 1 \in Nat
    BY DEF Inv, TypeInv
  <2>. QED
    BY <2>1, <2>2, ValueType
<1>2. /\ Array(NU, v) \in [1 .. NU -> Data] /\ Array(NV, v) \in [1 .. NV -> Data]
  BY <1>1, ArrayType, Sizes
<1>3. evolves \in BOOLEAN
  OBVIOUS
<1>4. Solved(r, p, g) = [g EXCEPT !.allocated = evolves, !.u_k = Array(NU, v),
                                  !.vars_k = IF evolves THEN Array(NV, v) ELSE @]
  BY DEF Solved
<1>. HIDE DEF evolves, v
<1>5. (IF evolves THEN Array(NV, v) ELSE g.vars_k) \in [1 .. NV -> Data]
  BY <1>2 DEF GP
<1>. QED
  BY <1>2, <1>3, <1>4, <1>5 DEF GP

(* Nothing changes that the invariants of the files are about.             *)
LEMMA FilesKept ==
  ASSUME FileInv, WholeInv, UNCHANGED <<disk, meant, whole>>
  PROVE  FileInv' /\ WholeInv'
BY DEF FileInv, WholeInv

LEMMA HomogenizeStep == Inv /\ Homogenize => Inv'
<1>. SUFFICES ASSUME Inv, Homogenize PROVE Inv'
  OBVIOUS
<1>1. /\ job \in {"run", "restored"} /\ job' = "run"
      /\ mem' = [r \in Rank |-> [p \in Point(r) |-> Solved(r, p, mem[r][p])]]
      /\ UNCHANGED <<id, step, fresh, writer, igp, put, get, disk, meant, whole, stepOf>>
  BY DEF Homogenize, GoesOn, streamVars, callVars
<1>2. \A r \in Rank : mem'[r] \in [Point(r) -> GP]
  <2>. SUFFICES ASSUME NEW r \in Rank, NEW p \in Point(r)
                PROVE  Solved(r, p, mem[r][p]) \in GP
    BY <1>1
  <2>. mem[r][p] \in GP
    BY DEF Inv, TypeInv
  <2>. QED
    BY SolvedType
<1>3. DOMAIN mem' = Rank
  BY <1>1
<1>4. TypeInv'
  BY <1>1, <1>2, <1>3 DEF Inv, TypeInv
<1>5. FileInv' /\ WholeInv'
  BY <1>1, FilesKept DEF Inv
<1>6. WriteInv' /\ LoopInv' /\ ReadInv'
  BY <1>1 DEF Inv, WriteInv, LoopInv, ReadInv
<1>. QED
  BY <1>4, <1>5, <1>6 DEF Inv

LEMMA UpdateVarsStep == Inv /\ UpdateVars => Inv'
<1>. SUFFICES ASSUME Inv, UpdateVars PROVE Inv'
  OBVIOUS
<1>1. /\ job = "run" /\ job' = "run" /\ step' = step + 1
      /\ UNCHANGED <<id, fresh, writer, igp, put, get, disk, meant, whole, stepOf>>
  BY DEF UpdateVars, streamVars, callVars
<1>. DEFINE swapped(g) == [g EXCEPT !.vars_n = g.vars_k, !.vars_k = g.vars_n,
                                   !.u_n = g.u_k, !.u_k = g.u_n]
<1>0. mem' = [r \in Rank |-> [p \in Point(r) |-> swapped(mem[r][p])]]
  BY Zenon DEF UpdateVars
<1>2. \A g \in GP : swapped(g) \in GP
  BY DEF GP
<1>3. DOMAIN mem' = Rank /\ \A r \in Rank : mem'[r] \in [Point(r) -> GP]
  <2>. SUFFICES ASSUME NEW r \in Rank PROVE mem'[r] \in [Point(r) -> GP]
    BY <1>0
  <2>1. mem[r] \in [Point(r) -> GP]
    BY DEF Inv, TypeInv
  <2>. HIDE DEF swapped
  <2>2. mem'[r] = [p \in Point(r) |-> swapped(mem[r][p])]
    BY <1>0
  <2>. QED
    BY <1>2, <2>1, <2>2
<1>4. TypeInv'
  <2>. HIDE DEF swapped
  <2>. step' \in Nat
    BY <1>1 DEF Inv, TypeInv
  <2>1. UNCHANGED <<id, fresh, writer, igp, put, get, disk, meant, whole, stepOf>>
    BY <1>1
  <2>. QED
    BY <1>1, <1>3, <2>1 DEF Inv, TypeInv
<1>5. FileInv' /\ WholeInv'
  BY <1>1, FilesKept DEF Inv
<1>6. WriteInv' /\ LoopInv' /\ ReadInv'
  BY <1>1 DEF Inv, WriteInv, LoopInv, ReadInv
<1>. QED
  BY <1>4, <1>5, <1>6 DEF Inv

LEMMA CrashStep == Inv /\ Crash => Inv'
<1>. SUFFICES ASSUME Inv, Crash PROVE Inv'
  OBVIOUS
<1>1. /\ job' = "down" /\ step' = 0 /\ fresh' = TRUE
      /\ mem' = [r \in Rank |-> NewPoints(r)]
      /\ writer' = [r \in Rank |-> "closed"]
      /\ igp' = [r \in Rank |-> 1] /\ put' = [r \in Rank |-> 0]
      /\ get' = [r \in Rank |-> 0]
      /\ UNCHANGED <<id, disk, meant, whole, stepOf>>
  BY DEF Crash, callVars
<1>2. DOMAIN mem' = Rank /\ \A r \in Rank : mem'[r] \in [Point(r) -> GP]
  BY <1>1, NewType
<1>3. fresh' \in BOOLEAN
  BY <1>1
<1>4. TypeInv'
  BY <1>1, <1>2, <1>3 DEF Inv, TypeInv
<1>5. FileInv' /\ WholeInv'
  BY <1>1, FilesKept DEF Inv
<1>6. WriteInv' /\ LoopInv' /\ ReadInv'
  BY <1>1 DEF Inv, WriteInv, LoopInv, ReadInv
<1>. QED
  BY <1>4, <1>5, <1>6 DEF Inv

LEMMA StutterStep == Inv /\ UNCHANGED vars => Inv'
<1>. SUFFICES ASSUME Inv, UNCHANGED vars PROVE Inv'
  OBVIOUS
<1>1. /\ UNCHANGED <<job, id, step, fresh, mem, writer, igp, put, get>>
      /\ UNCHANGED <<disk, meant, whole, stepOf>>
  BY DEF vars, processVars, streamVars, callVars
<1>2. TypeInv'
  BY <1>1 DEF Inv, TypeInv
<1>3. FileInv' /\ WholeInv'
  BY <1>1, FilesKept DEF Inv
<1>4. WriteInv' /\ LoopInv'
  BY <1>1 DEF Inv, WriteInv, LoopInv, Writing
<1>5. ReadInv'
  BY <1>1, ZenonT(60) DEF Inv, ReadInv, Reading, IsRead
<1>. QED
  BY <1>2, <1>3, <1>4, <1>5 DEF Inv

(***************************************************************************)
(* Steps of write_restart.                                                 *)
(***************************************************************************)

LEMMA WriteRestartStep == \A i \in Id : Inv /\ WriteRestart(i) => Inv'
<1>. SUFFICES ASSUME NEW i \in Id, Inv, WriteRestart(i) PROVE Inv'
  OBVIOUS
<1>1. /\ job \in {"run", "restored"} /\ job' = "write" /\ id' = i
      /\ writer' = [r \in Rank |-> "open"]
      /\ whole' = [whole EXCEPT ![i] = FALSE] /\ stepOf' = [stepOf EXCEPT ![i] = step]
      /\ UNCHANGED <<step, fresh, mem, igp, put, get, disk, meant>>
  BY DEF WriteRestart, GoesOn, processVars, streamVars
<1>2. /\ whole' \in [Id -> BOOLEAN] /\ stepOf' \in [Id -> Nat]
      /\ ~whole'[i] /\ \A j \in Id : whole'[j] => whole[j]
  BY <1>1 DEF Inv, TypeInv
<1>3. TypeInv'
  BY <1>1, <1>2 DEF Inv, TypeInv
<1>4. FileInv' /\ WholeInv'
  BY <1>1, <1>2 DEF Inv, FileInv, WholeInv
<1>5. WriteInv' /\ LoopInv' /\ ReadInv'
  BY <1>1, <1>2 DEF Inv, WriteInv, LoopInv, ReadInv
<1>. QED
  BY <1>3, <1>4, <1>5 DEF Inv

LEMMA OpenStep == \A r \in Rank : Inv /\ Open(r) => Inv'
<1>. SUFFICES ASSUME NEW r \in Rank, Inv, Open(r) PROVE Inv'
  OBVIOUS
<1>1. /\ job = "write" /\ writer[r] = "open"
      /\ writer' = [writer EXCEPT ![r] = "write"]
      /\ disk' = [disk EXCEPT ![<<r, id>>] = <<>>]
      /\ meant' = [meant EXCEPT ![<<r, id>>] = Saved(mem[r])]
      /\ UNCHANGED <<job, id, step, fresh, mem, igp, put, get, whole, stepOf>>
  BY DEF Open, FileOf, processVars, streamVars
<1>2. /\ id \in Id /\ ~whole[id] /\ igp[r] = 1 /\ put[r] = 0
      /\ DOMAIN disk = File /\ DOMAIN meant = File
      /\ ngp[r] \in Nat \ {0} /\ Point(r) = 1 .. ngp[r]
  BY <1>1, PointRange, Sizes DEF Inv, TypeInv, WriteInv, LoopInv
<1>3. /\ DOMAIN disk' = File /\ disk'[<<r, id>>] = <<>>
      /\ \A q \in Rank, j \in Id : q # r \/ j # id => disk'[<<q, j>>] = disk[<<q, j>>]
  BY <1>1, <1>2 DEF File
<1>4. /\ DOMAIN meant' = File /\ meant'[<<r, id>>] = Saved(mem[r])
      /\ \A q \in Rank, j \in Id : q # r \/ j # id => meant'[<<q, j>>] = meant[<<q, j>>]
  BY <1>1, <1>2 DEF File
<1>5. Saved(mem[r]) \in [1 .. ngp[r] -> SavedGP]
  BY <1>2, SavedType DEF Inv, TypeInv
<1>6. /\ writer' \in [Rank -> {"open", "write", "closed"}] /\ writer'[r] = "write"
      /\ \A q \in Rank : q # r => writer'[q] = writer[q]
  BY <1>1 DEF Inv, TypeInv
<1>7. TypeInv'
  <2>1. \A q \in Rank, j \in Id : disk'[<<q, j>>] \in Seq(Pieces)
    <3>. <<>> \in Seq(Pieces)
      OBVIOUS
    <3>. QED
      BY <1>3 DEF Inv, TypeInv
  <2>2. \A q \in Rank, j \in Id : meant'[<<q, j>>] \in [Point(q) -> SavedGP]
    BY <1>2, <1>4, <1>5, ZenonT(60) DEF Inv, TypeInv
  <2>. QED
    BY <1>1, <1>3, <1>4, <1>6, <2>1, <2>2 DEF Inv, TypeInv
<1>8. FileInv'
  <2>. SUFFICES ASSUME NEW q \in Rank, NEW j \in Id
                PROVE  IsPart(disk'[<<q, j>>], meant'[<<q, j>>], ngp[q])
    BY DEF FileInv
  <2>1. CASE q = r /\ j = id
    BY <2>1, <1>2, <1>3, <1>4, <1>5, EmptyPart
  <2>2. CASE q # r \/ j # id
    BY <2>2, <1>3, <1>4 DEF Inv, FileInv
  <2>. QED
    BY <2>1, <2>2
<1>9. WholeInv'
  BY <1>1, <1>2, <1>3, <1>4 DEF Inv, WholeInv
<1>10. WriteInv'
  <2>1. Writing(r)'
    <3>1. Before(Saved(mem[r]), 1) = 0 /\ Len(<<>>) = 0
      BY BeforeFirst
    <3>2. RecordSize(Saved(mem[r])[1]) \in Nat \ {0}
      BY <1>2, <1>5, SizeType DEF SavedGP
    <3>3. /\ disk'[<<r, id>>] = <<>> /\ meant'[<<r, id>>] = Saved(mem[r])
          /\ igp'[r] = 1 /\ put'[r] = 0 /\ id' = id /\ mem' = mem
      BY <1>1, <1>2, <1>3, <1>4
    <3>. QED
      BY <1>2, <3>1, <3>2, <3>3 DEF Writing
  <2>2. ASSUME NEW q \in Rank, q # r, writer'[q] = "write" PROVE Writing(q)'
    <3>1. /\ disk'[<<q, id>>] = disk[<<q, id>>] /\ meant'[<<q, id>>] = meant[<<q, id>>]
          /\ writer[q] = "write"
      BY <1>2, <1>3, <1>4, <1>6, <2>2
    <3>2. Writing(q)
      BY <1>1, <3>1 DEF Inv, WriteInv
    <3>. QED
      BY <1>1, <3>1, <3>2 DEF Writing
  <2>3. ASSUME NEW q \in Rank, writer'[q] = "closed"
        PROVE  IsAll(disk'[<<q, id>>], meant'[<<q, id>>], ngp[q])
    <3>1. q # r /\ writer[q] = "closed"
      BY <1>6, <2>3
    <3>. QED
      BY <1>1, <1>2, <1>3, <1>4, <3>1 DEF Inv, WriteInv
  <2>. QED
    BY <1>1, <1>2, <2>1, <2>2, <2>3 DEF WriteInv
<1>11. LoopInv' /\ ReadInv'
  BY <1>1, <1>6 DEF Inv, LoopInv, ReadInv
<1>. QED
  BY <1>7, <1>8, <1>9, <1>10, <1>11 DEF Inv

LEMMA WritePieceStep == \A r \in Rank : Inv /\ WritePiece(r) => Inv'
<1>. SUFFICES ASSUME NEW r \in Rank, Inv, WritePiece(r) PROVE Inv'
  OBVIOUS
<1>. DEFINE w == meant[<<r, id>>]
            file == disk[<<r, id>>]
            p == igp[r]
            k == put[r]
            last == k + 1 = Len(Record(mem[r][p]))
<1>1. /\ job = "write" /\ writer[r] = "write" /\ p <= ngp[r]
      /\ disk' = [disk EXCEPT ![<<r, id>>] = Append(file, Record(mem[r][p])[k + 1])]
      /\ put' = [put EXCEPT ![r] = IF last THEN 0 ELSE k + 1]
      /\ igp' = [igp EXCEPT ![r] = IF last THEN p + 1 ELSE p]
      /\ UNCHANGED <<job, id, step, fresh, mem, writer, get, meant, whole, stepOf>>
  BY DEF WritePiece, FileOf, processVars, callVars
<1>2. /\ id \in Id /\ ~whole[id] /\ Writing(r)
      /\ DOMAIN disk = File
      /\ ngp[r] \in Nat \ {0} /\ Point(r) = 1 .. ngp[r]
      /\ p \in 1 .. ngp[r] /\ p \in Nat /\ k \in Nat /\ file \in Seq(Pieces)
      /\ w \in [1 .. ngp[r] -> SavedGP] /\ mem[r] \in [1 .. ngp[r] -> GP]
      /\ IsPart(file, w, ngp[r])
  <2>1. id \in Id /\ ~whole[id] /\ Writing(r)
    BY <1>1 DEF Inv, TypeInv, WriteInv
  <2>2. ngp[r] \in Nat \ {0} /\ Point(r) = 1 .. ngp[r]
    BY PointRange, Sizes
  <2>3. /\ DOMAIN disk = File /\ p \in Nat /\ k \in Nat /\ file \in Seq(Pieces)
        /\ w \in [1 .. ngp[r] -> SavedGP] /\ mem[r] \in [1 .. ngp[r] -> GP]
    BY <2>1, <2>2 DEF Inv, TypeInv
  <2>4. IsPart(file, w, ngp[r])
    BY <2>1 DEF Inv, FileInv
  <2>5. p \in 1 .. ngp[r]
    BY <1>1, <2>1, <2>2 DEF Writing
  <2>. QED
    BY <2>1, <2>2, <2>3, <2>4, <2>5
<1>3. /\ w = Saved(mem[r]) /\ k < RecordSize(w[p]) /\ Len(file) = Before(w, p) + k
      /\ Record(mem[r][p]) = Record(w[p])
  <2>1. w = Saved(mem[r]) /\ k < RecordSize(w[p]) /\ Len(file) = Before(w, p) + k
    BY <1>1, <1>2 DEF Writing
  <2>2. ngp[r] \in Nat /\ mem[r] \in [1 .. ngp[r] -> GP] /\ p \in 1 .. ngp[r]
    BY <1>2
  <2>3. Record(mem[r][p]) = Record(Saved(mem[r])[p])
    <3>. HIDE DEF p
    <3>. QED
      BY <2>2, SavedType
  <2>. QED
    BY <2>1, <2>3
<1>. DEFINE longer == Append(file, Record(w[p])[k + 1])
<1>4. /\ longer \in Seq(Pieces) /\ Len(longer) = Len(file) + 1
      /\ IsPart(longer, w, ngp[r])
  <2>1. /\ ngp[r] \in Nat /\ w \in [1 .. ngp[r] -> SavedGP] /\ file \in Seq(Pieces)
        /\ IsPart(file, w, ngp[r]) /\ p \in 1 .. ngp[r] /\ k \in Nat
        /\ k < RecordSize(w[p]) /\ Len(file) = Before(w, p) + k
    BY <1>2, <1>3
  <2>. HIDE DEF w, file, p, k
  <2>. QED
    BY <2>1, AppendPart
<1>5. /\ DOMAIN disk' = File /\ disk'[<<r, id>>] = longer
      /\ \A q \in Rank, j \in Id : q # r \/ j # id => disk'[<<q, j>>] = disk[<<q, j>>]
  BY <1>1, <1>2, <1>3 DEF File
<1>6. /\ Len(Record(mem[r][p])) = RecordSize(w[p]) /\ RecordSize(w[p]) \in Nat \ {0}
      /\ Before(w, p + 1) = Before(w, p) + RecordSize(w[p]) /\ Before(w, p) \in Nat
      /\ \A q \in 1 .. ngp[r] : RecordSize(w[q]) \in Nat \ {0}
  <2>1. /\ ngp[r] \in Nat /\ w \in [1 .. ngp[r] -> SavedGP] /\ p \in 1 .. ngp[r]
        /\ Record(mem[r][p]) = Record(w[p])
    BY <1>2, <1>3
  <2>. HIDE DEF w, p
  <2>2. /\ \A q \in 1 .. ngp[r] : w[q].allocated \in BOOLEAN
        /\ w[p] \in SavedGP
    BY <2>1, PointsTyped
  <2>3. Len(Record(w[p])) = RecordSize(w[p])
    BY <2>2, RecordType
  <2>4. /\ RecordSize(w[p]) \in Nat \ {0} /\ Before(w, p) \in Nat
        /\ Before(w, p + 1) = Before(w, p) + RecordSize(w[p])
    BY <2>1, <2>2, Places
  <2>5. \A q \in 1 .. ngp[r] : RecordSize(w[q]) \in Nat \ {0}
    BY <2>2, SizeType
  <2>. QED
    BY <2>1, <2>3, <2>4, <2>5
<1>7. /\ igp' \in [Rank -> Nat] /\ put' \in [Rank -> Nat]
      /\ igp'[r] = (IF last THEN p + 1 ELSE p) /\ put'[r] = (IF last THEN 0 ELSE k + 1)
      /\ \A q \in Rank : q # r => igp'[q] = igp[q] /\ put'[q] = put[q]
  <2>1. (IF last THEN 0 ELSE k + 1) \in Nat /\ (IF last THEN p + 1 ELSE p) \in Nat
    BY <1>2
  <2>2. igp \in [Rank -> Nat] /\ put \in [Rank -> Nat]
    BY DEF Inv, TypeInv
  <2>. HIDE DEF last, p, k
  <2>. QED
    BY <1>1, <2>1, <2>2
<1>8. TypeInv'
  <2>1. \A q \in Rank, j \in Id : disk'[<<q, j>>] \in Seq(Pieces)
    BY <1>4, <1>5 DEF Inv, TypeInv
  <2>. HIDE DEF longer, last, w, file, p, k
  <2>. QED
    BY <1>1, <1>5, <1>7, <2>1 DEF Inv, TypeInv
<1>9. FileInv'
  <2>. SUFFICES ASSUME NEW q \in Rank, NEW j \in Id
                PROVE  IsPart(disk'[<<q, j>>], meant'[<<q, j>>], ngp[q])
    BY DEF FileInv
  <2>1. CASE q = r /\ j = id
    BY <2>1, <1>1, <1>4, <1>5
  <2>2. CASE q # r \/ j # id
    BY <2>2, <1>1, <1>5 DEF Inv, FileInv
  <2>. QED
    BY <2>1, <2>2
<1>10. WholeInv'
  BY <1>1, <1>2, <1>5 DEF Inv, WholeInv
<1>11. WriteInv'
  <2>1. Writing(r)'
    <3>1. /\ meant'[<<r, id'>>] = w /\ w = Saved(mem'[r])
          /\ disk'[<<r, id'>>] = longer
      BY <1>1, <1>3, <1>5
    <3>2. CASE last
      <4>1. igp'[r] = p + 1 /\ put'[r] = 0
        BY <1>7, <3>2
      <4>2. Len(longer) = Before(w, p + 1)
        BY <1>2, <1>3, <1>4, <1>6, <3>2
      <4>3. igp'[r] \in 1 .. ngp[r] + 1
        BY <1>2, <4>1
      <4>4. igp'[r] <= ngp[r] => put'[r] < RecordSize(w[igp'[r]])
        <5>. SUFFICES ASSUME p + 1 <= ngp[r] PROVE 0 < RecordSize(w[p + 1])
          BY <4>1
        <5>. p + 1 \in 1 .. ngp[r]
          BY <1>2
        <5>. HIDE DEF w, p
        <5>. QED
          BY <1>6
      <4>5. Len(longer) = Before(w, igp'[r]) + put'[r]
        <5>. Before(w, p + 1) \in Nat
          BY <1>6
        <5>. QED
          BY <4>1, <4>2
      <4>. HIDE DEF longer, w, p
      <4>. QED
        BY <3>1, <4>1, <4>3, <4>4, <4>5 DEF Writing
    <3>3. CASE ~last
      <4>1. igp'[r] = p /\ put'[r] = k + 1
        BY <1>7, <3>3
      <4>2. k + 1 < RecordSize(w[p])
        BY <1>2, <1>3, <1>6, <3>3
      <4>3. Len(longer) = Before(w, p) + (k + 1)
        BY <1>2, <1>3, <1>4, <1>6
      <4>4. p \in 1 .. ngp[r] + 1 /\ ~(p > ngp[r])
        BY <1>2
      <4>. HIDE DEF longer, w, p, k
      <4>. QED
        BY <3>1, <4>1, <4>2, <4>3, <4>4 DEF Writing
    <3>. QED
      BY <3>2, <3>3
  <2>2. ASSUME NEW q \in Rank, q # r, writer'[q] = "write" PROVE Writing(q)'
    <3>1. disk'[<<q, id>>] = disk[<<q, id>>] /\ igp'[q] = igp[q] /\ put'[q] = put[q]
      BY <1>2, <1>5, <1>7, <2>2
    <3>2. Writing(q)
      BY <1>1, <2>2 DEF Inv, WriteInv
    <3>. QED
      BY <1>1, <3>1, <3>2 DEF Writing
  <2>3. ASSUME NEW q \in Rank, writer'[q] = "closed"
        PROVE  IsAll(disk'[<<q, id>>], meant'[<<q, id>>], ngp[q])
    <3>1. q # r /\ writer[q] = "closed"
      BY <1>1, <2>3
    <3>. QED
      BY <1>1, <1>2, <1>5, <3>1 DEF Inv, WriteInv
  <2>. QED
    BY <1>1, <1>2, <2>1, <2>2, <2>3 DEF WriteInv
<1>12. LoopInv'
  <2>1. \A q \in Rank : writer'[q] # "write" => q # r
    BY <1>1
  <2>. HIDE DEF longer, last, w, file, p, k
  <2>. QED
    BY <1>1, <1>7, <2>1 DEF Inv, LoopInv
<1>13. ReadInv'
  BY <1>1 DEF ReadInv
<1>. QED
  BY <1>8, <1>9, <1>10, <1>11, <1>12, <1>13 DEF Inv

LEMMA CloseStep == \A r \in Rank : Inv /\ Close(r) => Inv'
<1>. SUFFICES ASSUME NEW r \in Rank, Inv, Close(r) PROVE Inv'
  OBVIOUS
<1>. DEFINE others == \A q \in Rank \ {r} : writer[q] = "closed"
<1>1. /\ job = "write" /\ writer[r] = "write" /\ igp[r] > ngp[r]
      /\ writer' = [writer EXCEPT ![r] = "closed"]
      /\ igp' = [igp EXCEPT ![r] = 1] /\ put' = [put EXCEPT ![r] = 0]
      /\ others => job' = "run" /\ whole' = [whole EXCEPT ![id] = TRUE]
      /\ ~others => UNCHANGED <<job, whole>>
      /\ UNCHANGED <<id, step, fresh, mem, get, disk, meant, stepOf>>
  BY DEF Close, Return, processVars
<1>2. /\ id \in Id /\ ~whole[id] /\ Writing(r)
      /\ ngp[r] \in Nat \ {0} /\ igp[r] \in Nat
      /\ meant[<<r, id>>] \in [Point(r) -> SavedGP]
  BY <1>1, Sizes DEF Inv, TypeInv, WriteInv
<1>3. IsAll(disk[<<r, id>>], meant[<<r, id>>], ngp[r])
  <2>1. igp[r] = ngp[r] + 1 /\ put[r] = 0
    BY <1>1, <1>2 DEF Writing
  <2>2. Before(meant[<<r, id>>], ngp[r] + 1) \in Nat
    BY <1>2, BeforeType
  <2>. QED
    BY <1>2, <2>1, <2>2 DEF Writing, IsAll
<1>4. /\ writer' \in [Rank -> {"open", "write", "closed"}] /\ writer'[r] = "closed"
      /\ igp' \in [Rank -> Nat] /\ put' \in [Rank -> Nat]
      /\ igp'[r] = 1 /\ put'[r] = 0
      /\ \A q \in Rank : q # r =>
           writer'[q] = writer[q] /\ igp'[q] = igp[q] /\ put'[q] = put[q]
  BY <1>1 DEF Inv, TypeInv
<1>5. CASE others
  <2>1. /\ job' = "run" /\ whole' \in [Id -> BOOLEAN]
        /\ \A i \in Id : i # id => whole'[i] = whole[i]
    BY <1>1, <1>5 DEF Inv, TypeInv
  <2>2. \A q \in Rank : q # r => writer[q] = "closed"
    BY <1>5
  <2>. HIDE DEF others
  <2>3. TypeInv'
    BY <1>1, <1>4, <2>1 DEF Inv, TypeInv
  <2>4. FileInv'
    BY <1>1 DEF Inv, FileInv
  <2>5. \A q \in Rank : IsAll(disk[<<q, id>>], meant[<<q, id>>], ngp[q])
    BY <1>1, <1>3, <2>2 DEF Inv, WriteInv
  <2>6. WholeInv'
    BY <1>1, <2>1, <2>5 DEF Inv, WholeInv
  <2>7. LoopInv'
    BY <1>1, <1>4, <2>1, <2>2 DEF Inv, LoopInv
  <2>. QED
    BY <2>1, <2>3, <2>4, <2>6, <2>7 DEF Inv, WriteInv, ReadInv
<1>6. CASE ~others
  <2>1. UNCHANGED <<job, whole>>
    BY <1>1, <1>6
  <2>. HIDE DEF others
  <2>2. TypeInv'
    BY <1>1, <1>4, <2>1 DEF Inv, TypeInv
  <2>3. FileInv' /\ WholeInv'
    BY <1>1, <2>1, FilesKept DEF Inv
  <2>4. WriteInv'
    <3>1. ASSUME NEW q \in Rank, writer'[q] = "write" PROVE Writing(q)'
      <4>1. q # r /\ writer[q] = "write"
        BY <1>4, <3>1
      <4>2. Writing(q)
        BY <1>1, <4>1 DEF Inv, WriteInv
      <4>. QED
        BY <1>1, <1>4, <4>1, <4>2 DEF Writing
    <3>2. ASSUME NEW q \in Rank, writer'[q] = "closed"
          PROVE  IsAll(disk'[<<q, id>>], meant'[<<q, id>>], ngp[q])
      BY <1>1, <1>3, <1>4, <3>2 DEF Inv, WriteInv
    <3>. QED
      BY <1>1, <1>2, <2>1, <3>1, <3>2 DEF WriteInv
  <2>5. LoopInv' /\ ReadInv'
    BY <1>1, <1>4, <2>1 DEF Inv, LoopInv, ReadInv
  <2>. QED
    BY <2>2, <2>3, <2>4, <2>5 DEF Inv
<1>. QED
  BY <1>5, <1>6

(***************************************************************************)
(* Steps of read_restart.                                                  *)
(***************************************************************************)

LEMMA SameArray ==
  ASSUME NEW n \in Nat, NEW a \in [1 .. n -> Data], NEW b \in [1 .. n -> Data],
         \A i \in 1 .. n : a[i] = b[i]
  PROVE  a = b
OBVIOUS

(* A point read where the records of w before p end, or past the end of    *)
(* the file.                                                               *)
LEMMA ReadPointLaw ==
  ASSUME NEW n \in Nat, NEW w \in [1 .. n -> SavedGP], NEW file \in Seq(Pieces),
         IsPart(file, w, n), NEW p \in 1 .. n, NEW g \in GP, NEW at \in Nat,
         at = Before(w, p) \/ at >= Len(file), NEW h, h = ReadPoint(g, file, at)
  PROVE  /\ h \in GP /\ RecordSize(h) \in Nat \ {0}
         /\ at + RecordSize(h) = Before(w, p + 1) \/ at + RecordSize(h) >= Len(file)
         /\ ~h.allocated => h.vars_n = g.vars_n
         /\ IsAll(file, w, n) /\ at = Before(w, p) =>
              /\ at + RecordSize(h) = Before(w, p + 1)
              /\ h.allocated = w[p].allocated
              /\ h.allocated => h.vars_n = w[p].vars_n /\ h.u_n = w[p].u_n
         /\ IsNew(g) =>
              /\ h.allocated => w[p].allocated
              /\ \A i \in 1 .. NV : h.vars_n[i] \in {Zero, w[p].vars_n[i]}
              /\ \A i \in 1 .. NU : h.u_n[i] \in {Zero, w[p].u_n[i]}
<1>. DEFINE flag == Piece(file, at + 1, g.allocated)
            vs == [i \in 1 .. NV |-> Piece(file, at + 1 + i, Zero)]
            us == [i \in 1 .. NU |-> Piece(file, at + 1 + NV + i, g.u_n[i])]
<1>1. /\ Before(w, p) \in Nat /\ RecordSize(w[p]) \in Nat \ {0}
      /\ Before(w, p + 1) = Before(w, p) + RecordSize(w[p])
      /\ Before(w, p) + RecordSize(w[p]) <= Before(w, n + 1)
      /\ Before(w, n + 1) \in Nat /\ Len(file) \in Nat
      /\ NV \in Nat /\ NU \in Nat
  <2>1. \A q \in 1 .. n : w[q].allocated \in BOOLEAN
    BY PointsTyped
  <2>2. Len(file) \in Nat
    OBVIOUS
  <2>. QED
    BY <2>1, <2>2, Places, Sizes
<1>2. /\ w[p] \in SavedGP /\ w[p].allocated \in BOOLEAN
      /\ w[p].vars_n \in [1 .. NV -> Data] /\ w[p].u_n \in [1 .. NU -> Data]
      /\ g.allocated \in BOOLEAN /\ g.vars_n \in [1 .. NV -> Data]
      /\ g.vars_k \in [1 .. NV -> Data]
      /\ g.u_n \in [1 .. NU -> Data] /\ g.u_k \in [1 .. NU -> Data]
      /\ g = [allocated |-> g.allocated, vars_n |-> g.vars_n, vars_k |-> g.vars_k,
              u_n |-> g.u_n, u_k |-> g.u_k]
  BY DEF SavedGP, GP
<1>3. Zero \in Data /\ Array(NV, Zero) \in [1 .. NV -> Data]
  BY ZeroType, ArrayType, Sizes
<1>4. h = IF flag THEN [g EXCEPT !.allocated = TRUE, !.vars_n = vs,
                                 !.vars_k = Array(NV, Zero), !.u_n = us]
                  ELSE [g EXCEPT !.allocated = FALSE]
  BY DEF ReadPoint, ReadWith
<1>. HIDE DEF flag, vs, us
<1>5. /\ flag /\ vs \in [1 .. NV -> Data] /\ us \in [1 .. NU -> Data] =>
           /\ h \in GP /\ h.allocated = TRUE /\ h.vars_n = vs /\ h.u_n = us
           /\ RecordSize(h) = 1 + NV + NU
      /\ ~flag => /\ h \in GP /\ h.allocated = FALSE
                  /\ h.vars_n = g.vars_n /\ h.u_n = g.u_n
                  /\ RecordSize(h) = 1
  BY <1>2, <1>3, <1>4 DEF GP, RecordSize
<1>6. CASE at >= Len(file)
  <2>1. flag = g.allocated
    BY <1>1, <1>6 DEF flag, Piece
  <2>2. vs = Array(NV, Zero)
    BY <1>1, <1>6 DEF vs, Piece, Array
  <2>3. us = g.u_n
    BY <1>1, <1>2, <1>6 DEF us, Piece
  <2>4. /\ h \in GP /\ h.allocated = g.allocated /\ RecordSize(h) \in Nat \ {0}
        /\ ~g.allocated => h.vars_n = g.vars_n /\ h.u_n = g.u_n
    <3>1. CASE g.allocated
      <4>. vs \in [1 .. NV -> Data] /\ us \in [1 .. NU -> Data]
        BY <1>2, <1>3, <2>2, <2>3
      <4>1. h \in GP /\ h.allocated = TRUE /\ RecordSize(h) = 1 + NV + NU
        BY <1>5, <2>1, <3>1
      <4>2. RecordSize(h) \in Nat \ {0}
        BY <1>1, <4>1
      <4>3. g.allocated = TRUE
        BY <1>2, <3>1
      <4>. QED
        BY <3>1, <4>1, <4>2, <4>3
    <3>2. CASE ~g.allocated
      <4>1. /\ h \in GP /\ h.allocated = FALSE /\ RecordSize(h) = 1
            /\ h.vars_n = g.vars_n /\ h.u_n = g.u_n
        BY <1>5, <2>1, <3>2
      <4>2. RecordSize(h) \in Nat \ {0}
        BY <4>1
      <4>3. g.allocated = FALSE
        BY <1>2, <3>2
      <4>. QED
        BY <4>1, <4>2, <4>3
    <3>. QED
      BY <3>1, <3>2
  <2>5. at + RecordSize(h) >= Len(file)
    BY <1>1, <1>6, <2>4
  <2>6. ~(IsAll(file, w, n) /\ at = Before(w, p))
    BY <1>1, <1>6 DEF IsAll
  <2>7. IsNew(g) => /\ ~h.allocated
                    /\ \A i \in 1 .. NV : h.vars_n[i] = Zero
                    /\ \A i \in 1 .. NU : h.u_n[i] = Zero
    BY <2>4 DEF IsNew, Array
  <2>. QED
    BY <2>4, <2>5, <2>6, <2>7
<1>7. CASE at < Len(file)
  <2>1. at = Before(w, p)
    BY <1>1, <1>7
  <2>2. \A k \in 1 .. RecordSize(w[p]) : at + k <= Len(file) =>
          file[at + k] = Record(w[p])[k]
    BY <2>1 DEF IsPart
  <2>3. flag = w[p].allocated
    <3>1. flag = file[at + 1]
      BY <1>1, <1>7 DEF flag, Piece
    <3>2. 1 \in 1 .. RecordSize(w[p]) /\ at + 1 <= Len(file)
      BY <1>1, <1>7
    <3>. QED
      BY <1>2, <2>2, <3>1, <3>2, RecordType
  <2>4. CASE ~w[p].allocated
    <3>1. /\ h \in GP /\ h.allocated = FALSE /\ RecordSize(h) = 1
          /\ h.vars_n = g.vars_n /\ h.u_n = g.u_n
      BY <1>5, <2>3, <2>4
    <3>2. RecordSize(w[p]) = 1
      BY <2>4 DEF RecordSize
    <3>3. at + RecordSize(h) = Before(w, p + 1)
      BY <1>1, <2>1, <3>1, <3>2
    <3>4. IsNew(g) => /\ \A i \in 1 .. NV : h.vars_n[i] = Zero
                      /\ \A i \in 1 .. NU : h.u_n[i] = Zero
      BY <3>1 DEF IsNew, Array
    <3>5. RecordSize(h) \in Nat \ {0}
      BY <3>1
    <3>6. h.allocated = w[p].allocated
      BY <1>2, <2>4, <3>1
    <3>. QED
      BY <3>1, <3>3, <3>4, <3>5, <3>6
  <2>5. CASE w[p].allocated
    <3>1. RecordSize(w[p]) = 1 + NV + NU
      BY <2>5 DEF RecordSize
    <3>2. ASSUME NEW i \in 1 .. NV
          PROVE  /\ vs[i] \in {Zero, w[p].vars_n[i]}
                 /\ at + 1 + i <= Len(file) => vs[i] = w[p].vars_n[i]
      <4>1. vs[i] = IF at + 1 + i <= Len(file) THEN file[at + 1 + i] ELSE Zero
        BY DEF vs, Piece
      <4>2. 1 + i \in 1 .. RecordSize(w[p]) /\ at + (1 + i) = at + 1 + i
        BY <1>1, <3>1
      <4>3. Record(w[p])[1 + i] = w[p].vars_n[i]
        BY <1>2, <2>5, RecordType
      <4>4. at + 1 + i <= Len(file) => file[at + 1 + i] = w[p].vars_n[i]
        BY <2>2, <4>2, <4>3
      <4>. QED
        BY <4>1, <4>4
    <3>3. ASSUME NEW i \in 1 .. NU
          PROVE  /\ us[i] \in {g.u_n[i], w[p].u_n[i]}
                 /\ at + 1 + NV + i <= Len(file) => us[i] = w[p].u_n[i]
      <4>1. us[i] = IF at + 1 + NV + i <= Len(file) THEN file[at + 1 + NV + i]
                                                    ELSE g.u_n[i]
        BY DEF us, Piece
      <4>2. 1 + NV + i \in 1 .. RecordSize(w[p]) /\ at + (1 + NV + i) = at + 1 + NV + i
        BY <1>1, <3>1
      <4>3. Record(w[p])[1 + NV + i] = w[p].u_n[i]
        BY <1>2, <2>5, RecordType
      <4>4. at + 1 + NV + i <= Len(file) => file[at + 1 + NV + i] = w[p].u_n[i]
        BY <2>2, <4>2, <4>3
      <4>. QED
        BY <4>1, <4>4
    <3>4. vs \in [1 .. NV -> Data]
      <4>1. vs = [i \in 1 .. NV |-> vs[i]]
        BY DEF vs
      <4>2. \A i \in 1 .. NV : vs[i] \in Data
        BY <1>2, <1>3, <3>2
      <4>. QED
        BY <4>1, <4>2
    <3>5. us \in [1 .. NU -> Data]
      <4>1. us = [i \in 1 .. NU |-> us[i]]
        BY DEF us
      <4>2. \A i \in 1 .. NU : us[i] \in Data
        BY <1>2, <3>3
      <4>. QED
        BY <4>1, <4>2
    <3>6. /\ h \in GP /\ h.allocated = TRUE /\ h.vars_n = vs /\ h.u_n = us
          /\ RecordSize(h) = 1 + NV + NU
      BY <1>5, <2>3, <2>5, <3>4, <3>5
    <3>7. /\ RecordSize(h) \in Nat \ {0}
          /\ at + RecordSize(h) = Before(w, p + 1)
      BY <1>1, <2>1, <3>1, <3>6
    <3>8. IsAll(file, w, n) => vs = w[p].vars_n /\ us = w[p].u_n
      <4>. SUFFICES ASSUME IsAll(file, w, n)
                    PROVE  vs = w[p].vars_n /\ us = w[p].u_n
        OBVIOUS
      <4>1. at + 1 + NV + NU <= Len(file)
        BY <1>1, <2>1, <3>1 DEF IsAll
      <4>2. \A i \in 1 .. NV : vs[i] = w[p].vars_n[i]
        BY <1>1, <3>2, <4>1
      <4>3. \A i \in 1 .. NU : us[i] = w[p].u_n[i]
        BY <1>1, <3>3, <4>1
      <4>. QED
        BY <1>1, <1>2, <3>4, <3>5, <4>2, <4>3, SameArray
    <3>9. IsNew(g) => \A i \in 1 .. NU : us[i] \in {Zero, w[p].u_n[i]}
      BY <3>3 DEF IsNew, Array
    <3>. QED
      BY <2>5, <3>2, <3>6, <3>7, <3>8, <3>9
  <2>. QED
    BY <2>4, <2>5
<1>. QED
  BY <1>1, <1>6, <1>7, SMTT(60)

LEMMA ReadRestartStep ==
  ASSUME Inv, NEW i \in Id, NEW objects, NEW new \in BOOLEAN,
         ReadRestart(i, objects, new),
         job \in {"run", "down"}, new \/ whole[i],
         DOMAIN objects = Rank, \A r \in Rank : objects[r] \in [Point(r) -> GP],
         new => \A r \in Rank : \A p \in Point(r) : IsNew(objects[r][p])
  PROVE  Inv'
<1>1. /\ job' = "read" /\ id' = i /\ mem' = objects /\ fresh' = new
      /\ step' = stepOf[i]
      /\ UNCHANGED <<writer, igp, put, get, disk, meant, whole, stepOf>>
  BY DEF ReadRestart, streamVars, callVars
<1>2. TypeInv'
  <2>. step' \in Nat
    BY <1>1 DEF Inv, TypeInv
  <2>. QED
    BY <1>1 DEF Inv, TypeInv
<1>3. FileInv' /\ WholeInv'
  BY <1>1, FilesKept DEF Inv
<1>4. WriteInv'
  BY <1>1 DEF WriteInv
<1>5. LoopInv'
  BY <1>1 DEF Inv, LoopInv
<1>6. ReadInv'
  <2>. SUFFICES ASSUME NEW r \in Rank PROVE Reading(r)'
    BY <1>1 DEF ReadInv
  <2>1. igp'[r] = 1 /\ get'[r] = 0
    BY <1>1 DEF Inv, LoopInv
  <2>2. Before(meant'[<<r, i>>], 1) = 0
    BY BeforeFirst
  <2>3. ngp[r] \in Nat \ {0} /\ Point(r) = 1 .. ngp[r]
    BY Sizes, PointRange
  <2>4. \A p \in Point(r) : ~(p < igp'[r])
    BY <2>1, <2>3
  <2>5. fresh' => \A p \in Point(r) : IsNew(mem'[r][p])
    BY <1>1
  <2>6. igp'[r] \in 1 .. ngp[r] + 1
    BY <2>1, <2>3
  <2>. QED
    BY <1>1, <2>1, <2>2, <2>4, <2>5, <2>6 DEF Reading
<1>. QED
  BY <1>2, <1>3, <1>4, <1>5, <1>6 DEF Inv

LEMMA RollBackStep == \A i \in Id : Inv /\ RollBack(i) => Inv'
<1>. SUFFICES ASSUME NEW i \in Id, Inv, RollBack(i) PROVE Inv'
  OBVIOUS
<1>1. job = "run" /\ whole[i] /\ ReadRestart(i, mem, FALSE)
  BY DEF RollBack
<1>2. DOMAIN mem = Rank /\ \A r \in Rank : mem[r] \in [Point(r) -> GP]
  BY DEF Inv, TypeInv
<1>. QED
  BY <1>1, <1>2, ReadRestartStep

LEMMA StartAgainStep == \A i \in Id : Inv /\ StartAgain(i) => Inv'
<1>. SUFFICES ASSUME NEW i \in Id, Inv, StartAgain(i) PROVE Inv'
  OBVIOUS
<1>. DEFINE objects == [r \in Rank |-> NewPoints(r)]
<1>1. job = "down" /\ ReadRestart(i, objects, TRUE)
  BY DEF StartAgain
<1>2. /\ DOMAIN objects = Rank
      /\ \A r \in Rank : objects[r] \in [Point(r) -> GP]
      /\ \A r \in Rank : \A p \in Point(r) : IsNew(objects[r][p])
  BY NewType
<1>. HIDE DEF objects
<1>. QED
  BY <1>1, <1>2, ReadRestartStep

LEMMA ReadNextStep == \A r \in Rank : Inv /\ ReadNext(r) => Inv'
<1>. SUFFICES ASSUME NEW r \in Rank, Inv, ReadNext(r) PROVE Inv'
  OBVIOUS
<1>. DEFINE w == meant[<<r, id>>]
            file == disk[<<r, id>>]
            p == igp[r]
            at == get[r]
            g == mem[r][p]
            h == ReadPoint(g, file, at)
<1>1. /\ job = "read" /\ p <= ngp[r]
      /\ mem' = [mem EXCEPT ![r][p] = h]
      /\ igp' = [igp EXCEPT ![r] = p + 1]
      /\ get' = [get EXCEPT ![r] = at + RecordSize(h)]
      /\ UNCHANGED <<job, id, step, fresh, writer, put, disk, meant, whole, stepOf>>
  BY DEF ReadNext, FileOf, callVars
<1>2. id \in Id /\ Reading(r) /\ (whole[id] \/ fresh)
  BY <1>1 DEF Inv, TypeInv, ReadInv
<1>3. ngp[r] \in Nat \ {0} /\ Point(r) = 1 .. ngp[r] /\ p \in 1 .. ngp[r]
  <2>. ngp[r] \in Nat \ {0} /\ Point(r) = 1 .. ngp[r]
    BY PointRange, Sizes
  <2>. QED
    BY <1>1, <1>2 DEF Reading
<1>4. /\ at \in Nat /\ file \in Seq(Pieces) /\ g \in GP
      /\ w \in [1 .. ngp[r] -> SavedGP] /\ mem[r] \in [1 .. ngp[r] -> GP]
      /\ DOMAIN mem = Rank
  BY <1>2, <1>3 DEF Inv, TypeInv
<1>5. /\ IsPart(file, w, ngp[r]) /\ (whole[id] => IsAll(file, w, ngp[r]))
      /\ \/ at = Before(w, p)
         \/ ~whole[id] /\ at >= Len(file)
  BY <1>2 DEF Inv, FileInv, WholeInv, Reading
<1>. HIDE DEF w, file, p, at, g, h
<1>6. /\ h \in GP /\ RecordSize(h) \in Nat \ {0}
      /\ at + RecordSize(h) = Before(w, p + 1) \/ at + RecordSize(h) >= Len(file)
      /\ ~h.allocated => h.vars_n = g.vars_n
      /\ IsAll(file, w, ngp[r]) /\ at = Before(w, p) =>
           /\ at + RecordSize(h) = Before(w, p + 1)
           /\ h.allocated = w[p].allocated
           /\ h.allocated => h.vars_n = w[p].vars_n /\ h.u_n = w[p].u_n
      /\ IsNew(g) =>
           /\ h.allocated => w[p].allocated
           /\ \A i \in 1 .. NV : h.vars_n[i] \in {Zero, w[p].vars_n[i]}
           /\ \A i \in 1 .. NU : h.u_n[i] \in {Zero, w[p].u_n[i]}
  <2>. DEFINE n == ngp[r]
  <2>1. /\ n \in Nat /\ w \in [1 .. n -> SavedGP] /\ file \in Seq(Pieces)
        /\ IsPart(file, w, n) /\ p \in 1 .. n /\ g \in GP /\ at \in Nat
        /\ at = Before(w, p) \/ at >= Len(file)
    BY <1>3, <1>4, <1>5
  <2>2. h = ReadPoint(g, file, at)
    BY DEF h
  <2>. HIDE DEF n
  <2>3. /\ h \in GP /\ RecordSize(h) \in Nat \ {0}
        /\ at + RecordSize(h) = Before(w, p + 1) \/ at + RecordSize(h) >= Len(file)
        /\ ~h.allocated => h.vars_n = g.vars_n
    BY <2>1, <2>2, ReadPointLaw, SMTT(60)
  <2>4. IsAll(file, w, n) /\ at = Before(w, p) =>
          /\ at + RecordSize(h) = Before(w, p + 1)
          /\ h.allocated = w[p].allocated
          /\ h.allocated => h.vars_n = w[p].vars_n /\ h.u_n = w[p].u_n
    BY <2>1, <2>2, ReadPointLaw, SMTT(60)
  <2>5. IsNew(g) =>
          /\ h.allocated => w[p].allocated
          /\ \A i \in 1 .. NV : h.vars_n[i] \in {Zero, w[p].vars_n[i]}
          /\ \A i \in 1 .. NU : h.u_n[i] \in {Zero, w[p].u_n[i]}
    BY <2>1, <2>2, ReadPointLaw, SMTT(60)
  <2>. QED
    BY <2>3, <2>4, <2>5 DEF n
<1>7. /\ DOMAIN mem' = Rank /\ mem'[r][p] = h /\ mem'[r] \in [1 .. ngp[r] -> GP]
      /\ \A q \in 1 .. ngp[r] : q # p => mem'[r][q] = mem[r][q]
      /\ \A s \in Rank : s # r => mem'[s] = mem[s]
  BY <1>1, <1>3, <1>4, <1>6
<1>8. /\ igp' \in [Rank -> Nat] /\ get' \in [Rank -> Nat]
      /\ igp'[r] = p + 1 /\ get'[r] = at + RecordSize(h)
      /\ \A s \in Rank : s # r => igp'[s] = igp[s] /\ get'[s] = get[s]
  <2>1. igp \in [Rank -> Nat] /\ get \in [Rank -> Nat]
    BY DEF Inv, TypeInv
  <2>2. p + 1 \in Nat /\ at + RecordSize(h) \in Nat
    BY <1>3, <1>4, <1>6
  <2>. QED
    BY <1>1, <2>1, <2>2
<1>9. TypeInv'
  <2>1. \A s \in Rank : mem'[s] \in [Point(s) -> GP]
    BY <1>3, <1>7 DEF Inv, TypeInv
  <2>. QED
    BY <1>1, <1>7, <1>8, <2>1 DEF Inv, TypeInv
<1>10. FileInv' /\ WholeInv'
  BY <1>1, FilesKept DEF Inv
<1>11. WriteInv' /\ LoopInv'
  BY <1>1, <1>8 DEF Inv, WriteInv, LoopInv
<1>12. ReadInv'
  <2>1. Reading(r)'
    <3>1. IsRead(h, w[p])
      <4>1. fresh => IsNew(g)
        BY <1>2, <1>3 DEF Reading, g, p
      <4>2. fresh /\ ~h.allocated => h.vars_n = Array(NV, Zero)
        BY <1>6, <4>1 DEF IsNew
      <4>. QED
        BY <1>5, <1>6, <4>1, <4>2 DEF IsRead
    <3>2. ASSUME NEW q \in Point(r), q < igp'[r]
          PROVE  IsRead(mem'[r][q], w[q])
      <4>1. CASE q = p
        BY <1>7, <3>1, <4>1
      <4>2. CASE q # p
        <5>. q < igp[r] /\ mem'[r][q] = mem[r][q]
          BY <1>3, <1>7, <1>8, <3>2, <4>2 DEF p
        <5>. QED
          BY <1>2 DEF Reading, w
      <4>. QED
        BY <4>1, <4>2
    <3>3. ASSUME fresh, NEW q \in Point(r), q >= igp'[r] PROVE IsNew(mem'[r][q])
      <4>. q # p /\ q >= igp[r] /\ mem'[r][q] = mem[r][q]
        BY <1>3, <1>7, <1>8, <3>3 DEF p
      <4>. QED
        BY <1>2, <3>3 DEF Reading
    <3>4. igp'[r] \in 1 .. ngp[r] + 1
      BY <1>3, <1>8
    <3>5. \/ get'[r] = Before(w, igp'[r])
          \/ ~whole[id] /\ get'[r] >= Len(file)
      BY <1>5, <1>6, <1>8
    <3>6. meant'[<<r, id'>>] = w /\ disk'[<<r, id'>>] = file
      BY <1>1 DEF w, file
    <3>7. UNCHANGED <<whole, id, fresh>>
      BY <1>1
    <3>. QED
      BY <3>2, <3>3, <3>4, <3>5, <3>6, <3>7 DEF Reading, IsRead
  <2>2. ASSUME NEW s \in Rank, s # r PROVE Reading(s)'
    <3>1. Reading(s)
      BY <1>1 DEF Inv, ReadInv
    <3>2. mem'[s] = mem[s] /\ igp'[s] = igp[s] /\ get'[s] = get[s]
      BY <1>7, <1>8, <2>2
    <3>. QED
      BY <1>1, <3>1, <3>2, ZenonT(60) DEF Reading, IsRead
  <2>. QED
    BY <1>1, <1>2, <2>1, <2>2 DEF ReadInv
<1>. QED
  BY <1>9, <1>10, <1>11, <1>12 DEF Inv

LEMMA RestoredStep == Inv /\ Restored => Inv'
<1>. SUFFICES ASSUME Inv, Restored PROVE Inv'
  OBVIOUS
<1>1. /\ job = "read" /\ \A r \in Rank : igp[r] > ngp[r]
      /\ job' = "restored"
      /\ igp' = [r \in Rank |-> 1] /\ get' = [r \in Rank |-> 0]
      /\ UNCHANGED <<id, step, mem, fresh, writer, put, disk, meant, whole, stepOf>>
  BY DEF Restored, processVars, callVars
<1>2. TypeInv'
  BY <1>1 DEF Inv, TypeInv
<1>3. FileInv' /\ WholeInv'
  BY <1>1, FilesKept DEF Inv
<1>4. WriteInv' /\ LoopInv'
  BY <1>1 DEF Inv, WriteInv, LoopInv
<1>5. ReadInv'
  <2>1. whole[id] \/ fresh
    BY <1>1 DEF Inv, ReadInv
  <2>2. ASSUME NEW r \in Rank, NEW p \in Point(r)
        PROVE  IsRead(mem[r][p], meant[<<r, id>>][p])
    <3>1. Reading(r)
      BY <1>1 DEF Inv, ReadInv
    <3>2. p < igp[r]
      <4>1. ngp[r] \in Nat /\ p \in 1 .. ngp[r] /\ igp[r] \in Nat
        BY PointRange, Sizes DEF Inv, TypeInv
      <4>. QED
        BY <1>1, <4>1
    <3>. QED
      BY <3>1, <3>2 DEF Reading
  <2>. QED
    BY <1>1, <2>1, <2>2 DEF ReadInv, IsRead
<1>. QED
  BY <1>2, <1>3, <1>4, <1>5 DEF Inv

THEOREM Invariance == Spec => []Inv
<1>1. Inv /\ [Next]_vars => Inv'
  BY HomogenizeStep, UpdateVarsStep, CrashStep, StutterStep, WriteRestartStep,
     OpenStep, WritePieceStep, CloseStep, RollBackStep, StartAgainStep, ReadNextStep,
     RestoredStep
     DEF Next
<1>. QED
  BY <1>1, InitInv, PTL DEF Spec

(***************************************************************************)
(* Theorems.                                                               *)
(***************************************************************************)

(* A set of files that all ranks came back from writing restores on all of *)
(* them what was committed when it was written, whatever happened since.   *)
THEOREM RestoredAreWritten == Spec => []RestoredIsWritten
<1>1. Inv => RestoredIsWritten
  BY DEF Inv, ReadInv, IsRead, RestoredIsWritten
<1>. QED
  BY <1>1, Invariance, PTL

(* A file torn at any piece gives a new object no wrong history.           *)
THEOREM TornAreWrittenOrNone == Spec => []TornIsWrittenOrNone
<1>1. Inv => TornIsWrittenOrNone
  BY DEF Inv, ReadInv, IsRead, TornIsWrittenOrNone
<1>. QED
  BY <1>1, Invariance, PTL
=============================================================================
