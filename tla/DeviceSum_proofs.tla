--------------------------- MODULE DeviceSum_proofs ---------------------------
(***************************************************************************)
(* The partial sums the CUDA solver leaves for reduce are complete, for    *)
(* every matrix and every launch that fits it: the two barriers of a level *)
(* of the tree are enough, and so is the one between two rows.             *)
(***************************************************************************)
EXTENDS DeviceSum, TLAPS

(***************************************************************************)
(* Powers of two.                                                          *)
(***************************************************************************)

LEMMA PowersArePositive == PowersOfTwo \subseteq Nat \ {0}
BY DEF PowersOfTwo

LEMMA PowerDoubled ==
  ASSUME NEW d \in PowersOfTwo, NEW m \in PowersOfTwo, d < m
  PROVE  2 * d \in PowersOfTwo /\ 2 * d <= m /\ m % (2 * d) = 0
BY SMTT(60) DEF PowersOfTwo

LEMMA PowersByHalves ==
  ASSUME NEW d \in PowersOfTwo, NEW f \in PowersOfTwo
  PROVE  /\ d \div 2 = f \div 2 => d = f
         /\ d \div 2 = f => d = 2 * f
         /\ d # 0 /\ (2 * d) \div 2 = d
BY SMTT(60) DEF PowersOfTwo

(* The lanes of a level, and their partners.                               *)
LEMMA Partners ==
  ASSUME NEW d \in PowersOfTwo, NEW m \in PowersOfTwo, d < m,
         NEW i \in 0 .. m - 1, i % (2 * d) = 0
  PROVE  /\ i % d = 0 /\ (i + d) % d = 0 /\ (i + d) % (2 * d) # 0
         /\ i + d \in 0 .. m - 1
<1>1. i % d = 0 /\ (i + d) % d = 0 /\ (i + d) % (2 * d) # 0
  BY SMTT(60) DEF PowersOfTwo
<1>2. m % (2 * d) = 0
  BY PowerDoubled
<1>3. i + d < m
  BY <1>2, SMTT(60) DEF PowersOfTwo
<1>. QED
  BY <1>1, <1>3, PowersArePositive

(* The rows of a block.                                                    *)
LEMMA NextStride ==
  ASSUME NEW r \in Nat, NEW g \in Nat \ {0}
  PROVE  (r + g) % g = r % g
<1>. DEFINE m == r % g
            q == r \div g
<1>1. r = g * q + m /\ q \in Int /\ m \in 0 .. g - 1
  OBVIOUS
<1>2. r + g = g * (q + 1) + m
  BY <1>1
<1>. HIDE DEF m, q
<1>3. (g * (q + 1) + m) % g = m
  BY <1>1
<1>. QED
  BY <1>2, <1>3 DEF m

(***************************************************************************)
(* Sums as bags.                                                           *)
(***************************************************************************)

LEMMA Join ==
  ASSUME NEW S, NEW T, S \cap T = {}
  PROVE  SetToBag(S) (+) SetToBag(T) = SetToBag(S \cup T)
BY DEF SetToBag, (+)

(* What the lanes i .. i + w - 1 of a block bring when it works for r.     *)
Terms(kn, r, i, w) ==
  IF kn = "mvp" THEN {<<r, j>> : j \in {j \in i .. i + w - 1 : j < nnz}}
                ELSE {<<j, 0>> : j \in {j \in i + block_dot * r .. i + block_dot * r + w - 1 :
                                          j < nrow}}

LEMMA TermsJoined ==
  ASSUME LaunchesFit, NEW kn, NEW r \in Nat, NEW i \in Nat, NEW w \in Nat
  PROVE  SetToBag(Terms(kn, r, i, w)) (+) SetToBag(Terms(kn, r, i + w, w))
           = SetToBag(Terms(kn, r, i, 2 * w))
<1>1. nnz \in Nat /\ nrow \in Nat /\ block_dot * r \in Int
  BY DEF LaunchesFit, PowersOfTwo
<1>2. Terms(kn, r, i, w) \cap Terms(kn, r, i + w, w) = {}
  BY <1>1 DEF Terms
<1>3. Terms(kn, r, i, w) \cup Terms(kn, r, i + w, w) = Terms(kn, r, i, 2 * w)
  <2>1. CASE kn = "mvp"
    <3>1. {j \in i .. i + 2 * w - 1 : j < nnz}
            = {j \in i .. i + w - 1 : j < nnz} \cup {j \in i + w .. i + w + w - 1 : j < nnz}
      BY <1>1
    <3>. QED
      BY <2>1, <3>1 DEF Terms
  <2>2. CASE kn # "mvp"
    <3>. DEFINE o == block_dot * r
    <3>. HIDE DEF o
    <3>1. {j \in i + o .. i + o + 2 * w - 1 : j < nrow}
            = {j \in i + o .. i + o + w - 1 : j < nrow}
                \cup {j \in i + w + o .. i + w + o + w - 1 : j < nrow}
      BY <1>1 DEF o
    <3>. QED
      BY <2>2, <3>1 DEF Terms, o
  <2>. QED
    BY <2>1, <2>2
<1>. QED
  BY <1>2, <1>3, Join

(* The lanes past the end of a row bring nothing.                          *)
LEMMA NoTerms ==
  ASSUME LaunchesFit, NEW r, NEW i \in Nat, NEW w \in Nat, ~(i < nnz)
  PROVE  Terms("mvp", r, i, w) = {}
BY DEF LaunchesFit, Terms

(***************************************************************************)
(* The invariant.  A lane is described by its place t, the label p, the    *)
(* row r and the distance d it has come to, and its cell c.                *)
(***************************************************************************)

(* The cell of a lane whose turn it is holds the terms of d lanes; that of *)
(* a lane that has just gone without its turn holds still those of half as *)
(* many, for the partner that may be about to read it.                     *)
CellOK(kn, t, p, r, d, c) ==
  /\ p \in {"sync", "tree"} /\ t[2] % d = 0 => c = SetToBag(Terms(kn, r, t[2], d))
  /\ p = "sync" /\ t[2] % d # 0 /\ t[2] % (d \div 2) = 0
       => c = SetToBag(Terms(kn, r, t[2], d \div 2))

LaneOK(kn, t, p, r, d, c) ==
  /\ p \in {"row", "sync", "tree", "done"} /\ r \in Nat /\ d \in Nat
  /\ kn = "mvp" => /\ r % grid_mvp = t[1]
                   /\ p \in {"sync", "tree"} => r < nrow
                   /\ p = "done" => r >= nrow
  /\ kn = "dot" => r = t[1]
  /\ p \in {"sync", "tree"} => d \in PowersOfTwo /\ d <= Block(kn)
  /\ CellOK(kn, t, p, r, d, c)

(* Between two barriers the lanes of a block are at the same level: 0 from *)
(* the root of a row to the first sum of the next.                         *)
Level(kn, p, d) == CASE p = "tree" /\ d < Block(kn) -> d
                     [] p = "sync"                  -> d \div 2
                     [] OTHER                       -> 0

(* The row a lane works for, or will after the root.                       *)
Round(kn, p, r, d) ==
  IF kn = "mvp" /\ p = "tree" /\ ~(d < Block(kn)) THEN r + grid_mvp ELSE r

InStep(kn, p, r, d, q, u, f) == /\ Level(kn, p, d) = Level(kn, q, f)
                                /\ Round(kn, p, r, d) = Round(kn, q, u, f)

TreeInv ==
  /\ pc = [t \in Thread |-> pc[t]] /\ row = [t \in Thread |-> row[t]]
  /\ s = [t \in Thread |-> s[t]] /\ cache = [t \in Thread |-> cache[t]]
  /\ \A t \in Thread : LaneOK(kernel, t, pc[t], row[t], s[t], cache[t])
  /\ \A t, w \in Thread :
       t[1] = w[1] => InStep(kernel, pc[t], row[t], s[t], pc[w], row[w], s[w])

RowSum(r) == SetToBag({<<r, j>> : j \in 0 .. nnz - 1})

BlockSum(b) == SetToBag({<<i, 0>> : i \in {i \in 0 .. nrow - 1 : i \div block_dot = b}})

(* Lane 0 of the block a row falls to has saved it when it has gone past.  *)
RowsSaved ==
  /\ Ap_d = [r \in 0 .. nrow - 1 |-> Ap_d[r]]
  /\ \A r \in 0 .. nrow - 1 :
       kernel = "mvp" /\ r < row[<<r % grid_mvp, 0>>] => Ap_d[r] = RowSum(r)
  /\ kernel # "mvp" => \A r \in 0 .. nrow - 1 : Ap_d[r] = RowSum(r)

BlocksSaved ==
  /\ g_res_d = [b \in 0 .. grid_dot - 1 |-> g_res_d[b]]
  /\ \A b \in 0 .. grid_dot - 1 :
       kernel = "dot" /\ pc[<<b, 0>>] = "done" => g_res_d[b] = BlockSum(b)
  /\ kernel \in {"reduce", "read"} => \A b \in 0 .. grid_dot - 1 : g_res_d[b] = BlockSum(b)

SumInv ==
  /\ LaunchesFit
  /\ kernel \in {"mvp", "dot", "reduce", "read"}
  /\ kernel \in {"mvp", "dot"} => TreeInv
  /\ kernel = "reduce" => pc \in [Thread -> {"clear", "gather", "total", "done"}]
  /\ kernel = "read" => pc \in [Thread -> {"done"}]
  /\ RowsSaved
  /\ BlocksSaved

(***************************************************************************)
(* Steps of a tree.                                                        *)
(***************************************************************************)

LEMMA Sizes ==
  ASSUME LaunchesFit, NEW kn \in {"mvp", "dot"}
  PROVE  /\ Grid(kn) \in Nat \ {0} /\ Block(kn) \in PowersOfTwo
         /\ Block(kn) \in Nat \ {0}
         /\ kn = "mvp" => Grid(kn) = grid_mvp /\ Block(kn) = block_mvp
         /\ kn = "dot" => Grid(kn) = grid_dot /\ Block(kn) = block_dot
BY PowersArePositive DEF LaunchesFit, Grid, Block

LEMMA Places ==
  ASSUME LaunchesFit, kernel \in {"mvp", "dot"}, NEW t \in Thread
  PROVE  /\ t = <<t[1], t[2]>> /\ t[1] \in Blocks /\ t[2] \in Lanes
         /\ t[1] \in Nat /\ t[2] \in Nat /\ t[2] < Block(kernel)
BY Sizes DEF Thread, Blocks, Lanes

(* A step of one lane, if it stays in step with the others of its block.   *)
LEMMA OneLane ==
  ASSUME TreeInv, UNCHANGED kernel, NEW t \in Thread, NEW p, NEW r, NEW d, NEW c,
         pc' = [pc EXCEPT ![t] = p], row' = [row EXCEPT ![t] = r],
         s' = [s EXCEPT ![t] = d], cache' = [cache EXCEPT ![t] = c],
         LaneOK(kernel, t, p, r, d, c),
         InStep(kernel, p, r, d, pc[t], row[t], s[t])
  PROVE  TreeInv'
<1>1. Thread' = Thread
  BY DEF Thread, Blocks, Lanes, Grid, Block
<1>2. /\ pc' = [w \in Thread |-> pc'[w]] /\ row' = [w \in Thread |-> row'[w]]
      /\ s' = [w \in Thread |-> s'[w]] /\ cache' = [w \in Thread |-> cache'[w]]
  BY DEF TreeInv
<1>3. /\ pc'[t] = p /\ row'[t] = r /\ s'[t] = d /\ cache'[t] = c
      /\ \A w \in Thread \ {t} : /\ pc'[w] = pc[w] /\ row'[w] = row[w]
                                 /\ s'[w] = s[w] /\ cache'[w] = cache[w]
  BY DEF TreeInv
<1>4. ASSUME NEW w \in Thread
      PROVE  LaneOK(kernel, w, pc'[w], row'[w], s'[w], cache'[w])
  BY <1>3 DEF TreeInv
<1>5. ASSUME NEW v \in Thread, NEW w \in Thread, v[1] = w[1]
      PROVE  InStep(kernel, pc'[v], row'[v], s'[v], pc'[w], row'[w], s'[w])
  <2>1. ASSUME NEW x \in Thread, x[1] = t[1]
        PROVE  InStep(kernel, pc'[x], row'[x], s'[x], pc[t], row[t], s[t])
    <3>1. CASE x = t
      BY <1>3, <3>1
    <3>2. CASE x # t
      BY <1>3, <2>1, <3>2 DEF TreeInv
    <3>. QED
      BY <3>1, <3>2
  <2>2. CASE v[1] = t[1]
    BY <1>5, <2>1, <2>2 DEF InStep
  <2>3. CASE v[1] # t[1]
    BY <1>3, <1>5, <2>3 DEF TreeInv
  <2>. QED
    BY <2>2, <2>3
<1>. QED
  BY <1>1, <1>2, <1>4, <1>5 DEF TreeInv

LEMMA LoadTermStep ==
  ASSUME SumInv, NEW t \in Thread, LoadTerm(t), kernel \in {"mvp", "dot"}
  PROVE  TreeInv'
<1>1. TreeInv /\ LaunchesFit /\ LaneOK(kernel, t, pc[t], row[t], s[t], cache[t])
  BY DEF SumInv, TreeInv
<1>2. /\ UNCHANGED kernel /\ pc[t] = "row" /\ pc' = [pc EXCEPT ![t] = "sync"]
      /\ row' = [row EXCEPT ![t] = row[t]] /\ s' = [s EXCEPT ![t] = 1]
      /\ cache' = [cache EXCEPT ![t] = Term(t)]
  BY <1>1 DEF LoadTerm, TreeInv
<1>3. Term(t) = SetToBag(Terms(kernel, row[t], t[2], 1))
  <2>1. EmptyBag = SetToBag({})
    BY DEF EmptyBag, SetToBag
  <2>2. t[2] \in Nat /\ nnz \in Nat /\ nrow \in Nat /\ block_dot \in Nat
    BY <1>1, Places, PowersArePositive DEF LaunchesFit
  <2>3. CASE kernel = "mvp"
    BY <2>1, <2>2, <2>3 DEF Term, Terms
  <2>4. CASE kernel = "dot"
    <3>. DEFINE it == t[2] + block_dot * t[1]
    <3>1. row[t] = t[1] /\ it \in Int
      BY <1>1, <2>2, <2>4, Places DEF LaneOK
    <3>2. Terms(kernel, row[t], t[2], 1) = {<<j, 0>> : j \in {j \in it .. it : j < nrow}}
      BY <2>2, <2>4, <3>1 DEF Terms
    <3>3. Term(t) = IF it < nrow THEN SetToBag({<<it, 0>>}) ELSE EmptyBag
      BY <2>4 DEF Term
    <3>. HIDE DEF it
    <3>4. CASE it < nrow
      BY <3>1, <3>2, <3>3, <3>4
    <3>5. CASE ~(it < nrow)
      <4>1. {<<j, 0>> : j \in {j \in it .. it : j < nrow}} = {}
        BY <3>1, <3>5
      <4>. QED
        BY <2>1, <3>2, <3>3, <3>5, <4>1
    <3>. QED
      BY <3>4, <3>5
  <2>. QED
    BY <2>3, <2>4
<1>4. LaneOK(kernel, t, "sync", row[t], 1, Term(t))
  <2>1. 1 \in PowersOfTwo /\ 1 <= Block(kernel) /\ t[2] % 1 = 0
    BY <1>1, Places, Sizes DEF PowersOfTwo
  <2>2. kernel = "mvp" => row[t] < nrow
    BY DEF LoadTerm
  <2>. QED
    BY <1>1, <1>3, <2>1, <2>2 DEF LaneOK, CellOK
<1>5. InStep(kernel, "sync", row[t], 1, pc[t], row[t], s[t])
  BY <1>2 DEF InStep, Level, Round
<1>. QED
  BY <1>1, <1>2, <1>4, <1>5, OneLane

LEMMA NoMoreRowsStep ==
  ASSUME SumInv, NEW t \in Thread, NoMoreRows(t), kernel \in {"mvp", "dot"}
  PROVE  TreeInv'
<1>1. TreeInv /\ LaneOK(kernel, t, pc[t], row[t], s[t], cache[t])
  BY DEF SumInv, TreeInv
<1>2. /\ UNCHANGED kernel /\ pc[t] = "row" /\ pc' = [pc EXCEPT ![t] = "done"]
      /\ row' = [row EXCEPT ![t] = row[t]] /\ s' = [s EXCEPT ![t] = s[t]]
      /\ cache' = [cache EXCEPT ![t] = cache[t]]
  BY <1>1 DEF NoMoreRows, TreeInv
<1>3. LaneOK(kernel, t, "done", row[t], s[t], cache[t])
  BY <1>1 DEF LaneOK, CellOK, NoMoreRows
<1>4. InStep(kernel, "done", row[t], s[t], pc[t], row[t], s[t])
  BY <1>2 DEF InStep, Level, Round
<1>. QED
  BY <1>1, <1>2, <1>3, <1>4, OneLane

(* The lane a sum reads from has its part of it, for the same row.         *)
LEMMA PartnerReady ==
  ASSUME SumInv, kernel \in {"mvp", "dot"}, NEW t \in Thread,
         pc[t] = "tree", s[t] < Block(kernel), t[2] % (2 * s[t]) = 0
  PROVE  cache[<<t[1], t[2] + s[t]>>]
           = SetToBag(Terms(kernel, row[t], t[2] + s[t], s[t]))
<1>. DEFINE d == s[t]
            w == <<t[1], t[2] + s[t]>>
<1>1. TreeInv /\ LaunchesFit /\ LaneOK(kernel, t, pc[t], row[t], s[t], cache[t])
  BY DEF SumInv, TreeInv
<1>2. d \in PowersOfTwo /\ d \in Nat \ {0} /\ d < Block(kernel) /\ Block(kernel) \in PowersOfTwo
  BY <1>1, Sizes, PowersArePositive DEF LaneOK
<1>3. /\ t[2] % d = 0 /\ (t[2] + d) % d = 0 /\ (t[2] + d) % (2 * d) # 0
      /\ t[2] + d \in 0 .. Block(kernel) - 1
  <2>1. t[2] \in 0 .. Block(kernel) - 1 /\ t[2] % (2 * d) = 0
    BY <1>1, Places DEF Lanes
  <2>. QED
    BY <1>2, <2>1, Partners
<1>4. w \in Thread /\ w[1] = t[1] /\ w[2] = t[2] + d
  BY <1>1, <1>3, Places DEF Thread, Lanes
<1>5. /\ LaneOK(kernel, w, pc[w], row[w], s[w], cache[w])
      /\ Level(kernel, pc[w], s[w]) = Level(kernel, pc[t], s[t])
      /\ Round(kernel, pc[w], row[w], s[w]) = Round(kernel, pc[t], row[t], s[t])
  BY <1>1, <1>4 DEF TreeInv, InStep
<1>6. Level(kernel, pc[t], s[t]) = d /\ Round(kernel, pc[t], row[t], s[t]) = row[t]
  BY DEF Level, Round
<1>. HIDE DEF d, w
<1>7. \/ pc[w] = "tree" /\ s[w] < Block(kernel) /\ s[w] = d
      \/ pc[w] = "sync" /\ s[w] \div 2 = d
  BY <1>2, <1>5, <1>6 DEF Level
<1>8. row[w] = row[t]
  BY <1>5, <1>6, <1>7 DEF Round
<1>9. cache[w] = SetToBag(Terms(kernel, row[w], w[2], d))
  <2>1. CASE pc[w] = "tree" /\ s[w] = d
    BY <1>3, <1>4, <1>5, <2>1 DEF LaneOK, CellOK
  <2>2. CASE pc[w] = "sync" /\ s[w] \div 2 = d
    <3>1. s[w] \in PowersOfTwo
      BY <1>5, <2>2 DEF LaneOK
    <3>2. s[w] = 2 * d
      BY <1>2, <2>2, <3>1, PowersByHalves
    <3>. QED
      BY <1>3, <1>4, <1>5, <2>2, <3>2 DEF LaneOK, CellOK
  <2>. QED
    BY <1>7, <2>1, <2>2
<1>. QED
  BY <1>4, <1>8, <1>9 DEF d, w

LEMMA AddPairStep ==
  ASSUME SumInv, NEW t \in Thread, AddPair(t), kernel \in {"mvp", "dot"}
  PROVE  TreeInv'
<1>. DEFINE d == s[t]
            turn == t[2] % (2 * s[t]) = 0 /\ (kernel = "mvp" => t[2] < nnz)
            c == IF turn THEN cache[t] (+) cache[<<t[1], t[2] + s[t]>>] ELSE cache[t]
<1>1. TreeInv /\ LaunchesFit /\ LaneOK(kernel, t, pc[t], row[t], d, cache[t])
  BY DEF SumInv, TreeInv
<1>2. /\ UNCHANGED kernel /\ pc[t] = "tree" /\ d < Block(kernel)
      /\ pc' = [pc EXCEPT ![t] = "sync"] /\ s' = [s EXCEPT ![t] = 2 * d]
  BY DEF AddPair
<1>3. row' = [row EXCEPT ![t] = row[t]] /\ cache' = [cache EXCEPT ![t] = c]
  BY <1>1 DEF AddPair, TreeInv
<1>4. /\ d \in PowersOfTwo /\ d \in Nat \ {0}
      /\ 2 * d \in PowersOfTwo /\ 2 * d <= Block(kernel) /\ (2 * d) \div 2 = d
      /\ t[2] \in Nat /\ row[t] \in Nat /\ t[2] \in 0 .. Block(kernel) - 1
  <2>1. d \in PowersOfTwo /\ Block(kernel) \in PowersOfTwo
    BY <1>1, <1>2, Sizes DEF LaneOK
  <2>. QED
    BY <1>1, <1>2, <2>1, Places, PowerDoubled, PowersByHalves, PowersArePositive
       DEF LaneOK, Lanes
<1>5. t[2] % (2 * d) = 0 => c = SetToBag(Terms(kernel, row[t], t[2], 2 * d))
  <2>1. SUFFICES ASSUME t[2] % (2 * d) = 0
                 PROVE  c = SetToBag(Terms(kernel, row[t], t[2], 2 * d))
    OBVIOUS
  <2>2. cache[t] = SetToBag(Terms(kernel, row[t], t[2], d))
    <3>1. t[2] % d = 0
      BY <1>1, <1>2, <1>4, <2>1, Sizes, Partners
    <3>. QED
      BY <1>1, <1>2, <3>1 DEF LaneOK, CellOK
  <2>3. CASE turn
    <3>1. cache[<<t[1], t[2] + s[t]>>] = SetToBag(Terms(kernel, row[t], t[2] + d, d))
      BY <1>2, <2>1, PartnerReady
    <3>2. c = SetToBag(Terms(kernel, row[t], t[2], d))
                (+) SetToBag(Terms(kernel, row[t], t[2] + d, d))
      BY <2>2, <2>3, <3>1
    <3>. HIDE DEF c
    <3>. QED
      BY <1>1, <1>4, <3>2, TermsJoined
  <2>4. CASE ~turn
    <3>1. kernel = "mvp" /\ ~(t[2] < nnz)
      BY <2>1, <2>4
    <3>2. /\ Terms(kernel, row[t], t[2], d) = {}
          /\ Terms(kernel, row[t], t[2], 2 * d) = {}
      BY <1>1, <1>4, <3>1, NoTerms
    <3>. QED
      BY <2>2, <2>4, <3>2
  <2>. QED
    BY <2>3, <2>4
<1>6. t[2] % (2 * d) # 0 /\ t[2] % d = 0 => c = SetToBag(Terms(kernel, row[t], t[2], d))
  BY <1>1, <1>2 DEF LaneOK, CellOK
<1>. HIDE DEF c, d
<1>7. CellOK(kernel, t, "sync", row[t], 2 * d, c)
  BY <1>4, <1>5, <1>6 DEF CellOK
<1>8. LaneOK(kernel, t, "sync", row[t], 2 * d, c)
  BY <1>1, <1>2, <1>4, <1>7 DEF LaneOK
<1>9. InStep(kernel, "sync", row[t], 2 * d, pc[t], row[t], s[t])
  BY <1>2, <1>4 DEF InStep, Level, Round, d
<1>. QED
  BY <1>1, <1>2, <1>3, <1>8, <1>9, OneLane

LEMMA SaveRowStep ==
  ASSUME SumInv, NEW t \in Thread, SaveRow(t), kernel \in {"mvp", "dot"}
  PROVE  TreeInv'
<1>1. TreeInv /\ LaunchesFit /\ LaneOK(kernel, t, pc[t], row[t], s[t], cache[t])
  BY DEF SumInv, TreeInv
<1>2. /\ UNCHANGED kernel /\ kernel = "mvp" /\ pc[t] = "tree" /\ ~(s[t] < Block(kernel))
      /\ pc' = [pc EXCEPT ![t] = "row"] /\ row' = [row EXCEPT ![t] = row[t] + grid_mvp]
      /\ s' = [s EXCEPT ![t] = s[t]] /\ cache' = [cache EXCEPT ![t] = cache[t]]
  <2>1. s[t] \in Nat /\ Block(kernel) \in Nat
    BY <1>1, Sizes DEF LaneOK
  <2>2. s[t] >= Block(kernel) => ~(s[t] < Block(kernel))
    BY <2>1
  <2>3. s = [s EXCEPT ![t] = s[t]] /\ cache = [cache EXCEPT ![t] = cache[t]]
        /\ row = [row EXCEPT ![t] = row[t]]
    BY <1>1 DEF TreeInv
  <2>. QED
    BY <1>1, <2>1, <2>2, <2>3 DEF SaveRow
<1>3. LaneOK(kernel, t, "row", row[t] + grid_mvp, s[t], cache[t])
  <2>1. row[t] \in Nat /\ grid_mvp \in Nat \ {0} /\ row[t] % grid_mvp = t[1] /\ s[t] \in Nat
    BY <1>1, <1>2 DEF LaneOK, LaunchesFit
  <2>2. (row[t] + grid_mvp) % grid_mvp = row[t] % grid_mvp
    BY <2>1, NextStride
  <2>. QED
    BY <1>2, <2>1, <2>2 DEF LaneOK, CellOK
<1>4. InStep(kernel, "row", row[t] + grid_mvp, s[t], pc[t], row[t], s[t])
  BY <1>2 DEF InStep, Level, Round
<1>. QED
  BY <1>1, <1>2, <1>3, <1>4, OneLane

LEMMA SaveBlockStep ==
  ASSUME SumInv, NEW t \in Thread, SaveBlock(t), kernel \in {"mvp", "dot"}
  PROVE  TreeInv'
<1>1. TreeInv /\ LaunchesFit /\ LaneOK(kernel, t, pc[t], row[t], s[t], cache[t])
  BY DEF SumInv, TreeInv
<1>2. /\ UNCHANGED kernel /\ kernel = "dot" /\ pc[t] = "tree" /\ ~(s[t] < Block(kernel))
      /\ pc' = [pc EXCEPT ![t] = "done"] /\ row' = [row EXCEPT ![t] = row[t]]
      /\ s' = [s EXCEPT ![t] = s[t]] /\ cache' = [cache EXCEPT ![t] = cache[t]]
  <2>1. s[t] \in Nat /\ Block(kernel) \in Nat
    BY <1>1, Sizes DEF LaneOK
  <2>2. s[t] >= Block(kernel) => ~(s[t] < Block(kernel))
    BY <2>1
  <2>3. s = [s EXCEPT ![t] = s[t]] /\ cache = [cache EXCEPT ![t] = cache[t]]
        /\ row = [row EXCEPT ![t] = row[t]]
    BY <1>1 DEF TreeInv
  <2>. QED
    BY <1>1, <2>1, <2>2, <2>3 DEF SaveBlock
<1>3. LaneOK(kernel, t, "done", row[t], s[t], cache[t])
  BY <1>1, <1>2 DEF LaneOK, CellOK
<1>4. InStep(kernel, "done", row[t], s[t], pc[t], row[t], s[t])
  BY <1>2 DEF InStep, Level, Round
<1>. QED
  BY <1>1, <1>2, <1>3, <1>4, OneLane

(* Past the barrier the lanes of the block are at the next level.          *)
LEMMA SyncthreadsStep ==
  ASSUME SumInv, NEW b \in Blocks, Syncthreads(b), kernel \in {"mvp", "dot"}
  PROVE  TreeInv'
<1>1. TreeInv /\ LaunchesFit
  BY DEF SumInv
<1>2. /\ UNCHANGED <<kernel, row, s, cache>>
      /\ pc' = [t \in Thread |-> IF t[1] = b THEN "tree" ELSE pc[t]]
  BY DEF Syncthreads
<1>3. Thread' = Thread
  BY <1>2 DEF Thread, Blocks, Lanes, Grid, Block
<1>4. ASSUME NEW t \in Thread, t[1] = b PROVE pc[t] = "sync"
  BY <1>1, <1>4, Places DEF Syncthreads
<1>5. ASSUME NEW t \in Thread
      PROVE  LaneOK(kernel, t, pc'[t], row[t], s[t], cache[t])
  <2>1. LaneOK(kernel, t, pc[t], row[t], s[t], cache[t])
    BY <1>1 DEF TreeInv
  <2>2. CASE t[1] = b
    BY <1>2, <1>4, <2>1, <2>2 DEF LaneOK, CellOK
  <2>3. CASE t[1] # b
    BY <1>2, <2>1, <2>3
  <2>. QED
    BY <2>2, <2>3
<1>6. ASSUME NEW t \in Thread, NEW w \in Thread, t[1] = w[1]
      PROVE  InStep(kernel, pc'[t], row[t], s[t], pc'[w], row[w], s[w])
  <2>1. InStep(kernel, pc[t], row[t], s[t], pc[w], row[w], s[w])
    BY <1>1, <1>6 DEF TreeInv
  <2>2. CASE t[1] = b
    <3>1. pc[t] = "sync" /\ pc[w] = "sync" /\ pc'[t] = "tree" /\ pc'[w] = "tree"
      BY <1>2, <1>4, <1>6, <2>2
    <3>2. s[t] \div 2 = s[w] \div 2 /\ row[t] = row[w]
      BY <2>1, <3>1 DEF InStep, Level, Round
    <3>3. s[t] \in PowersOfTwo /\ s[w] \in PowersOfTwo
      BY <1>1, <3>1 DEF TreeInv, LaneOK
    <3>4. s[t] = s[w]
      BY <3>2, <3>3, PowersByHalves
    <3>. QED
      BY <3>1, <3>2, <3>4 DEF InStep
  <2>3. CASE t[1] # b
    BY <1>2, <1>6, <2>1, <2>3
  <2>. QED
    BY <2>2, <2>3
<1>7. pc' = [t \in Thread |-> pc'[t]]
  BY <1>2
<1>. QED
  BY <1>1, <1>2, <1>3, <1>5, <1>6, <1>7 DEF TreeInv

(* A step of a lane of the first two kernels is one of theirs.             *)
LEMMA TreeStep ==
  ASSUME SumInv, kernel \in {"mvp", "dot"}, Step, ~Host
  PROVE  \/ \E t \in Thread : Tree(t)
         \/ \E b \in Blocks : Syncthreads(b)
<1>1. ASSUME NEW t \in Thread PROVE pc[t] \in {"row", "sync", "tree", "done"}
  BY DEF SumInv, TreeInv, LaneOK
<1>2. ASSUME NEW t \in Thread PROVE ~Reduce(t)
  BY <1>1 DEF Reduce, ClearCell, Gather, Gathered, Total
<1>. QED
  BY <1>2 DEF Step

LEMMA TreePreserved ==
  ASSUME SumInv, kernel \in {"mvp", "dot"}, Step, ~Host
  PROVE  TreeInv' /\ UNCHANGED kernel
<1>1. ASSUME NEW t \in Thread, Tree(t) PROVE TreeInv' /\ UNCHANGED kernel
  <2>1. UNCHANGED kernel
    BY <1>1 DEF Tree, LoadTerm, NoMoreRows, AddPair, SaveRow, SaveBlock
  <2>. QED
    BY <1>1, <2>1, LoadTermStep, NoMoreRowsStep, AddPairStep, SaveRowStep, SaveBlockStep
       DEF Tree
<1>2. ASSUME NEW b \in Blocks, Syncthreads(b) PROVE TreeInv' /\ UNCHANGED kernel
  BY <1>2, SyncthreadsStep DEF Syncthreads
<1>. QED
  BY <1>1, <1>2, TreeStep

(* The lanes of a kernel that starts.                                      *)
LEMMA LanesStart ==
  ASSUME LaunchesFit, NEW kn \in {"mvp", "dot"}
  PROVE  \A t \in (0 .. Grid(kn) - 1) \X (0 .. Block(kn) - 1) :
           LaneOK(kn, t, "row", t[1], t[2], Junk)
<1>1. ASSUME NEW t \in (0 .. Grid(kn) - 1) \X (0 .. Block(kn) - 1)
      PROVE  LaneOK(kn, t, "row", t[1], t[2], Junk)
  <2>1. t[1] \in 0 .. Grid(kn) - 1 /\ t[2] \in Nat /\ t[1] \in Nat
    BY Sizes
  <2>2. kn = "mvp" => t[1] % grid_mvp = t[1]
    <3>1. kn = "mvp" => grid_mvp \in Nat \ {0} /\ t[1] \in 0 .. grid_mvp - 1
      BY <2>1, Sizes
    <3>. QED
      BY <3>1
  <2>. QED
    BY <2>1, <2>2 DEF LaneOK, CellOK
<1>. QED
  BY <1>1

LEMMA TreeLaunched ==
  ASSUME LaunchesFit, NEW kn \in {"mvp", "dot"}, Launch(kn, "row")
  PROVE  TreeInv' /\ kernel' = kn
<1>. DEFINE T == (0 .. Grid(kn) - 1) \X (0 .. Block(kn) - 1)
<1>1. /\ kernel' = kn /\ pc' = [t \in T |-> "row"] /\ row' = [t \in T |-> t[1]]
      /\ s' = [t \in T |-> t[2]] /\ cache' = [t \in T |-> Junk]
  BY DEF Launch, Starting
<1>2. Thread' = T
  BY <1>1 DEF Thread, Blocks, Lanes, Grid, Block
<1>3. \A t \in T : LaneOK(kn, t, "row", t[1], t[2], Junk)
  BY LanesStart
<1>. HIDE DEF T
<1>4. \A t \in T : /\ pc'[t] = "row" /\ row'[t] = t[1] /\ s'[t] = t[2] /\ cache'[t] = Junk
  BY <1>1
<1>5. \A t, w \in T : t[1] = w[1] => InStep(kn, pc'[t], row'[t], s'[t], pc'[w], row'[w], s'[w])
  BY <1>4 DEF InStep, Level, Round
<1>6. \A t \in T : LaneOK(kn, t, pc'[t], row'[t], s'[t], cache'[t])
  BY <1>3, <1>4
<1>7. /\ pc' = [t \in T |-> pc'[t]] /\ row' = [t \in T |-> row'[t]]
      /\ s' = [t \in T |-> s'[t]] /\ cache' = [t \in T |-> cache'[t]]
  BY <1>1
<1>. QED
  BY <1>1, <1>2, <1>5, <1>6, <1>7 DEF TreeInv

(***************************************************************************)
(* What is saved.                                                          *)
(***************************************************************************)

(* The root has the whole row, or all the components of its block.         *)
LEMMA RootComplete ==
  ASSUME SumInv, kernel \in {"mvp", "dot"}, NEW t \in Thread, t[2] = 0,
         pc[t] = "tree", s[t] >= Block(kernel)
  PROVE  /\ kernel = "mvp" => cache[t] = RowSum(row[t]) /\ row[t] \in 0 .. nrow - 1
         /\ kernel = "dot" => cache[t] = BlockSum(t[1]) /\ row[t] = t[1]
<1>1. LaunchesFit /\ LaneOK(kernel, t, pc[t], row[t], s[t], cache[t])
  BY DEF SumInv, TreeInv
<1>2. s[t] = Block(kernel) /\ Block(kernel) \in Nat \ {0}
  BY <1>1, Sizes DEF LaneOK
<1>3. t[2] % Block(kernel) = 0
  BY <1>2
<1>4. cache[t] = SetToBag(Terms(kernel, row[t], 0, Block(kernel)))
  BY <1>1, <1>2, <1>3 DEF LaneOK, CellOK
<1>5. ASSUME kernel = "mvp" PROVE cache[t] = RowSum(row[t]) /\ row[t] \in 0 .. nrow - 1
  <2>1. nnz \in Nat /\ nnz <= Block(kernel)
    BY <1>1, <1>5, Sizes DEF LaunchesFit
  <2>2. {j \in 0 .. 0 + Block(kernel) - 1 : j < nnz} = 0 .. nnz - 1
    BY <1>2, <2>1
  <2>3. Terms(kernel, row[t], 0, Block(kernel)) = {<<row[t], j>> : j \in 0 .. nnz - 1}
    BY <1>5, <2>2 DEF Terms
  <2>4. row[t] \in 0 .. nrow - 1
    BY <1>1, <1>5 DEF LaneOK, LaunchesFit
  <2>. QED
    BY <1>4, <2>3, <2>4 DEF RowSum
<1>6. ASSUME kernel = "dot" PROVE cache[t] = BlockSum(t[1]) /\ row[t] = t[1]
  <2>1. nrow \in Nat /\ Block(kernel) = block_dot /\ block_dot \in Nat \ {0}
    BY <1>1, <1>2, <1>6, Sizes DEF LaunchesFit
  <2>2. row[t] = t[1] /\ row[t] \in Nat
    BY <1>1, <1>6 DEF LaneOK
  <2>3. ASSUME NEW j \in Int
        PROVE  j \in 0 + block_dot * row[t] .. 0 + block_dot * row[t] + block_dot - 1
                 <=> j \div block_dot = row[t]
    <3>1. block_dot * row[t] \in Int
      BY <2>1, <2>2
    <3>. DEFINE q == j \div block_dot
                m == j % block_dot
    <3>2. q \in Int /\ j = block_dot * q + m /\ m \in 0 .. block_dot - 1
      BY <2>1
    <3>. HIDE DEF q, m
    <3>3. ASSUME NEW i \in Int, block_dot * i < block_dot, -block_dot < block_dot * i
          PROVE  i = 0
      BY <2>1, <3>3
    <3>4. CASE q = row[t]
      BY <2>1, <3>1, <3>2, <3>4 DEF q
    <3>5. CASE j \in 0 + block_dot * row[t] .. 0 + block_dot * row[t] + block_dot - 1
      <4>1. block_dot * (q - row[t]) = block_dot * q - block_dot * row[t]
        BY <2>1, <2>2, <3>2
      <4>2. block_dot * (q - row[t]) < block_dot /\ -block_dot < block_dot * (q - row[t])
        BY <2>1, <3>1, <3>2, <3>5, <4>1
      <4>3. q - row[t] = 0
        BY <2>2, <3>2, <3>3, <4>2
      <4>. QED
        BY <2>2, <3>2, <3>5, <4>3 DEF q
    <3>. QED
      BY <3>4, <3>5 DEF q
  <2>4. {j \in 0 + block_dot * row[t] .. 0 + block_dot * row[t] + block_dot - 1 : j < nrow}
          = {i \in 0 .. nrow - 1 : i \div block_dot = row[t]}
    <3>1. block_dot * row[t] \in Nat
      BY <2>1, <2>2
    <3>. QED
      BY <2>1, <2>3, <3>1
  <2>5. Terms(kernel, row[t], 0, Block(kernel))
          = {<<i, 0>> : i \in {i \in 0 .. nrow - 1 : i \div block_dot = row[t]}}
    BY <1>6, <2>1, <2>4 DEF Terms
  <2>. QED
    BY <1>4, <2>2, <2>5 DEF BlockSum
<1>. QED
  BY <1>5, <1>6

(* Rows of the same block are a stride apart.                              *)
LEMMA RowsApart ==
  ASSUME NEW g \in Nat \ {0}, NEW q \in Nat, NEW r \in Nat, q % g = r % g, q < r + g
  PROVE  q <= r
<1>. DEFINE i == q \div g
            j == r \div g
            m == r % g
<1>1. i \in Int /\ j \in Int /\ m \in 0 .. g - 1 /\ q = g * i + m /\ r = g * j + m
  OBVIOUS
<1>. HIDE DEF i, j, m
<1>2. g * (i - j) < g /\ g * (i - j) = q - r
  BY <1>1
<1>3. ASSUME NEW h \in Int, g * h < g PROVE g * h <= 0
  BY <1>3
<1>. QED
  BY <1>1, <1>2, <1>3

LEMMA FirstLanes ==
  ASSUME LaunchesFit, kernel \in {"mvp", "dot"}, NEW b \in Blocks
  PROVE  <<b, 0>> \in Thread
BY Sizes DEF Thread, Lanes

LEMMA RowsSavedStep ==
  ASSUME SumInv, kernel = "mvp", Step, ~Host
  PROVE  RowsSaved'
<1>1. TreeInv /\ LaunchesFit /\ RowsSaved
  BY DEF SumInv
<1>2. /\ nrow \in Nat /\ grid_mvp \in Nat \ {0} /\ Blocks = 0 .. grid_mvp - 1
  BY <1>1, Sizes DEF LaunchesFit, Blocks
<1>3. kernel' = "mvp"
  BY TreePreserved
<1>4. ASSUME NEW r \in 0 .. nrow - 1
      PROVE  /\ <<r % grid_mvp, 0>> \in Thread
             /\ r < row[<<r % grid_mvp, 0>>] => Ap_d[r] = RowSum(r)
  <2>1. r % grid_mvp \in Blocks
    BY <1>2
  <2>. QED
    BY <1>1, <2>1, FirstLanes DEF RowsSaved
<1>5. ASSUME NEW t \in Thread, SaveRow(t) PROVE RowsSaved'
  <2>1. /\ pc[t] = "tree" /\ s[t] >= Block(kernel)
        /\ row' = [row EXCEPT ![t] = row[t] + grid_mvp]
        /\ IF t[2] = 0 THEN Ap_d' = [Ap_d EXCEPT ![row[t]] = cache[t]] ELSE UNCHANGED Ap_d
    BY <1>5 DEF SaveRow
  <2>2. row[t] \in Nat /\ row[t] % grid_mvp = t[1] /\ t = <<t[1], t[2]>>
    BY <1>1, Places DEF TreeInv, LaneOK
  <2>3. t[2] = 0 => cache[t] = RowSum(row[t]) /\ row[t] \in 0 .. nrow - 1
    BY <2>1, RootComplete
  <2>4. Ap_d' = [r \in 0 .. nrow - 1 |-> Ap_d'[r]]
    BY <1>1, <2>1 DEF RowsSaved
  <2>5. ASSUME NEW r \in 0 .. nrow - 1, r < row'[<<r % grid_mvp, 0>>]
        PROVE  Ap_d'[r] = RowSum(r)
    <3>. DEFINE w == <<r % grid_mvp, 0>>
    <3>1. CASE w = t
      <4>1. t[2] = 0 /\ t[1] = r % grid_mvp
        BY <3>1
      <4>2. r < row[t] + grid_mvp
        BY <1>1, <2>1, <2>5, <3>1 DEF TreeInv
      <4>3. r <= row[t]
        BY <1>2, <2>2, <4>1, <4>2, RowsApart
      <4>4. Ap_d' = [Ap_d EXCEPT ![row[t]] = cache[t]]
        BY <2>1, <4>1
      <4>5. CASE r = row[t]
        BY <1>1, <2>3, <4>1, <4>4, <4>5 DEF RowsSaved
      <4>6. CASE r < row[t]
        <5>1. Ap_d[r] = RowSum(r)
          BY <1>4, <3>1, <4>6
        <5>. QED
          BY <1>1, <2>2, <4>4, <4>6, <5>1 DEF RowsSaved
      <4>. QED
        BY <2>2, <4>3, <4>5, <4>6
    <3>2. CASE w # t
      <4>1. row'[w] = row[w]
        BY <1>1, <1>4, <2>1, <3>2 DEF TreeInv
      <4>2. Ap_d[r] = RowSum(r)
        BY <1>4, <2>5, <4>1
      <4>3. t[2] = 0 => r # row[t]
        BY <2>2, <3>2
      <4>4. Ap_d'[r] = Ap_d[r]
        BY <1>1, <2>1, <4>3 DEF RowsSaved
      <4>. QED
        BY <4>2, <4>4
    <3>. QED
      BY <3>1, <3>2
  <2>. QED
    BY <1>3, <2>4, <2>5 DEF RowsSaved, RowSum
<1>6. ASSUME UNCHANGED <<row, Ap_d>> PROVE RowsSaved'
  BY <1>1, <1>3, <1>6 DEF RowsSaved, RowSum
<1>. QED
  BY <1>5, <1>6, TreeStep DEF Tree, LoadTerm, NoMoreRows, AddPair, SaveBlock, Syncthreads

LEMMA BlocksSavedStep ==
  ASSUME SumInv, kernel = "dot", Step, ~Host
  PROVE  BlocksSaved'
<1>1. TreeInv /\ LaunchesFit /\ BlocksSaved
  BY DEF SumInv
<1>2. Blocks = 0 .. grid_dot - 1
  BY <1>1, Sizes DEF Blocks
<1>3. kernel' = "dot"
  BY TreePreserved
<1>4. ASSUME NEW b \in 0 .. grid_dot - 1
      PROVE  <<b, 0>> \in Thread /\ (pc[<<b, 0>>] = "done" => g_res_d[b] = BlockSum(b))
  BY <1>1, <1>2, FirstLanes DEF BlocksSaved
<1>5. ASSUME NEW t \in Thread, SaveBlock(t) PROVE BlocksSaved'
  <2>1. /\ pc[t] = "tree" /\ s[t] >= Block(kernel) /\ pc' = [pc EXCEPT ![t] = "done"]
        /\ IF t[2] = 0 THEN g_res_d' = [g_res_d EXCEPT ![row[t]] = cache[t]]
                       ELSE UNCHANGED g_res_d
    BY <1>5 DEF SaveBlock
  <2>2. row[t] = t[1] /\ t = <<t[1], t[2]>>
    BY <1>1, Places DEF TreeInv, LaneOK
  <2>3. t[2] = 0 => cache[t] = BlockSum(t[1])
    BY <2>1, RootComplete
  <2>4. g_res_d' = [b \in 0 .. grid_dot - 1 |-> g_res_d'[b]]
    BY <1>1, <2>1 DEF BlocksSaved
  <2>5. ASSUME NEW b \in 0 .. grid_dot - 1, pc'[<<b, 0>>] = "done"
        PROVE  g_res_d'[b] = BlockSum(b)
    <3>1. CASE <<b, 0>> = t
      <4>1. t[2] = 0 /\ t[1] = b
        BY <3>1
      <4>. QED
        BY <1>1, <2>1, <2>2, <2>3, <4>1 DEF BlocksSaved
    <3>2. CASE <<b, 0>> # t
      <4>1. pc'[<<b, 0>>] = pc[<<b, 0>>]
        BY <1>1, <1>4, <2>1, <3>2 DEF TreeInv
      <4>2. g_res_d[b] = BlockSum(b)
        BY <1>4, <2>5, <4>1
      <4>3. t[2] = 0 => b # row[t]
        BY <2>2, <3>2
      <4>4. g_res_d'[b] = g_res_d[b]
        BY <1>1, <2>1, <4>3 DEF BlocksSaved
      <4>. QED
        BY <4>2, <4>4
    <3>. QED
      BY <3>1, <3>2
  <2>. QED
    BY <1>3, <2>4, <2>5 DEF BlocksSaved, BlockSum
<1>6. ASSUME UNCHANGED g_res_d,
             \A b \in 0 .. grid_dot - 1 : pc'[<<b, 0>>] = "done" => pc[<<b, 0>>] = "done"
      PROVE  BlocksSaved'
  BY <1>1, <1>3, <1>6 DEF BlocksSaved, BlockSum
<1>7. ASSUME NEW t \in Thread, NEW p \in {"row", "sync", "tree"},
             UNCHANGED g_res_d, pc' = [pc EXCEPT ![t] = p]
      PROVE  BlocksSaved'
  <2>1. ASSUME NEW b \in 0 .. grid_dot - 1, pc'[<<b, 0>>] = "done"
        PROVE  pc[<<b, 0>>] = "done"
    BY <1>1, <1>4, <1>7, <2>1 DEF TreeInv
  <2>. QED
    BY <1>6, <1>7, <2>1
<1>8. ASSUME NEW a \in Blocks, Syncthreads(a) PROVE BlocksSaved'
  <2>1. ASSUME NEW b \in 0 .. grid_dot - 1, pc'[<<b, 0>>] = "done"
        PROVE  pc[<<b, 0>>] = "done"
    BY <1>4, <1>8, <2>1 DEF Syncthreads
  <2>. QED
    BY <1>6, <1>8, <2>1 DEF Syncthreads
<1>. QED
  BY <1>5, <1>7, <1>8, TreeStep DEF Tree, LoadTerm, NoMoreRows, AddPair, SaveRow

LEMMA SumInit == LaunchesFit /\ Init => SumInv
<1>. SUFFICES ASSUME LaunchesFit, Init PROVE SumInv
  OBVIOUS
<1>. DEFINE T == (0 .. Grid("mvp") - 1) \X (0 .. Block("mvp") - 1)
<1>1. /\ kernel = "mvp" /\ pc = [t \in T |-> "row"] /\ row = [t \in T |-> t[1]]
      /\ s = [t \in T |-> t[2]] /\ cache = [t \in T |-> Junk]
      /\ Ap_d = [r \in 0 .. nrow - 1 |-> Junk] /\ g_res_d = [b \in 0 .. grid_dot - 1 |-> Junk]
  BY DEF Init, Starting
<1>2. Thread = T
  BY <1>1 DEF Thread, Blocks, Lanes
<1>3. \A t \in T : LaneOK("mvp", t, "row", t[1], t[2], Junk)
  BY LanesStart
<1>4. TreeInv
  <2>. HIDE DEF T
  <2>1. \A t, w \in T : t[1] = w[1] => InStep("mvp", pc[t], row[t], s[t], pc[w], row[w], s[w])
    BY <1>1 DEF InStep, Level, Round
  <2>2. \A t \in T : LaneOK("mvp", t, pc[t], row[t], s[t], cache[t])
    BY <1>1, <1>3
  <2>. QED
    BY <1>1, <1>2, <2>1, <2>2 DEF TreeInv
<1>5. RowsSaved
  <2>1. ASSUME NEW r \in 0 .. nrow - 1 PROVE ~(r < row[<<r % grid_mvp, 0>>])
    <3>1. r \in Nat /\ grid_mvp \in Nat \ {0}
      BY DEF LaunchesFit
    <3>2. r % grid_mvp \in 0 .. Grid("mvp") - 1
      BY <3>1, Sizes
    <3>3. <<r % grid_mvp, 0>> \in T
      BY <3>2, Sizes
    <3>4. row[<<r % grid_mvp, 0>>] = r % grid_mvp
      BY <1>1, <3>3
    <3>5. r % grid_mvp <= r
      BY <3>1
    <3>. QED
      BY <3>1, <3>4, <3>5
  <2>. QED
    BY <1>1, <2>1 DEF RowsSaved
<1>6. BlocksSaved
  BY <1>1 DEF BlocksSaved
<1>. QED
  BY <1>1, <1>4, <1>5, <1>6 DEF SumInv

(* The host launches the next kernel when all lanes are done.              *)
LEMMA HostStep ==
  ASSUME SumInv, Host
  PROVE  SumInv'
<1>1. LaunchesFit /\ LaunchesFit'
  BY DEF SumInv, LaunchesFit
<1>2. CASE LaunchDot
  <2>1. kernel = "mvp" /\ UNCHANGED <<Ap_d, g_res_d>> /\ KernelEnded /\ Launch("dot", "row")
    BY <1>2 DEF LaunchDot
  <2>2. TreeInv' /\ kernel' = "dot"
    BY <1>1, <2>1, TreeLaunched
  <2>3. ASSUME NEW r \in 0 .. nrow - 1 PROVE Ap_d[r] = RowSum(r)
    <3>1. r \in Nat /\ nrow \in Nat /\ grid_mvp \in Nat \ {0} /\ Blocks = 0 .. grid_mvp - 1
      BY <1>1, <2>1, Sizes DEF LaunchesFit, Blocks
    <3>2. r % grid_mvp \in Blocks
      BY <3>1
    <3>. DEFINE w == <<r % grid_mvp, 0>>
    <3>3. w \in Thread
      BY <1>1, <2>1, <3>2, FirstLanes
    <3>4. pc[w] = "done" /\ LaneOK(kernel, w, pc[w], row[w], s[w], cache[w])
      BY <2>1, <3>3 DEF KernelEnded, SumInv, TreeInv
    <3>5. row[w] >= nrow /\ row[w] \in Nat
      BY <2>1, <3>4 DEF LaneOK
    <3>6. r < row[w]
      BY <3>1, <3>5
    <3>. QED
      BY <2>1, <3>6 DEF SumInv, RowsSaved
  <2>4. RowsSaved'
    BY <2>1, <2>2, <2>3 DEF SumInv, RowsSaved, RowSum
  <2>5. BlocksSaved'
    <3>1. ASSUME NEW b \in 0 .. grid_dot - 1 PROVE pc'[<<b, 0>>] # "done"
      <4>1. <<b, 0>> \in (0 .. Grid("dot") - 1) \X (0 .. Block("dot") - 1)
        BY <1>1, Sizes
      <4>. QED
        BY <2>1, <4>1 DEF Launch, Starting
    <3>. QED
      BY <2>1, <2>2, <3>1 DEF SumInv, BlocksSaved
  <2>. QED
    BY <1>1, <2>2, <2>4, <2>5 DEF SumInv
<1>3. CASE LaunchReduce
  <2>1. kernel = "dot" /\ UNCHANGED <<Ap_d, g_res_d>> /\ KernelEnded /\ Launch("reduce", "clear")
    BY <1>3 DEF LaunchReduce
  <2>2. /\ kernel' = "reduce"
        /\ pc' = [t \in (0 .. Grid("reduce") - 1) \X (0 .. Block("reduce") - 1) |-> "clear"]
    BY <2>1 DEF Launch, Starting
  <2>3. pc' \in [Thread' -> {"clear", "gather", "total", "done"}]
    BY <2>2 DEF Thread, Blocks, Lanes, Grid, Block
  <2>4. RowsSaved'
    BY <2>1, <2>2 DEF SumInv, RowsSaved, RowSum
  <2>5. BlocksSaved'
    <3>1. ASSUME NEW b \in 0 .. grid_dot - 1 PROVE g_res_d[b] = BlockSum(b)
      <4>1. b \in Blocks
        BY <1>1, <2>1, Sizes DEF Blocks
      <4>2. pc[<<b, 0>>] = "done"
        BY <1>1, <2>1, <4>1, FirstLanes DEF KernelEnded
      <4>. QED
        BY <2>1, <4>2 DEF SumInv, BlocksSaved
    <3>. QED
      BY <2>1, <2>2, <3>1 DEF SumInv, BlocksSaved, BlockSum
  <2>. QED
    BY <1>1, <2>2, <2>3, <2>4, <2>5 DEF SumInv
<1>4. CASE ReadResult
  <2>1. /\ kernel = "reduce" /\ kernel' = "read" /\ KernelEnded
        /\ UNCHANGED <<pc, Ap_d, g_res_d>>
    BY <1>4 DEF ReadResult
  <2>2. Thread' = Thread
    BY <2>1 DEF Thread, Blocks, Lanes, Grid, Block
  <2>3. pc' \in [Thread' -> {"done"}]
    BY <2>1, <2>2 DEF KernelEnded, SumInv
  <2>4. RowsSaved' /\ BlocksSaved'
    BY <2>1 DEF SumInv, RowsSaved, BlocksSaved, RowSum, BlockSum
  <2>. QED
    BY <1>1, <2>1, <2>3, <2>4 DEF SumInv
<1>. QED
  BY <1>2, <1>3, <1>4 DEF Host

(* Once reduce runs, nothing of what it reads is written.                  *)
LEMMA ReduceStep ==
  ASSUME SumInv, kernel \in {"reduce", "read"}, Step, ~Host
  PROVE  SumInv'
<1>1. ASSUME NEW t \in Thread PROVE pc[t] \in {"clear", "gather", "total", "done"}
  BY DEF SumInv
<1>2. ASSUME NEW t \in Thread PROVE ~Tree(t)
  BY <1>1 DEF Tree, LoadTerm, NoMoreRows, AddPair, SaveRow, SaveBlock
<1>3. ASSUME NEW b \in Blocks PROVE ~Syncthreads(b)
  <2>1. 0 \in Lanes
    BY PowersArePositive DEF Lanes, Block, SumInv, LaunchesFit
  <2>2. <<b, 0>> \in Thread
    BY <2>1 DEF Thread
  <2>. QED
    BY <1>1, <2>1, <2>2 DEF Syncthreads
<1>4. PICK t \in Thread : Reduce(t)
  BY <1>2, <1>3 DEF Step
<1>5. kernel = "reduce"
  BY <1>4 DEF Reduce, ClearCell, Gather, Gathered, Total, SumInv
<1>6. UNCHANGED <<kernel, Ap_d, g_res_d>>
  BY <1>4 DEF Reduce, ClearCell, Gather, Gathered, Total
<1>7. Thread' = Thread
  BY <1>6 DEF Thread, Blocks, Lanes, Grid, Block
<1>8. pc' \in [Thread -> {"clear", "gather", "total", "done"}]
  <2>1. \/ pc' = pc
        \/ \E p \in {"gather", "total", "done"} : pc' = [pc EXCEPT ![t] = p]
    BY <1>4 DEF Reduce, ClearCell, Gather, Gathered, Total
  <2>. QED
    BY <1>5, <2>1 DEF SumInv
<1>9. RowsSaved' /\ BlocksSaved'
  BY <1>5, <1>6 DEF SumInv, RowsSaved, BlocksSaved, RowSum, BlockSum
<1>. QED
  BY <1>5, <1>6, <1>7, <1>8, <1>9 DEF SumInv, LaunchesFit

LEMMA SumStep ==
  ASSUME SumInv, [Next]_vars
  PROVE  SumInv'
<1>1. CASE UNCHANGED vars
  <2>1. Thread' = Thread
    BY <1>1 DEF vars, Thread, Blocks, Lanes, Grid, Block
  <2>2. TreeInv => TreeInv'
    BY <1>1, <2>1 DEF vars, TreeInv
  <2>3. RowsSaved' /\ BlocksSaved'
    BY <1>1 DEF vars, SumInv, RowsSaved, BlocksSaved, RowSum, BlockSum
  <2>. QED
    BY <1>1, <2>1, <2>2, <2>3 DEF vars, SumInv, LaunchesFit
<1>2. CASE Host
  BY <1>2, HostStep
<1>3. CASE Step /\ ~Host /\ kernel \in {"reduce", "read"}
  BY <1>3, ReduceStep
<1>4. CASE Step /\ ~Host /\ kernel \in {"mvp", "dot"}
  <2>1. TreeInv' /\ UNCHANGED kernel
    BY <1>4, TreePreserved
  <2>2. RowsSaved'
    <3>1. CASE kernel = "mvp"
      BY <1>4, <3>1, RowsSavedStep
    <3>2. CASE kernel # "mvp"
      <4>1. UNCHANGED Ap_d
        BY <1>4, <3>2, TreeStep DEF Tree, LoadTerm, NoMoreRows, AddPair, SaveRow, SaveBlock,
                                   Syncthreads
      <4>. QED
        BY <2>1, <3>2, <4>1 DEF SumInv, RowsSaved, RowSum
    <3>. QED
      BY <3>1, <3>2
  <2>3. BlocksSaved'
    <3>1. CASE kernel = "dot"
      BY <1>4, <3>1, BlocksSavedStep
    <3>2. CASE kernel = "mvp"
      <4>1. UNCHANGED g_res_d
        BY <1>4, <3>2, TreeStep DEF Tree, LoadTerm, NoMoreRows, AddPair, SaveRow, SaveBlock,
                                   Syncthreads
      <4>. QED
        BY <2>1, <3>2, <4>1 DEF SumInv, BlocksSaved, BlockSum
    <3>. QED
      BY <1>4, <3>1, <3>2
  <2>. QED
    BY <1>4, <2>1, <2>2, <2>3 DEF SumInv, LaunchesFit
<1>. QED
  BY <1>1, <1>2, <1>3, <1>4 DEF Next, SumInv

(* What a lane of a level reads was written a barrier ago and is not       *)
(* written before the next one; the root of a row is saved before its cell *)
(* is used for another.                                                    *)
THEOREM SumInvariance == LaunchesFit => (Spec => []SumInv)
BY SumInit, SumStep, PTL DEF Spec

(* For every matrix and every launch that fits it.                         *)
THEOREM SumsAreComplete == LaunchesFit => (Spec => []PartialSumsComplete)
<1>1. SumInv => PartialSumsComplete
  BY DEF SumInv, RowsSaved, BlocksSaved, RowSum, BlockSum, PartialSumsComplete
<1>. QED
  BY <1>1, SumInvariance, PTL

=============================================================================
