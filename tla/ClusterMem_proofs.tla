------------------------- MODULE ClusterMem_proofs -------------------------
(***************************************************************************)
(* What holds of the column table for every grid and every number of       *)
(* cluster nodes (EllCols), and of ClusterMem for every number of points,  *)
(* of cluster nodes, of calls, and every placing of the tasks.             *)
(***************************************************************************)
EXTENDS ClusterMem, TLAPS

(***************************************************************************)
(* The column table: its inductive invariant.                              *)
(***************************************************************************)

TypeInv ==
  /\ nodes \in Nat \ {0}
  /\ pc \in {"distribute", "spawn", "returned"}
  /\ i \in 0 .. nodes
  /\ cum \in Nat
  /\ start \in [Task -> Nat]
  /\ nelems \in [Task -> Nat]
  /\ running \subseteq Task
  /\ next \in [Task -> Nat]

(* How many tasks have got their share.                                    *)
Dealt == IF pc = "distribute" THEN i ELSE nodes

(* The shares follow one after the other and leave out no plane.           *)
SharesInv ==
  /\ cum = Dealt * Frac + (IF Dealt < Mod THEN Dealt ELSE Mod)
  /\ \A t \in Task : t < Dealt => End(t) <= cum
  /\ \A s, t \in Task : s < t /\ t < Dealt => End(s) <= start[t]
  /\ \A z \in 0 .. cum - 1 : \E t \in Task : t < Dealt /\ start[t] <= z /\ z < End(t)

(* The planes from lo on, and before hi, are in table c.                   *)
InTable(c, lo, hi) ==
  \A n \in GridNode : lo <= n[3] /\ n[3] < hi => c[n] = Row(n)

(* A task has written the planes it has gone through.                      *)
Written(t) == InTable(cols, start[t], IF t \in running THEN next[t] ELSE End(t))

TasksInv ==
  /\ running # {} => pc = "spawn"
  /\ \A t \in running : t < i /\ start[t] <= next[t] /\ next[t] <= End(t)
  /\ \A t \in Task : pc = "spawn" /\ t < i => Written(t)

TableInv == TypeInv /\ SharesInv /\ TasksInv

(***************************************************************************)
(* Types and arithmetic.                                                   *)
(***************************************************************************)

LEMMA ModType ==
  ASSUME nodes \in Nat \ {0}
  PROVE  Frac \in Nat /\ Mod \in 0 .. nodes - 1 /\ nz = nodes * Frac + Mod
BY GridAssumption DEF GridAssumption, Frac, Mod

LEMMA OneMore ==
  ASSUME NEW a \in Nat, NEW f \in Nat
  PROVE  (a + 1) * f = a * f + f /\ a * f \in Nat
OBVIOUS

LEMMA TableInit == Init => TableInv
<1>. SUFFICES ASSUME Init PROVE TableInv
  OBVIOUS
<1>. USE DEF Init
<1>1. TypeInv
  BY EllAssumption DEF EllAssumption, TypeInv, Task
<1>2. Frac \in Nat /\ Mod \in 0 .. nodes - 1
  BY <1>1, ModType DEF TypeInv
<1>3. SharesInv
  BY <1>1, <1>2 DEF SharesInv, Dealt, TypeInv, Task
<1>4. TasksInv
  BY <1>1 DEF TasksInv
<1>. QED
  BY <1>1, <1>3, <1>4 DEF TableInv

LEMMA DistributeInv == TableInv /\ Distribute => TableInv'
<1>. SUFFICES ASSUME TableInv, Distribute PROVE TableInv'
  OBVIOUS
<1>1. TypeInv /\ SharesInv /\ TasksInv
  BY DEF TableInv
<1>2. Frac \in Nat /\ Mod \in 0 .. nodes - 1 /\ Share(i) \in Nat
  BY <1>1, ModType DEF TypeInv, Share
<1>3. /\ pc = "distribute" /\ pc' = "distribute" /\ nodes' = nodes
      /\ i \in Task /\ i \in Nat /\ i' = i + 1 /\ i' \in 0 .. nodes'
      /\ Task' = Task
      /\ \A t \in Task : t \in Int
      /\ cum \in Nat /\ cum' = cum + Share(i) /\ cum' \in Nat
      /\ Dealt = i /\ Dealt' = i + 1
      /\ running' = running /\ running = {} /\ next' = next /\ cols' = cols
  BY <1>1, <1>2 DEF Distribute, TypeInv, TasksInv, Task, Dealt
<1>4. /\ start' \in [Task -> Nat] /\ nelems' \in [Task -> Nat]
      /\ start'[i] = cum /\ nelems'[i] = Share(i)
      /\ \A t \in Task : t # i => start'[t] = start[t] /\ nelems'[t] = nelems[t]
  BY <1>1, <1>2, <1>3 DEF Distribute, TypeInv
<1>5. TypeInv'
  BY <1>1, <1>3, <1>4 DEF TypeInv
<1>6. SharesInv'
  <2>1. cum' = (i + 1) * Frac + (IF i + 1 < Mod THEN i + 1 ELSE Mod)
    <3>1. cum = i * Frac + (IF i < Mod THEN i ELSE Mod)
      BY <1>1, <1>3 DEF SharesInv
    <3>2. i * Frac \in Nat /\ (i + 1) * Frac = i * Frac + Frac
      BY <1>2, <1>3, OneMore
    <3>. QED
      BY <1>2, <1>3, <3>1, <3>2 DEF Share
  <2>2. Frac' = Frac /\ Mod' = Mod
    BY <1>3 DEF Frac, Mod
  <2>3. /\ \A t \in Task : t < i => start[t] + nelems[t] <= cum
        /\ \A s, t \in Task : s < t /\ t < i => start[s] + nelems[s] <= start[t]
        /\ \A z \in 0 .. cum - 1 :
             \E t \in Task : t < i /\ start[t] <= z /\ z < start[t] + nelems[t]
    BY <1>1, <1>3 DEF SharesInv, End
  <2>4. ASSUME NEW t \in Task, t < i + 1 PROVE start'[t] + nelems'[t] <= cum'
    <3>1. CASE t = i
      BY <1>2, <1>3, <1>4, <3>1
    <3>2. CASE t # i
      <4>1. t < i /\ start[t] + nelems[t] \in Nat
        BY <1>1, <1>3, <2>4, <3>2 DEF TypeInv
      <4>. QED
        BY <1>2, <1>3, <1>4, <2>3, <3>2, <4>1
    <3>. QED
      BY <3>1, <3>2
  <2>5. ASSUME NEW s \in Task, NEW t \in Task, s < t, t < i + 1
        PROVE  start'[s] + nelems'[s] <= start'[t]
    <3>1. s # i /\ s < i
      BY <1>3, <2>5
    <3>2. CASE t = i
      BY <1>4, <2>3, <3>1, <3>2
    <3>3. CASE t # i
      BY <1>3, <1>4, <2>3, <2>5, <3>1, <3>3
    <3>. QED
      BY <3>2, <3>3
  <2>6. ASSUME NEW z \in 0 .. cum' - 1
        PROVE  \E t \in Task : t < i + 1 /\ start'[t] <= z /\ z < start'[t] + nelems'[t]
    <3>1. CASE z < cum
      <4>1. PICK t \in Task : t < i /\ start[t] <= z /\ z < start[t] + nelems[t]
        BY <1>3, <2>3, <2>6, <3>1
      <4>2. t # i /\ t < i + 1
        BY <1>3, <4>1
      <4>. QED
        BY <1>4, <4>1, <4>2
    <3>2. CASE z >= cum
      BY <1>2, <1>3, <1>4, <2>6, <3>2
    <3>. QED
      BY <1>3, <2>6, <3>1, <3>2
  <2>. QED
    BY <1>3, <2>1, <2>2, <2>4, <2>5, <2>6 DEF SharesInv, End
<1>7. TasksInv'
  BY <1>3 DEF TasksInv
<1>. QED
  BY <1>5, <1>6, <1>7 DEF TableInv

(* The tasks move no share.                                                *)
LEMMA SharesStay ==
  ASSUME SharesInv, UNCHANGED <<nodes, cum, start, nelems>>, Dealt' = Dealt
  PROVE  SharesInv'
BY DEF SharesInv, Task, End, Frac, Mod

LEMMA DistributedInv == TableInv /\ Distributed => TableInv'
<1>. SUFFICES ASSUME TableInv, Distributed PROVE TableInv'
  OBVIOUS
<1>1. TypeInv' 
  BY DEF TableInv, Distributed, TypeInv, Task
<1>2. SharesInv'
  BY SharesStay DEF TableInv, Distributed, Dealt
<1>3. TasksInv'
  BY DEF TableInv, TypeInv, Distributed, TasksInv, Task
<1>. QED
  BY <1>1, <1>2, <1>3 DEF TableInv

LEMMA PlanesAreInt == \A n \in GridNode : n[3] \in Plane /\ n[3] \in Int
BY GridAssumption DEF GridAssumption, GridNode, Plane

LEMMA SpawnInv == TableInv /\ Spawn => TableInv'
<1>. SUFFICES ASSUME TableInv, Spawn PROVE TableInv'
  OBVIOUS
<1>1. TypeInv /\ SharesInv /\ TasksInv
  BY DEF TableInv
<1>2. /\ pc = "spawn" /\ pc' = "spawn" /\ i' = i + 1 /\ running' = running \cup {i}
      /\ UNCHANGED <<nodes, cum, start, nelems, cols>>
      /\ Task' = Task /\ i \in Task /\ i \in Nat /\ i' \in 0 .. nodes'
      /\ i \notin running /\ running' \subseteq Task
      /\ \A t \in Task : t \in Int
      /\ next' \in [Task -> Nat]
      /\ next'[i] = start[i] /\ \A t \in Task : t # i => next'[t] = next[t]
      /\ start \in [Task -> Nat] /\ nelems \in [Task -> Nat]
  BY <1>1, SMTT(60) DEF Spawn, TypeInv, TasksInv, Task
<1>3. TypeInv'
  BY <1>1, <1>2 DEF TypeInv
<1>4. SharesInv'
  BY <1>1, <1>2, SharesStay DEF Dealt
<1>5. /\ \A t \in running : t < i /\ start[t] <= next[t] /\ next[t] <= start[t] + nelems[t]
      /\ \A t \in Task : t < i =>
           InTable(cols, start[t], IF t \in running THEN next[t] ELSE start[t] + nelems[t])
  BY <1>1, <1>2 DEF TasksInv, Written, End
<1>6. ASSUME NEW t \in running'
      PROVE  t < i + 1 /\ start[t] <= next'[t] /\ next'[t] <= start[t] + nelems[t]
  <2>1. CASE t = i
    BY <1>2, <2>1
  <2>2. CASE t # i
    BY <1>2, <1>5, <1>6, <2>2
  <2>. QED
    BY <2>1, <2>2
<1>7. ASSUME NEW t \in Task, t < i + 1
      PROVE  InTable(cols, start[t], IF t \in running' THEN next'[t] ELSE start[t] + nelems[t])
  <2>1. CASE t = i
    <3>1. InTable(cols, start[i], start[i])
      BY <1>2, PlanesAreInt DEF InTable
    <3>. QED
      BY <1>2, <2>1, <3>1
  <2>2. CASE t # i
    BY <1>2, <1>5, <1>7, <2>2
  <2>. QED
    BY <2>1, <2>2
<1>8. TasksInv'
  BY <1>2, <1>6, <1>7 DEF TasksInv, Written, End, InTable, Row
<1>. QED
  BY <1>3, <1>4, <1>8 DEF TableInv

LEMMA WritePlaneInv ==
  ASSUME TableInv, NEW t \in Task, WritePlane(t)
  PROVE  TableInv'
<1>1. TypeInv /\ SharesInv /\ TasksInv
  BY DEF TableInv
<1>2. /\ t \in running /\ next[t] < start[t] + nelems[t] /\ next[t] \in Nat
      /\ pc = "spawn"
      /\ cols' = [n \in GridNode |-> IF n[3] = next[t] THEN Row(n) ELSE cols[n]]
      /\ UNCHANGED <<nodes, pc, i, cum, start, nelems, running>>
      /\ Task' = Task /\ i \in Int /\ \A s \in Task : s \in Int
      /\ running \subseteq Task
      /\ start \in [Task -> Nat] /\ nelems \in [Task -> Nat]
      /\ next' \in [Task -> Nat]
      /\ next'[t] = next[t] + 1 /\ \A s \in Task : s # t => next'[s] = next[s]
  <2>1. /\ t \in running /\ next[t] < start[t] + nelems[t]
        /\ cols' = [n \in GridNode |-> IF n[3] = next[t] THEN Row(n) ELSE cols[n]]
        /\ next' = [next EXCEPT ![t] = next[t] + 1]
        /\ UNCHANGED <<nodes, pc, i, cum, start, nelems, running>>
    BY DEF WritePlane, End
  <2>2. /\ nodes \in Int /\ i \in Int /\ running \subseteq Task
        /\ start \in [Task -> Nat] /\ nelems \in [Task -> Nat]
        /\ next \in [Task -> Nat]
    BY <1>1 DEF TypeInv
  <2>3. pc = "spawn"
    BY <1>1, <2>1 DEF TasksInv
  <2>4. Task' = Task /\ \A s \in Task : s \in Int
    BY <2>1, <2>2 DEF Task
  <2>5. /\ next[t] \in Nat /\ next' \in [Task -> Nat]
        /\ next'[t] = next[t] + 1 /\ \A s \in Task : s # t => next'[s] = next[s]
    BY <2>1, <2>2
  <2>. QED
    BY <2>1, <2>2, <2>3, <2>4, <2>5
<1>3. TypeInv'
  BY <1>1, <1>2 DEF TypeInv
<1>4. SharesInv'
  BY <1>1, <1>2, SharesStay DEF Dealt
<1>5. /\ \A s \in running : s < i /\ start[s] <= next[s] /\ next[s] <= start[s] + nelems[s]
      /\ \A s \in Task : s < i =>
           InTable(cols, start[s], IF s \in running THEN next[s] ELSE start[s] + nelems[s])
  BY <1>1, <1>2 DEF TasksInv, Written, End
<1>6. ASSUME NEW s \in running
      PROVE  s < i /\ start[s] <= next'[s] /\ next'[s] <= start[s] + nelems[s]
  <2>1. CASE s = t
    BY <1>2, <1>5, <2>1
  <2>2. CASE s # t
    BY <1>2, <1>5, <2>2
  <2>. QED
    BY <2>1, <2>2
<1>7. ASSUME NEW lo, NEW hi, InTable(cols, lo, hi) PROVE InTable(cols', lo, hi)
  BY <1>2, <1>7 DEF InTable
<1>8. ASSUME NEW s \in Task, s < i
      PROVE  InTable(cols', start[s], IF s \in running THEN next'[s] ELSE start[s] + nelems[s])
  <2>1. CASE s = t
    <3>1. InTable(cols, start[t], next[t])
      BY <1>2, <1>5, <1>8, <2>1
    <3>2. InTable(cols', start[t], next[t] + 1)
      BY <1>2, <3>1, PlanesAreInt DEF InTable
    <3>. QED
      BY <1>2, <2>1, <3>2
  <2>2. CASE s # t
    BY <1>2, <1>5, <1>7, <1>8, <2>2
  <2>. QED
    BY <2>1, <2>2
<1>9. TasksInv'
  BY <1>2, <1>6, <1>8 DEF TasksInv, Written, End, InTable, Row
<1>. QED
  BY <1>3, <1>4, <1>9 DEF TableInv

LEMMA EndTaskInv ==
  ASSUME TableInv, NEW t \in Task, EndTask(t)
  PROVE  TableInv'
<1>1. TypeInv /\ SharesInv /\ TasksInv
  BY DEF TableInv
<1>2. /\ t \in running /\ next[t] = start[t] + nelems[t]
      /\ pc = "spawn" /\ running' = running \ {t}
      /\ UNCHANGED <<nodes, pc, i, cum, start, nelems, next, cols>>
      /\ Task' = Task
  BY <1>1 DEF EndTask, TasksInv, Task, End
<1>3. TypeInv'
  BY <1>1, <1>2 DEF TypeInv
<1>4. SharesInv'
  BY <1>1, <1>2, SharesStay DEF Dealt
<1>5. TasksInv'
  BY <1>1, <1>2 DEF TasksInv, Written, End, InTable, Row
<1>. QED
  BY <1>3, <1>4, <1>5 DEF TableInv

LEMMA TableStep == TableInv /\ [Next]_vars => TableInv'
<1>. SUFFICES ASSUME TableInv, [Next]_vars PROVE TableInv'
  OBVIOUS
<1>1. CASE Taskwait
  <2>1. /\ pc = "spawn" /\ pc' = "returned" /\ running = {}
        /\ UNCHANGED <<nodes, i, cum, start, nelems, running, next, cols>>
    BY <1>1 DEF Taskwait
  <2>2. SharesInv'
    BY <2>1, SharesStay DEF TableInv, Dealt
  <2>. QED
    BY <2>1, <2>2 DEF TableInv, TypeInv, TasksInv, Task
<1>2. CASE UNCHANGED vars
  BY <1>2 DEF vars, TableInv, TypeInv, SharesInv, TasksInv, Task, Dealt, End, Written,
              InTable, Row, Frac, Mod
<1>. QED
  BY <1>1, <1>2, DistributeInv, DistributedInv, SpawnInv, WritePlaneInv, EndTaskInv
     DEF Next, Main

(* When the shares are dealt, they are nz planes.                          *)
LEMMA AllDealt == TableInv /\ pc # "distribute" => cum = nz
BY ModType DEF TableInv, TypeInv, SharesInv, Dealt

(* Nothing is missing when the main thread has waited for the tasks.       *)
LEMMA TableWritten ==
  ASSUME TableInv, Taskwait
  PROVE  \A n \in GridNode : cols[n] = Row(n)
<1>1. pc = "spawn" /\ i = nodes /\ running = {} /\ TypeInv /\ SharesInv /\ TasksInv
  BY DEF Taskwait, TableInv
<1>2. cum = nz
  BY <1>1, AllDealt
<1>. SUFFICES ASSUME NEW n \in GridNode PROVE cols[n] = Row(n)
  OBVIOUS
<1>3. PICK t \in Task : start[t] <= n[3] /\ n[3] < End(t)
  BY <1>1, <1>2, PlanesAreInt DEF SharesInv, Plane
<1>4. t < i
  BY <1>1 DEF TypeInv, Task
<1>. QED
  BY <1>1, <1>3, <1>4 DEF TasksInv, Written, InTable

(***************************************************************************)
(* Theorems.                                                               *)
(***************************************************************************)

(* The invariant holds for every grid and number of cluster nodes.         *)
THEOREM TableInvariance == Spec => []TableInv
BY TableInit, TableStep, PTL DEF Spec

LEMMA Disjoint == TableInv => RegionsDisjoint
<1>. SUFFICES ASSUME TableInv, NEW t \in running, NEW s \in running
              PROVE  End(t) <= nz /\ (t # s => Region(t) \cap Region(s) = {})
  BY DEF RegionsDisjoint
<1>1. /\ TypeInv /\ SharesInv /\ pc = "spawn" /\ cum = nz
      /\ t \in Task /\ s \in Task /\ Dealt = nodes
  BY AllDealt DEF TableInv, TypeInv, TasksInv, Dealt
<1>2. t < nodes /\ s < nodes /\ t \in Int /\ s \in Int
  BY <1>1 DEF Task, TypeInv
<1>3. End(t) <= nz
  BY <1>1, <1>2 DEF SharesInv
<1>4. ASSUME t # s PROVE End(t) <= start[s] \/ End(s) <= start[t]
  BY <1>1, <1>2, <1>4 DEF SharesInv
<1>5. End(t) \in Int /\ End(s) \in Int /\ start[t] \in Int /\ start[s] \in Int
  BY <1>1 DEF TypeInv, End
<1>6. \A z \in Plane : z \in Int
  BY GridAssumption DEF Plane, GridAssumption
<1>. QED
  BY <1>3, <1>4, <1>5, <1>6 DEF Region

(* The regions of the tasks that run at one time are inside the table and  *)
(* have no plane in common: ell-common.cpp:104-117, util.hpp:185-202.      *)
THEOREM RegionsAreDisjoint == Spec => []RegionsDisjoint
BY TableInvariance, Disjoint, PTL

LEMMA Returned == [Next]_vars /\ TableReturned => Taskwait /\ cols' = cols
BY DEF Next, Main, vars, TableReturned, Distribute, Distributed, Spawn, Taskwait,
       WritePlane, EndTask

(* The table is complete when ell_init_cols returns.                       *)
THEOREM TableIsComplete == Spec => TableComplete
<1>1. TableInv /\ [Next]_vars => [TableReturned => \A n \in GridNode : cols'[n] = Row(n)]_vars
  BY Returned, TableWritten
<1>. QED
  BY <1>1, TableInvariance, PTL DEF Spec, TableComplete

(* Where node b of an element is, seen from its node a.                    *)
LEMMA ColsRowOffsets ==
  ASSUME NEW e \in Element, NEW a \in 1 .. 8, NEW b \in 1 .. 8
  PROVE  /\ ColsRow[a][b] \in Slot
         /\ Neighbour(Corner(e, a), ColsRow[a][b]) = Corner(e, b)
BY SMTT(60), GridAssumption DEF GridAssumption, Element, ColsRow, Slot, Neighbour, Offset, Corner

LEMMA CornersAreNodes ==
  ASSUME NEW e \in Element, NEW a \in 1 .. 8
  PROVE  Corner(e, a) \in GridNode
BY GridAssumption DEF GridAssumption, Element, GridNode, Plane, Corner

LEMMA DiagonalIsItself ==
  ASSUME NEW n \in GridNode
  PROVE  Shift \in Slot /\ Neighbour(n, Shift) = n
BY GridAssumption DEF GridAssumption, GridNode, Plane, Neighbour, Offset, Shift, Slot

(* What the users of the table take for granted is true of every grid.     *)
LEMMA RowsFitUsers ==
  /\ \A e \in Element, a, b \in 1 .. 8 :
       Row(Corner(e, a))[ColsRow[a][b]] = Index(Corner(e, b))
  /\ \A n \in GridNode : Row(n)[Shift] = Index(n)
BY ColsRowOffsets, CornersAreNodes, DiagonalIsItself DEF Row

(* ell_add_3D and ell_set_bc_3D find the columns they take for granted:    *)
(* ell-common.cpp:251-297, 340-400.                                        *)
THEOREM UsersAreServed == Spec => UsersFindTheirColumns
<1>1. ASSUME TableInv, [Next]_vars, TableReturned
      PROVE  /\ \A e \in Element, a, b \in 1 .. 8 :
                  cols'[Corner(e, a)][ColsRow[a][b]] = Index(Corner(e, b))
             /\ \A n \in GridNode : cols'[n][Shift] = Index(n)
  <2>1. \A n \in GridNode : cols'[n] = Row(n)
    BY <1>1, Returned, TableWritten
  <2>. QED
    BY <2>1, CornersAreNodes, RowsFitUsers
<1>. QED
  BY <1>1, TableInvariance, PTL DEF Spec, UsersFindTheirColumns

(***************************************************************************)
(* The memory of the points: its inductive invariant.                      *)
(***************************************************************************)

(* The memory of a point has all its parts.                                *)
IsMemory(m) == m = [r \in Part |-> m[r]]

Shape ==
  /\ copy = [w \in Worker |-> copy[w]]
  /\ \A w \in Worker : copy[w] = [p \in Point |-> copy[w][p]]
  /\ \A w \in Worker, p \in Point : IsMemory(copy[w][p])
  /\ latest \in [Point -> [Part -> Worker]]
  /\ one = [p \in Point |-> one[p]]
  /\ \A p \in Point : IsMemory(one[p])
  /\ todo \subseteq Point
  /\ phase \in {"table", "init", "idle", "wait", "solved"}

(* A point that has been initialised has four buffers.                     *)
GpOk(g) ==
  /\ g \in [allocated : BOOLEAN, u_n : {"u_a", "u_b"}, u_k : {"u_a", "u_b"},
            vars_n : {"vars_a", "vars_b"}, vars_k : {"vars_a", "vars_b"}]
  /\ g.u_n # g.u_k
  /\ g.vars_n # g.vars_k

Constructed == phase \in {"idle", "wait", "solved"}
Initialised(p) == Constructed \/ (phase = "init" /\ p \notin todo)

PointsInitialised == \A p \in Point : Initialised(p) => GpOk(one[p]["gp"])

Coherent == \A p \in Point, r \in Part : copy[latest[p][r]][p][r] = one[p][r]

(* The main thread sees a point until its task has run.                    *)
MainSees ==
  \A p \in Point : phase \in {"idle", "solved"} \/ (phase = "wait" /\ p \in todo) =>
    latest[p]["gp"] = 0

(* Nobody has written the histories of a point that has stayed linear.     *)
HistoriesAsFound ==
  \A p \in Point : ~Constructed \/ ~one[p]["gp"].allocated =>
    \A w \in Worker : copy[w][p]["vars_a"] = <<>> /\ copy[w][p]["vars_b"] = <<>>

Inv == Shape /\ PointsInitialised /\ Coherent /\ MainSees /\ HistoriesAsFound

(***************************************************************************)
(* The memory a task works on.                                             *)
(***************************************************************************)

LEMMA PartsDiffer ==
  /\ "gp" \in Part /\ "u_a" \in Part /\ "u_b" \in Part
  /\ "vars_a" \in Part /\ "vars_b" \in Part
BY DEF Part

(* What is copied in for a task is the latest of what it reads, and of the *)
(* rest what its node has.                                                 *)
LEMMA CopiedInMemory ==
  ASSUME NEW w, NEW p, NEW in
  PROVE  /\ IsMemory(CopiedIn(w, p, in))
         /\ \A r \in Part : CopiedIn(w, p, in)[r] =
              IF r \in in THEN copy[latest[p][r]][p][r] ELSE copy[w][p][r]
BY DEF CopiedIn, IsMemory

(* A point after its task.                                                 *)
Evolved(g, evolves) == [g EXCEPT !.allocated = @ \/ evolves]

(* homogenize_fe_one_way writes the point, u_k and, unless the point stays *)
(* linear, vars_k.                                                         *)
LEMMA SolvedMemory ==
  ASSUME NEW m, NEW g, NEW evolves \in BOOLEAN, IsMemory(m), m["gp"] = g, GpOk(g)
  PROVE  /\ IsMemory(Solved(m, evolves))
         /\ Solved(m, evolves)["gp"] = Evolved(g, evolves)
         /\ Solved(m, evolves)[g.u_k] = Append(m[g.u_n], trials)
         /\ Solved(m, evolves)[g.vars_k] =
              IF g.allocated \/ evolves THEN Append(m[g.vars_n], trials) ELSE m[g.vars_k]
         /\ \A r \in Part \ Out(g) : Solved(m, evolves)[r] = m[r]
<1> DEFINE h == Evolved(g, evolves)
           uk == Append(m[g.u_n], trials)
           vk == IF g.allocated \/ evolves THEN Append(m[g.vars_n], trials) ELSE m[g.vars_k]
<1>1. /\ g.u_k \in Part /\ g.vars_k \in Part
      /\ g.u_k # "gp" /\ g.vars_k # "gp" /\ g.u_k # g.vars_k
  BY DEF GpOk, Part
<1>2. Solved(m, evolves) = [[[m EXCEPT !["gp"] = h] EXCEPT ![g.u_k] = uk] EXCEPT ![g.vars_k] = vk]
  BY <1>1 DEF Solved, Evolved
<1> HIDE DEF h, uk, vk
<1>3. \A r \in Part : Solved(m, evolves)[r] =
        IF r = g.vars_k THEN vk ELSE IF r = g.u_k THEN uk ELSE IF r = "gp" THEN h ELSE m[r]
  BY <1>1, <1>2, PartsDiffer DEF IsMemory
<1>4. IsMemory(Solved(m, evolves))
  BY <1>1, <1>2, PartsDiffer DEF IsMemory
<1>. QED
  BY <1>1, <1>3, <1>4, PartsDiffer DEF Out, h, uk, vk

(* The end of a task changes the memory of its node and its point only.    *)
LEMMA EndOfTaskMemory ==
  ASSUME Shape, NEW w \in Worker, NEW p \in Point, NEW c, IsMemory(c), NEW out,
         EndOfTask(w, p, c, out)
  PROVE  /\ copy' = [v \in Worker |-> copy'[v]]
         /\ \A v \in Worker : copy'[v] = [q \in Point |-> copy'[v][q]]
         /\ \A v \in Worker, q \in Point : IsMemory(copy'[v][q])
         /\ latest' \in [Point -> [Part -> Worker]]
         /\ copy'[w][p] = c
         /\ \A v \in Worker, q \in Point : v # w \/ q # p => copy'[v][q] = copy[v][q]
         /\ \A r \in Part : latest'[p][r] = IF r \in out THEN w ELSE latest[p][r]
         /\ \A q \in Point \ {p} : latest'[q] = latest[q]
<1>. USE DEF Shape
<1>1. copy'[w][p] = c
  BY DEF EndOfTask
<1>2. \A v \in Worker, q \in Point : v # w \/ q # p => copy'[v][q] = copy[v][q]
  BY DEF EndOfTask
<1>3. /\ copy' = [v \in Worker |-> copy'[v]]
      /\ \A v \in Worker : copy'[v] = [q \in Point |-> copy'[v][q]]
  BY DEF EndOfTask
<1>4. /\ latest' \in [Point -> [Part -> Worker]]
      /\ \A r \in Part : latest'[p][r] = IF r \in out THEN w ELSE latest[p][r]
      /\ \A q \in Point \ {p} : latest'[q] = latest[q]
  BY DEF EndOfTask
<1>. QED
  BY <1>1, <1>2, <1>3, <1>4

(***************************************************************************)
(* The invariant.                                                          *)
(***************************************************************************)

LEMMA InitInv == ClusterInit => Inv
<1>. SUFFICES ASSUME ClusterInit PROVE Inv
  OBVIOUS
<1>1. Shape
  BY ClusterMemAssumption DEF ClusterInit, Shape, IsMemory, Found, ClusterMemAssumption
<1>2. Coherent
  BY ClusterMemAssumption DEF ClusterInit, Coherent, ClusterMemAssumption
<1>3. HistoriesAsFound
  BY PartsDiffer DEF ClusterInit, HistoriesAsFound, Found
<1>. QED
  BY <1>1, <1>2, <1>3
     DEF ClusterInit, Inv, PointsInitialised, MainSees, Initialised, Constructed

(* taskwait: the points come to the main node, and nothing else moves.     *)
LEMMA BackMemory ==
  ASSUME Shape, PointsAreBack
  PROVE  /\ copy' = [w \in Worker |-> copy'[w]]
         /\ \A w \in Worker : copy'[w] = [p \in Point |-> copy'[w][p]]
         /\ \A w \in Worker, p \in Point : IsMemory(copy'[w][p])
         /\ latest' \in [Point -> [Part -> Worker]]
         /\ \A p \in Point : /\ latest'[p]["gp"] = 0
                             /\ copy'[0][p]["gp"] = copy[latest[p]["gp"]][p]["gp"]
         /\ \A p \in Point, r \in Part \ {"gp"} :
              /\ latest'[p][r] = latest[p][r]
              /\ \A w \in Worker : copy'[w][p][r] = copy[w][p][r]
<1>. USE ClusterMemAssumption, PartsDiffer DEF ClusterMemAssumption, Shape
<1>1. /\ copy' = [w \in Worker |-> copy'[w]]
      /\ \A w \in Worker \ {0} : copy'[w] = copy[w]
      /\ copy'[0] = [p \in Point |-> copy'[0][p]]
  BY DEF PointsAreBack
<1>2. \A p \in Point :
        copy'[0][p] = [copy[0][p] EXCEPT !["gp"] = copy[latest[p]["gp"]][p]["gp"]]
  BY DEF PointsAreBack
<1>3. \A p \in Point :
        /\ IsMemory(copy'[0][p])
        /\ copy'[0][p]["gp"] = copy[latest[p]["gp"]][p]["gp"]
        /\ \A r \in Part \ {"gp"} : copy'[0][p][r] = copy[0][p][r]
  BY <1>2 DEF IsMemory
<1>4. /\ latest' \in [Point -> [Part -> Worker]]
      /\ \A p \in Point : /\ latest'[p]["gp"] = 0
                          /\ \A r \in Part \ {"gp"} : latest'[p][r] = latest[p][r]
  BY DEF PointsAreBack
<1>5. \A w \in Worker, p \in Point :
        /\ IsMemory(copy'[w][p])
        /\ \A r \in Part \ {"gp"} : copy'[w][p][r] = copy[w][p][r]
  <2>. SUFFICES ASSUME NEW w \in Worker, NEW p \in Point
                PROVE  /\ IsMemory(copy'[w][p])
                       /\ \A r \in Part \ {"gp"} : copy'[w][p][r] = copy[w][p][r]
    OBVIOUS
  <2>1. CASE w = 0
    BY <1>3, <2>1
  <2>2. CASE w # 0
    BY <1>1, <2>2
  <2>. QED
    BY <2>1, <2>2
<1>6. \A w \in Worker : copy'[w] = [p \in Point |-> copy'[w][p]]
  BY <1>1
<1>. QED
  BY <1>1, <1>3, <1>4, <1>5, <1>6

LEMMA BackInv ==
  ASSUME Inv, PointsAreBack, UNCHANGED <<one, todo>>, todo = {},
         \/ phase = "init" /\ phase' = "idle"
         \/ phase = "wait" /\ phase' = "solved"
  PROVE  Inv'
<1>. USE BackMemory DEF Inv
<1>1. Shape'
  BY DEF Shape
<1>2. PointsInitialised'
  BY DEF PointsInitialised, Initialised, Constructed
<1>3. Coherent'
  <2>. SUFFICES ASSUME NEW p \in Point, NEW r \in Part
                PROVE  copy'[latest'[p][r]][p][r] = one[p][r]
    BY DEF Coherent
  <2>1. copy[latest[p][r]][p][r] = one[p][r] /\ latest[p][r] \in Worker
    BY DEF Coherent, Shape
  <2>2. CASE r = "gp"
    BY <2>1, <2>2
  <2>3. CASE r # "gp"
    BY <2>1, <2>3
  <2>. QED
    BY <2>2, <2>3
<1>4. MainSees'
  BY DEF MainSees
<1>5. HistoriesAsFound'
  <2>. SUFFICES ASSUME NEW p \in Point, ~one[p]["gp"].allocated, NEW w \in Worker
                PROVE  copy'[w][p]["vars_a"] = <<>> /\ copy'[w][p]["vars_b"] = <<>>
    BY DEF HistoriesAsFound, Constructed
  <2>1. copy[w][p]["vars_a"] = <<>> /\ copy[w][p]["vars_b"] = <<>>
    BY DEF HistoriesAsFound
  <2>. QED
    BY <2>1, PartsDiffer
<1>. QED
  BY <1>1, <1>2, <1>3, <1>4, <1>5

LEMMA InitGpInv ==
  ASSUME Inv, NEW w \in Worker, NEW p \in Point, InitGp(w, p)
  PROVE  Inv'
<1>. USE PartsDiffer DEF Inv
<1> DEFINE c == [copy[w][p] EXCEPT !["gp"] = NewGp, !["u_a"] = <<>>]
<1>1. /\ IsMemory(c)
      /\ c["gp"] = NewGp /\ c["u_a"] = <<>>
      /\ \A r \in Part \ {"gp", "u_a"} : c[r] = copy[w][p][r]
  BY DEF Shape, IsMemory
<1>2. /\ IsMemory(one'[p])
      /\ one'[p]["gp"] = NewGp /\ one'[p]["u_a"] = <<>>
      /\ \A r \in Part \ {"gp", "u_a"} : one'[p][r] = one[p][r]
      /\ one' = [q \in Point |-> one'[q]]
      /\ \A q \in Point \ {p} : one'[q] = one[q]
  BY DEF Shape, IsMemory, InitGp
<1>3. EndOfTask(w, p, c, {"gp", "u_a"}) /\ phase = "init" /\ phase' = "init"
      /\ todo' = todo \ {p}
  BY DEF InitGp, EndOfTask
<1> HIDE DEF c
<1>4. /\ copy' = [v \in Worker |-> copy'[v]]
      /\ \A v \in Worker : copy'[v] = [q \in Point |-> copy'[v][q]]
      /\ \A v \in Worker, q \in Point : IsMemory(copy'[v][q])
      /\ latest' \in [Point -> [Part -> Worker]]
      /\ copy'[w][p] = c
      /\ \A v \in Worker, q \in Point : v # w \/ q # p => copy'[v][q] = copy[v][q]
      /\ \A r \in Part : latest'[p][r] = IF r \in {"gp", "u_a"} THEN w ELSE latest[p][r]
      /\ \A q \in Point \ {p} : latest'[q] = latest[q]
  BY <1>1, <1>3, EndOfTaskMemory
<1>5. Shape'
  BY <1>2, <1>3, <1>4 DEF Shape
<1>6. PointsInitialised'
  <2>1. GpOk(NewGp)
    BY DEF GpOk, NewGp
  <2>2. ASSUME NEW q \in Point, q # p, Initialised(q)' PROVE GpOk(one'[q]["gp"])
    BY <1>2, <1>3, <2>2 DEF PointsInitialised, Initialised, Constructed
  <2>. QED
    BY <1>2, <2>1, <2>2 DEF PointsInitialised
<1>7. Coherent'
  <2>. SUFFICES ASSUME NEW q \in Point, NEW r \in Part
                PROVE  copy'[latest'[q][r]][q][r] = one'[q][r]
    BY DEF Coherent
  <2>1. copy[latest[q][r]][q][r] = one[q][r] /\ latest[q][r] \in Worker
    BY DEF Coherent, Shape
  <2>2. CASE q # p
    BY <1>2, <1>4, <2>1, <2>2
  <2>3. CASE q = p
    <3>1. CASE r \in {"gp", "u_a"}
      BY <1>1, <1>2, <1>4, <2>3, <3>1
    <3>2. CASE r \notin {"gp", "u_a"}
      <4>1. latest'[p][r] = latest[p][r] /\ one'[p][r] = one[p][r] /\ c[r] = copy[w][p][r]
        BY <1>1, <1>2, <1>4, <3>2
      <4>2. \A v \in Worker : copy'[v][p][r] = copy[v][p][r]
        BY <1>4, <4>1
      <4>. QED
        BY <2>1, <2>3, <4>1, <4>2
    <3>. QED
      BY <3>1, <3>2
  <2>. QED
    BY <2>2, <2>3
<1>8. MainSees'
  BY <1>3 DEF MainSees
<1>9. HistoriesAsFound'
  <2>. SUFFICES ASSUME NEW q \in Point, NEW v \in Worker
                PROVE  copy'[v][q]["vars_a"] = <<>> /\ copy'[v][q]["vars_b"] = <<>>
    BY DEF HistoriesAsFound
  <2>1. copy[v][q]["vars_a"] = <<>> /\ copy[v][q]["vars_b"] = <<>>
    BY <1>3 DEF HistoriesAsFound, Constructed
  <2>. QED
    BY <1>1, <1>4, <2>1
<1>. QED
  BY <1>5, <1>6, <1>7, <1>8, <1>9

LEMMA HomogenizeTaskInv ==
  ASSUME Inv, NEW w \in Worker, NEW p \in Point, NEW evolves \in BOOLEAN,
         HomogenizeTask(w, p, evolves)
  PROVE  Inv'
<1>. USE PartsDiffer DEF Inv
<1> DEFINE g == one[p]["gp"]
           m == CopiedIn(w, p, In(g))
           c == Solved(m, evolves)
           s == Solved(one[p], evolves)
\* The main thread spawned the task with the point as it is.
<1>1. phase = "wait" /\ p \in todo /\ copy[0][p]["gp"] = g /\ GpOk(g)
  <2>1. phase = "wait" /\ p \in todo
    BY DEF HomogenizeTask
  <2>2. latest[p]["gp"] = 0
    BY <2>1 DEF MainSees
  <2>. QED
    BY <2>1, <2>2 DEF Coherent, PointsInitialised, Initialised, Constructed
<1>2. /\ EndOfTask(w, p, c, Out(g))
      /\ one' = [one EXCEPT ![p] = s]
      /\ phase' = "wait" /\ trials' = trials /\ todo' = todo \ {p}
  BY <1>1 DEF HomogenizeTask, EndOfTask
\* The task sees what a single memory would hold.
<1>3. /\ IsMemory(m) /\ m["gp"] = g
      /\ \A r \in In(g) : m[r] = one[p][r]
      /\ \A r \in Part \ In(g) : m[r] = copy[w][p][r]
      /\ g.u_n \in Part /\ g.vars_n \in Part /\ g.u_k \in Part /\ g.vars_k \in Part
      /\ g.vars_k \notin In(g) /\ Part = In(g) \cup Out(g)
  <2>1. /\ g.u_n \in Part /\ g.vars_n \in Part /\ g.u_k \in Part /\ g.vars_k \in Part
        /\ g.vars_k \notin In(g) /\ Part = In(g) \cup Out(g)
    BY <1>1 DEF GpOk, Part, In, Out
  <2>2. "gp" \in In(g) /\ In(g) \subseteq Part
    BY <2>1 DEF In
  <2>. QED
    BY <2>1, <2>2, CopiedInMemory DEF Coherent
<1> DEFINE h == Evolved(g, evolves)
<1>4. /\ IsMemory(c)
      /\ c["gp"] = h
      /\ c[g.u_k] = Append(m[g.u_n], trials)
      /\ c[g.vars_k] = IF g.allocated \/ evolves THEN Append(m[g.vars_n], trials)
                                                 ELSE m[g.vars_k]
      /\ \A r \in Part \ Out(g) : c[r] = m[r]
  <2>. HIDE DEF m, g
  <2>. QED
    BY <1>1, <1>3, SolvedMemory
<1>5. /\ IsMemory(s)
      /\ s["gp"] = h
      /\ s[g.u_k] = Append(one[p][g.u_n], trials)
      /\ s[g.vars_k] = IF g.allocated \/ evolves THEN Append(one[p][g.vars_n], trials)
                                                 ELSE one[p][g.vars_k]
      /\ \A r \in Part \ Out(g) : s[r] = one[p][r]
  <2>1. IsMemory(one[p]) /\ one[p]["gp"] = g
    BY DEF Shape
  <2>. HIDE DEF g
  <2>. QED
    BY <1>1, <2>1, SolvedMemory
<1> HIDE DEF m, c, s, h
\* What a point that has stayed linear leaves unwritten nobody has written.
<1>6. ~g.allocated => /\ copy[w][p][g.vars_k] = <<>> /\ one[p][g.vars_k] = <<>>
                      /\ one[p][g.vars_n] = <<>>
  <2>. SUFFICES ASSUME ~g.allocated
                PROVE  /\ copy[w][p][g.vars_k] = <<>> /\ one[p][g.vars_k] = <<>>
                       /\ one[p][g.vars_n] = <<>>
    OBVIOUS
  <2>1. \A v \in Worker : copy[v][p]["vars_a"] = <<>> /\ copy[v][p]["vars_b"] = <<>>
    BY DEF HistoriesAsFound
  <2>2. \A r \in {"vars_a", "vars_b"} :
          /\ \A v \in Worker : copy[v][p][r] = <<>>
          /\ one[p][r] = <<>>
    BY <2>1 DEF Coherent, Shape
  <2>3. g.vars_k \in {"vars_a", "vars_b"} /\ g.vars_n \in {"vars_a", "vars_b"}
    BY <1>1 DEF GpOk
  <2>. QED
    BY <2>2, <2>3
<1>7. \A r \in Part : c[r] = s[r]
  <2>1. c[g.u_k] = s[g.u_k]
    BY <1>3, <1>4, <1>5 DEF In
  <2>2. CASE g.allocated \/ evolves
    <3>1. c[g.vars_k] = s[g.vars_k]
      BY <1>3, <1>4, <1>5, <2>2, ZenonT(60) DEF In
    <3>. QED
      BY <1>3, <1>4, <1>5, <2>1, <3>1 DEF Out
  <2>3. CASE ~g.allocated /\ ~evolves
    <3>1. c[g.vars_k] = s[g.vars_k]
      BY <1>3, <1>4, <1>5, <1>6, <2>3
    <3>. QED
      BY <1>3, <1>4, <1>5, <2>1, <3>1 DEF Out
  <2>. QED
    BY <2>2, <2>3
<1>8. /\ copy' = [v \in Worker |-> copy'[v]]
      /\ \A v \in Worker : copy'[v] = [q \in Point |-> copy'[v][q]]
      /\ \A v \in Worker, q \in Point : IsMemory(copy'[v][q])
      /\ latest' \in [Point -> [Part -> Worker]]
      /\ copy'[w][p] = c
      /\ \A v \in Worker, q \in Point : v # w \/ q # p => copy'[v][q] = copy[v][q]
      /\ \A r \in Part : latest'[p][r] = IF r \in Out(g) THEN w ELSE latest[p][r]
      /\ \A q \in Point \ {p} : latest'[q] = latest[q]
  BY <1>2, <1>4, EndOfTaskMemory
<1>9. /\ one' = [q \in Point |-> one'[q]]
      /\ one'[p] = s
      /\ \A q \in Point \ {p} : one'[q] = one[q]
  BY <1>2 DEF Shape
<1>10. Shape'
  BY <1>2, <1>5, <1>8, <1>9 DEF Shape
<1>11. PointsInitialised'
  <2>1. GpOk(h)
    BY <1>1 DEF GpOk, Evolved, h
  <2>. QED
    BY <1>1, <1>5, <1>9, <2>1 DEF PointsInitialised, Initialised, Constructed
<1>12. Coherent'
  <2>. SUFFICES ASSUME NEW q \in Point, NEW r \in Part
                PROVE  copy'[latest'[q][r]][q][r] = one'[q][r]
    BY DEF Coherent
  <2>1. copy[latest[q][r]][q][r] = one[q][r] /\ latest[q][r] \in Worker
    BY DEF Coherent, Shape
  <2>2. CASE q # p
    BY <1>8, <1>9, <2>1, <2>2
  <2>3. CASE q = p /\ r \in Out(g)
    BY <1>7, <1>8, <1>9, <2>3
  <2>4. CASE q = p /\ r \notin Out(g)
    <3>1. latest'[p][r] = latest[p][r] /\ one'[p][r] = one[p][r] /\ c[r] = one[p][r]
      BY <1>5, <1>7, <1>8, <1>9, <2>4
    <3>2. CASE latest[p][r] = w
      BY <1>8, <2>4, <3>1, <3>2
    <3>3. CASE latest[p][r] # w
      BY <1>8, <2>1, <2>4, <3>1, <3>3
    <3>. QED
      BY <3>2, <3>3
  <2>. QED
    BY <2>2, <2>3, <2>4
<1>13. MainSees'
  BY <1>1, <1>2, <1>8 DEF MainSees
<1>14. HistoriesAsFound'
  <2>. SUFFICES ASSUME NEW q \in Point, ~one'[q]["gp"].allocated, NEW v \in Worker
                PROVE  copy'[v][q]["vars_a"] = <<>> /\ copy'[v][q]["vars_b"] = <<>>
    BY <1>1, <1>2 DEF HistoriesAsFound, Constructed
  <2>1. CASE q # p
    <3>1. ~one[q]["gp"].allocated
      BY <1>9, <2>1
    <3>. QED
      BY <1>8, <2>1, <3>1, ZenonT(60) DEF HistoriesAsFound
  <2>2. CASE q = p
    <3>1. ~g.allocated /\ ~evolves
      BY <1>1, <1>5, <1>9, <2>2 DEF GpOk, Evolved, h
    <3>2. copy[v][q]["vars_a"] = <<>> /\ copy[v][q]["vars_b"] = <<>>
      BY <2>2, <3>1 DEF HistoriesAsFound
    <3>3. c[g.vars_k] = <<>> /\ c[g.vars_n] = <<>>
      BY <1>1, <1>3, <1>4, <1>6, <3>1 DEF In, Out, GpOk
    <3>4. {"vars_a", "vars_b"} = {g.vars_n, g.vars_k}
      BY <1>1 DEF GpOk
    <3>5. c["vars_a"] = <<>> /\ c["vars_b"] = <<>>
      BY <3>3, <3>4
    <3>. QED
      BY <1>8, <2>2, <3>2, <3>5
  <2>. QED
    BY <2>1, <2>2
<1>. QED
  BY <1>10, <1>11, <1>12, <1>13, <1>14

LEMMA UpdateVarsInv == Inv /\ UpdateVars => Inv'
<1>. SUFFICES ASSUME Inv, UpdateVars PROVE Inv'
  OBVIOUS
<1>. USE PartsDiffer, ClusterMemAssumption DEF Inv, ClusterMemAssumption
<1>1. phase = "solved" /\ phase' = "idle" /\ UNCHANGED <<latest, todo>>
  BY DEF UpdateVars
<1>2. \A p \in Point : latest[p]["gp"] = 0 /\ copy[0][p]["gp"] = one[p]["gp"]
  BY <1>1 DEF MainSees, Coherent
<1>3. \A p \in Point :
        /\ IsMemory(one'[p]) /\ one'[p]["gp"] = Swapped(one[p]["gp"])
        /\ \A r \in Part \ {"gp"} : one'[p][r] = one[p][r]
  BY DEF UpdateVars, SwappedAll, Shape, IsMemory
<1>4. \A p \in Point :
        /\ IsMemory(copy'[0][p]) /\ copy'[0][p]["gp"] = Swapped(copy[0][p]["gp"])
        /\ \A r \in Part \ {"gp"} : copy'[0][p][r] = copy[0][p][r]
  BY DEF UpdateVars, SwappedAll, Shape, IsMemory
<1>5. /\ one' = [p \in Point |-> one'[p]]
      /\ copy' = [w \in Worker |-> copy'[w]]
      /\ copy'[0] = [p \in Point |-> copy'[0][p]]
      /\ \A w \in Worker \ {0} : copy'[w] = copy[w]
  BY DEF UpdateVars, SwappedAll, Shape
<1>6. \A w \in Worker, p \in Point, r \in Part \ {"gp"} : copy'[w][p][r] = copy[w][p][r]
  <2>. SUFFICES ASSUME NEW w \in Worker, NEW p \in Point, NEW r \in Part \ {"gp"}
                PROVE  copy'[w][p][r] = copy[w][p][r]
    OBVIOUS
  <2>1. CASE w = 0
    BY <1>4, <2>1
  <2>2. CASE w # 0
    BY <1>5, <2>2
  <2>. QED
    BY <2>1, <2>2
<1>7. Shape'
  <2>1. \A w \in Worker : /\ copy'[w] = [p \in Point |-> copy'[w][p]]
                          /\ \A p \in Point : IsMemory(copy'[w][p])
    <3>. SUFFICES ASSUME NEW w \in Worker
                  PROVE  /\ copy'[w] = [p \in Point |-> copy'[w][p]]
                         /\ \A p \in Point : IsMemory(copy'[w][p])
      OBVIOUS
    <3>1. CASE w = 0
      BY <1>4, <1>5, <3>1
    <3>2. CASE w # 0
      BY <1>5, <3>2 DEF Shape
    <3>. QED
      BY <3>1, <3>2
  <2>. QED
    BY <1>1, <1>3, <1>5, <2>1 DEF Shape
<1>8. PointsInitialised'
  <2>1. \A p \in Point : GpOk(one[p]["gp"])
    BY <1>1 DEF PointsInitialised, Initialised, Constructed
  <2>2. \A g : GpOk(g) => GpOk(Swapped(g))
    BY DEF GpOk, Swapped
  <2>. QED
    BY <1>3, <2>1, <2>2 DEF PointsInitialised
<1>9. Coherent'
  <2>. SUFFICES ASSUME NEW p \in Point, NEW r \in Part
                PROVE  copy'[latest[p][r]][p][r] = one'[p][r]
    BY <1>1 DEF Coherent
  <2>1. copy[latest[p][r]][p][r] = one[p][r] /\ latest[p][r] \in Worker
    BY DEF Coherent, Shape
  <2>2. CASE r = "gp"
    BY <1>2, <1>3, <1>4, <2>2
  <2>3. CASE r # "gp"
    BY <1>3, <1>6, <2>1, <2>3
  <2>. QED
    BY <2>2, <2>3
<1>10. MainSees'
  BY <1>1 DEF MainSees
<1>11. HistoriesAsFound'
  <2>1. \A p \in Point : GpOk(one[p]["gp"])
    BY <1>1 DEF PointsInitialised, Initialised, Constructed
  <2>2. \A p \in Point : one'[p]["gp"].allocated = one[p]["gp"].allocated
    BY <1>3, <2>1, ZenonT(60) DEF GpOk, Swapped
  <2>. QED
    BY <1>1, <1>6, <2>2 DEF HistoriesAsFound, Constructed
<1>. QED
  BY <1>7, <1>8, <1>9, <1>10, <1>11

LEMMA StepInv == Inv /\ [ClusterNext]_<<vars, clusterVars>> => Inv'
<1>. SUFFICES ASSUME Inv, [ClusterNext]_<<vars, clusterVars>> PROVE Inv'
  OBVIOUS
<1>. USE DEF Inv
<1>1. CASE UNCHANGED clusterVars
  BY <1>1 DEF clusterVars, memory, Shape, IsMemory, PointsInitialised, Initialised,
              Constructed, Coherent, MainSees, HistoriesAsFound
<1>2. CASE MakeTable
  BY <1>1, <1>2 DEF MakeTable
<1>3. CASE TableMade
  BY <1>3 DEF TableMade, memory, Shape, IsMemory, PointsInitialised, Initialised,
              Constructed, Coherent, MainSees, HistoriesAsFound
<1>4. CASE PointsMade
  BY <1>4, BackInv DEF PointsMade
<1>5. CASE Homogenize
  <2>1. /\ phase \in {"idle", "solved"} /\ phase' = "wait" /\ todo' = Point
        /\ UNCHANGED memory
    BY <1>5 DEF Homogenize
  <2>. QED
    BY <2>1 DEF memory, Shape, IsMemory, PointsInitialised, Initialised,
                Constructed, Coherent, MainSees, HistoriesAsFound
<1>6. CASE Taskwaited
  BY <1>6, BackInv DEF Taskwaited
<1>7. CASE UpdateVars
  BY <1>7, UpdateVarsInv
<1>8. ASSUME NEW w \in Worker, NEW p \in Point, InitGp(w, p) PROVE Inv'
  BY <1>8, InitGpInv
<1>9. ASSUME NEW w \in Worker, NEW p \in Point, NEW evolves \in BOOLEAN,
             HomogenizeTask(w, p, evolves)
      PROVE  Inv'
  BY <1>9, HomogenizeTaskInv
<1>. QED
  BY <1>1, <1>2, <1>3, <1>4, <1>5, <1>6, <1>7, <1>8, <1>9 DEF ClusterNext, clusterVars

(***************************************************************************)
(* Theorems.                                                               *)
(***************************************************************************)

(* The invariant holds for every number of points and of cluster nodes,    *)
(* wherever the runtime places each task.                                  *)
THEOREM ClusterInvariance == ClusterSpec => []Inv
BY InitInv, StepInv, PTL DEF ClusterSpec

(* The copies of the nodes amount to one memory, although tasks declare    *)
(* out(vars_k) and leave it unwritten: homogenize.cpp:127-138.             *)
THEOREM OneMemory == ClusterSpec => []ClusterIsOneMemory
<1>1. Inv => ClusterIsOneMemory
  BY PartsDiffer DEF Inv, ClusterIsOneMemory, Coherent, MainSees
<1>. QED
  BY <1>1, ClusterInvariance, PTL

(* The histories of a point that has stayed linear are as they were found, *)
(* on every node: homogenize_fe_one_way writes them for no such point.     *)
THEOREM LinearStaysAsFound == ClusterSpec => []LinearIsAsFound
<1>1. Inv => LinearIsAsFound
  BY DEF Inv, LinearIsAsFound, HistoriesAsFound
<1>. QED
  BY <1>1, ClusterInvariance, PTL

(* Whatever the cluster does besides, the table is made as EllCols says,   *)
(* and what is proved of it there is true of the constructor here.         *)
THEOREM TableOfCluster == ClusterSpec => Spec
<1>1. ClusterInit => Init
  BY DEF ClusterInit
<1>2. [ClusterNext]_<<vars, clusterVars>> => [Next]_vars
  BY DEF ClusterNext, MakeTable, TableMade, PointsMade, Homogenize, Taskwaited,
         UpdateVars, InitGp, HomogenizeTask
<1>. QED
  BY <1>1, <1>2, PTL DEF ClusterSpec, Spec

(* In particular, ell_init_cols leaves a complete table that its users can *)
(* rely on, written by tasks with regions apart.                           *)
COROLLARY ClusterTable ==
  ClusterSpec => []RegionsDisjoint /\ TableComplete /\ UsersFindTheirColumns
BY TableOfCluster, RegionsAreDisjoint, TableIsComplete, UsersAreServed

=============================================================================
