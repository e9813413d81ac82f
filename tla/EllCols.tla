------------------------------ MODULE EllCols ------------------------------
(***************************************************************************)
(* How the column table of the sparse matrices is made: ell_init_cols of   *)
(* src/ell-common.cpp in three dimensions.  The main thread shares out the *)
(* nz planes of the grid among the cluster nodes (distribute of            *)
(* include/util.hpp), spawns for each of them a task that writes its slice *)
(* of the table, and waits for them.  The table is made once, shared by    *)
(* the matrices of all the Gauss points and never written again; what is   *)
(* asked of it is that it agrees with the slots ell_add_3D adds into and   *)
(* the diagonal slot ell_set_bc_3D uses.                                   *)
(***************************************************************************)
EXTENDS Grid

CONSTANT
  NodesNr  \* the numbers of cluster nodes considered

ASSUME EllAssumption == NodesNr \subseteq Nat \ {0}

(* A row of the table: a neighbour outside the grid counts as column 0.    *)
Row(n) == [s \in Slot |-> IF Neighbour(n, s) \in GridNode
                            THEN Index(Neighbour(n, s)) ELSE 0]

(* What rrd_malloc leaves there.                                           *)
Unwritten == [s \in Slot |-> -1]

VARIABLES
  nodes,          \* nodes of the cluster, get_nodes_nr()
  pc,             \* the main thread: "distribute", "spawn" or "returned"
  i,              \* its loop counter
  cum,            \* distribute: planes given out so far
  start, nelems,  \* l_start, l_sizes
  running,        \* tasks spawned and not ended
  next,           \* zi of each task
  cols            \* the table

vars == <<nodes, pc, i, cum, start, nelems, running, next, cols>>

Task == 0 .. nodes - 1

Init ==
  /\ nodes \in NodesNr
  /\ pc = "distribute"
  /\ i = 0
  /\ cum = 0
  /\ start = [t \in Task |-> 0]
  /\ nelems = [t \in Task |-> 0]
  /\ running = {}
  /\ next = [t \in Task |-> 0]
  /\ cols = [n \in GridNode |-> Unwritten]

(***************************************************************************)
(* distribute(nz, nodes, l_start, l_sizes): one plane more for the first   *)
(* nz mod nodes of them.                                                   *)
(***************************************************************************)

Frac == nz \div nodes
Mod == nz - Frac * nodes

(* Mutant: the comparison is off by one.                                   *)
ShareOffByOne(t) == IF t <= Mod THEN Frac + 1 ELSE Frac

Share(t) == IF t < Mod THEN Frac + 1 ELSE Frac

Distribute ==
  /\ pc = "distribute"
  /\ i < nodes
  /\ nelems' = [nelems EXCEPT ![i] = Share(i)]
  /\ start' = [start EXCEPT ![i] = cum]
  /\ cum' = cum + Share(i)
  /\ i' = i + 1
  /\ UNCHANGED <<nodes, pc, running, next, cols>>

Distributed ==
  /\ pc = "distribute"
  /\ i = nodes
  /\ pc' = "spawn"
  /\ i' = 0
  /\ UNCHANGED <<nodes, cum, start, nelems, running, next, cols>>

(***************************************************************************)
(* The tasks, each with out(cols[slice * start; slice * size]).            *)
(***************************************************************************)

Spawn ==
  /\ pc = "spawn"
  /\ i < nodes
  /\ running' = running \cup {i}
  /\ next' = [next EXCEPT ![i] = start[i]]
  /\ i' = i + 1
  /\ UNCHANGED <<nodes, pc, cum, start, nelems, cols>>

End(t) == start[t] + nelems[t]

WritePlane(t) ==
  /\ t \in running
  /\ next[t] < End(t)
  /\ cols' = [n \in GridNode |-> IF n[3] = next[t] THEN Row(n) ELSE cols[n]]
  /\ next' = [next EXCEPT ![t] = @ + 1]
  /\ UNCHANGED <<nodes, pc, i, cum, start, nelems, running>>

(* Mutant: the loop of the task stops one plane short.                     *)
EndTaskEarly(t) ==
  /\ t \in running
  /\ next[t] + 1 >= End(t)
  /\ running' = running \ {t}
  /\ UNCHANGED <<nodes, pc, i, cum, start, nelems, next, cols>>

EndTask(t) ==
  /\ t \in running
  /\ next[t] = End(t)
  /\ running' = running \ {t}
  /\ UNCHANGED <<nodes, pc, i, cum, start, nelems, next, cols>>

Taskwait ==
  /\ pc = "spawn"
  /\ i = nodes
  /\ running = {}
  /\ pc' = "returned"
  /\ UNCHANGED <<nodes, i, cum, start, nelems, running, next, cols>>

Main == Distribute \/ Distributed \/ Spawn \/ Taskwait

Next == Main \/ \E t \in Task : WritePlane(t) \/ EndTask(t)

Spec == Init /\ [][Next]_vars

(***************************************************************************)
(* Properties.                                                             *)
(***************************************************************************)

Region(t) == {z \in Plane : start[t] <= z /\ z < End(t)}

(* The slices given to the tasks are in the table and apart: the runtime   *)
(* orders none of them after another, and no two write the same rows.      *)
RegionsDisjoint ==
  \A t, s \in running :
    End(t) <= nz /\ (t # s => Region(t) \cap Region(s) = {})

TableReturned == pc # "returned" /\ pc' = "returned"

(* When ell_init_cols returns, every row is written, whatever the order    *)
(* the tasks ran in: distribute has left no plane without a task.          *)
TableComplete == [][TableReturned => \A n \in GridNode : cols'[n] = Row(n)]_vars

(* The users of the table find in it what they take for granted: the slot  *)
(* ell_add_3D adds an element's (a, b) entry into is the column of node b  *)
(* (so that no absent neighbour's slot, which points at column 0, is ever  *)
(* added into), and the slot ell_set_bc_3D sets to 1 is the diagonal.      *)
UsersFindTheirColumns ==
  [][TableReturned =>
       /\ \A e \in Element, a, b \in 1 .. 8 :
            cols'[Corner(e, a)][ColsRow[a][b]] = Index(Corner(e, b))
       /\ \A n \in GridNode : cols'[n][Shift] = Index(n)]_vars
=============================================================================
