----------------------------- MODULE ClusterMem -----------------------------
(***************************************************************************)
(* The memory of a cluster, in the nanos6 build: each cluster node has a   *)
(* copy of every region, and what a task sees is what its accesses say.    *)
(* The constructor of micropp has the column table made (EllCols) and the  *)
(* points initialised by tasks; then homogenize() spawns a task for each   *)
(* FE_ONE_WAY point and waits, again and again, and update_vars() swaps    *)
(* the buffers.  A task may run on any node.  What is asked is that this   *)
(* computes what one memory would.                                         *)
(*                                                                         *)
(* The runtime is external: before a task runs, the regions it reads are   *)
(* copied to its node from the node that wrote them last, and when it ends *)
(* its node is the one that wrote its out and inout regions last, whether  *)
(* it wrote them or not; after a taskwait memory from rrl_malloc, the      *)
(* points, is back at the main node, and that from rrd_malloc is not.      *)
(*                                                                         *)
(* Data.  A buffer holds the trials that led to its contents, the oldest   *)
(* first.  The table, elem_type, the materials and the object itself are   *)
(* written before the first homogenize() and read ever after: a copy of    *)
(* them is never out of date, and their accesses are left out.             *)
(***************************************************************************)
EXTENDS EllCols, Sequences

CONSTANTS
  Point,      \* FE_ONE_WAY points
  Worker,     \* the cluster nodes whose memory is followed; 0 is the main one
  MaxTrials   \* bound: calls of homogenize()

ASSUME ClusterMemAssumption ==
  /\ \A n \in NodesNr : Worker \subseteq 0 .. n - 1
  /\ 0 \in Worker
  /\ MaxTrials \in Nat

Part == {"gp", "u_a", "u_b", "vars_a", "vars_b"}

VARIABLES
  copy,      \* the parts of each point on each node
  latest,    \* the node that wrote a part last
  one,       \* what a single memory would contain
  todo,      \* points whose task has not run yet
  phase,     \* the main thread: "table", "init", "idle", "wait" or "solved"
  trials     \* calls of homogenize()

memory == <<copy, latest, one>>
clusterVars == <<memory, todo, phase, trials>>

(* A point as gp_t::init leaves it.                                        *)
NewGp == [allocated |-> FALSE, u_n |-> "u_a", u_k |-> "u_b",
          vars_n |-> "vars_a", vars_k |-> "vars_b"]

(* What is found in memory nobody has written: new pages on every node.    *)
Found == [r \in Part |-> <<>>]

ClusterInit ==
  /\ Init
  /\ copy = [w \in Worker |-> [p \in Point |-> Found]]
  /\ latest = [p \in Point |-> [r \in Part |-> 0]]
  /\ one = [p \in Point |-> Found]
  /\ todo = {} /\ phase = "table" /\ trials = 0

(***************************************************************************)
(* The runtime.                                                            *)
(***************************************************************************)

(* What node w has of point p when a task with these accesses starts.      *)
CopiedIn(w, p, in) ==
  [r \in Part |-> IF r \in in THEN copy[latest[p][r]][p][r] ELSE copy[w][p][r]]

(* The task of point p has run on node w and left this there.              *)
EndOfTask(w, p, contents, out) ==
  /\ copy' = [copy EXCEPT ![w][p] = contents]
  /\ latest' = [latest EXCEPT ![p] = [r \in Part |-> IF r \in out THEN w ELSE @[r]]]
  /\ todo' = todo \ {p}

(* taskwait.                                                               *)
PointsAreBack ==
  /\ copy' = [copy EXCEPT ![0] =
       [p \in Point |-> [@[p] EXCEPT !["gp"] = copy[latest[p]["gp"]][p]["gp"]]]]
  /\ latest' = [p \in Point |-> [latest[p] EXCEPT !["gp"] = 0]]

(***************************************************************************)
(* The constructor.                                                        *)
(***************************************************************************)

(* ell_init_cols; when it has returned, the init_gp tasks are spawned.     *)
MakeTable == phase = "table" /\ Next /\ UNCHANGED clusterVars

TableMade ==
  /\ phase = "table" /\ pc = "returned"
  /\ phase' = "init" /\ todo' = Point
  /\ UNCHANGED <<vars, memory, trials>>

(* init_gp, with out(tpgp[0]) out(tpu_n[0;nndim]).                         *)
InitGp(w, p) ==
  /\ phase = "init" /\ p \in todo
  /\ EndOfTask(w, p, [copy[w][p] EXCEPT !["gp"] = NewGp, !["u_a"] = <<>>], {"gp", "u_a"})
  /\ one' = [one EXCEPT ![p]["gp"] = NewGp, ![p]["u_a"] = <<>>]
  /\ UNCHANGED <<vars, phase, trials>>

PointsMade ==
  /\ phase = "init" /\ todo = {}
  /\ PointsAreBack
  /\ phase' = "idle"
  /\ UNCHANGED <<vars, one, todo, trials>>

(***************************************************************************)
(* homogenize() and update_vars().                                         *)
(***************************************************************************)

Homogenize ==
  /\ phase \in {"idle", "solved"} /\ trials < MaxTrials
  /\ trials' = trials + 1
  /\ phase' = "wait" /\ todo' = Point
  /\ UNCHANGED <<vars, memory>>

(* Mutant: in(tpvars_n[0; tnvars]) is forgotten.                           *)
InWithoutVars(g) == {"gp", g.u_n}

(* The accesses of the task to the buffers of a point, and to the point.   *)
In(g) == {"gp", g.u_n, g.vars_n}

Out(g) == {"gp", g.u_k, g.vars_k}

(* Mutant: vars_new is vars_k from the beginning.                          *)
SolvedInPlace(m, evolves) ==
  LET g == m["gp"]
  IN  [m EXCEPT !["gp"].allocated = @ \/ evolves,
                ![g.u_k] = Append(m[g.u_n], trials),
                ![g.vars_k] = Append(m[g.vars_n], trials)]

(* What homogenize_fe_one_way makes of the memory m it sees: u_k from u_n, *)
(* and vars_k from vars_n if the point is or becomes non-linear.           *)
Solved(m, evolves) ==
  LET g == m["gp"]
  IN  [m EXCEPT !["gp"].allocated = @ \/ evolves,
                ![g.u_k] = Append(m[g.u_n], trials),
                ![g.vars_k] = IF g.allocated \/ evolves THEN Append(m[g.vars_n], trials) ELSE @]

HomogenizeTask(w, p, evolves) ==
  LET g == copy[0][p]["gp"]   \* the point as the main thread spawned the task
  IN  /\ phase = "wait" /\ p \in todo
      /\ EndOfTask(w, p, Solved(CopiedIn(w, p, In(g)), evolves), Out(g))
      /\ one' = [one EXCEPT ![p] = Solved(@, evolves)]
      /\ UNCHANGED <<vars, phase, trials>>

Taskwaited ==
  /\ phase = "wait" /\ todo = {}
  /\ PointsAreBack
  /\ phase' = "solved"
  /\ UNCHANGED <<vars, one, todo, trials>>

Swapped(g) == [g EXCEPT !.u_n = g.u_k, !.u_k = g.u_n, !.vars_n = g.vars_k, !.vars_k = g.vars_n]

SwappedAll(points) == [p \in Point |-> [points[p] EXCEPT !["gp"] = Swapped(@)]]

(* update_vars(), by the main thread.                                      *)
UpdateVars ==
  /\ phase = "solved"
  /\ copy' = [copy EXCEPT ![0] = SwappedAll(copy[0])]
  /\ one' = SwappedAll(one)
  /\ phase' = "idle"
  /\ UNCHANGED <<vars, latest, todo, trials>>

ClusterNext ==
  \/ MakeTable \/ TableMade \/ PointsMade
  \/ Homogenize \/ Taskwaited \/ UpdateVars
  \/ \E w \in Worker, p \in Point :
       InitGp(w, p) \/ \E evolves \in BOOLEAN : HomogenizeTask(w, p, evolves)

ClusterSpec == ClusterInit /\ [][ClusterNext]_<<vars, clusterVars>>

(***************************************************************************)
(* Properties.                                                             *)
(***************************************************************************)

(* Wherever the tasks ran, the latest copy of every part is what a single  *)
(* memory would contain, although out(vars_k) is declared by tasks that    *)
(* leave vars_k unwritten; and between its calls the main thread, which    *)
(* has no accesses, sees the points as they are.                           *)
ClusterIsOneMemory ==
  /\ \A p \in Point, r \in Part : copy[latest[p][r]][p][r] = one[p][r]
  /\ phase \in {"idle", "solved"} => \A p \in Point : copy[0][p]["gp"] = one[p]["gp"]

(* What makes that so: both histories of a point that has stayed linear    *)
(* are still as found, on every node, so that it does not matter whose     *)
(* copy is taken for the latest.                                           *)
LinearIsAsFound ==
  phase \in {"idle", "wait", "solved"} =>
    \A p \in Point : ~one[p]["gp"].allocated =>
      \A w \in Worker : copy[w][p]["vars_a"] = <<>> /\ copy[w][p]["vars_b"] = <<>>
=============================================================================
