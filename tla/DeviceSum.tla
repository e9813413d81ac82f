----------------------------- MODULE DeviceSum -----------------------------
(***************************************************************************)
(* How the CUDA solver adds up numbers: the kernels ell_mvp_kernel,        *)
(* dot_prod_kernel and reduce of src/cuda/ell.cu, in the order in which an *)
(* iteration of its conjugate gradient launches them to obtain p . Ap.     *)
(* Kernels of one stream follow one another; the threads of a kernel run   *)
(* in any order, ordered only by __syncthreads.                            *)
(*                                                                         *)
(* Data.  A number is the bag of the terms that have been added into it,   *)
(* so that a term left out, or added twice, shows.  A term is <<r, j>>:    *)
(* column j of row r of the matrix, or <<i, 0>>, component i of the two    *)
(* vectors.                                                                *)
(***************************************************************************)
EXTENDS Integers, Bags

CONSTANTS
  nrow, nnz,               \* of the matrix
  grid_mvp, block_mvp,     \* launch configuration of ell_mvp_kernel
  grid_dot, block_dot,     \* of dot_prod_kernel
  block_red                \* of reduce, and the 1024 its last loop counts to

PowersOfTwo == {1, 2, 4, 8, 16, 32, 64, 128, 256, 512, 1024}

(* A launch covers the data it is for.                                     *)
LaunchesFit ==
  /\ nrow \in Nat /\ nnz \in Nat
  /\ grid_mvp \in Nat \ {0} /\ block_mvp \in PowersOfTwo /\ nnz <= block_mvp
  /\ grid_dot \in Nat \ {0} /\ block_dot \in PowersOfTwo
  /\ nrow <= grid_dot * block_dot
  /\ block_red \in PowersOfTwo

VARIABLES
  kernel,   \* the kernel that runs: "mvp", "dot", "reduce"; or "read", when
            \* the host has copied the result
  pc,       \* of each thread <<block, lane>>: "row", "sync", "tree", "clear",
            \* "gather", "total" or "done"
  row,      \* the row (mvp) or the block (dot) a thread works for
  s,        \* the distance in the tree, or the counter of a loop
  cache,    \* shared memory of each block: cache, sdata
  Ap_d, g_res_d, res_d

vars == <<kernel, pc, row, s, cache, Ap_d, g_res_d, res_d>>

Grid(k) == CASE k = "mvp" -> grid_mvp [] k = "dot" -> grid_dot [] OTHER -> 1
Block(k) == CASE k = "mvp" -> block_mvp [] k = "dot" -> block_dot [] OTHER -> block_red

Blocks == 0 .. Grid(kernel) - 1
Lanes == 0 .. Block(kernel) - 1
Thread == Blocks \X Lanes

(* What is found in memory nobody has written.                             *)
Junk == SetToBag({<<-1, -1>>})

(* A kernel starts with its threads at a label; shared memory is as found. *)
Starting(k, label) ==
  LET T == (0 .. Grid(k) - 1) \X (0 .. Block(k) - 1)
  IN  [kernel |-> k, pc |-> [t \in T |-> label], row |-> [t \in T |-> t[1]],
       s |-> [t \in T |-> t[2]], cache |-> [t \in T |-> Junk]]

Init ==
  LET start == Starting("mvp", "row")
  IN  /\ kernel = start.kernel /\ pc = start.pc /\ row = start.row
      /\ s = start.s /\ cache = start.cache
      /\ Ap_d = [r \in 0 .. nrow - 1 |-> Junk]
      /\ g_res_d = [b \in 0 .. grid_dot - 1 |-> Junk]
      /\ res_d = Junk

Launch(k, label) ==
  LET start == Starting(k, label)
  IN  /\ kernel' = start.kernel /\ pc' = start.pc /\ row' = start.row
      /\ s' = start.s /\ cache' = start.cache

(***************************************************************************)
(* ell_mvp_kernel and dot_prod_kernel: a tree in the shared memory of each *)
(* block.                                                                  *)
(***************************************************************************)

(* The term a thread brings: a column of the row, a component; lanes past  *)
(* the end of them bring nothing.                                          *)
Term(t) ==
  IF kernel = "mvp"
    THEN IF t[2] < nnz THEN SetToBag({<<row[t], t[2]>>}) ELSE EmptyBag
    ELSE LET it == t[2] + block_dot * t[1]
         IN  IF it < nrow THEN SetToBag({<<it, 0>>}) ELSE EmptyBag

(* A thread puts its term into shared memory and arrives at the barrier.   *)
LoadTerm(t) ==
  /\ pc[t] = "row"
  /\ kernel = "mvp" => row[t] < nrow
  /\ cache' = [cache EXCEPT ![t] = Term(t)]
  /\ s' = [s EXCEPT ![t] = 1]
  /\ pc' = [pc EXCEPT ![t] = "sync"]
  /\ UNCHANGED <<kernel, row, Ap_d, g_res_d, res_d>>

(* The loop over the rows ends.                                            *)
NoMoreRows(t) ==
  /\ pc[t] = "row"
  /\ kernel = "mvp" /\ row[t] >= nrow
  /\ pc' = [pc EXCEPT ![t] = "done"]
  /\ UNCHANGED <<kernel, row, s, cache, Ap_d, g_res_d, res_d>>

(* __syncthreads: the threads of a block go on when all have arrived.      *)
Syncthreads(b) ==
  /\ \A l \in Lanes : pc[<<b, l>>] = "sync"
  /\ pc' = [t \in Thread |-> IF t[1] = b THEN "tree" ELSE pc[t]]
  /\ UNCHANGED <<kernel, row, s, cache, Ap_d, g_res_d, res_d>>

(* A level of the tree: a thread whose turn it is adds the number s lanes  *)
(* further on to its own; all arrive at the barrier.                       *)
AddPair(t) ==
  /\ pc[t] = "tree"
  /\ s[t] < Block(kernel)
  /\ IF t[2] % (2 * s[t]) = 0 /\ (kernel = "mvp" => t[2] < nnz)
       THEN cache' = [cache EXCEPT ![t] = @ (+) cache[<<t[1], t[2] + s[t]>>]]
       ELSE UNCHANGED cache
  /\ s' = [s EXCEPT ![t] = 2 * @]
  /\ pc' = [pc EXCEPT ![t] = "sync"]
  /\ UNCHANGED <<kernel, row, Ap_d, g_res_d, res_d>>

(* Mutant: the rows are taken one after another by every block.            *)
SaveNextRow(t) ==
  /\ pc[t] = "tree"
  /\ s[t] >= Block(kernel)
  /\ kernel = "mvp"
  /\ IF t[2] = 0 THEN Ap_d' = [Ap_d EXCEPT ![row[t]] = cache[t]] ELSE UNCHANGED Ap_d
  /\ row' = [row EXCEPT ![t] = @ + grid_mvp + 1]
  /\ pc' = [pc EXCEPT ![t] = "row"]
  /\ UNCHANGED <<kernel, s, cache, g_res_d, res_d>>

(* The root of the tree is saved, and the thread takes the next row, for   *)
(* which no barrier is between: the others may be loading already.         *)
SaveRow(t) ==
  /\ pc[t] = "tree"
  /\ s[t] >= Block(kernel)
  /\ kernel = "mvp"
  /\ IF t[2] = 0 THEN Ap_d' = [Ap_d EXCEPT ![row[t]] = cache[t]] ELSE UNCHANGED Ap_d
  /\ row' = [row EXCEPT ![t] = @ + grid_mvp]
  /\ pc' = [pc EXCEPT ![t] = "row"]
  /\ UNCHANGED <<kernel, s, cache, g_res_d, res_d>>

SaveBlock(t) ==
  /\ pc[t] = "tree"
  /\ s[t] >= Block(kernel)
  /\ kernel = "dot"
  /\ IF t[2] = 0 THEN g_res_d' = [g_res_d EXCEPT ![row[t]] = cache[t]]
                 ELSE UNCHANGED g_res_d
  /\ pc' = [pc EXCEPT ![t] = "done"]
  /\ UNCHANGED <<kernel, row, s, cache, Ap_d, res_d>>

(***************************************************************************)
(* reduce: one block, and no barrier.                                      *)
(***************************************************************************)

(* The lane's cell is cleared, and its counter starts at the lane.         *)
ClearCell(t) ==
  /\ pc[t] = "clear"
  /\ cache' = [cache EXCEPT ![t] = EmptyBag]
  /\ pc' = [pc EXCEPT ![t] = "gather"]
  /\ UNCHANGED <<kernel, row, s, Ap_d, g_res_d, res_d>>

Gather(t) ==
  /\ pc[t] = "gather"
  /\ s[t] < grid_dot
  /\ cache' = [cache EXCEPT ![t] = @ (+) g_res_d[s[t]]]
  /\ s' = [s EXCEPT ![t] = @ + block_red]
  /\ UNCHANGED <<kernel, pc, row, Ap_d, g_res_d, res_d>>

(* Lane 0 goes on to add up the cells of all.                              *)
Gathered(t) ==
  /\ pc[t] = "gather"
  /\ s[t] >= grid_dot
  /\ IF t[2] = 0 THEN /\ res_d' = EmptyBag
                      /\ s' = [s EXCEPT ![t] = 0]
                      /\ pc' = [pc EXCEPT ![t] = "total"]
                 ELSE /\ pc' = [pc EXCEPT ![t] = "done"]
                      /\ UNCHANGED <<s, res_d>>
  /\ UNCHANGED <<kernel, row, cache, Ap_d, g_res_d>>

Total(t) ==
  /\ pc[t] = "total"
  /\ IF s[t] < block_red THEN /\ res_d' = res_d (+) cache[<<0, s[t]>>]
                              /\ s' = [s EXCEPT ![t] = @ + 1]
                              /\ UNCHANGED pc
                         ELSE /\ pc' = [pc EXCEPT ![t] = "done"]
                              /\ UNCHANGED <<s, res_d>>
  /\ UNCHANGED <<kernel, row, cache, Ap_d, g_res_d>>

(***************************************************************************)
(* The host: launches in one stream, and a copy that waits for them.       *)
(***************************************************************************)

KernelEnded == \A t \in Thread : pc[t] = "done"

LaunchDot ==
  /\ kernel = "mvp" /\ KernelEnded
  /\ Launch("dot", "row")
  /\ UNCHANGED <<Ap_d, g_res_d, res_d>>

LaunchReduce ==
  /\ kernel = "dot" /\ KernelEnded
  /\ Launch("reduce", "clear")
  /\ UNCHANGED <<Ap_d, g_res_d, res_d>>

(* cudaMemcpy of res_d.                                                    *)
ReadResult ==
  /\ kernel = "reduce" /\ KernelEnded
  /\ kernel' = "read"
  /\ UNCHANGED <<pc, row, s, cache, Ap_d, g_res_d, res_d>>

Host == LaunchDot \/ LaunchReduce \/ ReadResult

Tree(t) == LoadTerm(t) \/ NoMoreRows(t) \/ AddPair(t) \/ SaveRow(t) \/ SaveBlock(t)
Reduce(t) == ClearCell(t) \/ Gather(t) \/ Gathered(t) \/ Total(t)

Step == \/ \E t \in Thread : Tree(t) \/ Reduce(t)
        \/ \E b \in Blocks : Syncthreads(b)
        \/ Host

Next == Step

Spec == Init /\ [][Next]_vars

(***************************************************************************)
(* Properties.                                                             *)
(***************************************************************************)

(* After ell_mvp_kernel each row of the product has all its columns, each  *)
(* once, whichever block it fell to and however the lanes of that block    *)
(* ran ahead of one another into the next row; after dot_prod_kernel each  *)
(* block has left the sum of its components.                               *)
PartialSumsComplete ==
  /\ kernel # "mvp" =>
       \A r \in 0 .. nrow - 1 : Ap_d[r] = SetToBag({<<r, j>> : j \in 0 .. nnz - 1})
  /\ kernel \in {"reduce", "read"} =>
       \A b \in 0 .. grid_dot - 1 :
         g_res_d[b] = SetToBag({<<i, 0>> : i \in {i \in 0 .. nrow - 1 : i \div block_dot = b}})

(* The host gets the sum of all the components.                            *)
SumComplete ==
  kernel = "read" => res_d = SetToBag({<<i, 0>> : i \in 0 .. nrow - 1})

=============================================================================
