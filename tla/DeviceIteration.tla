-------------------------- MODULE DeviceIteration --------------------------
(***************************************************************************)
(* What a Newton iteration has computed in parallel: first an assembly     *)
(* (Assembly), in any of the three builds, and in the CUDA build, once the *)
(* host has the matrix, the kernels of an iteration of the conjugate       *)
(* gradient (DeviceSum).  The host launches them in one stream and waits   *)
(* for its copy of the result before it goes on, so that the threads of    *)
(* the two parts never meet.  A kernel looks at the length of its vectors  *)
(* and not at the grid, so the sizes of the two parts are independent.     *)
(***************************************************************************)
EXTENDS Assembly

CONSTANTS nrow, nnz, grid_mvp, block_mvp, grid_dot, block_dot, block_red

VARIABLES kernel, thread, row, s, cache, Ap_d, g_res_d, res_d

Kernels == INSTANCE DeviceSum WITH pc <- thread

ASSUME IterationAssumption == Kernels!LaunchesFit

sumVars == <<kernel, thread, row, s, cache, Ap_d, g_res_d, res_d>>

IterationInit == Init /\ Kernels!Init

(* assembly_rhs and assembly_mat return when they have the result.         *)
Assemble == Next /\ UNCHANGED sumVars

(* ell_solve_cgpd is called with a matrix that is complete on the host.    *)
Solve == copied /\ build = "cuda" /\ what = "mat" /\ Kernels!Next /\ UNCHANGED vars

IterationNext == Assemble \/ Solve

(* The device runs every resident thread; an atomic update is tried again  *)
(* only when another has succeeded, and a tree or a loop waits only at its *)
(* barrier, so some step is always taken.                                  *)
FairIteration ==
  /\ IterationInit /\ [][IterationNext]_<<vars, sumVars>>
  /\ WF_<<vars, sumVars>>(IterationNext)

(***************************************************************************)
(* Properties.                                                             *)
(***************************************************************************)

(* What reduce starts from: the rows of the product p . Ap is made of, and *)
(* the sums of the blocks.                                                 *)
PartialSumsComplete == Kernels!PartialSumsComplete

(* The iteration ends: every compare-and-swap loop does, and every thread  *)
(* reaches every barrier.                                                  *)
IterationEnds ==
  <>(copied /\ (build = "cuda" /\ what = "mat" => kernel = "read"))
=============================================================================
