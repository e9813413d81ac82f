----------------------------- MODULE GaussPoint -----------------------------
(***************************************************************************)
(* The solution of one Gauss point, in the detail Micropp leaves out:      *)
(* homogenize_fe_one_way and homogenize_fe_full of src/homogenize.cpp with *)
(* the Newton-Raphson loop of src/solve.cpp they call, once for the trial  *)
(* strain, nsub times when they sub-iterate, and NVoi times for the        *)
(* tangent.  The caller homogenizes one strain after another and commits   *)
(* or rejects each result.                                                 *)
(*                                                                         *)
(* Data.  A displacement vector is what it was last given as boundary      *)
(* condition and whether its residual is below the tolerance.  A strain is *)
(* an integer; those of the sub-iterations lie between two of them, so all *)
(* are counted in units of 1 / Scale.  The linear solver takes some number *)
(* of iterations out of CgIts and may bring the residual down or not.      *)
(***************************************************************************)
EXTENDS Integers

CONSTANTS
  Couplings,      \* the kinds of point: "FE_ONE_WAY", "FE_FULL"
  NVoi,           \* components of a strain, nvoi
  NrMaxIts,       \* nr_max_its
  CgIts,          \* iterations a call of ell_solve_cgpd may take
  Subiterations,  \* subiterations
  NSubs,          \* the values nsubiterations may have
  LinStress,      \* lin_stress
  Loads,          \* the strains the caller imposes
  Found           \* the strains memory nobody has written may hold

ASSUME GaussPointAssumption ==
  /\ Couplings \subseteq {"FE_ONE_WAY", "FE_FULL"}
  /\ NVoi \in Nat \ {0}
  /\ NrMaxIts \in Nat
  /\ CgIts \subseteq Nat /\ CgIts # {}
  /\ Subiterations \in BOOLEAN
  /\ NSubs \subseteq Nat
  /\ LinStress \in BOOLEAN
  /\ Loads \subseteq Int /\ 0 \in Loads
  /\ Found \subseteq Int /\ Found # {}

(* A target of newton_raphson: the strain, perturbed in component dir (0:  *)
(* not perturbed).                                                         *)
Plain(e) == [eps |-> e, dir |-> 0]

(* What calloc and memset leave in a displacement vector: the solution of  *)
(* the unloaded cell.                                                      *)
ZeroField == [at |-> Plain(0), ok |-> TRUE]

ZeroNewton == [its |-> 0, solver_its |-> 0, converged |-> FALSE]

VARIABLES
  pc,           \* "idle", "solve" (in newton_raphson), "return" (from it),
                \* "stress", "done"
  purpose,      \* what the solution is for: "trial", "sub" or "tangent"
  k,            \* counter of the sub-iterations, or of the perturbations
  strain, strain_old, stress, ctan, allocated, converged, subiterated, cost,
  u_n, u_k,     \* the fields of gp_t this routine uses
  u,            \* its local displacement vector
  newton,       \* its newton_t
  run,          \* the newton_t inside newton_raphson
  small,        \* norm < nr_max_tol || norm < norm_0 * nr_rel_tol, in there
                \* no variables of the code:
  work,         \* CG iterations done in this call
  start,        \* the boundary values newton_raphson found in the vector
  committed,    \* update_vars has been called
  coupling,     \* the kind of point, and
  nsub          \* nsubiterations: both given when the object is created

gp == <<strain, strain_old, allocated, u_n, committed>>
outputs == <<stress, ctan, converged, subiterated, cost, u_k>>
locals == <<purpose, k, u, newton>>
solver == <<run, small, work, start>>

parameters == <<coupling, nsub>>

vars == <<pc, gp, outputs, locals, solver, parameters>>

(* The unit strains are counted in: an increment is a whole number of it.  *)
Scale == IF nsub = 0 THEN 1 ELSE nsub

Target == [eps : Int, dir : 0 .. NVoi]
Field == [at : Target, ok : BOOLEAN]
Newton == [its : 0 .. NrMaxIts, solver_its : Nat, converged : BOOLEAN]

(* A stress: the tensor ctan times a strain (ctan is the linear one until  *)
(* a tangent replaces it), or the average over a field.                    *)
StressType == [law : {"tensor", "fe"}, of : Field]

(* A column of ctan: the two stresses it is the difference of.             *)
Column == [sig_0 : StressType, sig_1 : StressType]

NoStress == [law |-> "tensor", of |-> ZeroField]
NoColumn == [sig_0 |-> NoStress, sig_1 |-> NoStress]

TypeOK ==
  /\ pc \in {"idle", "solve", "return", "stress", "done"}
  /\ purpose \in {"trial", "sub", "tangent"}
  /\ k \in Nat
  /\ strain \in Int /\ strain_old \in Int
  /\ stress \in StressType
  /\ ctan \in [1 .. NVoi -> Column]
  /\ allocated \in BOOLEAN /\ converged \in BOOLEAN /\ subiterated \in BOOLEAN
  /\ cost \in Nat /\ work \in Nat
  /\ u_n \in Field /\ u_k \in Field /\ u \in Field
  /\ newton \in Newton /\ run \in Newton
  /\ small \in BOOLEAN
  /\ start \in Target /\ committed \in BOOLEAN
  /\ coupling \in Couplings /\ nsub \in NSubs

(* The field of a restart file.                                            *)
Saved == [at : {Plain(e * Scale) : e \in Loads}, ok : BOOLEAN]

(* A new point, or one whose restart file has been read.  gp_list is raw   *)
(* memory, and neither gp_t::init nor read_restart writes strain_old.  (So *)
(* it is with strain, stress and u_k, but they are written before they are *)
(* read, and start here with one value.)                                   *)
Init ==
  /\ coupling \in Couplings /\ nsub \in NSubs
  /\ pc = "idle" /\ purpose = "trial" /\ k = 0
  /\ strain = 0
  /\ \E e \in Found : strain_old = e * Scale
  /\ stress = NoStress
  /\ ctan = [i \in 1 .. NVoi |-> NoColumn]
  /\ \/ allocated = FALSE /\ u_n = ZeroField
     \/ allocated = TRUE /\ u_n \in Saved
  /\ converged = TRUE /\ subiterated = FALSE
  /\ cost = 0 /\ work = 0
  /\ u_k = ZeroField /\ u = ZeroField
  /\ newton = ZeroNewton /\ run = ZeroNewton
  /\ small = FALSE
  /\ start = Plain(0) /\ committed = FALSE

(***************************************************************************)
(* newton_raphson.                                                         *)
(***************************************************************************)

(* Its entry: set_displ_bc puts the boundary values of the target in v,    *)
(* and the first residual is measured.                                     *)
EnterNewton(v, target) ==
  /\ pc' = "solve"
  /\ u' = [v EXCEPT !.at = target]
  /\ start' = v.at
  /\ run' = ZeroNewton
  /\ small' \in BOOLEAN

(* Mutant: the break is forgotten.                                         *)
NewtonConvergedNoBreak ==
  /\ pc = "solve"
  /\ run.its < NrMaxIts
  /\ small
  /\ run' = [run EXCEPT !.converged = TRUE]
  /\ u' = [u EXCEPT !.ok = TRUE]
  /\ UNCHANGED <<pc, gp, outputs, purpose, k, newton, small, work, start>>

(* The test at the head of the loop.                                       *)
NewtonConverged ==
  /\ pc = "solve"
  /\ run.its < NrMaxIts
  /\ small
  /\ run' = [run EXCEPT !.converged = TRUE]
  /\ u' = [u EXCEPT !.ok = TRUE]
  /\ pc' = "return"
  /\ UNCHANGED <<gp, outputs, purpose, k, newton, small, work, start>>

(* Mutant: while (its <= nr_max_its).                                      *)
NewtonIterateOnceMore ==
  /\ pc = "solve"
  /\ run.its <= NrMaxIts
  /\ ~small
  /\ \E cg \in CgIts :
       /\ run' = [run EXCEPT !.its = @ + 1, !.solver_its = @ + cg]
       /\ work' = work + cg
  /\ small' \in BOOLEAN
  /\ UNCHANGED <<pc, gp, outputs, locals, start>>

NewtonIterate ==
  /\ pc = "solve"
  /\ run.its < NrMaxIts
  /\ ~small
  /\ \E cg \in CgIts :
       /\ run' = [run EXCEPT !.its = @ + 1, !.solver_its = @ + cg]
       /\ work' = work + cg
  /\ small' \in BOOLEAN
  /\ UNCHANGED <<pc, gp, outputs, locals, start>>

(* Mutant: converged is set after the loop instead of in it.               *)
NewtonExhaustedConverged ==
  /\ pc = "solve"
  /\ run.its = NrMaxIts
  /\ u' = [u EXCEPT !.ok = small]
  /\ run' = [run EXCEPT !.converged = TRUE]
  /\ pc' = "return"
  /\ UNCHANGED <<gp, outputs, purpose, k, newton, small, work, start>>

(* its = nr_max_its: the loop ends without a test of the last residual.    *)
NewtonExhausted ==
  /\ pc = "solve"
  /\ run.its = NrMaxIts
  /\ u' = [u EXCEPT !.ok = small]
  /\ pc' = "return"
  /\ UNCHANGED <<gp, outputs, purpose, k, newton, solver>>

(***************************************************************************)
(* The routine.                                                            *)
(***************************************************************************)

(* set_strain and homogenize: u starts from u_n.                           *)
Call(e) ==
  /\ pc = "idle"
  /\ strain' = e * Scale
  /\ cost' = 0
  /\ subiterated' = FALSE
  /\ work' = 0
  /\ purpose' = "trial"
  /\ k' = 0
  /\ newton' = ZeroNewton
  /\ EnterNewton(u_n, Plain(strain'))
  /\ UNCHANGED <<strain_old, allocated, u_n, committed, stress, ctan, converged, u_k>>

Increment == (strain - strain_old) \div Scale

(* Mutant: the increment is added after the solution, not before.          *)
SubStrainLate(its) == strain_old + its * Increment

(* The strain of sub-iteration its: strain_old plus its + 1 increments.    *)
SubStrain(its) == strain_old + (its + 1) * Increment

(* Mutant: the newton_t of the solution before is added.                   *)
CostOfLast == newton.solver_its

(* What the trial and each sub-iteration add to cost.                      *)
CostOfRun == run.solver_its

(* The trial solution is copied to u_k; when it has not converged the      *)
(* sub-iterations start again from u_n.                                    *)
TrialReturn ==
  /\ pc = "return"
  /\ purpose = "trial"
  /\ newton' = run
  /\ cost' = cost + CostOfRun
  /\ converged' = run.converged
  /\ IF ~run.converged /\ Subiterations
       THEN /\ subiterated' = TRUE
            /\ purpose' = "sub"
            /\ k' = 0
            /\ IF nsub > 0
                 THEN /\ EnterNewton(u_n, Plain(SubStrain(0)))
                      /\ u_k' = u
                      /\ UNCHANGED work
                 ELSE /\ u' = u_n
                      /\ u_k' = u_n
                      /\ pc' = "stress"
                      /\ UNCHANGED solver
       ELSE /\ u_k' = u
            /\ pc' = "stress"
            /\ UNCHANGED <<subiterated, purpose, k, u, solver>>
  /\ UNCHANGED <<gp, stress, ctan>>

(* The next sub-iteration goes on from the field of the last one.          *)
SubReturn ==
  /\ pc = "return"
  /\ purpose = "sub"
  /\ newton' = run
  /\ cost' = cost + CostOfRun
  /\ k' = k + 1
  /\ IF k + 1 < nsub
       THEN /\ EnterNewton(u, Plain(SubStrain(k + 1)))
            /\ UNCHANGED <<u_k, converged, work>>
       ELSE /\ converged' = run.converged
            /\ u_k' = u
            /\ pc' = "stress"
            /\ UNCHANGED <<u, solver>>
  /\ UNCHANGED <<gp, stress, ctan, subiterated, purpose>>

(* The stress of the trial.                                                *)
TrialStress == IF LinStress
                 THEN [law |-> "tensor", of |-> [at |-> Plain(strain), ok |-> TRUE]]
                 ELSE [law |-> "fe", of |-> u_k]

Perturbed(i) == [eps |-> strain, dir |-> i]

(* The stress, calc_vars_new (which finds the cell linear or not) and,     *)
(* for FE_FULL once allocated, the first perturbed solution.               *)
StressAndHistory ==
  /\ pc = "stress"
  /\ stress' = TrialStress
  /\ \E non_linear \in BOOLEAN : allocated' = (allocated \/ non_linear)
  /\ IF coupling = "FE_FULL" /\ allocated'
       THEN /\ purpose' = "tangent"
            /\ k' = 1
            /\ EnterNewton(u_k, Perturbed(1))
            /\ UNCHANGED work
       ELSE /\ pc' = "done"
            /\ UNCHANGED <<purpose, k, u, solver>>
  /\ UNCHANGED <<strain, strain_old, u_n, committed, ctan, converged, subiterated,
                 cost, u_k, newton>>

(* Mutant: the stress is averaged over the field of the trial again.       *)
DifferenceWithTrial == [sig_0 |-> stress, sig_1 |-> [law |-> "fe", of |-> u_k]]

(* A column: the stress of the perturbed field against that of the trial.  *)
Difference == [sig_0 |-> stress, sig_1 |-> [law |-> "fe", of |-> u]]

(* The newton_t of a perturbed solution is dropped: what is added to cost  *)
(* is once more that of the last solution of the trial.                    *)
TangentReturn ==
  /\ pc = "return"
  /\ purpose = "tangent"
  /\ cost' = cost + newton.solver_its
  /\ ctan' = [ctan EXCEPT ![k] = Difference]
  /\ k' = k + 1
  /\ IF k < NVoi
       THEN EnterNewton(u, Perturbed(k + 1)) /\ UNCHANGED work
       ELSE pc' = "done" /\ UNCHANGED <<u, solver>>
  /\ UNCHANGED <<gp, stress, converged, subiterated, u_k, purpose, newton>>

(***************************************************************************)
(* The caller.                                                             *)
(***************************************************************************)

(* Mutant: strain_old is not copied.                                       *)
CommitWithoutStrain ==
  /\ pc = "done"
  /\ pc' = "idle"
  /\ u_n' = u_k
  /\ u_k' = u_n
  /\ committed' = TRUE
  /\ UNCHANGED <<strain, strain_old, allocated, stress, ctan, converged,
                 subiterated, cost, locals, solver>>

(* gp_t::update_vars.                                                      *)
Commit ==
  /\ pc = "done"
  /\ pc' = "idle"
  /\ strain_old' = strain
  /\ u_n' = u_k
  /\ u_k' = u_n
  /\ committed' = TRUE
  /\ UNCHANGED <<strain, allocated, stress, ctan, converged, subiterated,
                 cost, locals, solver>>

(* The caller will impose another strain on the same committed state.      *)
Reject ==
  /\ pc = "done"
  /\ pc' = "idle"
  /\ UNCHANGED <<gp, outputs, locals, solver>>

NewtonStep == NewtonConverged \/ NewtonIterate \/ NewtonExhausted

Step == NewtonStep \/ TrialReturn \/ SubReturn \/ StressAndHistory \/ TangentReturn

Next == /\ (\E e \in Loads : Call(e)) \/ Step \/ Commit \/ Reject
        /\ UNCHANGED parameters

Spec == Init /\ [][Next]_vars

(* The routine is straight-line code of one thread.                        *)
FairSpec == Spec /\ WF_vars(Step /\ UNCHANGED parameters)

(***************************************************************************)
(* Properties.                                                             *)
(***************************************************************************)

(* "converged" is never claimed for a field that is not in equilibrium     *)
(* with the whole strain: neither an intermediate sub-iteration nor a      *)
(* perturbed solution can stand in for it.  Sub-iterations before the last *)
(* may have failed: the code forgets them.                                 *)
ConvergedIsHonest ==
  pc = "done" /\ converged => u_k = [at |-> Plain(strain), ok |-> TRUE]

(* Converged or not, the field that is kept carries the boundary values    *)
(* of the strain asked for: the sub-iterations arrive exactly at it, from  *)
(* whichever strain_old they started, and the perturbations of the tangent *)
(* are not left behind.                                                    *)
FieldCarriesStrain ==
  pc = "done" /\ ~(subiterated /\ nsub = 0) => u_k.at = Plain(strain)

(* A sub-iteration sets off from the field of the strain one increment     *)
(* before its own: the first from the committed field, never from that of  *)
(* the trial that failed or of a rejected step, and a step committed       *)
(* without having converged is no exception.  Before the first commit it   *)
(* is not so, since strain_old is what the memory held.                    *)
SubStepsAreIncrements ==
  pc = "solve" /\ purpose = "sub" /\ committed =>
    /\ start.dir = 0
    /\ nsub * (u.at.eps - start.eps) = strain - strain_old

(* cost is the number of CG iterations the call has spent, sub-iterations  *)
(* and failed ones included.  Not so for FE_FULL, whose tangent adds the   *)
(* iterations of the trial again and again instead of its own.             *)
CostIsWork == pc = "done" /\ coupling = "FE_ONE_WAY" => cost = work

(* The tangent of a non-linear FE_FULL point is new in every column, each  *)
(* one the difference between its own perturbed solution and the stress    *)
(* the caller reads.                                                       *)
TangentIsComplete ==
  pc = "done" /\ coupling = "FE_FULL" /\ allocated =>
    \A i \in 1 .. NVoi : /\ ctan[i].sig_0 = stress
                         /\ ctan[i].sig_1.of.at = Perturbed(i)

(* Both stresses of a column come from a finite element solution.          *)
TangentIsOfFEStress ==
  pc = "done" /\ coupling = "FE_FULL" /\ allocated =>
    \A i \in 1 .. NVoi : ctan[i].sig_0.law = ctan[i].sig_1.law

(* The routine ends, whatever the solvers do.                              *)
CallReturns == pc = "solve" ~> pc = "done"
=============================================================================
