------------------------------ MODULE Micropp ------------------------------
(***************************************************************************)
(* One micropp object and its caller: the Gauss points (gp_t), the four    *)
(* arrays their buffers are cut from, the main thread inside homogenize()  *)
(* and the tasks it spawns, update_vars(), the restart file, and the end   *)
(* of the object followed by a new one.                                    *)
(*                                                                         *)
(* The caller is the macro-scale code.  It is sequential and keeps the     *)
(* protocol every test keeps: set_strain, homogenize (again, with other    *)
(* strains, as often as it likes), update_vars once for the last           *)
(* homogenize; a restart is read into a new object, or back into the one   *)
(* that has just written it.                                               *)
(*                                                                         *)
(* Data.  A displacement field is the strain norm its cell reaches (a      *)
(* Strain), the internal variables of a cell are a Hist: the cell is       *)
(* represented by its most strained point.  A stress is the strain it was  *)
(* computed from, by ctan or by the average over the field.  cost and ctan *)
(* are outputs no step reads here; they are left out.                      *)
(***************************************************************************)
EXTENDS DamageLaw, FiniteSets

CONSTANTS
  NGP,            \* number of Gauss points, ngp
  Coupling,       \* coupling[gp], for each of them
  Subiterations,  \* micropp_params_t::subiterations
  LinStress,      \* micropp_params_t::lin_stress
  Workers,        \* how many tasks the runtime runs at once
  Loads,          \* the strains the caller imposes
  Stray,          \* the fields a solution that does not converge may leave
  UsesRestart,    \* does the caller use restart files and new objects?
  Fresh           \* what a word of memory that nobody has written may hold

GP == 0 .. NGP - 1

Linear == {"FE_LINEAR", "MIX_RULE_CHAMIS"}

CouplingType == Linear \cup {"FE_ONE_WAY", "FE_FULL"}

ASSUME MicroppAssumption ==
  /\ NGP \in Nat \ {0}
  /\ Coupling \in [GP -> CouplingType]
  /\ Subiterations \in BOOLEAN
  /\ LinStress \in BOOLEAN
  /\ Workers \in Nat \ {0}
  /\ Loads \subseteq Strain
  /\ Stray \subseteq Strain
  /\ UsesRestart \in BOOLEAN
  /\ 0 \in Fresh
  /\ Fresh \subseteq Hist

FEPoints == {g \in GP : Coupling[g] \notin Linear}

(* Buffers.  "dn" and "dk" are the slices of dvars_n and dvars_k, "hn" and *)
(* "hk" the pair read_restart allocates with calloc; "un" and "uk" are the *)
(* slices of du_n and du_k.                                                *)
VarsBuffer == GP \X {"dn", "dk", "hn", "hk"}
UBuffer    == GP \X {"un", "uk"}

VARIABLES
  strain, strain_old, stress,           \* gp_t, each a function of the point
  allocated, converged, subiterated,
  vars_n, vars_k, u_n, u_k,             \* its pointers: committed _n, trial _k
  varsMem, uMem,                        \* the contents of the buffers
  host,                                 \* where the main thread is
  igp,                                  \* the loop counter of homogenize()
  routine,                              \* where the solution of a point is
  disk                                  \* {} or the restart file

values   == <<strain, strain_old, stress>>
flags    == <<allocated, converged, subiterated>>
pointers == <<vars_n, vars_k, u_n, u_k>>
memory   == <<varsMem, uMem>>
control  == <<host, igp, routine>>

vars == <<values, flags, pointers, memory, control, disk>>

(* The caller's side of the main thread: "new" (constructed, not used      *)
(* yet), "idle" (no result to commit), "solved" (homogenize() has          *)
(* returned).  Inside homogenize(): "looping" and "inline", where it is    *)
(* itself solving a FE_FULL point.                                         *)
Outside == {"new", "idle", "solved"}

FileImage == [allocated : BOOLEAN, vars : Hist, u : Strain]

TypeOK ==
  /\ strain \in [GP -> Strain]
  /\ strain_old \in [GP -> Strain]
  /\ stress \in [GP -> Strain]
  /\ allocated \in [GP -> BOOLEAN]
  /\ converged \in [GP -> BOOLEAN]
  /\ subiterated \in [GP -> BOOLEAN]
  /\ vars_n \in [GP -> VarsBuffer]
  /\ vars_k \in [GP -> VarsBuffer]
  /\ u_n \in [GP -> UBuffer]
  /\ u_k \in [GP -> UBuffer]
  /\ varsMem \in [VarsBuffer -> Hist]
  /\ uMem \in [UBuffer -> Strain]
  /\ host \in Outside \cup {"looping", "inline"}
  /\ igp \in 0 .. NGP
  /\ routine \in [GP -> {"off", "ready", "newton", "subiterations", "evolve"}]
  /\ disk \subseteq [GP -> FileImage]

(***************************************************************************)
(* Construction, destruction and the plain calls of the host.              *)
(***************************************************************************)

(* The buffers the constructor cuts for point g: &dvars_n[nvars * gp], ... *)
Slice(name) == [g \in GP |-> <<g, name>>]

(* Mutant: the memory of an earlier object, not cleared.                   *)
FreshVarsRecycled == [VarsBuffer -> Hist]

(* What init() leaves in u_n: zeros; every other word of the four arrays   *)
(* is as the allocator delivered it.                                       *)
FreshVars == [VarsBuffer -> Fresh]
FreshU == {m \in [UBuffer -> Fresh] : \A g \in GP : m[<<g, "un">>] = 0}

(* The constructor, up to the end of the init_gp tasks.  gp_list comes     *)
(* from the allocator as it is: init() sets the flags and the pointers,    *)
(* and leaves strain_old, strain and stress.                               *)
Init ==
  /\ strain \in [GP -> Fresh]
  /\ strain_old \in [GP -> Fresh]
  /\ stress \in [GP -> Fresh]
  /\ allocated = [g \in GP |-> FALSE]
  /\ converged = [g \in GP |-> TRUE]
  /\ subiterated = [g \in GP |-> FALSE]
  /\ vars_n = Slice("dn")
  /\ vars_k = Slice("dk")
  /\ u_n = Slice("un")
  /\ u_k = Slice("uk")
  /\ varsMem \in FreshVars
  /\ uMem \in FreshU
  /\ host = "new"
  /\ igp = 0
  /\ routine = [g \in GP |-> "off"]
  /\ disk = {}

(* delete micro; micro = new micropp: all that survives is the file.       *)
Recreate ==
  /\ UsesRestart
  /\ host \in Outside
  /\ strain' \in [GP -> Fresh]
  /\ strain_old' \in [GP -> Fresh]
  /\ stress' \in [GP -> Fresh]
  /\ allocated' = [g \in GP |-> FALSE]
  /\ converged' = [g \in GP |-> TRUE]
  /\ subiterated' = [g \in GP |-> FALSE]
  /\ vars_n' = Slice("dn")
  /\ vars_k' = Slice("dk")
  /\ u_n' = Slice("un")
  /\ u_k' = Slice("uk")
  /\ varsMem' \in FreshVars
  /\ uMem' \in FreshU
  /\ host' = "new"
  /\ igp' = 0
  /\ routine' = [g \in GP |-> "off"]
  /\ UNCHANGED disk

(* The caller that sets a strain after a homogenize() means to call        *)
(* homogenize() again: the result is no longer one to commit.              *)
SetStrain(g, e) ==
  /\ host \in Outside
  /\ strain' = [strain EXCEPT ![g] = e]
  /\ host' = IF host = "solved" THEN "idle" ELSE host
  /\ UNCHANGED <<strain_old, stress, flags, pointers, memory, igp, routine, disk>>

(* Mutant: the swap of vars_n and vars_k without tmp.                      *)
UpdateVarsWithoutTmp ==
  /\ host = "solved"
  /\ host' = "idle"
  /\ vars_n' = vars_k
  /\ vars_k' = vars_n'
  /\ u_n' = u_k
  /\ u_k' = u_n
  /\ strain_old' = strain
  /\ UNCHANGED <<strain, stress, flags, memory, igp, routine, disk>>

(* Mutant: tmp is reused for the second swap before it is loaded.          *)
UpdateVarsStaleTmp ==
  /\ host = "solved"
  /\ host' = "idle"
  /\ vars_n' = vars_k
  /\ vars_k' = vars_n
  /\ u_n' = u_k
  /\ u_k' = vars_n
  /\ strain_old' = strain
  /\ UNCHANGED <<strain, stress, flags, memory, igp, routine, disk>>

(* gp_t::update_vars, for every point: the trial buffers become the        *)
(* committed ones and the other way round.                                 *)
UpdateVars ==
  /\ host = "solved"
  /\ host' = "idle"
  /\ vars_n' = vars_k
  /\ vars_k' = vars_n
  /\ u_n' = u_k
  /\ u_k' = u_n
  /\ strain_old' = strain
  /\ UNCHANGED <<strain, stress, flags, memory, igp, routine, disk>>

(* homogenize_linear(), the public one without a point: linear stresses    *)
(* for all, no trial.                                                      *)
HomogenizeLinear ==
  /\ host \in Outside
  /\ stress' = strain
  /\ host' = IF host = "solved" THEN "idle" ELSE host
  /\ UNCHANGED <<strain, strain_old, flags, pointers, memory, igp, routine, disk>>

(***************************************************************************)
(* homogenize(): the loop of the main thread.                              *)
(***************************************************************************)

Homogenize ==
  /\ host \in Outside
  /\ host' = "looping"
  /\ igp' = 0
  /\ UNCHANGED <<values, flags, pointers, memory, routine, disk>>

(* stress = ctan * strain, in the loop itself.                             *)
LoopLinear ==
  /\ host = "looping"
  /\ igp < NGP
  /\ Coupling[igp] \in Linear
  /\ stress' = [stress EXCEPT ![igp] = strain[igp]]
  /\ igp' = igp + 1
  /\ UNCHANGED <<strain, strain_old, flags, pointers, memory, host, routine, disk>>

LoopSpawn ==
  /\ host = "looping"
  /\ igp < NGP
  /\ Coupling[igp] = "FE_ONE_WAY"
  /\ routine' = [routine EXCEPT ![igp] = "ready"]
  /\ igp' = igp + 1
  /\ UNCHANGED <<values, flags, pointers, memory, host, disk>>

(* homogenize_fe_full is called, not spawned: the main thread works on it  *)
(* while the tasks already spawned run.                                    *)
LoopInline ==
  /\ host = "looping"
  /\ igp < NGP
  /\ Coupling[igp] = "FE_FULL"
  /\ routine' = [routine EXCEPT ![igp] = "newton"]
  /\ host' = "inline"
  /\ UNCHANGED <<values, flags, pointers, memory, igp, disk>>

(* Mutant: the loop does not advance after an inline solution.             *)
InlineReturnStuck ==
  /\ host = "inline"
  /\ routine[igp] = "off"
  /\ host' = "looping"
  /\ UNCHANGED <<values, flags, pointers, memory, igp, routine, disk>>

InlineReturn ==
  /\ host = "inline"
  /\ routine[igp] = "off"
  /\ host' = "looping"
  /\ igp' = igp + 1
  /\ UNCHANGED <<values, flags, pointers, memory, routine, disk>>

(* Mutant: the taskwait is left out.                                       *)
TaskwaitLeftOut ==
  /\ host = "looping"
  /\ igp = NGP
  /\ host' = "solved"
  /\ UNCHANGED <<values, flags, pointers, memory, igp, routine, disk>>

Taskwait ==
  /\ host = "looping"
  /\ igp = NGP
  /\ \A g \in GP : routine[g] = "off"
  /\ host' = "solved"
  /\ UNCHANGED <<values, flags, pointers, memory, igp, routine, disk>>

(***************************************************************************)
(* The solution of one point: homogenize_fe_one_way (a task) and the same  *)
(* part of homogenize_fe_full.                                             *)
(***************************************************************************)

Running == {g \in GP : /\ Coupling[g] = "FE_ONE_WAY"
                       /\ routine[g] \in {"newton", "subiterations", "evolve"}}

(* The runtime hands a ready task to a free worker.                        *)
StartTask(g) ==
  /\ routine[g] = "ready"
  /\ Cardinality(Running) < Workers
  /\ routine' = [routine EXCEPT ![g] = "newton"]
  /\ UNCHANGED <<values, flags, pointers, memory, host, igp, disk>>

(* A Newton-Raphson solution for strain e, ended with or without           *)
(* convergence, and the field it leaves.                                   *)
NewtonOutcome(e) ==
  {[converged |-> TRUE, u |-> e]} \cup [converged : {FALSE}, u : Stray]

(* The first solution, from u_n, with vars_n as history.                   *)
NewtonSolve(g) ==
  /\ routine[g] = "newton"
  /\ \E o \in NewtonOutcome(strain[g]) :
       /\ uMem' = [uMem EXCEPT ![u_k[g]] = o.u]
       /\ converged' = [converged EXCEPT ![g] = o.converged]
       /\ routine' = [routine EXCEPT ![g] =
            IF ~o.converged /\ Subiterations THEN "subiterations" ELSE "evolve"]
  /\ subiterated' = [subiterated EXCEPT ![g] = FALSE]
  /\ UNCHANGED <<values, allocated, pointers, varsMem, host, igp, disk>>

(* The strain is applied again in steps from strain_old; only the last     *)
(* step's field and convergence are kept.                                  *)
SubIterate(g) ==
  /\ routine[g] = "subiterations"
  /\ \E o \in NewtonOutcome(strain[g]) :
       /\ uMem' = [uMem EXCEPT ![u_k[g]] = o.u]
       /\ converged' = [converged EXCEPT ![g] = o.converged]
  /\ subiterated' = [subiterated EXCEPT ![g] = TRUE]
  /\ routine' = [routine EXCEPT ![g] = "evolve"]
  /\ UNCHANGED <<values, allocated, pointers, varsMem, host, igp, disk>>

(* Mutant: a point that is allocated goes on from its trial buffer.        *)
OldHistoryFromTrial(g) == varsMem[IF allocated[g] THEN vars_k[g] ELSE vars_n[g]]

(* The history a solution starts from: always vars_n, allocated or not.    *)
OldHistory(g) == varsMem[vars_n[g]]

(* Mutant: the stress of the committed field.                              *)
StressOfCommitted(g) == IF LinStress THEN strain[g] ELSE uMem[u_n[g]]

(* The average stress: by the linear tensor, or of the field in u_k.       *)
Stress(g) == IF LinStress THEN strain[g] ELSE uMem[u_k[g]]

(* The stress, the new history and the switch to "allocated".  A point     *)
(* that is not allocated computes its history in vars_new_aux and keeps it *)
(* only when it has just become non-linear.                                *)
EvolveVars(g) ==
  LET e  == uMem[u_k[g]]
      r  == OldHistory(g)
      nl == NonLinear(e, r)
  IN
  /\ routine[g] = "evolve"
  /\ stress' = [stress EXCEPT ![g] = Stress(g)]
  /\ allocated' = [allocated EXCEPT ![g] = @ \/ nl]
  /\ varsMem' = IF allocated[g] \/ nl
                  THEN [varsMem EXCEPT ![vars_k[g]] = Evolve(e, r)]
                  ELSE varsMem
  /\ routine' = [routine EXCEPT ![g] = "off"]
  /\ UNCHANGED <<strain, strain_old, converged, subiterated, pointers, uMem,
                 host, igp, disk>>

Solve(g) == StartTask(g) \/ NewtonSolve(g) \/ SubIterate(g) \/ EvolveVars(g)

(***************************************************************************)
(* Restart files.                                                          *)
(***************************************************************************)

(* Mutant: the trial history is written.                                   *)
SnapshotOfTrial ==
  [g \in GP |-> IF allocated[g]
                  THEN [allocated |-> TRUE, vars |-> varsMem[vars_k[g]],
                        u |-> uMem[u_n[g]]]
                  ELSE [allocated |-> FALSE, vars |-> 0, u |-> 0]]

(* What write_restart puts in the file; nothing but the flag for a point   *)
(* that is not allocated.                                                  *)
Snapshot ==
  [g \in GP |-> IF allocated[g]
                  THEN [allocated |-> TRUE, vars |-> varsMem[vars_n[g]],
                        u |-> uMem[u_n[g]]]
                  ELSE [allocated |-> FALSE, vars |-> 0, u |-> 0]]

WriteRestart ==
  /\ UsesRestart
  /\ host \in Outside
  /\ disk' = {Snapshot}
  /\ UNCHANGED <<values, flags, pointers, memory, control>>

ReadRestart ==
  \E file \in disk :
    LET restored == {g \in GP : file[g].allocated}
    IN
    /\ host = "new" \/ (host = "idle" /\ file = Snapshot)
    /\ host' = "idle"
    /\ allocated' = [g \in GP |-> file[g].allocated]
    /\ vars_n' = [g \in GP |-> IF g \in restored THEN <<g, "hn">> ELSE vars_n[g]]
    /\ vars_k' = [g \in GP |-> IF g \in restored THEN <<g, "hk">> ELSE vars_k[g]]
    /\ varsMem' = [b \in VarsBuffer |->
         CASE b[1] \in restored /\ b[2] = "hn" -> file[b[1]].vars
           [] b[1] \in restored /\ b[2] = "hk" -> 0
           [] OTHER -> varsMem[b]]
    /\ uMem' = [b \in UBuffer |->
         IF b[1] \in restored /\ b = u_n[b[1]] THEN file[b[1]].u ELSE uMem[b]]
    /\ UNCHANGED <<values, converged, subiterated, u_n, u_k, igp, routine, disk>>

(***************************************************************************)
(* The specification.                                                      *)
(***************************************************************************)

Loop == LoopLinear \/ LoopSpawn \/ LoopInline \/ InlineReturn \/ Taskwait

Next ==
  \/ \E g \in GP, e \in Loads : SetStrain(g, e)
  \/ Homogenize \/ HomogenizeLinear
  \/ Loop
  \/ \E g \in GP : Solve(g)
  \/ UpdateVars
  \/ WriteRestart \/ ReadRestart \/ Recreate

Spec == Init /\ [][Next]_vars

(* The main thread is a running thread, and the runtime serves every ready *)
(* task; nothing obliges the caller to make a call.                        *)
Fairness == WF_vars(Loop) /\ \A g \in GP : WF_vars(Solve(g))

FairSpec == Spec /\ Fairness

(***************************************************************************)
(* Properties.                                                             *)
(***************************************************************************)

(* No buffer serves two purposes: the swaps of update_vars and the pairs   *)
(* of read_restart never leave a point with one buffer in two roles, nor   *)
(* two points with a common one, so concurrent tasks write apart and a     *)
(* trial never runs into a committed state.                                *)
BuffersDisjoint ==
  /\ \A g, h \in GP : vars_n[g] # vars_k[h] /\ u_n[g] # u_k[h]
  /\ \A g, h \in GP : g # h => /\ vars_n[g] # vars_n[h] /\ vars_k[g] # vars_k[h]
                               /\ u_n[g] # u_n[h] /\ u_k[g] # u_k[h]

(* "allocated = false" stands for "nothing to remember": the history in    *)
(* vars_n, which the solver reads all the same, is a virgin one, and so is *)
(* what a commit would put in its place.  write_restart relies on it when  *)
(* it saves the flag alone.                                                *)
UnallocatedIsVirgin ==
  \A g \in GP : ~allocated[g] => /\ Virgin(varsMem[vars_n[g]])
                                 /\ Virgin(varsMem[vars_k[g]])

(* When homogenize() has returned, what update_vars would commit is, for   *)
(* every point with a cell, the evolution of the committed history under   *)
(* the field in u_k: no point is skipped, evolved twice, or evolved with a *)
(* history another task or an earlier trial has changed.                   *)
TrialEvolvesCommitted ==
  host = "solved" =>
    \A g \in FEPoints :
      Threshold(varsMem[vars_k[g]]) = Evolve(uMem[u_k[g]], varsMem[vars_n[g]])

(* Every stress the caller can read after homogenize() answers the strain  *)
(* it has set last, unless the point says that it has not converged.       *)
StressAnswersStrain ==
  host = "solved" =>
    \A g \in GP : converged[g] \/ LinStress => stress[g] = strain[g]

(* is_non_linear is 1 for every point one of whose integration points has  *)
(* passed the limit in this trial.                                         *)
PassedLimitIsReported ==
  host = "solved" =>
    \A g \in FEPoints : uMem[u_k[g]] > Xt => allocated[g]

Committed(g) == <<varsMem[vars_n[g]], uMem[u_n[g]]>>

(* The committed history and displacement of a point change only when the  *)
(* caller commits, reads a restart or starts a new object; not while       *)
(* homogenize() and its tasks run, and not by a rejected trial.            *)
CommittedIsStable ==
  [][\A g \in GP : Committed(g)' = Committed(g)
       \/ UpdateVars \/ ReadRestart \/ Recreate]_vars

(* Damage and plastic strain do not heal: no step but the end of the       *)
(* object, or reading a file, makes a committed history smaller.           *)
HistoryGrows ==
  [][\A g \in GP : Threshold(varsMem[vars_n[g]])' >= Threshold(varsMem[vars_n[g]])
       \/ ReadRestart \/ Recreate]_vars

(* What output() writes of a point: the displacements in u_k, and stress   *)
(* and internal variables by vars_n.                                       *)
OutputFields(g) == [u |-> uMem[u_k[g]], vars |-> varsMem[vars_n[g]]]

(* A file written for a time step right after update_vars(), as the tests  *)
(* do, shows the displacements of the step just committed.                 *)
OutputShowsCommittedStep ==
  [][UpdateVars => \A g \in FEPoints : OutputFields(g)'.u = uMem[u_k[g]]]_vars

(* homogenize() returns.                                                   *)
HomogenizeReturns == host = "looping" ~> host = "solved"

(***************************************************************************)
(* The abstract specification, and what its state is here.                 *)
(***************************************************************************)

Busy == host \in {"looping", "inline"}

Solved(g) == /\ routine[g] = "off"
             /\ g < igp \/ (g = igp /\ host = "inline")

InCall == Busy \/ host = "solved"

HistBar == [g \in GP |-> Threshold(varsMem[vars_n[g]])]

TrialBar == [g \in GP |-> Threshold(varsMem[IF InCall /\ Solved(g)
                                              THEN vars_k[g] ELSE vars_n[g]])]

DoneBar == {g \in GP : InCall /\ Solved(g)}

PhaseBar == IF Busy THEN "busy" ELSE IF host = "solved" THEN "solved" ELSE "idle"

Saved(f) == [hist |-> [g \in GP |-> Threshold(f[g].vars)],
             nl   |-> [g \in GP |-> f[g].allocated]]

SavedBar == {Saved(f) : f \in disk}

Promise == INSTANCE Constitutive WITH
  Point <- GP, FEPoint <- FEPoints, eps <- strain, hist <- HistBar,
  trial <- TrialBar, nl <- allocated, done <- DoneBar, phase <- PhaseBar,
  saved <- SavedBar

(* Whatever the order in which the tasks run, and across commits, rejected *)
(* trials and restarts, the object behaves as independent materials with   *)
(* memory.                                                                 *)
ImplementsConstitutive == Promise!CSpec
=============================================================================
