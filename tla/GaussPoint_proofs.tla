-------------------------- MODULE GaussPoint_proofs --------------------------
(***************************************************************************)
(* What holds of the solution of a Gauss point for every limit of the      *)
(* Newton iteration, every number of strain components and of              *)
(* sub-iterations, every linear solver and every sequence of loads.        *)
(***************************************************************************)
EXTENDS GaussPoint, TLAPS

(***************************************************************************)
(* Increments.  The strain and strain_old are whole numbers, each of Scale *)
(* units, so that nsub increments make up their difference.                *)
(***************************************************************************)

LEMMA DivType == ASSUME NEW a \in Int, NEW n \in Nat \ {0} PROVE a \div n \in Int
OBVIOUS

LEMMA DivExact == ASSUME NEW c \in Int, NEW n \in Nat \ {0} PROVE (c * n) \div n = c
OBVIOUS

LEMMA IncrementsAddUp ==
  ASSUME NEW a \in Int, NEW c \in Int, NEW n \in Nat \ {0}
  PROVE  n * ((a * n - c * n) \div n) = a * n - c * n
<1>1. a * n - c * n = (a - c) * n
  OBVIOUS
<1>2. ((a - c) * n) \div n = a - c
  BY DivExact
<1>3. n * (a - c) = (a - c) * n
  OBVIOUS
<1>. QED
  BY <1>1, <1>2, <1>3

LEMMA ScaleType == nsub \in NSubs => Scale \in Nat \ {0} /\ (nsub > 0 => Scale = nsub)
BY GaussPointAssumption DEF GaussPointAssumption, Scale

WholeLoads(e) == \E a \in Int : e = a * Scale

LEMMA IncrementType == TypeOK => Increment \in Int
<1>. SUFFICES ASSUME TypeOK PROVE Increment \in Int
  OBVIOUS
<1>1. strain - strain_old \in Int /\ Scale \in Nat \ {0}
  BY ScaleType DEF TypeOK
<1>. QED
  BY <1>1, DivType DEF Increment

LEMMA SubStrainType ==
  ASSUME TypeOK, NEW i \in Nat
  PROVE  SubStrain(i) \in Int
<1>1. \A d \in Int : (i + 1) * d \in Int
  OBVIOUS
<1>. QED
  BY <1>1, IncrementType DEF SubStrain, TypeOK

(* The strain a sub-iteration sets off from.                               *)
StartStrain(i) == strain_old + i * Increment

LEMMA StartStrains ==
  ASSUME TypeOK, NEW i \in Nat
  PROVE  /\ StartStrain(0) = strain_old
         /\ StartStrain(i + 1) = SubStrain(i)
         /\ SubStrain(i) - StartStrain(i) = Increment
<1>. \A d \in Int : 0 * d = 0 /\ i * d \in Int /\ (i + 1) * d = i * d + d
  OBVIOUS
<1>. QED
  BY IncrementType DEF StartStrain, SubStrain, TypeOK

LEMMA IncrementsMakeStrain ==
  ASSUME TypeOK, WholeLoads(strain), WholeLoads(strain_old), nsub > 0
  PROVE  nsub * Increment = strain - strain_old
<1>1. Scale \in Nat \ {0} /\ Scale = nsub
  BY ScaleType DEF TypeOK
<1>2. PICK a \in Int : strain = a * Scale
  BY DEF WholeLoads
<1>3. PICK c \in Int : strain_old = c * Scale
  BY DEF WholeLoads
<1>. QED
  BY <1>1, <1>2, <1>3, IncrementsAddUp DEF Increment

(* The last sub-iteration arrives at the strain.                           *)
LEMMA LastSubStrain ==
  ASSUME TypeOK, WholeLoads(strain), WholeLoads(strain_old), nsub > 0
  PROVE  SubStrain(nsub - 1) = strain
<1>1. nsub \in Nat
  BY GaussPointAssumption DEF GaussPointAssumption, TypeOK
<1>2. (nsub - 1) + 1 = nsub
  BY <1>1
<1>3. SubStrain(nsub - 1) = strain_old + nsub * Increment
  BY <1>2 DEF SubStrain
<1>. QED
  BY <1>3, IncrementsMakeStrain DEF TypeOK

(***************************************************************************)
(* The inductive invariant.                                                *)
(***************************************************************************)

(* What newton_raphson is called for.                                      *)
Solving == pc \in {"solve", "return"}

WholeInv == WholeLoads(strain) /\ WholeLoads(strain_old)

(* Where the routine is in its sub-iterations or perturbations, and that   *)
(* the vector it solves for carries the boundary values of that place.     *)
PlaceInv ==
  Solving =>
    /\ purpose = "trial" => u.at = Plain(strain)
    /\ purpose = "sub" => /\ u.at = Plain(SubStrain(k))
                          /\ k < nsub
    /\ purpose = "tangent" => /\ u.at = Perturbed(k)
                              /\ k \in 1 .. NVoi
                              /\ coupling = "FE_FULL"
                              /\ allocated

(* u_n and strain_old are those of one step, and a sub-iteration begins    *)
(* where the last one, or the committed step, has ended.                   *)
StartInv ==
  committed => /\ nsub > 0 => u_n.at = Plain(strain_old)
               /\ Solving /\ purpose = "sub" => start = Plain(StartStrain(k))

(* newton_raphson reports convergence only with a small residual.          *)
HonestInv ==
  /\ pc = "solve" => ~run.converged
  /\ pc = "return" /\ run.converged => u.ok

(* After the trial, u_k and converged belong together and to the strain.   *)
TrialOver == pc \in {"stress", "done"} \/ (Solving /\ purpose = "tangent")

KeptInv ==
  TrialOver =>
    /\ converged => u_k = [at |-> Plain(strain), ok |-> TRUE]
    /\ ~(subiterated /\ nsub = 0) => u_k.at = Plain(strain)

(* Until the tangent begins, the work is in cost or in the running         *)
(* newton_t.                                                               *)
CostInv ==
  /\ Solving /\ purpose # "tangent" => work = cost + run.solver_its
  /\ pc = "stress" => work = cost
  /\ pc = "done" /\ coupling = "FE_ONE_WAY" => work = cost

(* The columns made so far.                                                *)
ColumnMade(i) == /\ ctan[i].sig_0 = stress
                 /\ ctan[i].sig_1.of.at = Perturbed(i)

TangentInv ==
  /\ Solving /\ purpose = "tangent" => \A i \in 1 .. NVoi : i < k => ColumnMade(i)
  /\ pc = "done" /\ coupling = "FE_FULL" /\ allocated =>
       \A i \in 1 .. NVoi : ColumnMade(i)

Inv == /\ TypeOK /\ WholeInv /\ PlaceInv /\ StartInv
       /\ HonestInv /\ KeptInv /\ CostInv /\ TangentInv

LEMMA PlainType == \A e \in Int : Plain(e) \in Target
BY GaussPointAssumption DEF GaussPointAssumption, Plain, Target

LEMMA ZeroType == ZeroField \in Field /\ ZeroNewton \in Newton /\ NoColumn \in Column
                  /\ NoStress \in StressType
BY PlainType, GaussPointAssumption
   DEF GaussPointAssumption, ZeroField, Field, ZeroNewton, Newton, NoColumn, Column,
       NoStress, StressType

LEMMA InitInv == Init => Inv
<1>. SUFFICES ASSUME Init PROVE Inv
  OBVIOUS
<1>1. TypeOK
  <2>. nsub \in NSubs
    BY DEF Init
  <2>0. \A e \in Int : e * Scale \in Int
    BY ScaleType
  <2>1. /\ ctan \in [1 .. NVoi -> Column] /\ stress \in StressType
        /\ u_k \in Field /\ u \in Field /\ start \in Target
        /\ newton \in Newton /\ run \in Newton
    BY ZeroType, PlainType DEF Init
  <2>4. u_n \in Field
    <3>. Loads \subseteq Int
      BY GaussPointAssumption DEF GaussPointAssumption
    <3>1. \A e \in Loads : Plain(e * Scale) \in Target
      BY <2>0, PlainType
    <3>2. Saved \subseteq Field
      BY <3>1 DEF Saved, Field
    <3>. QED
      BY <3>2, ZeroType DEF Init
  <2>2. /\ pc \in {"idle", "solve", "return", "stress", "done"}
        /\ purpose \in {"trial", "sub", "tangent"}
        /\ k \in Nat /\ strain \in Int /\ strain_old \in Int /\ cost \in Nat /\ work \in Nat
        /\ coupling \in Couplings /\ nsub \in NSubs
    BY <2>0, GaussPointAssumption DEF Init, GaussPointAssumption
  <2>3. /\ allocated \in BOOLEAN /\ converged \in BOOLEAN /\ subiterated \in BOOLEAN
        /\ small \in BOOLEAN /\ committed \in BOOLEAN
    BY DEF Init
  <2>. QED
    BY <2>1, <2>2, <2>3, <2>4 DEF TypeOK
<1>2. WholeInv
  <2>1. Scale \in Nat /\ 0 = 0 * Scale
    BY <1>1, ScaleType DEF TypeOK
  <2>2. WholeLoads(strain)
    BY <2>1 DEF Init, WholeLoads
  <2>3. WholeLoads(strain_old)
    BY GaussPointAssumption DEF GaussPointAssumption, Init, WholeLoads
  <2>. QED
    BY <2>2, <2>3 DEF WholeInv
<1>3. PlaceInv /\ HonestInv /\ CostInv /\ StartInv
  BY DEF Init, PlaceInv, HonestInv, CostInv, StartInv, Solving
<1>4. KeptInv /\ TangentInv
  BY DEF Init, KeptInv, TrialOver, TangentInv, Solving
<1>. QED
  BY <1>1, <1>2, <1>3, <1>4 DEF Inv

(* The entry of newton_raphson, with a vector of the right type.           *)
LEMMA EnterType ==
  ASSUME NEW v \in Field, NEW target \in Target, EnterNewton(v, target)
  PROVE  /\ pc' = "solve" /\ u' \in Field /\ u'.at = target
         /\ start' = v.at /\ start' \in Target
         /\ run' = ZeroNewton /\ run' \in Newton /\ small' \in BOOLEAN
BY ZeroType DEF EnterNewton, Field

(***************************************************************************)
(* One lemma for each step of the routine.                                 *)
(***************************************************************************)

LEMMA CallStep ==
  ASSUME Inv, NEW e \in Loads, Call(e), UNCHANGED parameters
  PROVE  Inv'
<1>. e \in Int /\ Scale \in Nat \ {0} /\ Scale' = Scale
  BY GaussPointAssumption, ScaleType DEF GaussPointAssumption, Inv, TypeOK, parameters, Scale
<1>1. strain' = e * Scale /\ strain' \in Int
  BY DEF Call
<1>2. /\ pc' = "solve" /\ u' \in Field /\ u'.at = Plain(strain') /\ start' \in Target
      /\ run' = ZeroNewton /\ run' \in Newton /\ small' \in BOOLEAN
  BY <1>1, PlainType, EnterType DEF Call, Inv, TypeOK
<1>3. TypeOK'
  BY <1>1, <1>2, ZeroType DEF Call, Inv, TypeOK, parameters
<1>4. WholeInv'
  BY <1>1 DEF Call, Inv, WholeInv, WholeLoads
<1>5. PlaceInv' /\ HonestInv' /\ CostInv'
  BY <1>2 DEF Call, PlaceInv, HonestInv, CostInv, Solving, ZeroNewton
<1>6. KeptInv' /\ TangentInv'
  BY <1>2 DEF Call, KeptInv, TrialOver, TangentInv, Solving
<1>7. StartInv'
  BY DEF Call, Inv, StartInv, Plain, parameters
<1>. QED
  BY <1>3, <1>4, <1>5, <1>6, <1>7 DEF Inv

LEMMA CountType ==
  ASSUME NEW n \in Newton, NEW its \in 0 .. NrMaxIts, NEW solver_its \in Nat
  PROVE  [n EXCEPT !.its = its, !.solver_its = solver_its] \in Newton
BY DEF Newton

LEMMA NewtonStepInv ==
  ASSUME Inv, NewtonStep, UNCHANGED parameters
  PROVE  Inv'
<1>1. /\ UNCHANGED <<strain, strain_old, stress, ctan, allocated, converged,
                     subiterated, cost, u_n, u_k, purpose, k, newton, start, committed,
                     coupling, nsub>>
      /\ pc = "solve" /\ pc' \in {"solve", "return"}
      /\ u' = u \/ u' = [u EXCEPT !.ok = TRUE] \/ u' = [u EXCEPT !.ok = small]
  BY DEF NewtonStep, NewtonConverged, NewtonIterate, NewtonExhausted, gp, outputs,
         locals, solver, parameters
<1>2. u' \in Field /\ u'.at = u.at
  BY <1>1 DEF Inv, TypeOK, Field
<1>3. run \in Newton /\ work \in Nat /\ small \in BOOLEAN /\ ~run.converged
  BY <1>1 DEF Inv, TypeOK, HonestInv
<1>4. /\ run' \in Newton /\ work' \in Nat /\ small' \in BOOLEAN
      /\ pc' = "solve" => ~run'.converged
      /\ pc' = "return" /\ run'.converged => u'.ok
      /\ work' - run'.solver_its = work - run.solver_its
  <2>1. CASE NewtonConverged
    BY <1>2, <1>3, <2>1 DEF NewtonConverged, Newton, Inv, TypeOK, Field
  <2>2. CASE NewtonIterate
    <3>. CgIts \subseteq Nat /\ NrMaxIts \in Nat
      BY GaussPointAssumption DEF GaussPointAssumption
    <3>. PICK cg \in CgIts : /\ run' = [run EXCEPT !.its = @ + 1, !.solver_its = @ + cg]
                             /\ work' = work + cg
      BY <2>2 DEF NewtonIterate
    <3>1. /\ pc' = "solve" /\ small' \in BOOLEAN /\ run.its < NrMaxIts
          /\ run.its \in Nat /\ run.solver_its \in Nat /\ run.converged = FALSE
      BY <1>1, <1>3, <2>2 DEF NewtonIterate, Newton
    <3>2. /\ run'.its = run.its + 1 /\ run'.solver_its = run.solver_its + cg
          /\ run'.converged = FALSE
      BY <1>3, <3>1 DEF Newton
    <3>3. run' \in Newton
      <4>. run.its + 1 \in 0 .. NrMaxIts /\ run.solver_its + cg \in Nat
        BY <3>1
      <4>. QED
        BY <1>3, CountType
    <3>. QED
      BY <1>3, <3>1, <3>2, <3>3
  <2>3. CASE NewtonExhausted
    BY <1>3, <2>3 DEF NewtonExhausted, solver
  <2>. QED
    BY <2>1, <2>2, <2>3 DEF NewtonStep
<1>5. TypeOK'
  BY <1>1, <1>2, <1>4 DEF Inv, TypeOK
<1>6. WholeInv'
  BY <1>1 DEF Inv, WholeInv, WholeLoads, Scale
<1>7. PlaceInv' /\ HonestInv'
  BY <1>1, <1>2, <1>4
     DEF Inv, PlaceInv, HonestInv, Solving, SubStrain, Increment, Scale, Plain, Perturbed
<1>8. CostInv'
  BY <1>1, <1>3, <1>4 DEF Inv, TypeOK, CostInv, Solving, Newton
<1>9. KeptInv'
  BY <1>1 DEF Inv, KeptInv, TrialOver, Solving, Plain
<1>10. TangentInv'
  BY <1>1 DEF Inv, TangentInv, Solving, ColumnMade, Perturbed
<1>11. StartInv'
  BY <1>1 DEF Inv, StartInv, Solving, StartStrain, Increment, Scale, Plain
<1>. QED
  BY <1>5, <1>6, <1>7, <1>8, <1>9, <1>10, <1>11 DEF Inv

(* The end of the trial solution, and of the last sub-iteration.           *)
LEMMA TrialReturnStep ==
  ASSUME Inv, TrialReturn, UNCHANGED parameters
  PROVE  Inv'
<1>1. /\ UNCHANGED <<strain, strain_old, allocated, u_n, committed, stress, ctan,
                     coupling, nsub>>
      /\ pc = "return" /\ purpose = "trial" /\ newton' = run
      /\ cost' = cost + run.solver_its /\ converged' = run.converged
      /\ work = cost + run.solver_its /\ u.at = Plain(strain)
      /\ run.converged => u.ok
      /\ u \in Field /\ u_n \in Field /\ run \in Newton /\ work \in Nat /\ cost \in Nat
      /\ small \in BOOLEAN /\ nsub \in Nat /\ start \in Target
  BY GaussPointAssumption
     DEF GaussPointAssumption, TrialReturn, CostOfRun, gp, parameters, Inv, TypeOK,
         PlaceInv, HonestInv, CostInv, Solving
<1>2. run.solver_its \in Nat /\ run.converged \in BOOLEAN /\ cost' \in Nat
  BY <1>1 DEF Newton
<1>3. u = [at |-> u.at, ok |-> u.ok] /\ u.ok \in BOOLEAN
  BY <1>1 DEF Field
<1>4. CASE ~run.converged /\ Subiterations /\ nsub > 0
  <2>1. /\ subiterated' /\ subiterated' \in BOOLEAN /\ purpose' = "sub" /\ k' = 0
        /\ EnterNewton(u_n, Plain(SubStrain(0))) /\ u_k' = u /\ work' = work
    BY <1>4 DEF TrialReturn
  <2>2. Plain(SubStrain(0)) \in Target
    BY SubStrainType, PlainType DEF Inv
  <2>3. /\ pc' = "solve" /\ u' \in Field /\ u'.at = Plain(SubStrain(0))
        /\ start' = u_n.at /\ start' \in Target
        /\ run' = ZeroNewton /\ run' \in Newton /\ small' \in BOOLEAN
    BY <1>1, <2>1, <2>2, EnterType
  <2>4. TypeOK'
    BY <1>1, <1>2, <2>1, <2>3 DEF Inv, TypeOK
  <2>5. WholeInv'
    BY <1>1 DEF Inv, WholeInv, WholeLoads, Scale
  <2>6. PlaceInv' /\ HonestInv'
    BY <1>1, <1>4, <2>1, <2>3 DEF PlaceInv, HonestInv, Solving, SubStrain, Increment, Scale, Plain, ZeroNewton
  <2>7. CostInv' /\ KeptInv' /\ TangentInv'
    BY <1>1, <1>2, <2>1, <2>3
       DEF CostInv, KeptInv, TrialOver, TangentInv, Solving, ZeroNewton
  <2>8. StartInv'
    <3>1. StartStrain(0) = strain_old
      BY StartStrains DEF Inv
    <3>2. (StartStrain(k))' = StartStrain(0)
      BY <1>1, <2>1 DEF StartStrain, Increment, Scale
    <3>. QED
      BY <1>1, <1>4, <2>1, <2>3, <3>1, <3>2 DEF Inv, StartInv, Plain
  <2>. QED
    BY <2>4, <2>5, <2>6, <2>7, <2>8 DEF Inv
<1>5. CASE ~run.converged /\ Subiterations /\ ~(nsub > 0)
  <2>1. /\ subiterated' /\ subiterated' \in BOOLEAN /\ purpose' = "sub" /\ k' = 0
        /\ u' = u_n /\ u_k' = u_n /\ pc' = "stress" /\ work' = work /\ run' = run
        /\ small' = small /\ start' = start
    BY <1>5 DEF TrialReturn, solver
  <2>2. TypeOK'
    BY <1>1, <1>2, <2>1 DEF Inv, TypeOK
  <2>3. WholeInv'
    BY <1>1 DEF Inv, WholeInv, WholeLoads, Scale
  <2>4. PlaceInv' /\ HonestInv' /\ CostInv' /\ TangentInv'
    BY <1>1, <2>1 DEF PlaceInv, HonestInv, CostInv, TangentInv, Solving
  <2>5. KeptInv'
    BY <1>1, <1>5, <2>1 DEF KeptInv
  <2>6. StartInv'
    BY <1>1, <2>1 DEF Inv, StartInv, Solving, Plain
  <2>. QED
    BY <2>2, <2>3, <2>4, <2>5, <2>6 DEF Inv
<1>6. CASE run.converged \/ ~Subiterations
  <2>1. /\ u_k' = u /\ pc' = "stress" /\ work' = work /\ run' = run /\ small' = small
        /\ start' = start
        /\ UNCHANGED <<subiterated, purpose, k, u>>
    BY <1>6 DEF TrialReturn, solver
  <2>2. TypeOK'
    BY <1>1, <1>2, <2>1 DEF Inv, TypeOK
  <2>3. WholeInv'
    BY <1>1 DEF Inv, WholeInv, WholeLoads, Scale
  <2>4. PlaceInv' /\ HonestInv' /\ CostInv' /\ TangentInv'
    BY <1>1, <2>1 DEF PlaceInv, HonestInv, CostInv, TangentInv, Solving
  <2>5. KeptInv'
    BY <1>1, <1>3, <2>1 DEF KeptInv, Plain
  <2>6. StartInv'
    BY <1>1, <2>1 DEF Inv, StartInv, Solving, Plain
  <2>. QED
    BY <2>2, <2>3, <2>4, <2>5, <2>6 DEF Inv
<1>. QED
  BY <1>1, <1>2, <1>4, <1>5, <1>6

LEMMA SubReturnStep ==
  ASSUME Inv, SubReturn, UNCHANGED parameters
  PROVE  Inv'
<1>1. /\ UNCHANGED <<strain, strain_old, allocated, u_n, committed, stress, ctan,
                     subiterated, purpose, coupling, nsub>>
      /\ pc = "return" /\ purpose = "sub" /\ newton' = run /\ k' = k + 1
      /\ cost' = cost + run.solver_its
      /\ work = cost + run.solver_its
      /\ u.at = Plain(SubStrain(k)) /\ k < nsub
      /\ run.converged => u.ok
      /\ u \in Field /\ u_n \in Field /\ run \in Newton /\ work \in Nat /\ cost \in Nat
      /\ small \in BOOLEAN /\ nsub \in Nat /\ k \in Nat /\ start \in Target
  BY GaussPointAssumption
     DEF GaussPointAssumption, SubReturn, CostOfRun, gp, parameters, Inv, TypeOK,
         PlaceInv, HonestInv, CostInv, Solving
<1>2. run.solver_its \in Nat /\ run.converged \in BOOLEAN /\ cost' \in Nat
  BY <1>1 DEF Newton
<1>3. u = [at |-> u.at, ok |-> u.ok] /\ u.ok \in BOOLEAN
  BY <1>1 DEF Field
<1>4. CASE k + 1 < nsub
  <2>1. /\ EnterNewton(u, Plain(SubStrain(k + 1)))
        /\ UNCHANGED <<u_k, converged, work>>
    BY <1>4 DEF SubReturn
  <2>2. Plain(SubStrain(k + 1)) \in Target
    BY <1>1, SubStrainType, PlainType DEF Inv
  <2>3. /\ pc' = "solve" /\ u' \in Field /\ u'.at = Plain(SubStrain(k + 1))
        /\ start' = u.at /\ start' \in Target
        /\ run' = ZeroNewton /\ run' \in Newton /\ small' \in BOOLEAN
    BY <1>1, <2>1, <2>2, EnterType
  <2>4. TypeOK'
    BY <1>1, <1>2, <2>1, <2>3 DEF Inv, TypeOK
  <2>5. WholeInv'
    BY <1>1 DEF Inv, WholeInv, WholeLoads, Scale
  <2>6. PlaceInv' /\ HonestInv'
    BY <1>1, <1>4, <2>1, <2>3 DEF PlaceInv, HonestInv, Solving, SubStrain, Increment, Scale, Plain, ZeroNewton
  <2>7. CostInv' /\ KeptInv' /\ TangentInv'
    BY <1>1, <1>2, <2>1, <2>3
       DEF CostInv, KeptInv, TrialOver, TangentInv, Solving, ZeroNewton
  <2>8. StartInv'
    <3>1. StartStrain(k + 1) = SubStrain(k)
      BY <1>1, StartStrains DEF Inv
    <3>2. (StartStrain(k))' = StartStrain(k + 1)
      BY <1>1 DEF StartStrain, Increment, Scale
    <3>. QED
      BY <1>1, <2>1, <2>3, <3>1, <3>2 DEF Inv, StartInv, Plain
  <2>. QED
    BY <2>4, <2>5, <2>6, <2>7, <2>8 DEF Inv
<1>5. CASE ~(k + 1 < nsub)
  <2>1. /\ converged' = run.converged /\ u_k' = u /\ pc' = "stress" /\ work' = work
        /\ UNCHANGED <<u, run, small, start>>
    BY <1>5 DEF SubReturn, solver
  <2>2. TypeOK'
    BY <1>1, <1>2, <2>1 DEF Inv, TypeOK
  <2>3. WholeInv'
    BY <1>1 DEF Inv, WholeInv, WholeLoads, Scale
  <2>4. PlaceInv' /\ HonestInv' /\ CostInv' /\ TangentInv'
    BY <1>1, <2>1 DEF PlaceInv, HonestInv, CostInv, TangentInv, Solving
  <2>5. u.at = Plain(strain)
    <3>. k = nsub - 1 /\ nsub > 0
      BY <1>1, <1>5
    <3>. QED
      BY <1>1, LastSubStrain DEF Inv, WholeInv
  <2>6. KeptInv'
    BY <1>1, <1>3, <2>1, <2>5 DEF KeptInv, Plain
  <2>7. StartInv'
    BY <1>1, <2>1 DEF Inv, StartInv, Solving, Plain
  <2>. QED
    BY <2>2, <2>3, <2>4, <2>6, <2>7 DEF Inv
<1>. QED
  BY <1>4, <1>5

LEMMA PerturbedType ==
  TypeOK => \A i \in 1 .. NVoi : Perturbed(i) \in Target
BY GaussPointAssumption DEF GaussPointAssumption, TypeOK, Perturbed, Target

LEMMA StressStep ==
  ASSUME Inv, StressAndHistory, UNCHANGED parameters
  PROVE  Inv'
<1>1. /\ UNCHANGED <<strain, strain_old, u_n, committed, ctan, converged, subiterated,
                     cost, u_k, newton, coupling, nsub>>
      /\ pc = "stress" /\ stress' = TrialStress /\ allocated' \in BOOLEAN
      /\ work = cost /\ work \in Nat /\ work' = work
      /\ u_k \in Field /\ start \in Target /\ NVoi \in Nat /\ 1 \in 1 .. NVoi
  BY GaussPointAssumption
     DEF GaussPointAssumption, StressAndHistory, parameters, solver, Inv, TypeOK, CostInv
<1>2. stress' \in StressType
  <2>1. [at |-> Plain(strain), ok |-> TRUE] \in Field
    BY PlainType DEF Inv, TypeOK, Field
  <2>. QED
    BY <1>1, <2>1 DEF TrialStress, StressType
<1>3. WholeInv'
  BY <1>1 DEF Inv, WholeInv, WholeLoads, Scale
<1>4. CASE coupling = "FE_FULL" /\ allocated'
  <2>1. purpose' = "tangent" /\ k' = 1 /\ EnterNewton(u_k, Perturbed(1))
    BY <1>4 DEF StressAndHistory
  <2>2. /\ pc' = "solve" /\ u' \in Field /\ u'.at = Perturbed(1) /\ start' \in Target
        /\ run' = ZeroNewton /\ run' \in Newton /\ small' \in BOOLEAN
    BY <1>1, <2>1, PerturbedType, EnterType DEF Inv
  <2>3. TypeOK'
    BY <1>1, <1>2, <2>1, <2>2 DEF Inv, TypeOK
  <2>4. PlaceInv' /\ HonestInv' /\ CostInv'
    BY <1>1, <1>4, <2>1, <2>2
       DEF PlaceInv, HonestInv, CostInv, Solving, Perturbed, ZeroNewton
  <2>5. KeptInv'
    BY <1>1, <2>2 DEF Inv, KeptInv, TrialOver, Plain
  <2>6. TangentInv'
    BY <1>1, <1>2, <2>1, <2>2 DEF TangentInv, Solving
  <2>7. StartInv'
    BY <1>1, <2>1 DEF Inv, StartInv, Plain
  <2>. QED
    BY <1>3, <2>3, <2>4, <2>5, <2>6, <2>7 DEF Inv
<1>5. CASE ~(coupling = "FE_FULL" /\ allocated')
  <2>1. pc' = "done" /\ UNCHANGED <<purpose, k, u, run, small, start>>
    BY <1>5 DEF StressAndHistory, solver
  <2>2. TypeOK'
    BY <1>1, <1>2, <2>1 DEF Inv, TypeOK
  <2>3. PlaceInv' /\ HonestInv' /\ CostInv'
    BY <1>1, <2>1 DEF PlaceInv, HonestInv, CostInv, Solving
  <2>4. KeptInv'
    BY <1>1, <2>1 DEF Inv, KeptInv, TrialOver, Plain
  <2>5. TangentInv'
    BY <1>1, <1>2, <1>5, <2>1 DEF TangentInv, Solving
  <2>6. StartInv'
    BY <1>1, <2>1 DEF Inv, StartInv, Solving, Plain
  <2>. QED
    BY <1>3, <2>2, <2>3, <2>4, <2>5, <2>6 DEF Inv
<1>. QED
  BY <1>4, <1>5

LEMMA TangentReturnStep ==
  ASSUME Inv, TangentReturn, UNCHANGED parameters
  PROVE  Inv'
<1>1. /\ UNCHANGED <<strain, strain_old, allocated, u_n, committed, stress, converged,
                     subiterated, u_k, purpose, newton, coupling, nsub, work>>
      /\ pc = "return" /\ purpose = "tangent" /\ k' = k + 1
      /\ cost' = cost + newton.solver_its
      /\ ctan' = [ctan EXCEPT ![k] = Difference]
      /\ ctan \in [1 .. NVoi -> Column]
      /\ k \in 1 .. NVoi /\ NVoi \in Nat /\ coupling = "FE_FULL" /\ allocated
      /\ u.at = Perturbed(k)
      /\ u \in Field /\ cost \in Nat /\ newton \in Newton /\ stress \in StressType
      /\ start \in Target
  BY GaussPointAssumption
     DEF GaussPointAssumption, TangentReturn, gp, parameters, solver, Inv, TypeOK,
         PlaceInv, Solving
<1>2. cost' \in Nat /\ k' \in Nat
  BY <1>1 DEF Newton
<1>3. /\ Difference \in Column
      /\ Difference.sig_0 = stress /\ Difference.sig_1.of.at = Perturbed(k)
  BY <1>1 DEF Difference, Column, StressType
<1>4. /\ ctan' \in [1 .. NVoi -> Column]
      /\ ctan'[k] = Difference
      /\ \A i \in 1 .. NVoi : i # k => ctan'[i] = ctan[i]
  BY <1>1, <1>3
<1>5. WholeInv'
  BY <1>1 DEF Inv, WholeInv, WholeLoads, Scale
<1>6. StartInv'
  BY <1>1 DEF Inv, StartInv, Plain
<1>7. \A i \in 1 .. NVoi :
        i < k + 1 => /\ ctan'[i].sig_0 = stress'
                     /\ ctan'[i].sig_1.of.at = [eps |-> strain', dir |-> i]
  <2>. SUFFICES ASSUME NEW i \in 1 .. NVoi, i < k + 1
                PROVE  /\ ctan'[i].sig_0 = stress
                       /\ ctan'[i].sig_1.of.at = Perturbed(i)
    BY <1>1 DEF Perturbed
  <2>1. CASE i = k
    BY <1>3, <1>4, <2>1
  <2>2. CASE i # k
    <3>. i < k
      BY <1>1, <2>2
    <3>. QED
      BY <1>1, <1>4, <2>2 DEF Inv, TangentInv, Solving, ColumnMade
  <2>. QED
    BY <2>1, <2>2
<1>8. CASE k < NVoi
  <2>1. EnterNewton(u, Perturbed(k + 1)) /\ k + 1 \in 1 .. NVoi
    BY <1>1, <1>8 DEF TangentReturn
  <2>2. /\ pc' = "solve" /\ u' \in Field /\ u'.at = Perturbed(k + 1) /\ start' \in Target
        /\ run' = ZeroNewton /\ run' \in Newton /\ small' \in BOOLEAN
    BY <1>1, <2>1, PerturbedType, EnterType DEF Inv
  <2>3. TypeOK'
    BY <1>1, <1>2, <1>4, <2>2 DEF Inv, TypeOK
  <2>4. PlaceInv' /\ HonestInv' /\ CostInv'
    BY <1>1, <2>1, <2>2 DEF PlaceInv, HonestInv, CostInv, Solving, Perturbed, ZeroNewton
  <2>5. KeptInv'
    BY <1>1, <2>2 DEF Inv, KeptInv, TrialOver, Solving, Plain
  <2>6. TangentInv'
    BY <1>1, <1>7, <2>2 DEF TangentInv, Solving, ColumnMade, Perturbed
  <2>. QED
    BY <1>5, <1>6, <2>3, <2>4, <2>5, <2>6 DEF Inv
<1>9. CASE ~(k < NVoi)
  <2>1. pc' = "done" /\ UNCHANGED <<u, run, small, start>> /\ k = NVoi
    BY <1>1, <1>9 DEF TangentReturn, solver
  <2>2. TypeOK'
    BY <1>1, <1>2, <1>4, <2>1 DEF Inv, TypeOK
  <2>3. PlaceInv' /\ HonestInv' /\ CostInv'
    BY <1>1, <2>1 DEF PlaceInv, HonestInv, CostInv, Solving
  <2>4. KeptInv'
    BY <1>1, <2>1 DEF Inv, KeptInv, TrialOver, Solving, Plain
  <2>5. TangentInv'
    BY <1>1, <1>7, <2>1 DEF TangentInv, Solving, ColumnMade, Perturbed
  <2>. QED
    BY <1>5, <1>6, <2>2, <2>3, <2>4, <2>5 DEF Inv
<1>. QED
  BY <1>8, <1>9

LEMMA CallerStep ==
  ASSUME Inv, Commit \/ Reject, UNCHANGED parameters
  PROVE  Inv'
<1>1. /\ pc' = "idle" /\ UNCHANGED <<strain, coupling, nsub>>
      /\ strain_old' \in {strain, strain_old}
      /\ UNCHANGED <<allocated, stress, ctan, converged, subiterated, cost, purpose,
                     k, u, newton, run, small, work, start>>
      /\ {u_n', u_k'} = {u_n, u_k} /\ committed' \in BOOLEAN
  BY DEF Commit, Reject, gp, outputs, locals, solver, parameters, Inv, TypeOK
<1>2. TypeOK'
  BY <1>1 DEF Inv, TypeOK
<1>3. WholeInv'
  BY <1>1 DEF Inv, WholeInv, WholeLoads, Scale
<1>4. PlaceInv' /\ HonestInv' /\ KeptInv' /\ CostInv' /\ TangentInv'
  BY <1>1 DEF PlaceInv, HonestInv, KeptInv, TrialOver, CostInv, TangentInv, Solving
<1>5. StartInv'
  <2>1. CASE Commit
    <3>1. pc = "done" /\ u_n' = u_k /\ strain_old' = strain
      BY <2>1 DEF Commit
    <3>2. nsub > 0 => u_k.at = Plain(strain)
      BY <3>1, GaussPointAssumption DEF GaussPointAssumption, Inv, TypeOK, KeptInv, TrialOver
    <3>. QED
      BY <1>1, <3>1, <3>2 DEF StartInv, Solving, Plain
  <2>2. CASE Reject
    BY <2>2, <1>1 DEF Reject, gp, Inv, StartInv, Solving, Plain
  <2>. QED
    BY <2>1, <2>2
<1>. QED
  BY <1>2, <1>3, <1>4, <1>5 DEF Inv

LEMMA StutterStep == Inv /\ UNCHANGED vars => Inv'
BY DEF vars, gp, outputs, locals, solver, parameters, Inv, TypeOK, WholeInv, WholeLoads,
       Scale, PlaceInv, StartInv, HonestInv, KeptInv, TrialOver, CostInv, TangentInv,
       Solving, SubStrain, StartStrain, Increment, Plain, Perturbed, ColumnMade

(***************************************************************************)
(* Theorems.                                                               *)
(***************************************************************************)

(* Everything the invariant says holds in every state.                     *)
THEOREM Invariance == Spec => []Inv
<1>1. Inv /\ [Next]_vars => Inv'
  BY CallStep, NewtonStepInv, TrialReturnStep, SubReturnStep, StressStep,
     TangentReturnStep, CallerStep, StutterStep DEF Next, Step
<1>. QED
  BY <1>1, InitInv, PTL DEF Spec

(* The state keeps its types: the counters of newton_t stay within         *)
(* nr_max_its, and a strain stays a whole number of increments.            *)
THEOREM TypeCorrectness == Spec => []TypeOK
BY Invariance, PTL DEF Inv

(* "converged" is claimed only for a field in equilibrium with the whole   *)
(* strain: neither an intermediate sub-iteration nor a perturbed solution  *)
(* stands in for it, though one before the last may have failed.           *)
THEOREM ConvergenceIsHonest == Spec => []ConvergedIsHonest
<1>1. Inv => ConvergedIsHonest
  BY DEF Inv, KeptInv, TrialOver, ConvergedIsHonest
<1>. QED
  BY <1>1, Invariance, PTL

(* The sub-iterations arrive exactly at the strain asked for, from any     *)
(* strain_old in any number of steps, and the perturbations of the tangent *)
(* are not left behind in u_k.                                             *)
THEOREM FieldsCarryStrains == Spec => []FieldCarriesStrain
<1>1. Inv => FieldCarriesStrain
  BY DEF Inv, KeptInv, TrialOver, FieldCarriesStrain
<1>. QED
  BY <1>1, Invariance, PTL

(* cost is what the linear solver has done for a FE_ONE_WAY point,         *)
(* sub-iterations and failed ones included.                                *)
THEOREM CostsAreWork == Spec => []CostIsWork
<1>1. Inv => CostIsWork
  BY DEF Inv, CostInv, CostIsWork
<1>. QED
  BY <1>1, Invariance, PTL

(* Every column of the tangent of a non-linear FE_FULL point is new and is *)
(* the difference to the stress the caller reads.                          *)
THEOREM TangentsAreComplete == Spec => []TangentIsComplete
<1>1. Inv => TangentIsComplete
  BY DEF Inv, TangentInv, ColumnMade, TangentIsComplete
<1>. QED
  BY <1>1, Invariance, PTL

(* From the first commit on, a sub-iteration sets off from the field of    *)
(* the strain one increment before its own, whatever has been rejected,    *)
(* has failed or was committed without convergence.                        *)
THEOREM SubStepsAreOfIncrements == Spec => []SubStepsAreIncrements
<1>1. Inv => SubStepsAreIncrements
  <2>. SUFFICES ASSUME Inv, pc = "solve", purpose = "sub", committed
                PROVE  /\ start.dir = 0
                       /\ nsub * (u.at.eps - start.eps) = strain - strain_old
    BY DEF SubStepsAreIncrements
  <2>1. /\ u.at = Plain(SubStrain(k)) /\ start = Plain(StartStrain(k))
        /\ k < nsub /\ k \in Nat
    BY DEF Inv, TypeOK, PlaceInv, StartInv, Solving
  <2>2. u.at.eps - start.eps = Increment /\ start.dir = 0
    BY <2>1, StartStrains DEF Inv, Plain
  <2>3. nsub > 0
    BY <2>1, GaussPointAssumption DEF GaussPointAssumption, Inv, TypeOK
  <2>. QED
    BY <2>2, <2>3, IncrementsMakeStrain DEF Inv, WholeInv
<1>. QED
  BY <1>1, Invariance, PTL
=============================================================================
