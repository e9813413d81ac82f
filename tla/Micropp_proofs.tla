--------------------------- MODULE Micropp_proofs ---------------------------
(***************************************************************************)
(* What holds of Micropp for every number of Gauss points, every coupling, *)
(* every number of workers and every history law threshold.                *)
(***************************************************************************)
EXTENDS Micropp, TLAPS

(***************************************************************************)
(* The inductive invariant.                                                *)
(***************************************************************************)

(* A point is being solved only inside a call of homogenize(), after the   *)
(* loop has come to it.                                                    *)
ControlInv ==
  /\ host \in Outside => \A g \in GP : routine[g] = "off"
  /\ \A g \in GP : routine[g] # "off" =>
       g \in FEPoints /\ (g < igp \/ (g = igp /\ host = "inline"))
  /\ host = "inline" => igp \in FEPoints
  /\ host = "solved" => igp = NGP

(* The pointers of a point go to buffers of that point.                    *)
OwnBuffers ==
  \A g \in GP : /\ vars_n[g] \in {g} \X {"dn", "dk", "hn", "hk"}
               /\ vars_k[g] \in {g} \X {"dn", "dk", "hn", "hk"}
               /\ u_n[g] \in {g} \X {"un", "uk"}
               /\ u_k[g] \in {g} \X {"un", "uk"}
               /\ vars_n[g] # vars_k[g]
               /\ u_n[g] # u_k[g]

(* A new object has no history, and a point without a cell never has any,  *)
(* in memory or in the file.                                               *)
AllocatedInv ==
  /\ host = "new" => \A g \in GP : ~allocated[g]
  /\ \A g \in GP \ FEPoints : ~allocated[g]
  /\ \A f \in disk, g \in GP \ FEPoints : ~f[g].allocated

Inv == TypeOK /\ ControlInv /\ OwnBuffers /\ AllocatedInv

(* A point solved in this call has its trial in vars_k.                    *)
SolvedTrial ==
  \A g \in FEPoints : InCall /\ Solved(g) =>
    Threshold(varsMem[vars_k[g]]) = Evolve(uMem[u_k[g]], varsMem[vars_n[g]])

(***************************************************************************)
(* Types.                                                                  *)
(***************************************************************************)

(* The law stays within the histories there are.                           *)
LEMMA LawType ==
  /\ \A r \in Hist : Threshold(r) \in Hist
  /\ \A e \in Strain, r \in Hist : Evolve(e, r) \in Hist
BY LawAssumption DEF LawAssumption, Strain, Hist, Threshold, Evolve, NonLinear

LEMMA FreshType == 0 \in Fresh /\ Fresh \subseteq Hist /\ Fresh \subseteq Strain
BY MicroppAssumption DEF MicroppAssumption, Hist, Strain

LEMMA OutcomeType ==
  \A e \in Strain : \A o \in NewtonOutcome(e) : o.converged \in BOOLEAN /\ o.u \in Strain
<1>. SUFFICES ASSUME NEW e \in Strain, NEW o \in NewtonOutcome(e)
              PROVE  o.converged \in BOOLEAN /\ o.u \in Strain
  OBVIOUS
<1>1. CASE o = [converged |-> TRUE, u |-> e]
  BY <1>1
<1>2. CASE o \in [converged : {FALSE}, u : Stray]
  BY <1>2, MicroppAssumption DEF MicroppAssumption
<1>. QED
  BY <1>1, <1>2 DEF NewtonOutcome

LEMMA InitType == Init => TypeOK
BY FreshType, MicroppAssumption
   DEF Init, TypeOK, Slice, FreshVars, FreshU, VarsBuffer, UBuffer, Outside,
       MicroppAssumption

LEMMA SnapshotType == TypeOK => Snapshot \in [GP -> FileImage]
<1>. SUFFICES ASSUME TypeOK, NEW g \in GP
              PROVE  Snapshot[g] \in FileImage
  BY DEF Snapshot
<1>1. varsMem[vars_n[g]] \in Hist /\ uMem[u_n[g]] \in Strain
  BY DEF TypeOK
<1>2. 0 \in Hist /\ 0 \in Strain
  BY LawAssumption DEF LawAssumption, Hist, Strain
<1>. QED
  BY <1>1, <1>2 DEF Snapshot, FileImage

LEMMA TypeStep == TypeOK /\ ControlInv /\ [Next]_vars => TypeOK'
<1>. SUFFICES ASSUME TypeOK, ControlInv, [Next]_vars PROVE TypeOK'
  OBVIOUS
<1>. USE DEF TypeOK
<1>1. ASSUME NEW g \in GP, NEW e \in Loads, SetStrain(g, e) PROVE TypeOK'
  <2>. e \in Strain
    BY MicroppAssumption DEF MicroppAssumption
  <2>. QED
    BY <1>1 DEF SetStrain, flags, pointers, memory, Outside
<1>2. CASE Homogenize
  BY <1>2, MicroppAssumption
     DEF Homogenize, values, flags, pointers, memory, MicroppAssumption
<1>3. CASE HomogenizeLinear
  BY <1>3 DEF HomogenizeLinear, flags, pointers, memory, Outside
<1>4. CASE LoopLinear
  <2>. igp \in GP /\ igp + 1 \in 0 .. NGP
    BY <1>4, MicroppAssumption DEF LoopLinear, GP, MicroppAssumption
  <2>. QED
    BY <1>4 DEF LoopLinear, flags, pointers, memory
<1>5. CASE LoopSpawn
  <2>. igp \in GP /\ igp + 1 \in 0 .. NGP
    BY <1>5, MicroppAssumption DEF LoopSpawn, GP, MicroppAssumption
  <2>. QED
    BY <1>5 DEF LoopSpawn, values, flags, pointers, memory
<1>6. CASE LoopInline
  BY <1>6 DEF LoopInline, values, flags, pointers, memory
<1>7. CASE InlineReturn
  <2>. igp \in GP /\ igp + 1 \in 0 .. NGP
    BY <1>7, MicroppAssumption
       DEF InlineReturn, ControlInv, FEPoints, GP, MicroppAssumption
  <2>. QED
    BY <1>7 DEF InlineReturn, values, flags, pointers, memory
<1>8. CASE Taskwait
  BY <1>8 DEF Taskwait, values, flags, pointers, memory, Outside
<1>9. ASSUME NEW g \in GP, StartTask(g) PROVE TypeOK'
  BY <1>9 DEF StartTask, values, flags, pointers, memory
<1>10. ASSUME NEW g \in GP, NewtonSolve(g) PROVE TypeOK'
  <2>. \A o \in NewtonOutcome(strain[g]) : o.converged \in BOOLEAN /\ o.u \in Strain
    BY OutcomeType
  <2>. QED
    BY <1>10 DEF NewtonSolve, values, pointers
<1>11. ASSUME NEW g \in GP, SubIterate(g) PROVE TypeOK'
  <2>. \A o \in NewtonOutcome(strain[g]) : o.converged \in BOOLEAN /\ o.u \in Strain
    BY OutcomeType
  <2>. QED
    BY <1>11 DEF SubIterate, values, pointers
<1>12. ASSUME NEW g \in GP, EvolveVars(g) PROVE TypeOK'
  <2>1. Stress(g) \in Strain
    BY DEF Stress
  <2>2. Evolve(uMem[u_k[g]], OldHistory(g)) \in Hist
    BY LawType DEF OldHistory
  <2>. QED
    BY <1>12, <2>1, <2>2 DEF EvolveVars, pointers
<1>13. CASE UpdateVars
  BY <1>13 DEF UpdateVars, flags, memory, Outside
<1>14. CASE WriteRestart
  BY <1>14, SnapshotType DEF WriteRestart, values, flags, pointers, memory, control
<1>15. CASE ReadRestart
  <2>. PICK file \in disk : ReadRestart!(file)
    BY <1>15 DEF ReadRestart
  <2>. file \in [GP -> FileImage] /\ 0 \in Hist
    BY LawAssumption DEF LawAssumption, Hist
  <2>. QED
    BY DEF FileImage, VarsBuffer, UBuffer, values, Outside
<1>16. CASE Recreate
  BY <1>16, FreshType, MicroppAssumption
     DEF Recreate, Slice, FreshVars, FreshU, VarsBuffer, UBuffer, Outside,
         MicroppAssumption
<1>17. CASE UNCHANGED vars
  BY <1>17 DEF vars, values, flags, pointers, memory, control
<1>. QED
  BY <1>1, <1>2, <1>3, <1>4, <1>5, <1>6, <1>7, <1>8, <1>9, <1>10, <1>11, <1>12,
     <1>13, <1>14, <1>15, <1>16, <1>17 DEF Next, Loop, Solve

(***************************************************************************)
(* Control, ownership of the buffers, and where there can be a history.    *)
(***************************************************************************)

LEMMA InitInv == Init => Inv
<1>. SUFFICES ASSUME Init PROVE Inv
  OBVIOUS
<1>1. TypeOK
  BY InitType
<1>2. ControlInv
  BY DEF Init, ControlInv
<1>3. OwnBuffers
  BY DEF Init, OwnBuffers, Slice
<1>4. AllocatedInv
  BY DEF Init, AllocatedInv, FEPoints
<1>. QED
  BY <1>1, <1>2, <1>3, <1>4 DEF Inv

(* Which actions move a pointer, and which change a flag or the file.      *)
LEMMA PointersMove ==
  [Next]_vars => \/ UpdateVars \/ ReadRestart \/ Recreate
                 \/ UNCHANGED pointers
BY DEF Next, Loop, Solve, SetStrain, Homogenize, HomogenizeLinear, LoopLinear,
       LoopSpawn, LoopInline, InlineReturn, Taskwait, StartTask, NewtonSolve,
       SubIterate, EvolveVars, WriteRestart, vars

LEMMA AllocatedMoves ==
  [Next]_vars => \/ \E g \in GP : EvolveVars(g)
                 \/ ReadRestart \/ Recreate
                 \/ UNCHANGED allocated
BY DEF Next, Loop, Solve, SetStrain, Homogenize, HomogenizeLinear, LoopLinear,
       LoopSpawn, LoopInline, InlineReturn, Taskwait, StartTask, NewtonSolve,
       SubIterate, UpdateVars, WriteRestart, vars, flags

LEMMA DiskMoves == [Next]_vars => WriteRestart \/ UNCHANGED disk
BY DEF Next, Loop, Solve, SetStrain, Homogenize, HomogenizeLinear, LoopLinear,
       LoopSpawn, LoopInline, InlineReturn, Taskwait, StartTask, NewtonSolve,
       SubIterate, EvolveVars, UpdateVars, ReadRestart, Recreate, vars

LEMMA BecomesNew == [Next]_vars /\ host' = "new" => host = "new" \/ Recreate
BY DEF Next, Loop, Solve, SetStrain, Homogenize, HomogenizeLinear, LoopLinear,
       LoopSpawn, LoopInline, InlineReturn, Taskwait, StartTask, NewtonSolve,
       SubIterate, EvolveVars, UpdateVars, WriteRestart, ReadRestart, vars, control

LEMMA HistoryMoves ==
  [Next]_vars => \/ \E g \in GP : EvolveVars(g)
                 \/ UpdateVars \/ ReadRestart \/ Recreate
                 \/ UNCHANGED <<varsMem, vars_n, vars_k, allocated>>
BY DEF Next, Loop, Solve, SetStrain, Homogenize, HomogenizeLinear, LoopLinear,
       LoopSpawn, LoopInline, InlineReturn, Taskwait, StartTask, NewtonSolve,
       SubIterate, WriteRestart, vars, flags, pointers, memory

LEMMA FieldsMove ==
  [Next]_vars => \/ \E g \in GP : NewtonSolve(g) \/ SubIterate(g)
                 \/ UpdateVars \/ ReadRestart \/ Recreate
                 \/ UNCHANGED <<uMem, u_n, u_k>>
BY DEF Next, Loop, Solve, SetStrain, Homogenize, HomogenizeLinear, LoopLinear,
       LoopSpawn, LoopInline, InlineReturn, Taskwait, StartTask, EvolveVars,
       WriteRestart, vars, pointers, memory

LEMMA OwnBuffersStep == TypeOK /\ OwnBuffers /\ [Next]_vars => OwnBuffers'
<1>. SUFFICES ASSUME TypeOK, OwnBuffers, [Next]_vars PROVE OwnBuffers'
  OBVIOUS
<1>1. CASE UpdateVars
  BY <1>1 DEF UpdateVars, OwnBuffers
<1>2. CASE ReadRestart
  BY <1>2 DEF ReadRestart, OwnBuffers
<1>3. CASE Recreate
  BY <1>3 DEF Recreate, OwnBuffers, Slice
<1>4. CASE UNCHANGED pointers
  BY <1>4 DEF pointers, OwnBuffers
<1>. QED
  BY <1>1, <1>2, <1>3, <1>4, PointersMove

LEMMA ControlStep == TypeOK /\ ControlInv /\ [Next]_vars => ControlInv'
<1>. SUFFICES ASSUME TypeOK, ControlInv, [Next]_vars PROVE ControlInv'
  OBVIOUS
<1>. igp \in 0 .. NGP /\ NGP \in Nat /\ routine \in [GP -> {"off", "ready", "newton", "subiterations", "evolve"}]
  BY MicroppAssumption DEF TypeOK, MicroppAssumption
<1>. USE DEF ControlInv, Outside
<1>1. ASSUME NEW g \in GP, NEW e \in Loads, SetStrain(g, e) PROVE ControlInv'
  BY <1>1 DEF SetStrain
<1>2. CASE Homogenize
  BY <1>2 DEF Homogenize
<1>3. CASE HomogenizeLinear
  BY <1>3 DEF HomogenizeLinear
<1>4. CASE LoopLinear
  BY <1>4 DEF LoopLinear, GP
<1>5. CASE LoopSpawn
  BY <1>5 DEF LoopSpawn, GP, FEPoints, Linear
<1>6. CASE LoopInline
  BY <1>6 DEF LoopInline, GP, FEPoints, Linear
<1>7. CASE InlineReturn
  BY <1>7 DEF InlineReturn, GP
<1>8. CASE Taskwait
  BY <1>8 DEF Taskwait
<1>9. ASSUME NEW g \in GP, Solve(g) PROVE ControlInv'
  <2>1. routine[g] # "off" /\ UNCHANGED <<host, igp>>
    BY <1>9 DEF Solve, StartTask, NewtonSolve, SubIterate, EvolveVars
  <2>2. \A h \in GP : h # g => routine'[h] = routine[h]
    BY <1>9 DEF Solve, StartTask, NewtonSolve, SubIterate, EvolveVars
  <2>. QED
    BY <2>1, <2>2
<1>10. CASE UpdateVars
  BY <1>10 DEF UpdateVars
<1>11. CASE WriteRestart
  BY <1>11 DEF WriteRestart, control
<1>12. CASE ReadRestart
  BY <1>12 DEF ReadRestart
<1>13. CASE Recreate
  BY <1>13 DEF Recreate
<1>14. CASE UNCHANGED vars
  BY <1>14 DEF vars, control
<1>. QED
  BY <1>1, <1>2, <1>3, <1>4, <1>5, <1>6, <1>7, <1>8, <1>9, <1>10, <1>11, <1>12,
     <1>13, <1>14 DEF Next, Loop

LEMMA AllocatedStep ==
  TypeOK /\ ControlInv /\ AllocatedInv /\ [Next]_vars => AllocatedInv'
<1>. SUFFICES ASSUME TypeOK, ControlInv, AllocatedInv, [Next]_vars
              PROVE  AllocatedInv'
  OBVIOUS
<1>1. host' = "new" => \A g \in GP : ~allocated'[g]
  <2>. SUFFICES ASSUME host' = "new" PROVE \A g \in GP : ~allocated'[g]
    OBVIOUS
  <2>1. CASE Recreate
    BY <2>1 DEF Recreate
  <2>2. CASE host = "new"
    <3>1. ASSUME NEW g \in GP, EvolveVars(g) PROVE FALSE
      BY <2>2, <3>1 DEF EvolveVars, ControlInv, Outside
    <3>2. CASE ReadRestart
      BY <3>2 DEF ReadRestart
    <3>. QED
      BY <2>1, <2>2, <3>1, <3>2, AllocatedMoves DEF AllocatedInv
  <2>. QED
    BY <2>1, <2>2, BecomesNew
<1>2. \A g \in GP \ FEPoints : ~allocated'[g]
  <2>1. ASSUME NEW h \in GP, EvolveVars(h) PROVE \A g \in GP \ FEPoints : ~allocated'[g]
    BY <2>1 DEF EvolveVars, ControlInv, AllocatedInv, TypeOK
  <2>2. CASE ReadRestart
    BY <2>2 DEF ReadRestart, AllocatedInv
  <2>3. CASE Recreate
    BY <2>3 DEF Recreate
  <2>. QED
    BY <2>1, <2>2, <2>3, AllocatedMoves DEF AllocatedInv
<1>3. \A f \in disk', g \in GP \ FEPoints : ~f[g].allocated
  <2>1. CASE WriteRestart
    BY <2>1 DEF WriteRestart, Snapshot, AllocatedInv
  <2>. QED
    BY <2>1, DiskMoves DEF AllocatedInv
<1>. QED
  BY <1>1, <1>2, <1>3 DEF AllocatedInv

LEMMA InvStep == Inv /\ [Next]_vars => Inv'
BY TypeStep, ControlStep, OwnBuffersStep, AllocatedStep DEF Inv

(***************************************************************************)
(* Theorems.                                                               *)
(***************************************************************************)

(* Everything the invariant says holds in every state.                     *)
THEOREM Invariance == Spec => []Inv
BY InitInv, InvStep, PTL DEF Spec

(* The state keeps its types: in particular a pointer never leaves the     *)
(* buffers there are.                                                      *)
THEOREM TypeCorrectness == Spec => []TypeOK
BY Invariance, PTL DEF Inv

(* gp_t::update_vars swaps and gp_t::read_restart replaces buffers without *)
(* ever giving one two roles, so that concurrent tasks write apart and a   *)
(* trial never runs into a committed state.                                *)
THEOREM BuffersStayDisjoint == Spec => []BuffersDisjoint
<1>1. Inv => BuffersDisjoint
  BY DEF Inv, OwnBuffers, BuffersDisjoint
<1>. QED
  BY <1>1, Invariance, PTL

LEMMA CommittedStep ==
  Inv /\ [Next]_vars =>
    \A g \in GP : Committed(g)' = Committed(g) \/ UpdateVars \/ ReadRestart \/ Recreate
<1>. SUFFICES ASSUME Inv, [Next]_vars, NEW g \in GP,
                     ~UpdateVars, ~ReadRestart, ~Recreate
              PROVE  Committed(g)' = Committed(g)
  OBVIOUS
<1>1. UNCHANGED <<vars_n, vars_k, u_n, u_k>>
  BY PointersMove DEF pointers
<1>2. varsMem'[vars_n[g]] = varsMem[vars_n[g]]
  <2>1. ASSUME NEW h \in GP, EvolveVars(h) PROVE varsMem'[vars_n[g]] = varsMem[vars_n[g]]
    BY <2>1 DEF EvolveVars, Inv, OwnBuffers, TypeOK
  <2>. QED
    BY <2>1, HistoryMoves
<1>3. uMem'[u_n[g]] = uMem[u_n[g]]
  <2>1. ASSUME NEW h \in GP, NewtonSolve(h) \/ SubIterate(h)
        PROVE  uMem'[u_n[g]] = uMem[u_n[g]]
    BY <2>1 DEF NewtonSolve, SubIterate, Inv, OwnBuffers, TypeOK
  <2>. QED
    BY <2>1, FieldsMove
<1>. QED
  BY <1>1, <1>2, <1>3 DEF Committed

(* The committed state of a point, history and displacement, survives the  *)
(* tasks, rejected trials and the writing of a file unchanged.             *)
THEOREM CommittedStability == Spec => CommittedIsStable
<1>1. Inv /\ [Next]_vars =>
        [\A g \in GP : Committed(g)' = Committed(g)
           \/ UpdateVars \/ ReadRestart \/ Recreate]_vars
  BY CommittedStep
<1>. QED
  BY <1>1, Invariance, PTL DEF Spec, CommittedIsStable

(***************************************************************************)
(* Histories.  The rest depends on fresh memory holding no history: this   *)
(* is what zero pages give, and what no line of the code establishes.      *)
(***************************************************************************)

FreshIsVirgin == \A r \in Fresh : Virgin(r)

LEMMA UnallocatedInit == FreshIsVirgin /\ Init => UnallocatedIsVirgin
BY DEF FreshIsVirgin, Init, UnallocatedIsVirgin, Slice, FreshVars, VarsBuffer

LEMMA UnallocatedStep ==
  FreshIsVirgin /\ Inv /\ UnallocatedIsVirgin /\ [Next]_vars
    => UnallocatedIsVirgin'
<1>. SUFFICES ASSUME FreshIsVirgin, Inv, UnallocatedIsVirgin, [Next]_vars,
                     NEW g \in GP, ~allocated'[g]
              PROVE  Virgin(varsMem[vars_n[g]])' /\ Virgin(varsMem[vars_k[g]])'
  BY DEF UnallocatedIsVirgin
<1>1. ASSUME NEW h \in GP, EvolveVars(h)
      PROVE  Virgin(varsMem[vars_n[g]])' /\ Virgin(varsMem[vars_k[g]])'
  <2>1. /\ vars_n' = vars_n /\ vars_k' = vars_k
        /\ varsMem'[vars_n[g]] = varsMem[vars_n[g]]
        /\ varsMem'[vars_k[g]] = varsMem[vars_k[g]]
        /\ ~allocated[g]
    <3>1. CASE h = g
      BY <1>1, <3>1 DEF EvolveVars, pointers, Inv, TypeOK
    <3>2. CASE h # g
      <4>. vars_k[h] # vars_n[g] /\ vars_k[h] # vars_k[g]
        BY <3>2 DEF Inv, OwnBuffers
      <4>. QED
        BY <1>1, <3>2 DEF EvolveVars, pointers, Inv, TypeOK
    <3>. QED
      BY <3>1, <3>2
  <2>. QED
    BY <2>1 DEF UnallocatedIsVirgin, Virgin, Threshold
<1>2. CASE UpdateVars
  BY <1>2 DEF UpdateVars, flags, memory, UnallocatedIsVirgin, Virgin, Threshold
<1>3. CASE ReadRestart
  <2>1. PICK file \in disk : ReadRestart!(file)
    BY <1>3 DEF ReadRestart
  <2>2. ~file[g].allocated /\ vars_n'[g] = vars_n[g] /\ vars_k'[g] = vars_k[g]
    BY <2>1
  <2>3. /\ varsMem'[vars_n[g]] = varsMem[vars_n[g]]
        /\ varsMem'[vars_k[g]] = varsMem[vars_k[g]]
    BY <2>1, <2>2 DEF Inv, OwnBuffers, TypeOK
  <2>4. ~allocated[g]
    BY <2>1, <2>2 DEF Inv, AllocatedInv, Snapshot
  <2>. QED
    BY <2>2, <2>3, <2>4 DEF UnallocatedIsVirgin, Virgin, Threshold
<1>4. CASE Recreate
  <2>. varsMem'[vars_n'[g]] \in Fresh /\ varsMem'[vars_k'[g]] \in Fresh
    BY <1>4 DEF Recreate, Slice, FreshVars, VarsBuffer
  <2>. QED
    BY DEF FreshIsVirgin, Virgin, Threshold
<1>5. CASE UNCHANGED <<varsMem, vars_n, vars_k, allocated>>
  BY <1>5 DEF UnallocatedIsVirgin, Virgin, Threshold
<1>. QED
  BY <1>1, <1>2, <1>3, <1>4, <1>5, HistoryMoves

(* A point that is not allocated has nothing to remember: the history the  *)
(* solver reads, the one a commit would put in its place and the one       *)
(* write_restart leaves out are virgin ones, if fresh memory is.           *)
THEOREM UnallocatedStaysVirgin ==
  ASSUME FreshIsVirgin
  PROVE  Spec => []UnallocatedIsVirgin
<1>1. Init => UnallocatedIsVirgin
  BY UnallocatedInit
<1>2. Inv /\ UnallocatedIsVirgin /\ [Next]_vars => UnallocatedIsVirgin'
  BY UnallocatedStep
<1>. QED
  BY <1>1, <1>2, Invariance, PTL DEF Spec

(***************************************************************************)
(* Trials.                                                                 *)
(***************************************************************************)

(* Driving a history a second time changes nothing.                        *)
LEMMA EvolveOnce ==
  \A e \in Strain, r \in Hist : Threshold(Evolve(e, r)) = Evolve(e, r)
BY LawAssumption DEF LawAssumption, Strain, Hist, Threshold, Evolve, NonLinear

(* A field that does not pass the limit leaves a history as it is.         *)
LEMMA EvolveLinear ==
  \A e \in Strain, r \in Hist : ~NonLinear(e, r) => Evolve(e, r) = Threshold(r)
BY DEF Evolve

(* No history becomes smaller.                                             *)
LEMMA EvolveGrows ==
  \A e \in Strain, r \in Hist : Evolve(e, r) >= Threshold(r)
BY LawAssumption DEF LawAssumption, Strain, Hist, Threshold, Evolve, NonLinear

(* The solution of a point ends with the trial of its field in vars_k:     *)
(* also when the point is not allocated and stays so, because then both    *)
(* its buffers hold a virgin history.                                      *)
LEMMA EvolveVarsSolves ==
  ASSUME Inv, UnallocatedIsVirgin, NEW g \in GP, EvolveVars(g)
  PROVE  /\ Threshold(varsMem'[vars_k[g]]) = Evolve(uMem[u_k[g]], varsMem[vars_n[g]])
         /\ \A b \in VarsBuffer : b # vars_k[g] => varsMem'[b] = varsMem[b]
<1>. DEFINE e == uMem[u_k[g]]
            r == varsMem[vars_n[g]]
<1>1. e \in Strain /\ r \in Hist /\ vars_k[g] \in VarsBuffer
  BY DEF Inv, TypeOK
<1>2. \A b \in VarsBuffer : b # vars_k[g] => varsMem'[b] = varsMem[b]
  BY DEF EvolveVars, Inv, TypeOK
<1>3. CASE allocated[g] \/ NonLinear(e, r)
  <2>1. varsMem'[vars_k[g]] = Evolve(e, r)
    BY <1>1, <1>3 DEF EvolveVars, OldHistory, Inv, TypeOK
  <2>. QED
    BY <1>1, <1>2, <2>1, EvolveOnce
<1>4. CASE ~(allocated[g] \/ NonLinear(e, r))
  <2>1. varsMem' = varsMem
    BY <1>4 DEF EvolveVars, OldHistory
  <2>2. Evolve(e, r) = Threshold(r)
    BY <1>1, <1>4, EvolveLinear
  <2>3. Threshold(r) = Threshold(varsMem[vars_k[g]])
    BY <1>4 DEF UnallocatedIsVirgin, Virgin
  <2>. QED
    BY <1>2, <2>1, <2>2, <2>3
<1>. QED
  BY <1>3, <1>4

LEMMA SolvedTrialStep ==
  Inv /\ UnallocatedIsVirgin /\ SolvedTrial /\ [Next]_vars => SolvedTrial'
<1>. SUFFICES ASSUME Inv, UnallocatedIsVirgin, SolvedTrial, [Next]_vars,
                     NEW g \in FEPoints, (InCall /\ Solved(g))'
              PROVE  (Threshold(varsMem[vars_k[g]])
                        = Evolve(uMem[u_k[g]], varsMem[vars_n[g]]))'
  BY DEF SolvedTrial
<1>. DEFINE Goal == (Threshold(varsMem[vars_k[g]])
                       = Evolve(uMem[u_k[g]], varsMem[vars_n[g]]))'
<1>. g \in GP /\ g \in 0 .. NGP - 1 /\ NGP \in Nat /\ igp \in 0 .. NGP
  BY MicroppAssumption DEF FEPoints, GP, Inv, TypeOK, MicroppAssumption
<1>. USE DEF InCall, Solved, Busy
<1>1. CASE UNCHANGED <<varsMem, vars_n, vars_k, uMem, u_n, u_k>> /\ InCall /\ Solved(g)
  BY <1>1 DEF SolvedTrial, Evolve, NonLinear, Threshold
<1>2. ASSUME NEW h \in GP, NEW e \in Loads, SetStrain(h, e) PROVE Goal
  BY <1>2 DEF SetStrain, Outside
<1>3. CASE Homogenize
  BY <1>3 DEF Homogenize
<1>4. CASE HomogenizeLinear
  BY <1>4 DEF HomogenizeLinear, Outside
<1>5. CASE LoopLinear
  <2>. igp # g
    BY <1>5 DEF LoopLinear, FEPoints
  <2>. QED
    BY <1>1, <1>5 DEF LoopLinear, flags, pointers, memory
<1>6. CASE LoopSpawn
  <2>1. routine'[igp] = "ready"
    BY <1>6 DEF LoopSpawn, Inv, TypeOK, GP
  <2>2. g # igp /\ routine'[g] = routine[g]
    BY <1>6, <2>1 DEF LoopSpawn, Inv, TypeOK
  <2>. QED
    BY <1>1, <1>6, <2>2 DEF LoopSpawn, pointers, memory
<1>7. CASE LoopInline
  <2>1. routine'[igp] = "newton"
    BY <1>7 DEF LoopInline, Inv, TypeOK, GP
  <2>2. g # igp /\ routine'[g] = routine[g]
    BY <1>7, <2>1 DEF LoopInline, Inv, TypeOK
  <2>. QED
    BY <1>1, <1>7, <2>2 DEF LoopInline, pointers, memory
<1>8. CASE InlineReturn
  BY <1>1, <1>8 DEF InlineReturn, pointers, memory
<1>9. CASE Taskwait
  BY <1>1, <1>9 DEF Taskwait, pointers, memory
<1>10. ASSUME NEW h \in GP, StartTask(h) PROVE Goal
  <2>. h # g
    BY <1>10 DEF StartTask, Inv, TypeOK
  <2>. QED
    BY <1>1, <1>10 DEF StartTask, pointers, memory, Inv, TypeOK
<1>11. ASSUME NEW h \in GP, NewtonSolve(h) \/ SubIterate(h) PROVE Goal
  <2>1. h # g
    BY <1>11 DEF NewtonSolve, SubIterate, Inv, TypeOK
  <2>2. u_k[h] # u_k[g]
    BY <2>1 DEF Inv, OwnBuffers
  <2>3. uMem'[u_k[g]] = uMem[u_k[g]] /\ routine'[g] = routine[g]
    BY <1>11, <2>1, <2>2 DEF NewtonSolve, SubIterate, Inv, TypeOK
  <2>4. UNCHANGED <<varsMem, vars_n, vars_k, u_n, u_k, host, igp>>
    BY <1>11 DEF NewtonSolve, SubIterate, pointers
  <2>. QED
    BY <2>3, <2>4 DEF SolvedTrial, Evolve, NonLinear, Threshold
<1>12. ASSUME NEW h \in GP, EvolveVars(h) PROVE Goal
  <2>1. UNCHANGED <<vars_n, vars_k, u_n, u_k, uMem, host, igp>>
    BY <1>12 DEF EvolveVars, pointers
  <2>2. /\ Threshold(varsMem'[vars_k[h]]) = Evolve(uMem[u_k[h]], varsMem[vars_n[h]])
        /\ \A b \in VarsBuffer : b # vars_k[h] => varsMem'[b] = varsMem[b]
    BY <1>12, EvolveVarsSolves
  <2>3. varsMem'[vars_n[g]] = varsMem[vars_n[g]]
    BY <2>2 DEF Inv, OwnBuffers, TypeOK
  <2>4. CASE h = g
    BY <2>1, <2>2, <2>3, <2>4 DEF Evolve, NonLinear, Threshold
  <2>5. CASE h # g
    <3>1. varsMem'[vars_k[g]] = varsMem[vars_k[g]]
      BY <2>2, <2>5 DEF Inv, OwnBuffers, TypeOK
    <3>2. routine'[g] = routine[g]
      BY <1>12, <2>5 DEF EvolveVars, Inv, TypeOK
    <3>. QED
      BY <2>1, <2>3, <3>1, <3>2 DEF SolvedTrial, Evolve, NonLinear, Threshold
  <2>. QED
    BY <2>4, <2>5
<1>13. CASE UpdateVars
  BY <1>13 DEF UpdateVars
<1>14. CASE WriteRestart
  BY <1>1, <1>14 DEF WriteRestart, pointers, memory, control
<1>15. CASE ReadRestart
  BY <1>15 DEF ReadRestart
<1>16. CASE Recreate
  BY <1>16 DEF Recreate
<1>17. CASE UNCHANGED vars
  BY <1>1, <1>17 DEF vars, pointers, memory, control
<1>. QED
  BY <1>2, <1>3, <1>4, <1>5, <1>6, <1>7, <1>8, <1>9, <1>10, <1>11, <1>12, <1>13,
     <1>14, <1>15, <1>16, <1>17 DEF Next, Loop, Solve

(* What update_vars would commit after homogenize() is, for every point    *)
(* with a cell, the evolution of its committed history under its last      *)
(* field, whatever the order in which the tasks have run.                  *)
THEOREM TrialsEvolve ==
  ASSUME FreshIsVirgin
  PROVE  Spec => []TrialEvolvesCommitted
<1>1. Init => SolvedTrial
  BY DEF Init, SolvedTrial, InCall, Busy
<1>2. Inv /\ UnallocatedIsVirgin /\ SolvedTrial /\ [Next]_vars => SolvedTrial'
  BY SolvedTrialStep
<1>3. Inv /\ SolvedTrial => TrialEvolvesCommitted
  <2>. SUFFICES ASSUME Inv, SolvedTrial, host = "solved", NEW g \in FEPoints
                PROVE  InCall /\ Solved(g)
    BY DEF SolvedTrial, TrialEvolvesCommitted
  <2>. g \in GP /\ g < NGP
    BY MicroppAssumption DEF FEPoints, GP, MicroppAssumption
  <2>. QED
    BY DEF Inv, ControlInv, Outside, InCall, Solved
<1>. QED
  BY <1>1, <1>2, <1>3, Invariance, UnallocatedStaysVirgin, PTL DEF Spec

(* Damage and plastic strain do not heal.                                  *)
THEOREM HistoriesGrow ==
  ASSUME FreshIsVirgin
  PROVE  Spec => HistoryGrows
<1>1. Inv /\ UnallocatedIsVirgin /\ TrialEvolvesCommitted /\ [Next]_vars =>
        [\A g \in GP : Threshold(varsMem[vars_n[g]])' >= Threshold(varsMem[vars_n[g]])
           \/ ReadRestart \/ Recreate]_vars
  <2>. SUFFICES ASSUME Inv, UnallocatedIsVirgin, TrialEvolvesCommitted, [Next]_vars,
                       NEW g \in GP, ~ReadRestart, ~Recreate
                PROVE  Threshold(varsMem'[vars_n'[g]]) >= Threshold(varsMem[vars_n[g]])
    BY DEF Threshold
  <2>1. Threshold(varsMem[vars_n[g]]) \in Nat
    BY LawType DEF Inv, TypeOK, Hist
  <2>2. CASE Committed(g)' = Committed(g)
    BY <2>1, <2>2 DEF Committed
  <2>3. CASE UpdateVars /\ g \in FEPoints
    <3>1. varsMem'[vars_n'[g]] = varsMem[vars_k[g]] /\ host = "solved"
      BY <2>3 DEF UpdateVars, memory
    <3>. QED
      BY <2>3, <3>1, EvolveGrows DEF TrialEvolvesCommitted, Inv, TypeOK
  <2>4. CASE UpdateVars /\ g \notin FEPoints
    <3>1. varsMem'[vars_n'[g]] = varsMem[vars_k[g]]
      BY <2>4 DEF UpdateVars, memory
    <3>2. Threshold(varsMem[vars_k[g]]) = Threshold(varsMem[vars_n[g]])
      BY <2>4 DEF UnallocatedIsVirgin, Virgin, Inv, AllocatedInv
    <3>. QED
      BY <2>1, <3>1, <3>2
  <2>. QED
    BY <2>2, <2>3, <2>4, CommittedStep
<1>. QED
  BY <1>1, Invariance, UnallocatedStaysVirgin, TrialsEvolve, PTL DEF Spec, HistoryGrows

(* A cell whose field has passed the limit in the trial is reported        *)
(* non-linear: its trial is above the threshold, which a point that is not *)
(* allocated does not have.                                                *)
THEOREM PassedLimitsAreReported ==
  ASSUME FreshIsVirgin
  PROVE  Spec => []PassedLimitIsReported
<1>1. Inv /\ UnallocatedIsVirgin /\ TrialEvolvesCommitted => PassedLimitIsReported
  <2>. SUFFICES ASSUME Inv, UnallocatedIsVirgin, TrialEvolvesCommitted,
                       host = "solved", NEW g \in FEPoints,
                       uMem[u_k[g]] > Xt, ~allocated[g]
                PROVE  FALSE
    BY DEF PassedLimitIsReported
  <2>1. g \in GP /\ uMem[u_k[g]] \in Strain /\ varsMem[vars_n[g]] \in Hist
    BY DEF FEPoints, Inv, TypeOK
  <2>2. Evolve(uMem[u_k[g]], varsMem[vars_n[g]]) = Xt
    BY <2>1 DEF TrialEvolvesCommitted, UnallocatedIsVirgin, Virgin
  <2>. QED
    BY <2>1, <2>2, LawAssumption
       DEF LawAssumption, Strain, Hist, Evolve, NonLinear, Threshold
<1>. QED
  BY <1>1, Invariance, UnallocatedStaysVirgin, TrialsEvolve, PTL

(***************************************************************************)
(* Stresses.                                                               *)
(***************************************************************************)

(* A solution that says it has converged has left the field of the strain  *)
(* it was called for; a point that is done has the stress of that strain.  *)
StressInv ==
  /\ \A g \in GP : routine[g] = "evolve" /\ converged[g] => uMem[u_k[g]] = strain[g]
  /\ \A g \in GP : /\ InCall /\ Solved(g)
                   /\ converged[g] \/ LinStress
                   => stress[g] = strain[g]

LEMMA StressStep == Inv /\ StressInv /\ [Next]_vars => StressInv'
<1>. SUFFICES ASSUME Inv, StressInv, [Next]_vars, NEW g \in GP
              PROVE  /\ (routine[g] = "evolve" /\ converged[g]
                           => uMem[u_k[g]] = strain[g])'
                     /\ (InCall /\ Solved(g) /\ (converged[g] \/ LinStress)
                           => stress[g] = strain[g])'
  BY DEF StressInv
<1>. DEFINE Goal == /\ (routine[g] = "evolve" /\ converged[g]
                           => uMem[u_k[g]] = strain[g])'
                    /\ (InCall /\ Solved(g) /\ (converged[g] \/ LinStress)
                           => stress[g] = strain[g])'
<1>. g \in 0 .. NGP - 1 /\ NGP \in Nat /\ igp \in 0 .. NGP
  BY MicroppAssumption DEF GP, Inv, TypeOK, MicroppAssumption
<1>. USE DEF InCall, Solved, Busy
<1>1. CASE /\ UNCHANGED <<strain, stress, converged, uMem, u_k>>
           /\ routine[g] = routine'[g]
           /\ InCall' /\ Solved(g)' => InCall /\ Solved(g)
  BY <1>1 DEF StressInv
<1>2. CASE /\ host' \in Outside \ {"solved"}
           /\ routine'[g] = "off"
  BY <1>2 DEF Outside
<1>3. ASSUME NEW h \in GP, NEW e \in Loads, SetStrain(h, e) PROVE Goal
  BY <1>2, <1>3 DEF SetStrain, Outside, Inv, ControlInv
<1>4. CASE Homogenize
  BY <1>4 DEF Homogenize, Inv, ControlInv
<1>5. CASE HomogenizeLinear
  BY <1>2, <1>5 DEF HomogenizeLinear, Outside, Inv, ControlInv
<1>6. CASE LoopLinear
  <2>1. UNCHANGED <<strain, routine, converged, uMem, u_k, host>>
    BY <1>6 DEF LoopLinear, flags, pointers, memory
  <2>2. CASE igp = g
    <3>. routine[g] = "off" /\ stress'[g] = strain[g]
      BY <1>6, <2>2 DEF LoopLinear, Inv, ControlInv, FEPoints, TypeOK
    <3>. QED
      BY <2>1
  <2>3. CASE igp # g
    <3>. stress'[g] = stress[g] /\ host = "looping" /\ igp' = igp + 1
      BY <1>6, <2>3 DEF LoopLinear, Inv, TypeOK
    <3>. QED
      BY <2>1, <2>3 DEF StressInv
  <2>. QED
    BY <2>2, <2>3
<1>7. CASE LoopSpawn
  <2>1. routine'[igp] = "ready" /\ (g # igp => routine'[g] = routine[g])
    BY <1>7 DEF LoopSpawn, Inv, TypeOK, GP
  <2>. QED
    BY <1>1, <1>7, <2>1 DEF LoopSpawn, values, flags, pointers, memory
<1>8. CASE LoopInline
  <2>1. routine'[igp] = "newton" /\ (g # igp => routine'[g] = routine[g])
    BY <1>8 DEF LoopInline, Inv, TypeOK, GP
  <2>. QED
    BY <1>1, <1>8, <2>1 DEF LoopInline, values, flags, pointers, memory
<1>9. CASE InlineReturn
  BY <1>1, <1>9 DEF InlineReturn, values, flags, pointers, memory
<1>10. CASE Taskwait
  BY <1>1, <1>10 DEF Taskwait, values, flags, pointers, memory
<1>11. ASSUME NEW h \in GP, StartTask(h) PROVE Goal
  <2>1. routine'[h] = "newton" /\ (g # h => routine'[g] = routine[g])
    BY <1>11 DEF StartTask, Inv, TypeOK
  <2>. QED
    BY <1>1, <1>11, <2>1 DEF StartTask, values, flags, pointers, memory
<1>12. ASSUME NEW h \in GP, NewtonSolve(h) \/ SubIterate(h) PROVE Goal
  <2>1. UNCHANGED <<strain, stress, u_k, host, igp>>
    BY <1>12 DEF NewtonSolve, SubIterate, values, pointers
  <2>2. CASE h # g
    <3>1. u_k[h] # u_k[g]
      BY <2>2 DEF Inv, OwnBuffers
    <3>2. /\ uMem'[u_k[g]] = uMem[u_k[g]] /\ routine'[g] = routine[g]
          /\ converged'[g] = converged[g]
      BY <1>12, <2>2, <3>1 DEF NewtonSolve, SubIterate, Inv, TypeOK
    <3>. QED
      BY <2>1, <3>2 DEF StressInv
  <2>3. CASE h = g
    <3>1. PICK o \in NewtonOutcome(strain[g]) :
            /\ uMem' = [uMem EXCEPT ![u_k[g]] = o.u]
            /\ converged' = [converged EXCEPT ![g] = o.converged]
      BY <1>12, <2>3 DEF NewtonSolve, SubIterate
    <3>2. o.converged => o.u = strain[g]
      <4>1. CASE o = [converged |-> TRUE, u |-> strain[g]]
        BY <4>1
      <4>2. CASE o \in [converged : {FALSE}, u : Stray]
        BY <4>2
      <4>. QED
        BY <4>1, <4>2 DEF NewtonOutcome
    <3>3. routine'[g] # "off"
      BY <1>12, <2>3 DEF NewtonSolve, SubIterate, Inv, TypeOK
    <3>4. uMem'[u_k[g]] = o.u /\ converged'[g] = o.converged
      BY <3>1 DEF Inv, TypeOK
    <3>. QED
      BY <2>1, <3>2, <3>3, <3>4
  <2>. QED
    BY <2>2, <2>3
<1>13. ASSUME NEW h \in GP, EvolveVars(h) PROVE Goal
  <2>1. UNCHANGED <<strain, converged, u_k, uMem, host, igp>>
    BY <1>13 DEF EvolveVars, pointers
  <2>2. CASE h # g
    <3>. stress'[g] = stress[g] /\ routine'[g] = routine[g]
      BY <1>13, <2>2 DEF EvolveVars, Inv, TypeOK
    <3>. QED
      BY <2>1 DEF StressInv
  <2>3. CASE h = g
    <3>. /\ routine[g] = "evolve" /\ routine'[g] = "off"
         /\ stress'[g] = IF LinStress THEN strain[g] ELSE uMem[u_k[g]]
      BY <1>13, <2>3 DEF EvolveVars, Stress, Inv, TypeOK
    <3>. QED
      BY <2>1 DEF StressInv
  <2>. QED
    BY <2>2, <2>3
<1>14. CASE UpdateVars
  BY <1>2, <1>14 DEF UpdateVars, Outside, Inv, ControlInv
<1>15. CASE WriteRestart
  BY <1>1, <1>15 DEF WriteRestart, values, flags, pointers, memory, control
<1>16. CASE ReadRestart
  BY <1>2, <1>16 DEF ReadRestart, Outside, Inv, ControlInv
<1>17. CASE Recreate
  BY <1>2, <1>17 DEF Recreate, Outside
<1>18. CASE UNCHANGED vars
  BY <1>1, <1>18 DEF vars, values, flags, pointers, memory, control
<1>. QED
  BY <1>3, <1>4, <1>5, <1>6, <1>7, <1>8, <1>9, <1>10, <1>11, <1>12, <1>13, <1>14,
     <1>15, <1>16, <1>17, <1>18 DEF Next, Loop, Solve

(* The stress the caller reads after homogenize() answers the strain it    *)
(* has set last, unless the point reports that it has not converged.       *)
THEOREM StressesAnswerStrains == Spec => []StressAnswersStrain
<1>1. Init => StressInv
  BY DEF Init, StressInv, InCall, Busy
<1>2. Inv /\ StressInv /\ [Next]_vars => StressInv'
  BY StressStep
<1>3. Inv /\ StressInv => StressAnswersStrain
  <2>. SUFFICES ASSUME Inv, StressInv, host = "solved", NEW g \in GP
                PROVE  InCall /\ Solved(g)
    BY DEF StressInv, StressAnswersStrain
  <2>. g < NGP
    BY MicroppAssumption DEF GP, MicroppAssumption
  <2>. QED
    BY DEF Inv, ControlInv, Outside, InCall, Solved
<1>. QED
  BY <1>1, <1>2, <1>3, Invariance, PTL DEF Spec

(***************************************************************************)
(* The refinement: every step of the object is a step of independent       *)
(* materials with memory, or changes nothing a caller could see of them.   *)
(***************************************************************************)

(* A file holds no history for a point it says has none.                   *)
FilesInv == \A f \in disk, g \in GP : ~f[g].allocated => Virgin(f[g].vars)

LEMMA FilesStep == FilesInv /\ [Next]_vars => FilesInv'
<1>. SUFFICES ASSUME FilesInv, [Next]_vars PROVE FilesInv'
  OBVIOUS
<1>1. CASE WriteRestart
  <2>. Virgin(0)
    BY LawAssumption DEF LawAssumption, Virgin, Threshold
  <2>. QED
    BY <1>1 DEF WriteRestart, Snapshot, FilesInv, Virgin, Threshold
<1>. QED
  BY <1>1, DiskMoves DEF FilesInv, Virgin, Threshold

LEMMA LawOfThreshold ==
  ASSUME NEW e, NEW r \in Hist
  PROVE  /\ Threshold(Threshold(r)) = Threshold(r)
         /\ Promise!NonLinear(e, Threshold(r)) = NonLinear(e, r)
         /\ Promise!Evolve(e, Threshold(r)) = Evolve(e, r)
<1>1. Threshold(Threshold(r)) = Threshold(r)
  BY LawAssumption DEF LawAssumption, Hist, Threshold
<1>. QED
  BY <1>1 DEF NonLinear, Evolve, Promise!NonLinear, Promise!Evolve,
              Promise!Threshold, Threshold

(* Between the calls nothing is under way.                                 *)
LEMMA NothingUnderWay ==
  /\ host \in {"new", "idle"} =>
       DoneBar = {} /\ TrialBar = HistBar /\ PhaseBar = "idle"
  /\ host' \in {"new", "idle"} =>
       DoneBar' = {} /\ TrialBar' = HistBar' /\ PhaseBar' = "idle"
BY DEF DoneBar, TrialBar, HistBar, PhaseBar, InCall, Busy

LEMMA PhaseOfHost ==
  /\ host \in Outside => PhaseBar # "busy"
  /\ host \in {"looping", "inline"} <=> PhaseBar = "busy"
  /\ host = "solved" <=> PhaseBar = "solved"
  /\ host' \in {"looping", "inline"} => PhaseBar' = "busy"
  /\ host' = "solved" => PhaseBar' = "solved"
BY DEF PhaseBar, Busy, Outside

(* At the end of a call every point is solved.                             *)
LEMMA AllSolved ==
  ASSUME Inv, host = "solved" \/ (host = "looping" /\ igp = NGP),
         \A g \in GP : routine[g] = "off"
  PROVE  \A g \in GP : InCall /\ Solved(g)
<1>. igp = NGP /\ NGP \in Nat /\ \A g \in GP : g < NGP
  BY MicroppAssumption DEF Inv, ControlInv, GP, MicroppAssumption
<1>. QED
  BY DEF InCall, Busy, Solved

(* What keeps the memory and the set of solved points keeps the histories  *)
(* of both kinds.                                                          *)
LEMMA HistoriesKept ==
  ASSUME UNCHANGED <<varsMem, vars_n, vars_k>>
  PROVE  /\ HistBar' = HistBar
         /\ (\A g \in GP : (InCall /\ Solved(g))' <=> (InCall /\ Solved(g)))
              => DoneBar' = DoneBar /\ TrialBar' = TrialBar
<1>1. HistBar' = HistBar
  BY DEF HistBar, Threshold
<1>2. ASSUME \A g \in GP : (InCall /\ Solved(g))' <=> (InCall /\ Solved(g))
      PROVE  DoneBar' = DoneBar /\ TrialBar' = TrialBar
  BY <1>2 DEF DoneBar, TrialBar, Threshold
<1>. QED
  BY <1>1, <1>2

LEMMA FileKept == UNCHANGED disk => SavedBar' = SavedBar
BY DEF SavedBar

LEMMA InitImplements == FreshIsVirgin /\ Init => Promise!CInit
<1>. SUFFICES ASSUME FreshIsVirgin, Init PROVE Promise!CInit
  OBVIOUS
<1>1. strain \in [GP -> Strain]
  BY FreshType DEF Init
<1>2. HistBar = [g \in GP |-> Xt]
  BY DEF Init, HistBar, Slice, FreshVars, VarsBuffer, FreshIsVirgin, Virgin
<1>3. DoneBar = {} /\ TrialBar = HistBar /\ PhaseBar = "idle"
  BY NothingUnderWay DEF Init
<1>4. SavedBar = {}
  BY DEF Init, SavedBar
<1>5. allocated = [g \in GP |-> FALSE]
  BY DEF Init
<1>. QED
  BY <1>1, <1>2, <1>3, <1>4, <1>5
     DEF Promise!CInit, Promise!Pristine, Promise!Strain, Strain

BarInv == Inv /\ UnallocatedIsVirgin /\ FilesInv

(* The calls of the sequential caller.                                     *)
LEMMA CallerImplements ==
  ASSUME FreshIsVirgin, BarInv,
         \/ \E g \in GP, e \in Loads : SetStrain(g, e)
         \/ Homogenize \/ HomogenizeLinear \/ UpdateVars
         \/ WriteRestart \/ ReadRestart \/ Recreate
  PROVE  Promise!CNext
<1>. USE DEF BarInv
<1>0. /\ strain \in [GP -> Strain] /\ 0 \in GP
      /\ varsMem \in [VarsBuffer -> Hist]
      /\ vars_n \in [GP -> VarsBuffer] /\ vars_k \in [GP -> VarsBuffer]
  BY MicroppAssumption DEF Inv, TypeOK, GP, MicroppAssumption
<1>1. ASSUME NEW g \in GP, NEW e \in Loads, SetStrain(g, e) PROVE Promise!CNext
  <2>1. /\ UNCHANGED <<varsMem, vars_n, vars_k, allocated, disk>>
        /\ host \in Outside /\ host' \in {"new", "idle"}
        /\ strain' = [strain EXCEPT ![g] = e]
    BY <1>1 DEF SetStrain, Outside, flags, pointers, memory
  <2>2. HistBar' = HistBar /\ SavedBar' = SavedBar
    BY <2>1, HistoriesKept, FileKept
  <2>3. Promise!Impose(g, e)
    BY <2>1, <2>2, NothingUnderWay, PhaseOfHost DEF Promise!Impose
  <2>. e \in Promise!Strain
    BY MicroppAssumption DEF MicroppAssumption, Promise!Strain, Strain
  <2>. QED
    BY <2>3 DEF Promise!CNext
<1>2. CASE Homogenize
  <2>1. /\ UNCHANGED <<strain, varsMem, vars_n, vars_k, allocated, disk>>
        /\ host \in Outside /\ host' = "looping" /\ igp' = 0
    BY <1>2 DEF Homogenize, values, flags, pointers, memory
  <2>2. HistBar' = HistBar /\ SavedBar' = SavedBar
    BY <2>1, HistoriesKept, FileKept
  <2>3. \A g \in GP : ~Solved(g)'
    BY <2>1, MicroppAssumption DEF Solved, GP, MicroppAssumption
  <2>4. DoneBar' = {} /\ TrialBar' = HistBar'
    BY <2>3 DEF DoneBar, TrialBar, HistBar
  <2>5. Promise!Begin
    BY <2>1, <2>2, <2>4, PhaseOfHost DEF Promise!Begin
  <2>. QED
    BY <2>5 DEF Promise!CNext
<1>3. CASE HomogenizeLinear
  <2>1. /\ UNCHANGED <<strain, varsMem, vars_n, vars_k, allocated, disk>>
        /\ host \in Outside /\ host' \in {"new", "idle"}
    BY <1>3 DEF HomogenizeLinear, Outside, flags, pointers, memory
  <2>2. HistBar' = HistBar /\ SavedBar' = SavedBar
    BY <2>1, HistoriesKept, FileKept
  <2>3. strain' = [strain EXCEPT ![0] = strain[0]]
    BY <1>0, <2>1
  <2>4. Promise!Impose(0, strain[0])
    BY <2>1, <2>2, <2>3, NothingUnderWay, PhaseOfHost DEF Promise!Impose
  <2>. strain[0] \in Promise!Strain
    BY <1>0 DEF Promise!Strain, Strain
  <2>. QED
    BY <1>0, <2>4 DEF Promise!CNext
<1>4. CASE UpdateVars
  <2>1. /\ UNCHANGED <<strain, varsMem, allocated, disk>>
        /\ vars_n' = vars_k
        /\ host = "solved" /\ host' = "idle"
    BY <1>4 DEF UpdateVars, flags, memory
  <2>2. \A g \in GP : InCall /\ Solved(g)
    BY <2>1, AllSolved DEF Inv, ControlInv, Outside
  <2>3. HistBar' = TrialBar
    BY <2>1, <2>2 DEF HistBar, TrialBar, Threshold
  <2>4. TrialBar' = TrialBar /\ DoneBar' = {} /\ PhaseBar' = "idle" /\ PhaseBar = "solved"
    BY <2>1, <2>3, NothingUnderWay, PhaseOfHost
  <2>5. Promise!Commit
    BY <2>1, <2>3, <2>4, FileKept DEF Promise!Commit
  <2>. QED
    BY <2>5 DEF Promise!CNext
<1>5. CASE WriteRestart
  <2>1. /\ UNCHANGED <<strain, host, igp, routine, varsMem, vars_n, vars_k, allocated>>
        /\ host \in Outside /\ disk' = {Snapshot}
    BY <1>5 DEF WriteRestart, values, flags, pointers, memory, control
  <2>2. /\ HistBar' = HistBar /\ DoneBar' = DoneBar /\ TrialBar' = TrialBar
        /\ PhaseBar' = PhaseBar
    BY <2>1, HistoriesKept DEF InCall, Solved, Busy, PhaseBar
  <2>3. Saved(Snapshot) = [hist |-> HistBar, nl |-> allocated]
    <3>1. \A g \in GP : Threshold(Snapshot[g].vars) = HistBar[g]
      <4>. SUFFICES ASSUME NEW g \in GP
                    PROVE  Threshold(Snapshot[g].vars) = HistBar[g]
        OBVIOUS
      <4>1. Threshold(0) = Xt
        BY LawAssumption DEF LawAssumption, Threshold
      <4>. QED
        BY <4>1 DEF Snapshot, HistBar, UnallocatedIsVirgin, Virgin
    <3>2. HistBar = [g \in GP |-> Threshold(Snapshot[g].vars)]
      BY <3>1 DEF HistBar
    <3>3. allocated = [g \in GP |-> Snapshot[g].allocated]
      BY DEF Snapshot, Inv, TypeOK
    <3>. QED
      BY <3>2, <3>3 DEF Saved
  <2>4. SavedBar' = {Saved(Snapshot)}
    BY <2>1 DEF SavedBar
  <2>5. Promise!Save
    BY <2>1, <2>2, <2>3, <2>4, PhaseOfHost DEF Promise!Save
  <2>. QED
    BY <2>5 DEF Promise!CNext
<1>6. CASE ReadRestart
  <2>1. PICK file \in disk : ReadRestart!(file)
    BY <1>6 DEF ReadRestart
  <2>2. /\ host \in {"new", "idle"} /\ host' = "idle"
        /\ UNCHANGED <<strain, disk>>
        /\ allocated' = [g \in GP |-> file[g].allocated]
    BY <2>1 DEF values
  <2>3. \A g \in GP : Threshold(varsMem'[vars_n'[g]]) = Threshold(file[g].vars)
    <3>. SUFFICES ASSUME NEW g \in GP
                  PROVE  Threshold(varsMem'[vars_n'[g]]) = Threshold(file[g].vars)
      OBVIOUS
    <3>1. CASE file[g].allocated
      <4>. vars_n'[g] = <<g, "hn">> /\ <<g, "hn">> \in VarsBuffer
        BY <2>1, <3>1 DEF VarsBuffer
      <4>. varsMem'[<<g, "hn">>] = file[g].vars
        BY <2>1, <3>1
      <4>. QED
        OBVIOUS
    <3>2. CASE ~file[g].allocated
      <4>1. vars_n'[g] = vars_n[g]
        BY <2>1, <3>2
      <4>2. varsMem'[vars_n[g]] = varsMem[vars_n[g]]
        BY <2>1, <3>2 DEF Inv, OwnBuffers, TypeOK
      <4>3. ~allocated[g]
        BY <2>1, <3>2 DEF Inv, AllocatedInv, Snapshot
      <4>4. Virgin(varsMem[vars_n[g]]) /\ Virgin(file[g].vars)
        BY <3>2, <4>3 DEF UnallocatedIsVirgin, FilesInv
      <4>. QED
        BY <4>1, <4>2, <4>4 DEF Virgin
    <3>. QED
      BY <3>1, <3>2
  <2>4. HistBar' = Saved(file).hist /\ allocated' = Saved(file).nl
    BY <2>2, <2>3 DEF HistBar, Saved, Threshold
  <2>5. Saved(file) \in SavedBar
    BY DEF SavedBar
  <2>6. Promise!Restore
    BY <2>2, <2>4, <2>5, NothingUnderWay, FileKept DEF Promise!Restore
  <2>. QED
    BY <2>6 DEF Promise!CNext
<1>7. CASE Recreate
  <2>1. /\ host \in Outside /\ host' = "new" /\ UNCHANGED disk
        /\ strain' \in [GP -> Strain]
        /\ allocated' = [g \in GP |-> FALSE]
    BY <1>7, FreshType DEF Recreate
  <2>2. HistBar' = [g \in GP |-> Xt]
    <3>1. \A g \in GP : varsMem'[vars_n'[g]] \in Fresh
      BY <1>7 DEF Recreate, Slice, FreshVars, VarsBuffer
    <3>. QED
      BY <3>1 DEF HistBar, FreshIsVirgin, Virgin, Threshold
  <2>3. Promise!Renew
    BY <2>1, <2>2, NothingUnderWay, PhaseOfHost, FileKept
       DEF Promise!Renew, Promise!Pristine, Promise!Strain, Strain
  <2>. QED
    BY <2>3 DEF Promise!CNext
<1>. QED
  BY <1>1, <1>2, <1>3, <1>4, <1>5, <1>6, <1>7

(* A step of the loop or of a task that solves no point shows nothing.     *)
LEMMA NothingShown ==
  ASSUME UNCHANGED <<strain, varsMem, vars_n, vars_k, allocated, disk>>,
         Busy, Busy',
         \A g \in GP : Solved(g)' <=> Solved(g)
  PROVE  UNCHANGED Promise!cvars
<1>1. /\ HistBar' = HistBar /\ DoneBar' = DoneBar /\ TrialBar' = TrialBar
      /\ SavedBar' = SavedBar
  BY HistoriesKept, FileKept DEF InCall
<1>2. PhaseBar' = PhaseBar
  BY DEF PhaseBar
<1>. QED
  BY <1>1, <1>2 DEF Promise!cvars

(* The end of the solution of a point with a cell.                         *)
LEMMA EvolveVarsImplements ==
  ASSUME BarInv, NEW g \in GP, EvolveVars(g)
  PROVE  Promise!SolvePoint(g)
<1>. DEFINE e == uMem[u_k[g]]
            r == varsMem[vars_n[g]]
<1>. USE DEF BarInv
<1>1. e \in Strain /\ r \in Hist
  BY DEF Inv, TypeOK
<1>2. /\ routine[g] = "evolve"
      /\ UNCHANGED <<strain, vars_n, vars_k, host, igp, disk>>
      /\ routine' = [routine EXCEPT ![g] = "off"]
      /\ allocated' = [allocated EXCEPT ![g] = @ \/ NonLinear(e, r)]
  BY DEF EvolveVars, pointers, OldHistory
<1>3. /\ Busy /\ Busy' /\ g \in FEPoints
      /\ ~Solved(g) /\ Solved(g)'
      /\ \A h \in GP : h # g => (Solved(h)' <=> Solved(h))
  BY <1>2 DEF Inv, TypeOK, ControlInv, Outside, Busy, Solved
<1>4. /\ Threshold(varsMem'[vars_k[g]]) = Evolve(e, r)
      /\ \A b \in VarsBuffer : b # vars_k[g] => varsMem'[b] = varsMem[b]
  BY EvolveVarsSolves
<1>5. HistBar' = HistBar /\ HistBar[g] = Threshold(r)
  <2>1. \A h \in GP : varsMem'[vars_n[h]] = varsMem[vars_n[h]]
    BY <1>4 DEF Inv, OwnBuffers, TypeOK
  <2>. QED
    BY <1>2, <2>1 DEF HistBar, Threshold
<1>6. DoneBar' = DoneBar \cup {g} /\ g \notin DoneBar
  BY <1>3 DEF DoneBar, InCall
<1>7. TrialBar' = [TrialBar EXCEPT ![g] = Evolve(e, r)]
  <2>1. \A h \in GP : h # g => varsMem'[vars_k[h]] = varsMem[vars_k[h]]
    BY <1>4 DEF Inv, OwnBuffers, TypeOK
  <2>2. \A h \in GP : varsMem'[vars_n[h]] = varsMem[vars_n[h]]
    BY <1>4 DEF Inv, OwnBuffers, TypeOK
  <2>. QED
    BY <1>2, <1>3, <1>4, <2>1, <2>2 DEF TrialBar, InCall, Threshold
<1>8. SavedBar' = SavedBar /\ PhaseBar = "busy" /\ PhaseBar' = PhaseBar
  BY <1>2, <1>3, FileKept DEF PhaseBar
<1>9. /\ TrialBar' = [TrialBar EXCEPT ![g] = Promise!Evolve(e, HistBar[g])]
      /\ allocated' = [allocated EXCEPT ![g] = @ \/ Promise!NonLinear(e, HistBar[g])]
  <2>1. /\ Promise!NonLinear(e, HistBar[g]) = NonLinear(e, r)
        /\ Promise!Evolve(e, HistBar[g]) = Evolve(e, r)
    BY <1>1, <1>5, LawOfThreshold
  <2>. QED
    BY <1>2, <1>7, <2>1
<1>. HIDE DEF e, r
<1>10. e \in Promise!Strain
  BY <1>1 DEF Promise!Strain, Strain
<1>. QED
  BY <1>2, <1>3, <1>5, <1>6, <1>8, <1>9, <1>10 DEF Promise!SolvePoint

(* A point without a cell has no history: it is solved by the loop itself. *)
LEMMA LoopLinearImplements ==
  ASSUME BarInv, LoopLinear
  PROVE  igp \in GP /\ Promise!SolvePoint(igp)
<1>. USE DEF BarInv
<1>1. /\ igp \in GP /\ igp \notin FEPoints
      /\ host = "looping" /\ igp' = igp + 1 /\ NGP \in Nat
      /\ UNCHANGED <<strain, varsMem, vars_n, vars_k, allocated, disk, routine, host>>
  BY MicroppAssumption
     DEF LoopLinear, flags, pointers, memory, GP, FEPoints, Inv, TypeOK,
         MicroppAssumption
<1>2. routine[igp] = "off"
  BY <1>1 DEF Inv, ControlInv
<1>3. /\ Busy /\ Busy' /\ ~Solved(igp)
      /\ \A h \in GP : Solved(h)' <=> Solved(h) \/ h = igp
  BY <1>1, <1>2 DEF Solved, Busy, GP
<1>4. HistBar' = HistBar /\ SavedBar' = SavedBar
  BY <1>1, HistoriesKept, FileKept
<1>5. DoneBar' = DoneBar \cup {igp} /\ igp \notin DoneBar
  BY <1>1, <1>3 DEF DoneBar, InCall
<1>6. TrialBar' = TrialBar
  <2>1. Threshold(varsMem[vars_k[igp]]) = Threshold(varsMem[vars_n[igp]])
    BY <1>1 DEF UnallocatedIsVirgin, Virgin, Inv, AllocatedInv
  <2>2. \A h \in GP :
          Threshold(varsMem'[IF (InCall /\ Solved(h))' THEN vars_k'[h] ELSE vars_n'[h]])
            = Threshold(varsMem[IF InCall /\ Solved(h) THEN vars_k[h] ELSE vars_n[h]])
    <3>. SUFFICES ASSUME NEW h \in GP
         PROVE  Threshold(varsMem[IF Solved(h)' THEN vars_k[h] ELSE vars_n[h]])
                  = Threshold(varsMem[IF Solved(h) THEN vars_k[h] ELSE vars_n[h]])
      BY <1>1, <1>3 DEF InCall
    <3>. QED
      BY <1>3, <2>1
  <2>. QED
    BY <2>2 DEF TrialBar, Threshold
<1>7. PhaseBar = "busy" /\ PhaseBar' = PhaseBar
  BY <1>3 DEF PhaseBar
<1>. QED
  BY <1>1, <1>4, <1>5, <1>6, <1>7 DEF Promise!SolvePoint

(* The loop of the main thread and the tasks.                              *)
LEMMA LoopImplements ==
  ASSUME BarInv, Loop \/ \E g \in GP : Solve(g)
  PROVE  Promise!CNext \/ UNCHANGED Promise!cvars
<1>. USE DEF BarInv
<1>0. /\ routine \in [GP -> {"off", "ready", "newton", "subiterations", "evolve"}]
      /\ igp \in Nat /\ \A g \in GP : g \in Nat
  BY MicroppAssumption DEF Inv, TypeOK, GP, MicroppAssumption
<1>1. CASE LoopLinear
  BY <1>1, LoopLinearImplements DEF Promise!CNext
<1>2. CASE LoopSpawn
  <2>1. routine'[igp] = "ready" /\ \A g \in GP : g # igp => routine'[g] = routine[g]
    BY <1>2, MicroppAssumption DEF LoopSpawn, Inv, TypeOK, GP, MicroppAssumption
  <2>2. \A g \in GP : Solved(g)' <=> Solved(g)
    BY <1>0, <1>2, <2>1 DEF LoopSpawn, Solved
  <2>. QED
    BY <1>2, <2>2, NothingShown DEF LoopSpawn, values, flags, pointers, memory, Busy
<1>3. CASE LoopInline
  <2>1. routine'[igp] = "newton" /\ \A g \in GP : g # igp => routine'[g] = routine[g]
    BY <1>3, MicroppAssumption DEF LoopInline, Inv, TypeOK, GP, MicroppAssumption
  <2>2. \A g \in GP : Solved(g)' <=> Solved(g)
    BY <1>0, <1>3, <2>1 DEF LoopInline, Solved
  <2>. QED
    BY <1>3, <2>2, NothingShown DEF LoopInline, values, flags, pointers, memory, Busy
<1>4. CASE InlineReturn
  <2>2. \A g \in GP : Solved(g)' <=> Solved(g)
    BY <1>0, <1>4 DEF InlineReturn, Solved
  <2>. QED
    BY <1>4, <2>2, NothingShown DEF InlineReturn, values, flags, pointers, memory, Busy
<1>5. CASE Taskwait
  <2>1. /\ UNCHANGED <<strain, varsMem, vars_n, vars_k, allocated, disk, igp, routine>>
        /\ host = "looping" /\ host' = "solved" /\ igp = NGP
        /\ \A g \in GP : routine[g] = "off"
    BY <1>5 DEF Taskwait, values, flags, pointers, memory
  <2>2. \A g \in GP : InCall /\ Solved(g)
    BY <2>1, AllSolved
  <2>3. \A g \in GP : (InCall /\ Solved(g))'
    BY <2>1, <2>2 DEF InCall, Solved
  <2>4. /\ HistBar' = HistBar /\ TrialBar' = TrialBar /\ DoneBar' = DoneBar
        /\ DoneBar = GP
    BY <2>1, <2>2, <2>3, HistoriesKept DEF DoneBar
  <2>5. Promise!Finish
    BY <2>1, <2>4, PhaseOfHost, FileKept DEF Promise!Finish
  <2>. QED
    BY <2>5 DEF Promise!CNext
<1>6. ASSUME NEW g \in GP, StartTask(g) \/ NewtonSolve(g) \/ SubIterate(g)
      PROVE  UNCHANGED Promise!cvars
  <2>1. /\ UNCHANGED <<strain, varsMem, vars_n, vars_k, allocated, disk, host, igp>>
        /\ routine[g] # "off" /\ routine'[g] # "off"
        /\ \A h \in GP : h # g => routine'[h] = routine[h]
    BY <1>0, <1>6 DEF StartTask, NewtonSolve, SubIterate, values, flags, pointers, memory
  <2>2. Busy /\ Busy'
    BY <2>1 DEF Inv, ControlInv, TypeOK, Busy
  <2>. QED
    BY <2>1, <2>2, NothingShown DEF Solved
<1>7. ASSUME NEW g \in GP, EvolveVars(g) PROVE Promise!CNext
  BY <1>7, EvolveVarsImplements DEF Promise!CNext
<1>. QED
  BY <1>1, <1>2, <1>3, <1>4, <1>5, <1>6, <1>7 DEF Loop, Solve

(* Whatever the order in which the tasks run, and across commits, rejected *)
(* trials, restart files and new objects, the object behaves as            *)
(* independent materials with memory.                                      *)
THEOREM Implementation ==
  ASSUME FreshIsVirgin
  PROVE  Spec => ImplementsConstitutive
<1>1. Init => Promise!CInit
  BY InitImplements
<1>2. BarInv /\ [Next]_vars => [Promise!CNext]_(Promise!cvars)
  <2>1. CASE UNCHANGED vars
    <3>1. UNCHANGED <<strain, varsMem, vars_n, vars_k, allocated, disk, host, igp, routine>>
      BY <2>1 DEF vars, values, flags, pointers, memory, control
    <3>2. /\ HistBar' = HistBar /\ DoneBar' = DoneBar /\ TrialBar' = TrialBar
          /\ SavedBar' = SavedBar /\ PhaseBar' = PhaseBar
      BY <3>1, HistoriesKept, FileKept DEF InCall, Solved, Busy, PhaseBar
    <3>. QED
      BY <3>1, <3>2 DEF Promise!cvars
  <2>2. BarInv /\ Next => Promise!CNext \/ UNCHANGED Promise!cvars
    BY CallerImplements, LoopImplements DEF Next
  <2>. QED
    BY <2>1, <2>2
<1>3. Init => FilesInv
  BY DEF Init, FilesInv
<1>4. FilesInv /\ [Next]_vars => FilesInv'
  BY FilesStep
<1>. QED
  BY <1>1, <1>2, <1>3, <1>4, Invariance, UnallocatedStaysVirgin, PTL
     DEF Spec, BarInv, ImplementsConstitutive, Promise!CSpec
=============================================================================
