---------------------------- MODULE Constitutive ----------------------------
(***************************************************************************)
(* What micropp promises the macro-scale code that is coupled to it: every *)
(* Gauss point is a material with memory.  The macro code imposes strains, *)
(* asks for a homogenization (once or, when its own Newton iteration goes  *)
(* on, several times), and then commits the step.  A homogenization        *)
(* computes, for every point and independently of all the others, the      *)
(* history a commit would make permanent; it never touches the committed   *)
(* history, so that a rejected trial leaves no trace but the report        *)
(* "non-linear", which stays on.  Tasks, buffers, pointer swaps and files  *)
(* do not appear here: Micropp is shown to implement this module.          *)
(***************************************************************************)
EXTENDS DamageLaw

CONSTANTS Point,     \* the Gauss points
          FEPoint    \* a subset: those with a finite element cell of their own

VARIABLES
  eps,    \* the strain imposed on each point
  hist,   \* the committed history of each point
  trial,  \* the history the next commit would make permanent
  nl,     \* what is_non_linear reports
  done,   \* the points the running (or last) homogenization has solved
  phase,  \* "idle", "busy" (homogenizing) or "solved"
  saved   \* {} or the one checkpoint on disk

cvars == <<eps, hist, trial, nl, done, phase, saved>>

Pristine ==
  /\ eps \in [Point -> Strain]
  /\ hist = [p \in Point |-> Xt]
  /\ trial = [p \in Point |-> Xt]
  /\ nl = [p \in Point |-> FALSE]
  /\ done = {}
  /\ phase = "idle"

CInit == Pristine /\ saved = {}

Impose(p, e) ==
  /\ phase # "busy"
  /\ eps' = [eps EXCEPT ![p] = e]
  /\ phase' = "idle"
  /\ trial' = hist
  /\ done' = {}
  /\ UNCHANGED <<hist, nl, saved>>

Begin ==
  /\ phase # "busy"
  /\ phase' = "busy"
  /\ trial' = hist
  /\ done' = {}
  /\ UNCHANGED <<eps, hist, nl, saved>>

(* The cell reaches the field e; when the solver converges, e is the       *)
(* imposed strain.                                                         *)
SolvePoint(p) ==
  /\ phase = "busy"
  /\ p \notin done
  /\ done' = done \cup {p}
  /\ IF p \in FEPoint
       THEN \E e \in Strain :
              /\ trial' = [trial EXCEPT ![p] = Evolve(e, hist[p])]
              /\ nl' = [nl EXCEPT ![p] = @ \/ NonLinear(e, hist[p])]
       ELSE UNCHANGED <<trial, nl>>
  /\ UNCHANGED <<eps, hist, phase, saved>>

Finish ==
  /\ phase = "busy"
  /\ done = Point
  /\ phase' = "solved"
  /\ UNCHANGED <<eps, hist, trial, nl, done, saved>>

Commit ==
  /\ phase = "solved"
  /\ phase' = "idle"
  /\ hist' = trial
  /\ done' = {}
  /\ UNCHANGED <<eps, trial, nl, saved>>

Save ==
  /\ phase # "busy"
  /\ saved' = {[hist |-> hist, nl |-> nl]}
  /\ UNCHANGED <<eps, hist, trial, nl, done, phase>>

(* The process or the object ends; only the file is left.                  *)
Renew ==
  /\ phase # "busy"
  /\ Pristine'
  /\ UNCHANGED saved

Restore ==
  /\ phase = "idle"
  /\ \E s \in saved :
       /\ hist' = s.hist
       /\ trial' = s.hist
       /\ nl' = s.nl
  /\ UNCHANGED <<eps, done, phase, saved>>

CNext ==
  \/ \E p \in Point, e \in Strain : Impose(p, e)
  \/ Begin
  \/ \E p \in Point : SolvePoint(p)
  \/ Finish \/ Commit \/ Save \/ Renew \/ Restore

CSpec == CInit /\ [][CNext]_cvars
=============================================================================
