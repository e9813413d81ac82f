------------------------------ MODULE Material ------------------------------
(***************************************************************************)
(* The three material laws of src/material.cpp at one point of a cell that *)
(* is strained along one direction: get_stress and evolute, called as the  *)
(* solution of a Gauss point calls them, and the exchange of old and new   *)
(* internal variables by update_vars.                                      *)
(*                                                                         *)
(* Data.  "normal" is a fixed deviatoric direction of the normal strains,  *)
(* "shear" one of the engineering shear strains; tensors along it are      *)
(* numbers.  Stresses are in units of mu.  Sy stands for sqrt(2/3) Sy,     *)
(* alpha for sqrt(3/2) alpha, Ka for (2/3) Ka; Xt and Ey are the strains   *)
(* at which r comes to Xt / sqrt(E) and Ey / sqrt(E).  What may be a       *)
(* fraction is a pair <<numerator, denominator>>.  Strains are large       *)
(* enough multiples of a power of two for every division to come out even. *)
(***************************************************************************)
EXTENDS Integers

CONSTANTS
  Kinds,      \* of materials: "elastic", "plastic", "damage"
  Kas, Xts,   \* hardening of the plastic, strain limit of the damage law
  Sy,         \* yield stress
  Ey,         \* where hardening_law starts, its r0
  Sizes,      \* of the strains imposed, of either sign
  MaxCommits  \* bound on the number of commits

ASSUME MaterialAssumption ==
  /\ Kinds \subseteq {"elastic", "plastic", "damage"}
  /\ Kas \subseteq Nat /\ Xts \subseteq Nat
  /\ Sy \in Nat \ {0} /\ Ey \in Nat \ {0} /\ Ey % 10 = 0
  /\ Sizes \subseteq Nat /\ MaxCommits \in Nat

VARIABLES
  kind, dir, Ka, Xt,   \* the material and the direction
  strain, stress,      \* of the last call
  non_linear,          \* what evolute has answered
  vars_old, vars_new,  \* internal variables
  phase,               \* "virgin", "trial" or "committed"
  commits

parameters == <<kind, dir, Ka, Xt>>
vars == <<parameters, strain, stress, non_linear, vars_old, vars_new, phase, commits>>

Loads == Sizes \cup {-l : l \in Sizes}

Abs(a) == IF a < 0 THEN -a ELSE a
Sign(a) == IF a > 0 THEN 1 ELSE IF a < 0 THEN -1 ELSE 0
Same(p, q) == p[1] * q[2] = q[1] * p[2]
NotAbove(p, q) == p[1] * q[2] <= q[1] * p[2]

(* kept is 1 - D.                                                          *)
Virgin == [eps_p |-> 0, alpha |-> 0, r |-> 0, kept |-> <<1, 1>>]

(* 2 * mu for the normal components, mu for the others.                    *)
Modulus == IF dir = "normal" THEN 2 ELSE 1

ElasticStress(eps) == Modulus * eps

(***************************************************************************)
(* material_plastic.                                                       *)
(***************************************************************************)

STrial(eps, v) == ElasticStress(eps - v.eps_p)

(* Mutant: the hardening of earlier steps is left out.                     *)
FTrialSoft(eps, v) == Abs(STrial(eps, v)) - Sy

FTrial(eps, v) == Abs(STrial(eps, v)) - (Sy + Ka * v.alpha)

(* Mutant: divided by 2 * mu * (1 + Ka), as the manual has it.             *)
DlOfManual(eps, v) ==
  IF FTrial(eps, v) > 0 THEN FTrial(eps, v) \div (2 * (1 + Ka)) ELSE 0

(* Mutant: not divided by 2 * mu + (2/3) Ka.                               *)
DlUndivided(eps, v) == IF FTrial(eps, v) > 0 THEN FTrial(eps, v) ELSE 0

Dl(eps, v) == IF FTrial(eps, v) > 0 THEN FTrial(eps, v) \div (2 + Ka) ELSE 0

Normal(eps, v) == IF FTrial(eps, v) > 0 THEN Sign(STrial(eps, v)) ELSE 0

PlasticStress(eps, v) ==
  <<STrial(eps, v) - 2 * Dl(eps, v) * Normal(eps, v), 1>>

PlasticEvolve(eps, v) ==
  [v EXCEPT !.eps_p = @ + Dl(eps, v) * Normal(eps, v),
            !.alpha = @ + Dl(eps, v)]

(***************************************************************************)
(* material_damage.  Along one direction r is the strain without its sign. *)
(***************************************************************************)

(* H0 = 10 up to r1, H1 = 5 beyond; q1 is 10 * Ey.                         *)
R1 == Ey + (9 * Ey) \div 10

HardeningLaw(r) ==
  CASE r < Ey -> 0
    [] r >= Ey /\ r < R1 -> Ey + 10 * (r - Ey)
    [] OTHER -> 10 * Ey + 5 * (r - R1)

ROld(v) == IF v.r < Xt THEN Xt ELSE v.r

(* Mutant: the strain of this step replaces a larger one.                  *)
DamageLawForgets(eps, v) ==
  IF Abs(eps) <= Xt
    THEN [v EXCEPT !.r = ROld(v)]
    ELSE [v EXCEPT !.r = Abs(eps), !.kept = <<HardeningLaw(Abs(eps)), Abs(eps)>>]

(* Mutant: the elastic branch keeps the strain, and not the threshold.     *)
DamageLawFollows(eps, v) ==
  IF Abs(eps) <= ROld(v)
    THEN [v EXCEPT !.r = Abs(eps)]
    ELSE [v EXCEPT !.r = Abs(eps), !.kept = <<HardeningLaw(Abs(eps)), Abs(eps)>>]

(* The internal variables damage_law calculates.                           *)
DamageLaw(eps, v) ==
  IF Abs(eps) <= ROld(v)
    THEN [v EXCEPT !.r = ROld(v)]
    ELSE [v EXCEPT !.r = Abs(eps), !.kept = <<HardeningLaw(Abs(eps)), Abs(eps)>>]

DamageStress(eps, v) ==
  LET kept == DamageLaw(eps, v).kept
  IN  <<ElasticStress(eps) * kept[1], kept[2]>>

(***************************************************************************)
(* The virtual functions.                                                  *)
(***************************************************************************)

GetStress(eps, v) ==
  CASE kind = "elastic" -> <<ElasticStress(eps), 1>>
    [] kind = "plastic" -> PlasticStress(eps, v)
    [] kind = "damage" -> DamageStress(eps, v)

NonLinear(eps, v) ==
  CASE kind = "elastic" -> FALSE
    [] kind = "plastic" -> FTrial(eps, v) > 0
    [] kind = "damage" -> Abs(eps) > ROld(v)

(* What evolute leaves in new; the elastic one writes nothing.             *)
Evolute(eps, v, new) ==
  CASE kind = "elastic" -> new
    [] kind = "plastic" -> PlasticEvolve(eps, v)
    [] kind = "damage" -> DamageLaw(eps, v)

(* calc_ave_stress over a cell all of whose points have this strain: the   *)
(* weights of the points add up to the volume.                             *)
AverageStress(eps, v) == GetStress(eps, v)

(***************************************************************************)
(* The steps of a point.                                                   *)
(***************************************************************************)

Init ==
  /\ kind \in Kinds /\ dir \in {"normal", "shear"} /\ Ka \in Kas /\ Xt \in Xts
  /\ strain = 0 /\ stress = <<0, 1>> /\ non_linear = FALSE
  /\ vars_old = Virgin /\ vars_new = Virgin
  /\ phase = "virgin" /\ commits = 0

(* homogenize() with this strain: the stress, then evolute.                *)
Homogenize(eps) ==
  /\ strain' = eps
  /\ stress' = AverageStress(eps, vars_old)
  /\ non_linear' = NonLinear(eps, vars_old)
  /\ vars_new' = Evolute(eps, vars_old, vars_new)
  /\ phase' = "trial"
  /\ UNCHANGED <<parameters, vars_old, commits>>

UpdateVars ==
  /\ phase = "trial" /\ commits < MaxCommits
  /\ vars_old' = vars_new
  /\ vars_new' = vars_old
  /\ phase' = "committed"
  /\ commits' = commits + 1
  /\ UNCHANGED <<parameters, strain, stress, non_linear>>

Next == UpdateVars \/ \E eps \in Loads : Homogenize(eps)

Spec == Init /\ [][Next]_vars

(***************************************************************************)
(* Properties.                                                             *)
(***************************************************************************)

(* The stress get_stress returns for a plastic material lies inside the    *)
(* yield surface evolute has moved, and on it if evolute says non-linear:  *)
(* the two functions, which each call plastic_law, tell one story.         *)
StressOnYieldSurface ==
  kind = "plastic" /\ phase = "trial" =>
    LET yield == Sy + Ka * vars_new.alpha
    IN  /\ Abs(stress[1]) <= yield
        /\ non_linear => Abs(stress[1]) = yield

(* A trial evolute calls linear may be thrown away: the old and the new    *)
(* variables give the same stress for every strain.  The solution of a     *)
(* point relies on this when it leaves vars_k of a point that has never    *)
(* been non-linear unwritten.                                              *)
LinearTrialIsForgotten ==
  phase = "trial" /\ ~non_linear =>
    \A eps \in Loads : /\ Same(GetStress(eps, vars_new), GetStress(eps, vars_old))
                       /\ NonLinear(eps, vars_new) = NonLinear(eps, vars_old)

(* After a commit the same strain is answered with the same stress and     *)
(* without further flow or damage: a macro step repeated at rest changes   *)
(* nothing.  It does not hold for a plastic material that has flowed in    *)
(* shear: eps_p takes the flow of a tensor component, s_trial takes eps_p  *)
(* for an engineering strain, and a committed step flows again at the same *)
(* strain, by a part of the last flow that is stated here.                 *)
CommittedIsSettled ==
  phase = "committed" =>
    IF kind = "plastic" /\ dir = "shear" /\ non_linear
      THEN (2 + Ka) * Dl(strain, vars_old) = vars_old.alpha - vars_new.alpha
      ELSE /\ Same(GetStress(strain, vars_old), stress)
           /\ ~NonLinear(strain, vars_old)

(* Whatever the history, more strain never means less stress: the columns  *)
(* apply_perturbation makes have no negative diagonal.                     *)
TangentNotNegative ==
  \A e \in Loads, f \in Loads :
    e < f => NotAbove(GetStress(e, vars_old), GetStress(f, vars_old))

(* alpha and r are histories: no commit makes one of them smaller.         *)
HistoryNeverShrinks ==
  [][vars_old'.alpha >= vars_old.alpha /\ vars_old'.r >= vars_old.r]_vars
=============================================================================
