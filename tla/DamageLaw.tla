----------------------------- MODULE DamageLaw -----------------------------
(***************************************************************************)
(* The history update of the non-linear materials, as far as the control   *)
(* of micropp depends on it: src/material.cpp, damage_law and              *)
(* material_damage::evolute.                                               *)
(*                                                                         *)
(* A strain state is measured by the energy norm r = sqrt(sigma:eps), an   *)
(* integer 0 .. MaxEps; the first internal variable of an integration      *)
(* point, vars[0], is the largest r it has been driven to.  The second     *)
(* one, the damage D, changes exactly when r does and is a function of it, *)
(* so it is left out; so is the plastic strain, which plays the same role  *)
(* in material_plastic.  Xt stands for the threshold Xt / sqrt(E).         *)
(***************************************************************************)
EXTENDS Naturals

CONSTANTS MaxEps, Xt

ASSUME LawAssumption == /\ MaxEps \in Nat
                        /\ Xt \in 1 .. MaxEps

Strain == 0 .. MaxEps

Hist == 0 .. MaxEps

(* r_old_a: a history below the threshold (in particular the 0 of a point  *)
(* that never left the linear zone) counts as the threshold.               *)
Threshold(r) == IF r < Xt THEN Xt ELSE r

(* Mutant: the history is compared without the threshold of the material,  *)
(* so that a virgin point needs an earlier excursion to have one.          *)
NonLinearOnlyAfterFirst(e, r) == r > Xt /\ e > r

(* What damage_law returns: has the point entered the non-linear zone?     *)
NonLinear(e, r) == e > Threshold(r)

(* Mutant: the history follows the strain down again.                      *)
EvolveForgets(e, r) == IF e < Xt THEN Xt ELSE e

(* *_r, the new value of vars[0].                                          *)
Evolve(e, r) == IF NonLinear(e, r) THEN e ELSE Threshold(r)

(* A history that no excursion into the non-linear zone has marked.        *)
Virgin(r) == Threshold(r) = Xt
=============================================================================
