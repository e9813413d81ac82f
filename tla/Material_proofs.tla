--------------------------- MODULE Material_proofs ---------------------------
(***************************************************************************)
(* What holds of the three material laws for every modulus of hardening,   *)
(* every limit and every sequence of strains and commits.                  *)
(***************************************************************************)
EXTENDS Material, TLAPS

LEMMA DivType == ASSUME NEW a \in Int, NEW n \in Nat \ {0} PROVE a \div n \in Int
OBVIOUS

LEMMA DivNat == ASSUME NEW a \in Nat, NEW n \in Nat \ {0} PROVE a \div n \in Nat
OBVIOUS

(* The internal variables of a point.                                      *)
Vars == [eps_p : Int, alpha : Nat, r : Nat, kept : Int \X Int]

TypeInv ==
  /\ kind \in {"elastic", "plastic", "damage"} /\ dir \in {"normal", "shear"}
  /\ Ka \in Nat /\ Xt \in Nat
  /\ strain \in Int
  /\ vars_old \in Vars /\ vars_new \in Vars
  /\ commits \in Nat

(***************************************************************************)
(* The laws.                                                               *)
(***************************************************************************)

LEMMA LoadsType == Loads \subseteq Int
<1>1. \A l \in Sizes : l \in Int /\ -l \in Int
  BY MaterialAssumption DEF MaterialAssumption
<1>. QED
  BY <1>1 DEF Loads

LEMMA AbsType == \A a \in Int : Abs(a) \in Nat /\ Sign(a) \in {-1, 0, 1}
BY DEF Abs, Sign

LEMMA PlasticTypes ==
  ASSUME TypeInv, NEW eps \in Int, NEW v \in Vars
  PROVE  /\ STrial(eps, v) \in Int /\ FTrial(eps, v) \in Int
         /\ Dl(eps, v) \in Nat /\ Normal(eps, v) \in {-1, 0, 1}
         /\ PlasticEvolve(eps, v) \in Vars
         /\ PlasticEvolve(eps, v).eps_p = v.eps_p + Dl(eps, v) * Normal(eps, v)
         /\ PlasticEvolve(eps, v).alpha = v.alpha + Dl(eps, v)
         /\ PlasticEvolve(eps, v).r = v.r /\ PlasticEvolve(eps, v).kept = v.kept
<1>1. v.eps_p \in Int /\ v.alpha \in Nat /\ Ka * v.alpha \in Int /\ Sy \in Int
  BY MaterialAssumption DEF MaterialAssumption, Vars, TypeInv
<1>2. STrial(eps, v) \in Int
  BY <1>1 DEF STrial, ElasticStress, Modulus
<1>3. FTrial(eps, v) \in Int
  BY <1>1, <1>2, AbsType DEF FTrial
<1>4. Dl(eps, v) \in Nat
  <2>. 2 + Ka \in Nat \ {0}
    BY DEF TypeInv
  <2>. QED
    BY <1>3, DivNat DEF Dl
<1>5. Normal(eps, v) \in {-1, 0, 1}
  BY <1>2, AbsType DEF Normal
<1>6. /\ v.eps_p + Dl(eps, v) * Normal(eps, v) \in Int
      /\ v.alpha + Dl(eps, v) \in Nat
  BY <1>1, <1>4, <1>5
<1>. QED
  BY <1>2, <1>3, <1>4, <1>5, <1>6 DEF PlasticEvolve, Vars

LEMMA DamageTypes ==
  ASSUME TypeInv, NEW eps \in Int, NEW v \in Vars
  PROVE  /\ ROld(v) \in Nat /\ ROld(v) >= v.r /\ ROld(v) >= Xt
         /\ DamageLaw(eps, v) \in Vars
         /\ DamageLaw(eps, v).eps_p = v.eps_p /\ DamageLaw(eps, v).alpha = v.alpha
         /\ DamageLaw(eps, v).r
              = IF Abs(eps) <= ROld(v) THEN ROld(v) ELSE Abs(eps)
         /\ Abs(eps) <= ROld(v) => DamageLaw(eps, v).kept = v.kept
<1>1. ROld(v) \in Nat /\ ROld(v) >= v.r /\ ROld(v) >= Xt
  BY DEF ROld, Vars, TypeInv
<1>2. Abs(eps) \in Nat /\ HardeningLaw(Abs(eps)) \in Int
  <2>1. Ey \in Int /\ R1 \in Int
    BY DivType, MaterialAssumption DEF MaterialAssumption, R1
  <2>2. \A r \in Nat : HardeningLaw(r) \in Int
    BY <2>1 DEF HardeningLaw
  <2>. QED
    BY <2>2, AbsType
<1>3. /\ [v EXCEPT !.r = ROld(v)] \in Vars
      /\ [v EXCEPT !.r = Abs(eps),
                   !.kept = <<HardeningLaw(Abs(eps)), Abs(eps)>>] \in Vars
  <2>. /\ v = [eps_p |-> v.eps_p, alpha |-> v.alpha, r |-> v.r, kept |-> v.kept]
       /\ v.eps_p \in Int /\ v.alpha \in Nat /\ v.kept \in Int \X Int
    BY DEF Vars
  <2>. <<HardeningLaw(Abs(eps)), Abs(eps)>> \in Int \X Int
    BY <1>2
  <2>. QED
    BY <1>1, <1>2 DEF Vars
<1>4. CASE Abs(eps) <= ROld(v)
  <2>. DamageLaw(eps, v) = [v EXCEPT !.r = ROld(v)]
    BY <1>4 DEF DamageLaw
  <2>. QED
    BY <1>1, <1>3, <1>4 DEF Vars
<1>5. CASE ~(Abs(eps) <= ROld(v))
  <2>. DamageLaw(eps, v)
         = [v EXCEPT !.r = Abs(eps), !.kept = <<HardeningLaw(Abs(eps)), Abs(eps)>>]
    BY <1>5 DEF DamageLaw
  <2>. QED
    BY <1>1, <1>3, <1>5 DEF Vars
<1>. QED
  BY <1>1, <1>4, <1>5

LEMMA EvoluteType ==
  ASSUME TypeInv, NEW eps \in Int
  PROVE  Evolute(eps, vars_old, vars_new) \in Vars
BY PlasticTypes, DamageTypes DEF TypeInv, Evolute

(***************************************************************************)
(* The inductive invariant.                                                *)
(***************************************************************************)

(* stress, non_linear and the variables of a side are those of one and the *)
(* same call, made with the variables of the other side.                   *)
Answers(from, to) ==
  /\ strain \in Loads
  /\ stress = GetStress(strain, from)
  /\ non_linear = NonLinear(strain, from)
  /\ to = Evolute(strain, from, to)

CallInv ==
  /\ phase \in {"virgin", "trial", "committed"}
  /\ phase = "trial" => Answers(vars_old, vars_new)
  /\ phase = "committed" => Answers(vars_new, vars_old)
  /\ kind = "elastic" => vars_old = Virgin /\ vars_new = Virgin

Inv == TypeInv /\ CallInv

LEMMA InitInv == Init => Inv
BY MaterialAssumption
   DEF MaterialAssumption, Init, Inv, TypeInv, CallInv, Vars, Virgin

LEMMA HomogenizeStep ==
  ASSUME Inv, NEW eps \in Loads, Homogenize(eps)
  PROVE  Inv'
<1>1. TypeInv'
  BY LoadsType, EvoluteType DEF Homogenize, parameters, Inv, TypeInv
<1>2. /\ strain' = eps /\ stress' = GetStress(eps, vars_old)
      /\ non_linear' = NonLinear(eps, vars_old)
      /\ vars_new' = Evolute(eps, vars_old, vars_new)
      /\ phase' = "trial" /\ vars_old' = vars_old
      /\ kind' = kind /\ dir' = dir /\ Ka' = Ka /\ Xt' = Xt
  BY DEF Homogenize, parameters, AverageStress
<1>3. Evolute(eps, vars_old, vars_new) = Evolute(eps, vars_old, vars_new')
  <2>1. CASE kind = "elastic"
    BY <1>2, <2>1 DEF Evolute
  <2>2. CASE kind = "plastic"
    BY <2>2 DEF Evolute
  <2>3. CASE kind = "damage"
    BY <2>3 DEF Evolute
  <2>. QED
    BY <2>1, <2>2, <2>3 DEF Inv, TypeInv
<1>4. Answers(vars_old, vars_new)'
  BY <1>2, <1>3
     DEF Answers, Loads, GetStress, NonLinear, Evolute, PlasticStress, PlasticEvolve,
         STrial, FTrial, Dl, Normal, ElasticStress, Modulus, DamageStress, DamageLaw,
         ROld
<1>5. kind' = "elastic" => vars_old' = Virgin /\ vars_new' = Virgin
  BY <1>2 DEF Inv, CallInv, Evolute
<1>. QED
  BY <1>1, <1>2, <1>4, <1>5 DEF Inv, CallInv

LEMMA UpdateVarsStep == Inv /\ UpdateVars => Inv'
<1>. SUFFICES ASSUME Inv, UpdateVars PROVE Inv'
  OBVIOUS
<1>1. TypeInv'
  BY DEF UpdateVars, parameters, Inv, TypeInv
<1>2. /\ strain' = strain /\ stress' = stress /\ non_linear' = non_linear
      /\ vars_new' = vars_old /\ vars_old' = vars_new
      /\ phase = "trial" /\ phase' = "committed"
      /\ kind' = kind /\ dir' = dir /\ Ka' = Ka /\ Xt' = Xt
  BY DEF UpdateVars, parameters
<1>3. Answers(vars_old, vars_new)
  BY <1>2 DEF Inv, CallInv
<1>4. Answers(vars_new, vars_old)'
  BY <1>2, <1>3
     DEF Answers, Loads, GetStress, NonLinear, Evolute, PlasticStress, PlasticEvolve,
         STrial, FTrial, Dl, Normal, ElasticStress, Modulus, DamageStress, DamageLaw,
         ROld
<1>. QED
  BY <1>1, <1>2, <1>4 DEF Inv, CallInv

LEMMA StutterStep == Inv /\ UNCHANGED vars => Inv'
BY DEF vars, parameters, Inv, TypeInv, CallInv, Answers, Loads, GetStress, NonLinear,
       Evolute, PlasticStress, PlasticEvolve, STrial, FTrial, Dl, Normal, ElasticStress,
       Modulus, DamageStress, DamageLaw, ROld

THEOREM Invariance == Spec => []Inv
<1>1. Inv /\ [Next]_vars => Inv'
  BY HomogenizeStep, UpdateVarsStep, StutterStep DEF Next
<1>. QED
  BY <1>1, InitInv, PTL DEF Spec

(***************************************************************************)
(* Theorems.                                                               *)
(***************************************************************************)

(* alpha of a plastic and r of a damage material are histories: no commit  *)
(* makes one of them smaller.                                              *)
THEOREM HistoriesNeverShrink == Spec => HistoryNeverShrinks
<1>1. Inv /\ [Next]_vars =>
        [vars_old'.alpha >= vars_old.alpha /\ vars_old'.r >= vars_old.r]_vars
  <2>. SUFFICES ASSUME Inv, [Next]_vars
                PROVE  vars_old'.alpha >= vars_old.alpha /\ vars_old'.r >= vars_old.r
    OBVIOUS
  <2>1. /\ vars_old \in Vars /\ strain \in Int /\ TypeInv
        /\ vars_old.alpha \in Nat /\ vars_old.r \in Nat
    BY DEF Inv, TypeInv, Vars
  <2>2. CASE UpdateVars
    <3>1. vars_old' = vars_new /\ vars_new = Evolute(strain, vars_old, vars_new)
      BY <2>2 DEF UpdateVars, Inv, CallInv, Answers
    <3>2. CASE kind = "elastic"
      BY <2>1, <3>1, <3>2 DEF Inv, CallInv
    <3>3. CASE kind = "plastic"
      <4>. vars_new = PlasticEvolve(strain, vars_old)
        BY <3>1, <3>3 DEF Evolute
      <4>. QED
        BY <2>1, <3>1, PlasticTypes
    <3>4. CASE kind = "damage"
      <4>. vars_new = DamageLaw(strain, vars_old)
        BY <3>1, <3>4 DEF Evolute
      <4>1. /\ vars_new.alpha = vars_old.alpha
            /\ vars_new.r = IF Abs(strain) <= ROld(vars_old) THEN ROld(vars_old)
                                                             ELSE Abs(strain)
            /\ ROld(vars_old) \in Nat /\ ROld(vars_old) >= vars_old.r
        BY <2>1, DamageTypes
      <4>. QED
        BY <2>1, <3>1, <4>1, AbsType
    <3>. QED
      BY <3>2, <3>3, <3>4 DEF Inv, TypeInv
  <2>3. CASE ~UpdateVars
    <3>. vars_old' = vars_old
      BY <2>3 DEF Next, Homogenize, vars
    <3>. QED
      BY <2>1
  <2>. QED
    BY <2>2, <2>3
<1>. QED
  BY <1>1, Invariance, PTL DEF Spec, HistoryNeverShrinks

(***************************************************************************)
(* Calls with the variables another call has left.                         *)
(***************************************************************************)

LEMMA SameAsItself == ASSUME NEW p PROVE Same(p, p)
BY DEF Same

(* Inside the yield surface nothing evolves.                               *)
LEMMA InsideTheSurface ==
  ASSUME TypeInv, NEW eps \in Int, NEW v \in Vars, ~(FTrial(eps, v) > 0)
  PROVE  PlasticEvolve(eps, v) = v
<1>1. Dl(eps, v) = 0 /\ Normal(eps, v) = 0
  BY DEF Dl, Normal
<1>2. v.eps_p \in Int /\ v.alpha \in Nat
  BY DEF Vars
<1>3. v.eps_p + 0 * 0 = v.eps_p /\ v.alpha + 0 = v.alpha
  BY <1>2
<1>. QED
  BY <1>1, <1>3 DEF PlasticEvolve, Vars

(* Below the threshold damage_law writes the threshold down, which changes *)
(* no later answer.                                                        *)
LEMMA BelowTheThreshold ==
  ASSUME TypeInv, NEW eps \in Int, NEW v \in Vars, NEW w \in Vars,
         ROld(w) = ROld(v), w.kept = v.kept
  PROVE  /\ DamageStress(eps, w) = DamageStress(eps, v)
<1>1. DamageLaw(eps, w).kept = DamageLaw(eps, v).kept
  BY DEF DamageLaw, Vars
<1>. QED
  BY <1>1 DEF DamageStress

LEMMA ThresholdWrittenDown ==
  ASSUME TypeInv, NEW eps \in Int, NEW v \in Vars, Abs(eps) <= ROld(v)
  PROVE  /\ ROld(DamageLaw(eps, v)) = ROld(v)
         /\ DamageLaw(eps, v).kept = v.kept
BY DamageTypes DEF ROld, TypeInv

(* A trial evolute calls linear may be thrown away, whatever the material  *)
(* and its history.                                                        *)
THEOREM LinearTrialsAreForgotten == Spec => []LinearTrialIsForgotten
<1>1. Inv => LinearTrialIsForgotten
  <2>. SUFFICES ASSUME Inv, phase = "trial", ~non_linear, NEW eps \in Loads
                PROVE  /\ Same(GetStress(eps, vars_new), GetStress(eps, vars_old))
                       /\ NonLinear(eps, vars_new) = NonLinear(eps, vars_old)
    BY DEF LinearTrialIsForgotten
  <2>1. /\ TypeInv /\ vars_old \in Vars /\ vars_new \in Vars
        /\ eps \in Int /\ strain \in Int
    BY LoadsType DEF Inv, TypeInv
  <2>2. /\ non_linear = NonLinear(strain, vars_old)
        /\ vars_new = Evolute(strain, vars_old, vars_new)
    BY DEF Inv, CallInv, Answers
  <2>3. CASE kind = "elastic"
    BY <2>3, SameAsItself DEF Inv, CallInv
  <2>4. CASE kind = "plastic"
    <3>. /\ ~(FTrial(strain, vars_old) > 0)
         /\ vars_new = PlasticEvolve(strain, vars_old)
      BY <2>2, <2>4 DEF NonLinear, Evolute
    <3>. vars_new = vars_old
      BY <2>1, InsideTheSurface
    <3>. QED
      BY SameAsItself
  <2>5. CASE kind = "damage"
    <3>. /\ ~(Abs(strain) > ROld(vars_old))
         /\ vars_new = DamageLaw(strain, vars_old)
      BY <2>2, <2>5 DEF NonLinear, Evolute
    <3>1. ROld(vars_new) = ROld(vars_old) /\ vars_new.kept = vars_old.kept
      BY <2>1, AbsType, DamageTypes, ThresholdWrittenDown
    <3>2. DamageStress(eps, vars_new) = DamageStress(eps, vars_old)
      BY <2>1, <3>1, BelowTheThreshold
    <3>. QED
      BY <2>5, <3>1, <3>2, SameAsItself DEF GetStress, NonLinear
  <2>. QED
    BY <2>1, <2>3, <2>4, <2>5 DEF TypeInv
<1>. QED
  BY <1>1, Invariance, PTL

(***************************************************************************)
(* The plastic law.  In the code Dl is a quotient of doubles; here it is   *)
(* one of integers, and the theorems that need it to be exact are about    *)
(* the histories in which no division leaves a remainder.  The strains of  *)
(* an instance are chosen such that all its histories are among them.      *)
(***************************************************************************)

Exact(eps, v) == FTrial(eps, v) > 0 => FTrial(eps, v) % (2 + Ka) = 0

DivisionsAreExact == kind = "plastic" => \A eps \in Loads : Exact(eps, vars_old)

LEMMA DivExact ==
  ASSUME NEW a \in Nat \ {0}, NEW n \in Nat \ {0}, a % n = 0
  PROVE  a \div n \in Nat \ {0} /\ a = n * (a \div n)
OBVIOUS

LEMMA Distributes ==
  ASSUME NEW a \in Int, NEW b \in Int, NEW k \in Nat
  PROVE  /\ k * a \in Int /\ k * b \in Int /\ (2 + k) * a = 2 * a + k * a
         /\ k * (a + b) = k * a + k * b
         /\ a >= 0 => k * a >= 0
OBVIOUS

(* The radial return: a flow takes the trial stress back along its own     *)
(* sign, and never beyond 0.                                               *)
LEMMA RadialReturn ==
  ASSUME TypeInv, NEW eps \in Int, NEW v \in Vars, FTrial(eps, v) > 0, Exact(eps, v)
  PROVE  /\ Dl(eps, v) \in Nat \ {0} /\ Normal(eps, v) \in {-1, 1}
         /\ Ka * Dl(eps, v) \in Nat /\ Ka * v.alpha \in Nat
         /\ Abs(STrial(eps, v))
              = Sy + Ka * v.alpha + 2 * Dl(eps, v) + Ka * Dl(eps, v)
         /\ Ka * (v.alpha + Dl(eps, v)) = Ka * v.alpha + Ka * Dl(eps, v)
         /\ Abs(STrial(eps, v) - Dl(eps, v) * Normal(eps, v))
              = Abs(STrial(eps, v)) - Dl(eps, v)
         /\ Abs(STrial(eps, v) - 2 * (Dl(eps, v) * Normal(eps, v)))
              = Abs(STrial(eps, v)) - 2 * Dl(eps, v)
<1>. DEFINE f == FTrial(eps, v)
            d == Dl(eps, v)
            S == STrial(eps, v)
<1>1. /\ f \in Nat \ {0} /\ S \in Int /\ v.alpha \in Nat
      /\ Ka \in Nat /\ 2 + Ka \in Nat \ {0} /\ Sy \in Nat
  BY PlasticTypes, MaterialAssumption DEF MaterialAssumption, TypeInv, Vars
<1>2. d = f \div (2 + Ka)
  BY DEF Dl
<1>3. d \in Nat \ {0} /\ f = (2 + Ka) * d
  <2>. f % (2 + Ka) = 0
    BY DEF Exact
  <2>. HIDE DEF f, d
  <2>. QED
    BY <1>1, <1>2, DivExact
<1>4. /\ Ka * d \in Nat /\ Ka * v.alpha \in Nat
      /\ f = 2 * d + Ka * d
      /\ Ka * (v.alpha + d) = Ka * v.alpha + Ka * d
  <2>. HIDE DEF f, d
  <2>1. Ka * d \in Int /\ (2 + Ka) * d = 2 * d + Ka * d /\ Ka * d >= 0
    BY <1>1, <1>3, Distributes
  <2>2. Ka * v.alpha \in Int /\ Ka * v.alpha >= 0
    BY <1>1, Distributes
  <2>3. Ka * (v.alpha + d) = Ka * v.alpha + Ka * d
    BY <1>1, <1>3, Distributes
  <2>. QED
    BY <1>3, <2>1, <2>2, <2>3
<1>5. Abs(S) = f + Sy + Ka * v.alpha /\ Abs(S) \in Nat
  <2>. f = Abs(S) - (Sy + Ka * v.alpha)
    BY DEF FTrial
  <2>. Abs(S) \in Nat
    BY <1>1, AbsType
  <2>. HIDE DEF f, S
  <2>. QED
    BY <1>1, <1>4
<1>6. Normal(eps, v) = Sign(S)
  BY DEF Normal
<1>. HIDE DEF f, d, S
<1>7. Abs(S) >= 2 * d /\ Abs(S) > 0
  BY <1>1, <1>3, <1>4, <1>5
<1>8. \/ S > 0 /\ Abs(S) = S /\ Sign(S) = 1
      \/ S < 0 /\ Abs(S) = 0 - S /\ Sign(S) = -1
  BY <1>1, <1>7 DEF Abs, Sign
<1>9. /\ Abs(S - d * Sign(S)) = Abs(S) - d
      /\ Abs(S - 2 * (d * Sign(S))) = Abs(S) - 2 * d
  <2>1. CASE S > 0
    <3>1. Abs(S) = S /\ d * Sign(S) = d
      BY <1>1, <1>3, <1>8, <2>1
    <3>. QED
      BY <1>1, <1>3, <1>7, <3>1 DEF Abs
  <2>2. CASE S < 0
    <3>1. Abs(S) = 0 - S /\ d * Sign(S) = 0 - d
      BY <1>1, <1>3, <1>8, <2>2
    <3>2. S + d <= 0 /\ S + 2 * d <= 0
      BY <1>1, <1>3, <1>7, <3>1
    <3>3. S - d * Sign(S) = S + d /\ S - 2 * (d * Sign(S)) = S + 2 * d
      BY <1>1, <1>3, <3>1
    <3>. QED
      BY <1>1, <1>3, <3>1, <3>2, <3>3 DEF Abs
  <2>. QED
    BY <1>8, <2>1, <2>2
<1>. QED
  BY <1>3, <1>4, <1>5, <1>6, <1>8, <1>9, <1>1 DEF d, S

(* The stress get_stress returns for a plastic material lies inside the    *)
(* yield surface evolute has moved, and on it after a flow.                *)
THEOREM StressesOnYieldSurface ==
  Spec /\ []DivisionsAreExact => []StressOnYieldSurface
<1>1. Inv /\ DivisionsAreExact => StressOnYieldSurface
  <2>. SUFFICES ASSUME Inv, DivisionsAreExact, kind = "plastic", phase = "trial"
                PROVE  /\ Abs(stress[1]) <= Sy + Ka * vars_new.alpha
                       /\ non_linear => Abs(stress[1]) = Sy + Ka * vars_new.alpha
    BY DEF StressOnYieldSurface
  <2>. DEFINE d == Dl(strain, vars_old)
              S == STrial(strain, vars_old)
              n == Normal(strain, vars_old)
  <2>1. /\ TypeInv /\ vars_old \in Vars /\ strain \in Int
        /\ Exact(strain, vars_old)
        /\ vars_new = PlasticEvolve(strain, vars_old)
        /\ stress = PlasticStress(strain, vars_old)
        /\ non_linear = (FTrial(strain, vars_old) > 0)
    BY LoadsType
       DEF Inv, CallInv, TypeInv, Answers, DivisionsAreExact, GetStress, Evolute,
           NonLinear
  <2>2. /\ S \in Int /\ d \in Nat /\ n \in {-1, 0, 1} /\ vars_old.alpha \in Nat
        /\ Sy \in Nat /\ Ka \in Nat
        /\ vars_new.alpha = vars_old.alpha + d
    BY <2>1, PlasticTypes, MaterialAssumption DEF MaterialAssumption, TypeInv, Vars
  <2>3. stress[1] = S - 2 * d * n
    BY <2>1 DEF PlasticStress
  <2>4. CASE FTrial(strain, vars_old) > 0
    <3>1. /\ Abs(S) = Sy + Ka * vars_old.alpha + 2 * d + Ka * d
          /\ Ka * (vars_old.alpha + d) = Ka * vars_old.alpha + Ka * d
          /\ Abs(S - 2 * (d * n)) = Abs(S) - 2 * d
          /\ Ka * d \in Nat /\ Ka * vars_old.alpha \in Nat
      BY <2>1, <2>4, RadialReturn
    <3>. HIDE DEF d, S, n
    <3>2. 2 * d * n = 2 * (d * n)
      BY <2>2
    <3>3. Abs(stress[1]) = Sy + Ka * vars_new.alpha
      BY <2>2, <2>3, <3>1, <3>2
    <3>4. Ka * vars_new.alpha \in Nat
      BY <2>2, <3>1
    <3>5. Abs(stress[1]) <= Sy + Ka * vars_new.alpha
      BY <2>2, <3>3, <3>4
    <3>. QED
      BY <3>3, <3>5
  <2>5. CASE ~(FTrial(strain, vars_old) > 0)
    <3>1. d = 0 /\ n = 0
      BY <2>5 DEF Dl, Normal
    <3>2. Abs(S) \in Nat /\ ~(Abs(S) - (Sy + Ka * vars_old.alpha) > 0)
      BY <2>2, <2>5, AbsType DEF FTrial
    <3>3. Ka * vars_old.alpha \in Int
      BY <2>2, Distributes
    <3>. HIDE DEF d, S, n
    <3>4. stress[1] = S /\ vars_new.alpha = vars_old.alpha
      BY <2>2, <2>3, <3>1
    <3>5. Abs(stress[1]) <= Sy + Ka * vars_new.alpha
      BY <2>2, <3>2, <3>3, <3>4
    <3>6. ~non_linear
      BY <2>1, <2>5
    <3>. QED
      BY <3>5, <3>6
  <2>. QED
    BY <2>4, <2>5
<1>. QED
  BY <1>1, Invariance, PTL

(* The call before the last commit divided exactly, too.                   *)
CommittedExact ==
  phase = "committed" /\ kind = "plastic" => Exact(strain, vars_new)

LEMMA CommitsAreExact == Spec /\ []DivisionsAreExact => []CommittedExact
<1>1. Init => CommittedExact
  BY DEF Init, CommittedExact
<1>2. Inv /\ DivisionsAreExact /\ CommittedExact /\ [Next]_vars => CommittedExact'
  <2>. SUFFICES ASSUME Inv, DivisionsAreExact, CommittedExact, [Next]_vars
                PROVE  CommittedExact'
    OBVIOUS
  <2>1. CASE \E eps \in Loads : Homogenize(eps)
    BY <2>1 DEF Homogenize, CommittedExact
  <2>2. CASE UpdateVars
    <3>1. /\ strain' = strain /\ vars_new' = vars_old /\ kind' = kind
          /\ dir' = dir /\ Ka' = Ka
          /\ kind = "plastic" => Exact(strain, vars_old)
      BY <2>2 DEF UpdateVars, parameters, Inv, CallInv, Answers, DivisionsAreExact
    <3>. QED
      BY <3>1 DEF CommittedExact, Exact, FTrial, STrial, ElasticStress, Modulus
  <2>3. CASE UNCHANGED vars
    BY <2>3 DEF vars, parameters, CommittedExact, Exact, FTrial, STrial,
                ElasticStress, Modulus
  <2>. QED
    BY <2>1, <2>2, <2>3 DEF Next
<1>. QED
  BY <1>1, <1>2, Invariance, PTL DEF Spec

(* The call of the last commit, made again with what it has left: v before *)
(* the commit, w after it.                                                 *)
LEMMA FlowSettles ==
  ASSUME TypeInv, NEW eps \in Int, NEW v \in Vars, FTrial(eps, v) > 0, Exact(eps, v),
         NEW w, w = PlasticEvolve(eps, v)
  PROVE  /\ dir = "normal" => /\ ~(FTrial(eps, w) > 0)
                              /\ PlasticStress(eps, w) = PlasticStress(eps, v)
         /\ dir = "shear" => FTrial(eps, w) = Dl(eps, v)
         /\ Dl(eps, v) \in Nat \ {0} /\ w.alpha - v.alpha = Dl(eps, v)
<1>. DEFINE d == Dl(eps, v)
            S == STrial(eps, v)
            n == Normal(eps, v)
<1>1. /\ S \in Int /\ d \in Nat \ {0} /\ n \in {-1, 1} /\ d * n \in Int
      /\ v.alpha \in Nat /\ v.eps_p \in Int /\ Sy \in Nat /\ Ka \in Nat
      /\ Ka * d \in Nat /\ Ka * v.alpha \in Nat /\ w \in Vars
      /\ w.eps_p = v.eps_p + d * n /\ w.alpha = v.alpha + d
  BY PlasticTypes, RadialReturn, MaterialAssumption
     DEF MaterialAssumption, TypeInv, Vars
<1>2. /\ Abs(S) = Sy + Ka * v.alpha + 2 * d + Ka * d
      /\ Ka * (v.alpha + d) = Ka * v.alpha + Ka * d
      /\ Abs(S - d * n) = Abs(S) - d
      /\ Abs(S - 2 * (d * n)) = Abs(S) - 2 * d
  BY RadialReturn
<1>3. /\ S = Modulus * (eps - v.eps_p)
      /\ STrial(eps, w) = Modulus * (eps - w.eps_p)
      /\ FTrial(eps, w) = Abs(STrial(eps, w)) - (Sy + Ka * w.alpha)
  BY DEF STrial, FTrial, ElasticStress
<1>4. PlasticStress(eps, v) = <<S - 2 * d * n, 1>>
  BY DEF PlasticStress
<1>. HIDE DEF d, S, n
<1>5. 2 * d * n = 2 * (d * n)
  BY <1>1
<1>6. CASE dir = "normal"
  <2>1. Modulus = 2
    BY <1>6 DEF Modulus
  <2>2. STrial(eps, w) = S - 2 * (d * n)
    BY <1>1, <1>3, <2>1
  <2>3. FTrial(eps, w) = 0
    BY <1>1, <1>2, <1>3, <2>2
  <2>4. Dl(eps, w) = 0 /\ Normal(eps, w) = 0
    BY <2>3 DEF Dl, Normal
  <2>5. PlasticStress(eps, w) = <<STrial(eps, w) - 2 * 0 * 0, 1>>
    BY <2>4 DEF PlasticStress
  <2>6. STrial(eps, w) - 2 * 0 * 0 = S - 2 * d * n
    BY <1>1, <1>5, <2>2
  <2>. QED
    BY <1>1, <1>4, <1>6, <2>3, <2>5, <2>6 DEF d
<1>7. CASE dir = "shear"
  <2>1. Modulus = 1
    BY <1>7 DEF Modulus
  <2>2. STrial(eps, w) = S - d * n
    BY <1>1, <1>3, <2>1
  <2>3. FTrial(eps, w) = d
    BY <1>1, <1>2, <1>3, <2>2
  <2>. QED
    BY <1>1, <1>7, <2>3 DEF d
<1>. QED
  BY <1>6, <1>7 DEF TypeInv

(* After a commit the same strain is answered with the same stress and     *)
(* without further flow or damage, but for the known exception: a plastic  *)
(* material that has flowed in shear flows again, by the part of the last  *)
(* flow stated.                                                            *)
THEOREM CommitsSettle == Spec /\ []DivisionsAreExact => []CommittedIsSettled
<1>1. Inv /\ DivisionsAreExact /\ CommittedExact => CommittedIsSettled
  <2>. SUFFICES ASSUME Inv, DivisionsAreExact, CommittedExact, phase = "committed"
                PROVE  CommittedIsSettled
    BY DEF CommittedIsSettled
  <2>1. /\ TypeInv /\ vars_old \in Vars /\ vars_new \in Vars
        /\ strain \in Int /\ strain \in Loads
        /\ stress = GetStress(strain, vars_new)
        /\ non_linear = NonLinear(strain, vars_new)
        /\ vars_old = Evolute(strain, vars_new, vars_old)
    BY LoadsType DEF Inv, CallInv, Answers, TypeInv
  <2>2. CASE kind = "elastic"
    BY <2>1, <2>2, SameAsItself DEF CommittedIsSettled, GetStress, NonLinear
  <2>3. CASE kind = "plastic"
    <3>1. /\ Exact(strain, vars_old) /\ Exact(strain, vars_new)
          /\ vars_old = PlasticEvolve(strain, vars_new)
          /\ stress = PlasticStress(strain, vars_new)
          /\ non_linear = (FTrial(strain, vars_new) > 0)
          /\ GetStress(strain, vars_old) = PlasticStress(strain, vars_old)
          /\ NonLinear(strain, vars_old) = (FTrial(strain, vars_old) > 0)
      BY <2>1, <2>3
         DEF DivisionsAreExact, CommittedExact, Evolute, GetStress, NonLinear
    <3>2. CASE ~(FTrial(strain, vars_new) > 0)
      <4>. vars_old = vars_new
        BY <2>1, <3>1, <3>2, InsideTheSurface
      <4>. QED
        BY <3>1, <3>2, SameAsItself DEF CommittedIsSettled
    <3>3. CASE FTrial(strain, vars_new) > 0 /\ dir = "normal"
      <4>. /\ ~(FTrial(strain, vars_old) > 0)
           /\ PlasticStress(strain, vars_old) = stress
        BY <2>1, <3>1, <3>3, FlowSettles
      <4>. QED
        BY <3>1, <3>3, SameAsItself DEF CommittedIsSettled
    <3>4. CASE FTrial(strain, vars_new) > 0 /\ dir = "shear"
      <4>1. /\ FTrial(strain, vars_old) = Dl(strain, vars_new)
            /\ Dl(strain, vars_new) \in Nat \ {0}
            /\ vars_old.alpha - vars_new.alpha = Dl(strain, vars_new)
        BY <2>1, <3>1, <3>4, FlowSettles
      <4>2. FTrial(strain, vars_old) \in Nat \ {0} /\ FTrial(strain, vars_old) > 0
        BY <4>1
      <4>3. /\ FTrial(strain, vars_old) % (2 + Ka) = 0
            /\ Dl(strain, vars_old) = FTrial(strain, vars_old) \div (2 + Ka)
        BY <3>1, <4>2 DEF Exact, Dl
      <4>4. 2 + Ka \in Nat \ {0}
        BY <2>1 DEF TypeInv
      <4>5. FTrial(strain, vars_old) = (2 + Ka) * Dl(strain, vars_old)
        BY <4>2, <4>3, <4>4, DivExact
      <4>. QED
        BY <2>3, <3>1, <3>4, <4>1, <4>5 DEF CommittedIsSettled
    <3>. QED
      BY <2>1, <3>2, <3>3, <3>4 DEF TypeInv
  <2>4. CASE kind = "damage"
    <3>1. /\ vars_old = DamageLaw(strain, vars_new)
          /\ stress = DamageStress(strain, vars_new)
          /\ GetStress(strain, vars_old) = DamageStress(strain, vars_old)
          /\ NonLinear(strain, vars_old) = (Abs(strain) > ROld(vars_old))
      BY <2>1, <2>4 DEF Evolute, GetStress, NonLinear
    <3>2. Abs(strain) <= ROld(vars_old)
      <4>1. CASE Abs(strain) <= ROld(vars_new)
        BY <2>1, <3>1, <4>1, ThresholdWrittenDown
      <4>2. CASE ~(Abs(strain) <= ROld(vars_new))
        <5>. vars_old.r = Abs(strain)
          BY <2>1, <3>1, <4>2, DamageTypes
        <5>. QED
          BY <2>1, DamageTypes
      <4>. QED
        BY <4>1, <4>2
    <3>3. Abs(strain) \in Nat /\ ROld(vars_old) \in Nat
      BY <2>1, AbsType, DamageTypes
    <3>4. DamageLaw(strain, vars_old).kept = vars_old.kept
      BY <2>1, <3>2, DamageTypes
    <3>5. DamageStress(strain, vars_old) = DamageStress(strain, vars_new)
      BY <3>1, <3>4 DEF DamageStress
    <3>6. ~NonLinear(strain, vars_old)
      <4>. ~(Abs(strain) > ROld(vars_old))
        BY <3>2, <3>3
      <4>. QED
        BY <3>1, Zenon
    <3>7. Same(GetStress(strain, vars_old), stress)
      BY <3>1, <3>5, SameAsItself
    <3>. QED
      BY <2>4, <3>6, <3>7 DEF CommittedIsSettled
  <2>. QED
    BY <2>1, <2>2, <2>3, <2>4 DEF TypeInv
<1>. QED
  BY <1>1, Invariance, CommitsAreExact, PTL
(***************************************************************************)
(* More strain, no less stress.                                            *)
(***************************************************************************)

(* The trial stress and what plastic_law makes of it.                      *)
LEMMA PlasticAnswer ==
  ASSUME TypeInv, NEW eps \in Int, NEW v \in Vars, Exact(eps, v),
         NEW S, S = STrial(eps, v), NEW Y, Y = Sy + Ka * v.alpha,
         NEW P, P = PlasticStress(eps, v)[1]
  PROVE  /\ S \in Int /\ Y \in Nat /\ P \in Int /\ PlasticStress(eps, v) = <<P, 1>>
         /\ \/ -Y <= S /\ S <= Y /\ P = S
            \/ \E d \in Nat \ {0} : S = Y + (2 + Ka) * d /\ P = Y + Ka * d
            \/ \E d \in Nat \ {0} : -S = Y + (2 + Ka) * d /\ -P = Y + Ka * d
<1>. DEFINE d == Dl(eps, v)
            n == Normal(eps, v)
<1>1. S \in Int /\ v.alpha \in Nat /\ Ka \in Nat /\ Sy \in Nat
  BY PlasticTypes, MaterialAssumption DEF MaterialAssumption, TypeInv, Vars
<1>2. Y \in Nat
  <2>1. Ka * v.alpha \in Int /\ Ka * v.alpha >= 0
    BY <1>1, Distributes
  <2>. QED
    BY <1>1, <2>1
<1>3. P = S - 2 * d * n /\ PlasticStress(eps, v) = <<P, 1>>
  BY DEF PlasticStress
<1>4. CASE ~(FTrial(eps, v) > 0)
  <2>1. n = 0 /\ d = 0
    BY <1>4 DEF Normal, Dl
  <2>2. P = S
    <3>. HIDE DEF n, d
    <3>. QED
      BY <1>1, <1>3, <2>1
  <2>3. Abs(S) - Y <= 0
    <3>1. FTrial(eps, v) = Abs(S) - Y /\ Abs(S) \in Nat
      BY <1>1, AbsType DEF FTrial
    <3>. QED
      BY <1>2, <1>4, <3>1
  <2>4. -Y <= S /\ S <= Y
    BY <1>1, <1>2, <2>3 DEF Abs
  <2>. QED
    BY <1>1, <1>2, <1>3, <2>2, <2>4
<1>5. CASE FTrial(eps, v) > 0
  <2>1. /\ d \in Nat \ {0} /\ Ka * d \in Nat
        /\ Abs(S) = Y + 2 * d + Ka * d /\ n \in {-1, 1}
    BY <1>5, RadialReturn
  <2>2. n = Sign(S)
    BY <1>5 DEF Normal
  <2>. HIDE DEF n, d
  <2>3. (2 + Ka) * d = 2 * d + Ka * d
    BY <1>1, <2>1, Distributes
  <2>4. CASE S > 0
    <3>1. n = 1 /\ Abs(S) = S
      BY <2>2, <2>4, <1>1 DEF Sign, Abs
    <3>2. P = S - 2 * d
      BY <1>1, <1>3, <2>1, <3>1
    <3>3. S = Y + (2 + Ka) * d /\ P = Y + Ka * d
      BY <1>1, <1>2, <2>1, <2>3, <3>1, <3>2
    <3>4. P \in Int
      BY <1>1, <2>1, <3>2
    <3>. QED
      BY <1>1, <1>2, <1>3, <2>1, <3>3, <3>4
  <2>5. CASE ~(S > 0)
    <3>1. n = -1 /\ Abs(S) = -S
      BY <2>1, <2>2, <2>5, <1>1 DEF Sign, Abs
    <3>2. P = S + 2 * d
      BY <1>1, <1>3, <2>1, <3>1
    <3>3. -S = Y + (2 + Ka) * d /\ -P = Y + Ka * d
      BY <1>1, <1>2, <2>1, <2>3, <3>1, <3>2
    <3>4. P \in Int
      BY <1>1, <2>1, <3>2
    <3>. QED
      BY <1>1, <1>2, <1>3, <2>1, <3>3, <3>4
  <2>. QED
    BY <2>4, <2>5
<1>. QED
  BY <1>4, <1>5

LEMMA FlowGrows ==
  ASSUME NEW a \in Nat, NEW b \in Nat, NEW j \in Nat, NEW Y \in Nat
  PROVE  /\ Y + (2 + j) * a <= Y + (2 + j) * b => Y + j * a <= Y + j * b
         /\ j * a \in Nat /\ (2 + j) * a \in Nat
<1>1. j * a \in Nat /\ j * b \in Nat /\ (2 + j) * a = 2 * a + j * a
  OBVIOUS
<1>2. (2 + j) * b = 2 * b + j * b
  OBVIOUS
<1>3. a <= b => j * a <= j * b
  <2>. SUFFICES ASSUME a <= b PROVE j * a <= j * b
    OBVIOUS
  <2>1. j * (b - a) >= 0 /\ j * (b - a) = j * b - j * a
    OBVIOUS
  <2>. QED
    BY <1>1, <2>1
<1>4. b <= a => j * b <= j * a
  <2>. SUFFICES ASSUME b <= a PROVE j * b <= j * a
    OBVIOUS
  <2>1. j * (a - b) >= 0 /\ j * (a - b) = j * a - j * b
    OBVIOUS
  <2>. QED
    BY <1>1, <2>1
<1>. QED
  BY <1>1, <1>2, <1>3, <1>4

LEMMA PlasticMonotone ==
  ASSUME TypeInv, NEW e \in Int, NEW f \in Int, e < f, NEW v \in Vars,
         Exact(e, v), Exact(f, v)
  PROVE  NotAbove(PlasticStress(e, v), PlasticStress(f, v))
<1>. DEFINE Y == Sy + Ka * v.alpha
            S == STrial(e, v)
            P == PlasticStress(e, v)[1]
            T == STrial(f, v)
            Q == PlasticStress(f, v)[1]
<1>1. /\ S \in Int /\ Y \in Nat /\ P \in Int /\ PlasticStress(e, v) = <<P, 1>>
      /\ \/ -Y <= S /\ S <= Y /\ P = S
         \/ \E d \in Nat \ {0} : S = Y + (2 + Ka) * d /\ P = Y + Ka * d
         \/ \E d \in Nat \ {0} : -S = Y + (2 + Ka) * d /\ -P = Y + Ka * d
  BY PlasticAnswer
<1>2. /\ T \in Int /\ Q \in Int /\ PlasticStress(f, v) = <<Q, 1>>
      /\ \/ -Y <= T /\ T <= Y /\ Q = T
         \/ \E d \in Nat \ {0} : T = Y + (2 + Ka) * d /\ Q = Y + Ka * d
         \/ \E d \in Nat \ {0} : -T = Y + (2 + Ka) * d /\ -Q = Y + Ka * d
  BY PlasticAnswer
<1>3. S <= T
  BY DEF STrial, ElasticStress, Modulus, Vars
<1>4. Ka \in Nat
  BY DEF TypeInv
<1>. HIDE DEF Y, S, P, T, Q
<1>5. ASSUME NEW d \in Nat \ {0}
      PROVE  Ka * d \in Nat /\ (2 + Ka) * d \in Nat /\ (2 + Ka) * d > 0
  <2>1. (2 + Ka) * d = 2 * d + Ka * d /\ Ka * d \in Nat
    BY <1>4
  <2>. QED
    BY <2>1
<1>6. P <= Q
  <2>1. CASE \E d \in Nat \ {0} : S = Y + (2 + Ka) * d /\ P = Y + Ka * d
    <3>1. PICK a \in Nat \ {0} : S = Y + (2 + Ka) * a /\ P = Y + Ka * a
      BY <2>1
    <3>2. T > Y
      BY <1>1, <1>2, <1>3, <1>5, <3>1
    <3>3. PICK b \in Nat \ {0} : T = Y + (2 + Ka) * b /\ Q = Y + Ka * b
      BY <1>1, <1>2, <1>5, <3>2
    <3>4. Y + (2 + Ka) * a <= Y + (2 + Ka) * b
      BY <1>3, <3>1, <3>3
    <3>. QED
      BY <1>1, <1>4, <3>1, <3>3, <3>4, FlowGrows
  <2>2. CASE \E d \in Nat \ {0} : -S = Y + (2 + Ka) * d /\ -P = Y + Ka * d
    <3>1. PICK a \in Nat \ {0} : -S = Y + (2 + Ka) * a /\ -P = Y + Ka * a
      BY <2>2
    <3>2. P <= -Y
      BY <1>1, <1>5, <3>1
    <3>3. CASE \E d \in Nat \ {0} : -T = Y + (2 + Ka) * d /\ -Q = Y + Ka * d
      <4>1. PICK b \in Nat \ {0} : -T = Y + (2 + Ka) * b /\ -Q = Y + Ka * b
        BY <3>3
      <4>2. Y + (2 + Ka) * b <= Y + (2 + Ka) * a
        BY <1>1, <1>2, <1>3, <3>1, <4>1
      <4>3. Y + Ka * b <= Y + Ka * a
        BY <1>1, <1>4, <4>2, FlowGrows
      <4>. QED
        BY <1>1, <1>2, <3>1, <4>1, <4>3
    <3>4. CASE -Y <= Q
      BY <1>1, <1>2, <3>2, <3>4
    <3>. QED
      BY <1>1, <1>2, <1>5, <3>3, <3>4
  <2>3. CASE -Y <= S /\ S <= Y /\ P = S
    <3>1. CASE \E d \in Nat \ {0} : T = Y + (2 + Ka) * d /\ Q = Y + Ka * d
      BY <1>1, <1>2, <1>5, <2>3, <3>1
    <3>2. CASE Q = T
      BY <1>3, <2>3, <3>2
    <3>3. CASE \E d \in Nat \ {0} : -T = Y + (2 + Ka) * d /\ -Q = Y + Ka * d
      BY <1>1, <1>2, <1>3, <1>5, <2>3, <3>3
    <3>. QED
      BY <1>2, <3>1, <3>2, <3>3
  <2>. QED
    BY <1>1, <2>1, <2>2, <2>3
<1>. QED
  BY <1>1, <1>2, <1>6 DEF NotAbove

(* There is no limit, or it is not below the strain hardening_law starts   *)
(* at: below, the law answers 0, and the stress a limit let grow would be  *)
(* gone.                                                                   *)
LimitHardens == kind = "damage" => Xt = 0 \/ Xt >= Ey

LEMMA HardeningGrows ==
  ASSUME NEW a \in Nat, NEW b \in Nat, a <= b
  PROVE  /\ HardeningLaw(a) \in Nat /\ HardeningLaw(b) \in Nat
         /\ HardeningLaw(a) <= HardeningLaw(b)
         /\ Ey <= a => a <= HardeningLaw(a)
<1>1. PICK c \in Nat \ {0} : Ey = 10 * c
  <2>1. Ey \in Nat \ {0} /\ Ey % 10 = 0
    BY MaterialAssumption DEF MaterialAssumption
  <2>2. Ey \div 10 \in Nat \ {0} /\ Ey = 10 * (Ey \div 10)
    BY <2>1
  <2>. QED
    BY <2>2
<1>2. R1 = 19 * c
  BY <1>1 DEF R1
<1>. QED
  BY <1>1, <1>2 DEF HardeningLaw

(* What a damage material has kept is that of the largest strain.          *)
KeptOK(v) ==
  IF v.r <= Xt THEN v.kept = <<1, 1>> ELSE v.kept = <<HardeningLaw(v.r), v.r>>

KeptInv == kind = "damage" => KeptOK(vars_old) /\ KeptOK(vars_new)

LEMMA DamageKeeps ==
  ASSUME TypeInv, NEW eps \in Int, NEW v \in Vars, KeptOK(v)
  PROVE  KeptOK(DamageLaw(eps, v))
<1>1. ROld(v) \in Nat /\ ROld(v) >= Xt /\ Xt \in Nat /\ v.r \in Nat /\ Abs(eps) \in Nat
  BY DamageTypes, AbsType DEF TypeInv, Vars
<1>2. CASE Abs(eps) <= ROld(v)
  <2>1. DamageLaw(eps, v).r = ROld(v) /\ DamageLaw(eps, v).kept = v.kept
    BY <1>2, DamageTypes
  <2>. QED
    BY <1>1, <2>1 DEF KeptOK, ROld
<1>3. CASE ~(Abs(eps) <= ROld(v))
  <2>1. /\ DamageLaw(eps, v).r = Abs(eps)
        /\ DamageLaw(eps, v).kept = <<HardeningLaw(Abs(eps)), Abs(eps)>>
    BY <1>3 DEF DamageLaw, Vars
  <2>. QED
    BY <1>1, <1>3, <2>1 DEF KeptOK
<1>. QED
  BY <1>2, <1>3

LEMMA KeptInvariance == Spec => []KeptInv
<1>1. Init => KeptInv
  BY MaterialAssumption DEF Init, KeptInv, KeptOK, Virgin, MaterialAssumption
<1>2. Inv /\ KeptInv /\ [Next]_vars => KeptInv'
  <2>. SUFFICES ASSUME Inv, KeptInv, [Next]_vars PROVE KeptInv'
    OBVIOUS
  <2>1. ASSUME NEW eps \in Loads, Homogenize(eps) PROVE KeptInv'
    <3>1. /\ kind' = kind /\ Xt' = Xt /\ vars_old' = vars_old
          /\ vars_new' = Evolute(eps, vars_old, vars_new)
      BY <2>1 DEF Homogenize, parameters
    <3>2. kind = "damage" => KeptOK(DamageLaw(eps, vars_old))
      BY LoadsType, DamageKeeps DEF Inv, TypeInv, KeptInv
    <3>3. kind = "damage" => vars_new' = DamageLaw(eps, vars_old)
      BY <3>1 DEF Evolute
    <3>. QED
      BY <3>1, <3>2, <3>3 DEF KeptInv, KeptOK
  <2>2. CASE UpdateVars
    BY <2>2 DEF UpdateVars, parameters, KeptInv, KeptOK
  <2>3. CASE UNCHANGED vars
    BY <2>3 DEF vars, parameters, KeptInv, KeptOK
  <2>. QED
    BY <2>1, <2>2, <2>3 DEF Next
<1>. QED
  BY <1>1, <1>2, Invariance, PTL DEF Spec

(* What is kept up to the threshold is not more than beyond it.            *)
LEMMA KeptBelow ==
  ASSUME TypeInv, kind = "damage", LimitHardens, NEW v \in Vars, KeptOK(v)
  PROVE  /\ ROld(v) \in Nat /\ v.kept[1] \in Nat /\ v.kept[2] \in Nat \ {0}
         /\ \A x \in Nat : x > ROld(v) =>
              /\ HardeningLaw(x) \in Nat
              /\ ROld(v) * v.kept[1] <= HardeningLaw(x) * v.kept[2]
<1>1. v.r \in Nat /\ Xt \in Nat /\ (Xt = 0 \/ Xt >= Ey) /\ Ey \in Nat \ {0}
  BY MaterialAssumption DEF MaterialAssumption, TypeInv, Vars, LimitHardens
<1>2. CASE v.r <= Xt
  <2>1. ROld(v) = Xt /\ v.kept[1] = 1 /\ v.kept[2] = 1
    BY <1>1, <1>2 DEF ROld, KeptOK
  <2>2. ASSUME NEW x \in Nat, x > Xt PROVE HardeningLaw(x) \in Nat /\ Xt <= HardeningLaw(x)
    <3>1. HardeningLaw(x) \in Nat /\ (Ey <= x => x <= HardeningLaw(x))
      BY <1>1, <2>2, HardeningGrows
    <3>. QED
      BY <1>1, <2>2, <3>1
  <2>. QED
    BY <1>1, <2>1, <2>2
<1>3. CASE ~(v.r <= Xt)
  <2>1. /\ ROld(v) = v.r /\ v.kept[1] = HardeningLaw(v.r) /\ v.kept[2] = v.r
        /\ v.r \in Nat \ {0}
    BY <1>1, <1>3 DEF ROld, KeptOK
  <2>2. ASSUME NEW x \in Nat, x > v.r
        PROVE  /\ HardeningLaw(x) \in Nat
               /\ v.r * HardeningLaw(v.r) <= HardeningLaw(x) * v.r
    <3>1. /\ HardeningLaw(x) \in Nat /\ HardeningLaw(v.r) \in Nat
          /\ HardeningLaw(v.r) <= HardeningLaw(x)
      BY <1>1, <2>2, HardeningGrows
    <3>. HIDE DEF HardeningLaw
    <3>2. v.r * (HardeningLaw(x) - HardeningLaw(v.r)) >= 0
      BY <1>1, <3>1
    <3>. QED
      BY <1>1, <3>1, <3>2
  <2>3. HardeningLaw(v.r) \in Nat
    BY <1>1, HardeningGrows
  <2>. QED
    BY <2>1, <2>2, <2>3
<1>. QED
  BY <1>2, <1>3

(* The products of NotAbove, for strains i < j of a modulus m: where both  *)
(* are below the threshold R, one is, and none.                            *)
LEMMA BothBelow ==
  ASSUME NEW m \in Nat, NEW i \in Int, NEW j \in Int, i <= j, NEW p \in Nat, NEW q \in Nat
  PROVE  m * i * p * q <= m * j * p * q
<1>1. m * p * q \in Nat
  OBVIOUS
<1>2. (m * p * q) * (j - i) >= 0
  BY <1>1
<1>3. (m * p * q) * (j - i) = m * j * p * q - m * i * p * q
  OBVIOUS
<1>. QED
  BY <1>2, <1>3

(* The lower or the upper one is below; g is the size of the other one.    *)
LEMMA OneBelow ==
  ASSUME NEW m \in Nat, NEW i \in Int, NEW R \in Nat, -R <= i, i <= R,
         NEW g \in Nat, NEW h \in Nat, NEW p \in Nat, NEW q \in Nat, R * p <= h * q
  PROVE  /\ m * i * p * g <= m * g * h * q
         /\ m * (-g) * h * q <= m * i * p * g
<1>1. i * p <= R * p /\ -(R * p) <= i * p
  <2>1. (R - i) * p >= 0 /\ (R + i) * p >= 0
    OBVIOUS
  <2>2. (R - i) * p = R * p - i * p /\ (R + i) * p = R * p + i * p
    OBVIOUS
  <2>3. i * p \in Int /\ R * p \in Int
    OBVIOUS
  <2>. QED
    BY <2>1, <2>2, <2>3
<1>2. i * p \in Int /\ h * q \in Int /\ m * g \in Nat /\ R * p \in Int
  OBVIOUS
<1>3. (h * q) - (i * p) >= 0 /\ (h * q) + (i * p) >= 0
  BY <1>1, <1>2
<1>4. (m * g) * ((h * q) - (i * p)) >= 0 /\ (m * g) * ((h * q) + (i * p)) >= 0
  BY <1>2, <1>3
<1>5. /\ (m * g) * ((h * q) - (i * p)) = m * g * h * q - m * i * p * g
      /\ (m * g) * ((h * q) + (i * p)) = m * g * h * q + m * i * p * g
      /\ m * (-g) * h * q = -(m * g * h * q)
  OBVIOUS
<1>6. m * g * h * q \in Int /\ m * i * p * g \in Int
  OBVIOUS
<1>. QED
  BY <1>4, <1>5, <1>6

(* The sizes are g and l.                                                  *)
LEMMA NoneBelow ==
  ASSUME NEW m \in Nat, NEW g \in Nat, NEW l \in Nat, NEW h \in Nat, NEW w \in Nat
  PROVE  /\ h <= w => /\ m * g * h * l <= m * l * w * g
                      /\ m * (-l) * w * g <= m * (-g) * h * l
         /\ m * (-g) * h * l <= m * l * w * g
<1>1. m * g * l \in Nat
  OBVIOUS
<1>2. /\ h <= w => (m * g * l) * (w - h) >= 0
      /\ (m * g * l) * (w + h) >= 0
  BY <1>1
<1>3. /\ (m * g * l) * (w - h) = m * l * w * g - m * g * h * l
      /\ (m * g * l) * (w + h) = m * l * w * g + m * g * h * l
      /\ m * (-l) * w * g = -(m * l * w * g) /\ m * (-g) * h * l = -(m * g * h * l)
  OBVIOUS
<1>4. m * l * w * g \in Int /\ m * g * h * l \in Int
  OBVIOUS
<1>. QED
  BY <1>2, <1>3, <1>4

LEMMA DamageAnswer ==
  ASSUME TypeInv, NEW eps \in Int, NEW v \in Vars
  PROVE  DamageStress(eps, v) =
           IF Abs(eps) <= ROld(v)
             THEN <<Modulus * eps * v.kept[1], v.kept[2]>>
             ELSE <<Modulus * eps * HardeningLaw(Abs(eps)), Abs(eps)>>
BY DamageTypes DEF DamageStress, DamageLaw, ElasticStress, Vars

LEMMA NotAboveOf ==
  ASSUME NEW a, NEW b, NEW c, NEW d, a * d <= c * b
  PROVE  NotAbove(<<a, b>>, <<c, d>>)
BY DEF NotAbove

LEMMA DamageMonotone ==
  ASSUME TypeInv, kind = "damage", LimitHardens, NEW v \in Vars, KeptOK(v),
         NEW e \in Int, NEW f \in Int, e < f
  PROVE  NotAbove(DamageStress(e, v), DamageStress(f, v))
<1>. DEFINE R == ROld(v)
            c == v.kept[1]
            d == v.kept[2]
            m == Modulus
            H(x) == HardeningLaw(x)
<1>1. /\ R \in Nat /\ c \in Nat /\ d \in Nat \ {0} /\ m \in Nat
      /\ \A x \in Nat : x > R => H(x) \in Nat /\ R * c <= H(x) * d
  BY KeptBelow DEF Modulus
<1>2. \A a, b \in Nat : a <= b => H(a) \in Nat /\ H(b) \in Nat /\ H(a) <= H(b)
  BY HardeningGrows
<1>3. \A a \in Int : DamageStress(a, v) = IF Abs(a) <= R THEN <<m * a * c, d>>
                                                       ELSE <<m * a * H(Abs(a)), Abs(a)>>
  BY DamageAnswer
<1>4. \A a \in Int : /\ Abs(a) \in Nat
                     /\ Abs(a) <= R <=> -R <= a /\ a <= R
                     /\ a >= 0 => Abs(a) = a
                     /\ a <= 0 => Abs(a) = -a
  BY <1>1 DEF Abs
<1>. HIDE DEF R, c, d, m, H
<1>5. CASE Abs(e) <= R /\ Abs(f) <= R
  <2>1. m * e * c * d <= m * f * c * d
    BY <1>1, BothBelow
  <2>. QED
    BY <1>3, <1>5, <2>1 DEF NotAbove
<1>6. CASE Abs(e) <= R /\ ~(Abs(f) <= R)
  <2>1. f > R /\ f \in Nat /\ Abs(f) = f
    BY <1>1, <1>4, <1>6
  <2>2. H(f) \in Nat /\ R * c <= H(f) * d
    BY <1>1, <2>1
  <2>3. m * e * c * f <= m * f * H(f) * d
    BY <1>1, <1>4, <1>6, <2>1, <2>2, OneBelow
  <2>4. DamageStress(e, v) = <<m * e * c, d>> /\ DamageStress(f, v) = <<m * f * H(f), f>>
    BY <1>3, <1>6, <2>1
  <2>5. NotAbove(<<m * e * c, d>>, <<m * f * H(f), f>>)
    BY <2>3, NotAboveOf
  <2>. QED
    BY <2>4, <2>5, Zenon
<1>7. CASE ~(Abs(e) <= R) /\ Abs(f) <= R
  <2>. DEFINE g == -e
  <2>1. g > R /\ g \in Nat /\ Abs(e) = g /\ e = -g
    BY <1>1, <1>4, <1>7
  <2>. HIDE DEF g
  <2>2. H(g) \in Nat /\ R * c <= H(g) * d
    BY <1>1, <2>1
  <2>3. m * (-g) * H(g) * d <= m * f * c * g
    BY <1>1, <1>4, <1>7, <2>1, <2>2, OneBelow
  <2>4. DamageStress(e, v) = <<m * e * H(g), g>>
    BY <1>3, <1>7, <2>1
  <2>5. DamageStress(f, v) = <<m * f * c, d>>
    BY <1>3, <1>7
  <2>6. NotAbove(<<m * (-g) * H(g), g>>, <<m * f * c, d>>)
    BY <2>3, NotAboveOf
  <2>. QED
    BY <2>1, <2>4, <2>5, <2>6, Zenon
<1>8. CASE ~(Abs(e) <= R) /\ ~(Abs(f) <= R)
  <2>. DEFINE g == Abs(e)
              l == Abs(f)
  <2>1. g \in Nat /\ l \in Nat /\ H(g) \in Nat /\ H(l) \in Nat
    BY <1>2, <1>4
  <2>2. \/ e = g /\ f = l /\ g <= l
        \/ e = -g /\ f = -l /\ l <= g
        \/ e = -g /\ f = l
    BY <1>1, <1>4
  <2>3. /\ DamageStress(e, v) = <<m * e * H(g), g>>
        /\ DamageStress(f, v) = <<m * f * H(l), l>>
    BY <1>3, <1>8
  <2>. HIDE DEF g, l
  <2>4. m * e * H(g) * l <= m * f * H(l) * g
    <3>1. CASE e = g /\ f = l /\ g <= l
      <4>1. H(g) <= H(l)
        BY <1>2, <2>1, <3>1
      <4>. QED
        BY <1>1, <2>1, <3>1, <4>1, NoneBelow
    <3>2. CASE e = -g /\ f = -l /\ l <= g
      <4>1. H(l) <= H(g)
        BY <1>2, <2>1, <3>2
      <4>2. m * (-g) * H(g) * l <= m * (-l) * H(l) * g
        BY <1>1, <2>1, <4>1, NoneBelow
      <4>. QED
        BY <3>2, <4>2
    <3>3. CASE e = -g /\ f = l
      <4>1. m * (-g) * H(g) * l <= m * l * H(l) * g
        BY <1>1, <2>1, NoneBelow
      <4>. QED
        BY <3>3, <4>1
    <3>. QED
      BY <2>2, <3>1, <3>2, <3>3
  <2>. QED
    BY <2>3, <2>4 DEF NotAbove
<1>. QED
  BY <1>5, <1>6, <1>7, <1>8

(* Whatever the history, more strain never means less stress, where the    *)
(* damage law hardens from its limit on, or has none.                      *)
THEOREM TangentsNotNegative ==
  Spec /\ LimitHardens /\ []DivisionsAreExact => []TangentNotNegative
<1>1. LimitHardens /\ [Next]_vars => LimitHardens'
  BY DEF LimitHardens, Next, UpdateVars, Homogenize, vars, parameters
<1>2. Inv /\ KeptInv /\ LimitHardens /\ DivisionsAreExact => TangentNotNegative
  <2>. SUFFICES ASSUME Inv, KeptInv, LimitHardens, DivisionsAreExact,
                       NEW e \in Loads, NEW f \in Loads, e < f
                PROVE  NotAbove(GetStress(e, vars_old), GetStress(f, vars_old))
    BY DEF TangentNotNegative
  <2>1. e \in Int /\ f \in Int /\ TypeInv /\ vars_old \in Vars
    BY LoadsType DEF Inv, TypeInv
  <2>2. CASE kind = "elastic"
    BY <2>1, <2>2 DEF GetStress, ElasticStress, Modulus, NotAbove
  <2>3. CASE kind = "plastic"
    <3>1. Exact(e, vars_old) /\ Exact(f, vars_old)
      BY <2>3 DEF DivisionsAreExact
    <3>. QED
      BY <2>1, <2>3, <3>1, PlasticMonotone DEF GetStress
  <2>4. CASE kind = "damage"
    BY <2>1, <2>4, DamageMonotone DEF GetStress, KeptInv
  <2>. QED
    BY <2>1, <2>2, <2>3, <2>4 DEF TypeInv
<1>. QED
  BY <1>1, <1>2, Invariance, KeptInvariance, PTL DEF Spec

=============================================================================
