----------------------------- MODULE MCMicropp -----------------------------
(***************************************************************************)
(* Instances of Micropp for TLC.                                           *)
(***************************************************************************)
EXTENDS Micropp

OneWay == [g \in GP |-> "FE_ONE_WAY"]

(* Two tasks, the second spawned after the main thread has solved a point *)
(* of its own while the first one ran, and a linear point.                 *)
Mixed == [g \in GP |-> CASE g = 1 -> "FE_FULL"
                         [] g = 3 -> "MIX_RULE_CHAMIS"
                         [] OTHER -> "FE_ONE_WAY"]

(* Memory straight from the operating system.                              *)
ZeroPages == {0}

(* Memory an earlier object has used and freed.                            *)
Recycled == Hist
=============================================================================
