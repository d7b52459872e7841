------------------------------ MODULE MCEngine ------------------------------
(***************************************************************************)
(* Small instances of Engine for TLC.                                      *)
(***************************************************************************)
EXTENDS EngineRefinement, TLC

CONSTANTS w1, w2, r1, r2, k1, a1, a2, a3, a4, assess, charge, coupon

(* every run under one key: a second run is a re-submission *)
OneKey == [r \in RunIds |-> k1]

(* a2 is a tuple, a1 the list JSON makes of it *)
Jsoned == [a \in Answers |-> IF a = a2 THEN a1 ELSE a]

(* the shape of demo.py: a step that asks a model, then one with an effect *)
OnePlan    == {<<assess, charge>>}
ChargeOnly == {<<charge>>}

(* a deploy swaps the two steps; a deploy puts a step in front of another  *)
Reordered == {<<assess, charge>>, <<charge, assess>>}
Inserted  == {<<charge>>, <<coupon, charge>>}

TwoRuns  == Permutations({r1, r2})
Everyone == Permutations({r1, r2}) \cup Permutations({w1, w2})
Twins    == Permutations({w1, w2})
=============================================================================
