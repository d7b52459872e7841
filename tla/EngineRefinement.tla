-------------------------- MODULE EngineRefinement --------------------------
(***************************************************************************)
(* One worker at a time, however often it dies, implements DurableRun for  *)
(* a plan that does not change.  The steps on record are the rows of the   *)
(* run; what has acted is what the external systems have seen.             *)
(***************************************************************************)
EXTENDS EngineProperties, FiniteSets

ThePlan == CHOOSE p \in Plans : TRUE

Durable == INSTANCE DurableRun WITH
  Length   <- Len(ThePlan),
  EffectAt <- {i \in 0 .. (Len(ThePlan) - 1) : ThePlan[i + 1] \in Effects},
  done     <- [r \in RunIds |-> Cardinality(Rows(r))],
  failed   <- {r \in RunIds : \E row \in Rows(r) : row.outcome = "failed"},
  acted    <- {c.token : c \in charges}

(* Crashes, failed statements, interrupts and resumptions do not show in    *)
(* what a run does (engine.py:1-26).                                        *)
ImplementsDurableRun == Durable!Spec
=============================================================================
