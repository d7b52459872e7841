----------------------------- MODULE DurableRun -----------------------------
(***************************************************************************)
(* What durable execution promises a caller, with no workers, crashes,     *)
(* locks or resumption in sight: a run goes through its steps in order,    *)
(* performs each effect once and ahead of the record of its step, and ends *)
(* once, in a state its records account for.                               *)
(***************************************************************************)
EXTENDS Naturals

CONSTANTS RunIds, KeyOf, Length, EffectAt

VARIABLES
  status,   \* of each run
  done,     \* how many of its steps are on record
  failed,   \* the runs with a failure on record
  acted     \* effects performed, as <<run, step>>

vars == <<status, done, failed, acted>>

Busy(r) == status[r] \in {"pending", "running"}

Init ==
  /\ status = [r \in RunIds |-> "absent"]
  /\ done = [r \in RunIds |-> 0]
  /\ failed = {}
  /\ acted = {}

Submit(r) ==
  /\ status[r] = "absent"
  /\ \A s \in RunIds : KeyOf[s] = KeyOf[r] => ~Busy(s)
  /\ status' = [status EXCEPT ![r] = "pending"]
  /\ UNCHANGED <<done, failed, acted>>

Begin(r) ==
  /\ status[r] = "pending"
  /\ status' = [status EXCEPT ![r] = "running"]
  /\ UNCHANGED <<done, failed, acted>>

(* An effect happens once, when all steps ahead of its own are on record.   *)
Act(r, i) ==
  /\ status[r] = "running"
  /\ i \in EffectAt
  /\ i <= done[r]
  /\ <<r, i>> \notin acted
  /\ acted' = acted \cup {<<r, i>>}
  /\ UNCHANGED <<status, done, failed>>

RecordSuccess(r) ==
  /\ status[r] = "running"
  /\ done[r] < Length
  /\ done[r] \in EffectAt => <<r, done[r]>> \in acted
  /\ done' = [done EXCEPT ![r] = @ + 1]
  /\ UNCHANGED <<status, failed, acted>>

RecordFailure(r) ==
  /\ status[r] = "running"
  /\ done[r] < Length
  /\ done' = [done EXCEPT ![r] = @ + 1]
  /\ failed' = failed \cup {r}
  /\ UNCHANGED <<status, acted>>

Complete(r) ==
  /\ status[r] = "running"
  /\ done[r] = Length
  /\ \A i \in EffectAt : <<r, i>> \in acted
  /\ status' = [status EXCEPT ![r] = "completed"]
  /\ UNCHANGED <<done, failed, acted>>

GiveUp(r) ==
  /\ status[r] = "running"
  /\ r \in failed
  /\ \E s \in {"failed", "escalated"} : status' = [status EXCEPT ![r] = s]
  /\ UNCHANGED <<done, failed, acted>>

Next ==
  \E r \in RunIds :
    \/ Submit(r) \/ Begin(r) \/ RecordSuccess(r) \/ RecordFailure(r)
    \/ Complete(r) \/ GiveUp(r)
    \/ \E i \in EffectAt : Act(r, i)

Spec == Init /\ [][Next]_vars
=============================================================================
