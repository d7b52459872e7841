-------------------------- MODULE EngineLockProofs --------------------------
(***************************************************************************)
(* What the run lock and the unique index guarantee, for any set of        *)
(* workers, runs and keys.                                                 *)
(***************************************************************************)
EXTENDS EngineProofs

-----------------------------------------------------------------------------
(* The unique index.                                                        *)

(* Every change of a status goes through the index. *)
LEMMA StatusChange ==
  ASSUME TypeInv, [Next]_vars
  PROVE  \/ status' = status
         \/ \E r \in RunIds, s \in Statuses :
              /\ s \in Active => IndexAllows(r)
              /\ s = "pending" => status[r] = "absent"
              /\ status' = [status EXCEPT ![r] = s]
<1>1. CASE \E r \in RunIds : Submit(r)
  BY <1>1 DEF Submit, InsertRun, Statuses, Active
<1>2. CASE \E w \in Workers : Start(w) \/ Settle(w) \/ Finish(w)
  <2>1. PICK w \in Workers : Start(w) \/ Settle(w) \/ Finish(w)
    BY <1>2
  <2>2. run[w] \in RunIds
    BY <2>1, CallFacts DEF Start, Settle, Finish
  <2>3. CASE Start(w)
    BY <2>2, <2>3 DEF Start, SetStatus, Statuses, Active
  <2>4. CASE Settle(w)
    <3>1. result[w] \in Verdicts
      BY <2>4 DEF Settle, TypeInv, CallOK
    <3>2. result[w] \in Statuses /\ result[w] # "pending"
      BY <3>1, EngineAssumptions DEF Statuses, Terminal
    <3>3. QED
      BY <2>2, <2>4, <3>2 DEF Settle, SetStatus
  <2>5. CASE Finish(w)
    BY <2>2, <2>5 DEF Finish, SetStatus, Statuses, Terminal
  <2>6. QED
    BY <2>1, <2>3, <2>4, <2>5
<1>3. CASE /\ ~(\E r \in RunIds : Submit(r))
           /\ ~(\E w \in Workers : Start(w) \/ Settle(w) \/ Finish(w))
  BY <1>3 DEF Next, vars, storeVars, Resume, Load, SelectRun, CallStep,
     SelectSteps, PlanChanged, Acquire, LockUnavailable, StartConflict,
     PerformEffect, HandlerReturns, HandlerRaises, AppendRecord, RecordFailure, AppendRefused,
     InsertRecord, Release, CallFault, StoreFails, Interrupted, Die, ReleaseFails,
     LeaseLapses, SessionLost
<1>4. QED
  BY <1>1, <1>2, <1>3

LEMMA OneActiveNext ==
  ASSUME TypeInv, OneActiveRunPerKey, [Next]_vars
  PROVE  OneActiveRunPerKey'
<1>1. CASE status' = status
  BY <1>1 DEF OneActiveRunPerKey
<1>2. ASSUME NEW r \in RunIds, NEW s \in Statuses, s \in Active => IndexAllows(r),
             status' = [status EXCEPT ![r] = s]
      PROVE  OneActiveRunPerKey'
  <2>1. status'[r] = s /\ \A q \in RunIds \ {r} : status'[q] = status[q]
    BY <1>2 DEF TypeInv, TypeOK, StoreTypeOK
  <2>2. ASSUME NEW p \in RunIds, NEW q \in RunIds,
               status'[p] \in Active, status'[q] \in Active, KeyOf[p] = KeyOf[q]
        PROVE  p = q
    BY <1>2, <2>1, <2>2 DEF OneActiveRunPerKey, IndexAllows
  <2>3. QED
    BY <2>2 DEF OneActiveRunPerKey
<1>3. QED
  BY <1>1, <1>2, StatusChange

(* At most one run of a key is active, whoever submits and whoever resumes. *)
THEOREM OneActiveRunPerKeyHolds == Spec => []OneActiveRunPerKey
<1>1. Init => OneActiveRunPerKey
  BY DEF Init, StoreInit, OneActiveRunPerKey, Active
<1>2. TypeInv /\ OneActiveRunPerKey /\ [Next]_vars => OneActiveRunPerKey'
  BY OneActiveNext
<1>3. Init => TypeInv
  BY TypeInit
<1>4. TypeInv /\ [Next]_vars => TypeInv'
  BY TypeNext
<1>5. QED
  BY <1>1, <1>2, <1>3, <1>4, PTL DEF Spec

-----------------------------------------------------------------------------
(* The rows.                                                                *)

(* No checkpoint is ever changed, removed or doubled. *)
THEOREM CheckpointsAreImmutableHolds == Spec => CheckpointsAreImmutable
<1>1. [Next]_vars =>
        [/\ records \subseteq records'
         /\ \A new \in records' \ records : ~Recorded(new.run, new.index)]_vars
  BY RecordsChange DEF InsertRecord
<1>2. QED
  BY <1>1, PTL DEF Spec, CheckpointsAreImmutable

-----------------------------------------------------------------------------
(* One plan, one token.                                                     *)

(* An effect sits at the index its name has in every plan. *)
ChargesFitPlans ==
  \A charge \in charges, p \in Plans :
    charge.token[2] \in 0 .. (Len(p) - 1) /\ p[charge.token[2] + 1] = charge.name

LEMMA ChargesFitNext ==
  ASSUME \A p, q \in Plans : p = q, TypeInv, ChargesFitPlans, [Next]_vars
  PROVE  ChargesFitPlans'
<1>1. CASE charges' = charges
  BY <1>1 DEF ChargesFitPlans
<1>2. ASSUME NEW w \in Workers, PerformEffect(w)
      PROVE  ChargesFitPlans'
  <2>1. /\ plan[w] \in Plans /\ index[w] \in Nat /\ index[w] < Len(plan[w])
        /\ Len(plan[w]) \in Nat
    BY <1>2, CallFacts, PlanStep DEF PerformEffect, TypeInv, CallOK, AtStep
  <2>2. ASSUME NEW charge \in charges', NEW p \in Plans
        PROVE  charge.token[2] \in 0 .. (Len(p) - 1) /\ p[charge.token[2] + 1] = charge.name
    <3>1. CASE charge \in charges
      BY <3>1 DEF ChargesFitPlans
    <3>2. CASE charge \notin charges
      <4>1. charge.token[2] = index[w] /\ charge.name = plan[w][index[w] + 1]
        BY <1>2, <3>2 DEF PerformEffect, EffectToken, StepName
      <4>2. p = plan[w]
        BY <2>1
      <4>3. QED
        BY <2>1, <4>1, <4>2
    <3>3. QED
      BY <3>1, <3>2
  <2>3. QED
    BY <2>2 DEF ChargesFitPlans
<1>3. QED
  BY <1>1, <1>2, ChargesChange

(* While the plan does not change, no effect of a run happens under two     *)
(* tokens: neither crashes nor lapsed leases can make it.                   *)
THEOREM EffectUnderOneTokenHolds ==
  ASSUME \A p, q \in Plans : p = q, Plans # {}
  PROVE  Spec => []EffectUnderOneToken
<1>1. Init => TypeInv /\ ChargesFitPlans
  BY TypeInit DEF Init, ChargesFitPlans
<1>2. TypeInv /\ ChargesFitPlans /\ [Next]_vars => (TypeInv /\ ChargesFitPlans)'
  BY TypeNext, ChargesFitNext
<1>3. TypeInv /\ ChargesFitPlans => EffectUnderOneToken
  <2>1. SUFFICES ASSUME TypeInv, ChargesFitPlans, NEW c \in charges, NEW d \in charges,
                        c.token[1] = d.token[1], c.name = d.name
                 PROVE  c.token = d.token
    BY DEF EffectUnderOneToken
  <2>2. PICK p \in Plans : TRUE
    OBVIOUS
  <2>3. Len(p) \in Nat
    BY PlanStep
  <2>4. /\ c.token \in RunIds \X Indices /\ d.token \in RunIds \X Indices
        /\ c.token[2] \in 0 .. (Len(p) - 1) /\ p[c.token[2] + 1] = c.name
        /\ d.token[2] \in 0 .. (Len(p) - 1) /\ p[d.token[2] + 1] = d.name
    BY <2>1 DEF ChargesFitPlans, TypeInv, TypeOK, Charge
  <2>5. c.token[2] + 1 \in 1 .. Len(p) /\ d.token[2] + 1 \in 1 .. Len(p)
    BY <2>3, <2>4
  <2>6. \A i, j \in 1 .. Len(p) : p[i] = p[j] => i = j
    BY <2>2, EngineAssumptions
  <2>7. c.token[2] + 1 = d.token[2] + 1
    BY <2>1, <2>4, <2>5, <2>6
  <2>8. c.token[2] = d.token[2]
    BY <2>3, <2>4, <2>7
  <2>9. \A s, t \in RunIds \X Indices : s[1] = t[1] /\ s[2] = t[2] => s = t
    OBVIOUS
  <2>10. QED
    BY <2>1, <2>4, <2>8, <2>9
<1>4. QED
  BY <1>1, <1>2, <1>3, PTL DEF Spec

-----------------------------------------------------------------------------
(* Mutual exclusion.  A call under the lock owns it as long as nothing      *)
(* takes the lock from a live call; Acquire finds it taken then.            *)

OwnersHold ==
  LocksHold =>
    \A w \in Workers :
      pc[w] \in HasLock => holder[LockKey(w)] = w /\ LockKey(w) \notin lapsed

LEMMA OwnersHoldNext ==
  ASSUME TypeInv, OwnersHold, [Next]_vars
  PROVE  OwnersHold'
<1> USE DEF TypeInv, TypeOK, HasLock
<1>1. SUFFICES ASSUME LocksHold, NEW v \in Workers, pc'[v] \in HasLock
               PROVE  holder'[LockKey(v)'] = v /\ LockKey(v)' \notin lapsed'
  BY DEF OwnersHold
(* v was under the lock before, and the lock did not move *)
<1>2. ASSUME pc[v] \in HasLock, run'[v] = run[v],
             holder'[LockKey(v)] = holder[LockKey(v)],
             LockKey(v) \in lapsed' => LockKey(v) \in lapsed
      PROVE  holder'[LockKey(v)'] = v /\ LockKey(v)' \notin lapsed'
  BY <1>1, <1>2 DEF OwnersHold, LockKey
<1>3. CASE UNCHANGED <<pc[v], run[v], holder, lapsed>>
  BY <1>1, <1>2, <1>3
<1>4. ASSUME NEW w \in Workers, Acquire(w)
      PROVE  holder'[LockKey(v)'] = v /\ LockKey(v)' \notin lapsed'
  <2>1. /\ LockKey(w) \in Keys /\ UNCHANGED run
        /\ holder' = [holder EXCEPT ![LockKey(w)] = w] /\ lapsed' = lapsed \ {LockKey(w)}
        /\ pc[w] = "acquire" /\ pc' = [pc EXCEPT ![w] = "start"]
        /\ LockFree(LockKey(w))
    BY <1>4, LockKeyType DEF Acquire, Goto, localVars
  <2>2. CASE v = w
    BY <2>1, <2>2 DEF LockKey
  <2>3. CASE v # w
    <3>1. pc[v] \in HasLock
      BY <1>1, <2>1, <2>3
    <3>2. holder[LockKey(v)] = v /\ LockKey(v) \notin lapsed
      BY <1>1, <3>1 DEF OwnersHold
    <3>3. LockKey(v) # LockKey(w)
      BY <2>1, <3>2, EngineAssumptions DEF LockFree
    <3>4. QED
      BY <1>2, <2>1, <3>1, <3>3
  <2>4. QED
    BY <2>2, <2>3
<1>5. ASSUME NEW w \in Workers, Release(w) \/ Die(w)
      PROVE  holder'[LockKey(v)'] = v /\ LockKey(v)' \notin lapsed'
  <2>1. /\ pc' = [pc EXCEPT ![w] = "idle"] /\ run' = [run EXCEPT ![w] = None] /\ pc[w] # "idle"
        /\ \A k \in Keys : holder[k] # w => holder'[k] = holder[k]
        /\ \A k \in lapsed' : k \in lapsed \/ holder[k] = w
    BY <1>5, LockKeyType DEF Release, Die, Unlock, Leave
  <2>2. v # w /\ pc[v] \in HasLock /\ run'[v] = run[v]
    BY <1>1, <2>1
  <2>3. holder[LockKey(v)] = v /\ LockKey(v) \in Keys
    BY <1>1, <2>2, LockKeyType DEF OwnersHold
  <2>4. QED
    BY <1>2, <2>1, <2>2, <2>3
<1>6. ASSUME NEW k \in Keys, LeaseLapses(k)
      PROVE  holder'[LockKey(v)'] = v /\ LockKey(v)' \notin lapsed'
  <2>1. /\ UNCHANGED <<holder, pc, run>> /\ lapsed' = lapsed \cup {k} /\ ~OwnerAtWork(k)
    BY <1>1, <1>6 DEF LeaseLapses, localVars
  <2>2. pc[v] \in HasLock /\ holder[LockKey(v)] = v
    BY <1>1, <2>1 DEF OwnersHold
  <2>3. LockKey(v) # k
    BY <2>1, <2>2 DEF OwnerAtWork
  <2>4. QED
    BY <1>2, <2>1, <2>2, <2>3
<1>7. CASE \E k \in Keys : SessionLost(k)
  BY <1>1, <1>7 DEF SessionLost
<1>8. ASSUME NEW w \in Workers, ~Acquire(w), ~Release(w), ~Die(w), CallStep(w) \/ CallFault(w)
      PROVE  holder'[LockKey(v)'] = v /\ LockKey(v)' \notin lapsed'
  <2>1. UNCHANGED <<holder, lapsed>>
    BY <1>8 DEF CallStep, CallFault, lockVars,
       SelectSteps, PlanChanged, LockUnavailable, Start, StartConflict,
       PerformEffect, HandlerReturns, HandlerRaises, AppendRecord, RecordFailure, AppendRefused,
       Settle, Finish, StoreFails, Interrupted, ReleaseFails
  <2>2. v # w => UNCHANGED <<pc[v], run[v]>>
    BY <1>8 DEF CallStep, CallFault, Goto, Leave, localVars, Adopt, MoveOn,
       SelectSteps, PlanChanged, LockUnavailable, Start, StartConflict,
       PerformEffect, HandlerReturns, HandlerRaises, AppendRecord, RecordFailure, AppendRefused,
       Settle, Finish, StoreFails, Interrupted, ReleaseFails
  <2>3. v = w => pc[v] \in HasLock /\ run'[v] = run[v]
    BY <1>1, <1>8 DEF CallStep, CallFault, Goto, Leave, localVars, Adopt, MoveOn, HandlerDone,
       SelectSteps, PlanChanged, LockUnavailable, Start, StartConflict,
       PerformEffect, HandlerReturns, HandlerRaises, AppendRecord, RecordFailure, AppendRefused,
       Settle, Finish, StoreFails, Interrupted, ReleaseFails
  <2>4. QED
    BY <1>2, <1>3, <2>1, <2>2, <2>3
<1>9. CASE UNCHANGED vars \/ \E r \in RunIds : Submit(r)
  BY <1>3, <1>9 DEF vars, Submit, lockVars, localVars
<1>10. CASE \E w \in Workers, r \in RunIds, p \in Plans : Load(w, r, p) \/ SelectRun(w, r, p)
  <2>1. PICK w \in Workers, r \in RunIds, p \in Plans : Load(w, r, p) \/ SelectRun(w, r, p)
    BY <1>10
  <2>2. UNCHANGED <<holder, lapsed>> /\ pc'[w] \in {"hydrate", "acquire"}
        /\ \A u \in Workers \ {w} : UNCHANGED <<pc[u], run[u]>>
    BY <2>1 DEF Load, SelectRun, Adopt, lockVars
  <2>3. v # w
    BY <1>1, <2>2
  <2>4. QED
    BY <1>3, <2>2, <2>3
<1>11. QED
  BY <1>4, <1>5, <1>6, <1>7, <1>8, <1>9, <1>10 DEF Next, Resume

(* While no lease lapses and no session drops under a live call, no two     *)
(* calls for one key are under its lock, on either backend.                 *)
THEOREM ExclusiveHolds == Spec => []Exclusive
<1>1. Init => TypeInv /\ OwnersHold
  BY TypeInit DEF Init, OwnersHold, HasLock
<1>2. TypeInv /\ OwnersHold /\ [Next]_vars => (TypeInv /\ OwnersHold)'
  BY TypeNext, OwnersHoldNext
<1>3. OwnersHold => Exclusive
  BY DEF OwnersHold, Exclusive
<1>4. QED
  BY <1>1, <1>2, <1>3, PTL DEF Spec

-----------------------------------------------------------------------------
(* The engine as a user of the abstract lock.                               *)

Inside == {w \in Workers : pc[w] \in HasLock}

(* A call that is not at the gates of its lock leaves the lock alone. *)
LEMMA LockStutter ==
  ASSUME TypeInv, NEW w \in Workers, CallStep(w) \/ CallFault(w),
         ~Acquire(w), ~Release(w), ~ReleaseFails(w), ~Die(w)
  PROVE  UNCHANGED <<holder, lapsed, Inside>>
<1>1. UNCHANGED <<holder, lapsed>>
  BY DEF CallStep, CallFault, lockVars, SelectSteps, PlanChanged,
     LockUnavailable, Start, StartConflict, PerformEffect, HandlerReturns, HandlerRaises,
     AppendRecord, RecordFailure, AppendRefused, Settle, Finish, StoreFails, Interrupted
<1>2. \A v \in Workers \ {w} : pc'[v] = pc[v]
  BY DEF TypeInv, TypeOK, CallStep, CallFault, Goto, Leave, Adopt, MoveOn, SelectSteps,
     PlanChanged, LockUnavailable, Start, StartConflict, PerformEffect, HandlerReturns,
     HandlerRaises, AppendRecord, RecordFailure, AppendRefused, Settle, Finish, StoreFails,
     Interrupted
<1>3. pc'[w] \in HasLock <=> pc[w] \in HasLock
  <2> USE DEF TypeInv, TypeOK, HasLock, Goto
  <2>1. CASE SelectSteps(w) \/ PlanChanged(w) \/ LockUnavailable(w)
    BY <2>1 DEF SelectSteps, PlanChanged, LockUnavailable, Adopt, Leave
  <2>2. CASE Start(w) \/ AppendRecord(w)
    BY <2>2, LoopAtLabel DEF Start, AppendRecord, MoveOn
  <2>3. CASE \/ StartConflict(w) \/ PerformEffect(w) \/ HandlerReturns(w) \/ HandlerRaises(w)
             \/ RecordFailure(w) \/ AppendRefused(w) \/ Settle(w) \/ Finish(w)
    BY <2>3 DEF StartConflict, PerformEffect, HandlerReturns, HandlerRaises, HandlerDone,
       RecordFailure, AppendRefused, Settle, Finish
  <2>4. CASE StoreFails(w) \/ Interrupted(w)
    BY <2>4 DEF StoreFails, Interrupted, Leave
  <2>5. QED
    BY <2>1, <2>2, <2>3, <2>4 DEF CallStep, CallFault
<1>4. QED
  BY <1>1, <1>2, <1>3 DEF Inside

(* A call that ends under the lock leaves the inside, and nobody else does. *)
LEMMA LeaveInside ==
  ASSUME TypeInv, NEW w \in Workers, Leave(w)
  PROVE  Inside' = Inside \ {w}
BY DEF Inside, Leave, TypeInv, TypeOK, HasLock

(* Lapsed locks have an owner on record: the abstract lapse needs it. *)
LapsedHaveOwners == \A k \in lapsed : holder[k] # None

(* Every step of the engine is a step of the abstract lock, or none.        *)
LEMMA RunLockNext ==
  ASSUME TypeInv, LapsedHaveOwners, [Next]_vars
  PROVE  [Lock!Next]_(Lock!vars) /\ LapsedHaveOwners'
<1> USE DEF TypeInv, TypeOK
<1>1. CASE UNCHANGED <<holder, lapsed, Inside>>
  BY <1>1 DEF Lock!vars, Inside, LapsedHaveOwners
<1>2. ASSUME NEW w \in Workers, Acquire(w)
      PROVE  Lock!Grant(LockKey(w), w) /\ LapsedHaveOwners'
  <2>1. LockKey(w) \in Keys /\ w # None
    BY <1>2, LockKeyType, EngineAssumptions DEF Acquire
  <2>2. w \notin Inside /\ Inside' = Inside \cup {w}
    BY <1>2 DEF Acquire, Goto, Inside, HasLock
  <2>3. QED
    BY <1>2, <2>1, <2>2 DEF Acquire, LockFree, Lock!Grant, Inside, LapsedHaveOwners
<1>3. ASSUME NEW w \in Workers, Release(w) \/ ReleaseFails(w) \/ Die(w)
      PROVE  [Lock!Next]_(Lock!vars) /\ LapsedHaveOwners'
  <2>1. LockKey(w) \in Keys /\ Inside' = Inside \ {w}
    BY <1>3, LockKeyType, LeaveInside DEF Release, ReleaseFails, Die
  <2>2. CASE w \in Inside
    <3>1. CASE Release(w)
      BY <2>1, <2>2, <3>1, EngineAssumptions
         DEF Release, Unlock, Lock!Next, Lock!Leave, Inside, LapsedHaveOwners
    <3>2. CASE ReleaseFails(w)
      BY <2>1, <2>2, <3>2 DEF ReleaseFails, lockVars, Lock!Next, Lock!Leave, Inside, LapsedHaveOwners
    <3>3. CASE Die(w)
      BY <2>1, <2>2, <3>3, EngineAssumptions
         DEF Die, Lock!Next, Lock!Leave, Inside, LapsedHaveOwners
    <3>4. QED
      BY <1>3, <3>1, <3>2, <3>3
  <2>3. CASE w \notin Inside
    <3>1. UNCHANGED <<holder, lapsed>>
      BY <1>3, <2>3 DEF Release, ReleaseFails, Die, Inside, HasLock, lockVars
    <3>2. QED
      BY <1>1, <2>1, <2>3, <3>1
  <2>4. QED
    BY <2>2, <2>3
<1>4. ASSUME NEW k \in Keys, LeaseLapses(k) \/ SessionLost(k)
      PROVE  Lock!Lapse /\ LapsedHaveOwners'
  <2>1. /\ UNCHANGED <<holder, pc>> /\ lapsed' = lapsed \cup {k} /\ holder[k] # None
    BY <1>4 DEF LeaseLapses, SessionLost, localVars
  <2>2. QED
    BY <2>1 DEF Lock!Lapse, LapsedHaveOwners
<1>5. ASSUME NEW r \in RunIds, Submit(r) \/ Resume(r)
      PROVE  UNCHANGED <<holder, lapsed, Inside>>
  BY <1>5 DEF Submit, Resume, Load, SelectRun, Adopt, lockVars, localVars, Inside, HasLock
<1>6. QED
  <2>1. CASE \E w \in Workers : CallStep(w) \/ CallFault(w)
    <3>1. PICK w \in Workers : CallStep(w) \/ CallFault(w)
      BY <2>1
    <3>2. CASE Acquire(w)
      <4>1. LockKey(w) \in Keys
        BY <3>2, LockKeyType DEF Acquire
      <4>2. QED
        BY <1>2, <3>2, <4>1 DEF Lock!Next
    <3>3. QED
      BY <1>1, <1>3, <3>1, <3>2, LockStutter
  <2>2. CASE \E k \in Keys : LeaseLapses(k) \/ SessionLost(k)
    BY <1>4, <2>2 DEF Lock!Next
  <2>3. CASE UNCHANGED vars
    BY <1>1, <2>3 DEF vars, Inside
  <2>4. QED
    BY <1>1, <1>5, <2>1, <2>2, <2>3 DEF Next

(* Any number of calls on either backend, with every fault, do with the     *)
(* locks what RunLock allows: a call leaves with its own lock or with none. *)
THEOREM EngineImplementsRunLock == Spec => ImplementsRunLock
<1>1. Init => TypeInv /\ LapsedHaveOwners /\ Lock!Init
  BY TypeInit DEF Init, LapsedHaveOwners, Lock!Init, HasLock
<1>2. TypeInv /\ LapsedHaveOwners /\ [Next]_vars => (TypeInv /\ LapsedHaveOwners)'
  BY TypeNext, RunLockNext
<1>3. TypeInv /\ LapsedHaveOwners /\ [Next]_vars => [Lock!Next]_(Lock!vars)
  BY RunLockNext
<1>4. QED
  BY <1>1, <1>2, <1>3, PTL DEF Spec, ImplementsRunLock, Lock!Spec

-----------------------------------------------------------------------------
(* A run nobody has started.                                                *)

Started == HasLock \ {"start", "release"}

(* A call gets past the start by setting its run to running. *)
LEMMA PastTheStart ==
  ASSUME TypeInv, [Next]_vars, NEW w \in Workers, pc'[w] \in Started
  PROVE  \/ pc[w] \in Started /\ run'[w] = run[w]
         \/ run'[w] \in RunIds /\ status'[run'[w]] = "running"
<1> USE DEF TypeInv, TypeOK, StoreTypeOK, Started, HasLock
<1>1. CASE UNCHANGED <<pc, run>>
  BY <1>1
<1>2. CASE Start(w)
  <2>1. run[w] \in RunIds
    BY <1>2, CallFacts DEF Start
  <2>2. QED
    BY <1>2, <2>1 DEF Start, SetStatus, Goto, localVars
<1>3. ASSUME NEW v \in Workers, v # w, CallStep(v) \/ CallFault(v)
      PROVE  UNCHANGED <<pc[w], run[w]>>
  BY <1>3 DEF CallStep, CallFault, Goto, Leave, localVars, Adopt, MoveOn, Acquire, Release,
     SelectSteps, PlanChanged, LockUnavailable, Start, StartConflict, PerformEffect,
     HandlerReturns, HandlerRaises, AppendRecord, RecordFailure, AppendRefused, Settle,
     Finish, StoreFails, Interrupted, ReleaseFails, Die
<1>4. CASE ~Start(w) /\ (CallStep(w) \/ CallFault(w))
  BY <1>4 DEF CallStep, CallFault, Goto, Leave, localVars, Adopt, MoveOn, Acquire, Release,
     HandlerDone, SelectSteps, PlanChanged, LockUnavailable, StartConflict, PerformEffect,
     HandlerReturns, HandlerRaises, AppendRecord, RecordFailure, AppendRefused, Settle,
     Finish, StoreFails, Interrupted, ReleaseFails, Die
<1>5. ASSUME NEW r \in RunIds, Submit(r) \/ Resume(r)
      PROVE  pc[w] \in Started /\ run'[w] = run[w]
  BY <1>5 DEF Submit, Resume, Load, SelectRun, Adopt, localVars
<1>6. CASE \E k \in Keys : LeaseLapses(k) \/ SessionLost(k)
  BY <1>6 DEF LeaseLapses, SessionLost, localVars
<1>7. QED
  BY <1>1, <1>2, <1>3, <1>4, <1>5, <1>6 DEF Next, vars, localVars

LEMMA NothingBeforeRunningNext ==
  ASSUME TypeInv, NothingBeforeRunning, [Next]_vars
  PROVE  NothingBeforeRunning'
<1>1. SUFFICES ASSUME NEW r \in RunIds, status'[r] \in {"absent", "pending"}
               PROVE  /\ Rows(r)' = {}
                      /\ \A charge \in charges' : charge.token[1] # r
                      /\ \A w \in Workers : Executing(w, r)' => pc'[w] \in {"start", "release"}
  BY DEF NothingBeforeRunning
<1>2. status[r] \in {"absent", "pending"}
  BY <1>1, StatusChange DEF TypeInv, TypeOK, StoreTypeOK, Statuses, Active, Terminal
<1>3. /\ Rows(r) = {}
      /\ \A charge \in charges : charge.token[1] # r
      /\ \A w \in Workers : Executing(w, r) => pc[w] \in {"start", "release"}
  BY <1>2 DEF NothingBeforeRunning
<1>4. \A w \in Workers : pc[w] \in Started => run[w] # r
  BY <1>3 DEF Started, Executing
<1>5. Rows(r)' = {}
  <2>1. CASE records' = records
    BY <1>3, <2>1 DEF Rows
  <2>2. ASSUME NEW w \in Workers, NEW outcome, NEW output, pc[w] \in AtStep,
               InsertRecord(StepRecord(w, outcome, output))
        PROVE  Rows(r)' = {}
    <3>1. run[w] # r
      BY <1>4, <2>2 DEF AtStep, Started, HasLock
    <3>2. \A row \in records' : row \in records \/ row.run = run[w]
      BY <2>2 DEF InsertRecord, StepRecord
    <3>3. QED
      BY <1>3, <3>1, <3>2 DEF Rows
  <2>3. QED
    BY <2>1, <2>2, RecordsChange
<1>6. ASSUME NEW charge \in charges'
      PROVE  charge.token[1] # r
  <2>1. CASE charge \in charges
    BY <1>3, <2>1
  <2>2. CASE charge \notin charges
    <3>1. PICK w \in Workers : PerformEffect(w)
      BY <1>6, <2>2, ChargesChange
    <3>2. charge.token[1] = run[w] /\ pc[w] = "handler"
      BY <2>2, <3>1 DEF PerformEffect, EffectToken
    <3>3. QED
      BY <1>4, <3>2 DEF Started, HasLock
  <2>3. QED
    BY <2>1, <2>2
<1>7. ASSUME NEW w \in Workers, Executing(w, r)', pc'[w] \notin {"start", "release"}
      PROVE  FALSE
  <2>1. pc'[w] \in Started /\ run'[w] = r
    BY <1>7 DEF Executing, Started
  <2>2. QED
    BY <1>1, <1>4, <2>1, PastTheStart
<1>8. QED
  BY <1>5, <1>6, <1>7

(* A run that no worker has started has no rows, no effects and nobody past *)
(* the start.                                                               *)
THEOREM NothingBeforeRunningHolds == Spec => []NothingBeforeRunning
<1>1. Init => TypeInv /\ NothingBeforeRunning
  BY TypeInit DEF Init, StoreInit, NothingBeforeRunning, Rows, Executing, HasLock
<1>2. TypeInv /\ NothingBeforeRunning /\ [Next]_vars => (TypeInv /\ NothingBeforeRunning)'
  BY TypeNext, NothingBeforeRunningNext
<1>3. QED
  BY <1>1, <1>2, PTL DEF Spec

=============================================================================
