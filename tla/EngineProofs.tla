---------------------------- MODULE EngineProofs ----------------------------
(***************************************************************************)
(* What module Engine guarantees for any set of workers, runs, keys,       *)
(* plans, answers and effects, any bound on faults and either backend.     *)
(***************************************************************************)
EXTENDS EngineProperties, TLAPS

(* the labels at which a call is busy with the step at index *)
AtStep == {"handler", "performed", "append", "record_failure"}

(* A call in progress has its arguments, a step of its plan to work on, and *)
(* the result its label is about.                                           *)
CallOK ==
  \A w \in Workers :
    /\ pc[w] # "idle" => run[w] \in RunIds /\ plan[w] \in Plans
    /\ pc[w] \in AtStep => index[w] < Len(plan[w])
    /\ pc[w] = "append" => result[w] \in Answers
    /\ pc[w] \in {"record_failure", "settle"} => result[w] \in Verdicts

TypeInv == TypeOK /\ CallOK

USE StoreAssumptions, EngineAssumptions

-----------------------------------------------------------------------------
(* Facts about plans and calls. *)

(* A step of a plan has a name. *)
LEMMA PlanStep ==
  ASSUME NEW p \in Plans
  PROVE  /\ p \in Seq(Names)
         /\ Len(p) \in 1 .. MaxSteps
         /\ \A i \in 0 .. (Len(p) - 1) : p[i + 1] \in Names
<1>1. p \in Seq(Names) /\ Len(p) \in 1 .. MaxSteps
  OBVIOUS
<1>2. \A i \in 0 .. (Len(p) - 1) : p[i + 1] \in Names
  <2>1. TAKE i \in 0 .. (Len(p) - 1)
  <2>2. i + 1 \in 1 .. Len(p)
    BY <1>1
  <2>3. QED
    BY <1>1, <2>2
<1>3. QED
  BY <1>1, <1>2

(* A call at a step writes a row of the right type. *)
LEMMA StepRecordType ==
  ASSUME TypeInv, NEW w \in Workers, pc[w] \in AtStep,
         NEW outcome \in {"ok", "failed"}, NEW output \in Outputs
  PROVE  StepRecord(w, outcome, output) \in Row
<1>1. /\ run[w] \in RunIds /\ plan[w] \in Plans
      /\ index[w] \in 0 .. MaxSteps /\ index[w] < Len(plan[w])
      /\ previous[w] \in SUBSET (Names \X Outputs)
  BY DEF TypeInv, TypeOK, CallOK, AtStep
<1>2. index[w] \in 0 .. (Len(plan[w]) - 1) /\ index[w] \in Indices
  BY <1>1, PlanStep DEF Indices
<1>3. StepName(w) \in Names
  BY <1>1, <1>2, PlanStep DEF StepName
<1>4. Encoded(output) \in Outputs
  BY DEF Encoded, Outputs
<1>5. QED
  BY <1>1, <1>2, <1>3, <1>4 DEF StepRecord, Row

(* What a call in progress works with. *)
LEMMA CallFacts ==
  ASSUME TypeInv, NEW w \in Workers, pc[w] # "idle"
  PROVE  run[w] \in RunIds /\ plan[w] \in Plans /\ index[w] \in Nat
<1>1. index[w] \in 0 .. MaxSteps
  BY DEF TypeInv, TypeOK
<1>2. QED
  BY <1>1 DEF TypeInv, CallOK

LEMMA LockKeyType ==
  ASSUME TypeInv, NEW w \in Workers, pc[w] # "idle"
  PROVE  LockKey(w) \in Keys
<1>1. run[w] \in RunIds
  BY CallFacts
<1>2. QED
  BY <1>1, StoreAssumptions DEF LockKey

(* Whatever label the loop continues at, the call is well formed there. *)
LEMMA LoopAtLabel ==
  ASSUME NEW w \in Workers, NEW i
  PROVE  /\ LoopAt(w, i) \in {"handler", "finish"}
         /\ LoopAt(w, i) \in AtStep => i < Len(plan[w])
BY DEF LoopAt, AtStep

-----------------------------------------------------------------------------
(* Steps that touch one call only. *)

(* Moving a call to a label it has the data for keeps every call well formed. *)
LEMMA GotoKeepsCalls ==
  ASSUME TypeInv, NEW w \in Workers, pc[w] # "idle",
         NEW label \in Labels, label # "idle", Goto(w, label),
         label \in AtStep => index[w] < Len(plan[w]),
         label = "append" => result[w] \in Answers,
         label \in {"record_failure", "settle"} => result[w] \in Verdicts
  PROVE  CallOK' /\ pc' \in [Workers -> Labels]
BY DEF TypeInv, TypeOK, CallOK, Goto, localVars, AtStep

(* Leaving keeps every other call well formed. *)
LEMMA LeaveKeepsCalls ==
  ASSUME TypeInv, NEW w \in Workers, Leave(w)
  PROVE  /\ CallOK'
         /\ pc' \in [Workers -> Labels]
         /\ run' \in [Workers -> RunIds \cup {None}]
         /\ plan' \in [Workers -> Plans \cup {None}]
         /\ index' \in [Workers -> 0 .. MaxSteps]
         /\ previous' \in [Workers -> SUBSET (Names \X Outputs)]
         /\ result' \in [Workers -> Answers \cup Verdicts \cup {None}]
BY DEF TypeInv, TypeOK, CallOK, Leave, Labels, AtStep

-----------------------------------------------------------------------------
(* Type correctness. *)

(* What each action does to the store, seen as types. *)
LEMMA InsertRecordType ==
  ASSUME StoreTypeOK, NEW row \in Row, InsertRecord(row)
  PROVE  StoreTypeOK'
BY DEF StoreTypeOK, InsertRecord

LEMMA SetStatusType ==
  ASSUME StoreTypeOK, NEW r \in RunIds, NEW s \in Statuses, SetStatus(r, s)
  PROVE  StoreTypeOK'
BY DEF StoreTypeOK, SetStatus

(* Loading a run gives a call the data that acquire starts from. *)
LEMMA AdoptType ==
  ASSUME TypeInv, NEW w \in Workers, NEW r \in RunIds, NEW p \in Plans, Adopt(w, r, p)
  PROVE  /\ CallOK'
         /\ pc' \in [Workers -> Labels]
         /\ run' \in [Workers -> RunIds \cup {None}]
         /\ plan' \in [Workers -> Plans \cup {None}]
         /\ index' \in [Workers -> 0 .. MaxSteps]
         /\ previous' \in [Workers -> SUBSET (Names \X Outputs)]
         /\ result' \in [Workers -> Answers \cup Verdicts \cup {None}]
<1>1. PreviousOutputs(r) \in SUBSET (Names \X Outputs)
  BY DEF PreviousOutputs, Rows, TypeInv, TypeOK, StoreTypeOK, Row
<1>2. QED
  BY <1>1 DEF Adopt, TypeInv, TypeOK, CallOK, Labels, AtStep

LEMMA TypeInit == Init => TypeInv
BY DEF Init, StoreInit, TypeInv, TypeOK, StoreTypeOK, CallOK, Labels, Indices, AtStep

LEMMA TypeNext ==
  ASSUME TypeInv, [Next]_vars
  PROVE  TypeInv'
<1> USE DEF TypeInv
<1>1. CASE UNCHANGED vars
  BY <1>1 DEF vars, TypeOK, StoreTypeOK, CallOK
<1>2. ASSUME NEW r \in RunIds, Submit(r)
      PROVE  TypeInv'
  BY <1>2 DEF Submit, InsertRun, TypeOK, StoreTypeOK, CallOK, lockVars, localVars,
              Statuses, Active
<1>3. ASSUME NEW w \in Workers, NEW r \in RunIds, NEW p \in Plans, Load(w, r, p)
      PROVE  TypeInv'
  <2>1. Adopt(w, r, p) /\ UNCHANGED <<storeVars, lockVars, charges, faults>>
    BY <1>3 DEF Load
  <2>2. QED
    BY <2>1, AdoptType DEF TypeOK, StoreTypeOK, storeVars, lockVars
<1>4. ASSUME NEW w \in Workers, NEW r \in RunIds, NEW p \in Plans, SelectRun(w, r, p)
      PROVE  TypeInv'
  BY <1>4 DEF SelectRun, TypeOK, StoreTypeOK, CallOK, storeVars, lockVars, Labels, AtStep
<1>5. ASSUME NEW w \in Workers, SelectSteps(w)
      PROVE  TypeInv'
  <2>1. /\ Adopt(w, run[w], plan[w]) /\ UNCHANGED <<storeVars, lockVars, charges, faults>>
        /\ run[w] \in RunIds /\ plan[w] \in Plans
    BY <1>5 DEF SelectSteps, CallOK
  <2>2. QED
    BY <2>1, AdoptType DEF TypeOK, StoreTypeOK, storeVars, lockVars
<1>6. ASSUME NEW w \in Workers, PlanChanged(w) \/ LockUnavailable(w) \/ ReleaseFails(w)
      PROVE  TypeInv'
  <2>1. Leave(w) /\ UNCHANGED <<storeVars, lockVars, charges>> /\ faults' \in 0 .. MaxFaults
    BY <1>6 DEF PlanChanged, LockUnavailable, ReleaseFails, Fault, TypeOK
  <2>2. QED
    BY <2>1, LeaveKeepsCalls DEF TypeOK, StoreTypeOK, storeVars, lockVars
<1>7. ASSUME NEW w \in Workers, Release(w)
      PROVE  TypeInv'
  <2>1. Leave(w) /\ UNCHANGED <<storeVars, charges, faults>> /\ Unlock(w, LockKey(w))
    BY <1>7 DEF Release
  <2>2. holder' \in [Keys -> Workers \cup {None}] /\ lapsed' \subseteq Keys
    BY <2>1 DEF Unlock, TypeOK
  <2>3. QED
    BY <2>1, <2>2, LeaveKeepsCalls DEF TypeOK, StoreTypeOK, storeVars
<1>8. ASSUME NEW w \in Workers, Die(w)
      PROVE  TypeInv'
  <2>1. Leave(w) /\ UNCHANGED <<storeVars, holder, charges>> /\ faults' \in 0 .. MaxFaults
    BY <1>8 DEF Die, Fault, TypeOK
  <2>2. lapsed' \subseteq Keys
    BY <1>8, LockKeyType DEF Die, TypeOK, HasLock
  <2>3. QED
    BY <2>1, <2>2, LeaveKeepsCalls DEF TypeOK, StoreTypeOK, storeVars
<1>9. ASSUME NEW w \in Workers, Acquire(w)
      PROVE  TypeInv'
  <2>1. /\ pc[w] = "acquire" /\ Goto(w, "start") /\ UNCHANGED <<storeVars, charges, faults>>
        /\ holder' \in [Keys -> Workers \cup {None}] /\ lapsed' \subseteq Keys
    BY <1>9 DEF Acquire, TypeOK
  <2>2. QED
    BY <2>1, GotoKeepsCalls DEF TypeOK, StoreTypeOK, storeVars, Goto, localVars, Labels, HasLock, AtStep
<1>10. ASSUME NEW w \in Workers, Start(w)
       PROVE  TypeInv'
  <2>1. /\ pc[w] = "start" /\ SetStatus(run[w], "running") /\ Goto(w, LoopAt(w, index[w]))
        /\ UNCHANGED <<lockVars, charges, faults>>
    BY <1>10 DEF Start
  <2>2. run[w] \in RunIds /\ StoreTypeOK'
    BY <2>1, SetStatusType DEF TypeOK, CallOK, Statuses, Active
  <2>3. QED
    BY <2>1, <2>2, LoopAtLabel, GotoKeepsCalls
       DEF TypeOK, lockVars, Goto, localVars, Labels, HasLock
<1>11. ASSUME NEW w \in Workers,
              StartConflict(w) \/ AppendRefused(w) \/ Interrupted(w)
       PROVE  TypeInv'
  <2>1. /\ pc[w] # "idle" /\ Goto(w, "release") /\ UNCHANGED <<storeVars, lockVars, charges>>
        /\ faults' \in 0 .. MaxFaults
    BY <1>11 DEF StartConflict, AppendRefused, Interrupted, Fault, TypeOK
  <2>2. QED
    BY <2>1, GotoKeepsCalls
       DEF TypeOK, StoreTypeOK, storeVars, lockVars, Goto, localVars, Labels, HasLock, AtStep
<1>12. ASSUME NEW w \in Workers, StoreFails(w)
       PROVE  TypeInv'
  <2>1. UNCHANGED <<storeVars, lockVars, charges>> /\ faults' \in 0 .. MaxFaults
    BY <1>12 DEF StoreFails, Fault, TypeOK
  <2>2. CASE Leave(w)
    BY <2>1, <2>2, LeaveKeepsCalls DEF TypeOK, StoreTypeOK, storeVars, lockVars
  <2>3. CASE pc[w] # "idle" /\ Goto(w, "release")
    BY <2>1, <2>3, GotoKeepsCalls
       DEF TypeOK, StoreTypeOK, storeVars, lockVars, Goto, localVars, Labels, HasLock, AtStep
  <2>4. QED
    BY <1>12, <2>2, <2>3 DEF StoreFails
<1>13. ASSUME NEW w \in Workers, PerformEffect(w)
       PROVE  TypeInv'
  <2>1. /\ pc[w] = "handler" /\ Goto(w, "performed") /\ UNCHANGED <<storeVars, lockVars, faults>>
        /\ index[w] < Len(plan[w]) /\ run[w] \in RunIds /\ plan[w] \in Plans
        /\ index[w] \in 0 .. MaxSteps
    BY <1>13 DEF PerformEffect, CallOK, AtStep, TypeOK
  <2>2. [token |-> EffectToken(w), name |-> StepName(w)] \in Charge
    <3>1. index[w] \in 0 .. (Len(plan[w]) - 1) /\ index[w] \in Indices
      BY <2>1, PlanStep DEF Indices
    <3>2. StepName(w) \in Names
      BY <2>1, <3>1, PlanStep DEF StepName
    <3>3. QED
      BY <2>1, <3>1, <3>2 DEF EffectToken, Charge
  <2>3. charges' \subseteq Charge
    BY <1>13, <2>2 DEF PerformEffect, TypeOK
  <2>4. QED
    BY <2>1, <2>3, GotoKeepsCalls
       DEF TypeOK, StoreTypeOK, storeVars, lockVars, Goto, localVars, Labels, HasLock, AtStep
<1>14. ASSUME NEW w \in Workers, HandlerReturns(w)
       PROVE  TypeInv'
  <2>1. pc[w] \in AtStep
    BY <1>14 DEF HandlerReturns, HandlerDone, AtStep
  <2>2. QED
    BY <1>14, <2>1 DEF HandlerReturns, TypeOK, StoreTypeOK, CallOK, storeVars, lockVars,
                       Labels, HasLock, AtStep
<1>15. ASSUME NEW w \in Workers, HandlerRaises(w)
       PROVE  TypeInv'
  BY <1>15 DEF HandlerRaises, TypeOK, StoreTypeOK, CallOK, storeVars, lockVars,
               Labels, HasLock, AtStep
<1>16. ASSUME NEW w \in Workers, AppendRecord(w)
       PROVE  TypeInv'
  <2>1. /\ pc[w] \in AtStep /\ InsertRecord(StepRecord(w, "ok", result[w])) /\ MoveOn(w)
        /\ result[w] \in Answers /\ UNCHANGED <<lockVars, charges, faults>>
        /\ run[w] \in RunIds /\ plan[w] \in Plans /\ pc[w] # "idle"
        /\ index[w] \in 0 .. MaxSteps /\ index[w] < Len(plan[w])
    BY <1>16 DEF AppendRecord, CallOK, AtStep, TypeOK
  <2>2. StoreTypeOK'
    BY <2>1, StepRecordType, InsertRecordType DEF TypeOK, Outputs
  <2>3. index[w] \in 0 .. (Len(plan[w]) - 1) /\ index[w] + 1 \in 0 .. MaxSteps
    BY <2>1, PlanStep
  <2>4. Remember(w, result[w]) \in SUBSET (Names \X Outputs)
    <3>1. StepName(w) \in Names
      BY <2>1, <2>3, PlanStep DEF StepName
    <3>2. QED
      BY <2>1, <3>1 DEF Remember, Outputs, TypeOK
  <2>5. QED
    BY <2>1, <2>2, <2>3, <2>4, LoopAtLabel
       DEF MoveOn, TypeOK, CallOK, lockVars, Labels, HasLock, AtStep
<1>17. ASSUME NEW w \in Workers, RecordFailure(w)
       PROVE  TypeInv'
  <2>1. /\ pc[w] = "record_failure" /\ InsertRecord(StepRecord(w, "failed", ErrorOutput))
        /\ Goto(w, "settle") /\ UNCHANGED <<lockVars, charges, faults>>
    BY <1>17 DEF RecordFailure
  <2>2. StoreTypeOK' /\ result[w] \in Verdicts
    BY <2>1, StepRecordType, InsertRecordType DEF TypeOK, Outputs, AtStep, CallOK
  <2>3. QED
    BY <2>1, <2>2, GotoKeepsCalls
       DEF TypeOK, lockVars, Goto, localVars, Labels, HasLock, AtStep
<1>18. ASSUME NEW w \in Workers, Settle(w) \/ Finish(w)
       PROVE  TypeInv'
  <2>1. /\ pc[w] # "idle" /\ run[w] \in RunIds /\ Goto(w, "release")
        /\ \E s \in Statuses : SetStatus(run[w], s)
        /\ UNCHANGED <<lockVars, charges, faults>>
    BY <1>18 DEF Settle, Finish, CallOK, Statuses, Terminal
  <2>2. StoreTypeOK'
    BY <2>1, SetStatusType DEF TypeOK
  <2>3. QED
    BY <2>1, <2>2, GotoKeepsCalls
       DEF TypeOK, lockVars, Goto, localVars, Labels, HasLock, AtStep
<1>19. ASSUME NEW k \in Keys, LeaseLapses(k) \/ SessionLost(k)
       PROVE  TypeInv'
  <2>1. /\ UNCHANGED <<storeVars, charges, pc, localVars>> /\ faults' \in 0 .. MaxFaults
        /\ holder' \in [Keys -> Workers \cup {None}] /\ lapsed' \subseteq Keys
    <3>1. CASE LeaseLapses(k)
      BY <3>1 DEF LeaseLapses, TypeOK
    <3>2. CASE SessionLost(k)
      BY <3>2 DEF SessionLost, Fault, TypeOK
    <3>3. QED
      BY <1>19, <3>1, <3>2
  <2>2. QED
    BY <2>1 DEF TypeOK, StoreTypeOK, CallOK, storeVars, localVars
<1>20. QED
  BY <1>1, <1>2, <1>3, <1>4, <1>5, <1>6, <1>7, <1>8, <1>9, <1>10, <1>11, <1>12, <1>13,
     <1>14, <1>15, <1>16, <1>17, <1>18, <1>19
     DEF Next, Resume, CallStep, CallFault

(* The tables, the lock, the effects and every call keep their types, in    *)
(* any interleaving of any number of workers with any faults.               *)
THEOREM TypeCorrect == Spec => []TypeOK
<1>1. Init => TypeInv
  BY TypeInit
<1>2. TypeInv /\ [Next]_vars => TypeInv'
  BY TypeNext
<1>3. TypeInv => TypeOK
  BY DEF TypeInv
<1>4. QED
  BY <1>1, <1>2, <1>3, PTL DEF Spec

-----------------------------------------------------------------------------
(* History.  The promise that rows form a prefix, and that effects stay     *)
(* within one step of it, rests on where calls stand: a call that has       *)
(* loaded its run has rows for everything ahead of its index.  The lock     *)
(* plays no part, so the promise survives a lapsed lease.                   *)

PositionOf(w) ==
  /\ pc[w] \notin {"idle", "hydrate"} =>
       \A i \in 0 .. (index[w] - 1) : Recorded(run[w], i) /\ ActedAt(run[w], plan[w], i)
  /\ pc[w] = "performed" => Performed(<<run[w], index[w]>>)
  /\ pc[w] = "append" => ActedAt(run[w], plan[w], index[w])
  /\ pc[w] = "finish" => index[w] >= Len(plan[w])

Core ==
  /\ History
  /\ EffectsFollowHistory
  /\ OkMeansActed
  /\ CompletedMeansDone
  /\ \A w \in Workers : PositionOf(w)

IInv == TypeInv /\ Core

(* Rows come from calls at a step, the ok ones from append, and the failed  *)
(* ones say so.                                                             *)
LEMMA RecordsChange ==
  ASSUME [Next]_vars
  PROVE  \/ records' = records
         \/ \E w \in Workers, outcome \in {"ok", "failed"} : \E output :
              /\ pc[w] \in AtStep
              /\ outcome = "ok" => pc[w] = "append"
              /\ outcome = "failed" => pc[w] = "record_failure" /\ output = ErrorOutput
              /\ InsertRecord(StepRecord(w, outcome, output))
<1>1. CASE \E w \in Workers : AppendRecord(w)
  BY <1>1 DEF AppendRecord, AtStep
<1>2. CASE \E w \in Workers : RecordFailure(w)
  BY <1>2 DEF RecordFailure, AtStep
<1>3. CASE ~(\E w \in Workers : AppendRecord(w) \/ RecordFailure(w))
  BY <1>3 DEF Next, vars, storeVars, Submit, InsertRun, Resume, Load, SelectRun, CallStep,
     SelectSteps, PlanChanged, Acquire, LockUnavailable, Start, StartConflict, SetStatus,
     PerformEffect, HandlerReturns, HandlerRaises, AppendRefused, Settle, Finish, Release,
     CallFault, StoreFails, Interrupted, Die, ReleaseFails, LeaseLapses, SessionLost
<1>4. QED
  BY <1>1, <1>2, <1>3

(* Effects come from handlers. *)
LEMMA ChargesChange ==
  ASSUME [Next]_vars
  PROVE  charges' = charges \/ \E w \in Workers : PerformEffect(w)
BY DEF Next, vars, Submit, Resume, Load, SelectRun, CallStep,
   SelectSteps, PlanChanged, Acquire, LockUnavailable, Start, StartConflict,
   HandlerReturns, HandlerRaises, AppendRecord, RecordFailure, AppendRefused, Settle, Finish,
   Release, CallFault, StoreFails, Interrupted, Die, ReleaseFails, LeaseLapses, SessionLost

(* A run becomes completed by a call that has finished its plan. *)
LEMMA CompletedChange ==
  ASSUME TypeInv, [Next]_vars, NEW r \in RunIds, status'[r] = "completed"
  PROVE  status[r] = "completed" \/ \E w \in Workers : pc[w] = "finish" /\ run[w] = r
<1> USE DEF TypeInv, TypeOK, StoreTypeOK
<1>1. CASE \E s \in RunIds : Submit(s)
  BY <1>1 DEF Submit, InsertRun
<1>2. CASE \E w \in Workers : Start(w)
  BY <1>2 DEF Start, SetStatus, CallOK
<1>3. CASE \E w \in Workers : Settle(w)
  BY <1>3 DEF Settle, SetStatus, CallOK
<1>4. CASE \E w \in Workers : Finish(w)
  BY <1>4 DEF Finish, SetStatus, CallOK
<1>5. CASE /\ ~(\E s \in RunIds : Submit(s))
           /\ ~(\E w \in Workers : Start(w) \/ Settle(w) \/ Finish(w))
  BY <1>5 DEF Next, vars, storeVars, Resume, Load, SelectRun, CallStep,
     SelectSteps, PlanChanged, Acquire, LockUnavailable, StartConflict,
     PerformEffect, HandlerReturns, HandlerRaises, AppendRecord, RecordFailure, AppendRefused,
     InsertRecord, Release, CallFault, StoreFails, Interrupted, Die, ReleaseFails,
     LeaseLapses, SessionLost
<1>6. QED
  BY <1>1, <1>2, <1>3, <1>4, <1>5

(* Nothing is forgotten. *)
LEMMA StoreGrows ==
  ASSUME [Next]_vars
  PROVE  /\ records \subseteq records' /\ charges \subseteq charges'
         /\ \A r, i : Recorded(r, i) => Recorded(r, i)'
         /\ \A token : Performed(token) => Performed(token)'
<1>1. records \subseteq records'
  BY RecordsChange DEF InsertRecord
<1>2. charges \subseteq charges'
  BY ChargesChange DEF PerformEffect
<1>3. QED
  BY <1>1, <1>2 DEF Recorded, Performed

(* What a call at a step knows when it writes its row. *)
LEMMA AtStepFacts ==
  ASSUME IInv, NEW w \in Workers, pc[w] \in AtStep
  PROVE  /\ run[w] \in RunIds /\ plan[w] \in Plans /\ index[w] \in Nat
         /\ \A i \in 0 .. (index[w] - 1) : Recorded(run[w], i)
BY CallFacts DEF IInv, Core, PositionOf, AtStep

LEMMA HistoryNext ==
  ASSUME IInv, [Next]_vars
  PROVE  History'
<1>1. CASE records' = records
  BY <1>1 DEF IInv, Core, History, Recorded
<1>2. ASSUME NEW w \in Workers, NEW outcome \in {"ok", "failed"}, NEW output,
             pc[w] \in AtStep, InsertRecord(StepRecord(w, outcome, output))
      PROVE  History'
  <2> DEFINE new == StepRecord(w, outcome, output)
  <2>1. new.run = run[w] /\ new.index = index[w]
    BY DEF StepRecord
  <2>2. \A i \in 0 .. (index[w] - 1) : Recorded(run[w], i)
    BY <1>2, AtStepFacts
  <2>3. CASE Recorded(run[w], index[w])
    <3>1. records' = records
      BY <1>2, <2>1, <2>3 DEF InsertRecord
    <3>2. QED
      BY <3>1 DEF IInv, Core, History, Recorded
  <2>4. CASE ~Recorded(run[w], index[w])
    <3>1. records' = records \cup {new}
      BY <1>2, <2>1, <2>4 DEF InsertRecord
    <3>2. ASSUME NEW row \in records', NEW i \in 0 .. (row.index - 1)
          PROVE  Recorded(row.run, i)'
      BY <2>1, <2>2, <3>1, StoreGrows DEF IInv, Core, History
    <3>3. ASSUME NEW row \in records', NEW other \in records',
                 other.run = row.run, other.index = row.index
          PROVE  other = row
      <4>1. \A old \in records : ~(old.run = run[w] /\ old.index = index[w])
        BY <2>4 DEF Recorded
      <4>2. QED
        BY <2>1, <3>1, <3>3, <4>1 DEF IInv, Core, History
    <3>4. QED
      BY <3>2, <3>3 DEF History
  <2>5. QED
    BY <2>3, <2>4
<1>3. QED
  BY <1>1, <1>2, RecordsChange

LEMMA EffectsFollowHistoryNext ==
  ASSUME IInv, [Next]_vars
  PROVE  EffectsFollowHistory'
<1>1. ASSUME NEW charge \in charges', NEW i \in 0 .. (charge.token[2] - 1)
      PROVE  Recorded(charge.token[1], i)'
  <2>1. CASE charge \in charges
    BY <2>1, StoreGrows DEF IInv, Core, EffectsFollowHistory
  <2>2. CASE charge \notin charges
    <3>1. PICK w \in Workers : PerformEffect(w)
      BY <2>2, ChargesChange
    <3>2. charge.token = <<run[w], index[w]>> /\ pc[w] \in AtStep
      BY <2>2, <3>1 DEF PerformEffect, EffectToken, AtStep
    <3>3. Recorded(run[w], i)
      BY <3>2, AtStepFacts
    <3>4. QED
      BY <3>2, <3>3, StoreGrows
  <2>3. QED
    BY <2>1, <2>2
<1>2. QED
  BY <1>1 DEF EffectsFollowHistory

LEMMA OkMeansActedNext ==
  ASSUME IInv, [Next]_vars
  PROVE  OkMeansActed'
<1>1. ASSUME NEW row \in records', row.outcome = "ok", row.name \in Effects
      PROVE  Performed(<<row.run, row.index>>)'
  <2>1. CASE row \in records
    BY <1>1, <2>1, StoreGrows DEF IInv, Core, OkMeansActed
  <2>2. CASE row \notin records
    <3>1. PICK w \in Workers, outcome \in {"ok", "failed"} :
            /\ outcome = "ok" => pc[w] = "append"
            /\ \E output : InsertRecord(StepRecord(w, outcome, output))
      BY <2>2, RecordsChange
    <3>2. \E output : row = StepRecord(w, outcome, output)
      BY <2>2, <3>1 DEF InsertRecord
    <3>3. /\ pc[w] = "append" /\ row.run = run[w] /\ row.index = index[w]
          /\ plan[w][index[w] + 1] \in Effects
      BY <1>1, <3>1, <3>2 DEF StepRecord, StepName
    <3>4. Performed(<<run[w], index[w]>>)
      BY <3>3 DEF IInv, Core, PositionOf, ActedAt
    <3>5. QED
      BY <3>3, <3>4, StoreGrows
  <2>3. QED
    BY <2>1, <2>2
<1>2. QED
  BY <1>1 DEF OkMeansActed

LEMMA CompletedMeansDoneNext ==
  ASSUME IInv, [Next]_vars
  PROVE  CompletedMeansDone'
<1>1. ASSUME NEW r \in RunIds, status'[r] = "completed"
      PROVE  \E p \in Plans : \A i \in 0 .. (Len(p) - 1) : Recorded(r, i)' /\ ActedAt(r, p, i)'
  <2>1. \A p, i : ActedAt(r, p, i) => ActedAt(r, p, i)'
    BY StoreGrows DEF ActedAt
  <2>2. CASE status[r] = "completed"
    <3>1. PICK p \in Plans : \A i \in 0 .. (Len(p) - 1) : Recorded(r, i) /\ ActedAt(r, p, i)
      BY <2>2 DEF IInv, Core, CompletedMeansDone
    <3>2. QED
      BY <2>1, <3>1, StoreGrows
  <2>3. CASE \E w \in Workers : pc[w] = "finish" /\ run[w] = r
    <3>1. PICK w \in Workers : pc[w] = "finish" /\ run[w] = r
      BY <2>3
    <3>2. plan[w] \in Plans /\ index[w] \in Nat /\ index[w] >= Len(plan[w])
      BY <3>1, CallFacts DEF IInv, Core, PositionOf
    <3>3. \A i \in 0 .. (index[w] - 1) : Recorded(r, i) /\ ActedAt(r, plan[w], i)
      BY <3>1 DEF IInv, Core, PositionOf
    <3>4. \A i \in 0 .. (Len(plan[w]) - 1) : i \in 0 .. (index[w] - 1)
      BY <3>2, PlanStep
    <3>5. QED
      BY <2>1, <3>2, <3>3, <3>4, StoreGrows
  <2>4. QED
    BY <1>1, <2>2, <2>3, CompletedChange DEF IInv
<1>2. QED
  BY <1>1 DEF CompletedMeansDone

(* A call another worker makes, or that moves only its lock, stays put.     *)
LEMMA PositionStays ==
  ASSUME IInv, [Next]_vars, NEW w \in Workers,
         UNCHANGED <<pc[w], run[w], plan[w], index[w]>>
  PROVE  PositionOf(w)'
<1>1. \A r, p, i : ActedAt(r, p, i) => ActedAt(r, p, i)'
  BY StoreGrows DEF ActedAt
<1>2. PositionOf(w)
  BY DEF IInv, Core
<1>3. QED
  BY <1>1, <1>2, StoreGrows DEF PositionOf

(* A call that goes on with the same step keeps what it knows. *)
LEMMA PositionGoesOn ==
  ASSUME IInv, [Next]_vars, NEW w \in Workers, pc[w] \notin {"idle", "hydrate"},
         UNCHANGED <<run[w], plan[w], index[w]>>,
         pc'[w] = "performed" => Performed(<<run[w], index[w]>>)',
         pc'[w] = "append" => ActedAt(run[w], plan[w], index[w]),
         pc'[w] = "finish" => index[w] >= Len(plan[w])
  PROVE  PositionOf(w)'
<1>1. \A r, p, i : ActedAt(r, p, i) => ActedAt(r, p, i)'
  BY StoreGrows DEF ActedAt
<1>2. PositionOf(w)
  BY DEF IInv, Core
<1>3. QED
  BY <1>1, <1>2, StoreGrows DEF PositionOf

(* Loading puts a call behind its successful rows, all of which have acted. *)
LEMMA PositionAdopted ==
  ASSUME IInv, [Next]_vars, NEW w \in Workers, NEW r \in RunIds, NEW p \in Plans,
         Adopt(w, r, p)
  PROVE  PositionOf(w)'
<1>1. /\ pc'[w] = "acquire" /\ run'[w] = r /\ plan'[w] = p
      /\ IsNextIndex(r, index'[w]) /\ index'[w] \in Nat
  BY DEF Adopt, IInv, TypeInv, TypeOK
<1>2. ASSUME NEW i \in 0 .. (index'[w] - 1)
      PROVE  Recorded(r, i) /\ ActedAt(r, p, i)
  <2>1. PICK row \in records : row.run = r /\ row.index = i /\ row.outcome # "failed"
    BY <1>1 DEF IsNextIndex, Succeeded
  <2>2. row.outcome = "ok"
    BY <2>1 DEF IInv, TypeInv, TypeOK, StoreTypeOK, Row
  <2>3. p[i + 1] = row.name
    BY <2>1 DEF Adopt, PlanMatches, Rows
  <2>4. QED
    BY <2>1, <2>2, <2>3 DEF Recorded, ActedAt, IInv, Core, OkMeansActed
<1>3. \A i : ActedAt(r, p, i) => ActedAt(r, p, i)'
  BY StoreGrows DEF ActedAt
<1>4. QED
  BY <1>1, <1>2, <1>3, StoreGrows DEF PositionOf

(* A checkpoint moves its call past a step that has a row and has acted.    *)
LEMMA PositionMovesOn ==
  ASSUME IInv, [Next]_vars, NEW w \in Workers, AppendRecord(w)
  PROVE  PositionOf(w)'
<1>1. PICK r \in RunIds, p \in Plans, n \in Nat :
        /\ run[w] = r /\ plan[w] = p /\ index[w] = n
        /\ pc[w] = "append" /\ PositionOf(w)
  BY CallFacts DEF AppendRecord, IInv, Core
<1>2. run'[w] = r /\ plan'[w] = p /\ index'[w] = n + 1 /\ pc'[w] = LoopAt(w, n + 1)
  BY <1>1 DEF AppendRecord, MoveOn, IInv, TypeInv, TypeOK
<1>3. Recorded(r, n)'
  <2>1. InsertRecord(StepRecord(w, "ok", result[w]))
    BY DEF AppendRecord
  <2>2. CASE Recorded(r, n)
    BY <2>2, StoreGrows
  <2>3. CASE ~Recorded(r, n)
    <3> DEFINE new == StepRecord(w, "ok", result[w])
    <3>1. new.run = r /\ new.index = n
      BY <1>1 DEF StepRecord
    <3>2. new \in records'
      BY <2>1, <2>3, <3>1 DEF InsertRecord
    <3>3. QED
      BY <3>1, <3>2 DEF Recorded
  <2>4. QED
    BY <2>2, <2>3
<1>4. \A i : ActedAt(r, p, i) => ActedAt(r, p, i)'
  BY StoreGrows DEF ActedAt
<1>5. ASSUME NEW i \in 0 .. n
      PROVE  Recorded(r, i)' /\ ActedAt(r, p, i)'
  <2>1. i = n \/ i \in 0 .. (n - 1)
    OBVIOUS
  <2>2. CASE i = n
    BY <1>1, <1>3, <1>4, <2>2 DEF PositionOf
  <2>3. CASE i \in 0 .. (n - 1)
    BY <1>1, <1>4, <2>3, StoreGrows DEF PositionOf
  <2>4. QED
    BY <2>1, <2>2, <2>3
<1>6. pc'[w] \in {"handler", "finish"} /\ (pc'[w] = "finish" => n + 1 >= Len(p))
  <2>1. Len(p) \in Nat
    BY PlanStep
  <2>2. QED
    BY <1>1, <1>2, <2>1 DEF LoopAt
<1>7. \A i \in 0 .. (index'[w] - 1) : i \in 0 .. n
  BY <1>2
<1>8. QED
  BY <1>2, <1>5, <1>6, <1>7 DEF PositionOf

(* Only its own actions move a call. *)
LEMMA OthersStayPut ==
  ASSUME TypeInv, [Next]_vars, NEW w \in Workers,
         ~(\E r \in RunIds, p \in Plans : Load(w, r, p) \/ SelectRun(w, r, p)),
         ~CallStep(w), ~CallFault(w)
  PROVE  UNCHANGED <<pc[w], run[w], plan[w], index[w]>>
<1> USE DEF TypeInv, TypeOK
<1>1. ASSUME NEW v \in Workers, v # w, Leave(v) \/ \E label : Goto(v, label)
      PROVE  UNCHANGED <<pc[w], run[w], plan[w], index[w]>>
  BY <1>1 DEF Leave, Goto, localVars
<1>2. ASSUME NEW v \in Workers, v # w,
             NEW r \in RunIds, NEW p \in Plans, Load(v, r, p) \/ SelectRun(v, r, p)
      PROVE  UNCHANGED <<pc[w], run[w], plan[w], index[w]>>
  BY <1>2 DEF Load, SelectRun, Adopt
<1>3. ASSUME NEW v \in Workers, v # w,
             SelectSteps(v) \/ HandlerReturns(v) \/ HandlerRaises(v) \/ AppendRecord(v)
      PROVE  UNCHANGED <<pc[w], run[w], plan[w], index[w]>>
  BY <1>3 DEF SelectSteps, Adopt, HandlerReturns, HandlerRaises, AppendRecord, MoveOn
<1>4. ASSUME NEW v \in Workers, v # w,
             \/ PlanChanged(v) \/ Acquire(v) \/ LockUnavailable(v) \/ Start(v)
             \/ StartConflict(v) \/ PerformEffect(v) \/ AppendRefused(v) \/ RecordFailure(v)
             \/ Settle(v) \/ Finish(v) \/ Release(v) \/ CallFault(v)
      PROVE  UNCHANGED <<pc[w], run[w], plan[w], index[w]>>
  <2>1. Leave(v) \/ \E label : Goto(v, label)
    BY <1>4 DEF PlanChanged, Acquire, LockUnavailable, Start, StartConflict, PerformEffect,
       AppendRefused, RecordFailure, Settle, Finish, Release, CallFault, StoreFails,
       Interrupted, Die, ReleaseFails
  <2>2. QED
    BY <1>1, <1>4, <2>1
<1>5. CASE UNCHANGED vars
  BY <1>5 DEF vars
<1>6. CASE \E r \in RunIds : Submit(r)
  BY <1>6 DEF Submit, localVars
<1>7. CASE \E k \in Keys : LeaseLapses(k) \/ SessionLost(k)
  BY <1>7 DEF LeaseLapses, SessionLost, localVars
<1>8. CASE \E v \in Workers :
             \/ \E r \in RunIds, p \in Plans : Load(v, r, p) \/ SelectRun(v, r, p)
             \/ CallStep(v) \/ CallFault(v)
  <2>1. PICK v \in Workers :
          \/ \E r \in RunIds, p \in Plans : Load(v, r, p) \/ SelectRun(v, r, p)
          \/ CallStep(v) \/ CallFault(v)
    BY <1>8
  <2>2. v # w
    BY <2>1
  <2>3. QED
    BY <1>2, <1>3, <1>4, <2>1, <2>2 DEF CallStep
<1>9. QED
  BY <1>5, <1>6, <1>7, <1>8 DEF Next, Resume

LEMMA PositionNext ==
  ASSUME IInv, [Next]_vars, NEW w \in Workers
  PROVE  PositionOf(w)'
<1> USE DEF IInv, TypeInv, TypeOK
(* the actions of other calls, and of the world *)
<1>1. CASE UNCHANGED <<pc[w], run[w], plan[w], index[w]>>
  BY <1>1, PositionStays
<1>2. CASE pc'[w] \in {"idle", "hydrate"}
  BY <1>2 DEF PositionOf
(* the actions of this one *)
<1>3. ASSUME NEW r \in RunIds, NEW p \in Plans, Load(w, r, p)
      PROVE  PositionOf(w)'
  BY <1>3, PositionAdopted DEF Load
<1>4. CASE SelectSteps(w)
  BY <1>4, PositionAdopted, CallFacts DEF SelectSteps
<1>5. CASE AppendRecord(w)
  BY <1>5, PositionMovesOn
<1>6. CASE Start(w)
  <2>1. /\ pc[w] = "start" /\ UNCHANGED <<run[w], plan[w], index[w]>>
        /\ pc'[w] = LoopAt(w, index[w])
    BY <1>6 DEF Start, Goto, localVars
  <2>2. index[w] \in Nat /\ Len(plan[w]) \in Nat
    BY <2>1, CallFacts, PlanStep
  <2>3. pc'[w] \in {"handler", "finish"} /\ (pc'[w] = "finish" => index[w] >= Len(plan[w]))
    BY <2>1, <2>2 DEF LoopAt
  <2>4. QED
    BY <2>1, <2>3, PositionGoesOn
<1>7. CASE PerformEffect(w)
  <2>1. /\ pc[w] = "handler" /\ UNCHANGED <<run[w], plan[w], index[w]>> /\ pc'[w] = "performed"
    BY <1>7 DEF PerformEffect, Goto, localVars
  <2>2. Performed(<<run[w], index[w]>>)'
    <3>1. CASE Performed(<<run[w], index[w]>>)
      BY <2>1, <3>1, StoreGrows
    <3>2. CASE ~Performed(<<run[w], index[w]>>)
      <4>1. [token |-> <<run[w], index[w]>>, name |-> StepName(w)] \in charges'
        BY <1>7, <3>2 DEF PerformEffect, EffectToken
      <4>2. QED
        BY <2>1, <4>1 DEF Performed
    <3>3. QED
      BY <3>1, <3>2
  <2>3. QED
    BY <2>1, <2>2, PositionGoesOn
<1>8. CASE HandlerReturns(w)
  <2>1. /\ HandlerDone(w) /\ UNCHANGED <<run[w], plan[w], index[w]>> /\ pc'[w] = "append"
    BY <1>8 DEF HandlerReturns
  <2>2. ActedAt(run[w], plan[w], index[w])
    BY <2>1 DEF HandlerDone, StepName, ActedAt, Core, PositionOf
  <2>3. QED
    BY <2>1, <2>2, PositionGoesOn DEF HandlerDone
<1>9. CASE \/ Acquire(w) \/ StartConflict(w) \/ HandlerRaises(w) \/ AppendRefused(w)
           \/ RecordFailure(w) \/ Settle(w) \/ Finish(w) \/ Interrupted(w) \/ StoreFails(w)
  <2>1. CASE pc'[w] \in {"start", "release", "record_failure", "settle"}
             /\ pc[w] \notin {"idle", "hydrate"} /\ UNCHANGED <<run[w], plan[w], index[w]>>
    BY <2>1, PositionGoesOn
  <2>2. CASE pc'[w] = "idle"
    BY <1>2, <2>2
  <2>3. QED
    BY <1>9, <2>1, <2>2
       DEF Acquire, StartConflict, HandlerRaises, AppendRefused, RecordFailure, Settle, Finish,
           Interrupted, StoreFails, Goto, Leave, localVars
<1>10. CASE \/ \E r \in RunIds, p \in Plans : SelectRun(w, r, p)
            \/ PlanChanged(w) \/ LockUnavailable(w) \/ Release(w) \/ ReleaseFails(w) \/ Die(w)
  BY <1>2, <1>10 DEF SelectRun, PlanChanged, LockUnavailable, Release, ReleaseFails, Die, Leave
<1>11. CASE /\ ~(\E r \in RunIds, p \in Plans : Load(w, r, p) \/ SelectRun(w, r, p))
            /\ ~CallStep(w) /\ ~CallFault(w)
  <2>1. UNCHANGED <<pc[w], run[w], plan[w], index[w]>>
    BY <1>11, OthersStayPut
  <2>2. QED
    BY <1>1, <2>1
<1>12. QED
  BY <1>3, <1>4, <1>5, <1>6, <1>7, <1>8, <1>9, <1>10, <1>11 DEF CallStep, CallFault

(* Init establishes the invariant, every step keeps it. *)
LEMMA CoreInit == Init => Core
BY DEF Init, StoreInit, Core, History, EffectsFollowHistory, OkMeansActed, CompletedMeansDone,
       PositionOf

THEOREM Invariance == Spec => []IInv
<1>1. Init => IInv
  BY TypeInit, CoreInit DEF IInv
<1>2. IInv /\ [Next]_vars => IInv'
  BY TypeNext, HistoryNext, EffectsFollowHistoryNext, OkMeansActedNext,
     CompletedMeansDoneNext, PositionNext DEF IInv, Core
<1>3. QED
  BY <1>1, <1>2, PTL DEF Spec

(* The rows of a run are a prefix of its steps, one row a step, however     *)
(* many workers execute it at once.                                         *)
THEOREM HistoryHolds == Spec => []History
BY Invariance, PTL DEF IInv, Core

(* No effect runs ahead of the checkpoints of earlier steps. *)
THEOREM EffectsFollowHistoryHolds == Spec => []EffectsFollowHistory
BY Invariance, PTL DEF IInv, Core

(* A successful checkpoint of an effect step means the effect happened. *)
THEOREM OkMeansActedHolds == Spec => []OkMeansActed
BY Invariance, PTL DEF IInv, Core

(* A completed run has done all of a plan it was run with. *)
THEOREM CompletedMeansDoneHolds == Spec => []CompletedMeansDone
BY Invariance, PTL DEF IInv, Core

=============================================================================
