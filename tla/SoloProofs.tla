----------------------------- MODULE SoloProofs -----------------------------
(***************************************************************************)
(* What holds when one worker at a time runs, whatever it dies of and      *)
(* however often it resumes, for any runs, keys, plans and answers.        *)
(***************************************************************************)
EXTENDS EngineLockProofs, EngineRefinement, FiniteSetTheorems

OneWorker == \A v, w \in Workers : v = w

(* {"error": reason} is an object of strings: JSON leaves it as it is. *)
ErrorsKeepTheirShape == Encoded(ErrorOutput) = ErrorOutput

FailedOnRecord(r) == \E row \in Rows(r) : row.outcome = "failed" /\ row.output = ErrorOutput

FailuresSaySo == \A row \in records : row.outcome = "failed" => row.output = ErrorOutput

(* Where the one call stands: its run is as the call loaded it and has not  *)
(* ended, its plan fits all rows, and if the step it is about to do has a   *)
(* row already, an earlier call has failed.                                 *)
SoloOf(w) ==
  /\ pc[w] \in {"hydrate", "acquire", "start"} => status[run[w]] \in Active
  /\ pc[w] \in AtStep \cup {"settle", "finish"} => status[run[w]] = "running"
  /\ pc[w] \in HasLock \cup {"acquire"} => PlanMatches(run[w], plan[w])
  /\ pc[w] \in AtStep \cup {"acquire", "start"} /\ Recorded(run[w], index[w]) =>
       FailedOnRecord(run[w])
  /\ pc[w] = "settle" => FailedOnRecord(run[w])

SoloInv ==
  /\ IInv
  /\ FailuresSaySo /\ FailureIsOnRecord /\ RowsFitOnePlan
  /\ \A w \in Workers : SoloOf(w)

LEMMA SoloInit == Init /\ Plans # {} => SoloInv
BY TypeInit, CoreInit
   DEF Init, StoreInit, SoloInv, IInv, FailuresSaySo, FailureIsOnRecord, RowsFitOnePlan, Rows,
       SoloOf, AtStep, HasLock

LEMMA IInvNext == IInv /\ [Next]_vars => IInv'
BY TypeNext, HistoryNext, EffectsFollowHistoryNext, OkMeansActedNext,
   CompletedMeansDoneNext, PositionNext DEF IInv, Core

(* What is on record about a failure stays on record.                       *)
LEMMA FailedStays ==
  ASSUME [Next]_vars, NEW r, FailedOnRecord(r)
  PROVE  FailedOnRecord(r)'
BY StoreGrows DEF FailedOnRecord, Rows

(* A run is given up by a call that settles it.                             *)
LEMMA GivenUpChange ==
  ASSUME TypeInv, [Next]_vars, NEW r \in RunIds,
         status'[r] \in {"failed", "escalated"}, status[r] \notin {"failed", "escalated"}
  PROVE  \E w \in Workers : Settle(w) /\ run[w] = r
<1> USE DEF TypeInv, TypeOK, StoreTypeOK
<1>1. CASE \E s \in RunIds : Submit(s)
  BY <1>1 DEF Submit, InsertRun
<1>2. CASE \E w \in Workers : Start(w) \/ Finish(w)
  BY <1>2 DEF Start, Finish, SetStatus, CallOK
<1>3. CASE \E w \in Workers : Settle(w)
  BY <1>3 DEF Settle, SetStatus, CallOK
<1>4. CASE /\ ~(\E s \in RunIds : Submit(s))
           /\ ~(\E w \in Workers : Start(w) \/ Settle(w) \/ Finish(w))
  BY <1>4 DEF Next, vars, storeVars, Resume, Load, SelectRun, CallStep,
     SelectSteps, PlanChanged, Acquire, LockUnavailable, StartConflict,
     PerformEffect, HandlerReturns, HandlerRaises, AppendRecord, RecordFailure, AppendRefused,
     InsertRecord, Release, CallFault, StoreFails, Interrupted, Die, ReleaseFails,
     LeaseLapses, SessionLost
<1>5. QED
  BY <1>1, <1>2, <1>3, <1>4

(* A call that goes on with the same step, or the world around it.          *)
LEMMA SoloGoesOn ==
  ASSUME SoloInv, [Next]_vars, NEW w \in Workers,
         UNCHANGED <<records, run[w], plan[w], index[w]>>,
         pc'[w] \in {"hydrate", "acquire", "start"} => status'[run[w]] \in Active,
         pc'[w] \in AtStep \cup {"settle", "finish"} => status'[run[w]] = "running",
         pc'[w] \in HasLock \cup {"acquire"} => pc[w] \in HasLock \cup {"acquire"},
         pc'[w] \in AtStep \cup {"acquire", "start"} => pc[w] \in AtStep \cup {"acquire", "start"},
         pc'[w] = "settle" => pc[w] = "settle"
  PROVE  SoloOf(w)'
<1>1. SoloOf(w)
  BY DEF SoloInv
<1>2. QED
  BY <1>1 DEF SoloOf, PlanMatches, Rows, Recorded, FailedOnRecord

(* The row of a step: either it was there, and so was a failure, or it is   *)
(* the new one.                                                             *)
LEMMA SoloRow ==
  ASSUME SoloInv, NEW w \in Workers, pc[w] \in AtStep,
         NEW outcome \in {"ok", "failed"}, NEW output,
         InsertRecord(StepRecord(w, outcome, output))
  PROVE  \/ records' = records /\ FailedOnRecord(run[w])
         \/ /\ ~Recorded(run[w], index[w])
            /\ records' = records \cup {StepRecord(w, outcome, output)}
<1>1. CASE Recorded(run[w], index[w])
  BY <1>1 DEF SoloInv, SoloOf, InsertRecord, StepRecord
<1>2. CASE ~Recorded(run[w], index[w])
  BY <1>2 DEF InsertRecord, StepRecord
<1>3. QED
  BY <1>1, <1>2

(* Loading finds a run in progress, and no row at its next step but a       *)
(* failure.                                                                 *)
LEMMA SoloAdopted ==
  ASSUME SoloInv, NEW w \in Workers, NEW r \in RunIds, NEW p \in Plans,
         Adopt(w, r, p), UNCHANGED storeVars, status[r] \in Active
  PROVE  SoloOf(w)'
<1>1. /\ pc'[w] = "acquire" /\ run'[w] = r /\ plan'[w] = p /\ PlanMatches(r, p)
      /\ IsNextIndex(r, index'[w])
  BY DEF Adopt, SoloInv, IInv, TypeInv, TypeOK
<1>2. Recorded(r, index'[w]) => FailedOnRecord(r)
  BY <1>1 DEF IsNextIndex, Recorded, Succeeded, SoloInv, FailuresSaySo, FailedOnRecord, Rows
<1>3. QED
  BY <1>1, <1>2 DEF SoloOf, storeVars, PlanMatches, Rows, Recorded, FailedOnRecord, AtStep, HasLock

(* A checkpoint fits the plan, and the next step has a row only after a     *)
(* failure.                                                                 *)
LEMMA SoloAppended ==
  ASSUME SoloInv, [Next]_vars, NEW w \in Workers, AppendRecord(w)
  PROVE  SoloOf(w)'
<1>1. PICK r \in RunIds, p \in Plans, n \in Nat : run[w] = r /\ plan[w] = p /\ index[w] = n
  BY CallFacts DEF AppendRecord, SoloInv, IInv
<1>2. /\ run'[w] = r /\ plan'[w] = p /\ index'[w] = n + 1 /\ pc'[w] = LoopAt(w, n + 1)
      /\ pc[w] = "append" /\ n < Len(p) /\ UNCHANGED status
  BY <1>1 DEF AppendRecord, MoveOn, InsertRecord, AtStep, SoloInv, IInv, TypeInv, TypeOK, CallOK
<1>3. DEFINE new == StepRecord(w, "ok", result[w])
<1>4. new.run = r /\ new.index = n /\ new.name = p[n + 1]
  BY <1>1 DEF StepRecord, StepName
<1>5. \/ records' = records /\ FailedOnRecord(r)
      \/ ~Recorded(r, n) /\ records' = records \cup {new}
  BY <1>1, SoloRow DEF AppendRecord, AtStep
<1>6. status[r] = "running" /\ PlanMatches(r, p)
  BY <1>1, <1>2 DEF SoloInv, SoloOf, AtStep, HasLock
<1>7. PlanMatches(r, p)'
  BY <1>2, <1>4, <1>5, <1>6 DEF PlanMatches, Rows
<1>8. Recorded(r, n + 1)' => FailedOnRecord(r)'
  <2>1. SUFFICES ASSUME Recorded(r, n + 1)', ~FailedOnRecord(r) PROVE FALSE
    BY FailedStays
  <2>2. ~Recorded(r, n) /\ records' = records \cup {new}
    BY <1>5, <2>1
  <2>3. PICK row \in records : row.run = r /\ row.index = n + 1
    BY <1>4, <2>1, <2>2 DEF Recorded
  <2>4. Recorded(r, n)
    BY <2>3 DEF SoloInv, IInv, Core, History
  <2>5. QED
    BY <2>2, <2>4
<1>9. pc'[w] \in {"handler", "finish"}
  BY <1>2, LoopAtLabel
<1>10. QED
  BY <1>2, <1>6, <1>7, <1>8, <1>9 DEF SoloOf, AtStep, HasLock

LEMMA SoloFailed ==
  ASSUME ErrorsKeepTheirShape, SoloInv, [Next]_vars, NEW w \in Workers, RecordFailure(w)
  PROVE  SoloOf(w)'
<1>1. PICK r \in RunIds, p \in Plans, n \in Nat : run[w] = r /\ plan[w] = p /\ index[w] = n
  BY CallFacts DEF RecordFailure, SoloInv, IInv
<1>2. /\ run'[w] = r /\ plan'[w] = p /\ index'[w] = n /\ pc'[w] = "settle"
      /\ pc[w] = "record_failure" /\ n < Len(p) /\ UNCHANGED status
  BY <1>1 DEF RecordFailure, Goto, localVars, InsertRecord, AtStep, SoloInv, IInv, TypeInv, TypeOK, CallOK
<1>3. DEFINE new == StepRecord(w, "failed", ErrorOutput)
<1>4. /\ new.run = r /\ new.index = n /\ new.name = p[n + 1]
      /\ new.outcome = "failed" /\ new.output = ErrorOutput
  BY <1>1 DEF StepRecord, StepName, ErrorsKeepTheirShape
<1>5. \/ records' = records /\ FailedOnRecord(r)
      \/ ~Recorded(r, n) /\ records' = records \cup {new}
  BY <1>1, <1>2, SoloRow DEF RecordFailure, AtStep
<1>6. status[r] = "running" /\ PlanMatches(r, p)
  BY <1>1, <1>2 DEF SoloInv, SoloOf, AtStep, HasLock
<1>7. PlanMatches(r, p)'
  BY <1>2, <1>4, <1>5, <1>6 DEF PlanMatches, Rows
<1>8. FailedOnRecord(r)'
  BY <1>4, <1>5 DEF FailedOnRecord, Rows
<1>9. QED
  BY <1>2, <1>6, <1>7, <1>8 DEF SoloOf, AtStep, HasLock

LEMMA SoloNext ==
  ASSUME OneWorker, ErrorsKeepTheirShape, SoloInv, [Next]_vars, NEW w \in Workers
  PROVE  SoloOf(w)'
<1>1. SoloOf(w) /\ TypeInv /\ status \in [RunIds -> Statuses \cup {"absent"}]
  BY DEF SoloInv, IInv, TypeInv, TypeOK, StoreTypeOK
<1>2. CASE pc'[w] = "idle"
  BY <1>2 DEF SoloOf, AtStep, HasLock
(* the world *)
<1>3. CASE UNCHANGED <<status, records, pc, run, plan, index>>
  BY <1>1, <1>3, SoloGoesOn DEF SoloOf
<1>4. ASSUME NEW r \in RunIds, Submit(r)
      PROVE  SoloOf(w)'
  <2>1. /\ status' = [status EXCEPT ![r] = "pending"] /\ status[r] = "absent"
        /\ UNCHANGED <<records, pc, run, plan, index>>
    BY <1>4 DEF Submit, InsertRun, localVars
  <2>2. CASE pc[w] = "idle"
    BY <1>2, <2>1, <2>2
  <2>3. CASE pc[w] # "idle" /\ run[w] # r
    <3>1. status'[run[w]] = status[run[w]]
      BY <1>1, <2>1, <2>3, CallFacts
    <3>2. QED
      BY <1>1, <2>1, <3>1, SoloGoesOn DEF SoloOf
  <2>4. CASE pc[w] = "release" /\ run[w] = r
    BY <2>1, <2>4, SoloGoesOn DEF AtStep
  <2>5. CASE pc[w] \notin {"idle", "release"} /\ run[w] = r
    BY <1>1, <2>1, <2>5 DEF SoloOf, AtStep, HasLock, Labels, TypeInv, TypeOK, Active
  <2>6. QED
    BY <2>2, <2>3, <2>4, <2>5
<1>5. CASE \E k \in Keys : LeaseLapses(k) \/ SessionLost(k)
  BY <1>3, <1>5 DEF LeaseLapses, SessionLost, storeVars, localVars
(* the call *)
<1>6. ASSUME NEW r \in RunIds, NEW p \in Plans, Load(w, r, p)
      PROVE  SoloOf(w)'
  BY <1>6, SoloAdopted DEF Load, Eligible
<1>7. ASSUME NEW r \in RunIds, NEW p \in Plans, SelectRun(w, r, p)
      PROVE  SoloOf(w)'
  BY <1>1, <1>7 DEF SelectRun, Eligible, storeVars, SoloOf, TypeInv, TypeOK, AtStep, HasLock
<1>8. CASE SelectSteps(w)
  BY <1>1, <1>8, CallFacts, SoloAdopted DEF SelectSteps, SoloOf
<1>9. CASE Start(w)
  <2>1. /\ pc[w] = "start" /\ UNCHANGED <<records, run, plan, index>>
        /\ status' = [status EXCEPT ![run[w]] = "running"]
        /\ pc' = [pc EXCEPT ![w] = LoopAt(w, index[w])]
    BY <1>9 DEF Start, SetStatus, Goto, localVars
  <2>2. status'[run[w]] = "running" /\ pc'[w] \in {"handler", "finish"}
    BY <1>1, <2>1, CallFacts, LoopAtLabel DEF TypeInv, TypeOK
  <2>3. QED
    BY <2>1, <2>2, SoloGoesOn DEF AtStep, HasLock
<1>10. CASE \/ Acquire(w) \/ StartConflict(w) \/ PerformEffect(w) \/ HandlerReturns(w)
            \/ HandlerRaises(w) \/ AppendRefused(w)
  <2>1. UNCHANGED <<status, records, run, plan, index>>
    BY <1>10 DEF Acquire, StartConflict, PerformEffect, HandlerReturns, HandlerRaises,
                 AppendRefused, Goto, localVars, storeVars
  <2>2. \/ pc[w] = "acquire" /\ pc'[w] = "start"
        \/ pc[w] \in AtStep /\ pc'[w] \in {"performed", "append", "record_failure", "release"}
        \/ pc[w] = "start" /\ pc'[w] = "release"
    BY <1>1, <1>10 DEF Acquire, StartConflict, PerformEffect, HandlerReturns, HandlerRaises, HandlerDone,
                       AppendRefused, Goto, TypeInv, TypeOK, AtStep
  <2>3. QED
    BY <1>1, <2>1, <2>2, SoloGoesOn DEF SoloOf, AtStep, HasLock
<1>11. CASE AppendRecord(w)
  BY <1>11, SoloAppended
<1>12. CASE RecordFailure(w)
  BY <1>12, SoloFailed
<1>13. CASE Settle(w) \/ Finish(w)
  <2>1. /\ UNCHANGED <<records, run, plan, index>> /\ pc'[w] = "release" /\ pc[w] \in HasLock
    BY <1>1, <1>13 DEF Settle, Finish, SetStatus, Goto, localVars, TypeInv, TypeOK, HasLock
  <2>2. QED
    BY <2>1, SoloGoesOn DEF AtStep
<1>14. CASE StoreFails(w) \/ Interrupted(w)
  <2>1. \/ pc'[w] = "idle"
        \/ /\ UNCHANGED <<records, run, plan, index>> /\ pc'[w] = "release" /\ pc[w] \in HasLock
    BY <1>1, <1>14 DEF StoreFails, Interrupted, Goto, Leave, storeVars, localVars, TypeInv, TypeOK, HasLock
  <2>2. QED
    BY <1>2, <2>1, SoloGoesOn DEF AtStep
<1>15. CASE PlanChanged(w) \/ LockUnavailable(w) \/ Release(w) \/ ReleaseFails(w) \/ Die(w)
  BY <1>1, <1>2, <1>15 DEF PlanChanged, LockUnavailable, Release, ReleaseFails, Die, Leave, TypeInv, TypeOK
<1>16. CASE UNCHANGED vars
  BY <1>3, <1>16 DEF vars
<1>17. QED
  BY <1>4, <1>5, <1>6, <1>7, <1>8, <1>9, <1>10, <1>11, <1>12, <1>13, <1>14, <1>15, <1>16
     DEF OneWorker, Next, Resume, CallStep, CallFault

(* What the failure rows and the plan say of all runs.                      *)
LEMMA SoloRecordsNext ==
  ASSUME ErrorsKeepTheirShape, SoloInv, [Next]_vars
  PROVE  FailuresSaySo' /\ RowsFitOnePlan'
<1>1. CASE records' = records
  BY <1>1 DEF SoloInv, FailuresSaySo, RowsFitOnePlan, Rows
<1>2. ASSUME NEW w \in Workers, NEW outcome \in {"ok", "failed"}, NEW output,
             pc[w] \in AtStep, outcome = "failed" => output = ErrorOutput,
             records' = records \cup {StepRecord(w, outcome, output)}
      PROVE  FailuresSaySo' /\ RowsFitOnePlan'
  <2> DEFINE new == StepRecord(w, outcome, output)
  <2>1. /\ new.run = run[w] /\ new.index = index[w] /\ new.name = plan[w][index[w] + 1]
        /\ new.outcome = outcome /\ new.output = Encoded(output)
    BY DEF StepRecord, StepName
  <2>2. FailuresSaySo'
    BY <1>2, <2>1 DEF SoloInv, FailuresSaySo, ErrorsKeepTheirShape
  <2>3. plan[w] \in Plans /\ index[w] < Len(plan[w]) /\ PlanMatches(run[w], plan[w])
    BY <1>2 DEF SoloInv, SoloOf, IInv, TypeInv, CallOK, AtStep, HasLock
  <2>4. ASSUME NEW r \in RunIds
        PROVE  \E p \in Plans : \A row \in Rows(r)' : row.index < Len(p) /\ p[row.index + 1] = row.name
    <3>1. CASE r = run[w]
      BY <1>2, <2>1, <2>3, <3>1 DEF PlanMatches, Rows
    <3>2. CASE r # run[w]
      <4>1. Rows(r)' = Rows(r)
        BY <1>2, <2>1, <3>2 DEF Rows
      <4>2. QED
        BY <4>1 DEF SoloInv, RowsFitOnePlan
    <3>3. QED
      BY <3>1, <3>2
  <2>5. QED
    BY <2>2, <2>4 DEF RowsFitOnePlan
<1>3. QED
  BY <1>1, <1>2, RecordsChange DEF InsertRecord

LEMMA FailureIsOnRecordNext ==
  ASSUME SoloInv, [Next]_vars
  PROVE  FailureIsOnRecord'
<1>1. ASSUME NEW r \in RunIds, status'[r] \in {"failed", "escalated"}
      PROVE  FailedOnRecord(r)
  <2>1. CASE status[r] \in {"failed", "escalated"}
    BY <2>1 DEF SoloInv, FailureIsOnRecord, FailedOnRecord
  <2>2. CASE status[r] \notin {"failed", "escalated"}
    <3>1. PICK w \in Workers : Settle(w) /\ run[w] = r
      BY <1>1, <2>2, GivenUpChange DEF SoloInv, IInv
    <3>2. QED
      BY <3>1 DEF Settle, SoloInv, SoloOf
  <2>3. QED
    BY <2>1, <2>2
<1>2. QED
  BY <1>1, FailedStays DEF FailureIsOnRecord, FailedOnRecord

(* One worker at a time keeps all of it, from the empty store on.           *)
THEOREM SoloInvariance ==
  ASSUME OneWorker, ErrorsKeepTheirShape, Plans # {}
  PROVE  Spec => []SoloInv
<1>1. Init => SoloInv
  BY SoloInit
<1>2. SoloInv /\ [Next]_vars => SoloInv'
  <2>1. SUFFICES ASSUME SoloInv, [Next]_vars PROVE SoloInv'
    OBVIOUS
  <2>2. IInv'
    BY <2>1, IInvNext DEF SoloInv
  <2>3. \A w \in Workers : SoloOf(w)'
    BY <2>1, SoloNext
  <2>4. QED
    BY <2>1, <2>2, <2>3, SoloRecordsNext, FailureIsOnRecordNext DEF SoloInv
<1>3. QED
  BY <1>1, <1>2, PTL DEF Spec

(* A run that is given up has the reason on record, whatever its worker     *)
(* died of on the way (engine.py:288-299).                                  *)
THEOREM FailureIsOnRecordHolds ==
  ASSUME OneWorker, ErrorsKeepTheirShape, Plans # {}
  PROVE  Spec => []FailureIsOnRecord
BY SoloInvariance, PTL DEF SoloInv

(* However often the plan changes between the calls, the rows of a run are  *)
(* those of one plan (engine.py:168-197).                                   *)
THEOREM RowsFitOnePlanHolds ==
  ASSUME OneWorker, ErrorsKeepTheirShape, Plans # {}
  PROVE  Spec => []RowsFitOnePlan
BY SoloInvariance, PTL DEF SoloInv

-----------------------------------------------------------------------------
(* Over is over. *)

LEMMA OverStays ==
  ASSUME SoloInv, [Next]_vars, NEW r \in RunIds, Over(r)
  PROVE  status'[r] = status[r]
<1>1. TypeInv /\ status \in [RunIds -> Statuses \cup {"absent"}] /\ status[r] \in Terminal
  BY DEF SoloInv, IInv, TypeInv, TypeOK, StoreTypeOK, Over
<1>2. ASSUME NEW s \in RunIds, Submit(s)
      PROVE  status'[r] = status[r]
  BY <1>1, <1>2 DEF Submit, InsertRun, Terminal
<1>3. ASSUME NEW w \in Workers, Start(w) \/ Settle(w) \/ Finish(w)
      PROVE  status'[r] = status[r]
  <2>1. pc[w] \in {"start", "settle", "finish"}
    BY <1>3 DEF Start, Settle, Finish
  <2>2. status[run[w]] \in Active
    BY <2>1 DEF SoloInv, SoloOf, Active
  <2>3. run[w] # r
    BY <1>1, <2>2 DEF Active, Terminal
  <2>4. QED
    BY <1>1, <1>3, <2>3 DEF Start, Settle, Finish, SetStatus
<1>4. CASE /\ ~(\E s \in RunIds : Submit(s))
           /\ ~(\E w \in Workers : Start(w) \/ Settle(w) \/ Finish(w))
  BY <1>4 DEF Next, vars, storeVars, Resume, Load, SelectRun, CallStep,
     SelectSteps, PlanChanged, Acquire, LockUnavailable, StartConflict,
     PerformEffect, HandlerReturns, HandlerRaises, AppendRecord, RecordFailure, AppendRefused,
     InsertRecord, Release, CallFault, StoreFails, Interrupted, Die, ReleaseFails,
     LeaseLapses, SessionLost
<1>5. QED
  BY <1>2, <1>3, <1>4

(* A run that has ended keeps the end it has: what two workers can undo     *)
(* (engine.py:249), one cannot, dead or alive.                              *)
THEOREM TerminalIsFinalHolds ==
  ASSUME OneWorker, ErrorsKeepTheirShape, Plans # {}
  PROVE  Spec => TerminalIsFinal
<1>1. SoloInv /\ [Next]_vars => [\A r \in RunIds : Over(r) => status'[r] = status[r]]_vars
  BY OverStays
<1>2. QED
  BY <1>1, SoloInvariance, PTL DEF Spec, TerminalIsFinal

-----------------------------------------------------------------------------
(* Repeated work lies behind a failure. *)

Working == AtStep \cup {"acquire", "start"}

FailedUpTo(r, i) == \E row \in Rows(r) : row.outcome = "failed" /\ row.index <= i

(* If the step a call is about to do has a row, a step up to it has failed. *)
RepeatOf(w) == pc[w] \in Working /\ Recorded(run[w], index[w]) => FailedUpTo(run[w], index[w])

(* How a call comes to the step it is about to do. *)
LEMMA StepChange ==
  ASSUME OneWorker, TypeInv, [Next]_vars, NEW w \in Workers, pc'[w] \in Working
  PROVE  \/ UNCHANGED <<records, run[w], index[w]>> /\ pc[w] \in Working
         \/ \E r \in RunIds, p \in Plans : Adopt(w, r, p) /\ UNCHANGED storeVars
         \/ AppendRecord(w)
<1> USE DEF TypeInv, TypeOK, Working, AtStep
<1>1. CASE UNCHANGED <<records, pc, run, index>>
  BY <1>1
<1>2. CASE \E r \in RunIds : Submit(r)
  BY <1>2 DEF Submit, InsertRun, localVars
<1>3. CASE \E k \in Keys : LeaseLapses(k) \/ SessionLost(k)
  BY <1>3 DEF LeaseLapses, SessionLost, storeVars, localVars
<1>4. CASE \E r \in RunIds, p \in Plans : Load(w, r, p)
  BY <1>4 DEF Load
<1>5. CASE \E r \in RunIds, p \in Plans : SelectRun(w, r, p)
  BY <1>5 DEF SelectRun
<1>6. CASE SelectSteps(w)
  <2>1. run[w] \in RunIds /\ plan[w] \in Plans
    BY <1>6, CallFacts DEF SelectSteps
  <2>2. QED
    BY <1>6, <2>1 DEF SelectSteps
<1>7. CASE AppendRecord(w)
  BY <1>7
<1>8. CASE \/ Acquire(w) \/ Start(w) \/ PerformEffect(w) \/ HandlerReturns(w) \/ HandlerRaises(w)
  BY <1>8 DEF Acquire, Start, SetStatus, PerformEffect, HandlerReturns, HandlerRaises, HandlerDone,
     Goto, localVars, storeVars
<1>9. CASE \/ StartConflict(w) \/ AppendRefused(w) \/ RecordFailure(w) \/ Settle(w) \/ Finish(w)
           \/ StoreFails(w) \/ Interrupted(w)
  BY <1>9 DEF StartConflict, AppendRefused, RecordFailure, Settle, Finish, StoreFails, Interrupted,
     Goto, Leave
<1>10. CASE PlanChanged(w) \/ LockUnavailable(w) \/ Release(w) \/ ReleaseFails(w) \/ Die(w)
  BY <1>10 DEF PlanChanged, LockUnavailable, Release, ReleaseFails, Die, Leave
<1>11. QED
  BY <1>1, <1>2, <1>3, <1>4, <1>5, <1>6, <1>7, <1>8, <1>9, <1>10
     DEF OneWorker, Next, Resume, CallStep, CallFault, vars

LEMMA RepeatNext ==
  ASSUME OneWorker, SoloInv, [Next]_vars, NEW w \in Workers, RepeatOf(w)
  PROVE  RepeatOf(w)'
<1>1. SUFFICES ASSUME pc'[w] \in Working, Recorded(run[w], index[w])'
               PROVE  FailedUpTo(run[w], index[w])'
  BY DEF RepeatOf
<1>2. CASE UNCHANGED <<records, run[w], index[w]>> /\ pc[w] \in Working
  BY <1>1, <1>2 DEF RepeatOf, Recorded, FailedUpTo, Rows
<1>3. ASSUME NEW r \in RunIds, NEW p \in Plans, Adopt(w, r, p), UNCHANGED storeVars
      PROVE  FailedUpTo(run[w], index[w])'
  <2>1. run'[w] = r /\ IsNextIndex(r, index'[w]) /\ index'[w] \in Nat
    BY <1>3 DEF Adopt, SoloInv, IInv, TypeInv, TypeOK
  <2>2. PICK row \in records : row.run = r /\ row.index = index'[w]
    BY <1>1, <1>3, <2>1 DEF Recorded, storeVars
  <2>3. row.outcome = "failed"
    BY <2>1, <2>2 DEF IsNextIndex, Succeeded
  <2>4. QED
    BY <1>3, <2>1, <2>2, <2>3 DEF FailedUpTo, Rows, storeVars
<1>4. CASE AppendRecord(w)
  <2>1. PICK r \in RunIds, p \in Plans, n \in Nat : run[w] = r /\ plan[w] = p /\ index[w] = n
    BY <1>4, CallFacts DEF AppendRecord, SoloInv, IInv
  <2>2. run'[w] = r /\ index'[w] = n + 1 /\ pc[w] \in Working
    BY <1>4, <2>1 DEF AppendRecord, MoveOn, Working, AtStep, SoloInv, IInv, TypeInv, TypeOK
  <2>3. CASE Recorded(r, n)
    <3>1. records' = records
      BY <1>4, <2>1, <2>3 DEF AppendRecord, InsertRecord, StepRecord
    <3>2. PICK row \in Rows(r) : row.outcome = "failed" /\ row.index <= n
      BY <2>1, <2>2, <2>3 DEF RepeatOf, FailedUpTo
    <3>3. row.index \in Nat
      BY <3>2 DEF Rows, SoloInv, IInv, TypeInv, TypeOK, StoreTypeOK, Row, Indices
    <3>4. QED
      BY <2>2, <3>1, <3>2, <3>3 DEF FailedUpTo, Rows
  <2>4. CASE ~Recorded(r, n)
    <3>1. PICK row \in records' : row.run = r /\ row.index = n + 1
      BY <1>1, <2>2 DEF Recorded
    <3>2. row \in records
      BY <1>4, <2>1, <3>1 DEF AppendRecord, InsertRecord, StepRecord
    <3>3. QED
      BY <2>4, <3>1, <3>2 DEF SoloInv, IInv, Core, History
  <2>5. QED
    BY <2>3, <2>4
<1>5. QED
  BY <1>1, <1>2, <1>3, <1>4, StepChange DEF SoloInv, IInv

(* A handler is called for a step that is on record as done only if one     *)
(* ahead of it is on record as failed (engine.py:253).  Handlers may raise  *)
(* here, which NoRepeatedWorkHolds rules out.                               *)
THEOREM RepeatsFollowFailureHolds ==
  ASSUME OneWorker, ErrorsKeepTheirShape, Plans # {}
  PROVE  Spec => []RepeatsFollowFailure
<1> DEFINE Repeats == \A w \in Workers : RepeatOf(w)
<1>1. Init => Repeats
  BY DEF Init, RepeatOf, Working, AtStep
<1>2. SoloInv /\ Repeats /\ [Next]_vars => Repeats'
  BY RepeatNext
<1>3. SoloInv /\ Repeats => RepeatsFollowFailure
  <2>1. SUFFICES ASSUME SoloInv, Repeats, NEW w \in Workers,
                        pc[w] = "handler", Succeeded(run[w], index[w])
                 PROVE  \E row \in Rows(run[w]) : row.index < index[w] /\ row.outcome = "failed"
    BY DEF RepeatsFollowFailure
  <2>2. PICK done \in records : done.run = run[w] /\ done.index = index[w] /\ done.outcome # "failed"
    BY <2>1 DEF Succeeded
  <2>3. PICK row \in records :
          row.run = run[w] /\ row.outcome = "failed" /\ row.index <= index[w]
    BY <2>1, <2>2 DEF RepeatOf, Working, AtStep, Recorded, FailedUpTo, Rows
  <2>4. row.index \in Nat /\ index[w] \in Nat
    BY <2>1, <2>3 DEF SoloInv, IInv, TypeInv, TypeOK, StoreTypeOK, Row, Indices
  <2>5. row.index # index[w]
    BY <2>1, <2>2, <2>3 DEF SoloInv, IInv, Core, History
  <2>6. QED
    BY <2>3, <2>4, <2>5 DEF Rows
<1> HIDE DEF Repeats
<1>4. QED
  BY <1>1, <1>2, <1>3, SoloInvariance, PTL DEF Spec

-----------------------------------------------------------------------------
(* Handlers that do not raise: every row is a success, so no recorded work  *)
(* is done again.                                                           *)

AllOk == \A row \in records : row.outcome = "ok"

LEMMA AllOkNext ==
  ASSUME Verdicts = {}, TypeInv, AllOk, [Next]_vars
  PROVE  AllOk'
<1>1. CASE records' = records
  BY <1>1 DEF AllOk
<1>2. ASSUME NEW w \in Workers, NEW outcome \in {"ok", "failed"}, NEW output,
             outcome = "failed" => pc[w] = "record_failure",
             InsertRecord(StepRecord(w, outcome, output))
      PROVE  AllOk'
  <2>1. outcome = "ok"
    BY <1>2 DEF TypeInv, CallOK
  <2>2. QED
    BY <1>2, <2>1 DEF AllOk, InsertRecord, StepRecord
<1>3. QED
  BY <1>1, <1>2, RecordsChange

(* No handler is called for a step that has been recorded as done           *)
(* (engine.py:253).  With failures on record the code does not keep this.   *)
THEOREM NoRepeatedWorkHolds ==
  ASSUME OneWorker, ErrorsKeepTheirShape, Plans # {}, Verdicts = {}
  PROVE  Spec => []NoRepeatedWork
<1>1. Init => AllOk
  BY DEF Init, StoreInit, AllOk
<1>2. SoloInv /\ AllOk /\ [Next]_vars => AllOk'
  BY AllOkNext DEF SoloInv, IInv
<1>3. RepeatsFollowFailure /\ AllOk => NoRepeatedWork
  BY DEF RepeatsFollowFailure, AllOk, NoRepeatedWork, Rows
<1>4. QED
  BY <1>1, <1>2, <1>3, SoloInvariance, RepeatsFollowFailureHolds, PTL DEF Spec

-----------------------------------------------------------------------------
(* What handlers are given.                                                 *)

Known(pairs) == {<<pair[1], Encoded(pair[2])>> : pair \in pairs}

Before(r, i) == {<<old.name, old.output>> : old \in {x \in Rows(r) : x.index < i}}

(* No step of run r ahead of index i is on record as failed.                *)
Unfailed(r, i) == \A old \in Rows(r) : old.index < i => old.outcome # "failed"

(* What a call passes to a step that has no row, with no failure ahead of   *)
(* it, is what the rows ahead of it say.                                    *)
GivenOf(w) ==
  (pc[w] \in Working /\ ~Recorded(run[w], index[w]) /\ Unfailed(run[w], index[w])) =>
    Known(previous[w]) = Before(run[w], index[w])

OutputsAreStored == \A row \in records : Encoded(row.output) = row.output

HistoryInv ==
  /\ SoloInv /\ OutputsAreStored /\ HistoryIsConsistent
  /\ \A w \in Workers : RepeatOf(w) /\ GivenOf(w)

LEMMA EncodedTwice == \A output : Encoded(Encoded(output)) = Encoded(output)
<1>1. ASSUME NEW output
      PROVE  Encoded(Encoded(output)) = Encoded(output)
  <2>1. CASE output \in Answers
    BY <2>1, StoreAssumptions DEF Encoded
  <2>2. CASE output \notin Answers
    BY <2>2 DEF Encoded
  <2>3. QED
    BY <2>1, <2>2
<1>2. QED
  BY <1>1

(* No name comes twice in what a call passes on: the filters of Remember    *)
(* and of the property take nothing away.                                   *)
LEMMA NamesAhead ==
  ASSUME HistoryInv, NEW w \in Workers, pc[w] \in AtStep,
         ~Recorded(run[w], index[w]), Unfailed(run[w], index[w])
  PROVE  \A pair \in previous[w] : pair[1] # StepName(w)
<1>1. PICK r \in RunIds, p \in Plans, n \in Nat :
        run[w] = r /\ plan[w] = p /\ index[w] = n /\ n < Len(p)
  BY CallFacts DEF HistoryInv, SoloInv, IInv, TypeInv, CallOK, AtStep
<1>2. PlanMatches(r, p)
  BY <1>1 DEF HistoryInv, SoloInv, SoloOf, AtStep, HasLock
<1>3. ASSUME NEW pair \in previous[w]
      PROVE  pair[1] # p[n + 1]
  <2>1. <<pair[1], Encoded(pair[2])>> \in Before(r, n)
    BY <1>1 DEF HistoryInv, GivenOf, Known, Working
  <2>2. PICK old \in Rows(r) : old.index < n /\ pair[1] = old.name
    BY <2>1 DEF Before
  <2>3. old.index \in Nat /\ old.index < Len(p) /\ old.name = p[old.index + 1]
    BY <1>2, <2>2 DEF PlanMatches, Rows, HistoryInv, SoloInv, IInv, TypeInv, TypeOK, StoreTypeOK,
                      Row, Indices
  <2>4. old.index + 1 \in 1 .. Len(p) /\ n + 1 \in 1 .. Len(p) /\ old.index + 1 # n + 1
    BY <1>1, <2>2, <2>3, PlanStep
  <2>5. QED
    BY <2>2, <2>3, <2>4, EngineAssumptions
<1>4. QED
  BY <1>1, <1>3 DEF StepName

(* Rows come from these two steps.                                          *)
LEMMA RecordsFromSteps ==
  ASSUME [Next]_vars, records' # records
  PROVE  \E w \in Workers : AppendRecord(w) \/ RecordFailure(w)
BY DEF Next, vars, storeVars, Submit, InsertRun, Resume, Load, SelectRun, CallStep,
   SelectSteps, PlanChanged, Acquire, LockUnavailable, Start, StartConflict, SetStatus,
   PerformEffect, HandlerReturns, HandlerRaises, AppendRefused, Settle, Finish, Release,
   CallFault, StoreFails, Interrupted, Die, ReleaseFails, LeaseLapses, SessionLost

(* The row a step adds: it is about what the call was given.                *)
LEMMA GivenRecorded ==
  ASSUME HistoryInv, NEW w \in Workers, pc[w] \in AtStep, NEW outcome, NEW output,
         ~Recorded(run[w], index[w]),
         records' = records \cup {StepRecord(w, outcome, output)}
  PROVE  OutputsAreStored' /\ HistoryIsConsistent'
<1>1. PICK r \in RunIds, n \in Nat : run[w] = r /\ index[w] = n
  BY CallFacts DEF AtStep, HistoryInv, SoloInv, IInv
<1>2. DEFINE new == StepRecord(w, outcome, output)
<1>3. /\ new.run = r /\ new.index = n /\ new.name = StepName(w)
      /\ new.output = Encoded(output) /\ new.given = previous[w]
  BY <1>1 DEF StepRecord
<1>4. ~Recorded(r, n) /\ records' = records \cup {new}
  BY <1>1
<1> HIDE DEF new
<1>5. \A row \in records : row.index \in Nat /\ (row.run = r => row.index # n /\ ~(n < row.index))
  BY <1>4 DEF Recorded, HistoryInv, SoloInv, IInv, Core, History, TypeInv, TypeOK, StoreTypeOK,
              Row, Indices
<1>6. OutputsAreStored'
  BY <1>3, <1>4, EncodedTwice DEF HistoryInv, OutputsAreStored, Encoded
<1>7. ASSUME NEW q, NEW i \in Nat, q = r => i <= n
      PROVE  Before(q, i)' = Before(q, i) /\ (Unfailed(q, i)' => Unfailed(q, i))
  <2>1. {x \in Rows(q) : x.index < i}' = {x \in Rows(q) : x.index < i}
    BY <1>3, <1>4, <1>7 DEF Rows
  <2>2. Rows(q) \subseteq Rows(q)'
    BY <1>4 DEF Rows
  <2>3. QED
    BY <2>1, <2>2 DEF Before, Unfailed
<1>8. ASSUME NEW row \in records', Unfailed(row.run, row.index)'
      PROVE  Known({x \in row.given : x[1] # row.name}) = Before(row.run, row.index)'
  <2>1. CASE row \in records
    <3>1. (row.run = r => row.index <= n) /\ row.index \in Nat
      BY <1>5, <2>1
    <3>2. Unfailed(row.run, row.index) /\ Before(row.run, row.index)' = Before(row.run, row.index)
      BY <1>7, <1>8, <3>1
    <3>3. Known({x \in row.given : x[1] # row.name}) = Before(row.run, row.index)
      BY <2>1, <3>2 DEF HistoryInv, HistoryIsConsistent, Known, Before, Unfailed
    <3>4. QED
      BY <3>2, <3>3
  <2>2. CASE row = new
    <3>1. row.run = r /\ row.index = n
      BY <1>3, <2>2
    <3>2. Unfailed(r, n) /\ Before(r, n)' = Before(r, n)
      BY <1>7, <1>8, <3>1
    <3>3. {x \in row.given : x[1] # row.name} = previous[w]
      BY <1>1, <1>3, <1>4, <2>2, <3>2, NamesAhead
    <3>4. Known(previous[w]) = Before(r, n)
      BY <1>1, <1>4, <3>2 DEF HistoryInv, GivenOf, Working
    <3>5. QED
      BY <3>1, <3>2, <3>3, <3>4
  <2>3. QED
    BY <1>4, <2>1, <2>2
<1>9. HistoryIsConsistent'
  BY <1>8 DEF HistoryIsConsistent, Known, Before, Encoded, Unfailed
<1>10. QED
  BY <1>6, <1>9

(* A call that goes on to the next step takes along what it did.            *)
LEMMA GivenAppended ==
  ASSUME HistoryInv, [Next]_vars, NEW w \in Workers, AppendRecord(w)
  PROVE  GivenOf(w)'
<1>1. PICK r \in RunIds, n \in Nat :
        run[w] = r /\ index[w] = n /\ run'[w] = r /\ index'[w] = n + 1 /\ pc[w] \in AtStep
  BY CallFacts DEF AppendRecord, MoveOn, AtStep, HistoryInv, SoloInv, IInv, TypeInv, TypeOK
<1>2. previous'[w] = Remember(w, result[w])
  BY DEF AppendRecord, MoveOn, HistoryInv, SoloInv, IInv, TypeInv, TypeOK
<1>3. DEFINE new == StepRecord(w, "ok", result[w])
<1>4. new.run = r /\ new.index = n /\ new.name = StepName(w) /\ new.output = Encoded(result[w])
  BY <1>1 DEF StepRecord
<1>5. SUFFICES ASSUME Unfailed(r, n + 1)'
               PROVE  Known(previous[w])' = Before(r, n + 1)'
  BY <1>1 DEF GivenOf
<1>6. \A row \in records : row.index \in Nat
  BY DEF HistoryInv, SoloInv, IInv, TypeInv, TypeOK, StoreTypeOK, Row, Indices
<1>7. Unfailed(r, n + 1) /\ Unfailed(r, n)
  <2>1. records \subseteq records'
    BY DEF AppendRecord, InsertRecord
  <2>2. QED
    BY <1>5, <1>6, <2>1 DEF Unfailed, Rows
<1>8. ~Recorded(r, n)
  <2>1. SUFFICES ASSUME Recorded(r, n) PROVE FALSE
    OBVIOUS
  <2>2. PICK row \in Rows(r) : row.outcome = "failed" /\ row.index <= n
    BY <1>1, <2>1 DEF HistoryInv, RepeatOf, Working, FailedUpTo
  <2>3. QED
    BY <1>6, <1>7, <2>2 DEF Unfailed, Rows
<1>9. records' = records \cup {new}
  BY <1>1, <1>4, <1>8 DEF AppendRecord, InsertRecord
<1>10. \A pair \in previous[w] : pair[1] # StepName(w)
  BY <1>1, <1>7, <1>8, NamesAhead
<1>11. Known(previous[w]) = Before(r, n)
  BY <1>1, <1>7, <1>8 DEF HistoryInv, GivenOf, Working
<1>12. \A row \in records : row.run = r => row.index # n /\ ~(n < row.index)
  BY <1>6, <1>8 DEF Recorded, HistoryInv, SoloInv, IInv, Core, History
<1>13. previous'[w] = previous[w] \cup {<<StepName(w), result[w]>>}
  BY <1>2, <1>10 DEF Remember
<1>14. Known(previous'[w]) = Known(previous[w]) \cup {<<StepName(w), Encoded(result[w])>>}
  <2> DEFINE pair == <<StepName(w), result[w]>>
  <2>1. pair \in previous'[w] /\ <<pair[1], Encoded(pair[2])>> = <<StepName(w), Encoded(result[w])>>
    BY <1>13
  <2>2. <<StepName(w), Encoded(result[w])>> \in Known(previous'[w])
    BY <2>1 DEF Known
  <2>3. Known(previous[w]) \subseteq Known(previous'[w])
    BY <1>13 DEF Known
  <2>4. Known(previous'[w]) \subseteq Known(previous[w]) \cup {<<StepName(w), Encoded(result[w])>>}
    BY <1>13 DEF Known
  <2>5. QED
    BY <2>2, <2>3, <2>4
<1>15. {x \in Rows(r) : x.index < n + 1}' = {x \in Rows(r) : x.index < n} \cup {new}
  BY <1>4, <1>6, <1>9, <1>12 DEF Rows
<1>16. Before(r, n + 1)' = Before(r, n) \cup {<<StepName(w), Encoded(result[w])>>}
  BY <1>4, <1>15 DEF Before
<1>17. QED
  BY <1>11, <1>14, <1>16 DEF Known, Encoded

(* A call that loads its run is given all rows of it, and they are ahead of *)
(* the step it resumes at if that has no row.                               *)
LEMMA GivenAdopted ==
  ASSUME HistoryInv, NEW w \in Workers, NEW r \in RunIds, NEW p \in Plans,
         Adopt(w, r, p), UNCHANGED storeVars
  PROVE  GivenOf(w)'
<1>1. /\ run'[w] = r /\ previous'[w] = PreviousOutputs(r) /\ index'[w] \in Nat
  BY DEF Adopt, HistoryInv, SoloInv, IInv, TypeInv, TypeOK
<1>2. SUFFICES ASSUME ~Recorded(r, index'[w])
               PROVE  Known(PreviousOutputs(r)) = Before(r, index'[w])
  BY <1>1 DEF GivenOf, Recorded, Before, storeVars, Rows, Known, Encoded
<1>3. \A row \in Rows(r) : row.index < index'[w]
  <2>1. SUFFICES ASSUME NEW row \in Rows(r), ~(row.index < index'[w]) PROVE FALSE
    OBVIOUS
  <2>2. row.index \in Nat /\ row.run = r /\ row \in records
    BY DEF Rows, HistoryInv, SoloInv, IInv, TypeInv, TypeOK, StoreTypeOK, Row, Indices
  <2>3. CASE row.index = index'[w]
    BY <1>2, <2>2, <2>3 DEF Recorded
  <2>4. CASE index'[w] < row.index
    BY <1>1, <1>2, <2>2, <2>4 DEF HistoryInv, SoloInv, IInv, Core, History
  <2>5. QED
    BY <1>1, <2>1, <2>2, <2>3, <2>4
<1>4. {x \in Rows(r) : x.index < index'[w]} = Rows(r)
  BY <1>3
<1>5. Known(PreviousOutputs(r)) = PreviousOutputs(r)
  BY DEF Known, PreviousOutputs, HistoryInv, OutputsAreStored, Rows
<1>6. QED
  BY <1>4, <1>5 DEF Before, PreviousOutputs

(* A step that keeps the rows, and the call at the step it was at.          *)
LEMMA GivenStays ==
  ASSUME HistoryInv, NEW w \in Workers, UNCHANGED records,
         pc'[w] \in Working =>
           pc[w] \in Working /\ UNCHANGED <<run[w], index[w], previous[w]>>
  PROVE  GivenOf(w)'
<1>1. CASE pc'[w] \in Working
  <2>1. /\ Known(previous[w])' = Known(previous[w])
        /\ Before(run[w], index[w])' = Before(run[w], index[w])
        /\ Recorded(run[w], index[w])' <=> Recorded(run[w], index[w])
        /\ Unfailed(run[w], index[w])' <=> Unfailed(run[w], index[w])
    BY <1>1 DEF Known, Before, Rows, Encoded, Recorded, Unfailed
  <2>2. QED
    BY <1>1, <2>1 DEF HistoryInv, GivenOf
<1>2. CASE pc'[w] \notin Working
  BY <1>2 DEF GivenOf
<1>3. QED
  BY <1>1, <1>2

LEMMA GivenNext ==
  ASSUME OneWorker, HistoryInv, [Next]_vars, NEW w \in Workers
  PROVE  GivenOf(w)'
<1>1. TypeInv /\ (pc[w] # "idle" => run[w] \in RunIds /\ plan[w] \in Plans)
  BY CallFacts DEF HistoryInv, SoloInv, IInv
<1>2. CASE AppendRecord(w)
  BY <1>2, GivenAppended
<1>3. ASSUME NEW r \in RunIds, NEW p \in Plans, Load(w, r, p)
      PROVE  GivenOf(w)'
  BY <1>3, GivenAdopted DEF Load
<1>4. CASE SelectSteps(w)
  BY <1>1, <1>4, GivenAdopted DEF SelectSteps
<1>5. CASE RecordFailure(w)
  BY <1>1, <1>5 DEF RecordFailure, Goto, TypeInv, TypeOK, GivenOf, Working, AtStep
<1>6. CASE UNCHANGED <<records, pc, run, index, previous>>
  BY <1>6, GivenStays
<1>7. CASE \/ \E r \in RunIds : Submit(r)
           \/ \E k \in Keys : LeaseLapses(k) \/ SessionLost(k)
           \/ UNCHANGED vars
  BY <1>6, <1>7 DEF Submit, InsertRun, LeaseLapses, SessionLost, vars, storeVars, localVars
<1>8. CASE Acquire(w) \/ PerformEffect(w) \/ HandlerReturns(w) \/ HandlerRaises(w) \/ Start(w)
  <2>1. UNCHANGED <<records, run, index, previous>> /\ pc[w] \in Working
    BY <1>8 DEF Acquire, PerformEffect, HandlerReturns, HandlerRaises, HandlerDone, Start, SetStatus,
                Goto, localVars, storeVars, Working, AtStep
  <2>2. QED
    BY <2>1, GivenStays
<1>9. CASE \/ Settle(w) \/ Finish(w) \/ StartConflict(w) \/ AppendRefused(w)
           \/ StoreFails(w) \/ Interrupted(w) \/ PlanChanged(w) \/ LockUnavailable(w)
           \/ Release(w) \/ ReleaseFails(w) \/ Die(w)
           \/ \E r \in RunIds, p \in Plans : SelectRun(w, r, p)
  <2>1. UNCHANGED records /\ pc'[w] \in {"idle", "release", "hydrate"}
    BY <1>1, <1>9 DEF Settle, Finish, StartConflict, AppendRefused, StoreFails, Interrupted, PlanChanged,
       LockUnavailable, Release, ReleaseFails, Die, SelectRun, SetStatus, Goto, Leave, storeVars,
       TypeInv, TypeOK
  <2>2. QED
    BY <2>1, GivenStays DEF Working, AtStep
<1>10. QED
  BY <1>2, <1>3, <1>4, <1>5, <1>7, <1>8, <1>9 DEF OneWorker, Next, Resume, CallStep, CallFault

(* Until a failure is on record, what a handler was given is what the steps *)
(* ahead of its own have on record, whether its call computed them or       *)
(* loaded them (engine.py:251, 334).                                        *)
THEOREM HistoryIsConsistentHolds ==
  ASSUME OneWorker, ErrorsKeepTheirShape, Plans # {}
  PROVE  Spec => []HistoryIsConsistent
<1>1. Init => HistoryInv
  BY SoloInit DEF Init, StoreInit, HistoryInv, OutputsAreStored, HistoryIsConsistent,
                  RepeatOf, GivenOf, Working, AtStep
<1>2. HistoryInv /\ [Next]_vars => HistoryInv'
  <2>1. SUFFICES ASSUME HistoryInv, [Next]_vars PROVE HistoryInv'
    OBVIOUS
  <2>2. SoloInv'
    BY <2>1, SoloNext, IInvNext, SoloRecordsNext, FailureIsOnRecordNext DEF HistoryInv, SoloInv
  <2>3. OutputsAreStored' /\ HistoryIsConsistent'
    <3>1. CASE records' = records
      BY <2>1, <3>1 DEF HistoryInv, OutputsAreStored, HistoryIsConsistent, Rows, Encoded
    <3>2. CASE records' # records
      <4>1. PICK w \in Workers : AppendRecord(w) \/ RecordFailure(w)
        BY <2>1, <3>2, RecordsFromSteps
      <4>2. PICK outcome, output : InsertRecord(StepRecord(w, outcome, output))
        BY <4>1 DEF AppendRecord, RecordFailure
      <4>3. /\ ~Recorded(run[w], index[w])
            /\ records' = records \cup {StepRecord(w, outcome, output)}
        BY <3>2, <4>2 DEF InsertRecord, StepRecord
      <4>4. pc[w] \in AtStep
        BY <4>1 DEF AppendRecord, RecordFailure, AtStep
      <4>5. QED
        BY <2>1, <4>3, <4>4, GivenRecorded
    <3>3. QED
      BY <3>1, <3>2
  <2>4. \A w \in Workers : RepeatOf(w)' /\ GivenOf(w)'
    BY <2>1, GivenNext, RepeatNext DEF HistoryInv
  <2>5. QED
    BY <2>2, <2>3, <2>4 DEF HistoryInv
<1>3. QED
  BY <1>1, <1>2, PTL DEF Spec, HistoryInv

-----------------------------------------------------------------------------
(* Durable execution, for callers that agree on the plan.                   *)

OnePlan == Plans # {} /\ \A p, q \in Plans : p = q

Done(r) == Cardinality(Rows(r))

(* The rows of a run are counted by their indices.                          *)
DoneInv ==
  \A r \in RunIds :
    IsFiniteSet(Rows(r)) /\ \A i \in Nat : Recorded(r, i) <=> i < Done(r)

DurableInv == SoloInv /\ DoneInv

LEMMA ThePlanIs ==
  ASSUME OnePlan
  PROVE  ThePlan \in Plans /\ \A p \in Plans : p = ThePlan
BY DEF OnePlan, ThePlan

LEMMA DoneType ==
  ASSUME DoneInv, NEW r \in RunIds
  PROVE  Done(r) \in Nat
BY FS_CardinalityType DEF DoneInv, Done

(* Where a call stands, in numbers.                                         *)
LEMMA DoneAtStep ==
  ASSUME DurableInv, NEW w \in Workers, pc[w] \in AtStep
  PROVE  index[w] <= Done(run[w]) /\ (~Recorded(run[w], index[w]) => Done(run[w]) = index[w])
<1>1. PICK r \in RunIds, n \in Nat : run[w] = r /\ index[w] = n
  BY AtStepFacts DEF DurableInv, SoloInv
<1>2. \A i \in 0 .. (n - 1) : Recorded(r, i)
  BY <1>1, AtStepFacts DEF DurableInv, SoloInv
<1>3. Done(r) \in Nat
  BY DoneType DEF DurableInv
<1>4. n <= Done(r)
  <2>1. CASE n = 0
    BY <1>3, <2>1
  <2>2. CASE n # 0
    <3>1. n - 1 \in Nat /\ Recorded(r, n - 1)
      BY <1>2, <2>2
    <3>2. n - 1 < Done(r)
      BY <3>1 DEF DurableInv, DoneInv
    <3>3. QED
      BY <1>3, <3>2
  <2>3. QED
    BY <2>1, <2>2
<1>5. ~Recorded(r, n) => ~(n < Done(r))
  BY DEF DurableInv, DoneInv
<1>6. QED
  BY <1>1, <1>3, <1>4, <1>5

(* A new row is one more, and is counted.                                   *)
LEMMA DoneMore ==
  ASSUME DurableInv, NEW w \in Workers, pc[w] \in AtStep,
         NEW outcome \in {"ok", "failed"}, NEW output,
         ~Recorded(run[w], index[w]),
         records' = records \cup {StepRecord(w, outcome, output)}
  PROVE  /\ DoneInv'
         /\ \A q \in RunIds : Done(q)' = IF q = run[w] THEN Done(q) + 1 ELSE Done(q)
<1>1. PICK r \in RunIds, n \in Nat : run[w] = r /\ index[w] = n
  BY AtStepFacts DEF DurableInv, SoloInv
<1>2. DEFINE new == StepRecord(w, outcome, output)
<1>3. new.run = r /\ new.index = n
  BY <1>1 DEF StepRecord
<1>4. Done(r) = n
  BY <1>1, DoneAtStep
<1>5. ASSUME NEW q \in RunIds \ {r}
      PROVE  Rows(q)' = Rows(q) /\ \A i : Recorded(q, i)' <=> Recorded(q, i)
  BY <1>3 DEF Rows, Recorded
<1>6. Rows(r)' = Rows(r) \cup {new} /\ new \notin Rows(r)
  BY <1>1, <1>3 DEF Rows, Recorded
<1>7. IsFiniteSet(Rows(r))' /\ Done(r)' = n + 1
  BY <1>4, <1>6, FS_AddElement DEF DurableInv, DoneInv, Done
<1>8. \A i \in Nat : Recorded(r, i)' <=> i < n + 1
  <2>1. \A i \in Nat : Recorded(r, i)' <=> Recorded(r, i) \/ i = n
    BY <1>3 DEF Recorded
  <2>2. \A i \in Nat : Recorded(r, i) <=> i < n
    BY <1>4 DEF DurableInv, DoneInv
  <2>3. QED
    BY <2>1, <2>2
<1>9. \A q \in RunIds : Done(q)' = IF q = run[w] THEN Done(q) + 1 ELSE Done(q)
  BY <1>1, <1>4, <1>5, <1>7 DEF Done
<1>10. DoneInv'
  <2>1. ASSUME NEW q \in RunIds
        PROVE  IsFiniteSet(Rows(q))' /\ \A i \in Nat : Recorded(q, i)' <=> i < Done(q)'
    <3>1. CASE q = r
      BY <1>7, <1>8, <3>1
    <3>2. CASE q # r
      BY <1>5, <3>2 DEF DurableInv, DoneInv, Done
    <3>3. QED
      BY <3>1, <3>2
  <2>2. QED
    BY <2>1 DEF DoneInv, Done
<1>11. QED
  BY <1>9, <1>10

LEMMA DoneNext ==
  ASSUME DurableInv, [Next]_vars
  PROVE  DoneInv'
<1>1. CASE records' = records
  BY <1>1 DEF DurableInv, DoneInv, Done, Rows, Recorded
<1>2. CASE records' # records
  <2>1. PICK w \in Workers, outcome \in {"ok", "failed"} : \E output :
          pc[w] \in AtStep /\ InsertRecord(StepRecord(w, outcome, output))
    BY <1>2, RecordsChange
  <2>2. PICK output : InsertRecord(StepRecord(w, outcome, output))
    BY <2>1
  <2>3. /\ ~Recorded(run[w], index[w])
        /\ records' = records \cup {StepRecord(w, outcome, output)}
    BY <1>2, <2>2 DEF InsertRecord, StepRecord
  <2>4. QED
    BY <2>1, <2>3, DoneMore
<1>3. QED
  BY <1>1, <1>2

(* What DurableRun sees of a state. *)
FailedRuns == {r \in RunIds : \E row \in Rows(r) : row.outcome = "failed"}

Acted == {c.token : c \in charges}

EffectIndices == {i \in 0 .. (Len(ThePlan) - 1) : ThePlan[i + 1] \in Effects}

LEMMA ActedIs == \A token : token \in Acted <=> Performed(token)
BY DEF Acted, Performed

(* A step that leaves the two tables and the effects alone does not show.   *)
LEMMA DurableStutter ==
  ASSUME UNCHANGED <<status, records, charges>>
  PROVE  UNCHANGED Durable!vars
BY DEF Durable!vars, Rows

(* A row that is new shows as one more step done.                           *)
LEMMA DurableRecords ==
  ASSUME DurableInv, [Next]_vars, NEW w \in Workers, pc[w] \in AtStep,
         NEW outcome \in {"ok", "failed"}, NEW output,
         InsertRecord(StepRecord(w, outcome, output))
  PROVE  \/ UNCHANGED records
         \/ /\ Done(run[w]) = index[w]
            /\ [q \in RunIds |-> Cardinality(Rows(q))]' =
                 [[q \in RunIds |-> Cardinality(Rows(q))] EXCEPT ![run[w]] = @ + 1]
            /\ FailedRuns' = IF outcome = "failed" THEN FailedRuns \cup {run[w]} ELSE FailedRuns
<1>1. CASE Recorded(run[w], index[w])
  BY <1>1 DEF InsertRecord, StepRecord
<1>2. CASE ~Recorded(run[w], index[w])
  <2>1. records' = records \cup {StepRecord(w, outcome, output)}
    BY <1>2 DEF InsertRecord, StepRecord
  <2>2. Done(run[w]) = index[w] /\ run[w] \in RunIds
    BY <1>2, DoneAtStep, AtStepFacts DEF DurableInv, SoloInv
  <2>3. \A q \in RunIds : Done(q)' = IF q = run[w] THEN Done(q) + 1 ELSE Done(q)
    BY <1>2, <2>1, DoneMore
  <2>4. [q \in RunIds |-> Cardinality(Rows(q))]' =
          [[q \in RunIds |-> Cardinality(Rows(q))] EXCEPT ![run[w]] = @ + 1]
    BY <2>2, <2>3 DEF Done
  <2>5. \A q : Rows(q)' = IF q = run[w] THEN Rows(q) \cup {StepRecord(w, outcome, output)} ELSE Rows(q)
    BY <2>1 DEF Rows, StepRecord
  <2>6. StepRecord(w, outcome, output).outcome = outcome
    BY DEF StepRecord
  <2>7. FailedRuns' = IF outcome = "failed" THEN FailedRuns \cup {run[w]} ELSE FailedRuns
    BY <2>2, <2>5, <2>6 DEF FailedRuns
  <2>8. QED
    BY <2>2, <2>4, <2>7
<1>3. QED
  BY <1>1, <1>2

(* What a call at a step knows of its run, in the terms of DurableRun.      *)
LEMMA DurableCall ==
  ASSUME OnePlan, DurableInv, NEW w \in Workers, pc[w] \in AtStep \cup {"settle", "finish"}
  PROVE  /\ run[w] \in RunIds /\ plan[w] = ThePlan /\ index[w] \in Nat
         /\ status[run[w]] = "running"
         /\ pc[w] \in AtStep => index[w] \in 0 .. (Len(ThePlan) - 1)
<1>1. TypeInv /\ pc[w] # "idle"
  BY DEF DurableInv, SoloInv, IInv, AtStep
<1>2. run[w] \in RunIds /\ plan[w] = ThePlan /\ index[w] \in Nat
  BY <1>1, CallFacts, ThePlanIs
<1>3. pc[w] \in AtStep => index[w] < Len(ThePlan)
  BY <1>1, <1>2 DEF TypeInv, CallOK
<1>4. Len(ThePlan) \in Nat
  BY ThePlanIs, PlanStep
<1>5. QED
  BY <1>2, <1>3, <1>4 DEF DurableInv, SoloInv, SoloOf

LEMMA DurableAct ==
  ASSUME OnePlan, DurableInv, NEW w \in Workers, PerformEffect(w)
  PROVE  [Durable!Next]_(Durable!vars)
<1>1. pc[w] = "handler" /\ StepName(w) \in Effects /\ UNCHANGED storeVars
  BY DEF PerformEffect
<1>2. PICK r \in RunIds, n \in 0 .. (Len(ThePlan) - 1) :
        /\ run[w] = r /\ index[w] = n /\ plan[w] = ThePlan /\ status[r] = "running"
  BY <1>1, DurableCall DEF AtStep
<1>3. n \in EffectIndices /\ n <= Cardinality(Rows(r))
  BY <1>1, <1>2, DoneAtStep DEF EffectIndices, StepName, AtStep, Done
<1>4. CASE Performed(<<r, n>>)
  BY <1>1, <1>2, <1>4, DurableStutter DEF PerformEffect, EffectToken, storeVars
<1>5. CASE ~Performed(<<r, n>>)
  <2>1. charges' = charges \cup {[token |-> <<r, n>>, name |-> StepName(w)]}
    BY <1>2, <1>5 DEF PerformEffect, EffectToken
  <2>2. Acted' = Acted \cup {<<r, n>>}
    <3> DEFINE new == [token |-> <<r, n>>, name |-> StepName(w)]
    <3>1. new.token = <<r, n>>
      OBVIOUS
    <3>2. charges' = charges \cup {new}
      BY <2>1
    <3> HIDE DEF new
    <3>3. QED
      BY <3>1, <3>2 DEF Acted
  <2>3. UNCHANGED [q \in RunIds |-> Cardinality(Rows(q))] /\ UNCHANGED FailedRuns /\ UNCHANGED status
    BY <1>1 DEF storeVars, Rows, FailedRuns
  <2>4. <<r, n>> \notin Acted
    BY <1>5, ActedIs
  <2>5. Durable!Act(r, n)
    BY <1>2, <1>3, <2>2, <2>3, <2>4 DEF Durable!Act, Acted, FailedRuns, EffectIndices
  <2>6. QED
    BY <1>3, <2>5 DEF Durable!Next, EffectIndices
<1>6. QED
  BY <1>4, <1>5

LEMMA DurableAppend ==
  ASSUME OnePlan, DurableInv, [Next]_vars, NEW w \in Workers, AppendRecord(w)
  PROVE  [Durable!Next]_(Durable!vars)
<1>1. /\ pc[w] = "append" /\ InsertRecord(StepRecord(w, "ok", result[w]))
      /\ UNCHANGED <<status, charges>>
  BY DEF AppendRecord, InsertRecord
<1>2. PICK r \in RunIds, n \in 0 .. (Len(ThePlan) - 1) :
        /\ run[w] = r /\ index[w] = n /\ plan[w] = ThePlan /\ status[r] = "running"
  BY <1>1, DurableCall DEF AtStep
<1>3. n \in EffectIndices => <<r, n>> \in Acted
  BY <1>1, <1>2, ActedIs DEF EffectIndices, DurableInv, SoloInv, IInv, Core, PositionOf, ActedAt
<1>4. CASE UNCHANGED records
  BY <1>1, <1>4, DurableStutter
<1>5. CASE ~UNCHANGED records
  <2>1. /\ Done(r) = n /\ UNCHANGED FailedRuns /\ UNCHANGED Acted
        /\ [q \in RunIds |-> Cardinality(Rows(q))]' =
             [[q \in RunIds |-> Cardinality(Rows(q))] EXCEPT ![r] = @ + 1]
    BY <1>1, <1>2, <1>5, DurableRecords DEF AtStep, Acted
  <2>2. Durable!RecordSuccess(r)
    BY <1>1, <1>2, <1>3, <2>1 DEF Durable!RecordSuccess, Acted, FailedRuns, EffectIndices, Done
  <2>3. QED
    BY <2>2 DEF Durable!Next
<1>6. QED
  BY <1>4, <1>5

LEMMA DurableFailure ==
  ASSUME OnePlan, DurableInv, [Next]_vars, NEW w \in Workers, RecordFailure(w)
  PROVE  [Durable!Next]_(Durable!vars)
<1>1. /\ pc[w] = "record_failure" /\ InsertRecord(StepRecord(w, "failed", ErrorOutput))
      /\ UNCHANGED <<status, charges>>
  BY DEF RecordFailure, InsertRecord
<1>2. PICK r \in RunIds, n \in 0 .. (Len(ThePlan) - 1) :
        /\ run[w] = r /\ index[w] = n /\ plan[w] = ThePlan /\ status[r] = "running"
  BY <1>1, DurableCall DEF AtStep
<1>3. CASE UNCHANGED records
  BY <1>1, <1>3, DurableStutter
<1>4. CASE ~UNCHANGED records
  <2>1. /\ Done(r) = n /\ FailedRuns' = FailedRuns \cup {r} /\ UNCHANGED Acted
        /\ [q \in RunIds |-> Cardinality(Rows(q))]' =
             [[q \in RunIds |-> Cardinality(Rows(q))] EXCEPT ![r] = @ + 1]
    BY <1>1, <1>2, <1>4, DurableRecords DEF AtStep, Acted
  <2>2. Durable!RecordFailure(r)
    BY <1>1, <1>2, <2>1 DEF Durable!RecordFailure, Acted, FailedRuns, Done
  <2>3. QED
    BY <2>2 DEF Durable!Next
<1>5. QED
  BY <1>3, <1>4

LEMMA DurableFinish ==
  ASSUME OnePlan, DurableInv, NEW w \in Workers, Finish(w)
  PROVE  [Durable!Next]_(Durable!vars)
<1>1. /\ pc[w] = "finish" /\ UNCHANGED <<records, charges>>
      /\ status' = [status EXCEPT ![run[w]] = "completed"]
  BY DEF Finish, SetStatus
<1>2. PICK r \in RunIds, n \in Nat :
        run[w] = r /\ index[w] = n /\ plan[w] = ThePlan /\ status[r] = "running"
  BY <1>1, DurableCall
<1>3. Len(ThePlan) \in Nat \ {0} /\ Done(r) \in Nat
  BY ThePlanIs, PlanStep, DoneType DEF DurableInv
<1>4. /\ n >= Len(ThePlan)
      /\ \A i \in 0 .. (n - 1) : Recorded(r, i) /\ ActedAt(r, ThePlan, i)
  BY <1>1, <1>2 DEF DurableInv, SoloInv, IInv, Core, PositionOf
<1>5. Len(ThePlan) - 1 < Done(r)
  BY <1>3, <1>4 DEF DurableInv, DoneInv
<1>6. ~(Len(ThePlan) < Done(r))
  <2>1. SUFFICES ASSUME Recorded(r, Len(ThePlan)) PROVE FALSE
    BY <1>3 DEF DurableInv, DoneInv
  <2>2. PICK row \in Rows(r) : row.index = Len(ThePlan)
    BY <2>1 DEF Recorded, Rows
  <2>3. PlanMatches(r, ThePlan)
    BY <1>1, <1>2 DEF DurableInv, SoloInv, SoloOf, HasLock
  <2>4. QED
    BY <1>3, <2>2, <2>3 DEF PlanMatches
<1>7. Cardinality(Rows(r)) = Len(ThePlan)
  BY <1>3, <1>5, <1>6 DEF Done
<1>8. \A i \in EffectIndices : <<r, i>> \in Acted
  BY <1>2, <1>3, <1>4, ActedIs DEF EffectIndices, ActedAt
<1>9. /\ UNCHANGED [q \in RunIds |-> Cardinality(Rows(q))] /\ UNCHANGED FailedRuns /\ UNCHANGED Acted
  BY <1>1 DEF Rows, FailedRuns, Acted
<1>10. Durable!Complete(r)
  BY <1>1, <1>2, <1>7, <1>8, <1>9 DEF Durable!Complete, Acted, FailedRuns, EffectIndices
<1>11. QED
  BY <1>10 DEF Durable!Next

LEMMA DurableSettle ==
  ASSUME OnePlan, DurableInv, NEW w \in Workers, Settle(w)
  PROVE  [Durable!Next]_(Durable!vars)
<1>1. /\ pc[w] = "settle" /\ UNCHANGED <<records, charges>>
      /\ status' = [status EXCEPT ![run[w]] = result[w]]
  BY DEF Settle, SetStatus
<1>2. PICK r \in RunIds : run[w] = r /\ status[r] = "running"
  BY <1>1, DurableCall
<1>3. result[w] \in {"failed", "escalated"}
  BY <1>1, EngineAssumptions DEF DurableInv, SoloInv, IInv, TypeInv, CallOK
<1>4. r \in FailedRuns
  BY <1>1, <1>2 DEF DurableInv, SoloInv, SoloOf, FailedOnRecord, FailedRuns
<1>5. /\ UNCHANGED [q \in RunIds |-> Cardinality(Rows(q))] /\ UNCHANGED FailedRuns /\ UNCHANGED Acted
  BY <1>1 DEF Rows, FailedRuns, Acted
<1>6. Durable!GiveUp(r)
  BY <1>1, <1>2, <1>3, <1>4, <1>5 DEF Durable!GiveUp, Acted, FailedRuns
<1>7. QED
  BY <1>6 DEF Durable!Next

LEMMA DurableStart ==
  ASSUME OnePlan, DurableInv, NEW w \in Workers, Start(w)
  PROVE  [Durable!Next]_(Durable!vars)
<1>1. /\ pc[w] = "start" /\ UNCHANGED <<records, charges>>
      /\ status' = [status EXCEPT ![run[w]] = "running"]
  BY DEF Start, SetStatus
<1>2. PICK r \in RunIds : run[w] = r /\ status[r] \in {"pending", "running"}
  BY <1>1, CallFacts DEF DurableInv, SoloInv, SoloOf, IInv, Active
<1>3. status \in [RunIds -> Statuses \cup {"absent"}]
  BY DEF DurableInv, SoloInv, IInv, TypeInv, TypeOK, StoreTypeOK
<1>4. CASE status[r] = "running"
  BY <1>1, <1>2, <1>3, <1>4, DurableStutter
<1>5. CASE status[r] = "pending"
  <2>1. /\ UNCHANGED [q \in RunIds |-> Cardinality(Rows(q))] /\ UNCHANGED FailedRuns /\ UNCHANGED Acted
    BY <1>1 DEF Rows, FailedRuns, Acted
  <2>2. Durable!Begin(r)
    BY <1>1, <1>2, <1>5, <2>1 DEF Durable!Begin, Acted, FailedRuns
  <2>3. QED
    BY <2>2 DEF Durable!Next
<1>6. QED
  BY <1>2, <1>4, <1>5

LEMMA DurableSubmit ==
  ASSUME NEW r \in RunIds, Submit(r)
  PROVE  [Durable!Next]_(Durable!vars)
<1>1. /\ status[r] = "absent" /\ status' = [status EXCEPT ![r] = "pending"]
      /\ UNCHANGED <<records, charges>>
  BY DEF Submit, InsertRun
<1>2. \A s \in RunIds : KeyOf[s] = KeyOf[r] => ~Durable!Busy(s)
  BY <1>1 DEF Submit, InsertRun, IndexAllows, Active, Durable!Busy
<1>3. /\ UNCHANGED [q \in RunIds |-> Cardinality(Rows(q))] /\ UNCHANGED FailedRuns /\ UNCHANGED Acted
  BY <1>1 DEF Rows, FailedRuns, Acted
<1>4. Durable!Submit(r)
  BY <1>1, <1>2, <1>3 DEF Durable!Submit, Acted, FailedRuns
<1>5. QED
  BY <1>4 DEF Durable!Next

LEMMA DurableNext ==
  ASSUME OnePlan, DurableInv, [Next]_vars
  PROVE  [Durable!Next]_(Durable!vars)
<1>1. CASE \E r \in RunIds : Submit(r)
  BY <1>1, DurableSubmit
<1>2. ASSUME NEW w \in Workers,
             \/ Start(w) \/ PerformEffect(w) \/ AppendRecord(w) \/ RecordFailure(w)
             \/ Settle(w) \/ Finish(w)
      PROVE  [Durable!Next]_(Durable!vars)
  BY <1>2, DurableStart, DurableAct, DurableAppend, DurableFailure, DurableSettle, DurableFinish
<1>3. CASE /\ ~(\E r \in RunIds : Submit(r))
           /\ ~(\E w \in Workers : \/ Start(w) \/ PerformEffect(w) \/ AppendRecord(w)
                                   \/ RecordFailure(w) \/ Settle(w) \/ Finish(w))
  <2>1. UNCHANGED <<status, records, charges>>
    BY <1>3 DEF Next, vars, storeVars, Resume, Load, SelectRun, CallStep,
       SelectSteps, PlanChanged, Acquire, LockUnavailable, StartConflict,
       HandlerReturns, HandlerRaises, AppendRefused, Release, CallFault, StoreFails, Interrupted,
       Die, ReleaseFails, LeaseLapses, SessionLost
  <2>2. QED
    BY <2>1, DurableStutter
<1>4. QED
  BY <1>1, <1>2, <1>3

LEMMA DurableInit ==
  ASSUME Init
  PROVE  Durable!Init /\ DoneInv
<1>1. \A r : Rows(r) = {}
  BY DEF Init, StoreInit, Rows
<1>2. Cardinality({}) = 0 /\ IsFiniteSet({})
  BY FS_EmptySet
<1>3. Durable!Init
  BY <1>1, <1>2 DEF Init, StoreInit, Durable!Init
<1>4. DoneInv
  <2>1. \A r : Done(r) = 0 /\ IsFiniteSet(Rows(r))
    BY <1>1, <1>2 DEF Done
  <2>2. \A r, i : ~Recorded(r, i)
    BY DEF Recorded, Init, StoreInit
  <2>3. \A i \in Nat : ~(i < 0)
    OBVIOUS
  <2>4. QED
    BY <2>1, <2>2, <2>3 DEF DoneInv
<1>5. QED
  BY <1>3, <1>4

(* One worker at a time, dying and resuming at will, is a run executed      *)
(* once: each effect performed once, ahead of its record, in the order of   *)
(* the plan, to an end that stays (engine.py:1-26).                         *)
THEOREM EngineImplementsDurableRun ==
  ASSUME OneWorker, ErrorsKeepTheirShape, OnePlan
  PROVE  Spec => ImplementsDurableRun
<1>1. Plans # {}
  BY DEF OnePlan
<1>2. Init => Durable!Init /\ DurableInv
  BY <1>1, DurableInit, SoloInit DEF DurableInv
<1>3. DurableInv /\ [Next]_vars => DurableInv'
  BY SoloNext, IInvNext, SoloRecordsNext, FailureIsOnRecordNext, DoneNext DEF DurableInv, SoloInv
<1>4. DurableInv /\ [Next]_vars => [Durable!Next]_(Durable!vars)
  BY DurableNext
<1>5. QED
  BY <1>2, <1>3, <1>4, PTL DEF Spec, ImplementsDurableRun, Durable!Spec
=============================================================================
