------------------------------- MODULE Engine -------------------------------
(***************************************************************************)
(* Engine.run (engine.py) executed by any number of workers over one       *)
(* store, together with submit, the run lock of either backend, the        *)
(* external systems that perform effects, and what goes wrong: a worker    *)
(* dies anywhere, a statement fails, a lease lapses or a lock connection   *)
(* drops while its holder works on, a handler raises, the plan passed to   *)
(* run differs from deploy to deploy.                                      *)
(*                                                                         *)
(* A worker is one call of run at a time; pc says where the call stands:   *)
(*   idle -> [hydrate ->] acquire -> start                                 *)
(*        -> (handler [-> performed] -> append)* -> finish -> release      *)
(*   and handler -> record_failure -> settle -> release when it raises.    *)
(* Each store call is one action; the handler, which is the caller's code, *)
(* performs its effect in one action and returns or raises in another.     *)
(***************************************************************************)
EXTENDS RunStore

CONSTANTS
  Workers,      \* processes or threads that call run
  Plans,        \* plans the deployed versions of the caller pass to run
  Effects,      \* names of the steps that act on an external system
  Unstorable,   \* answers StepRecord or json.dumps refuses
  Verdicts,     \* how the handlers raise: Escalation, or a defect ("failed")
  Backend,      \* "sqlite" or "postgres"
  LocksHold,    \* no lease lapses and no lock session drops under a live call
  MaxFaults,    \* bound on deaths, failed statements and interrupts
  None

ASSUME EngineAssumptions ==
  /\ Plans \subseteq Seq(Names)
  /\ \A p \in Plans : Len(p) \in 1 .. MaxSteps
  /\ \A p \in Plans : \A i, j \in 1 .. Len(p) : p[i] = p[j] => i = j
  /\ Effects \subseteq Names
  /\ Unstorable \subseteq Answers
  /\ Verdicts \subseteq {"escalated", "failed"}
  /\ Backend \in {"sqlite", "postgres"}
  /\ LocksHold \in BOOLEAN
  /\ MaxFaults \in Nat
  /\ None \notin Workers

VARIABLES
  holder,       \* who the lock of a key names as its owner, or None
  lapsed,       \* keys whose owner has lost the lock: lease expired, session closed
  charges,      \* effects performed, as the external systems see them
  pc,           \* where the call of each worker stands
  run,          \* run_id argument
  plan,         \* plan argument
  index,        \* loop variable; between load and loop, state.next_index
  previous,     \* the dict handed to handlers as ctx.previous
  result,       \* what the handler left: an answer, or the verdict on a raise
  faults        \* how many faults have happened

lockVars  == <<holder, lapsed>>
localVars == <<run, plan, index, previous, result>>
vars      == <<status, records, holder, lapsed, charges, pc, run, plan, index,
               previous, result, faults>>

HasLock   == {"start", "handler", "performed", "append", "record_failure", "settle",
              "finish", "release"}
Labels    == {"idle", "hydrate", "acquire"} \cup HasLock
Charge    == [token : RunIds \X Indices, name : Names]

(* Every variable has the type its column or its local has in the code, and *)
(* a call in progress has its arguments.                                    *)
TypeOK ==
  /\ StoreTypeOK
  /\ holder \in [Keys -> Workers \cup {None}]
  /\ lapsed \subseteq Keys
  /\ charges \subseteq Charge
  /\ pc \in [Workers -> Labels]
  /\ run \in [Workers -> RunIds \cup {None}]
  /\ plan \in [Workers -> Plans \cup {None}]
  /\ index \in [Workers -> 0 .. MaxSteps]
  /\ previous \in [Workers -> SUBSET (Names \X Outputs)]
  /\ result \in [Workers -> Answers \cup Verdicts \cup {None}]
  /\ faults \in 0 .. MaxFaults

Init ==
  /\ StoreInit
  /\ holder = [k \in Keys |-> None]
  /\ lapsed = {}
  /\ charges = {}
  /\ pc = [w \in Workers |-> "idle"]
  /\ run = [w \in Workers |-> None]
  /\ plan = [w \in Workers |-> None]
  /\ index = [w \in Workers |-> 0]
  /\ previous = [w \in Workers |-> {}]
  /\ result = [w \in Workers |-> None]
  /\ faults = 0

-----------------------------------------------------------------------------
(* Control. *)

Goto(w, label) ==
  /\ pc' = [pc EXCEPT ![w] = label]
  /\ UNCHANGED localVars

(* The call is over, by return, by exception or with its process. *)
Leave(w) ==
  /\ pc' = [pc EXCEPT ![w] = "idle"]
  /\ run' = [run EXCEPT ![w] = None]
  /\ plan' = [plan EXCEPT ![w] = None]
  /\ index' = [index EXCEPT ![w] = 0]
  /\ previous' = [previous EXCEPT ![w] = {}]
  /\ result' = [result EXCEPT ![w] = None]

Fault ==
  /\ faults < MaxFaults
  /\ faults' = faults + 1

(* for index in range(state.next_index, len(plan.steps)) at index i *)
BrokenLoopAt(w, i) == IF i + 1 < Len(plan[w]) THEN "handler" ELSE "finish"
LoopAt(w, i)       == IF i < Len(plan[w]) THEN "handler" ELSE "finish"

StepName(w) == plan[w][index[w] + 1]

LockKey(w) == KeyOf[run[w]]

(* effect_token: a function of the run and the step, of nothing else. *)
BrokenTokenPerAttempt(w) == <<run[w], index[w], faults>>
EffectToken(w)           == <<run[w], index[w]>>

-----------------------------------------------------------------------------
(* submit: the INSERT that wins.  One that loses changes nothing here.      *)
Submit(r) ==
  /\ InsertRun(r)
  /\ UNCHANGED <<lockVars, charges, pc, localVars, faults>>

(* run first loads the run and returns at once when it is over.             *)
BrokenEligible(r) == status[r] # "absent"
Eligible(r)       == status[r] \in Active

(* _assert_plan_matches_history *)
BrokenPlanMatches(r, p) == \A row \in Rows(r) : row.index < Len(p)
PlanMatches(r, p) ==
  \A row \in Rows(r) : row.index < Len(p) /\ p[row.index + 1] = row.name

Adopt(w, r, p) ==
  /\ PlanMatches(r, p)
  /\ \E i \in 0 .. MaxSteps : IsNextIndex(r, i) /\ index' = [index EXCEPT ![w] = i]
  /\ run' = [run EXCEPT ![w] = r]
  /\ plan' = [plan EXCEPT ![w] = p]
  /\ previous' = [previous EXCEPT ![w] = PreviousOutputs(r)]
  /\ pc' = [pc EXCEPT ![w] = "acquire"]
  /\ UNCHANGED result

(* SQLiteStore.load reads both tables in one transaction.  A plan that does *)
(* not match raises PlanChanged, which changes nothing.                     *)
Load(w, r, p) ==
  /\ Backend = "sqlite"
  /\ pc[w] = "idle"
  /\ Eligible(r)
  /\ Adopt(w, r, p)
  /\ UNCHANGED <<storeVars, lockVars, charges, faults>>

(* PostgresStore.load runs in autocommit: its two SELECTs see two states.   *)
SelectRun(w, r, p) ==
  /\ Backend = "postgres"
  /\ pc[w] = "idle"
  /\ Eligible(r)
  /\ pc' = [pc EXCEPT ![w] = "hydrate"]
  /\ run' = [run EXCEPT ![w] = r]
  /\ plan' = [plan EXCEPT ![w] = p]
  /\ UNCHANGED <<storeVars, lockVars, charges, index, previous, result, faults>>

SelectSteps(w) ==
  /\ pc[w] = "hydrate"
  /\ Adopt(w, run[w], plan[w])
  /\ UNCHANGED <<storeVars, lockVars, charges, faults>>

PlanChanged(w) ==
  /\ pc[w] = "hydrate"
  /\ ~PlanMatches(run[w], plan[w])
  /\ Leave(w)
  /\ UNCHANGED <<storeVars, lockVars, charges, faults>>

-----------------------------------------------------------------------------
(* The run lock, as lock() of either backend.  Both try once.               *)
BrokenLockFree(k) == k \in Keys
LockFree(k)       == holder[k] = None \/ k \in lapsed

Acquire(w) ==
  /\ pc[w] = "acquire"
  /\ LockFree(LockKey(w))
  /\ holder' = [holder EXCEPT ![LockKey(w)] = w]
  /\ lapsed' = lapsed \ {LockKey(w)}
  /\ Goto(w, "start")
  /\ UNCHANGED <<storeVars, charges, faults>>

LockUnavailable(w) ==
  /\ pc[w] = "acquire"
  /\ ~LockFree(LockKey(w))
  /\ Leave(w)
  /\ UNCHANGED <<storeVars, lockVars, charges, faults>>

(* Release is scoped to the owner: DELETE ... WHERE lock_id = ? AND owner = ?, *)
(* or the unlock and the close of the session that holds the lock.             *)
BrokenUnlock(w, k) ==
  /\ holder' = [holder EXCEPT ![k] = None]
  /\ lapsed' = lapsed \ {k}

Unlock(w, k) ==
  /\ holder' = IF holder[k] = w THEN [holder EXCEPT ![k] = None] ELSE holder
  /\ lapsed' = IF holder[k] = w THEN lapsed \ {k} ELSE lapsed

Release(w) ==
  /\ pc[w] = "release"
  /\ Unlock(w, LockKey(w))
  /\ Leave(w)
  /\ UNCHANGED <<storeVars, charges, faults>>

(* The DELETE in the finally of a lease fails too; the row stays.  On       *)
(* Postgres the unlock is best effort and the close follows regardless.     *)
ReleaseFails(w) ==
  /\ Backend = "sqlite"
  /\ pc[w] = "release"
  /\ Fault
  /\ Leave(w)
  /\ UNCHANGED <<storeVars, lockVars, charges>>

(* the owner of k is a call still in progress *)
OwnerAtWork(k) ==
  \E w \in Workers : holder[k] = w /\ pc[w] \in HasLock /\ LockKey(w) = k

(* Nobody renews a lease: it expires whether or not its holder is done.     *)
BrokenLeaseLapses(k) ==
  /\ Backend = "sqlite" /\ OwnerAtWork(k) /\ k \notin lapsed
  /\ lapsed' = lapsed \cup {k}
  /\ UNCHANGED <<storeVars, holder, charges, pc, localVars, faults>>

LeaseLapses(k) ==
  /\ Backend = "sqlite"
  /\ holder[k] # None
  /\ LocksHold => ~OwnerAtWork(k)
  /\ k \notin lapsed
  /\ lapsed' = lapsed \cup {k}
  /\ UNCHANGED <<storeVars, holder, charges, pc, localVars, faults>>

(* A session lock goes with its connection, which the worker does not use   *)
(* for anything else and so does not miss.                                  *)
SessionLost(k) ==
  /\ Backend = "postgres"
  /\ ~LocksHold
  /\ holder[k] # None
  /\ k \notin lapsed
  /\ Fault
  /\ lapsed' = lapsed \cup {k}
  /\ UNCHANGED <<storeVars, holder, charges, pc, localVars>>

-----------------------------------------------------------------------------
(* Under the lock. *)

(* set_status(RUNNING), over whatever the status is by now. *)
BrokenStart(w) ==
  /\ pc[w] = "start" /\ Goto(w, LoopAt(w, index[w]))
  /\ UNCHANGED <<storeVars, lockVars, charges, faults>>

Start(w) ==
  /\ pc[w] = "start"
  /\ SetStatus(run[w], "running")
  /\ Goto(w, LoopAt(w, index[w]))
  /\ UNCHANGED <<lockVars, charges, faults>>

(* ... and the UPDATE the unique index refuses. *)
StartConflict(w) ==
  /\ pc[w] = "start"
  /\ ~IndexAllows(run[w])
  /\ Goto(w, "release")
  /\ UNCHANGED <<storeVars, lockVars, charges, faults>>

(* An external system acts on a token it has not seen. *)
Performed(token) == \E charge \in charges : charge.token = token

(* The handler hands its token to the external system. *)
PerformEffect(w) ==
  /\ pc[w] = "handler"
  /\ StepName(w) \in Effects
  /\ charges' = IF Performed(EffectToken(w)) THEN charges
                ELSE charges \cup {[token |-> EffectToken(w), name |-> StepName(w)]}
  /\ Goto(w, "performed")
  /\ UNCHANGED <<storeVars, lockVars, faults>>

BrokenHandlerDone(w) == pc[w] \in {"handler", "performed"}
HandlerDone(w) ==
  \/ pc[w] = "performed"
  \/ pc[w] = "handler" /\ StepName(w) \notin Effects

HandlerReturns(w) ==
  /\ HandlerDone(w)
  /\ \E answer \in Answers : result' = [result EXCEPT ![w] = answer]
  /\ pc' = [pc EXCEPT ![w] = "append"]
  /\ UNCHANGED <<storeVars, lockVars, charges, run, plan, index, previous, faults>>

(* An Escalation from ask, or any other Exception: a defect. *)
HandlerRaises(w) ==
  /\ pc[w] \in {"handler", "performed"}
  /\ \E verdict \in Verdicts : result' = [result EXCEPT ![w] = verdict]
  /\ pc' = [pc EXCEPT ![w] = "record_failure"]
  /\ UNCHANGED <<storeVars, lockVars, charges, run, plan, index, previous, faults>>

StepRecord(w, outcome, output) ==
  [run |-> run[w], index |-> index[w], name |-> StepName(w), outcome |-> outcome,
   output |-> Encoded(output), given |-> previous[w]]

(* previous[step.name] = output: the answer as the handler gave it.         *)
Remember(w, answer) ==
  {pair \in previous[w] : pair[1] # StepName(w)} \cup {<<StepName(w), answer>>}

MoveOn(w) ==
  /\ previous' = [previous EXCEPT ![w] = Remember(w, result[w])]
  /\ index' = [index EXCEPT ![w] = @ + 1]
  /\ result' = [result EXCEPT ![w] = None]
  /\ pc' = [pc EXCEPT ![w] = LoopAt(w, index[w] + 1)]
  /\ UNCHANGED <<run, plan>>

AppendRecord(w) ==
  /\ pc[w] = "append"
  /\ result[w] \notin Unstorable
  /\ InsertRecord(StepRecord(w, "ok", result[w]))
  /\ MoveOn(w)
  /\ UNCHANGED <<lockVars, charges, faults>>

(* The answer cannot be stored.  StepRecord or json.dumps raises, outside   *)
(* the try that would have marked the run failed.                           *)
AppendRefused(w) ==
  /\ pc[w] = "append"
  /\ result[w] \in Unstorable
  /\ Goto(w, "release")
  /\ UNCHANGED <<storeVars, lockVars, charges, faults>>

BrokenRecordFailure(w) ==
  /\ pc[w] = "record_failure" /\ Goto(w, "settle")
  /\ UNCHANGED <<storeVars, lockVars, charges, faults>>

RecordFailure(w) ==
  /\ pc[w] = "record_failure"
  /\ InsertRecord(StepRecord(w, "failed", ErrorOutput))
  /\ Goto(w, "settle")
  /\ UNCHANGED <<lockVars, charges, faults>>

BrokenSettle(w) ==
  /\ pc[w] = "settle" /\ Goto(w, "release")
  /\ UNCHANGED <<storeVars, lockVars, charges, faults>>

Settle(w) ==
  /\ pc[w] = "settle"
  /\ SetStatus(run[w], result[w])
  /\ Goto(w, "release")
  /\ UNCHANGED <<lockVars, charges, faults>>

Finish(w) ==
  /\ pc[w] = "finish"
  /\ SetStatus(run[w], "completed")
  /\ Goto(w, "release")
  /\ UNCHANGED <<lockVars, charges, faults>>

-----------------------------------------------------------------------------
(* Faults. *)

(* A store call raises: before the lock the call just ends, under it the    *)
(* lock is released and the run keeps the status it has.  A statement that  *)
(* took effect before its call raised is the same statement followed by     *)
(* this fault at the next one.                                              *)
StoreFails(w) ==
  /\ Fault
  /\ \/ pc[w] \in {"hydrate", "acquire"} /\ Leave(w)
     \/ pc[w] \in {"start", "append", "record_failure", "settle", "finish"} /\ Goto(w, "release")
  /\ UNCHANGED <<storeVars, lockVars, charges>>

(* SimulatedCrash or KeyboardInterrupt in a handler: nothing is recorded,   *)
(* but the stack unwinds through the lock.                                  *)
Interrupted(w) ==
  /\ Fault
  /\ pc[w] \in {"handler", "performed"}
  /\ Goto(w, "release")
  /\ UNCHANGED <<storeVars, lockVars, charges>>

(* The process is gone.  Its connections go with it, its lease does not.    *)
Die(w) ==
  /\ Fault
  /\ pc[w] # "idle"
  /\ Leave(w)
  /\ lapsed' = IF Backend = "postgres" /\ pc[w] \in HasLock /\ holder[LockKey(w)] = w
                THEN lapsed \cup {LockKey(w)} ELSE lapsed
  /\ UNCHANGED <<storeVars, holder, charges>>

-----------------------------------------------------------------------------
(* A caller runs, or runs again, a run it knows of. *)
Resume(r) ==
  \E w \in Workers, p \in Plans : Load(w, r, p) \/ SelectRun(w, r, p)

(* What a call in progress does next when nothing goes wrong. *)
CallStep(w) ==
  \/ SelectSteps(w) \/ PlanChanged(w)
  \/ Acquire(w) \/ LockUnavailable(w) \/ Start(w) \/ StartConflict(w)
  \/ PerformEffect(w) \/ HandlerReturns(w) \/ HandlerRaises(w)
  \/ AppendRecord(w) \/ AppendRefused(w) \/ RecordFailure(w) \/ Settle(w)
  \/ Finish(w) \/ Release(w)

CallFault(w) ==
  StoreFails(w) \/ Interrupted(w) \/ Die(w) \/ ReleaseFails(w)

Next ==
  \/ \E r \in RunIds : Submit(r) \/ Resume(r)
  \/ \E w \in Workers : CallStep(w) \/ CallFault(w)
  \/ \E k \in Keys : LeaseLapses(k) \/ SessionLost(k)

Spec == Init /\ [][Next]_vars

(* Handlers return or raise, so a call that lives goes on; time passes, so  *)
(* a lease lapses; and whoever wants a run done calls run until it is.      *)
Fairness ==
  /\ \A w \in Workers : WF_vars(CallStep(w))
  /\ \A k \in Keys : WF_vars(LeaseLapses(k))
  /\ \A r \in RunIds : WF_vars(Resume(r))

FairSpec == Spec /\ Fairness
=============================================================================
