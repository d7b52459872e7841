-------------------------- MODULE EngineProperties --------------------------
(***************************************************************************)
(* What Engine.run promises, as properties of module Engine.  The first    *)
(* part holds for any number of workers, whatever happens to their locks;  *)
(* the second when one worker at a time runs, with every fault; the third  *)
(* collects claims of the documentation that the code does not keep, with  *)
(* the line that makes the claim.                                          *)
(***************************************************************************)
EXTENDS Engine

Over(r) == status[r] \in Terminal

(* w is executing run r under what it takes to be r's lock *)
Executing(w, r) == pc[w] \in HasLock /\ run[w] = r

(* an effect step at index i of plan p has acted under the token of (r, i) *)
ActedAt(r, p, i) == p[i + 1] \in Effects => Performed(<<r, i>>)

-----------------------------------------------------------------------------
(* Any number of workers. *)

(* At most one run of an idempotency key is pending or running, although a  *)
(* late worker may set a finished run to running (store.py:76, I-1).        *)
OneActiveRunPerKey ==
  \A r, s \in RunIds :
    status[r] \in Active /\ status[s] \in Active /\ KeyOf[r] = KeyOf[s] => r = s

(* The rows of a run are a prefix of its steps, one row a step: resume can  *)
(* derive its position from them (models.py:127).                           *)
History ==
  \A row \in records :
    /\ \A i \in 0 .. (row.index - 1) : Recorded(row.run, i)
    /\ \A other \in records :
         other.run = row.run /\ other.index = row.index => other = row

(* No effect happens before every step ahead of it has its checkpoint: the  *)
(* window between effect and checkpoint is one step wide (engine.py:322).   *)
EffectsFollowHistory ==
  \A charge \in charges :
    \A i \in 0 .. (charge.token[2] - 1) : Recorded(charge.token[1], i)

(* A successful checkpoint of an effect step means that the effect took     *)
(* place (engine.py:266 before 323).                                        *)
OkMeansActed ==
  \A row \in records :
    row.outcome = "ok" /\ row.name \in Effects => Performed(<<row.run, row.index>>)

(* A completed run has a row for each step of a plan it was run with, and   *)
(* every effect step of that plan has acted (engine.py:253-336).            *)
CompletedMeansDone ==
  \A r \in RunIds :
    status[r] = "completed" =>
      \E p \in Plans : \A i \in 0 .. (Len(p) - 1) : Recorded(r, i) /\ ActedAt(r, p, i)

(* A run that no worker has started has no rows, no effects and nobody past *)
(* the start: SetStatus(RUNNING) comes first (engine.py:249).               *)
NothingBeforeRunning ==
  \A r \in RunIds :
    status[r] \in {"absent", "pending"} =>
      /\ Rows(r) = {}
      /\ \A charge \in charges : charge.token[1] # r
      /\ \A w \in Workers : Executing(w, r) => pc[w] \in {"start", "release"}

(* With one plan, an effect of a run happens under one token however often  *)
(* its step is executed (models.py:140, tests/test_chaos.py).               *)
EffectUnderOneToken ==
  \A c, d \in charges : c.token[1] = d.token[1] /\ c.name = d.name => c.token = d.token

(* A checkpoint is never changed or removed, and a step that has one never  *)
(* gets another (store.py:207).                                             *)
CheckpointsAreImmutable ==
  [][/\ records \subseteq records'
     /\ \A new \in records' \ records : ~Recorded(new.run, new.index)]_vars

(* What the calls do with the lock of a key is what RunLock allows, and no  *)
(* more: they leave with their own lock or with none (store.py:257-263).    *)
Lock == INSTANCE RunLock WITH
  LockIds <- Keys, Owners <- Workers, inside <- {w \in Workers : pc[w] \in HasLock}

ImplementsRunLock == Lock!Spec

(* While no lease lapses and no session drops under a live call, calls for  *)
(* one key exclude each other, dead callers and all (store.py:231,          *)
(* postgres.py:252).                                                        *)
Exclusive ==
  LocksHold =>
    \A v, w \in Workers :
      pc[v] \in HasLock /\ pc[w] \in HasLock /\ LockKey(v) = LockKey(w) => v = w

-----------------------------------------------------------------------------
(* One worker at a time.                                                    *)

(* A run that is over stays as it is (models.py:36, README I-2: "state      *)
(* never goes backwards").                                                  *)
TerminalIsFinal == [][\A r \in RunIds : Over(r) => status'[r] = status[r]]_vars

(* A run that failed or escalated says why, in a record                     *)
(* (tests/test_chaos.py:8).                                                 *)
FailureIsOnRecord ==
  \A r \in RunIds :
    status[r] \in {"failed", "escalated"} =>
      \E row \in Rows(r) : row.outcome = "failed" /\ row.output = ErrorOutput

(* The rows of a run were all written under one plan (engine.py:178,        *)
(* ARCHITECTURE.md:77).                                                     *)
RowsFitOnePlan ==
  \A r \in RunIds : \E p \in Plans : \A row \in Rows(r) :
    row.index < Len(p) /\ p[row.index + 1] = row.name

(* Until a failure is on record, every step is computed from the recorded   *)
(* outputs of the steps before it, and of no others, up to what JSON makes  *)
(* of them: in the call that produced it an output is passed on as it was   *)
(* (engine.py:251, 334).                                                    *)
HistoryIsConsistent ==
  \A row \in records :
    (\A old \in Rows(row.run) : old.index < row.index => old.outcome # "failed") =>
      {<<pair[1], Encoded(pair[2])>> : pair \in {x \in row.given : x[1] # row.name}} =
        {<<old.name, old.output>> : old \in {x \in Rows(row.run) : x.index < row.index}}

(* No handler is called for a step that has a successful checkpoint         *)
(* (engine.py:15, "no repeated work after a crash").                        *)
NoRepeatedWork ==
  \A w \in Workers : pc[w] = "handler" => ~Succeeded(run[w], index[w])

(* With failures on record work is repeated, but only behind a step that    *)
(* failed: never one that comes before the first failure, however often the *)
(* run was interrupted (models.py:126-129, engine.py:299).                  *)
RepeatsFollowFailure ==
  \A w \in Workers :
    pc[w] = "handler" /\ Succeeded(run[w], index[w]) =>
      \E row \in Rows(run[w]) : row.index < index[w] /\ row.outcome = "failed"

-----------------------------------------------------------------------------
(* Progress, under FairSpec. *)

(* A call of run comes to an end, and whatever lock is still in the name of *)
(* its worker then has lapsed: a worker that dies or fails to release does  *)
(* not keep the run from the others (store.py:240-242, 249).                *)
CallsEnd ==
  \A w \in Workers :
    pc[w] # "idle" ~> pc[w] = "idle" /\ \A k \in Keys : holder[k] = w => k \in lapsed

(* A submitted run is over at last: no crash strands it (README I-4).       *)
RunsSettle == \A r \in RunIds : status[r] = "pending" ~> Over(r)

(* ... and then it stays over.                                              *)
RunsStaySettled == \A r \in RunIds : status[r] = "pending" ~> []Over(r)
=============================================================================
