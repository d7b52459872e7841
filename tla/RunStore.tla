------------------------------ MODULE RunStore ------------------------------
(***************************************************************************)
(* The two durable tables of the engine and the statements that touch      *)
(* them.  Both backends (store.py, postgres.py) run the same statements    *)
(* with the same outcome, each in a transaction of its own, so each is one *)
(* atomic update here.                                                     *)
(*                                                                         *)
(*   runs          status[r], "absent" until the INSERT; the key of a run  *)
(*                 is written once, at the INSERT, hence the constant      *)
(*                 KeyOf.  The column error is a function of the status    *)
(*                 (one UPDATE writes both) and is left out.               *)
(*   step_records  the set records.  Outcome "ok" stands for OK and        *)
(*                 HEALED, which no reader tells apart.  attempts and      *)
(*                 tokens_used never decide anything and are left out.     *)
(*                 The field given is history, not a column: the outputs   *)
(*                 of earlier steps the handler was called with.           *)
(*                                                                         *)
(* Operators named Broken... are not part of the specification.  Each is a *)
(* plausible bug in the definition after it, put in its place to see that  *)
(* a property notices.                                                     *)
(***************************************************************************)
EXTENDS Naturals, Sequences

CONSTANTS
  RunIds,       \* uuids the callers draw, each for one submission
  Keys,         \* idempotency keys
  KeyOf,        \* the key a run id is submitted under
  Names,        \* step names
  Answers,      \* what a handler may return
  Stored,       \* what an answer is once it went through JSON and back
  ErrorOutput,  \* the {"error": reason} a failure record carries
  MaxSteps      \* bound on the length of a plan

ASSUME StoreAssumptions ==
  /\ KeyOf \in [RunIds -> Keys]
  /\ Stored \in [Answers -> Answers]
  /\ \A a \in Answers : Stored[Stored[a]] = Stored[a]
  /\ MaxSteps \in Nat \ {0}

VARIABLES
  status,       \* runs.status, by run_id
  records       \* the rows of step_records

storeVars == <<status, records>>

Active   == {"pending", "running"}
Terminal == {"completed", "failed", "escalated"}
Statuses == Active \cup Terminal

Indices == 0 .. (MaxSteps - 1)
Outputs == Answers \cup {ErrorOutput}

(* json.dumps into the row and json.loads out of it: a tuple comes back as  *)
(* a list; what comes back stays as it is.                                  *)
Encoded(output) == IF output \in Answers THEN Stored[output] ELSE output

Row     == [run : RunIds, index : Indices, name : Names, outcome : {"ok", "failed"},
            output : Outputs, given : SUBSET (Names \X Outputs)]

StoreTypeOK ==
  /\ status \in [RunIds -> Statuses \cup {"absent"}]
  /\ records \subseteq Row

StoreInit ==
  /\ status = [r \in RunIds |-> "absent"]
  /\ records = {}

-----------------------------------------------------------------------------
(* What a SELECT sees. *)

Rows(r) == {row \in records : row.run = r}

Recorded(r, i) == \E row \in records : row.run = r /\ row.index = i

Succeeded(r, i) ==
  \E row \in records : row.run = r /\ row.index = i /\ row.outcome # "failed"

(* RunState.next_index, as a relation: the first index without a successful row. *)
BrokenNextIndexFromOne(r, i) == ~Succeeded(r, i) /\ \A j \in 1 .. (i - 1) : Succeeded(r, j)
BrokenNextIndexFirst(r, i)   == i = 0

IsNextIndex(r, i) == ~Succeeded(r, i) /\ \A j \in 0 .. (i - 1) : Succeeded(r, j)

(* {s.name: s.output for s in state.steps}.  The steps of a plan have        *)
(* distinct names, so the rows of a plan that matches do.                    *)
BrokenPreviousOutputs(r) == {}

PreviousOutputs(r) == {<<row.name, row.output>> : row \in Rows(r)}

-----------------------------------------------------------------------------
(* The writes. *)

(* uq_active_run lets r be active: no other run of its key is. *)
BrokenIndexPendingOnly(r) ==
  \A other \in RunIds \ {r} : KeyOf[other] = KeyOf[r] => status[other] # "pending"

IndexAllows(r) ==
  \A other \in RunIds \ {r} : KeyOf[other] = KeyOf[r] => status[other] \notin Active

InsertRun(r) ==
  /\ status[r] = "absent"
  /\ IndexAllows(r)
  /\ status' = [status EXCEPT ![r] = "pending"]
  /\ UNCHANGED records

(* UPDATE runs SET status: no condition on the status it replaces, but the  *)
(* unique index still applies to the new one.                               *)
SetStatus(r, s) ==
  /\ s \in Active => IndexAllows(r)
  /\ status' = [status EXCEPT ![r] = s]
  /\ UNCHANGED records

(* INSERT OR IGNORE / ON CONFLICT DO NOTHING: the first row of a step wins. *)
BrokenInsertOrReplace(row) ==
  /\ records' = {x \in records : x.run # row.run \/ x.index # row.index} \cup {row}
  /\ UNCHANGED status

BrokenInsertTwice(row) == records' = records \cup {row} /\ UNCHANGED status

InsertRecord(row) ==
  /\ records' = IF Recorded(row.run, row.index) THEN records ELSE records \cup {row}
  /\ UNCHANGED status
=============================================================================
