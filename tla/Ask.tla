-------------------------------- MODULE Ask --------------------------------
(***************************************************************************)
(* A step handler and the model calls it makes through StepContext.ask     *)
(* (engine.py).  The handler asks as often as it likes, one question at a  *)
(* time; an ask that cannot be answered raises, and the handler lets the   *)
(* exception through or swallows it.  Waiting between attempts, token      *)
(* counts and wording are left out.                                        *)
(***************************************************************************)
EXTENDS Healing

CONSTANTS
  Texts,        \* the responses the provider may give
  Budgets,      \* values of max_attempts, of the step or of one call
  MaxAsks       \* bound on the questions of a handler

ASSUME AskAssumptions ==
  /\ Texts \subseteq Seq(Parts)
  /\ None \notin Texts \cup {"ok", "healed", "failed"}
  /\ Budgets \subseteq Nat
  /\ MaxAsks \in Nat

VARIABLES
  phase,        \* where the handler stands
  asks,         \* how many questions it has asked
  budget,       \* attempts allowed for the question
  attempt,      \* provider calls made for the question
  corrections,  \* correction rounds of the question
  current,      \* the prompt to send
  healed,       \* StepContext.was_healed
  outcome,      \* of the record the step leaves, or None
  answer,       \* history: the last response to the question, or None
  result,       \* history: what ask returned for it, or None
  rejected,     \* history: how many responses to the question were rejected
  repaired      \* history: a question was answered after a rejection

askVars == <<phase, asks, budget, attempt, corrections, current, healed, outcome,
             answer, result, rejected, repaired>>

Phases == {"handler", "calling", "escalated", "defect", "over"}

(* Every variable has the type its local has in the code.  A question is    *)
(* paid for no more than three rejected responses (healing.py:14-17).       *)
AskTypeOK ==
  /\ phase \in Phases
  /\ asks \in 0 .. MaxAsks
  /\ budget \in Budgets \cup {0}
  /\ attempt \in 0 .. budget
  /\ corrections \in 0 .. MAX_CORRECTION_ROUNDS
  /\ current.kind \in {"task", "format", "correction"}
  /\ current.answer = None \/ current.answer \in Seq(Parts)
  /\ current.faults \in Objects \cup {None}
  /\ healed \in BOOLEAN
  /\ outcome \in {None, "ok", "healed", "failed"}
  /\ answer = None \/ answer \in Seq(Parts)
  /\ result \in Valid \cup {None}
  /\ rejected \in 0 .. (MAX_CORRECTION_ROUNDS + 1)
  /\ repaired \in BOOLEAN

AskInit ==
  /\ phase = "handler"
  /\ asks = 0
  /\ budget = 0 /\ attempt = 0 /\ corrections = 0
  /\ current = Task
  /\ healed = FALSE
  /\ outcome = None
  /\ answer = None /\ result = None /\ rejected = 0 /\ repaired = FALSE

-----------------------------------------------------------------------------
(* The loop goes on while attempts are left; after it, ask escalates.       *)
BrokenAfterAttempt(n) == phase' = IF n <= budget THEN "calling" ELSE "escalated"
AfterAttempt(n)       == phase' = IF n < budget THEN "calling" ELSE "escalated"

BrokenBeginAsk(b) ==
  /\ phase = "handler"
  /\ asks < MaxAsks
  /\ asks' = asks + 1
  /\ budget' = b /\ attempt' = 0
  /\ answer' = None /\ result' = None /\ rejected' = 0
  /\ phase' = IF b > 0 THEN "calling" ELSE "escalated"
  /\ UNCHANGED <<corrections, current, healed, outcome, repaired>>

(* ask(prompt, schema, max_attempts) is called. *)
BeginAsk(b) ==
  /\ phase = "handler"
  /\ asks < MaxAsks
  /\ asks' = asks + 1
  /\ budget' = b /\ attempt' = 0 /\ corrections' = 0
  /\ current' = Task
  /\ answer' = None /\ result' = None /\ rejected' = 0
  /\ phase' = IF b > 0 THEN "calling" ELSE "escalated"
  /\ UNCHANGED <<healed, outcome, repaired>>

(* A timeout or a lost connection: the same prompt again, if any attempt is *)
(* left, and an escalation at the last one.                                 *)
TransientFailure ==
  /\ phase = "calling"
  /\ attempt' = attempt + 1
  /\ AfterAttempt(attempt + 1)
  /\ UNCHANGED <<asks, budget, corrections, current, healed, outcome, answer, result,
                 rejected, repaired>>

(* provider.complete raises anything else. *)
ProviderDefect ==
  /\ phase = "calling"
  /\ attempt' = attempt + 1
  /\ phase' = "defect"
  /\ UNCHANGED <<asks, budget, corrections, current, healed, outcome, answer, result,
                 rejected, repaired>>

(* A response as ask sees it: with what parse_or_faults makes of it.        *)
Read(text) ==
  LET reading == ParseOrFaults(text)
  IN [text |-> text, parsed |-> reading.parsed, faults |-> reading.faults]

Responses == {Read(text) : text \in Texts}

(* A response the schema accepts: ask returns it.                           *)
Accepted(response) ==
  /\ phase = "calling"
  /\ response.parsed # None
  /\ attempt' = attempt + 1
  /\ healed' = (healed \/ corrections > 0)
  /\ answer' = response.text /\ result' = response.parsed
  /\ repaired' = (repaired \/ rejected > 0)
  /\ phase' = "handler"
  /\ UNCHANGED <<asks, budget, corrections, current, outcome, rejected>>

BrokenCorrectedForever(response) ==
  /\ phase = "calling"
  /\ response.parsed = None
  /\ current' = BuildRetryPrompt(response.text, response.faults)
  /\ answer' = response.text
  /\ UNCHANGED <<phase, asks, budget, attempt, corrections, healed, outcome, result,
                 rejected, repaired>>

BrokenCorrectedOldFaults(response) ==
  /\ phase = "calling"
  /\ response.parsed = None
  /\ corrections < MAX_CORRECTION_ROUNDS
  /\ attempt' = attempt + 1
  /\ corrections' = corrections + 1
  /\ current' = BuildRetryPrompt(response.text,
                  IF current.faults = None THEN response.faults ELSE current.faults)
  /\ answer' = response.text /\ rejected' = rejected + 1
  /\ AfterAttempt(attempt + 1)
  /\ UNCHANGED <<asks, budget, healed, outcome, result, repaired>>

(* A response it refuses, with correction rounds left: the next prompt is   *)
(* made from it, even if no attempt is left to send that prompt.            *)
Corrected(response) ==
  /\ phase = "calling"
  /\ response.parsed = None
  /\ corrections < MAX_CORRECTION_ROUNDS
  /\ attempt' = attempt + 1
  /\ corrections' = corrections + 1
  /\ current' = BuildRetryPrompt(response.text, response.faults)
  /\ answer' = response.text /\ rejected' = rejected + 1
  /\ AfterAttempt(attempt + 1)
  /\ UNCHANGED <<asks, budget, healed, outcome, result, repaired>>

BrokenRoundsExhausted(response) ==
  /\ phase = "calling"
  /\ response.parsed = None
  /\ corrections + 1 >= MAX_CORRECTION_ROUNDS
  /\ attempt' = attempt + 1
  /\ answer' = response.text /\ rejected' = rejected + 1
  /\ phase' = "escalated"
  /\ UNCHANGED <<asks, budget, corrections, current, healed, outcome, result, repaired>>

RoundsExhausted(response) ==
  /\ phase = "calling"
  /\ response.parsed = None
  /\ corrections >= MAX_CORRECTION_ROUNDS
  /\ attempt' = attempt + 1
  /\ answer' = response.text /\ rejected' = rejected + 1
  /\ phase' = "escalated"
  /\ UNCHANGED <<asks, budget, corrections, current, healed, outcome, result, repaired>>

(* The handler goes on after an exception, as its code is free to do. *)
Swallow ==
  /\ phase \in {"escalated", "defect"}
  /\ phase' = "handler"
  /\ UNCHANGED <<asks, budget, attempt, corrections, current, healed, outcome, answer,
                 result, rejected, repaired>>

Finished(o) ==
  /\ phase' = "over"
  /\ outcome' = o
  /\ UNCHANGED <<asks, budget, attempt, corrections, current, healed, answer, result,
                 rejected, repaired>>

(* The handler returns: StepOutcome.HEALED if ctx.was_healed else OK. *)
HandlerReturns == phase = "handler" /\ Finished(IF healed THEN "healed" ELSE "ok")

(* An Escalation or another exception leaves the handler. *)
HandlerRaises == phase \in {"escalated", "defect"} /\ Finished("failed")

-----------------------------------------------------------------------------
(* What ends a provider call, which has a deadline. *)
CallEnds ==
  \/ TransientFailure \/ ProviderDefect
  \/ \E response \in Responses :
       Accepted(response) \/ Corrected(response) \/ RoundsExhausted(response)

AskNext ==
  \/ \E b \in Budgets : BeginAsk(b)
  \/ CallEnds
  \/ Swallow \/ HandlerReturns \/ HandlerRaises

AskSpec == AskInit /\ [][AskNext]_askVars

AskFairSpec == AskSpec /\ WF_askVars(CallEnds)
=============================================================================
