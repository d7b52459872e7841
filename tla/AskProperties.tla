--------------------------- MODULE AskProperties ---------------------------
(***************************************************************************)
(* What ask promises the handler and the run.  The first part is about     *)
(* reading a response and knows only where objects stand in it, not how    *)
(* candidates are collected.                                               *)
(***************************************************************************)
EXTENDS Ask, FiniteSetsExt

(* where the text has an object the schema accepts *)
ValidAt(text) == {i \in DOMAIN text : text[i].object \in Valid}

LastValid(text) == text[Max(ValidAt(text))].object

(* Ahead of place i stand objects, placeholders in braces of their own and  *)
(* closing braces, but no quotation mark and no brace left open.            *)
Undisturbed(text, i) ==
  \A j \in 1 .. (i - 1) :
    /\ text[j].kind # "quote"
    /\ text[j].kind = "open" => text[j + 1].kind = "close"

(* The last object that validates is the answer, fenced or not, unless a    *)
(* stray mark stands ahead of it; examples, placeholders and whatever       *)
(* follows it make no difference (healing.py:87-113, 196-200).              *)
AnswerIsFound ==
  answer # None /\ ValidAt(answer) # {} /\ Undisturbed(answer, Max(ValidAt(answer))) =>
    result = LastValid(answer)

(* An odd number of stray quotation marks stands ahead of place i: to the   *)
(* scanner it lies in a string.                                             *)
Hidden(text, i) == Cardinality({j \in 1 .. (i - 1) : text[j].kind = "quote"}) % 2 = 1

(* The fence is a second way to the answer: if the last valid object has a  *)
(* fence of its own, it is returned whatever marks stand around it, unless  *)
(* the scanner may see another valid object, one that no quotation mark     *)
(* hides (healing.py:54-84, 213-216).                                       *)
FencedAnswerSurvives ==
  answer # None /\ ValidAt(answer) # {} =>
    LET last == Max(ValidAt(answer))
    IN /\ answer[last].kind = "fenced"
       /\ \A j \in ValidAt(answer) \ {last} : Hidden(answer, j)
       => result = LastValid(answer)

(* The prompt in hand repairs the last response, even when calls have       *)
(* failed since: a correction quotes that response, and the task is sent    *)
(* again only if there was nothing to read in it (healing.py:168-190).      *)
RetryFitsAnswer ==
  phase = "calling" =>
    IF answer = None THEN current = Task
    ELSE /\ current.kind = "correction" =>
              current.answer = answer /\ \E i \in DOMAIN answer : IsObject(answer[i])
         /\ current.kind # "correction" =>
              \A i \in DOMAIN answer :
                /\ answer[i].kind # "fenced"
                /\ IsObject(answer[i]) => ~Undisturbed(answer, i)

(* The faults a correction lists are those of an object in the response it  *)
(* quotes, and of one that was refused: never those of an earlier response, *)
(* of an earlier question or of an object there is nothing wrong with       *)
(* (healing.py:129, 213-221).                                               *)
FaultsFitAnswer ==
  phase = "calling" /\ current.kind = "correction" =>
    \E i \in DOMAIN current.answer :
      current.faults = current.answer[i].object /\ current.faults \in Objects \ Valid

(* A valid object is the answer only if no other valid object follows it    *)
(* in the response.  The documentation says so of every response:           *)
(* healing.py:196-200.                                                      *)
LastValidWins == answer # None /\ result # None => result = LastValid(answer)

-----------------------------------------------------------------------------
(* Ask escalates only when the attempts or the correction rounds are spent  *)
(* (engine.py:62), and a defect of the provider never reads as escalation.  *)
EscalatedMeansExhausted ==
  phase = "escalated" => attempt = budget \/ rejected = MAX_CORRECTION_ROUNDS + 1

(* A step is recorded as healed exactly if one of its questions got its     *)
(* answer after a response that was refused: not for a question that was    *)
(* given up, nor for calls that merely failed (engine.py:126, 322).         *)
HealedMeansRepaired ==
  outcome \in {"ok", "healed"} => (outcome = "healed" <=> repaired)

(* Every question gets an answer or an exception (README I-4).              *)
AsksEnd == phase = "calling" ~> phase # "calling"
=============================================================================
