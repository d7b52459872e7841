----------------------------- MODULE AskProofs -----------------------------
(***************************************************************************)
(* What ask promises, for any responses, any budgets and any number of     *)
(* questions.                                                              *)
(***************************************************************************)
EXTENDS HealingProofs

(* While a call is out, every rejection so far took a correction round and  *)
(* an attempt is left; what a question costs and when it is given up follow. *)
Counts ==
  /\ attempt \in Nat /\ budget \in Nat /\ rejected \in Nat
  /\ corrections \in 0 .. MAX_CORRECTION_ROUNDS /\ rejected <= MAX_CORRECTION_ROUNDS + 1
  /\ phase = "calling" => attempt < budget /\ rejected = corrections

CountsInv == Counts /\ EscalatedMeansExhausted

LEMMA CountsNext ==
  ASSUME CountsInv, [AskNext]_askVars
  PROVE  CountsInv'
<1> USE DEF CountsInv, Counts, EscalatedMeansExhausted, MAX_CORRECTION_ROUNDS
<1>1. ASSUME NEW b \in Budgets, BeginAsk(b)
      PROVE  CountsInv'
  BY <1>1, AskAssumptions DEF BeginAsk
<1>2. CASE TransientFailure
  BY <1>2 DEF TransientFailure, AfterAttempt
<1>3. CASE ProviderDefect
  BY <1>3 DEF ProviderDefect
<1>4. ASSUME NEW response \in Responses, Accepted(response)
      PROVE  CountsInv'
  BY <1>4 DEF Accepted
<1>5. ASSUME NEW response \in Responses, Corrected(response)
      PROVE  CountsInv'
  BY <1>5 DEF Corrected, AfterAttempt
<1>6. ASSUME NEW response \in Responses, RoundsExhausted(response)
      PROVE  CountsInv'
  BY <1>6 DEF RoundsExhausted
<1>7. CASE Swallow \/ HandlerReturns \/ HandlerRaises
  BY <1>7 DEF Swallow, HandlerReturns, HandlerRaises, Finished
<1>8. CASE UNCHANGED askVars
  BY <1>8 DEF askVars
<1>9. QED
  BY <1>1, <1>2, <1>3, <1>4, <1>5, <1>6, <1>7, <1>8 DEF AskNext, CallEnds

THEOREM CountsHold == AskSpec => []CountsInv
<1>1. AskInit => CountsInv
  BY DEF AskInit, CountsInv, Counts, EscalatedMeansExhausted, MAX_CORRECTION_ROUNDS
<1>2. CountsInv /\ [AskNext]_askVars => CountsInv'
  BY CountsNext
<1>3. QED
  BY <1>1, <1>2, PTL DEF AskSpec

(* Escalation means that the attempts or the correction rounds are spent.   *)
THEOREM EscalatedMeansExhaustedHolds == AskSpec => []EscalatedMeansExhausted
BY CountsHold, PTL DEF CountsInv

-----------------------------------------------------------------------------
(* was_healed and what happened agree all along. *)
HealedInv ==
  /\ healed \in BOOLEAN /\ repaired \in BOOLEAN
  /\ healed <=> repaired
  /\ phase # "over" => outcome = None
  /\ HealedMeansRepaired

LEMMA HealedNext ==
  ASSUME CountsInv, HealedInv, [AskNext]_askVars
  PROVE  HealedInv'
<1> USE DEF HealedInv, HealedMeansRepaired
<1>1. ASSUME NEW response \in Responses, Accepted(response)
      PROVE  HealedInv'
  <2>1. corrections > 0 <=> rejected > 0
    BY <1>1 DEF Accepted, CountsInv, Counts
  <2>2. healed' = (healed \/ rejected > 0) /\ repaired' = (repaired \/ rejected > 0)
    BY <1>1, <2>1 DEF Accepted
  <2>3. /\ healed' \in BOOLEAN /\ repaired' \in BOOLEAN
        /\ healed' <=> repaired'
    BY <2>2, Zenon
  <2>4. outcome' = None /\ outcome' \notin {"ok", "healed"}
    BY <1>1, AskAssumptions DEF Accepted
  <2>5. QED
    BY <1>1, <2>3, <2>4 DEF Accepted
<1>2. CASE HandlerReturns
  BY <1>2 DEF HandlerReturns, Finished
<1>3. CASE HandlerRaises
  BY <1>3 DEF HandlerRaises, Finished
<1>4. CASE UNCHANGED <<healed, repaired, outcome>> /\ (phase' # "over" => phase # "over")
  BY <1>4
<1>5. QED
  BY <1>1, <1>2, <1>3, <1>4 DEF AskNext, CallEnds, askVars, BeginAsk, TransientFailure,
     ProviderDefect, Corrected, RoundsExhausted, Swallow

(* A step is recorded as healed exactly if a question of it was answered    *)
(* after a rejection.                                                       *)
THEOREM HealedMeansRepairedHolds == AskSpec => []HealedMeansRepaired
<1>1. AskInit => HealedInv
  BY AskAssumptions DEF AskInit, HealedInv, HealedMeansRepaired
<1>2. CountsInv /\ HealedInv /\ [AskNext]_askVars => HealedInv'
  BY HealedNext
<1>3. HealedInv => HealedMeansRepaired
  BY DEF HealedInv
<1>4. QED
  BY <1>1, <1>2, <1>3, CountsHold, PTL DEF AskSpec

-----------------------------------------------------------------------------
(* What a response is read as. *)
LEMMA ResponsesAreRead ==
  ASSUME NEW response \in Responses
  PROVE  /\ response.text \in Texts /\ response.text \in Seq(Parts) /\ response.text # None
         /\ response.parsed = ParseOrFaults(response.text).parsed
         /\ response.faults = ParseOrFaults(response.text).faults
         /\ response.parsed \in Valid \cup {None}
         /\ response.parsed = None => response.faults \in Objects \cup {UNPARSEABLE}
<1>1. PICK text \in Texts : response = Read(text)
  BY DEF Responses
<1>2. /\ response.text = text
      /\ response.parsed = ParseOrFaults(text).parsed
      /\ response.faults = ParseOrFaults(text).faults
  BY <1>1 DEF Read
<1>3. text \in Seq(Parts) /\ text # None
  BY <1>1, AskAssumptions
<1>4. ParseOrFaults(text).parsed \in Valid \cup {None}
  BY <1>3, ReadingIsOfTheResponse
<1>5. ParseOrFaults(text).parsed = None =>
        ParseOrFaults(text).faults \in Objects \cup {UNPARSEABLE}
  BY <1>3, ReadingIsOfTheResponse
<1>6. QED
  BY <1>1, <1>2, <1>3, <1>4, <1>5

LEMMA PromptType ==
  ASSUME NEW text \in Seq(Parts), NEW faults \in Objects \cup {UNPARSEABLE}
  PROVE  LET prompt == BuildRetryPrompt(text, faults)
         IN /\ prompt.kind \in {"task", "format", "correction"}
            /\ prompt.answer = None \/ prompt.answer \in Seq(Parts)
            /\ prompt.faults \in Objects \cup {None}
BY DEF BuildRetryPrompt

LEMMA TypeNext ==
  ASSUME AskTypeOK, CountsInv, [AskNext]_askVars
  PROVE  AskTypeOK'
<1> USE DEF AskTypeOK, Phases, CountsInv, Counts, MAX_CORRECTION_ROUNDS
<1>1. ASSUME NEW b \in Budgets, BeginAsk(b)
      PROVE  AskTypeOK'
  <2>1. asks' \in 0 .. MaxAsks /\ b \in Nat
    BY <1>1, AskAssumptions DEF BeginAsk
  <2>2. QED
    BY <1>1, <2>1 DEF BeginAsk, Task
<1>2. CASE TransientFailure
  BY <1>2 DEF TransientFailure, AfterAttempt
<1>3. CASE ProviderDefect
  BY <1>3 DEF ProviderDefect
<1>4. ASSUME NEW response \in Responses, Accepted(response)
      PROVE  AskTypeOK'
  <2>1. response.text \in Seq(Parts) /\ response.parsed \in Valid \cup {None}
    BY ResponsesAreRead
  <2>2. attempt' \in 0 .. budget
    BY <1>4 DEF Accepted
  <2>3. healed' \in BOOLEAN /\ repaired' \in BOOLEAN
    BY <1>4, Zenon DEF Accepted
  <2>4. QED
    BY <1>4, <2>1, <2>2, <2>3 DEF Accepted
<1>5. ASSUME NEW response \in Responses, Corrected(response)
      PROVE  AskTypeOK'
  <2>1. response.text \in Seq(Parts) /\ response.faults \in Objects \cup {UNPARSEABLE}
    BY <1>5, ResponsesAreRead DEF Corrected
  <2>2. /\ current'.kind \in {"task", "format", "correction"}
        /\ current'.answer = None \/ current'.answer \in Seq(Parts)
        /\ current'.faults \in Objects \cup {None}
    BY <1>5, <2>1, PromptType DEF Corrected
  <2>3. /\ attempt' \in 0 .. budget /\ corrections' \in 0 .. 2 /\ rejected' \in 0 .. 3
        /\ phase' \in Phases
    BY <1>5 DEF Corrected, AfterAttempt
  <2>4. QED
    BY <1>5, <2>1, <2>2, <2>3 DEF Corrected
<1>6. ASSUME NEW response \in Responses, RoundsExhausted(response)
      PROVE  AskTypeOK'
  <2>1. response.text \in Seq(Parts)
    BY ResponsesAreRead
  <2>2. attempt' \in 0 .. budget /\ rejected' \in 0 .. 3
    BY <1>6 DEF RoundsExhausted
  <2>3. QED
    BY <1>6, <2>1, <2>2 DEF RoundsExhausted
<1>7. CASE Swallow
  BY <1>7 DEF Swallow
<1>8. CASE HandlerReturns
  BY <1>8 DEF HandlerReturns, Finished
<1>9. CASE HandlerRaises
  BY <1>9 DEF HandlerRaises, Finished
<1>10. CASE UNCHANGED askVars
  BY <1>10 DEF askVars
<1>11. QED
  BY <1>1, <1>2, <1>3, <1>4, <1>5, <1>6, <1>7, <1>8, <1>9, <1>10 DEF AskNext, CallEnds

(* Every variable has its type: the attempts stay within the budget, and    *)
(* what ask returns is an object the schema accepts (engine.py:88-161).     *)
THEOREM AskTypeCorrect == AskSpec => []AskTypeOK
<1>1. AskInit => AskTypeOK
  <2>1. SUFFICES ASSUME AskInit PROVE AskTypeOK
    OBVIOUS
  <2>2. /\ asks \in 0 .. MaxAsks /\ budget \in Budgets \cup {0} /\ attempt \in 0 .. budget
        /\ corrections \in 0 .. MAX_CORRECTION_ROUNDS
        /\ rejected \in 0 .. (MAX_CORRECTION_ROUNDS + 1)
    BY <2>1, AskAssumptions DEF AskInit, MAX_CORRECTION_ROUNDS
  <2>3. /\ current.kind \in {"task", "format", "correction"}
        /\ current.answer = None /\ current.faults = None
    BY <2>1 DEF AskInit, Task
  <2>4. /\ phase \in Phases /\ outcome \in {None, "ok", "healed", "failed"}
        /\ answer = None /\ result = None /\ healed \in BOOLEAN /\ repaired \in BOOLEAN
    BY <2>1 DEF AskInit, Phases
  <2>5. QED
    BY <2>2, <2>3, <2>4 DEF AskTypeOK
<1>2. AskTypeOK /\ CountsInv /\ [AskNext]_askVars => AskTypeOK'
  BY TypeNext
<1>3. QED
  BY <1>1, <1>2, CountsHold, PTL DEF AskSpec

-----------------------------------------------------------------------------
(* What is returned is what the last response reads as, and while a call is *)
(* out the prompt in hand is the one that response calls for, whatever      *)
(* failures came between.                                                   *)
PromptAfter(response) ==
  IF response = None THEN Task
  ELSE BuildRetryPrompt(response, ParseOrFaults(response).faults)

AnswerInv ==
  /\ answer # None => answer \in Texts /\ result = ParseOrFaults(answer).parsed
  /\ phase = "calling" => result = None /\ current = PromptAfter(answer)

LEMMA AnswerNext ==
  ASSUME AnswerInv, [AskNext]_askVars
  PROVE  AnswerInv'
<1> USE DEF AnswerInv
<1>1. ASSUME NEW b \in Budgets, BeginAsk(b)
      PROVE  AnswerInv'
  BY <1>1 DEF BeginAsk, PromptAfter
<1>2. ASSUME NEW response \in Responses, Accepted(response)
      PROVE  AnswerInv'
  BY <1>2, ResponsesAreRead DEF Accepted
<1>3. ASSUME NEW response \in Responses, Corrected(response)
      PROVE  AnswerInv'
  <2>1. answer' = response.text /\ answer' # None /\ answer' \in Texts
    BY <1>3, ResponsesAreRead DEF Corrected
  <2>2. result' = None /\ ParseOrFaults(answer').parsed = None
    BY <1>3, <2>1, ResponsesAreRead DEF Corrected
  <2>3. current' = PromptAfter(answer')
    BY <1>3, <2>1, ResponsesAreRead DEF Corrected, PromptAfter
  <2>4. QED
    BY <2>1, <2>2, <2>3
<1>4. ASSUME NEW response \in Responses, RoundsExhausted(response)
      PROVE  AnswerInv'
  BY <1>4, ResponsesAreRead DEF RoundsExhausted
<1>5. CASE UNCHANGED <<answer, result, current>> /\ (phase' = "calling" => phase = "calling")
  BY <1>5
<1>6. QED
  BY <1>1, <1>2, <1>3, <1>4, <1>5 DEF AskNext, CallEnds, askVars, TransientFailure,
     ProviderDefect, Swallow, HandlerReturns, HandlerRaises, Finished

THEOREM AnswersHold == AskSpec => []AnswerInv
<1>1. AskInit => AnswerInv
  BY DEF AskInit, AnswerInv
<1>2. AnswerInv /\ [AskNext]_askVars => AnswerInv'
  BY AnswerNext
<1>3. QED
  BY <1>1, <1>2, PTL DEF AskSpec

(* Where a text has a valid object it has a last one. *)
LEMMA LastValidExists ==
  ASSUME NEW text \in Seq(Parts), ValidAt(text) # {}
  PROVE  /\ Max(ValidAt(text)) \in ValidAt(text)
         /\ \A j \in ValidAt(text) : j <= Max(ValidAt(text))
<1>1. ValidAt(text) \subseteq Nat /\ Len(text) \in Nat /\ \A i \in ValidAt(text) : i <= Len(text)
  BY DEF ValidAt
<1>2. \E x \in ValidAt(text) : \A y \in ValidAt(text) : y <= x
  BY <1>1, GreatestNumber
<1>3. \E x \in ValidAt(text) : \A y \in ValidAt(text) : x >= y
  BY <1>1, <1>2
<1>4. /\ Max(ValidAt(text)) \in ValidAt(text)
      /\ \A y \in ValidAt(text) : Max(ValidAt(text)) >= y
  BY <1>3 DEF Max
<1>5. QED
  BY <1>1, <1>4

(* The last valid object is the answer, unless a stray mark stands ahead of *)
(* it.                                                                      *)
THEOREM AnswerIsFoundHolds == AskSpec => []AnswerIsFound
<1>1. AnswerInv => AnswerIsFound
  <2>1. SUFFICES ASSUME AnswerInv, answer # None, ValidAt(answer) # {},
                        Undisturbed(answer, Max(ValidAt(answer)))
                 PROVE  result = LastValid(answer)
    BY DEF AnswerIsFound
  <2>2. answer \in Seq(Parts) /\ result = ParseOrFaults(answer).parsed
    BY <2>1, AskAssumptions DEF AnswerInv
  <2>3. DEFINE i == Max(ValidAt(answer))
  <2>4. /\ i \in DOMAIN answer /\ answer[i].object \in Valid
        /\ \A j \in DOMAIN answer : answer[j].object \in Valid => j <= i
    BY <2>1, <2>2, LastValidExists DEF ValidAt
  <2>5. Undisturbed(answer, i)
    BY <2>1
  <2>6. ParseOrFaults(answer).parsed = answer[i].object
    <3> HIDE DEF i
    <3>1. QED
      BY <2>2, <2>4, <2>5, LastValidIsParsed
  <2>7. QED
    BY <2>2, <2>6 DEF LastValid
<1>2. QED
  BY <1>1, AnswersHold, PTL

(* The last valid object, in a fence of its own, is the answer if every     *)
(* other valid object stands behind an odd number of quotation marks.       *)
THEOREM FencedAnswerSurvivesHolds == AskSpec => []FencedAnswerSurvives
<1>1. AnswerInv => FencedAnswerSurvives
  <2> DEFINE i == Max(ValidAt(answer))
  <2>1. SUFFICES ASSUME AnswerInv, answer # None, ValidAt(answer) # {},
                        answer[i].kind = "fenced",
                        \A j \in ValidAt(answer) \ {i} : Hidden(answer, j)
                 PROVE  result = LastValid(answer)
    BY DEF FencedAnswerSurvives
  <2>2. answer \in Seq(Parts) /\ result = ParseOrFaults(answer).parsed
    BY <2>1, AskAssumptions DEF AnswerInv
  <2>3. /\ i \in DOMAIN answer /\ answer[i].object \in Valid
        /\ \A j \in DOMAIN answer : answer[j].object \in Valid => j <= i
    BY <2>1, <2>2, LastValidExists DEF ValidAt
  <2>4. \A j \in DOMAIN answer : answer[j].object \in Valid /\ j # i => Hidden(answer, j)
    BY <2>1 DEF ValidAt
  <2>5. ParseOrFaults(answer).parsed = answer[i].object
    <3> HIDE DEF i
    <3>1. QED
      BY <2>1, <2>2, <2>3, <2>4, LastFencedIsParsed
  <2>6. QED
    BY <2>2, <2>5 DEF LastValid
<1>2. QED
  BY <1>1, AnswersHold, PTL

(* A call repairs the last response: it quotes it, or asks for the format   *)
(* if there was nothing to read in it.                                      *)
THEOREM RetryFitsAnswerHolds == AskSpec => []RetryFitsAnswer
<1>1. AnswerInv => RetryFitsAnswer
  <2>1. SUFFICES ASSUME AnswerInv, phase = "calling", answer # None
                 PROVE  /\ current.kind = "correction" =>
                             /\ current.answer = answer
                             /\ \E i \in DOMAIN answer : IsObject(answer[i])
                        /\ current.kind # "correction" =>
                             \A i \in DOMAIN answer :
                               /\ answer[i].kind # "fenced"
                               /\ IsObject(answer[i]) => ~Undisturbed(answer, i)
    BY DEF RetryFitsAnswer, AnswerInv, PromptAfter
  <2>2. DEFINE faults == ParseOrFaults(answer).faults
  <2>3. /\ answer \in Seq(Parts) /\ ParseOrFaults(answer).parsed = None
        /\ current = BuildRetryPrompt(answer, faults)
    BY <2>1, AskAssumptions DEF AnswerInv, PromptAfter
  <2>4. /\ current.kind = "correction" => current.answer = answer
        /\ current.kind = "correction" <=> faults # UNPARSEABLE
    BY <2>3 DEF BuildRetryPrompt
  <2>5. faults # UNPARSEABLE <=> JsonCandidates(answer) # {}
    BY <2>3, ReadingIsOfTheResponse, HealingAssumptions
  <2>6. JsonCandidates(answer) # {} => \E i \in DOMAIN answer : IsObject(answer[i])
    <3>1. ASSUME NEW c \in JsonCandidates(answer)
          PROVE  c[2] \in DOMAIN answer /\ IsObject(answer[c[2]])
      BY <2>3, CandidatesAreObjects DEF Places
    <3>2. QED
      BY <3>1
  <2>7. ASSUME NEW i \in DOMAIN answer,
               answer[i].kind = "fenced" \/ (IsObject(answer[i]) /\ Undisturbed(answer, i))
        PROVE  JsonCandidates(answer) # {}
    <3>1. answer[i].kind = "fenced" => <<1, i>> \in JsonCandidates(answer)
      BY DEF JsonCandidates, Fenced
    <3>2. QED
      BY <2>3, <2>7, <3>1, UndisturbedIsRead
  <2>8. ASSUME current.kind # "correction", NEW i \in DOMAIN answer
        PROVE  answer[i].kind # "fenced" /\ (IsObject(answer[i]) => ~Undisturbed(answer, i))
    <3>1. JsonCandidates(answer) = {}
      BY <2>4, <2>5, <2>8
    <3>2. ~(answer[i].kind = "fenced" \/ (IsObject(answer[i]) /\ Undisturbed(answer, i)))
      BY <2>7, <3>1
    <3>3. QED
      BY <3>2, Zenon
  <2>9. QED
    BY <2>4, <2>5, <2>6, <2>8
<1>2. QED
  BY <1>1, AnswersHold, PTL

(* The faults of a correction are those of a refused object in the response *)
(* it quotes.                                                               *)
THEOREM FaultsFitAnswerHolds == AskSpec => []FaultsFitAnswer
<1>1. AnswerInv => FaultsFitAnswer
  <2>1. SUFFICES ASSUME AnswerInv, phase = "calling", current.kind = "correction"
                 PROVE  \E i \in DOMAIN current.answer :
                          /\ current.faults = current.answer[i].object
                          /\ current.faults \in Objects \ Valid
    BY DEF FaultsFitAnswer
  <2>2. answer # None
    BY <2>1 DEF AnswerInv, PromptAfter, Task
  <2>3. DEFINE faults == ParseOrFaults(answer).faults
  <2>4. /\ answer \in Seq(Parts) /\ ParseOrFaults(answer).parsed = None
        /\ current = BuildRetryPrompt(answer, faults)
    BY <2>1, <2>2, AskAssumptions DEF AnswerInv, PromptAfter
  <2>5. faults # UNPARSEABLE /\ current.answer = answer /\ current.faults = faults
    BY <2>1, <2>4 DEF BuildRetryPrompt
  <2>6. \E i \in DOMAIN answer : faults = answer[i].object /\ faults \in Objects \ Valid
    BY <2>4, <2>5, ReadingIsOfTheResponse
  <2>7. QED
    BY <2>5, <2>6
<1>2. QED
  BY <1>1, AnswersHold, PTL
=============================================================================
