------------------------------ MODULE Healing ------------------------------
(***************************************************************************)
(* Reading an answer out of a response (healing.py).  A response is a      *)
(* sequence of the parts the reader reacts to:                             *)
(*   bare, fenced   a JSON object, as such or alone in a ``` block         *)
(*   quote          a quotation mark outside any object, as in 6" pipe     *)
(*   open, close    a brace that belongs to no object, as in {placeholder} *)
(* Between two parts there is prose.  The strings of an object hold no     *)
(* brace and no backslash, and every object has a key, so its quotation    *)
(* marks come in pairs.                                                    *)
(***************************************************************************)
EXTENDS Naturals, Sequences

CONSTANTS
  Objects,      \* the JSON objects a model may write
  Valid,        \* those the schema accepts
  None

MAX_CORRECTION_ROUNDS == 2

(* the field a fault names when nothing could be read *)
UNPARSEABLE == "<response>"

ASSUME HealingAssumptions ==
  /\ Valid \subseteq Objects
  /\ None \notin Objects
  /\ UNPARSEABLE \notin Objects

Marks == {"quote", "open", "close"}
Parts == [kind : {"bare", "fenced"}, object : Objects] \cup [kind : Marks, object : {None}]

-----------------------------------------------------------------------------
(* json_candidates: where in the response each way of reading finds an      *)
(* object.                                                                  *)
IsObject(part) == part.kind \in {"bare", "fenced"}

Fenced(text) == {i \in DOMAIN text : text[i].kind = "fenced"}

(* text[text.find("{") : text.rfind("}") + 1], when that is one object *)
Widest(text) ==
  {i \in DOMAIN text :
     /\ IsObject(text[i])
     /\ \A j \in DOMAIN text : IsObject(text[j]) \/ text[j].kind = "open" => i <= j
     /\ \A j \in DOMAIN text : IsObject(text[j]) \/ text[j].kind = "close" => j <= i}

(* _balanced_objects reads one part.  A quotation mark opens or closes a    *)
(* string wherever it stands; inside a string the quotation marks of an     *)
(* object leave the scanner where it was, and the braces are not seen.      *)
Outside == [quoted |-> FALSE, depth |-> 0]

ScanPart(scan, part) ==
  IF part.kind = "quote" THEN [scan EXCEPT !.quoted = ~@]
  ELSE IF scan.quoted THEN scan
  ELSE [scan EXCEPT
          !.depth = CASE part.kind = "open"             -> @ + 1
                      [] part.kind = "close" /\ @ > 0 -> @ - 1
                      [] OTHER                          -> @]

(* the scanner behind each part *)
Scan(text) ==
  LET scan[i \in 0 .. Len(text)] ==
        IF i = 0 THEN Outside ELSE ScanPart(scan[i - 1], text[i])
  IN scan

BalancedObjects(text) ==
  LET scan == Scan(text)
  IN {i \in DOMAIN text : IsObject(text[i]) /\ scan[i - 1] = Outside}

Whole(text) == {i \in DOMAIN text : Len(text) = 1 /\ text[i].kind = "bare"}

(* A candidate is the way it was read and where it stands.  They are        *)
(* collected one way after the other, each from the front of the response.  *)
BrokenCandidatesUnfenced(text) ==
  ({2} \X Widest(text)) \cup ({3} \X BalancedObjects(text)) \cup ({4} \X Whole(text))

JsonCandidates(text) ==
  ({1} \X Fenced(text)) \cup ({2} \X Widest(text))
    \cup ({3} \X BalancedObjects(text)) \cup ({4} \X Whole(text))

InOrder(c, d) == c[1] < d[1] \/ (c[1] = d[1] /\ c[2] <= d[2])

Earliest(candidates) == CHOOSE c \in candidates : \A d \in candidates : InOrder(c, d)
Latest(candidates)   == CHOOSE c \in candidates : \A d \in candidates : InOrder(d, c)

-----------------------------------------------------------------------------
(* parse_or_faults: the last candidate that validates; failing that, the    *)
(* faults of the candidate tried last, which is the first.  Faults are      *)
(* known here by the object they were found in.                             *)
Accepts(text, candidates) == {c \in candidates : text[c[2]].object \in Valid}

BrokenParseFirst(text) ==
  LET candidates == JsonCandidates(text)
      accepted   == Accepts(text, candidates)
  IN IF candidates = {} THEN [parsed |-> None, faults |-> UNPARSEABLE]
     ELSE IF accepted # {} THEN [parsed |-> text[Earliest(accepted)[2]].object, faults |-> None]
     ELSE [parsed |-> None, faults |-> text[Earliest(candidates)[2]].object]

ParseOrFaults(text) ==
  LET candidates == JsonCandidates(text)
      accepted   == Accepts(text, candidates)
  IN IF candidates = {} THEN [parsed |-> None, faults |-> UNPARSEABLE]
     ELSE IF accepted # {} THEN [parsed |-> text[Latest(accepted)[2]].object, faults |-> None]
     ELSE [parsed |-> None, faults |-> text[Earliest(candidates)[2]].object]

-----------------------------------------------------------------------------
(* The prompts: the task, the task with a word about the format, or the     *)
(* last answer with its faults.                                             *)
Task == [kind |-> "task", answer |-> None, faults |-> None]

BrokenRetryPrompt(text, faults) ==
  IF faults = UNPARSEABLE
  THEN [kind |-> "format", answer |-> None, faults |-> None]
  ELSE [kind |-> "correction", answer |-> None, faults |-> faults]

BuildRetryPrompt(text, faults) ==
  IF faults = UNPARSEABLE
  THEN [kind |-> "format", answer |-> None, faults |-> None]
  ELSE [kind |-> "correction", answer |-> text, faults |-> faults]
=============================================================================
