------------------------------- MODULE MCAsk -------------------------------
(***************************************************************************)
(* Small instances of Ask for TLC.                                         *)
(***************************************************************************)
EXTENDS AskProperties, SequencesExt

CONSTANTS example, verdict, draft

(* every response of two parts, and of three without drafts in which only   *)
(* the verdict has a fence                                                  *)
ShortTexts ==
  LET few == {part \in Parts : /\ part.object # draft
                               /\ part.kind = "fenced" => part.object = verdict}
  IN BoundedSeq(Parts, 2) \cup BoundedSeq(few, 3)
=============================================================================
