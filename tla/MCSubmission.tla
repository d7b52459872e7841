---------------------------- MODULE MCSubmission ----------------------------
(***************************************************************************)
(* Two callers; three submissions of one key and one of another.           *)
(***************************************************************************)
EXTENDS Submission, TLC

CONSTANTS r1, r2, r3, r4, k1, k2, c1, c2, a1

TwoKeys == [r \in RunIds |-> IF r = r4 THEN k2 ELSE k1]
Same    == [a \in Answers |-> a]
Alike   == Permutations({r1, r2, r3}) \cup Permutations({c1, c2})
=============================================================================
