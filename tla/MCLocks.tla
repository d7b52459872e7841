------------------------------ MODULE MCLocks ------------------------------
(***************************************************************************)
(* Three calls of lock() for two locks: one whose lock lapses, one that    *)
(* succeeds it, one that comes after.                                      *)
(***************************************************************************)
EXTENDS Locks

CONSTANTS c1, c2, c3
=============================================================================
