------------------------------ MODULE RunLock ------------------------------
(***************************************************************************)
(* What the engine takes a run lock to be.  A lock goes to a caller when   *)
(* it has no owner or has lapsed; it may lapse at any time, since nobody   *)
(* renews a lease and no session is for ever; a caller that leaves gives   *)
(* back its own lock, or none.  A lapsed owner does not know, so callers   *)
(* may be inside who own nothing.  Module Locks implements this by leases  *)
(* and by sessions, and module Engine is one of its users.                 *)
(***************************************************************************)
CONSTANTS LockIds, Owners, None

VARIABLES
  holder,   \* the owner on record of each lock, or None
  lapsed,   \* the locks whose owner has lost them
  inside    \* the callers that were granted a lock and have not left

vars == <<holder, lapsed, inside>>

Init ==
  /\ holder = [l \in LockIds |-> None]
  /\ lapsed = {}
  /\ inside = {}

Grant(l, o) ==
  /\ o \notin inside
  /\ holder[l] = None \/ l \in lapsed
  /\ holder' = [holder EXCEPT ![l] = o]
  /\ lapsed' = lapsed \ {l}
  /\ inside' = inside \cup {o}

(* o leaves: with the lock it still owns, or without it; if it dies, its    *)
(* lock may lapse by that.                                                  *)
Leave(l, o) ==
  /\ o \in inside
  /\ inside' = inside \ {o}
  /\ \/ holder[l] = o /\ holder' = [holder EXCEPT ![l] = None] /\ lapsed' = lapsed \ {l}
     \/ holder[l] = o /\ holder' = holder /\ lapsed' = lapsed \cup {l}
     \/ UNCHANGED <<holder, lapsed>>

(* Time may end several at once. *)
Lapse ==
  /\ lapsed \subseteq lapsed'
  /\ lapsed' \subseteq {l \in LockIds : holder[l] # None}
  /\ UNCHANGED <<holder, inside>>

Next ==
  \/ \E l \in LockIds, o \in Owners : Grant(l, o) \/ Leave(l, o)
  \/ Lapse

Spec == Init /\ [][Next]_vars
=============================================================================
