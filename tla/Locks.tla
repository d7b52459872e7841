------------------------------- MODULE Locks -------------------------------
(***************************************************************************)
(* lock() of either backend, from the inside: the lease of SQLiteStore     *)
(* with its clock, and the session lock of PostgresStore with its          *)
(* connection.  A call of lock() is one member of Calls; its uuid or its   *)
(* connection names it as the owner.  The body of the with statement is    *)
(* not seen here; it takes any time it likes.                              *)
(*                                                                         *)
(*   new -> waiting -> inside -> over                                      *)
(*                                                                         *)
(* The lease reads the clock first and then waits for the one writer       *)
(* SQLite has, up to the busy timeout; its transaction is one action.      *)
(* The clock of the hosts that share the file does not go back.            *)
(***************************************************************************)
EXTENDS Naturals

CONSTANTS
  LockIds,   \* advisory_lock_id of the keys; keys with one id share a lock
  Calls,
  Ttl,       \* of a lease
  MaxWait,   \* busy_timeout, from the reading of the clock to the commit
  None,
  MaxTime    \* bound on the clock

ASSUME LockAssumptions ==
  /\ Ttl \in Nat /\ MaxWait \in Nat /\ MaxTime \in Nat
  /\ MaxWait < Ttl
  /\ None \notin Calls

VARIABLES
  backend,   \* "sqlite" or "postgres"
  clock,
  owner,     \* per lock, who the row or the server names, or None
  expires,   \* per lock, the column expires_at
  sessions,  \* connections the server takes to be open
  pc, lock,  \* of each call: where it stands, and the lock it is for
  now,       \* of each call: the local now
  since      \* of each call: when it was granted the lock (history)

tables == <<owner, expires, sessions>>
vars   == <<backend, clock, tables, pc, lock, now, since>>

(* A call inside was granted the lock within the busy timeout of its now.   *)
LocksTypeOK ==
  /\ backend \in {"sqlite", "postgres"}
  /\ clock \in 0 .. MaxTime
  /\ owner \in [LockIds -> Calls \cup {None}]
  /\ expires \in [LockIds -> 0 .. MaxTime]
  /\ sessions \subseteq Calls
  /\ pc \in [Calls -> {"new", "waiting", "inside", "over"}]
  /\ lock \in [Calls -> LockIds]
  /\ now \in [Calls -> 0 .. MaxTime] /\ since \in [Calls -> 0 .. MaxTime]
  /\ \A c \in Calls : pc[c] = "inside" =>
       now[c] <= since[c] /\ since[c] <= now[c] + MaxWait /\ since[c] <= clock

Init ==
  /\ backend \in {"sqlite", "postgres"}
  /\ clock = 0
  /\ owner = [l \in LockIds |-> None]
  /\ expires = [l \in LockIds |-> 0]
  /\ sessions = {}
  /\ pc = [c \in Calls |-> "new"]
  /\ lock \in [Calls -> LockIds]
  /\ now = [c \in Calls |-> 0] /\ since = [c \in Calls |-> 0]

Goto(c, label) ==
  /\ pc' = [pc EXCEPT ![c] = label]
  /\ UNCHANGED <<backend, clock, lock>>

(* The locals go with the call. *)
End(c) ==
  /\ Goto(c, "over")
  /\ now' = [now EXCEPT ![c] = 0]
  /\ since' = [since EXCEPT ![c] = 0]

(* What DELETE ... WHERE expires_at <= now leaves, or pg_try_advisory_lock  *)
(* finds.                                                                   *)
BrokenAvailableUnconditional(l, t) == l \in LockIds
BrokenAvailableNoPurge(l, t)       == owner[l] = None

Available(l, t) ==
  \/ owner[l] = None
  \/ backend = "sqlite" /\ expires[l] <= t
  \/ backend = "postgres" /\ owner[l] \notin sessions

(* now = time.time(), or psycopg.connect. *)
Enter(c) ==
  /\ pc[c] = "new"
  /\ clock + Ttl <= MaxTime
  /\ now' = [now EXCEPT ![c] = clock]
  /\ sessions' = IF backend = "postgres" THEN sessions \cup {c} ELSE sessions
  /\ Goto(c, "waiting")
  /\ UNCHANGED <<owner, expires, since>>

InTime(c) == clock <= now[c] + MaxWait

BrokenTakeLease(c) ==
  /\ backend = "sqlite" /\ pc[c] = "waiting" /\ Available(lock[c], now[c])
  /\ owner' = [owner EXCEPT ![lock[c]] = c]
  /\ expires' = [expires EXCEPT ![lock[c]] = now[c] + Ttl]
  /\ since' = [since EXCEPT ![c] = clock] /\ Goto(c, "inside") /\ UNCHANGED <<sessions, now>>

(* The transaction, with the now of before it. *)
TakeLease(c) ==
  /\ backend = "sqlite"
  /\ pc[c] = "waiting"
  /\ InTime(c)
  /\ Available(lock[c], now[c])
  /\ owner' = [owner EXCEPT ![lock[c]] = c]
  /\ expires' = [expires EXCEPT ![lock[c]] = now[c] + Ttl]
  /\ since' = [since EXCEPT ![c] = clock]
  /\ Goto(c, "inside")
  /\ UNCHANGED <<sessions, now>>

LeaseRefused(c) ==
  /\ backend = "sqlite"
  /\ pc[c] = "waiting"
  /\ InTime(c)
  /\ ~Available(lock[c], now[c])
  /\ End(c)
  /\ UNCHANGED tables

TakeSession(c) ==
  /\ backend = "postgres"
  /\ pc[c] = "waiting"
  /\ c \in sessions
  /\ Available(lock[c], clock)
  /\ owner' = [owner EXCEPT ![lock[c]] = c]
  /\ since' = [since EXCEPT ![c] = clock]
  /\ Goto(c, "inside")
  /\ UNCHANGED <<expires, sessions, now>>

SessionRefused(c) ==
  /\ backend = "postgres"
  /\ pc[c] = "waiting"
  /\ c \in sessions
  /\ ~Available(lock[c], clock)
  /\ sessions' = sessions \ {c}
  /\ End(c)
  /\ UNCHANGED <<owner, expires>>

(* Only the lock of this owner is given back. *)
BrokenGivenBack(c) == [owner EXCEPT ![lock[c]] = None]
GivenBack(c) == IF owner[lock[c]] = c THEN [owner EXCEPT ![lock[c]] = None] ELSE owner

(* DELETE FROM locks WHERE lock_id = ? AND owner = ? *)
LeaveLease(c) ==
  /\ backend = "sqlite"
  /\ pc[c] = "inside"
  /\ owner' = GivenBack(c)
  /\ End(c)
  /\ UNCHANGED <<expires, sessions>>

(* pg_advisory_unlock, whose errors are dropped, and close. *)
LeaveSession(c) ==
  /\ backend = "postgres"
  /\ pc[c] = "inside"
  /\ owner' = GivenBack(c)
  /\ sessions' = sessions \ {c}
  /\ End(c)
  /\ UNCHANGED expires

(* The process dies, a statement fails, the busy timeout is over: what the  *)
(* tables hold stays.                                                       *)
Abandon(c) ==
  /\ pc[c] \in {"waiting", "inside"}
  /\ End(c)
  /\ UNCHANGED tables

(* The server drops a connection, or sees that the client is gone. *)
SessionEnds(c) ==
  /\ c \in sessions
  /\ sessions' = sessions \ {c}
  /\ UNCHANGED <<backend, clock, owner, expires, pc, lock, now, since>>

Tick ==
  /\ backend = "sqlite"
  /\ clock < MaxTime
  /\ clock' = clock + 1
  /\ UNCHANGED <<backend, tables, pc, lock, now, since>>

CallStep(c) ==
  \/ TakeLease(c) \/ LeaseRefused(c) \/ TakeSession(c) \/ SessionRefused(c)
  \/ LeaveLease(c) \/ LeaveSession(c)

Next ==
  \/ \E c \in Calls : Enter(c) \/ CallStep(c) \/ Abandon(c) \/ SessionEnds(c)
  \/ Tick

Spec == Init /\ [][Next]_vars

(* A call that is inside comes out, by its release or without it; time      *)
(* passes; a server notices a dead client.                                  *)
Fairness ==
  /\ \A c \in Calls : WF_vars(CallStep(c) \/ Abandon(c))
  /\ \A c \in Calls : WF_vars(pc[c] = "over" /\ SessionEnds(c))
  /\ WF_vars(Tick)

FairSpec == Spec /\ Fairness

-----------------------------------------------------------------------------
Lock == INSTANCE RunLock WITH
  Owners <- Calls,
  holder <- owner,
  lapsed <- {l \in LockIds : owner[l] # None /\ Available(l, clock)},
  inside <- {c \in Calls : pc[c] = "inside"}

(* Both backends are the lock the engine takes them for: never granted over *)
(* an owner that has not lost it, even by a caller whose clock reading is   *)
(* out of date, and given back by its owner alone (store.py:249, 260).      *)
ImplementsRunLock == Lock!Spec

(* A lease is good for its ttl less the busy timeout, whatever others do    *)
(* about the lock meanwhile: the clock it was granted by may be that old    *)
(* (store.py:246-255).  A session lock is good for its session              *)
(* (postgres.py:262).                                                       *)
LockLasts ==
  \A c \in Calls :
    /\ pc[c] = "inside"
    /\ backend = "sqlite" => clock + MaxWait < since[c] + Ttl
    /\ backend = "postgres" => c \in sessions
    => owner[lock[c]] = c /\ ~Available(lock[c], clock)

(* A lock is free again at last, though its owner died or its release       *)
(* failed: "no operator has to clear it by hand" (store.py:240).            *)
LockComesFree == \A l \in LockIds : owner[l] # None ~> Available(l, clock)
=============================================================================
