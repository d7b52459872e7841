----------------------------- MODULE LocksProofs -----------------------------
(***************************************************************************)
(* Theorems about lock() of both backends, for any calls, locks, ttl and   *)
(* busy timeout.                                                           *)
(***************************************************************************)
EXTENDS Locks, TLAPS

(* An owner on record was granted that lock. *)
OwnersWereGranted ==
  \A l \in LockIds :
    owner[l] # None => lock[owner[l]] = l /\ pc[owner[l]] \in {"inside", "over"}

(* A call that waits has read a clock that has not passed the bound. *)
WaitersReadTheClock ==
  /\ backend = "postgres" => clock = 0
  /\ \A c \in Calls : pc[c] = "waiting" => now[c] <= clock /\ now[c] + Ttl <= MaxTime

(* A call inside owns its lock, until its lease or its session is over. *)
Standing(c) ==
  pc[c] = "inside" =>
    \/ owner[lock[c]] = c /\ (backend = "sqlite" => expires[lock[c]] = now[c] + Ttl)
    \/ backend = "sqlite" /\ now[c] + Ttl <= clock
    \/ backend = "postgres" /\ c \notin sessions

LInv ==
  /\ LocksTypeOK
  /\ OwnersWereGranted
  /\ WaitersReadTheClock
  /\ \A c \in Calls : Standing(c)

LEMMA LInvInit == Init => LInv
BY LockAssumptions DEF Init, LInv, LocksTypeOK, OwnersWereGranted, WaitersReadTheClock, Standing

(* What is left of a call that is over, and of the lock it gave back. *)
LEMMA EndKeepsInv ==
  ASSUME LInv, NEW c \in Calls, pc[c] \in {"waiting", "inside"}, End(c),
         owner' \in {owner, GivenBack(c)}, sessions' \in {sessions, sessions \ {c}},
         UNCHANGED expires
  PROVE  LInv'
<1> USE LockAssumptions DEF LInv, End, Goto, GivenBack
<1>1. \A l \in LockIds : owner'[l] = owner[l] \/ (l = lock[c] /\ owner[l] = c /\ owner'[l] = None)
  BY DEF LocksTypeOK
<1>2. LocksTypeOK'
  BY DEF LocksTypeOK
<1>3. OwnersWereGranted'
  BY <1>1 DEF OwnersWereGranted, LocksTypeOK
<1>4. WaitersReadTheClock'
  BY DEF WaitersReadTheClock, LocksTypeOK
<1>5. \A d \in Calls : Standing(d)'
  BY <1>1 DEF Standing, LocksTypeOK
<1>6. QED
  BY <1>2, <1>3, <1>4, <1>5

(* Whoever is granted a lock found it without an owner or over. *)
LEMMA TakeKeepsInv ==
  ASSUME LInv, NEW c \in Calls, TakeLease(c) \/ TakeSession(c)
  PROVE  LInv'
<1> USE LockAssumptions DEF LInv, Goto
<1>1. /\ pc[c] = "waiting" /\ pc' = [pc EXCEPT ![c] = "inside"]
      /\ owner' = [owner EXCEPT ![lock[c]] = c] /\ since' = [since EXCEPT ![c] = clock]
      /\ UNCHANGED <<backend, clock, lock, now, sessions>>
      /\ lock[c] \in LockIds /\ backend \in {"sqlite", "postgres"}
  BY DEF TakeLease, TakeSession, LocksTypeOK
<1>2. /\ now[c] \in Nat /\ clock \in Nat /\ now[c] <= clock /\ now[c] + Ttl <= MaxTime
      /\ clock <= now[c] + MaxWait
  BY <1>1 DEF TakeLease, TakeSession, InTime, WaitersReadTheClock, LocksTypeOK
<1>3. /\ expires' \in [LockIds -> 0 .. MaxTime]
      /\ \A l \in LockIds \ {lock[c]} : expires'[l] = expires[l]
      /\ backend = "sqlite" => expires'[lock[c]] = now[c] + Ttl
  BY <1>1, <1>2 DEF TakeLease, TakeSession, LocksTypeOK
<1>4. LocksTypeOK'
  <2>1. /\ owner' \in [LockIds -> Calls \cup {None}]
        /\ pc' \in [Calls -> {"new", "waiting", "inside", "over"}]
        /\ since' \in [Calls -> 0 .. MaxTime]
    BY <1>1 DEF LocksTypeOK
  <2>2. ASSUME NEW d \in Calls, pc'[d] = "inside"
        PROVE  now[d] <= since'[d] /\ since'[d] <= now[d] + MaxWait /\ since'[d] <= clock
    <3>1. CASE d = c
      BY <1>1, <1>2, <3>1 DEF LocksTypeOK
    <3>2. CASE d # c
      BY <1>1, <2>2, <3>2 DEF LocksTypeOK
    <3>3. QED
      BY <3>1, <3>2
  <2>3. QED
    BY <1>1, <1>3, <2>1, <2>2 DEF LocksTypeOK
<1>5. OwnersWereGranted'
  BY <1>1 DEF OwnersWereGranted, LocksTypeOK
<1>6. WaitersReadTheClock'
  BY <1>1 DEF WaitersReadTheClock, LocksTypeOK
<1>7. ASSUME NEW d \in Calls
      PROVE  Standing(d)'
  <2>1. CASE d = c
    <3>1. owner'[lock[c]] = c
      BY <1>1 DEF LocksTypeOK
    <3>2. lock' = lock /\ now' = now /\ backend' = backend
      BY <1>1
    <3>3. owner'[lock'[c]] = c /\ (backend' = "sqlite" => expires'[lock'[c]] = now'[c] + Ttl)
      BY <1>3, <3>1, <3>2, Zenon
    <3>4. QED
      BY <2>1, <3>3, Zenon DEF Standing
  <2>2. CASE d # c /\ lock[d] # lock[c]
    <3>1. lock[d] \in LockIds \ {lock[c]}
      BY <2>2 DEF LocksTypeOK
    <3>2. owner'[lock[d]] = owner[lock[d]] /\ pc'[d] = pc[d]
      BY <1>1, <2>2, <3>1 DEF LocksTypeOK
    <3>3. expires'[lock[d]] = expires[lock[d]]
      BY <1>3, <3>1
    <3>4. lock' = lock /\ now' = now /\ backend' = backend /\ clock' = clock /\ sessions' = sessions
      BY <1>1
    <3>5. Standing(d)
      OBVIOUS
    <3>6. QED
      BY <3>2, <3>3, <3>4, <3>5, Zenon DEF Standing
  <2>3. CASE d # c /\ lock[d] = lock[c] /\ pc[d] = "inside"
    <3>1. Standing(d)
      OBVIOUS
    <3>2. CASE owner[lock[d]] = d /\ (backend = "sqlite" => expires[lock[d]] = now[d] + Ttl)
      <4>1. backend = "sqlite" => now[d] + Ttl <= now[c]
        BY <2>3, <3>2 DEF TakeLease, TakeSession, Available
      <4>2. backend = "postgres" => d \notin sessions
        BY <2>3, <3>2 DEF TakeLease, TakeSession, Available
      <4>3. now[d] \in Nat
        BY DEF LocksTypeOK
      <4>4. QED
        BY <1>1, <1>2, <4>1, <4>2, <4>3 DEF Standing
    <3>3. QED
      BY <1>1, <2>3, <3>1, <3>2 DEF Standing
  <2>4. QED
    BY <1>1, <2>1, <2>2, <2>3 DEF Standing, LocksTypeOK
<1>8. QED
  BY <1>4, <1>5, <1>6, <1>7

LEMMA LInvNext == LInv /\ [Next]_vars => LInv'
<1> SUFFICES ASSUME LInv, [Next]_vars PROVE LInv'
  OBVIOUS
<1> USE LockAssumptions DEF LInv
<1>2. CASE UNCHANGED vars
  BY <1>2 DEF vars, tables, LocksTypeOK, OwnersWereGranted, WaitersReadTheClock, Standing
<1>3. ASSUME NEW c \in Calls, Enter(c)
      PROVE  LInv'
  <2>1. /\ pc[c] = "new" /\ pc' = [pc EXCEPT ![c] = "waiting"] /\ now' = [now EXCEPT ![c] = clock]
        /\ UNCHANGED <<backend, clock, lock, owner, expires, since>> /\ clock + Ttl <= MaxTime
        /\ sessions' \in {sessions, sessions \cup {c}}
    BY <1>3 DEF Enter, Goto
  <2>2. LocksTypeOK'
    BY <2>1 DEF LocksTypeOK
  <2>3. OwnersWereGranted'
    BY <2>1 DEF OwnersWereGranted, LocksTypeOK
  <2>4. WaitersReadTheClock'
    BY <2>1 DEF WaitersReadTheClock, LocksTypeOK
  <2>5. \A d \in Calls : Standing(d)'
    BY <2>1 DEF Standing, LocksTypeOK
  <2>6. QED
    BY <2>2, <2>3, <2>4, <2>5
<1>4. ASSUME NEW c \in Calls, \/ LeaseRefused(c) \/ SessionRefused(c) \/ LeaveLease(c)
                              \/ LeaveSession(c) \/ Abandon(c)
      PROVE  LInv'
  BY <1>4, EndKeepsInv DEF LeaseRefused, SessionRefused, LeaveLease, LeaveSession, Abandon, tables
<1>5. ASSUME NEW c \in Calls, TakeLease(c) \/ TakeSession(c)
      PROVE  LInv'
  BY <1>5, TakeKeepsInv
<1>6. ASSUME NEW c \in Calls, SessionEnds(c)
      PROVE  LInv'
  BY <1>6 DEF SessionEnds, LocksTypeOK, OwnersWereGranted, WaitersReadTheClock, Standing
<1>7. CASE Tick
  <2>1. /\ UNCHANGED <<backend, owner, expires, sessions, pc, lock, now, since>>
        /\ backend = "sqlite" /\ clock' = clock + 1 /\ clock < MaxTime
    BY <1>7 DEF Tick, tables
  <2>2. LocksTypeOK' /\ WaitersReadTheClock'
    BY <2>1 DEF LocksTypeOK, WaitersReadTheClock
  <2>3. OwnersWereGranted' /\ \A c \in Calls : Standing(c)'
    BY <2>1 DEF LocksTypeOK, OwnersWereGranted, Standing
  <2>4. QED
    BY <2>2, <2>3
<1>8. QED
  BY <1>2, <1>3, <1>4, <1>5, <1>6, <1>7 DEF Next, CallStep

(* Every variable keeps its type, and a grant comes within the busy timeout *)
(* of the clock reading it is based on.                                     *)
THEOREM LocksTypeCorrect == Spec => []LocksTypeOK
<1>1. LInv => LocksTypeOK
  BY DEF LInv
<1>2. QED
  BY <1>1, LInvInit, LInvNext, PTL DEF Spec

(* A lease lasts for its ttl less the busy timeout, a session lock as long  *)
(* as the session, whatever the other calls do.                             *)
THEOREM LockLastsHolds == Spec => []LockLasts
<1>1. ASSUME LInv PROVE LockLasts
  <2>1. SUFFICES ASSUME NEW c \in Calls, pc[c] = "inside",
                        backend = "sqlite" => clock + MaxWait < since[c] + Ttl,
                        backend = "postgres" => c \in sessions
                 PROVE  owner[lock[c]] = c /\ ~Available(lock[c], clock)
    BY DEF LockLasts
  <2>2. /\ now[c] \in Nat /\ since[c] \in Nat /\ clock \in Nat /\ since[c] <= now[c] + MaxWait
        /\ backend \in {"sqlite", "postgres"} /\ lock[c] \in LockIds
    BY <1>1, <2>1, LockAssumptions DEF LInv, LocksTypeOK
  <2>3. backend = "sqlite" => clock < now[c] + Ttl
    BY <2>1, <2>2, LockAssumptions
  <2>4. owner[lock[c]] = c /\ (backend = "sqlite" => expires[lock[c]] = now[c] + Ttl)
    BY <1>1, <2>1, <2>2, <2>3, LockAssumptions DEF LInv, Standing
  <2>5. QED
    BY <2>1, <2>2, <2>3, <2>4, LockAssumptions DEF Available
<1>2. QED
  BY <1>1, LInvInit, LInvNext, PTL DEF Spec

-----------------------------------------------------------------------------
(* Both backends implement the abstract lock.                               *)

Lapsed == {l \in LockIds : owner[l] # None /\ Available(l, clock)}
Within == {c \in Calls : pc[c] = "inside"}

LEMMA StepImplements ==
  ASSUME LInv, [Next]_vars
  PROVE  [Lock!Next]_(Lock!vars)
<1> USE LockAssumptions DEF LInv
<1>1. CASE UNCHANGED <<owner, Lapsed, Within>>
  BY <1>1 DEF Lock!vars, Lapsed, Within
<1>2. ASSUME NEW c \in Calls, TakeLease(c) \/ TakeSession(c)
      PROVE  Lock!Grant(lock[c], c) /\ lock[c] \in LockIds
  <2>1. /\ pc[c] = "waiting" /\ pc' = [pc EXCEPT ![c] = "inside"] /\ lock[c] \in LockIds
        /\ owner' = [owner EXCEPT ![lock[c]] = c]
        /\ UNCHANGED <<backend, clock, lock, now, sessions>> /\ backend \in {"sqlite", "postgres"}
    BY <1>2 DEF TakeLease, TakeSession, Goto, LocksTypeOK
  <2>2. now[c] \in Nat /\ clock \in Nat /\ now[c] <= clock
    BY <2>1 DEF WaitersReadTheClock, LocksTypeOK
  <2>3. c \notin Within /\ Within' = Within \cup {c}
    BY <2>1 DEF Within, LocksTypeOK
  <2>4. owner[lock[c]] = None \/ lock[c] \in Lapsed
    <3>1. CASE TakeLease(c)
      <4>1. expires[lock[c]] \in Nat
        BY <2>1 DEF LocksTypeOK
      <4>2. QED
        BY <2>1, <2>2, <3>1, <4>1 DEF TakeLease, Available, Lapsed
    <3>2. CASE TakeSession(c)
      BY <2>1, <3>2 DEF TakeSession, Available, Lapsed
    <3>3. QED
      BY <1>2, <3>1, <3>2
  <2>5. ~Available(lock[c], clock)'
    <3>1. CASE TakeLease(c)
      <4>1. expires'[lock[c]] = now[c] + Ttl /\ clock < now[c] + Ttl /\ backend = "sqlite"
        BY <2>1, <2>2, <3>1 DEF TakeLease, InTime, LocksTypeOK
      <4>2. QED
        BY <2>1, <2>2, <4>1 DEF Available, LocksTypeOK
    <3>2. CASE TakeSession(c)
      BY <2>1, <3>2 DEF TakeSession, Available, LocksTypeOK
    <3>3. QED
      BY <1>2, <3>1, <3>2
  <2>6. \A l \in LockIds \ {lock[c]} : owner'[l] = owner[l] /\ expires'[l] = expires[l]
    BY <1>2, <2>1 DEF TakeLease, TakeSession, LocksTypeOK
  <2>7. Lapsed' = Lapsed \ {lock[c]}
    BY <2>1, <2>5, <2>6 DEF Lapsed, Available
  <2>8. QED
    BY <2>1, <2>3, <2>4, <2>7 DEF Lock!Grant, Lapsed, Within
<1>3. ASSUME NEW c \in Calls, LeaveLease(c) \/ LeaveSession(c)
      PROVE  Lock!Leave(lock[c], c) /\ lock[c] \in LockIds
  <2>1. /\ pc[c] = "inside" /\ lock[c] \in LockIds /\ owner' = GivenBack(c) /\ End(c)
        /\ UNCHANGED expires /\ sessions' \in {sessions, sessions \ {c}}
        /\ backend = "sqlite" => sessions' = sessions
    BY <1>3 DEF LeaveLease, LeaveSession, LocksTypeOK
  <2>2. c \in Within /\ Within' = Within \ {c} /\ UNCHANGED <<backend, clock, lock>>
    BY <2>1 DEF Within, LocksTypeOK, End, Goto
  <2>3. \A l \in LockIds : owner[l] = c => l = lock[c]
    BY DEF OwnersWereGranted
  <2>4. CASE owner[lock[c]] = c
    <3>1. owner' = [owner EXCEPT ![lock[c]] = None] /\ owner'[lock[c]] = None
      BY <2>1, <2>4 DEF GivenBack, LocksTypeOK
    <3>2. \A l \in LockIds \ {lock[c]} : owner'[l] = owner[l] /\ owner[l] # c
      BY <2>3, <3>1 DEF LocksTypeOK
    <3>3. Lapsed' = Lapsed \ {lock[c]}
      BY <2>1, <2>2, <3>1, <3>2 DEF Lapsed, Available
    <3>4. QED
      BY <2>1, <2>2, <2>4, <3>1, <3>3 DEF Lock!Leave, Lapsed, Within
  <2>5. CASE owner[lock[c]] # c
    <3>1. owner' = owner /\ \A l \in LockIds : owner[l] # c
      BY <2>1, <2>3, <2>5 DEF GivenBack
    <3>2. Lapsed' = Lapsed
      BY <2>1, <2>2, <3>1 DEF Lapsed, Available
    <3>3. QED
      BY <2>1, <2>2, <3>1, <3>2 DEF Lock!Leave, Lapsed, Within
  <2>6. QED
    BY <2>4, <2>5
<1>4. ASSUME NEW c \in Calls, Abandon(c)
      PROVE  [Lock!Next]_(Lock!vars)
  <2>1. UNCHANGED <<owner, Lapsed>> /\ Within' = Within \ {c} /\ lock[c] \in LockIds
    BY <1>4 DEF Abandon, End, Goto, tables, Lapsed, Available, Within, LocksTypeOK
  <2>2. CASE c \in Within
    BY <2>1, <2>2 DEF Lock!Next, Lock!Leave, Lapsed, Within
  <2>3. CASE c \notin Within
    BY <1>1, <2>1, <2>3
  <2>4. QED
    BY <2>2, <2>3
(* a call that waits or is new owns nothing, so its connection is no matter *)
<1>5. ASSUME NEW c \in Calls, Enter(c) \/ LeaseRefused(c) \/ SessionRefused(c)
      PROVE  UNCHANGED <<owner, Lapsed, Within>>
  <2>1. /\ pc[c] \in {"new", "waiting"} /\ pc'[c] \in {"waiting", "over"}
        /\ \A d \in Calls \ {c} : pc'[d] = pc[d]
        /\ UNCHANGED <<owner, expires, backend, clock>>
        /\ \A d \in Calls \ {c} : d \in sessions' <=> d \in sessions
    BY <1>5 DEF Enter, LeaseRefused, SessionRefused, End, Goto, tables, LocksTypeOK
  <2>2. \A l \in LockIds : owner[l] # None => owner[l] \in Calls \ {c}
    BY <2>1 DEF OwnersWereGranted, LocksTypeOK
  <2>3. \A l \in LockIds : owner[l] # None => (Available(l, clock)' <=> Available(l, clock))
    BY <2>1, <2>2 DEF Available
  <2>4. Within' = Within
    BY <2>1 DEF Within
  <2>5. Lapsed' = Lapsed
    BY <2>1, <2>3 DEF Lapsed
  <2>6. QED
    BY <2>1, <2>4, <2>5
<1>6. ASSUME Tick \/ \E c \in Calls : SessionEnds(c)
      PROVE  Lock!Lapse
  <2>1. /\ UNCHANGED <<owner, expires, backend, pc>> /\ sessions' \subseteq sessions
        /\ clock \in Nat /\ clock' \in Nat /\ clock <= clock'
    BY <1>6 DEF Tick, SessionEnds, tables, LocksTypeOK
  <2>2. Lapsed \subseteq Lapsed' /\ Lapsed' \subseteq {l \in LockIds : owner[l] # None}
    BY <2>1 DEF Lapsed, Available, LocksTypeOK
  <2>3. QED
    BY <2>1, <2>2 DEF Lock!Lapse, Lapsed
<1>7. CASE UNCHANGED vars
  BY <1>1, <1>7 DEF vars, tables, Lapsed, Available, Within
<1>8. QED
  BY <1>1, <1>2, <1>3, <1>4, <1>5, <1>6, <1>7 DEF Next, CallStep, Lock!Next

(* The lease and the session lock are both the lock that the engine uses:   *)
(* never granted over an owner that has not lost it, and given back by its  *)
(* owner alone.                                                             *)
THEOREM LocksImplementRunLock == Spec => ImplementsRunLock
<1>1. Init => Lock!Init
  BY DEF Init, Lock!Init
<1>2. QED
  BY <1>1, LInvInit, LInvNext, StepImplements, PTL DEF Spec, ImplementsRunLock, Lock!Spec
=============================================================================
