--------------------------- MODULE SubmissionProofs ---------------------------
(***************************************************************************)
(* Theorems about submit_or_attach, for any callers, keys and run ids.     *)
(***************************************************************************)
EXTENDS Submission, TLAPS

(* What uq_active_run is for. *)
OneActive ==
  \A r, q \in RunIds :
    status[r] \in Active /\ status[q] \in Active /\ KeyOf[r] = KeyOf[q] => r = q

(* The locals of a call: it drew an id of its own, lost to a run of the     *)
(* same key, and found one that is not older.                               *)
CallInv(c) ==
  /\ pc[c] # "idle" => mine[c] \in RunIds
  /\ pc[c] = "accepted" => Inserted(mine[c])
  /\ pc[c] \in {"find", "load", "attached"} => lost[c] \in SameKey(mine[c])
  /\ pc[c] \in {"load", "attached"} =>
       found[c] \in SameKey(mine[c]) /\ created[lost[c]] <= created[found[c]]
  /\ pc[c] # "refused"
  /\ \A q \in before[c] : Inserted(q)

(* As long as the stamps are in order and nothing was reopened: a run that  *)
(* was over when a call began is over and older than the run it lost to,    *)
(* and the run of a key that is active is the last.                         *)
OrderInv ==
  inOrder =>
    /\ \A c \in Callers : \A q \in before[c] : status[q] \in Terminal
    /\ \A c \in Callers : pc[c] \in {"find", "load", "attached"} =>
         \A q \in before[c] \cap SameKey(mine[c]) : created[q] < created[lost[c]]
    /\ \A r \in RunIds : status[r] \in Active =>
         \A q \in SameKey(r) \ {r} : created[q] < created[r]

(* A key with rows has a newest one.  For a set of stamps this needs an     *)
(* induction; here each INSERT leaves a newest row if it finds one.         *)
HasNewest == \A r \in RunIds : SameKey(r) # {} => Newest(r) # {}

SInv == /\ SubmissionTypeOK /\ OneActive /\ (\A c \in Callers : CallInv(c)) /\ OrderInv
        /\ HasNewest

-----------------------------------------------------------------------------
LEMMA SInvInit == Init => SInv
BY SubmissionAssumptions, StoreAssumptions
   DEF Init, StoreInit, SInv, SubmissionTypeOK, StoreTypeOK, OneActive, CallInv, OrderInv, HasNewest, SameKey,
       InCall, Ended, Inserted, Active, Statuses, Terminal

(* Steps of callers that leave the tables alone. *)
LEMMA CallerKeepsInv ==
  ASSUME SInv, NEW c \in Callers,
         \/ \E r \in RunIds : Begin(c, r)
         \/ InsertLoses(c) \/ Find(c) \/ Attach(c) \/ Fail(c)
  PROVE  SInv'
<1> USE SubmissionAssumptions, StoreAssumptions
<1>1. /\ UNCHANGED <<status, records, clock, created, inOrder>>
      /\ \A d \in Callers \ {c} : /\ pc'[d] = pc[d] /\ mine'[d] = mine[d] /\ stamp'[d] = stamp[d]
                                /\ found'[d] = found[d] /\ lost'[d] = lost[d] /\ before'[d] = before[d]
  BY DEF SInv, SubmissionTypeOK, Begin, InsertLoses, Find, Attach, Fail, storeVars, locals, Goto
<1>2. SubmissionTypeOK'
  <2>1. CASE \E r \in RunIds : Begin(c, r)
    <3>1. PICK r \in RunIds : Begin(c, r)
      BY <2>1
    <3>2. ~Inserted(r) /\ \A d \in Callers : mine[d] # r
      BY <3>1 DEF Begin, Fresh
    <3>3. /\ pc' = [pc EXCEPT ![c] = "insert"] /\ mine' = [mine EXCEPT ![c] = r]
          /\ stamp' = [stamp EXCEPT ![c] = clock] /\ found' = [found EXCEPT ![c] = None]
          /\ lost' = [lost EXCEPT ![c] = None]
          /\ before' = [before EXCEPT ![c] = {q \in RunIds : status[q] \in Terminal}]
      BY <3>1 DEF Begin, Goto
    <3>4. ASSUME NEW d \in Callers, NEW e \in Callers, pc'[d] = "insert"
          PROVE  status[mine'[d]] = "absent" /\ (d # e => mine'[e] # mine'[d])
      BY <1>1, <3>2, <3>3, <3>4 DEF SInv, SubmissionTypeOK, Inserted
    <3>5. /\ pc' \in [Callers -> InCall \cup Ended] /\ mine' \in [Callers -> RunIds \cup {None}]
          /\ stamp' \in [Callers -> 0 .. MaxTime] /\ before' \in [Callers -> SUBSET RunIds]
          /\ found' \in [Callers -> RunIds \cup {None}] /\ lost' \in [Callers -> RunIds \cup {None}]
      <4>1. {q \in RunIds : status[q] \in Terminal} \in SUBSET RunIds
        OBVIOUS
      <4>2. QED
        BY <3>3, <4>1 DEF SInv, SubmissionTypeOK, InCall
    <3>6. QED
      BY <1>1, <3>4, <3>5 DEF SInv, SubmissionTypeOK, StoreTypeOK
  <2>2. CASE InsertLoses(c) \/ Find(c) \/ Attach(c) \/ Fail(c)
    <3>1. /\ mine' \in {mine, [mine EXCEPT ![c] = None]} /\ UNCHANGED <<stamp, before>>
          /\ pc' \in [Callers -> InCall \cup Ended] /\ pc'[c] # "insert"
          /\ found' \in [Callers -> RunIds \cup {None}] /\ lost' \in [Callers -> RunIds \cup {None}]
      BY <2>2 DEF SInv, SubmissionTypeOK, InsertLoses, Find, Attach, Fail, Goto, InCall, Ended,
                  locals, SameKey, Newest
    <3>2. mine' \in [Callers -> RunIds \cup {None}]
      BY <3>1 DEF SInv, SubmissionTypeOK
    <3>3. ASSUME NEW d \in Callers, NEW e \in Callers, pc'[d] = "insert"
          PROVE  status[mine'[d]] = "absent" /\ (d # e => mine'[e] # mine'[d])
      <4>1. d # c /\ pc[d] = "insert" /\ mine[d] \in RunIds
        BY <1>1, <3>1, <3>3 DEF SInv, CallInv
      <4>2. mine'[d] = mine[d] /\ mine'[e] \in {mine[e], None}
        BY <1>1, <3>1, <4>1 DEF SInv, SubmissionTypeOK
      <4>3. QED
        BY <4>1, <4>2 DEF SInv, SubmissionTypeOK
    <3>4. QED
      BY <1>1, <3>1, <3>2, <3>3 DEF SInv, SubmissionTypeOK, StoreTypeOK
  <2>3. QED
    BY <2>1, <2>2
<1>3. OneActive'
  BY <1>1 DEF SInv, OneActive
<1>4. ASSUME NEW d \in Callers
      PROVE  CallInv(d)'
  <2>1. CASE d # c
    BY <1>1, <2>1 DEF SInv, CallInv, Inserted, SameKey
  <2>2. CASE d = c /\ \E r \in RunIds : Begin(c, r)
    BY <1>1, <2>2 DEF SInv, SubmissionTypeOK, CallInv, Begin, Goto, Inserted, Terminal
  <2>3. CASE d = c /\ InsertLoses(c)
    BY <1>1, <2>3 DEF SInv, SubmissionTypeOK, CallInv, InsertLoses, Goto, Inserted, SameKey
  <2>4. CASE d = c /\ Find(c)
    <3>1. PICK q \in Newest(mine[c]) : found' = [found EXCEPT ![c] = q] /\ pc' = [pc EXCEPT ![c] = "load"]
      <4>1. lost[c] \in SameKey(mine[c]) /\ mine[c] \in RunIds
        BY <2>4 DEF SInv, CallInv, Find
      <4>2. Newest(mine[c]) # {}
        BY <4>1 DEF SInv, HasNewest
      <4>3. None \notin Newest(mine[c])
        BY DEF Newest, SameKey
      <4>4. QED
        BY <2>4, <4>2, <4>3 DEF Find, Goto
    <3>2. UNCHANGED <<mine, lost, before>>
      BY <2>4 DEF Find
    <3>3. QED
      BY <1>1, <2>4, <3>1, <3>2 DEF SInv, SubmissionTypeOK, CallInv, Find, Newest, Inserted, SameKey
  <2>5. CASE d = c /\ (Attach(c) \/ Fail(c))
    BY <1>1, <2>5 DEF SInv, SubmissionTypeOK, CallInv, Attach, Fail, Goto, locals, Inserted, SameKey
  <2>6. QED
    BY <2>1, <2>2, <2>3, <2>4, <2>5
<1>5. OrderInv'
  <2>1. SUFFICES ASSUME inOrder, inOrder' PROVE OrderInv'
    BY <1>1 DEF OrderInv
  <2>2. ASSUME NEW d \in Callers, NEW q \in before'[d]
        PROVE  status'[q] \in Terminal
    BY <1>1, <2>1, <2>2 DEF SInv, OrderInv, SubmissionTypeOK, Begin, InsertLoses, Find, Attach, Fail, locals
  <2>3. ASSUME NEW d \in Callers, pc'[d] \in {"find", "load", "attached"}
        PROVE  \A q \in before'[d] \cap SameKey(mine[d])' : created'[q] < created'[lost'[d]]
    <3>1. CASE d # c
      BY <1>1, <2>1, <2>3, <3>1 DEF SInv, OrderInv, SameKey, Inserted
    <3>2. CASE d = c /\ InsertLoses(c)
      <4>1. PICK q \in SameKey(mine[c]) : status[q] \in Active /\ lost' = [lost EXCEPT ![c] = q]
        BY <3>2 DEF InsertLoses
      <4>2. mine[c] \in RunIds /\ lost'[c] = q /\ mine' = mine /\ before' = before
        BY <3>2, <4>1 DEF InsertLoses, SInv, CallInv, SubmissionTypeOK
      <4>3. \A p \in before[c] : status[p] \in Terminal /\ p # q
        BY <2>1, <4>1 DEF SInv, OrderInv, Active, Terminal
      <4>4. \A p \in SameKey(q) \ {q} : created[p] < created[q]
        BY <2>1, <4>1 DEF SInv, OrderInv, SameKey
      <4>5. SameKey(mine[c]) = SameKey(q)
        BY <4>1, <4>2 DEF SameKey
      <4>6. QED
        BY <1>1, <3>2, <4>2, <4>3, <4>4, <4>5 DEF SameKey, Inserted
    <3>3. CASE d = c /\ (Find(c) \/ Attach(c))
      BY <1>1, <2>1, <2>3, <3>3 DEF SInv, OrderInv, Find, Attach, Goto, locals, SameKey, Inserted
    <3>4. CASE d = c /\ ((\E r \in RunIds : Begin(c, r)) \/ Fail(c))
      BY <2>3, <3>4 DEF SInv, SubmissionTypeOK, Begin, Fail, Goto
    <3>5. QED
      BY <3>1, <3>2, <3>3, <3>4
  <2>4. \A r \in RunIds : status'[r] \in Active =>
          \A q \in SameKey(r)' \ {r} : created'[q] < created'[r]
    BY <1>1, <2>1 DEF SInv, OrderInv, SameKey, Inserted
  <2>5. QED
    BY <2>2, <2>3, <2>4 DEF OrderInv
<1>6. HasNewest'
  BY <1>1 DEF SInv, HasNewest, Newest, SameKey, Inserted
<1>7. QED
  BY <1>2, <1>3, <1>4, <1>5, <1>6 DEF SInv

(* The row goes in: pending, alone of its key, and stamped.                 *)
LEMMA InsertKeepsInv ==
  ASSUME SInv, NEW c \in Callers, InsertWins(c)
  PROVE  SInv'
<1> USE SubmissionAssumptions, StoreAssumptions
<1> DEFINE r == mine[c]
<1>1. /\ pc[c] = "insert" /\ r \in RunIds /\ status[r] = "absent" /\ IndexAllows(r)
      /\ status' = [status EXCEPT ![r] = "pending"] /\ pc' = [pc EXCEPT ![c] = "accepted"]
      /\ UNCHANGED <<records, clock, mine, stamp, found, lost, before>>
  BY DEF InsertWins, InsertRun, Goto, locals, SInv, CallInv
<1>2. PICK t \in stamp[c] .. clock :
        /\ created' = [created EXCEPT ![r] = t]
        /\ inOrder' = (inOrder /\ \A q \in SameKey(r) : created[q] < t)
  BY DEF InsertWins
<1>3. t \in 0 .. MaxTime
  BY DEF SInv, SubmissionTypeOK
<1>4. \A q \in RunIds \ {r} : status'[q] = status[q] /\ created'[q] = created[q]
  BY <1>1, <1>2 DEF SInv, SubmissionTypeOK, StoreTypeOK
<1>5. status'[r] = "pending" /\ created'[r] = t
  BY <1>1, <1>2 DEF SInv, SubmissionTypeOK, StoreTypeOK
<1>6. SubmissionTypeOK'
  <2>1. /\ status' \in [RunIds -> Statuses \cup {"absent"}] /\ created' \in [RunIds -> 0 .. MaxTime]
        /\ pc' \in [Callers -> InCall \cup Ended] /\ inOrder' \in BOOLEAN
    BY <1>1, <1>2, <1>3 DEF SInv, SubmissionTypeOK, StoreTypeOK, Statuses, Active, Ended
  <2>2. ASSUME NEW d \in Callers, NEW e \in Callers, pc'[d] = "insert"
        PROVE  status'[mine[d]] = "absent" /\ (d # e => mine[e] # mine[d])
    BY <1>1, <1>4, <2>2 DEF SInv, SubmissionTypeOK, CallInv
  <2>3. QED
    BY <1>1, <2>1, <2>2 DEF SInv, SubmissionTypeOK, StoreTypeOK
<1>7. OneActive'
  BY <1>1, <1>4, <1>5 DEF SInv, OneActive, IndexAllows
<1>8. ASSUME NEW d \in Callers
      PROVE  CallInv(d)'
  <2>1. \A q \in RunIds : Inserted(q) => q # r /\ Inserted(q)' /\ created'[q] = created[q]
    BY <1>1, <1>4 DEF Inserted
  <2>2. CASE d # c
    BY <1>1, <2>1, <2>2 DEF SInv, SubmissionTypeOK, CallInv, SameKey
  <2>3. CASE d = c
    BY <1>1, <1>5, <2>1, <2>3 DEF SInv, SubmissionTypeOK, CallInv, SameKey, Inserted
  <2>4. QED
    BY <2>2, <2>3
<1>9. OrderInv'
  <2>1. SUFFICES ASSUME inOrder, \A q \in SameKey(r) : created[q] < t PROVE OrderInv'
    BY <1>2 DEF OrderInv
  <2>2. \A d \in Callers : \A q \in before[d] : q \in RunIds \ {r}
    BY <1>1 DEF SInv, SubmissionTypeOK, CallInv, Inserted
  <2>3. \A d \in Callers : \A q \in before[d] : status'[q] \in Terminal
    BY <1>4, <2>1, <2>2 DEF SInv, OrderInv
  <2>4. ASSUME NEW d \in Callers, pc'[d] \in {"find", "load", "attached"},
               NEW q \in before[d], q \in SameKey(mine[d])'
        PROVE  created'[q] < created'[lost[d]]
    <3>1. pc[d] = pc'[d]
      BY <1>1, <2>4 DEF SInv, SubmissionTypeOK
    <3>2. lost[d] \in RunIds \ {r} /\ q \in SameKey(mine[d])
      BY <1>1, <1>4, <2>2, <2>4, <3>1 DEF SInv, CallInv, SameKey, Inserted
    <3>3. created[q] < created[lost[d]]
      BY <2>1, <2>4, <3>1, <3>2 DEF SInv, OrderInv
    <3>4. QED
      BY <1>4, <2>2, <3>2, <3>3
  <2>5. ASSUME NEW p \in RunIds, status'[p] \in Active, NEW q \in SameKey(p)', q # p
        PROVE  created'[q] < created'[p]
    <3>1. q \in RunIds /\ KeyOf[q] = KeyOf[p]
      BY <2>5 DEF SameKey
    <3>2. CASE p = r
      BY <1>1, <1>4, <1>5, <2>1, <2>5, <3>1, <3>2 DEF SameKey, Inserted
    <3>3. CASE p # r
      <4>1. status[p] \in Active /\ q # r
        BY <1>1, <1>4, <2>5, <3>1, <3>3 DEF IndexAllows
      <4>2. QED
        BY <1>4, <2>1, <2>5, <3>1, <3>3, <4>1 DEF SInv, OrderInv, SameKey, Inserted
    <3>4. QED
      BY <3>2, <3>3
  <2>6. QED
    BY <1>1, <2>3, <2>4, <2>5 DEF OrderInv
<1>10. ASSUME NEW p \in RunIds
       PROVE  SameKey(p)' # {} => Newest(p)' # {}
  <2>1. /\ \A q \in SameKey(p) : q \in SameKey(p)' /\ created'[q] = created[q] /\ created[q] \in Nat
        /\ \A q \in SameKey(p)' : q \in SameKey(p) \/ (q = r /\ KeyOf[p] = KeyOf[r])
        /\ KeyOf[p] = KeyOf[r] => r \in SameKey(p)'
    BY <1>1, <1>4, <1>5 DEF SInv, SubmissionTypeOK, SameKey, Inserted
  <2>2. CASE KeyOf[p] # KeyOf[r]
    <3>1. SameKey(p)' = SameKey(p)
      BY <2>1, <2>2
    <3>2. Newest(p)' = Newest(p)
      BY <2>1, <3>1 DEF Newest
    <3>3. QED
      BY <3>1, <3>2 DEF SInv, HasNewest
  <2>3. CASE KeyOf[p] = KeyOf[r] /\ SameKey(p) = {}
    <3>1. r \in Newest(p)'
      BY <1>3, <1>5, <2>1, <2>3 DEF Newest
    <3>2. QED
      BY <3>1
  <2>4. CASE KeyOf[p] = KeyOf[r] /\ SameKey(p) # {}
    <3>1. PICK n \in Newest(p) : TRUE
      BY <2>4 DEF SInv, HasNewest
    <3>2. n \in SameKey(p) /\ \A q \in SameKey(p) : created[q] <= created[n]
      BY <3>1 DEF Newest
    <3>3. CASE t <= created[n]
      <4>1. \A q \in SameKey(p)' : created'[q] <= created'[n]
        BY <1>5, <2>1, <3>2, <3>3
      <4>2. n \in Newest(p)'
        BY <2>1, <3>2, <4>1 DEF Newest
      <4>3. QED
        BY <4>2
    <3>4. CASE ~(t <= created[n])
      <4>1. \A q \in SameKey(p)' : created'[q] <= created'[r]
        BY <1>3, <1>5, <2>1, <3>2, <3>4
      <4>2. r \in Newest(p)'
        BY <2>1, <2>4, <4>1 DEF Newest
      <4>3. QED
        BY <4>2
    <3>5. QED
      BY <3>3, <3>4
  <2>5. QED
    BY <2>2, <2>3, <2>4
<1>11. QED
  BY <1>6, <1>7, <1>8, <1>9, <1>10 DEF SInv, HasNewest

LEMMA WorkerKeepsInv ==
  ASSUME SInv, NEW r \in RunIds, NEW s \in {"running", "completed"}, WorkerSets(r, s)
  PROVE  SInv'
<1> USE SubmissionAssumptions, StoreAssumptions
<1>1. /\ Inserted(r) /\ status' = [status EXCEPT ![r] = s] /\ (s \in Active => IndexAllows(r))
      /\ inOrder' = (inOrder /\ status[r] \in Active)
      /\ UNCHANGED <<records, clock, created, pc, mine, stamp, found, lost, before>>
  BY DEF WorkerSets, SetStatus, locals
<1>2. /\ \A q \in RunIds \ {r} : status'[q] = status[q]
      /\ status'[r] = s
      /\ \A q \in RunIds : Inserted(q)' <=> Inserted(q)
  BY <1>1 DEF SInv, SubmissionTypeOK, StoreTypeOK, Inserted
<1>3. SubmissionTypeOK'
  <2>1. status' \in [RunIds -> Statuses \cup {"absent"}] /\ inOrder' \in BOOLEAN
    BY <1>1 DEF SInv, SubmissionTypeOK, StoreTypeOK, Statuses, Active, Terminal
  <2>2. \A c \in Callers : pc[c] = "insert" => mine[c] \in RunIds /\ status'[mine[c]] = "absent"
    BY <1>1, <1>2 DEF SInv, SubmissionTypeOK, CallInv, Inserted
  <2>3. QED
    BY <1>1, <2>1, <2>2 DEF SInv, SubmissionTypeOK, StoreTypeOK
<1>4. OneActive'
  BY <1>1, <1>2 DEF SInv, OneActive, IndexAllows
<1>5. \A c \in Callers : CallInv(c)'
  BY <1>1, <1>2 DEF SInv, SubmissionTypeOK, CallInv, SameKey, Inserted
<1>6. OrderInv'
  <2>1. SUFFICES ASSUME inOrder, status[r] \in Active PROVE OrderInv'
    BY <1>1 DEF OrderInv
  <2>2. \A c \in Callers : \A q \in before[c] : status'[q] \in Terminal
    BY <1>1, <1>2, <2>1 DEF SInv, SubmissionTypeOK, OrderInv, Active, Terminal
  <2>3. \A c \in Callers : SameKey(mine[c])' = SameKey(mine[c])
    BY <1>1, <1>2 DEF SameKey
  <2>4. \A q \in RunIds : SameKey(q)' = SameKey(q) /\ (status'[q] \in Active => status[q] \in Active)
    BY <1>1, <1>2, <2>1 DEF SameKey
  <2>5. QED
    BY <1>1, <2>1, <2>2, <2>3, <2>4 DEF SInv, OrderInv
<1>7. HasNewest'
  <2>1. \A q \in RunIds : SameKey(q)' = SameKey(q)
    BY <1>1, <1>2 DEF SameKey
  <2>2. QED
    BY <1>1, <2>1 DEF SInv, HasNewest, Newest
<1>8. QED
  BY <1>3, <1>4, <1>5, <1>6, <1>7 DEF SInv

LEMMA SInvNext == SInv /\ [Next]_vars => SInv'
<1> SUFFICES ASSUME SInv, [Next]_vars PROVE SInv'
  OBVIOUS
<1>1. CASE Tick \/ UNCHANGED vars
  <2>1. UNCHANGED <<status, records, created, pc, mine, stamp, found, lost, before, inOrder>>
    BY <1>1 DEF Tick, vars, storeVars, locals
  <2>2. clock' \in 0 .. MaxTime
    BY <1>1, SubmissionAssumptions DEF Tick, vars, SInv, SubmissionTypeOK
  <2>3. SubmissionTypeOK'
    BY <2>1, <2>2 DEF SInv, SubmissionTypeOK, StoreTypeOK
  <2>4. OneActive' /\ (\A c \in Callers : CallInv(c)') /\ OrderInv' /\ HasNewest'
    BY <2>1 DEF SInv, OneActive, CallInv, OrderInv, HasNewest, Newest, SameKey, Inserted
  <2>5. QED
    BY <2>3, <2>4 DEF SInv
<1>2. QED
  BY <1>1, CallerKeepsInv, InsertKeepsInv, WorkerKeepsInv DEF Next

-----------------------------------------------------------------------------
(* Every variable keeps its type, and calls that are about to insert have   *)
(* run ids of their own.                                                    *)
THEOREM SubmissionTypeCorrect == Spec => []SubmissionTypeOK
<1>1. SInv => SubmissionTypeOK
  BY DEF SInv
<1>2. QED
  BY <1>1, SInvInit, SInvNext, PTL DEF Spec

(* Whoever loses gets a run back.                                           *)
THEOREM NobodyIsRefusedHolds == Spec => []NobodyIsRefused
<1>1. SInv => NobodyIsRefused
  BY DEF SInv, CallInv, NobodyIsRefused
<1>2. QED
  BY <1>1, SInvInit, SInvNext, PTL DEF Spec

(* While no run of a key is over, the callers for it have one run.          *)
THEOREM LosersPointAtWinnerHolds == Spec => []LosersPointAtWinner
<1>1. ASSUME SInv PROVE LosersPointAtWinner
  <2>1. SUFFICES ASSUME NEW c \in Callers, NEW d \in Callers,
                        pc[c] \in {"accepted", "attached"}, pc[d] \in {"accepted", "attached"},
                        KeyOf[mine[c]] = KeyOf[mine[d]],
                        \A q \in SameKey(mine[c]) : status[q] \in Active
                 PROVE  Answer(c) = Answer(d)
    BY DEF LosersPointAtWinner
  <2>2. Answer(c) \in SameKey(mine[c]) /\ Answer(d) \in SameKey(mine[c])
    BY <1>1, <2>1 DEF SInv, CallInv, Answer, SameKey
  <2>3. QED
    BY <1>1, <2>1, <2>2 DEF SInv, OneActive, SameKey
<1>2. QED
  BY <1>1, SInvInit, SInvNext, PTL DEF Spec

(* The run found is of the key, not older than the one lost to, and was not *)
(* over when the call began if the stamps are in order.                     *)
THEOREM LoserSeesRunInFlightHolds == Spec => []LoserSeesRunInFlight
<1>1. ASSUME SInv PROVE LoserSeesRunInFlight
  <2>1. SUFFICES ASSUME NEW c \in Callers, pc[c] \in {"load", "attached"}
                 PROVE  /\ KeyOf[found[c]] = KeyOf[mine[c]]
                        /\ created[lost[c]] <= created[found[c]]
                        /\ inOrder => found[c] \notin before[c]
    BY DEF LoserSeesRunInFlight
  <2>2. /\ found[c] \in SameKey(mine[c]) /\ lost[c] \in SameKey(mine[c])
        /\ created[lost[c]] <= created[found[c]]
    BY <1>1, <2>1 DEF SInv, CallInv
  <2>3. created[found[c]] \in Nat /\ created[lost[c]] \in Nat
    BY <1>1, <2>2, SubmissionAssumptions DEF SInv, SubmissionTypeOK, SameKey
  <2>4. inOrder /\ found[c] \in before[c] => created[found[c]] < created[lost[c]]
    BY <1>1, <2>1, <2>2 DEF SInv, OrderInv
  <2>5. KeyOf[found[c]] = KeyOf[mine[c]]
    BY <2>2 DEF SameKey
  <2>6. QED
    BY <2>2, <2>3, <2>4, <2>5
<1>2. QED
  BY <1>1, SInvInit, SInvNext, PTL DEF Spec
=============================================================================
