----------------------------- MODULE Submission -----------------------------
(***************************************************************************)
(* submit_or_attach (engine.py) on either backend: the INSERT, and when    *)
(* the unique index refuses it, the search for the run in the way and the  *)
(* load of that run, three transactions with the rest of the world in      *)
(* between.  Callers compete for keys; the workers of module Engine appear *)
(* as what they do to a status, reopening a finished run included.  All    *)
(* terminal statuses are alike here, and step_records stays empty.         *)
(*                                                                         *)
(*   idle -> insert -> accepted                                            *)
(*           insert -> find -> load -> attached                            *)
(*                                                                         *)
(* submit is the same up to find, and raises RunAlreadyActive with the run *)
(* found.  A caller whose call is over may call again, with a new uuid:    *)
(* after an answer that was lost this is the retry.                        *)
(***************************************************************************)
EXTENDS RunStore

CONSTANTS
  Callers,
  None,
  MaxTime    \* bound on the clock that stamps created_at

ASSUME SubmissionAssumptions == MaxTime \in Nat /\ None \notin RunIds

VARIABLES
  clock,     \* in units of created_at: seconds on SQLite
  created,   \* runs.created_at
  pc,        \* where the call of each caller stands
  mine,      \* the uuid it drew
  stamp,     \* when it sent the INSERT
  found,     \* the run find_by_key returned
  lost,      \* the run it lost to (history)
  before,    \* the runs that were over when it began (history)
  inOrder    \* rows of a key have rising stamps and no run was reopened (history)

locals == <<mine, stamp, found, lost, before>>
vars   == <<storeVars, clock, created, pc, locals, inOrder>>

InCall == {"insert", "find", "load"}
Ended  == {"idle", "accepted", "attached", "refused"}

SubmissionTypeOK ==
  /\ StoreTypeOK /\ records = {}
  /\ clock \in 0 .. MaxTime
  /\ created \in [RunIds -> 0 .. MaxTime]
  /\ pc \in [Callers -> InCall \cup Ended]
  /\ mine \in [Callers -> RunIds \cup {None}]
  /\ stamp \in [Callers -> 0 .. MaxTime]
  /\ found \in [Callers -> RunIds \cup {None}]
  /\ lost \in [Callers -> RunIds \cup {None}]
  /\ before \in [Callers -> SUBSET RunIds]
  /\ inOrder \in BOOLEAN
  /\ \A c, d \in Callers : pc[c] = "insert" =>
       status[mine[c]] = "absent" /\ (c # d => mine[d] # mine[c])

Init ==
  /\ StoreInit
  /\ clock = 0 /\ created = [r \in RunIds |-> 0]
  /\ pc = [c \in Callers |-> "idle"]
  /\ mine = [c \in Callers |-> None] /\ stamp = [c \in Callers |-> 0]
  /\ found = [c \in Callers |-> None] /\ lost = [c \in Callers |-> None]
  /\ before = [c \in Callers |-> {}]
  /\ inOrder = TRUE

Goto(c, label) == pc' = [pc EXCEPT ![c] = label]

Inserted(r) == status[r] # "absent"
SameKey(r)  == {q \in RunIds : KeyOf[q] = KeyOf[r] /\ Inserted(q)}

(* uuid4 gives a run id nobody has. *)
BrokenFresh(r) == \A c \in Callers : mine[c] # r
Fresh(r)       == ~Inserted(r) /\ \A c \in Callers : mine[c] # r

Begin(c, r) ==
  /\ pc[c] \in Ended
  /\ Fresh(r)
  /\ mine' = [mine EXCEPT ![c] = r]
  /\ stamp' = [stamp EXCEPT ![c] = clock]
  /\ found' = [found EXCEPT ![c] = None] /\ lost' = [lost EXCEPT ![c] = None]
  /\ before' = [before EXCEPT ![c] = {q \in RunIds : status[q] \in Terminal}]
  /\ Goto(c, "insert")
  /\ UNCHANGED <<storeVars, clock, created, inOrder>>

(* DEFAULT datetime('now') is read under the write lock of SQLite, DEFAULT  *)
(* now() when the statement began, which may be some time before the row    *)
(* goes in.                                                                 *)
InsertWins(c) ==
  /\ pc[c] = "insert"
  /\ InsertRun(mine[c])
  /\ \E t \in stamp[c] .. clock :
       /\ created' = [created EXCEPT ![mine[c]] = t]
       /\ inOrder' = (inOrder /\ \A q \in SameKey(mine[c]) : created[q] < t)
  /\ Goto(c, "accepted")
  /\ UNCHANGED <<clock, locals>>

InsertLoses(c) ==
  /\ pc[c] = "insert"
  /\ ~IndexAllows(mine[c])
  /\ \E q \in SameKey(mine[c]) : status[q] \in Active /\ lost' = [lost EXCEPT ![c] = q]
  /\ Goto(c, "find")
  /\ UNCHANGED <<storeVars, clock, created, mine, stamp, found, before, inOrder>>

(* ORDER BY created_at DESC LIMIT 1: among equals, any. *)
BrokenNewestActive(r) == {q \in SameKey(r) : status[q] \in Active}
BrokenNewestFirst(r)  == {q \in SameKey(r) : \A p \in SameKey(r) : created[q] <= created[p]}

Newest(r) == {q \in SameKey(r) : \A p \in SameKey(r) : created[p] <= created[q]}

(* find_by_key; with no row the IntegrityError goes on to the caller.       *)
Find(c) ==
  /\ pc[c] = "find"
  /\ \E q \in IF Newest(mine[c]) = {} THEN {None} ELSE Newest(mine[c]) :
       /\ found' = [found EXCEPT ![c] = q]
       /\ Goto(c, IF q = None THEN "refused" ELSE "load")
  /\ UNCHANGED <<storeVars, clock, created, mine, stamp, lost, before, inOrder>>

(* The state handed out is the one of now; a row that is gone is an error.  *)
Attach(c) ==
  /\ pc[c] = "load"
  /\ Goto(c, IF Inserted(found[c]) THEN "attached" ELSE "refused")
  /\ UNCHANGED <<storeVars, clock, created, locals, inOrder>>

(* A statement fails, or the caller dies. *)
Fail(c) ==
  /\ pc[c] \in InCall
  /\ Goto(c, "idle")
  /\ mine' = [mine EXCEPT ![c] = None]
  /\ UNCHANGED <<storeVars, clock, created, stamp, found, lost, before, inOrder>>

(* What calls of run do to a status: start or restart, and finish.          *)
WorkerSets(r, s) ==
  /\ Inserted(r) /\ status[r] # s
  /\ status[r] = "pending" => s = "running"
  /\ SetStatus(r, s)
  /\ inOrder' = (inOrder /\ status[r] \in Active)
  /\ UNCHANGED <<clock, created, pc, locals>>

Tick ==
  /\ clock < MaxTime
  /\ clock' = clock + 1
  /\ UNCHANGED <<storeVars, created, pc, locals, inOrder>>

Next ==
  \/ \E c \in Callers :
       \/ \E r \in RunIds : Begin(c, r)
       \/ InsertWins(c) \/ InsertLoses(c) \/ Find(c) \/ Attach(c) \/ Fail(c)
  \/ \E r \in RunIds, s \in {"running", "completed"} : WorkerSets(r, s)
  \/ Tick

Spec == Init /\ [][Next]_vars

-----------------------------------------------------------------------------
(* The run a call of submit_or_attach returned. *)
Answer(c) == IF pc[c] = "accepted" THEN mine[c] ELSE found[c]

(* No caller leaves with the IntegrityError or with a run that vanished,    *)
(* although the run it lost to may be over when find_by_key looks           *)
(* (store.py:151-155, engine.py:229).                                       *)
NobodyIsRefused == \A c \in Callers : pc[c] # "refused"

(* As long as no run of a key is over, everyone who asked for the key was   *)
(* given the same run: "losers must point at the winning run"               *)
(* (tests/test_concurrency.py:44).                                          *)
LosersPointAtWinner ==
  \A c, d \in Callers :
    /\ pc[c] \in {"accepted", "attached"} /\ pc[d] \in {"accepted", "attached"}
    /\ KeyOf[mine[c]] = KeyOf[mine[d]]
    /\ \A q \in SameKey(mine[c]) : status[q] \in Active
    => Answer(c) = Answer(d)

(* The run a loser is pointed at has the key it asked for and is not older  *)
(* than the one it lost to.  If the stamps tell the rows of the key apart   *)
(* in the order they went in, and no run was reopened, it was in flight at  *)
(* some moment of the call (engine.py:221, store.py:150-153).               *)
LoserSeesRunInFlight ==
  \A c \in Callers : pc[c] \in {"load", "attached"} =>
    /\ KeyOf[found[c]] = KeyOf[mine[c]]
    /\ created[lost[c]] <= created[found[c]]
    /\ inOrder => found[c] \notin before[c]
=============================================================================
