------------------------- MODULE AdoptionGateProofs -------------------------
(***************************************************************************)
(* The adoption gate for any tasks, folders, codes, operations, syncs,     *)
(* failures and crashes: what goes up without its user's consent went up   *)
(* in one of the two races.                                                *)
(*                                                                         *)
(* UnconfirmedOnlyInRaces is not inductive: it speaks of a sync at its     *)
(* push, and must be traced back to the state the sync read.  Accounted    *)
(* says of a folder why it may go up: its user agreed, its reset is due,   *)
(* or its reset was undone.  FlagsHold and CredKnown say that of every     *)
(* folder without the flag; TaskOk says it of the folders whose state a    *)
(* task has in hand and will write back, unless they were reset since, in  *)
(* which case the write undoes the reset.                                  *)
(***************************************************************************)
EXTENDS AdoptionGate, TLAPS

USE GateAssumption, NullIsNoState

Accounted(f, C, D, U) == f \in C \/ f \in D \/ f \in U

\* What holds of a task x when the states are S, the consents C, the resets
\* that are due D, and those undone U.
KnownOk(x, S, D) ==
  /\ x.pc \in {"lock", "read"} => S[x.folder] # Null \/ x.folder \in D
  /\ x.pc \in {"gate", "clear", "unset"} => S[x.folder] # Null
  /\ x.pc = "unset" => x.base # Null
GateOk(x) == x.pc \in {"clear", "unset"} /\ x.folder \in Filled => x.yes
HeldOk(x, C, D, U) ==
  x.pc \in {"push", "pull"} /\ x.folder \in Filled /\ ~x.stale
    => Accounted(x.folder, C, D, U)
PushOk(x) == x.pc = "push" /\ x.folder \in Filled => x.agreed \/ x.exposed

TaskOk(x, S, C, D, U) == KnownOk(x, S, D) /\ GateOk(x) /\ HeldOk(x, C, D, U) /\ PushOk(x)

FlagsHold ==
  \A f \in Filled : Syncable(f) => Accounted(f, consent, due, undone)
CredKnown == cred # Null => state[cred] # Null \/ cred \in due

GInv ==
  /\ TypeOK /\ FlagsHold /\ CredKnown
  /\ \A t \in Task : TaskOk(task[t], state, consent, due, undone)

LEMMA IdleOk == \A S, C, D, U : TaskOk(Idle, S, C, D, U) /\ Idle \in TaskState
BY DEF Idle, TaskState, TaskOk, KnownOk, GateOk, HeldOk, PushOk

LEMMA InitGInv == Init => GInv
<1> SUFFICES ASSUME Init PROVE GInv
  OBVIOUS
<1>1. TypeOK
  BY IdleOk DEF Init, TypeOK
<1>2. \A t \in Task : task[t] = Idle
  BY DEF Init
<1> QED BY <1>1, <1>2, IdleOk DEF Init, GInv, FlagsHold, CredKnown, Syncable

LEMMA TaskFacts ==
  ASSUME GInv, NEW t \in Task
  PROVE  /\ task[t] \in TaskState /\ task[t].folder \in Folder
         /\ TaskOk(task[t], state, consent, due, undone)
BY DEF GInv, TypeOK, TaskState

\* A step in which task t becomes x and the others stay, no file changes and no
\* ghost but consent, which grows.
LEMMA QuietStep ==
  ASSUME GInv, NEW t \in Task, NEW x \in TaskState,
         task' = [task EXCEPT ![t] = x],
         UNCHANGED <<files, due, undone>>,
         consent \subseteq consent', consent' \subseteq Folder,
         lock' \in [Proc -> Task \cup {Null}], ops' \in Nat, ends' \in Nat,
         TaskOk(x, state, consent', due, undone)
  PROVE  GInv'
<1>1. state' = state /\ cred' = cred /\ binding' = binding /\ due' = due /\ undone' = undone
  BY DEF files
<1>2. TypeOK'
  BY <1>1 DEF GInv, TypeOK
<1>3. FlagsHold' /\ CredKnown'
  BY <1>1 DEF GInv, FlagsHold, CredKnown, Accounted, Syncable
<1>4. ASSUME NEW u \in Task PROVE TaskOk(task'[u], state', consent', due', undone')
  <2>1. task'[u] = x \/ task'[u] = task[u]
    BY DEF GInv, TypeOK
  <2>2. TaskOk(task[u], state, consent', due, undone)
    BY DEF GInv, TaskOk, HeldOk, Accounted
  <2> QED BY <1>1, <2>1, <2>2
<1> QED BY <1>2, <1>3, <1>4 DEF GInv

\* Task t becomes x and writes back the state it has in hand.
LEMMA SaveStep ==
  ASSUME GInv, NEW t \in Task, NEW x \in TaskState, NEW s \in State,
         task' = [task EXCEPT ![t] = x], WriteBack(t, s),
         UNCHANGED <<cred, binding, ops, ends>>,
         lock' \in [Proc -> Task \cup {Null}],
         consent \subseteq consent', consent' \subseteq Folder,
         TaskOk(x, state', consent', due', undone'),
         task[t].folder \in Filled => Accounted(task[t].folder, consent', due', undone')
  PROVE  GInv'
<1> DEFINE f == task[t].folder
<1>1. /\ state' = [state EXCEPT ![f] = s] /\ due' = due /\ undone \subseteq undone'
      /\ undone' \subseteq Folder /\ f \in Folder
  BY TaskFacts DEF WriteBack, GInv, TypeOK
<1>2. /\ state' \in [Folder -> State \cup {Null}] /\ state'[f] = s
      /\ \A g \in Folder \ {f} : state'[g] = state[g]
  BY <1>1 DEF GInv, TypeOK
<1>3. TypeOK'
  BY <1>1, <1>2 DEF GInv, TypeOK
<1>4. s # Null
  OBVIOUS
<1> HIDE DEF f
<1>5. FlagsHold'
  <2> SUFFICES ASSUME NEW g \in Filled, Syncable(g)'
               PROVE  Accounted(g, consent', due', undone')
    BY DEF FlagsHold
  <2>1. CASE g = f
    BY <2>1 DEF f
  <2>2. CASE g # f
    BY <1>1, <1>2, <2>2 DEF GInv, FlagsHold, Syncable, Accounted
  <2> QED BY <2>1, <2>2
<1>6. CredKnown'
  BY <1>1, <1>2, <1>4 DEF GInv, TypeOK, CredKnown
<1>7. ASSUME NEW u \in Task PROVE TaskOk(task'[u], state', consent', due', undone')
  <2>1. task'[u] = x \/ task'[u] = task[u]
    BY DEF GInv, TypeOK
  <2>2. state[task[u].folder] # Null => state'[task[u].folder] # Null
    BY <1>2, <1>4, TaskFacts
  <2>3. TaskOk(task[u], state', consent', due', undone')
    BY <1>1, <2>2, TaskFacts DEF TaskOk, KnownOk, GateOk, HeldOk, PushOk, Accounted
  <2> QED BY <2>1, <2>3
<1> QED BY <1>3, <1>5, <1>6, <1>7 DEF GInv

-----------------------------------------------------------------------------

LEMMA BeginOk ==
  ASSUME GInv, NEW t \in Task, NEW op \in {"join", "resume", "link", "resync", "sync"},
         NEW pc \in {"cred", "check", "clear", "lock", "read"}, NEW f \in Folder,
         NEW yes \in BOOLEAN, NEW code \in Code \cup {Null},
         Begin(t, op, pc, f, yes, code), UNCHANGED <<files, due, undone>>,
         consent \subseteq consent', consent' \subseteq Folder,
         lock' \in [Proc -> Task \cup {Null}], ops' \in Nat, ends' \in Nat,
         pc = "clear" => yes /\ state[f] # Null,
         pc \in {"lock", "read"} => state[f] # Null \/ f \in due
  PROVE  GInv'
<1> DEFINE x == [Idle EXCEPT !.op = op, !.pc = pc, !.folder = f, !.yes = yes, !.code = code]
<1>1. task' = [task EXCEPT ![t] = x]
  BY DEF Begin
<1>2. x \in TaskState /\ x.pc = pc /\ x.folder = f /\ x.yes = yes
  BY DEF Idle, TaskState
<1> HIDE DEF x
<1>3. TaskOk(x, state, consent', due, undone)
  BY <1>2 DEF TaskOk, KnownOk, GateOk, HeldOk, PushOk
<1> QED BY <1>1, <1>2, <1>3, QuietStep

LEMMA StartOk == ASSUME GInv, NEW t \in Task, Start(t) PROVE GInv'
<1>0. /\ cred \in Folder \cup {Null} /\ lock \in [Proc -> Task \cup {Null}]
      /\ consent \subseteq Folder /\ ops \in Nat /\ ends \in Nat
      /\ MayBegin => ops' \in Nat
  BY DEF GInv, TypeOK, MayBegin
<1>1. ASSUME NEW f \in Folder \cup {Null}, NEW code \in Code, ResumeJoin(t, f, code)
      PROVE  GInv'
  <2>1. cred \in Folder /\ state[cred] # Null /\ consent' = consent \cup {cred}
    BY <1>0, <1>1 DEF ResumeJoin, Resumes, Pending
  <2> QED BY <1>0, <1>1, <2>1, BeginOk DEF ResumeJoin
<1>2. ASSUME NEW f \in Folder \cup {Null}, NEW code \in Code, NEW yes \in BOOLEAN,
             Join(t, f, yes, code)
      PROVE  GInv'
  <2>1. PICK into \in Folder : Begin(t, "join", "cred", into, yes, code)
    BY <1>2 DEF Join
  <2>2. UNCHANGED <<files, lock, ghosts, ends>> /\ MayBegin
    BY <1>2 DEF Join
  <2> QED BY <1>0, <2>1, <2>2, BeginOk DEF ghosts
<1>3. ASSUME NEW f \in Folder, NEW yes \in BOOLEAN, Link(t, f, yes) PROVE GInv'
  BY <1>0, <1>3, BeginOk DEF Link, ghosts
<1>4. ASSUME NEW yes \in BOOLEAN, Resync(t, yes) PROVE GInv'
  BY <1>0, <1>4, BeginOk DEF Resync, ghosts
<1>5. CASE SyncCommand(t)
  <2>1. PICK pc \in {"lock", "read"} : Begin(t, "sync", pc, cred, FALSE, Null)
    BY <1>5 DEF SyncCommand
  <2>2. cred \in Folder /\ state[cred] # Null
    BY <1>0, <1>5 DEF SyncCommand, Syncable
  <2>3. /\ UNCHANGED <<files, due, undone>> /\ consent' = consent /\ lock' = lock
        /\ ops' \in Nat /\ ends' \in Nat
    BY <1>0, <1>5 DEF SyncCommand, ghosts
  <2>4. "sync" \in {"join", "resume", "link", "resync", "sync"}
        /\ pc \in {"cred", "check", "clear", "lock", "read"} /\ pc # "clear"
    OBVIOUS
  <2> QED BY <1>0, <2>1, <2>2, <2>3, <2>4, BeginOk
<1>6. CASE AutoSync(t)
  <2>1. cred \in Folder /\ (state[cred] # Null \/ cred \in due)
    BY <1>0, <1>6 DEF AutoSync, AutoSyncs, GInv, CredKnown
  <2>2. lock' \in [Proc -> Task \cup {Null}]
    BY <1>0, <1>6 DEF AutoSync
  <2> QED BY <1>0, <1>6, <2>1, <2>2, BeginOk DEF AutoSync, ghosts
<1> QED BY <1>1, <1>2, <1>3, <1>4, <1>5, <1>6 DEF Start

-----------------------------------------------------------------------------

\* A task that only moves on, and where to.
LEMMA MoveOk ==
  ASSUME GInv, NEW t \in Task, NEW pc \in {"gate", "reset", "clear", "bind", "read"},
         Goto(t, pc), UNCHANGED <<files, ghosts, ops, ends>>,
         lock' \in [Proc -> Task \cup {Null}],
         pc = "gate" => state[task[t].folder] # Null,
         pc = "clear" => task[t].pc = "gate" /\ (task[t].folder \in Filled => task[t].yes),
         pc = "read" => task[t].pc = "lock"
  PROVE  GInv'
<1> DEFINE x == [task[t] EXCEPT !.pc = pc]
<1>1. task[t] \in TaskState /\ TaskOk(task[t], state, consent, due, undone)
  BY TaskFacts
<1>2. task' = [task EXCEPT ![t] = x]
  BY DEF Goto, GInv, TypeOK
<1>3. x \in TaskState /\ x.pc = pc /\ x.folder = task[t].folder /\ x.yes = task[t].yes
      /\ x.base = task[t].base
  BY <1>1 DEF TaskState
<1> HIDE DEF x
<1>4. TaskOk(x, state, consent', due, undone)
  BY <1>1, <1>3 DEF TaskOk, KnownOk, GateOk, HeldOk, PushOk
<1>5. /\ UNCHANGED <<files, due, undone>> /\ consent \subseteq consent'
      /\ consent' \subseteq Folder /\ ops' \in Nat /\ ends' \in Nat
  BY DEF ghosts, GInv, TypeOK
<1> QED BY <1>2, <1>3, <1>4, <1>5, QuietStep

\* A task ends.
LEMMA EndOk ==
  ASSUME GInv, NEW t \in Task, Finish(t), UNCHANGED <<files, ghosts>>,
         lock' \in [Proc -> Task \cup {Null}], ops' \in Nat, ends' \in Nat
  PROVE  GInv'
<1>1. /\ UNCHANGED <<files, due, undone>> /\ consent \subseteq consent'
      /\ consent' \subseteq Folder
  BY DEF ghosts, GInv, TypeOK
<1> QED BY <1>1, IdleOk, QuietStep DEF Finish

LEMMA LocksOk ==
  ASSUME GInv, NEW t \in Task
  PROVE  /\ lock \in [Proc -> Task \cup {Null}] /\ Unlocked(t) \in [Proc -> Task \cup {Null}]
         /\ ops \in Nat /\ ends \in Nat
BY DEF GInv, TypeOK, Unlocked

LEMMA CheckPendingOk == ASSUME GInv, NEW t \in Task, CheckPending(t) PROVE GInv'
<1>1. PICK pc \in {"gate", "reset"} :
        Goto(t, pc) /\ (pc = "gate" => state[task[t].folder] # Null)
  BY DEF CheckPending, Pending
<1>2. UNCHANGED <<files, ghosts, ops, ends>> /\ lock' = lock
  BY DEF CheckPending
<1> QED BY <1>1, <1>2, LocksOk, MoveOk

LEMMA GateStepOk == ASSUME GInv, NEW t \in Task, Gate(t) PROVE GInv'
<1>1. task[t].pc = "gate" /\ UNCHANGED <<files, ghosts, ops, ends>> /\ lock' = lock
  BY DEF Gate, At
<1>2. CASE Goto(t, "clear") /\ (task[t].folder \in Filled => task[t].yes)
  BY <1>1, <1>2, LocksOk, MoveOk
<1>3. CASE Goto(t, "bind")
  BY <1>1, <1>3, LocksOk, MoveOk
<1>4. CASE Finish(t)
  BY <1>1, <1>4, LocksOk, EndOk
<1> QED BY <1>2, <1>3, <1>4 DEF Gate

LEMMA TakeLockOk == ASSUME GInv, NEW t \in Task, TakeLock(t) PROVE GInv'
<1>1. /\ task[t].pc = "lock" /\ Goto(t, "read") /\ UNCHANGED <<files, ghosts, ops, ends>>
      /\ lock' \in [Proc -> Task \cup {Null}]
  BY LocksOk DEF TakeLock, At
<1> QED BY <1>1, MoveOk

LEMMA FailOk == ASSUME GInv, NEW t \in Task, Fail(t) PROVE GInv'
BY LocksOk, EndOk DEF Fail

LEMMA ClearOk == ASSUME GInv, NEW t \in Task, Clear(t) PROVE GInv'
<1> DEFINE x == [task[t] EXCEPT !.base = state[task[t].folder], !.pc = "unset"]
<1>1. /\ task[t] \in TaskState /\ task[t].folder \in Folder /\ task[t].pc = "clear"
      /\ TaskOk(task[t], state, consent, due, undone)
  BY TaskFacts DEF Clear, At
<1>2. state[task[t].folder] \in State /\ state[task[t].folder] # Null
  BY <1>1 DEF TaskOk, KnownOk, GInv, TypeOK
<1>3. task' = [task EXCEPT ![t] = x]
  BY <1>2 DEF Clear, GInv, TypeOK
<1>4. x \in TaskState /\ x.pc = "unset" /\ x.folder = task[t].folder /\ x.yes = task[t].yes
      /\ x.base = state[task[t].folder]
  BY <1>1, <1>2 DEF TaskState
<1>5. /\ UNCHANGED <<files, due, undone>> /\ consent \subseteq consent' /\ lock' = lock
      /\ consent' \subseteq Folder /\ ops' \in Nat /\ ends' \in Nat
  BY LocksOk DEF Clear, ghosts, GInv, TypeOK
<1> HIDE DEF x
<1>6. TaskOk(x, state, consent', due, undone)
  BY <1>1, <1>2, <1>4 DEF TaskOk, KnownOk, GateOk, HeldOk, PushOk
<1> QED BY <1>3, <1>4, <1>5, <1>6, LocksOk, QuietStep

\* syncOnce reads a state without the flag, or none: the folder is accounted for.
LEMMA ReadStateOk == ASSUME GInv, NEW t \in Task, ReadState(t) PROVE GInv'
<1> DEFINE f == task[t].folder
<1>1. /\ task[t] \in TaskState /\ f \in Folder /\ task[t].pc = "read"
      /\ TaskOk(task[t], state, consent, due, undone)
  BY TaskFacts DEF ReadState, At
<1>2. /\ UNCHANGED <<files, ghosts>> /\ UNCHANGED <<files, due, undone>> /\ consent' = consent
      /\ consent \subseteq Folder /\ ops' \in Nat /\ ends' \in Nat
  BY LocksOk DEF ReadState, ghosts, GInv, TypeOK
<1>3. CASE Pending(f)
  BY <1>2, <1>3, LocksOk, EndOk DEF ReadState
<1>4. CASE ~Pending(f)
  <2>1. f \in Filled => Accounted(f, consent, due, undone)
    BY <1>1, <1>4 DEF GInv, FlagsHold, Syncable, Pending, TaskOk, KnownOk, Accounted
  <2>2. PICK a \in BOOLEAN, e \in BOOLEAN :
          a = (f \in consent) /\ e = (f \in due \cup undone)
    <3>1. (f \in consent) \in BOOLEAN /\ (f \in due \cup undone) \in BOOLEAN
      BY SMT
    <3> QED BY <3>1
  <2> DEFINE x == [task[t] EXCEPT !.pc = "push", !.base = state[f], !.stale = FALSE,
                                  !.agreed = a, !.exposed = e]
  <2>3. task' = [task EXCEPT ![t] = x] /\ lock' = lock
    BY <1>4, <2>2 DEF ReadState, GInv, TypeOK
  <2>4. x \in TaskState /\ x.pc = "push" /\ x.folder = f /\ x.agreed = a /\ x.exposed = e
    BY <1>1 DEF TaskState, GInv, TypeOK
  <2> HIDE DEF x, f
  <2>5. TaskOk(x, state, consent', due, undone)
    BY <1>2, <2>1, <2>2, <2>4 DEF TaskOk, KnownOk, GateOk, HeldOk, PushOk, Accounted
  <2> QED BY <1>2, <2>3, <2>4, <2>5, LocksOk, QuietStep
<1> QED BY <1>3, <1>4

LEMMA UnsetOk == ASSUME GInv, NEW t \in Task, Unset(t) PROVE GInv'
<1> DEFINE x == [task[t] EXCEPT !.pc = "lock"]
           s == [task[t].base EXCEPT !.pending = FALSE, !.code = Null]
           f == task[t].folder
<1>1. /\ task[t] \in TaskState /\ f \in Folder /\ task[t].pc = "unset"
      /\ TaskOk(task[t], state, consent, due, undone)
  BY TaskFacts DEF Unset, At
<1>2. s \in State
  BY <1>1 DEF TaskOk, KnownOk, TaskState, State
<1>3. task' = [task EXCEPT ![t] = x]
  BY DEF Unset, Goto, GInv, TypeOK
<1>4. x \in TaskState /\ x.pc = "lock" /\ x.folder = f
  BY <1>1 DEF TaskState
<1>5. /\ WriteBack(t, s) /\ UNCHANGED <<cred, binding, ops, ends>> /\ lock' = lock
      /\ consent' = IF task[t].yes THEN consent \cup {f} ELSE consent
  BY DEF Unset
<1>6. consent \subseteq consent' /\ consent' \subseteq Folder
  BY <1>1, <1>5 DEF GInv, TypeOK
<1>7. f \in Filled => f \in consent'
  BY <1>1, <1>5 DEF TaskOk, GateOk
<1>8. state'[f] = s /\ s # Null
  BY <1>1, <1>2, <1>5 DEF WriteBack, GInv, TypeOK
<1> HIDE DEF x, s
<1>9. TaskOk(x, state', consent', due', undone')
  BY <1>4, <1>8 DEF TaskOk, KnownOk, GateOk, HeldOk, PushOk
<1>10. f \in Filled => Accounted(f, consent', due', undone')
  BY <1>7 DEF Accounted
<1> QED BY <1>2, <1>3, <1>4, <1>5, <1>6, <1>9, <1>10, LocksOk, SaveStep

\* A sync saves what it has read: if it was reset since, that undoes the reset,
\* and else the folder is accounted for as it was.
LEMMA SyncSaveOk ==
  ASSUME GInv, NEW t \in Task, task[t].pc \in {"push", "pull"},
         NEW x \in TaskState, task' = [task EXCEPT ![t] = x], WriteBack(t, Saved(t)),
         UNCHANGED <<cred, binding, consent, ops, ends>>,
         lock' \in [Proc -> Task \cup {Null}],
         \/ x.pc \in {"idle", "bind"}
         \/ (x.pc = "pull" /\ x.folder = task[t].folder /\ x.stale = task[t].stale)
  PROVE  GInv'
<1> DEFINE f == task[t].folder
<1>1. /\ task[t] \in TaskState /\ f \in Folder
      /\ TaskOk(task[t], state, consent, due, undone)
  BY TaskFacts
<1>2. Saved(t) \in State
  BY <1>1 DEF Saved, State, TaskState
<1>3. /\ due' = due /\ undone' = IF task[t].stale THEN undone \cup {f} ELSE undone
  BY DEF WriteBack
<1>4. f \in Filled => Accounted(f, consent', due', undone')
  BY <1>1, <1>3 DEF TaskOk, HeldOk, Accounted
<1>5. consent \subseteq consent' /\ consent' \subseteq Folder
  BY DEF GInv, TypeOK
<1>6. TaskOk(x, state', consent', due', undone')
  BY <1>4 DEF TaskOk, KnownOk, GateOk, HeldOk, PushOk
<1> HIDE DEF f
<1> QED BY <1>2, <1>4, <1>5, <1>6, SaveStep DEF f

LEMMA PushStepOk == ASSUME GInv, NEW t \in Task, Push(t) PROVE GInv'
<1> DEFINE x == [task[t] EXCEPT !.pc = "pull", !.agreed = FALSE, !.exposed = FALSE]
<1>1. task[t] \in TaskState /\ task[t].pc = "push"
  BY TaskFacts DEF Push, At
<1>2. x \in TaskState /\ x.pc = "pull" /\ x.folder = task[t].folder /\ x.stale = task[t].stale
  BY <1>1 DEF TaskState
<1>3. /\ task' = [task EXCEPT ![t] = x] /\ WriteBack(t, Saved(t))
      /\ UNCHANGED <<cred, binding, consent, ops, ends>> /\ lock' = lock
  BY DEF Push, GInv, TypeOK
<1> HIDE DEF x
<1> QED BY <1>1, <1>2, <1>3, LocksOk, SyncSaveOk

LEMMA PullStepOk == ASSUME GInv, NEW t \in Task, Pull(t) PROVE GInv'
<1>1. task[t] \in TaskState /\ task[t].pc = "pull"
  BY TaskFacts DEF Pull, At
<1>2. PICK x \in {[task[t] EXCEPT !.pc = "bind"], Idle} : task' = [task EXCEPT ![t] = x]
  BY DEF Pull, Goto, Finish, GInv, TypeOK
<1>3. x \in TaskState /\ x.pc \in {"idle", "bind"}
  <2>1. Idle.pc = "idle"
    BY DEF Idle
  <2>2. [task[t] EXCEPT !.pc = "bind"] \in TaskState /\ [task[t] EXCEPT !.pc = "bind"].pc = "bind"
    BY <1>1 DEF TaskState
  <2> QED BY <2>1, <2>2, IdleOk
<1>4. /\ WriteBack(t, Saved(t)) /\ UNCHANGED <<cred, binding, consent, ops, ends>>
      /\ lock' = Unlocked(t)
  BY DEF Pull
<1> QED BY <1>1, <1>2, <1>3, <1>4, LocksOk, SyncSaveOk

LEMMA BindOk == ASSUME GInv, NEW t \in Task, Bind(t) PROVE GInv'
<1>1. /\ task' = [task EXCEPT ![t] = Idle] /\ UNCHANGED <<cred, state, lock, ghosts, ops, ends>>
      /\ binding' \in Folder \cup {Null}
  BY TaskFacts DEF Bind, Finish
<1>2. TypeOK'
  BY <1>1, IdleOk DEF GInv, TypeOK, ghosts
<1>3. FlagsHold' /\ CredKnown'
  BY <1>1 DEF GInv, FlagsHold, CredKnown, Syncable, ghosts
<1>4. ASSUME NEW u \in Task PROVE TaskOk(task'[u], state', consent', due', undone')
  <2>1. task'[u] = Idle \/ task'[u] = task[u]
    BY <1>1 DEF GInv, TypeOK
  <2> QED BY <1>1, <2>1, IdleOk DEF GInv, ghosts
<1> QED BY <1>2, <1>3, <1>4 DEF GInv

\* The credential is written: whatever consent there was, the reset is due.
LEMMA WriteCredOk == ASSUME GInv, NEW t \in Task, WriteCred(t) PROVE GInv'
<1> DEFINE f == task[t].folder
           x == [task[t] EXCEPT !.pc = "reset"]
<1>1. task[t] \in TaskState /\ f \in Folder
  BY TaskFacts
<1>2. /\ task' = [task EXCEPT ![t] = x] /\ x \in TaskState /\ x.pc = "reset"
      /\ cred' = f /\ due' = due \cup {f} /\ consent \subseteq consent' \cup {f}
      /\ consent' \subseteq Folder
      /\ UNCHANGED <<binding, state, lock, undone, ops, ends>>
  BY <1>1 DEF WriteCred, Goto, Ask, GInv, TypeOK, TaskState
<1>3. TypeOK'
  BY <1>1, <1>2 DEF GInv, TypeOK
<1> HIDE DEF x, f
<1>4. FlagsHold'
  BY <1>2 DEF GInv, FlagsHold, Syncable, Accounted
<1>5. CredKnown'
  BY <1>2 DEF CredKnown
<1>6. ASSUME NEW u \in Task PROVE TaskOk(task'[u], state', consent', due', undone')
  <2>1. task'[u] = x \/ task'[u] = task[u]
    BY <1>2 DEF GInv, TypeOK
  <2>2. TaskOk(x, state', consent', due', undone')
    BY <1>2 DEF TaskOk, KnownOk, GateOk, HeldOk, PushOk
  <2>3. TaskOk(task[u], state', consent', due', undone')
    BY <1>2, TaskFacts DEF TaskOk, KnownOk, GateOk, HeldOk, PushOk, Accounted
  <2> QED BY <2>1, <2>2, <2>3
<1> QED BY <1>3, <1>4, <1>5, <1>6 DEF GInv

\* The state is reset: the folder is flagged, and what the others hold of it
\* is stale.
LEMMA ResetOk == ASSUME GInv, NEW t \in Task, Reset(t) PROVE GInv'
<1> DEFINE f == task[t].folder
           s == [pending |-> TRUE, code |-> task[t].code]
<1>1. /\ task[t] \in TaskState /\ f \in Folder /\ task[t].pc = "reset"
      /\ TaskOk(task[t], state, consent, due, undone)
  BY TaskFacts DEF Reset, At
<1>2. s \in State /\ s # Null /\ s.pending
  <2>1. task[t].code \in Code \cup {Null}
    BY <1>1 DEF TaskState
  <2>2. s \in State
    BY <2>1 DEF State
  <2>3. s.pending
    OBVIOUS
  <2> HIDE DEF s
  <2> QED BY <2>2, <2>3
<1>3. /\ state' = [state EXCEPT ![f] = s] /\ due' = due \ {f} /\ undone' = undone \ {f}
      /\ consent \subseteq consent' \cup {f} /\ consent' \subseteq Folder
      /\ UNCHANGED <<cred, binding, lock, ops, ends>>
  BY <1>1 DEF Reset, Ask, GInv, TypeOK
<1>4. /\ state' \in [Folder -> State \cup {Null}] /\ state'[f] = s
      /\ \A g \in Folder \ {f} : state'[g] = state[g]
  BY <1>1, <1>2, <1>3 DEF GInv, TypeOK
<1>5. ASSUME NEW u \in Task
      PROVE  /\ task'[u] \in TaskState /\ task'[u].folder = task[u].folder
             /\ task'[u].yes = task[u].yes /\ task'[u].base = task[u].base
             /\ task'[u].agreed = task[u].agreed /\ task'[u].exposed = task[u].exposed
             /\ u # t => task'[u].pc = task[u].pc
             /\ u = t => task'[u].pc = "gate"
             /\ u # t => task'[u].stale = (task[u].stale \/ Holds(u, f))
  <2>1. task[u] \in TaskState /\ (task[u].stale \/ Holds(u, f)) \in BOOLEAN
    BY TaskFacts DEF Holds, TaskState
  <2> QED BY <2>1 DEF Reset, TaskState
<1> HIDE DEF f, s
<1>7. TypeOK'
  <2>1. task' \in [Task -> TaskState]
    <3>1. DOMAIN task' = Task /\ task' = [u \in Task |-> task'[u]]
      BY DEF Reset
    <3> QED BY <1>5, <3>1
  <2> QED BY <1>3, <1>4, <2>1 DEF GInv, TypeOK
<1>8. FlagsHold'
  BY <1>2, <1>3, <1>4 DEF GInv, FlagsHold, Syncable, Accounted
<1>9. CredKnown'
  BY <1>2, <1>3, <1>4 DEF GInv, TypeOK, CredKnown
<1>10. ASSUME NEW u \in Task PROVE TaskOk(task'[u], state', consent', due', undone')
  <2>1. task[u].folder \in Folder /\ TaskOk(task[u], state, consent, due, undone)
    BY TaskFacts
  <2>2. KnownOk(task'[u], state', due')
    BY <1>2, <1>3, <1>4, <1>5, <2>1, <1>1 DEF TaskOk, KnownOk, f
  <2>3. GateOk(task'[u])
    BY <1>5, <2>1 DEF TaskOk, GateOk
  <2>4. HeldOk(task'[u], consent', due', undone')
    BY <1>3, <1>5, <2>1 DEF TaskOk, HeldOk, Accounted, Holds
  <2>5. PushOk(task'[u])
    BY <1>5, <2>1 DEF TaskOk, PushOk
  <2> QED BY <2>2, <2>3, <2>4, <2>5 DEF TaskOk
<1> QED BY <1>7, <1>8, <1>9, <1>10 DEF GInv

LEMMA LeaveOk == GInv /\ Leave => GInv'
<1> SUFFICES ASSUME GInv, Leave PROVE GInv'
  OBVIOUS
<1>1. /\ state' = state /\ task' = task /\ UNCHANGED ghosts /\ cred' \in {cred, Null}
      /\ binding' \in {binding, Null} /\ lock' = lock /\ ops' \in Nat /\ ends' = ends
  BY DEF Leave, MayBegin, GInv, TypeOK
<1>2. TypeOK' /\ FlagsHold' /\ CredKnown'
  BY <1>1 DEF GInv, TypeOK, FlagsHold, CredKnown, Syncable, ghosts
<1> QED BY <1>1, <1>2 DEF GInv, ghosts

LEMMA CrashOk == ASSUME GInv, NEW p \in Proc, Crash(p) PROVE GInv'
<1>1. UNCHANGED <<files, ghosts, ops>> /\ \A t \in Task : task'[t] \in {Idle, task[t]}
  BY DEF Crash
<1>2. TypeOK'
  <2>1. task' \in [Task -> TaskState] /\ lock' \in [Proc -> Task \cup {Null}] /\ ends' \in Nat
    BY IdleOk DEF Crash, GInv, TypeOK
  <2> QED BY <1>1, <2>1 DEF GInv, TypeOK, files, ghosts
<1>3. FlagsHold' /\ CredKnown'
  BY <1>1 DEF GInv, FlagsHold, CredKnown, Syncable, files, ghosts
<1>4. \A t \in Task : TaskOk(task'[t], state', consent', due', undone')
  BY <1>1, IdleOk DEF GInv, files, ghosts
<1> QED BY <1>2, <1>3, <1>4 DEF GInv

LEMMA NextGInv == GInv /\ [Next]_vars => GInv'
<1> SUFFICES ASSUME GInv, [Next]_vars PROVE GInv'
  OBVIOUS
<1>1. ASSUME NEW t \in Task, Step(t) PROVE GInv'
  BY <1>1, WriteCredOk, CheckPendingOk, ResetOk, GateStepOk, ClearOk, UnsetOk, BindOk,
     TakeLockOk, ReadStateOk, PushStepOk, PullStepOk DEF Step
<1>2. CASE UNCHANGED vars
  BY <1>2 DEF vars, ghosts, GInv, TypeOK, FlagsHold, CredKnown, Syncable
<1> QED BY <1>1, <1>2, StartOk, FailOk, LeaveOk, CrashOk DEF Next

LEMMA AlwaysGInv == Spec => []GInv
BY InitGInv, NextGInv, PTL DEF Spec

\* For any tasks, folders and operations, failures and crashes, and whatever
\* parche.json came first: a sync uploads a folder with files without its
\* user's consent only when it began between the writes of the credential and
\* of the reset state, or after a task saved a state over a reset it had not
\* seen (checkAdoptionGate, finalizeAdoption, the flag syncOnce stops at).
THEOREM UploadsAreAgreed == Spec => []UnconfirmedOnlyInRaces
<1>1. GInv => UnconfirmedOnlyInRaces
  BY DEF GInv, TaskOk, PushOk, UnconfirmedOnlyInRaces, Uploads, At
<1> QED BY <1>1, AlwaysGInv, PTL
=============================================================================
