---------------------------- MODULE AdoptionGate ----------------------------
(***************************************************************************)
(* How a folder becomes the vault of a parche, and what may upload it:     *)
(* join, link and resync (mcp/src/parche/binding-ops.ts and the tools and  *)
(* CLI commands over it), and the syncs that run beside them.              *)
(*                                                                         *)
(* One parche.  A Task is one tool call of the MCP server or one CLI       *)
(* command; each of its steps ends at an await.  Three files are shared:   *)
(* the credential, which names the vault's folder; parche.json, the        *)
(* binding that autosync follows; and the state.json of each folder, whose *)
(* pendingAdoption flag stops every sync until the user has confirmed that *)
(* the folder's own files may be uploaded.                                 *)
(***************************************************************************)
EXTENDS Naturals

CONSTANTS
  Task, ProcOf,   \* ProcOf[t]: "server" or "cli"
  Folder, Null,
  DefaultFolder,  \* where a join without a folder goes
  Filled,         \* the folders with syncable files of their own
  Code,           \* invite codes
  MaxOps,         \* user operations (bound)
  MaxEnds         \* failures and crashes (bound)

Proc == {"server", "cli"}

ASSUME GateAssumption ==
  /\ ProcOf \in [Task -> Proc]
  /\ Null \notin Folder \cup Code \cup Task
  /\ DefaultFolder \in Folder /\ Filled \subseteq Folder
  /\ MaxOps \in Nat /\ MaxEnds \in Nat

VARIABLES
  cred,     \* the folder the credential names, Null without a credential
  binding,  \* the folder parche.json names, or Null
  state,    \* state[f]: f's state.json, or Null
  task,     \* task[t]: where task t is
  lock,     \* lock[p]: the task that holds process p's vault lock, or Null
  consent,  \* ghost: the folders whose upload the user has agreed to
  due,      \* ghost: the folders whose credential is written and whose state
            \* is still to be reset
  undone,   \* ghost: the folders whose last reset was undone by the write of
            \* a state that was read before it
  ops, ends \* the actions counted against the bounds

ghosts == <<consent, due, undone>>
vars == <<cred, binding, state, task, lock, ghosts, ops, ends>>

\* The parts of state.json the gate is about.
State == [pending: BOOLEAN, code: Code \cup {Null}]

ASSUME NullIsNoState == Null \notin State

\* op is what the task was called for, yes whether the user confirmed
\* (confirmUpload, --yes or the prompt), base the state it has read.  Ghosts:
\* stale is whether base was reset since, agreed whether there was consent when
\* the sync began, exposed whether its folder's reset was due or undone then.
TaskState == [pc: {"idle", "cred", "check", "reset", "gate", "clear", "unset",
                   "lock", "read", "push", "pull", "bind"},
              op: {"none", "join", "resume", "link", "resync", "sync"},
              folder: Folder, yes: BOOLEAN, code: Code \cup {Null},
              base: State \cup {Null},
              stale: BOOLEAN, agreed: BOOLEAN, exposed: BOOLEAN]

Idle == [pc |-> "idle", op |-> "none", folder |-> DefaultFolder, yes |-> FALSE,
         code |-> Null, base |-> Null,
         stale |-> FALSE, agreed |-> FALSE, exposed |-> FALSE]

TypeOK ==
  /\ cred \in Folder \cup {Null} /\ binding \in Folder \cup {Null}
  /\ state \in [Folder -> State \cup {Null}]
  /\ task \in [Task -> TaskState]
  /\ lock \in [Proc -> Task \cup {Null}]
  /\ consent \subseteq Folder /\ due \subseteq Folder /\ undone \subseteq Folder
  /\ ops \in Nat /\ ends \in Nat

\* A colleague may have committed parche.json.
Init ==
  /\ cred = Null
  /\ binding \in Folder \cup {Null}
  /\ state = [f \in Folder |-> Null]
  /\ task = [t \in Task |-> Idle]
  /\ lock = [p \in Proc |-> Null]
  /\ consent = {} /\ due = {} /\ undone = {}
  /\ ops = 0 /\ ends = 0

Pending(f)  == state[f] # Null /\ state[f].pending
Syncable(f) == state[f] # Null /\ ~state[f].pending

At(t, pc)    == task[t].pc = pc
Goto(t, pc)  == task' = [task EXCEPT ![t].pc = pc]
Finish(t)    == task' = [task EXCEPT ![t] = Idle]
files == <<cred, binding, state>>

-----------------------------------------------------------------------------
(* What a user starts.                                                     *)

MayBegin == ops < MaxOps /\ ops' = ops + 1

Begin(t, op, pc, f, yes, code) ==
  /\ At(t, "idle")
  /\ task' = [task EXCEPT ![t] = [Idle EXCEPT !.op = op, !.pc = pc, !.folder = f,
                                              !.yes = yes, !.code = code]]

\* findResumeCandidate: the pending folder of the credential, by its code.
\* Folder f may be left out by the caller.
Resumes(f, code) ==
  /\ cred # Null /\ Pending(cred)
  /\ f \in {cred, Null}
  /\ state[cred].code = code

\* A pending folder that no code can confirm (left by link or resync).
Legacy(f) ==
  cred # Null /\ Pending(cred) /\ f \in {cred, Null} /\ state[cred].code = Null

\* chamba_vault_join with confirmUpload for a folder that is pending already:
\* straight to finalizeAdoption, and no binding is written.
ResumeJoin(t, f, code) ==
  /\ ProcOf[t] = "server" /\ Resumes(f, code)
  /\ MayBegin
  /\ Begin(t, "resume", "clear", cred, TRUE, code)
  /\ consent' = consent \cup {cred}
  /\ UNCHANGED <<files, lock, due, undone, ends>>

\* The tool, when called with confirmUpload, resumes before it joins; a folder
\* that is given (f # Null) must not be linked already (prepareJoinVaultDir).
NewJoin(t, f, yes, code) ==
  /\ (ProcOf[t] = "server" /\ yes) => (~Resumes(f, code) /\ ~Legacy(f))
  /\ f # Null => f # cred

\* A new join, after the server has accepted the code.
Join(t, f, yes, code) ==
  LET into == IF f = Null THEN DefaultFolder ELSE f
  IN  /\ MayBegin
      /\ NewJoin(t, f, yes, code)
      /\ Begin(t, "join", "cred", into, yes, code)
      /\ UNCHANGED <<files, lock, ghosts, ends>>

\* relinkPrepare, up to its first write: the folder that is linked already
\* and not pending is left as it is.
Link(t, f, yes) ==
  /\ MayBegin
  /\ cred # Null
  /\ f = cred => Pending(f)
  /\ Begin(t, "link", "cred", f, yes, Null)
  /\ UNCHANGED <<files, lock, ghosts, ends>>

Resync(t, yes) ==
  /\ MayBegin
  /\ cred # Null
  /\ Begin(t, "resync", "check", cred, yes, Null)
  /\ UNCHANGED <<files, lock, ghosts, ends>>

\* vault leave removes the credential, vault unlink the binding.
Leave ==
  /\ MayBegin
  /\ cred # Null
  /\ \/ cred' = Null /\ UNCHANGED <<binding, state>>
     \/ binding' = Null /\ UNCHANGED <<cred, state>>
  /\ UNCHANGED <<task, lock, ghosts, ends>>

-----------------------------------------------------------------------------
(* Adoption, step by step.                                                 *)

\* Writing the credential or resetting the state asks for consent anew.
Ask(f, yes) == consent' = IF yes THEN consent \cup {f} ELSE consent \ {f}

\* creds.set, naming the new folder.
WriteCred(t) ==
  LET f == task[t].folder
  IN  /\ At(t, "cred")
      /\ cred' = f
      /\ Ask(f, task[t].yes)
      /\ due' = due \cup {f}
      /\ Goto(t, "reset")
      /\ UNCHANGED <<binding, state, lock, undone, ops, ends>>

\* resyncPrepare reads the state: a pending one is not reset again.
CheckPending(t) ==
  /\ At(t, "check")
  /\ Goto(t, IF Pending(task[t].folder) THEN "gate" ELSE "reset")
  /\ UNCHANGED <<files, lock, ghosts, ops, ends>>

\* The tasks that hold a state of f they have read and will write back.
Holds(u, f) == task[u].folder = f /\ task[u].pc \in {"unset", "push", "pull"}

\* resetVaultState, with the code's hash when it is a join.
Reset(t) ==
  LET f == task[t].folder
  IN  /\ At(t, "reset")
      /\ state' = [state EXCEPT ![f] = [pending |-> TRUE, code |-> task[t].code]]
      /\ Ask(f, task[t].yes)
      /\ due' = due \ {f} /\ undone' = undone \ {f}
      /\ task' = [u \in Task |->
                   IF u = t THEN [task[u] EXCEPT !.pc = "gate"]
                   ELSE [task[u] EXCEPT !.stale = @ \/ Holds(u, f)]]
      /\ UNCHANGED <<cred, binding, lock, ops, ends>>

\* Mutant: any folder passes.
GateOpen(t) ==
  /\ At(t, "gate")
  /\ Goto(t, "clear")
  /\ UNCHANGED <<files, lock, ghosts, ops, ends>>

\* checkAdoptionGate: an empty folder or a confirmed one goes on; else the
\* user is told what would be uploaded, and a join still saves its binding.
Gate(t) ==
  LET f == task[t].folder
  IN  /\ At(t, "gate")
      /\ IF f \notin Filled \/ task[t].yes
         THEN Goto(t, "clear")
         ELSE IF task[t].op = "join" THEN Goto(t, "bind") ELSE Finish(t)
      /\ UNCHANGED <<files, lock, ghosts, ops, ends>>

\* finalizeAdoption reads the state ...
Clear(t) ==
  /\ At(t, "clear")
  /\ task' = [task EXCEPT ![t].base = state[task[t].folder],
                          ![t].pc = IF state[task[t].folder] = Null
                                    THEN "lock" ELSE "unset"]
  /\ UNCHANGED <<files, lock, ghosts, ops, ends>>

\* t writes s, which descends from the state it has read.
WriteBack(t, s) ==
  LET f == task[t].folder
  IN  /\ state' = [state EXCEPT ![f] = s]
      /\ undone' = IF task[t].stale THEN undone \cup {f} ELSE undone
      /\ UNCHANGED due

\* ... and writes it back without the flag and the code: what its user has
\* agreed to, if he was asked.
Unset(t) ==
  /\ At(t, "unset")
  /\ WriteBack(t, [task[t].base EXCEPT !.pending = FALSE, !.code = Null])
  /\ consent' = IF task[t].yes THEN consent \cup {task[t].folder} ELSE consent
  /\ Goto(t, "lock")
  /\ UNCHANGED <<cred, binding, lock, ops, ends>>

\* persistBindingAfterJoin; after a link, a binding that exists follows.
Bind(t) ==
  /\ At(t, "bind")
  /\ binding' = IF task[t].op = "link" /\ binding = Null THEN Null
                ELSE task[t].folder
  /\ Finish(t)
  /\ UNCHANGED <<cred, state, lock, ghosts, ops, ends>>

-----------------------------------------------------------------------------
(* Syncs.                                                                  *)

\* chamba_vault_sync waits for the lock; `vault sync` takes none.
SyncCommand(t) ==
  /\ cred # Null /\ Syncable(cred)
  /\ Begin(t, "sync", IF ProcOf[t] = "server" THEN "lock" ELSE "read",
           cred, FALSE, Null)
  /\ UNCHANGED <<files, lock, ghosts, ops, ends>>

\* resolveActiveParcheVault: by the binding, whose folder must be the
\* credential's and must not be pending; without one, by detecting a vault
\* that has a state.
AutoSyncs ==
  /\ cred # Null /\ ~Pending(cred)
  /\ IF binding # Null THEN binding = cred ELSE state[cred] # Null

\* maybeAutoSync: skipped when the lock is taken.
AutoSync(t) ==
  /\ ProcOf[t] = "server"
  /\ AutoSyncs
  /\ lock["server"] = Null
  /\ lock' = [lock EXCEPT !["server"] = t]
  /\ Begin(t, "sync", "read", cred, FALSE, Null)
  /\ UNCHANGED <<files, ghosts, ops, ends>>

TakeLock(t) ==
  /\ At(t, "lock")
  /\ lock[ProcOf[t]] = Null
  /\ lock' = [lock EXCEPT ![ProcOf[t]] = t]
  /\ Goto(t, "read")
  /\ UNCHANGED <<files, ghosts, ops, ends>>

\* The task is over, and the lock free if it held it.
Unlocked(t) == [p \in Proc |-> IF lock[p] = t THEN Null ELSE lock[p]]

\* syncOnce reads the state, and throws when it is pending.
ReadState(t) ==
  LET f == task[t].folder
  IN  /\ At(t, "read")
      /\ IF Pending(f)
         THEN Finish(t) /\ lock' = Unlocked(t)
         ELSE /\ task' = [task EXCEPT ![t].pc = "push", ![t].base = state[f],
                                      ![t].stale = FALSE, ![t].agreed = f \in consent,
                                      ![t].exposed = f \in due \cup undone]
              /\ UNCHANGED lock
      /\ UNCHANGED <<files, ghosts, ops, ends>>

\* mergeIntoStateFile: what is saved descends from what was read.
Saved(t) == IF task[t].base = Null
            THEN [pending |-> FALSE, code |-> Null]
            ELSE task[t].base

\* The push uploads the folder's files, and the state is saved.
Push(t) ==
  /\ At(t, "push")
  /\ WriteBack(t, Saved(t))
  /\ task' = [task EXCEPT ![t].pc = "pull", ![t].agreed = FALSE, ![t].exposed = FALSE]
  /\ UNCHANGED <<cred, binding, lock, consent, ops, ends>>

\* The pull is applied and the state saved again; a join and a link go on to
\* the binding.
Pull(t) ==
  /\ At(t, "pull")
  /\ WriteBack(t, Saved(t))
  /\ IF task[t].op \in {"join", "link"} THEN Goto(t, "bind") ELSE Finish(t)
  /\ lock' = Unlocked(t)
  /\ UNCHANGED <<cred, binding, consent, ops, ends>>

-----------------------------------------------------------------------------

\* A task throws.
Fail(t) ==
  /\ ~At(t, "idle")
  /\ ends < MaxEnds /\ ends' = ends + 1
  /\ Finish(t)
  /\ lock' = Unlocked(t)
  /\ UNCHANGED <<files, ghosts, ops>>

\* A process is killed.
Crash(p) ==
  /\ \E t \in Task : ProcOf[t] = p /\ ~At(t, "idle")
  /\ ends < MaxEnds /\ ends' = ends + 1
  /\ task' = [t \in Task |-> IF ProcOf[t] = p THEN Idle ELSE task[t]]
  /\ lock' = [lock EXCEPT ![p] = Null]
  /\ UNCHANGED <<files, ghosts, ops>>

Step(t) ==
  \/ WriteCred(t) \/ CheckPending(t) \/ Reset(t) \/ Gate(t) \/ Clear(t)
  \/ Unset(t) \/ Bind(t) \/ TakeLock(t) \/ ReadState(t) \/ Push(t) \/ Pull(t)

Start(t) ==
  \/ \E f \in Folder \cup {Null}, code \in Code :
       \/ ResumeJoin(t, f, code)
       \/ \E yes \in BOOLEAN : Join(t, f, yes, code)
  \/ \E f \in Folder, yes \in BOOLEAN : Link(t, f, yes)
  \/ \E yes \in BOOLEAN : Resync(t, yes)
  \/ SyncCommand(t) \/ AutoSync(t)

Next ==
  \/ \E t \in Task : Start(t) \/ Step(t) \/ Fail(t)
  \/ Leave
  \/ \E p \in Proc : Crash(p)

Spec == Init /\ [][Next]_vars

-----------------------------------------------------------------------------

Uploads(t) == At(t, "push") /\ task[t].folder \in Filled

\* What the READMEs promise of join, link and resync: a sync that uploads a
\* folder with files of its own began with its user's consent.
NothingUnconfirmed == \A t \in Task : Uploads(t) => task[t].agreed

\* What the code keeps of it, with any operations, syncs, failures and crashes
\* beside each other: without consent a folder goes up only when the sync began
\* in the gap between its credential and its reset (joinOnce, relinkPrepare), or
\* after its reset was undone by a task that had read the state before.
UnconfirmedOnlyInRaces ==
  \A t \in Task : Uploads(t) => task[t].agreed \/ task[t].exposed

=============================================================================
