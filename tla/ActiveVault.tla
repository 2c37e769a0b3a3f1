----------------------------- MODULE ActiveVault -----------------------------
(***************************************************************************)
(* Which parche, and which folder, chamba syncs when nobody names one.     *)
(*                                                                         *)
(* Three kinds of file say it together: credentials.json (one entry per    *)
(* parche, naming its folder), the parche.json of the workspace and that   *)
(* of the home, and the state.json of each folder.  They are written one   *)
(* after the other by the commands of mcp/src/parche/binding-ops.ts (join, *)
(* link, resync, leave, unlink), which a failure may cut anywhere, and     *)
(* read by mcp/src/parche/active-vault.ts before each automatic sync.      *)
(*                                                                         *)
(* AdoptionGate has one parche and follows what may be uploaded when.      *)
(* This module has several parches and two scopes, and follows whether the *)
(* files agree.  Its steps end where a file is written.                    *)
(***************************************************************************)
EXTENDS Naturals, Sequences

CONSTANTS
  Slug, Folder, Null,
  Invalid,         \* a parche.json that cannot be read
  DefaultFolder,   \* resolveVaultDir: where a parche goes without a folder
  WsVault,         \* the folder vault/ of the workspace
  EnvPath,         \* CHAMBA_OBSIDIAN_VAULT_PATH, or Null
  SearchRoots,     \* where an Obsidian vault is looked for, in order
  FirstDirs,       \* the folders that exist at the start
  MaxOps,          \* user commands (bound)
  MaxEvents        \* failures and changes from outside (bound)

Scope == {"workspace", "global"}

ASSUME ActiveVaultAssumption ==
  /\ Null \notin Folder \cup Slug /\ Invalid # Null
  /\ DefaultFolder \in [Slug -> Folder]
  /\ \A s, t \in Slug : DefaultFolder[s] = DefaultFolder[t] => s = t
  /\ WsVault \in Folder /\ EnvPath \in Folder \cup {Null}
  /\ SearchRoots \in Seq(Folder) /\ FirstDirs \subseteq Folder
  /\ MaxOps \in Nat /\ MaxEvents \in Nat

VARIABLES
  cred,     \* cred[s]: the folder in s's credential, Null without one
  dirs,     \* the folders that exist
  state,    \* state[f]: f's state.json, or Null
  binding,  \* binding[scope]: what parche.json says, Invalid, or Null
  call,     \* the command that runs, or Idle
  last,     \* ghost: the last command that ended well, or Null
  ops, events

vars == <<cred, dirs, state, binding, call, last, ops, events>>
files == <<cred, dirs, state, binding>>

Vault   == [slug: Slug, folder: Folder]

ASSUME NoVault == Null \notin Vault /\ Invalid \notin Vault

\* The parts of state.json that matter here.  hash: it keeps the hash of the
\* code it was joined with.
State == [slug: Slug, pending: BOOLEAN, hash: BOOLEAN]

\* yes: the adoption gate lets it pass.
Call == [op: {"join", "resume", "link", "resync"}, slug: Slug, folder: Folder,
         scope: Scope, inside: BOOLEAN, yes: BOOLEAN,
         pc: {"cred", "reset", "gate", "clear", "sync", "bind"}]

TypeOK ==
  /\ cred \in [Slug -> Folder \cup {Null}]
  /\ dirs \subseteq Folder
  /\ state \in [Folder -> State \cup {Null}]
  /\ binding \in [Scope -> Vault \cup {Null, Invalid}]
  /\ call \in Call \cup {Null} /\ last \in Call \cup {Null}
  /\ ops \in Nat /\ events \in Nat

Init ==
  /\ cred = [s \in Slug |-> Null]
  /\ dirs = FirstDirs
  /\ state = [f \in Folder |-> Null]
  /\ binding = [sc \in Scope |-> Null]
  /\ call = Null /\ last = Null
  /\ ops = 0 /\ events = 0

-----------------------------------------------------------------------------
(* What the files say.                                                     *)

Known(s)   == cred[s] # Null
Pending(f) == state[f] # Null /\ state[f].pending
VaultOf(s) == [slug |-> s, folder |-> cred[s]]

\* A binding is followed only when its credential names the same folder, and
\* that folder exists and is not pending; its state may be missing.
FromBinding(b) ==
  IF /\ b # Invalid
     /\ Known(b.slug) /\ cred[b.slug] = b.folder
     /\ b.folder \in dirs /\ ~Pending(b.folder)
  THEN VaultOf(b.slug) ELSE Null

\* ObsidianDetector: an explicit path, else the first root that is a vault.
Detected ==
  LET found == SelectSeq(IF EnvPath = Null THEN SearchRoots ELSE <<EnvPath>>,
                         LAMBDA f : f \in dirs)
  IN  IF found = <<>> THEN Null ELSE Head(found)

\* A folder that was found is followed by the slug of its state.
FromDetection(f) ==
  IF /\ f # Null /\ state[f] # Null /\ ~state[f].pending
     /\ cred[state[f].slug] = f
  THEN VaultOf(state[f].slug) ELSE Null

\* Mutant: a binding that cannot be followed gives way to the next source.
ActiveFallingThrough(inside) ==
  CASE inside /\ binding["workspace"] # Null
         /\ FromBinding(binding["workspace"]) # Null
         -> FromBinding(binding["workspace"])
    [] EnvPath # Null /\ FromDetection(Detected) # Null -> FromDetection(Detected)
    [] binding["global"] # Null /\ FromBinding(binding["global"]) # Null
         -> FromBinding(binding["global"])
    [] OTHER -> FromDetection(Detected)

\* resolveActiveParcheVaultFull: the workspace's binding, the environment,
\* the global binding, detection.  A binding that exists is the answer, also
\* when it cannot be followed.  inside: called in the workspace.
ActiveParcheVault(inside) ==
  LET first  == inside /\ binding["workspace"] # Null
      env    == EnvPath # Null /\ FromDetection(Detected) # Null
      global == binding["global"] # Null
  IN  CASE first                     -> FromBinding(binding["workspace"])
        [] ~first /\ env             -> FromDetection(Detected)
        [] ~first /\ ~env /\ global  -> FromBinding(binding["global"])
        [] ~first /\ ~env /\ ~global -> FromDetection(Detected)

-----------------------------------------------------------------------------
(* The commands, up to their first write.                                  *)

MayStart == call = Null /\ ops < MaxOps /\ ops' = ops + 1 /\ last' = Null

Start(op, pc, s, f, scope, inside, yes) ==
  call' = [op |-> op, slug |-> s, folder |-> f, scope |-> scope,
           inside |-> inside, yes |-> yes, pc |-> pc]

\* Mutant: only the folder of the parche itself is refused.
LinkedToIt(f, slugs) == \E s \in Slug \ slugs : cred[s] = f

\* prepareVaultDir's already_linked: the folder of another parche is refused;
\* a join does not know its parche yet, and is refused that of any.
LinkedTo(f, slugs) == \E s \in slugs : cred[s] = f

\* The folder of a join: the one given, the workspace's vault/, or none.
JoinDir(dir, scope) ==
  IF dir = Null /\ scope = "workspace" /\ WsVault \in dirs THEN WsVault ELSE dir

\* resolveJoinScope: the workspace scope exists only inside one.
ScopeFits(scope, inside) == scope = "workspace" => inside

\* The common part of a join; a failure of the server ends it unchanged.
NewJoin(s, dir, scope, inside, yes) ==
  LET into == JoinDir(dir, scope)
  IN  /\ ScopeFits(scope, inside)
      /\ into # Null => ~LinkedTo(into, Slug)
      /\ dirs' = IF into = Null THEN dirs ELSE dirs \cup {into}
      /\ Start("join", "cred", s, IF into = Null THEN DefaultFolder[s] ELSE into,
               scope, inside, yes)
      /\ UNCHANGED <<cred, state, binding, events>>

\* `vault join`: a workspace that is bound takes codes of that parche only.
CliJoin(s, dir, scope, inside, yes) ==
  LET bound == binding["workspace"]
  IN  /\ MayStart
      /\ scope = "workspace" /\ bound \notin {Null, Invalid} => bound.slug = s
      /\ NewJoin(s, dir, scope, inside, yes)

Waits(t, dir) ==
  /\ Known(t) /\ cred[t] \in dirs /\ Pending(cred[t])
  /\ dir \in {Null, cred[t]}

\* chamba_vault_join: called with confirmUpload it first looks for the folder
\* that waits with this code; one that waits without a code refuses it.
Resumes(s, dir) == Waits(s, dir) /\ state[cred[s]].hash
Legacy(dir)     == {t \in Slug : Waits(t, dir) /\ ~state[cred[t]].hash}

ToolJoin(s, dir, scope, inside, yes) ==
  /\ MayStart
  /\ yes => ~Resumes(s, dir) /\ \A t \in Legacy(dir) : Legacy(dir) # {t}
  /\ NewJoin(s, dir, scope, inside, yes)

ResumeJoin(s, dir, inside) ==
  /\ MayStart
  /\ Resumes(s, dir)
  /\ Start("resume", "clear", s, cred[s], "global", inside, TRUE)
  /\ UNCHANGED <<files, events>>

\* relinkPrepare: the folder is made; the one linked already, when it is not
\* pending, is left as it is.
Link(s, f, inside, yes) ==
  /\ MayStart
  /\ Known(s) /\ ~LinkedTo(f, Slug \ {s})
  /\ dirs' = dirs \cup {f}
  /\ IF f = cred[s] /\ ~Pending(f)
     THEN UNCHANGED call
     ELSE Start("link", "cred", s, f, "global", inside, yes)
  /\ UNCHANGED <<cred, state, binding, events>>

\* resyncPrepare: a state that is pending is not reset again.
Resync(s, inside, yes) ==
  /\ MayStart
  /\ Known(s) /\ cred[s] \in dirs
  /\ Start("resync", IF Pending(cred[s]) THEN "gate" ELSE "reset",
           s, cred[s], "global", inside, yes)
  /\ UNCHANGED <<files, events>>

\* `vault leave`: only the credential goes.
Leave(s) ==
  /\ MayStart
  /\ Known(s)
  /\ cred' = [cred EXCEPT ![s] = Null]
  /\ UNCHANGED <<dirs, state, binding, call, events>>

\* removeBinding: only parche.json goes, valid or not.
Unlink(scope, inside) ==
  /\ MayStart
  /\ ScopeFits(scope, inside) /\ binding[scope] # Null
  /\ binding' = [binding EXCEPT ![scope] = Null]
  /\ UNCHANGED <<cred, dirs, state, call, events>>

-----------------------------------------------------------------------------
(* The steps of a command.                                                 *)

At(pc)   == call # Null /\ call.pc = pc
Goto(pc) == call' = [call EXCEPT !.pc = pc]

\* creds.set, and the folder is made.
WriteCred ==
  /\ At("cred")
  /\ cred' = [cred EXCEPT ![call.slug] = call.folder]
  /\ dirs' = dirs \cup {call.folder}
  /\ Goto("reset")
  /\ UNCHANGED <<state, binding, last, ops, events>>

\* resetVaultState: it makes the folder of state.json.
Reset ==
  /\ At("reset")
  /\ state' = [state EXCEPT ![call.folder] =
       [slug |-> call.slug, pending |-> TRUE, hash |-> call.op = "join"]]
  /\ dirs' = dirs \cup {call.folder}
  /\ Goto("gate")
  /\ UNCHANGED <<cred, binding, last, ops, events>>

\* runAdoptionGate; a join that is not confirmed still writes its binding.
Gate ==
  /\ At("gate")
  /\ CASE call.yes                      -> Goto("clear")
       [] ~call.yes /\ call.op = "join" -> Goto("bind")
       [] OTHER                         -> call' = Null
  /\ UNCHANGED <<files, last, ops, events>>

\* finalizeAdoption clears the flag of a state that exists ...
Clear ==
  /\ At("clear")
  /\ state' = IF state[call.folder] = Null THEN state
              ELSE [state EXCEPT ![call.folder] =
                      [@ EXCEPT !.pending = FALSE, !.hash = FALSE]]
  /\ Goto("sync")
  /\ UNCHANGED <<cred, dirs, binding, last, ops, events>>

\* syncOnce in folder f as parche s leaves a state; one that is missing is
\* written anew.
Synced(f, s) ==
  IF state[f] = Null
  THEN [state EXCEPT ![f] = [slug |-> s, pending |-> FALSE, hash |-> FALSE]]
  ELSE state

\* ... and syncs; syncOnce throws when the folder is gone or pending again.
FirstSync ==
  /\ At("sync")
  /\ IF call.folder \in dirs /\ ~Pending(call.folder)
     THEN /\ state' = Synced(call.folder, call.slug)
          /\ IF call.op \in {"join", "link"} THEN Goto("bind") ELSE call' = Null
     ELSE call' = Null /\ UNCHANGED state
  /\ UNCHANGED <<cred, dirs, binding, last, ops, events>>

Ended == call' = Null /\ last' = call

\* persistBindingAfterJoin.
BindJoin ==
  /\ At("bind") /\ call.op = "join"
  /\ binding' = [binding EXCEPT ![call.scope] = VaultOf(call.slug)]
  /\ Ended
  /\ UNCHANGED <<cred, dirs, state, ops, events>>

Names(scope, s) == binding[scope] \notin {Null, Invalid} /\ binding[scope].slug = s

\* Mutant: the workspace's binding is left alone.
BindLinkGlobal ==
  /\ At("bind") /\ call.op = "link"
  /\ binding' = IF Names("global", call.slug)
                THEN [binding EXCEPT !["global"] = VaultOf(call.slug)]
                ELSE binding
  /\ Ended
  /\ UNCHANGED <<cred, dirs, state, ops, events>>

\* updateBindingVaultDirForSlug: every binding of the slug that can be seen
\* from here follows.
BindLink ==
  /\ At("bind") /\ call.op = "link"
  /\ binding' = [sc \in Scope |->
       IF Names(sc, call.slug) /\ ScopeFits(sc, call.inside)
       THEN VaultOf(call.slug) ELSE binding[sc]]
  /\ Ended
  /\ UNCHANGED <<cred, dirs, state, ops, events>>

-----------------------------------------------------------------------------
(* Beside the commands.                                                    *)

\* maybeAutoSync in the vault that was resolved.
AutoSync(inside) ==
  LET v == ActiveParcheVault(inside)
  IN  /\ v # Null
      /\ state' = Synced(v.folder, v.slug)
      /\ UNCHANGED <<cred, dirs, binding, call, last, ops, events>>

Event == events < MaxEvents /\ events' = events + 1

\* The network fails, the process is killed.
Fail ==
  /\ Event /\ call # Null
  /\ call' = Null
  /\ UNCHANGED <<files, last, ops>>

\* The user deletes a folder; a pull of the workspace's repository brings a
\* parche.json a colleague committed, or one with conflict markers.
RemoveFolder(f) ==
  /\ Event /\ f \in dirs
  /\ dirs' = dirs \ {f}
  /\ state' = [state EXCEPT ![f] = Null]
  /\ last' = Null
  /\ UNCHANGED <<cred, binding, call, ops>>

PullBinding(b) ==
  /\ Event
  /\ binding' = [binding EXCEPT !["workspace"] = b]
  /\ last' = Null
  /\ UNCHANGED <<cred, dirs, state, call, ops>>

Next ==
  \/ \E s \in Slug, inside, yes \in BOOLEAN :
       \/ \E dir \in Folder \cup {Null}, scope \in Scope :
            CliJoin(s, dir, scope, inside, yes) \/ ToolJoin(s, dir, scope, inside, yes)
       \/ \E dir \in Folder \cup {Null} : ResumeJoin(s, dir, inside)
       \/ \E f \in Folder : Link(s, f, inside, yes)
       \/ Resync(s, inside, yes)
  \/ \E s \in Slug : Leave(s)
  \/ \E scope \in Scope, inside \in BOOLEAN : Unlink(scope, inside)
  \/ WriteCred \/ Reset \/ Gate \/ Clear \/ FirstSync \/ BindJoin \/ BindLink
  \/ \E inside \in BOOLEAN : AutoSync(inside)
  \/ Fail
  \/ \E f \in Folder : RemoveFolder(f)
  \/ \E s \in Slug : PullBinding([slug |-> s, folder |-> WsVault])
  \/ PullBinding(Invalid)

Spec == Init /\ [][Next]_vars

-----------------------------------------------------------------------------

\* Two parches never write into one folder, whatever joins, links and leaves
\* came before: only a default folder that a user gave to another parche can
\* come to be shared, by the join without a folder that goes there.
OneParchePerFolder ==
  \A s, t \in Slug :
    s # t /\ Known(s) /\ cred[s] = cred[t]
      => cred[s] \in {DefaultFolder[s], DefaultFolder[t]}

\* A workspace that names its parche never has another one synced in its
\* place, whichever of the three files was left behind by a command that
\* failed, and a global or detected vault does not step in.
WorkspaceKeepsItsParche ==
  LET v == ActiveParcheVault(TRUE)
  IN  binding["workspace"] # Null /\ v # Null => binding["workspace"] = v

\* The command and the resolution agree: once a join has ended with its
\* upload confirmed, the automatic sync of its scope is that of its parche and
\* its folder; and once a link has ended, a workspace or home bound to the
\* parche syncs the new folder.
CommandIsFollowed ==
  last # Null /\ last.yes /\ last.folder \in dirs =>
    LET v == [slug |-> last.slug, folder |-> last.folder]
    IN  /\ last.op = "join" /\ last.scope = "workspace" => ActiveParcheVault(TRUE) = v
        /\ last.op = "join" /\ last.scope = "global" /\ EnvPath = Null
             => ActiveParcheVault(FALSE) = v
        /\ \A sc \in Scope :
             last.op = "link" /\ Names(sc, last.slug) /\ ScopeFits(sc, last.inside)
               => FromBinding(binding[sc]) = v
=============================================================================
