-------------------------- MODULE InstallerProofs --------------------------
(***************************************************************************)
(* For any assets, files and servers of the user, any roles and settings:  *)
(* a pinned snapshot is not lost (PinnedStay); the other MCP servers stay  *)
(* registered (ServersStay), as what the installer is about to write is    *)
(* still based on what is there while no one else touches the file         *)
(* (JsonRead); the commands that change part of the configuration change   *)
(* nothing else that the tools resolve (PolicyStaysPut), as a file that    *)
(* cannot be used says nothing (ConfOk); an apply that ends has put in     *)
(* place what the layers ask for (AppliedIsWanted), as every subagent is   *)
(* pending, edited or as it should be (AppliedSoFar); and what a forced    *)
(* install or an uninstall destroys is in a snapshot (UserWorkStays) and   *)
(* comes back with a rollback (UndoIsRestored), as the snapshots are       *)
(* ordered by their times (StoreOk), the newest of them survives dedup and *)
(* pruning (SnapshotSaves, TopIsKept) and holds what the last command      *)
(* saved (SavedSoFar, UndoOnTop).                                          *)
(***************************************************************************)
EXTENDS Installer, FiniteSetTheorems, WellFoundedInduction, TLAPS

\* A field of a configuration file is replaced.
LEMMA FieldPut ==
  ASSUME NEW f, f = [state |-> f.state, defaults |-> f.defaults, overrides |-> f.overrides, worktrees |-> f.worktrees],
         NEW p
  PROVE  /\ [f EXCEPT !.defaults = p]
              = [state |-> f.state, defaults |-> p, overrides |-> f.overrides, worktrees |-> f.worktrees]
         /\ [f EXCEPT !.overrides = p]
              = [state |-> f.state, defaults |-> f.defaults, overrides |-> p, worktrees |-> f.worktrees]
         /\ [f EXCEPT !.worktrees = p]
              = [state |-> f.state, defaults |-> f.defaults, overrides |-> f.overrides, worktrees |-> p]
OBVIOUS

USE InstallerAssumption, ConfigAssumption

\* What a command does to the snapshots, whatever it is.
LEMMA SaveKeeps ==
  ASSUME NEW S, NEW files, NEW now
  PROVE  S \subseteq Save(S, files, now)
BY DEF Save

LEMMA PrunedKeeps ==
  ASSUME NEW S, NEW keep, NEW s \in S, s.pinned
  PROVE  s \in Pruned(S, keep)
BY DEF Pruned

LEMMA PinKeeps ==
  ASSUME NEW S, NEW id, NEW s \in S, s.id # id
  PROVE  s \in Pin(S, id)
BY DEF Pin

Stays(s) == s \in snaps'

LEMMA PinnedStays ==
  ASSUME [Next]_vars, NEW s \in snaps, s.pinned, ~(op.kind = "pin" /\ op.id = s.id)
  PROVE  Stays(s)
<1>1. CASE Snapshot
  BY <1>1, SaveKeeps DEF Snapshot, Stays
<1>2. CASE Prune
  BY <1>2, PrunedKeeps DEF Prune, Stays
<1>3. CASE PinSnapshot
  BY <1>3, PinKeeps DEF PinSnapshot, At, Stays
<1>4. CASE CrashWhilePinning
  BY <1>4 DEF CrashWhilePinning, At, Stays
<1>5. CASE UNCHANGED snaps
  BY <1>5 DEF Stays
<1>6. [Next]_vars => \/ UNCHANGED snaps
                     \/ Snapshot \/ Prune \/ PinSnapshot \/ CrashWhilePinning
  BY DEF Next, vars, Install, ClaudeInstall, OpenCodeInstall, CursorInstall, ClaudeUninstall,
         OpenCodeUninstall, CursorUninstall, Apply, PinCommand, Rollback, Begin, ConfigPreset,
         ConfigSet, SetsRole, ConfigWorktrees, ConfigReset, Rewrite, ConfigWizard, RunWizard, LoadSnapshot,
         Restore, InstallAsset, UninstallAsset, ApplyAsset, ApplyEnds, ReadJson, WriteJson,
         UserEdits, EditorWrites, UserEditsConfig, Crash
<1> QED BY <1>1, <1>2, <1>3, <1>4, <1>5, <1>6

\* A pinned snapshot stays, with its files, whatever else is saved, pruned and
\* pinned: only the death of a process that pins it again can take it away.
THEOREM PinnedStay == Spec => PinnedKept
<1>1. [Next]_vars => [\A s \in snaps : s.pinned /\ ~(op.kind = "pin" /\ op.id = s.id)
                        => \E t \in snaps' : t.id = s.id /\ t.files = s.files /\ t.pinned]_vars
  BY PinnedStays DEF Stays
<1> QED BY <1>1, PTL DEF Spec, PinnedKept

-----------------------------------------------------------------------------
(* The servers.                                                            *)

IsJson(f) == DOMAIN f = {"is", "strict", "servers", "chamba"} /\ f.is = "json"
FileOk(f) == f = Missing \/ IsJson(f)
FilesOk(files) == Json \in DOMAIN files => FileOk(files[Json])

\* The file on the disk and every copy of it is one an editor can have, and
\* the command holds what the records of the module say it holds.
DiskOk == DOMAIN disk = Names \cup {Json} /\ FileOk(disk[Json])
SnapsOk == \A s \in snaps : DOMAIN s = {"id", "at", "files", "pinned"} /\ FilesOk(s.files)
OpShape(o) == DOMAIN o = {"kind", "at", "force", "global", "id", "todo", "config", "json", "files", "touched"}
OpOk(o) == /\ o.kind = "none" => o.at = "idle"
           /\ o.kind \in {"install", "uninstall", "apply"} => o.todo \in Seq(Names)
           /\ FilesOk(o.files)
           /\ o.at = "json" => IsJson(o.json)

\* What is about to be written is based on the file as it is.
JsonRead(o, d) == o.at = "json" /\ Json \notin o.touched => o.json = Parsed(d[Json])

JInv == DiskOk /\ SnapsOk /\ OpShape(op) /\ OpOk(op) /\ JsonRead(op, disk)

LEMMA AssetNames == Assets \in Seq(Names)
BY DEF Names, Range

LEMMA NoOpOk == OpShape(NoOp) /\ OpOk(NoOp) /\ \A d : JsonRead(NoOp, d)
<1>1. OpShape(NoOp) BY DEF OpShape, NoOp
<1>2. FilesOk(NoFiles) BY DEF FilesOk, NoFiles, Json
<1>3. NoOp.kind = "none" /\ NoOp.at = "idle" /\ NoOp.files = NoFiles BY DEF NoOp
<1> QED BY <1>1, <1>2, <1>3 DEF OpOk, JsonRead

\* What a command starts from.
Fresh(o, kind, at) ==
  DOMAIN o = DOMAIN NoOp /\ o.kind = kind /\ o.at = at /\ o.todo = Assets /\ o.files = NoOp.files

LEMMA CommandOk ==
  ASSUME NEW kind, NEW at, at # "json", kind # "none", NEW o, Fresh(o, kind, at)
  PROVE  OpShape(o) /\ OpOk(o) /\ \A d : JsonRead(o, d)
<1> USE DEF Fresh
<1>1. OpShape(o) BY NoOpOk DEF OpShape
<1>2. FilesOk(NoOp.files) BY NoOpOk DEF OpOk
<1>3. OpOk(o) BY <1>2, AssetNames DEF OpOk
<1>4. \A d : JsonRead(o, d) BY DEF JsonRead
<1> QED BY <1>1, <1>3, <1>4

LEMMA InitJInv == Init => JInv
<1> SUFFICES ASSUME Init PROVE JInv OBVIOUS
<1>1. DiskOk BY DEF Init, DiskOk, FileOk, IsJson, JsonFile
<1>2. SnapsOk BY DEF Init, SnapsOk
<1> QED BY <1>1, <1>2, NoOpOk DEF Init, JInv

LEMMA CommandFields ==
  ASSUME NEW kind, NEW at, NEW force, NEW global, NEW id, NEW o,
         \/ o = Command(kind, at)
         \/ o = [Command(kind, at) EXCEPT !.force = force, !.global = global]
         \/ o = [Command(kind, at) EXCEPT !.id = id]
  PROVE  Fresh(o, kind, at)
<1>1. DOMAIN NoOp = {"kind", "at", "force", "global", "id", "todo", "config", "json", "files", "touched"}
  BY NoOpOk DEF OpShape
<1> QED BY <1>1 DEF Command, Fresh

\* A command begins, at the place where its kind does.
Starts ==
  \/ Install \/ ClaudeUninstall \/ OpenCodeUninstall \/ CursorUninstall \/ Apply \/ ConfigWizard
  \/ (\E id \in Ids : PinCommand(id) \/ Rollback(id)) \/ Rollback("newest")
Opening(kind, at) ==
  /\ kind \in {"install", "uninstall", "apply", "pin", "rollback"}
  /\ at \in {"wizard", "snapshot", "assets", "pin", "load"}
  /\ kind \in {"install", "uninstall"} /\ editor = "claude" => at \in {"wizard", "snapshot"}
  /\ kind = "apply" => editor = "claude" /\ op' = Command("apply", "assets")
Began == \E kind, at : Opening(kind, at) /\ Fresh(op', kind, at)

LEMMA StartsFresh ==
  ASSUME Starts
  PROVE  Idle /\ UNCHANGED <<editor, disk, snaps, clock, undo, left>> /\ Began
<1>1. Idle /\ UNCHANGED <<editor, disk, snaps, clock, undo, left>>
  BY DEF Starts, Install, ClaudeInstall, OpenCodeInstall, CursorInstall, ClaudeUninstall, OpenCodeUninstall,
         CursorUninstall, Apply, ConfigWizard, PinCommand, Rollback, Begin
<1> DEFINE Started(kind, at) ==
      \/ op' = Command(kind, at)
      \/ \E force, global : op' = [Command(kind, at) EXCEPT !.force = force, !.global = global]
      \/ \E id : op' = [Command(kind, at) EXCEPT !.id = id]
<1>2. \E kind, at : Opening(kind, at) /\ Started(kind, at)
  <2>1. CASE Install
    <3>1. Started("install", IF editor = "claude" THEN "wizard" ELSE "assets")
      BY <2>1 DEF Install, ClaudeInstall, OpenCodeInstall, CursorInstall, Begin
    <3> HIDE DEF Started
    <3> QED BY <3>1 DEF Opening
  <2>2. CASE ClaudeUninstall
    <3>1. Started("uninstall", "snapshot")
      BY <2>2 DEF ClaudeUninstall, Begin
    <3> HIDE DEF Started
    <3> QED BY <3>1 DEF Opening
  <2>3. CASE OpenCodeUninstall \/ CursorUninstall
    <3>1. Started("uninstall", "assets") /\ editor # "claude"
      BY <2>3 DEF OpenCodeUninstall, CursorUninstall, Begin
    <3> HIDE DEF Started
    <3> QED BY <3>1 DEF Opening
  <2>4. CASE Apply \/ ConfigWizard
    <3>1. Started("apply", "assets") /\ op' = Command("apply", "assets") /\ editor = "claude"
      BY <2>4 DEF Apply, ConfigWizard, Begin
    <3> HIDE DEF Started
    <3> QED BY <3>1 DEF Opening
  <2>5. CASE (\E id \in Ids : PinCommand(id) \/ Rollback(id)) \/ Rollback("newest")
    <3>1. Started("pin", "pin") \/ Started("rollback", "load")
      BY <2>5 DEF PinCommand, Rollback, Begin
    <3> HIDE DEF Started
    <3> QED BY <3>1 DEF Opening
  <2> QED BY <2>1, <2>2, <2>3, <2>4, <2>5 DEF Starts
<1> HIDE DEF Started
<1>3. PICK kind, at : Opening(kind, at) /\ Started(kind, at) BY <1>2
<1>4. Fresh(op', kind, at)
  <2>1. PICK force, global, id : \/ op' = Command(kind, at)
                                 \/ op' = [Command(kind, at) EXCEPT !.force = force, !.global = global]
                                 \/ op' = [Command(kind, at) EXCEPT !.id = id]
    BY <1>3 DEF Started
  <2> QED BY <2>1, CommandFields
<1> QED BY <1>1, <1>3, <1>4 DEF Began

LEMMA BeginStep == ASSUME JInv, Starts PROVE JInv'
<1>1. UNCHANGED <<disk, snaps>>
  BY StartsFresh
<1>2. PICK kind, at : Opening(kind, at) /\ Fresh(op', kind, at)
  BY StartsFresh DEF Began
<1>3. OpShape(op') /\ OpOk(op') /\ \A d : JsonRead(op', d)
  BY <1>2, CommandOk DEF Opening
<1>4. DiskOk' /\ SnapsOk' BY <1>1 DEF JInv, DiskOk, SnapsOk
<1> QED BY <1>3, <1>4 DEF JInv

\* The command goes on to another place, and the disk stays.
LEMMA GotoOk ==
  ASSUME OpShape(op), OpOk(op), NEW at, at # "json", op.kind # "none", Goto(at)
  PROVE  OpShape(op') /\ OpOk(op') /\ \A d : JsonRead(op', d)
<1>1. OpShape(op') BY DEF Goto, OpShape
<1>2. op'.at = at /\ op'.kind = op.kind /\ op'.todo = op.todo /\ op'.files = op.files
  BY DEF Goto, OpShape
<1>3. OpOk(op') BY <1>2 DEF OpOk
<1> QED BY <1>1, <1>2, <1>3 DEF JsonRead

LEMMA SaveOk ==
  ASSUME SnapsOk, DiskOk, Snapshot
  PROVE  SnapsOk'
<1>1. FilesOk(Captured)
  BY DEF DiskOk, FilesOk, Captured
<1>2. \A s \in Save(snaps, Captured, clock') : s \in snaps \/
         (DOMAIN s = {"id", "at", "files", "pinned"} /\ s.files = Captured)
  BY DEF Save
<1>3. snaps' = snaps \/ snaps' = Save(snaps, Captured, clock') BY DEF Snapshot
<1> QED BY <1>1, <1>2, <1>3 DEF SnapsOk

LEMMA SnapshotStep == ASSUME JInv, RunWizard \/ Snapshot \/ Prune PROVE JInv'
<1>1. disk' = disk BY DEF RunWizard, Snapshot, Prune
<1>2. DiskOk' BY <1>1 DEF JInv, DiskOk
<1>3. SnapsOk'
  <2>1. CASE RunWizard BY <2>1 DEF RunWizard, JInv, SnapsOk
  <2>2. CASE Snapshot BY <2>2, SaveOk DEF JInv
  <2>3. CASE Prune BY <2>3 DEF Prune, Pruned, Newest, JInv, SnapsOk
  <2> QED BY <2>1, <2>2, <2>3
<1>4. op.kind # "none" /\ \E at \in {"snapshot", "assets", "prune"} : Goto(at)
  BY DEF RunWizard, Snapshot, Prune, At
<1>5. OpShape(op') /\ OpOk(op') /\ JsonRead(op', disk')
  BY <1>4, GotoOk DEF JInv
<1> QED BY <1>2, <1>3, <1>5 DEF JInv

\* The command ends, or its process dies.
LEMMA DoneStep ==
  ASSUME JInv, PinSnapshot \/ ApplyEnds \/ CrashWhilePinning
  PROVE  JInv'
<1>1. disk' = disk /\ op' = NoOp BY DEF PinSnapshot, ApplyEnds, CrashWhilePinning, Done
<1>2. DiskOk' BY <1>1 DEF JInv, DiskOk
<1>3. SnapsOk'
  <2>1. CASE PinSnapshot
    <3>1. \A s \in snaps : LET t == [s EXCEPT !.pinned = TRUE]
                           IN  DOMAIN t = {"id", "at", "files", "pinned"} /\ t.files = s.files
      BY DEF JInv, SnapsOk
    <3> QED BY <2>1, <3>1 DEF PinSnapshot, Pin, JInv, SnapsOk
  <2>2. CASE ApplyEnds \/ CrashWhilePinning BY <2>2 DEF ApplyEnds, CrashWhilePinning, JInv, SnapsOk
  <2> QED BY <2>1, <2>2
<1> QED BY <1>1, <1>2, <1>3, NoOpOk DEF JInv

\* One asset is done.
LEMMA AssetStep == ASSUME JInv, InstallAsset \/ UninstallAsset \/ ApplyAsset PROVE JInv'
<1>1. op.kind \in {"install", "uninstall", "apply"} /\ op.at = "assets" /\ op.todo # <<>> /\ snaps' = snaps
  BY DEF InstallAsset, UninstallAsset, ApplyAsset, At
<1>2. op.todo \in Seq(Names) BY <1>1 DEF JInv, OpOk
<1>3. Head(op.todo) \in Names /\ Tail(op.todo) \in Seq(Names) BY <1>1, <1>2
<1>4. \/ op' = [op EXCEPT !.todo = Tail(@)]
      \/ \E config : op' = [op EXCEPT !.todo = Tail(@), !.config = config]
  BY DEF InstallAsset, UninstallAsset, ApplyAsset, Advanced
<1>5. /\ OpShape(op') /\ op'.todo = Tail(op.todo)
      /\ op'.kind = op.kind /\ op'.at = op.at /\ op'.files = op.files
  BY <1>4 DEF JInv, OpShape
<1>6. OpOk(op') BY <1>1, <1>3, <1>5 DEF JInv, OpOk
<1>7. disk' = disk \/ \E f : disk' = [disk EXCEPT ![Head(op.todo)] = f]
  BY DEF InstallAsset, UninstallAsset, ApplyAsset
<1>8. DiskOk' BY <1>3, <1>7 DEF JInv, DiskOk
<1>9. SnapsOk' BY <1>1 DEF JInv, SnapsOk
<1> QED BY <1>1, <1>5, <1>6, <1>8, <1>9 DEF JInv, JsonRead

LEMMA NewestIn == ASSUME NEW S, NEW id, NEW s \in Load(S, id) PROVE s \in S
BY DEF Load, Newest

LEMMA RollbackStep == ASSUME JInv, LoadSnapshot \/ Restore PROVE JInv'
<1>1. op.kind = "rollback" /\ snaps' = snaps BY DEF LoadSnapshot, Restore, At
<1>2. SnapsOk' BY <1>1 DEF JInv, SnapsOk
<1>3. CASE op' = NoOp
  <2>1. disk' = disk
    <3>1. NoOp.kind = "none" BY DEF NoOp
    <3>2. CASE LoadSnapshot BY <3>2 DEF LoadSnapshot
    <3>3. CASE Restore /\ op.todo = <<>> BY <3>3 DEF Restore
    <3>4. CASE Restore /\ op.todo # <<>>
      <4>1. op' = [op EXCEPT !.todo = Tail(@)] BY <3>4 DEF Restore
      <4>2. op'.kind = "rollback" BY <4>1, <1>1 DEF JInv, OpShape
      <4> QED BY <4>2, <3>1, <1>3
    <3> QED BY <3>2, <3>3, <3>4
  <2> QED BY <1>2, <1>3, <2>1, NoOpOk DEF JInv, DiskOk
<1>4. CASE LoadSnapshot /\ op' # NoOp
  <2>1. PICK s, todo : s \in snaps /\ op' = [op EXCEPT !.at = "restore", !.files = s.files, !.todo = todo]
    BY <1>4, NewestIn DEF LoadSnapshot, Done
  <2>2. FilesOk(s.files) BY <2>1 DEF JInv, SnapsOk
  <2>3. OpShape(op') /\ op'.at = "restore" /\ op'.kind = op.kind /\ op'.files = s.files
    BY <2>1 DEF JInv, OpShape
  <2>4. disk' = disk BY <1>4 DEF LoadSnapshot
  <2>5. OpOk(op') BY <1>1, <2>2, <2>3 DEF OpOk
  <2>6. DiskOk' BY <2>4 DEF JInv, DiskOk
  <2> QED BY <1>2, <2>3, <2>5, <2>6 DEF JInv, JsonRead
<1>5. CASE Restore /\ op' # NoOp
  <2>1. op.at = "restore" /\ op' = [op EXCEPT !.todo = Tail(@)]
    BY <1>5 DEF Restore, Done, At
  <2>2. OpShape(op') /\ op'.at = op.at /\ op'.kind = op.kind /\ op'.files = op.files
    BY <2>1 DEF JInv, OpShape
  <2>3. OpOk(op') BY <1>1, <2>1, <2>2 DEF JInv, OpOk
  <2>4. disk' = disk \/ \E p \in DOMAIN op.files : disk' = [disk EXCEPT ![p] = op.files[p]]
    BY <1>5 DEF Restore
  <2>5. DiskOk' BY <2>4 DEF JInv, DiskOk, OpOk, FilesOk
  <2> QED BY <1>2, <2>1, <2>2, <2>3, <2>5 DEF JInv, JsonRead
<1> QED BY <1>3, <1>4, <1>5

\* What the installer reads is what it goes on from.
LEMMA ReadStep == ASSUME JInv, ReadJson PROVE JInv'
<1>1. /\ op.kind \in {"install", "uninstall"} /\ disk' = disk /\ snaps' = snaps
      /\ op' = [op EXCEPT !.at = "json", !.json = Parsed(disk[Json])]
  BY DEF ReadJson, At
<1>2. /\ OpShape(op') /\ op'.kind = op.kind /\ op'.todo = op.todo /\ op'.files = op.files
      /\ op'.json = Parsed(disk[Json])
  BY <1>1 DEF JInv, OpShape
<1>3. IsJson(Parsed(disk[Json]))
  BY DEF JInv, DiskOk, FileOk, Parsed, IsJson, JsonFile
<1>4. OpOk(op') BY <1>1, <1>2, <1>3 DEF JInv, OpOk
<1>5. JsonRead(op', disk') BY <1>1, <1>2 DEF JsonRead
<1>6. DiskOk' /\ SnapsOk' BY <1>1 DEF JInv, DiskOk, SnapsOk
<1> QED BY <1>2, <1>4, <1>5, <1>6 DEF JInv

\* What it writes is the file it read with its own entry changed.
LEMMA RegisteredKeeps ==
  ASSUME IsJson(op.json)
  PROVE  IsJson(Registered) /\ Registered.servers = op.json.servers /\ Registered # Missing
BY DEF Registered, IsJson, Missing

LEMMA WriteStep == ASSUME JInv, WriteJson PROVE JInv'
<1>1. snaps' = snaps /\ op' = NoOp /\ op.at = "json" BY DEF WriteJson, Done, At
<1>2. IsJson(Registered) BY <1>1, RegisteredKeeps DEF JInv, OpOk
<1>3. disk' = disk \/ disk' = [disk EXCEPT ![Json] = Registered] BY DEF WriteJson
<1>4. DiskOk' BY <1>2, <1>3 DEF JInv, DiskOk, FileOk
<1> QED BY <1>1, <1>4, NoOpOk DEF JInv, SnapsOk

\* A file is touched while the command runs, or between commands.
LEMMA TouchOk ==
  ASSUME OpShape(op), OpOk(op), NEW p, Touch(p)
  PROVE  /\ OpShape(op') /\ OpOk(op') /\ op'.at = op.at /\ op'.json = op.json
         /\ op.at = "json" => op'.touched = op.touched \cup {p}
<1>1. CASE Idle
  <2>1. op' = op /\ op.at = "idle" BY <1>1 DEF Touch, Idle, OpOk
  <2> QED BY <2>1
<1>2. CASE ~Idle
  <2>1. op' = [op EXCEPT !.touched = @ \cup {p}] BY <1>2 DEF Touch
  <2>2. /\ OpShape(op') /\ op'.at = op.at /\ op'.kind = op.kind /\ op'.todo = op.todo
        /\ op'.files = op.files /\ op'.json = op.json /\ op'.touched = op.touched \cup {p}
    BY <2>1 DEF OpShape
  <2>3. OpOk(op') BY <2>2 DEF OpOk
  <2> QED BY <2>2, <2>3
<1> QED BY <1>1, <1>2

LEMMA EventStep ==
  ASSUME JInv, (\E a \in Names : UserEdits(a)) \/ EditorWrites \/ UserEditsConfig
  PROVE  JInv'
<1>1. snaps' = snaps BY DEF UserEdits, EditorWrites, UserEditsConfig
<1>2. SnapsOk' BY <1>1 DEF JInv, SnapsOk
<1>3. CASE \E a \in Names : UserEdits(a)
  <2>1. PICK a \in Names : UserEdits(a) BY <1>3
  <2>2. PICK f : disk' = [disk EXCEPT ![a] = f] BY <2>1 DEF UserEdits
  <2>3. DOMAIN disk' = DOMAIN disk /\ disk'[Json] = disk[Json] BY <2>2 DEF JInv, DiskOk
  <2>4. /\ OpShape(op') /\ OpOk(op') /\ op'.at = op.at /\ op'.json = op.json
        /\ op.at = "json" => op'.touched = op.touched \cup {a}
    BY <2>1, TouchOk DEF JInv, UserEdits
  <2>5. DiskOk' BY <2>3 DEF JInv, DiskOk
  <2>6. JsonRead(op', disk') BY <2>3, <2>4 DEF JInv, JsonRead
  <2> QED BY <1>2, <2>4, <2>5, <2>6 DEF JInv
<1>4. CASE EditorWrites
  <2>1. PICK s, strict, chamba : disk' = [disk EXCEPT ![Json] = JsonFile(strict, s, chamba)]
    BY <1>4 DEF EditorWrites
  <2>2. DiskOk' BY <2>1 DEF JInv, DiskOk, FileOk, IsJson, JsonFile
  <2>3. /\ OpShape(op') /\ OpOk(op') /\ op'.at = op.at
        /\ op.at = "json" => op'.touched = op.touched \cup {Json}
    BY <1>4, TouchOk DEF JInv, EditorWrites
  <2>4. JsonRead(op', disk') BY <2>3 DEF JsonRead
  <2> QED BY <1>2, <2>2, <2>3, <2>4 DEF JInv
<1>5. CASE UserEditsConfig
  <2>1. disk' = disk BY <1>5 DEF UserEditsConfig
  <2>2. /\ OpShape(op') /\ OpOk(op') /\ op'.at = op.at /\ op'.json = op.json
        /\ op.at = "json" => op'.touched = op.touched \cup {Config}
    BY <1>5, TouchOk DEF JInv, UserEditsConfig
  <2>3. DiskOk' BY <2>1 DEF JInv, DiskOk
  <2>4. JsonRead(op', disk') BY <2>1, <2>2 DEF JInv, JsonRead
  <2> QED BY <1>2, <2>2, <2>3, <2>4 DEF JInv
<1> QED BY <1>3, <1>4, <1>5

LEMMA CrashStep == ASSUME JInv, Crash PROVE JInv'
<1>1. snaps' = snaps /\ op' = NoOp BY DEF Crash, Done
<1>2. SnapsOk' BY <1>1 DEF JInv, SnapsOk
<1>3. CASE disk' = disk BY <1>1, <1>2, <1>3, NoOpOk DEF JInv, DiskOk
<1>4. CASE \E p : disk' = CutShort(p)
  <2>1. PICK p : disk' = CutShort(p) BY <1>4
  <2>2. DiskOk' BY <2>1 DEF CutShort, JInv, DiskOk, FileOk, IsJson, JsonFile
  <2> QED BY <1>1, <1>2, <2>2, NoOpOk DEF JInv
<1> QED BY <1>3, <1>4 DEF Crash

LEMMA JInvStep == ASSUME JInv, [Next]_vars PROVE JInv'
<1>1. CASE Starts
  BY <1>1, BeginStep
<1>2. CASE RunWizard \/ Snapshot \/ Prune BY <1>2, SnapshotStep
<1>3. CASE PinSnapshot \/ ApplyEnds \/ CrashWhilePinning BY <1>3, DoneStep
<1>4. CASE InstallAsset \/ UninstallAsset \/ ApplyAsset BY <1>4, AssetStep
<1>5. CASE LoadSnapshot \/ Restore BY <1>5, RollbackStep
<1>6. CASE ReadJson BY <1>6, ReadStep
<1>7. CASE WriteJson BY <1>7, WriteStep
<1>8. CASE (\E a \in Names : UserEdits(a)) \/ EditorWrites \/ UserEditsConfig BY <1>8, EventStep
<1>9. CASE Crash BY <1>9, CrashStep
<1>10. CASE UNCHANGED <<disk, snaps, op>>
  BY <1>10 DEF JInv, DiskOk, SnapsOk
<1>11. CASE ConfigPreset \/ ConfigSet \/ (\E p \in PolicyPatches : ConfigWorktrees(p)) \/ ConfigReset
  <2>1. UNCHANGED <<disk, snaps, op>>
    BY <1>11 DEF ConfigPreset, ConfigSet, SetsRole, ConfigWorktrees, ConfigReset, Rewrite
  <2> QED BY <1>10, <2>1
<1>12. CASE UNCHANGED vars BY <1>10, <1>12 DEF vars
<1> QED BY <1>1, <1>2, <1>3, <1>4, <1>5, <1>6, <1>7, <1>8, <1>9, <1>11, <1>12 DEF Next, Starts

LeftOk == left \in Nat

\* Only WriteJson leaves the place where the file has been read, unless the
\* process dies or somebody touches a file, which the budget of events counts.
LEMMA ServersStep ==
  ASSUME JInv, Next, op.at = "json", Json \notin op.touched,
         disk[Json] # Missing, disk[Json].strict, left' = left, LeftOk
  PROVE  Servers(disk[Json]) \subseteq Servers(disk'[Json])
<1>1. op.kind # "none" BY DEF JInv, OpOk
<1>2. disk' = disk \/ WriteJson
  <2>1. ~Event BY DEF Event, LeftOk
  <2>2. CASE RunWizard \/ Snapshot \/ Prune \/ PinSnapshot \/ LoadSnapshot \/ Restore
             \/ InstallAsset \/ UninstallAsset \/ ApplyAsset \/ ApplyEnds \/ ReadJson \/ WriteJson
    BY <2>2 DEF RunWizard, Snapshot, Prune, PinSnapshot, LoadSnapshot, Restore, InstallAsset,
                UninstallAsset, ApplyAsset, ApplyEnds, ReadJson, At
  <2>3. CASE \/ Install \/ ClaudeUninstall \/ OpenCodeUninstall \/ CursorUninstall \/ Apply
             \/ (\E id \in Ids : PinCommand(id) \/ Rollback(id)) \/ Rollback("newest")
    BY <1>1, <2>3 DEF Install, ClaudeInstall, OpenCodeInstall, CursorInstall, ClaudeUninstall,
         OpenCodeUninstall, CursorUninstall, Apply, PinCommand, Rollback, Begin, Idle
  <2>4. CASE ConfigPreset \/ ConfigSet \/ (\E p \in PolicyPatches : ConfigWorktrees(p)) \/ ConfigReset \/ ConfigWizard
    BY <1>1, <2>4 DEF ConfigPreset, ConfigSet, SetsRole, ConfigWorktrees, ConfigReset, Rewrite, ConfigWizard, Idle
  <2>5. CASE (\E a \in Names : UserEdits(a)) \/ EditorWrites \/ UserEditsConfig \/ Crash \/ CrashWhilePinning
    BY <2>1, <2>5 DEF UserEdits, EditorWrites, UserEditsConfig, Crash, CrashWhilePinning
  <2> QED BY <2>2, <2>3, <2>4, <2>5 DEF Next
<1>3. op.json = disk[Json] /\ IsJson(op.json) BY DEF JInv, JsonRead, OpOk, Parsed
<1>4. Registered.servers = disk[Json].servers /\ Registered # Missing BY <1>3, RegisteredKeeps
<1>5. CASE WriteJson
  <2>1. disk'[Json] = disk[Json] \/ disk'[Json] = Registered
    BY <1>5 DEF WriteJson, JInv, DiskOk
  <2> QED BY <1>4, <2>1 DEF Servers
<1> QED BY <1>2, <1>5

LEMMA LeftStep == ASSUME LeftOk, [Next]_vars PROVE LeftOk'
<1>1. CASE RunWizard \/ Snapshot \/ Prune \/ PinSnapshot \/ LoadSnapshot \/ Restore
           \/ InstallAsset \/ UninstallAsset \/ ApplyAsset \/ ApplyEnds \/ ReadJson \/ WriteJson
  BY <1>1 DEF RunWizard, Snapshot, Prune, PinSnapshot, LoadSnapshot, Restore, InstallAsset,
              UninstallAsset, ApplyAsset, ApplyEnds, ReadJson, WriteJson, LeftOk
<1>2. CASE \/ Install \/ ClaudeUninstall \/ OpenCodeUninstall \/ CursorUninstall \/ Apply
           \/ (\E id \in Ids : PinCommand(id) \/ Rollback(id)) \/ Rollback("newest")
  BY <1>2 DEF Install, ClaudeInstall, OpenCodeInstall, CursorInstall, ClaudeUninstall,
       OpenCodeUninstall, CursorUninstall, Apply, PinCommand, Rollback, Begin, LeftOk
<1>3. CASE ConfigPreset \/ ConfigSet \/ (\E p \in PolicyPatches : ConfigWorktrees(p)) \/ ConfigReset \/ ConfigWizard
  BY <1>3 DEF ConfigPreset, ConfigSet, SetsRole, ConfigWorktrees, ConfigReset, Rewrite, ConfigWizard, LeftOk
<1>4. CASE (\E a \in Names : UserEdits(a)) \/ EditorWrites \/ UserEditsConfig \/ Crash \/ CrashWhilePinning
  <2>1. Event BY <1>4 DEF UserEdits, EditorWrites, UserEditsConfig, Crash, CrashWhilePinning
  <2> QED BY <2>1 DEF Event, LeftOk
<1>5. CASE UNCHANGED vars BY <1>5 DEF vars, LeftOk
<1> QED BY <1>1, <1>2, <1>3, <1>4, <1>5 DEF Next

\* The user's other servers stay registered through every install and
\* uninstall that reads a strict file and finds it untouched when it writes.
THEOREM ServersStay == Spec => ServersKept
<1>1. JInv /\ LeftOk /\ [Next]_vars =>
        [op.at = "json" /\ Json \notin op.touched /\ disk[Json] # Missing /\ disk[Json].strict /\ left' = left
           => Servers(disk[Json]) \subseteq Servers(disk'[Json])]_vars
  BY ServersStep
<1>2. Init => JInv /\ LeftOk BY InitJInv DEF Init, LeftOk
<1>3. JInv /\ LeftOk /\ [Next]_vars => JInv' /\ LeftOk' BY JInvStep, LeftStep
<1> QED BY <1>1, <1>2, <1>3, PTL DEF Spec, ServersKept

-----------------------------------------------------------------------------
(* The configuration.                                                      *)

ConfOk == conf \in ConfigFiles

\* The fields of a file.
HasFields(f) ==
  /\ f = [state |-> f.state, defaults |-> f.defaults, overrides |-> f.overrides, worktrees |-> f.worktrees]
  /\ f.state \in {"missing", "invalid", "ok"} /\ f.worktrees \in Policies
  /\ f.defaults \in Settings /\ f.overrides \in Settings
IsFile(f) ==
  /\ HasFields(f)
  /\ f.state # "ok" => f.worktrees = NoPolicy /\ f.overrides = NoSettings /\ f.defaults = NoSettings

LEMMA FileFields == ASSUME NEW f \in ConfigFiles PROVE IsFile(f)
<1>1. NoSettings \in Settings /\ NoPolicy \in Policies
  BY DEF NoSettings, NoPolicy, Settings, Policies
<1>2. InvalidFile = [state |-> "invalid", defaults |-> NoSettings, overrides |-> NoSettings, worktrees |-> NoPolicy]
  BY DEF InvalidFile, EmptyFile
<1>3. IsFile(EmptyFile)
  BY <1>1 DEF EmptyFile, IsFile, HasFields
<1>4. IsFile(InvalidFile)
  BY <1>1, <1>2 DEF IsFile, HasFields
<1>5. ASSUME f \in [state : {"ok"}, defaults : Settings, overrides : Settings, worktrees : Policies]
      PROVE  IsFile(f)
  BY <1>5 DEF IsFile, HasFields
<1> QED BY <1>3, <1>4, <1>5 DEF ConfigFiles

\* As the tools read a file that is not there or cannot be used, it says what it
\* holds: nothing.
LEMMA LayerIs ==
  ASSUME NEW f \in ConfigFiles
  PROVE  /\ ReadLayer(f).worktrees = f.worktrees /\ ReadLayer(f).overrides = f.overrides
         /\ ReadLayer(f).defaults = f.defaults
BY FileFields DEF ReadLayer, EmptyFile, IsFile, HasFields

\* What the tools resolve: the project, the file and the default, key by key.
LEMMA ResolvedKey ==
  ASSUME NEW f \in ConfigFiles, NEW k \in PolicyKeys
  PROVE  LoadWorktrees(f, ProjectFile)[k] =
           IF ProjectFile.worktrees[k] # Unset THEN ProjectFile.worktrees[k]
           ELSE IF f.worktrees[k] # Unset THEN f.worktrees[k] ELSE CompiledPolicy[k]
<1> DEFINE s == f.worktrees
           p == ProjectFile.worktrees
           m == MergeWorktreePartial(s, p)
<1>1. s \in Policies /\ p \in Policies
  BY FileFields DEF IsFile, HasFields
<1>2. LoadWorktrees(f, ProjectFile) = Over(CompiledPolicy, m)
  BY LayerIs DEF LoadWorktrees, ResolveWorktreeConfig
<1> HIDE DEF s, p
<1>3. m = [x \in PolicyKeys |-> IF p[x] = Unset THEN s[x] ELSE p[x]]
  BY <1>1 DEF MergeWorktreePartial, Over, Policies
<1>4. Over(CompiledPolicy, m) = [x \in PolicyKeys |-> IF m[x] = Unset THEN CompiledPolicy[x] ELSE m[x]]
  BY DEF Over
<1> HIDE DEF m
<1> QED BY <1>2, <1>3, <1>4 DEF s, p

LEMMA SamePolicy ==
  ASSUME NEW f \in ConfigFiles, NEW g \in ConfigFiles, f.worktrees = g.worktrees
  PROVE  LoadWorktrees(f, ProjectFile) = LoadWorktrees(g, ProjectFile)
BY LayerIs DEF LoadWorktrees

\* What the commands write.
LEMMA WrittenOk ==
  ASSUME NEW f, HasFields(f)
  PROVE  /\ Written(f) \in ConfigFiles /\ Written(f).worktrees = f.worktrees
         /\ Written(f).overrides = f.overrides /\ Written(f).defaults = f.defaults
<1>1. Written(f) = [state |-> "ok", defaults |-> f.defaults, overrides |-> f.overrides, worktrees |-> f.worktrees]
  BY DEF Written, HasFields
<1> QED BY <1>1 DEF ConfigFiles, HasFields

LEMMA OverValues ==
  ASSUME NEW D, NEW base \in [D -> Values], NEW patch \in [D -> Values \cup {Unset}]
  PROVE  /\ Over(base, patch) \in [D -> Values]
         /\ \A x \in D : Over(base, patch)[x] = IF patch[x] = Unset THEN base[x] ELSE patch[x]
BY DEF Over

\* One layer over settings that are complete.
LEMMA LayerOver ==
  ASSUME NEW C \in [Roles -> [Fields -> Values]], NEW f, f.defaults \in Settings, f.overrides \in Settings
  PROVE  /\ ApplyLayer(C, f) \in [Roles -> [Fields -> Values]]
         /\ \A r \in Roles : \A x \in Fields : ApplyLayer(C, f)[r][x] =
              IF f.overrides[r][x] # Unset THEN f.overrides[r][x]
              ELSE IF f.defaults[r][x] # Unset THEN f.defaults[r][x] ELSE C[r][x]
<1> DEFINE d(r) == Over(C[r], f.defaults[r])
           o(r) == Over(d(r), f.overrides[r])
<1>1. ASSUME NEW r \in Roles
      PROVE  /\ o(r) \in [Fields -> Values]
             /\ \A x \in Fields : o(r)[x] = IF f.overrides[r][x] # Unset THEN f.overrides[r][x]
                                            ELSE IF f.defaults[r][x] # Unset THEN f.defaults[r][x] ELSE C[r][x]
  <2>1. C[r] \in [Fields -> Values] /\ f.defaults[r] \in [Fields -> Values \cup {Unset}]
        /\ f.overrides[r] \in [Fields -> Values \cup {Unset}]
    BY DEF Settings
  <2>2. d(r) \in [Fields -> Values]
        /\ \A x \in Fields : d(r)[x] = IF f.defaults[r][x] = Unset THEN C[r][x] ELSE f.defaults[r][x]
    BY <2>1, OverValues
  <2>4. PICK b : b = d(r)
    OBVIOUS
  <2>5. PICK p : p = f.overrides[r]
    OBVIOUS
  <2>6. o(r) = Over(b, p)
    BY <2>4, <2>5
  <2> HIDE DEF d, o
  <2>7. b \in [Fields -> Values] /\ p \in [Fields -> Values \cup {Unset}]
    BY <2>1, <2>2, <2>4, <2>5
  <2>8. /\ Over(b, p) \in [Fields -> Values]
        /\ \A x \in Fields : Over(b, p)[x] = IF p[x] = Unset THEN b[x] ELSE p[x]
    BY <2>7 DEF Over
  <2>3. o(r) \in [Fields -> Values]
        /\ \A x \in Fields : o(r)[x] = IF f.overrides[r][x] = Unset THEN d(r)[x] ELSE f.overrides[r][x]
    BY <2>4, <2>5, <2>6, <2>8
  <2> QED BY <2>2, <2>3
<1>2. ApplyLayer(C, f) = [r \in Roles |-> o(r)]
  BY DEF ApplyLayer
<1> HIDE DEF o
<1> QED BY <1>1, <1>2

\* What the tools resolve of a role: the project, the file and the default.
Given(o, d, c) == IF o # Unset THEN o ELSE IF d # Unset THEN d ELSE c

LEMMA SettingIs ==
  ASSUME NEW f \in ConfigFiles, NEW r \in Roles, NEW x \in Fields
  PROVE  Setting(f, r, x) = Given(ProjectFile.overrides[r][x], ProjectFile.defaults[r][x],
                                  Given(f.overrides[r][x], f.defaults[r][x], Compiled[r][x]))
<1> DEFINE L == ReadLayer(f)
           P == ReadLayer(ProjectFile)
           M == ApplyLayer(Compiled, L)
           N == ApplyLayer(M, P)
<1>1. /\ L.defaults = f.defaults /\ L.overrides = f.overrides
      /\ P.defaults = ProjectFile.defaults /\ P.overrides = ProjectFile.overrides
  BY LayerIs
<1>2. /\ L.defaults \in Settings /\ L.overrides \in Settings
      /\ P.defaults \in Settings /\ P.overrides \in Settings
  BY <1>1, FileFields DEF IsFile, HasFields
<1>3. Setting(f, r, x) = N[r][x]
  BY DEF Setting, LoadConfig
<1> HIDE DEF L, P
<1>4. M \in [Roles -> [Fields -> Values]] /\ M[r][x] = Given(L.overrides[r][x], L.defaults[r][x], Compiled[r][x])
  BY <1>2, LayerOver DEF Given
<1> HIDE DEF M
<1>5. N[r][x] = Given(P.overrides[r][x], P.defaults[r][x], M[r][x])
  <2>1. PICK C, l : C = M /\ l = P
    OBVIOUS
  <2>2. C \in [Roles -> [Fields -> Values]] /\ l.defaults \in Settings /\ l.overrides \in Settings
    BY <1>2, <1>4, <2>1
  <2>3. ApplyLayer(C, l)[r][x] = Given(l.overrides[r][x], l.defaults[r][x], C[r][x])
    BY <2>2, LayerOver DEF Given
  <2> QED BY <2>1, <2>3
<1> HIDE DEF N
<1> QED BY <1>1, <1>3, <1>4, <1>5

\* A setting stays where the override stays, and the default under it unless it
\* is overridden.
LEMMA SameSetting ==
  ASSUME NEW f \in ConfigFiles, NEW g \in ConfigFiles, NEW r \in Roles, NEW x \in Fields,
         f.overrides[r][x] = g.overrides[r][x],
         f.overrides[r][x] # Unset \/ f.defaults[r][x] = g.defaults[r][x]
  PROVE  Setting(f, r, x) = Setting(g, r, x)
<1>1. /\ Setting(f, r, x) = Given(ProjectFile.overrides[r][x], ProjectFile.defaults[r][x],
                                  Given(f.overrides[r][x], f.defaults[r][x], Compiled[r][x]))
      /\ Setting(g, r, x) = Given(ProjectFile.overrides[r][x], ProjectFile.defaults[r][x],
                                  Given(g.overrides[r][x], g.defaults[r][x], Compiled[r][x]))
  BY SettingIs
<1>2. Given(f.overrides[r][x], f.defaults[r][x], Compiled[r][x])
        = Given(g.overrides[r][x], g.defaults[r][x], Compiled[r][x])
  BY DEF Given
<1> QED BY <1>1, <1>2

LEMMA OverType ==
  ASSUME NEW D, NEW base \in [D -> Values \cup {Unset}], NEW patch \in [D -> Values \cup {Unset}]
  PROVE  /\ Over(base, patch) \in [D -> Values \cup {Unset}]
         /\ \A x \in D : Over(base, patch)[x] = IF patch[x] = Unset THEN base[x] ELSE patch[x]
BY DEF Over

LEMMA SetPresetOk ==
  ASSUME NEW f \in ConfigFiles, NEW p \in Presets
  PROVE  /\ SetPreset(f, p) \in ConfigFiles /\ SetPreset(f, p).worktrees = f.worktrees
         /\ SetPreset(f, p).overrides = f.overrides
<1> DEFINE g == [f EXCEPT !.defaults = p]
<1>1. HasFields(f)
  BY FileFields DEF IsFile
<1>2. p \in Settings
  BY DEF Settings
<1>3. g = [state |-> f.state, defaults |-> p, overrides |-> f.overrides, worktrees |-> f.worktrees]
  <2>1. f = [state |-> f.state, defaults |-> f.defaults, overrides |-> f.overrides, worktrees |-> f.worktrees]
    BY <1>1 DEF HasFields
  <2> QED BY <2>1, FieldPut
<1> HIDE DEF g
<1>4. HasFields(g) /\ g.worktrees = f.worktrees /\ g.overrides = f.overrides
  BY <1>1, <1>2, <1>3 DEF HasFields
<1> QED BY <1>4, WrittenOk DEF SetPreset, g

LEMMA SetRoleOk ==
  ASSUME NEW f \in ConfigFiles, NEW r \in Roles, NEW p \in Patches
  PROVE  /\ SetRole(f, r, p) \in ConfigFiles /\ SetRole(f, r, p).worktrees = f.worktrees
         /\ SetRole(f, r, p).defaults = f.defaults
         /\ \A q \in Roles, x \in Fields :
              q # r \/ p[x] = Unset => SetRole(f, r, p).overrides[q][x] = f.overrides[q][x]
<1> DEFINE o == [f.overrides EXCEPT ![r] = Over(@, p)]
           g == [f EXCEPT !.overrides[r] = Over(@, p)]
<1>1. HasFields(f)
  BY FileFields DEF IsFile
<1>2. f.overrides \in [Roles -> [Fields -> Values \cup {Unset}]] /\ p \in [Fields -> Values \cup {Unset}]
  BY <1>1 DEF HasFields, Settings
<1>3. Over(f.overrides[r], p) \in [Fields -> Values \cup {Unset}]
  BY <1>2, OverType
<1>4. o \in Settings
  BY <1>2, <1>3 DEF Settings
<1>a. ASSUME NEW q \in Roles, NEW x \in Fields, q # r \/ p[x] = Unset
      PROVE  o[q][x] = f.overrides[q][x]
  <2>1. CASE q # r
    BY <1>2, <2>1
  <2>2. CASE q = r
    <3>1. p[x] = Unset
      BY <1>a, <2>2
    <3>2. o[q] = Over(f.overrides[r], p)
      BY <1>2, <2>2
    <3>3. Over(f.overrides[r], p)[x] = f.overrides[r][x]
      <4>1. PICK b : b = f.overrides[r]
        OBVIOUS
      <4>2. b \in [Fields -> Values \cup {Unset}]
        BY <1>2, <4>1
      <4>3. Over(b, p)[x] = b[x]
        BY <1>2, <3>1, <4>2, OverType
      <4> QED BY <4>1, <4>3
    <3> QED BY <2>2, <3>2, <3>3
  <2> QED BY <2>1, <2>2
<1>5. g = [state |-> f.state, defaults |-> f.defaults, overrides |-> o, worktrees |-> f.worktrees]
  <2>1. f = [state |-> f.state, defaults |-> f.defaults, overrides |-> f.overrides, worktrees |-> f.worktrees]
    BY <1>1 DEF HasFields
  <2>2. g = [f EXCEPT !.overrides = o]
    OBVIOUS
  <2> HIDE DEF g, o
  <2> QED BY <2>1, <2>2, FieldPut
<1> HIDE DEF o, g
<1>6. HasFields(g) /\ g.worktrees = f.worktrees /\ g.defaults = f.defaults /\ g.overrides = o
  BY <1>1, <1>4, <1>5 DEF HasFields
<1>7. SetRole(f, r, p) = Written(g)
  BY DEF SetRole, g
<1>8. /\ Written(g) \in ConfigFiles /\ Written(g).worktrees = f.worktrees
      /\ Written(g).defaults = f.defaults /\ Written(g).overrides = o
  BY <1>6, WrittenOk
<1> QED BY <1>a, <1>7, <1>8

LEMMA SetWorktreesOk ==
  ASSUME NEW f \in ConfigFiles, NEW p \in PolicyPatches
  PROVE  /\ SetWorktrees(f, p) \in ConfigFiles
         /\ SetWorktrees(f, p).defaults = f.defaults /\ SetWorktrees(f, p).overrides = f.overrides
         /\ \A k \in PolicyKeys : p[k] = Unset => SetWorktrees(f, p).worktrees[k] = f.worktrees[k]
<1> DEFINE w == MergeWorktreePartial(f.worktrees, p)
           g == [f EXCEPT !.worktrees = MergeWorktreePartial(@, p)]
<1>1. HasFields(f)
  BY FileFields DEF IsFile
<1>2. f.worktrees \in [PolicyKeys -> Values \cup {Unset}] /\ p \in [PolicyKeys -> Values \cup {Unset}]
  BY <1>1 DEF HasFields, Policies
<1>3. w \in Policies /\ \A k \in PolicyKeys : p[k] = Unset => w[k] = f.worktrees[k]
  <2>1. /\ Over(f.worktrees, p) \in [PolicyKeys -> Values \cup {Unset}]
        /\ \A k \in PolicyKeys : Over(f.worktrees, p)[k] = IF p[k] = Unset THEN f.worktrees[k] ELSE p[k]
    BY <1>2, OverType
  <2> QED BY <2>1 DEF MergeWorktreePartial, Policies
<1>4. g = [state |-> f.state, defaults |-> f.defaults, overrides |-> f.overrides, worktrees |-> w]
  <2>1. f = [state |-> f.state, defaults |-> f.defaults, overrides |-> f.overrides, worktrees |-> f.worktrees]
    BY <1>1 DEF HasFields
  <2>2. g = [f EXCEPT !.worktrees = w]
    OBVIOUS
  <2> HIDE DEF g, w
  <2> QED BY <2>1, <2>2, FieldPut
<1> HIDE DEF w, g
<1>5. HasFields(g) /\ g.worktrees = w /\ g.defaults = f.defaults /\ g.overrides = f.overrides
  BY <1>1, <1>3, <1>4 DEF HasFields
<1> QED BY <1>3, <1>5, WrittenOk DEF SetWorktrees, g

\* A reset and the wizard write files too.
LEMMA WizardOk == Reset \in ConfigFiles /\ WizardFiles(Answers) \subseteq ConfigFiles
<1>1. ASSUME NEW d \in Settings PROVE Written([EmptyFile EXCEPT !.defaults = d]) \in ConfigFiles
  <2>1. HasFields(EmptyFile)
    BY FileFields DEF IsFile, ConfigFiles
  <2>2. HasFields([EmptyFile EXCEPT !.defaults = d])
    BY <2>1 DEF HasFields
  <2> QED BY <2>2, WrittenOk
<1>2. Compiled \in Settings /\ Presets \subseteq Settings /\ Answers \subseteq Settings
  BY DEF Settings
<1> QED BY <1>1, <1>2 DEF Reset, WizardFiles

LEMMA ConfStep == ASSUME ConfOk, [Next]_vars PROVE ConfOk'
<1>1. CASE UNCHANGED conf
  BY <1>1 DEF ConfOk
<1>2. CASE ConfigPreset
  BY <1>2, SetPresetOk DEF ConfigPreset, Rewrite, ConfOk
<1>3. CASE ConfigSet
  BY <1>3, SetRoleOk DEF ConfigSet, SetsRole, Rewrite, ConfOk
<1>4. CASE \E p \in PolicyPatches : ConfigWorktrees(p)
  BY <1>4, SetWorktreesOk DEF ConfigWorktrees, Rewrite, ConfOk
<1>5. CASE ConfigReset \/ ConfigWizard \/ RunWizard
  BY <1>5, WizardOk DEF ConfigReset, ConfigWizard, RunWizard, Rewrite, ConfOk
<1>6. CASE UserEditsConfig
  <2>1. InvalidFile \in ConfigFiles
    BY DEF ConfigFiles
  <2>2. conf' = InvalidFile \/ \E r \in Roles, p \in Patches : conf' = SetRole(conf, r, p)
    BY <1>6 DEF UserEditsConfig
  <2> QED BY <2>1, <2>2, SetRoleOk DEF ConfOk
<1>7. [Next]_vars => \/ UNCHANGED conf
                     \/ ConfigPreset \/ ConfigSet \/ (\E p \in PolicyPatches : ConfigWorktrees(p))
                     \/ ConfigReset \/ ConfigWizard \/ RunWizard \/ UserEditsConfig
  BY DEF Next, vars, Install, ClaudeInstall, OpenCodeInstall, CursorInstall, ClaudeUninstall,
         OpenCodeUninstall, CursorUninstall, Apply, PinCommand, Rollback, Begin, Snapshot, Prune,
         PinSnapshot, LoadSnapshot, Restore, InstallAsset, UninstallAsset, ApplyAsset, ApplyEnds,
         ReadJson, WriteJson, UserEdits, EditorWrites, Crash, CrashWhilePinning
<1> QED BY <1>1, <1>2, <1>3, <1>4, <1>5, <1>6, <1>7

PolicyStays ==
  /\ (ConfigPreset \/ ConfigSet) => LoadWorktrees(conf', ProjectFile) = LoadWorktrees(conf, ProjectFile)
  /\ \A r \in Roles, f \in Fields :
       (\/ ConfigPreset /\ conf.overrides[r][f] # Unset
        \/ \E q \in Roles, p \in Patches : SetsRole(q, p) /\ (q # r \/ p[f] = Unset)
        \/ \E p \in PolicyPatches : ConfigWorktrees(p))
          => Setting(conf', r, f) = Setting(conf, r, f)
  /\ \A p \in PolicyPatches : ConfigWorktrees(p) =>
       \A k \in PolicyKeys : p[k] = Unset =>
         LoadWorktrees(conf', ProjectFile)[k] = LoadWorktrees(conf, ProjectFile)[k]

LEMMA PolicyStep == ASSUME ConfOk, ConfOk' PROVE PolicyStays
<1>0. conf \in ConfigFiles /\ conf' \in ConfigFiles
  BY DEF ConfOk
<1>1. ASSUME ConfigPreset \/ ConfigSet PROVE LoadWorktrees(conf', ProjectFile) = LoadWorktrees(conf, ProjectFile)
  <2>1. conf'.worktrees = conf.worktrees
    BY <1>0, <1>1, SetPresetOk, SetRoleOk DEF ConfigPreset, ConfigSet, SetsRole, Rewrite
  <2> QED BY <1>0, <2>1, SamePolicy
<1>2. ASSUME NEW r \in Roles, NEW f \in Fields,
             \/ ConfigPreset /\ conf.overrides[r][f] # Unset
             \/ \E q \in Roles, p \in Patches : SetsRole(q, p) /\ (q # r \/ p[f] = Unset)
             \/ \E p \in PolicyPatches : ConfigWorktrees(p)
      PROVE  Setting(conf', r, f) = Setting(conf, r, f)
  <2>1. CASE ConfigPreset /\ conf.overrides[r][f] # Unset
    <3>1. conf'.overrides = conf.overrides
      BY <1>0, <2>1, SetPresetOk DEF ConfigPreset, Rewrite
    <3>2. PICK c, d : c = conf /\ d = conf'
      OBVIOUS
    <3>3. Setting(c, r, f) = Setting(d, r, f)
      BY <1>0, <2>1, <3>1, <3>2, SameSetting
    <3> QED BY <3>2, <3>3
  <2>2. CASE \E q \in Roles, p \in Patches : SetsRole(q, p) /\ (q # r \/ p[f] = Unset)
    <3>1. PICK q \in Roles, p \in Patches : SetsRole(q, p) /\ (q # r \/ p[f] = Unset)
      BY <2>2
    <3>2. conf' = SetRole(conf, q, p)
      BY <3>1 DEF SetsRole, Rewrite
    <3>3. conf'.defaults = conf.defaults /\ conf'.overrides[r][f] = conf.overrides[r][f]
      BY <1>0, <3>1, <3>2, SetRoleOk
    <3> QED BY <1>0, <3>3, SameSetting
  <2>3. CASE \E p \in PolicyPatches : ConfigWorktrees(p)
    <3>1. conf'.defaults = conf.defaults /\ conf'.overrides = conf.overrides
      BY <1>0, <2>3, SetWorktreesOk DEF ConfigWorktrees, Rewrite
    <3>2. PICK c, d : c = conf /\ d = conf'
      OBVIOUS
    <3>3. /\ c \in ConfigFiles /\ d \in ConfigFiles /\ c.overrides[r][f] = d.overrides[r][f]
          /\ c.defaults[r][f] = d.defaults[r][f]
      BY <1>0, <3>1, <3>2
    <3>4. Setting(c, r, f) = Setting(d, r, f)
      BY <3>3, SameSetting
    <3> QED BY <3>2, <3>4
  <2> QED BY <1>2, <2>1, <2>2, <2>3
<1>3. ASSUME NEW p \in PolicyPatches, ConfigWorktrees(p), NEW k \in PolicyKeys, p[k] = Unset
      PROVE  LoadWorktrees(conf', ProjectFile)[k] = LoadWorktrees(conf, ProjectFile)[k]
  <2>1. conf'.worktrees[k] = conf.worktrees[k]
    BY <1>0, <1>3, SetWorktreesOk DEF ConfigWorktrees, Rewrite
  <2> QED BY <1>0, <2>1, ResolvedKey
<1> QED BY <1>1, <1>2, <1>3 DEF PolicyStays

\* A preset, "config set" and "config worktrees init" change nothing that the
\* tools resolve but what they are about, whatever the file, the project's file
\* and the patches say: the other settings of the roles, what the user overrides
\* and the worktree policy.  (Not said of a reset and of the wizard of the roles.)
THEOREM PolicyStaysPut == Spec => PolicyKept
<1>1. Init => ConfOk
  BY DEF Init, ConfOk
<1>2. ConfOk /\ [Next]_vars => ConfOk' /\ [PolicyStays]_vars
  BY ConfStep, PolicyStep
<1>3. ConfOk /\ [Next]_vars => ConfOk'
  BY <1>2
<1>4. [PolicyStays]_vars =>
        [/\ (ConfigPreset \/ ConfigSet) => LoadWorktrees(conf', ProjectFile) = LoadWorktrees(conf, ProjectFile)
         /\ \A r \in Roles, f \in Fields :
              (\/ ConfigPreset /\ conf.overrides[r][f] # Unset
               \/ \E q \in Roles, p \in Patches : SetsRole(q, p) /\ (q # r \/ p[f] = Unset)
               \/ \E p \in PolicyPatches : ConfigWorktrees(p))
                 => Setting(conf', r, f) = Setting(conf, r, f)
         /\ \A p \in PolicyPatches : ConfigWorktrees(p) =>
              \A k \in PolicyKeys : p[k] = Unset =>
                LoadWorktrees(conf', ProjectFile)[k] = LoadWorktrees(conf, ProjectFile)[k]]_vars
  BY DEF PolicyStays
<1> QED BY <1>1, <1>2, <1>3, <1>4, PTL DEF Spec, PolicyKept

-----------------------------------------------------------------------------
(* The settings of the subagents.                                          *)

\* A name that a command has still to come to.
Pending(todo, a) == \E i \in 1..Len(todo) : todo[i] = a

\* What an apply has put in place, as long as nobody edits the configuration.
Settled(o, d, c, a) ==
  Pending(o.todo, a) \/ a \in o.touched \/ d[a] = ClaudeAgent(LoadConfig(c, EmptyFile)[RoleOf[a]])
Applying(e, o, d, c) ==
  o.kind = "apply" =>
    /\ e = "claude" /\ o.at = "assets"
    /\ Config \notin o.touched =>
         /\ o.config = <<>> \/ o.config = LoadConfig(c, EmptyFile)
         /\ \A a \in Agents : Settled(o, d, c, a)
AppliedSoFar == Applying(editor, op, disk, conf)

-----------------------------------------------------------------------------
(* The snapshots.                                                          *)

\* The newest of the snapshots.
IsTop(S, s) == s \in S /\ \A t \in S : t.at <= s.at
Holds(files, p) == p \in DOMAIN files /\ files[p] = disk[p]
Guarded(p) == disk[p] # Missing /\ p \notin op.touched

StoreOk ==
  /\ IsFiniteSet(snaps) /\ clock \in Nat
  /\ \A s \in snaps : s.at \in 1..clock /\ s.id = <<s.at, 1>>
  /\ \A s, t \in snaps : s.at = t.at => s = t

Distinct(todo) == \A i, j \in 1..Len(todo) : todo[i] = todo[j] => i = j
\* A command that destroys goes on only once everything there is, is saved.
SavedSoFar ==
  (editor = "claude" /\ Destroys) =>
    /\ op.at \in {"wizard", "snapshot", "prune", "assets", "json"} /\ Distinct(op.todo)
    /\ op.at = "prune" =>
         \E s \in snaps : IsTop(snaps, s) /\ \A p \in Names \cup {Json} : Guarded(p) => Holds(s.files, p)
    /\ op.at \in {"assets", "json"} =>
         \A p \in Names \cup {Json} :
           Guarded(p) /\ (p = Json \/ Pending(op.todo, p)) => \E s \in snaps : Holds(s.files, p)

\* The newest snapshot holds what the last command saved.
UndoOnTop ==
  /\ DOMAIN undo \subseteq Names \cup {Json}
  /\ DOMAIN undo = {} \/ \E s \in snaps : IsTop(snaps, s) /\ s.files = undo

RestoredSoFar ==
  (op.kind = "rollback" /\ op.at = "restore") =>
    /\ op.todo \in Seq(Names \cup {Json})
    /\ op.id = "newest" =>
         \A p \in DOMAIN undo : /\ p \in DOMAIN op.files /\ op.files[p] = undo[p]
                                /\ Pending(op.todo, p) \/ p \in op.touched \/ disk[p] = undo[p]

\* The first that is given of three.
LEMMA FirstGiven ==
  ASSUME NEW a, NEW b, NEW c, c # Unset
  PROVE  <<a, b, c>>[CHOOSE i \in 1..3 : <<a, b, c>>[i] # Unset /\ \A j \in 1..(i - 1) : <<a, b, c>>[j] = Unset]
           = IF a # Unset THEN a ELSE IF b # Unset THEN b ELSE c
<1> DEFINE g == <<a, b, c>>
           P(i) == g[i] # Unset /\ \A j \in 1..(i - 1) : g[j] = Unset
           n == CHOOSE i \in 1..3 : P(i)
<1>1. g[1] = a /\ g[2] = b /\ g[3] = c
  OBVIOUS
<1>2. \E i \in 1..3 : P(i)
  <2>1. CASE a # Unset
    <3>1. P(1) BY <1>1, <2>1
    <3> QED BY <3>1
  <2>2. CASE a = Unset /\ b # Unset
    <3>1. P(2) BY <1>1, <2>2
    <3> QED BY <3>1
  <2>3. CASE a = Unset /\ b = Unset
    <3>1. P(3) BY <1>1, <2>3
    <3> QED BY <3>1
  <2> QED BY <2>1, <2>2, <2>3
<1>3. n \in 1..3 /\ P(n)
  BY <1>2
<1>4. g[n] = IF a # Unset THEN a ELSE IF b # Unset THEN b ELSE c
  <2> HIDE DEF n
  <2>1. n = 1 \/ n = 2 \/ n = 3
    BY <1>3
  <2>2. n = 1 => a # Unset
    BY <1>1, <1>3
  <2>3. n = 2 => a = Unset /\ b # Unset
    BY <1>1, <1>3
  <2>4. n = 3 => a = Unset /\ b = Unset
    BY <1>1, <1>3
  <2> QED BY <1>1, <2>1, <2>2, <2>3, <2>4
<1> QED BY <1>4

\* What loadConfig resolves for a role is what is wanted of it.
LEMMA LoadsWanted ==
  ASSUME ConfOk, NEW r \in Roles
  PROVE  LoadConfig(conf, EmptyFile)[r] = Wanted(r)
<1> DEFINE L == ReadLayer(conf)
           M == ApplyLayer(Compiled, L)
           N == ApplyLayer(M, EmptyFile)
<1>1. L.defaults \in Settings /\ L.overrides \in Settings
  BY LayerIs, FileFields DEF ConfOk, IsFile, HasFields
<1>2. /\ EmptyFile.defaults = NoSettings /\ EmptyFile.overrides = NoSettings
      /\ NoSettings \in Settings /\ ReadLayer(EmptyFile) = EmptyFile
  BY DEF EmptyFile, NoSettings, Settings, ReadLayer
<1>3. LoadConfig(conf, EmptyFile) = N
  BY <1>2 DEF LoadConfig
<1> HIDE DEF L
<1>4. /\ M \in [Roles -> [Fields -> Values]]
      /\ \A x \in Fields : M[r][x] = IF L.overrides[r][x] # Unset THEN L.overrides[r][x]
                                     ELSE IF L.defaults[r][x] # Unset THEN L.defaults[r][x] ELSE Compiled[r][x]
  BY <1>1, LayerOver
<1> HIDE DEF M
<1>5. /\ N[r] \in [Fields -> Values]
      /\ \A x \in Fields : N[r][x] = M[r][x]
  <2>1. \A x \in Fields : NoSettings[r][x] = Unset
    BY DEF NoSettings
  <2>2. PICK C, f : C = M /\ f = EmptyFile
    OBVIOUS
  <2>3. C \in [Roles -> [Fields -> Values]] /\ f.defaults \in Settings /\ f.overrides \in Settings
    BY <1>2, <1>4, <2>2
  <2>4. /\ ApplyLayer(C, f) \in [Roles -> [Fields -> Values]]
        /\ \A x \in Fields : ApplyLayer(C, f)[r][x] =
             IF f.overrides[r][x] # Unset THEN f.overrides[r][x]
             ELSE IF f.defaults[r][x] # Unset THEN f.defaults[r][x] ELSE C[r][x]
    <3>1. ApplyLayer(C, f) \in [Roles -> [Fields -> Values]]
      BY <2>3, LayerOver
    <3>2. ASSUME NEW x \in Fields
          PROVE  ApplyLayer(C, f)[r][x] =
                   IF f.overrides[r][x] # Unset THEN f.overrides[r][x]
                   ELSE IF f.defaults[r][x] # Unset THEN f.defaults[r][x] ELSE C[r][x]
      <4>1. x \in Fields /\ r \in Roles
        OBVIOUS
      <4> QED BY <2>3, <4>1, LayerOver
    <3> QED BY <3>1, <3>2
  <2>5. N = ApplyLayer(C, f)
    BY <2>2
  <2> HIDE DEF N
  <2> QED BY <1>2, <2>1, <2>2, <2>4, <2>5
<1> HIDE DEF N
<1>6. ASSUME NEW x \in Fields
      PROVE  Wanted(r)[x] = IF L.overrides[r][x] # Unset THEN L.overrides[r][x]
                            ELSE IF L.defaults[r][x] # Unset THEN L.defaults[r][x] ELSE Compiled[r][x]
  <2>1. Compiled[r][x] # Unset
    OBVIOUS
  <2> DEFINE a == L.overrides[r][x]
             b == L.defaults[r][x]
             c == Compiled[r][x]
  <2>2. Wanted(r)[x] = <<a, b, c>>[CHOOSE i \in 1..3 : <<a, b, c>>[i] # Unset /\ \A j \in 1..(i - 1) : <<a, b, c>>[j] = Unset]
    BY DEF Wanted, L
  <2> HIDE DEF a, b, c
  <2>3. Wanted(r)[x] = IF a # Unset THEN a ELSE IF b # Unset THEN b ELSE c
    BY <2>1, <2>2, FirstGiven DEF c
  <2> QED BY <2>3 DEF a, b, c
<1>7. DOMAIN Wanted(r) = Fields /\ Wanted(r) = [x \in Fields |-> Wanted(r)[x]]
  BY DEF Wanted
<1>8. \A x \in Fields : N[r][x] = Wanted(r)[x]
  BY <1>4, <1>5, <1>6
<1>9. N[r] = [x \in Fields |-> N[r][x]]
  BY <1>5
<1> QED BY <1>3, <1>7, <1>8, <1>9

LEMMA PendingTail ==
  ASSUME NEW D, NEW s \in Seq(D), s # <<>>, NEW a, Pending(s, a)
  PROVE  a = Head(s) \/ Pending(Tail(s), a)
<1>1. PICK i \in 1..Len(s) : s[i] = a
  BY DEF Pending
<1>2. CASE i = 1
  BY <1>1, <1>2
<1>3. CASE i # 1
  <2>1. i - 1 \in 1..Len(Tail(s)) /\ Tail(s)[i - 1] = s[i]
    BY <1>3
  <2> QED BY <1>1, <2>1 DEF Pending
<1> QED BY <1>2, <1>3

LEMMA AllPending == \A a \in Names : Pending(Assets, a)
<1>1. Assets \in Seq(STRING) /\ Names = {Assets[x] : x \in DOMAIN Assets}
  BY DEF Names, Range
<1>2. DOMAIN Assets = 1..Len(Assets)
  BY <1>1
<1> QED BY <1>1, <1>2 DEF Pending

\* An apply begins with everything to do.
LEMMA ApplyBegins ==
  ASSUME NEW o, o = Command("apply", "assets"), NEW d, NEW c
  PROVE  Applying("claude", o, d, c)
<1>1. DOMAIN NoOp = {"kind", "at", "force", "global", "id", "todo", "config", "json", "files", "touched"}
      /\ NoOp.config = <<>>
  BY NoOpOk DEF OpShape, NoOp
<1>2. o.at = "assets" /\ o.todo = Assets /\ o.config = <<>>
  BY <1>1 DEF Command
<1>3. \A a \in Agents : Pending(Assets, a)
  BY AllPending
<1> QED BY <1>2, <1>3 DEF Applying, Settled

\* One subagent is done.
LEMMA ApplyGoesOn ==
  ASSUME JInv, AppliedSoFar, ApplyAsset
  PROVE  AppliedSoFar'
<1> DEFINE h == Head(op.todo)
           R == LoadConfig(conf, EmptyFile)
<1>1. op.kind = "apply" /\ op.at = "assets" /\ op.todo # <<>> /\ editor' = editor /\ conf' = conf
  BY DEF ApplyAsset, At
<1>2. op.todo \in Seq(Names)
  BY <1>1 DEF JInv, OpOk
<1>3. /\ editor = "claude"
      /\ Config \notin op.touched => (op.config = <<>> \/ op.config = R) /\ \A a \in Agents : Settled(op, disk, conf, a)
  BY <1>1 DEF AppliedSoFar, Applying
<1>4. PICK config : op' = [op EXCEPT !.todo = Tail(@), !.config = config]
                    /\ config = IF h \in Agents THEN Resolved ELSE op.config
  BY DEF ApplyAsset, Advanced
<1>5. /\ op'.todo = Tail(op.todo) /\ op'.config = config /\ op'.kind = op.kind
      /\ op'.at = op.at /\ op'.touched = op.touched
  BY <1>4 DEF JInv, OpShape
<1>6. Config \notin op.touched => Resolved = R
  BY <1>3 DEF Resolved
<1>7. disk' = IF h \in Agents THEN [disk EXCEPT ![h] = Materialize(h)] ELSE disk
  BY DEF ApplyAsset
<1>8. h \in Agents /\ Config \notin op.touched => Materialize(h) = ClaudeAgent(R[RoleOf[h]])
  BY <1>3, <1>6 DEF Materialize, RenderedAs
<1> HIDE DEF h, R
<1>9. ASSUME NEW a \in Agents, Config \notin op.touched, Settled(op, disk, conf, a)
      PROVE  Settled(op', disk', conf', a)
  <2>1. CASE a = h
    <3>1. disk'[a] = ClaudeAgent(R[RoleOf[a]])
      BY <1>7, <1>8, <1>9, <2>1 DEF JInv, DiskOk
    <3> QED BY <1>1, <3>1 DEF Settled, R
  <2>2. CASE a # h
    <3>1. disk'[a] = disk[a]
      BY <1>7, <2>2
    <3>2. Pending(op.todo, a) => Pending(op'.todo, a)
      BY <1>1, <1>2, <1>5, <2>2, PendingTail DEF h
    <3> QED BY <1>1, <1>5, <1>9, <3>1, <3>2 DEF Settled
  <2> QED BY <2>1, <2>2
<1>10. Config \notin op.touched => config = <<>> \/ config = LoadConfig(conf', EmptyFile)
  BY <1>1, <1>3, <1>4, <1>6 DEF R
<1> QED BY <1>1, <1>3, <1>5, <1>9, <1>10 DEF AppliedSoFar, Applying

\* Somebody edits a file or the configuration.
LEMMA ApplyTouched ==
  ASSUME JInv, AppliedSoFar, (\E a \in Names : UserEdits(a)) \/ EditorWrites \/ UserEditsConfig
  PROVE  AppliedSoFar'
<1>1. PICK p : Touch(p) /\ (p = Config \/ (conf' = conf /\ \A a \in Names : a # p => disk'[a] = disk[a]))
  <2>1. CASE \E a \in Names : UserEdits(a)
    <3>1. PICK a \in Names : UserEdits(a)
      BY <2>1
    <3>2. PICK f : disk' = [disk EXCEPT ![a] = f]
      BY <3>1 DEF UserEdits
    <3>3. Names \subseteq DOMAIN disk
      BY DEF JInv, DiskOk
    <3>4. Touch(a) /\ conf' = conf /\ \A b \in Names : b # a => disk'[b] = disk[b]
      BY <3>1, <3>2, <3>3 DEF UserEdits
    <3> WITNESS a
    <3> QED BY <3>4
  <2>2. CASE EditorWrites
    <3>1. Touch(Json) /\ conf' = conf /\ \A a \in Names : disk'[a] = disk[a]
      <4>1. PICK f : disk' = [disk EXCEPT ![Json] = f]
        BY <2>2 DEF EditorWrites
      <4>2. Touch(Json) /\ conf' = conf
        BY <2>2 DEF EditorWrites
      <4> QED BY <4>1, <4>2 DEF JInv, DiskOk
    <3> QED BY <3>1
  <2>3. CASE UserEditsConfig
    BY <2>3 DEF UserEditsConfig
  <2> QED BY <2>1, <2>2, <2>3
<1>2. editor' = editor
  BY DEF UserEdits, EditorWrites, UserEditsConfig
<1>3. CASE Idle
  <2>1. op' = op /\ op.kind # "apply"
    BY <1>1, <1>3 DEF Touch, Idle
  <2> QED BY <2>1 DEF AppliedSoFar, Applying
<1>4. CASE ~Idle
  <2>1. /\ op'.at = op.at /\ op'.kind = op.kind /\ op'.todo = op.todo
        /\ op'.config = op.config /\ op'.touched = op.touched \cup {p}
    BY <1>1, <1>4 DEF Touch, JInv, OpShape
  <2>2. ASSUME op.kind = "apply", Config \notin op'.touched
        PROVE  /\ op'.config = <<>> \/ op'.config = LoadConfig(conf', EmptyFile)
               /\ \A a \in Agents : Settled(op', disk', conf', a)
    <3>1. conf' = conf /\ \A a \in Names : a # p => disk'[a] = disk[a]
      BY <1>1, <2>1, <2>2
    <3>2. Config \notin op.touched
      BY <2>1, <2>2
    <3>3. /\ op.config = <<>> \/ op.config = LoadConfig(conf, EmptyFile)
          /\ \A a \in Agents : Settled(op, disk, conf, a)
      BY <2>2, <3>2 DEF AppliedSoFar, Applying
    <3> QED BY <2>1, <3>1, <3>3 DEF Settled
  <2> QED BY <1>2, <2>1, <2>2 DEF AppliedSoFar, Applying
<1> QED BY <1>3, <1>4

LEMMA AppliedStep ==
  ASSUME JInv, AppliedSoFar, [Next]_vars
  PROVE  AppliedSoFar'
<1>1. CASE Starts /\ op'.kind = "apply"
  <2>1. op' = Command("apply", "assets") /\ editor' = "claude"
    <3>1. PICK kind, at : Opening(kind, at) /\ Fresh(op', kind, at)
      BY <1>1, StartsFresh DEF Began
    <3>2. kind = "apply"
      BY <1>1, <3>1 DEF Fresh
    <3> QED BY <1>1, <3>1, <3>2, StartsFresh DEF Opening
  <2> QED BY <2>1, ApplyBegins DEF AppliedSoFar
<1>2. CASE ApplyAsset
  BY <1>2, ApplyGoesOn
<1>3. CASE (\E a \in Names : UserEdits(a)) \/ EditorWrites \/ UserEditsConfig
  BY <1>3, ApplyTouched
<1>4. CASE op'.kind # "apply"
  BY <1>4 DEF AppliedSoFar, Applying
<1>5. CASE ApplyEnds \/ Crash \/ CrashWhilePinning \/ PinSnapshot \/ WriteJson
  <2>1. op' = NoOp
    BY <1>5 DEF ApplyEnds, Crash, CrashWhilePinning, PinSnapshot, WriteJson, Done
  <2> QED BY <1>4, <2>1 DEF NoOp
<1>6. CASE ConfigPreset \/ ConfigSet \/ (\E p \in PolicyPatches : ConfigWorktrees(p)) \/ ConfigReset
  <2>1. op' = op /\ op.kind = "none"
    BY <1>6 DEF ConfigPreset, ConfigSet, SetsRole, ConfigWorktrees, ConfigReset, Rewrite, Idle
  <2> QED BY <1>4, <2>1
<1>7. CASE UNCHANGED vars
  BY <1>7 DEF vars, AppliedSoFar, Applying, Settled
<1>8. CASE Starts /\ op'.kind # "apply"
  BY <1>4, <1>8
<1>9. CASE RunWizard \/ Snapshot \/ Prune \/ LoadSnapshot \/ Restore \/ InstallAsset \/ UninstallAsset \/ ReadJson
  <2>1. op.kind # "apply"
    BY <1>9 DEF RunWizard, Snapshot, Prune, LoadSnapshot, Restore, InstallAsset, UninstallAsset, ReadJson, At
  <2>2. op' = NoOp \/ op'.kind = op.kind
    BY <1>9 DEF RunWizard, Snapshot, Prune, LoadSnapshot, Restore, InstallAsset, UninstallAsset, ReadJson,
                Goto, Done, Advanced, JInv, OpShape
  <2> QED BY <1>4, <2>1, <2>2 DEF NoOp
<1> QED BY <1>1, <1>2, <1>3, <1>5, <1>6, <1>7, <1>8, <1>9 DEF Next, Starts

AppliedAtEnd ==
  (op.kind = "apply" /\ op.todo = <<>> /\ left' = left) =>
    \A a \in Agents : disk[a] = ClaudeAgent(Wanted(RoleOf[a])) \/ {a, Config} \cap op.touched # {}

LEMMA AppliedIs == ASSUME AppliedSoFar, ConfOk PROVE AppliedAtEnd
<1> SUFFICES ASSUME op.kind = "apply", op.todo = <<>>, NEW a \in Agents, {a, Config} \cap op.touched = {}
             PROVE  disk[a] = ClaudeAgent(Wanted(RoleOf[a]))
  BY DEF AppliedAtEnd
<1>1. ~Pending(<<>>, a)
  BY DEF Pending
<1>2. disk[a] = ClaudeAgent(LoadConfig(conf, EmptyFile)[RoleOf[a]])
  BY <1>1 DEF AppliedSoFar, Applying, Settled
<1>3. RoleOf[a] \in Roles
  OBVIOUS
<1> QED BY <1>2, <1>3, LoadsWanted

\* When an apply or the wizard ends, every subagent runs with the settings the
\* configuration asks for, whatever the layers say and wherever the user edits.
THEOREM AppliedIsWanted == Spec => AppliedConfig
<1>1. Init => JInv /\ ConfOk /\ AppliedSoFar
  <2>1. Init => AppliedSoFar
    BY DEF Init, AppliedSoFar, Applying, NoOp
  <2> QED BY <2>1, InitJInv DEF Init, ConfOk
<1>2. JInv /\ ConfOk /\ AppliedSoFar /\ [Next]_vars => (JInv /\ ConfOk /\ AppliedSoFar)'
  BY JInvStep, ConfStep, AppliedStep
<1>3. AppliedSoFar /\ ConfOk => [AppliedAtEnd]_vars
  BY AppliedIs
<1>4. [AppliedAtEnd]_vars =>
        [(op.kind = "apply" /\ op.todo = <<>> /\ left' = left) =>
           \A a \in Agents : \/ disk[a] = ClaudeAgent(Wanted(RoleOf[a]))
                             \/ {a, Config} \cap op.touched # {}]_vars
  BY DEF AppliedAtEnd
<1> QED BY <1>1, <1>2, <1>3, <1>4, PTL DEF Spec, AppliedConfig

\* The least of the naturals of a set.
LEMMA NatMin ==
  ASSUME NEW T, T \subseteq Nat, T # {}
  PROVE  \E x \in T : \A y \in T : x <= y
<1> DEFINE R == OpToRel(<, Nat)
<1>1. IsWellFoundedOn(R, Nat)
  BY NatLessThanWellFounded
<1> HIDE DEF R
<1>2. PICK x \in T : \A y \in T : <<y, x>> \notin R
  BY <1>1, WFMin
<1>3. \A y \in T : ~(y < x)
  BY <1>2 DEF R, OpToRel
<1> QED BY <1>3

\* Snapshots are ordered by their times alone, and one of them is the newest.
LEMMA NewerIs ==
  ASSUME StoreOk, NEW s \in snaps, NEW t \in snaps
  PROVE  Newer(s, t) <=> s.at > t.at
<1>1. s.id[2] = 1 /\ t.id[2] = 1 /\ s.at \in Nat /\ t.at \in Nat
  BY DEF StoreOk
<1> QED BY <1>1 DEF Newer

LEMMA TopExists ==
  ASSUME StoreOk, snaps # {}
  PROVE  \E s \in snaps : IsTop(snaps, s)
<1> DEFINE T == {clock - s.at : s \in snaps}
<1>1. \A s \in snaps : s.at \in 1..clock /\ clock - s.at \in Nat
  BY DEF StoreOk
<1>2. T \subseteq Nat /\ T # {}
  BY <1>1
<1>3. \A s \in snaps : clock - s.at \in T
  OBVIOUS
<1>4. \A n \in T : \E s \in snaps : n = clock - s.at
  OBVIOUS
<1> HIDE DEF T
<1>5. PICK n \in T : \A y \in T : n <= y
  BY <1>2, NatMin
<1>6. PICK s \in snaps : n = clock - s.at
  BY <1>4
<1>7. \A t \in snaps : t.at <= s.at
  <2>1. clock \in Nat
    BY DEF StoreOk
  <2> QED BY <1>1, <1>3, <1>5, <1>6, <2>1
<1> QED BY <1>7 DEF IsTop

LEMMA TopIsLatest ==
  ASSUME StoreOk, NEW s, IsTop(snaps, s)
  PROVE  Latest(snaps) = s
<1>1. s \in snaps /\ \A t \in snaps : t.at <= s.at
  BY DEF IsTop
<1>2. \A t \in snaps : t.at \in Nat
  BY DEF StoreOk
<1>3. \A t \in snaps \ {s} : Newer(s, t)
  <2>1. ASSUME NEW t \in snaps \ {s} PROVE s.at > t.at
    <3>1. s.at # t.at
      BY <1>1 DEF StoreOk
    <3> QED BY <1>1, <1>2, <3>1
  <2> QED BY <1>1, <2>1, NewerIs
<1>4. ASSUME NEW u \in snaps, \A t \in snaps \ {u} : Newer(u, t)
      PROVE  u = s
  <2>1. u # s => u.at > s.at
    BY <1>1, <1>4, NewerIs
  <2> QED BY <1>1, <1>2, <2>1
<1> QED BY <1>1, <1>3, <1>4 DEF Latest

LEMMA NewestIsTop ==
  ASSUME StoreOk, NEW s \in Load(snaps, "newest")
  PROVE  IsTop(snaps, s)
<1> DEFINE N == {t \in snaps : Newer(t, s)}
<1>1. s \in snaps /\ Cardinality(N) < 1
  BY DEF Load, Newest
<1>2. IsFiniteSet(N)
  BY FS_Subset DEF StoreOk
<1>3. N = {}
  <2>1. Cardinality(N) \in Nat
    BY <1>2, FS_CardinalityType
  <2> HIDE DEF N
  <2>2. Cardinality(N) = 0
    BY <1>1, <2>1
  <2> QED BY <1>2, <2>2, FS_EmptySet
<1>4. \A t \in snaps : ~(t.at > s.at)
  BY <1>1, <1>3, NewerIs
<1>5. \A t \in snaps : t.at \in Nat
  BY DEF StoreOk
<1> QED BY <1>1, <1>4, <1>5 DEF IsTop

LEMMA TopIsKept ==
  ASSUME StoreOk, NEW s, IsTop(snaps, s)
  PROVE  s \in Pruned(snaps, Keep)
<1> DEFINE N == {t \in {u \in snaps : ~u.pinned} : Newer(t, s)}
<1>1. s \in snaps /\ \A t \in snaps : ~(t.at > s.at)
  <2>1. \A t \in snaps : t.at \in Nat
    BY DEF StoreOk
  <2> QED BY <2>1 DEF IsTop
<1>2. N = {}
  BY <1>1, NewerIs
<1>3. Cardinality(N) < Keep
  <2>1. Cardinality({}) = 0 /\ Keep \in Nat \ {0}
    BY FS_EmptySet
  <2> HIDE DEF N
  <2> QED BY <1>2, <2>1
<1>4. ~s.pinned => s \in Newest({u \in snaps : ~u.pinned}, Keep)
  BY <1>1, <1>3 DEF Newest
<1> QED BY <1>1, <1>4 DEF Pruned

\* The snapshot of an instant at which there is none yet is the first of it.
Record(files, now) == [id |-> <<now, 1>>, at |-> now, files |-> files, pinned |-> FALSE]
LEMMA SaveIs ==
  ASSUME StoreOk, NEW files
  PROVE  Save(snaps, files, clock + 1) = IF Known(snaps, files) THEN snaps ELSE snaps \cup {Record(files, clock + 1)}
<1> DEFINE n == Cardinality(snaps) + 1
           F == {k \in 1..n : \A s \in snaps : s.id # <<clock + 1, k>>}
<1>1. n \in Nat \ {0}
  <2>1. Cardinality(snaps) \in Nat
    BY FS_CardinalityType DEF StoreOk
  <2> QED BY <2>1
<1>2. \A s \in snaps : s.id[1] # clock + 1
  BY DEF StoreOk
<1>3. F = 1..n
  BY <1>2
<1> HIDE DEF n
<1>4. Min(1..n) = 1
  BY <1>1 DEF Min
<1>5. FreshId(snaps, clock + 1) = <<clock + 1, Min(F)>>
  BY DEF FreshId, n
<1> HIDE DEF F
<1> QED BY <1>3, <1>4, <1>5 DEF Save, Record

LEMMA StoreStep == ASSUME StoreOk, [Next]_vars PROVE StoreOk'
<1>1. CASE snaps' \subseteq snaps /\ clock' = clock
  <2>1. IsFiniteSet(snaps')
    BY <1>1, FS_Subset DEF StoreOk
  <2> QED BY <1>1, <2>1 DEF StoreOk
<1>2. CASE Prune \/ CrashWhilePinning
  <2>1. snaps' \subseteq snaps /\ clock' = clock
    BY <1>2 DEF Prune, CrashWhilePinning, Pruned, Newest
  <2> QED BY <1>1, <2>1
<1>3. CASE Snapshot
  <2>1. CASE UNCHANGED <<snaps, clock>>
    BY <1>1, <2>1
  <2>2. CASE snaps' = Save(snaps, Captured, clock') /\ clock' = clock + 1
    <3>1. snaps' = snaps \/ snaps' = snaps \cup {Record(Captured, clock + 1)}
      BY <2>2, SaveIs
    <3>2. IsFiniteSet(snaps')
      <4>1. IsFiniteSet(snaps)
        BY DEF StoreOk
      <4>2. IsFiniteSet(snaps \cup {Record(Captured, clock + 1)})
        BY <4>1, FS_AddElement
      <4> QED BY <3>1, <4>1, <4>2
    <3>3. clock' = clock + 1 /\ clock \in Nat
      BY <2>2 DEF StoreOk
    <3>4. \A s \in snaps : s.at \in 1..clock /\ s.at \in 1..clock' /\ s.id = <<s.at, 1>>
      BY <3>3 DEF StoreOk
    <3>5. \A s, t \in snaps : s.at = t.at => s = t
      BY DEF StoreOk
    <3>6. /\ Record(Captured, clock + 1).at = clock'
          /\ Record(Captured, clock + 1).id = <<Record(Captured, clock + 1).at, 1>>
      BY <3>3 DEF Record
    <3>7. PICK r : r = Record(Captured, clock + 1)
      OBVIOUS
    <3>8. \A s \in snaps' : s \in snaps \/ s = r
      BY <3>1, <3>7
    <3>9. r.at = clock' /\ r.id = <<r.at, 1>> /\ \A s \in snaps : s.at # r.at
      BY <3>3, <3>4, <3>6, <3>7
    <3> QED BY <3>2, <3>3, <3>4, <3>5, <3>8, <3>9 DEF StoreOk
  <2> QED BY <1>3, <2>1, <2>2 DEF Snapshot
<1>4. CASE PinSnapshot
  <2> DEFINE f == [s \in snaps |-> IF s.id = op.id THEN [s EXCEPT !.pinned = TRUE] ELSE s]
  <2>1. snaps' = {f[s] : s \in snaps} /\ clock' = clock
    BY <1>4 DEF PinSnapshot, Pin
  <2>2. f \in Surjection(snaps, snaps')
    BY <2>1 DEF Surjection
  <2>3. IsFiniteSet(snaps')
    BY <2>2, FS_Surjection DEF StoreOk
  <2>4. \A s \in snaps : f[s].at = s.at /\ f[s].id = s.id
    BY DEF StoreOk
  <2> HIDE DEF f
  <2>5. \A s \in snaps : f[s].at \in 1..clock' /\ f[s].id = <<f[s].at, 1>>
    BY <2>1, <2>4 DEF StoreOk
  <2>6. \A s, t \in snaps : f[s].at = f[t].at => f[s] = f[t]
    BY <2>4 DEF StoreOk
  <2>7. clock' \in Nat
    BY <2>1 DEF StoreOk
  <2> QED BY <2>1, <2>3, <2>5, <2>6, <2>7 DEF StoreOk
<1>5. [Next]_vars => \/ UNCHANGED <<snaps, clock>>
                     \/ Snapshot \/ Prune \/ PinSnapshot \/ CrashWhilePinning
  BY DEF Next, vars, Install, ClaudeInstall, OpenCodeInstall, CursorInstall, ClaudeUninstall,
         OpenCodeUninstall, CursorUninstall, Apply, PinCommand, Rollback, Begin, ConfigPreset,
         ConfigSet, SetsRole, ConfigWorktrees, ConfigReset, Rewrite, ConfigWizard, RunWizard, LoadSnapshot,
         Restore, InstallAsset, UninstallAsset, ApplyAsset, ApplyEnds, ReadJson, WriteJson,
         UserEdits, EditorWrites, UserEditsConfig, Crash
<1> QED BY <1>1, <1>2, <1>3, <1>4, <1>5

-----------------------------------------------------------------------------
(* What a command destroys is saved.                                       *)

Places == Names \cup {Json}
SavedBy(s) == \A p \in Places : Guarded(p) => Holds(s.files, p)

\* A snapshot, taken or known already, is the newest and holds everything.
LEMMA SnapshotSaves ==
  ASSUME StoreOk, Snapshot, Captured # NoFiles
  PROVE  \E s \in snaps' : IsTop(snaps', s) /\ s.files = Captured
<1>1. snaps' = Save(snaps, Captured, clock + 1) /\ clock' = clock + 1
  BY DEF Snapshot
<1>2. CASE Known(snaps, Captured)
  <2>1. PICK s \in snaps : IsTop(snaps, s)
    BY <1>2, TopExists DEF Known
  <2>2. s.files = Captured
    BY <1>2, <2>1, TopIsLatest DEF Known
  <2>3. snaps' = snaps
    BY <1>1, <1>2, SaveIs
  <2> QED BY <2>1, <2>2, <2>3
<1>3. CASE ~Known(snaps, Captured)
  <2>1. PICK r : r = Record(Captured, clock + 1)
    OBVIOUS
  <2>2. snaps' = snaps \cup {r}
    BY <1>1, <1>3, <2>1, SaveIs
  <2>3. r.at = clock + 1 /\ r.files = Captured
    BY <2>1 DEF Record
  <2>4. \A t \in snaps : t.at <= clock + 1
    BY DEF StoreOk
  <2>5. clock + 1 <= clock + 1
    BY DEF StoreOk
  <2> QED BY <2>2, <2>3, <2>4, <2>5 DEF IsTop
<1> QED BY <1>2, <1>3

LEMMA PruneKeepsTop ==
  ASSUME StoreOk, Prune, NEW s, IsTop(snaps, s)
  PROVE  IsTop(snaps', s)
<1>1. snaps' = Pruned(snaps, Keep) /\ s \in Pruned(snaps, Keep)
  BY TopIsKept DEF Prune
<1>2. snaps' \subseteq snaps
  BY <1>1 DEF Pruned, Newest
<1> QED BY <1>1, <1>2 DEF IsTop

LEMMA CapturedHolds ==
  ASSUME DiskOk, NEW p \in Places, disk[p] # Missing
  PROVE  p \in DOMAIN Captured /\ Captured[p] = disk[p]
BY DEF Captured, Places, DiskOk

LEMMA DistinctTail ==
  ASSUME NEW D, NEW s \in Seq(D), s # <<>>, Distinct(s)
  PROVE  Distinct(Tail(s)) /\ ~Pending(Tail(s), Head(s))
<1>1. \A i \in 1..Len(Tail(s)) : i + 1 \in 1..Len(s) /\ i + 1 # 1 /\ Tail(s)[i] = s[i + 1]
  OBVIOUS
<1>2. Head(s) = s[1] /\ 1 \in 1..Len(s)
  OBVIOUS
<1> QED BY <1>1, <1>2 DEF Distinct, Pending

LEMMA PendingOfTail ==
  ASSUME NEW D, NEW s \in Seq(D), s # <<>>, NEW a, Pending(Tail(s), a)
  PROVE  Pending(s, a)
<1>1. \A i \in 1..Len(Tail(s)) : i + 1 \in 1..Len(s) /\ Tail(s)[i] = s[i + 1]
  OBVIOUS
<1> QED BY <1>1 DEF Pending

\* An event around the commands changes one file and says so.
LEMMA EventTouches ==
  ASSUME JInv, (\E a \in Names : UserEdits(a)) \/ EditorWrites \/ UserEditsConfig
  PROVE  \E q : Touch(q) /\ \A p \in Places : p # q => disk'[p] = disk[p]
<1>1. DOMAIN disk = Places
  BY DEF JInv, DiskOk, Places
<1>2. CASE \E a \in Names : UserEdits(a)
  <2>1. PICK a \in Names : UserEdits(a)
    BY <1>2
  <2>2. PICK f : disk' = [disk EXCEPT ![a] = f]
    BY <2>1 DEF UserEdits
  <2>3. Touch(a) /\ \A p \in Places : p # a => disk'[p] = disk[p]
    BY <1>1, <2>1, <2>2 DEF UserEdits
  <2> WITNESS a
  <2> QED BY <2>3
<1>3. CASE EditorWrites
  <2>1. PICK f : disk' = [disk EXCEPT ![Json] = f]
    BY <1>3 DEF EditorWrites
  <2>2. Touch(Json)
    BY <1>3 DEF EditorWrites
  <2> WITNESS Json
  <2> QED BY <1>1, <2>1, <2>2
<1>4. CASE UserEditsConfig
  <2> WITNESS Config
  <2> QED BY <1>4 DEF UserEditsConfig
<1> QED BY <1>2, <1>3, <1>4

LEMMA SavedStep ==
  ASSUME JInv, StoreOk, SavedSoFar, [Next]_vars
  PROVE  SavedSoFar'
<1>1. CASE ~Destroys'
  BY <1>1 DEF SavedSoFar
<1>2. CASE Starts
  <2>1. PICK kind, at : Opening(kind, at) /\ Fresh(op', kind, at)
    BY <1>2, StartsFresh DEF Began
  <2>2. editor' = editor
    BY <1>2, StartsFresh
  <2>3. op'.kind = kind /\ op'.at = at /\ op'.todo = Assets
    BY <2>1 DEF Fresh
  <2>4. Destroys' /\ editor = "claude" => op'.at \in {"wizard", "snapshot"}
    BY <2>1, <2>3 DEF Opening, Destroys
  <2> QED BY <2>2, <2>3, <2>4 DEF SavedSoFar, Distinct
<1>3. CASE RunWizard
  <2>1. op.kind = "install" /\ op.at = "wizard" /\ Goto(IF op.force THEN "snapshot" ELSE "assets") /\ editor' = editor
    BY <1>3 DEF RunWizard, At
  <2>2. /\ op'.at = (IF op.force THEN "snapshot" ELSE "assets") /\ op'.force = op.force
        /\ op'.kind = op.kind /\ op'.todo = op.todo
    BY <2>1 DEF Goto, JInv, OpShape
  <2> QED BY <2>1, <2>2 DEF SavedSoFar, Destroys
<1>4. CASE Snapshot
  <2>1. disk' = disk /\ Goto(IF Captured = NoFiles THEN "assets" ELSE "prune")
    BY <1>4 DEF Snapshot
  <2>2. /\ op'.at = (IF Captured = NoFiles THEN "assets" ELSE "prune") /\ op'.todo = op.todo
        /\ op'.kind = op.kind /\ op'.force = op.force
    BY <2>1 DEF Goto, JInv, OpShape
  <2>5. Destroys' => Destroys /\ (editor' = "claude" => editor = "claude")
    BY <1>4, <2>2 DEF Destroys, Snapshot
  <2>3. CASE Captured = NoFiles
    <3>1. DOMAIN NoFiles = {}
      BY DEF NoFiles
    <3>2. \A p \in Places : disk[p] = Missing
      BY <2>3, <3>1, CapturedHolds DEF JInv
    <3> QED BY <2>1, <2>2, <2>3, <2>5, <3>2 DEF SavedSoFar, Guarded, Places
  <2>4. CASE Captured # NoFiles
    <3>1. PICK s \in snaps' : IsTop(snaps', s) /\ s.files = Captured
      BY <1>4, <2>4, SnapshotSaves
    <3>2. SavedBy(s)'
      BY <2>1, <3>1, CapturedHolds DEF SavedBy, Guarded, Holds, JInv, Places
    <3> QED BY <2>2, <2>4, <2>5, <3>1, <3>2 DEF SavedSoFar, SavedBy, Places
  <2> QED BY <2>3, <2>4
<1>5. CASE Prune
  <2>1. disk' = disk /\ Goto("assets") /\ op.at = "prune" /\ editor' = editor
    BY <1>5 DEF Prune, At
  <2>2. /\ op'.at = "assets" /\ op'.touched = op.touched /\ op'.kind = op.kind
        /\ op'.force = op.force /\ op'.todo = op.todo
    BY <2>1 DEF Goto, JInv, OpShape
  <2>3. ASSUME editor = "claude", Destroys
        PROVE  \E s \in snaps' : SavedBy(s)'
    <3>1. PICK s \in snaps : IsTop(snaps, s) /\ SavedBy(s)
      BY <2>1, <2>3 DEF SavedSoFar, SavedBy, Places
    <3>2. IsTop(snaps', s)
      BY <1>5, <3>1, PruneKeepsTop
    <3>3. SavedBy(s)'
      BY <2>1, <2>2, <3>1 DEF SavedBy, Guarded, Holds
    <3> QED BY <3>2, <3>3 DEF IsTop
  <2>4. Destroys' => Destroys
    BY <2>2 DEF Destroys
  <2> QED BY <2>1, <2>2, <2>3, <2>4 DEF SavedSoFar, SavedBy, Places
<1>6. CASE InstallAsset \/ UninstallAsset
  <2> DEFINE h == Head(op.todo)
  <2>1. op.at = "assets" /\ op.kind \in {"install", "uninstall"} /\ op.todo # <<>> /\ snaps' = snaps /\ editor' = editor
    BY <1>6 DEF InstallAsset, UninstallAsset, At
  <2>2. op.todo \in Seq(Names)
    BY <2>1 DEF JInv, OpOk
  <2>3. \/ op' = [op EXCEPT !.todo = Tail(@)]
        \/ \E config : op' = [op EXCEPT !.todo = Tail(@), !.config = config]
    BY <1>6 DEF InstallAsset, UninstallAsset, Advanced
  <2>4. /\ op'.todo = Tail(op.todo) /\ op'.kind = op.kind /\ op'.at = op.at
        /\ op'.force = op.force /\ op'.touched = op.touched
    BY <2>3 DEF JInv, OpShape
  <2>5. disk' = disk \/ \E f : disk' = [disk EXCEPT ![h] = f]
    BY <1>6 DEF InstallAsset, UninstallAsset
  <2>6. \A p \in Places : p # h => disk'[p] = disk[p]
    BY <2>5 DEF JInv, DiskOk, Places
  <2>7. h \in Names
    BY <2>1, <2>2
  <2> HIDE DEF h
  <2>8. ASSUME editor = "claude", Destroys, NEW p \in Places, Guarded(p)', p = Json \/ Pending(op'.todo, p)
        PROVE  \E s \in snaps' : Holds(s.files, p)'
    <3>1. Distinct(op.todo)
      BY <2>8 DEF SavedSoFar
    <3>2. p # h
      <4>1. ~Pending(Tail(op.todo), h)
        BY <2>1, <2>2, <3>1, DistinctTail DEF h
      <4> QED BY <2>4, <2>7, <2>8, <4>1
    <3>3. disk'[p] = disk[p] /\ (p = Json \/ Pending(op.todo, p))
      BY <2>1, <2>2, <2>4, <2>6, <2>8, <3>2, PendingOfTail
    <3>4. Guarded(p)
      BY <2>4, <2>8, <3>3 DEF Guarded
    <3>5. PICK s \in snaps : Holds(s.files, p)
      BY <2>1, <2>8, <3>3, <3>4 DEF SavedSoFar, Places
    <3> QED BY <2>1, <3>3, <3>5 DEF Holds
  <2>9. Destroys' => Destroys
    BY <2>4 DEF Destroys
  <2>10. Distinct(op.todo) => Distinct(op'.todo)
    BY <2>1, <2>2, <2>4, DistinctTail
  <2> QED BY <2>1, <2>4, <2>8, <2>9, <2>10 DEF SavedSoFar, Places
<1>7. CASE ReadJson
  <2>1. /\ op' = [op EXCEPT !.at = "json", !.json = Parsed(disk[Json])] /\ op.at = "assets"
        /\ disk' = disk /\ snaps' = snaps /\ editor' = editor
    BY <1>7 DEF ReadJson, At
  <2>2. /\ op'.at = "json" /\ op'.todo = op.todo /\ op'.kind = op.kind
        /\ op'.force = op.force /\ op'.touched = op.touched
    BY <2>1 DEF JInv, OpShape
  <2> QED BY <2>1, <2>2 DEF SavedSoFar, Destroys, Guarded, Holds
<1>8. CASE (\E a \in Names : UserEdits(a)) \/ EditorWrites \/ UserEditsConfig
  <2>1. CASE Idle
    <3>1. op' = op /\ op.kind = "none"
      BY <1>8, <2>1 DEF UserEdits, EditorWrites, UserEditsConfig, Touch, Idle
    <3> QED BY <1>1, <3>1 DEF Destroys
  <2>2. CASE ~Idle
    <3>1. PICK q : Touch(q) /\ \A p \in Places : p # q => disk'[p] = disk[p]
      BY <1>8, EventTouches
    <3>2. snaps' = snaps /\ editor' = editor
      BY <1>8 DEF UserEdits, EditorWrites, UserEditsConfig
    <3>3. /\ op'.at = op.at /\ op'.kind = op.kind /\ op'.todo = op.todo
          /\ op'.force = op.force /\ op'.touched = op.touched \cup {q}
      BY <2>2, <3>1 DEF Touch, JInv, OpShape
    <3>4. \A p \in Places : Guarded(p)' => Guarded(p) /\ disk'[p] = disk[p]
      BY <3>1, <3>3 DEF Guarded
    <3>5. \A p \in Places : Guarded(p)' => \A s : Holds(s.files, p) => Holds(s.files, p)'
      BY <3>4 DEF Holds
    <3>6. Destroys' => Destroys
      BY <3>3 DEF Destroys
    <3> QED BY <3>2, <3>3, <3>4, <3>5, <3>6 DEF SavedSoFar, Places
  <2> QED BY <2>1, <2>2
<1>9. CASE op' = NoOp
  BY <1>1, <1>9 DEF Destroys, NoOp
<1>10. CASE PinSnapshot \/ ApplyEnds \/ WriteJson \/ Crash \/ CrashWhilePinning
  BY <1>9, <1>10 DEF PinSnapshot, ApplyEnds, WriteJson, Crash, CrashWhilePinning, Done
<1>11. CASE LoadSnapshot \/ Restore \/ ApplyAsset
  <2>1. op.kind \in {"rollback", "apply"}
    BY <1>11 DEF LoadSnapshot, Restore, ApplyAsset, At
  <2>2. op' = NoOp \/ op'.kind = op.kind
    BY <1>11 DEF LoadSnapshot, Restore, ApplyAsset, Done, Advanced, JInv, OpShape
  <2> QED BY <1>1, <1>9, <2>1, <2>2 DEF Destroys
<1>12. CASE ConfigPreset \/ ConfigSet \/ (\E p \in PolicyPatches : ConfigWorktrees(p)) \/ ConfigReset
  <2>1. op' = op /\ op.kind = "none"
    BY <1>12 DEF ConfigPreset, ConfigSet, SetsRole, ConfigWorktrees, ConfigReset, Rewrite, Idle
  <2> QED BY <1>1, <2>1 DEF Destroys
<1>13. CASE UNCHANGED vars
  BY <1>13 DEF vars, SavedSoFar, Destroys, Guarded, Holds
<1> QED BY <1>2, <1>3, <1>4, <1>5, <1>6, <1>7, <1>8, <1>10, <1>11, <1>12, <1>13 DEF Next, Starts

\* Only what is still to do, or the servers' file, changes without being touched.
LEMMA ChangesPending ==
  ASSUME JInv, Next, Destroys, op.at \in {"assets", "json"}, NEW p \in Places,
         disk'[p] # disk[p], p \notin op'.touched
  PROVE  p = Json \/ Pending(op.todo, p)
<1>1. DOMAIN disk = Places /\ op.kind \in {"install", "uninstall"}
  BY DEF JInv, DiskOk, Places, Destroys
<1>2. op.todo \in Seq(Names)
  BY <1>1 DEF JInv, OpOk
<1>3. op.todo # <<>> => Pending(op.todo, Head(op.todo))
  <2>1. op.todo # <<>> => 1 \in 1..Len(op.todo) /\ op.todo[1] = Head(op.todo)
    BY <1>2
  <2> QED BY <2>1 DEF Pending
<1>4. ~Idle
  BY <1>1 DEF Idle
<1>5. CASE InstallAsset \/ UninstallAsset
  <2>1. op.todo # <<>> /\ (disk' = disk \/ \E f : disk' = [disk EXCEPT ![Head(op.todo)] = f])
    BY <1>5 DEF InstallAsset, UninstallAsset
  <2>2. p = Head(op.todo)
    BY <1>1, <2>1
  <2> QED BY <1>3, <2>1, <2>2
<1>6. CASE WriteJson
  <2>1. disk' = disk \/ disk' = [disk EXCEPT ![Json] = Registered]
    BY <1>6 DEF WriteJson
  <2> QED BY <1>1, <2>1
<1>7. CASE (\E a \in Names : UserEdits(a)) \/ EditorWrites \/ UserEditsConfig
  <2>1. PICK q : Touch(q) /\ \A r \in Places : r # q => disk'[r] = disk[r]
    BY <1>7, EventTouches
  <2>2. p = q /\ op'.touched = op.touched \cup {q}
    BY <1>4, <2>1 DEF Touch, JInv, OpShape
  <2> QED BY <2>2
<1>8. CASE Crash
  <2>1. PICK q \in BeingWritten : disk' = CutShort(q)
    BY <1>8 DEF Crash
  <2>2. p = q
    BY <1>1, <2>1 DEF CutShort
  <2>3. q = Json \/ (op.todo # <<>> /\ q = Head(op.todo))
    BY <2>1 DEF BeingWritten
  <2> QED BY <1>3, <2>2, <2>3
<1>9. CASE Starts
  BY <1>4, <1>9, StartsFresh
<1>10. CASE RunWizard \/ Snapshot \/ Prune \/ PinSnapshot \/ LoadSnapshot \/ ApplyEnds \/ ReadJson \/ CrashWhilePinning
            \/ ConfigPreset \/ ConfigSet \/ (\E c \in PolicyPatches : ConfigWorktrees(c)) \/ ConfigReset
  BY <1>10 DEF RunWizard, Snapshot, Prune, PinSnapshot, LoadSnapshot, ApplyEnds, ReadJson, CrashWhilePinning,
               ConfigPreset, ConfigSet, SetsRole, ConfigWorktrees, ConfigReset, Rewrite
<1>11. CASE Restore \/ ApplyAsset
  BY <1>1, <1>11 DEF Restore, ApplyAsset, At
<1> QED BY <1>5, <1>6, <1>7, <1>8, <1>9, <1>10, <1>11 DEF Next, Starts

WorkKept ==
  (editor = "claude" /\ Destroys /\ op.at \in {"assets", "json"}) =>
    \A p \in Names \cup {Json} :
      disk'[p] # disk[p] /\ disk[p] # Missing /\ p \notin op.touched /\ p \notin op'.touched
        => \E s \in snaps : p \in DOMAIN s.files /\ s.files[p] = disk[p]

LEMMA WorkStep == ASSUME JInv, SavedSoFar, Next PROVE WorkKept
<1> SUFFICES ASSUME editor = "claude", Destroys, op.at \in {"assets", "json"}, NEW p \in Places,
                    disk'[p] # disk[p], disk[p] # Missing, p \notin op.touched, p \notin op'.touched
             PROVE  \E s \in snaps : p \in DOMAIN s.files /\ s.files[p] = disk[p]
  BY DEF WorkKept, Places
<1>1. p = Json \/ Pending(op.todo, p)
  BY ChangesPending
<1>2. \E s \in snaps : Holds(s.files, p)
  BY <1>1 DEF SavedSoFar, Guarded, Places
<1> QED BY <1>2 DEF Holds

\* What a forced install or an uninstall overwrites or removes is whole in a
\* snapshot, for any files of the user, any assets and any number of snapshots.
THEOREM UserWorkStays == Spec => UserWorkKept
<1> DEFINE I == JInv /\ StoreOk /\ SavedSoFar
<1>1. Init => I
  <2>1. Init => StoreOk
    BY FS_EmptySet DEF Init, StoreOk
  <2>2. Init => SavedSoFar
    BY DEF Init, SavedSoFar, Destroys, NoOp
  <2> QED BY <2>1, <2>2, InitJInv
<1>2. I /\ [Next]_vars => I'
  BY JInvStep, StoreStep, SavedStep
<1>3. I /\ [Next]_vars => [WorkKept]_vars
  BY WorkStep
<1>4. [WorkKept]_vars =>
        [(editor = "claude" /\ Destroys /\ op.at \in {"assets", "json"}) =>
           \A p \in Names \cup {Json} :
             disk'[p] # disk[p] /\ disk[p] # Missing /\ p \notin op.touched /\ p \notin op'.touched
               => \E s \in snaps : p \in DOMAIN s.files /\ s.files[p] = disk[p]]_vars
  BY DEF WorkKept
<1> HIDE DEF I
<1> QED BY <1>1, <1>2, <1>3, <1>4, PTL DEF Spec, UserWorkKept

-----------------------------------------------------------------------------
(* A rollback brings back what was saved.                                  *)

\* The last save is on top, and stays there through pins, prunes and the loss of others.
LEMMA UndoStep ==
  ASSUME JInv, StoreOk, UndoOnTop, [Next]_vars
  PROVE  UndoOnTop'
<1>1. CASE UNCHANGED <<snaps, undo>>
  BY <1>1 DEF UndoOnTop, IsTop
<1>2. CASE Snapshot
  <2>1. CASE Captured = NoFiles
    BY <1>1, <1>2, <2>1 DEF Snapshot
  <2>2. CASE Captured # NoFiles
    <3>1. undo' = Captured /\ DOMAIN Captured \subseteq Names \cup {Json}
      BY <1>2, <2>2 DEF Snapshot, Captured
    <3>2. PICK s \in snaps' : IsTop(snaps', s) /\ s.files = Captured
      BY <1>2, <2>2, SnapshotSaves
    <3> QED BY <3>1, <3>2 DEF UndoOnTop
  <2> QED BY <2>1, <2>2
<1>3. CASE Prune
  <2>1. undo' = undo
    BY <1>3 DEF Prune
  <2>2. \A s : IsTop(snaps, s) => IsTop(snaps', s)
    BY <1>3, PruneKeepsTop
  <2> QED BY <2>1, <2>2 DEF UndoOnTop, IsTop
<1>4. CASE PinSnapshot
  <2> DEFINE f == [s \in snaps |-> IF s.id = op.id THEN [s EXCEPT !.pinned = TRUE] ELSE s]
  <2>1. snaps' = {f[s] : s \in snaps} /\ undo' = undo
    BY <1>4 DEF PinSnapshot, Pin
  <2>2. \A s \in snaps : f[s].at = s.at /\ f[s].files = s.files
    BY DEF JInv, SnapsOk
  <2> HIDE DEF f
  <2>3. \A s : IsTop(snaps, s) => IsTop(snaps', f[s])
    BY <2>1, <2>2 DEF IsTop
  <2> QED BY <2>1, <2>2, <2>3 DEF UndoOnTop, IsTop
<1>5. CASE CrashWhilePinning
  <2>1. snaps' = snaps \ {s \in snaps : s.id = op.id}
        /\ undo' = IF snaps # {} /\ Latest(snaps) \in {s \in snaps : s.id = op.id} THEN NoFiles ELSE undo
    BY <1>5 DEF CrashWhilePinning
  <2>2. CASE undo' = NoFiles
    <3>1. DOMAIN NoFiles = {}
      BY DEF NoFiles
    <3> QED BY <2>2, <3>1 DEF UndoOnTop
  <2>3. CASE undo' # NoFiles /\ DOMAIN undo # {}
    <3>1. PICK s \in snaps : IsTop(snaps, s) /\ s.files = undo
      BY <2>3 DEF UndoOnTop
    <3>2. undo' = undo /\ s.id # op.id
      BY <2>1, <2>3, <3>1, TopIsLatest
    <3>3. s \in snaps' /\ snaps' \subseteq snaps
      BY <2>1, <3>2
    <3> QED BY <3>1, <3>2, <3>3 DEF UndoOnTop, IsTop
  <2>4. CASE undo' # NoFiles /\ DOMAIN undo = {}
    BY <2>1, <2>4 DEF UndoOnTop
  <2> QED BY <2>2, <2>3, <2>4
<1>6. [Next]_vars => \/ UNCHANGED <<snaps, undo>>
                     \/ Snapshot \/ Prune \/ PinSnapshot \/ CrashWhilePinning
  BY DEF Next, vars, Install, ClaudeInstall, OpenCodeInstall, CursorInstall, ClaudeUninstall,
         OpenCodeUninstall, CursorUninstall, Apply, PinCommand, Rollback, Begin, ConfigPreset,
         ConfigSet, SetsRole, ConfigWorktrees, ConfigReset, Rewrite, ConfigWizard, RunWizard, LoadSnapshot,
         Restore, InstallAsset, UninstallAsset, ApplyAsset, ApplyEnds, ReadJson, WriteJson,
         UserEdits, EditorWrites, UserEditsConfig, Crash
<1> QED BY <1>1, <1>2, <1>3, <1>4, <1>5, <1>6

LEMMA AllToDo ==
  /\ <<Json>> \o Assets \in Seq(Places)
  /\ \A p \in Places : Pending(<<Json>> \o Assets, p)
<1>1. <<Json>> \in Seq(Places) /\ Assets \in Seq(Places)
  BY AssetNames DEF Places
<1>2. <<Json>> \o Assets \in Seq(Places)
  BY <1>1
<1>3. Pending(<<Json>> \o Assets, Json)
  <2>1. 1 \in 1..Len(<<Json>> \o Assets) /\ (<<Json>> \o Assets)[1] = Json
    BY <1>1
  <2> QED BY <2>1 DEF Pending
<1>4. ASSUME NEW p \in Names PROVE Pending(<<Json>> \o Assets, p)
  <2>1. PICK i \in 1..Len(Assets) : Assets[i] = p
    BY AllPending DEF Pending
  <2>2. i + 1 \in 1..Len(<<Json>> \o Assets) /\ (<<Json>> \o Assets)[i + 1] = p
    BY <1>1, <2>1
  <2> QED BY <2>2 DEF Pending
<1> QED BY <1>2, <1>3, <1>4 DEF Places

LEMMA RestoredStep ==
  ASSUME JInv, StoreOk, UndoOnTop, RestoredSoFar, [Next]_vars
  PROVE  RestoredSoFar'
<1>1. CASE op'.kind # "rollback" \/ op'.at # "restore"
  BY <1>1 DEF RestoredSoFar
<1>2. CASE Starts
  <2>1. PICK kind, at : Opening(kind, at) /\ Fresh(op', kind, at)
    BY <1>2, StartsFresh DEF Began
  <2>2. op'.at # "restore"
    BY <2>1 DEF Fresh, Opening
  <2> QED BY <1>1, <2>2
<1>3. CASE op' = NoOp
  BY <1>1, <1>3 DEF NoOp
<1>4. CASE LoadSnapshot /\ op' # NoOp
  <2>1. PICK s \in Load(snaps, op.id) : op' = [op EXCEPT !.at = "restore", !.files = s.files, !.todo = <<Json>> \o Assets]
    BY <1>4 DEF LoadSnapshot, Done
  <2>2. op'.todo = <<Json>> \o Assets /\ op'.files = s.files /\ op'.id = op.id
    BY <2>1 DEF JInv, OpShape
  <2>3. undo' = undo
    BY <1>4 DEF LoadSnapshot
  <2>4. ASSUME op.id = "newest", NEW p \in DOMAIN undo
        PROVE  s.files = undo
    <3>1. PICK t \in snaps : IsTop(snaps, t) /\ t.files = undo
      BY <2>4 DEF UndoOnTop
    <3>2. IsTop(snaps, s)
      BY <2>4, NewestIsTop
    <3>3. t = s
      BY <3>1, <3>2, TopIsLatest
    <3> QED BY <3>1, <3>3
  <2>5. DOMAIN undo \subseteq Places
    BY DEF UndoOnTop, Places
  <2> QED BY <2>2, <2>3, <2>4, <2>5, AllToDo DEF RestoredSoFar, Places
<1>5. CASE Restore /\ op' # NoOp
  <2> DEFINE h == Head(op.todo)
  <2>1. op.kind = "rollback" /\ op.at = "restore" /\ op.todo # <<>> /\ op' = [op EXCEPT !.todo = Tail(@)] /\ undo' = undo
    BY <1>5 DEF Restore, Done, At
  <2>2. /\ op'.todo = Tail(op.todo) /\ op'.files = op.files /\ op'.id = op.id
        /\ op'.touched = op.touched
    BY <2>1 DEF JInv, OpShape
  <2>3. op.todo \in Seq(Places)
    BY <2>1 DEF RestoredSoFar, Places
  <2>4. Tail(op.todo) \in Seq(Places) /\ h \in Places
    BY <2>1, <2>3
  <2>5. disk' = IF h \in DOMAIN op.files THEN [disk EXCEPT ![h] = op.files[h]] ELSE disk
    BY <2>1, <1>5 DEF Restore
  <2>6. DOMAIN disk = Places
    BY DEF JInv, DiskOk, Places
  <2> HIDE DEF h
  <2>7. ASSUME op.id = "newest", NEW p \in DOMAIN undo
        PROVE  /\ p \in DOMAIN op.files /\ op.files[p] = undo[p]
               /\ Pending(Tail(op.todo), p) \/ p \in op.touched \/ disk'[p] = undo[p]
    <3>1. /\ p \in DOMAIN op.files /\ op.files[p] = undo[p]
          /\ Pending(op.todo, p) \/ p \in op.touched \/ disk[p] = undo[p]
      BY <2>1, <2>7 DEF RestoredSoFar
    <3>2. CASE p = h
      <4>1. disk'[p] = undo[p]
        BY <2>4, <2>5, <2>6, <3>1, <3>2
      <4> QED BY <3>1, <4>1
    <3>3. CASE p # h
      <4>1. disk'[p] = disk[p]
        <5>1. p \in Places
          BY <2>7 DEF UndoOnTop, Places
        <5> QED BY <2>5, <2>6, <3>3, <5>1
      <4>2. Pending(op.todo, p) => Pending(Tail(op.todo), p)
        BY <2>1, <2>3, <3>3, PendingTail DEF h
      <4> QED BY <3>1, <4>1, <4>2
    <3> QED BY <3>2, <3>3
  <2> QED BY <2>1, <2>2, <2>4, <2>7 DEF RestoredSoFar, Places
<1>6. CASE (\E a \in Names : UserEdits(a)) \/ EditorWrites \/ UserEditsConfig
  <2>1. CASE Idle
    <3>1. op' = op /\ op.kind = "none"
      BY <1>6, <2>1 DEF UserEdits, EditorWrites, UserEditsConfig, Touch, Idle
    <3> QED BY <1>1, <3>1
  <2>2. CASE ~Idle
    <3>1. PICK q : Touch(q) /\ \A p \in Places : p # q => disk'[p] = disk[p]
      BY <1>6, EventTouches
    <3>2. undo' = undo
      BY <1>6 DEF UserEdits, EditorWrites, UserEditsConfig
    <3>3. /\ op'.at = op.at /\ op'.kind = op.kind /\ op'.todo = op.todo /\ op'.id = op.id
          /\ op'.files = op.files /\ op'.touched = op.touched \cup {q}
      BY <2>2, <3>1 DEF Touch, JInv, OpShape
    <3>4. \A p \in DOMAIN undo : p # q => disk'[p] = disk[p]
      BY <3>1 DEF UndoOnTop, Places
    <3> QED BY <3>2, <3>3, <3>4 DEF RestoredSoFar
  <2> QED BY <2>1, <2>2
<1>7. CASE PinSnapshot \/ ApplyEnds \/ WriteJson \/ Crash \/ CrashWhilePinning
  BY <1>3, <1>7 DEF PinSnapshot, ApplyEnds, WriteJson, Crash, CrashWhilePinning, Done
<1>8. CASE RunWizard \/ Snapshot \/ Prune \/ InstallAsset \/ UninstallAsset \/ ApplyAsset \/ ReadJson
  <2>1. op.kind # "rollback"
    BY <1>8 DEF RunWizard, Snapshot, Prune, InstallAsset, UninstallAsset, ApplyAsset, ReadJson, At
  <2>2. op'.kind = op.kind
    BY <1>8 DEF RunWizard, Snapshot, Prune, InstallAsset, UninstallAsset, ApplyAsset, ReadJson,
                Goto, Advanced, JInv, OpShape
  <2> QED BY <1>1, <2>1, <2>2
<1>9. CASE ConfigPreset \/ ConfigSet \/ (\E p \in PolicyPatches : ConfigWorktrees(p)) \/ ConfigReset
  <2>1. op' = op /\ op.kind = "none"
    BY <1>9 DEF ConfigPreset, ConfigSet, SetsRole, ConfigWorktrees, ConfigReset, Rewrite, Idle
  <2> QED BY <1>1, <2>1
<1>10. CASE UNCHANGED vars
  BY <1>10 DEF vars, RestoredSoFar, Pending
<1> QED BY <1>2, <1>3, <1>4, <1>5, <1>6, <1>7, <1>8, <1>9, <1>10 DEF Next, Starts

Restored ==
  (op.kind = "rollback" /\ op.id = "newest" /\ op.at = "restore" /\ op.todo = <<>> /\ left' = left) =>
    \A p \in DOMAIN undo : disk[p] = undo[p] \/ p \in op.touched

LEMMA RestoredIs == ASSUME RestoredSoFar PROVE Restored
<1>1. \A p : ~Pending(<<>>, p)
  BY DEF Pending
<1> QED BY <1>1 DEF RestoredSoFar, Restored

\* A rollback that comes to its end brings back what the last snapshot was taken
\* of: a dedup, a prune, a pin or a lost manifest never puts another in its place.
THEOREM UndoIsRestored == Spec => UndoRestores
<1> DEFINE I == JInv /\ StoreOk /\ UndoOnTop /\ RestoredSoFar
<1>1. Init => I
  <2>1. Init => StoreOk
    BY FS_EmptySet DEF Init, StoreOk
  <2>2. Init => UndoOnTop
    BY DEF Init, UndoOnTop, NoFiles
  <2>3. Init => RestoredSoFar
    BY DEF Init, RestoredSoFar, NoOp
  <2> QED BY <2>1, <2>2, <2>3, InitJInv
<1>2. I /\ [Next]_vars => I'
  BY JInvStep, StoreStep, UndoStep, RestoredStep
<1>3. I => [Restored]_vars
  BY RestoredIs
<1>4. [Restored]_vars =>
        [(op.kind = "rollback" /\ op.id = "newest" /\ op.at = "restore" /\ op.todo = <<>> /\ left' = left) =>
           \A p \in DOMAIN undo : disk[p] = undo[p] \/ p \in op.touched]_vars
  BY DEF Restored
<1> HIDE DEF I
<1> QED BY <1>1, <1>2, <1>3, <1>4, PTL DEF Spec, UndoRestores
=============================================================================
