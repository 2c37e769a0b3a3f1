----------------------------- MODULE Installer -----------------------------
(***************************************************************************)
(* The installers of chamba's commands, agents and MCP server into Claude  *)
(* Code, OpenCode and Cursor (claude-extras, opencode-extras and           *)
(* cursor-extras), with the snapshots and the rollback of the first.  One  *)
(* command runs at a time, a step per file; between its steps the user     *)
(* edits files, the editor changes its own configuration, and the process  *)
(* dies, which leaves the file being written cut short.  The editors share *)
(* nothing but the chamba configuration: a behaviour has one of them.      *)
(***************************************************************************)
EXTENDS SnapshotStore, ChambaConfig, SequencesExt, Functions

CONSTANTS
  Assets,        \* the shipped files, in the order they are installed
  RoleOf,        \* the role of each subagent (AGENT_ROLE_BY_FILE)
  Anthropic,     \* models Claude Code can run
  Others,        \* MCP servers of the user
  ProjectFile,   \* the project's configuration, which the tools layer on top
  Answers,       \* what the wizard may be told, for every role
  Patches,       \* what "config set" may change of a role
  PolicyPatches, \* what "config worktrees init" may be told
  Keep,          \* snapshots kept (snapshotKeep)
  FirstFiles,    \* what ~/.chamba/config.json may be at first
  MaxCommands, MaxRewrites, MaxEvents   \* commands, those that change the
                 \* configuration, and events around them (bounds)

Agents == DOMAIN RoleOf
Names == Range(Assets)
Json == "mcp.json"    \* ~/.claude.json, opencode.json, ~/.cursor/mcp.json
Config == "config.json"
Editors == {"claude", "opencode", "cursor"}

ASSUME InstallerAssumption ==
  /\ Assets \in Seq(STRING) /\ \A i, j \in DOMAIN Assets : Assets[i] = Assets[j] => i = j
  /\ Json \notin Names /\ Agents \subseteq Names /\ RoleOf \in [Agents -> Roles]
  /\ {"model", "effort"} = Fields
  /\ ProjectFile \in ConfigFiles /\ Answers \subseteq [Roles -> [Fields -> Values]]
  /\ Patches \subseteq [Fields -> Values \cup {Unset}] /\ PolicyPatches \subseteq Policies
  /\ FirstFiles \subseteq ConfigFiles
  /\ Keep \in Nat \ {0} /\ MaxCommands \in Nat /\ MaxRewrites \in Nat /\ MaxEvents \in Nat

VARIABLES
  editor,      \* the editor of this machine
  disk,        \* the files of the editor: its assets, and Json
  conf,        \* ~/.chamba/config.json
  snaps,       \* ~/.chamba/backups/claude-extras
  clock,
  op,          \* the command that runs
  undo,        \* the files the last snapshot saved (history)
  commands, rewrites, left   \* what is left of the three bounds

vars == <<editor, disk, conf, snaps, clock, op, undo, commands, rewrites, left>>

\* A file is the user's own, cut short, or what an installer renders.
Missing == [is |-> "missing"]
Torn == [is |-> "torn"]
Own == [is |-> "own"]
\* The JSON file of the editor.  One that JSON.parse refuses (comments, a
\* write cut short) is not strict; the editor may read its servers still.
JsonFile(strict, servers, chamba) == [is |-> "json", strict |-> strict, servers |-> servers, chamba |-> chamba]

NoFiles == <<>>
NoOp == [kind |-> "none", at |-> "idle", force |-> FALSE, global |-> FALSE, id |-> "newest", todo |-> <<>>,
         config |-> <<>>, json |-> Missing, files |-> NoFiles, touched |-> {}]

TypeOK ==
  /\ editor \in Editors /\ DOMAIN disk = Names \cup {Json} /\ conf \in ConfigFiles
  /\ \A a \in Names : disk[a].is \in {"missing", "torn", "own", "shipped", "agent"}
  /\ disk[Json] = Missing \/ (disk[Json].servers \subseteq Others /\ disk[Json].chamba \in {"none", "npx", "binary"})
  /\ IsFiniteSet(snaps) /\ \A s, t \in snaps : s.id = t.id => s = t
  /\ \A s \in snaps : s.files # NoFiles /\ s.at \in 1..clock
  /\ clock \in 0..MaxCommands /\ commands \in 0..MaxCommands /\ rewrites \in 0..MaxRewrites /\ left \in 0..MaxEvents
  /\ op.kind \in {"none", "install", "uninstall", "apply", "rollback", "pin"}
  /\ op.kind = "none" => op = NoOp

Init ==
  /\ editor \in Editors
  /\ \E json \in {Missing, JsonFile(TRUE, Others, "none"), JsonFile(FALSE, Others, "none")} :
       disk = [p \in Names \cup {Json} |-> IF p = Json THEN json ELSE Missing]
  /\ conf \in FirstFiles /\ snaps = {} /\ clock = 0 /\ op = NoOp /\ undo = NoFiles
  /\ commands = MaxCommands /\ rewrites = MaxRewrites /\ left = MaxEvents

Idle == op.kind = "none"
At(kinds, at) == op.kind \in kinds /\ op.at = at
Goto(at) == op' = [op EXCEPT !.at = at]
Done == op' = NoOp

\* Mutant of Captured: the JSON file forgotten.
CapturedAssets == [p \in {q \in Names : disk[q] # Missing} |-> disk[p]]
\* What a snapshot captures: every file there is.  That a file cannot be read
\* (readIfExists passes it over) is not modelled.
Captured == [p \in {q \in Names \cup {Json} : disk[q] # Missing} |-> disk[p]]

-----------------------------------------------------------------------------
(* What is installed.                                                      *)

\* parseAgentMarkdown and renderAgentMarkdown: a model Claude Code cannot run
\* is left out, and the effort stays.
ClaudeAgent(cfg) == [is |-> "agent", model |-> IF cfg["model"] \in Anthropic THEN cfg["model"] ELSE "inherit",
                     effort |-> cfg["effort"]]
OpenCodeAgent(cfg) == [is |-> "agent", model |-> IF cfg["model"] \in Anthropic THEN cfg["model"] ELSE "default",
                       effort |-> "none"]
CursorAgent(cfg) == [is |-> "agent", model |-> IF cfg["model"] \in Anthropic THEN cfg["model"] ELSE "inherit",
                     effort |-> "none"]

RenderedAs(e, cfg) ==
  CASE e = "claude" -> ClaudeAgent(cfg) [] e = "opencode" -> OpenCodeAgent(cfg) [] e = "cursor" -> CursorAgent(cfg)

\* resolveConfig: read when it is first needed, and kept for the command.
Resolved == IF op.config = <<>> THEN LoadConfig(conf, EmptyFile) ELSE op.config

\* materialize: the shipped file, with the settings of its role put in.
Materialize(a) ==
  IF a \in Agents THEN RenderedAs(editor, Resolved[RoleOf[a]]) ELSE [is |-> "shipped"]

Advanced(a) == [op EXCEPT !.todo = Tail(@), !.config = IF a \in Agents THEN Resolved ELSE @]

-----------------------------------------------------------------------------
(* The commands (main of the three cli.ts, and runConfigCommand).          *)

Begin(cmd) ==
  /\ Idle /\ commands > 0 /\ commands' = commands - 1
  /\ op' = cmd
  /\ UNCHANGED <<editor, disk, conf, snaps, clock, undo, rewrites, left>>

Command(kind, at) == [NoOp EXCEPT !.kind = kind, !.at = at, !.todo = Assets]

\* A failed "npm i -g" goes on as a plain install.
ClaudeInstall(force, global) ==
  editor = "claude" /\ Begin([Command("install", "wizard") EXCEPT !.force = force, !.global = global])
OpenCodeInstall(force, global) ==
  editor = "opencode" /\ Begin([Command("install", "assets") EXCEPT !.force = force, !.global = global])
CursorInstall(force, global) ==
  editor = "cursor" /\ Begin([Command("install", "assets") EXCEPT !.force = force, !.global = global])

ClaudeUninstall == editor = "claude" /\ Begin(Command("uninstall", "snapshot"))
OpenCodeUninstall == editor = "opencode" /\ Begin(Command("uninstall", "assets"))
CursorUninstall == editor = "cursor" /\ Begin(Command("uninstall", "assets"))

Apply == editor = "claude" /\ Begin(Command("apply", "assets"))

\* runRollback with --pin, with an id, or for the newest.
PinCommand(id) == editor = "claude" /\ Begin([Command("pin", "pin") EXCEPT !.id = id])
Rollback(id) == editor = "claude" /\ Begin([Command("rollback", "load") EXCEPT !.id = id])

\* A command that rewrites the configuration: read, check and write at once.
Rewrite(file) ==
  /\ Idle /\ rewrites > 0 /\ rewrites' = rewrites - 1
  /\ conf' = file
  /\ UNCHANGED <<editor, disk, snaps, clock, op, undo, commands, left>>

ConfigPreset == \E p \in Presets : Readable(conf) /\ Rewrite(SetPreset(conf, p))
SetsRole(r, p) == Readable(conf) /\ Rewrite(SetRole(conf, r, p))
ConfigSet == \E r \in Roles, p \in Patches : SetsRole(r, p)
ConfigWorktrees(p) == Readable(conf) /\ Rewrite(SetWorktrees(conf, p))
ConfigReset == conf # Reset /\ Rewrite(Reset)

\* "config wizard" writes the file and then regenerates the subagents.
ConfigWizard ==
  /\ editor = "claude" /\ Idle /\ rewrites > 0 /\ rewrites' = rewrites - 1
  /\ conf' \in WizardFiles(Answers)
  /\ op' = Command("apply", "assets")
  /\ UNCHANGED <<editor, disk, snaps, clock, undo, commands, left>>

-----------------------------------------------------------------------------
(* Snapshots and rollback.                                                 *)

\* maybeRunWizard: only while there is no file, and the user may decline.
RunWizard ==
  /\ At({"install"}, "wizard")
  /\ conf' \in {conf} \cup (IF conf.state = "missing" THEN WizardFiles(Answers) ELSE {})
  /\ Goto(IF op.force THEN "snapshot" ELSE "assets")
  /\ UNCHANGED <<editor, disk, snaps, clock, undo, commands, rewrites, left>>

\* snapshot: every file there is, unless there is none.
Snapshot ==
  /\ At({"install", "uninstall"}, "snapshot")
  /\ IF Captured = NoFiles THEN UNCHANGED <<snaps, clock, undo>>
     ELSE /\ clock' = clock + 1 /\ snaps' = Save(snaps, Captured, clock')
          /\ undo' = Captured
  /\ Goto(IF Captured = NoFiles THEN "assets" ELSE "prune")
  /\ UNCHANGED <<editor, disk, conf, commands, rewrites, left>>

Prune ==
  /\ At({"install", "uninstall"}, "prune")
  /\ snaps' = Pruned(snaps, Keep)
  /\ Goto("assets")
  /\ UNCHANGED <<editor, disk, conf, clock, undo, commands, rewrites, left>>

PinSnapshot ==
  /\ At({"pin"}, "pin") /\ snaps' = Pin(snaps, op.id) /\ Done
  /\ UNCHANGED <<editor, disk, conf, clock, undo, commands, rewrites, left>>

LoadSnapshot ==
  /\ At({"rollback"}, "load")
  /\ LET found == Load(snaps, op.id) IN
     IF found = {} THEN Done
     ELSE \E s \in found : op' = [op EXCEPT !.at = "restore", !.files = s.files,
                                            !.todo = <<Json>> \o Assets]
  /\ UNCHANGED <<editor, disk, conf, snaps, clock, undo, commands, rewrites, left>>

\* rollback: what was captured is written back, and nothing is removed.
Restore ==
  /\ At({"rollback"}, "restore")
  /\ IF op.todo = <<>> THEN Done /\ UNCHANGED disk
     ELSE LET p == Head(op.todo) IN
          /\ disk' = IF p \in DOMAIN op.files THEN [disk EXCEPT ![p] = op.files[p]] ELSE disk
          /\ op' = [op EXCEPT !.todo = Tail(@)]
  /\ UNCHANGED <<editor, conf, snaps, clock, undo, commands, rewrites, left>>

-----------------------------------------------------------------------------
(* Assets.                                                                 *)

\* An asset that is there is skipped, unless --force.
InstallAsset ==
  LET a == Head(op.todo) IN
  /\ At({"install"}, "assets") /\ op.todo # <<>>
  /\ IF disk[a] # Missing /\ ~op.force
     THEN UNCHANGED disk /\ op' = [op EXCEPT !.todo = Tail(@)]
     ELSE disk' = [disk EXCEPT ![a] = Materialize(a)] /\ op' = Advanced(a)
  /\ UNCHANGED <<editor, conf, snaps, clock, undo, commands, rewrites, left>>

UninstallAsset ==
  /\ At({"uninstall"}, "assets") /\ op.todo # <<>>
  /\ disk' = [disk EXCEPT ![Head(op.todo)] = Missing]
  /\ op' = [op EXCEPT !.todo = Tail(@)]
  /\ UNCHANGED <<editor, conf, snaps, clock, undo, commands, rewrites, left>>

\* applyConfig: only the subagents of a role, and only those that differ.
ApplyAsset ==
  LET a == Head(op.todo) IN
  /\ At({"apply"}, "assets") /\ op.todo # <<>>
  /\ disk' = IF a \in Agents THEN [disk EXCEPT ![a] = Materialize(a)] ELSE disk
  /\ op' = Advanced(a)
  /\ UNCHANGED <<editor, conf, snaps, clock, undo, commands, rewrites, left>>

ApplyEnds ==
  /\ At({"apply"}, "assets") /\ op.todo = <<>> /\ Done
  /\ UNCHANGED <<editor, disk, conf, snaps, clock, undo, commands, rewrites, left>>

-----------------------------------------------------------------------------
(* The registration of the MCP server: the JSON file is read, changed and  *)
(* written whole.                                                          *)

\* readClaudeJson, readJson: what cannot be parsed counts as an empty object.  So
\* would a file that cannot be read, which is not modelled.
Parsed(file) == IF file # Missing /\ file.strict THEN file ELSE JsonFile(TRUE, {}, "none")

ReadJson ==
  /\ At({"install", "uninstall"}, "assets") /\ op.todo = <<>>
  /\ op' = [op EXCEPT !.at = "json", !.json = Parsed(disk[Json])]
  /\ UNCHANGED <<editor, disk, conf, snaps, clock, undo, commands, rewrites, left>>

Launcher == IF op.global THEN "binary" ELSE "npx"

\* addMcpServer: an entry is replaced only by another launcher, with --global.
Registers == op.json.chamba = "none" \/ (op.global /\ op.json.chamba # Launcher)
\* removeMcpServer: nothing to do without an entry.
Unregisters == op.json.chamba # "none"

\* Mutant of Registered: the file made anew.
RegisteredOnly == JsonFile(TRUE, {}, Launcher)
Registered == [op.json EXCEPT !.chamba = IF op.kind = "install" THEN Launcher ELSE "none"]

WriteJson ==
  /\ At({"install", "uninstall"}, "json")
  /\ disk' = IF (op.kind = "install" /\ Registers) \/ (op.kind = "uninstall" /\ Unregisters)
             THEN [disk EXCEPT ![Json] = Registered] ELSE disk
  /\ Done
  /\ UNCHANGED <<editor, conf, snaps, clock, undo, commands, rewrites, left>>

-----------------------------------------------------------------------------
(* What happens around the commands.                                       *)

Event == left > 0 /\ left' = left - 1
Touch(p) == op' = IF Idle THEN op ELSE [op EXCEPT !.touched = @ \cup {p}]

UserEdits(a) ==
  /\ Event /\ disk' \in {[disk EXCEPT ![a] = Own], [disk EXCEPT ![a] = Missing]} /\ disk' # disk
  /\ Touch(a)
  /\ UNCHANGED <<editor, conf, snaps, clock, undo, commands, rewrites>>

\* The editor, or its user, registers a server, comments the file or mends it.
EditorWrites ==
  LET file == IF disk[Json] = Missing THEN JsonFile(TRUE, {}, "none") ELSE disk[Json] IN
  /\ Event
  /\ \E s \in SUBSET Others, strict \in BOOLEAN :
       disk' = [disk EXCEPT ![Json] = JsonFile(strict, s, file.chamba)]
  /\ disk' # disk /\ Touch(Json)
  /\ UNCHANGED <<editor, conf, snaps, clock, undo, commands, rewrites>>

UserEditsConfig ==
  /\ Event
  /\ \/ conf' = InvalidFile
     \/ \E r \in Roles, p \in Patches : Readable(conf) /\ conf' = SetRole(conf, r, p)
  /\ conf' # conf /\ Touch(Config)
  /\ UNCHANGED <<editor, disk, snaps, clock, undo, commands, rewrites>>

\* writeFile truncates first: a process that dies while it writes a file
\* leaves it cut short.
CutShort(p) == IF p = Json THEN [disk EXCEPT ![Json] = JsonFile(FALSE, {}, "none")] ELSE [disk EXCEPT ![p] = Torn]

BeingWritten ==
  IF op.at = "assets" /\ op.kind # "uninstall" /\ op.todo # <<>>
    THEN {a \in {Head(op.todo)} : IF op.kind = "apply" THEN a \in Agents /\ disk[a] # Materialize(a)
                                  ELSE op.force \/ disk[a] = Missing}
  ELSE IF op.at = "restore" /\ op.todo # <<>> THEN {Head(op.todo)} \cap DOMAIN op.files
  ELSE IF op.at = "json" THEN {p \in {Json} : IF op.kind = "install" THEN Registers ELSE Unregisters}
  ELSE {}

Crash ==
  /\ ~Idle /\ Event /\ Done
  /\ disk' \in {disk} \cup {CutShort(p) : p \in BeingWritten}
  /\ UNCHANGED <<editor, conf, snaps, clock, undo, commands, rewrites>>

\* A manifest that is being pinned is written whole again.
CrashWhilePinning ==
  LET lost == {s \in snaps : s.id = op.id} IN
  /\ At({"pin"}, "pin") /\ Event /\ Done
  /\ snaps' = snaps \ lost
  /\ undo' = IF snaps # {} /\ Latest(snaps) \in lost THEN NoFiles ELSE undo
  /\ UNCHANGED <<editor, disk, conf, clock, commands, rewrites>>

-----------------------------------------------------------------------------
Install ==
  \E force, global \in BOOLEAN :
    ClaudeInstall(force, global) \/ OpenCodeInstall(force, global) \/ CursorInstall(force, global)

Ids == {s.id : s \in snaps}

Next ==
  \/ Install \/ ClaudeUninstall \/ OpenCodeUninstall \/ CursorUninstall
  \/ Apply \/ \E id \in Ids : PinCommand(id) \/ Rollback(id)
  \/ Rollback("newest")
  \/ ConfigPreset \/ ConfigSet \/ (\E p \in PolicyPatches : ConfigWorktrees(p)) \/ ConfigReset \/ ConfigWizard
  \/ RunWizard \/ Snapshot \/ Prune \/ PinSnapshot \/ LoadSnapshot \/ Restore
  \/ InstallAsset \/ UninstallAsset \/ ApplyAsset \/ ApplyEnds \/ ReadJson \/ WriteJson
  \/ (\E a \in Names : UserEdits(a)) \/ EditorWrites \/ UserEditsConfig \/ Crash \/ CrashWhilePinning

Spec == Init /\ [][Next]_vars

-----------------------------------------------------------------------------
(* Properties.                                                             *)

\* What "install --force" and "uninstall" overwrite or remove in Claude Code's
\* files is in a snapshot, whole, unless it changed after the snapshot was
\* taken: dedup and pruning never cost the state the command is about to
\* destroy.
Destroys == (op.kind = "install" /\ op.force) \/ op.kind = "uninstall"
UserWorkKept ==
  [][(editor = "claude" /\ Destroys /\ op.at \in {"assets", "json"}) =>
       \A p \in Names \cup {Json} :
         disk'[p] # disk[p] /\ disk[p] # Missing /\ p \notin op.touched /\ p \notin op'.touched
           => \E s \in snaps : p \in DOMAIN s.files /\ s.files[p] = disk[p]]_vars

\* A rollback that comes to its end brings back every file as it was before
\* the last "install --force" or "uninstall" that saved anything, except for
\* what was edited while it ran.
UndoRestores ==
  [][(op.kind = "rollback" /\ op.id = "newest" /\ op.at = "restore" /\ op.todo = <<>> /\ left' = left) =>
       \A p \in DOMAIN undo : disk[p] = undo[p] \/ p \in op.touched]_vars

\* A pinned snapshot stays, with its files, whatever else is saved and pruned,
\* except when the process dies while it pins that very snapshot again.
PinnedKept ==
  [][\A s \in snaps : s.pinned /\ ~(op.kind = "pin" /\ op.id = s.id)
       => \E t \in snaps' : t.id = s.id /\ t.files = s.files /\ t.pinned]_vars

\* What the settings of a role come to: the first that is given of the
\* override, the default of the file and the compiled default.
Wanted(role) ==
  [f \in Fields |-> LET given == <<ReadLayer(conf).overrides[role][f], ReadLayer(conf).defaults[role][f], Compiled[role][f]>>
                    IN  given[CHOOSE i \in 1..3 : given[i] # Unset /\ \A j \in 1..(i - 1) : given[j] = Unset]]

\* When "apply" or the wizard ends, every subagent runs with the settings the
\* configuration asks for, unless it or the configuration was edited meanwhile.
AppliedConfig ==
  [][(op.kind = "apply" /\ op.todo = <<>> /\ left' = left) =>
       \A a \in Agents : \/ disk[a] = ClaudeAgent(Wanted(RoleOf[a]))
                         \/ {a, Config} \cap op.touched # {}]_vars

\* What a setting of a role comes to in a project.
Setting(file, r, f) == LoadConfig(file, ProjectFile)[r][f]

\* A preset, "config set" and "config worktrees init" change nothing that the
\* tools resolve in a project but what they are about: a preset no setting that
\* the user overrides, "set" no other role and no field that it is not given,
\* the worktree questions no setting of a role and no key that is not answered.
\* (A reset and the wizard of the roles replace the file, overrides and worktree
\* policy with it.)
PolicyKept ==
  [][/\ (ConfigPreset \/ ConfigSet) => LoadWorktrees(conf', ProjectFile) = LoadWorktrees(conf, ProjectFile)
     /\ \A r \in Roles, f \in Fields :
          (\/ ConfigPreset /\ conf.overrides[r][f] # Unset
           \/ \E q \in Roles, p \in Patches : SetsRole(q, p) /\ (q # r \/ p[f] = Unset)
           \/ \E p \in PolicyPatches : ConfigWorktrees(p))
             => Setting(conf', r, f) = Setting(conf, r, f)
     /\ \A p \in PolicyPatches : ConfigWorktrees(p) =>
          \A k \in PolicyKeys : p[k] = Unset =>
            LoadWorktrees(conf', ProjectFile)[k] = LoadWorktrees(conf, ProjectFile)[k]]_vars

Servers(file) == IF file = Missing THEN {} ELSE file.servers

\* The user's other MCP servers stay registered, unless the file was not strict
\* JSON when the installer read it, or changed before it was written.
ServersKept ==
  [][op.at = "json" /\ Json \notin op.touched /\ disk[Json] # Missing /\ disk[Json].strict /\ left' = left
       => Servers(disk[Json]) \subseteq Servers(disk'[Json])]_vars

=============================================================================
