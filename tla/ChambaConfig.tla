---------------------------- MODULE ChambaConfig ----------------------------
(***************************************************************************)
(* The chamba configuration file (~/.chamba/config.json and the project's  *)
(* .chamba/config.json): its layers and the commands that rewrite it       *)
(* (core/src/config/loader.ts and worktrees.ts, claude-extras/src/         *)
(* config-store.ts and wizard.ts).  A file is missing, invalid (JSON that  *)
(* does not parse or fails the schema), or gives some of the fields of     *)
(* some roles in "defaults" and in "overrides", and some keys of the       *)
(* worktree policy.  A field not given is Unset.                           *)
(***************************************************************************)
EXTENDS Integers, Sequences

CONSTANTS
  Roles, Fields,   \* the agent roles, and the fields of a role's settings
  Values,          \* what a field or a key may be set to
  Compiled,        \* DEFAULT_CONFIG: a value for every role and field
  PolicyKeys,      \* the keys of the worktree policy
  CompiledPolicy,  \* DEFAULT_WORKTREE_CONFIG
  Presets          \* PRESETS: settings for every role and field

Unset == "unset"
Settings == [Roles -> [Fields -> Values \cup {Unset}]]
Policies == [PolicyKeys -> Values \cup {Unset}]

NoSettings == [r \in Roles |-> [f \in Fields |-> Unset]]
NoPolicy == [k \in PolicyKeys |-> Unset]

ASSUME ConfigAssumption ==
  /\ Unset \notin Values
  /\ Compiled \in [Roles -> [Fields -> Values]] /\ CompiledPolicy \in [PolicyKeys -> Values]
  /\ Presets \subseteq [Roles -> [Fields -> Values]]

EmptyFile == [state |-> "missing", defaults |-> NoSettings, overrides |-> NoSettings, worktrees |-> NoPolicy]
InvalidFile == [EmptyFile EXCEPT !.state = "invalid"]
\* What a file may be: one that cannot be used says nothing.
ConfigFiles ==
  [state : {"ok"}, defaults : Settings, overrides : Settings, worktrees : Policies] \cup {EmptyFile, InvalidFile}
Written(file) == [file EXCEPT !.state = "ok"]

-----------------------------------------------------------------------------
(* Reading: DEFAULT_CONFIG <- global <- project, field by field.           *)

\* { ...base, ...patch } with what is undefined left out.
Over(base, patch) == [x \in DOMAIN base |-> IF patch[x] = Unset THEN base[x] ELSE patch[x]]

\* readLayer: a file that cannot be used counts as one that says nothing.
ReadLayer(file) == IF file.state = "ok" THEN file ELSE EmptyFile

\* Mutant of ApplyLayer: the overrides first, and the defaults over them.
ApplyOverridesFirst(config, file) ==
  [r \in Roles |-> Over(Over(config[r], file.overrides[r]), file.defaults[r])]
ApplyLayer(config, file) ==
  [r \in Roles |-> Over(Over(config[r], file.defaults[r]), file.overrides[r])]

LoadConfig(global, project) ==
  ApplyLayer(ApplyLayer(Compiled, ReadLayer(global)), ReadLayer(project))

\* mergeWorktreePartial: what the later layer names wins, key by key; the keys of
\* the blocks "ports" and "overlap" count as keys of their own.  A block set to
\* null, which drops it whole and which no command writes, is not modelled.
MergeWorktreePartial(base, over) == Over(base, over)
ResolveWorktreeConfig(policy) == Over(CompiledPolicy, policy)
LoadWorktrees(global, project) ==
  ResolveWorktreeConfig(MergeWorktreePartial(ReadLayer(global).worktrees, ReadLayer(project).worktrees))

-----------------------------------------------------------------------------
(* Writing.  A file that is invalid stops the commands that change part of *)
(* it; a reset and the wizard replace the whole.                           *)

Readable(file) == file.state # "invalid"

\* setRole: one role of the overrides, and of it only the fields given.
SetRole(file, role, patch) == Written([file EXCEPT !.overrides[role] = Over(@, patch)])

\* Mutant of SetPreset: a file with nothing but the preset.
SetPresetOnly(file, preset) == Written([EmptyFile EXCEPT !.defaults = preset])
\* setPreset: the overrides and the worktree policy stay.
SetPreset(file, preset) == Written([file EXCEPT !.defaults = preset])

SetWorktrees(file, patch) == Written([file EXCEPT !.worktrees = MergeWorktreePartial(@, patch)])

Reset == Written([EmptyFile EXCEPT !.defaults = Compiled])

\* runWizard and buildConfigFromAnswers: the defaults, a preset, or the
\* answers for each role over the defaults; the rest of the file is dropped.
WizardFiles(answers) ==
  {Reset} \cup {Written([EmptyFile EXCEPT !.defaults = d]) : d \in Presets \cup answers}
=============================================================================
