---------------------------- MODULE InstallerMC ----------------------------
(* A small instance of Installer: one command, one subagent, two roles.    *)
EXTENDS Installer

TwoAssets   == <<"orq.md", "planner.md">>
PlannerRole == [a \in {"planner.md"} |-> "planner"]
TwoRoles    == {"planner", "worker"}
TwoFields   == {"model", "effort"}
TwoValues   == {"opus", "gpt"}
Defaults    == [r \in TwoRoles |-> [f \in TwoFields |-> "opus"]]
OnePreset   == {[r \in TwoRoles |-> [f \in TwoFields |-> "gpt"]]}
TwoKeys     == {"root", "baseBranch"}
DefaultKeys == [k \in TwoKeys |-> "opus"]
ProjectRoot == [state |-> "ok", defaults |-> [r \in TwoRoles |-> [f \in TwoFields |-> Unset]],
                overrides |-> [r \in TwoRoles |-> [f \in TwoFields |-> Unset]],
                worktrees |-> [k \in TwoKeys |-> IF k = "root" THEN "gpt" ELSE Unset]]
OneAnswer   == {[r \in TwoRoles |-> [f \in TwoFields |-> IF f = "model" THEN "gpt" ELSE "opus"]]}
ModelOnly   == {[f \in TwoFields |-> IF f = "model" THEN "opus" ELSE Unset]}
BranchOnly  == {[k \in TwoKeys |-> IF k = "baseBranch" THEN "gpt" ELSE Unset]}
FirstConfigs == {EmptyFile, [EmptyFile EXCEPT !.state = "ok", !.overrides["planner"]["model"] = "opus",
                                              !.worktrees["baseBranch"] = "gpt"]}
Opus        == {"opus"}
OneServer   == {"other"}
=============================================================================
