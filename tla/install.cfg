SPECIFICATION Spec
CONSTANTS
  Assets <- TwoAssets
  RoleOf <- PlannerRole
  Roles <- TwoRoles
  Fields <- TwoFields
  Values <- TwoValues
  Compiled <- Defaults
  Presets <- OnePreset
  PolicyKeys <- TwoKeys
  CompiledPolicy <- DefaultKeys
  ProjectFile <- ProjectRoot
  Answers <- OneAnswer
  Patches <- ModelOnly
  PolicyPatches <- BranchOnly
  Anthropic <- Opus
  Others <- OneServer
  Keep = 1
  FirstFiles <- FirstConfigs
  MaxRewrites = 1
  MaxCommands = 3
  MaxEvents = 1
PROPERTIES UserWorkKept UndoRestores PinnedKept AppliedConfig PolicyKept ServersKept
CHECK_DEADLOCK FALSE
