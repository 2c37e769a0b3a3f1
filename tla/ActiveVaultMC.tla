---------------------------- MODULE ActiveVaultMC ----------------------------
(* Values for model checking ActiveVault: two parches, the folder vault/ of *)
(* the workspace, the default folder of each parche.                       *)
EXTENDS ActiveVault, TLC

CONSTANTS a, b, ws, da, db

TwoParches  == {a, b}
AllFolders  == {ws, da, db}
Defaults    == a :> da @@ b :> db
Roots       == <<ws, da>>
WsExists    == {ws}
=============================================================================
