---------------------------- MODULE WorktreesMC ----------------------------
(* Small instances of Worktrees: two git repositories and a plain          *)
(* directory, one of them with a PORT of its own.                          *)
EXTENDS Worktrees

Folders    == {"api", "docs", "web"}
SomeLists  == {<<"api", "docs", "web">>, <<"api", "web">>}
ApiWeb     == {"api", "web"}
OnlyApi    == {"api"}
TwoTickets == {"T1", "T2"}
OnlyT1     == [t \in {"T1", "T2"} |-> t = "T1"]
OneTask    == {"task"}
OneFile    == {"a.ts"}
ApiPort    == [r \in {"api", "docs", "web"} |-> IF r = "web" THEN 2 ELSE 0]
Laptop     == [free |-> 5, worker |-> 2, cpus |-> 8, load |-> 0]
=============================================================================
