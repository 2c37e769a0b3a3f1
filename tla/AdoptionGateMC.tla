--------------------------- MODULE AdoptionGateMC ---------------------------
(* Values for model checking AdoptionGate: an MCP server with two tasks, a *)
(* CLI process, a folder with files and an empty one.                      *)
EXTENDS AdoptionGate, TLC

CONSTANTS s1, s2, c1, full, empty, code1, code2

Tasks      == {s1, s2, c1}
TaskProc   == s1 :> "server" @@ s2 :> "server" @@ c1 :> "cli"
TwoFolders == {full, empty}
TwoCodes   == {code1, code2}
IsFull     == {full}

\* The server's tasks, and the codes, are interchangeable.
TaskSymmetry == Permutations({s1, s2}) \cup Permutations(TwoCodes)
=============================================================================
