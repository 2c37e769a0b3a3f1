---------------------------- MODULE VaultSyncMC ----------------------------
(* Values of VaultSync's constants for model checking.  Paths are strings: *)
(* a note "n", and the copies of a path that conflictCopyPath can name.    *)
EXTENDS VaultSync, TLC

CONSTANTS
  t1, t2, t3,  \* the texts users write
  MaxCopies    \* how many numbers a conflict copy can take

MCText       == {t1, t2, t3, EmptyText}
TwoTexts     == {t1, t2, EmptyText}
TextSymmetry == Permutations({t1, t2, t3})

CopyString(p, a, n) ==
  p \o " (conflicto " \o a \o (IF n = 1 THEN ")" ELSE " " \o ToString(n) \o ")")
MCCopyNumber == 1..MaxCopies
CopiesOf(paths, authors) ==
  {CopyString(p, a, n) : p \in paths, a \in authors, n \in MCCopyNumber}
CopyNames(paths, authors) ==
  [x \in paths \X authors \X MCCopyNumber |-> CopyString(x[1], x[2], x[3])]

\* One note, two vaults with one process each, two authors.
Note          == {"n"}
AnaBob        == {"ana", "bob"}
NotePaths     == Note \cup CopiesOf(Note, AnaBob)
NoteCopies    == CopyNames(Note, AnaBob)
TwoVaults     == {"A", "B"}
OwnVault      == "A" :> "A" @@ "B" :> "B"
OwnAuthor     == "A" :> "ana" @@ "B" :> "bob"
AllValid      == "A" :> {} @@ "B" :> {}
BothEditNote  == "A" :> Note @@ "B" :> Note
Nothing       == {}
OnlyA         == {"A"}

\* B is a Windows machine that cannot store "a:b", nor a copy of it.
Colon         == {"a:b"}
ColonPaths    == Colon \cup CopiesOf(Colon, AnaBob)
ColonCopies   == CopyNames(Colon, AnaBob)
ColonInvalid  == "A" :> {} @@ "B" :> ColonPaths
BothEditColon == "A" :> Colon @@ "B" :> Colon

\* The note is a derived page; t1 is a generated text.
GeneratedT1   == {t1}
HumanSymmetry == Permutations({t2, t3})
=============================================================================
