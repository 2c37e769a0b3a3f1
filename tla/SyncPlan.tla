------------------------------ MODULE SyncPlan ------------------------------
(***************************************************************************)
(* The pure planning functions of the vault sync client (plan.ts), over    *)
(* one vault's snapshot and saved state.  A snapshot and a state's `files` *)
(* both map every path to a content or Null: the code reads an absent key  *)
(* and a null syncedHash the same way (`?? null`).                         *)
(***************************************************************************)
EXTENDS ParcheLog, FiniteSets

CONSTANTS
  Path,         \* every syncable vault path, conflict copies included
  Text,         \* what a user can write into a note
  Author,       \* sanitised author names
  CopyNumber,   \* 1..n: the numbers a conflict copy can take (bound)
  CopyName      \* CopyName[<<p, a, n>>]: "<stem> (conflicto <a>[ n]).<ext>",
                \* given for the paths a run can see in conflict (bound)

\* The numbers the copies of p by this author can take.
Numbers(p, author) == {n \in CopyNumber : <<p, author, n>> \in DOMAIN CopyName}

TextOrNull == Text \cup {Null}

\* A file's bytes: its text, and the two frontmatter keys a conflict copy
\* carries.  conflict_base is kept as the text of the base version.
Content == [text: Text, of: Path \cup {Null}, base: TextOrNull]
Hash    == Content \cup {Null}

ASSUME PlanAssumption ==
  /\ Null \notin Path \cup Text \cup Content
  /\ CopyNumber \subseteq Nat

\* A copy's name is longer than the name it is made of, and tells it.
ASSUME CopyAssumption ==
  /\ \A p \in Path, a \in Author : \A n \in Numbers(p, a) :
       CopyName[<<p, a, n>>] \in Path \ {p}
  /\ \A p, q \in Path, a \in Author :
       \A m \in Numbers(p, a), n \in Numbers(q, a) :
         CopyName[<<p, a, m>>] = CopyName[<<q, a, n>>] => p = q

Plain(t) == [text |-> t, of |-> Null, base |-> Null]

\* addConflictFrontmatter: sets both keys, keeps everything else.
AddConflictFrontmatter(c, p, base) ==
  [c EXCEPT !.of = p, !.base = IF base = Null THEN Null ELSE base.text]

SyncState == [cursor: Nat, files: [Path -> Hash], skipped: [Path -> Hash]]

\* planPush: the paths whose local content differs from the synced one; the
\* entry of p is {baseHash: files[p], newHash: snap[p]}.
PlanPush(st, snap) == {p \in Path : snap[p] # st.files[p]}

\* Deletes are sent before writes.
NextToPush(todo, snap) ==
  LET deletes == {p \in todo : snap[p] = Null}
  IN  IF deletes # {} THEN deletes ELSE todo

\* applyPushResults, for one entry: an ok makes the pushed hash the synced one
\* and leaves the cursor alone; a conflict is left to the pull.
AfterPush(st, p, new, out) ==
  IF out = "conflict" THEN st ELSE [st EXCEPT !.files[p] = new]

\* Mutant: the change right after the cursor is taken for known.
ChangedAfterNext(log, st, upto) ==
  {p \in Path : LastSeq(log, p, upto) > st.cursor + 1}

\* The paths of the fetched changes: those after the cursor, up to `upto`.
Changed(log, st, upto) == {p \in Path : LastSeq(log, p, upto) > st.cursor}

\* planPull, rules 1 to 6, for a changed path: S, L, R as in the code.
PullAction(log, st, snap, upto, p) ==
  LET S == st.files[p]
      L == snap[p]
      R == HashAt(log, p, upto)
  IN  CASE R = L                            -> "noop"
        [] R # L /\ L = S /\ R # Null       -> "write"
        [] R # L /\ L = S /\ R = Null       -> "delete"
        [] R # L /\ L # S /\ L = Null       -> "write"
        [] R # L /\ L # S /\ L # Null       -> "conflict"

\* conflictCopyPath: the first number whose name is not taken.
FreeNumbers(p, author, existing) ==
  {n \in Numbers(p, author) : CopyName[<<p, author, n>>] \notin existing}

ConflictCopyPath(p, author, existing) ==
  LET free == FreeNumbers(p, author, existing)
      n    == CHOOSE m \in free : \A k \in free : m <= k
  IN  CopyName[<<p, author, n>>]

\* `existing` of planPull: local keys, remote paths, live synced paths.
Existing(log, st, snap, upto) ==
  {p \in Path : snap[p] # Null \/ st.files[p] # Null}
    \cup Changed(log, st, upto)

\* actionRank: conflicts, then deletes, then writes.
ActionRank(a) == CASE a = "conflict" -> 0 [] a = "delete" -> 1 [] OTHER -> 2

=============================================================================
