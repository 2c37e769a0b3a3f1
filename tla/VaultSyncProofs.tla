-------------------------- MODULE VaultSyncProofs --------------------------
(***************************************************************************)
(* Proofs about VaultSync: its types are kept, and a saved cursor never    *)
(* claims a change the vault does not know, whatever the number of vaults, *)
(* processes and paths, the page size, the failures and the users' edits;  *)
(* vaults at rest agree; and no version is overwritten unseen.  With one   *)
(* process per vault, the group changes only as users asked until a sync   *)
(* fails, and nothing a user wrote between syncs is lost; only users       *)
(* delete, whatever fails (at the end).                                    *)
(*                                                                         *)
(* CursorSound is not inductive alone: at SavePull the new cursor is the   *)
(* fetch cursor and the new hashes are those the log had below it, so the  *)
(* fetch cursor must not be past the end of the log; and a path retried    *)
(* gives its skipped hash away, so it must have one.  RunBounded says so.  *)
(* TypeOK in turn needs RunBounded to know that Remote is a content.       *)
(***************************************************************************)
EXTENDS VaultSync, SequenceTheorems, WellFoundedInduction, TLAPS

-----------------------------------------------------------------------------
(* What the last change of a path is, and what appending a change to the   *)
(* log alters and leaves alone (ParcheLog).                                *)

\* Every non-empty set of naturals has a least element.
LEMMA NatMin ==
  ASSUME NEW T, T \subseteq Nat, T # {}
  PROVE  \E x \in T : \A y \in T : x <= y
<1> DEFINE R == OpToRel(<, Nat)
<1>1. IsWellFoundedOn(R, Nat)
  BY NatLessThanWellFounded
<1> HIDE DEF R
<1>2. PICK x \in T : \A y \in T : <<y, x>> \notin R
  BY <1>1, WFMin
<1>3. \A y \in T : ~(y < x)
  BY <1>2 DEF R, OpToRel
<1> QED BY <1>3

\* LastSeq is the position of the last change of p among the first k.
LEMMA LastSeqMax ==
  ASSUME NEW l, NEW p, NEW k \in Nat
  PROVE  /\ LastSeq(l, p, k) \in 0..k
         /\ LastSeq(l, p, k) # 0 => l[LastSeq(l, p, k)].path = p
         /\ \A i \in 1..k : l[i].path = p => i <= LastSeq(l, p, k)
<1> DEFINE at == {i \in 1..k : l[i].path = p}
<1>1. CASE at = {}
  BY <1>1 DEF LastSeq
<1>2. CASE at # {}
  <2> DEFINE T == {k - i : i \in at}
  <2>1. PICK x \in T : \A y \in T : x <= y
    <3>1. T \subseteq Nat /\ T # {}
      BY <1>2
    <3> QED BY <3>1, NatMin
  <2>2. PICK i \in at : x = k - i
    BY <2>1
  <2>3. \A j \in at : j <= i
    <3> SUFFICES ASSUME NEW j \in at PROVE j <= i
      OBVIOUS
    <3>1. k - j \in T
      OBVIOUS
    <3>2. x <= k - j
      BY <2>1, <3>1
    <3> HIDE DEF T
    <3> QED BY <2>2, <3>2
  <2>4. LastSeq(l, p, k) = CHOOSE j \in at : \A m \in at : m <= j
    BY <1>2 DEF LastSeq
  <2>5. /\ LastSeq(l, p, k) \in at
        /\ \A j \in at : j <= LastSeq(l, p, k)
    <3> HIDE DEF at
    <3> QED BY <2>3, <2>4
  <2> QED BY <2>5
<1> QED BY <1>1, <1>2

\* The three facts of LastSeqMax have only one solution.
LEMMA LastSeqUnique ==
  ASSUME NEW l, NEW p, NEW k \in Nat, NEW s \in 0..k,
         s # 0 => l[s].path = p,
         \A i \in 1..k : l[i].path = p => i <= s
  PROVE  LastSeq(l, p, k) = s
BY LastSeqMax

\* A prefix that reaches the last change of p says all there is to say of p.
LEMMA LastSeqOfPrefix ==
  ASSUME NEW l, NEW p, NEW n \in Nat, NEW k \in 0..n, LastSeq(l, p, n) <= k
  PROVE  LastSeq(l, p, k) = LastSeq(l, p, n)
<1>1. /\ LastSeq(l, p, n) \in 0..k
      /\ LastSeq(l, p, n) # 0 => l[LastSeq(l, p, n)].path = p
      /\ \A i \in 1..k : l[i].path = p => i <= LastSeq(l, p, n)
  BY LastSeqMax
<1> QED BY <1>1, LastSeqUnique

\* Two logs with a common prefix agree on what it says.
LEMMA SamePrefix ==
  ASSUME NEW l, NEW m, NEW p, NEW k \in Nat, \A i \in 1..k : m[i] = l[i]
  PROVE  /\ LastSeq(m, p, k) = LastSeq(l, p, k)
         /\ HashAt(m, p, k) = HashAt(l, p, k)
<1>1. /\ LastSeq(l, p, k) \in 0..k
      /\ LastSeq(l, p, k) # 0 => m[LastSeq(l, p, k)].path = p
      /\ \A i \in 1..k : m[i].path = p => i <= LastSeq(l, p, k)
  BY LastSeqMax
<1>2. LastSeq(m, p, k) = LastSeq(l, p, k)
  BY <1>1, LastSeqUnique
<1> QED BY <1>1, <1>2 DEF HashAt

\* m is l with one more change, e.
IsAppend(m, l, e) ==
  /\ Len(l) \in Nat
  /\ Len(m) = Len(l) + 1
  /\ m[Len(l) + 1] = e
  /\ \A i \in 1..Len(l) : m[i] = l[i]

LEMMA AppendIsAppend ==
  ASSUME NEW S, NEW l \in Seq(S), NEW e \in S
  PROVE  IsAppend(Append(l, e), l, e)
BY AppendProperties, LenProperties DEF IsAppend

\* Appending a change leaves every prefix as it was.
LEMMA AppendKeepsPrefix ==
  ASSUME NEW l, NEW e, NEW m, IsAppend(m, l, e), NEW p, NEW k \in 0..Len(l)
  PROVE  /\ LastSeq(m, p, k) = LastSeq(l, p, k)
         /\ HashAt(m, p, k) = HashAt(l, p, k)
<1>1. k \in Nat /\ \A i \in 1..k : m[i] = l[i]
  BY DEF IsAppend
<1> QED BY <1>1, SamePrefix

\* It becomes the head of its own path,
LEMMA AppendOwnHead ==
  ASSUME NEW l, NEW e, NEW m, IsAppend(m, l, e)
  PROVE  HeadSeq(m, e.path) = Len(l) + 1
<1> DEFINE n == Len(l) + 1
<1>1. n \in Nat /\ n \in 0..n /\ m[n] = e /\ Len(m) = n
  BY DEF IsAppend
<1> HIDE DEF n
<1>2. LastSeq(m, e.path, n) = n
  BY <1>1, LastSeqUnique
<1> QED BY <1>1, <1>2 DEF HeadSeq, n

\* and no other head moves.
LEMMA AppendOtherHead ==
  ASSUME NEW l, NEW e, NEW m, IsAppend(m, l, e), NEW p, e.path # p
  PROVE  /\ HeadSeq(m, p) = HeadSeq(l, p)
         /\ HeadHash(m, p) = HeadHash(l, p)
<1> DEFINE n == Len(l)
           s == LastSeq(l, p, n)
<1>1. /\ n \in Nat
      /\ Len(m) = n + 1
      /\ m[n + 1] = e
      /\ \A i \in 1..n : m[i] = l[i]
  BY DEF IsAppend
<1>2. /\ s \in 0..n
      /\ s # 0 => l[s].path = p
      /\ \A i \in 1..n : l[i].path = p => i <= s
  BY <1>1, LastSeqMax
<1>3. LastSeq(m, p, n + 1) = s
  <2>1. /\ n + 1 \in Nat
        /\ s \in 0..n + 1
        /\ s # 0 => m[s].path = p
        /\ \A i \in 1..n + 1 : m[i].path = p => i <= s
    <3> HIDE DEF s, n
    <3> QED BY <1>1, <1>2
  <2> HIDE DEF s
  <2> QED BY <2>1, LastSeqUnique
<1> QED BY <1>1, <1>2, <1>3 DEF HeadSeq, HeadHash, HashAt

\* The contents a log of typed entries can answer with.
LEMMA HashAtType ==
  ASSUME NEW P, NEW H, NEW B, Null \in H,
         NEW l \in Seq([path: P, hash: H, by: B]), NEW p, NEW k \in 0..Len(l)
  PROVE  HashAt(l, p, k) \in H
<1> DEFINE E == [path: P, hash: H, by: B]
           s == LastSeq(l, p, k)
<1>1. s \in 0..k /\ Len(l) \in Nat
  BY LastSeqMax, LenProperties
<1>2. CASE s = 0
  BY <1>2 DEF HashAt
<1>3. CASE s # 0
  <2>1. l \in Seq(E)
    OBVIOUS
  <2>2. s \in 1..Len(l)
    <3> HIDE DEF s
    <3> QED BY <1>1, <1>3
  <2>3. l[s] \in E
    <3> HIDE DEF E, s
    <3> QED BY <2>1, <2>2, ElementOfSeq
  <2> QED BY <1>3, <2>3 DEF HashAt
<1> QED BY <1>2, <1>3

-----------------------------------------------------------------------------

RunBounded ==
  \A r \in Runner :
    /\ run[r].upto <= Len(log)
    /\ \A p \in run[r].retried : run[r].st.skipped[p] # Null

IInv == TypeOK /\ CursorSound /\ RunBounded

\* addConflictFrontmatter names the path and keeps the text.
LEMMA FrontmatterOf ==
  ASSUME NEW c \in Content, NEW p, NEW base
  PROVE  /\ AddConflictFrontmatter(c, p, base).of = p
         /\ AddConflictFrontmatter(c, p, base).text = c.text
BY DEF AddConflictFrontmatter, Content

USE PlanAssumption, VaultAssumption

-----------------------------------------------------------------------------
(* Facts about the types.                                                  *)

LEMMA FreshType == FreshState \in SyncState /\ IdleRun \in RunState
BY DEF FreshState, NothingAt, SyncState, Hash, IdleRun, RunState

LEMMA ScanType ==
  ASSUME TypeOK, NEW r \in Runner
  PROVE  Scan(r) \in [Path -> Hash]
BY DEF TypeOK, Scan, Hash

LEMMA PlainType == \A t \in Text : Plain(t) \in Content
BY DEF Plain, Content, TextOrNull

LEMMA FrontmatterType ==
  ASSUME NEW c \in Content, NEW p \in Path, NEW base \in Hash
  PROVE  AddConflictFrontmatter(c, p, base) \in Content
BY DEF AddConflictFrontmatter, Content, Hash, TextOrNull

\* What the log says at the fetch cursor is a content or Null.
LEMMA RemoteType ==
  ASSUME TypeOK, RunBounded, NEW r \in Runner, NEW p
  PROVE  Remote(r, p) \in Hash
<1>1. /\ Null \in Hash
      /\ log \in Seq([path: Path, hash: Hash, by: Vault])
      /\ run[r].upto \in 0..Len(log)
  BY LenProperties DEF TypeOK, RunBounded, RunState, Hash, LogEntry
<1> HIDE DEF Hash
<1>2. HashAt(log, p, run[r].upto) \in Hash
  BY <1>1, HashAtType
<1> QED BY <1>2 DEF Remote

\* A planned write always has something to write.
LEMMA WriteHasRemote ==
  ASSUME NEW r, NEW p, Planned(r, p) = "write"
  PROVE  Remote(r, p) # Null
BY DEF Planned, PullAction, Remote

\* Writing a content, or moving a file to .trash, keeps the files' types.
LEMMA PutFileType ==
  ASSUME TypeOK, NEW v \in Vault, NEW p \in Path, NEW c \in Content,
         PutFile(v, p, c)
  PROVE  disk' \in [Vault -> [Path -> Hash]] /\ seen' \in [Vault -> SUBSET Content]
BY DEF TypeOK, PutFile, Hash

LEMMA ToTrashType ==
  ASSUME TypeOK, NEW v \in Vault, NEW p \in Path, ToTrash(v, p)
  PROVE  /\ disk' \in [Vault -> [Path -> Hash]]
         /\ trash' \in [Vault -> SUBSET Content]
         /\ seen' = seen
<1>1. disk[v][p] \in Content \cup {Null}
  BY DEF TypeOK, Hash
<1> QED BY <1>1 DEF TypeOK, ToTrash, Hash

\* What replacing one field of a run keeps.
LEMMA TodoField ==
  ASSUME NEW R \in RunState, NEW X \in SUBSET Path
  PROVE  /\ [R EXCEPT !.todo = X] \in RunState
         /\ [R EXCEPT !.todo = X].phase = R.phase
         /\ [R EXCEPT !.todo = X].st = R.st
         /\ [R EXCEPT !.todo = X].upto = R.upto
         /\ [R EXCEPT !.todo = X].retried = R.retried
BY DEF RunState

LEMMA CopiedField ==
  ASSUME NEW R \in RunState, NEW X \in SUBSET Path
  PROVE  /\ [R EXCEPT !.copied = X] \in RunState
         /\ [R EXCEPT !.copied = X].phase = R.phase
         /\ [R EXCEPT !.copied = X].st = R.st
         /\ [R EXCEPT !.copied = X].upto = R.upto
         /\ [R EXCEPT !.copied = X].retried = R.retried
BY DEF RunState

LEMMA RetriedField ==
  ASSUME NEW R \in RunState, NEW X \in SUBSET Path
  PROVE  /\ [R EXCEPT !.retried = X] \in RunState
         /\ [R EXCEPT !.retried = X].phase = R.phase
         /\ [R EXCEPT !.retried = X].st = R.st
         /\ [R EXCEPT !.retried = X].upto = R.upto
         /\ [R EXCEPT !.retried = X].retried = X
BY DEF RunState

LEMMA PhaseField ==
  ASSUME NEW R \in RunState, NEW h \in {"idle", "push", "fetch", "apply", "push3"}
  PROVE  /\ [R EXCEPT !.phase = h] \in RunState
         /\ [R EXCEPT !.phase = h].phase = h
         /\ [R EXCEPT !.phase = h].st = R.st
         /\ [R EXCEPT !.phase = h].upto = R.upto
         /\ [R EXCEPT !.phase = h].retried = R.retried
BY DEF RunState

\* Finishing an action of the plan changes only its run's todo.
LEMMA DoneType ==
  ASSUME TypeOK, NEW r \in Runner, NEW p, Done(r, p)
  PROVE  /\ run' \in [Runner -> RunState]
         /\ \A q \in Runner : /\ run'[q].phase = run[q].phase
                              /\ run'[q].st = run[q].st
                              /\ run'[q].upto = run[q].upto
                              /\ run'[q].retried = run[q].retried
<1> DEFINE X == run[r].todo \ {p}
           R == [run[r] EXCEPT !.todo = X]
<1>1. run \in [Runner -> RunState] /\ run[r] \in RunState
  BY DEF TypeOK
<1>2. X \in SUBSET Path
  BY <1>1 DEF RunState
<1>3. run' = [run EXCEPT ![r] = R]
  BY DEF Done
<1> HIDE DEF X
<1>4. /\ R \in RunState
      /\ R.phase = run[r].phase
      /\ R.st = run[r].st
      /\ R.upto = run[r].upto
      /\ R.retried = run[r].retried
  BY <1>1, <1>2, TodoField, Zenon
<1> HIDE DEF R
<1> QED BY <1>1, <1>3, <1>4

-----------------------------------------------------------------------------
(* The honesty of a cursor.                                                *)

\* A change appended by anybody is past every cursor.
LEMMA HonestAppend ==
  ASSUME NEW l, NEW e, NEW m, IsAppend(m, l, e), NEW st \in SyncState,
         CursorIsHonest(l, st)
  PROVE  CursorIsHonest(m, st)
<1>1. Len(l) \in Nat /\ Len(m) = Len(l) + 1
  BY DEF IsAppend
<1>2. st.cursor \in Nat /\ st.cursor <= Len(l)
  BY DEF SyncState, CursorIsHonest
<1>3. ASSUME NEW p \in Path, HeadSeq(m, p) <= st.cursor
      PROVE  HeadHash(m, p) = Known(st, p)
  <2>1. e.path # p
    BY <1>1, <1>2, <1>3, AppendOwnHead
  <2>2. HeadSeq(m, p) = HeadSeq(l, p) /\ HeadHash(m, p) = HeadHash(l, p)
    BY <2>1, AppendOtherHead
  <2> QED BY <1>3, <2>2 DEF CursorIsHonest
<1> QED BY <1>1, <1>2, <1>3 DEF CursorIsHonest

\* Pushing p makes its pushed hash known: either it is the head already, or
\* the head is now the change just appended.
LEMMA HonestPush ==
  ASSUME NEW l, NEW st \in SyncState, NEW p \in Path, NEW new \in Hash,
         NEW out, out = PushOutcome(l, p, st.files[p], new),
         CursorIsHonest(l, st)
  PROVE  /\ out \in {"same", "advance", "conflict"}
         /\ AfterPush(st, p, new, out) \in SyncState
         /\ out # "advance" => CursorIsHonest(l, AfterPush(st, p, new, out))
         /\ \A m, e : IsAppend(m, l, e) /\ e.path = p =>
              CursorIsHonest(m, AfterPush(st, p, new, "advance"))
<1> DEFINE s2 == [st EXCEPT !.files[p] = new]
<1>1. /\ s2 \in SyncState
      /\ s2.cursor = st.cursor
      /\ s2.skipped = st.skipped
      /\ s2.files[p] = new
      /\ \A q \in Path \ {p} : s2.files[q] = st.files[q]
  BY DEF SyncState
<1>2. /\ AfterPush(st, p, new, "advance") = s2
      /\ AfterPush(st, p, new, "conflict") = st
      /\ AfterPush(st, p, new, "same") = s2
  BY DEF AfterPush
<1>3. /\ out \in {"same", "advance", "conflict"}
      /\ out = "same" => new = HeadHash(l, p)
  BY Zenon DEF PushOutcome
<1> HIDE DEF s2
<1>4. AfterPush(st, p, new, out) \in SyncState
  BY <1>1, <1>2, <1>3
<1>5. ASSUME out = "same" PROVE CursorIsHonest(l, s2)
  BY <1>1, <1>3, <1>5 DEF CursorIsHonest, Known
<1>6. ASSUME NEW m, NEW e, IsAppend(m, l, e), e.path = p
      PROVE  CursorIsHonest(m, s2)
  <2>1. CursorIsHonest(m, st)
    BY <1>6, HonestAppend
  <2>2. HeadSeq(m, p) = Len(l) + 1
    BY <1>6, AppendOwnHead
  <2>3. Len(l) \in Nat /\ st.cursor \in Nat /\ st.cursor <= Len(l)
    BY <1>6 DEF CursorIsHonest, SyncState, IsAppend
  <2> QED BY <1>1, <2>1, <2>2, <2>3 DEF CursorIsHonest, Known
<1>7. out # "advance" => CursorIsHonest(l, AfterPush(st, p, new, out))
  BY <1>2, <1>3, <1>5
<1> QED BY <1>2, <1>3, <1>4, <1>6, <1>7

-----------------------------------------------------------------------------
(* How steps change runs.                                                  *)

\* Replacing the run of r.
LEMMA UpdateRun ==
  ASSUME TypeOK, NEW r \in Runner, NEW R \in RunState,
         run' = [run EXCEPT ![r] = R]
  PROVE  /\ run' \in [Runner -> RunState]
         /\ run'[r] = R
         /\ \A q \in Runner \ {r} : run'[q] = run[q]
BY DEF TypeOK

\* A step that leaves the log, the saved states and the parts of the runs
\* the invariant speaks of alone.
QuietRuns ==
  \A q \in Runner : /\ run'[q].phase = run[q].phase
                    /\ run'[q].st = run[q].st
                    /\ run'[q].upto = run[q].upto
                    /\ run'[q].retried = run[q].retried

LEMMA QuietStep ==
  ASSUME CursorSound, RunBounded, UNCHANGED <<log, state>>, QuietRuns
  PROVE  CursorSound' /\ RunBounded'
BY DEF CursorSound, RunBounded, QuietRuns

\* A step that replaces r's run only, by an idle one or an honest one.
LEMMA RunStep ==
  ASSUME IInv, UNCHANGED <<log, state>>, NEW r \in Runner, NEW R \in RunState,
         run' = [run EXCEPT ![r] = R],
         R.phase # "idle" => CursorIsHonest(log, R.st),
         R.upto <= Len(log),
         \A p \in R.retried : R.st.skipped[p] # Null
  PROVE  run' \in [Runner -> RunState] /\ CursorSound' /\ RunBounded'
<1>1. /\ run' \in [Runner -> RunState]
      /\ run'[r] = R
      /\ \A q \in Runner \ {r} : run'[q] = run[q]
  BY UpdateRun DEF IInv
<1>2. CursorSound'
  BY <1>1 DEF IInv, CursorSound
<1>3. RunBounded'
  BY <1>1 DEF IInv, RunBounded
<1> QED BY <1>1, <1>2, <1>3

\* A step that saves r's state st, and replaces its run.
LEMMA SaveStep ==
  ASSUME IInv, UNCHANGED log, NEW r \in Runner, NEW R \in RunState,
         NEW st \in SyncState, CursorIsHonest(log, st),
         state' = [state EXCEPT ![VaultOf[r]] = st],
         run' = [run EXCEPT ![r] = R],
         R.phase # "idle" => CursorIsHonest(log, R.st),
         R.upto <= Len(log),
         \A p \in R.retried : R.st.skipped[p] # Null
  PROVE  /\ run' \in [Runner -> RunState]
         /\ state' \in [Vault -> SyncState]
         /\ CursorSound' /\ RunBounded'
<1>1. /\ run' \in [Runner -> RunState]
      /\ run'[r] = R
      /\ \A q \in Runner \ {r} : run'[q] = run[q]
  BY UpdateRun DEF IInv
<1>2. /\ state' \in [Vault -> SyncState]
      /\ \A v \in Vault : state'[v] = st \/ state'[v] = state[v]
  BY DEF IInv, TypeOK
<1>3. CursorSound'
  BY <1>1, <1>2 DEF IInv, CursorSound
<1>4. RunBounded'
  BY <1>1 DEF IInv, RunBounded
<1> QED BY <1>1, <1>2, <1>3, <1>4

LEMMA IdleRunFacts ==
  /\ IdleRun \in RunState
  /\ IdleRun.phase = "idle"
  /\ IdleRun.upto = 0
  /\ IdleRun.retried = {}
BY FreshType DEF IdleRun

LEMMA LogLen == ASSUME TypeOK PROVE Len(log) \in Nat
BY LenProperties DEF TypeOK

LEMMA IdleRunBounded ==
  ASSUME IInv
  PROVE  /\ IdleRun \in RunState
         /\ IdleRun.phase # "idle" => CursorIsHonest(log, IdleRun.st)
         /\ IdleRun.upto <= Len(log)
         /\ \A p \in IdleRun.retried : IdleRun.st.skipped[p] # Null
BY IdleRunFacts, LogLen DEF IInv

-----------------------------------------------------------------------------
(* The invariant, action by action.                                        *)

\* What TypeOK says of the variables no sync step touches.
RestType ==
  /\ moved \subseteq Runner
  /\ written \in [Vault -> SUBSET Text]
  /\ removed \subseteq Vault \X Path
  /\ used \in [Vault -> SUBSET Text]
  /\ edits \in Nat /\ deletes \in Nat /\ fails \in Nat

LEMMA InitInvariant == Init => IInv
<1> SUFFICES ASSUME Init PROVE IInv
  OBVIOUS
<1>1. TypeOK
  <2>1. log \in Seq(LogEntry)
    BY EmptySeq DEF Init
  <2>2. disk \in [Vault -> [Path -> Hash]]
    BY DEF Init, NothingAt, Hash
  <2> QED BY <2>1, <2>2, FreshType DEF Init, TypeOK
<1>2. CursorSound
  <2>1. Len(log) = 0
    BY EmptySeq DEF Init
  <2>2. CursorIsHonest(log, FreshState)
    <3>1. FreshState.cursor = 0
      BY DEF FreshState
    <3>2. ASSUME NEW p \in Path
          PROVE  HeadHash(log, p) = Null /\ Known(FreshState, p) = Null
      <4>1. LastSeq(log, p, 0) = 0
        BY LastSeqMax
      <4>2. HeadHash(log, p) = Null
        BY <2>1, <4>1 DEF HeadHash, HashAt
      <4>3. Known(FreshState, p) = Null
        BY DEF FreshState, NothingAt, Known
      <4> QED BY <4>2, <4>3
    <3> QED BY <2>1, <3>1, <3>2 DEF CursorIsHonest
  <2> QED BY <2>2, IdleRunFacts DEF Init, CursorSound
<1>3. RunBounded
  <2>1. Len(log) = 0
    BY EmptySeq DEF Init
  <2> QED BY <2>1, IdleRunFacts DEF Init, RunBounded
<1> QED BY <1>1, <1>2, <1>3 DEF IInv

LEMMA EditStep ==
  ASSUME IInv, NEW v \in Vault, NEW p \in Path, NEW t \in Text, Edit(v, p, t)
  PROVE  IInv'
<1>1. Plain(t) \in Content
  BY PlainType
<1>2. disk' \in [Vault -> [Path -> Hash]] /\ seen' \in [Vault -> SUBSET Content]
  BY <1>1, PutFileType DEF Edit, IInv
<1>3. written' \in [Vault -> SUBSET Text] /\ used' \in [Vault -> SUBSET Text]
  BY DEF Edit, WrittenWithout, IInv, TypeOK
<1>4. TypeOK'
  BY <1>2, <1>3 DEF Edit, IInv, TypeOK
<1>5. CursorSound' /\ RunBounded'
  BY QuietStep DEF Edit, QuietRuns, IInv
<1> QED BY <1>4, <1>5 DEF IInv

LEMMA DeleteStep ==
  ASSUME IInv, NEW v \in Vault, NEW p \in Path, Delete(v, p)
  PROVE  IInv'
<1>1. disk' \in [Vault -> [Path -> Hash]]
  BY DEF Delete, IInv, TypeOK, Hash
<1>2. written' \in [Vault -> SUBSET Text] /\ removed' \subseteq Vault \X Path
  BY DEF Delete, WrittenWithout, IInv, TypeOK
<1>3. TypeOK'
  BY <1>1, <1>2 DEF Delete, IInv, TypeOK
<1>4. CursorSound' /\ RunBounded'
  BY QuietStep DEF Delete, QuietRuns, IInv
<1> QED BY <1>3, <1>4 DEF IInv

LEMMA MoveStep ==
  ASSUME IInv, NEW r \in Runner, Move(r)
  PROVE  IInv'
<1>1. TypeOK'
  BY DEF Move, files, IInv, TypeOK
<1>2. CursorSound' /\ RunBounded'
  BY QuietStep DEF Move, QuietRuns, IInv
<1> QED BY <1>1, <1>2 DEF IInv

LEMMA StartSyncStep ==
  ASSUME IInv, NEW r \in Runner, StartSync(r)
  PROVE  IInv'
<1> DEFINE st == state[VaultOf[r]]
           R == [IdleRun EXCEPT !.phase = "push", !.st = st, !.snap = Scan(r),
                                !.todo = PlanPush(st, Scan(r)),
                                !.upto = st.cursor]
<1>1. st \in SyncState /\ CursorIsHonest(log, st)
  BY DEF IInv, TypeOK, CursorSound
<1>2. Scan(r) \in [Path -> Hash] /\ PlanPush(st, Scan(r)) \in SUBSET Path
  BY ScanType DEF IInv, PlanPush
<1>3. st.cursor \in Nat /\ st.cursor <= Len(log)
  BY <1>1 DEF SyncState, CursorIsHonest
<1>4. /\ R \in RunState
      /\ R.st = st
      /\ R.upto = st.cursor
      /\ R.retried = {}
  <2> HIDE DEF st
  <2> QED BY <1>1, <1>2, <1>3 DEF IdleRun, RunState
<1>5. run' = [run EXCEPT ![r] = R] /\ UNCHANGED <<log, state>>
  BY DEF StartSync
<1> HIDE DEF st, R
<1>6. run' \in [Runner -> RunState] /\ CursorSound' /\ RunBounded'
  BY <1>1, <1>3, <1>4, <1>5, RunStep
<1>7. TypeOK'
  BY <1>5, <1>6 DEF StartSync, files, user, IInv, TypeOK
<1> QED BY <1>6, <1>7 DEF IInv

LEMMA PushEntryStep ==
  ASSUME IInv, NEW r \in Runner, PushEntry(r)
  PROVE  IInv'
<1> DEFINE st  == run[r].st
           v   == VaultOf[r]
<1>1. /\ run[r] \in RunState /\ run[r].phase \in {"push", "push3"}
      /\ st \in SyncState /\ CursorIsHonest(log, st)
  BY DEF PushEntry, IInv, TypeOK, CursorSound, RunState
<1>2. PICK p \in NextToPush(run[r].todo, run[r].snap) :
        LET new == run[r].snap[p]
            out == PushOutcome(log, p, st.files[p], new)
        IN  /\ log' = IF out = "advance"
                      THEN Append(log, [path |-> p, hash |-> new, by |-> v])
                      ELSE log
            /\ run' = [run EXCEPT ![r].todo = @ \ {p},
                                  ![r].st   = AfterPush(@, p, new, out)]
  BY DEF PushEntry
<1> DEFINE new == run[r].snap[p]
           out == PushOutcome(log, p, st.files[p], new)
           e   == [path |-> p, hash |-> new, by |-> v]
           s2  == AfterPush(st, p, new, out)
           R   == [run[r] EXCEPT !.todo = @ \ {p}, !.st = s2]
<1>3. p \in Path /\ new \in Hash /\ v \in Vault
  BY <1>1 DEF NextToPush, RunState
<1>4. /\ out \in {"same", "advance", "conflict"}
      /\ s2 \in SyncState
      /\ out # "advance" => CursorIsHonest(log, s2)
      /\ \A m, x : IsAppend(m, log, x) /\ x.path = p =>
           CursorIsHonest(m, AfterPush(st, p, new, "advance"))
  <2> HIDE DEF st, new
  <2> QED BY <1>1, <1>3, HonestPush
<1>5. /\ R \in RunState
      /\ R.st = s2
      /\ R.upto = run[r].upto
      /\ R.retried = run[r].retried
  <2> HIDE DEF s2
  <2> QED BY <1>1, <1>4 DEF RunState
<1>6. s2.skipped = st.skipped
  <2> HIDE DEF out
  <2> QED BY <1>1 DEF AfterPush, SyncState
<1>7. run' = [run EXCEPT ![r] = R]
  BY <1>2
<1>8. CASE out # "advance"
  <2>1. UNCHANGED <<log, state>>
    BY <1>2, <1>8 DEF PushEntry
  <2>2. run[r].upto <= Len(log) /\ \A q \in run[r].retried : st.skipped[q] # Null
    BY DEF IInv, RunBounded
  <2> HIDE DEF st, s2, R, out
  <2>3. run' \in [Runner -> RunState] /\ CursorSound' /\ RunBounded'
    BY <1>4, <1>5, <1>6, <1>7, <1>8, <2>1, <2>2, RunStep
  <2>4. TypeOK'
    BY <2>1, <2>3 DEF PushEntry, files, user, IInv, TypeOK
  <2> QED BY <2>3, <2>4 DEF IInv
<1>9. CASE out = "advance"
  <2>1. log' = Append(log, e) /\ state' = state
    BY <1>2, <1>9 DEF PushEntry
  <2>2. e \in LogEntry /\ e.path = p
    BY <1>3 DEF LogEntry
  <2>3. log' \in Seq(LogEntry) /\ IsAppend(log', log, e)
    <3> HIDE DEF e
    <3> QED BY <2>1, <2>2, AppendIsAppend, AppendProperties DEF IInv, TypeOK
  <2>4. Len(log) \in Nat /\ Len(log') = Len(log) + 1
    BY <2>3 DEF IsAppend
  <2>5. CursorIsHonest(log', s2)
    <3> HIDE DEF e, st, new
    <3> QED BY <1>4, <1>9, <2>2, <2>3
  <2>6. \A x \in SyncState : CursorIsHonest(log, x) => CursorIsHonest(log', x)
    <3> HIDE DEF e
    <3> QED BY <2>3, HonestAppend
  <2>7. /\ run' \in [Runner -> RunState]
        /\ run'[r] = R
        /\ \A q \in Runner \ {r} : run'[q] = run[q]
    <3> HIDE DEF R
    <3> QED BY <1>5, <1>7, UpdateRun DEF IInv
  <2>8. CursorSound'
    <3>1. \A w \in Vault : CursorIsHonest(log', state'[w])
      BY <2>1, <2>6 DEF IInv, TypeOK, CursorSound
    <3>2. ASSUME NEW q \in Runner, run'[q].phase # "idle"
          PROVE  CursorIsHonest(log', run'[q].st)
      <4>1. CASE q = r
        <5> HIDE DEF R, s2
        <5> QED BY <1>5, <2>5, <2>7, <4>1
      <4>2. CASE q # r
        <5>1. run'[q] = run[q] /\ run[q].st \in SyncState
          BY <2>7, <4>2 DEF IInv, TypeOK, RunState
        <5> QED BY <2>6, <3>2, <5>1 DEF IInv, CursorSound
      <4> QED BY <4>1, <4>2
    <3> QED BY <3>1, <3>2 DEF CursorSound
  <2>9. RunBounded'
    <3>1. ASSUME NEW q \in Runner
          PROVE  /\ run'[q].upto = run[q].upto
                 /\ run'[q].retried = run[q].retried
                 /\ run'[q].st.skipped = run[q].st.skipped
                 /\ run[q].upto \in Nat
      <4> HIDE DEF R, s2
      <4> QED BY <1>5, <1>6, <2>7 DEF IInv, TypeOK, RunState
    <3> QED BY <2>4, <3>1 DEF IInv, RunBounded
  <2>10. TypeOK'
    BY <2>1, <2>3, <2>7 DEF PushEntry, files, user, IInv, TypeOK
  <2> QED BY <2>8, <2>9, <2>10 DEF IInv
<1> QED BY <1>8, <1>9

LEMMA SavePushStep ==
  ASSUME IInv, NEW r \in Runner, SavePush(r)
  PROVE  IInv'
<1> DEFINE R == [run[r] EXCEPT !.phase = "fetch"]
<1>1. /\ run[r] \in RunState
      /\ run[r].st \in SyncState /\ CursorIsHonest(log, run[r].st)
      /\ run[r].upto <= Len(log)
      /\ \A p \in run[r].retried : run[r].st.skipped[p] # Null
  BY DEF SavePush, IInv, TypeOK, CursorSound, RunBounded, RunState
<1>2. /\ R \in RunState
      /\ R.st = run[r].st
      /\ R.upto = run[r].upto
      /\ R.retried = run[r].retried
  BY <1>1, PhaseField, Zenon
<1>3. /\ run' = [run EXCEPT ![r] = R]
      /\ state' = [state EXCEPT ![VaultOf[r]] = run[r].st]
      /\ UNCHANGED log
  BY DEF SavePush
<1> HIDE DEF R
<1>4. /\ run' \in [Runner -> RunState]
      /\ state' \in [Vault -> SyncState]
      /\ CursorSound' /\ RunBounded'
  BY <1>1, <1>2, <1>3, SaveStep
<1>5. TypeOK'
  BY <1>3, <1>4 DEF SavePush, files, user, IInv, TypeOK
<1> QED BY <1>4, <1>5 DEF IInv

LEMMA FetchPageStep ==
  ASSUME IInv, NEW r \in Runner, FetchPage(r)
  PROVE  IInv'
<1> DEFINE end == PageEnd(log, run[r].upto, PageSize)
           st  == run[r].st
           act(p) == PullAction(log, st, run[r].snap, end, p)
           h == IF end = Len(log) THEN "apply" ELSE run[r].phase
           X == IF end = Len(log)
                THEN {p \in Changed(log, st, end) : act(p) # "noop"}
                ELSE run[r].todo
           R == [run[r] EXCEPT !.upto = end, !.phase = h, !.todo = X]
<1>1. /\ run[r] \in RunState /\ run[r].phase = "fetch"
      /\ CursorIsHonest(log, st)
      /\ \A p \in run[r].retried : st.skipped[p] # Null
  BY DEF FetchPage, IInv, TypeOK, CursorSound, RunBounded
<1>2. end \in Nat /\ end <= Len(log)
  <2>1. Len(log) \in Nat /\ run[r].upto \in Nat
    BY <1>1, LogLen DEF IInv, RunState
  <2> QED BY <2>1 DEF PageEnd
<1>3. X \in SUBSET Path
  <2> HIDE DEF end, st, act
  <2> QED BY <1>1 DEF Changed, RunState
<1>4. h \in {"fetch", "apply"}
  BY <1>1
<1>5. /\ R \in RunState
      /\ R.st = st
      /\ R.upto = end
      /\ R.retried = run[r].retried
  <2> HIDE DEF end, h, X
  <2> QED BY <1>1, <1>2, <1>3, <1>4 DEF RunState
<1>6. run' = [run EXCEPT ![r] = R] /\ UNCHANGED <<log, state>>
  BY DEF FetchPage
<1> HIDE DEF end, st, R
<1>7. run' \in [Runner -> RunState] /\ CursorSound' /\ RunBounded'
  BY <1>1, <1>2, <1>5, <1>6, RunStep
<1>8. TypeOK'
  BY <1>6, <1>7 DEF FetchPage, files, user, IInv, TypeOK
<1> QED BY <1>7, <1>8 DEF IInv

\* The steps that execute one action of the plan leave the log and the saved
\* states alone; it is enough that they keep the types of what they write.
LEMMA ApplyStep ==
  ASSUME IInv, UNCHANGED <<log, state, fails, user>>, QuietRuns,
         run' \in [Runner -> RunState],
         disk' \in [Vault -> [Path -> Hash]],
         trash' \in [Vault -> SUBSET Content],
         seen' \in [Vault -> SUBSET Content]
  PROVE  IInv'
<1>1. TypeOK'
  BY DEF user, IInv, TypeOK
<1>2. CursorSound' /\ RunBounded'
  BY QuietStep DEF IInv
<1> QED BY <1>1, <1>2 DEF IInv

LEMMA ApplyDeleteStep ==
  ASSUME IInv, NEW r \in Runner, ApplyDelete(r)
  PROVE  IInv'
<1>1. PICK p \in Path : ToTrash(VaultOf[r], p) /\ Done(r, p)
  BY DEF ApplyDelete
<1>2. /\ disk' \in [Vault -> [Path -> Hash]]
      /\ trash' \in [Vault -> SUBSET Content]
      /\ seen' \in [Vault -> SUBSET Content]
  BY <1>1, ToTrashType DEF IInv, TypeOK
<1>3. run' \in [Runner -> RunState] /\ QuietRuns
  BY <1>1, DoneType DEF IInv, QuietRuns
<1> QED BY <1>2, <1>3, ApplyStep DEF ApplyDelete

LEMMA ApplyWriteStep ==
  ASSUME IInv, NEW r \in Runner, ApplyWrite(r)
  PROVE  IInv'
<1>1. PICK p \in Path :
        /\ Planned(r, p) = "write"
        /\ IF p \in Invalid(r) THEN UNCHANGED <<disk, seen>>
           ELSE PutFile(VaultOf[r], p, Remote(r, p))
        /\ Done(r, p)
        /\ UNCHANGED trash
  BY DEF ApplyWrite
<1>2. Remote(r, p) \in Content
  BY <1>1, WriteHasRemote, RemoteType DEF IInv, Hash
<1>3. disk' \in [Vault -> [Path -> Hash]] /\ seen' \in [Vault -> SUBSET Content]
  <2>1. CASE p \in Invalid(r)
    BY <1>1, <2>1 DEF IInv, TypeOK
  <2>2. CASE p \notin Invalid(r)
    BY <1>1, <1>2, <2>2, PutFileType DEF IInv
  <2> QED BY <2>1, <2>2
<1>4. run' \in [Runner -> RunState] /\ QuietRuns
  BY <1>1, DoneType DEF IInv, QuietRuns
<1>5. trash' \in [Vault -> SUBSET Content]
  BY <1>1 DEF IInv, TypeOK
<1> QED BY <1>3, <1>4, <1>5, ApplyStep DEF ApplyWrite

\* What ApplyDerived and ReplaceConflict do to the files.
LEMMA ReplaceType ==
  ASSUME IInv, NEW r \in Runner, NEW p \in Path,
         \/ /\ Remote(r, p) # Null
            /\ PutFile(VaultOf[r], p, Remote(r, p))
            /\ UNCHANGED trash
         \/ ToTrash(VaultOf[r], p)
  PROVE  /\ disk' \in [Vault -> [Path -> Hash]]
         /\ trash' \in [Vault -> SUBSET Content]
         /\ seen' \in [Vault -> SUBSET Content]
<1>1. CASE /\ Remote(r, p) # Null
           /\ PutFile(VaultOf[r], p, Remote(r, p))
           /\ UNCHANGED trash
  <2>1. Remote(r, p) \in Content
    BY <1>1, RemoteType DEF IInv, Hash
  <2> QED BY <1>1, <2>1, PutFileType DEF IInv, TypeOK
<1>2. CASE ToTrash(VaultOf[r], p)
  BY <1>2, ToTrashType DEF IInv, TypeOK
<1> QED BY <1>1, <1>2

LEMMA ApplyDerivedStep ==
  ASSUME IInv, NEW r \in Runner, ApplyDerived(r)
  PROVE  IInv'
<1>1. PICK p \in Path :
        /\ IF Remote(r, p) # Null
           THEN PutFile(VaultOf[r], p, Remote(r, p)) /\ UNCHANGED trash
           ELSE ToTrash(VaultOf[r], p)
        /\ Done(r, p)
  BY DEF ApplyDerived
<1>2. /\ disk' \in [Vault -> [Path -> Hash]]
      /\ trash' \in [Vault -> SUBSET Content]
      /\ seen' \in [Vault -> SUBSET Content]
  BY <1>1, ReplaceType
<1>3. run' \in [Runner -> RunState] /\ QuietRuns
  BY <1>1, DoneType DEF IInv, QuietRuns
<1> QED BY <1>2, <1>3, ApplyStep DEF ApplyDerived

LEMMA ReplaceConflictStep ==
  ASSUME IInv, NEW r \in Runner, ReplaceConflict(r)
  PROVE  IInv'
<1>1. PICK p \in Path :
        /\ IF Remote(r, p) # Null
           THEN PutFile(VaultOf[r], p, Remote(r, p)) /\ UNCHANGED trash
           ELSE /\ disk[VaultOf[r]][p] # Null
                /\ ToTrash(VaultOf[r], p)
        /\ Done(r, p)
  BY DEF ReplaceConflict
<1>2. /\ disk' \in [Vault -> [Path -> Hash]]
      /\ trash' \in [Vault -> SUBSET Content]
      /\ seen' \in [Vault -> SUBSET Content]
  BY <1>1, ReplaceType
<1>3. run' \in [Runner -> RunState] /\ QuietRuns
  BY <1>1, DoneType DEF IInv, QuietRuns
<1> QED BY <1>2, <1>3, ApplyStep DEF ReplaceConflict

LEMMA WriteCopyStep ==
  ASSUME IInv, NEW r \in Runner, WriteCopy(r)
  PROVE  IInv'
<1>1. PICK p \in Path, copy \in Path :
        /\ UNCHANGED <<disk, seen>>
           \/ PutFile(VaultOf[r], copy, CopyBytes(r, p))
        /\ run' = [run EXCEPT ![r].copied = @ \cup {p}]
        /\ UNCHANGED trash
  BY DEF WriteCopy
<1>2. run[r] \in RunState /\ run[r].st.files[p] \in Hash
  BY DEF IInv, TypeOK, RunState, SyncState
<1>3. CopyBytes(r, p) \in Content
  <2> DEFINE at  == disk[VaultOf[r]][p]
             now == IF at = Null THEN Plain(EmptyText) ELSE at
  <2>1. now \in Content
    BY PlainType DEF IInv, TypeOK, Hash
  <2>2. CopyBytes(r, p) = AddConflictFrontmatter(now, p, run[r].st.files[p])
    BY DEF CopyBytes
  <2> HIDE DEF now
  <2> QED BY <1>2, <2>1, <2>2, FrontmatterType
<1>4. disk' \in [Vault -> [Path -> Hash]] /\ seen' \in [Vault -> SUBSET Content]
  <2>1. UNCHANGED <<disk, seen>> \/ PutFile(VaultOf[r], copy, CopyBytes(r, p))
    BY <1>1
  <2> QED BY <1>3, <2>1, PutFileType DEF IInv, TypeOK
<1>5. run' \in [Runner -> RunState] /\ QuietRuns
  <2> DEFINE X == run[r].copied \cup {p}
             R == [run[r] EXCEPT !.copied = X]
  <2>1. X \in SUBSET Path
    BY <1>2 DEF RunState
  <2>2. run' = [run EXCEPT ![r] = R]
    BY <1>1
  <2> HIDE DEF X
  <2>3. /\ R \in RunState
        /\ R.phase = run[r].phase
        /\ R.st = run[r].st
        /\ R.upto = run[r].upto
        /\ R.retried = run[r].retried
    BY <1>2, <2>1, CopiedField, Zenon
  <2> HIDE DEF R
  <2> QED BY <2>2, <2>3, UpdateRun DEF IInv, QuietRuns
<1>6. trash' \in [Vault -> SUBSET Content]
  BY <1>1 DEF IInv, TypeOK
<1> QED BY <1>4, <1>5, <1>6, ApplyStep DEF WriteCopy

LEMMA RetryStep ==
  ASSUME IInv, NEW r \in Runner, Retry(r)
  PROVE  IInv'
<1>1. PICK p \in RetryPath(r) \ run[r].retried :
        /\ run[r].phase = "apply"
        /\ PutFile(VaultOf[r], p, run[r].st.skipped[p])
        /\ run' = [run EXCEPT ![r].retried = @ \cup {p}]
        /\ UNCHANGED <<log, trash, state, fails, user>>
  BY DEF Retry
<1> DEFINE X == run[r].retried \cup {p}
           R == [run[r] EXCEPT !.retried = X]
<1>2. /\ run[r] \in RunState
      /\ run[r].st \in SyncState /\ CursorIsHonest(log, run[r].st)
      /\ run[r].upto <= Len(log)
  BY <1>1 DEF IInv, TypeOK, CursorSound, RunBounded, RunState
<1>3. p \in Path /\ run[r].st.skipped[p] \in Content
  BY <1>1, <1>2 DEF RetryPath, SyncState, Hash
<1>4. disk' \in [Vault -> [Path -> Hash]] /\ seen' \in [Vault -> SUBSET Content]
  BY <1>1, <1>3, PutFileType DEF IInv
<1>5. X \in SUBSET Path
  BY <1>2, <1>3 DEF RunState
<1>6. \A q \in X : run[r].st.skipped[q] # Null
  BY <1>1 DEF IInv, RunBounded, RetryPath
<1>7. run' = [run EXCEPT ![r] = R]
  BY <1>1
<1> HIDE DEF X
<1>8. /\ R \in RunState
      /\ R.st = run[r].st
      /\ R.upto = run[r].upto
      /\ R.retried = X
  BY <1>2, <1>5, RetriedField, Zenon
<1> HIDE DEF R
<1>9. run' \in [Runner -> RunState] /\ CursorSound' /\ RunBounded'
  <2>1. UNCHANGED <<log, state>>
    BY <1>1
  <2>2. \A q \in R.retried : R.st.skipped[q] # Null
    BY <1>6, <1>8
  <2> QED BY <1>2, <1>7, <1>8, <2>1, <2>2, RunStep
<1>10. TypeOK'
  <2>1. UNCHANGED <<log, trash, state, fails, user>>
    BY <1>1
  <2> QED BY <1>4, <1>9, <2>1 DEF user, IInv, TypeOK
<1> QED BY <1>9, <1>10 DEF IInv

\* The heart of the matter: the state saved after a pull is honest.  Below
\* the fetch cursor a path either changed since the old cursor, and is then
\* known by its fetched hash (written, or remembered as skipped), or it did
\* not, and what the old state knew of it is still its head.
LEMMA AfterPullHonest ==
  ASSUME TypeOK, RunBounded, NEW r \in Runner,
         CursorIsHonest(log, run[r].st)
  PROVE  AfterPull(r) \in SyncState /\ CursorIsHonest(log, AfterPull(r))
<1> DEFINE st      == run[r].st
           upto    == run[r].upto
           changed == Changed(log, st, upto)
           skips   == SkippedNames(r)
           retried == run[r].retried
           s2      == AfterPull(r)
<1>1. st \in SyncState /\ upto \in Nat /\ retried \in SUBSET Path
  BY DEF TypeOK, RunState
<1>2. upto <= Len(log) /\ Len(log) \in Nat
  BY LogLen DEF RunBounded
<1>3. \A p \in Path : Remote(r, p) \in Hash
  BY RemoteType
<1>4. \A p \in skips : p \in changed /\ Remote(r, p) # Null
  BY WriteHasRemote DEF SkippedNames
<1>5. /\ s2.cursor = upto
      /\ \A p \in Path :
           /\ s2.files[p] = IF p \in changed \ skips THEN Remote(r, p)
                            ELSE IF p \in retried THEN st.skipped[p]
                            ELSE st.files[p]
           /\ s2.skipped[p] = IF p \in skips THEN Remote(r, p)
                              ELSE IF p \in changed \cup retried THEN Null
                              ELSE st.skipped[p]
  BY DEF AfterPull
<1>6. s2 \in SyncState
  <2>1. \A p \in Path : st.files[p] \in Hash /\ st.skipped[p] \in Hash
    BY <1>1 DEF SyncState
  <2>2. Null \in Hash
    BY DEF Hash
  <2> HIDE DEF changed, skips, retried, Hash, upto
  <2> QED BY <1>1, <1>3, <2>1, <2>2
          DEF AfterPull, SyncState, changed, skips, retried, upto
<1>7. ASSUME NEW p \in Path, HeadSeq(log, p) <= upto
      PROVE  HeadHash(log, p) = Known(s2, p)
  <2>1. LastSeq(log, p, upto) = LastSeq(log, p, Len(log))
    BY <1>1, <1>2, <1>7, LastSeqOfPrefix DEF HeadSeq
  <2>2. Remote(r, p) = HeadHash(log, p)
    BY <2>1 DEF Remote, HeadHash, HashAt
  <2>3. CASE p \in skips
    <3> HIDE DEF s2, skips, changed
    <3> QED BY <1>4, <1>5, <2>2, <2>3 DEF Known
  <2>4. CASE p \in changed \ skips
    <3> HIDE DEF s2, skips, changed
    <3> QED BY <1>5, <2>2, <2>4 DEF Known
  <2>5. CASE p \notin changed
    <3>1. HeadSeq(log, p) <= st.cursor
      <4>1. LastSeq(log, p, upto) \in 0..upto /\ st.cursor \in Nat
        BY <1>1, LastSeqMax DEF SyncState
      <4> QED BY <2>1, <2>5, <4>1 DEF HeadSeq, Changed
    <3>2. HeadHash(log, p) = Known(st, p)
      BY <3>1 DEF CursorIsHonest
    <3>3. p \in retried => st.skipped[p] # Null
      BY DEF RunBounded
    <3>4. p \notin skips
      BY <1>4, <2>5
    <3> HIDE DEF s2, skips, changed, st, retried
    <3> QED BY <1>5, <2>5, <3>2, <3>3, <3>4 DEF Known
  <2> QED BY <2>3, <2>4, <2>5
<1>8. CursorIsHonest(log, s2)
  <2> HIDE DEF s2
  <2> QED BY <1>2, <1>5, <1>7 DEF CursorIsHonest
<1> QED BY <1>6, <1>8

LEMMA SavePullStep ==
  ASSUME IInv, NEW r \in Runner, SavePull(r)
  PROVE  IInv'
<1> DEFINE st   == AfterPull(r)
           todo == PlanPush(st, Scan(r))
           P3   == [IdleRun EXCEPT !.phase = "push3", !.st = st,
                                   !.snap = Scan(r), !.todo = todo,
                                   !.upto = st.cursor]
           R    == IF run[r].copied = {} \/ todo = {} THEN IdleRun ELSE P3
<1>1. st \in SyncState /\ CursorIsHonest(log, st)
  <2>1. CursorIsHonest(log, run[r].st)
    BY DEF SavePull, IInv, CursorSound
  <2> QED BY <2>1, AfterPullHonest DEF IInv
<1>2. Scan(r) \in [Path -> Hash] /\ todo \in SUBSET Path
  BY ScanType DEF IInv, PlanPush
<1>3. st.cursor \in Nat /\ st.cursor <= Len(log) /\ Len(log) \in Nat
  BY <1>1, LogLen DEF SyncState, CursorIsHonest, IInv
<1>4. /\ P3 \in RunState
      /\ P3.st = st
      /\ P3.upto = st.cursor
      /\ P3.retried = {}
  <2> HIDE DEF st, todo
  <2> QED BY <1>1, <1>2, <1>3 DEF IdleRun, RunState
<1>5. /\ state' = [state EXCEPT ![VaultOf[r]] = st]
      /\ run' = [run EXCEPT ![r] = R]
      /\ UNCHANGED log
  BY DEF SavePull
<1>6. /\ R \in RunState
      /\ R.phase # "idle" => CursorIsHonest(log, R.st)
      /\ R.upto <= Len(log)
      /\ \A p \in R.retried : R.st.skipped[p] # Null
  <2> HIDE DEF st, todo, P3
  <2> QED BY <1>1, <1>3, <1>4, IdleRunFacts
<1> HIDE DEF st, R
<1>7. /\ run' \in [Runner -> RunState]
      /\ state' \in [Vault -> SyncState]
      /\ CursorSound' /\ RunBounded'
  BY <1>1, <1>5, <1>6, SaveStep
<1>8. fails' \in Nat
  BY DEF SavePull, IInv, TypeOK
<1>9. TypeOK'
  <2>1. UNCHANGED <<log, files, user>>
    BY DEF SavePull
  <2> QED BY <1>7, <1>8, <2>1 DEF files, user, IInv, TypeOK
<1> QED BY <1>7, <1>9 DEF IInv

LEMMA SavePush3Step ==
  ASSUME IInv, NEW r \in Runner, SavePush3(r)
  PROVE  IInv'
<1>1. run[r].st \in SyncState /\ CursorIsHonest(log, run[r].st)
  BY DEF SavePush3, IInv, TypeOK, CursorSound, RunState
<1>2. /\ state' = [state EXCEPT ![VaultOf[r]] = run[r].st]
      /\ run' = [run EXCEPT ![r] = IdleRun]
      /\ UNCHANGED log
  BY DEF SavePush3
<1>3. /\ run' \in [Runner -> RunState]
      /\ state' \in [Vault -> SyncState]
      /\ CursorSound' /\ RunBounded'
  BY <1>1, <1>2, IdleRunBounded, SaveStep
<1>4. TypeOK'
  BY <1>2, <1>3 DEF SavePush3, files, user, IInv, TypeOK
<1> QED BY <1>3, <1>4 DEF IInv

\* However a sync ends early, what was saved stays honest.
LEMMA EndStep ==
  ASSUME IInv, NEW r \in Runner, Fail(r) \/ FailRename(r)
  PROVE  IInv'
<1>1. run' = [run EXCEPT ![r] = IdleRun] /\ UNCHANGED <<log, files, state, user>>
  BY DEF Fail, FailRename
<1>2. fails' \in Nat
  BY DEF Fail, FailRename, IInv, TypeOK
<1>3. run' \in [Runner -> RunState] /\ CursorSound' /\ RunBounded'
  BY <1>1, IdleRunBounded, RunStep
<1>4. TypeOK'
  BY <1>1, <1>2, <1>3 DEF files, user, IInv, TypeOK
<1> QED BY <1>3, <1>4 DEF IInv

LEMMA StutterStep ==
  ASSUME IInv, UNCHANGED vars
  PROVE  IInv'
<1>1. TypeOK'
  BY DEF vars, IInv, TypeOK
<1>2. CursorSound' /\ RunBounded'
  BY DEF vars, IInv, CursorSound, RunBounded
<1> QED BY <1>1, <1>2 DEF IInv

LEMMA NextInvariant == IInv /\ [Next]_vars => IInv'
<1> SUFFICES ASSUME IInv, [Next]_vars PROVE IInv'
  OBVIOUS
<1>1. ASSUME NEW v \in Vault, UserStep(v) PROVE IInv'
  <2>1. ASSUME NEW p \in EditPath[v], NEW t \in Text \ {EmptyText}, Edit(v, p, t)
        PROVE  IInv'
    <3>1. p \in Path
      OBVIOUS
    <3> QED BY <2>1, <3>1, EditStep
  <2>2. ASSUME NEW p \in Path, Delete(v, p) PROVE IInv'
    BY <2>2, DeleteStep
  <2> QED BY <1>1, <2>1, <2>2 DEF UserStep
<1>2. ASSUME NEW r \in Runner, Step(r) PROVE IInv'
  BY <1>2, StartSyncStep, PushEntryStep, SavePushStep, FetchPageStep,
     ApplyDeleteStep, ApplyWriteStep, ApplyDerivedStep, WriteCopyStep,
     ReplaceConflictStep, RetryStep, SavePullStep, SavePush3Step, EndStep
     DEF Step
<1>3. ASSUME NEW r \in Runner, Fail(r) PROVE IInv'
  BY <1>3, EndStep
<1>4. ASSUME NEW r \in Runner, Move(r) PROVE IInv'
  BY <1>4, MoveStep
<1>5. CASE UNCHANGED vars
  BY <1>5, StutterStep
<1> QED BY <1>1, <1>2, <1>3, <1>4, <1>5 DEF Next

-----------------------------------------------------------------------------

LEMMA Invariance == Spec => []IInv
BY InitInvariant, NextInvariant, PTL DEF Spec

\* Every variable keeps its type: in particular what a pull writes is always
\* a content, never the "no content" of a tombstone (executePullActions).
THEOREM TypeCorrect == Spec => []TypeOK
<1>1. IInv => TypeOK
  BY DEF IInv
<1> QED BY <1>1, Invariance, PTL

\* A saved cursor never claims a change the vault does not know, for any
\* number of vaults and processes, any page size, any failures and any edits
\* during a sync (planPull, applyPullPlan, the skipped paths of syncOnce).
THEOREM CursorCorrect == Spec => []CursorSound
<1>1. IInv => CursorSound
  BY DEF IInv
<1> QED BY <1>1, Invariance, PTL

-----------------------------------------------------------------------------
(* Nothing is overwritten unseen.  A push replaces a version when its base *)
(* is the head, so all that a state or a plan takes for synced must have   *)
(* been in the folder: the files of a saved state and of a run, and, while *)
(* a plan is carried out, the remote version of every path that is done.   *)

Had(v) == seen[v] \cup {Null}

SeenRun(S, l, R, invalid) ==
  /\ \A p \in Path : R.snap[p] \in S /\ R.st.files[p] \in S
  /\ \A p \in R.retried : R.st.skipped[p] \in S
  /\ R.phase = "apply" =>
       \A p \in Changed(l, R.st, R.upto) \ R.todo :
         \/ p \in invalid /\ PullAction(l, R.st, R.snap, R.upto, p) = "write"
         \/ HashAt(l, p, R.upto) \in S

DiskSeen  == \A v \in Vault, p \in Path : disk[v][p] \in Had(v)
StateSeen == \A v \in Vault, p \in Path : state[v].files[p] \in Had(v)
RunsSeen  == \A r \in Runner : SeenRun(Had(VaultOf[r]), log, run[r], Invalid(r))

SInv == DiskSeen /\ StateSeen /\ RunsSeen /\ NoBlindOverwrite

\* What was seen stays seen, and what a cursor has fetched stays as it was.
LEMMA SeenRunStays ==
  ASSUME NEW S, NEW T, S \subseteq T, NEW l, NEW m, NEW R, NEW invalid,
         \A p \in Path : /\ LastSeq(m, p, R.upto) = LastSeq(l, p, R.upto)
                         /\ HashAt(m, p, R.upto) = HashAt(l, p, R.upto),
         SeenRun(S, l, R, invalid)
  PROVE  SeenRun(T, m, R, invalid)
<1>1. Changed(m, R.st, R.upto) = Changed(l, R.st, R.upto)
  BY DEF Changed
<1>2. \A p \in Path : PullAction(m, R.st, R.snap, R.upto, p) = PullAction(l, R.st, R.snap, R.upto, p)
  BY DEF PullAction
<1>3. \A p \in Changed(l, R.st, R.upto) : p \in Path
  BY DEF Changed
<1> QED BY <1>1, <1>2, <1>3 DEF SeenRun

LEMMA SeenIdle == ASSUME NEW S, Null \in S, NEW l, NEW invalid PROVE SeenRun(S, l, IdleRun, invalid)
BY DEF SeenRun, IdleRun, FreshState, NothingAt

LEMMA LogElement ==
  ASSUME TypeOK, NEW i \in 1..Len(log)
  PROVE  log[i] \in LogEntry
<1>1. log \in Seq(LogEntry)
  BY DEF TypeOK
<1> QED BY <1>1, ElementOfSeq

\* A step of r that leaves the log alone.
LEMMA SeenStep ==
  ASSUME TypeOK, SInv, NEW r \in Runner, NEW R,
         run' = [run EXCEPT ![r] = R], UNCHANGED <<log, moved>>,
         \A v \in Vault : Had(v) \subseteq Had(v)',
         DiskSeen', StateSeen',
         SeenRun(Had(VaultOf[r])', log, R, Invalid(r))
  PROVE  SInv'
<1>1. run'[r] = R /\ \A q \in Runner \ {r} : run'[q] = run[q]
  BY DEF TypeOK
<1>2. \A q \in Runner : Invalid(q)' = Invalid(q)
  BY DEF Invalid
<1>3. ASSUME NEW q \in Runner
      PROVE  SeenRun(Had(VaultOf[q])', log', run'[q], Invalid(q)')
  <2>1. CASE q = r
    BY <1>1, <1>2, <2>1
  <2>2. CASE q # r
    <3>1. SeenRun(Had(VaultOf[q]), log, run[q], Invalid(q))
      BY DEF SInv, RunsSeen
    <3>2. Had(VaultOf[q]) \subseteq Had(VaultOf[q])'
      OBVIOUS
    <3>3. SeenRun(Had(VaultOf[q])', log, run[q], Invalid(q))
      BY <3>1, <3>2, SeenRunStays
    <3> QED BY <1>1, <1>2, <2>2, <3>3
  <2> QED BY <2>1, <2>2
<1>4. RunsSeen'
  BY <1>3 DEF RunsSeen
<1>5. NoBlindOverwrite'
  <2>1. \A v \in Vault : seen[v] \subseteq seen'[v] \cup {Null}
    BY DEF Had
  <2>2. \A i \in 1..Len(log) : log[i].by \in Vault
    BY LogElement DEF LogEntry
  <2> QED BY <2>1, <2>2 DEF SInv, NoBlindOverwrite
<1> QED BY <1>4, <1>5 DEF SInv

LEMMA PutSeen ==
  ASSUME TypeOK, DiskSeen, NEW v \in Vault, NEW p \in Path, NEW c, PutFile(v, p, c)
  PROVE  /\ \A w \in Vault : Had(w) \subseteq Had(w)'
         /\ c \in Had(v)'
         /\ DiskSeen'
BY DEF TypeOK, DiskSeen, PutFile, Had

LEMMA TrashSeen ==
  ASSUME TypeOK, DiskSeen, NEW v \in Vault, NEW p \in Path, ToTrash(v, p)
  PROVE  /\ \A w \in Vault : Had(w) \subseteq Had(w)'
         /\ DiskSeen'
BY DEF TypeOK, DiskSeen, ToTrash, Had

LEMMA SameSeen ==
  ASSUME DiskSeen, UNCHANGED <<disk, seen>>
  PROVE  /\ \A w \in Vault : Had(w) \subseteq Had(w)' /\ Had(w)' = Had(w)
         /\ DiskSeen'
BY DEF DiskSeen, Had

LEMMA SameStateSeen ==
  ASSUME StateSeen, UNCHANGED state, \A w \in Vault : Had(w) \subseteq Had(w)'
  PROVE  StateSeen'
BY DEF StateSeen

\* A step that moves a file and marks path p as done, in the phase "apply".
LEMMA DoneSeen ==
  ASSUME TypeOK, SInv, NEW r \in Runner, NEW p \in Path, Turn(r, p), Done(r, p),
         UNCHANGED <<log, moved, state>>,
         \A w \in Vault : Had(w) \subseteq Had(w)', DiskSeen',
         \/ p \in Invalid(r) /\ Planned(r, p) = "write"
         \/ Remote(r, p) \in Had(VaultOf[r])'
  PROVE  SInv'
<1> DEFINE R == [run[r] EXCEPT !.todo = @ \ {p}]
           S == Had(VaultOf[r])
<1>1. run' = [run EXCEPT ![r] = R]
  BY DEF Done
<1>2. run[r] \in RunState
  BY DEF TypeOK
<1>3. /\ R.snap = run[r].snap /\ R.st = run[r].st /\ R.retried = run[r].retried
      /\ R.phase = run[r].phase /\ R.upto = run[r].upto /\ R.todo = run[r].todo \ {p}
  BY <1>2 DEF RunState
<1>4. SeenRun(S, log, run[r], Invalid(r)) /\ S \subseteq S'
  BY DEF SInv, RunsSeen
<1> HIDE DEF R, S
<1>5. SeenRun(S', log, R, Invalid(r))
  BY <1>3, <1>4 DEF SeenRun, Planned, Remote, S
<1>6. StateSeen'
  BY SameStateSeen DEF SInv
<1> QED BY <1>1, <1>5, <1>6, SeenStep DEF S

LEMMA ApplySeen ==
  ASSUME TypeOK, SInv, NEW r \in Runner,
         ApplyDelete(r) \/ ApplyWrite(r) \/ ApplyDerived(r) \/ ReplaceConflict(r)
  PROVE  SInv'
<1>0. DiskSeen
  BY DEF SInv
<1>1. CASE ApplyDelete(r)
  <2>1. PICK p \in Path : /\ Turn(r, p) /\ Planned(r, p) = "delete"
                          /\ ToTrash(VaultOf[r], p) /\ Done(r, p)
                          /\ UNCHANGED <<log, state, fails, user>>
    BY <1>1 DEF ApplyDelete
  <2>2. Remote(r, p) = Null
    BY <2>1 DEF Planned, PullAction, Remote
  <2>3. \A w \in Vault : Had(w) \subseteq Had(w)'
    BY <1>0, <2>1, TrashSeen
  <2>4. DiskSeen'
    BY <1>0, <2>1, TrashSeen
  <2>5. Remote(r, p) \in Had(VaultOf[r])'
    BY <2>2 DEF Had
  <2> QED BY <2>1, <2>3, <2>4, <2>5, DoneSeen DEF user
<1>2. CASE ApplyWrite(r)
  <2>1. PICK p \in Path : /\ Turn(r, p) /\ Planned(r, p) = "write"
                          /\ IF p \in Invalid(r) THEN UNCHANGED <<disk, seen>>
                             ELSE PutFile(VaultOf[r], p, Remote(r, p))
                          /\ Done(r, p)
                          /\ UNCHANGED <<log, trash, state, fails, user>>
    BY <1>2 DEF ApplyWrite
  <2>2. CASE p \in Invalid(r)
    BY <1>0, <2>1, <2>2, SameSeen, DoneSeen DEF user
  <2>3. CASE p \notin Invalid(r)
    <3>1. PutFile(VaultOf[r], p, Remote(r, p))
      BY <2>1, <2>3
    <3> QED BY <1>0, <2>1, <3>1, PutSeen, DoneSeen DEF user
  <2> QED BY <2>2, <2>3
<1>3. CASE ApplyDerived(r) \/ ReplaceConflict(r)
  <2>1. PICK p \in Path : /\ Turn(r, p) /\ Done(r, p)
                          /\ \/ PutFile(VaultOf[r], p, Remote(r, p))
                             \/ Remote(r, p) = Null /\ ToTrash(VaultOf[r], p)
                          /\ UNCHANGED <<log, state, user>>
    BY <1>3 DEF ApplyDerived, ReplaceConflict
  <2>2. CASE PutFile(VaultOf[r], p, Remote(r, p))
    BY <1>0, <2>1, <2>2, PutSeen, DoneSeen DEF user
  <2>3. CASE Remote(r, p) = Null /\ ToTrash(VaultOf[r], p)
    <3>1. Remote(r, p) \in Had(VaultOf[r])'
      BY <2>3 DEF Had
    <3> QED BY <1>0, <2>1, <2>3, <3>1, TrashSeen, DoneSeen DEF user
  <2> QED BY <2>1, <2>2, <2>3
<1> QED BY <1>1, <1>2, <1>3

\* A step that starts, saves or ends a sync; R is what becomes of the run.
LEMMA ScanSeen ==
  ASSUME SInv, NEW r \in Runner
  PROVE  \A p \in Path : Scan(r)[p] \in Had(VaultOf[r])
BY DEF SInv, DiskSeen, Scan, Had

LEMMA PhaseSeen ==
  ASSUME TypeOK, SInv, NEW r \in Runner,
         StartSync(r) \/ SavePush(r) \/ SavePush3(r) \/ Fail(r) \/ FailRename(r)
  PROVE  SInv'
<1>0. /\ DiskSeen /\ StateSeen /\ SeenRun(Had(VaultOf[r]), log, run[r], Invalid(r))
      /\ run[r] \in RunState /\ VaultOf[r] \in Vault
      /\ state \in [Vault -> SyncState] /\ Null \in Had(VaultOf[r])
  BY DEF SInv, RunsSeen, TypeOK, Had
<1>1. UNCHANGED <<disk, seen, log, moved>>
  BY DEF StartSync, SavePush, SavePush3, Fail, FailRename, files, user
<1>2. /\ \A w \in Vault : Had(w) \subseteq Had(w)' /\ Had(w)' = Had(w)
      /\ DiskSeen'
  BY <1>0, <1>1, SameSeen
<1>3. SeenRun(Had(VaultOf[r])', log, IdleRun, Invalid(r))
  BY <1>0, <1>2, SeenIdle
<1>4. \A p \in Path : run[r].st.files[p] \in Had(VaultOf[r])
  BY <1>0 DEF SeenRun
<1>5. CASE StartSync(r)
  <2> DEFINE st == state[VaultOf[r]]
             R == [IdleRun EXCEPT !.phase = "push", !.st = st, !.snap = Scan(r),
                                  !.todo = PlanPush(st, Scan(r)), !.upto = st.cursor]
  <2>1. run' = [run EXCEPT ![r] = R] /\ UNCHANGED state
    BY <1>5 DEF StartSync
  <2>2. R.phase = "push" /\ R.st = st /\ R.snap = Scan(r) /\ R.retried = {}
    BY DEF IdleRun
  <2> HIDE DEF R
  <2>3. SeenRun(Had(VaultOf[r])', log, R, Invalid(r))
    BY <1>0, <1>2, <2>2, ScanSeen DEF SeenRun, StateSeen
  <2>4. StateSeen'
    BY <1>0, <1>2, <2>1, SameStateSeen
  <2> QED BY <1>1, <1>2, <2>1, <2>3, <2>4, SeenStep
<1>6. CASE SavePush(r)
  <2> DEFINE R == [run[r] EXCEPT !.phase = "fetch"]
  <2>1. /\ run' = [run EXCEPT ![r] = R]
        /\ state' = [state EXCEPT ![VaultOf[r]] = run[r].st]
    BY <1>6 DEF SavePush
  <2>2. /\ R.phase = "fetch" /\ R.st = run[r].st /\ R.snap = run[r].snap
        /\ R.retried = run[r].retried
    BY <1>0 DEF RunState
  <2> HIDE DEF R
  <2>3. SeenRun(Had(VaultOf[r])', log, R, Invalid(r))
    BY <1>0, <1>2, <2>2 DEF SeenRun
  <2>4. StateSeen'
    BY <1>0, <1>2, <1>4, <2>1 DEF StateSeen
  <2> QED BY <1>1, <1>2, <2>1, <2>3, <2>4, SeenStep
<1>7. CASE SavePush3(r)
  <2>1. /\ run' = [run EXCEPT ![r] = IdleRun]
        /\ state' = [state EXCEPT ![VaultOf[r]] = run[r].st]
    BY <1>7 DEF SavePush3
  <2>2. StateSeen'
    BY <1>0, <1>2, <1>4, <2>1 DEF StateSeen
  <2> QED BY <1>1, <1>2, <1>3, <2>1, <2>2, SeenStep
<1>8. CASE Fail(r) \/ FailRename(r)
  <2>1. run' = [run EXCEPT ![r] = IdleRun] /\ UNCHANGED state
    BY <1>8 DEF Fail, FailRename
  <2>2. StateSeen'
    BY <1>0, <1>2, <2>1, SameStateSeen
  <2> QED BY <1>1, <1>2, <1>3, <2>1, <2>2, SeenStep
<1> QED BY <1>5, <1>6, <1>7, <1>8

\* When the last page is in, the paths that need no action are those whose
\* remote version is the one that was scanned.
LEMMA FetchSeen ==
  ASSUME TypeOK, SInv, NEW r \in Runner, FetchPage(r)
  PROVE  SInv'
<1> DEFINE end == PageEnd(log, run[r].upto, PageSize)
           last == end = Len(log)
           todo == {p \in Changed(log, run[r].st, end) :
                      PullAction(log, run[r].st, run[r].snap, end, p) # "noop"}
           R == [run[r] EXCEPT !.upto = end,
                               !.phase = IF last THEN "apply" ELSE @,
                               !.todo = IF last THEN todo ELSE @]
<1>1. /\ run' = [run EXCEPT ![r] = R] /\ run[r].phase = "fetch"
      /\ UNCHANGED <<disk, seen, log, moved, state>>
  BY DEF FetchPage, files, user
<1>2. /\ DiskSeen /\ StateSeen /\ SeenRun(Had(VaultOf[r]), log, run[r], Invalid(r))
      /\ run[r] \in RunState
  BY DEF SInv, RunsSeen, TypeOK
<1> HIDE DEF end
<1>3. /\ R.snap = run[r].snap /\ R.st = run[r].st /\ R.retried = run[r].retried
      /\ R.upto = end
      /\ R.phase = "apply" => R.todo = todo
  BY <1>1, <1>2 DEF RunState
<1>4. /\ \A w \in Vault : Had(w) \subseteq Had(w)' /\ Had(w)' = Had(w)
      /\ DiskSeen' /\ StateSeen'
  BY <1>1, <1>2, SameSeen, SameStateSeen
<1>5. ASSUME R.phase = "apply", NEW p \in Changed(log, R.st, R.upto) \ R.todo
      PROVE  HashAt(log, p, R.upto) \in Had(VaultOf[r])
  <2>1. p \in Path
    BY <1>5 DEF Changed
  <2>2. PullAction(log, R.st, R.snap, R.upto, p) = "noop"
    BY <1>3, <1>5
  <2>3. HashAt(log, p, R.upto) = R.snap[p]
    BY <2>2 DEF PullAction
  <2> HIDE DEF R
  <2> QED BY <1>2, <1>3, <2>1, <2>3 DEF SeenRun
<1> HIDE DEF R
<1>6. SeenRun(Had(VaultOf[r])', log, R, Invalid(r))
  BY <1>2, <1>3, <1>4, <1>5 DEF SeenRun
<1> QED BY <1>1, <1>4, <1>6, SeenStep

LEMMA CopySeen ==
  ASSUME TypeOK, SInv, NEW r \in Runner, WriteCopy(r)
  PROVE  SInv'
<1>1. PICK p, copy, c :
        /\ p \in Path /\ copy \in Path
        /\ UNCHANGED <<disk, seen>> \/ PutFile(VaultOf[r], copy, c)
        /\ run' = [run EXCEPT ![r].copied = @ \cup {p}]
        /\ UNCHANGED <<log, state, moved>>
  BY DEF WriteCopy, user
<1> DEFINE R == [run[r] EXCEPT !.copied = @ \cup {p}]
<1>2. /\ DiskSeen /\ StateSeen /\ SeenRun(Had(VaultOf[r]), log, run[r], Invalid(r))
      /\ run[r] \in RunState
  BY DEF SInv, RunsSeen, TypeOK
<1>3. /\ R.snap = run[r].snap /\ R.st = run[r].st /\ R.retried = run[r].retried
      /\ R.phase = run[r].phase /\ R.upto = run[r].upto /\ R.todo = run[r].todo
  BY <1>2 DEF RunState
<1>4. /\ \A w \in Vault : Had(w) \subseteq Had(w)'
      /\ DiskSeen'
  BY <1>1, <1>2, SameSeen, PutSeen
<1>5. StateSeen' /\ run' = [run EXCEPT ![r] = R]
  BY <1>1, <1>2, <1>4, SameStateSeen
<1> HIDE DEF R
<1>6. SeenRun(Had(VaultOf[r])', log, R, Invalid(r))
  BY <1>2, <1>3, <1>4 DEF SeenRun
<1> QED BY <1>1, <1>4, <1>5, <1>6, SeenStep

LEMMA RetrySeen ==
  ASSUME TypeOK, SInv, NEW r \in Runner, Retry(r)
  PROVE  SInv'
<1>1. PICK p \in RetryPath(r) :
        /\ PutFile(VaultOf[r], p, run[r].st.skipped[p])
        /\ run' = [run EXCEPT ![r].retried = @ \cup {p}]
        /\ UNCHANGED <<log, state, moved>>
  BY DEF Retry, user
<1> DEFINE R == [run[r] EXCEPT !.retried = @ \cup {p}]
<1>2. /\ DiskSeen /\ StateSeen /\ SeenRun(Had(VaultOf[r]), log, run[r], Invalid(r))
      /\ run[r] \in RunState /\ p \in Path
  BY DEF SInv, RunsSeen, TypeOK, RetryPath
<1>3. /\ R.snap = run[r].snap /\ R.st = run[r].st /\ R.retried = run[r].retried \cup {p}
      /\ R.phase = run[r].phase /\ R.upto = run[r].upto /\ R.todo = run[r].todo
  BY <1>2 DEF RunState
<1>4. /\ \A w \in Vault : Had(w) \subseteq Had(w)'
      /\ run[r].st.skipped[p] \in Had(VaultOf[r])'
      /\ DiskSeen'
  BY <1>1, <1>2, PutSeen
<1>5. StateSeen' /\ run' = [run EXCEPT ![r] = R]
  BY <1>1, <1>2, <1>4, SameStateSeen
<1> HIDE DEF R
<1>6. SeenRun(Had(VaultOf[r])', log, R, Invalid(r))
  BY <1>2, <1>3, <1>4 DEF SeenRun
<1> QED BY <1>1, <1>4, <1>5, <1>6, SeenStep

\* What the state saved after a pull takes for synced was fetched and is done,
\* or downloaded again, or was synced before.
LEMMA SavePullSeen ==
  ASSUME TypeOK, SInv, NEW r \in Runner, SavePull(r)
  PROVE  SInv'
<1> DEFINE st == AfterPull(r)
           P3 == [IdleRun EXCEPT !.phase = "push3", !.st = st,
                                 !.snap = Scan(r), !.todo = PlanPush(st, Scan(r)),
                                 !.upto = st.cursor]
           R  == IF run[r].copied = {} \/ PlanPush(st, Scan(r)) = {} THEN IdleRun ELSE P3
<1>1. /\ run' = [run EXCEPT ![r] = R]
      /\ state' = [state EXCEPT ![VaultOf[r]] = st]
      /\ run[r].phase = "apply" /\ run[r].todo = {}
      /\ UNCHANGED <<disk, seen, log, moved>>
  BY DEF SavePull, files, user
<1>2. /\ DiskSeen /\ StateSeen /\ SeenRun(Had(VaultOf[r]), log, run[r], Invalid(r))
      /\ Null \in Had(VaultOf[r]) /\ state \in [Vault -> SyncState]
      /\ run[r] \in RunState
  BY DEF SInv, RunsSeen, Had, TypeOK
<1>3. /\ \A w \in Vault : Had(w) \subseteq Had(w)' /\ Had(w)' = Had(w)
      /\ DiskSeen'
  BY <1>1, <1>2, SameSeen
<1>4. ASSUME NEW p \in Path
      PROVE  st.files[p] \in Had(VaultOf[r])
  <2>1. CASE p \in Changed(log, run[r].st, run[r].upto) \ SkippedNames(r)
    <3>1. st.files[p] = Remote(r, p)
      BY <2>1 DEF AfterPull
    <3>2. ~(p \in Invalid(r) /\ Planned(r, p) = "write")
      BY <2>1 DEF SkippedNames
    <3> HIDE DEF st
    <3> QED BY <1>1, <1>2, <2>1, <3>1, <3>2 DEF SeenRun, Remote, Planned
  <2>2. CASE p \notin Changed(log, run[r].st, run[r].upto) \ SkippedNames(r) /\ p \in run[r].retried
    <3>1. st.files[p] = run[r].st.skipped[p]
      BY <2>2 DEF AfterPull
    <3> HIDE DEF st
    <3> QED BY <1>2, <2>2, <3>1 DEF SeenRun
  <2>3. CASE p \notin Changed(log, run[r].st, run[r].upto) \ SkippedNames(r) /\ p \notin run[r].retried
    <3>1. st.files[p] = run[r].st.files[p]
      BY <2>3 DEF AfterPull
    <3> HIDE DEF st
    <3> QED BY <1>2, <3>1 DEF SeenRun
  <2> QED BY <2>1, <2>2, <2>3
<1> HIDE DEF st
<1>5. StateSeen'
  BY <1>1, <1>2, <1>3, <1>4 DEF StateSeen
<1>6. SeenRun(Had(VaultOf[r])', log, R, Invalid(r))
  <2>1. SeenRun(Had(VaultOf[r])', log, IdleRun, Invalid(r))
    BY <1>2, <1>3, SeenIdle
  <2>2. P3.phase = "push3" /\ P3.st = st /\ P3.snap = Scan(r) /\ P3.retried = {}
    BY DEF IdleRun
  <2> HIDE DEF P3
  <2>3. SeenRun(Had(VaultOf[r])', log, P3, Invalid(r))
    BY <1>3, <1>4, <2>2, ScanSeen DEF SeenRun
  <2> QED BY <2>1, <2>3
<1> HIDE DEF R
<1> QED BY <1>1, <1>3, <1>5, <1>6, SeenStep

\* The step all this is for: the server accepts a version over its base.
LEMMA PushSeen ==
  ASSUME TypeOK, RunBounded, SInv, NEW r \in Runner, PushEntry(r)
  PROVE  SInv'
<1>1. PICK p \in NextToPush(run[r].todo, run[r].snap) :
        LET new == run[r].snap[p]
            out == PushOutcome(log, p, run[r].st.files[p], new)
        IN  /\ log' = IF out = "advance"
                      THEN Append(log, [path |-> p, hash |-> new, by |-> VaultOf[r]])
                      ELSE log
            /\ run' = [run EXCEPT ![r].todo = @ \ {p},
                                  ![r].st   = AfterPush(@, p, new, out)]
            /\ run[r].phase \in {"push", "push3"}
            /\ UNCHANGED <<disk, seen, state, moved>>
  BY DEF PushEntry, files, user
<1> DEFINE base == run[r].st.files[p]
           new  == run[r].snap[p]
           out  == PushOutcome(log, p, base, new)
           e    == [path |-> p, hash |-> new, by |-> VaultOf[r]]
           st   == AfterPush(run[r].st, p, new, out)
           R    == [run[r] EXCEPT !.todo = @ \ {p}, !.st = st]
           S    == Had(VaultOf[r])
<1>2. /\ DiskSeen /\ StateSeen /\ SeenRun(S, log, run[r], Invalid(r))
      /\ run[r] \in RunState /\ run[r].st \in SyncState
      /\ p \in Path /\ VaultOf[r] \in Vault /\ new \in Hash
  BY DEF SInv, RunsSeen, TypeOK, RunState, NextToPush
<1>3. /\ \A w \in Vault : Had(w) \subseteq Had(w)' /\ Had(w)' = Had(w)
      /\ DiskSeen' /\ StateSeen'
  BY <1>1, <1>2, SameSeen, SameStateSeen
<1>4. /\ R.snap = run[r].snap /\ R.st = st /\ R.retried = run[r].retried
      /\ R.phase \in {"push", "push3"} /\ run' = [run EXCEPT ![r] = R]
  <2>1. run' = [run EXCEPT ![r] = R]
    BY <1>1
  <2> HIDE DEF st
  <2>2. /\ R.snap = run[r].snap /\ R.st = st /\ R.retried = run[r].retried
        /\ R.phase = run[r].phase
    BY <1>2 DEF RunState
  <2> HIDE DEF R
  <2> QED BY <1>1, <2>1, <2>2
<1>5. /\ \A q \in Path : st.files[q] \in S
      /\ st.skipped = run[r].st.skipped
  BY <1>2 DEF AfterPush, SyncState, SeenRun
<1> HIDE DEF R, st
<1>6. SeenRun(Had(VaultOf[r])', log', R, Invalid(r)')
  BY <1>2, <1>3, <1>4, <1>5 DEF SeenRun
<1>7. CASE out # "advance"
  <2>1. UNCHANGED <<log, moved>>
    BY <1>1, <1>7
  <2>2. SeenRun(Had(VaultOf[r])', log, R, Invalid(r))
    BY <1>2, <1>3, <1>4, <1>5 DEF SeenRun
  <2> QED BY <1>3, <1>4, <2>1, <2>2, SeenStep
<1>8. CASE out = "advance"
  <2>1. base = HeadHash(log, p)
    BY <1>8 DEF PushOutcome
  <2>2. e \in LogEntry /\ e.path = p /\ e.by = VaultOf[r]
    BY <1>2 DEF LogEntry
  <2>3. log' = Append(log, e)
    BY <1>1, <1>8
  <2> HIDE DEF e, base
  <2>4. IsAppend(log', log, e) /\ Len(log) \in Nat
    BY <2>2, <2>3, AppendIsAppend, LogLen DEF TypeOK
  <2>5. \A q, k : k \in 0..Len(log) => LastSeq(log', q, k) = LastSeq(log, q, k)
                                      /\ HashAt(log', q, k) = HashAt(log, q, k)
    BY <2>4, AppendKeepsPrefix
  <2>6. RunsSeen'
    <3> SUFFICES ASSUME NEW q \in Runner
                 PROVE  SeenRun(Had(VaultOf[q])', log', run'[q], Invalid(q)')
      BY DEF RunsSeen
    <3>1. CASE q = r
      BY <1>4, <1>6, <3>1 DEF TypeOK
    <3>2. CASE q # r
      <4>1. run'[q] = run[q] /\ Invalid(q)' = Invalid(q)
        BY <1>1, <1>4, <3>2 DEF TypeOK, Invalid
      <4>2. run[q].upto \in 0..Len(log)
        BY <2>4 DEF RunBounded, TypeOK, RunState
      <4>3. SeenRun(Had(VaultOf[q]), log, run[q], Invalid(q))
        BY DEF SInv, RunsSeen
      <4>4. Had(VaultOf[q]) \subseteq Had(VaultOf[q])'
        BY <1>3
      <4>5. SeenRun(Had(VaultOf[q])', log', run[q], Invalid(q))
        BY <2>5, <4>2, <4>3, <4>4, SeenRunStays
      <4> QED BY <4>1, <4>5
    <3> QED BY <3>1, <3>2
  <2>7. NoBlindOverwrite'
    <3> SUFFICES ASSUME NEW i \in 1..Len(log')
                 PROVE  HashAt(log', log'[i].path, i - 1) \in seen'[log'[i].by] \cup {Null}
      BY DEF NoBlindOverwrite
    <3>1. CASE i \in 1..Len(log)
      <4>1. log'[i] = log[i] /\ i - 1 \in 0..Len(log)
        BY <2>4, <3>1 DEF IsAppend
      <4>2. HashAt(log, log[i].path, i - 1) \in seen[log[i].by] \cup {Null}
        BY <3>1 DEF SInv, NoBlindOverwrite
      <4> QED BY <1>1, <2>5, <4>1, <4>2
    <3>2. CASE i = Len(log) + 1
      <4>1. log'[i] = e /\ i - 1 = Len(log) /\ Len(log) \in 0..Len(log)
        BY <2>4, <3>2 DEF IsAppend
      <4>2. HashAt(log', p, Len(log)) = base
        BY <2>1, <2>5, <4>1 DEF HeadHash
      <4>3. base \in S
        BY <1>2 DEF SeenRun, base
      <4> QED BY <1>1, <2>2, <4>1, <4>2, <4>3 DEF Had
    <3> QED BY <2>4, <3>1, <3>2 DEF IsAppend
  <2> QED BY <1>3, <2>6, <2>7 DEF SInv
<1> QED BY <1>7, <1>8

\* Users, and a folder that moves between syncs.
LEMMA UserSeen ==
  ASSUME TypeOK, SInv,
         \/ \E v \in Vault, p \in Path, t \in Text : Edit(v, p, t)
         \/ \E v \in Vault, p \in Path : Delete(v, p)
         \/ \E r \in Runner : Move(r)
         \/ UNCHANGED vars
  PROVE  SInv'
<1>0. DiskSeen /\ StateSeen
  BY DEF SInv
<1>1. /\ UNCHANGED <<log, state, run>>
      /\ \A r \in Runner : run[r].phase # "idle" => Invalid(r)' = Invalid(r)
  BY DEF Edit, Delete, Move, vars, Invalid, files
<1>2. (\A w \in Vault : Had(w) \subseteq Had(w)') /\ DiskSeen'
  <2>1. ASSUME NEW v \in Vault, NEW p \in Path, NEW t \in Text, Edit(v, p, t)
        PROVE  (\A w \in Vault : Had(w) \subseteq Had(w)') /\ DiskSeen'
    BY <1>0, <2>1, PutSeen DEF Edit
  <2>2. ASSUME NEW v \in Vault, NEW p \in Path, Delete(v, p)
        PROVE  (\A w \in Vault : Had(w) \subseteq Had(w)') /\ DiskSeen'
    BY <1>0, <2>2 DEF Delete, DiskSeen, Had, TypeOK
  <2>3. CASE (\E r \in Runner : Move(r)) \/ UNCHANGED vars
    <3>1. UNCHANGED <<disk, seen>>
      BY <2>3 DEF Move, vars, files
    <3> QED BY <1>0, <3>1, SameSeen
  <2> QED BY <2>1, <2>2, <2>3
<1>3. StateSeen'
  BY <1>0, <1>1, <1>2, SameStateSeen
<1>4. RunsSeen'
  <2> SUFFICES ASSUME NEW r \in Runner
               PROVE  SeenRun(Had(VaultOf[r])', log', run'[r], Invalid(r)')
    BY DEF RunsSeen
  <2>1. SeenRun(Had(VaultOf[r]), log, run[r], Invalid(r)) /\ VaultOf[r] \in Vault
    BY DEF SInv, RunsSeen
  <2>2. SeenRun(Had(VaultOf[r])', log, run[r], Invalid(r))
    BY <1>2, <2>1, SeenRunStays
  <2>3. CASE run[r].phase # "idle"
    BY <1>1, <2>2, <2>3
  <2>4. CASE run[r].phase = "idle"
    BY <1>1, <2>2, <2>4 DEF SeenRun
  <2> QED BY <2>3, <2>4
<1>5. NoBlindOverwrite'
  <2>1. \A v \in Vault : seen[v] \subseteq seen'[v] \cup {Null}
    BY <1>2 DEF Had
  <2>2. \A i \in 1..Len(log) : log[i].by \in Vault
    BY LogElement DEF LogEntry
  <2> QED BY <1>1, <2>1, <2>2 DEF SInv, NoBlindOverwrite
<1> QED BY <1>2, <1>3, <1>4, <1>5 DEF SInv

LEMMA InitSInv == Init => SInv
<1> SUFFICES ASSUME Init PROVE SInv
  OBVIOUS
<1>1. \A v \in Vault : Null \in Had(v)
  BY DEF Had
<1>2. DiskSeen /\ StateSeen
  BY <1>1 DEF Init, DiskSeen, StateSeen, NothingAt, FreshState
<1>3. RunsSeen
  BY <1>1, SeenIdle DEF Init, RunsSeen
<1>4. NoBlindOverwrite
  BY DEF Init, NoBlindOverwrite
<1> QED BY <1>2, <1>3, <1>4 DEF SInv

LEMMA NextSInv == IInv /\ SInv /\ [Next]_vars => SInv'
<1> SUFFICES ASSUME TypeOK, RunBounded, SInv, [Next]_vars PROVE SInv'
  BY DEF IInv
<1>1. ASSUME NEW v \in Vault, UserStep(v) PROVE SInv'
  BY <1>1, UserSeen DEF UserStep
<1>2. ASSUME NEW r \in Runner, Step(r) \/ Fail(r) PROVE SInv'
  BY <1>2, PhaseSeen, PushSeen, FetchSeen, ApplySeen, CopySeen, RetrySeen, SavePullSeen
     DEF Step
<1>3. ASSUME NEW r \in Runner, Move(r) PROVE SInv'
  BY <1>3, UserSeen
<1>4. CASE UNCHANGED vars
  BY <1>4, UserSeen
<1> QED BY <1>1, <1>2, <1>3, <1>4 DEF Next

\* No version of a path is replaced in the group by a vault that never had it,
\* for any number of vaults and processes, any failures and any edits: what
\* planPush sends as the base is a version that has been in the folder.
THEOREM OverwritesAreSeen == Spec => []NoBlindOverwrite
<1>1. SInv => NoBlindOverwrite
  BY DEF SInv
<1> QED BY <1>1, InitSInv, NextSInv, Invariance, PTL DEF Spec

\* Two vaults that are up to date and unmodified hold the same notes, but for
\* the names that one of them is skipping.
THEOREM VaultsAgree == Spec => []AtRestAgree
<1>1. IInv => AtRestAgree
  <2> SUFFICES ASSUME IInv, NEW v \in Vault, AtRest(v), NEW p \in Path,
                      state[v].skipped[p] = Null
               PROVE  disk[v][p] = HeadHash(log, p)
    BY DEF AtRestAgree
  <2>1. HeadSeq(log, p) <= state[v].cursor
    <3>1. Len(log) \in Nat /\ state[v].cursor = Len(log)
      BY LogLen DEF IInv, AtRest
    <3> QED BY <3>1, LastSeqMax DEF HeadSeq
  <2>2. HeadHash(log, p) = state[v].files[p]
    BY <2>1 DEF IInv, CursorSound, CursorIsHonest, Known
  <2> QED BY <2>2 DEF AtRest
<1> QED BY <1>1, Invariance, PTL

-----------------------------------------------------------------------------
(* What holds when no two processes sync the same vault.  Invalid names    *)
(* never get into a folder, so a scan is the folder; and a plan is carried *)
(* out as it was made.                                                     *)

OneProcess == \A r, q \in Runner : VaultOf[r] = VaultOf[q] => r = q

\* What invalid names need of it: a vault on a platform that cannot store some
\* has no other process.
OneOnWindows ==
  \A r, q \in Runner : VaultOf[r] = VaultOf[q] /\ InvalidPath[r] # {} => r = q

RunShape(l, R, invalid) ==
  /\ \A p \in invalid : R.snap[p] = Null
  /\ R.phase # "apply" => R.retried = {} /\ R.copied = {}
  /\ R.phase = "apply" =>
       /\ R.todo \subseteq Changed(l, R.st, R.upto)
       /\ \A p \in R.retried : p \notin Changed(l, R.st, R.upto)
       /\ \A p \in R.copied :
            PullAction(l, R.st, R.snap, R.upto, p) = "conflict"

ShapeOf(r) ==
  /\ \A p \in Invalid(r) : disk[VaultOf[r]][p] = Null
  /\ RunShape(log, run[r], Invalid(r))

ShapeInv == \A r \in Runner : ShapeOf(r)

(* Until a sync fails the group changes only as users asked.  What the     *)
(* folder of v holds at p is what v's state takes for synced, or else it   *)
(* is the doing of v's user (or a copy).                                   *)

Mine(v, p, c) ==
  IF c = Null THEN <<v, p>> \in removed
              ELSE c.of = Null => c.text \in used[v]

Ours(v, p, c, synced) == c = synced \/ Mine(v, p, c)

\* What the state saved at the end of the pull will take for synced at p,
\* as far as the plan is carried out.
SyncedSoFar(l, R, invalid, p) ==
  IF /\ p \in Changed(l, R.st, R.upto) \ R.todo
     /\ p \in invalid => PullAction(l, R.st, R.snap, R.upto, p) # "write"
  THEN HashAt(l, p, R.upto)
  ELSE IF p \in R.retried THEN R.st.skipped[p]
  ELSE R.st.files[p]

OursRun(v, l, R, invalid) ==
  \A p \in Path :
    CASE R.phase = "idle"  -> Ours(v, p, disk[v][p], state[v].files[p])
      [] R.phase = "apply" -> Ours(v, p, disk[v][p], SyncedSoFar(l, R, invalid, p))
      [] OTHER             -> /\ Ours(v, p, R.snap[p], R.st.files[p])
                              /\ Ours(v, p, disk[v][p], R.snap[p])

RunsOurs == \A r \in Runner : OursRun(VaultOf[r], log, run[r], Invalid(r))
LogOurs  == \A i \in 1..Len(log) : Mine(log[i].by, log[i].path, log[i].hash)

OwnInv == fails = 0 => RunsOurs /\ LogOurs

\* What the fetched changes say is settled: later ones are past the cursor.
LEMMA PlanStays ==
  ASSUME NEW l, NEW m, NEW R,
         \A p : /\ LastSeq(m, p, R.upto) = LastSeq(l, p, R.upto)
                /\ HashAt(m, p, R.upto) = HashAt(l, p, R.upto)
  PROVE  /\ Changed(m, R.st, R.upto) = Changed(l, R.st, R.upto)
         /\ \A p : PullAction(m, R.st, R.snap, R.upto, p) = PullAction(l, R.st, R.snap, R.upto, p)
         /\ \A invalid : RunShape(m, R, invalid) = RunShape(l, R, invalid)
<1>1. Changed(m, R.st, R.upto) = Changed(l, R.st, R.upto)
  BY DEF Changed
<1>2. \A p : PullAction(m, R.st, R.snap, R.upto, p) = PullAction(l, R.st, R.snap, R.upto, p)
  BY DEF PullAction
<1>3. \A invalid : RunShape(m, R, invalid) = RunShape(l, R, invalid)
  BY <1>1, <1>2 DEF RunShape
<1> QED BY <1>1, <1>2, <1>3

LEMMA SyncedStays ==
  ASSUME NEW l, NEW m, NEW R,
         \A p : /\ LastSeq(m, p, R.upto) = LastSeq(l, p, R.upto)
                /\ HashAt(m, p, R.upto) = HashAt(l, p, R.upto)
  PROVE  \A invalid, p : SyncedSoFar(m, R, invalid, p) = SyncedSoFar(l, R, invalid, p)
<1>1. Changed(m, R.st, R.upto) = Changed(l, R.st, R.upto)
  BY PlanStays
<1>2. \A p : PullAction(m, R.st, R.snap, R.upto, p) = PullAction(l, R.st, R.snap, R.upto, p)
  BY PlanStays
<1> QED BY <1>1, <1>2 DEF SyncedSoFar

\* A step of r leaves the other processes, their vaults and what they have
\* fetched alone.
OthersStay(r) ==
  /\ UNCHANGED user
  /\ \A q \in Runner \ {r} : run'[q] = run[q]
  /\ \A v \in Vault \ {VaultOf[r]} :
       disk'[v] = disk[v] /\ trash'[v] = trash[v] /\ state'[v] = state[v]
  /\ \A q \in Runner : \A p :
       /\ LastSeq(log', p, run[q].upto) = LastSeq(log, p, run[q].upto)
       /\ HashAt(log', p, run[q].upto) = HashAt(log, p, run[q].upto)

LEMMA OthersStayStep ==
  ASSUME TypeOK, RunBounded, NEW r \in Runner, Step(r) \/ Fail(r)
  PROVE  OthersStay(r)
<1>1. UNCHANGED user
  BY DEF Step, Fail, StartSync, PushEntry, SavePush, FetchPage, ApplyDelete, ApplyWrite,
         ApplyDerived, WriteCopy, ReplaceConflict, Retry, SavePull, SavePush3, FailRename
<1>2. \E R : run' = [run EXCEPT ![r] = R]
  BY DEF Step, Fail, StartSync, PushEntry, SavePush, FetchPage, ApplyDelete, ApplyWrite,
         ApplyDerived, WriteCopy, ReplaceConflict, Retry, SavePull, SavePush3, FailRename, Done
<1>3. \A q \in Runner \ {r} : run'[q] = run[q]
  BY <1>2 DEF TypeOK
<1>4. \/ UNCHANGED state
      \/ \E st : state' = [state EXCEPT ![VaultOf[r]] = st]
  BY DEF Step, Fail, StartSync, PushEntry, SavePush, FetchPage, ApplyDelete, ApplyWrite,
         ApplyDerived, WriteCopy, ReplaceConflict, Retry, SavePull, SavePush3, FailRename
<1>5. /\ disk = disk' \/ \E p, c : disk' = [disk EXCEPT ![VaultOf[r]][p] = c]
      /\ trash = trash' \/ \E c : trash' = [trash EXCEPT ![VaultOf[r]] = c]
  BY DEF Step, Fail, StartSync, PushEntry, SavePush, FetchPage, ApplyDelete, ApplyWrite,
         ApplyDerived, WriteCopy, ReplaceConflict, Retry, SavePull, SavePush3, FailRename,
         files, PutFile, ToTrash
<1>6. \A v \in Vault \ {VaultOf[r]} :
        disk'[v] = disk[v] /\ trash'[v] = trash[v] /\ state'[v] = state[v]
  BY <1>4, <1>5 DEF TypeOK
<1>7. UNCHANGED log \/ \E e \in LogEntry : log' = Append(log, e)
  <2>1. CASE PushEntry(r)
    <3>1. PICK p \in NextToPush(run[r].todo, run[r].snap) :
            \/ UNCHANGED log
            \/ log' = Append(log, [path |-> p, hash |-> run[r].snap[p], by |-> VaultOf[r]])
      BY <2>1 DEF PushEntry
    <3>2. p \in Path /\ run[r].snap[p] \in Hash /\ VaultOf[r] \in Vault
      BY DEF NextToPush, TypeOK, RunState
    <3> QED BY <3>1, <3>2 DEF LogEntry
  <2>2. CASE ~PushEntry(r)
    BY <2>2 DEF Step, Fail, StartSync, SavePush, FetchPage, ApplyDelete, ApplyWrite,
         ApplyDerived, WriteCopy, ReplaceConflict, Retry, SavePull, SavePush3, FailRename
  <2> QED BY <2>1, <2>2
<1>8. ASSUME NEW q \in Runner, NEW p
      PROVE  /\ LastSeq(log', p, run[q].upto) = LastSeq(log, p, run[q].upto)
             /\ HashAt(log', p, run[q].upto) = HashAt(log, p, run[q].upto)
  <2>1. CASE UNCHANGED log
    BY <2>1
  <2>2. ASSUME NEW e \in LogEntry, log' = Append(log, e)
        PROVE  /\ LastSeq(log', p, run[q].upto) = LastSeq(log, p, run[q].upto)
               /\ HashAt(log', p, run[q].upto) = HashAt(log, p, run[q].upto)
    <3>1. IsAppend(log', log, e)
      BY <2>2, AppendIsAppend DEF TypeOK
    <3>2. run[q].upto \in 0..Len(log)
      BY LogLen DEF RunBounded, TypeOK, RunState
    <3> QED BY <3>1, <3>2, AppendKeepsPrefix
  <2> QED BY <1>7, <2>1, <2>2
<1> QED BY <1>1, <1>3, <1>6, <1>8 DEF OthersStay

-----------------------------------------------------------------------------
(* What each step does to its own run and its own folder.                  *)

Folder(r) == disk[VaultOf[r]]
Saved(r)  == state[VaultOf[r]]

\* The plan and what it was made from stay as they are.
PlanKept(r) ==
  /\ run'[r].phase = run[r].phase /\ run'[r].st = run[r].st
  /\ run'[r].snap = run[r].snap /\ run'[r].upto = run[r].upto

LEMMA StartEffect ==
  ASSUME TypeOK, NEW r \in Runner, StartSync(r)
  PROVE  /\ run'[r].phase = "push" /\ run'[r].st = Saved(r) /\ run'[r].snap = Scan(r)
         /\ run'[r].copied = {} /\ run'[r].retried = {}
         /\ UNCHANGED <<log, files, state, fails>>
<1> DEFINE R == [IdleRun EXCEPT !.phase = "push", !.st = state[VaultOf[r]], !.snap = Scan(r),
                                !.todo = PlanPush(state[VaultOf[r]], Scan(r)),
                                !.upto = state[VaultOf[r]].cursor]
<1>1. run' = [run EXCEPT ![r] = R]
  BY DEF StartSync
<1>2. /\ R.phase = "push" /\ R.st = state[VaultOf[r]] /\ R.snap = Scan(r)
      /\ R.copied = {} /\ R.retried = {}
  BY DEF IdleRun
<1> HIDE DEF R
<1>3. run'[r] = R
  BY <1>1 DEF TypeOK
<1> QED BY <1>2, <1>3 DEF StartSync, Saved

LEMMA PushEffect ==
  ASSUME TypeOK, NEW r \in Runner, PushEntry(r)
  PROVE  /\ run'[r].phase = run[r].phase /\ run'[r].snap = run[r].snap
         /\ run'[r].copied = run[r].copied /\ run'[r].retried = run[r].retried
         /\ run[r].phase \in {"push", "push3"}
         /\ UNCHANGED <<files, state, fails>>
         /\ \E p \in Path :
              LET new == run[r].snap[p]
                  out == PushOutcome(log, p, run[r].st.files[p], new)
              IN  /\ log' = IF out = "advance"
                            THEN Append(log, [path |-> p, hash |-> new, by |-> VaultOf[r]])
                            ELSE log
                  /\ run'[r].st = AfterPush(run[r].st, p, new, out)
<1>1. PICK p \in NextToPush(run[r].todo, run[r].snap) :
        LET new == run[r].snap[p]
            out == PushOutcome(log, p, run[r].st.files[p], new)
        IN  /\ log' = IF out = "advance"
                      THEN Append(log, [path |-> p, hash |-> new, by |-> VaultOf[r]])
                      ELSE log
            /\ run' = [run EXCEPT ![r].todo = @ \ {p},
                                  ![r].st   = AfterPush(@, p, new, out)]
            /\ run[r].phase \in {"push", "push3"}
            /\ UNCHANGED <<files, state, fails>>
  BY DEF PushEntry
<1> DEFINE out == PushOutcome(log, p, run[r].st.files[p], run[r].snap[p])
           st  == AfterPush(run[r].st, p, run[r].snap[p], out)
           X   == run[r].todo \ {p}
           R   == [run[r] EXCEPT !.todo = X, !.st = st]
<1>2. run' = [run EXCEPT ![r] = R]
  BY <1>1
<1>3. p \in Path /\ run[r] \in RunState
  BY DEF NextToPush, TypeOK, RunState
<1> HIDE DEF st, X
<1>4. /\ R.st = st /\ R.snap = run[r].snap /\ R.phase = run[r].phase
      /\ R.copied = run[r].copied /\ R.retried = run[r].retried
  BY <1>3 DEF RunState
<1> HIDE DEF R
<1>5. run'[r] = R
  BY <1>2 DEF TypeOK
<1>6. /\ log' = IF out = "advance"
                THEN Append(log, [path |-> p, hash |-> run[r].snap[p], by |-> VaultOf[r]])
                ELSE log
      /\ run'[r].st = AfterPush(run[r].st, p, run[r].snap[p], out)
  BY <1>1, <1>4, <1>5 DEF st
<1> QED BY <1>1, <1>3, <1>4, <1>5, <1>6

LEMMA SavePushEffect ==
  ASSUME TypeOK, NEW r \in Runner, SavePush(r)
  PROVE  /\ run[r].phase = "push" /\ run'[r].phase = "fetch"
         /\ run'[r].st = run[r].st /\ run'[r].snap = run[r].snap
         /\ run'[r].copied = run[r].copied /\ run'[r].retried = run[r].retried
         /\ Saved(r)' = run[r].st
         /\ UNCHANGED <<log, files, fails>>
<1> DEFINE R == [run[r] EXCEPT !.phase = "fetch"]
<1>1. run' = [run EXCEPT ![r] = R]
  BY DEF SavePush
<1>2. /\ R.phase = "fetch" /\ R.st = run[r].st /\ R.snap = run[r].snap
      /\ R.copied = run[r].copied /\ R.retried = run[r].retried
  BY DEF TypeOK, RunState
<1> HIDE DEF R
<1>3. run'[r] = R
  BY <1>1 DEF TypeOK
<1> QED BY <1>2, <1>3 DEF SavePush, Saved, TypeOK

LEMMA FetchEffect ==
  ASSUME TypeOK, NEW r \in Runner, FetchPage(r)
  PROVE  /\ run[r].phase = "fetch" /\ run'[r].phase \in {"fetch", "apply"}
         /\ run'[r].st = run[r].st /\ run'[r].snap = run[r].snap
         /\ run'[r].copied = run[r].copied /\ run'[r].retried = run[r].retried
         /\ run'[r].phase = "apply" =>
              run'[r].todo =
                {p \in Changed(log, run'[r].st, run'[r].upto) :
                   PullAction(log, run'[r].st, run'[r].snap, run'[r].upto, p) # "noop"}
         /\ UNCHANGED <<log, files, state, fails>>
<1> DEFINE end == PageEnd(log, run[r].upto, PageSize)
           h == IF end = Len(log) THEN "apply" ELSE run[r].phase
           X == IF end = Len(log)
                THEN {p \in Changed(log, run[r].st, end) :
                        PullAction(log, run[r].st, run[r].snap, end, p) # "noop"}
                ELSE run[r].todo
           R == [run[r] EXCEPT !.upto = end, !.phase = h, !.todo = X]
<1>1. run' = [run EXCEPT ![r] = R] /\ run[r].phase = "fetch"
  BY DEF FetchPage
<1> HIDE DEF end
<1>2. h = "apply" => end = Len(log)
  BY <1>1
<1>3. h \in {"fetch", "apply"}
  BY <1>1
<1>4. h = "apply" => X = {p \in Changed(log, run[r].st, end) :
                            PullAction(log, run[r].st, run[r].snap, end, p) # "noop"}
  BY <1>2
<1> HIDE DEF h, X
<1>5. /\ R.phase = h /\ R.st = run[r].st /\ R.snap = run[r].snap /\ R.upto = end
      /\ R.copied = run[r].copied /\ R.retried = run[r].retried /\ R.todo = X
  BY DEF TypeOK, RunState
<1> HIDE DEF R
<1>6. run'[r] = R
  BY <1>1 DEF TypeOK
<1>7. run'[r].phase = h /\ run'[r].st = run[r].st /\ run'[r].snap = run[r].snap
      /\ run'[r].upto = end /\ run'[r].todo = X
      /\ run'[r].copied = run[r].copied /\ run'[r].retried = run[r].retried
  BY <1>5, <1>6
<1>8. UNCHANGED <<log, files, state, fails>>
  BY DEF FetchPage
<1> QED BY <1>1, <1>3, <1>4, <1>7, <1>8

\* Marking p as done.
LEMMA DoneEffect ==
  ASSUME TypeOK, NEW r \in Runner, NEW p, Done(r, p)
  PROVE  /\ PlanKept(r) /\ run'[r].todo = run[r].todo \ {p}
         /\ run'[r].copied = run[r].copied /\ run'[r].retried = run[r].retried
<1> DEFINE X == run[r].todo \ {p}
           R == [run[r] EXCEPT !.todo = X]
<1>1. run' = [run EXCEPT ![r] = R]
  BY DEF Done
<1> HIDE DEF X
<1>2. /\ R.phase = run[r].phase /\ R.st = run[r].st /\ R.snap = run[r].snap
      /\ R.upto = run[r].upto /\ R.todo = X
      /\ R.copied = run[r].copied /\ R.retried = run[r].retried
  BY DEF TypeOK, RunState
<1> HIDE DEF R
<1>3. run'[r] = R
  BY <1>1 DEF TypeOK
<1> QED BY <1>2, <1>3 DEF PlanKept, X

LEMMA CopyEffect ==
  ASSUME TypeOK, NEW r \in Runner, NEW p \in Path,
         run' = [run EXCEPT ![r].copied = @ \cup {p}]
  PROVE  /\ PlanKept(r) /\ run'[r].todo = run[r].todo
         /\ run'[r].copied = run[r].copied \cup {p} /\ run'[r].retried = run[r].retried
<1> DEFINE X == run[r].copied \cup {p}
           R == [run[r] EXCEPT !.copied = X]
<1>1. run' = [run EXCEPT ![r] = R]
  OBVIOUS
<1> HIDE DEF X
<1>2. /\ R.phase = run[r].phase /\ R.st = run[r].st /\ R.snap = run[r].snap
      /\ R.upto = run[r].upto /\ R.todo = run[r].todo
      /\ R.copied = X /\ R.retried = run[r].retried
  BY DEF TypeOK, RunState
<1> HIDE DEF R
<1>3. run'[r] = R
  BY <1>1 DEF TypeOK
<1> QED BY <1>2, <1>3 DEF PlanKept, X

LEMMA RetryEffect ==
  ASSUME TypeOK, NEW r \in Runner, NEW p \in Path,
         run' = [run EXCEPT ![r].retried = @ \cup {p}]
  PROVE  /\ PlanKept(r) /\ run'[r].todo = run[r].todo
         /\ run'[r].copied = run[r].copied /\ run'[r].retried = run[r].retried \cup {p}
<1> DEFINE X == run[r].retried \cup {p}
           R == [run[r] EXCEPT !.retried = X]
<1>1. run' = [run EXCEPT ![r] = R]
  OBVIOUS
<1> HIDE DEF X
<1>2. /\ R.phase = run[r].phase /\ R.st = run[r].st /\ R.snap = run[r].snap
      /\ R.upto = run[r].upto /\ R.todo = run[r].todo
      /\ R.copied = run[r].copied /\ R.retried = X
  BY DEF TypeOK, RunState
<1> HIDE DEF R
<1>3. run'[r] = R
  BY <1>1 DEF TypeOK
<1> QED BY <1>2, <1>3 DEF PlanKept, X

LEMMA SavePullEffect ==
  ASSUME TypeOK, NEW r \in Runner, SavePull(r)
  PROVE  /\ run[r].phase = "apply" /\ run[r].todo = {}
         /\ Saved(r)' = AfterPull(r)
         /\ fails' = 0 => fails = 0
         /\ UNCHANGED <<log, files>>
         /\ \/ run'[r] = IdleRun
            \/ /\ run'[r].phase = "push3" /\ run'[r].st = AfterPull(r)
               /\ run'[r].snap = Scan(r)
               /\ run'[r].copied = {} /\ run'[r].retried = {}
<1> DEFINE st == AfterPull(r)
           P3 == [IdleRun EXCEPT !.phase = "push3", !.st = st,
                                 !.snap = Scan(r), !.todo = PlanPush(st, Scan(r)),
                                 !.upto = st.cursor]
           R  == IF run[r].copied = {} \/ PlanPush(st, Scan(r)) = {} THEN IdleRun ELSE P3
<1>1. run' = [run EXCEPT ![r] = R] /\ state' = [state EXCEPT ![VaultOf[r]] = st]
  BY DEF SavePull
<1> HIDE DEF st
<1>2. /\ P3.phase = "push3" /\ P3.st = st /\ P3.snap = Scan(r)
      /\ P3.copied = {} /\ P3.retried = {}
  BY DEF IdleRun
<1>3. R = IdleRun \/ R = P3
  OBVIOUS
<1> HIDE DEF P3, R
<1>4. run'[r] = R /\ state'[VaultOf[r]] = st
  BY <1>1 DEF TypeOK
<1>5. fails' = 0 => fails = 0
  BY DEF SavePull, TypeOK
<1> QED BY <1>2, <1>3, <1>4, <1>5 DEF SavePull, Saved, st

LEMMA EndEffect ==
  ASSUME TypeOK, NEW r \in Runner, SavePush3(r) \/ Fail(r) \/ FailRename(r)
  PROVE  /\ run'[r] = IdleRun /\ UNCHANGED <<log, files>>
         /\ \/ /\ run[r].phase = "push3" /\ Saved(r)' = run[r].st /\ UNCHANGED fails
            \/ UNCHANGED state /\ fails' # 0
<1>1. run' = [run EXCEPT ![r] = IdleRun]
  BY DEF SavePush3, Fail, FailRename
<1>2. CASE SavePush3(r)
  BY <1>1, <1>2 DEF SavePush3, Saved, TypeOK
<1>3. CASE Fail(r) \/ FailRename(r)
  BY <1>1, <1>3 DEF Fail, FailRename, TypeOK
<1> QED BY <1>2, <1>3

LEMMA ScanIsFolder ==
  ASSUME TypeOK, NEW r \in Runner, ShapeOf(r)
  PROVE  Scan(r) = Folder(r)
<1>1. Folder(r) \in [Path -> Hash]
  BY DEF TypeOK, Folder
<1>2. \A p \in Path : Scan(r)[p] = Folder(r)[p]
  BY DEF Scan, Folder, ShapeOf
<1> QED BY <1>1, <1>2, ScanType

\* One action of the plan is carried out, at p.
AppliedAt(r, p) ==
  /\ Turn(r, p)
  /\ p \in run[r].todo /\ p \in Path /\ run[r].phase = "apply"
  /\ PlanKept(r) /\ run'[r].todo = run[r].todo \ {p}
  /\ run'[r].copied = run[r].copied /\ run'[r].retried = run[r].retried
  /\ \A q \in Path \ {p} : Folder(r)'[q] = Folder(r)[q]
  /\ IF p \in Invalid(r) /\ Planned(r, p) = "write"
     THEN UNCHANGED disk
     ELSE Folder(r)'[p] = Remote(r, p)
  /\ UNCHANGED <<log, state, fails>>

LEMMA PutEffect ==
  ASSUME TypeOK, NEW r \in Runner, NEW p \in Path, NEW c, PutFile(VaultOf[r], p, c)
  PROVE  Folder(r)'[p] = c /\ \A q \in Path \ {p} : Folder(r)'[q] = Folder(r)[q]
BY DEF TypeOK, PutFile, Folder

LEMMA TrashEffect ==
  ASSUME TypeOK, NEW r \in Runner, NEW p \in Path, ToTrash(VaultOf[r], p)
  PROVE  Folder(r)'[p] = Null /\ \A q \in Path \ {p} : Folder(r)'[q] = Folder(r)[q]
BY DEF TypeOK, ToTrash, Folder

LEMMA AppliedEffect ==
  ASSUME TypeOK, NEW r \in Runner, ShapeOf(r),
         ApplyDelete(r) \/ ApplyWrite(r) \/ ApplyDerived(r) \/ ReplaceConflict(r)
  PROVE  \E p \in Path : AppliedAt(r, p)
<1>1. PICK p \in Path : 
        /\ Turn(r, p) /\ Done(r, p) /\ UNCHANGED <<log, state, fails>>
        /\ \/ Planned(r, p) = "delete" /\ ToTrash(VaultOf[r], p)
           \/ /\ Planned(r, p) = "write"
              /\ IF p \in Invalid(r) THEN UNCHANGED <<disk, seen>>
                 ELSE PutFile(VaultOf[r], p, Remote(r, p))
           \/ /\ Planned(r, p) = "conflict" \/ p \in run[r].copied
              /\ IF Remote(r, p) # Null THEN PutFile(VaultOf[r], p, Remote(r, p))
                 ELSE ToTrash(VaultOf[r], p)
  BY DEF ApplyDelete, ApplyWrite, ApplyDerived, ReplaceConflict
<1>2. /\ p \in run[r].todo /\ run[r].phase = "apply"
      /\ PlanKept(r) /\ run'[r].todo = run[r].todo \ {p}
      /\ run'[r].copied = run[r].copied /\ run'[r].retried = run[r].retried
  BY <1>1, DoneEffect DEF Turn
<1>3. p \in run[r].copied => Planned(r, p) = "conflict"
  BY <1>2 DEF ShapeOf, RunShape, Planned
<1>4. Planned(r, p) = "delete" => Remote(r, p) = Null
  BY DEF Planned, PullAction, Remote
<1>5. CASE p \in Invalid(r) /\ Planned(r, p) = "write"
  <2>1. UNCHANGED disk
    BY <1>1, <1>3, <1>5
  <2>2. \A q \in Path \ {p} : Folder(r)'[q] = Folder(r)[q]
    BY <2>1 DEF Folder
  <2> QED BY <1>1, <1>2, <1>5, <2>1, <2>2 DEF AppliedAt
<1>6. CASE ~(p \in Invalid(r) /\ Planned(r, p) = "write")
  <2>1. \/ PutFile(VaultOf[r], p, Remote(r, p))
        \/ Remote(r, p) = Null /\ ToTrash(VaultOf[r], p)
    BY <1>1, <1>4, <1>6
  <2>2. Folder(r)'[p] = Remote(r, p) /\ \A q \in Path \ {p} : Folder(r)'[q] = Folder(r)[q]
    BY <2>1, PutEffect, TrashEffect
  <2> QED BY <1>1, <1>2, <1>6, <2>2 DEF AppliedAt
<1> QED BY <1>5, <1>6

\* A conflict's bytes are kept: at its copy, if they are not already in one.
CopiedAt(r, p) ==
  LET bytes == CopyBytes(r, p)
      taken == Existing(log, run[r].st, run[r].snap, run[r].upto)
  IN  /\ Turn(r, p) /\ Planned(r, p) = "conflict" /\ p \notin run[r].copied
      /\ PlanKept(r) /\ run'[r].todo = run[r].todo
      /\ run'[r].copied = run[r].copied \cup {p} /\ run'[r].retried = run[r].retried
      /\ UNCHANGED <<log, trash, state, fails>>
      /\ \/ IdenticalCopies(r, p, bytes) # {} /\ UNCHANGED disk
         \/ \E n \in FreeNumbers(p, AuthorOf[r], taken) :
              LET copy == CopyName[<<p, AuthorOf[r], n>>]
              IN  /\ copy \in Path \ (taken \cup {p} \cup Invalid(r))
                  /\ Folder(r)'[copy] = bytes
                  /\ \A q \in Path \ {copy} : Folder(r)'[q] = Folder(r)[q]

LEMMA FirstFree ==
  ASSUME NEW p, NEW author, NEW existing, FreeNumbers(p, author, existing) # {}
  PROVE  \E n \in FreeNumbers(p, author, existing) :
           ConflictCopyPath(p, author, existing) = CopyName[<<p, author, n>>]
<1> DEFINE free == FreeNumbers(p, author, existing)
           n    == CHOOSE m \in free : \A k \in free : m <= k
<1>1. free \subseteq Nat
  BY DEF FreeNumbers, Numbers
<1>2. \E m \in free : \A k \in free : m <= k
  <2> HIDE DEF free
  <2> QED BY <1>1, NatMin DEF free
<1>3. n \in free
  <2> HIDE DEF free
  <2> QED BY <1>2
<1> QED BY <1>3 DEF ConflictCopyPath

LEMMA WriteCopyEffect ==
  ASSUME TypeOK, NEW r \in Runner, ShapeOf(r), WriteCopy(r)
  PROVE  \E p \in Path : CopiedAt(r, p)
<1>1. PICK p \in Path :
        LET bytes == CopyBytes(r, p)
            taken == Existing(log, run[r].st, run[r].snap, run[r].upto)
        IN  /\ Turn(r, p) /\ Planned(r, p) = "conflict"
            /\ p \notin run[r].copied
            /\ FreeNumbers(p, AuthorOf[r], taken) # {}
            /\ \E copy \in Path :
                 /\ copy = ConflictCopyPath(p, AuthorOf[r], taken)
                 /\ IF IdenticalCopies(r, p, bytes) # {}
                    THEN UNCHANGED <<disk, seen>>
                    ELSE PutFile(VaultOf[r], copy, bytes)
            /\ run' = [run EXCEPT ![r].copied = @ \cup {p}]
            /\ UNCHANGED <<log, trash, state, fails, user>>
  BY DEF WriteCopy
<1> DEFINE bytes == CopyBytes(r, p)
           taken == Existing(log, run[r].st, run[r].snap, run[r].upto)
<1>2. /\ PlanKept(r) /\ run'[r].todo = run[r].todo
      /\ run'[r].copied = run[r].copied \cup {p} /\ run'[r].retried = run[r].retried
  BY <1>1, CopyEffect
<1>3. p \notin Invalid(r)
  <2>1. run[r].snap[p] # Null
    BY <1>1 DEF Planned, PullAction
  <2> QED BY <2>1 DEF ShapeOf, RunShape
<1>4. CASE IdenticalCopies(r, p, bytes) # {}
  BY <1>1, <1>2, <1>4 DEF CopiedAt
<1>5. CASE IdenticalCopies(r, p, bytes) = {}
  <2>1. PICK n \in FreeNumbers(p, AuthorOf[r], taken) :
          ConflictCopyPath(p, AuthorOf[r], taken) = CopyName[<<p, AuthorOf[r], n>>]
    BY <1>1, FirstFree
  <2> DEFINE copy == CopyName[<<p, AuthorOf[r], n>>]
  <2>2. PutFile(VaultOf[r], copy, bytes)
    BY <1>1, <1>5, <2>1
  <2>3. AuthorOf[r] \in Author /\ n \in Numbers(p, AuthorOf[r]) /\ copy \notin taken
    BY DEF FreeNumbers
  <2>4. copy \in Path \ {p}
    BY <2>3, CopyAssumption
  <2>5. copy \notin Invalid(r)
    BY <1>3, <2>3, CopyValidAssumption DEF Invalid
  <2> HIDE DEF copy, bytes, taken
  <2>6. Folder(r)'[copy] = bytes /\ \A q \in Path \ {copy} : Folder(r)'[q] = Folder(r)[q]
    BY <2>2, <2>4, PutEffect
  <2> QED BY <1>1, <1>2, <2>3, <2>4, <2>5, <2>6 DEF CopiedAt, copy, bytes, taken
<1> QED BY <1>4, <1>5

\* A skipped path is downloaded after all, at p.
RetriedAt(r, p) ==
  /\ p \in RetryPath(r) \ run[r].retried
  /\ run[r].phase = "apply" /\ run[r].todo = {}
  /\ PlanKept(r) /\ run'[r].todo = run[r].todo
  /\ run'[r].copied = run[r].copied /\ run'[r].retried = run[r].retried \cup {p}
  /\ UNCHANGED <<log, trash, state, fails>>
  /\ Folder(r)'[p] = run[r].st.skipped[p]
  /\ \A q \in Path \ {p} : Folder(r)'[q] = Folder(r)[q]

LEMMA RetriedEffect ==
  ASSUME TypeOK, NEW r \in Runner, Retry(r)
  PROVE  \E p \in Path : RetriedAt(r, p)
<1>1. PICK p \in RetryPath(r) \ run[r].retried :
        /\ run[r].phase = "apply" /\ run[r].todo = {}
        /\ PutFile(VaultOf[r], p, run[r].st.skipped[p])
        /\ run' = [run EXCEPT ![r].retried = @ \cup {p}]
        /\ UNCHANGED <<log, trash, state, fails>>
  BY DEF Retry
<1>2. p \in Path
  BY DEF RetryPath
<1>3. /\ Folder(r)'[p] = run[r].st.skipped[p]
      /\ \A q \in Path \ {p} : Folder(r)'[q] = Folder(r)[q]
  BY <1>1, <1>2, PutEffect
<1>4. /\ PlanKept(r) /\ run'[r].todo = run[r].todo
      /\ run'[r].copied = run[r].copied /\ run'[r].retried = run[r].retried \cup {p}
  BY <1>1, <1>2, RetryEffect
<1> QED BY <1>1, <1>2, <1>3, <1>4 DEF RetriedAt

LEMMA IdleShape == ASSUME NEW l, NEW invalid, invalid \subseteq Path PROVE RunShape(l, IdleRun, invalid)
BY DEF RunShape, IdleRun, NothingAt

LEMMA OwnShape ==
  ASSUME TypeOK, RunBounded, NEW r \in Runner, ShapeOf(r), Step(r) \/ Fail(r)
  PROVE  ShapeOf(r)'
<1>0. /\ Invalid(r)' = Invalid(r) /\ Invalid(r) \subseteq Path
      /\ \A p \in Invalid(r) : Folder(r)[p] = Null
      /\ RunShape(log, run[r], Invalid(r))
  <2>1. UNCHANGED user
    BY OthersStayStep DEF OthersStay
  <2> QED BY <2>1 DEF user, Invalid, ShapeOf, Folder
<1> SUFFICES /\ \A p \in Invalid(r) : Folder(r)'[p] = Null
             /\ RunShape(log', run'[r], Invalid(r))
  BY <1>0 DEF ShapeOf, Folder
<1>1. ASSUME UNCHANGED files PROVE \A p \in Invalid(r) : Folder(r)'[p] = Null
  BY <1>0, <1>1 DEF files, Folder
<1>2. CASE StartSync(r)
  <2>1. \A p \in Invalid(r) : Scan(r)[p] = Null
    BY <1>0 DEF Scan
  <2>2. RunShape(log', run'[r], Invalid(r))
    BY <1>2, <2>1, StartEffect DEF RunShape
  <2> QED BY <1>1, <1>2, <2>2, StartEffect
<1>3. CASE PushEntry(r)
  <2>1. RunShape(log', run'[r], Invalid(r))
    BY <1>0, <1>3, PushEffect DEF RunShape
  <2> QED BY <1>1, <1>3, <2>1, PushEffect
<1>4. CASE SavePush(r)
  <2>1. RunShape(log', run'[r], Invalid(r))
    BY <1>0, <1>4, SavePushEffect DEF RunShape
  <2> QED BY <1>1, <1>4, <2>1, SavePushEffect
<1>5. CASE FetchPage(r)
  <2>1. RunShape(log', run'[r], Invalid(r))
    BY <1>0, <1>5, FetchEffect DEF RunShape
  <2> QED BY <1>1, <1>5, <2>1, FetchEffect
<1>6. CASE ApplyDelete(r) \/ ApplyWrite(r) \/ ApplyDerived(r) \/ ReplaceConflict(r)
  <2>1. PICK p \in Path : AppliedAt(r, p)
    BY <1>6, AppliedEffect
  <2>2. RunShape(log', run'[r], Invalid(r))
    BY <1>0, <2>1 DEF AppliedAt, PlanKept, RunShape
  <2>3. ASSUME p \in Invalid(r), Planned(r, p) # "write" PROVE Remote(r, p) = Null
    BY <1>0, <2>3 DEF RunShape, Planned, PullAction, Remote
  <2>4. ASSUME NEW q \in Invalid(r) PROVE Folder(r)'[q] = Null
    <3>1. CASE q # p
      BY <1>0, <2>1, <3>1 DEF AppliedAt
    <3>2. CASE q = p /\ Planned(r, p) = "write"
      BY <1>0, <2>1, <3>2 DEF AppliedAt, Folder
    <3>3. CASE q = p /\ Planned(r, p) # "write"
      BY <1>0, <2>1, <2>3, <3>3 DEF AppliedAt
    <3> QED BY <3>1, <3>2, <3>3
  <2> QED BY <2>2, <2>4
<1>7. CASE WriteCopy(r)
  <2>1. PICK p \in Path : CopiedAt(r, p)
    BY <1>7, WriteCopyEffect
  <2>2. RunShape(log', run'[r], Invalid(r))
    BY <1>0, <2>1 DEF CopiedAt, PlanKept, RunShape, Planned, Turn
  <2>3. ASSUME NEW q \in Invalid(r) PROVE Folder(r)'[q] = Null
    <3>1. q \in Path /\ Folder(r)[q] = Null
      BY <1>0
    <3> QED BY <2>1, <3>1 DEF CopiedAt, Folder
  <2> QED BY <2>2, <2>3
<1>8. CASE Retry(r)
  <2>1. PICK p \in Path : RetriedAt(r, p)
    BY <1>8, RetriedEffect
  <2>2. RunShape(log', run'[r], Invalid(r))
    BY <1>0, <2>1 DEF RetriedAt, PlanKept, RunShape, RetryPath
  <2>3. ASSUME NEW q \in Invalid(r) PROVE Folder(r)'[q] = Null
    BY <1>0, <2>1 DEF RetriedAt, RetryPath
  <2> QED BY <2>2, <2>3
<1>9. CASE SavePull(r)
  <2>1. \A p \in Invalid(r) : Scan(r)[p] = Null
    BY <1>0 DEF Scan
  <2>2. RunShape(log', run'[r], Invalid(r))
    <3>1. \/ run'[r] = IdleRun
          \/ /\ run'[r].phase = "push3" /\ run'[r].snap = Scan(r)
             /\ run'[r].copied = {} /\ run'[r].retried = {}
      BY <1>9, SavePullEffect
    <3>2. CASE run'[r] = IdleRun
      BY <1>0, <3>2, IdleShape
    <3>3. CASE run'[r] # IdleRun
      BY <2>1, <3>1, <3>3 DEF RunShape
    <3> QED BY <3>2, <3>3
  <2> QED BY <1>1, <1>9, <2>2, SavePullEffect
<1>10. CASE SavePush3(r) \/ Fail(r) \/ FailRename(r)
  BY <1>0, <1>1, <1>10, EndEffect, IdleShape
<1> QED BY <1>2, <1>3, <1>4, <1>5, <1>6, <1>7, <1>8, <1>9, <1>10 DEF Step

LEMMA InitShape == Init => ShapeInv
BY IdleShape DEF Init, ShapeInv, ShapeOf, Invalid, NothingAt

LEMMA NextShape ==
  ASSUME OneOnWindows, IInv, ShapeInv, [Next]_vars
  PROVE  ShapeInv'
<1>0. TypeOK /\ RunBounded
  BY DEF IInv
<1>1. ASSUME NEW r \in Runner, Step(r) \/ Fail(r), NEW q \in Runner
      PROVE  ShapeOf(q)'
  <2>1. CASE q = r
    BY <1>0, <1>1, <2>1, OwnShape DEF ShapeInv
  <2>2. CASE q # r
    <3>1. OthersStay(r)
      BY <1>0, <1>1, OthersStayStep
    <3>2. run'[q] = run[q] /\ Invalid(q)' = Invalid(q)
      BY <2>2, <3>1 DEF OthersStay, user, Invalid
    <3>a. \A p \in Invalid(q) : disk'[VaultOf[q]][p] = disk[VaultOf[q]][p]
      <4>1. CASE InvalidPath[q] = {}
        BY <4>1 DEF Invalid
      <4>2. CASE InvalidPath[q] # {}
        <5>1. VaultOf[q] # VaultOf[r]
          BY <2>2, <4>2 DEF OneOnWindows
        <5> QED BY <3>1, <5>1 DEF OthersStay
      <4> QED BY <4>1, <4>2
    <3>3. RunShape(log', run[q], Invalid(q)) = RunShape(log, run[q], Invalid(q))
      <4>1. \A p : /\ LastSeq(log', p, run[q].upto) = LastSeq(log, p, run[q].upto)
                   /\ HashAt(log', p, run[q].upto) = HashAt(log, p, run[q].upto)
        BY <3>1 DEF OthersStay
      <4> QED BY <4>1, PlanStays
    <3> QED BY <3>2, <3>3, <3>a DEF ShapeOf, ShapeInv
  <2> QED BY <2>1, <2>2
<1>2. ASSUME NEW v \in Vault, UserStep(v), NEW q \in Runner
      PROVE  ShapeOf(q)'
  <2>1. PICK p, c : p \in Path /\ disk' = [disk EXCEPT ![v][p] = c] /\ (VaultOf[q] = v /\ p \in Invalid(q) => c = Null)
    BY <1>2 DEF UserStep, Edit, Delete, PutFile
  <2>2. UNCHANGED <<log, run, moved>>
    BY <1>2 DEF UserStep, Edit, Delete
  <2>3. Invalid(q)' = Invalid(q) /\ Invalid(q) \subseteq Path
    BY <2>2 DEF Invalid
  <2>4. ASSUME NEW x \in Invalid(q) PROVE disk'[VaultOf[q]][x] = Null
    BY <1>0, <2>1, <2>3 DEF TypeOK, ShapeInv, ShapeOf
  <2> QED BY <2>2, <2>3, <2>4 DEF ShapeInv, ShapeOf
<1>3. ASSUME NEW r \in Runner, Move(r), NEW q \in Runner
      PROVE  ShapeOf(q)'
  <2>1. UNCHANGED <<log, run, disk>> /\ Invalid(q)' \subseteq Invalid(q)
    BY <1>3 DEF Move, files, Invalid
  <2> QED BY <2>1 DEF ShapeInv, ShapeOf, RunShape
<1>4. CASE UNCHANGED vars
  BY <1>4 DEF vars, ShapeInv, ShapeOf, Invalid
<1> QED BY <1>1, <1>2, <1>3, <1>4 DEF Next, ShapeInv

LEMMA OursChain ==
  ASSUME NEW v, NEW p, NEW a, NEW b, NEW c, Ours(v, p, a, b), Ours(v, p, b, c)
  PROVE  Ours(v, p, a, c)
BY DEF Ours

\* When the plan is carried out, what is saved is what SyncedSoFar says.
LEMMA SyncedInTheEnd ==
  ASSUME TypeOK, NEW r \in Runner, run[r].todo = {}, NEW p \in Path
  PROVE  AfterPull(r).files[p] = SyncedSoFar(log, run[r], Invalid(r), p)
<1>1. p \in SkippedNames(r) <=>
        /\ p \in Changed(log, run[r].st, run[r].upto) /\ p \in Invalid(r)
        /\ PullAction(log, run[r].st, run[r].snap, run[r].upto, p) = "write"
  BY DEF SkippedNames, Planned
<1>2. AfterPull(r).files[p] =
        IF p \in Changed(log, run[r].st, run[r].upto) \ SkippedNames(r) THEN Remote(r, p)
        ELSE IF p \in run[r].retried THEN run[r].st.skipped[p]
        ELSE run[r].st.files[p]
  BY DEF AfterPull
<1> QED BY <1>1, <1>2 DEF SyncedSoFar, Remote

\* OursRun, phase by phase.
LEMMA OursPhases ==
  ASSUME NEW v, NEW l, NEW R \in RunState, NEW invalid
  PROVE  /\ R.phase = "idle" =>
              (OursRun(v, l, R, invalid) <=>
                 \A p \in Path : Ours(v, p, disk[v][p], state[v].files[p]))
         /\ R.phase = "apply" =>
              (OursRun(v, l, R, invalid) <=>
                 \A p \in Path : Ours(v, p, disk[v][p], SyncedSoFar(l, R, invalid, p)))
         /\ R.phase \in {"push", "fetch", "push3"} =>
              (OursRun(v, l, R, invalid) <=>
                 \A p \in Path : /\ Ours(v, p, R.snap[p], R.st.files[p])
                                 /\ Ours(v, p, disk[v][p], R.snap[p]))
BY DEF OursRun

\* The same after a step that leaves what users did alone.
LEMMA OursStays ==
  ASSUME UNCHANGED <<removed, used>>
  PROVE  \A v, p, c, s : Ours(v, p, c, s)' <=> Ours(v, p, c, s)
BY DEF Ours, Mine

LEMMA OursRunStep ==
  ASSUME TypeOK, TypeOK', RunBounded, NEW r \in Runner, ShapeOf(r), Step(r) \/ Fail(r),
         fails' = 0, OursRun(VaultOf[r], log, run[r], Invalid(r))
  PROVE  OursRun(VaultOf[r], log, run[r], Invalid(r))'
<1> DEFINE v == VaultOf[r]
           N(p) == SyncedSoFar(log', run'[r], Invalid(r), p)
<1>0. /\ UNCHANGED <<removed, used>> /\ Invalid(r)' = Invalid(r)
      /\ run[r] \in RunState /\ run'[r] \in RunState
      /\ RunShape(log, run[r], Invalid(r))
  BY OthersStayStep DEF OthersStay, user, Invalid, ShapeOf, TypeOK
<1>1. /\ run[r].phase = "idle" =>
           \A p \in Path : Ours(v, p, Folder(r)[p], Saved(r).files[p])
      /\ run[r].phase = "apply" =>
           \A p \in Path : Ours(v, p, Folder(r)[p], SyncedSoFar(log, run[r], Invalid(r), p))
      /\ run[r].phase \in {"push", "fetch", "push3"} =>
           \A p \in Path : /\ Ours(v, p, run[r].snap[p], run[r].st.files[p])
                           /\ Ours(v, p, Folder(r)[p], run[r].snap[p])
  BY <1>0, OursPhases DEF Folder, Saved
<1>2. SUFFICES
        /\ run'[r].phase = "idle" =>
             \A p \in Path : Ours(v, p, Folder(r)'[p], Saved(r)'.files[p])
        /\ run'[r].phase = "apply" =>
             \A p \in Path : Ours(v, p, Folder(r)'[p], N(p))
        /\ run'[r].phase \in {"push", "fetch", "push3"} =>
             \A p \in Path : /\ Ours(v, p, run'[r].snap[p], run'[r].st.files[p])
                             /\ Ours(v, p, Folder(r)'[p], run'[r].snap[p])
  <2>1. \A p, c, s : Ours(v, p, c, s)' <=> Ours(v, p, c, s)
    BY <1>0, OursStays
  <2>2. run'[r].phase \in {"idle", "apply", "push", "fetch", "push3"}
    BY <1>0 DEF RunState
  <2>3. /\ disk'[v] = Folder(r)' /\ state'[v] = Saved(r)'
    BY DEF Folder, Saved
  <2> HIDE DEF N
  <2>4. \A p : SyncedSoFar(log, run[r], Invalid(r), p)' = N(p)
    BY <1>0 DEF N, SyncedSoFar
  <2>5. CASE run'[r].phase = "idle"
    BY <1>2, <2>1, <2>3, <2>5 DEF OursRun
  <2>6. CASE run'[r].phase = "apply"
    BY <1>2, <2>1, <2>3, <2>4, <2>6 DEF OursRun
  <2>7. CASE run'[r].phase \in {"push", "fetch", "push3"}
    BY <1>2, <2>1, <2>3, <2>7 DEF OursRun
  <2> QED BY <2>2, <2>5, <2>6, <2>7
<1> HIDE DEF N
<1>3. \A p, a : Ours(v, p, a, a)
  BY DEF Ours
<1>4. CASE StartSync(r)
  <2>1. Scan(r) = Folder(r)
    BY ScanIsFolder
  <2>2. run[r].phase = "idle"
    BY <1>4 DEF StartSync
  <2>3. Folder(r)' = Folder(r)
    BY <1>4, StartEffect DEF files, Folder
  <2> QED BY <1>1, <1>3, <1>4, <2>1, <2>2, <2>3, StartEffect
<1>5. CASE PushEntry(r)
  <2>1. PICK p \in Path :
          LET new == run[r].snap[p]
              out == PushOutcome(log, p, run[r].st.files[p], new)
          IN  run'[r].st = AfterPush(run[r].st, p, new, out)
    BY <1>5, PushEffect
  <2>2. \A q \in Path : run'[r].st.files[q] \in {run[r].st.files[q], run[r].snap[q]}
    <3> DEFINE out == PushOutcome(log, p, run[r].st.files[p], run[r].snap[p])
    <3>1. run'[r].st = AfterPush(run[r].st, p, run[r].snap[p], out)
      BY <2>1
    <3> HIDE DEF out
    <3> QED BY <1>0, <3>1 DEF AfterPush, RunState, SyncState
  <2>3. Folder(r)' = Folder(r)
    BY <1>5, PushEffect DEF files, Folder
  <2> QED BY <1>1, <1>3, <1>5, <2>2, <2>3, PushEffect
<1>6. CASE SavePush(r)
  <2>1. Folder(r)' = Folder(r)
    BY <1>6, SavePushEffect DEF files, Folder
  <2> QED BY <1>1, <1>6, <2>1, SavePushEffect
<1>7. CASE FetchPage(r)
  <2>1. Folder(r)' = Folder(r) /\ log' = log
    BY <1>7, FetchEffect DEF files, Folder
  <2>2. CASE run'[r].phase = "fetch"
    BY <1>1, <1>7, <2>1, <2>2, FetchEffect
  <2>3. CASE run'[r].phase = "apply"
    <3> SUFFICES ASSUME NEW p \in Path PROVE Ours(v, p, Folder(r)[p], N(p))
      BY <2>1, <2>3
    <3>1. run'[r].retried = {}
      BY <1>0, <1>7, FetchEffect DEF RunShape
    <3>2. /\ Ours(v, p, run[r].snap[p], run[r].st.files[p])
          /\ Ours(v, p, Folder(r)[p], run[r].snap[p])
      BY <1>1, <1>7, FetchEffect
    <3>3. CASE p \in Changed(log, run'[r].st, run'[r].upto) \ run'[r].todo
      <4>1. PullAction(log, run'[r].st, run'[r].snap, run'[r].upto, p) = "noop"
        BY <1>7, <2>3, <3>3, FetchEffect
      <4>2. HashAt(log, p, run'[r].upto) = run[r].snap[p]
        BY <1>7, <4>1, FetchEffect DEF PullAction
      <4>3. N(p) = HashAt(log, p, run'[r].upto)
        BY <2>1, <3>3, <4>1 DEF N, SyncedSoFar
      <4> QED BY <3>2, <4>2, <4>3
    <3>4. CASE p \notin Changed(log, run'[r].st, run'[r].upto) \ run'[r].todo
      <4>1. N(p) = run'[r].st.files[p]
        BY <2>1, <3>1, <3>4 DEF N, SyncedSoFar
      <4> QED BY <1>7, <3>2, <4>1, OursChain, FetchEffect
    <3> QED BY <3>3, <3>4
  <2> QED BY <1>7, <2>2, <2>3, FetchEffect
<1>8. CASE ApplyDelete(r) \/ ApplyWrite(r) \/ ApplyDerived(r) \/ ReplaceConflict(r)
  <2>1. PICK p \in Path : AppliedAt(r, p)
    BY <1>8, AppliedEffect
  <2>2. SUFFICES ASSUME NEW q \in Path PROVE Ours(v, q, Folder(r)'[q], N(q))
    BY <2>1 DEF AppliedAt, PlanKept
  <2>3. Ours(v, q, Folder(r)[q], SyncedSoFar(log, run[r], Invalid(r), q))
    BY <1>1, <2>1 DEF AppliedAt
  <2>4. CASE q # p
    <3>1. N(q) = SyncedSoFar(log, run[r], Invalid(r), q)
      BY <2>1, <2>4 DEF AppliedAt, PlanKept, N, SyncedSoFar
    <3> QED BY <2>1, <2>3, <2>4, <3>1 DEF AppliedAt
  <2>5. CASE q = p /\ p \in Invalid(r) /\ Planned(r, p) = "write"
    <3>1. N(q) = SyncedSoFar(log, run[r], Invalid(r), q)
      BY <2>1, <2>5 DEF AppliedAt, PlanKept, N, SyncedSoFar, Planned
    <3> QED BY <2>1, <2>3, <2>5, <3>1 DEF AppliedAt, Folder
  <2>6. CASE q = p /\ ~(p \in Invalid(r) /\ Planned(r, p) = "write")
    <3>1. p \in Changed(log, run[r].st, run[r].upto)
      BY <1>0, <2>1 DEF AppliedAt, RunShape
    <3>2. N(p) = Remote(r, p)
      BY <2>1, <2>6, <3>1 DEF AppliedAt, PlanKept, N, SyncedSoFar, Planned, Remote
    <3> QED BY <1>3, <2>1, <2>6, <3>2 DEF AppliedAt
  <2> QED BY <2>4, <2>5, <2>6
<1>9. CASE WriteCopy(r)
  <2>1. PICK p \in Path : CopiedAt(r, p)
    BY <1>9, WriteCopyEffect
  <2>2. run[r].phase = "apply" /\ run'[r].phase = "apply"
    BY <2>1 DEF CopiedAt, PlanKept, Turn
  <2>3. SUFFICES ASSUME NEW q \in Path PROVE Ours(v, q, Folder(r)'[q], N(q))
    BY <2>2
  <2>4. N(q) = SyncedSoFar(log, run[r], Invalid(r), q)
    BY <2>1 DEF CopiedAt, PlanKept, N, SyncedSoFar
  <2>5. Ours(v, q, Folder(r)[q], N(q))
    BY <1>1, <2>2, <2>4
  <2>6. Mine(v, q, CopyBytes(r, p))
    <3>1. PICK c : CopyBytes(r, p) = AddConflictFrontmatter(c, p, run[r].st.files[p]) /\ c \in Content
      <4> DEFINE c == IF disk[VaultOf[r]][p] = Null THEN Plain(EmptyText) ELSE disk[VaultOf[r]][p]
      <4>1. CopyBytes(r, p) = AddConflictFrontmatter(c, p, run[r].st.files[p])
        BY DEF CopyBytes
      <4>2. c \in Content
        BY PlainType DEF TypeOK, Hash
      <4> HIDE DEF c
      <4> QED BY <4>1, <4>2
    <3>2. CopyBytes(r, p).of = p /\ CopyBytes(r, p) \in Content
      <4>1. run[r].st.files[p] \in Hash
        BY <1>0 DEF RunState, SyncState
      <4> QED BY <3>1, <4>1, FrontmatterType, FrontmatterOf
    <3>3. p # Null /\ CopyBytes(r, p) # Null
      BY <3>2
    <3> QED BY <3>2, <3>3 DEF Mine
  <2>7. Folder(r)'[q] \in {Folder(r)[q], CopyBytes(r, p)}
    BY <2>1 DEF CopiedAt, Folder
  <2> QED BY <2>5, <2>6, <2>7 DEF Ours
<1>10. CASE Retry(r)
  <2>1. PICK p \in Path : RetriedAt(r, p)
    BY <1>10, RetriedEffect
  <2>2. SUFFICES ASSUME NEW q \in Path PROVE Ours(v, q, Folder(r)'[q], N(q))
    BY <2>1 DEF RetriedAt, PlanKept
  <2>3. CASE q # p
    <3>1. N(q) = SyncedSoFar(log, run[r], Invalid(r), q)
      BY <2>1, <2>3 DEF RetriedAt, PlanKept, N, SyncedSoFar
    <3> QED BY <1>1, <2>1, <2>3, <3>1 DEF RetriedAt
  <2>4. CASE q = p
    <3>1. N(p) = run[r].st.skipped[p]
      BY <2>1 DEF RetriedAt, RetryPath, PlanKept, N, SyncedSoFar
    <3> QED BY <1>3, <2>1, <2>4, <3>1 DEF RetriedAt
  <2> QED BY <2>3, <2>4
<1>11. CASE SavePull(r)
  <2>1. Scan(r) = Folder(r)
    BY ScanIsFolder
  <2>2. Folder(r)' = Folder(r)
    BY <1>11, SavePullEffect DEF files, Folder
  <2>3. \A p \in Path : Ours(v, p, Folder(r)[p], AfterPull(r).files[p])
    BY <1>1, <1>11, SavePullEffect, SyncedInTheEnd
  <2>4. \/ run'[r] = IdleRun
        \/ /\ run'[r].phase = "push3" /\ run'[r].st = AfterPull(r)
           /\ run'[r].snap = Scan(r)
    BY <1>11, SavePullEffect
  <2>5. Saved(r)' = AfterPull(r)
    BY <1>11, SavePullEffect
  <2> QED BY <1>3, <2>1, <2>2, <2>3, <2>4, <2>5, IdleRunFacts
<1>12. CASE SavePush3(r) \/ Fail(r) \/ FailRename(r)
  <2>1. /\ run'[r].phase = "idle" /\ Folder(r)' = Folder(r)
        /\ run[r].phase = "push3" /\ Saved(r)' = run[r].st
    BY <1>12, EndEffect, IdleRunFacts DEF files, Folder
  <2> QED BY <1>1, <2>1, OursChain
<1> QED BY <1>4, <1>5, <1>6, <1>7, <1>8, <1>9, <1>10, <1>11, <1>12 DEF Step

LEMMA OursUserStep ==
  ASSUME TypeOK, NEW r \in Runner, UNCHANGED <<log, state, run>>,
         run[r].phase # "idle" => Invalid(r)' = Invalid(r),
         \A p, c : Mine(VaultOf[r], p, c) => Mine(VaultOf[r], p, c)',
         \A p \in Path : \/ Folder(r)'[p] = Folder(r)[p]
                         \/ Mine(VaultOf[r], p, Folder(r)[p])',
         OursRun(VaultOf[r], log, run[r], Invalid(r))
  PROVE  OursRun(VaultOf[r], log, run[r], Invalid(r))'
<1> DEFINE v == VaultOf[r]
<1>1. run[r] \in RunState /\ run' = run /\ log' = log /\ state' = state
  BY DEF TypeOK
<1>2. \A p, c, s : Ours(v, p, c, s) => Ours(v, p, c, s)'
  BY DEF Ours
<1>3. \A p \in Path : \A s : Ours(v, p, Folder(r)[p], s) => Ours(v, p, Folder(r)[p], s)'
  <2> SUFFICES ASSUME NEW p \in Path, NEW s, Ours(v, p, Folder(r)[p], s)
               PROVE  Ours(v, p, Folder(r)[p], s)'
    OBVIOUS
  <2>1. CASE Folder(r)'[p] = Folder(r)[p]
    BY <1>2, <2>1
  <2>2. CASE Mine(v, p, Folder(r)[p])'
    BY <2>2 DEF Ours
  <2> QED BY <2>1, <2>2
<1>4. \A p : disk[v][p] = Folder(r)[p] /\ disk'[v][p] = Folder(r)'[p]
  BY DEF Folder
<1>5. CASE run[r].phase = "idle"
  BY <1>1, <1>3, <1>4, <1>5 DEF OursRun
<1>6. CASE run[r].phase = "apply"
  <2>1. \A p : SyncedSoFar(log, run[r], Invalid(r), p)' = SyncedSoFar(log, run[r], Invalid(r), p)
    BY <1>1, <1>6 DEF SyncedSoFar
  <2> QED BY <1>1, <1>3, <1>4, <1>6, <2>1 DEF OursRun
<1>7. CASE run[r].phase \in {"push", "fetch", "push3"}
  BY <1>1, <1>2, <1>3, <1>4, <1>7 DEF OursRun
<1> QED BY <1>1, <1>5, <1>6, <1>7 DEF RunState

LEMMA InitOwn == Init => OwnInv
<1> SUFFICES ASSUME Init PROVE RunsOurs /\ LogOurs
  BY DEF OwnInv
<1>1. LogOurs
  BY DEF Init, LogOurs
<1>2. \A r \in Runner : OursRun(VaultOf[r], log, run[r], Invalid(r))
  BY IdleRunFacts DEF Init, OursRun, Ours, NothingAt, FreshState
<1> QED BY <1>1, <1>2 DEF RunsOurs

LEMMA NextOwn ==
  ASSUME OneProcess, IInv, IInv', ShapeInv, OwnInv, [Next]_vars
  PROVE  OwnInv'
<1> SUFFICES ASSUME fails' = 0 PROVE (RunsOurs /\ LogOurs)'
  BY DEF OwnInv
<1>0. TypeOK /\ TypeOK' /\ RunBounded
  BY DEF IInv
<1>1. ASSUME NEW r \in Runner, Step(r) \/ Fail(r)
      PROVE  (RunsOurs /\ LogOurs)'
  <2>1. OthersStay(r)
    BY <1>0, <1>1, OthersStayStep
  <2>2. fails = 0
    <3>1. CASE SavePull(r)
      BY <1>0, <3>1, SavePullEffect
    <3>2. CASE SavePush3(r) \/ Fail(r) \/ FailRename(r)
      BY <1>0, <3>2, EndEffect
    <3>3. CASE ~(SavePull(r) \/ SavePush3(r) \/ Fail(r) \/ FailRename(r))
      BY <1>1, <3>3 DEF Step, StartSync, PushEntry, SavePush, FetchPage, ApplyDelete,
         ApplyWrite, ApplyDerived, WriteCopy, ReplaceConflict, Retry
    <3> QED BY <3>1, <3>2, <3>3
  <2>3. RunsOurs /\ LogOurs /\ ShapeOf(r)
    BY <2>2 DEF OwnInv, ShapeInv
  <2>4. UNCHANGED <<removed, used>>
    BY <2>1 DEF OthersStay, user
  <2>5. ASSUME NEW q \in Runner
        PROVE  OursRun(VaultOf[q], log, run[q], Invalid(q))'
    <3>1. CASE q = r
      BY <1>0, <1>1, <2>3, <3>1, OursRunStep DEF RunsOurs
    <3>2. CASE q # r
      <4>1. /\ run'[q] = run[q] /\ Invalid(q)' = Invalid(q)
            /\ disk'[VaultOf[q]] = disk[VaultOf[q]] /\ state'[VaultOf[q]] = state[VaultOf[q]]
        BY <2>1, <3>2 DEF OthersStay, OneProcess, user, Invalid
      <4>2. \A p : SyncedSoFar(log', run[q], Invalid(q), p) = SyncedSoFar(log, run[q], Invalid(q), p)
        <5>1. \A p : /\ LastSeq(log', p, run[q].upto) = LastSeq(log, p, run[q].upto)
                     /\ HashAt(log', p, run[q].upto) = HashAt(log, p, run[q].upto)
          BY <2>1 DEF OthersStay
        <5>2. \A invalid, p : SyncedSoFar(log', run[q], invalid, p) = SyncedSoFar(log, run[q], invalid, p)
          BY <5>1, SyncedStays
        <5> QED BY <5>2
      <4>3. OursRun(VaultOf[q], log, run[q], Invalid(q))
        BY <2>3 DEF RunsOurs
      <4>4. \A v, p, c, s : Ours(v, p, c, s)' <=> Ours(v, p, c, s)
        BY <2>4, OursStays
      <4> QED BY <4>1, <4>2, <4>3, <4>4 DEF OursRun
    <3> QED BY <3>1, <3>2
  <2>6. LogOurs'
    <3>1. \A v, p, c : Mine(v, p, c)' <=> Mine(v, p, c)
      BY <2>4 DEF Mine
    <3>2. CASE UNCHANGED log
      BY <2>3, <3>1, <3>2 DEF LogOurs
    <3>3. CASE ~UNCHANGED log
      <4>1. PushEntry(r)
        BY <1>1, <3>3 DEF Step, Fail, StartSync, SavePush, FetchPage, ApplyDelete, ApplyWrite,
          ApplyDerived, WriteCopy, ReplaceConflict, Retry, SavePull, SavePush3, FailRename
      <4>2. PICK p \in Path :
              LET new == run[r].snap[p]
                  out == PushOutcome(log, p, run[r].st.files[p], new)
              IN  log' = IF out = "advance"
                         THEN Append(log, [path |-> p, hash |-> new, by |-> VaultOf[r]])
                         ELSE log
        BY <1>0, <4>1, PushEffect
      <4> DEFINE new == run[r].snap[p]
                 e   == [path |-> p, hash |-> new, by |-> VaultOf[r]]
      <4>3. log' = Append(log, e) /\ PushOutcome(log, p, run[r].st.files[p], new) = "advance"
        BY <3>3, <4>2
      <4>4. new # run[r].st.files[p]
        BY <4>3 DEF PushOutcome
      <4>5. Ours(VaultOf[r], p, new, run[r].st.files[p])
        <5>1. run[r].phase \in {"push", "push3"} /\ run[r] \in RunState
          BY <1>0, <4>1, PushEffect DEF TypeOK
        <5> QED BY <2>3, <5>1, OursPhases DEF RunsOurs
      <4>6. Mine(VaultOf[r], p, new)
        BY <4>4, <4>5 DEF Ours
      <4>7. e \in LogEntry /\ e.path = p /\ e.hash = new /\ e.by = VaultOf[r]
        BY <1>0 DEF LogEntry, TypeOK, RunState
      <4> HIDE DEF e, new
      <4>8. IsAppend(log', log, e)
        BY <1>0, <4>3, <4>7, AppendIsAppend DEF TypeOK
      <4>9. \A i \in 1..Len(log') : (i \in 1..Len(log) /\ log'[i] = log[i]) \/ log'[i] = e
        BY <4>8 DEF IsAppend
      <4> QED BY <2>3, <3>1, <4>6, <4>7, <4>9 DEF LogOurs
    <3> QED BY <3>2, <3>3
  <2> QED BY <2>5, <2>6 DEF RunsOurs
<1>2. ASSUME \/ \E v \in Vault : UserStep(v)
             \/ \E r \in Runner : Move(r)
             \/ UNCHANGED vars
      PROVE  (RunsOurs /\ LogOurs)'
  <2>1. UNCHANGED <<log, state, run, fails>>
    BY <1>2 DEF UserStep, Edit, Delete, Move, vars
  <2>2. RunsOurs /\ LogOurs
    BY <2>1 DEF OwnInv
  <2>3. \A v \in Vault : \A p, c : Mine(v, p, c) => Mine(v, p, c)'
    <3>1. removed \subseteq removed'
      BY <1>2 DEF UserStep, Edit, Delete, Move, vars
    <3>2. \A v \in Vault : used[v] \subseteq used'[v]
      <4>1. UNCHANGED used \/ \E w \in Vault, t \in Text : used' = [used EXCEPT ![w] = @ \cup {t}]
        BY <1>2 DEF UserStep, Edit, Delete, Move, vars
      <4>2. used \in [Vault -> SUBSET Text]
        BY <1>0 DEF TypeOK
      <4>3. ASSUME NEW w \in Vault, NEW t \in Text, used' = [used EXCEPT ![w] = @ \cup {t}],
                   NEW v \in Vault
            PROVE  used[v] \subseteq used'[v]
        BY <4>2, <4>3
      <4> QED BY <4>1, <4>3
    <3> QED BY <3>1, <3>2 DEF Mine
  <2>4. ASSUME NEW v \in Vault, NEW p \in Path
        PROVE  disk'[v][p] = disk[v][p] \/ Mine(v, p, disk[v][p])'
    <3>1. ASSUME NEW w \in Vault, NEW x \in Path, NEW t \in Text, Edit(w, x, t)
          PROVE  disk'[v][p] = disk[v][p] \/ Mine(v, p, disk[v][p])'
      <4>1. disk' = [disk EXCEPT ![w][x] = Plain(t)] /\ used' = [used EXCEPT ![w] = @ \cup {t}]
        BY <3>1 DEF Edit, PutFile
      <4>2. Plain(t) # Null /\ Plain(t).text = t
        BY PlainType DEF Plain
      <4>3. CASE v = w /\ p = x
        <5>1. disk'[v][p] = Plain(t) /\ t \in used'[v]
          BY <1>0, <4>1, <4>3 DEF TypeOK
        <5> QED BY <4>2, <5>1 DEF Mine
      <4>4. CASE ~(v = w /\ p = x)
        BY <1>0, <4>1, <4>4 DEF TypeOK
      <4> QED BY <4>3, <4>4
    <3>2. ASSUME NEW w \in Vault, NEW x \in Path, Delete(w, x)
          PROVE  disk'[v][p] = disk[v][p] \/ Mine(v, p, disk[v][p])'
      <4>1. disk' = [disk EXCEPT ![w][x] = Null] /\ <<w, x>> \in removed'
        BY <3>2 DEF Delete
      <4>2. CASE v = w /\ p = x
        <5>1. disk'[v][p] = Null /\ <<v, p>> \in removed'
          BY <1>0, <4>1, <4>2 DEF TypeOK
        <5> QED BY <5>1 DEF Mine
      <4>3. CASE ~(v = w /\ p = x)
        BY <1>0, <4>1, <4>3 DEF TypeOK
      <4> QED BY <4>2, <4>3
    <3>3. ASSUME (\E r \in Runner : Move(r)) \/ UNCHANGED vars
          PROVE  disk'[v][p] = disk[v][p]
      BY <3>3 DEF Move, files, vars
    <3> QED BY <1>2, <3>1, <3>2, <3>3 DEF UserStep
  <2>5. ASSUME NEW r \in Runner
        PROVE  OursRun(VaultOf[r], log, run[r], Invalid(r))'
    <3>1. run[r].phase # "idle" => Invalid(r)' = Invalid(r)
      BY <1>2 DEF UserStep, Edit, Delete, Move, vars, Invalid
    <3>2. \A p \in Path : Folder(r)'[p] = Folder(r)[p] \/ Mine(VaultOf[r], p, Folder(r)[p])'
      BY <2>4 DEF Folder
    <3> QED BY <1>0, <2>1, <2>2, <2>3, <3>1, <3>2, OursUserStep DEF RunsOurs
  <2>6. LogOurs'
    <3>1. \A i \in 1..Len(log) : log[i].by \in Vault
      BY <1>0, LogElement DEF LogEntry
    <3> QED BY <2>1, <2>2, <2>3, <3>1 DEF LogOurs
  <2> QED BY <2>5, <2>6 DEF RunsOurs
<1> QED BY <1>1, <1>2 DEF Next

\* Until a sync fails, a group whose vaults are synced by one process each
\* changes only as its users asked: nothing is deleted there that a user of
\* the pushing vault did not delete, and no text that is not a conflict copy
\* is published that its user did not write.
THEOREM UsersPublish ==
  ASSUME OneProcess
  PROVE  Spec => []OnlyUsersPublish
<1>1. Init => ShapeInv /\ OwnInv
  BY InitShape, InitOwn
<1>2. IInv /\ IInv' /\ (ShapeInv /\ OwnInv) /\ [Next]_vars => (ShapeInv /\ OwnInv)'
  BY NextShape, NextOwn DEF OneProcess, OneOnWindows
<1>3. OwnInv => OnlyUsersPublish
  BY DEF OwnInv, LogOurs, Mine, OnlyUsersPublish
<1> QED BY <1>1, <1>2, <1>3, Invariance, PTL DEF Spec

-----------------------------------------------------------------------------
(* Nothing a user wrote is lost, as long as nobody edits during a sync and *)
(* no folder was moved to another platform.                                *)

\* The texts of v that are still to be found.
Held(v) == Texts(OnDisk(v)) \cup Texts(trash[v]) \cup Texts(InLog)

ToldLog(st) ==
  \A p \in Path : /\ st.files[p] \in InLog \cup {Null}
                  /\ st.skipped[p] \in InLog \cup {Null}

SkipsIn(invalid, st) == \A p \in Path : st.skipped[p] # Null => p \in invalid

\* Until a plan is carried out the folder d is what the scan saw; then this
\* is so of the paths still to do, and of those no change concerns but for
\* the copies; and the conflict half done has its text somewhere else too.
AsScanned(d, l, R, author) ==
  /\ R.phase \in {"push", "fetch"} => \A p \in Path : d[p] = R.snap[p]
  /\ R.phase = "apply" =>
       /\ \A p \in R.todo : d[p] = R.snap[p]
       /\ \A p \in Path \ Changed(l, R.st, R.upto) :
            \/ d[p] = R.snap[p]
            \/ \E q \in R.copied : \E n \in Numbers(q, author) :
                 p = CopyName[<<q, author, n>>]
       /\ \A p \in R.todo \cap R.copied :
            \E q \in Path \ {p} : d[q] # Null /\ d[q].text = d[p].text

RunKept(r) ==
  /\ ToldLog(run[r].st) /\ SkipsIn(InvalidPath[r], run[r].st)
  /\ ToldLog(Saved(r)) /\ SkipsIn(InvalidPath[r], Saved(r))
  /\ AsScanned(Folder(r), log, run[r], AuthorOf[r])

KeptInv ==
  moved = {} =>
    /\ NoLostEdit
    /\ \A v \in Vault : written[v] \cap GeneratedText = {}
    /\ \A r \in Runner : RunKept(r)

-----------------------------------------------------------------------------

LEMMA HeldMeans ==
  ASSUME NEW v, NEW t
  PROVE  t \in Held(v) <=>
           \/ \E p \in Path : disk[v][p] # Null /\ disk[v][p].text = t
           \/ \E c \in trash[v] : c # Null /\ c.text = t
           \/ \E i \in 1..Len(log) : log[i].hash # Null /\ log[i].hash.text = t
BY DEF Held, Texts, OnDisk, InLog

LEMMA HeldMeansNext ==
  ASSUME NEW v, NEW t
  PROVE  t \in Held(v)' <=>
           \/ \E p \in Path : disk'[v][p] # Null /\ disk'[v][p].text = t
           \/ \E c \in trash'[v] : c # Null /\ c.text = t
           \/ \E i \in 1..Len(log') : log'[i].hash # Null /\ log'[i].hash.text = t
BY DEF Held, Texts, OnDisk, InLog

\* The log only grows.
LogGrows ==
  /\ Len(log) \in Nat /\ Len(log') \in Nat /\ Len(log) <= Len(log')
  /\ \A i \in 1..Len(log) : log'[i] = log[i]

LEMMA LogGrowsStep ==
  ASSUME TypeOK, [Next]_vars
  PROVE  LogGrows
<1>1. UNCHANGED log \/ \E e \in LogEntry : log' = Append(log, e)
  <2>1. ASSUME NEW r \in Runner, PushEntry(r)
        PROVE  UNCHANGED log \/ \E e \in LogEntry : log' = Append(log, e)
    <3>1. PICK p \in NextToPush(run[r].todo, run[r].snap) :
            \/ UNCHANGED log
            \/ log' = Append(log, [path |-> p, hash |-> run[r].snap[p], by |-> VaultOf[r]])
      BY <2>1 DEF PushEntry
    <3>2. p \in Path /\ run[r].snap[p] \in Hash /\ VaultOf[r] \in Vault
      BY DEF NextToPush, TypeOK, RunState
    <3> QED BY <3>1, <3>2 DEF LogEntry
  <2>2. CASE \A r \in Runner : ~PushEntry(r)
    BY <2>2 DEF Next, vars, UserStep, Edit, Delete, Move, Step, Fail, StartSync, SavePush,
         FetchPage, ApplyDelete, ApplyWrite, ApplyDerived, WriteCopy, ReplaceConflict, Retry,
         SavePull, SavePush3, FailRename
  <2> QED BY <2>1, <2>2
<1>2. Len(log) \in Nat
  BY LogLen
<1>3. CASE UNCHANGED log
  BY <1>2, <1>3 DEF LogGrows
<1>4. ASSUME NEW e \in LogEntry, log' = Append(log, e)
      PROVE  LogGrows
  <2>1. IsAppend(log', log, e)
    BY <1>4, AppendIsAppend DEF TypeOK
  <2> QED BY <2>1 DEF IsAppend, LogGrows
<1> QED BY <1>1, <1>3, <1>4

LEMMA InLogGrows == ASSUME LogGrows PROVE InLog \subseteq InLog'
<1>1. ASSUME NEW h \in InLog PROVE h \in InLog'
  <2>1. PICK i \in 1..Len(log) : h = log[i].hash
    BY DEF InLog
  <2>2. i \in 1..Len(log') /\ log'[i] = log[i]
    BY DEF LogGrows
  <2> QED BY <2>1, <2>2 DEF InLog
<1> QED BY <1>1

LEMMA ToldGrows ==
  ASSUME LogGrows, NEW st, ToldLog(st)
  PROVE  ToldLog(st)'
BY InLogGrows DEF ToldLog

\* What the log says of a path is in the log.
LEMMA SaidInLog ==
  ASSUME TypeOK, NEW p, NEW k \in 0..Len(log)
  PROVE  HashAt(log, p, k) \in InLog \cup {Null}
<1>1. Len(log) \in Nat /\ LastSeq(log, p, k) \in 0..k
  BY LogLen, LastSeqMax
<1>2. LastSeq(log, p, k) # 0 => LastSeq(log, p, k) \in 1..Len(log)
  BY <1>1
<1> QED BY <1>2 DEF HashAt, InLog

\* A step keeps what it finds: every text in the folder of v is still held,
\* unless it is a generated one.
LEMMA StillHeld ==
  ASSUME TypeOK, LogGrows, NEW v \in Vault, trash[v] \subseteq trash'[v],
         written[v] \cap GeneratedText = {}, written[v] \subseteq Held(v),
         \A p \in Path : disk[v][p] # Null =>
           disk[v][p].text \in Held(v)' \cup GeneratedText
  PROVE  written[v] \subseteq Held(v)'
<1> SUFFICES ASSUME NEW t \in written[v] PROVE t \in Held(v)'
  OBVIOUS
<1>1. t \notin GeneratedText
  OBVIOUS
<1>2. CASE \E p \in Path : disk[v][p] # Null /\ disk[v][p].text = t
  BY <1>1, <1>2
<1>3. CASE \E c \in trash[v] : c # Null /\ c.text = t
  BY <1>3, HeldMeansNext
<1>4. CASE \E i \in 1..Len(log) : log[i].hash # Null /\ log[i].hash.text = t
  <2>1. PICK i \in 1..Len(log) : log[i].hash # Null /\ log[i].hash.text = t
    BY <1>4
  <2>2. i \in 1..Len(log') /\ log'[i] = log[i]
    BY DEF LogGrows
  <2>3. \E j \in 1..Len(log') : log'[j].hash # Null /\ log'[j].hash.text = t
    BY <2>1, <2>2
  <2> QED BY <2>3, HeldMeansNext
<1>5. t \in Held(v)
  OBVIOUS
<1> QED BY <1>2, <1>3, <1>4, <1>5, HeldMeans

\* What is still in the folder is held.
LEMMA HeldHere ==
  ASSUME NEW r \in Runner, NEW p \in Path, Folder(r)'[p] # Null
  PROVE  Folder(r)'[p].text \in Held(VaultOf[r])'
BY HeldMeansNext DEF Folder

\* The trash only grows.
LEMMA TrashGrows ==
  ASSUME TypeOK, NEW r \in Runner, Step(r) \/ Fail(r), NEW v \in Vault
  PROVE  trash[v] \subseteq trash'[v]
<1>1. UNCHANGED trash \/ \E c : trash' = [trash EXCEPT ![VaultOf[r]] = @ \cup c]
  BY DEF Step, Fail, StartSync, PushEntry, SavePush, FetchPage, ApplyDelete, ApplyWrite,
         ApplyDerived, WriteCopy, ReplaceConflict, Retry, SavePull, SavePush3, FailRename,
         files, ToTrash
<1>2. DOMAIN trash = Vault
  BY DEF TypeOK
<1>3. CASE UNCHANGED trash
  BY <1>3
<1>4. ASSUME NEW c, trash' = [trash EXCEPT ![VaultOf[r]] = @ \cup c]
      PROVE  trash[v] \subseteq trash'[v]
  <2>1. trash'[v] = IF v = VaultOf[r] THEN trash[v] \cup c ELSE trash[v]
    BY <1>2, <1>4
  <2> QED BY <2>1
<1> QED BY <1>1, <1>3, <1>4

\* Where a conflict's copy goes, nothing was there.
LEMMA CopyIsNew ==
  ASSUME TypeOK, NEW r \in Runner, RunKept(r), NEW p \in Path,
         run[r].phase = "apply", p \notin run[r].copied, run[r].copied \subseteq Path,
         NEW n \in FreeNumbers(p, AuthorOf[r],
                     Existing(log, run[r].st, run[r].snap, run[r].upto))
  PROVE  LET copy == CopyName[<<p, AuthorOf[r], n>>]
         IN  /\ copy \notin Changed(log, run[r].st, run[r].upto)
             /\ n \in Numbers(p, AuthorOf[r])
             /\ Folder(r)[copy] = Null
<1> DEFINE copy == CopyName[<<p, AuthorOf[r], n>>]
<1>1. /\ copy \notin Existing(log, run[r].st, run[r].snap, run[r].upto)
      /\ n \in Numbers(p, AuthorOf[r]) /\ AuthorOf[r] \in Author
  BY DEF FreeNumbers
<1>2. copy \in Path
  BY <1>1, CopyAssumption
<1>3. copy \notin Changed(log, run[r].st, run[r].upto) /\ run[r].snap[copy] = Null
  BY <1>1, <1>2 DEF Existing
<1>4. ASSUME NEW q \in run[r].copied, NEW m \in Numbers(q, AuthorOf[r]),
             copy = CopyName[<<q, AuthorOf[r], m>>]
      PROVE  FALSE
  BY <1>1, <1>4, CopyAssumption
<1>5. \/ Folder(r)[copy] = run[r].snap[copy]
      \/ \E q \in run[r].copied : \E m \in Numbers(q, AuthorOf[r]) :
           copy = CopyName[<<q, AuthorOf[r], m>>]
  BY <1>2, <1>3 DEF RunKept, AsScanned
<1> QED BY <1>1, <1>3, <1>4, <1>5

\* The text of a copy is the text of what it keeps.
LEMMA CopyText ==
  ASSUME TypeOK, NEW r \in Runner, NEW p \in Path, Folder(r)[p] # Null
  PROVE  CopyBytes(r, p).text = Folder(r)[p].text /\ CopyBytes(r, p) # Null
<1>1. Folder(r)[p] \in Content /\ run[r].st.files[p] \in Hash
  BY DEF TypeOK, Folder, Hash, RunState, SyncState
<1>2. CopyBytes(r, p) = AddConflictFrontmatter(Folder(r)[p], p, run[r].st.files[p])
  BY DEF CopyBytes, Folder
<1>3. CopyBytes(r, p) \in Content
  BY <1>1, <1>2, FrontmatterType
<1> QED BY <1>1, <1>2, <1>3, FrontmatterOf

LEMMA OwnTexts ==
  ASSUME TypeOK, RunBounded, NEW r \in Runner, ShapeOf(r), RunKept(r), moved = {},
         Step(r) \/ Fail(r), LogGrows, NEW p \in Path, Folder(r)[p] # Null
  PROVE  Folder(r)[p].text \in Held(VaultOf[r])' \cup GeneratedText
<1>0. /\ RunShape(log, run[r], Invalid(r)) /\ run[r] \in RunState
      /\ run[r].copied \subseteq Path
  BY DEF ShapeOf, TypeOK, RunState
<1>1. CASE Folder(r)'[p] = Folder(r)[p]
  BY <1>1, HeldHere
<1>2. CASE \E q \in Path : Folder(r)'[q] # Null /\ Folder(r)'[q].text = Folder(r)[p].text
  BY <1>2, HeldHere
<1>3. CASE ToTrash(VaultOf[r], p)
  <2>1. Folder(r)[p] \in trash'[VaultOf[r]]
    BY <1>3 DEF ToTrash, Folder, TypeOK
  <2>2. \E c \in trash'[VaultOf[r]] : c # Null /\ c.text = Folder(r)[p].text
    BY <2>1
  <2> QED BY <2>2, HeldMeansNext
<1>4. CASE UNCHANGED files
  BY <1>1, <1>4 DEF files, Folder
<1>5. ASSUME NEW h, h # Null, h.text = Folder(r)[p].text, h \in InLog
      PROVE  Folder(r)[p].text \in Held(VaultOf[r])'
  <2>1. PICK i \in 1..Len(log') : log'[i].hash = h
    BY <1>5, InLogGrows DEF InLog
  <2> QED BY <1>5, <2>1, HeldMeansNext
<1>6. CASE ApplyDelete(r)
  <2>1. PICK q \in Path : ToTrash(VaultOf[r], q)
    BY <1>6 DEF ApplyDelete
  <2>2. CASE q = p
    BY <1>3, <2>1, <2>2
  <2>3. CASE q # p
    BY <1>1, <2>1, <2>3, TrashEffect
  <2> QED BY <2>2, <2>3
<1>7. CASE ApplyWrite(r)
  <2>1. PICK q \in Path : /\ Turn(r, q) /\ Planned(r, q) = "write"
                          /\ IF q \in Invalid(r) THEN UNCHANGED <<disk, seen>>
                             ELSE PutFile(VaultOf[r], q, Remote(r, q))
    BY <1>7 DEF ApplyWrite
  <2>2. CASE q \in Invalid(r)
    BY <1>1, <2>1, <2>2 DEF Folder
  <2>3. CASE q \notin Invalid(r) /\ q # p
    BY <1>1, <2>1, <2>3, PutEffect
  <2>4. CASE q = p
    <3>1. Folder(r)[p] = run[r].snap[p]
      BY <2>1, <2>4 DEF RunKept, AsScanned, Turn
    <3>2. run[r].snap[p] = Null \/ run[r].snap[p] = run[r].st.files[p]
      BY <2>1, <2>4 DEF Planned, PullAction
    <3>3. run[r].st.files[p] \in InLog \cup {Null}
      BY DEF RunKept, ToldLog
    <3> QED BY <1>5, <3>1, <3>2, <3>3
  <2> QED BY <2>2, <2>3, <2>4
<1>8. CASE ApplyDerived(r)
  <2>1. PICK q \in Path : /\ AcceptsRemote(r, q)
                          /\ \/ PutFile(VaultOf[r], q, Remote(r, q))
                             \/ ToTrash(VaultOf[r], q)
    BY <1>8 DEF ApplyDerived
  <2>2. CASE q # p
    BY <1>1, <2>1, <2>2, PutEffect, TrashEffect
  <2>3. CASE q = p
    <3>1. Folder(r)[p] \in Content
      BY DEF TypeOK, Folder, Hash
    <3>2. Folder(r)[p].text \in Text
      BY <3>1 DEF Content
    <3>3. Folder(r)[p].text \in GeneratedText \cup {Null}
      BY <2>1, <2>3 DEF AcceptsRemote, TextAt, Folder
    <3> QED BY <3>2, <3>3
  <2> QED BY <2>2, <2>3
<1>9. CASE ReplaceConflict(r)
  <2>1. PICK q \in Path : /\ Turn(r, q) /\ q \in run[r].copied
                          /\ \/ PutFile(VaultOf[r], q, Remote(r, q))
                             \/ ToTrash(VaultOf[r], q)
    BY <1>9 DEF ReplaceConflict
  <2>2. \A x \in Path \ {q} : Folder(r)'[x] = Folder(r)[x]
    BY <2>1, PutEffect, TrashEffect
  <2>3. CASE q # p
    BY <1>1, <2>2, <2>3
  <2>4. CASE q = p
    <3>1. PICK x \in Path \ {p} : Folder(r)[x] # Null /\ Folder(r)[x].text = Folder(r)[p].text
      BY <2>1, <2>4 DEF RunKept, AsScanned, Turn
    <3> QED BY <1>2, <2>2, <2>4, <3>1
  <2> QED BY <2>3, <2>4
<1>10. CASE WriteCopy(r)
  <2>1. PICK q \in Path : CopiedAt(r, q)
    BY <1>10, WriteCopyEffect
  <2>2. CASE UNCHANGED disk
    BY <1>1, <2>2 DEF Folder
  <2>3. CASE ~UNCHANGED disk
    <3>1. PICK n \in FreeNumbers(q, AuthorOf[r],
                       Existing(log, run[r].st, run[r].snap, run[r].upto)) :
            \A x \in Path \ {CopyName[<<q, AuthorOf[r], n>>]} : Folder(r)'[x] = Folder(r)[x]
      BY <2>1, <2>3 DEF CopiedAt
    <3>2. Folder(r)[CopyName[<<q, AuthorOf[r], n>>]] = Null
      BY <1>0, <2>1, CopyIsNew DEF CopiedAt, Turn
    <3> QED BY <1>1, <3>1, <3>2
  <2> QED BY <2>2, <2>3
<1>11. CASE Retry(r)
  <2>1. PICK q \in Path : RetriedAt(r, q)
    BY <1>11, RetriedEffect
  <2>2. q \in InvalidPath[r] /\ q \notin Invalid(r)
    BY <2>1 DEF RetriedAt, RetryPath, RunKept, SkipsIn
  <2> QED BY <2>2 DEF Invalid
<1>12. CASE ~(\/ ApplyDelete(r) \/ ApplyWrite(r) \/ ApplyDerived(r) \/ ReplaceConflict(r)
              \/ WriteCopy(r) \/ Retry(r))
  <2>1. UNCHANGED files
    BY <1>12 DEF Step, Fail, StartSync, PushEntry, SavePush, FetchPage, SavePull, SavePush3,
         FailRename
  <2> QED BY <1>4, <2>1
<1> QED BY <1>6, <1>7, <1>8, <1>9, <1>10, <1>11, <1>12

LEMMA OwnScanned ==
  ASSUME TypeOK, RunBounded, NEW r \in Runner, ShapeOf(r), RunKept(r), moved = {},
         Step(r) \/ Fail(r)
  PROVE  AsScanned(Folder(r)', log', run'[r], AuthorOf[r])
<1>0. /\ RunShape(log, run[r], Invalid(r)) /\ run[r] \in RunState
      /\ run[r].copied \subseteq Path /\ run[r].todo \subseteq Path
      /\ AsScanned(Folder(r), log, run[r], AuthorOf[r])
  BY DEF ShapeOf, TypeOK, RunState, RunKept
<1>1. CASE StartSync(r)
  <2>1. run'[r].phase = "push" /\ run'[r].snap = Scan(r) /\ Scan(r) = Folder(r)
    BY <1>1, StartEffect, ScanIsFolder
  <2>2. Folder(r)' = Folder(r)
    BY <1>1, StartEffect DEF files, Folder
  <2> QED BY <2>1, <2>2 DEF AsScanned
<1>2. CASE PushEntry(r)
  <2>1. Folder(r)' = Folder(r)
    BY <1>2, PushEffect DEF files, Folder
  <2> QED BY <1>0, <1>2, <2>1, PushEffect DEF AsScanned
<1>3. CASE SavePush(r)
  <2>1. Folder(r)' = Folder(r)
    BY <1>3, SavePushEffect DEF files, Folder
  <2> QED BY <1>0, <1>3, <2>1, SavePushEffect DEF AsScanned
<1>4. CASE FetchPage(r)
  <2>1. Folder(r)' = Folder(r) /\ log' = log
    BY <1>4, FetchEffect DEF files, Folder
  <2>2. \A p \in Path : Folder(r)'[p] = run'[r].snap[p]
    BY <1>0, <1>4, <2>1, FetchEffect DEF AsScanned
  <2>3. run'[r].copied = {}
    BY <1>0, <1>4, FetchEffect DEF RunShape
  <2>4. run'[r].phase = "apply" => run'[r].todo \subseteq Path
    BY <1>4, FetchEffect DEF Changed
  <2> QED BY <2>2, <2>3, <2>4 DEF AsScanned
<1>5. CASE ApplyDelete(r) \/ ApplyWrite(r) \/ ApplyDerived(r) \/ ReplaceConflict(r)
  <2>1. PICK p \in Path : AppliedAt(r, p)
    BY <1>5, AppliedEffect
  <2>2. /\ run'[r].phase = "apply" /\ run'[r].snap = run[r].snap
        /\ run'[r].todo = run[r].todo \ {p} /\ run'[r].copied = run[r].copied
        /\ Changed(log', run'[r].st, run'[r].upto) = Changed(log, run[r].st, run[r].upto)
    BY <2>1 DEF AppliedAt, PlanKept
  <2>3. p \in Changed(log, run[r].st, run[r].upto) /\ run[r].phase = "apply"
    BY <1>0, <2>1 DEF AppliedAt, RunShape
  <2>4. \A q \in Path \ {p} : Folder(r)'[q] = Folder(r)[q]
    BY <2>1 DEF AppliedAt
  <2>5. run'[r].todo \cap run'[r].copied = {}
    BY <2>1, <2>2 DEF AppliedAt, Turn
  <2>6. \A q \in run'[r].todo : Folder(r)'[q] = run'[r].snap[q]
    BY <1>0, <2>2, <2>3, <2>4 DEF AsScanned
  <2>7. \A q \in Path \ Changed(log', run'[r].st, run'[r].upto) :
          \/ Folder(r)'[q] = run'[r].snap[q]
          \/ \E x \in run'[r].copied : \E n \in Numbers(x, AuthorOf[r]) :
               q = CopyName[<<x, AuthorOf[r], n>>]
    BY <1>0, <2>2, <2>3, <2>4 DEF AsScanned
  <2> QED BY <2>2, <2>5, <2>6, <2>7 DEF AsScanned
<1>6. CASE WriteCopy(r)
  <2>1. PICK p \in Path : CopiedAt(r, p)
    BY <1>6, WriteCopyEffect
  <2>2. /\ run'[r].phase = "apply" /\ run'[r].snap = run[r].snap
        /\ run'[r].todo = run[r].todo /\ run'[r].copied = run[r].copied \cup {p}
        /\ Changed(log', run'[r].st, run'[r].upto) = Changed(log, run[r].st, run[r].upto)
        /\ run[r].phase = "apply" /\ p \in run[r].todo
    BY <2>1 DEF CopiedAt, PlanKept, Turn
  <2>3. run'[r].todo \cap run'[r].copied \subseteq {p}
    BY <2>1, <2>2 DEF CopiedAt, Turn
  <2>4. Folder(r)[p] # Null
    <3>1. run[r].snap[p] # Null
      BY <2>1 DEF CopiedAt, Planned, PullAction
    <3> QED BY <1>0, <2>2, <3>1 DEF AsScanned
  <2>5. CopyBytes(r, p).text = Folder(r)[p].text /\ CopyBytes(r, p) # Null
    BY <2>4, CopyText
  <2>6. CASE UNCHANGED disk /\ IdenticalCopies(r, p, CopyBytes(r, p)) # {}
    <3>1. Folder(r)' = Folder(r)
      BY <2>6 DEF Folder
    <3>2. PICK n \in Numbers(p, AuthorOf[r]) :
            Folder(r)[CopyName[<<p, AuthorOf[r], n>>]] = CopyBytes(r, p)
      BY <2>6 DEF IdenticalCopies, Folder
    <3>3. CopyName[<<p, AuthorOf[r], n>>] \in Path \ {p}
      BY CopyAssumption
    <3>4. \E q \in Path \ {p} : Folder(r)'[q] # Null /\ Folder(r)'[q].text = Folder(r)'[p].text
      BY <2>5, <3>1, <3>2, <3>3
    <3>5. /\ \A q \in run'[r].todo : Folder(r)'[q] = run'[r].snap[q]
          /\ \A q \in Path \ Changed(log', run'[r].st, run'[r].upto) :
               \/ Folder(r)'[q] = run'[r].snap[q]
               \/ \E x \in run'[r].copied : \E m \in Numbers(x, AuthorOf[r]) :
                    q = CopyName[<<x, AuthorOf[r], m>>]
      BY <1>0, <2>2, <3>1 DEF AsScanned
    <3> QED BY <2>2, <2>3, <3>4, <3>5 DEF AsScanned
  <2>7. ASSUME NEW n \in FreeNumbers(p, AuthorOf[r],
                           Existing(log, run[r].st, run[r].snap, run[r].upto)),
               CopyName[<<p, AuthorOf[r], n>>] \in Path \ {p},
               Folder(r)'[CopyName[<<p, AuthorOf[r], n>>]] = CopyBytes(r, p),
               \A q \in Path \ {CopyName[<<p, AuthorOf[r], n>>]} :
                 Folder(r)'[q] = Folder(r)[q]
        PROVE  AsScanned(Folder(r)', log', run'[r], AuthorOf[r])
    <3> DEFINE copy == CopyName[<<p, AuthorOf[r], n>>]
    <3>1. /\ copy \notin Changed(log, run[r].st, run[r].upto)
          /\ n \in Numbers(p, AuthorOf[r])
      BY <1>0, <2>1, <2>2, CopyIsNew DEF CopiedAt
    <3>2. copy \notin run[r].todo
      BY <1>0, <2>2, <3>1 DEF RunShape
    <3>3. \A q \in run'[r].todo : Folder(r)'[q] = run'[r].snap[q]
      BY <1>0, <2>2, <2>7, <3>2 DEF AsScanned
    <3>4. \A q \in Path \ Changed(log', run'[r].st, run'[r].upto) :
            \/ Folder(r)'[q] = run'[r].snap[q]
            \/ \E x \in run'[r].copied : \E m \in Numbers(x, AuthorOf[r]) :
                 q = CopyName[<<x, AuthorOf[r], m>>]
      <4> SUFFICES ASSUME NEW q \in Path \ Changed(log, run[r].st, run[r].upto)
                   PROVE  \/ Folder(r)'[q] = run'[r].snap[q]
                          \/ \E x \in run'[r].copied : \E m \in Numbers(x, AuthorOf[r]) :
                               q = CopyName[<<x, AuthorOf[r], m>>]
        BY <2>2
      <4>1. CASE q = copy
        BY <2>2, <3>1, <4>1
      <4>2. CASE q # copy
        BY <1>0, <2>2, <2>7, <4>2 DEF AsScanned
      <4> QED BY <4>1, <4>2
    <3>5. \E q \in Path \ {p} : Folder(r)'[q] # Null /\ Folder(r)'[q].text = Folder(r)'[p].text
      BY <2>5, <2>7
    <3> QED BY <2>2, <2>3, <3>3, <3>4, <3>5 DEF AsScanned
  <2> QED BY <2>1, <2>6, <2>7 DEF CopiedAt
<1>7. CASE Retry(r)
  <2>1. PICK q \in Path : RetriedAt(r, q)
    BY <1>7, RetriedEffect
  <2>2. q \in InvalidPath[r] /\ q \notin Invalid(r)
    BY <2>1 DEF RetriedAt, RetryPath, RunKept, SkipsIn
  <2> QED BY <2>2 DEF Invalid
<1>8. CASE SavePull(r) \/ SavePush3(r) \/ Fail(r) \/ FailRename(r)
  <2>1. run'[r].phase \in {"idle", "push3"}
    BY <1>8, SavePullEffect, EndEffect, IdleRunFacts
  <2> QED BY <2>1 DEF AsScanned
<1> QED BY <1>1, <1>2, <1>3, <1>4, <1>5, <1>6, <1>7, <1>8 DEF Step

\* What a step leaves in the state, in memory or saved, is in the log too.
LEMMA OwnTold ==
  ASSUME TypeOK, RunBounded, NEW r \in Runner, RunKept(r),
         Step(r) \/ Fail(r), LogGrows
  PROVE  /\ ToldLog(run[r].st)' /\ SkipsIn(InvalidPath[r], run[r].st)'
         /\ ToldLog(Saved(r))' /\ SkipsIn(InvalidPath[r], Saved(r))'
<1> DEFINE Good(st) == /\ \A p \in Path : /\ st.files[p] \in InLog' \cup {Null}
                                          /\ st.skipped[p] \in InLog' \cup {Null}
                       /\ \A p \in Path : st.skipped[p] # Null => p \in InvalidPath[r]
<1>0. InLog \subseteq InLog'
  BY InLogGrows
<1>1. Good(run[r].st) /\ Good(Saved(r))
  BY <1>0 DEF RunKept, ToldLog, SkipsIn
<1>2. Good(FreshState)
  BY DEF FreshState, NothingAt
<1>3. Good(AfterPull(r))
  <2>1. ASSUME NEW p \in Path PROVE Remote(r, p) \in InLog \cup {Null}
    <3>1. run[r].upto \in 0..Len(log)
      BY LogLen DEF RunBounded, TypeOK, RunState
    <3> QED BY <3>1, SaidInLog DEF Remote
  <2>2. SkippedNames(r) \subseteq InvalidPath[r]
    BY DEF SkippedNames, Invalid
  <2>3. ASSUME NEW p \in Path
        PROVE  /\ AfterPull(r).files[p] \in {Remote(r, p), run[r].st.skipped[p], run[r].st.files[p]}
               /\ AfterPull(r).skipped[p] \in {Remote(r, p), run[r].st.skipped[p], Null}
               /\ AfterPull(r).skipped[p] = Remote(r, p) => p \in SkippedNames(r)
                    \/ AfterPull(r).skipped[p] \in {run[r].st.skipped[p], Null}
    BY DEF AfterPull
  <2> HIDE DEF Good
  <2>4. ASSUME NEW p \in Path
        PROVE  /\ AfterPull(r).files[p] \in InLog' \cup {Null}
               /\ AfterPull(r).skipped[p] \in InLog' \cup {Null}
    BY <1>0, <1>1, <2>1, <2>3 DEF Good
  <2>5. ASSUME NEW p \in Path, AfterPull(r).skipped[p] # Null
        PROVE  p \in InvalidPath[r]
    BY <1>1, <2>2, <2>3, <2>5 DEF Good
  <2> QED BY <2>4, <2>5 DEF Good
<1>4. CASE PushEntry(r)
  <2>1. PICK p \in Path :
          LET new == run[r].snap[p]
              out == PushOutcome(log, p, run[r].st.files[p], new)
          IN  /\ log' = IF out = "advance"
                        THEN Append(log, [path |-> p, hash |-> new, by |-> VaultOf[r]])
                        ELSE log
              /\ run'[r].st = AfterPush(run[r].st, p, new, out)
    BY <1>4, PushEffect
  <2> DEFINE new == run[r].snap[p]
             out == PushOutcome(log, p, run[r].st.files[p], new)
             st  == run[r].st
  <2>2. new \in Hash /\ VaultOf[r] \in Vault /\ st \in SyncState
    BY DEF TypeOK, RunState
  <2>3. out # "conflict" => new \in InLog' \cup {Null}
    <3>1. CASE out = "advance"
      <4> DEFINE e == [path |-> p, hash |-> new, by |-> VaultOf[r]]
      <4>1. e \in LogEntry /\ e.hash = new
        BY <2>2 DEF LogEntry
      <4>2. log' = Append(log, e)
        BY <2>1, <3>1
      <4> HIDE DEF e, new, out
      <4>3. IsAppend(log', log, e)
        BY <4>1, <4>2, AppendIsAppend DEF TypeOK
      <4>4. Len(log') \in 1..Len(log') /\ log'[Len(log')] = e
        BY <4>3, LogLen DEF IsAppend
      <4> QED BY <4>1, <4>4 DEF InLog
    <3>2. CASE out = "same"
      <4>1. new = HeadHash(log, p)
        BY <3>2 DEF PushOutcome
      <4>2. HeadHash(log, p) \in InLog \cup {Null}
        BY LogLen, SaidInLog DEF HeadHash
      <4> QED BY <1>0, <4>1, <4>2
    <3> QED BY <3>1, <3>2 DEF PushOutcome
  <2>4. run'[r].st = st \/ (out # "conflict" /\ run'[r].st = [st EXCEPT !.files[p] = new])
    BY <2>1 DEF AfterPush
  <2>5. ASSUME out # "conflict", NEW s, s = [st EXCEPT !.files[p] = new]
        PROVE  Good(s)
    <3>1. s.skipped = st.skipped /\ \A q \in Path : s.files[q] = IF q = p THEN new ELSE st.files[q]
      BY <2>2, <2>5 DEF SyncState
    <3> QED BY <1>1, <2>3, <2>5, <3>1
  <2>6. Good(run'[r].st)
    BY <1>1, <2>4, <2>5
  <2>7. Saved(r)' = Saved(r)
    BY <1>4, PushEffect DEF Saved
  <2> QED BY <1>1, <2>6, <2>7 DEF ToldLog, SkipsIn
<1>5. CASE ~PushEntry(r)
  <2>1. /\ run'[r].st \in {run[r].st, Saved(r), FreshState, AfterPull(r)}
        /\ Saved(r)' \in {run[r].st, Saved(r), AfterPull(r)}
    <3>1. CASE StartSync(r)
      BY <3>1, StartEffect DEF Saved
    <3>2. CASE SavePush(r)
      BY <3>2, SavePushEffect
    <3>3. CASE FetchPage(r)
      BY <3>3, FetchEffect DEF Saved
    <3>4. CASE ApplyDelete(r) \/ ApplyWrite(r) \/ ApplyDerived(r) \/ ReplaceConflict(r)
               \/ WriteCopy(r) \/ Retry(r)
      <4>1. UNCHANGED state
        BY <3>4 DEF ApplyDelete, ApplyWrite, ApplyDerived, ReplaceConflict, WriteCopy, Retry
      <4>2. PlanKept(r)
        <5>1. CASE WriteCopy(r)
          BY <5>1, CopyEffect DEF WriteCopy
        <5>2. CASE Retry(r)
          BY <5>2, RetriedEffect DEF RetriedAt
        <5>3. CASE ApplyDelete(r) \/ ApplyWrite(r) \/ ApplyDerived(r) \/ ReplaceConflict(r)
          BY <5>3, DoneEffect DEF ApplyDelete, ApplyWrite, ApplyDerived, ReplaceConflict
        <5> QED BY <3>4, <5>1, <5>2, <5>3
      <4> QED BY <4>1, <4>2 DEF PlanKept, Saved
    <3>5. CASE SavePull(r)
      <4>1. IdleRun.st = FreshState
        BY DEF IdleRun
      <4> QED BY <3>5, <4>1, SavePullEffect
    <3>6. CASE SavePush3(r) \/ Fail(r) \/ FailRename(r)
      <4>1. IdleRun.st = FreshState
        BY DEF IdleRun
      <4> QED BY <3>6, <4>1, EndEffect DEF Saved
    <3> QED BY <1>5, <3>1, <3>2, <3>3, <3>4, <3>5, <3>6 DEF Step
  <2> HIDE DEF Good
  <2>2. Good(run'[r].st) /\ Good(Saved(r)')
    BY <1>1, <1>2, <1>3, <2>1
  <2> QED BY <2>2 DEF Good, ToldLog, SkipsIn
<1> QED BY <1>4, <1>5

LEMMA InitKept == Init => KeptInv
<1> SUFFICES ASSUME Init PROVE KeptInv
  OBVIOUS
<1>1. NoLostEdit /\ \A v \in Vault : written[v] \cap GeneratedText = {}
  BY DEF Init, NoLostEdit, EditsKept
<1>2. ASSUME NEW r \in Runner PROVE RunKept(r)
  <2>1. run[r] = IdleRun /\ Saved(r) = FreshState
    BY DEF Init, Saved
  <2>2. IdleRun.st = FreshState /\ IdleRun.phase = "idle"
    BY DEF IdleRun
  <2>3. ToldLog(FreshState) /\ SkipsIn(InvalidPath[r], FreshState)
    BY DEF ToldLog, SkipsIn, FreshState, NothingAt
  <2>4. AsScanned(Folder(r), log, IdleRun, AuthorOf[r])
    BY <2>2 DEF AsScanned
  <2> QED BY <2>1, <2>2, <2>3, <2>4 DEF RunKept
<1> QED BY <1>1, <1>2 DEF KeptInv

\* A process that does not move keeps what it had.
LEMMA QuietKept ==
  ASSUME NEW q \in Runner, RunKept(q), LogGrows, run'[q] = run[q], Saved(q)' = Saved(q),
         Changed(log', run[q].st, run[q].upto) = Changed(log, run[q].st, run[q].upto),
         Folder(q)' = Folder(q) \/ run[q].phase = "idle"
  PROVE  RunKept(q)'
<1>1. ToldLog(run[q].st)' /\ ToldLog(Saved(q))'
  BY InLogGrows DEF RunKept, ToldLog
<1>2. SkipsIn(InvalidPath[q], run[q].st)' /\ SkipsIn(InvalidPath[q], Saved(q))'
  BY DEF RunKept, SkipsIn
<1>3. AsScanned(Folder(q), log, run[q], AuthorOf[q])'
  <2>1. CASE run[q].phase = "idle"
    BY <2>1 DEF AsScanned
  <2>2. CASE Folder(q)' = Folder(q)
    BY <2>2 DEF RunKept, AsScanned
  <2> QED BY <2>1, <2>2
<1> QED BY <1>1, <1>2, <1>3 DEF RunKept

LEMMA RunnerKept ==
  ASSUME OneProcess, IInv, ShapeInv, KeptInv, moved = {},
         NEW r \in Runner, Step(r) \/ Fail(r)
  PROVE  KeptInv'
<1>1. TypeOK /\ RunBounded /\ ShapeOf(r) /\ RunKept(r) /\ OthersStay(r)
  BY OthersStayStep DEF IInv, ShapeInv, KeptInv
<1>2. LogGrows
  BY <1>1, LogGrowsStep DEF Next
<1>3. written' = written /\ \A v \in Vault : written[v] \cap GeneratedText = {}
  BY <1>1 DEF OthersStay, user, KeptInv
<1>4. ASSUME NEW v \in Vault PROVE written[v] \subseteq Held(v)'
  <2>1. trash[v] \subseteq trash'[v]
    BY <1>1, TrashGrows
  <2>2. written[v] \subseteq Held(v)
    BY DEF KeptInv, NoLostEdit, EditsKept, Held
  <2>3. ASSUME NEW p \in Path, disk[v][p] # Null
        PROVE  disk[v][p].text \in Held(v)' \cup GeneratedText
    <3>1. CASE v = VaultOf[r]
      BY <1>1, <1>2, <2>3, <3>1, OwnTexts DEF Folder
    <3>2. CASE v # VaultOf[r]
      <4>1. disk'[v] = disk[v]
        BY <1>1, <3>2 DEF OthersStay
      <4> QED BY <2>3, <4>1, HeldMeansNext
    <3> QED BY <3>1, <3>2
  <2> QED BY <1>1, <1>2, <1>3, <2>1, <2>2, <2>3, StillHeld
<1>5. ASSUME NEW q \in Runner PROVE RunKept(q)'
  <2>1. CASE q = r
    <3>1. /\ ToldLog(run[r].st)' /\ SkipsIn(InvalidPath[r], run[r].st)'
          /\ ToldLog(Saved(r))' /\ SkipsIn(InvalidPath[r], Saved(r))'
      BY <1>1, <1>2, OwnTold
    <3>2. AsScanned(Folder(r), log, run[r], AuthorOf[r])'
      BY <1>1, OwnScanned
    <3> QED BY <2>1, <3>1, <3>2 DEF RunKept
  <2>2. CASE q # r
    <3>1. run'[q] = run[q] /\ Folder(q)' = Folder(q) /\ Saved(q)' = Saved(q)
      BY <1>1, <2>2 DEF OthersStay, OneProcess, Folder, Saved
    <3>2. Changed(log', run[q].st, run[q].upto) = Changed(log, run[q].st, run[q].upto)
      <4>1. \A p : /\ LastSeq(log', p, run[q].upto) = LastSeq(log, p, run[q].upto)
                   /\ HashAt(log', p, run[q].upto) = HashAt(log, p, run[q].upto)
        BY <1>1 DEF OthersStay
      <4>2. Changed(log', run[q].st, run[q].upto) = Changed(log, run[q].st, run[q].upto)
        BY <4>1 DEF Changed
      <4> QED BY <4>2
    <3>3. RunKept(q)
      BY DEF KeptInv
    <3> QED BY <1>2, <3>1, <3>2, <3>3, QuietKept
  <2> QED BY <2>1, <2>2
<1>6. NoLostEdit'
  BY <1>3, <1>4 DEF NoLostEdit, EditsKept, Held
<1> QED BY <1>3, <1>5, <1>6 DEF KeptInv

\* A user's change of one path: what he replaces there is not owed any more.
LEMMA UserTexts ==
  ASSUME TypeOK, NEW v \in Vault, NEW p \in Path, NEW c \in Hash, NEW fresh,
         disk' = [disk EXCEPT ![v][p] = c], UNCHANGED <<log, trash>>,
         written' = [written EXCEPT ![v] = WrittenWithout(v, p) \cup fresh],
         \A t \in fresh : c # Null /\ c.text = t,
         NoLostEdit
  PROVE  NoLostEdit'
<1>1. SUFFICES ASSUME NEW w \in Vault, NEW t \in written'[w] PROVE t \in Held(w)'
  BY DEF NoLostEdit, EditsKept, Held
<1>2. CASE w # v
  <2>1. disk'[w] = disk[w] /\ written'[w] = written[w] /\ trash' = trash /\ log' = log
    BY <1>2 DEF TypeOK
  <2>2. t \in Held(w)
    BY <2>1 DEF NoLostEdit, EditsKept, Held
  <2> QED BY <2>1, <2>2, HeldMeans, HeldMeansNext
<1>3. CASE w = v /\ t \in fresh
  <2>1. disk'[v][p] = c
    BY DEF TypeOK
  <2>2. c # Null /\ c.text = t
    BY <1>3
  <2> QED BY <1>3, <2>1, <2>2, HeldMeansNext
<1>4. CASE w = v /\ t \notin fresh
  <2>1. t \in written[v] /\ t # TextAt(v, p)
    BY <1>4 DEF WrittenWithout, TypeOK
  <2>2. t \in Held(v)
    BY <2>1 DEF NoLostEdit, EditsKept, Held
  <2>3. ASSUME NEW q \in Path, disk[v][q] # Null, disk[v][q].text = t
        PROVE  disk'[v][q] = disk[v][q]
    <3>1. q # p
      BY <2>1, <2>3 DEF TextAt
    <3> QED BY <3>1 DEF TypeOK
  <2> QED BY <1>4, <2>2, <2>3, HeldMeans, HeldMeansNext
<1> QED BY <1>2, <1>3, <1>4

LEMMA UserKept ==
  ASSUME EditDuringSync = {}, TypeOK, KeptInv, moved = {},
         NEW v \in Vault, UserStep(v)
  PROVE  KeptInv'
<1>1. PICK p \in Path, c \in Hash, fresh \in SUBSET (Text \ GeneratedText) :
        /\ disk' = [disk EXCEPT ![v][p] = c]
        /\ written' = [written EXCEPT ![v] = WrittenWithout(v, p) \cup fresh]
        /\ \A t \in fresh : c # Null /\ c.text = t
  <2>1. ASSUME NEW p \in EditPath[v], NEW t \in Text, Edit(v, p, t)
        PROVE  \E c \in Hash, fresh \in SUBSET (Text \ GeneratedText) :
                 /\ disk' = [disk EXCEPT ![v][p] = c]
                 /\ written' = [written EXCEPT ![v] = WrittenWithout(v, p) \cup fresh]
                 /\ \A x \in fresh : c # Null /\ c.text = x
    <3> DEFINE fresh == IF t \in GeneratedText THEN {} ELSE {t}
    <3>1. Plain(t) \in Hash /\ Plain(t) # Null /\ Plain(t).text = t
      <4>1. Plain(t) \in Content
        BY PlainType
      <4>2. Plain(t).text = t
        BY DEF Plain
      <4> QED BY <4>1, <4>2 DEF Hash
    <3>2. fresh \in SUBSET (Text \ GeneratedText) /\ \A x \in fresh : x = t
      OBVIOUS
    <3>3. /\ disk' = [disk EXCEPT ![v][p] = Plain(t)]
          /\ written' = [written EXCEPT ![v] = WrittenWithout(v, p) \cup fresh]
      BY <2>1 DEF Edit, PutFile
    <3> HIDE DEF fresh
    <3> QED BY <3>1, <3>2, <3>3
  <2>2. ASSUME NEW p \in Path, Delete(v, p)
        PROVE  /\ disk' = [disk EXCEPT ![v][p] = Null]
               /\ written' = [written EXCEPT ![v] = WrittenWithout(v, p) \cup {}]
    BY <2>2 DEF Delete
  <2>3. CASE \E p \in EditPath[v], t \in Text : Edit(v, p, t)
    <3>1. PICK p \in EditPath[v], t \in Text : Edit(v, p, t)
      BY <2>3
    <3>2. p \in Path
      OBVIOUS
    <3>3. \E c \in Hash, fresh \in SUBSET (Text \ GeneratedText) :
            /\ disk' = [disk EXCEPT ![v][p] = c]
            /\ written' = [written EXCEPT ![v] = WrittenWithout(v, p) \cup fresh]
            /\ \A x \in fresh : c # Null /\ c.text = x
      BY <2>1, <3>1
    <3> QED BY <3>2, <3>3
  <2>4. CASE \E p \in Path : Delete(v, p)
    <3>1. PICK p \in Path : Delete(v, p)
      BY <2>4
    <3>2. /\ disk' = [disk EXCEPT ![v][p] = Null]
          /\ written' = [written EXCEPT ![v] = WrittenWithout(v, p) \cup {}]
      BY <2>2, <3>1
    <3>3. Null \in Hash /\ {} \in SUBSET (Text \ GeneratedText)
      BY DEF Hash
    <3> QED BY <3>2, <3>3
  <2> QED BY <2>3, <2>4 DEF UserStep
<1>2. UNCHANGED <<log, trash, state, run, moved>> /\ ~Syncing(v)
  BY DEF UserStep, Edit, Delete, MayEdit
<1>3. NoLostEdit'
  BY <1>1, <1>2, UserTexts DEF KeptInv
<1>4. ASSUME NEW w \in Vault PROVE written'[w] \cap GeneratedText = {}
  <2>1. written[w] \cap GeneratedText = {}
    BY DEF KeptInv
  <2>2. written'[w] \subseteq written[w] \cup fresh
    BY <1>1 DEF TypeOK, WrittenWithout
  <2> QED BY <1>1, <2>1, <2>2
<1>5. ASSUME NEW q \in Runner PROVE RunKept(q)'
  <2>1. LogGrows
    BY <1>2, LogLen DEF LogGrows
  <2>2. Folder(q)' = Folder(q) \/ run[q].phase = "idle"
    <3>1. CASE VaultOf[q] = v
      BY <1>2, <3>1 DEF Syncing
    <3>2. CASE VaultOf[q] # v
      BY <1>1, <3>2 DEF TypeOK, Folder
    <3> QED BY <3>1, <3>2
  <2>3. run'[q] = run[q] /\ Saved(q)' = Saved(q) /\ log' = log
    BY <1>2 DEF Saved
  <2>4. RunKept(q)
    BY DEF KeptInv
  <2> QED BY <2>1, <2>2, <2>3, <2>4, QuietKept
<1> QED BY <1>3, <1>4, <1>5 DEF KeptInv

LEMMA NextKept ==
  ASSUME OneProcess, EditDuringSync = {}, IInv, ShapeInv, KeptInv, [Next]_vars
  PROVE  KeptInv'
<1> SUFFICES ASSUME moved' = {} PROVE KeptInv'
  BY DEF KeptInv
<1>1. ASSUME NEW r \in Runner, Step(r) \/ Fail(r) PROVE KeptInv'
  <2>1. moved = {}
    BY <1>1, OthersStayStep DEF OthersStay, user, IInv
  <2> QED BY <1>1, <2>1, RunnerKept
<1>2. ASSUME NEW v \in Vault, UserStep(v) PROVE KeptInv'
  <2>1. moved = {}
    BY <1>2 DEF UserStep, Edit, Delete
  <2> QED BY <1>2, <2>1, UserKept DEF IInv
<1>3. ASSUME NEW r \in Runner, Move(r) PROVE FALSE
  BY <1>3 DEF Move
<1>4. CASE UNCHANGED vars
  <2>1. moved = {}
    BY <1>4 DEF vars
  <2>2. UNCHANGED <<log, disk, trash, state, run, written, moved>>
    BY <1>4 DEF vars
  <2>3. NoLostEdit' /\ \A v \in Vault : written'[v] \cap GeneratedText = {}
    BY <2>1, <2>2 DEF KeptInv, NoLostEdit, EditsKept, OnDisk, InLog
  <2>4. ASSUME NEW q \in Runner PROVE RunKept(q)'
    BY <2>1, <2>2 DEF KeptInv, RunKept, Folder, Saved, ToldLog, InLog
  <2> QED BY <2>3, <2>4 DEF KeptInv
<1> QED BY <1>1, <1>2, <1>3, <1>4 DEF Next

\* With one process on each vault, no edits during a sync and no folder moved
\* to another platform, whatever a user wrote and did not replace himself is
\* in his vault, in its trash or in the group's history, after any failures.
THEOREM NothingIsLost ==
  ASSUME OneProcess, EditDuringSync = {}
  PROVE  Spec => [](moved = {} => EditsBetweenSyncsKept)
<1>1. Init => ShapeInv /\ KeptInv
  BY InitShape, InitKept
<1>2. IInv /\ (ShapeInv /\ KeptInv) /\ [Next]_vars => (ShapeInv /\ KeptInv)'
  BY NextShape, NextKept DEF OneProcess, OneOnWindows
<1>3. KeptInv => (moved = {} => EditsBetweenSyncsKept)
  BY DEF KeptInv, NoLostEdit, EditsKept, EditsBetweenSyncsKept
<1> QED BY <1>1, <1>2, <1>3, Invariance, PTL DEF Spec

-----------------------------------------------------------------------------
(* Only users delete, whatever fails.  A vault pushes a tombstone of what  *)
(* it takes for synced and does not find in its folder; so whatever it     *)
(* takes for synced is in the folder, or was deleted by some user.         *)

Gone(p)    == \E v \in Vault : <<v, p>> \in removed
Safe(v, p) == disk[v][p] # Null \/ Gone(p)

LogGone    == \A i \in 1..Len(log) : log[i].hash = Null => Gone(log[i].path)
StatesSafe == \A v \in Vault, p \in Path : state[v].files[p] # Null => Safe(v, p)

SafeRun(v, l, R, invalid) ==
  R.phase # "idle" =>
    \A p \in Path :
      /\ R.st.files[p] # Null \/ R.snap[p] # Null => Safe(v, p)
      /\ R.st.files[p] # Null /\ R.snap[p] = Null => Gone(p)
      /\ R.phase = "apply" /\ SyncedSoFar(l, R, invalid, p) # Null => Safe(v, p)

RunsSafe == \A r \in Runner : SafeRun(VaultOf[r], log, run[r], Invalid(r))

GoneInv == LogGone /\ StatesSafe /\ RunsSafe

\* What is safe stays safe: a file is only taken away where a user did.
StaysSafe ==
  /\ \A p : Gone(p) => Gone(p)'
  /\ \A v \in Vault, p \in Path : Safe(v, p) => Safe(v, p)'

\* The last change of a path is a tombstone only if some user deleted it.
LEMMA RemoteGone ==
  ASSUME TypeOK, RunBounded, LogGone, NEW r \in Runner, NEW p \in Path,
         p \in Changed(log, run[r].st, run[r].upto), Remote(r, p) = Null
  PROVE  Gone(p)
<1> DEFINE u == run[r].upto
           k == LastSeq(log, p, u)
<1>1. log \in Seq(LogEntry) /\ u \in 0..Len(log) /\ Len(log) \in Nat /\ run[r].st.cursor \in Nat
  BY LogLen DEF TypeOK, RunBounded, RunState, SyncState
<1>2. k > run[r].st.cursor
  BY DEF Changed
<1>3. k \in 1..Len(log) /\ log[k].path = p
  <2>1. k \in 0..u /\ (k # 0 => log[k].path = p)
    BY <1>1, LastSeqMax
  <2> HIDE DEF k, u
  <2> QED BY <1>1, <1>2, <2>1
<1>4. log[k].hash = Null
  BY <1>3 DEF Remote, HashAt
<1> QED BY <1>3, <1>4 DEF LogGone

\* SafeRun, unfolded for a run and for the next one.
LEMMA SafeRunStays ==
  ASSUME StaysSafe, NEW v \in Vault, NEW l, NEW R, NEW invalid, SafeRun(v, l, R, invalid)
  PROVE  /\ R.phase # "idle" => \A p \in Path :
              /\ R.st.files[p] # Null \/ R.snap[p] # Null => Safe(v, p)'
              /\ R.st.files[p] # Null /\ R.snap[p] = Null => Gone(p)'
         /\ R.phase = "apply" => \A p \in Path : SyncedSoFar(l, R, invalid, p) # Null => Safe(v, p)'
BY DEF StaysSafe, SafeRun

\* A scan finds what is safe, or some user deleted it.
LEMMA ScanSafe ==
  ASSUME TypeOK, NEW r \in Runner, ShapeOf(r), NEW p \in Path, NEW h,
         h # Null => Safe(VaultOf[r], p)
  PROVE  /\ h # Null \/ Scan(r)[p] # Null => Safe(VaultOf[r], p)
         /\ h # Null /\ Scan(r)[p] = Null => Gone(p)
<1>1. Scan(r)[p] = disk[VaultOf[r]][p]
  BY ScanIsFolder DEF Folder
<1> QED BY <1>1 DEF Safe

LEMMA OwnStaysSafe ==
  ASSUME TypeOK, RunBounded, LogGone, NEW r \in Runner, ShapeOf(r), Step(r) \/ Fail(r)
  PROVE  StaysSafe
<1> DEFINE v == VaultOf[r]
<1>1. OthersStay(r)
  BY OthersStayStep
<1>2. removed' = removed /\ v \in Vault
  BY <1>1 DEF OthersStay, user, TypeOK
<1>3. \A p : Gone(p)' <=> Gone(p)
  BY <1>2 DEF Gone
<1>4. SUFFICES ASSUME NEW p \in Path, Folder(r)[p] # Null, Folder(r)'[p] = Null
               PROVE  Gone(p)
  <2>1. ASSUME NEW w \in Vault, NEW p \in Path, Safe(w, p) PROVE Safe(w, p)'
    <3>1. CASE w = v
      BY <1>3, <1>4, <2>1, <3>1 DEF Safe, Folder
    <3>2. CASE w # v
      BY <1>1, <1>3, <2>1, <3>2 DEF Safe, OthersStay
    <3> QED BY <3>1, <3>2
  <2> QED BY <1>3, <2>1 DEF StaysSafe
<1>5. CASE UNCHANGED files
  BY <1>4, <1>5 DEF files, Folder
<1>6. CASE ApplyDelete(r) \/ ApplyWrite(r) \/ ApplyDerived(r) \/ ReplaceConflict(r)
  <2>1. PICK q \in Path : AppliedAt(r, q)
    BY <1>6, AppliedEffect
  <2>2. p = q /\ Remote(r, q) = Null
    BY <1>4, <2>1 DEF AppliedAt, Folder
  <2>3. q \in Changed(log, run[r].st, run[r].upto)
    BY <2>1 DEF AppliedAt, ShapeOf, RunShape
  <2> QED BY <2>2, <2>3, RemoteGone
<1>7. CASE WriteCopy(r)
  <2>1. PICK q \in Path : CopiedAt(r, q)
    BY <1>7, WriteCopyEffect
  <2>2. CopyBytes(r, q) # Null
    <3> DEFINE c == IF disk[v][q] = Null THEN Plain(EmptyText) ELSE disk[v][q]
    <3>1. CopyBytes(r, q) = AddConflictFrontmatter(c, q, run[r].st.files[q])
      BY DEF CopyBytes
    <3>2. c \in Content
      BY PlainType, <1>2 DEF TypeOK, Hash
    <3> HIDE DEF c
    <3>3. run[r].st.files[q] \in Hash
      BY DEF TypeOK, RunState, SyncState
    <3>4. CopyBytes(r, q) \in Content
      BY <3>1, <3>2, <3>3, FrontmatterType
    <3> QED BY <3>4
  <2>3. Folder(r)'[p] \in {Folder(r)[p], CopyBytes(r, q)}
    BY <2>1 DEF CopiedAt, Folder
  <2> QED BY <1>4, <2>2, <2>3
<1>8. CASE Retry(r)
  <2>1. PICK q \in Path : RetriedAt(r, q)
    BY <1>8, RetriedEffect
  <2> QED BY <1>4, <2>1 DEF RetriedAt, RetryPath
<1>9. CASE StartSync(r) \/ PushEntry(r) \/ SavePush(r) \/ FetchPage(r) \/ SavePull(r)
             \/ SavePush3(r) \/ Fail(r) \/ FailRename(r)
  BY <1>5, <1>9 DEF StartSync, PushEntry, SavePush, FetchPage, SavePull, SavePush3, Fail, FailRename
<1> QED BY <1>6, <1>7, <1>8, <1>9 DEF Step

\* What r takes for synced after its own step, and what its vault's state does.
RunSafe(r) ==
  /\ run'[r].phase # "idle" =>
       \A p \in Path :
         /\ run'[r].st.files[p] # Null \/ run'[r].snap[p] # Null => Safe(VaultOf[r], p)'
         /\ run'[r].st.files[p] # Null /\ run'[r].snap[p] = Null => Gone(p)'
  /\ run'[r].phase = "apply" =>
       \A p \in Path : SyncedSoFar(log', run'[r], Invalid(r), p) # Null => Safe(VaultOf[r], p)'
  /\ \A p \in Path : Saved(r)'.files[p] # Null => Safe(VaultOf[r], p)'

LEMMA OwnRunSafe ==
  ASSUME TypeOK, TypeOK', RunBounded, GoneInv, NEW r \in Runner, ShapeOf(r), Step(r) \/ Fail(r)
  PROVE  RunSafe(r)
<1> DEFINE v == VaultOf[r]
           N(p) == SyncedSoFar(log', run'[r], Invalid(r), p)
           O(p) == SyncedSoFar(log, run[r], Invalid(r), p)
<1>0. /\ v \in Vault /\ run[r] \in RunState /\ run'[r] \in RunState
      /\ RunShape(log, run[r], Invalid(r))
  BY DEF ShapeOf, TypeOK
<1>1. StaysSafe
  BY OwnStaysSafe DEF GoneInv
<1>2. \A p \in Path : /\ Safe(v, p) => Safe(v, p)'
                      /\ Gone(p) => Gone(p)'
                      /\ Saved(r).files[p] # Null => Safe(v, p)
  BY <1>0, <1>1 DEF StaysSafe, GoneInv, StatesSafe, Saved
<1>3. /\ run[r].phase # "idle" => \A p \in Path :
           /\ run[r].st.files[p] # Null \/ run[r].snap[p] # Null => Safe(v, p)'
           /\ run[r].st.files[p] # Null /\ run[r].snap[p] = Null => Gone(p)'
      /\ run[r].phase = "apply" => \A p \in Path : O(p) # Null => Safe(v, p)'
  <2>1. SafeRun(v, log, run[r], Invalid(r))
    BY DEF GoneInv, RunsSafe
  <2> QED BY <1>0, <1>1, <2>1, SafeRunStays
<1>4. \A p \in Path : Folder(r)'[p] # Null => Safe(v, p)'
  BY DEF Safe, Folder
<1>5. ASSUME UNCHANGED state
      PROVE  \A p \in Path : Saved(r)'.files[p] # Null => Safe(v, p)'
  BY <1>2, <1>5 DEF Saved
<1> HIDE DEF N, O
<1>6. CASE StartSync(r)
  <2>1. ASSUME NEW p \in Path
        PROVE  /\ Saved(r).files[p] # Null \/ Scan(r)[p] # Null => Safe(v, p)
               /\ Saved(r).files[p] # Null /\ Scan(r)[p] = Null => Gone(p)
    BY <1>2, ScanSafe
  <2> QED BY <1>2, <1>5, <1>6, <2>1, StartEffect DEF RunSafe
<1>7. CASE PushEntry(r)
  <2>1. PICK p \in Path :
          LET new == run[r].snap[p]
              out == PushOutcome(log, p, run[r].st.files[p], new)
          IN  run'[r].st = AfterPush(run[r].st, p, new, out)
    BY <1>7, PushEffect
  <2>2. \A q \in Path : run'[r].st.files[q] \in {run[r].st.files[q], run[r].snap[q]}
    <3> DEFINE out == PushOutcome(log, p, run[r].st.files[p], run[r].snap[p])
    <3>1. run'[r].st = AfterPush(run[r].st, p, run[r].snap[p], out)
      BY <2>1
    <3> HIDE DEF out
    <3> QED BY <1>0, <3>1 DEF AfterPush, RunState, SyncState
  <2>3. /\ run'[r].phase = run[r].phase /\ run[r].phase \in {"push", "push3"}
        /\ run'[r].snap = run[r].snap /\ UNCHANGED state
    BY <1>7, PushEffect
  <2> QED BY <1>3, <1>5, <2>2, <2>3 DEF RunSafe
<1>8. CASE SavePush(r)
  <2>1. /\ run[r].phase = "push" /\ run'[r].phase = "fetch"
        /\ run'[r].st = run[r].st /\ run'[r].snap = run[r].snap
        /\ Saved(r)' = run[r].st
    BY <1>8, SavePushEffect
  <2> QED BY <1>3, <2>1 DEF RunSafe
<1>9. CASE FetchPage(r)
  <2>1. /\ run[r].phase = "fetch" /\ UNCHANGED <<log, state>>
        /\ run'[r].st = run[r].st /\ run'[r].snap = run[r].snap
        /\ run'[r].retried = {}
    BY <1>0, <1>9, FetchEffect DEF RunShape
  <2>2. ASSUME run'[r].phase = "apply", NEW p \in Path, N(p) # Null PROVE Safe(v, p)'
    <3>1. CASE p \in Changed(log, run'[r].st, run'[r].upto) \ run'[r].todo
      <4>1. PullAction(log, run'[r].st, run'[r].snap, run'[r].upto, p) = "noop"
        BY <1>9, <2>2, <3>1, FetchEffect
      <4>2. HashAt(log, p, run'[r].upto) = run[r].snap[p]
        BY <2>1, <4>1 DEF PullAction
      <4>3. N(p) = HashAt(log, p, run'[r].upto)
        BY <2>1, <3>1, <4>1 DEF N, SyncedSoFar
      <4> QED BY <1>3, <2>1, <2>2, <4>2, <4>3
    <3>2. CASE p \notin Changed(log, run'[r].st, run'[r].upto) \ run'[r].todo
      <4>1. N(p) = run'[r].st.files[p]
        BY <2>1, <3>2 DEF N, SyncedSoFar
      <4> QED BY <1>3, <2>1, <2>2, <4>1
    <3> QED BY <3>1, <3>2
  <2> QED BY <1>3, <1>5, <2>1, <2>2 DEF RunSafe, N
<1>10. ASSUME PlanKept(r), run[r].phase = "apply", UNCHANGED <<log, state>>,
              \A p \in Path : N(p) # Null => Safe(v, p)'
       PROVE  RunSafe(r)
  BY <1>3, <1>5, <1>10 DEF PlanKept, RunSafe, N
<1>11. CASE ApplyDelete(r) \/ ApplyWrite(r) \/ ApplyDerived(r) \/ ReplaceConflict(r)
  <2>1. PICK p \in Path : AppliedAt(r, p)
    BY <1>11, AppliedEffect
  <2>2. ASSUME NEW q \in Path, N(q) # Null PROVE Safe(v, q)'
    <3>1. CASE q # p \/ (p \in Invalid(r) /\ Planned(r, p) = "write")
      <4>1. N(q) = O(q)
        BY <2>1, <3>1 DEF AppliedAt, PlanKept, N, O, SyncedSoFar, Planned
      <4> QED BY <1>3, <2>1, <2>2, <4>1 DEF AppliedAt
    <3>2. CASE q = p /\ ~(p \in Invalid(r) /\ Planned(r, p) = "write")
      <4>1. p \in Changed(log, run[r].st, run[r].upto)
        BY <1>0, <2>1 DEF AppliedAt, RunShape
      <4>2. N(p) = Remote(r, p)
        BY <2>1, <3>2, <4>1 DEF AppliedAt, PlanKept, N, SyncedSoFar, Planned, Remote
      <4> QED BY <1>4, <2>1, <2>2, <3>2, <4>2 DEF AppliedAt
    <3> QED BY <3>1, <3>2
  <2> QED BY <1>10, <2>1, <2>2 DEF AppliedAt
<1>12. CASE WriteCopy(r)
  <2>1. PICK p \in Path : CopiedAt(r, p)
    BY <1>12, WriteCopyEffect
  <2>2. run[r].phase = "apply" /\ PlanKept(r) /\ UNCHANGED <<log, state>>
    BY <2>1 DEF CopiedAt, Turn
  <2>3. \A q : N(q) = O(q)
    BY <2>1 DEF CopiedAt, PlanKept, N, O, SyncedSoFar
  <2> QED BY <1>3, <1>10, <2>2, <2>3
<1>13. CASE Retry(r)
  <2>1. PICK p \in Path : RetriedAt(r, p)
    BY <1>13, RetriedEffect
  <2>2. ASSUME NEW q \in Path, N(q) # Null PROVE Safe(v, q)'
    <3>1. CASE q # p
      <4>1. N(q) = O(q)
        BY <2>1, <3>1 DEF RetriedAt, PlanKept, N, O, SyncedSoFar
      <4> QED BY <1>3, <2>1, <2>2, <4>1 DEF RetriedAt
    <3>2. CASE q = p
      BY <1>4, <2>1, <3>2 DEF RetriedAt, RetryPath
    <3> QED BY <3>1, <3>2
  <2> QED BY <1>10, <2>1, <2>2 DEF RetriedAt
<1>14. CASE SavePull(r)
  <2>1. /\ run[r].phase = "apply" /\ run[r].todo = {}
        /\ Saved(r)' = AfterPull(r)
    BY <1>14, SavePullEffect
  <2>2. \/ run'[r].phase = "idle"
        \/ /\ run'[r].phase = "push3" /\ run'[r].st = AfterPull(r)
           /\ run'[r].snap = Scan(r)
    BY <1>14, SavePullEffect, IdleRunFacts
  <2>3. ASSUME NEW p \in Path
        PROVE  /\ AfterPull(r).files[p] # Null => Safe(v, p)
               /\ AfterPull(r).files[p] # Null \/ Scan(r)[p] # Null => Safe(v, p)
               /\ AfterPull(r).files[p] # Null /\ Scan(r)[p] = Null => Gone(p)
    <3>1. AfterPull(r).files[p] = O(p)
      BY <2>1, SyncedInTheEnd DEF O
    <3>2. SafeRun(v, log, run[r], Invalid(r))
      BY DEF GoneInv, RunsSafe
    <3>3. O(p) # Null => Safe(v, p)
      BY <2>1, <3>2 DEF SafeRun, O
    <3> QED BY <3>1, <3>3, ScanSafe
  <2> QED BY <1>2, <2>1, <2>2, <2>3 DEF RunSafe
<1>15. CASE SavePush3(r) \/ Fail(r) \/ FailRename(r)
  <2>1. /\ run'[r].phase = "idle"
        /\ (run[r].phase = "push3" /\ Saved(r)' = run[r].st) \/ UNCHANGED state
    BY <1>15, EndEffect, IdleRunFacts
  <2> QED BY <1>3, <1>5, <2>1 DEF RunSafe
<1> QED BY <1>6, <1>7, <1>8, <1>9, <1>11, <1>12, <1>13, <1>14, <1>15 DEF Step

LEMMA InitGone == Init => GoneInv
BY IdleRunFacts DEF Init, GoneInv, LogGone, StatesSafe, RunsSafe, SafeRun, FreshState, NothingAt

\* A change of the log that a step of r makes.
LEMMA OwnLogGone ==
  ASSUME TypeOK, RunBounded, GoneInv, StaysSafe, NEW r \in Runner, Step(r) \/ Fail(r)
  PROVE  LogGone'
<1>0. \A p : Gone(p) => Gone(p)'
  BY DEF StaysSafe
<1>1. \A i \in 1..Len(log) : log[i].hash = Null => \A p : p = log[i].path => Gone(p)'
  <2> SUFFICES ASSUME NEW i \in 1..Len(log), log[i].hash = Null, NEW p, p = log[i].path
               PROVE  Gone(p)'
    OBVIOUS
  <2>1. Gone(p)
    BY DEF GoneInv, LogGone
  <2> QED BY <1>0, <2>1
<1>2. CASE UNCHANGED log
  BY <1>1, <1>2 DEF LogGone
<1>3. CASE ~UNCHANGED log
  <2>1. PushEntry(r)
    BY <1>3 DEF Step, Fail, StartSync, SavePush, FetchPage, ApplyDelete, ApplyWrite,
      ApplyDerived, WriteCopy, ReplaceConflict, Retry, SavePull, SavePush3, FailRename
  <2>2. PICK p \in Path :
          LET new == run[r].snap[p]
              out == PushOutcome(log, p, run[r].st.files[p], new)
          IN  log' = IF out = "advance"
                     THEN Append(log, [path |-> p, hash |-> new, by |-> VaultOf[r]])
                     ELSE log
    BY <2>1, PushEffect
  <2> DEFINE new == run[r].snap[p]
             e   == [path |-> p, hash |-> new, by |-> VaultOf[r]]
  <2>3. log' = Append(log, e) /\ PushOutcome(log, p, run[r].st.files[p], new) = "advance"
    BY <1>3, <2>2
  <2>4. new # run[r].st.files[p]
    BY <2>3 DEF PushOutcome
  <2>5. new = Null => Gone(p)'
    <3>1. run[r].phase # "idle"
      BY <2>1 DEF PushEntry
    <3>2. SafeRun(VaultOf[r], log, run[r], Invalid(r))
      BY DEF GoneInv, RunsSafe
    <3> QED BY <2>4, <3>1, <3>2 DEF SafeRun, StaysSafe
  <2>6. e \in LogEntry /\ e.path = p /\ e.hash = new
    BY DEF LogEntry, TypeOK, RunState
  <2> HIDE DEF e, new
  <2>7. IsAppend(log', log, e)
    BY <2>3, <2>6, AppendIsAppend DEF TypeOK
  <2>8. \A i \in 1..Len(log') : (i \in 1..Len(log) /\ log'[i] = log[i]) \/ log'[i] = e
    BY <2>7 DEF IsAppend
  <2> QED BY <1>1, <2>5, <2>6, <2>8 DEF LogGone
<1> QED BY <1>2, <1>3

LEMMA UserSafe ==
  ASSUME TypeOK, NEW v \in Vault, UserStep(v)
  PROVE  StaysSafe
<1>1. ASSUME NEW x \in Path, NEW t \in Text, Edit(v, x, t) PROVE StaysSafe
  <2>1. disk' = [disk EXCEPT ![v][x] = Plain(t)] /\ removed' = removed
    BY <1>1 DEF Edit, PutFile
  <2>2. Plain(t) # Null
    BY PlainType
  <2>3. \A p : Gone(p)' <=> Gone(p)
    BY <2>1 DEF Gone
  <2>4. \A w \in Vault, p \in Path : disk[w][p] # Null => disk'[w][p] # Null
    <3> SUFFICES ASSUME NEW w \in Vault, NEW p \in Path PROVE disk[w][p] # Null => disk'[w][p] # Null
      OBVIOUS
    <3> HIDE DEF Plain
    <3>1. disk'[w][p] = IF w = v /\ p = x THEN Plain(t) ELSE disk[w][p]
      BY <2>1 DEF TypeOK
    <3> QED BY <2>2, <3>1
  <2> QED BY <2>3, <2>4 DEF StaysSafe, Safe
<1>2. ASSUME NEW x \in Path, Delete(v, x) PROVE StaysSafe
  <2>1. disk' = [disk EXCEPT ![v][x] = Null] /\ removed' = removed \cup {<<v, x>>}
    BY <1>2 DEF Delete
  <2>2. \A p : Gone(p) => Gone(p)'
    BY <2>1 DEF Gone
  <2>3. Gone(x)'
    BY <2>1 DEF Gone
  <2>4. \A w \in Vault, p \in Path : p # x => disk'[w][p] = disk[w][p]
    BY <2>1 DEF TypeOK
  <2> QED BY <2>2, <2>3, <2>4 DEF StaysSafe, Safe
<1> QED BY <1>1, <1>2, VaultAssumption DEF UserStep

LEMMA NextGone ==
  ASSUME IInv, IInv', ShapeInv, GoneInv, [Next]_vars
  PROVE  GoneInv'
<1>0. TypeOK /\ TypeOK' /\ RunBounded /\ LogGone /\ StatesSafe /\ RunsSafe
  BY DEF IInv, GoneInv
<1>1. ASSUME NEW r \in Runner, Step(r) \/ Fail(r) PROVE GoneInv'
  <2>1. OthersStay(r) /\ ShapeOf(r)
    BY <1>0, <1>1, OthersStayStep DEF ShapeInv
  <2>2. StaysSafe
    BY <1>0, <1>1, <2>1, OwnStaysSafe
  <2>3. RunSafe(r)
    BY <1>0, <1>1, <2>1, OwnRunSafe
  <2>4. LogGone'
    BY <1>0, <1>1, <2>2, OwnLogGone
  <2>5. StatesSafe'
    <3> SUFFICES ASSUME NEW v \in Vault, NEW p \in Path, state'[v].files[p] # Null PROVE Safe(v, p)'
      BY DEF StatesSafe
    <3>1. CASE v = VaultOf[r]
      BY <2>3, <3>1 DEF RunSafe, Saved
    <3>2. CASE v # VaultOf[r]
      <4>1. state'[v] = state[v]
        BY <2>1, <3>2 DEF OthersStay
      <4>2. Safe(v, p)
        BY <1>0, <4>1 DEF StatesSafe
      <4> QED BY <2>2, <4>2 DEF StaysSafe
    <3> QED BY <3>1, <3>2
  <2>6. ASSUME NEW q \in Runner PROVE SafeRun(VaultOf[q], log, run[q], Invalid(q))'
    <3>0. Invalid(q)' = Invalid(q)
      BY <2>1 DEF OthersStay, user, Invalid
    <3>1. CASE q = r
      BY <2>3, <3>0, <3>1 DEF RunSafe, SafeRun
    <3>2. CASE q # r
      <4>1. run'[q] = run[q]
        BY <2>1, <3>2 DEF OthersStay
      <4>2. \A p : SyncedSoFar(log', run[q], Invalid(q), p) = SyncedSoFar(log, run[q], Invalid(q), p)
        <5>1. \A p : /\ LastSeq(log', p, run[q].upto) = LastSeq(log, p, run[q].upto)
                     /\ HashAt(log', p, run[q].upto) = HashAt(log, p, run[q].upto)
          BY <2>1 DEF OthersStay
        <5>2. \A invalid, p : SyncedSoFar(log', run[q], invalid, p) = SyncedSoFar(log, run[q], invalid, p)
          BY <5>1, SyncedStays
        <5> QED BY <5>2
      <4>3. SafeRun(VaultOf[q], log, run[q], Invalid(q)) /\ VaultOf[q] \in Vault
        BY <1>0 DEF RunsSafe
      <4>4. /\ run[q].phase # "idle" => \A p \in Path :
                 /\ run[q].st.files[p] # Null \/ run[q].snap[p] # Null => Safe(VaultOf[q], p)'
                 /\ run[q].st.files[p] # Null /\ run[q].snap[p] = Null => Gone(p)'
            /\ run[q].phase = "apply" => \A p \in Path :
                 SyncedSoFar(log, run[q], Invalid(q), p) # Null => Safe(VaultOf[q], p)'
        BY <2>2, <4>3, SafeRunStays
      <4> QED BY <3>0, <4>1, <4>2, <4>4 DEF SafeRun
    <3> QED BY <3>1, <3>2
  <2> QED BY <2>4, <2>5, <2>6 DEF GoneInv, RunsSafe
<1>2. ASSUME \/ \E v \in Vault : UserStep(v)
             \/ \E r \in Runner : Move(r)
             \/ UNCHANGED vars
      PROVE  GoneInv'
  <2>1. UNCHANGED <<log, state, run>>
    BY <1>2 DEF UserStep, Edit, Delete, Move, vars
  <2>2. StaysSafe
    <3>1. CASE \E v \in Vault : UserStep(v)
      BY <1>0, <3>1, UserSafe
    <3>2. CASE (\E r \in Runner : Move(r)) \/ UNCHANGED vars
      <4>1. UNCHANGED <<disk, removed>>
        BY <3>2 DEF Move, files, vars
      <4> QED BY <4>1 DEF StaysSafe, Safe, Gone
    <3> QED BY <1>2, <3>1, <3>2
  <2>3. LogGone' /\ StatesSafe'
    BY <1>0, <2>1, <2>2 DEF LogGone, StatesSafe, StaysSafe
  <2>4. ASSUME NEW q \in Runner PROVE SafeRun(VaultOf[q], log, run[q], Invalid(q))'
    <3>1. run[q].phase # "idle" => Invalid(q)' = Invalid(q)
      BY <1>2 DEF UserStep, Edit, Delete, Move, vars, Invalid
    <3>2. SafeRun(VaultOf[q], log, run[q], Invalid(q)) /\ VaultOf[q] \in Vault
      BY <1>0 DEF RunsSafe
    <3>3. /\ run[q].phase # "idle" => \A p \in Path :
                /\ run[q].st.files[p] # Null \/ run[q].snap[p] # Null => Safe(VaultOf[q], p)'
                /\ run[q].st.files[p] # Null /\ run[q].snap[p] = Null => Gone(p)'
          /\ run[q].phase = "apply" => \A p \in Path :
                SyncedSoFar(log, run[q], Invalid(q), p) # Null => Safe(VaultOf[q], p)'
      BY <2>2, <3>2, SafeRunStays
    <3>4. log' = log /\ run' = run
      BY <2>1
    <3> QED BY <3>1, <3>3, <3>4 DEF SafeRun
  <2> QED BY <2>3, <2>4 DEF GoneInv, RunsSafe
<1> QED BY <1>1, <1>2 DEF Next

\* A note that no user of any vault deleted has no tombstone in the group,
\* however many syncs fail at whatever point and however many processes sync
\* a vault, but for one whose platform cannot store some names.
THEOREM OnlyUsersDelete ==
  ASSUME OneOnWindows
  PROVE  Spec => []DeletesAreUsers
<1>1. Init => ShapeInv /\ GoneInv
  BY InitShape, InitGone
<1>2. IInv /\ IInv' /\ (ShapeInv /\ GoneInv) /\ [Next]_vars => (ShapeInv /\ GoneInv)'
  BY NextShape, NextGone
<1>3. GoneInv => DeletesAreUsers
  BY DEF GoneInv, LogGone, Gone, DeletesAreUsers
<1> QED BY <1>1, <1>2, <1>3, Invariance, PTL DEF Spec

=============================================================================
