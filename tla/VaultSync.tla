----------------------------- MODULE VaultSync -----------------------------
(***************************************************************************)
(* syncOnce (core/src/vault-sync/runner.ts), run by several vaults against *)
(* one parche group while their users edit.  A Runner is one caller of     *)
(* syncOnce: an MCP server or a CLI process working on vault VaultOf[r].   *)
(* Two runners of one vault are two processes, which share no lock; the    *)
(* exclusion inside one process is withVaultLock's (module VaultMutex).    *)
(*                                                                         *)
(* One sync is: read state and scan; push; save the state; fetch every     *)
(* page; apply the plan file by file; save; push the conflict copies;      *)
(* save.  Each await that another actor can slip into is a step boundary,  *)
(* and Fail stands for every way a sync ends early: an exception, an abort *)
(* signal or a killed process.                                             *)
(***************************************************************************)
EXTENDS SyncPlan

CONSTANTS
  Vault, Runner, VaultOf,
  AuthorOf,        \* AuthorOf[r]: opts.localAuthor of r's syncs
  InvalidPath,     \* InvalidPath[r]: names r's platform cannot store, {} on
                   \* every platform but Windows
  DerivedPath,     \* paths of chamba's own indexes (isDerivedPathPattern)
  GeneratedText,   \* texts marked source: chamba (isChambaGenerated)
  EmptyText,       \* the empty file
  EditPath,        \* EditPath[v]: the paths the user of v edits (bound)
  PageSize,        \* the limit of one GET changes page
  EditDuringSync,  \* the vaults whose user may edit while a sync of his runs
  ReuseText,       \* may a user write a text that was written before?
  MaxEdits, MaxDeletes, MaxFails, \* bounds on user actions and failures
  MaxMishaps       \* and on deletes and broken-off syncs together

ASSUME VaultAssumption ==
  /\ VaultOf \in [Runner -> Vault]
  /\ AuthorOf \in [Runner -> Author]
  /\ InvalidPath \in [Runner -> SUBSET Path]
  /\ EditPath \in [Vault -> SUBSET Path]
  /\ DerivedPath \subseteq Path
  /\ GeneratedText \subseteq Text
  /\ EmptyText \in Text
  /\ PageSize \in Nat \ {0}
  /\ EditDuringSync \subseteq Vault /\ ReuseText \in BOOLEAN
  /\ MaxEdits \in Nat /\ MaxDeletes \in Nat
  /\ MaxFails \in Nat /\ MaxMishaps \in Nat

\* The suffix of a copy makes no valid name invalid.
ASSUME CopyValidAssumption ==
  \A r \in Runner : \A p \in Path \ InvalidPath[r] :
    \A n \in Numbers(p, AuthorOf[r]) :
      CopyName[<<p, AuthorOf[r], n>>] \notin InvalidPath[r]

VARIABLES
  log,      \* the group's change log on the server
  disk,     \* disk[v][p]: the bytes of p in v's folder, or Null
  trash,    \* trash[v]: what v's .trash folder holds
  state,    \* state[v]: v's state.json
  run,      \* run[r]: the sync r has in progress
  moved,    \* the runners whose folder was moved to a POSIX machine
  written,  \* ghost: the texts v's user wrote and did not replace himself
  removed,  \* ghost: the <<v, p>> a user deleted
  seen,     \* ghost: every version that was ever in v's folder
  used,     \* ghost: every text the user of v ever wrote
  edits, deletes, fails  \* the actions counted against the bounds

vars  == <<log, disk, trash, state, run, moved, written, removed, seen, used,
           edits, deletes, fails>>
files == <<disk, trash, seen>>
user  == <<moved, written, removed, used, edits, deletes>>

NothingAt == [p \in Path |-> Null]
FreshState == [cursor |-> 0, files |-> NothingAt, skipped |-> NothingAt]

\* st is the SyncState in memory and snap the snapshot of the last scan;
\* todo holds the paths the phase still has to treat, upto the fetch
\* cursor, copied the conflicts whose copy is written, retried the skipped
\* paths downloaded after all.
RunState == [phase: {"idle", "push", "fetch", "apply", "push3"},
             st: SyncState, snap: [Path -> Hash], todo: SUBSET Path,
             upto: Nat, copied: SUBSET Path, retried: SUBSET Path]

IdleRun == [phase |-> "idle", st |-> FreshState, snap |-> NothingAt,
            todo |-> {}, upto |-> 0, copied |-> {}, retried |-> {}]

LogEntry == [path: Path, hash: Hash, by: Vault]

TypeOK ==
  /\ log \in Seq(LogEntry)
  /\ disk \in [Vault -> [Path -> Hash]]
  /\ trash \in [Vault -> SUBSET Content]
  /\ state \in [Vault -> SyncState]
  /\ run \in [Runner -> RunState]
  /\ moved \subseteq Runner
  /\ written \in [Vault -> SUBSET Text]
  /\ removed \subseteq Vault \X Path
  /\ seen \in [Vault -> SUBSET Content]
  /\ used \in [Vault -> SUBSET Text]
  /\ edits \in Nat /\ deletes \in Nat /\ fails \in Nat

Init ==
  /\ log = <<>>
  /\ disk = [v \in Vault |-> NothingAt]
  /\ trash = [v \in Vault |-> {}]
  /\ state = [v \in Vault |-> FreshState]
  /\ run = [r \in Runner |-> IdleRun]
  /\ moved = {}
  /\ written = [v \in Vault |-> {}]
  /\ removed = {}
  /\ seen = [v \in Vault |-> {}]
  /\ used = [v \in Vault |-> {}]
  /\ edits = 0 /\ deletes = 0 /\ fails = 0

\* Bytes c are written at p in v's folder.
PutFile(v, p, c) ==
  /\ disk' = [disk EXCEPT ![v][p] = c]
  /\ seen' = [seen EXCEPT ![v] = @ \cup {c}]

\* The file at p, if there is one, moves to v's .trash.
ToTrash(v, p) ==
  /\ trash' = [trash EXCEPT ![v] = @ \cup ({disk[v][p]} \ {Null})]
  /\ disk' = [disk EXCEPT ![v][p] = Null]
  /\ UNCHANGED seen

-----------------------------------------------------------------------------
(* The users.                                                              *)

Syncing(v) == \E r \in Runner : VaultOf[r] = v /\ run[r].phase # "idle"

MayEdit(v) == Syncing(v) => v \in EditDuringSync

TextAt(v, p) == IF disk[v][p] = Null THEN Null ELSE disk[v][p].text

\* The texts the user of v is still owed once he replaces or deletes p.
WrittenWithout(v, p) == written[v] \ {TextAt(v, p)}

\* isInvalidPath, on the platform r runs on now.
Invalid(r) == IF r \in moved THEN {} ELSE InvalidPath[r]

\* A user saves text t at p (or chamba's reindex regenerates a derived page).
Edit(v, p, t) ==
  /\ edits < MaxEdits
  /\ MayEdit(v)
  /\ \A r \in Runner : VaultOf[r] = v => p \notin Invalid(r)
  /\ (\E w \in Vault : t \in used[w]) => ReuseText
  /\ TextAt(v, p) # t
  /\ t \in GeneratedText => p \in DerivedPath
  /\ PutFile(v, p, Plain(t))
  /\ written' = [written EXCEPT ![v] =
       WrittenWithout(v, p) \cup (IF t \in GeneratedText THEN {} ELSE {t})]
  /\ used' = [used EXCEPT ![v] = @ \cup {t}]
  /\ edits' = edits + 1
  /\ UNCHANGED <<log, trash, state, run, moved, removed, deletes, fails>>

\* A user deletes p.
Delete(v, p) ==
  /\ deletes < MaxDeletes /\ deletes + fails < MaxMishaps
  /\ MayEdit(v)
  /\ disk[v][p] # Null
  /\ disk' = [disk EXCEPT ![v][p] = Null]
  /\ written' = [written EXCEPT ![v] = WrittenWithout(v, p)]
  /\ removed' = removed \cup {<<v, p>>}
  /\ deletes' = deletes + 1
  /\ UNCHANGED <<log, trash, seen, state, run, moved, used, edits, fails>>

\* The folder of r, state.json included, is moved to a POSIX machine: the
\* names that were invalid are valid from the next sync on.
Move(r) ==
  /\ InvalidPath[r] # {} /\ r \notin moved
  /\ run[r].phase = "idle"
  /\ moved' = moved \cup {r}
  /\ UNCHANGED <<log, files, state, run, written, removed, used,
                 edits, deletes, fails>>

-----------------------------------------------------------------------------
(* Phase 1 and phase 3: push.                                              *)

\* scanLocal.  A name the platform cannot store is not found by its scan.
Scan(r) == [p \in Path |-> IF p \in Invalid(r) THEN Null
                           ELSE disk[VaultOf[r]][p]]

\* syncOnce starts: readState, scanLocal, planPush.
StartSync(r) ==
  LET st == state[VaultOf[r]]
  IN  /\ run[r].phase = "idle"
      /\ run' = [run EXCEPT ![r] =
           [IdleRun EXCEPT !.phase = "push", !.st = st, !.snap = Scan(r),
                           !.todo = PlanPush(st, Scan(r)),
                           !.upto = st.cursor]]
      /\ UNCHANGED <<log, files, state, fails, user>>

\* pushAll, one entry: the server answers, and an ok advances the state in
\* memory (applyPushResults).  Batches of one entry are the finest the
\* batchSize option allows.
PushEntry(r) ==
  /\ run[r].phase \in {"push", "push3"}
  /\ \E p \in NextToPush(run[r].todo, run[r].snap) :
       LET base == run[r].st.files[p]
           new  == run[r].snap[p]
           out  == PushOutcome(log, p, base, new)
       IN  /\ log' = IF out = "advance"
                     THEN Append(log, [path |-> p, hash |-> new,
                                       by |-> VaultOf[r]])
                     ELSE log
           /\ run' = [run EXCEPT
                ![r].todo = @ \ {p},
                ![r].st   = AfterPush(@, p, new, out)]
  /\ UNCHANGED <<files, state, fails, user>>

\* The state is saved after phase 1; fetching starts at its cursor.
SavePush(r) ==
  /\ run[r].phase = "push" /\ run[r].todo = {}
  /\ state' = [state EXCEPT ![VaultOf[r]] = run[r].st]
  /\ run' = [run EXCEPT ![r].phase = "fetch"]
  /\ UNCHANGED <<log, files, fails, user>>

-----------------------------------------------------------------------------
(* Phase 2: pull.                                                          *)

\* The action planned for p, and what the server's changes say of it.
Planned(r, p) == PullAction(log, run[r].st, run[r].snap, run[r].upto, p)
Remote(r, p)  == HashAt(log, p, run[r].upto)
Rank(r, p)    == ActionRank(Planned(r, p))

\* Skipped paths that no fetched change concerns: they are downloaded again
\* once every action is done, if this platform can store their name.
RetryPath(r) == {p \in Path \ Invalid(r) : run[r].st.skipped[p] # Null}
                  \ Changed(log, run[r].st, run[r].upto)

\* GET changes, one page.  The last page is followed, in the same turn, by
\* planPull; "noop" actions touch nothing and are not listed.
FetchPage(r) ==
  LET end == PageEnd(log, run[r].upto, PageSize)
      st  == run[r].st
      act(p) == PullAction(log, st, run[r].snap, end, p)
  IN  /\ run[r].phase = "fetch"
      /\ run' = [run EXCEPT
           ![r].upto  = end,
           ![r].phase = IF end = Len(log) THEN "apply" ELSE @,
           ![r].todo  = IF end = Len(log)
                        THEN {p \in Changed(log, st, end) : act(p) # "noop"}
                        ELSE @]
      /\ UNCHANGED <<log, files, state, fails, user>>

\* The actions are executed by rank; a conflict whose copy is written is
\* finished before anything else.
Turn(r, p) ==
  /\ run[r].phase = "apply"
  /\ p \in run[r].todo
  /\ \A q \in run[r].todo : Rank(r, p) <= Rank(r, q)
  /\ run[r].todo \cap run[r].copied \subseteq {p}

Done(r, p) == run' = [run EXCEPT ![r].todo = @ \ {p}]

\* `delete`: the file, if there is one, moves to .trash.
ApplyDelete(r) ==
  \E p \in Path :
    /\ Turn(r, p) /\ Planned(r, p) = "delete"
    /\ ToTrash(VaultOf[r], p)
    /\ Done(r, p)
    /\ UNCHANGED <<log, state, fails, user>>

\* Mutant: an existing file is left alone.
ApplyWriteIfAbsent(r) ==
  \E p \in Path :
    /\ Turn(r, p) /\ Planned(r, p) = "write"
    /\ IF p \in Invalid(r) \/ disk[VaultOf[r]][p] # Null
       THEN UNCHANGED <<disk, seen>>
       ELSE PutFile(VaultOf[r], p, Remote(r, p))
    /\ Done(r, p)
    /\ UNCHANGED <<log, trash, state, fails, user>>

\* `write`: the download replaces whatever is at p now, unless the name is
\* invalid here and the action is skipped.
ApplyWrite(r) ==
  \E p \in Path :
    /\ Turn(r, p) /\ Planned(r, p) = "write"
    /\ IF p \in Invalid(r)
       THEN UNCHANGED <<disk, seen>>
       ELSE PutFile(VaultOf[r], p, Remote(r, p))
    /\ Done(r, p)
    /\ UNCHANGED <<log, trash, state, fails, user>>

\* Mutant: a human page under a derived name counts as generated.
AcceptsByName(r, p) == p \in DerivedPath

\* A conflict on a derived page whose local version is generated or gone:
\* the remote version is accepted without a copy.
AcceptsRemote(r, p) ==
  p \in DerivedPath /\ TextAt(VaultOf[r], p) \in GeneratedText \cup {Null}

ApplyDerived(r) ==
  \E p \in Path :
    /\ Turn(r, p) /\ Planned(r, p) = "conflict"
    /\ p \notin run[r].copied
    /\ AcceptsRemote(r, p)
    /\ IF Remote(r, p) # Null
       THEN PutFile(VaultOf[r], p, Remote(r, p)) /\ UNCHANGED trash
       ELSE ToTrash(VaultOf[r], p)
    /\ Done(r, p)
    /\ UNCHANGED <<log, state, fails, user>>

\* Mutant: no search for an earlier copy.
NoCopies(r, p, bytes) == {}

\* The copies of p by this author that are on disk with these bytes.
IdenticalCopies(r, p, bytes) ==
  {n \in Numbers(p, AuthorOf[r]) :
     disk[VaultOf[r]][CopyName[<<p, AuthorOf[r], n>>]] = bytes}

\* What a conflict keeps of p: the bytes now there, none if the file has gone
\* since the scan.
CopyBytes(r, p) ==
  LET now == disk[VaultOf[r]][p]
  IN  AddConflictFrontmatter(IF now = Null THEN Plain(EmptyText) ELSE now,
                             p, run[r].st.files[p])

\* First half of a conflict: its bytes are kept in a copy, unless an identical
\* copy exists.  (The numbers a copy can take are bounded.)
WriteCopy(r) ==
  \E p \in Path :
    LET bytes == CopyBytes(r, p)
        taken == Existing(log, run[r].st, run[r].snap, run[r].upto)
    IN  /\ Turn(r, p) /\ Planned(r, p) = "conflict"
        /\ p \notin run[r].copied
        /\ ~AcceptsRemote(r, p)
        /\ FreeNumbers(p, AuthorOf[r], taken) # {}
        /\ \E copy \in Path :
             /\ copy = ConflictCopyPath(p, AuthorOf[r], taken)
             /\ IF IdenticalCopies(r, p, bytes) # {}
                THEN UNCHANGED <<disk, seen>>
                ELSE PutFile(VaultOf[r], copy, bytes)
        /\ run' = [run EXCEPT ![r].copied = @ \cup {p}]
        /\ UNCHANGED <<log, trash, state, fails, user>>

\* Second half: the remote version replaces p, or p moves to .trash.  With
\* nothing left to move the rename fails and ends the sync (see Fail).
ReplaceConflict(r) ==
  \E p \in Path :
    /\ Turn(r, p) /\ p \in run[r].copied
    /\ IF Remote(r, p) # Null
       THEN PutFile(VaultOf[r], p, Remote(r, p)) /\ UNCHANGED trash
       ELSE /\ disk[VaultOf[r]][p] # Null
            /\ ToTrash(VaultOf[r], p)
    /\ Done(r, p)
    /\ UNCHANGED <<log, state, fails, user>>

\* A skipped path is downloaded after all.
Retry(r) ==
  \E p \in RetryPath(r) \ run[r].retried :
    /\ run[r].phase = "apply" /\ run[r].todo = {}
    /\ PutFile(VaultOf[r], p, run[r].st.skipped[p])
    /\ run' = [run EXCEPT ![r].retried = @ \cup {p}]
    /\ UNCHANGED <<log, trash, state, fails, user>>

\* Mutant: a skipped file is recorded as written.
NothingSkipped(r) == {}

\* The writes left out because this platform cannot store the name.
SkippedNames(r) ==
  {p \in Changed(log, run[r].st, run[r].upto) \cap Invalid(r) :
     Planned(r, p) = "write"}

\* applyPullPlan and the reconciliation of the skipped paths: a skipped
\* action keeps the old synced hash and remembers the remote one, every
\* other action advances to the remote hash and forgets a pending skip.
AfterPull(r) ==
  LET st      == run[r].st
      changed == Changed(log, st, run[r].upto)
      skips   == SkippedNames(r)
      retried == run[r].retried
  IN  [cursor  |-> run[r].upto,
       files   |-> [p \in Path |->
                      IF p \in changed \ skips THEN Remote(r, p)
                      ELSE IF p \in retried THEN st.skipped[p]
                      ELSE st.files[p]],
       skipped |-> [p \in Path |->
                      IF p \in skips THEN Remote(r, p)
                      ELSE IF p \in changed \cup retried THEN Null
                      ELSE st.skipped[p]]]

\* The state is saved after phase 2, a skipped path whose download failed
\* being left skipped; with conflicts the vault is scanned again and what
\* differs, the copies above all, is pushed.
SavePull(r) ==
  LET st   == AfterPull(r)
      todo == PlanPush(st, Scan(r))
  IN  /\ run[r].phase = "apply" /\ run[r].todo = {}
      /\ IF RetryPath(r) \subseteq run[r].retried
         THEN UNCHANGED fails
         ELSE fails < MaxFails /\ fails' = fails + 1
      /\ state' = [state EXCEPT ![VaultOf[r]] = st]
      /\ run' = [run EXCEPT ![r] =
           IF run[r].copied = {} \/ todo = {} THEN IdleRun
           ELSE [IdleRun EXCEPT !.phase = "push3", !.st = st,
                                !.snap = Scan(r), !.todo = todo,
                                !.upto = st.cursor]]
      /\ UNCHANGED <<log, files, user>>

\* The state is saved after phase 3, and the sync returns.
SavePush3(r) ==
  /\ run[r].phase = "push3" /\ run[r].todo = {}
  /\ state' = [state EXCEPT ![VaultOf[r]] = run[r].st]
  /\ run' = [run EXCEPT ![r] = IdleRun]
  /\ UNCHANGED <<log, files, fails, user>>

\* The sync ends early: nothing further is saved.
Fail(r) ==
  /\ run[r].phase # "idle"
  /\ fails < MaxFails /\ deletes + fails < MaxMishaps
  /\ fails' = fails + 1
  /\ run' = [run EXCEPT ![r] = IdleRun]
  /\ UNCHANGED <<log, files, state, user>>

\* The rename of a file that is gone throws: no bound, the code does it, but
\* it counts as a failure.
FailRename(r) ==
  \E p \in Path :
    /\ Turn(r, p) /\ p \in run[r].copied
    /\ Remote(r, p) = Null /\ disk[VaultOf[r]][p] = Null
    /\ run' = [run EXCEPT ![r] = IdleRun]
    /\ fails' = fails + 1
    /\ UNCHANGED <<log, files, state, user>>

-----------------------------------------------------------------------------

Step(r) ==
  \/ StartSync(r) \/ PushEntry(r) \/ SavePush(r) \/ FetchPage(r)
  \/ ApplyDelete(r) \/ ApplyWrite(r) \/ ApplyDerived(r) \/ WriteCopy(r)
  \/ ReplaceConflict(r) \/ Retry(r) \/ SavePull(r) \/ SavePush3(r)
  \/ FailRename(r)

UserStep(v) ==
  \/ \E p \in EditPath[v], t \in Text \ {EmptyText} : Edit(v, p, t)
  \/ \E p \in Path : Delete(v, p)

Next ==
  \/ \E v \in Vault : UserStep(v)
  \/ \E r \in Runner : Step(r) \/ Fail(r) \/ Move(r)

Spec == Init /\ [][Next]_vars

\* Every process keeps syncing (autosync on use, or the user asking), and a
\* sync that was started runs on.
FairSpec == Spec /\ \A r \in Runner : WF_vars(Step(r))

-----------------------------------------------------------------------------
(* What must hold.                                                         *)

Texts(contents) == {c.text : c \in contents \ {Null}}
OnDisk(v) == {disk[v][p] : p \in Path}
InLog     == {log[i].hash : i \in 1..Len(log)}

\* Whatever the user of v wrote and did not himself replace is still to be
\* found: in his vault, in its trash, or among the versions the group received.
EditsKept(v) ==
  written[v] \subseteq Texts(OnDisk(v)) \cup Texts(trash[v]) \cup Texts(InLog)

\* "Conflicts become copies, never overwrites", as the README says it: whatever
\* any user wrote is kept, also what he saved while a sync of his was running.
NoLostEdit == \A v \in Vault : EditsKept(v)

\* The same for the users who do not save while their own vault syncs, over
\* whole behaviours: phases, pushes and edits of the others at any of their
\* steps, and failures between any two steps.
EditsBetweenSyncsKept == \A v \in Vault \ EditDuringSync : EditsKept(v)

\* A saved cursor never claims more than the vault knows: a path whose last
\* change is at or below the cursor has that change's hash as syncedHash, or
\* is remembered as skipped with it.  Otherwise that change would never be
\* fetched again and every later push of the path would conflict forever.
Known(st, p) == IF st.skipped[p] # Null THEN st.skipped[p] ELSE st.files[p]

CursorIsHonest(l, st) ==
  /\ st.cursor <= Len(l)
  /\ \A p \in Path : HeadSeq(l, p) <= st.cursor => HeadHash(l, p) = Known(st, p)

CursorSound ==
  /\ \A v \in Vault : CursorIsHonest(log, state[v])
  /\ \A r \in Runner : run[r].phase # "idle" => CursorIsHonest(log, run[r].st)

\* Vaults that are up to date and unmodified agree on every path that
\* neither of them is skipping.
AtRest(v) ==
  /\ ~Syncing(v)
  /\ state[v].cursor = Len(log)
  /\ disk[v] = state[v].files

AtRestAgree ==
  \A v, w \in Vault : AtRest(v) /\ AtRest(w) =>
    \A p \in Path :
      state[v].skipped[p] = Null /\ state[w].skipped[p] = Null =>
        disk[v][p] = disk[w][p]

\* A note leaves the group only where a user, of whichever vault, deleted it:
\* trashing, conflicts, skipped names, failed and half-done syncs never turn
\* into a tombstone of their own.
DeletesAreUsers ==
  \A i \in 1..Len(log) :
    log[i].hash = Null => \E v \in Vault : <<v, log[i].path>> \in removed

\* Until a sync fails a vault changes the group only as its own users asked:
\* they delete, and a version that is not a conflict copy was written by a user
\* of the vault that pushed it.  (A sync that fails after writing a download and
\* before saving its state makes the vault push that download as if it were a
\* local edit: over a tombstone of the meantime it is accepted.)
OnlyUsersPublish ==
  fails = 0 =>
    \A i \in 1..Len(log) :
      LET v == log[i].by
          c == log[i].hash
      IN  IF c = Null THEN <<v, log[i].path>> \in removed
                      ELSE c.of = Null => c.text \in used[v]

\* A version is only ever replaced in the group by a vault that had it: the
\* entry pushed over another vault's version of a path comes from a vault in
\* whose folder that version has been.
NoBlindOverwrite ==
  \A i \in 1..Len(log) :
    LET over == HashAt(log, log[i].path, i - 1)
    IN  over # Null => over \in seen[log[i].by]

\* A conflict replayed after a failure reuses the copy it already wrote.
NoDuplicateCopies ==
  \A v \in Vault : \A p, q \in Path :
    p # q /\ disk[v][p] # Null /\ disk[v][p].of # Null
      => disk[v][p] # disk[v][q]

\* Once users stop, the vaults end up equal to the server and to each other;
\* of a name a platform cannot store, the vault remembers the last version.
Converged ==
  \A v \in Vault, p \in Path :
    \/ disk[v][p] = HeadHash(log, p)
    \/ state[v].skipped[p] # Null /\ state[v].skipped[p] = HeadHash(log, p)

EventuallyConverged == <>[]Converged

=============================================================================
