--------------------------- MODULE AutoSyncProofs ---------------------------
(***************************************************************************)
(* For any notes, topics and runs: a reindex that an autosync owes is done *)
(* or marked when the sync is over, no text of the user is lost, and a     *)
(* complete run that nothing disturbed leaves the pages exact (at the end).*)
(*                                                                         *)
(* OwedMarked is not inductive, for an autosync that reindexes owes what   *)
(* it has not marked, and consumes a mark it did not set when it is done.  *)
(* Marked says where a mark may be missing, Serving that this is exactly   *)
(* where the autosync runs, and Recent that such a run, once it has read   *)
(* the notes, has read those that the autosync changed.                    *)
(*                                                                         *)
(* That the runs of Locked exclude each other, and that one sync runs in a *)
(* vault at a time, is what withVaultLock is for: the last section proves  *)
(* it of VaultMutex, and that VaultMutex implements KeyedLock.             *)
(***************************************************************************)
EXTENDS AutoSync, VaultMutex, TLAPS

IsRun(r) == r = [at |-> r.at, meta |-> r.meta, graph |-> r.graph, todo |-> r.todo,
                 orphans |-> r.orphans, adopt |-> r.adopt, folder |-> r.folder,
                 since |-> r.since, alone |-> r.alone]

Runs == /\ run = [a \in Runner |-> run[a]]
        /\ \A a \in Runner : IsRun(run[a])
        /\ pending \in BOOLEAN /\ owed \in BOOLEAN

Serving == sync = "reindexing" <=> run["autosync"].at # "idle"
Recent  == run["autosync"].at \notin {"idle", "begun"} => run["autosync"].since
Marked  == owed /\ sync # "reindexing" => pending

AInv == Runs /\ Serving /\ Recent /\ Marked

LEMMA IdleRun == IsRun(Idle) /\ Idle.at = "idle"
BY DEF Idle, IsRun

LEMMA InitAInv == Init => AInv
<1> SUFFICES ASSUME Init PROVE AInv
  OBVIOUS
<1>1. run["autosync"].at = "idle" /\ Runs
  BY IdleRun DEF Init, Runs, Runner, Locked
<1> QED BY <1>1 DEF Init, AInv, Serving, Recent, Marked

\* A step in which the autosync neither begins, reads nor ends, and that leaves
\* the marks alone.
LEMMA AsideStep ==
  ASSUME AInv, Runs', UNCHANGED <<pending, owed>>, sync' = sync \/ {sync, sync'} \subseteq {"idle", "running", "changed"},
         run'["autosync"].at = run["autosync"].at,
         run'["autosync"].since = run["autosync"].since
  PROVE  AInv'
BY DEF AInv, Serving, Recent, Marked

LEMMA UserStep ==
  ASSUME AInv,
         \/ \E n \in Note, m \in Metas : EditNote(n, m)
         \/ \E n \in Note : RemoveNote(n)
         \/ \E d \in Docs : EditVocabulary(d)
         \/ \E f \in Folders : WriteIndex(f)
         \/ SyncBegin \/ SyncFail
  PROVE  AInv'
<1>1. /\ run' = run \/ run' = Disturbed
      /\ UNCHANGED <<pending, owed>>
      /\ sync' = sync \/ {sync, sync'} \subseteq {"idle", "running", "changed"}
  BY DEF EditNote, RemoveNote, EditVocabulary, WriteIndex, SyncBegin, SyncFail
<1>2. Runs' /\ run'["autosync"].at = run["autosync"].at /\ run'["autosync"].since = run["autosync"].since
  <2>1. CASE run' = run
    BY <1>1, <2>1 DEF AInv, Runs, IsRun, Runner, Locked
  <2>2. CASE run' = Disturbed
    BY <1>1, <2>2 DEF AInv, Runs, IsRun, Disturbed, Runner, Locked
  <2> QED BY <1>1, <2>1, <2>2
<1> QED BY <1>1, <1>2, AsideStep

\* A download comes before the autosync reindexes.
LEMMA DownloadStep ==
  ASSUME AInv, NEW n \in Note, NEW m \in Metas, Download(n, m)
  PROVE  AInv'
<1>1. /\ UNCHANGED <<pending, owed>> /\ sync = "running" /\ sync' = "changed"
      /\ run["autosync"].at = "idle"
  BY DEF Download, AInv, Serving
<1>2. Runs'
  <2>1. \A a \in Runner : IsRun(run'[a])
    BY DEF Download, AInv, Runs, IsRun, Disturbed
  <2> QED BY <1>1, <2>1 DEF Download, AInv, Runs
<1>3. run'["autosync"].at = "idle"
  <2>1. run'["autosync"] = [Disturbed["autosync"] EXCEPT !.since = FALSE]
    BY DEF Download, Runner, Locked
  <2>2. Disturbed["autosync"] = [run["autosync"] EXCEPT !.alone = run["autosync"].at \in {"idle", "begun"} /\ @]
    BY DEF Disturbed, Runner, Locked
  <2>3. IsRun(run["autosync"])
    BY DEF AInv, Runs, Runner, Locked
  <2>4. Disturbed["autosync"].at = "idle" /\ IsRun(Disturbed["autosync"])
    BY <1>1, <2>2, <2>3 DEF IsRun
  <2> QED BY <2>1, <2>4 DEF IsRun
<1> QED BY <1>1, <1>2, <1>3 DEF AInv, Serving, Recent, Marked

\* A step of a run changes that run alone, and no mark.
Forward(a) ==
  /\ UNCHANGED <<sync, pending, owed>>
  /\ run[a].at # "idle" /\ run'[a].at \notin {"idle", "begun"}
  /\ run'[a].since \/ (run[a].at # "begun" /\ run'[a].since = run[a].since)
  /\ run' = [run EXCEPT ![a] = run'[a]]
  /\ IsRun(run'[a])

LEMMA ReindexStep ==
  ASSUME AInv, NEW a \in Runner, Reindex(a)
  PROVE  AInv'
<1>1. Forward(a)
  <2>1. CASE ReadNotes(a)
    <3>1. IsRun(run'[a])
      BY <2>1 DEF ReadNotes, AInv, Runs, IsRun
    <3>2. run' = [run EXCEPT ![a] = run'[a]]
      BY <2>1 DEF ReadNotes, AInv, Runs
    <3>3. run'[a].at = "read"
      BY <2>1 DEF ReadNotes, AInv, Runs, IsRun
    <3>4. run'[a].since
      BY <2>1 DEF ReadNotes, AInv, Runs, IsRun
    <3> QED BY <2>1, <3>1, <3>2, <3>3, <3>4 DEF ReadNotes, Forward
  <2>2. CASE BuildGraph(a)
    <3>1. IsRun(run'[a])
      BY <2>2 DEF BuildGraph, AInv, Runs, IsRun
    <3>4. run'[a].since = run[a].since
      BY <2>2 DEF BuildGraph, AInv, Runs, IsRun
    <3>2. run' = [run EXCEPT ![a] = run'[a]]
      BY <2>2 DEF BuildGraph, AInv, Runs
    <3>3. run'[a].at \in {"adopt", "write"}
      BY <2>2 DEF BuildGraph, AInv, Runs, IsRun
    <3> QED BY <2>2, <3>1, <3>2, <3>3, <3>4 DEF BuildGraph, Forward
  <2>3. CASE DetectManual(a)
    <3>1. PICK todo : run' = [run EXCEPT ![a].at = "write", ![a].todo = todo]
      BY <2>3 DEF DetectManual
    <3>2. run'[a] = [run[a] EXCEPT !.at = "write", !.todo = todo] /\ IsRun(run[a])
      BY <3>1 DEF AInv, Runs
    <3>3. IsRun(run'[a])
      BY <3>2 DEF IsRun
    <3>4. run'[a].at = "write"
      BY <3>2 DEF IsRun
    <3>5. run'[a].since = run[a].since
      BY <3>2 DEF IsRun
    <3>6. run' = [run EXCEPT ![a] = run'[a]]
      BY <3>1 DEF AInv, Runs
    <3> QED BY <2>3, <3>3, <3>4, <3>5, <3>6 DEF DetectManual, Forward
  <2>4. CASE WritePage(a)
    <3>1. PICK todo, orphans : run' = [run EXCEPT ![a].todo = todo, ![a].orphans = orphans]
      BY <2>4 DEF WritePage, AInv, Runs, IsRun
    <3>2. run'[a] = [run[a] EXCEPT !.todo = todo, !.orphans = orphans] /\ IsRun(run[a])
      BY <3>1 DEF AInv, Runs
    <3>3. IsRun(run'[a])
      BY <3>2 DEF IsRun
    <3>4. run'[a].since = run[a].since
      BY <3>2 DEF IsRun
    <3>5. run'[a].at = "write"
      BY <2>4, <3>2 DEF WritePage, IsRun
    <3>6. run' = [run EXCEPT ![a] = run'[a]]
      BY <3>1 DEF AInv, Runs
    <3> QED BY <2>4, <3>3, <3>4, <3>5, <3>6 DEF WritePage, Forward
  <2>5. CASE DeleteOrphan(a)
    <3>1. IsRun(run'[a])
      BY <2>5 DEF DeleteOrphan, AInv, Runs, IsRun
    <3>4. run'[a].since = run[a].since
      BY <2>5 DEF DeleteOrphan, AInv, Runs, IsRun
    <3>2. run' = [run EXCEPT ![a] = run'[a]]
      BY <2>5 DEF DeleteOrphan, AInv, Runs
    <3>3. run'[a].at \in {"adopt", "write"}
      BY <2>5 DEF DeleteOrphan, AInv, Runs, IsRun
    <3> QED BY <2>5, <3>1, <3>2, <3>3, <3>4 DEF DeleteOrphan, Forward
  <2>6. ASSUME NEW f \in Folders, Adopt(a, f) PROVE Forward(a)
    BY <2>6 DEF Forward, Adopt, AInv, Runs, IsRun
  <2>7. ASSUME NEW f \in Folders, RemoveAdopted(a, f) PROVE Forward(a)
    <3>1. IsRun(run'[a])
      BY <2>7 DEF RemoveAdopted, AInv, Runs, IsRun
    <3>4. run'[a].since = run[a].since
      BY <2>7 DEF RemoveAdopted, AInv, Runs, IsRun
    <3>2. run' = [run EXCEPT ![a] = run'[a]]
      BY <2>7 DEF RemoveAdopted, AInv, Runs
    <3>3. run'[a].at \in {"adopt", "write"}
      BY <2>7 DEF RemoveAdopted, AInv, Runs, IsRun
    <3> QED BY <2>7, <3>1, <3>2, <3>3, <3>4 DEF RemoveAdopted, Forward
  <2> QED BY <2>1, <2>2, <2>3, <2>4, <2>5, <2>6, <2>7 DEF Reindex
<1>2. Runs'
  BY <1>1 DEF Forward, AInv, Runs
<1>3. Serving' /\ Recent' /\ Marked'
  BY <1>1 DEF Forward, AInv, Runs, Serving, Recent, Marked, Runner, Locked
<1> QED BY <1>2, <1>3 DEF AInv

\* A run ends.  An autosync has read what it owes when it completes, and leaves
\* a mark when it does not.
LEMMA EndStep ==
  ASSUME AInv, NEW a \in Runner, Complete(a) \/ Cut(a) \/ Fail(a)
  PROVE  AInv'
<1>1. /\ run' = [run EXCEPT ![a] = Idle]
      /\ sync' = IF a = "autosync" THEN "idle" ELSE sync
  BY DEF Complete, Cut, Fail, Finish
<1>2. run[a].at \notin {"idle", "begun"}
  BY DEF Complete, Cut, Fail, Done
<1>3. /\ pending' \in BOOLEAN /\ owed' \in BOOLEAN
      /\ owed' => owed
      /\ a # "autosync" => (pending => pending')
      /\ a = "autosync" => (owed' => pending')
  <2>1. CASE Complete(a)
    BY <1>2, <2>1 DEF Complete, AInv, Runs, Recent
  <2>2. CASE Cut(a)
    BY <2>2 DEF Cut, AInv, Runs
  <2>3. CASE Fail(a)
    BY <2>3 DEF Fail, AInv, Runs
  <2> QED BY <2>1, <2>2, <2>3
<1>4. Runs'
  BY <1>1, <1>3, IdleRun DEF AInv, Runs
<1>5. CASE a = "autosync"
  <2>1. run'["autosync"].at = "idle" /\ sync' = "idle"
    BY <1>1, <1>5, IdleRun DEF AInv, Runs
  <2> QED BY <1>3, <1>4, <1>5, <2>1 DEF AInv, Serving, Recent, Marked
<1>6. CASE a # "autosync"
  <2>1. run'["autosync"] = run["autosync"] /\ sync' = sync
    BY <1>1, <1>6 DEF AInv, Runs, Runner, Locked
  <2> QED BY <1>3, <1>4, <1>6, <2>1 DEF AInv, Serving, Recent, Marked
<1> QED BY <1>5, <1>6

LEMMA CrashStep ==
  ASSUME AInv, Crash
  PROVE  AInv'
<1>1. run'["autosync"].at = "idle" /\ Runs'
  BY IdleRun DEF Crash, AInv, Runs, Runner, Locked
<1> QED BY <1>1 DEF Crash, AInv, Serving, Recent, Marked

\* A run that begins is a run, and no other one moves.
LEMMA Begun ==
  ASSUME AInv, NEW a \in Runner, NEW adopt, Begin(a, adopt)
  PROVE  /\ run' = [b \in Runner |-> run'[b]]
         /\ \A b \in Runner : IsRun(run'[b])
         /\ run'[a].at = "begun"
         /\ \A b \in Runner \ {a} : run'[b].at = run[b].at /\ run'[b].since = run[b].since
<1>1. run'[a] = [Idle EXCEPT !.at = "begun", !.adopt = adopt,
                             !.alone = \A b \in Runner \ {a} : ~Running(b)]
  BY DEF Begin, Started, AInv, Runs
<1>2. IsRun(run'[a]) /\ run'[a].at = "begun"
  BY <1>1 DEF Idle, IsRun
<1>3. ASSUME NEW b \in Runner, b # a
      PROVE  /\ IsRun(run'[b])
             /\ run'[b].at = run[b].at /\ run'[b].since = run[b].since
  <2>1. run'[b] = [run[b] EXCEPT !.alone = FALSE]
    BY <1>3 DEF Begin
  <2>2. IsRun(run[b])
    BY DEF AInv, Runs
  <2>3. IsRun(run'[b])
    BY <2>1, <2>2 DEF IsRun
  <2>4. run'[b].at = run[b].at
    BY <2>1, <2>2 DEF IsRun
  <2>5. run'[b].since = run[b].since
    BY <2>1, <2>2 DEF IsRun
  <2> QED BY <2>3, <2>4, <2>5
<1>4. run' = [b \in Runner |-> run'[b]]
  BY DEF Begin
<1> QED BY <1>2, <1>3, <1>4

LEMMA CallStep ==
  ASSUME AInv,
         \/ CallNavigate \/ CallFree
         \/ \E adopt \in SUBSET Folders : CallReindex(adopt)
  PROVE  AInv'
<1>1. ASSUME NEW a \in Runner \ {"autosync"}, NEW adopt, Begin(a, adopt),
             UNCHANGED <<sync, pending, owed>>
      PROVE  AInv'
  <2>1. Runs'
    BY <1>1, Begun DEF AInv, Runs
  <2>2. /\ run'["autosync"].at = run["autosync"].at
        /\ run'["autosync"].since = run["autosync"].since
    BY <1>1, Begun DEF Runner, Locked
  <2> QED BY <1>1, <2>1, <2>2, AsideStep
<1>2. CASE CallNavigate
  <2>1. CASE lock = NoLock
    BY <1>1, <1>2, <2>1 DEF CallNavigate, Runner, Locked
  <2>2. CASE lock # NoLock
    BY <1>2, <2>2 DEF CallNavigate, AInv, Runs, Serving, Recent, Marked
  <2> QED BY <2>1, <2>2
<1>3. CASE CallFree
  BY <1>1, <1>3 DEF CallFree, Runner
<1>4. ASSUME NEW adopt \in SUBSET Folders, CallReindex(adopt) PROVE AInv'
  BY <1>1, <1>4 DEF CallReindex, Runner, Locked
<1> QED BY <1>2, <1>3, <1>4

\* What is owed after a sync is about to be read, or is marked.
LEMMA SyncDoneStep ==
  ASSUME AInv, SyncDone
  PROVE  AInv'
<1>1. run["autosync"].at = "idle" /\ owed' \in BOOLEAN
  BY DEF SyncDone, AInv, Runs, Serving
<1>2. CASE Begin("autosync", {}) /\ sync' = "reindexing" /\ UNCHANGED pending
  <2>1. Runs'
    BY <1>1, <1>2, Begun DEF AInv, Runs, Runner, Locked
  <2>2. run'["autosync"].at = "begun"
    BY <1>2, Begun DEF Runner, Locked
  <2> QED BY <1>2, <2>1, <2>2 DEF AInv, Serving, Recent, Marked
<1>3. CASE /\ sync' = "idle" /\ UNCHANGED run
           /\ pending' = (sync = "changed" \/ pending)
  <2>1. Runs'
    BY <1>1, <1>3 DEF AInv, Runs
  <2>2. owed' => pending'
    BY <1>3 DEF SyncDone, AInv, Marked
  <2> QED BY <1>1, <1>3, <2>1, <2>2 DEF AInv, Serving, Recent, Marked
<1> QED BY <1>2, <1>3 DEF SyncDone

LEMMA NextAInv == AInv /\ [Next]_vars => AInv'
<1> SUFFICES ASSUME AInv, [Next]_vars PROVE AInv'
  OBVIOUS
<1>1. CASE UNCHANGED vars
  BY <1>1 DEF vars, AInv, Runs, Serving, Recent, Marked
<1>2. ASSUME NEW n \in Note, NEW m \in Metas, EditNote(n, m) \/ Download(n, m)
      PROVE  AInv'
  BY <1>2, UserStep, DownloadStep
<1>3. ASSUME NEW a \in Runner, Reindex(a) \/ Complete(a) \/ Cut(a) \/ Fail(a)
      PROVE  AInv'
  BY <1>3, ReindexStep, EndStep
<1>4. CASE \/ \E n \in Note : RemoveNote(n)
           \/ \E d \in Docs : EditVocabulary(d)
           \/ \E f \in Folders : WriteIndex(f)
           \/ SyncBegin \/ SyncFail
  BY <1>4, UserStep
<1>5. CASE CallNavigate \/ CallFree \/ \E adopt \in SUBSET Folders : CallReindex(adopt)
  BY <1>5, CallStep
<1> QED BY <1>1, <1>2, <1>3, <1>4, <1>5, CrashStep, SyncDoneStep DEF Next

\* An autosync that has changed notes leaves no debt unmarked: whatever other
\* reindex holds the lock, whichever run is cut or fails, the next sync finds
\* a mark unless a run has read those notes and written its pages.
THEOREM DebtIsMarked == Spec => []OwedMarked
<1>1. AInv => OwedMarked
  BY DEF AInv, Marked, OwedMarked
<1> QED BY <1>1, InitAInv, NextAInv, PTL DEF Spec

-----------------------------------------------------------------------------
(* The texts of the user.                                                  *)

IndexOf(f) == <<"index", f>>

Shapes == /\ texts \in [Folders -> Nat]
          /\ manual = [f \in Folders |-> manual[f]]

\* Only an INDEX.md is the user's.
UserPages == \A q \in DOMAIN file : IsUser(file, q) => IsIndex(q)

\* What a run is going to write is not the user's, for the user wrote nothing
\* since the run looked.
Safe == \A a \in Runner : run[a].at = "write" => \A q \in run[a].todo : ~IsUser(file, q)

\* What a run is going to remove is copied.
Copied ==
  \A a \in Runner : run[a].at = "adopted" =>
    /\ run[a].folder \in Folders
    /\ IsUser(file, IndexOf(run[a].folder)) =>
         file[IndexOf(run[a].folder)].text \in manual[run[a].folder]

KInv == Shapes /\ UserPages /\ Safe /\ Copied /\ ManualKept

LEMMA InitKInv == Init => KInv
BY IdleRun DEF Init, KInv, Shapes, UserPages, Safe, Copied, ManualKept, IsUser

\* No page of the user appears or changes.
NoneNew == \A q \in DOMAIN file' : IsUser(file', q) => IsUser(file, q) /\ file'[q] = file[q]
Grows   == /\ texts' = texts /\ manual' = [f \in Folders |-> manual'[f]]
           /\ \A f \in Folders : manual[f] \subseteq manual'[f]

\* A run that writes or adopts did so before, with the same to do.
AsBefore(a) ==
  run'[a].at \in {"write", "adopted"} =>
    /\ run'[a].at = run[a].at /\ run'[a].folder = run[a].folder
    /\ run'[a].todo \subseteq run[a].todo

LEMMA KeptStep ==
  ASSUME KInv, NoneNew, Grows,
         \A f \in Folders : IsUser(file, IndexOf(f)) =>
           \/ IsUser(file', IndexOf(f))
           \/ file[IndexOf(f)].text \in manual'[f]
  PROVE  Shapes' /\ UserPages' /\ ManualKept'
<1>1. Shapes' /\ UserPages'
  BY DEF KInv, Shapes, UserPages, NoneNew, Grows, IsUser
<1>2. ManualKept'
  <2> SUFFICES ASSUME NEW f \in Folders, NEW k \in 1..texts[f],
                      ~(IsUser(file', IndexOf(f)) /\ file'[IndexOf(f)].text = k)
               PROVE  k \in manual'[f]
    BY DEF ManualKept, Grows, IndexOf
  <2>1. (IsUser(file, IndexOf(f)) /\ file[IndexOf(f)].text = k) \/ k \in manual[f]
    BY DEF KInv, ManualKept, IndexOf
  <2> QED BY <2>1 DEF Grows, NoneNew, IsUser
<1> QED BY <1>1, <1>2

LEMMA RunsKept ==
  ASSUME KInv, NoneNew, Grows, NEW a \in Runner, AsBefore(a)
  PROVE  /\ run'[a].at = "write" => \A q \in run'[a].todo : ~IsUser(file', q)
         /\ run'[a].at = "adopted" =>
              /\ run'[a].folder \in Folders
              /\ IsUser(file', IndexOf(run'[a].folder)) =>
                   file'[IndexOf(run'[a].folder)].text \in manual'[run'[a].folder]
<1>1. CASE run'[a].at = "write"
  BY <1>1 DEF KInv, Safe, AsBefore, NoneNew, IsUser
<1>2. CASE run'[a].at = "adopted"
  BY <1>2 DEF KInv, Copied, AsBefore, NoneNew, Grows, IsUser
<1> QED BY <1>1, <1>2

\* Steps that leave the files alone, and neither look for the user's pages nor
\* copy them.
LEMMA CalmStep ==
  ASSUME KInv, UNCHANGED <<file, manual, texts>>, \A a \in Runner : AsBefore(a)
  PROVE  KInv'
<1>1. NoneNew /\ Grows
  BY DEF NoneNew, Grows, KInv, Shapes
<1>2. Shapes' /\ UserPages' /\ ManualKept'
  BY <1>1, KeptStep
<1>3. Safe' /\ Copied'
  BY <1>1, RunsKept DEF Safe, Copied
<1> QED BY <1>2, <1>3 DEF KInv

LEMMA CalmSteps ==
  ASSUME AInv, KInv,
         \/ \E n \in Note, m \in Metas : EditNote(n, m) \/ Download(n, m)
         \/ \E n \in Note : RemoveNote(n)
         \/ \E d \in Docs : EditVocabulary(d)
         \/ SyncBegin \/ SyncFail
  PROVE  KInv'
<1>1. UNCHANGED <<file, manual, texts>>
  BY DEF EditNote, Download, RemoveNote, EditVocabulary, SyncBegin, SyncFail
<1>2. ASSUME NEW a \in Runner PROVE AsBefore(a)
  <2>1. CASE run' = run
    BY <2>1 DEF AsBefore
  <2>2. CASE run' = Disturbed \/ run' = [b \in Runner |-> [Disturbed[b] EXCEPT !.since = FALSE]]
    <3>1. Disturbed[a] = [run[a] EXCEPT !.alone = run[a].at \in {"idle", "begun"} /\ @] /\ IsRun(run[a])
      BY DEF Disturbed, AInv, Runs
    <3>2. /\ IsRun(Disturbed[a]) /\ Disturbed[a].at = run[a].at
          /\ Disturbed[a].folder = run[a].folder /\ Disturbed[a].todo = run[a].todo
      BY <3>1 DEF IsRun
    <3>3. run'[a] = Disturbed[a] \/ run'[a] = [Disturbed[a] EXCEPT !.since = FALSE]
      BY <2>2
    <3>4. /\ run'[a].at = run[a].at
          /\ run'[a].folder = run[a].folder /\ run'[a].todo = run[a].todo
      BY <3>2, <3>3 DEF IsRun
    <3> QED BY <3>4 DEF AsBefore
  <2> QED BY <2>1, <2>2 DEF EditNote, Download, RemoveNote, EditVocabulary, SyncBegin, SyncFail
<1> QED BY <1>1, <1>2, CalmStep

LEMMA BegunCalm ==
  ASSUME AInv, NEW a \in Runner, NEW adopt, Begin(a, adopt), NEW b \in Runner
  PROVE  AsBefore(b)
<1>1. CASE b = a
  BY <1>1, Begun DEF AsBefore
<1>2. CASE b # a
  <2>1. run'[b] = [run[b] EXCEPT !.alone = FALSE] /\ IsRun(run[b])
    BY <1>2 DEF Begin, AInv, Runs
  <2>2. run'[b].at = run[b].at /\ run'[b].folder = run[b].folder /\ run'[b].todo = run[b].todo
    BY <2>1 DEF IsRun
  <2> QED BY <2>2 DEF AsBefore
<1> QED BY <1>1, <1>2

LEMMA CallsKept ==
  ASSUME AInv, KInv,
         \/ CallNavigate \/ CallFree \/ SyncDone
         \/ \E adopt \in SUBSET Folders : CallReindex(adopt)
  PROVE  KInv'
<1>1. UNCHANGED <<file, manual, texts>>
  BY DEF CallNavigate, CallFree, SyncDone, CallReindex
<1>2. run' = run \/ \E a \in Runner, adopt \in SUBSET Folders : Begin(a, adopt)
  BY DEF CallNavigate, CallFree, SyncDone, CallReindex, Runner, Locked
<1>3. \A b \in Runner : AsBefore(b)
  BY <1>2, BegunCalm DEF AsBefore
<1> QED BY <1>1, <1>3, CalmStep

LEMMA EndKept ==
  ASSUME AInv, KInv,
         Crash \/ \E a \in Runner : Complete(a) \/ Cut(a) \/ Fail(a)
  PROVE  KInv'
<1>1. UNCHANGED <<file, manual, texts>>
  BY DEF Crash, Complete, Cut, Fail, Finish
<1>2. ASSUME NEW b \in Runner PROVE run'[b] = run[b] \/ run'[b] = Idle
  BY DEF Crash, Complete, Cut, Fail, Finish, AInv, Runs
<1>3. \A b \in Runner : AsBefore(b)
  BY <1>2, IdleRun DEF AsBefore
<1> QED BY <1>1, <1>3, CalmStep

\* A step of run a, which leaves the other runs as they are.
OnlyRun(a) == \A b \in Runner \ {a} : run'[b] = run[b]

LEMMA OneRunStep ==
  ASSUME KInv, NoneNew, Grows, NEW a \in Runner, OnlyRun(a),
         AsBefore(a) \/ run'[a].at = "write" \/ run'[a].at = "adopted",
         run'[a].at = "write" => \A q \in run'[a].todo : ~IsUser(file', q),
         run'[a].at = "adopted" =>
           /\ run'[a].folder \in Folders
           /\ IsUser(file', IndexOf(run'[a].folder)) =>
                file'[IndexOf(run'[a].folder)].text \in manual'[run'[a].folder]
  PROVE  Safe' /\ Copied'
<1>1. ASSUME NEW b \in Runner, b # a PROVE AsBefore(b)
  BY <1>1 DEF OnlyRun, AsBefore
<1> QED BY <1>1, RunsKept DEF Safe, Copied

LEMMA ReadKept ==
  ASSUME AInv, KInv, NEW a \in Runner, ReadNotes(a) \/ BuildGraph(a)
  PROVE  KInv'
<1>1. UNCHANGED <<file, manual, texts>>
  BY DEF ReadNotes, BuildGraph
<1>2. run'[a].at \in {"read", "adopt"}
  BY DEF ReadNotes, BuildGraph, AInv, Runs, IsRun
<1>3. \A b \in Runner \ {a} : run'[b] = run[b]
  BY DEF ReadNotes, BuildGraph, AInv, Runs
<1>4. \A b \in Runner : AsBefore(b)
  BY <1>2, <1>3 DEF AsBefore
<1> QED BY <1>1, <1>4, CalmStep

\* A run looks for the indexes that the user wrote.
LEMMA DetectKept ==
  ASSUME AInv, KInv, NEW a \in Runner, DetectManual(a)
  PROVE  KInv'
<1> DEFINE graph == run[a].graph
           todo == DOMAIN graph \ {q \in DOMAIN graph : IsIndex(q) /\ IsUser(file, q)}
<1>1. /\ run' = [run EXCEPT ![a].at = "write", ![a].todo = todo]
      /\ UNCHANGED <<file, manual, texts>>
  BY DEF DetectManual
<1>2. \A q \in todo : ~IsUser(file, q)
  BY DEF KInv, UserPages, IsUser
<1> HIDE DEF todo
<1>3. NoneNew /\ Grows
  BY <1>1 DEF NoneNew, Grows, KInv, Shapes
<1>4. run'[a] = [run[a] EXCEPT !.at = "write", !.todo = todo] /\ IsRun(run[a])
  BY <1>1 DEF AInv, Runs
<1>5. run'[a].at = "write" /\ run'[a].todo = todo
  BY <1>4 DEF IsRun
<1>6. OnlyRun(a)
  BY <1>1 DEF OnlyRun, AInv, Runs
<1>7. \A q \in run'[a].todo : ~IsUser(file', q)
  BY <1>1, <1>2, <1>5
<1>8. Safe' /\ Copied'
  BY <1>3, <1>5, <1>6, <1>7, OneRunStep
<1>9. Shapes' /\ UserPages' /\ ManualKept'
  BY <1>1, <1>3, KeptStep
<1> QED BY <1>8, <1>9 DEF KInv

\* A page is written where no page of the user is.
LEMMA WriteKept ==
  ASSUME AInv, KInv, NEW a \in Runner, WritePage(a)
  PROVE  KInv'
<1>1. PICK q \in run[a].todo :
        /\ file' = With(file, q, Generated(run[a].graph[q]))
        /\ run' = [run EXCEPT ![a].todo = @ \ {q}, ![a].orphans = @ \ {q}]
        /\ run[a].at = "write" /\ UNCHANGED <<manual, texts>>
  BY DEF WritePage, FirstOf
<1>2. ~IsUser(file, q)
  BY <1>1 DEF KInv, Safe
<1>3. NoneNew /\ Grows
  BY <1>1, <1>2 DEF NoneNew, Grows, KInv, Shapes, With, IsUser, Generated
<1>4. \A f \in Folders : IsUser(file, IndexOf(f)) => IsUser(file', IndexOf(f))
  BY <1>1, <1>2 DEF With, IsUser
<1>5. Shapes' /\ UserPages' /\ ManualKept'
  BY <1>3, <1>4, KeptStep
<1>6. OnlyRun(a)
  BY <1>1 DEF OnlyRun, AInv, Runs
<1>7. run'[a] = [run[a] EXCEPT !.todo = @ \ {q}, !.orphans = @ \ {q}] /\ IsRun(run[a])
  BY <1>1 DEF AInv, Runs
<1>8. AsBefore(a)
  BY <1>7 DEF IsRun, AsBefore
<1>9. Safe' /\ Copied'
  BY <1>3, <1>6, <1>8, RunsKept, OneRunStep
<1> QED BY <1>5, <1>9 DEF KInv

LEMMA DeleteKept ==
  ASSUME AInv, KInv, NEW a \in Runner, DeleteOrphan(a)
  PROVE  KInv'
<1>1. PICK q \in run[a].orphans :
        /\ file' = IF IsUser(file, q) THEN file ELSE Without(file, q)
        /\ run' = [run EXCEPT ![a].orphans = @ \ {q}]
        /\ UNCHANGED <<manual, texts>>
  BY DEF DeleteOrphan
<1>2. NoneNew /\ Grows
  BY <1>1 DEF NoneNew, Grows, KInv, Shapes, Without, IsUser
<1>3. \A f \in Folders : IsUser(file, IndexOf(f)) => IsUser(file', IndexOf(f))
  BY <1>1 DEF Without, IsUser
<1>4. Shapes' /\ UserPages' /\ ManualKept'
  BY <1>2, <1>3, KeptStep
<1>5. OnlyRun(a)
  BY <1>1 DEF OnlyRun, AInv, Runs
<1>6. run'[a] = [run[a] EXCEPT !.orphans = @ \ {q}] /\ IsRun(run[a])
  BY <1>1 DEF AInv, Runs
<1>7. AsBefore(a)
  BY <1>6 DEF IsRun, AsBefore
<1>8. Safe' /\ Copied'
  BY <1>2, <1>5, <1>7, RunsKept, OneRunStep
<1> QED BY <1>4, <1>8 DEF KInv

\* The copy of the text, ...
LEMMA AdoptKept ==
  ASSUME AInv, KInv, NEW a \in Runner, NEW f \in Folders, Adopt(a, f)
  PROVE  KInv'
<1>1. UNCHANGED <<file, texts>>
  BY DEF Adopt
<1>2. OnlyRun(a) /\ IsRun(run[a])
  BY DEF Adopt, OnlyRun, AInv, Runs
<1>3. CASE run' = [run EXCEPT ![a].adopt = @ \ {f}] /\ UNCHANGED manual
  <2>1. run'[a] = [run[a] EXCEPT !.adopt = @ \ {f}]
    BY <1>3 DEF AInv, Runs
  <2>2. AsBefore(a)
    BY <1>2, <2>1 DEF IsRun, AsBefore
  <2>3. \A b \in Runner : AsBefore(b)
    BY <1>2, <2>2 DEF OnlyRun, AsBefore
  <2> QED BY <1>1, <1>3, <2>3, CalmStep
<1>4. CASE /\ IsUser(file, IndexOf(f)) /\ manual[f] = {}
           /\ manual' = [manual EXCEPT ![f] = {file[IndexOf(f)].text}]
           /\ run' = [run EXCEPT ![a].at = "adopted", ![a].folder = f]
  <2>1. NoneNew /\ Grows
    BY <1>1, <1>4 DEF NoneNew, Grows, KInv, Shapes
  <2>2. Shapes' /\ UserPages' /\ ManualKept'
    BY <1>1, <2>1, KeptStep
  <2>3. run'[a] = [run[a] EXCEPT !.at = "adopted", !.folder = f]
    BY <1>4 DEF AInv, Runs
  <2>4. run'[a].at = "adopted" /\ run'[a].folder = f
    BY <1>2, <2>3 DEF IsRun
  <2>5. file'[IndexOf(f)].text \in manual'[f]
    BY <1>1, <1>4 DEF KInv, Shapes
  <2>6. Safe' /\ Copied'
    BY <1>2, <2>1, <2>4, <2>5, OneRunStep
  <2> QED BY <2>2, <2>6 DEF KInv
<1> QED BY <1>3, <1>4 DEF Adopt, IndexOf

\* ... and its removal.
LEMMA RemoveKept ==
  ASSUME AInv, KInv, NEW a \in Runner, NEW f \in Folders, RemoveAdopted(a, f)
  PROVE  KInv'
<1>1. /\ file' = Without(file, IndexOf(f)) /\ UNCHANGED <<manual, texts>>
      /\ run[a].at = "adopted" /\ f = run[a].folder
      /\ run' = [run EXCEPT ![a].at = "adopt", ![a].adopt = @ \ {f}, ![a].folder = <<>>,
                            ![a].orphans = @ \ {IndexOf(f)}]
  BY DEF RemoveAdopted, IndexOf
<1>2. IsUser(file, IndexOf(f)) => file[IndexOf(f)].text \in manual[f]
  BY <1>1 DEF KInv, Copied
<1>3. NoneNew /\ Grows
  BY <1>1 DEF NoneNew, Grows, KInv, Shapes, Without, IsUser
<1>4. \A g \in Folders : IsUser(file, IndexOf(g)) =>
        IsUser(file', IndexOf(g)) \/ file[IndexOf(g)].text \in manual'[g]
  BY <1>1, <1>2 DEF Without, IsUser, IndexOf
<1>5. Shapes' /\ UserPages' /\ ManualKept'
  BY <1>3, <1>4, KeptStep
<1>6. OnlyRun(a) /\ IsRun(run[a])
  BY <1>1 DEF OnlyRun, AInv, Runs
<1>7. run'[a] = [run[a] EXCEPT !.at = "adopt", !.adopt = @ \ {f}, !.folder = <<>>,
                               !.orphans = @ \ {IndexOf(f)}]
  BY <1>1 DEF AInv, Runs
<1>8. run'[a].at = "adopt"
  BY <1>6, <1>7 DEF IsRun
<1>9. AsBefore(a)
  BY <1>8 DEF AsBefore
<1>10. Safe' /\ Copied'
  BY <1>3, <1>6, <1>8, <1>9, OneRunStep
<1> QED BY <1>5, <1>10 DEF KInv

\* The user writes while no run is under way, and what they wrote before is
\* not in the way.
LEMMA WriteIndexKept ==
  ASSUME AInv, KInv, NEW f \in Folders, WriteIndex(f)
  PROVE  KInv'
<1>1. /\ ~IsUser(file, IndexOf(f)) /\ UNCHANGED <<manual, run>>
      /\ texts' = [texts EXCEPT ![f] = @ + 1]
      /\ file' = With(file, IndexOf(f), Written(texts[f] + 1))
      /\ \A a \in Runner : run[a].at = "idle"
  BY DEF WriteIndex, IndexOf, Quiet, Running
<1>2. texts[f] \in Nat /\ Shapes'
  BY <1>1 DEF KInv, Shapes
<1>3. UserPages'
  BY <1>1 DEF KInv, UserPages, With, IsUser, IsIndex, IndexOf
<1>4. Safe' /\ Copied'
  BY <1>1 DEF Safe, Copied
<1>5. ManualKept'
  <2> SUFFICES ASSUME NEW g \in Folders, NEW k \in 1..texts'[g]
               PROVE  \/ IsUser(file', IndexOf(g)) /\ file'[IndexOf(g)].text = k
                      \/ k \in manual[g]
    BY <1>1 DEF ManualKept, IndexOf
  <2>1. CASE g = f /\ k = texts[f] + 1
    BY <1>1, <2>1 DEF With, IsUser, Written
  <2>2. CASE g = f /\ k # texts[f] + 1
    <3>1. k \in 1..texts[f]
      BY <1>1, <1>2, <2>2 DEF KInv, Shapes
    <3> QED BY <1>1, <2>2, <3>1 DEF KInv, ManualKept, IndexOf
  <2>3. CASE g # f
    <3>1. k \in 1..texts[g] /\ IndexOf(g) # IndexOf(f)
      BY <1>1, <2>3 DEF KInv, Shapes, IndexOf
    <3>2. IsUser(file, IndexOf(g)) => IsUser(file', IndexOf(g)) /\ file'[IndexOf(g)] = file[IndexOf(g)]
      BY <1>1, <3>1 DEF With, IsUser
    <3> QED BY <3>1, <3>2 DEF KInv, ManualKept, IndexOf
  <2> QED BY <2>1, <2>2, <2>3
<1> QED BY <1>2, <1>3, <1>4, <1>5 DEF KInv

LEMMA NextKInv == AInv /\ KInv /\ [Next]_vars => KInv'
<1> SUFFICES ASSUME AInv, KInv, [Next]_vars PROVE KInv'
  OBVIOUS
<1>1. CASE UNCHANGED vars
  <2>1. \A a \in Runner : AsBefore(a)
    BY <1>1 DEF vars, AsBefore
  <2> QED BY <1>1, <2>1, CalmStep DEF vars
<1>2. ASSUME NEW f \in Folders, WriteIndex(f) PROVE KInv'
  BY <1>2, WriteIndexKept
<1>3. ASSUME NEW a \in Runner, Reindex(a) PROVE KInv'
  BY <1>3, ReadKept, DetectKept, WriteKept, DeleteKept, AdoptKept, RemoveKept DEF Reindex
<1>4. CASE Crash \/ \E a \in Runner : Complete(a) \/ Cut(a) \/ Fail(a)
  BY <1>4, EndKept
<1>5. CASE \/ \E n \in Note, m \in Metas : EditNote(n, m) \/ Download(n, m)
           \/ \E n \in Note : RemoveNote(n)
           \/ \E d \in Docs : EditVocabulary(d)
           \/ SyncBegin \/ SyncFail
  BY <1>5, CalmSteps
<1>6. CASE \/ CallNavigate \/ CallFree \/ SyncDone
           \/ \E adopt \in SUBSET Folders : CallReindex(adopt)
  BY <1>6, CallsKept
<1> QED BY <1>1, <1>2, <1>3, <1>4, <1>5, <1>6 DEF Next

\* No text that the user wrote as the INDEX.md of a folder, while no run was
\* under way, is lost, for any folders, runs side by side, adoptions that stop
\* between the copy and the removal, and failures.
THEOREM TextsAreKept == Spec => []ManualKept
<1>1. KInv => ManualKept
  BY DEF KInv
<1> QED BY <1>1, InitAInv, NextAInv, InitKInv, NextKInv, PTL DEF Spec

-----------------------------------------------------------------------------
(* What a run that nothing disturbs leaves behind.                         *)

AloneRest ==
  \A a, b \in Runner :
    run[a].at # "idle" /\ run[a].alone /\ b # a => run[b].at = "idle"

Right(q) == q \in DOMAIN file /\ (IsUser(file, q) \/ file[q] = Generated(Graph[q]))
Leftover == {q \in DOMAIN file : IsIndex(q) /\ ~IsUser(file, q)}

\* How far such a run has come: its graph is the vault's, the pages it has done
\* with are as they should be, and what should go is among its orphans.
Upright(a) ==
  run[a].alone =>
    /\ run[a].at = "read" => run[a].meta = meta
    /\ run[a].at \in {"adopt", "adopted", "write"} => run[a].graph = Graph
    /\ run[a].at \in {"adopt", "adopted"} => Leftover \subseteq run[a].orphans
    /\ run[a].at = "write" =>
         /\ run[a].todo \subseteq DOMAIN Graph
         /\ Leftover \subseteq DOMAIN Graph \cup run[a].orphans
         /\ \A q \in DOMAIN Graph \ run[a].todo :
              Right(q) /\ (q \in run[a].orphans => IsUser(file, q))

XInv == AloneRest /\ \A a \in Runner : Upright(a)

LEMMA InitXInv == Init => XInv
BY IdleRun DEF Init, XInv, AloneRest, Upright

\* Runs that go on as they were, though perhaps no longer alone, or are over.
Same(a) ==
  \/ run'[a].at = "idle"
  \/ /\ run'[a].at = run[a].at /\ run'[a].meta = run[a].meta
     /\ run'[a].graph = run[a].graph /\ run'[a].todo = run[a].todo
     /\ run'[a].orphans = run[a].orphans
     /\ run'[a].alone => run[a].alone

LEMMA SameStep ==
  ASSUME XInv, UNCHANGED <<nodes, meta, file>>, \A a \in Runner : Same(a)
  PROVE  XInv'
<1>1. AloneRest'
  BY DEF XInv, AloneRest, Same
<1>2. Graph' = Graph
  BY DEF Graph
<1>3. \A a \in Runner : Upright(a)'
  BY <1>2 DEF XInv, Upright, Same, Right, Leftover
<1> QED BY <1>1, <1>3 DEF XInv

\* Notes or vocabulary change: a run that has read is no longer alone.
LEMMA DisturbStep ==
  ASSUME AInv, XInv,
         run' = Disturbed \/ run' = [a \in Runner |-> [Disturbed[a] EXCEPT !.since = FALSE]]
  PROVE  XInv'
<1>1. ASSUME NEW a \in Runner
      PROVE  /\ run'[a].at = run[a].at
             /\ run'[a].alone => run[a].alone /\ run[a].at \in {"idle", "begun"}
  <2>1. Disturbed[a] = [run[a] EXCEPT !.alone = run[a].at \in {"idle", "begun"} /\ @] /\ IsRun(run[a])
    BY DEF Disturbed, AInv, Runs
  <2>2. /\ IsRun(Disturbed[a]) /\ Disturbed[a].at = run[a].at
        /\ Disturbed[a].alone => run[a].alone /\ run[a].at \in {"idle", "begun"}
    BY <2>1 DEF IsRun
  <2>3. run'[a] = Disturbed[a] \/ run'[a] = [Disturbed[a] EXCEPT !.since = FALSE]
    OBVIOUS
  <2> QED BY <2>2, <2>3 DEF IsRun
<1>2. AloneRest'
  BY <1>1 DEF XInv, AloneRest
<1> QED BY <1>1, <1>2 DEF XInv, Upright

LEMMA BeginStep ==
  ASSUME AInv, XInv, NEW a \in Runner, NEW adopt, Begin(a, adopt)
  PROVE  XInv'
<1>1. /\ run'[a].at = "begun"
      /\ run'[a].alone => \A b \in Runner \ {a} : ~Running(b)
  <2>1. run'[a] = Started(a, adopt)[a]
    BY DEF Begin
  <2>2. Started(a, adopt)[a] = [Idle EXCEPT !.at = "begun", !.adopt = adopt,
                                  !.alone = \A b \in Runner \ {a} : ~Running(b)]
    BY DEF Started, AInv, Runs
  <2> QED BY <2>1, <2>2, Begun DEF Idle
<1>2. ASSUME NEW b \in Runner, b # a PROVE run'[b].at = run[b].at /\ ~run'[b].alone
  <2>1. run'[b] = [run[b] EXCEPT !.alone = FALSE] /\ IsRun(run[b])
    BY <1>2 DEF Begin, AInv, Runs
  <2> QED BY <2>1 DEF IsRun
<1>3. AloneRest'
  BY <1>1, <1>2 DEF AloneRest, Running
<1>4. \A b \in Runner : Upright(b)'
  BY <1>1, <1>2 DEF Upright
<1> QED BY <1>3, <1>4 DEF XInv

\* A step of run a: nobody else can be running and alone.
LEMMA OwnStep ==
  ASSUME XInv, NEW a \in Runner, run[a].at # "idle", OnlyRun(a),
         run'[a].alone => run[a].alone, Upright(a)'
  PROVE  XInv'
<1>1. ASSUME NEW b \in Runner, b # a PROVE run'[b].at = "idle" \/ ~run'[b].alone
  BY <1>1 DEF XInv, AloneRest, OnlyRun
<1>2. AloneRest'
  BY <1>1 DEF XInv, AloneRest, OnlyRun
<1>3. \A b \in Runner : Upright(b)'
  BY <1>1 DEF Upright
<1> QED BY <1>2, <1>3 DEF XInv

LEMMA ReadStep ==
  ASSUME AInv, XInv, NEW a \in Runner, ReadNotes(a) \/ BuildGraph(a)
  PROVE  XInv'
<1>1. OnlyRun(a) /\ IsRun(run[a]) /\ UNCHANGED <<nodes, meta, file>>
  BY DEF ReadNotes, BuildGraph, OnlyRun, AInv, Runs
<1>2. CASE ReadNotes(a)
  <2>1. run'[a] = [run[a] EXCEPT !.at = "read", !.meta = meta, !.since = TRUE] /\ run[a].at = "begun"
    BY <1>2 DEF ReadNotes, AInv, Runs
  <2>2. run'[a].at = "read" /\ run'[a].meta = meta /\ run'[a].alone = run[a].alone
    BY <1>1, <2>1 DEF IsRun
  <2> QED BY <1>1, <2>1, <2>2, OwnStep DEF Upright
<1>3. CASE BuildGraph(a)
  <2> DEFINE graph == BuildKnowledgeGraph(nodes, run[a].meta)
             orphans == {q \in DOMAIN file : IsIndex(q)}
  <2>1. /\ run'[a] = [run[a] EXCEPT !.at = "adopt", !.graph = graph, !.orphans = orphans]
        /\ run[a].at = "read"
    BY <1>3 DEF BuildGraph, AInv, Runs
  <2>2. Leftover' \subseteq orphans
    BY <1>1 DEF Leftover
  <2>3. run[a].alone => graph = Graph'
    BY <1>1, <2>1 DEF XInv, Upright, Graph
  <2> HIDE DEF graph, orphans
  <2>4. /\ run'[a].at = "adopt" /\ run'[a].graph = graph /\ run'[a].orphans = orphans
        /\ run'[a].alone = run[a].alone
    BY <1>1, <2>1 DEF IsRun
  <2>5. Upright(a)'
    BY <2>2, <2>3, <2>4 DEF Upright
  <2> QED BY <1>1, <2>1, <2>4, <2>5, OwnStep
<1> QED BY <1>2, <1>3

LEMMA AdoptStep ==
  ASSUME AInv, XInv, NEW a \in Runner, NEW f \in Folders, Adopt(a, f) \/ RemoveAdopted(a, f)
  PROVE  XInv'
<1>1. /\ OnlyRun(a) /\ IsRun(run[a]) /\ UNCHANGED <<nodes, meta>>
      /\ run[a].at \in {"adopt", "adopted"}
  BY DEF Adopt, RemoveAdopted, OnlyRun, AInv, Runs
<1>2. Graph' = Graph
  BY <1>1 DEF Graph
<1>3. CASE Adopt(a, f)
  <2>1. \/ run'[a] = [run[a] EXCEPT !.at = "adopted", !.folder = f]
        \/ run'[a] = [run[a] EXCEPT !.adopt = @ \ {f}]
    BY <1>3 DEF Adopt, AInv, Runs
  <2>2. /\ run'[a].at \in {"adopt", "adopted"} /\ run'[a].graph = run[a].graph
        /\ run'[a].orphans = run[a].orphans /\ run'[a].alone = run[a].alone
    BY <1>1, <2>1 DEF IsRun
  <2>3. Leftover' = Leftover
    BY <1>3 DEF Adopt, Leftover
  <2>4. Upright(a)'
    BY <1>1, <1>2, <2>2, <2>3 DEF XInv, Upright
  <2> QED BY <1>1, <2>2, <2>4, OwnStep
<1>4. CASE RemoveAdopted(a, f)
  <2>1. /\ file' = Without(file, IndexOf(f))
        /\ run'[a] = [run[a] EXCEPT !.at = "adopt", !.adopt = @ \ {f}, !.folder = <<>>,
                                    !.orphans = @ \ {IndexOf(f)}]
    BY <1>4 DEF RemoveAdopted, IndexOf, AInv, Runs
  <2>2. /\ run'[a].at = "adopt" /\ run'[a].graph = run[a].graph
        /\ run'[a].orphans = run[a].orphans \ {IndexOf(f)} /\ run'[a].alone = run[a].alone
    BY <1>1, <2>1 DEF IsRun
  <2>3. Leftover' \subseteq Leftover \ {IndexOf(f)}
    BY <2>1 DEF Leftover, Without, IsUser
  <2>4. Upright(a)'
    BY <1>1, <1>2, <2>2, <2>3 DEF XInv, Upright
  <2> QED BY <1>1, <2>2, <2>4, OwnStep
<1> QED BY <1>3, <1>4

LEMMA DetectStep ==
  ASSUME AInv, XInv, NEW a \in Runner, DetectManual(a)
  PROVE  XInv'
<1> DEFINE omitted == {q \in DOMAIN run[a].graph : IsIndex(q) /\ IsUser(file, q)}
           todo == DOMAIN run[a].graph \ omitted
<1>1. /\ OnlyRun(a) /\ IsRun(run[a]) /\ UNCHANGED <<nodes, meta, file>>
      /\ run[a].at = "adopt"
      /\ run'[a] = [run[a] EXCEPT !.at = "write", !.todo = todo]
  BY DEF DetectManual, OnlyRun, AInv, Runs
<1>2. Graph' = Graph /\ Leftover' = Leftover
  BY <1>1 DEF Graph, Leftover
<1>3. \A q \in DOMAIN run[a].graph \ todo : Right(q)' /\ IsUser(file', q)
  BY <1>1 DEF Right, IsUser
<1>4. todo \subseteq DOMAIN run[a].graph
  OBVIOUS
<1> HIDE DEF todo
<1>5. /\ run'[a].at = "write" /\ run'[a].todo = todo /\ run'[a].graph = run[a].graph
      /\ run'[a].orphans = run[a].orphans /\ run'[a].alone = run[a].alone
  BY <1>1 DEF IsRun
<1>6. Upright(a)'
  BY <1>1, <1>2, <1>3, <1>4, <1>5 DEF XInv, Upright
<1> QED BY <1>1, <1>5, <1>6, OwnStep

LEMMA WriteStep ==
  ASSUME AInv, XInv, NEW a \in Runner, WritePage(a)
  PROVE  XInv'
<1>1. PICK q \in run[a].todo :
        /\ file' = With(file, q, Generated(run[a].graph[q]))
        /\ run' = [run EXCEPT ![a].todo = @ \ {q}, ![a].orphans = @ \ {q}]
        /\ run[a].at = "write" /\ UNCHANGED <<nodes, meta>>
  BY DEF WritePage, FirstOf
<1>2. OnlyRun(a) /\ IsRun(run[a]) /\ Graph' = Graph
  BY <1>1 DEF OnlyRun, AInv, Runs, Graph
<1>3. run'[a] = [run[a] EXCEPT !.todo = @ \ {q}, !.orphans = @ \ {q}]
  BY <1>1 DEF AInv, Runs
<1>4. /\ run'[a].at = "write" /\ run'[a].todo = run[a].todo \ {q}
      /\ run'[a].graph = run[a].graph
      /\ run'[a].orphans = run[a].orphans \ {q} /\ run'[a].alone = run[a].alone
  <2>1. run'[a].at = run[a].at /\ run'[a].graph = run[a].graph
    BY <1>2, <1>3 DEF IsRun
  <2>2. run'[a].todo = run[a].todo \ {q} /\ run'[a].alone = run[a].alone
    BY <1>2, <1>3 DEF IsRun
  <2>3. run'[a].orphans = run[a].orphans \ {q}
    BY <1>2, <1>3 DEF IsRun
  <2> QED BY <1>1, <2>1, <2>2, <2>3
<1>5. Leftover' \subseteq Leftover \cup {q}
  BY <1>1 DEF Leftover, With, IsUser
<1>6. \A r : r # q => (Right(r) => Right(r)') /\ (IsUser(file, r) => IsUser(file', r))
  BY <1>1, <1>2 DEF Right, With, IsUser
<1>7. run[a].graph = Graph => Right(q)'
  BY <1>1, <1>2 DEF Right, With
<1>8. Upright(a)'
  <2> SUFFICES ASSUME run[a].alone PROVE Upright(a)'
    BY <1>4 DEF Upright
  <2>1. /\ run[a].graph = Graph /\ run[a].todo \subseteq DOMAIN Graph
        /\ Leftover \subseteq DOMAIN Graph \cup run[a].orphans
        /\ \A r \in DOMAIN Graph \ run[a].todo :
             Right(r) /\ (r \in run[a].orphans => IsUser(file, r))
    BY <1>1 DEF XInv, Upright
  <2>2. Leftover' \subseteq DOMAIN Graph \cup run'[a].orphans
    BY <1>4, <1>5, <2>1
  <2>3. \A r \in DOMAIN Graph \ run'[a].todo :
          Right(r)' /\ (r \in run'[a].orphans => IsUser(file', r))
    BY <1>4, <1>6, <1>7, <2>1
  <2> QED BY <1>2, <1>4, <2>1, <2>2, <2>3 DEF Upright
<1> QED BY <1>1, <1>2, <1>4, <1>8, OwnStep

LEMMA DeleteStep ==
  ASSUME AInv, XInv, NEW a \in Runner, DeleteOrphan(a)
  PROVE  XInv'
<1>1. PICK q \in run[a].orphans :
        /\ file' = IF IsUser(file, q) THEN file ELSE Without(file, q)
        /\ run' = [run EXCEPT ![a].orphans = @ \ {q}]
        /\ run[a].at = "write" /\ run[a].todo = {} /\ UNCHANGED <<nodes, meta>>
  BY DEF DeleteOrphan
<1>2. OnlyRun(a) /\ IsRun(run[a]) /\ Graph' = Graph
  BY <1>1 DEF OnlyRun, AInv, Runs, Graph
<1>3. run'[a] = [run[a] EXCEPT !.orphans = @ \ {q}]
  BY <1>1 DEF AInv, Runs
<1>4. /\ run'[a].at = "write" /\ run'[a].todo = {}
      /\ run'[a].graph = run[a].graph
      /\ run'[a].orphans = run[a].orphans \ {q} /\ run'[a].alone = run[a].alone
  <2>1. run'[a].at = run[a].at /\ run'[a].todo = run[a].todo
    BY <1>2, <1>3 DEF IsRun
  <2>2. run'[a].graph = run[a].graph /\ run'[a].alone = run[a].alone
    BY <1>2, <1>3 DEF IsRun
  <2>3. run'[a].orphans = run[a].orphans \ {q}
    BY <1>2, <1>3 DEF IsRun
  <2> QED BY <1>1, <2>1, <2>2, <2>3
<1>5. Leftover' \subseteq Leftover \ {q}
  BY <1>1 DEF Leftover, Without, IsUser
<1>6. \A r : r # q \/ IsUser(file, r) =>
        (Right(r) => Right(r)') /\ (IsUser(file, r) => IsUser(file', r))
  BY <1>1, <1>2 DEF Right, Without, IsUser
<1>7. Upright(a)'
  <2> SUFFICES ASSUME run[a].alone PROVE Upright(a)'
    BY <1>4 DEF Upright
  <2>1. /\ run[a].graph = Graph
        /\ Leftover \subseteq DOMAIN Graph \cup run[a].orphans
        /\ \A r \in DOMAIN Graph :
             Right(r) /\ (r \in run[a].orphans => IsUser(file, r))
    BY <1>1 DEF XInv, Upright
  <2>2. Leftover' \subseteq DOMAIN Graph \cup run'[a].orphans
    BY <1>4, <1>5, <2>1
  <2>3. \A r \in DOMAIN Graph :
          Right(r)' /\ (r \in run'[a].orphans => IsUser(file', r))
    BY <1>1, <1>4, <1>6, <2>1
  <2> QED BY <1>2, <1>4, <2>1, <2>2, <2>3 DEF Upright
<1> QED BY <1>1, <1>2, <1>4, <1>7, OwnStep

LEMMA NextXInv == AInv /\ XInv /\ [Next]_vars => XInv'
<1> SUFFICES ASSUME AInv, XInv, [Next]_vars PROVE XInv'
  OBVIOUS
<1>1. CASE UNCHANGED vars
  BY <1>1, SameStep DEF vars, Same
<1>2. CASE \/ \E n \in Note, m \in Metas : EditNote(n, m) \/ Download(n, m)
           \/ \E n \in Note : RemoveNote(n)
           \/ \E d \in Docs : EditVocabulary(d)
  BY <1>2, DisturbStep DEF EditNote, Download, RemoveNote, EditVocabulary
<1>3. ASSUME NEW f \in Folders, WriteIndex(f) PROVE XInv'
  <2>1. run' = run /\ \A a \in Runner : run[a].at = "idle"
    BY <1>3 DEF WriteIndex, Quiet, Running
  <2> QED BY <2>1 DEF XInv, AloneRest, Upright
<1>4. ASSUME NEW a \in Runner, Reindex(a) PROVE XInv'
  BY <1>4, ReadStep, AdoptStep, DetectStep, WriteStep, DeleteStep DEF Reindex
<1>5. CASE Crash \/ \E a \in Runner : Complete(a) \/ Cut(a) \/ Fail(a)
  <2>1. UNCHANGED <<nodes, meta, file>>
    BY <1>5 DEF Crash, Complete, Cut, Fail, Finish
  <2>2. \A b \in Runner : run'[b] = run[b] \/ run'[b] = Idle
    BY <1>5 DEF Crash, Complete, Cut, Fail, Finish, AInv, Runs
  <2>3. \A b \in Runner : Same(b)
    BY <2>2, IdleRun DEF Same
  <2> QED BY <2>1, <2>3, SameStep
<1>6. CASE \/ CallNavigate \/ CallFree \/ SyncDone \/ SyncBegin \/ SyncFail
           \/ \E adopt \in SUBSET Folders : CallReindex(adopt)
  <2>1. UNCHANGED <<nodes, meta, file>>
    BY <1>6 DEF CallNavigate, CallFree, SyncDone, SyncBegin, SyncFail, CallReindex
  <2>2. run' = run \/ \E a \in Runner, adopt \in SUBSET Folders : Begin(a, adopt)
    BY <1>6 DEF CallNavigate, CallFree, SyncDone, SyncBegin, SyncFail, CallReindex, Runner, Locked
  <2>3. CASE run' = run
    BY <2>1, <2>3, SameStep DEF Same
  <2> QED BY <2>2, <2>3, BeginStep
<1> QED BY <1>1, <1>2, <1>3, <1>4, <1>5, <1>6 DEF Next

\* A reindex that nothing disturbed and that is done leaves the pages as the
\* notes and the vocabulary have them, for any notes, topics and folders.
THEOREM CompletedIsExact == Spec => []CompleteIsExact
<1>1. XInv => CompleteIsExact
  BY DEF XInv, Upright, CompleteIsExact, Done, Fresh, Right, Leftover
<1> QED BY <1>1, InitAInv, NextAInv, InitXInv, NextXInv, PTL DEF Spec

-----------------------------------------------------------------------------
(* The lock that the runs and the syncs take: VaultMutex, whose variables   *)
(* are none of AutoSync's.  Exclusion is not inductive: a state in which a  *)
(* call runs without its promise in the map satisfies it and a second one   *)
(* may enter.  Owned adds that the map names every running call; with       *)
(* NoOrphanLock the map and the running calls are one to one.               *)

Owned == \A c \in Call : pc[c] = "in" => mutex[key[c]] = c

MInv == None \notin Call /\ MutexTypeOK /\ Owned /\ NoOrphanLock /\ NoLostWakeup

LEMMA InitMInv == MutexInit => MInv
BY MutexAssumption DEF MutexInit, MInv, MutexTypeOK, Places, Owned, NoOrphanLock, NoLostWakeup

\* Entering a free key keeps the map and the running calls in step.
LEMMA EnterStep ==
  ASSUME MInv, NEW c \in Call, NEW k \in Key, Enter(c, k),
         mutex[k] = None, pc[c] # "in",
         key' \in [Call -> Key], made' \in [Call -> Nat],
         key'[c] = k, \A d \in Call \ {c} : key'[d] = key[d]
  PROVE  MInv'
<1> USE DEF MInv, MutexTypeOK, Enter, Places
<1>1. MutexTypeOK'
  OBVIOUS
<1>2. Owned'
  BY DEF Owned
<1>3. NoOrphanLock'
  BY DEF NoOrphanLock
<1>4. NoLostWakeup'
  BY DEF NoLostWakeup
<1> QED BY <1>1, <1>2, <1>3, <1>4

\* A call that goes to sleep on a taken key disturbs nobody.
LEMMA SleepStep ==
  ASSUME MInv, NEW c \in Call, NEW k \in Key,
         pc' = [pc EXCEPT ![c] = "asleep"], UNCHANGED mutex,
         mutex[k] # None, pc[c] # "in",
         key' \in [Call -> Key], made' \in [Call -> Nat],
         key'[c] = k, \A d \in Call \ {c} : key'[d] = key[d]
  PROVE  MInv'
<1> USE DEF MInv, MutexTypeOK, Places
<1>1. MutexTypeOK'
  OBVIOUS
<1>2. Owned'
  BY DEF Owned
<1>3. NoOrphanLock'
  BY DEF NoOrphanLock
<1>4. NoLostWakeup'
  BY DEF NoLostWakeup
<1> QED BY <1>1, <1>2, <1>3, <1>4

LEMMA ReleaseStep ==
  ASSUME MInv, NEW c \in Call, Release(c)
  PROVE  MInv'
<1> USE DEF MInv, MutexTypeOK, Places, Release, Sleepers
<1>1. MutexTypeOK'
  OBVIOUS
<1>2. Owned'
  BY DEF Owned
<1>3. NoOrphanLock'
  BY DEF NoOrphanLock, Owned
<1>4. NoLostWakeup'
  BY DEF NoLostWakeup
<1> QED BY <1>1, <1>2, <1>3, <1>4

LEMMA MadeFacts ==
  ASSUME MInv, NEW c \in Call, NEW k \in Key, Made(c, k)
  PROVE  /\ pc[c] = "out"
         /\ key' \in [Call -> Key] /\ made' \in [Call -> Nat]
         /\ key'[c] = k /\ \A d \in Call \ {c} : key'[d] = key[d]
BY DEF Made, MInv, MutexTypeOK

LEMMA MInvStep == MInv /\ [MutexNext]_mutexVars => MInv'
<1> SUFFICES ASSUME MInv, [MutexNext]_mutexVars PROVE MInv'
  OBVIOUS
<1>1. ASSUME NEW c \in Call, NEW k \in Key, Take(c, k)
      PROVE  MInv'
  BY <1>1, MadeFacts, EnterStep DEF Take
<1>2. ASSUME NEW c \in Call, NEW k \in Key, Wait(c, k)
      PROVE  MInv'
  BY <1>2, MadeFacts, SleepStep DEF Wait
<1>3. ASSUME NEW c \in Call, NEW k \in Key, Skip(c, k)
      PROVE  MInv'
  <2>1. /\ pc[c] = "out" /\ UNCHANGED <<mutex, pc>>
        /\ key' \in [Call -> Key] /\ made' \in [Call -> Nat]
        /\ \A d \in Call \ {c} : key'[d] = key[d]
    BY <1>3, MadeFacts DEF Skip
  <2> QED BY <2>1 DEF MInv, MutexTypeOK, Owned, NoOrphanLock, NoLostWakeup
<1>4. ASSUME NEW c \in Call, Recheck(c)
      PROVE  MInv'
  <2>1. /\ pc[c] = "awake" /\ key[c] \in Key
        /\ key' \in [Call -> Key] /\ made' \in [Call -> Nat]
        /\ key'[c] = key[c] /\ \A d \in Call \ {c} : key'[d] = key[d]
    BY <1>4 DEF Recheck, MInv, MutexTypeOK
  <2>2. CASE mutex[key[c]] = None
    BY <1>4, <2>1, <2>2, EnterStep DEF Recheck
  <2>3. CASE mutex[key[c]] # None
    BY <1>4, <2>1, <2>3, SleepStep DEF Recheck
  <2> QED BY <2>2, <2>3
<1>5. ASSUME NEW c \in Call, Release(c)
      PROVE  MInv'
  BY <1>5, ReleaseStep
<1>6. CASE UNCHANGED mutexVars
  BY <1>6 DEF mutexVars, MInv, MutexTypeOK, Owned, NoOrphanLock, NoLostWakeup
<1> QED BY <1>1, <1>2, <1>3, <1>4, <1>5, <1>6 DEF MutexNext

LEMMA MInvExcludes == MInv => Exclusion
BY DEF MInv, Owned, Exclusion

\* Two calls never run under one key at once, for any number of calls and
\* keys, however their wake-ups interleave (mutex.ts:50-55).
THEOREM MutualExclusion == MutexSpec => []Exclusion
<1>1. MutexInit => MInv
  BY InitMInv
<1>2. MInv /\ [MutexNext]_mutexVars => MInv'
  BY MInvStep
<1>3. MInv => Exclusion
  BY MInvExcludes
<1> QED BY <1>1, <1>2, <1>3, PTL DEF MutexSpec

\* No release is missed and no lock is left behind: a sleeper always sleeps on
\* a promise that a running call will resolve.
THEOREM NoMissedRelease == MutexSpec => [](NoOrphanLock /\ NoLostWakeup)
<1>1. MInv => NoOrphanLock /\ NoLostWakeup
  BY DEF MInv
<1> QED BY <1>1, InitMInv, MInvStep, PTL DEF MutexSpec

-----------------------------------------------------------------------------
(* The refinement.  A call that is out is in neither set; what an action    *)
(* does to the sets of each key follows from what it does to pc and key of  *)
(* the calls.                                                               *)

InsideOf(k)  == {c \in Call : pc[c] = "in" /\ key[c] = k}
WaitingOf(k) == {c \in Call : pc[c] \in {"asleep", "awake"} /\ key[c] = k}

LEMMA Views ==
  /\ Inside = [k \in Key |-> InsideOf(k)]
  /\ Waiting = [k \in Key |-> WaitingOf(k)]
  /\ Inside' = [k \in Key |-> InsideOf(k)']
  /\ Waiting' = [k \in Key |-> WaitingOf(k)']
BY DEF Inside, Waiting, InsideOf, WaitingOf

\* Only call c moved.
OnlyMoved(c) == \A d \in Call \ {c} : pc'[d] = pc[d] /\ key'[d] = key[d]

\* A free key has nobody inside.
LEMMA FreeIsEmpty ==
  ASSUME MInv, NEW k \in Key, mutex[k] = None
  PROVE  InsideOf(k) = {}
BY DEF MInv, MutexTypeOK, Owned, InsideOf

\* A taken key has somebody inside.
LEMMA TakenIsBusy ==
  ASSUME MInv, NEW k \in Key, mutex[k] # None
  PROVE  InsideOf(k) # {}
BY DEF MInv, MutexTypeOK, NoOrphanLock, InsideOf

LEMMA OutIsAway ==
  ASSUME MInv, NEW c \in Call, pc[c] = "out"
  PROVE  Lock!Away(c)
BY Views DEF Lock!Away, InsideOf, WaitingOf

\* A call that was out enters a key that was free.
LEMMA TakeEnters ==
  ASSUME MInv, NEW c \in Call, NEW k \in Key, Take(c, k)
  PROVE  Lock!Enter(c, k)
<1>1. /\ pc[c] = "out" /\ mutex[k] = None
      /\ pc' = [pc EXCEPT ![c] = "in"] /\ key' = [key EXCEPT ![c] = k]
  BY DEF Take, Made, Enter
<1>2. Lock!Away(c) /\ ~Lock!Busy(k)
  BY <1>1, OutIsAway, FreeIsEmpty, Views DEF Lock!Busy
<1>3. \A j \in Key : WaitingOf(j)' = WaitingOf(j)
  BY <1>1 DEF WaitingOf, MInv, MutexTypeOK
<1>4. \A j \in Key \ {k} : InsideOf(j)' = InsideOf(j)
  BY <1>1 DEF InsideOf, MInv, MutexTypeOK
<1>5. InsideOf(k)' = {c}
  <2>1. InsideOf(k) = {}
    BY <1>1, FreeIsEmpty
  <2> QED BY <1>1, <2>1 DEF InsideOf, MInv, MutexTypeOK
<1>6. Inside' = [Inside EXCEPT ![k] = {c}] /\ Waiting' = Waiting
  BY <1>3, <1>4, <1>5, Views
<1> QED BY <1>2, <1>6 DEF Lock!Enter

LEMMA WaitWaits ==
  ASSUME MInv, NEW c \in Call, NEW k \in Key, Wait(c, k)
  PROVE  Lock!Wait(c, k)
<1>1. /\ pc[c] = "out" /\ mutex[k] # None
      /\ pc' = [pc EXCEPT ![c] = "asleep"] /\ key' = [key EXCEPT ![c] = k]
  BY DEF Wait, Made
<1>2. Lock!Away(c) /\ Lock!Busy(k)
  BY <1>1, OutIsAway, TakenIsBusy, Views DEF Lock!Busy
<1>3. \A j \in Key : InsideOf(j)' = InsideOf(j)
  BY <1>1 DEF InsideOf, MInv, MutexTypeOK
<1>4. \A j \in Key \ {k} : WaitingOf(j)' = WaitingOf(j)
  BY <1>1 DEF WaitingOf, MInv, MutexTypeOK
<1>5. WaitingOf(k)' = WaitingOf(k) \cup {c}
  BY <1>1 DEF WaitingOf, MInv, MutexTypeOK
<1>6. Inside' = Inside /\ Waiting' = [Waiting EXCEPT ![k] = @ \cup {c}]
  BY <1>3, <1>4, <1>5, Views
<1> QED BY <1>2, <1>6 DEF Lock!Wait

\* A skipped call is not seen.
LEMMA SkipHides ==
  ASSUME MInv, NEW c \in Call, NEW k \in Key, Skip(c, k)
  PROVE  UNCHANGED Lock!vars
<1>1. /\ pc[c] = "out" /\ pc' = pc /\ key' = [key EXCEPT ![c] = k]
  BY DEF Skip, Made
<1>2. \A j \in Key : InsideOf(j)' = InsideOf(j) /\ WaitingOf(j)' = WaitingOf(j)
  BY <1>1 DEF InsideOf, WaitingOf, MInv, MutexTypeOK
<1> QED BY <1>2, Views DEF Lock!vars

\* A waiter that looks again is let in, or goes back to sleep unseen.
LEMMA RecheckGrants ==
  ASSUME MInv, NEW c \in Call, Recheck(c)
  PROVE  Lock!Grant(c, key[c]) \/ UNCHANGED Lock!vars
<1> DEFINE k == key[c]
<1>1. pc[c] = "awake" /\ key' = key /\ k \in Key
  BY DEF Recheck, MInv, MutexTypeOK
<1>2. CASE mutex[k] = None
  <2>1. pc' = [pc EXCEPT ![c] = "in"]
    BY <1>2 DEF Recheck, Enter
  <2>2. c \in WaitingOf(k) /\ InsideOf(k) = {}
    BY <1>1, <1>2, FreeIsEmpty DEF WaitingOf
  <2>3. \A j \in Key \ {k} : /\ InsideOf(j)' = InsideOf(j)
                             /\ WaitingOf(j)' = WaitingOf(j)
    BY <1>1, <2>1 DEF InsideOf, WaitingOf, MInv, MutexTypeOK
  <2>4. InsideOf(k)' = {c}
    BY <1>1, <2>1, <2>2 DEF InsideOf, MInv, MutexTypeOK
  <2>5. WaitingOf(k)' = WaitingOf(k) \ {c}
    BY <1>1, <2>1 DEF WaitingOf, MInv, MutexTypeOK
  <2>6. /\ Inside' = [Inside EXCEPT ![k] = {c}]
        /\ Waiting' = [Waiting EXCEPT ![k] = @ \ {c}]
    BY <1>1, <2>3, <2>4, <2>5, Views
  <2> QED BY <1>1, <2>2, <2>6, Views DEF Lock!Grant, Lock!Busy
<1>3. CASE mutex[k] # None
  <2>1. pc' = [pc EXCEPT ![c] = "asleep"]
    BY <1>3 DEF Recheck
  <2>2. \A j \in Key : InsideOf(j)' = InsideOf(j) /\ WaitingOf(j)' = WaitingOf(j)
    BY <1>1, <2>1 DEF InsideOf, WaitingOf, MInv, MutexTypeOK
  <2> QED BY <2>2, Views DEF Lock!vars
<1> QED BY <1>2, <1>3

\* The wake-up of the sleepers is not seen: they still wait.
LEMMA ReleaseLeaves ==
  ASSUME MInv, NEW c \in Call, Release(c)
  PROVE  Lock!Leave(c, key[c])
<1> DEFINE k == key[c]
<1>1. /\ pc[c] = "in" /\ key' = key /\ k \in Key /\ pc'[c] = "out"
      /\ \A d \in Call \ {c} :
           \/ pc'[d] = pc[d]
           \/ pc[d] = "asleep" /\ pc'[d] = "awake"
  BY DEF Release, Sleepers, MInv, MutexTypeOK
<1>2. \A j \in Key : WaitingOf(j)' = WaitingOf(j)
  BY <1>1 DEF WaitingOf
<1>3. \A j \in Key \ {k} : InsideOf(j)' = InsideOf(j)
  BY <1>1 DEF InsideOf
<1>4. InsideOf(k)' = InsideOf(k) \ {c} /\ c \in InsideOf(k)
  BY <1>1 DEF InsideOf
<1>5. Inside' = [Inside EXCEPT ![k] = @ \ {c}] /\ Waiting' = Waiting
  BY <1>1, <1>2, <1>3, <1>4, Views
<1> QED BY <1>1, <1>4, <1>5, Views DEF Lock!Leave

LEMMA StepImplements == MInv /\ [MutexNext]_mutexVars => [Lock!Next]_(Lock!vars)
<1> SUFFICES ASSUME MInv, [MutexNext]_mutexVars PROVE [Lock!Next]_(Lock!vars)
  OBVIOUS
<1> USE DEF Lock!Next
<1>1. ASSUME NEW c \in Call, NEW k \in Key, Take(c, k)
      PROVE  Lock!Next
  BY <1>1, TakeEnters
<1>2. ASSUME NEW c \in Call, NEW k \in Key, Wait(c, k)
      PROVE  Lock!Next
  BY <1>2, WaitWaits
<1>3. ASSUME NEW c \in Call, NEW k \in Key, Skip(c, k)
      PROVE  UNCHANGED Lock!vars
  BY <1>3, SkipHides
<1>4. ASSUME NEW c \in Call, Recheck(c)
      PROVE  [Lock!Next]_(Lock!vars)
  BY <1>4, RecheckGrants DEF MInv, MutexTypeOK
<1>5. ASSUME NEW c \in Call, Release(c)
      PROVE  Lock!Next
  BY <1>5, ReleaseLeaves DEF MInv, MutexTypeOK
<1>6. CASE UNCHANGED mutexVars
  BY <1>6 DEF mutexVars, Lock!vars, Inside, Waiting
<1> QED BY <1>1, <1>2, <1>3, <1>4, <1>5, <1>6 DEF MutexNext

\* withVaultLock implements a lock per key, for any number of calls and keys:
\* each of its steps is one of the abstract lock's or is not seen (the safety
\* part of ImplementsLock; its fairness is model-checked).
THEOREM ImplementsKeyedLock == MutexSpec => Lock!Spec
<1>1. MutexInit => Lock!Init
  BY DEF MutexInit, Lock!Init, Inside, Waiting
<1>2. MInv /\ [MutexNext]_mutexVars => [Lock!Next]_(Lock!vars)
  BY StepImplements
<1> QED BY <1>1, <1>2, InitMInv, MInvStep, PTL DEF MutexSpec, Lock!Spec
=============================================================================
