------------------------------ MODULE AutoSync ------------------------------
(***************************************************************************)
(* The derived files of one vault and the calls of one server process that *)
(* rebuild them: VaultReindexer (core/src/obsidian/knowledge/reindexer.ts) *)
(* under the autosync (mcp/src/parche/autosync.ts), vault_navigate and     *)
(* vault_reindex, which share a lock, and under the tools that take none:  *)
(* the note writer, vault_sync, vault_topics and vault_classify.           *)
(*                                                                         *)
(* A run reads the notes, then the vocabulary, then writes page after page *)
(* until its deadline, while the user edits, a sync downloads, and other   *)
(* runs do the same.  What could not be done is remembered in memory       *)
(* (reindex-state.ts) for the next sync.                                   *)
(***************************************************************************)
EXTENDS KnowledgeGraph

CONSTANTS
  Note,
  Metas,        \* frontmatters a note may have
  FirstMeta,    \* the notes at the start
  Docs,         \* the nodes of the vocabularies there may be, and
  FirstDoc,     \* those at the start
  Folders,      \* folders whose INDEX.md the user may write
  MaxEvents,    \* how much happens of its own accord (bound)
  MaxTexts      \* texts of the user per folder (bound)

Locked == {"autosync", "navigate", "reindex"}   \* runs under the reindex lock
Runner == Locked \cup {"free"}
NoLock == "none"

ASSUME AutoSyncAssumption ==
  /\ FirstMeta \in [Note -> Metas] /\ FirstDoc \in Docs
  /\ MaxEvents \in Nat /\ MaxTexts \in Nat

VARIABLES
  nodes,    \* the topics of VOCABULARIO.md
  meta,     \* the notes of the vault
  file,     \* the derived paths that exist
  manual,   \* the texts in <folder>/INDEX (manual).md, per folder
  texts,    \* how many texts the user has written as the INDEX.md of a folder
  run,      \* run[a]: the reindex that a runs
  lock,     \* who holds the reindex lock
  sync,     \* where the sync of the vault is, under the vault lock
  pending,  \* reindex-state.ts: a reindex is to be made up for
  owed,     \* an autosync has changed notes that no completed run has read
  left      \* how many edits, syncs, unlocked runs and failures are left

vars == <<nodes, meta, file, manual, texts, run, lock, sync, pending, owed, left>>

\* A file holds a generated page, or the k-th text of the user.
Generated(page) == [by |-> "chamba", page |-> page, text |-> 0]
Written(k)      == [by |-> "user", page |-> {}, text |-> k]
IsUser(f, q)    == q \in DOMAIN f /\ f[q].by = "user"
IsIndex(q)      == q[1] = "index"

Idle == [at |-> "idle", meta |-> <<>>, graph |-> <<>>, todo |-> {}, orphans |-> {},
         adopt |-> {}, folder |-> <<>>, since |-> FALSE, alone |-> TRUE]

TypeOK ==
  /\ nodes \in Docs
  /\ DOMAIN meta \subseteq Note /\ \A n \in DOMAIN meta : meta[n] \in Metas
  /\ \A q \in DOMAIN file : file[q].by \in {"chamba", "user"}
  /\ manual \in [Folders -> SUBSET (1..MaxTexts)] /\ texts \in [Folders -> 0..MaxTexts]
  /\ lock \in Locked \cup {NoLock}
  /\ sync \in {"idle", "running", "changed", "reindexing"}
  /\ pending \in BOOLEAN /\ owed \in BOOLEAN
  /\ \A a \in Runner : run[a].at \in {"idle", "begun", "read", "adopt", "adopted", "write"}
  /\ lock # NoLock => run[lock].at # "idle"

Init ==
  /\ nodes = FirstDoc /\ meta = FirstMeta
  /\ file = <<>>
  /\ manual = [f \in Folders |-> {}] /\ texts = [f \in Folders |-> 0]
  /\ run = [a \in Runner |-> Idle]
  /\ lock = NoLock /\ sync = "idle" /\ pending = FALSE /\ owed = FALSE
  /\ left = MaxEvents

Spend == left > 0 /\ left' = left - 1
Running(a) == run[a].at # "idle"
Done(a) == run[a].at = "write" /\ run[a].todo = {} /\ run[a].orphans = {}
Quiet == \A a \in Runner : ~Running(a)

\* Runs that something else disturbs; a run notices nothing of it.
Disturbed == [a \in Runner |-> [run[a] EXCEPT !.alone = run[a].at \in {"idle", "begun"} /\ @]]

Without(f, q)  == [r \in DOMAIN f \ {q} |-> f[r]]
With(f, q, c)  == [r \in DOMAIN f \cup {q} |-> IF r = q THEN c ELSE f[r]]

-----------------------------------------------------------------------------
(* The user.                                                               *)

EditNote(n, m) ==
  /\ Spend /\ (n \in DOMAIN meta => meta[n] # m)
  /\ meta' = With(meta, n, m) /\ run' = Disturbed
  /\ UNCHANGED <<nodes, file, manual, texts, lock, sync, pending, owed>>

RemoveNote(n) ==
  /\ Spend /\ n \in DOMAIN meta
  /\ meta' = Without(meta, n) /\ run' = Disturbed
  /\ UNCHANGED <<nodes, file, manual, texts, lock, sync, pending, owed>>

EditVocabulary(d) ==
  /\ Spend /\ d # nodes
  /\ nodes' = d /\ run' = Disturbed
  /\ UNCHANGED <<meta, file, manual, texts, lock, sync, pending, owed>>

\* The user writes an INDEX.md of their own, when no run is under way.
WriteIndex(f) ==
  /\ Spend /\ Quiet /\ texts[f] < MaxTexts /\ ~IsUser(file, <<"index", f>>)
  /\ texts' = [texts EXCEPT ![f] = @ + 1]
  /\ file' = With(file, <<"index", f>>, Written(texts[f] + 1))
  /\ UNCHANGED <<nodes, meta, manual, run, lock, sync, pending, owed>>

-----------------------------------------------------------------------------
(* One reindex.                                                            *)

\* A locked runner that finds the lock taken goes on without a run (onBusy:
\* 'skip').
Started(a, adopt) == [run EXCEPT ![a] = [Idle EXCEPT !.at = "begun", !.adopt = adopt,
                                          !.alone = \A b \in Runner \ {a} : ~Running(b)]]
Begin(a, adopt) ==
  /\ ~Running(a)
  /\ lock' = IF a \in Locked THEN a ELSE lock
  /\ run' = [b \in Runner |-> IF b = a THEN Started(a, adopt)[a]
                              ELSE [run[b] EXCEPT !.alone = FALSE]]

\* loadGraphNotes.
ReadNotes(a) ==
  /\ run[a].at = "begun"
  /\ run' = [run EXCEPT ![a].at = "read", ![a].meta = meta, ![a].since = TRUE]
  /\ UNCHANGED <<nodes, meta, file, manual, texts, lock, sync, pending, owed, left>>

\* Mutant: the derived files that exist are not looked for.
BuildGraphOnly(a) ==
  /\ run[a].at = "read"
  /\ run' = [run EXCEPT ![a].at = "adopt",
                        ![a].graph = BuildKnowledgeGraph(nodes, run[a].meta)]
  /\ UNCHANGED <<nodes, meta, file, manual, texts, lock, sync, pending, owed, left>>

\* loadVocabulary, buildKnowledgeGraph and collectExistingDerived, which does
\* not look into temas/.
BuildGraph(a) ==
  /\ run[a].at = "read"
  /\ run' = [run EXCEPT ![a].at = "adopt",
                        ![a].graph = BuildKnowledgeGraph(nodes, run[a].meta),
                        ![a].orphans = {q \in DOMAIN file : IsIndex(q)}]
  /\ UNCHANGED <<nodes, meta, file, manual, texts, lock, sync, pending, owed, left>>

\* Mutant: an INDEX (manual).md that exists is written over.
AdoptOver(a, f) ==
  LET q == <<"index", f>>
  IN  /\ run[a].at = "adopt" /\ f \in run[a].adopt
      /\ IF IsUser(file, q)
         THEN /\ manual' = [manual EXCEPT ![f] = {file[q].text}]
              /\ run' = [run EXCEPT ![a].at = "adopted", ![a].folder = f]
         ELSE run' = [run EXCEPT ![a].adopt = @ \ {f}] /\ UNCHANGED manual
      /\ UNCHANGED <<nodes, meta, file, texts, lock, sync, pending, owed, left>>

\* adoptManual: the text of the user is copied to INDEX (manual).md, unless
\* there is one, ...
Adopt(a, f) ==
  LET q == <<"index", f>>
  IN  /\ run[a].at = "adopt" /\ f \in run[a].adopt
      /\ IF IsUser(file, q) /\ manual[f] = {}
         THEN /\ manual' = [manual EXCEPT ![f] = {file[q].text}]
              /\ run' = [run EXCEPT ![a].at = "adopted", ![a].folder = f]
         ELSE run' = [run EXCEPT ![a].adopt = @ \ {f}] /\ UNCHANGED manual
      /\ UNCHANGED <<nodes, meta, file, texts, lock, sync, pending, owed, left>>

\* ... and then removed.
RemoveAdopted(a, f) ==
  LET q == <<"index", f>>
  IN  /\ run[a].at = "adopted" /\ f = run[a].folder
      /\ file' = Without(file, q)
      /\ run' = [run EXCEPT ![a].at = "adopt", ![a].adopt = @ \ {f}, ![a].folder = <<>>,
                            ![a].orphans = @ \ {q}]
      /\ UNCHANGED <<nodes, meta, manual, texts, lock, sync, pending, owed, left>>

\* The folders that have an INDEX.md of the user are left out.
DetectManual(a) ==
  /\ run[a].at = "adopt" /\ run[a].adopt = {}
  /\ LET omitted == {q \in DOMAIN run[a].graph : IsIndex(q) /\ IsUser(file, q)}
     IN  run' = [run EXCEPT ![a].at = "write",
                            ![a].todo = DOMAIN run[a].graph \ omitted]
  /\ UNCHANGED <<nodes, meta, file, manual, texts, lock, sync, pending, owed, left>>

\* Mutant: a page that exists is taken for the page as it should be.
WriteMissing(a) ==
  /\ run[a].at = "write"
  /\ \E q \in FirstOf(run[a].todo) :
       /\ file' = IF q \in DOMAIN file THEN file ELSE With(file, q, Generated(run[a].graph[q]))
       /\ run' = [run EXCEPT ![a].todo = @ \ {q}, ![a].orphans = @ \ {q}]
  /\ UNCHANGED <<nodes, meta, manual, texts, lock, sync, pending, owed, left>>

\* A page is written when its content is another one.
WritePage(a) ==
  /\ run[a].at = "write"
  /\ \E q \in FirstOf(run[a].todo) :
       /\ file' = With(file, q, Generated(run[a].graph[q]))
       /\ run' = [run EXCEPT ![a].todo = @ \ {q}, ![a].orphans = @ \ {q}]
  /\ UNCHANGED <<nodes, meta, manual, texts, lock, sync, pending, owed, left>>

\* Orphans go, if they are generated.
DeleteOrphan(a) ==
  /\ run[a].at = "write" /\ run[a].todo = {} /\ run[a].orphans # {}
  /\ \E q \in run[a].orphans :
       /\ file' = IF IsUser(file, q) THEN file ELSE Without(file, q)
       /\ run' = [run EXCEPT ![a].orphans = @ \ {q}]
  /\ UNCHANGED <<nodes, meta, manual, texts, lock, sync, pending, owed, left>>

Reindex(a) ==
  \/ ReadNotes(a) \/ BuildGraph(a) \/ DetectManual(a) \/ WritePage(a)
  \/ DeleteOrphan(a)
  \/ \E f \in Folders : Adopt(a, f) \/ RemoveAdopted(a, f)

-----------------------------------------------------------------------------
(* How a run ends.                                                         *)

\* withVaultLock releases whatever happened.
Finish(a) ==
  /\ run' = [run EXCEPT ![a] = Idle]
  /\ lock' = IF lock = a THEN NoLock ELSE lock
  /\ sync' = IF a = "autosync" THEN "idle" ELSE sync
  /\ UNCHANGED <<nodes, meta, file, manual, texts>>

\* Only the autosync consumes the mark.
Complete(a) ==
  /\ Done(a)
  /\ pending' = (pending /\ a # "autosync")
  /\ owed' = (owed /\ ~run[a].since)
  /\ Finish(a) /\ UNCHANGED left

\* The deadline has passed before a page was written: the rest is left undone.
Cut(a) ==
  /\ a \in {"autosync", "navigate"}
  /\ run[a].at = "write" /\ run[a].todo # {}
  /\ pending' = TRUE
  /\ Finish(a) /\ UNCHANGED <<owed, left>>

\* A write throws: the autosync marks, the tools only report it.
Fail(a) ==
  /\ run[a].at = "adopted" \/ (run[a].at = "write" /\ run[a].todo # {})
  /\ Spend
  /\ pending' = (pending \/ a = "autosync")
  /\ Finish(a) /\ UNCHANGED owed

\* The process ends, and with it the lock and the mark.
Crash ==
  /\ Spend
  /\ run' = [a \in Runner |-> Idle]
  /\ lock' = NoLock /\ sync' = "idle" /\ pending' = FALSE /\ owed' = FALSE
  /\ UNCHANGED <<nodes, meta, file, manual, texts>>

-----------------------------------------------------------------------------
(* The calls.                                                              *)

\* maybeAutoSync takes the vault lock, or is skipped.
SyncBegin ==
  /\ sync = "idle" /\ Spend /\ sync' = "running"
  /\ UNCHANGED <<nodes, meta, file, manual, texts, run, lock, pending, owed>>

\* A run that has read the notes has not read the one that is downloaded.
Download(n, m) ==
  /\ sync = "running" /\ (n \in DOMAIN meta => meta[n] # m)
  /\ meta' = With(meta, n, m)
  /\ run' = [a \in Runner |-> [Disturbed[a] EXCEPT !.since = FALSE]]
  /\ sync' = "changed"
  /\ UNCHANGED <<nodes, file, manual, texts, lock, pending, owed, left>>

\* syncOnce throws, also after it has downloaded: nothing is remembered.
SyncFail ==
  /\ sync \in {"running", "changed"} /\ sync' = "idle"
  /\ UNCHANGED <<nodes, meta, file, manual, texts, run, lock, pending, owed, left>>

\* Mutant: a sync that finds another reindex under way relies on that one.
SyncDoneUnmarked ==
  /\ sync \in {"running", "changed"}
  /\ owed' = (owed \/ sync = "changed")
  /\ IF lock = NoLock /\ (sync = "changed" \/ pending)
     THEN Begin("autosync", {}) /\ sync' = "reindexing"
     ELSE sync' = "idle" /\ UNCHANGED <<lock, run>>
  /\ UNCHANGED <<nodes, meta, file, manual, texts, pending, left>>

\* needsReindex, or a mark: the autosync reindexes under its vault lock, or
\* leaves a mark when the reindex lock is taken.
SyncDone ==
  /\ sync \in {"running", "changed"}
  /\ owed' = (owed \/ sync = "changed")
  /\ LET due == sync = "changed" \/ pending
     IN  IF due /\ lock = NoLock
         THEN Begin("autosync", {}) /\ sync' = "reindexing" /\ UNCHANGED pending
         ELSE sync' = "idle" /\ pending' = due /\ UNCHANGED <<lock, run>>
  /\ UNCHANGED <<nodes, meta, file, manual, texts, left>>

\* vault_navigate brings the derived files up to date, or leaves a mark.
CallNavigate ==
  /\ IF lock = NoLock THEN Begin("navigate", {}) /\ UNCHANGED pending
     ELSE pending' = TRUE /\ UNCHANGED <<run, lock>>
  /\ UNCHANGED <<nodes, meta, file, manual, texts, sync, owed, left>>

\* vault_reindex with dryRun: false; when the lock is taken it only says so.
CallReindex(adopt) ==
  /\ lock = NoLock /\ Begin("reindex", adopt)
  /\ UNCHANGED <<nodes, meta, file, manual, texts, sync, pending, owed, left>>

\* A tool that takes no lock: save_plan, summarize_to_vault, vault_topics,
\* vault_classify and, after its sync, vault_sync.
CallFree ==
  /\ Spend /\ Begin("free", {})
  /\ UNCHANGED <<nodes, meta, file, manual, texts, sync, pending, owed>>

Next ==
  \/ \E n \in Note, m \in Metas : EditNote(n, m) \/ Download(n, m)
  \/ \E n \in Note : RemoveNote(n)
  \/ \E d \in Docs : EditVocabulary(d)
  \/ \E f \in Folders : WriteIndex(f)
  \/ \E a \in Runner : Reindex(a) \/ Complete(a) \/ Cut(a) \/ Fail(a)
  \/ Crash
  \/ SyncBegin \/ SyncFail \/ SyncDone
  \/ CallNavigate \/ CallFree
  \/ \E adopt \in SUBSET Folders : CallReindex(adopt)

Spec == Init /\ [][Next]_vars

\* What a call has begun it goes on with.
FairSpec == Spec /\ \A a \in Runner : WF_vars(Reindex(a) \/ Complete(a))

-----------------------------------------------------------------------------
(* Properties.                                                             *)

Graph == BuildKnowledgeGraph(nodes, meta)

\* The pages of the vault say what its notes and its vocabulary say.
Fresh ==
  LET graph == Graph
  IN  \A q \in DOMAIN graph :
        /\ q \in DOMAIN file
        /\ IsUser(file, q) \/ file[q] = Generated(graph[q])

\* A reindex that an autosync owes is done or marked: whatever other run holds
\* the lock, was cut or failed, the next sync makes up for it.
OwedMarked == owed /\ sync = "idle" => pending

\* No text of the user is lost: it is in the INDEX.md or the INDEX (manual).md
\* of its folder, wherever an adoption stops and however it is repeated.  One
\* written while a run is between its look at the file and its write is not
\* modelled: WriteIndex waits for the runs to end.
ManualKept ==
  \A f \in Folders : \A k \in 1..texts[f] :
    \/ IsUser(file, <<"index", f>>) /\ file[<<"index", f>>].text = k
    \/ k \in manual[f]

\* A complete run that nothing disturbed leaves every page as the graph has
\* it, and no index of a folder that has no notes any more.
CompleteIsExact ==
  \A a \in Runner : Done(a) /\ run[a].alone =>
    /\ Fresh
    /\ \A q \in DOMAIN file : IsIndex(q) /\ ~IsUser(file, q) => q \in DOMAIN Graph

\* The derived files are up to date in the end, whatever ran at the same time,
\* if vault_reindex is called to its end again and again.
FreshInTheEnd == []<><<Complete("reindex")>>_vars => <>[]Fresh

=============================================================================
