# TLA+ models of chamba

chamba is an MCP server and the libraries around it that give coding agents a
workspace, a plan, git worktrees and an Obsidian vault of notes, which a *parche*
server keeps in step between machines. These modules model what keeps state,
runs beside something else or can fail half-way: the vault sync and all that
surrounds it, the knowledge network derived from the notes, the worktrees of a
ticket, and the installers. TLC checks them on small instances and TLAPS proves
what matters most of them. Line numbers refer to `src/`.

## 1. Inventory

### Components that keep state

**Vault sync client** — `packages/core/src/vault-sync/{runner,plan,conflict,state-store}.ts`.
State: the vault's folder (notes, `.trash`), and `.chamba-sync/state.json`: the
cursor (how much of the server's log the vault has applied), `files` (the hash
each path had when it was last in step), the paths skipped because the platform
cannot store their name, and a `pendingAdoption` gate. Operations: one,
`syncOnce`, in three phases. It scans the folder and pushes what differs from
`files`; fetches the changes after its cursor page by page, plans an action
for each changed path (write, delete, conflict, noop) and executes the plan
file by file; and pushes the conflict copies it made. The state is saved after
each phase. Hard: every `await` lets users, other processes on the folder and
other vaults in; a sync can end at any of them (exception, abort, kill) and is
then replayed from old state over half-applied files; the plan is made from a
scan that is older than the pull. Correct means: no edit is lost; a cursor
never claims what the vault does not know; vaults in step are equal; nothing is
replaced in the group by somebody who had not seen it; nothing is deleted for
the group that no user deleted; and everybody converges once users stop.

**Parche server** — not in this repository; `core/src/testing/fake-parche.ts`
is the repository's own reference implementation, and `protocol.ts` its wire
format. State: per group an append-only log of changes, the last hash of each
path, blobs by hash, invites and devices. Operations: changes (paged), push
(compare with base hash, per entry), check and upload of blobs, join. Correct
means: a push is accepted only over the version it names, and repeating an
accepted push changes nothing.

**Adoption, binding and active vault** — `mcp/src/parche/{binding-ops,active-vault}.ts`,
`vault-sync/{adoption,credentials,parche-binding,vault-dir}.ts`, the head and
tail of `runner.ts` (join). State: `credentials.json`, the `parche.json` of the
workspace and of the home, the `pendingAdoption` flag in each `state.json`.
Operations: join, link, resync, leave, unlink, finalize, and the resolution of
the vault a tool syncs. Hard: several files are written in sequence with
crashes between, some outside the vault lock. Correct means: a folder that
joins uploads nothing until the user confirmed; two parches do not share a
folder; what gets synced is what the user bound.

**Vault lock** — `mcp/src/parche/mutex.ts`. State: one promise per vault in
flight. Operations: run exclusively, or skip when busy. Hard: several waiters
wake at one release. Correct means: one sync per vault and process at a time,
and every waiter eventually runs.

**Autosync, pending reindex, reindexer** — `mcp/src/parche/{autosync,reindex-state}.ts`,
`core/src/obsidian/{knowledge/reindexer,vault-writer}.ts`. State: the generated
pages of the vault, and, in memory only, which vaults owe a reindex. Operations:
sync within a time budget before a tool reads, reindex when files arrived, adopt
an index the user had written. Hard: the deadline falls between any two pages;
runs with and without the lock overlap. Correct means: a reindex that was
skipped or cut happens later; a page written by a human is not lost.

**Knowledge network** — `core/src/obsidian/knowledge/`, `mcp/src/tools/vault-{topics,classify,navigate}.ts`.
State: `temas/VOCABULARIO.md` and the `temas` and `temas-propuestos` of the
notes. Operations: add, alias, apply, promote, classify; and, pure, the derived
pages, the navigation, the context map and the ranking of topics. Hard:
positions in a file that humans edit; a promote writes several files; the same
relation is computed by four different walks. Correct means: topics are not
lost or invented, and the walks agree.

**HTTP retries** — `adapters/src/{retrying-http,node-http}.ts`. State: the
attempt number and the last error. Hard: a request without an answer may have
been executed. Correct means: a join is never sent twice once it may have
reached the server.

**Worktrees** — `core/src/worktree/`, `core/src/resources/budget.ts`. State: the
git worktrees of a ticket over several repositories, their `.env` files and
ports. Operations: plan, create, copy environments, assign ports, inspect, clean
up. What was made before a failure stays: nothing is rolled back, and calls are
meant to be repeated. Hard: the third of five creations fails; workers edit
meanwhile. Correct means: nobody's work goes, worktrees do not share a port, and
no more parallel work is advised than the overlaps and the machine allow.

**Agent installers, snapshots, configuration** — `{claude,cursor,opencode}-extras/src/`,
`core/src/config/`. State: the installed files, the editor's MCP configuration,
chamba's `config.json`, and a snapshot store. Operations: install, uninstall
(which removes; only `rollback` brings back what a snapshot holds), apply, pin,
prune, and the configuration commands. Hard: a crash between two files; the
editor and the user write the same ones. Correct means: what is destroyed is in
a snapshot, a rollback brings it back, and what a command is not about is kept.

**Memory store** — `core/src/memory/filesystem-store.ts`: one file per key.

### Components without state of their own

Plan validator, workspace scanner and context, doctor, QA, triage, model
catalogue, design and skill registries, status tools, the CLI's parsing and
prompts: reading, classifying and wording. Node adapters: pure I/O.

### How they interact

A tool call (or the CLI) resolves the workspace's binding and credentials to a
folder, takes the vault lock, and calls `syncOnce`, which talks to the server
through the retrying HTTP client; when files arrived, autosync runs the
reindexer within what is left of the budget; its pages are pushed by the next
sync, and `vault_navigate` computes in memory what the pages would say when they
are out of date. The topic tools and the note writer change the notes and
reindex without the lock. The CLI and the MCP server are separate processes:
they share the folder and nothing else, so the lock does not exclude one against
the other. The worktree tools share only the configuration with the rest, and
the installers write it.

## 2. Modules

| module | models |
|---|---|
| `ParcheLog` | the server's log of one group: last version of a path, push decision, page cursor |
| `SyncPlan` | the pure planning functions: `planPush`, `planPull`, `applyPushResults`, conflict copy names and frontmatter |
| `VaultSync` | `syncOnce` run by any number of processes on any number of vaults, with users, failures and platforms |
| `VaultMutex` | `withVaultLock`: promises, wake-ups and the map, inside one process |
| `KeyedLock` | what `VaultMutex` is for: an abstract lock per key |
| `RetryingHttp` | the retrying HTTP client: which ending of an attempt is sent again |
| `PushProtocol` | a join and the pushes of a vault through `RetryingHttp`: batches, rounds of missing blobs, lost requests and answers |
| `AdoptionGate` | join, link, resync, leave and unlink of one parche, with the syncs beside them: what may be uploaded when |
| `ActiveVault` | the same commands on several parches and two scopes: which file names which folder, and what gets synced |
| `Topics` | the vocabulary file: how it is parsed, and where topics and aliases are inserted |
| `KnowledgeViews` | what is computed from vocabulary and notes: membership, navigation, context map, rankings |
| `KnowledgeGraph` | the derived pages, their order of writing, and `vault_navigate` |
| `VaultTopics` | the tools that change vocabulary and notes, file by file, beside a user |
| `AutoSync` | autosync, `vault_navigate`, `vault_reindex` and the unlocked reindexes over one vault's pages |
| `Waves` | the partition of work items by overlap and the budget of the machine |
| `Worktrees` | the worktree tools over git, ports and workers, a step per command |
| `SnapshotStore` | the set of snapshots: dedup, newest, pin, prune |
| `ChambaConfig` | layers and precedence of the configuration, and the commands that rewrite it |
| `Installer` | the three installers and the configuration commands, a step per file |

`VaultSyncMC`, `VaultMutexMC`, `PushProtocolMC`, `AdoptionGateMC`,
`ActiveVaultMC`, `VaultTopicsMC`, `AutoSyncMC`, `WorktreesMC` and `InstallerMC`
give the constants small values. `VaultSyncProofs`,
`PushProtocolProofs`, `AdoptionGateProofs`, `ActiveVaultProofs`, `VaultTopicsProofs`,
`AutoSyncProofs` (which also proves `VaultMutex`, the lock its runs take),
`WorktreesProofs` and `InstallerProofs` hold the theorems.

Composition: `VaultSync` extends `SyncPlan`, which extends `ParcheLog`;
`PushProtocol` extends `RetryingHttp`; `VaultMutex` instantiates `KeyedLock`;
`KnowledgeGraph` extends `KnowledgeViews` and `Topics`, and `VaultTopics` and
`AutoSync` extend `KnowledgeGraph`; `Worktrees` extends `Waves`; `Installer`
extends `SnapshotStore` and `ChambaConfig`.

Some definitions say what a likely mistake in the code would be
(`ApplyWriteIfAbsent`, `PrunedAll`, `OpenToFirst`, ...) and no action uses them: put
in the place of the definition that follows them, they make the properties fail.

### `VaultSync` and the code

`log` is the server; `disk[v]` and `trash[v]` a folder; `state[v]` its
`state.json`; `run[r]` the local variables of the `syncOnce` that process `r`
is in: `phase` (its position), `st` (the state in memory), `snap` (the last
scan), `todo` (paths the phase still has to treat), `upto` (the fetch cursor),
`copied` and `retried`. `written`, `removed`, `seen` and `used` are ghosts
that no action reads except to bound a user.

| action | code |
|---|---|
| `StartSync` | `readState`, `scanLocal`, `planPush` |
| `PushEntry` | one entry of `pushAll`, the server's decision and `applyPushResults` |
| `SavePush` | the save after phase 1 |
| `FetchPage` | one GET changes; after the last one, `planPull` |
| `ApplyDelete`, `ApplyWrite`, `ApplyDerived`, `WriteCopy`, `ReplaceConflict` | the branches of `executePullActions`, a conflict being two steps |
| `Retry` | the download of a skipped path whose name has become valid |
| `SavePull` | `applyPullPlan`, the skipped paths, the save, the scan for phase 3 |
| `SavePush3` | the save after phase 3 |
| `Fail` | an exception, an abort or a kill at any step |
| `FailRename` | the rename of a file that is gone, which throws |
| `Edit`, `Delete`, `Move` | the user; the folder moved to a POSIX machine |

Abstractions. A hash is the content itself: sha256 is taken to be injective,
and the blob of a hash is always found on the server and has its bytes. A
conflict copy is its text and the two frontmatter keys; `conflict_base`, a
hash in the file, is kept as the text of the base version. The scan is one
step: the moments inside it are not told apart. The push sends one entry per
batch, the finest `batchSize`. There is one group, so the server's sequence
number is the position in the log. `writeBytes` is atomic (the adapter writes
a temporary file and renames it). A failed retry of a skipped path, which the
code swallows, counts as a failure against `MaxFails`, and so does a failed rename.
What a copy is called is a constant of which two things are assumed
(`CopyAssumption`, `CopyValidAssumption`): it tells what it is a copy of, and is
valid where the original is, as `conflictCopyPath` (conflict.ts:33) only puts
"(conflicto <author> <n>)" between stem and extension, none of whose characters is
one `isInvalidPath` (local-path.ts:314) objects to; so the skipping of an invalid
copy (runner.ts:680) is never reached. Batches and missing blobs
are `PushProtocol`'s, the `pendingAdoption` gate is `AdoptionGate`'s. Paths that
differ only in case and a download answered 404 are not modelled.

### `VaultMutex`, `KeyedLock` and the code

`mutex` is the map of promises, each named by the call that made it; `pc[c]` is
where call `c` of `withVaultLock` stands: asleep on the promise it found, awake
(its promise resolved, its continuation not yet run), or in `fn`. `Take`,
`Wait` and `Skip` are the code up to the first await, `Recheck` one turn of the
`while`, `Release` the `finally`. The order in which JavaScript runs woken
continuations is left open, so the properties do not rest on it.

`KeyedLock` knows only who is inside a key and who waits for it: `Enter`, `Wait`,
`Grant`, `Leave`. The refinement mapping (`Inside`, `Waiting`) reads both from
`pc`; the map of promises and the wake-ups are the implementation, and a waiter
that wakes and finds the key taken again is a stutter.

### `RetryingHttp`, `PushProtocol` and the code

`http` is the one request in flight: `send` while the inner `HttpPort` has it,
`sleep` during the backoff, `answered`, `refused` (a status the caller throws)
or `threw` when `request` returned. `failed` is `lastError`, which the code
throws in the end even if the last attempt was answered with a 503. Codes are
told apart by what they say: `PreSend` (nothing was sent), `PostSend` (it may
have been executed), `Busy` (429, 502 to 504; a proxy may say so of an executed
request). In `PushProtocol` an `Attempt` pairs each ending with the server
executing the request or not.

`client` holds the locals of `pushAll`: `batch`, `rounds`, `left` (the size of
`prevMissingSet`), `todo` and `now` (the uploads), and `acked`, what
`applyPushResults` has taken for pushed. A failed push loses them all, and the
next sync starts from the first batch (`StartPush`), as nothing is saved before
the last one. The server is `blobs`, `head` (for each entry: its base version,
the one it pushes, or another vault's), and `appended`, how often the entry was
logged. The server may ask for any blobs, whether or not it has them.

| action | code |
|---|---|
| `StartJoin`, `Joined` | `joinOnce` up to the answer |
| `SendPush`, `Pushed` | `client.push`, `applyPushResults`, the next batch |
| `Missing` | a 422: no source, no progress or too many rounds; else upload |
| `SendPut`, `PutDone` | one upload; after the last one the batch is sent again |
| `GaveUp` | an exception of the client: the sync ends, nothing is saved |
| `ExecutePush`, `ExecutePut`, `ExecuteJoin` | the server's handlers |
| `Overtake` | another vault's push |

Each entry has a path of its own (`planPush` makes one entry a path). A pushed
text that another vault happens to push too is not modelled, nor is a 409 for
names that differ only in case.

### `AdoptionGate` and the code

A task is one tool call or CLI command, its `pc` the next write or await.
`cred` is the folder the credential names, `binding` the folder in
`parche.json` (one may exist at first: a colleague has committed it), `state[f]`
the two parts of a folder's `state.json` the gate is about: the flag and the hash
of the invite code (the code itself here). A `Join` or `Link` is checked, then does `WriteCred` and
`Reset`, `Gate`, `Clear` and `Unset`, the lock, and the sync with its three
moments (read, save after the push, save after the pull), then `Bind`. A
resumed join starts at `Clear` and writes no binding; a resync starts at
`CheckPending`. `AutoSync` and `SyncCommand` are the syncs beside. Only the
server's tasks share a lock with each other, as in the code.

Ghosts say what happened: `consent` is the folders whose upload the user agreed to,
by `--yes`, `confirmUpload` or the prompt, since the credential or the state was last
written for them; `due` those whose credential is written and whose reset is still to
come; `undone` those whose last reset was written over by a task that had read the
state before it (`stale`). A sync notes when it begins whether there was consent
(`agreed`) and whether the folder was due or undone (`exposed`). There is one parche; the workspace's and the global binding
are one file; validating a folder is the test that it is not linked already.

### `ActiveVault` and the code

`cred[s]` is the folder in parche `s`'s entry of `credentials.json`,
`binding[scope]` the `parche.json` of the workspace or of the home (or
`Invalid`, a file that does not parse), `state[f]` a folder's `state.json` with
its parche, flag and code hash, `dirs` the folders that exist. `call` is the
command that runs; it stops after each file it writes: `WriteCred`, `Reset`,
`Gate`, `Clear`, `FirstSync`, then `BindJoin` or `BindLink`. `NewJoin`, `CliJoin`,
`ToolJoin`, `ResumeJoin`, `Link`, `Resync`, `Leave` and `Unlink` are the commands
with their checks; `ActiveParcheVault` is the resolution in its order of
precedence (`VaultOf`, `FromBinding`, `Detected`, `FromDetection`), and `AutoSync`
the sync of what it finds. `Fail` cuts a command between two writes,
`RemoveFolder` and `PullBinding` (a `parche.json` that came from git) are the world.
`last` is a ghost: the last command that came to its end. Commands come one at a
time; what two at once may do to the gate is `AdoptionGate`'s.

### `Topics`, `KnowledgeViews`, `KnowledgeGraph`, `VaultTopics` and the code

A topic is its path, a sequence of names; names are numbers in the order the
code sorts them. `doc` is the sequence of entry lines of `VOCABULARIO.md`, each
with its path, its aliases and the topic its description quotes; `ParseVocabulary`
accepts a line as `parseVocabulary` does, `VocabularyAdd` and `VocabularyAlias`
find the place as the code finds it, in the text and not in the parse.

`KnowledgeViews` has one operator per computed relation, each following its own
code path: `NodeNotes` (the graph's climb from a tag to its ancestors),
`NavSubtree` (the navigator's descent), `NodeEntries` (the context map's), so
that their agreement is a result and not a definition. The rankings compare words:
`Words[n]` are those of a name (the code splits a query and a description at every
hyphen, but the segments of a topic it compares them with are whole), `Says[p]` those
of a topic's description. A page of
`KnowledgeGraph` is the set of its entries without wording or order; `Before` is
the order in which the reindexer writes them, which matters to its deadline.

`VaultTopics`: `AddTopic`, `AddAlias` and `Apply` rewrite the vocabulary in one step;
`PromotePlan` and `Classify` fill `call.todo`, and `WriteNote` writes one note of it,
then `PromoteVocabulary` or `EndCall`; `SaveNote` is the note writer with its links
back. `Crash` is the server's death between two files. The user has `EditBody`,
`Propose`, `TagNote`, `DropLine`.

### `AutoSync` and the code

`nodes` and `meta` are what the vault says now; `file` the derived pages and who
wrote each; `manual[f]` what `INDEX (manual).md` holds; `run[a]` one execution of
`VaultReindexer.reindex` by `a` (autosync, navigate and `vault_reindex`, which take
the lock, and a free one: note writer, `vault_sync`, `vault_topics`,
`vault_classify`); `pending` the mark of `reindex-state.ts`.

| action | code |
|---|---|
| `Begin`, `ReadNotes`, `BuildGraph` | the scan of the notes, then the vocabulary: two reads at two moments |
| `Adopt`, `RemoveAdopted` | `adoptManualIndexes`: the copy, then the removal |
| `DetectManual` | the check of every `INDEX.md` for a human's hand |
| `WritePage`, `DeleteOrphan` | one page written or removed; before each the deadline is looked at |
| `Complete`, `Cut`, `Fail`, `Crash` | the end: all written, deadline reached, exception, death of the process |
| `SyncBegin`, `Download`, `SyncDone`, `SyncFail` | the sync in `runAutosync`, its files arriving one by one, and the reindex it begins, skips or owes |
| `CallNavigate`, `CallReindex`, `CallFree` | the tools |
| `EditNote`, `RemoveNote`, `EditVocabulary`, `WriteIndex` | the user |

`owed` is a ghost: an autosync brought files that no completed run has read.

### `Waves`, `Worktrees` and the code

A worktree is named by repository and ticket. `dir`, `registered`, `branch`,
`committed`, `dirty` are what git has of it; `env`, `port` the copied files;
`inUse` what listens on the machine. `call` is the running tool call: `at` its
position, `i` the item it is at. `Copies[t]` says whether the calls of a ticket copy
the `.env` files (`copyEnvFiles`, off by default); ports are on. The `command` that may
take the place of `git worktree add` is not modelled, and the main checkout, which
the inspector looks at too, is taken to have no changes.

| action | code |
|---|---|
| `CreateOne`, `BranchExistsRemote`, `FetchBranch`, `AddWorktree`, `CopyEnvFiles` | `MultiRepoWorktreeManager.create`, per repository |
| `Inspect`, `Called`, `Advise` | the inspector's snapshots; overlaps, waves and recommended parallelism of a call |
| `ReadPort`, `AllocatePort`, `EndPorts` | `assignWorktreePorts`, a step per probe |
| `Cleanup`, `CleanupFails` | `cleanup`, which stops at the first worktree git refuses to remove |
| `CreateWorktree`, `CleanupWorktree` | the tools for one worktree |
| `Fails` in each, `Crash` | a git command that fails; the death of the process |
| `Edit`, `Commit`, `Push`, `DeleteDir`, `Listen`, `Stop`, `Network` | workers, colleagues, servers, the network |

What git refuses (`CanAdd`, `CanRemove`, `CanForce`: an existing path, a branch
checked out elsewhere, a dirty worktree) is external and modelled from what the
code relies on.

### `SnapshotStore`, `ChambaConfig`, `Installer` and the code

`editor` is the one whose installer is used; `disk` its files and its MCP
configuration (`Json`); `conf` the user's `config.json`; `snaps` the snapshot
store; `op` the running command, with the files it has still to treat, what it
had read of the JSON, and `touched`, the files somebody else changed since.

| action | code |
|---|---|
| `ClaudeInstall`, `OpenCodeInstall`, `CursorInstall`, `...Uninstall`, `Apply`, `PinCommand`, `Rollback` | the commands up to their first write |
| `Snapshot`, `Prune`, `PinSnapshot`, `LoadSnapshot`, `Restore` | the snapshot store under Claude Code's commands |
| `InstallAsset`, `UninstallAsset`, `ApplyAsset` | one file; `apply` passes over assets that are no agents |
| `ReadJson`, `WriteJson` | the editor's MCP configuration: read, changed in memory, written |
| `ConfigPreset`, `ConfigSet`, `ConfigWorktrees`, `ConfigReset`, `ConfigWizard` | the commands that rewrite `config.json` |
| `UserEdits`, `EditorWrites`, `UserEditsConfig`, `Crash` | the user, the editor, and a process that dies while it writes, leaving the file `Torn` |

A rendered agent is its model and effort, and to which editor's form they were
brought; the role, field and preset tables are constants.

## 3. Runs

| run | question | result |
|---|---|---|
| `sync_two_vaults` | two vaults, two authors, one note, a generated text among the versions, edits and deletes, those of one user during his syncs too, a failure at any step, a rename that fails | no edit made between syncs is lost, cursors honest, a replayed conflict reuses its copy, nothing is replaced unseen, and until a sync fails the group receives only what users wrote or deleted |
| `sync_windows` | a machine that cannot store the name, its move to POSIX, edits during syncs, a failure or a user's delete | a skipped note never becomes a tombstone; once users stop, both vaults equal the server |
| `edit_during_sync` | `NoLostEdit` with edits during a sync | **violated** |
| `push` | a join and two batches, with lost requests and answers, missing blobs, an overtaking peer, aborts, a second sync | join executed once; an entry logged once per base; nothing taken for pushed that is not; every push ends |
| `vault_mutex` | three calls on two keys wait, skip, wake and throw in any order | one per key; no sleeper on a free key; waiters run; all of it is a `KeyedLock` |
| `adoption` | any two joins, links, resyncs, leaves and unlinks, syncs beside them, a failure or crash anywhere, a binding from before | a folder goes up before its user agreed only by one of two races |
| `adoption_races` | `NothingUnconfirmed`, the promise itself, in the same instance | **violated** |
| `active_vault` | three commands on two parches, a workspace and the home; a failure, a deleted folder or a pulled binding | parches do not share a folder; a workspace is never given another parche; what was bound is what is synced |
| `vocabulary` | two calls of the topic tools, a stop of the server between any two files, and two user edits between the calls | derived pages, navigation and map agree; topics are kept and none invented; proposals are not dropped |
| `autosync` | locked and unlocked reindexes, deadlines, failures, downloads, the user's own index | an owed reindex is marked; the user's text is kept; an undisturbed run is exact; repeated reindexing makes the pages fresh |
| `worktrees` | a ticket over two repositories and a plain folder, beside workers, colleagues, servers, failures | nobody's work goes; the ports of a call differ; no more workers are advised than overlaps and machine allow; every call ends |
| `install` | three commands of three installers, with a configuration command, and the user, the editor or a crash | what is destroyed is in a snapshot; rollback restores; pins stay; agents get their settings; a preset, `config set` and the worktree questions change nothing they are not about; servers stay |

### Bounds, and why they are enough

*Vault sync.* `MaxEdits`, `MaxDeletes`, `MaxFails` bound user actions and
failures in a behaviour, `MaxCopies` the conflict copy numbers; there are two or
three texts. `PageSize` is 1, so that a fetch of two changes has a page boundary
and a last page in it. `ReuseText = FALSE` makes every edit fresh, which
`EditsKept` needs to tell versions apart: a note written again with an old content
is left out. `MaxMishaps` bounds deletes and broken-off syncs together: two edits
with two deletes, or with a delete and a failure, are enough for a conflict, a
conflict against a tombstone and the replay of either, and for a rename that finds
nothing (`FailRename`: one user deletes the note before the conflict, the other during
it). `EditDuringSync` is the set of vaults whose users act while a sync of theirs
runs: one of the two in `sync_two_vaults`, both in `sync_windows` and
`edit_during_sync`. `EditsBetweenSyncsKept` asks of the other vaults that no edit is
lost, with one process per folder; the other properties of the sync hold for all. A
skipped name does not occur in `sync_two_vaults`: of the cursor over skipped names
`CursorCorrect` alone speaks.
`OnlyUsersPublish` says nothing once a sync has failed: one that fails after
writing a download and before saving makes the next one push that download as an
edit, over a tombstone of the meantime too, as the model shows when `MaxFails` is
raised. `DeletesAreUsers` asks less, that some user of the group deleted the path,
and holds whatever fails: a second failure and a third vault can delete again, by a
tombstone nobody asked for that time, what a first failure had brought back.
A conflict whose copy would need a number past `MaxCopies` is not taken further.

*Push.* `MaxAttempts = 2` has a first, a repeated and a last attempt, `MaxSyncs = 2`
a push over what a failed one left, `MaxPeers = 1` an overtaken entry or a
reverted one. `LoggedOnce` counts what `pushAll`'s comment (runner.ts:285) leaves
out: a repeated push is answered with the existing sequence number only while the
head is still the pushed version. If another vault has put the base version back
since, the entry is logged a second time, over that vault's revert; the property
allows one more entry for each such revert and no other.

*Lock.* `MaxCalls` bounds how often a call is made again: with calls that come
for ever, one of them slipping in between every release and wake-up, a waiter
could starve; JavaScript's order of continuations, which is not modelled, makes
that unlikely.

*Adoption and active vault.* `MaxOps`, `MaxEnds` and `MaxEvents` bound user
commands, failures and changes from outside. Two commands of `adoption`, on three
tasks of two processes, with one failure or crash, reach an interrupted join and its
resumption, and a resync or a link beside a sync, with another sync after it; three on
two parches reach a folder left, taken by the other parche and come back to.
`active_vault` has no `CHAMBA_OBSIDIAN_VAULT_PATH`.

*Vocabulary.* Three names make six topics up to depth three, two notes, two tool
calls and two edits: enough for an insertion under a parent whose subtree the user
has cut, an alias that shadows a segment, and a promote repeated after
a stop. One of the names is hyphenated, of the words of the two others. An indentation
that is a warning to the parser (vocabulary.ts:331) is no error here, either.
Descriptions quote no topic (`Quoted`), and the user does not edit
between the files of one call (`EditDuringCall = FALSE`); see Observations.

*Autosync.* One topic, one note, two folders, two events and two texts: the three
kinds of page exist and every pair of runs overlaps at every step. The user writes
an `INDEX.md` only while no run is under way (see Observations).

*Worktrees.* Two git repositories, one of which ignores its `.env`, and a plain
folder; two tickets, two calls (create, then anything), two events beside them;
ports 1 to 4 with `MaxAttempts = 2`, so that a search runs into taken ports, used
ones and its limit; one ticket copies the `.env` files and the other does not; and a
machine with room for two workers.

*Install.* Two assets, an agent and a command; two roles of two fields; two
values; `Keep = 1`, so that every second snapshot prunes; three commands
(install, uninstall, rollback), one rewrite of the configuration and one event.

`CHECK_DEADLOCK FALSE` stands where the bounds run out, after which nothing is
left to do; the vault syncs are checked for deadlock.

### Fairness

Every fairness condition is weak and on the steps of the program, never on users,
failures, peers or other machines. `VaultSync`: each process's next step; a sync
that was started runs on (`syncOnce` has no wait that another process must end),
and a process starts another one (autosync on use, or the user asking).
`VaultMutex`: a woken continuation runs (the event loop), and `fn` settles (every
sync ends). `PushProtocol`: every attempt ends (`NodeHttp` has a connect and a
total timeout, a backoff is a timer) and the client goes on. `AutoSync`: a run that
was begun goes on, by a write or by its end; that the pages are fresh in the end
is promised under the assumption, stated in `FreshInTheEnd` itself, that
`vault_reindex` is completed again and again. `Worktrees`: a tool goes on with its
call, as every git command ends or fails.

## 4. Proofs

Every theorem holds for all values of the constants that satisfy the module's
assumptions (`VaultAssumption`, `PlanAssumption`, `CopyAssumption` and
`CopyValidAssumption`, `ActiveVaultAssumption`, `GateAssumption`,
`InstallerAssumption`, `WorktreesAssumption`, ...): any number of vaults, processes,
paths, calls, repositories, ports, commands and failures. Each follows from an
inductive invariant, with a lemma per action. A hypothesis that a theorem has beside
them is in its statement (ASSUME ... PROVE) and is explained here.

**`VaultSyncProofs`** — `TypeCorrect` (`Spec => []TypeOK`), `CursorCorrect`
(`Spec => []CursorSound`), `VaultsAgree` (`Spec => []AtRestAgree`) and
`OverwritesAreSeen` (`Spec => []NoBlindOverwrite`). `CursorSound` is not inductive. While
a sync applies its plan, `upto` (the cursor it will save) may not point past the
log, or a later change could slip under it: `RunBounded` adds `upto <= Len(log)`
and that the cursor in memory is below it. The argument then has two steps. A
push of others appends to the log after every cursor, so no last change at or
below a cursor is disturbed (`AppendOtherHead`); this vault's own push makes the
pushed hash both the head and its `syncedHash` (`AppendOwnHead`, `AfterPush`). And
`AfterPull` advances every changed path to what the fetched prefix says, which is
the head of every path whose last change is in the prefix (`LastSeqOfPrefix`,
`AfterPullHonest`). Two vaults at rest then agree because both say what the log
says. For `NoBlindOverwrite` the invariant `SInv` says where a base version can come
from: whatever a saved state, a scan, a plan or a retry takes for synced has been
in that folder (`Had`), also after a failure in the middle. The module's first
part holds what all of this needs of the log.

The next one needs `OneOnWindows`: where the platform refuses some of the names, one
process syncs the folder. Two more need `OneProcess`, that no two processes sync the
same vault at all (two of them share no lock: the second pushes what the first has
half done, or writes over its copy). `ShapeInv` then says that a scan is the folder
and that a plan is carried out as it was made, and what each step does is stated once
(`StartEffect` ... `EndEffect`, `AppliedAt`, `CopiedAt`, `RetriedAt`).

- `OnlyUsersDelete` (`OneOnWindows` implies `Spec => []DeletesAreUsers`, with any
  failures, edits during syncs, and processes elsewhere). A vault pushes a tombstone
  of what it takes for synced and does not find. `GoneInv` says that whatever a saved
  state, a scan or the save to come takes for synced is in the folder, or some user
  deleted that path (`Safe`); a tombstone applied is in the log, hence a user's by
  the same invariant. This survives a failure between any two steps, and processes
  that work side by side, as none of them takes a safe file away. Two processes on a
  folder with a refused name are left out because the proof takes from `ShapeInv`
  that a scan never holds such a name.
- `UsersPublish` (`OneProcess` implies `Spec => []OnlyUsersPublish`). A push
  publishes what the scan has and the state has not, so that this must be the
  user's doing (`Mine`). `OursRun` says so of every path at every moment of a sync:
  what is in the folder is what the state takes for synced, or the user's; while a
  plan is carried out, "takes for synced" is what the save at its end will say, as
  far as it has come (`SyncedSoFar`). A failure breaks exactly this.
- `NothingIsLost` (`OneProcess` implies
  `Spec => [](moved = {} => EditsBetweenSyncsKept)`, which is about the vaults outside
  `EditDuringSync`). A step may take away a text only when it
  is held elsewhere (`Held`: folder, trash or log). `ToldLog` gives this for a
  planned write, which replaces what the state takes for synced, and all of that is
  in the log; `AsScanned` for a conflict, whose text is in a copy before it is
  replaced, and for that copy, which is put where nothing was (`CopyIsNew`): names
  of copies are apart, and the folder is still what the plan was made from. In a vault
  whose user edits during its syncs this fails (the first finding below), and a folder
  moved to another platform is written over by `Retry` (runner.ts:936); `SkipsIn` shows that
  only there.

**`PushProtocolProofs`** — `JoinAtMostOnce` (`Spec => []JoinNotRepeated`), `PushedOnce`
(`Spec => []LoggedOnce`) and `AckIsTrue` (`Spec => []AckedIsLogged`). For the join,
`JoinPending` adds that a join which can still be sent has not been executed: an
attempt the server may have executed is the last one, and `InFlight` ties the
request to what the client waits for. For the log, `BaseIsFree` says that an entry
whose base is the head has been logged at most once per revert, `HeadIsLogged` and
`OkIsLogged` that the head and what was answered "ok" are in the log, also when the
answer belongs to a batch that was sent again.

**`AutoSyncProofs`** — `DebtIsMarked` (`Spec => []OwedMarked`). An autosync that
reindexes owes what it has not marked, and consumes a mark it did not set when it
is done. `Marked` says where a mark may be missing, `Serving` that this is exactly
where the autosync runs, and `Recent` that such a run, once it has read the notes,
has read those that the autosync changed. `TextsAreKept` (`Spec => []ManualKept`)
rests on `UserPages` (only an `INDEX.md` is ever the user's), `Safe` (a page a run is
about to write is not) and `Copied` (a page a run is about to remove is in
`INDEX (manual).md`); it uses that the user writes an `INDEX.md` only while no run is
under way. `CompletedIsExact` (`Spec => []CompleteIsExact`) rests on `AloneRest`
(beside a run that is alone no other runs) and `Upright`: such a run has the graph of
the vault as it is, the pages it has done with are right, and every index that should
go is among its orphans.

At its end are the theorems about the lock of these runs (`VaultMutex`, whose
specification is named apart so that it can stand beside another one):
`MutualExclusion` (`MutexSpec => []Exclusion`), `NoMissedRelease`
(`MutexSpec => [](NoOrphanLock /\ NoLostWakeup)`) and `ImplementsKeyedLock`
(`MutexSpec => Lock!Spec`, the safety part of the refinement; its fairness is in the
run). `Exclusion` is not inductive: `Owned` adds that the map names the running
call of a key, from which exclusion follows, and the two others that a sleeper's
key is taken. The refinement uses the same invariant: a call that enters finds
nobody inside because nobody owns the key.

**`VaultTopicsProofs`** — all the properties of its run. What is nested folds in the
model is taken apart once: a fold over a sequence goes through one value per element
(`Runs`; that it exists is shown by a least counterexample), and the rest reasons
about its steps.

- `ToolTagsAreDeclared` (`~EditDuringCall` implies `Spec => ToolTagsDeclared`) and
  `ProposalsAreKept` (likewise `Spec => ProposalsKept`). Neither is inductive, for a
  tool plans its patches when it is called and writes them note by note. `VInv` says of
  the call under way that a promote's patches are for the notes as they still are
  (`Planned`), a classification's for topics that are still declared (`Sorted`), and
  that a promote past the vocabulary has its topic's line in the file (`HasLine`).
  With edits in between these fail (Observations).
- `VocabularyIsKept` (`PlainWords` implies `Spec => VocabularyKept`). What the parser
  has accepted after each line is a set of paths; a line inserted where
  `FindInsertionIndex` says leaves what is on the parser's stack after it as it was, so
  that every later line gets the parent it had. `PlainWords` (descriptions quote no
  topic, the tools are called with well-formed ones) is needed because the code takes
  a quoted path for the topic's own line and validates neither.
- `ViewsAlwaysAgree` (`Spec => []ViewsAgree`, no hypothesis). Navigation walks down from
  a topic child by child, the derived pages look at paths: the walk meets each topic
  of a depth exactly once, by descent on the depth that is left, and whoever is met
  is below by its path.
- `RankingsAreSound` (`Name` finite implies `Spec => []RankingsSound`). A topic's place
  is one more than the number of topics before it, so that places are distinct and
  none is missing, and the topic whose slug is asked for has nothing before it when
  that slug is one word. (With a hyphen in it the topic may come after others, see
  Observations, and the property says nothing of it.) In a
  selection no topic is under another (`Apart`): topics come with falling scores, so a
  new one takes the place of a selected one only from below it and at the same score,
  and then no other selected topic is related to it, since the starts of one path are
  comparable. Entries of a map are disjoint, as each leaves out what is listed before;
  and the last of the attempts at a budget has at most one topic with one note.

**`WorktreesProofs`** — `PortsStayApart` (`Spec => []PortsApart`) and `WorkIsKept`
(`Spec => WorkKept`, a property of steps). The second rests on two facts about the
state before: a path without a directory has no uncommitted changes
(`NothingNowhere`), so that a removal git accepts loses nothing, and while a creation
looks for a remote branch there is no local one it could move (`NoBranchYet`).
`ParallelismIsSound` (`Spec => []ParallelismSound`) is about what `PartitionByOverlap`
computes, a fold over the worktrees: `WavesOf` is what holds of the waves after the
first k of them, and each `Placed` keeps it. That a fold is well defined at all
(`FoldExists`, `FoldType`) is shown by a least counterexample, as no induction
theorem can be applied. `Counted` and `Capped` follow the advice through a creation: it is at most what was
asked for, one where the worktrees of a call overlap, and otherwise at most what the
machine has room for (`BudgetBound`).

**`AdoptionGateProofs`** — `UploadsAreAgreed` (`Spec => []UnconfirmedOnlyInRaces`), with no
hypothesis: for any tasks, operations, syncs, failures and crashes, and whatever
binding there was. The property speaks of a sync at its push and has to be traced
back to the state the sync had read. `Accounted` says of a folder why it may go up:
its user agreed, its reset is due, or its reset was undone. `FlagsHold` says that of
every folder with files and without the flag, `TaskOk` of those whose state a task has
in hand and will write back, unless they were reset since, in which case it is that
write which undoes the reset; `CredKnown` says that only the gap after the credential
leaves a folder that is named without a state.

**`ActiveVaultProofs`** — `FoldersApart` (`Spec => []OneParchePerFolder`). Commands check
a folder and write the credential later; `Checked` says that what they checked still
holds when they write. `BoundIsFollowed` (`Spec => []CommandIsFollowed`) and
`WorkspaceIsKept` (`Spec => []WorkspaceKeepsItsParche`) rest on `OnItsWay` (a command
past its credential has it written, and one about to bind has synced a folder that is
not flagged) and `Followed` (until the next command or a change from outside, only
autosyncs run, which never flag a folder).

**`InstallerProofs`** — all the properties of its run: `PinnedStay` (`Spec => PinnedKept`),
`ServersStay` (`Spec => ServersKept`), `PolicyStaysPut` (`Spec => PolicyKept`),
`AppliedIsWanted` (`Spec => AppliedConfig`), `UserWorkStays` (`Spec => UserWorkKept`) and
`UndoIsRestored` (`Spec => UndoRestores`). `ServersStay` rests on `JsonRead`: while the file the installer
has read is not touched by others, what it is about to write is still based on what
is there, through crashes, rollbacks and the other commands; `DiskOk`, `SnapsOk` and
`OpOk` give the shapes that this needs, also of what a rollback restores.
`PolicyStaysPut` is about a preset, `config set` and the worktree questions, and about
what the tools resolve in a project afterwards: settings of roles and worktree
policy. (A reset and the wizard replace the file and lose the user's overrides and
worktree policy with it.) It needs of the configuration only that a file which cannot
be used says nothing (`ConfOk`). `AppliedSoFar` says of every agent that an apply has still to come
to it, or somebody edited it, or it is as the layers ask. For the snapshots, `StoreOk`
orders them by their times, so that there is a newest one, which dedup and pruning
spare (`SnapshotSaves`, `TopIsKept`); `SavedSoFar` says that a command which destroys
goes on only with everything it has still to come to in a snapshot, and `UndoOnTop`
that this is the newest, until the next such command; `RestoredSoFar` then follows a
rollback file by file. The last two use that the assets of an editor have distinct
names (`InstallerAssumption`).

### Only model-checked

Out of the prover's reach is liveness (`EventuallyConverged`, `PushEnds`, `WaitersRun`,
`FreshInTheEnd`, `CallEnds`, the fairness in `ImplementsLock`), which needs ENABLED and
fairness. One safety property is left to TLC
because it holds only within the bounds of its run (TLC refutes it on a larger
instance): `NoDuplicateCopies`. When two users write the same text and a third vault
overtakes both, its copies under the two authors' names have the same bytes.

## 5. Findings

`edit_during_sync` — a planned `write` replaces the file without reading it again
(runner.ts:605), so an edit saved after the scan is gone from the folder and from
the group, while README.md:116 says "Conflicts become copies, never overwrites".
The trace: two vaults, one note; one pushes a version, the other begins a sync and
its user saves the note between the scan and the download.

`adoption_races` — a folder with files is uploaded before its user agreed.
`joinOnce` saves the credential (runner.ts:1113) and writes the state with
`pendingAdoption` two awaits later (runner.ts:1125), without the vault lock, and
`relinkPrepare` does the same (binding-ops.ts:431, 434). Where a `parche.json` names the
folder already, an autosync in between, or after a crash there, finds no pending
state and uploads what is in it. A sync under way that saves its state over a reset
(binding-ops.ts:503) is a second way. README.md:115 says of `vault_join` that it
"uploads nothing until `confirmUpload: true`". What holds beside the two races is
`UnconfirmedOnlyInRaces`.

## 6. Observations

What the code does where no property of a passing run says otherwise, because the
run leaves the case out, or because nothing in the repository promises more.

**Vault sync.** Two processes on one folder choose the same conflict copy name from
their scans, and `writeConflictCopy` does not look before it writes
(runner.ts:529), so that an edit made between syncs can be lost; the lock is per
process. The retry of a skipped path
(runner.ts:936) overwrites whatever is at that path on the new platform. A blob is
read again when it is uploaded (runner.ts:363), and its bytes may no longer be
those of the hash. A download carried out before a failure is pushed as an edit, or
a deletion, by the next sync. A network error of an early attempt is reported although the last one
was answered with a 5xx (retrying-http.ts:361).

**Adoption, binding, active vault.** `resyncPrepare` and `relinkPrepare` reset
`state.json` outside the vault lock (binding-ops.ts:503), so a sync in flight saves
what it had read over the reset, and a cursor and hashes that were to be forgotten
come back with it. A link whose first sync fails
leaves `parche.json` on the old folder, and its repetition says there is nothing to
do (binding-ops.ts:408-412), so autosync stays off. `vault sync` without a name in a
workspace whose `parche.json` is invalid syncs every parche (binding-ops.ts:787),
while packages/mcp/README.md:552 says the tools stop. `chamba_vault_join` overwrites
a workspace's binding. That a folder is linked already is checked for identical
paths, before and not while writing; a join without a folder does not check. A crash
between `creds.set` and `resetVaultState` leaves another parche's `state.json` in
use. `credentials.json` is read, changed and written without a lock, and a file that
cannot be read counts as empty (credentials.ts:109).

**Autosync and reindexer.** `vault_navigate` marks a reindex as pending while an
autosync's run, which had read before, is completing, and that run clears the mark
(autosync.ts:127, vault-navigate.ts:390). The unlocked runs (vault-writer.ts:216,
vault-sync.ts:162, vault-topics.ts:453, vault-classify.ts:203) may write older pages
over newer ones. A sync that fails after its downloads forgets that they need a
reindex, and `vault_sync` does not mark a reindex that failed. A hub of a topic that
is gone is never deleted (reindexer.ts:335 passes over `temas`, against the comment
at reindexer.ts:23-28). An `INDEX.md` written by the user between the check and the
write is overwritten; hubs are written without a check. The deadline is computed
before the scan, and the marks are in memory only.

**Topics.** A line whose description quotes a topic's path is taken for that topic's
line (`findNodeLine`); hence `Quoted`. `closestTopics` splits what is asked for at
hyphens and drops its short and numeric parts (topics.ts:259-263), but compares the
parts with whole segments (303-309): a topic with a hyphenated slug gets no points for
being asked for by it, and others may come first. A line whose indentation does not
match its depth is a warning only (vocabulary.ts:331), while `vocabularyAdd` inserts by
two spaces a level. Without a vocabulary no undeclared tag is suggested
(knowledge-graph.ts:278). `vocabularyAdd` does not validate segments
or depth. A promote writes the tags and proposals it planned with, over what the
user changed meanwhile; hence `EditDuringCall`. A tag in another case leaves its
proposal in place.
A promote whose line the parser then refuses (its parent stands beside an orphan line,
before which the new one is inserted) still tags the notes, with a topic that is not
declared, against "chamba never invents topics" (README.md:120); hence the exception
for a file with errors in `ToolTagsDeclared`.
The note writer overwrites an existing note of the same day and slug. Classifying
page by page by offset passes over notes while the list shrinks (classify.ts:137-139).

**Worktrees.** One repository without a linked worktree lifts the overlap cap for all of
them (create-worktrees.ts:148, `linked.length === 0`). Ports differ within one
call only (port-assign.ts:52; worktree-env.ts:18 says "unique localhost PORT per
worktree"). No answer of `ls-remote` counts as no branch (multi-repo-manager.ts:161-168).
After a crash between `worktree add` and the copy of `.env`, the repetition finds the
worktree and copies nothing. `chamba_worktree_env` makes plain directories that later
block a creation (port-assign.ts:84). Cleanup stops at the first worktree git refuses,
which an untracked `.env` is enough for. The port is written over an edit of
`.env.local` made since it was read.

**Installers and configuration.** JSON that does not parse counts as `{}` and is
rewritten with chamba's entry alone (opencode-extras/src/installer.ts:168-177;
claude-extras likewise), while its comment at 47-48 says other servers are
preserved; hence "strict" in `ServersKept`. `writeFile` is not atomic
(node-filesystem.ts:61), and an asset cut short is passed over by later installs.
An `install --force` repeated after an interruption snapshots the half-written
state; an interrupted pin destroys the snapshot, hence the exception in `PinnedKept`.
A read error counts as a file that is not there (claude-extras installer.ts:227-234:
the snapshot goes without it, and an uninstall still removes it) or as an empty JSON
(248-258); neither is modelled. `ports: null` in a configuration drops the whole
block (worktrees.ts:117-125), which no command of chamba writes. `apply` and the wizard overwrite edited agents without a snapshot, a rollback takes
none and removes nothing, and OpenCode and Cursor have none. Snapshots are told
apart by a 32-bit hash, and ordered by a clock that may go back.

## 7. Not modelled

The server's roles, slugs and decoding; paths that differ only in case, and a
download answered 404, in the sync; the walk of `.gitignore`, symlinks. Plan
validation: what it gets right or wrong is in the wording of one Markdown text.
Workspace scanner and context, the memory store, doctor, QA, triage, models, design
and skills: read-only scans, tables and text classification without state or
concurrency, which tests over their tables cover. The status tools, argument
parsing, prompts and formatting of CLI and tools. Node adapters: thin wrapping of
`fs`, `child_process` and sockets; of them only the truncation of `writeFile` and the
timeouts matter, and those are in `Installer` and in the fairness of `PushProtocol`.
Frontmatter as YAML text, work items, keyword extraction and truncation of answers in
the knowledge network; `merge-tree` in the worktree inspection. Each module's header
and the sections above name what it leaves out.
