----------------------------- MODULE Worktrees -----------------------------
(***************************************************************************)
(* The git worktrees of the repositories of one workspace and the tools    *)
(* that make, inspect and remove them: MultiRepoWorktreeManager,           *)
(* WorktreeManager, WorktreeInspector and assignWorktreePorts              *)
(* (core/src/worktree) under chamba_create_worktrees, _worktree_env,       *)
(* _cleanup_worktrees, _create_worktree and _cleanup_worktree (mcp/src/    *)
(* tools).  One call runs at a time, a step per command; between its steps *)
(* workers edit and commit, colleagues push, servers start and stop, the   *)
(* network goes, a command fails and the process dies.  What git itself    *)
(* refuses or keeps is external.                                           *)
(***************************************************************************)
EXTENDS Waves

CONSTANTS
  Repos,         \* directories of the workspace
  RepoLists,     \* what a call may act on: the repositories it names, in order,
                 \* those of the configuration, or those detected; a call
                 \* that finds none does nothing
  GitRepos,      \* those that are a main checkout
  Tickets,       \* tickets, the worktree and branch of each
  Copies,        \* whether copyEnvFiles, off by default, is set while a ticket is
                 \* worked on
  Cwd, Tasks,    \* where chamba_create_worktree runs, for which tasks
  Files,
  Ignoring,      \* repositories whose .gitignore names the .env files
  MainPort,      \* PORT in the .env.local of the main checkout, or 0
  BasePort, StepPort, MaxPort,
  MaxAttempts,   \* port-assign.ts MAX_ATTEMPTS
  Machine,       \* the resources of the machine
  MaxCalls, MaxEvents   \* calls, and events around them (bounds)

\* Ports are on and no "command" of the user's stands in for the creation.

Paths == (Repos \X Tickets) \cup (Cwd \X Tasks)
Ports == 1..MaxPort

ASSUME WorktreesAssumption ==
  /\ IsFiniteSet(Repos) /\ RepoLists \subseteq Seq(Repos) \ {<<>>}
  /\ Machine \in [free : Int, worker : Nat \ {0}, cpus : Nat, load : Nat]
  /\ GitRepos \subseteq Repos /\ Cwd \subseteq GitRepos /\ Ignoring \subseteq Repos
  /\ Tickets \cap Tasks = {} /\ Copies \in [Tickets -> BOOLEAN]
  /\ MainPort \in [Repos -> 0..MaxPort]
  /\ BasePort \in Ports /\ StepPort \in Nat \ {0} /\ MaxPort \in Nat
  /\ MaxAttempts \in Nat /\ MaxCalls \in Nat /\ MaxEvents \in Nat

VARIABLES
  dir,         \* what is at the path: "none", "linked" (a worktree), "plain"
  registered,  \* git knows a worktree at the path
  branch,      \* the branch of the path: "none", "forked" or "theirs"
  remote,      \* origin has the branch
  committed,   \* files the commits of the branch change
  dirty,       \* files with uncommitted changes in the worktree
  env,         \* .env has been copied
  port,        \* PORT in .env.local, or 0
  inUse,       \* ports something listens on
  online,
  call,        \* the running tool call
  calls, left  \* what is left of MaxCalls and MaxEvents

git == <<dir, registered, branch, remote, committed, dirty>>
vars == <<git, env, port, inUse, online, call, calls, left>>

NoCall == [kind |-> "none", repos |-> <<>>, ticket |-> "none", at |-> "idle", i |-> 0, status |-> <<>>,
           todo |-> <<>>, got |-> <<>>, cand |-> 0, tries |-> 0,
           advice |-> 0, overlaps |-> 0, bare |-> {}]

TypeOK ==
  /\ dir \in [Paths -> {"none", "linked", "plain"}]
  /\ registered \in [Paths -> BOOLEAN] /\ remote \in [Paths -> BOOLEAN]
  /\ branch \in [Paths -> {"none", "forked", "theirs"}]
  /\ committed \in [Paths -> SUBSET Files] /\ dirty \in [Paths -> SUBSET Files]
  /\ env \in [Paths -> BOOLEAN] /\ port \in [Paths -> 0..MaxPort]
  /\ inUse \subseteq Ports /\ online \in BOOLEAN
  /\ call.kind \in {"none", "create", "env", "cleanup"}
  /\ calls \in 0..MaxCalls /\ left \in 0..MaxEvents
  /\ \A p \in Paths : /\ dir[p] = "linked" => registered[p] /\ branch[p] # "none"
                      /\ dir[p] = "none" => dirty[p] = {} /\ ~env[p] /\ port[p] = 0

Init ==
  /\ dir = [p \in Paths |-> "none"] /\ registered = [p \in Paths |-> FALSE]
  /\ branch = [p \in Paths |-> "none"] /\ remote = [p \in Paths |-> FALSE]
  /\ committed = [p \in Paths |-> {}] /\ dirty = [p \in Paths |-> {}]
  /\ env = [p \in Paths |-> FALSE] /\ port = [p \in Paths |-> 0]
  /\ inUse = {} /\ online = TRUE
  /\ call = NoCall /\ calls = MaxCalls /\ left = MaxEvents

Idle == call.kind = "none"
Spend == left > 0 /\ left' = left - 1
At(kind, at) == call.kind = kind /\ call.at = at
Item == <<call.repos[call.i], call.ticket>>
Goto(at) == call' = [call EXCEPT !.at = at]
Fails == call' = NoCall   \* a WorktreeError, or the death of the process

-----------------------------------------------------------------------------
(* What git does.                                                          *)

\* The .env files count as changes of the worktree where they are not ignored.
Untracked(p) == IF p[1] \in Ignoring THEN {}
                ELSE {f \in {".env", ".env.local"} :
                        IF f = ".env" THEN env[p] ELSE port[p] # 0}
Changes(p) == dirty[p] \cup Untracked(p)

\* "git worktree add" wants a free path, and none registered there.
CanAdd(p) == dir[p] = "none" /\ ~registered[p]
Add(p) == dir' = [dir EXCEPT ![p] = "linked"] /\ registered' = [registered EXCEPT ![p] = TRUE]

\* Mutant of CanRemove: git worktree remove --force.
CanForce(p) == registered[p]
\* "git worktree remove", without --force: nothing that would be lost.
CanRemove(p) == registered[p] /\ (dir[p] = "none" \/ (dir[p] = "linked" /\ Changes(p) = {}))

RemoveTree(p) ==
  /\ dir' = [dir EXCEPT ![p] = "none"] /\ registered' = [registered EXCEPT ![p] = FALSE]
  /\ dirty' = [dirty EXCEPT ![p] = {}]
  /\ env' = [env EXCEPT ![p] = FALSE] /\ port' = [port EXCEPT ![p] = 0]
  /\ UNCHANGED <<branch, remote, committed>>

Linked(r) == {p \in Paths : p[1] = r /\ registered[p]}

-----------------------------------------------------------------------------
(* What happens around the calls.                                          *)

Edit(p, f) ==
  /\ Spend /\ dir[p] = "linked" /\ f \notin dirty[p]
  /\ dirty' = [dirty EXCEPT ![p] = @ \cup {f}]
  /\ UNCHANGED <<dir, registered, branch, remote, committed, env, port, inUse, online, call, calls>>

Commit(p) ==
  /\ Spend /\ dir[p] = "linked" /\ dirty[p] # {}
  /\ committed' = [committed EXCEPT ![p] = @ \cup dirty[p]] /\ dirty' = [dirty EXCEPT ![p] = {}]
  /\ UNCHANGED <<dir, registered, branch, remote, env, port, inUse, online, call, calls>>

\* A colleague, or another machine of the user, pushes the branch.
Push(p) ==
  /\ Spend /\ ~remote[p]
  /\ remote' = [remote EXCEPT ![p] = TRUE]
  /\ UNCHANGED <<dir, registered, branch, committed, dirty, env, port, inUse, online, call, calls>>

\* The user deletes the directory by hand; git goes on listing it.
DeleteDir(p) ==
  /\ Spend /\ dir[p] # "none"
  /\ dir' = [dir EXCEPT ![p] = "none"] /\ dirty' = [dirty EXCEPT ![p] = {}]
  /\ env' = [env EXCEPT ![p] = FALSE] /\ port' = [port EXCEPT ![p] = 0]
  /\ UNCHANGED <<registered, branch, remote, committed, inUse, online, call, calls>>

\* A server starts, of the worktree or of anything else.
Listen(n) ==
  /\ Spend /\ n \notin inUse /\ inUse' = inUse \cup {n}
  /\ UNCHANGED <<git, env, port, online, call, calls>>

Stop(n) ==
  /\ Spend /\ n \in inUse /\ inUse' = inUse \ {n}
  /\ UNCHANGED <<git, env, port, online, call, calls>>

Network ==
  /\ Spend /\ online' = ~online
  /\ UNCHANGED <<git, env, port, inUse, call, calls>>

\* A git command or a write fails, or the process dies.
Crash ==
  /\ Spend /\ ~Idle /\ Fails
  /\ UNCHANGED <<git, env, port, inUse, online, calls>>

-----------------------------------------------------------------------------
(* chamba_create_worktrees.                                                *)

Start(kind, t, list) ==
  /\ Idle /\ calls > 0 /\ calls' = calls - 1
  /\ call' = [NoCall EXCEPT !.kind = kind, !.ticket = t, !.repos = list, !.i = 1,
               !.at = IF kind = "env" THEN "ports" ELSE "item",
               !.todo = IF kind = "env" THEN [i \in DOMAIN list |-> <<list[i], t>>]
                        ELSE <<>>]
  /\ UNCHANGED <<git, env, port, inUse, online, left>>

\* The item has come to the status s; on with the next one.
NextItem(s) ==
  call' = [call EXCEPT !.status = Append(@, s), !.i = @ + 1,
                       !.at = IF call.i = Len(call.repos) THEN "advise" ELSE "item"]

CreateOne ==
  /\ At("create", "item")
  /\ IF Item[1] \notin GitRepos THEN NextItem("skipped-not-git")
     ELSE IF dir[Item] # "none" THEN NextItem("skipped-exists")
     ELSE Goto(IF branch[Item] # "none" THEN "reused-local" ELSE "ls-remote")
  /\ UNCHANGED <<git, env, port, inUse, online, calls, left>>

\* No answer counts as no branch.
BranchExistsRemote ==
  /\ At("create", "ls-remote")
  /\ Goto(IF online /\ remote[Item] THEN "fetch" ELSE "created")
  /\ UNCHANGED <<git, env, port, inUse, online, calls, left>>

\* The branch comes with the commits of whoever pushed it.
FetchBranch ==
  /\ At("create", "fetch")
  /\ IF online
     THEN /\ branch' = [branch EXCEPT ![Item] = "theirs"] /\ Goto("reused-remote")
          /\ \E S \in SUBSET Files : committed' = [committed EXCEPT ![Item] = @ \cup S]
     ELSE Fails /\ UNCHANGED <<branch, committed>>
  /\ UNCHANGED <<dir, registered, remote, dirty, env, port, inUse, online, calls, left>>

\* The base branch is fetched first, and forked as it is where that fails.
AddWorktree ==
  /\ call.kind = "create" /\ call.at \in {"reused-local", "reused-remote", "created"}
  /\ IF CanAdd(Item)
     THEN /\ Add(Item) /\ call' = [call EXCEPT !.at = "env", !.status = Append(@, call.at)]
          /\ branch' = [branch EXCEPT ![Item] = IF call.at = "created" THEN "forked" ELSE @]
     ELSE Fails /\ UNCHANGED <<dir, registered, branch>>
  /\ UNCHANGED <<remote, committed, dirty, env, port, inUse, online, calls, left>>

\* Where they are copied: every .env* file of the main checkout, its
\* .env.local and PORT included; the directories on the way are made.
CopyEnvFiles ==
  /\ At("create", "env")
  /\ call' = [call EXCEPT !.i = @ + 1,
                          !.at = IF call.i = Len(call.repos) THEN "advise" ELSE "item"]
  /\ IF Copies[call.ticket]
     THEN /\ env' = [env EXCEPT ![Item] = TRUE]
          /\ port' = [port EXCEPT ![Item] = IF MainPort[Item[1]] = 0 THEN @ ELSE MainPort[Item[1]]]
          /\ dir' = [dir EXCEPT ![Item] = IF @ = "none" THEN "plain" ELSE @]
     ELSE UNCHANGED <<env, port, dir>>
  /\ UNCHANGED <<registered, branch, remote, committed, dirty, inUse, online, calls, left>>

-----------------------------------------------------------------------------
(* The inspection and the advice.                                          *)

\* WorktreeInspector.inspect: a worktree that is gone shows no changes.  The main
\* checkout, which it shows too, is taken to have none.
Snapshot(p) ==
  [id |-> p, paths |-> IF dir[p] = "linked" THEN committed[p] \cup Changes(p) ELSE {}]
Inspect(r) == FoldSet(LAMBDA p, s : Append(s, Snapshot(p)), <<>>, Linked(r))

Called == {call.repos[i] : i \in DOMAIN call.repos}
OverlapCount == FoldSet(LAMBDA r, n : n + Cardinality(FindOverlaps(Inspect(r))), 0, Called)

\* The wave size of one repository: one where anything overlaps, but the number
\* of items where the repository lists no linked worktree.
WaveSize(r, requested, overlaps) ==
  IF Linked(r) = {} THEN requested
  ELSE IF overlaps > 0 THEN 1 ELSE AtLeastOne(Cardinality(Linked(r)))

RecommendedParallelism(requested) ==
  ApplyOverlapCap(ComputeConcurrencyBudget(Machine, requested, 0),
                  Max({1} \cup {WaveSize(r, requested, OverlapCount) : r \in Called}),
                  OverlapCount)

Advise ==
  /\ At("create", "advise")
  /\ call' = [call EXCEPT !.at = "ports", !.i = 1, !.overlaps = OverlapCount,
                !.advice = RecommendedParallelism(Len(call.status)),
                !.bare = {r \in Called : Linked(r) = {}},
                !.todo = LET kept == SelectSeq([i \in DOMAIN call.repos |-> i],
                                               LAMBDA i : call.status[i] # "skipped-not-git")
                         IN  [k \in DOMAIN kept |-> <<call.repos[kept[k]], call.ticket>>]]
  /\ UNCHANGED <<git, env, port, inUse, online, calls, left>>

-----------------------------------------------------------------------------
(* assignWorktreePorts, also as chamba_worktree_env.                       *)

Path == call.todo[call.i]
Taken(n) == n \in {call.got[k] : k \in DOMAIN call.got}

\* The item the call is at has got port n.
Got(n) == [k \in DOMAIN call.got \cup {call.i} |-> IF k = call.i THEN n ELSE call.got[k]]

\* Writes PORT into .env.local, and makes the directory if there is none.
Assign(n) ==
  /\ port' = [port EXCEPT ![Path] = n]
  /\ dir' = [dir EXCEPT ![Path] = IF @ = "none" THEN "plain" ELSE @]
  /\ call' = [call EXCEPT !.at = "ports", !.i = @ + 1, !.got = Got(n)]

ReadPort ==
  /\ call.at = "ports" /\ call.i <= Len(call.todo)
  /\ IF port[Path] # 0 /\ ~Taken(port[Path]) /\ port[Path] \notin inUse
     THEN Assign(port[Path])
     ELSE /\ call' = [call EXCEPT !.at = "probe", !.tries = 0,
                                  !.cand = BasePort + (call.i - 1) * StepPort]
          /\ UNCHANGED <<dir, port>>
  /\ UNCHANGED <<registered, branch, remote, committed, dirty, env, inUse, online, calls, left>>

\* The next port to try, after one in use and after one taken in this call.
AfterUsed(c) == [c EXCEPT !.cand = @ + StepPort, !.tries = @ + 1]
\* Mutant of AfterTaken: the search starts again where it was.
AfterTakenSame(c) == [c EXCEPT !.tries = 0]
AfterTaken(c) == [c EXCEPT !.cand = @ + StepPort, !.tries = 0]

\* Mutant of Refused: a port given out in this call is not refused.
RefusedUsed(n) == n \in inUse
Refused(n) == n \in inUse \/ Taken(n)

AllocatePort ==
  /\ call.at = "probe"
  /\ IF call.tries >= MaxAttempts \/ call.cand > MaxPort
     THEN call' = [call EXCEPT !.at = "ports", !.i = @ + 1] /\ UNCHANGED <<dir, port>>
     ELSE IF ~Refused(call.cand) THEN Assign(call.cand)
     ELSE /\ call' = IF call.cand \in inUse THEN AfterUsed(call) ELSE AfterTaken(call)
          /\ UNCHANGED <<dir, port>>
  /\ UNCHANGED <<registered, branch, remote, committed, dirty, env, inUse, online, calls, left>>

EndPorts ==
  /\ call.at = "ports" /\ call.i > Len(call.todo)
  /\ call' = NoCall
  /\ UNCHANGED <<git, env, port, inUse, online, calls, left>>

-----------------------------------------------------------------------------
(* chamba_cleanup_worktrees, and the tools for a single worktree.          *)

Cleanup ==
  /\ At("cleanup", "item")
  /\ call' = IF call.i = Len(call.repos) THEN NoCall ELSE [call EXCEPT !.i = @ + 1]
  /\ IF dir[Item] = "none" THEN UNCHANGED <<git, env, port>>
     ELSE CanRemove(Item) /\ RemoveTree(Item)
  /\ UNCHANGED <<inUse, online, calls, left>>

CleanupFails ==
  /\ At("cleanup", "item") /\ dir[Item] # "none" /\ ~CanRemove(Item)
  /\ Fails
  /\ UNCHANGED <<git, env, port, inUse, online, calls, left>>

\* chamba_create_worktree: "git worktree add -b" or an error.
CreateWorktree(p) ==
  /\ Idle /\ calls > 0 /\ calls' = calls - 1
  /\ branch[p] = "none" /\ CanAdd(p) /\ Add(p)
  /\ branch' = [branch EXCEPT ![p] = "forked"]
  /\ UNCHANGED <<remote, committed, dirty, env, port, inUse, online, call, left>>

\* chamba_cleanup_worktree: the worktree that lists the branch.
CleanupWorktree(p) ==
  /\ Idle /\ calls > 0 /\ calls' = calls - 1
  /\ registered[p] /\ CanRemove(p) /\ RemoveTree(p)
  /\ UNCHANGED <<inUse, online, call, left>>

-----------------------------------------------------------------------------
Tool ==
  \/ CreateOne \/ BranchExistsRemote \/ FetchBranch \/ AddWorktree \/ CopyEnvFiles \/ Advise
  \/ ReadPort \/ AllocatePort \/ EndPorts \/ Cleanup \/ CleanupFails

Calls ==
  \/ \E t \in Tickets, list \in RepoLists :
        Start("create", t, list) \/ Start("env", t, list) \/ Start("cleanup", t, list)
  \/ \E p \in Cwd \X Tasks : CreateWorktree(p)
  \/ \E p \in Paths : p[1] \in Cwd /\ CleanupWorktree(p)

Around ==
  \/ \E p \in Paths : Commit(p) \/ Push(p) \/ DeleteDir(p) \/ \E f \in Files : Edit(p, f)
  \/ \E n \in Ports : Listen(n) \/ Stop(n)
  \/ Network \/ Crash

Next == Tool \/ Calls \/ Around
Spec == Init /\ [][Next]_vars
FairSpec == Spec /\ WF_vars(Tool)

-----------------------------------------------------------------------------
(* Properties.                                                             *)

\* The tools keep the work: no step of theirs discards an uncommitted change or
\* a commit, moves or deletes a branch, or takes away a directory git does not
\* know (manager.ts:29-36, "cleanup NEVER deletes branches and NEVER uses --force").
WorkKept ==
  [][Tool \/ Calls =>
       \A p \in Paths : /\ dirty[p] \subseteq dirty'[p] /\ committed[p] \subseteq committed'[p]
                        /\ branch[p] # "none" => branch'[p] = branch[p]
                        /\ dir[p] = "plain" => dir'[p] # "none"]_vars

\* The worktrees that one call gives a port have different ones, whichever of
\* them had one before, was given the main checkout's, or lost its to a server.
PortsApart ==
  \A j, k \in DOMAIN call.got : j # k => call.got[j] # call.got[k]

\* Every call ends: no search for a port, and no list of items, goes on for ever.
CallEnds == ~Idle ~> Idle

Observed == FoldSet(LAMBDA r, s : s \o Inspect(r), <<>>, Repos)

\* The waves of the observed worktrees, over all repositories: every worktree is
\* in exactly one wave, no two in a wave change the same file, an item is in a
\* later wave only because each earlier one holds something in its way, and
\* there is one wave alone exactly when the report of overlaps is empty.
Waved(items) ==
  LET waves == PartitionByOverlap(items)
  IN  /\ \A i \in DOMAIN items : \E k \in DOMAIN waves :
           /\ i \in waves[k] /\ \A l \in DOMAIN waves : i \in waves[l] => l = k
           /\ \A l \in 1..(k - 1) : \E j \in waves[l] :
                j < i /\ items[i].paths \cap items[j].paths # {}
      /\ \A k \in DOMAIN waves : \A i, j \in waves[k] :
           i # j => items[i].paths \cap items[j].paths = {}
      /\ Len(waves) <= 1 <=> FindOverlaps(items) = {}

\* The machine has the memory for n workers, and a core for each beside one for
\* itself and those that are busy.
Fits(n) ==
  /\ n <= Machine.free \div Machine.worker /\ n < Machine.cpus
  /\ Machine.load > 0 => n <= Machine.cpus - Machine.load

\* Where changes overlap, a call that found worktrees in every repository
\* advises one worker at a time; never more than were asked for; and never
\* several that the machine has no room for.
Capped ==
  call.advice # 0 => /\ call.advice <= Len(call.repos)
                     /\ call.advice = 1 \/ Fits(call.advice)
                     /\ call.overlaps > 0 /\ call.bare = {} => call.advice = 1

\* What the tools say of working side by side is right for the worktrees as they
\* are: the waves of the inspection, and the advice of a call.
ParallelismSound == Waved(Observed) /\ Capped
=============================================================================
