--------------------------- MODULE WorktreesProofs ---------------------------
(***************************************************************************)
(* Three promises of the worktree tools for any repositories, tickets,     *)
(* ports and calls: the worktrees one call gives a port have different     *)
(* ones, no step of a tool discards work, and what is said of working side *)
(* by side is right.                                                       *)
(*                                                                         *)
(* PortsApart is inductive once a call is known to be a record.  WorkKept  *)
(* is a property of steps, and rests on two facts about the state before:  *)
(* a path without a directory has no uncommitted changes, so that "git     *)
(* worktree remove" loses nothing where it succeeds; and while a creation  *)
(* looks for a remote branch there is no local one it could move.          *)
(*                                                                         *)
(* ParallelismSound is about what PartitionByOverlap computes, so the      *)
(* induction is over the items: WavesOf is what is true of the waves after *)
(* each of them.  The folds of the model are shown to be well defined      *)
(* (FoldExists, FoldType) before anything is said of their values.         *)
(***************************************************************************)
EXTENDS Worktrees, FiniteSetTheorems, WellFoundedInduction, TLAPS

\* The running call has the fields of NoCall, whatever is in them.
IsCall ==
  call = [kind |-> call.kind, repos |-> call.repos, ticket |-> call.ticket, at |-> call.at,
          i |-> call.i, status |-> call.status, todo |-> call.todo, got |-> call.got,
          cand |-> call.cand, tries |-> call.tries, advice |-> call.advice,
          overlaps |-> call.overlaps, bare |-> call.bare]

-----------------------------------------------------------------------------
(* Ports.                                                                  *)

PInv == IsCall /\ PortsApart

\* A port that is not taken goes to the item the call is at.
LEMMA AssignStep ==
  ASSUME PInv, NEW n, Assign(n), ~Taken(n)
  PROVE  PInv'
<1>1. call' = [call EXCEPT !.at = "ports", !.i = @ + 1, !.got = Got(n)]
  BY DEF Assign
<1>2. IsCall' /\ call'.got = Got(n)
  BY <1>1 DEF PInv, IsCall
<1>3. PortsApart'
  BY <1>2 DEF PInv, PortsApart, Got, Taken
<1> QED BY <1>2, <1>3 DEF PInv

\* Any other step of a call leaves the ports it has given, or begins anew.
LEMMA GotStep ==
  ASSUME PInv, IsCall', call'.got = call.got
  PROVE  PInv'
BY DEF PInv, PortsApart

LEMMA NewCallStep ==
  ASSUME IsCall', call'.got = <<>>
  PROVE  PInv'
BY DEF PInv, PortsApart

LEMMA InitPInv == Init => PInv
BY DEF Init, NoCall, PInv, IsCall, PortsApart

LEMMA PInvStep == PInv /\ [Next]_vars => PInv'
<1> SUFFICES ASSUME PInv, [Next]_vars PROVE PInv'
  OBVIOUS
<1>0. CASE call' = NoCall
  <2>1. IsCall' /\ call'.got = <<>>
    BY <1>0 DEF NoCall, IsCall
  <2> QED BY <2>1, NewCallStep
<1>1. CASE UNCHANGED call
  BY <1>1 DEF PInv, IsCall, PortsApart
<1>2. ASSUME NEW kind, NEW t, NEW list, Start(kind, t, list) PROVE PInv'
  <2>1. IsCall' /\ call'.got = <<>>
    BY <1>2 DEF Start, NoCall, IsCall
  <2> QED BY <2>1, NewCallStep
<1>3. CASE CreateOne \/ BranchExistsRemote \/ FetchBranch \/ AddWorktree \/ CopyEnvFiles \/ Advise \/ Cleanup
  <2>1. call' = NoCall \/ (IsCall' /\ call'.got = call.got)
    BY <1>3 DEF CreateOne, BranchExistsRemote, FetchBranch, AddWorktree, CopyEnvFiles, Advise,
                Cleanup, Fails, Goto, NextItem, PInv, IsCall
  <2> QED BY <2>1, <1>0, GotStep
<1>4. CASE ReadPort
  <2>1. CASE Assign(port[Path]) /\ ~Taken(port[Path])
    BY <2>1, AssignStep
  <2>2. CASE call' = [call EXCEPT !.at = "probe", !.tries = 0,
                                  !.cand = BasePort + (call.i - 1) * StepPort]
    <3>1. IsCall' /\ call'.got = call.got
      BY <2>2 DEF PInv, IsCall
    <3> QED BY <3>1, GotStep
  <2> QED BY <1>4, <2>1, <2>2 DEF ReadPort
<1>5. CASE AllocatePort
  <2>1. CASE Assign(call.cand) /\ ~Refused(call.cand)
    BY <2>1, AssignStep DEF Refused
  <2>2. CASE \/ call' = [call EXCEPT !.at = "ports", !.i = @ + 1]
             \/ call' = AfterUsed(call) \/ call' = AfterTaken(call)
    <3>1. IsCall' /\ call'.got = call.got
      BY <2>2 DEF PInv, IsCall, AfterUsed, AfterTaken
    <3> QED BY <3>1, GotStep
  <2> QED BY <1>5, <2>1, <2>2 DEF AllocatePort
<1>6. CASE EndPorts \/ CleanupFails
  BY <1>0, <1>6 DEF EndPorts, CleanupFails, Fails
<1>7. CASE Tool
  BY <1>3, <1>4, <1>5, <1>6, <1>7 DEF Tool
<1>8. CASE Calls
  BY <1>1, <1>2, <1>8 DEF Calls, CreateWorktree, CleanupWorktree
<1>9. CASE Around
  BY <1>0, <1>1, <1>9 DEF Around, Commit, Push, DeleteDir, Edit, Listen, Stop, Network, Crash, Fails
<1>10. CASE UNCHANGED vars
  BY <1>1, <1>10 DEF vars
<1> QED BY <1>7, <1>8, <1>9, <1>10 DEF Next

\* The worktrees that one call gives a port have different ones.
THEOREM PortsStayApart == Spec => []PortsApart
<1>1. PInv => PortsApart
  BY DEF PInv
<1> QED BY <1>1, InitPInv, PInvStep, PTL DEF Spec

-----------------------------------------------------------------------------
(* Work.                                                                   *)

GitOK ==
  /\ dir \in [Paths -> {"none", "linked", "plain"}]
  /\ branch \in [Paths -> {"none", "forked", "theirs"}]
  /\ committed \in [Paths -> SUBSET Files]
  /\ dirty \in [Paths -> SUBSET Files]

\* A path without a directory has no uncommitted changes.
NothingNowhere == \A p \in Paths : dir[p] = "none" => dirty[p] = {}

\* While a creation looks for a remote branch there is no local one.
Forking == call.kind = "create" /\ call.at \in {"ls-remote", "fetch", "created"}
NoBranchYet == \A p \in Paths : Forking /\ p = Item => branch[p] = "none"

WInv == IsCall /\ GitOK /\ NothingNowhere /\ NoBranchYet

LEMMA InitWInv == Init => WInv
BY DEF Init, NoCall, WInv, IsCall, GitOK, NothingNowhere, NoBranchYet, Forking

\* "git worktree remove" succeeds only where nothing is lost.
LEMMA RemoveKeeps ==
  ASSUME WInv, NEW q, CanRemove(q), RemoveTree(q)
  PROVE  /\ GitOK' /\ NothingNowhere'
         /\ \A p \in Paths : /\ dirty[p] \subseteq dirty'[p] /\ committed[p] \subseteq committed'[p]
                             /\ branch'[p] = branch[p]
                             /\ dir[p] = "plain" => dir'[p] # "none"
<1>1. q \in Paths => dirty[q] = {} /\ dir[q] # "plain"
  BY DEF CanRemove, Changes, WInv, GitOK, NothingNowhere
<1>2. GitOK' /\ NothingNowhere'
  BY <1>1 DEF RemoveTree, WInv, GitOK, NothingNowhere
<1> QED BY <1>1, <1>2 DEF RemoveTree, WInv, GitOK

Kept ==
  \A p \in Paths : /\ dirty[p] \subseteq dirty'[p] /\ committed[p] \subseteq committed'[p]
                   /\ branch[p] # "none" => branch'[p] = branch[p]
                   /\ dir[p] = "plain" => dir'[p] # "none"

\* A step of a call that touches no file of git.
LEMMA QuietStep ==
  ASSUME WInv, UNCHANGED <<dir, branch, committed, dirty>>
  PROVE  GitOK' /\ NothingNowhere' /\ Kept
BY DEF WInv, GitOK, NothingNowhere, Kept

\* NoBranchYet says nothing of a call that is not a creation in search.
LEMMA NotForking ==
  ASSUME IsCall', ~Forking'
  PROVE  NoBranchYet'
BY DEF NoBranchYet

LEMMA ToolStep == WInv /\ Tool => WInv' /\ Kept
<1> SUFFICES ASSUME WInv, Tool PROVE WInv' /\ Kept
  OBVIOUS
<1>0. IsCall
  BY DEF WInv
<1>1. CASE CreateOne
  <2>1. GitOK' /\ NothingNowhere' /\ Kept
    BY <1>1, QuietStep DEF CreateOne, git
  <2>2. IsCall'
    BY <1>0, <1>1 DEF IsCall, CreateOne, NextItem, Goto
  <2>3. NoBranchYet'
    <3>1. CASE call' = [call EXCEPT !.at = "ls-remote"] /\ branch[Item] = "none"
      BY <1>0, <1>1, <3>1 DEF IsCall, CreateOne, NoBranchYet, Item, git
    <3>2. CASE call'.at \in {"advise", "item", "reused-local"}
      BY <3>2, <2>2, NotForking DEF Forking
    <3> QED BY <1>0, <1>1, <3>1, <3>2 DEF IsCall, CreateOne, NextItem, Goto
  <2> QED BY <2>1, <2>2, <2>3 DEF WInv
<1>2. CASE BranchExistsRemote
  <2>1. GitOK' /\ NothingNowhere' /\ Kept
    BY <1>2, QuietStep DEF BranchExistsRemote, git
  <2>2. IsCall' /\ Item' = Item /\ call'.kind = call.kind
    BY <1>0, <1>2 DEF IsCall, BranchExistsRemote, Goto, Item
  <2>3. NoBranchYet'
    BY <1>2, <2>2 DEF WInv, NoBranchYet, Forking, BranchExistsRemote, At, git
  <2> QED BY <2>1, <2>2, <2>3 DEF WInv
<1>3. CASE FetchBranch
  <2>1. IsCall' /\ ~Forking'
    BY <1>0, <1>3 DEF IsCall, FetchBranch, Goto, Fails, NoCall, Forking
  <2>2. CASE UNCHANGED <<dir, branch, committed, dirty>>
    BY <2>1, <2>2, QuietStep, NotForking DEF WInv
  <2>3. CASE /\ branch' = [branch EXCEPT ![Item] = "theirs"]
             /\ \E S \in SUBSET Files : committed' = [committed EXCEPT ![Item] = @ \cup S]
    <3>1. \A p \in Paths : p = Item => branch[p] = "none"
      BY <1>3 DEF FetchBranch, WInv, NoBranchYet, Forking, At
    <3>2. GitOK' /\ NothingNowhere' /\ Kept
      BY <1>3, <2>3, <3>1 DEF FetchBranch, WInv, GitOK, NothingNowhere, Kept
    <3> QED BY <2>1, <3>2, NotForking DEF WInv
  <2> QED BY <1>3, <2>2, <2>3 DEF FetchBranch
<1>4. CASE AddWorktree
  <2>1. IsCall' /\ ~Forking'
    <3>1. CASE call' = NoCall
      BY <3>1 DEF IsCall, NoCall, Forking
    <3>2. CASE call' = [call EXCEPT !.at = "env", !.status = Append(@, call.at)]
      BY <1>0, <3>2 DEF IsCall, Forking
    <3> QED BY <1>4, <3>1, <3>2 DEF AddWorktree, Fails
  <2>2. CASE UNCHANGED <<dir, branch, committed, dirty>>
    BY <2>1, <2>2, QuietStep, NotForking DEF WInv
  <2>3. CASE CanAdd(Item) /\ Add(Item)
    <3>1. call.at = "created" => Forking
      BY <1>4 DEF AddWorktree, Forking
    <3>2. GitOK' /\ NothingNowhere' /\ Kept
      BY <1>4, <2>3, <3>1 DEF AddWorktree, CanAdd, Add, WInv, GitOK, NothingNowhere, NoBranchYet, Kept
    <3> QED BY <2>1, <3>2, NotForking DEF WInv
  <2> QED BY <1>4, <2>2, <2>3 DEF AddWorktree
<1>5. CASE CopyEnvFiles
  <2>1. IsCall' /\ ~Forking'
    BY <1>0, <1>5 DEF IsCall, CopyEnvFiles, Forking
  <2>2. GitOK' /\ NothingNowhere' /\ Kept
    BY <1>5 DEF CopyEnvFiles, WInv, GitOK, NothingNowhere, Kept
  <2> QED BY <2>1, <2>2, NotForking DEF WInv
<1>6. CASE Advise
  <2>1. IsCall' /\ ~Forking'
    BY <1>0, <1>6 DEF IsCall, Advise, Forking
  <2>2. GitOK' /\ NothingNowhere' /\ Kept
    BY <1>6, QuietStep DEF Advise, git
  <2> QED BY <2>1, <2>2, NotForking DEF WInv
<1>7. CASE ReadPort \/ AllocatePort
  <2>1. IsCall' /\ ~Forking'
    BY <1>0, <1>7 DEF IsCall, ReadPort, AllocatePort, Assign, AfterUsed, AfterTaken, Forking
  <2>2. GitOK' /\ NothingNowhere' /\ Kept
    BY <1>7 DEF ReadPort, AllocatePort, Assign, WInv, GitOK, NothingNowhere, Kept
  <2> QED BY <2>1, <2>2, NotForking DEF WInv
<1>8. CASE EndPorts \/ CleanupFails
  <2>1. IsCall' /\ ~Forking'
    BY <1>8 DEF IsCall, EndPorts, CleanupFails, Fails, NoCall, Forking
  <2>2. GitOK' /\ NothingNowhere' /\ Kept
    BY <1>8, QuietStep DEF EndPorts, CleanupFails, git
  <2> QED BY <2>1, <2>2, NotForking DEF WInv
<1>9. CASE Cleanup
  <2>1. IsCall' /\ ~Forking'
    BY <1>0, <1>9 DEF IsCall, Cleanup, At, NoCall, Forking
  <2>2. GitOK' /\ NothingNowhere' /\ Kept
    <3>1. CASE UNCHANGED git
      BY <3>1, QuietStep DEF git
    <3>2. CASE CanRemove(Item) /\ RemoveTree(Item)
      BY <3>2, RemoveKeeps DEF Kept
    <3> QED BY <1>9, <3>1, <3>2 DEF Cleanup
  <2> QED BY <2>1, <2>2, NotForking DEF WInv
<1> QED BY <1>1, <1>2, <1>3, <1>4, <1>5, <1>6, <1>7, <1>8, <1>9 DEF Tool

LEMMA CallsStep == WInv /\ Calls => WInv' /\ Kept
<1> SUFFICES ASSUME WInv, Calls PROVE WInv' /\ Kept
  OBVIOUS
<1>1. ASSUME NEW kind, NEW t, NEW list, Start(kind, t, list) PROVE WInv' /\ Kept
  <2>1. IsCall' /\ ~Forking'
    BY <1>1 DEF IsCall, Start, NoCall, Forking
  <2>2. GitOK' /\ NothingNowhere' /\ Kept
    BY <1>1, QuietStep DEF Start, git
  <2> QED BY <2>1, <2>2, NotForking DEF WInv
<1>2. ASSUME NEW q \in Cwd \X Tasks, CreateWorktree(q) PROVE WInv' /\ Kept
  <2>1. IsCall' /\ ~Forking'
    BY <1>2 DEF CreateWorktree, Idle, WInv, IsCall, Forking
  <2>2. GitOK' /\ NothingNowhere' /\ Kept
    BY <1>2 DEF CreateWorktree, CanAdd, Add, WInv, GitOK, NothingNowhere, Kept
  <2> QED BY <2>1, <2>2, NotForking DEF WInv
<1>3. ASSUME NEW q \in Paths, CleanupWorktree(q) PROVE WInv' /\ Kept
  <2>1. IsCall' /\ ~Forking'
    BY <1>3 DEF CleanupWorktree, Idle, WInv, IsCall, Forking
  <2>2. GitOK' /\ NothingNowhere' /\ Kept
    BY <1>3, RemoveKeeps DEF CleanupWorktree, Kept
  <2> QED BY <2>1, <2>2, NotForking DEF WInv
<1> QED BY <1>1, <1>2, <1>3 DEF Calls

\* The world around the calls may take work away, but keeps the facts.
LEMMA AroundStep == WInv /\ Around => WInv'
<1> SUFFICES ASSUME WInv, Around PROVE WInv'
  OBVIOUS
<1>1. CASE \E p \in Paths : Commit(p) \/ Push(p) \/ DeleteDir(p) \/ \E f \in Files : Edit(p, f)
  <2>1. IsCall' /\ UNCHANGED <<call, branch>>
    BY <1>1 DEF Commit, Push, DeleteDir, Edit, WInv, IsCall
  <2>2. NoBranchYet'
    BY <2>1 DEF WInv, NoBranchYet, Forking, Item
  <2>3. GitOK' /\ NothingNowhere'
    BY <1>1 DEF Commit, Push, DeleteDir, Edit, WInv, GitOK, NothingNowhere
  <2> QED BY <2>1, <2>2, <2>3 DEF WInv
<1>2. CASE Network \/ \E n \in Ports : Listen(n) \/ Stop(n)
  BY <1>2 DEF Network, Listen, Stop, git, WInv, IsCall, GitOK, NothingNowhere, NoBranchYet, Forking, Item
<1>3. CASE Crash
  <2>1. IsCall' /\ ~Forking'
    BY <1>3 DEF IsCall, Crash, Fails, NoCall, Forking
  <2>2. GitOK' /\ NothingNowhere'
    BY <1>3, QuietStep DEF Crash, git
  <2> QED BY <2>1, <2>2, NotForking DEF WInv
<1> QED BY <1>1, <1>2, <1>3 DEF Around

LEMMA WInvStep == WInv /\ [Next]_vars => WInv'
<1>1. WInv /\ UNCHANGED vars => WInv'
  BY DEF vars, git, WInv, IsCall, GitOK, NothingNowhere, NoBranchYet, Forking, Item
<1> QED BY <1>1, ToolStep, CallsStep, AroundStep DEF Next

\* No step of a tool discards an uncommitted change or a commit, moves or
\* deletes a branch, or takes away a directory git does not know.
THEOREM WorkIsKept == Spec => WorkKept
<1>1. WInv /\ [Next]_vars => [Tool \/ Calls => Kept]_vars
  BY ToolStep, CallsStep
<1>2. [Tool \/ Calls => Kept]_vars =>
        [Tool \/ Calls =>
           \A p \in Paths : /\ dirty[p] \subseteq dirty'[p] /\ committed[p] \subseteq committed'[p]
                            /\ branch[p] # "none" => branch'[p] = branch[p]
                            /\ dir[p] = "plain" => dir'[p] # "none"]_vars
  BY DEF Kept
<1> QED BY <1>1, <1>2, InitWInv, WInvStep, PTL DEF Spec, WorkKept

-----------------------------------------------------------------------------
(* Working side by side: naturals and folds.                               *)

\* Every non-empty set of naturals has a least element.
LEMMA NatMin ==
  ASSUME NEW T, T \subseteq Nat, T # {}
  PROVE  \E x \in T : \A y \in T : x <= y
<1> DEFINE R == OpToRel(<, Nat)
<1>1. IsWellFoundedOn(R, Nat)
  BY NatLessThanWellFounded
<1> HIDE DEF R
<1>2. PICK x \in T : \A y \in T : <<y, x>> \notin R
  BY <1>1, WFMin
<1>3. \A y \in T : ~(y < x)
  BY <1>2 DEF R, OpToRel
<1> QED BY <1>3

\* What holds of 0, and of n + 1 when it holds of n, holds of every natural: the
\* induction the proofs below use, over a set in place of a predicate.
LEMMA NatSetInduction ==
  ASSUME NEW P, 0 \in P, \A n \in Nat : n \in P => n + 1 \in P
  PROVE  \A n \in Nat : n \in P
<1> SUFFICES ASSUME Nat \ P # {} PROVE FALSE
  OBVIOUS
<1>1. PICK m \in Nat \ P : \A y \in Nat \ P : m <= y
  BY NatMin
<1>2. m - 1 \in Nat /\ m - 1 \in P
  BY <1>1
<1> QED BY <1>1, <1>2

\* A fold over a finite set is well defined: whatever element "pick" takes next,
\* the recursion that the library's folds are made of has a solution, which
\* stays in any set T that the step stays in.
Folds(it, S, T, base, pick, step) ==
  /\ it \in [SUBSET S -> T]
  /\ \A s \in SUBSET S :
       it[s] = IF s = {} THEN base ELSE step[pick[s]][it[s \ {pick[s]}]]

Picks(pick, S) == \A s \in SUBSET S : s # {} => pick[s] \in s

LEMMA FoldExists ==
  ASSUME NEW S, IsFiniteSet(S), NEW T, NEW base \in T, NEW pick, NEW step \in [S -> [T -> T]],
         Picks(pick, S)
  PROVE  \E it : Folds(it, S, T, base, pick, step)
<1> USE DEF Picks
<1> DEFINE Body(it, s) == IF s = {} THEN base ELSE step[pick[s]][it[s \ {pick[s]}]]
           UpTo(it, n) == /\ it \in [SUBSET S -> T]
                          /\ \A s \in SUBSET S : Cardinality(s) <= n => it[s] = Body(it, s)
           P == {n \in Nat : \E it : UpTo(it, n)}
<1>1. \A s \in SUBSET S : IsFiniteSet(s) /\ Cardinality(s) \in Nat /\ (Cardinality(s) = 0 <=> s = {})
  BY FS_Subset, FS_CardinalityType, FS_EmptySet
<1>2. \A s \in SUBSET S : s # {} => Cardinality(s \ {pick[s]}) = Cardinality(s) - 1
  BY <1>1, FS_RemoveElement
<1>3. 0 \in P
  <2>1. UpTo([s \in SUBSET S |-> base], 0)
    BY <1>1
  <2> QED BY <2>1
<1>4. ASSUME NEW n \in Nat, n \in P PROVE n + 1 \in P
  <2>1. PICK it : UpTo(it, n)
    BY <1>4
  <2> DEFINE next == [s \in SUBSET S |-> Body(it, s)]
  <2>2. \A s \in SUBSET S : s \ {pick[s]} \in SUBSET S
    OBVIOUS
  <2>3. next \in [SUBSET S -> T]
    <3>1. \A s \in SUBSET S : Body(it, s) \in T
      BY <2>1, <2>2
    <3> QED BY <3>1
  <2>4. \A s \in SUBSET S : Cardinality(s) <= n => next[s] = it[s]
    BY <2>1
  <2>5. ASSUME NEW s \in SUBSET S, Cardinality(s) <= n + 1 PROVE next[s] = Body(next, s)
    <3>1. CASE s = {}
      BY <3>1
    <3>2. CASE s # {}
      <4>1. Cardinality(s \ {pick[s]}) <= n
        BY <1>1, <1>2, <2>5, <3>2
      <4>2. next[s \ {pick[s]}] = it[s \ {pick[s]}]
        BY <2>2, <2>4, <4>1
      <4> QED BY <4>2
    <3> QED BY <3>1, <3>2
  <2>6. UpTo(next, n + 1)
    BY <2>3, <2>5
  <2>7. \E g : UpTo(g, n + 1)
    <3> HIDE DEF UpTo, next
    <3> QED BY <2>6
  <2> HIDE DEF UpTo
  <2> QED BY <2>7
<1>5. Cardinality(S) \in P
  <2>1. \A n \in Nat : n \in P
    <3> HIDE DEF P
    <3> QED BY <1>3, <1>4, NatSetInduction
  <2> QED BY <2>1, <1>1
<1>6. PICK it : UpTo(it, Cardinality(S))
  BY <1>5
<1>7. \A s \in SUBSET S : Cardinality(s) <= Cardinality(S)
  BY FS_Subset
<1>8. Folds(it, S, T, base, pick, step)
  BY <1>6, <1>7 DEF Folds
<1> QED BY <1>8

\* Any solution of that recursion stays in T.
Solves(iter, S, T, base, pick, step) ==
  /\ iter[{}] = base
  /\ \A s \in SUBSET S : s # {} /\ iter[s \ {pick[s]}] \in T
                         => iter[s] = step[pick[s]][iter[s \ {pick[s]}]]

LEMMA FoldType ==
  ASSUME NEW S, IsFiniteSet(S), NEW T, NEW base \in T, NEW pick, NEW step \in [S -> [T -> T]],
         Picks(pick, S), NEW iter, Solves(iter, S, T, base, pick, step)
  PROVE  iter[S] \in T
<1> USE DEF Picks, Solves
<1> DEFINE P == {n \in Nat : \A s \in SUBSET S : Cardinality(s) = n => iter[s] \in T}
<1>1. \A s \in SUBSET S : IsFiniteSet(s) /\ Cardinality(s) \in Nat /\ (Cardinality(s) = 0 <=> s = {})
  BY FS_Subset, FS_CardinalityType, FS_EmptySet
<1>2. \A s \in SUBSET S : s # {} => Cardinality(s \ {pick[s]}) = Cardinality(s) - 1
  BY <1>1, FS_RemoveElement
<1>3. 0 \in P
  BY <1>1
<1>4. ASSUME NEW n \in Nat, n \in P PROVE n + 1 \in P
  <2> SUFFICES ASSUME NEW s \in SUBSET S, Cardinality(s) = n + 1 PROVE iter[s] \in T
    OBVIOUS
  <2>1. s # {} /\ Cardinality(s \ {pick[s]}) = n
    BY <1>1, <1>2
  <2>2. iter[s \ {pick[s]}] \in T /\ pick[s] \in S
    BY <1>4, <2>1
  <2>3. step[pick[s]] \in [T -> T] /\ iter[s] = step[pick[s]][iter[s \ {pick[s]}]]
    BY <2>1, <2>2
  <2> QED BY <2>2, <2>3
<1>5. \A n \in Nat : n \in P
  <2> HIDE DEF P
  <2> QED BY <1>3, <1>4, NatSetInduction
<1> QED BY <1>1, <1>5

-----------------------------------------------------------------------------
(* The waves.                                                              *)

\* PartitionByOverlap, with the folds of the library expanded.
LEMMA PartitionIter ==
  ASSUME NEW items
  PROVE  PartitionByOverlap(items) =
           (CHOOSE iter : iter =
              [s \in SUBSET DOMAIN [i \in 1..Len(items) |-> i] |->
                 IF s = {} THEN <<>>
                 ELSE Placed(iter[s \ {Max(s)}], items, [i \in 1..Len(items) |-> i][Max(s)])])
             [DOMAIN [i \in 1..Len(items) |-> i]]
BY DEF PartitionByOverlap, FoldLeft, MapThenFoldSet

\* So has every bounded one a greatest element, which Max is.
LEMMA BoundedMax ==
  ASSUME NEW T, T \subseteq Nat, T # {}, NEW n \in Nat, \A y \in T : y <= n
  PROVE  Max(T) \in T /\ \A y \in T : y <= Max(T)
<1> DEFINE U == {n - y : y \in T}
<1>1. U \subseteq Nat
  OBVIOUS
<1>6. U # {}
  <2>1. PICK y \in T : TRUE
    OBVIOUS
  <2>2. n - y \in U
    OBVIOUS
  <2> QED BY <2>2
<1> HIDE DEF U
<1>2. PICK u \in U : \A y \in U : u <= y
  BY <1>1, <1>6, NatMin
<1>3. PICK x \in T : u = n - x
  BY <1>2 DEF U
<1>4. \A y \in T : n - y \in U
  BY DEF U
<1>5. \A y \in T : x >= y
  BY <1>2, <1>3, <1>4
<1> QED BY <1>5 DEF Max

\* The waves after each item: what the partition has come to.
Wave == Seq(SUBSET Nat)
Waving(W, items) ==
  /\ W \in [0..Len(items) -> Wave]
  /\ W[0] = <<>>
  /\ \A k \in 1..Len(items) : W[k] = Placed(W[k - 1], items, k)

\* Placing an item keeps the waves a sequence of sets, and what they are.
LEMMA PlacedType ==
  ASSUME NEW waves \in Wave, NEW items, NEW i \in Nat
  PROVE  Placed(waves, items, i) \in Wave
<1> DEFINE k == Min(Open(waves, items, i))
<1>1. Append(waves, {i}) \in Wave
  BY DEF Wave
<1>2. [waves EXCEPT ![k] = @ \cup {i}] \in Wave
  <2> HIDE DEF k
  <2>1. CASE k \in DOMAIN waves
    <3>1. waves[k] \cup {i} \in SUBSET Nat
      BY <2>1 DEF Wave
    <3> QED BY <2>1, <3>1 DEF Wave
  <2>2. CASE k \notin DOMAIN waves
    <3>1. [waves EXCEPT ![k] = @ \cup {i}] = waves
      BY <2>2 DEF Wave
    <3> QED BY <3>1
  <2> QED BY <2>1, <2>2
<1> QED BY <1>1, <1>2 DEF Placed

\* The partition is the waves after the last item.
LEMMA PartitionSteps ==
  ASSUME NEW items, NEW n \in Nat, Len(items) = n
  PROVE  \E W : Waving(W, items) /\ PartitionByOverlap(items) = W[n]
<1> DEFINE S == 1..n
           D == DOMAIN [i \in 1..Len(items) |-> i]
           Eq(iter) == iter = [s \in SUBSET D |->
                 IF s = {} THEN <<>>
                 ELSE Placed(iter[s \ {Max(s)}], items, [i \in 1..Len(items) |-> i][Max(s)])]
           pick == [s \in SUBSET S |-> Max(s)]
           step == [i \in S |-> [w \in Wave |-> Placed(w, items, i)]]
<1>1. \A s \in SUBSET S : s # {} => Max(s) \in s /\ \A y \in s : y <= Max(s)
  <2> SUFFICES ASSUME NEW s \in SUBSET S, s # {} PROVE Max(s) \in s /\ \A y \in s : y <= Max(s)
    OBVIOUS
  <2>1. s \subseteq Nat /\ \A y \in s : y <= n
    OBVIOUS
  <2> QED BY <2>1, BoundedMax
<1>2. D = S
  OBVIOUS
<1>3. \E iter : Eq(iter)
  <2>1. step \in [S -> [Wave -> Wave]]
    BY PlacedType
  <2>2. <<>> \in Wave /\ IsFiniteSet(S)
    BY FS_Interval DEF Wave
  <2>3. Picks(pick, S)
    BY <1>1 DEF Picks
  <2>4. PICK it : Folds(it, S, Wave, <<>>, pick, step)
    <3> HIDE DEF S, pick, step
    <3> QED BY <2>1, <2>2, <2>3, FoldExists
  <2>5. ASSUME NEW s \in SUBSET S
        PROVE  it[s] = IF s = {} THEN <<>>
                       ELSE Placed(it[s \ {Max(s)}], items, [i \in 1..n |-> i][Max(s)])
    <3>1. s # {} => it[s] = step[Max(s)][it[s \ {Max(s)}]]
      BY <2>4 DEF Folds
    <3>2. it[s \ {Max(s)}] \in Wave
      BY <2>4 DEF Folds
    <3>3. s # {} => Max(s) \in S
      BY <1>1
    <3>4. s = {} => it[s] = <<>>
      BY <2>4 DEF Folds
    <3> QED BY <3>1, <3>2, <3>3, <3>4
  <2>6. it = [s \in SUBSET S |-> it[s]]
    BY <2>4 DEF Folds
  <2>7. Eq(it)
    BY <1>2, <2>5, <2>6
  <2> QED BY <2>7
<1>4. PICK iter : Eq(iter) /\ PartitionByOverlap(items) = iter[D]
  <2>1. PartitionByOverlap(items) = (CHOOSE iter : Eq(iter))[D]
    BY PartitionIter
  <2> HIDE DEF Eq, D
  <2> QED BY <1>3, <2>1
<1>5. iter[{}] = <<>>
  BY <1>4
<1>6. ASSUME NEW k \in S PROVE iter[1..k] = Placed(iter[1..(k - 1)], items, k)
  <2>1. 1..k \in SUBSET S /\ k \in 1..k /\ (1..k) \ {k} = 1..(k - 1)
    OBVIOUS
  <2>2. Max(1..k) = k
    <3>1. Max(1..k) \in 1..k /\ k <= Max(1..k)
      BY <1>1, <2>1
    <3> QED BY <3>1
  <2>3. iter[1..k] = Placed(iter[(1..k) \ {k}], items, [i \in 1..n |-> i][k])
    BY <1>2, <1>4, <2>1, <2>2
  <2> QED BY <2>1, <2>3
<1> DEFINE W == [k \in 0..n |-> iter[1..k]]
           P == {k \in Nat : k <= n => iter[1..k] \in Wave}
<1>7. \A k \in Nat : k \in P
  <2>1. 0 \in P
    <3>1. 1..0 = {} /\ <<>> \in Wave
      BY DEF Wave
    <3> QED BY <1>5, <3>1
  <2>2. ASSUME NEW k \in Nat, k \in P PROVE k + 1 \in P
    <3>1. k + 1 <= n => iter[1..(k + 1)] = Placed(iter[1..k], items, k + 1)
      BY <1>6
    <3> QED BY <2>2, <3>1, PlacedType
  <2> HIDE DEF P
  <2> QED BY <2>1, <2>2, NatSetInduction
<1>8. Waving(W, items)
  <2>1. W \in [0..n -> Wave]
    BY <1>7
  <2>2. W[0] = <<>>
    <3>1. 1..0 = {}
      OBVIOUS
    <3> QED BY <1>5, <3>1
  <2>3. \A k \in 1..n : W[k] = Placed(W[k - 1], items, k)
    BY <1>6
  <2> QED BY <2>1, <2>2, <2>3 DEF Waving
<1>9. PartitionByOverlap(items) = W[n]
  <2>1. W[n] = iter[S]
    OBVIOUS
  <2> HIDE DEF Eq, D, W, S
  <2> QED BY <1>2, <1>4, <2>1
<1> HIDE DEF W
<1> QED BY <1>8, <1>9

\* Two items that change a common file.
Clash(items, i, j) == items[i].paths \cap items[j].paths # {}

\* What the waves of the first k items are: they hold these items, each in one
\* wave, no two that clash in the same; and what is in a later wave clashes
\* with an earlier item of every wave before.
WavesOf(w, items, k) ==
  /\ \A l \in DOMAIN w : w[l] # {} /\ w[l] \subseteq 1..k
  /\ \A i \in 1..k : \E l \in DOMAIN w : i \in w[l]
  /\ \A l, m \in DOMAIN w, i \in 1..k : i \in w[l] /\ i \in w[m] => l = m
  /\ \A l \in DOMAIN w : \A i, j \in w[l] : i # j => ~Clash(items, i, j)
  /\ \A l \in DOMAIN w, i \in 1..k, m \in Nat \ {0} :
       i \in w[l] /\ m < l => \E j \in w[m] : j < i /\ Clash(items, j, i)

LEMMA PlacedWaves ==
  ASSUME NEW items, NEW k \in Nat, NEW w \in Wave, WavesOf(w, items, k)
  PROVE  WavesOf(Placed(w, items, k + 1), items, k + 1)
<1> DEFINE i0 == k + 1
           open == Open(w, items, i0)
           w1 == Placed(w, items, i0)
           n == Len(w)
<1>1. n \in Nat /\ DOMAIN w = 1..n
  BY DEF Wave
<1>2. \A l \in 1..n : l \notin open => \E j \in w[l] : j < i0 /\ Clash(items, j, i0)
  BY <1>1 DEF Open, WavesOf, Clash
<1>3. \A l \in open : l \in 1..n /\ \A j \in w[l] : ~Clash(items, j, i0) /\ ~Clash(items, i0, j)
  BY DEF Open, Clash
<1>4. PICK l0 \in 1..(n + 1), n1 \in {n, n + 1} :
        /\ DOMAIN w1 = 1..n1 /\ l0 \in 1..n1
        /\ \A l \in 1..n1 : l # l0 => l \in 1..n /\ w1[l] = w[l]
        /\ w1[l0] = {i0} \cup (IF l0 \in 1..n THEN w[l0] ELSE {})
        /\ l0 \in 1..n => l0 \in open
        /\ n1 = n + 1 => l0 = n + 1
        /\ \A l \in 1..n : l < l0 => l \notin open
  <2>1. CASE open = {}
    <3>1. w1 = Append(w, {i0})
      BY <2>1 DEF Placed
    <3>2. /\ DOMAIN w1 = 1..(n + 1) /\ w1[n + 1] = {i0}
          /\ \A l \in 1..n : w1[l] = w[l]
      BY <1>1, <3>1 DEF Wave
    <3> HIDE DEF w1, open
    <3>3. n + 1 \in 1..(n + 1) /\ n + 1 \notin 1..n
      BY <1>1
    <3> WITNESS n + 1 \in 1..(n + 1), n + 1 \in {n, n + 1}
    <3> QED BY <1>1, <2>1, <3>2, <3>3
  <2>2. CASE open # {}
    <3>1. PICK x \in open : \A y \in open : x <= y
      BY <1>3, <2>2, NatMin
    <3>2. Min(open) \in open /\ \A y \in open : Min(open) <= y
      BY <3>1 DEF Min
    <3>3. w1 = [w EXCEPT ![Min(open)] = @ \cup {i0}]
      BY <2>2 DEF Placed
    <3>4. Min(open) \in 1..n
      BY <1>3, <3>2
    <3> DEFINE l1 == Min(open)
    <3> HIDE DEF open, w1, l1
    <3>5. DOMAIN w1 = 1..n /\ w1[l1] = w[l1] \cup {i0} /\ \A l \in 1..n : l # l1 => w1[l] = w[l]
      BY <1>1, <3>3, <3>4 DEF l1
    <3>6. \A l \in 1..n : l < l1 => l \notin open
      BY <3>2, <3>4 DEF l1
    <3>7. l1 \in 1..(n + 1) /\ n \in {n, n + 1} /\ l1 \in open /\ l1 \in 1..n
      BY <1>1, <3>2, <3>4 DEF l1
    <3> WITNESS l1 \in 1..(n + 1), n \in {n, n + 1}
    <3>8. w1[l1] = {i0} \cup (IF l1 \in 1..n THEN w[l1] ELSE {})
      BY <3>5, <3>7
    <3>9. \A l \in 1..n : l # l1 => l \in 1..n /\ w1[l] = w[l]
      BY <3>5
    <3> HIDE DEF n, i0
    <3> QED BY <1>1, <3>5, <3>6, <3>7, <3>8, <3>9
  <2> QED BY <2>1, <2>2
<1> HIDE DEF w1, open
<1>5. \A l \in 1..n1 : w1[l] # {} /\ w1[l] \subseteq 1..i0
  <2>1. \A l \in 1..n : w[l] # {} /\ w[l] \subseteq 1..k
    BY <1>1 DEF WavesOf
  <2> QED BY <1>4, <2>1
<1> DEFINE Old(l) == IF l \in 1..n THEN w[l] ELSE {}
<1>6. \A l \in 1..n1 : w1[l] = IF l = l0 THEN Old(l) \cup {i0} ELSE Old(l)
  BY <1>4
<1>7. \A l \in 1..n : w[l] \subseteq 1..k /\ i0 \notin w[l]
  BY <1>1 DEF WavesOf
<1>15. \A l \in 1..n1 : Old(l) \subseteq 1..k /\ i0 \notin Old(l)
  BY <1>7
<1>16. \A l \in 1..n1, i \in 1..i0 : i \in w1[l] /\ i # i0 => i \in Old(l) /\ i \in 1..k
  <2> SUFFICES ASSUME NEW l \in 1..n1, NEW i \in 1..i0, i \in w1[l], i # i0
               PROVE  i \in Old(l) /\ i \in 1..k
    OBVIOUS
  <2>1. i \in 1..k
    OBVIOUS
  <2> HIDE DEF Old, i0
  <2> QED BY <1>6, <2>1
<1>17. \A l : \A i \in Old(l) : l \in 1..n /\ i \in w[l]
  OBVIOUS
<1>18. \A l \in 1..n : Old(l) = w[l]
  OBVIOUS
<1> HIDE DEF Old
<1>8. 1..n \subseteq 1..n1
  BY <1>1, <1>4
<1>9. \A i \in 1..i0 : \E l \in 1..n1 : i \in w1[l]
  <2> SUFFICES ASSUME NEW i \in 1..i0 PROVE \E l \in 1..n1 : i \in w1[l]
    OBVIOUS
  <2>1. CASE i = i0
    BY <1>4, <1>6, <2>1
  <2>2. CASE i \in 1..k
    <3>1. PICK l \in 1..n : i \in w[l]
      BY <1>1, <2>2 DEF WavesOf
    <3> QED BY <1>6, <1>8, <1>18, <3>1
  <2> QED BY <2>1, <2>2
<1>10. \A l, m \in 1..n1, i \in 1..i0 : i \in w1[l] /\ i \in w1[m] => l = m
  <2> SUFFICES ASSUME NEW l \in 1..n1, NEW m \in 1..n1, NEW i \in 1..i0, i \in w1[l], i \in w1[m]
               PROVE  l = m
    OBVIOUS
  <2>1. CASE i = i0
    BY <1>6, <1>15, <2>1
  <2>2. CASE i # i0
    <3>1. i \in Old(l) /\ i \in Old(m) /\ i \in 1..k
      BY <1>16, <2>2
    <3> QED BY <1>1, <1>17, <3>1 DEF WavesOf
  <2> QED BY <2>1, <2>2
<1>11. \A l \in 1..n1 : \A i, j \in w1[l] : i # j => ~Clash(items, i, j)
  <2> SUFFICES ASSUME NEW l \in 1..n1, NEW i \in w1[l], NEW j \in w1[l], i # j
               PROVE  ~Clash(items, i, j)
    OBVIOUS
  <2>1. CASE i \in Old(l) /\ j \in Old(l)
    BY <1>1, <1>17, <2>1 DEF WavesOf
  <2>2. CASE i = i0 \/ j = i0
    <3>0. i \in 1..i0 /\ j \in 1..i0 /\ i0 \in w1[l]
      BY <1>5, <2>2
    <3>3. l = l0
      BY <1>6, <1>15, <3>0
    <3>1. l = l0 /\ (i \in Old(l) \/ j \in Old(l))
      <4> HIDE DEF i0
      <4> QED BY <1>16, <2>2, <3>0, <3>3
    <3>2. l0 \in 1..n => \A x \in w[l0] : ~Clash(items, x, i0) /\ ~Clash(items, i0, x)
      BY <1>3, <1>4
    <3>4. CASE i \in Old(l)
      <4>1. j = i0 /\ l0 \in 1..n /\ i \in w[l0]
        BY <1>15, <1>17, <2>2, <3>3, <3>4
      <4> HIDE DEF i0
      <4> QED BY <3>2, <4>1
    <3>5. CASE j \in Old(l)
      <4>1. i = i0 /\ l0 \in 1..n /\ j \in w[l0]
        BY <1>15, <1>17, <2>2, <3>3, <3>5
      <4> HIDE DEF i0
      <4> QED BY <3>2, <4>1
    <3> QED BY <3>1, <3>4, <3>5
  <2> QED BY <1>6, <2>1, <2>2
<1>12. \A l \in 1..n1, i \in 1..i0, m \in Nat \ {0} :
         i \in w1[l] /\ m < l => \E j \in w1[m] : j < i /\ Clash(items, j, i)
  <2> SUFFICES ASSUME NEW l \in 1..n1, NEW i \in 1..i0, NEW m \in Nat \ {0}, i \in w1[l], m < l
               PROVE  \E j \in w1[m] : j < i /\ Clash(items, j, i)
    OBVIOUS
  <2>1. m \in 1..n /\ w[m] \subseteq w1[m]
    BY <1>1, <1>4, <1>6
  <2>2. CASE i = i0
    <3>1. l = l0
      BY <1>6, <1>15, <2>2
    <3> QED BY <1>2, <1>4, <2>1, <2>2, <3>1
  <2>3. CASE i # i0
    <3>1. i \in 1..k /\ l \in 1..n /\ i \in w[l]
      BY <1>16, <1>17, <2>3
    <3>2. \E j \in w[m] : j < i /\ Clash(items, j, i)
      BY <1>1, <3>1 DEF WavesOf
    <3> QED BY <2>1, <3>2
  <2> QED BY <2>2, <2>3
<1>13. DOMAIN w1 = 1..n1
  BY <1>4
<1>14. WavesOf(w1, items, i0)
  BY <1>5, <1>9, <1>10, <1>11, <1>12, <1>13 DEF WavesOf
<1> QED BY <1>14 DEF w1

\* By induction over the items.
LEMMA PartitionIsWaves ==
  ASSUME NEW items, NEW n \in Nat, Len(items) = n
  PROVE  /\ PartitionByOverlap(items) \in Wave
         /\ WavesOf(PartitionByOverlap(items), items, n)
<1>1. PICK W : Waving(W, items) /\ PartitionByOverlap(items) = W[n]
  BY PartitionSteps
<1> DEFINE P == {k \in Nat : k <= n => WavesOf(W[k], items, k)}
<1>2. 0 \in P
  <2>1. WavesOf(<<>>, items, 0)
    BY DEF WavesOf
  <2> QED BY <1>1, <2>1 DEF Waving
<1>3. ASSUME NEW k \in Nat, k \in P PROVE k + 1 \in P
  <2> SUFFICES ASSUME k + 1 <= n PROVE WavesOf(W[k + 1], items, k + 1)
    OBVIOUS
  <2>1. W[k] \in Wave /\ WavesOf(W[k], items, k)
    BY <1>1, <1>3 DEF Waving
  <2>2. W[k + 1] = Placed(W[k], items, k + 1)
    BY <1>1 DEF Waving
  <2> QED BY <2>1, <2>2, PlacedWaves
<1>4. \A k \in Nat : k \in P
  <2> HIDE DEF P
  <2> QED BY <1>2, <1>3, NatSetInduction
<1> QED BY <1>1, <1>4 DEF Waving

\* The partition of any sequence of items is what Waved says of it.
LEMMA PartitionSound ==
  ASSUME NEW items, NEW n \in Nat, Len(items) = n, DOMAIN items = 1..n
  PROVE  Waved(items)
<1> DEFINE w == PartitionByOverlap(items)
           m == Len(w)
<1>1. m \in Nat /\ DOMAIN w = 1..m /\ WavesOf(w, items, n)
  BY PartitionIsWaves DEF Wave
<1> HIDE DEF w
<1>2. ASSUME NEW i \in DOMAIN items
      PROVE  \E k \in DOMAIN w :
               /\ i \in w[k] /\ \A l \in DOMAIN w : i \in w[l] => l = k
               /\ \A l \in 1..(k - 1) : \E j \in w[l] : j < i /\ items[i].paths \cap items[j].paths # {}
  <2>1. PICK k \in DOMAIN w : i \in w[k]
    BY <1>1 DEF WavesOf
  <2>2. \A l \in DOMAIN w : i \in w[l] => l = k
    BY <1>1, <2>1 DEF WavesOf
  <2>3. ASSUME NEW l \in 1..(k - 1)
        PROVE  \E j \in w[l] : j < i /\ items[i].paths \cap items[j].paths # {}
    <3>1. l \in Nat \ {0} /\ l < k
      BY <1>1, <2>1
    <3>2. PICK j \in w[l] : j < i /\ Clash(items, j, i)
      BY <1>1, <2>1, <3>1 DEF WavesOf
    <3> QED BY <3>2 DEF Clash
  <2> QED BY <2>1, <2>2, <2>3
<1>3. \A k \in DOMAIN w : \A i, j \in w[k] : i # j => items[i].paths \cap items[j].paths = {}
  BY <1>1 DEF WavesOf, Clash
<1>4. ASSUME m <= 1 PROVE FindOverlaps(items) = {}
  <2> SUFFICES ASSUME NEW i \in 1..n, NEW j \in 1..n, i < j PROVE items[i].paths \cap items[j].paths = {}
    BY DEF FindOverlaps
  <2>1. PICK k \in DOMAIN w, l \in DOMAIN w : i \in w[k] /\ j \in w[l]
    BY <1>1 DEF WavesOf
  <2>2. k = l
    BY <1>1, <1>4
  <2> QED BY <1>3, <2>1, <2>2
<1>5. ASSUME ~(m <= 1) PROVE FindOverlaps(items) # {}
  <2>1. 1 \in DOMAIN w /\ 2 \in DOMAIN w
    BY <1>1, <1>5
  <2>2. PICK i \in w[2] : i \in 1..n
    BY <1>1, <2>1 DEF WavesOf
  <2>3. PICK j \in w[1] : j < i /\ Clash(items, j, i)
    <3>1. \A l \in DOMAIN w, x \in 1..n, k \in Nat \ {0} :
            x \in w[l] /\ k < l => \E y \in w[k] : y < x /\ Clash(items, y, x)
      BY <1>1 DEF WavesOf
    <3>2. 1 \in Nat \ {0} /\ 1 < 2
      OBVIOUS
    <3> QED BY <2>1, <2>2, <3>1, <3>2
  <2>4. j \in 1..n
    BY <1>1, <2>1 DEF WavesOf
  <2>5. <<j, i>> \in FindOverlaps(items)
    BY <2>2, <2>3, <2>4 DEF FindOverlaps, Clash
  <2> QED BY <2>5
<1> QED BY <1>1, <1>2, <1>3, <1>4, <1>5 DEF Waved, w

-----------------------------------------------------------------------------
(* The inspection: its folds are sequences of records, and a number.       *)

\* The records of the inspection.
Items == {Snapshot(p) : p \in Paths}

LEMMA InspectIter ==
  ASSUME NEW r
  PROVE  Inspect(r) =
           (CHOOSE iter : iter =
              [s \in SUBSET Linked(r) |->
                 IF s = {} THEN <<>>
                 ELSE Append(iter[s \ {CHOOSE x \in s : TRUE}], Snapshot(CHOOSE x \in s : TRUE))])
             [Linked(r)]
BY DEF Inspect, FoldSet, MapThenFoldSet

LEMMA InspectType ==
  ASSUME NEW r, IsFiniteSet(Linked(r))
  PROVE  Inspect(r) \in Seq(Items)
<1> DEFINE S == Linked(r)
           T == Seq(Items)
           Chosen(s) == CHOOSE x \in s : TRUE
           Eq(iter) == iter = [s \in SUBSET S |->
                 IF s = {} THEN <<>> ELSE Append(iter[s \ {Chosen(s)}], Snapshot(Chosen(s)))]
           pick == [s \in SUBSET S |-> Chosen(s)]
           step == [p \in S |-> [t \in T |-> Append(t, Snapshot(p))]]
<1>1. \A p \in S : Snapshot(p) \in Items
  BY DEF Linked, Items
<1>2. \A s \in SUBSET S : s # {} => Chosen(s) \in s
  OBVIOUS
<1>3. step \in [S -> [T -> T]]
  <2> HIDE DEF S
  <2> QED BY <1>1
<1>4. PICK it : Folds(it, S, T, <<>>, pick, step)
  <2>1. <<>> \in T /\ Picks(pick, S)
    BY <1>2 DEF Picks
  <2> HIDE DEF S, T, pick, step
  <2> QED BY <1>3, <2>1, FoldExists DEF S
<1> HIDE DEF S, Chosen
<1>5. Eq(it)
  <2>1. ASSUME NEW s \in SUBSET S
        PROVE  it[s] = IF s = {} THEN <<>> ELSE Append(it[s \ {Chosen(s)}], Snapshot(Chosen(s)))
    <3>1. it[s \ {Chosen(s)}] \in T /\ pick[s] = Chosen(s)
      BY <1>4 DEF Folds
    <3>2. s # {} => it[s] = step[Chosen(s)][it[s \ {Chosen(s)}]] /\ Chosen(s) \in S
      BY <1>2, <1>4, <3>1 DEF Folds
    <3>3. s = {} => it[s] = <<>>
      BY <1>4 DEF Folds
    <3> QED BY <3>1, <3>2, <3>3
  <2>2. it = [s \in SUBSET S |-> it[s]]
    BY <1>4 DEF Folds
  <2> QED BY <2>1, <2>2
<1>6. PICK iter : Eq(iter) /\ Inspect(r) = iter[S]
  <2>1. Inspect(r) = (CHOOSE iter : Eq(iter))[S]
    BY InspectIter DEF S, Chosen
  <2> HIDE DEF Eq
  <2> QED BY <1>5, <2>1
<1>7. Solves(iter, S, T, <<>>, pick, step)
  <2>1. iter[{}] = <<>>
    BY <1>6
  <2>2. ASSUME NEW s \in SUBSET S, s # {}, iter[s \ {pick[s]}] \in T
        PROVE  iter[s] = step[pick[s]][iter[s \ {pick[s]}]]
    <3>1. pick[s] \in S /\ pick[s] = Chosen(s)
      BY <1>2, <2>2
    <3> QED BY <1>6, <2>2, <3>1
  <2> QED BY <2>1, <2>2 DEF Solves
<1>8. IsFiniteSet(S) /\ <<>> \in T /\ Picks(pick, S)
  BY <1>2 DEF Picks, S
<1>9. iter[S] \in T
  <2> HIDE DEF T, pick, step, Eq
  <2> QED BY <1>3, <1>7, <1>8, FoldType
<1> QED BY <1>6, <1>9

LEMMA ObservedIter ==
  Observed =
    (CHOOSE iter : iter =
       [s \in SUBSET Repos |->
          IF s = {} THEN <<>>
          ELSE iter[s \ {CHOOSE x \in s : TRUE}] \o Inspect(CHOOSE x \in s : TRUE)])
      [Repos]
BY DEF Observed, FoldSet, MapThenFoldSet

LEMMA ObservedType ==
  ASSUME \A r \in Repos : IsFiniteSet(Linked(r))
  PROVE  Observed \in Seq(Items)
<1> DEFINE S == Repos
           T == Seq(Items)
           Chosen(s) == CHOOSE x \in s : TRUE
           Eq(iter) == iter = [s \in SUBSET S |->
                 IF s = {} THEN <<>> ELSE iter[s \ {Chosen(s)}] \o Inspect(Chosen(s))]
           pick == [s \in SUBSET S |-> Chosen(s)]
           step == [r \in S |-> [t \in T |-> t \o Inspect(r)]]
<1>1. \A r \in S : Inspect(r) \in T
  BY InspectType
<1>2. \A s \in SUBSET S : s # {} => Chosen(s) \in s
  OBVIOUS
<1>3. step \in [S -> [T -> T]]
  <2> HIDE DEF S
  <2> QED BY <1>1
<1>8. IsFiniteSet(S) /\ <<>> \in T /\ Picks(pick, S)
  BY <1>2, WorktreesAssumption DEF Picks
<1>4. PICK it : Folds(it, S, T, <<>>, pick, step)
  <2> HIDE DEF S, T, pick, step
  <2> QED BY <1>3, <1>8, FoldExists
<1> HIDE DEF S, Chosen
<1>5. Eq(it)
  <2>1. ASSUME NEW s \in SUBSET S
        PROVE  it[s] = IF s = {} THEN <<>> ELSE it[s \ {Chosen(s)}] \o Inspect(Chosen(s))
    <3>1. it[s \ {Chosen(s)}] \in T /\ pick[s] = Chosen(s)
      BY <1>4 DEF Folds
    <3>2. s # {} => it[s] = step[Chosen(s)][it[s \ {Chosen(s)}]] /\ Chosen(s) \in S
      BY <1>2, <1>4, <3>1 DEF Folds
    <3>3. s = {} => it[s] = <<>>
      BY <1>4 DEF Folds
    <3> QED BY <3>1, <3>2, <3>3
  <2>2. it = [s \in SUBSET S |-> it[s]]
    BY <1>4 DEF Folds
  <2> QED BY <2>1, <2>2
<1>6. PICK iter : Eq(iter) /\ Observed = iter[S]
  <2>1. Observed = (CHOOSE iter : Eq(iter))[S]
    BY ObservedIter DEF S, Chosen
  <2> HIDE DEF Eq
  <2> QED BY <1>5, <2>1
<1>7. Solves(iter, S, T, <<>>, pick, step)
  <2>1. iter[{}] = <<>>
    BY <1>6
  <2>2. ASSUME NEW s \in SUBSET S, s # {}, iter[s \ {pick[s]}] \in T
        PROVE  iter[s] = step[pick[s]][iter[s \ {pick[s]}]]
    <3>1. pick[s] \in S /\ pick[s] = Chosen(s)
      BY <1>2, <2>2
    <3> QED BY <1>6, <2>2, <3>1
  <2> QED BY <2>1, <2>2 DEF Solves
<1>9. iter[S] \in T
  <2> HIDE DEF T, pick, step, Eq
  <2> QED BY <1>3, <1>7, <1>8, FoldType
<1> QED BY <1>6, <1>9

\* The report of overlaps is a number.
LEMMA OverlapsFinite ==
  ASSUME NEW items \in Seq(Items)
  PROVE  Cardinality(FindOverlaps(items)) \in Nat
<1>1. IsFiniteSet(1..Len(items))
  BY FS_Interval
<1>2. IsFiniteSet((1..Len(items)) \X (1..Len(items)))
  BY <1>1, FS_Product
<1>3. FindOverlaps(items) \in SUBSET ((1..Len(items)) \X (1..Len(items)))
  BY DEF FindOverlaps
<1> QED BY <1>2, <1>3, FS_Subset, FS_CardinalityType

LEMMA OverlapIter ==
  OverlapCount =
    (CHOOSE iter : iter =
       [s \in SUBSET Called |->
          IF s = {} THEN 0
          ELSE iter[s \ {CHOOSE x \in s : TRUE}]
                 + Cardinality(FindOverlaps(Inspect(CHOOSE x \in s : TRUE)))])
      [Called]
BY DEF OverlapCount, FoldSet, MapThenFoldSet

LEMMA OverlapType ==
  ASSUME IsFiniteSet(Called), \A r \in Called : IsFiniteSet(Linked(r))
  PROVE  OverlapCount \in Nat
<1> DEFINE S == Called
           T == Nat
           Of(r) == Cardinality(FindOverlaps(Inspect(r)))
           Chosen(s) == CHOOSE x \in s : TRUE
           Eq(iter) == iter = [s \in SUBSET S |->
                 IF s = {} THEN 0 ELSE iter[s \ {Chosen(s)}] + Of(Chosen(s))]
           pick == [s \in SUBSET S |-> Chosen(s)]
           step == [r \in S |-> [t \in T |-> t + Of(r)]]
<1>1. \A r \in S : Of(r) \in T
  BY InspectType, OverlapsFinite
<1> HIDE DEF Of
<1>2. \A s \in SUBSET S : s # {} => Chosen(s) \in s
  OBVIOUS
<1>3. step \in [S -> [T -> T]]
  <2> HIDE DEF S
  <2> QED BY <1>1
<1>8. IsFiniteSet(S) /\ 0 \in T /\ Picks(pick, S)
  BY <1>2 DEF Picks
<1>4. PICK it : Folds(it, S, T, 0, pick, step)
  <2> HIDE DEF S, T, pick, step
  <2> QED BY <1>3, <1>8, FoldExists
<1> HIDE DEF S, Chosen
<1>5. Eq(it)
  <2>1. ASSUME NEW s \in SUBSET S
        PROVE  it[s] = IF s = {} THEN 0 ELSE it[s \ {Chosen(s)}] + Of(Chosen(s))
    <3>1. it[s \ {Chosen(s)}] \in T /\ pick[s] = Chosen(s)
      BY <1>4 DEF Folds
    <3>2. s # {} => it[s] = step[Chosen(s)][it[s \ {Chosen(s)}]] /\ Chosen(s) \in S
      BY <1>2, <1>4, <3>1 DEF Folds
    <3>3. s = {} => it[s] = 0
      BY <1>4 DEF Folds
    <3> QED BY <3>1, <3>2, <3>3
  <2>2. it = [s \in SUBSET S |-> it[s]]
    BY <1>4 DEF Folds
  <2> QED BY <2>1, <2>2
<1>6. PICK iter : Eq(iter) /\ OverlapCount = iter[S]
  <2>1. OverlapCount = (CHOOSE iter : Eq(iter))[S]
    BY OverlapIter DEF S, Chosen, Of
  <2> HIDE DEF Eq
  <2> QED BY <1>5, <2>1
<1>7. Solves(iter, S, T, 0, pick, step)
  <2>1. iter[{}] = 0
    BY <1>6
  <2>2. ASSUME NEW s \in SUBSET S, s # {}, iter[s \ {pick[s]}] \in T
        PROVE  iter[s] = step[pick[s]][iter[s \ {pick[s]}]]
    <3>1. pick[s] \in S /\ pick[s] = Chosen(s)
      BY <1>2, <2>2
    <3> QED BY <1>6, <2>2, <3>1
  <2> QED BY <2>1, <2>2 DEF Solves
<1>9. iter[S] \in T
  <2> HIDE DEF T, pick, step, Eq
  <2> QED BY <1>3, <1>7, <1>8, FoldType
<1> QED BY <1>6, <1>9

-----------------------------------------------------------------------------
(* The advice.                                                             *)

LEMMA AtLeastOneIs ==
  ASSUME NEW n \in Int
  PROVE  AtLeastOne(n) = IF n >= 1 THEN n ELSE 1
<1> DEFINE m == IF n >= 1 THEN n ELSE 1
<1>1. m \in {1, n} /\ \A y \in {1, n} : m >= y
  OBVIOUS
<1>2. \A x \in {1, n} : (\A y \in {1, n} : x >= y) => x = m
  OBVIOUS
<1> HIDE DEF m
<1>3. Max({1, n}) = m
  BY <1>1, <1>2 DEF Max
<1> QED BY <1>3 DEF AtLeastOne, m

\* The budget never exceeds what was asked for, is never nothing, and is more
\* than one only where the machine has room for it.
LEMMA BudgetBound ==
  ASSUME NEW requested \in Nat \ {0}
  PROVE  LET b == ComputeConcurrencyBudget(Machine, requested, 0)
         IN  b \in Nat \ {0} /\ b <= requested /\ \A m \in 2..b : Fits(m)
<1> DEFINE cores == AtLeastOne(Machine.cpus)
           raw == AtLeastOne(cores - 1)
           mem == AtLeastOne(Machine.free \div Machine.worker)
           load == IF Machine.load > 0 THEN AtLeastOne(cores - Machine.load) ELSE raw
           asked == AtLeastOne(requested)
           Limits == {mem, raw, load, asked}
<1>0. /\ Machine.free \in Int /\ Machine.worker \in Nat \ {0}
      /\ Machine.cpus \in Nat /\ Machine.load \in Nat
  BY WorktreesAssumption
<1>1. Machine.free \div Machine.worker \in Int
  BY <1>0
<1>2. cores \in Nat \ {0}
  BY <1>0, AtLeastOneIs
<1>3. mem \in Nat \ {0}
  BY <1>1, AtLeastOneIs
<1>4. raw \in Nat \ {0}
  <2>1. cores - 1 \in Int
    BY <1>2
  <2> HIDE DEF cores
  <2> QED BY <2>1, AtLeastOneIs
<1>5. load \in Nat \ {0}
  <2>1. cores - Machine.load \in Int
    BY <1>0, <1>2
  <2> HIDE DEF cores
  <2> QED BY <1>4, <2>1, AtLeastOneIs
<1>6. asked = requested
  BY AtLeastOneIs
<1>12. mem = IF Machine.free \div Machine.worker >= 1 THEN Machine.free \div Machine.worker ELSE 1
  BY <1>1, AtLeastOneIs
<1>13. cores = IF Machine.cpus >= 1 THEN Machine.cpus ELSE 1
  BY <1>0, AtLeastOneIs
<1>14. raw = IF cores - 1 >= 1 THEN cores - 1 ELSE 1
  <2>1. cores - 1 \in Int
    BY <1>2
  <2> HIDE DEF cores
  <2> QED BY <2>1, AtLeastOneIs
<1>15. Machine.load > 0 => load = IF cores - Machine.load >= 1 THEN cores - Machine.load ELSE 1
  <2>1. cores - Machine.load \in Int
    BY <1>0, <1>2
  <2> HIDE DEF cores
  <2> QED BY <2>1, AtLeastOneIs
<1>16. ASSUME NEW m \in Nat, m >= 2, m <= mem, m <= raw, m <= load
       PROVE  Fits(m)
  <2> HIDE DEF cores, mem, raw, load
  <2>1. PICK q \in Int : q = Machine.free \div Machine.worker
    BY <1>1
  <2>2. m <= q
    BY <1>12, <1>16, <2>1
  <2>3. m < Machine.cpus /\ (Machine.load > 0 => m <= Machine.cpus - Machine.load)
    BY <1>0, <1>2, <1>13, <1>14, <1>15, <1>16
  <2> QED BY <2>1, <2>2, <2>3 DEF Fits
<1> HIDE DEF mem, raw, load, asked
<1>7. Limits \subseteq Nat \ {0} /\ Limits # {}
  BY <1>3, <1>4, <1>5, <1>6
<1>8. PICK x \in Limits : \A y \in Limits : x <= y
  <2>1. Limits \subseteq Nat
    BY <1>7
  <2> HIDE DEF Limits
  <2> QED BY <1>7, <2>1, NatMin
<1>9. asked \in Limits /\ mem \in Limits /\ raw \in Limits /\ load \in Limits
  OBVIOUS
<1>10. ComputeConcurrencyBudget(Machine, requested, 0) = Min(Limits)
  BY DEF ComputeConcurrencyBudget, mem, raw, load, asked
<1> HIDE DEF Limits
<1>11. Min(Limits) \in Limits /\ \A y \in Limits : Min(Limits) <= y
  BY <1>8 DEF Min
<1> DEFINE b == Min(Limits)
<1>17. b \in Nat \ {0} /\ b <= asked /\ b <= mem /\ b <= raw /\ b <= load
  BY <1>7, <1>9, <1>11
<1> HIDE DEF b
<1>18. ASSUME NEW m \in 2..b PROVE Fits(m)
  <2>1. m \in Nat /\ m >= 2 /\ m <= mem /\ m <= raw /\ m <= load
    BY <1>3, <1>4, <1>5, <1>17
  <2> QED BY <1>16, <2>1
<1>19. ComputeConcurrencyBudget(Machine, requested, 0) = b
  BY <1>10 DEF b
<1> QED BY <1>6, <1>17, <1>18, <1>19

\* What a call advises: never more than it was asked for or than the machine
\* has room for, and one where changes overlap and every repository has
\* worktrees.
LEMMA AdviceBound ==
  ASSUME NEW requested \in Nat \ {0}, OverlapCount \in Nat,
         NEW bound \in Nat, \A r \in Called : IsFiniteSet(Linked(r)) /\ Cardinality(Linked(r)) <= bound
  PROVE  /\ RecommendedParallelism(requested) \in Nat \ {0}
         /\ RecommendedParallelism(requested) <= requested
         /\ RecommendedParallelism(requested) = 1 \/ Fits(RecommendedParallelism(requested))
         /\ OverlapCount > 0 /\ (\A r \in Called : Linked(r) # {}) => RecommendedParallelism(requested) = 1
<1> DEFINE b == ComputeConcurrencyBudget(Machine, requested, 0)
           Sizes == {1} \cup {WaveSize(r, requested, OverlapCount) : r \in Called}
           n == Max(Sizes)
<1>1. b \in Nat \ {0} /\ b <= requested /\ \A m \in 2..b : Fits(m)
  BY BudgetBound
<1>2. ASSUME NEW r \in Called
      PROVE  /\ WaveSize(r, requested, OverlapCount) \in Nat
             /\ WaveSize(r, requested, OverlapCount) <= requested + bound + 1
             /\ OverlapCount > 0 /\ Linked(r) # {} => WaveSize(r, requested, OverlapCount) = 1
  <2>1. Cardinality(Linked(r)) \in Nat /\ Cardinality(Linked(r)) <= bound
    BY FS_CardinalityType
  <2>2. AtLeastOne(Cardinality(Linked(r))) = IF Cardinality(Linked(r)) >= 1 THEN Cardinality(Linked(r)) ELSE 1
    BY <2>1, AtLeastOneIs
  <2> QED BY <2>1, <2>2 DEF WaveSize
<1>3. Sizes \subseteq Nat /\ Sizes # {} /\ \A y \in Sizes : y <= requested + bound + 1
  BY <1>2
<1>4. n \in Sizes
  <2>1. requested + bound + 1 \in Nat
    OBVIOUS
  <2> HIDE DEF Sizes
  <2> QED BY <1>3, <2>1, BoundedMax
<1>5. OverlapCount > 0 /\ (\A r \in Called : Linked(r) # {}) => n = 1
  BY <1>2, <1>4
<1>6. n \in Nat
  BY <1>3, <1>4
<1> HIDE DEF b, n
<1>7. AtLeastOne(n) \in Nat \ {0} /\ (n = 1 => AtLeastOne(n) = 1)
  BY <1>6, AtLeastOneIs
<1>8. RecommendedParallelism(requested) = IF OverlapCount <= 0 \/ AtLeastOne(n) >= b THEN b ELSE AtLeastOne(n)
  BY DEF RecommendedParallelism, ApplyOverlapCap, b, n
<1> DEFINE a == RecommendedParallelism(requested)
<1>9. a \in Nat \ {0} /\ a <= b
  BY <1>1, <1>7, <1>8
<1>10. OverlapCount > 0 /\ (\A r \in Called : Linked(r) # {}) => a = 1
  BY <1>1, <1>5, <1>7, <1>8
<1> HIDE DEF a
<1>11. a = 1 \/ Fits(a)
  <2>1. a # 1 => a \in 2..b
    BY <1>1, <1>9
  <2> QED BY <1>1, <2>1
<1>12. a <= requested
  BY <1>1, <1>9
<1> QED BY <1>9, <1>10, <1>11, <1>12 DEF a

-----------------------------------------------------------------------------
\* git lists finitely many worktrees.
Listed == {p \in Paths : registered[p] = TRUE}
ListedOK == registered \in [Paths -> BOOLEAN] /\ IsFiniteSet(Listed)

\* A creation has one status for each repository it is done with.
Creating == {"item", "ls-remote", "fetch", "reused-local", "reused-remote", "created"}
Statuses == {"skipped-not-git", "skipped-exists", "reused-local", "reused-remote", "created"}
Counted ==
  call.kind = "create" =>
    /\ call.repos \in Seq(Repos) \ {<<>>} /\ call.status \in Seq(Statuses)
    /\ call.at \in Creating \cup {"env"} => call.i \in 1..Len(call.repos)
    /\ call.at \in Creating => Len(call.status) = call.i - 1
    /\ call.at = "env" => Len(call.status) = call.i
    /\ call.at = "advise" => Len(call.status) = Len(call.repos)

CInv == IsCall /\ ListedOK /\ Counted /\ Capped

LEMMA LinkedFinite ==
  ASSUME ListedOK, NEW r
  PROVE  /\ IsFiniteSet(Linked(r)) /\ Cardinality(Linked(r)) <= Cardinality(Listed)
         /\ Cardinality(Listed) \in Nat
<1>1. Linked(r) \in SUBSET Listed
  BY DEF Linked, Listed, ListedOK
<1> QED BY <1>1, FS_Subset, FS_CardinalityType DEF ListedOK

LEMMA NoCallOk == ASSUME call' = NoCall PROVE IsCall' /\ Counted' /\ Capped'
BY DEF NoCall, IsCall, Counted, Capped

\* A step that goes on with a call: the advice stays.
LEMMA GoesOn ==
  ASSUME CInv, IsCall', UNCHANGED <<call.advice, call.repos, call.overlaps, call.bare>>
  PROVE  Capped'
BY DEF CInv, Capped

LEMMA ListedStep ==
  ASSUME ListedOK,
         \/ UNCHANGED registered
         \/ \E p \in Paths : registered' = [registered EXCEPT ![p] = TRUE]
         \/ \E p \in Paths : registered' = [registered EXCEPT ![p] = FALSE]
  PROVE  ListedOK'
<1>1. CASE UNCHANGED registered
  BY <1>1 DEF ListedOK, Listed
<1>2. CASE \E p \in Paths : registered' = [registered EXCEPT ![p] = TRUE]
  <2>1. PICK p \in Paths : registered' = [registered EXCEPT ![p] = TRUE]
    BY <1>2
  <2>2. registered' \in [Paths -> BOOLEAN] /\ Listed' = Listed \cup {p}
    BY <2>1 DEF ListedOK, Listed
  <2> QED BY <2>2, FS_AddElement DEF ListedOK
<1>3. CASE \E p \in Paths : registered' = [registered EXCEPT ![p] = FALSE]
  <2>1. PICK p \in Paths : registered' = [registered EXCEPT ![p] = FALSE]
    BY <1>3
  <2>2. registered' \in [Paths -> BOOLEAN] /\ Listed' = Listed \ {p}
    BY <2>1 DEF ListedOK, Listed
  <2> QED BY <2>2, FS_RemoveElement DEF ListedOK
<1> QED BY <1>1, <1>2, <1>3

LEMMA InitCInv == Init => CInv
<1> SUFFICES ASSUME Init PROVE CInv
  OBVIOUS
<1>1. Listed = {}
  BY DEF Init, Listed
<1>2. ListedOK
  BY <1>1, FS_EmptySet DEF Init, ListedOK
<1> QED BY <1>2 DEF Init, NoCall, CInv, IsCall, Counted, Capped

\* The advice, from the worktrees as they are.
LEMMA AdviseStep == ASSUME CInv, Advise PROVE CInv'
<1> DEFINE n == Len(call.status)
<1>1. /\ call.kind = "create" /\ call.at = "advise"
      /\ call.repos \in Seq(Repos) \ {<<>>} /\ n = Len(call.repos) /\ n \in Nat \ {0}
  BY DEF Advise, At, CInv, Counted
<1>2. Called \in SUBSET Repos
  BY <1>1 DEF Called
<1>3. IsFiniteSet(Called)
  BY <1>2, FS_Subset, WorktreesAssumption
<1>4. \A r \in Called : IsFiniteSet(Linked(r)) /\ Cardinality(Linked(r)) <= Cardinality(Listed)
  BY LinkedFinite DEF CInv
<1>5. OverlapCount \in Nat
  BY <1>3, <1>4, OverlapType
<1>6. Cardinality(Listed) \in Nat
  BY LinkedFinite DEF CInv
<1> DEFINE advice == RecommendedParallelism(n)
           bare == {r \in Called : Linked(r) = {}}
<1> HIDE DEF n
<1>7. /\ advice <= n /\ (advice = 1 \/ Fits(advice))
      /\ OverlapCount > 0 /\ (\A r \in Called : Linked(r) # {}) => advice = 1
  BY <1>1, <1>4, <1>5, <1>6, AdviceBound
<1>8. bare = {} => \A r \in Called : Linked(r) # {}
  OBVIOUS
<1> HIDE DEF advice, bare
<1>9. \E todo : call' = [call EXCEPT !.at = "ports", !.i = 1, !.overlaps = OverlapCount,
                                   !.advice = advice, !.bare = bare, !.todo = todo]
  BY DEF Advise, advice, bare, n
<1>10. /\ IsCall' /\ call'.repos = call.repos /\ call'.kind = call.kind /\ call'.at = "ports"
       /\ call'.status = call.status
  BY <1>9 DEF CInv, IsCall
<1>11. call'.advice = advice /\ call'.overlaps = OverlapCount /\ call'.bare = bare
  BY <1>9 DEF CInv, IsCall
<1>12. Capped'
  BY <1>1, <1>7, <1>8, <1>10, <1>11 DEF Capped
<1>13. Counted'
  BY <1>10 DEF CInv, Counted, Creating
<1>14. ListedOK'
  BY ListedStep DEF Advise, git, CInv
<1> QED BY <1>10, <1>12, <1>13, <1>14 DEF CInv

\* The other steps of a creation.
LEMMA CreateStep ==
  ASSUME CInv, CreateOne \/ BranchExistsRemote \/ FetchBranch \/ AddWorktree \/ CopyEnvFiles
  PROVE  CInv'
<1>0. IsCall
  BY DEF CInv
<1>1. call.kind = "create" /\ call.at \in Creating \cup {"env"}
  BY DEF CreateOne, BranchExistsRemote, FetchBranch, AddWorktree, CopyEnvFiles, At, Creating
<1>2. /\ call.repos \in Seq(Repos) \ {<<>>} /\ call.status \in Seq(Statuses)
      /\ call.i \in 1..Len(call.repos)
      /\ call.at \in Creating => Len(call.status) = call.i - 1
      /\ call.at = "env" => Len(call.status) = call.i
  BY <1>1 DEF CInv, Counted
<1>3. ListedOK'
  <2>1. CASE UNCHANGED registered
    BY <2>1, ListedStep DEF CInv
  <2>2. CASE registered' = [registered EXCEPT ![Item] = TRUE]
    <3>1. CASE Item \in Paths
      BY <2>2, <3>1, ListedStep DEF CInv
    <3>2. CASE Item \notin Paths
      <4>1. registered' = registered
        BY <2>2, <3>2 DEF CInv, ListedOK
      <4> QED BY <4>1, ListedStep DEF CInv
    <3> QED BY <3>1, <3>2
  <2> QED BY <2>1, <2>2 DEF CreateOne, BranchExistsRemote, FetchBranch, AddWorktree, CopyEnvFiles, Add, git
<1>4. CASE call' = NoCall
  BY <1>3, <1>4, NoCallOk DEF CInv
<1> DEFINE Next0(at) == call' = [call EXCEPT !.at = at]
           Next1(s) == call' = [call EXCEPT !.status = Append(@, s), !.i = @ + 1,
                                            !.at = IF call.i = Len(call.repos) THEN "advise" ELSE "item"]
           Next2(s) == call' = [call EXCEPT !.at = "env", !.status = Append(@, s)]
           Next3 == call' = [call EXCEPT !.i = @ + 1,
                                         !.at = IF call.i = Len(call.repos) THEN "advise" ELSE "item"]
<1>5. ASSUME NEW at \in Creating, Next0(at), call.at \in Creating PROVE CInv'
  <2>1. /\ IsCall' /\ call'.at = at /\ call'.kind = call.kind /\ call'.repos = call.repos
        /\ call'.status = call.status /\ call'.i = call.i
        /\ call'.advice = call.advice /\ call'.overlaps = call.overlaps /\ call'.bare = call.bare
    BY <1>0, <1>5 DEF IsCall
  <2>2. Counted'
    BY <1>2, <1>5, <2>1 DEF Counted, Creating
  <2> QED BY <1>3, <2>1, <2>2, GoesOn DEF CInv
<1>6. ASSUME NEW s \in Statuses, Next1(s), call.at \in Creating PROVE CInv'
  <2>1. /\ IsCall' /\ call'.kind = call.kind /\ call'.repos = call.repos
        /\ call'.status = Append(call.status, s) /\ call'.i = call.i + 1
        /\ call'.at = IF call.i = Len(call.repos) THEN "advise" ELSE "item"
    BY <1>0, <1>6 DEF IsCall
  <2>2. call'.advice = call.advice /\ call'.overlaps = call.overlaps /\ call'.bare = call.bare
    BY <1>0, <1>6 DEF IsCall
  <2>4. Append(call.status, s) \in Seq(Statuses) /\ Len(Append(call.status, s)) = Len(call.status) + 1
    BY <1>2, <1>6
  <2>5. call'.status \in Seq(Statuses) /\ Len(call'.status) = call.i
    BY <1>2, <1>6, <2>1, <2>4
  <2>3. Counted'
    <3>1. CASE call.i = Len(call.repos)
      BY <1>2, <2>1, <2>5, <3>1 DEF Counted, Creating
    <3>2. CASE call.i # Len(call.repos)
      <4>1. call.i + 1 \in 1..Len(call.repos) /\ call'.i - 1 = call.i
        BY <1>2, <2>1, <3>2
      <4> QED BY <1>2, <2>1, <2>5, <3>2, <4>1 DEF Counted, Creating
    <3> QED BY <3>1, <3>2
  <2> QED BY <1>3, <2>1, <2>2, <2>3, GoesOn DEF CInv
<1>7. ASSUME NEW s \in Statuses, Next2(s), call.at \in Creating PROVE CInv'
  <2>1. /\ IsCall' /\ call'.kind = call.kind /\ call'.repos = call.repos
        /\ call'.status = Append(call.status, s) /\ call'.i = call.i /\ call'.at = "env"
    BY <1>0, <1>7 DEF IsCall
  <2>2. call'.advice = call.advice /\ call'.overlaps = call.overlaps /\ call'.bare = call.bare
    BY <1>0, <1>7 DEF IsCall
  <2>3. Counted'
    BY <1>2, <1>7, <2>1 DEF Counted, Creating
  <2> QED BY <1>3, <2>1, <2>2, <2>3, GoesOn DEF CInv
<1>8. ASSUME Next3, call.at = "env" PROVE CInv'
  <2>1. /\ IsCall' /\ call'.kind = call.kind /\ call'.repos = call.repos
        /\ call'.status = call.status /\ call'.i = call.i + 1
        /\ call'.at = IF call.i = Len(call.repos) THEN "advise" ELSE "item"
    BY <1>0, <1>8 DEF IsCall
  <2>2. call'.advice = call.advice /\ call'.overlaps = call.overlaps /\ call'.bare = call.bare
    BY <1>0, <1>8 DEF IsCall
  <2>3. Counted'
    BY <1>2, <1>8, <2>1 DEF Counted, Creating
  <2> QED BY <1>3, <2>1, <2>2, <2>3, GoesOn DEF CInv
<1>9. CASE CreateOne
  <2>1. call.at \in Creating
    BY <1>9 DEF CreateOne, At, Creating
  <2>2. \/ Next1("skipped-not-git") \/ Next1("skipped-exists")
        \/ Next0("reused-local") \/ Next0("ls-remote")
    BY <1>9 DEF CreateOne, NextItem, Goto
  <2> HIDE DEF Next0, Next1
  <2>3. "reused-local" \in Creating /\ "ls-remote" \in Creating
    BY DEF Creating
  <2>4. CASE Next1("skipped-not-git") \/ Next1("skipped-exists")
    BY <1>6, <2>1, <2>4 DEF Statuses
  <2>5. CASE Next0("reused-local") \/ Next0("ls-remote")
    BY <1>5, <2>1, <2>3, <2>5
  <2> QED BY <2>2, <2>4, <2>5
<1>10. CASE BranchExistsRemote
  <2>1. call.at \in Creating /\ (Next0("fetch") \/ Next0("created"))
    BY <1>10 DEF BranchExistsRemote, At, Creating, Goto
  <2> HIDE DEF Next0
  <2> QED BY <1>5, <2>1 DEF Creating
<1>11. CASE FetchBranch
  <2>1. call.at \in Creating /\ (Next0("reused-remote") \/ call' = NoCall)
    BY <1>11 DEF FetchBranch, At, Creating, Goto, Fails
  <2> HIDE DEF Next0
  <2> QED BY <1>4, <1>5, <2>1 DEF Creating
<1>12. CASE AddWorktree
  <2>1. call.at \in Creating /\ call.at \in Statuses
    BY <1>12 DEF AddWorktree, Creating, Statuses
  <2>2. Next2(call.at) \/ call' = NoCall
    BY <1>12 DEF AddWorktree, Fails
  <2> HIDE DEF Next2
  <2> QED BY <1>4, <1>7, <2>1, <2>2
<1>13. CASE CopyEnvFiles
  BY <1>8, <1>13 DEF CopyEnvFiles, At
<1> QED BY <1>9, <1>10, <1>11, <1>12, <1>13

\* The steps that give ports, or clean up, leave the creation's count.
LEMMA PortsCStep ==
  ASSUME CInv, ReadPort \/ AllocatePort \/ EndPorts \/ Cleanup \/ CleanupFails
  PROVE  CInv'
<1>0. IsCall
  BY DEF CInv
<1>1. ListedOK'
  <2>1. CASE UNCHANGED registered
    BY <2>1, ListedStep DEF CInv
  <2>2. CASE registered' = [registered EXCEPT ![Item] = FALSE]
    <3>1. CASE Item \in Paths
      BY <2>2, <3>1, ListedStep DEF CInv
    <3>2. CASE Item \notin Paths
      <4>1. registered' = registered
        BY <2>2, <3>2 DEF CInv, ListedOK
      <4> QED BY <4>1, ListedStep DEF CInv
    <3> QED BY <3>1, <3>2
  <2> QED BY <2>1, <2>2 DEF ReadPort, AllocatePort, EndPorts, Cleanup, CleanupFails, RemoveTree, git
<1>2. CASE call' = NoCall
  BY <1>1, <1>2, NoCallOk DEF CInv
<1>3. ASSUME IsCall', call'.kind = call.kind, call'.repos = call.repos, call'.status = call.status,
             call'.at \in {"ports", "probe"} \/ call.kind # "create",
             call'.advice = call.advice, call'.overlaps = call.overlaps, call'.bare = call.bare
      PROVE  CInv'
  <2>1. Counted'
    BY <1>3 DEF CInv, Counted, Creating
  <2> QED BY <1>1, <1>3, <2>1, GoesOn DEF CInv
<1>4. CASE ReadPort \/ AllocatePort
  <2>1. /\ IsCall' /\ call'.kind = call.kind /\ call'.repos = call.repos /\ call'.status = call.status
        /\ call'.at \in {"ports", "probe"}
    BY <1>0, <1>4 DEF IsCall, ReadPort, AllocatePort, Assign, AfterUsed, AfterTaken
  <2>2. call'.advice = call.advice /\ call'.overlaps = call.overlaps /\ call'.bare = call.bare
    BY <1>0, <1>4 DEF IsCall, ReadPort, AllocatePort, Assign, AfterUsed, AfterTaken
  <2> QED BY <1>3, <2>1, <2>2
<1>5. CASE EndPorts \/ CleanupFails
  BY <1>2, <1>5 DEF EndPorts, CleanupFails, Fails
<1>6. CASE Cleanup
  <2>1. CASE call' = [call EXCEPT !.i = @ + 1]
    <3>1. /\ IsCall' /\ call'.kind = call.kind /\ call'.repos = call.repos /\ call'.status = call.status
          /\ call'.advice = call.advice /\ call'.overlaps = call.overlaps /\ call'.bare = call.bare
      BY <1>0, <2>1 DEF IsCall
    <3>2. call.kind # "create"
      BY <1>6 DEF Cleanup, At
    <3> QED BY <1>3, <3>1, <3>2
  <2> QED BY <1>2, <1>6, <2>1 DEF Cleanup
<1> QED BY <1>4, <1>5, <1>6

LEMMA CallsCStep == ASSUME CInv, Calls PROVE CInv'
<1>0. IsCall
  BY DEF CInv
<1>1. ASSUME NEW kind, NEW t, NEW list \in RepoLists, Start(kind, t, list) PROVE CInv'
  <2>1. /\ IsCall' /\ call'.kind = kind /\ call'.repos = list /\ call'.status = <<>>
        /\ call'.i = 1 /\ call'.at \in {"item", "ports"} /\ call'.advice = 0
    BY <1>1 DEF Start, NoCall, IsCall
  <2>2. list \in Seq(Repos) \ {<<>>} /\ 1 \in 1..Len(list)
    BY <1>1, WorktreesAssumption
  <2>3. Counted' /\ Capped'
    BY <2>1, <2>2 DEF Counted, Capped, Creating
  <2>4. ListedOK'
    BY <1>1, ListedStep DEF Start, git, CInv
  <2> QED BY <2>1, <2>3, <2>4 DEF CInv
<1>2. ASSUME UNCHANGED call, ListedOK' PROVE CInv'
  BY <1>2 DEF CInv, IsCall, Counted, Capped
<1>3. ASSUME NEW p \in Cwd \X Tasks, CreateWorktree(p) PROVE CInv'
  <2>1. ListedOK'
    BY <1>3, ListedStep DEF CreateWorktree, Add, CInv, Paths
  <2> QED BY <1>2, <1>3, <2>1 DEF CreateWorktree
<1>4. ASSUME NEW p \in Paths, CleanupWorktree(p) PROVE CInv'
  <2>1. ListedOK'
    BY <1>4, ListedStep DEF CleanupWorktree, RemoveTree, CInv
  <2> QED BY <1>2, <1>4, <2>1 DEF CleanupWorktree
<1> QED BY <1>1, <1>3, <1>4 DEF Calls

LEMMA CInvStep == CInv /\ [Next]_vars => CInv'
<1> SUFFICES ASSUME CInv, [Next]_vars PROVE CInv'
  OBVIOUS
<1>1. CASE Tool
  BY <1>1, CreateStep, AdviseStep, PortsCStep DEF Tool
<1>2. CASE Calls
  BY <1>2, CallsCStep
<1>3. CASE Around \/ UNCHANGED vars
  <2>1. UNCHANGED registered /\ (UNCHANGED call \/ call' = NoCall)
    BY <1>3 DEF Around, Commit, Push, DeleteDir, Edit, Listen, Stop, Network, Crash, Fails, git, vars
  <2>2. ListedOK'
    BY <2>1, ListedStep DEF CInv
  <2>3. CASE UNCHANGED call
    BY <2>2, <2>3 DEF CInv, IsCall, Counted, Capped
  <2> QED BY <2>1, <2>2, <2>3, NoCallOk DEF CInv
<1> QED BY <1>1, <1>2, <1>3 DEF Next

\* What the tools say of working side by side is right, whatever worktrees,
\* branches and changes there are: the waves keep apart exactly the worktrees
\* that change a common file, and the advice follows the overlaps and fits the
\* machine.
THEOREM ParallelismIsSound == Spec => []ParallelismSound
<1>1. CInv => ParallelismSound
  <2> SUFFICES ASSUME CInv PROVE Waved(Observed)
    BY DEF CInv, ParallelismSound
  <2>1. Observed \in Seq(Items)
    BY LinkedFinite, ObservedType DEF CInv
  <2>2. Len(Observed) \in Nat /\ DOMAIN Observed = 1..Len(Observed)
    BY <2>1
  <2> QED BY <2>2, PartitionSound
<1> QED BY <1>1, InitCInv, CInvStep, PTL DEF Spec
=============================================================================
