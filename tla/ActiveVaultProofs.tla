------------------------- MODULE ActiveVaultProofs -------------------------
(***************************************************************************)
(* For any parches, folders, commands and failures: two parches come to    *)
(* share a folder only when it is the default folder of one of them, and   *)
(* what a command has bound is what is synced (at the end).                *)
(*                                                                         *)
(* OneParchePerFolder is not inductive: a join and a link check the folder *)
(* and write the credential later.  Checked says that what they checked    *)
(* still holds when they write, for no other command runs between the two. *)
(***************************************************************************)
EXTENDS ActiveVault, TLAPS

USE ActiveVaultAssumption, NoVault

IsCall(c) == c = [op |-> c.op, slug |-> c.slug, folder |-> c.folder, scope |-> c.scope,
                  inside |-> c.inside, yes |-> c.yes, pc |-> c.pc]

Typed ==
  /\ cred \in [Slug -> Folder \cup {Null}]
  /\ call # Null => IsCall(call) /\ call.slug \in Slug /\ call.folder \in Folder

Checked ==
  call # Null /\ call.pc = "cred" =>
    \A t \in Slug \ {call.slug} :
      cred[t] = call.folder => call.folder = DefaultFolder[call.slug]

FInv == Typed /\ Checked /\ OneParchePerFolder

LEMMA InitFInv == Init => FInv
BY DEF Init, FInv, Typed, Checked, OneParchePerFolder, Known

\* A step that leaves the credentials alone, and ends the command or takes it
\* past its check.
LEMMA PastStep ==
  ASSUME FInv, UNCHANGED cred,
         \/ call' = call
         \/ call' = Null
         \/ /\ call # Null /\ call'.pc # "cred"
            /\ call' = [call EXCEPT !.pc = call'.pc]
  PROVE  FInv'
<1>1. CASE call' = call \/ call' = Null
  BY <1>1 DEF FInv, Typed, Checked, OneParchePerFolder, Known, IsCall
<1>2. CASE /\ call # Null /\ call'.pc # "cred"
           /\ call' = [call EXCEPT !.pc = call'.pc]
  <2>1. IsCall(call')
    BY <1>2 DEF FInv, Typed, IsCall
  <2>2. call'.slug = call.slug /\ call'.folder = call.folder
    BY <1>2 DEF FInv, Typed, IsCall
  <2> QED BY <1>2, <2>1, <2>2 DEF FInv, Typed, Checked, OneParchePerFolder, Known
<1> QED BY <1>1, <1>2

\* A command that starts with a folder it may have.
LEMMA StartStep ==
  ASSUME FInv, UNCHANGED cred, NEW op, NEW pc, NEW s \in Slug, NEW f \in Folder,
         NEW scope, NEW inside, NEW yes, Start(op, pc, s, f, scope, inside, yes),
         pc = "cred" => \A t \in Slug \ {s} : cred[t] = f => f = DefaultFolder[s]
  PROVE  FInv'
<1>1. /\ IsCall(call') /\ call'.slug = s /\ call'.folder = f /\ call'.pc = pc
  BY DEF Start, IsCall
<1> QED BY <1>1 DEF FInv, Typed, Checked, OneParchePerFolder, Known

LEMMA JoinStep ==
  ASSUME FInv, NEW s \in Slug, NEW dir \in Folder \cup {Null}, NEW scope \in Scope,
         NEW inside, NEW yes, NewJoin(s, dir, scope, inside, yes)
  PROVE  FInv'
<1> DEFINE into == JoinDir(dir, scope)
           f == IF into = Null THEN DefaultFolder[s] ELSE into
<1>1. into \in Folder \cup {Null} /\ f \in Folder
  BY DEF JoinDir
<1>2. \A t \in Slug \ {s} : cred[t] = f => f = DefaultFolder[s]
  <2>1. CASE into = Null
    BY <2>1
  <2>2. CASE into # Null
    BY <2>2 DEF NewJoin, LinkedTo
  <2> QED BY <2>1, <2>2
<1>3. Start("join", "cred", s, f, scope, inside, yes) /\ UNCHANGED cred
  BY DEF NewJoin
<1> QED BY <1>1, <1>2, <1>3, StartStep

LEMMA CommandStep ==
  ASSUME FInv, NEW s \in Slug, NEW dir \in Folder \cup {Null}, NEW inside, NEW yes,
         \/ ResumeJoin(s, dir, inside) \/ Resync(s, inside, yes)
         \/ dir # Null /\ Link(s, dir, inside, yes)
  PROVE  FInv'
<1>1. CASE ResumeJoin(s, dir, inside)
  <2>1. cred[s] \in Folder
    BY <1>1 DEF ResumeJoin, Resumes, Waits, Known, FInv, Typed
  <2> QED BY <1>1, <2>1, StartStep DEF ResumeJoin, files
<1>2. CASE Resync(s, inside, yes)
  <2>1. cred[s] \in Folder
    BY <1>2 DEF Resync, Known, FInv, Typed
  <2> DEFINE pc == IF Pending(cred[s]) THEN "gate" ELSE "reset"
  <2>2. Start("resync", pc, s, cred[s], "global", inside, yes) /\ UNCHANGED cred
    BY <1>2 DEF Resync, files
  <2>3. pc # "cred"
    OBVIOUS
  <2> HIDE DEF pc
  <2> QED BY <2>1, <2>2, <2>3, StartStep
<1>3. CASE dir # Null /\ Link(s, dir, inside, yes)
  <2>1. CASE UNCHANGED call
    BY <1>3, <2>1, PastStep DEF Link
  <2>2. CASE Start("link", "cred", s, dir, "global", inside, yes)
    <3>1. \A t \in Slug \ {s} : cred[t] # dir
      BY <1>3 DEF Link, LinkedTo
    <3> QED BY <1>3, <2>2, <3>1, StartStep DEF Link
  <2> QED BY <1>3, <2>1, <2>2 DEF Link
<1> QED BY <1>1, <1>2, <1>3

\* The credential is written: whoever has that folder already shares it by
\* default.
LEMMA WriteCredStep ==
  ASSUME FInv, WriteCred
  PROVE  FInv'
<1>1. /\ call # Null /\ call.pc = "cred" /\ IsCall(call)
      /\ call.slug \in Slug /\ call.folder \in Folder
      /\ call' = [call EXCEPT !.pc = "reset"]
      /\ cred' = [cred EXCEPT ![call.slug] = call.folder]
  BY DEF WriteCred, At, Goto, FInv, Typed
<1>2. call'.pc = "reset" /\ IsCall(call') /\ call'.slug = call.slug /\ call'.folder = call.folder
  BY <1>1 DEF IsCall
<1>3. Typed' /\ Checked'
  BY <1>1, <1>2 DEF FInv, Typed, Checked
<1>4. OneParchePerFolder'
  <2> SUFFICES ASSUME NEW s \in Slug, NEW t \in Slug, s # t, cred'[s] # Null, cred'[s] = cred'[t]
               PROVE  cred'[s] \in {DefaultFolder[s], DefaultFolder[t]}
    BY DEF OneParchePerFolder, Known
  <2>1. CASE s = call.slug
    BY <1>1, <2>1 DEF FInv, Typed, Checked
  <2>2. CASE t = call.slug
    BY <1>1, <2>2 DEF FInv, Typed, Checked
  <2>3. CASE s # call.slug /\ t # call.slug
    BY <1>1, <2>3 DEF FInv, Typed, OneParchePerFolder, Known
  <2> QED BY <2>1, <2>2, <2>3
<1> QED BY <1>3, <1>4 DEF FInv

LEMMA LeaveStep ==
  ASSUME FInv, NEW s \in Slug, Leave(s)
  PROVE  FInv'
BY DEF Leave, MayStart, FInv, Typed, Checked, OneParchePerFolder, Known

\* The other steps neither check nor write a credential.
LEMMA AsideStep ==
  ASSUME FInv,
         \/ Reset \/ Gate \/ Clear \/ FirstSync \/ BindJoin \/ BindLink \/ Fail
         \/ \E inside \in BOOLEAN : AutoSync(inside)
         \/ \E scope \in Scope, inside \in BOOLEAN : Unlink(scope, inside)
         \/ \E f \in Folder : RemoveFolder(f)
         \/ \E b : PullBinding(b)
         \/ UNCHANGED vars
  PROVE  FInv'
<1>1. ASSUME NEW pc, At("reset") \/ At("gate") \/ At("clear") \/ At("sync"), Goto(pc), pc # "cred"
      PROVE  call # Null /\ call'.pc # "cred" /\ call' = [call EXCEPT !.pc = call'.pc]
  <2>1. call # Null /\ IsCall(call)
    BY <1>1 DEF At, FInv, Typed
  <2> QED BY <1>1, <2>1 DEF Goto, IsCall
<1>2. CASE Reset
  BY <1>1, <1>2, PastStep DEF Reset
<1>3. CASE Gate
  <2>1. Goto("clear") \/ Goto("bind") \/ call' = Null
    BY <1>3 DEF Gate
  <2> QED BY <1>1, <1>3, <2>1, PastStep DEF Gate, files
<1>4. CASE Clear
  BY <1>1, <1>4, PastStep DEF Clear
<1>5. CASE FirstSync
  <2>1. Goto("bind") \/ call' = Null
    BY <1>5 DEF FirstSync
  <2> QED BY <1>1, <1>5, <2>1, PastStep DEF FirstSync
<1>6. CASE BindJoin \/ BindLink \/ Fail
  BY <1>6, PastStep DEF BindJoin, BindLink, Fail, Ended, files
<1>7. CASE \/ \E inside \in BOOLEAN : AutoSync(inside)
           \/ \E scope \in Scope, inside \in BOOLEAN : Unlink(scope, inside)
  BY <1>7, PastStep DEF AutoSync, Unlink
<1>8. CASE \/ \E f \in Folder : RemoveFolder(f)
           \/ \E b : PullBinding(b)
  BY <1>8, PastStep DEF RemoveFolder, PullBinding
<1>9. CASE UNCHANGED vars
  BY <1>9, PastStep DEF vars
<1> QED BY <1>2, <1>3, <1>4, <1>5, <1>6, <1>7, <1>8, <1>9

LEMMA NextFInv == FInv /\ [Next]_vars => FInv'
<1> SUFFICES ASSUME FInv, [Next]_vars PROVE FInv'
  OBVIOUS
<1>1. ASSUME NEW s \in Slug, NEW inside \in BOOLEAN, NEW yes \in BOOLEAN,
             NEW dir \in Folder \cup {Null}, NEW scope \in Scope,
             CliJoin(s, dir, scope, inside, yes) \/ ToolJoin(s, dir, scope, inside, yes)
      PROVE  FInv'
  BY <1>1, JoinStep DEF CliJoin, ToolJoin
<1>2. ASSUME NEW s \in Slug, NEW inside \in BOOLEAN, NEW yes \in BOOLEAN,
             \/ \E dir \in Folder \cup {Null} : ResumeJoin(s, dir, inside)
             \/ \E f \in Folder : Link(s, f, inside, yes)
             \/ Resync(s, inside, yes)
      PROVE  FInv'
  BY <1>2, CommandStep
<1>3. CASE \/ \E s \in Slug : PullBinding([slug |-> s, folder |-> WsVault])
           \/ PullBinding(Invalid)
  BY <1>3, AsideStep
<1>4. CASE \/ Reset \/ Gate \/ Clear \/ FirstSync \/ BindJoin \/ BindLink \/ Fail
           \/ \E inside \in BOOLEAN : AutoSync(inside)
           \/ \E scope \in Scope, inside \in BOOLEAN : Unlink(scope, inside)
           \/ \E f \in Folder : RemoveFolder(f)
           \/ UNCHANGED vars
  BY <1>4, AsideStep
<1> QED BY <1>1, <1>2, <1>3, <1>4, WriteCredStep, LeaveStep DEF Next

\* Two parches never write into one folder, whatever commands, failures and
\* deletions came before, unless it is the default folder of one of them.
THEOREM FoldersApart == Spec => []OneParchePerFolder
<1>1. FInv => OneParchePerFolder
  BY DEF FInv
<1> QED BY <1>1, InitFInv, NextFInv, PTL DEF Spec

-----------------------------------------------------------------------------
(* What a command leaves is what is followed.                              *)

Shapes == /\ state = [f \in Folder |-> state[f]]
          /\ binding \in [Scope -> Vault \cup {Null, Invalid}]

\* A command past the credential has it written, and one about to bind has
\* synced its folder, unless it was not confirmed.
OnItsWay ==
  call # Null =>
    /\ call.scope \in Scope
    /\ call.pc # "cred" => cred[call.slug] = call.folder
    /\ call.pc = "bind" /\ (call.yes \/ call.op = "link") => ~Pending(call.folder)

\* Nothing changes between the end of a command and the next.
Followed ==
  last # Null =>
    /\ call = Null
    /\ last.slug \in Slug /\ last.folder \in Folder /\ last.scope \in Scope
    /\ cred[last.slug] = last.folder
    /\ last.yes => ~Pending(last.folder)
    /\ last.op = "join" => binding[last.scope] = VaultOf(last.slug)
    /\ last.op = "link" => \A sc \in Scope :
         Names(sc, last.slug) /\ ScopeFits(sc, last.inside) => binding[sc] = VaultOf(last.slug)

LInv == Shapes /\ OnItsWay /\ Followed

LEMMA InitLInv == Init => LInv
BY DEF Init, LInv, Shapes, OnItsWay, Followed, Scope

\* What a step of the command that runs keeps of it.
LEMMA GotoKeeps ==
  ASSUME FInv, NEW pc, call # Null, Goto(pc)
  PROVE  /\ call' # Null => call'.pc = pc
         /\ call'.slug = call.slug /\ call'.folder = call.folder /\ call'.scope = call.scope
         /\ call'.yes = call.yes /\ call'.op = call.op
<1>1. IsCall(call) /\ call' = [call EXCEPT !.pc = pc]
  BY DEF FInv, Typed, Goto
<1> QED BY <1>1 DEF IsCall

LEMMA StartLInv ==
  ASSUME LInv, MayStart, UNCHANGED <<cred, state, binding>>,
         NEW op, NEW pc, NEW s \in Slug, NEW f \in Folder, NEW scope \in Scope,
         NEW inside, NEW yes, Start(op, pc, s, f, scope, inside, yes),
         pc # "bind", pc # "cred" => cred[s] = f
  PROVE  LInv'
<1>1. /\ call'.pc = pc /\ call'.slug = s /\ call'.folder = f /\ call'.scope = scope
      /\ last' = Null
  BY DEF Start, MayStart
<1> QED BY <1>1 DEF LInv, Shapes, OnItsWay, Followed

\* Between commands the files change as the user wants, and the last command
\* is no longer looked at.
LEMMA FreeLInv ==
  ASSUME LInv, Shapes', call' = Null, last' = Null
  PROVE  LInv'
BY DEF LInv, OnItsWay, Followed

LEMMA CommandLInv ==
  ASSUME FInv, LInv, NEW s \in Slug, NEW inside, NEW yes,
         \/ \E dir \in Folder \cup {Null}, scope \in Scope :
              CliJoin(s, dir, scope, inside, yes) \/ ToolJoin(s, dir, scope, inside, yes)
         \/ \E dir \in Folder \cup {Null} : ResumeJoin(s, dir, inside)
         \/ \E f \in Folder : Link(s, f, inside, yes)
         \/ Resync(s, inside, yes)
  PROVE  LInv'
<1>1. ASSUME NEW dir \in Folder \cup {Null}, NEW scope \in Scope,
             CliJoin(s, dir, scope, inside, yes) \/ ToolJoin(s, dir, scope, inside, yes)
      PROVE  LInv'
  <2> DEFINE into == JoinDir(dir, scope)
             f == IF into = Null THEN DefaultFolder[s] ELSE into
  <2>1. f \in Folder
    BY DEF JoinDir
  <2>2. MayStart /\ Start("join", "cred", s, f, scope, inside, yes)
        /\ UNCHANGED <<cred, state, binding>>
    BY <1>1 DEF CliJoin, ToolJoin, NewJoin
  <2> HIDE DEF f
  <2> QED BY <2>1, <2>2, StartLInv
<1>2. ASSUME NEW dir \in Folder \cup {Null}, ResumeJoin(s, dir, inside) PROVE LInv'
  <2>1. cred[s] \in Folder
    BY <1>2 DEF ResumeJoin, Resumes, Waits, Known, FInv, Typed
  <2> QED BY <1>2, <2>1, StartLInv DEF ResumeJoin, files, Scope
<1>3. ASSUME NEW f \in Folder, Link(s, f, inside, yes) PROVE LInv'
  <2>1. CASE UNCHANGED call
    <3>1. Shapes' /\ call' = Null /\ last' = Null
      BY <1>3, <2>1 DEF Link, MayStart, LInv, Shapes
    <3> QED BY <3>1, FreeLInv
  <2>2. CASE Start("link", "cred", s, f, "global", inside, yes)
    BY <1>3, <2>2, StartLInv DEF Link, Scope
  <2> QED BY <1>3, <2>1, <2>2 DEF Link
<1>4. CASE Resync(s, inside, yes)
  <2> DEFINE pc == IF Pending(cred[s]) THEN "gate" ELSE "reset"
  <2>1. cred[s] \in Folder /\ pc \notin {"bind", "cred"}
    BY <1>4 DEF Resync, Known, FInv, Typed
  <2>2. MayStart /\ Start("resync", pc, s, cred[s], "global", inside, yes)
        /\ UNCHANGED <<cred, state, binding>>
    BY <1>4 DEF Resync, files
  <2> HIDE DEF pc
  <2> QED BY <2>1, <2>2, StartLInv DEF Scope
<1> QED BY <1>1, <1>2, <1>3, <1>4

LEMMA OutsideLInv ==
  ASSUME FInv, LInv,
         \/ \E s \in Slug : Leave(s)
         \/ \E scope \in Scope, inside \in BOOLEAN : Unlink(scope, inside)
         \/ \E f \in Folder : RemoveFolder(f)
         \/ \E b \in Vault \cup {Invalid} : PullBinding(b)
         \/ Fail
         \/ UNCHANGED vars
  PROVE  LInv'
<1>1. CASE \/ \E s \in Slug : Leave(s)
           \/ \E scope \in Scope, inside \in BOOLEAN : Unlink(scope, inside)
  <2>1. Shapes' /\ call' = Null /\ last' = Null
    BY <1>1 DEF Leave, Unlink, MayStart, LInv, Shapes
  <2> QED BY <2>1, FreeLInv
<1>2. CASE \/ \E f \in Folder : RemoveFolder(f)
           \/ \E b \in Vault \cup {Invalid} : PullBinding(b)
  <2>1. Shapes' /\ last' = Null /\ UNCHANGED <<call, cred>>
    BY <1>2 DEF RemoveFolder, PullBinding, LInv, Shapes
  <2>2. \A f \in Folder : Pending(f)' => Pending(f)
    BY <1>2 DEF RemoveFolder, PullBinding, Pending, LInv, Shapes
  <2>3. call # Null => call.folder \in Folder
    BY DEF FInv, Typed
  <2>4. OnItsWay'
    BY <2>1, <2>2, <2>3 DEF LInv, OnItsWay
  <2> QED BY <2>1, <2>4 DEF LInv, Followed
<1>3. CASE Fail
  BY <1>3 DEF Fail, files, LInv, Shapes, OnItsWay, Followed
<1>4. CASE UNCHANGED vars
  BY <1>4 DEF vars, LInv, Shapes, OnItsWay, Followed, Pending, Names, VaultOf
<1> QED BY <1>1, <1>2, <1>3, <1>4

\* A sync never flags a folder.
LEMMA SyncLInv ==
  ASSUME LInv, NEW inside, AutoSync(inside)
  PROVE  LInv'
<1>1. Shapes' /\ UNCHANGED <<cred, binding, call, last>>
  BY DEF AutoSync, Synced, LInv, Shapes
<1>2. \A f : Pending(f)' => Pending(f)
  BY DEF AutoSync, Synced, Pending, LInv, Shapes
<1> QED BY <1>1, <1>2 DEF LInv, OnItsWay, Followed, Names, VaultOf

LEMMA PastLInv ==
  ASSUME FInv, LInv, WriteCred \/ Reset \/ Gate \/ Clear
  PROVE  LInv'
<1>1. /\ call # Null /\ last' = last /\ binding' = binding
      /\ call.slug \in Slug /\ call.folder \in Folder /\ call.scope \in Scope
  BY DEF WriteCred, Reset, Gate, Clear, At, files, FInv, LInv, Typed, OnItsWay
<1>2. Shapes' /\ Followed'
  BY <1>1 DEF WriteCred, Reset, Gate, Clear, files, LInv, Shapes, Followed
<1>3. OnItsWay'
  <2>1. CASE WriteCred
    <3>1. Goto("reset") /\ cred' = [cred EXCEPT ![call.slug] = call.folder]
      BY <2>1 DEF WriteCred
    <3> QED BY <1>1, <3>1, GotoKeeps DEF OnItsWay, FInv, Typed
  <2>2. CASE Reset
    <3>1. Goto("gate") /\ cred' = cred /\ call.pc = "reset"
      BY <2>2 DEF Reset, At
    <3> QED BY <1>1, <3>1, GotoKeeps DEF OnItsWay, LInv
  <2>3. CASE Gate
    <3>1. /\ cred' = cred /\ call.pc = "gate"
          /\ \/ Goto("clear") \/ call' = Null
             \/ ~call.yes /\ call.op = "join" /\ Goto("bind")
      BY <2>3 DEF Gate, At, files
    <3> QED BY <1>1, <3>1, GotoKeeps DEF OnItsWay, LInv
  <2>4. CASE Clear
    <3>1. Goto("sync") /\ cred' = cred /\ call.pc = "clear"
      BY <2>4 DEF Clear, At
    <3> QED BY <1>1, <3>1, GotoKeeps DEF OnItsWay, LInv
  <2> QED BY <2>1, <2>2, <2>3, <2>4
<1> QED BY <1>2, <1>3 DEF LInv

\* The sync goes on only in a folder that is not flagged.
LEMMA FirstSyncLInv ==
  ASSUME FInv, LInv, FirstSync
  PROVE  LInv'
<1>1. /\ call # Null /\ call.pc = "sync" /\ UNCHANGED <<cred, binding, last>>
      /\ call.slug \in Slug /\ call.folder \in Folder /\ call.scope \in Scope
  BY DEF FirstSync, At, FInv, LInv, Typed, OnItsWay
<1>2. Shapes'
  BY <1>1 DEF FirstSync, Synced, LInv, Shapes
<1>3. \/ call' = Null
      \/ Goto("bind") /\ ~Pending(call.folder) /\ state' = Synced(call.folder, call.slug)
  BY DEF FirstSync
<1>4. state' = Synced(call.folder, call.slug) /\ ~Pending(call.folder) =>
        ~(state'[call.folder] # Null /\ state'[call.folder].pending)
  BY <1>1 DEF Synced, Pending, LInv, Shapes
<1>5. OnItsWay'
  <2>1. CASE call' = Null
    BY <2>1 DEF OnItsWay
  <2>2. CASE Goto("bind") /\ ~Pending(call.folder) /\ state' = Synced(call.folder, call.slug)
    BY <1>1, <1>4, <2>2, GotoKeeps DEF OnItsWay, LInv, Pending
  <2> QED BY <1>3, <2>1, <2>2
<1> QED BY <1>1, <1>2, <1>5 DEF LInv, Followed

LEMMA BindLInv ==
  ASSUME FInv, LInv, BindJoin \/ BindLink
  PROVE  LInv'
<1>0. PICK c : c = call
  OBVIOUS
<1>1. /\ call # Null /\ call.pc = "bind" /\ UNCHANGED <<cred, state>>
      /\ call' = Null /\ last' = c
      /\ c.slug \in Slug /\ c.folder \in Folder /\ c.scope \in Scope
      /\ cred[c.slug] = c.folder
      /\ c.yes \/ c.op = "link" => ~Pending(c.folder)
  BY <1>0 DEF BindJoin, BindLink, Ended, At, FInv, LInv, Typed, OnItsWay
<1>2. Shapes' /\ OnItsWay'
  <2>1. VaultOf(c.slug) \in Vault
    BY <1>1 DEF VaultOf, Vault
  <2> QED BY <1>0, <1>1, <2>1 DEF BindJoin, BindLink, LInv, Shapes, OnItsWay
<1>3. c.op = "join" => binding'[c.scope] = VaultOf(c.slug)
  BY <1>0, <1>1 DEF BindJoin, BindLink, LInv, Shapes
<1>4. c.op = "link" => \A sc \in Scope :
        Names(sc, c.slug)' /\ ScopeFits(sc, c.inside) => binding'[sc] = VaultOf(c.slug)
  <2> SUFFICES ASSUME BindLink, NEW sc \in Scope, Names(sc, c.slug)', ScopeFits(sc, c.inside)
               PROVE  binding'[sc] = VaultOf(c.slug)
    BY <1>0 DEF BindJoin
  <2>1. CASE Names(sc, c.slug)
    BY <1>0, <2>1 DEF BindLink
  <2>2. CASE ~Names(sc, c.slug)
    <3>1. binding'[sc] = binding[sc]
      BY <1>0, <2>2 DEF BindLink
    <3> QED BY <2>2, <3>1 DEF Names
  <2> QED BY <2>1, <2>2
<1>5. VaultOf(c.slug)' = VaultOf(c.slug)
  BY <1>1 DEF VaultOf
<1>6. Followed'
  BY <1>1, <1>3, <1>4, <1>5 DEF Followed, Pending, Names, VaultOf
<1> QED BY <1>2, <1>6 DEF LInv

LEMMA NextLInv == FInv /\ LInv /\ [Next]_vars => LInv'
<1> SUFFICES ASSUME FInv, LInv, [Next]_vars PROVE LInv'
  OBVIOUS
<1>1. CASE \/ \E s \in Slug : PullBinding([slug |-> s, folder |-> WsVault])
           \/ PullBinding(Invalid)
  <2>1. \A s \in Slug : [slug |-> s, folder |-> WsVault] \in Vault
    BY DEF Vault
  <2> QED BY <1>1, <2>1, OutsideLInv
<1> QED BY <1>1, CommandLInv, OutsideLInv, SyncLInv, PastLInv, FirstSyncLInv, BindLInv DEF Next

LEMMA FollowedIs == LInv => CommandIsFollowed
<1> SUFFICES ASSUME LInv, last # Null, last.yes, last.folder \in dirs
             PROVE  LET v == [slug |-> last.slug, folder |-> last.folder]
                    IN  /\ last.op = "join" /\ last.scope = "workspace" => ActiveParcheVault(TRUE) = v
                        /\ last.op = "join" /\ last.scope = "global" /\ EnvPath = Null
                             => ActiveParcheVault(FALSE) = v
                        /\ \A sc \in Scope :
                             last.op = "link" /\ Names(sc, last.slug) /\ ScopeFits(sc, last.inside)
                               => FromBinding(binding[sc]) = v
  BY DEF CommandIsFollowed
<1> DEFINE v == VaultOf(last.slug)
<1>1. /\ cred[last.slug] = last.folder /\ ~Pending(last.folder) /\ last.scope \in Scope
      /\ last.slug \in Slug /\ last.folder \in Folder
  BY DEF LInv, Followed
<1>2. v = [slug |-> last.slug, folder |-> last.folder] /\ v \in Vault
  BY <1>1 DEF VaultOf, Vault
<1>3. v.slug = last.slug /\ v.folder = last.folder /\ v # Null /\ v # Invalid
  BY <1>2
<1> HIDE DEF v
<1>4. FromBinding(v) = v
  <2>1. Known(last.slug)
    BY <1>1 DEF Known
  <2> QED BY <1>1, <1>3, <2>1 DEF FromBinding, v
<1>5. last.op = "join" => binding[last.scope] = v
  BY DEF LInv, Followed, v
<1>6. last.op = "join" /\ last.scope = "workspace" => ActiveParcheVault(TRUE) = v
  BY <1>3, <1>4, <1>5 DEF ActiveParcheVault
<1>7. last.op = "join" /\ last.scope = "global" /\ EnvPath = Null => ActiveParcheVault(FALSE) = v
  BY <1>3, <1>4, <1>5 DEF ActiveParcheVault
<1>8. \A sc \in Scope :
        last.op = "link" /\ Names(sc, last.slug) /\ ScopeFits(sc, last.inside)
          => FromBinding(binding[sc]) = v
  BY <1>4 DEF LInv, Followed, v
<1> QED BY <1>2, <1>6, <1>7, <1>8

\* For any parches, folders, commands, failures and changes from outside: what
\* a join or a link has bound, once its upload was confirmed, is what autosync
\* resolves (persistBindingAfterJoin, updateBindingVaultDirForSlug,
\* resolveActiveParcheVaultFull).
THEOREM BoundIsFollowed == Spec => []CommandIsFollowed
<1> QED BY FollowedIs, InitFInv, NextFInv, InitLInv, NextLInv, PTL DEF Spec

\* For the same: where a workspace names its parche, what autosync resolves is
\* that binding or nothing (resolveActiveParcheVaultFull).
THEOREM WorkspaceIsKept == Spec => []WorkspaceKeepsItsParche
<1>1. LInv => WorkspaceKeepsItsParche
  <2> SUFFICES ASSUME LInv, binding["workspace"] # Null, ActiveParcheVault(TRUE) # Null
               PROVE  binding["workspace"] = ActiveParcheVault(TRUE)
    BY DEF WorkspaceKeepsItsParche
  <2> DEFINE b == binding["workspace"]
  <2>1. b \in Vault \cup {Invalid}
    BY DEF LInv, Shapes, Scope
  <2> HIDE DEF b
  <2>2. ActiveParcheVault(TRUE) = FromBinding(b)
    BY DEF ActiveParcheVault, b
  <2>3. b # Invalid /\ cred[b.slug] = b.folder /\ FromBinding(b) = VaultOf(b.slug)
    BY <2>2 DEF FromBinding
  <2>4. b = [slug |-> b.slug, folder |-> b.folder]
    BY <2>1, <2>3 DEF Vault
  <2> QED BY <2>2, <2>3, <2>4 DEF VaultOf, b
<1> QED BY <1>1, InitFInv, NextFInv, InitLInv, NextLInv, PTL DEF Spec
=============================================================================
