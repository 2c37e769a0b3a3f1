---------------------------- MODULE VaultTopics ----------------------------
(***************************************************************************)
(* The tools that change a vault's vocabulary and the topics of its notes: *)
(* chamba_vault_topics (mcp/src/tools/vault-topics.ts over topics.ts),     *)
(* chamba_vault_classify (vault-classify.ts over classify.ts) and the      *)
(* notes chamba writes (core/src/obsidian/vault-writer.ts), beside a user  *)
(* who edits the same files in Obsidian.                                   *)
(*                                                                         *)
(* Reading, changing and writing one file is one step; a promote and a     *)
(* classification go file by file, and the server may stop between two.    *)
(* Every tool shows its result (dryRun) and writes nothing unless told to; *)
(* the steps below are the calls with dryRun: false.                       *)
(***************************************************************************)
EXTENDS KnowledgeGraph

CONSTANTS
  Note,         \* numbers, in the order of their paths
  ToolNote,     \* the paths where chamba writes notes
  FirstLines,   \* the vocabulary at the start
  Applied,      \* vocabularies an apply may write
  Wanted,       \* topics the tools are called with
  Quoted,       \* what the description of a new topic may quote; <<>> is nothing
  EditDuringCall, \* whether the user edits topics while a promote or a classification runs
  MaxCalls, MaxEdits   \* tool calls and user edits (bounds)

ASSUME VaultTopicsAssumption ==
  /\ Note \subseteq Nat /\ ToolNote \subseteq Note
  /\ FirstLines \in Seq(Line) /\ Applied \subseteq Seq(Line)
  /\ Wanted \subseteq Topic /\ Quoted \subseteq Topic \cup {<<>>}
  /\ EditDuringCall \in BOOLEAN /\ MaxCalls \in Nat /\ MaxEdits \in Nat

ASSUME FoldersAssumption == FolderOf \in [Note -> Seq(Name)]

VARIABLES
  doc,   \* the entry lines of VOCABULARIO.md
  note,  \* note[n]: its topics, or Absent
  call,  \* the tool call that is under way
  calls, edits

vars == <<doc, note, call, calls, edits>>

\* body counts the versions of the text, mine is `source: chamba`, links are
\* the notes in its `related`.
NoteState == [tags: SUBSET Topic, prop: SUBSET Topic, links: SUBSET Note,
              body: Nat, mine: BOOLEAN]
Absent == [tags |-> {}, prop |-> {}, links |-> {}, body |-> 0, mine |-> FALSE]
Exists(n) == note[n] # Absent

\* todo[n] is what the call has still to write on note n.
Patch == [tags: SUBSET Topic, prop: SUBSET Topic]
Idle  == [op |-> "none", topic |-> <<>>, todo |-> <<>>]

Tags == [n \in {m \in Note : Exists(m)} |-> note[n].tags]
Prop == [n \in {m \in Note : Exists(m)} |-> note[n].prop]

TypeOK ==
  /\ doc \in Seq(Line)
  /\ note \in [Note -> NoteState]
  /\ call.op \in {"none", "promote", "promoting", "classify"}
  /\ DOMAIN call.todo \subseteq Note
  /\ \A n \in DOMAIN call.todo : call.todo[n] \in Patch
  /\ calls \in 0..MaxCalls /\ edits \in 0..MaxEdits

Init ==
  /\ doc = FirstLines
  /\ note = [n \in Note |-> IF n \in ToolNote THEN Absent
                            ELSE [Absent EXCEPT !.body = 1]]
  /\ call = Idle
  /\ calls = 0 /\ edits = 0

Begin == call.op = "none" /\ calls < MaxCalls /\ calls' = calls + 1

-----------------------------------------------------------------------------
(* The vocabulary.                                                         *)

AddTopic(p, quotes) ==
  /\ Begin
  /\ MayAdd(doc, p)
  /\ doc' = VocabularyAdd(doc, p, quotes)
  /\ UNCHANGED <<note, call, edits>>

AddAlias(p, a) ==
  /\ Begin
  /\ MayAlias(doc, p, a)
  /\ doc' = VocabularyAlias(doc, p, a)
  /\ UNCHANGED <<note, call, edits>>

\* renderVocabulary gives a file only for a list without errors.
Renders(lines) == NoErrors(lines)

\* apply: over a file only with replace.
Apply(lines, replace) ==
  /\ Begin
  /\ Renders(lines)
  /\ doc = <<>> \/ replace
  /\ doc' = lines
  /\ UNCHANGED <<note, call, edits>>

-----------------------------------------------------------------------------
(* promote: a proposed topic becomes a tag.                                *)

\* promotePlan reads all notes; what it will write on each is fixed here.
PromotePlan(p) ==
  /\ Begin
  /\ LET asking == {n \in Note : p \in note[n].prop \cup note[n].tags}
     IN  call' = [op |-> "promote", topic |-> p,
                  todo |-> [n \in asking |-> [tags |-> note[n].tags \cup {p},
                                              prop |-> note[n].prop \ {p}]]]
  /\ UNCHANGED <<doc, note, edits>>

\* Mutant: the notes are written although the topic could not be declared.
PromoteAnyway(quotes) ==
  LET p == call.topic
  IN  /\ call.op = "promote"
      /\ doc' = IF MayAdd(doc, p) THEN VocabularyAdd(doc, p, quotes) ELSE doc
      /\ call' = [call EXCEPT !.op = "promoting"]
      /\ UNCHANGED <<note, calls, edits>>

\* applyPromote declares the topic before it touches a note, or gives up.
PromoteVocabulary(quotes) ==
  LET p == call.topic
  IN  /\ call.op = "promote"
      /\ IF p \in Nodes(doc)
         THEN doc' = doc /\ call' = [call EXCEPT !.op = "promoting"]
         ELSE IF MayAdd(doc, p)
         THEN doc' = VocabularyAdd(doc, p, quotes) /\ call' = [call EXCEPT !.op = "promoting"]
         ELSE doc' = doc /\ call' = Idle
      /\ UNCHANGED <<note, calls, edits>>

-----------------------------------------------------------------------------
(* classify: the entries of a call name topics for notes.                  *)

\* buildPatch: the topics that resolve become the tags, the others proposals.
Resolved(lines, temas) == {ResolveTopic(lines, t) : t \in temas} \ {<<>>}
Unknown(lines, temas) == {t \in temas : ResolveTopic(lines, t) = <<>>}
BuildPatch(lines, temas) ==
  [tags |-> Resolved(lines, temas), prop |-> Unknown(lines, temas)]

\* The vocabulary is read when the call begins; an entry whose note does not
\* exist is rejected.
Classify(entries) ==
  /\ Begin
  /\ call' = [op |-> "classify", topic |-> <<>>,
              todo |-> [n \in {m \in DOMAIN entries : Exists(m)} |-> BuildPatch(doc, entries[n])]]
  /\ UNCHANGED <<doc, note, edits>>

-----------------------------------------------------------------------------
(* The notes, one by one, in any order.                                    *)

\* Mutant: a classification replaces the proposals.
UpdatedProposals(n, patch) == [note[n] EXCEPT !.tags = patch.tags, !.prop = patch.prop]

\* upsertNoteMetadata: the keys of the patch are replaced, the rest stays.  A
\* classification reads the note now and adds to the proposals it finds; a
\* promote writes what it planned.
Updated(n, patch) ==
  [note[n] EXCEPT !.tags = patch.tags,
                  !.prop = patch.prop \cup (IF call.op = "classify" THEN @ ELSE {})]

WriteNote(n) ==
  LET rest == DOMAIN call.todo \ {n}
  IN  /\ call.op \in {"promoting", "classify"} /\ n \in DOMAIN call.todo
      /\ note' = [note EXCEPT ![n] = Updated(n, call.todo[n])]
      /\ call' = [call EXCEPT !.todo = [m \in rest |-> call.todo[m]]]
      /\ UNCHANGED <<doc, calls, edits>>

\* The last note is written (or the plan named none).
EndCall ==
  /\ call.op \in {"promoting", "classify"} /\ DOMAIN call.todo = {}
  /\ call' = Idle
  /\ UNCHANGED <<doc, note, calls, edits>>

\* The server is stopped in the middle of a call.
Crash ==
  /\ call.op # "none"
  /\ call' = Idle
  /\ UNCHANGED <<doc, note, calls, edits>>

-----------------------------------------------------------------------------
(* Notes that chamba writes itself (summarize_to_vault, save_plan).        *)

\* addBacklinks: never a note of the user.
BackLinked(m, n) == IF note[m].mine THEN [note[m] EXCEPT !.links = @ \cup {n}] ELSE note[m]

\* The notes of a work item are found by their frontmatter or their names.
Related(n) == SUBSET ({m \in Note : Exists(m)} \ {n})

\* The note at path n is written, be there one or not; the notes of the same
\* work item link back to it when chamba wrote them.
SaveNote(n, temas, item) ==
  LET patch == BuildPatch(doc, temas)
  IN  /\ Begin /\ n \in ToolNote
      /\ note' = [m \in Note |->
           IF m = n THEN [tags |-> patch.tags, prop |-> patch.prop, links |-> item,
                          body |-> note[n].body + 1, mine |-> TRUE]
           ELSE IF m \in item THEN BackLinked(m, n)
           ELSE note[m]]
      /\ UNCHANGED <<doc, call, edits>>

-----------------------------------------------------------------------------
(* The user, in Obsidian.                                                  *)

Edit == edits < MaxEdits /\ edits' = edits + 1 /\ UNCHANGED <<call, calls>>
MayEditTopics == EditDuringCall \/ call.op = "none"

EditBody(n) ==
  /\ Edit /\ Exists(n)
  /\ note' = [note EXCEPT ![n].body = @ + 1]
  /\ UNCHANGED doc

Propose(n, p) ==
  /\ Edit /\ Exists(n) /\ MayEditTopics
  /\ note' = [note EXCEPT ![n].prop = @ \cup {p}]
  /\ UNCHANGED doc

TagNote(n, p) ==
  /\ Edit /\ Exists(n) /\ MayEditTopics
  /\ note' = [note EXCEPT ![n].tags = @ \cup {p}]
  /\ UNCHANGED doc

DropLine(i) ==
  /\ Edit /\ MayEditTopics /\ i \in 1..Len(doc)
  /\ doc' = RemoveAt(doc, i)
  /\ UNCHANGED note

UserStep ==
  \/ \E n \in Note : EditBody(n)
  \/ \E n \in Note, p \in Wanted : Propose(n, p) \/ TagNote(n, p)
  \/ \E i \in 1..Len(doc) : DropLine(i)

ToolStep ==
  \/ \E p \in Wanted, q \in Quoted : AddTopic(p, q)
  \/ \E p \in Wanted : PromotePlan(p)
  \/ \E p \in Wanted, a \in Name : AddAlias(p, a)
  \/ \E lines \in Applied, replace \in BOOLEAN : Apply(lines, replace)
  \/ \E q \in Quoted : PromoteVocabulary(q)
  \/ \E S \in SUBSET Note, p, q \in Wanted : Classify([n \in S |-> {p, q}])
  \/ \E n \in Note : WriteNote(n)
  \/ EndCall
  \/ Crash
  \/ \E n \in ToolNote, p \in Wanted :
       \E item \in Related(n) : SaveNote(n, {p}, item)

Next == UserStep \/ ToolStep
Spec == Init /\ [][Next]_vars

-----------------------------------------------------------------------------
(* Properties.                                                             *)

Applying == \E lines \in Applied, replace \in BOOLEAN : Apply(lines, replace)

\* A vocabulary without errors stays without errors under the tools, and loses
\* no topic: the line a tool inserts or rewrites costs no other line its place,
\* whatever the user has taken out before.  Errors are lines the parser rejects;
\* its warnings about indents are not among them.  (vocabularyAdd and vocabularyAlias:
\* "Preserves all other bytes"; only apply with replace writes another list.)
VocabularyKept ==
  [][(NoErrors(doc) /\ ~UserStep) =>
       NoErrors(doc') /\ (Applying \/ Nodes(doc) \subseteq Nodes(doc'))]_vars

\* chamba never invents topics: a tag it puts on a note names a topic that the
\* vocabulary declares at that moment, also when a promote is refused, fails
\* half way or is repeated.  Only where the file already has lines that the
\* parser rejects may the line that a promote inserts be rejected as well; it
\* does stand in the file.
ToolTagsDeclared ==
  [][UserStep \/ \A n \in Note : \A t \in note'[n].tags \ note[n].tags :
       \/ t \in Nodes(doc)
       \/ call.op = "promoting" /\ ~NoErrors(doc) /\ \E i \in 1..Len(doc) : doc[i].path = t]_vars

\* What a note proposes is only dropped by giving it the tag, wherever a
\* promote stops and whatever is classified in between, as long as chamba does
\* not write the note anew.
ProposalsKept ==
  [][\A n \in Note : note'[n].body = note[n].body =>
       note[n].prop \subseteq note'[n].prop \cup note'[n].tags]_vars

\* What vault_navigate shows is what the derived files say, and the context map
\* shows the same notes, although the three walk the topics in different ways
\* ("esta vista es correcta" when the files are out of date), by whatever name
\* of the topic it is asked; a note is unclassified when it is in no view.
ViewsAgree ==
  LET nodes == Nodes(doc)
      meta  == [n \in DOMAIN Tags |-> [tags |-> note[n].tags, prop |-> note[n].prop, title |-> 1]]
      root  == Navigate(doc, meta, <<>>).view
      page  == RootPage(nodes, meta)
  IN  /\ \A p \in nodes : NodeNotes(nodes, Tags, p) = NavSubtree(nodes, Tags, p)
      /\ Unclassified(nodes, Tags) =
           DOMAIN Tags \ UNION {NodeNotes(nodes, Tags, p) : p \in Roots(nodes)}
      /\ \A p \in nodes, k \in 1..Cardinality(Note) :
           <<p, k>> \in root.topics <=> <<"topic", p, k>> \in page
      /\ root.folders = {f \in Name : <<"folder", f>> \in page}
      /\ \A l \in ParseVocabulary(doc) : \A a \in NamesOf(l) :
           LET view == Navigate(doc, meta, <<a>>).view
           IN  HubPage(nodes, meta, l.path) =
                 {<<"topic", u[1], u[2]>> : u \in {v \in view.subtopics : v[2] > 0}}
                   \cup NoteLines(meta, view.notes)

\* Rankings: asked for the slug of a topic, where the slug is a word of its own
\* (no hyphen, no number), closestTopics puts that topic first, whatever other
\* topics lie below it, have for alias or say in their descriptions.  The
\* context map selects no topic together with one below it, shows no note
\* twice, and stays in its budget unless one topic with one note is too much.
RankingsSound ==
  LET lines == ParseVocabulary(doc)
      nodes == Nodes(doc)
  IN  /\ \A p \in nodes, n \in 1..2 :
           Words[Slug(p)] = {Slug(p)} => Head(ClosestTopics(lines, {Slug(p)}, n)) = p
      /\ \A task \in SUBSET Name, budget \in 1..4 :
           LET sel == ScoreNodes(lines, task, 2)
               map == ContextMap(nodes, Tags, sel, 2, budget)
           IN  /\ \A i, j \in 1..Len(sel) : ~Under(sel[i], sel[j])
               /\ \A i, j \in 1..Len(map) : i # j => map[i].notes \cap map[j].notes = {}
               /\ MapSize(map) <= budget \/ MapSize(map) <= 2
=============================================================================
