------------------------------- MODULE Topics -------------------------------
(***************************************************************************)
(* The topic vocabulary of a vault, temas/VOCABULARIO.md: how it is read   *)
(* (core/src/obsidian/knowledge/vocabulary.ts), and how the tools insert a *)
(* topic or an alias into it (topics.ts).                                  *)
(*                                                                         *)
(* A name is a path segment or an alias; names are numbers, in the order   *)
(* the code sorts them.  A topic is its path, a sequence of names.  The    *)
(* file is the sequence of its entry lines; of a line's description only   *)
(* the topic it quotes in backticks matters, or <<>>.                      *)
(***************************************************************************)
EXTENDS Naturals, Sequences, FiniteSets, SequencesExt

CONSTANTS
  Name,      \* path segments and aliases
  BadName,   \* those the segment pattern refuses
  Topic,     \* topic paths
  MaxDepth   \* the deepest path the parser accepts (4 in the code)

ASSUME TopicsAssumption ==
  /\ Name \subseteq Nat /\ BadName \subseteq Name
  /\ Topic \subseteq Seq(Name) \ {<<>>}
  /\ MaxDepth \in Nat

Slug(p)     == p[Len(p)]
ParentOf(p) == SubSeq(p, 1, Len(p) - 1)
Under(p, q) == Len(q) < Len(p) /\ SubSeq(p, 1, Len(q)) = q
Ancestors(p) == {SubSeq(p, 1, k) : k \in 1..(Len(p) - 1)}

Line == [path: Topic, alias: SUBSET Name, quotes: Topic \cup {<<>>}]
NamesOf(l) == {Slug(l.path)} \cup l.alias

\* The i-th line is only taken when what stands before it allows it: its
\* parent is declared, and neither its path nor one of its names is taken.
Accepts(lines, l) ==
  /\ \A k \in 1..Len(l.path) : l.path[k] \notin BadName
  /\ Len(l.path) <= MaxDepth
  /\ ParentOf(l.path) = <<>> \/ \E k \in lines : k.path = ParentOf(l.path)
  /\ \A k \in lines : k.path # l.path /\ NamesOf(k) \cap NamesOf(l) = {}

ParseVocabulary(doc) ==
  FoldLeft(LAMBDA lines, l : IF Accepts(lines, l) THEN lines \cup {l} ELSE lines,
           {}, doc)

Nodes(doc)   == {l.path : l \in ParseVocabulary(doc)}
\* Every line is accepted.  The parser also warns of indents that are not the
\* list's own, and takes the line all the same; a file is indented by two
\* spaces here, as the tools indent the lines they insert.
NoErrors(doc) == Cardinality(ParseVocabulary(doc)) = Len(doc)
Children(nodes, p) == {q \in nodes : ParentOf(q) = p}

\* resolveTopic: a path, or a slug or alias standing alone, of the vocabulary;
\* <<>> when it is unknown.
ResolveTopic(doc, input) ==
  LET named == {l \in ParseVocabulary(doc) : input = <<Slug(l.path)>>
                                          \/ \E a \in l.alias : input = <<a>>}
  IN  IF input \in Nodes(doc) THEN input
      ELSE IF named # {} THEN (CHOOSE l \in named : TRUE).path ELSE <<>>

-----------------------------------------------------------------------------
(* Changes to the file.                                                    *)

UsedNames(doc) == UNION {NamesOf(l) : l \in ParseVocabulary(doc)}

\* findNodeLine: the first line that shows p in backticks, be it as its path
\* or in its description.
FindNodeLine(doc, p) ==
  CHOOSE i \in 1..Len(doc) :
    /\ p \in {doc[i].path, doc[i].quotes}
    /\ \A j \in 1..(i - 1) : p \notin {doc[j].path, doc[j].quotes}

\* One past the last line of p's subtree.
FindSubtreeEnd(doc, p) ==
  LET from == FindNodeLine(doc, p)
      ends == {i \in (from + 1)..Len(doc) :
                 \E q \in Nodes(doc) : Under(q, p) /\ q \in {doc[i].path, doc[i].quotes}}
  IN  1 + Max(ends \cup {from})

\* Mutant: a new topic always goes to the top.
InsertFirst(doc, p) == 1

FindInsertionIndex(doc, p) ==
  LET siblings == Children(Nodes(doc), ParentOf(p))
      after    == {q \in siblings : Slug(p) < Slug(q)}
      first    == CHOOSE q \in after : \A r \in after : Slug(q) <= Slug(r)
      last     == CHOOSE q \in siblings : \A r \in siblings : Slug(r) <= Slug(q)
  IN  IF after # {} THEN FindNodeLine(doc, first)
      ELSE IF siblings # {} THEN FindSubtreeEnd(doc, last)
      ELSE IF ParentOf(p) = <<>> THEN Len(doc) + 1
      ELSE FindNodeLine(doc, ParentOf(p)) + 1

MayAdd(doc, p) ==
  /\ p \notin Nodes(doc)
  /\ ParentOf(p) = <<>> \/ ParentOf(p) \in Nodes(doc)
  /\ Slug(p) \notin UsedNames(doc)

VocabularyAdd(doc, p, quotes) ==
  InsertAt(doc, FindInsertionIndex(doc, p), [path |-> p, alias |-> {}, quotes |-> quotes])

MayAlias(doc, p, a) == p \in Nodes(doc) /\ a \notin UsedNames(doc)

\* The line found is rewritten as p's; what it said after p is kept when it
\* has the form of a description and its aliases.
VocabularyAlias(doc, p, a) ==
  LET i   == FindNodeLine(doc, p)
      own == doc[i].path = p
  IN  ReplaceAt(doc, i, [path   |-> p,
                         alias  |-> {a} \cup (IF own THEN doc[i].alias ELSE {}),
                         quotes |-> IF own THEN doc[i].quotes ELSE <<>>])
=============================================================================
