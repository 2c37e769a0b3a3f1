--------------------------- MODULE KnowledgeViews ---------------------------
(***************************************************************************)
(* What chamba shows of a vault, computed from its vocabulary and notes:   *)
(* the generated network (core/src/obsidian/knowledge/knowledge-graph.ts), *)
(* the navigation views (navigator.ts), the context map (context-map.ts)   *)
(* and the topics closest to a text (topics.ts).                           *)
(*                                                                         *)
(* nodes is the set of declared topics, tags[n] the topics note n has      *)
(* tema/ tags for, prop[n] those it proposes.  Texts are sets of names.    *)
(***************************************************************************)
EXTENDS Topics

CONSTANTS
  Words,  \* Words[a]: the words a text gets from the name a: a itself, its parts
          \* if it is hyphenated, none if it is one letter, a number or a hash
  Says    \* Says[p]: words of p's description, besides those of what it quotes

ASSUME ViewsAssumption ==
  Words \in [Name -> SUBSET Name] /\ Says \in [Topic -> SUBSET Name]

-----------------------------------------------------------------------------
(* The generated network.                                                  *)

Classified(nodes, tags) == [n \in DOMAIN tags |-> tags[n] \cap nodes]
Unclassified(nodes, tags) == {n \in DOMAIN tags : Classified(nodes, tags)[n] = {}}
DirectNotes(nodes, tags, p) == {n \in DOMAIN tags : p \in tags[n] \cap nodes}

\* Mutant: ancestors are not counted.
NodeNotesDirect(nodes, tags, p) == DirectNotes(nodes, tags, p)

\* Every note counts for its topics and for all their ancestors.
NodeNotes(nodes, tags, p) ==
  {n \in DOMAIN tags : \E t \in tags[n] \cap nodes : p \in {t} \cup Ancestors(t)}

\* Who proposes topic p, be it with temas_propuestos or an undeclared tag.
Proposers(nodes, tags, prop, p) ==
  {n \in DOMAIN tags : p \in prop[n] \cup (tags[n] \ nodes)}

ReadyToPromote(nodes, tags, prop, umbral) ==
  {p \in UNION {prop[n] \cup tags[n] : n \in DOMAIN tags} :
     Cardinality(Proposers(nodes, tags, prop, p)) >= umbral}

-----------------------------------------------------------------------------
(* Navigation: the subtree of a topic is walked down its subtopics.        *)

Descendants(nodes, p) ==
  LET below[q \in nodes] == {q} \cup UNION {below[c] : c \in Children(nodes, q)}
  IN  below[p]

NavSubtree(nodes, tags, p) ==
  UNION {DirectNotes(nodes, tags, q) : q \in Descendants(nodes, p)}

\* Topics that notes of p's subtree have outside it, with their counts.
CoTopics(nodes, tags, p) ==
  [t \in UNION {tags[n] : n \in NavSubtree(nodes, tags, p)} \ Descendants(nodes, p) |->
     Cardinality({n \in NavSubtree(nodes, tags, p) : t \in tags[n]})]

-----------------------------------------------------------------------------
(* Rankings.  Ties go by path; paths are ordered name by name (the code    *)
(* compares whole strings, where a hyphen goes before the slash: siblings  *)
(* a-b and a/c may change places, a topic always goes before its subtree). *)

PathLess(p, q) ==
  \/ Under(q, p)
  \/ \E k \in 1..Len(p) : k <= Len(q) /\ p[k] < q[k] /\ \A j \in 1..(k - 1) : p[j] = q[j]

\* The i-th is the one that i - 1 others go before.
Ranked(S, score(_)) ==
  LET before(p, q) == score(p) > score(q) \/ (score(p) = score(q) /\ PathLess(p, q))
  IN  [i \in 1..Cardinality(S) |->
         CHOOSE p \in S : Cardinality({q \in S : before(q, p)}) = i - 1]

SegmentScore(p, names, last, other) ==
  (IF Slug(p) \in names THEN last ELSE 0)
    + other * Cardinality({k \in 1..(Len(p) - 1) : p[k] \in names})

\* tokenize: the words of a text that consists of these names.
Tokens(names) == UNION {Words[a] : a \in names}
DescriptionWords(l) == Says[l.path] \cup Tokens({l.quotes[k] : k \in 1..Len(l.quotes)})

\* An exact slug counts 3, another segment or an alias 2, a word of the
\* description 1.  The words of the text are compared with whole segments: a
\* hyphenated slug is never one of them.  Without words all are equal.
Closeness(lines, words, p) ==
  LET l == CHOOSE x \in lines : x.path = p
  IN  SegmentScore(p, words, 3, 2) + 2 * Cardinality(l.alias \cap words)
        + Cardinality(DescriptionWords(l) \cap words)

ClosestTopics(lines, query, n) ==
  LET score(p) == Closeness(lines, Tokens(query), p)
      all == {l.path : l \in lines}
  IN  SubSeq(Ranked(all, score), 1, IF Cardinality(all) < n THEN Cardinality(all) ELSE n)

-----------------------------------------------------------------------------
(* The context map.                                                        *)

\* The names that contain a word of the task (an occurrence may be anywhere in
\* the text here), and how many of the path, aliases and description do.
Hit(task) == {a \in Name : task \cap ({a} \cup Words[a]) # {}}

NodeScore(lines, task, p) ==
  LET l == CHOOSE x \in lines : x.path = p
  IN  SegmentScore(p, Hit(task), 1, 1) + Cardinality(l.alias \cap Hit(task))
        + Cardinality(DescriptionWords(l) \cap Hit(task))

\* The candidate takes the place of the first selected topic it lies under or
\* above, where its score allows, and else is added.
Select(score(_), selected, p) ==
  LET related == {i \in 1..Len(selected) : Under(p, selected[i]) \/ Under(selected[i], p)}
      i == CHOOSE k \in related : \A j \in related : k <= j
      wins == \/ Under(p, selected[i]) /\ score(p) >= score(selected[i])
              \/ Under(selected[i], p) /\ score(p) > score(selected[i])
  IN  IF related = {} THEN Append(selected, p)
      ELSE IF wins THEN ReplaceAt(selected, i, p) ELSE selected

\* Mutant: parent and child may both be selected.
ScoreNodesAll(lines, task, top) ==
  LET score(p) == NodeScore(lines, task, p)
      hits == {p \in {l.path : l \in lines} : score(p) > 0}
  IN  SubSeq(Ranked(hits, score), 1, IF Cardinality(hits) < top THEN Cardinality(hits) ELSE top)

ScoreNodes(lines, task, top) ==
  LET score(p) == NodeScore(lines, task, p)
      hits == {p \in {l.path : l \in lines} : score(p) > 0}
  IN  FoldLeft(LAMBDA sel, p : IF Len(sel) >= top THEN sel ELSE Select(score, sel, p),
               <<>>, Ranked(hits, score))

\* At most max notes per selected topic, those of an earlier topic left out.
\* Notes are ranked alike here: only their order of paths is kept.
NodeEntries(nodes, tags, selected, max) ==
  LET fill(acc, p) ==
        LET seen == UNION {acc[i].notes : i \in 1..Len(acc)}
            new  == NavSubtree(nodes, tags, p) \ seen
            best == {n \in new : Cardinality({m \in new : m < n}) < max}
        IN  Append(acc, [path |-> p, notes |-> best])
  IN  FoldLeft(fill, <<>>, selected)

MapSize(entries) ==
  Len(entries) + FoldLeft(LAMBDA k, e : k + Cardinality(e.notes), 0, entries)

\* The maps tried, in order: fewer notes per topic, then fewer topics.
Attempts(nodes, tags, selected, max) ==
  [k \in 1..max |-> NodeEntries(nodes, tags, selected, max + 1 - k)]
    \o (IF selected = <<>> THEN <<>>
        ELSE [k \in 1..(Len(selected) - 1) |->
                NodeEntries(nodes, tags, SubSeq(selected, 1, Len(selected) - k), 1)])

\* The first that fits, or the last one.
ContextMap(nodes, tags, selected, max, budget) ==
  LET tries == Attempts(nodes, tags, selected, max)
      fits  == {k \in 1..Len(tries) : MapSize(tries[k]) <= budget}
  IN  tries[IF fits = {} THEN Len(tries) ELSE Min(fits)]
=============================================================================
