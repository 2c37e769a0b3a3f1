--------------------------- MODULE KnowledgeGraph ---------------------------
(***************************************************************************)
(* The files that chamba derives from the notes and the vocabulary of a    *)
(* vault (buildKnowledgeGraph in core/src/obsidian/knowledge/              *)
(* knowledge-graph.ts) and what vault_navigate shows instead of reading    *)
(* them (navigator.ts).                                                    *)
(*                                                                         *)
(* meta[n] is what the frontmatter of a scanned note n says.  A page is    *)
(* named by its kind and the topic or folder it is about; its content is   *)
(* the set of its entries, without their wording and their order.          *)
(***************************************************************************)
EXTENDS KnowledgeViews

CONSTANTS
  FolderOf,   \* FolderOf[n]: the folder of note n, a sequence of names
  Umbral      \* umbral_promover

TagsOf(meta) == [n \in DOMAIN meta |-> meta[n].tags]
PropOf(meta) == [n \in DOMAIN meta |-> meta[n].prop]

Count(nodes, meta, p) == Cardinality(NodeNotes(nodes, TagsOf(meta), p))
Roots(nodes) == {p \in nodes : Len(p) = 1}
InFolder(meta, f) == {n \in DOMAIN meta : FolderOf[n] = f}

\* renderNoteLine: what a page says of a note changes with its frontmatter.
NoteLines(meta, S) == {<<"note", n, meta[n].title>> : n \in S}
TopicLines(nodes, meta, S) ==
  {<<"topic", p, Count(nodes, meta, p)>> : p \in {q \in S : Count(nodes, meta, q) > 0}}

\* temas/<topic>.md
HubPage(nodes, meta, p) ==
  TopicLines(nodes, meta, Children(nodes, p))
    \cup NoteLines(meta, DirectNotes(nodes, TagsOf(meta), p))

\* temas/sin-clasificar.md
UnclassifiedPage(nodes, meta) == NoteLines(meta, Unclassified(nodes, TagsOf(meta)))

\* computeSuggestions, shown in temas/PROPUESTOS.md, of a vault that has a
\* vocabulary: without one, tags are not taken for proposals.
Suggested(nodes, meta) ==
  UNION {meta[n].prop \cup (meta[n].tags \ nodes) : n \in DOMAIN meta}
ProposedPage(nodes, meta) ==
  {<<p, Proposers(nodes, TagsOf(meta), PropOf(meta), p),
     p \in ReadyToPromote(nodes, TagsOf(meta), PropOf(meta), Umbral)>> :
   p \in Suggested(nodes, meta)}

\* <folder>/INDEX.md groups the notes of the folder by topic.
FolderPage(nodes, meta, f) ==
  {<<"note", n, meta[n].title, meta[n].tags \cap nodes>> : n \in InFolder(meta, f)}

\* INDEX.md
RootPage(nodes, meta) ==
  TopicLines(nodes, meta, Roots(nodes))
    \cup {<<"folder", FolderOf[n][1]>> : n \in {m \in DOMAIN meta : FolderOf[m] # <<>>}}
    \cup {<<"unclassified", Cardinality(Unclassified(nodes, TagsOf(meta)))>>}
    \cup {<<"proposed">> : p \in Suggested(nodes, meta)}

\* temas/<topic>.base
BasePage(p) == {<<p>>}

Root == <<"index", <<>>>>

Pages(nodes, meta) ==
  LET used == {p \in nodes : Count(nodes, meta, p) > 0}
  IN  {<<"hub", p>> : p \in used}
        \cup {<<"base", p>> : p \in used \cap Roots(nodes)}
        \cup {<<"index", FolderOf[n]>> : n \in DOMAIN meta} \cup {Root}
        \cup {<<"unclassified", <<>>>>}
        \cup {<<"proposed", <<>>>> : p \in Suggested(nodes, meta)}

Page(nodes, meta, q) ==
  CASE q = Root              -> RootPage(nodes, meta)
    [] q[1] = "hub"          -> HubPage(nodes, meta, q[2])
    [] q[1] = "unclassified" -> UnclassifiedPage(nodes, meta)
    [] q[1] = "proposed"     -> ProposedPage(nodes, meta)
    [] q[1] = "base"         -> BasePage(q[2])
    [] OTHER                 -> FolderPage(nodes, meta, q[2])

BuildKnowledgeGraph(nodes, meta) ==
  [q \in Pages(nodes, meta) |-> Page(nodes, meta, q)]

\* The order in which the pages are produced, and written.
Before(q, r) ==
  LET rank(p) == IF p = Root THEN 5
                 ELSE [hub |-> 1, unclassified |-> 2, proposed |-> 3, index |-> 4, base |-> 6][p[1]]
  IN  rank(q) < rank(r) \/ (rank(q) = rank(r) /\ PathLess(q[2], r[2]))
FirstOf(pages) == {q \in pages : \A r \in pages \ {q} : Before(q, r)}

-----------------------------------------------------------------------------
(* vault_navigate reads the notes, never the derived files.                *)

\* buildVaultNav counts by note, not by topic.
VaultNav(nodes, meta) ==
  LET topics(n) == LET own == meta[n].tags \cap nodes
                   IN  own \cup ((UNION {Ancestors(t) : t \in own}) \cap nodes)
  IN  [p \in nodes |-> [subtree  |-> {n \in DOMAIN meta : p \in topics(n)},
                        direct   |-> {n \in DOMAIN meta : p \in meta[n].tags},
                        children |-> Children(nodes, p)]]

NavRoot(nodes, meta) ==
  LET nav == VaultNav(nodes, meta)
  IN  [topics       |-> {<<p, Cardinality(nav[p].subtree)>> : p \in Roots(nodes)},
       folders      |-> {FolderOf[n][1] : n \in {m \in DOMAIN meta : FolderOf[m] # <<>>}},
       unclassified |-> {n \in DOMAIN meta : meta[n].tags \cap nodes = {}}]

NavNode(nodes, meta, p) ==
  LET nav == VaultNav(nodes, meta)
  IN  [subtopics |-> {<<c, Cardinality(nav[c].subtree)>> : c \in nav[p].children},
       notes     |-> nav[p].direct,
       co        |-> CoTopics(nodes, TagsOf(meta), p)]

\* The view for a topic as the caller names it; <<>> asks for the root.
Navigate(doc, meta, tema) ==
  LET p == ResolveTopic(doc, tema)
  IN  IF tema = <<>> THEN [found |-> TRUE, view |-> NavRoot(Nodes(doc), meta)]
      ELSE IF p = <<>> THEN [found |-> FALSE, view |-> <<>>]
      ELSE [found |-> TRUE, view |-> NavNode(Nodes(doc), meta, p)]
=============================================================================
