------------------------- MODULE VaultTopicsProofs -------------------------
(***************************************************************************)
(* For any vocabulary, notes, topics called for and calls.                 *)
(*                                                                         *)
(* Induction and folds: how a fold over a sequence runs, step by step.     *)
(* The parser: what it has accepted after each line; inserting a line      *)
(* after its parent's leaves what was accepted.                            *)
(* The calls: what a tool may write on a note is planned when the call     *)
(* begins, so VInv speaks of the patches of the call under way as well as  *)
(* of the notes.                                                           *)
(* The views: the topics below one are found by walking down (the code) or *)
(* by their paths (the network), and both give the same notes.             *)
(* The rankings: a topic's place is the number of those before it; what a  *)
(* task selects, and the entries of its map.                               *)
(***************************************************************************)
EXTENDS VaultTopics, TLAPS, FiniteSetTheorems, SequenceTheorems, WellFoundedInduction

-----------------------------------------------------------------------------
(* Induction and folds. *)

\* Every set of naturals has a least element.
LEMMA NatMin ==
  ASSUME NEW T, T \subseteq Nat, T # {}
  PROVE  \E m \in T : \A y \in T : m <= y
<1> DEFINE R == OpToRel(<, Nat)
<1>1. IsWellFoundedOn(R, Nat)
  BY NatLessThanWellFounded
<1> HIDE DEF R
<1>2. PICK x \in T : \A y \in T : <<y, x>> \notin R
  BY <1>1, WFMin
<1>3. \A y \in T : ~(y < x)
  BY <1>2 DEF R, OpToRel
<1> QED BY <1>3

\* So has every bounded one a greatest element, which Max is.
LEMMA BoundedMax ==
  ASSUME NEW T, T \subseteq Nat, T # {}, NEW n \in Nat, \A y \in T : y <= n
  PROVE  Max(T) \in T /\ \A y \in T : y <= Max(T)
<1> DEFINE U == {n - y : y \in T}
<1>1. U \subseteq Nat
  OBVIOUS
<1>6. U # {}
  <2>1. PICK y \in T : TRUE
    OBVIOUS
  <2>2. n - y \in U
    OBVIOUS
  <2> QED BY <2>2
<1> HIDE DEF U
<1>2. PICK u \in U : \A y \in U : u <= y
  BY <1>1, <1>6, NatMin
<1>3. PICK x \in T : u = n - x
  BY <1>2 DEF U
<1>4. \A y \in T : n - y \in U
  BY DEF U
<1>5. \A y \in T : x >= y
  BY <1>2, <1>3, <1>4
<1> QED BY <1>5 DEF Max

\* What holds of 0, and of n + 1 when it holds of n, holds of every natural: the
\* induction the proofs below use, over a set in place of a predicate.
LEMMA NatSetInduction ==
  ASSUME NEW P, 0 \in P, \A n \in Nat : n \in P => n + 1 \in P
  PROVE  \A n \in Nat : n \in P
<1> SUFFICES ASSUME Nat \ P # {} PROVE FALSE
  OBVIOUS
<1>1. PICK m \in Nat \ P : \A y \in Nat \ P : m <= y
  BY NatMin
<1>2. m - 1 \in Nat /\ m - 1 \in P
  BY <1>1
<1> QED BY <1>1, <1>2

\* A fold over a finite set is well defined: whatever element "pick" takes next,
\* the recursion that the library's folds are made of has a solution, which
\* stays in any set T that the step stays in.
Folds(it, S, T, base, pick, step) ==
  /\ it \in [SUBSET S -> T]
  /\ \A s \in SUBSET S :
       it[s] = IF s = {} THEN base ELSE step[pick[s]][it[s \ {pick[s]}]]

Picks(pick, S) == \A s \in SUBSET S : s # {} => pick[s] \in s

LEMMA FoldExists ==
  ASSUME NEW S, IsFiniteSet(S), NEW T, NEW base \in T, NEW pick, NEW step \in [S -> [T -> T]],
         Picks(pick, S)
  PROVE  \E it : Folds(it, S, T, base, pick, step)
<1> USE DEF Picks
<1> DEFINE Body(it, s) == IF s = {} THEN base ELSE step[pick[s]][it[s \ {pick[s]}]]
           UpTo(it, n) == /\ it \in [SUBSET S -> T]
                          /\ \A s \in SUBSET S : Cardinality(s) <= n => it[s] = Body(it, s)
           P == {n \in Nat : \E it : UpTo(it, n)}
<1>1. \A s \in SUBSET S : IsFiniteSet(s) /\ Cardinality(s) \in Nat /\ (Cardinality(s) = 0 <=> s = {})
  BY FS_Subset, FS_CardinalityType, FS_EmptySet
<1>2. \A s \in SUBSET S : s # {} => Cardinality(s \ {pick[s]}) = Cardinality(s) - 1
  BY <1>1, FS_RemoveElement
<1>3. 0 \in P
  <2>1. UpTo([s \in SUBSET S |-> base], 0)
    BY <1>1
  <2> QED BY <2>1
<1>4. ASSUME NEW n \in Nat, n \in P PROVE n + 1 \in P
  <2>1. PICK it : UpTo(it, n)
    BY <1>4
  <2> DEFINE next == [s \in SUBSET S |-> Body(it, s)]
  <2>2. \A s \in SUBSET S : s \ {pick[s]} \in SUBSET S
    OBVIOUS
  <2>3. next \in [SUBSET S -> T]
    <3>1. \A s \in SUBSET S : Body(it, s) \in T
      BY <2>1, <2>2
    <3> QED BY <3>1
  <2>4. \A s \in SUBSET S : Cardinality(s) <= n => next[s] = it[s]
    BY <2>1
  <2>5. ASSUME NEW s \in SUBSET S, Cardinality(s) <= n + 1 PROVE next[s] = Body(next, s)
    <3>1. CASE s = {}
      BY <3>1
    <3>2. CASE s # {}
      <4>1. Cardinality(s \ {pick[s]}) <= n
        BY <1>1, <1>2, <2>5, <3>2
      <4>2. next[s \ {pick[s]}] = it[s \ {pick[s]}]
        BY <2>2, <2>4, <4>1
      <4> QED BY <4>2
    <3> QED BY <3>1, <3>2
  <2>6. UpTo(next, n + 1)
    BY <2>3, <2>5
  <2>7. \E g : UpTo(g, n + 1)
    <3> HIDE DEF UpTo, next
    <3> QED BY <2>6
  <2> HIDE DEF UpTo
  <2> QED BY <2>7
<1>5. Cardinality(S) \in P
  <2>1. \A n \in Nat : n \in P
    <3> HIDE DEF P
    <3> QED BY <1>3, <1>4, NatSetInduction
  <2> QED BY <2>1, <1>1
<1>6. PICK it : UpTo(it, Cardinality(S))
  BY <1>5
<1>7. \A s \in SUBSET S : Cardinality(s) <= Cardinality(S)
  BY FS_Subset
<1>8. Folds(it, S, T, base, pick, step)
  BY <1>6, <1>7 DEF Folds
<1> QED BY <1>8

\* The library folds a sequence of length n over the sets of its indices: the
\* recursion over s \in SUBSET (1..n) takes Max(s) last.  It has a solution, and
\* any solution runs through the values after each of the elements.
LEMMA IndexMax ==
  ASSUME NEW n \in Nat
  PROVE  /\ \A s \in SUBSET (1..n) : s # {} => Max(s) \in s
         /\ \A k \in 1..n : Max(1..k) = k /\ (1..k) \ {k} = 1..(k - 1)
<1>1. ASSUME NEW s \in SUBSET (1..n), s # {} PROVE Max(s) \in s
  <2>1. s \subseteq Nat /\ \A y \in s : y <= n
    OBVIOUS
  <2> QED BY <1>1, <2>1, BoundedMax
<1>2. ASSUME NEW k \in 1..n PROVE Max(1..k) = k /\ (1..k) \ {k} = 1..(k - 1)
  <2>1. 1..k \subseteq Nat /\ k \in 1..k /\ \A y \in 1..k : y <= k
    OBVIOUS
  <2>2. Max(1..k) \in 1..k /\ \A y \in 1..k : y <= Max(1..k)
    BY <2>1, BoundedMax
  <2> QED BY <2>1, <2>2
<1> QED BY <1>1, <1>2

Iterates(it, n, T, base, step) ==
  /\ it \in [SUBSET (1..n) -> T]
  /\ \A s \in SUBSET (1..n) :
       it[s] = IF s = {} THEN base ELSE step[Max(s)][it[s \ {Max(s)}]]

LEMMA SeqFoldExists ==
  ASSUME NEW n \in Nat, NEW T, NEW base \in T, NEW step \in [1..n -> [T -> T]]
  PROVE  \E it : Iterates(it, n, T, base, step)
<1> DEFINE S == 1..n
           pick == [s \in SUBSET S |-> Max(s)]
<1>1. Picks(pick, S) /\ IsFiniteSet(S)
  <2>1. \A s \in SUBSET S : s # {} => pick[s] \in s
    BY IndexMax
  <2>2. IsFiniteSet(S)
    BY FS_Interval
  <2> QED BY <2>1, <2>2 DEF Picks
<1>2. PICK it : Folds(it, S, T, base, pick, step)
  <2> HIDE DEF S, pick
  <2>1. step \in [S -> [T -> T]]
    BY DEF S
  <2> QED BY <1>1, <2>1, FoldExists
<1>3. it \in [SUBSET S -> T]
  BY <1>2 DEF Folds
<1>4. ASSUME NEW s \in SUBSET S
      PROVE  it[s] = IF s = {} THEN base ELSE step[Max(s)][it[s \ {Max(s)}]]
  <2>1. pick[s] = Max(s)
    OBVIOUS
  <2> QED BY <1>2, <2>1 DEF Folds
<1>5. Iterates(it, n, T, base, step)
  BY <1>3, <1>4 DEF Iterates
<1> QED BY <1>5

\* A function on the sets of indices that follows the recursion.
Follows(iter, n, T, base, step) ==
  /\ iter[{}] = base
  /\ \A s \in SUBSET (1..n) : s # {} /\ iter[s \ {Max(s)}] \in T
                              => iter[s] = step[Max(s)][iter[s \ {Max(s)}]]

Runs(f, n, T, base, step) ==
  /\ f \in [0..n -> T] /\ f[0] = base
  /\ \A k \in 1..n : f[k] = step[k][f[k - 1]]

LEMMA SeqFoldRuns ==
  ASSUME NEW n \in Nat, NEW T, NEW base \in T, NEW step \in [1..n -> [T -> T]],
         NEW iter, Follows(iter, n, T, base, step)
  PROVE  Runs([k \in 0..n |-> iter[1..k]], n, T, base, step)
<1> USE DEF Follows
<1> DEFINE f == [k \in 0..n |-> iter[1..k]]
           P == {k \in Nat : k <= n => iter[1..k] \in T}
<1>1. 1..0 = {}
  OBVIOUS
<1>2. ASSUME NEW k \in 1..n, iter[1..(k - 1)] \in T
      PROVE  iter[1..k] = step[k][iter[1..(k - 1)]] /\ iter[1..k] \in T
  <2>1. 1..k \in SUBSET (1..n) /\ 1..k # {} /\ Max(1..k) = k /\ (1..k) \ {k} = 1..(k - 1)
    <3>1. Max(1..k) = k /\ (1..k) \ {k} = 1..(k - 1)
      BY IndexMax
    <3>2. k \in 1..k /\ \A y \in 1..k : y \in 1..n
      OBVIOUS
    <3> QED BY <3>1, <3>2
  <2>2. iter[1..k] = step[k][iter[1..(k - 1)]]
    BY <1>2, <2>1
  <2>3. step[k] \in [T -> T]
    OBVIOUS
  <2> QED BY <1>2, <2>2, <2>3
<1>3. 0 \in P
  BY <1>1
<1>4. ASSUME NEW k \in Nat, k \in P PROVE k + 1 \in P
  <2>1. CASE k + 1 <= n
    <3>1. k + 1 \in 1..n /\ (k + 1) - 1 = k /\ iter[1..k] \in T
      BY <1>4, <2>1
    <3>2. iter[1..(k + 1)] \in T
      BY <1>2, <3>1
    <3> QED BY <3>2
  <2> QED BY <2>1
<1>5. \A k \in Nat : k \in P
  <2> HIDE DEF P
  <2> QED BY <1>3, <1>4, NatSetInduction
<1>6. \A k \in 0..n : f[k] \in T /\ f[k] = iter[1..k]
  BY <1>5
<1>7. f \in [0..n -> T] /\ f[0] = base
  BY <1>1, <1>6
<1>8. ASSUME NEW k \in 1..n PROVE f[k] = step[k][f[k - 1]]
  <2>1. k - 1 \in 0..n /\ k \in 0..n
    OBVIOUS
  <2>2. f[k - 1] = iter[1..(k - 1)] /\ iter[1..(k - 1)] \in T /\ f[k] = iter[1..k]
    BY <1>6, <2>1
  <2> QED BY <1>2, <2>2
<1> QED BY <1>7, <1>8 DEF Runs

-----------------------------------------------------------------------------
(* The parser: what it has accepted after each line.                       *)

USE TopicsAssumption

After(lines, l) == IF Accepts(lines, l) THEN lines \cup {l} ELSE lines

\* f[i] is what is declared by the first i lines.
Parses(d, f) ==
  /\ f \in [0..Len(d) -> SUBSET Line] /\ f[0] = {}
  /\ \A i \in 1..Len(d) : f[i] = After(f[i - 1], d[i])
  /\ ParseVocabulary(d) = f[Len(d)]

LEMMA ParseIter ==
  ASSUME NEW d
  PROVE  ParseVocabulary(d) =
           (CHOOSE iter : iter =
              [s \in SUBSET DOMAIN d |->
                 IF s = {} THEN {} ELSE After(iter[s \ {Max(s)}], d[Max(s)])])[DOMAIN d]
BY DEF ParseVocabulary, FoldLeft, MapThenFoldSet, After

LEMMA Parsing ==
  ASSUME NEW d \in Seq(Line)
  PROVE  \E f : Parses(d, f)
<1> DEFINE n == Len(d)
           D == DOMAIN d
           T == SUBSET Line
           Eq(iter) == iter = [s \in SUBSET D |->
                 IF s = {} THEN {} ELSE After(iter[s \ {Max(s)}], d[Max(s)])]
           step == [i \in 1..n |-> [X \in T |-> After(X, d[i])]]
<1>1. D = 1..n /\ n \in Nat /\ \A i \in 1..n : d[i] \in Line
  OBVIOUS
<1>2. step \in [1..n -> [T -> T]]
  <2>1. ASSUME NEW i \in 1..n, NEW X \in T PROVE After(X, d[i]) \in T
    BY <1>1 DEF After
  <2> QED BY <2>1
<1>3. \E iter : Eq(iter)
  <2>1. PICK it : Iterates(it, n, T, {}, step)
    <3> HIDE DEF step
    <3>1. {} \in T /\ n \in Nat
      BY <1>1
    <3> HIDE DEF T, n
    <3> QED BY <1>2, <3>1, SeqFoldExists
  <2>2. ASSUME NEW s \in SUBSET (1..n)
        PROVE  it[s] = IF s = {} THEN {} ELSE After(it[s \ {Max(s)}], d[Max(s)])
    <3>1. s # {} => Max(s) \in 1..n
      BY <1>1, IndexMax
    <3>2. it[s \ {Max(s)}] \in T
      BY <2>1 DEF Iterates
    <3>3. s # {} => step[Max(s)][it[s \ {Max(s)}]] = After(it[s \ {Max(s)}], d[Max(s)])
      BY <3>1, <3>2
    <3> QED BY <2>1, <3>3 DEF Iterates
  <2>3. it = [s \in SUBSET D |-> it[s]]
    BY <1>1, <2>1 DEF Iterates
  <2>4. Eq(it)
    BY <1>1, <2>2, <2>3
  <2> QED BY <2>4
<1>4. PICK iter : Eq(iter) /\ ParseVocabulary(d) = iter[D]
  <2>1. ParseVocabulary(d) = (CHOOSE iter : Eq(iter))[D]
    BY ParseIter
  <2> HIDE DEF Eq, D
  <2> QED BY <1>3, <2>1
<1> DEFINE f == [k \in 0..n |-> iter[1..k]]
<1>5. Runs(f, n, T, {}, step)
  <2>1. iter[{}] = {}
    BY <1>4
  <2>2. ASSUME NEW s \in SUBSET (1..n), s # {}, iter[s \ {Max(s)}] \in T
        PROVE  iter[s] = step[Max(s)][iter[s \ {Max(s)}]]
    <3>1. Max(s) \in 1..n
      BY <1>1, <2>2, IndexMax
    <3>2. iter[s] = After(iter[s \ {Max(s)}], d[Max(s)])
      BY <1>1, <1>4, <2>2
    <3> QED BY <2>2, <3>1, <3>2
  <2>3. {} \in T /\ n \in Nat
    BY <1>1
  <2>4. Follows(iter, n, T, {}, step)
    BY <2>1, <2>2 DEF Follows
  <2> HIDE DEF step, T, n, Eq
  <2> QED BY <1>2, <2>3, <2>4, SeqFoldRuns
<1>6. f \in [0..n -> T] /\ f[0] = {}
  BY <1>5 DEF Runs
<1>7. ASSUME NEW i \in 1..n PROVE f[i] = After(f[i - 1], d[i])
  <2>1. f[i - 1] \in T
    BY <1>6
  <2>2. f[i] = step[i][f[i - 1]]
    BY <1>5 DEF Runs
  <2> HIDE DEF f
  <2> QED BY <2>1, <2>2
<1>8. ParseVocabulary(d) = f[n]
  BY <1>1, <1>4
<1>9. Parses(d, f)
  <2> HIDE DEF f
  <2> QED BY <1>6, <1>7, <1>8 DEF Parses
<1> QED BY <1>9

\* The first k lines.
Rng(d, k) == {d[j] : j \in 1..k}

\* What the parser guarantees of the lines it has accepted.
Tidy(L) ==
  /\ \A l \in L : /\ \A k \in 1..Len(l.path) : l.path[k] \notin BadName
                  /\ Len(l.path) <= MaxDepth
                  /\ ParentOf(l.path) = <<>> \/ \E k \in L : k.path = ParentOf(l.path)
  /\ \A k, l \in L : k # l => k.path # l.path /\ NamesOf(k) \cap NamesOf(l) = {}

LEMMA AfterTidy ==
  ASSUME NEW L, NEW l, Tidy(L)
  PROVE  Tidy(After(L, l))
<1>1. CASE ~Accepts(L, l)
  BY <1>1 DEF After
<1>2. CASE Accepts(L, l)
  <2>1. After(L, l) = L \cup {l}
    BY <1>2 DEF After
  <2>2. \A j \in L \cup {l} : /\ \A k \in 1..Len(j.path) : j.path[k] \notin BadName
                              /\ Len(j.path) <= MaxDepth
    BY <1>2 DEF Tidy, Accepts
  <2>3. \A j \in L \cup {l} : ParentOf(j.path) = <<>> \/ \E k \in L \cup {l} : k.path = ParentOf(j.path)
    BY <1>2 DEF Tidy, Accepts
  <2>4. \A j, k \in L \cup {l} : j # k => j.path # k.path /\ NamesOf(j) \cap NamesOf(k) = {}
    BY <1>2 DEF Tidy, Accepts
  <2> QED BY <2>1, <2>2, <2>3, <2>4 DEF Tidy
<1> QED BY <1>1, <1>2

LEMMA ParsedSoFar ==
  ASSUME NEW d \in Seq(Line), NEW f, Parses(d, f), NEW i \in 0..Len(d)
  PROVE  /\ f[i] \subseteq Rng(d, i) /\ IsFiniteSet(f[i]) /\ Tidy(f[i])
         /\ Cardinality(f[i]) \in Nat /\ Cardinality(f[i]) <= i
<1> DEFINE Good(k) == /\ f[k] \subseteq Rng(d, k) /\ IsFiniteSet(f[k]) /\ Tidy(f[k])
                      /\ Cardinality(f[k]) \in Nat /\ Cardinality(f[k]) <= k
           P == {k \in Nat : k <= Len(d) => Good(k)}
<1>1. 0 \in P
  <2>1. f[0] = {}
    BY DEF Parses
  <2>2. Tidy(f[0])
    BY <2>1 DEF Tidy
  <2>3. IsFiniteSet(f[0]) /\ Cardinality(f[0]) = 0
    BY <2>1, FS_EmptySet
  <2>4. Good(0)
    BY <2>1, <2>2, <2>3
  <2> HIDE DEF Good
  <2> QED BY <2>4
<1>2. ASSUME NEW k \in Nat, k \in P PROVE k + 1 \in P
  <2> SUFFICES ASSUME k + 1 <= Len(d) PROVE Good(k + 1)
    OBVIOUS
  <2>1. f[k + 1] = After(f[k], d[k + 1]) /\ Good(k)
    BY <1>2 DEF Parses
  <2>2. Rng(d, k + 1) = Rng(d, k) \cup {d[k + 1]}
    BY DEF Rng
  <2>3. Tidy(f[k + 1])
    BY <2>1, AfterTidy
  <2>4. f[k + 1] = f[k] \/ f[k + 1] = f[k] \cup {d[k + 1]}
    BY <2>1 DEF After
  <2>5. CASE f[k + 1] = f[k]
    BY <2>1, <2>2, <2>3, <2>5
  <2>6. CASE f[k + 1] = f[k] \cup {d[k + 1]}
    <3>1. IsFiniteSet(f[k + 1]) /\ Cardinality(f[k + 1]) \in Nat /\ Cardinality(f[k + 1]) <= Cardinality(f[k]) + 1
      <4>1. /\ IsFiniteSet(f[k] \cup {d[k + 1]})
            /\ Cardinality(f[k] \cup {d[k + 1]}) =
                 IF d[k + 1] \in f[k] THEN Cardinality(f[k]) ELSE Cardinality(f[k]) + 1
        BY <2>1, FS_AddElement
      <4> QED BY <2>1, <2>6, <4>1
    <3>2. f[k + 1] \subseteq Rng(d, k + 1)
      BY <2>1, <2>2, <2>6
    <3> QED BY <2>1, <2>3, <3>1, <3>2
  <2> QED BY <2>4, <2>5, <2>6
<1>3. \A k \in Nat : k \in P
  <2> HIDE DEF P
  <2> QED BY <1>1, <1>2, NatSetInduction
<1> QED BY <1>3

\* Every line is accepted after those that stand before it.
Sound(d) == \A i \in 1..Len(d) : Accepts(Rng(d, i - 1), d[i])

LEMMA SoundParses ==
  ASSUME NEW d \in Seq(Line), NEW f, Parses(d, f), NEW n \in 0..Len(d),
         \A i \in 1..n : Accepts(Rng(d, i - 1), d[i])
  PROVE  f[n] = Rng(d, n) /\ Cardinality(f[n]) = n
<1> DEFINE Good(k) == f[k] = Rng(d, k) /\ Cardinality(f[k]) = k
           P == {k \in Nat : k <= n => Good(k)}
<1>1. 0 \in P
  <2>1. f[0] = {} /\ Rng(d, 0) = {}
    BY DEF Parses, Rng
  <2> QED BY <2>1, FS_EmptySet
<1>2. ASSUME NEW k \in Nat, k \in P PROVE k + 1 \in P
  <2> SUFFICES ASSUME k + 1 <= n PROVE Good(k + 1)
    OBVIOUS
  <2>1. f[k + 1] = After(f[k], d[k + 1]) /\ Good(k)
    BY <1>2 DEF Parses
  <2>2. Rng(d, k + 1) = Rng(d, k) \cup {d[k + 1]}
    BY DEF Rng
  <2>3. Accepts(f[k], d[k + 1])
    <3>1. k + 1 \in 1..n /\ (k + 1) - 1 = k
      OBVIOUS
    <3> QED BY <2>1, <3>1
  <2>4. d[k + 1] \notin f[k]
    BY <2>3 DEF Accepts
  <2>5. f[k + 1] = f[k] \cup {d[k + 1]}
    BY <2>1, <2>3 DEF After
  <2>6. k \in 0..Len(d)
    OBVIOUS
  <2>7. IsFiniteSet(f[k])
    BY <2>6, ParsedSoFar
  <2>8. Cardinality(f[k + 1]) = k + 1
    BY <2>1, <2>4, <2>5, <2>7, FS_AddElement
  <2> QED BY <2>1, <2>2, <2>5, <2>8
<1>3. \A k \in Nat : k \in P
  <2> HIDE DEF P
  <2> QED BY <1>1, <1>2, NatSetInduction
<1> QED BY <1>3

\* A line that is not accepted is missing ever after.
LEMMA ErrorsStay ==
  ASSUME NEW d \in Seq(Line), NEW f, Parses(d, f), NEW i \in 1..Len(d), f[i] = f[i - 1]
  PROVE  Cardinality(f[Len(d)]) < Len(d)
<1> DEFINE P == {k \in Nat : i + k <= Len(d) => Cardinality(f[i + k]) < i + k}
<1>1. 0 \in P
  <2>1. i - 1 \in 0..Len(d)
    OBVIOUS
  <2> QED BY <2>1, ParsedSoFar
<1>2. ASSUME NEW k \in Nat, k \in P PROVE k + 1 \in P
  <2> SUFFICES ASSUME i + k + 1 <= Len(d) PROVE Cardinality(f[i + k + 1]) < i + k + 1
    OBVIOUS
  <2>1. i + k + 1 \in 1..Len(d) /\ i + k \in 0..Len(d) /\ (i + k + 1) - 1 = i + k
    OBVIOUS
  <2>2. f[i + k + 1] = After(f[i + k], d[i + k + 1])
    BY <2>1 DEF Parses
  <2>3. IsFiniteSet(f[i + k]) /\ Cardinality(f[i + k]) \in Nat
    BY <2>1, ParsedSoFar
  <2>4. Cardinality(f[i + k + 1]) <= Cardinality(f[i + k]) + 1
    <3>1. CASE f[i + k + 1] = f[i + k]
      BY <2>3, <3>1
    <3>2. CASE f[i + k + 1] = f[i + k] \cup {d[i + k + 1]}
      <4>1. Cardinality(f[i + k] \cup {d[i + k + 1]}) =
              IF d[i + k + 1] \in f[i + k] THEN Cardinality(f[i + k]) ELSE Cardinality(f[i + k]) + 1
        BY <2>3, FS_AddElement
      <4> QED BY <2>3, <3>2, <4>1
    <3> QED BY <2>2, <3>1, <3>2 DEF After
  <2>5. i + k + 1 \in 0..Len(d)
    OBVIOUS
  <2>6. Cardinality(f[i + k + 1]) \in Nat
    BY <2>5, ParsedSoFar
  <2> QED BY <1>2, <2>3, <2>4, <2>6
<1>3. \A k \in Nat : k \in P
  <2> HIDE DEF P
  <2> QED BY <1>1, <1>2, NatSetInduction
<1>4. Len(d) - i \in Nat /\ i + (Len(d) - i) = Len(d)
  OBVIOUS
<1>5. Len(d) - i \in P
  BY <1>3, <1>4
<1> QED BY <1>4, <1>5

LEMMA NoErrorsSound ==
  ASSUME NEW d \in Seq(Line)
  PROVE  /\ NoErrors(d) <=> Sound(d)
         /\ Sound(d) => ParseVocabulary(d) = Rng(d, Len(d))
<1>1. PICK f : Parses(d, f)
  BY Parsing
<1>2. Len(d) \in 0..Len(d) /\ ParseVocabulary(d) = f[Len(d)]
  BY <1>1 DEF Parses
<1>3. ASSUME Sound(d) PROVE f[Len(d)] = Rng(d, Len(d)) /\ Cardinality(f[Len(d)]) = Len(d)
  BY <1>1, <1>2, <1>3, SoundParses DEF Sound
<1>4. ASSUME NoErrors(d), ~Sound(d) PROVE FALSE
  <2> DEFINE B == {i \in 1..Len(d) : ~Accepts(Rng(d, i - 1), d[i])}
  <2>1. B \subseteq Nat /\ B # {}
    BY <1>4 DEF Sound
  <2>2. PICK m \in B : \A y \in B : m <= y
    BY <2>1, NatMin
  <2>3. m - 1 \in 0..Len(d) /\ m \in 1..Len(d) /\ \A i \in 1..(m - 1) : i \in 1..Len(d) /\ ~(m <= i)
    OBVIOUS
  <2>4. \A i \in 1..(m - 1) : Accepts(Rng(d, i - 1), d[i])
    BY <2>2, <2>3
  <2>5. f[m - 1] = Rng(d, m - 1)
    BY <1>1, <2>3, <2>4, SoundParses
  <2>6. f[m] = f[m - 1]
    BY <1>1, <2>2, <2>3, <2>5 DEF Parses, After
  <2> QED BY <1>1, <1>2, <1>4, <2>3, <2>6, ErrorsStay DEF NoErrors
<1> QED BY <1>2, <1>3, <1>4 DEF NoErrors

\* The accepted lines of any file.
LEMMA ParsedTidy ==
  ASSUME NEW d \in Seq(Line)
  PROVE  /\ ParseVocabulary(d) \subseteq Rng(d, Len(d)) /\ ParseVocabulary(d) \subseteq Line
         /\ IsFiniteSet(ParseVocabulary(d)) /\ Tidy(ParseVocabulary(d))
<1>1. PICK f : Parses(d, f)
  BY Parsing
<1>2. Len(d) \in 0..Len(d) /\ ParseVocabulary(d) = f[Len(d)] /\ f[Len(d)] \in SUBSET Line
  BY <1>1 DEF Parses
<1> QED BY <1>1, <1>2, ParsedSoFar

-----------------------------------------------------------------------------
(* Changes to the file.                                                    *)

LEMMA Inserted ==
  ASSUME NEW S, NEW d \in Seq(S), NEW i \in 1..(Len(d) + 1), NEW e \in S
  PROVE  /\ InsertAt(d, i, e) \in Seq(S) /\ Len(InsertAt(d, i, e)) = Len(d) + 1
         /\ \A j \in 1..(i - 1) : InsertAt(d, i, e)[j] = d[j]
         /\ InsertAt(d, i, e)[i] = e
         /\ \A j \in (i + 1)..(Len(d) + 1) : InsertAt(d, i, e)[j] = d[j - 1]
<1> DEFINE a == SubSeq(d, 1, i - 1)
           b == SubSeq(d, i, Len(d))
<1>1. a \in Seq(S) /\ Len(a) = i - 1 /\ \A j \in 1..(i - 1) : a[j] = d[j]
  OBVIOUS
<1>2. b \in Seq(S) /\ Len(b) = Len(d) + 1 - i /\ \A j \in 1..(Len(d) + 1 - i) : b[j] = d[j + i - 1]
  OBVIOUS
<1>3. InsertAt(d, i, e) = (a \o <<e>>) \o b
  BY DEF InsertAt
<1> HIDE DEF a, b
<1>4. /\ a \o <<e>> \in Seq(S) /\ Len(a \o <<e>>) = i /\ (a \o <<e>>)[i] = e
      /\ \A j \in 1..(i - 1) : (a \o <<e>>)[j] = d[j]
  BY <1>1
<1> DEFINE c == a \o <<e>>
<1> HIDE DEF c
<1>5. c \in Seq(S) /\ Len(c) = i /\ c[i] = e /\ \A j \in 1..(i - 1) : c[j] = d[j]
  BY <1>4 DEF c
<1>8. /\ c \o b \in Seq(S) /\ Len(c \o b) = Len(c) + Len(b)
      /\ \A j \in 1..(Len(c) + Len(b)) : (c \o b)[j] = IF j <= Len(c) THEN c[j] ELSE b[j - Len(c)]
  BY <1>2, <1>5, ConcatProperties
<1>6. /\ c \o b \in Seq(S) /\ Len(c \o b) = Len(d) + 1 /\ (c \o b)[i] = e
      /\ \A j \in 1..(i - 1) : (c \o b)[j] = d[j]
  BY <1>2, <1>5, <1>8
<1>7. ASSUME NEW j \in (i + 1)..(Len(d) + 1) PROVE (c \o b)[j] = d[j - 1]
  <2>1. (c \o b)[j] = b[j - i] /\ j - i \in 1..(Len(d) + 1 - i) /\ (j - i) + i - 1 = j - 1
    BY <1>2, <1>5, <1>8
  <2>2. b[j - i] = d[(j - i) + i - 1]
    BY <1>2, <2>1
  <2> QED BY <2>1, <2>2
<1> QED BY <1>3, <1>6, <1>7 DEF c

\* A function on 1..l is a sequence of length l.
LEMMA FunSeq ==
  ASSUME NEW S, NEW l \in Nat, NEW x, x = [k \in 1..l |-> x[k]], \A k \in 1..l : x[k] \in S
  PROVE  x \in Seq(S) /\ Len(x) = l
OBVIOUS

LEMMA InsertedLine ==
  ASSUME NEW d \in Seq(Line), NEW i \in 1..(Len(d) + 1), NEW e \in Line
  PROVE  /\ Len(InsertAt(d, i, e)) = Len(d) + 1
         /\ InsertAt(d, i, e)[i] = e
         /\ \A j \in 1..(i - 1) : InsertAt(d, i, e)[j] = d[j]
         /\ \A j \in (i + 1)..(Len(d) + 1) : InsertAt(d, i, e)[j] = d[j - 1]
BY Inserted

LEMMA Removed ==
  ASSUME NEW S, NEW d \in Seq(S), NEW i \in 1..Len(d)
  PROVE  /\ RemoveAt(d, i) \in Seq(S)
         /\ \A j \in 1..Len(RemoveAt(d, i)) : \E k \in 1..Len(d) : RemoveAt(d, i)[j] = d[k]
<1> DEFINE a == SubSeq(d, 1, i - 1)
           b == SubSeq(d, i + 1, Len(d))
<1>1. a \in Seq(S) /\ Len(a) = i - 1 /\ \A j \in 1..(i - 1) : a[j] = d[j]
  OBVIOUS
<1>2. b \in Seq(S) /\ Len(b) = Len(d) - i /\ \A j \in 1..(Len(d) - i) : b[j] = d[j + i]
  OBVIOUS
<1>3. RemoveAt(d, i) = a \o b
  BY DEF RemoveAt
<1> HIDE DEF a, b
<1>6. /\ a \o b \in Seq(S) /\ Len(a \o b) = Len(a) + Len(b)
      /\ \A j \in 1..(Len(a) + Len(b)) : (a \o b)[j] = IF j <= Len(a) THEN a[j] ELSE b[j - Len(a)]
  BY <1>1, <1>2, ConcatProperties
<1>4. Len(a \o b) = Len(d) - 1
  BY <1>1, <1>2, <1>6
<1>5. ASSUME NEW j \in 1..Len(a \o b) PROVE \E k \in 1..Len(d) : (a \o b)[j] = d[k]
  <2>1. CASE j <= i - 1
    <3>1. (a \o b)[j] = a[j] /\ j \in 1..(i - 1) /\ j \in 1..Len(d)
      BY <1>1, <1>2, <1>4, <1>6, <2>1
    <3> QED BY <1>1, <3>1
  <2>2. CASE j > i - 1
    <3>1. (a \o b)[j] = b[j - (i - 1)] /\ j - (i - 1) \in 1..(Len(d) - i) /\ j - (i - 1) + i \in 1..Len(d)
      BY <1>1, <1>2, <1>4, <1>6, <2>2
    <3>2. b[j - (i - 1)] = d[j - (i - 1) + i]
      BY <1>2, <3>1
    <3> QED BY <3>1, <3>2
  <2> QED BY <1>4, <2>1, <2>2
<1> QED BY <1>3, <1>5, <1>6

\* A line goes where its parent stands above it, and takes no name.
LEMMA InsertSound ==
  ASSUME NEW d \in Seq(Line), Sound(d), NEW i \in 1..(Len(d) + 1), NEW e \in Line,
         \A k \in 1..Len(e.path) : e.path[k] \notin BadName,
         Len(e.path) <= MaxDepth,
         ParentOf(e.path) = <<>> \/ \E k \in 1..(i - 1) : d[k].path = ParentOf(e.path),
         \A k \in 1..Len(d) : d[k].path # e.path /\ NamesOf(d[k]) \cap NamesOf(e) = {}
  PROVE  /\ Sound(InsertAt(d, i, e))
         /\ Rng(InsertAt(d, i, e), Len(d) + 1) = Rng(d, Len(d)) \cup {e}
<1> DEFINE D == InsertAt(d, i, e)
<1>1. /\ D \in Seq(Line) /\ Len(D) = Len(d) + 1 /\ D[i] = e
      /\ \A j \in 1..(i - 1) : D[j] = d[j]
      /\ \A j \in (i + 1)..(Len(d) + 1) : D[j] = d[j - 1]
  BY Inserted
<1> HIDE DEF D
<1>2. ASSUME NEW k \in 0..(i - 1) PROVE Rng(D, k) = Rng(d, k)
  <2>1. \A j \in 1..k : D[j] = d[j]
    BY <1>1
  <2> QED BY <2>1 DEF Rng
<1>3. ASSUME NEW k \in i..(Len(d) + 1) PROVE Rng(D, k) = Rng(d, k - 1) \cup {e}
  <2>1. ASSUME NEW l \in Rng(D, k) PROVE l \in Rng(d, k - 1) \cup {e}
    <3>1. PICK j \in 1..k : l = D[j]
      BY DEF Rng
    <3>2. CASE j < i
      <4>1. l = d[j] /\ j \in 1..(k - 1)
        BY <1>1, <3>1, <3>2
      <4> QED BY <4>1 DEF Rng
    <3>3. CASE j = i
      BY <1>1, <3>1, <3>3
    <3>4. CASE j > i
      <4>1. l = d[j - 1] /\ j - 1 \in 1..(k - 1)
        BY <1>1, <3>1, <3>4
      <4> QED BY <4>1 DEF Rng
    <3> QED BY <3>2, <3>3, <3>4
  <2>2. ASSUME NEW l \in Rng(d, k - 1) PROVE l \in Rng(D, k)
    <3>1. PICK j \in 1..(k - 1) : l = d[j]
      BY DEF Rng
    <3>2. CASE j < i
      <4>1. l = D[j] /\ j \in 1..k
        BY <1>1, <3>1, <3>2
      <4> QED BY <4>1 DEF Rng
    <3>3. CASE j >= i
      <4>1. l = D[j + 1] /\ j + 1 \in 1..k
        BY <1>1, <3>1, <3>3
      <4> QED BY <4>1 DEF Rng
    <3> QED BY <3>2, <3>3
  <2>3. e \in Rng(D, k)
    <3>1. D[i] = e /\ i \in 1..k
      BY <1>1
    <3> QED BY <3>1 DEF Rng
  <2> QED BY <2>1, <2>2, <2>3
<1>4. ASSUME NEW k \in 1..(Len(d) + 1) PROVE Accepts(Rng(D, k - 1), D[k])
  <2>1. CASE k < i
    <3>1. D[k] = d[k] /\ Rng(D, k - 1) = Rng(d, k - 1) /\ k \in 1..Len(d)
      BY <1>1, <1>2, <2>1
    <3> QED BY <3>1 DEF Sound
  <2>2. CASE k = i
    <3>1. D[k] = e /\ Rng(D, k - 1) = Rng(d, i - 1)
      BY <1>1, <1>2, <2>2
    <3>2. ParentOf(e.path) = <<>> \/ \E l \in Rng(d, i - 1) : l.path = ParentOf(e.path)
      BY DEF Rng
    <3>3. \A l \in Rng(d, i - 1) : l.path # e.path /\ NamesOf(l) \cap NamesOf(e) = {}
      BY DEF Rng
    <3> QED BY <3>1, <3>2, <3>3 DEF Accepts
  <2>3. CASE k > i
    <3>1. D[k] = d[k - 1] /\ k - 1 \in 1..Len(d)
      BY <1>1, <2>3
    <3>2. Rng(D, k - 1) = Rng(d, (k - 1) - 1) \cup {e}
      BY <1>3, <2>3
    <3>3. Accepts(Rng(d, (k - 1) - 1), d[k - 1])
      BY <3>1 DEF Sound
    <3>4. d[k - 1].path # e.path /\ NamesOf(e) \cap NamesOf(d[k - 1]) = {}
      BY <3>1
    <3> QED BY <3>1, <3>2, <3>3, <3>4 DEF Accepts
  <2> QED BY <2>1, <2>2, <2>3
<1>5. Sound(D)
  BY <1>1, <1>4 DEF Sound
<1>6. Rng(D, Len(d) + 1) = Rng(d, Len(d)) \cup {e}
  <2>1. Len(d) + 1 \in i..(Len(d) + 1) /\ (Len(d) + 1) - 1 = Len(d)
    OBVIOUS
  <2> QED BY <1>3, <2>1
<1> QED BY <1>5, <1>6 DEF D

\* No description quotes a topic.
Plain(d) == \A i \in 1..Len(d) : d[i].quotes = <<>>

\* The topics of a file without errors are the paths of its lines.
LEMMA SoundNodes ==
  ASSUME NEW d \in Seq(Line), Sound(d)
  PROVE  /\ \A i \in 1..Len(d) : d[i].path \in Nodes(d)
         /\ \A p \in Nodes(d) : \E i \in 1..Len(d) : d[i].path = p
BY NoErrorsSound DEF Nodes, Rng

LEMMA PathFacts ==
  ASSUME NEW p \in Topic
  PROVE  /\ p \in Seq(Name) /\ p # <<>> /\ Len(p) \in Nat \ {0}
         /\ Slug(p) \in Name /\ Slug(p) \in Nat
<1>1. p \in Seq(Name) /\ p # <<>>
  OBVIOUS
<1>2. Len(p) \in Nat /\ Len(p) # 0
  BY <1>1
<1>3. p[Len(p)] \in Name
  BY <1>1, <1>2
<1>4. Slug(p) \in Name
  BY <1>3 DEF Slug
<1> QED BY <1>1, <1>2, <1>4

LEMMA LineFacts ==
  ASSUME NEW d \in Seq(Line), NEW i \in 1..Len(d)
  PROVE  d[i] \in Line /\ d[i].path \in Topic /\ d[i].alias \subseteq Name
<1>1. d[i] \in Line
  OBVIOUS
<1> QED BY <1>1 DEF Line

\* Of a topic some line declares, a line is found: its own, unless another one
\* quotes it.
LEMMA NodeLineFound ==
  ASSUME NEW d \in Seq(Line), NEW p, p # <<>>, NEW k \in 1..Len(d), d[k].path = p
  PROVE  /\ FindNodeLine(d, p) \in 1..Len(d)
         /\ Plain(d) => d[FindNodeLine(d, p)].path = p
<1> DEFINE H == {i \in 1..Len(d) : p \in {d[i].path, d[i].quotes}}
           Q(i) == /\ p \in {d[i].path, d[i].quotes}
                   /\ \A j \in 1..(i - 1) : p \notin {d[j].path, d[j].quotes}
<1>1. H \subseteq Nat /\ H # {}
  OBVIOUS
<1>2. PICK m \in H : \A y \in H : m <= y
  BY <1>1, NatMin
<1>3. \A j \in 1..(m - 1) : j \in 1..Len(d) /\ ~(m <= j)
  OBVIOUS
<1>4. m \in 1..Len(d) /\ Q(m)
  BY <1>2, <1>3
<1>5. FindNodeLine(d, p) = CHOOSE i \in 1..Len(d) : Q(i)
  BY DEF FindNodeLine
<1>6. FindNodeLine(d, p) \in 1..Len(d) /\ Q(FindNodeLine(d, p))
  <2> HIDE DEF Q
  <2> QED BY <1>4, <1>5
<1> QED BY <1>6 DEF Plain

LEMMA SlugsBounded ==
  ASSUME NEW d \in Seq(Line)
  PROVE  \E m \in Nat : \A i \in 1..Len(d) : Slug(d[i].path) <= m
<1> DEFINE P == {k \in Nat : k <= Len(d) => \E m \in Nat : \A i \in 1..k : Slug(d[i].path) <= m}
<1>1. 0 \in P
  OBVIOUS
<1>2. ASSUME NEW k \in Nat, k \in P PROVE k + 1 \in P
  <2> SUFFICES ASSUME k + 1 <= Len(d)
               PROVE  \E m \in Nat : \A i \in 1..(k + 1) : Slug(d[i].path) <= m
    OBVIOUS
  <2>1. PICK m \in Nat : \A i \in 1..k : Slug(d[i].path) <= m
    BY <1>2
  <2>2. d[k + 1].path \in Topic
    <3>1. k + 1 \in 1..Len(d)
      OBVIOUS
    <3> QED BY <3>1, LineFacts
  <2> DEFINE s == Slug(d[k + 1].path)
  <2>3. s \in Nat
    BY <2>2, PathFacts
  <2>4. \A i \in 1..(k + 1) : i \in 1..k \/ i = k + 1
    OBVIOUS
  <2>5. m + s \in Nat /\ m <= m + s /\ s <= m + s
    BY <2>3
  <2>6. ASSUME NEW i \in 1..k PROVE Slug(d[i].path) <= m + s
    <3>1. d[i].path \in Topic
      <4>1. i \in 1..Len(d)
        OBVIOUS
      <4> QED BY <4>1, LineFacts
    <3>2. Slug(d[i].path) \in Nat
      BY <3>1, PathFacts
    <3> QED BY <2>1, <2>5, <3>2, <2>3
  <2> QED BY <2>4, <2>5, <2>6
<1>3. \A k \in Nat : k \in P
  <2> HIDE DEF P
  <2> QED BY <1>1, <1>2, NatSetInduction
<1>4. Len(d) \in P
  <2>1. Len(d) \in Nat
    OBVIOUS
  <2> HIDE DEF P
  <2> QED BY <1>3, <2>1
<1> QED BY <1>4

\* Every topic has a line.
LEMMA NodeLines ==
  ASSUME NEW d \in Seq(Line), NEW p \in Nodes(d)
  PROVE  p \in Topic /\ \E i \in 1..Len(d) : d[i].path = p
<1>1. PICK l \in ParseVocabulary(d) : l.path = p
  BY DEF Nodes
<1>2. PICK i \in 1..Len(d) : d[i] = l
  BY ParsedTidy DEF Rng
<1> QED BY <1>1, <1>2, LineFacts

\* Of some topics of a file, the one with the least and with the greatest slug.
LEMMA SlugEnds ==
  ASSUME NEW d \in Seq(Line), NEW S, S \subseteq Nodes(d), S # {}
  PROVE  /\ \E q \in S : \A r \in S : Slug(q) <= Slug(r)
         /\ \E q \in S : \A r \in S : Slug(r) <= Slug(q)
<1> DEFINE T == {Slug(q) : q \in S}
<1>1. \A q \in S : q \in Topic /\ \E i \in 1..Len(d) : d[i].path = q
  BY NodeLines
<1>2. T \subseteq Nat /\ T # {}
  BY <1>1, PathFacts
<1>3. PICK m \in Nat : \A i \in 1..Len(d) : Slug(d[i].path) <= m
  BY SlugsBounded
<1>4. \A y \in T : y <= m
  BY <1>1, <1>3
<1>5. \E x \in T : \A y \in T : x <= y
  <2> HIDE DEF T
  <2> QED BY <1>2, NatMin
<1>6. \E x \in T : \A y \in T : y <= x
  <2> HIDE DEF T
  <2> QED BY <1>2, <1>4, BoundedMax
<1> QED BY <1>5, <1>6

\* Where a topic goes: into the file, and behind the line of its parent.
LEMMA IndexFollowsParent ==
  ASSUME NEW d \in Seq(Line), NEW p \in Topic, MayAdd(d, p)
  PROVE  /\ FindInsertionIndex(d, p) \in 1..(Len(d) + 1)
         /\ Plain(d) /\ Sound(d) =>
              \/ ParentOf(p) = <<>>
              \/ \E k \in 1..(FindInsertionIndex(d, p) - 1) : d[k].path = ParentOf(p)
<1> DEFINE Behind(j) == Plain(d) /\ Sound(d) =>
                          ParentOf(p) = <<>> \/ \E k \in 1..(j - 1) : d[k].path = ParentOf(p)
           siblings == Children(Nodes(d), ParentOf(p))
           after    == {q \in siblings : Slug(p) < Slug(q)}
           first    == CHOOSE q \in after : \A r \in after : Slug(q) <= Slug(r)
           last     == CHOOSE q \in siblings : \A r \in siblings : Slug(r) <= Slug(q)
           ix == FindInsertionIndex(d, p)
<1>1. siblings \subseteq Nodes(d) /\ after \subseteq Nodes(d) /\ after \subseteq siblings
  BY DEF Children
\* A sibling stands behind their parent.
<1>2. ASSUME NEW q \in siblings
      PROVE  /\ q # <<>> /\ \E i \in 1..Len(d) : d[i].path = q
             /\ \A i \in 1..Len(d) : (Plain(d) => d[i].path = q) => Behind(i)
  <2>1. q \in Nodes(d) /\ ParentOf(q) = ParentOf(p)
    BY DEF Children
  <2>2. PICK i \in 1..Len(d) : d[i].path = q
    BY <2>1, NodeLines
  <2>3. q \in Topic
    BY <2>2, LineFacts
  <2>4. ASSUME NEW j \in 1..Len(d), Plain(d) => d[j].path = q, Plain(d), Sound(d)
        PROVE  ParentOf(p) = <<>> \/ \E k \in 1..(j - 1) : d[k].path = ParentOf(p)
    <3>1. Accepts(Rng(d, j - 1), d[j])
      BY <2>4 DEF Sound
    <3> QED BY <2>1, <2>4, <3>1 DEF Accepts, Rng
  <2> QED BY <2>2, <2>3, <2>4, PathFacts
<1>3. CASE after # {}
  <2>1. \E q \in after : \A r \in after : Slug(q) <= Slug(r)
    <3> HIDE DEF after
    <3> QED BY <1>1, <1>3, SlugEnds
  <2>2. first \in after
    <3> HIDE DEF after
    <3> QED BY <2>1
  <2>3. ix = FindNodeLine(d, first)
    BY <1>3 DEF FindInsertionIndex
  <2> HIDE DEF first, after
  <2>4. first \in siblings
    BY <1>1, <2>2
  <2> HIDE DEF siblings
  <2>5. ix \in 1..Len(d) /\ (Plain(d) => d[ix].path = first)
    BY <1>2, <2>3, <2>4, NodeLineFound
  <2>6. ix \in 1..(Len(d) + 1)
    BY <2>5
  <2>7. Behind(ix)
    BY <1>2, <2>4, <2>5
  <2> QED BY <2>6, <2>7
<1>4. CASE after = {} /\ siblings # {}
  <2>1. \E q \in siblings : \A r \in siblings : Slug(r) <= Slug(q)
    <3> HIDE DEF siblings
    <3> QED BY <1>1, <1>4, SlugEnds
  <2>2. last \in siblings
    <3> HIDE DEF siblings
    <3> QED BY <2>1
  <2>3. ix = FindSubtreeEnd(d, last)
    BY <1>4 DEF FindInsertionIndex
  <2> HIDE DEF last, after, siblings
  <2> DEFINE from == FindNodeLine(d, last)
             ends == {i \in (from + 1)..Len(d) :
                        \E q \in Nodes(d) : Under(q, last) /\ q \in {d[i].path, d[i].quotes}}
  <2>4. ix = 1 + Max(ends \cup {from})
    BY <2>3 DEF FindSubtreeEnd
  <2>5. from \in 1..Len(d) /\ (Plain(d) => d[from].path = last)
    BY <1>2, <2>2, NodeLineFound
  <2> HIDE DEF from
  <2>6. ends \cup {from} \subseteq Nat /\ from \in ends \cup {from} /\ \A y \in ends \cup {from} : y <= Len(d)
    BY <2>5
  <2> HIDE DEF ends
  <2> DEFINE M == Max(ends \cup {from})
  <2>7. M \in ends \cup {from} /\ \A y \in ends \cup {from} : y <= M
    <3>1. Len(d) \in Nat /\ ends \cup {from} # {}
      OBVIOUS
    <3> QED BY <2>6, <3>1, BoundedMax
  <2>8. ix \in 1..(Len(d) + 1) /\ from <= ix - 1
    <3>1. ix = 1 + M
      BY <2>4
    <3> HIDE DEF M, ix
    <3>2. M \in Nat /\ M <= Len(d) /\ from <= M
      BY <2>6, <2>7
    <3> QED BY <2>5, <3>1, <3>2
  <2>9. Behind(from)
    BY <1>2, <2>2, <2>5
  <2> HIDE DEF ix
  <2>10. \A k \in 1..(from - 1) : k \in 1..(ix - 1)
    BY <2>5, <2>8
  <2>11. Behind(ix)
    BY <2>9, <2>10
  <2> QED BY <2>8, <2>11 DEF ix
<1>5. CASE siblings = {} /\ ParentOf(p) = <<>>
  <2>1. ix = Len(d) + 1
    BY <1>5 DEF FindInsertionIndex
  <2> QED BY <1>5, <2>1
<1>6. CASE siblings = {} /\ ParentOf(p) # <<>>
  <2>1. ix = FindNodeLine(d, ParentOf(p)) + 1
    BY <1>6 DEF FindInsertionIndex
  <2>2. ParentOf(p) \in Nodes(d)
    BY <1>6 DEF MayAdd
  <2>3. PICK i \in 1..Len(d) : d[i].path = ParentOf(p)
    BY <2>2, NodeLines
  <2>4. /\ FindNodeLine(d, ParentOf(p)) \in 1..Len(d)
        /\ Plain(d) => d[FindNodeLine(d, ParentOf(p))].path = ParentOf(p)
    BY <1>6, <2>3, NodeLineFound
  <2>5. ix \in 1..(Len(d) + 1) /\ ix - 1 = FindNodeLine(d, ParentOf(p)) /\ ix - 1 \in 1..(ix - 1)
    BY <2>1, <2>4
  <2> QED BY <2>4, <2>5
<1> QED BY <1>3, <1>4, <1>5, <1>6

\* A topic has the segments and the depth that the parser takes; the tools add
\* what they are called with.
WellFormed(p) == Len(p) <= MaxDepth /\ \A k \in 1..Len(p) : p[k] \notin BadName

LEMMA AddKept ==
  ASSUME NEW d \in Seq(Line), Plain(d), NoErrors(d), NEW p \in Topic, WellFormed(p), MayAdd(d, p)
  PROVE  /\ NoErrors(VocabularyAdd(d, p, <<>>))
         /\ Nodes(d) \subseteq Nodes(VocabularyAdd(d, p, <<>>))
         /\ p \in Nodes(VocabularyAdd(d, p, <<>>))
<1> DEFINE e == [path |-> p, alias |-> {}, quotes |-> <<>>]
           i == FindInsertionIndex(d, p)
           D == VocabularyAdd(d, p, <<>>)
<1>1. Sound(d) /\ ParseVocabulary(d) = Rng(d, Len(d))
  BY NoErrorsSound
<1>2. e \in Line /\ e.path = p /\ NamesOf(e) = {Slug(p)}
  BY DEF Line, NamesOf
<1>3. /\ i \in 1..(Len(d) + 1)
      /\ ParentOf(p) = <<>> \/ \E k \in 1..(i - 1) : d[k].path = ParentOf(p)
  BY <1>1, IndexFollowsParent
<1>4. ASSUME NEW k \in 1..Len(d) PROVE d[k].path # p /\ NamesOf(d[k]) \cap {Slug(p)} = {}
  <2>1. d[k].path \in Nodes(d)
    BY <1>1, SoundNodes
  <2>2. d[k] \in ParseVocabulary(d)
    BY <1>1 DEF Rng
  <2>3. NamesOf(d[k]) \subseteq UsedNames(d)
    BY <2>2 DEF UsedNames
  <2> QED BY <2>1, <2>3 DEF MayAdd
<1>5. D = InsertAt(d, i, e)
  BY DEF VocabularyAdd
<1> HIDE DEF i, e, D
<1>6. Sound(D) /\ Rng(D, Len(d) + 1) = Rng(d, Len(d)) \cup {e}
  <2>1. \A k \in 1..Len(e.path) : e.path[k] \notin BadName
    BY <1>2 DEF WellFormed
  <2>2. Len(e.path) <= MaxDepth
    BY <1>2 DEF WellFormed
  <2>3. ParentOf(e.path) = <<>> \/ \E k \in 1..(i - 1) : d[k].path = ParentOf(e.path)
    BY <1>2, <1>3
  <2>4. \A k \in 1..Len(d) : d[k].path # e.path /\ NamesOf(d[k]) \cap NamesOf(e) = {}
    BY <1>2, <1>4
  <2> QED BY <1>1, <1>2, <1>3, <1>5, <2>1, <2>2, <2>3, <2>4, InsertSound
<1>7. D \in Seq(Line) /\ Len(D) = Len(d) + 1
  BY <1>2, <1>3, <1>5, Inserted
<1>8. NoErrors(D) /\ ParseVocabulary(D) = Rng(d, Len(d)) \cup {e}
  BY <1>6, <1>7, NoErrorsSound
<1>9. Nodes(d) \subseteq Nodes(D) /\ p \in Nodes(D)
  BY <1>1, <1>2, <1>8 DEF Nodes
<1> QED BY <1>8, <1>9 DEF D

\* A new alias is nobody's name, and the line keeps its place.
LEMMA AliasKept ==
  ASSUME NEW d \in Seq(Line), Plain(d), NoErrors(d), NEW p, NEW a \in Name, MayAlias(d, p, a)
  PROVE  /\ NoErrors(VocabularyAlias(d, p, a))
         /\ Nodes(d) \subseteq Nodes(VocabularyAlias(d, p, a))
<1> DEFINE i == FindNodeLine(d, p)
           e == [path |-> p, alias |-> {a} \cup d[i].alias, quotes |-> d[i].quotes]
           D == VocabularyAlias(d, p, a)
<1>1. Sound(d) /\ ParseVocabulary(d) = Rng(d, Len(d))
  BY NoErrorsSound
<1>2. PICK k \in 1..Len(d) : d[k].path = p
  BY <1>1, SoundNodes DEF MayAlias
<1>3. p \in Topic /\ p # <<>>
  BY <1>2, LineFacts
<1>4. i \in 1..Len(d) /\ d[i].path = p
  BY <1>2, <1>3, NodeLineFound
<1>5. D = [d EXCEPT ![i] = e]
  BY <1>4 DEF VocabularyAlias, ReplaceAt
<1>6. e \in Line /\ e.path = p /\ NamesOf(e) = NamesOf(d[i]) \cup {a}
  <2>1. d[i] \in Line
    BY <1>4
  <2> QED BY <1>3, <1>4, <2>1 DEF Line, NamesOf
<1>7. \A j \in 1..Len(d) : a \notin NamesOf(d[j])
  BY <1>1 DEF MayAlias, UsedNames, Rng
<1> HIDE DEF i, e, D
<1>8. /\ D \in Seq(Line) /\ Len(D) = Len(d) /\ D[i] = e
      /\ \A j \in 1..Len(d) : j # i => D[j] = d[j]
  BY <1>4, <1>5, <1>6
<1>9. ASSUME NEW j \in 1..Len(d) PROVE D[j].path = d[j].path /\ NamesOf(d[j]) \subseteq NamesOf(D[j]) /\ NamesOf(D[j]) \subseteq NamesOf(d[j]) \cup {a}
  BY <1>4, <1>6, <1>8
<1>10. ASSUME NEW j \in 1..Len(d) PROVE Accepts(Rng(D, j - 1), D[j])
  <2>1. Accepts(Rng(d, j - 1), d[j])
    BY <1>1 DEF Sound
  <2>2. ParentOf(D[j].path) = <<>> \/ \E l \in Rng(D, j - 1) : l.path = ParentOf(D[j].path)
    <3>1. CASE ParentOf(d[j].path) = <<>>
      BY <1>9, <3>1
    <3>2. CASE \E l \in Rng(d, j - 1) : l.path = ParentOf(d[j].path)
      <4>1. PICK h \in 1..(j - 1) : d[h].path = ParentOf(d[j].path)
        BY <3>2 DEF Rng
      <4>2. D[h].path = ParentOf(D[j].path)
        BY <1>9, <4>1
      <4> QED BY <4>2 DEF Rng
    <3> QED BY <2>1, <3>1, <3>2 DEF Accepts
  <2>3. ASSUME NEW h \in 1..(j - 1) PROVE D[h].path # D[j].path /\ NamesOf(D[h]) \cap NamesOf(D[j]) = {}
    <3>1. d[h].path # d[j].path /\ NamesOf(d[h]) \cap NamesOf(d[j]) = {}
      BY <2>1 DEF Accepts, Rng
    <3>2. h \in 1..Len(d) /\ h # j
      OBVIOUS
    <3>3. NamesOf(D[h]) = NamesOf(d[h]) \/ NamesOf(D[j]) = NamesOf(d[j])
      BY <1>8, <3>2
    <3>4. a \notin NamesOf(d[h]) /\ a \notin NamesOf(d[j])
      BY <1>7, <3>2
    <3> QED BY <1>9, <3>1, <3>2, <3>3, <3>4
  <2> QED BY <1>9, <2>1, <2>2, <2>3 DEF Accepts, Rng
<1>11. Sound(D)
  BY <1>8, <1>10 DEF Sound
<1>12. NoErrors(D)
  BY <1>8, <1>11, NoErrorsSound
<1>13. Nodes(d) \subseteq Nodes(D)
  <2> SUFFICES ASSUME NEW q \in Nodes(d) PROVE q \in Nodes(D)
    OBVIOUS
  <2>1. PICK j \in 1..Len(d) : d[j].path = q
    BY <1>1, SoundNodes
  <2>2. D[j].path = q /\ j \in 1..Len(D)
    BY <1>8, <1>9, <2>1
  <2> QED BY <1>8, <1>11, <2>2, SoundNodes
<1> QED BY <1>12, <1>13 DEF D

-----------------------------------------------------------------------------
(* The calls.                                                              *)

USE VaultTopicsAssumption

IsCall == /\ call = [op |-> call.op, topic |-> call.topic, todo |-> call.todo]
          /\ call.todo = [n \in DOMAIN call.todo |-> call.todo[n]]

\* A promote writes what the note said when it was planned, and the topic.
Planned ==
  ~EditDuringCall /\ call.op \in {"promote", "promoting"} =>
    \A n \in DOMAIN call.todo : /\ call.todo[n].tags = note[n].tags \cup {call.topic}
                                /\ call.todo[n].prop = note[n].prop \ {call.topic}

\* A classification writes topics that are declared.
Sorted ==
  ~EditDuringCall /\ call.op = "classify" =>
    \A n \in DOMAIN call.todo : call.todo[n].tags \subseteq Nodes(doc)

\* A promote that goes on to the notes has the line of its topic in the file.
HasLine ==
  ~EditDuringCall /\ call.op = "promoting" => \E i \in 1..Len(doc) : doc[i].path = call.topic

VInv == TypeOK /\ IsCall /\ (call.op \in {"promote", "promoting"} => call.topic \in Wanted)
          /\ Planned /\ Sorted /\ HasLine

LEMMA NodesAreTopics ==
  ASSUME NEW d \in Seq(Line)
  PROVE  Nodes(d) \subseteq Topic
BY NodeLines

LEMMA PatchFacts ==
  ASSUME NEW d \in Seq(Line), NEW temas, temas \subseteq Topic
  PROVE  /\ BuildPatch(d, temas) \in Patch
         /\ BuildPatch(d, temas).tags \subseteq Nodes(d)
<1>1. ASSUME NEW t PROVE ResolveTopic(d, t) \in Nodes(d) \cup {<<>>}
  <2> DEFINE named == {l \in ParseVocabulary(d) : t = <<Slug(l.path)>>
                                          \/ \E a \in l.alias : t = <<a>>}
  <2>1. CASE t \in Nodes(d)
    BY <2>1 DEF ResolveTopic
  <2>2. CASE t \notin Nodes(d) /\ named = {}
    BY <2>2 DEF ResolveTopic
  <2>3. CASE t \notin Nodes(d) /\ named # {}
    <3>1. (CHOOSE l \in named : TRUE) \in named
      BY <2>3
    <3>2. ResolveTopic(d, t) = (CHOOSE l \in named : TRUE).path
      BY <2>3 DEF ResolveTopic
    <3> QED BY <3>1, <3>2 DEF Nodes
  <2> QED BY <2>1, <2>2, <2>3
<1>2. Resolved(d, temas) \subseteq Nodes(d)
  BY <1>1 DEF Resolved
<1>3. Unknown(d, temas) \subseteq Topic
  BY DEF Unknown
<1> QED BY <1>2, <1>3, NodesAreTopics DEF BuildPatch, Patch

\* What is written on a note is a note, and only its topics are new.
LEMMA NoteTopics ==
  ASSUME NEW s \in NoteState, NEW T \in SUBSET Topic, NEW P \in SUBSET Topic
  PROVE  /\ [s EXCEPT !.tags = T, !.prop = P] \in NoteState
         /\ [s EXCEPT !.tags = T, !.prop = P].tags = T
         /\ [s EXCEPT !.tags = T, !.prop = P].prop = P
         /\ [s EXCEPT !.tags = T, !.prop = P].body = s.body
BY DEF NoteState

LEMMA InitVInv == Init => VInv
<1> SUFFICES ASSUME Init PROVE VInv
  OBVIOUS
<1>1. call = Idle /\ Idle.op = "none" /\ Idle.todo = <<>> /\ Idle.topic = <<>> /\ DOMAIN <<>> = {}
  BY DEF Init, Idle
<1>2. \A n \in Note : note[n] \in NoteState
  BY DEF Init, NoteState, Absent
<1>3. note \in [Note -> NoteState]
  BY <1>2 DEF Init
<1>4. TypeOK
  BY <1>1, <1>3 DEF Init, TypeOK
<1>5. IsCall
  BY <1>1 DEF IsCall, Idle
<1> QED BY <1>1, <1>4, <1>5 DEF VInv, Planned, Sorted, HasLine

\* Between two calls only the types say anything of the call.
LEMMA NoCallVInv ==
  ASSUME call' = Idle, doc' \in Seq(Line), note' \in [Note -> NoteState],
         calls' \in 0..MaxCalls, edits' \in 0..MaxEdits
  PROVE  VInv'
<1>1. call'.op = "none" /\ call'.todo = <<>> /\ call'.topic = <<>> /\ DOMAIN call'.todo = {}
  BY DEF Idle
<1>2. TypeOK'
  BY <1>1 DEF TypeOK
<1>3. IsCall'
  BY <1>1 DEF IsCall, Idle
<1> QED BY <1>1, <1>2, <1>3 DEF VInv, Planned, Sorted, HasLine

LEMMA IdleCall ==
  ASSUME VInv, call.op = "none"
  PROVE  call'.op = "none" /\ call' = call => IsCall' /\ Planned' /\ Sorted' /\ HasLine'
BY DEF VInv, IsCall, Planned, Sorted, HasLine

\* The file and the notes may change while no call is under way.
LEMMA QuietVInv ==
  ASSUME VInv, call.op = "none", call' = call, doc' \in Seq(Line), note' \in [Note -> NoteState],
         calls' \in 0..MaxCalls, edits' \in 0..MaxEdits
  PROVE  VInv'
<1>1. TypeOK'
  BY DEF VInv, TypeOK
<1> QED BY <1>1, IdleCall DEF VInv

LEMMA DocTypes ==
  ASSUME NEW d \in Seq(Line), NEW p \in Topic
  PROVE  /\ \A q \in Topic \cup {<<>>} : MayAdd(d, p) =>
              /\ VocabularyAdd(d, p, q) \in Seq(Line)
              /\ \E i \in 1..Len(VocabularyAdd(d, p, q)) : VocabularyAdd(d, p, q)[i].path = p
         /\ \A a \in Name : MayAlias(d, p, a) => VocabularyAlias(d, p, a) \in Seq(Line)
<1>1. ASSUME NEW q \in Topic \cup {<<>>}, MayAdd(d, p)
      PROVE  /\ VocabularyAdd(d, p, q) \in Seq(Line)
             /\ \E i \in 1..Len(VocabularyAdd(d, p, q)) : VocabularyAdd(d, p, q)[i].path = p
  <2> DEFINE i == FindInsertionIndex(d, p)
             e == [path |-> p, alias |-> {}, quotes |-> q]
  <2>1. e \in Line /\ e.path = p
    BY DEF Line
  <2>2. i \in 1..(Len(d) + 1)
    BY <1>1, IndexFollowsParent
  <2>3. VocabularyAdd(d, p, q) = InsertAt(d, i, e)
    BY DEF VocabularyAdd
  <2> HIDE DEF i, e
  <2>4. InsertAt(d, i, e) \in Seq(Line)
    BY <2>1, <2>2, Inserted
  <2>5. Len(InsertAt(d, i, e)) = Len(d) + 1 /\ InsertAt(d, i, e)[i] = e
    BY <2>1, <2>2, Inserted
  <2>6. i \in 1..Len(InsertAt(d, i, e))
    BY <2>2, <2>5
  <2> QED BY <2>1, <2>3, <2>4, <2>5, <2>6
<1>2. ASSUME NEW a \in Name, MayAlias(d, p, a) PROVE VocabularyAlias(d, p, a) \in Seq(Line)
  <2> DEFINE i == FindNodeLine(d, p)
             own == d[i].path = p
             e == [path |-> p, alias |-> {a} \cup (IF own THEN d[i].alias ELSE {}),
                   quotes |-> IF own THEN d[i].quotes ELSE <<>>]
  <2>1. PICK k \in 1..Len(d) : d[k].path = p
    BY <1>2, NodeLines DEF MayAlias
  <2>2. i \in 1..Len(d)
    BY <2>1, PathFacts, NodeLineFound
  <2> HIDE DEF i, own, e
  <2>6. d[i] \in Line
    BY <2>2, LineFacts
  <2>3. d[i].alias \subseteq Name /\ d[i].quotes \in Topic \cup {<<>>}
    BY <2>6 DEF Line
  <2>4. e \in Line
    BY <2>3 DEF Line, e
  <2>5. VocabularyAlias(d, p, a) = [d EXCEPT ![i] = e]
    BY DEF VocabularyAlias, ReplaceAt, i, own, e
  <2> QED BY <2>2, <2>4, <2>5
<1> QED BY <1>1, <1>2

LEMMA VocabularyStep ==
  ASSUME VInv, NEW p \in Wanted,
         \/ \E q \in Quoted : AddTopic(p, q)
         \/ \E a \in Name : AddAlias(p, a)
         \/ \E lines \in Applied, replace \in BOOLEAN : Apply(lines, replace)
  PROVE  VInv' /\ UNCHANGED note
<1>1. /\ call.op = "none" /\ UNCHANGED <<note, call, edits>> /\ calls' \in 0..MaxCalls
      /\ doc \in Seq(Line) /\ note \in [Note -> NoteState] /\ edits \in 0..MaxEdits
  BY DEF AddTopic, AddAlias, Apply, Begin, VInv, TypeOK
<1>2. p \in Topic /\ \A q \in Quoted : q \in Topic \cup {<<>>}
  OBVIOUS
<1>3. doc' \in Seq(Line)
  <2>1. CASE \E q \in Quoted : AddTopic(p, q)
    BY <1>1, <1>2, <2>1, DocTypes DEF AddTopic
  <2>2. CASE \E a \in Name : AddAlias(p, a)
    BY <1>1, <1>2, <2>2, DocTypes DEF AddAlias
  <2>3. CASE \E lines \in Applied, replace \in BOOLEAN : Apply(lines, replace)
    BY <2>3 DEF Apply
  <2> QED BY <2>1, <2>2, <2>3
<1> QED BY <1>1, <1>3, QuietVInv

LEMMA PlanStep ==
  ASSUME VInv, NEW p \in Wanted, PromotePlan(p)
  PROVE  VInv' /\ UNCHANGED note
<1> DEFINE asking == {n \in Note : p \in note[n].prop \cup note[n].tags}
           todo == [n \in asking |-> [tags |-> note[n].tags \cup {p}, prop |-> note[n].prop \ {p}]]
<1>1. /\ call' = [op |-> "promote", topic |-> p, todo |-> todo]
      /\ UNCHANGED <<doc, note, edits>> /\ calls' \in 0..MaxCalls /\ p \in Topic
  BY DEF PromotePlan, Begin, VInv, TypeOK
<1>2. /\ call'.op = "promote" /\ call'.topic = p /\ call'.todo = todo /\ DOMAIN todo = asking
      /\ asking \subseteq Note
  BY <1>1
<1>3. ASSUME NEW n \in asking
      PROVE  /\ todo[n] \in Patch /\ todo[n].tags = note[n].tags \cup {p}
             /\ todo[n].prop = note[n].prop \ {p}
  <2>1. note[n] \in NoteState
    BY DEF VInv, TypeOK
  <2> QED BY <1>1, <2>1 DEF NoteState, Patch
<1>4. TypeOK'
  <2> HIDE DEF todo
  <2> QED BY <1>1, <1>2, <1>3 DEF VInv, TypeOK
<1>5. IsCall'
  BY <1>1, <1>2 DEF IsCall
<1>6. Planned'
  <2> HIDE DEF todo
  <2> QED BY <1>1, <1>2, <1>3 DEF Planned
<1>7. Sorted' /\ HasLine'
  BY <1>2 DEF Sorted, HasLine
<1> QED BY <1>1, <1>2, <1>4, <1>5, <1>6, <1>7 DEF VInv

LEMMA PromoteStep ==
  ASSUME VInv, NEW q \in Quoted, PromoteVocabulary(q)
  PROVE  VInv' /\ UNCHANGED note
<1> DEFINE p == call.topic
<1>1. /\ call.op = "promote" /\ UNCHANGED <<note, calls, edits>> /\ p \in Topic
      /\ doc \in Seq(Line) /\ q \in Topic \cup {<<>>} /\ note \in [Note -> NoteState]
      /\ calls \in 0..MaxCalls /\ edits \in 0..MaxEdits
  BY DEF PromoteVocabulary, VInv, TypeOK
<1>2. CASE call' = Idle /\ doc' = doc
  BY <1>1, <1>2, NoCallVInv
<1>3. CASE /\ call' = [call EXCEPT !.op = "promoting"] /\ doc' \in Seq(Line)
           /\ \E i \in 1..Len(doc') : doc'[i].path = p
  <2>1. call'.op = "promoting" /\ call'.topic = p /\ call'.todo = call.todo
    BY <1>3 DEF VInv, IsCall
  <2>2. TypeOK'
    BY <1>1, <1>3, <2>1 DEF VInv, TypeOK
  <2>3. IsCall'
    BY <1>3, <2>1 DEF VInv, IsCall
  <2>4. Planned' /\ Sorted' /\ HasLine'
    BY <1>1, <1>3, <2>1 DEF VInv, Planned, Sorted, HasLine
  <2> QED BY <1>1, <2>1, <2>2, <2>3, <2>4 DEF VInv
<1>4. CASE p \in Nodes(doc)
  <2>1. doc' = doc /\ call' = [call EXCEPT !.op = "promoting"]
    BY <1>4 DEF PromoteVocabulary
  <2>2. \E i \in 1..Len(doc) : doc[i].path = p
    BY <1>1, <1>4, NodeLines
  <2> QED BY <1>1, <1>3, <2>1, <2>2
<1>5. CASE p \notin Nodes(doc) /\ MayAdd(doc, p)
  <2>1. doc' = VocabularyAdd(doc, p, q) /\ call' = [call EXCEPT !.op = "promoting"]
    BY <1>5 DEF PromoteVocabulary
  <2>2. doc' \in Seq(Line) /\ \E i \in 1..Len(doc') : doc'[i].path = p
    BY <1>1, <1>5, <2>1, DocTypes
  <2> QED BY <1>3, <2>1, <2>2
<1>6. CASE p \notin Nodes(doc) /\ ~MayAdd(doc, p)
  BY <1>2, <1>6 DEF PromoteVocabulary
<1>7. UNCHANGED note
  BY <1>1
<1> QED BY <1>4, <1>5, <1>6, <1>7

LEMMA ClassifyStep ==
  ASSUME VInv, NEW entries, \A n \in DOMAIN entries : n \in Note /\ entries[n] \subseteq Topic,
         Classify(entries)
  PROVE  VInv' /\ UNCHANGED note
<1> DEFINE those == {m \in DOMAIN entries : Exists(m)}
           todo == [n \in those |-> BuildPatch(doc, entries[n])]
<1>1. /\ call' = [op |-> "classify", topic |-> <<>>, todo |-> todo]
      /\ UNCHANGED <<doc, note, edits>> /\ calls' \in 0..MaxCalls /\ doc \in Seq(Line)
  BY DEF Classify, Begin, VInv, TypeOK
<1>2. /\ call'.op = "classify" /\ call'.todo = todo /\ DOMAIN todo = those /\ those \subseteq Note
  BY <1>1
<1>3. ASSUME NEW n \in those
      PROVE  todo[n] \in Patch /\ todo[n].tags \subseteq Nodes(doc)
  <2>1. entries[n] \subseteq Topic /\ todo[n] = BuildPatch(doc, entries[n])
    OBVIOUS
  <2> QED BY <1>1, <2>1, PatchFacts
<1> HIDE DEF those
<1>4. IsCall'
  BY <1>1, <1>2 DEF IsCall
<1> HIDE DEF todo
<1>5. TypeOK'
  BY <1>1, <1>2, <1>3 DEF VInv, TypeOK
<1>6. Planned' /\ Sorted' /\ HasLine'
  BY <1>1, <1>2, <1>3 DEF Planned, Sorted, HasLine
<1> QED BY <1>1, <1>2, <1>4, <1>5, <1>6 DEF VInv


LEMMA WriteNoteStep ==
  ASSUME VInv, NEW n \in Note, WriteNote(n)
  PROVE  /\ VInv'
         /\ ~EditDuringCall => note[n].prop \subseteq note'[n].prop \cup note'[n].tags
         /\ note'[n].body = note[n].body /\ note'[n].tags = call.todo[n].tags
         /\ \A m \in Note \ {n} : note'[m] = note[m]
<1> DEFINE rest == DOMAIN call.todo \ {n}
           todo == [m \in rest |-> call.todo[m]]
           T == call.todo[n].tags
           P == call.todo[n].prop \cup (IF call.op = "classify" THEN note[n].prop ELSE {})
<1>1. /\ call.op \in {"promoting", "classify"} /\ n \in DOMAIN call.todo
      /\ note' = [note EXCEPT ![n] = Updated(n, call.todo[n])]
      /\ call' = [call EXCEPT !.todo = todo] /\ UNCHANGED <<doc, calls, edits>>
  BY DEF WriteNote
<1>2. /\ note \in [Note -> NoteState] /\ note[n] \in NoteState /\ call.todo[n] \in Patch
      /\ DOMAIN call.todo \subseteq Note /\ doc \in Seq(Line)
  BY <1>1 DEF VInv, TypeOK
<1>3. /\ T \in SUBSET Topic /\ P \in SUBSET Topic
      /\ note[n].prop \subseteq Topic
  BY <1>2 DEF Patch, NoteState
<1>4. Updated(n, call.todo[n]) = [note[n] EXCEPT !.tags = T, !.prop = P]
  BY <1>2 DEF Updated, NoteState
<1> HIDE DEF T, P
<1>5. /\ note' \in [Note -> NoteState] /\ note'[n].tags = T /\ note'[n].prop = P
      /\ note'[n].body = note[n].body
  <2> DEFINE new == [note[n] EXCEPT !.tags = T, !.prop = P]
  <2>1. new \in NoteState /\ new.tags = T /\ new.prop = P /\ new.body = note[n].body
    BY <1>2, <1>3 DEF NoteState
  <2>2. note' = [note EXCEPT ![n] = new]
    BY <1>1, <1>4
  <2> HIDE DEF new
  <2>3. note'[n] = new
    BY <1>2, <2>2
  <2>4. note' \in [Note -> NoteState]
    BY <1>2, <2>1, <2>2
  <2> QED BY <2>1, <2>3, <2>4
<1>6. \A m \in Note \ {n} : note'[m] = note[m]
  BY <1>1, <1>2
<1>7. call'.op = call.op /\ call'.topic = call.topic /\ call'.todo = todo /\ DOMAIN todo = rest
  BY <1>1 DEF VInv, IsCall
<1>8. \A m \in rest : todo[m] = call.todo[m] /\ m \in Note \ {n}
  BY <1>2
<1>9. TypeOK'
  <2> HIDE DEF todo
  <2> QED BY <1>1, <1>2, <1>5, <1>7, <1>8 DEF VInv, TypeOK
<1>10. IsCall'
  BY <1>1, <1>7 DEF VInv, IsCall
<1>11. Planned'
  <2> HIDE DEF todo
  <2> QED BY <1>6, <1>7, <1>8 DEF VInv, Planned
<1>12. Sorted' /\ HasLine'
  <2> HIDE DEF todo
  <2> QED BY <1>1, <1>7, <1>8 DEF VInv, Sorted, HasLine
<1>13. VInv'
  BY <1>7, <1>9, <1>10, <1>11, <1>12 DEF VInv
<1>14. ASSUME ~EditDuringCall PROVE note[n].prop \subseteq P \cup T
  <2>1. CASE call.op = "classify"
    BY <2>1 DEF P
  <2>2. CASE call.op = "promoting"
    <3>1. call.todo[n].prop = note[n].prop \ {call.topic} /\ call.topic \in call.todo[n].tags
      BY <1>1, <1>14, <2>2 DEF VInv, Planned
    <3> QED BY <3>1 DEF P, T
  <2> QED BY <1>1, <2>1, <2>2
<1> QED BY <1>5, <1>6, <1>13, <1>14 DEF T

LEMMA StopStep ==
  ASSUME VInv, EndCall \/ Crash
  PROVE  VInv' /\ UNCHANGED note
BY NoCallVInv DEF EndCall, Crash, VInv, TypeOK

LEMMA SaveNoteStep ==
  ASSUME VInv, NEW n \in ToolNote, NEW p \in Wanted, NEW item \in Related(n),
         SaveNote(n, {p}, item)
  PROVE  /\ VInv' /\ call.op = "none"
         /\ note'[n].body # note[n].body /\ note'[n].tags \subseteq Nodes(doc)
         /\ \A m \in Note \ {n} : /\ note'[m].body = note[m].body
                                  /\ note'[m].tags = note[m].tags /\ note'[m].prop = note[m].prop
<1> DEFINE patch == BuildPatch(doc, {p})
           new == [tags |-> patch.tags, prop |-> patch.prop, links |-> item,
                   body |-> note[n].body + 1, mine |-> TRUE]
<1>1. /\ call.op = "none" /\ UNCHANGED <<doc, call, edits>> /\ calls' \in 0..MaxCalls
      /\ doc \in Seq(Line) /\ note \in [Note -> NoteState] /\ edits \in 0..MaxEdits
      /\ n \in Note /\ item \subseteq Note
  BY DEF SaveNote, Begin, VInv, TypeOK, Related
<1>2. patch.tags \subseteq Topic /\ patch.prop \subseteq Topic /\ patch.tags \subseteq Nodes(doc)
  BY <1>1, PatchFacts DEF Patch
<1>3. note' = [m \in Note |-> IF m = n THEN new ELSE IF m \in item THEN BackLinked(m, n) ELSE note[m]]
  BY DEF SaveNote
<1> HIDE DEF patch
<1>4. /\ new \in NoteState /\ new.body # note[n].body /\ new.tags = patch.tags
  <2>1. note[n].body \in Nat
    BY <1>1 DEF NoteState
  <2> QED BY <1>1, <1>2, <2>1 DEF NoteState
<1> HIDE DEF new
<1>5. ASSUME NEW m \in Note
      PROVE  /\ BackLinked(m, n) \in NoteState /\ BackLinked(m, n).body = note[m].body
             /\ BackLinked(m, n).tags = note[m].tags /\ BackLinked(m, n).prop = note[m].prop
  <2>1. note[m] \in NoteState
    BY <1>1
  <2> QED BY <1>1, <2>1 DEF NoteState, BackLinked
<1>6. \A m \in Note : note'[m] = IF m = n THEN new ELSE IF m \in item THEN BackLinked(m, n) ELSE note[m]
  BY <1>3
<1>7. \A m \in Note : note'[m] \in NoteState
  BY <1>1, <1>4, <1>5, <1>6
<1>8. note' \in [Note -> NoteState]
  BY <1>3, <1>7
<1>9. VInv'
  BY <1>1, <1>8, QuietVInv
<1>10. note'[n] = new
  BY <1>1, <1>6
<1>11. ASSUME NEW m \in Note \ {n}
       PROVE  /\ note'[m].body = note[m].body
              /\ note'[m].tags = note[m].tags /\ note'[m].prop = note[m].prop
  BY <1>5, <1>6
<1> QED BY <1>1, <1>2, <1>4, <1>9, <1>10, <1>11

LEMMA EditedVInv ==
  ASSUME VInv, MayEditTopics, UNCHANGED <<call, calls>>, edits' \in 0..MaxEdits,
         doc' \in Seq(Line), note' \in [Note -> NoteState]
  PROVE  VInv'
<1>1. TypeOK' /\ IsCall' /\ calls' \in 0..MaxCalls
  BY DEF VInv, TypeOK, IsCall
<1>2. CASE EditDuringCall
  BY <1>1, <1>2 DEF VInv, Planned, Sorted, HasLine
<1>3. CASE call.op = "none"
  BY <1>1, <1>3, QuietVInv
<1> QED BY <1>2, <1>3 DEF MayEditTopics

LEMMA UserVInv ==
  ASSUME VInv, UserStep
  PROVE  /\ VInv'
         /\ \A n \in Note : note'[n].body = note[n].body => note[n].prop \subseteq note'[n].prop
<1>0. /\ doc \in Seq(Line) /\ note \in [Note -> NoteState] /\ calls \in 0..MaxCalls
      /\ \A n \in Note : note[n] \in NoteState
  BY DEF VInv, TypeOK
<1>1. UNCHANGED <<call, calls>> /\ edits' \in 0..MaxEdits
  BY DEF UserStep, EditBody, Propose, TagNote, DropLine, Edit, VInv, TypeOK
<1>2. ASSUME NEW n \in Note, EditBody(n)
      PROVE  VInv' /\ \A m \in Note : note'[m].tags = note[m].tags /\ note'[m].prop = note[m].prop
  <2> DEFINE new == [note[n] EXCEPT !.body = @ + 1]
  <2>1. note' = [note EXCEPT ![n] = new] /\ doc' = doc
    BY <1>2 DEF EditBody
  <2>2. new \in NoteState /\ new.tags = note[n].tags /\ new.prop = note[n].prop
    <3>1. note[n] \in NoteState
      BY <1>0
    <3>2. note[n].body + 1 \in Nat
      BY <3>1 DEF NoteState
    <3>3. new = [note[n] EXCEPT !.body = note[n].body + 1]
      OBVIOUS
    <3> HIDE DEF new
    <3>4. new \in NoteState
      BY <3>1, <3>2, <3>3 DEF NoteState
    <3>5. new.tags = note[n].tags /\ new.prop = note[n].prop
      BY <3>1, <3>3 DEF NoteState
    <3> QED BY <3>4, <3>5
  <2> HIDE DEF new
  <2>3. \A m \in Note : /\ note'[m] \in NoteState /\ note'[m].tags = note[m].tags
                        /\ note'[m].prop = note[m].prop
    BY <1>0, <2>1, <2>2
  <2>4. note' \in [Note -> NoteState]
    BY <1>0, <2>1, <2>2
  <2>5. TypeOK'
    BY <1>1, <2>1, <2>4 DEF VInv, TypeOK
  <2>6. IsCall' /\ Sorted' /\ HasLine'
    BY <1>1, <2>1 DEF VInv, IsCall, Sorted, HasLine
  <2>7. Planned'
    <3> SUFFICES ASSUME ~EditDuringCall, call'.op \in {"promote", "promoting"}, NEW m \in DOMAIN call'.todo
                 PROVE  /\ call'.todo[m].tags = note'[m].tags \cup {call'.topic}
                        /\ call'.todo[m].prop = note'[m].prop \ {call'.topic}
      BY DEF Planned
    <3>1. m \in Note /\ call.todo[m].tags = note[m].tags \cup {call.topic}
                     /\ call.todo[m].prop = note[m].prop \ {call.topic}
      BY <1>1 DEF VInv, TypeOK, Planned
    <3> QED BY <1>1, <2>3, <3>1
  <2> QED BY <1>1, <2>3, <2>5, <2>6, <2>7 DEF VInv
<1>3. ASSUME NEW n \in Note, NEW p \in Wanted, Propose(n, p) \/ TagNote(n, p)
      PROVE  VInv' /\ \A m \in Note : note[m].prop \subseteq note'[m].prop
  <2> DEFINE more == [note[n] EXCEPT !.prop = @ \cup {p}]
             tagged == [note[n] EXCEPT !.tags = @ \cup {p}]
  <2>1. doc' = doc /\ MayEditTopics
    BY <1>3 DEF Propose, TagNote
  <2>2. /\ more \in NoteState /\ note[n].prop \subseteq more.prop
        /\ tagged \in NoteState /\ note[n].prop \subseteq tagged.prop
    <3>1. note[n] \in NoteState /\ p \in Topic
      BY <1>0
    <3>2. more \in NoteState /\ note[n].prop \subseteq more.prop
      BY <3>1 DEF NoteState
    <3>3. tagged \in NoteState /\ note[n].prop \subseteq tagged.prop
      BY <3>1 DEF NoteState
    <3> QED BY <3>2, <3>3
  <2>3. note' = [note EXCEPT ![n] = more] \/ note' = [note EXCEPT ![n] = tagged]
    BY <1>3 DEF Propose, TagNote
  <2> HIDE DEF more, tagged
  <2>4. note' \in [Note -> NoteState]
    BY <1>0, <2>2, <2>3
  <2>5. \A m \in Note : note[m].prop \subseteq note'[m].prop
    BY <1>0, <2>2, <2>3
  <2> QED BY <1>0, <1>1, <2>1, <2>4, <2>5, EditedVInv
<1>4. ASSUME NEW i \in 1..Len(doc), DropLine(i)
      PROVE  VInv' /\ note' = note
  <2>1. MayEditTopics /\ note' = note /\ doc' = RemoveAt(doc, i)
    BY <1>4 DEF DropLine
  <2>2. doc' \in Seq(Line)
    BY <1>0, <2>1, Removed
  <2> QED BY <1>0, <1>1, <2>1, <2>2, EditedVInv
<1> QED BY <1>2, <1>3, <1>4 DEF UserStep


-----------------------------------------------------------------------------
(* All the steps of a tool.                                                *)

Vocabulary(p) == \/ \E q \in Quoted : AddTopic(p, q)
                 \/ \E a \in Name : AddAlias(p, a)

\* A step of a tool that writes no note, writes one, or saves one.
LEMMA ToolSteps ==
  ASSUME VInv, ToolStep
  PROVE  /\ VInv'
         /\ \/ UNCHANGED note
            \/ \E n \in Note : WriteNote(n)
            \/ \E n \in ToolNote, p \in Wanted : \E item \in Related(n) : SaveNote(n, {p}, item)
<1>1. ASSUME NEW p \in Wanted, NEW q \in Quoted, AddTopic(p, q) PROVE VInv' /\ UNCHANGED note
  BY <1>1, VocabularyStep
<1>2. ASSUME NEW p \in Wanted, NEW a \in Name, AddAlias(p, a) PROVE VInv' /\ UNCHANGED note
  BY <1>2, VocabularyStep
<1>3. ASSUME NEW lines \in Applied, NEW replace \in BOOLEAN, Apply(lines, replace)
      PROVE  VInv' /\ UNCHANGED note
  <2>1. lines \in Seq(Line)
    OBVIOUS
  <2> QED BY <1>3, <2>1, QuietVInv DEF Apply, Begin, VInv, TypeOK
<1>4. ASSUME NEW S \in SUBSET Note, NEW p \in Wanted, NEW q \in Wanted, Classify([n \in S |-> {p, q}])
      PROVE  VInv' /\ UNCHANGED note
  <2> DEFINE entries == [n \in S |-> {p, q}]
  <2>1. \A n \in DOMAIN entries : n \in Note /\ entries[n] \subseteq Topic
    OBVIOUS
  <2> HIDE DEF entries
  <2>2. Classify(entries)
    BY <1>4 DEF entries
  <2> QED BY <2>1, <2>2, ClassifyStep
<1>5. ASSUME NEW p \in Wanted, PromotePlan(p) PROVE VInv' /\ UNCHANGED note
  BY <1>5, PlanStep
<1>6. ASSUME NEW q \in Quoted, PromoteVocabulary(q) PROVE VInv' /\ UNCHANGED note
  BY <1>6, PromoteStep
<1>7. ASSUME NEW n \in Note, WriteNote(n) PROVE VInv'
  BY <1>7, WriteNoteStep
<1>8. ASSUME EndCall \/ Crash PROVE VInv' /\ UNCHANGED note
  BY <1>8, StopStep
<1>9. ASSUME NEW n \in ToolNote, NEW p \in Wanted, NEW item \in Related(n), SaveNote(n, {p}, item)
      PROVE  VInv'
  BY <1>9, SaveNoteStep
<1> QED BY <1>1, <1>2, <1>3, <1>4, <1>5, <1>6, <1>7, <1>8, <1>9 DEF ToolStep

LEMMA VInvStep == VInv /\ [Next]_vars => VInv'
<1> SUFFICES ASSUME VInv, [Next]_vars PROVE VInv'
  OBVIOUS
<1>1. CASE UserStep
  BY <1>1, UserVInv
<1>2. CASE ToolStep
  BY <1>2, ToolSteps
<1>3. CASE UNCHANGED vars
  BY <1>3 DEF vars, VInv, TypeOK, IsCall, Planned, Sorted, HasLine
<1> QED BY <1>1, <1>2, <1>3 DEF Next

LEMMA VInvAlways == Spec => []VInv
BY InitVInv, VInvStep, PTL DEF Spec

\* The file, the notes and the call under way keep their types, whatever the
\* user edits meanwhile.
THEOREM TypesAreKept == Spec => []TypeOK
<1>1. VInv => TypeOK
  BY DEF VInv
<1> QED BY <1>1, VInvAlways, PTL

\* What a note proposes is only dropped by giving it the tag.
KeepsProposals == \A n \in Note : note'[n].body = note[n].body =>
                    note[n].prop \subseteq note'[n].prop \cup note'[n].tags

\* A promote or a classification drops a proposal only from a note that gets
\* the tag (topics.ts, classify.ts), unless the user edits it meanwhile.
THEOREM ProposalsAreKept ==
  ASSUME ~EditDuringCall
  PROVE  Spec => ProposalsKept
<1>1. ASSUME VInv, [Next]_vars PROVE KeepsProposals
  <2>1. CASE UserStep
    BY <1>1, <2>1, UserVInv DEF KeepsProposals
  <2>2. CASE UNCHANGED note
    BY <2>2 DEF KeepsProposals
  <2>3. ASSUME NEW n \in Note, WriteNote(n) PROVE KeepsProposals
    <3>1. note[n].prop \subseteq note'[n].prop \cup note'[n].tags
      BY <1>1, <2>3, WriteNoteStep
    <3>2. \A m \in Note \ {n} : note'[m] = note[m]
      BY <1>1, <2>3, WriteNoteStep
    <3> QED BY <3>1, <3>2 DEF KeepsProposals
  <2>4. ASSUME NEW n \in ToolNote, NEW p \in Wanted, NEW item \in Related(n), SaveNote(n, {p}, item)
        PROVE  KeepsProposals
    <3>1. n \in Note /\ note'[n].body # note[n].body
      BY <1>1, <2>4, SaveNoteStep
    <3>2. \A m \in Note \ {n} : note'[m].prop = note[m].prop
      BY <1>1, <2>4, SaveNoteStep
    <3> QED BY <3>1, <3>2 DEF KeepsProposals
  <2>5. CASE UNCHANGED vars
    BY <2>2, <2>5 DEF vars
  <2>6. CASE ToolStep
    BY <1>1, <2>2, <2>3, <2>4, <2>6, ToolSteps
  <2> QED BY <1>1, <2>1, <2>5, <2>6 DEF Next
<1>2. VInv /\ [Next]_vars => [KeepsProposals]_vars
  BY <1>1
<1>3. Spec => [][KeepsProposals]_vars
  BY <1>2, VInvAlways, PTL DEF Spec
<1>4. ([][KeepsProposals]_vars) => ProposalsKept
  BY PTL DEF KeepsProposals, ProposalsKept
<1> QED BY <1>3, <1>4

\* A tag of a tool is declared.
TagsDeclared ==
  \/ UserStep
  \/ \A n \in Note : \A t \in note'[n].tags \ note[n].tags :
       \/ t \in Nodes(doc)
       \/ call.op = "promoting" /\ ~NoErrors(doc) /\ \E i \in 1..Len(doc) : doc[i].path = t

\* A tool tags a note with a declared topic (classify.ts, vault-writer.ts), or
\* with the one it promotes, whose line the file holds.
THEOREM ToolTagsAreDeclared ==
  ASSUME ~EditDuringCall
  PROVE  Spec => ToolTagsDeclared
<1>1. ASSUME VInv, [Next]_vars PROVE TagsDeclared
  <2>1. CASE UNCHANGED note
    BY <2>1 DEF TagsDeclared
  <2>2. ASSUME NEW n \in Note, WriteNote(n) PROVE TagsDeclared
    <3>1. /\ note'[n].tags = call.todo[n].tags /\ \A m \in Note \ {n} : note'[m] = note[m]
          /\ n \in DOMAIN call.todo /\ call.op \in {"promoting", "classify"}
      BY <1>1, <2>2, WriteNoteStep DEF WriteNote
    <3>2. CASE call.op = "classify"
      <4>1. call.todo[n].tags \subseteq Nodes(doc)
        BY <1>1, <3>1, <3>2 DEF VInv, Sorted
      <4> QED BY <3>1, <4>1 DEF TagsDeclared
    <3>3. CASE call.op = "promoting"
      <4>1. call.todo[n].tags = note[n].tags \cup {call.topic}
        BY <1>1, <3>1, <3>3 DEF VInv, Planned
      <4>2. PICK i \in 1..Len(doc) : doc[i].path = call.topic
        BY <1>1, <3>3 DEF VInv, HasLine
      <4>3. CASE NoErrors(doc)
        <5>1. doc \in Seq(Line) /\ Sound(doc)
          BY <1>1, <4>3, NoErrorsSound DEF VInv, TypeOK
        <5>2. call.topic \in Nodes(doc)
          BY <4>2, <5>1, SoundNodes
        <5> QED BY <3>1, <4>1, <5>2 DEF TagsDeclared
      <4>4. CASE ~NoErrors(doc)
        BY <3>1, <3>3, <4>1, <4>2, <4>4 DEF TagsDeclared
      <4> QED BY <4>3, <4>4
    <3> QED BY <3>1, <3>2, <3>3
  <2>3. ASSUME NEW n \in ToolNote, NEW p \in Wanted, NEW item \in Related(n), SaveNote(n, {p}, item)
        PROVE  TagsDeclared
    <3>1. note'[n].tags \subseteq Nodes(doc)
      BY <1>1, <2>3, SaveNoteStep
    <3>2. \A m \in Note \ {n} : note'[m].tags = note[m].tags
      BY <1>1, <2>3, SaveNoteStep
    <3> QED BY <3>1, <3>2 DEF TagsDeclared
  <2>4. CASE UNCHANGED vars
    BY <2>1, <2>4 DEF vars
  <2>5. CASE ToolStep
    BY <1>1, <2>1, <2>2, <2>3, <2>5, ToolSteps
  <2>6. CASE UserStep
    BY <2>6 DEF TagsDeclared
  <2> QED BY <1>1, <2>4, <2>5, <2>6 DEF Next
<1>2. VInv /\ [Next]_vars => [TagsDeclared]_vars
  BY <1>1
<1>3. Spec => [][TagsDeclared]_vars
  BY <1>2, VInvAlways, PTL DEF Spec
<1>4. ([][TagsDeclared]_vars) => ToolTagsDeclared
  BY PTL DEF TagsDeclared, ToolTagsDeclared
<1> QED BY <1>3, <1>4


-----------------------------------------------------------------------------
(* The vocabulary keeps its topics.                                        *)

LEMMA PlainKept ==
  ASSUME NEW d \in Seq(Line), Plain(d), NEW p \in Topic
  PROVE  /\ MayAdd(d, p) => Plain(VocabularyAdd(d, p, <<>>))
         /\ \A a \in Name : MayAlias(d, p, a) => Plain(VocabularyAlias(d, p, a))
<1>1. ASSUME MayAdd(d, p) PROVE Plain(VocabularyAdd(d, p, <<>>))
  <2> DEFINE i == FindInsertionIndex(d, p)
             e == [path |-> p, alias |-> {}, quotes |-> <<>>]
             D == InsertAt(d, i, e)
  <2>1. e \in Line /\ e.quotes = <<>>
    BY DEF Line
  <2>2. i \in 1..(Len(d) + 1)
    BY <1>1, IndexFollowsParent
  <2>3. VocabularyAdd(d, p, <<>>) = D
    BY DEF VocabularyAdd
  <2> HIDE DEF i, e
  <2>8. D[i] = e
    BY <2>1, <2>2, InsertedLine
  <2>9. Len(D) = Len(d) + 1
    BY <2>1, <2>2, InsertedLine
  <2>4. Len(D) = Len(d) + 1 /\ D[i] = e
    BY <2>8, <2>9
  <2>5. \A j \in 1..(i - 1) : D[j] = d[j]
    BY <2>1, <2>2, InsertedLine
  <2>6. \A j \in (i + 1)..(Len(d) + 1) : D[j] = d[j - 1]
    BY <2>1, <2>2, InsertedLine
  <2> HIDE DEF D
  <2>7. ASSUME NEW j \in 1..Len(D) PROVE D[j].quotes = <<>>
    <3>1. j \in 1..(i - 1) \/ j = i \/ j \in (i + 1)..(Len(d) + 1)
      BY <2>2, <2>4
    <3>2. CASE j \in 1..(i - 1)
      <4>1. j \in 1..Len(d)
        BY <2>2, <3>2
      <4> QED BY <2>5, <3>2, <4>1 DEF Plain
    <3>3. CASE j = i
      BY <2>1, <2>4, <3>3
    <3>4. CASE j \in (i + 1)..(Len(d) + 1)
      <4>1. j - 1 \in 1..Len(d)
        BY <2>2, <3>4
      <4> QED BY <2>6, <3>4, <4>1 DEF Plain
    <3> QED BY <3>1, <3>2, <3>3, <3>4
  <2> QED BY <2>3, <2>7 DEF Plain
<1>2. ASSUME NEW a \in Name, MayAlias(d, p, a) PROVE Plain(VocabularyAlias(d, p, a))
  <2> DEFINE i == FindNodeLine(d, p)
             own == d[i].path = p
             e == [path |-> p, alias |-> {a} \cup (IF own THEN d[i].alias ELSE {}),
                   quotes |-> IF own THEN d[i].quotes ELSE <<>>]
  <2>1. PICK k \in 1..Len(d) : d[k].path = p
    BY <1>2, NodeLines DEF MayAlias
  <2>2. i \in 1..Len(d)
    BY <2>1, PathFacts, NodeLineFound
  <2>3. VocabularyAlias(d, p, a) = [d EXCEPT ![i] = e]
    BY DEF VocabularyAlias, ReplaceAt
  <2>4. e.quotes = <<>>
    BY <2>2 DEF Plain
  <2> HIDE DEF i, own, e
  <2>5. Len([d EXCEPT ![i] = e]) = Len(d)
    OBVIOUS
  <2> QED BY <2>2, <2>3, <2>4, <2>5 DEF Plain
<1> QED BY <1>1, <1>2

LEMMA PlainRemoved ==
  ASSUME NEW d \in Seq(Line), Plain(d), NEW i \in 1..Len(d)
  PROVE  Plain(RemoveAt(d, i))
<1>1. \A j \in 1..Len(RemoveAt(d, i)) : \E k \in 1..Len(d) : RemoveAt(d, i)[j] = d[k]
  BY Removed
<1> QED BY <1>1 DEF Plain

\* Descriptions quote no topic, and the tools are called with topics that the
\* parser takes.
PlainWords == /\ Quoted = {<<>>} /\ Plain(FirstLines)
              /\ \A lines \in Applied : Plain(lines)
              /\ \A p \in Wanted : WellFormed(p)

DocChange ==
  \/ UNCHANGED doc
  \/ \E p \in Wanted : MayAdd(doc, p) /\ doc' = VocabularyAdd(doc, p, <<>>)
  \/ \E p \in Wanted, a \in Name : MayAlias(doc, p, a) /\ doc' = VocabularyAlias(doc, p, a)
  \/ Applying

LEMMA DocChanges ==
  ASSUME VInv, PlainWords, [Next]_vars
  PROVE  DocChange \/ \E i \in 1..Len(doc) : doc' = RemoveAt(doc, i) /\ UserStep
<1>1. ASSUME NEW p \in Wanted, NEW q \in Quoted, AddTopic(p, q) PROVE DocChange
  <2>1. q = <<>>
    BY DEF PlainWords
  <2> QED BY <1>1, <2>1 DEF AddTopic, DocChange
<1>2. ASSUME NEW q \in Quoted, PromoteVocabulary(q) PROVE DocChange
  <2>1. q = <<>> /\ call.topic \in Wanted
    BY <1>2 DEF PlainWords, PromoteVocabulary, VInv
  <2> QED BY <1>2, <2>1 DEF PromoteVocabulary, DocChange
<1>3. ASSUME NEW p \in Wanted, NEW a \in Name, AddAlias(p, a) PROVE DocChange
  BY <1>3 DEF AddAlias, DocChange
<1>4. CASE Applying
  BY <1>4 DEF DocChange
<1>5. CASE ToolStep
  <2>1. \/ \E p \in Wanted, q \in Quoted : AddTopic(p, q)
        \/ \E p \in Wanted, a \in Name : AddAlias(p, a)
        \/ \E q \in Quoted : PromoteVocabulary(q)
        \/ Applying
        \/ UNCHANGED doc
    BY <1>5 DEF ToolStep, Applying, PromotePlan, Classify, WriteNote, EndCall, Crash, SaveNote
  <2>2. CASE UNCHANGED doc
    BY <2>2 DEF DocChange
  <2> QED BY <1>1, <1>2, <1>3, <1>4, <2>1, <2>2
<1>6. CASE UserStep
  <2>1. CASE \E i \in 1..Len(doc) : DropLine(i)
    BY <1>6, <2>1 DEF DropLine
  <2>2. CASE ~\E i \in 1..Len(doc) : DropLine(i)
    <3>1. UNCHANGED doc
      BY <1>6, <2>2 DEF UserStep, EditBody, Propose, TagNote
    <3> QED BY <3>1 DEF DocChange
  <2> QED BY <2>1, <2>2
<1>7. CASE UNCHANGED vars
  BY <1>7 DEF vars, DocChange
<1> QED BY <1>5, <1>6, <1>7 DEF Next

KeepsTopics == (NoErrors(doc) /\ ~UserStep) =>
                 NoErrors(doc') /\ (Applying \/ Nodes(doc) \subseteq Nodes(doc'))

LEMMA TopicsStep ==
  ASSUME VInv, PlainWords, Plain(doc), [Next]_vars
  PROVE  Plain(doc') /\ KeepsTopics
<1>1. doc \in Seq(Line)
  BY DEF VInv, TypeOK
<1>2. CASE UNCHANGED doc
  BY <1>2 DEF Plain, KeepsTopics
<1>3. ASSUME NEW p \in Wanted, MayAdd(doc, p), doc' = VocabularyAdd(doc, p, <<>>)
      PROVE  Plain(doc') /\ KeepsTopics
  <2>1. p \in Topic /\ WellFormed(p)
    BY DEF PlainWords
  <2>2. Plain(doc')
    BY <1>1, <1>3, <2>1, PlainKept
  <2>3. NoErrors(doc) => NoErrors(doc') /\ Nodes(doc) \subseteq Nodes(doc')
    BY <1>1, <1>3, <2>1, AddKept
  <2> QED BY <2>2, <2>3 DEF KeepsTopics
<1>4. ASSUME NEW p \in Wanted, NEW a \in Name, MayAlias(doc, p, a), doc' = VocabularyAlias(doc, p, a)
      PROVE  Plain(doc') /\ KeepsTopics
  <2>1. p \in Topic
    OBVIOUS
  <2>2. Plain(doc')
    BY <1>1, <1>4, <2>1, PlainKept
  <2>3. NoErrors(doc) => NoErrors(doc') /\ Nodes(doc) \subseteq Nodes(doc')
    BY <1>1, <1>4, <2>1, AliasKept
  <2> QED BY <2>2, <2>3 DEF KeepsTopics
<1>5. CASE Applying
  <2>1. PICK lines \in Applied : Renders(lines) /\ doc' = lines
    BY <1>5 DEF Applying, Apply
  <2> QED BY <1>5, <2>1 DEF PlainWords, Renders, KeepsTopics
<1>6. ASSUME NEW i \in 1..Len(doc), doc' = RemoveAt(doc, i), UserStep
      PROVE  Plain(doc') /\ KeepsTopics
  BY <1>1, <1>6, PlainRemoved DEF KeepsTopics
<1> QED BY <1>2, <1>3, <1>4, <1>5, <1>6, DocChanges DEF DocChange

\* From a file without errors a tool loses no declared topic (an apply writes
\* another list, topics.ts) and adds no error, where descriptions quote no topic
\* and the tools are called with well-formed ones.
THEOREM VocabularyIsKept ==
  ASSUME PlainWords
  PROVE  Spec => VocabularyKept
<1>1. Init => Plain(doc)
  BY DEF Init, PlainWords
<1>2. VInv /\ Plain(doc) /\ [Next]_vars => Plain(doc)' /\ [KeepsTopics]_vars
  <2>1. VInv /\ Plain(doc) /\ [Next]_vars => Plain(doc') /\ KeepsTopics
    BY TopicsStep
  <2> QED BY <2>1 DEF Plain
<1>3. Spec => [][KeepsTopics]_vars
  BY <1>1, <1>2, VInvAlways, PTL DEF Spec
<1>4. ([][KeepsTopics]_vars) => VocabularyKept
  BY PTL DEF KeepsTopics, VocabularyKept
<1> QED BY <1>3, <1>4

-----------------------------------------------------------------------------
(* The tree of the topics.                                                 *)

\* A start of a path, and a start of that one.
LEMMA Starts ==
  ASSUME NEW S, NEW p \in Seq(S), NEW k \in 0..Len(p)
  PROVE  /\ SubSeq(p, 1, k) \in Seq(S) /\ Len(SubSeq(p, 1, k)) = k
         /\ \A j \in 1..k : SubSeq(p, 1, k)[j] = p[j]
         /\ \A j \in 0..k : SubSeq(SubSeq(p, 1, k), 1, j) = SubSeq(p, 1, j)
<1>1. SubSeq(p, 1, k) \in Seq(S) /\ Len(SubSeq(p, 1, k)) = k
  OBVIOUS
<1>2. \A j \in 1..k : SubSeq(p, 1, k)[j] = p[j]
  OBVIOUS
<1>3. ASSUME NEW j \in 0..k PROVE SubSeq(SubSeq(p, 1, k), 1, j) = SubSeq(p, 1, j)
  <2> DEFINE a == SubSeq(SubSeq(p, 1, k), 1, j)
             b == SubSeq(p, 1, j)
  <2>1. a \in Seq(S) /\ Len(a) = j /\ \A i \in 1..j : a[i] = SubSeq(p, 1, k)[i]
    BY <1>1
  <2>2. b \in Seq(S) /\ Len(b) = j /\ \A i \in 1..j : b[i] = p[i]
    OBVIOUS
  <2>3. \A i \in 1..j : i \in 1..k
    OBVIOUS
  <2> HIDE DEF a, b
  <2>4. \A i \in 1..j : a[i] = b[i]
    BY <1>2, <2>1, <2>2, <2>3
  <2>5. a = b
    BY <2>1, <2>2, <2>4
  <2> QED BY <2>5 DEF a, b
<1> QED BY <1>1, <1>2, <1>3

LEMMA WholeStart ==
  ASSUME NEW S, NEW p \in Seq(S)
  PROVE  SubSeq(p, 1, Len(p)) = p
<1> DEFINE a == SubSeq(p, 1, Len(p))
<1>1. a \in Seq(S) /\ Len(a) = Len(p) /\ \A i \in 1..Len(p) : a[i] = p[i]
  OBVIOUS
<1> HIDE DEF a
<1>2. a = p
  BY <1>1
<1> QED BY <1>2 DEF a

\* Under is a strict order by starts.
LEMMA UnderFacts ==
  ASSUME NEW p \in Topic
  PROVE  /\ \A q : Under(p, q) /\ Len(q) \in Nat => q = SubSeq(p, 1, Len(q))
         /\ \A k \in 0..(Len(p) - 1) : Under(p, SubSeq(p, 1, k))
         /\ ParentOf(p) # <<>> => Under(p, ParentOf(p))
         /\ Len(ParentOf(p)) = Len(p) - 1
         /\ \A q \in Topic : q \in Ancestors(p) <=> Under(p, q)
<1>1. p \in Seq(Name) /\ Len(p) \in Nat \ {0}
  BY PathFacts
<1>2. ASSUME NEW k \in 0..(Len(p) - 1) PROVE Under(p, SubSeq(p, 1, k))
  <2>1. k \in 0..Len(p) /\ k < Len(p)
    BY <1>1
  <2>2. Len(SubSeq(p, 1, k)) = k
    BY <1>1, <2>1, Starts
  <2> QED BY <2>1, <2>2 DEF Under
<1>3. Len(p) - 1 \in 0..(Len(p) - 1) /\ Len(p) - 1 \in 0..Len(p)
  BY <1>1
<1>4. Under(p, ParentOf(p)) /\ Len(ParentOf(p)) = Len(p) - 1
  <2>1. Under(p, SubSeq(p, 1, Len(p) - 1))
    BY <1>2, <1>3
  <2>2. Len(SubSeq(p, 1, Len(p) - 1)) = Len(p) - 1
    <3>1. PICK k \in 0..Len(p) : k = Len(p) - 1
      BY <1>3
    <3>2. Len(SubSeq(p, 1, k)) = k
      BY <1>1, Starts
    <3> QED BY <3>1, <3>2
  <2> QED BY <2>1, <2>2 DEF ParentOf
<1>5. ASSUME NEW q \in Topic PROVE q \in Ancestors(p) <=> Under(p, q)
  <2>1. ASSUME Under(p, q) PROVE q \in Ancestors(p)
    <3>1. Len(q) \in Nat \ {0} /\ Len(q) < Len(p) /\ SubSeq(p, 1, Len(q)) = q
      BY <2>1, PathFacts DEF Under
    <3>2. Len(q) \in 1..(Len(p) - 1)
      BY <1>1, <3>1
    <3> QED BY <3>1, <3>2 DEF Ancestors
  <2>2. ASSUME q \in Ancestors(p) PROVE Under(p, q)
    <3>1. PICK k \in 1..(Len(p) - 1) : q = SubSeq(p, 1, k)
      BY <2>2 DEF Ancestors
    <3>2. k \in 0..(Len(p) - 1)
      BY <3>1
    <3> QED BY <1>2, <3>1, <3>2
  <2> QED BY <2>1, <2>2
<1>6. \A q : Under(p, q) /\ Len(q) \in Nat => q = SubSeq(p, 1, Len(q))
  BY DEF Under
<1> QED BY <1>2, <1>4, <1>5, <1>6

LEMMA UnderTrans ==
  ASSUME NEW p \in Topic, NEW q \in Topic, NEW r \in Topic, Under(p, q), Under(q, r)
  PROVE  Under(p, r)
<1>1. /\ p \in Seq(Name) /\ Len(p) \in Nat /\ Len(q) \in Nat /\ Len(r) \in Nat
  BY PathFacts
<1>2. /\ Len(q) < Len(p) /\ SubSeq(p, 1, Len(q)) = q
      /\ Len(r) < Len(q) /\ SubSeq(q, 1, Len(r)) = r
  BY DEF Under
<1>3. Len(q) \in 0..Len(p) /\ Len(r) \in 0..Len(q)
  BY <1>1, <1>2
<1>4. SubSeq(SubSeq(p, 1, Len(q)), 1, Len(r)) = SubSeq(p, 1, Len(r))
  BY <1>1, <1>3, Starts
<1>5. SubSeq(p, 1, Len(r)) = r
  BY <1>2, <1>4
<1> QED BY <1>1, <1>2, <1>5 DEF Under

LEMMA TreeFacts ==
  ASSUME NEW d \in Seq(Line)
  PROVE  /\ Nodes(d) \subseteq Topic
         /\ \A p \in Nodes(d) : /\ Len(p) <= MaxDepth
                                /\ ParentOf(p) = <<>> \/ ParentOf(p) \in Nodes(d)
                                /\ \A k \in 1..(Len(p) - 1) : SubSeq(p, 1, k) \in Nodes(d)
<1>1. Nodes(d) \subseteq Topic
  BY NodesAreTopics
<1>2. ASSUME NEW p \in Nodes(d)
      PROVE  Len(p) <= MaxDepth /\ (ParentOf(p) = <<>> \/ ParentOf(p) \in Nodes(d))
  <2>1. PICK l \in ParseVocabulary(d) : l.path = p
    BY DEF Nodes
  <2>2. Tidy(ParseVocabulary(d))
    BY ParsedTidy
  <2>3. Len(p) <= MaxDepth /\ (ParentOf(p) = <<>> \/ \E k \in ParseVocabulary(d) : k.path = ParentOf(p))
    BY <2>1, <2>2 DEF Tidy
  <2> QED BY <2>3 DEF Nodes
<1> DEFINE P == {j \in Nat : \A p \in Nodes(d) : \A k \in 1..(Len(p) - 1) :
                               Len(p) - k = j + 1 => SubSeq(p, 1, k) \in Nodes(d)}
<1>3. ASSUME NEW p \in Nodes(d), NEW k \in 1..(Len(p) - 1)
      PROVE  /\ p \in Topic /\ p \in Seq(Name) /\ Len(p) \in Nat \ {0}
             /\ SubSeq(p, 1, k) \in Seq(Name) /\ Len(SubSeq(p, 1, k)) = k
             /\ k \in 0..Len(p) /\ SubSeq(p, 1, k) # <<>>
  <2>1. p \in Topic /\ p \in Seq(Name) /\ Len(p) \in Nat \ {0}
    BY <1>1, PathFacts
  <2>2. k \in 0..Len(p) /\ k \in Nat \ {0}
    BY <2>1
  <2>3. SubSeq(p, 1, k) \in Seq(Name) /\ Len(SubSeq(p, 1, k)) = k
    BY <2>1, <2>2, Starts
  <2> QED BY <2>1, <2>2, <2>3
<1>4. 0 \in P
  <2> SUFFICES ASSUME NEW p \in Nodes(d), NEW k \in 1..(Len(p) - 1), Len(p) - k = 1
               PROVE  SubSeq(p, 1, k) \in Nodes(d)
    OBVIOUS
  <2>1. k = Len(p) - 1
    BY <1>3
  <2>2. SubSeq(p, 1, k) = ParentOf(p)
    BY <2>1 DEF ParentOf
  <2>3. SubSeq(p, 1, k) # <<>>
    BY <1>3
  <2>4. ParentOf(p) = <<>> \/ ParentOf(p) \in Nodes(d)
    BY <1>2
  <2> QED BY <2>2, <2>3, <2>4
<1>5. ASSUME NEW j \in Nat, j \in P PROVE j + 1 \in P
  <2> SUFFICES ASSUME NEW p \in Nodes(d), NEW k \in 1..(Len(p) - 1), Len(p) - k = (j + 1) + 1
               PROVE  SubSeq(p, 1, k) \in Nodes(d)
    OBVIOUS
  <2> DEFINE q == SubSeq(p, 1, k + 1)
  <2>1. k + 1 \in 1..(Len(p) - 1) /\ Len(p) - (k + 1) = j + 1 /\ k + 1 \in 0..Len(p) /\ k \in 0..(k + 1)
    BY <1>3
  <2>2. q \in Nodes(d)
    BY <1>5, <2>1
  <2>3. Len(q) = k + 1 /\ SubSeq(q, 1, k) = SubSeq(p, 1, k)
    BY <1>3, <2>1, Starts
  <2>4. ParentOf(q) = SubSeq(p, 1, k)
    BY <2>3, <2>1 DEF ParentOf
  <2> QED BY <1>2, <1>3, <2>2, <2>4
<1> HIDE DEF P
<1>6. \A j \in Nat : j \in P
  BY <1>4, <1>5, NatSetInduction
<1>7. ASSUME NEW p \in Nodes(d), NEW k \in 1..(Len(p) - 1) PROVE SubSeq(p, 1, k) \in Nodes(d)
  <2>1. (Len(p) - k) - 1 \in Nat /\ Len(p) - k = ((Len(p) - k) - 1) + 1
    BY <1>3
  <2>2. (Len(p) - k) - 1 \in P
    BY <1>6, <2>1
  <2> QED BY <2>1, <2>2 DEF P
<1> QED BY <1>1, <1>2, <1>7

\* The subtree of a topic: itself and what lies under it.
Subtree(nodes, q) == {r \in nodes : r = q \/ Under(r, q)}

\* A subtree is its top and the subtrees of the children.
LEMMA SubtreeStep ==
  ASSUME NEW d \in Seq(Line), NEW q \in Nodes(d)
  PROVE  /\ Subtree(Nodes(d), q) =
              {q} \cup UNION {Subtree(Nodes(d), c) : c \in Children(Nodes(d), q)}
         /\ \A c \in Children(Nodes(d), q) : c \in Nodes(d) /\ Len(c) = Len(q) + 1
<1> DEFINE N == Nodes(d)
<1>1. /\ N \subseteq Topic
      /\ \A p \in N : \A k \in 1..(Len(p) - 1) : SubSeq(p, 1, k) \in N
  BY TreeFacts
<1> HIDE DEF N
<1>2. q \in N /\ q \in Topic /\ Len(q) \in Nat \ {0}
  BY <1>1, PathFacts DEF N
<1>3. ASSUME NEW c \in Children(N, q)
      PROVE  c \in N /\ c \in Topic /\ Len(c) = Len(q) + 1 /\ Under(c, q)
  <2>1. c \in N /\ c \in Topic /\ ParentOf(c) = q /\ q # <<>>
    BY <1>1, <1>2, PathFacts DEF Children
  <2>2. Under(c, q) /\ Len(q) = Len(c) - 1 /\ Len(c) \in Nat
    BY <2>1, UnderFacts, PathFacts
  <2> QED BY <1>2, <2>1, <2>2
<1>4. ASSUME NEW r \in N, Under(r, q)
      PROVE  \E c \in Children(N, q) : r = c \/ Under(r, c)
  <2> DEFINE k == Len(q) + 1
             c == SubSeq(r, 1, k)
  <2>1. r \in Topic /\ r \in Seq(Name) /\ Len(r) \in Nat /\ Len(q) < Len(r) /\ SubSeq(r, 1, Len(q)) = q
    BY <1>1, <1>4, PathFacts DEF Under
  <2>2. k \in 0..Len(r) /\ Len(q) \in 0..k
    BY <1>2, <2>1
  <2>3. Len(c) = k /\ SubSeq(c, 1, Len(q)) = SubSeq(r, 1, Len(q))
    BY <2>1, <2>2, Starts
  <2>4. ParentOf(c) = q
    BY <1>2, <2>1, <2>3 DEF ParentOf
  <2>5. CASE k = Len(r)
    <3>1. c = r
      BY <2>1, <2>5, WholeStart
    <3> QED BY <2>4, <3>1 DEF Children
  <2>6. CASE k # Len(r)
    <3>1. k \in 1..(Len(r) - 1) /\ k \in 0..(Len(r) - 1)
      BY <1>2, <2>1, <2>6
    <3>2. c \in N /\ Under(r, c)
      BY <1>1, <2>1, <3>1, UnderFacts
    <3> QED BY <2>4, <3>2 DEF Children
  <2> QED BY <2>5, <2>6
<1>5. Subtree(N, q) \subseteq {q} \cup UNION {Subtree(N, c) : c \in Children(N, q)}
  <2> SUFFICES ASSUME NEW r \in N, Under(r, q)
               PROVE  \E c \in Children(N, q) : r \in Subtree(N, c)
    BY DEF Subtree
  <2> QED BY <1>4 DEF Subtree
<1>6. ASSUME NEW c \in Children(N, q), NEW r \in Subtree(N, c) PROVE r \in Subtree(N, q)
  <2>1. r \in N /\ r \in Topic /\ (r = c \/ Under(r, c))
    BY <1>1 DEF Subtree
  <2>2. Under(r, q)
    BY <1>2, <1>3, <2>1, UnderTrans
  <2> QED BY <2>1, <2>2 DEF Subtree
<1>7. q \in Subtree(N, q)
  BY <1>2 DEF Subtree
<1>8. {q} \cup UNION {Subtree(N, c) : c \in Children(N, q)} \subseteq Subtree(N, q)
  BY <1>6, <1>7
<1> QED BY <1>3, <1>5, <1>8 DEF N

\* What the walk down the children computes is the subtree: it is defined, and
\* nothing else solves its equation, since paths have bounded depth.
Walks(nodes, f) == f = [q \in nodes |-> {q} \cup UNION {f[c] : c \in Children(nodes, q)}]

LEMMA DescendantsWalk ==
  ASSUME NEW nodes, NEW p
  PROVE  Descendants(nodes, p) = (CHOOSE f : Walks(nodes, f))[p]
BY DEF Descendants, Walks

LEMMA WalkUnique ==
  ASSUME NEW d \in Seq(Line), NEW f, Walks(Nodes(d), f), NEW p \in Nodes(d)
  PROVE  f[p] = Subtree(Nodes(d), p)
<1> DEFINE N == Nodes(d)
           P == {k \in Nat : \A q \in N : Len(q) + k >= MaxDepth => f[q] = Subtree(N, q)}
<1>1. \A q \in N : Len(q) \in Nat /\ Len(q) <= MaxDepth
  BY TreeFacts, PathFacts
<1>2. ASSUME NEW q \in N
      PROVE  /\ f[q] = {q} \cup UNION {f[c] : c \in Children(N, q)}
             /\ Subtree(N, q) = {q} \cup UNION {Subtree(N, c) : c \in Children(N, q)}
             /\ \A c \in Children(N, q) : c \in N /\ Len(c) = Len(q) + 1
  BY SubtreeStep DEF Walks
<1> HIDE DEF N
<1>3. 0 \in P
  <2> SUFFICES ASSUME NEW q \in N, Len(q) >= MaxDepth PROVE f[q] = Subtree(N, q)
    BY <1>1
  <2>1. Children(N, q) = {}
    <3>1. ASSUME NEW c \in Children(N, q) PROVE FALSE
      <4>1. c \in N /\ Len(c) = Len(q) + 1
        BY <1>2
      <4> QED BY <1>1, <4>1
    <3> QED BY <3>1
  <2>2. UNION {f[c] : c \in Children(N, q)} = UNION {Subtree(N, c) : c \in Children(N, q)}
    BY <2>1
  <2> QED BY <1>2, <2>2
<1>4. ASSUME NEW k \in Nat, k \in P PROVE k + 1 \in P
  <2> SUFFICES ASSUME NEW q \in N, Len(q) + (k + 1) >= MaxDepth PROVE f[q] = Subtree(N, q)
    OBVIOUS
  <2>1. ASSUME NEW c \in Children(N, q) PROVE f[c] = Subtree(N, c)
    <3>1. c \in N /\ Len(c) = Len(q) + 1
      BY <1>2
    <3>2. Len(c) + k >= MaxDepth
      BY <1>1, <3>1
    <3> QED BY <1>4, <3>1, <3>2
  <2>2. UNION {f[c] : c \in Children(N, q)} = UNION {Subtree(N, c) : c \in Children(N, q)}
    BY <2>1
  <2> QED BY <1>2, <2>2
<1> HIDE DEF P
<1>5. MaxDepth \in P
  BY <1>3, <1>4, NatSetInduction
<1> QED BY <1>1, <1>5 DEF N, P

LEMMA DescendantsAre ==
  ASSUME NEW d \in Seq(Line), NEW p \in Nodes(d)
  PROVE  Descendants(Nodes(d), p) = Subtree(Nodes(d), p)
<1> DEFINE N == Nodes(d)
           G == [q \in N |-> Subtree(N, q)]
<1>1. Walks(N, G)
  <2>1. ASSUME NEW q \in N
        PROVE  G[q] = {q} \cup UNION {G[c] : c \in Children(N, q)}
    <3>1. \A c \in Children(N, q) : G[c] = Subtree(N, c)
      BY DEF Children
    <3>2. {G[c] : c \in Children(N, q)} = {Subtree(N, c) : c \in Children(N, q)}
      BY <3>1
    <3>3. G[q] = Subtree(N, q)
      OBVIOUS
    <3> HIDE DEF G
    <3> QED BY <3>2, <3>3, SubtreeStep
  <2>2. G = [q \in N |-> {q} \cup UNION {G[c] : c \in Children(N, q)}]
    <3> DEFINE H == [q \in N |-> {q} \cup UNION {G[c] : c \in Children(N, q)}]
    <3>1. \A q \in N : G[q] = H[q]
      BY <2>1
    <3>2. DOMAIN G = N /\ G = [q \in N |-> G[q]]
      OBVIOUS
    <3> HIDE DEF G
    <3>3. DOMAIN H = N /\ H = [q \in N |-> H[q]]
      OBVIOUS
    <3> HIDE DEF H
    <3>4. G = H
      BY <3>1, <3>2, <3>3
    <3> QED BY <3>4 DEF H
  <2> HIDE DEF G, N
  <2> QED BY <2>2 DEF Walks
<1>2. Walks(N, CHOOSE f : Walks(N, f))
  BY <1>1
<1> QED BY <1>2, WalkUnique, DescendantsWalk

-----------------------------------------------------------------------------
(* The notes of a topic, counted in three ways.                            *)

Tagged(nodes, tags, p) ==
  {n \in DOMAIN tags : \E t \in tags[n] \cap nodes : t = p \/ Under(t, p)}

LEMMA NotesAre ==
  ASSUME NEW d \in Seq(Line), NEW tags, NEW p \in Nodes(d)
  PROVE  /\ NodeNotes(Nodes(d), tags, p) = Tagged(Nodes(d), tags, p)
         /\ NavSubtree(Nodes(d), tags, p) = Tagged(Nodes(d), tags, p)
<1> DEFINE N == Nodes(d)
<1>1. N \subseteq Topic /\ p \in Topic
  BY TreeFacts
<1>2. \A t \in N : p \in Ancestors(t) <=> Under(t, p)
  BY <1>1, UnderFacts
<1>3. Descendants(N, p) = Subtree(N, p)
  BY DescendantsAre
<1> HIDE DEF N
<1>4. NodeNotes(N, tags, p) = Tagged(N, tags, p)
  BY <1>2 DEF NodeNotes, Tagged
<1>5. NavSubtree(N, tags, p) = UNION {DirectNotes(N, tags, q) : q \in Subtree(N, p)}
  BY <1>3 DEF NavSubtree
<1>6. \A n : n \in NavSubtree(N, tags, p) <=> n \in Tagged(N, tags, p)
  BY <1>5 DEF DirectNotes, Tagged, Subtree
<1> QED BY <1>4, <1>6 DEF N

LEMMA NavCounts ==
  ASSUME NEW d \in Seq(Line), NEW meta, NEW p \in Nodes(d)
  PROVE  /\ VaultNav(Nodes(d), meta)[p].subtree = NodeNotes(Nodes(d), TagsOf(meta), p)
         /\ VaultNav(Nodes(d), meta)[p].direct = DirectNotes(Nodes(d), TagsOf(meta), p)
         /\ VaultNav(Nodes(d), meta)[p].children = Children(Nodes(d), p)
<1> DEFINE N == Nodes(d)
           own(n) == meta[n].tags \cap N
           topics(n) == own(n) \cup ((UNION {Ancestors(t) : t \in own(n)}) \cap N)
           tags == TagsOf(meta)
<1>1. p \in N /\ DOMAIN tags = DOMAIN meta /\ \A n \in DOMAIN meta : tags[n] = meta[n].tags
  BY DEF TagsOf
<1> HIDE DEF N, tags
<1>2. VaultNav(N, meta)[p] = [subtree  |-> {n \in DOMAIN meta : p \in topics(n)},
                              direct   |-> {n \in DOMAIN meta : p \in meta[n].tags},
                              children |-> Children(N, p)]
  BY <1>1 DEF VaultNav
<1>3. {n \in DOMAIN meta : p \in topics(n)} = NodeNotes(N, tags, p)
  <2>1. ASSUME NEW n \in DOMAIN meta
        PROVE  p \in topics(n) <=> \E t \in tags[n] \cap N : p \in {t} \cup Ancestors(t)
    BY <1>1
  <2> HIDE DEF topics
  <2> QED BY <1>1, <2>1 DEF NodeNotes
<1>4. {n \in DOMAIN meta : p \in meta[n].tags} = DirectNotes(N, tags, p)
  BY <1>1 DEF DirectNotes
<1> QED BY <1>2, <1>3, <1>4 DEF N, tags

\* Every topic lies under a root.
LEMMA RootAbove ==
  ASSUME NEW d \in Seq(Line), NEW t \in Nodes(d)
  PROVE  \E p \in Roots(Nodes(d)) : t = p \/ Under(t, p)
<1> DEFINE r == SubSeq(t, 1, 1)
<1>1. t \in Topic /\ t \in Seq(Name) /\ Len(t) \in Nat \ {0}
  BY TreeFacts, PathFacts
<1>2. CASE Len(t) = 1
  BY <1>2 DEF Roots
<1>3. CASE Len(t) # 1
  <2>1. 1 \in 1..(Len(t) - 1) /\ 1 \in 0..(Len(t) - 1) /\ 1 \in 0..Len(t)
    <3>1. PICK m \in Nat \ {0} : m = Len(t)
      BY <1>1
    <3>2. 1 \in 1..(m - 1) /\ 1 \in 0..(m - 1) /\ 1 \in 0..m
      BY <1>3, <3>1
    <3> QED BY <3>1, <3>2
  <2>2. r \in Nodes(d) /\ Under(t, r)
    BY <1>1, <2>1, TreeFacts, UnderFacts
  <2>3. Len(r) = 1
    BY <1>1, <2>1, Starts
  <2> HIDE DEF r
  <2> QED BY <2>2, <2>3 DEF Roots
<1> QED BY <1>2, <1>3

-----------------------------------------------------------------------------
(* The views.                                                              *)

Meta == [n \in DOMAIN Tags |-> [tags |-> note[n].tags, prop |-> note[n].prop, title |-> 1]]

LEMMA MetaTags == /\ TagsOf(Meta) = Tags /\ DOMAIN Meta = DOMAIN Tags /\ DOMAIN Tags \subseteq Note
                  /\ \A n \in DOMAIN Tags : Meta[n].tags = Tags[n]
<1>1. DOMAIN Meta = DOMAIN Tags /\ DOMAIN Tags = {m \in Note : Exists(m)}
  BY DEF Meta, Tags
<1>2. \A n \in DOMAIN Tags : Meta[n].tags = note[n].tags /\ Tags[n] = note[n].tags
  BY DEF Meta, Tags
<1>3. TagsOf(Meta) = [n \in DOMAIN Tags |-> Meta[n].tags]
  BY <1>1 DEF TagsOf
<1>4. Tags = [n \in DOMAIN Tags |-> note[n].tags]
  BY <1>1 DEF Tags
<1>5. [n \in DOMAIN Tags |-> Meta[n].tags] = [n \in DOMAIN Tags |-> note[n].tags]
  BY <1>2
<1> QED BY <1>1, <1>2, <1>3, <1>4, <1>5

LEMMA UnclassifiedAre ==
  ASSUME NEW d \in Seq(Line), NEW tags
  PROVE  Unclassified(Nodes(d), tags) =
           DOMAIN tags \ UNION {NodeNotes(Nodes(d), tags, p) : p \in Roots(Nodes(d))}
<1> DEFINE N == Nodes(d)
<1>1. \A p \in Roots(N) : NodeNotes(N, tags, p) = Tagged(N, tags, p)
  BY NotesAre DEF Roots
<1>2. \A t \in N : \E p \in Roots(N) : t = p \/ Under(t, p)
  BY RootAbove
<1> HIDE DEF N
<1>3. ASSUME NEW n \in DOMAIN tags
      PROVE  tags[n] \cap N = {} <=> ~\E p \in Roots(N) : n \in NodeNotes(N, tags, p)
  <2>1. ASSUME NEW p \in Roots(N), n \in NodeNotes(N, tags, p) PROVE tags[n] \cap N # {}
    BY <1>1, <2>1 DEF Tagged
  <2>2. ASSUME NEW t \in tags[n] \cap N PROVE \E p \in Roots(N) : n \in NodeNotes(N, tags, p)
    <3>1. PICK p \in Roots(N) : t = p \/ Under(t, p)
      BY <1>2
    <3>2. n \in Tagged(N, tags, p)
      BY <3>1 DEF Tagged
    <3> QED BY <1>1, <3>2
  <2> QED BY <2>1, <2>2
<1>4. Unclassified(N, tags) = {n \in DOMAIN tags : tags[n] \cap N = {}}
  BY DEF Unclassified, Classified
<1>5. UNION {NodeNotes(N, tags, p) : p \in Roots(N)} =
        {n \in DOMAIN tags : \E p \in Roots(N) : n \in NodeNotes(N, tags, p)}
  BY DEF NodeNotes
<1> QED BY <1>3, <1>4, <1>5 DEF N

\* What one name stands for.
LEMMA NameResolves ==
  ASSUME NEW d \in Seq(Line), NEW l \in ParseVocabulary(d), NEW a \in NamesOf(l)
  PROVE  ResolveTopic(d, <<a>>) = l.path /\ l.path \in Nodes(d) /\ l.path # <<>>
<1> DEFINE L == ParseVocabulary(d)
           named == {k \in L : <<a>> = <<Slug(k.path)>> \/ \E b \in k.alias : <<a>> = <<b>>}
<1>1. /\ L \subseteq Line /\ Tidy(L) /\ l \in L
  BY ParsedTidy
<1>2. \A k \in L : a \in NamesOf(k) => k = l
  BY <1>1 DEF Tidy
<1>3. l.path \in Nodes(d) /\ l.path # <<>>
  <2>1. l.path \in Topic
    BY <1>1 DEF Line
  <2> QED BY <2>1, PathFacts DEF Nodes
<1>4. CASE <<a>> \in Nodes(d)
  <2>1. PICK k \in L : k.path = <<a>>
    BY <1>4 DEF Nodes
  <2>2. Slug(<<a>>) = a
    BY DEF Slug
  <2>3. a \in NamesOf(k)
    BY <2>1, <2>2 DEF NamesOf
  <2>4. l.path = <<a>>
    BY <1>2, <2>1, <2>3
  <2> QED BY <1>3, <1>4, <2>4 DEF ResolveTopic
<1>5. CASE <<a>> \notin Nodes(d)
  <2>1. \A k \in L : k \in named <=> a \in NamesOf(k)
    BY DEF NamesOf
  <2>2. named = {l}
    BY <1>1, <1>2, <2>1
  <2>3. (CHOOSE k \in named : TRUE) = l
    BY <2>2
  <2> QED BY <1>3, <1>5, <2>2, <2>3 DEF ResolveTopic
<1> QED BY <1>3, <1>4, <1>5

LEMMA TopicLinesAre ==
  ASSUME NEW d \in Seq(Line), NEW meta, NEW S, S \subseteq Nodes(d)
  PROVE  \A p : \A k : <<"topic", p, k>> \in TopicLines(Nodes(d), meta, S) <=>
                         p \in S /\ k = Count(Nodes(d), meta, p) /\ k > 0
BY DEF TopicLines

\* The page of a topic and the view that is shown for it.
LEMMA HubView ==
  ASSUME NEW d \in Seq(Line), NEW meta, NEW p \in Nodes(d)
  PROVE  LET view == NavNode(Nodes(d), meta, p)
         IN  HubPage(Nodes(d), meta, p) =
               {<<"topic", u[1], u[2]>> : u \in {v \in view.subtopics : v[2] > 0}}
                 \cup NoteLines(meta, view.notes)
<1> DEFINE N == Nodes(d)
           nav == VaultNav(N, meta)
           C == Children(N, p)
           view == NavNode(N, meta, p)
<1>1. /\ nav[p].children = C /\ nav[p].direct = DirectNotes(N, TagsOf(meta), p)
      /\ \A c \in C : nav[c].subtree = NodeNotes(N, TagsOf(meta), c)
  BY NavCounts DEF Children
<1>2. /\ view.subtopics = {<<c, Cardinality(nav[c].subtree)>> : c \in nav[p].children}
      /\ view.notes = nav[p].direct
  BY DEF NavNode
<1> HIDE DEF N, nav, view, C
<1>3. view.subtopics = {<<c, Count(N, meta, c)>> : c \in C}
  <2>1. \A c \in C : Cardinality(nav[c].subtree) = Count(N, meta, c)
    BY <1>1 DEF Count
  <2> QED BY <1>1, <1>2, <2>1
<1>4. {<<"topic", u[1], u[2]>> : u \in {v \in view.subtopics : v[2] > 0}} = TopicLines(N, meta, C)
  <2> DEFINE U == {v \in view.subtopics : v[2] > 0}
             W == {q \in C : Count(N, meta, q) > 0}
  <2>1. U = {<<c, Count(N, meta, c)>> : c \in W}
    BY <1>3
  <2> HIDE DEF U, W
  <2>2. {<<"topic", u[1], u[2]>> : u \in U} = {<<"topic", c, Count(N, meta, c)>> : c \in W}
    <3>1. ASSUME NEW c \in W
          PROVE  \E u \in U : <<"topic", u[1], u[2]>> = <<"topic", c, Count(N, meta, c)>>
      <4> DEFINE u == <<c, Count(N, meta, c)>>
      <4>1. u \in U /\ u[1] = c /\ u[2] = Count(N, meta, c)
        BY <2>1
      <4> QED BY <4>1
    <3>2. ASSUME NEW u \in U
          PROVE  \E c \in W : <<"topic", u[1], u[2]>> = <<"topic", c, Count(N, meta, c)>>
      <4>1. PICK c \in W : u = <<c, Count(N, meta, c)>>
        BY <2>1
      <4>2. u[1] = c /\ u[2] = Count(N, meta, c)
        BY <4>1
      <4> QED BY <4>2
    <3> QED BY <3>1, <3>2
  <2> QED BY <2>2 DEF TopicLines, U, W
<1> QED BY <1>1, <1>2, <1>4 DEF HubPage, N, C, view

\* The root page and the root view name the same topics and folders.
LEMMA RootView ==
  ASSUME NEW d \in Seq(Line), NEW meta, DOMAIN meta \subseteq Note
  PROVE  LET root == NavRoot(Nodes(d), meta)
             page == RootPage(Nodes(d), meta)
         IN  /\ \A p \in Nodes(d), k \in 1..Cardinality(Note) :
                  <<p, k>> \in root.topics <=> <<"topic", p, k>> \in page
             /\ root.folders = {f \in Name : <<"folder", f>> \in page}
<1> DEFINE N == Nodes(d)
           nav == VaultNav(N, meta)
           root == NavRoot(N, meta)
           page == RootPage(N, meta)
           M == {m \in DOMAIN meta : FolderOf[m] # <<>>}
<1>1. \A p \in Roots(N) : nav[p].subtree = NodeNotes(N, TagsOf(meta), p)
  BY NavCounts DEF Roots
<1>2. \A p, k : <<"topic", p, k>> \in TopicLines(N, meta, Roots(N)) <=>
                  p \in Roots(N) /\ k = Count(N, meta, p) /\ k > 0
  <2>1. Roots(N) \subseteq N
    BY DEF Roots
  <2> QED BY <2>1, TopicLinesAre
<1>3. root.topics = {<<p, Cardinality(nav[p].subtree)>> : p \in Roots(N)}
      /\ root.folders = {FolderOf[n][1] : n \in M}
  BY DEF NavRoot
<1> HIDE DEF N, nav, root, M
<1>4. page = TopicLines(N, meta, Roots(N))
               \cup {<<"folder", FolderOf[n][1]>> : n \in M}
               \cup {<<"unclassified", Cardinality(Unclassified(N, TagsOf(meta)))>>}
               \cup {<<"proposed">> : p \in Suggested(N, meta)}
  BY DEF RootPage, M
<1> HIDE DEF page
<1>5. ASSUME NEW p, NEW k
      PROVE  <<"topic", p, k>> \in page <=> p \in Roots(N) /\ k = Count(N, meta, p) /\ k > 0
  BY <1>2, <1>4
<1>6. ASSUME NEW p \in N, NEW k \in 1..Cardinality(Note)
      PROVE  <<p, k>> \in root.topics <=> <<"topic", p, k>> \in page
  <2>1. k > 0
    OBVIOUS
  <2>2. <<p, k>> \in root.topics <=> p \in Roots(N) /\ k = Count(N, meta, p)
    BY <1>1, <1>3 DEF Count
  <2> QED BY <1>5, <2>1, <2>2
<1>7. \A f : <<"folder", f>> \in TopicLines(N, meta, Roots(N)) <=> FALSE
  BY DEF TopicLines
<1>8. \A f : <<"folder", f>> \in page <=> f \in root.folders
  BY <1>3, <1>4, <1>7
<1>9. root.folders \subseteq Name
  <2>1. ASSUME NEW n \in M PROVE FolderOf[n][1] \in Name
    <3>1. n \in Note /\ FolderOf[n] \in Seq(Name) /\ FolderOf[n] # <<>>
      BY FoldersAssumption DEF M
    <3> QED BY <3>1
  <2> QED BY <1>3, <2>1
<1>10. root.folders = {f \in Name : <<"folder", f>> \in page}
  BY <1>8, <1>9
<1> QED BY <1>6, <1>10 DEF N, root, page

\* What is navigated, what the derived files say and what the context map
\* counts is the same.
THEOREM ViewsAlwaysAgree == Spec => []ViewsAgree
<1>1. ASSUME VInv PROVE ViewsAgree
  <2> DEFINE N == Nodes(doc)
             root == Navigate(doc, Meta, <<>>).view
             page == RootPage(N, Meta)
  <2>1. doc \in Seq(Line) /\ DOMAIN Meta \subseteq Note
    BY <1>1, MetaTags DEF VInv, TypeOK
  <2>2. \A p \in N : NodeNotes(N, Tags, p) = NavSubtree(N, Tags, p)
    BY <2>1, NotesAre
  <2>3. Unclassified(N, Tags) = DOMAIN Tags \ UNION {NodeNotes(N, Tags, p) : p \in Roots(N)}
    BY <2>1, UnclassifiedAre
  <2>4. root = NavRoot(N, Meta)
    BY DEF Navigate
  <2>5. /\ \A p \in N, k \in 1..Cardinality(Note) :
             <<p, k>> \in root.topics <=> <<"topic", p, k>> \in page
        /\ root.folders = {f \in Name : <<"folder", f>> \in page}
    BY <2>1, <2>4, RootView
  <2>6. ASSUME NEW l \in ParseVocabulary(doc), NEW a \in NamesOf(l)
        PROVE  LET view == Navigate(doc, Meta, <<a>>).view
               IN  HubPage(N, Meta, l.path) =
                     {<<"topic", u[1], u[2]>> : u \in {v \in view.subtopics : v[2] > 0}}
                       \cup NoteLines(Meta, view.notes)
    <3>1. ResolveTopic(doc, <<a>>) = l.path /\ l.path \in N /\ l.path # <<>>
      BY <2>1, NameResolves
    <3>2. <<a>> # <<>>
      OBVIOUS
    <3>3. Navigate(doc, Meta, <<a>>).view = NavNode(N, Meta, l.path)
      BY <3>1, <3>2 DEF Navigate
    <3> QED BY <2>1, <3>1, <3>3, HubView
  <2> HIDE DEF N, root, page
  <2> QED BY <2>2, <2>3, <2>5, <2>6 DEF ViewsAgree, Meta, N, root, page
<1> QED BY <1>1, VInvAlways, PTL

-----------------------------------------------------------------------------
(* Rankings.                                                               *)

\* One path is before another in two ways.
Prefix(p, q) == Len(p) < Len(q) /\ \A j \in 1..Len(p) : p[j] = q[j]
Differs(p, q, k) == /\ k \in 1..Len(p) /\ k <= Len(q) /\ p[k] < q[k]
                    /\ \A j \in 1..(k - 1) : p[j] = q[j]
Lower(p, q) == Prefix(p, q) \/ \E k \in Nat : Differs(p, q, k)

LEMMA PrefixUnder ==
  ASSUME NEW p \in Topic, NEW q \in Topic
  PROVE  Under(q, p) <=> Prefix(p, q)
<1>1. /\ p \in Seq(Name) /\ q \in Seq(Name) /\ Len(p) \in Nat /\ Len(q) \in Nat
  BY PathFacts
<1>2. CASE Len(p) < Len(q)
  <2> DEFINE a == SubSeq(q, 1, Len(p))
  <2>1. Len(p) \in 0..Len(q)
    BY <1>1, <1>2
  <2>2. a \in Seq(Name) /\ Len(a) = Len(p) /\ \A j \in 1..Len(p) : a[j] = q[j]
    BY <1>1, <2>1, Starts
  <2> HIDE DEF a
  <2>3. a = p <=> \A j \in 1..Len(p) : a[j] = p[j]
    <3>1. (\A j \in 1..Len(p) : a[j] = p[j]) => a = p
      BY <1>1, <2>2
    <3> QED BY <3>1
  <2>4. (\A j \in 1..Len(p) : a[j] = p[j]) <=> (\A j \in 1..Len(p) : p[j] = q[j])
    BY <2>2
  <2> QED BY <1>2, <2>3, <2>4 DEF Under, Prefix, a
<1> QED BY <1>2 DEF Under, Prefix

LEMMA LowerIs ==
  ASSUME NEW p \in Topic, NEW q \in Topic
  PROVE  PathLess(p, q) <=> Lower(p, q)
<1>1. Len(p) \in Nat
  BY PathFacts
<1>2. (\E k \in Nat : Differs(p, q, k)) <=>
        \E k \in 1..Len(p) : k <= Len(q) /\ p[k] < q[k] /\ \A j \in 1..(k - 1) : p[j] = q[j]
  BY <1>1 DEF Differs
<1> QED BY <1>2, PrefixUnder DEF PathLess, Lower

LEMMA TopicSeq ==
  ASSUME NEW p \in Topic
  PROVE  Len(p) \in Nat \ {0} /\ \A j \in 1..Len(p) : p[j] \in Nat
<1>1. p \in Seq(Name) /\ Len(p) \in Nat \ {0}
  BY PathFacts
<1>2. ASSUME NEW j \in 1..Len(p) PROVE p[j] \in Nat
  <2>1. p[j] \in Name
    BY <1>1
  <2> QED BY <2>1
<1> QED BY <1>1, <1>2

\* The order of the paths is total and strict.
LEMMA LowerTotal ==
  ASSUME NEW p \in Topic, NEW q \in Topic, p # q
  PROVE  Lower(p, q) \/ Lower(q, p)
<1> DEFINE D == {k \in Nat : k \in 1..Len(p) /\ k <= Len(q) /\ p[k] # q[k]}
<1>1. /\ p \in Seq(Name) /\ q \in Seq(Name) /\ Len(p) \in Nat /\ Len(q) \in Nat
      /\ \A j \in 1..Len(p) : p[j] \in Nat
      /\ \A j \in 1..Len(q) : q[j] \in Nat
  BY PathFacts, TopicSeq
<1>2. CASE D = {}
  <2>1. ASSUME NEW j \in 1..Len(p), j <= Len(q) PROVE p[j] = q[j]
    <3>1. j \in Nat /\ j \notin D
      BY <1>1, <1>2
    <3> QED BY <2>1, <3>1
  <2>2. CASE Len(p) < Len(q)
    BY <1>1, <2>1, <2>2 DEF Lower, Prefix
  <2>3. CASE Len(q) < Len(p)
    BY <1>1, <2>1, <2>3 DEF Lower, Prefix
  <2>4. CASE Len(p) = Len(q)
    <3>1. p = q
      BY <1>1, <2>1, <2>4
    <3> QED BY <3>1
  <2> QED BY <1>1, <2>2, <2>3, <2>4
<1>3. CASE D # {}
  <2>1. PICK k \in D : \A j \in D : k <= j
    BY <1>3, NatMin
  <2>2. k \in Nat /\ k \in 1..Len(p) /\ k <= Len(q) /\ p[k] # q[k] /\ k \in 1..Len(q)
    BY <1>1, <2>1
  <2>3. ASSUME NEW j \in 1..(k - 1) PROVE p[j] = q[j]
    <3>1. j \in Nat /\ j \in 1..Len(p) /\ j <= Len(q) /\ ~(k <= j)
      BY <1>1, <2>2
    <3> QED BY <2>1, <3>1
  <2>4. p[k] < q[k] \/ q[k] < p[k]
    BY <1>1, <2>2
  <2>5. CASE p[k] < q[k]
    BY <2>2, <2>3, <2>5 DEF Lower, Differs
  <2>6. CASE q[k] < p[k]
    BY <1>1, <2>2, <2>3, <2>6 DEF Lower, Differs
  <2> QED BY <2>4, <2>5, <2>6
<1> QED BY <1>2, <1>3

LEMMA LowerIrreflexive ==
  ASSUME NEW p \in Topic
  PROVE  ~Lower(p, p)
BY TopicSeq DEF Lower, Prefix, Differs

LEMMA LowerTransitive ==
  ASSUME NEW p \in Topic, NEW q \in Topic, NEW r \in Topic, Lower(p, q), Lower(q, r)
  PROVE  Lower(p, r)
<1>1. /\ Len(p) \in Nat /\ Len(q) \in Nat /\ Len(r) \in Nat
      /\ \A j \in 1..Len(p) : p[j] \in Nat
      /\ \A j \in 1..Len(q) : q[j] \in Nat
      /\ \A j \in 1..Len(r) : r[j] \in Nat
  BY TopicSeq
<1>2. CASE Prefix(p, q) /\ Prefix(q, r)
  <2>1. Prefix(p, r)
    BY <1>1, <1>2 DEF Prefix
  <2> QED BY <2>1 DEF Lower
<1>3. ASSUME NEW k \in Nat, Prefix(p, q), Differs(q, r, k) PROVE Lower(p, r)
  <2>1. CASE k <= Len(p)
    <3>1. Differs(p, r, k)
      BY <1>1, <1>3, <2>1 DEF Prefix, Differs
    <3> QED BY <3>1 DEF Lower
  <2>2. CASE Len(p) < k
    <3>1. Len(p) < Len(r)
      BY <1>1, <1>3, <2>2 DEF Differs
    <3>2. ASSUME NEW j \in 1..Len(p) PROVE p[j] = r[j]
      <4>1. j \in 1..(k - 1)
        BY <1>1, <2>2
      <4> QED BY <1>3, <4>1 DEF Prefix, Differs
    <3>3. Prefix(p, r)
      BY <3>1, <3>2 DEF Prefix
    <3> QED BY <3>3 DEF Lower
  <2> QED BY <1>1, <2>1, <2>2
<1>4. ASSUME NEW k \in Nat, Differs(p, q, k), Prefix(q, r) PROVE Lower(p, r)
  <2>1. Differs(p, r, k)
    BY <1>1, <1>4 DEF Prefix, Differs
  <2> QED BY <2>1 DEF Lower
<1>5. ASSUME NEW k \in Nat, NEW m \in Nat, Differs(p, q, k), Differs(q, r, m) PROVE Lower(p, r)
  <2>1. CASE k < m
    <3>1. Differs(p, r, k)
      BY <1>1, <1>5, <2>1 DEF Differs
    <3> QED BY <3>1 DEF Lower
  <2>2. CASE k = m
    <3>1. Differs(p, r, k)
      BY <1>1, <1>5, <2>2 DEF Differs
    <3> QED BY <3>1 DEF Lower
  <2>3. CASE m < k
    <3>1. Differs(p, r, m)
      BY <1>1, <1>5, <2>3 DEF Differs
    <3> QED BY <3>1 DEF Lower
  <2> QED BY <2>1, <2>2, <2>3
<1> QED BY <1>2, <1>3, <1>4, <1>5 DEF Lower

\* pred[p] is what goes before p in a total order.
Ordered(S, pred) ==
  /\ pred \in [S -> SUBSET S]
  /\ \A p \in S : p \notin pred[p]
  /\ \A p, q \in S : p # q => p \in pred[q] \/ q \in pred[p]
  /\ \A p, q \in S : q \in pred[p] => pred[q] \subseteq pred[p]

LEMMA RankGrows ==
  ASSUME NEW S, IsFiniteSet(S), NEW pred, Ordered(S, pred)
  PROVE  /\ \A p \in S : Cardinality(pred[p]) \in 0..(Cardinality(S) - 1)
         /\ \A p, q \in S : q \in pred[p] => Cardinality(pred[q]) < Cardinality(pred[p])
         /\ \A p, q \in S : Cardinality(pred[q]) = Cardinality(pred[p]) => p = q
<1>1. ASSUME NEW A, NEW B \in SUBSET A, NEW x \in A, x \notin B, IsFiniteSet(A)
      PROVE  /\ Cardinality(B) < Cardinality(A)
             /\ Cardinality(A) \in Nat /\ Cardinality(B) \in Nat
  <2>1. IsFiniteSet(B) /\ Cardinality(B) <= Cardinality(A) /\ (Cardinality(A) = Cardinality(B) => A = B)
    BY <1>1, FS_Subset
  <2>2. Cardinality(A) \in Nat /\ Cardinality(B) \in Nat
    BY <1>1, <2>1, FS_CardinalityType
  <2> QED BY <1>1, <2>1, <2>2
<1>2. ASSUME NEW p \in S PROVE Cardinality(pred[p]) \in 0..(Cardinality(S) - 1)
  <2>1. pred[p] \in SUBSET S /\ p \notin pred[p]
    BY DEF Ordered
  <2>2. Cardinality(pred[p]) < Cardinality(S) /\ Cardinality(S) \in Nat /\ Cardinality(pred[p]) \in Nat
    BY <1>1, <2>1
  <2> QED BY <2>2
<1>3. ASSUME NEW p \in S, NEW q \in S, q \in pred[p]
      PROVE  Cardinality(pred[q]) < Cardinality(pred[p])
  <2>1. pred[p] \in SUBSET S /\ pred[q] \in SUBSET pred[p] /\ q \notin pred[q]
    BY <1>3 DEF Ordered
  <2>2. IsFiniteSet(pred[p])
    BY <2>1, FS_Subset
  <2> QED BY <1>1, <1>3, <2>1, <2>2
<1>4. ASSUME NEW p \in S, NEW q \in S, Cardinality(pred[q]) = Cardinality(pred[p])
      PROVE  p = q
  <2>1. CASE p # q
    <3>1. p \in pred[q] \/ q \in pred[p]
      BY <2>1 DEF Ordered
    <3>2. Cardinality(pred[q]) \in Nat /\ Cardinality(pred[p]) \in Nat
      BY <1>2, FS_CardinalityType
    <3> QED BY <1>3, <1>4, <3>1, <3>2
  <2> QED BY <2>1
<1> QED BY <1>2, <1>3, <1>4

LEMMA RankExists ==
  ASSUME NEW S, IsFiniteSet(S), NEW pred, Ordered(S, pred), NEW i \in 1..Cardinality(S)
  PROVE  \E p \in S : Cardinality(pred[p]) = i - 1
<1> DEFINE n == Cardinality(S)
           T == 0..(n - 1)
           f == [p \in S |-> Cardinality(pred[p])]
<1>1. n \in Nat /\ IsFiniteSet(T) /\ Cardinality(T) = n
  <2>1. n \in Nat
    BY FS_CardinalityType
  <2>2. IsFiniteSet(T) /\ Cardinality(T) = IF 0 > n - 1 THEN 0 ELSE (n - 1) - 0 + 1
    <3> HIDE DEF n
    <3>1. 0 \in Int /\ n - 1 \in Int
      BY <2>1
    <3> QED BY <3>1, FS_Interval
  <2> HIDE DEF n, T
  <2> QED BY <2>1, <2>2
<1>2. f \in [S -> T] /\ \A a, b \in S : f[a] = f[b] => a = b
  BY RankGrows
<1> HIDE DEF f, T
<1>3. f \in Injection(S, T)
  BY <1>2 DEF Injection, IsInjective
<1>4. Cardinality(S) = Cardinality(T)
  BY <1>1
<1>5. f \in Surjection(S, T)
  BY <1>1, <1>3, <1>4, FS_Injection
<1>6. i - 1 \in T
  BY <1>1 DEF T
<1>7. PICK p \in S : f[p] = i - 1
  BY <1>5, <1>6 DEF Surjection
<1> QED BY <1>7 DEF f

Ranks(r, S, pred) == /\ r \in [1..Cardinality(S) -> S]
                     /\ \A i \in 1..Cardinality(S) : Cardinality(pred[r[i]]) = i - 1

LEMMA RankedWhole ==
  ASSUME NEW S, IsFiniteSet(S), NEW pred, Ordered(S, pred), NEW r, Ranks(r, S, pred)
  PROVE  /\ r \in Seq(S) /\ Len(r) = Cardinality(S)
         /\ \A i, j \in 1..Len(r) : i < j => r[i] \in pred[r[j]] /\ r[i] # r[j]
         /\ \A p \in S : \E i \in 1..Len(r) : r[i] = p
         /\ \A p \in S : Len(r) # 0 /\ (p # r[1] => r[1] \in pred[p])
<1> DEFINE n == Cardinality(S)
<1>1. n \in Nat /\ r \in [1..n -> S] /\ \A i \in 1..n : Cardinality(pred[r[i]]) = i - 1
  BY FS_CardinalityType DEF Ranks
<1>2. r \in Seq(S) /\ Len(r) = n
  <2> HIDE DEF n
  <2> QED BY <1>1
<1>3. ASSUME NEW i \in 1..n, NEW j \in 1..n, i < j PROVE r[i] \in pred[r[j]] /\ r[i] # r[j]
  <2>1. r[i] \in S /\ r[j] \in S /\ Cardinality(pred[r[i]]) = i - 1 /\ Cardinality(pred[r[j]]) = j - 1
    BY <1>1
  <2>2. r[i] # r[j]
    BY <1>1, <1>3, <2>1
  <2>3. r[j] \notin pred[r[i]]
    <3>1. SUFFICES ASSUME r[j] \in pred[r[i]] PROVE FALSE
      OBVIOUS
    <3>2. Cardinality(pred[r[j]]) < Cardinality(pred[r[i]])
      BY <2>1, <3>1, RankGrows
    <3> QED BY <1>1, <1>3, <2>1, <3>2
  <2> QED BY <2>1, <2>2, <2>3 DEF Ordered
<1>4. ASSUME NEW p \in S PROVE \E i \in 1..n : r[i] = p
  <2>1. Cardinality(pred[p]) \in 0..(n - 1)
    BY RankGrows
  <2> DEFINE i == Cardinality(pred[p]) + 1
  <2>2. i \in 1..n /\ Cardinality(pred[p]) = i - 1
    BY <1>1, <2>1
  <2> HIDE DEF i
  <2>3. r[i] \in S /\ Cardinality(pred[r[i]]) = Cardinality(pred[p])
    BY <1>1, <2>2
  <2>4. r[i] = p
    BY <2>3, RankGrows
  <2> QED BY <2>2, <2>4
<1>5. ASSUME NEW p \in S PROVE n # 0 /\ (p # r[1] => r[1] \in pred[p])
  <2>1. PICK i \in 1..n : r[i] = p
    BY <1>4
  <2>2. 1 \in 1..n /\ n # 0 /\ (i = 1 \/ 1 < i)
    BY <1>1
  <2> QED BY <1>3, <2>1, <2>2
<1>6. Len(r) = Cardinality(S) /\ r \in Seq(S)
  BY <1>2
<1> HIDE DEF n
<1>7. \A i, j \in 1..Len(r) : i < j => r[i] \in pred[r[j]] /\ r[i] # r[j]
  BY <1>2, <1>3
<1>8. \A p \in S : \E i \in 1..Len(r) : r[i] = p
  BY <1>2, <1>4
<1>9. \A p \in S : Len(r) # 0 /\ (p # r[1] => r[1] \in pred[p])
  BY <1>2, <1>5
<1> QED BY <1>6, <1>7, <1>8, <1>9

\* Topics by their scores, and those of one score by their paths.
Ahead(S, sc) ==
  [p \in S |-> {q \in S : sc[q] > sc[p] \/ (sc[q] = sc[p] /\ PathLess(q, p))}]

LEMMA AheadOrdered ==
  ASSUME NEW S, S \subseteq Topic, NEW sc \in [S -> Nat]
  PROVE  Ordered(S, Ahead(S, sc))
<1> DEFINE pred == Ahead(S, sc)
<1>1. /\ \A p \in S : sc[p] \in Nat /\ p \in Topic
      /\ \A p, q \in S : PathLess(p, q) <=> Lower(p, q)
  BY LowerIs
<1>2. /\ pred \in [S -> SUBSET S]
      /\ \A p, q \in S : q \in pred[p] <=> sc[q] > sc[p] \/ (sc[q] = sc[p] /\ Lower(q, p))
  BY <1>1 DEF Ahead
<1> HIDE DEF pred
<1>3. \A p \in S : p \notin pred[p]
  BY <1>1, <1>2, LowerIrreflexive
<1>4. ASSUME NEW p \in S, NEW q \in S, p # q PROVE p \in pred[q] \/ q \in pred[p]
  <2>1. Lower(p, q) \/ Lower(q, p)
    BY <1>1, <1>4, LowerTotal
  <2> QED BY <1>1, <1>2, <2>1
<1>5. ASSUME NEW p \in S, NEW q \in S, q \in pred[p], NEW r \in pred[q] PROVE r \in pred[p]
  <2>1. r \in S
    BY <1>2
  <2>2. /\ sc[q] > sc[p] \/ (sc[q] = sc[p] /\ Lower(q, p))
        /\ sc[r] > sc[q] \/ (sc[r] = sc[q] /\ Lower(r, q))
    BY <1>2, <1>5, <2>1
  <2>3. Lower(r, q) /\ Lower(q, p) => Lower(r, p)
    BY <1>1, <2>1, LowerTransitive
  <2>4. sc[r] > sc[p] \/ (sc[r] = sc[p] /\ Lower(r, p))
    BY <1>1, <2>1, <2>2, <2>3
  <2> QED BY <1>2, <2>1, <2>4
<1> QED BY <1>2, <1>3, <1>4, <1>5 DEF Ordered, pred

-----------------------------------------------------------------------------
(* The topic named by its slug.                                            *)

CloserList(S, lines, names) ==
  [i \in 1..Cardinality(S) |->
     CHOOSE p \in S :
       Cardinality({q \in S : \/ Closeness(lines, names, q) > Closeness(lines, names, p)
                              \/ /\ Closeness(lines, names, q) = Closeness(lines, names, p)
                                 /\ PathLess(q, p)}) = i - 1]

LEMMA ClosestIs ==
  ASSUME NEW lines, NEW query, NEW n
  PROVE  LET S == {l.path : l \in lines}
         IN  ClosestTopics(lines, query, n) =
               SubSeq(CloserList(S, lines, Tokens(query)), 1,
                      IF Cardinality(S) < n THEN Cardinality(S) ELSE n)
BY DEF ClosestTopics, Ranked, CloserList

LEMMA PathHits ==
  ASSUME NEW p \in Topic, NEW names
  PROVE  LET K == {k \in 1..(Len(p) - 1) : p[k] \in names}
         IN  IsFiniteSet(K) /\ Cardinality(K) \in Nat
<1> DEFINE I == 1..(Len(p) - 1)
           K == {k \in I : p[k] \in names}
<1>1. IsFiniteSet(I)
  <2>1. Len(p) - 1 \in Int
    BY PathFacts
  <2> QED BY <2>1, FS_Interval
<1>2. K \in SUBSET I
  OBVIOUS
<1> HIDE DEF I, K
<1>3. IsFiniteSet(K)
  BY <1>1, <1>2, FS_Subset
<1>4. Cardinality(K) \in Nat
  BY <1>3, FS_CardinalityType
<1> QED BY <1>3, <1>4 DEF K, I

LEMMA SegmentNat ==
  ASSUME NEW p \in Topic, NEW names, NEW last \in Nat, NEW other \in Nat
  PROVE  SegmentScore(p, names, last, other) \in Nat
<1> DEFINE c == Cardinality({k \in 1..(Len(p) - 1) : p[k] \in names})
<1>1. c \in Nat
  BY PathHits
<1>2. SegmentScore(p, names, last, other) = (IF Slug(p) \in names THEN last ELSE 0) + other * c
  BY DEF SegmentScore
<1> HIDE DEF c
<1>3. other * c \in Nat
  BY <1>1
<1> QED BY <1>2, <1>3

\* The line of a topic.
LEMMA LineOf ==
  ASSUME NEW d \in Seq(Line), NEW p \in Nodes(d), NEW l, l = CHOOSE x \in ParseVocabulary(d) : x.path = p
  PROVE  l \in ParseVocabulary(d) /\ l.path = p /\ l.alias \subseteq Name
<1>1. \E x \in ParseVocabulary(d) : x.path = p
  BY DEF Nodes
<1>2. l \in ParseVocabulary(d) /\ l.path = p
  BY <1>1
<1>3. l \in Line
  BY <1>2, ParsedTidy
<1> QED BY <1>2, <1>3 DEF Line

LEMMA NodesFinite ==
  ASSUME NEW d \in Seq(Line)
  PROVE  IsFiniteSet(Nodes(d)) /\ Nodes(d) = {l.path : l \in ParseVocabulary(d)}
<1> DEFINE L == ParseVocabulary(d)
           f == [l \in L |-> l.path]
<1>1. IsFiniteSet(L)
  BY ParsedTidy
<1> HIDE DEF L
<1>2. f \in Surjection(L, {l.path : l \in L})
  BY DEF Surjection
<1> HIDE DEF f
<1>3. IsFiniteSet({l.path : l \in L})
  BY <1>1, <1>2, FS_Surjection
<1> QED BY <1>3 DEF Nodes, L

LEMMA SubsetCount ==
  ASSUME NEW A, NEW B, IsFiniteSet(B)
  PROVE  Cardinality(A \cap B) \in Nat /\ (A \cap B = {} => Cardinality(A \cap B) = 0)
<1>1. IsFiniteSet(A \cap B)
  BY FS_Subset
<1> QED BY <1>1, FS_CardinalityType, FS_EmptySet

LEMMA CloseNat ==
  ASSUME NEW d \in Seq(Line), NEW names, IsFiniteSet(names), NEW p \in Nodes(d)
  PROVE  Closeness(ParseVocabulary(d), names, p) \in Nat
<1>1. p \in Topic
  BY TreeFacts
<1> DEFINE l == CHOOSE x \in ParseVocabulary(d) : x.path = p
           c == Cardinality(l.alias \cap names)
           w == Cardinality(DescriptionWords(l) \cap names)
           s == SegmentScore(p, names, 3, 2)
<1>2. c \in Nat /\ w \in Nat
  BY SubsetCount
<1>3. s \in Nat
  BY <1>1, SegmentNat
<1>4. Closeness(ParseVocabulary(d), names, p) = (s + 2 * c) + w
  BY DEF Closeness
<1> HIDE DEF c, s, w
<1> QED BY <1>2, <1>3, <1>4

LEMMA ClosestRanks ==
  ASSUME NEW d \in Seq(Line), NEW names, IsFiniteSet(names),
         NEW sc, sc = [p \in Nodes(d) |-> Closeness(ParseVocabulary(d), names, p)]
  PROVE  /\ sc \in [Nodes(d) -> Nat]
         /\ Ranks(CloserList(Nodes(d), ParseVocabulary(d), names), Nodes(d), Ahead(Nodes(d), sc))
<1> DEFINE S == Nodes(d)
           L == ParseVocabulary(d)
           pred == Ahead(S, sc)
           r == CloserList(S, L, names)
<1>1. IsFiniteSet(S) /\ S = {l.path : l \in L} /\ S \subseteq Topic
  BY NodesFinite, TreeFacts
<1>2. sc \in [S -> Nat] /\ \A p \in S : sc[p] = Closeness(L, names, p)
  BY CloseNat
<1>3. Ordered(S, pred)
  BY <1>1, <1>2, AheadOrdered
<1> HIDE DEF S, L
<1>4. ASSUME NEW p \in S
      PROVE  pred[p] = {q \in S : \/ Closeness(L, names, q) > Closeness(L, names, p)
                                  \/ /\ Closeness(L, names, q) = Closeness(L, names, p)
                                     /\ PathLess(q, p)}
  BY <1>2 DEF Ahead
<1>5. r = CloserList(S, L, names)
  OBVIOUS
<1> HIDE DEF pred, r
<1>6. ASSUME NEW i \in 1..Cardinality(S)
      PROVE  r[i] \in S /\ Cardinality(pred[r[i]]) = i - 1
  <2> DEFINE pre(p) == {q \in S : \/ Closeness(L, names, q) > Closeness(L, names, p)
                                  \/ /\ Closeness(L, names, q) = Closeness(L, names, p)
                                     /\ PathLess(q, p)}
  <2>1. r[i] = CHOOSE p \in S : Cardinality(pre(p)) = i - 1
    BY <1>5 DEF CloserList
  <2>2. \A p \in S : pred[p] = pre(p)
    BY <1>4
  <2> HIDE DEF pre
  <2>3. \E p \in S : Cardinality(pred[p]) = i - 1
    BY <1>1, <1>3, RankExists
  <2>4. \E p \in S : Cardinality(pre(p)) = i - 1
    BY <2>2, <2>3
  <2>5. r[i] \in S /\ Cardinality(pre(r[i])) = i - 1
    BY <2>1, <2>4
  <2> QED BY <2>2, <2>5
<1>7. r = [i \in 1..Cardinality(S) |-> r[i]]
  <2> DEFINE body(i) ==
        CHOOSE p \in S :
          Cardinality({q \in S : \/ Closeness(L, names, q) > Closeness(L, names, p)
                                 \/ /\ Closeness(L, names, q) = Closeness(L, names, p)
                                    /\ PathLess(q, p)}) = i - 1
  <2>1. r = [i \in 1..Cardinality(S) |-> body(i)]
    BY <1>5 DEF CloserList
  <2> HIDE DEF body
  <2> QED BY <2>1
<1>8. Ranks(r, S, pred)
  BY <1>6, <1>7 DEF Ranks
<1> QED BY <1>2, <1>8 DEF r, S, L, pred

LEMMA OwnSlugScores ==
  ASSUME NEW d \in Seq(Line), NEW p \in Nodes(d), NEW q \in Nodes(d)
  PROVE  /\ Closeness(ParseVocabulary(d), {Slug(p)}, p) >= 3
         /\ q # p => /\ Closeness(ParseVocabulary(d), {Slug(p)}, q) <= 3
                     /\ ~Under(q, p) => Closeness(ParseVocabulary(d), {Slug(p)}, q) <= 1
<1> DEFINE L == ParseVocabulary(d)
           names == {Slug(p)}
           K(r) == {k \in 1..(Len(r) - 1) : r[k] \in names}
           line(r) == CHOOSE l \in L : l.path = r
           c(r) == Cardinality(K(r))
           a(r) == Cardinality(line(r).alias \cap names)
           w(r) == Cardinality(DescriptionWords(line(r)) \cap names)
<1>1. /\ p \in Topic /\ q \in Topic /\ Tidy(L) /\ IsFiniteSet(names) /\ Cardinality(names) = 1
  BY TreeFacts, ParsedTidy, FS_Singleton
<1>2. \A r \in Nodes(d) : line(r) \in L /\ line(r).path = r
  BY LineOf
<1>3. \A r \in Topic : c(r) \in Nat /\ IsFiniteSet(K(r))
  BY PathHits
<1>4. \A r : a(r) \in Nat /\ (line(r).alias \cap names = {} => a(r) = 0)
  BY <1>1, SubsetCount
<1>a. \A r : w(r) \in Nat
  BY <1>1, SubsetCount
<1>b. ASSUME NEW r PROVE w(r) <= 1
  <2> DEFINE X == DescriptionWords(line(r)) \cap names
  <2>1. X \subseteq names
    OBVIOUS
  <2> HIDE DEF X, names
  <2>2. Cardinality(X) <= Cardinality(names)
    BY <1>1, <2>1, FS_Subset
  <2> QED BY <1>1, <2>2 DEF X
<1>5. \A r : Closeness(L, names, r) =
              (((IF Slug(r) \in names THEN 3 ELSE 0) + 2 * c(r)) + 2 * a(r)) + w(r)
  BY DEF Closeness, SegmentScore
<1>6. \A r \in Nodes(d) : Slug(r) \in NamesOf(line(r)) /\ line(r).alias \subseteq NamesOf(line(r))
  BY <1>2 DEF NamesOf
<1>7. ASSUME NEW r \in Nodes(d), r # p
      PROVE  Slug(r) # Slug(p) /\ Slug(p) \notin line(r).alias
  <2>1. line(r) \in L /\ line(p) \in L /\ line(r) # line(p)
    BY <1>2, <1>7
  <2>2. NamesOf(line(r)) \cap NamesOf(line(p)) = {}
    BY <1>1, <2>1 DEF Tidy
  <2> QED BY <1>6, <2>2
<1> HIDE DEF L, line, c, a, w, K
<1>8. Closeness(L, names, p) >= 3
  <2>1. c(p) \in Nat /\ a(p) \in Nat /\ w(p) \in Nat /\ Slug(p) \in names
    BY <1>1, <1>3, <1>4, <1>a
  <2>2. Closeness(L, names, p) = ((3 + 2 * c(p)) + 2 * a(p)) + w(p)
    BY <1>5, <2>1
  <2> QED BY <2>1, <2>2
<1>9. ASSUME q # p
      PROVE  Closeness(L, names, q) <= 3 /\ (~Under(q, p) => Closeness(L, names, q) <= 1)
  <2>1. Slug(q) \notin names /\ line(q).alias \cap names = {}
    BY <1>7, <1>9
  <2>2. a(q) = 0
    BY <1>4, <2>1
  <2>3. ASSUME NEW k \in K(q) PROVE k = Len(p) /\ Under(q, p)
    <3>0. k \in 1..(Len(q) - 1) /\ q[k] = Slug(p)
      BY DEF K
    <3> DEFINE r == SubSeq(q, 1, k)
    <3>1. q \in Seq(Name) /\ Len(q) \in Nat /\ r \in Nodes(d)
      BY <1>1, <3>0, PathFacts, TreeFacts
    <3>2. k \in 0..Len(q) /\ k \in 1..k /\ k < Len(q)
      BY <3>0, <3>1
    <3>3. Len(r) = k /\ r[k] = q[k]
      BY <3>1, <3>2, Starts
    <3>4. Slug(r) = Slug(p)
      <4> HIDE DEF r
      <4> QED BY <3>0, <3>3 DEF Slug
    <3>5. r = p
      <4> HIDE DEF r
      <4> QED BY <1>7, <3>1, <3>4
    <3>6. Len(p) = k /\ SubSeq(q, 1, Len(p)) = p
      BY <3>3, <3>5
    <3> QED BY <3>2, <3>6 DEF Under
  <2>4. c(q) <= 1
    <3>1. IsFiniteSet({Len(p)}) /\ Cardinality({Len(p)}) = 1 /\ K(q) \subseteq {Len(p)}
      BY <2>3, FS_Singleton
    <3>2. Cardinality(K(q)) <= Cardinality({Len(p)})
      BY <3>1, FS_Subset
    <3> QED BY <3>1, <3>2 DEF c
  <2>5. ~Under(q, p) => c(q) = 0
    <3>1. ~Under(q, p) => K(q) = {}
      BY <2>3
    <3> QED BY <3>1, FS_EmptySet DEF c
  <2>6. Closeness(L, names, q) = ((0 + 2 * c(q)) + 2 * 0) + w(q)
    BY <1>5, <2>1, <2>2
  <2>7. c(q) \in Nat /\ w(q) \in Nat /\ w(q) <= 1
    BY <1>1, <1>3, <1>a, <1>b
  <2> QED BY <2>4, <2>5, <2>6, <2>7
<1> QED BY <1>8, <1>9 DEF L

LEMMA ClosestFirst ==
  ASSUME NEW d \in Seq(Line), NEW p \in Nodes(d), Words[Slug(p)] = {Slug(p)},
         NEW m \in Nat \ {0}
  PROVE  Head(ClosestTopics(ParseVocabulary(d), {Slug(p)}, m)) = p
<1> DEFINE S == Nodes(d)
           L == ParseVocabulary(d)
           names == {Slug(p)}
           sc == [q \in S |-> Closeness(L, names, q)]
           r == CloserList(S, L, names)
           cut == IF Cardinality(S) < m THEN Cardinality(S) ELSE m
<1>0. Tokens({Slug(p)}) = names
  BY DEF Tokens
<1>1. IsFiniteSet(S) /\ S \subseteq Topic /\ IsFiniteSet(names) /\ S = {l.path : l \in L}
  BY NodesFinite, TreeFacts, FS_Singleton
<1>a. ClosestTopics(L, {Slug(p)}, m) = SubSeq(r, 1, cut)
  <2> HIDE DEF S, L
  <2>1. ClosestTopics(L, {Slug(p)}, m) =
          SubSeq(CloserList({l.path : l \in L}, L, Tokens({Slug(p)})), 1,
                 IF Cardinality({l.path : l \in L}) < m THEN Cardinality({l.path : l \in L}) ELSE m)
    BY ClosestIs
  <2> QED BY <1>0, <1>1, <2>1
<1>2. sc \in [S -> Nat] /\ Ranks(r, S, Ahead(S, sc))
  BY <1>1, ClosestRanks
<1>3. \A q \in S : sc[q] = Closeness(L, names, q)
  OBVIOUS
<1> HIDE DEF sc, r
<1>4. Ordered(S, Ahead(S, sc))
  BY <1>1, <1>2, AheadOrdered
<1>5. /\ r \in Seq(S) /\ Len(r) # 0 /\ Len(r) = Cardinality(S)
      /\ p # r[1] => r[1] \in Ahead(S, sc)[p]
  <2> HIDE DEF S
  <2> QED BY <1>1, <1>2, <1>4, RankedWhole DEF S
<1>6. Head(SubSeq(r, 1, cut)) = r[1]
  <2>1. cut \in 1..Len(r) /\ Len(r) \in Nat
    BY <1>5
  <2> HIDE DEF cut, S
  <2> DEFINE t == SubSeq(r, 1, cut)
  <2>2. t \in Seq(S) /\ Len(t) # 0 /\ t[1] = r[1]
    BY <1>5, <2>1
  <2> HIDE DEF t
  <2>3. Head(t) = t[1]
    BY <2>2
  <2> QED BY <2>2, <2>3 DEF t
<1>7. CASE r[1] # p
  <2> DEFINE q == r[1]
  <2>1. q \in S /\ (sc[q] > sc[p] \/ (sc[q] = sc[p] /\ PathLess(q, p)))
    BY <1>5, <1>7 DEF Ahead
  <2>2. sc[q] <= 3 /\ sc[p] >= 3 /\ (~Under(q, p) => sc[q] <= 1)
    BY <1>3, <1>7, <2>1, OwnSlugScores
  <2>3. sc[q] \in Nat /\ sc[p] \in Nat
    BY <1>2, <2>1
  <2>4. Under(q, p) /\ PathLess(q, p)
    BY <2>1, <2>2, <2>3
  <2>5. PathLess(p, q)
    BY <2>4 DEF PathLess
  <2>6. q \in Topic /\ p \in Topic
    BY <1>1, <2>1
  <2> HIDE DEF q
  <2>7. Lower(p, q) /\ Lower(q, p)
    BY <2>4, <2>5, <2>6, LowerIs
  <2>8. Lower(p, p)
    BY <2>6, <2>7, LowerTransitive
  <2> QED BY <2>6, <2>8, LowerIrreflexive
<1> QED BY <1>6, <1>7, <1>a DEF L

-----------------------------------------------------------------------------
(* The topics a task selects.                                              *)

Hits(lines, task) == {p \in {l.path : l \in lines} : NodeScore(lines, task, p) > 0}

HitList(S, lines, task) ==
  [i \in 1..Cardinality(S) |->
     CHOOSE p \in S :
       Cardinality({q \in S : \/ NodeScore(lines, task, q) > NodeScore(lines, task, p)
                              \/ /\ NodeScore(lines, task, q) = NodeScore(lines, task, p)
                                 /\ PathLess(q, p)}) = i - 1]

RelatedTo(sel, p) == {i \in 1..Len(sel) : Under(p, sel[i]) \/ Under(sel[i], p)}
FirstRelated(sel, p) == CHOOSE k \in RelatedTo(sel, p) : \A j \in RelatedTo(sel, p) : k <= j
Wins(lines, task, sel, p) ==
  \/ /\ Under(p, sel[FirstRelated(sel, p)])
     /\ NodeScore(lines, task, p) >= NodeScore(lines, task, sel[FirstRelated(sel, p)])
  \/ /\ Under(sel[FirstRelated(sel, p)], p)
     /\ NodeScore(lines, task, p) > NodeScore(lines, task, sel[FirstRelated(sel, p)])

NextSelected(lines, task, top, sel, p) ==
  IF Len(sel) >= top THEN sel
  ELSE IF RelatedTo(sel, p) = {} THEN Append(sel, p)
  ELSE IF Wins(lines, task, sel, p) THEN ReplaceAt(sel, FirstRelated(sel, p), p) ELSE sel

SelectFold(lines, task, top, r) ==
  (CHOOSE iter : iter =
     [s \in SUBSET DOMAIN r |->
        IF s = {} THEN <<>> ELSE NextSelected(lines, task, top, iter[s \ {Max(s)}], r[Max(s)])])[DOMAIN r]

LEMMA SelectIter ==
  ASSUME NEW lines, NEW task, NEW top
  PROVE  ScoreNodes(lines, task, top) =
           SelectFold(lines, task, top, HitList(Hits(lines, task), lines, task))
BY DEF ScoreNodes, FoldLeft, MapThenFoldSet, Select, NextSelected, RelatedTo, FirstRelated, Wins,
       Ranked, HitList, Hits, SelectFold

\* No topic twice, and none together with one below it.
Apart(sel) ==
  /\ \A i, j \in 1..Len(sel) : sel[i] = sel[j] => i = j
  /\ \A i, j \in 1..Len(sel) : ~Under(sel[i], sel[j])

\* The starts of one path are comparable.
LEMMA StartsCompare ==
  ASSUME NEW p \in Topic, NEW a \in Topic, NEW b \in Topic, Under(p, a), Under(p, b)
  PROVE  a = b \/ Under(a, b) \/ Under(b, a)
<1>1. /\ p \in Seq(Name) /\ Len(p) \in Nat /\ Len(a) \in Nat /\ Len(b) \in Nat
  BY PathFacts
<1>2. /\ Len(a) < Len(p) /\ SubSeq(p, 1, Len(a)) = a
      /\ Len(b) < Len(p) /\ SubSeq(p, 1, Len(b)) = b
  BY DEF Under
<1>3. CASE Len(a) = Len(b)
  BY <1>2, <1>3
<1>4. ASSUME NEW x \in Topic, NEW y \in Topic, Len(x) \in Nat, Len(y) \in Nat, Len(x) < Len(y), Len(y) < Len(p),
             SubSeq(p, 1, Len(x)) = x, SubSeq(p, 1, Len(y)) = y
      PROVE  Under(y, x)
  <2>1. Len(y) \in 0..Len(p) /\ Len(x) \in 0..Len(y)
    BY <1>1, <1>4
  <2>2. SubSeq(SubSeq(p, 1, Len(y)), 1, Len(x)) = SubSeq(p, 1, Len(x))
    BY <1>1, <2>1, Starts
  <2> QED BY <1>4, <2>2 DEF Under
<1>5. CASE Len(a) < Len(b)
  BY <1>1, <1>2, <1>4, <1>5
<1>6. CASE Len(b) < Len(a)
  BY <1>1, <1>2, <1>4, <1>6
<1> QED BY <1>1, <1>3, <1>5, <1>6

\* What is selected when p is next in the ranking.
Outranks(lines, task, sel, p) ==
  \A i \in 1..Len(sel) : /\ NodeScore(lines, task, sel[i]) \in Nat
                         /\ NodeScore(lines, task, sel[i]) >= NodeScore(lines, task, p)
                         /\ sel[i] # p

Extends(S, sel, p, next) ==
  /\ next \in Seq(S) /\ Apart(next)
  /\ \A i \in 1..Len(next) : next[i] = p \/ \E j \in 1..Len(sel) : next[i] = sel[j]

LEMMA SelectStep ==
  ASSUME NEW lines, NEW task, NEW top, NEW S, S \subseteq Topic, NEW sel \in Seq(S), NEW p \in S,
         Apart(sel), NodeScore(lines, task, p) \in Nat, Outranks(lines, task, sel, p),
         NEW next, next = NextSelected(lines, task, top, sel, p)
  PROVE  Extends(S, sel, p, next)
<1> USE DEF Extends
<1> USE DEF Outranks
<1> DEFINE R == RelatedTo(sel, p)
           i == FirstRelated(sel, p)
<1>1. /\ Len(sel) \in Nat /\ \A k \in 1..Len(sel) : sel[k] \in S /\ sel[k] \in Topic
      /\ p \in Topic
  OBVIOUS
<1>2. CASE next = sel
  BY <1>2
<1>3. CASE next = Append(sel, p) /\ R = {}
  <2>1. next \in Seq(S) /\ Len(next) = Len(sel) + 1 /\ next[Len(sel) + 1] = p
    BY <1>1, <1>3
  <2>2. \A k \in 1..Len(sel) : next[k] = sel[k]
    BY <1>1, <1>3
  <2>3. \A k \in 1..Len(sel) : ~Under(p, sel[k]) /\ ~Under(sel[k], p)
    BY <1>3 DEF RelatedTo
  <2>4. ASSUME NEW k \in 1..Len(next) PROVE k \in 1..Len(sel) \/ (k = Len(sel) + 1 /\ next[k] = p)
    <3> DEFINE n == Len(sel)
    <3>1. k \in 1..(n + 1) /\ n \in Nat
      BY <1>1, <2>1
    <3> HIDE DEF n
    <3>2. k \in 1..n \/ k = n + 1
      BY <3>1
    <3> QED BY <2>1, <3>2 DEF n
  <2>5. ASSUME NEW j \in 1..Len(next), NEW k \in 1..Len(next), next[j] = next[k] PROVE j = k
    <3>1. CASE j \in 1..Len(sel) /\ k \in 1..Len(sel)
      BY <2>2, <2>5, <3>1 DEF Apart
    <3>2. CASE j \in 1..Len(sel) /\ k = Len(sel) + 1
      BY <2>1, <2>2, <2>5, <3>2
    <3>3. CASE k \in 1..Len(sel) /\ j = Len(sel) + 1
      BY <2>1, <2>2, <2>5, <3>3
    <3> QED BY <2>4, <3>1, <3>2, <3>3
  <2>6. ~Under(p, p)
    BY <1>1, PathFacts DEF Under
  <2>7. ASSUME NEW j \in 1..Len(next), NEW k \in 1..Len(next) PROVE ~Under(next[j], next[k])
    <3>1. CASE j \in 1..Len(sel) /\ k \in 1..Len(sel)
      BY <2>2, <3>1 DEF Apart
    <3>2. CASE j \in 1..Len(sel) /\ k = Len(sel) + 1
      BY <2>1, <2>2, <2>3, <3>2
    <3>3. CASE k \in 1..Len(sel) /\ j = Len(sel) + 1
      BY <2>1, <2>2, <2>3, <3>3
    <3>4. CASE j = Len(sel) + 1 /\ k = Len(sel) + 1
      BY <2>1, <2>6, <3>4
    <3> QED BY <2>4, <3>1, <3>2, <3>3, <3>4
  <2>8. \A k \in 1..Len(next) : next[k] = p \/ \E j \in 1..Len(sel) : next[k] = sel[j]
    BY <2>1, <2>2, <2>4
  <2> QED BY <2>1, <2>5, <2>7, <2>8 DEF Apart
<1>4. CASE next = ReplaceAt(sel, i, p) /\ R # {} /\ Wins(lines, task, sel, p)
  <2>1. i \in R /\ i \in 1..Len(sel)
    <3>1. R \subseteq Nat /\ R \subseteq 1..Len(sel)
      BY <1>1 DEF RelatedTo
    <3>2. \E m \in R : \A j \in R : m <= j
      BY <1>4, <3>1, NatMin
    <3>3. i \in R
      BY <3>2 DEF FirstRelated
    <3> QED BY <3>1, <3>3
  <2> HIDE DEF i, R
  <2>2. Under(p, sel[i])
    BY <1>4, <2>1 DEF Wins, i
  <2>3. /\ next \in Seq(S) /\ Len(next) = Len(sel) /\ next[i] = p
        /\ \A k \in 1..Len(sel) : k # i => next[k] = sel[k]
    <3>1. next = [sel EXCEPT ![i] = p]
      BY <1>4 DEF ReplaceAt
    <3> QED BY <1>1, <2>1, <3>1
  <2>4. ASSUME NEW k \in 1..Len(sel), k # i
        PROVE  /\ ~Under(sel[k], p) /\ ~Under(p, sel[k])
    <3>1. sel[k] \in Topic /\ sel[i] \in Topic /\ sel[k] # sel[i] /\ ~Under(sel[k], sel[i]) /\ ~Under(sel[i], sel[k])
      BY <1>1, <2>1, <2>4 DEF Apart
    <3>2. ~Under(sel[k], p)
      BY <1>1, <2>2, <3>1, UnderTrans
    <3>3. ~Under(p, sel[k])
      BY <1>1, <2>2, <3>1, StartsCompare
    <3> QED BY <3>2, <3>3
  <2>5. ~Under(p, p)
    BY <1>1, PathFacts DEF Under
  <2>6. ASSUME NEW j \in 1..Len(next), NEW k \in 1..Len(next) PROVE ~Under(next[j], next[k])
    <3>1. j \in 1..Len(sel) /\ k \in 1..Len(sel)
      BY <2>3
    <3>2. CASE j # i /\ k # i
      BY <2>3, <3>1, <3>2 DEF Apart
    <3>3. CASE j = i /\ k # i
      BY <2>3, <2>4, <3>1, <3>3
    <3>4. CASE j # i /\ k = i
      BY <2>3, <2>4, <3>1, <3>4
    <3>5. CASE j = i /\ k = i
      BY <2>3, <2>5, <3>5
    <3> QED BY <3>2, <3>3, <3>4, <3>5
  <2>7. ASSUME NEW j \in 1..Len(next), NEW k \in 1..Len(next), next[j] = next[k] PROVE j = k
    <3>1. j \in 1..Len(sel) /\ k \in 1..Len(sel)
      BY <2>3
    <3>2. CASE j # i /\ k # i
      BY <2>3, <2>7, <3>1, <3>2 DEF Apart
    <3>3. CASE j = i /\ k # i
      BY <2>3, <2>7, <3>1, <3>3
    <3>4. CASE j # i /\ k = i
      BY <2>3, <2>7, <3>1, <3>4
    <3> QED BY <3>2, <3>3, <3>4
  <2>8. \A k \in 1..Len(next) : next[k] = p \/ \E j \in 1..Len(sel) : next[k] = sel[j]
    BY <2>1, <2>3
  <2> QED BY <2>3, <2>6, <2>7, <2>8 DEF Apart
<1> QED BY <1>2, <1>3, <1>4 DEF NextSelected

LEMMA NodeScoreNat ==
  ASSUME NEW d \in Seq(Line), NEW task, IsFiniteSet(Hit(task)), NEW p \in Nodes(d)
  PROVE  NodeScore(ParseVocabulary(d), task, p) \in Nat
<1>1. p \in Topic
  BY TreeFacts
<1> DEFINE l == CHOOSE x \in ParseVocabulary(d) : x.path = p
           c == Cardinality(l.alias \cap Hit(task))
           w == Cardinality(DescriptionWords(l) \cap Hit(task))
           s == SegmentScore(p, Hit(task), 1, 1)
<1>2. c \in Nat /\ w \in Nat
  BY SubsetCount
<1>3. s \in Nat
  BY <1>1, SegmentNat
<1>4. NodeScore(ParseVocabulary(d), task, p) = (s + c) + w
  BY DEF NodeScore
<1> HIDE DEF c, s, w
<1> QED BY <1>2, <1>3, <1>4

LEMMA HitRanks ==
  ASSUME NEW d \in Seq(Line), NEW task, IsFiniteSet(Hit(task)),
         NEW S, S = Hits(ParseVocabulary(d), task),
         NEW sc, sc = [p \in S |-> NodeScore(ParseVocabulary(d), task, p)]
  PROVE  /\ sc \in [S -> Nat] /\ IsFiniteSet(S) /\ S \subseteq Nodes(d) /\ S \subseteq Topic
         /\ Ranks(HitList(S, ParseVocabulary(d), task), S, Ahead(S, sc))
<1> DEFINE L == ParseVocabulary(d)
           pred == Ahead(S, sc)
           r == HitList(S, L, task)
<1>1. S \subseteq Nodes(d)
  BY DEF Hits, Nodes
<1>2. IsFiniteSet(S) /\ S \subseteq Topic
  BY <1>1, NodesFinite, TreeFacts, FS_Subset
<1>3. sc \in [S -> Nat] /\ \A p \in S : sc[p] = NodeScore(L, task, p)
  BY <1>1, NodeScoreNat
<1>4. Ordered(S, pred)
  BY <1>2, <1>3, AheadOrdered
<1> HIDE DEF L
<1>5. ASSUME NEW p \in S
      PROVE  pred[p] = {q \in S : \/ NodeScore(L, task, q) > NodeScore(L, task, p)
                                  \/ /\ NodeScore(L, task, q) = NodeScore(L, task, p)
                                     /\ PathLess(q, p)}
  BY <1>3 DEF Ahead
<1> HIDE DEF pred
<1> DEFINE pre(p) == {q \in S : \/ NodeScore(L, task, q) > NodeScore(L, task, p)
                                \/ /\ NodeScore(L, task, q) = NodeScore(L, task, p)
                                   /\ PathLess(q, p)}
           body(i) == CHOOSE p \in S : Cardinality(pre(p)) = i - 1
<1>6. r = [i \in 1..Cardinality(S) |-> body(i)]
  BY DEF HitList
<1> HIDE DEF r
<1>7. ASSUME NEW i \in 1..Cardinality(S)
      PROVE  r[i] \in S /\ Cardinality(pred[r[i]]) = i - 1
  <2>1. r[i] = CHOOSE p \in S : Cardinality(pre(p)) = i - 1
    BY <1>6
  <2>2. \A p \in S : pred[p] = pre(p)
    BY <1>5
  <2> HIDE DEF pre
  <2>3. \E p \in S : Cardinality(pred[p]) = i - 1
    BY <1>2, <1>4, RankExists
  <2>4. \E p \in S : Cardinality(pre(p)) = i - 1
    BY <2>2, <2>3
  <2>5. r[i] \in S /\ Cardinality(pre(r[i])) = i - 1
    BY <2>1, <2>4
  <2> QED BY <2>2, <2>5
<1> HIDE DEF body
<1>8. r = [i \in 1..Cardinality(S) |-> r[i]]
  BY <1>6
<1>9. Ranks(r, S, pred)
  BY <1>7, <1>8 DEF Ranks
<1> QED BY <1>1, <1>2, <1>3, <1>9 DEF r, L, pred

\* What is selected after each topic of the ranking.
Selects(f, lines, task, top, S, r) ==
  /\ f \in [0..Len(r) -> Seq(S)] /\ f[0] = <<>>
  /\ \A i \in 1..Len(r) : f[i] = NextSelected(lines, task, top, f[i - 1], r[i])
  /\ SelectFold(lines, task, top, r) = f[Len(r)]

LEMMA SelectedType ==
  ASSUME NEW lines, NEW task, NEW top, NEW S, NEW sel \in Seq(S), NEW p \in S
  PROVE  NextSelected(lines, task, top, sel, p) \in Seq(S)
<1> DEFINE i == FirstRelated(sel, p)
<1>1. Append(sel, p) \in Seq(S)
  OBVIOUS
<1>2. [sel EXCEPT ![i] = p] \in Seq(S)
  <2> DEFINE next == [sel EXCEPT ![i] = p]
  <2> HIDE DEF i
  <2>1. ASSUME NEW k \in 1..Len(sel) PROVE next[k] \in S
    <3>1. DOMAIN sel = 1..Len(sel) /\ sel[k] \in S
      OBVIOUS
    <3>2. next[k] = IF k = i THEN p ELSE sel[k]
      BY <3>1
    <3> HIDE DEF next
    <3> QED BY <3>1, <3>2
  <2>2. DOMAIN next = 1..Len(sel) /\ next = [k \in 1..Len(sel) |-> next[k]] /\ Len(sel) \in Nat
    <3>1. DOMAIN next = DOMAIN sel /\ DOMAIN sel = 1..Len(sel) /\ Len(sel) \in Nat
      OBVIOUS
    <3>2. next = [k \in DOMAIN next |-> next[k]]
      OBVIOUS
    <3> HIDE DEF next
    <3> QED BY <3>1, <3>2
  <2> HIDE DEF next
  <2>3. next \in Seq(S)
    BY <2>1, <2>2
  <2> QED BY <2>3 DEF next
<1> QED BY <1>1, <1>2 DEF NextSelected, ReplaceAt

LEMMA SeqFoldRun ==
  ASSUME NEW n \in Nat, NEW T, NEW base \in T, NEW step \in [1..n -> [T -> T]],
         NEW iter, Follows(iter, n, T, base, step), NEW f, f = [k \in 0..n |-> iter[1..k]]
  PROVE  Runs(f, n, T, base, step)
<1>1. Runs([k \in 0..n |-> iter[1..k]], n, T, base, step)
  BY SeqFoldRuns
<1> QED BY <1>1

LEMMA Selecting ==
  ASSUME NEW lines, NEW task, NEW top, NEW S, NEW r \in Seq(S)
  PROVE  \E f : Selects(f, lines, task, top, S, r)
<1> DEFINE n == Len(r)
           D == DOMAIN r
           T == Seq(S)
           Onto(sel, p) == NextSelected(lines, task, top, sel, p)
           Eq(iter) == iter = [s \in SUBSET D |->
                 IF s = {} THEN <<>> ELSE Onto(iter[s \ {Max(s)}], r[Max(s)])]
           step == [i \in 1..n |-> [X \in T |-> Onto(X, r[i])]]
<1>1. D = 1..n /\ n \in Nat /\ \A i \in 1..n : r[i] \in S
  OBVIOUS
<1>a. SelectFold(lines, task, top, r) = (CHOOSE iter : Eq(iter))[D]
  BY DEF SelectFold
<1>b. \A X \in T, p \in S : Onto(X, p) \in T
  BY SelectedType
<1> HIDE DEF Onto
<1>2. step \in [1..n -> [T -> T]]
  <2>1. ASSUME NEW i \in 1..n, NEW X \in T PROVE Onto(X, r[i]) \in T
    BY <1>1, <1>b
  <2> QED BY <2>1
<1> DEFINE none == <<>>
<1>c. none \in T
  OBVIOUS
<1>3. \E iter : Eq(iter)
  <2>1. PICK it : Iterates(it, n, T, none, step)
    <3> HIDE DEF step, T, n, none
    <3> QED BY <1>1, <1>2, <1>c, SeqFoldExists
  <2>2. ASSUME NEW s \in SUBSET (1..n)
        PROVE  it[s] = IF s = {} THEN <<>> ELSE Onto(it[s \ {Max(s)}], r[Max(s)])
    <3>1. s # {} => Max(s) \in 1..n
      BY <1>1, IndexMax
    <3>2. it[s \ {Max(s)}] \in T
      BY <2>1 DEF Iterates
    <3>3. s # {} => step[Max(s)][it[s \ {Max(s)}]] = Onto(it[s \ {Max(s)}], r[Max(s)])
      BY <3>1, <3>2
    <3> QED BY <2>1, <3>3 DEF Iterates
  <2>3. it = [s \in SUBSET D |-> it[s]]
    BY <1>1, <2>1 DEF Iterates
  <2>4. Eq(it)
    BY <1>1, <2>2, <2>3
  <2> QED BY <2>4
<1>4. PICK iter : Eq(iter) /\ SelectFold(lines, task, top, r) = iter[D]
  <2> HIDE DEF Eq, D
  <2> QED BY <1>3, <1>a
<1> DEFINE f == [k \in 0..n |-> iter[1..k]]
<1>5. Runs(f, n, T, none, step)
  <2>1. iter[{}] = <<>>
    BY <1>4
  <2>2. ASSUME NEW s \in SUBSET (1..n), s # {}, iter[s \ {Max(s)}] \in T
        PROVE  iter[s] = step[Max(s)][iter[s \ {Max(s)}]]
    <3>1. Max(s) \in 1..n
      BY <1>1, <2>2, IndexMax
    <3>2. iter[s] = Onto(iter[s \ {Max(s)}], r[Max(s)])
      BY <1>1, <1>4, <2>2
    <3> QED BY <2>2, <3>1, <3>2
  <2>4. Follows(iter, n, T, none, step)
    BY <2>1, <2>2 DEF Follows
  <2>3. n \in Nat
    BY <1>1
  <2> HIDE DEF step, T, n, Eq, none
  <2>5. n \in Nat /\ none \in T
    BY <1>c, <2>3
  <2>6. step \in [1..n -> [T -> T]]
    BY <1>2
  <2>8. f = [k \in 0..n |-> iter[1..k]]
    OBVIOUS
  <2> HIDE DEF D, f
  <2> QED BY <2>4, <2>5, <2>6, <2>8, SeqFoldRun
<1>6. f \in [0..n -> T] /\ f[0] = <<>>
  BY <1>5 DEF Runs
<1>7. ASSUME NEW i \in 1..n PROVE f[i] = Onto(f[i - 1], r[i])
  <2>1. f[i - 1] \in T
    BY <1>6
  <2>2. f[i] = step[i][f[i - 1]]
    BY <1>5 DEF Runs
  <2> HIDE DEF f
  <2> QED BY <2>1, <2>2
<1>8. SelectFold(lines, task, top, r) = f[n]
  BY <1>1, <1>4
<1>9. Selects(f, lines, task, top, S, r)
  <2> HIDE DEF f
  <2> QED BY <1>6, <1>7, <1>8 DEF Selects, Onto
<1> QED BY <1>9

LEMMA SelectionApart ==
  ASSUME NEW d \in Seq(Line), NEW task, IsFiniteSet(Hit(task)), NEW top
  PROVE  /\ ScoreNodes(ParseVocabulary(d), task, top) \in Seq(Nodes(d))
         /\ Apart(ScoreNodes(ParseVocabulary(d), task, top))
<1> DEFINE L == ParseVocabulary(d)
           S == Hits(L, task)
           sc == [p \in S |-> NodeScore(L, task, p)]
           r == HitList(S, L, task)
           n == Len(r)
<1>1. /\ sc \in [S -> Nat] /\ IsFiniteSet(S) /\ S \subseteq Nodes(d) /\ S \subseteq Topic
      /\ Ranks(r, S, Ahead(S, sc))
  BY HitRanks
<1>2. Ordered(S, Ahead(S, sc))
  BY <1>1, AheadOrdered
<1> HIDE DEF L
<1>3. /\ r \in Seq(S)
      /\ \A i, j \in 1..Len(r) : i < j => r[i] \in Ahead(S, sc)[r[j]] /\ r[i] # r[j]
  <2> HIDE DEF S, sc, r
  <2> QED BY <1>1, <1>2, RankedWhole
<1>4. \A p \in S : NodeScore(L, task, p) \in Nat /\ sc[p] = NodeScore(L, task, p)
  BY <1>1
<1>5. \A i, j \in 1..n : i < j => NodeScore(L, task, r[i]) >= NodeScore(L, task, r[j]) /\ r[i] # r[j]
  <2>1. ASSUME NEW i \in 1..n, NEW j \in 1..n, i < j
        PROVE  NodeScore(L, task, r[i]) >= NodeScore(L, task, r[j])
    <3>1. r[i] \in S /\ r[j] \in S /\ r[i] \in Ahead(S, sc)[r[j]]
      BY <1>3, <2>1
    <3> HIDE DEF r, S
    <3>2. sc[r[i]] \in Nat /\ sc[r[j]] \in Nat
      BY <1>1, <3>1
    <3>3. sc[r[i]] > sc[r[j]] \/ sc[r[i]] = sc[r[j]]
      BY <3>1 DEF Ahead
    <3>4. sc[r[i]] >= sc[r[j]]
      BY <3>2, <3>3
    <3> QED BY <1>4, <3>1, <3>4
  <2> QED BY <1>3, <2>1
<1> HIDE DEF S, sc, r
<1>6. PICK f : Selects(f, L, task, top, S, r)
  BY <1>3, Selecting
<1>7. n \in Nat /\ \A k \in 1..n : r[k] \in S
  BY <1>3
<1> HIDE DEF n
<1>8. /\ f \in [0..n -> Seq(S)] /\ f[0] = <<>>
      /\ \A i \in 1..n : f[i] = NextSelected(L, task, top, f[i - 1], r[i])
      /\ SelectFold(L, task, top, r) = f[n]
  BY <1>6 DEF Selects, n
<1> DEFINE Good(k) == /\ Apart(f[k])
                      /\ \A i \in 1..Len(f[k]) : \E j \in 1..k : f[k][i] = r[j]
           K == {k \in Nat : k <= n => Good(k)}
<1>9. Good(0)
  BY <1>8 DEF Apart
<1>10. ASSUME NEW k \in Nat, k < n, Good(k) PROVE Good(k + 1)
  <2> DEFINE sel == f[k]
             p == r[k + 1]
             next == f[k + 1]
  <2>1. k \in 0..n /\ k + 1 \in 1..n /\ (k + 1) - 1 = k
    BY <1>7, <1>10
  <2>2. sel \in Seq(S) /\ p \in S /\ next = NextSelected(L, task, top, sel, p)
    BY <1>7, <1>8, <2>1
  <2>3. \A i \in 1..Len(sel) : \E j \in 1..k : sel[i] = r[j]
    BY <1>10
  <2>a. Apart(sel)
    BY <1>10
  <2>b. \A i \in 1..Len(sel) : sel[i] \in S
    BY <2>2
  <2>c. p = r[k + 1]
    OBVIOUS
  <2> HIDE DEF sel, p, next
  <2>4. ASSUME NEW i \in 1..Len(sel)
        PROVE  /\ NodeScore(L, task, sel[i]) \in Nat
               /\ NodeScore(L, task, sel[i]) >= NodeScore(L, task, p)
               /\ sel[i] # p
    <3>1. PICK j \in 1..k : sel[i] = r[j]
      BY <2>3
    <3>2. j \in 1..n /\ j < k + 1
      BY <1>7, <1>10
    <3> QED BY <1>4, <1>5, <2>1, <2>b, <2>c, <3>1, <3>2
  <2>5. NodeScore(L, task, p) \in Nat
    BY <1>4, <2>2
  <2>6. /\ Apart(next)
        /\ \A i \in 1..Len(next) : next[i] = p \/ \E j \in 1..Len(sel) : next[i] = sel[j]
    <3>1. S \subseteq Topic
      BY <1>1
    <3>2. Outranks(L, task, sel, p)
      BY <2>4 DEF Outranks
    <3>3. S \subseteq Topic /\ sel \in Seq(S) /\ p \in S /\ Apart(sel) /\ NodeScore(L, task, p) \in Nat
          /\ Outranks(L, task, sel, p) /\ next = NextSelected(L, task, top, sel, p)
      BY <2>2, <2>a, <2>5, <3>1, <3>2
    <3>4. Extends(S, sel, p, next)
      BY <3>3, SelectStep
    <3> QED BY <3>4 DEF Extends
  <2>7. ASSUME NEW i \in 1..Len(next) PROVE \E j \in 1..(k + 1) : next[i] = r[j]
    <3>1. 1..k \subseteq 1..(k + 1) /\ k + 1 \in 1..(k + 1)
      OBVIOUS
    <3> QED BY <2>3, <2>6, <2>c, <3>1
  <2> QED BY <2>6, <2>7 DEF next
<1> HIDE DEF Good
<1>11. \A k \in Nat : k \in K
  <2>1. 0 \in K
    BY <1>9
  <2>2. \A k \in K : k + 1 \in K
    BY <1>7, <1>10
  <2>3. K \subseteq Nat
    OBVIOUS
  <2> HIDE DEF K
  <2> QED BY <2>1, <2>2, <2>3, NatSetInduction
<1>12. Good(n)
  BY <1>7, <1>11
<1>13. f[n] \in Seq(S)
  BY <1>7, <1>8
<1>14. ScoreNodes(L, task, top) = f[n]
  BY <1>8, SelectIter DEF S, r
<1>15. f[n] \in Seq(Nodes(d))
  BY <1>1, <1>13
<1> QED BY <1>12, <1>14, <1>15 DEF Good, L

-----------------------------------------------------------------------------
(* The entries of a map.                                                   *)

Entry(S, tags) == [path: S, notes: SUBSET DOMAIN tags]
Seen(acc) == UNION {acc[i].notes : i \in 1..Len(acc)}
Best(new, max) == {n \in new : Cardinality({m \in new : m < n}) < max}
EntryOf(nodes, tags, max, acc, p) ==
  [path |-> p, notes |-> Best(NavSubtree(nodes, tags, p) \ Seen(acc), max)]
Filled(nodes, tags, max, acc, p) == Append(acc, EntryOf(nodes, tags, max, acc, p))

FillFold(nodes, tags, max, r) ==
  (CHOOSE iter : iter =
     [s \in SUBSET DOMAIN r |->
        IF s = {} THEN <<>> ELSE Filled(nodes, tags, max, iter[s \ {Max(s)}], r[Max(s)])])[DOMAIN r]

LEMMA FillIter ==
  ASSUME NEW nodes, NEW tags, NEW max, NEW r
  PROVE  NodeEntries(nodes, tags, r, max) = FillFold(nodes, tags, max, r)
BY DEF NodeEntries, FoldLeft, MapThenFoldSet, FillFold, Filled, EntryOf, Best, Seen

LEMMA FilledType ==
  ASSUME NEW nodes, NEW tags, NEW max, NEW S, NEW acc \in Seq(Entry(S, tags)), NEW p \in S
  PROVE  /\ EntryOf(nodes, tags, max, acc, p) \in Entry(S, tags)
         /\ Filled(nodes, tags, max, acc, p) \in Seq(Entry(S, tags))
<1> DEFINE new == NavSubtree(nodes, tags, p) \ Seen(acc)
           notes == Best(new, max)
<1>1. new \subseteq DOMAIN tags
  BY DEF NavSubtree, DirectNotes
<1> HIDE DEF new
<1>2. notes \in SUBSET DOMAIN tags
  BY <1>1 DEF Best
<1>3. EntryOf(nodes, tags, max, acc, p) = [path |-> p, notes |-> notes]
  BY DEF EntryOf, new
<1> HIDE DEF notes
<1>4. EntryOf(nodes, tags, max, acc, p) \in Entry(S, tags)
  BY <1>2, <1>3 DEF Entry
<1> DEFINE E == Entry(S, tags)
           e == EntryOf(nodes, tags, max, acc, p)
<1> HIDE DEF E, e
<1>5. Append(acc, e) \in Seq(E)
  BY <1>4 DEF E, e
<1> QED BY <1>4, <1>5 DEF Filled, E, e

\* What the map holds after each topic.
Fills(f, nodes, tags, max, S, r) ==
  /\ f \in [0..Len(r) -> Seq(Entry(S, tags))] /\ f[0] = <<>>
  /\ \A i \in 1..Len(r) : f[i] = Filled(nodes, tags, max, f[i - 1], r[i])
  /\ FillFold(nodes, tags, max, r) = f[Len(r)]

LEMMA Filling ==
  ASSUME NEW nodes, NEW tags, NEW max, NEW S, NEW r \in Seq(S)
  PROVE  \E f : Fills(f, nodes, tags, max, S, r)
<1> DEFINE n == Len(r)
           D == DOMAIN r
           T == Seq(Entry(S, tags))
           Onto(acc, p) == Filled(nodes, tags, max, acc, p)
           Eq(iter) == iter = [s \in SUBSET D |->
                 IF s = {} THEN <<>> ELSE Onto(iter[s \ {Max(s)}], r[Max(s)])]
           step == [i \in 1..n |-> [X \in T |-> Onto(X, r[i])]]
<1>1. D = 1..n /\ n \in Nat /\ \A i \in 1..n : r[i] \in S
  OBVIOUS
<1>a. FillFold(nodes, tags, max, r) = (CHOOSE iter : Eq(iter))[D]
  BY DEF FillFold
<1>b. \A X \in T, p \in S : Onto(X, p) \in T
  BY FilledType
<1> HIDE DEF Onto
<1>2. step \in [1..n -> [T -> T]]
  <2>1. ASSUME NEW i \in 1..n, NEW X \in T PROVE Onto(X, r[i]) \in T
    BY <1>1, <1>b
  <2> QED BY <2>1
<1> DEFINE none == <<>>
<1>c. none \in T
  OBVIOUS
<1>3. \E iter : Eq(iter)
  <2>1. PICK it : Iterates(it, n, T, none, step)
    <3> HIDE DEF step, T, n, none
    <3> QED BY <1>1, <1>2, <1>c, SeqFoldExists
  <2>2. ASSUME NEW s \in SUBSET (1..n)
        PROVE  it[s] = IF s = {} THEN <<>> ELSE Onto(it[s \ {Max(s)}], r[Max(s)])
    <3>1. s # {} => Max(s) \in 1..n
      BY <1>1, IndexMax
    <3>2. it[s \ {Max(s)}] \in T
      BY <2>1 DEF Iterates
    <3>3. s # {} => step[Max(s)][it[s \ {Max(s)}]] = Onto(it[s \ {Max(s)}], r[Max(s)])
      BY <3>1, <3>2
    <3> QED BY <2>1, <3>3 DEF Iterates
  <2>3. it = [s \in SUBSET D |-> it[s]]
    BY <1>1, <2>1 DEF Iterates
  <2>4. Eq(it)
    BY <1>1, <2>2, <2>3
  <2> QED BY <2>4
<1>4. PICK iter : Eq(iter) /\ FillFold(nodes, tags, max, r) = iter[D]
  <2> HIDE DEF Eq, D
  <2> QED BY <1>3, <1>a
<1> DEFINE f == [k \in 0..n |-> iter[1..k]]
<1>5. Runs(f, n, T, none, step)
  <2>1. iter[{}] = <<>>
    BY <1>4
  <2>2. ASSUME NEW s \in SUBSET (1..n), s # {}, iter[s \ {Max(s)}] \in T
        PROVE  iter[s] = step[Max(s)][iter[s \ {Max(s)}]]
    <3>1. Max(s) \in 1..n
      BY <1>1, <2>2, IndexMax
    <3>2. iter[s] = Onto(iter[s \ {Max(s)}], r[Max(s)])
      BY <1>1, <1>4, <2>2
    <3> QED BY <2>2, <3>1, <3>2
  <2>4. Follows(iter, n, T, none, step)
    BY <2>1, <2>2 DEF Follows
  <2>3. n \in Nat
    BY <1>1
  <2> HIDE DEF step, T, n, Eq, none
  <2>5. n \in Nat /\ none \in T
    BY <1>c, <2>3
  <2>6. step \in [1..n -> [T -> T]]
    BY <1>2
  <2>8. f = [k \in 0..n |-> iter[1..k]]
    OBVIOUS
  <2> HIDE DEF D, f
  <2> QED BY <2>4, <2>5, <2>6, <2>8, SeqFoldRun
<1>6. f \in [0..n -> T] /\ f[0] = <<>>
  BY <1>5 DEF Runs
<1>7. ASSUME NEW i \in 1..n PROVE f[i] = Onto(f[i - 1], r[i])
  <2>1. f[i - 1] \in T
    BY <1>6
  <2>2. f[i] = step[i][f[i - 1]]
    BY <1>5 DEF Runs
  <2> HIDE DEF f
  <2> QED BY <2>1, <2>2
<1>8. FillFold(nodes, tags, max, r) = f[n]
  BY <1>1, <1>4
<1>9. Fills(f, nodes, tags, max, S, r)
  <2> HIDE DEF f
  <2> QED BY <1>6, <1>7, <1>8 DEF Fills, Onto
<1> QED BY <1>9

\* No note twice in a map.
Disjoint(acc) == \A i, j \in 1..Len(acc) : i # j => acc[i].notes \cap acc[j].notes = {}
\* At most one note per topic.
OneEach(acc) == \A i \in 1..Len(acc) : Cardinality(acc[i].notes) \in 0..1

LEMMA BestOne ==
  ASSUME NEW new, new \subseteq Nat
  PROVE  Cardinality(Best(new, 1)) \in 0..1
<1> DEFINE B == Best(new, 1)
<1>1. ASSUME NEW m \in B, NEW n \in B, m < n PROVE FALSE
  <2> DEFINE A == {k \in new : k < n}
  <2>1. m \in new /\ n \in new /\ Cardinality(A) < 1
    BY <1>1 DEF Best
  <2>a. n \in Nat /\ m \in A
    BY <1>1, <2>1
  <2>2. A \subseteq 0..n
    <3>1. ASSUME NEW k \in A PROVE k \in 0..n
      <4>1. k \in Nat /\ k < n
        OBVIOUS
      <4> HIDE DEF A
      <4> QED BY <2>a, <4>1
    <3> HIDE DEF A
    <3> QED BY <3>1
  <2>b. Cardinality(A) < 1
    BY <2>1
  <2> HIDE DEF A
  <2>3. IsFiniteSet(A)
    <3>1. IsFiniteSet(0..n)
      BY <2>a, FS_Interval
    <3> QED BY <2>2, <3>1, FS_Subset
  <2>4. Cardinality(A) = 0
    <3>1. Cardinality(A) \in Nat
      BY <2>3, FS_CardinalityType
    <3> QED BY <3>1, <2>b
  <2> QED BY <2>a, <2>3, <2>4, FS_EmptySet
<1>2. B \subseteq Nat
  BY DEF Best
<1> HIDE DEF B
<1>3. \A m, n \in B : m = n
  BY <1>1, <1>2
<1>4. B = {} \/ \E x : B = {x}
  <2>1. ASSUME NEW x \in B PROVE B = {x}
    BY <1>3
  <2> QED BY <2>1
<1>5. Cardinality(B) = 0 \/ Cardinality(B) = 1
  BY <1>4, FS_EmptySet, FS_Singleton
<1> QED BY <1>5 DEF B

Grows(S, tags, max, acc, next) ==
  /\ Disjoint(next) /\ Len(next) = Len(acc) + 1
  /\ OneEach(acc) /\ max = 1 => OneEach(next)

LEMMA FillStep ==
  ASSUME NEW nodes, NEW tags, DOMAIN tags \subseteq Nat, NEW max, NEW S,
         NEW acc \in Seq(Entry(S, tags)), NEW p \in S, Disjoint(acc),
         NEW next, next = Filled(nodes, tags, max, acc, p)
  PROVE  Grows(S, tags, max, acc, next)
<1> DEFINE e == EntryOf(nodes, tags, max, acc, p)
           n == Len(acc)
<1>1. e \in Entry(S, tags) /\ next = Append(acc, e)
  BY FilledType DEF Filled
<1>2. e.notes = Best(NavSubtree(nodes, tags, p) \ Seen(acc), max)
  BY DEF EntryOf
<1> HIDE DEF e
<1>3. n \in Nat /\ Len(next) = n + 1 /\ next[n + 1] = e /\ \A k \in 1..n : next[k] = acc[k]
  BY <1>1
<1>4. ASSUME NEW k \in 1..Len(next) PROVE k \in 1..n \/ k = n + 1
  <2>1. k \in 1..(n + 1) /\ n \in Nat
    BY <1>3
  <2> HIDE DEF n
  <2> QED BY <2>1
<1>5. \A k \in 1..n : e.notes \cap acc[k].notes = {}
  BY <1>2 DEF Best, Seen
<1>6. ASSUME NEW i \in 1..Len(next), NEW j \in 1..Len(next), i # j
      PROVE  next[i].notes \cap next[j].notes = {}
  <2>1. CASE i \in 1..n /\ j \in 1..n
    BY <1>3, <1>6, <2>1 DEF Disjoint
  <2>2. CASE i \in 1..n /\ j = n + 1
    BY <1>3, <1>5, <2>2
  <2>3. CASE j \in 1..n /\ i = n + 1
    BY <1>3, <1>5, <2>3
  <2> QED BY <1>4, <1>6, <2>1, <2>2, <2>3
<1>7. ASSUME OneEach(acc), max = 1, NEW i \in 1..Len(next)
      PROVE  Cardinality(next[i].notes) \in 0..1
  <2>1. NavSubtree(nodes, tags, p) \ Seen(acc) \subseteq Nat
    BY DEF NavSubtree, DirectNotes
  <2>2. Cardinality(e.notes) \in 0..1
    BY <1>2, <1>7, <2>1, BestOne
  <2>3. CASE i \in 1..n
    BY <1>3, <1>7, <2>3 DEF OneEach
  <2>4. CASE i = n + 1
    BY <1>3, <2>2, <2>4
  <2> QED BY <1>4, <2>3, <2>4
<1>8. OneEach(acc) /\ max = 1 => OneEach(next)
  BY <1>7 DEF OneEach
<1>9. Disjoint(next)
  BY <1>6 DEF Disjoint
<1> QED BY <1>3, <1>8, <1>9 DEF Grows

LEMMA EntriesApart ==
  ASSUME NEW nodes, NEW tags, DOMAIN tags \subseteq Nat, NEW max, NEW S, NEW r \in Seq(S),
         NEW map, map = NodeEntries(nodes, tags, r, max)
  PROVE  /\ map \in Seq(Entry(S, tags)) /\ Len(map) = Len(r)
         /\ Disjoint(map) /\ (max = 1 => OneEach(map))
<1> DEFINE n == Len(r)
<1>1. PICK f : Fills(f, nodes, tags, max, S, r)
  BY Filling
<1>2. n \in Nat /\ \A k \in 1..n : r[k] \in S
  OBVIOUS
<1> HIDE DEF n
<1>3. /\ f \in [0..n -> Seq(Entry(S, tags))] /\ f[0] = <<>>
      /\ \A i \in 1..n : f[i] = Filled(nodes, tags, max, f[i - 1], r[i])
      /\ FillFold(nodes, tags, max, r) = f[n]
  BY <1>1 DEF Fills, n
<1> DEFINE Good(k) == Disjoint(f[k]) /\ Len(f[k]) = k /\ (max = 1 => OneEach(f[k]))
           K == {k \in Nat : k <= n => Good(k)}
<1>4. Good(0)
  BY <1>3 DEF Disjoint, OneEach
<1>5. ASSUME NEW k \in Nat, k < n, Good(k) PROVE Good(k + 1)
  <2>1. k \in 0..n /\ k + 1 \in 1..n /\ (k + 1) - 1 = k
    BY <1>2, <1>5
  <2>2. /\ f[k] \in Seq(Entry(S, tags)) /\ r[k + 1] \in S
        /\ f[k + 1] = Filled(nodes, tags, max, f[k], r[k + 1])
    BY <1>2, <1>3, <2>1
  <2>3. Grows(S, tags, max, f[k], f[k + 1])
    BY <1>5, <2>2, FillStep
  <2> QED BY <1>5, <2>3 DEF Grows
<1> HIDE DEF Good
<1>6. \A k \in Nat : k \in K
  <2>1. 0 \in K
    BY <1>4
  <2>2. \A k \in K : k + 1 \in K
    BY <1>2, <1>5
  <2>3. K \subseteq Nat
    OBVIOUS
  <2> HIDE DEF K
  <2> QED BY <2>1, <2>2, <2>3, NatSetInduction
<1>7. Good(n) /\ f[n] \in Seq(Entry(S, tags))
  BY <1>2, <1>3, <1>6
<1>8. map = f[n]
  BY <1>3, FillIter
<1> QED BY <1>7, <1>8 DEF Good, n

SizeFold(map) ==
  (CHOOSE iter : iter =
     [s \in SUBSET DOMAIN map |->
        IF s = {} THEN 0
        ELSE iter[s \ {Max(s)}] + Cardinality(map[Max(s)].notes)])[DOMAIN map]

LEMMA SizeIter ==
  ASSUME NEW map
  PROVE  MapSize(map) = Len(map) + SizeFold(map)
BY DEF MapSize, FoldLeft, MapThenFoldSet, SizeFold

\* A map of no topic, or of one with one note, has at most two lines.
LEMMA SmallMap ==
  ASSUME NEW E, NEW map \in Seq(E), OneEach(map), Len(map) <= 1
  PROVE  MapSize(map) <= 2
<1> DEFINE n == Len(map)
           D == DOMAIN map
           T == Nat
           Onto(x, e) == x + Cardinality(e.notes)
           Eq(iter) == iter = [s \in SUBSET D |->
                 IF s = {} THEN 0 ELSE Onto(iter[s \ {Max(s)}], map[Max(s)])]
           step == [i \in 1..n |-> [X \in T |-> Onto(X, map[i])]]
<1>1. D = 1..n /\ n \in 0..1 /\ n \in Nat
  <2>1. D = 1..n /\ n \in Nat /\ n <= 1
    OBVIOUS
  <2> HIDE DEF n
  <2> QED BY <2>1
<1>a. SizeFold(map) = (CHOOSE iter : Eq(iter))[D]
  BY DEF SizeFold
<1>b. \A i \in 1..n : Cardinality(map[i].notes) \in 0..1
  BY DEF OneEach
<1>c. \A X \in T, i \in 1..n : Onto(X, map[i]) \in X..(X + 1)
  <2> SUFFICES ASSUME NEW X \in T, NEW i \in 1..n PROVE Onto(X, map[i]) \in X..(X + 1)
    OBVIOUS
  <2> DEFINE c == Cardinality(map[i].notes)
  <2>1. c \in 0..1
    BY <1>b
  <2> HIDE DEF c
  <2>2. X + c \in X..(X + 1)
    BY <2>1
  <2> QED BY <2>2 DEF c
<1>d. \A X \in T, i \in 1..n : Onto(X, map[i]) \in T
  <2> SUFFICES ASSUME NEW X \in T, NEW i \in 1..n PROVE Onto(X, map[i]) \in T
    OBVIOUS
  <2>1. Onto(X, map[i]) \in X..(X + 1)
    BY <1>c
  <2> HIDE DEF Onto
  <2> QED BY <2>1
<1> HIDE DEF Onto
<1>2. step \in [1..n -> [T -> T]]
  BY <1>d
<1> DEFINE none == 0
<1>e. none \in T
  OBVIOUS
<1>3. \E iter : Eq(iter)
  <2>1. PICK it : Iterates(it, n, T, none, step)
    <3> HIDE DEF step, T, n, none
    <3> QED BY <1>1, <1>2, <1>e, SeqFoldExists
  <2>2. ASSUME NEW s \in SUBSET (1..n)
        PROVE  it[s] = IF s = {} THEN 0 ELSE Onto(it[s \ {Max(s)}], map[Max(s)])
    <3>1. s # {} => Max(s) \in 1..n
      BY <1>1, IndexMax
    <3>2. it[s \ {Max(s)}] \in T
      BY <2>1 DEF Iterates
    <3>3. s # {} => step[Max(s)][it[s \ {Max(s)}]] = Onto(it[s \ {Max(s)}], map[Max(s)])
      BY <3>1, <3>2
    <3> QED BY <2>1, <3>3 DEF Iterates
  <2>3. it = [s \in SUBSET D |-> it[s]]
    BY <1>1, <2>1 DEF Iterates
  <2>4. Eq(it)
    BY <1>1, <2>2, <2>3
  <2> QED BY <2>4
<1>4. PICK iter : Eq(iter) /\ SizeFold(map) = iter[D]
  <2> HIDE DEF Eq, D
  <2> QED BY <1>3, <1>a
<1> DEFINE f == [k \in 0..n |-> iter[1..k]]
<1>5. Runs(f, n, T, none, step)
  <2>1. iter[{}] = 0
    BY <1>4
  <2>2. ASSUME NEW s \in SUBSET (1..n), s # {}, iter[s \ {Max(s)}] \in T
        PROVE  iter[s] = step[Max(s)][iter[s \ {Max(s)}]]
    <3>1. Max(s) \in 1..n
      BY <1>1, <2>2, IndexMax
    <3>2. iter[s] = Onto(iter[s \ {Max(s)}], map[Max(s)])
      BY <1>1, <1>4, <2>2
    <3> QED BY <2>2, <3>1, <3>2
  <2>4. Follows(iter, n, T, none, step)
    BY <2>1, <2>2 DEF Follows
  <2>3. n \in Nat
    BY <1>1
  <2> HIDE DEF step, T, n, Eq, none
  <2>5. n \in Nat /\ none \in T
    BY <1>e, <2>3
  <2>6. step \in [1..n -> [T -> T]]
    BY <1>2
  <2>8. f = [k \in 0..n |-> iter[1..k]]
    OBVIOUS
  <2> HIDE DEF D, f
  <2> QED BY <2>4, <2>5, <2>6, <2>8, SeqFoldRun
<1>6. f \in [0..n -> T] /\ f[0] = 0
  BY <1>5 DEF Runs
<1>7. SizeFold(map) = f[n]
  BY <1>1, <1>4
<1>8. n = 1 => f[1] = Onto(f[0], map[1])
  <2>1. n = 1 => f[1] = step[1][f[1 - 1]]
    BY <1>5 DEF Runs
  <2>2. n = 1 => step[1][0] = Onto(0, map[1])
    OBVIOUS
  <2> HIDE DEF f, step
  <2> QED BY <1>6, <2>1, <2>2
<1>9. f[n] \in 0..1
  <2> HIDE DEF f
  <2>1. n = 1 => Onto(0, map[1]) \in 0..(0 + 1)
    <3>1. 0 \in T
      OBVIOUS
    <3>2. n = 1 => 1 \in 1..n
      OBVIOUS
    <3> HIDE DEF n, T
    <3> QED BY <1>c, <3>1, <3>2
  <2> HIDE DEF n
  <2>2. n = 0 \/ n = 1
    BY <1>1
  <2> QED BY <1>6, <1>8, <2>1, <2>2
<1>10. MapSize(map) = n + f[n]
  BY <1>7, SizeIter
<1> HIDE DEF n, f
<1> QED BY <1>1, <1>9, <1>10

LEMMA ConcatFacts ==
  ASSUME NEW U, NEW x \in Seq(U), NEW y \in Seq(U)
  PROVE  /\ Len(x \o y) = Len(x) + Len(y)
         /\ \A i \in 1..(Len(x) + Len(y)) :
              (x \o y)[i] = IF i <= Len(x) THEN x[i] ELSE y[i - Len(x)]
OBVIOUS

\* Every map tried is one of some topics, and the last one of at most one
\* topic with one note.
Tried(nodes, tags, S, tries) ==
  /\ Len(tries) \in Nat \ {0}
  /\ \A k \in 1..Len(tries) : \E s \in Seq(S), m \in 1..2 : tries[k] = NodeEntries(nodes, tags, s, m)
  /\ \E s \in Seq(S) : Len(s) <= 1 /\ tries[Len(tries)] = NodeEntries(nodes, tags, s, 1)

LEMMA AttemptsAre ==
  ASSUME NEW nodes, NEW tags, DOMAIN tags \subseteq Nat, NEW S, NEW sel \in Seq(S),
         NEW tries, tries = Attempts(nodes, tags, sel, 2)
  PROVE  Tried(nodes, tags, S, tries)
<1> USE DEF Tried
<1> DEFINE n == Len(sel)
           U == Seq(Entry(S, tags))
           map(s, m) == NodeEntries(nodes, tags, s, m)
           start(k) == SubSeq(sel, 1, n - k)
           a == [k \in 1..2 |-> map(sel, 2 + 1 - k)]
           more == [k \in 1..(n - 1) |-> map(start(k), 1)]
           b == IF sel = <<>> THEN <<>> ELSE more
<1>1. tries = a \o b
  BY DEF Attempts
<1>2. \A s \in Seq(S), m \in 1..2 : map(s, m) \in U
  BY EntriesApart
<1>3. n \in Nat /\ (sel = <<>> <=> n = 0)
  OBVIOUS
<1>4. ASSUME NEW k \in 1..(n - 1) PROVE start(k) \in Seq(S) /\ Len(start(k)) = n - k
  <2>1. n - k \in 0..n /\ n \in Nat
    <3> HIDE DEF n
    <3> QED BY <1>3
  <2>2. Len(sel) = n
    OBVIOUS
  <2> DEFINE m == n - k
  <2> HIDE DEF n, m
  <2>3. SubSeq(sel, 1, m) \in Seq(S) /\ Len(SubSeq(sel, 1, m)) = m
    BY <2>1, <2>2 DEF m
  <2> QED BY <2>3 DEF m
<1> HIDE DEF map, U, n
<1>5. a[1] = map(sel, 2) /\ a[2] = map(sel, 1)
  OBVIOUS
<1>6. a \in Seq(U) /\ Len(a) = 2
  <2>1. \A k \in 1..2 : a[k] = map(sel, 1) \/ a[k] = map(sel, 2)
    OBVIOUS
  <2>2. \A k \in 1..2 : a[k] \in U
    BY <1>2, <2>1
  <2>3. a = [k \in 1..2 |-> a[k]]
    OBVIOUS
  <2> HIDE DEF a
  <2> QED BY <2>2, <2>3
<1>7. CASE n = 0 \/ n = 1
  <2>1. b = <<>>
    <3>1. CASE n = 0
      BY <1>3, <3>1
    <3>2. CASE n = 1
      <4>1. n - 1 = 0 /\ 1..(n - 1) = {}
        BY <3>2
      <4> DEFINE body(k) == map(start(k), 1)
      <4>2. more = [k \in 1..(n - 1) |-> body(k)]
        OBVIOUS
      <4> HIDE DEF body, more
      <4>3. more = <<>>
        BY <4>1, <4>2
      <4>4. b = more
        BY <1>3, <3>2
      <4> QED BY <4>3, <4>4
    <3> QED BY <1>7, <3>1, <3>2
  <2> HIDE DEF a, b
  <2>2. tries = a
    BY <1>1, <1>6, <2>1
  <2>3. Len(tries) = 2 /\ \A k \in 1..Len(tries) : k = 1 \/ k = 2
    <3>1. Len(tries) = 2
      BY <1>6, <2>2
    <3>2. \A k \in 1..2 : k = 1 \/ k = 2
      OBVIOUS
    <3> QED BY <3>1, <3>2
  <2>4. \A k \in 1..Len(tries) : \E s \in Seq(S), m \in 1..2 : tries[k] = map(s, m)
    BY <1>5, <2>2, <2>3
  <2>5. Len(sel) <= 1 /\ tries[Len(tries)] = map(sel, 1)
    <3>1. Len(sel) <= 1
      <4>1. n <= 1
        BY <1>7
      <4> QED BY <4>1 DEF n
    <3> QED BY <1>5, <2>2, <2>3, <3>1
  <2> QED BY <2>3, <2>4, <2>5 DEF map
<1>8. CASE n > 1
  <2>1. b = more
    BY <1>3, <1>8
  <2>2. b \in Seq(U) /\ Len(b) = n - 1 /\ \A k \in 1..(n - 1) : b[k] = map(start(k), 1)
    <3>1. \A k \in 1..(n - 1) : b[k] = map(start(k), 1)
      BY <2>1
    <3>2. \A k \in 1..(n - 1) : b[k] \in U
      <4>1. 1 \in 1..2
        OBVIOUS
      <4> HIDE DEF start, b
      <4> QED BY <1>2, <1>4, <3>1, <4>1
    <3> DEFINE body(k) == map(start(k), 1)
    <3>3. b = [k \in 1..(n - 1) |-> b[k]] /\ n - 1 \in Nat
      <4>1. b = [k \in 1..(n - 1) |-> body(k)]
        BY <2>1
      <4>2. n - 1 \in Nat
        BY <1>3, <1>8
      <4> HIDE DEF b, body
      <4> QED BY <4>1, <4>2
    <3> DEFINE x == b
               l == n - 1
    <3> HIDE DEF b, start, l
    <3>4. x \in Seq(U) /\ Len(x) = l
      <4>1. x = [k \in 1..l |-> x[k]] /\ l \in Nat /\ \A k \in 1..l : x[k] \in U
        BY <3>2, <3>3 DEF l
      <4> HIDE DEF x
      <4> QED BY <4>1, FunSeq
    <3> QED BY <3>1, <3>4 DEF l
  <2>a. start(n - 1) \in Seq(S) /\ Len(start(n - 1)) = 1
    <3>1. n - 1 \in 1..(n - 1) /\ n - (n - 1) = 1
      BY <1>3, <1>8
    <3> HIDE DEF start
    <3> QED BY <1>4, <3>1
  <2> HIDE DEF a, b, more, start
  <2>3. Len(tries) = n + 1 /\ n + 1 \in Nat \ {0}
    <3>1. Len(tries) = Len(a) + Len(b)
      <4>1. a \in Seq(U) /\ b \in Seq(U)
        BY <1>6, <2>2
      <4>2. Len(a \o b) = Len(a) + Len(b)
        BY <4>1, ConcatFacts
      <4> QED BY <1>1, <4>2
    <3> QED BY <1>3, <1>6, <2>2, <3>1
  <2>4. ASSUME NEW k \in 1..(n + 1)
        PROVE  tries[k] = IF k = 1 THEN a[1] ELSE IF k = 2 THEN a[2] ELSE b[k - 2]
    <3>1. k \in 1..(2 + (n - 1)) /\ n - 1 \in Nat
      BY <1>3, <1>8
    <3>2. tries[k] = IF k <= 2 THEN a[k] ELSE b[k - 2]
      <4>1. a \in Seq(U) /\ b \in Seq(U) /\ Len(a) = 2 /\ Len(b) = n - 1
        BY <1>6, <2>2
      <4>2. k \in 1..(Len(a) + Len(b))
        BY <3>1, <4>1
      <4>3. (a \o b)[k] = IF k <= Len(a) THEN a[k] ELSE b[k - Len(a)]
        <5> DEFINE x == a
                   y == b
        <5>1. x \in Seq(U) /\ y \in Seq(U) /\ k \in 1..(Len(x) + Len(y))
          BY <4>1, <4>2
        <5> HIDE DEF x, y
        <5>2. \A i \in 1..(Len(x) + Len(y)) :
                (x \o y)[i] = IF i <= Len(x) THEN x[i] ELSE y[i - Len(x)]
          BY <5>1, ConcatFacts
        <5> QED BY <5>1, <5>2 DEF x, y
      <4> QED BY <1>1, <4>1, <4>3
    <3> QED BY <1>3, <3>2
  <2>5. ASSUME NEW k \in 1..Len(tries)
        PROVE  \E s \in Seq(S), m \in 1..2 : tries[k] = map(s, m)
    <3>1. k \in 1..(n + 1)
      BY <2>3
    <3>2. CASE k = 1
      BY <1>5, <2>4, <3>1, <3>2
    <3>3. CASE k = 2
      BY <1>5, <2>4, <3>1, <3>3
    <3>4. CASE k > 2
      <4>1. k - 2 \in 1..(n - 1)
        BY <1>3, <3>1, <3>4
      <4>2. tries[k] = b[k - 2]
        BY <2>4, <3>1, <3>4
      <4> QED BY <1>4, <2>2, <4>1, <4>2
    <3> QED BY <3>1, <3>2, <3>3, <3>4
  <2>6. tries[Len(tries)] = map(start(n - 1), 1)
    <3>1. n + 1 \in 1..(n + 1) /\ n + 1 # 1 /\ n + 1 # 2 /\ (n + 1) - 2 = n - 1 /\ n - 1 \in 1..(n - 1)
      BY <1>3, <1>8
    <3>2. tries[n + 1] = b[n - 1]
      BY <2>4, <3>1
    <3> QED BY <2>2, <2>3, <3>1, <3>2
  <2>7. \E s \in Seq(S) : Len(s) <= 1 /\ tries[Len(tries)] = map(s, 1)
    <3> DEFINE s == start(n - 1)
    <3>1. s \in Seq(S) /\ Len(s) <= 1 /\ tries[Len(tries)] = map(s, 1)
      <4>1. s \in Seq(S) /\ Len(s) = 1
        BY <2>a
      <4>2. tries[Len(tries)] = map(s, 1)
        BY <2>6
      <4> HIDE DEF s
      <4> QED BY <4>1, <4>2
    <3> HIDE DEF s
    <3> QED BY <3>1
  <2> QED BY <2>3, <2>5, <2>7 DEF map
<1> QED BY <1>3, <1>7, <1>8

LEMMA MapFits ==
  ASSUME NEW nodes, NEW tags, DOMAIN tags \subseteq Nat, NEW S, NEW sel \in Seq(S), NEW budget,
         NEW map, map = ContextMap(nodes, tags, sel, 2, budget)
  PROVE  Disjoint(map) /\ (MapSize(map) <= budget \/ MapSize(map) <= 2)
<1> DEFINE tries == Attempts(nodes, tags, sel, 2)
           fits == {k \in 1..Len(tries) : MapSize(tries[k]) <= budget}
<1>1. map = tries[IF fits = {} THEN Len(tries) ELSE Min(fits)]
  BY DEF ContextMap
<1>2. Tried(nodes, tags, S, tries)
  BY AttemptsAre
<1> HIDE DEF tries
<1>3. CASE fits = {}
  <2>1. PICK s \in Seq(S) : Len(s) <= 1 /\ map = NodeEntries(nodes, tags, s, 1)
    BY <1>1, <1>2, <1>3 DEF Tried
  <2>2. /\ map \in Seq(Entry(S, tags)) /\ Len(map) <= 1 /\ Disjoint(map) /\ OneEach(map)
    BY <2>1, EntriesApart
  <2> QED BY <2>2, SmallMap
<1>4. CASE fits # {}
  <2>1. Min(fits) \in fits
    <3>1. fits \subseteq Nat
      OBVIOUS
    <3> HIDE DEF fits
    <3>2. \E m \in fits : \A y \in fits : m <= y
      BY <1>4, <3>1, NatMin
    <3> QED BY <3>2 DEF Min
  <2>2. map = tries[Min(fits)]
    BY <1>1, <1>4
  <2>3. Min(fits) \in 1..Len(tries) /\ MapSize(map) <= budget
    BY <2>1, <2>2
  <2>4. PICK s \in Seq(S), m \in 1..2 : map = NodeEntries(nodes, tags, s, m)
    BY <1>2, <2>2, <2>3 DEF Tried
  <2>5. Disjoint(map)
    BY <2>4, EntriesApart
  <2> QED BY <2>3, <2>5
<1> QED BY <1>3, <1>4

\* The topic whose slug is asked for is the closest, if the slug is a word by
\* itself; no two selected topics lie on one path, no note is shown twice, and the map keeps to its budget
\* or is the smallest there is.
THEOREM RankingsAreSound ==
  ASSUME IsFiniteSet(Name)
  PROVE  Spec => []RankingsSound
<1>1. ASSUME VInv PROVE RankingsSound
  <2> DEFINE L == ParseVocabulary(doc)
             N == Nodes(doc)
             Sel(task) == ScoreNodes(L, task, 2)
             Map(task, budget) == ContextMap(N, Tags, Sel(task), 2, budget)
  <2>1. doc \in Seq(Line) /\ DOMAIN Tags \subseteq Nat
    BY <1>1, MetaTags DEF VInv, TypeOK
  <2>2. ASSUME NEW p \in N, NEW n \in 1..2, Words[Slug(p)] = {Slug(p)}
        PROVE  Head(ClosestTopics(L, {Slug(p)}, n)) = p
    <3>1. n \in Nat \ {0}
      OBVIOUS
    <3>2. Head(ClosestTopics(ParseVocabulary(doc), {Slug(p)}, n)) = p
      BY <2>1, <2>2, <3>1, ClosestFirst
    <3> QED BY <3>2
  <2>3. ASSUME NEW task \in SUBSET Name, NEW budget \in 1..4
        PROVE  /\ \A i, j \in 1..Len(Sel(task)) : ~Under(Sel(task)[i], Sel(task)[j])
               /\ \A i, j \in 1..Len(Map(task, budget)) :
                    i # j => Map(task, budget)[i].notes \cap Map(task, budget)[j].notes = {}
               /\ MapSize(Map(task, budget)) <= budget \/ MapSize(Map(task, budget)) <= 2
    <3>1. IsFiniteSet(Hit(task))
      <4>1. Hit(task) \subseteq Name
        BY DEF Hit
      <4> QED BY <4>1, FS_Subset
    <3>2. Sel(task) \in Seq(N) /\ Apart(Sel(task))
      BY <2>1, <3>1, SelectionApart
    <3> DEFINE sel == Sel(task)
               map == Map(task, budget)
    <3>3. map = ContextMap(N, Tags, sel, 2, budget)
      OBVIOUS
    <3> HIDE DEF Sel, N, Map
    <3>4. Disjoint(map) /\ (MapSize(map) <= budget \/ MapSize(map) <= 2)
      <4> HIDE DEF map, sel
      <4>1. sel \in Seq(N)
        BY <3>2 DEF sel
      <4> QED BY <2>1, <3>3, <4>1, MapFits
    <3> QED BY <3>2, <3>4 DEF Apart, Disjoint
  <2> HIDE DEF L
  <2> QED BY <2>2, <2>3 DEF RankingsSound, L
<1> QED BY <1>1, VInvAlways, PTL
=============================================================================
