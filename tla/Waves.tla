------------------------------- MODULE Waves -------------------------------
(***************************************************************************)
(* How many workers may run side by side: the waves that keep work on the  *)
(* same file apart (core/src/worktree/overlap.ts) and the budget of the    *)
(* machine (core/src/resources/budget.ts).  An item is a record with the   *)
(* field "paths", the set of files it changes; 0 stands for no limit.      *)
(***************************************************************************)
EXTENDS Integers, Sequences, FiniteSets, SequencesExt, FiniteSetsExt

\* Pairs of items that change a common file.
FindOverlaps(items) ==
  {e \in (1..Len(items)) \X (1..Len(items)) :
     e[1] < e[2] /\ items[e[1]].paths \cap items[e[2]].paths # {}}

\* Mutant of Open: the item is compared with the first of a wave alone.
OpenToFirst(waves, items, i) ==
  {k \in 1..Len(waves) : items[Min(waves[k])].paths \cap items[i].paths = {}}

\* The waves that hold no item in the way of item i.
Open(waves, items, i) ==
  {k \in 1..Len(waves) : \A j \in waves[k] : items[j].paths \cap items[i].paths = {}}

\* Each item joins the earliest wave that does not overlap it, or a new one.
Placed(waves, items, i) ==
  LET open == Open(waves, items, i)
  IN  IF open = {} THEN Append(waves, {i})
      ELSE [waves EXCEPT ![Min(open)] = @ \cup {i}]

PartitionByOverlap(items) ==
  FoldLeft(LAMBDA waves, i : Placed(waves, items, i), <<>>, [i \in 1..Len(items) |-> i])

MaxWaveSize(waves) == Max({1} \cup {Cardinality(waves[k]) : k \in 1..Len(waves)})

AtLeastOne(n) == Max({1, n})

\* The smallest of the limits; "free" and "worker" are in the same unit, after
\* what is held back for the system.
ComputeConcurrencyBudget(machine, requested, cap) ==
  LET cores == AtLeastOne(machine.cpus)
      raw   == AtLeastOne(cores - 1)
  IN  Min({AtLeastOne(machine.free \div machine.worker), raw,
           IF machine.load > 0 THEN AtLeastOne(cores - machine.load) ELSE raw,
           AtLeastOne(requested)}
          \cup (IF cap = 0 THEN {} ELSE {AtLeastOne(cap)}))

ApplyOverlapCap(budget, maxWaveSize, overlapCount) ==
  LET n == AtLeastOne(maxWaveSize)
  IN  IF overlapCount <= 0 \/ n >= budget THEN budget ELSE n
=============================================================================
