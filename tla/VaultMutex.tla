----------------------------- MODULE VaultMutex -----------------------------
(***************************************************************************)
(* withVaultLock (mcp/src/parche/mutex.ts): exclusion by key inside one    *)
(* process, over a map from a key to the promise of the call that runs.    *)
(*                                                                         *)
(* A Call is one call of withVaultLock.  JavaScript runs it without        *)
(* interruption from one await to the next, so an action is what happens   *)
(* between two awaits.  A call that waits is asleep on the promise that is *)
(* in the map; the release deletes that promise and resolves it, which     *)
(* wakes every call asleep on it, in an order and at moments that other    *)
(* calls can slip into.                                                    *)
(*                                                                         *)
(* MutexInit, MutexNext and MutexSpec are named so that a module can       *)
(* extend this one beside the specification of what runs under the lock.   *)
(***************************************************************************)
EXTENDS Naturals, FiniteSets

CONSTANTS
  Call, Key,
  None,      \* no promise is in the map
  MaxCalls   \* how often one Call may be made again (bound)

ASSUME MutexAssumption == None \notin Call /\ MaxCalls \in Nat

VARIABLES
  mutex,  \* mutex[k]: the call whose promise is in the map under k, or None
  pc,     \* pc[c]: where call c is
  key,    \* key[c]: the key c was last made with
  made    \* made[c]: how often c was made

mutexVars == <<mutex, pc, key, made>>

Places == {"out", "asleep", "awake", "in"}

MutexTypeOK ==
  /\ mutex \in [Key -> Call \cup {None}]
  /\ pc \in [Call -> Places]
  /\ key \in [Call -> Key]
  /\ made \in [Call -> Nat]

MutexInit ==
  /\ mutex = [k \in Key |-> None]
  /\ pc = [c \in Call |-> "out"]
  /\ key \in [Call -> Key]
  /\ made = [c \in Call |-> 0]

Made(c, k) ==
  /\ pc[c] = "out"
  /\ made[c] < MaxCalls
  /\ made' = [made EXCEPT ![c] = @ + 1]
  /\ key' = [key EXCEPT ![c] = k]

\* c sets its own promise under k and runs fn.
Enter(c, k) ==
  /\ mutex' = [mutex EXCEPT ![k] = c]
  /\ pc' = [pc EXCEPT ![c] = "in"]

\* A call that finds the key free.
Take(c, k) == Made(c, k) /\ mutex[k] = None /\ Enter(c, k)

\* onBusy: 'wait' on a key that is taken.
Wait(c, k) ==
  /\ Made(c, k) /\ mutex[k] # None
  /\ pc' = [pc EXCEPT ![c] = "asleep"]
  /\ UNCHANGED mutex

\* onBusy: 'skip' on a key that is taken: {skipped: true} at once.
Skip(c, k) ==
  /\ Made(c, k) /\ mutex[k] # None
  /\ UNCHANGED <<mutex, pc>>

\* Mutant: the first wake-up is taken for the lock.
EnterUnchecked(c) ==
  /\ pc[c] = "awake"
  /\ Enter(c, key[c])
  /\ UNCHANGED <<key, made>>

\* A waiter runs again and looks at the map again: it enters, or sleeps on the
\* promise of whoever came first.
Recheck(c) ==
  /\ pc[c] = "awake"
  /\ IF mutex[key[c]] = None
     THEN Enter(c, key[c])
     ELSE pc' = [pc EXCEPT ![c] = "asleep"] /\ UNCHANGED mutex
  /\ UNCHANGED <<key, made>>

Sleepers(k) == {c \in Call : pc[c] = "asleep" /\ key[c] = k}

\* Mutant: one waiter is woken.
ReleaseOne(c) ==
  /\ pc[c] = "in"
  /\ mutex' = [mutex EXCEPT ![key[c]] = None]
  /\ \E woken \in SUBSET Sleepers(key[c]) :
       /\ Cardinality(woken) <= 1
       /\ pc' = [d \in Call |-> IF d = c THEN "out"
                                ELSE IF d \in woken THEN "awake" ELSE pc[d]]
  /\ UNCHANGED <<key, made>>

\* Mutant: no finally, so that a throw leaves the promise in the map.
ReleaseOnSuccess(c) ==
  /\ pc[c] = "in"
  /\ \E threw \in BOOLEAN :
       /\ mutex' = IF threw THEN mutex ELSE [mutex EXCEPT ![key[c]] = None]
       /\ pc' = [d \in Call |-> IF d = c THEN "out"
                                ELSE IF d \in Sleepers(key[c]) /\ ~threw
                                     THEN "awake" ELSE pc[d]]
  /\ UNCHANGED <<key, made>>

\* fn returned or threw: the finally block deletes the promise and resolves it.
Release(c) ==
  /\ pc[c] = "in"
  /\ mutex' = [mutex EXCEPT ![key[c]] = None]
  /\ pc' = [d \in Call |-> IF d = c THEN "out"
                           ELSE IF d \in Sleepers(key[c]) THEN "awake"
                           ELSE pc[d]]
  /\ UNCHANGED <<key, made>>

MutexNext ==
  \E c \in Call :
    \/ \E k \in Key : Take(c, k) \/ Wait(c, k) \/ Skip(c, k)
    \/ Recheck(c)
    \/ Release(c)

MutexSpec == MutexInit /\ [][MutexNext]_mutexVars

\* The event loop runs what is ready, and fn settles.
MutexFairSpec == MutexSpec /\ \A c \in Call : WF_mutexVars(Recheck(c)) /\ WF_mutexVars(Release(c))

-----------------------------------------------------------------------------

\* One sync per vault: two calls never run under one key, however many were
\* woken by the same release and whoever came between.
Exclusion ==
  \A c, d \in Call : pc[c] = "in" /\ pc[d] = "in" /\ key[c] = key[d] => c = d

\* A promise in the map belongs to a call that is running under that key: no
\* failure of fn leaves a vault locked for the life of the process.
NoOrphanLock ==
  \A k \in Key : mutex[k] # None => pc[mutex[k]] = "in" /\ key[mutex[k]] = k

\* A free key has no sleeper: nobody sleeps on a promise that was resolved.
NoLostWakeup == \A c \in Call : pc[c] = "asleep" => mutex[key[c]] # None

\* A call that waits runs in the end, so that an explicit vault sync that
\* found an autosync running is not lost.
WaitersRun == \A c \in Call : pc[c] \in {"asleep", "awake"} ~> pc[c] = "in"

\* What a caller sees: who runs under a key, and who waits for it, asleep or
\* awake.
Inside  == [k \in Key |-> {c \in Call : pc[c] = "in" /\ key[c] = k}]
Waiting == [k \in Key |-> {c \in Call : pc[c] \in {"asleep", "awake"} /\ key[c] = k}]

Lock == INSTANCE KeyedLock WITH inside <- Inside, waiting <- Waiting

\* The promises, the map and the wake-ups implement a lock per key: every step
\* of theirs enters, waits, lets in or leaves, or is not to be seen, and a key
\* that is free is given to somebody who waits.
ImplementsLock == Lock!FairSpec

=============================================================================
