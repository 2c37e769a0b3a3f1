------------------------------ MODULE KeyedLock ------------------------------
(***************************************************************************)
(* What withVaultLock (mcp/src/parche/mutex.ts) promises: a lock per key.  *)
(* A call enters a key nobody is in, or waits for one that is busy and is  *)
(* let in later; nothing is said of promises, maps or wake-ups.            *)
(* VaultMutex is shown to implement it.                                    *)
(***************************************************************************)
CONSTANTS Call, Key

VARIABLES
  inside,  \* inside[k]: the calls that run under k
  waiting  \* waiting[k]: the calls that wait for k

vars == <<inside, waiting>>

Init ==
  /\ inside = [k \in Key |-> {}]
  /\ waiting = [k \in Key |-> {}]

Busy(k) == inside[k] # {}
Away(c) == \A k \in Key : c \notin inside[k] \cup waiting[k]

Enter(c, k) ==
  /\ Away(c) /\ ~Busy(k)
  /\ inside' = [inside EXCEPT ![k] = {c}]
  /\ UNCHANGED waiting

Wait(c, k) ==
  /\ Away(c) /\ Busy(k)
  /\ waiting' = [waiting EXCEPT ![k] = @ \cup {c}]
  /\ UNCHANGED inside

Grant(c, k) ==
  /\ c \in waiting[k] /\ ~Busy(k)
  /\ inside' = [inside EXCEPT ![k] = {c}]
  /\ waiting' = [waiting EXCEPT ![k] = @ \ {c}]

Leave(c, k) ==
  /\ c \in inside[k]
  /\ inside' = [inside EXCEPT ![k] = @ \ {c}]
  /\ UNCHANGED waiting

Next ==
  \E c \in Call, k \in Key :
    Enter(c, k) \/ Wait(c, k) \/ Grant(c, k) \/ Leave(c, k)

Spec == Init /\ [][Next]_vars

\* A key that is free is given to somebody who waits for it.
FairSpec ==
  /\ Spec
  /\ \A k \in Key : WF_vars(\E c \in Call : Grant(c, k))
  /\ \A k \in Key, c \in Call : WF_vars(Leave(c, k))
=============================================================================
