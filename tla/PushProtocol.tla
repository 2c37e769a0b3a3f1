---------------------------- MODULE PushProtocol ----------------------------
(***************************************************************************)
(* How a vault's changes reach the server: pushAll (runner.ts) with its    *)
(* batches and its rounds of missing blobs, and the join before it, over   *)
(* the retrying client of RetryingHttp and a network that loses requests   *)
(* and answers.                                                            *)
(*                                                                         *)
(* An entry is named by the hash it pushes; each is for a path of its own. *)
(* VaultSync models what a push decides; this module how it gets there.    *)
(***************************************************************************)
EXTENDS RetryingHttp, Sequences, FiniteSets

CONSTANTS
  Hash,       \* the entries to push
  Batches,    \* the entries of each batch, in order
  Unknown,    \* hashes a server may ask for that no local file has
  None,
  MaxSyncs,   \* how often the push starts from its first batch (bound)
  MaxPeers    \* how many changes other vaults push (bound)

MAX_422_ROUNDS == 3

ASSUME PushAssumption ==
  /\ Batches \in Seq(SUBSET Hash) /\ Batches # <<>>
  /\ None \notin Hash \cup Unknown /\ Hash \cap Unknown = {}
  /\ IsFiniteSet(Hash \cup Unknown)
  /\ MaxSyncs \in Nat /\ MaxPeers \in Nat

VARIABLES
  client,    \* where the client is
  blobs,     \* server: the blobs it has
  appended,  \* server: how often it has appended each entry to its log
  head,      \* server: the version at each entry's path
  reverts,   \* ghost: how often another vault has put its base version back
  peers,     \* how many changes other vaults have pushed
  joins,     \* server: how often it has executed this client's join
  reply      \* its answer to the last push it executed

vars == <<http, client, blobs, appended, head, reverts, peers,
          joins, reply>>

\* rounds and left are pushAll's roundsDone and the size of prevMissingSet,
\* todo what is left to upload, now what is being uploaded, and acked the
\* entries the state in memory takes for pushed.
ClientState == [pc: {"out", "join", "lost", "ready", "push", "put", "done",
                     "failed"},
                batch: 1..Len(Batches), rounds: Nat, left: Nat,
                todo: SUBSET (Hash \cup Unknown),
                now: Hash \cup Unknown \cup {None},
                acked: SUBSET Hash, syncs: Nat]

\* The version an entry replaces, the one it pushes, or another vault's.
Version == {"base", "new", "other"}

\* missing: the hashes of a 422; ok: the entries answered "ok".
Reply == [missing: SUBSET (Hash \cup Unknown), ok: SUBSET Hash]

TypeOK ==
  /\ http \in HttpState
  /\ client \in ClientState
  /\ blobs \subseteq Hash \cup Unknown
  /\ appended \in [Hash -> Nat]
  /\ head \in [Hash -> Version]
  /\ reverts \in [Hash -> Nat]
  /\ joins \in Nat /\ peers \in Nat
  /\ reply \in Reply

Init ==
  /\ http = Free
  /\ client = [pc |-> "out", batch |-> 1, rounds |-> 0, left |-> 0,
               todo |-> {}, now |-> None, acked |-> {}, syncs |-> 0]
  /\ blobs = {} /\ joins = 0 /\ peers = 0
  /\ appended = [h \in Hash |-> 0] /\ reverts = [h \in Hash |-> 0]
  /\ head = [h \in Hash |-> "base"]
  /\ reply = [missing |-> {}, ok |-> {}]

Batch == Batches[client.batch]

-----------------------------------------------------------------------------
(* The server.                                                             *)

\* Mutant: an entry that is the head already is appended again.
AppendsAgain(h) == head[h] # "other"

\* handlePush: an entry is appended when its base is the head.  One that is the
\* head itself is answered "ok", one over another version is a conflict.
Appends(h) == head[h] = "base"

Accepts(h) == head[h] # "other"

\* The server asks for the blobs it misses, and for any others it pleases, or
\* applies the batch.
AskFor(missing) ==
  /\ missing # {}
  /\ reply' = [missing |-> missing, ok |-> {}]
  /\ UNCHANGED <<appended, head>>

Apply ==
  LET new == {h \in Batch : Appends(h)}
  IN  /\ Batch \subseteq blobs
      /\ reply' = [missing |-> {}, ok |-> {h \in Batch : Accepts(h)}]
      /\ appended' = [h \in Hash |-> IF h \in new THEN appended[h] + 1
                                    ELSE appended[h]]
      /\ head' = [h \in Hash |-> IF h \in new THEN "new" ELSE head[h]]

ExecutePush ==
  /\ \/ \E asked \in SUBSET (Hash \cup Unknown) :
           AskFor((Batch \ blobs) \cup asked)
     \/ Apply
  /\ UNCHANGED <<blobs, joins>>

ExecutePut ==
  /\ blobs' = blobs \cup {client.now}
  /\ UNCHANGED <<appended, head, joins, reply>>

ExecuteJoin ==
  /\ joins' = joins + 1
  /\ UNCHANGED <<blobs, appended, head, reply>>

Execute ==
  \/ http.kind = "push" /\ ExecutePush
  \/ http.kind = "blob" /\ ExecutePut
  \/ http.kind = "join" /\ ExecuteJoin

ExecuteNothing == UNCHANGED <<blobs, appended, head, joins, reply>>

\* Another vault pushes over the path of an entry: a version of its own, or the
\* base version again.
Overtake(h, version) ==
  /\ head[h] # version
  /\ peers < MaxPeers /\ peers' = peers + 1
  /\ head' = [head EXCEPT ![h] = version]
  /\ reverts' = IF version = "base" THEN [reverts EXCEPT ![h] = @ + 1]
                ELSE reverts
  /\ UNCHANGED <<http, client, blobs, appended, joins, reply>>

-----------------------------------------------------------------------------
(* An attempt and the server.                                              *)

Attempt ==
  /\ \/ PreSend /\ ExecuteNothing
     \/ (PostSend \/ Busy) /\ (Execute \/ ExecuteNothing)
     \/ Refused /\ ExecuteNothing
     \/ Answered /\ Execute
     \/ Resend /\ ExecuteNothing
  /\ UNCHANGED <<client, reverts, peers>>

\* The caller aborts, at an attempt that may have been executed or in a wait.
\* Stands also for checkAbort before a request, a file that cannot be read, and
\* a crash: the next sync starts from the saved state all the same.
Cancel ==
  /\ Abort
  /\ ExecuteNothing \/ (http.pc = "send" /\ Execute)
  /\ UNCHANGED <<client, reverts, peers>>

-----------------------------------------------------------------------------
(* The client.                                                             *)

server == <<blobs, appended, head, reverts, peers, joins, reply>>

StartJoin ==
  /\ client.pc = "out"
  /\ Request("join")
  /\ client' = [client EXCEPT !.pc = "join"]
  /\ UNCHANGED server

Joined ==
  /\ client.pc = "join" /\ http.pc \in {"answered", "refused", "threw"}
  /\ client' = [client EXCEPT !.pc = IF http.pc = "answered" THEN "ready"
                                     ELSE "lost"]
  /\ http' = Free
  /\ UNCHANGED server

\* A sync pushes, from the first batch and without what an earlier one that
\* failed had in memory.
StartPush ==
  /\ client.pc \in {"ready", "failed"}
  /\ client.syncs < MaxSyncs
  /\ client' = [client EXCEPT !.pc = "push", !.batch = 1, !.rounds = 0,
                              !.todo = {}, !.now = None, !.acked = {},
                              !.syncs = @ + 1]
  /\ UNCHANGED <<http, server>>

SendPush ==
  /\ client.pc = "push"
  /\ Request("push")
  /\ UNCHANGED <<client, server>>

\* Mutant: a conflict is taken for an "ok".
AckAll == Batch

\* applyPushResults: what the server answered "ok".
Ack == reply.ok

\* The batch is done.
Pushed ==
  /\ client.pc = "push" /\ http.pc = "answered" /\ reply.missing = {}
  /\ client' =
       [client EXCEPT
          !.acked = @ \cup Ack, !.rounds = 0,
          !.batch = IF @ < Len(Batches) THEN @ + 1 ELSE @,
          !.pc = IF client.batch < Len(Batches) THEN "push" ELSE "done"]
  /\ http' = Free
  /\ UNCHANGED server

\* Nothing to upload for a hash, as many missing as before, or too many rounds.
GivesUp(missing) ==
  \/ missing \cap Unknown # {}
  \/ client.rounds > 0 /\ Cardinality(missing) >= client.left
  \/ client.rounds >= MAX_422_ROUNDS

\* ParcheMissingBlobsError.
Missing ==
  /\ client.pc = "push" /\ http.pc = "answered" /\ reply.missing # {}
  /\ client' =
       IF GivesUp(reply.missing)
       THEN [client EXCEPT !.pc = "failed"]
       ELSE [client EXCEPT !.pc = "put", !.todo = reply.missing,
                           !.left = Cardinality(reply.missing),
                           !.rounds = @ + 1]
  /\ http' = Free
  /\ UNCHANGED server

SendPut(h) ==
  /\ client.pc = "put" /\ h \in client.todo
  /\ Request("blob")
  /\ client' = [client EXCEPT !.now = h]
  /\ UNCHANGED server

\* After the last upload the batch is pushed again.
PutDone ==
  /\ client.pc = "put" /\ http.pc = "answered"
  /\ client' = [client EXCEPT
       !.todo = @ \ {client.now}, !.now = None,
       !.pc = IF client.todo = {client.now} THEN "push" ELSE "put"]
  /\ http' = Free
  /\ UNCHANGED server

\* The request threw, or ParcheClient throws its status: no state is saved.
GaveUp ==
  /\ client.pc \in {"push", "put"} /\ http.pc \in {"refused", "threw"}
  /\ client' = [client EXCEPT !.pc = "failed"]
  /\ http' = Free
  /\ UNCHANGED server

Client ==
  \/ Joined \/ SendPush \/ Pushed \/ Missing
  \/ \E h \in Hash \cup Unknown : SendPut(h)
  \/ PutDone \/ GaveUp

Next ==
  \/ StartJoin \/ StartPush \/ Client
  \/ Attempt \/ Cancel
  \/ \E h \in Hash, version \in {"base", "other"} : Overtake(h, version)

Spec == Init /\ [][Next]_vars

\* Every attempt ends (NodeHttp has timeouts), and the client goes on.
FairSpec == Spec /\ WF_vars(Attempt) /\ WF_vars(Client)

-----------------------------------------------------------------------------

\* A join is executed at most once, whatever the network loses: no second use
\* of the invite, no "already a member" for the one who has just joined.
JoinNotRepeated == joins <= 1

\* However often a batch is sent again, by the retrying client after a lost
\* answer or by the next sync after a failure, an entry is logged once: twice
\* only if another vault has put the version it replaces back in between.
LoggedOnce == \A h \in Hash : appended[h] <= 1 + reverts[h]

\* What the client takes for pushed is in the log: an entry that was overtaken
\* before it got there is never taken for synced, or its text would be lost.
AckedIsLogged == \A h \in client.acked : appended[h] > 0

\* A push ends, whatever blobs the server asks for.
PushEnds ==
  client.pc \in {"push", "put"} ~> client.pc \in {"done", "failed"}

=============================================================================
