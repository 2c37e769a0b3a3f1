------------------------- MODULE PushProtocolProofs -------------------------
(***************************************************************************)
(* For any entries, batches, attempts and interleavings: a join is         *)
(* executed at most once, an entry logged at most once, and what the       *)
(* client takes for pushed is in the log.                                  *)
(***************************************************************************)
EXTENDS PushProtocol, FiniteSetTheorems, TLAPS

\* The request in flight is the one the client waits for, and what it uploads
\* is named.
InFlight ==
  /\ http.pc # "free" =>
       /\ http.kind = "join" <=> client.pc = "join"
       /\ http.kind = "push" <=> client.pc = "push"
       /\ http.kind = "blob" <=> client.pc = "put"
       /\ http.kind = "blob" => client.now \in Hash \cup Unknown
       /\ client.pc \in {"join", "push", "put"}
  /\ client.pc = "join" => http.pc # "free"

\* A join that can still be sent has not been executed.
JoinPending ==
  /\ http.pc \in {"send", "sleep"} /\ http.kind = "join" => joins = 0
  /\ client.pc = "out" => joins = 0

\* What was answered "ok" is in the log, and so is an entry that is the head.
OkIsLogged == \A h \in reply.ok : appended[h] > 0

HeadIsLogged == \A h \in Hash : head[h] = "new" => appended[h] > 0

\* An entry whose base is the head has been logged at most once for each time
\* its base was put back.
BaseIsFree == \A h \in Hash : head[h] = "base" => appended[h] <= reverts[h]

PInv ==
  /\ TypeOK
  /\ InFlight /\ JoinPending /\ JoinNotRepeated
  /\ LoggedOnce /\ BaseIsFree
  /\ HeadIsLogged /\ OkIsLogged /\ AckedIsLogged

LEMMA InitPInv == Init => PInv
<1>1. 1 \in 1..Len(Batches) BY PushAssumption
<1> QED
  BY <1>1, PushAssumption DEF Init, PInv, TypeOK, InFlight, JoinPending, JoinNotRepeated,
     LoggedOnce, BaseIsFree,
     HeadIsLogged, OkIsLogged, AckedIsLogged, HttpState, Free, ClientState,
     Reply, Kind, Version

-----------------------------------------------------------------------------
(* The request in flight.                                                  *)

\* What an attempt leaves of the request: its kind stays, and it can be sent
\* again unless it is a join that may have been executed.
LEMMA AttemptKeeps ==
  ASSUME http \in HttpState,
         \/ PreSend \/ PostSend \/ Busy \/ Refused \/ Answered
         \/ Resend \/ Abort
  PROVE  /\ http' \in HttpState
         /\ http'.kind = http.kind
         /\ http.pc \in {"send", "sleep"} /\ http'.pc # "free"
<1> USE DEF HttpState, Kind
<1>0. http.attempt \in Nat /\ http.attempt + 1 \in Nat
  OBVIOUS
<1>1. CASE PreSend BY <1>1 DEF PreSend, Retry, Ends
<1>2. CASE PostSend BY <1>2 DEF PostSend, Retry, Ends
<1>3. CASE Busy BY <1>3 DEF Busy, Retry, Ends
<1>4. CASE Answered BY <1>4 DEF Answered, Ends
<1>5. CASE Resend BY <1>0, <1>5 DEF Resend
<1>6. CASE Abort BY <1>6 DEF Abort, Ends
<1>7. CASE Refused BY <1>7 DEF Refused, Ends
<1> QED BY <1>1, <1>2, <1>3, <1>4, <1>5, <1>6, <1>7

\* An attempt the server may have executed is the last one of a join.
LEMMA JoinEnds ==
  ASSUME http \in HttpState, http.kind = "join",
         PostSend \/ Busy \/ Answered \/ Abort
  PROVE  http'.pc \notin {"send", "sleep"}
<1>1. ~Retryable(http.kind) BY DEF Retryable
<1> QED
  BY <1>1 DEF PostSend, Busy, Answered, Abort, Ends, HttpState

-----------------------------------------------------------------------------
(* The server.                                                             *)

\* Executing an attempt keeps the log's promises, and only a join counts as one.
LEMMA ExecuteKeeps ==
  ASSUME TypeOK, LoggedOnce, BaseIsFree, HeadIsLogged, OkIsLogged,
         Execute, UNCHANGED reverts,
         http.kind = "blob" => client.now \in Hash \cup Unknown
  PROVE  /\ blobs' \subseteq Hash \cup Unknown
         /\ appended' \in [Hash -> Nat]
         /\ head' \in [Hash -> Version]
         /\ reply' \in Reply
         /\ \A h \in Hash : appended'[h] >= appended[h]
         /\ LoggedOnce' /\ BaseIsFree' /\ HeadIsLogged' /\ OkIsLogged'
         /\ joins' = IF http.kind = "join" THEN joins + 1 ELSE joins
<1>0. Batch \subseteq Hash
  BY PushAssumption DEF TypeOK, ClientState, Batch
<1>1. CASE http.kind = "push"
  <2>1. blobs' = blobs /\ joins' = joins
    BY <1>1 DEF Execute, ExecutePush
  <2>2. ASSUME NEW asked \in SUBSET (Hash \cup Unknown),
               AskFor((Batch \ blobs) \cup asked)
        PROVE  /\ appended' = appended /\ head' = head
               /\ reply' \in Reply /\ reply'.ok = {}
    BY <1>0, <2>2 DEF AskFor, Reply
  <2>3. CASE \E asked \in SUBSET (Hash \cup Unknown) :
               AskFor((Batch \ blobs) \cup asked)
    <3>1. /\ appended' = appended /\ head' = head
          /\ reply' \in Reply /\ reply'.ok = {}
      BY <2>2, <2>3
    <3>2. \A h \in Hash : appended'[h] >= appended[h] BY <3>1 DEF TypeOK
    <3>3. LoggedOnce' /\ BaseIsFree' /\ HeadIsLogged' /\ OkIsLogged'
      BY <3>1 DEF LoggedOnce, BaseIsFree, HeadIsLogged, OkIsLogged
    <3>4. /\ blobs' \subseteq Hash \cup Unknown /\ appended' \in [Hash -> Nat]
          /\ head' \in [Hash -> Version]
      BY <2>1, <3>1 DEF TypeOK
    <3> QED BY <1>1, <2>1, <3>1, <3>2, <3>3, <3>4
  <2>4. CASE Apply
    <3>1. /\ reply' = [missing |-> {}, ok |-> {h \in Batch : Accepts(h)}]
          /\ appended' \in [Hash -> Nat]
          /\ head' \in [Hash -> Version]
      BY <2>4 DEF Apply, TypeOK, Version
    <3>2. \A h \in Hash :
            /\ appended[h] \in Nat /\ reverts[h] \in Nat
            /\ appended'[h] = IF h \in Batch /\ head[h] = "base"
                              THEN appended[h] + 1 ELSE appended[h]
            /\ head'[h] = IF h \in Batch /\ head[h] = "base"
                          THEN "new" ELSE head[h]
      BY <2>4 DEF Apply, Appends, TypeOK
    <3>3. reply' \in Reply BY <1>0, <3>1 DEF Reply
    <3>4. LoggedOnce' BY <3>2 DEF LoggedOnce, BaseIsFree
    <3>5. BaseIsFree' BY <3>2 DEF BaseIsFree
    <3>6. HeadIsLogged' BY <3>2 DEF HeadIsLogged
    <3>7. \A h \in Hash : head[h] \in Version BY DEF TypeOK
    <3>8. OkIsLogged'
      BY <1>0, <3>1, <3>2, <3>7
         DEF OkIsLogged, HeadIsLogged, Accepts, Version
    <3> QED
      BY <1>1, <2>1, <3>1, <3>2, <3>3, <3>4, <3>5, <3>6, <3>8 DEF TypeOK
  <2> QED BY <1>1, <2>3, <2>4 DEF Execute, ExecutePush
<1>2. CASE http.kind = "blob"
  BY <1>2 DEF Execute, ExecutePut, TypeOK, LoggedOnce, BaseIsFree, HeadIsLogged,
              OkIsLogged
<1>3. CASE http.kind = "join"
  BY <1>3 DEF Execute, ExecuteJoin, TypeOK, LoggedOnce, BaseIsFree,
              HeadIsLogged, OkIsLogged
<1> QED BY <1>1, <1>2, <1>3 DEF Execute

-----------------------------------------------------------------------------
(* The steps.                                                              *)

\* An attempt whose request the server executed, or not.
LEMMA AttemptStep ==
  ASSUME PInv, Attempt \/ Cancel
  PROVE  PInv'
<1> USE DEF PInv
<1>1. /\ http' \in HttpState /\ http'.kind = http.kind
      /\ http.pc \in {"send", "sleep"} /\ http'.pc # "free"
  BY AttemptKeeps DEF Attempt, Cancel, TypeOK
<1>2. client' = client /\ peers' = peers /\ reverts' = reverts
  BY DEF Attempt, Cancel
<1>3. InFlight' BY <1>1, <1>2 DEF InFlight
<1>4. CASE ExecuteNothing
  <2>1. TypeOK' BY <1>1, <1>2, <1>4 DEF ExecuteNothing, TypeOK
  <2>2. JoinPending' /\ JoinNotRepeated'
    BY <1>1, <1>2, <1>4 DEF ExecuteNothing, JoinPending, JoinNotRepeated
  <2>3. /\ LoggedOnce' /\ BaseIsFree'
        /\ HeadIsLogged' /\ OkIsLogged' /\ AckedIsLogged'
    BY <1>2, <1>4 DEF ExecuteNothing, LoggedOnce, BaseIsFree,
     HeadIsLogged, OkIsLogged, AckedIsLogged
  <2> QED BY <1>3, <2>1, <2>2, <2>3
<1>5. CASE Execute /\ (PostSend \/ Busy \/ Answered \/ Abort)
  <2>1. http.kind = "blob" => client.now \in Hash \cup Unknown
    BY <1>1 DEF InFlight
  <2>2. /\ blobs' \subseteq Hash \cup Unknown
        /\ appended' \in [Hash -> Nat]
        /\ head' \in [Hash -> Version]
        /\ reply' \in Reply
        /\ \A h \in Hash : appended'[h] >= appended[h]
        /\ LoggedOnce' /\ BaseIsFree' /\ HeadIsLogged' /\ OkIsLogged'
        /\ joins' = IF http.kind = "join" THEN joins + 1 ELSE joins
    BY <1>2, <1>5, <2>1, ExecuteKeeps
  <2>3. joins \in Nat /\ joins' \in Nat BY <2>2 DEF TypeOK
  <2>4. TypeOK' BY <1>1, <1>2, <2>2, <2>3 DEF TypeOK
  <2>5. AckedIsLogged'
    <3>1. client.acked \subseteq Hash BY DEF TypeOK, ClientState
    <3>2. \A h \in Hash : appended[h] \in Nat /\ appended'[h] \in Nat
      BY <2>2 DEF TypeOK
    <3> QED BY <1>2, <2>2, <3>1, <3>2 DEF AckedIsLogged
  <2>6. CASE http.kind = "join"
    <3>1. http'.pc \notin {"send", "sleep"}
      BY <1>5, <2>6, JoinEnds DEF TypeOK
    <3>2. client.pc = "join" BY <1>1, <2>6 DEF InFlight
    <3>3. joins = 0 BY <1>1, <2>6 DEF JoinPending
    <3>4. JoinPending' /\ JoinNotRepeated'
      BY <1>2, <2>2, <2>6, <3>1, <3>2, <3>3 DEF JoinPending, JoinNotRepeated
    <3> QED BY <1>3, <2>2, <2>4, <2>5, <3>4
  <2>7. CASE http.kind # "join"
    <3>1. JoinPending' /\ JoinNotRepeated'
      BY <1>1, <1>2, <2>2, <2>7 DEF JoinPending, JoinNotRepeated
    <3> QED BY <1>3, <2>2, <2>4, <2>5, <3>1
  <2> QED BY <2>6, <2>7
<1>6. ExecuteNothing \/ (Execute /\ (PostSend \/ Busy \/ Answered \/ Abort))
  BY DEF Attempt, Cancel
<1> QED BY <1>4, <1>5, <1>6

\* The server and the join stay what they are when only the client moves; what
\* is left to show is its own state.
LEMMA ClientStep ==
  ASSUME PInv, UNCHANGED server,
         http' \in HttpState, client' \in ClientState, InFlight',
         http'.pc \in {"send", "sleep"} /\ http'.kind = "join" => joins = 0,
         client'.pc = "out" => joins = 0,
         client'.acked \subseteq client.acked \cup reply.ok
  PROVE  PInv'
<1>1. /\ blobs' = blobs /\ appended' = appended /\ head' = head
      /\ reverts' = reverts /\ peers' = peers /\ joins' = joins
      /\ reply' = reply
  BY DEF server
<1>2. TypeOK' BY <1>1 DEF PInv, TypeOK
<1>3. JoinPending' /\ JoinNotRepeated'
  BY <1>1 DEF PInv, JoinPending, JoinNotRepeated
<1>4. /\ LoggedOnce' /\ BaseIsFree'
      /\ HeadIsLogged' /\ OkIsLogged' /\ AckedIsLogged'
  BY <1>1 DEF PInv, LoggedOnce, BaseIsFree,
     HeadIsLogged, OkIsLogged, AckedIsLogged
<1> QED BY <1>2, <1>3, <1>4 DEF PInv

LEMMA RequestTypes ==
  ASSUME NEW k \in Kind, Request(k)
  PROVE  /\ http' \in HttpState /\ http'.pc = "send" /\ http'.kind = k
         /\ http.pc = "free"
BY DEF Request, HttpState, Kind

LEMMA FreeTypes == Free \in HttpState /\ Free.pc = "free"
BY DEF Free, HttpState

LEMMA StartStep ==
  ASSUME PInv, StartJoin \/ StartPush
  PROVE  PInv'
<1> USE DEF PInv
<1>1. CASE StartJoin
  <2>1. /\ http' \in HttpState /\ http'.pc = "send" /\ http'.kind = "join"
    BY <1>1, RequestTypes DEF StartJoin, Kind
  <2>2. /\ client' \in ClientState /\ client'.pc = "join"
        /\ client'.acked = client.acked /\ client.pc = "out"
    BY <1>1 DEF StartJoin, TypeOK, ClientState
  <2>3. joins = 0 BY <2>2 DEF JoinPending
  <2>4. InFlight' BY <2>1, <2>2 DEF InFlight
  <2> QED BY <1>1, <2>1, <2>2, <2>3, <2>4, ClientStep DEF StartJoin
<1>2. CASE StartPush
  <2>1. http' = http /\ http.pc = "free"
    BY <1>2 DEF StartPush, InFlight
  <2>2. 1 \in 1..Len(Batches) BY PushAssumption
  <2>3. client.syncs + 1 \in Nat BY DEF TypeOK, ClientState
  <2>4. /\ client' \in ClientState /\ client'.pc = "push"
        /\ client'.acked = {}
    BY <1>2, <2>2, <2>3 DEF StartPush, TypeOK, ClientState
  <2>5. InFlight' BY <2>1, <2>4 DEF InFlight
  <2>6. http' \in HttpState BY <2>1 DEF TypeOK
  <2> QED BY <1>2, <2>1, <2>4, <2>5, <2>6, ClientStep DEF StartPush
<1> QED BY <1>1, <1>2

\* The client sends a push or an upload.
LEMMA SendStep ==
  ASSUME PInv, SendPush \/ \E h \in Hash \cup Unknown : SendPut(h)
  PROVE  PInv'
<1> USE DEF PInv
<1>1. CASE SendPush
  <2>1. /\ http' \in HttpState /\ http'.pc = "send" /\ http'.kind = "push"
    BY <1>1, RequestTypes DEF SendPush, Kind
  <2>2. client' = client /\ client.pc = "push" BY <1>1 DEF SendPush
  <2>3. InFlight' BY <2>1, <2>2 DEF InFlight
  <2> QED BY <1>1, <2>1, <2>2, <2>3, ClientStep DEF SendPush, TypeOK
<1>2. ASSUME NEW h \in Hash \cup Unknown, SendPut(h) PROVE PInv'
  <2>1. /\ http' \in HttpState /\ http'.pc = "send" /\ http'.kind = "blob"
    BY <1>2, RequestTypes DEF SendPut, Kind
  <2>2. /\ client' \in ClientState /\ client'.pc = "put"
        /\ client'.now = h /\ client'.acked = client.acked
    BY <1>2 DEF SendPut, TypeOK, ClientState
  <2>3. InFlight' BY <2>1, <2>2 DEF InFlight
  <2> QED BY <1>2, <2>1, <2>2, <2>3, ClientStep DEF SendPut
<1> QED BY <1>1, <1>2

\* The client takes the answer, and no request is in flight.
LEMMA AnswerStep ==
  ASSUME PInv, Joined \/ Pushed \/ Missing \/ PutDone \/ GaveUp
  PROVE  PInv'
<1> USE DEF PInv
<1>1. http' = Free /\ UNCHANGED server
  BY DEF Joined, Pushed, Missing, PutDone, GaveUp
<1>2. /\ client' \in ClientState /\ client'.pc \notin {"out", "join"}
      /\ client'.acked \subseteq client.acked \cup reply.ok
  <2>1. CASE Joined BY <2>1 DEF Joined, TypeOK, ClientState
  <2>2. CASE Pushed
    <3>1. client.batch < Len(Batches) => client.batch + 1 \in 1..Len(Batches)
      BY PushAssumption DEF TypeOK, ClientState
    <3>2. reply.ok \subseteq Hash BY DEF TypeOK, Reply
    <3> QED BY <2>2, <3>1, <3>2 DEF Pushed, Ack, TypeOK, ClientState
  <2>3. CASE Missing
    <3>1. reply.missing \subseteq Hash \cup Unknown BY DEF TypeOK, Reply
    <3>2. Cardinality(reply.missing) \in Nat
      BY <3>1, PushAssumption, FS_Subset, FS_CardinalityType
    <3>3. client.rounds + 1 \in Nat BY DEF TypeOK, ClientState
    <3> QED BY <2>3, <3>1, <3>2, <3>3 DEF Missing, TypeOK, ClientState
  <2>4. CASE PutDone BY <2>4 DEF PutDone, TypeOK, ClientState
  <2>5. CASE GaveUp BY <2>5 DEF GaveUp, TypeOK, ClientState
  <2> QED BY <2>1, <2>2, <2>3, <2>4, <2>5
<1>3. http' \in HttpState /\ http'.pc = "free" BY <1>1, FreeTypes
<1>4. InFlight' BY <1>2, <1>3 DEF InFlight
<1> QED BY <1>1, <1>2, <1>3, <1>4, ClientStep

\* Another vault's change: a base that is put back is counted, and no entry
\* becomes the head by it.
LEMMA OvertakeStep ==
  ASSUME PInv, NEW h \in Hash, NEW version \in {"base", "other"},
         Overtake(h, version)
  PROVE  PInv'
<1> USE DEF PInv
<1>1. /\ http' = http /\ client' = client /\ blobs' = blobs
      /\ appended' = appended /\ joins' = joins /\ reply' = reply
  BY DEF Overtake
<1>2. /\ head' \in [Hash -> Version] /\ reverts' \in [Hash -> Nat]
      /\ peers' \in Nat
  BY DEF Overtake, TypeOK, Version
<1>3. \A g \in Hash :
        /\ appended[g] \in Nat /\ reverts[g] \in Nat /\ reverts'[g] \in Nat
        /\ reverts'[g] >= reverts[g]
        /\ head'[g] = "new" => head[g] = "new"
        /\ head'[g] = "base" => \/ head[g] = "base"
                               \/ reverts'[g] = reverts[g] + 1
  BY DEF Overtake, TypeOK
<1>4. TypeOK' /\ InFlight' /\ JoinPending' /\ JoinNotRepeated'
  BY <1>1, <1>2 DEF TypeOK, InFlight, JoinPending, JoinNotRepeated
<1>5. LoggedOnce' BY <1>1, <1>3 DEF LoggedOnce
<1>6. BaseIsFree' BY <1>1, <1>3 DEF LoggedOnce, BaseIsFree
<1>7. HeadIsLogged' /\ OkIsLogged' /\ AckedIsLogged'
  BY <1>1, <1>3 DEF HeadIsLogged, OkIsLogged, AckedIsLogged
<1> QED BY <1>4, <1>5, <1>6, <1>7

LEMMA PInvStep == PInv /\ [Next]_vars => PInv'
<1> SUFFICES ASSUME PInv, [Next]_vars PROVE PInv' OBVIOUS
<1>1. CASE StartJoin \/ StartPush BY <1>1, StartStep
<1>2. CASE SendPush \/ \E h \in Hash \cup Unknown : SendPut(h)
  BY <1>2, SendStep
<1>3. CASE Joined \/ Pushed \/ Missing \/ PutDone \/ GaveUp
  BY <1>3, AnswerStep
<1>4. CASE Attempt \/ Cancel BY <1>4, AttemptStep
<1>5. CASE \E h \in Hash, version \in {"base", "other"} : Overtake(h, version)
  BY <1>5, OvertakeStep
<1>6. CASE UNCHANGED vars
  BY <1>6 DEF vars, PInv, TypeOK, InFlight, JoinPending, JoinNotRepeated,
              LoggedOnce, BaseIsFree,
     HeadIsLogged, OkIsLogged, AckedIsLogged
<1> QED BY <1>1, <1>2, <1>3, <1>4, <1>5, <1>6 DEF Next, Client

-----------------------------------------------------------------------------

THEOREM PInvAlways == Spec => []PInv
BY InitPInv, PInvStep, PTL DEF Spec

\* However many attempts a request has, and whatever the network loses, a join
\* is executed at most once.
THEOREM JoinAtMostOnce == Spec => []JoinNotRepeated
<1>1. PInv => JoinNotRepeated BY DEF PInv
<1> QED BY <1>1, PInvAlways, PTL

\* For any batches, retries and failed syncs: an entry is logged at most once
\* for each time its base was the head.
THEOREM PushedOnce == Spec => []LoggedOnce
<1>1. PInv => LoggedOnce BY DEF PInv
<1> QED BY <1>1, PInvAlways, PTL

\* An entry the client takes for pushed is in the log, also when the answer
\* that said so belongs to a batch that was sent again.
THEOREM AckIsTrue == Spec => []AckedIsLogged
<1>1. PInv => AckedIsLogged BY DEF PInv
<1> QED BY <1>1, PInvAlways, PTL

=============================================================================
