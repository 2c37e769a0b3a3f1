---------------------------- MODULE RetryingHttp ----------------------------
(***************************************************************************)
(* The retrying HTTP client (adapters/src/retrying-http.ts): one request   *)
(* at a time, sent up to maxAttempts times.                                *)
(*                                                                         *)
(* An action is how one attempt ends, or the wait between two.  Whether    *)
(* the server executed an attempt is for the module that composes this one *)
(* to say: only PreSend tells that it did not.                             *)
(***************************************************************************)
EXTENDS Naturals

CONSTANT MaxAttempts  \* maxAttempts

ASSUME HttpAssumption == MaxAttempts \in Nat \ {0}

VARIABLE http  \* the request in flight

Kind == {"join", "push", "blob"}

\* failed: an earlier attempt ended in a network error (lastError).
HttpState == [pc: {"free", "send", "sleep", "answered", "refused", "threw"},
              kind: Kind \cup {"none"}, attempt: Nat, failed: BOOLEAN]

Free == [pc |-> "free", kind |-> "none", attempt |-> 0, failed |-> FALSE]

Request(k) ==
  /\ http.pc = "free"
  /\ http' = [pc |-> "send", kind |-> k, attempt |-> 1, failed |-> FALSE]

Ends(pc) == http' = [http EXCEPT !.pc = pc]

\* One more attempt after a wait, unless it was the last one.
Retry(last, failed) ==
  IF http.attempt >= MaxAttempts
  THEN Ends(last)
  ELSE http' = [http EXCEPT !.pc = "sleep", !.failed = @ \/ failed]

\* Mutant: a join is retried like everything else.
RetryAll(k) == TRUE

\* isRetryableForMethod, for an error after the request was sent: only what
\* the server may execute twice.
Retryable(k) == k \in {"push", "blob"}

\* A transient error with a pre-send code: the server got nothing.
PreSend == http.pc = "send" /\ Retry("threw", TRUE)

\* Any other transient error: the answer is lost, or the request was.
PostSend ==
  /\ http.pc = "send"
  /\ IF Retryable(http.kind) THEN Retry("threw", TRUE) ELSE Ends("threw")

\* 429, 502, 503 or 504: a join hands it to the caller; after the last attempt
\* the caller gets it too, but an earlier network error goes before it.
Busy ==
  /\ http.pc = "send"
  /\ IF http.kind = "join" THEN Ends("refused")
     ELSE Retry(IF http.failed THEN "threw" ELSE "refused", FALSE)

\* A status that is not retried and that the caller throws as an error (4xx).
Refused == http.pc = "send" /\ Ends("refused")

\* An answer the caller goes on with.
Answered == http.pc = "send" /\ Ends("answered")

\* Mutant: a retry does not count.
ResendForever ==
  /\ http.pc = "sleep"
  /\ http' = [http EXCEPT !.pc = "send"]

\* The wait is over.
Resend ==
  /\ http.pc = "sleep"
  /\ http' = [http EXCEPT !.pc = "send", !.attempt = @ + 1]

\* The caller's signal, or an error that is not transient.
Abort == http.pc \in {"send", "sleep"} /\ Ends("threw")

=============================================================================
