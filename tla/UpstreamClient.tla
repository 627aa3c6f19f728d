---------------------------- MODULE UpstreamClient ----------------------------
(***************************************************************************)
(* internal/handler/llm_client.go and the two handlers of llm.go that use  *)
(* it: one completion request per caller, sent upstream inside Call of the *)
(* shared CircuitBreaker.  Where CircuitBreaker lets fn end either way,    *)
(* here is what fn does: attempts with back-off, or one streamed response  *)
(* read piece by piece.                                                    *)
(*                                                                         *)
(* A streamed body is Lines lines of two halves each; the usage object is  *)
(* the last line.  The server's context is never cancelled.                *)
(***************************************************************************)
EXTENDS CircuitBreaker

CONSTANTS Streaming,   \* the requests with "stream": true
          maxRetries,  \* c.maxRetries, at least 1 after NewLLMClient
          Lines        \* lines of a streamed body

ASSUME ClientConstantsOK ==
    /\ Streaming \subseteq Caller
    /\ maxRetries \in Nat \ {0} /\ Lines \in Nat \ {0}

VARIABLES step,     \* where each request's handler is
          attempt,  \* loop counter of ChatCompletion
          sends,    \* history: POSTs sent upstream
          served,   \* history: of those, how many the upstream carried out
          outcome,  \* what the last of them came to
          pos,      \* half-lines of the body read so far
          usage,    \* the usage line sits undivided in streamBuffer
          billed,   \* recordUsage was called
          status,   \* HTTP status the client got, 0 before
          alive     \* the process runs

clientVars == <<step, attempt, sends, served, outcome, pos, usage, billed, status, alive>>
upVars == <<vars, clientVars>>

Failures == {"rejected", "transient", "hard", "client_error", "server_error",
             "other_status", "bad_body", "broken"}

ClientInit ==
    /\ Init
    /\ step = [c \in Caller |-> "new"] /\ outcome = [c \in Caller |-> "none"]
    /\ attempt = [c \in Caller |-> 0] /\ sends = [c \in Caller |-> 0]
    /\ served = [c \in Caller |-> 0] /\ pos = [c \in Caller |-> 0]
    /\ usage = [c \in Caller |-> FALSE] /\ billed = [c \in Caller |-> FALSE]
    /\ status = [c \in Caller |-> 0] /\ alive = TRUE

At(c, label) == alive /\ step[c] = label
Move(c, label) == step' = [step EXCEPT ![c] = label]
-------------------------------------------------------------------------------
\* Call begins with allowRequest; a refusal is the client's error at once.
Enter(c) ==
    /\ At(c, "new") /\ allowRequest(c)
    /\ \/ pc'[c] # "idle" /\ Move(c, "send") /\ UNCHANGED outcome
       \/ /\ pc'[c] = "idle" /\ Move(c, "returned")
          /\ outcome' = [outcome EXCEPT ![c] = "rejected"]
    /\ UNCHANGED <<attempt, sends, served, pos, usage, billed, status, alive>>

\* The breaker's own steps around fn.
Breaker(c) ==
    /\ alive /\ UNCHANGED clientVars
    /\ \/ Count(c) \/ AddFailure(c) \/ LoadFailures(c) \/ LoadSuccesses(c)
       \/ CompareRate(c) \/ AddSuccess(c)

\* Mutations of EndFn: a client error is not counted at all; or as a success.
EndFnUncounted(c) ==
    /\ At(c, "end") /\ pc[c] = "call" /\ Move(c, "returned")
    /\ GoTo(c, CASE outcome[c] = "ok" -> "succeeded"
                 [] outcome[c] = "client_error" -> "idle"
                 [] OTHER -> "failed")
    /\ UNCHANGED <<state, counters, totalRequests, total, cooling>>
    /\ UNCHANGED <<attempt, sends, served, outcome, pos, usage, billed, status, alive>>

EndFnLenient(c) ==
    /\ At(c, "end") /\ RunFn(c) /\ Move(c, "returned")
    /\ GoTo(c, IF outcome[c] \in {"ok", "client_error"} THEN "succeeded" ELSE "failed")
    /\ UNCHANGED <<attempt, sends, served, outcome, pos, usage, billed, status, alive>>

\* fn returns, and recordFailure or recordSuccess is next.
EndFn(c) ==
    /\ At(c, "end") /\ RunFn(c) /\ Move(c, "returned")
    /\ GoTo(c, IF outcome[c] = "ok" THEN "succeeded" ELSE "failed")
    /\ UNCHANGED <<attempt, sends, served, outcome, pos, usage, billed, status, alive>>

\* One POST: res is what came back, work whether the upstream did the work.
Post(c, res, work) ==
    /\ At(c, "send") /\ pc[c] = "call"
    /\ sends' = [sends EXCEPT ![c] = @ + 1]
    /\ served' = [served EXCEPT ![c] = @ + work]
    /\ outcome' = [outcome EXCEPT ![c] = res]
    /\ UNCHANGED <<vars, attempt, pos, usage, billed, status, alive>>

\* Mutation of Retryable: every failure is worth another attempt.
RetryableAlways(res) == res \in Failures

\* isTransientError and isRetryableStatusCode: connection errors and unexpected ends
\* of the connection, and the 5xx statuses.  http.Client's own timeout is not among
\* them: its message spells "Timeout", so it is "hard".
Retryable(res) == res \in {"transient", "server_error"}

\* An attempt that fails; ChatCompletion makes another unless it was the last.  The
\* upstream may have done the work before the connection or the answer was lost.
SendFails(c) ==
    \E res \in {"transient", "hard", "client_error", "server_error", "other_status"} :
        /\ \E work \in IF res \in {"transient", "hard", "server_error"} THEN {0, 1} ELSE {0} :
              Post(c, res, work)
        /\ Move(c, IF c \notin Streaming /\ Retryable(res) /\ attempt[c] < maxRetries - 1
                    THEN "backoff" ELSE "end")

\* 200 with a body that decodes, or does not.
SendCompletes(c) ==
    /\ c \notin Streaming
    /\ \E res \in {"ok", "bad_body"} : Post(c, res, 1)
    /\ Move(c, "end")

\* Mutation of Backoff: the counter stands still.
BackoffForever(c) ==
    /\ At(c, "backoff") /\ Move(c, "send")
    /\ UNCHANGED <<vars, attempt, sends, served, outcome, pos, usage, billed, status, alive>>

\* time.After(backoff), then the next attempt.
Backoff(c) ==
    /\ At(c, "backoff") /\ Move(c, "send")
    /\ attempt' = [attempt EXCEPT ![c] = @ + 1]
    /\ UNCHANGED <<vars, sends, served, outcome, pos, usage, billed, status, alive>>
-------------------------------------------------------------------------------
(* The streamed response.                                                  *)

StreamOpens(c) == c \in Streaming /\ Post(c, "open", 1) /\ Move(c, "read")

\* A read that returns data and no error: handler forwards it and appends it, with
\* a newline, to streamBuffer, so a line cut by the read is cut for good.
ReadChunk(c) ==
    /\ At(c, "read")
    /\ \E to \in pos[c] + 1 .. 2 * Lines :
         /\ pos' = [pos EXCEPT ![c] = to]
         /\ usage' = [usage EXCEPT ![c] = to = 2 * Lines /\ pos[c] <= 2 * Lines - 2]
    /\ UNCHANGED <<vars, step, attempt, sends, served, outcome, billed, status, alive>>

\* The end of the body: alone, or together with its last bytes, which are dropped.
ReadEOF(c) ==
    /\ At(c, "read") /\ Move(c, "end")
    /\ outcome' = [outcome EXCEPT ![c] = "ok"]
    /\ UNCHANGED <<vars, attempt, sends, served, pos, usage, billed, status, alive>>

\* Any other read error, a timeout of http.Client included.
ReadFails(c) ==
    /\ At(c, "read") /\ Move(c, "end")
    /\ outcome' = [outcome EXCEPT ![c] = "broken"]
    /\ UNCHANGED <<vars, attempt, sends, served, pos, usage, billed, status, alive>>
-------------------------------------------------------------------------------
(* The handlers, once Call has returned.                                   *)

Reply(c, code) == /\ Move(c, "answered") /\ status' = [status EXCEPT ![c] = code]
                  /\ UNCHANGED <<vars, attempt, sends, served, outcome, pos, usage>>

Returned(c) == At(c, "returned") /\ pc[c] = "idle"

\* Mutation of ReplyCompleted: usage is recorded before the error is looked at.
ReplyAnyway(c) ==
    /\ Returned(c) /\ c \notin Streaming
    /\ Reply(c, 200) /\ billed' = [billed EXCEPT ![c] = TRUE]
    /\ UNCHANGED alive

\* nonStreamChatCompletion: record the usage, answer 200 ...
ReplyCompleted(c) ==
    /\ Returned(c) /\ c \notin Streaming /\ outcome[c] = "ok"
    /\ Reply(c, 200) /\ billed' = [billed EXCEPT ![c] = TRUE]
    /\ UNCHANGED alive

\* Mutation of ReplyFailed: a failed stream is not ended.
ReplyFailedPlain(c) ==
    /\ Returned(c) /\ outcome[c] \in Failures /\ c \notin Streaming
    /\ Reply(c, 502) /\ UNCHANGED <<billed, alive>>

\* ... or 502: the type assertion never sees the UpstreamError Call's caller wrapped.
\* A stream that failed has sent its status already and ends with an error event.
ReplyFailed(c) ==
    /\ Returned(c) /\ outcome[c] \in Failures
    /\ Reply(c, IF c \in Streaming THEN 200 ELSE 502)
    /\ UNCHANGED <<billed, alive>>

\* streamChatCompletion: usage found in the buffer is recorded ...
ReplyStreamed(c) ==
    /\ Returned(c) /\ c \in Streaming /\ outcome[c] = "ok" /\ usage[c]
    /\ Reply(c, 200) /\ billed' = [billed EXCEPT ![c] = TRUE]
    /\ UNCHANGED alive

\* ... without it EstimatePromptTokens recurses until the process dies.
EstimateRecurses(c) ==
    /\ Returned(c) /\ c \in Streaming /\ outcome[c] = "ok" /\ ~usage[c]
    /\ alive' = FALSE
    /\ UNCHANGED <<vars, step, attempt, sends, served, outcome, pos, usage, billed, status>>

Handler(c) ==
    \/ Enter(c) \/ Breaker(c) \/ EndFn(c) \/ SendFails(c) \/ SendCompletes(c) \/ Backoff(c)
    \/ StreamOpens(c) \/ ReadChunk(c) \/ ReadEOF(c) \/ ReadFails(c)
    \/ ReplyCompleted(c) \/ ReplyFailed(c) \/ ReplyStreamed(c) \/ EstimateRecurses(c)

ClientNext ==
    \/ \E c \in Caller : Handler(c)
    \/ alive /\ CoolDown /\ UNCHANGED clientVars

ClientSpec == ClientInit /\ [][ClientNext]_upVars

\* Handlers run, and http.Client's timeout ends every exchange and every read.
FairClientSpec == ClientSpec /\ \A c \in Caller : WF_upVars(Handler(c))
-------------------------------------------------------------------------------
(* Properties.                                                             *)

\* The client's variables keep the types of the Go variables they stand for.
ClientTypeOK ==
    /\ step \in [Caller -> {"new", "send", "backoff", "read", "end", "returned", "answered"}]
    /\ attempt \in [Caller -> 0 .. maxRetries - 1]
    /\ {sends, served} \subseteq [Caller -> 0 .. maxRetries]
    /\ outcome \in [Caller -> Failures \cup {"none", "open", "ok"}]
    /\ pos \in [Caller -> 0 .. 2 * Lines]
    /\ {usage, billed} \subseteq [Caller -> BOOLEAN]
    /\ status \in [Caller -> {0, 200, 502}] /\ alive \in BOOLEAN

\* A tenant is billed for a request only if the upstream served it, and a plain
\* request that is answered is billed exactly when the answer is a success.
BilledAsAnswered ==
    \A c \in Caller :
        /\ billed[c] => served[c] > 0 /\ status[c] = 200
        /\ c \notin Streaming /\ step[c] = "answered" => (billed[c] <=> status[c] = 200)

\* A request is sent again only after a transient failure, never past maxRetries,
\* and never once part of a stream may have reached the client.
RetryOnlyTransient ==
    [][\A c \in Caller :
          sends[c] > 0 /\ sends'[c] > sends[c] =>
              /\ outcome[c] \in {"transient", "server_error"}
              /\ sends[c] < maxRetries /\ c \notin Streaming]_upVars

\* What the breaker counted as failures are the requests that failed, each once
\* however often it was tried.
BreakerCountsRequests ==
    failures = Cardinality({c \in Caller :
        /\ step[c] \in {"returned", "answered"}
        /\ outcome[c] \in Failures \ {"rejected"} /\ pc[c] # "failed"})

\* Seen from the breaker, a client is a caller whose fn ends one way or the other.
ImplementsBreaker == Spec

\* Every stream that ended well had its usage line in one piece: where it does not,
\* the estimate EstimatePromptTokens should make ends the process instead.
UsageAlwaysFound == \A c \in Streaming : outcome[c] = "ok" => usage[c]

\* Unless a stream ends without its usage, every request gets its answer, whatever
\* the upstream and the network do to it.
EveryRequestAnswered ==
    []UsageAlwaysFound => \A c \in Caller : <>(step[c] = "answered")
===============================================================================
