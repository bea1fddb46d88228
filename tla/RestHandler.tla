---------------------------- MODULE RestHandler -----------------------------
(***************************************************************************)
(* openai/internal/rest.handler.ServeHTTP: one request from authentication *)
(* to the answer, with the stream loop of writeSSE, the request context    *)
(* and the event producer running beside it.  Authenticate, the router,    *)
(* the schema validator, the backend and net/http are external: each step  *)
(* takes any outcome the code distinguishes.                               *)
(***************************************************************************)
EXTENDS Integers

CONSTANTS
  MaxInt,         \* the largest int64, scaled down for TLC
  Limits,         \* values of config.MaxBodyBytes
  BodySizes,      \* sizes of request bodies
  Validates,      \* values of config.Validate
  Statuses,       \* values of backend.Response.StatusCode
  SuccessStatus,  \* profile.Operation.SuccessStatus
  MaxEvents       \* bound: events a stream produces

ASSUME RestAssumption ==
  /\ MaxInt \in Nat
  /\ Limits \subseteq 1..MaxInt
  /\ BodySizes \subseteq 0..MaxInt
  /\ Validates \subseteq BOOLEAN
  /\ Statuses \subseteq Int
  /\ SuccessStatus \in 200..299
  /\ MaxEvents \in Nat

VARIABLES
  pc,           \* where ServeHTTP stands
  limit,        \* config.MaxBodyBytes
  validate,     \* config.Validate
  size,         \* the size of the body the client sends
  body,         \* bytes ReadAll returned, -1 before
  result,       \* the backend.Response, NoResult before
  failed,       \* did Handle return an error (beside that Response)?
  answer,       \* what was answered: none, error, json, body, stream
  status,       \* the final status the client sees, 0 before
  headers,      \* how often WriteHeader has been called
  bodyCloses,   \* how often result.Body.Close has been called
  streamCloses, \* how often result.Stream.Close has been called
  ctxDone,      \* has the request context ended?
  evClosed,     \* has the producer closed Events()?
  taken, wire   \* stream events received, and written to the client

configVars == <<limit, validate, size>>
answerVars == <<answer, status, headers>>
closeVars  == <<bodyCloses, streamCloses>>
streamVars == <<evClosed, taken, wire>>
vars == <<pc, configVars, body, result, failed, answerVars, closeVars, ctxDone, streamVars>>

Results == [status : Statuses, json : BOOLEAN, body : BOOLEAN, stream : BOOLEAN,
            checked : BOOLEAN]   \* checked: the media type is a JSON one
NoResult == [status |-> 0, json |-> FALSE, body |-> FALSE, stream |-> FALSE,
             checked |-> FALSE]

Init ==
  /\ pc = "authenticate"
  /\ limit \in Limits /\ validate \in Validates /\ size \in BodySizes
  /\ body = -1
  /\ result = NoResult /\ failed = FALSE
  /\ answer = "none" /\ status = 0 /\ headers = 0
  /\ bodyCloses = 0 /\ streamCloses = 0
  /\ ctxDone = FALSE
  /\ evClosed = FALSE /\ taken = 0 /\ wire = 0

-----------------------------------------------------------------------------
\* Two's complement: int64 holds -(MaxInt + 1)..MaxInt, 2 * (MaxInt + 1) values.
Wrap(n) == ((n + (MaxInt + 1)) % (2 * (MaxInt + 1))) - (MaxInt + 1)

\* io.ReadAll(io.LimitReader(r, n)): a limit that is not positive reads nothing.
LimitedRead(bytes, n) == IF n <= 0 THEN 0 ELSE IF bytes < n THEN bytes ELSE n

\* net/http: an informational status other than 101 is no final status; what
\* is written or flushed after it goes out as 200.
FinalStatus(s) == IF s \in 100..199 \ {101} THEN 200 ELSE s

\* WriteHeader; only the first call decides.
Commit(kind, s) ==
  /\ answer' = IF headers = 0 THEN kind ELSE answer
  /\ status' = IF headers = 0 THEN FinalStatus(s) ELSE status
  /\ headers' = headers + 1

\* writeErrorStatus, then return with no deferred call pending.
Fail(from, s) ==
  /\ pc = from
  /\ pc' = "done"
  /\ Commit("error", s)
  /\ UNCHANGED <<configVars, closeVars, ctxDone, streamVars>>

Advance(from, to) ==
  /\ pc = from
  /\ pc' = to
  /\ UNCHANGED <<configVars, answerVars, closeVars, ctxDone, streamVars>>

\* config.Authenticate.
Authenticate ==
  /\ Fail("authenticate", 401) \/ Advance("authenticate", "read")
  /\ UNCHANGED <<body, result, failed>>

\* The bounded read: one byte more than the limit tells a body that is too
\* large from one that just fits.
ReadBodyUpTo(n) ==
  /\ \/ Fail("read", 400) /\ UNCHANGED body
     \/ /\ body' = LimitedRead(size, n)
        /\ \/ body' > limit /\ Fail("read", 413)
           \/ body' <= limit /\ Advance("read", "route")
  /\ UNCHANGED <<result, failed>>

ReadBodyUpToLimit == ReadBodyUpTo(limit)
ReadBody == ReadBodyUpTo(Wrap(limit + 1))

\* FindRoute, OperationForRoute and OperationByID.
Route ==
  /\ \/ \E s \in {404, 405, 501} : Fail("route", s)
     \/ Advance("route", "validate")
  /\ UNCHANGED <<body, result, failed>>

\* ValidateRequest when configured.
Validate ==
  /\ \/ validate /\ Fail("validate", 400)
     \/ Advance("validate", "dispatch")
  /\ UNCHANGED <<body, result, failed>>

\* HandlerFor, then the call of Handle.
Dispatch ==
  /\ Fail("dispatch", 501) \/ Advance("dispatch", "handle")
  /\ UNCHANGED <<body, result, failed>>

\* errorStatus; the last entry is what an error that is no *backend.Error and
\* an unknown kind become.
ErrorStatus ==
  [invalid_request_error |-> 400, authentication_error |-> 401, permission_error |-> 403,
   not_found_error |-> 404, conflict_error |-> 409, rate_limit_error |-> 429,
   unsupported_error |-> 501, timeout_error |-> 408, canceled_error |-> 499,
   service_unavailable_error |-> 503, server_error |-> 500]

\* An error is answered before closeResponse is deferred, whatever Response the
\* backend returned beside it.
HandleReturns ==
  /\ result' \in Results
  /\ \/ \E kind \in DOMAIN ErrorStatus : Fail("handle", ErrorStatus[kind]) /\ failed' = TRUE
     \/ Advance("handle", "respond") /\ UNCHANGED failed
  /\ UNCHANGED body

-----------------------------------------------------------------------------
(* Everything from here runs under the deferred closeResponse.             *)

responseModeCount == (IF result.json THEN 1 ELSE 0) + (IF result.body THEN 1 ELSE 0)
                     + (IF result.stream THEN 1 ELSE 0)

EffectiveStatus == IF result.status = 0 THEN SuccessStatus ELSE result.status

ValidStatus == EffectiveStatus \in 100..599

CloseStream == streamCloses' = streamCloses + 1

\* An ambiguous result: close the stream, answer 500.
RespondAmbiguousLeaking ==
  /\ pc = "respond" /\ responseModeCount > 1
  /\ pc' = "return"
  /\ Commit("error", 500)
  /\ UNCHANGED <<configVars, body, result, failed, closeVars, ctxDone, streamVars>>
RespondAmbiguous ==
  /\ pc = "respond" /\ responseModeCount > 1
  /\ pc' = "return"
  /\ IF result.stream THEN CloseStream ELSE UNCHANGED streamCloses
  /\ Commit("error", 500)
  /\ UNCHANGED <<configVars, body, result, failed, bodyCloses, ctxDone, streamVars>>

RespondBadStatus ==
  /\ pc = "respond" /\ responseModeCount <= 1 /\ ~ValidStatus
  /\ pc' = "return"
  /\ Commit("error", 500)
  /\ UNCHANGED <<configVars, body, result, failed, closeVars, ctxDone, streamVars>>

Servable == pc = "respond" /\ responseModeCount <= 1 /\ ValidStatus

\* writeSSE up to its loop; a writer that cannot flush gets a 500, and the
\* deferred stream.Close runs.
RespondStream ==
  /\ Servable /\ result.stream
  /\ \/ pc' = "stream" /\ Commit("stream", EffectiveStatus) /\ UNCHANGED streamCloses
     \/ pc' = "return" /\ Commit("error", 500) /\ CloseStream
  /\ UNCHANGED <<configVars, body, result, failed, bodyCloses, ctxDone, streamVars>>

\* The header goes out, and io.Copy begins.
RespondBody ==
  /\ Servable /\ result.body
  /\ pc' = "copy"
  /\ Commit("body", EffectiveStatus)
  /\ UNCHANGED <<configVars, body, result, failed, closeVars, ctxDone, streamVars>>

\* io.Copy ends: the body is at its end, its Read or a write has failed.  Read is
\* the backend's and may block; closeResponse is not run before it returns.
CopyEnds ==
  /\ pc = "copy"
  /\ pc' = "return"
  /\ UNCHANGED <<configVars, body, result, failed, answerVars, closeVars, ctxDone, streamVars>>

\* ValidateResponse may turn a JSON answer into a 500 before anything is
\* written.
RespondJSONWithoutReturn ==
  /\ Servable /\ ~result.stream /\ ~result.body
  /\ pc' = "return"
  /\ \/ Commit("json", EffectiveStatus)
     \/ /\ validate /\ result.json /\ result.checked
        /\ answer' = "error" /\ status' = 500 /\ headers' = headers + 2
  /\ UNCHANGED <<configVars, body, result, failed, closeVars, ctxDone, streamVars>>
RespondJSON ==
  /\ Servable /\ ~result.stream /\ ~result.body
  /\ pc' = "return"
  /\ \/ Commit("json", EffectiveStatus)
     \/ validate /\ result.json /\ result.checked /\ Commit("error", 500)
  /\ UNCHANGED <<configVars, body, result, failed, closeVars, ctxDone, streamVars>>

-----------------------------------------------------------------------------
(* The loop of writeSSE.                                                   *)

LeaveStream ==
  /\ pc = "stream"
  /\ pc' = "return"
  /\ CloseStream
  /\ UNCHANGED <<configVars, body, result, failed, answerVars, bodyCloses, ctxDone, streamVars>>

\* case <-ctx.Done(), or the channel is closed.
StreamEndsOnCloseOnly == evClosed /\ LeaveStream
StreamEnds == (ctxDone \/ evClosed) /\ LeaveStream

\* case event := <-stream.Events(): the event is in the buffer, not yet out.
StreamTakes ==
  /\ pc = "stream" /\ ~evClosed /\ taken < MaxEvents
  /\ taken' = taken + 1
  /\ pc' = "flush"
  /\ UNCHANGED <<configVars, body, result, failed, answerVars, closeVars, ctxDone, evClosed, wire>>

\* buffer.Flush succeeds, or the client is gone and the function returns.
StreamBuffersOnly ==
  /\ pc = "flush"
  /\ pc' = "stream"
  /\ UNCHANGED <<configVars, body, result, failed, answerVars, closeVars, ctxDone, streamVars>>
StreamFlushes ==
  /\ pc = "flush"
  /\ \/ /\ pc' = "stream"
        /\ wire' = wire + 1
        /\ UNCHANGED streamCloses
     \/ /\ pc' = "return"
        /\ CloseStream
        /\ UNCHANGED wire
  /\ UNCHANGED <<configVars, body, result, failed, answerVars, bodyCloses, ctxDone, evClosed, taken>>

\* The deferred closeResponse: the body, and only the body.
Return ==
  /\ pc = "return"
  /\ pc' = "done"
  /\ bodyCloses' = IF result.body THEN bodyCloses + 1 ELSE bodyCloses
  /\ UNCHANGED <<configVars, body, result, failed, answerVars, streamCloses, ctxDone, streamVars>>

-----------------------------------------------------------------------------
\* The request context ends: the client leaves, or the server gives up.
ContextEnds ==
  /\ pc # "done" /\ ~ctxDone
  /\ ctxDone' = TRUE
  /\ UNCHANGED <<pc, configVars, body, result, failed, answerVars, closeVars, streamVars>>

ProducerCloses ==
  /\ result.stream /\ ~evClosed
  /\ evClosed' = TRUE
  /\ UNCHANGED <<pc, configVars, body, result, failed, answerVars, closeVars, ctxDone, taken, wire>>

ShellStep ==
  \/ Authenticate \/ ReadBody \/ Route \/ Validate \/ Dispatch
  \/ RespondAmbiguous \/ RespondBadStatus \/ RespondStream \/ RespondBody \/ RespondJSON
  \/ StreamEnds \/ StreamFlushes \/ Return

Next == ShellStep \/ HandleReturns \/ CopyEnds \/ StreamTakes \/ ContextEnds \/ ProducerCloses

Spec == Init /\ [][Next]_vars

\* The handler runs whenever it can.  Authenticate, the router, the validator,
\* Close and the reads and writes of net/http return, and a backend returns from
\* Handle once its context has ended.  Nothing is assumed of the client, of the
\* event producer or of the Read of a backend's body.
Fairness == WF_vars(ShellStep) /\ WF_vars(ctxDone /\ HandleReturns)
FairSpec == Spec /\ Fairness

-----------------------------------------------------------------------------
\* Every variable has its type; a request is answered by one of the five kinds.
TypeOK ==
  /\ pc \in {"authenticate", "read", "route", "validate", "dispatch", "handle",
             "respond", "copy", "stream", "flush", "return", "done"}
  /\ limit \in Limits /\ validate \in Validates /\ size \in BodySizes
  /\ body \in -1..MaxInt
  /\ result \in Results \cup {NoResult} /\ failed \in BOOLEAN
  /\ answer \in {"none", "error", "json", "body", "stream"}
  /\ status \in Nat /\ headers \in Nat
  /\ bodyCloses \in Nat /\ streamCloses \in Nat
  /\ ctxDone \in BOOLEAN /\ evClosed \in BOOLEAN
  /\ taken \in 0..MaxEvents /\ wire \in 0..taken

\* The backend is only ever given the client's complete body, and never one
\* above the limit: the read stops one byte past MaxBodyBytes, so a truncated
\* body is always recognised and answered 413.
BackendSeesWholeBody ==
  pc \in {"handle", "respond", "copy", "stream", "flush", "return"} => body = size /\ size <= limit

AsChosen ==
  /\ headers = 1
  /\ answer = "error" => status \in 400..599
  /\ answer # "error" => /\ responseModeCount <= 1
                         /\ result.stream <=> answer = "stream"
                         /\ result.body <=> answer = "body"
                         /\ EffectiveStatus >= 200 => status = EffectiveStatus

\* A request is answered exactly once, whatever fails after the backend has
\* answered; errors have an error status, and a served result goes out with the
\* status the backend chose (or the operation's own) and in the one mode it set.
AnsweredOnceAsChosen == pc = "done" => AsChosen

StreamReleased ==
  /\ streamCloses <= (IF result.stream THEN 1 ELSE 0)
  /\ result.stream /\ (responseModeCount > 1 \/ ValidStatus) => streamCloses = 1

\* What the backend handed over with its nil error is released exactly once and
\* not while it is being served: a body always, a stream whenever the result was
\* ambiguous or its status could be served.  What it returned beside an error is
\* left alone on every path: it stays the backend's to release.
ResultReleasedOnce ==
  /\ pc = "copy" => bodyCloses = 0
  /\ pc \in {"stream", "flush"} => streamCloses = 0
  /\ pc = "done" /\ ~failed => /\ bodyCloses = (IF result.body THEN 1 ELSE 0)
                               /\ StreamReleased
  /\ failed => bodyCloses = 0 /\ streamCloses = 0

\* While writeSSE waits for the next event nothing it has received is left in
\* its buffer, so a slow producer never delays an event it has already sent.
NothingBufferedWhileWaiting == pc = "stream" => wire = taken

\* docs/backend-contract.md: streams are closed by the shell (those it was given
\* without an error).
StreamAlwaysClosed ==
  pc = "done" /\ ~failed => streamCloses = (IF result.stream THEN 1 ELSE 0)

\* A request whose context has ended is over before long, also a stream whose
\* producer has gone silent; and so is a stream whose producer has closed
\* Events() although the client stays (the two ways out of writeSSE).  The one
\* exception is a backend body whose Read never returns: io.Copy does not look
\* at the context, and the Close that might unblock Read is deferred.
EndedRequestReturns ==
  <>[](pc = "copy") \/ ((ctxDone \/ (pc = "stream" /\ evClosed)) ~> (pc = "done"))
=============================================================================
