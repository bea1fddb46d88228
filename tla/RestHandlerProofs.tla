-------------------------- MODULE RestHandlerProofs -------------------------
(***************************************************************************)
(* Proofs about the REST handler, for any configuration, body sizes,       *)
(* backend results, statuses and event streams: what the backend is given, *)
(* how a request is answered, and what becomes of the backend's result;    *)
(* and, for any parameters and headers, what of them reaches the other     *)
(* side.                                                                   *)
(***************************************************************************)
EXTENDS RestHandler, RestEnvelope, SequenceTheorems, TLAPS

-----------------------------------------------------------------------------
(* The bounded read.                                                       *)

\* MaxBodyBytes + 1 is a number of int64, whatever the limit.
LEMMA WrapType ==
  ASSUME NEW n \in Int
  PROVE  Wrap(n) \in Int
BY RestAssumption DEF Wrap

\* It is one more than the limit, but for the largest limit of all, where the
\* addition wraps around and the reader is told to read nothing.
LEMMA WrapOfLimit ==
  ASSUME NEW l \in 1..MaxInt
  PROVE  /\ l < MaxInt => Wrap(l + 1) = l + 1
         /\ l = MaxInt => Wrap(l + 1) < 0
<1> DEFINE h == MaxInt + 1
<1>1. h \in Nat \ {0} /\ l \in Nat /\ l < h
  BY RestAssumption
<1> HIDE DEF h
<1>2. l + 1 < h => ((l + 1 + h) % (2 * h)) - h = l + 1
  BY <1>1
<1>3. ((h + h) % (2 * h)) - h = -h
  BY <1>1
<1>4. Wrap(l + 1) = ((l + 1 + h) % (2 * h)) - h
  BY DEF Wrap, h
<1>5. l < MaxInt => l + 1 < h
  BY RestAssumption, <1>1 DEF h
<1>6. l = MaxInt => l + 1 = h
  BY DEF h
<1> QED
  BY <1>1, <1>2, <1>3, <1>4, <1>5, <1>6

\* What is read is never more than the client sent, whatever the bound.
LEMMA ReadType ==
  ASSUME NEW bytes \in 0..MaxInt, NEW n \in Int
  PROVE  LimitedRead(bytes, n) \in 0..MaxInt
BY RestAssumption DEF LimitedRead

\* A read of one byte more than the limit returns the whole body, unless it
\* returns more than the limit.
LEMMA ReadWhole ==
  ASSUME NEW bytes \in 0..MaxInt, NEW l \in 1..MaxInt, l < MaxInt,
         LimitedRead(bytes, Wrap(l + 1)) <= l
  PROVE  LimitedRead(bytes, Wrap(l + 1)) = bytes /\ bytes <= l
BY RestAssumption, WrapOfLimit DEF LimitedRead
-----------------------------------------------------------------------------
(* What each phase of ServeHTTP has done so far.                           *)

BeforeResult == {"authenticate", "read", "route", "validate", "dispatch", "handle"}

\* From the routing on the whole body has been read.
BodyPhase ==
  pc \in {"route", "validate", "dispatch", "handle", "respond", "copy", "stream", "flush",
         "return"}
    => (limit < MaxInt => body = size /\ size <= limit)

\* Up to the result nothing has been answered, released or streamed; with an
\* error from Handle the request is over, and nothing will be released.
ResultPhase ==
  /\ pc \in BeforeResult => result = NoResult
  /\ failed => pc = "done" /\ bodyCloses = 0 /\ streamCloses = 0
  /\ pc \in BeforeResult \cup {"respond"} =>
       answer = "none" /\ headers = 0 /\ bodyCloses = 0 /\ streamCloses = 0

\* A stream is served that may be, with the status that was chosen; an event
\* is on its way to the client only between receiving and flushing it.
StreamPhase ==
  /\ pc \in {"stream", "flush"} =>
       /\ result.stream /\ answer = "stream" /\ AsChosen /\ ValidStatus
       /\ bodyCloses = 0 /\ streamCloses = 0
  /\ pc \notin {"flush", "return", "done"} => wire = taken
  /\ pc = "flush" => taken = wire + 1

\* When everything but the copy of a body and the deferred closeResponse is done
\* the answer stands and the stream is released.
LastPhase ==
  /\ pc \in {"copy", "return", "done"} => AsChosen /\ (~failed => StreamReleased)
  /\ pc \in {"copy", "return"} => bodyCloses = 0
  /\ pc = "done" /\ ~failed => bodyCloses = (IF result.body THEN 1 ELSE 0)

RestIndInv == TypeOK /\ BodyPhase /\ ResultPhase /\ StreamPhase /\ LastPhase

LEMMA RestInit == Init => RestIndInv
<1> SUFFICES ASSUME Init PROVE RestIndInv
  OBVIOUS
<1>1. -1 \in -1..MaxInt /\ 0 \in 0..MaxEvents /\ 0 \in 0..0
  BY RestAssumption
<1>2. TypeOK
  BY <1>1 DEF Init, TypeOK
<1> QED
  BY <1>2 DEF Init, RestIndInv, BodyPhase, ResultPhase, StreamPhase, LastPhase, BeforeResult

\* An error before there is a result is the only answer, and there is nothing
\* to release.
LEMMA FailKeeps ==
  ASSUME RestIndInv, NEW from \in BeforeResult, NEW s \in 400..599,
         Fail(from, s), body' \in -1..MaxInt,
         UNCHANGED <<result, failed>> \/ (result' \in Results /\ failed' = TRUE)
  PROVE  RestIndInv'
<1> USE DEF RestIndInv, Fail, configVars, closeVars, streamVars
<1>1. /\ answer' = "error" /\ status' = s /\ headers' = 1
      /\ bodyCloses' = 0 /\ streamCloses' = 0
      /\ ~failed' => result' = NoResult
  BY DEF Commit, FinalStatus, ResultPhase, BeforeResult
<1>2. TypeOK'
  <2>1. failed' \in BOOLEAN
    BY Zenon DEF TypeOK
  <2>2. result' \in Results \cup {NoResult}
    BY Zenon DEF TypeOK
  <2> QED
    BY <1>1, <2>1, <2>2, RestAssumption DEF TypeOK
<1>3. BodyPhase' /\ ResultPhase' /\ StreamPhase'
  BY <1>1 DEF BodyPhase, ResultPhase, StreamPhase, BeforeResult
<1>4. LastPhase'
  BY <1>1 DEF LastPhase, ResultPhase, BeforeResult, AsChosen, StreamReleased, NoResult
<1> QED
  BY <1>2, <1>3, <1>4

\* Going on without an error changes nothing but the place, where the body is
\* the whole one.
LEMMA AdvanceKeeps ==
  ASSUME RestIndInv, NEW from \in BeforeResult, NEW to \in BeforeResult \ {"authenticate"},
         Advance(from, to), UNCHANGED <<result, failed>>, body' \in -1..MaxInt,
         to # "read" => (limit < MaxInt => body' = size /\ size <= limit)
  PROVE  RestIndInv'
<1> USE DEF RestIndInv, Advance, configVars, answerVars, closeVars, streamVars
<1>1. TypeOK'
  BY RestAssumption DEF TypeOK, BeforeResult
<1>2. BodyPhase'
  BY DEF BodyPhase, BeforeResult
<1>3. ResultPhase' /\ StreamPhase' /\ LastPhase'
  BY DEF ResultPhase, StreamPhase, LastPhase, BeforeResult
<1> QED
  BY <1>1, <1>2, <1>3

LEMMA ReadBodyKeeps ==
  ASSUME RestIndInv, ReadBody
  PROVE  RestIndInv'
<1>1. size \in 0..MaxInt /\ limit \in 1..MaxInt /\ body \in -1..MaxInt
  BY RestAssumption DEF RestIndInv, TypeOK
<1>2. CASE Fail("read", 400) /\ UNCHANGED <<body, result, failed>>
  BY <1>1, <1>2, FailKeeps DEF BeforeResult
<1>3. ASSUME body' = LimitedRead(size, Wrap(limit + 1))
      PROVE body' \in -1..MaxInt
  BY <1>1, <1>3, WrapType, ReadType, RestAssumption
<1>4. CASE body' = LimitedRead(size, Wrap(limit + 1)) /\ Fail("read", 413)
           /\ UNCHANGED <<result, failed>>
  BY <1>3, <1>4, FailKeeps DEF BeforeResult
<1>5. CASE /\ body' = LimitedRead(size, Wrap(limit + 1)) /\ body' <= limit
           /\ Advance("read", "route") /\ UNCHANGED <<result, failed>>
  <2>1. limit < MaxInt => body' = size /\ size <= limit
    BY <1>1, <1>5, ReadWhole
  <2> QED
    BY <1>3, <1>5, <2>1, AdvanceKeeps DEF BeforeResult
<1> QED
  BY <1>2, <1>4, <1>5 DEF ReadBody, ReadBodyUpTo

\* The other steps up to the call of the backend.
LEMMA EarlyKeeps ==
  ASSUME RestIndInv, Authenticate \/ Route \/ Validate \/ Dispatch
  PROVE  RestIndInv'
<1>1. body \in -1..MaxInt /\ (pc \in {"route", "validate", "dispatch"} =>
                               (limit < MaxInt => body = size /\ size <= limit))
  BY DEF RestIndInv, TypeOK, BodyPhase
<1>2. CASE \E from \in BeforeResult, st \in 400..599 : Fail(from, st)
           /\ UNCHANGED <<body, result, failed>>
  BY <1>1, <1>2, FailKeeps
<1>3. CASE Advance("authenticate", "read") /\ UNCHANGED <<body, result, failed>>
  BY <1>1, <1>3, AdvanceKeeps DEF BeforeResult
<1>4. CASE Advance("route", "validate") /\ UNCHANGED <<body, result, failed>>
  BY <1>1, <1>4, AdvanceKeeps DEF BeforeResult, Advance
<1>5. CASE Advance("validate", "dispatch") /\ UNCHANGED <<body, result, failed>>
  BY <1>1, <1>5, AdvanceKeeps DEF BeforeResult, Advance
<1>6. CASE Advance("dispatch", "handle") /\ UNCHANGED <<body, result, failed>>
  BY <1>1, <1>6, AdvanceKeeps DEF BeforeResult, Advance
<1> QED
  BY <1>2, <1>3, <1>4, <1>5, <1>6 DEF Authenticate, Route, Validate, Dispatch, BeforeResult

LEMMA HandleKeeps ==
  ASSUME RestIndInv, HandleReturns
  PROVE  RestIndInv'
<1>1. body \in -1..MaxInt
  BY DEF RestIndInv, TypeOK
<1>2. \A kind \in DOMAIN ErrorStatus : ErrorStatus[kind] \in 400..599
  BY DEF ErrorStatus
<1>3. CASE /\ \E kind \in DOMAIN ErrorStatus : Fail("handle", ErrorStatus[kind])
           /\ result' \in Results /\ failed' = TRUE /\ UNCHANGED body
  BY <1>1, <1>2, <1>3, FailKeeps DEF BeforeResult
<1>4. CASE Advance("handle", "respond") /\ result' \in Results /\ UNCHANGED <<body, failed>>
  <2> USE <1>4 DEF RestIndInv, Advance, configVars, answerVars, closeVars, streamVars
  <2>1. TypeOK'
    BY RestAssumption DEF TypeOK
  <2>2. BodyPhase' /\ ResultPhase' /\ StreamPhase' /\ LastPhase'
    BY DEF BodyPhase, ResultPhase, StreamPhase, LastPhase, BeforeResult
  <2> QED
    BY <2>1, <2>2
<1> QED
  BY <1>3, <1>4 DEF HandleReturns

-----------------------------------------------------------------------------
(* The answer.                                                             *)

\* The statuses a result can ask for are numbers, its modes truth values.
LEMMA ResultType ==
  ASSUME TypeOK
  PROVE  /\ result.status \in Int /\ EffectiveStatus \in Int
         /\ result.stream \in BOOLEAN /\ result.body \in BOOLEAN /\ result.json \in BOOLEAN
         /\ responseModeCount \in 0..3
         /\ result.stream /\ responseModeCount <= 1 => ~result.body /\ ~result.json
         /\ result.body /\ responseModeCount <= 1 => ~result.stream /\ ~result.json
<1>1. /\ result.status \in Int
      /\ result.stream \in BOOLEAN /\ result.body \in BOOLEAN /\ result.json \in BOOLEAN
  <2>1. CASE result = NoResult
    BY <2>1 DEF NoResult
  <2>2. CASE result \in Results
    BY <2>2, RestAssumption DEF Results
  <2> QED
    BY <2>1, <2>2 DEF TypeOK
<1> QED
  BY <1>1, RestAssumption DEF EffectiveStatus, responseModeCount

\* The steps that answer: the answer is as chosen, and the stream is released
\* when it is not going to be served.
LEMMA RespondKeeps ==
  ASSUME RestIndInv, pc = "respond", pc' \in {"copy", "stream", "return"},
         UNCHANGED <<configVars, body, result, failed, bodyCloses, ctxDone, streamVars>>,
         answer' \in {"error", "json", "body", "stream"},
         status' \in Nat, streamCloses' \in Nat, AsChosen',
         IF pc' = "stream"
         THEN answer' = "stream" /\ result.stream /\ ValidStatus /\ streamCloses' = 0
         ELSE StreamReleased'
  PROVE  RestIndInv'
<1> USE DEF RestIndInv, configVars, streamVars
<1>1. TypeOK'
  BY RestAssumption DEF TypeOK, AsChosen
<1>2. BodyPhase' /\ ResultPhase'
  BY DEF BodyPhase, ResultPhase, BeforeResult
<1>3. StreamPhase'
  BY DEF StreamPhase, ResultPhase, BeforeResult, ValidStatus, EffectiveStatus
<1>4. LastPhase'
  BY DEF LastPhase, ResultPhase, BeforeResult
<1> QED
  BY <1>1, <1>2, <1>3, <1>4

\* An error at this point is the only answer, and what is asked of the stream
\* depends on whether it was closed.
LEMMA RespondErrorKeeps ==
  ASSUME RestIndInv, pc = "respond", pc' = "return", Commit("error", 500),
         UNCHANGED <<configVars, body, result, failed, bodyCloses, ctxDone, streamVars>>,
         \/ result.stream /\ CloseStream
         \/ UNCHANGED streamCloses /\ ~(result.stream /\ (responseModeCount > 1 \/ ValidStatus))
  PROVE  RestIndInv'
<1>1. headers = 0 /\ streamCloses = 0
  BY DEF RestIndInv, ResultPhase
<1>2. answer' = "error" /\ status' = 500 /\ headers' = 1
  BY <1>1 DEF Commit, FinalStatus
<1>3. AsChosen'
  BY <1>2 DEF AsChosen
<1>4. StreamReleased' /\ streamCloses' \in Nat
  BY <1>1 DEF StreamReleased, CloseStream, responseModeCount, ValidStatus, EffectiveStatus
<1> QED
  BY <1>2, <1>3, <1>4, RespondKeeps

\* A result that can be served is.
LEMMA RespondServedKeeps ==
  ASSUME RestIndInv, Servable, NEW kind \in {"json", "body", "stream"},
         Commit(kind, EffectiveStatus),
         UNCHANGED <<configVars, body, result, failed, closeVars, ctxDone, streamVars>>,
         result.stream <=> kind = "stream", result.body <=> kind = "body",
         pc' = CASE kind = "stream" -> "stream" [] kind = "body" -> "copy" [] OTHER -> "return"
  PROVE  RestIndInv'
<1>1. headers = 0 /\ streamCloses = 0 /\ pc = "respond"
  BY DEF RestIndInv, ResultPhase, Servable
<1>2. responseModeCount <= 1 /\ EffectiveStatus \in 100..599
  BY DEF Servable, ValidStatus
<1>3. answer' = kind /\ status' = FinalStatus(EffectiveStatus) /\ headers' = 1
  BY <1>1 DEF Commit
<1>4. /\ status' \in Nat
      /\ EffectiveStatus >= 200 => status' = EffectiveStatus
  BY <1>2, <1>3 DEF FinalStatus
<1>5. responseModeCount' = responseModeCount /\ EffectiveStatus' = EffectiveStatus
  BY DEF responseModeCount, EffectiveStatus
<1>6. AsChosen'
  BY <1>2, <1>3, <1>4, <1>5 DEF AsChosen
<1>7. kind # "stream" => StreamReleased'
  BY <1>1 DEF StreamReleased, closeVars
<1> QED
  BY <1>1, <1>3, <1>4, <1>6, <1>7, RespondKeeps DEF Servable, closeVars

LEMMA AnswerKeeps ==
  ASSUME RestIndInv,
         RespondAmbiguous \/ RespondBadStatus \/ RespondStream \/ RespondBody \/ RespondJSON
  PROVE  RestIndInv'
<1>1. /\ result.stream \in BOOLEAN /\ result.body \in BOOLEAN
      /\ responseModeCount \in 0..3
      /\ result.stream /\ responseModeCount <= 1 => ~result.body
      /\ result.body /\ responseModeCount <= 1 => ~result.stream
  BY ResultType DEF RestIndInv
<1>2. CASE RespondAmbiguous
  BY <1>1, <1>2, RespondErrorKeeps DEF RespondAmbiguous
<1>3. CASE RespondBadStatus
  BY <1>1, <1>3, RespondErrorKeeps DEF RespondBadStatus, closeVars
<1>4. CASE RespondStream
  BY <1>1, <1>4, RespondErrorKeeps, RespondServedKeeps DEF RespondStream, Servable, closeVars
<1>5. CASE RespondBody
  BY <1>1, <1>5, RespondServedKeeps DEF RespondBody, Servable
<1>6. CASE RespondJSON
  BY <1>1, <1>6, RespondErrorKeeps, RespondServedKeeps DEF RespondJSON, Servable, closeVars
<1> QED
  BY <1>2, <1>3, <1>4, <1>5, <1>6

-----------------------------------------------------------------------------
(* The stream loop, the return and what goes on beside the handler.        *)

\* Every way out of the loop closes the stream.
LEMMA LeavingKeeps ==
  ASSUME RestIndInv, pc \in {"stream", "flush"}, pc' = "return", CloseStream,
         UNCHANGED <<configVars, body, result, failed, answerVars, bodyCloses, ctxDone, streamVars>>
  PROVE  RestIndInv'
<1> USE DEF RestIndInv, configVars, answerVars, streamVars
<1>1. TypeOK'
  BY DEF TypeOK, CloseStream
<1>2. BodyPhase' /\ ResultPhase' /\ StreamPhase'
  BY DEF BodyPhase, ResultPhase, StreamPhase, BeforeResult
<1>3. AsChosen' /\ StreamReleased' /\ bodyCloses' = 0
  BY DEF StreamPhase, AsChosen, StreamReleased, CloseStream, responseModeCount,
         EffectiveStatus, ValidStatus
<1> QED
  BY <1>1, <1>2, <1>3 DEF LastPhase

LEMMA LoopKeeps ==
  ASSUME RestIndInv, StreamEnds \/ StreamTakes \/ StreamFlushes
  PROVE  RestIndInv'
<1> USE DEF configVars, answerVars, closeVars, streamVars
<1>1. CASE StreamEnds
  BY <1>1, LeavingKeeps DEF StreamEnds, LeaveStream
<1>2. CASE pc = "flush" /\ StreamFlushes /\ pc' = "return"
  BY <1>2, LeavingKeeps DEF StreamFlushes
<1>3. CASE StreamTakes \/ (StreamFlushes /\ pc' = "stream")
  <2> USE <1>3 DEF RestIndInv, StreamTakes, StreamFlushes
  <2>1. /\ UNCHANGED <<limit, validate, size, body, result, failed, answer, status, headers>>
        /\ UNCHANGED <<bodyCloses, streamCloses, ctxDone, evClosed>>
        /\ pc \in {"stream", "flush"} /\ pc' \in {"stream", "flush"}
    OBVIOUS
  <2>2. /\ taken' \in 0..MaxEvents /\ wire' \in 0..taken'
        /\ pc' = "stream" => wire' = taken'
        /\ pc' = "flush" => taken' = wire' + 1
    BY RestAssumption DEF TypeOK, StreamPhase
  <2>3. TypeOK'
    BY <2>1, <2>2 DEF TypeOK
  <2>4. BodyPhase' /\ ResultPhase' /\ LastPhase'
    BY <2>1 DEF BodyPhase, ResultPhase, LastPhase, BeforeResult
  <2>5. StreamPhase'
    BY <2>1, <2>2 DEF StreamPhase, AsChosen, responseModeCount, EffectiveStatus, ValidStatus
  <2> QED
    BY <2>3, <2>4, <2>5
<1> QED
  BY <1>1, <1>2, <1>3 DEF StreamFlushes

\* closeResponse closes the body it was given, once.
LEMMA ReturnKeeps ==
  ASSUME RestIndInv, Return
  PROVE  RestIndInv'
<1> USE DEF RestIndInv, Return, configVars, answerVars, streamVars
<1>1. bodyCloses' = (IF result.body THEN 1 ELSE 0) /\ bodyCloses' \in Nat
  BY DEF LastPhase
<1>2. TypeOK'
  BY <1>1 DEF TypeOK
<1>3. BodyPhase' /\ ResultPhase' /\ StreamPhase'
  BY DEF BodyPhase, ResultPhase, StreamPhase, BeforeResult
<1>4. AsChosen' /\ StreamReleased'
  BY DEF ResultPhase, LastPhase, AsChosen, StreamReleased, responseModeCount, EffectiveStatus, ValidStatus
<1> QED
  BY <1>1, <1>2, <1>3, <1>4 DEF LastPhase

\* The body is copied, or not to its end.
LEMMA CopyKeeps ==
  ASSUME RestIndInv, CopyEnds
  PROVE  RestIndInv'
<1> USE DEF RestIndInv, CopyEnds, configVars, answerVars, closeVars, streamVars
<1>1. TypeOK'
  BY DEF TypeOK
<1>2. BodyPhase' /\ ResultPhase' /\ StreamPhase'
  BY DEF BodyPhase, ResultPhase, StreamPhase, BeforeResult
<1>3. LastPhase'
  BY DEF LastPhase, AsChosen, StreamReleased, responseModeCount, EffectiveStatus, ValidStatus
<1> QED
  BY <1>1, <1>2, <1>3

LEMMA BesideKeeps ==
  ASSUME RestIndInv, ContextEnds \/ ProducerCloses \/ UNCHANGED vars
  PROVE  RestIndInv'
<1> USE DEF RestIndInv, configVars, answerVars, closeVars, streamVars
<1>1. /\ UNCHANGED <<pc, limit, validate, size, body, result, failed, answer, status, headers>>
      /\ UNCHANGED <<bodyCloses, streamCloses, taken, wire>>
  BY DEF ContextEnds, ProducerCloses, vars
<1>2. ctxDone' \in BOOLEAN /\ evClosed' \in BOOLEAN
  BY DEF ContextEnds, ProducerCloses, vars, TypeOK
<1>3. TypeOK'
  BY <1>1, <1>2 DEF TypeOK
<1>4. BodyPhase' /\ ResultPhase' /\ StreamPhase' /\ LastPhase'
  BY <1>1 DEF BodyPhase, ResultPhase, StreamPhase, LastPhase, AsChosen, StreamReleased,
              responseModeCount, EffectiveStatus, ValidStatus
<1> QED
  BY <1>3, <1>4

-----------------------------------------------------------------------------
(* The theorems.                                                           *)

\* The inductive invariant of ServeHTTP, from its first line to its return.
THEOREM RestIndInvHolds == Spec => []RestIndInv
<1>1. RestIndInv /\ [Next]_vars => RestIndInv'
  BY ReadBodyKeeps, EarlyKeeps, HandleKeeps, AnswerKeeps, LoopKeeps, ReturnKeeps, BesideKeeps,
     CopyKeeps
  DEF Next, ShellStep
<1> QED
  BY <1>1, RestInit, PTL DEF Spec

\* Every variable of ServeHTTP keeps its type, at any limit, body size and
\* result of the backend.
THEOREM RestTypeCorrect == Spec => []TypeOK
<1>1. RestIndInv => TypeOK
  BY DEF RestIndInv
<1> QED
  BY <1>1, RestIndInvHolds, PTL

\* ReadAll of LimitReader(MaxBodyBytes + 1) gives the backend the client's whole
\* body or none, for every limit but the largest int64, where the sum overflows.
THEOREM BackendSeesWholeBodyHolds == Spec => [](limit < MaxInt => BackendSeesWholeBody)
<1>1. RestIndInv => (limit < MaxInt => BackendSeesWholeBody)
  BY DEF RestIndInv, BodyPhase, BackendSeesWholeBody
<1> QED
  BY <1>1, RestIndInvHolds, PTL

\* However the request goes, WriteHeader decides once, with the status and in
\* the mode the backend chose, or with an error status.
THEOREM AnsweredOnceAsChosenHolds == Spec => []AnsweredOnceAsChosen
<1>1. RestIndInv => AnsweredOnceAsChosen
  BY DEF RestIndInv, LastPhase, AnsweredOnceAsChosen
<1> QED
  BY <1>1, RestIndInvHolds, PTL

\* closeResponse and the deferred stream.Close release what the backend handed
\* over without an error once, nothing that is still being served, and nothing
\* that came beside an error.
THEOREM ResultReleasedOnceHolds == Spec => []ResultReleasedOnce
<1>1. RestIndInv => ResultReleasedOnce
  BY DEF RestIndInv, ResultPhase, LastPhase, StreamPhase, ResultReleasedOnce
<1> QED
  BY <1>1, RestIndInvHolds, PTL

\* Every event writeSSE has received is on the wire before it waits again, for
\* streams of any length.
THEOREM NothingBufferedHolds == Spec => []NothingBufferedWhileWaiting
<1>1. RestIndInv => NothingBufferedWhileWaiting
  BY DEF RestIndInv, StreamPhase, NothingBufferedWhileWaiting
<1> QED
  BY <1>1, RestIndInvHolds, PTL

-----------------------------------------------------------------------------
(* Parameters and headers.                                                 *)

HeaderTexts ==
  Texts \cup MediaTypes \cup {RequestId, Json, "text/event-stream", "no-cache", "keep-alive", "seconds"}

\* A list of values is a sequence that is not empty.
LEMMA ValueListIs ==
  ASSUME NEW values \in ValueLists
  PROVE  values \in Seq(Texts) /\ values # <<>> /\ Len(values) \in Nat \ {0}
<1>1. PICK n \in 1..MaxValues : values \in [1..n -> Texts]
  BY DEF ValueLists
<1>2. n \in Nat \ {0}
  BY EnvelopeAssumption
<1>3. values \in Seq(Texts) /\ Len(values) = n
  BY <1>1, <1>2
<1> QED
  BY <1>2, <1>3

\* The metadata of a response is a map from keys to lists of values.
LEMMA MetadataIs ==
  ASSUME NEW metadata \in Metadata
  PROVE  /\ DOMAIN metadata \subseteq Keys
         /\ \A key \in DOMAIN metadata : key.name \in Names /\ metadata[key] \in Seq(HeaderTexts)
<1> DEFINE Lists   == UNION {[1..n -> Keys] : n \in 0..MaxKeys}
           MapsOf(keys) == [{keys[i] : i \in DOMAIN keys} -> ValueLists]
<1>1. PICK keys \in Lists : metadata \in MapsOf(keys)
  BY DEF Metadata
<1>2. PICK n \in 0..MaxKeys : keys \in [1..n -> Keys]
  OBVIOUS
<1>3. DOMAIN metadata \subseteq Keys /\ \A key \in DOMAIN metadata : metadata[key] \in ValueLists
  BY <1>1, <1>2
<1>4. ASSUME NEW key \in DOMAIN metadata
      PROVE  key.name \in Names /\ metadata[key] \in Seq(HeaderTexts)
  <2>1. key.name \in Names
    BY <1>3 DEF Keys
  <2>2. metadata[key] \in Seq(Texts)
    BY <1>3, ValueListIs
  <2>3. Texts \subseteq HeaderTexts
    BY DEF HeaderTexts
  <2> QED
    BY <2>1, <2>2, <2>3
<1> QED
  BY <1>3, <1>4

\* What a list of values holds it still holds when more is added, and it holds
\* what was added.
LEMMA HoldsMore ==
  ASSUME NEW S, NEW all \in Seq(S), NEW more \in Seq(S), NEW values \in Seq(S), Holds(all, values)
  PROVE  Holds(all \o more, values)
<1>1. PICK i \in 0..Len(all) : /\ i + Len(values) <= Len(all)
                               /\ \A j \in 1..Len(values) : all[i + j] = values[j]
  BY DEF Holds
<1>2. all \o more \in Seq(S) /\ Len(all \o more) = Len(all) + Len(more)
      /\ \A k \in 1..Len(all) : (all \o more)[k] = all[k]
  BY ConcatProperties
<1>3. i \in 0..Len(all \o more) /\ i + Len(values) <= Len(all \o more)
  BY <1>1, <1>2
<1>4. ASSUME NEW j \in 1..Len(values) PROVE (all \o more)[i + j] = values[j]
  <2>1. i + j \in 1..Len(all)
    BY <1>1
  <2> QED
    BY <1>1, <1>2, <2>1
<1> QED
  BY <1>3, <1>4 DEF Holds

LEMMA HoldsAdded ==
  ASSUME NEW S, NEW all \in Seq(S), NEW values \in Seq(S)
  PROVE  Holds(all \o values, values)
<1>1. Len(all \o values) = Len(all) + Len(values)
      /\ \A k \in 1..Len(all) + Len(values) :
           (all \o values)[k] = IF k <= Len(all) THEN all[k] ELSE values[k - Len(all)]
  BY ConcatProperties
<1>2. Len(all) \in 0..Len(all \o values) /\ Len(all) + Len(values) <= Len(all \o values)
  BY <1>1
<1>3. ASSUME NEW j \in 1..Len(values) PROVE (all \o values)[Len(all) + j] = values[j]
  <2>1. Len(all) + j \in 1..Len(all) + Len(values) /\ ~(Len(all) + j <= Len(all))
        /\ (Len(all) + j) - Len(all) = j
    OBVIOUS
  <2> QED
    BY <1>1, <2>1
<1> QED
  BY <1>2, <1>3 DEF Holds

Answered == {"error", "stream", "body", "json"}

\* The maps have the shape of the code's.
EnvelopeTypes ==
  /\ stage \in {"start", "called", "copy"} \cup Answered
  /\ asked \in Requests
  /\ out \in [Names -> Seq(HeaderTexts)]
  /\ stage \in {"copy", "stream", "body", "json"} => reply \in Responses
  /\ stage = "copy" => uncopied \subseteq DOMAIN reply.metadata

\* The backend got the two maps as parameters and safeHeaders make them.
DeliveredAsMade ==
  delivered \in {Nothing, [parameters |-> parameters(asked.path, asked.query),
                           extensions |-> safeHeaders(asked.headers)]}

\* copySafeHeaders has added what it has visited, nothing else touches these
\* names, and X-Request-Id was set before it.
CopiedSoFar ==
  /\ stage \in {"copy", "stream", "body", "json"} =>
       \A key \in DOMAIN reply.metadata \ uncopied :
         key.name \notin Dropped \cup {"Content-Type", "Cache-Control"} =>
           Holds(out[key.name], reply.metadata[key])
  /\ stage \in {"stream", "body", "json"} => uncopied = {}
  /\ \A n \in Dropped \cap Names : out[n] # <<>> => n = "Connection" /\ stage = "stream"

EnvelopeInv == EnvelopeTypes /\ DeliveredAsMade /\ CopiedSoFar /\ AnswerIsLabelled

LEMMA EnvelopeStart == EnvelopeInit => EnvelopeInv
<1> SUFFICES ASSUME EnvelopeInit PROVE EnvelopeInv
  OBVIOUS
<1>1. \A n \in Names : out[n] = IF n = "X-Request-Id" THEN <<RequestId>> ELSE <<>>
  BY DEF EnvelopeInit
<1>2. EnvelopeTypes
  <2>1. \A n \in Names : out[n] \in Seq(HeaderTexts)
    <3>1. <<RequestId>> \in Seq(HeaderTexts) /\ <<>> \in Seq(HeaderTexts)
      BY DEF HeaderTexts
    <3> QED BY <1>1, <3>1
  <2>2. out = [n \in Names |-> out[n]]
    BY DEF EnvelopeInit
  <2>3. out \in [Names -> Seq(HeaderTexts)]
    BY <2>1, <2>2
  <2> QED
    BY <2>3 DEF EnvelopeInit, EnvelopeTypes
<1>3. DeliveredAsMade
  BY DEF EnvelopeInit, DeliveredAsMade
<1>4. CopiedSoFar
  BY <1>1 DEF EnvelopeInit, CopiedSoFar, Dropped, hopByHop
<1>5. AnswerIsLabelled
  <2>1. out["X-Request-Id"] = <<RequestId>>
    BY <1>1, EnvelopeAssumption DEF OwnNames
  <2> QED
    BY <2>1 DEF EnvelopeInit, AnswerIsLabelled
<1> QED
  BY <1>2, <1>3, <1>4, <1>5 DEF EnvelopeInv

\* writeErrorStatus labels the answer and leaves the dropped names alone.
LEMMA ErrorEnvelope ==
  ASSUME EnvelopeInv, NEW retry \in BOOLEAN, WriteErrorStatus(retry), stage # "stream",
         UNCHANGED <<asked, delivered>>
  PROVE  EnvelopeInv'
<1> USE DEF EnvelopeInv
<1>1. /\ stage' = "error"
      /\ DOMAIN out = Names /\ DOMAIN out' = Names
      /\ \A n \in Names : out'[n] =
           IF n = "X-Request-Id" THEN <<RequestId>>
           ELSE IF n = "Content-Type" THEN <<Json>>
           ELSE IF n = "Retry-After" /\ retry THEN <<"seconds">> ELSE out[n]
  <2>1. DOMAIN out = Names
    BY DEF EnvelopeTypes
  <2>2. stage' = "error"
        /\ out' = [out EXCEPT !["Retry-After"] = IF retry THEN <<"seconds">> ELSE @,
                              !["Content-Type"] = <<Json>>,
                              !["X-Request-Id"] = <<RequestId>>]
    BY DEF WriteErrorStatus
  <2>3. {"Retry-After", "Content-Type", "X-Request-Id"} \subseteq Names
    BY EnvelopeAssumption DEF OwnNames
  <2> QED
    BY <2>1, <2>2, <2>3
<1>2. \A n \in Names : out'[n] \in Seq(HeaderTexts)
  <2>1. /\ <<RequestId>> \in Seq(HeaderTexts) /\ <<Json>> \in Seq(HeaderTexts)
        /\ <<"seconds">> \in Seq(HeaderTexts)
    BY DEF HeaderTexts
  <2> QED BY <1>1, <2>1 DEF EnvelopeTypes
<1>3. out' \in [Names -> Seq(HeaderTexts)]
  <2>1. out' = [n \in Names |-> out'[n]]
    BY DEF WriteErrorStatus, EnvelopeTypes
  <2> QED BY <1>2, <2>1
<1>4. EnvelopeTypes' /\ DeliveredAsMade'
  BY <1>1, <1>3 DEF EnvelopeTypes, DeliveredAsMade, Answered
<1>5. CopiedSoFar'
  BY <1>1 DEF CopiedSoFar, Dropped, hopByHop
<1>6. AnswerIsLabelled'
  BY <1>1, EnvelopeAssumption DEF AnswerIsLabelled, OwnNames
<1> QED
  BY <1>4, <1>5, <1>6

\* Up to the reply the answer's headers are those ServeHTTP began with, or an
\* error's.
LEMMA RequestEnvelope ==
  ASSUME EnvelopeInv, CallBackend \/ RefuseRequest \/ BackendFails \/ BackendReplies
  PROVE  EnvelopeInv'
<1> USE DEF EnvelopeInv
<1>1. CASE CallBackend
  <2>1. EnvelopeTypes'
    BY <1>1 DEF CallBackend, EnvelopeTypes
  <2>2. DeliveredAsMade'
    BY <1>1 DEF CallBackend, DeliveredAsMade
  <2>3. CopiedSoFar' /\ AnswerIsLabelled'
    BY <1>1 DEF CallBackend, CopiedSoFar, AnswerIsLabelled
  <2> QED BY <2>1, <2>2, <2>3
<1>2. CASE RefuseRequest
  BY <1>2, ErrorEnvelope DEF RefuseRequest
<1>3. CASE BackendFails
  BY <1>3, ErrorEnvelope DEF BackendFails
<1>4. CASE BackendReplies /\ WriteErrorStatus(FALSE)
  BY <1>4, ErrorEnvelope DEF BackendReplies
<1>5. CASE BackendReplies /\ ~WriteErrorStatus(FALSE)
  <2>1. /\ stage = "called" /\ stage' = "copy" /\ reply' \in Responses
        /\ uncopied' = DOMAIN reply'.metadata
        /\ UNCHANGED <<out, asked, delivered>>
    BY <1>5 DEF BackendReplies
  <2>2. EnvelopeTypes' /\ DeliveredAsMade'
    BY <2>1 DEF EnvelopeTypes, DeliveredAsMade
  <2>3. CopiedSoFar' /\ AnswerIsLabelled'
    BY <2>1 DEF CopiedSoFar, AnswerIsLabelled
  <2> QED BY <2>2, <2>3
<1> QED
  BY <1>1, <1>2, <1>3, <1>4, <1>5

\* One key copied, whichever is next.
LEMMA CopyEnvelope ==
  ASSUME EnvelopeInv, NEW key \in Keys, copySafeHeaders(key)
  PROVE  EnvelopeInv'
<1> USE DEF EnvelopeInv
<1> DEFINE values == reply.metadata[key]
<1>1. /\ stage = "copy" /\ key \in uncopied /\ uncopied' = uncopied \ {key}
      /\ UNCHANGED <<stage, asked, delivered, reply>>
      /\ out' = IF key.name \in Dropped THEN out ELSE [out EXCEPT ![key.name] = @ \o values]
  BY DEF copySafeHeaders
<1>2. reply.metadata \in Metadata /\ key \in DOMAIN reply.metadata
  BY <1>1 DEF EnvelopeTypes, Responses
<1>3. key.name \in Names /\ values \in Seq(HeaderTexts)
  BY <1>2, MetadataIs
<1> HIDE DEF values
<1>4. out \in [Names -> Seq(HeaderTexts)]
  BY DEF EnvelopeTypes
<1>5. \A n \in Names : out'[n] = IF n = key.name /\ n \notin Dropped THEN out[n] \o values ELSE out[n]
  BY <1>1, <1>3, <1>4
<1>6. out' \in [Names -> Seq(HeaderTexts)]
  BY <1>1, <1>3, <1>4, ConcatProperties
<1>7. EnvelopeTypes' /\ DeliveredAsMade'
  BY <1>1, <1>6 DEF EnvelopeTypes, DeliveredAsMade
<1>8. CopiedSoFar'
  <2>1. ASSUME NEW k \in DOMAIN reply.metadata \ (uncopied \ {key}),
               k.name \notin Dropped \cup {"Content-Type", "Cache-Control"}
        PROVE  Holds(out'[k.name], reply.metadata[k])
    <3>1. k.name \in Names /\ reply.metadata[k] \in Seq(HeaderTexts)
      BY <1>2, MetadataIs
    <3>2. CASE k = key
      <4>1. out'[k.name] = out[k.name] \o values
        BY <1>5, <2>1, <3>1, <3>2
      <4>2. Holds(out[k.name] \o values, values)
        BY <1>3, <1>4, <3>1, HoldsAdded
      <4> QED BY <3>2, <4>1, <4>2 DEF values
    <3>3. CASE k # key
      <4>1. Holds(out[k.name], reply.metadata[k])
        BY <1>1, <2>1, <3>3 DEF CopiedSoFar
      <4>2. Holds(out[k.name] \o values, reply.metadata[k])
        BY <1>3, <1>4, <3>1, <4>1, HoldsMore
      <4> QED BY <1>5, <3>1, <4>1, <4>2
    <3> QED BY <3>2, <3>3
  <2>2. \A n \in Dropped \cap Names : out'[n] = out[n]
    BY <1>5
  <2>3. ASSUME NEW n \in Dropped \cap Names, out'[n] # <<>> PROVE n = "Connection" /\ stage' = "stream"
    BY <1>1, <2>2, <2>3 DEF CopiedSoFar
  <2> QED
    BY <1>1, <2>1, <2>3 DEF CopiedSoFar
<1>9. AnswerIsLabelled'
  <2>1. out["X-Request-Id"] # <<>> /\ out["X-Request-Id"][1] = RequestId /\ "X-Request-Id" \in Names
    BY EnvelopeAssumption DEF AnswerIsLabelled, OwnNames
  <2>2. out'["X-Request-Id"] # <<>> /\ out'["X-Request-Id"][1] = RequestId
    <3> DEFINE ids == out["X-Request-Id"]
    <3>1. ids \in Seq(HeaderTexts) /\ ids # <<>> /\ ids[1] = RequestId
      BY <1>4, <2>1
    <3>2. Len(ids) \in Nat \ {0}
      BY <3>1, EmptySeq
    <3>3. ids \o values # <<>> /\ (ids \o values)[1] = RequestId
      BY <1>3, <3>1, <3>2, ConcatProperties
    <3> HIDE DEF ids
    <3>4. out'["X-Request-Id"] \in {ids, ids \o values}
      BY <1>5, <2>1 DEF ids
    <3> QED BY <3>1, <3>3, <3>4
  <2> QED
    BY <1>1, <2>2 DEF AnswerIsLabelled
<1> QED
  BY <1>7, <1>8, <1>9

\* The labels set after copySafeHeaders replace what it added, and nothing else.
LEMMA AnswerEnvelope ==
  ASSUME EnvelopeInv, AnswerStream \/ AnswerBody \/ AnswerJSON
  PROVE  EnvelopeInv'
<1> USE DEF EnvelopeInv
<1>1. Copied /\ UNCHANGED <<asked, delivered, reply, uncopied>>
  BY DEF AnswerStream, AnswerBody, AnswerJSON
<1>2. ASSUME WriteErrorStatus(FALSE) PROVE EnvelopeInv'
  BY <1>1, <1>2, ErrorEnvelope DEF Copied
<1>3. ASSUME ~WriteErrorStatus(FALSE) PROVE EnvelopeInv'
  <2> DEFINE label == CASE stage' = "stream" -> <<"text/event-stream">>
                        [] stage' = "json"   -> <<JsonType>>
                        [] OTHER -> IF reply.mediaType # Unset THEN <<reply.mediaType>>
                                    ELSE out["Content-Type"]
             Own == IF stage' = "stream" THEN {"Content-Type", "Cache-Control", "Connection"}
                    ELSE {"Content-Type"}
  <2>1. /\ out \in [Names -> Seq(HeaderTexts)]
        /\ {"Content-Type", "Cache-Control", "Connection", "X-Request-Id"} \subseteq Names
        /\ reply \in Responses
    BY <1>1, EnvelopeAssumption DEF EnvelopeTypes, Copied, OwnNames
  <2>2. stage' \in {"stream", "body", "json"}
    BY <1>3 DEF AnswerStream, AnswerBody, AnswerJSON
  <2>3. DOMAIN out' = Names /\ \A n \in Names \ Own : out'[n] = out[n]
    BY <1>3, <2>1 DEF AnswerStream, AnswerBody, AnswerJSON, Labelled
  <2>4. out'["Content-Type"] = label
    BY <1>3, <2>1 DEF AnswerStream, AnswerBody, AnswerJSON, Labelled
  <2>5. stage' = "stream" => out'["Cache-Control"] = <<"no-cache">> /\ out'["Connection"] = <<"keep-alive">>
    BY <1>3, <2>1 DEF AnswerStream, AnswerBody, AnswerJSON
  <2>6. label \in Seq(HeaderTexts)
    <3>1. reply.mediaType # Unset => reply.mediaType \in HeaderTexts
      BY <2>1 DEF Responses, HeaderTexts
    <3>2. JsonType \in HeaderTexts
      BY <3>1 DEF JsonType, HeaderTexts
    <3>3. "text/event-stream" \in HeaderTexts /\ out["Content-Type"] \in Seq(HeaderTexts)
      BY <2>1 DEF HeaderTexts
    <3> QED BY <3>1, <3>2, <3>3, <2>2
  <2> HIDE DEF label
  <2>7. \A n \in Names : out'[n] \in Seq(HeaderTexts)
    <3>1. <<"no-cache">> \in Seq(HeaderTexts) /\ <<"keep-alive">> \in Seq(HeaderTexts)
      BY DEF HeaderTexts
    <3> QED BY <2>1, <2>3, <2>4, <2>5, <2>6, <3>1
  <2>8. out' \in [Names -> Seq(HeaderTexts)]
    <3>1. out' = [n \in Names |-> out'[n]]
      BY <1>3, <2>1 DEF AnswerStream, AnswerBody, AnswerJSON, Labelled
    <3> QED BY <2>7, <3>1
  <2>9. EnvelopeTypes' /\ DeliveredAsMade'
    BY <1>1, <2>1, <2>2, <2>8 DEF EnvelopeTypes, DeliveredAsMade, Answered
  <2>10. CopiedSoFar'
    <3>1. ASSUME NEW k \in DOMAIN reply.metadata,
                 k.name \notin Dropped \cup {"Content-Type", "Cache-Control"}
          PROVE  Holds(out'[k.name], reply.metadata[k])
      <4>1. Holds(out[k.name], reply.metadata[k])
        BY <1>1, <3>1 DEF CopiedSoFar, Copied
      <4>2. k.name \in Names \ Own
        BY <2>1, <3>1, MetadataIs DEF Responses, Dropped, hopByHop
      <4> QED BY <2>3, <4>1, <4>2
    <3>2. ASSUME NEW n \in Dropped \cap Names, out'[n] # <<>> PROVE n = "Connection" /\ stage' = "stream"
      <4>1. n # "Content-Type" /\ n # "Cache-Control" /\ out[n] = <<>>
        BY <1>1 DEF CopiedSoFar, Copied, Dropped, hopByHop
      <4> QED BY <2>3, <3>2, <4>1
    <3> QED
      BY <1>1, <2>2, <3>1, <3>2 DEF CopiedSoFar, Copied
  <2>11. AnswerIsLabelled'
    <3>1. out'["X-Request-Id"] = out["X-Request-Id"]
      BY <2>1, <2>3
    <3>2. JsonType' = JsonType
      BY <1>1 DEF JsonType
    <3> QED
      BY <1>1, <2>2, <2>4, <3>1, <3>2 DEF AnswerIsLabelled, label
  <2> QED
    BY <2>9, <2>10, <2>11
<1> QED
  BY <1>2, <1>3

\* The invariant of the maps, for any parameters, headers and metadata and any
\* order in which copySafeHeaders meets the keys.
THEOREM EnvelopeInvHolds == EnvelopeSpec => []EnvelopeInv
<1>1. EnvelopeInv /\ [EnvelopeNext]_envelopeVars => EnvelopeInv'
  <2> SUFFICES ASSUME EnvelopeInv, [EnvelopeNext]_envelopeVars PROVE EnvelopeInv'
    OBVIOUS
  <2>1. CASE UNCHANGED envelopeVars
    BY <2>1 DEF envelopeVars, EnvelopeInv, EnvelopeTypes, DeliveredAsMade, CopiedSoFar,
       AnswerIsLabelled, JsonType
  <2> QED
    BY <2>1, RequestEnvelope, CopyEnvelope, AnswerEnvelope DEF EnvelopeNext
<1> QED
  BY <1>1, EnvelopeStart, PTL DEF EnvelopeSpec

\* parameters and safeHeaders give the backend every query value and every path
\* value that is not hidden, and no credential, for any request.
THEOREM BackendReadsTheRequestHolds == EnvelopeSpec => []BackendReadsTheRequest
<1>1. EnvelopeInv => BackendReadsTheRequest
  <2> SUFFICES ASSUME EnvelopeInv, delivered # Nothing PROVE BackendReadsTheRequest
    BY DEF BackendReadsTheRequest
  <2>1. /\ DOMAIN asked.path = PathNames
        /\ \A key \in DOMAIN asked.query : asked.query[key] \in ValueLists
    <3>1. asked \in Requests
      BY DEF EnvelopeInv, EnvelopeTypes
    <3>2. asked.query \in Queries /\ asked.path \in [PathNames -> Texts]
      BY <3>1 DEF Requests
    <3>3. PICK names \in SUBSET QueryNames : asked.query \in [names -> ValueLists]
      BY <3>2 DEF Queries
    <3> QED BY <3>2, <3>3
  <2>2. /\ delivered.parameters = parameters(asked.path, asked.query)
        /\ delivered.extensions = safeHeaders(asked.headers)
    BY DEF EnvelopeInv, DeliveredAsMade
  <2>3. DOMAIN delivered.parameters = PathNames \cup DOMAIN asked.query
    BY <2>1, <2>2 DEF parameters
  <2>4. ASSUME NEW key \in DOMAIN asked.query
        PROVE  TextsOf(delivered.parameters[key]) = asked.query[key]
    <3> DEFINE values == asked.query[key]
    <3>1. values \in Seq(Texts) /\ Len(values) \in Nat \ {0}
      BY <2>1, ValueListIs
    <3>2. delivered.parameters[key] = IF Len(values) = 1 THEN StringOf(values[1]) ELSE ArrayOf(values)
      BY <2>2 DEF parameters
    <3> HIDE DEF values
    <3>3. CASE Len(values) = 1
      <4>1. values = <<values[1]>>
        BY <3>1, <3>3
      <4> QED BY <3>2, <3>3, <4>1 DEF TextsOf, StringOf, values
    <3>4. CASE Len(values) # 1
      BY <3>2, <3>4 DEF TextsOf, ArrayOf, values
    <3> QED BY <3>3, <3>4
  <2>5. ASSUME NEW key \in PathNames \ DOMAIN asked.query
        PROVE  TextsOf(delivered.parameters[key]) = <<asked.path[key]>>
    BY <2>1, <2>2 DEF parameters, TextsOf, StringOf
  <2>6. ASSUME NEW n \in DOMAIN asked.headers
        PROVE  IF n \in Credentials THEN n \notin DOMAIN delivered.extensions
               ELSE delivered.extensions[n] = asked.headers[n]
    BY <2>2 DEF safeHeaders
  <2> QED
    BY <2>3, <2>4, <2>5, <2>6 DEF BackendReadsTheRequest
<1> QED
  BY <1>1, EnvelopeInvHolds, PTL

\* The answer has one content type, that of what it carries, and the request's
\* ID first, whatever the metadata copySafeHeaders adds.
THEOREM AnswerIsLabelledHolds == EnvelopeSpec => []AnswerIsLabelled
<1>1. EnvelopeInv => AnswerIsLabelled
  BY DEF EnvelopeInv
<1> QED
  BY <1>1, EnvelopeInvHolds, PTL

\* copySafeHeaders drops what is not the client's and loses nothing else, for
\* any metadata, with any spellings, in any order of the map.
THEOREM MetadataReachesClientHolds == EnvelopeSpec => []MetadataReachesClient
<1>1. EnvelopeInv => MetadataReachesClient
  BY DEF EnvelopeInv, CopiedSoFar, MetadataReachesClient
<1> QED
  BY <1>1, EnvelopeInvHolds, PTL
=============================================================================
