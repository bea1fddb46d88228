----------------------------- MODULE WsHandler ------------------------------
(***************************************************************************)
(* openai/internal/websocket.Handler: one ServeHTTP goroutine per upgrade  *)
(* request, with the readLoop and writeLoop goroutines it starts, on top   *)
(* of the session table of WsRegistry and the codec of EventCodec.         *)
(*                                                                         *)
(* The WebSocket library, the peer, the application's Authenticate,        *)
(* SessionBackend and Session are external: they appear as the outcomes    *)
(* the code has to cope with.                                              *)
(***************************************************************************)
EXTENDS WsRegistry, EventCodec, Sequences

CONSTANTS Configured,    \* surfaces that have a SessionBackend (Services.SessionFor)
          ClientFrames,  \* frames a peer may send: records with text, data
          BackendEvents, \* events a session may produce: records with type, id, data
          PeerCodes,     \* close codes a peer may send
          MaxFrames,     \* bound: frames a peer sends on one connection
          MaxEvents      \* bound: events a session produces

StatusAbnormalClosure == 1006   \* here: the transport broke, no close frame
StatusMessageTooBig   == 1009

ASSUME HandlerAssumption ==
  /\ Configured \subseteq Surfaces
  /\ PeerCodes \subseteq Nat \ {0, StatusAbnormalClosure}
  /\ MaxFrames \in Nat /\ MaxEvents \in Nat
  /\ \A e \in BackendEvents, s \in Surfaces : transmit(s, e).result # "panic"

VARIABLES
  surface,    \* which path the request asked for
  pc,         \* where ServeHTTP stands
  http,       \* the HTTP status the request was answered with, 0 before
  opened,     \* has OpenSession returned a session?
  closes,     \* how often session.Close has been called
  evClosed,   \* has the backend closed session.Events()?
  conn,       \* the connection: none, open, down
  closeFrame, \* the code of the close frame this end sent, 0 for none
  peer,       \* the code the peer left with, 0 while it is there
  timedOut,   \* requests whose context ended because it ran out of time
  first,      \* the first error received from errorsChannel
  errs,       \* the contents of errorsChannel
  rpc, rerr,  \* the readLoop goroutine and the error it returns
  wpc, werr,  \* the writeLoop goroutine and the error it returns
  sent,       \* frames the peer has sent
  nread,      \* how many of them connection.Read has returned
  handled,    \* what session.Handle has been called with
  taken,      \* events received from session.Events()
  wire        \* documents connection.Write has sent

setupVars == <<surface, pc, http>>
sessVars  == <<opened, closes, evClosed>>
connVars  == <<conn, closeFrame, peer, timedOut>>
chanVars  == <<first, errs>>
readVars  == <<rpc, rerr, sent, nread, handled>>
writeVars == <<wpc, werr, taken, wire>>
loopVars  == <<chanVars, readVars, writeVars>>
connectionVars == <<setupVars, sessVars, connVars, loopVars>>
vars == <<regVars, connectionVars>>

NoError == LoopError("none")

Init ==
  /\ RegInit
  /\ surface \in [Conns -> Surfaces]
  /\ pc = [c \in Conns |-> "start"]
  /\ http = [c \in Conns |-> 0]
  /\ opened = [c \in Conns |-> FALSE]
  /\ closes = [c \in Conns |-> 0]
  /\ evClosed = [c \in Conns |-> FALSE]
  /\ conn = [c \in Conns |-> "none"]
  /\ closeFrame = [c \in Conns |-> 0]
  /\ peer = [c \in Conns |-> 0]
  /\ timedOut = {}
  /\ first = [c \in Conns |-> NoError]
  /\ errs = [c \in Conns |-> <<>>]
  /\ rpc = [c \in Conns |-> "off"]
  /\ rerr = [c \in Conns |-> NoError]
  /\ wpc = [c \in Conns |-> "off"]
  /\ werr = [c \in Conns |-> NoError]
  /\ sent = [c \in Conns |-> <<>>]
  /\ nread = [c \in Conns |-> 0]
  /\ handled = [c \in Conns |-> <<>>]
  /\ taken = [c \in Conns |-> <<>>]
  /\ wire = [c \in Conns |-> <<>>]

-----------------------------------------------------------------------------
(* ServeHTTP up to the upgrade.                                            *)

Goto(c, from, to) == pc[c] = from /\ pc' = [pc EXCEPT ![c] = to]
Answer(c, status) == http' = [http EXCEPT ![c] = status]
closeSession(c)   == closes' = [closes EXCEPT ![c] = @ + 1]

\* register, or the 503 of a handler that is shutting down.
Enter(c) ==
  /\ \/ /\ Register(c)
        /\ Goto(c, "start", "auth")
        /\ UNCHANGED http
     \/ /\ Refuse(c)
        /\ Goto(c, "start", "done")
        /\ Answer(c, 503)
  /\ UNCHANGED <<surface, sessVars, connVars, loopVars>>

\* config.Authenticate, then services.SessionFor.
Authenticate(c) ==
  /\ \/ Goto(c, "auth", "exit") /\ Answer(c, 401)
     \/ surface[c] \notin Configured /\ Goto(c, "auth", "exit") /\ Answer(c, 501)
     \/ surface[c] \in Configured /\ Goto(c, "auth", "open") /\ UNCHANGED http
  /\ UNCHANGED <<regVars, surface, sessVars, connVars, loopVars>>

\* OpenSession may fail, return a nil session, fail and still return a
\* session, or succeed.
OpenSession(c) ==
  /\ \/ /\ Goto(c, "open", "exit")
        /\ Answer(c, 500)
        /\ UNCHANGED opened
     \/ /\ \E next \in {"abandon", "accept"} : Goto(c, "open", next)
        /\ opened' = [opened EXCEPT ![c] = TRUE]
        /\ UNCHANGED http
  /\ UNCHANGED <<regVars, surface, closes, evClosed, connVars, loopVars>>

\* OpenSession reported an error and a session: close it, answer 500.
AbandonLeaking(c) ==
  /\ Goto(c, "abandon", "exit")
  /\ Answer(c, 500)
  /\ UNCHANGED <<regVars, surface, sessVars, connVars, loopVars>>
Abandon(c) ==
  /\ Goto(c, "abandon", "exit")
  /\ closeSession(c)
  /\ Answer(c, 500)
  /\ UNCHANGED <<regVars, surface, opened, evClosed, connVars, loopVars>>

\* websocket.Accept answers the request either way; on success both loops
\* start.
AcceptLeavingSession(c) ==
  /\ \/ /\ Goto(c, "accept", "exit")
        /\ Answer(c, 403)
        /\ UNCHANGED <<conn, rpc, wpc>>
     \/ /\ Goto(c, "accept", "serve")
        /\ Answer(c, 101)
        /\ conn' = [conn EXCEPT ![c] = "open"]
        /\ rpc' = [rpc EXCEPT ![c] = "read"]
        /\ wpc' = [wpc EXCEPT ![c] = "select"]
  /\ UNCHANGED <<regVars, surface, sessVars, closeFrame, peer, timedOut, chanVars,
                 rerr, sent, nread, handled, werr, taken, wire>>
Accept(c) ==
  /\ \/ /\ Goto(c, "accept", "reject")
        /\ Answer(c, 403)
        /\ UNCHANGED <<conn, rpc, wpc>>
     \/ /\ Goto(c, "accept", "serve")
        /\ Answer(c, 101)
        /\ conn' = [conn EXCEPT ![c] = "open"]
        /\ rpc' = [rpc EXCEPT ![c] = "read"]
        /\ wpc' = [wpc EXCEPT ![c] = "select"]
  /\ UNCHANGED <<regVars, surface, sessVars, closeFrame, peer, timedOut, chanVars,
                 rerr, sent, nread, handled, werr, taken, wire>>

\* Accept failed: close the session and return.
Reject(c) ==
  /\ Goto(c, "reject", "exit")
  /\ closeSession(c)
  /\ UNCHANGED <<regVars, surface, http, opened, evClosed, connVars, loopVars>>

-----------------------------------------------------------------------------
(* ServeHTTP after the upgrade: the first error, closeAll in its three     *)
(* steps, the bounded wait for the other loop, the deferred calls.         *)

\* err = <-errorsChannel, then the cancel() that closeAll starts with.
FirstErrorWithoutCancel(c) ==
  /\ errs[c] # <<>>
  /\ Goto(c, "serve", "closeSession")
  /\ first' = [first EXCEPT ![c] = Head(errs[c])]
  /\ errs' = [errs EXCEPT ![c] = Tail(@)]
  /\ UNCHANGED <<regVars, surface, http, sessVars, connVars, readVars, writeVars>>
FirstError(c) ==
  /\ errs[c] # <<>>
  /\ Goto(c, "serve", "closeSession")
  /\ first' = [first EXCEPT ![c] = Head(errs[c])]
  /\ errs' = [errs EXCEPT ![c] = Tail(@)]
  /\ CancelLive(c)
  /\ UNCHANGED <<surface, http, sessVars, connVars, readVars, writeVars>>

CloseSession(c) ==
  /\ Goto(c, "closeSession", "closeConn")
  /\ closeSession(c)
  /\ UNCHANGED <<regVars, surface, http, opened, evClosed, connVars, loopVars>>

\* connection.Close sends a close frame if the connection is still up.
CloseConnOnErrorOnly(c) ==
  /\ Goto(c, "closeConn", "drain")
  /\ conn' = [conn EXCEPT ![c] = "down"]
  /\ closeFrame' = IF conn[c] = "open" /\ first[c].kind \notin {"nil", "canceled"}
                   THEN [closeFrame EXCEPT ![c] = closeReason(first[c])]
                   ELSE closeFrame
  /\ UNCHANGED <<regVars, surface, http, sessVars, peer, timedOut, loopVars>>
CloseConn(c) ==
  /\ Goto(c, "closeConn", "drain")
  /\ conn' = [conn EXCEPT ![c] = "down"]
  /\ closeFrame' = IF conn[c] = "open"
                   THEN [closeFrame EXCEPT ![c] = closeReason(first[c])]
                   ELSE closeFrame
  /\ UNCHANGED <<regVars, surface, http, sessVars, peer, timedOut, loopVars>>

\* The last select: the other loop's error, or two seconds.
DrainForever(c) ==
  /\ errs[c] # <<>>
  /\ Goto(c, "drain", "exit")
  /\ errs' = [errs EXCEPT ![c] = Tail(@)]
  /\ UNCHANGED <<regVars, surface, http, sessVars, connVars, first, readVars, writeVars>>
Drain(c) ==
  /\ Goto(c, "drain", "exit")
  /\ errs' = IF errs[c] # <<>> THEN [errs EXCEPT ![c] = Tail(@)] ELSE errs
  /\ UNCHANGED <<regVars, surface, http, sessVars, connVars, first, readVars, writeVars>>

\* The deferred closeAll (spent by now), cancel and unregister.
ExitDeletingOnly(c) ==
  /\ Goto(c, "exit", "done")
  /\ life[c] = "live"
  /\ Cancel(c)
  /\ active' = active \ {sid[c]}
  /\ life' = [life EXCEPT ![c] = "gone"]
  /\ UNCHANGED <<shuttingDown, nextSession, doneCloses, sid, callerVars>>
  /\ UNCHANGED <<surface, http, sessVars, connVars, loopVars>>
Exit(c) ==
  /\ Goto(c, "exit", "done")
  /\ Unregister(c)
  /\ UNCHANGED <<surface, http, sessVars, connVars, loopVars>>

-----------------------------------------------------------------------------
(* readLoop.                                                               *)

\* make(chan error, 2): a send blocks only on a full buffer.
CanSendUnbuffered(c) == errs[c] = <<>> /\ pc[c] \in {"serve", "drain"}
CanSend(c) == Len(errs[c]) < 2

\* connection.Read returns the next frame; it is handed to session.Handle or
\* ends the loop with a protocol failure.
ReadFrame(c) ==
  /\ rpc[c] = "read"
  /\ conn[c] = "open"
  /\ nread[c] < Len(sent[c])
  /\ nread' = [nread EXCEPT ![c] = @ + 1]
  /\ LET got == receive(surface[c], sent[c][nread[c] + 1])
     IN  \/ /\ got.result = "ok"
            /\ handled' = [handled EXCEPT ![c] = Append(@, got.value)]
            /\ rpc' = [rpc EXCEPT ![c] = "handle"]
            /\ UNCHANGED rerr
         \/ /\ got.result = "protocol"
            /\ rerr' = [rerr EXCEPT ![c] = LoopError("protocol")]
            /\ rpc' = [rpc EXCEPT ![c] = "send"]
            /\ UNCHANGED handled
  /\ UNCHANGED <<regVars, setupVars, sessVars, connVars, chanVars, sent, writeVars>>

\* ctx.Err(): the parent's deadline if that came first.
CtxErrIgnoringDeadline(c) == LoopError("canceled")
CtxErr(c) == LoopError(IF c \in timedOut THEN "deadline" ELSE "canceled")

\* connection.Read gets to the peer's close frame: the library answers with a
\* frame of the same code and gives up the connection.
ReadClose(c) ==
  /\ rpc[c] = "read"
  /\ conn[c] = "open"
  /\ peer[c] \notin {0, StatusAbnormalClosure} /\ nread[c] = Len(sent[c])
  /\ conn' = [conn EXCEPT ![c] = "down"]
  /\ closeFrame' = [closeFrame EXCEPT ![c] = peer[c]]
  /\ rerr' = [rerr EXCEPT ![c] = PeerClosed(peer[c])]
  /\ rpc' = [rpc EXCEPT ![c] = "send"]
  /\ UNCHANGED <<regVars, setupVars, sessVars, peer, timedOut, chanVars,
                 sent, nread, handled, writeVars>>

\* connection.Read fails for want of a connection; when the context has ended as
\* well the library reports either.  A context that has ended before Read takes
\* its lock makes it fail and leaves the connection up.
ReadFails(c) ==
  /\ rpc[c] = "read"
  /\ \/ /\ conn[c] = "down" \/ peer[c] = StatusAbnormalClosure
        /\ conn' = [conn EXCEPT ![c] = "down"]
        /\ rerr' = [rerr EXCEPT ![c] = LoopError("connection")]
     \/ /\ c \in cancelled
        /\ rerr' = [rerr EXCEPT ![c] = CtxErr(c)]
        /\ UNCHANGED conn
  /\ rpc' = [rpc EXCEPT ![c] = "send"]
  /\ UNCHANGED <<regVars, setupVars, sessVars, closeFrame, peer, timedOut, chanVars,
                 sent, nread, handled, writeVars>>

\* The next frame exceeds SetReadLimit: the library sends its own close frame
\* and Read fails.
ReadTooBig(c) ==
  /\ rpc[c] = "read"
  /\ conn[c] = "open"
  /\ nread[c] < Len(sent[c])
  /\ nread' = [nread EXCEPT ![c] = @ + 1]
  /\ conn' = [conn EXCEPT ![c] = "down"]
  /\ closeFrame' = [closeFrame EXCEPT ![c] = StatusMessageTooBig]
  /\ rerr' = [rerr EXCEPT ![c] = LoopError("connection")]
  /\ rpc' = [rpc EXCEPT ![c] = "send"]
  /\ UNCHANGED <<regVars, setupVars, sessVars, peer, timedOut, chanVars, sent, handled, writeVars>>

\* session.Handle returns nil or any error: a context.Canceled of any context, a
\* close error of a connection the backend keeps upstream, or another one
\* (context.DeadlineExceeded included).
HandleReturns(c) ==
  /\ rpc[c] = "handle"
  /\ \/ /\ rpc' = [rpc EXCEPT ![c] = "read"]
        /\ UNCHANGED rerr
     \/ /\ \E err \in {LoopError("other"), LoopError("canceled")}
                       \cup {PeerClosed(code) : code \in PeerCodes} :
              rerr' = [rerr EXCEPT ![c] = err]
        /\ rpc' = [rpc EXCEPT ![c] = "send"]
  /\ UNCHANGED <<regVars, setupVars, sessVars, connVars, chanVars,
                 sent, nread, handled, writeVars>>

ReadReturns(c) ==
  /\ rpc[c] = "send"
  /\ CanSend(c)
  /\ errs' = [errs EXCEPT ![c] = Append(@, rerr[c])]
  /\ rpc' = [rpc EXCEPT ![c] = "ended"]
  /\ UNCHANGED <<regVars, setupVars, sessVars, connVars, first,
                 rerr, sent, nread, handled, writeVars>>

-----------------------------------------------------------------------------
(* writeLoop.                                                              *)

WriteLoopEnds(c, err) ==
  /\ werr' = [werr EXCEPT ![c] = err]
  /\ wpc' = [wpc EXCEPT ![c] = "send"]

\* case <-ctx.Done()
WriteStops(c) ==
  /\ wpc[c] = "select"
  /\ c \in cancelled
  /\ WriteLoopEnds(c, CtxErr(c))
  /\ UNCHANGED <<regVars, setupVars, sessVars, connVars, chanVars, readVars, taken, wire>>

\* case event := <-session.Events(): write it, or end with a protocol failure.
WriteTakes(c) ==
  /\ wpc[c] = "select"
  /\ ~evClosed[c]
  /\ Len(taken[c]) < MaxEvents
  /\ \E event \in BackendEvents :
       /\ taken' = [taken EXCEPT ![c] = Append(@, event)]
       /\ \/ /\ transmit(surface[c], event).result = "ok"
             /\ wpc' = [wpc EXCEPT ![c] = "write"]
             /\ UNCHANGED werr
          \/ /\ transmit(surface[c], event).result = "protocol"
             /\ WriteLoopEnds(c, LoopError("protocol"))
  /\ UNCHANGED <<regVars, setupVars, sessVars, connVars, chanVars, readVars, wire>>

\* case _, open := <-session.Events() with open false.
WriteEnds(c) ==
  /\ wpc[c] = "select"
  /\ evClosed[c]
  /\ WriteLoopEnds(c, LoopError("nil"))
  /\ UNCHANGED <<regVars, setupVars, sessVars, connVars, chanVars, readVars, taken, wire>>

\* connection.Write succeeds, or fails as Read does; one to a peer that has left
\* may do either.
WriteDone(c) ==
  /\ wpc[c] = "write"
  /\ conn[c] = "open"
  /\ wire' = [wire EXCEPT ![c] =
       Append(@, transmit(surface[c], taken[c][Len(taken[c])]).value)]
  /\ wpc' = [wpc EXCEPT ![c] = "select"]
  /\ UNCHANGED <<regVars, setupVars, sessVars, connVars, chanVars, readVars, werr, taken>>

WriteFails(c) ==
  /\ wpc[c] = "write"
  /\ \/ /\ conn[c] = "down" \/ peer[c] # 0
        /\ conn' = [conn EXCEPT ![c] = "down"]
        /\ WriteLoopEnds(c, LoopError("connection"))
     \/ /\ c \in cancelled
        /\ WriteLoopEnds(c, CtxErr(c))
        /\ UNCHANGED conn
  /\ UNCHANGED <<regVars, setupVars, sessVars, closeFrame, peer, timedOut, chanVars,
                 readVars, taken, wire>>

WriteReturns(c) ==
  /\ wpc[c] = "send"
  /\ CanSend(c)
  /\ errs' = [errs EXCEPT ![c] = Append(@, werr[c])]
  /\ wpc' = [wpc EXCEPT ![c] = "ended"]
  /\ UNCHANGED <<regVars, setupVars, sessVars, connVars, first, readVars,
                 werr, taken, wire>>

-----------------------------------------------------------------------------
(* The environment.                                                        *)

\* The library tears the connection down, without a close frame, when the
\* context of a Read or Write in progress ends.
Abort(c) ==
  /\ c \in cancelled
  /\ conn[c] = "open"
  /\ rpc[c] = "read" \/ wpc[c] = "write"
  /\ conn' = [conn EXCEPT ![c] = "down"]
  /\ UNCHANGED <<regVars, setupVars, sessVars, closeFrame, peer, timedOut, loopVars>>

PeerSends(c) ==
  /\ conn[c] = "open"
  /\ peer[c] = 0
  /\ Len(sent[c]) < MaxFrames
  /\ \E frame \in ClientFrames : sent' = [sent EXCEPT ![c] = Append(@, frame)]
  /\ UNCHANGED <<regVars, setupVars, sessVars, connVars, chanVars,
                 rpc, rerr, nread, handled, writeVars>>

\* The peer sends a close frame, or the transport breaks.
PeerLeaves(c) ==
  /\ conn[c] = "open"
  /\ peer[c] = 0
  /\ \E code \in PeerCodes \cup {StatusAbnormalClosure} :
        peer' = [peer EXCEPT ![c] = code]
  /\ UNCHANGED <<regVars, setupVars, sessVars, conn, closeFrame, timedOut, loopVars>>

BackendClosesEvents(c) ==
  /\ opened[c]
  /\ ~evClosed[c]
  /\ evClosed' = [evClosed EXCEPT ![c] = TRUE]
  /\ UNCHANGED <<regVars, setupVars, opened, closes, connVars, loopVars>>

\* The request context, the parent of ctx, ends: it is cancelled, or a deadline
\* somebody has given it passes.
RequestEnds(c) ==
  /\ c \notin cancelled
  /\ CancelLive(c)
  /\ timedOut' \in {timedOut, timedOut \cup {c}}
  /\ UNCHANGED <<setupVars, sessVars, conn, closeFrame, peer, loopVars>>

ServeStep(c) ==
  \/ Authenticate(c) \/ OpenSession(c) \/ Abandon(c) \/ Accept(c) \/ Reject(c)
  \/ FirstError(c) \/ CloseSession(c) \/ CloseConn(c) \/ Drain(c) \/ Exit(c)

ReadStep(c)  == \/ ReadFrame(c) \/ ReadClose(c) \/ ReadFails(c) \/ ReadTooBig(c)
                \/ ReadReturns(c)
WriteStep(c) == WriteStops(c) \/ WriteDone(c) \/ WriteFails(c) \/ WriteReturns(c)

PeerStep(c) == PeerSends(c) \/ PeerLeaves(c)

CallerStep(k) == (ShutdownStep(k) \/ Expire(k)) /\ UNCHANGED connectionVars

Next ==
  \/ \E c \in Conns :
       \/ Enter(c) \/ ServeStep(c) \/ ReadStep(c) \/ HandleReturns(c)
       \/ WriteStep(c) \/ WriteTakes(c) \/ WriteEnds(c) \/ Abort(c)
       \/ PeerStep(c) \/ BackendClosesEvents(c) \/ RequestEnds(c)
  \/ \E k \in Callers : CallerStep(k)

Spec == Init /\ [][Next]_vars

\* Goroutines that can run do, the library reacts to a cancelled context, and
\* every external call but session.Handle returns.  Nothing is assumed of the
\* peer, of the backend's events, of the request context, of the shutdown
\* context, or of anybody calling Shutdown.
Fairness ==
  /\ \A c \in Conns : /\ WF_vars(ServeStep(c))
                      /\ WF_vars(ReadStep(c))
                      /\ WF_vars(WriteStep(c))
                      /\ WF_vars(Abort(c))
  /\ \A k \in Callers :
       WF_vars((CallCancel(k) \/ ReturnDone(k) \/ ReturnExpired(k)) /\ UNCHANGED connectionVars)

FairSpec == Spec /\ Fairness

-----------------------------------------------------------------------------
LoopErrors ==
  [kind : {"none", "nil", "canceled", "deadline", "protocol", "connection", "other"}, code : {0}]
  \cup [kind : {"peer"}, code : PeerCodes]

\* What the codec lets through, in either direction.
Deliveries ==
  {r.value : r \in {q \in {receive(s, f) : s \in Surfaces, f \in ClientFrames} : q.result = "ok"}}
Transmissions ==
  {r.value : r \in {q \in {transmit(s, e) : s \in Surfaces, e \in BackendEvents} : q.result = "ok"}}

\* Every variable of the handler has its type; in particular errorsChannel
\* never holds more than its two slots and every answer is one the code gives.
TypeOK ==
  /\ RegTypeOK
  /\ surface \in [Conns -> Surfaces]
  /\ pc \in [Conns -> {"start", "auth", "open", "abandon", "accept", "reject", "serve",
                       "closeSession", "closeConn", "drain", "exit", "done"}]
  /\ http \in [Conns -> {0, 101, 401, 403, 500, 501, 503}]
  /\ opened \in [Conns -> BOOLEAN]
  /\ closes \in [Conns -> Nat]
  /\ evClosed \in [Conns -> BOOLEAN]
  /\ conn \in [Conns -> {"none", "open", "down"}]
  /\ closeFrame \in [Conns -> Nat]
  /\ peer \in [Conns -> {0, StatusAbnormalClosure} \cup PeerCodes]
  /\ timedOut \subseteq Conns
  /\ first \in [Conns -> LoopErrors]
  /\ errs \in [Conns -> Seq(LoopErrors)] /\ \A c \in Conns : Len(errs[c]) <= 2
  /\ rpc \in [Conns -> {"off", "read", "handle", "send", "ended"}]
  /\ wpc \in [Conns -> {"off", "select", "write", "send", "ended"}]
  /\ rerr \in [Conns -> LoopErrors]
  /\ werr \in [Conns -> LoopErrors]
  /\ sent \in [Conns -> Seq(ClientFrames)] /\ handled \in [Conns -> Seq(Deliveries)]
  /\ taken \in [Conns -> Seq(BackendEvents)] /\ wire \in [Conns -> Seq(Transmissions)]
  /\ nread \in [Conns -> Nat] /\ \A c \in Conns : nread[c] <= Len(sent[c])

\* A session that OpenSession handed over is closed exactly once by the time
\* ServeHTTP returns, on every path: an error together with a session, a failed
\* upgrade, either loop failing first, Shutdown; and never before that twice.
SessionClosedOnce ==
  \A c \in Conns : /\ closes[c] <= 1
                   /\ pc[c] = "done" => closes[c] = (IF opened[c] THEN 1 ELSE 0)

\* session.Handle may still be running when session.Close is called, but then
\* its context has been cancelled: closeAll cancels before it closes.
HandleDuringCloseIsCancelled ==
  \A c \in Conns : rpc[c] = "handle" /\ closes[c] > 0 => c \in cancelled

\* When some Shutdown call has returned nil, no ServeHTTP is between its
\* register and its return, every session ever opened has been closed, no
\* connection is up, and this stays so: late requests only meet the 503.
ShutdownIsQuiescent ==
  (\E k \in Callers : spc[k] = "nil") =>
    \A c \in Conns : /\ pc[c] \in {"start", "done"}
                     /\ conn[c] # "open"
                     /\ opened[c] => closes[c] = 1

\* What justifies a close code.
Earned(c, code) ==
  \/ rerr[c] = PeerClosed(code) /\ (peer[c] = code \/ handled[c] # <<>>)
  \/ /\ code = StatusNormalClosure
     /\ \/ first[c].kind = "nil"
        \/ first[c].kind = "canceled" /\ (c \notin timedOut \/ handled[c] # <<>>)
  \/ /\ code = StatusPolicyViolation
     /\ \/ \E i \in 1..nread[c] : receive(surface[c], sent[c][i]).result = "protocol"
        \/ \E i \in DOMAIN taken[c] : transmit(surface[c], taken[c][i]).result = "protocol"
  \/ /\ code = StatusInternalError
     /\ \/ handled[c] # <<>> /\ rerr[c].kind = "other"
        \/ c \in timedOut /\ first[c].kind = "deadline"
  \/ code = StatusMessageTooBig /\ Len(handled[c]) < nread[c]

\* The code the peer is told is earned, whichever loop lost the race: it is the
\* peer's own, answered by the library, or the one that a failed Handle passed
\* on, or else 1000 needs the end of Events() or a cancellation (of a request
\* that has not run out of time, or reported by a Handle), 1008 an offending
\* frame or event, 1011 a failed Handle or a request that ran out of time
\* (never a connection that broke), and 1009 a frame that was read and never
\* handled; and after a clean end of Events() every event the backend
\* produced was written before the 1000.
CloseCodeIsJustified ==
  \A c \in Conns : closeFrame[c] # 0 =>
    /\ Earned(c, closeFrame[c])
    /\ first[c].kind = "nil" => Len(wire[c]) = Len(taken[c])

\* A peer that is still there when the shell ends the connection is told why,
\* with the one exception that closeAll's cancel() comes before its
\* connection.Close and cuts a Read or Write in progress: then the context had
\* ended, and either the read loop got nothing but the end of the context or of
\* the connection or the write loop was left with an event it could not write.
SilentCloseIsAnAbort ==
  \A c \in Conns :
    pc[c] \in {"drain", "exit", "done"} /\ http[c] = 101 /\ closeFrame[c] = 0 /\ peer[c] = 0 =>
      /\ c \in cancelled
      /\ \/ rpc[c] = "read" \/ rerr[c].kind \in {"canceled", "deadline", "connection"}
         \/ wpc[c] = "write"
         \/ /\ werr[c].kind \in {"canceled", "deadline", "connection"}
            /\ Len(wire[c]) < Len(taken[c])

\* The backend sees a prefix of the frames the peer sent, in order, without gap
\* or repetition, all of them inside the surface's client profile; and the
\* peer sees a prefix of what the backend produced, inside the server profile.
ProfileBoundary ==
  \A c \in Conns :
    /\ Len(handled[c]) <= nread[c]
    /\ \A i \in DOMAIN handled[c] :
         /\ handled[c][i].data = sent[c][i].data
         /\ eventAllowed(surface[c], "client", handled[c][i].type)
    /\ Len(wire[c]) <= Len(taken[c])
    /\ \A i \in DOMAIN wire[c] :
         /\ wire[c][i].type = taken[c][i].type
         /\ eventAllowed(surface[c], "server", wire[c][i].type)

\* The handler uses the session table only through register, unregister and
\* Shutdown, so all that WsRegistry promises holds of it.
ImplementsRegistry == RegSpec

\* What the two ends of a session see of the handler.
HasSession    == {c \in Conns : opened[c]}
IsOver        == {c \in Conns : pc[c] = "done"}
InHandle      == {c \in Conns : rpc[c] = "handle"}
DataOf(seqs)  == [c \in Conns |-> [i \in DOMAIN seqs[c] |-> seqs[c][i].data]]
TypesOf(seqs) == [c \in Conns |-> [i \in DOMAIN seqs[c] |-> seqs[c][i].type]]

Session == INSTANCE SessionContract WITH
  Inputs <- {f.data : f \in ClientFrames}, Outputs <- {e.type : e \in BackendEvents},
  opened <- HasSession, ended <- cancelled, gone <- IsOver, busy <- InHandle,
  given <- DataOf(sent), got <- DataOf(handled),
  made <- TypesOf(taken), shown <- TypesOf(wire)

\* Whatever fails first, the session and the peer see two channels that lose,
\* repeat and reorder nothing, one call of Handle at a time, one Close before
\* ServeHTTP returns, and no call of Handle with a live context beside it or
\* after it; no frame is taken and no document written for a request that is
\* over.
KeepsSessionContract == Session!SessionSpec

-----------------------------------------------------------------------------
(* The strengthening that makes the safety properties inductive: what each *)
(* phase of ServeHTTP knows.                                               *)

Setup   == {"start", "auth", "open", "abandon", "accept", "reject"}
Closing == {"closeSession", "closeConn", "drain", "exit", "done"}
Phases  == Setup \cup {"serve"} \cup Closing

PhaseTypes ==
  /\ pc \in [Conns -> Phases]
  /\ opened \in [Conns -> BOOLEAN]
  /\ closes \in [Conns -> Nat]
  /\ conn \in [Conns -> {"none", "open", "down"}]
  /\ rpc \in [Conns -> {"off", "read", "handle", "send", "ended"}]
  /\ wpc \in [Conns -> {"off", "select", "write", "send", "ended"}]

\* Between register and unregister the request is live in the table.
PhaseOfLife(c) ==
  /\ pc[c] = "start" <=> life[c] = "new"
  /\ pc[c] = "done" <=> life[c] \in {"refused", "gone"}

\* Who owes the session its Close.
PhaseOfSession(c) ==
  /\ pc[c] \in {"start", "auth", "open"} => ~opened[c]
  /\ pc[c] \in {"abandon", "accept", "reject", "serve", "closeSession", "closeConn", "drain"}
       => opened[c]
  /\ pc[c] \in Setup \cup {"serve", "closeSession"} => closes[c] = 0
  /\ pc[c] \in {"closeConn", "drain"} => closes[c] = 1
  /\ pc[c] \in {"exit", "done"} => closes[c] = (IF opened[c] THEN 1 ELSE 0)

\* When there is a connection, and loops, and when their context has ended.
PhaseOfConnection(c) ==
  /\ pc[c] \in Setup => conn[c] = "none" /\ rpc[c] = "off" /\ wpc[c] = "off"
  /\ pc[c] \in {"drain", "exit", "done"} => conn[c] # "open"
  /\ pc[c] \in Closing /\ rpc[c] # "off" => c \in cancelled

\* Each phase of ServeHTTP owes exactly what the code still has to undo: the
\* table entry, the session's Close, the connection and the two goroutines.
PhaseInv ==
  PhaseTypes /\ \A c \in Conns : PhaseOfLife(c) /\ PhaseOfSession(c) /\ PhaseOfConnection(c)

-----------------------------------------------------------------------------
\* After somebody has called Shutdown every ServeHTTP in progress returns, even
\* one whose session.Handle ignores its context and never comes back: the wait
\* for the second loop is bounded.
ShutdownDrains ==
  \A c \in Conns : (\E k \in Callers : spc[k] # "idle") ~> (pc[c] \in {"start", "done"})

\* Every Shutdown call returns, also without a deadline of its own: no close of
\* shutdownDone is missed.
ShutdownReturns ==
  \A k \in Callers : (spc[k] = "cancelling") ~> (spc[k] \in {"nil", "err"})

\* Neither loop goroutine outlives ServeHTTP for ever, the read loop with the
\* one excuse that session.Handle never comes back: the buffer of errorsChannel
\* takes the error nobody waits for.
NoGoroutineLeak ==
  \A c \in Conns :
    /\ (pc[c] = "done") ~> (wpc[c] \in {"off", "ended"})
    /\ \/ <>[](rpc[c] = "handle")
       \/ (pc[c] = "done") ~> (rpc[c] \in {"off", "ended"})

\* README: Shutdown "waits for [active sessions] to exit": once it has returned
\* nil no session is still busy with a client event.
NilMeansNoHandleRunning ==
  (\E k \in Callers : spc[k] = "nil") => \A c \in Conns : rpc[c] # "handle"
=============================================================================
