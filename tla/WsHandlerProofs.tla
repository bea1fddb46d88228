--------------------------- MODULE WsHandlerProofs --------------------------
(***************************************************************************)
(* Proofs about the WebSocket handler, for any requests, frames, events    *)
(* and Shutdown calls: it implements the session table, its sessions are   *)
(* closed as promised, and its two loops pass on what they should, end     *)
(* with the right error and have the peer told.                            *)
(***************************************************************************)
EXTENDS WsHandler, WsRegistryProofs, SequenceTheorems

-----------------------------------------------------------------------------
(* The handler touches the session table only through its operations.      *)

\* Every step of ServeHTTP is a step of the table or leaves it alone.
LEMMA ServeStepsTable ==
  ASSUME NEW c \in Conns, Enter(c) \/ ServeStep(c)
  PROVE  [RegNext]_regVars
<1>1. CASE Enter(c)
  BY <1>1 DEF Enter, RegNext
<1>2. CASE FirstError(c)
  BY <1>2 DEF FirstError, RegNext
<1>3. CASE Exit(c)
  BY <1>3 DEF Exit, RegNext
<1>4. CASE Authenticate(c) \/ OpenSession(c) \/ Abandon(c) \/ Accept(c) \/ Reject(c)
  BY <1>4 DEF Authenticate, OpenSession, Abandon, Accept, Reject
<1>5. CASE CloseSession(c) \/ CloseConn(c) \/ Drain(c)
  BY <1>5 DEF CloseSession, CloseConn, Drain
<1> QED
  BY <1>1, <1>2, <1>3, <1>4, <1>5 DEF ServeStep

\* So is every step of the loops, of the peer and of the backend.
LEMMA LoopStepsTable ==
  ASSUME NEW c \in Conns,
         \/ ReadStep(c) \/ HandleReturns(c) \/ WriteStep(c) \/ WriteTakes(c) \/ WriteEnds(c)
         \/ Abort(c) \/ PeerStep(c) \/ BackendClosesEvents(c) \/ RequestEnds(c)
  PROVE  [RegNext]_regVars
<1>1. CASE ReadStep(c) \/ HandleReturns(c)
  BY <1>1 DEF ReadStep, ReadFrame, ReadClose, ReadFails, ReadTooBig, ReadReturns, HandleReturns
<1>2. CASE WriteStep(c) \/ WriteTakes(c) \/ WriteEnds(c)
  BY <1>2 DEF WriteStep, WriteStops, WriteDone, WriteFails, WriteReturns, WriteTakes, WriteEnds
<1>3. CASE Abort(c) \/ PeerStep(c) \/ BackendClosesEvents(c)
  BY <1>3 DEF Abort, PeerStep, PeerSends, PeerLeaves, BackendClosesEvents
<1>4. CASE RequestEnds(c)
  BY <1>4 DEF RequestEnds, RegNext
<1> QED
  BY <1>1, <1>2, <1>3, <1>4

LEMMA NextTable == [Next]_vars => [RegNext]_regVars
<1> SUFFICES ASSUME [Next]_vars PROVE [RegNext]_regVars
  OBVIOUS
<1>1. ASSUME NEW k \in Callers, CallerStep(k) PROVE [RegNext]_regVars
  BY <1>1 DEF CallerStep, RegNext
<1>2. CASE UNCHANGED vars
  BY <1>2 DEF vars
<1> QED
  BY <1>1, <1>2, ServeStepsTable, LoopStepsTable DEF Next

\* The handler implements the session table, hence the contract of Shutdown.
THEOREM HandlerImplementsRegistry == Spec => ImplementsRegistry
<1>1. Init => RegInit
  BY DEF Init
<1> QED
  BY <1>1, NextTable, PTL DEF Spec, RegSpec, ImplementsRegistry

-----------------------------------------------------------------------------
(* What each phase of ServeHTTP owes.                                      *)

PhaseOK(c) == PhaseOfLife(c) /\ PhaseOfSession(c) /\ PhaseOfConnection(c)

\* Nothing has been opened before a request enters.
LEMMA PhaseInit == Init => PhaseInv
<1> SUFFICES ASSUME Init PROVE PhaseInv
  OBVIOUS
<1>1. PhaseTypes
  BY DEF Init, PhaseTypes, Phases, Setup
<1>2. ASSUME NEW c \in Conns
      PROVE PhaseOfLife(c) /\ PhaseOfSession(c) /\ PhaseOfConnection(c)
  BY DEF Init, RegInit, PhaseOfLife, PhaseOfSession, PhaseOfConnection, Setup, Closing
<1> QED
  BY <1>1, <1>2 DEF PhaseInv

\* A step of one request leaves the others' phases alone, and cancelling more
\* contexts does no harm.
LEMMA PhaseFrame ==
  ASSUME NEW d \in Conns, PhaseOK(d),
         pc'[d] = pc[d], life'[d] = life[d], opened'[d] = opened[d],
         closes'[d] = closes[d], conn'[d] = conn[d], rpc'[d] = rpc[d], wpc'[d] = wpc[d],
         cancelled \subseteq cancelled'
  PROVE  PhaseOK(d)'
  BY DEF PhaseOK, PhaseOfLife, PhaseOfSession, PhaseOfConnection

\* The steps of ServeHTTP up to the upgrade.
LEMMA SetupPhase ==
  ASSUME RegTypeOK, PhaseInv, NEW c \in Conns,
         Enter(c) \/ Authenticate(c) \/ OpenSession(c) \/ Abandon(c) \/ Accept(c) \/ Reject(c)
  PROVE  PhaseInv'
<1> USE DEF PhaseTypes, Phases, Setup, Closing
<1>0. PhaseTypes /\ (\A d \in Conns : PhaseOK(d))
  BY DEF PhaseInv, PhaseOK
<1>1. CASE Enter(c)
  <2> USE DEF Enter, Goto, sessVars, connVars, loopVars, readVars, writeVars
  <2>1. PhaseTypes'
    BY <1>0, <1>1
  <2>2. PhaseOK(c)'
    BY <1>0, <1>1 DEF PhaseOK, PhaseOfLife, PhaseOfSession, PhaseOfConnection,
       Register, RegisterUnderKey, Refuse, Cancel, RegTypeOK
  <2>3. ASSUME NEW d \in Conns, d # c PROVE PhaseOK(d)'
    BY <1>0, <1>1, <2>3, PhaseFrame
       DEF Register, RegisterUnderKey, Refuse, Cancel, RegTypeOK
  <2> QED BY <2>1, <2>2, <2>3 DEF PhaseInv, PhaseOK
<1>2. CASE Authenticate(c)
  <2> USE DEF Authenticate, Goto, sessVars, connVars, loopVars, readVars, writeVars, regVars
  <2>1. PhaseTypes'
    BY <1>0, <1>2
  <2>2. PhaseOK(c)'
    BY <1>0, <1>2 DEF PhaseOK, PhaseOfLife, PhaseOfSession, PhaseOfConnection
  <2>3. ASSUME NEW d \in Conns, d # c PROVE PhaseOK(d)'
    BY <1>0, <1>2, <2>3, PhaseFrame
  <2> QED BY <2>1, <2>2, <2>3 DEF PhaseInv, PhaseOK
<1>3. CASE OpenSession(c)
  <2> USE DEF OpenSession, Goto, connVars, loopVars, readVars, writeVars, regVars
  <2>1. PhaseTypes'
    BY <1>0, <1>3
  <2>2. PhaseOK(c)'
    BY <1>0, <1>3 DEF PhaseOK, PhaseOfLife, PhaseOfSession, PhaseOfConnection
  <2>3. ASSUME NEW d \in Conns, d # c PROVE PhaseOK(d)'
    BY <1>0, <1>3, <2>3, PhaseFrame
  <2> QED BY <2>1, <2>2, <2>3 DEF PhaseInv, PhaseOK
<1>4. CASE Abandon(c) \/ Reject(c)
  <2> USE DEF Abandon, Reject, Goto, closeSession, connVars, loopVars, readVars,
              writeVars, regVars
  <2>1. PhaseTypes'
    BY <1>0, <1>4
  <2>2. PhaseOK(c)'
    BY <1>0, <1>4 DEF PhaseOK, PhaseOfLife, PhaseOfSession, PhaseOfConnection
  <2>3. ASSUME NEW d \in Conns, d # c PROVE PhaseOK(d)'
    BY <1>0, <1>4, <2>3, PhaseFrame
  <2> QED BY <2>1, <2>2, <2>3 DEF PhaseInv, PhaseOK
<1>5. CASE Accept(c)
  <2> USE DEF Accept, Goto, sessVars, regVars
  <2>1. PhaseTypes'
    BY <1>0, <1>5
  <2>2. PhaseOK(c)'
    BY <1>0, <1>5 DEF PhaseOK, PhaseOfLife, PhaseOfSession, PhaseOfConnection
  <2>3. ASSUME NEW d \in Conns, d # c PROVE PhaseOK(d)'
    BY <1>0, <1>5, <2>3, PhaseFrame
  <2> QED BY <2>1, <2>2, <2>3 DEF PhaseInv, PhaseOK
<1> QED
  BY <1>1, <1>2, <1>3, <1>4, <1>5

\* The steps of ServeHTTP from the first error to unregister.
LEMMA ClosingPhase ==
  ASSUME RegTypeOK, PhaseInv, NEW c \in Conns,
         FirstError(c) \/ CloseSession(c) \/ CloseConn(c) \/ Drain(c) \/ Exit(c)
  PROVE  PhaseInv'
<1> USE DEF PhaseTypes, Phases, Setup, Closing
<1>0. PhaseTypes /\ (\A d \in Conns : PhaseOK(d))
  BY DEF PhaseInv, PhaseOK
<1>1. CASE FirstError(c)
  <2> USE DEF FirstError, Goto, CancelLive, Cancel, sessVars, connVars, readVars, writeVars
  <2>1. PhaseTypes'
    BY <1>0, <1>1
  <2>2. PhaseOK(c)'
    BY <1>0, <1>1 DEF PhaseOK, PhaseOfLife, PhaseOfSession, PhaseOfConnection
  <2>3. ASSUME NEW d \in Conns, d # c PROVE PhaseOK(d)'
    BY <1>0, <1>1, <2>3, PhaseFrame
  <2> QED BY <2>1, <2>2, <2>3 DEF PhaseInv, PhaseOK
<1>2. CASE CloseSession(c)
  <2> USE DEF CloseSession, Goto, closeSession, connVars, loopVars, readVars, writeVars, regVars
  <2>1. PhaseTypes'
    BY <1>0, <1>2
  <2>2. PhaseOK(c)'
    BY <1>0, <1>2 DEF PhaseOK, PhaseOfLife, PhaseOfSession, PhaseOfConnection
  <2>3. ASSUME NEW d \in Conns, d # c PROVE PhaseOK(d)'
    BY <1>0, <1>2, <2>3, PhaseFrame
  <2> QED BY <2>1, <2>2, <2>3 DEF PhaseInv, PhaseOK
<1>3. CASE CloseConn(c)
  <2> USE DEF CloseConn, Goto, sessVars, loopVars, readVars, writeVars, regVars
  <2>1. PhaseTypes'
    BY <1>0, <1>3
  <2>2. PhaseOK(c)'
    BY <1>0, <1>3 DEF PhaseOK, PhaseOfLife, PhaseOfSession, PhaseOfConnection
  <2>3. ASSUME NEW d \in Conns, d # c PROVE PhaseOK(d)'
    BY <1>0, <1>3, <2>3, PhaseFrame
  <2> QED BY <2>1, <2>2, <2>3 DEF PhaseInv, PhaseOK
<1>4. CASE Drain(c)
  <2> USE DEF Drain, Goto, sessVars, connVars, readVars, writeVars, regVars
  <2>1. PhaseTypes'
    BY <1>0, <1>4
  <2>2. PhaseOK(c)'
    BY <1>0, <1>4 DEF PhaseOK, PhaseOfLife, PhaseOfSession, PhaseOfConnection
  <2>3. ASSUME NEW d \in Conns, d # c PROVE PhaseOK(d)'
    BY <1>0, <1>4, <2>3, PhaseFrame
  <2> QED BY <2>1, <2>2, <2>3 DEF PhaseInv, PhaseOK
<1>5. CASE Exit(c)
  <2> USE DEF Exit, Goto, Unregister, UnregisterClosingIf, Cancel,
              sessVars, connVars, loopVars, readVars, writeVars
  <2>1. PhaseTypes'
    BY <1>0, <1>5
  <2>2. PhaseOK(c)'
    BY <1>0, <1>5 DEF PhaseOK, PhaseOfLife, PhaseOfSession, PhaseOfConnection, RegTypeOK
  <2>3. ASSUME NEW d \in Conns, d # c PROVE PhaseOK(d)'
    BY <1>0, <1>5, <2>3, PhaseFrame DEF RegTypeOK
  <2> QED BY <2>1, <2>2, <2>3 DEF PhaseInv, PhaseOK
<1> QED
  BY <1>1, <1>2, <1>3, <1>4, <1>5

\* A step that only moves loops which are already running, or brings down a
\* connection which is up, keeps every phase's promises.
LEMMA PhaseOfLoops ==
  ASSUME PhaseInv, NEW c \in Conns, PhaseTypes',
         UNCHANGED <<pc, life, opened, closes>>, cancelled \subseteq cancelled',
         \A d \in Conns : d # c => conn'[d] = conn[d] /\ rpc'[d] = rpc[d] /\ wpc'[d] = wpc[d],
         \/ conn'[c] = conn[c]
         \/ conn[c] # "none" /\ conn'[c] = "down"
         \/ (rpc[c] # "off" \/ wpc[c] # "off") /\ conn'[c] = "down",
         rpc'[c] = rpc[c] \/ (rpc[c] # "off" /\ rpc'[c] # "off"),
         wpc'[c] = wpc[c] \/ (wpc[c] # "off" /\ wpc'[c] # "off")
  PROVE  PhaseInv'
<1>0. \A d \in Conns : PhaseOK(d)
  BY DEF PhaseInv, PhaseOK
<1>1. PhaseOK(c)'
  BY <1>0 DEF PhaseOK, PhaseOfLife, PhaseOfSession, PhaseOfConnection
<1>2. ASSUME NEW d \in Conns, d # c PROVE PhaseOK(d)'
  BY <1>0, <1>2, PhaseFrame
<1> QED
  BY <1>1, <1>2 DEF PhaseInv, PhaseOK

\* The read loop.
LEMMA ReadPhase ==
  ASSUME PhaseInv, NEW c \in Conns, ReadStep(c) \/ HandleReturns(c)
  PROVE  PhaseInv'
<1> USE DEF PhaseInv, PhaseTypes
<1>1. CASE ReadFrame(c)
  <2>1. \E at \in {"handle", "send"} : rpc' = [rpc EXCEPT ![c] = at]
    BY <1>1 DEF ReadFrame
  <2>2. /\ UNCHANGED <<pc, life, opened, closes, conn, wpc, cancelled>>
        /\ rpc[c] = "read"
    BY <1>1 DEF ReadFrame, setupVars, sessVars, connVars, writeVars, regVars
  <2> QED
    BY <2>1, <2>2, PhaseOfLoops
<1>2. CASE ReadFails(c)
  BY <1>2, PhaseOfLoops DEF ReadFails, setupVars, sessVars, writeVars, regVars
<1>3. CASE ReadReturns(c)
  BY <1>3, PhaseOfLoops DEF ReadReturns, setupVars, sessVars, connVars, writeVars, regVars
<1>4. CASE HandleReturns(c)
  BY <1>4, PhaseOfLoops DEF HandleReturns, setupVars, sessVars, connVars, writeVars, regVars
<1>5. CASE ReadTooBig(c)
  BY <1>5, PhaseOfLoops DEF ReadTooBig, setupVars, sessVars, writeVars, regVars
<1>6. CASE ReadClose(c)
  BY <1>6, PhaseOfLoops DEF ReadClose, setupVars, sessVars, writeVars, regVars
<1> QED
  BY <1>1, <1>2, <1>3, <1>4, <1>5, <1>6 DEF ReadStep

\* The write loop.
LEMMA WritePhase ==
  ASSUME PhaseInv, NEW c \in Conns, WriteStep(c) \/ WriteTakes(c) \/ WriteEnds(c)
  PROVE  PhaseInv'
<1> USE DEF PhaseInv, PhaseTypes, WriteLoopEnds
<1>1. CASE WriteStops(c) \/ WriteEnds(c)
  BY <1>1, PhaseOfLoops DEF WriteStops, WriteEnds, setupVars, sessVars, connVars,
     readVars, regVars
<1>2. CASE WriteTakes(c)
  <2>1. \E at \in {"write", "send"} : wpc' = [wpc EXCEPT ![c] = at]
    BY <1>2 DEF WriteTakes
  <2>2. /\ UNCHANGED <<pc, life, opened, closes, conn, rpc, cancelled>>
        /\ wpc[c] = "select"
    BY <1>2 DEF WriteTakes, setupVars, sessVars, connVars, readVars, regVars
  <2> QED
    BY <2>1, <2>2, PhaseOfLoops
<1>3. CASE WriteDone(c)
  BY <1>3, PhaseOfLoops DEF WriteDone, setupVars, sessVars, connVars, readVars, regVars
<1>4. CASE WriteFails(c)
  BY <1>4, PhaseOfLoops DEF WriteFails, setupVars, sessVars, readVars, regVars
<1>5. CASE WriteReturns(c)
  BY <1>5, PhaseOfLoops DEF WriteReturns, setupVars, sessVars, connVars, readVars, regVars
<1> QED
  BY <1>1, <1>2, <1>3, <1>4, <1>5 DEF WriteStep

\* The library, the peer, the backend and the request context.
LEMMA EnvironmentPhase ==
  ASSUME PhaseInv, NEW c \in Conns,
         Abort(c) \/ PeerStep(c) \/ BackendClosesEvents(c) \/ RequestEnds(c)
  PROVE  PhaseInv'
<1> USE DEF PhaseInv, PhaseTypes
<1>1. CASE Abort(c)
  BY <1>1, PhaseOfLoops DEF Abort, setupVars, sessVars, loopVars, readVars, writeVars, regVars
<1>2. CASE PeerStep(c)
  BY <1>2, PhaseOfLoops DEF PeerStep, PeerSends, PeerLeaves, setupVars, sessVars, connVars,
     loopVars, readVars, writeVars, regVars
<1>3. CASE BackendClosesEvents(c)
  BY <1>3, PhaseOfLoops DEF BackendClosesEvents, setupVars, connVars, loopVars, readVars,
     writeVars, regVars
<1>4. CASE RequestEnds(c)
  BY <1>4, PhaseOfLoops DEF RequestEnds, CancelLive, Cancel, connectionVars, setupVars,
     sessVars, connVars, loopVars, readVars, writeVars
<1> QED
  BY <1>1, <1>2, <1>3, <1>4

\* Shutdown only cancels.
LEMMA CallerPhase ==
  ASSUME PhaseInv, (\E k \in Callers : CallerStep(k)) \/ UNCHANGED vars
  PROVE  PhaseInv'
<1>1. UNCHANGED <<pc, life, opened, closes, conn, rpc, wpc>> /\ cancelled \subseteq cancelled'
  <2>1. CASE UNCHANGED vars
    BY <2>1 DEF vars, regVars, connectionVars, setupVars, sessVars, connVars, loopVars,
       readVars, writeVars
  <2>2. ASSUME NEW k \in Callers, CallerStep(k)
        PROVE UNCHANGED <<pc, life, opened, closes, conn, rpc, wpc>>
              /\ cancelled \subseteq cancelled'
    <3>1. UNCHANGED <<pc, opened, closes, conn, rpc, wpc>>
      BY <2>2 DEF CallerStep, connectionVars, setupVars, sessVars, connVars, loopVars,
         readVars, writeVars
    <3>2. life' = life /\ cancelled \subseteq cancelled'
      BY <2>2 DEF CallerStep, ShutdownStep, BeginShutdown, BeginShutdownCollecting,
         CallCancel, Cancel, ReturnDone, ReturnExpired, ReturnExpiredEarly, Expire
    <3> QED BY <3>1, <3>2
  <2> QED BY <2>1, <2>2
<1>2. PhaseTypes'
  BY <1>1 DEF PhaseInv, PhaseTypes
<1>3. ASSUME NEW d \in Conns PROVE PhaseOK(d)'
  BY <1>1, PhaseFrame DEF PhaseInv, PhaseOK
<1> QED
  BY <1>2, <1>3 DEF PhaseInv, PhaseOK

LEMMA PhaseStep == RegTypeOK /\ PhaseInv /\ [Next]_vars => PhaseInv'
<1> SUFFICES ASSUME RegTypeOK, PhaseInv, [Next]_vars PROVE PhaseInv'
  OBVIOUS
<1> QED
  BY SetupPhase, ClosingPhase, ReadPhase, WritePhase, EnvironmentPhase, CallerPhase
     DEF Next, ServeStep

\* Every phase of ServeHTTP owes exactly what the code still has to undo.
THEOREM PhaseInvHolds == Spec => []PhaseInv
<1>1. Spec => []RegTypeOK
  BY HandlerImplementsRegistry, TypeCorrect, PTL DEF ImplementsRegistry
<1> QED
  BY <1>1, PhaseInit, PhaseStep, PTL DEF Spec

-----------------------------------------------------------------------------
\* An opened session is closed exactly once, whatever path ServeHTTP takes.
THEOREM SessionClosedOnceHolds == Spec => []SessionClosedOnce
<1>1. PhaseInv => SessionClosedOnce
  <2> SUFFICES ASSUME PhaseInv, NEW c \in Conns
               PROVE /\ closes[c] <= 1
                     /\ pc[c] = "done" => closes[c] = (IF opened[c] THEN 1 ELSE 0)
    BY DEF SessionClosedOnce
  <2> QED
    BY DEF PhaseInv, PhaseTypes, PhaseOfSession, Phases, Setup, Closing
<1> QED
  BY <1>1, PhaseInvHolds, PTL

\* A Handle that overlaps Close runs under a cancelled context.
THEOREM HandleDuringCloseHolds == Spec => []HandleDuringCloseIsCancelled
<1>1. PhaseInv => HandleDuringCloseIsCancelled
  <2> SUFFICES ASSUME PhaseInv, NEW c \in Conns, rpc[c] = "handle", closes[c] > 0
               PROVE c \in cancelled
    BY DEF HandleDuringCloseIsCancelled
  <2>1. pc[c] \in Closing
    BY DEF PhaseInv, PhaseTypes, PhaseOfSession, Phases, Setup, Closing
  <2> QED
    BY <2>1 DEF PhaseInv, PhaseOfConnection
<1> QED
  BY <1>1, PhaseInvHolds, PTL

\* A nil from Shutdown finds every handler returned, every session closed and
\* no connection up.
THEOREM ShutdownIsQuiescentHolds == Spec => []ShutdownIsQuiescent
<1>1. RegTypeOK /\ PhaseInv /\ NilMeansQuiescent => ShutdownIsQuiescent
  <2> SUFFICES ASSUME RegTypeOK, PhaseInv, Live = {}, NEW c \in Conns
               PROVE /\ pc[c] \in {"start", "done"}
                     /\ conn[c] # "open"
                     /\ opened[c] => closes[c] = 1
    BY DEF ShutdownIsQuiescent, NilMeansQuiescent
  <2>1. life[c] \in {"new", "refused", "gone"}
    BY DEF RegTypeOK, Live
  <2>2. pc[c] \in {"start", "done"}
    BY <2>1 DEF PhaseInv, PhaseOfLife
  <2>3. conn[c] # "open"
    BY <2>2 DEF PhaseInv, PhaseOfConnection, Setup
  <2>4. opened[c] => closes[c] = 1
    BY <2>2 DEF PhaseInv, PhaseOfSession
  <2> QED BY <2>2, <2>3, <2>4
<1>2. Spec => []RegTypeOK
  BY HandlerImplementsRegistry, TypeCorrect, PTL DEF ImplementsRegistry
<1>3. Spec => []NilMeansQuiescent
  BY HandlerImplementsRegistry, NilMeansQuiescentHolds, PTL DEF ImplementsRegistry
<1> QED
  BY <1>1, <1>2, <1>3, PhaseInvHolds, PTL

-----------------------------------------------------------------------------
(* What each part of a connection knows.                                   *)

\* The read loop has handed over all it has read, in order, but for the one
\* frame it may have ended on.
Reader(c) ==
  /\ \A i \in 1..Len(handled[c]) :
       /\ receive(surface[c], sent[c][i]).result = "ok"
       /\ handled[c][i] = receive(surface[c], sent[c][i]).value
  /\ Len(handled[c]) <= nread[c]
  /\ rpc[c] \in {"off", "read", "handle"} => nread[c] = Len(handled[c]) /\ rerr[c] = NoError
  /\ rpc[c] = "handle" => handled[c] # <<>>
  /\ rpc[c] \in {"send", "ended"} =>
       rerr[c].kind \in {"canceled", "deadline", "protocol", "connection", "other", "peer"}
  /\ rerr[c].kind = "protocol" =>
       \E i \in 1..nread[c] : receive(surface[c], sent[c][i]).result = "protocol"

\* The write loop has written all it has taken, in order, but for the one event
\* it may be writing or have ended on.
Writer(c) ==
  /\ \A i \in 1..Len(wire[c]) :
       /\ transmit(surface[c], taken[c][i]).result = "ok"
       /\ wire[c][i] = transmit(surface[c], taken[c][i]).value
  /\ Len(wire[c]) <= Len(taken[c])
  /\ wpc[c] \in {"off", "select"} => Len(wire[c]) = Len(taken[c])
  /\ wpc[c] = "write" => /\ Len(taken[c]) = Len(wire[c]) + 1
                         /\ transmit(surface[c], taken[c][Len(taken[c])]).result = "ok"
  /\ wpc[c] \in {"off", "select", "write"} => werr[c] = NoError
  /\ wpc[c] \in {"send", "ended"} =>
       werr[c].kind \in {"nil", "canceled", "deadline", "protocol", "connection"}
  /\ werr[c].kind = "nil" => Len(wire[c]) = Len(taken[c])
  /\ werr[c].kind = "protocol" =>
       \E i \in 1..Len(taken[c]) : transmit(surface[c], taken[c][i]).result = "protocol"

\* An error in the channel, or received from it, is that of a loop that ended.
FromLoop(c, err) ==
  \/ rpc[c] = "ended" /\ err = rerr[c]
  \/ wpc[c] = "ended" /\ err = werr[c]
Channel(c) ==
  /\ \A i \in 1..Len(errs[c]) : FromLoop(c, errs[c][i])
  /\ first[c] # NoError => FromLoop(c, first[c])
  /\ pc[c] \in Setup \cup {"serve"} => first[c] = NoError
  /\ pc[c] \in {"closeSession", "closeConn"} => first[c] # NoError

\* A connection that is up has sent no close frame, and the errors its loops
\* have seen are not its own.
Upright(c) ==
  /\ conn[c] # "down" => closeFrame[c] = 0
  /\ http[c] = 101 \/ pc[c] \in {"serve", "closeSession", "closeConn"} => conn[c] # "none"
  /\ conn[c] = "open" => /\ rerr[c].kind \in {"peer", "other"} => handled[c] # <<>>
                         /\ rerr[c].kind # "connection" /\ werr[c].kind # "connection"

\* A loop that reports the end of the context tells a deadline from a
\* cancellation, which a Handle may report for reasons of its own.
Clocked(c) ==
  /\ rerr[c].kind = "deadline" \/ werr[c].kind = "deadline" => c \in timedOut
  /\ rerr[c].kind = "canceled" => handled[c] # <<>> \/ c \in cancelled \ timedOut
  /\ werr[c].kind = "canceled" => c \in cancelled \ timedOut

Justified(c) == closeFrame[c] # 0 => Earned(c, closeFrame[c])

\* A connection that is down without a close frame of either end was cut by the
\* end of its context, in the middle of a Read or a Write.
Cut(c) ==
  /\ c \in cancelled
  /\ \/ rpc[c] = "read" \/ rerr[c].kind \in {"canceled", "deadline", "connection"}
     \/ wpc[c] = "write"
     \/ /\ werr[c].kind \in {"canceled", "deadline", "connection"}
        /\ Len(wire[c]) < Len(taken[c])
Silent(c) == conn[c] = "down" /\ closeFrame[c] = 0 /\ peer[c] = 0 => Cut(c)

Ending(c) == Upright(c) /\ Clocked(c) /\ Justified(c) /\ Silent(c)

LoopInv ==
  /\ TypeOK
  /\ \A c \in Conns : Reader(c) /\ Writer(c) /\ Channel(c) /\ Ending(c)

-----------------------------------------------------------------------------
(* The codec and the close codes.                                          *)

\* What readLoop hands to session.Handle is the frame's document, inside the
\* client profile.
LEMMA ReceiveIs ==
  ASSUME NEW s \in Surfaces, NEW f
  PROVE  /\ receive(s, f).result \in {"ok", "protocol"}
         /\ receive(s, f).result = "ok" =>
              /\ receive(s, f).value.data = f.data
              /\ eventAllowed(s, "client", receive(s, f).value.type)
<1> DEFINE value == [type |-> f.data.type, id |-> StringField(f.data.id), data |-> f.data]
<1>1. decodeEvent(f.data) = ProtocolFailure \/ decodeEvent(f.data) = Converted(value)
  BY DEF decodeEvent
<1>2. ProtocolFailure.result = "protocol" /\ Converted(value).result = "ok"
      /\ Converted(value).value = value /\ value.data = f.data
  BY DEF ProtocolFailure, Converted
<1> HIDE DEF value
<1>3. \/ receive(s, f) = ProtocolFailure
      \/ /\ receive(s, f) = Converted(value)
         /\ eventAllowed(s, "client", value.type)
  BY <1>1, <1>2 DEF receive
<1> QED
  BY <1>2, <1>3

\* What writeLoop writes has the event's type, inside the server profile.
LEMMA TransmitIs ==
  ASSUME NEW s \in Surfaces, NEW e, transmit(s, e).result = "ok"
  PROVE  /\ transmit(s, e).value.type = e.type
         /\ eventAllowed(s, "server", transmit(s, e).value.type)
<1>1. ProtocolFailure.result # "ok" /\ Panic.result # "ok"
  BY DEF ProtocolFailure, Panic
<1>2. eventAllowed(s, "server", e.type) /\ transmit(s, e) = encodeEvent(e)
  BY <1>1 DEF transmit
<1>3. \E id, extra : encodeEvent(e) = Converted(Document("object", e.type, id, extra))
  BY <1>1, <1>2 DEF encodeEvent
<1>4. encodeEvent(e).value.type = e.type
  BY <1>3 DEF Converted, Document
<1> QED
  BY <1>2, <1>4

\* A session that keeps to HandlerAssumption never makes encodeEvent panic.
LEMMA TransmitResult ==
  ASSUME NEW s \in Surfaces, NEW e \in BackendEvents
  PROVE  transmit(s, e).result \in {"ok", "protocol"}
<1>1. transmit(s, e).result # "panic"
  BY HandlerAssumption
<1>2. transmit(s, e) \in {ProtocolFailure, Panic} \/ \E v : transmit(s, e) = Converted(v)
  BY DEF transmit, encodeEvent
<1> QED
  BY <1>1, <1>2 DEF ProtocolFailure, Panic, Converted

LEMMA CodecTypes ==
  ASSUME NEW s \in Surfaces
  PROVE  /\ \A f \in ClientFrames : receive(s, f).result = "ok" => receive(s, f).value \in Deliveries
         /\ \A e \in BackendEvents :
              transmit(s, e).result = "ok" => transmit(s, e).value \in Transmissions
<1>1. ASSUME NEW f \in ClientFrames, receive(s, f).result = "ok"
      PROVE receive(s, f).value \in Deliveries
  BY <1>1 DEF Deliveries
<1>2. ASSUME NEW e \in BackendEvents, transmit(s, e).result = "ok"
      PROVE transmit(s, e).value \in Transmissions
  BY <1>2 DEF Transmissions
<1> QED
  BY <1>1, <1>2

LEMMA ErrorTypes ==
  /\ \A kind \in {"none", "nil", "canceled", "deadline", "protocol", "connection", "other"} :
       LoopError(kind) \in LoopErrors /\ LoopError(kind).kind = kind
  /\ \A code \in PeerCodes : PeerClosed(code) \in LoopErrors /\ PeerClosed(code).kind = "peer"
  /\ \A err \in LoopErrors :
       /\ err.kind \in {"none", "nil", "canceled", "deadline", "protocol", "connection", "other",
                        "peer"}
       /\ err.kind = "none" => err = NoError
       /\ err.kind = "peer" => err.code \in PeerCodes /\ err = PeerClosed(err.code)
  BY DEF LoopError, PeerClosed, LoopErrors, NoError

\* What ctx.Err() is once the context has ended.
LEMMA CtxErrIs ==
  ASSUME NEW c \in Conns
  PROVE  /\ CtxErr(c) \in LoopErrors
         /\ CtxErr(c).kind = IF c \in timedOut THEN "deadline" ELSE "canceled"
  BY ErrorTypes DEF CtxErr

\* Every error but nil, a cancellation and the peer's own close gives a code of
\* the shell's; no code is 0.
LEMMA CloseReasonIs ==
  ASSUME NEW err \in LoopErrors
  PROVE  /\ closeReason(err) \in Nat \ {0}
         /\ err.kind \in {"nil", "canceled"} => closeReason(err) = StatusNormalClosure
         /\ err.kind = "protocol" => closeReason(err) = StatusPolicyViolation
         /\ err.kind = "peer" => closeReason(err) = err.code
         /\ err.kind \in {"deadline", "connection", "other"} =>
              closeReason(err) = StatusInternalError
<1>1. err.kind = "peer" => err.code \in Nat \ {0}
  BY ErrorTypes, HandlerAssumption
<1> QED
  BY <1>1 DEF closeReason, StatusNormalClosure, StatusPolicyViolation, StatusInternalError

-----------------------------------------------------------------------------
(* Type correctness.                                                       *)

ServeTypes ==
  /\ surface \in [Conns -> Surfaces]
  /\ pc \in [Conns -> Phases]
  /\ http \in [Conns -> {0, 101, 401, 403, 500, 501, 503}]
  /\ opened \in [Conns -> BOOLEAN]
  /\ closes \in [Conns -> Nat]
  /\ evClosed \in [Conns -> BOOLEAN]
  /\ conn \in [Conns -> {"none", "open", "down"}]
  /\ closeFrame \in [Conns -> Nat]
  /\ peer \in [Conns -> {0, StatusAbnormalClosure} \cup PeerCodes]
  /\ timedOut \subseteq Conns

ErrorVarTypes ==
  /\ first \in [Conns -> LoopErrors]
  /\ errs \in [Conns -> Seq(LoopErrors)] /\ \A c \in Conns : Len(errs[c]) <= 2
  /\ rpc \in [Conns -> {"off", "read", "handle", "send", "ended"}]
  /\ wpc \in [Conns -> {"off", "select", "write", "send", "ended"}]
  /\ rerr \in [Conns -> LoopErrors]
  /\ werr \in [Conns -> LoopErrors]

DataTypes ==
  /\ sent \in [Conns -> Seq(ClientFrames)] /\ handled \in [Conns -> Seq(Deliveries)]
  /\ taken \in [Conns -> Seq(BackendEvents)] /\ wire \in [Conns -> Seq(Transmissions)]
  /\ nread \in [Conns -> Nat] /\ \A c \in Conns : nread[c] <= Len(sent[c])

LEMMA TypeParts == TypeOK <=> RegTypeOK /\ ServeTypes /\ ErrorVarTypes /\ DataTypes
  BY DEF TypeOK, ServeTypes, ErrorVarTypes, DataTypes, Phases, Setup, Closing

\* ServeHTTP's own variables.
LEMMA ServeTypesStep ==
  ASSUME ServeTypes, ErrorVarTypes, [Next]_vars
  PROVE  ServeTypes'
<1> USE DEF ServeTypes, Phases, Setup, Closing
<1>1. ASSUME NEW c \in Conns,
             Enter(c) \/ Authenticate(c) \/ OpenSession(c) \/ Abandon(c) \/ Accept(c) \/ Reject(c)
      PROVE  ServeTypes'
  <2> USE DEF Goto, Answer, closeSession, sessVars, connVars
  <2>1. CASE Enter(c)
    BY <2>1 DEF Enter
  <2>2. CASE Authenticate(c)
    BY <2>2 DEF Authenticate
  <2>3. CASE OpenSession(c)
    <3>1. /\ \E at \in Phases : pc' = [pc EXCEPT ![c] = at]
          /\ http' = http \/ http' = [http EXCEPT ![c] = 500]
          /\ opened' = opened \/ opened' = [opened EXCEPT ![c] = TRUE]
          /\ UNCHANGED <<surface, closes, evClosed, connVars>>
      BY <2>3 DEF OpenSession
    <3>2. opened' \in [Conns -> BOOLEAN]
      <4>1. opened \in [Conns -> BOOLEAN]
        BY DEF ServeTypes
      <4>2. opened' = opened \/ opened' = [opened EXCEPT ![c] = TRUE]
        BY <3>1
      <4> QED
        BY ONLY <4>1, <4>2, Zenon
    <3>3. /\ pc' \in [Conns -> Phases]
          /\ http' \in [Conns -> {0, 101, 401, 403, 500, 501, 503}]
      BY <3>1
    <3> QED
      BY <3>1, <3>2, <3>3
  <2>4. CASE Abandon(c) \/ Reject(c)
    BY <2>4 DEF Abandon, Reject
  <2>5. CASE Accept(c)
    <3>1. /\ \E at \in {"reject", "serve"} : pc' = [pc EXCEPT ![c] = at]
          /\ \E status \in {403, 101} : http' = [http EXCEPT ![c] = status]
          /\ conn' = conn \/ conn' = [conn EXCEPT ![c] = "open"]
          /\ UNCHANGED <<surface, opened, closes, evClosed, closeFrame, peer, timedOut>>
      BY <2>5 DEF Accept
    <3> QED
      BY <3>1
  <2> QED
    BY <1>1, <2>1, <2>2, <2>3, <2>4, <2>5
<1>2. ASSUME NEW c \in Conns,
             FirstError(c) \/ CloseSession(c) \/ CloseConn(c) \/ Drain(c) \/ Exit(c)
      PROVE  ServeTypes'
  <2> USE DEF Goto, closeSession, sessVars, connVars
  <2>1. CASE FirstError(c) \/ Drain(c) \/ Exit(c)
    <3>1. /\ \E at \in Phases : pc' = [pc EXCEPT ![c] = at]
          /\ UNCHANGED <<surface, http, sessVars, connVars>>
      BY <2>1 DEF FirstError, Drain, Exit
    <3> QED
      BY <3>1
  <2>2. CASE CloseSession(c)
    BY <2>2 DEF CloseSession
  <2>3. CASE CloseConn(c)
    <3>1. closeReason(first[c]) \in Nat
      BY CloseReasonIs DEF ErrorVarTypes
    <3> QED
      BY <2>3, <3>1 DEF CloseConn
  <2> QED
    BY <1>2, <2>1, <2>2, <2>3
<1>3. ASSUME NEW c \in Conns, ReadStep(c) \/ HandleReturns(c)
      PROVE  ServeTypes'
  <2>1. CASE ReadFrame(c) \/ ReadReturns(c) \/ HandleReturns(c)
    <3>1. UNCHANGED <<setupVars, sessVars, connVars>>
      BY <2>1 DEF ReadFrame, ReadReturns, HandleReturns
    <3> QED
      BY <3>1 DEF setupVars, sessVars, connVars
  <2>2. CASE ReadFails(c)
    BY <2>2 DEF ReadFails, setupVars, sessVars
  <2>3. CASE ReadTooBig(c)
    BY <2>3 DEF ReadTooBig, setupVars, sessVars, StatusMessageTooBig
  <2>4. CASE ReadClose(c)
    <3>1. peer[c] \in Nat
      BY <2>4, HandlerAssumption DEF ReadClose
    <3> QED
      BY <2>4, <3>1 DEF ReadClose, setupVars, sessVars
  <2> QED
    BY <1>3, <2>1, <2>2, <2>3, <2>4 DEF ReadStep
<1>4. ASSUME NEW c \in Conns, WriteStep(c) \/ WriteTakes(c) \/ WriteEnds(c)
      PROVE  ServeTypes'
  <2>1. CASE WriteStops(c) \/ WriteDone(c) \/ WriteReturns(c) \/ WriteTakes(c) \/ WriteEnds(c)
    <3>1. UNCHANGED <<setupVars, sessVars, connVars>>
      BY <2>1 DEF WriteStops, WriteDone, WriteReturns, WriteTakes, WriteEnds
    <3> QED
      BY <3>1 DEF setupVars, sessVars, connVars
  <2>2. CASE WriteFails(c)
    BY <2>2 DEF WriteFails, setupVars, sessVars
  <2> QED
    BY <1>4, <2>1, <2>2 DEF WriteStep
<1>5. ASSUME NEW c \in Conns, Abort(c) \/ PeerStep(c) \/ BackendClosesEvents(c) \/ RequestEnds(c)
      PROVE  ServeTypes'
  <2> USE DEF connectionVars, setupVars, sessVars, connVars
  <2>1. CASE Abort(c)
    BY <2>1 DEF Abort
  <2>2. CASE PeerSends(c)
    BY <2>2 DEF PeerSends
  <2>3. CASE PeerLeaves(c)
    BY <2>3 DEF PeerLeaves
  <2>4. CASE BackendClosesEvents(c)
    BY <2>4 DEF BackendClosesEvents
  <2>5. CASE RequestEnds(c)
    BY <2>5 DEF RequestEnds
  <2> QED
    BY <1>5, <2>1, <2>2, <2>3, <2>4, <2>5 DEF PeerStep
<1>6. ASSUME (\E k \in Callers : CallerStep(k)) \/ UNCHANGED vars
      PROVE  ServeTypes'
  BY <1>6 DEF CallerStep, vars, connectionVars, setupVars, sessVars, connVars
<1> QED
  BY <1>1, <1>2, <1>3, <1>4, <1>5, <1>6 DEF Next, ServeStep

\* The loops' errors and their channel, which never holds more than two.
LEMMA ErrorTypesStep ==
  ASSUME ServeTypes, ErrorVarTypes, [Next]_vars
  PROVE  ErrorVarTypes'
<1> USE DEF ErrorVarTypes
<1>1. ASSUME UNCHANGED loopVars
      PROVE  ErrorVarTypes'
  BY <1>1 DEF loopVars, chanVars, readVars, writeVars
<1>2. ASSUME NEW c \in Conns,
             \/ Enter(c) \/ Authenticate(c) \/ OpenSession(c) \/ Abandon(c) \/ Reject(c)
             \/ CloseSession(c) \/ CloseConn(c) \/ Exit(c)
      PROVE  UNCHANGED loopVars
  BY <1>2 DEF Enter, Authenticate, OpenSession, Abandon, Reject, CloseSession, CloseConn, Exit
<1>3. ASSUME NEW c \in Conns, Accept(c)
      PROVE  ErrorVarTypes'
  BY <1>3 DEF Accept, chanVars
<1>4. ASSUME NEW c \in Conns, FirstError(c) \/ Drain(c)
      PROVE  ErrorVarTypes'
  <2>1. errs[c] # <<>> => /\ Head(errs[c]) \in LoopErrors
                          /\ Tail(errs[c]) \in Seq(LoopErrors)
                          /\ Len(Tail(errs[c])) <= 2
    BY HeadTailProperties
  <2>2. CASE FirstError(c)
    BY <2>1, <2>2 DEF FirstError, readVars, writeVars
  <2>3. CASE Drain(c)
    BY <2>1, <2>3 DEF Drain, readVars, writeVars
  <2> QED
    BY <1>4, <2>2, <2>3
<1>5. ASSUME NEW c \in Conns, ReadStep(c) \/ HandleReturns(c)
      PROVE  ErrorVarTypes'
  <2> USE ErrorTypes DEF chanVars, writeVars
  <2>1. CASE ReadFrame(c)
    BY <2>1 DEF ReadFrame
  <2>2. CASE ReadClose(c) \/ ReadFails(c)
    <3>1. \E err \in LoopErrors : rerr' = [rerr EXCEPT ![c] = err]
      BY <2>2, CtxErrIs DEF ReadClose, ReadFails, ServeTypes
    <3> QED
      BY <2>2, <3>1 DEF ReadClose, ReadFails
  <2>3. CASE ReadTooBig(c)
    BY <2>3 DEF ReadTooBig
  <2>4. CASE ReadReturns(c)
    BY <2>4 DEF ReadReturns, CanSend
  <2>5. CASE HandleReturns(c)
    <3>1. /\ \E at \in {"read", "send"} : rpc' = [rpc EXCEPT ![c] = at]
          /\ rerr' = rerr \/ \E err \in LoopErrors : rerr' = [rerr EXCEPT ![c] = err]
          /\ UNCHANGED <<chanVars, writeVars>>
      BY <2>5 DEF HandleReturns
    <3> QED
      BY <3>1
  <2> QED
    BY <1>5, <2>1, <2>2, <2>3, <2>4, <2>5 DEF ReadStep
<1>6. ASSUME NEW c \in Conns, WriteStep(c) \/ WriteTakes(c) \/ WriteEnds(c)
      PROVE  ErrorVarTypes'
  <2> USE ErrorTypes DEF chanVars, readVars, WriteLoopEnds
  <2>1. CASE WriteStops(c) \/ WriteEnds(c)
    BY <2>1, CtxErrIs DEF WriteStops, WriteEnds
  <2>2. CASE WriteTakes(c)
    BY <2>2 DEF WriteTakes
  <2>3. CASE WriteDone(c)
    BY <2>3 DEF WriteDone
  <2>4. CASE WriteFails(c)
    BY <2>4, CtxErrIs DEF WriteFails
  <2>5. CASE WriteReturns(c)
    BY <2>5 DEF WriteReturns, CanSend
  <2> QED
    BY <1>6, <2>1, <2>2, <2>3, <2>4, <2>5 DEF WriteStep
<1>7. ASSUME NEW c \in Conns, Abort(c) \/ PeerStep(c) \/ BackendClosesEvents(c) \/ RequestEnds(c)
      PROVE  ErrorVarTypes'
  BY <1>7 DEF Abort, PeerStep, PeerSends, PeerLeaves, BackendClosesEvents, RequestEnds,
     connectionVars, loopVars, chanVars, readVars, writeVars
<1>8. ASSUME (\E k \in Callers : CallerStep(k)) \/ UNCHANGED vars
      PROVE  ErrorVarTypes'
  BY <1>1, <1>8 DEF CallerStep, vars, connectionVars
<1> QED
  BY <1>1, <1>2, <1>3, <1>4, <1>5, <1>6, <1>7, <1>8 DEF Next, ServeStep

\* What has been sent, handled, taken and written.  Only what the codec let
\* through is handled or written.
LEMMA DataTypesStep ==
  ASSUME ServeTypes, DataTypes, \A c \in Conns : Writer(c), [Next]_vars
  PROVE  DataTypes'
<1> USE DEF DataTypes
<1>1. ASSUME UNCHANGED <<sent, nread, handled, taken, wire>>
      PROVE  DataTypes'
  BY <1>1
<1>2. ASSUME NEW c \in Conns, Enter(c) \/ ServeStep(c)
      PROVE  UNCHANGED <<sent, nread, handled, taken, wire>>
  BY <1>2 DEF ServeStep, Enter, Authenticate, OpenSession, Abandon, Accept, Reject, FirstError,
     CloseSession, CloseConn, Drain, Exit, loopVars, readVars, writeVars
<1>3. ASSUME NEW c \in Conns,
             \/ ReadClose(c) \/ ReadFails(c) \/ ReadReturns(c) \/ HandleReturns(c)
             \/ WriteStops(c) \/ WriteEnds(c)
      PROVE  UNCHANGED <<sent, nread, handled, taken, wire>>
  BY <1>3 DEF ReadClose, ReadFails, ReadReturns, HandleReturns, WriteStops, WriteEnds, readVars, writeVars
<1>4. ASSUME NEW c \in Conns,
             WriteFails(c) \/ WriteReturns(c) \/ Abort(c) \/ PeerLeaves(c) \/ BackendClosesEvents(c)
             \/ RequestEnds(c)
      PROVE  UNCHANGED <<sent, nread, handled, taken, wire>>
  BY <1>4 DEF WriteFails, WriteReturns, Abort, PeerLeaves, BackendClosesEvents, RequestEnds,
     connectionVars, loopVars, readVars, writeVars
<1>5. ASSUME (\E k \in Callers : CallerStep(k)) \/ UNCHANGED vars
      PROVE  UNCHANGED <<sent, nread, handled, taken, wire>>
  BY <1>5 DEF CallerStep, vars, connectionVars, loopVars, readVars, writeVars
<1>6. ASSUME NEW c \in Conns, ReadFrame(c)
      PROVE  DataTypes'
  <2> DEFINE got == receive(surface[c], sent[c][nread[c] + 1])
  <2>1. got.result = "ok" => got.value \in Deliveries
    BY <1>6, CodecTypes DEF ReadFrame, ServeTypes
  <2>2. /\ \/ handled' = handled
           \/ got.result = "ok" /\ handled' = [handled EXCEPT ![c] = Append(@, got.value)]
        /\ nread' = [nread EXCEPT ![c] = @ + 1]
        /\ nread[c] < Len(sent[c])
        /\ UNCHANGED <<sent, taken, wire>>
    BY <1>6 DEF ReadFrame, writeVars
  <2> HIDE DEF got
  <2>3. handled' \in [Conns -> Seq(Deliveries)]
    <3>1. CASE handled' = handled
      BY <3>1
    <3>2. CASE got.result = "ok" /\ handled' = [handled EXCEPT ![c] = Append(@, got.value)]
      BY <2>1, <3>2
    <3> QED
      BY <2>2, <3>1, <3>2
  <2>4. /\ nread' \in [Conns -> Nat]
        /\ \A d \in Conns : nread'[d] <= Len(sent'[d])
    BY <2>2
  <2> QED
    BY <2>2, <2>3, <2>4
<1>7. ASSUME NEW c \in Conns, ReadTooBig(c)
      PROVE  DataTypes'
  BY <1>7 DEF ReadTooBig, writeVars
<1>8. ASSUME NEW c \in Conns, PeerSends(c)
      PROVE  DataTypes'
  BY <1>8 DEF PeerSends, writeVars
<1>9. ASSUME NEW c \in Conns, WriteTakes(c)
      PROVE  DataTypes'
  <2>1. /\ \E event \in BackendEvents : taken' = [taken EXCEPT ![c] = Append(@, event)]
        /\ UNCHANGED <<sent, nread, handled, wire>>
    BY <1>9 DEF WriteTakes, readVars
  <2> QED
    BY <2>1
<1>10. ASSUME NEW c \in Conns, WriteDone(c)
       PROVE  DataTypes'
  <2> DEFINE value == transmit(surface[c], taken[c][Len(taken[c])]).value
  <2>1. value \in Transmissions
    BY <1>10, CodecTypes DEF WriteDone, Writer, ServeTypes
  <2>2. /\ wire' = [wire EXCEPT ![c] = Append(@, value)]
        /\ UNCHANGED <<sent, nread, handled, taken>>
    BY <1>10 DEF WriteDone, readVars
  <2> HIDE DEF value
  <2> QED
    BY <2>1, <2>2
<1> QED
  BY <1>1, <1>2, <1>3, <1>4, <1>5, <1>6, <1>7, <1>8, <1>9, <1>10
     DEF Next, ReadStep, WriteStep, PeerStep

-----------------------------------------------------------------------------
(* The read loop.                                                          *)

LEMMA ReaderStep ==
  ASSUME ServeTypes, ErrorVarTypes, DataTypes, PhaseInv, \A c \in Conns : Reader(c), [Next]_vars
  PROVE  \A c \in Conns : Reader(c)'
<1>0. \A c \in Conns : /\ surface[c] \in Surfaces /\ rerr[c] \in LoopErrors
                       /\ nread[c] \in Nat /\ nread[c] <= Len(sent[c])
                       /\ handled[c] \in Seq(Deliveries) /\ sent[c] \in Seq(ClientFrames)
  BY DEF ServeTypes, ErrorVarTypes, DataTypes
<1>F. ASSUME NEW d \in Conns,
             surface'[d] = surface[d], rpc'[d] = rpc[d], rerr'[d] = rerr[d], sent'[d] = sent[d],
             nread'[d] = nread[d], handled'[d] = handled[d]
      PROVE  Reader(d)'
  BY <1>F DEF Reader
<1>1. ASSUME UNCHANGED <<surface, readVars>>
      PROVE  \A c \in Conns : Reader(c)'
  BY <1>1, <1>F DEF readVars
<1>2. ASSUME NEW c \in Conns,
             \/ Enter(c) \/ Authenticate(c) \/ OpenSession(c) \/ Abandon(c) \/ Reject(c)
             \/ FirstError(c) \/ CloseSession(c) \/ CloseConn(c) \/ Drain(c) \/ Exit(c)
      PROVE  UNCHANGED <<surface, readVars>>
  BY <1>2 DEF Enter, Authenticate, OpenSession, Abandon, Reject, FirstError,
     CloseSession, CloseConn, Drain, Exit, loopVars
<1>3. ASSUME NEW c \in Conns, WriteStep(c) \/ WriteTakes(c) \/ WriteEnds(c)
      PROVE  UNCHANGED <<surface, readVars>>
  BY <1>3 DEF WriteStep, WriteStops, WriteDone, WriteFails, WriteReturns, WriteTakes, WriteEnds,
     setupVars
<1>4. ASSUME NEW c \in Conns, Abort(c) \/ PeerLeaves(c) \/ BackendClosesEvents(c) \/ RequestEnds(c)
      PROVE  UNCHANGED <<surface, readVars>>
  BY <1>4 DEF Abort, PeerLeaves, BackendClosesEvents, RequestEnds, connectionVars, setupVars, loopVars
<1>5. ASSUME (\E k \in Callers : CallerStep(k)) \/ UNCHANGED vars
      PROVE  UNCHANGED <<surface, readVars>>
  BY <1>5 DEF CallerStep, vars, connectionVars, setupVars, loopVars
<1>6. ASSUME NEW c \in Conns, Accept(c)
      PROVE  \A d \in Conns : Reader(d)'
  <2>1. Reader(c)'
    BY <1>6 DEF Accept, Goto, Reader, PhaseInv, PhaseTypes, PhaseOfConnection, Setup
  <2>2. ASSUME NEW d \in Conns, d # c PROVE Reader(d)'
    BY <1>6, <1>F, <2>2 DEF Accept, PhaseInv, PhaseTypes
  <2> QED
    BY <2>1, <2>2
<1>7. ASSUME NEW c \in Conns, ReadFrame(c)
      PROVE  \A d \in Conns : Reader(d)'
  <2> DEFINE got == receive(surface[c], sent[c][nread[c] + 1])
  <2>1. /\ rpc[c] = "read" /\ nread[c] < Len(sent[c])
        /\ nread' = [nread EXCEPT ![c] = @ + 1]
        /\ \/ /\ got.result = "ok" /\ handled' = [handled EXCEPT ![c] = Append(@, got.value)]
              /\ rpc' = [rpc EXCEPT ![c] = "handle"] /\ rerr' = rerr
           \/ /\ got.result = "protocol" /\ rerr' = [rerr EXCEPT ![c] = LoopError("protocol")]
              /\ rpc' = [rpc EXCEPT ![c] = "send"] /\ handled' = handled
        /\ UNCHANGED <<surface, sent>>
    BY <1>7 DEF ReadFrame, setupVars
  <2>2. Reader(c)'
    <3>1. /\ nread[c] = Len(handled[c]) /\ rerr[c] = NoError
          /\ \A i \in 1..Len(handled[c]) :
               /\ receive(surface[c], sent[c][i]).result = "ok"
               /\ handled[c][i] = receive(surface[c], sent[c][i]).value
      BY <2>1 DEF Reader
    <3>2. NoError.kind = "none" /\ LoopError("protocol").kind = "protocol"
      BY DEF LoopError, NoError
    <3>3. nread'[c] = nread[c] + 1 /\ surface' = surface /\ sent' = sent
      BY <1>0, <2>1 DEF DataTypes
    <3>4. CASE got.result = "ok"
      <4>1. /\ handled'[c] = Append(handled[c], got.value)
            /\ rpc'[c] = "handle" /\ rerr'[c] = NoError
        BY <2>1, <3>1, <3>4 DEF DataTypes, ErrorVarTypes
      <4>2. /\ Len(handled'[c]) = nread[c] + 1
            /\ \A i \in 1..nread[c] : handled'[c][i] = handled[c][i]
            /\ handled'[c][nread[c] + 1] = got.value
        BY <1>0, <3>1, <4>1
      <4>3. ASSUME NEW i \in 1..Len(handled'[c])
            PROVE  /\ receive(surface[c], sent[c][i]).result = "ok"
                   /\ handled'[c][i] = receive(surface[c], sent[c][i]).value
        <5>1. i \in 1..nread[c] \/ i = nread[c] + 1
          BY <1>0, <4>2
        <5> QED
          BY <3>1, <3>4, <4>2, <5>1
      <4>4. handled'[c] # <<>>
        BY <1>0, <4>2
      <4> QED
        BY <1>0, <3>2, <3>3, <4>1, <4>2, <4>3, <4>4 DEF Reader
    <3>5. CASE got.result = "protocol"
      <4>1. /\ handled'[c] = handled[c]
            /\ rpc'[c] = "send" /\ rerr'[c] = LoopError("protocol")
        BY <2>1, <3>5 DEF ErrorVarTypes
      <4>2. \E i \in 1..nread'[c] : receive(surface[c], sent[c][i]).result = "protocol"
        BY <1>0, <3>3, <3>5
      <4> QED
        BY <1>0, <3>1, <3>2, <3>3, <4>1, <4>2 DEF Reader
    <3> QED
      BY <2>1, <3>4, <3>5
  <2>3. ASSUME NEW d \in Conns, d # c PROVE Reader(d)'
    BY <2>1, <1>F, <2>3 DEF ErrorVarTypes, DataTypes
  <2> QED
    BY <2>2, <2>3
<1>8. ASSUME NEW c \in Conns, ReadClose(c) \/ ReadFails(c) \/ ReadTooBig(c)
      PROVE  \A d \in Conns : Reader(d)'
  <2>1. \E err \in LoopErrors : err.kind \in {"canceled", "deadline", "connection", "peer"}
                                /\ rerr' = [rerr EXCEPT ![c] = err]
    <3>1. CASE ReadClose(c)
      <4>1. rerr' = [rerr EXCEPT ![c] = PeerClosed(peer[c])] /\ peer[c] \in PeerCodes
        BY <3>1 DEF ReadClose, ServeTypes
      <4> QED
        BY <4>1, ErrorTypes
    <3>2. CASE ReadFails(c)
      <4>1. \/ rerr' = [rerr EXCEPT ![c] = LoopError("connection")]
            \/ rerr' = [rerr EXCEPT ![c] = CtxErr(c)]
        BY <3>2 DEF ReadFails
      <4> QED
        BY <4>1, ErrorTypes, CtxErrIs
    <3>3. CASE ReadTooBig(c)
      BY <3>3, ErrorTypes DEF ReadTooBig
    <3> QED
      BY <1>8, <3>1, <3>2, <3>3
  <2>2. /\ rpc[c] = "read" /\ rpc' = [rpc EXCEPT ![c] = "send"]
        /\ nread' = nread \/ nread' = [nread EXCEPT ![c] = @ + 1]
        /\ UNCHANGED <<surface, sent, handled>>
    BY <1>8 DEF ReadClose, ReadFails, ReadTooBig, setupVars
  <2>3. Reader(c)'
    BY <1>0, <2>1, <2>2 DEF Reader, ErrorVarTypes, DataTypes
  <2>4. ASSUME NEW d \in Conns, d # c PROVE Reader(d)'
    BY <2>1, <2>2, <1>F, <2>4 DEF ErrorVarTypes, DataTypes
  <2> QED
    BY <2>3, <2>4
<1>9. ASSUME NEW c \in Conns, HandleReturns(c)
      PROVE  \A d \in Conns : Reader(d)'
  <2>1. /\ rpc[c] = "handle"
        /\ \/ rpc' = [rpc EXCEPT ![c] = "read"] /\ rerr' = rerr
           \/ /\ rpc' = [rpc EXCEPT ![c] = "send"]
              /\ \E err \in LoopErrors : err.kind \in {"canceled", "other", "peer"}
                                         /\ rerr' = [rerr EXCEPT ![c] = err]
        /\ UNCHANGED <<surface, sent, nread, handled>>
    BY <1>9, ErrorTypes DEF HandleReturns, setupVars
  <2>2. Reader(c)'
    BY <1>0, <2>1 DEF Reader, ErrorVarTypes
  <2>3. ASSUME NEW d \in Conns, d # c PROVE Reader(d)'
    BY <2>1, <1>F, <2>3 DEF ErrorVarTypes
  <2> QED
    BY <2>2, <2>3
<1>10. ASSUME NEW c \in Conns, ReadReturns(c)
       PROVE  \A d \in Conns : Reader(d)'
  <2>1. /\ rpc[c] = "send" /\ rpc' = [rpc EXCEPT ![c] = "ended"]
        /\ UNCHANGED <<surface, rerr, sent, nread, handled>>
    BY <1>10 DEF ReadReturns, setupVars
  <2>2. Reader(c)'
    BY <2>1 DEF Reader, ErrorVarTypes
  <2>3. ASSUME NEW d \in Conns, d # c PROVE Reader(d)'
    BY <2>1, <1>F, <2>3 DEF ErrorVarTypes
  <2> QED
    BY <2>2, <2>3
<1>11. ASSUME NEW c \in Conns, PeerSends(c)
       PROVE  \A d \in Conns : Reader(d)'
  <2>1. PICK frame \in ClientFrames : sent' = [sent EXCEPT ![c] = Append(@, frame)]
    BY <1>11 DEF PeerSends
  <2>2. UNCHANGED <<surface, rpc, rerr, nread, handled>>
    BY <1>11 DEF PeerSends, setupVars
  <2>3. Reader(c)'
    <3>1. sent'[c] = Append(sent[c], frame)
      BY <2>1 DEF DataTypes
    <3>2. \A i \in 1..nread[c] : sent'[c][i] = sent[c][i]
      BY <1>0, <3>1
    <3> QED
      BY <1>0, <2>2, <3>2 DEF Reader
  <2>4. ASSUME NEW d \in Conns, d # c PROVE Reader(d)'
    BY <2>1, <2>2, <1>F, <2>4 DEF DataTypes
  <2> QED
    BY <2>3, <2>4
<1> QED
  BY <1>1, <1>2, <1>3, <1>4, <1>5, <1>6, <1>7, <1>8, <1>9, <1>10, <1>11
     DEF Next, ServeStep, ReadStep, PeerStep

-----------------------------------------------------------------------------
(* The write loop.                                                         *)

LEMMA WriterStep ==
  ASSUME ServeTypes, ErrorVarTypes, DataTypes, PhaseInv, \A c \in Conns : Writer(c), [Next]_vars
  PROVE  \A c \in Conns : Writer(c)'
<1>0. \A c \in Conns : /\ surface[c] \in Surfaces /\ werr[c] \in LoopErrors
                       /\ taken[c] \in Seq(BackendEvents) /\ wire[c] \in Seq(Transmissions)
                       /\ Len(taken[c]) \in Nat /\ Len(wire[c]) \in Nat
  BY DEF ServeTypes, ErrorVarTypes, DataTypes
<1>K. NoError.kind = "none"
  BY DEF NoError, LoopError
<1>F. ASSUME NEW d \in Conns,
             surface'[d] = surface[d], wpc'[d] = wpc[d], werr'[d] = werr[d], taken'[d] = taken[d],
             wire'[d] = wire[d]
      PROVE  Writer(d)'
  BY <1>F DEF Writer
<1>1. ASSUME UNCHANGED <<surface, writeVars>>
      PROVE  \A c \in Conns : Writer(c)'
  BY <1>1, <1>F DEF writeVars
<1>2. ASSUME NEW c \in Conns,
             \/ Enter(c) \/ Authenticate(c) \/ OpenSession(c) \/ Abandon(c) \/ Reject(c)
             \/ FirstError(c) \/ CloseSession(c) \/ CloseConn(c) \/ Drain(c) \/ Exit(c)
      PROVE  UNCHANGED <<surface, writeVars>>
  BY <1>2 DEF Enter, Authenticate, OpenSession, Abandon, Reject, FirstError,
     CloseSession, CloseConn, Drain, Exit, loopVars
<1>3. ASSUME NEW c \in Conns, ReadStep(c) \/ HandleReturns(c)
      PROVE  UNCHANGED <<surface, writeVars>>
  BY <1>3 DEF ReadStep, ReadFrame, ReadClose, ReadFails, ReadTooBig, ReadReturns, HandleReturns, setupVars
<1>4. ASSUME NEW c \in Conns, Abort(c) \/ PeerStep(c) \/ BackendClosesEvents(c) \/ RequestEnds(c)
      PROVE  UNCHANGED <<surface, writeVars>>
  BY <1>4 DEF Abort, PeerStep, PeerSends, PeerLeaves, BackendClosesEvents, RequestEnds,
     connectionVars, setupVars, loopVars
<1>5. ASSUME (\E k \in Callers : CallerStep(k)) \/ UNCHANGED vars
      PROVE  UNCHANGED <<surface, writeVars>>
  BY <1>5 DEF CallerStep, vars, connectionVars, setupVars, loopVars
<1>6. ASSUME NEW c \in Conns, Accept(c)
      PROVE  \A d \in Conns : Writer(d)'
  <2>1. Writer(c)'
    BY <1>6 DEF Accept, Goto, Writer, PhaseInv, PhaseTypes, PhaseOfConnection, Setup
  <2>2. ASSUME NEW d \in Conns, d # c PROVE Writer(d)'
    BY <1>6, <1>F, <2>2 DEF Accept, PhaseInv, PhaseTypes
  <2> QED
    BY <2>1, <2>2
<1>7. ASSUME NEW c \in Conns, WriteStops(c) \/ WriteEnds(c) \/ WriteFails(c)
      PROVE  \A d \in Conns : Writer(d)'
  <2>1. \E err \in LoopErrors : /\ werr' = [werr EXCEPT ![c] = err]
                                /\ err.kind \in {"nil", "canceled", "deadline", "connection"}
                                /\ \/ wpc[c] = "select"
                                   \/ wpc[c] = "write" /\ err.kind # "nil"
    BY <1>7, ErrorTypes, CtxErrIs DEF WriteStops, WriteEnds, WriteFails, WriteLoopEnds
  <2>2. wpc' = [wpc EXCEPT ![c] = "send"] /\ UNCHANGED <<surface, taken, wire>>
    BY <1>7 DEF WriteStops, WriteEnds, WriteFails, WriteLoopEnds, setupVars
  <2>3. Writer(c)'
    BY <1>0, <2>1, <2>2 DEF Writer, ErrorVarTypes
  <2>4. ASSUME NEW d \in Conns, d # c PROVE Writer(d)'
    BY <2>1, <2>2, <1>F, <2>4 DEF ErrorVarTypes
  <2> QED
    BY <2>3, <2>4
<1>8. ASSUME NEW c \in Conns, WriteTakes(c)
      PROVE  \A d \in Conns : Writer(d)'
  <2>1. PICK event \in BackendEvents :
          /\ taken' = [taken EXCEPT ![c] = Append(@, event)]
          /\ \/ /\ transmit(surface[c], event).result = "ok"
                /\ wpc' = [wpc EXCEPT ![c] = "write"] /\ werr' = werr
             \/ /\ transmit(surface[c], event).result = "protocol"
                /\ wpc' = [wpc EXCEPT ![c] = "send"]
                /\ werr' = [werr EXCEPT ![c] = LoopError("protocol")]
    BY <1>8 DEF WriteTakes, WriteLoopEnds
  <2>2. wpc[c] = "select" /\ UNCHANGED <<surface, wire>>
    BY <1>8 DEF WriteTakes, setupVars
  <2>3. Writer(c)'
    <3>1. /\ Len(wire[c]) = Len(taken[c]) /\ werr[c] = NoError
          /\ \A i \in 1..Len(wire[c]) :
               /\ transmit(surface[c], taken[c][i]).result = "ok"
               /\ wire[c][i] = transmit(surface[c], taken[c][i]).value
      BY <2>2 DEF Writer
    <3>2. taken'[c] = Append(taken[c], event)
      BY <2>1 DEF DataTypes
    <3>3. /\ Len(taken'[c]) = Len(taken[c]) + 1 /\ taken'[c][Len(taken[c]) + 1] = event
          /\ \A i \in 1..Len(taken[c]) : taken'[c][i] = taken[c][i]
      BY <1>0, <3>2
    <3>4. /\ \A i \in 1..Len(wire'[c]) :
               /\ transmit(surface'[c], taken'[c][i]).result = "ok"
               /\ wire'[c][i] = transmit(surface'[c], taken'[c][i]).value
          /\ Len(wire'[c]) = Len(taken'[c]) - 1
      BY <1>0, <2>2, <3>1, <3>3
    <3>5. CASE transmit(surface[c], event).result = "ok" /\ wpc' = [wpc EXCEPT ![c] = "write"]
               /\ werr' = werr
      <4>1. wpc'[c] = "write" /\ werr'[c] = NoError
        BY <3>1, <3>5 DEF ErrorVarTypes
      <4> QED
        BY <1>0, <1>K, <2>2, <3>3, <3>4, <3>5, <4>1 DEF Writer
    <3>6. CASE /\ transmit(surface[c], event).result = "protocol"
               /\ wpc' = [wpc EXCEPT ![c] = "send"]
               /\ werr' = [werr EXCEPT ![c] = LoopError("protocol")]
      <4>1. wpc'[c] = "send" /\ werr'[c].kind = "protocol"
        BY <3>6, ErrorTypes DEF ErrorVarTypes
      <4>2. \E i \in 1..Len(taken'[c]) : transmit(surface'[c], taken'[c][i]).result = "protocol"
        <5>1. Len(taken[c]) + 1 \in 1..Len(taken'[c])
          BY <1>0, <3>3
        <5>2. transmit(surface'[c], taken'[c][Len(taken[c]) + 1]).result = "protocol"
          BY <2>2, <3>3, <3>6
        <5> QED
          BY <5>1, <5>2
      <4> QED
        BY <1>0, <3>3, <3>4, <4>1, <4>2 DEF Writer
    <3> QED
      BY <2>1, <3>5, <3>6
  <2>4. ASSUME NEW d \in Conns, d # c PROVE Writer(d)'
    BY <2>1, <2>2, <1>F, <2>4 DEF ErrorVarTypes, DataTypes
  <2> QED
    BY <2>3, <2>4
<1>9. ASSUME NEW c \in Conns, WriteDone(c)
      PROVE  \A d \in Conns : Writer(d)'
  <2> DEFINE value == transmit(surface[c], taken[c][Len(taken[c])]).value
  <2>1. /\ wpc[c] = "write" /\ wpc' = [wpc EXCEPT ![c] = "select"]
        /\ wire' = [wire EXCEPT ![c] = Append(@, value)]
        /\ UNCHANGED <<surface, werr, taken>>
    BY <1>9 DEF WriteDone, setupVars
  <2>2. Writer(c)'
    <3>1. /\ Len(taken[c]) = Len(wire[c]) + 1 /\ werr[c] = NoError
          /\ transmit(surface[c], taken[c][Len(taken[c])]).result = "ok"
          /\ \A i \in 1..Len(wire[c]) :
               /\ transmit(surface[c], taken[c][i]).result = "ok"
               /\ wire[c][i] = transmit(surface[c], taken[c][i]).value
      BY <2>1 DEF Writer
    <3>2. wire'[c] = Append(wire[c], value) /\ wpc'[c] = "select"
      BY <2>1 DEF DataTypes, ErrorVarTypes
    <3> HIDE DEF value
    <3>3. /\ Len(wire'[c]) = Len(taken[c]) /\ wire'[c][Len(taken[c])] = value
          /\ \A i \in 1..Len(wire[c]) : wire'[c][i] = wire[c][i]
      BY <1>0, <3>1, <3>2
    <3>4. ASSUME NEW i \in 1..Len(wire'[c])
          PROVE  /\ transmit(surface[c], taken[c][i]).result = "ok"
                 /\ wire'[c][i] = transmit(surface[c], taken[c][i]).value
      <4>1. i \in 1..Len(wire[c]) \/ i = Len(taken[c])
        BY <1>0, <3>1, <3>3
      <4> QED
        BY <3>1, <3>3, <4>1 DEF value
    <3> QED
      BY <1>0, <1>K, <2>1, <3>1, <3>2, <3>3, <3>4 DEF Writer
  <2>3. ASSUME NEW d \in Conns, d # c PROVE Writer(d)'
    BY <2>1, <1>F, <2>3 DEF ErrorVarTypes, DataTypes
  <2> QED
    BY <2>2, <2>3
<1>10. ASSUME NEW c \in Conns, WriteReturns(c)
       PROVE  \A d \in Conns : Writer(d)'
  <2>1. /\ wpc[c] = "send" /\ wpc' = [wpc EXCEPT ![c] = "ended"]
        /\ UNCHANGED <<surface, werr, taken, wire>>
    BY <1>10 DEF WriteReturns, setupVars
  <2>2. Writer(c)'
    BY <2>1 DEF Writer, ErrorVarTypes
  <2>3. ASSUME NEW d \in Conns, d # c PROVE Writer(d)'
    BY <2>1, <1>F, <2>3 DEF ErrorVarTypes
  <2> QED
    BY <2>2, <2>3
<1> QED
  BY <1>1, <1>2, <1>3, <1>4, <1>5, <1>6, <1>7, <1>8, <1>9, <1>10
     DEF Next, ServeStep, WriteStep

-----------------------------------------------------------------------------
(* The errors channel.                                                     *)

\* A loop that has sent its error has returned, and its error is final.
LEMMA LoopsStayEnded ==
  ASSUME ErrorVarTypes, PhaseInv, [Next]_vars, NEW d \in Conns
  PROVE  /\ rpc[d] = "ended" => rpc'[d] = "ended" /\ rerr'[d] = rerr[d]
         /\ wpc[d] = "ended" => wpc'[d] = "ended" /\ werr'[d] = werr[d]
<1> DEFINE Stay == /\ rpc[d] = "ended" => rpc'[d] = "ended" /\ rerr'[d] = rerr[d]
                   /\ wpc[d] = "ended" => wpc'[d] = "ended" /\ werr'[d] = werr[d]
<1>1. ASSUME UNCHANGED <<rpc, rerr, wpc, werr>> PROVE Stay
  BY <1>1
<1>2. ASSUME NEW c \in Conns,
             \/ Enter(c) \/ Authenticate(c) \/ OpenSession(c) \/ Abandon(c) \/ Reject(c)
             \/ FirstError(c) \/ CloseSession(c) \/ CloseConn(c) \/ Drain(c) \/ Exit(c)
      PROVE  UNCHANGED <<rpc, rerr, wpc, werr>>
  BY <1>2 DEF Enter, Authenticate, OpenSession, Abandon, Reject, FirstError,
     CloseSession, CloseConn, Drain, Exit, loopVars, readVars, writeVars
<1>3. ASSUME NEW c \in Conns, Accept(c) PROVE Stay
  BY <1>3 DEF Accept, Goto, PhaseInv, PhaseTypes, PhaseOfConnection, Setup
<1>4. ASSUME NEW c \in Conns, ReadStep(c) \/ HandleReturns(c) PROVE Stay
  <2>1. rpc[c] # "ended" /\ UNCHANGED <<wpc, werr>>
    BY <1>4 DEF ReadStep, ReadFrame, ReadClose, ReadFails, ReadTooBig, ReadReturns, HandleReturns, writeVars
  <2>2. c # d => rpc'[d] = rpc[d] /\ rerr'[d] = rerr[d]
    BY <1>4 DEF ReadStep, ReadFrame, ReadClose, ReadFails, ReadTooBig, ReadReturns, HandleReturns,
       ErrorVarTypes
  <2> QED
    BY <2>1, <2>2
<1>5. ASSUME NEW c \in Conns, WriteStep(c) \/ WriteTakes(c) \/ WriteEnds(c) PROVE Stay
  <2>1. wpc[c] # "ended" /\ UNCHANGED <<rpc, rerr>>
    BY <1>5 DEF WriteStep, WriteStops, WriteDone, WriteFails, WriteReturns, WriteTakes, WriteEnds,
       readVars
  <2>2. c # d => wpc'[d] = wpc[d] /\ werr'[d] = werr[d]
    BY <1>5 DEF WriteStep, WriteStops, WriteDone, WriteFails, WriteReturns, WriteTakes, WriteEnds,
       WriteLoopEnds, ErrorVarTypes
  <2> QED
    BY <2>1, <2>2
<1>6. ASSUME NEW c \in Conns, Abort(c) \/ PeerStep(c) \/ BackendClosesEvents(c) \/ RequestEnds(c)
      PROVE  UNCHANGED <<rpc, rerr, wpc, werr>>
  BY <1>6 DEF Abort, PeerStep, PeerSends, PeerLeaves, BackendClosesEvents, RequestEnds,
     connectionVars, loopVars, readVars, writeVars
<1>7. ASSUME (\E k \in Callers : CallerStep(k)) \/ UNCHANGED vars
      PROVE  UNCHANGED <<rpc, rerr, wpc, werr>>
  BY <1>7 DEF CallerStep, vars, connectionVars, loopVars, readVars, writeVars
<1> QED
  BY <1>1, <1>2, <1>3, <1>4, <1>5, <1>6, <1>7 DEF Next, ServeStep

\* An error sent by a loop is never the zero value that first holds before.
LEMMA SentErrorIsReal ==
  ASSUME NEW c \in Conns, Reader(c), Writer(c), NEW err, FromLoop(c, err)
  PROVE  err # NoError
  BY DEF Reader, Writer, FromLoop, NoError, LoopError

LEMMA ChannelStep ==
  ASSUME ServeTypes, ErrorVarTypes, PhaseInv, \A c \in Conns : Reader(c) /\ Writer(c),
         \A c \in Conns : Channel(c), [Next]_vars
  PROVE  \A c \in Conns : Channel(c)'
<1>0. \A d \in Conns : \A err : FromLoop(d, err) => FromLoop(d, err)'
  BY LoopsStayEnded DEF FromLoop
<1>1. \A d \in Conns : errs[d] \in Seq(LoopErrors)
  BY DEF ErrorVarTypes
<1>F. ASSUME NEW d \in Conns, pc'[d] = pc[d], first'[d] = first[d], errs'[d] = errs[d]
      PROVE  Channel(d)'
  BY <1>0, <1>F DEF Channel
<1>2. ASSUME UNCHANGED <<pc, chanVars>>
      PROVE  \A d \in Conns : Channel(d)'
  BY <1>2, <1>F DEF chanVars
<1>3. ASSUME NEW c \in Conns, NEW from, NEW to, Goto(c, from, to), UNCHANGED chanVars,
             <<from, to>> \in {<<"closeSession", "closeConn">>, <<"closeConn", "drain">>,
                               <<"exit", "done">>}
      PROVE  \A d \in Conns : Channel(d)'
  <2>1. Channel(c)'
    BY <1>0, <1>3 DEF Channel, Goto, chanVars, Setup, ServeTypes
  <2>2. ASSUME NEW d \in Conns, d # c PROVE Channel(d)'
    BY <1>3, <1>F, <2>2 DEF Goto, chanVars, ServeTypes
  <2> QED
    BY <2>1, <2>2
<1>4. ASSUME NEW c \in Conns, pc[c] \in Setup, NEW to \in Setup \cup {"serve", "exit", "done"},
             pc' = [pc EXCEPT ![c] = to], UNCHANGED chanVars
      PROVE  \A d \in Conns : Channel(d)'
  <2>1. Channel(c)'
    BY <1>0, <1>4 DEF Channel, chanVars, Setup, ServeTypes
  <2>2. ASSUME NEW d \in Conns, d # c PROVE Channel(d)'
    BY <1>4, <1>F, <2>2 DEF chanVars, ServeTypes
  <2> QED
    BY <2>1, <2>2
<1>5. ASSUME NEW c \in Conns,
             Enter(c) \/ Authenticate(c) \/ OpenSession(c) \/ Abandon(c) \/ Reject(c) \/ Accept(c)
      PROVE  \A d \in Conns : Channel(d)'
  <2>1. /\ pc[c] \in Setup /\ UNCHANGED chanVars
        /\ \E to \in Setup \cup {"serve", "exit", "done"} : pc' = [pc EXCEPT ![c] = to]
    BY <1>5 DEF Enter, Authenticate, OpenSession, Abandon, Reject, Accept, Goto, Setup, loopVars
  <2> QED
    BY <1>4, <2>1
<1>6. ASSUME NEW c \in Conns, CloseSession(c) \/ CloseConn(c) \/ Exit(c)
      PROVE  \A d \in Conns : Channel(d)'
  BY <1>3, <1>6 DEF CloseSession, CloseConn, Exit, loopVars, Setup
<1>7. ASSUME NEW c \in Conns, FirstError(c)
      PROVE  \A d \in Conns : Channel(d)'
  <2>1. /\ errs[c] # <<>> /\ pc' = [pc EXCEPT ![c] = "closeSession"]
        /\ first' = [first EXCEPT ![c] = Head(errs[c])]
        /\ errs' = [errs EXCEPT ![c] = Tail(@)]
    BY <1>7 DEF FirstError, Goto
  <2>2. /\ Head(errs[c]) = errs[c][1] /\ 1 \in 1..Len(errs[c])
        /\ Len(Tail(errs[c])) = Len(errs[c]) - 1
        /\ \A i \in 1..Len(Tail(errs[c])) : Tail(errs[c])[i] = errs[c][i + 1]
                                            /\ i + 1 \in 1..Len(errs[c])
    BY <1>1, <2>1
  <2>3. FromLoop(c, Head(errs[c])) /\ Head(errs[c]) # NoError
    BY <2>2, SentErrorIsReal DEF Channel
  <2>4. \A i \in 1..Len(Tail(errs[c])) : FromLoop(c, Tail(errs[c])[i])
    BY <2>2 DEF Channel
  <2>5. Channel(c)'
    <3>1. pc'[c] = "closeSession" /\ first'[c] = Head(errs[c]) /\ errs'[c] = Tail(errs[c])
      BY <2>1 DEF ServeTypes, ErrorVarTypes
    <3> QED
      BY <1>0, <2>3, <2>4, <3>1 DEF Channel, Setup
  <2>6. ASSUME NEW d \in Conns, d # c PROVE Channel(d)'
    BY <2>1, <1>F, <2>6 DEF ServeTypes, ErrorVarTypes
  <2> QED
    BY <2>5, <2>6
<1>8. ASSUME NEW c \in Conns, Drain(c)
      PROVE  \A d \in Conns : Channel(d)'
  <2>1. /\ pc' = [pc EXCEPT ![c] = "exit"] /\ first' = first
        /\ errs' = IF errs[c] # <<>> THEN [errs EXCEPT ![c] = Tail(@)] ELSE errs
    BY <1>8 DEF Drain, Goto
  <2>2. errs[c] # <<>> => \A i \in 1..Len(Tail(errs[c])) : Tail(errs[c])[i] = errs[c][i + 1]
                                                           /\ i + 1 \in 1..Len(errs[c])
    BY <1>1
  <2>3. errs[c] # <<>> => \A i \in 1..Len(Tail(errs[c])) : FromLoop(c, Tail(errs[c])[i])
    BY <2>2 DEF Channel
  <2>4. Channel(c)'
    <3>1. pc'[c] = "exit" /\ first'[c] = first[c]
          /\ errs'[c] = IF errs[c] # <<>> THEN Tail(errs[c]) ELSE errs[c]
      BY <2>1 DEF ServeTypes, ErrorVarTypes
    <3>2. \A i \in 1..Len(errs'[c]) : FromLoop(c, errs'[c][i])
      BY <2>3, <3>1 DEF Channel
    <3> QED
      BY <1>0, <3>1, <3>2 DEF Channel, Setup
  <2>5. ASSUME NEW d \in Conns, d # c PROVE Channel(d)'
    BY <2>1, <1>F, <2>5 DEF ServeTypes, ErrorVarTypes
  <2> QED
    BY <2>4, <2>5
<1>9. ASSUME NEW c \in Conns, ReadReturns(c) \/ WriteReturns(c)
      PROVE  \A d \in Conns : Channel(d)'
  <2>1. \E err \in LoopErrors : errs' = [errs EXCEPT ![c] = Append(@, err)] /\ FromLoop(c, err)'
    <3>1. CASE ReadReturns(c)
      BY <3>1 DEF ReadReturns, FromLoop, ErrorVarTypes
    <3>2. CASE WriteReturns(c)
      BY <3>2 DEF WriteReturns, FromLoop, ErrorVarTypes
    <3> QED
      BY <1>9, <3>1, <3>2
  <2>2. UNCHANGED <<pc, first>>
    BY <1>9 DEF ReadReturns, WriteReturns, setupVars
  <2>3. Channel(c)'
    <3>1. PICK err \in LoopErrors : errs' = [errs EXCEPT ![c] = Append(@, err)] /\ FromLoop(c, err)'
      BY <2>1
    <3>2. errs'[c] = Append(errs[c], err)
      BY <3>1 DEF ErrorVarTypes
    <3>3. \A i \in 1..Len(errs'[c]) :
            errs'[c][i] = err \/ \E j \in 1..Len(errs[c]) : errs'[c][i] = errs[c][j]
      BY <1>1, <3>2
    <3>4. ASSUME NEW i \in 1..Len(errs'[c]), NEW e, e = errs'[c][i] PROVE FromLoop(c, e)'
      BY <1>0, <3>1, <3>3, <3>4 DEF Channel
    <3>5. (\A i \in 1..Len(errs[c]) : FromLoop(c, errs[c][i]))'
      BY <3>4 DEF FromLoop
    <3> QED
      BY <1>0, <2>2, <3>5 DEF Channel
  <2>4. ASSUME NEW d \in Conns, d # c PROVE Channel(d)'
    BY <2>1, <2>2, <1>F, <2>4 DEF ErrorVarTypes
  <2> QED
    BY <2>3, <2>4
<1>10. ASSUME NEW c \in Conns,
              ReadFrame(c) \/ ReadClose(c) \/ ReadFails(c) \/ ReadTooBig(c) \/ HandleReturns(c)
       PROVE  UNCHANGED <<pc, chanVars>>
  BY <1>10 DEF ReadFrame, ReadClose, ReadFails, ReadTooBig, HandleReturns, setupVars
<1>11. ASSUME NEW c \in Conns,
              WriteStops(c) \/ WriteTakes(c) \/ WriteEnds(c) \/ WriteDone(c) \/ WriteFails(c)
       PROVE  UNCHANGED <<pc, chanVars>>
  BY <1>11 DEF WriteStops, WriteTakes, WriteEnds, WriteDone, WriteFails, setupVars
<1>12. ASSUME NEW c \in Conns, Abort(c) \/ PeerStep(c) \/ BackendClosesEvents(c) \/ RequestEnds(c)
       PROVE  UNCHANGED <<pc, chanVars>>
  BY <1>12 DEF Abort, PeerStep, PeerSends, PeerLeaves, BackendClosesEvents, RequestEnds,
     connectionVars, setupVars, loopVars
<1>13. ASSUME (\E k \in Callers : CallerStep(k)) \/ UNCHANGED vars
       PROVE  UNCHANGED <<pc, chanVars>>
  BY <1>13 DEF CallerStep, vars, connectionVars, setupVars, loopVars
<1> QED
  BY <1>2, <1>5, <1>6, <1>7, <1>8, <1>9, <1>10, <1>11, <1>12, <1>13
     DEF Next, ServeStep, ReadStep, WriteStep

-----------------------------------------------------------------------------
(* How a connection ends.                                                  *)

Untouched(d) ==
  /\ surface'[d] = surface[d] /\ pc'[d] = pc[d] /\ http'[d] = http[d]
  /\ conn'[d] = conn[d] /\ closeFrame'[d] = closeFrame[d] /\ peer'[d] = peer[d]
  /\ d \in timedOut' <=> d \in timedOut
  /\ first'[d] = first[d]
  /\ rpc'[d] = rpc[d] /\ rerr'[d] = rerr[d] /\ wpc'[d] = wpc[d] /\ werr'[d] = werr[d]
  /\ sent'[d] = sent[d] /\ nread'[d] = nread[d] /\ handled'[d] = handled[d]
  /\ taken'[d] = taken[d] /\ wire'[d] = wire[d]

\* A step of one request leaves the others alone.
LEMMA OthersUntouched ==
  ASSUME ServeTypes, ErrorVarTypes, DataTypes, NEW c \in Conns, NEW d \in Conns, d # c,
         \/ Enter(c) \/ ServeStep(c) \/ ReadStep(c) \/ HandleReturns(c)
         \/ WriteStep(c) \/ WriteTakes(c) \/ WriteEnds(c) \/ Abort(c)
         \/ PeerStep(c) \/ BackendClosesEvents(c) \/ RequestEnds(c)
  PROVE  Untouched(d)
<1> USE DEF ServeTypes, ErrorVarTypes, DataTypes, Untouched, Goto, Answer, WriteLoopEnds,
            connectionVars, setupVars, sessVars, connVars, loopVars, chanVars, readVars, writeVars
<1>1. CASE Enter(c)
  BY <1>1 DEF Enter
<1>2. CASE Authenticate(c)
  BY <1>2 DEF Authenticate
<1>3. CASE OpenSession(c)
  BY <1>3 DEF OpenSession
<1>4. CASE Abandon(c) \/ Reject(c)
  BY <1>4 DEF Abandon, Reject
<1>5. CASE Accept(c)
  BY <1>5 DEF Accept
<1>6. CASE FirstError(c)
  BY <1>6 DEF FirstError
<1>7. CASE CloseSession(c) \/ Exit(c)
  BY <1>7 DEF CloseSession, Exit
<1>8. CASE CloseConn(c)
  BY <1>8 DEF CloseConn
<1>9. CASE Drain(c)
  BY <1>9 DEF Drain
<1>10. CASE ReadFrame(c)
  BY <1>10 DEF ReadFrame
<1>11. CASE ReadFails(c)
  BY <1>11 DEF ReadFails
<1>12. CASE ReadClose(c) \/ ReadTooBig(c)
  BY <1>12 DEF ReadClose, ReadTooBig
<1>13. CASE HandleReturns(c)
  BY <1>13 DEF HandleReturns
<1>14. CASE ReadReturns(c) \/ WriteReturns(c)
  BY <1>14 DEF ReadReturns, WriteReturns
<1>15. CASE WriteStops(c) \/ WriteEnds(c)
  BY <1>15 DEF WriteStops, WriteEnds
<1>16. CASE WriteTakes(c)
  BY <1>16 DEF WriteTakes
<1>17. CASE WriteDone(c)
  BY <1>17 DEF WriteDone
<1>18. CASE WriteFails(c)
  BY <1>18 DEF WriteFails
<1>19. CASE Abort(c) \/ BackendClosesEvents(c)
  BY <1>19 DEF Abort, BackendClosesEvents
<1>21. CASE RequestEnds(c)
  BY <1>21 DEF RequestEnds
<1>20. CASE PeerStep(c)
  BY <1>20 DEF PeerStep, PeerSends, PeerLeaves
<1> QED
  BY <1>1, <1>2, <1>3, <1>4, <1>5, <1>6, <1>7, <1>8, <1>9, <1>10, <1>11, <1>12, <1>13, <1>14,
     <1>15, <1>16, <1>17, <1>18, <1>19, <1>20, <1>21 DEF ServeStep, ReadStep, WriteStep

\* No context is ever revived.
LEMMA CancelledGrows == [Next]_vars => cancelled \subseteq cancelled'
<1> SUFFICES ASSUME [RegNext]_regVars PROVE cancelled \subseteq cancelled'
  BY NextTable
<1> QED
  BY DEF RegNext, regVars, Register, RegisterUnderKey, Refuse, CancelLive, Unregister,
     UnregisterClosingIf, ShutdownStep, BeginShutdown, BeginShutdownCollecting, CallCancel, Cancel,
     ReturnDone, ReturnExpired, ReturnExpiredEarly, Expire

LEMMA EndingFrame ==
  ASSUME NEW d \in Conns, Ending(d), Untouched(d), cancelled \subseteq cancelled'
  PROVE  Ending(d)'
<1> USE DEF Untouched
<1>1. Upright(d)' /\ Clocked(d)'
  BY DEF Ending, Upright, Clocked
<1>2. Justified(d)'
  BY DEF Ending, Justified, Earned
<1>3. Silent(d)'
  BY DEF Ending, Silent, Cut
<1> QED
  BY <1>1, <1>2, <1>3 DEF Ending

Known(c) ==
  /\ PhaseOfConnection(c) /\ Reader(c) /\ Writer(c) /\ Channel(c) /\ Ending(c)
  /\ first[c] \in LoopErrors /\ rerr[c] \in LoopErrors /\ werr[c] \in LoopErrors
  /\ nread[c] \in Nat /\ handled[c] \in Seq(Deliveries)
  /\ taken[c] \in Seq(BackendEvents) /\ wire[c] \in Seq(Transmissions)

LEMMA NoErrorKind == NoError.kind = "none"
  BY DEF NoError, LoopError

\* Until the upgrade there is nothing to end.
LEMMA SetupEnding ==
  ASSUME ServeTypes, ErrorVarTypes, NEW c \in Conns, Known(c), cancelled \subseteq cancelled',
         Enter(c) \/ Authenticate(c) \/ OpenSession(c) \/ Abandon(c) \/ Reject(c) \/ Accept(c)
  PROVE  Ending(c)'
<1> USE DEF Goto, Answer
<1>0. pc[c] \in Setup
  BY DEF Enter, Authenticate, OpenSession, Abandon, Reject, Accept, Setup
<1>1. /\ conn[c] = "none" /\ rpc[c] = "off" /\ wpc[c] = "off" /\ closeFrame[c] = 0 /\ http[c] # 101
      /\ rerr[c] = NoError /\ werr[c] = NoError
  BY <1>0 DEF Known, PhaseOfConnection, Ending, Upright, Reader, Writer
<1>2. CASE Accept(c)
  <2>1. /\ closeFrame'[c] = 0 /\ rerr'[c] = NoError /\ werr'[c] = NoError
        /\ conn'[c] \in {"none", "open"}
        /\ conn'[c] = "none" => http'[c] = 403 /\ pc'[c] = "reject"
    BY <1>1, <1>2 DEF Accept, ServeTypes
  <2> QED
    BY <2>1, NoErrorKind DEF Ending, Upright, Clocked, Justified, Silent
<1>3. CASE Enter(c) \/ Authenticate(c) \/ OpenSession(c) \/ Abandon(c) \/ Reject(c)
  <2>1. UNCHANGED <<connVars, loopVars>>
    BY <1>3 DEF Enter, Authenticate, OpenSession, Abandon, Reject
  <2>2. pc'[c] \notin {"serve", "closeSession", "closeConn"} /\ http'[c] # 101
    <3>1. CASE Enter(c)
      BY <1>1, <3>1 DEF Enter, ServeTypes
    <3>2. CASE Authenticate(c)
      BY <1>1, <3>2 DEF Authenticate, ServeTypes
    <3>3. CASE OpenSession(c)
      BY <1>1, <3>3 DEF OpenSession, ServeTypes
    <3>4. CASE Abandon(c) \/ Reject(c)
      BY <1>1, <3>4 DEF Abandon, Reject, ServeTypes
    <3> QED
      BY <1>3, <3>1, <3>2, <3>3, <3>4
  <2>3. conn'[c] = "none" /\ closeFrame'[c] = 0 /\ rerr'[c] = NoError /\ werr'[c] = NoError
    BY <1>1, <2>1 DEF connVars, loopVars, readVars, writeVars
  <2> QED
    BY <2>2, <2>3, NoErrorKind DEF Ending, Upright, Clocked, Justified, Silent
<1> QED
  BY <1>2, <1>3

\* closeAll: the code it sends is earned by the loop whose error came first, and
\* it is sent unless the connection is down already.
LEMMA ClosingEnding ==
  ASSUME ServeTypes, ErrorVarTypes, NEW c \in Conns, Known(c), cancelled \subseteq cancelled',
         FirstError(c) \/ CloseSession(c) \/ CloseConn(c) \/ Drain(c) \/ Exit(c)
  PROVE  Ending(c)'
<1> USE DEF Goto
<1>1. CASE FirstError(c)
  <2>1. /\ pc[c] = "serve" /\ first[c] = NoError
        /\ UNCHANGED <<surface, http, connVars, readVars, writeVars>>
    BY <1>1 DEF FirstError, Known, Channel
  <2>2. conn[c] # "none"
    BY <2>1 DEF Known, Ending, Upright
  <2>3. Upright(c)' /\ Clocked(c)' /\ Silent(c)'
    BY <2>1, <2>2 DEF Known, Ending, Upright, Clocked, Silent, Cut, connVars, readVars, writeVars
  <2>4. closeFrame[c] # 0 => Earned(c, closeFrame[c])'
    BY <2>1, NoErrorKind DEF Known, Ending, Justified, Earned, connVars, readVars, writeVars
  <2>5. Justified(c)'
    BY <2>1, <2>4 DEF Justified, Earned, connVars
  <2> QED
    BY <2>3, <2>5 DEF Ending
<1>2. CASE CloseSession(c) \/ Drain(c) \/ Exit(c)
  <2>1. UNCHANGED <<surface, http, connVars, first, readVars, writeVars>>
    BY <1>2 DEF CloseSession, Drain, Exit, loopVars, chanVars
  <2>2. pc'[c] \in {"serve", "closeSession", "closeConn"} => pc[c] = "closeSession"
    BY <1>2 DEF CloseSession, Drain, Exit, ServeTypes
  <2>3. Upright(c)' /\ Clocked(c)' /\ Silent(c)' /\ Justified(c)'
    BY <2>1, <2>2 DEF Known, Ending, Upright, Clocked, Silent, Cut, Justified, Earned,
       connVars, readVars, writeVars
  <2> QED
    BY <2>3 DEF Ending
<1>3. CASE CloseConn(c)
  <2>1. /\ pc[c] = "closeConn" /\ pc'[c] = "drain" /\ conn'[c] = "down"
        /\ closeFrame'[c] = IF conn[c] = "open" THEN closeReason(first[c]) ELSE closeFrame[c]
        /\ UNCHANGED <<surface, http, peer, timedOut, loopVars>>
    BY <1>3 DEF CloseConn, ServeTypes
  <2>2. UNCHANGED <<first, readVars, writeVars>>
    BY <2>1 DEF loopVars, chanVars
  <2>3. Upright(c)' /\ Clocked(c)'
    BY <2>1, <2>2 DEF Known, Ending, Upright, Clocked, readVars, writeVars
  <2>4. CASE conn[c] # "open"
    <3>1. conn[c] = "down"
      BY <2>1, <2>4 DEF Known, Ending, Upright, ServeTypes
    <3>2. Justified(c)' /\ Silent(c)'
      BY <2>1, <2>2, <2>4, <3>1 DEF Known, Ending, Silent, Cut, Justified, Earned,
         readVars, writeVars
    <3> QED
      BY <2>3, <3>2 DEF Ending
  <2>5. CASE conn[c] = "open"
    <3>1. FromLoop(c, first[c])
      BY <2>1 DEF Known, Channel
    <3>2. /\ closeReason(first[c]) # 0
          /\ first[c].kind \in {"nil", "canceled"} => closeReason(first[c]) = StatusNormalClosure
          /\ first[c].kind = "protocol" => closeReason(first[c]) = StatusPolicyViolation
          /\ first[c].kind = "peer" => closeReason(first[c]) = first[c].code
          /\ first[c].kind \in {"deadline", "connection", "other"} =>
               closeReason(first[c]) = StatusInternalError
      BY CloseReasonIs DEF Known
    <3>3. /\ rerr[c].kind \in {"peer", "other"} => handled[c] # <<>>
          /\ rerr[c].kind # "connection" /\ werr[c].kind # "connection"
          /\ Clocked(c)
      BY <2>5 DEF Known, Ending, Upright
    <3>4. ASSUME rpc[c] = "ended", first[c] = rerr[c]
          PROVE  Earned(c, closeReason(first[c]))
      <4>1. /\ rerr[c].kind \in {"canceled", "deadline", "protocol", "other", "peer"}
            /\ rerr[c].kind = "protocol" =>
                 \E i \in 1..nread[c] : receive(surface[c], sent[c][i]).result = "protocol"
        BY <3>3, <3>4 DEF Known, Reader
      <4>2. rerr[c].kind = "peer" => rerr[c] = PeerClosed(rerr[c].code)
        BY ErrorTypes DEF Known
      <4> QED
        BY <3>2, <3>3, <3>4, <4>1, <4>2 DEF Earned, Clocked
    <3>5. ASSUME wpc[c] = "ended", first[c] = werr[c]
          PROVE  Earned(c, closeReason(first[c]))
      <4>1. /\ werr[c].kind \in {"nil", "canceled", "deadline", "protocol"}
            /\ werr[c].kind = "protocol" =>
                 \E i \in 1..Len(taken[c]) : transmit(surface[c], taken[c][i]).result = "protocol"
        BY <3>3, <3>5 DEF Known, Writer
      <4>2. 1..Len(taken[c]) = DOMAIN taken[c]
        BY DEF Known
      <4> QED
        BY <3>2, <3>3, <3>5, <4>1, <4>2 DEF Earned, Clocked
    <3>6. Earned(c, closeReason(first[c]))
      BY <3>1, <3>4, <3>5 DEF FromLoop
    <3> QED
      BY <2>1, <2>2, <2>3, <2>5, <3>2, <3>6 DEF Ending, Justified, Silent, Earned, readVars, writeVars
  <2> QED
    BY <2>4, <2>5
<1> QED
  BY <1>1, <1>2, <1>3

\* The read loop.
LEMMA ReadEnding ==
  ASSUME ServeTypes, ErrorVarTypes, DataTypes, NEW c \in Conns, Known(c),
         ReadStep(c) \/ HandleReturns(c)
  PROVE  Ending(c)'
<1>1. CASE ReadFrame(c)
  <2>1. /\ conn[c] = "open" /\ rpc[c] = "read"
        /\ rerr'[c].kind \in {"none", "protocol"}
        /\ UNCHANGED <<pc, http, connVars, werr, cancelled>>
    BY <1>1, ErrorTypes, NoErrorKind
       DEF ReadFrame, setupVars, writeVars, regVars, Known, Reader, ErrorVarTypes
  <2> QED
    BY <2>1 DEF Known, Ending, Upright, Clocked, Justified, Silent, connVars
<1>2. CASE ReadFails(c)
  <2>1. /\ rpc[c] = "read" /\ rerr[c] = NoError
        /\ UNCHANGED <<surface, pc, http, closeFrame, peer, timedOut, first, sent, nread, handled>>
        /\ UNCHANGED <<taken, wire, wpc, werr, cancelled>>
    BY <1>2 DEF ReadFails, Known, Reader, chanVars, setupVars, writeVars, regVars
  <2>2. \/ /\ conn[c] = "down" \/ peer[c] # 0
           /\ conn'[c] = "down" /\ rerr'[c].kind = "connection"
        \/ /\ c \in cancelled /\ conn' = conn
           /\ rerr'[c].kind = IF c \in timedOut THEN "deadline" ELSE "canceled"
    BY <1>2, ErrorTypes, CtxErrIs DEF ReadFails, ServeTypes, ErrorVarTypes, StatusAbnormalClosure
  <2>3. Upright(c)' /\ Clocked(c)'
    BY <2>1, <2>2 DEF Known, Ending, Upright, Clocked
  <2>4. Justified(c)'
    BY <2>1, NoErrorKind DEF Known, Ending, Justified, Earned, PeerClosed
  <2>5. Silent(c)'
    BY <2>1, <2>2 DEF Known, Ending, Silent, Cut
  <2> QED
    BY <2>3, <2>4, <2>5 DEF Ending
<1>3. CASE ReadTooBig(c)
  <2>1. /\ rpc[c] = "read" /\ nread'[c] = nread[c] + 1 /\ rerr'[c].kind = "connection"
        /\ conn'[c] = "down" /\ closeFrame'[c] = StatusMessageTooBig
        /\ UNCHANGED <<handled, timedOut, werr, cancelled>>
    BY <1>3, ErrorTypes DEF ReadTooBig, ServeTypes, ErrorVarTypes, DataTypes, writeVars, regVars
  <2>2. Len(handled[c]) = nread[c] /\ nread[c] \in Nat
    BY <2>1 DEF Known, Reader
  <2>3. Len(handled'[c]) < nread'[c]
    BY <2>1, <2>2
  <2>4. Clocked(c)'
    BY <2>1 DEF Known, Ending, Clocked
  <2> QED
    BY <2>1, <2>3, <2>4 DEF Ending, Upright, Justified, Silent, Earned, StatusMessageTooBig
<1>6. CASE ReadClose(c)
  <2>1. /\ peer[c] # 0 /\ peer[c] \in PeerCodes
        /\ conn'[c] = "down" /\ closeFrame'[c] = peer[c] /\ rerr'[c] = PeerClosed(peer[c])
        /\ UNCHANGED <<peer, handled, timedOut, werr, cancelled>>
    BY <1>6 DEF ReadClose, ServeTypes, ErrorVarTypes, writeVars, regVars
  <2>2. Upright(c)' /\ Clocked(c)'
    BY <2>1, ErrorTypes DEF Known, Ending, Upright, Clocked
  <2>3. Justified(c)' /\ Silent(c)'
    BY <2>1 DEF Justified, Earned, Silent
  <2> QED
    BY <2>2, <2>3 DEF Ending
<1>4. CASE HandleReturns(c)
  <2>1. /\ rpc[c] = "handle" /\ rerr[c] = NoError /\ handled[c] # <<>>
        /\ UNCHANGED <<surface, pc, http, connVars, first, sent, nread, handled>>
        /\ UNCHANGED <<taken, wire, wpc, werr, cancelled>>
        /\ rerr'[c] = NoError \/ rerr'[c].kind \in {"other", "canceled", "peer"}
    BY <1>4, ErrorTypes DEF HandleReturns, ErrorVarTypes, Known, Reader, chanVars, connVars,
       setupVars, writeVars, regVars
  <2>2. Upright(c)' /\ Clocked(c)'
    BY <2>1, NoErrorKind DEF Known, Ending, Upright, Clocked, connVars
  <2>3. Justified(c)'
    BY <2>1, NoErrorKind DEF Known, Ending, Justified, Earned, PeerClosed, connVars
  <2>4. Silent(c)'
    BY <2>1, NoErrorKind DEF Known, Ending, Silent, Cut, connVars
  <2> QED
    BY <2>2, <2>3, <2>4 DEF Ending
<1>5. CASE ReadReturns(c)
  <2>1. /\ rpc[c] = "send"
        /\ UNCHANGED <<surface, pc, http, connVars, first, rerr, sent, nread, handled>>
        /\ UNCHANGED <<taken, wire, wpc, werr, cancelled>>
    BY <1>5 DEF ReadReturns, setupVars, writeVars, regVars
  <2>2. Upright(c)' /\ Clocked(c)' /\ Justified(c)' /\ Silent(c)'
    BY <2>1 DEF Known, Ending, Upright, Clocked, Justified, Earned, Silent, Cut, connVars
  <2> QED
    BY <2>2 DEF Ending
<1> QED
  BY <1>1, <1>2, <1>3, <1>4, <1>5, <1>6 DEF ReadStep

\* The write loop.
LEMMA WriteEnding ==
  ASSUME ServeTypes, ErrorVarTypes, DataTypes, NEW c \in Conns, Known(c),
         WriteStep(c) \/ WriteTakes(c) \/ WriteEnds(c)
  PROVE  Ending(c)'
<1>1. CASE WriteStops(c) \/ WriteEnds(c)
  <2>1. /\ wpc[c] = "select" /\ werr[c] = NoError
        /\ \/ werr'[c].kind = "nil"
           \/ c \in cancelled /\ werr'[c].kind = IF c \in timedOut THEN "deadline" ELSE "canceled"
        /\ UNCHANGED <<surface, pc, http, conn, closeFrame, peer, timedOut, first>>
        /\ UNCHANGED <<rpc, rerr, sent, nread, handled, taken, wire, cancelled>>
    BY <1>1, ErrorTypes, CtxErrIs DEF WriteStops, WriteEnds, WriteLoopEnds, Known, Writer, ErrorVarTypes,
       chanVars, connVars, setupVars, readVars, regVars
  <2>2. Upright(c)' /\ Clocked(c)'
    BY <2>1 DEF Known, Ending, Upright, Clocked
  <2>3. Justified(c)' /\ Silent(c)'
    BY <2>1, NoErrorKind DEF Known, Ending, Justified, Earned, Silent, Cut
  <2> QED
    BY <2>2, <2>3 DEF Ending
<1>2. CASE WriteTakes(c)
  <2>1. /\ wpc[c] = "select" /\ werr[c] = NoError /\ werr'[c].kind \in {"none", "protocol"}
        /\ UNCHANGED <<surface, pc, http, conn, closeFrame, peer, timedOut, first>>
        /\ UNCHANGED <<rpc, rerr, sent, nread, handled, wire, cancelled>>
    BY <1>2, ErrorTypes, NoErrorKind DEF WriteTakes, WriteLoopEnds, Known, Writer, ErrorVarTypes,
       chanVars, connVars, setupVars, readVars, regVars
  <2>2. PICK event \in BackendEvents : taken'[c] = Append(taken[c], event)
    BY <1>2 DEF WriteTakes, DataTypes
  <2>3. \A i \in DOMAIN taken[c] : i \in DOMAIN taken'[c] /\ taken'[c][i] = taken[c][i]
    BY <2>2 DEF Known
  <2>4. Upright(c)' /\ Clocked(c)'
    BY <2>1 DEF Known, Ending, Upright, Clocked
  <2>5. Justified(c)'
    BY <2>1, <2>3 DEF Known, Ending, Justified, Earned
  <2>6. Silent(c)'
    BY <2>1, NoErrorKind DEF Known, Ending, Silent, Cut
  <2> QED
    BY <2>4, <2>5, <2>6 DEF Ending
<1>3. CASE WriteDone(c)
  <2>1. /\ conn[c] = "open"
        /\ UNCHANGED <<surface, pc, http, conn, closeFrame, timedOut, rerr, werr, handled, cancelled>>
    BY <1>3 DEF WriteDone, connVars, setupVars, readVars, regVars
  <2> QED
    BY <2>1 DEF Known, Ending, Upright, Clocked, Justified, Silent
<1>4. CASE WriteFails(c)
  <2>1. /\ wpc[c] = "write" /\ Len(taken[c]) = Len(wire[c]) + 1
        /\ UNCHANGED <<surface, pc, http, closeFrame, peer, timedOut, first>>
        /\ UNCHANGED <<rpc, rerr, sent, nread, handled, taken, wire, cancelled>>
    BY <1>4 DEF WriteFails, Known, Writer, chanVars, setupVars, readVars, regVars
  <2>2. \/ /\ conn[c] = "down" \/ peer[c] # 0
           /\ conn'[c] = "down" /\ werr'[c].kind = "connection"
        \/ /\ c \in cancelled /\ conn' = conn
           /\ werr'[c].kind = IF c \in timedOut THEN "deadline" ELSE "canceled"
    BY <1>4, ErrorTypes, CtxErrIs DEF WriteFails, WriteLoopEnds, ServeTypes, ErrorVarTypes
  <2>3. Len(wire[c]) < Len(taken[c])
    BY <2>1 DEF Known
  <2>4. Upright(c)' /\ Clocked(c)'
    BY <2>1, <2>2 DEF Known, Ending, Upright, Clocked
  <2>5. Justified(c)'
    BY <2>1 DEF Known, Ending, Justified, Earned
  <2>6. Silent(c)'
    BY <2>1, <2>2, <2>3 DEF Known, Ending, Silent, Cut
  <2> QED
    BY <2>4, <2>5, <2>6 DEF Ending
<1>5. CASE WriteReturns(c)
  <2>1. /\ wpc[c] = "send"
        /\ UNCHANGED <<surface, pc, http, connVars, first, werr>>
        /\ UNCHANGED <<rpc, rerr, sent, nread, handled, taken, wire, cancelled>>
    BY <1>5 DEF WriteReturns, setupVars, readVars, regVars
  <2>2. Upright(c)' /\ Clocked(c)' /\ Justified(c)' /\ Silent(c)'
    BY <2>1 DEF Known, Ending, Upright, Clocked, Justified, Earned, Silent, Cut, connVars
  <2> QED
    BY <2>2 DEF Ending
<1> QED
  BY <1>1, <1>2, <1>3, <1>4, <1>5 DEF WriteStep

\* The library, the peer, the backend and the request context.
LEMMA EnvironmentEnding ==
  ASSUME ServeTypes, ErrorVarTypes, DataTypes, NEW c \in Conns, Known(c),
         cancelled \subseteq cancelled',
         Abort(c) \/ PeerStep(c) \/ BackendClosesEvents(c) \/ RequestEnds(c)
  PROVE  Ending(c)'
<1>1. CASE Abort(c)
  <2>1. /\ c \in cancelled /\ conn[c] = "open"
        /\ rpc[c] = "read" \/ wpc[c] = "write"
        /\ conn'[c] = "down" /\ UNCHANGED <<closeFrame, timedOut, loopVars, cancelled>>
    BY <1>1 DEF Abort, ServeTypes, regVars
  <2>2. closeFrame'[c] = 0
    BY <2>1 DEF Known, Ending, Upright
  <2>3. Clocked(c)'
    BY <2>1 DEF Known, Ending, Clocked, loopVars, readVars, writeVars
  <2> QED
    BY <2>1, <2>2, <2>3 DEF Ending, Upright, Justified, Silent, Cut, loopVars, readVars, writeVars
<1>2. CASE PeerSends(c) \/ PeerLeaves(c)
  <2>1. /\ conn[c] = "open"
        /\ UNCHANGED <<pc, http, conn, closeFrame, timedOut, rerr, werr, handled, cancelled>>
    BY <1>2 DEF PeerSends, PeerLeaves, connVars, setupVars, loopVars, readVars, writeVars, regVars
  <2> QED
    BY <2>1 DEF Known, Ending, Upright, Clocked, Justified, Silent
<1>3. CASE BackendClosesEvents(c)
  <2>1. UNCHANGED <<setupVars, connVars, loopVars>>
    BY <1>3 DEF BackendClosesEvents
  <2>2. Untouched(c)
    BY <2>1 DEF Untouched, setupVars, connVars, loopVars, chanVars, readVars, writeVars
  <2> QED
    BY <2>2, EndingFrame DEF Known
<1>4. CASE RequestEnds(c)
  <2>1. /\ c \notin cancelled /\ timedOut \subseteq timedOut'
        /\ UNCHANGED <<surface, pc, http, conn, closeFrame, peer, first>>
        /\ UNCHANGED <<rpc, rerr, wpc, werr, sent, nread, handled, taken, wire>>
    BY <1>4 DEF RequestEnds, setupVars, loopVars, chanVars, readVars, writeVars
  <2>2. Upright(c)' /\ Clocked(c)' /\ Silent(c)'
    BY <2>1 DEF Known, Ending, Upright, Clocked, Silent, Cut
  <2>3. first[c].kind = "canceled" => handled[c] # <<>>
    <3>1. first[c].kind = "canceled" => FromLoop(c, first[c])
      BY NoErrorKind DEF Known, Channel
    <3> QED
      BY <2>1, <3>1 DEF Known, Ending, Clocked, FromLoop
  <2>4. Justified(c)'
    BY <2>1, <2>3 DEF Known, Ending, Justified, Earned
  <2> QED
    BY <2>2, <2>4 DEF Ending
<1> QED
  BY <1>1, <1>2, <1>3, <1>4 DEF PeerStep

LEMMA EndingStep ==
  ASSUME ServeTypes, ErrorVarTypes, DataTypes, PhaseInv, [Next]_vars,
         \A c \in Conns : Reader(c) /\ Writer(c) /\ Channel(c) /\ Ending(c)
  PROVE  \A c \in Conns : Ending(c)'
<1>1. \A c \in Conns : Known(c)
  BY DEF Known, ErrorVarTypes, DataTypes, PhaseInv
<1>2. cancelled \subseteq cancelled'
  BY CancelledGrows
<1>3. CASE (\E k \in Callers : CallerStep(k)) \/ UNCHANGED vars
  <2>1. UNCHANGED connectionVars
    BY <1>3 DEF CallerStep, vars
  <2>2. \A d \in Conns : Untouched(d)
    BY <2>1 DEF Untouched, connectionVars, setupVars, connVars, loopVars, chanVars, readVars,
       writeVars
  <2> QED
    BY <1>2, <2>2, EndingFrame
<1>4. ASSUME NEW c \in Conns,
             \/ Enter(c) \/ ServeStep(c) \/ ReadStep(c) \/ HandleReturns(c)
             \/ WriteStep(c) \/ WriteTakes(c) \/ WriteEnds(c) \/ Abort(c)
             \/ PeerStep(c) \/ BackendClosesEvents(c) \/ RequestEnds(c)
      PROVE  \A d \in Conns : Ending(d)'
  <2>1. Ending(c)'
    BY <1>1, <1>2, <1>4, SetupEnding, ClosingEnding, ReadEnding, WriteEnding, EnvironmentEnding
       DEF ServeStep
  <2>2. ASSUME NEW d \in Conns, d # c PROVE Ending(d)'
    BY <1>2, <1>4, <2>2, OthersUntouched, EndingFrame
  <2> QED
    BY <2>1, <2>2
<1> QED
  BY <1>3, <1>4 DEF Next

-----------------------------------------------------------------------------
(* The invariant and what follows from it.                                 *)

LEMMA LoopInit == Init => LoopInv
<1> SUFFICES ASSUME Init PROVE LoopInv
  OBVIOUS
<1>1. RegTypeOK
  BY TypeInit DEF Init
<1>2. ServeTypes
  BY DEF Init, ServeTypes, Phases, Setup
<1>3. ErrorVarTypes /\ DataTypes
  BY ErrorTypes DEF Init, ErrorVarTypes, DataTypes, NoError
<1>4. ASSUME NEW c \in Conns PROVE Reader(c) /\ Writer(c) /\ Channel(c) /\ Ending(c)
  BY NoErrorKind DEF Init, Reader, Writer, Channel, Ending, Upright, Clocked, Justified, Silent
<1> QED
  BY <1>1, <1>2, <1>3, <1>4, TypeParts DEF LoopInv

LEMMA LoopStep == LoopInv /\ PhaseInv /\ [Next]_vars => LoopInv'
<1> SUFFICES ASSUME LoopInv, PhaseInv, [Next]_vars PROVE LoopInv'
  OBVIOUS
<1>1. /\ RegTypeOK /\ ServeTypes /\ ErrorVarTypes /\ DataTypes
      /\ \A c \in Conns : Reader(c) /\ Writer(c) /\ Channel(c) /\ Ending(c)
  BY TypeParts DEF LoopInv
<1>2. RegTypeOK'
  BY <1>1, NextTable, TypeStep
<1>3. ServeTypes' /\ ErrorVarTypes' /\ DataTypes'
  BY <1>1, ServeTypesStep, ErrorTypesStep, DataTypesStep
<1>4. TypeOK'
  BY <1>2, <1>3, TypeParts DEF TypeOK, ServeTypes, ErrorVarTypes, DataTypes, Phases, Setup, Closing
<1>5. \A c \in Conns : Reader(c)' /\ Writer(c)' /\ Channel(c)' /\ Ending(c)'
  BY <1>1, ReaderStep, WriterStep, ChannelStep, EndingStep
<1> QED
  BY <1>4, <1>5 DEF LoopInv

\* What the loops, the errors channel and the connection know of each other.
THEOREM LoopInvHolds == Spec => []LoopInv
  BY LoopInit, LoopStep, PhaseInvHolds, PTL DEF Spec

\* Every variable of the handler keeps its type; in particular errorsChannel
\* never holds more than its two slots.
THEOREM WsTypeCorrect == Spec => []TypeOK
<1>1. LoopInv => TypeOK
  BY DEF LoopInv
<1> QED
  BY <1>1, LoopInvHolds, PTL

\* The close code is earned, whichever loop lost the race: the peer's own, or
\* the shell's for what its loops met, a request that ran out of time told apart
\* from a cancelled one; and after a clean end of Events() nothing the backend
\* produced is missing on the wire.
THEOREM CloseCodeIsJustifiedHolds == Spec => []CloseCodeIsJustified
<1>1. LoopInv => CloseCodeIsJustified
  <2> SUFFICES ASSUME LoopInv, NEW c \in Conns, closeFrame[c] # 0
               PROVE  /\ Earned(c, closeFrame[c])
                      /\ first[c].kind = "nil" => Len(wire[c]) = Len(taken[c])
    BY DEF CloseCodeIsJustified
  <2>1. Reader(c) /\ Writer(c) /\ Channel(c) /\ Ending(c)
    BY DEF LoopInv
  <2>2. Earned(c, closeFrame[c])
    BY <2>1 DEF Ending, Justified
  <2>3. ASSUME first[c].kind = "nil" PROVE Len(wire[c]) = Len(taken[c])
    <3>1. FromLoop(c, first[c])
      BY <2>1, <2>3, NoErrorKind DEF Channel
    <3>2. werr[c].kind = "nil"
      BY <2>1, <2>3, <3>1 DEF FromLoop, Reader
    <3> QED
      BY <2>1, <3>2 DEF Writer
  <2> QED
    BY <2>2, <2>3
<1> QED
  BY <1>1, LoopInvHolds, PTL

\* A peer that is still there and gets no close frame lost its connection to
\* the cancellation of a Read or Write in progress, and to nothing else.
THEOREM SilentCloseIsAnAbortHolds == Spec => []SilentCloseIsAnAbort
<1>1. LoopInv /\ PhaseInv => SilentCloseIsAnAbort
  <2> SUFFICES ASSUME LoopInv, PhaseInv, NEW c \in Conns, pc[c] \in {"drain", "exit", "done"},
                      http[c] = 101, closeFrame[c] = 0, peer[c] = 0
               PROVE  Cut(c)
    BY DEF SilentCloseIsAnAbort, Cut
  <2>1. Upright(c) /\ Silent(c) /\ conn[c] \in {"none", "open", "down"}
    BY TypeParts DEF LoopInv, Ending, ServeTypes
  <2>2. conn[c] = "down"
    BY <2>1 DEF PhaseInv, PhaseOfConnection, Upright
  <2> QED
    BY <2>1, <2>2 DEF Silent
<1> QED
  BY <1>1, LoopInvHolds, PhaseInvHolds, PTL

\* Backend and peer see each other's traffic in order, without gap or
\* repetition, and inside the profile.
THEOREM ProfileBoundaryHolds == Spec => []ProfileBoundary
<1>1. LoopInv => ProfileBoundary
  <2> SUFFICES ASSUME LoopInv, NEW c \in Conns
               PROVE  /\ Len(handled[c]) <= nread[c]
                      /\ \A i \in DOMAIN handled[c] :
                           /\ handled[c][i].data = sent[c][i].data
                           /\ eventAllowed(surface[c], "client", handled[c][i].type)
                      /\ Len(wire[c]) <= Len(taken[c])
                      /\ \A i \in DOMAIN wire[c] :
                           /\ wire[c][i].type = taken[c][i].type
                           /\ eventAllowed(surface[c], "server", wire[c][i].type)
    BY DEF ProfileBoundary
  <2>1. /\ Reader(c) /\ Writer(c) /\ surface[c] \in Surfaces
        /\ handled[c] \in Seq(Deliveries) /\ wire[c] \in Seq(Transmissions)
    BY TypeParts DEF LoopInv, ServeTypes, DataTypes
  <2>2. DOMAIN handled[c] = 1..Len(handled[c]) /\ DOMAIN wire[c] = 1..Len(wire[c])
    BY <2>1
  <2>3. ASSUME NEW i \in DOMAIN handled[c]
        PROVE  /\ handled[c][i].data = sent[c][i].data
               /\ eventAllowed(surface[c], "client", handled[c][i].type)
    BY <2>1, <2>2, ReceiveIs DEF Reader
  <2>4. ASSUME NEW i \in DOMAIN wire[c]
        PROVE  /\ wire[c][i].type = taken[c][i].type
               /\ eventAllowed(surface[c], "server", wire[c][i].type)
    BY <2>1, <2>2, TransmitIs DEF Writer
  <2> QED
    BY <2>1, <2>3, <2>4 DEF Reader, Writer
<1> QED
  BY <1>1, LoopInvHolds, PTL

-----------------------------------------------------------------------------
(* What the two ends of a session see.                                     *)

\* A loop runs only for a session.
LoopsHaveSession == \A c \in Conns : rpc[c] # "off" \/ wpc[c] # "off" => opened[c]

LEMMA LoopsHaveSessionHolds == Spec => []LoopsHaveSession
<1>1. Init => LoopsHaveSession
  BY DEF Init, LoopsHaveSession
<1>2. LoopsHaveSession /\ PhaseInv /\ [Next]_vars => LoopsHaveSession'
  <2> SUFFICES ASSUME LoopsHaveSession, PhaseInv, [Next]_vars PROVE LoopsHaveSession'
    OBVIOUS
  <2> USE DEF LoopsHaveSession, PhaseInv, PhaseTypes
  <2>1. ASSUME NEW c \in Conns, OpenSession(c) PROVE LoopsHaveSession'
    BY <2>1 DEF OpenSession, loopVars, readVars, writeVars
  <2>2. ASSUME NEW c \in Conns, Accept(c) PROVE LoopsHaveSession'
    BY <2>2 DEF Accept, PhaseOfSession, Goto, sessVars
  <2>3. ASSUME NEW c \in Conns, Enter(c) \/ Authenticate(c) \/ Abandon(c) \/ Reject(c)
        PROVE  LoopsHaveSession'
    BY <2>3 DEF Enter, Authenticate, Abandon, Reject, sessVars, loopVars, readVars, writeVars
  <2>4. ASSUME NEW c \in Conns,
               FirstError(c) \/ CloseSession(c) \/ CloseConn(c) \/ Drain(c) \/ Exit(c)
        PROVE  LoopsHaveSession'
    BY <2>4 DEF FirstError, CloseSession, CloseConn, Drain, Exit, sessVars, loopVars, readVars,
       writeVars
  <2>5. ASSUME NEW c \in Conns, ReadStep(c) \/ HandleReturns(c) PROVE LoopsHaveSession'
    BY <2>5 DEF ReadStep, ReadFrame, ReadClose, ReadFails, ReadTooBig, ReadReturns, HandleReturns, sessVars,
       writeVars
  <2>6. ASSUME NEW c \in Conns, WriteStep(c) \/ WriteTakes(c) \/ WriteEnds(c)
        PROVE  LoopsHaveSession'
    BY <2>6 DEF WriteStep, WriteStops, WriteDone, WriteFails, WriteReturns, WriteTakes, WriteEnds,
       WriteLoopEnds, sessVars, readVars
  <2>7. ASSUME NEW c \in Conns, Abort(c) \/ PeerStep(c) \/ BackendClosesEvents(c) \/ RequestEnds(c)
        PROVE  LoopsHaveSession'
    BY <2>7 DEF Abort, PeerStep, PeerSends, PeerLeaves, BackendClosesEvents, RequestEnds,
       connectionVars, sessVars, loopVars, readVars, writeVars
  <2>8. ASSUME (\E k \in Callers : CallerStep(k)) \/ UNCHANGED vars PROVE LoopsHaveSession'
    BY <2>8 DEF CallerStep, vars, connectionVars, sessVars, loopVars, readVars, writeVars
  <2> QED
    BY <2>1, <2>2, <2>3, <2>4, <2>5, <2>6, <2>7, <2>8 DEF Next, ServeStep
<1> QED
  BY <1>1, <1>2, PhaseInvHolds, PTL DEF Spec

\* One more element at one end is one more at the other.
Gains(old, new, c, x) == new = [old EXCEPT ![c] = Append(@, x)]

LEMMA DataOfAppend ==
  ASSUME NEW S, NEW seqs \in [Conns -> Seq(S)], NEW c \in Conns, NEW x \in S,
         NEW new, Gains(seqs, new, c, x)
  PROVE  Gains(DataOf(seqs), DataOf(new), c, x.data)
<1> DEFINE D(s) == [i \in DOMAIN s |-> s[i].data]
<1>1. D(Append(seqs[c], x)) = Append(D(seqs[c]), x.data)
  OBVIOUS
<1>2. \A d \in Conns : new[d] = IF d = c THEN Append(seqs[c], x) ELSE seqs[d]
  BY DEF Gains
<1>3. \A d \in Conns : DataOf(new)[d] = D(new[d]) /\ DataOf(seqs)[d] = D(seqs[d])
  BY DEF DataOf
<1>4. DataOf(new) = [d \in Conns |-> DataOf(new)[d]] /\ DOMAIN DataOf(seqs) = Conns
  BY DEF DataOf
<1> HIDE DEF D
<1> QED
  BY <1>1, <1>2, <1>3, <1>4 DEF Gains

LEMMA TypesOfAppend ==
  ASSUME NEW S, NEW seqs \in [Conns -> Seq(S)], NEW c \in Conns, NEW x \in S,
         NEW new, Gains(seqs, new, c, x)
  PROVE  Gains(TypesOf(seqs), TypesOf(new), c, x.type)
<1> DEFINE D(s) == [i \in DOMAIN s |-> s[i].type]
<1>1. D(Append(seqs[c], x)) = Append(D(seqs[c]), x.type)
  OBVIOUS
<1>2. \A d \in Conns : new[d] = IF d = c THEN Append(seqs[c], x) ELSE seqs[d]
  BY DEF Gains
<1>3. \A d \in Conns : TypesOf(new)[d] = D(new[d]) /\ TypesOf(seqs)[d] = D(seqs[d])
  BY DEF TypesOf
<1>4. TypesOf(new) = [d \in Conns |-> TypesOf(new)[d]] /\ DOMAIN TypesOf(seqs) = Conns
  BY DEF TypesOf
<1> HIDE DEF D
<1> QED
  BY <1>1, <1>2, <1>3, <1>4 DEF Gains

SessionView ==
  <<HasSession, closes, cancelled, IsOver, DataOf(sent), DataOf(handled), InHandle,
    TypesOf(taken), TypesOf(wire)>>

SessionFacts ==
  /\ RegTypeOK /\ ServeTypes /\ ErrorVarTypes /\ DataTypes /\ PhaseInv /\ LoopsHaveSession
  /\ \A c \in Conns : Reader(c) /\ Writer(c)

\* A step of ServeHTTP opens, closes or leaves the session, ends the context,
\* or is not seen.
LEMMA ServeStepsSession ==
  ASSUME SessionFacts, NEW c \in Conns, Enter(c) \/ ServeStep(c)
  PROVE  \/ UNCHANGED SessionView
         \/ Session!Open(c) \/ Session!Close(c) \/ Session!EndContext(c) \/ Session!Leave(c)
<1> USE DEF SessionFacts, ServeTypes, ErrorVarTypes, Goto
<1>1. CASE Enter(c) /\ Register(c)
  <2>1. UNCHANGED <<opened, closes, cancelled, sent, handled, rpc, taken, wire>>
    BY <1>1 DEF Enter, Register, RegisterUnderKey, sessVars, loopVars, readVars, writeVars
  <2>2. ~Refuse(c)
    BY <1>1 DEF Register, Refuse
  <2>3. pc[c] = "start" /\ pc' = [pc EXCEPT ![c] = "auth"]
    BY <1>1, <2>2 DEF Enter
  <2>4. IsOver' = IsOver
    BY <2>2, <2>3 DEF IsOver
  <2> QED
    BY <2>1, <2>4 DEF SessionView, HasSession, InHandle, DataOf, TypesOf
<1>2. CASE Enter(c) /\ ~Register(c)
  <2>1. UNCHANGED <<opened, closes, sent, handled, rpc, taken, wire>>
    BY <1>2 DEF Enter, sessVars, loopVars, readVars, writeVars
  <2>2. pc[c] = "start" /\ pc' = [pc EXCEPT ![c] = "done"] /\ cancelled' = cancelled \cup {c}
    BY <1>2 DEF Enter, Refuse, Cancel
  <2>3. IsOver' = IsOver \cup {c}
    BY <2>2 DEF IsOver
  <2>4. c \notin HasSession
    BY <2>2 DEF PhaseInv, PhaseOfSession, HasSession
  <2> QED
    BY <2>1, <2>2, <2>3, <2>4 DEF Session!Leave, HasSession, InHandle, DataOf, TypesOf
<1>3. CASE Authenticate(c) \/ Accept(c) \/ CloseConn(c) \/ Drain(c)
  <2>1. UNCHANGED <<opened, closes, cancelled, sent, handled, taken, wire>>
    BY <1>3 DEF Authenticate, Accept, CloseConn, Drain, regVars, tableVars, sessVars, loopVars,
       readVars, writeVars
  <2>2. pc[c] # "done" /\ \E to \in Phases \ {"done"} : pc' = [pc EXCEPT ![c] = to]
    BY <1>3 DEF Authenticate, Accept, CloseConn, Drain, Phases, Setup, Closing
  <2>3. IsOver' = IsOver
    BY <2>2 DEF IsOver
  <2>4. rpc' = rpc \/ (rpc[c] = "off" /\ rpc' = [rpc EXCEPT ![c] = "read"])
    <3>1. CASE Accept(c)
      <4>1. rpc[c] = "off"
        BY <3>1 DEF Accept, PhaseInv, PhaseOfConnection, Setup
      <4> QED BY <3>1, <4>1 DEF Accept
    <3>2. CASE Authenticate(c) \/ CloseConn(c) \/ Drain(c)
      BY <3>2 DEF Authenticate, CloseConn, Drain, loopVars, readVars
    <3> QED BY <1>3, <3>1, <3>2
  <2>5. InHandle' = InHandle
    BY <2>4 DEF InHandle
  <2> QED
    BY <2>1, <2>3, <2>5 DEF SessionView, HasSession, DataOf, TypesOf
<1>4. CASE OpenSession(c)
  <2>1. UNCHANGED <<closes, cancelled, sent, handled, rpc, taken, wire>>
    BY <1>4 DEF OpenSession, regVars, tableVars, loopVars, readVars, writeVars
  <2>2. pc[c] = "open" /\ \E to \in Phases \ {"done"} : pc' = [pc EXCEPT ![c] = to]
    BY <1>4 DEF OpenSession, Phases, Setup, Closing
  <2>3. IsOver' = IsOver /\ c \notin IsOver
    BY <2>2 DEF IsOver
  <2>4. c \notin HasSession
    BY <2>2 DEF PhaseInv, PhaseOfSession, HasSession
  <2>5. HasSession' = HasSession \/ HasSession' = HasSession \cup {c}
    BY <1>4 DEF OpenSession, HasSession
  <2> QED
    BY <2>1, <2>3, <2>4, <2>5 DEF SessionView, Session!Open, InHandle, DataOf, TypesOf
<1>5. CASE Abandon(c) \/ Reject(c) \/ CloseSession(c)
  <2>1. UNCHANGED <<opened, cancelled, sent, handled, rpc, taken, wire>>
    BY <1>5 DEF Abandon, Reject, CloseSession, regVars, tableVars, sessVars, loopVars, readVars,
       writeVars
  <2>2. /\ pc[c] \in {"abandon", "reject", "closeSession"}
        /\ \E to \in Phases \ {"done"} : pc' = [pc EXCEPT ![c] = to]
        /\ closes' = [closes EXCEPT ![c] = @ + 1]
    BY <1>5 DEF Abandon, Reject, CloseSession, closeSession, Phases, Setup, Closing
  <2>3. IsOver' = IsOver /\ c \notin IsOver
    BY <2>2 DEF IsOver
  <2>4. c \in HasSession /\ closes[c] = 0
    BY <2>2 DEF PhaseInv, PhaseOfSession, HasSession, Setup
  <2>5. closes' = [closes EXCEPT ![c] = 1]
    BY <2>2, <2>4
  <2>6. c \in InHandle => c \in cancelled
    BY <2>2 DEF PhaseInv, PhaseOfConnection, InHandle, Setup, Closing
  <2> QED
    BY <2>1, <2>3, <2>4, <2>5, <2>6 DEF Session!Close, HasSession, InHandle, DataOf, TypesOf
<1>6. CASE FirstError(c)
  <2>1. UNCHANGED <<opened, closes, sent, handled, rpc, taken, wire>>
    BY <1>6 DEF FirstError, sessVars, readVars, writeVars
  <2>2. /\ pc[c] = "serve" /\ pc' = [pc EXCEPT ![c] = "closeSession"]
        /\ cancelled' = cancelled \cup {c}
    BY <1>6 DEF FirstError, CancelLive, Cancel
  <2>3. IsOver' = IsOver
    BY <2>2 DEF IsOver
  <2> QED
    BY <2>1, <2>2, <2>3 DEF Session!EndContext, HasSession, InHandle, DataOf, TypesOf
<1>7. CASE Exit(c)
  <2>1. UNCHANGED <<opened, closes, sent, handled, rpc, taken, wire>>
    BY <1>7 DEF Exit, sessVars, loopVars, readVars, writeVars
  <2>2. /\ pc[c] = "exit" /\ pc' = [pc EXCEPT ![c] = "done"]
        /\ cancelled' = cancelled \cup {c}
    BY <1>7 DEF Exit, Unregister, UnregisterClosingIf, Cancel
  <2>3. IsOver' = IsOver \cup {c}
    BY <2>2 DEF IsOver
  <2>4. c \in HasSession => closes[c] = 1
    BY <2>2 DEF PhaseInv, PhaseOfSession, HasSession
  <2> QED
    BY <2>1, <2>2, <2>3, <2>4 DEF Session!Leave, HasSession, InHandle, DataOf, TypesOf
<1> QED
  BY <1>1, <1>2, <1>3, <1>4, <1>5, <1>6, <1>7 DEF ServeStep

\* A step of readLoop takes a frame for the session, ends a call of Handle, or
\* is not seen.
LEMMA ReadStepsSession ==
  ASSUME SessionFacts, NEW c \in Conns, ReadStep(c) \/ HandleReturns(c)
  PROVE  UNCHANGED SessionView \/ Session!Take(c) \/ Session!Return(c)
<1> USE DEF SessionFacts
<1>1. UNCHANGED <<opened, closes, cancelled, pc, sent, taken, wire>>
  BY DEF ReadStep, ReadFrame, ReadClose, ReadFails, ReadTooBig, ReadReturns, HandleReturns, setupVars,
     sessVars, writeVars, regVars
<1>2. UNCHANGED <<HasSession, closes, cancelled, IsOver, DataOf(sent), TypesOf(taken), TypesOf(wire)>>
  BY <1>1 DEF HasSession, IsOver, DataOf, TypesOf
<1>3. CASE ReadFrame(c) /\ handled' # handled
  <2> DEFINE f   == sent[c][nread[c] + 1]
             got == receive(surface[c], f)
  <2>1. /\ rpc[c] = "read" /\ conn[c] = "open" /\ nread[c] < Len(sent[c])
        /\ got.result = "ok"
        /\ handled' = [handled EXCEPT ![c] = Append(@, got.value)]
        /\ rpc' = [rpc EXCEPT ![c] = "handle"]
    BY <1>3 DEF ReadFrame
  <2>2. nread[c] = Len(handled[c]) /\ nread[c] \in Nat /\ sent[c] \in Seq(ClientFrames)
    BY <2>1 DEF Reader, DataTypes
  <2>3. f \in ClientFrames /\ surface[c] \in Surfaces
    BY <2>1, <2>2 DEF ServeTypes
  <2>4. got.value.data = f.data /\ got.value \in Deliveries
    BY <2>1, <2>3, ReceiveIs, CodecTypes
  <2> HIDE DEF got
  <2>5. DataOf(handled') = [DataOf(handled) EXCEPT ![c] = Append(@, f.data)]
    <3>1. handled \in [Conns -> Seq(Deliveries)] /\ got.value \in Deliveries
      BY <2>4 DEF DataTypes
    <3>2. Gains(handled, handled', c, got.value)
      BY <2>1 DEF Gains
    <3>3. Gains(DataOf(handled), DataOf(handled'), c, got.value.data)
      BY <3>1, <3>2, DataOfAppend
    <3> QED BY <2>1, <2>4, <3>3 DEF Gains
  <2>6. /\ DataOf(sent)[c] = [i \in DOMAIN sent[c] |-> sent[c][i].data]
        /\ DataOf(handled)[c] = [i \in DOMAIN handled[c] |-> handled[c][i].data]
    BY DEF DataOf
  <2>7. /\ Len(DataOf(sent)[c]) = Len(sent[c]) /\ Len(DataOf(handled)[c]) = Len(handled[c])
        /\ DataOf(sent)[c][nread[c] + 1] = f.data
    BY <2>1, <2>2, <2>6 DEF DataTypes
  <2>8. Session!Passes(c, DataOf(sent), DataOf(handled))
    BY <2>1, <2>2, <2>5, <2>7 DEF Session!Passes
  <2>9. InHandle' = InHandle \cup {c} /\ c \notin InHandle
    BY <2>1 DEF InHandle, ErrorVarTypes
  <2>10. c \in HasSession /\ c \notin IsOver
    BY <2>1 DEF LoopsHaveSession, HasSession, IsOver, PhaseInv, PhaseOfConnection
  <2>11. closes[c] > 0 => c \in cancelled
    <3>1. pc[c] \in Phases /\ (pc[c] \notin Closing => closes[c] = 0)
      BY DEF PhaseInv, PhaseTypes, PhaseOfSession, Phases, Setup, Closing
    <3>2. pc[c] \in Closing => c \in cancelled
      BY <2>1 DEF PhaseInv, PhaseOfConnection
    <3> QED BY <3>1, <3>2
  <2> QED
    BY <1>2, <2>8, <2>9, <2>10, <2>11 DEF Session!Take
<1>4. CASE ReadFrame(c) /\ handled' = handled
  <2>1. DataOf(handled)' = DataOf(handled)
    BY <1>4 DEF DataOf
  <2>2. rpc[c] = "read" /\ (\/ rpc' = [rpc EXCEPT ![c] = "send"]
                            \/ \E v : handled' = [handled EXCEPT ![c] = Append(@, v)])
    BY <1>4 DEF ReadFrame
  <2>3. \A v : [handled EXCEPT ![c] = Append(@, v)] # handled
    <3> SUFFICES ASSUME NEW v, [handled EXCEPT ![c] = Append(@, v)] = handled PROVE FALSE
      OBVIOUS
    <3>1. Append(handled[c], v) = handled[c]
      BY DEF DataTypes
    <3>2. Len(Append(handled[c], v)) = Len(handled[c]) + 1 /\ Len(handled[c]) \in Nat
      BY DEF DataTypes
    <3> QED BY <3>1, <3>2
  <2>4. InHandle' = InHandle
    BY <1>4, <2>2, <2>3 DEF InHandle, ErrorVarTypes
  <2> QED
    BY <1>2, <2>1, <2>4 DEF SessionView
<1>5. CASE ReadClose(c) \/ ReadFails(c) \/ ReadTooBig(c) \/ ReadReturns(c)
  <2>1. /\ handled' = handled /\ rpc[c] # "handle"
        /\ \E to \in {"send", "ended"} : rpc' = [rpc EXCEPT ![c] = to]
    BY <1>5 DEF ReadClose, ReadFails, ReadTooBig, ReadReturns
  <2>2. InHandle' = InHandle
    BY <2>1 DEF InHandle, ErrorVarTypes
  <2> QED
    BY <1>2, <2>1, <2>2 DEF SessionView, DataOf
<1>6. CASE HandleReturns(c)
  <2>1. /\ handled' = handled
        /\ \E to \in {"read", "send"} : rpc' = [rpc EXCEPT ![c] = to]
    BY <1>6 DEF HandleReturns
  <2>2. InHandle' = InHandle \ {c}
    BY <2>1 DEF InHandle, ErrorVarTypes
  <2>3. DataOf(handled)' = DataOf(handled)
    BY <2>1 DEF DataOf
  <2> QED
    BY <1>2, <2>2, <2>3 DEF Session!Return
<1> QED
  BY <1>3, <1>4, <1>5, <1>6 DEF ReadStep

\* A step of writeLoop takes an event from the session, shows it to the client,
\* or is not seen.
LEMMA WriteStepsSession ==
  ASSUME SessionFacts, NEW c \in Conns, WriteStep(c) \/ WriteTakes(c) \/ WriteEnds(c)
  PROVE  UNCHANGED SessionView \/ Session!Make(c) \/ Session!Show(c)
<1> USE DEF SessionFacts
<1>1. UNCHANGED <<opened, closes, cancelled, pc, sent, handled, rpc>>
  BY DEF WriteStep, WriteStops, WriteDone, WriteFails, WriteReturns, WriteTakes, WriteEnds,
     setupVars, sessVars, readVars, regVars
<1>2. UNCHANGED <<HasSession, closes, cancelled, IsOver, DataOf(sent), DataOf(handled), InHandle>>
  BY <1>1 DEF HasSession, IsOver, DataOf, InHandle
<1>3. CASE WriteTakes(c)
  <2>1. PICK event \in BackendEvents : taken' = [taken EXCEPT ![c] = Append(@, event)]
    BY <1>3 DEF WriteTakes
  <2>2. TypesOf(taken') = [TypesOf(taken) EXCEPT ![c] = Append(@, event.type)]
    <3>1. taken \in [Conns -> Seq(BackendEvents)] /\ event \in BackendEvents
      BY <2>1 DEF DataTypes
    <3>2. Gains(taken, taken', c, event)
      BY <2>1 DEF Gains
    <3>3. Gains(TypesOf(taken), TypesOf(taken'), c, event.type)
      BY <3>1, <3>2, TypesOfAppend
    <3> QED BY <2>1, <3>3 DEF Gains
  <2>3. wire' = wire /\ wpc[c] = "select"
    BY <1>3 DEF WriteTakes
  <2>4. c \in HasSession
    BY <2>3 DEF LoopsHaveSession, HasSession
  <2> QED
    BY <1>2, <2>2, <2>3, <2>4 DEF Session!Make, TypesOf
<1>4. CASE WriteDone(c)
  <2> DEFINE e   == taken[c][Len(taken[c])]
             doc == transmit(surface[c], e)
  <2>1. /\ wpc[c] = "write" /\ conn[c] = "open"
        /\ wire' = [wire EXCEPT ![c] = Append(@, doc.value)]
        /\ taken' = taken
    BY <1>4 DEF WriteDone
  <2>2. doc.result = "ok" /\ Len(taken[c]) = Len(wire[c]) + 1
    BY <2>1 DEF Writer
  <2>3. e \in BackendEvents /\ surface[c] \in Surfaces
    BY <2>2 DEF ServeTypes, DataTypes
  <2>4. doc.value.type = e.type /\ doc.value \in Transmissions
    BY <2>2, <2>3, TransmitIs, CodecTypes
  <2> HIDE DEF doc
  <2>5. TypesOf(wire') = [TypesOf(wire) EXCEPT ![c] = Append(@, e.type)]
    <3>1. wire \in [Conns -> Seq(Transmissions)] /\ doc.value \in Transmissions
      BY <2>4 DEF DataTypes
    <3>2. Gains(wire, wire', c, doc.value)
      BY <2>1 DEF Gains
    <3>3. Gains(TypesOf(wire), TypesOf(wire'), c, doc.value.type)
      BY <3>1, <3>2, TypesOfAppend
    <3> QED BY <2>1, <2>4, <3>3 DEF Gains
  <2>6. /\ TypesOf(taken)[c] = [i \in DOMAIN taken[c] |-> taken[c][i].type]
        /\ TypesOf(wire)[c] = [i \in DOMAIN wire[c] |-> wire[c][i].type]
    BY DEF TypesOf
  <2>7. /\ Len(TypesOf(taken)[c]) = Len(taken[c]) /\ Len(TypesOf(wire)[c]) = Len(wire[c])
        /\ TypesOf(taken)[c][Len(wire[c]) + 1] = e.type
    BY <2>2, <2>6 DEF DataTypes
  <2>8. Session!Passes(c, TypesOf(taken), TypesOf(wire))
    BY <2>2, <2>5, <2>7 DEF Session!Passes, DataTypes
  <2>9. c \notin IsOver
    BY <2>1 DEF IsOver, PhaseInv, PhaseOfConnection
  <2> QED
    BY <1>2, <2>1, <2>8, <2>9 DEF Session!Show, TypesOf
<1>5. CASE WriteStops(c) \/ WriteFails(c) \/ WriteReturns(c) \/ WriteEnds(c)
  <2>1. UNCHANGED <<taken, wire>>
    BY <1>5 DEF WriteStops, WriteFails, WriteReturns, WriteEnds
  <2> QED
    BY <1>2, <2>1 DEF SessionView, TypesOf
<1> QED
  BY <1>3, <1>4, <1>5 DEF WriteStep

\* The environment gives the session a frame, ends the context, or is not seen.
LEMMA EnvironmentStepsSession ==
  ASSUME SessionFacts, NEW c \in Conns,
         Abort(c) \/ PeerStep(c) \/ BackendClosesEvents(c) \/ RequestEnds(c)
  PROVE  UNCHANGED SessionView \/ Session!Give(c) \/ Session!EndContext(c)
<1> USE DEF SessionFacts
<1>1. UNCHANGED <<opened, closes, pc, handled, rpc, taken, wire>>
  BY DEF Abort, PeerStep, PeerSends, PeerLeaves, BackendClosesEvents, RequestEnds, connectionVars,
     setupVars, sessVars, loopVars, readVars, writeVars
<1>2. UNCHANGED <<HasSession, closes, IsOver, DataOf(handled), InHandle, TypesOf(taken), TypesOf(wire)>>
  BY <1>1 DEF HasSession, IsOver, DataOf, InHandle, TypesOf
<1>3. CASE PeerSends(c)
  <2>1. PICK frame \in ClientFrames : sent' = [sent EXCEPT ![c] = Append(@, frame)]
    BY <1>3 DEF PeerSends
  <2>2. DataOf(sent') = [DataOf(sent) EXCEPT ![c] = Append(@, frame.data)]
    <3>1. sent \in [Conns -> Seq(ClientFrames)] /\ frame \in ClientFrames
      BY <2>1 DEF DataTypes
    <3>2. Gains(sent, sent', c, frame)
      BY <2>1 DEF Gains
    <3>3. Gains(DataOf(sent), DataOf(sent'), c, frame.data)
      BY <3>1, <3>2, DataOfAppend
    <3> QED BY <2>1, <3>3 DEF Gains
  <2>3. cancelled' = cancelled
    BY <1>3 DEF PeerSends, regVars
  <2> QED
    BY <1>2, <2>2, <2>3 DEF Session!Give
<1>4. CASE RequestEnds(c)
  <2>1. sent' = sent /\ cancelled' = cancelled \cup {c}
    BY <1>4 DEF RequestEnds, CancelLive, Cancel, connectionVars, loopVars, readVars
  <2> QED
    BY <1>2, <2>1 DEF Session!EndContext, DataOf
<1>5. CASE Abort(c) \/ PeerLeaves(c) \/ BackendClosesEvents(c)
  <2>1. UNCHANGED <<sent, cancelled>>
    BY <1>5 DEF Abort, PeerLeaves, BackendClosesEvents, loopVars, readVars, regVars
  <2> QED
    BY <1>2, <2>1 DEF SessionView, DataOf
<1> QED
  BY <1>3, <1>4, <1>5 DEF PeerStep

\* Shutdown ends the context of one session at a time.
LEMMA CallerStepsSession ==
  ASSUME SessionFacts, NEW k \in Callers, CallerStep(k)
  PROVE  UNCHANGED SessionView \/ \E c \in Conns : Session!EndContext(c)
<1> USE DEF SessionFacts
<1>1. UNCHANGED <<opened, closes, pc, sent, handled, rpc, taken, wire>>
  BY DEF CallerStep, connectionVars, setupVars, sessVars, loopVars, readVars, writeVars
<1>2. UNCHANGED <<HasSession, closes, IsOver, DataOf(sent), DataOf(handled), InHandle,
                  TypesOf(taken), TypesOf(wire)>>
  BY <1>1 DEF HasSession, IsOver, DataOf, InHandle, TypesOf
<1>3. CASE CallCancel(k)
  <2>1. PICK c \in cancels[k] : cancelled' = cancelled \cup {c}
    BY <1>3 DEF CallCancel, Cancel
  <2>2. c \in Conns
    BY DEF RegTypeOK
  <2> QED
    BY <1>2, <2>1, <2>2 DEF Session!EndContext
<1>4. CASE BeginShutdown(k) \/ ReturnDone(k) \/ ReturnExpired(k) \/ Expire(k)
  <2>1. cancelled' = cancelled
    BY <1>4 DEF BeginShutdown, BeginShutdownCollecting, ReturnDone, ReturnExpired,
       ReturnExpiredEarly, Expire
  <2> QED
    BY <1>2, <2>1 DEF SessionView
<1> QED
  BY <1>3, <1>4 DEF CallerStep, ShutdownStep

\* The handler keeps the session contract, for every number of requests and of
\* Shutdown calls: whatever the two loops, ServeHTTP, Shutdown, the peer and the
\* backend do and in whatever order, the session and the client see only steps
\* of SessionContract.
THEOREM HandlerKeepsSessionContract == Spec => KeepsSessionContract
<1>1. Init => Session!SessionInit
  BY DEF Init, RegInit, Session!SessionInit, HasSession, IsOver, InHandle, DataOf, TypesOf
<1>2. SessionFacts /\ [Next]_vars => [Session!SessionNext]_(Session!sessionVars)
  <2> SUFFICES ASSUME SessionFacts, [Next]_vars
               PROVE  Session!SessionNext \/ UNCHANGED SessionView
    BY DEF SessionView, Session!sessionVars
  <2>1. ASSUME NEW c \in Conns, Enter(c) \/ ServeStep(c)
        PROVE  Session!SessionNext \/ UNCHANGED SessionView
    BY <2>1, ServeStepsSession DEF Session!SessionNext
  <2>2. ASSUME NEW c \in Conns, ReadStep(c) \/ HandleReturns(c)
        PROVE  Session!SessionNext \/ UNCHANGED SessionView
    BY <2>2, ReadStepsSession DEF Session!SessionNext
  <2>3. ASSUME NEW c \in Conns, WriteStep(c) \/ WriteTakes(c) \/ WriteEnds(c)
        PROVE  Session!SessionNext \/ UNCHANGED SessionView
    BY <2>3, WriteStepsSession DEF Session!SessionNext
  <2>4. ASSUME NEW c \in Conns,
               Abort(c) \/ PeerStep(c) \/ BackendClosesEvents(c) \/ RequestEnds(c)
        PROVE  Session!SessionNext \/ UNCHANGED SessionView
    BY <2>4, EnvironmentStepsSession DEF Session!SessionNext
  <2>5. ASSUME NEW k \in Callers, CallerStep(k)
        PROVE  Session!SessionNext \/ UNCHANGED SessionView
    BY <2>5, CallerStepsSession DEF Session!SessionNext
  <2>6. CASE UNCHANGED vars
    BY <2>6 DEF vars, regVars, connectionVars, setupVars, sessVars, loopVars, readVars, writeVars,
       SessionView, HasSession, IsOver, DataOf, InHandle, TypesOf
  <2> QED
    BY <2>1, <2>2, <2>3, <2>4, <2>5, <2>6 DEF Next
<1>3. LoopInv /\ PhaseInv /\ LoopsHaveSession => SessionFacts
  BY TypeParts DEF LoopInv, SessionFacts
<1> QED
  BY <1>1, <1>2, <1>3, LoopInvHolds, PhaseInvHolds, LoopsHaveSessionHolds, PTL
     DEF Spec, KeepsSessionContract, Session!SessionSpec
=============================================================================
