----------------------------- MODULE WsRegistry -----------------------------
(***************************************************************************)
(* The session table of openai/internal/websocket.Handler: register,       *)
(* unregister and Shutdown.  Every critical section under h.mu is one      *)
(* action; what Shutdown does after unlocking (calling the collected       *)
(* cancel functions one by one, then waiting) is a sequence of further     *)
(* steps, so handlers and other Shutdown calls interleave with it.         *)
(***************************************************************************)
EXTENDS Naturals, FiniteSets

CONSTANTS Conns,     \* upgrade requests; each runs ServeHTTP once
          Callers    \* calls of Shutdown; each runs once

VARIABLES shuttingDown, \* Handler.shuttingDown
          nextSession,  \* Handler.nextSession
          active,       \* the keys of Handler.active
          doneCloses,   \* how often close(h.shutdownDone) has run
          life,         \* where a request stands: new, live, refused, gone
          sid,          \* the sessionID a request was given, 0 before
          cancelled,    \* requests whose context has been cancelled
          spc,          \* where a Shutdown call stands
          cancels,      \* the cancel functions a Shutdown call has yet to run
          expired       \* Shutdown calls whose own context has ended

tableVars  == <<shuttingDown, nextSession, active, doneCloses>>
callerVars == <<spc, cancels, expired>>
regVars    == <<tableVars, life, sid, cancelled, callerVars>>

Live == {c \in Conns : life[c] = "live"}

RegInit ==
  /\ shuttingDown = FALSE
  /\ nextSession = 0
  /\ active = {}
  /\ doneCloses = 0
  /\ life = [c \in Conns |-> "new"]
  /\ sid = [c \in Conns |-> 0]
  /\ cancelled = {}
  /\ spc = [k \in Callers |-> "idle"]
  /\ cancels = [k \in Callers |-> {}]
  /\ expired = {}

-----------------------------------------------------------------------------
\* context.CancelFunc: idempotent.
Cancel(c) == cancelled' = cancelled \cup {c}

\* Definitions named ...Without... and the like are faulty variants of the
\* definition that follows them; no specification uses them.

\* h.shutdownOnce.Do(close(h.shutdownDone)) under the condition in the code.
CloseDoneIf(condition) ==
  doneCloses' = IF condition /\ doneCloses = 0 THEN doneCloses + 1 ELSE doneCloses

\* What register does under the lock once it has decided to admit c.
RegisterUnderKey(c, key) ==
  /\ life[c] = "new"
  /\ nextSession' = nextSession + 1
  /\ sid' = [sid EXCEPT ![c] = key]
  /\ active' = active \cup {key}
  /\ life' = [life EXCEPT ![c] = "live"]
  /\ UNCHANGED <<shuttingDown, doneCloses, cancelled, callerVars>>

RegisterWithoutCheck(c) == RegisterUnderKey(c, nextSession + 1)
RegisterTableSize(c) == ~shuttingDown /\ RegisterUnderKey(c, Cardinality(active) + 1)
Register(c) ==
  /\ ~shuttingDown
  /\ RegisterUnderKey(c, nextSession + 1)

\* ServeHTTP when register reports false: cancel, answer 503, return.
Refuse(c) ==
  /\ life[c] = "new"
  /\ shuttingDown
  /\ Cancel(c)
  /\ life' = [life EXCEPT ![c] = "refused"]
  /\ UNCHANGED <<tableVars, sid, callerVars>>

\* The context of a request ends early: the handler's own closeAll, or its
\* parent, the request context.
CancelLive(c) ==
  /\ life[c] = "live"
  /\ Cancel(c)
  /\ UNCHANGED <<tableVars, life, sid, callerVars>>

\* The deferred cancel() and unregister(sessionID), in the order they run.
UnregisterClosingIf(c, condition) ==
  /\ life[c] = "live"
  /\ Cancel(c)
  /\ active' = active \ {sid[c]}
  /\ CloseDoneIf(condition)
  /\ life' = [life EXCEPT ![c] = "gone"]
  /\ UNCHANGED <<shuttingDown, nextSession, sid, callerVars>>

UnregisterWithoutClose(c) == UnregisterClosingIf(c, FALSE)
Unregister(c) ==
  UnregisterClosingIf(c, shuttingDown /\ active \ {sid[c]} = {})

-----------------------------------------------------------------------------
\* Shutdown up to h.mu.Unlock.
BeginShutdownCollecting(k, requests) ==
  /\ spc[k] = "idle"
  /\ spc' = [spc EXCEPT ![k] = "cancelling"]
  /\ shuttingDown' = TRUE
  /\ cancels' = [cancels EXCEPT ![k] = requests]
  /\ CloseDoneIf(active = {})
  /\ UNCHANGED <<nextSession, active, life, sid, cancelled, expired>>

\* h.active's values are the cancel functions of the requests whose key is in
\* the table.
InTable == {c \in Conns : sid[c] \in active}

BeginShutdownFirstOnly(k) ==
  BeginShutdownCollecting(k, IF shuttingDown THEN {} ELSE InTable)
BeginShutdown(k) == BeginShutdownCollecting(k, InTable)

CallCancel(k) ==
  /\ spc[k] = "cancelling"
  /\ \E c \in cancels[k] :
        /\ Cancel(c)
        /\ cancels' = [cancels EXCEPT ![k] = @ \ {c}]
  /\ UNCHANGED <<tableVars, life, sid, spc, expired>>

\* The final select; when both channels are ready Go picks either.
ReturnDone(k) ==
  /\ spc[k] = "cancelling"
  /\ cancels[k] = {}
  /\ doneCloses > 0
  /\ spc' = [spc EXCEPT ![k] = "nil"]
  /\ UNCHANGED <<tableVars, life, sid, cancelled, cancels, expired>>

ReturnExpiredEarly(k) ==
  /\ spc[k] = "cancelling"
  /\ k \in expired
  /\ spc' = [spc EXCEPT ![k] = "err"]
  /\ UNCHANGED <<tableVars, life, sid, cancelled, cancels, expired>>
ReturnExpired(k) ==
  /\ cancels[k] = {}
  /\ ReturnExpiredEarly(k)

\* The application's shutdown context ends, before or during the call.
Expire(k) ==
  /\ k \notin expired
  /\ expired' = expired \cup {k}
  /\ UNCHANGED <<tableVars, life, sid, cancelled, spc, cancels>>

ShutdownStep(k) ==
  BeginShutdown(k) \/ CallCancel(k) \/ ReturnDone(k) \/ ReturnExpired(k)

RegNext ==
  \/ \E c \in Conns : Register(c) \/ Refuse(c) \/ CancelLive(c) \/ Unregister(c)
  \/ \E k \in Callers : ShutdownStep(k) \/ Expire(k)

RegSpec == RegInit /\ [][RegNext]_regVars

-----------------------------------------------------------------------------
\* Every variable of the session table and of the Shutdown calls has its type.
RegTypeOK ==
  /\ shuttingDown \in BOOLEAN
  /\ nextSession \in Nat
  /\ active \subseteq 1..nextSession
  /\ doneCloses \in Nat
  /\ life \in [Conns -> {"new", "live", "refused", "gone"}]
  /\ sid \in [Conns -> 0..nextSession]
  /\ cancelled \subseteq Conns
  /\ spc \in [Callers -> {"idle", "cancelling", "nil", "err"}]
  /\ cancels \in [Callers -> SUBSET Conns]
  /\ expired \subseteq Callers

\* Closing a closed channel panics: whatever the number of Shutdown calls and
\* however they race with the last unregister, shutdownDone is closed at most
\* once (h.shutdownOnce).
DoneClosedOnce == doneCloses <= 1

\* A Shutdown call that returned nil finds no request between register and
\* unregister, then and ever after, although register may have been running
\* when the call began.
NilMeansQuiescent ==
  (\E k \in Callers : spc[k] = "nil") => Live = {}

\* Also a call that gave up because its context ended has cancelled every
\* request that is still in ServeHTTP, including those registered while an
\* earlier Shutdown call was collecting cancel functions.
ReturnMeansCancelled ==
  (\E k \in Callers : spc[k] \in {"nil", "err"}) => Live \subseteq cancelled

\* No lost wake-up: once shutting down with nobody left in the table the
\* channel Shutdown waits on is closed, so no call can wait for ever for a
\* close that has been missed.
NoLostWakeup == (shuttingDown /\ Live = {}) => doneCloses > 0

\* The table holds the keys of exactly the requests that are live, each under
\* a key of its own: unregister never removes another request's entry.
TableMatchesLive ==
  /\ active = {sid[c] : c \in Live}
  /\ \A c, d \in Conns : sid[c] = sid[d] /\ sid[c] # 0 => c = d

-----------------------------------------------------------------------------
\* Strengthening that makes the properties above inductive.
KeysIssued ==
  \A c \in Conns : (sid[c] = 0) <=> (life[c] \in {"new", "refused"})

DoneMeansDrained == doneCloses > 0 => (shuttingDown /\ Live = {})

CallersCover ==
  \A k \in Callers :
     /\ spc[k] # "idle" => shuttingDown /\ Live \subseteq cancels[k] \cup cancelled
     /\ spc[k] \in {"nil", "err"} => cancels[k] = {}
     /\ spc[k] = "nil" => doneCloses > 0

RegIndInv ==
  /\ RegTypeOK
  /\ KeysIssued
  /\ TableMatchesLive
  /\ DoneClosedOnce
  /\ DoneMeansDrained
  /\ NoLostWakeup
  /\ CallersCover

-----------------------------------------------------------------------------
\* The contract seen through the table: a request is running while it is
\* live, and a call has a verdict once its select has fired.
Contract == INSTANCE ShutdownContract WITH
  accepting <- ~shuttingDown,
  running   <- Live,
  told      <- cancelled,
  verdict   <- [k \in Callers |-> IF spc[k] \in {"nil", "err"} THEN spc[k] ELSE "none"]

\* The session table with its mutex, snapshot of cancel functions and
\* once-closed channel does what Shutdown promises.
ImplementsContract == Contract!ContractSpec
=============================================================================
