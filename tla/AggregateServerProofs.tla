------------------------ MODULE AggregateServerProofs -----------------------
(***************************************************************************)
(* Proofs about aiservershell.Server, for any mounted handlers, requests   *)
(* and number of options: what holds when Shutdown has returned, and that  *)
(* the server keeps ShutdownContract when its handlers do.                 *)
(***************************************************************************)
EXTENDS AggregateServer, TLAPS

-----------------------------------------------------------------------------
(* What the walk over the handlers has done so far.                        *)

\* No handler serves before New has returned; the walk has not begun before
\* Shutdown, and is over when it has returned; a handler is waited for only
\* after it has been told.
WalkPhase ==
  /\ phase \in {"building", "failed"} => \A h \in Handlers : running[h] = {} /\ told[h] = {}
  /\ phase \in {"building", "failed", "serving"} => pos = 1 /\ ~waiting
  /\ phase = "stopped" => pos > Len(mounted)
  /\ waiting => AtHandler /\ Current \in Lifecycle \ accepting

\* The position of a handler with a lifecycle has a verdict once it is passed:
\* from then on the handler refuses upgrades and all its requests have been
\* told, and after a nil none is left.
Passed(i) ==
  LET h == mounted[i].handler
  IN  h \in Lifecycle =>
        /\ h \notin accepting
        /\ running[h] \subseteq told[h]
        /\ verdicts[i] \in {"nil", "err"}
        /\ verdicts[i] = "nil" => running[h] = {}

\* A request is served by one handler.
OneHandlerEach ==
  \A g, h \in Handlers : g # h =>
    (running[g] \cup told[g]) \cap (running[h] \cup told[h]) = {}

WalkInv ==
  /\ TypeOK
  /\ WalkPhase
  /\ OneHandlerEach
  /\ \A i \in 1..(pos - 1) : Passed(i)
  /\ \A i \in Positions : i >= pos => verdicts[i] = "none"

LEMMA WalkInit == Init => WalkInv
<1> SUFFICES ASSUME Init PROVE WalkInv
  OBVIOUS
<1>1. TypeOK
  <2>1. /\ <<>> \in Seq([pattern : Patterns \ Invalid, handler : Handlers])
        /\ Len(<<>>) = 0 /\ DOMAIN <<>> = {} /\ 1 \in 1..(0 + 1) /\ 0 <= MaxOptions
    BY ServerAssumption
  <2> QED
    BY <2>1 DEF Init, TypeOK
<1>2. WalkPhase
  BY DEF Init, WalkPhase
<1> QED
  BY <1>1, <1>2 DEF Init, WalkInv, OneHandlerEach

\* An option mounts a handler under a pattern nobody has, or ends New.
LEMMA WithHandlerKeeps ==
  ASSUME WalkInv, NEW p \in Patterns, NEW h \in Handlers \cup {NilHandler}, WithHandler(p, h)
  PROVE  WalkInv'
<1> DEFINE entry == [pattern |-> p, handler |-> h]
<1> USE DEF WalkInv, handlerVars, shutdownVars
<1>1. /\ phase = "building" /\ pos = 1 /\ ~waiting /\ Len(mounted) < MaxOptions
      /\ UNCHANGED <<accepting, running, told, pos, waiting, verdicts>>
  BY DEF WithHandler, WalkPhase
<1>2. CASE Acceptable(p, h)
  <2>1. mounted' = Append(mounted, entry) /\ phase' = phase
    BY <1>2 DEF WithHandler
  <2>2. entry \in [pattern : Patterns \ Invalid, handler : Handlers]
    BY <1>2 DEF Acceptable
  <2>3. /\ mounted' \in Seq([pattern : Patterns \ Invalid, handler : Handlers])
        /\ Len(mounted') = Len(mounted) + 1 /\ Len(mounted) \in Nat
        /\ DOMAIN mounted = 1..Len(mounted) /\ DOMAIN mounted' = 1..(Len(mounted) + 1)
        /\ \A i \in 1..Len(mounted) : mounted'[i] = mounted[i]
        /\ mounted'[Len(mounted) + 1] = entry
    BY <2>1, <2>2 DEF TypeOK
  <2>4. \A i \in 1..Len(mounted) : mounted[i].pattern # p
    BY <1>2, <2>3 DEF Acceptable
  <2>5. \A i, j \in DOMAIN mounted' : mounted'[i].pattern = mounted'[j].pattern => i = j
    BY <2>3, <2>4 DEF TypeOK
  <2>6. TypeOK'
    BY <1>1, <2>1, <2>3, <2>5, ServerAssumption DEF TypeOK
  <2> QED
    BY <1>1, <2>1, <2>6 DEF WalkPhase, OneHandlerEach
<1>3. CASE ~Acceptable(p, h)
  <2>1. mounted' = mounted /\ phase' = "failed"
    BY <1>3 DEF WithHandler
  <2>2. TypeOK'
    BY <1>1, <2>1 DEF TypeOK
  <2> QED
    BY <1>1, <2>1, <2>2 DEF WalkPhase, OneHandlerEach
<1> QED
  BY <1>2, <1>3

\* The other steps that only move the phase on.
LEMMA PhaseStepKeeps ==
  ASSUME WalkInv, NilOption \/ Build \/ Shutdown \/ Return
  PROVE  WalkInv'
<1> USE DEF WalkInv, handlerVars, shutdownVars, NilOption, Build, Shutdown, Return
<1>1. UNCHANGED <<mounted, accepting, running, told, pos, waiting, verdicts>>
  OBVIOUS
<1>2. MuxAccepts' <=> MuxAccepts
  BY <1>1 DEF MuxAccepts
<1>3. TypeOK'
  BY <1>1, <1>2 DEF TypeOK
<1>4. WalkPhase'
  BY <1>1 DEF WalkPhase, AtHandler, TypeOK
<1> QED
  BY <1>1, <1>3, <1>4 DEF Passed, OneHandlerEach

\* Requests come and go; none comes to a handler that has been passed.
LEMMA RequestKeeps ==
  ASSUME WalkInv, NEW h \in Handlers, NEW r \in Reqs, Upgrade(h, r) \/ Leave(h, r)
  PROVE  WalkInv'
<1> USE DEF WalkInv, shutdownVars
<1>1. /\ UNCHANGED <<phase, mounted, accepting, pos, waiting, verdicts>>
      /\ running' \in [Handlers -> SUBSET Reqs] /\ told' \in [Handlers -> SUBSET Reqs]
  BY DEF Upgrade, Leave, TypeOK
<1>2. \A g \in Handlers : g \notin accepting =>
        /\ running[g] \subseteq told[g] => running'[g] \subseteq told'[g]
        /\ running[g] = {} => running'[g] = {}
  BY DEF Upgrade, Leave, TypeOK
<1>3. TypeOK' /\ WalkPhase'
  <2>1. phase \notin {"building", "failed"}
    BY DEF Upgrade, Leave, WalkPhase
  <2> QED
    BY <1>1, <2>1 DEF TypeOK, MuxAccepts, WalkPhase, AtHandler, Current
<1>4. ASSUME NEW i \in 1..(pos - 1) PROVE Passed(i)'
  <2>1. Passed(i) /\ (mounted[i].handler \in Lifecycle => mounted[i].handler \in Handlers)
    BY ServerAssumption
  <2> QED
    BY <1>1, <1>2, <2>1 DEF Passed
<1>5. OneHandlerEach'
  <2>1. CASE Upgrade(h, r)
    <3>1. told' = told
      BY <2>1 DEF Upgrade
    <3>2. \A g \in Handlers : r \notin running[g] \cup told[g]
      BY <2>1 DEF Upgrade
    <3>3. \A g \in Handlers : running'[g] = IF g = h THEN running[g] \cup {r} ELSE running[g]
      BY <2>1 DEF Upgrade, TypeOK
    <3>4. ASSUME NEW f \in Handlers, NEW g \in Handlers, f # g,
                 NEW e \in running'[f] \cup told'[f]
          PROVE  e \notin running'[g] \cup told'[g]
      <4>1. e = r \/ e \notin running[g] \cup told[g]
        BY <3>1, <3>3, <3>4 DEF OneHandlerEach
      <4>2. e = r => f = h /\ g # h
        BY <3>1, <3>2, <3>3, <3>4
      <4> QED
        BY <3>1, <3>2, <3>3, <3>4, <4>1, <4>2
    <3> QED
      BY <3>4 DEF OneHandlerEach
  <2>2. CASE Leave(h, r)
    <3>1. /\ r \in running[h]
          /\ \A g \in Handlers :
               /\ running'[g] = IF g = h THEN running[g] \ {r} ELSE running[g]
               /\ told'[g] = IF g = h THEN told[g] \cup {r} ELSE told[g]
      BY <2>2 DEF Leave, TypeOK
    <3> QED
      BY <3>1 DEF OneHandlerEach
  <2> QED
    BY <2>1, <2>2
<1> QED
  BY <1>1, <1>3, <1>4, <1>5

\* Handlers hear of Shutdown one at a time.
LEMMA HandlerKeeps ==
  ASSUME WalkInv, CallHandler \/ (\E r \in Reqs : HandlerCancels(r))
  PROVE  WalkInv'
<1> USE DEF WalkInv, handlerVars, shutdownVars
<1>1. /\ UNCHANGED <<phase, mounted, running, pos, verdicts>>
      /\ accepting' \subseteq accepting
      /\ told' \in [Handlers -> SUBSET Reqs]
      /\ \A g \in Handlers : told[g] \subseteq told'[g]
      /\ waiting' \in BOOLEAN
  <2>1. CASE CallHandler
    BY <2>1 DEF CallHandler, TypeOK
  <2>2. ASSUME NEW r \in Reqs, HandlerCancels(r)
        PROVE  /\ told' \in [Handlers -> SUBSET Reqs]
               /\ \A g \in Handlers : told[g] \subseteq told'[g]
    BY <2>2 DEF HandlerCancels, TypeOK
  <2>3. CASE \E r \in Reqs : HandlerCancels(r)
    BY <2>2, <2>3 DEF HandlerCancels, TypeOK
  <2> QED
    BY <2>1, <2>3
<1>2. TypeOK'
  BY <1>1 DEF TypeOK, MuxAccepts
<1>3. WalkPhase'
  BY <1>1 DEF WalkPhase, AtHandler, Current, CallHandler, HandlerCancels
<1>4. ASSUME NEW i \in 1..(pos - 1) PROVE Passed(i)'
  <2>1. Passed(i) /\ (mounted[i].handler \in Lifecycle => mounted[i].handler \in Handlers)
    BY ServerAssumption
  <2> QED
    BY <1>1, <2>1 DEF Passed
<1>5. OneHandlerEach'
  <2>1. \A g \in Handlers : running'[g] \cup told'[g] \subseteq running[g] \cup told[g]
    <3>1. CASE CallHandler
      BY <3>1 DEF CallHandler
    <3>2. ASSUME NEW r \in Reqs, HandlerCancels(r), NEW g \in Handlers
          PROVE  told'[g] \subseteq running[g] \cup told[g]
      BY <3>2 DEF HandlerCancels, TypeOK
    <3> QED
      BY <1>1, <3>1, <3>2
  <2> QED
    BY <2>1 DEF OneHandlerEach
<1> QED
  BY <1>1, <1>2, <1>3, <1>4, <1>5

\* The walk goes on to the next position.
LEMMA StepKeeps ==
  ASSUME WalkInv, Skip \/ \E verdict \in {"nil", "err"} : HandlerReturns(verdict)
  PROVE  WalkInv'
<1> USE DEF WalkInv, handlerVars
<1>1. /\ UNCHANGED <<phase, mounted, accepting, running, told>>
      /\ AtHandler /\ pos' = pos + 1 /\ ~waiting'
  BY DEF Skip, HandlerReturns, WalkPhase
<1>2. /\ pos \in 1..Len(mounted) /\ Len(mounted) \in Nat /\ pos \in Positions
      /\ pos' \in 1..(Len(mounted) + 1)
  BY <1>1, ServerAssumption DEF AtHandler, TypeOK, Positions
<1>3. /\ verdicts' \in [Positions -> {"none", "nil", "err"}]
      /\ \A i \in Positions : i # pos => verdicts'[i] = verdicts[i]
  BY DEF Skip, HandlerReturns, TypeOK
<1>4. TypeOK' /\ waiting' = FALSE
  <2>1. waiting' \in BOOLEAN
    BY DEF Skip, HandlerReturns, TypeOK
  <2> QED
    BY <1>1, <1>2, <1>3, <2>1 DEF TypeOK, MuxAccepts
<1>5. WalkPhase'
  BY <1>1, <1>4 DEF WalkPhase, AtHandler
<1>6. ASSUME NEW i \in 1..(pos' - 1) PROVE Passed(i)'
  <2>1. CASE i # pos
    <3>1. i \in 1..(pos - 1) /\ i \in Positions
      BY <1>1, <1>2, <2>1, ServerAssumption DEF Positions, TypeOK
    <3> QED
      BY <1>1, <1>3, <2>1, <3>1 DEF Passed
  <2>2. CASE i = pos
    <3>1. CASE Skip
      BY <1>1, <2>2, <3>1 DEF Skip, Passed, Current
    <3>2. ASSUME NEW verdict \in {"nil", "err"}, HandlerReturns(verdict) PROVE Passed(i)'
      BY <1>1, <1>2, <2>2, <3>2 DEF HandlerReturns, Passed, Current, WalkPhase, TypeOK
    <3> QED
      BY <3>1, <3>2
  <2> QED
    BY <2>1, <2>2
<1>7. \A i \in Positions : i >= pos' => verdicts'[i] = "none"
  BY <1>1, <1>2, <1>3, ServerAssumption DEF Positions
<1> QED
  BY <1>1, <1>4, <1>5, <1>6, <1>7 DEF OneHandlerEach

-----------------------------------------------------------------------------
(* The theorems.                                                           *)

LEMMA WalkNext == WalkInv /\ [Next]_vars => WalkInv'
<1> SUFFICES ASSUME WalkInv, [Next]_vars PROVE WalkInv'
  OBVIOUS
<1>1. CASE UNCHANGED vars
  BY <1>1 DEF vars, handlerVars, shutdownVars, WalkInv, TypeOK, MuxAccepts, WalkPhase,
              AtHandler, Current, Passed, OneHandlerEach
<1> QED
  BY <1>1, WithHandlerKeeps, PhaseStepKeeps, RequestKeeps, HandlerKeeps, StepKeeps
  DEF Next, WalkStep

\* The inductive invariant of New and Shutdown.
THEOREM WalkInvHolds == Spec => []WalkInv
BY WalkInit, WalkNext, PTL DEF Spec

\* Every variable keeps its type, and a server that New has returned has
\* mounted no two equal or conflicting patterns.
THEOREM ServerTypeCorrect == Spec => []TypeOK
<1>1. WalkInv => TypeOK
  BY DEF WalkInv
<1> QED
  BY <1>1, WalkInvHolds, PTL

\* Whatever each handler's Shutdown returned, the aggregate's has stopped them
\* all, and its nil means that nothing runs, for any number of handlers.
THEOREM EveryHandlerStoppedHolds == Spec => []EveryHandlerStopped
<1>1. ASSUME WalkInv, phase = "stopped", NEW h \in Mounted \cap Lifecycle
      PROVE  /\ h \notin accepting
             /\ running[h] \subseteq told[h]
             /\ JoinErrors = "nil" => running[h] = {}
  <2>1. PICK i \in DOMAIN mounted : mounted[i].handler = h
    BY DEF Mounted
  <2>2. i \in 1..(pos - 1) /\ i \in Positions
    BY <1>1, <2>1, ServerAssumption DEF WalkInv, WalkPhase, TypeOK, Positions
  <2>3. Passed(i)
    BY <1>1, <2>2 DEF WalkInv
  <2> QED
    BY <2>1, <2>2, <2>3 DEF Passed, JoinErrors
<1>2. WalkInv => EveryHandlerStopped
  BY <1>1 DEF EveryHandlerStopped
<1> QED
  BY <1>2, WalkInvHolds, PTL

-----------------------------------------------------------------------------
(* The contract of the server as a whole.                                  *)

LEMMA MountedIs ==
  ASSUME NEW T, NEW seq \in Seq(T), NEW i \in DOMAIN seq
  PROVE  seq[i] \in T
OBVIOUS

\* A new server is as the contract begins.
LEMMA ContractInits == Init => ServerContract!ContractInit
<1> SUFFICES ASSUME Init PROVE ServerContract!ContractInit
  OBVIOUS
<1>1. Stoppable = {}
  BY DEF Init, Stoppable, Mounted
<1> QED
  BY <1>1 DEF Init, OfStoppable, ServerContract!ContractInit

\* Construction touches no handler, and nothing runs before it is over.
LEMMA BuildKeepsContract ==
  ASSUME WalkInv,
         \/ \E p \in Patterns, h \in Handlers \cup {NilHandler} : WithHandler(p, h)
         \/ NilOption \/ Build
  PROVE  UNCHANGED ServerContract!contractVars
<1>1. /\ phase = "building" /\ phase' \in {"building", "failed", "serving"}
      /\ UNCHANGED <<accepting, running, told, verdicts>>
      /\ \A h \in Handlers : running[h] = {} /\ told[h] = {}
  BY DEF WithHandler, NilOption, Build, handlerVars, shutdownVars, WalkInv, WalkPhase
<1>2. OfStoppable(running) = {} /\ OfStoppable(told) = {}
  BY <1>1, ServerAssumption DEF Stoppable, OfStoppable
<1>3. OfStoppable(running)' = {} /\ OfStoppable(told)' = {}
  BY <1>1, ServerAssumption DEF Stoppable, OfStoppable
<1> QED
  BY <1>1, <1>2, <1>3 DEF ServerContract!contractVars

\* Shutdown begins: a server without a handler to stop refuses from now on.
LEMMA ShutdownKeepsContract ==
  ASSUME WalkInv, Shutdown
  PROVE  ServerContract!ContractNext \/ UNCHANGED ServerContract!contractVars
<1>1. /\ phase = "serving" /\ phase' = "stopping"
      /\ UNCHANGED <<mounted, accepting, running, told, verdicts>> /\ Stoppable' = Stoppable
      /\ UNCHANGED <<OfStoppable(running), OfStoppable(told)>>
  BY DEF Shutdown, handlerVars, shutdownVars, Stoppable, Mounted, OfStoppable
<1>2. CASE Stoppable \cap accepting # {}
  BY <1>1, <1>2 DEF ServerContract!contractVars
<1>3. CASE Stoppable \cap accepting = {}
  <2>1. ServerContract!StopAccepting
    BY <1>1, <1>3 DEF ServerContract!StopAccepting
  <2> QED
    BY <2>1 DEF ServerContract!ContractNext
<1> QED
  BY <1>2, <1>3

\* The steps of the walk between two handlers.
LEMMA WalkKeepsContract ==
  ASSUME WalkInv, Skip \/ (\E v \in {"nil", "err"} : HandlerReturns(v)) \/ UNCHANGED vars
  PROVE  UNCHANGED ServerContract!contractVars
<1>1. /\ UNCHANGED <<phase, mounted, accepting, running, told>> /\ Stoppable' = Stoppable
      /\ phase = "stopped" => verdicts' = verdicts
      /\ UNCHANGED <<OfStoppable(running), OfStoppable(told)>>
  BY DEF Skip, HandlerReturns, AtHandler, vars, handlerVars, shutdownVars, Stoppable, Mounted,
         OfStoppable
<1>2. phase = "stopped" => JoinErrors' = JoinErrors
  BY <1>1 DEF JoinErrors
<1> QED
  BY <1>1, <1>2 DEF ServerContract!contractVars

\* A handler is told; the last one makes the server refuse upgrades.
LEMMA CallKeepsContract ==
  ASSUME WalkInv, CallHandler \/ \E r \in Reqs : HandlerCancels(r)
  PROVE  ServerContract!ContractNext \/ UNCHANGED ServerContract!contractVars
<1>1. /\ phase = "stopping"
      /\ UNCHANGED <<phase, mounted, running, verdicts>> /\ Stoppable' = Stoppable
      /\ Current \in Handlers /\ Current \in Mounted
      /\ OfStoppable(running)' = OfStoppable(running)
  <2>1. phase = "stopping" /\ pos \in DOMAIN mounted /\ UNCHANGED <<phase, mounted, running, verdicts>>
    BY DEF CallHandler, HandlerCancels, AtHandler, shutdownVars
  <2>2. Current \in Handlers /\ Current \in Mounted
    <3>1. mounted[pos] \in [pattern : Patterns \ Invalid, handler : Handlers]
      <4>1. mounted \in Seq([pattern : Patterns \ Invalid, handler : Handlers])
        BY DEF WalkInv, TypeOK
      <4> QED
        BY <2>1, <4>1, MountedIs
    <3> QED
      BY <2>1, <3>1 DEF Current, Mounted
  <2>3. Stoppable' = Stoppable
    BY <2>1 DEF Stoppable, Mounted
  <2> QED
    BY <2>1, <2>2, <2>3 DEF OfStoppable
<1>2. CASE CallHandler
  <2>1. /\ accepting' \subseteq accepting
        /\ OfStoppable(told)' = OfStoppable(told)
    BY <1>1, <1>2 DEF CallHandler, OfStoppable
  <2>2. CASE (Stoppable \cap accepting # {}) = (Stoppable \cap accepting' # {})
    BY <1>1, <2>1, <2>2 DEF ServerContract!contractVars
  <2>3. CASE Stoppable \cap accepting' = {}
    <3>1. ServerContract!StopAccepting
      BY <1>1, <2>1, <2>3 DEF ServerContract!StopAccepting
    <3> QED
      BY <3>1 DEF ServerContract!ContractNext
  <2> QED
    BY <2>1, <2>2, <2>3
<1>3. ASSUME NEW r \in Reqs, HandlerCancels(r) PROVE ServerContract!ContractNext
  <2>1. accepting' = accepting /\ Current \in Stoppable
    BY <1>1, <1>3 DEF HandlerCancels, WalkInv, WalkPhase, Stoppable
  <2>2. \A h \in Handlers : told'[h] = IF h = Current THEN told[h] \cup {r} ELSE told[h]
    BY <1>1, <1>3 DEF HandlerCancels, WalkInv, TypeOK
  <2>3. OfStoppable(told)' = OfStoppable(told) \cup {r}
    <3>1. \A h \in Stoppable : told'[h] = IF h = Current THEN told[h] \cup {r} ELSE told[h]
      BY <2>2, ServerAssumption DEF Stoppable
    <3> QED
      BY <1>1, <2>1, <3>1 DEF OfStoppable
  <2>4. ServerContract!Tell(r)
    BY <1>1, <2>1, <2>3 DEF ServerContract!Tell
  <2> QED
    BY <2>4 DEF ServerContract!ContractNext
<1> QED
  BY <1>2, <1>3

\* A request is admitted by a handler that still accepts, or leaves its handler.
LEMMA RequestKeepsContract ==
  ASSUME WalkInv, NEW h \in Handlers, NEW r \in Reqs, Upgrade(h, r) \/ Leave(h, r)
  PROVE  ServerContract!ContractNext \/ UNCHANGED ServerContract!contractVars
<1>1. UNCHANGED <<phase, mounted, accepting, verdicts>> /\ Stoppable' = Stoppable
      /\ Stoppable \subseteq Handlers /\ JoinErrors' = JoinErrors
  BY ServerAssumption DEF Upgrade, Leave, shutdownVars, Stoppable, Mounted, JoinErrors
<1>2. CASE Upgrade(h, r)
  <2>1. /\ OfStoppable(told)' = OfStoppable(told)
        /\ \A g \in Handlers : running'[g] = IF g = h THEN running[g] \cup {r} ELSE running[g]
    BY <1>1, <1>2 DEF Upgrade, WalkInv, TypeOK, OfStoppable
  <2>2. CASE h \in Lifecycle
    <3>1. h \in Stoppable /\ h \in accepting
      BY <1>2, <2>2 DEF Upgrade, Stoppable
    <3>2. OfStoppable(running)' = OfStoppable(running) \cup {r}
      BY <1>1, <2>1, <3>1 DEF OfStoppable
    <3>3. ServerContract!Admit(r)
      BY <1>1, <2>1, <3>1, <3>2 DEF ServerContract!Admit
    <3> QED
      BY <3>3 DEF ServerContract!ContractNext
  <2>3. CASE h \notin Lifecycle
    <3>1. OfStoppable(running)' = OfStoppable(running)
      <4>1. \A g \in Stoppable : running'[g] = running[g]
        BY <1>1, <2>1, <2>3 DEF Stoppable
      <4> QED
        BY <1>1, <4>1 DEF OfStoppable
    <3> QED
      BY <1>1, <2>1, <3>1 DEF ServerContract!contractVars
  <2> QED
    BY <2>2, <2>3
<1>3. CASE Leave(h, r)
  <2>1. /\ r \in running[h]
        /\ \A g \in Handlers :
             /\ running'[g] = IF g = h THEN running[g] \ {r} ELSE running[g]
             /\ told'[g] = IF g = h THEN told[g] \cup {r} ELSE told[g]
    BY <1>3 DEF Leave, WalkInv, TypeOK
  <2>2. CASE h \in Stoppable
    <3>1. \A g \in Stoppable : g # h => r \notin running[g]
      BY <1>1, <2>1 DEF WalkInv, OneHandlerEach
    <3>2. OfStoppable(running)' = OfStoppable(running) \ {r}
      <4>1. \A g \in Stoppable : running'[g] = IF g = h THEN running[g] \ {r} ELSE running[g]
        BY <1>1, <2>1
      <4> QED
        BY <1>1, <2>2, <3>1, <4>1 DEF OfStoppable
    <3>3. OfStoppable(told)' = OfStoppable(told) \cup {r}
      <4>1. \A g \in Stoppable : told'[g] = IF g = h THEN told[g] \cup {r} ELSE told[g]
        BY <1>1, <2>1
      <4> QED
        BY <1>1, <2>2, <4>1 DEF OfStoppable
    <3>4. ServerContract!Finish(r)
      BY <1>1, <3>2, <3>3 DEF ServerContract!Finish
    <3> QED
      BY <3>4 DEF ServerContract!ContractNext
  <2>3. CASE h \notin Stoppable
    <3>1. \A g \in Stoppable : running'[g] = running[g] /\ told'[g] = told[g]
      BY <1>1, <2>1, <2>3
    <3>2. /\ OfStoppable(running)' = OfStoppable(running)
          /\ OfStoppable(told)' = OfStoppable(told)
      BY <1>1, <3>1 DEF OfStoppable
    <3> QED
      BY <1>1, <3>2 DEF ServerContract!contractVars
  <2> QED
    BY <2>2, <2>3
<1> QED
  BY <1>2, <1>3

\* Every position has been passed, so the joined error is a verdict about all.
LEMMA ReturnKeepsContract ==
  ASSUME WalkInv, Return
  PROVE  ServerContract!ContractNext
<1>1. /\ phase = "stopping" /\ phase' = "stopped" /\ pos > Len(mounted)
      /\ UNCHANGED <<mounted, accepting, running, told, verdicts>>
      /\ Stoppable' = Stoppable /\ JoinErrors' = JoinErrors
      /\ UNCHANGED <<OfStoppable(running), OfStoppable(told)>>
  BY DEF Return, handlerVars, shutdownVars, Stoppable, Mounted, JoinErrors, OfStoppable
<1>2. ASSUME NEW h \in Stoppable
      PROVE  /\ h \notin accepting
             /\ running[h] \subseteq told[h]
             /\ JoinErrors = "nil" => running[h] = {}
  <2>1. PICK i \in DOMAIN mounted : mounted[i].handler = h
    BY DEF Stoppable, Mounted
  <2>2. i \in 1..(pos - 1) /\ i \in Positions
    BY <1>1, <2>1, ServerAssumption DEF WalkInv, TypeOK, Positions
  <2>3. Passed(i)
    BY <2>2 DEF WalkInv
  <2> QED
    BY <2>1, <2>2, <2>3 DEF Passed, JoinErrors, Stoppable
<1>3. Stoppable \cap accepting = {} /\ JoinErrors \in {"nil", "err"}
  BY <1>2 DEF JoinErrors
<1>4. CASE JoinErrors = "nil"
  <2>1. OfStoppable(running) = {}
    BY <1>2, <1>4 DEF OfStoppable
  <2>2. ServerContract!ReturnNil("Shutdown")
    BY <1>1, <1>3, <1>4, <2>1 DEF ServerContract!ReturnNil
  <2> QED
    BY <2>2 DEF ServerContract!ContractNext
<1>5. CASE JoinErrors = "err"
  <2>1. OfStoppable(running) \subseteq OfStoppable(told)
    BY <1>2 DEF OfStoppable
  <2>2. ServerContract!ReturnErr("Shutdown")
    BY <1>1, <1>3, <1>5, <2>1 DEF ServerContract!ReturnErr
  <2> QED
    BY <2>2 DEF ServerContract!ContractNext
<1> QED
  BY <1>3, <1>4, <1>5

\* The aggregate keeps ShutdownContract, for any handlers that do: its loop
\* over them loses neither a handler nor an error.
THEOREM ServerKeepsContractHolds == Spec => ServerKeepsContract
<1>1. WalkInv /\ [Next]_vars => [ServerContract!ContractNext]_(ServerContract!contractVars)
  <2> SUFFICES ASSUME WalkInv, [Next]_vars
               PROVE  ServerContract!ContractNext \/ UNCHANGED ServerContract!contractVars
    OBVIOUS
  <2> QED
    BY BuildKeepsContract, ShutdownKeepsContract, WalkKeepsContract, CallKeepsContract,
       RequestKeepsContract, ReturnKeepsContract DEF Next, WalkStep
<1> QED
  BY <1>1, ContractInits, WalkInvHolds, PTL
  DEF Spec, ServerKeepsContract, ServerContract!ContractSpec
=============================================================================
