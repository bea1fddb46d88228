-------------------------- MODULE AggregateServer ---------------------------
(***************************************************************************)
(* aiservershell.Server: construction from options, and a Shutdown that    *)
(* walks the mounted handlers one after the other.  What a handler does    *)
(* when its own Shutdown is called is the environment here, taken from     *)
(* ShutdownContract, which the WebSocket handler implements.               *)
(***************************************************************************)
EXTENDS Naturals, Sequences, FiniteSets

CONSTANTS Patterns,   \* mount patterns
          Invalid,    \* patterns http.ServeMux rejects, the empty one included
          Conflicts,  \* pairs of patterns that http.ServeMux refuses together
          Handlers,   \* protocol handlers
          NilHandler, \* a nil or typed nil http.Handler
          Lifecycle,  \* the handlers that have a Shutdown method
          Reqs,       \* upgrade requests
          MaxOptions  \* bound: options given to New

ASSUME ServerAssumption ==
  /\ Invalid \subseteq Patterns
  /\ Conflicts \subseteq SUBSET Patterns
  /\ NilHandler \notin Handlers
  /\ Lifecycle \subseteq Handlers
  /\ MaxOptions \in Nat

VARIABLES
  phase,     \* building, failed, serving, stopping (in Shutdown), stopped
  mounted,   \* config.handlers: a sequence of records with pattern, handler
  accepting, \* the handlers that admit upgrades
  running,   \* the requests in progress in each handler
  told,      \* the requests of each handler that have been cancelled
  pos,       \* the index of the handler Shutdown is at
  waiting,   \* has that handler's Shutdown been called?
  verdicts   \* what the Shutdown of each position returned

handlerVars  == <<accepting, running, told>>
shutdownVars == <<pos, waiting, verdicts>>
vars == <<phase, mounted, handlerVars, shutdownVars>>

Positions == 1..MaxOptions

Init ==
  /\ phase = "building"
  /\ mounted = <<>>
  /\ accepting = Handlers
  /\ running = [h \in Handlers |-> {}]
  /\ told = [h \in Handlers |-> {}]
  /\ pos = 1 /\ waiting = FALSE
  /\ verdicts = [i \in Positions |-> "none"]

-----------------------------------------------------------------------------
(* New, WithHandler, buildMux.                                             *)

AcceptableWithNil(pattern, handler) ==
  /\ pattern \notin Invalid
  /\ \A i \in DOMAIN mounted : mounted[i].pattern # pattern
Acceptable(pattern, handler) ==
  /\ pattern \notin Invalid
  /\ handler # NilHandler
  /\ \A i \in DOMAIN mounted : mounted[i].pattern # pattern

\* One WithHandler option is applied: it mounts, or New gives up.
WithHandler(pattern, handler) ==
  /\ phase = "building"
  /\ Len(mounted) < MaxOptions
  /\ IF Acceptable(pattern, handler)
     THEN /\ mounted' = Append(mounted, [pattern |-> pattern, handler |-> handler])
          /\ UNCHANGED phase
     ELSE phase' = "failed" /\ UNCHANGED mounted
  /\ UNCHANGED <<handlerVars, shutdownVars>>

\* A nil ServerOption.
NilOption ==
  /\ phase = "building"
  /\ phase' = "failed"
  /\ UNCHANGED <<mounted, handlerVars, shutdownVars>>

\* buildMux: registering a conflicting pattern panics, which is recovered.
MuxAccepts ==
  \A i, j \in DOMAIN mounted : {mounted[i].pattern, mounted[j].pattern} \notin Conflicts

Build ==
  /\ phase = "building"
  /\ phase' = IF MuxAccepts THEN "serving" ELSE "failed"
  /\ UNCHANGED <<mounted, handlerVars, shutdownVars>>

-----------------------------------------------------------------------------
(* The handlers, as ShutdownContract describes them.                       *)

Mounted == {mounted[i].handler : i \in DOMAIN mounted}

Upgrade(h, r) ==
  /\ phase \in {"serving", "stopping", "stopped"}
  /\ h \in Mounted \cap accepting
  /\ \A g \in Handlers : r \notin running[g] \cup told[g]
  /\ running' = [running EXCEPT ![h] = @ \cup {r}]
  /\ UNCHANGED <<phase, mounted, accepting, told, shutdownVars>>

Leave(h, r) ==
  /\ r \in running[h]
  /\ running' = [running EXCEPT ![h] = @ \ {r}]
  /\ told' = [told EXCEPT ![h] = @ \cup {r}]
  /\ UNCHANGED <<phase, mounted, accepting, shutdownVars>>

-----------------------------------------------------------------------------
(* Shutdown.                                                               *)

Shutdown ==
  /\ phase = "serving"
  /\ phase' = "stopping"
  /\ UNCHANGED <<mounted, handlerVars, shutdownVars>>

Current == mounted[pos].handler
AtHandler == phase = "stopping" /\ pos \in DOMAIN mounted

SkipWithoutAdvance ==
  /\ AtHandler /\ Current \notin Lifecycle
  /\ UNCHANGED vars
Skip ==
  /\ AtHandler /\ Current \notin Lifecycle
  /\ pos' = pos + 1
  /\ UNCHANGED <<phase, mounted, handlerVars, waiting, verdicts>>

CallHandler ==
  /\ AtHandler /\ Current \in Lifecycle /\ ~waiting
  /\ accepting' = accepting \ {Current}
  /\ waiting' = TRUE
  /\ UNCHANGED <<phase, mounted, running, told, pos, verdicts>>

HandlerCancels(r) ==
  /\ AtHandler /\ waiting
  /\ r \in running[Current] \ told[Current]
  /\ told' = [told EXCEPT ![Current] = @ \cup {r}]
  /\ UNCHANGED <<phase, mounted, accepting, running, shutdownVars>>

\* The call returns, with an error of whatever kind whenever it likes; the loop
\* notes it and goes on.
HandlerReturnsGivingUp(verdict) ==
  /\ AtHandler /\ waiting
  /\ running[Current] \subseteq told[Current]
  /\ verdict = "nil" => running[Current] = {}
  /\ verdicts' = [verdicts EXCEPT ![pos] = verdict]
  /\ waiting' = FALSE
  /\ pos' = IF verdict = "err" THEN Len(mounted) + 1 ELSE pos + 1
  /\ UNCHANGED <<phase, mounted, handlerVars>>
HandlerReturns(verdict) ==
  /\ AtHandler /\ waiting
  /\ running[Current] \subseteq told[Current]
  /\ verdict = "nil" => running[Current] = {}
  /\ verdicts' = [verdicts EXCEPT ![pos] = verdict]
  /\ waiting' = FALSE
  /\ pos' = pos + 1
  /\ UNCHANGED <<phase, mounted, handlerVars>>

Return ==
  /\ phase = "stopping"
  /\ pos > Len(mounted)
  /\ phase' = "stopped"
  /\ UNCHANGED <<mounted, handlerVars, shutdownVars>>

\* errors.Join of what was collected: nil when nothing was.
JoinLastOnly ==
  IF mounted # <<>> /\ verdicts[Len(mounted)] = "err" THEN "err" ELSE "nil"
JoinErrors == IF \E i \in Positions : verdicts[i] = "err" THEN "err" ELSE "nil"

\* The steps of the walk that nothing but a handler's requests can hold up.
WalkStep ==
  \/ Skip \/ CallHandler \/ Return
  \/ \E r \in Reqs : HandlerCancels(r)
  \/ HandlerReturns("nil")

Next ==
  \/ \E p \in Patterns, h \in Handlers \cup {NilHandler} : WithHandler(p, h)
  \/ NilOption \/ Build \/ Shutdown \/ WalkStep \/ HandlerReturns("err")
  \/ \E h \in Handlers, r \in Reqs : Upgrade(h, r) \/ Leave(h, r)

Spec == Init /\ [][Next]_vars

\* Shutdown keeps going and a cancelled request leaves in the end, which is
\* what WsHandler promises (ShutdownDrains).  No handler has to give up.
Fairness ==
  /\ WF_vars(WalkStep)
  /\ \A h \in Handlers, r \in Reqs : WF_vars(r \in told[h] /\ Leave(h, r))

-----------------------------------------------------------------------------
\* Every variable has its type; a server that was constructed holds no two equal
\* or conflicting patterns (architecture.md: conflicting patterns fail
\* construction instead of panicking while serving).
TypeOK ==
  /\ phase \in {"building", "failed", "serving", "stopping", "stopped"}
  /\ mounted \in Seq([pattern : Patterns \ Invalid, handler : Handlers])
  /\ Len(mounted) <= MaxOptions
  /\ \A i, j \in DOMAIN mounted : mounted[i].pattern = mounted[j].pattern => i = j
  /\ phase \notin {"building", "failed"} => MuxAccepts
  /\ accepting \subseteq Handlers
  /\ running \in [Handlers -> SUBSET Reqs]
  /\ told \in [Handlers -> SUBSET Reqs]
  /\ pos \in 1..(Len(mounted) + 1)
  /\ waiting \in BOOLEAN
  /\ verdicts \in [Positions -> {"none", "nil", "err"}]

\* One handler that gives up does not keep the later ones from being stopped:
\* when Shutdown has returned, with or without an error, every mounted handler
\* with a lifecycle refuses upgrades and has told all its requests to stop; and
\* when it has returned nil nothing runs there, although later handlers went on
\* admitting requests while earlier ones were draining.
EveryHandlerStopped ==
  phase = "stopped" =>
    \A h \in Mounted \cap Lifecycle :
      /\ h \notin accepting
      /\ running[h] \subseteq told[h]
      /\ JoinErrors = "nil" => running[h] = {}

\* The server seen from outside: it admits upgrades as long as one of its
\* handlers with a lifecycle does, and runs what they run.
Stoppable == Mounted \cap Lifecycle
OfStoppable(requests) == {r \in Reqs : \E h \in Stoppable : r \in requests[h]}

ServerContract == INSTANCE ShutdownContract WITH
  Conns <- Reqs, Callers <- {"Shutdown"},
  accepting <- phase \in {"building", "failed", "serving"} \/ Stoppable \cap accepting # {},
  running   <- OfStoppable(running),
  told      <- OfStoppable(told),
  verdict   <- [k \in {"Shutdown"} |-> IF phase = "stopped" THEN JoinErrors ELSE "none"]

\* Walking over handlers that each keep ShutdownContract, the server keeps it as
\* a whole: it refuses upgrades for good before it returns, errors of single
\* handlers included, and its own verdict means of all of them together what
\* theirs mean of each.  So a Server, which has ServeHTTP and Shutdown itself,
\* can be mounted in another one.
ServerKeepsContract == ServerContract!ContractSpec

\* Shutdown of the aggregate returns although its context may never end and no
\* handler gives up, provided that the mounted handlers keep ShutdownContract
\* and that a request that was cancelled leaves.
AggregateReturns == (phase = "stopping") ~> (phase = "stopped")
=============================================================================
