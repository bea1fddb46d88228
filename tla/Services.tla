------------------------------ MODULE Services ------------------------------
(***************************************************************************)
(* backend.Services: NewServices applies its options one by one and        *)
(* freezes the result, or fails at the first option that does not fit.     *)
(***************************************************************************)
EXTENDS Naturals, FiniteSets

CONSTANTS Capabilities, \* backend.Capabilities
          Foreign,      \* values of type Capability or SessionSurface nobody knows
          Surfaces,     \* SessionRealtime, SessionResponsesSocket
          Impls,        \* handlers and session backends
          Nil           \* nil and typed nil implementations, and "no entry"

ASSUME ServicesAssumption ==
  /\ Nil \notin Impls \cup Foreign
  /\ Foreign \cap (Capabilities \cup Surfaces) = {}

VARIABLES phase,          \* building, failed, ready
          defaultHandler, \* serviceConfig.defaultHandler
          handlers,       \* serviceConfig.handlers, Nil where there is no entry
          sessions,       \* serviceConfig.sessions, likewise
          applied         \* history: the options New has been given so far

vars == <<phase, defaultHandler, handlers, sessions, applied>>

\* Options are records: what kind, for which slot, with which implementation.
Option(kind, slot, impl) == [kind |-> kind, slot |-> slot, impl |-> impl]
NilOption == Option("nil", Nil, Nil)
Options ==
  {NilOption}
  \cup {Option("default", Nil, i) : i \in Impls \cup {Nil}}
  \cup {Option("capability", c, i) : c \in Capabilities \cup Foreign, i \in Impls \cup {Nil}}
  \cup {Option("session", s, i) : s \in Surfaces \cup Foreign, i \in Impls \cup {Nil}}

Init ==
  /\ phase = "building"
  /\ defaultHandler = Nil
  /\ handlers = [c \in Capabilities |-> Nil]
  /\ sessions = [s \in Surfaces |-> Nil]
  /\ applied = {}

-----------------------------------------------------------------------------
\* The checks of WithHandler, WithCapability and WithSession.
Fits(o) ==
  /\ o.impl # Nil
  /\ \/ o.kind = "default" /\ defaultHandler = Nil
     \/ o.kind = "capability" /\ o.slot \in Capabilities /\ handlers[o.slot] = Nil
     \/ o.kind = "session" /\ o.slot \in Surfaces /\ sessions[o.slot] = Nil

Apply(o) ==
  /\ phase = "building"
  /\ Fits(o)
  /\ applied' = applied \cup {o}
  /\ defaultHandler' = IF o.kind = "default" THEN o.impl ELSE defaultHandler
  /\ handlers' = IF o.kind = "capability" THEN [handlers EXCEPT ![o.slot] = o.impl] ELSE handlers
  /\ sessions' = IF o.kind = "session" THEN [sessions EXCEPT ![o.slot] = o.impl] ELSE sessions
  /\ UNCHANGED phase

\* An option that fails ends the construction.
GiveUp(o) ==
  /\ phase = "building"
  /\ ~Fits(o)
  /\ applied' = applied \cup {o}
  /\ phase' = "failed"
  /\ UNCHANGED <<defaultHandler, handlers, sessions>>

Freeze ==
  /\ phase = "building"
  /\ phase' = "ready"
  /\ UNCHANGED <<defaultHandler, handlers, sessions, applied>>

Next == Freeze \/ \E o \in Options : Apply(o) \/ GiveUp(o)

Spec == Init /\ [][Next]_vars

-----------------------------------------------------------------------------
\* HandlerFor: the override if there is one, else the default, else none.
HandlerForDefaultFirst(c) ==
  IF defaultHandler # Nil THEN defaultHandler ELSE handlers[c]
HandlerFor(c) ==
  IF c \in Capabilities /\ handlers[c] # Nil THEN handlers[c] ELSE defaultHandler

SessionFor(s) == sessions[s]

Given(kind, slot) == {o.impl : o \in {p \in applied : p.kind = kind /\ p.slot = slot}}

\* A registry that was constructed answers every lookup from the options alone,
\* whatever their order: the one override of a capability wins over the one
\* default, wherever in the list either stood; a capability nobody named gets
\* the default; and a surface gets its own session backend or none.  A list
\* with two options for one slot, an unknown name or a nil implementation in it
\* yields no registry at all.
LookupsFollowOptions ==
  phase = "ready" =>
    /\ \A c \in Capabilities :
         {HandlerFor(c)} = IF Given("capability", c) # {} THEN Given("capability", c)
                           ELSE IF Given("default", Nil) # {} THEN Given("default", Nil)
                           ELSE {Nil}
    /\ \A s \in Surfaces :
         {SessionFor(s)} = IF Given("session", s) # {} THEN Given("session", s) ELSE {Nil}
    /\ \A o \in applied : /\ o.impl # Nil
                          /\ o.slot \notin Foreign
                          /\ \A p \in applied : o.kind = p.kind /\ o.slot = p.slot => o = p

\* Every variable has its type.
TypeOK ==
  /\ phase \in {"building", "failed", "ready"}
  /\ defaultHandler \in Impls \cup {Nil}
  /\ handlers \in [Capabilities -> Impls \cup {Nil}]
  /\ sessions \in [Surfaces -> Impls \cup {Nil}]
  /\ applied \subseteq Options
=============================================================================
