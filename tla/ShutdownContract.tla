-------------------------- MODULE ShutdownContract --------------------------
(***************************************************************************)
(* What Shutdown promises to the application, with no mutex, no session    *)
(* table and no channel: new upgrades are refused from some moment on,     *)
(* every connection handler still running when a call returns has been     *)
(* told to stop, and a call returns without an error only when no handler  *)
(* runs.  WsRegistry is shown to implement this specification.             *)
(***************************************************************************)
CONSTANTS Conns,     \* upgrade requests, each served by one handler goroutine
          Callers    \* calls of Shutdown

VARIABLES accepting, \* are new upgrades admitted?
          running,   \* connections whose handler is between entry and exit
          told,      \* connections whose context has been cancelled
          verdict    \* what each Shutdown call has returned, "none" before

contractVars == <<accepting, running, told, verdict>>

ContractInit ==
  /\ accepting = TRUE
  /\ running = {}
  /\ told = {}
  /\ verdict = [k \in Callers |-> "none"]

Admit(c) ==
  /\ accepting
  /\ running' = running \cup {c}
  /\ UNCHANGED <<accepting, told, verdict>>

Tell(c) ==
  /\ told' = told \cup {c}
  /\ UNCHANGED <<accepting, running, verdict>>

\* A handler's context is always cancelled by the time it has gone.
Finish(c) ==
  /\ running' = running \ {c}
  /\ told' = told \cup {c}
  /\ UNCHANGED <<accepting, verdict>>

StopAccepting ==
  /\ accepting' = FALSE
  /\ UNCHANGED <<running, told, verdict>>

ReturnNil(k) ==
  /\ ~accepting
  /\ running = {}
  /\ verdict[k] = "none"
  /\ verdict' = [verdict EXCEPT ![k] = "nil"]
  /\ UNCHANGED <<accepting, running, told>>

ReturnErr(k) ==
  /\ ~accepting
  /\ running \subseteq told
  /\ verdict[k] = "none"
  /\ verdict' = [verdict EXCEPT ![k] = "err"]
  /\ UNCHANGED <<accepting, running, told>>

ContractNext ==
  \/ \E c \in Conns : Admit(c) \/ Tell(c) \/ Finish(c)
  \/ StopAccepting
  \/ \E k \in Callers : ReturnNil(k) \/ ReturnErr(k)

ContractSpec == ContractInit /\ [][ContractNext]_contractVars
=============================================================================
