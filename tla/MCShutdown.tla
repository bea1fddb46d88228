----------------------------- MODULE MCShutdown -----------------------------
(***************************************************************************)
(* The two sides of ShutdownContract in one run: the WebSocket handler's   *)
(* session table, which implements it (WsRegistry), and the aggregate      *)
(* server, which walks over handlers that do (AggregateServer).  Neither   *)
(* reads the other's state, so a behaviour follows one of them.            *)
(***************************************************************************)
EXTENDS WsRegistry, AggregateServer

VARIABLE view   \* what a behaviour follows

ShutdownInit == view \in {"table", "server"} /\ RegInit /\ Init

TableNext  == view = "table" /\ RegNext /\ UNCHANGED <<vars, view>>
ServerNext == view = "server" /\ Next /\ UNCHANGED <<regVars, view>>

ShutdownSpec == /\ ShutdownInit
                /\ [][TableNext \/ ServerNext]_<<regVars, vars, view>>
                /\ view = "server" => Fairness
=============================================================================
