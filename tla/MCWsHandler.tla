---------------------------- MODULE MCWsHandler -----------------------------
(***************************************************************************)
(* Small instances of the WebSocket handler.  Only the realtime surface    *)
(* has a backend; a peer sends a good event or one the client union does   *)
(* not hold; a session produces a good event or one outside the server     *)
(* union.  The other ways the codec refuses a frame or an event end a loop *)
(* with the same error and are the business of MCConversions.              *)
(***************************************************************************)
EXTENDS WsHandler

MCTypes == {"session.update", "response.done"}
MCProfileEvents ==
  {[surface |-> "realtime", direction |-> "client", type |-> "session.update"],
   [surface |-> "realtime", direction |-> "server", type |-> "response.done"]}

Object(type) == Document("object", type, Absent, 0)
Event(type, payload) == [type |-> type, id |-> Blank, data |-> Object(payload)]

GoodFrame     == [text |-> TRUE, data |-> Object("session.update")]
ForeignFrame  == [text |-> TRUE, data |-> Object("response.done")]
GoodEvent     == Event("response.done", "response.done")
ForeignEvent  == Event("session.update", "session.update")

MCClientFrames  == {GoodFrame, ForeignFrame}
MCBackendEvents == {GoodEvent, ForeignEvent}
MCGoodFrames    == {GoodFrame}
MCGoodEvents    == {GoodEvent}
=============================================================================
