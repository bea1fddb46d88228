---------------------------- MODULE MCEventCodec ----------------------------
(***************************************************************************)
(* The codec applied to every small input: a connection of either surface  *)
(* is handed one client frame or one backend event and converts it.        *)
(***************************************************************************)
EXTENDS EventCodec, FiniteSets

CONSTANT MaxExtra       \* unknown integer members range over 0..MaxExtra

ASSUME ExtraAssumption == MaxExtra \in Nat

VARIABLES surface, input, output

codecVars == <<surface, input, output>>

Pending == [result |-> "pending"]

Frames == [text : BOOLEAN, data : Documents({0, MaxExtra})]
BackendEvents ==
  [type : Types \cup {Blank}, id : Ids \cup {Blank},
   data : Documents(0..MaxExtra) \cup {NoDocument}]

CodecInit ==
  /\ surface \in Surfaces
  /\ input \in [from : {"client"}, value : Frames]
             \cup [from : {"backend"}, value : BackendEvents]
  /\ output = Pending

ConvertFrame ==
  /\ input.from = "client"
  /\ output = Pending
  /\ output' = receive(surface, input.value)
  /\ UNCHANGED <<surface, input>>

ConvertEvent ==
  /\ input.from = "backend"
  /\ output = Pending
  /\ output' = transmit(surface, input.value)
  /\ UNCHANGED <<surface, input>>

CodecNext == ConvertFrame \/ ConvertEvent

CodecSpec == CodecInit /\ [][CodecNext]_codecVars

Handled == input.from = "client" /\ output.result = "ok"
Sent    == input.from = "backend" /\ output.result = "ok"

\* The type whose admission the profile decided is the type the payload itself
\* carries, the payload reaches Handle untouched, and no client event that is
\* outside the surface's client unions gets through (readLoop, decodeEvent).
DeliveryIsProfiled ==
  Handled => LET event == output.value
             IN  /\ event.data = input.value.data
                 /\ event.type = event.data.type
                 /\ \E p \in ProfileEvents : /\ p.direction = "client"
                                             /\ p.type = event.data.type
                                             /\ surface = "realtime" <=> p.surface # "responses_websocket"

\* Numbers with MantissaBits significant bits, up to a bound.
Representable == {m * 2^k : m \in 0..(2^MantissaBits - 1), k \in 0..MaxExtra}
Distance(a, b) == IF a > b THEN a - b ELSE b - a

\* A reader of the frame (which decodes it as the shell itself does) gets the
\* backend event's type and ID, or the payload's own event_id when the event
\* has none, and an unknown number as the nearest one a float64 can hold:
\* re-marshalling through a map loses nothing else (encodeEvent).
WireRoundTrip ==
  Sent => LET event == input.value
              back  == decodeEvent(output.value)
          IN  /\ back.result = "ok" \/ (event.id = Blank /\ event.data.id = NotString)
              /\ output.value.type = event.type
              /\ event.id # Blank => output.value.id = event.id
              /\ event.data.form = "object" =>
                   /\ event.id = Blank => output.value.id = event.data.id
                   /\ output.value.extra \in Representable
                   /\ \A q \in Representable :
                        Distance(event.data.extra, output.value.extra) <= Distance(event.data.extra, q)

\* encodeEvent reports a payload that is not a JSON object as an error, as the
\* codec test expects of invalid payloads.
BadPayloadIsAnError == output.result # "panic"

\* Known WebSocket events keep their complete JSON, unknown fields included
\* (docs/backend-contract.md).
UnknownFieldsPreserved ==
  Sent /\ input.value.data.form = "object" => output.value.extra = input.value.data.extra

-----------------------------------------------------------------------------
MCTypes == {"session.update", "response.done", "future"}
MCProfileEvents ==
  {[surface |-> "realtime", direction |-> "client", type |-> "session.update"],
   [surface |-> "realtime_translation", direction |-> "server", type |-> "session.update"],
   [surface |-> "realtime", direction |-> "server", type |-> "response.done"],
   [surface |-> "responses_websocket", direction |-> "server", type |-> "response.done"],
   [surface |-> "responses_websocket", direction |-> "client", type |-> "response.done"]}
=============================================================================
