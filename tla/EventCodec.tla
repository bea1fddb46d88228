----------------------------- MODULE EventCodec -----------------------------
(***************************************************************************)
(* The pure part of the WebSocket handler: which event types a surface     *)
(* admits, how a client frame becomes a backend.Event, how a backend.Event *)
(* becomes a frame, and which close code an error ends the connection      *)
(* with.  A JSON document is its form and the three members that matter:   *)
(* "type", "event_id" and one unknown integer member that stands for every *)
(* field the shell does not interpret.                                     *)
(***************************************************************************)
EXTENDS Naturals

CONSTANTS Types,         \* event type strings
          Ids,           \* non-empty event_id strings
          ProfileEvents, \* profile.Events: records with surface, direction, type
          MantissaBits   \* significand width of the number type JSON decodes to

Blank     == "<blank>"      \* a string that TrimSpace makes empty
Absent    == "<absent>"     \* no such member, or JSON null
NotString == "<not string>" \* a member that is not a JSON string

ASSUME CodecAssumption ==
  /\ MantissaBits \in Nat \ {0}
  /\ ProfileEvents \subseteq [surface : STRING, direction : STRING, type : Types]
  /\ (Types \cup Ids) \cap {Blank, Absent, NotString} = {}

Surfaces == {"realtime", "responses_websocket"}  \* backend.SessionSurface

\* Documents that json.Unmarshal may be given.  "malformed" does not parse and
\* "other" is a scalar or an array.
Document(form, type, id, extra) ==
  [form |-> form, type |-> type, id |-> id, extra |-> extra]
NoDocument == Document("empty", Absent, Absent, 0)

Documents(extras) ==
  {Document(form, Absent, Absent, 0) : form \in {"malformed", "other", "null"}}
  \cup {Document("object", t, i, x) : t \in Types \cup {Blank, Absent, NotString},
                                      i \in Ids \cup {Blank, Absent, NotString},
                                      x \in extras}

-----------------------------------------------------------------------------
\* profile.EventAllowed: membership in the frozen table.
EventAllowed(surface, direction, type) ==
  [surface |-> surface, direction |-> direction, type |-> type] \in ProfileEvents

\* eventAllowed: a realtime connection speaks two unions of the profile.
eventAllowedAnyDirection(surface, direction, type) ==
  \/ EventAllowed(surface, "client", type)
  \/ EventAllowed(surface, "server", type)
eventAllowed(surface, direction, type) ==
  \/ /\ surface = "realtime"
     /\ \/ EventAllowed("realtime", direction, type)
        \/ EventAllowed("realtime_translation", direction, type)
  \/ /\ surface = "responses_websocket"
     /\ EventAllowed("responses_websocket", direction, type)

-----------------------------------------------------------------------------
\* The outcome of a conversion: a value, a *protocolFailure, or a Go panic.
Converted(value) == [result |-> "ok", value |-> value]
ProtocolFailure  == [result |-> "protocol"]
Panic            == [result |-> "panic"]

\* A JSON string member read into a Go string field: missing leaves it empty.
StringField(member) == IF member = Absent THEN Blank ELSE member

\* decodeEvent: unmarshal into a struct of two strings, then require a type.
\* JSON null leaves the struct alone.
decodeEvent(data) ==
  IF \/ data.form \notin {"object", "null"}
     \/ NotString \in {data.type, data.id}
     \/ StringField(data.type) = Blank
  THEN ProtocolFailure
  ELSE Converted([type |-> data.type, id |-> StringField(data.id), data |-> data])

\* An integer read into a float64 and written back: the nearest number with
\* MantissaBits significant bits, ties to even.
Float64(n) ==
  LET e == CHOOSE k \in 0..n : /\ n < 2^(MantissaBits + k)
                               /\ k = 0 \/ n >= 2^(MantissaBits + k - 1)
      unit == 2^e
      quotient == n \div unit
      rest == n % unit
      up == 2 * rest > unit \/ (2 * rest = unit /\ quotient % 2 = 1)
  IN  IF e = 0 THEN n ELSE (IF up THEN quotient + 1 ELSE quotient) * unit

\* encodeEvent: unmarshal into map[string]any, overwrite "type" and, when the
\* event has one, "event_id", and marshal again.  A "null" payload leaves the
\* map nil, and the assignment to it panics.
encodeEventForgettingId(event) ==
  IF event.type = Blank \/ event.data.form \notin {"empty", "object"}
  THEN ProtocolFailure
  ELSE Converted([event.data EXCEPT !.form = "object", !.type = event.type])
encodeEvent(event) ==
  IF event.type = Blank THEN ProtocolFailure
  ELSE IF event.data.form = "empty"
  THEN Converted(Document("object", event.type, event.id, 0))
  ELSE IF event.data.form \in {"malformed", "other"} THEN ProtocolFailure
  ELSE IF event.data.form = "null" THEN Panic
  ELSE IF event.data.type \notin {Absent, NotString, event.type} THEN ProtocolFailure
  ELSE Converted(Document("object", event.type,
                          IF event.id # Blank THEN event.id ELSE event.data.id,
                          Float64(event.data.extra)))

-----------------------------------------------------------------------------
\* What readLoop makes of one frame before it calls session.Handle, and
\* writeLoop of one backend event before it calls connection.Write.
receiveAnyType(surface, frame) ==
  IF frame.text THEN decodeEvent(frame.data) ELSE ProtocolFailure
receive(surface, frame) ==
  LET decoded == decodeEvent(frame.data)
  IN  IF \/ ~frame.text
         \/ decoded.result = "ok" /\ ~eventAllowed(surface, "client", decoded.value.type)
      THEN ProtocolFailure
      ELSE decoded

transmit(surface, event) ==
  IF eventAllowed(surface, "server", event.type)
  THEN encodeEvent(event)
  ELSE ProtocolFailure

-----------------------------------------------------------------------------
\* The errors readLoop and writeLoop return: nil, context.Canceled, a protocol
\* failure, the peer's close frame with its code, anything else.
StatusNormalClosure   == 1000
StatusPolicyViolation == 1008
StatusInternalError   == 1011

PeerClosed(code) == [kind |-> "peer", code |-> code]
LoopError(kind)  == [kind |-> kind, code |-> 0]

closeReason(err) ==
  CASE err.kind \in {"nil", "canceled"} -> StatusNormalClosure
    [] err.kind = "protocol" -> StatusPolicyViolation
    [] err.kind = "peer" -> err.code
    [] OTHER -> StatusInternalError
=============================================================================
