--------------------------- MODULE MCConversions ----------------------------
(***************************************************************************)
(* The shell's pure conversions, each applied to every small input: the    *)
(* WebSocket codec, the router's copy of a schema, the server-sent event   *)
(* framing.                                                                *)
(***************************************************************************)
EXTENDS MCEventCodec, RouterSchema, EventStream

-----------------------------------------------------------------------------
(* Schemas as the frozen document has them: exclusive bounds are booleans  *)
(* with a numeric bound beside them, type "null" stands alone.             *)

Typed(type) == [type |-> String(type)]
Leaves ==
  {Object(Typed(t)) : t \in {"string", "number", "null"}}
  \cup {Object(Typed("string") @@ [enum |-> Array(<<String("a")>>)]),
        Object(Typed("string") @@ [nullable |-> Bool(TRUE)])}
  \cup {Object(Typed("number") @@ [minimum |-> Number(1), exclusiveMinimum |-> Bool(strict)])
          : strict \in BOOLEAN}
  \cup {Object(Typed("number") @@ [minimum |-> Number(0), maximum |-> Number(1),
                                   exclusiveMaximum |-> Bool(TRUE)])}
Unions ==
  {Object([anyOf |-> Array(<<a, b>>)]) : a, b \in Leaves}
  \cup {Object([anyOf |-> Array(<<a, b>>), nullable |-> Bool(TRUE)]) : a, b \in Leaves}
  \cup {Object([anyOf |-> Array(<<Object([anyOf |-> Array(<<a, b>>)]), a>>)]) : a, b \in Leaves}

\* Properties have names that are keywords elsewhere.
PropertyNames == {"type", "required", "anyOf"}
Records ==
  {Object(Typed("object") @@
          [properties |-> Object([type |-> p, required |-> q, anyOf |-> p]),
           required |-> Array([i \in DOMAIN names |-> String(names[i])])])
     : p \in Leaves \cup {Object([anyOf |-> Array(<<Object(Typed("string")), b>>)]) : b \in Leaves},
       q \in Leaves, names \in UNION {[1..n -> PropertyNames] : n \in 0..3}}
Schemas == Leaves \cup Unions \cup Records

Scalars == {Null, String("a"), String("b"), Number(0), Number(1), Number(2)}
Values ==
  Scalars \cup {Object(f) : f \in UNION {[names -> {Null, String("a"), Number(1)}]
                                          : names \in SUBSET PropertyNames}}

-----------------------------------------------------------------------------
(* Streams of one or two events with line breaks where they can hurt.      *)

Texts(n) == UNION {[1..k -> {"x", CR, LF}] : k \in 0..n}
Streams ==
  {<<StreamEvent(id, type, data)>> : id, type \in Texts(2), data \in Texts(4)}
  \cup {<<StreamEvent(id, <<>>, data), StreamEvent(<<>>, type, more)>>
          : id, type \in {<<>>, <<"x">>}, data, more \in Texts(3)}

-----------------------------------------------------------------------------
Job(from, value) == input = [from |-> from, value |-> value]

ConversionInit ==
  \/ CodecInit
  \/ /\ surface = "realtime"
     /\ output = Pending
     /\ \/ \E s \in Schemas, native \in BOOLEAN : Job("schema", [schema |-> s, native |-> native])
        \/ \E events \in Streams : Job("stream", events)

RewriteSchema ==
  /\ input.from = "schema" /\ output = Pending
  /\ output' = Converted(normalizeRouterSchemas(input.value.schema, input.value.native))
  /\ UNCHANGED <<surface, input>>

WriteStream ==
  /\ input.from = "stream" /\ output = Pending
  /\ output' = Converted(FlattenSeq([i \in DOMAIN input.value |-> writeEvent(input.value[i])]))
  /\ UNCHANGED <<surface, input>>

ConversionNext == CodecNext \/ RewriteSchema \/ WriteStream

ConversionSpec == ConversionInit /\ [][ConversionNext]_codecVars

-----------------------------------------------------------------------------
\* The router copy is one its validator can read, and accepts exactly the
\* values the frozen schema accepts, although the rewriting walks into maps of
\* properties that are named like keywords (RouterSpecJSON: a "semantically
\* equivalent document accepted by both legacy and native OpenAPI 3.1
\* validators").
RouterCopyIsEquivalent ==
  input.from = "schema" /\ output # Pending =>
    /\ Readable(output.value, input.value.native)
    /\ \A v \in Values : Accepts(output.value, v) <=> Accepts(input.value.schema, v)

\* A carriage return inside a line ends it for the client.
SplitByCR(data) ==
  \E i \in 1..(Len(data) - 1) : data[i] = CR /\ data[i + 1] # LF

\* A client reads exactly the events that were written, none merged, split or
\* lost by line breaks in an id, a type or the data, with the data up to the
\* carriage returns of its line ends; the one exception is data with a carriage
\* return inside a line, which writeSSE passes on.
StreamEventsParse ==
  input.from = "stream" /\ output # Pending =>
    \/ \E i \in DOMAIN input.value : SplitByCR(input.value[i].data)
    \/ LET parsed == Parse(output.value)
           given  == input.value
           LastId(i) == LET set == {j \in 1..i : given[j].id # <<>>}
                        IN  IF set = {} THEN <<>> ELSE sanitizeSSE(given[Max(set)].id)
       IN  /\ parsed.line = <<>> /\ parsed.data = <<>>
           /\ parsed.events =
                [i \in DOMAIN given |->
                   StreamEvent(LastId(i), sanitizeSSE(given[i].type),
                               SelectSeq(DataOf(given[i]), LAMBDA c : c # CR))]
=============================================================================
