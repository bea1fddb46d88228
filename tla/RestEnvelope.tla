---------------------------- MODULE RestEnvelope ----------------------------
(***************************************************************************)
(* What openai/internal/rest carries between client and backend around the *)
(* body: the parameters and headers of the backend.Request, and the        *)
(* headers of the answer, which ServeHTTP puts together in several places. *)
(* RestHandler has the control flow of a request in full; here it is cut   *)
(* down to the steps that touch these maps.                                *)
(***************************************************************************)
EXTENDS Naturals, Sequences

CONSTANTS
  PathNames,     \* parameters of the route's path template
  QueryNames,    \* names a query may use
  RequestNames,  \* header names a request may use, in canonical form
  Texts,         \* values of parameters and of headers
  MaxValues,     \* bound: values of one query parameter or header
  Names,         \* header names of an answer, in canonical form
  Spellings,     \* ways a backend may spell a header name
  MaxKeys,       \* bound: keys of the metadata of a response
  MediaTypes,    \* values of backend.Response.MediaType other than ""
  JsonTypes      \* those of them that contain "json"

Unset     == ""
Json      == "application/json"
RequestId == "request id"

\* The header names ServeHTTP, writeErrorStatus and writeSSE set.
OwnNames == {"X-Request-Id", "Content-Type", "Retry-After", "Cache-Control", "Connection"}

ASSUME EnvelopeAssumption ==
  /\ OwnNames \subseteq Names
  /\ Unset \notin MediaTypes
  /\ MaxValues \in Nat /\ MaxKeys \in Nat

VARIABLES
  stage,      \* start, called, copy, then how it was answered: error, stream, body, json
  asked,      \* the request: path and query parameters, headers
  delivered,  \* Parameters and Metadata.Extensions of the backend.Request
  reply,      \* the backend.Response
  uncopied,   \* keys of its metadata that copySafeHeaders has still to visit
  out         \* writer.Header(): the values of every name, in order

envelopeVars == <<stage, asked, delivered, reply, uncopied, out>>

\* url.Values: a name that occurs has at least one value.
ValueLists == UNION {[1..n -> Texts] : n \in 1..MaxValues}
Queries    == UNION {[names -> ValueLists] : names \in SUBSET QueryNames}
Requests   == [path : [PathNames -> Texts], query : Queries,
               headers : UNION {[names -> ValueLists] : names \in SUBSET RequestNames}]

\* A Go map may have one header under several spellings.
Keys      == [name : Names, spelling : Spellings]
Metadata  == UNION {[{keys[i] : i \in DOMAIN keys} -> ValueLists]
                      : keys \in UNION {[1..n -> Keys] : n \in 0..MaxKeys}}
Responses == [mode : {"stream", "body", "json"}, mediaType : MediaTypes \cup {Unset},
              metadata : Metadata]

Nothing == [mode |-> "none"]

EnvelopeInit ==
  /\ stage = "start"
  /\ asked \in Requests
  /\ delivered = Nothing /\ reply = Nothing
  /\ uncopied = {}
  /\ out = [n \in Names |-> IF n = "X-Request-Id" THEN <<RequestId>> ELSE <<>>]

-----------------------------------------------------------------------------
(* From the request to the backend.                                        *)

\* json.Marshal of one string, or of all of them.
StringOf(text) == [json |-> "string", value |-> text]
ArrayOf(texts) == [json |-> "array", value |-> texts]

parametersFirstValue(pathParams, query) ==
  [key \in DOMAIN pathParams \cup DOMAIN query |->
     IF key \in DOMAIN query THEN StringOf(query[key][1]) ELSE StringOf(pathParams[key])]
\* The query is written over the path parameters.
parameters(pathParams, query) ==
  [key \in DOMAIN pathParams \cup DOMAIN query |->
     IF key \notin DOMAIN query THEN StringOf(pathParams[key])
     ELSE IF Len(query[key]) = 1 THEN StringOf(query[key][1])
     ELSE ArrayOf(query[key])]

Credentials == {"Authorization", "Cookie", "Sec-Websocket-Protocol"}

safeHeaders(headers) == [n \in DOMAIN headers \ Credentials |-> headers[n]]

CallBackend ==
  /\ stage = "start"
  /\ stage' = "called"
  /\ delivered' = [parameters |-> parameters(asked.path, asked.query),
                   extensions |-> safeHeaders(asked.headers)]
  /\ UNCHANGED <<asked, reply, uncopied, out>>

-----------------------------------------------------------------------------
(* From the backend to the answer.                                         *)

\* writer.Header().Set
Labelled(name, value) == [out EXCEPT ![name] = <<value>>]

\* writeErrorStatus; retry: the backend.Error has a positive RetryAfter.
WriteErrorStatus(retry) ==
  /\ stage' = "error"
  /\ out' = [out EXCEPT !["Retry-After"] = IF retry THEN <<"seconds">> ELSE @,
                        !["Content-Type"] = <<Json>>,
                        !["X-Request-Id"] = <<RequestId>>]

\* The answers ServeHTTP gives without asking a backend.
RefuseRequest ==
  /\ stage = "start"
  /\ WriteErrorStatus(FALSE)
  /\ UNCHANGED <<asked, delivered, reply, uncopied>>

BackendFails ==
  /\ stage = "called"
  /\ \E retry \in BOOLEAN : WriteErrorStatus(retry)
  /\ UNCHANGED <<asked, delivered, reply, uncopied>>

\* An ambiguous response or one with an invalid status is answered before its
\* metadata is looked at.
BackendReplies ==
  /\ stage = "called"
  /\ reply' \in Responses
  /\ \/ WriteErrorStatus(FALSE) /\ UNCHANGED uncopied
     \/ /\ stage' = "copy"
        /\ uncopied' = DOMAIN reply'.metadata
        /\ UNCHANGED out
  /\ UNCHANGED <<asked, delivered>>

hopByHop == {"Connection", "Keep-Alive", "Proxy-Authenticate", "Proxy-Authorization", "Te",
             "Trailer", "Transfer-Encoding", "Upgrade"}
Dropped  == hopByHop \cup {"Authorization", "Set-Cookie"}

\* copySafeHeaders visits the keys in any order.
copySafeHeadersReplacing(key) ==
  /\ stage = "copy" /\ key \in uncopied
  /\ uncopied' = uncopied \ {key}
  /\ out' = IF key.name \in Dropped THEN out
            ELSE [out EXCEPT ![key.name] = reply.metadata[key]]
  /\ UNCHANGED <<stage, asked, delivered, reply>>
copySafeHeaders(key) ==
  /\ stage = "copy" /\ key \in uncopied
  /\ uncopied' = uncopied \ {key}
  /\ out' = IF key.name \in Dropped THEN out
            ELSE [out EXCEPT ![key.name] = @ \o reply.metadata[key]]
  /\ UNCHANGED <<stage, asked, delivered, reply>>

Copied == stage = "copy" /\ uncopied = {}

\* writeSSE: a writer that cannot flush gets a 500.
AnswerStream ==
  /\ Copied /\ reply.mode = "stream"
  /\ \/ WriteErrorStatus(FALSE)
     \/ /\ stage' = "stream"
        /\ out' = [out EXCEPT !["Content-Type"] = <<"text/event-stream">>,
                              !["Cache-Control"] = <<"no-cache">>,
                              !["Connection"] = <<"keep-alive">>]
  /\ UNCHANGED <<asked, delivered, reply, uncopied>>

AnswerBody ==
  /\ Copied /\ reply.mode = "body"
  /\ stage' = "body"
  /\ out' = IF reply.mediaType # Unset THEN Labelled("Content-Type", reply.mediaType) ELSE out
  /\ UNCHANGED <<asked, delivered, reply, uncopied>>

JsonType == IF reply.mediaType = Unset THEN Json ELSE reply.mediaType

\* A response outside the profile becomes a 500; only JSON is validated.
AnswerJSONAdding ==
  /\ Copied /\ reply.mode = "json"
  /\ \/ JsonType \in JsonTypes \cup {Json} /\ WriteErrorStatus(FALSE)
     \/ stage' = "json" /\ out' = [out EXCEPT !["Content-Type"] = Append(@, JsonType)]
  /\ UNCHANGED <<asked, delivered, reply, uncopied>>
AnswerJSON ==
  /\ Copied /\ reply.mode = "json"
  /\ \/ JsonType \in JsonTypes \cup {Json} /\ WriteErrorStatus(FALSE)
     \/ stage' = "json" /\ out' = Labelled("Content-Type", JsonType)
  /\ UNCHANGED <<asked, delivered, reply, uncopied>>

EnvelopeNext ==
  \/ CallBackend \/ RefuseRequest \/ BackendFails \/ BackendReplies
  \/ \E key \in Keys : copySafeHeaders(key)
  \/ AnswerStream \/ AnswerBody \/ AnswerJSON

EnvelopeSpec == EnvelopeInit /\ [][EnvelopeNext]_envelopeVars

-----------------------------------------------------------------------------
\* What a backend reads back from a parameter.
TextsOf(document) == IF document.json = "string" THEN <<document.value>> ELSE document.value

\* From the one map it gets, the backend reads back every query parameter with
\* all its values, in order, and every path parameter without a namesake in the
\* query, and nothing else (parameters); and no credential comes along with the
\* other headers, which arrive whole (safeHeaders).  What becomes of a path
\* parameter with a namesake is the question of PathValuesPreserved.
BackendReadsTheRequest ==
  delivered # Nothing =>
    /\ DOMAIN delivered.parameters = PathNames \cup DOMAIN asked.query
    /\ \A key \in DOMAIN asked.query : TextsOf(delivered.parameters[key]) = asked.query[key]
    /\ \A key \in PathNames \ DOMAIN asked.query :
         TextsOf(delivered.parameters[key]) = <<asked.path[key]>>
    /\ \A n \in DOMAIN asked.headers :
         IF n \in Credentials THEN n \notin DOMAIN delivered.extensions
         ELSE delivered.extensions[n] = asked.headers[n]

\* docs/backend-contract.md: "`Parameters` preserves path and query values".
\* The value that was routed and validated is what the backend reads.
PathValuesPreserved ==
  delivered # Nothing =>
    \A key \in PathNames :
      LET texts == TextsOf(delivered.parameters[key])
      IN  \E i \in DOMAIN texts : texts[i] = asked.path[key]

\* Whatever the backend's metadata holds, and in whatever order it is copied, an
\* error, a stream, a JSON answer and a body whose media type the backend named
\* have one content type, the one of what they carry; and every answer has the
\* request's ID before any other.  The shell sets these names before and after
\* copySafeHeaders, which only adds.  (A body without a media type goes out with
\* whatever the metadata says.)
AnswerIsLabelled ==
  /\ stage = "error" => out["Content-Type"] = <<Json>> /\ out["X-Request-Id"] = <<RequestId>>
  /\ stage = "stream" => out["Content-Type"] = <<"text/event-stream">>
  /\ stage = "json" => out["Content-Type"] = <<JsonType>>
  /\ stage = "body" /\ reply.mediaType # Unset => out["Content-Type"] = <<reply.mediaType>>
  /\ out["X-Request-Id"] # <<>> /\ out["X-Request-Id"][1] = RequestId

\* values occurs in all, unbroken and in order.
Holds(all, values) ==
  \E i \in 0..Len(all) : /\ i + Len(values) <= Len(all)
                         /\ \A j \in 1..Len(values) : all[i + j] = values[j]

\* No header that belongs to one hop, and no cookie or credential, gets from
\* the backend to the client, under any spelling; every other one gets there
\* with all its values, whatever else has the same name, unless the shell sets
\* it itself.
MetadataReachesClient ==
  /\ \A n \in Dropped \cap Names : out[n] # <<>> => n = "Connection" /\ stage = "stream"
  /\ stage \in {"stream", "body", "json"} =>
       \A key \in DOMAIN reply.metadata :
         key.name \notin Dropped \cup {"Content-Type", "Cache-Control"} =>
           Holds(out[key.name], reply.metadata[key])
=============================================================================
