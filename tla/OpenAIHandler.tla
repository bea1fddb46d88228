--------------------------- MODULE OpenAIHandler ----------------------------
(***************************************************************************)
(* openai.Handler on top of backend.Services: construction from options,   *)
(* then one request from the base path over its credential to the          *)
(* operation of the frozen profile and the implementation that serves it.  *)
(* What happens to the request there is the matter of RestHandler and      *)
(* WsHandler.                                                              *)
(*                                                                         *)
(* A path is the sequence of its segments: "/v1/a/" is <<"v1", "a", "">>.  *)
(***************************************************************************)
EXTENDS Services, SequencesExt

CONSTANTS
  BasePaths,         \* arguments of WithBasePath: records with absolute, path
  BodyLimits,        \* arguments of WithMaxBodyBytes
  DefaultBodyLimit,  \* defaultMaxBodyBytes
  OriginLists,       \* arguments of WithOriginPatterns: sets of patterns
  Blank,             \* the empty string, and strings of white space
  Principals,        \* [authenticators -> [tokens -> IDs \cup {Blank, Rejected}]]
  Rejected,          \* the authenticator returned an error
  Tables,            \* orders in which profile.Operations may list its entries
  Requests,          \* requests, see below
  MaxSettings        \* bound: options given to NewHandler

(* An operation is a record with method, full (its Path in the profile, as  *)
(* segments), path and required (what strings.Cut and url.ParseQuery make   *)
(* of full: the path, and a set of pairs of key and value), id, capability. *)
(* A request is a record with method, path, query (keys to sequences of     *)
(* values), upgrade, bearer (the token of an Authorization: Bearer header,  *)
(* else NoToken) and protocols (the tokens of the subprotocols with the API *)
(* key prefix, in order).                                                   *)
NoToken == "no token"
Anonymous == "anonymous"
NoOperation == [method |-> "", full |-> <<>>, path |-> <<>>, required |-> {},
                id |-> "", capability |-> ""]

ASSUME OpenAIAssumption ==
  /\ DefaultBodyLimit \in Nat \ {0}
  /\ MaxSettings \in Nat
  /\ BodyLimits \subseteq Int
  /\ BasePaths \subseteq [absolute : BOOLEAN, path : Seq(STRING)]
  /\ {"realtime", "responses_websocket"} \subseteq Surfaces
  /\ Nil \notin DOMAIN Principals
  /\ \A a \in DOMAIN Principals : Blank \in DOMAIN Principals[a]
  /\ \A r \in Requests : /\ r.path \in Seq(STRING) /\ r.protocols \in Seq(STRING)
                         /\ r.upgrade \in BOOLEAN

\* What the generator and the frozen document guarantee of the table: the keys
\* of its maps are distinct, every operation has an ID of its own, and no path
\* has two variants that differ in their query for one method.
ASSUME ProfileAssumption ==
  \A t \in Tables :
    /\ t \in Seq(Range(t))
    /\ \A i \in DOMAIN t : t[i].id # ""
    /\ \A i, j \in DOMAIN t :
         (\/ t[i].full = t[j].full /\ t[i].method = t[j].method
          \/ t[i].id = t[j].id
          \/ /\ t[i].path = t[j].path /\ t[i].method = t[j].method
             /\ {} \notin {t[i].required, t[j].required})
         => i = j

VARIABLES
  stage,     \* new (in NewHandler), failed, serving
  settings,  \* basePath, maxBodyBytes, originPatterns, authenticator, validate
  given,     \* history: the options NewHandler has been given
  table,     \* profile.Operations
  request,   \* the request being served, in a set; empty before
  outcome    \* what became of it

openaiVars == <<stage, settings, given, table, request, outcome>>
frozenVars == <<vars, stage, settings, given, table>>

\* schema: the operation of the document whose schema a request was validated
\* against.
Outcome(status, caller, op, schema, surface, impl) ==
  [status |-> status, caller |-> caller, op |-> op, schema |-> schema,
   surface |-> surface, impl |-> impl]
Refusal(status) == Outcome(status, Blank, NoOperation, NoOperation, Nil, Nil)

OpenAIInit ==
  /\ Init
  /\ stage = "new"
  /\ settings = [basePath |-> <<"v1">>, maxBodyBytes |-> DefaultBodyLimit,
                 originPatterns |-> {}, authenticator |-> Nil, validate |-> TRUE]
  /\ given = <<>>
  /\ table \in Tables
  /\ request = {}
  /\ outcome = Refusal(0)

-----------------------------------------------------------------------------
(* NewHandler and its options.                                             *)

\* path.Clean of a rooted path: empty and "." segments vanish, ".." takes the
\* segment before it along.
CleanSegment(cleaned, segment) ==
  IF segment \in {"", "."} THEN cleaned
  ELSE IF segment # ".." THEN Append(cleaned, segment)
  ELSE IF cleaned = <<>> THEN cleaned ELSE Front(cleaned)
Clean(path) ==
  LET cleaned[i \in 0..Len(path)] ==
        IF i = 0 THEN <<>> ELSE CleanSegment(cleaned[i - 1], path[i])
  IN  cleaned[Len(path)]

Setting(field, value) == [field |-> field, value |-> value]
SettingOptions ==
  {Setting("nil", Nil), Setting("validate", FALSE)}
  \cup {Setting("basePath", p) : p \in BasePaths}
  \cup {Setting("maxBodyBytes", n) : n \in BodyLimits}
  \cup {Setting("originPatterns", l) : l \in OriginLists}
  \cup {Setting("authenticator", a) : a \in DOMAIN Principals \cup {Nil}}

\* The checks of the options.
WellFormed(o) ==
  \/ o.field = "validate"
  \/ o.field = "basePath" /\ o.value.absolute /\ Clean(o.value.path) # <<>>
  \/ o.field = "maxBodyBytes" /\ o.value > 0
  \/ o.field = "originPatterns" /\ Blank \notin o.value
  \/ o.field = "authenticator" /\ o.value # Nil

Configure(o) ==
  /\ phase = "ready" /\ stage = "new"
  /\ Len(given) < MaxSettings
  /\ given' = Append(given, o)
  /\ \/ /\ WellFormed(o)
        /\ settings' = [settings EXCEPT ![o.field] =
                          IF o.field = "basePath" THEN Clean(o.value.path) ELSE o.value]
        /\ UNCHANGED stage
     \/ /\ ~WellFormed(o)
        /\ stage' = "failed"
        /\ UNCHANGED settings
  /\ UNCHANGED <<vars, table, request, outcome>>

\* The frozen document is loaded and the router built, or NewHandler fails.
BuildHandler ==
  /\ phase = "ready" /\ stage = "new"
  /\ stage' \in {"serving", "failed"}
  /\ UNCHANGED <<vars, settings, given, table, request, outcome>>

-----------------------------------------------------------------------------
(* Who asks.                                                               *)

\* The bearer token goes before any key among the subprotocols.
credentialFromRequest(r) ==
  IF r.bearer # NoToken THEN r.bearer
  ELSE IF r.protocols # <<>> THEN Head(r.protocols) ELSE Blank

AuthenticateAnyPrincipal(r) ==
  IF settings.authenticator = Nil THEN Anonymous
  ELSE Principals[settings.authenticator][credentialFromRequest(r)]
Authenticate(r) ==
  IF settings.authenticator = Nil THEN Anonymous
  ELSE LET principal == Principals[settings.authenticator][credentialFromRequest(r)]
       IN  IF principal = Blank THEN Rejected ELSE principal

-----------------------------------------------------------------------------
(* What is asked for.                                                      *)

\* Below base + "/", or base itself.
UnderBase(r) == IsPrefix(settings.basePath, r.path)
Below(r) == SubSeq(r.path, Len(settings.basePath) + 1, Len(r.path))

isSession(r) == r.upgrade /\ Below(r) \in {<<"realtime">>, <<"responses">>}

SurfaceIgnoringPath(r) == "realtime"
Surface(r) == IF Below(r) = <<"responses">> THEN "responses_websocket" ELSE "realtime"

\* url.Values.Get
Get(query, key) ==
  IF key \in DOMAIN query /\ query[key] # <<>> THEN Head(query[key]) ELSE Blank
Satisfied(op, query) == \A kv \in op.required : Get(query, kv[1]) = kv[2]

\* The first variant whose query is satisfied, else the last plain entry.
OperationForRouteFirst(method, path, query) ==
  LET here == {i \in DOMAIN table : table[i].method = method /\ table[i].path = path
                                    /\ Satisfied(table[i], query)}
  IN  IF here # {} THEN table[Min(here)] ELSE NoOperation
OperationForRoute(method, path, query) ==
  LET here     == {i \in DOMAIN table : table[i].method = method /\ table[i].path = path}
      plain    == {i \in here : table[i].required = {}}
      variants == {i \in here \ plain : Satisfied(table[i], query)}
  IN  IF variants # {} THEN table[Min(variants)]
      ELSE IF plain # {} THEN table[Max(plain)] ELSE NoOperation

\* The map keeps the last entry of an ID.
OperationByID(id) ==
  LET entries == {i \in DOMAIN table : table[i].id = id}
  IN  IF entries # {} THEN table[Max(entries)] ELSE NoOperation

\* The router knows the paths of the document as they are written.
FindRoute(r) == {i \in DOMAIN table : table[i].full = Below(r) /\ table[i].method = r.method}
PathKnown(r) == \E i \in DOMAIN table : table[i].full = Below(r)

Operation(r, route) ==
  LET op == OperationForRoute(r.method, route.full, r.query)
  IN  IF op # NoOperation THEN op ELSE OperationByID(route.id)

\* validationRoutesByOperationID walks the document's maps, so that any entry of
\* an ID may be the one it keeps; an operation it does not know is validated as
\* the route the router matched.
validationRoute(route, op) ==
  LET indexed == {entry \in Range(table) : entry.id # "" /\ entry.id = op.id}
  IN  IF indexed = {} THEN {route} ELSE indexed

-----------------------------------------------------------------------------
(* ServeHTTP.                                                              *)

Serve(r, result) ==
  /\ stage = "serving" /\ request = {}
  /\ request' = {r}
  /\ outcome' = result
  /\ UNCHANGED frozenVars

NotFound(r) == ~UnderBase(r) /\ Serve(r, Refusal(404))

Unauthorized(r) == UnderBase(r) /\ Authenticate(r) = Rejected /\ Serve(r, Refusal(401))

Admitted(r) == UnderBase(r) /\ Authenticate(r) # Rejected

\* The WebSocket handler looks for the surface's session backend.
ServeSession(r) ==
  /\ Admitted(r) /\ isSession(r)
  /\ LET impl == SessionFor(Surface(r))
     IN  Serve(r, IF impl = Nil THEN Refusal(501)
                  ELSE Outcome(101, Authenticate(r), NoOperation, NoOperation, Surface(r), impl))

\* The REST handler looks for the route and its operation, validates the request
\* if it was told to, and looks for the capability's implementation.
ServeREST(r) ==
  /\ Admitted(r) /\ ~isSession(r)
  /\ \/ /\ FindRoute(r) = {}
        /\ Serve(r, Refusal(IF PathKnown(r) THEN 405 ELSE 404))
     \/ \E i \in FindRoute(r) :
          LET op   == Operation(r, table[i])
              impl == HandlerFor(op.capability)
          IN  \/ /\ op = NoOperation \/ impl = Nil
                 /\ Serve(r, Refusal(501))
              \/ /\ op # NoOperation /\ settings.validate
                 /\ Serve(r, Refusal(400))
              \/ /\ op # NoOperation /\ impl # Nil
                 /\ \E schema \in IF settings.validate THEN validationRoute(table[i], op)
                                  ELSE {NoOperation} :
                      Serve(r, Outcome(200, Authenticate(r), op, schema, Nil, impl))

ServeHTTP(r) == NotFound(r) \/ Unauthorized(r) \/ ServeSession(r) \/ ServeREST(r)

OpenAINext ==
  \/ Next /\ UNCHANGED openaiVars
  \/ \E o \in SettingOptions : Configure(o)
  \/ BuildHandler
  \/ \E r \in Requests : ServeHTTP(r)

OpenAISpec == OpenAIInit /\ [][OpenAINext]_<<vars, openaiVars>>

-----------------------------------------------------------------------------
\* Every variable has its type, those of the registry included; a handler is
\* only ever built with a canonical base path other than the root, a positive
\* limit and no blank origin.
OpenAITypeOK ==
  /\ TypeOK
  /\ stage \in {"new", "failed", "serving"}
  /\ settings.basePath # <<>> /\ \A s \in Range(settings.basePath) : s \notin {"", ".", ".."}
  /\ settings.maxBodyBytes \in Nat \ {0}
  /\ Blank \notin settings.originPatterns
  /\ settings.authenticator \in DOMAIN Principals \cup {Nil}
  /\ settings.validate \in BOOLEAN
  /\ Range(given) \subseteq SettingOptions
  /\ table \in Tables
  /\ request \subseteq Requests
  /\ outcome.status \in {0, 101, 200, 400, 401, 404, 405, 501}

Authenticators == {i \in DOMAIN given : given[i].field = "authenticator"}

\* No backend sees a request whose caller is not known: with an authenticator
\* among the options, wherever it stood, the last one has accepted the
\* credential the request carries and named a caller, the bearer token deciding
\* when there is one; only without any is the caller anonymous.
OnlyKnownCallersReachBackends ==
  \A r \in request : outcome.impl # Nil =>
    IF Authenticators = {} THEN outcome.caller = Anonymous
    ELSE LET accepts == Principals[given[Max(Authenticators)].value]
             carried == IF r.bearer # NoToken THEN {r.bearer} ELSE Range(r.protocols) \cup {Blank}
         IN  /\ outcome.caller \notin {Blank, Rejected}
             /\ \E token \in carried : accepts[token] = outcome.caller

\* The operation a backend is asked for is the most specific one of the profile
\* that the request's method, path and first query values satisfy, in whatever
\* order the generated table lists them; and it is this operation's schema, not
\* that of the path the router matched, that the request was validated against.
OperationIsMostSpecific ==
  \A r \in request : outcome.op # NoOperation =>
    LET candidates == {op \in Range(table) : op.method = r.method /\ op.path = Below(r)
                                             /\ Satisfied(op, r.query)}
    IN  /\ settings.validate => outcome.schema = outcome.op
        /\ IF candidates = {} THEN outcome.op.full = Below(r)
           ELSE /\ outcome.op \in candidates
                /\ \A op \in candidates : op.required \subseteq outcome.op.required

\* Who serves a request is decided by the options alone: a session only by the
\* session backend given for the surface that was asked for and only for an
\* upgrade, anything else only by the operation's own capability or the default.
ServedByTheOneConfigured ==
  \A r \in request : outcome.impl # Nil =>
    IF outcome.op = NoOperation
    THEN /\ r.upgrade
         /\ {outcome.impl} = Given("session", IF Last(r.path) = "responses"
                                              THEN "responses_websocket" ELSE "realtime")
    ELSE LET own == Given("capability", outcome.op.capability)
         IN  {outcome.impl} = IF own # {} THEN own ELSE Given("default", Nil)
=============================================================================
