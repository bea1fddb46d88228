----------------------------- MODULE SharedState ----------------------------
(***************************************************************************)
(* What concurrent requests of one process share: the lookup tables that   *)
(* the first user builds under a sync.Once, and a *backend.Error the       *)
(* application returns to several requests, whose empty fields the REST    *)
(* handler fills in without a lock.                                        *)
(*                                                                         *)
(* A Go string is two words, a pointer and a length.  Only the length      *)
(* tells whether it is empty; a string whose length is set while its       *)
(* pointer is not faults when it is read.                                  *)
(***************************************************************************)
EXTENDS SequencesExt

CONSTANTS Goroutines,
          Kinds,     \* values of backend.Error.Kind, "" included
          Messages   \* values of backend.Error.Message, "" included

ErrorInternal  == "server_error"
Default == [Kind |-> ErrorInternal, Message |-> "The request could not be completed."]

VARIABLES
  operations, events, document, \* profile.Operations, profile.Events, the embedded document
  once,    \* per table: new, running, done
  filled,  \* per table: how many entries the map holds
  specErr, \* did decoding the document fail?
  error,   \* the shared error as the application made it
  words,   \* per field: the words of the string that are set
  at,      \* per goroutine: where it stands
  wanted,  \* per goroutine: the table it reads and the key it looks for
  found,   \* per goroutine: what the lookup gave, as a set, tagged with the table,
           \* or "error"
  status,  \* per goroutine: the status line of its error answer, 0 before
  envelope \* per goroutine: the error object it wrote

tableVars  == <<operations, events, document, once, filled, specErr>>
errorVars  == <<error, words>>
answerVars == <<status, envelope>>
sharedVars == <<tableVars, errorVars, at, wanted, found, answerVars>>

Tables == {"operations", "events", "document"}
Entries(table) ==
  CASE table = "operations" -> operations
    [] table = "events"     -> events
    [] OTHER                -> <<document>>

Words == {"length", "pointer"}
NoEnvelope == [type |-> "", message |-> ""]

SharedInit ==
  /\ operations = <<>> /\ events = <<>> /\ document = {}
  /\ once = [t \in Tables |-> "new"] /\ filled = [t \in Tables |-> 0] /\ specErr = FALSE
  /\ error = [Kind |-> "", Message |-> ""] /\ words = [f \in {"Kind", "Message"} |-> {}]
  /\ at = [g \in Goroutines |-> "idle"]
  /\ wanted = [g \in Goroutines |-> [table |-> "", key |-> <<>>]]
  /\ found = [g \in Goroutines |-> <<"nothing", {}>>]
  /\ status = [g \in Goroutines |-> 0]
  /\ envelope = [g \in Goroutines |-> NoEnvelope]

\* A process starts with the tables it was compiled with; the application makes
\* the error it will return.
Start(rows, types, doc) ==
  /\ operations' = rows /\ events' = types /\ document' = doc
  /\ error' \in [Kind : Kinds, Message : Messages]
  /\ words' = [f \in {"Kind", "Message"} |-> IF error'[f] = "" THEN {} ELSE Words]
  /\ UNCHANGED <<once, filled, specErr, at, wanted, found, answerVars>>

Goto(g, from, to) == at[g] = from /\ at' = [at EXCEPT ![g] = to]

-----------------------------------------------------------------------------
(* SpecJSON, EventAllowed, OperationByID: once.Do, then the lookup.        *)

Call(g, table, key) ==
  /\ Goto(g, "idle", "once")
  /\ wanted' = [wanted EXCEPT ![g] = [table |-> table, key |-> key]]
  /\ UNCHANGED <<tableVars, errorVars, found, answerVars>>

\* Do returns at once when the table is built, waits while somebody builds it,
\* and builds it when nobody has.
EnterOnceUnlessBegun(g) ==
  /\ at[g] = "once"
  /\ LET t == wanted[g].table
     IN  \/ once[t] = "new" /\ Goto(g, "once", "build") /\ once' = [once EXCEPT ![t] = "running"]
         \/ once[t] # "new" /\ Goto(g, "once", "read") /\ UNCHANGED once
  /\ UNCHANGED <<operations, events, document, filled, specErr, errorVars, wanted, found, answerVars>>
EnterOnce(g) ==
  /\ at[g] = "once"
  /\ LET t == wanted[g].table
     IN  \/ once[t] = "new" /\ Goto(g, "once", "build") /\ once' = [once EXCEPT ![t] = "running"]
         \/ once[t] = "done" /\ Goto(g, "once", "read") /\ UNCHANGED once
  /\ UNCHANGED <<operations, events, document, filled, specErr, errorVars, wanted, found, answerVars>>

\* One entry of the map; the document is decoded in one go, or not at all.
BuildEntry(g) ==
  /\ at[g] = "build"
  /\ LET t == wanted[g].table
     IN  /\ filled[t] < Len(Entries(t))
         /\ \/ filled' = [filled EXCEPT ![t] = @ + 1] /\ UNCHANGED specErr
            \/ t = "document" /\ ~specErr /\ specErr' = TRUE /\ UNCHANGED filled
  /\ UNCHANGED <<operations, events, document, once, errorVars, at, wanted, found, answerVars>>

LeaveOnce(g) ==
  /\ at[g] = "build"
  /\ LET t == wanted[g].table
     IN  /\ filled[t] = Len(Entries(t)) \/ (t = "document" /\ specErr)
         /\ once' = [once EXCEPT ![t] = "done"]
  /\ Goto(g, "build", "read")
  /\ UNCHANGED <<operations, events, document, filled, specErr, errorVars, wanted, found, answerVars>>

\* A map keeps the last entry of a key.
Latest(set) == IF set = {} THEN {} ELSE {Max(set)}
Lookup(table, key) ==
  LET there == SubSeq(Entries(table), 1, filled[table])
      Matches(i) == CASE table = "operations" -> <<there[i].ID>> = key
                      [] table = "events"     ->
                           <<there[i].Surface, there[i].Direction, there[i].Type>> = key
                      [] OTHER                -> TRUE
  IN  IF table = "document" /\ specErr THEN <<"error", {}>>
      ELSE <<table, {there[i] : i \in Latest({j \in DOMAIN there : Matches(j)})}>>

\* A REST request goes on to its backend, which fails; the others are done.
ReadTable(g) ==
  /\ \E next \in {"failed", "done"} :
       /\ next = "failed" => wanted[g].table = "operations"
       /\ Goto(g, "read", next)
  /\ found' = [found EXCEPT ![g] = Lookup(wanted[g].table, wanted[g].key)]
  /\ UNCHANGED <<tableVars, errorVars, wanted, answerVars>>

-----------------------------------------------------------------------------
(* writeBackendError, writeError, writeErrorStatus.                        *)

StatusOf ==
  [invalid_request_error |-> 400, authentication_error |-> 401, permission_error |-> 403,
   not_found_error |-> 404, conflict_error |-> 409, rate_limit_error |-> 429,
   unsupported_error |-> 501, timeout_error |-> 408, canceled_error |-> 499,
   service_unavailable_error |-> 503]
errorStatusUnlessEmpty(kind) ==
  IF kind = "" THEN 400 ELSE IF kind \in DOMAIN StatusOf THEN StatusOf[kind] ELSE 500
errorStatus(kind) == IF kind \in DOMAIN StatusOf THEN StatusOf[kind] ELSE 500

IsEmpty(field) == "length" \notin words[field]
Torn(field) == words[field] = {"length"}
Value(field) ==
  IF IsEmpty(field) THEN "" ELSE IF error[field] = "" THEN Default[field] ELSE error[field]

\* An error that is no *backend.Error gets one of its own.
AnswerOwn(g) ==
  /\ Goto(g, "failed", "done")
  /\ status' = [status EXCEPT ![g] = errorStatus(ErrorInternal)]
  /\ envelope' = [envelope EXCEPT ![g] = [type |-> ErrorInternal, message |-> "The server encountered an internal error."]]
  /\ UNCHANGED <<tableVars, errorVars, wanted, found>>

\* The shared one: errorStatus reads its kind.  No kind with a status of its
\* own is as long as the default, so a torn kind is none of them.
ChooseStatus(g) ==
  /\ Goto(g, "failed", "Kind")
  /\ status' = [status EXCEPT ![g] = errorStatus(Value("Kind"))]
  /\ UNCHANGED <<tableVars, errorVars, wanted, found, envelope>>

\* if field == "" { field = default }: two stores, in either order.
Storing == [Kind |-> "storeKind", Message |-> "storeMessage"]
After   == [Kind |-> "Message", Message |-> "encode"]
FillField(g, field) ==
  /\ \/ ~IsEmpty(field) /\ Goto(g, field, After[field]) /\ UNCHANGED words
     \/ /\ IsEmpty(field) /\ Goto(g, field, Storing[field])
        /\ \E w \in Words : words' = [words EXCEPT ![field] = @ \cup {w}]
     \/ Goto(g, Storing[field], After[field]) /\ words' = [words EXCEPT ![field] = Words]
  /\ UNCHANGED <<tableVars, error, wanted, found, answerVars>>

\* WriteHeader and the envelope; a torn string faults while it is encoded.
Encode(g) ==
  /\ \/ /\ ~Torn("Kind") /\ ~Torn("Message")
        /\ Goto(g, "encode", "done")
        /\ envelope' = [envelope EXCEPT ![g] = [type |-> Value("Kind"), message |-> Value("Message")]]
     \/ /\ Torn("Kind") \/ Torn("Message")
        /\ Goto(g, "encode", "fault")
        /\ UNCHANGED envelope
  /\ UNCHANGED <<tableVars, errorVars, wanted, found, status>>

GoroutineStep(g) ==
  \/ EnterOnce(g) \/ BuildEntry(g) \/ LeaveOnce(g) \/ ReadTable(g)
  \/ AnswerOwn(g) \/ ChooseStatus(g) \/ Encode(g)
  \/ \E field \in {"Kind", "Message"} : FillField(g, field)

-----------------------------------------------------------------------------
\* An error answer that is complete says the same in its status line, which was
\* chosen before the shared error was filled in, and in its envelope, which was
\* written after other requests may have filled it in; and it names a type and
\* a message.
ErrorAnswersAgree ==
  \A g \in Goroutines : envelope[g] # NoEnvelope =>
    /\ status[g] = errorStatus(envelope[g].type)
    /\ envelope[g].type # "" /\ envelope[g].message # ""
=============================================================================
