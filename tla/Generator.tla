----------------------------- MODULE Generator ------------------------------
(***************************************************************************)
(* internal/cmd/openai-gen: the command that turns the pinned OpenAPI      *)
(* document and the event inventory into the tables the shell is compiled  *)
(* with, a manifest and a compatibility matrix.  Go iterates over maps in  *)
(* any order, every write may fail half way, the command may be killed and *)
(* run again, and the document may have changed in between.                *)
(***************************************************************************)
EXTENDS SequencesExt

CONSTANTS
  Specs,       \* documents: sets of records with path, method, id, tag, query
               \* (has a query parameter), request (a set of media types or none),
               \* responses (a set of records with code and media)
  Inventories, \* event inventories: functions from surfaces to records with
               \* client and server, sequences of event types
  FlagSets,    \* which optional flags are given: events, manifest, compatibility
  PathCount, OperationCount, EventCount,  \* the pinned sizes: 182, 288, 121
  Rank,        \* the byte order of strings, as a function to Nat
  Lower,       \* strings.ToLower of the methods the documents spell
  PrefixOf,    \* the listed prefix a path has, "" for none
  Templated,   \* paths with a "{"
  Variants,    \* paths with a "?"
  JSONMedia,   \* media types that contain "json"
  rawOnlyOperations,
  MaxRuns      \* bound: how often the command is run

ASSUME GeneratorAssumption ==
  /\ IsInjective(Rank) /\ \A s \in DOMAIN Rank : Rank[s] \in Nat
  /\ MaxRuns \in Nat
  /\ {"GET", "POST", "PUT", "PATCH", "DELETE", "client", "server"} \subseteq DOMAIN Rank
  /\ \A s \in Specs :
       /\ \A e, f \in s : e.path = f.path /\ e.method = f.method => e = f
       /\ \A e \in s : /\ e.path \in DOMAIN Rank /\ e.method \in DOMAIN Lower
                       /\ \A media \in {e.request} \cup {r.media : r \in e.responses} :
                            media \subseteq DOMAIN Rank
                       /\ IsFiniteSet(e.request)
                       /\ IsFiniteSet(UNION {r.media : r \in e.responses})
  /\ \A inv \in Inventories :
       /\ IsFiniteSet(DOMAIN inv) /\ DOMAIN inv \subseteq DOMAIN Rank
       /\ \A surface \in DOMAIN inv :
            /\ inv[surface].client \in Seq(DOMAIN Rank)
            /\ inv[surface].server \in Seq(DOMAIN Rank)

VARIABLES
  gpc,       \* collect, events, validate, output, manifest, compatibility, done, fatal
  flags, spec, inventory,
  pending,   \* what collectOperations has still to visit
  ops,       \* its result
  files,     \* what the three files hold: a pair of a state and a content
  run,       \* the number of this run
  written    \* history: the run that last wrote each file completely

genVars == <<gpc, flags, spec, inventory, pending, ops, files, run, written>>

Files == {"output", "manifest", "compatibility"}
NoFile == <<"absent", {}>>
Broken == <<"broken", {}>>

-----------------------------------------------------------------------------
(* What one operation is classified as.                                    *)

TagCapability(tag) ==
  CASE tag = "Responses"     -> "responses"
    [] tag = "Chat"          -> "chat"
    [] tag = "Completions"   -> "completions"
    [] tag = "Conversations" -> "conversations"
    [] tag = "Embeddings"    -> "embeddings"
    [] tag = "Audio"         -> "audio"
    [] tag = "Images"        -> "images"
    [] tag = "Videos"        -> "videos"
    [] tag = "Moderations"   -> "moderations"
    [] tag = "Models"        -> "models"
    [] tag = "Files"         -> "files"
    [] tag = "Uploads"       -> "uploads"
    [] tag = "Batch"         -> "batches"
    [] tag = "Assistants"    -> "assistants"
    [] tag = "Vector stores" -> "vector_stores"
    [] tag = "Fine-tuning"   -> "fine_tuning"
    [] tag = "Evals"         -> "evals"
    [] tag = "Realtime"      -> "realtime"
    [] tag = "Skills"        -> "skills"
    [] OTHER                 -> ""
PrefixCapability(prefix) ==
  CASE prefix = "/containers"                   -> "containers"
    [] prefix = "/responses"                    -> "responses"
    [] prefix = "/chatkit"                      -> "chatkit"
    [] prefix = "/content_provenance_checks"    -> "moderations"
    [] prefix \in {"/organization", "/projects"} -> "organization"
    [] OTHER                                    -> ""

\* "" where the command gives up.
capabilityFor(path, tag) ==
  IF TagCapability(tag) # "" THEN TagCapability(tag) ELSE PrefixCapability(PrefixOf[path])

\* The least 2xx code; a code that is no number is 0.
successStatus(codes) ==
  LET successes == codes \cap 200..299
  IN  IF successes = {} THEN 200 ELSE Min(successes)

appendUnique(values, candidate) ==
  IF Contains(values, candidate) THEN values ELSE Append(values, candidate)

TransportOf(media) ==
  CASE media = "multipart/form-data" -> "multipart"
    [] media = "text/event-stream"   -> "sse"
    [] media \in JSONMedia           -> "json"
    [] OTHER                         -> "binary"
operationTransports(path, query, media) ==
  FoldLeft(appendUnique, <<>>,
           (IF path \in Templated THEN <<"path">> ELSE <<>>)
           \o (IF query \/ path \in Variants THEN <<"query">> ELSE <<>>)
           \o [i \in DOMAIN media |-> TransportOf(media[i])])

liveClassification(id) ==
  CASE id = "listModels"                   -> "safe"
    [] id = "createEmbedding"              -> "paid"
    [] id \in {"createFile", "deleteFile"} -> "mutation"
    [] OTHER                               -> "unavailable"

\* The methods that count as operations, and strings.ToUpper of them.  A document
\* may spell a method in more than one way, on one path too.
Upper == [get |-> "GET", post |-> "POST", put |-> "PUT", patch |-> "PATCH", delete |-> "DELETE"]
Served(e) == Lower[e.method] \in DOMAIN Upper
MethodOf(e) == Upper[Lower[e.method]]
ResponseMedia(e) == UNION {r.media : r \in e.responses}

\* What package sort promises: a permutation in which nothing stands after what
\* it goes before.  It is not stable: elements that compare equal end up in any
\* order.  Sort is for elements that are the same when they compare equal, so
\* that every permutation gives one result.
Sortings(seq, Before(_, _)) ==
  {p \in Bijection(DOMAIN seq, DOMAIN seq) :
     \A i, j \in DOMAIN seq : i < j => ~Before(seq[p[j]], seq[p[i]])}
Sort(seq, Before(_, _)) ==
  LET order == CHOOSE p \in Sortings(seq, Before) : TRUE
  IN  [i \in DOMAIN seq |-> seq[order[i]]]

SortStrings(strings) == Sort(strings, LAMBDA a, b : Rank[a] < Rank[b])

\* request and response are the media types in the order the map gave them.
ItemUnsorted(e, request, response) ==
  LET capability == capabilityFor(e.path, e.tag)
  IN  [Method |-> MethodOf(e), Path |-> e.path, OperationID |-> e.id, Capability |-> capability,
       RequestMedia |-> request, ResponseMedia |-> response,
       SuccessStatus |-> successStatus({r.code : r \in e.responses}),
       SDKCall |-> IF e.id \in rawOnlyOperations THEN "raw_sdk_exception" ELSE "resource_helper",
       LocalCase |-> <<capability, e.id>>,
       Transports |-> operationTransports(e.path, e.query, request \o response),
       LiveProfile |-> liveClassification(e.id)]
Item(e, request, response) == ItemUnsorted(e, SortStrings(request), SortStrings(response))

OperationBefore(a, b) ==
  \/ Rank[a.Path] < Rank[b.Path]
  \/ a.Path = b.Path /\ Rank[a.Method] < Rank[b.Method]

-----------------------------------------------------------------------------
(* The event inventory, sorted by all there is to an event.                *)

Event(surface, direction, type) == [Surface |-> surface, Direction |-> direction, Type |-> type]
EventBefore(a, b) ==
  \/ Rank[a.Surface] < Rank[b.Surface]
  \/ a.Surface = b.Surface /\ Rank[a.Direction] < Rank[b.Direction]
  \/ a.Surface = b.Surface /\ a.Direction = b.Direction /\ Rank[a.Type] < Rank[b.Type]
EventsOf(surface, lists) ==
  [i \in DOMAIN lists.client |-> Event(surface, "client", lists.client[i])]
  \o [i \in DOMAIN lists.server |-> Event(surface, "server", lists.server[i])]
\* surfaces is the order the map gave.
collectEvents(inv, surfaces) ==
  Sort(FlattenSeq([i \in DOMAIN surfaces |-> EventsOf(surfaces[i], inv[surfaces[i]])]),
       EventBefore)

\* Without -events the inventory stays empty.  It is walked again by every step
\* that needs the events.
Inventory == IF "events" \in flags THEN inventory ELSE <<>>
EventLists == {collectEvents(Inventory, surfaces) : surfaces \in SetToSeqs(DOMAIN Inventory)}

Distinct(seq, Key(_)) == IsInjective([i \in DOMAIN seq |-> Key(seq[i])])

validateEvidence(operations, events) ==
  /\ Distinct(operations, LAMBDA o : o.OperationID)
  /\ Distinct(operations, LAMBDA o : o.LocalCase)
  /\ \A i \in DOMAIN operations :
       /\ operations[i].SDKCall \in {"resource_helper", "raw_sdk_exception"}
       /\ operations[i].Transports # <<>>
       /\ operations[i].LiveProfile \in {"safe", "paid", "mutation", "unavailable"}
  /\ \A id \in rawOnlyOperations :
       \E i \in DOMAIN operations : /\ operations[i].OperationID = id
                                    /\ operations[i].SDKCall = "raw_sdk_exception"
  /\ Distinct(events, LAMBDA e : e)

-----------------------------------------------------------------------------
(* main.                                                                   *)

GenInit ==
  /\ gpc = "collect" /\ run = 1
  /\ flags \in FlagSets /\ spec \in Specs /\ inventory \in Inventories
  /\ pending = spec /\ ops = <<>>
  /\ files = [f \in Files |-> NoFile]
  /\ written = [f \in Files |-> 0]

\* One step of the loops of collectOperations.
Visit(e) ==
  /\ gpc = "collect" /\ e \in pending
  /\ pending' = pending \ {e}
  /\ \/ ~Served(e) /\ UNCHANGED <<gpc, ops>>
     \/ /\ Served(e) /\ (e.id = "" \/ capabilityFor(e.path, e.tag) = "")
        /\ gpc' = "fatal" /\ UNCHANGED ops
     \/ /\ Served(e) /\ e.id # "" /\ capabilityFor(e.path, e.tag) # ""
        /\ \E request \in SetToSeqs(e.request), response \in SetToSeqs(ResponseMedia(e)) :
             ops' = Append(ops, Item(e, request, response))
        /\ UNCHANGED gpc
  /\ UNCHANGED <<flags, spec, inventory, files, run, written>>

\* The sort, and the comparison with the pinned sizes.
Collected ==
  /\ gpc = "collect" /\ pending = {}
  /\ \E order \in Sortings(ops, OperationBefore) : ops' = [i \in DOMAIN ops |-> ops[order[i]]]
  /\ gpc' = IF Cardinality({e.path : e \in spec}) = PathCount /\ Len(ops) = OperationCount
            THEN "events" ELSE "fatal"
  /\ UNCHANGED <<flags, spec, inventory, pending, files, run, written>>

ReadEvents ==
  /\ gpc = "events"
  /\ \E events \in EventLists :
       gpc' = IF "events" \in flags => Len(events) = EventCount THEN "validate" ELSE "fatal"
  /\ UNCHANGED <<flags, spec, inventory, pending, ops, files, run, written>>

Validate ==
  /\ gpc = "validate"
  /\ \E events \in EventLists :
       gpc' = IF validateEvidence(ops, events) THEN "output" ELSE "fatal"
  /\ UNCHANGED <<flags, spec, inventory, pending, ops, files, run, written>>

\* os.WriteFile, complete or not; the file is truncated first.
WriteIgnoringErrors(file, content, next) ==
  /\ gpc = file /\ gpc' = next
  /\ \/ /\ files' = [files EXCEPT ![file] = <<"whole", content>>]
        /\ written' = [written EXCEPT ![file] = run]
     \/ files' = [files EXCEPT ![file] = Broken] /\ UNCHANGED written
  /\ UNCHANGED <<flags, spec, inventory, pending, ops, run>>
Write(file, content, next) ==
  /\ gpc = file
  /\ \/ /\ gpc' = next
        /\ files' = [files EXCEPT ![file] = <<"whole", content>>]
        /\ written' = [written EXCEPT ![file] = run]
     \/ /\ gpc' = "fatal"
        /\ files' = [files EXCEPT ![file] = Broken]
        /\ UNCHANGED written
  /\ UNCHANGED <<flags, spec, inventory, pending, ops, run>>

\* render keeps seven columns of the operations, and the document as it is.
\* Where the events come from is kept as history.
Row(op) ==
  [Method |-> op.Method, Path |-> op.Path, ID |-> op.OperationID, Capability |-> op.Capability,
   RequestMedia |-> op.RequestMedia, ResponseMedia |-> op.ResponseMedia,
   SuccessStatus |-> op.SuccessStatus]
render(events) == [spec |-> spec, inventory |-> Inventory, events |-> events,
                   operations |-> [i \in DOMAIN ops |-> Row(ops[i])]]
renderCompatibility(events) == [events |-> events, operations |-> ops]

WriteOutput == \E events \in EventLists : Write("output", render(events), "manifest")
WriteManifest == "manifest" \in flags /\ Write("manifest", [operations |-> ops], "compatibility")
WriteCompatibility ==
  /\ {"compatibility", "events"} \subseteq flags
  /\ \E events \in EventLists : Write("compatibility", renderCompatibility(events), "done")

\* A file that was not asked for; a matrix without events is an error that is
\* only noticed when the other files have been written.
SkipFile ==
  /\ \/ gpc = "manifest" /\ "manifest" \notin flags /\ gpc' = "compatibility"
     \/ gpc = "compatibility" /\ "compatibility" \notin flags /\ gpc' = "done"
     \/ gpc = "compatibility" /\ gpc \in flags /\ "events" \notin flags /\ gpc' = "fatal"
  /\ UNCHANGED <<flags, spec, inventory, pending, ops, files, run, written>>

\* A read or a directory fails, the source does not format, somebody kills the
\* command.
Killed ==
  /\ gpc \notin {"done", "fatal"}
  /\ gpc' = "fatal"
  /\ UNCHANGED <<flags, spec, inventory, pending, ops, files, run, written>>

RunAgain ==
  /\ gpc \in {"done", "fatal"} /\ run < MaxRuns
  /\ gpc' = "collect" /\ run' = run + 1
  /\ flags' \in FlagSets /\ spec' \in Specs /\ inventory' \in Inventories
  /\ pending' = spec' /\ ops' = <<>>
  /\ UNCHANGED <<files, written>>

GenNext ==
  \/ \E e \in pending : Visit(e)
  \/ Collected \/ ReadEvents \/ Validate
  \/ WriteOutput \/ WriteManifest \/ WriteCompatibility \/ SkipFile
  \/ Killed \/ RunAgain

-----------------------------------------------------------------------------
Whole(file) == files[file][1] = "whole"
Held(file) == files[file][2]
Lists(operations, s) == {<<o.Path, o.Method>> : o \in Range(operations)}
                          = {<<e.path, MethodOf(e)>> : e \in {e \in s : Served(e)}}

\* A row of a file says all there is to say of an entry of a document, with its
\* media types once each and in order.
Ascending(strings) == \A i, j \in DOMAIN strings : i < j => Rank[strings[i]] < Rank[strings[j]]
Describes(row, e, file) ==
  LET op == ItemUnsorted(e, row.RequestMedia, row.ResponseMedia)
  IN  /\ Ascending(row.RequestMedia) /\ Range(row.RequestMedia) = e.request
      /\ Ascending(row.ResponseMedia) /\ Range(row.ResponseMedia) = ResponseMedia(e)
      /\ row = IF file = "output" THEN Row(op) ELSE op

\* Whatever order the maps were walked in, a file that is not broken describes
\* each operation of one document once, in the order of paths and methods, and
\* the tables and the matrix have each event of one inventory once, in order.  So
\* generating again changes nothing and "make verify" can compare, unless the
\* document spells a method twice on one path: those two rows stand in any order.
FilesAreCanonical ==
  \A file \in {f \in Files : Whole(f)} :
    LET rows == Held(file).operations
    IN  /\ \E s \in Specs : \E entry \in Bijection(DOMAIN rows, {e \in s : Served(e)}) :
             \A i \in DOMAIN rows : Describes(rows[i], entry[i], file)
        /\ \A i, j \in DOMAIN rows : i < j => ~OperationBefore(rows[j], rows[i])
        /\ file # "manifest" => LET list == Held(file).events IN
             /\ \A i, j \in DOMAIN list : i < j => EventBefore(list[i], list[j])
             /\ \E inv \in Inventories \cup {<<>>} :
                  Range(list) = UNION {Range(EventsOf(s, inv[s])) : s \in DOMAIN inv}

\* A run that ends well has written all it was asked for from one document, and
\* a run that fails half way never leaves a manifest or a matrix that is ahead
\* of the tables the shell is compiled with.
FilesAgree ==
  /\ \A file \in Files : written[file] <= written["output"]
  /\ gpc = "done" =>
       \A file \in {"output"} \cup (flags \cap Files) :
         written[file] = run /\ Lists(Held(file).operations, spec)
=============================================================================
