-------------------------- MODULE ProfileLifecycle --------------------------
(***************************************************************************)
(* From the pinned document to a request: the generator writes the tables, *)
(* the shell is compiled with whatever it finds, and requests look up      *)
(* operations, events and the document in the process that results.        *)
(***************************************************************************)
EXTENDS Generator, SharedState

CONSTANTS OperationKeys, \* IDs that requests look for
          EventKeys      \* triples of surface, direction and type

\* EventAllowed is asked about one of the two directions.
ASSUME LifecycleAssumption ==
  \A key \in EventKeys : key = <<key[1], key[2], key[3]>> /\ key[2] \in {"client", "server"}

VARIABLE deployed   \* is a process running?

lifecycleVars == <<genVars, sharedVars, deployed>>

\* backend.Capabilities
Capabilities ==
  {"responses", "chat", "completions", "embeddings", "audio", "images", "videos",
   "moderations", "models", "files", "uploads", "batches", "assistants", "vector_stores",
   "fine_tuning", "evals", "containers", "skills", "chatkit", "organization",
   "conversations", "realtime"}

LifecycleInit == GenInit /\ SharedInit /\ deployed = FALSE

\* A broken source file does not compile.  The process has nothing of the
\* generator but the tables.
Deploy ==
  /\ ~deployed /\ gpc \in {"done", "fatal"} /\ Whole("output")
  /\ deployed' = TRUE
  /\ Start(Held("output").operations, Held("output").events, Held("output").spec)
  /\ files' = [f \in Files |-> IF f = "output" THEN files[f] ELSE NoFile]
  /\ gpc' = "done" /\ flags' = {} /\ pending' = {} /\ ops' = <<>>
  /\ run' = 0 /\ written' = [f \in Files |-> 0]
  /\ spec' = Held("output").spec /\ inventory' = Held("output").inventory

Ask(g) ==
  \/ \E id \in OperationKeys : Call(g, "operations", <<id>>)
  \/ \E event \in EventKeys : Call(g, "events", event)
  \/ Call(g, "document", <<>>)

LifecycleNext ==
  \/ ~deployed /\ GenNext /\ UNCHANGED <<sharedVars, deployed>>
  \/ Deploy
  \/ \E g \in Goroutines : /\ deployed
                           /\ Ask(g) \/ GoroutineStep(g)
                           /\ UNCHANGED <<genVars, deployed>>

LifecycleSpec == LifecycleInit /\ [][LifecycleNext]_lifecycleVars

-----------------------------------------------------------------------------
Source == Held("output")

\* A lookup gives what the document and the inventory say, whoever builds the
\* table and however many requests wait for it: the one operation with the ID,
\* under a capability the registry knows, or none; membership in the event
\* union; the whole document for every caller, or the same failure for all.
LookupsMatchSpec ==
  \A g \in Goroutines : LET key == wanted[g].key IN found[g][1] # "nothing" =>
    CASE wanted[g].table = "operations" ->
           LET entries == {e \in Source.spec : Served(e) /\ <<e.id>> = key}
           IN  /\ Lists(SetToSeq(found[g][2]), entries)
               /\ Cardinality(entries) <= 1
               /\ \A row \in found[g][2] : <<row.ID>> = key /\ row.Capability \in Capabilities
      [] wanted[g].table = "events" ->
           found[g][2] # {} <=>
             /\ key[1] \in DOMAIN Source.inventory
             /\ Contains(Source.inventory[key[1]][key[2]], key[3])
      [] OTHER ->
           /\ found[g] \in {<<"error", {}>>, <<"document", {Source.spec}>>}
           /\ \A h \in Goroutines :
                wanted[h].table = "document" /\ found[h][1] # "nothing" => found[h] = found[g]
=============================================================================
