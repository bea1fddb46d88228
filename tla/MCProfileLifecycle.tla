------------------------- MODULE MCProfileLifecycle -------------------------
(***************************************************************************)
(* Documents with three operations on two paths, most of them with one     *)
(* flaw the generator has to notice and one with a method spelled twice on *)
(* one path, and three concurrent requests.                                *)
(***************************************************************************)
EXTENDS ProfileLifecycle

Sorted ==
  <<"/containers/{id}", "/models", "/other", "DELETE", "GET", "PATCH", "POST", "PUT",
    "application/json", "application/octet-stream", "client", "multipart/form-data",
    "realtime", "response.done", "responses_websocket", "server", "session.update",
    "text/event-stream">>
MCRank == [s \in Range(Sorted) |-> CHOOSE i \in DOMAIN Sorted : Sorted[i] = s]
MCLower == "get" :> "get" @@ "GET" :> "get" @@ "post" :> "post" @@ "trace" :> "trace"
MCPrefixOf ==
  "/containers/{id}" :> "/containers" @@ "/models" :> "" @@ "/other" :> ""

Entry(path, method, id, tag, query, request, responses) ==
  [path |-> path, method |-> method, id |-> id, tag |-> tag, query |-> query,
   request |-> request, responses |-> responses]
JSON == {[code |-> 200, media |-> {"application/json"}]}

Upload(id) ==
  Entry("/containers/{id}", "post", id, "", FALSE, {"multipart/form-data", "application/json"},
        {[code |-> 204, media |-> {}], [code |-> 201, media |-> {"text/event-stream"}],
         [code |-> 0, media |-> {"application/json"}]})
Voice(id) == Entry("/containers/{id}", "get", id, "Audio", FALSE, {}, {})
List(id, query) == Entry("/models", "get", id, "Models", query, {}, JSON)

MCSpecs ==
  {{Upload("createFile"), Voice("createVoice"), List("listModels", TRUE),
    Entry("/models", "trace", "", "", FALSE, {}, {})},
   {Upload("listModels"), Voice("createVoice"), List("listModels", TRUE)},
   {Upload("createFile"), Voice("listVoices"), List("listModels", TRUE)},
   {Upload("createFile"), Voice("createVoice"), List("", TRUE)},
   {Upload("createFile"), Voice("createVoice"),
    Entry("/other", "get", "other", "", FALSE, {}, JSON)},
   {Upload("createFile"), Voice("createVoice"),
    Entry("/models", "get", "listModels", "Models", FALSE, {}, {})},
   {Upload("createFile"), Voice("createVoice")},
   {Voice("createVoice"), List("listModels", TRUE),
    Entry("/models", "GET", "moreModels", "Models", TRUE, {}, JSON)}}

MCInventories ==
  {[realtime |-> [client |-> <<"session.update">>, server |-> <<>>],
    responses_websocket |-> [client |-> <<>>, server |-> <<"response.done">>]],
   [realtime |-> [client |-> <<"session.update", "session.update">>, server |-> <<>>]]}

MCFlagSets ==
  {{"events", "manifest", "compatibility"}, {"manifest", "compatibility"}, {}}

MCEventKeys ==
  {<<"realtime", "client", "session.update">>, <<"realtime", "server", "session.update">>}

\* Goroutines are alike.
MCSymmetry == Permutations(Goroutines)
=============================================================================
