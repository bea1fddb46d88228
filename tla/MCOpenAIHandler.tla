-------------------------- MODULE MCOpenAIHandler ---------------------------
(***************************************************************************)
(* A small profile with a query variant beside its plain operation, in     *)
(* both orders, two authenticators that disagree, and requests that meet   *)
(* each fork of the handler.                                               *)
(***************************************************************************)
EXTENDS OpenAIHandler

MCBasePaths ==
  {[absolute |-> TRUE,  path |-> <<"api", "x", "..", "", "v2", "">>],
   [absolute |-> TRUE,  path |-> <<"v1", "..">>],
   [absolute |-> FALSE, path |-> <<"v1">>]}

MCOriginLists == {{"https://app"}, {"https://app", "blank"}}

\* The second one accepts what the first rejects, and names nobody for the
\* token the first accepts.
MCPrincipals ==
  [first  |-> [good |-> "alice", bad |-> "rejected", blank |-> "rejected"],
   second |-> [good |-> "blank", bad |-> "bob", blank |-> "rejected"]]

Op(full, path, required, id, capability) ==
  [method |-> "POST", full |-> <<full>>, path |-> <<path>>, required |-> required,
   id |-> id, capability |-> capability]
Plain   == Op("responses", "responses", {}, "createResponse", "responses")
Variant == Op("responses?beta=true", "responses", {<<"beta", "true">>},
              "beta_createResponse", "responses")
Chat    == Op("chat", "chat", {}, "createChat", "chat")
MCTables == {<<Plain, Variant, Chat>>, <<Chat, Variant, Plain>>}

Ask(method, path, beta, upgrade, bearer, protocols) ==
  [method |-> method, path |-> path, query |-> [beta |-> beta], upgrade |-> upgrade,
   bearer |-> bearer, protocols |-> protocols]

\* Everything about the path with one credential, everything about the
\* credential with two paths.
MCRequests ==
  {Ask("POST", path, beta, upgrade, "good", <<>>) :
     path \in {<<"v1", "responses">>, <<"api", "v2", "responses">>},
     beta \in {<<>>, <<"true">>, <<"false", "true">>}, upgrade \in BOOLEAN}
  \cup {Ask("POST", path, <<>>, upgrade, "bad", <<>>) : upgrade \in BOOLEAN,
     path \in {<<"v1">>, <<"v1", "chat">>, <<"v1", "realtime">>, <<"v1", "responses?beta=true">>}}
  \cup {Ask("GET", <<"v1", "chat">>, <<>>, FALSE, "good", <<>>)}
  \cup {Ask("POST", <<"v1", "responses">>, <<>>, FALSE, bearer, protocols) :
     bearer \in {NoToken, "bad"}, protocols \in {<<>>, <<"good">>, <<"bad", "good">>}}

\* Nothing tells one implementation from another.
MCSymmetry == Permutations(Impls)
=============================================================================
