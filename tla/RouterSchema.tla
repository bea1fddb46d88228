---------------------------- MODULE RouterSchema ----------------------------
(***************************************************************************)
(* The copy of the frozen OpenAPI document that the router and the         *)
(* validator work on: normalizeRouterSchemas walks the decoded JSON and    *)
(* rewrites every object in place, the parent before its children.  A JSON *)
(* value is a pair of its kind and its content; the content of an object   *)
(* is a function from member names to values.                              *)
(***************************************************************************)
EXTENDS SequencesExt

Object(members) == <<"object", members>>
Array(items)    == <<"array", items>>
String(s)       == <<"string", s>>
Number(n)       == <<"number", n>>
Bool(b)         == <<"bool", b>>
Null            == <<"null", 0>>
Missing         == <<"missing", 0>>

Kind(value)    == value[1]
Content(value) == value[2]

Has(object, name)    == name \in DOMAIN Content(object)
Member(object, name) == IF Has(object, name) THEN Content(object)[name] ELSE Missing
With(object, name, value) == Object((name :> value) @@ Content(object))
Without(object, name) == Object(Restrict(Content(object), DOMAIN Content(object) \ {name}))

-----------------------------------------------------------------------------
\* Repeated names go, in order of first occurrence; what is no name stays.
KeepFirst(unique, item) ==
  IF Kind(item) = "string" /\ Contains(unique, item) THEN unique ELSE Append(unique, item)
UniqueRequired(o) ==
  LET required == Member(o, "required")
  IN  IF Kind(required) # "array" THEN o
      ELSE With(o, "required", Array(FoldLeft(KeepFirst, <<>>, Content(required))))

\* A boolean exclusive bound becomes a numeric one.
NumericBound(o, bound, exclusive) ==
  IF Member(o, exclusive) = Bool(FALSE) THEN Without(o, exclusive)
  ELSE IF Member(o, exclusive) = Bool(TRUE) /\ Kind(Member(o, bound)) = "number"
  THEN Without(With(o, exclusive, Member(o, bound)), bound)
  ELSE o

\* A validator that does not know type "null" knows nullable schemas.
NullableForNull(o) ==
  LET rest == With(Without(o, "type"), "nullable", Bool(TRUE))
  IN  IF Member(o, "type") # String("null") THEN o
      ELSE IF Has(o, "enum") THEN rest ELSE With(rest, "enum", Array(<<Null>>))

\* The type that all branches of an anyOf name, unless that is "null".
firstAnyOfType(value) ==
  IF Kind(value) = "array" THEN Member(Content(value)[1], "type") ELSE Missing
commonAnyOfType(value) ==
  LET TypeOf(branch) == IF Kind(branch) = "object" THEN Member(branch, "type") ELSE Missing
      types == {TypeOf(branch) : branch \in Range(Content(value))}
  IN  IF /\ Kind(value) = "array"
         /\ \E t \in types : Kind(t) = "string" /\ t # String("null") /\ types = {t}
      THEN CHOOSE t \in types : TRUE
      ELSE Missing
PromoteType(o) ==
  LET common == commonAnyOfType(Member(o, "anyOf"))
  IN  IF Has(o, "type") \/ common = Missing THEN o ELSE With(o, "type", common)

RewriteObject(o, native) ==
  LET unique  == UniqueRequired(o)
      bounded == NumericBound(NumericBound(unique, "minimum", "exclusiveMinimum"),
                              "maximum", "exclusiveMaximum")
  IN  PromoteType(IF native THEN bounded ELSE NullableForNull(unique))

\* Every member of the rewritten object is walked in turn, whatever it means:
\* a schema, a map of properties, an example.
RECURSIVE normalizeRouterSchemas(_, _)
normalizeRouterSchemas(value, native) ==
  IF Kind(value) = "object"
  THEN LET members == Content(RewriteObject(value, native))
       IN  Object([name \in DOMAIN members |-> normalizeRouterSchemas(members[name], native)])
  ELSE IF Kind(value) = "array"
  THEN Array([i \in DOMAIN Content(value) |-> normalizeRouterSchemas(Content(value)[i], native)])
  ELSE value

-----------------------------------------------------------------------------
(* What a schema means: the validator library, in either of its versions.  *)

\* The schemas inside a schema, itself included.
RECURSIVE Subschemas(_)
Subschemas(s) ==
  {s} \cup UNION {Subschemas(b) : b \in IF Has(s, "anyOf") THEN Range(Content(Member(s, "anyOf")))
                                        ELSE {}}
      \cup UNION {Subschemas(p) : p \in IF Has(s, "properties")
                                        THEN Range(Content(Member(s, "properties"))) ELSE {}}

\* The older version reads no type "null" and boolean exclusive bounds, the
\* newer one numeric exclusive bounds; neither reads a repeated required name.
Readable(schema, native) ==
  \A s \in Subschemas(schema) :
    /\ native \/ Member(s, "type") # String("null")
    /\ {Kind(Member(s, b)) : b \in {"exclusiveMinimum", "exclusiveMaximum"}}
         \subseteq {"missing", IF native THEN "number" ELSE "bool"}
    /\ Has(s, "required") => IsInjective(Content(Member(s, "required")))

\* Both spellings of an exclusive bound.
WithinBound(s, bound, exclusive, Allows(_, _)) ==
  /\ Has(s, bound) => Allows(Content(Member(s, bound)), Member(s, exclusive) = Bool(TRUE))
  /\ Kind(Member(s, exclusive)) = "number" => Allows(Content(Member(s, exclusive)), TRUE)

\* null is accepted by a nullable schema, and by one of whose branches one
\* accepts it.
RECURSIVE Accepts(_, _)
Accepts(s, v) ==
  \/ v = Null /\ Member(s, "nullable") = Bool(TRUE)
  \/ v = Null /\ Has(s, "anyOf") /\ \E b \in Range(Content(Member(s, "anyOf"))) : Accepts(b, v)
  \/ /\ Has(s, "anyOf") => \E b \in Range(Content(Member(s, "anyOf"))) : Accepts(b, v)
     /\ Has(s, "type") => Member(s, "type") = String(Kind(v))
     /\ Has(s, "enum") => Contains(Content(Member(s, "enum")), v)
     /\ Kind(v) = "number" =>
          /\ WithinBound(s, "minimum", "exclusiveMinimum",
               LAMBDA n, strict : IF strict THEN Content(v) > n ELSE Content(v) >= n)
          /\ WithinBound(s, "maximum", "exclusiveMaximum",
               LAMBDA n, strict : IF strict THEN Content(v) < n ELSE Content(v) <= n)
     /\ Kind(v) = "object" =>
          /\ Has(s, "required") =>
               \A name \in Range(Content(Member(s, "required"))) : Has(v, Content(name))
          /\ Has(s, "properties") =>
               \A name \in DOMAIN Content(v) \cap DOMAIN Content(Member(s, "properties")) :
                 Accepts(Content(Member(s, "properties"))[name], Content(v)[name])
=============================================================================
