---------------------------- MODULE EventStream -----------------------------
(***************************************************************************)
(* How writeSSE puts backend events on the wire, and how a client that     *)
(* follows the server-sent events format takes them off again.  A text is  *)
(* a sequence of characters, of which only CR and LF are told apart; the   *)
(* field names with their colon and blank count as one character each.     *)
(***************************************************************************)
EXTENDS SequencesExt

CR == "CR"
LF == "LF"

StreamEvent(id, type, data) == [id |-> id, type |-> type, data |-> data]

\* strings.NewReplacer("\r", "", "\n", "")
sanitizeSSE(text) == SelectSeq(text, LAMBDA c : c \notin {CR, LF})

\* strings.SplitSeq(text, "\n")
SplitLines(text) ==
  FoldLeft(LAMBDA lines, c : IF c = LF THEN Append(lines, <<>>)
                             ELSE Append(Front(lines), Append(Last(lines), c)),
           << <<>> >>, text)

Field(name, text) == <<name>> \o text \o <<LF>>
FieldUnlessEmpty(name, text) == IF text = <<>> THEN <<>> ELSE Field(name, sanitizeSSE(text))

\* The document {"type": ...} that stands in for missing data; JSON escapes
\* line breaks.
TypeDocument == <<"{type}">>
DataOf(event) == IF event.data = <<>> THEN TypeDocument ELSE event.data

writeWithoutSplit(event) ==
  FieldUnlessEmpty("id: ", event.id) \o FieldUnlessEmpty("event: ", event.type)
    \o Field("data: ", DataOf(event)) \o <<LF>>
writeEvent(event) ==
  FieldUnlessEmpty("id: ", event.id) \o FieldUnlessEmpty("event: ", event.type)
    \o FlattenSeq([i \in DOMAIN SplitLines(DataOf(event)) |->
                     Field("data: ", SplitLines(DataOf(event))[i])])
    \o <<LF>>

-----------------------------------------------------------------------------
(* The client's parser: lines end with CR, LF or both; an empty line       *)
(* dispatches what its predecessors have set; lines without a known field  *)
(* are ignored; the id stays until it is set again.                        *)

Fresh == [line |-> <<>>, afterCR |-> FALSE, id |-> <<>>, type |-> <<>>, data |-> <<>>,
          events |-> <<>>]

Joined(lines) == Tail(FlattenSeq([i \in DOMAIN lines |-> <<LF>> \o lines[i]]))

Dispatch(p) ==
  [p EXCEPT !.type = <<>>, !.data = <<>>,
            !.events = IF p.data = <<>> THEN @
                       ELSE Append(@, StreamEvent(p.id, p.type, Joined(p.data)))]

EndLine(p) ==
  LET rest == [p EXCEPT !.line = <<>>]
  IN  IF p.line = <<>> THEN Dispatch(p)
      ELSE CASE Head(p.line) = "id: "    -> [rest EXCEPT !.id = Tail(p.line)]
             [] Head(p.line) = "event: " -> [rest EXCEPT !.type = Tail(p.line)]
             [] Head(p.line) = "data: "  -> [rest EXCEPT !.data = Append(@, Tail(p.line))]
             [] OTHER                    -> rest

ReadCharacter(p, c) ==
  IF c = LF /\ p.afterCR THEN [p EXCEPT !.afterCR = FALSE]
  ELSE IF c \in {CR, LF} THEN [EndLine(p) EXCEPT !.afterCR = (c = CR)]
  ELSE [p EXCEPT !.line = Append(@, c), !.afterCR = FALSE]

Parse(wire) == FoldLeft(ReadCharacter, Fresh, wire)
=============================================================================
