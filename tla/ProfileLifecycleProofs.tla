----------------------- MODULE ProfileLifecycleProofs -----------------------
(***************************************************************************)
(* Proofs about the generator, the files it leaves behind and the process  *)
(* compiled with them, for any documents, inventories, runs, failures and  *)
(* concurrent requests.                                                    *)
(***************************************************************************)
EXTENDS Integers, ProfileLifecycle, OrderLemmas, FiniteSetTheorems

-----------------------------------------------------------------------------
(* The shared error.                                                       *)

Fields == {"Kind", "Message"}
Elsewhere == {"idle", "once", "build", "read", "failed", "done", "fault"}
Answering == {"Kind", "storeKind", "Message", "storeMessage", "encode"}

\* What the kind is in the end, whoever fills it in.
FinalKind == IF error["Kind"] = "" THEN ErrorInternal ELSE error["Kind"]

ErrorTypes ==
  /\ words \in [Fields -> SUBSET Words]
  /\ DOMAIN at = Goroutines /\ DOMAIN status = Goroutines /\ DOMAIN envelope = Goroutines
  /\ \A g \in Goroutines : at[g] \in Elsewhere \cup Answering

\* A field that has its length keeps it; a request has seen to it that both have
\* one before it writes; and the status it chose is the one of the final kind.
ErrorInv ==
  /\ ErrorTypes
  /\ \A f \in Fields : error[f] # "" => words[f] = Words
  /\ \A g \in Goroutines :
       /\ at[g] \in {"Message", "storeMessage", "encode"} => "length" \in words["Kind"]
       /\ at[g] = "encode" => "length" \in words["Message"]
       /\ at[g] \in Answering => status[g] = errorStatus(FinalKind)
       /\ at[g] # "done" => envelope[g] = NoEnvelope
  /\ ErrorAnswersAgree

LEMMA StatusOfDefault ==
  errorStatus("") = errorStatus(ErrorInternal)
  BY DEF errorStatus, StatusOf, ErrorInternal

LEMMA ErrorInit == SharedInit => ErrorInv
<1> SUFFICES ASSUME SharedInit PROVE ErrorInv
  OBVIOUS
<1>1. ErrorTypes
  BY DEF SharedInit, ErrorTypes, Fields, Elsewhere
<1>2. \A f \in Fields : error[f] = ""
  <2>1. error["Kind"] = "" /\ error["Message"] = ""
    BY DEF SharedInit
  <2> QED
    BY <2>1 DEF Fields
<1>3. \A g \in Goroutines : at[g] = "idle" /\ envelope[g] = NoEnvelope
  BY DEF SharedInit
<1> QED
  BY <1>1, <1>2, <1>3 DEF ErrorInv, ErrorAnswersAgree, Answering

\* Steps that are about something else.
LEMMA ErrorFrame ==
  ASSUME ErrorInv, UNCHANGED <<error, words, status, envelope>>, DOMAIN at' = Goroutines,
         \A g \in Goroutines : at'[g] = at[g] \/ (at'[g] \in Elsewhere /\ at[g] # "done")
  PROVE  ErrorInv'
<1>1. ErrorTypes'
  BY DEF ErrorInv, ErrorTypes
<1>2. FinalKind' = FinalKind
  BY DEF FinalKind
<1>3. \A g \in Goroutines :
        /\ at'[g] \in {"Message", "storeMessage", "encode"} => at[g] = at'[g]
        /\ at'[g] = "encode" => at[g] = at'[g]
        /\ at'[g] \in Answering => at[g] = at'[g]
        /\ at'[g] # "done" => at[g] # "done"
  BY DEF Elsewhere, Answering
<1>4. ErrorAnswersAgree'
  BY DEF ErrorInv, ErrorAnswersAgree
<1> QED
  BY <1>1, <1>2, <1>3, <1>4 DEF ErrorInv

\* A step that moves one request.
LEMMA Moved ==
  ASSUME DOMAIN at = Goroutines, NEW g \in Goroutines, NEW from, NEW to, Goto(g, from, to)
  PROVE  /\ at[g] = from /\ at'[g] = to /\ DOMAIN at' = Goroutines
         /\ \A h \in Goroutines : h # g => at'[h] = at[h]
  BY DEF Goto

LEMMA ErrorOther ==
  ASSUME ErrorInv, NEW g \in Goroutines, NEW from, NEW to \in Elsewhere, Goto(g, from, to),
         from # "done", UNCHANGED <<errorVars, answerVars>>
  PROVE  ErrorInv'
<1>1. DOMAIN at = Goroutines
  BY DEF ErrorInv, ErrorTypes
<1>2. UNCHANGED <<error, words, status, envelope>>
  BY DEF errorVars, answerVars
<1> QED
  BY <1>1, <1>2, Moved, ErrorFrame

LEMMA ErrorAnswerOwn ==
  ASSUME ErrorInv, NEW g \in Goroutines, AnswerOwn(g)
  PROVE  ErrorInv'
<1> DEFINE own == [type |-> ErrorInternal, message |-> "The server encountered an internal error."]
<1>0. ErrorTypes
  BY DEF ErrorInv
<1>1. /\ at'[g] = "done" /\ DOMAIN at' = Goroutines
      /\ \A h \in Goroutines : h # g => at'[h] = at[h]
  BY <1>0, Moved DEF AnswerOwn, ErrorTypes
<1>2. /\ UNCHANGED <<error, words>>
      /\ status' = [status EXCEPT ![g] = errorStatus(ErrorInternal)]
      /\ envelope' = [envelope EXCEPT ![g] = own]
  BY DEF AnswerOwn, errorVars
<1>3. own.type = ErrorInternal /\ own.type # "" /\ own.message # ""
  BY DEF ErrorInternal
<1> HIDE DEF own
<1>4. /\ status'[g] = errorStatus(ErrorInternal) /\ envelope'[g] = own
      /\ DOMAIN status' = Goroutines /\ DOMAIN envelope' = Goroutines
      /\ \A h \in Goroutines : h # g => status'[h] = status[h] /\ envelope'[h] = envelope[h]
  BY <1>0, <1>2 DEF ErrorTypes
<1>5. ErrorTypes'
  BY <1>0, <1>1, <1>2, <1>4 DEF ErrorTypes, Elsewhere
<1>6. FinalKind' = FinalKind
  BY <1>2 DEF FinalKind
<1>7. ErrorAnswersAgree'
  BY <1>3, <1>4 DEF ErrorInv, ErrorAnswersAgree
<1>8. at'[g] \notin Answering /\ at'[g] \notin {"Message", "storeMessage", "encode"}
  BY <1>1 DEF Answering
<1> QED
  BY <1>1, <1>2, <1>4, <1>5, <1>6, <1>7, <1>8 DEF ErrorInv

\* Whatever of the kind is there, the status is that of the final one.
LEMMA ErrorChooseStatus ==
  ASSUME ErrorInv, NEW g \in Goroutines, ChooseStatus(g)
  PROVE  ErrorInv'
<1>0. ErrorTypes
  BY DEF ErrorInv
<1>1. /\ at'[g] = "Kind" /\ DOMAIN at' = Goroutines
      /\ \A h \in Goroutines : h # g => at'[h] = at[h]
  BY <1>0, Moved DEF ChooseStatus, ErrorTypes
<1>2. /\ UNCHANGED <<error, words, envelope>> /\ at[g] = "failed"
      /\ status' = [status EXCEPT ![g] = errorStatus(Value("Kind"))]
  BY DEF ChooseStatus, errorVars, Goto
<1>3. errorStatus(Value("Kind")) = errorStatus(FinalKind)
  <2>1. error["Kind"] # "" => "length" \in words["Kind"]
    BY DEF ErrorInv, Fields, Words
  <2>2. Default["Kind"] = ErrorInternal
    BY DEF Default
  <2>3. Value("Kind") = FinalKind \/ (Value("Kind") = "" /\ FinalKind = ErrorInternal)
    BY <2>1, <2>2 DEF Value, IsEmpty, FinalKind
  <2> QED
    BY <2>3, StatusOfDefault
<1>4. /\ status'[g] = errorStatus(FinalKind) /\ DOMAIN status' = Goroutines
      /\ \A h \in Goroutines : h # g => status'[h] = status[h]
  BY <1>0, <1>2, <1>3 DEF ErrorTypes
<1>5. ErrorTypes'
  BY <1>0, <1>1, <1>2, <1>4 DEF ErrorTypes, Answering
<1>6. FinalKind' = FinalKind
  BY <1>2 DEF FinalKind
<1>7. envelope[g] = NoEnvelope
  BY <1>2 DEF ErrorInv
<1>8. ErrorAnswersAgree'
  BY <1>2, <1>4, <1>7 DEF ErrorInv, ErrorAnswersAgree
<1>9. \A h \in Goroutines :
        /\ at'[h] \in {"Message", "storeMessage", "encode"} => at[h] = at'[h]
        /\ at'[h] = "encode" => at[h] = at'[h]
        /\ at'[h] \in Answering => status'[h] = errorStatus(FinalKind)
        /\ at'[h] # "done" => envelope[h] = NoEnvelope
  BY <1>1, <1>2, <1>4 DEF ErrorInv
<1> QED
  BY <1>2, <1>5, <1>6, <1>8, <1>9 DEF ErrorInv

\* A store sets one word or both, and unsets none.
LEMMA ErrorFillField ==
  ASSUME ErrorInv, NEW g \in Goroutines, NEW field \in Fields, FillField(g, field)
  PROVE  ErrorInv'
<1>0. ErrorTypes
  BY DEF ErrorInv
<1>1. UNCHANGED <<error, status, envelope>>
  BY DEF FillField, answerVars
<1>2. /\ words' \in [Fields -> SUBSET Words]
      /\ \A f \in Fields : words[f] \subseteq words'[f]
  BY <1>0 DEF FillField, ErrorTypes
<1>3. /\ field = "Kind" => Storing[field] = "storeKind" /\ After[field] = "Message"
      /\ field = "Message" => Storing[field] = "storeMessage" /\ After[field] = "encode"
  BY DEF Storing, After
<1>4. \E from, to : Goto(g, from, to)
  BY DEF FillField
<1>5. DOMAIN at' = Goroutines /\ \A h \in Goroutines : h # g => at'[h] = at[h]
  BY <1>0, <1>4, Moved DEF ErrorTypes
<1>6. /\ at[g] \in Answering /\ at'[g] \in Answering /\ at[g] # "done" /\ at'[g] # "done"
      /\ at'[g] \in {"Message", "storeMessage", "encode"} => "length" \in words'["Kind"]
      /\ at'[g] = "encode" => "length" \in words'["Message"]
  <2>1. CASE ~IsEmpty(field) /\ Goto(g, field, After[field]) /\ UNCHANGED words
    <3>1. at[g] = field /\ at'[g] = After[field] /\ "length" \in words[field]
      BY <1>0, <2>1, Moved DEF ErrorTypes, IsEmpty
    <3> QED
      BY <1>3, <2>1, <3>1 DEF ErrorInv, Fields, Answering
  <2>2. CASE /\ IsEmpty(field) /\ Goto(g, field, Storing[field])
             /\ \E w \in Words : words' = [words EXCEPT ![field] = @ \cup {w}]
    <3>1. at[g] = field /\ at'[g] = Storing[field]
      BY <1>0, <2>2, Moved DEF ErrorTypes
    <3>2. field = "Message" => "length" \in words["Kind"]
      BY <3>1 DEF ErrorInv
    <3> QED
      BY <1>2, <1>3, <3>1, <3>2 DEF Fields, Answering
  <2>3. CASE Goto(g, Storing[field], After[field]) /\ words' = [words EXCEPT ![field] = Words]
    <3>1. at[g] = Storing[field] /\ at'[g] = After[field]
      BY <1>0, <2>3, Moved DEF ErrorTypes
    <3>2. "length" \in words'[field]
      BY <1>0, <2>3 DEF ErrorTypes, Words
    <3>3. field = "Message" => "length" \in words["Kind"]
      BY <1>3, <3>1 DEF ErrorInv
    <3> QED
      BY <1>2, <1>3, <3>1, <3>2, <3>3 DEF Fields, Answering
  <2> QED
    BY <2>1, <2>2, <2>3 DEF FillField
<1>7. ErrorTypes'
  BY <1>0, <1>1, <1>2, <1>5, <1>6 DEF ErrorTypes
<1>8. \A f \in Fields : error'[f] # "" => words'[f] = Words
  <2>1. \A f \in Fields : error[f] # "" => words[f] = Words
    BY DEF ErrorInv
  <2> QED
    BY <1>1, <1>2, <2>1
<1>9. FinalKind' = FinalKind /\ ErrorAnswersAgree'
  BY <1>1 DEF FinalKind, ErrorInv, ErrorAnswersAgree
<1>10. "length" \in words["Kind"] => "length" \in words'["Kind"]
  BY <1>2 DEF Fields
<1>11. "length" \in words["Message"] => "length" \in words'["Message"]
  BY <1>2 DEF Fields
<1>12. ASSUME NEW h \in Goroutines
       PROVE  /\ at'[h] \in {"Message", "storeMessage", "encode"} => "length" \in words'["Kind"]
              /\ at'[h] = "encode" => "length" \in words'["Message"]
              /\ at'[h] \in Answering => status'[h] = errorStatus(FinalKind)
              /\ at'[h] # "done" => envelope'[h] = NoEnvelope
  <2>1. CASE h = g
    BY <1>1, <1>6, <2>1 DEF ErrorInv
  <2>2. CASE h # g
    <3>1. at'[h] = at[h]
      BY <1>5, <2>2
    <3> QED
      BY <1>1, <1>10, <1>11, <3>1 DEF ErrorInv
  <2> QED
    BY <2>1, <2>2
<1> QED
  BY <1>7, <1>8, <1>9, <1>12 DEF ErrorInv

LEMMA ErrorEncode ==
  ASSUME ErrorInv, NEW g \in Goroutines, Encode(g)
  PROVE  ErrorInv'
<1>0. ErrorTypes
  BY DEF ErrorInv
<1>1. UNCHANGED <<error, words, status>> /\ at[g] = "encode"
  BY DEF Encode, errorVars, Goto
<1>2. "length" \in words["Kind"] /\ "length" \in words["Message"]
      /\ status[g] = errorStatus(FinalKind)
  BY <1>1 DEF ErrorInv, Answering
<1>3. CASE Goto(g, "encode", "fault") /\ UNCHANGED envelope
  <2>1. UNCHANGED <<errorVars, answerVars>>
    BY <1>1, <1>3 DEF errorVars, answerVars
  <2> QED
    BY <1>3, <2>1, ErrorOther DEF Elsewhere
<1>4. CASE /\ Goto(g, "encode", "done")
           /\ envelope' = [envelope EXCEPT ![g] = [type |-> Value("Kind"), message |-> Value("Message")]]
  <2> DEFINE answer == [type |-> Value("Kind"), message |-> Value("Message")]
  <2>1. answer.type = FinalKind /\ answer.type # "" /\ answer.message # ""
    <3>1. Default["Kind"] = ErrorInternal /\ Default["Message"] # "" /\ ErrorInternal # ""
      BY DEF Default, ErrorInternal
    <3>2. Value("Kind") = FinalKind /\ Value("Kind") # "" /\ Value("Message") # ""
      BY <1>2, <3>1 DEF Value, IsEmpty, FinalKind
    <3> QED
      BY <3>2
  <2> HIDE DEF answer
  <2>2. /\ envelope'[g] = answer /\ DOMAIN envelope' = Goroutines
        /\ \A h \in Goroutines : h # g => envelope'[h] = envelope[h]
    BY <1>0, <1>4 DEF ErrorTypes, answer
  <2>3. /\ at'[g] = "done" /\ DOMAIN at' = Goroutines
        /\ \A h \in Goroutines : h # g => at'[h] = at[h]
    BY <1>0, <1>4, Moved DEF ErrorTypes
  <2>4. ErrorTypes'
    BY <1>0, <1>1, <2>2, <2>3 DEF ErrorTypes, Elsewhere
  <2>5. FinalKind' = FinalKind
    BY <1>1 DEF FinalKind
  <2>6. ErrorAnswersAgree'
    BY <1>1, <1>2, <2>1, <2>2 DEF ErrorInv, ErrorAnswersAgree
  <2>7. at'[g] \notin Answering /\ at'[g] \notin {"Message", "storeMessage", "encode"}
    BY <2>3 DEF Answering
  <2> QED
    BY <1>1, <2>2, <2>3, <2>4, <2>5, <2>6, <2>7 DEF ErrorInv
<1> QED
  BY <1>3, <1>4 DEF Encode

LEMMA ErrorStart ==
  ASSUME ErrorInv, NEW rows, NEW types, NEW doc, Start(rows, types, doc),
         \A g \in Goroutines : at[g] = "idle"
  PROVE  ErrorInv'
<1>1. UNCHANGED <<at, status, envelope>>
  BY DEF Start, answerVars
<1>2. words' = [f \in Fields |-> IF error'[f] = "" THEN {} ELSE Words]
  BY DEF Start, Fields
<1>3. ErrorTypes'
  BY <1>1, <1>2 DEF ErrorInv, ErrorTypes
<1>4. ErrorAnswersAgree'
  BY <1>1 DEF ErrorInv, ErrorAnswersAgree
<1> QED
  BY <1>1, <1>2, <1>3, <1>4 DEF ErrorInv, Answering

\* Every step of a request.
LEMMA ErrorStep ==
  ASSUME ErrorInv, NEW g \in Goroutines, Ask(g) \/ GoroutineStep(g)
  PROVE  ErrorInv'
<1>1. CASE Ask(g)
  <2>1. Goto(g, "idle", "once") /\ UNCHANGED <<errorVars, answerVars>>
    BY <1>1 DEF Ask, Call
  <2> QED
    BY <2>1, ErrorOther DEF Elsewhere
<1>2. CASE EnterOnce(g)
  <2>1. /\ Goto(g, "once", "build") \/ Goto(g, "once", "read")
        /\ UNCHANGED <<errorVars, answerVars>>
    BY <1>2 DEF EnterOnce
  <2>2. "build" \in Elsewhere /\ "read" \in Elsewhere
    BY DEF Elsewhere
  <2> QED
    BY <2>1, <2>2, ErrorOther
<1>3. CASE BuildEntry(g)
  <2>1. UNCHANGED <<error, words, status, envelope, at>>
    BY <1>3 DEF BuildEntry, errorVars, answerVars
  <2> QED
    BY <2>1, ErrorFrame DEF ErrorInv, ErrorTypes
<1>4. CASE LeaveOnce(g)
  <2>1. Goto(g, "build", "read") /\ UNCHANGED <<errorVars, answerVars>>
    BY <1>4 DEF LeaveOnce
  <2> QED
    BY <2>1, ErrorOther DEF Elsewhere
<1>5. CASE ReadTable(g)
  <2>1. /\ \E next \in {"failed", "done"} : Goto(g, "read", next)
        /\ UNCHANGED <<errorVars, answerVars>>
    BY <1>5 DEF ReadTable
  <2>2. "failed" \in Elsewhere /\ "done" \in Elsewhere
    BY DEF Elsewhere
  <2> QED
    BY <2>1, <2>2, ErrorOther
<1> QED
  BY <1>1, <1>2, <1>3, <1>4, <1>5, ErrorAnswerOwn, ErrorChooseStatus, ErrorFillField, ErrorEncode
  DEF GoroutineStep, Fields
-----------------------------------------------------------------------------
(* The tables built under a sync.Once.                                     *)

Places == {"idle", "once", "build", "read"}
Later == {"failed", "done", "fault"} \cup Answering

Built(t) == filled[t] = Len(Entries(t)) \/ (t = "document" /\ specErr)

TableTypes ==
  /\ once \in [Tables -> {"new", "running", "done"}] /\ DOMAIN filled = Tables
  /\ DOMAIN at = Goroutines /\ DOMAIN wanted = Goroutines /\ DOMAIN found = Goroutines
  /\ \A g \in Goroutines :
       at[g] # "idle" => /\ wanted[g].table \in Tables
                         /\ wanted[g].table = "events" => wanted[g].key \in EventKeys

\* Where a request stands, and that what it has found is what the table says.
Stands(g) ==
  /\ at[g] = "build" => once[wanted[g].table] = "running"
  /\ at[g] = "read" => once[wanted[g].table] = "done"
  /\ at[g] \in Places => found[g] = <<"nothing", {}>>
  /\ found[g][1] # "nothing" => /\ once[wanted[g].table] = "done"
                                /\ found[g] = Lookup(wanted[g].table, wanted[g].key)

\* A table has one builder; when he is done it is built and stays as it is.
TableInv ==
  /\ TableTypes
  /\ \A g \in Goroutines : Stands(g)
  /\ \A g, h \in Goroutines :
       at[g] = "build" /\ at[h] = "build" /\ wanted[g].table = wanted[h].table => g = h
  /\ \A t \in Tables : once[t] = "done" => Built(t)

LEMMA TableInit == SharedInit => TableInv
<1> SUFFICES ASSUME SharedInit PROVE TableInv
  OBVIOUS
<1>1. /\ \A g \in Goroutines : at[g] = "idle" /\ found[g] = <<"nothing", {}>>
      /\ \A t \in Tables : once[t] = "new"
  BY DEF SharedInit
<1>2. TableTypes
  BY <1>1 DEF SharedInit, TableTypes
<1>3. \A g \in Goroutines : found[g][1] = "nothing"
  BY <1>1
<1> QED
  BY <1>1, <1>2, <1>3 DEF TableInv, Stands

\* What a step of one request may leave alone.
LEMMA SameTables ==
  ASSUME UNCHANGED <<operations, events, document>>
  PROVE  \A t : Entries(t)' = Entries(t)
  BY DEF Entries

LEMMA SameLookup ==
  ASSUME UNCHANGED <<operations, events, document, specErr>>, NEW t, filled'[t] = filled[t]
  PROVE  /\ Built(t)' <=> Built(t)
         /\ \A key : Lookup(t, key)' = Lookup(t, key)
<1>1. Entries(t)' = Entries(t)
  BY SameTables
<1> QED
  BY <1>1 DEF Built, Lookup

\* A request that does not move, while the table it has read stays as it is.
LEMMA StandsFrame ==
  ASSUME NEW h \in Goroutines, NEW t, NEW key, Stands(h),
         t = wanted[h].table, key = wanted[h].key,
         at'[h] = at[h], wanted'[h] = wanted[h], found'[h] = found[h],
         at[h] = "build" => once'[t] = once[t],
         once[t] = "done" /\ at[h] # "idle" => once'[t] = "done" /\ Lookup(t, key)' = Lookup(t, key)
  PROVE  Stands(h)'
<1>1. found[h][1] # "nothing" => at[h] # "idle"
  BY DEF Stands, Places
<1>2. at[h] = "read" => at[h] # "idle"
  OBVIOUS
<1>3. Lookup(wanted[h].table, wanted[h].key)' = Lookup(t, key)'
  OBVIOUS
<1> QED
  BY <1>1, <1>2, <1>3 DEF Stands

\* Steps after the lookup.
LEMMA TableFrame ==
  ASSUME TableInv, NEW g \in Goroutines, UNCHANGED <<tableVars, wanted, found>>,
         at[g] \in Later, at'[g] \in Later, DOMAIN at' = Goroutines,
         \A h \in Goroutines : h # g => at'[h] = at[h]
  PROVE  TableInv'
<1>1. UNCHANGED <<operations, events, document, once, filled, specErr, wanted, found>>
  BY DEF tableVars
<1>2. \A t : (Built(t)' <=> Built(t)) /\ \A key : Lookup(t, key)' = Lookup(t, key)
  BY <1>1, SameLookup
<1>3. \A h \in Goroutines : /\ at'[h] \in Places => at[h] = at'[h]
                            /\ at'[h] # "idle" => at[h] # "idle"
  BY DEF Places, Later, Answering
<1>4. TableTypes'
  BY <1>1, <1>3 DEF TableInv, TableTypes
<1>5. "build" \in Places /\ "read" \in Places
  BY DEF Places
<1>6. ASSUME NEW h \in Goroutines PROVE Stands(h)'
  <2>1. Stands(h)
    BY DEF TableInv
  <2>2. CASE h = g
    <3>1. at'[h] \notin Places
      BY <2>2 DEF Places, Later, Answering
    <3>2. Lookup(wanted[h].table, wanted[h].key)' = Lookup(wanted[h].table, wanted[h].key)
      BY <1>1, <1>2
    <3> QED
      BY <1>1, <1>5, <2>1, <3>1, <3>2 DEF Stands
  <2>3. CASE h # g
    BY <1>1, <1>2, <2>1, <2>3, StandsFrame
  <2> QED
    BY <2>2, <2>3
<1>7. \A h, i \in Goroutines :
        at'[h] = "build" /\ at'[i] = "build" /\ wanted'[h].table = wanted'[i].table => h = i
  BY <1>1, <1>3, <1>5 DEF TableInv
<1>8. \A t \in Tables : once'[t] = "done" => Built(t)'
  BY <1>1, <1>2 DEF TableInv
<1> QED
  BY <1>4, <1>6, <1>7, <1>8 DEF TableInv

LEMMA TableCall ==
  ASSUME TableInv, NEW g \in Goroutines, NEW t \in Tables, NEW key,
         t = "events" => key \in EventKeys, Call(g, t, key)
  PROVE  TableInv'
<1>0. TableTypes
  BY DEF TableInv
<1>1. UNCHANGED <<operations, events, document, once, filled, specErr, found>>
  BY DEF Call, tableVars
<1>2. /\ at[g] = "idle" /\ at'[g] = "once" /\ DOMAIN at' = Goroutines
      /\ \A h \in Goroutines : h # g => at'[h] = at[h]
  BY <1>0, Moved DEF Call, TableTypes
<1>3. /\ DOMAIN wanted' = Goroutines
      /\ wanted'[g].table = t /\ wanted'[g].key = key
      /\ \A h \in Goroutines : h # g => wanted'[h] = wanted[h]
  BY <1>0 DEF Call, TableTypes
<1>4. \A u : (Built(u)' <=> Built(u)) /\ \A k : Lookup(u, k)' = Lookup(u, k)
  BY <1>1, SameLookup
<1>5. found[g] = <<"nothing", {}>> /\ found[g][1] = "nothing"
  BY <1>2 DEF TableInv, Stands, Places
<1>6. TableTypes'
  BY <1>0, <1>1, <1>2, <1>3 DEF TableTypes
<1>7. ASSUME NEW h \in Goroutines
      PROVE  Stands(h)'
  <2>1. CASE h = g
    BY <1>1, <1>2, <1>5, <2>1 DEF Stands
  <2>2. CASE h # g
    BY <1>1, <1>2, <1>3, <1>4, <2>2, StandsFrame DEF TableInv
  <2> QED
    BY <2>1, <2>2
<1>8. \A h, i \in Goroutines :
        at'[h] = "build" /\ at'[i] = "build" /\ wanted'[h].table = wanted'[i].table => h = i
  BY <1>2, <1>3 DEF TableInv
<1>9. \A u \in Tables : once'[u] = "done" => Built(u)'
  BY <1>1, <1>4 DEF TableInv
<1> QED
  BY <1>6, <1>7, <1>8, <1>9 DEF TableInv

LEMMA TableEnterOnce ==
  ASSUME TableInv, NEW g \in Goroutines, EnterOnce(g)
  PROVE  TableInv'
<1> DEFINE t == wanted[g].table
<1>0. TableTypes /\ at[g] = "once"
  BY DEF TableInv, EnterOnce
<1>1. UNCHANGED <<operations, events, document, filled, specErr, wanted, found>>
  BY DEF EnterOnce
<1>2. t \in Tables
  BY <1>0 DEF TableTypes
<1>3. \A u : (Built(u)' <=> Built(u)) /\ \A k : Lookup(u, k)' = Lookup(u, k)
  BY <1>1, SameLookup
<1>4. \A h \in Goroutines : at[h] = "build" => once[wanted[h].table] = "running"
  BY DEF TableInv, Stands
<1>5. found[g] = <<"nothing", {}>> /\ found[g][1] = "nothing"
  BY <1>0 DEF TableInv, Stands, Places
<1>6. CASE once[t] = "new" /\ Goto(g, "once", "build") /\ once' = [once EXCEPT ![t] = "running"]
  <2>1. /\ at'[g] = "build" /\ DOMAIN at' = Goroutines
        /\ \A h \in Goroutines : h # g => at'[h] = at[h]
    BY <1>0, <1>6, Moved DEF TableTypes
  <2>2. /\ once'[t] = "running" /\ once' \in [Tables -> {"new", "running", "done"}]
        /\ \A u \in Tables : u # t => once'[u] = once[u]
        /\ \A u \in Tables : once[u] # "new" => once'[u] = once[u]
        /\ \A u \in Tables : once'[u] = "done" => once[u] = "done"
    BY <1>0, <1>2, <1>6 DEF TableTypes
  <2>3. \A h \in Goroutines : at[h] = "build" => wanted[h].table # t
    BY <1>4, <1>6
  <2>4. TableTypes'
    BY <1>0, <1>1, <1>2, <2>1, <2>2 DEF TableTypes
  <2>5. ASSUME NEW h \in Goroutines
        PROVE  Stands(h)'
    <3>1. CASE h = g
      BY <1>1, <1>5, <2>1, <2>2, <3>1 DEF Stands
    <3>2. CASE h # g
      <4>1. at'[h] = at[h] /\ wanted'[h] = wanted[h] /\ found'[h] = found[h] /\ Stands(h)
        BY <1>1, <2>1, <3>2 DEF TableInv
      <4>2. at[h] # "idle" => wanted[h].table \in Tables
        BY <1>0 DEF TableTypes
      <4>3. at[h] = "build" => once'[wanted[h].table] = once[wanted[h].table]
        BY <2>2, <2>3, <4>2
      <4>4. at[h] # "idle" /\ once[wanted[h].table] = "done" => once'[wanted[h].table] = "done"
        BY <2>2, <4>2
      <4> QED
        BY <1>3, <4>1, <4>3, <4>4, StandsFrame
    <3> QED
      BY <3>1, <3>2
  <2>6. \A h, i \in Goroutines :
          at'[h] = "build" /\ at'[i] = "build" /\ wanted'[h].table = wanted'[i].table => h = i
    BY <1>1, <2>1, <2>3 DEF TableInv
  <2>7. \A u \in Tables : once'[u] = "done" => Built(u)'
    BY <1>3, <2>2 DEF TableInv
  <2> QED
    BY <2>4, <2>5, <2>6, <2>7 DEF TableInv
<1>7. CASE once[t] = "done" /\ Goto(g, "once", "read") /\ UNCHANGED once
  <2>1. /\ at'[g] = "read" /\ DOMAIN at' = Goroutines
        /\ \A h \in Goroutines : h # g => at'[h] = at[h]
    BY <1>0, <1>7, Moved DEF TableTypes
  <2>2. TableTypes'
    BY <1>0, <1>1, <1>2, <1>7, <2>1 DEF TableTypes
  <2>3. ASSUME NEW h \in Goroutines PROVE Stands(h)'
    <3>1. CASE h = g
      BY <1>1, <1>5, <1>7, <2>1, <3>1 DEF Stands
    <3>2. CASE h # g
      BY <1>1, <1>3, <1>7, <2>1, <3>2, StandsFrame DEF TableInv
    <3> QED
      BY <3>1, <3>2
  <2>4. \A h, i \in Goroutines :
          at'[h] = "build" /\ at'[i] = "build" /\ wanted'[h].table = wanted'[i].table => h = i
    BY <1>1, <2>1 DEF TableInv
  <2>5. \A u \in Tables : once'[u] = "done" => Built(u)'
    BY <1>3, <1>7 DEF TableInv
  <2> QED
    BY <2>2, <2>3, <2>4, <2>5 DEF TableInv
<1> QED
  BY <1>6, <1>7 DEF EnterOnce

\* The builder, and nobody else, changes the table, which nobody reads yet.
LEMMA TableBuild ==
  ASSUME TableInv, NEW g \in Goroutines, BuildEntry(g)
  PROVE  TableInv'
<1> DEFINE t == wanted[g].table
<1>0. TableTypes /\ at[g] = "build" /\ once[t] = "running"
  BY DEF TableInv, Stands, BuildEntry
<1>1. UNCHANGED <<operations, events, document, once, at, wanted, found>>
  BY DEF BuildEntry
<1>2. t \in Tables
  BY <1>0 DEF TableTypes
<1>3. /\ DOMAIN filled' = Tables
      /\ \A u \in Tables : u # t => filled'[u] = filled[u]
      /\ specErr' = specErr \/ t = "document"
  BY <1>0, <1>2 DEF BuildEntry, TableTypes
<1>4. ASSUME NEW u \in Tables, once[u] = "done"
      PROVE  (Built(u)' <=> Built(u)) /\ \A k : Lookup(u, k)' = Lookup(u, k)
  <2>1. u # t
    BY <1>0, <1>4
  <2>2. filled'[u] = filled[u] /\ (specErr' = specErr \/ u # "document")
    BY <1>3, <2>1
  <2>3. Entries(u)' = Entries(u)
    BY <1>1, SameTables
  <2>4. Built(u)' <=> Built(u)
    BY <2>2, <2>3 DEF Built
  <2>5. ASSUME NEW k PROVE Lookup(u, k)' = Lookup(u, k)
    <3>1. SubSeq(Entries(u), 1, filled[u])' = SubSeq(Entries(u), 1, filled[u])
      BY <2>2, <2>3
    <3>2. (u = "document" /\ specErr)' <=> (u = "document" /\ specErr)
      BY <2>2
    <3> QED
      BY <3>1, <3>2 DEF Lookup
  <2> QED
    BY <2>4, <2>5
<1>5. TableTypes'
  BY <1>0, <1>1, <1>3 DEF TableTypes
<1>7. \A u \in Tables : once'[u] = "done" => Built(u)'
  BY <1>1, <1>4 DEF TableInv
<1>8. ASSUME NEW h \in Goroutines PROVE Stands(h)'
  <2>1. at[h] # "idle" => wanted[h].table \in Tables
    BY <1>0 DEF TableTypes
  <2> QED
    BY <1>1, <1>4, <2>1, StandsFrame DEF TableInv
<1>9. \A h, i \in Goroutines :
        at'[h] = "build" /\ at'[i] = "build" /\ wanted'[h].table = wanted'[i].table => h = i
  BY <1>1 DEF TableInv
<1> QED
  BY <1>5, <1>7, <1>8, <1>9 DEF TableInv

LEMMA TableLeaveOnce ==
  ASSUME TableInv, NEW g \in Goroutines, LeaveOnce(g)
  PROVE  TableInv'
<1> DEFINE t == wanted[g].table
<1>0. TableTypes /\ at[g] = "build" /\ once[t] = "running"
  BY DEF TableInv, Stands, LeaveOnce
<1>1. UNCHANGED <<operations, events, document, filled, specErr, wanted, found>>
  BY DEF LeaveOnce
<1>2. t \in Tables
  BY <1>0 DEF TableTypes
<1>3. \A u : (Built(u)' <=> Built(u)) /\ \A k : Lookup(u, k)' = Lookup(u, k)
  BY <1>1, SameLookup
<1>4. /\ at'[g] = "read" /\ DOMAIN at' = Goroutines
      /\ \A h \in Goroutines : h # g => at'[h] = at[h]
  BY <1>0, Moved DEF LeaveOnce, TableTypes
<1>5. /\ once' = [once EXCEPT ![t] = "done"] /\ Built(t)
  BY DEF LeaveOnce, Built
<1>6. /\ once'[t] = "done" /\ once' \in [Tables -> {"new", "running", "done"}]
      /\ \A u \in Tables : u # t => once'[u] = once[u]
      /\ \A u \in Tables : once[u] = "done" => once'[u] = "done"
  BY <1>0, <1>2, <1>5 DEF TableTypes
<1>7. TableTypes'
  BY <1>0, <1>1, <1>2, <1>4, <1>6 DEF TableTypes
<1>8. found[g] = <<"nothing", {}>> /\ found[g][1] = "nothing"
  BY <1>0 DEF TableInv, Stands, Places
<1>9. ASSUME NEW h \in Goroutines
      PROVE  Stands(h)'
  <2>1. CASE h = g
    BY <1>1, <1>4, <1>6, <1>8, <2>1 DEF Stands
  <2>2. CASE h # g
    <3>1. at'[h] = at[h] /\ wanted'[h] = wanted[h] /\ found'[h] = found[h] /\ Stands(h)
      BY <1>1, <1>4, <2>2 DEF TableInv
    <3>2. at[h] # "idle" => wanted[h].table \in Tables
      BY <1>0 DEF TableTypes
    <3>3. at[h] = "build" => wanted[h].table # t
      BY <1>0, <2>2 DEF TableInv
    <3>4. at[h] = "build" => once'[wanted[h].table] = once[wanted[h].table]
      BY <1>6, <3>2, <3>3
    <3>5. at[h] # "idle" /\ once[wanted[h].table] = "done" => once'[wanted[h].table] = "done"
      BY <1>6, <3>2
    <3> QED
      BY <1>3, <3>1, <3>4, <3>5, StandsFrame
  <2> QED
    BY <2>1, <2>2
<1>10. \A h, i \in Goroutines :
         at'[h] = "build" /\ at'[i] = "build" /\ wanted'[h].table = wanted'[i].table => h = i
  BY <1>1, <1>4 DEF TableInv
<1>11. \A u \in Tables : once'[u] = "done" => Built(u)'
  BY <1>3, <1>5, <1>6 DEF TableInv
<1> QED
  BY <1>7, <1>9, <1>10, <1>11 DEF TableInv

LEMMA TableRead ==
  ASSUME TableInv, NEW g \in Goroutines, ReadTable(g)
  PROVE  TableInv'
<1> DEFINE t == wanted[g].table
<1>0. TableTypes /\ at[g] = "read" /\ once[t] = "done"
  BY DEF TableInv, Stands, ReadTable, Goto
<1>1. UNCHANGED <<operations, events, document, once, filled, specErr, wanted>>
  BY DEF ReadTable, tableVars
<1>2. \A u : (Built(u)' <=> Built(u)) /\ \A k : Lookup(u, k)' = Lookup(u, k)
  BY <1>1, SameLookup
<1>3. /\ at'[g] \in {"failed", "done"} /\ DOMAIN at' = Goroutines
      /\ \A h \in Goroutines : h # g => at'[h] = at[h]
  BY <1>0, Moved DEF ReadTable, TableTypes
<1>4. /\ DOMAIN found' = Goroutines
      /\ found'[g] = Lookup(t, wanted[g].key)
      /\ \A h \in Goroutines : h # g => found'[h] = found[h]
  BY <1>0 DEF ReadTable, TableTypes
<1>5. TableTypes'
  BY <1>0, <1>1, <1>3, <1>4 DEF TableTypes
<1>6. ASSUME NEW h \in Goroutines
      PROVE  Stands(h)'
  <2>1. CASE h = g
    <3>1. at'[h] \notin Places /\ at'[h] # "build" /\ at'[h] # "read"
      BY <1>3, <2>1 DEF Places
    <3>2. Lookup(wanted[h].table, wanted[h].key)' = Lookup(wanted[h].table, wanted[h].key)
      BY <1>1, <1>2
    <3> QED
      BY <1>0, <1>1, <1>4, <2>1, <3>1, <3>2 DEF Stands
  <2>2. CASE h # g
    BY <1>1, <1>2, <1>3, <1>4, <2>2, StandsFrame DEF TableInv
  <2> QED
    BY <2>1, <2>2
<1>7. \A h, i \in Goroutines :
        at'[h] = "build" /\ at'[i] = "build" /\ wanted'[h].table = wanted'[i].table => h = i
  BY <1>1, <1>3 DEF TableInv
<1>8. \A u \in Tables : once'[u] = "done" => Built(u)'
  BY <1>1, <1>2 DEF TableInv
<1> QED
  BY <1>5, <1>6, <1>7, <1>8 DEF TableInv

LEMMA TableStep ==
  ASSUME TableInv, NEW g \in Goroutines, Ask(g) \/ GoroutineStep(g)
  PROVE  TableInv'
<1>0. DOMAIN at = Goroutines
  BY DEF TableInv, TableTypes
<1>1. CASE Ask(g)
  BY <1>1, TableCall DEF Ask, Tables
<1>2. ASSUME NEW from \in Later, NEW to \in Later, Goto(g, from, to),
             UNCHANGED <<tableVars, wanted, found>>
      PROVE  TableInv'
  BY <1>0, <1>2, Moved, TableFrame
<1>3. /\ {"failed", "done", "fault", "Kind", "encode"} \subseteq Later
      /\ \A field \in Fields : {field, Storing[field], After[field]} \subseteq Later
  BY DEF Later, Answering, Fields, Storing, After
<1>4. CASE AnswerOwn(g) \/ ChooseStatus(g) \/ Encode(g)
  BY <1>2, <1>3, <1>4 DEF AnswerOwn, ChooseStatus, Encode
<1>5. ASSUME NEW field \in Fields, FillField(g, field) PROVE TableInv'
  <2>1. UNCHANGED <<tableVars, wanted, found>>
    BY <1>5 DEF FillField
  <2>2. \E from \in Later, to \in Later : Goto(g, from, to)
    BY <1>3, <1>5 DEF FillField
  <2> QED
    BY <1>2, <2>1, <2>2
<1> QED
  BY <1>1, <1>4, <1>5, TableEnterOnce, TableBuild, TableLeaveOnce, TableRead
  DEF GoroutineStep, Fields

-----------------------------------------------------------------------------
(* What the generator makes of an entry.                                   *)

LEMMA RankIs ==
  /\ \A a \in DOMAIN Rank : Rank[a] \in Nat
  /\ \A a, b \in DOMAIN Rank : Rank[a] = Rank[b] => a = b
  BY GeneratorAssumption DEF IsInjective

\* Every capability the command knows is one the registry knows.
LEMMA CapabilityKnown ==
  ASSUME NEW path, NEW tag, capabilityFor(path, tag) # ""
  PROVE  capabilityFor(path, tag) \in Capabilities
<1>1. TagCapability(tag) \in Capabilities \cup {""}
  BY DEF TagCapability, Capabilities
<1>2. PrefixCapability(PrefixOf[path]) \in Capabilities \cup {""}
  BY DEF PrefixCapability, Capabilities
<1> QED
  BY <1>1, <1>2 DEF capabilityFor

\* Sorted and without repetition, whatever order the map gave.
LEMMA StringsSorted ==
  ASSUME NEW S, IsFiniteSet(S), S \subseteq DOMAIN Rank, NEW strings \in SetToSeqs(S)
  PROVE  Ascending(SortStrings(strings)) /\ Range(SortStrings(strings)) = S
<1> DEFINE n == Len(strings)
           before == {w \in (1..n) \X (1..n) : Rank[strings[w[1]]] < Rank[strings[w[2]]]}
           Good(p) == \A i, j \in DOMAIN strings :
                        i < j => ~(Rank[strings[p[j]]] < Rank[strings[p[i]]])
           orders == {p \in Bijection(DOMAIN strings, DOMAIN strings) : Good(p)}
           order == CHOOSE p \in orders : TRUE
<1>1. /\ strings \in Seq(S) /\ n \in Nat /\ DOMAIN strings = 1..n
      /\ \A i, j \in 1..n : i # j => strings[i] # strings[j]
  <2>1. Cardinality(S) \in Nat
    BY FS_CardinalityType
  <2>2. /\ strings \in [1..Cardinality(S) -> S]
        /\ \A i, j \in 1..Cardinality(S) : i # j => strings[i] # strings[j]
    BY DEF SetToSeqs
  <2> QED
    BY <2>1, <2>2
<1>2. \A i \in 1..n : strings[i] \in DOMAIN Rank /\ Rank[strings[i]] \in Nat
  BY <1>1, RankIs
<1> HIDE DEF n
<1>3. \A a, b \in 1..n : <<a, b>> \in before <=> Rank[strings[a]] < Rank[strings[b]]
  OBVIOUS
<1> HIDE DEF before
<1>4. \E p \in Bijection(1..n, 1..n) : \A i, j \in 1..n : i < j => <<p[j], p[i]>> \notin before
  <2>1. \A a, b, c \in 1..n :
          <<b, a>> \notin before /\ <<c, b>> \notin before => <<c, a>> \notin before
    BY <1>2, <1>3
  <2>2. \A a, b \in 1..n : <<a, b>> \in before => <<b, a>> \notin before
    BY <1>2, <1>3
  <2> QED
    BY <1>1, <2>1, <2>2, SortingBijection
<1>5. \E p : p \in orders
  <2>1. PICK p \in Bijection(1..n, 1..n) : \A i, j \in 1..n : i < j => <<p[j], p[i]>> \notin before
    BY <1>4
  <2>2. p \in [1..n -> 1..n]
    BY DEF Bijection, Injection
  <2>3. Good(p)
    BY <1>1, <1>3, <2>1, <2>2
  <2> QED
    BY <1>1, <2>3
<1>6. order \in Bijection(DOMAIN strings, DOMAIN strings) /\ Good(order)
  <2>1. order \in orders
    <3> HIDE DEF orders
    <3> QED
      BY <1>5
  <2> HIDE DEF Good, order
  <2> QED
    BY <2>1
<1>7. SortStrings(strings) = [i \in DOMAIN strings |-> strings[order[i]]]
  BY DEF SortStrings, Sort, Sortings
<1> HIDE DEF order
<1> DEFINE sorted == SortStrings(strings)
<1>8. /\ DOMAIN sorted = 1..n
      /\ \A i \in 1..n : order[i] \in 1..n /\ sorted[i] = strings[order[i]]
      /\ \A i, j \in 1..n : order[i] = order[j] => i = j
      /\ \A i \in 1..n : \E j \in 1..n : strings[i] = sorted[j]
  <2>1. sorted = [i \in DOMAIN strings |-> strings[order[i]]]
    BY <1>7
  <2> HIDE DEF sorted
  <2>2. /\ DOMAIN sorted = DOMAIN strings
        /\ \A i \in DOMAIN strings : order[i] \in DOMAIN strings /\ sorted[i] = strings[order[i]]
        /\ \A i, j \in DOMAIN strings : order[i] = order[j] => i = j
        /\ \A i \in DOMAIN strings : \E j \in DOMAIN strings : strings[i] = sorted[j]
    <3>2. Rearranges(sorted, strings, order)
      BY <2>1 DEF Rearranges
    <3>3. order \in Bijection(DOMAIN strings, DOMAIN strings) /\ strings \in Seq(S)
      BY <1>1, <1>6
    <3> QED
      BY <3>2, <3>3, Rearranged
  <2> QED
    BY <1>1, <2>2
<1> HIDE DEF sorted
<1>11. \A i \in 1..n : order[i] \in 1..n /\ sorted[i] = strings[order[i]]
  BY <1>8
<1>12. \A i, j \in 1..n : order[i] = order[j] => i = j
  BY <1>8
<1>9. ASSUME NEW i \in 1..n, NEW j \in 1..n, i < j PROVE Rank[sorted[i]] < Rank[sorted[j]]
  <2>1. order[i] # order[j] /\ order[i] \in 1..n /\ order[j] \in 1..n
    BY <1>1, <1>11, <1>12, <1>9
  <2>2. strings[order[i]] # strings[order[j]]
    BY <1>1, <2>1
  <2>3. Rank[strings[order[i]]] # Rank[strings[order[j]]]
    BY <1>2, <2>1, <2>2, RankIs
  <2>4. ~(Rank[strings[order[j]]] < Rank[strings[order[i]]])
    BY <1>1, <1>6, <1>9
  <2> QED
    BY <1>2, <1>11, <2>1, <2>3, <2>4
<1>10. Range(sorted) = S
  <2>1. \A x : x \in S <=> \E i \in 1..n : strings[i] = x
    BY <1>1, SetToSeqsContains DEF Contains, n
  <2> QED
    BY <1>8, <2>1 DEF Range
<1> QED
  BY <1>8, <1>9, <1>10 DEF Ascending, sorted

-----------------------------------------------------------------------------
(* The events.                                                             *)

AnEvent == [Surface : DOMAIN Rank, Direction : DOMAIN Rank, Type : DOMAIN Rank]

InOrder(list) == \A i, j \in DOMAIN list : i < j => EventBefore(list[i], list[j])

\* Not coming before in the order of three ranks, what EventBefore compares,
\* is transitive.
LEMMA ThreeRanks ==
  ASSUME NEW a1 \in Nat, NEW a2 \in Nat, NEW a3 \in Nat,
         NEW b1 \in Nat, NEW b2 \in Nat, NEW b3 \in Nat,
         NEW c1 \in Nat, NEW c2 \in Nat, NEW c3 \in Nat,
         ~(b1 < a1 \/ (b1 = a1 /\ b2 < a2) \/ (b1 = a1 /\ b2 = a2 /\ b3 < a3)),
         ~(c1 < b1 \/ (c1 = b1 /\ c2 < b2) \/ (c1 = b1 /\ c2 = b2 /\ c3 < b3))
  PROVE  ~(c1 < a1 \/ (c1 = a1 /\ c2 < a2) \/ (c1 = a1 /\ c2 = a2 /\ c3 < a3))
OBVIOUS

\* Sorting keeps what there is, and leaves one order when nothing is repeated.
LEMMA EventsSorted ==
  ASSUME NEW seq \in Seq(AnEvent)
  PROVE  /\ Sort(seq, EventBefore) \in Seq(AnEvent)
         /\ \A x : Contains(Sort(seq, EventBefore), x) <=> Contains(seq, x)
         /\ IsInjective(Sort(seq, EventBefore)) <=> IsInjective(seq)
         /\ IsInjective(seq) => InOrder(Sort(seq, EventBefore))
<1> DEFINE n == Len(seq)
           before == {w \in (1..n) \X (1..n) : EventBefore(seq[w[1]], seq[w[2]])}
           Good(p) == \A i, j \in DOMAIN seq : i < j => ~EventBefore(seq[p[j]], seq[p[i]])
           orders == {p \in Bijection(DOMAIN seq, DOMAIN seq) : Good(p)}
           order == CHOOSE p \in orders : TRUE
           sorted == Sort(seq, EventBefore)
           Comes(a, b) ==
             \/ Rank[seq[a].Surface] < Rank[seq[b].Surface]
             \/ /\ Rank[seq[a].Surface] = Rank[seq[b].Surface]
                /\ Rank[seq[a].Direction] < Rank[seq[b].Direction]
             \/ /\ Rank[seq[a].Surface] = Rank[seq[b].Surface]
                /\ Rank[seq[a].Direction] = Rank[seq[b].Direction]
                /\ Rank[seq[a].Type] < Rank[seq[b].Type]
<1>1. n \in Nat /\ DOMAIN seq = 1..n /\ \A i \in 1..n : seq[i] \in AnEvent
  OBVIOUS
<1> HIDE DEF n
<1>2. \A i \in 1..n : /\ seq[i].Surface \in DOMAIN Rank /\ Rank[seq[i].Surface] \in Nat
                      /\ seq[i].Direction \in DOMAIN Rank /\ Rank[seq[i].Direction] \in Nat
                      /\ seq[i].Type \in DOMAIN Rank /\ Rank[seq[i].Type] \in Nat
  BY <1>1, RankIs DEF AnEvent
<1>3. \A a, b \in 1..n :
        EventBefore(seq[a], seq[b]) <=> Comes(a, b)
  BY <1>2, RankIs DEF EventBefore
<1>4. \A a, b \in 1..n : <<a, b>> \in before <=> EventBefore(seq[a], seq[b])
  OBVIOUS
<1> HIDE DEF before
<1>5. \E p \in Bijection(1..n, 1..n) : \A i, j \in 1..n : i < j => <<p[j], p[i]>> \notin before
  <2>1. ASSUME NEW a \in 1..n, NEW b \in 1..n, NEW c \in 1..n,
               <<b, a>> \notin before, <<c, b>> \notin before
        PROVE  <<c, a>> \notin before
    <3>1. Comes(b, a) = FALSE /\ Comes(c, b) = FALSE
      BY <1>3, <1>4, <2>1
    <3>2. Comes(c, a) = FALSE
      <4> DEFINE S(i) == Rank[seq[i].Surface]
                 D(i) == Rank[seq[i].Direction]
                 T(i) == Rank[seq[i].Type]
      <4>1. \A i \in {a, b, c} : S(i) \in Nat /\ D(i) \in Nat /\ T(i) \in Nat
        BY <1>2
      <4>2. /\ ~(\/ S(b) < S(a) \/ (S(b) = S(a) /\ D(b) < D(a))
                 \/ (S(b) = S(a) /\ D(b) = D(a) /\ T(b) < T(a)))
            /\ ~(\/ S(c) < S(b) \/ (S(c) = S(b) /\ D(c) < D(b))
                 \/ (S(c) = S(b) /\ D(c) = D(b) /\ T(c) < T(b)))
        BY <3>1
      <4>3. SUFFICES ~(\/ S(c) < S(a) \/ (S(c) = S(a) /\ D(c) < D(a))
                       \/ (S(c) = S(a) /\ D(c) = D(a) /\ T(c) < T(a)))
        OBVIOUS
      <4> HIDE DEF S, D, T
      <4> QED
        BY <4>1, <4>2, ThreeRanks
    <3> HIDE DEF Comes
    <3> QED
      BY <1>3, <1>4, <3>2
  <2>2. ASSUME NEW a \in 1..n, NEW b \in 1..n, <<a, b>> \in before
        PROVE  <<b, a>> \notin before
    <3>1. Comes(a, b)
      BY <1>3, <1>4, <2>2
    <3>2. ~Comes(b, a)
      BY <1>2, <3>1
    <3> HIDE DEF Comes
    <3> QED
      BY <1>3, <1>4, <3>2
  <2> QED
    BY <1>1, <2>1, <2>2, SortingBijection
<1>6. \E p : p \in orders
  <2>1. PICK p \in Bijection(1..n, 1..n) : \A i, j \in 1..n : i < j => <<p[j], p[i]>> \notin before
    BY <1>5
  <2>2. p \in [1..n -> 1..n]
    BY DEF Bijection, Injection
  <2>3. Good(p)
    BY <1>1, <1>4, <2>1, <2>2
  <2> QED
    BY <1>1, <2>3
<1>7. order \in Bijection(DOMAIN seq, DOMAIN seq) /\ Good(order)
  <2>1. order \in orders
    <3> HIDE DEF orders
    <3> QED
      BY <1>6
  <2> HIDE DEF Good, order
  <2> QED
    BY <2>1
<1>8. Rearranges(sorted, seq, order)
  BY DEF Sort, Sortings, Rearranges
<1> HIDE DEF order, sorted
<1>9. /\ sorted \in Seq(AnEvent) /\ Len(sorted) = Len(seq)
      /\ \A i \in DOMAIN seq : order[i] \in DOMAIN seq /\ sorted[i] = seq[order[i]]
      /\ \A i \in DOMAIN seq : \E j \in DOMAIN seq : seq[i] = sorted[j]
      /\ \A i, j \in DOMAIN seq : order[i] = order[j] => i = j
  BY <1>7, <1>8, Rearranged
<1>10. \A x : Contains(sorted, x) <=> Contains(seq, x)
  <2>1. DOMAIN seq = 1..Len(seq) /\ 1..Len(sorted) = 1..Len(seq)
    BY <1>9
  <2>2. ASSUME NEW x, Contains(sorted, x) PROVE Contains(seq, x)
    <3>1. PICK i \in 1..Len(seq) : sorted[i] = x
      BY <2>1, <2>2 DEF Contains
    <3> QED
      BY <1>9, <2>1, <3>1 DEF Contains
  <2>3. ASSUME NEW x, Contains(seq, x) PROVE Contains(sorted, x)
    <3>1. PICK i \in 1..Len(seq) : seq[i] = x
      BY <2>3 DEF Contains
    <3> QED
      BY <1>9, <2>1, <3>1 DEF Contains
  <2> QED
    BY <2>2, <2>3
<1>11. /\ DOMAIN sorted = 1..n /\ n = Len(seq)
       /\ \A i \in 1..n : order[i] \in 1..n /\ sorted[i] = seq[order[i]]
       /\ \A i, j \in 1..n : order[i] = order[j] => i = j
       /\ \A v \in 1..n : \E i \in 1..n : order[i] = v
  <2>1. \A v \in 1..n : \E i \in 1..n : order[i] = v
    BY <1>1, <1>7 DEF Bijection, Surjection
  <2>2. DOMAIN sorted = 1..n /\ n = Len(seq)
    BY <1>1, <1>9 DEF n
  <2> QED
    BY <1>1, <1>9, <2>1, <2>2
<1>12. IsInjective(sorted) <=> IsInjective(seq)
  <2>0. /\ DOMAIN sorted = 1..n /\ \A i \in 1..n : order[i] \in 1..n /\ sorted[i] = seq[order[i]]
        /\ \A i, j \in 1..n : order[i] = order[j] => i = j
    BY <1>11
  <2>1. ASSUME IsInjective(seq) PROVE IsInjective(sorted)
    <3>1. \A v, w \in 1..n : seq[v] = seq[w] => v = w
      BY <1>1, <2>1 DEF IsInjective
    <3>2. \A i, j \in 1..n : sorted[i] = sorted[j] => i = j
      BY <2>0, <3>1
    <3> QED
      BY <2>0, <3>2 DEF IsInjective
  <2>2. ASSUME IsInjective(sorted), NEW v \in 1..n, NEW w \in 1..n, seq[v] = seq[w] PROVE v = w
    <3>1. PICK i \in 1..n, j \in 1..n : order[i] = v /\ order[j] = w
      BY <1>11
    <3>2. sorted[i] = sorted[j]
      BY <1>11, <2>2, <3>1
    <3>3. i = j
      BY <2>0, <2>2, <3>2 DEF IsInjective
    <3> QED
      BY <3>1, <3>3
  <2> QED
    BY <1>1, <2>1, <2>2 DEF IsInjective
<1>13. ASSUME IsInjective(seq), NEW i \in 1..n, NEW j \in 1..n, i < j
       PROVE  EventBefore(sorted[i], sorted[j])
  <2>0. order[i] \in 1..n /\ order[j] \in 1..n /\ order[i] # order[j]
    <3>1. i # j
      BY <1>1, <1>13
    <3> QED
      BY <1>11, <3>1
  <2>1. PICK a \in 1..n, b \in 1..n : a = order[i] /\ b = order[j] /\ a # b
    BY <2>0
  <2>2. seq[a] # seq[b] /\ seq[a] \in AnEvent /\ seq[b] \in AnEvent
    BY <1>1, <1>13, <2>1 DEF IsInjective
  <2>3. \/ seq[a].Surface # seq[b].Surface \/ seq[a].Direction # seq[b].Direction
        \/ seq[a].Type # seq[b].Type
    BY <2>2 DEF AnEvent
  <2>4. \/ Rank[seq[a].Surface] # Rank[seq[b].Surface]
        \/ Rank[seq[a].Direction] # Rank[seq[b].Direction]
        \/ Rank[seq[a].Type] # Rank[seq[b].Type]
    BY <1>2, <2>3, RankIs
  <2>5. ~Comes(b, a)
    <3>1. ~EventBefore(seq[b], seq[a])
      BY <1>1, <1>7, <1>13, <2>1
    <3> HIDE DEF Comes
    <3> QED
      BY <1>3, <3>1
  <2>6. Comes(a, b)
    <3> DEFINE S(k) == Rank[seq[k].Surface]
               D(k) == Rank[seq[k].Direction]
               T(k) == Rank[seq[k].Type]
    <3>1. \A k \in {a, b} : S(k) \in Nat /\ D(k) \in Nat /\ T(k) \in Nat
      BY <1>2
    <3>2. S(a) # S(b) \/ D(a) # D(b) \/ T(a) # T(b)
      BY <2>4
    <3>3. ~(\/ S(b) < S(a) \/ (S(b) = S(a) /\ D(b) < D(a))
            \/ (S(b) = S(a) /\ D(b) = D(a) /\ T(b) < T(a)))
      BY <2>5
    <3>4. SUFFICES \/ S(a) < S(b) \/ (S(a) = S(b) /\ D(a) < D(b))
                   \/ (S(a) = S(b) /\ D(a) = D(b) /\ T(a) < T(b))
      OBVIOUS
    <3> HIDE DEF S, D, T
    <3> QED
      BY <3>1, <3>2, <3>3
  <2>7. EventBefore(seq[a], seq[b])
    <3> HIDE DEF Comes
    <3> QED
      BY <1>3, <2>6
  <2> QED
    BY <1>11, <2>1, <2>7
<1>14. IsInjective(seq) => InOrder(sorted)
  BY <1>11, <1>13 DEF InOrder
<1> QED
  BY <1>9, <1>10, <1>12, <1>14 DEF sorted

\* What the assumption says of an inventory; the empty one is what there is
\* without -events.
InventoryLists(inv) ==
  /\ IsFiniteSet(DOMAIN inv) /\ DOMAIN inv \subseteq DOMAIN Rank
  /\ \A surface \in DOMAIN inv : /\ inv[surface].client \in Seq(DOMAIN Rank)
                                 /\ inv[surface].server \in Seq(DOMAIN Rank)

LEMMA InventoriesList ==
  ASSUME NEW inv \in Inventories \cup {<<>>}
  PROVE  InventoryLists(inv)
<1>1. CASE inv \in Inventories
  BY <1>1, GeneratorAssumption DEF InventoryLists
<1>2. CASE inv = <<>>
  <2>1. DOMAIN inv = {}
    BY <1>2
  <2> QED
    BY <2>1, FS_EmptySet DEF InventoryLists
<1> QED
  BY <1>1, <1>2

\* One list of one surface.
LEMMA ListedEvents ==
  ASSUME NEW surface \in DOMAIN Rank, NEW direction \in {"client", "server"},
         NEW list \in Seq(DOMAIN Rank)
  PROVE  LET made == [i \in DOMAIN list |-> Event(surface, direction, list[i])]
         IN  /\ made \in Seq(AnEvent)
             /\ \A s, d, t : Contains(made, Event(s, d, t)) <=>
                             s = surface /\ d = direction /\ Contains(list, t)
             /\ \A x : Contains(made, x) => x.Surface = surface
<1> DEFINE made == [i \in DOMAIN list |-> Event(surface, direction, list[i])]
<1>1. Len(list) \in Nat /\ DOMAIN list = 1..Len(list) /\ \A i \in 1..Len(list) : list[i] \in DOMAIN Rank
  OBVIOUS
<1>2. direction \in DOMAIN Rank
  BY GeneratorAssumption
<1>3. \A i \in 1..Len(list) : made[i] = Event(surface, direction, list[i]) /\ made[i] \in AnEvent
  BY <1>1, <1>2 DEF Event, AnEvent
<1>4. made \in [1..Len(list) -> AnEvent]
  BY <1>1, <1>3
<1> HIDE DEF made
<1>5. made \in Seq(AnEvent) /\ Len(made) = Len(list)
  BY <1>1, <1>4
<1>6. \A s, d, t, u : Event(s, d, t) = Event(surface, direction, u) <=>
                       s = surface /\ d = direction /\ t = u
  BY DEF Event
<1>7. \A s, d, t : Contains(made, Event(s, d, t)) <=>
                  s = surface /\ d = direction /\ Contains(list, t)
  BY <1>3, <1>5, <1>6 DEF Contains
<1>8. ASSUME NEW x, Contains(made, x) PROVE x.Surface = surface
  <2>1. PICK i \in 1..Len(list) : made[i] = x
    BY <1>5, <1>8 DEF Contains
  <2>2. x = Event(surface, direction, list[i])
    BY <1>3, <2>1
  <2> QED
    BY <2>2 DEF Event
<1> QED
  BY <1>5, <1>7, <1>8 DEF made

LEMMA SurfaceEvents ==
  ASSUME NEW surface \in DOMAIN Rank, NEW lists,
         lists.client \in Seq(DOMAIN Rank), lists.server \in Seq(DOMAIN Rank)
  PROVE  /\ EventsOf(surface, lists) \in Seq(AnEvent)
         /\ \A s, t : \A d \in {"client", "server"} :
              Contains(EventsOf(surface, lists), Event(s, d, t)) <=>
                s = surface /\ Contains(lists[d], t)
         /\ \A x : Contains(EventsOf(surface, lists), x) => x.Surface = surface
<1> DEFINE client == [i \in DOMAIN lists.client |-> Event(surface, "client", lists.client[i])]
           server == [i \in DOMAIN lists.server |-> Event(surface, "server", lists.server[i])]
<1>1. /\ client \in Seq(AnEvent)
      /\ \A s, d, t : Contains(client, Event(s, d, t)) <=>
                      s = surface /\ d = "client" /\ Contains(lists.client, t)
      /\ \A x : Contains(client, x) => x.Surface = surface
  BY ListedEvents
<1>2. /\ server \in Seq(AnEvent)
      /\ \A s, d, t : Contains(server, Event(s, d, t)) <=>
                      s = surface /\ d = "server" /\ Contains(lists.server, t)
      /\ \A x : Contains(server, x) => x.Surface = surface
  BY ListedEvents
<1>3. EventsOf(surface, lists) = client \o server
  BY DEF EventsOf
<1> HIDE DEF client, server
<1>4. /\ client \o server \in Seq(AnEvent)
      /\ \A x : Contains(client \o server, x) <=> Contains(client, x) \/ Contains(server, x)
  BY <1>1, <1>2, ConcatContains
<1>5. lists["client"] = lists.client /\ lists["server"] = lists.server
  OBVIOUS
<1> QED
  BY <1>1, <1>2, <1>3, <1>4, <1>5

\* No surface lists an event twice in one direction.
ListsOnce(inv) == \A s \in DOMAIN inv : IsInjective(EventsOf(s, inv[s]))

\* A list with the events of an inventory, and no other.
EventsFrom(list, inv) ==
  /\ list \in Seq(AnEvent)
  /\ \A x : Contains(list, x) <=> \E s \in DOMAIN inv : Contains(EventsOf(s, inv[s]), x)
  /\ \A s, t : \A d \in {"client", "server"} :
       Contains(list, Event(s, d, t)) <=> s \in DOMAIN inv /\ Contains(inv[s][d], t)

\* Whatever order the surfaces come in, the table has an event exactly when the
\* inventory does, and repeats one exactly when one surface does.
LEMMA CollectedEvents ==
  ASSUME NEW inv, InventoryLists(inv), NEW surfaces \in SetToSeqs(DOMAIN inv),
         NEW collected, collected = collectEvents(inv, surfaces)
  PROVE  /\ EventsFrom(collected, inv)
         /\ IsInjective(collected) <=> ListsOnce(inv)
         /\ ListsOnce(inv) => InOrder(collected)
<1> DEFINE lists == [i \in DOMAIN surfaces |-> EventsOf(surfaces[i], inv[surfaces[i]])]
<1>1. /\ surfaces \in Seq(DOMAIN inv) /\ IsInjective(surfaces)
      /\ \A s : Contains(surfaces, s) <=> s \in DOMAIN inv
  BY SetToSeqsContains DEF InventoryLists
<1>2. collected = Sort(FlattenSeq(lists), EventBefore)
  BY DEF collectEvents
<1>3. /\ DOMAIN surfaces = 1..Len(surfaces) /\ Len(surfaces) \in Nat
      /\ \A i \in DOMAIN surfaces : surfaces[i] \in DOMAIN inv
  BY <1>1
<1>4. \A i \in DOMAIN surfaces : lists[i] = EventsOf(surfaces[i], inv[surfaces[i]])
  OBVIOUS
<1>5. DOMAIN lists = DOMAIN surfaces /\ lists = [i \in 1..Len(surfaces) |-> lists[i]]
  BY <1>3
<1> HIDE DEF lists
<1>6. ASSUME NEW i \in DOMAIN surfaces
      PROVE  /\ lists[i] \in Seq(AnEvent)
             /\ \A s, t : \A d \in {"client", "server"} :
                  Contains(lists[i], Event(s, d, t)) <=>
                    s = surfaces[i] /\ Contains(inv[surfaces[i]][d], t)
             /\ \A x : Contains(lists[i], x) => x.Surface = surfaces[i]
  <2>1. PICK surface : surface = surfaces[i] /\ surface \in DOMAIN inv
    BY <1>3
  <2>2. PICK made : made = inv[surface]
    OBVIOUS
  <2>3. /\ surface \in DOMAIN Rank
        /\ made.client \in Seq(DOMAIN Rank) /\ made.server \in Seq(DOMAIN Rank)
    BY <2>1, <2>2 DEF InventoryLists
  <2>4. lists[i] = EventsOf(surface, made)
    BY <1>4, <2>1, <2>2
  <2>5. /\ EventsOf(surface, made) \in Seq(AnEvent)
        /\ \A s, t : \A d \in {"client", "server"} :
              Contains(EventsOf(surface, made), Event(s, d, t)) <=>
                s = surface /\ Contains(made[d], t)
        /\ \A x : Contains(EventsOf(surface, made), x) => x.Surface = surface
    BY <2>3, SurfaceEvents
  <2> QED
    BY <2>1, <2>2, <2>4, <2>5
<1>7. lists \in Seq(Seq(AnEvent))
  <2>1. \A i \in 1..Len(surfaces) : lists[i] \in Seq(AnEvent)
    BY <1>3, <1>6
  <2>2. lists \in [1..Len(surfaces) -> Seq(AnEvent)]
    BY <1>5, <2>1
  <2> QED
    BY <1>3, <2>2
<1>8. /\ FlattenSeq(lists) \in Seq(AnEvent)
      /\ \A x : Contains(FlattenSeq(lists), x) <=> \E k \in DOMAIN lists : Contains(lists[k], x)
      /\ IsInjective(FlattenSeq(lists)) <=> Apart(lists, Len(lists))
  BY <1>7, FlattenContains
<1>9. /\ collected \in Seq(AnEvent)
      /\ \A x : Contains(collected, x) <=> Contains(FlattenSeq(lists), x)
      /\ IsInjective(collected) <=> Apart(lists, Len(lists))
      /\ Apart(lists, Len(lists)) => InOrder(collected)
  BY <1>2, <1>8, EventsSorted
<1>10. ASSUME NEW s, NEW t, NEW d \in {"client", "server"}
       PROVE  Contains(collected, Event(s, d, t)) <=>
                s \in DOMAIN inv /\ Contains(inv[s][d], t)
  <2>1. Contains(collected, Event(s, d, t)) <=>
          \E k \in DOMAIN surfaces : Contains(lists[k], Event(s, d, t))
    BY <1>5, <1>8, <1>9
  <2>2. (\E k \in DOMAIN surfaces : Contains(lists[k], Event(s, d, t))) <=>
          \E k \in DOMAIN surfaces : s = surfaces[k] /\ Contains(inv[s][d], t)
    BY <1>6
  <2>3. s \in DOMAIN inv <=> \E k \in DOMAIN surfaces : s = surfaces[k]
    BY <1>1, <1>3 DEF Contains
  <2> QED
    BY <2>1, <2>2, <2>3
<1>11. \A s \in DOMAIN inv : \E k \in DOMAIN surfaces : s = surfaces[k]
  BY <1>1, <1>3 DEF Contains
<1>12. \A x : Contains(collected, x) <=> \E s \in DOMAIN inv : Contains(EventsOf(s, inv[s]), x)
  <2>1. \A x : Contains(collected, x) <=> \E k \in DOMAIN surfaces : Contains(lists[k], x)
    BY <1>5, <1>8, <1>9
  <2> QED
    BY <1>3, <1>4, <1>11, <2>1
<1>13. Apart(lists, Len(lists)) <=> ListsOnce(inv)
  <2>1. 1..Len(lists) = DOMAIN surfaces
    BY <1>5, <1>7
  <2>2. \A k, l \in DOMAIN surfaces : k # l =>
          \A x : ~(Contains(lists[k], x) /\ Contains(lists[l], x))
    <3> SUFFICES ASSUME NEW k \in DOMAIN surfaces, NEW l \in DOMAIN surfaces, NEW x,
                        Contains(lists[k], x), Contains(lists[l], x)
                 PROVE  k = l
      OBVIOUS
    <3>1. x.Surface = surfaces[k]
      BY <1>6
    <3>2. x.Surface = surfaces[l]
      BY <1>6
    <3> QED
      BY <1>1, <3>1, <3>2 DEF IsInjective
  <2>3. Apart(lists, Len(lists)) <=> \A k \in DOMAIN surfaces : IsInjective(lists[k])
    BY <2>1, <2>2 DEF Apart
  <2>4. (\A k \in DOMAIN surfaces : IsInjective(lists[k])) <=> ListsOnce(inv)
    BY <1>3, <1>4, <1>11 DEF ListsOnce
  <2> QED
    BY <2>3, <2>4
<1> QED
  BY <1>9, <1>10, <1>12, <1>13 DEF EventsFrom

\* What the command has when it needs the events.
LEMMA EventListsAre ==
  ASSUME inventory \in Inventories, NEW list \in EventLists
  PROVE  /\ Inventory \in Inventories \cup {<<>>}
         /\ EventsFrom(list, Inventory)
         /\ IsInjective(list) <=> ListsOnce(Inventory)
         /\ ListsOnce(Inventory) => InOrder(list)
<1>1. PICK inv : inv = Inventory
  OBVIOUS
<1>2. inv \in Inventories \cup {<<>>}
  BY <1>1 DEF Inventory
<1>3. PICK surfaces \in SetToSeqs(DOMAIN inv) : list = collectEvents(inv, surfaces)
  BY <1>1 DEF EventLists
<1>4. InventoryLists(inv)
  BY <1>2, InventoriesList
<1> QED
  BY <1>1, <1>2, <1>3, <1>4, CollectedEvents

-----------------------------------------------------------------------------
(* The operations.                                                         *)

\* What collectOperations can make of the documents.
Made(e) == UNION {{Item(e, request, response) : request \in SetToSeqs(e.request)}
                    : response \in SetToSeqs(ResponseMedia(e))}
AnOperation == UNION {UNION {Made(e) : e \in {e \in s : Served(e)}} : s \in Specs}

\* An operation, or a row of the table, and the entry it comes from.
OpOf(o, e) ==
  /\ Served(e) /\ o.Path = e.path /\ o.Method = MethodOf(e) /\ o.OperationID = e.id
  /\ o.Capability \in Capabilities
  /\ Describes(o, e, "manifest")
RowOf(row, e) ==
  /\ Served(e) /\ row.Path = e.path /\ row.Method = MethodOf(e) /\ row.ID = e.id
  /\ row.Capability \in Capabilities
  /\ Describes(row, e, "output")

LEMMA ItemOf ==
  ASSUME NEW s \in Specs, NEW e \in s, Served(e), capabilityFor(e.path, e.tag) # "",
         NEW request \in SetToSeqs(e.request), NEW response \in SetToSeqs(ResponseMedia(e))
  PROVE  /\ Item(e, request, response) \in AnOperation
         /\ OpOf(Item(e, request, response), e)
<1> DEFINE o == Item(e, request, response)
<1>1. o \in AnOperation
  <2>0. o \in {Item(e, r, response) : r \in SetToSeqs(e.request)}
    OBVIOUS
  <2>1. o \in Made(e)
    <3> HIDE DEF o
    <3> QED
      BY <2>0 DEF Made
  <2>2. Made(e) \in {Made(f) : f \in {f \in s : Served(f)}}
    OBVIOUS
  <2> HIDE DEF o
  <2>3. o \in UNION {Made(f) : f \in {f \in s : Served(f)}}
    BY <2>1, <2>2
  <2> QED
    BY <2>3 DEF AnOperation
<1>2. /\ o.Path = e.path /\ o.Method = MethodOf(e) /\ o.OperationID = e.id
      /\ o.Capability = capabilityFor(e.path, e.tag)
      /\ o.RequestMedia = SortStrings(request) /\ o.ResponseMedia = SortStrings(response)
  BY DEF Item, ItemUnsorted
<1>6. o = ItemUnsorted(e, SortStrings(request), SortStrings(response))
  BY DEF Item
<1> HIDE DEF o
<1>3. /\ IsFiniteSet(e.request) /\ e.request \subseteq DOMAIN Rank
      /\ IsFiniteSet(ResponseMedia(e)) /\ ResponseMedia(e) \subseteq DOMAIN Rank
  <2>1. /\ IsFiniteSet(e.request) /\ IsFiniteSet(ResponseMedia(e))
        /\ \A media \in {e.request} \cup {r.media : r \in e.responses} : media \subseteq DOMAIN Rank
    BY GeneratorAssumption DEF ResponseMedia
  <2>2. e.request \subseteq DOMAIN Rank
    BY <2>1
  <2>3. ResponseMedia(e) \subseteq DOMAIN Rank
    BY <2>1 DEF ResponseMedia
  <2> QED
    BY <2>1, <2>2, <2>3
<1>4. /\ Ascending(SortStrings(request)) /\ Range(SortStrings(request)) = e.request
      /\ Ascending(SortStrings(response)) /\ Range(SortStrings(response)) = ResponseMedia(e)
  BY <1>3, StringsSorted
<1>7. o = ItemUnsorted(e, o.RequestMedia, o.ResponseMedia)
  BY <1>2, <1>6
<1>8. Describes(o, e, "manifest")
  BY <1>2, <1>4, <1>7 DEF Describes
<1>5. OpOf(o, e)
  BY <1>2, <1>8, CapabilityKnown DEF OpOf
<1> QED
  BY <1>1, <1>5 DEF o

\* The operations of some entries, one for each.
ServedOf(entries) == {e \in entries : Served(e)}
Collects(seq, entries) ==
  /\ seq \in Seq(AnOperation)
  /\ \E entry \in Bijection(DOMAIN seq, ServedOf(entries)) : \A i \in DOMAIN seq : OpOf(seq[i], entry[i])
Sorted(seq) == \A i, j \in DOMAIN seq : i < j => ~OperationBefore(seq[j], seq[i])
DistinctIDs(seq) == \A i, j \in DOMAIN seq : seq[i].OperationID = seq[j].OperationID => i = j

LEMMA BijectionIs ==
  ASSUME NEW S, NEW T, NEW f
  PROVE  f \in Bijection(S, T) <=> /\ f \in [S -> T]
                                   /\ \A a, b \in S : f[a] = f[b] => a = b
                                   /\ \A t \in T : \E s \in S : f[s] = t
  BY DEF Bijection, Injection, Surjection, IsInjective

LEMMA CollectsOneMore ==
  ASSUME NEW s \in Specs, NEW visited \in SUBSET s, NEW seq, Collects(seq, visited),
         NEW e \in s \ visited, NEW o \in AnOperation, OpOf(o, e)
  PROVE  Collects(Append(seq, o), visited \cup {e})
<1> DEFINE n == Len(seq)
           more == Append(seq, o)
           old == ServedOf(visited)
           new == ServedOf(visited \cup {e})
<1>1. seq \in Seq(AnOperation)
  BY DEF Collects
<1>2. /\ more \in Seq(AnOperation) /\ n \in Nat
      /\ DOMAIN seq = 1..n /\ DOMAIN more = 1..(n + 1)
      /\ more[n + 1] = o /\ \A i \in 1..n : more[i] = seq[i]
  BY <1>1
<1>3. /\ \A i : i \in 1..(n + 1) <=> i \in 1..n \/ i = n + 1
      /\ n + 1 \notin 1..n
  BY <1>2
<1>4. \A f : (f \in new <=> f \in old \/ f = e) /\ e \notin old
  BY DEF ServedOf, OpOf
<1>5. PICK entry \in Bijection(1..n, old) : \A i \in 1..n : OpOf(seq[i], entry[i])
  BY <1>2 DEF Collects
<1>6. /\ entry \in [1..n -> old]
      /\ \A i, j \in 1..n : entry[i] = entry[j] => i = j
      /\ \A f \in old : \E i \in 1..n : entry[i] = f
  BY <1>5, BijectionIs
<1> HIDE DEF more, n, old, new
<1> DEFINE next == [i \in 1..(n + 1) |-> IF i = n + 1 THEN e ELSE entry[i]]
<1>7. /\ next \in [1..(n + 1) -> new]
      /\ next[n + 1] = e /\ \A i \in 1..n : next[i] = entry[i] /\ entry[i] \in old
  BY <1>3, <1>4, <1>6
<1> HIDE DEF next
<1>8. next \in Bijection(1..(n + 1), new)
  <2>1. \A i, j \in 1..(n + 1) : next[i] = next[j] => i = j
    BY <1>3, <1>4, <1>6, <1>7
  <2>2. \A f \in new : \E i \in 1..(n + 1) : next[i] = f
    BY <1>3, <1>4, <1>6, <1>7
  <2> QED
    BY <1>7, <2>1, <2>2, BijectionIs
<1>9. \A i \in 1..(n + 1) : OpOf(more[i], next[i])
  BY <1>2, <1>3, <1>5, <1>7
<1>10. Collects(more, visited \cup {e})
  BY <1>2, <1>8, <1>9 DEF Collects, new
<1> QED
  BY <1>10 DEF more

LEMMA CollectsNothing == Collects(<<>>, {})
<1>1. ServedOf({}) = {} /\ DOMAIN <<>> = {} /\ <<>> \in Seq(AnOperation)
  BY DEF ServedOf
<1>2. [i \in {} |-> {}] \in Bijection({}, {})
  BY BijectionIs
<1> QED
  BY <1>1, <1>2 DEF Collects

LEMMA CollectsUnserved ==
  ASSUME NEW seq, NEW visited, NEW e, Collects(seq, visited), ~Served(e)
  PROVE  Collects(seq, visited \cup {e})
<1>1. ServedOf(visited \cup {e}) = ServedOf(visited)
  BY DEF ServedOf
<1> QED
  BY <1>1 DEF Collects

\* The sort after the loops, with equal elements in any order.
LEMMA CollectsSorted ==
  ASSUME NEW seq, NEW entries, Collects(seq, entries), NEW order \in Sortings(seq, OperationBefore),
         NEW sorted, sorted = [i \in DOMAIN seq |-> seq[order[i]]]
  PROVE  Collects(sorted, entries) /\ Sorted(sorted)
<1> DEFINE S == DOMAIN seq
           R == ServedOf(entries)
<1>1. /\ order \in Bijection(S, S)
      /\ \A i, j \in S : i < j => ~OperationBefore(seq[order[j]], seq[order[i]])
  BY DEF Sortings
<1>2. PICK entry \in Bijection(S, R) : \A i \in S : OpOf(seq[i], entry[i])
  BY DEF Collects
<1>3. seq \in Seq(AnOperation) /\ Rearranges(sorted, seq, order)
  BY DEF Collects, Rearranges
<1>4. sorted \in Seq(AnOperation) /\ DOMAIN sorted = S /\ \A i \in S : sorted[i] = seq[order[i]]
  BY <1>1, <1>3, Rearranged
<1>5. /\ order \in [S -> S] /\ \A a, b \in S : order[a] = order[b] => a = b
      /\ \A b \in S : \E a \in S : order[a] = b
  BY <1>1, BijectionIs
<1>6. /\ entry \in [S -> R] /\ \A a, b \in S : entry[a] = entry[b] => a = b
      /\ \A e \in R : \E a \in S : entry[a] = e
  BY <1>2, BijectionIs
<1> HIDE DEF S, R
<1> DEFINE moved == [i \in S |-> entry[order[i]]]
<1>7. moved \in [S -> R] /\ \A i \in S : order[i] \in S /\ moved[i] = entry[order[i]]
  BY <1>5, <1>6
<1> HIDE DEF moved
<1>8. moved \in Bijection(S, R)
  <2>1. \A a, b \in S : moved[a] = moved[b] => a = b
    BY <1>5, <1>6, <1>7
  <2>2. \A e \in R : \E a \in S : moved[a] = e
    BY <1>5, <1>6, <1>7
  <2> QED
    BY <1>7, <2>1, <2>2, BijectionIs
<1>9. \A i \in S : OpOf(sorted[i], moved[i])
  BY <1>2, <1>4, <1>7
<1>10. Collects(sorted, entries)
  BY <1>4, <1>8, <1>9 DEF Collects, R
<1>11. Sorted(sorted)
  BY <1>1, <1>4, <1>7 DEF Sorted
<1> QED
  BY <1>10, <1>11

-----------------------------------------------------------------------------
(* What is written.                                                        *)

\* What FilesAreCanonical says of the operations and of the events of one file.
CanonicalList(list, file) ==
  /\ Sorted(list)
  /\ \E s \in Specs : \E entry \in Bijection(DOMAIN list, ServedOf(s)) :
       \A i \in DOMAIN list : Describes(list[i], entry[i], file)
CanonicalEvents(list) ==
  \E inv \in Inventories \cup {<<>>} : EventsFrom(list, inv) /\ InOrder(list)

\* The rows of a document, one for each operation, under different IDs.
RowsOf(rows, entries) ==
  /\ rows \in Seq({Row(o) : o \in AnOperation})
  /\ \E entry \in Bijection(DOMAIN rows, ServedOf(entries)) : \A i \in DOMAIN rows : RowOf(rows[i], entry[i])
  /\ \A i, j \in DOMAIN rows : rows[i].ID = rows[j].ID => i = j

\* What the tables are compiled from.
OutputGood(content) ==
  /\ content.spec \in Specs /\ content.inventory \in Inventories \cup {<<>>}
  /\ EventsFrom(content.events, content.inventory)
  /\ RowsOf(content.operations, content.spec)
  /\ Lists(content.operations, content.spec)

\* A list with the path and the method of every entry, and no other.
LEMMA ListsWhen ==
  ASSUME NEW list, NEW entries,
         \A i \in DOMAIN list :
           \E e \in entries : Served(e) /\ list[i].Path = e.path /\ list[i].Method = MethodOf(e),
         \A e \in entries : Served(e) =>
           \E i \in DOMAIN list : list[i].Path = e.path /\ list[i].Method = MethodOf(e)
  PROVE  Lists(list, entries)
<1> DEFINE L == {<<o.Path, o.Method>> : o \in Range(list)}
           R == {<<e.path, MethodOf(e)>> : e \in {e \in entries : Served(e)}}
<1>1. ASSUME NEW x \in L PROVE x \in R
  <2>1. PICK o \in Range(list) : x = <<o.Path, o.Method>>
    OBVIOUS
  <2>2. PICK i \in DOMAIN list : o = list[i]
    BY DEF Range
  <2>3. PICK e \in entries : Served(e) /\ list[i].Path = e.path /\ list[i].Method = MethodOf(e)
    OBVIOUS
  <2>4. x = <<e.path, MethodOf(e)>> /\ e \in {f \in entries : Served(f)}
    BY <2>1, <2>2, <2>3
  <2> QED
    BY <2>4
<1>2. ASSUME NEW x \in R PROVE x \in L
  <2>1. PICK e \in entries : Served(e) /\ x = <<e.path, MethodOf(e)>>
    OBVIOUS
  <2>2. PICK i \in DOMAIN list : list[i].Path = e.path /\ list[i].Method = MethodOf(e)
    BY <2>1
  <2>3. list[i] \in Range(list) /\ x = <<list[i].Path, list[i].Method>>
    BY <2>1, <2>2 DEF Range
  <2> QED
    BY <2>3
<1>3. L = R
  BY <1>1, <1>2
<1> QED
  BY <1>3 DEF Lists

LEMMA CollectsList ==
  ASSUME NEW s \in Specs, NEW seq, Collects(seq, s), Sorted(seq), NEW file, file # "output"
  PROVE  Lists(seq, s) /\ CanonicalList(seq, file)
<1>1. PICK entry \in Bijection(DOMAIN seq, ServedOf(s)) : \A i \in DOMAIN seq : OpOf(seq[i], entry[i])
  BY DEF Collects
<1>2. \A o, e : OpOf(o, e) => Served(e) /\ o.Path = e.path /\ o.Method = MethodOf(e)
  BY DEF OpOf
<1>3. \A o, e : OpOf(o, e) => Describes(o, e, file)
  BY DEF OpOf, Describes
<1>4. Lists(seq, s)
  <2>1. /\ \A i \in DOMAIN seq : entry[i] \in s
        /\ \A e \in s : Served(e) => \E i \in DOMAIN seq : entry[i] = e
    <3>1. /\ entry \in [DOMAIN seq -> ServedOf(s)]
          /\ \A e \in ServedOf(s) : \E i \in DOMAIN seq : entry[i] = e
      BY <1>1, BijectionIs
    <3> QED
      BY <3>1 DEF ServedOf
  <2>2. \A i \in DOMAIN seq :
          \E e \in s : Served(e) /\ seq[i].Path = e.path /\ seq[i].Method = MethodOf(e)
    BY <1>1, <1>2, <2>1
  <2>3. \A e \in s : Served(e) =>
          \E i \in DOMAIN seq : seq[i].Path = e.path /\ seq[i].Method = MethodOf(e)
    BY <1>1, <1>2, <2>1
  <2> QED
    BY <2>2, <2>3, ListsWhen
<1>5. \A i \in DOMAIN seq : Describes(seq[i], entry[i], file)
  BY <1>1, <1>3
<1> QED
  BY <1>1, <1>4, <1>5 DEF CanonicalList

\* render keeps what matters.
LEMMA RowDescribes ==
  ASSUME NEW o, NEW e, OpOf(o, e)
  PROVE  RowOf(Row(o), e)
<1> DEFINE row == Row(o)
<1>1. /\ row.Path = o.Path /\ row.Method = o.Method /\ row.ID = o.OperationID
      /\ row.Capability = o.Capability
      /\ row.RequestMedia = o.RequestMedia /\ row.ResponseMedia = o.ResponseMedia
  BY DEF Row
<1>2. /\ o = ItemUnsorted(e, o.RequestMedia, o.ResponseMedia)
      /\ Ascending(o.RequestMedia) /\ Range(o.RequestMedia) = e.request
      /\ Ascending(o.ResponseMedia) /\ Range(o.ResponseMedia) = ResponseMedia(e)
  BY DEF OpOf, Describes
<1>3. row = Row(ItemUnsorted(e, o.RequestMedia, o.ResponseMedia))
  BY <1>2
<1> HIDE DEF row
<1>4. Describes(row, e, "output")
  BY <1>1, <1>2, <1>3 DEF Describes
<1>5. RowOf(row, e)
  BY <1>1, <1>4 DEF OpOf, RowOf
<1> QED
  BY <1>5 DEF row

LEMMA RenderedRows ==
  ASSUME NEW s \in Specs, NEW seq, Collects(seq, s), Sorted(seq), DistinctIDs(seq),
         NEW rows, rows = [i \in DOMAIN seq |-> Row(seq[i])]
  PROVE  RowsOf(rows, s) /\ Lists(rows, s) /\ CanonicalList(rows, "output")
<1>1. /\ seq \in Seq(AnOperation) /\ Len(seq) \in Nat /\ DOMAIN seq = 1..Len(seq)
      /\ \A i \in DOMAIN seq : seq[i] \in AnOperation
  BY DEF Collects
<1>2. DOMAIN rows = DOMAIN seq /\ \A i \in DOMAIN seq : rows[i] = Row(seq[i])
  OBVIOUS
<1>3. \A i \in DOMAIN seq :
        /\ rows[i].Path = seq[i].Path /\ rows[i].Method = seq[i].Method
        /\ rows[i].ID = seq[i].OperationID
  BY <1>2 DEF Row
<1>4. rows \in Seq({Row(o) : o \in AnOperation})
  <2>1. \A i \in DOMAIN seq : rows[i] \in {Row(o) : o \in AnOperation}
    BY <1>1, <1>2
  <2>2. rows \in [1..Len(seq) -> {Row(o) : o \in AnOperation}]
    BY <1>1, <2>1
  <2> QED
    BY <1>1, <2>2
<1>5. PICK entry \in Bijection(DOMAIN rows, ServedOf(s)) : \A i \in DOMAIN rows : RowOf(rows[i], entry[i])
  <2>1. PICK entry \in Bijection(DOMAIN seq, ServedOf(s)) : \A i \in DOMAIN seq : OpOf(seq[i], entry[i])
    BY DEF Collects
  <2>2. \A i \in DOMAIN seq : RowOf(rows[i], entry[i])
    BY <1>2, <2>1, RowDescribes
  <2> QED
    BY <1>2, <2>1, <2>2
<1>7. \A i, j \in DOMAIN rows : rows[i].ID = rows[j].ID => i = j
  BY <1>2, <1>3 DEF DistinctIDs
<1>8. RowsOf(rows, s)
  BY <1>4, <1>5, <1>7 DEF RowsOf
<1>9. Lists(rows, s)
  <2>0. /\ \A i \in DOMAIN rows : entry[i] \in s
        /\ \A e \in s : Served(e) => \E i \in DOMAIN rows : entry[i] = e
    <3>1. /\ entry \in [DOMAIN rows -> ServedOf(s)]
          /\ \A e \in ServedOf(s) : \E i \in DOMAIN rows : entry[i] = e
      BY <1>5, BijectionIs
    <3> QED
      BY <3>1 DEF ServedOf
  <2>1. \A row, e : RowOf(row, e) => Served(e) /\ row.Path = e.path /\ row.Method = MethodOf(e)
    BY DEF RowOf
  <2>2. \A i \in DOMAIN rows :
          \E e \in s : Served(e) /\ rows[i].Path = e.path /\ rows[i].Method = MethodOf(e)
    BY <1>5, <2>0, <2>1
  <2>3. \A e \in s : Served(e) =>
          \E i \in DOMAIN rows : rows[i].Path = e.path /\ rows[i].Method = MethodOf(e)
    BY <1>5, <2>0, <2>1
  <2> QED
    BY <2>2, <2>3, ListsWhen
<1>10. Sorted(rows)
  BY <1>2, <1>3 DEF Sorted, OperationBefore
<1>11. \A i \in DOMAIN rows : Describes(rows[i], entry[i], "output")
  BY <1>5 DEF RowOf
<1> QED
  BY <1>5, <1>8, <1>9, <1>10, <1>11 DEF CanonicalList

-----------------------------------------------------------------------------
(* The files.                                                              *)

Fresh(f) == written[f] = run /\ Lists(Held(f).operations, spec)

FileGood(f) == Whole(f) => /\ CanonicalList(Held(f).operations, f)
                           /\ f # "manifest" => CanonicalEvents(Held(f).events)
                           /\ f = "output" => OutputGood(Held(f))

\* The files the command has got past are of this run.
Passed ==
  /\ gpc \in {"manifest", "compatibility", "done"} => Fresh("output")
  /\ gpc \in {"compatibility", "done"} /\ "manifest" \in flags => Fresh("manifest")
  /\ gpc = "done" /\ "compatibility" \in flags => Fresh("compatibility")

FileTypes == DOMAIN files = Files /\ written \in [Files -> Nat] /\ run \in Nat

FilesInv ==
  /\ FileTypes
  /\ \A f \in Files : written[f] <= written["output"] /\ written[f] <= run
  /\ \A f \in Files : FileGood(f)
  /\ Passed

\* What the command holds while it runs: the operations of the entries it has
\* visited; sorted, once it has visited all; with distinct IDs, and no event
\* listed twice, once they are validated.
RunInv ==
  /\ spec \in Specs /\ inventory \in Inventories /\ pending \in SUBSET spec
  /\ gpc = "collect" => Collects(ops, spec \ pending)
  /\ gpc \in {"events", "validate", "output", "manifest", "compatibility"} =>
       Collects(ops, spec) /\ Sorted(ops)
  /\ gpc \in {"output", "manifest", "compatibility"} => DistinctIDs(ops) /\ ListsOnce(Inventory)

LEMMA FilesFrame ==
  ASSUME FilesInv, UNCHANGED <<files, written, run>>, Passed'
  PROVE  FilesInv'
<1>1. \A f : FileGood(f)' = FileGood(f)
  BY DEF FileGood, Whole, Held
<1> QED
  BY <1>1 DEF FilesInv, FileTypes

LEMMA FilesInit == GenInit => FilesInv /\ RunInv
<1> SUFFICES ASSUME GenInit PROVE FilesInv /\ RunInv
  OBVIOUS
<1>1. /\ \A f \in Files : files[f] = NoFile /\ written[f] = 0
      /\ DOMAIN files = Files /\ written = [f \in Files |-> 0] /\ run = 1 /\ gpc = "collect"
  BY DEF GenInit
<1>2. \A f \in Files : ~Whole(f)
  BY <1>1 DEF Whole, NoFile
<1>3. "output" \in Files
  BY DEF Files
<1>4. FilesInv
  BY <1>1, <1>2, <1>3 DEF FilesInv, FileTypes, FileGood, Passed
<1>5. /\ spec \in Specs /\ inventory \in Inventories /\ pending \in SUBSET spec
      /\ spec \ pending = {} /\ ops = <<>>
  BY DEF GenInit
<1>6. RunInv
  BY <1>1, <1>5, CollectsNothing DEF RunInv
<1> QED
  BY <1>4, <1>6

\* Reading and checking, before anything is written.
LEMMA VisitKeeps ==
  ASSUME FilesInv, RunInv, NEW e, Visit(e)
  PROVE  FilesInv' /\ RunInv'
<1>1. /\ gpc = "collect" /\ e \in pending /\ pending' = pending \ {e}
      /\ gpc' \in {"collect", "fatal"}
      /\ UNCHANGED <<flags, spec, inventory, files, run, written>>
  BY DEF Visit
<1>2. FilesInv'
  BY <1>1, FilesFrame DEF Passed
<1>3. /\ spec \in Specs /\ inventory \in Inventories /\ pending \in SUBSET spec
      /\ Collects(ops, spec \ pending)
  BY <1>1 DEF RunInv
<1>4. /\ spec' \ pending' = (spec \ pending) \cup {e} /\ pending' \in SUBSET spec'
      /\ spec \ pending \in SUBSET spec /\ e \in spec \ (spec \ pending)
  BY <1>1, <1>3
<1>5. gpc' = "collect" => Collects(ops', (spec \ pending) \cup {e})
  <2>1. CASE ~Served(e) /\ UNCHANGED ops
    BY <1>3, <2>1, CollectsUnserved
  <2>2. CASE gpc' = "fatal"
    BY <2>2
  <2>3. ASSUME Served(e), capabilityFor(e.path, e.tag) # "",
               NEW request \in SetToSeqs(e.request), NEW response \in SetToSeqs(ResponseMedia(e)),
               ops' = Append(ops, Item(e, request, response))
        PROVE  Collects(ops', (spec \ pending) \cup {e})
    <3>1. PICK o : o = Item(e, request, response)
      OBVIOUS
    <3>2. o \in AnOperation /\ OpOf(o, e)
      BY <1>3, <1>4, <2>3, <3>1, ItemOf
    <3>3. Collects(Append(ops, o), (spec \ pending) \cup {e})
      BY <1>3, <1>4, <3>2, CollectsOneMore
    <3> QED
      BY <2>3, <3>1, <3>3
  <2> QED
    BY <2>1, <2>2, <2>3 DEF Visit
<1>6. RunInv'
  BY <1>1, <1>3, <1>4, <1>5 DEF RunInv
<1> QED
  BY <1>2, <1>6

LEMMA CollectedKeeps ==
  ASSUME FilesInv, RunInv, Collected
  PROVE  FilesInv' /\ RunInv'
<1>1. /\ gpc = "collect" /\ pending = {}
      /\ gpc' \in {"events", "fatal"}
      /\ UNCHANGED <<flags, spec, inventory, pending, files, run, written>>
  BY DEF Collected
<1>2. FilesInv'
  BY <1>1, FilesFrame DEF Passed
<1>3. spec \ pending = spec
  BY <1>1
<1>6. PICK order \in Sortings(ops, OperationBefore) : ops' = [i \in DOMAIN ops |-> ops[order[i]]]
  BY DEF Collected
<1>4. Collects(ops', spec) /\ Sorted(ops')
  <2>1. PICK sorted : sorted = [i \in DOMAIN ops |-> ops[order[i]]] /\ ops' = sorted
    BY <1>6
  <2>2. Collects(ops, spec)
    BY <1>1, <1>3 DEF RunInv
  <2> QED
    BY <2>1, <2>2, CollectsSorted
<1>5. RunInv'
  BY <1>1, <1>4 DEF RunInv
<1> QED
  BY <1>2, <1>5

LEMMA ReadEventsKeeps ==
  ASSUME FilesInv, RunInv, ReadEvents
  PROVE  FilesInv' /\ RunInv'
<1>1. /\ gpc = "events" /\ gpc' \in {"validate", "fatal"}
      /\ UNCHANGED <<flags, spec, inventory, pending, ops, files, run, written>>
  BY DEF ReadEvents
<1>2. FilesInv'
  BY <1>1, FilesFrame DEF Passed
<1>3. RunInv'
  BY <1>1 DEF RunInv
<1> QED
  BY <1>2, <1>3

LEMMA ValidateKeeps ==
  ASSUME FilesInv, RunInv, Validate
  PROVE  FilesInv' /\ RunInv'
<1>1. /\ gpc = "validate" /\ gpc' \in {"output", "fatal"}
      /\ gpc' = "output" => \E list \in EventLists : validateEvidence(ops, list)
      /\ UNCHANGED <<flags, spec, inventory, pending, ops, files, run, written>>
  BY DEF Validate
<1>2. FilesInv'
  BY <1>1, FilesFrame DEF Passed
<1>3. gpc' = "output" => DistinctIDs(ops)
  BY <1>1 DEF validateEvidence, Distinct, IsInjective, DistinctIDs
<1>5. gpc' = "output" => ListsOnce(Inventory)
  <2> SUFFICES ASSUME NEW list \in EventLists, validateEvidence(ops, list) PROVE ListsOnce(Inventory)
    BY <1>1
  <2>1. inventory \in Inventories
    BY DEF RunInv
  <2>2. EventsFrom(list, Inventory) /\ (IsInjective(list) <=> ListsOnce(Inventory))
    BY <2>1, EventListsAre
  <2>3. IsInjective(list)
    BY DEF validateEvidence, Distinct, IsInjective
  <2> QED
    BY <2>2, <2>3
<1>6. Inventory' = Inventory
  BY <1>1 DEF Inventory
<1>4. RunInv'
  BY <1>1, <1>3, <1>5, <1>6 DEF RunInv
<1> QED
  BY <1>2, <1>4

LEMMA KilledKeeps ==
  ASSUME FilesInv, RunInv, Killed
  PROVE  FilesInv' /\ RunInv'
<1>1. /\ gpc' = "fatal"
      /\ UNCHANGED <<flags, spec, inventory, pending, ops, files, run, written>>
  BY DEF Killed
<1>2. FilesInv'
  BY <1>1, FilesFrame DEF Passed
<1>3. RunInv'
  BY <1>1 DEF RunInv
<1> QED
  BY <1>2, <1>3

LEMMA RunAgainKeeps ==
  ASSUME FilesInv, RunInv, RunAgain
  PROVE  FilesInv' /\ RunInv'
<1>1. /\ gpc' = "collect" /\ run' = run + 1 /\ spec' \in Specs /\ inventory' \in Inventories
      /\ pending' = spec' /\ ops' = <<>> /\ UNCHANGED <<files, written>>
  BY DEF RunAgain
<1>2. \A f : FileGood(f)' = FileGood(f)
  BY <1>1 DEF FileGood, Whole, Held
<1>3. Passed'
  BY <1>1 DEF Passed
<1>4. run \in Nat /\ \A f \in Files : written[f] \in Nat /\ written[f] <= run
  BY DEF FilesInv, FileTypes
<1>5. run' \in Nat /\ \A f \in Files : written[f] <= run'
  BY <1>1, <1>4
<1>6. FilesInv'
  BY <1>1, <1>2, <1>3, <1>5 DEF FilesInv, FileTypes
<1>7. spec' \ pending' = {} /\ pending' \in SUBSET spec'
  BY <1>1
<1>8. RunInv'
  BY <1>1, <1>7, CollectsNothing DEF RunInv
<1> QED
  BY <1>6, <1>8

LEMMA SkipFileKeeps ==
  ASSUME FilesInv, RunInv, SkipFile
  PROVE  FilesInv' /\ RunInv'
<1>1. UNCHANGED <<flags, spec, inventory, pending, ops, files, run, written>>
  BY DEF SkipFile
<1>2. \/ gpc = "manifest" /\ "manifest" \notin flags /\ gpc' = "compatibility"
      \/ gpc = "compatibility" /\ "compatibility" \notin flags /\ gpc' = "done"
      \/ gpc = "compatibility" /\ gpc' = "fatal"
  BY DEF SkipFile
<1>3. \A f : Fresh(f)' = Fresh(f)
  BY <1>1 DEF Fresh, Held
<1>4. Passed'
  BY <1>1, <1>2, <1>3 DEF FilesInv, Passed
<1>5. FilesInv'
  BY <1>1, <1>4, FilesFrame
<1>6. RunInv'
  BY <1>1, <1>2 DEF RunInv, Inventory
<1> QED
  BY <1>5, <1>6

\* One file is written, or broken; the others stay as they are.
LEMMA WriteKeeps ==
  ASSUME FilesInv, NEW file \in Files, NEW content, NEW next, next # "fatal", Write(file, content, next),
         CanonicalList(content.operations, file), Lists(content.operations, spec),
         file # "manifest" => CanonicalEvents(content.events),
         file = "output" => OutputGood(content),
         file # "output" => Fresh("output")
  PROVE  /\ Passed' => FilesInv'
         /\ gpc' = next => Fresh(file)'
         /\ \A f \in Files : f # file /\ Fresh(f) => Fresh(f)'
<1>1. gpc = file /\ UNCHANGED <<flags, spec, inventory, pending, ops, run>>
  BY DEF Write
<1>2. /\ DOMAIN files = Files /\ written \in [Files -> Nat] /\ run \in Nat /\ "output" \in Files
      /\ \A f \in Files : written[f] \in Nat /\ written[f] <= written["output"] /\ written[f] <= run
  BY DEF FilesInv, FileTypes, Files
<1>3. \/ /\ gpc' = next /\ files'[file] = <<"whole", content>> /\ written'[file] = run
         /\ DOMAIN files' = Files /\ written' \in [Files -> Nat]
         /\ \A f \in Files : f # file => files'[f] = files[f] /\ written'[f] = written[f]
      \/ /\ gpc' = "fatal" /\ files'[file] = Broken /\ UNCHANGED written
         /\ DOMAIN files' = Files
         /\ \A f \in Files : f # file => files'[f] = files[f]
  BY <1>2 DEF Write
<1>4. \A f \in Files : f # file /\ Fresh(f) => Fresh(f)'
  BY <1>1, <1>3 DEF Fresh, Held
<1>5. \A f \in Files : f # file => FileGood(f)' = FileGood(f)
  BY <1>3 DEF FileGood, Whole, Held
<1>6. CASE /\ gpc' = next /\ files'[file] = <<"whole", content>> /\ written'[file] = run
           /\ DOMAIN files' = Files /\ written' \in [Files -> Nat]
           /\ \A f \in Files : f # file => files'[f] = files[f] /\ written'[f] = written[f]
  <2>1. Held(file)' = content
    BY <1>6 DEF Held
  <2>2. Fresh(file)'
    BY <1>1, <1>6, <2>1 DEF Fresh
  <2>3. FileGood(file)'
    BY <2>1 DEF FileGood
  <2>4. ASSUME NEW f \in Files PROVE written'[f] <= written'["output"] /\ written'[f] <= run
    <3>1. CASE file = "output"
      BY <1>2, <1>6, <3>1
    <3>2. CASE file # "output"
      <4>1. written["output"] = run
        BY <3>2 DEF Fresh
      <4>2. written'["output"] = run
        BY <1>2, <1>6, <3>2, <4>1
      <4> QED
        BY <1>2, <1>6, <4>2
    <3> QED
      BY <3>1, <3>2
  <2>5. \A f \in Files : FileGood(f)'
    BY <1>5, <2>3 DEF FilesInv
  <2>6. Passed' => FilesInv'
    BY <1>1, <1>2, <1>6, <2>4, <2>5 DEF FilesInv, FileTypes
  <2> QED
    BY <1>4, <2>2, <2>6
<1>7. CASE /\ gpc' = "fatal" /\ files'[file] = Broken /\ UNCHANGED written
           /\ DOMAIN files' = Files
           /\ \A f \in Files : f # file => files'[f] = files[f]
  <2>1. ~Whole(file)'
    BY <1>7 DEF Whole, Broken
  <2>2. \A f \in Files : FileGood(f)'
    BY <1>5, <2>1 DEF FilesInv, FileGood
  <2>3. Passed' => FilesInv'
    BY <1>1, <1>2, <1>7, <2>2 DEF FilesInv, FileTypes
  <2> QED
    BY <1>4, <1>7, <2>3
<1> QED
  BY <1>3, <1>6, <1>7

LEMMA WriteOutputKeeps ==
  ASSUME FilesInv, RunInv, WriteOutput
  PROVE  FilesInv' /\ RunInv'
<1> DEFINE rows == [i \in DOMAIN ops |-> Row(ops[i])]
<1>0. PICK list \in EventLists : Write("output", render(list), "manifest")
  BY DEF WriteOutput
<1>1. PICK content : content = render(list)
  OBVIOUS
<1>2. /\ gpc = "output" /\ gpc' \in {"manifest", "fatal"}
      /\ UNCHANGED <<flags, spec, inventory, pending, ops, run>>
  BY <1>0 DEF Write
<1>3. /\ spec \in Specs /\ inventory \in Inventories /\ ListsOnce(Inventory)
      /\ Collects(ops, spec) /\ Sorted(ops) /\ DistinctIDs(ops)
  BY <1>2 DEF RunInv
<1>4. RowsOf(rows, spec) /\ Lists(rows, spec) /\ CanonicalList(rows, "output")
  BY <1>3, RenderedRows
<1>5. /\ content.spec = spec /\ content.inventory = Inventory /\ content.events = list
      /\ content.operations = rows
  BY <1>1 DEF render
<1> HIDE DEF rows
<1>6. /\ Inventory \in Inventories \cup {<<>>}
      /\ EventsFrom(list, Inventory) /\ InOrder(list)
  BY <1>3, EventListsAre
<1>7. OutputGood(content) /\ CanonicalEvents(content.events)
  BY <1>3, <1>4, <1>5, <1>6 DEF OutputGood, CanonicalEvents
<1>8. /\ Passed' => FilesInv'
      /\ gpc' = "manifest" => Fresh("output")'
  <2>1. "output" \in Files /\ "manifest" # "fatal"
    BY DEF Files
  <2>2. /\ Write("output", content, "manifest")
        /\ CanonicalList(content.operations, "output") /\ Lists(content.operations, spec)
    BY <1>0, <1>1, <1>4, <1>5
  <2> QED
    BY <1>7, <2>1, <2>2, WriteKeeps
<1>9. Passed'
  BY <1>2, <1>8 DEF Passed
<1>10. RunInv'
  BY <1>2 DEF RunInv, Inventory
<1> QED
  BY <1>8, <1>9, <1>10

LEMMA WriteManifestKeeps ==
  ASSUME FilesInv, RunInv, WriteManifest
  PROVE  FilesInv' /\ RunInv'
<1> DEFINE content == [operations |-> ops]
<1>1. Write("manifest", content, "compatibility")
  BY DEF WriteManifest
<1>2. /\ gpc = "manifest" /\ gpc' \in {"compatibility", "fatal"}
      /\ UNCHANGED <<flags, spec, inventory, pending, ops, run>>
  BY <1>1 DEF Write
<1>3. /\ spec \in Specs /\ Collects(ops, spec) /\ Sorted(ops)
  BY <1>2 DEF RunInv
<1>4. CanonicalList(content.operations, "manifest") /\ Lists(content.operations, spec)
  BY <1>3, CollectsList
<1> HIDE DEF content
<1>5. Fresh("output")
  BY <1>2 DEF FilesInv, Passed
<1>6. {"output", "manifest", "compatibility"} = Files /\ "manifest" # "output" /\ "compatibility" # "fatal"
  BY DEF Files
<1>7. /\ Passed' => FilesInv'
      /\ gpc' = "compatibility" => Fresh("manifest")'
      /\ \A f \in Files : f # "manifest" /\ Fresh(f) => Fresh(f)'
  BY <1>1, <1>4, <1>5, <1>6, WriteKeeps
<1>8. Fresh("output")'
  BY <1>5, <1>6, <1>7
<1>9. Passed'
  BY <1>2, <1>7, <1>8 DEF Passed
<1>10. RunInv'
  BY <1>2 DEF RunInv, Inventory
<1> QED
  BY <1>7, <1>9, <1>10

LEMMA WriteCompatibilityKeeps ==
  ASSUME FilesInv, RunInv, WriteCompatibility
  PROVE  FilesInv' /\ RunInv'
<1>0. PICK list \in EventLists : Write("compatibility", renderCompatibility(list), "done")
  BY DEF WriteCompatibility
<1>1. PICK content : content = renderCompatibility(list) /\ Write("compatibility", content, "done")
  BY <1>0
<1>2. /\ gpc = "compatibility" /\ gpc' \in {"done", "fatal"}
      /\ UNCHANGED <<flags, spec, inventory, pending, ops, run>>
  BY <1>1 DEF Write
<1>3. /\ spec \in Specs /\ Collects(ops, spec) /\ Sorted(ops)
      /\ inventory \in Inventories /\ ListsOnce(Inventory)
  BY <1>2 DEF RunInv
<1>4. /\ CanonicalList(content.operations, "compatibility") /\ Lists(content.operations, spec)
      /\ CanonicalEvents(content.events)
  <2>1. content.operations = ops /\ content.events = list
    BY <1>1 DEF renderCompatibility
  <2>2. /\ Inventory \in Inventories \cup {<<>>}
        /\ EventsFrom(list, Inventory) /\ InOrder(list)
    BY <1>3, EventListsAre
  <2>3. CanonicalEvents(content.events)
    BY <2>1, <2>2 DEF CanonicalEvents
  <2> QED
    BY <1>3, <2>1, <2>3, CollectsList
<1>5. Fresh("output") /\ ("manifest" \in flags => Fresh("manifest"))
  BY <1>2 DEF FilesInv, Passed
<1>6. /\ {"output", "manifest", "compatibility"} = Files /\ "done" # "fatal"
      /\ "compatibility" # "output" /\ "compatibility" # "manifest"
  BY DEF Files
<1>7. /\ Passed' => FilesInv'
      /\ gpc' = "done" => Fresh("compatibility")'
      /\ \A f \in Files : f # "compatibility" /\ Fresh(f) => Fresh(f)'
  BY <1>1, <1>4, <1>5, <1>6, WriteKeeps
<1>8. Fresh("output")' /\ ("manifest" \in flags => Fresh("manifest")')
  BY <1>5, <1>6, <1>7
<1>9. Passed'
  BY <1>2, <1>7, <1>8 DEF Passed
<1>10. RunInv'
  BY <1>2 DEF RunInv, Inventory
<1> QED
  BY <1>7, <1>9, <1>10

LEMMA GenStep ==
  ASSUME FilesInv, RunInv, GenNext
  PROVE  FilesInv' /\ RunInv'
  BY VisitKeeps, CollectedKeeps, ReadEventsKeeps, ValidateKeeps, WriteOutputKeeps, WriteManifestKeeps,
     WriteCompatibilityKeeps, SkipFileKeeps, KilledKeeps, RunAgainKeeps DEF GenNext

-----------------------------------------------------------------------------
(* All of it.                                                              *)

\* Before the process starts nobody has asked for anything; after that it has
\* the tables of the file it was compiled from.
DeployInv ==
  /\ deployed => /\ Whole("output")
                 /\ operations = Source.operations /\ events = Source.events
                 /\ document = Source.spec
  /\ ~deployed => /\ RunInv
                  /\ \A g \in Goroutines : at[g] = "idle"
                  /\ \A t \in Tables : once[t] = "new"

LifecycleInv == FilesInv /\ DeployInv /\ ErrorInv /\ TableInv /\ deployed \in BOOLEAN

LEMMA LifecycleInitial == LifecycleInit => LifecycleInv
<1> SUFFICES ASSUME LifecycleInit PROVE LifecycleInv
  OBVIOUS
<1>1. GenInit /\ SharedInit /\ deployed = FALSE
  BY DEF LifecycleInit
<1>2. \A g \in Goroutines : at[g] = "idle"
  BY <1>1 DEF SharedInit
<1>3. \A t \in Tables : once[t] = "new"
  BY <1>1 DEF SharedInit
<1>4. FilesInv /\ RunInv /\ ErrorInv /\ TableInv
  BY <1>1, FilesInit, ErrorInit, TableInit
<1> QED
  BY <1>1, <1>2, <1>3, <1>4 DEF LifecycleInv, DeployInv

\* Steps that leave the requests, or the generator, alone.
LEMMA SharedUnchanged ==
  ASSUME ErrorInv, TableInv, UNCHANGED sharedVars
  PROVE  ErrorInv' /\ TableInv'
<1>1. /\ UNCHANGED <<operations, events, document, once, filled, specErr, error, words>>
      /\ UNCHANGED <<at, wanted, found, status, envelope>>
  BY DEF sharedVars, tableVars, errorVars, answerVars
<1>2. ErrorInv'
  BY <1>1, ErrorFrame DEF ErrorInv, ErrorTypes
<1>3. \A t : Entries(t)' = Entries(t)
  BY <1>1, SameTables
<1>4. \A t : (Built(t)' <=> Built(t)) /\ \A key : Lookup(t, key)' = Lookup(t, key)
  BY <1>1, SameLookup
<1>5. \A g \in Goroutines : Stands(g)'
  BY <1>1, <1>4, StandsFrame DEF TableInv
<1>6. TableInv'
  BY <1>1, <1>4, <1>5 DEF TableInv, TableTypes
<1> QED
  BY <1>2, <1>6

LEMMA GenUnchanged ==
  ASSUME FilesInv, UNCHANGED genVars
  PROVE  FilesInv' /\ Source' = Source /\ (Whole("output")' <=> Whole("output"))
<1>1. UNCHANGED <<gpc, flags, spec, inventory, pending, ops, files, run, written>>
  BY DEF genVars
<1>2. Passed'
  BY <1>1 DEF FilesInv, Passed, Fresh, Held
<1> QED
  BY <1>1, <1>2, FilesFrame DEF Source, Held, Whole

LEMMA DeployStarts ==
  ASSUME LifecycleInv, Deploy
  PROVE  LifecycleInv'
<1>0. "output" \in Files
  BY DEF Files
<1>1. /\ ~deployed /\ Whole("output") /\ deployed' = TRUE
      /\ Start(Held("output").operations, Held("output").events, Held("output").spec)
      /\ files' = [f \in Files |-> IF f = "output" THEN files[f] ELSE NoFile]
      /\ gpc' = "done" /\ flags' = {} /\ run' = 0 /\ written' = [f \in Files |-> 0]
      /\ spec' = Held("output").spec
  BY DEF Deploy
<1>2. FilesInv /\ ErrorInv /\ TableInv /\ DeployInv
  BY DEF LifecycleInv
<1>3. (\A g \in Goroutines : at[g] = "idle") /\ \A t \in Tables : once[t] = "new"
  BY <1>1, <1>2 DEF DeployInv
<1>4. ErrorInv'
  BY <1>1, <1>2, <1>3, ErrorStart
<1>5. TableInv'
  <2>1. UNCHANGED <<once, filled, specErr, at, wanted, found>>
    BY <1>1 DEF Start
  <2>2. \A g \in Goroutines : found[g] = <<"nothing", {}>>
    BY <1>2, <1>3 DEF TableInv, Stands, Places
  <2>3. \A g \in Goroutines : Stands(g)'
    <3>1. \A g \in Goroutines : found[g][1] = "nothing"
      BY <2>2
    <3> QED
      BY <1>3, <2>1, <2>2, <3>1 DEF Stands
  <2>4. \A t \in Tables : once'[t] = "new"
    BY <1>3, <2>1
  <2> QED
    BY <1>2, <1>3, <2>1, <2>3, <2>4 DEF TableInv, TableTypes
<1>6. /\ files'["output"] = files["output"] /\ DOMAIN files' = Files
      /\ \A f \in Files : f # "output" => files'[f] = NoFile
      /\ \A f \in Files : written'[f] = 0
  BY <1>0, <1>1
<1>7. Held("output")' = Held("output") /\ Whole("output")'
  BY <1>1, <1>6 DEF Held, Whole
<1>8. /\ CanonicalList(Held("output").operations, "output") /\ OutputGood(Held("output"))
      /\ CanonicalEvents(Held("output").events)
  BY <1>0, <1>1, <1>2 DEF FilesInv, FileGood
<1>9. ASSUME NEW f \in Files PROVE FileGood(f)'
  <2>1. CASE f = "output"
    BY <1>7, <1>8, <2>1 DEF FileGood
  <2>2. CASE f # "output"
    BY <1>6, <2>2 DEF FileGood, Whole, NoFile
  <2> QED
    BY <2>1, <2>2
<1>10. Passed'
  <2>1. Lists(Held("output").operations, Held("output").spec)
    BY <1>8 DEF OutputGood
  <2>2. Fresh("output")'
    BY <1>0, <1>1, <1>6, <1>7, <2>1 DEF Fresh
  <2> QED
    BY <1>1, <2>2 DEF Passed
<1>11. FilesInv'
  <2>1. \A f \in Files : written'[f] <= written'["output"] /\ written'[f] <= run'
    BY <1>0, <1>1, <1>6
  <2>2. FileTypes'
    BY <1>1, <1>6 DEF FileTypes
  <2> QED
    BY <1>9, <1>10, <2>1, <2>2 DEF FilesInv
<1>12. DeployInv'
  <2>1. operations' = Held("output").operations /\ events' = Held("output").events
        /\ document' = Held("output").spec
    BY <1>1 DEF Start
  <2> QED
    BY <1>1, <1>7, <2>1 DEF DeployInv, Source
<1> QED
  BY <1>1, <1>4, <1>5, <1>11, <1>12 DEF LifecycleInv

LEMMA ContainsRange ==
  ASSUME NEW T, NEW list \in Seq(T)
  PROVE  \A x : x \in Range(list) <=> Contains(list, x)
  BY DEF Range, Contains

LEMMA LifecycleStep ==
  ASSUME LifecycleInv, [LifecycleNext]_lifecycleVars
  PROVE  LifecycleInv'
<1>0. FilesInv /\ ErrorInv /\ TableInv /\ DeployInv /\ deployed \in BOOLEAN
  BY DEF LifecycleInv
<1>1. CASE ~deployed /\ GenNext /\ UNCHANGED <<sharedVars, deployed>>
  <2>1. FilesInv' /\ RunInv'
    BY <1>0, <1>1, GenStep DEF DeployInv
  <2>2. ErrorInv' /\ TableInv'
    BY <1>0, <1>1, SharedUnchanged
  <2>3. UNCHANGED <<at, once, deployed>>
    BY <1>1 DEF sharedVars, tableVars
  <2> QED
    BY <1>0, <1>1, <2>1, <2>2, <2>3 DEF LifecycleInv, DeployInv
<1>2. CASE Deploy
  BY <1>2, DeployStarts
<1>3. ASSUME NEW g \in Goroutines, deployed, Ask(g) \/ GoroutineStep(g),
             UNCHANGED <<genVars, deployed>>
      PROVE  LifecycleInv'
  <2>1. ErrorInv' /\ TableInv'
    BY <1>0, <1>3, ErrorStep, TableStep
  <2>2. FilesInv' /\ Source' = Source /\ (Whole("output")' <=> Whole("output"))
    BY <1>0, <1>3, GenUnchanged
  <2>3. UNCHANGED <<operations, events, document>>
    BY <1>3 DEF Ask, Call, GoroutineStep, EnterOnce, BuildEntry, LeaveOnce, ReadTable, AnswerOwn,
                ChooseStatus, Encode, FillField, tableVars
  <2> QED
    BY <1>0, <1>3, <2>1, <2>2, <2>3 DEF LifecycleInv, DeployInv
<1>4. CASE UNCHANGED lifecycleVars
  <2>1. UNCHANGED <<genVars, sharedVars, deployed>>
    BY <1>4 DEF lifecycleVars
  <2>2. ErrorInv' /\ TableInv'
    BY <1>0, <2>1, SharedUnchanged
  <2>3. FilesInv' /\ Source' = Source /\ (Whole("output")' <=> Whole("output"))
    BY <1>0, <2>1, GenUnchanged
  <2>4. UNCHANGED <<operations, events, document, at, once>>
    BY <2>1 DEF sharedVars, tableVars
  <2>5. RunInv' = RunInv
    BY <2>1 DEF RunInv, Inventory, genVars
  <2> QED
    BY <1>0, <2>1, <2>2, <2>3, <2>4, <2>5 DEF LifecycleInv, DeployInv
<1> QED
  BY <1>1, <1>2, <1>3, <1>4 DEF LifecycleNext

\* The invariant of the generator, its files and the process together.
THEOREM LifecycleInvHolds == LifecycleSpec => []LifecycleInv
  BY LifecycleInitial, LifecycleStep, PTL DEF LifecycleSpec

\* However many requests share one error and fill it in without a lock, no
\* complete answer names a status other than that of its type, or lacks a type
\* or a message.
THEOREM ErrorAnswersAgreeHolds == LifecycleSpec => []ErrorAnswersAgree
<1>1. LifecycleInv => ErrorAnswersAgree
  BY DEF LifecycleInv, ErrorInv
<1> QED
  BY <1>1, LifecycleInvHolds, PTL

\* Whatever order the maps are walked in, whatever the sort does with equal
\* elements, whatever fails and however often the command is run, a file that is
\* whole describes each operation of one document once and in order, and lists
\* each event of one inventory once and in order.
THEOREM FilesAreCanonicalHolds == LifecycleSpec => []FilesAreCanonical
<1>1. LifecycleInv => FilesAreCanonical
  <2> SUFFICES ASSUME LifecycleInv, NEW file \in {f \in Files : Whole(f)}, NEW rows, NEW list,
                      rows = Held(file).operations, list = Held(file).events
               PROVE  /\ \E s \in Specs : \E entry \in Bijection(DOMAIN rows, {e \in s : Served(e)}) :
                           \A i \in DOMAIN rows : Describes(rows[i], entry[i], file)
                      /\ \A i, j \in DOMAIN rows : i < j => ~OperationBefore(rows[j], rows[i])
                      /\ file # "manifest" =>
                           /\ \A i, j \in DOMAIN list : i < j => EventBefore(list[i], list[j])
                           /\ \E inv \in Inventories \cup {<<>>} :
                                Range(list) = UNION {Range(EventsOf(s, inv[s])) : s \in DOMAIN inv}
    BY DEF FilesAreCanonical
  <2>1. CanonicalList(rows, file) /\ (file # "manifest" => CanonicalEvents(list))
    BY DEF LifecycleInv, FilesInv, FileGood
  <2>2. ASSUME NEW inv \in Inventories \cup {<<>>}, EventsFrom(list, inv)
        PROVE  Range(list) = UNION {Range(EventsOf(s, inv[s])) : s \in DOMAIN inv}
    <3>1. \A x : x \in Range(list) <=> Contains(list, x)
      BY <2>2, ContainsRange DEF EventsFrom
    <3>2. ASSUME NEW s \in DOMAIN inv
          PROVE  \A x : x \in Range(EventsOf(s, inv[s])) <=> Contains(EventsOf(s, inv[s]), x)
      <4>1. InventoryLists(inv)
        BY <2>2, InventoriesList
      <4>2. PICK made : made = inv[s]
        OBVIOUS
      <4>3. s \in DOMAIN Rank /\ made.client \in Seq(DOMAIN Rank) /\ made.server \in Seq(DOMAIN Rank)
        BY <4>1, <4>2 DEF InventoryLists
      <4>4. EventsOf(s, made) \in Seq(AnEvent)
        BY <4>3, SurfaceEvents
      <4> QED
        BY <4>2, <4>4, ContainsRange
    <3>3. \A x : x \in Range(list) <=> \E s \in DOMAIN inv : x \in Range(EventsOf(s, inv[s]))
      BY <2>2, <3>1, <3>2 DEF EventsFrom
    <3> QED
      BY <3>3
  <2> QED
    BY <2>1, <2>2 DEF CanonicalList, CanonicalEvents, Sorted, InOrder, ServedOf
<1> QED
  BY <1>1, LifecycleInvHolds, PTL

\* No failure and no number of runs leaves a manifest or a matrix ahead of the
\* tables, and a run that ends well has written all of its files from one
\* document.
THEOREM FilesAgreeHolds == LifecycleSpec => []FilesAgree
<1>1. LifecycleInv => FilesAgree
  <2> SUFFICES ASSUME LifecycleInv PROVE FilesAgree
    OBVIOUS
  <2>1. FilesInv /\ Passed
    BY DEF LifecycleInv, FilesInv
  <2>2. ASSUME gpc = "done", NEW file \in {"output"} \cup (flags \cap Files)
        PROVE  Fresh(file)
    BY <2>1, <2>2 DEF Passed, Files
  <2> QED
    BY <2>1, <2>2 DEF FilesAgree, FilesInv, Fresh
<1> QED
  BY <1>1, LifecycleInvHolds, PTL

-----------------------------------------------------------------------------
(* What a lookup gives.                                                    *)

\* A table that is built is looked up as a whole.
LEMMA WholeLookup ==
  ASSUME NEW T, NEW table, table # "document", Entries(table) \in Seq(T),
         filled[table] = Len(Entries(table))
  PROVE  SubSeq(Entries(table), 1, filled[table]) = Entries(table)
<1>1. PICK entries \in Seq(T) : entries = Entries(table)
  OBVIOUS
<1>2. SubSeq(entries, 1, Len(entries)) = entries
  OBVIOUS
<1> QED
  BY <1>1, <1>2

\* The rows of an ID: as many as the document has operations of that ID.
LEMMA LookupOperation ==
  ASSUME RowsOf(operations, document), document \in Specs, filled["operations"] = Len(operations),
         NEW key
  PROVE  LET entries == {e \in document : Served(e) /\ <<e.id>> = key}
             rows == Lookup("operations", key)[2]
         IN  /\ IsFiniteSet(rows) /\ Lists(SetToSeq(rows), entries)
             /\ Cardinality(entries) <= 1
             /\ \A row \in rows : <<row.ID>> = key /\ row.Capability \in Capabilities
<1> DEFINE T == {Row(o) : o \in AnOperation}
           n == Len(operations)
           entries == {e \in document : Served(e) /\ <<e.id>> = key}
           rows == Lookup("operations", key)[2]
           there == SubSeq(Entries("operations"), 1, filled["operations"])
           hits == {j \in DOMAIN there : <<there[j].ID>> = key}
<1>1. operations \in Seq(T) /\ Entries("operations") = operations
  BY DEF RowsOf, Entries
<1>2. there = operations
  BY <1>1, WholeLookup
<1>3. rows = {there[i] : i \in Latest(hits)}
  BY DEF Lookup
<1>4. n \in Nat /\ DOMAIN operations = 1..n
  BY <1>1
<1>15. PICK entry : /\ \A i \in 1..n : RowOf(operations[i], entry[i]) /\ entry[i] \in document
                    /\ \A e \in document : Served(e) => \E i \in 1..n : entry[i] = e
  <2>1. PICK f \in Bijection(1..n, ServedOf(document)) : \A i \in 1..n : RowOf(operations[i], f[i])
    BY <1>4 DEF RowsOf
  <2>2. /\ \A i \in 1..n : f[i] \in document
        /\ \A e \in document : Served(e) => \E i \in 1..n : f[i] = e
    <3>0. PICK S, R : S = 1..n /\ R = ServedOf(document) /\ f \in Bijection(S, R)
      BY <2>1
    <3>1. f \in [S -> R] /\ \A e \in R : \E i \in S : f[i] = e
      BY <3>0, BijectionIs
    <3> HIDE DEF n
    <3>2. \A e : e \in R <=> e \in document /\ Served(e)
      BY <3>0 DEF ServedOf
    <3>3. (\A i \in S : f[i] \in document) /\ \A e \in document : Served(e) => \E i \in S : f[i] = e
      BY <3>1, <3>2
    <3> QED
      BY <3>0, <3>3
  <2> QED
    BY <2>1, <2>2
<1>5. hits = {j \in 1..n : <<operations[j].ID>> = key}
  <2> HIDE DEF there, n
  <2> QED
    BY <1>2, <1>4
<1> HIDE DEF T, n, there, hits, rows
<1>6. /\ \A j : j \in hits <=> j \in 1..n /\ <<operations[j].ID>> = key
      /\ \A i, j \in hits : i = j
  <2>1. \A j : j \in hits <=> j \in 1..n /\ <<operations[j].ID>> = key
    BY <1>5
  <2>2. \A i, j \in hits : operations[i].ID = operations[j].ID
    BY <2>1
  <2> QED
    BY <1>4, <2>1, <2>2 DEF RowsOf
<1>7. \A x : x \in rows <=> \E j \in hits : x = operations[j]
  <2>1. CASE hits = {}
    BY <1>3, <2>1 DEF Latest
  <2>2. CASE hits # {}
    <3>1. PICK j \in hits : hits = {j}
      BY <1>6, <2>2
    <3>2. Max(hits) = j
      <4>1. j \in Nat /\ hits \in SUBSET Nat /\ \A m \in hits : j >= m
        BY <1>4, <1>6, <3>1
      <4> QED
        BY <4>1, MaxUnique
    <3>3. Latest(hits) = hits
      BY <2>2, <3>1, <3>2 DEF Latest
    <3> QED
      BY <1>2, <1>3, <3>3
  <2> QED
    BY <2>1, <2>2
<1>8. IsFiniteSet(rows)
  <2>1. CASE hits = {}
    BY <1>7, <2>1, FS_EmptySet
  <2>2. ASSUME NEW j \in hits PROVE IsFiniteSet(rows)
    <3>1. rows = {operations[j]}
      BY <1>6, <1>7
    <3> QED
      BY <3>1, FS_Singleton
  <2> QED
    BY <2>1, <2>2
<1>9. ASSUME NEW row \in rows
      PROVE  \E e \in entries : RowOf(row, e)
  <2>1. PICK j \in 1..n : row = operations[j] /\ <<row.ID>> = key
    BY <1>6, <1>7
  <2>2. PICK e \in document : RowOf(row, e)
    BY <1>15, <2>1
  <2>3. Served(e) /\ <<e.id>> = key
    BY <2>1, <2>2 DEF RowOf
  <2> QED
    BY <2>2, <2>3
<1>10. ASSUME NEW e \in entries
       PROVE  \E row \in rows : RowOf(row, e)
  <2>1. e \in document /\ Served(e) /\ <<e.id>> = key
    OBVIOUS
  <2>2. PICK j \in 1..n : RowOf(operations[j], e)
    BY <1>15, <2>1
  <2>3. <<operations[j].ID>> = key
    BY <2>1, <2>2 DEF RowOf
  <2> QED
    BY <1>6, <1>7, <2>2, <2>3
<1>11. \A x, y \in rows : x = y
  BY <1>6, <1>7
<1>12. Cardinality(entries) <= 1
  <2>1. ASSUME NEW e \in entries, NEW f \in entries PROVE e = f
    <3>1. PICK i \in 1..n, j \in 1..n : entry[i] = e /\ entry[j] = f
      BY <1>15
    <3>2. <<operations[i].ID>> = key /\ <<operations[j].ID>> = key
      BY <1>15, <3>1 DEF RowOf
    <3>3. i = j
      BY <1>6, <3>2
    <3> QED
      BY <3>1, <3>3
  <2> HIDE DEF entries
  <2>2. CASE entries = {}
    BY <2>2, FS_EmptySet
  <2>3. ASSUME NEW e \in entries PROVE Cardinality(entries) <= 1
    <3>1. entries = {e}
      BY <2>1
    <3>2. Cardinality(entries) = 1
      BY <3>1, FS_Singleton
    <3> QED
      BY <3>2
  <2> QED
    BY <2>2, <2>3
<1>13. Lists(SetToSeq(rows), entries)
  <2> DEFINE list == SetToSeq(rows)
  <2>1. list \in Seq(rows) /\ \A x : Contains(list, x) <=> x \in rows
    BY <1>8, SetToSeqContains
  <2> HIDE DEF list, entries
  <2>2. /\ \A i \in DOMAIN list : list[i] \in rows
        /\ \A x \in rows : \E i \in DOMAIN list : list[i] = x
    BY <2>1 DEF Contains
  <2>3. \A row, e : RowOf(row, e) => Served(e) /\ row.Path = e.path /\ row.Method = MethodOf(e)
    BY DEF RowOf
  <2>4. \A i \in DOMAIN list :
          \E e \in entries : Served(e) /\ list[i].Path = e.path /\ list[i].Method = MethodOf(e)
    BY <1>9, <2>2, <2>3
  <2>5. \A e \in entries : Served(e) =>
          \E i \in DOMAIN list : list[i].Path = e.path /\ list[i].Method = MethodOf(e)
    BY <1>10, <2>2, <2>3
  <2>6. Lists(list, entries)
    BY <2>4, <2>5, ListsWhen
  <2> QED
    BY <2>6 DEF list
<1>14. \A row \in rows : <<row.ID>> = key /\ row.Capability \in Capabilities
  <2>1. \A row \in rows : <<row.ID>> = key
    BY <1>6, <1>7
  <2>2. \A row \in rows : row.Capability \in Capabilities
    BY <1>9 DEF RowOf
  <2> QED
    BY <2>1, <2>2
<1> QED
  BY <1>8, <1>12, <1>13, <1>14 DEF rows

\* An event is found exactly when the inventory lists it.
LEMMA LookupEvent ==
  ASSUME NEW inv, EventsFrom(events, inv),
         filled["events"] = Len(events), NEW key \in EventKeys
  PROVE  Lookup("events", key)[2] # {} <=>
           key[1] \in DOMAIN inv /\ Contains(inv[key[1]][key[2]], key[3])
<1> DEFINE n == Len(events)
           rows == Lookup("events", key)[2]
           there == SubSeq(Entries("events"), 1, filled["events"])
           Triple(i) == <<there[i].Surface, there[i].Direction, there[i].Type>>
           hits == {j \in DOMAIN there : Triple(j) = key}
<1>1. /\ events \in Seq(AnEvent) /\ Entries("events") = events
      /\ \A s, t : \A d \in {"client", "server"} :
           Contains(events, Event(s, d, t)) <=> s \in DOMAIN inv /\ Contains(inv[s][d], t)
  BY DEF EventsFrom, Entries
<1>2. there = events
  BY <1>1, WholeLookup
<1>3. rows = {there[i] : i \in Latest(hits)}
  BY DEF Lookup
<1>4. rows # {} <=> hits # {}
  <2> HIDE DEF hits
  <2> QED
    BY <1>3 DEF Latest
<1>5. n \in Nat /\ DOMAIN events = 1..n /\ \A i \in 1..n : events[i] \in AnEvent
  BY <1>1
<1>6. key = <<key[1], key[2], key[3]>> /\ key[2] \in {"client", "server"}
  BY LifecycleAssumption
<1>7. hits # {} <=> Contains(events, Event(key[1], key[2], key[3]))
  <2>1. \A i \in 1..n : Triple(i) = key <=> events[i] = Event(key[1], key[2], key[3])
    <3>1. ASSUME NEW i \in 1..n
          PROVE  Triple(i) = key <=> events[i] = Event(key[1], key[2], key[3])
      <4>1. PICK x \in AnEvent : x = events[i]
        BY <1>5
      <4>2. x = [Surface |-> x.Surface, Direction |-> x.Direction, Type |-> x.Type]
        BY DEF AnEvent
      <4>3. x = Event(key[1], key[2], key[3]) <=>
              x.Surface = key[1] /\ x.Direction = key[2] /\ x.Type = key[3]
        BY <4>2 DEF Event
      <4>4. Triple(i) = <<x.Surface, x.Direction, x.Type>>
        BY <1>2, <4>1
      <4> HIDE DEF Triple
      <4>5. <<x.Surface, x.Direction, x.Type>> = <<key[1], key[2], key[3]>> <=>
              x.Surface = key[1] /\ x.Direction = key[2] /\ x.Type = key[3]
        OBVIOUS
      <4> QED
        BY <1>6, <4>1, <4>3, <4>4, <4>5
    <3> QED
      BY <3>1
  <2>2. DOMAIN there = 1..n
    BY <1>2, <1>5
  <2> HIDE DEF Triple, n
  <2>3. \A j : j \in hits <=> j \in 1..n /\ events[j] = Event(key[1], key[2], key[3])
    BY <2>1, <2>2
  <2> QED
    BY <2>3 DEF Contains, n
<1> HIDE DEF rows
<1> QED
  BY <1>1, <1>4, <1>6, <1>7 DEF rows

\* The document is there as a whole, unless decoding it failed.
LEMMA LookupDocument ==
  ASSUME Built("document"), NEW key
  PROVE  Lookup("document", key) = IF specErr THEN <<"error", {}>> ELSE <<"document", {document}>>
<1>1. CASE specErr
  BY <1>1 DEF Lookup
<1>2. CASE ~specErr
  <2> DEFINE there == SubSeq(Entries("document"), 1, filled["document"])
  <2>1. Entries("document") = <<document>> /\ filled["document"] = 1
    BY <1>2 DEF Built, Entries
  <2>2. there = <<document>>
    <3>0. <<document>> \in Seq({document}) /\ Len(<<document>>) = 1
      OBVIOUS
    <3>1. PICK whole \in Seq({document}) : whole = <<document>> /\ Len(whole) = 1
      BY <3>0
    <3>2. SubSeq(whole, 1, Len(whole)) = whole
      OBVIOUS
    <3> QED
      BY <2>1, <3>1, <3>2
  <2>3. Lookup("document", key) = <<"document", {there[i] : i \in Latest({j \in DOMAIN there : TRUE})}>>
    BY <1>2 DEF Lookup
  <2> HIDE DEF there
  <2>4. {j \in DOMAIN there : TRUE} = {1}
    BY <2>2
  <2>5. Latest({1}) = {1}
    <3>1. Max({1}) = 1
      <4>1. {1} \in SUBSET Nat /\ \A m \in {1} : 1 >= m
        OBVIOUS
      <4> QED
        BY <4>1, MaxUnique
    <3> QED
      BY <3>1 DEF Latest
  <2>6. {there[i] : i \in {1}} = {document}
    BY <2>2
  <2> QED
    BY <1>2, <2>3, <2>4, <2>5, <2>6
<1> QED
  BY <1>1, <1>2

\* Whoever builds a table and however many requests wait for it, a lookup gives
\* what the document and the inventory say that the process was made from.
THEOREM LookupsMatchSpecHolds == LifecycleSpec => []LookupsMatchSpec
<1>1. LifecycleInv => LookupsMatchSpec
  <2> SUFFICES ASSUME LifecycleInv PROVE LookupsMatchSpec
    OBVIOUS
  <2>0. FilesInv /\ TableInv /\ DeployInv
    BY DEF LifecycleInv
  <2>1. ASSUME NEW g \in Goroutines, found[g][1] # "nothing"
        PROVE  /\ deployed /\ at[g] # "idle"
               /\ wanted[g].table \in Tables /\ Built(wanted[g].table)
               /\ wanted[g].table = "events" => wanted[g].key \in EventKeys
               /\ found[g] = Lookup(wanted[g].table, wanted[g].key)
    <3>1. Stands(g)
      BY <2>0 DEF TableInv
    <3>2. at[g] # "idle"
      BY <2>1, <3>1 DEF Stands, Places
    <3>3. deployed
      BY <2>0, <3>2 DEF DeployInv
    <3>4. /\ wanted[g].table \in Tables
          /\ wanted[g].table = "events" => wanted[g].key \in EventKeys
      BY <2>0, <3>2 DEF TableInv, TableTypes
    <3>5. /\ once[wanted[g].table] = "done"
          /\ found[g] = Lookup(wanted[g].table, wanted[g].key)
      BY <2>1, <3>1 DEF Stands
    <3>6. Built(wanted[g].table)
      BY <2>0, <3>4, <3>5 DEF TableInv
    <3> QED
      BY <3>2, <3>3, <3>4, <3>5, <3>6
  <2>2. deployed => /\ operations = Source.operations /\ events = Source.events
                    /\ document = Source.spec /\ OutputGood(Source)
    <3>1. "output" \in Files
      BY DEF Files
    <3> QED
      BY <2>0, <3>1 DEF DeployInv, FilesInv, FileGood, Source
  <2>3. ASSUME NEW g \in Goroutines, found[g][1] # "nothing", wanted[g].table = "operations",
               NEW key, key = wanted[g].key,
               NEW entries, entries = {e \in Source.spec : Served(e) /\ <<e.id>> = key}
        PROVE  /\ Lists(SetToSeq(found[g][2]), entries)
               /\ Cardinality(entries) <= 1
               /\ \A row \in found[g][2] : <<row.ID>> = key /\ row.Capability \in Capabilities
    <3>1. deployed /\ Built("operations") /\ found[g] = Lookup("operations", key)
      BY <2>1, <2>3
    <3>2. filled["operations"] = Len(operations)
      BY <3>1 DEF Built, Entries
    <3>3. RowsOf(operations, document) /\ document \in Specs
      BY <2>2, <3>1 DEF OutputGood
    <3>4. entries = {e \in document : Served(e) /\ <<e.id>> = key}
      BY <2>2, <2>3, <3>1
    <3> QED
      BY <3>1, <3>2, <3>3, <3>4, LookupOperation
  <2>4. ASSUME NEW g \in Goroutines, found[g][1] # "nothing", wanted[g].table = "events",
               NEW key, key = wanted[g].key
        PROVE  found[g][2] # {} <=>
                 /\ key[1] \in DOMAIN Source.inventory
                 /\ Contains(Source.inventory[key[1]][key[2]], key[3])
    <3>1. /\ deployed /\ Built("events") /\ found[g] = Lookup("events", key)
          /\ key \in EventKeys
      BY <2>1, <2>4
    <3>2. filled["events"] = Len(events)
      BY <3>1 DEF Built, Entries
    <3>3. PICK inv \in Inventories \cup {<<>>} : inv = Source.inventory
      BY <2>2, <3>1 DEF OutputGood
    <3>4. EventsFrom(events, inv)
      BY <2>2, <3>1, <3>3 DEF OutputGood
    <3>5. Lookup("events", key)[2] # {} <=>
            key[1] \in DOMAIN inv /\ Contains(inv[key[1]][key[2]], key[3])
      BY <3>1, <3>2, <3>4, LookupEvent
    <3> QED
      BY <3>1, <3>3, <3>5
  <2>5. ASSUME NEW g \in Goroutines, found[g][1] # "nothing", wanted[g].table = "document"
        PROVE  found[g] = IF specErr THEN <<"error", {}>> ELSE <<"document", {Source.spec}>>
    <3>1. deployed /\ Built("document") /\ found[g] = Lookup("document", wanted[g].key)
      BY <2>1, <2>5
    <3>2. PICK key : key = wanted[g].key
      OBVIOUS
    <3>3. Lookup("document", key) = IF specErr THEN <<"error", {}>> ELSE <<"document", {document}>>
      BY <3>1, LookupDocument
    <3> QED
      BY <2>2, <3>1, <3>2, <3>3
  <2>6. \A g \in Goroutines : found[g][1] # "nothing" =>
          wanted[g].table \in {"operations", "events", "document"}
    BY <2>1 DEF Tables
  <2> QED
    BY <2>3, <2>4, <2>5, <2>6 DEF LookupsMatchSpec
<1> QED
  BY <1>1, LifecycleInvHolds, PTL
=============================================================================
