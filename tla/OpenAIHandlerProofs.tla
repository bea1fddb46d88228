------------------------- MODULE OpenAIHandlerProofs ------------------------
(***************************************************************************)
(* Proofs about the service registry and the OpenAI handler, for any       *)
(* options in any order, any authenticators, any frozen table that keeps   *)
(* to ProfileAssumption and any request.                                   *)
(***************************************************************************)
EXTENDS Integers, OpenAIHandler, OrderLemmas

-----------------------------------------------------------------------------
(* The registry.                                                           *)

\* What the slot an option is for holds.
Slot(o) ==
  CASE o.kind = "default" -> defaultHandler
    [] o.kind = "capability" -> handlers[o.slot]
    [] OTHER -> sessions[o.slot]

\* As long as no option has failed, the registry is the options: each of them
\* is in its slot, and what is in a slot came with an option.
Accounted ==
  /\ \A o \in applied : /\ o.impl # Nil /\ o.impl = Slot(o)
                        /\ \/ o.kind = "default" /\ o.slot = Nil
                           \/ o.kind = "capability" /\ o.slot \in Capabilities
                           \/ o.kind = "session" /\ o.slot \in Surfaces
  /\ defaultHandler # Nil => Option("default", Nil, defaultHandler) \in applied
  /\ \A c \in Capabilities :
       handlers[c] # Nil => Option("capability", c, handlers[c]) \in applied
  /\ \A s \in Surfaces :
       sessions[s] # Nil => Option("session", s, sessions[s]) \in applied

RegistryInv == TypeOK /\ (phase # "failed" => Accounted)

LEMMA OptionIs ==
  ASSUME NEW kind, NEW slot, NEW impl
  PROVE  /\ Option(kind, slot, impl).kind = kind /\ Option(kind, slot, impl).slot = slot
         /\ Option(kind, slot, impl).impl = impl
  BY DEF Option

LEMMA OptionForms ==
  ASSUME NEW o \in Options
  PROVE  /\ o = Option(o.kind, o.slot, o.impl)
         /\ o.impl \in Impls \cup {Nil}
         /\ \/ o.kind = "nil"
            \/ o.kind = "default" /\ o.slot = Nil
            \/ o.kind = "capability" /\ o.slot \in Capabilities \cup Foreign
            \/ o.kind = "session" /\ o.slot \in Surfaces \cup Foreign
<1>1. \/ o = Option("nil", Nil, Nil)
      \/ \E i \in Impls \cup {Nil} : o = Option("default", Nil, i)
      \/ \E c \in Capabilities \cup Foreign, i \in Impls \cup {Nil} : o = Option("capability", c, i)
      \/ \E s \in Surfaces \cup Foreign, i \in Impls \cup {Nil} : o = Option("session", s, i)
  BY DEF Options, NilOption
<1> QED
  BY <1>1, OptionIs

LEMMA RegistryInit == Init => RegistryInv
<1> SUFFICES ASSUME Init PROVE RegistryInv
  OBVIOUS
<1>1. TypeOK
  BY DEF Init, TypeOK
<1>2. Accounted
  BY DEF Init, Accounted
<1> QED
  BY <1>1, <1>2 DEF RegistryInv

\* An option that fits fills its slot and no other.
LEMMA ApplyStep ==
  ASSUME RegistryInv, NEW o \in Options, Apply(o)
  PROVE  RegistryInv'
<1>0. TypeOK /\ Accounted
  BY DEF RegistryInv, Apply
<1>1. /\ o = Option(o.kind, o.slot, o.impl) /\ o.impl \in Impls /\ o.impl # Nil
      /\ \/ o.kind = "default" /\ o.slot = Nil /\ defaultHandler = Nil
         \/ o.kind = "capability" /\ o.slot \in Capabilities /\ handlers[o.slot] = Nil
         \/ o.kind = "session" /\ o.slot \in Surfaces /\ sessions[o.slot] = Nil
  BY OptionForms, ServicesAssumption DEF Apply, Fits
<1>2. /\ applied' = applied \cup {o} /\ phase' = phase
      /\ defaultHandler' = IF o.kind = "default" THEN o.impl ELSE defaultHandler
      /\ handlers' = IF o.kind = "capability" THEN [handlers EXCEPT ![o.slot] = o.impl] ELSE handlers
      /\ sessions' = IF o.kind = "session" THEN [sessions EXCEPT ![o.slot] = o.impl] ELSE sessions
  BY DEF Apply
<1>3. TypeOK'
  BY <1>0, <1>1, <1>2 DEF TypeOK
<1>4. \A p \in applied : p # o /\ Slot(p)' = Slot(p)
  BY <1>0, <1>1, <1>2 DEF Accounted, Slot, TypeOK
<1>5. Slot(o)' = o.impl
  BY <1>0, <1>1, <1>2 DEF Slot, TypeOK
<1>6. Accounted'
  <2>1. ASSUME NEW p \in applied'
        PROVE  /\ p.impl # Nil /\ p.impl = Slot(p)'
               /\ \/ p.kind = "default" /\ p.slot = Nil
                  \/ p.kind = "capability" /\ p.slot \in Capabilities
                  \/ p.kind = "session" /\ p.slot \in Surfaces
    BY <1>0, <1>1, <1>2, <1>4, <1>5 DEF Accounted
  <2>2. defaultHandler' # Nil => Option("default", Nil, defaultHandler') \in applied'
    BY <1>0, <1>1, <1>2 DEF Accounted
  <2>3. ASSUME NEW c \in Capabilities, handlers'[c] # Nil
        PROVE  Option("capability", c, handlers'[c]) \in applied'
    BY <1>0, <1>1, <1>2, <2>3 DEF Accounted, TypeOK
  <2>4. ASSUME NEW s \in Surfaces, sessions'[s] # Nil
        PROVE  Option("session", s, sessions'[s]) \in applied'
    BY <1>0, <1>1, <1>2, <2>4 DEF Accounted, TypeOK
  <2> QED
    BY <2>1, <2>2, <2>3, <2>4 DEF Accounted
<1> QED
  BY <1>3, <1>6 DEF RegistryInv

LEMMA RegistryStep == RegistryInv /\ [Next]_vars => RegistryInv'
<1> SUFFICES ASSUME RegistryInv, [Next]_vars PROVE RegistryInv'
  OBVIOUS
<1>1. ASSUME NEW o \in Options, GiveUp(o) PROVE RegistryInv'
  BY <1>1 DEF GiveUp, RegistryInv, TypeOK
<1>2. ASSUME Freeze \/ UNCHANGED vars PROVE RegistryInv'
  <2>1. /\ UNCHANGED <<defaultHandler, handlers, sessions, applied>>
        /\ phase' = phase \/ (phase' = "ready" /\ phase # "failed")
    BY <1>2 DEF Freeze, vars
  <2>2. TypeOK'
    BY <2>1 DEF RegistryInv, TypeOK
  <2>3. Accounted => Accounted'
    BY <2>1 DEF Accounted, Slot
  <2> QED
    BY <2>1, <2>2, <2>3 DEF RegistryInv
<1> QED
  BY <1>1, <1>2, ApplyStep DEF Next

\* What was given for a slot is what the slot holds.
LEMMA GivenIs ==
  ASSUME RegistryInv, phase # "failed"
  PROVE  /\ Given("default", Nil) = IF defaultHandler = Nil THEN {} ELSE {defaultHandler}
         /\ \A c \in Capabilities :
              Given("capability", c) = IF handlers[c] = Nil THEN {} ELSE {handlers[c]}
         /\ \A c : c \notin Capabilities => Given("capability", c) = {}
         /\ \A s \in Surfaces :
              Given("session", s) = IF sessions[s] = Nil THEN {} ELSE {sessions[s]}
<1>0. Accounted
  BY DEF RegistryInv
<1>1. \A kind, slot, impl : impl \in Given(kind, slot) <=>
        \E o \in applied : o.kind = kind /\ o.slot = slot /\ o.impl = impl
  BY DEF Given
<1>2. \A impl : impl \in Given("default", Nil) <=> impl = defaultHandler /\ impl # Nil
  BY <1>0, <1>1, OptionIs DEF Accounted, Slot
<1>3. ASSUME NEW c \in Capabilities
      PROVE  \A impl : impl \in Given("capability", c) <=> impl = handlers[c] /\ impl # Nil
  BY <1>0, <1>1, OptionIs DEF Accounted, Slot
<1>4. ASSUME NEW s \in Surfaces
      PROVE  \A impl : impl \in Given("session", s) <=> impl = sessions[s] /\ impl # Nil
  BY <1>0, <1>1, OptionIs DEF Accounted, Slot
<1>5. ASSUME NEW c, c \notin Capabilities PROVE Given("capability", c) = {}
  BY <1>0, <1>1, <1>5 DEF Accounted
<1>6. Given("default", Nil) = IF defaultHandler = Nil THEN {} ELSE {defaultHandler}
  BY <1>2
<1>7. ASSUME NEW c \in Capabilities
      PROVE  Given("capability", c) = IF handlers[c] = Nil THEN {} ELSE {handlers[c]}
  BY <1>3
<1>8. ASSUME NEW s \in Surfaces
      PROVE  Given("session", s) = IF sessions[s] = Nil THEN {} ELSE {sessions[s]}
  BY <1>4
<1> QED
  BY <1>5, <1>6, <1>7, <1>8

LEMMA RegistryGives == RegistryInv => LookupsFollowOptions
<1> SUFFICES ASSUME RegistryInv, phase = "ready"
    PROVE  /\ \A c \in Capabilities :
                {HandlerFor(c)} = IF Given("capability", c) # {} THEN Given("capability", c)
                                  ELSE IF Given("default", Nil) # {} THEN Given("default", Nil)
                                  ELSE {Nil}
           /\ \A s \in Surfaces :
                {SessionFor(s)} = IF Given("session", s) # {} THEN Given("session", s) ELSE {Nil}
           /\ \A o \in applied : /\ o.impl # Nil
                                 /\ o.slot \notin Foreign
                                 /\ \A p \in applied : o.kind = p.kind /\ o.slot = p.slot => o = p
  BY DEF LookupsFollowOptions
<1>1. ASSUME NEW c \in Capabilities
      PROVE  {HandlerFor(c)} = IF Given("capability", c) # {} THEN Given("capability", c)
                               ELSE IF Given("default", Nil) # {} THEN Given("default", Nil)
                               ELSE {Nil}
  BY GivenIs DEF HandlerFor
<1>2. ASSUME NEW s \in Surfaces
      PROVE  {SessionFor(s)} = IF Given("session", s) # {} THEN Given("session", s) ELSE {Nil}
  BY GivenIs DEF SessionFor
<1>3. ASSUME NEW o \in applied
      PROVE  o.impl # Nil /\ o.slot \notin Foreign
  BY ServicesAssumption DEF RegistryInv, Accounted
<1>4. ASSUME NEW o \in applied, NEW p \in applied, o.kind = p.kind, o.slot = p.slot
      PROVE  o = p
  <2>1. o.impl = p.impl
    BY <1>4 DEF RegistryInv, Accounted, Slot
  <2>2. o = Option(o.kind, o.slot, o.impl) /\ p = Option(p.kind, p.slot, p.impl)
    BY OptionForms DEF RegistryInv, TypeOK
  <2> QED
    BY <1>4, <2>1, <2>2
<1> QED
  BY <1>1, <1>2, <1>3, <1>4

-----------------------------------------------------------------------------
(* path.Clean.                                                             *)

\* The segments of a canonical path.  The default's is named because no prover
\* knows a literal to be in STRING.
Canonical == (STRING \cup {"v1"}) \ {"", ".", ".."}

LEMMA AppendTyped ==
  ASSUME NEW T, NEW seq \in Seq(T), NEW e \in T
  PROVE  Append(seq, e) \in Seq(T)
  OBVIOUS

LEMMA CleanSegmentType ==
  ASSUME NEW cleaned \in Seq(Canonical), NEW segment \in STRING
  PROVE  CleanSegment(cleaned, segment) \in Seq(Canonical)
<1>1. cleaned # <<>> => Front(cleaned) \in Seq(Canonical)
  BY DEF Front
<1>2. segment \notin {"", ".", ".."} => segment \in Canonical
  BY DEF Canonical
<1>3. CASE segment \in {"", "."}
  BY <1>3 DEF CleanSegment
<1>4. CASE segment = ".."
  <2>1. CleanSegment(cleaned, segment) = IF cleaned = <<>> THEN cleaned ELSE Front(cleaned)
    BY <1>4 DEF CleanSegment
  <2> QED
    BY <1>1, <2>1
<1>5. CASE segment \notin {"", ".", ".."}
  <2>1. CleanSegment(cleaned, segment) = Append(cleaned, segment)
    BY <1>5 DEF CleanSegment
  <2>3. segment \in Canonical
    BY <1>2, <1>5
  <2>2. Append(cleaned, segment) \in Seq(Canonical)
    BY <2>3, AppendTyped
  <2> QED
    BY <2>1, <2>2
<1> QED
  BY <1>3, <1>4, <1>5

\* Whatever the segments of a path, Clean leaves none that is empty, "." or
\* "..".  A least counterexample stands for the induction on the prefixes.
LEMMA CleanType ==
  ASSUME NEW path \in Seq(STRING)
  PROVE  Clean(path) \in Seq(Canonical)
<1> DEFINE n == Len(path)
           Cleans(f, k) ==
             f = [i \in 0..k |-> IF i = 0 THEN <<>> ELSE CleanSegment(f[i - 1], path[i])]
<1>0. n \in Nat
  OBVIOUS
<1>1. ASSUME NEW k \in 0..n PROVE \E f : Cleans(f, k)
  <2> DEFINE Without == {m \in 0..n : ~ \E f : Cleans(f, m)}
  <2> SUFFICES ASSUME Without # {} PROVE FALSE
    OBVIOUS
  <2>1. Without \in SUBSET Nat
    BY <1>0
  <2> HIDE DEF Without
  <2>2. PICK m \in Without : \A l \in Without : m <= l
    BY <2>1, NatMin
  <2>5. \A l : l \in Without <=> l \in 0..n /\ ~ \E f : Cleans(f, l)
    BY DEF Without
  <2>6. m \in 0..n /\ ~ \E f : Cleans(f, m)
    BY <2>5
  <2>3. CASE m = 0
    <3> DEFINE f == [i \in 0..m |-> <<>>]
    <3>1. Cleans(f, m)
      BY <2>3
    <3> QED
      BY <2>6, <3>1
  <2>4. CASE m # 0
    <3>1. m - 1 \in 0..n /\ m - 1 \notin Without
      <4> HIDE DEF n, Cleans
      <4>1. m \in Nat /\ m <= n /\ ~(m <= m - 1)
        BY <1>0, <2>6
      <4> QED
        BY <1>0, <2>2, <2>4, <4>1
    <3>2. PICK f : Cleans(f, m - 1)
      BY <2>5, <3>1
    <3> HIDE DEF n
    <3> DEFINE g == [i \in 0..m |-> IF i < m THEN f[i] ELSE CleanSegment(f[m - 1], path[m])]
    <3>3. \A i \in 0..m : g[i] = IF i = 0 THEN <<>> ELSE CleanSegment(g[i - 1], path[i])
      BY <1>0, <2>6, <3>1, <3>2
    <3>4. Cleans(g, m)
      BY <3>3
    <3> QED
      BY <2>6, <3>4
  <2> QED
    BY <2>3, <2>4
<1> DEFINE cleaned == CHOOSE f : Cleans(f, n)
<1>2. Cleans(cleaned, n)
  <2>1. n \in 0..n
    BY <1>0
  <2>2. \E f : Cleans(f, n)
    BY <1>1, <2>1
  <2> HIDE DEF Cleans
  <2> QED
    BY <2>2
<1>3. Clean(path) = cleaned[n]
  BY DEF Clean
<1> HIDE DEF cleaned
<1>4. ASSUME NEW i \in 0..n
      PROVE  cleaned[i] = IF i = 0 THEN <<>> ELSE CleanSegment(cleaned[i - 1], path[i])
  BY <1>2
<1> HIDE DEF n, Cleans
<1>5. ASSUME NEW k \in 0..n PROVE cleaned[k] \in Seq(Canonical)
  <2> DEFINE Bad == {m \in 0..n : cleaned[m] \notin Seq(Canonical)}
  <2> SUFFICES ASSUME Bad # {} PROVE FALSE
    OBVIOUS
  <2>1. Bad \in SUBSET Nat
    BY <1>0
  <2> HIDE DEF Bad
  <2>2. PICK m \in Bad : \A l \in Bad : m <= l
    BY <2>1, NatMin
  <2>7. \A l : l \in Bad <=> l \in 0..n /\ cleaned[l] \notin Seq(Canonical)
    BY DEF Bad
  <2>8. m \in 0..n /\ cleaned[m] \notin Seq(Canonical)
    BY <2>7
  <2>3. m # 0
    <3>1. cleaned[0] = <<>>
      BY <1>0, <1>4
    <3>2. <<>> \in Seq(Canonical)
      OBVIOUS
    <3> QED
      BY <2>8, <3>1, <3>2
  <2>4. m - 1 \in 0..n /\ m - 1 \notin Bad /\ m \in 1..n
    <3>1. m \in Nat /\ m <= n /\ ~(m <= m - 1)
      BY <1>0, <2>8
    <3> QED
      BY <1>0, <2>2, <2>3, <3>1
  <2>5. path[m] \in STRING
    BY <2>4 DEF n
  <2>6. cleaned[m] = CleanSegment(cleaned[m - 1], path[m])
    BY <1>4, <2>3, <2>8
  <2>9. cleaned[m - 1] \in Seq(Canonical)
    BY <2>4, <2>7
  <2> QED
    BY <2>5, <2>6, <2>8, <2>9, CleanSegmentType
<1> QED
  BY <1>0, <1>3, <1>5

-----------------------------------------------------------------------------
(* NewHandler.                                                             *)

Settings ==
  [basePath : Seq(Canonical) \ {<<>>}, maxBodyBytes : Nat \ {0},
   originPatterns : {l \in {{}} \cup OriginLists : Blank \notin l},
   authenticator : DOMAIN Principals \cup {Nil}, validate : BOOLEAN]

Statuses == {0, 101, 200, 400, 401, 404, 405, 501}

\* The authenticator in force is that of the last such option.
LastAuthenticator ==
  IF Authenticators = {} THEN settings.authenticator = Nil
  ELSE /\ settings.authenticator = given[Max(Authenticators)].value
       /\ settings.authenticator # Nil

HandlerTypes ==
  /\ stage \in {"new", "failed", "serving"}
  /\ settings \in Settings
  /\ given \in Seq(SettingOptions)
  /\ table \in Tables
  /\ request \subseteq Requests
  /\ outcome.status \in Statuses

HandlerInv ==
  /\ HandlerTypes
  /\ stage = "serving" => phase = "ready"
  /\ stage # "failed" => LastAuthenticator
  /\ request # {} => stage = "serving"

LEMMA SettingForms ==
  ASSUME NEW o \in SettingOptions
  PROVE  \/ o.field = "nil"
         \/ o.field = "validate" /\ o.value = FALSE
         \/ o.field = "basePath" /\ o.value \in BasePaths
         \/ o.field = "maxBodyBytes" /\ o.value \in BodyLimits
         \/ o.field = "originPatterns" /\ o.value \in OriginLists
         \/ o.field = "authenticator" /\ o.value \in DOMAIN Principals \cup {Nil}
  BY DEF SettingOptions, Setting

LEMMA SettingsStep ==
  ASSUME settings \in Settings, NEW o \in SettingOptions, WellFormed(o)
  PROVE  [settings EXCEPT ![o.field] =
            IF o.field = "basePath" THEN Clean(o.value.path) ELSE o.value] \in Settings
<1> DEFINE value == IF o.field = "basePath" THEN Clean(o.value.path) ELSE o.value
           next  == [settings EXCEPT ![o.field] = value]
<1> SUFFICES next \in Settings
  OBVIOUS
<1>1. CASE o.field = "validate"
  <2>1. value = FALSE /\ o.field = "validate"
    BY <1>1, SettingForms
  <2> QED
    BY <2>1 DEF Settings
<1>2. CASE o.field = "basePath"
  <2>1. /\ o.value \in BasePaths /\ value = Clean(o.value.path) /\ Clean(o.value.path) # <<>>
    BY <1>2, SettingForms DEF WellFormed
  <2>2. o.value.path \in Seq(STRING)
    BY <2>1, OpenAIAssumption
  <2>3. value \in Seq(Canonical) \ {<<>>}
    BY <2>1, <2>2, CleanType
  <2> HIDE DEF value
  <2>9. next = [settings EXCEPT !.basePath = value]
    BY <1>2
  <2> QED
    BY <2>3, <2>9 DEF Settings
<1>3. CASE o.field = "maxBodyBytes"
  <2>1. value = o.value /\ o.value \in BodyLimits /\ o.value > 0
    BY <1>3, SettingForms DEF WellFormed
  <2>2. value \in Nat \ {0}
    <3>1. o.value \in Int
      BY <2>1, OpenAIAssumption
    <3> HIDE DEF value
    <3> QED
      BY <2>1, <3>1
  <2> HIDE DEF value
  <2>9. next = [settings EXCEPT !.maxBodyBytes = value]
    BY <1>3
  <2> QED
    BY <2>2, <2>9 DEF Settings
<1>4. CASE o.field = "originPatterns"
  <2>1. value = o.value /\ o.value \in OriginLists /\ Blank \notin o.value
    BY <1>4, SettingForms DEF WellFormed
  <2> HIDE DEF value
  <2> QED
    BY <1>4, <2>1 DEF Settings
<1>5. CASE o.field = "authenticator"
  <2>1. value \in DOMAIN Principals \cup {Nil}
    BY <1>5, SettingForms DEF WellFormed
  <2> HIDE DEF value
  <2>9. next = [settings EXCEPT !.authenticator = value]
    BY <1>5
  <2> QED
    BY <2>1, <2>9 DEF Settings
<1> QED
  BY <1>1, <1>2, <1>3, <1>4, <1>5 DEF WellFormed
LEMMA HandlerInit == OpenAIInit => HandlerInv
<1> SUFFICES ASSUME OpenAIInit PROVE HandlerInv
  OBVIOUS
<1>1. <<"v1">> \in Seq(Canonical) \ {<<>>}
  <2>1. "v1" \in Canonical
    <3>1. "v1" # "" /\ "v1" # "." /\ "v1" # ".."
      OBVIOUS
    <3> QED
      BY <3>1 DEF Canonical
  <2> QED
    BY <2>1
<1>2. settings \in Settings
  BY <1>1, OpenAIAssumption DEF OpenAIInit, Settings
<1>3. HandlerTypes
  BY <1>2 DEF OpenAIInit, HandlerTypes, Refusal, Outcome, Statuses
<1>4. LastAuthenticator
  <2>1. settings.authenticator = Nil /\ DOMAIN given = {}
    BY DEF OpenAIInit
  <2>2. Authenticators = {}
    BY <2>1 DEF Authenticators
  <2> QED
    BY <2>1, <2>2 DEF LastAuthenticator
<1> QED
  BY <1>3, <1>4 DEF HandlerInv, OpenAIInit

\* The option the handler is given next is the last one: an authenticator among
\* them replaces the one before, any other option leaves it in force.
LEMMA ConfigureAuthenticator ==
  ASSUME HandlerInv, NEW o \in SettingOptions, Configure(o), WellFormed(o)
  PROVE  LastAuthenticator'
<1> DEFINE n == Len(given)
<1>1. /\ given \in Seq(SettingOptions) /\ settings \in Settings /\ LastAuthenticator
      /\ n \in Nat
  BY DEF HandlerInv, HandlerTypes, Configure
<1>2. /\ DOMAIN given = 1..n /\ DOMAIN given' = 1..(n + 1)
      /\ given'[n + 1] = o
      /\ \A i \in 1..n : given'[i] = given[i]
  BY <1>1 DEF Configure
<1>3. settings' = [settings EXCEPT ![o.field] =
                     IF o.field = "basePath" THEN Clean(o.value.path) ELSE o.value]
  BY DEF Configure
<1> HIDE DEF n
<1>4. CASE o.field = "authenticator"
  <2>1. settings'.authenticator = o.value /\ o.value # Nil
    <3>1. o.value # Nil
      BY <1>4 DEF WellFormed
    <3>2. settings' = [settings EXCEPT !.authenticator = o.value]
      BY <1>3, <1>4
    <3> QED
      BY <1>1, <3>1, <3>2 DEF Settings
  <2>2. /\ Authenticators' \in SUBSET Nat /\ n + 1 \in Authenticators'
        /\ \A i \in Authenticators' : n + 1 >= i
    BY <1>1, <1>2, <1>4 DEF Authenticators
  <2>3. Max(Authenticators') = n + 1
    BY <2>2, MaxUnique
  <2>4. Authenticators' # {} /\ given'[Max(Authenticators')].value = o.value
    BY <1>2, <2>2, <2>3
  <2> QED
    BY <2>1, <2>4 DEF LastAuthenticator
<1>5. CASE o.field # "authenticator"
  <2>1. settings'.authenticator = settings.authenticator
    BY <1>1, <1>3, <1>5 DEF Settings
  <2>2. Authenticators' = Authenticators
    BY <1>1, <1>2, <1>5 DEF Authenticators
  <2>3. Authenticators \in SUBSET (0..n)
    BY <1>1, <1>2 DEF Authenticators
  <2>4. CASE Authenticators = {}
    BY <1>1, <2>1, <2>2, <2>4 DEF LastAuthenticator
  <2>5. CASE Authenticators # {}
    <3>1. Max(Authenticators) \in Authenticators
      BY <1>1, <2>3, <2>5, MaxIs
    <3>2. Max(Authenticators) \in 1..n
      BY <1>2, <3>1 DEF Authenticators
    <3>3. given'[Max(Authenticators')].value = given[Max(Authenticators)].value
      BY <1>2, <2>2, <3>2
    <3> QED
      BY <1>1, <2>1, <2>2, <2>5, <3>3 DEF LastAuthenticator
  <2> QED
    BY <2>4, <2>5
<1> QED
  BY <1>4, <1>5

LEMMA HandlerFrame ==
  ASSUME HandlerInv, UNCHANGED <<settings, given, table>>,
         stage' = stage \/ (stage # "failed" /\ stage' \in {"failed", "serving"} /\ phase = "ready"),
         phase' = phase \/ phase # "ready",
         request' \subseteq Requests, outcome'.status \in Statuses,
         request' # {} => stage' = "serving"
  PROVE  HandlerInv'
<1>1. LastAuthenticator => LastAuthenticator'
  BY DEF LastAuthenticator, Authenticators
<1>2. HandlerTypes'
  BY DEF HandlerInv, HandlerTypes
<1> QED
  BY <1>1, <1>2 DEF HandlerInv

\* What a request is answered with.
Answer(r, result) == request' = {r} /\ outcome' = result /\ UNCHANGED frozenVars /\ stage = "serving"

LEMMA ServeForms ==
  ASSUME NEW r \in Requests, ServeHTTP(r)
  PROVE  \/ \E status \in Statuses : Answer(r, Refusal(status))
         \/ /\ Admitted(r) /\ isSession(r) /\ SessionFor(Surface(r)) # Nil
            /\ Answer(r, Outcome(101, Authenticate(r), NoOperation, NoOperation, Surface(r),
                                 SessionFor(Surface(r))))
         \/ /\ Admitted(r)
            /\ \E i \in FindRoute(r) :
                 /\ Operation(r, table[i]) # NoOperation
                 /\ HandlerFor(Operation(r, table[i]).capability) # Nil
                 /\ \E schema \in IF settings.validate
                                  THEN validationRoute(table[i], Operation(r, table[i]))
                                  ELSE {NoOperation} :
                      Answer(r, Outcome(200, Authenticate(r), Operation(r, table[i]), schema, Nil,
                                        HandlerFor(Operation(r, table[i]).capability)))
<1>0. \A result : Serve(r, result) => Answer(r, result)
  BY DEF Serve, Answer
<1>1. CASE NotFound(r) \/ Unauthorized(r)
  BY <1>0, <1>1 DEF NotFound, Unauthorized, Statuses
<1>2. CASE ServeSession(r)
  <2>1. CASE SessionFor(Surface(r)) = Nil
    BY <1>0, <1>2, <2>1 DEF ServeSession, Statuses
  <2>2. CASE SessionFor(Surface(r)) # Nil
    BY <1>0, <1>2, <2>2 DEF ServeSession
  <2> QED
    BY <2>1, <2>2
<1>3. CASE ServeREST(r)
  <2>1. CASE FindRoute(r) = {} /\ Serve(r, Refusal(IF PathKnown(r) THEN 405 ELSE 404))
    BY <1>0, <2>1 DEF Statuses
  <2>2. ASSUME NEW i \in FindRoute(r),
               \/ Serve(r, Refusal(501))
               \/ Serve(r, Refusal(400))
               \/ /\ Operation(r, table[i]) # NoOperation
                  /\ HandlerFor(Operation(r, table[i]).capability) # Nil
                  /\ \E schema \in IF settings.validate
                                   THEN validationRoute(table[i], Operation(r, table[i]))
                                   ELSE {NoOperation} :
                       Serve(r, Outcome(200, Authenticate(r), Operation(r, table[i]), schema, Nil,
                                        HandlerFor(Operation(r, table[i]).capability)))
        PROVE  \/ \E status \in Statuses : Answer(r, Refusal(status))
               \/ /\ Operation(r, table[i]) # NoOperation
                  /\ HandlerFor(Operation(r, table[i]).capability) # Nil
                  /\ \E schema \in IF settings.validate
                                   THEN validationRoute(table[i], Operation(r, table[i]))
                                   ELSE {NoOperation} :
                       Answer(r, Outcome(200, Authenticate(r), Operation(r, table[i]), schema, Nil,
                                         HandlerFor(Operation(r, table[i]).capability)))
    BY <1>0, <2>2 DEF Statuses
  <2> QED
    BY <1>3, <2>1, <2>2 DEF ServeREST
<1> QED
  BY <1>1, <1>2, <1>3 DEF ServeHTTP

LEMMA HandlerStep ==
  HandlerInv /\ [OpenAINext]_<<vars, openaiVars>> => HandlerInv'
<1> SUFFICES ASSUME HandlerInv, [OpenAINext]_<<vars, openaiVars>> PROVE HandlerInv'
  OBVIOUS
<1>0. /\ request \subseteq Requests /\ outcome.status \in Statuses
      /\ request # {} => stage = "serving"
  BY DEF HandlerInv, HandlerTypes
<1>1. CASE Next /\ UNCHANGED openaiVars
  <2>1. phase # "ready"
    BY <1>1 DEF Next, Apply, GiveUp, Freeze
  <2> QED
    BY <1>0, <1>1, <2>1, HandlerFrame DEF openaiVars
<1>2. ASSUME NEW o \in SettingOptions, Configure(o) PROVE HandlerInv'
  <2>1. CASE WellFormed(o)
    <3>1. LastAuthenticator'
      BY <1>2, <2>1, ConfigureAuthenticator
    <3>2. settings' \in Settings
      BY <1>2, <2>1, SettingsStep DEF Configure, HandlerInv, HandlerTypes
    <3>3. given' \in Seq(SettingOptions)
      BY <1>2, AppendTyped DEF Configure, HandlerInv, HandlerTypes
    <3>4. UNCHANGED <<stage, phase, table, request, outcome>>
      BY <1>2, <2>1 DEF Configure, vars
    <3> QED
      BY <3>1, <3>2, <3>3, <3>4 DEF HandlerInv, HandlerTypes
  <2>2. CASE ~WellFormed(o)
    <3>1. given' \in Seq(SettingOptions)
      BY <1>2, AppendTyped DEF Configure, HandlerInv, HandlerTypes
    <3>2. /\ stage' = "failed" /\ stage = "new"
          /\ UNCHANGED <<settings, phase, table, request, outcome>>
      BY <1>2, <2>2 DEF Configure, vars
    <3> QED
      BY <3>1, <3>2 DEF HandlerInv, HandlerTypes
  <2> QED
    BY <2>1, <2>2
<1>3. CASE BuildHandler
  <2>1. /\ phase = "ready" /\ stage = "new" /\ stage' \in {"failed", "serving"}
        /\ UNCHANGED <<phase, settings, given, table, request, outcome>>
    BY <1>3 DEF BuildHandler, vars
  <2> QED
    BY <1>0, <2>1, HandlerFrame
<1>4. ASSUME NEW r \in Requests, ServeHTTP(r) PROVE HandlerInv'
  <2>0. /\ \A status : Refusal(status).status = status
        /\ \A caller, op, schema, surface, impl :
             /\ Outcome(101, caller, op, schema, surface, impl).status \in Statuses
             /\ Outcome(200, caller, op, schema, surface, impl).status \in Statuses
    BY DEF Refusal, Outcome, Statuses
  <2>1. \E result : Answer(r, result) /\ result.status \in Statuses
    BY <1>4, <2>0, ServeForms
  <2>2. /\ UNCHANGED <<phase, stage, settings, given, table>> /\ request' = {r}
        /\ stage = "serving" /\ outcome'.status \in Statuses
    BY <2>1 DEF Answer, frozenVars, vars
  <2> QED
    BY <2>2, HandlerFrame
<1>5. CASE UNCHANGED <<vars, openaiVars>>
  <2>1. UNCHANGED <<phase, stage, settings, given, table, request, outcome>>
    BY <1>5 DEF vars, openaiVars
  <2> QED
    BY <1>0, <2>1, HandlerFrame
<1> QED
  BY <1>1, <1>2, <1>3, <1>4, <1>5 DEF OpenAINext
-----------------------------------------------------------------------------
(* One request.                                                            *)

\* What a table that keeps to ProfileAssumption is like.
LEMMA TableFacts ==
  ASSUME table \in Tables
  PROVE  /\ Len(table) \in Nat /\ DOMAIN table = 1..Len(table)
         /\ \A op : op \in Range(table) <=> \E i \in DOMAIN table : op = table[i]
         /\ \A i \in DOMAIN table : table[i].id # "" /\ table[i] # NoOperation
         /\ \A i, j \in DOMAIN table : table[i].id = table[j].id => i = j
         /\ \A i, j \in DOMAIN table :
              /\ table[i].path = table[j].path /\ table[i].method = table[j].method
              /\ table[i].required # {} /\ table[j].required # {}
              => i = j
<1>1. table \in Seq(Range(table))
  BY ProfileAssumption
<1>2. \A i \in DOMAIN table : table[i].id # ""
  BY ProfileAssumption
<1>3. \A i, j \in DOMAIN table : table[i].id = table[j].id => i = j
  BY ProfileAssumption
<1>4. ASSUME NEW i \in DOMAIN table, NEW j \in DOMAIN table,
             table[i].path = table[j].path, table[i].method = table[j].method,
             table[i].required # {}, table[j].required # {}
      PROVE  i = j
  <2>1. {} \notin {table[i].required, table[j].required}
    BY <1>4
  <2> QED
    BY <1>4, <2>1, ProfileAssumption
<1>5. \A op : op \in Range(table) <=> \E i \in DOMAIN table : op = table[i]
  BY DEF Range
<1>6. NoOperation.id = ""
  BY DEF NoOperation
<1>7. \A i \in DOMAIN table : table[i] # NoOperation
  BY <1>2, <1>6
<1>8. Len(table) \in Nat /\ DOMAIN table = 1..Len(table)
  BY <1>1
<1> QED
  BY <1>2, <1>3, <1>4, <1>5, <1>7, <1>8

\* The operation of a request is an entry of the table: the variant its query
\* satisfies, else the plain one, else the one the router matched.
LEMMA OperationIs ==
  ASSUME table \in Tables, NEW r, NEW i \in FindRoute(r)
  PROVE  LET op == Operation(r, table[i])
             candidates == {c \in Range(table) : c.method = r.method /\ c.path = Below(r)
                                                 /\ Satisfied(c, r.query)}
         IN  /\ op \in Range(table)
             /\ IF candidates = {} THEN op.full = Below(r)
                ELSE op \in candidates /\ \A c \in candidates : c.required \subseteq op.required
<1> DEFINE op == Operation(r, table[i])
           candidates == {c \in Range(table) : c.method = r.method /\ c.path = Below(r)
                                               /\ Satisfied(c, r.query)}
           here == {j \in DOMAIN table : table[j].method = r.method /\ table[j].path = Below(r)}
           plain == {j \in here : table[j].required = {}}
           variants == {j \in here \ plain : Satisfied(table[j], r.query)}
           found == OperationForRoute(r.method, Below(r), r.query)
<1>1. i \in DOMAIN table /\ table[i].full = Below(r) /\ table[i].method = r.method
  BY DEF FindRoute
<1>2. found = IF variants # {} THEN table[Min(variants)]
              ELSE IF plain # {} THEN table[Max(plain)] ELSE NoOperation
  BY DEF OperationForRoute
<1>3. op = IF found # NoOperation THEN found ELSE OperationByID(table[i].id)
  BY <1>1 DEF Operation
<1>a. \A c : c \in Range(table) <=> \E j \in DOMAIN table : c = table[j]
  BY TableFacts
<1>b. Len(table) \in Nat /\ DOMAIN table = 1..Len(table)
  BY TableFacts
<1>4. ASSUME NEW c
      PROVE  c \in candidates <=> \E j \in here : c = table[j] /\ Satisfied(c, r.query)
  <2>1. ASSUME c \in candidates
        PROVE  \E j \in here : c = table[j] /\ Satisfied(c, r.query)
    <3>1. PICK j \in DOMAIN table : c = table[j]
      BY <1>a, <2>1
    <3>2. c.method = r.method /\ c.path = Below(r) /\ Satisfied(c, r.query)
      BY <2>1
    <3> QED
      BY <3>1, <3>2
  <2>2. ASSUME NEW j \in here, c = table[j], Satisfied(c, r.query)
        PROVE  c \in candidates
    BY <1>a, <2>2
  <2> QED
    BY <2>1, <2>2
<1>5. \A j \in here : j \in plain <=> table[j].required = {}
  OBVIOUS
<1>6. \A j \in here : Satisfied(table[j], r.query) => j \in plain \/ j \in variants
  OBVIOUS
<1>7. \A j \in plain : Satisfied(table[j], r.query)
  BY DEF Satisfied
<1>8. \A j, k \in variants : j = k
  BY TableFacts
<1>9. /\ variants \in SUBSET Nat /\ plain \in SUBSET (0..Len(table))
      /\ variants \subseteq here /\ plain \subseteq here /\ here \subseteq DOMAIN table
      /\ \A j \in variants : Satisfied(table[j], r.query)
  <2>1. \A j \in DOMAIN table : j \in Nat /\ j \in 0..Len(table)
    BY <1>b
  <2> QED
    BY <2>1
<1> HIDE DEF found, op, candidates, here, plain, variants
<1>10. CASE variants # {}
  <2>1. Min(variants) \in variants
    BY <1>9, <1>10, MinIs
  <2>2. PICK k \in variants : found = table[k]
    BY <1>2, <1>10, <2>1
  <2>3. k \in here /\ k \in DOMAIN table /\ Satisfied(table[k], r.query)
    BY <1>9
  <2>4. op = table[k]
    BY <1>3, <2>2, <2>3, TableFacts
  <2>5. op \in candidates /\ op \in Range(table)
    BY <1>4, <2>3, <2>4, TableFacts
  <2>6. ASSUME NEW c \in candidates PROVE c.required \subseteq op.required
    <3>1. PICK j \in here : c = table[j] /\ Satisfied(c, r.query)
      BY <1>4
    <3>2. CASE j \in plain
      BY <1>5, <3>1, <3>2
    <3>3. CASE j \in variants
      BY <1>8, <2>4, <3>1, <3>3
    <3> QED
      BY <1>6, <3>1, <3>2, <3>3
  <2> QED
    BY <2>5, <2>6 DEF op, candidates
<1>11. CASE variants = {} /\ plain # {}
  <2>1. Max(plain) \in plain
    BY <1>9, <1>11, MaxIs, TableFacts
  <2>2. PICK k \in plain : found = table[k]
    BY <1>2, <1>11, <2>1
  <2>3. k \in here /\ k \in DOMAIN table /\ Satisfied(table[k], r.query)
    BY <1>7, <1>9
  <2>4. op = table[k]
    BY <1>3, <2>2, <2>3, TableFacts
  <2>5. op \in candidates /\ op \in Range(table)
    BY <1>4, <2>3, <2>4, TableFacts
  <2>6. ASSUME NEW c \in candidates PROVE c.required \subseteq op.required
    BY <1>4, <1>5, <1>6, <1>11
  <2> QED
    BY <2>5, <2>6 DEF op, candidates
<1>12. CASE variants = {} /\ plain = {}
  <2> DEFINE entries == {j \in DOMAIN table : table[j].id = table[i].id}
  <2>1. entries = {i}
    BY <1>1, TableFacts
  <2>2. entries \in SUBSET (0..Len(table)) /\ entries # {}
    <3>1. i \in 0..Len(table)
      BY <1>1, <1>b
    <3> QED
      BY <2>1, <3>1
  <2>3. OperationByID(table[i].id) = table[Max(entries)]
    BY <2>2 DEF OperationByID
  <2> HIDE DEF entries
  <2>4. Max(entries) = i
    BY <1>b, <2>1, <2>2, MaxIs
  <2>5. op = table[i]
    BY <1>2, <1>3, <1>12, <2>3, <2>4
  <2>6. candidates = {}
    BY <1>4, <1>6, <1>12
  <2> QED
    BY <1>1, <2>5, <2>6, TableFacts DEF op, candidates
<1> QED
  BY <1>10, <1>11, <1>12

\* An entry of the table is validated as itself.
LEMMA ValidatedAsItself ==
  ASSUME table \in Tables, NEW route, NEW op \in Range(table),
         NEW schema \in validationRoute(route, op)
  PROVE  schema = op
<1> DEFINE indexed == {entry \in Range(table) : entry.id # "" /\ entry.id = op.id}
<1>0. PICK i \in DOMAIN table : op = table[i]
  BY TableFacts
<1>1. op \in indexed
  <2>1. op.id # ""
    BY <1>0, TableFacts
  <2> QED
    BY <2>1
<1>2. schema \in Range(table) /\ schema.id = op.id
  BY <1>1 DEF validationRoute
<1>3. PICK j \in DOMAIN table : schema = table[j]
  BY <1>2, TableFacts
<1>4. i = j
  BY <1>0, <1>2, <1>3, TableFacts
<1> QED
  BY <1>0, <1>3, <1>4
-----------------------------------------------------------------------------
(* What the answer may be: one lemma per property, for the step that gives *)
(* it.                                                                     *)

Answers == OnlyKnownCallersReachBackends /\ OperationIsMostSpecific /\ ServedByTheOneConfigured

\* Nothing the properties speak of changes with the answer itself.
LEMMA AnswerFrame ==
  ASSUME NEW r, NEW result, Answer(r, result)
  PROVE  /\ request' = {r} /\ outcome' = result
         /\ Authenticators' = Authenticators /\ given' = given
         /\ settings' = settings /\ table' = table
         /\ Below(r)' = Below(r)
         /\ \A kind, slot : Given(kind, slot)' = Given(kind, slot)
<1>1. UNCHANGED <<settings, given, table, applied>>
  BY DEF Answer, frozenVars, vars
<1> QED
  BY <1>1 DEF Answer, Authenticators, Below, Given

LEMMA RefusalAnswers ==
  ASSUME NEW r, NEW status, Answer(r, Refusal(status))
  PROVE  Answers'
<1>1. outcome'.impl = Nil /\ outcome'.op = NoOperation
  BY AnswerFrame DEF Refusal, Outcome
<1> QED
  BY <1>1 DEF Answers, OnlyKnownCallersReachBackends, OperationIsMostSpecific,
              ServedByTheOneConfigured

LEMMA CallerKnown ==
  ASSUME HandlerInv, NEW r \in Requests, Admitted(r), NEW result, Answer(r, result),
         result.caller = Authenticate(r)
  PROVE  OnlyKnownCallersReachBackends'
<1>0. LastAuthenticator
  BY DEF HandlerInv, Answer
<1>1. /\ request' = {r} /\ outcome'.caller = Authenticate(r)
      /\ Authenticators' = Authenticators /\ given' = given
  BY AnswerFrame
<1> SUFFICES
      IF Authenticators = {} THEN Authenticate(r) = Anonymous
      ELSE LET accepts == Principals[given[Max(Authenticators)].value]
               carried == IF r.bearer # NoToken THEN {r.bearer}
                          ELSE Range(r.protocols) \cup {Blank}
           IN  /\ Authenticate(r) \notin {Blank, Rejected}
               /\ \E token \in carried : accepts[token] = Authenticate(r)
  BY <1>1 DEF OnlyKnownCallersReachBackends
<1>2. CASE Authenticators = {}
  BY <1>0, <1>2 DEF LastAuthenticator, Authenticate
<1>3. CASE Authenticators # {}
  <2> DEFINE accepts == Principals[settings.authenticator]
             token == credentialFromRequest(r)
  <2>1. /\ settings.authenticator = given[Max(Authenticators)].value
        /\ settings.authenticator # Nil
    BY <1>0, <1>3 DEF LastAuthenticator
  <2>2. Authenticate(r) = IF accepts[token] = Blank THEN Rejected ELSE accepts[token]
    BY <2>1 DEF Authenticate
  <2>3. Authenticate(r) # Rejected
    BY DEF Admitted
  <2>4. Authenticate(r) = accepts[token] /\ Authenticate(r) # Blank
    BY <2>2, <2>3
  <2>5. token \in IF r.bearer # NoToken THEN {r.bearer} ELSE Range(r.protocols) \cup {Blank}
    <3>1. ASSUME r.protocols # <<>> PROVE Head(r.protocols) \in Range(r.protocols)
      <4>1. r.protocols \in Seq(STRING)
        BY OpenAIAssumption
      <4>2. 1 \in DOMAIN r.protocols /\ Head(r.protocols) = r.protocols[1]
        BY <3>1, <4>1
      <4> QED
        BY <4>2 DEF Range
    <3> QED
      BY <3>1 DEF credentialFromRequest
  <2> HIDE DEF accepts, token
  <2>6. Principals[given[Max(Authenticators)].value] = accepts
    BY <2>1 DEF accepts
  <2> QED
    BY <1>3, <2>3, <2>4, <2>5, <2>6
<1> QED
  BY <1>2, <1>3

LEMMA SessionServed ==
  ASSUME RegistryInv, HandlerInv, NEW r \in Requests, isSession(r),
         NEW result, Answer(r, result),
         result.op = NoOperation, result.impl = SessionFor(Surface(r)), result.impl # Nil
  PROVE  ServedByTheOneConfigured'
<1>0. phase # "failed"
  BY DEF HandlerInv, Answer
<1>1. /\ request' = {r} /\ outcome' = result
      /\ \A kind, slot : Given(kind, slot)' = Given(kind, slot)
  BY AnswerFrame
<1>2. r.upgrade /\ Below(r) \in {<<"realtime">>, <<"responses">>}
  BY DEF isSession
<1>3. r.path \in Seq(STRING) /\ settings.basePath \in Seq(Canonical)
  BY OpenAIAssumption DEF HandlerInv, HandlerTypes, Settings
<1>4. Len(Below(r)) = 1
  BY <1>2
<1>5. Last(r.path) = Below(r)[1]
  <2> DEFINE m == Len(settings.basePath)
             n == Len(r.path)
  <2>1. m \in Nat /\ n \in Nat
    BY <1>3
  <2>2. Below(r) = SubSeq(r.path, m + 1, n)
    BY DEF Below
  <2> HIDE DEF m
  <2>3. Len(SubSeq(r.path, m + 1, n)) = IF m + 1 <= n THEN n - m ELSE 0
    BY <1>3, <2>1
  <2>4. m + 1 = n
    BY <1>4, <2>1, <2>2, <2>3
  <2>5. Below(r)[1] = r.path[n]
    BY <1>3, <2>1, <2>2, <2>4
  <2> QED
    BY <2>5 DEF Last
<1>6. Surface(r) = IF Last(r.path) = "responses" THEN "responses_websocket" ELSE "realtime"
  <2>1. CASE Below(r) = <<"responses">>
    BY <1>5, <2>1 DEF Surface
  <2>2. CASE Below(r) = <<"realtime">>
    <3>1. Below(r)[1] = "realtime" /\ <<"responses">>[1] = "responses"
      BY <2>2
    <3>2. Below(r) # <<"responses">>
      BY <3>1
    <3> QED
      BY <1>5, <3>1, <3>2 DEF Surface
  <2> QED
    BY <1>2, <2>1, <2>2
<1>7. Surface(r) \in Surfaces
  BY OpenAIAssumption DEF Surface
<1>8. {result.impl} = Given("session", Surface(r))
  BY <1>0, <1>7, GivenIs DEF SessionFor
<1> QED
  BY <1>1, <1>2, <1>6, <1>8 DEF ServedByTheOneConfigured

LEMMA CapabilityServed ==
  ASSUME RegistryInv, HandlerInv, NEW r \in Requests, NEW result, Answer(r, result),
         result.op # NoOperation, result.impl # Nil,
         result.impl = HandlerFor(result.op.capability)
  PROVE  ServedByTheOneConfigured'
<1>0. phase # "failed"
  BY DEF HandlerInv, Answer
<1>1. /\ request' = {r} /\ outcome' = result
      /\ \A kind, slot : Given(kind, slot)' = Given(kind, slot)
  BY AnswerFrame
<1> DEFINE own == Given("capability", result.op.capability)
<1>2. {result.impl} = IF own # {} THEN own ELSE Given("default", Nil)
  BY <1>0, GivenIs DEF HandlerFor
<1> QED
  BY <1>1, <1>2 DEF ServedByTheOneConfigured

LEMMA SpecificOperation ==
  ASSUME HandlerInv, NEW r \in Requests, NEW i \in FindRoute(r), NEW result, Answer(r, result),
         result.op = Operation(r, table[i]),
         settings.validate => result.schema \in validationRoute(table[i], result.op)
  PROVE  OperationIsMostSpecific'
<1> DEFINE candidates == {c \in Range(table) : c.method = r.method /\ c.path = Below(r)
                                               /\ Satisfied(c, r.query)}
<1>0. table \in Tables
  BY DEF HandlerInv, HandlerTypes
<1>1. /\ request' = {r} /\ outcome' = result /\ settings' = settings /\ table' = table
      /\ Below(r)' = Below(r)
  BY AnswerFrame
<1>2. /\ result.op \in Range(table)
      /\ IF candidates = {} THEN result.op.full = Below(r)
         ELSE /\ result.op \in candidates
              /\ \A c \in candidates : c.required \subseteq result.op.required
  BY <1>0, OperationIs
<1>3. settings.validate => result.schema = result.op
  BY <1>0, <1>2, ValidatedAsItself
<1> QED
  BY <1>1, <1>2, <1>3 DEF OperationIsMostSpecific

LEMMA AnswerStep ==
  ASSUME RegistryInv, HandlerInv, NEW r \in Requests, ServeHTTP(r)
  PROVE  Answers'
<1>1. CASE \E status \in Statuses : Answer(r, Refusal(status))
  BY <1>1, RefusalAnswers
<1>2. CASE /\ Admitted(r) /\ isSession(r) /\ SessionFor(Surface(r)) # Nil
           /\ Answer(r, Outcome(101, Authenticate(r), NoOperation, NoOperation, Surface(r),
                                SessionFor(Surface(r))))
  <2> DEFINE result == Outcome(101, Authenticate(r), NoOperation, NoOperation, Surface(r),
                               SessionFor(Surface(r)))
  <2>1. /\ result.caller = Authenticate(r) /\ result.op = NoOperation
        /\ result.impl = SessionFor(Surface(r))
    BY DEF Outcome
  <2> HIDE DEF result
  <2>2. Answer(r, result) /\ result.impl # Nil
    BY <1>2, <2>1 DEF result
  <2>3. OnlyKnownCallersReachBackends'
    BY <1>2, <2>1, <2>2, CallerKnown
  <2>4. ServedByTheOneConfigured'
    BY <1>2, <2>1, <2>2, SessionServed
  <2>5. outcome'.op = NoOperation
    BY <2>1, <2>2, AnswerFrame
  <2>6. OperationIsMostSpecific'
    BY <2>5 DEF OperationIsMostSpecific
  <2> QED
    BY <2>3, <2>4, <2>6 DEF Answers
<1>3. ASSUME Admitted(r), NEW i \in FindRoute(r), NEW schema,
             Operation(r, table[i]) # NoOperation,
             HandlerFor(Operation(r, table[i]).capability) # Nil,
             settings.validate => schema \in validationRoute(table[i], Operation(r, table[i])),
             Answer(r, Outcome(200, Authenticate(r), Operation(r, table[i]), schema, Nil,
                               HandlerFor(Operation(r, table[i]).capability)))
      PROVE  Answers'
  <2> DEFINE op == Operation(r, table[i])
             result == Outcome(200, Authenticate(r), op, schema, Nil, HandlerFor(op.capability))
  <2>1. /\ result.caller = Authenticate(r) /\ result.op = op /\ result.schema = schema
        /\ result.impl = HandlerFor(op.capability)
    BY DEF Outcome
  <2>2. Answer(r, result) /\ op # NoOperation /\ HandlerFor(op.capability) # Nil
    BY <1>3
  <2>3. settings.validate => schema \in validationRoute(table[i], op)
    BY <1>3
  <2> HIDE DEF result
  <2>4. OnlyKnownCallersReachBackends'
    BY <1>3, <2>1, <2>2, CallerKnown
  <2>5. OperationIsMostSpecific'
    BY <2>1, <2>2, <2>3, SpecificOperation
  <2>6. ServedByTheOneConfigured'
    BY <2>1, <2>2, CapabilityServed
  <2> QED
    BY <2>4, <2>5, <2>6 DEF Answers
<1>4. \A i : \A schema \in IF settings.validate
                           THEN validationRoute(table[i], Operation(r, table[i]))
                           ELSE {NoOperation} :
        settings.validate => schema \in validationRoute(table[i], Operation(r, table[i]))
  OBVIOUS
<1> QED
  BY <1>1, <1>2, <1>3, <1>4, ServeForms

-----------------------------------------------------------------------------
(* The theorems.                                                           *)

OpenAIInv == RegistryInv /\ HandlerInv /\ Answers

LEMMA OpenAIStep ==
  OpenAIInv /\ [OpenAINext]_<<vars, openaiVars>> => OpenAIInv'
<1> SUFFICES ASSUME OpenAIInv, [OpenAINext]_<<vars, openaiVars>> PROVE OpenAIInv'
  OBVIOUS
<1>0. RegistryInv /\ HandlerInv /\ Answers
  BY DEF OpenAIInv
<1>1. HandlerInv'
  BY <1>0, HandlerStep
<1>2. RegistryInv'
  <2>1. ASSUME NEW o \in SettingOptions, Configure(o) PROVE UNCHANGED vars
    BY <2>1 DEF Configure
  <2>2. BuildHandler => UNCHANGED vars
    BY DEF BuildHandler
  <2>3. ASSUME NEW r \in Requests, ServeHTTP(r) PROVE UNCHANGED vars
    BY <2>3, ServeForms DEF Answer, frozenVars
  <2>4. [Next]_vars
    BY <2>1, <2>2, <2>3 DEF OpenAINext
  <2> QED
    BY <1>0, <2>4, RegistryStep
<1>3. Answers'
  <2>1. ASSUME request' = {} PROVE Answers'
    BY <2>1 DEF Answers, OnlyKnownCallersReachBackends, OperationIsMostSpecific,
                ServedByTheOneConfigured
  <2>2. request # {} => stage = "serving" /\ phase = "ready"
    BY <1>0 DEF HandlerInv
  <2>3. CASE Next /\ UNCHANGED openaiVars
    <3>1. phase # "ready" /\ request' = request
      BY <2>3 DEF Next, Apply, GiveUp, Freeze, openaiVars
    <3> QED
      BY <2>1, <2>2, <3>1
  <2>4. ASSUME NEW o \in SettingOptions, Configure(o) PROVE Answers'
    <3>1. stage = "new" /\ request' = request
      BY <2>4 DEF Configure
    <3> QED
      BY <2>1, <2>2, <3>1
  <2>5. CASE BuildHandler
    <3>1. stage = "new" /\ request' = request
      BY <2>5 DEF BuildHandler
    <3> QED
      BY <2>1, <2>2, <3>1
  <2>6. ASSUME NEW r \in Requests, ServeHTTP(r) PROVE Answers'
    BY <1>0, <2>6, AnswerStep
  <2>7. CASE UNCHANGED <<vars, openaiVars>>
    <3>1. UNCHANGED <<applied, settings, given, table, request, outcome>>
      BY <2>7 DEF vars, openaiVars
    <3>2. OnlyKnownCallersReachBackends'
      BY <1>0, <3>1 DEF Answers, OnlyKnownCallersReachBackends, Authenticators
    <3>3. OperationIsMostSpecific'
      BY <1>0, <3>1 DEF Answers, OperationIsMostSpecific, Below
    <3>4. ServedByTheOneConfigured'
      BY <1>0, <3>1 DEF Answers, ServedByTheOneConfigured, Given
    <3> QED
      BY <3>2, <3>3, <3>4 DEF Answers
  <2> QED
    BY <2>3, <2>4, <2>5, <2>6, <2>7 DEF OpenAINext
<1> QED
  BY <1>1, <1>2, <1>3 DEF OpenAIInv

\* Whatever options NewServices and NewHandler are given, the registry and the
\* handler are what those options say, and a request is answered accordingly:
\* the inductive invariant behind the theorems that follow.
THEOREM OpenAIInvHolds == OpenAISpec => []OpenAIInv
<1>1. OpenAIInit => OpenAIInv
  <2> SUFFICES ASSUME OpenAIInit PROVE OpenAIInv
    OBVIOUS
  <2>1. RegistryInv
    BY RegistryInit DEF OpenAIInit
  <2>2. request = {}
    BY DEF OpenAIInit
  <2>3. Answers
    BY <2>2 DEF Answers, OnlyKnownCallersReachBackends, OperationIsMostSpecific,
                ServedByTheOneConfigured
  <2> QED
    BY <2>1, <2>3, HandlerInit DEF OpenAIInv
<1> QED
  BY <1>1, OpenAIStep, PTL DEF OpenAISpec

\* Every variable of the handler and its registry keeps its type, and no option
\* leaves the handler with a root or uncleaned base path, a limit that is not
\* positive or a blank origin (NewServices, NewHandler and their options).
THEOREM OpenAITypeCorrect == OpenAISpec => []OpenAITypeOK
<1>1. OpenAIInv => OpenAITypeOK
  <2> SUFFICES ASSUME OpenAIInv PROVE OpenAITypeOK
    OBVIOUS
  <2>1. TypeOK /\ HandlerTypes
    BY DEF OpenAIInv, RegistryInv, HandlerInv
  <2>2. settings \in Settings /\ given \in Seq(SettingOptions)
    BY <2>1 DEF HandlerTypes
  <2>3. settings.basePath \in Seq(Canonical) /\ settings.basePath # <<>>
    BY <2>2 DEF Settings
  <2>4. \A s \in Range(settings.basePath) : s \notin {"", ".", ".."}
    <3>1. \A s \in Range(settings.basePath) : s \in Canonical
      BY <2>3 DEF Range
    <3> QED
      BY <3>1 DEF Canonical
  <2>5. /\ settings.maxBodyBytes \in Nat \ {0} /\ Blank \notin settings.originPatterns
        /\ settings.authenticator \in DOMAIN Principals \cup {Nil}
        /\ settings.validate \in BOOLEAN
    BY <2>2 DEF Settings
  <2>6. Range(given) \subseteq SettingOptions
    BY <2>2 DEF Range
  <2> QED
    BY <2>1, <2>3, <2>4, <2>5, <2>6 DEF OpenAITypeOK, HandlerTypes, Statuses
<1> QED
  BY <1>1, OpenAIInvHolds, PTL

\* A registry that NewServices returns answers every lookup from its options
\* alone, whatever their order (HandlerFor and SessionFor).
THEOREM LookupsFollowOptionsHolds == OpenAISpec => []LookupsFollowOptions
<1>1. OpenAIInv => LookupsFollowOptions
  BY RegistryGives DEF OpenAIInv
<1> QED
  BY <1>1, OpenAIInvHolds, PTL

\* The same of the registry on its own, before any handler is built on it.
THEOREM RegistryFollowsOptions == Spec => []LookupsFollowOptions
<1> QED
  BY RegistryInit, RegistryStep, RegistryGives, PTL DEF Spec

\* No request reaches a backend unless the last authenticator configured has
\* accepted its credential and named the caller (ServeHTTP, authenticate).
THEOREM OnlyKnownCallersHolds == OpenAISpec => []OnlyKnownCallersReachBackends
<1>1. OpenAIInv => OnlyKnownCallersReachBackends
  BY DEF OpenAIInv, Answers
<1> QED
  BY <1>1, OpenAIInvHolds, PTL

\* The operation is the most specific one the request satisfies, and it is
\* validated against its own schema, for any table that keeps to
\* ProfileAssumption in any order (OperationForRoute, validationRoute).
THEOREM OperationIsMostSpecificHolds == OpenAISpec => []OperationIsMostSpecific
<1>1. OpenAIInv => OperationIsMostSpecific
  BY DEF OpenAIInv, Answers
<1> QED
  BY <1>1, OpenAIInvHolds, PTL

\* Who serves a request is decided by the options alone (the REST and WebSocket
\* handlers' lookups in the registry).
THEOREM ServedByTheOneConfiguredHolds == OpenAISpec => []ServedByTheOneConfigured
<1>1. OpenAIInv => ServedByTheOneConfigured
  BY DEF OpenAIInv, Answers
<1> QED
  BY <1>1, OpenAIInvHolds, PTL
=============================================================================
