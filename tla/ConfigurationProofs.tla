------------------------ MODULE ConfigurationProofs ------------------------
(***************************************************************************)
(* Theorems about Configuration for any schema, any values, any file that  *)
(* satisfies the schema, and any number of edits, saves, failures and      *)
(* restarts: the settings are typed, and the file implements SettingsStore.*)
(***************************************************************************)
EXTENDS Configuration, SequenceTheorems, FiniteSetTheorems, TLAPS

-----------------------------------------------------------------------------
(* What is on its way.                                                     *)

\* Settings as they may be read.
Configs == {c \in Dicts : \A k \in DOMAIN c : c[k] \in Readable(Kind[k])}

\* What a widget may give.
Given(kind) == {Shown(kind, v) : v \in Readable(kind)} \cup Entered(kind)

\* What the form may send of a field.
Sendable(kind) == Given(kind) \ {Text("")}

SetsOf(k)    == {Set(k, v) : v \in Sendable(Kind[k])}
ChangesOf(k) == {Changed(k, v) : v \in Typed(Kind[k])}

Ask     == {Get(Owner, TRUE)}
Request == {Get(Viewer, FALSE)} \cup UNION {SetsOf(k) : k \in Keys}
Answer  == {Response(u, c) : u \in Users, c \in Configs} \cup UNION {ChangesOf(k) : k \in Keys}
News    == Answer \cup {Refused(k) : k \in Keys}

\* One setting changed, or the defaults where there was nothing; and what is published
\* of it.
OneStep(before, data, answer) ==
  \/ before = Nothing /\ data = Defaults /\ \E u \in Users : answer = Response(u, Defaults)
  \/ \E k \in Keys : \E v \in Typed(Kind[k]) :
       /\ data = [i \in DOMAIN before \cup {k} |-> IF i = k THEN v ELSE before[i]]
       /\ answer = Changed(k, v)

Write(d, b, m) == [data |-> d, before |-> b, answer |-> {m}]

\* A write makes one step of what was in the file.
Stored ==
  /\ file \in Configs
  /\ \/ writing = NotWriting
     \/ /\ file = Nothing
        /\ \E d \in Configs, b \in Configs, m \in Answer :
             writing = Write(d, b, m) /\ OneStep(b, d, m)

\* The form has what widgets give.
Filled ==
  /\ DOMAIN fields \subseteq Keys /\ \A k \in DOMAIN fields : fields[k] \in Given(Kind[k])
  /\ marked \subseteq DOMAIN fields /\ DOMAIN original = DOMAIN fields
  /\ doubtful \subseteq Keys

Asked ==
  /\ DOMAIN requests = Users
  /\ requests[Owner] \in Seq(Ask) /\ requests[Viewer] \in Seq(Request)
Posted == Asked /\ news \in [Users -> Seq(News)]

\* Before the module has registered its schema nobody changes anything: nothing is
\* written, and the form is not there.
Unregistered ==
  ~ registered =>
    /\ writing = NotWriting /\ requests[Viewer] = <<>> /\ news[Viewer] = <<>>
    /\ fields = Nothing /\ tab = "none" /\ slots = <<>> /\ ~ uiStarted

Inv == Stored /\ Filled /\ Posted /\ registered \in BOOLEAN /\ Unregistered

-----------------------------------------------------------------------------
(* Values.                                                                 *)

(* What satisfies the schema may be read. *)
LEMMA TypedIsReadable ==
  ASSUME NEW k \in Keys, NEW v \in Typed(Kind[k])
  PROVE  v \in Readable(Kind[k])
<1>1. Kind[k] \in Kinds
  BY KindAssumption
<1> USE DEF Typed, Readable, Texts
<1>2. CASE Kind[k] = "int"
  BY <1>2
<1>3. CASE Kind[k] = "bool"
  BY <1>3
<1>4. CASE Kind[k] = "enum"
  BY <1>4
<1>5. CASE Kind[k] = "string"
  BY <1>5
<1>6. CASE Kind[k] = "optional"
  BY <1>6
<1>7. QED
  BY <1>1, <1>2, <1>3, <1>4, <1>5, <1>6 DEF Kinds

\* So may what is left of it.
LEMMA CutIsReadable ==
  ASSUME NEW k \in Keys, NEW v \in Readable(Kind[k]), NEW w \in Cut(v)
  PROVE  w \in Readable(Kind[k])
<1>1. Kind[k] \in Kinds
  BY KindAssumption
<1>2. \A t \in Texts \cup Words : Beginnings[t] \subseteq Texts
  BY WrittenAssumption
<1>3. \/ w = v \/ w = None
      \/ v.type = "int" /\ \E t \in Rests(v) : w = Number(t)
      \/ v.type # "int" /\ \E t \in Rests(v) : w = Text(t)
  BY DEF Cut
<1>4. /\ \A t : Number(t).type = "int" /\ Number(t).of = t
      /\ \A t : Text(t).type = "text" /\ Text(t).of = t
      /\ \A t : Bool(t).type = "bool" /\ Bool(t).of = t
      /\ None.type = "none" /\ Message.type = "message"
  BY DEF Number, Text, Bool, None, Message
<1>5. /\ \A t \in Texts : Rests(Number(t)) \subseteq Texts /\ Rests(Text(t)) \subseteq Texts
      /\ \A t \in Words : Rests(Bool(t)) \subseteq Texts
      /\ Rests(None) = {} /\ Rests(Message) = {}
  BY <1>2, <1>4 DEF Rests
<1>6. CASE Kind[k] = "int"
  <2>1. Readable(Kind[k]) = {Number(t) : t \in Texts} \cup {None}
    BY <1>6 DEF Readable
  <2>2. QED
    BY <1>3, <1>4, <1>5, <2>1
<1>7. CASE Kind[k] = "bool"
  <2>1. Readable(Kind[k]) = {Bool(t) : t \in Words} \cup {Text(t) : t \in Texts} \cup {None}
    BY <1>7 DEF Readable, Typed
  <2>2. QED
    BY <1>3, <1>4, <1>5, <2>1
<1>8. CASE Kind[k] \in {"enum", "string"}
  <2>1. Readable(Kind[k]) = {Text(t) : t \in Texts} \cup {None}
    BY <1>8 DEF Readable
  <2>2. QED
    BY <1>3, <1>4, <1>5, <2>1
<1>9. CASE Kind[k] = "optional"
  <2>1. Readable(Kind[k]) = {Message, None}
    BY <1>9 DEF Readable, Typed
  <2>2. QED
    BY <1>3, <1>5, <2>1
<1>10. QED
  BY <1>1, <1>6, <1>7, <1>8, <1>9 DEF Kinds

\* Settings may be read when each of them may.
LEMMA ConfigIsReadable ==
  ASSUME NEW c, DOMAIN c \subseteq Keys, c = [k \in DOMAIN c |-> c[k]],
         \A k \in DOMAIN c : c[k] \in Readable(Kind[k])
  PROVE  c \in Configs
<1>1. \A k \in DOMAIN c : c[k] \in UNION {Readable(Kind[j]) : j \in Keys}
  OBVIOUS
<1>2. c \in [DOMAIN c -> UNION {Readable(Kind[j]) : j \in Keys}]
  BY <1>1
<1>3. DOMAIN c \in SUBSET Keys
  OBVIOUS
<1>4. c \in Dicts
  BY <1>2, <1>3 DEF Dicts
<1>5. QED
  BY <1>4 DEF Configs

\* Each of them may when they may.
LEMMA ReadableConfig ==
  ASSUME NEW c \in Configs
  PROVE  /\ DOMAIN c \subseteq Keys /\ c = [k \in DOMAIN c |-> c[k]]
         /\ \A k \in DOMAIN c : c[k] \in Readable(Kind[k])
<1>1. PICK ks \in SUBSET Keys : c \in [ks -> UNION {Readable(Kind[j]) : j \in Keys}]
  BY DEF Configs, Dicts
<1>2. QED
  BY <1>1 DEF Configs

\* What a widget gives is stored as a value of its kind, or refused.
LEMMA CoercedIsTyped ==
  ASSUME NEW k \in Keys, NEW v \in Sendable(Kind[k]), Coerced(Kind[k], v) # Rejected
  PROVE  Coerced(Kind[k], v) \in Typed(Kind[k])
<1>1. Kind[k] \in Kinds
  BY KindAssumption
<1>2. (CHOOSE c \in Typed("enum") : TRUE) \in Typed("enum")
  BY TextAssumption DEF Typed
<1>3. v # Text("") /\ (v \in Entered(Kind[k]) \/ \E x \in Readable(Kind[k]) : v = Shown(Kind[k], x))
  BY DEF Sendable, Given
<1>4. CASE Kind[k] = "string"
  <2>1. Typed(Kind[k]) = {Text(t) : t \in Texts} /\ Readable(Kind[k]) = {Text(t) : t \in Texts} \cup {None}
    BY <1>4 DEF Typed, Readable
  <2>2. Entered(Kind[k]) = Typed(Kind[k]) \cup {Text("")}
    BY <1>4 DEF Entered
  <2>3. ASSUME NEW x \in Readable(Kind[k]), v = Shown(Kind[k], x) PROVE v \in Typed(Kind[k])
    <3>1. v = Text(x.of)
      BY <1>4, <2>3 DEF Shown
    <3>2. x = None => v = Text("")
      <4>1. None.of = ""
        BY DEF None
      <4>2. QED
        BY <3>1, <4>1
    <3>3. \A t : x = Text(t) => v = Text(t)
      <4>1. \A t : Text(t).of = t
        BY DEF Text
      <4>2. QED
        BY <3>1, <4>1
    <3>4. QED
      BY <1>3, <2>1, <3>2, <3>3
  <2>4. v \in Typed(Kind[k])
    BY <1>3, <2>2, <2>3
  <2>5. Coerced(Kind[k], v) = v
    BY <1>4, <2>1, <2>4 DEF Coerced, Text
  <2>6. QED
    BY <2>4, <2>5
<1> USE DEF Sendable, Given, Shown, Entered, Readable, Typed, Coerced, Number, Bool, Text,
            Message, None, Words, Rejected
<1>5. CASE Kind[k] = "int"
  BY <1>5
<1>6. CASE Kind[k] = "bool"
  BY <1>6
<1>7. CASE Kind[k] = "enum"
  BY <1>2, <1>7
<1>8. CASE Kind[k] = "optional"
  BY <1>8
<1>9. QED
  BY <1>1, <1>4, <1>5, <1>6, <1>7, <1>8 DEF Kinds

\* The defaults, what is installed, and nothing at all may be read.
LEMMA GivenConfigs == {Defaults, Installed, Nothing} \subseteq Configs
<1>1. Defaults \in Configs
  <2>1. \A k \in DOMAIN Defaults : Defaults[k] \in Readable(Kind[k])
    BY DefaultsAssumption, TypedIsReadable
  <2>2. QED
    BY <2>1, DefaultsAssumption, ConfigIsReadable
<1>2. Installed \in Configs
  <2>1. \A k \in DOMAIN Installed : Installed[k] \in Readable(Kind[k])
    BY DefaultsAssumption, TypedIsReadable
  <2>2. QED
    BY <2>1, DefaultsAssumption, ConfigIsReadable
<1>3. Nothing \in Configs
  <2>1. DOMAIN Nothing = {} /\ Nothing = [k \in DOMAIN Nothing |-> Nothing[k]]
    BY DEF Nothing
  <2>2. QED
    BY <2>1, ConfigIsReadable
<1>4. QED
  BY <1>1, <1>2, <1>3

\* And settings of which one has been given a new value.
LEMMA WithIsReadable ==
  ASSUME file \in Configs, NEW k \in Keys, NEW v \in Typed(Kind[k])
  PROVE  With(k, v) \in Configs
<1>1. /\ DOMAIN file \subseteq Keys
      /\ \A i \in DOMAIN file : file[i] \in Readable(Kind[i])
  BY ReadableConfig
<1>2. DOMAIN With(k, v) = DOMAIN file \cup {k}
  BY DEF With
<1>3. \A i \in DOMAIN With(k, v) : With(k, v)[i] = IF i = k THEN v ELSE file[i]
  BY DEF With
<1>4. With(k, v) = [i \in DOMAIN With(k, v) |-> With(k, v)[i]]
  BY DEF With
<1>5. \A i \in DOMAIN With(k, v) : With(k, v)[i] \in Readable(Kind[i])
  BY <1>1, <1>2, <1>3, TypedIsReadable
<1>6. QED
  BY <1>1, <1>2, <1>4, <1>5, ConfigIsReadable

\* And what is left of settings that have been written in part.
LEMMA TornIsReadable ==
  ASSUME NEW c \in Configs, NEW t \in Torn(c)
  PROVE  t \in Configs
<1>1. DOMAIN c \subseteq Keys /\ \A k \in DOMAIN c : c[k] \in Readable(Kind[k])
  BY ReadableConfig
<1>2. CASE t = Nothing
  BY <1>2, GivenConfigs
<1>3. CASE t # Nothing
  <2>1. PICK last \in DOMAIN c : \E v \in Cut(c[last]) : t = UpTo(c, last, v)
    BY <1>3 DEF Torn
  <2>2. PICK v \in Cut(c[last]) : t = UpTo(c, last, v)
    BY <2>1
  <2>3. v \in Readable(Kind[last])
    <3>1. last \in Keys /\ c[last] \in Readable(Kind[last])
      BY <1>1
    <3>2. QED
      BY <3>1, CutIsReadable
  <2>4. \A k \in DOMAIN t : k \in DOMAIN c /\ t[k] = IF k = last THEN v ELSE c[k]
    BY <2>2 DEF UpTo
  <2>5. t = [k \in DOMAIN t |-> t[k]]
    BY <2>2 DEF UpTo
  <2>6. QED
    BY <1>1, <2>3, <2>4, <2>5, ConfigIsReadable
<1>4. QED
  BY <1>2, <1>3

-----------------------------------------------------------------------------
(* Messages.                                                               *)

\* A set is config_ui's, and has what a widget gives.
LEMMA SetsAreGiven ==
  ASSUME Asked, NEW u \in Users, HasRequest(u, "set")
  PROVE  u = Viewer /\ \E k \in Keys : \E v \in Sendable(Kind[k]) : Head(requests[u]) = Set(k, v)
<1>1. CASE u = Owner
  <2>1. Head(requests[Owner]) \in Ask
    BY <1>1 DEF Asked, HasRequest
  <2>2. QED
    BY <1>1, <2>1 DEF Ask, Get, HasRequest
<1>2. CASE u = Viewer
  <2>1. Head(requests[Viewer]) \in Request
    BY <1>2 DEF Asked, HasRequest
  <2>2. Head(requests[Viewer]).type = "set"
    BY <1>2 DEF HasRequest
  <2>3. Head(requests[Viewer]) \in UNION {SetsOf(k) : k \in Keys}
    BY <2>1, <2>2 DEF Request, Get
  <2>4. PICK k \in Keys : Head(requests[Viewer]) \in SetsOf(k)
    BY <2>3
  <2>5. QED
    BY <1>2, <2>4 DEF SetsOf
<1>3. QED
  BY <1>1, <1>2 DEF Users

\* The module asks with its schema, config_ui without it.
LEMMA GetsHaveTheirSchema ==
  ASSUME Asked, NEW u \in Users, HasRequest(u, "get")
  PROVE  Head(requests[u]) = Get(u, u = Owner)
<1>1. CASE u = Owner
  <2>1. Head(requests[Owner]) \in Ask
    BY <1>1 DEF Asked, HasRequest
  <2>2. (u = Owner) = TRUE
    BY <1>1
  <2>3. QED
    BY <1>1, <2>1, <2>2 DEF Ask
<1>2. CASE u = Viewer
  <2>1. Head(requests[Viewer]) \in Request
    BY <1>2 DEF Asked, HasRequest
  <2>2. Head(requests[Viewer]).type = "get"
    BY <1>2 DEF HasRequest
  <2>3. Head(requests[Viewer]) = Get(Viewer, FALSE)
    <3>1. SUFFICES ASSUME NEW k \in Keys, Head(requests[Viewer]) \in SetsOf(k) PROVE FALSE
      BY <2>1 DEF Request
    <3>2. QED
      BY <2>2, <3>1 DEF SetsOf, Set
  <2>4. (u = Owner) = FALSE
    BY <1>2, UsersAssumption
  <2>5. QED
    BY <1>2, <2>3, <2>4
<1>3. QED
  BY <1>1, <1>2 DEF Users

\* Publishing a message of the manager leaves its mail in order.
LEMMA PublishKeeps ==
  ASSUME news \in [Users -> Seq(News)], NEW m \in News, Publish(m)
  PROVE  news' \in [Users -> Seq(News)]
<1>1. \A u \in Users : Append(news[u], m) \in Seq(News)
  OBVIOUS
<1>2. QED
  BY <1>1 DEF Publish

(* Taking a request off its queue leaves the others as they are. *)
LEMMA ReceiveKeeps ==
  ASSUME Asked, NEW u \in Users, requests[u] # <<>>, Receive(u)
  PROVE  Asked'
<1>1. /\ DOMAIN requests' = Users
      /\ \A v \in Users : requests'[v] = IF v = u THEN Tail(requests[u]) ELSE requests[v]
  BY DEF Receive, Asked
<1>2. CASE u = Owner
  <2>1. Tail(requests[Owner]) \in Seq(Ask)
    BY <1>2 DEF Asked
  <2>2. requests'[Owner] = Tail(requests[Owner]) /\ requests'[Viewer] = requests[Viewer]
    BY <1>1, <1>2, UsersAssumption DEF Users
  <2>3. QED
    BY <1>1, <2>1, <2>2 DEF Asked
<1>3. CASE u = Viewer
  <2>1. Tail(requests[Viewer]) \in Seq(Request)
    BY <1>3 DEF Asked
  <2>2. requests'[Viewer] = Tail(requests[Viewer]) /\ requests'[Owner] = requests[Owner]
    BY <1>1, <1>3, UsersAssumption DEF Users
  <2>3. QED
    BY <1>1, <2>1, <2>2 DEF Asked
<1>4. QED
  BY <1>2, <1>3 DEF Users

(* A module sends requests of the shape that config_manager handles. *)
LEMMA AskKeeps ==
  ASSUME Asked, NEW ms \in Seq(Ask), Send(Owner, ms)
  PROVE  Asked'
<1>1. requests[Owner] \o ms \in Seq(Ask)
  BY DEF Asked
<1>2. /\ DOMAIN requests' = Users
      /\ requests'[Owner] = requests[Owner] \o ms /\ requests'[Viewer] = requests[Viewer]
  BY UsersAssumption DEF Send, Asked, Users
<1>3. QED
  BY <1>1, <1>2 DEF Asked

(* config_ui sends requests of the shape that config_manager handles. *)
LEMMA RequestKeeps ==
  ASSUME Asked, NEW ms \in Seq(Request), Send(Viewer, ms)
  PROVE  Asked'
<1>1. requests[Viewer] \o ms \in Seq(Request)
  BY DEF Asked
<1>2. /\ DOMAIN requests' = Users
      /\ requests'[Viewer] = requests[Viewer] \o ms /\ requests'[Owner] = requests[Owner]
  BY UsersAssumption DEF Send, Asked, Users
<1>3. QED
  BY <1>1, <1>2 DEF Asked

(* Taking a message off its queue leaves the others as they are. *)
LEMMA TakeNewsKeeps ==
  ASSUME news \in [Users -> Seq(News)], NEW u \in Users, news[u] # <<>>, TakeNews(u)
  PROVE  news' \in [Users -> Seq(News)]
BY DEF TakeNews

\* What the manager sends as the settings may be read.
LEMMA ResponsesAreReadable ==
  ASSUME news \in [Users -> Seq(News)], NEW u \in Users, HasNews(u, "response")
  PROVE  Head(news[u]).config \in Configs
<1>1. Head(news[u]) \in News /\ Head(news[u]).type = "response"
  BY DEF HasNews
<1>2. Head(news[u]) \in {Response(w, c) : w \in Users, c \in Configs}
  BY <1>1 DEF News, Answer, ChangesOf, Changed, Refused
<1>3. QED
  BY <1>2 DEF Response

-----------------------------------------------------------------------------
(* The writes.                                                             *)

\* A value that is accepted begins a write of that setting.
LEMMA SetBegins ==
  ASSUME Inv, NEW u \in Users, HandleSet(u)
  PROVE  /\ u = Viewer /\ writing = NotWriting /\ file' = Nothing
         /\ \E k \in Keys : \E v :
              /\ Head(requests[Viewer]) = Set(k, v) /\ Coerced(Kind[k], v) \in Typed(Kind[k])
              /\ writing' = Write(With(k, Coerced(Kind[k], v)), file,
                                   Changed(k, Coerced(Kind[k], v)))
<1>1. /\ u = Viewer
      /\ \E k \in Keys : \E v \in Sendable(Kind[k]) : Head(requests[u]) = Set(k, v)
  BY SetsAreGiven DEF Inv, Posted, HandleSet
<1>2a. PICK k \in Keys : \E v :
           v \in Sendable(Kind[k]) /\ Head(requests[u]) = Set(k, v)
  BY <1>1
<1>2. PICK v :
           v \in Sendable(Kind[k]) /\ Head(requests[u]) = Set(k, v)
  BY <1>2a
<1>3. registered
  BY <1>1 DEF Inv, Unregistered, HandleSet, HasRequest
<1>4. Checked(Set(k, v)) = Coerced(Kind[k], v)
  BY <1>3 DEF Checked, Set
<1>5. /\ Coerced(Kind[k], v) # Rejected
      /\ BeginWrite(With(k, Coerced(Kind[k], v)), Changed(k, Coerced(Kind[k], v)))
  BY <1>2, <1>4 DEF HandleSet, Set
<1>6. Coerced(Kind[k], v) \in Typed(Kind[k])
  BY <1>2, <1>5, CoercedIsTyped
<1>7. writing = NotWriting
  BY DEF HandleSet, HasRequest, Idle
<1>8. QED
  BY <1>1, <1>2, <1>5, <1>6, <1>7 DEF BeginWrite, Write

\* A write of the settings has as its answer what the manager may send.
LEMMA WriteIsStored ==
  ASSUME NEW d \in Configs, NEW b \in Configs, NEW m \in Answer, OneStep(b, d, m),
         file' = Nothing, writing' = Write(d, b, m)
  PROVE  Stored'
<1>1. file' \in Configs
  BY GivenConfigs
<1>2. \E x \in Configs, y \in Configs, z \in Answer : writing' = Write(x, y, z) /\ OneStep(y, x, z)
  OBVIOUS
<1>3. QED
  BY <1>1, <1>2 DEF Stored

\* What is written is a setting more than what was there, or the defaults.
LEMMA StoredSet ==
  ASSUME Inv, NEW u \in Users, HandleSet(u)
  PROVE  Stored'
<1>1a. PICK k \in Keys : \E v :
           /\ v \in Typed(Kind[k]) /\ writing = NotWriting /\ file' = Nothing
           /\ writing' = Write(With(k, v), file, Changed(k, v))
  BY SetBegins
<1>1. PICK v :
           /\ v \in Typed(Kind[k]) /\ writing = NotWriting /\ file' = Nothing
           /\ writing' = Write(With(k, v), file, Changed(k, v))
  BY <1>1a
<1>2. file \in Configs
  BY DEF Inv, Stored
<1>3. With(k, v) \in Configs
  BY <1>1, <1>2, WithIsReadable
<1>4. Changed(k, v) \in Answer
  BY <1>1 DEF Answer, ChangesOf
<1>5. OneStep(file, With(k, v), Changed(k, v))
  BY <1>1 DEF OneStep, With
<1>6. QED
  BY <1>1, <1>2, <1>3, <1>4, <1>5, WriteIsStored

(* A module that is new gets a file of its defaults, which are valid. *)
LEMMA StoredSeed ==
  ASSUME Inv, NEW u \in Users, SeedDefaults(u)
  PROVE  Stored'
<1>1. /\ file = Nothing /\ file' = Nothing
      /\ writing' = Write(Defaults, file, Response(u, Defaults))
  BY DEF SeedDefaults, BeginWrite, Write
<1>2. Defaults \in Configs /\ Nothing \in Configs
  BY GivenConfigs
<1>3. Response(u, Defaults) \in Answer
  BY <1>2 DEF Answer
<1>4. OneStep(file, Defaults, Response(u, Defaults))
  BY <1>1 DEF OneStep
<1>5. QED
  BY <1>1, <1>2, <1>3, <1>4, WriteIsStored

\* At its end it is in the file, or the beginning of it, or the file is as it was.
LEMMA StoredEnd ==
  ASSUME Inv, EndWrite \/ WriteFails
  PROVE  Stored'
<1>1. /\ writing # NotWriting /\ writing' = NotWriting
      /\ file' \in {writing.data, writing.before} \cup Torn(writing.data)
  BY DEF EndWrite, WriteFails, Idle
<1>2. PICK d \in Configs, b \in Configs, m \in Answer : writing = Write(d, b, m)
  BY <1>1 DEF Inv, Stored
<1>3. file' \in Configs
  BY <1>1, <1>2, TornIsReadable DEF Write
<1>4. QED
  BY <1>1, <1>3 DEF Stored

\* Nobody but the manager touches the file.
LEMMA StoredSame ==
  ASSUME Stored, file' = file, writing' = writing
  PROVE  Stored'
<1>1. CASE writing = NotWriting
  <2>1. file' \in Configs /\ writing' = NotWriting
    BY <1>1 DEF Stored
  <2>2. QED
    BY <2>1 DEF Stored
<1>2. CASE writing # NotWriting
  <2>1. PICK d \in Configs, b \in Configs, m \in Answer :
          writing = Write(d, b, m) /\ OneStep(b, d, m)
    BY <1>2 DEF Stored
  <2>2. file' = Nothing /\ writing' = Write(d, b, m)
    BY <1>2, <2>1 DEF Stored
  <2>3. QED
    BY <2>1, <2>2, WriteIsStored
<1>3. QED
  BY <1>1, <1>2

(* Every step leaves what may be read in the file and in the write under way. *)
LEMMA StoredStep ==
  ASSUME Inv, [Next]_vars
  PROVE  Stored'
<1>1. Stored
  BY DEF Inv
<1>2. CASE Manage
  <2>1. CASE \E u \in Users : HandleGet(u)
    BY <1>1, <2>1, StoredSame DEF HandleGet
  <2>2. QED
    BY <1>2, <2>1, StoredEnd, StoredSeed, StoredSet DEF Manage
<1>3. CASE FailedWrite
  BY <1>3, StoredEnd DEF FailedWrite
<1>4. CASE Restart
  <2>1. /\ writing' = NotWriting
        /\ Idle => file' = file
        /\ ~ Idle => file' \in Torn(writing.data)
    BY <1>4 DEF Restart, ManagerRestart
  <2>2. file' \in Configs
    <3>1. CASE Idle
      BY <1>1, <2>1, <3>1 DEF Stored
    <3>2. CASE ~ Idle
      <4>1. writing.data \in Configs
        BY <1>1, <3>2 DEF Stored, Idle, Write
      <4>2. QED
        BY <2>1, <3>2, <4>1, TornIsReadable
    <3>3. QED
      BY <3>1, <3>2
  <2>3. QED
    BY <2>1, <2>2 DEF Stored
<1>5. CASE Refusal
  BY <1>1, <1>5, StoredSame DEF Refusal, RefuseSet, manager
<1>6. CASE Client
  BY <1>1, <1>6, StoredSame DEF Client, AskConfig, LoadConfig, ApplyChange, manager
<1>7. CASE Window \/ SaveBlocked \/ Save \/ \E k \in Keys : Edit(k)
  BY <1>1, <1>7, StoredSame DEF Window, Populate, MarkError, SaveBlocked, Save, Edit, manager
<1>8. CASE Reload \/ AddTab \/ Listing \/ RefreshAll
  BY <1>1, <1>8, StoredSame DEF Reload, AddTab, RequestConfig, Listing, RefreshAll, manager
<1>9. CASE UNCHANGED vars
  BY <1>1, <1>9, StoredSame DEF vars, manager
<1>10. QED
  BY <1>2, <1>3, <1>4, <1>5, <1>6, <1>7, <1>8, <1>9 DEF Next

-----------------------------------------------------------------------------
(* The form.                                                               *)

\* An edit leaves a field with what its widget can give.
LEMMA FilledEdit ==
  ASSUME Filled, NEW k \in Keys, Edit(k)
  PROVE  Filled'
<1>1. PICK v \in Entered(Kind[k]) : fields' = [fields EXCEPT ![k] = v]
  BY DEF Edit
<1>2. v \in Given(Kind[k])
  BY DEF Given
<1>3. /\ DOMAIN fields' = DOMAIN fields
      /\ \A i \in DOMAIN fields : fields'[i] = IF i = k THEN v ELSE fields[i]
  BY <1>1
<1>4. \A i \in DOMAIN fields' : fields'[i] \in Given(Kind[i])
  BY <1>2, <1>3 DEF Filled
<1>5. UNCHANGED <<original, marked, doubtful>>
  BY DEF Edit, history
<1>6. QED
  BY <1>3, <1>4, <1>5 DEF Filled

\* The form shows stored values as its widgets give them.
LEMMA FilledPopulate ==
  ASSUME Filled, news \in [Users -> Seq(News)], Populate
  PROVE  Filled'
<1>1. PICK c \in Configs : original' = c /\ fields' = [k \in DOMAIN c |-> Shown(Kind[k], c[k])]
  BY ResponsesAreReadable DEF Populate, Hears, Users
<1>2. DOMAIN c \subseteq Keys /\ \A k \in DOMAIN c : c[k] \in Readable(Kind[k])
  BY ReadableConfig
<1>3. DOMAIN fields' = DOMAIN c /\ \A k \in DOMAIN c : fields'[k] = Shown(Kind[k], c[k])
  BY <1>1
<1>4. \A k \in DOMAIN fields' : fields'[k] \in Given(Kind[k])
  BY <1>2, <1>3 DEF Given
<1>5. marked' = {} /\ doubtful' = doubtful
  BY DEF Populate, history
<1>6. QED
  BY <1>1, <1>2, <1>3, <1>4, <1>5 DEF Filled

(* Every step leaves values in the form that its widgets can show. *)
LEMMA FilledStep ==
  ASSUME Inv, [Next]_vars
  PROVE  Filled'
<1>1. Filled /\ Posted
  BY DEF Inv
<1>2. CASE \E k \in Keys : Edit(k)
  BY <1>1, <1>2, FilledEdit
<1>3. CASE Populate
  BY <1>1, <1>3, FilledPopulate DEF Posted
<1>4. CASE Save
  <2>1. /\ fields' = fields /\ marked' = {} /\ doubtful' \subseteq doubtful \cup ToSave
        /\ DOMAIN original' = DOMAIN original
    BY <1>4 DEF Save, Recorded
  <2>2. ToSave \subseteq DOMAIN fields
    BY DEF ToSave
  <2>3. QED
    BY <1>1, <2>1, <2>2 DEF Filled
<1>5. CASE SaveBlocked
  <2>1. Missing \subseteq DOMAIN fields
    BY DEF Missing
  <2>2. QED
    BY <1>1, <1>5, <2>1 DEF Filled, SaveBlocked, history
<1>6. CASE MarkError
  BY <1>1, <1>6 DEF Filled, MarkError, history
<1>7. CASE Refusal
  <2>1. PICK u \in Users :
          RefuseSet(u) /\ doubtful' = doubtful \cup {Head(requests[u]).key} /\ UNCHANGED form
    BY <1>7 DEF Refusal
  <2>2. Head(requests[u]).key \in Keys
    <3>1. HasRequest(u, "set") /\ Asked
      BY <1>1, <2>1 DEF Posted, RefuseSet
    <3>2. \E k \in Keys : \E v \in Sendable(Kind[k]) : Head(requests[u]) = Set(k, v)
      BY <3>1, SetsAreGiven
    <3>3. QED
      BY <3>2 DEF Set
  <2>3. QED
    BY <1>1, <2>1, <2>2 DEF Filled, form
<1>8. CASE FailedWrite \/ Reload \/ AddTab
  BY <1>1, <1>8 DEF Filled, FailedWrite, Reload, AddTab, RequestConfig, form
<1>9. CASE Restart
  BY <1>9 DEF Filled, Restart, Nothing, NoFields
<1>10. CASE Manage \/ Client
  BY <1>1, <1>10 DEF Filled, Manage, Client, AskConfig, LoadConfig, ApplyChange, form, history
<1>11. CASE Listing \/ RefreshAll
  BY <1>1, <1>11 DEF Filled, Listing, RefreshAll, form, history
<1>12. CASE UNCHANGED vars
  BY <1>1, <1>12 DEF Filled, vars, form, history
<1>13. QED
  BY <1>2, <1>3, <1>4, <1>5, <1>6, <1>7, <1>8, <1>9, <1>10, <1>11, <1>12 DEF Next, Window

-----------------------------------------------------------------------------
(* The mail.                                                               *)

\* The changed fields of a form in which nothing is missing are sendable, in
\* whatever order.
LEMMA SavesAreRequests ==
  ASSUME Filled, Missing = {}, NEW order \in Orders(ToSave)
  PROVE  /\ SetMessages(order) \in Seq(Request)
         /\ ToSave = {} => SetMessages(order) = <<>>
<1>1. IsFiniteSet(ToSave)
  <2>1. ToSave \subseteq Keys
    BY DEF ToSave, Filled
  <2>2. QED
    BY <2>1, KindAssumption, FS_Subset
<1>2. Cardinality(ToSave) \in Nat /\ (ToSave = {} => Cardinality(ToSave) = 0)
  BY <1>1, FS_CardinalityType, FS_EmptySet
<1>3. PICK n \in Nat : n = Cardinality(ToSave)
  BY <1>2
<1>4. order \in [1..n -> ToSave]
  BY <1>3 DEF Orders
<1>5. \A k \in ToSave : Set(k, fields[k]) \in Request
  <2>1. TAKE k \in ToSave
  <2>2. k \in Keys /\ fields[k] \in Sendable(Kind[k])
    BY DEF ToSave, Filled, Sendable, Missing
  <2>3. Set(k, fields[k]) \in SetsOf(k)
    BY <2>2 DEF SetsOf
  <2>4. QED
    BY <2>2, <2>3 DEF Request
<1>6. SetMessages(order) \in [1..n -> Request]
  BY <1>4, <1>5 DEF SetMessages
<1>7. SetMessages(order) \in Seq(Request)
  BY <1>6, SeqDef
<1>8. ASSUME ToSave = {} PROVE SetMessages(order) = <<>>
  <2>1. n = 0
    BY <1>2, <1>3, <1>8
  <2>2. Len(SetMessages(order)) = 0
    BY <1>6, <1>7, <2>1
  <2>3. QED
    BY <1>7, <2>2
<1>9. QED
  BY <1>7, <1>8

\* What the manager sends at the end of a write is one of its messages.
LEMMA EndIsNews ==
  ASSUME Inv, EndWrite \/ WriteFails
  PROVE  news' \in [Users -> Seq(News)]
<1>1. news \in [Users -> Seq(News)]
  BY DEF Inv, Posted
<1>2. writing # NotWriting
  BY DEF EndWrite, WriteFails, Idle
<1>3. PICK d \in Configs, b \in Configs, m \in Answer : writing = Write(d, b, m)
  BY <1>2 DEF Inv, Stored
<1>4. writing.answer = {m}
  BY <1>3 DEF Write
<1>5. CASE Publish(m)
  BY <1>1, <1>5, PublishKeeps DEF News
<1>6. CASE m.type = "response" /\ Publish(Response(m.to, Nothing))
  <2>1. m \in {Response(u, c) : u \in Users, c \in Configs}
    BY <1>6 DEF Answer, ChangesOf, Changed
  <2>2. m.to \in Users
    BY <2>1 DEF Response
  <2>3. Response(m.to, Nothing) \in News
    BY <2>2, GivenConfigs DEF News, Answer
  <2>4. QED
    BY <1>1, <1>6, <2>3, PublishKeeps
<1>7. CASE UNCHANGED news
  BY <1>1, <1>7
<1>8. QED
  BY <1>4, <1>5, <1>6, <1>7 DEF EndWrite, WriteFails

(* config_manager sends messages of the three shapes, with valid values. *)
LEMMA PostedManage ==
  ASSUME Inv, Manage \/ FailedWrite \/ Refusal
  PROVE  Posted'
<1>1. Asked /\ news \in [Users -> Seq(News)] /\ file \in Configs
  BY DEF Inv, Posted, Stored
<1>2. ASSUME NEW u \in Users, HandleGet(u) PROVE Posted'
  <2>1. Response(u, file) \in News
    BY <1>1 DEF News, Answer
  <2>2. Receive(u) /\ requests[u] # <<>> /\ Publish(Response(u, file))
    BY <1>2 DEF HandleGet, HasRequest
  <2>3. QED
    BY <1>1, <2>1, <2>2, ReceiveKeeps, PublishKeeps DEF Posted
<1>3. ASSUME NEW u \in Users, SeedDefaults(u) \/ HandleSet(u) PROVE Posted'
  <2>1. Receive(u) /\ requests[u] # <<>> /\ UNCHANGED news
    BY <1>3 DEF SeedDefaults, HandleSet, HasRequest
  <2>2. QED
    BY <1>1, <2>1, ReceiveKeeps DEF Posted
<1>4. CASE EndWrite \/ WriteFails
  <2>1. UNCHANGED requests
    BY <1>4 DEF EndWrite, WriteFails
  <2>2. QED
    BY <1>1, <1>4, <2>1, EndIsNews DEF Posted, Asked
<1>5. CASE Refusal
  <2>1. PICK u \in Users : RefuseSet(u)
    BY <1>5 DEF Refusal
  <2>2. HasRequest(u, "set") /\ requests[u] # <<>>
    BY <2>1 DEF RefuseSet, HasRequest
  <2>3. \E k \in Keys : \E v \in Sendable(Kind[k]) : Head(requests[u]) = Set(k, v)
    BY <1>1, <2>2, SetsAreGiven
  <2>4. Head(requests[u]).key \in Keys
    BY <2>3 DEF Set
  <2>5. Refused(Head(requests[u]).key) \in News
    BY <2>4 DEF News
  <2>6. Receive(u) /\ Publish(Refused(Head(requests[u]).key))
    BY <2>1 DEF RefuseSet
  <2>7. QED
    BY <1>1, <2>2, <2>5, <2>6, ReceiveKeeps, PublishKeeps DEF Posted
<1>6. QED
  BY <1>2, <1>3, <1>4, <1>5 DEF Manage, FailedWrite

(* Every step leaves on the bus only messages of the known shapes. *)
LEMMA PostedStep ==
  ASSUME Inv, [Next]_vars
  PROVE  Posted'
<1>1. Asked /\ news \in [Users -> Seq(News)]
  BY DEF Inv, Posted
<1>2. CASE Manage \/ FailedWrite \/ Refusal
  BY <1>2, PostedManage
<1>3. CASE AskConfig
  <2>1. <<Get(Owner, TRUE)>> \in Seq(Ask)
    BY DEF Ask
  <2>2. QED
    BY <1>1, <1>3, <2>1, AskKeeps DEF AskConfig, Posted
<1>4. CASE LoadConfig \/ ApplyChange \/ Populate \/ MarkError
  <2>1. UNCHANGED requests /\ \E u \in Users : news[u] # <<>> /\ TakeNews(u)
    BY <1>4 DEF LoadConfig, ApplyChange, Populate, MarkError, Hears, HasNews, Users
  <2>2. QED
    BY <1>1, <2>1, TakeNewsKeeps DEF Posted, Asked
<1>5. CASE Save
  <2>1. PICK order \in Orders(ToSave) : Send(Viewer, SetMessages(order))
    BY <1>5 DEF Save
  <2>2. SetMessages(order) \in Seq(Request)
    BY <1>5, SavesAreRequests DEF Inv, Save
  <2>3. QED
    BY <1>1, <1>5, <2>1, <2>2, RequestKeeps DEF Save, Posted
<1>6. CASE Reload \/ AddTab
  <2>1. <<Get(Viewer, FALSE)>> \in Seq(Request)
    BY DEF Request
  <2>2. Send(Viewer, <<Get(Viewer, FALSE)>>) /\ UNCHANGED news
    BY <1>6 DEF Reload, AddTab, RequestConfig
  <2>3. QED
    BY <1>1, <2>1, <2>2, RequestKeeps DEF Posted
<1>7. CASE Restart
  <2>1. requests' = [u \in Users |-> <<>>] /\ news' = [u \in Users |-> <<>>]
    BY <1>7 DEF Restart, ManagerRestart
  <2>2. QED
    BY <2>1 DEF Posted, Asked, Users
<1>8. CASE SaveBlocked \/ (\E k \in Keys : Edit(k)) \/ Listing \/ RefreshAll \/ UNCHANGED vars
  BY <1>1, <1>8 DEF Posted, Asked, SaveBlocked, Edit, Listing, RefreshAll, vars, mail
<1>9. QED
  BY <1>2, <1>3, <1>4, <1>5, <1>6, <1>7, <1>8 DEF Next, Client, Window

-----------------------------------------------------------------------------
(* Before the schema is registered.                                        *)

\* Whoever asks first for settings has its schema with it.
LEMMA NothingBeforeTheSchema ==
  ASSUME Inv, Manage \/ FailedWrite \/ Refusal, ~ registered
  PROVE  registered' \/ (UNCHANGED <<writing, requests, news>>)
<1>1. writing = NotWriting /\ requests[Viewer] = <<>> /\ Asked
  BY DEF Inv, Unregistered, Posted
<1>2. ~ EndWrite /\ ~ WriteFails
  BY <1>1 DEF EndWrite, WriteFails, Idle
<1>3. \A u \in Users : ~ HasRequest(u, "set")
  BY <1>1, SetsAreGiven DEF HasRequest
<1>4. ASSUME NEW u \in Users, HandleGet(u) \/ SeedDefaults(u) PROVE registered'
  <2>1. HasRequest(u, "get") /\ (Head(requests[u]).schema => registered')
    BY <1>4 DEF HandleGet, SeedDefaults
  <2>2. u = Owner
    BY <1>1, <2>1 DEF HasRequest, Users
  <2>3. Head(requests[u]) = Get(u, TRUE)
    BY <1>1, <2>1, <2>2, GetsHaveTheirSchema
  <2>4. QED
    BY <2>1, <2>3 DEF Get
<1>5. QED
  BY <1>2, <1>3, <1>4 DEF Manage, FailedWrite, Refusal, RefuseSet, HandleSet

(* Every step keeps it that nothing is written or shown before the module has registered. *)
LEMMA UnregisteredStep ==
  ASSUME Inv, [Next]_vars
  PROVE  Unregistered'
<1>1. SUFFICES ASSUME ~ registered' PROVE Unregistered'
  BY DEF Unregistered
<1>2. CASE Restart
  BY <1>2 DEF Unregistered, Restart, ManagerRestart, NoFields, Users
<1>3. CASE ~ Restart
  <2>1. CASE registered
    <3>1. CASE Manage \/ FailedWrite
      BY <1>1, <2>1, <3>1 DEF Manage, FailedWrite, EndWrite, HandleGet, SeedDefaults, HandleSet,
                               WriteFails
    <3>2. CASE Refusal \/ Client \/ Window \/ SaveBlocked \/ Save \/ \E k \in Keys : Edit(k)
      BY <1>1, <2>1, <3>2 DEF Refusal, RefuseSet, Client, AskConfig, LoadConfig, ApplyChange,
           Window, Populate, MarkError, SaveBlocked, Save, Edit, manager
    <3>3. CASE Reload \/ AddTab \/ Listing \/ RefreshAll \/ UNCHANGED vars
      BY <1>1, <2>1, <3>3 DEF Reload, AddTab, RequestConfig, Listing, RefreshAll, vars, manager
    <3>4. QED
      BY <1>3, <3>1, <3>2, <3>3 DEF Next
  <2>2. CASE ~ registered
    <3>1. /\ writing = NotWriting /\ requests[Viewer] = <<>> /\ news[Viewer] = <<>>
          /\ fields = Nothing /\ tab = "none" /\ slots = <<>> /\ ~ uiStarted
          /\ Asked /\ Filled /\ news \in [Users -> Seq(News)]
      BY <2>2 DEF Inv, Unregistered, Posted
    <3>2. CASE (Manage \/ FailedWrite \/ Refusal) /\ UNCHANGED moduleList
      <4>1. UNCHANGED <<writing, requests, news>>
        BY <1>1, <2>2, <3>2, NothingBeforeTheSchema
      <4>2. UNCHANGED <<fields, tab, slots, uiStarted>>
        BY <3>2 DEF Manage, FailedWrite, Refusal, form, moduleList, messages
      <4>3. QED
        BY <3>1, <4>1, <4>2 DEF Unregistered
    <3>3. CASE Client /\ UNCHANGED moduleList
      <4>1. CASE AskConfig
        <5>1. requests'[Viewer] = requests[Viewer]
          BY <3>1, <4>1, UsersAssumption DEF AskConfig, Send, Users
        <5>2. QED
          BY <3>1, <3>3, <4>1, <5>1
          DEF AskConfig, manager, form, moduleList, messages, Unregistered
      <4>2. CASE LoadConfig \/ ApplyChange
        <5>1. news'[Viewer] = news[Viewer] /\ UNCHANGED <<writing, requests, fields>>
          BY <3>1, <4>2, UsersAssumption
          DEF LoadConfig, ApplyChange, TakeNews, manager, form, Users
        <5>2. QED
          BY <3>1, <3>3, <5>1 DEF moduleList, messages, Unregistered
      <4>3. QED
        BY <3>3, <4>1, <4>2 DEF Client
    <3>4. ~ Window
      BY <3>1 DEF Window, Populate, MarkError, Hears, HasNews
    <3>5. CASE (SaveBlocked \/ Save \/ \E k \in Keys : Edit(k)) /\ UNCHANGED moduleList
      <4>1. Missing = {} /\ ToSave = {} /\ \A k \in Keys : k \notin DOMAIN fields
        BY <3>1 DEF Missing, ToSave, Nothing
      <4>2. Save /\ UNCHANGED moduleList
        BY <3>5, <4>1 DEF SaveBlocked, Edit
      <4>3. PICK order \in Orders(ToSave) : Send(Viewer, SetMessages(order))
        BY <4>2 DEF Save
      <4>4. SetMessages(order) = <<>>
        BY <3>1, <4>1, SavesAreRequests
      <4>5. requests'[Viewer] = <<>>
        BY <3>1, <4>3, <4>4 DEF Send, Asked, Users
      <4>6. QED
        BY <3>1, <4>2, <4>5 DEF Save, manager, moduleList, messages, Unregistered
    <3>6. ~ Reload /\ ~ AddTab
      BY <3>1 DEF Reload, AddTab, NewTab
    <3>7. CASE Listing
      <4>1. UNCHANGED <<writing, requests, news, fields>>
        BY <3>7 DEF Listing, manager, mail, form
      <4>2. UNCHANGED <<tab, slots, uiStarted>>
        <5>1. OpenWindow \/ AnswerList \/ HearList \/ ProcessExits
          BY <2>2, <3>1, <3>7 DEF Listing, UpdateTab
        <5>2. QED
          BY <3>1, <5>1 DEF OpenWindow, AnswerList, HearList, ProcessExits, messages
      <4>3. QED
        BY <3>1, <4>1, <4>2 DEF Unregistered
    <3>8. CASE RefreshAll
      BY <3>1, <3>8 DEF RefreshAll, AskList, manager, mail, form, Unregistered
    <3>9. CASE UNCHANGED vars
      BY <3>1, <3>9 DEF vars, manager, mail, form, moduleList, messages, Unregistered
    <3>10. QED
      BY <1>3, <3>2, <3>3, <3>4, <3>5, <3>6, <3>7, <3>8, <3>9 DEF Next
  <2>3. QED
    BY <2>1, <2>2
<1>4. QED
  BY <1>2, <1>3

-----------------------------------------------------------------------------
(* The settings are always typed.                                          *)

(* The base invariant holds at the start. *)
LEMMA InitInv == Init => Inv
<1> SUFFICES ASSUME Init PROVE Inv
  OBVIOUS
<1>1. Stored
  BY GivenConfigs DEF Init, ManagerInit, Stored
<1>2. Filled
  BY DEF Init, FormInit, NoFields, Nothing, Filled
<1>3. Posted
  BY DEF Init, ManagerInit, Posted, Asked, Users
<1>4. registered \in BOOLEAN /\ Unregistered
  BY DEF Init, ManagerInit, FormInit, ListInit, NoFields, Unregistered, Users
<1>5. QED
  BY <1>1, <1>2, <1>3, <1>4 DEF Inv

(* Whether the module is registered stays a Boolean. *)
LEMMA RegisteredStep ==
  ASSUME Inv, [Next]_vars
  PROVE  registered' \in BOOLEAN
<1>1. registered \in BOOLEAN
  BY DEF Inv
<1>2. CASE Manage \/ Refusal
  <2>1. CASE \E u \in Users : HandleGet(u) \/ SeedDefaults(u)
    BY <1>1, <2>1, Zenon DEF HandleGet, SeedDefaults
  <2>2. CASE EndWrite \/ Refusal \/ \E u \in Users : HandleSet(u)
    BY <1>1, <2>2 DEF EndWrite, HandleSet, Refusal, RefuseSet, manager
  <2>3. QED
    BY <1>2, <2>1, <2>2 DEF Manage
<1>3. CASE FailedWrite \/ Restart
  BY <1>1, <1>3 DEF FailedWrite, WriteFails, Restart, ManagerRestart
<1>4. CASE Client \/ Window \/ SaveBlocked \/ Save \/ \E k \in Keys : Edit(k)
  BY <1>1, <1>4 DEF Client, AskConfig, LoadConfig, ApplyChange, Window, Populate, MarkError,
                    SaveBlocked, Save, Edit, manager
<1>5. CASE Reload \/ AddTab \/ Listing \/ RefreshAll \/ UNCHANGED vars
  BY <1>1, <1>5 DEF Reload, AddTab, RequestConfig, Listing, RefreshAll, vars, manager
<1>6. QED
  BY <1>2, <1>3, <1>4, <1>5 DEF Next

(* The base invariant, on which the three theorems rest. *)
LEMMA Invariance == Spec => []Inv
<1>1. Inv /\ [Next]_vars => Inv'
  BY StoredStep, FilledStep, PostedStep, RegisteredStep, UnregisteredStep DEF Inv
<1>2. QED
  BY InitInv, <1>1, PTL DEF Spec

\* Until a write fails or is cut off, what is stored and what is being written
\* satisfies the schema.
ValidInv == ~ spoilt => Valid(file) /\ Valid(writing.data) /\ Valid(writing.before)

(* Every step keeps it. *)
LEMMA ValidStep ==
  ASSUME Inv, ValidInv, [Next]_vars
  PROVE  ValidInv'
<1> SUFFICES ASSUME ~ spoilt'
             PROVE  Valid(file') /\ Valid(writing'.data) /\ Valid(writing'.before)
  BY DEF ValidInv, Valid
<1>1. Valid(Nothing) /\ Valid(Defaults)
  BY DefaultsAssumption DEF Valid, Nothing
<1>2. Valid(NotWriting.data) /\ Valid(NotWriting.before)
  BY <1>1 DEF NotWriting
<1>3. CASE UNCHANGED <<file, writing, spoilt>>
  BY <1>3 DEF ValidInv
<1>4. CASE Manage
  <2>1. Valid(file) /\ Valid(writing.data)
    BY <1>4 DEF ValidInv, Manage, history
  <2>2. CASE EndWrite
    BY <1>2, <2>1, <2>2 DEF EndWrite
  <2>3. CASE \E u \in Users : HandleGet(u)
    BY <1>3, <1>4, <2>3 DEF HandleGet, Manage, history
  <2>4. CASE \E u \in Users : SeedDefaults(u)
    <3>1. file' = Nothing /\ writing'.data = Defaults /\ writing'.before = file
      BY <2>4 DEF SeedDefaults, BeginWrite
    <3>2. QED
      BY <1>1, <2>1, <3>1
  <2>5. ASSUME NEW u \in Users, HandleSet(u)
        PROVE  Valid(file') /\ Valid(writing'.data) /\ Valid(writing'.before)
    <3>1. PICK k \in Keys : \E v :
             /\ v \in Typed(Kind[k]) /\ file' = Nothing
             /\ writing' = Write(With(k, v), file, Changed(k, v))
      BY <2>5, SetBegins
    <3>2. PICK v :
             /\ v \in Typed(Kind[k]) /\ file' = Nothing
             /\ writing' = Write(With(k, v), file, Changed(k, v))
      BY <3>1
    <3>3. Valid(With(k, v))
      BY <2>1, <3>2 DEF Valid, With
    <3>4. QED
      BY <1>1, <2>1, <3>2, <3>3 DEF Write
  <2>6. QED
    BY <1>4, <2>2, <2>3, <2>4, <2>5 DEF Manage
<1>5. CASE FailedWrite
  BY <1>5 DEF FailedWrite
<1>6. CASE Restart
  <2>1. ~ spoilt /\ Idle /\ file' = file /\ writing' = NotWriting
    BY <1>6 DEF Restart, ManagerRestart
  <2>2. QED
    BY <1>2, <2>1 DEF ValidInv
<1>7. CASE Refusal
  BY <1>3, <1>7 DEF Refusal, RefuseSet, manager
<1>8. CASE Client
  BY <1>3, <1>8 DEF Client, AskConfig, LoadConfig, ApplyChange, manager, history
<1>9. CASE Window \/ SaveBlocked \/ Save \/ \E k \in Keys : Edit(k)
  BY <1>3, <1>9 DEF Window, Populate, MarkError, SaveBlocked, Save, Edit, manager, history
<1>10. CASE Reload \/ AddTab \/ Listing \/ RefreshAll
  BY <1>3, <1>10 DEF Reload, AddTab, RequestConfig, Listing, RefreshAll, manager, history
<1>11. CASE UNCHANGED vars
  BY <1>3, <1>11 DEF vars, manager, history
<1>12. QED
  BY <1>4, <1>5, <1>6, <1>7, <1>8, <1>9, <1>10, <1>11 DEF Next

(* It holds from the start. *)
LEMMA ValidInvariance == Spec => []ValidInv
<1>1. Init => ValidInv
  BY DefaultsAssumption DEF Init, ManagerInit, ValidInv, Valid, NotWriting, Nothing
<1>2. Inv /\ ValidInv /\ [Next]_vars => ValidInv'
  BY ValidStep
<1>3. QED
  BY <1>1, <1>2, Invariance, PTL DEF Spec

\* What is stored and on its way to the file satisfies the schema, whatever the module
\* and the user send, until a write fails or is cut off; from then on it is what may be
\* read of such settings (config_manager, on_config_set(), _save_config(); config_ui,
\* _on_save()).
THEOREM SettingsTypeCorrect == Spec => []TypeOK
<1>1. Inv /\ ValidInv => TypeOK
  <2> SUFFICES ASSUME Inv, ValidInv PROVE TypeOK
    OBVIOUS
  <2>1. file \in Configs
    BY DEF Inv, Stored
  <2>2. writing.data \in Configs
    BY GivenConfigs DEF Inv, Stored, NotWriting, Write
  <2>3. Configs \subseteq Dicts
    BY DEF Configs
  <2>4. QED
    BY <2>1, <2>2, <2>3 DEF Inv, ValidInv, Filled, TypeOK
<1>2. QED
  BY Invariance, ValidInvariance, <1>1, PTL

-----------------------------------------------------------------------------
(* The file implements the store.                                          *)

(* The abstract store has the values and the types of the detailed one. *)
LEMMA StoreIsTheSame ==
  /\ Store!Nothing = Nothing
  /\ \A kind : Store!Typed(kind) = Typed(kind)
  /\ \A c : Store!Torn(c) = Torn(c)
<1> USE DEF Store!Nothing, Nothing, Store!None, None, Store!Number, Number, Store!Text, Text
<1>1. Store!Nothing = Nothing
  OBVIOUS
<1>2. \A kind : Store!Typed(kind) = Typed(kind)
  BY DEF Store!Typed, Typed, Store!Bool, Bool, Store!Words, Words, Store!Message, Message,
         Store!Texts, Texts
<1>3. \A v : Store!Cut(v) = Cut(v)
  <2>1. \A v : Store!Rests(v) = Rests(v)
    BY DEF Store!Rests, Rests
  <2>2. QED
    BY <2>1 DEF Store!Cut, Cut
<1>4. \A c : Store!Torn(c) = Torn(c)
  <2>1. \A c, last, v : Store!UpTo(c, last, v) = UpTo(c, last, v)
    BY DEF Store!UpTo, UpTo
  <2>2. QED
    BY <1>1, <1>3, <2>1 DEF Store!Torn, Torn
<1>5. QED
  BY <1>1, <1>2, <1>4

\* A write of what OneStep allows is a step of the store, if it is finished and if not.
LEMMA WriteIsAStep ==
  ASSUME NEW b, NEW d, NEW m, OneStep(b, d, m), Settled = b
  PROVE  /\ Settled' = d /\ UNCHANGED spoilt => Store!Next
         /\ Settled' \in {b} \cup Torn(d) /\ spoilt' = TRUE => Store!Next
<1>1. CASE b = Nothing /\ d = Defaults
  BY <1>1, StoreIsTheSame DEF Store!Next, Store!Seed, Store!SpoilSeed
<1>2. CASE \E k \in Keys : \E v \in Typed(Kind[k]) :
            d = [i \in DOMAIN b \cup {k} |-> IF i = k THEN v ELSE b[i]]
  <2>1. PICK k \in Keys : \E v \in Store!Typed(Kind[k]) : d = Store!With(k, v)
    BY <1>2, StoreIsTheSame DEF Store!With
  <2>2. PICK v \in Store!Typed(Kind[k]) : d = Store!With(k, v)
    BY <2>1
  <2>3. Torn(d) = Store!Torn(Store!With(k, v))
    BY <2>2, StoreIsTheSame
  <2>4. Settled' = d => Store!Set(k, v)
    BY <2>2 DEF Store!Set
  <2>5. Settled' \in Torn(d) => Store!SpoilSet(k, v)
    BY <2>3 DEF Store!SpoilSet
  <2>6. QED
    BY <2>2, <2>4, <2>5 DEF Store!Next
<1>3. QED
  BY <1>1, <1>2 DEF OneStep

\* What the file is worth makes a step of the store, or none.
LEMMA StoreStep ==
  ASSUME Inv, [Next]_vars
  PROVE  [Store!Next]_<<Settled, spoilt>>
<1>1. Stored
  BY DEF Inv
<1>2. ASSUME UNCHANGED <<file, writing, spoilt>> PROVE UNCHANGED <<Settled, spoilt>>
  BY <1>2 DEF Settled, Idle
<1>3. CASE Manage /\ \E u \in Users : HandleSet(u) \/ SeedDefaults(u)
  <2>1. Idle /\ writing'.before = file /\ writing' # NotWriting
    <3>1. PICK data, m : BeginWrite(data, m)
      BY <1>3 DEF HandleSet, SeedDefaults
    <3>2. Idle
      BY <1>3 DEF HandleSet, SeedDefaults, HasRequest
    <3>3. writing'.before = file /\ m \in writing'.answer
      BY <3>1 DEF BeginWrite
    <3>4. QED
      BY <3>2, <3>3 DEF NotWriting
  <2>2. Settled' = file /\ Settled = file
    BY <2>1 DEF Settled, Idle
  <2>3. QED
    BY <1>3, <2>2 DEF Manage, history
<1>4. CASE (Manage /\ EndWrite) \/ FailedWrite
  <2>1. writing # NotWriting /\ writing' = NotWriting
    BY <1>4 DEF EndWrite, FailedWrite, WriteFails, Idle
  <2>2. PICK d \in Configs, b \in Configs, m \in Answer :
          writing = Write(d, b, m) /\ OneStep(b, d, m)
    BY <1>1, <2>1 DEF Stored
  <2>3. Settled = b /\ Settled' = file'
    BY <2>1, <2>2 DEF Settled, Idle, Write
  <2>4. CASE Manage /\ EndWrite
    BY <2>2, <2>3, <2>4, WriteIsAStep DEF EndWrite, Manage, history, Write
  <2>5. CASE FailedWrite
    BY <2>2, <2>3, <2>5, WriteIsAStep DEF FailedWrite, WriteFails, Write
  <2>6. QED
    BY <1>4, <2>4, <2>5
<1>5. CASE Restart
  <2>1. /\ writing' = NotWriting
        /\ Idle => file' = file /\ spoilt' = spoilt
        /\ ~ Idle => file' \in Torn(writing.data) /\ spoilt' = TRUE
    BY <1>5 DEF Restart, ManagerRestart
  <2>2. Settled' = file'
    BY <2>1 DEF Settled, Idle
  <2>3. CASE Idle
    <3>1. spoilt' = spoilt
      BY <2>1, <2>3
    <3>2. QED
      BY <2>1, <2>2, <2>3, <3>1 DEF Settled
  <2>4. CASE ~ Idle
    <3>1. PICK d \in Configs, b \in Configs, m \in Answer :
            writing = Write(d, b, m) /\ OneStep(b, d, m)
      BY <1>1, <2>4 DEF Stored, Idle
    <3>2. Settled = b /\ Settled' \in Torn(d)
      BY <2>1, <2>2, <2>4, <3>1 DEF Settled, Write
    <3>3. spoilt' = TRUE
      BY <2>1, <2>4
    <3>4. QED
      BY <3>1, <3>2, <3>3, WriteIsAStep
  <2>5. QED
    BY <2>3, <2>4
<1>6. CASE Refusal \/ (Manage /\ \E u \in Users : HandleGet(u))
  BY <1>2, <1>6 DEF Refusal, RefuseSet, Manage, HandleGet, manager, history
<1>7. CASE Client \/ Window \/ SaveBlocked \/ Save \/ \E k \in Keys : Edit(k)
  BY <1>2, <1>7 DEF Client, AskConfig, LoadConfig, ApplyChange, Window, Populate, MarkError,
                    SaveBlocked, Save, Edit, manager, history
<1>8. CASE Reload \/ AddTab \/ Listing \/ RefreshAll \/ UNCHANGED vars
  BY <1>2, <1>8 DEF Reload, AddTab, RequestConfig, Listing, RefreshAll, vars, manager, history
<1>9. CASE Manage
  BY <1>3, <1>4, <1>6, <1>9 DEF Manage
<1>10. QED
  BY <1>4, <1>5, <1>6, <1>7, <1>8, <1>9 DEF Next

\* Although a write truncates the file before it fills it, what the file is worth
\* changes by one valid value at a time, from nothing to the defaults, and a restart
\* changes nothing; but a write that fails or is cut off may leave the beginning of
\* what was to be written (config_manager, _save_config(), on_config_get(),
\* on_config_set()).
THEOREM OneSettingAtATimeCorrect == Spec => OneSettingAtATime
<1>1. Init => Store!Init
  BY DEF Init, ManagerInit, Settled, Idle, Store!Init
<1>2. Inv /\ [Next]_vars => [Store!Next]_<<Settled, spoilt>>
  BY StoreStep
<1>3. QED
  BY <1>1, <1>2, Invariance, PTL DEF Spec, OneSettingAtATime, Store!Spec

-----------------------------------------------------------------------------
(* The copy of the module.                                                 *)

\* A message from which the module learns a setting, and what it learns.
Concerns(m, k) == m.type = "response" \/ m.key = k
Tells(m, k)    == IF m.type = "response" THEN Merged(m.config)[k] ELSE m.value

\* The last message that concerns a setting tells its value; where there is none the
\* copy has it.
Telling(q, k, inCopy, value) ==
  /\ \A i \in DOMAIN q :
       Concerns(q[i], k) /\ (\A j \in DOMAIN q : j > i => ~ Concerns(q[j], k))
         => Tells(q[i], k) = value
  /\ (\A i \in DOMAIN q : ~ Concerns(q[i], k)) => inCopy = value

Follows(k) == Telling(news[Owner], k, copy[k], Merged(Settled)[k])

Answered(u) == \E i \in DOMAIN news[u] : news[u][i].type = "response"

CopyInv ==
  /\ copy = [k \in DOMAIN Defaults |-> copy[k]] /\ loaded \in BOOLEAN
  /\ ~ lost /\ (loaded \/ Answered(Owner)) => \A k \in DOMAIN Defaults : Follows(k)

(* The value of a setting after the defaults have been filled in. *)
LEMMA MergedValue ==
  ASSUME NEW c, NEW k \in DOMAIN Defaults
  PROVE  Merged(c)[k] = IF k \in DOMAIN c THEN c[k] ELSE Defaults[k]
BY DEF Merged

\* A step that concerns neither the module nor the file.
LEMMA CopySame ==
  ASSUME CopyInv, UNCHANGED <<copy, loaded, lost>>, news'[Owner] = news[Owner], Settled' = Settled
  PROVE  CopyInv'
<1>1. Answered(Owner)' = Answered(Owner)
  BY DEF Answered
<1>2. \A k : Follows(k)' = Follows(k)
  BY DEF Follows
<1>3. QED
  BY <1>1, <1>2 DEF CopyInv

\* A message more: it tells the value, or the value has not changed.
LEMMA TellingMore ==
  ASSUME NEW q \in Seq(News), NEW m \in News, NEW k, NEW c, NEW x, NEW y,
         \/ Concerns(m, k) /\ Tells(m, k) = y
         \/ ~ Concerns(m, k) /\ Telling(q, k, c, x) /\ x = y
  PROVE  Telling(Append(q, m), k, c, y)
<1>1a. PICK n \in Nat : n = Len(q)
  <2>1. Len(q) \in Nat
    OBVIOUS
  <2>2. QED
    BY <2>1
<1>1. PICK r : n = Len(q) /\ r = Append(q, m)
  BY <1>1a
<1>2. /\ DOMAIN q = 1..n /\ DOMAIN r = 1..(n + 1)
      /\ r[n + 1] = m /\ \A i \in 1..n : r[i] = q[i]
  BY <1>1
<1>3. CASE Concerns(m, k) /\ Tells(m, k) = y
  <2>1. \A i \in 1..(n + 1) :
          (\A j \in 1..(n + 1) : j > i => ~ Concerns(r[j], k)) => i = n + 1
    BY <1>2, <1>3
  <2>2. n + 1 \in 1..(n + 1)
    OBVIOUS
  <2>3. Telling(r, k, c, y)
    BY <1>2, <1>3, <2>1, <2>2 DEF Telling
  <2>4. QED
    BY <1>1, <2>3
<1>4. CASE ~ Concerns(m, k) /\ Telling(q, k, c, x) /\ x = y
  <2>1. ASSUME NEW i \in 1..(n + 1), Concerns(r[i], k),
               \A j \in 1..(n + 1) : j > i => ~ Concerns(r[j], k)
        PROVE  Tells(r[i], k) = y
    <3>1. i \in 1..n /\ r[i] = q[i]
      BY <1>2, <1>4, <2>1
    <3>2. \A j \in 1..n : j > i => ~ Concerns(q[j], k)
      BY <1>2, <2>1
    <3>3. QED
      BY <1>2, <1>4, <2>1, <3>1, <3>2 DEF Telling
  <2>2. ASSUME \A i \in 1..(n + 1) : ~ Concerns(r[i], k)
        PROVE  c = y
    <3>1. \A i \in 1..n : ~ Concerns(q[i], k)
      BY <1>2, <2>2
    <3>2. QED
      BY <1>2, <1>4, <3>1 DEF Telling
  <2>3. Telling(r, k, c, y)
    BY <1>2, <2>1, <2>2 DEF Telling
  <2>4. QED
    BY <1>1, <2>3
<1>5. QED
  BY <1>3, <1>4

\* A message less: what it tells is in the copy.
LEMMA TellingLess ==
  ASSUME NEW q \in Seq(News), q # <<>>, NEW k, NEW c, NEW x, Telling(q, k, c, x)
  PROVE  Telling(Tail(q), k, IF Concerns(Head(q), k) THEN Tells(Head(q), k) ELSE c, x)
<1>1a. PICK n \in Nat : n + 1 = Len(q)
  <2>1. Len(q) \in Nat \ {0}
    OBVIOUS
  <2>2. Len(q) - 1 \in Nat /\ (Len(q) - 1) + 1 = Len(q)
    BY <2>1
  <2>3. QED
    BY <2>2
<1>1. PICK r : n + 1 = Len(q) /\ r = Tail(q)
  BY <1>1a
<1>2. PICK h, d : h = Head(q) /\ d = IF Concerns(h, k) THEN Tells(h, k) ELSE c
  OBVIOUS
<1>3. /\ DOMAIN q = 1..(n + 1) /\ DOMAIN r = 1..n
      /\ q[1] = h /\ \A i \in 1..n : i + 1 \in 1..(n + 1) /\ r[i] = q[i + 1]
  BY <1>1, <1>2
<1>4. \A j \in 1..(n + 1) : j > 1 => j - 1 \in 1..n /\ r[j - 1] = q[j]
  BY <1>3
<1>5. ASSUME NEW i \in 1..n, Concerns(r[i], k), \A j \in 1..n : j > i => ~ Concerns(r[j], k)
      PROVE  Tells(r[i], k) = x
  <2>1. i + 1 \in 1..(n + 1) /\ r[i] = q[i + 1]
    BY <1>3
  <2>2. \A j \in 1..(n + 1) : j > i + 1 => j - 1 \in 1..n /\ j - 1 > i
    OBVIOUS
  <2>3. \A j \in 1..(n + 1) : j > i + 1 => ~ Concerns(q[j], k)
    BY <1>4, <1>5, <2>2
  <2>4. QED
    BY <1>3, <1>5, <2>1, <2>3 DEF Telling
<1>6. ASSUME \A i \in 1..n : ~ Concerns(r[i], k)
      PROVE  d = x
  <2>1. \A j \in 1..(n + 1) : j > 1 => ~ Concerns(q[j], k)
    BY <1>4, <1>6
  <2>2. 1 \in 1..(n + 1) /\ \A j \in 1..(n + 1) : j = 1 \/ j > 1
    OBVIOUS
  <2>3. QED
    BY <1>2, <1>3, <2>1, <2>2 DEF Telling
<1>7. Telling(r, k, d, x)
  BY <1>3, <1>5, <1>6 DEF Telling
<1>8. QED
  BY <1>1, <1>2, <1>7

\* A message is published that tells what the file is worth now.
LEMMA CopyTold ==
  ASSUME CopyInv, news \in [Users -> Seq(News)], UNCHANGED <<copy, loaded, lost>>,
         NEW m \in News, news'[Owner] = Append(news[Owner], m),
         \A k \in DOMAIN Defaults :
           IF Concerns(m, k) THEN Tells(m, k) = Merged(Settled')[k]
                             ELSE Merged(Settled')[k] = Merged(Settled)[k]
  PROVE  CopyInv'
<1>1. PICK q \in Seq(News) : q = news[Owner]
  BY DEF Users
<1>2. SUFFICES ASSUME ~ lost', loaded' \/ Answered(Owner)', NEW k \in DOMAIN Defaults
               PROVE  Telling(Append(q, m), k, copy[k], Merged(Settled')[k])
  BY <1>1 DEF CopyInv, Follows
<1>3. CASE Concerns(m, k)
  BY <1>3, TellingMore
<1>4. CASE ~ Concerns(m, k)
  <2>1. m.type # "response"
    BY <1>4 DEF Concerns
  <2>2. loaded \/ Answered(Owner)
    <3>1a. PICK n \in Nat : n = Len(q)
      <4>1. Len(q) \in Nat
        OBVIOUS
      <4>2. QED
        BY <4>1
    <3>1. PICK r : n = Len(q) /\ r = Append(q, m)
      BY <3>1a
    <3>2. DOMAIN q = 1..n /\ DOMAIN r = 1..(n + 1) /\ r[n + 1] = m /\ \A i \in 1..n : r[i] = q[i]
      BY <3>1
    <3>3. CASE \E i \in 1..(n + 1) : r[i].type = "response"
      <4>1. PICK i \in 1..(n + 1) : r[i].type = "response"
        BY <3>3
      <4>2. i \in 1..n
        BY <2>1, <3>2, <4>1
      <4>3. QED
        BY <1>1, <3>2, <4>1, <4>2 DEF Answered
    <3>4. QED
      BY <1>1, <1>2, <3>1, <3>2, <3>3 DEF Answered
  <2>3. Telling(q, k, copy[k], Merged(Settled)[k])
    BY <1>1, <1>2, <2>2 DEF CopyInv, Follows
  <2>4. QED
    BY <1>4, <2>3, TellingMore
<1>5. QED
  BY <1>3, <1>4

\* The module takes a message.
LEMMA CopyTaken ==
  ASSUME CopyInv, news \in [Users -> Seq(News)], lost' = lost, Settled' = Settled,
         news[Owner] # <<>>, news'[Owner] = Tail(news[Owner]),
         copy' = [k \in DOMAIN Defaults |-> copy'[k]],
         \A k \in DOMAIN Defaults :
           copy'[k] = IF Concerns(Head(news[Owner]), k)
                      THEN Tells(Head(news[Owner]), k)
                      ELSE copy[k],
         loaded' \in BOOLEAN, loaded' => loaded \/ Head(news[Owner]).type = "response"
  PROVE  CopyInv'
<1>1. PICK q \in Seq(News) : q = news[Owner]
  BY DEF Users
<1>2. SUFFICES ASSUME ~ lost', loaded' \/ Answered(Owner)', NEW k \in DOMAIN Defaults
               PROVE  Telling(Tail(q), k, copy'[k], Merged(Settled)[k])
  BY <1>1 DEF CopyInv, Follows
<1>3. loaded \/ Answered(Owner)
  <2>1. Len(q) \in Nat \ {0} /\ DOMAIN q = 1..Len(q) /\ Head(q) = q[1]
    BY <1>1
  <2>2. CASE loaded'
    BY <1>1, <2>1, <2>2 DEF Answered
  <2>3. CASE \E i \in DOMAIN Tail(q) : Tail(q)[i].type = "response"
    <3>1. PICK i \in DOMAIN Tail(q) : Tail(q)[i].type = "response"
      BY <2>3
    <3>2. i + 1 \in DOMAIN q /\ Tail(q)[i] = q[i + 1]
      BY <2>1
    <3>3. QED
      BY <1>1, <3>1, <3>2 DEF Answered
  <2>4. QED
    BY <1>1, <1>2, <2>2, <2>3 DEF Answered
<1>4. Telling(q, k, copy[k], Merged(Settled)[k])
  BY <1>1, <1>2, <1>3 DEF CopyInv, Follows
<1>5. QED
  BY <1>1, <1>4, TellingLess

\* A change of one setting is told as it is.
LEMMA ChangeIsTold ==
  ASSUME NEW b, NEW d, NEW i \in Keys, NEW v,
         d = [j \in DOMAIN b \cup {i} |-> IF j = i THEN v ELSE b[j]]
  PROVE  \A k \in DOMAIN Defaults :
           IF Concerns(Changed(i, v), k) THEN Tells(Changed(i, v), k) = Merged(d)[k]
                                         ELSE Merged(d)[k] = Merged(b)[k]
<1>1. TAKE k \in DOMAIN Defaults
<1>2. DOMAIN d = DOMAIN b \cup {i} /\ \A j \in DOMAIN d : d[j] = IF j = i THEN v ELSE b[j]
  OBVIOUS
<1>3. /\ Merged(d)[k] = IF k \in DOMAIN d THEN d[k] ELSE Defaults[k]
      /\ Merged(b)[k] = IF k \in DOMAIN b THEN b[k] ELSE Defaults[k]
  BY MergedValue
<1>4. Concerns(Changed(i, v), k) <=> k = i
  BY DEF Concerns, Changed
<1>5. Tells(Changed(i, v), k) = v
  BY DEF Tells, Changed
<1>6. QED
  BY <1>2, <1>3, <1>4, <1>5

\* The end of a write is told to the module, but for defaults that config_ui has asked
\* for: these it has already.
LEMMA CopyEnd ==
  ASSUME Inv, CopyInv, EndWrite, UNCHANGED <<copy, loaded, lost>>
  PROVE  CopyInv'
<1>1. writing # NotWriting /\ writing' = NotWriting
  BY DEF EndWrite, Idle
<1>2. PICK d \in Configs, b \in Configs, m \in Answer : writing = Write(d, b, m) /\ OneStep(b, d, m)
  BY <1>1 DEF Inv, Stored
<1>3. Settled = b /\ Settled' = d /\ Publish(m)
  BY <1>1, <1>2 DEF EndWrite, Settled, Idle, Write
<1>4. news \in [Users -> Seq(News)] /\ m \in News
  BY DEF Inv, Posted, News
<1>5. news'[Owner] = IF Listens(Owner, m) THEN Append(news[Owner], m) ELSE news[Owner]
  BY <1>3 DEF Publish, Users
<1>6. CASE b = Nothing /\ d = Defaults /\ \E u \in Users : m = Response(u, Defaults)
  <2>1. \A k \in DOMAIN Defaults : Merged(b)[k] = Defaults[k] /\ Merged(d)[k] = Defaults[k]
    BY <1>6, MergedValue DEF Nothing
  <2>2. m.type = "response" /\ m.config = Defaults
    BY <1>6 DEF Response
  <2>3. CASE Listens(Owner, m)
    <3>1. \A k \in DOMAIN Defaults : Concerns(m, k) /\ Tells(m, k) = Merged(d)[k]
      BY <1>6, <2>2 DEF Concerns, Tells
    <3>2. QED
      BY <1>3, <1>4, <1>5, <2>3, <3>1, CopyTold
  <2>4. CASE ~ Listens(Owner, m)
    <3>1. news'[Owner] = news[Owner]
      BY <1>5, <2>4
    <3>2. \A k \in DOMAIN Defaults : Merged(Settled')[k] = Merged(Settled)[k]
      BY <1>3, <2>1
    <3>3. QED
      BY <3>1, <3>2 DEF CopyInv, Follows, Answered
  <2>5. QED
    BY <2>3, <2>4
<1>7. CASE \E i \in Keys : \E v \in Typed(Kind[i]) :
             /\ d = [j \in DOMAIN b \cup {i} |-> IF j = i THEN v ELSE b[j]]
             /\ m = Changed(i, v)
  <2>1a. PICK i \in Keys : \E v :
             /\ d = [j \in DOMAIN b \cup {i} |-> IF j = i THEN v ELSE b[j]]
             /\ m = Changed(i, v)
    BY <1>7
  <2>1. PICK v :
             /\ d = [j \in DOMAIN b \cup {i} |-> IF j = i THEN v ELSE b[j]]
             /\ m = Changed(i, v)
    BY <2>1a
  <2>2. Listens(Owner, m)
    BY <2>1 DEF Listens, Changed
  <2>3. \A k \in DOMAIN Defaults :
          IF Concerns(m, k) THEN Tells(m, k) = Merged(d)[k] ELSE Merged(d)[k] = Merged(b)[k]
    BY <2>1, ChangeIsTold
  <2>4. QED
    BY <1>3, <1>4, <1>5, <2>2, <2>3, CopyTold
<1>8. QED
  BY <1>2, <1>6, <1>7 DEF OneStep

\* So is the answer to the module's question.
LEMMA CopyGet ==
  ASSUME Inv, CopyInv, NEW u \in Users, HandleGet(u), UNCHANGED <<copy, loaded, lost>>
  PROVE  CopyInv'
<1>1. /\ writing = NotWriting /\ writing' = NotWriting /\ file' = file
      /\ Publish(Response(u, file))
  BY DEF HandleGet, HasRequest, Idle
<1>2. Settled = file /\ Settled' = file
  BY <1>1 DEF Settled, Idle
<1>3. news \in [Users -> Seq(News)] /\ Response(u, file) \in News
  BY DEF Inv, Stored, Posted, News, Answer
<1>4. CASE u = Owner
  <2>1. news'[Owner] = Append(news[Owner], Response(u, file))
    BY <1>1, <1>4 DEF Publish, Listens, Response, Users
  <2>2. \A k \in DOMAIN Defaults :
            Concerns(Response(u, file), k) /\ Tells(Response(u, file), k) = Merged(file)[k]
    BY DEF Concerns, Tells, Response
  <2>3. QED
    BY <1>2, <1>3, <2>1, <2>2, CopyTold
<1>5. CASE u = Viewer
  <2>1. news'[Owner] = news[Owner]
    BY <1>1, <1>5, UsersAssumption DEF Publish, Listens, Response, Users
  <2>2. QED
    BY <1>2, <2>1, CopySame
<1>6. QED
  BY <1>4, <1>5 DEF Users

\* The module does what it is told.
LEMMA CopyHeard ==
  ASSUME Inv, CopyInv, LoadConfig \/ ApplyChange
  PROVE  CopyInv'
<1>1. news \in [Users -> Seq(News)]
  BY DEF Inv, Posted
<1>2. /\ news[Owner] # <<>> /\ news'[Owner] = Tail(news[Owner]) /\ lost' = lost
      /\ UNCHANGED <<file, writing>>
  BY <1>1 DEF LoadConfig, ApplyChange, HasNews, TakeNews, manager, history, Users
<1>3. Settled' = Settled
  BY <1>2 DEF Settled, Idle
<1>4. PICK m \in News : m = Head(news[Owner])
  BY <1>1, <1>2 DEF Users
<1>5. copy = [k \in DOMAIN Defaults |-> copy[k]] /\ loaded \in BOOLEAN
  BY DEF CopyInv
<1>6. CASE LoadConfig
  <2>1. m.type = "response" /\ copy' = Merged(m.config) /\ loaded' = TRUE
    BY <1>4, <1>6 DEF LoadConfig, HasNews
  <2>2. copy' = [k \in DOMAIN Defaults |-> copy'[k]]
    BY <2>1 DEF Merged
  <2>3. \A k \in DOMAIN Defaults : copy'[k] = IF Concerns(m, k) THEN Tells(m, k) ELSE copy[k]
    BY <2>1 DEF Concerns, Tells
  <2>4. QED
    BY <1>1, <1>2, <1>3, <1>4, <2>1, <2>2, <2>3, CopyTaken
<1>7. CASE ApplyChange
  <2>1. /\ m.type = "changed" /\ UNCHANGED loaded
        /\ copy' = [k \in DOMAIN copy |-> IF k = m.key THEN m.value ELSE copy[k]]
    BY <1>4, <1>7 DEF ApplyChange, HasNews
  <2>2. DOMAIN copy = DOMAIN Defaults
    BY <1>5
  <2>3. copy' = [k \in DOMAIN Defaults |-> copy'[k]]
    BY <2>1, <2>2
  <2>4. \A k \in DOMAIN Defaults : copy'[k] = IF Concerns(m, k) THEN Tells(m, k) ELSE copy[k]
    BY <2>1, <2>2 DEF Concerns, Tells
  <2>5. QED
    BY <1>1, <1>2, <1>3, <1>4, <1>5, <2>1, <2>3, <2>4, CopyTaken
<1>8. QED
  BY <1>6, <1>7

(* Every step keeps the relation between the file, the messages on their way and the copy. *)
LEMMA CopyStep ==
  ASSUME Inv, CopyInv, [Next]_vars
  PROVE  CopyInv'
<1>1. ASSUME UNCHANGED <<file, writing>> PROVE Settled' = Settled
  BY <1>1 DEF Settled, Idle
<1>2. copy = [k \in DOMAIN Defaults |-> copy[k]] /\ loaded \in BOOLEAN
  BY DEF CopyInv
<1>3. news \in [Users -> Seq(News)]
  BY DEF Inv, Posted
<1>4. CASE Manage
  <2>1. UNCHANGED <<copy, loaded, lost>>
    BY <1>4 DEF Manage, client, history
  <2>2. CASE EndWrite \/ \E u \in Users : HandleGet(u)
    BY <2>1, <2>2, CopyEnd, CopyGet
  <2>3. CASE \E u \in Users : HandleSet(u) \/ SeedDefaults(u)
    <3>1. Idle /\ writing'.before = file /\ writing' # NotWriting /\ news' = news
      <4>1. PICK data, m : BeginWrite(data, m)
        BY <2>3 DEF HandleSet, SeedDefaults
      <4>2. Idle /\ news' = news
        BY <2>3 DEF HandleSet, SeedDefaults, HasRequest
      <4>3. writing'.before = file /\ m \in writing'.answer
        BY <4>1 DEF BeginWrite
      <4>4. QED
        BY <4>2, <4>3 DEF NotWriting
    <3>2. Settled' = file /\ Settled = file
      BY <3>1 DEF Settled, Idle
    <3>3. QED
      BY <2>1, <3>1, <3>2, CopySame
  <2>4. QED
    BY <1>4, <2>2, <2>3 DEF Manage
<1>5. CASE FailedWrite
  BY <1>2, <1>5 DEF CopyInv, FailedWrite, client
<1>6. CASE Refusal
  <2>1. PICK u \in Users : RefuseSet(u)
    BY <1>6 DEF Refusal
  <2>2. UNCHANGED <<file, writing, copy, loaded, lost>>
    BY <1>6 DEF Refusal, RefuseSet, manager, client
  <2>3. news'[Owner] = news[Owner]
    BY <2>1, UsersAssumption DEF RefuseSet, Publish, Listens, Refused, Users
  <2>4. QED
    BY <1>1, <2>2, <2>3, CopySame
<1>7. CASE LoadConfig \/ ApplyChange
  BY <1>7, CopyHeard
<1>8. CASE Window
  <2>1. UNCHANGED <<file, writing, copy, loaded, lost>>
    BY <1>8 DEF Window, Populate, MarkError, manager, client, history
  <2>2. news'[Owner] = news[Owner]
    BY <1>3, <1>8, UsersAssumption DEF Window, Populate, MarkError, Hears, TakeNews, Users
  <2>3. QED
    BY <1>1, <2>1, <2>2, CopySame
<1>9. CASE AskConfig \/ SaveBlocked \/ Save \/ \E k \in Keys : Edit(k)
  <2>1. UNCHANGED <<file, writing, news, copy, loaded, lost>>
    BY <1>9 DEF AskConfig, SaveBlocked, Save, Edit, manager, mail, client, history
  <2>2. QED
    BY <1>1, <2>1, CopySame
<1>10. CASE Reload \/ AddTab \/ Listing \/ RefreshAll \/ UNCHANGED vars
  <2>1. UNCHANGED <<file, writing, news, copy, loaded, lost>>
    BY <1>10 DEF Reload, AddTab, RequestConfig, Listing, RefreshAll, vars, manager, mail, client,
                 history
  <2>2. QED
    BY <1>1, <2>1, CopySame
<1>11. CASE Restart
  <2>1. loaded' = FALSE /\ copy' = Defaults /\ news'[Owner] = <<>>
    BY <1>11 DEF Restart, ManagerRestart, Users
  <2>2. Defaults = [k \in DOMAIN Defaults |-> Defaults[k]]
    BY DefaultsAssumption
  <2>3. ~ Answered(Owner)'
    BY <2>1 DEF Answered
  <2>4. QED
    BY <2>1, <2>2, <2>3 DEF CopyInv
<1>12. QED
  BY <1>4, <1>5, <1>6, <1>7, <1>8, <1>9, <1>10, <1>11 DEF Next, Client

(* At the start the module has its defaults, and no settings are on their way. *)
LEMMA InitCopyInv == Init => CopyInv
<1> SUFFICES ASSUME Init PROVE CopyInv
  OBVIOUS
<1>1. copy = Defaults /\ loaded = FALSE /\ news[Owner] = <<>>
  BY DEF Init, ManagerInit, ClientInit, Users
<1>2. Defaults = [k \in DOMAIN Defaults |-> Defaults[k]]
  BY DefaultsAssumption
<1>3. ~ Answered(Owner)
  BY <1>1 DEF Answered
<1>4. QED
  BY <1>1, <1>2, <1>3 DEF CopyInv

(* What the messages on their way say of the file, always. *)
LEMMA CopyInvariance == Spec => []CopyInv
<1>1. Inv /\ CopyInv /\ [Next]_vars => CopyInv'
  BY CopyStep
<1>2. QED
  BY InitCopyInv, Invariance, <1>1, PTL DEF Spec

\* Once nothing is on its way to the module it works with the settings that are stored,
\* unless a write has failed: for any schema, and any sets, seeds and reloads in any
\* order (shared/config_client.py, _on_config_response(), _on_config_changed()).
THEOREM CopyFollowsFileCorrect == Spec => []CopyFollowsFile
<1>1. CopyInv => CopyFollowsFile
  <2> SUFFICES ASSUME CopyInv, Quiet(Owner), loaded, ~ lost PROVE copy = Merged(file)
    BY DEF CopyFollowsFile
  <2>1. news[Owner] = <<>> /\ Settled = file
    BY DEF Quiet, Settled
  <2>2. \A k \in DOMAIN Defaults : copy[k] = Merged(file)[k]
    BY <2>1 DEF CopyInv, Follows, Telling
  <2>3. copy = [k \in DOMAIN Defaults |-> copy[k]]
    BY DEF CopyInv
  <2>4. QED
    BY <2>2, <2>3, MergedValue DEF Merged
<1>2. QED
  BY CopyInvariance, <1>1, PTL

-----------------------------------------------------------------------------
(* The form.                                                               *)

\* What the file is about to be.
Future == IF Idle THEN file ELSE writing.data

\* Of the messages to the manager: the sets of a field, and the reloads.
SetsIt(m, k) == m.type = "set" /\ m.key = k
NoSet(q, k)  == \A i \in DOMAIN q : ~ SetsIt(q[i], k)
HasGet(q)    == \E i \in DOMAIN q : q[i].type = "get"

\* A set that no reload follows.
Final(q, k) ==
  \E i \in DOMAIN q : SetsIt(q[i], k) /\ \A j \in DOMAIN q : j > i => q[j].type # "get"

\* The last set of a field has the value that the form shows.
LastSet(q, k, shown) ==
  \A i \in DOMAIN q :
    SetsIt(q[i], k) /\ (\A j \in DOMAIN q : j > i => ~ SetsIt(q[j], k)) => q[i].value = shown

\* Of the messages from the manager: the last settings have the value that the file is
\* about to have.
HasResponse(n) == \E i \in DOMAIN n : n[i].type = "response"

Brings(n, k, f) ==
  \A i \in DOMAIN n :
    /\ n[i].type = "response" /\ \A j \in DOMAIN n : j > i => n[j].type # "response"
    /\ k \in DOMAIN n[i].config
    => k \in DOMAIN f /\ n[i].config[k] = f[k]

Answering == \E m \in writing.answer : m.type = "response" /\ m.to = Viewer

FormIsRight(k) ==
  /\ LastSet(requests[Viewer], k, original[k])
  /\ NoSet(requests[Viewer], k) =>
       k \in DOMAIN Future /\ Future[k] \in {original[k], Coerced(Kind[k], original[k])}

\* A set that no reload follows was sent when there was none; settings that nothing
\* follows are right; and if there is nothing on its way the form is.
FieldInv(k) ==
  /\ Final(requests[Viewer], k) => ~ Reloading
  /\ ~ HasGet(requests[Viewer]) /\ ~ Answering => Brings(news[Viewer], k, Future)
  /\ ~ Reloading /\ k \in DOMAIN original => FormIsRight(k)

FormInv == \A k \in Keys \ doubtful : FieldInv(k)

\* A tab has its form, or will have: settings that are sent are not none.
TabInv ==
  ~ lost =>
    /\ tab # "none" => Reloading \/ DOMAIN original # {}
    /\ \A i \in DOMAIN news[Viewer] :
         news[Viewer][i].type = "response" => DOMAIN news[Viewer][i].config # {}

ShownInv == FormInv /\ TabInv

(* A reload under way is a request, an answer, or a write that an answer follows. *)
LEMMA ReloadingParts ==
  Reloading <=> HasGet(requests[Viewer]) \/ HasResponse(news[Viewer]) \/ Answering
BY DEF Reloading, HasGet, HasResponse, Answering

(* The same in the next state. *)
LEMMA ReloadingNext ==
  Reloading' <=> HasGet(requests'[Viewer]) \/ HasResponse(news'[Viewer]) \/ Answering'
BY DEF Reloading, HasGet, HasResponse, Answering

\* One message less.
LEMMA FewerRequests ==
  ASSUME NEW S, NEW q \in Seq(S), q # <<>>, NEW k
  PROVE  /\ HasGet(q) <=> Head(q).type = "get" \/ HasGet(Tail(q))
         /\ Final(Tail(q), k) => Final(q, k)
         /\ NoSet(q, k) <=> ~ SetsIt(Head(q), k) /\ NoSet(Tail(q), k)
         /\ \A x : LastSet(q, k, x) => LastSet(Tail(q), k, x)
         /\ \A x : LastSet(q, k, x) /\ SetsIt(Head(q), k) /\ NoSet(Tail(q), k) => Head(q).value = x
<1>1a. PICK n \in Nat : n + 1 = Len(q)
  <2>1. Len(q) \in Nat \ {0}
    OBVIOUS
  <2>2. Len(q) - 1 \in Nat /\ (Len(q) - 1) + 1 = Len(q)
    BY <2>1
  <2>3. QED
    BY <2>2
<1>1. PICK r, h : n + 1 = Len(q) /\ r = Tail(q) /\ h = Head(q)
  BY <1>1a
<1>2. /\ DOMAIN q = 1..(n + 1) /\ DOMAIN r = 1..n
      /\ q[1] = h /\ \A i \in 1..n : i + 1 \in 1..(n + 1) /\ r[i] = q[i + 1]
  BY <1>1
<1>3. \A j \in 1..(n + 1) : j > 1 => j - 1 \in 1..n /\ r[j - 1] = q[j]
  BY <1>2
<1>4. 1 \in 1..(n + 1) /\ \A j \in 1..(n + 1) : j = 1 \/ j > 1
  OBVIOUS
<1>5. HasGet(q) <=> h.type = "get" \/ HasGet(r)
  BY <1>2, <1>3, <1>4 DEF HasGet
<1>6. NoSet(q, k) <=> ~ SetsIt(h, k) /\ NoSet(r, k)
  BY <1>2, <1>3, <1>4 DEF NoSet
<1>7. ASSUME Final(r, k) PROVE Final(q, k)
  <2>1. PICK i \in 1..n : SetsIt(r[i], k) /\ \A j \in 1..n : j > i => r[j].type # "get"
    BY <1>2, <1>7 DEF Final
  <2>2. ASSUME NEW j \in 1..(n + 1), j > i + 1 PROVE q[j].type # "get"
    <3>1. j - 1 \in 1..n /\ j - 1 > i /\ r[j - 1] = q[j]
      BY <1>3, <2>2
    <3>2. QED
      BY <2>1, <3>1
  <2>3. i + 1 \in 1..(n + 1) /\ SetsIt(q[i + 1], k)
    BY <1>2, <2>1
  <2>4. QED
    BY <1>2, <2>2, <2>3 DEF Final
<1>8. ASSUME NEW x, LastSet(q, k, x) PROVE LastSet(r, k, x)
  <2>1. SUFFICES ASSUME NEW i \in 1..n, SetsIt(r[i], k), \A j \in 1..n : j > i => ~ SetsIt(r[j], k)
                 PROVE  r[i].value = x
    BY <1>2 DEF LastSet
  <2>2. ASSUME NEW j \in 1..(n + 1), j > i + 1 PROVE ~ SetsIt(q[j], k)
    <3>1. j - 1 \in 1..n /\ j - 1 > i /\ r[j - 1] = q[j]
      BY <1>3, <2>2
    <3>2. QED
      BY <2>1, <3>1
  <2>3. i + 1 \in 1..(n + 1) /\ SetsIt(q[i + 1], k) /\ r[i] = q[i + 1]
    BY <1>2, <2>1
  <2>4. QED
    BY <1>2, <1>8, <2>2, <2>3 DEF LastSet
<1>9. ASSUME NEW x, LastSet(q, k, x), SetsIt(h, k), NoSet(r, k) PROVE h.value = x
  <2>1. \A j \in 1..(n + 1) : j > 1 => ~ SetsIt(q[j], k)
    BY <1>2, <1>3, <1>9 DEF NoSet
  <2>2. QED
    BY <1>2, <1>4, <1>9, <2>1 DEF LastSet
<1>10. QED
  BY <1>1, <1>5, <1>6, <1>7, <1>8, <1>9

\* Some messages more.
LEMMA MoreRequests ==
  ASSUME NEW S, NEW q \in Seq(S), NEW ms \in Seq(S), NEW k
  PROVE  /\ HasGet(q \o ms) <=> HasGet(q) \/ HasGet(ms)
         /\ NoSet(q \o ms, k) <=> NoSet(q, k) /\ NoSet(ms, k)
         /\ NoSet(ms, k) /\ Final(q \o ms, k) => Final(q, k) /\ ~ HasGet(ms)
         /\ \A x : NoSet(ms, k) /\ LastSet(q, k, x) => LastSet(q \o ms, k, x)
         /\ \A x : /\ ~ NoSet(ms, k)
                   /\ \A i \in DOMAIN ms : SetsIt(ms[i], k) => ms[i].value = x
                   => LastSet(q \o ms, k, x)
<1>1a. PICK n \in Nat, m \in Nat : n = Len(q) /\ m = Len(ms)
  <2>1. Len(q) \in Nat /\ Len(ms) \in Nat
    OBVIOUS
  <2>2. QED
    BY <2>1
<1>1. PICK r : n = Len(q) /\ m = Len(ms) /\ r = q \o ms
  BY <1>1a
<1>2. /\ DOMAIN q = 1..n /\ DOMAIN ms = 1..m /\ DOMAIN r = 1..(n + m)
      /\ \A i \in 1..(n + m) : r[i] = IF i =< n THEN q[i] ELSE ms[i - n]
  <2>1. r \in Seq(S) /\ Len(r) = n + m
    BY <1>1, ConcatProperties
  <2>2. \A i \in 1..(n + m) : r[i] = IF i =< n THEN q[i] ELSE ms[i - n]
    BY <1>1, ConcatProperties
  <2>3. QED
    BY <1>1, <2>1, <2>2
<1>3. \A i \in 1..n : i \in 1..(n + m) /\ r[i] = q[i]
  BY <1>2
<1>4. \A i \in 1..m : n + i \in 1..(n + m) /\ r[n + i] = ms[i]
  <2>1. TAKE i \in 1..m
  <2>2. n + i \in 1..(n + m) /\ ~ (n + i =< n) /\ (n + i) - n = i
    OBVIOUS
  <2>3. QED
    BY <1>2, <2>2
<1>5. \A i \in 1..(n + m) : i \in 1..n \/ (i - n \in 1..m /\ n + (i - n) = i)
  OBVIOUS
<1>6. HasGet(r) <=> HasGet(q) \/ HasGet(ms)
  <2>1. ASSUME HasGet(r) PROVE HasGet(q) \/ HasGet(ms)
    <3>1. PICK i \in 1..(n + m) : r[i].type = "get"
      BY <1>2, <2>1 DEF HasGet
    <3>2. CASE i \in 1..n
      BY <1>2, <1>3, <3>1, <3>2 DEF HasGet
    <3>3. CASE i - n \in 1..m /\ n + (i - n) = i
      BY <1>2, <1>4, <3>1, <3>3 DEF HasGet
    <3>4. QED
      BY <1>5, <3>2, <3>3
  <2>2. ASSUME HasGet(q) PROVE HasGet(r)
    BY <1>2, <1>3, <2>2 DEF HasGet
  <2>3. ASSUME HasGet(ms) PROVE HasGet(r)
    <3>1. PICK i \in 1..m : ms[i].type = "get"
      BY <1>2, <2>3 DEF HasGet
    <3>2. QED
      BY <1>2, <1>4, <3>1 DEF HasGet
  <2>4. QED
    BY <2>1, <2>2, <2>3
<1>7. NoSet(r, k) <=> NoSet(q, k) /\ NoSet(ms, k)
  BY <1>2, <1>3, <1>4, <1>5 DEF NoSet
<1>8. ASSUME NoSet(ms, k), Final(r, k) PROVE Final(q, k) /\ ~ HasGet(ms)
  <2>1. PICK i \in 1..(n + m) :
          SetsIt(r[i], k) /\ \A j \in 1..(n + m) : j > i => r[j].type # "get"
    BY <1>2, <1>8 DEF Final
  <2>2. i \in 1..n
    BY <1>2, <1>4, <1>5, <1>8, <2>1 DEF NoSet
  <2>3. \A j \in 1..n : j > i => q[j].type # "get"
    BY <1>3, <2>1
  <2>4. \A j \in 1..m : n + j > i
    BY <2>2
  <2>5. \A j \in 1..m : ms[j].type # "get"
    BY <1>4, <2>1, <2>4
  <2>6. QED
    BY <1>2, <1>3, <2>1, <2>2, <2>3, <2>5 DEF Final, HasGet
<1>9. ASSUME NEW x, NoSet(ms, k), LastSet(q, k, x) PROVE LastSet(r, k, x)
  <2>1. SUFFICES ASSUME NEW i \in 1..(n + m), SetsIt(r[i], k),
                        \A j \in 1..(n + m) : j > i => ~ SetsIt(r[j], k)
                 PROVE  r[i].value = x
    BY <1>2 DEF LastSet
  <2>2. i \in 1..n
    BY <1>2, <1>4, <1>5, <1>9, <2>1 DEF NoSet
  <2>3. \A j \in 1..n : j > i => ~ SetsIt(q[j], k)
    BY <1>3, <2>1
  <2>4. QED
    BY <1>2, <1>3, <1>9, <2>1, <2>2, <2>3 DEF LastSet
<1>10. ASSUME NEW x, ~ NoSet(ms, k), \A i \in DOMAIN ms : SetsIt(ms[i], k) => ms[i].value = x
       PROVE  LastSet(r, k, x)
  <2>1. SUFFICES ASSUME NEW i \in 1..(n + m), SetsIt(r[i], k),
                        \A j \in 1..(n + m) : j > i => ~ SetsIt(r[j], k)
                 PROVE  r[i].value = x
    BY <1>2 DEF LastSet
  <2>2. PICK p \in 1..m : SetsIt(ms[p], k)
    BY <1>2, <1>10 DEF NoSet
  <2>3. n + p \in 1..(n + m) /\ SetsIt(r[n + p], k)
    BY <1>4, <2>2
  <2>4. ~ (n + p > i)
    BY <2>1, <2>3
  <2>5. i - n \in 1..m /\ n + (i - n) = i
    BY <2>4
  <2>6. r[i] = ms[i - n]
    BY <1>4, <2>5
  <2>7. QED
    BY <1>2, <1>10, <2>1, <2>5, <2>6
<1>11. QED
  BY <1>1, <1>6, <1>7, <1>8, <1>9, <1>10

\* A set that no reload follows is there when there is no reload.
LEMMA FinalWithoutGet ==
  ASSUME NEW S, NEW q \in Seq(S), NEW k, ~ HasGet(q)
  PROVE  Final(q, k) \/ NoSet(q, k)
BY DEF Final, NoSet, HasGet

\* One message of the manager less.
LEMMA FewerNews ==
  ASSUME NEW S, NEW q \in Seq(S), q # <<>>, NEW k, NEW f
  PROVE  /\ HasResponse(q) <=> Head(q).type = "response" \/ HasResponse(Tail(q))
         /\ Brings(q, k, f) => Brings(Tail(q), k, f)
         /\ /\ Brings(q, k, f) /\ Head(q).type = "response" /\ ~ HasResponse(Tail(q))
            /\ k \in DOMAIN Head(q).config
            => k \in DOMAIN f /\ Head(q).config[k] = f[k]
<1>1a. PICK n \in Nat : n + 1 = Len(q)
  <2>1. Len(q) \in Nat \ {0}
    OBVIOUS
  <2>2. Len(q) - 1 \in Nat /\ (Len(q) - 1) + 1 = Len(q)
    BY <2>1
  <2>3. QED
    BY <2>2
<1>1. PICK r, h : n + 1 = Len(q) /\ r = Tail(q) /\ h = Head(q)
  BY <1>1a
<1>2. /\ DOMAIN q = 1..(n + 1) /\ DOMAIN r = 1..n
      /\ q[1] = h /\ \A i \in 1..n : i + 1 \in 1..(n + 1) /\ r[i] = q[i + 1]
  BY <1>1
<1>3. \A j \in 1..(n + 1) : j > 1 => j - 1 \in 1..n /\ r[j - 1] = q[j]
  BY <1>2
<1>4. 1 \in 1..(n + 1) /\ \A j \in 1..(n + 1) : j = 1 \/ j > 1
  OBVIOUS
<1>5. HasResponse(q) <=> h.type = "response" \/ HasResponse(r)
  BY <1>2, <1>3, <1>4 DEF HasResponse
<1>6. ASSUME Brings(q, k, f) PROVE Brings(r, k, f)
  <2>1. SUFFICES ASSUME NEW i \in 1..n, r[i].type = "response", k \in DOMAIN r[i].config,
                        \A j \in 1..n : j > i => r[j].type # "response"
                 PROVE  k \in DOMAIN f /\ r[i].config[k] = f[k]
    BY <1>2 DEF Brings
  <2>2. ASSUME NEW j \in 1..(n + 1), j > i + 1 PROVE q[j].type # "response"
    <3>1. j - 1 \in 1..n /\ j - 1 > i /\ r[j - 1] = q[j]
      BY <1>3, <2>2
    <3>2. QED
      BY <2>1, <3>1
  <2>3. i + 1 \in 1..(n + 1) /\ r[i] = q[i + 1]
    BY <1>2
  <2>4. QED
    BY <1>2, <1>6, <2>1, <2>2, <2>3 DEF Brings
<1>7. ASSUME Brings(q, k, f), h.type = "response", ~ HasResponse(r), k \in DOMAIN h.config
      PROVE  k \in DOMAIN f /\ h.config[k] = f[k]
  <2>1. \A j \in 1..(n + 1) : j > 1 => q[j].type # "response"
    BY <1>2, <1>3, <1>7 DEF HasResponse
  <2>2. QED
    BY <1>2, <1>4, <1>7, <2>1 DEF Brings
<1>8. QED
  BY <1>1, <1>5, <1>6, <1>7

\* One message of the manager more.
LEMMA MoreNews ==
  ASSUME NEW S, NEW q \in Seq(S), NEW m \in S, NEW k, NEW f
  PROVE  /\ HasResponse(Append(q, m)) <=> m.type = "response" \/ HasResponse(q)
         /\ \/ m.type = "response"
               /\ (k \in DOMAIN m.config => k \in DOMAIN f /\ m.config[k] = f[k])
            \/ m.type # "response" /\ Brings(q, k, f)
            => Brings(Append(q, m), k, f)
<1>1a. PICK n \in Nat : n = Len(q)
  <2>1. Len(q) \in Nat
    OBVIOUS
  <2>2. QED
    BY <2>1
<1>1. PICK r : n = Len(q) /\ r = Append(q, m)
  BY <1>1a
<1>2. /\ DOMAIN q = 1..n /\ DOMAIN r = 1..(n + 1)
      /\ r[n + 1] = m /\ \A i \in 1..n : i \in 1..(n + 1) /\ r[i] = q[i]
  BY <1>1
<1>3. n + 1 \in 1..(n + 1) /\ \A i \in 1..(n + 1) : i \in 1..n \/ i = n + 1
  OBVIOUS
<1>4. HasResponse(r) <=> m.type = "response" \/ HasResponse(q)
  BY <1>2, <1>3 DEF HasResponse
<1>5. ASSUME m.type = "response", k \in DOMAIN m.config => k \in DOMAIN f /\ m.config[k] = f[k]
      PROVE  Brings(r, k, f)
  <2>1. SUFFICES ASSUME NEW i \in 1..(n + 1), r[i].type = "response", k \in DOMAIN r[i].config,
                        \A j \in 1..(n + 1) : j > i => r[j].type # "response"
                 PROVE  k \in DOMAIN f /\ r[i].config[k] = f[k]
    BY <1>2 DEF Brings
  <2>2. i = n + 1
    BY <1>2, <1>3, <1>5, <2>1
  <2>3. QED
    BY <1>2, <1>5, <2>1, <2>2
<1>6. ASSUME m.type # "response", Brings(q, k, f)
      PROVE  Brings(r, k, f)
  <2>1. SUFFICES ASSUME NEW i \in 1..(n + 1), r[i].type = "response", k \in DOMAIN r[i].config,
                        \A j \in 1..(n + 1) : j > i => r[j].type # "response"
                 PROVE  k \in DOMAIN f /\ r[i].config[k] = f[k]
    BY <1>2 DEF Brings
  <2>2. i \in 1..n /\ r[i] = q[i]
    BY <1>2, <1>3, <1>6, <2>1
  <2>3. \A j \in 1..n : j > i => q[j].type # "response"
    BY <1>2, <2>1
  <2>4. QED
    BY <1>2, <1>6, <2>1, <2>2, <2>3 DEF Brings
<1>7. QED
  BY <1>1, <1>4, <1>5, <1>6

\* The file goes on having the value.
LEMMA BringsKept ==
  ASSUME NEW n, NEW k, NEW f, NEW g, Brings(n, k, f),
         k \in DOMAIN f => k \in DOMAIN g /\ g[k] = f[k]
  PROVE  Brings(n, k, g)
BY DEF Brings

\* A step that concerns neither the form nor the file.
LEMMA ShownSame ==
  ASSUME ShownInv, requests'[Viewer] = requests[Viewer], news'[Viewer] = news[Viewer],
         Answering' = Answering, Future' = Future, UNCHANGED <<original, doubtful, lost>>,
         tab' # "none" => tab # "none"
  PROVE  ShownInv'
<1>1. Reloading' <=> Reloading
  BY ReloadingParts, ReloadingNext
<1>2. \A k : FieldInv(k) => FieldInv(k)'
  BY <1>1 DEF FieldInv, FormIsRight
<1>3. FormInv'
  BY <1>2 DEF ShownInv, FormInv
<1>4. TabInv'
  BY <1>1 DEF ShownInv, TabInv
<1>5. QED
  BY <1>3, <1>4 DEF ShownInv

\* Who waits for the end of a write.
LEMMA AnsweringIs ==
  /\ writing = NotWriting => ~ Answering
  /\ \A d, b, m : writing = Write(d, b, m) => (Answering <=> m.type = "response" /\ m.to = Viewer)
BY DEF Answering, NotWriting, Write

(* Whether an answer to config_ui follows the write that a step has begun. *)
LEMMA AnsweringNext ==
  /\ writing' = NotWriting => ~ Answering'
  /\ \A d, b, m : writing' = Write(d, b, m) => (Answering' <=> m.type = "response" /\ m.to = Viewer)
BY DEF Answering, NotWriting, Write

\* What the file is about to be before, during and after a write.
LEMMA FutureIs ==
  /\ writing = NotWriting => Future = file
  /\ \A d, b, m : writing = Write(d, b, m) => Future = d
BY DEF Future, Idle, NotWriting, Write

(* What will stand in the file when the write that a step has begun is done. *)
LEMMA FutureNext ==
  /\ writing' = NotWriting => Future' = file'
  /\ \A d, b, m : writing' = Write(d, b, m) => Future' = d
BY DEF Future, Idle, NotWriting, Write

\* The manager takes a set: what was the form's last word is what is being written.
LEMMA ShownSet ==
  ASSUME Inv, ShownInv, NEW u \in Users, HandleSet(u), UNCHANGED <<original, doubtful, lost, tab>>
  PROVE  ShownInv'
<1>1a. PICK i \in Keys : \E v :
           /\ u = Viewer /\ writing = NotWriting
           /\ Head(requests[Viewer]) = Set(i, v)
           /\ writing' = Write(With(i, Coerced(Kind[i], v)), file, Changed(i, Coerced(Kind[i], v)))
  BY SetBegins
<1>1. PICK v :
           /\ u = Viewer /\ writing = NotWriting
           /\ Head(requests[Viewer]) = Set(i, v)
           /\ writing' = Write(With(i, Coerced(Kind[i], v)), file, Changed(i, Coerced(Kind[i], v)))
  BY <1>1a
<1>2. PICK q \in Seq(Request) : q = requests[Viewer]
  BY DEF Inv, Posted, Asked
<1>3. /\ q # <<>> /\ requests'[Viewer] = Tail(q) /\ news' = news
      /\ Head(q).type = "set" /\ Head(q).key = i /\ Head(q).value = v
  BY <1>1, <1>2 DEF HandleSet, HasRequest, Receive, Set, Inv, Posted, Asked, Users
<1>4. ~ Answering /\ ~ Answering'
  BY <1>1, AnsweringIs, AnsweringNext DEF Changed
<1>5. Future = file /\ Future' = With(i, Coerced(Kind[i], v))
  BY <1>1, FutureIs, FutureNext
<1>6. Reloading' <=> Reloading
  BY <1>2, <1>3, <1>4, ReloadingParts, ReloadingNext, FewerRequests
<1>7. ASSUME NEW k \in Keys, FieldInv(k) PROVE FieldInv(k)'
  <2>1. /\ DOMAIN Future' = DOMAIN file \cup {i}
        /\ (k # i => Future'[k] = file[k] \/ k \notin DOMAIN file)
    BY <1>5 DEF With
  <2>2. Final(Tail(q), k) => ~ Reloading'
    BY <1>2, <1>3, <1>6, <1>7, FewerRequests DEF FieldInv
  <2>3. ASSUME ~ HasGet(Tail(q)) PROVE Brings(news[Viewer], k, Future')
    <3>1. ~ HasGet(q)
      BY <1>3, <2>3, FewerRequests
    <3>2. Brings(news[Viewer], k, file)
      BY <1>2, <1>4, <1>5, <1>7, <3>1 DEF FieldInv
    <3>3. CASE k # i
      BY <2>1, <3>2, <3>3, BringsKept
    <3>4. CASE k = i
      <4>1. ~ NoSet(q, k)
        BY <1>3, <3>4, FewerRequests DEF SetsIt
      <4>2. ~ Reloading
        BY <1>2, <1>7, <3>1, <4>1, FinalWithoutGet DEF FieldInv
      <4>3. ~ HasResponse(news[Viewer])
        BY <4>2, ReloadingParts
      <4>4. QED
        BY <4>3 DEF HasResponse, Brings
    <3>5. QED
      BY <3>3, <3>4
  <2>4. ASSUME ~ Reloading', k \in DOMAIN original PROVE FormIsRight(k)'
    <3>1. FormIsRight(k)
      BY <1>6, <1>7, <2>4 DEF FieldInv
    <3>2. LastSet(Tail(q), k, original[k])
      BY <1>2, <1>3, <3>1, FewerRequests DEF FormIsRight
    <3>3. ASSUME NoSet(Tail(q), k)
          PROVE  k \in DOMAIN Future' /\ Future'[k] \in {original[k], Coerced(Kind[k], original[k])}
      <4>1. CASE k = i
        <5>1. v = original[k]
          BY <1>2, <1>3, <3>1, <3>3, <4>1, FewerRequests DEF FormIsRight, SetsIt
        <5>2. Future'[k] = Coerced(Kind[k], v)
          BY <1>5, <4>1 DEF With
        <5>3. QED
          BY <2>1, <4>1, <5>1, <5>2
      <4>2. CASE k # i
        <5>1. NoSet(q, k)
          BY <1>3, <3>3, <4>2, FewerRequests DEF SetsIt
        <5>2. k \in DOMAIN file /\ file[k] \in {original[k], Coerced(Kind[k], original[k])}
          BY <1>2, <1>5, <3>1, <5>1 DEF FormIsRight
        <5>3. QED
          BY <2>1, <4>2, <5>2
      <4>3. QED
        BY <4>1, <4>2
    <3>4. QED
      BY <1>3, <3>2, <3>3 DEF FormIsRight
  <2>5. QED
    BY <1>3, <2>2, <2>3, <2>4 DEF FieldInv
<1>8. FormInv'
  BY <1>7 DEF ShownInv, FormInv
<1>9. TabInv'
  BY <1>3, <1>6 DEF ShownInv, TabInv
<1>10. QED
  BY <1>8, <1>9 DEF ShownInv

\* Where a reload is taken no set is a last word.
LEMMA NoFinalBeforeGet ==
  ASSUME NEW q \in Seq(Request), q = requests[Viewer], q # <<>>, Head(q).type = "get",
         NEW k, FieldInv(k)
  PROVE  ~ Final(Tail(q), k)
<1>1. Reloading
  BY FewerRequests, ReloadingParts
<1>2. QED
  BY <1>1, FewerRequests DEF FieldInv

\* Defaults are stored where nothing was: for the form, or for the module.
LEMMA ShownSeed ==
  ASSUME Inv, ShownInv, NEW u \in Users, SeedDefaults(u),
         UNCHANGED <<original, doubtful, lost, tab>>
  PROVE  ShownInv'
<1>1. /\ writing = NotWriting /\ file = Nothing /\ news' = news
      /\ writing' = Write(Defaults, Nothing, Response(u, Defaults))
  BY DEF SeedDefaults, BeginWrite, Write, HasRequest, Idle
<1>2. PICK q \in Seq(Request) : q = requests[Viewer]
  BY DEF Inv, Posted, Asked
<1>3. Future = Nothing /\ Future' = Defaults
  BY <1>1, FutureIs, FutureNext
<1>4. ~ Answering /\ (Answering' <=> u = Viewer)
  BY <1>1, AnsweringIs, AnsweringNext DEF Response
<1>5. \A n, k : Brings(n, k, Nothing) => Brings(n, k, Defaults)
  BY DEF Brings, Nothing
<1>6. CASE u = Owner
  <2>1. requests'[Viewer] = q
    BY <1>2, <1>6, UsersAssumption DEF SeedDefaults, Receive, Inv, Posted, Asked, Users
  <2>2. ~ Answering'
    BY <1>4, <1>6, UsersAssumption
  <2>3. Reloading' <=> Reloading
    BY <1>1, <1>2, <1>4, <2>1, <2>2, ReloadingParts, ReloadingNext
  <2>4. ASSUME NEW k \in Keys, FieldInv(k) PROVE FieldInv(k)'
    <3>1. ASSUME ~ Reloading', k \in DOMAIN original PROVE FormIsRight(k)'
      <4>1. FormIsRight(k)
        BY <2>3, <2>4, <3>1 DEF FieldInv
      <4>2. LastSet(q, k, original[k]) /\ ~ NoSet(q, k)
        BY <1>2, <1>3, <4>1 DEF FormIsRight, Nothing
      <4>3. QED
        BY <2>1, <4>2 DEF FormIsRight
    <3>2. QED
      BY <1>1, <1>2, <1>3, <1>4, <1>5, <2>1, <2>3, <2>4, <3>1 DEF FieldInv
  <2>5. FormInv'
    BY <2>4 DEF ShownInv, FormInv
  <2>6. TabInv'
    BY <1>1, <2>3 DEF ShownInv, TabInv
  <2>7. QED
    BY <2>5, <2>6 DEF ShownInv
<1>7. CASE u = Viewer
  <2>1. q # <<>> /\ Head(q).type = "get" /\ requests'[Viewer] = Tail(q)
    BY <1>2, <1>7 DEF SeedDefaults, HasRequest, Receive, Inv, Posted, Asked, Users
  <2>2. Answering' /\ Reloading'
    BY <1>4, <1>7, ReloadingNext
  <2>3. ASSUME NEW k \in Keys, FieldInv(k) PROVE FieldInv(k)'
    BY <1>2, <2>1, <2>2, <2>3, NoFinalBeforeGet DEF FieldInv
  <2>4. FormInv'
    BY <2>3 DEF ShownInv, FormInv
  <2>5. TabInv'
    BY <1>1, <2>2 DEF ShownInv, TabInv
  <2>6. QED
    BY <2>4, <2>5 DEF ShownInv
<1>8. QED
  BY <1>6, <1>7 DEF Users

\* A reload is answered with what is in the file, which is something.
LEMMA ShownGet ==
  ASSUME Inv, ShownInv, NEW u \in Users, HandleGet(u), UNCHANGED <<original, doubtful, lost, tab>>
  PROVE  ShownInv'
<1>1. /\ writing = NotWriting /\ writing' = NotWriting /\ file' = file /\ file \in Configs
      /\ Publish(Response(u, file))
  BY DEF HandleGet, HasRequest, Idle, Inv, Stored
<1>2. Future = file /\ Future' = file /\ ~ Answering /\ ~ Answering'
  BY <1>1, FutureIs, FutureNext, AnsweringIs, AnsweringNext
<1>3. CASE u = Owner
  <2>1. requests'[Viewer] = requests[Viewer]
    BY <1>3, UsersAssumption DEF HandleGet, Receive, Inv, Posted, Asked, Users
  <2>2. news'[Viewer] = news[Viewer]
    BY <1>1, <1>3, UsersAssumption DEF Publish, Listens, Response, Users
  <2>3. Answering' = Answering
    BY <1>1 DEF Answering
  <2>4. QED
    BY <1>2, <2>1, <2>2, <2>3, ShownSame
<1>4. CASE u = Viewer
  <2>1. PICK q \in Seq(Request) : q = requests[Viewer]
    BY DEF Inv, Posted, Asked
  <2>2. PICK n \in Seq(News) : n = news[Viewer]
    BY DEF Inv, Posted, Users
  <2>3. q # <<>> /\ Head(q).type = "get" /\ requests'[Viewer] = Tail(q)
    BY <1>4, <2>1 DEF HandleGet, HasRequest, Receive, Inv, Posted, Asked, Users
  <2>4. PICK m \in News : m = Response(Viewer, file)
    BY <1>1 DEF News, Answer, Users
  <2>5. news'[Viewer] = Append(n, m) /\ m.type = "response" /\ m.config = file
    BY <1>1, <1>4, <2>2, <2>4 DEF Publish, Listens, Response, Users
  <2>6. HasResponse(news'[Viewer]) /\ Reloading'
    BY <2>5, MoreNews, ReloadingNext
  <2>7. ASSUME NEW k \in Keys, FieldInv(k) PROVE FieldInv(k)'
    <3>1. Brings(Append(n, m), k, file)
      BY <2>5, MoreNews
    <3>2. ~ Final(Tail(q), k)
      BY <2>1, <2>3, <2>7, NoFinalBeforeGet
    <3>3. QED
      BY <1>2, <2>3, <2>5, <2>6, <3>1, <3>2 DEF FieldInv
  <2>8. FormInv'
    BY <2>7 DEF ShownInv, FormInv
  <2>9. ASSUME ~ lost PROVE \A i \in DOMAIN news'[Viewer] :
          news'[Viewer][i].type = "response" => DOMAIN news'[Viewer][i].config # {}
    <3>1. registered
      BY <2>1, <2>3 DEF Inv, Unregistered
    <3>2. registered'
      BY <3>1 DEF HandleGet
    <3>3. file # Nothing
      BY <3>2 DEF HandleGet
    <3>4. DOMAIN file # {}
      BY <1>1, <3>3, ReadableConfig DEF Nothing
    <3>5. \A i \in DOMAIN n : n[i].type = "response" => DOMAIN n[i].config # {}
      BY <2>2, <2>9 DEF ShownInv, TabInv
    <3>6. \A i \in DOMAIN Append(n, m) :
              Append(n, m)[i] = m \/ (i \in DOMAIN n /\ Append(n, m)[i] = n[i])
      OBVIOUS
    <3>7. QED
      BY <2>5, <3>4, <3>5, <3>6
  <2>10. TabInv'
    BY <2>6, <2>9 DEF TabInv
  <2>11. QED
    BY <2>8, <2>10 DEF ShownInv
<1>5. QED
  BY <1>3, <1>4 DEF Users

\* What is published of a write.
LEMMA AnswerTypes ==
  ASSUME NEW b, NEW d, NEW m, OneStep(b, d, m)
  PROVE  /\ m.type \in {"response", "changed"}
         /\ m.type = "response" => d = Defaults /\ m.config = Defaults
<1>1. CASE b = Nothing /\ d = Defaults /\ \E u \in Users : m = Response(u, Defaults)
  BY <1>1 DEF Response
<1>2. CASE \E k, v : m = Changed(k, v)
  BY <1>2 DEF Changed
<1>3. (\E k \in Keys : \E v \in Typed(Kind[k]) : m = Changed(k, v)) => \E k, v : m = Changed(k, v)
  OBVIOUS
<1>4. QED
  BY <1>1, <1>2, <1>3 DEF OneStep

\* The end of a write: who asked for the defaults has them; for everybody else the file
\* is what it was about to be.
LEMMA ShownEnd ==
  ASSUME Inv, ShownInv, EndWrite, UNCHANGED <<original, doubtful, lost, tab>>
  PROVE  ShownInv'
<1>1. writing # NotWriting /\ writing' = NotWriting /\ requests' = requests
  BY DEF EndWrite, Idle
<1>2. PICK d \in Configs, b \in Configs, m \in Answer : writing = Write(d, b, m) /\ OneStep(b, d, m)
  BY <1>1 DEF Inv, Stored
<1>3. file' = d /\ Publish(m) /\ m \in News
  BY <1>2 DEF EndWrite, Write, News
<1>4. Future = d /\ Future' = d /\ ~ Answering'
  BY <1>1, <1>2, <1>3, FutureIs, FutureNext, AnsweringNext
<1>5. PICK n \in Seq(News) : n = news[Viewer]
  BY DEF Inv, Posted, Users
<1>6. news'[Viewer] = IF Listens(Viewer, m) THEN Append(n, m) ELSE n
  BY <1>3, <1>5 DEF Publish, Users
<1>7. CASE m.type = "response" /\ m.to = Viewer
  <2>1. d = Defaults /\ m.config = Defaults
    BY <1>2, <1>7, AnswerTypes
  <2>2. news'[Viewer] = Append(n, m)
    BY <1>6, <1>7 DEF Listens
  <2>3. HasResponse(news'[Viewer]) /\ Reloading' /\ Reloading
    <3>1. HasResponse(Append(n, m))
      BY <1>3, <1>7, MoreNews
    <3>2. Answering
      BY <1>2, <1>7, AnsweringIs
    <3>3. QED
      BY <2>2, <3>1, <3>2, ReloadingParts, ReloadingNext
  <2>4. \A k : Brings(Append(n, m), k, d)
    <3>1. TAKE k
    <3>2. k \in DOMAIN m.config => k \in DOMAIN d /\ m.config[k] = d[k]
      BY <2>1
    <3>3. QED
      BY <1>3, <1>7, <3>2, MoreNews
  <2>5. \A k \in Keys : FieldInv(k) => FieldInv(k)'
    BY <1>1, <1>4, <2>2, <2>3, <2>4 DEF FieldInv
  <2>6. FormInv'
    BY <2>5 DEF ShownInv, FormInv
  <2>7. ASSUME ~ lost PROVE \A i \in DOMAIN news'[Viewer] :
          news'[Viewer][i].type = "response" => DOMAIN news'[Viewer][i].config # {}
    <3>1. DOMAIN m.config # {}
      BY <2>1, DefaultsAssumption
    <3>2. \A i \in DOMAIN n : n[i].type = "response" => DOMAIN n[i].config # {}
      BY <1>5, <2>7 DEF ShownInv, TabInv
    <3>3. \A i \in DOMAIN Append(n, m) :
              Append(n, m)[i] = m \/ (i \in DOMAIN n /\ Append(n, m)[i] = n[i])
      OBVIOUS
    <3>4. QED
      BY <2>2, <3>1, <3>2, <3>3
  <2>8. TabInv'
    BY <2>3, <2>7 DEF TabInv
  <2>9. QED
    BY <2>6, <2>8 DEF ShownInv
<1>8. CASE ~ (m.type = "response" /\ m.to = Viewer)
  <2>1. ~ Listens(Viewer, m)
    <3>1. CASE m.type = "response"
      BY <1>8, <3>1 DEF Listens
    <3>2. CASE m.type = "changed"
      BY <3>2, UsersAssumption DEF Listens
    <3>3. m.type \in {"response", "changed"}
      BY <1>2, AnswerTypes
    <3>4. QED
      BY <3>1, <3>2, <3>3
  <2>2. news'[Viewer] = news[Viewer]
    BY <1>5, <1>6, <2>1
  <2>3. ~ Answering
    BY <1>2, <1>8, AnsweringIs
  <2>4. Answering' = Answering
    BY <1>1, <1>2, <1>4, <2>3 DEF Answering
  <2>5. QED
    BY <1>1, <1>4, <2>2, <2>4, ShownSame
<1>9. QED
  BY <1>7, <1>8

\* A refused field is doubtful.
LEMMA ShownRefused ==
  ASSUME Inv, ShownInv, Refusal, UNCHANGED tab
  PROVE  ShownInv'
<1>1. PICK u \in Users :
        RefuseSet(u) /\ doubtful' = doubtful \cup {Head(requests[u]).key}
        /\ UNCHANGED <<client, form, counters, lost>>
  BY DEF Refusal
<1>2. HasRequest(u, "set") /\ Asked
  BY <1>1 DEF RefuseSet, Inv, Posted
<1>3a. PICK i \in Keys : \E v :
           u = Viewer /\ Head(requests[Viewer]) = Set(i, v)
  BY <1>2, SetsAreGiven
<1>3. PICK v :
           u = Viewer /\ Head(requests[Viewer]) = Set(i, v)
  BY <1>3a
<1>4. PICK q \in Seq(Request) : q = requests[Viewer]
  BY <1>2 DEF Asked
<1>5. PICK n \in Seq(News) : n = news[Viewer]
  BY DEF Inv, Posted, Users
<1>6. /\ q # <<>> /\ requests'[Viewer] = Tail(q)
      /\ Head(q).type = "set" /\ Head(q).key = i
  BY <1>1, <1>2, <1>3, <1>4 DEF RefuseSet, HasRequest, Receive, Set, Asked, Users
<1>7. PICK m \in News : m = Refused(i)
  BY DEF News
<1>8. news'[Viewer] = Append(n, m) /\ m.type = "error"
  BY <1>1, <1>3, <1>5, <1>7 DEF RefuseSet, Publish, Listens, Refused, Set, Users
<1>9. UNCHANGED <<file, writing, original, lost>> /\ doubtful' = doubtful \cup {i}
  BY <1>1, <1>3 DEF RefuseSet, manager, form, Set
<1>10. Future' = Future /\ (Answering' <=> Answering)
  BY <1>9 DEF Future, Idle, Answering
<1>11. Reloading' <=> Reloading
  <2>1. HasGet(q) <=> HasGet(Tail(q))
    BY <1>6, FewerRequests
  <2>2. HasResponse(Append(n, m)) <=> HasResponse(n)
    BY <1>8, MoreNews
  <2>3. QED
    BY <1>4, <1>5, <1>6, <1>8, <1>10, <2>1, <2>2, ReloadingParts, ReloadingNext
<1>12. ASSUME NEW k \in Keys \ doubtful' PROVE FieldInv(k)'
  <2>1. FieldInv(k) /\ k # i
    BY <1>9, <1>12 DEF ShownInv, FormInv
  <2>2. Final(Tail(q), k) => ~ Reloading'
    BY <1>4, <1>6, <1>11, <2>1, FewerRequests DEF FieldInv
  <2>3. ~ HasGet(Tail(q)) /\ ~ Answering' => Brings(Append(n, m), k, Future')
    BY <1>4, <1>5, <1>6, <1>8, <1>10, <2>1, FewerRequests, MoreNews DEF FieldInv
  <2>4. ASSUME ~ Reloading', k \in DOMAIN original PROVE FormIsRight(k)'
    <3>1. FormIsRight(k)
      BY <1>11, <2>1, <2>4 DEF FieldInv
    <3>2. LastSet(Tail(q), k, original[k]) /\ (NoSet(Tail(q), k) => NoSet(q, k))
      BY <1>4, <1>6, <2>1, <3>1, FewerRequests DEF FormIsRight, SetsIt
    <3>3. QED
      BY <1>4, <1>6, <1>9, <1>10, <3>1, <3>2 DEF FormIsRight
  <2>5. QED
    BY <1>6, <1>8, <1>9, <2>2, <2>3, <2>4 DEF FieldInv
<1>13. TabInv'
  <2>1. \A j \in DOMAIN Append(n, m) :
            Append(n, m)[j] = m \/ (j \in DOMAIN n /\ Append(n, m)[j] = n[j])
    OBVIOUS
  <2>2. QED
    BY <1>5, <1>8, <1>9, <1>11, <2>1 DEF ShownInv, TabInv
<1>14. QED
  BY <1>12, <1>13 DEF ShownInv, FormInv

\* The form takes the settings that are sent: the last of them are right.
LEMMA ShownPopulated ==
  ASSUME Inv, ShownInv, Populate, UNCHANGED tab
  PROVE  ShownInv'
<1>1. PICK n \in Seq(News) : n = news[Viewer]
  BY DEF Inv, Posted, Users
<1>2. PICK h \in News : n # <<>> /\ h = Head(n) /\ h.type = "response"
  BY <1>1 DEF Populate, Hears, HasNews
<1>3. news'[Viewer] = Tail(n) /\ original' = h.config /\ h.config \in Configs
  BY <1>1, <1>2, ResponsesAreReadable DEF Populate, Hears, TakeNews, Inv, Posted, Users
<1>4. UNCHANGED <<file, writing, requests, doubtful, lost>>
  BY DEF Populate, manager, history
<1>5. Future' = Future /\ Answering' = Answering
  BY <1>4 DEF Future, Idle, Answering
<1>6. PICK q \in Seq(Request) : q = requests[Viewer]
  BY DEF Inv, Posted, Asked
<1>7. Reloading
  BY <1>1, <1>2, FewerNews, ReloadingParts
<1>8. ASSUME NEW k \in Keys, FieldInv(k) PROVE FieldInv(k)'
  <2>1. ~ Final(q, k)
    BY <1>6, <1>7, <1>8 DEF FieldInv
  <2>2. ~ HasGet(q) /\ ~ Answering' => Brings(n, k, Future)
    BY <1>1, <1>5, <1>6, <1>8 DEF FieldInv
  <2>3. ~ HasGet(q) /\ ~ Answering' => Brings(Tail(n), k, Future')
    BY <1>2, <1>5, <2>2, FewerNews
  <2>4. ASSUME ~ Reloading', k \in DOMAIN original' PROVE FormIsRight(k)'
    <3>1. ~ HasGet(q) /\ ~ Answering' /\ ~ HasResponse(Tail(n))
      BY <1>3, <1>4, <1>6, <2>4, ReloadingNext
    <3>2. NoSet(q, k)
      BY <2>1, <3>1, FinalWithoutGet
    <3>3. k \in DOMAIN Future /\ h.config[k] = Future[k]
      BY <1>2, <1>3, <2>2, <2>4, <3>1, FewerNews
    <3>5. LastSet(q, k, original'[k])
      BY <3>2 DEF NoSet, LastSet
    <3>6. QED
      BY <1>3, <1>4, <1>5, <1>6, <3>3, <3>5 DEF FormIsRight
  <2>5. QED
    BY <1>3, <1>4, <1>6, <2>1, <2>3, <2>4 DEF FieldInv
<1>9. FormInv'
  BY <1>4, <1>8 DEF ShownInv, FormInv
<1>10. ASSUME ~ lost PROVE /\ DOMAIN original' # {}
                          /\ \A i \in DOMAIN Tail(n) :
                               Tail(n)[i].type = "response" => DOMAIN Tail(n)[i].config # {}
  <2>1. \A i \in DOMAIN n : n[i].type = "response" => DOMAIN n[i].config # {}
    BY <1>1, <1>10 DEF ShownInv, TabInv
  <2>2. 1 \in DOMAIN n /\ h = n[1] /\ \A i \in DOMAIN Tail(n) : i + 1 \in DOMAIN n /\ Tail(n)[i] = n[i + 1]
    BY <1>2
  <2>3. QED
    BY <1>2, <1>3, <2>1, <2>2
<1>11. TabInv'
  BY <1>3, <1>4, <1>10 DEF TabInv
<1>12. QED
  BY <1>9, <1>11 DEF ShownInv

\* An error is no setting.
LEMMA ShownMarked ==
  ASSUME Inv, ShownInv, MarkError, UNCHANGED tab
  PROVE  ShownInv'
<1>1. PICK n \in Seq(News) : n = news[Viewer]
  BY DEF Inv, Posted, Users
<1>2. n # <<>> /\ Head(n).type = "error" /\ news'[Viewer] = Tail(n)
  BY <1>1 DEF MarkError, Hears, HasNews, TakeNews, Inv, Posted, Users
<1>3. UNCHANGED <<file, writing, requests, original, doubtful, lost>>
  BY DEF MarkError, manager, history
<1>4. Future' = Future /\ Answering' = Answering
  BY <1>3 DEF Future, Idle, Answering
<1>5. HasResponse(n) <=> HasResponse(Tail(n))
  BY <1>2, FewerNews
<1>6. Reloading' <=> Reloading
  BY <1>1, <1>2, <1>3, <1>4, <1>5, ReloadingParts, ReloadingNext
<1>7. \A k, f : Brings(n, k, f) => Brings(Tail(n), k, f)
  BY <1>2, FewerNews
<1>8. \A k : FieldInv(k) => FieldInv(k)'
  BY <1>1, <1>2, <1>3, <1>4, <1>6, <1>7 DEF FieldInv, FormIsRight
<1>9. FormInv'
  BY <1>3, <1>8 DEF ShownInv, FormInv
<1>10. TabInv'
  <2>1. \A i \in DOMAIN Tail(n) : i + 1 \in DOMAIN n /\ Tail(n)[i] = n[i + 1]
    BY <1>2
  <2>2. QED
    BY <1>1, <1>2, <1>3, <1>6, <2>1 DEF ShownInv, TabInv
<1>11. QED
  BY <1>9, <1>10 DEF ShownInv

\* A save sends each changed field once, with the value that the form then takes for
\* stored.
LEMMA SavesSendWhatIsShown ==
  ASSUME Filled, NEW order \in Orders(ToSave)
  PROVE  /\ ~ HasGet(SetMessages(order))
         /\ \A k \in Keys \ ToSave : NoSet(SetMessages(order), k)
         /\ \A k \in ToSave :
              /\ ~ NoSet(SetMessages(order), k)
              /\ \A i \in DOMAIN SetMessages(order) :
                   SetsIt(SetMessages(order)[i], k) => SetMessages(order)[i].value = fields[k]
<1>1. ToSave \subseteq DOMAIN fields /\ IsFiniteSet(ToSave)
  <2>1. ToSave \subseteq Keys
    BY DEF ToSave, Filled
  <2>2. QED
    BY <2>1, KindAssumption, FS_Subset DEF ToSave
<1>2. PICK n \in Nat : n = Cardinality(ToSave)
  BY <1>1, FS_CardinalityType
<1>3. order \in [1..n -> ToSave] /\ IsInjective(order)
  BY <1>2 DEF Orders
<1>4. \A i \in DOMAIN order : SetMessages(order)[i] = Set(order[i], fields[order[i]])
  BY DEF SetMessages
<1>5. DOMAIN SetMessages(order) = DOMAIN order
  BY DEF SetMessages
<1>6. ~ HasGet(SetMessages(order))
  BY <1>4, <1>5 DEF HasGet, Set
<1>7. \A k : \A i \in DOMAIN order : SetsIt(SetMessages(order)[i], k) <=> order[i] = k
  <2>1. TAKE k
  <2>2. TAKE i \in DOMAIN order
  <2>3. SetMessages(order)[i] = Set(order[i], fields[order[i]])
    BY <1>4
  <2>4. QED
    BY <2>3 DEF SetsIt, Set
<1>8. \A k \in Keys \ ToSave : NoSet(SetMessages(order), k)
  BY <1>3, <1>5, <1>7 DEF NoSet
<1>9. \A k \in ToSave : \E i \in DOMAIN order : order[i] = k
  <2>1. order \in Injection(1..n, ToSave)
    BY <1>3 DEF Injection, IsInjective
  <2>2. Cardinality(1..n) = Cardinality(ToSave)
    BY <1>2, FS_Interval
  <2>3. order \in Surjection(1..n, ToSave)
    BY <1>1, <2>1, <2>2, FS_Injection
  <2>4. QED
    BY <1>3, <2>3 DEF Surjection
<1>10. ASSUME NEW k \in ToSave
       PROVE  /\ ~ NoSet(SetMessages(order), k)
              /\ \A i \in DOMAIN SetMessages(order) :
                   SetsIt(SetMessages(order)[i], k) => SetMessages(order)[i].value = fields[k]
  BY <1>4, <1>5, <1>7, <1>9 DEF NoSet, Set
<1>11. QED
  BY <1>6, <1>8, <1>10

(* A save sends every value that stands in a marked field, and marks none any longer. *)
LEMMA ShownSaved ==
  ASSUME Inv, ShownInv, Save, UNCHANGED tab
  PROVE  ShownInv'
<1>1. Filled /\ Missing = {} /\ UNCHANGED <<file, writing, news, lost>>
  BY DEF Inv, Save, manager
<1>2. PICK order \in Orders(ToSave) : Send(Viewer, SetMessages(order))
  BY DEF Save
<1>3. PICK ms \in Seq(Request) : ms = SetMessages(order)
  BY <1>1, SavesAreRequests
<1>4. PICK q \in Seq(Request) : q = requests[Viewer]
  BY DEF Inv, Posted, Asked
<1>5. requests'[Viewer] = q \o ms
  BY <1>2, <1>3, <1>4 DEF Send, Inv, Posted, Asked, Users
<1>6. Future' = Future /\ Answering' = Answering
  BY <1>1 DEF Future, Idle, Answering
<1>7. ~ HasGet(ms) /\ (HasGet(q \o ms) <=> HasGet(q))
  <2>1. ~ HasGet(ms)
    BY <1>1, <1>3, SavesSendWhatIsShown
  <2>2. QED
    BY <2>1, MoreRequests
<1>8. Reloading' <=> Reloading
  BY <1>1, <1>4, <1>5, <1>6, <1>7, ReloadingParts, ReloadingNext
<1>9. /\ DOMAIN original' = DOMAIN original
      /\ \A k \in DOMAIN original : original'[k] = IF k \in ToSave THEN fields[k] ELSE original[k]
      /\ doubtful' = IF Reloading THEN doubtful \cup ToSave ELSE doubtful
  BY DEF Save, Recorded
<1>10. ASSUME NEW k \in Keys \ doubtful' PROVE FieldInv(k)'
  <2>1. FieldInv(k) /\ k \in Keys
    BY <1>9, <1>10 DEF ShownInv, FormInv
  <2>2. ~ HasGet(q \o ms) /\ ~ Answering' => Brings(news'[Viewer], k, Future')
    BY <1>1, <1>4, <1>6, <1>7, <2>1 DEF FieldInv
  <2>3. CASE k \in ToSave
    <3>1. ~ Reloading /\ ~ Reloading'
      BY <1>8, <1>9, <1>10, <2>3
    <3>2. /\ ~ NoSet(ms, k)
          /\ \A i \in DOMAIN ms : SetsIt(ms[i], k) => ms[i].value = fields[k]
      BY <1>1, <1>3, <2>3, SavesSendWhatIsShown
    <3>3. LastSet(q \o ms, k, fields[k]) /\ ~ NoSet(q \o ms, k)
      BY <3>2, MoreRequests
    <3>4. k \in DOMAIN original' => FormIsRight(k)'
      BY <1>5, <1>9, <2>3, <3>3 DEF FormIsRight
    <3>5. QED
      BY <1>5, <2>2, <3>1, <3>4 DEF FieldInv
  <2>4. CASE k \notin ToSave
    <3>1. NoSet(ms, k)
      BY <1>1, <1>3, <2>1, <2>4, SavesSendWhatIsShown
    <3>2. Final(q \o ms, k) => ~ Reloading'
      <4>1. Final(q \o ms, k) => Final(q, k)
        BY <3>1, MoreRequests
      <4>2. QED
        BY <1>4, <1>8, <2>1, <4>1 DEF FieldInv
    <3>3. ASSUME ~ Reloading', k \in DOMAIN original' PROVE FormIsRight(k)'
      <4>1. FormIsRight(k) /\ original'[k] = original[k]
        BY <1>8, <1>9, <2>1, <2>4, <3>3 DEF FieldInv
      <4>2. LastSet(q \o ms, k, original[k]) /\ (NoSet(q \o ms, k) => NoSet(q, k))
        BY <1>4, <3>1, <4>1, MoreRequests DEF FormIsRight
      <4>3. QED
        BY <1>4, <1>5, <1>6, <4>1, <4>2 DEF FormIsRight
    <3>4. QED
      BY <1>5, <2>2, <3>2, <3>3 DEF FieldInv
  <2>5. QED
    BY <2>3, <2>4
<1>11. TabInv'
  BY <1>1, <1>8, <1>9 DEF ShownInv, TabInv
<1>12. QED
  BY <1>10, <1>11 DEF ShownInv, FormInv

\* A reload makes everything certain again, in time.
LEMMA ShownRequested ==
  ASSUME Inv, ShownInv, RequestConfig
  PROVE  ShownInv'
<1>1. UNCHANGED <<file, writing, news, original, lost>>
  BY DEF RequestConfig, manager, form
<1>2. PICK ms \in Seq(Request) : ms = <<Get(Viewer, FALSE)>>
  <2>1. <<Get(Viewer, FALSE)>> \in Seq(Request)
    BY DEF Request
  <2>2. QED
    BY <2>1
<1>3. PICK q \in Seq(Request) : q = requests[Viewer]
  BY DEF Inv, Posted, Asked
<1>4. requests'[Viewer] = q \o ms
  BY <1>2, <1>3 DEF RequestConfig, Send, Inv, Posted, Asked, Users
<1>5. HasGet(ms) /\ \A k : NoSet(ms, k)
  BY <1>2 DEF HasGet, NoSet, SetsIt, Get
<1>6. HasGet(q \o ms) /\ \A k : ~ Final(q \o ms, k)
  BY <1>5, MoreRequests
<1>7. Reloading'
  BY <1>4, <1>6, ReloadingNext
<1>8. \A k : FieldInv(k)'
  BY <1>4, <1>6, <1>7 DEF FieldInv
<1>9. TabInv'
  BY <1>1, <1>7 DEF ShownInv, TabInv
<1>10. QED
  BY <1>8, <1>9 DEF ShownInv, FormInv

\* A new start shows nothing.
LEMMA ShownRestart ==
  ASSUME Restart
  PROVE  ShownInv'
<1>1. /\ requests'[Viewer] = <<>> /\ news'[Viewer] = <<>> /\ original' = Nothing /\ tab' = "none"
  BY DEF Restart, ManagerRestart, Users
<1>2. /\ DOMAIN original' = {}
      /\ \A k : ~ Final(<<>>, k)
      /\ \A k, f : Brings(<<>>, k, f)
  BY <1>1 DEF Nothing, Final, Brings
<1>3. \A k : FieldInv(k)'
  BY <1>1, <1>2 DEF FieldInv
<1>4. TabInv'
  BY <1>1 DEF TabInv
<1>5. QED
  BY <1>3, <1>4 DEF ShownInv, FormInv

(* Every step keeps the relation between the file, what is on its way and the form. *)
LEMMA ShownStep ==
  ASSUME Inv, ShownInv, [Next]_vars
  PROVE  ShownInv'
<1>1. ASSUME UNCHANGED <<file, writing>> PROVE Future' = Future /\ Answering' = Answering
  BY <1>1 DEF Future, Idle, Answering
<1>2. news \in [Users -> Seq(News)] /\ DOMAIN requests = Users
  BY DEF Inv, Posted, Asked
<1>3. CASE Manage /\ UNCHANGED moduleList
  <2>1. UNCHANGED <<original, doubtful, lost, tab>>
    BY <1>3 DEF Manage, form, history, moduleList
  <2>2. QED
    BY <1>3, <2>1, ShownEnd, ShownGet, ShownSeed, ShownSet DEF Manage
<1>4. CASE Refusal /\ UNCHANGED moduleList
  BY <1>4, ShownRefused DEF moduleList
<1>5. CASE FailedWrite
  BY <1>5 DEF FailedWrite, ShownInv, FormInv, TabInv
<1>6. CASE Client /\ UNCHANGED moduleList
  <2>1. UNCHANGED <<file, writing, original, doubtful, lost, tab>>
    BY <1>6 DEF Client, AskConfig, LoadConfig, ApplyChange, manager, form, history, moduleList
  <2>2. requests'[Viewer] = requests[Viewer] /\ news'[Viewer] = news[Viewer]
    BY <1>2, <1>6, UsersAssumption
      DEF Client, AskConfig, LoadConfig, ApplyChange, Send, TakeNews, Users
  <2>3. QED
    BY <1>1, <2>1, <2>2, ShownSame
<1>7. CASE Window /\ UNCHANGED moduleList
  BY <1>7, ShownPopulated, ShownMarked DEF Window, moduleList
<1>8. CASE Save /\ UNCHANGED moduleList
  BY <1>8, ShownSaved DEF moduleList
<1>9. CASE (SaveBlocked \/ \E k \in Keys : Edit(k)) /\ UNCHANGED moduleList
  <2>1. UNCHANGED <<file, writing, requests, news, original, doubtful, lost, tab>>
    BY <1>9 DEF SaveBlocked, Edit, manager, mail, history, moduleList
  <2>2. QED
    BY <1>1, <2>1, ShownSame
<1>10. CASE Reload \/ AddTab
  BY <1>10, ShownRequested DEF Reload, AddTab
<1>11. CASE Listing \/ RefreshAll
  <2>1. UNCHANGED <<file, writing, requests, news, original, doubtful, lost>>
    BY <1>11 DEF Listing, RefreshAll, manager, mail, form, history
  <2>2. tab' # "none" => tab # "none"
    BY <1>11 DEF Listing, RefreshAll, StartUi, OpenWindow, AnswerList, HearList, UpdateTab,
                 ProcessExits, AskList, messages
  <2>3. QED
    BY <1>1, <2>1, <2>2, ShownSame
<1>12. CASE Restart
  BY <1>12, ShownRestart
<1>13. CASE UNCHANGED vars
  <2>1. UNCHANGED <<file, writing, requests, news, original, doubtful, lost, tab>>
    BY <1>13 DEF vars, manager, mail, form, history, moduleList
  <2>2. QED
    BY <1>1, <2>1, ShownSame
<1>14. QED
  BY <1>3, <1>4, <1>5, <1>6, <1>7, <1>8, <1>9, <1>10, <1>11, <1>12, <1>13 DEF Next

(* At the start there is no form. *)
LEMMA InitShownInv == Init => ShownInv
<1> SUFFICES ASSUME Init PROVE ShownInv
  OBVIOUS
<1>1. /\ requests[Viewer] = <<>> /\ news[Viewer] = <<>> /\ original = Nothing /\ tab = "none"
  BY DEF Init, ManagerInit, FormInit, ListInit, Users
<1>2. /\ DOMAIN original = {}
      /\ \A k : ~ Final(<<>>, k)
      /\ \A k, f : Brings(<<>>, k, f)
  BY <1>1 DEF Nothing, Final, Brings
<1>3. \A k : FieldInv(k)
  BY <1>1, <1>2 DEF FieldInv
<1>4. TabInv
  BY <1>1 DEF TabInv
<1>5. QED
  BY <1>3, <1>4 DEF ShownInv, FormInv

(* What the form believes of the file, always. *)
LEMMA ShownInvariance == Spec => []ShownInv
<1>1. Inv /\ ShownInv /\ [Next]_vars => ShownInv'
  BY ShownStep
<1>2. QED
  BY InitShownInv, Invariance, <1>1, PTL DEF Spec

\* Once nothing is on its way to config_ui, a tab has its form unless a write has failed,
\* and the form is right about what is stored, but for the fields whose last save was
\* refused, was lost or overtook a reload (config_ui/module_tab.py, _on_save(),
\* populate(); config_manager, on_config_set()).
THEOREM FormFollowsFileCorrect == Spec => []FormFollowsFile
<1>1. Inv /\ ShownInv => FormFollowsFile
  <2> SUFFICES ASSUME Inv, ShownInv, Quiet(Viewer)
                  PROVE  /\ tab # "none" /\ ~ lost => original # Nothing
                         /\ \A k \in DOMAIN original \ doubtful :
                              k \in DOMAIN file /\ file[k] \in {original[k], Coerced(Kind[k], original[k])}
    BY DEF FormFollowsFile
  <2>1. /\ writing = NotWriting /\ requests[Viewer] = <<>> /\ news[Viewer] = <<>>
    BY DEF Quiet, Idle, Users
  <2>2. ~ Reloading /\ Future = file
    BY <2>1, AnsweringIs, FutureIs, ReloadingParts DEF HasGet, HasResponse
  <2>3. tab # "none" /\ ~ lost => original # Nothing
    BY <2>2 DEF ShownInv, TabInv, Nothing
  <2>4. ASSUME NEW k \in DOMAIN original \ doubtful
        PROVE  k \in DOMAIN file /\ file[k] \in {original[k], Coerced(Kind[k], original[k])}
    <3>1. FieldInv(k)
      BY <2>4 DEF ShownInv, FormInv, Inv, Filled
    <3>2. NoSet(requests[Viewer], k)
      BY <2>1 DEF NoSet
    <3>3. QED
      BY <2>2, <2>4, <3>1, <3>2 DEF FieldInv, FormIsRight
  <2>5. QED
    BY <2>3, <2>4
<1>2. QED
  BY Invariance, ShownInvariance, <1>1, PTL

============================================================================
