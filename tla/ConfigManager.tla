--------------------------- MODULE ConfigManager ---------------------------
(***************************************************************************)
(* v2/modules/config_manager: the YAML file of one module, the schema the  *)
(* manager keeps for it, and the handlers of config.get and config.set.    *)
(* A handler runs in the receive loop of the bus, one at a time; a write   *)
(* of the file truncates it first.  Messages from one sender arrive in the *)
(* order they were published.                                              *)
(***************************************************************************)
EXTENDS ConfigSchema, Sequences

CONSTANTS
  Defaults,  \* the defaults of the schema
  Installed, \* the file found when the system is first started
  Owner,     \* the module whose settings these are
  Viewer,    \* config_ui
  MaxFails   \* writes that fail

Users == {Owner, Viewer}

ASSUME DefaultsAssumption ==
  /\ DOMAIN Defaults # {}
  /\ \A c \in {Defaults, Installed} :
       /\ DOMAIN c \subseteq Keys /\ c = [k \in DOMAIN c |-> c[k]]
       /\ \A k \in DOMAIN c : c[k] \in Typed(Kind[k])
ASSUME UsersAssumption == Owner # Viewer /\ MaxFails \in Nat

VARIABLES
  file,        \* what the file reads as: unreadable, empty and missing are one
  registered,  \* the schema of the module is in _schemas
  writing,     \* the write that has truncated the file, or NotWriting
  requests,    \* messages to the manager that wait, for each sender
  news,        \* messages from the manager that wait, for each receiver
  fails

manager == <<file, registered, writing, fails>>
mail == <<requests, news>>

NotWriting == [data |-> Nothing, before |-> Nothing, answer |-> {}]

ManagerInit ==
  /\ file = Installed /\ registered = FALSE /\ writing = NotWriting
  /\ requests = [u \in Users |-> <<>>] /\ news = [u \in Users |-> <<>>]
  /\ fails = 0

Idle == writing = NotWriting

Get(u, withSchema) == [type |-> "get", from |-> u, schema |-> withSchema]
Set(k, v)          == [type |-> "set", key |-> k, value |-> v]
Response(u, c)     == [type |-> "response", to |-> u, config |-> c]
Changed(k, v)      == [type |-> "changed", key |-> k, value |-> v]
Refused(k)         == [type |-> "error", key |-> k]

\* The topics each has subscribed to: config_ui does not listen to
\* config.changed, nor the module to config.error.  An answer to a config.get
\* is for who asked.
Listens(u, m) ==
  CASE m.type = "response" -> m.to = u
    [] m.type = "changed"  -> u = Owner
    [] m.type = "error"    -> u = Viewer

Publish(m) ==
  news' = [u \in Users |-> IF Listens(u, m) THEN Append(news[u], m) ELSE news[u]]

Receive(u) == requests' = [requests EXCEPT ![u] = Tail(@)]

HasRequest(u, type) ==
  Idle /\ requests[u] # <<>> /\ Head(requests[u]).type = type

-----------------------------------------------------------------------------
\* open(path, "w") of _save_config(); "answer" is published once it is written.
BeginWrite(data, m) ==
  /\ writing' = [data |-> data, before |-> file, answer |-> {m}]
  /\ file' = Nothing

\* on_config_get() for a module that has a file.
HandleGet(u) ==
  /\ HasRequest(u, "get")
  /\ registered' = (registered \/ Head(requests[u]).schema)
  /\ file # Nothing \/ ~ registered'
  /\ Receive(u)
  /\ Publish(Response(u, file))
  /\ UNCHANGED <<file, writing, fails>>

\* on_config_get() finds nothing: the defaults of the schema are stored.
SeedDefaults(u) ==
  /\ HasRequest(u, "get")
  /\ registered' = (registered \/ Head(requests[u]).schema)
  /\ file = Nothing /\ registered'
  /\ Receive(u)
  /\ BeginWrite(Defaults, Response(u, Defaults))
  /\ UNCHANGED <<news, fails>>

\* What on_config_set() makes of a value.
Checked(m) ==
  IF registered THEN Coerced(Kind[m.key], m.value) ELSE m.value

\* Fault: the other settings are not loaded first.
WithAlone(k, v) == [i \in {k} |-> v]

\* data[key] = value
With(k, v) ==
  [i \in DOMAIN file \cup {k} |-> IF i = k THEN v ELSE file[i]]

HandleSet(u) ==
  /\ HasRequest(u, "set")
  /\ LET m == Head(requests[u]) IN
       /\ Checked(m) # Rejected
       /\ BeginWrite(With(m.key, Checked(m)), Changed(m.key, Checked(m)))
  /\ Receive(u)
  /\ UNCHANGED <<registered, news, fails>>

\* config.error: the value is not stored.
RefuseSet(u) ==
  /\ HasRequest(u, "set") /\ Checked(Head(requests[u])) = Rejected
  /\ Receive(u)
  /\ Publish(Refused(Head(requests[u]).key))
  /\ UNCHANGED manager

\* The data are in the file: the response or config.changed is published.
EndWrite ==
  /\ ~ Idle
  /\ file' = writing.data
  /\ \E m \in writing.answer : Publish(m)
  /\ writing' = NotWriting
  /\ UNCHANGED <<registered, fails, requests>>

\* _save_config() returns False: open() has failed and the file is what it was,
\* or the disk is full and the file has the beginning of the data.  A set is not
\* answered then, a get is, with nothing.
WriteFails ==
  /\ ~ Idle /\ fails < MaxFails
  /\ fails' = fails + 1
  /\ file' \in {writing.before} \cup Torn(writing.data)
  /\ \E m \in writing.answer :
       IF m.type = "response" THEN Publish(Response(m.to, Nothing))
                              ELSE UNCHANGED news
  /\ writing' = NotWriting
  /\ UNCHANGED <<registered, requests>>

\* The process ends and the system is started again: only the file is left, with
\* as much of a write that was under way as had reached it.
ManagerRestart ==
  /\ IF Idle THEN UNCHANGED file ELSE file' \in Torn(writing.data)
  /\ writing' = NotWriting
  /\ registered' = FALSE
  /\ requests' = [u \in Users |-> <<>>] /\ news' = [u \in Users |-> <<>>]
  /\ UNCHANGED fails

\* What the file is worth while a write is under way: what it was before.
Settled == IF Idle THEN file ELSE writing.before
=============================================================================
