--------------------------- MODULE Configuration ---------------------------
(***************************************************************************)
(* The settings of one module and those who keep a copy of them:           *)
(* config_manager has the file, the module a dictionary that it fills      *)
(* through shared/config_client.py, and config_ui a form                   *)
(* (config_ui/module_tab.py), in the tab of the module, in which the user  *)
(* changes them.                                                           *)
(***************************************************************************)
EXTENDS ConfigManager, FiniteSets, SequencesExt

CONSTANTS MaxEdits, MaxSaves, MaxReloads, MaxRestarts

ASSUME BoundsAssumption ==
  {MaxEdits, MaxSaves, MaxReloads, MaxRestarts} \subseteq Nat

-----------------------------------------------------------------------------
(* How config_ui comes to show the module: it asks for the list of         *)
(* modules, main.py answers from its list of processes, and the window has *)
(* a tab for each module of the answer.  config_ui's bus thread runs       *)
(* before there is a window; what it has for the window it queues for Qt's *)
(* thread.                                                                 *)

VARIABLES
  process,   \* of the module: "active" or "exited"
  uiStarted, \* config_ui has handled system.start
  window,    \* _window # None
  asks,      \* system.get_modules on their way
  lists,     \* system.modules_response on their way: the status of the module
  slots,     \* add_or_update_module_tab() queued for the window
  tab        \* the status its tab shows, "none": no tab

messages == <<asks, lists, slots>>
moduleList == <<process, uiStarted, window, messages, tab>>

ListInit ==
  /\ process = "active" /\ uiStarted = FALSE /\ window = FALSE
  /\ asks = 0 /\ lists = <<>> /\ slots = <<>> /\ tab = "none"

\* on_system_start() asks for the list.
StartUi ==
  /\ ~ uiStarted
  /\ uiStarted' = TRUE
  /\ asks' = asks + 1
  /\ UNCHANGED <<process, window, lists, slots, tab>>

\* run() has announced the module before it makes the window.
OpenWindow ==
  /\ ~ window
  /\ window' = TRUE
  /\ UNCHANGED <<process, uiStarted, messages, tab>>

\* _on_refresh_all().
AskList ==
  /\ window
  /\ asks' = asks + 1
  /\ UNCHANGED <<process, uiStarted, window, lists, slots, tab>>

ProcessExits ==
  /\ process = "active"
  /\ process' = "exited"
  /\ UNCHANGED <<uiStarted, window, messages, tab>>

\* main.py, _responder(), _module_status().
AnswerList ==
  /\ asks > 0
  /\ asks' = asks - 1
  /\ lists' = Append(lists, process)
  /\ UNCHANGED <<process, uiStarted, window, slots, tab>>

\* on_modules_response(), _invoke(): lost before the subscription, and if there
\* is no window yet.
HearList ==
  /\ lists # <<>>
  /\ lists' = Tail(lists)
  /\ slots' = IF uiStarted /\ window THEN Append(slots, Head(lists)) ELSE slots
  /\ UNCHANGED <<process, uiStarted, window, asks, tab>>

\* add_or_update_module_tab(): a module that has its tab, and one that is new.
UpdateTab ==
  /\ slots # <<>> /\ tab # "none"
  /\ tab' = Head(slots) /\ slots' = Tail(slots)
  /\ UNCHANGED <<process, uiStarted, window, asks, lists>>

NewTab ==
  /\ slots # <<>> /\ tab = "none"
  /\ tab' = Head(slots) /\ slots' = Tail(slots)
  /\ UNCHANGED <<process, uiStarted, window, asks, lists>>

-----------------------------------------------------------------------------
(* The settings, the copy of the module and the form.                      *)

VARIABLES
  copy,      \* _config of the module
  asked,     \* the module has called ConfigClient.get()
  loaded,    \* and has had its answer
  original,  \* _original of the form: what it takes the file to hold
  fields,    \* what its widgets give
  marked,    \* fields with an error beside them
  edits, saves, reloads, restarts,
  \* No state of the program:
  lost,      \* a write of this run has failed
  spoilt,    \* a write has failed or has been cut off, in this run or an earlier one
  doubtful   \* fields whose last save was refused, failed, or overtook a reload

client == <<copy, asked, loaded>>
form == <<original, fields, marked>>
counters == <<edits, saves, reloads, restarts>>
history == <<lost, spoilt, doubtful>>
vars == <<manager, mail, client, form, counters, history, moduleList>>

NoFields == Nothing

ClientInit == copy = Defaults /\ asked = FALSE /\ loaded = FALSE
FormInit == original = Nothing /\ fields = NoFields /\ marked = {}

Init ==
  /\ ManagerInit /\ ClientInit /\ FormInit /\ ListInit
  /\ edits = 0 /\ saves = 0 /\ reloads = 0 /\ restarts = 0
  /\ lost = FALSE /\ spoilt = FALSE /\ doubtful = {}

Send(u, ms) == requests' = [requests EXCEPT ![u] = @ \o ms]
TakeNews(u) == news' = [news EXCEPT ![u] = Tail(@)]
HasNews(u, type) == news[u] # <<>> /\ Head(news[u]).type = type

-----------------------------------------------------------------------------
(* The module, through ConfigClient.                                       *)

\* on_system_start(): get(schema=...), once.
AskConfig ==
  /\ ~ asked
  /\ asked' = TRUE
  /\ Send(Owner, <<Get(Owner, TRUE)>>)
  /\ UNCHANGED <<manager, news, copy, loaded, form, counters, history>>

\* What the module makes of the settings it is sent: those it does not know
\* are left out.
Merged(c) ==
  [k \in DOMAIN Defaults |-> IF k \in DOMAIN c THEN c[k] ELSE Defaults[k]]

\* _on_config_response(), on_config_loaded().
LoadConfig ==
  /\ HasNews(Owner, "response")
  /\ copy' = Merged(Head(news[Owner]).config)
  /\ loaded' = TRUE
  /\ TakeNews(Owner)
  /\ UNCHANGED <<manager, requests, asked, form, counters, history>>

\* Fault: a change is received and not applied.
ChangeIgnored ==
  /\ HasNews(Owner, "changed")
  /\ TakeNews(Owner)
  /\ UNCHANGED <<manager, requests, client, form, counters, history>>

\* _on_config_changed().
ApplyChange ==
  /\ HasNews(Owner, "changed")
  /\ LET m == Head(news[Owner]) IN
       copy' = [k \in DOMAIN copy |-> IF k = m.key THEN m.value ELSE copy[k]]
  /\ TakeNews(Owner)
  /\ UNCHANGED <<manager, requests, asked, loaded, form, counters, history>>

-----------------------------------------------------------------------------
(* The form of config_ui.                                                  *)

\* A reload that has not reached the form.
Reloading ==
  \/ \E i \in DOMAIN requests[Viewer] : requests[Viewer][i].type = "get"
  \/ \E i \in DOMAIN news[Viewer] : news[Viewer][i].type = "response"
  \/ \E m \in writing.answer : m.type = "response" /\ m.to = Viewer

\* _request_config().
RequestConfig ==
  /\ Send(Viewer, <<Get(Viewer, FALSE)>>)
  /\ doubtful' = {}
  /\ UNCHANGED <<manager, news, client, form, edits, saves, restarts, lost,
                 spoilt>>

\* _on_refresh().
Reload ==
  /\ tab # "none" /\ reloads < MaxReloads
  /\ reloads' = reloads + 1
  /\ RequestConfig
  /\ UNCHANGED moduleList

\* add_or_update_module_tab() makes a tab, and asks for what it is to show.
AddTab ==
  /\ NewTab
  /\ RequestConfig
  /\ UNCHANGED reloads

\* Whatever else is done about the list.  config_ui starts at a level after the
\* module has registered its schema.
Listing ==
  /\ \/ registered /\ StartUi
     \/ OpenWindow \/ AnswerList \/ HearList \/ UpdateTab \/ ProcessExits
  /\ UNCHANGED <<manager, mail, client, form, counters, history>>

RefreshAll ==
  /\ reloads < MaxReloads
  /\ reloads' = reloads + 1
  /\ AskList
  /\ UNCHANGED <<manager, mail, client, form, edits, saves, restarts, history>>

\* on_config_response(), on_config_error(): what concerns config_ui is passed on
\* to the window.
Hears(type) == HasNews(Viewer, type) /\ TakeNews(Viewer)

\* populate_module_config(), populate().
Populate ==
  /\ Hears("response")
  /\ LET c == Head(news[Viewer]).config IN
       /\ original' = c
       /\ fields' = [k \in DOMAIN c |-> Shown(Kind[k], c[k])]
  /\ marked' = {}
  /\ UNCHANGED <<manager, requests, client, counters, history>>

\* The user changes a widget.
Edit(k) ==
  /\ k \in DOMAIN fields /\ edits < MaxEdits
  /\ edits' = edits + 1
  /\ \E v \in Entered(Kind[k]) \ {fields[k]} : fields' = [fields EXCEPT ![k] = v]
  /\ UNCHANGED <<manager, mail, client, original, marked, saves, reloads,
                 restarts, history>>

\* _validate(): what must not be empty and is.
Missing == {k \in DOMAIN fields : fields[k] = Text("")}

\* What _on_save() finds changed; an optional message that is left out is
\* found again each time.
ToSave == {k \in DOMAIN fields : fields[k] # Compared(Kind[k], original[k]) \/ fields[k] = None}

SaveBlocked ==
  /\ Missing # {}
  /\ marked' = Missing
  /\ UNCHANGED <<manager, mail, client, original, fields, counters, history>>

\* The fields in the order in which they are saved, which matters to nobody.
Orders(ks) == {s \in [1..Cardinality(ks) -> ks] : IsInjective(s)}

SetMessages(order) == [i \in DOMAIN order |-> Set(order[i], fields[order[i]])]

\* Fault: the form forgets what it has sent.
Unrecorded(ks) == original

\* self._original.update(changed): the form takes for stored what it has sent.
Recorded(ks) ==
  [k \in DOMAIN original |-> IF k \in ks THEN fields[k] ELSE original[k]]

\* _on_save()
Save ==
  /\ Missing = {} /\ saves < MaxSaves
  /\ saves' = saves + 1
  /\ marked' = {}
  /\ original' = Recorded(ToSave)
  /\ \E order \in Orders(ToSave) : Send(Viewer, SetMessages(order))
  /\ doubtful' = IF Reloading THEN doubtful \cup ToSave ELSE doubtful
  /\ UNCHANGED <<manager, news, client, fields, edits, reloads,
                 restarts, lost, spoilt>>

\* show_config_error(), mark_error().
MarkError ==
  /\ Hears("error")
  /\ marked' = marked \cup ({Head(news[Viewer]).key} \cap DOMAIN fields)
  /\ UNCHANGED <<manager, requests, client, original, fields, counters,
                 history>>

-----------------------------------------------------------------------------
Refusal ==
  \E u \in Users :
    /\ RefuseSet(u)
    /\ doubtful' = doubtful \cup {Head(requests[u]).key}
    /\ UNCHANGED <<client, form, counters, lost, spoilt>>

FailedWrite ==
  /\ WriteFails
  /\ lost' = TRUE /\ spoilt' = TRUE /\ doubtful' = Keys
  /\ UNCHANGED <<client, form, counters>>

Manage ==
  /\ EndWrite \/ \E u \in Users : HandleGet(u) \/ SeedDefaults(u) \/ HandleSet(u)
  /\ UNCHANGED <<client, form, counters, history>>

\* The power is cut, and the system is started again.
Restart ==
  /\ restarts < MaxRestarts
  /\ restarts' = restarts + 1
  /\ ManagerRestart
  /\ copy' = Defaults /\ asked' = FALSE /\ loaded' = FALSE
  /\ original' = Nothing /\ fields' = NoFields /\ marked' = {}
  /\ IF Idle THEN UNCHANGED spoilt ELSE spoilt' = TRUE
  /\ lost' = FALSE /\ doubtful' = {}
  /\ process' = "active" /\ uiStarted' = FALSE /\ window' = FALSE
  /\ asks' = 0 /\ lists' = <<>> /\ slots' = <<>> /\ tab' = "none"
  /\ UNCHANGED <<edits, saves, reloads>>

Client == process = "active" /\ (AskConfig \/ LoadConfig \/ ApplyChange)
Window == Populate \/ MarkError

Next ==
  \/ /\ \/ Manage \/ Refusal \/ FailedWrite \/ Client \/ Window
        \/ SaveBlocked \/ Save \/ \E k \in Keys : Edit(k)
     /\ UNCHANGED moduleList
  \/ Reload \/ AddTab \/ Listing \/ RefreshAll \/ Restart

Spec == Init /\ [][Next]_vars

-----------------------------------------------------------------------------
\* What a field may be read as.
Readable(kind) ==
  CASE kind = "int"               -> {Number(t) : t \in Texts} \cup {None}
    [] kind = "bool"              -> Typed(kind) \cup {Text(t) : t \in Texts} \cup {None}
    [] kind \in {"enum", "string"} -> {Text(t) : t \in Texts} \cup {None}
    [] kind = "optional"          -> Typed(kind)

Dicts == UNION {[ks -> UNION {Readable(Kind[k]) : k \in Keys}] : ks \in SUBSET Keys}

Valid(c) == \A k \in DOMAIN c : c[k] \in Typed(Kind[k])

\* What is stored, and what is on the way to the file, satisfies the schema until
\* a write fails or is cut off.
TypeOK ==
  /\ file \in Dicts /\ writing.data \in Dicts
  /\ ~ spoilt => Valid(file) /\ Valid(writing.data)
  /\ marked \subseteq DOMAIN fields /\ DOMAIN original = DOMAIN fields
  /\ doubtful \subseteq Keys

Quiet(u) == Idle /\ requests = [v \in Users |-> <<>>] /\ news[u] = <<>>

\* Once nothing is on its way the module works with the settings that are
\* stored, unless a write has failed.  (on_config_loaded, on_config_changed.)
CopyFollowsFile == Quiet(Owner) /\ loaded /\ ~ lost => copy = Merged(file)

\* Once nothing is on its way a module that has a tab has its form, unless a
\* write has failed, and the form is right about what is stored, but for
\* the fields whose last save was refused, was lost, or overtook a reload:
\* these are the ways in which it is wrong and does not show it.
FormFollowsFile ==
  Quiet(Viewer) =>
    /\ tab # "none" /\ ~ lost => original # Nothing
    /\ \A k \in DOMAIN original \ doubtful :
         k \in DOMAIN file /\ file[k] \in {original[k], Coerced(Kind[k], original[k])}

Store == INSTANCE SettingsStore WITH config <- Settled

\* The file is the store that SettingsStore describes: although a write truncates
\* the file first, the settings change by one valid value at a time, unless a write
\* fails or is cut off, and then they are the beginning of what was to be written,
\* or what they were (config_manager, _save_config()).  It is not atomic, whatever
\* config_client.py says: some of the settings may be left, and a number cut short.
OneSettingAtATime == Store!Spec
=============================================================================
