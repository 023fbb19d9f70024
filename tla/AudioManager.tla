---------------------------- MODULE AudioManager ----------------------------
(***************************************************************************)
(* v2/modules/audio_manager/main.py: which device sound is played on or    *)
(* recorded from.  Sinks and sources are treated alike; the module follows *)
(* one of the two lists.                                                   *)
(*                                                                         *)
(* Three threads work on _config and on the list without a lock: the bus   *)
(* thread stores what the user has chosen, the polling thread and the udev *)
(* thread look for the devices that are there and fall back to the default *)
(* when the chosen one is not among them.                                  *)
(***************************************************************************)
EXTENDS ChannelFeed

CONSTANT Devices

Default == "default"
Nothing == "nothing"

ASSUME AudioManagerAssumption ==
  /\ {Default, Nothing} \cap Devices = {}
  /\ \A s \in Scenarios : s.devices \subseteq Devices

Refreshers == {"poll", "udev"}

VARIABLES
  present,   \* devices that are there
  offered,   \* those the schema names: it is registered when the module starts
  events,    \* udev events not handled yet
  chosen,    \* config.changed on its way
  choice,    \* _config["sink"]
  listed,    \* _sinks
  refresher, \* where each thread is in _refresh_devices()
  found,     \* new_sinks of each, until it is stored
  picked,    \* sink of each, until it is published
  changing,  \* _on_config_changed() has stored a value it has not published
  plugs, choices, failures,
  \* No state of the program:
  wanted,    \* what the user has chosen last
  early,     \* threads that have been refreshing since before that
  excuses    \* why it may not be what is used: see Excuses

bounds == <<plugs, choices, failures>>
wish == <<wanted, early, excuses>>
selection == <<present, offered, events, chosen, choice, listed, refresher, found, picked,
               changing, bounds, wish>>

\* Since the user has chosen it the device has been gone, a listing has failed, or a
\* thread has fallen back to the default while a refreshment was under way that had
\* begun before: what it knew was out of date.
Excuses == {"gone", "unlisted", "overtaken"}

Names == Devices \cup {Default}

SelectionInit ==
  /\ present \in SUBSET scenario.devices
  /\ choice \in scenario.devices \cup {Default}  \* as it was loaded
  /\ kind \notin {"audio", "mic"} => present = {} /\ choice = Default
  /\ events = 0 /\ chosen = <<>> /\ listed = present \cup {Default}
  /\ offered = listed /\ wanted = choice /\ early = {}
  /\ excuses = IF choice \in listed THEN {} ELSE {"gone"}
  /\ refresher = [t \in Refreshers |-> "idle"]
  /\ found = [t \in Refreshers |-> {Default}]
  /\ picked = [t \in Refreshers |-> Default]
  /\ changing = Nothing /\ plugs = 0 /\ choices = 0 /\ failures = 0

\* audio.sink.selected or audio.source.selected, if the channel's process runs.
PublishSelected(d) ==
  /\ inbox' = IF phase = "none" THEN inbox ELSE Append(inbox, <<"selected", d>>)
  /\ UNCHANGED <<scenario, phase, sessions, announced, phone, sent, screenIn,
                 channelOpen>>

SelectionPending == \E i \in DOMAIN inbox : inbox[i][1] = "selected"

-----------------------------------------------------------------------------
\* A device is plugged in or out.
Plug ==
  /\ plugs < scenario.plugs
  /\ plugs' = plugs + 1 /\ events' = events + 1
  /\ \E d \in scenario.devices :
       present' = IF d \in present THEN present \ {d} ELSE present \cup {d}
  /\ excuses' = IF wanted \in present' \cup {Default} THEN excuses ELSE excuses \cup {"gone"}
  /\ UNCHANGED <<offered, chosen, choice, listed, refresher, found, picked, changing,
                 choices, failures, wanted, early, feed>>

\* The user chooses one of the devices the schema names.
Choose ==
  /\ choices < scenario.choices
  /\ choices' = choices + 1
  /\ \E d \in offered : chosen' = Append(chosen, d)
  /\ UNCHANGED <<present, offered, events, choice, listed, refresher, found, picked,
                 changing, plugs, failures, wish, feed>>

\* _on_config_changed(): the choice is stored ...
StoreChoice ==
  /\ chosen # <<>> /\ changing = Nothing
  /\ choice' = Head(chosen) /\ changing' = Head(chosen)
  /\ chosen' = Tail(chosen)
  /\ wanted' = choice' /\ early' = {t \in Refreshers : refresher[t] # "idle"}
  /\ excuses' = IF choice' \in present \cup {Default} THEN {} ELSE {"gone"}
  /\ UNCHANGED <<present, offered, events, listed, refresher, found, picked, bounds, feed>>

\* ... and published.
PublishChoice ==
  /\ changing # Nothing
  /\ changing' = Nothing
  /\ PublishSelected(changing)
  /\ UNCHANGED <<present, offered, events, chosen, choice, listed, refresher, found,
                 picked, bounds, wish>>

-----------------------------------------------------------------------------
(* _refresh_devices(), in the polling thread and in the udev thread.       *)

At(t, here, there) ==
  refresher[t] = here /\ refresher' = [refresher EXCEPT ![t] = there]

\* What wpctl or pactl names, or the default alone if both fail or time out.
Lists(t) ==
  \/ found' = [found EXCEPT ![t] = present \cup {Default}] /\ UNCHANGED <<failures, excuses>>
  \/ /\ failures < scenario.failures /\ failures' = failures + 1
     /\ found' = [found EXCEPT ![t] = {Default}] /\ excuses' = excuses \cup {"unlisted"}

\* wpctl or pactl is asked.  It takes its time: what the refreshment before has
\* published has been handled.
Enumerate(t) ==
  /\ At(t, "idle", "enumerated")
  /\ Lists(t)
  /\ ~ SelectionPending
  /\ \/ t = "poll" /\ UNCHANGED events
     \/ t = "udev" /\ events > 0 /\ events' = events - 1
  /\ UNCHANGED <<present, offered, chosen, choice, listed, picked, changing, plugs,
                 choices, wanted, early, feed>>

TakeList(t) ==
  /\ At(t, "enumerated", "listed")
  /\ listed' = found[t] /\ found' = [found EXCEPT ![t] = {Default}]
  /\ picked' = [picked EXCEPT ![t] = choice]
  /\ UNCHANGED <<present, offered, events, chosen, choice, changing, bounds, wish, feed>>

\* "Configured sink no longer available - falling back to default", whatever has
\* been chosen meanwhile.
FallBack(t) ==
  /\ picked[t] \notin listed
  /\ picked' = [picked EXCEPT ![t] = Default]
  /\ choice' = Default
  /\ excuses' = IF early = {} THEN excuses ELSE excuses \cup {"overtaken"}

IsListed(t) == picked[t] \in listed /\ UNCHANGED <<picked, choice, excuses>>

Validate(t) ==
  /\ At(t, "listed", "valid")
  /\ FallBack(t) \/ IsListed(t)
  /\ UNCHANGED <<present, offered, events, chosen, listed, found, changing, bounds, wanted,
                 early, feed>>

\* Fault: published only when it is the default that is fallen back to.
RepublishFallback(t) ==
  IF picked[t] = Default THEN PublishSelected(Default) ELSE UNCHANGED feed

\* Published whether it has changed or not.
Republish(t) == PublishSelected(picked[t])

Validated(t) ==
  /\ At(t, "valid", "idle")
  /\ Republish(t) /\ picked' = [picked EXCEPT ![t] = Default]
  /\ early' = early \ {t}
  /\ UNCHANGED <<present, offered, events, chosen, choice, listed, found, changing, bounds,
                 wanted, excuses>>

Refresh(t) == Enumerate(t) \/ TakeList(t) \/ Validate(t) \/ Validated(t)

SelectionNext ==
  /\ kind \in {"audio", "mic"}
  /\ \/ Plug \/ Choose \/ StoreChoice \/ PublishChoice
     \/ \E t \in Refreshers : Refresh(t)

SelectionTypeOK ==
  /\ present \subseteq Devices /\ choice \in Names
  /\ listed \subseteq Names /\ Default \in listed
  /\ refresher \in [Refreshers -> {"idle", "enumerated", "listed", "valid"}]
  /\ found \in [Refreshers -> SUBSET Names] /\ picked \in [Refreshers -> Names]
  /\ chosen \in Seq(Names) /\ changing \in Names \cup {Nothing}
  /\ offered \subseteq Names /\ wanted \in Names
  /\ early \subseteq Refreshers /\ excuses \subseteq Excuses
=============================================================================
