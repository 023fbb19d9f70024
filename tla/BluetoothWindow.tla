-------------------------- MODULE BluetoothWindow --------------------------
(***************************************************************************)
(* v2/modules/bluetooth_ui/main.py, the list of the paired devices, with   *)
(* the handlers of bluetooth_manager it talks to, from the start of both.  *)
(*                                                                         *)
(* The window has a copy of what BlueZ knows.  It asks for it, and is told *)
(* what has come of its own requests; nobody tells it that a phone has     *)
(* connected or gone by itself.  A request made before bluetooth_manager   *)
(* listens is lost, and so is an answer before the window is there.        *)
(*                                                                         *)
(* Status lines are left out; the autoconnect loop, the list of devices    *)
(* found and the dialogs of pairing are in other modules.                  *)
(***************************************************************************)
EXTENDS PairedDevices, Sequences

CONSTANT MaxClicks  \* of the user

ASSUME ClicksAssumption == MaxClicks \in Nat

VARIABLES
  \* bluetooth_manager
  manager,   \* how far it has started
  adapter,   \* whether BluezAdapter.init() has found one
  parting,   \* devices with a Device1.Disconnect() under way
  calling,   \* the device of the call the user has asked for
  \* the bus
  asks,      \* requests of the window
  news,      \* what bluetooth_manager tells it, up to the Qt thread
  \* the window
  opened,    \* it is there
  listening, \* it has subscribed
  listed,    \* rows of the list: whether each device is connected
  selected,  \* the current row
  buttons,   \* those enabled
  question,  \* the device to be removed, if the user agrees
  clicks

managing == <<manager, adapter, parting, calling>>
rows == <<listed, selected, buttons>>
showing == <<opened, listening, rows, question, clicks>>
windows == <<managing, asks, news, showing>>

NoRows == [d \in {} |-> FALSE]

WindowInit ==
  /\ manager = "announced" /\ adapter = "none" /\ parting = {}
  /\ calling = Nobody
  /\ asks = <<>> /\ news = <<>>
  /\ opened = FALSE /\ listening = FALSE
  /\ listed = NoRows /\ selected = Nobody /\ buttons = {}
  /\ question = Nobody /\ clicks = 0

Ask(m)  == asks' = IF manager = "ready" THEN Append(asks, m) ELSE asks
Tell(m) == news' = IF listening THEN Append(news, m) ELSE news

-----------------------------------------------------------------------------
(* bluetooth_manager: its start.                                           *)

\* init() and register_profiles() of BluezAdapter: there may be no adapter.
AdapterInit == adapter' \in {"none", "ready"}

\* on_system_start() goes on without one.
ManagerStarts ==
  /\ manager = "announced" /\ manager' = "starting"
  /\ AdapterInit
  /\ UNCHANGED <<parting, calling, asks, news, showing, bluez, calls>>

\* _on_config_loaded()
ManagerListens ==
  /\ manager = "starting" /\ manager' = "ready"
  /\ UNCHANGED <<adapter, parting, calling, asks, news, showing, bluez, calls>>

-----------------------------------------------------------------------------
(* bluetooth_manager: its bus thread.                                      *)

Known == IF adapter = "ready" THEN paired ELSE {}

Hears(what) == asks # <<>> /\ Head(asks)[1] = what /\ asks' = Tail(asks)

Failed(d) == Tell(<<"failed", d>>)

OnPairedList ==
  /\ Hears("list")
  /\ Tell(<<"devices", [d \in Known |-> d \in connected]>>)
  /\ UNCHANGED <<parting, calling, bluez, calls>>

OnPairedRemove ==
  /\ Hears("remove")
  /\ LET d == Head(asks)[2] IN
       \/ d \in Known /\ RemoveDevice(d) /\ Tell(<<"removed", d>>)
       \/ d \notin Known /\ Failed(d) /\ UNCHANGED <<bluez, calls>>
  /\ UNCHANGED <<parting, calling>>

\* The watchdog or BlueZ will report on the call, see PairedDevices.
OnPairedConnect ==
  /\ Hears("connect")
  /\ LET d == Head(asks)[2] IN
       \/ d \in Known /\ ConnectAsked(d) /\ calling' = d /\ UNCHANGED news
       \/ d \notin Known /\ Failed(d) /\ UNCHANGED <<calling, bluez, calls>>
  /\ UNCHANGED parting

OnPairedDisconnect ==
  /\ Hears("disconnect")
  /\ LET d == Head(asks)[2] IN
       \/ d \in Known /\ parting' = parting \cup {d} /\ UNCHANGED news
       \/ d \notin Known /\ Failed(d) /\ UNCHANGED parting
  /\ UNCHANGED <<calling, bluez, calls>>

ManagerHears ==
  /\ OnPairedList \/ OnPairedRemove \/ OnPairedConnect \/ OnPairedDisconnect
  /\ UNCHANGED <<manager, adapter, showing>>

-----------------------------------------------------------------------------
(* bluetooth_manager: the GLib thread and the watchdogs.                   *)

\* The reply of Device1.Disconnect(): NotConnected counts as success.
Parted(d) ==
  /\ d \in parting /\ parting' = parting \ {d}
  /\ \/ connected' = connected \ {d} /\ Tell(<<"disconnected", d>>)
     \/ Failed(d) /\ UNCHANGED connected
  /\ UNCHANGED <<paired, calls>>

\* The lambdas on_connected and on_failed of on_paired_connect()
ConnectReported(c) ==
  /\ \/ ReplyReported(c) /\ (Tell(<<"connected", calling>>) \/ Failed(calling))
     \/ TimeoutReported(c) /\ Failed(calling)
  /\ UNCHANGED parting

ManagerReports ==
  /\ \/ \E d \in Devices : Parted(d)
     \/ \E c \in Callers : ConnectReported(c)
     \/ /\ \/ \E c \in Callers : ReplyArrives(c) \/ WatchdogWakes(c)
           \/ \E d \in Devices : PhoneConnects(d) \/ PhoneLeaves(d)
        /\ UNCHANGED <<news, parting>>
  /\ UNCHANGED <<manager, adapter, calling, asks, showing>>

-----------------------------------------------------------------------------
(* The window: its start.                                                  *)

\* run(): the bus thread goes before the window.
WindowOpens ==
  /\ ~ opened /\ opened' = TRUE
  /\ UNCHANGED <<listening, asks, news, rows, question, clicks>>

\* on_system_start() subscribes and asks for the list.
WindowListens ==
  /\ ~ listening /\ listening' = TRUE
  /\ Ask(<<"list">>)
  /\ UNCHANGED <<opened, news, rows, question, clicks>>

\* _invoke() without a window
NewsDropped ==
  /\ ~ opened /\ news # <<>> /\ news' = Tail(news)
  /\ UNCHANGED <<opened, listening, asks, rows, question, clicks>>

-----------------------------------------------------------------------------
(* The window: its slots, called in the Qt thread.                         *)

Offered(r, s) ==
  IF s \notin DOMAIN r THEN {} ELSE {"remove", IF r[s] THEN "disconnect" ELSE "connect"}

\* _update_paired_buttons()
UpdateButtons == buttons' = Offered(listed', selected')

Called(what) == opened /\ news # <<>> /\ Head(news)[1] = what /\ news' = Tail(news)

\* refresh_paired_list(): the rows are made anew, and none is the current one.
RefreshPairedList ==
  /\ Called("devices")
  /\ listed' = Head(news)[2] /\ selected' = Nobody

\* _refresh_item_state()
RefreshItemState(what, isConnected) ==
  /\ Called(what)
  /\ listed' = [d \in DOMAIN listed |->
                  IF d = Head(news)[2] THEN isConnected ELSE listed[d]]
  /\ UNCHANGED selected

\* Fault: the row is looked for by something else than the address.
RowKept(r, d) == r

WithoutRow(r, d) == [e \in DOMAIN r \ {d} |-> r[e]]

\* on_paired_removed(): another row may become the current one.
OnPairedRemoved ==
  /\ Called("removed")
  /\ listed' = WithoutRow(listed, Head(news)[2])
  /\ selected' \in IF selected = Head(news)[2] THEN DOMAIN listed' \cup {Nobody}
                                               ELSE {selected}

\* on_paired_failed(): a status line.
OnPairedFailed == Called("failed") /\ UNCHANGED <<listed, selected>>

WindowSlots ==
  /\ \/ RefreshPairedList
     \/ RefreshItemState("connected", TRUE) \/ RefreshItemState("disconnected", FALSE)
     \/ OnPairedRemoved \/ OnPairedFailed
  /\ UpdateButtons
  /\ UNCHANGED <<asks, opened, listening, question, clicks>>

-----------------------------------------------------------------------------
(* The window: its user.                                                   *)

Click ==
  /\ opened /\ question = Nobody
  /\ clicks < MaxClicks /\ clicks' = clicks + 1

SelectRow ==
  /\ Click
  /\ selected' \in DOMAIN listed /\ UNCHANGED listed /\ UpdateButtons
  /\ UNCHANGED <<asks, question>>

RefreshClicked == Click /\ Ask(<<"list">>) /\ UNCHANGED <<rows, question>>

ConnectClicked ==
  /\ Click /\ "connect" \in buttons
  /\ asked < MaxAsked /\ \A i \in DOMAIN asks : asks[i][1] # "connect"
  /\ Ask(<<"connect", selected>>) /\ UNCHANGED <<rows, question>>

DisconnectClicked ==
  /\ Click /\ "disconnect" \in buttons
  /\ Ask(<<"disconnect", selected>>) /\ UNCHANGED <<rows, question>>

\* The user is asked first; meanwhile the slots go on being called.
RemoveClicked ==
  /\ Click /\ "remove" \in buttons
  /\ question' = selected /\ UNCHANGED <<asks, rows>>

RemoveAnswered ==
  /\ question # Nobody /\ question' = Nobody
  /\ Ask(<<"remove", question>>) \/ UNCHANGED asks
  /\ UNCHANGED <<rows, clicks>>

UserClicks ==
  /\ \/ SelectRow \/ RefreshClicked \/ ConnectClicked \/ DisconnectClicked
     \/ RemoveClicked \/ RemoveAnswered
  /\ UNCHANGED <<news, opened, listening>>

WindowNext ==
  \/ ManagerStarts \/ ManagerListens \/ ManagerHears \/ ManagerReports
  \/ /\ WindowOpens \/ WindowListens \/ NewsDropped \/ WindowSlots \/ UserClicks
     /\ UNCHANGED <<managing, bluez, calls>>

-----------------------------------------------------------------------------
WindowTypeOK ==
  /\ manager \in {"announced", "starting", "ready"} /\ adapter \in {"none", "ready"}
  /\ {opened, listening} \subseteq BOOLEAN
  /\ DOMAIN listed \subseteq Devices
  /\ selected \in Devices \cup {Nobody} /\ question \in Devices \cup {Nobody}

\* What the window lists, once it has been told everything, are devices BlueZ
\* still knows, and what it offers to do is for the row that is the current
\* one: however its requests, their answers and the question in front of the
\* user overlap.
WindowTellsThePaired ==
  /\ asks = <<>> /\ news = <<>> => DOMAIN listed \subseteq paired
  /\ buttons = Offered(listed, selected)
=============================================================================
