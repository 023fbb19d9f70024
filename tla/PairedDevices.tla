--------------------------- MODULE PairedDevices ----------------------------
(***************************************************************************)
(* v2/modules/bluetooth_manager/paired_devices.py: the devices BlueZ       *)
(* knows, and the calls of Device1.Connect().                              *)
(*                                                                         *)
(* A call is reported to its caller by whichever comes first, the reply of *)
(* BlueZ in the GLib thread or a watchdog of the call in a thread of its   *)
(* own.  Both look at the flag _replied before they set it.                *)
(***************************************************************************)
EXTENDS Naturals, FiniteSets

CONSTANTS Devices, MaxAsked

Nobody == "nobody"

\* There are no more devices than addresses.
ASSUME DevicesAssumption == IsFiniteSet(Devices) /\ Nobody \notin Devices

ASSUME AskedAssumption == MaxAsked \in Nat

\* The call of the autoconnect loop, and those the user asks for.
Loop == 0
Callers == 0..MaxAsked

VARIABLES
  paired,     \* devices BlueZ lists as paired or trusted
  connected,  \* those it is connected to
  call,       \* the last call of each caller
  asked       \* calls the user has asked for

bluez == <<paired, connected>>
calls == <<call, asked>>

NoCall == [handler |-> "none", watchdog |-> "none", replied |-> FALSE,
           reported |-> 0]

DevicesInit ==
  /\ paired = Devices /\ connected = {}
  /\ call = [c \in Callers |-> NoCall] /\ asked = 0

\* A new call may take the place of the last one: nobody will report on that.
Over(c) ==
  /\ call[c].watchdog \in {"none", "done"}
  /\ call[c].handler # "has looked"

\* on_connected or on_failed is called by the side that has looked.
Report(c, side) ==
  call' = [call EXCEPT ![c].replied = TRUE, ![c].reported = @ + 1,
                       ![c][side] = "done"]

-----------------------------------------------------------------------------
\* connect(): a device that BlueZ has forgotten is reported at once.
Connect(c, d) ==
  call' = [call EXCEPT ![c] =
             IF d \in paired
               THEN [NoCall EXCEPT !.handler = "waiting", !.watchdog = "waiting"]
               ELSE [NoCall EXCEPT !.reported = 1]]

\* bluetooth_manager.paired.connect
ConnectAsked(d) ==
  /\ asked < MaxAsked
  /\ asked' = asked + 1
  /\ Connect(asked + 1, d)
  /\ UNCHANGED bluez

\* bluetooth_manager.paired.disconnect
Disconnect(d) ==
  /\ d \in paired \cap connected
  /\ connected' = connected \ {d}
  /\ UNCHANGED <<paired, calls>>

\* bluetooth_manager.paired.remove: Adapter1.RemoveDevice disconnects, too.
RemoveDevice(d) ==
  /\ d \in paired
  /\ paired' = paired \ {d} /\ connected' = connected \ {d}
  /\ UNCHANGED calls

\* A phone connects or goes away of itself, or at a call that is over.
PhoneConnects(d) ==
  /\ d \in paired \ connected
  /\ connected' = connected \cup {d}
  /\ UNCHANGED <<paired, calls>>

PhoneLeaves(d) ==
  /\ d \in connected
  /\ connected' = connected \ {d}
  /\ UNCHANGED <<paired, calls>>

-----------------------------------------------------------------------------
GLibThreadIsFree == \A c \in Callers : call[c].handler # "has looked"

\* BlueZ replies: _reply_handler() or _error_handler() looks at _replied.
ReplyArrives(c) ==
  /\ call[c].handler = "waiting" /\ GLibThreadIsFree
  /\ call' = [call EXCEPT ![c].handler =
                IF call[c].replied THEN "done" ELSE "has looked"]
  /\ UNCHANGED <<bluez, asked>>

\* ... and sets it.  Whether the device is connected is for BlueZ to say, and
\* AlreadyConnected counts as success.
ReplyReported(c) ==
  /\ call[c].handler = "has looked"
  /\ Report(c, "handler")
  /\ UNCHANGED <<bluez, asked>>

\* Fault: the thread that should end the wait is not there.
NoWatchdog(c) == FALSE /\ UNCHANGED <<bluez, calls>>

\* _watchdog(): the wait ends because of the reply or because of the time.
WatchdogWakes(c) ==
  /\ call[c].watchdog = "waiting"
  /\ call' = [call EXCEPT ![c].watchdog =
                IF call[c].replied THEN "done" ELSE "has looked"]
  /\ UNCHANGED <<bluez, asked>>

TimeoutReported(c) ==
  /\ call[c].watchdog = "has looked"
  /\ Report(c, "watchdog")
  /\ UNCHANGED <<bluez, asked>>

Watchdog(c) == WatchdogWakes(c) \/ TimeoutReported(c)

DevicesNext ==
  \/ \E d \in Devices :
       \/ ConnectAsked(d) \/ Disconnect(d) \/ RemoveDevice(d)
       \/ PhoneConnects(d) \/ PhoneLeaves(d)
  \/ \E c \in Callers : ReplyArrives(c) \/ ReplyReported(c) \/ Watchdog(c)

-----------------------------------------------------------------------------
CallType ==
  [handler : {"none", "waiting", "has looked", "done"},
   watchdog : {"none", "waiting", "has looked", "done"},
   replied : BOOLEAN,
   reported : 0..2]

\* Only paired devices are connected, and a call that has been reported is
\* marked as replied, unless it was never made.
DevicesTypeOK ==
  /\ paired \subseteq Devices /\ connected \subseteq paired
  /\ asked \in 0..MaxAsked
  /\ call \in [Callers -> CallType]
  /\ \A c \in Callers :
       call[c].reported # 0 /\ call[c].handler # "none" => call[c].replied

-----------------------------------------------------------------------------
(***************************************************************************)
(* v2/modules/bluetooth_manager/main.py: the thread that connects to the   *)
(* paired devices one after the other, round after round, until it is told *)
(* to stop (_autoconnect_loop), and the handlers that start and stop it.   *)
(***************************************************************************)
CONSTANTS MaxStarts, MaxStops

ASSUME LoopAssumption == {MaxStarts, MaxStops} \subseteq Nat

Threads == 1..MaxStarts

VARIABLES
  stop,     \* _autoconnect_stop is set
  active,   \* _autoconnect_active
  loop,     \* where each thread of the loop is
  todo,     \* devices left in its round
  starts, stops

threads == <<loop, todo>>
switch == <<stop, active, starts, stops>>
auto == <<switch, threads>>

AutoconnectInit ==
  /\ stop = FALSE /\ active = FALSE
  /\ loop = [t \in Threads |-> "none"] /\ todo = [t \in Threads |-> {}]
  /\ starts = 0 /\ stops = 0

-----------------------------------------------------------------------------
(* The bus thread.                                                         *)

\* Fault: a start takes back the stop even if the loop is still there.
StopTakenBack == stop' = FALSE

\* _start_autoconnect() finds the loop active.
StopKept == UNCHANGED stop

AlreadyActive == active

\* _start_autoconnect(), at the end of _on_config_loaded() and for
\* bluetooth_manager.try_autoconnect.
StartAutoconnect ==
  /\ starts < MaxStarts /\ starts' = starts + 1
  /\ ~ AlreadyActive
  /\ stop' = FALSE /\ active' = TRUE
  /\ loop' = [loop EXCEPT ![starts + 1] = "round"]
  /\ UNCHANGED <<stops, todo, bluez, calls>>

StartIgnored ==
  /\ starts < MaxStarts /\ starts' = starts + 1
  /\ AlreadyActive
  /\ StopKept
  /\ UNCHANGED <<active, stops, threads, bluez, calls>>

\* autoconnect_enabled is off.
StartDisabled ==
  /\ starts < MaxStarts /\ starts' = starts + 1
  /\ UNCHANGED <<stop, active, stops, threads, bluez, calls>>

\* bluetooth_manager.rfcomm.connected, or system.stop.
StopAutoconnect ==
  /\ stops < MaxStops /\ stops' = stops + 1
  /\ stop' = TRUE
  /\ UNCHANGED <<active, starts, threads, bluez, calls>>

-----------------------------------------------------------------------------
(* The loop.                                                               *)

Goes(t, from, to) == loop[t] = from /\ loop' = [loop EXCEPT ![t] = to]

\* list_paired() gives nothing if BlueZ cannot be asked.
ListPaired == {paired, {}}

\* The devices to try are those not connected when the round begins.
BeginRound(t) ==
  /\ ~ stop /\ Goes(t, "round", "next")
  /\ \E ds \in ListPaired : todo' = [todo EXCEPT ![t] = ds \ connected]
  /\ UNCHANGED <<switch, bluez, calls>>

\* The stop is looked for before each device ...
HasNext(t) == todo[t] # {} /\ ~ stop

NextDevice(t) ==
  /\ HasNext(t) /\ Goes(t, "next", "connect")
  /\ UNCHANGED <<switch, todo, bluez, calls>>

\* ... and it may come just after.
LoopConnects(t) ==
  /\ Goes(t, "connect", "wait") /\ Over(Loop)
  /\ \E d \in todo[t] :
       /\ Connect(Loop, d)
       /\ todo' = [todo EXCEPT ![t] = @ \ {d}]
  /\ UNCHANGED <<switch, bluez, asked>>

\* done.wait(): the call has been reported.
CallReported(t) ==
  /\ call[Loop].reported # 0 /\ Goes(t, "wait", "next")
  /\ UNCHANGED <<switch, todo, bluez, calls>>

RoundDone(t) ==
  /\ ~ HasNext(t) /\ ~ stop /\ Goes(t, "next", "pause")
  /\ todo' = [todo EXCEPT ![t] = {}]
  /\ UNCHANGED <<switch, bluez, calls>>

\* _autoconnect_stop.wait(backoff)
PauseOver(t) ==
  /\ Goes(t, "pause", "round")
  /\ UNCHANGED <<switch, todo, bluez, calls>>

LeaveLoop(t) ==
  /\ stop
  /\ Goes(t, "round", "leaving") \/ (~ HasNext(t) /\ Goes(t, "next", "leaving"))
  /\ todo' = [todo EXCEPT ![t] = {}]
  /\ UNCHANGED <<switch, bluez, calls>>

EndLoop(t) ==
  /\ Goes(t, "leaving", "ended")
  /\ active' = FALSE
  /\ UNCHANGED <<stop, starts, stops, todo, bluez, calls>>

LoopStep(t) ==
  \/ BeginRound(t) \/ NextDevice(t) \/ LoopConnects(t) \/ CallReported(t)
  \/ RoundDone(t) \/ PauseOver(t) \/ LeaveLoop(t) \/ EndLoop(t)

AutoconnectNext ==
  \/ StartAutoconnect \/ StartIgnored \/ StartDisabled \/ StopAutoconnect
  \/ \E t \in Threads : LoopStep(t)

-----------------------------------------------------------------------------
AutoconnectTypeOK ==
  /\ {stop, active} \subseteq BOOLEAN
  /\ loop \in [Threads -> {"none", "round", "next", "connect", "wait", "pause",
                           "leaving", "ended"}]
  /\ todo \in [Threads -> SUBSET Devices]
  /\ starts \in 0..MaxStarts /\ stops \in 0..MaxStops
=============================================================================
