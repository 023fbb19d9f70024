---------------------------- MODULE InputChannel ----------------------------
(***************************************************************************)
(* v2/modules/channel_modules/input/main.py: InputModule tells the phone   *)
(* what the driver touches and which keys are pressed, once the phone has  *)
(* opened the channel.  Touches and keys come over the bus.                *)
(*                                                                         *)
(* Two keys stand for those of _DEFAULT_KEYCODES and one for the others.   *)
(* A touch has at least one pointer; where it is is left out.              *)
(***************************************************************************)
EXTENDS ChannelFeed

VARIABLES
  inputState, \* _state
  bound,      \* _bound_keycodes
  gestures,   \* touches, keys and readings of sensors published so far
  reports     \* messages that the driver's doings or the sensors have made
              \* the module send to the phone

input == <<inputState, bound>>
car   == <<gestures, reports>>

\* _DEFAULT_KEYCODES
Supported == {"home", "back"}
Keys      == Supported \cup {"other"}

\* _parse_key_binding_request()
Requested == [bind |-> {}] @@ ("bind home" :> {"home"}) @@ ("bind other" :> {"other"})

InputInit   == inputState = "IDLE" /\ bound = {} /\ gestures = 0 /\ reports = 0
InputStarts == inputState' = "IDLE" /\ bound' = {}

\* Something happens in the car that is of interest to this channel.
Happens(m) ==
  /\ phase # "none" /\ gestures < scenario.gestures
  /\ gestures' = gestures + 1
  /\ inbox' = Append(inbox, m)
  /\ UNCHANGED <<scenario, phase, sessions, announced, phone, sent, screenIn,
                 channelOpen, reports>>

Gesture ==
  kind = "input" /\ (Happens(<<"touch">>) \/ \E k \in Keys : Happens(<<"key", k>>))

-----------------------------------------------------------------------------
\* on_aa_session_active(), on_aa_session_shutdown() and _cleanup()
InputReset == inputState' = "IDLE" /\ bound' = {}

\* Fault: the end of the session is taken for the end of the channel.
InputStaysOpen == UNCHANGED input

\* on_channel_close() keeps the keys.
InputClosed == inputState' = "IDLE" /\ UNCHANGED bound

InputLifecycle ==
  \/ ReceiveOpen /\ UNCHANGED input
  \/ ReceiveClose /\ InputClosed
  \/ (ReceiveActive \/ ReceiveShutdown) /\ InputReset
  \/ ReceiveStop /\ phase' = "none" /\ InputReset

\* _handle_open_request()
InputOpened == ReceiveFrame("open") /\ inputState' = "OPEN" /\ UNCHANGED bound

\* _handle_key_binding_request(): a request for nothing is one for every key.
KeysBound ==
  \E b \in DOMAIN Requested :
    /\ ReceiveFrame(b)
    /\ bound' = IF Requested[b] = {} THEN Supported ELSE Requested[b] \cap Supported
    /\ inputState' = "BOUND"

\* on_frame()
InputFrame ==
  \/ InputOpened \/ KeysBound
  \/ (ReceiveFrame("setup") \/ FrameDropped) /\ UNCHANGED input

-----------------------------------------------------------------------------
InputOpen == inputState \in {"OPEN", "BOUND"}

\* on_input_key(): without bound keys every key is passed on.
KeyIsBound(k) == bound = {} \/ k \in bound

\* The module takes what has happened, and tells the phone if it has to.
Report(m, toTell) ==
  /\ Receive(m) /\ UNCHANGED <<phase, channelOpen>>
  /\ reports' = IF toTell THEN reports + 1 ELSE reports

\* on_input_touch() and on_input_key()
InputReports ==
  /\ \/ Report(<<"touch">>, InputOpen)
     \/ \E k \in Keys : Report(<<"key", k>>, InputOpen /\ KeyIsBound(k))
  /\ UNCHANGED input

InputHandles ==
  /\ kind = "input"
  /\ \/ (InputLifecycle \/ InputFrame) /\ UNCHANGED reports
     \/ InputReports
  /\ UNCHANGED <<screenIn, gestures>>

-----------------------------------------------------------------------------
(***************************************************************************)
(* v2/modules/channel_modules/sensor/main.py: SensorModule tells the phone *)
(* what the sensors read, those that the phone has started.                *)
(*                                                                         *)
(* A sensor is named by the number that the phone gives for it.  The       *)
(* numbers for which the module has readings are not those of              *)
(* SensorTypeEnum: 10 is the night mode there, and 1, 4 and 6 are others.  *)
(***************************************************************************)
VARIABLES
  sensorState, \* _state
  started      \* _started_sensors

sensor == <<sensorState, started>>

DrivingStatus == "1"
NightMode     == "4"
Location      == "6"
Readings      == {DrivingStatus, NightMode, Location}

\* _parse_sensor_start_request()
SensorOf ==
  ("start 1" :> "1") @@ ("start 4" :> "4") @@ ("start 6" :> "6") @@ ("start 10" :> "10")

SensorInit   == sensorState = "IDLE" /\ started = {}
SensorStarts == sensorState' = "IDLE" /\ started' = {}

Reading == kind = "sensor" /\ \E s \in Readings : Happens(<<"reading", s>>)

-----------------------------------------------------------------------------
\* Fault: what has been started is kept.
ForgetNothing == sensorState' = "IDLE" /\ UNCHANGED started

\* on_channel_close(), on_aa_session_active(), on_aa_session_shutdown() and
\* _cleanup()
SensorReset == sensorState' = "IDLE" /\ started' = {}

SensorLifecycle ==
  \/ ReceiveOpen /\ UNCHANGED sensor
  \/ (ReceiveClose \/ ReceiveActive \/ ReceiveShutdown) /\ SensorReset
  \/ ReceiveStop /\ phase' = "none" /\ SensorReset

\* _handle_open_request()
SensorOpened == ReceiveFrame("open") /\ sensorState' = "OPEN" /\ UNCHANGED started

\* _build_default_sensor_batch()
FirstReading == {DrivingStatus, NightMode}

\* _handle_sensor_start_request(): answered in any state, and with a first
\* reading of the sensors that have one.
SensorStarted ==
  \E f \in DOMAIN SensorOf :
    /\ ReceiveFrame(f)
    /\ started' = started \cup {SensorOf[f]}
    /\ reports' = IF SensorOf[f] \in FirstReading THEN reports + 1 ELSE reports
    /\ UNCHANGED sensorState

\* on_frame()
SensorFrame ==
  \/ SensorStarted
  \/ SensorOpened /\ UNCHANGED reports
  \/ (ReceiveFrame("setup") \/ FrameDropped) /\ UNCHANGED <<sensor, reports>>

\* on_sensor_driving_status(), on_sensor_night_mode() and on_sensor_gps()
SensorReports ==
  /\ \E s \in Readings : Report(<<"reading", s>>, sensorState = "OPEN" /\ s \in started)
  /\ UNCHANGED sensor

SensorHandles ==
  /\ kind = "sensor"
  /\ \/ SensorLifecycle /\ UNCHANGED reports
     \/ SensorFrame \/ SensorReports
  /\ UNCHANGED <<screenIn, gestures>>
=============================================================================
