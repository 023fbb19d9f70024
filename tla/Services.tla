------------------------------ MODULE Services ------------------------------
(***************************************************************************)
(* The channels of the car, from the form in which the user changes them   *)
(* to the modules that serve them: config_ui, config_manager,              *)
(* oaa_control_channel and channel_manager.  A change ends the session,    *)
(* and the next one offers what the form then says.                        *)
(*                                                                         *)
(* config_manager answers at once here (Configuration has what can happen  *)
(* to a save), and the modules of a session are ready when they have been  *)
(* started (ChannelManager has what can happen to them).                   *)
(***************************************************************************)
EXTENDS ServiceDiscovery, FiniteSets

CONSTANTS
  Defaults,  \* what the file is made of: SEMANTIC_DEFAULTS["channels"], or what
             \* somebody has written into it
  MaxEdits,  \* gestures of the user
  MaxSaves

ASSUME BoundsAssumption == {MaxEdits, MaxSaves} \subseteq Nat

VARIABLES
  stored,     \* "channels" in the file of oaa_control_channel
  original,   \* _original["channels"] of the form
  form,       \* the widgets
  cfg,        \* _cfg["channels"] of oaa_control_channel
  handshake,  \* "none", "connected", "unanswered" when the phone has asked and
              \* making the answer has raised, "waiting", "opening"
  told,       \* the response that the phone has been sent
  control,    \* messages for oaa_control_channel
  manager,    \* messages for channel_manager
  launched,   \* its channel modules
  edits, saves

ui == <<original, form, edits, saves>>
head == <<cfg, handshake, told>>
vars == <<stored, ui, head, control, manager, launched>>

Init ==
  /\ stored \in {FirstFile(c) : c \in Defaults}
  /\ original = stored /\ form = Form(ChannelsSchema, stored)
  /\ cfg = stored /\ handshake = "none" /\ told = <<>>
  /\ control = <<>> /\ manager = <<>> /\ launched = {}
  /\ edits = 0 /\ saves = 0

-----------------------------------------------------------------------------
(* config_ui                                                               *)

Touch ==
  /\ edits < MaxEdits /\ edits' = edits + 1
  /\ form' \in Touched(ChannelsSchema, form)
  /\ UNCHANGED <<stored, original, saves, head, control, manager, launched>>

\* _on_save(): config.set, which config_manager stores and announces.  What the
\* widgets give is text, so that a form of numbers differs from what it was
\* made of.
Save ==
  /\ saves < MaxSaves /\ saves' = saves + 1
  /\ Given(form) # original
  /\ stored' = Given(form) /\ original' = stored'
  /\ control' = Append(control, [type |-> "changed", value |-> stored'])
  /\ UNCHANGED <<form, edits, head, manager, launched>>

\* _on_refresh(): config.get, and populate() with the answer.
Reload ==
  /\ original' = stored /\ form' = Form(ChannelsSchema, stored)
  /\ UNCHANGED <<stored, edits, saves, head, control, manager, launched>>

-----------------------------------------------------------------------------
(* oaa_control_channel                                                     *)

Hears(type) == control # <<>> /\ Head(control).type = type /\ control' = Tail(control)

\* Fault: the session starts again with the configuration it had.
ChangeNotKept ==
  /\ Hears("changed")
  /\ handshake' = "none" /\ told' = <<>>
  /\ manager' = Append(manager, [type |-> "restart"])
  /\ UNCHANGED <<stored, ui, cfg, launched>>

\* _on_config_changed(): aa.session.shutdown and aa.session.restart.
OnConfigChanged ==
  /\ Hears("changed")
  /\ cfg' = Head(control).value
  /\ handshake' = "none" /\ told' = <<>>
  /\ manager' = Append(manager, [type |-> "restart"])
  /\ UNCHANGED <<stored, ui, launched>>

\* on_tcp_session_connected(), on_aa_session_restarting(): tcp_server has waited
\* for three seconds, in which everything else arrives (AASession).
OnSessionStarts ==
  /\ handshake = "none" /\ control = <<>> /\ manager = <<>>
  /\ handshake' = "connected"
  /\ UNCHANGED <<stored, ui, cfg, told, control, manager, launched>>

\* _on_service_discovery_request().  An exception is logged by the bus client.
OnServiceDiscoveryRequest ==
  /\ handshake = "connected"
  /\ IF BuildFails(cfg)
       THEN handshake' = "unanswered" /\ UNCHANGED manager
       ELSE /\ handshake' = "waiting"
            /\ manager' = Append(manager, [type |-> "open", sdr |-> Built(cfg)])
  /\ UNCHANGED <<stored, ui, cfg, told, control, launched>>

\* Fault: the state of the handshake is not looked at.
ChannelsReadyUnchecked ==
  /\ Hears("ready")
  /\ told' = Head(control).sdr /\ handshake' = "opening"
  /\ UNCHANGED <<stored, ui, cfg, manager, launched>>

\* on_channels_ready()
OnChannelsReady ==
  /\ Hears("ready")
  /\ IF handshake = "waiting"
       THEN told' = Head(control).sdr /\ handshake' = "opening"
       ELSE UNCHANGED <<told, handshake>>
  /\ UNCHANGED <<stored, ui, cfg, manager, launched>>

-----------------------------------------------------------------------------
(* channel_manager                                                         *)

Takes(type) == manager # <<>> /\ Head(manager).type = type /\ manager' = Tail(manager)

\* on_aa_session_restart()
OnSessionRestart ==
  /\ Takes("restart")
  /\ launched' = {}
  /\ UNCHANGED <<stored, ui, head, control>>

\* on_oaa_control_channel_open_channels(): nothing is done for a response without
\* channels, and nothing comes of one that has a channel of unknown type.
OnOpenChannels ==
  /\ Takes("open")
  /\ LET m == Head(manager).sdr IN
       CASE ChannelsOf(m) = <<>> -> UNCHANGED <<launched, control>>
         [] ChannelsOf(m) # <<>> /\ Unresolved(m) -> launched' = {} /\ UNCHANGED control
         [] OTHER -> /\ launched' = LaunchList(m)
                     /\ control' = Append(control, [type |-> "ready", sdr |-> m])
  /\ UNCHANGED <<stored, ui, head>>

-----------------------------------------------------------------------------
Program ==
  \/ OnConfigChanged \/ OnSessionStarts \/ OnServiceDiscoveryRequest \/ OnChannelsReady
  \/ OnSessionRestart \/ OnOpenChannels

Next == Touch \/ Save \/ Reload \/ Program

Spec == Init /\ [][Next]_vars /\ WF_vars(Program)

-----------------------------------------------------------------------------
\* What a reader of the response makes of a list of channels.
Meaning(channels) == Seen(Response, ToProto(Response, [channels |-> channels]))

\* Every value of a list of channels can be converted for the response.
RECURSIVE Converted(_, _)
Converted(fields, data) ==
  \A k \in DOMAIN data \cap DOMAIN fields :
    LET f == fields[k]
        items == IF f.label = "repeated" THEN data[k].list ELSE <<data[k]>>
    IN \A i \in DOMAIN items :
         IF f.type = "message" THEN Converted(f.fields, items[i].dict)
                               ELSE Converts(f, items[i])

\* The data without what belongs to a oneof.
RECURSIVE WithoutBranches(_, _)
WithoutBranches(fields, data) ==
  LET kept == {k \in DOMAIN data : k \in DOMAIN fields => fields[k].oneof = <<>>}
      Item(f, v) == IF IsDict(v) THEN Dict(WithoutBranches(f.fields, v.dict)) ELSE v
      Value(k) == IF fields[k].label = "repeated"
                    THEN List([i \in DOMAIN data[k].list |->
                                 Item(fields[k], data[k].list[i])])
                    ELSE Item(fields[k], data[k])
  IN [k \in kept |-> IF k \in DOMAIN fields THEN Value(k) ELSE data[k]]

\* Saving a form that nobody has touched takes from the phone what the file holds
\* for a oneof, which the form does not show, and changes nothing else for it, as
\* long as the file holds nothing that cannot be converted: an optional message
\* that is not there stays out, and what the form adds are the defaults that the
\* phone reads anyway.  It does end the session: the form gives text for numbers.
UntouchedFormIsHarmless ==
  Converted(Response, [channels |-> stored]) =>
    Meaning(Given(Form(ChannelsSchema, stored))) =
      Meaning(WithoutBranches(Response, [channels |-> stored]).channels)

\* When the phone has been told which channels there are, the modules that run
\* are those of these channels, unless a change is on its way.
ToldIsServed ==
  handshake = "opening" /\ manager = <<>> =>
    launched = LaunchList(told) /\ ~ Unresolved(told)

\* The rows of a form.
Rows(f) == {f.rows[i].form : i \in DOMAIN f.rows}
Kinds == DOMAIN Descriptor \ {"channel_id"}
Ticked(r) == {k \in Kinds : r[k].active}

\* A list of channels that can be served: each row has a number of its own and
\* one box ticked, and there is a module for the streams.
Sensible(f) ==
  /\ f.rows # <<>>
  /\ \A i, j \in DOMAIN f.rows :
       f.rows[i].form.channel_id = f.rows[j].form.channel_id => i = j
  /\ \A r \in Rows(f) :
       /\ r.channel_id.line # "0"
       /\ Cardinality(Ticked(r)) = 1
       /\ r.av_channel.active =>
            LET av == r.av_channel.body.form IN
              \/ av.codec.choice = "VIDEO_H264_BP"
              \/ av.codec.choice = "AUDIO_PCM" /\ av.audio_type.choice = "MEDIA"

ModuleOf(r) ==
  IF r.av_channel.active
    THEN IF r.av_channel.body.form.codec.choice = "AUDIO_PCM" THEN "audio" ELSE "video"
  ELSE IF r.sensor_channel.active THEN "sensor"
  ELSE IF r.input_channel.active THEN "input"
  ELSE IF r.av_input_channel.active THEN "av_input" ELSE "bluetooth"

\* There is no module for the other two kinds.
Wanted(f) ==
  {[id |-> r.channel_id.line, module |-> ModuleOf(r), as |-> ModuleOf(r)] :
     r \in {x \in Rows(f) : ~ (x.media_info_channel.active \/ x.car_control_channel.active)}}

\* A session comes up with exactly the channels of the saved form, each with a
\* module that takes itself for what it is, if they are sensible: no change is
\* lost on its way through four processes.  (With a value that cannot be
\* converted the phone may get no answer, and the form that is loaded again does
\* not show which value it is.)
SessionOffersTheForm ==
  <>[](LET f == Form(ChannelsSchema, stored) IN
         Converted(Response, [channels |-> stored]) /\ Sensible(f) =>
           handshake = "opening" /\ launched = Wanted(f))

-----------------------------------------------------------------------------
(* The instance that TLC checks: small files.                              *)

\* A channel that the user has added and not filled in.
NewChannel == Dict([channel_id |-> Text("0")])

\* A channel for the car's controls, which somebody has written into the file.
CarControls == Dict(
  [channel_id |-> Number("2"),
   car_control_channel |-> Dict(
     [property_configs |->
        List(<<Dict([min_value |-> Dict([int_value |-> Number("3")])])>>),
      controls |-> List(<<Dict(
        [enabled |-> Bool(TRUE),
         control_group |-> Dict([controls |-> List(<<Dict(
           [property_control |-> Dict([property |->
              Dict([property_id |-> Text("HMG_CAR_ALERTS_COUNT")])])])>>)])])>>)])])

\* Files with one of the channels that the first start writes, one of them with
\* a second that is still to be filled in, and one with the car's controls.
SmallFiles ==
  {List(<<c>>) : c \in {InputDefault, SensorDefault, AudioDefault, MicDefault, CarControls}}
    \cup {List(<<VideoDefault, NewChannel>>)}
=============================================================================
