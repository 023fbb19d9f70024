-------------------------- MODULE ServiceDiscovery --------------------------
(***************************************************************************)
(* The channels that the car offers to the phone:                          *)
(* v2/modules/oaa_control_channel/service_discovery.py makes the           *)
(* ServiceDiscoveryResponse from the configuration and reads the channels  *)
(* back from it; v2/modules/channel_manager/registry.py finds the module   *)
(* of each.  v2/shared/proto_utils.py makes a schema from the descriptor   *)
(* of a message, and fills a message from a nested dict.                   *)
(*                                                                         *)
(* A descriptor gives each field a label, a type and, for a message or an  *)
(* enumeration, what is in it.  A message is a function from the fields    *)
(* that are set to their values.  The descriptors keep one field of each   *)
(* shape that the messages have and the values of an enumeration that are  *)
(* treated differently.  A field that belongs to a oneof has its group and *)
(* its place in it.  CarControlGroup is in CarControl and has CarControls, *)
(* which the descriptors unroll once.                                      *)
(***************************************************************************)
EXTENDS Forms

(* proto_utils.py                                                          *)

NoFields == [k \in {} |-> [label |-> "", type |-> "", values |-> <<>>, fields |-> <<>>,
                           full_name |-> "", oneof |-> <<>>]]

Field(label, type, values) ==
  [label |-> label, type |-> type, values |-> values, fields |-> NoFields,
   full_name |-> "", oneof |-> <<>>]
SubMessage(label, fields) ==
  [Field(label, "message", <<>>) EXCEPT !.fields = fields]
Named(name, f) == [f EXCEPT !.full_name = name]
Branch(group, place, f) == [f EXCEPT !.oneof = <<group, place>>]

\* _scalar_field()
ScalarField(f) ==
  CASE f.type = "int"    -> Scalar("int", Number("0"), {})
    [] f.type = "bool"   -> Scalar("bool", Bool(FALSE), {})
    [] f.type = "enum"   -> Scalar("enum", Text(f.values[1]), ToSet(f.values))
    [] f.type = "string" -> Scalar("string", Text(""), {})

\* schema_from_proto_message(): a message inside itself gets no fields, and the
\* branches of a oneof go under the name of their group.
RECURSIVE SchemaFields(_, _)
SchemaFields(fields, visited) ==
  LET Inner(f) == IF f.full_name \in visited
                    THEN NoFields
                    ELSE SchemaFields(f.fields, visited \cup ({f.full_name} \ {""}))
      Node(f) == IF f.type = "message"
                   THEN MessageOf(Inner(f), f.label # "repeated")
                   ELSE ScalarField(f)
      InOneOf == {k \in DOMAIN fields : fields[k].oneof # <<>>}
      Groups == {fields[k].oneof[1] : k \in InOneOf}
      Group(g) ==
        LET bs == {k \in InOneOf : fields[k].oneof[1] = g}
        IN OneOf([k \in bs |-> Node(fields[k])], CHOOSE k \in bs : fields[k].oneof[2] = 1)
  IN [k \in (DOMAIN fields \ InOneOf) \cup Groups |->
        CASE k \in Groups -> Group(k)
          [] k \notin Groups /\ fields[k].label = "repeated" -> ListOf(Node(fields[k]))
          [] OTHER -> Node(fields[k])]

-----------------------------------------------------------------------------
\* What _coerce_scalar() can convert; otherwise it raises ValueError.
Converts(f, v) ==
  CASE f.type = "int"  -> v.is \in Digits
    [] f.type = "enum" -> v.is \in ToSet(f.values)
    [] OTHER -> TRUE

\* dict_to_proto() catches the errors of single fields, not those of the items
\* of a repeated one: these leave it through every level.
RECURSIVE Raises(_, _)
Raises(fields, data) ==
  \E k \in DOMAIN data \cap DOMAIN fields :
    LET f == fields[k]
        v == data[k]
    IN CASE f.label = "repeated" /\ f.type # "message" ->
              \E i \in DOMAIN v.list : ~ Converts(f, v.list[i])
         [] f.label = "repeated" /\ f.type = "message" ->
              \E i \in DOMAIN v.list : Raises(f.fields, v.list[i].dict)
         [] f.label # "repeated" /\ f.type = "message" -> Raises(f.fields, v.dict)
         [] OTHER -> FALSE

\* dict_to_proto(): keys that the message does not know and values that cannot
\* be converted are left out; a nested message is there if something in it is,
\* an item of a list in any case.
RECURSIVE Filled(_, _)
Filled(fields, data) ==
  {k \in DOMAIN data \cap DOMAIN fields :
     LET f == fields[k]
     IN CASE f.label = "repeated" -> data[k].list # <<>>
          [] f.label # "repeated" /\ f.type = "message" ->
               Filled(f.fields, data[k].dict) # {}
          [] OTHER -> Converts(f, data[k])}

RECURSIVE ToProto(_, _)
ToProto(fields, data) ==
  LET Value(f, v) ==
        CASE f.label = "repeated" /\ f.type # "message" ->
               [i \in DOMAIN v.list |-> v.list[i].is]
          [] f.label = "repeated" /\ f.type = "message" ->
               [i \in DOMAIN v.list |-> ToProto(f.fields, v.list[i].dict)]
          [] f.label # "repeated" /\ f.type = "message" -> ToProto(f.fields, v.dict)
          [] OTHER -> v.is
  IN [k \in Filled(fields, data) |-> Value(fields[k], data[k])]

\* SerializeToString() fails on a message of which a required field is not set, at
\* any level.
RECURSIVE Encodes(_, _)
Encodes(fields, m) ==
  \A k \in DOMAIN fields :
    LET f == fields[k] IN
      /\ f.label = "required" => k \in DOMAIN m
      /\ f.type = "message" /\ k \in DOMAIN m =>
           IF f.label = "repeated" THEN \A i \in DOMAIN m[k] : Encodes(f.fields, m[k][i])
                                   ELSE Encodes(f.fields, m[k])

\* What who reads the message finds in it: a field that is not set has its
\* default, a message that is not set is seen not to be there.
RECURSIVE Seen(_, _)
Seen(fields, m) ==
  LET Read(k) ==
        LET f == fields[k] IN
        CASE f.type = "message" /\ f.label = "repeated" ->
               IF k \in DOMAIN m THEN [i \in DOMAIN m[k] |-> Seen(f.fields, m[k][i])]
                                 ELSE <<>>
          [] f.type = "message" /\ f.label # "repeated" ->
               IF k \in DOMAIN m THEN <<Seen(f.fields, m[k])>> ELSE <<>>
          [] f.type # "message" /\ f.label = "repeated" ->
               IF k \in DOMAIN m THEN m[k] ELSE <<>>
          [] OTHER -> IF k \in DOMAIN m THEN m[k] ELSE ScalarField(f).default.is
  IN [k \in DOMAIN fields |-> Read(k)]

-----------------------------------------------------------------------------
(* The descriptors, and the channels of the configuration file.            *)

Codecs     == <<"UNKNOWN", "AUDIO_PCM", "VIDEO_H264_BP">>
AudioTypes == <<"NONE", "MEDIA">>
Streams    == <<"NONE", "AUDIO">>
Sensors    == <<"LOCATION", "NIGHT_DATA">>
CarProperties == <<"CAR_PROPERTY_UNKNOWN", "HMG_CAR_ALERTS_COUNT">>

\* CarControl, with groups as deep as n.
RECURSIVE CarControl(_)
CarControl(n) ==
  [property_control |-> Branch("control", 1, SubMessage("optional",
     [property |-> SubMessage("optional",
        [property_id |-> Field("optional", "enum", CarProperties)])])),
   control_group |-> Branch("control", 2, SubMessage("optional",
     [controls |-> Named("CarControl",
        SubMessage("repeated", IF n = 0 THEN NoFields ELSE CarControl(n - 1)))])),
   enabled |-> Field("optional", "bool", <<>>)]

\* CarControlChannel, with the values of the areas of its property_configs in them.
CarControlChannel ==
  [property_configs |-> SubMessage("repeated",
     [min_value |-> SubMessage("optional",
        [int_value |-> Branch("value", 1, Field("optional", "int", <<>>))])]),
   controls |-> Named("CarControl", SubMessage("repeated", CarControl(1)))]

\* ChannelDescriptor, with those of the kinds of channel that behave differently.
Descriptor ==
  [channel_id        |-> Field("optional", "int", <<>>),
   av_channel        |-> SubMessage("optional",
     [codec      |-> Field("optional", "enum", Codecs),
      audio_type |-> Field("optional", "enum", AudioTypes)]),
   sensor_channel    |-> SubMessage("optional",
     [sensors |-> SubMessage("repeated", [type |-> Field("optional", "enum", Sensors)]),
      location_characterization |-> Field("optional", "int", <<>>)]),
   input_channel     |-> SubMessage("optional",
     [supported_keycodes   |-> Field("repeated", "int", <<>>),
      touch_screen_configs |-> SubMessage("repeated", [width |-> Field("required", "int", <<>>)]),
      display_id           |-> Field("optional", "int", <<>>)]),
   av_input_channel  |-> SubMessage("optional",
     [stream_type  |-> Field("optional", "enum", Streams),
      audio_config |-> SubMessage("optional", [sample_rate |-> Field("required", "int", <<>>)])]),
   bluetooth_channel |-> SubMessage("optional",
     [adapter_address |-> Field("required", "string", <<>>)]),
   media_info_channel  |-> SubMessage("optional", NoFields),
   car_control_channel |-> SubMessage("optional", CarControlChannel)]

\* ServiceDiscoveryResponse; its other fields name the car.
Response == [channels |-> SubMessage("repeated", Descriptor)]

\* _SCHEMA["channels"]
ChannelsSchema == SchemaFields(Response, {}).channels

\* SEMANTIC_DEFAULTS["channels"]: one channel of each shape, as the file has them
\* until the user saves the form.
InputDefault == Dict(
  [channel_id |-> Number("1"),
   input_channel |-> Dict(
     [touch_screen_configs |-> List(<<Dict([width |-> Number("1280")])>>),
      supported_keycodes |-> List(<<Number("3")>>)])])
SensorDefault == Dict(
  [channel_id |-> Number("2"),
   sensor_channel |-> Dict([sensors |-> List(<<Dict([type |-> Text("NIGHT_DATA")])>>)])])
VideoDefault == Dict(
  [channel_id |-> Number("3"), av_channel |-> Dict([codec |-> Text("VIDEO_H264_BP")])])
\* Three channels of sound, that differ in the type.
AudioDefault == Dict(
  [channel_id |-> Number("4"),
   av_channel |-> Dict([codec |-> Text("AUDIO_PCM"), audio_type |-> Text("MEDIA")])])

\* AVInputChannel has no field of the name "codec".
MicDefault == Dict(
  [channel_id |-> Number("7"),
   av_input_channel |-> Dict(
     [codec |-> Text("AUDIO_PCM"), audio_config |-> Dict([sample_rate |-> Number("3")])])])

\* _apply_defaults_to_schema(): a list keeps the schema of its items.
WithDefaults(schema, channels) == [item |-> schema.item, default |-> channels]

\* _defaults_from_schema() of config_manager: what the first start stores.
FirstFile(channels) == WithDefaults(ChannelsSchema, channels).default

-----------------------------------------------------------------------------
(* build_from_schema_cfg()                                                 *)

\* The address of the adapter is put into the bluetooth channels.
Injected(m) ==
  IF "channels" \notin DOMAIN m THEN m
  ELSE [m EXCEPT !.channels =
          [i \in DOMAIN @ |->
             IF "bluetooth_channel" \in DOMAIN @[i]
               THEN [@[i] EXCEPT !.bluetooth_channel =
                       [k \in DOMAIN @ \cup {"adapter_address"} |-> "00:00:00:00:00:00"]]
               ELSE @[i]]]

\* encode_proto(): what cannot be encoded becomes a message without anything.
Encoded(m) == IF Encodes(Response, m) THEN m ELSE <<>>

Built(channels) == Encoded(Injected(ToProto(Response, [channels |-> channels])))

\* dict_to_proto() raises.
BuildFails(channels) == Raises(Response, [channels |-> channels])

-----------------------------------------------------------------------------
(* channels_from_sdr_bytes() and resolve_module_type()                     *)

\* _ONEOF_CHANNEL_FIELDS
KnownFields == <<"av_channel", "sensor_channel", "input_channel", "bluetooth_channel",
                 "media_info_channel", "av_input_channel">>

\* The first of them that is set.
KindOf(ch) ==
  LET Set == SelectSeq(KnownFields, LAMBDA k : k \in DOMAIN ch)
  IN IF Set = <<>> THEN "none" ELSE Head(Set)

ReadAs(fields, m, k) == IF k \in DOMAIN m THEN m[k] ELSE ScalarField(fields[k]).default.is

\* Each channel with what the registry looks at.
ChannelsOf(m) ==
  LET chs == IF "channels" \in DOMAIN m THEN m.channels ELSE <<>>
      Av(ch, k) == IF KindOf(ch) = "av_channel"
                     THEN ReadAs(Descriptor.av_channel.fields, ch.av_channel, k) ELSE ""
  IN [i \in DOMAIN chs |->
        [id |-> ReadAs(Descriptor, chs[i], "channel_id"), kind |-> KindOf(chs[i]),
         codec |-> Av(chs[i], "codec"), audio |-> Av(chs[i], "audio_type")]]

\* "skip" for SkipChannel and "unknown" for KeyError.
ModuleType(c) ==
  CASE c.kind = "av_channel" /\ c.codec = "VIDEO_H264_BP" -> "video"
    [] c.kind = "av_channel" /\ c.codec = "AUDIO_PCM" /\ c.audio = "MEDIA" -> "audio"
    [] c.kind = "sensor_channel" -> "sensor"
    [] c.kind = "input_channel" -> "input"
    [] c.kind = "av_input_channel" -> "av_input"
    [] c.kind = "bluetooth_channel" -> "bluetooth"
    [] c.kind \in {"media_info_channel", "none"} -> "skip"
    [] OTHER -> "unknown"

\* The channels for which ChannelManagerSession.start() looks for a module; 0 is
\* that of oaa_control_channel itself.
Listed(m) == {c \in ToSet(ChannelsOf(m)) : c.id # "0"}

Unresolved(m) == \E c \in Listed(m) : ModuleType(c) = "unknown"

\* channel_config_from_sdr(): the descriptor that a module finds by its number is
\* that of the first channel that has it.
ConfigOf(m, id) == SelectSeq(ChannelsOf(m), LAMBDA c : c.id = id)[1]

\* launch_list, and what each module configures itself as.
LaunchList(m) ==
  {[id |-> c.id, module |-> ModuleType(c), as |-> ModuleType(ConfigOf(m, c.id))] :
     c \in {d \in Listed(m) : ModuleType(d) # "skip"}}
=============================================================================
