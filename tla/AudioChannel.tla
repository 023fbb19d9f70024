---------------------------- MODULE AudioChannel ----------------------------
(***************************************************************************)
(* v2/modules/channel_modules/audio/main.py: AudioModule plays what the    *)
(* phone sends on one channel.  It has the bus thread only.  Sound goes to *)
(* a pacat process through a buffer that is filled before it is emptied.   *)
(*                                                                         *)
(* A frame either decodes to sound or to nothing; the acknowledgements are *)
(* left out.  pacat and the decoder can be started.                        *)
(***************************************************************************)
EXTENDS AudioManager

CONSTANT Threshold  \* frames in _prebuffer_threshold

ASSUME AudioAssumption == Threshold \in Nat \ {0}

VARIABLES
  audioState,  \* _state
  sink,        \* _selected_sink
  player,      \* the device pacat was started on, or Nothing: _proc
  broken,      \* pacat has died
  streamVolume,\* what audio_manager has set pacat to, or Unset
  codec,       \* _codec
  avCodec,     \* _av_codec_ctx # None
  codecData,   \* _aac_codec_data # None
  buffer,      \* _prebuffer: the stream each frame belongs to
  stream,      \* streams the phone has started in this session
  playerDeaths

playback == <<player, broken, streamVolume>>
coding == <<codec, avCodec, codecData>>
audio == <<audioState, sink, playback, coding, buffer, stream, playerDeaths>>

Unset == "unset"
Codecs == scenario.codecs  \* those that the channel and the phone may name

AudioInit ==
  /\ audioState = "IDLE" /\ sink = Default /\ player = Nothing /\ broken = FALSE
  /\ streamVolume = Unset /\ codec = "PCM" /\ avCodec = FALSE /\ codecData = FALSE
  /\ buffer = <<>> /\ stream = 0 /\ playerDeaths = 0

\* _open_stream(): the running pacat is replaced by one on the selected sink.
OpenStream(d) == player' = d /\ broken' = FALSE /\ streamVolume' = Unset

\* _close_stream()
CloseStream == player' = Nothing /\ broken' = FALSE /\ streamVolume' = Unset

\* _open_av_codec(), for the codec of the response that the phone has been sent.
OpenDecoder == avCodec' = (codec' = "AAC")

\* _close_av_codec()
CloseDecoder == avCodec' = FALSE

\* The process once it is ready: _init() has opened the decoder and the stream.
AudioStarts ==
  /\ audioState' = "IDLE" /\ sink' = Default /\ buffer' = <<>> /\ stream' = 0
  /\ codec' \in Codecs
  /\ codecData' = FALSE /\ OpenDecoder /\ OpenStream(Default)
  /\ UNCHANGED playerDeaths

\* Fault: what the buffer holds is kept.
KeepBuffer == UNCHANGED buffer

ClearBuffer == buffer' = <<>>

\* pacat dies, because its device has gone or for another reason.
PlayerDies ==
  /\ kind = "audio" /\ phase # "none"
  /\ player # Nothing /\ ~ broken /\ playerDeaths < scenario.deaths
  /\ playerDeaths' = playerDeaths + 1
  /\ broken' = TRUE
  /\ UNCHANGED <<audioState, sink, player, streamVolume, coding, buffer, stream, feed,
                 selection>>

\* on_channel_open()
AudioOpen ==
  ReceiveOpen /\ audioState' = "IDLE"
  /\ UNCHANGED <<sink, playback, coding, buffer, stream, playerDeaths>>

\* on_channel_close()
AudioClose ==
  ReceiveClose /\ audioState' = "IDLE" /\ buffer' = <<>>
  /\ UNCHANGED <<sink, playback, coding, stream, playerDeaths>>

\* on_aa_session_shutdown()
AudioShutdown ==
  ReceiveShutdown /\ audioState' = "IDLE" /\ buffer' = <<>> /\ codecData' = FALSE
  /\ UNCHANGED <<sink, playback, codec, avCodec, stream, playerDeaths>>

\* _cleanup()
AudioStop ==
  /\ ReceiveStop /\ phase' = "none"
  /\ CloseStream /\ CloseDecoder
  /\ codecData' = FALSE /\ buffer' = <<>> /\ audioState' = "IDLE"
  /\ UNCHANGED <<sink, codec, stream, playerDeaths>>

\* on_audio_sink_selected(): a stream that is open is opened anew.
Reopen(d) ==
  IF player # Nothing THEN OpenStream(d) ELSE UNCHANGED playback

SinkSelected(d) ==
  /\ Receive(<<"selected", d>>)
  /\ IF d = sink THEN UNCHANGED <<sink, playback>>
     ELSE sink' = d /\ Reopen(d)
  /\ UNCHANGED <<phase, channelOpen, audioState, coding, buffer, stream, playerDeaths>>

-----------------------------------------------------------------------------
(* on_frame()                                                              *)

\* _handle_setup_request(): the codec is the phone's from now on; the decoder
\* stays as it was opened for the codec that the phone was offered.
AudioSetup ==
  ReceiveFrame("setup") /\ audioState' = "SETUP" /\ codec' \in Codecs

\* _handle_open_request()
AudioOpenRequest ==
  ReceiveFrame("open") /\ audioState' = "OPEN"

\* _handle_start_indication()
AudioStart ==
  ReceiveFrame("start") /\ audioState' = "PLAYING" /\ stream' = stream + 1

\* _handle_stop_indication()
AudioStopped ==
  ReceiveFrame("stop") /\ audioState' = "STOPPED" /\ ClearBuffer

EnterPlaying ==
  audioState' = IF audioState \in {"OPEN", "PLAYING"} THEN audioState ELSE "PLAYING"

\* _decode_aac(): there is nothing to decode with when it is the phone that has
\* brought AAC up.
Decodes == codec = "PCM" \/ avCodec

\* _write_audio(): there is no sound in the frame, or nobody to play it.
NotPlayed == UNCHANGED <<buffer, playback>>

\* "Accumulate PCM until threshold is reached ...
Accumulate ==
  /\ Decodes /\ player # Nothing /\ Len(buffer) + 1 < Threshold
  /\ buffer' = Append(buffer, stream)
  /\ UNCHANGED playback

\* ... then flush everything at once."  The buffer is filled again from then on.
Flush ==
  /\ Decodes /\ player # Nothing /\ Len(buffer) + 1 >= Threshold
  /\ buffer' = <<>>
  /\ IF broken THEN CloseStream ELSE UNCHANGED playback

\* _handle_media_with_timestamp(), and _handle_media() for sound.
AudioMedia ==
  ReceiveFrame("media") /\ EnterPlaying /\ (NotPlayed \/ Accumulate \/ Flush)

\* _handle_media() for the two bytes that say how AAC is coded: kept over the
\* end of a stream, and no reason to be playing.
CodecData ==
  ReceiveFrame("media") /\ codec = "AAC" /\ codecData' = TRUE

AudioFrame ==
  \/ /\ AudioSetup
     /\ UNCHANGED <<sink, playback, avCodec, codecData, buffer, stream, playerDeaths>>
  \/ /\ AudioOpenRequest
     /\ UNCHANGED <<sink, playback, coding, buffer, stream, playerDeaths>>
  \/ AudioStart /\ UNCHANGED <<sink, playback, coding, buffer, playerDeaths>>
  \/ AudioStopped /\ UNCHANGED <<sink, playback, coding, stream, playerDeaths>>
  \/ AudioMedia /\ UNCHANGED <<sink, coding, stream, playerDeaths>>
  \/ /\ CodecData
     /\ UNCHANGED <<audioState, sink, playback, codec, avCodec, buffer, stream,
                    playerDeaths>>
  \/ FrameDropped /\ UNCHANGED audio

AudioHandles ==
  /\ kind = "audio"
  /\ \/ AudioOpen \/ AudioClose \/ AudioShutdown \/ AudioStop \/ AudioFrame
     \/ \E d \in Names : SinkSelected(d)
  /\ UNCHANGED <<screenIn, selection>>

AudioTypeOK ==
  /\ audioState \in {"IDLE", "SETUP", "OPEN", "PLAYING", "STOPPED"}
  /\ sink \in Names /\ player \in Names \cup {Nothing} /\ broken \in BOOLEAN
  /\ codec \in {"PCM", "AAC"} /\ {avCodec, codecData} \subseteq BOOLEAN
  /\ Len(buffer) < Threshold

-----------------------------------------------------------------------------
(***************************************************************************)
(* v2/modules/audio_manager/main.py: the volume of the system and that of  *)
(* the channel that is followed.  Both are asked for on the bus, by the    *)
(* user who changes the configuration or by a module; wpctl sets the one,  *)
(* and pactl the other, in the pacat of the channel if it finds it.        *)
(***************************************************************************)
VARIABLES
  volumeRequests, \* on their way: <<topic, whose, volume>>
  volume,         \* _config["volume"]
  channelVolume,  \* _config["volume_ch<id>"]
  loudness,       \* of the default sink
  unheard,        \* those of "system" and "channel" whose last setting has failed
  volumesAsked

volumes == <<volumeRequests, volume, channelVolume, loudness, unheard, volumesAsked>>

Loud == {"low", "high"}
Whose == {"system", "channel"}

\* _on_config_loaded(): the volume of the system is set as it was stored, that of
\* a channel is not.
VolumesInit ==
  /\ volumeRequests = <<>> /\ volumesAsked = 0
  /\ volume = "low" /\ loudness = "low" /\ channelVolume = "low" /\ unheard = {"channel"}

\* A value out of range is not an int of 0 to 100.
AskVolume ==
  /\ kind = "audio" /\ volumesAsked < scenario.volumes
  /\ volumesAsked' = volumesAsked + 1
  /\ \E w \in Whose, m \in {<<"config", v>> : v \in Loud} \cup
                           {<<"bus", v>> : v \in Loud \cup {"out of range"}} :
       volumeRequests' = Append(volumeRequests, <<m[1], w, m[2]>>)
  /\ UNCHANGED <<volume, channelVolume, loudness, unheard, streamVolume>>

\* _set_global_volume(), which wpctl may refuse.
SetGlobalVolume(v) ==
  /\ \/ loudness' = v /\ unheard' = unheard \ {"system"}
     \/ UNCHANGED loudness /\ unheard' = unheard \cup {"system"}
  /\ UNCHANGED streamVolume

\* _get_sink_input_index(): pacat has told the sound server its name.
StreamFound == player # Nothing /\ ~ broken

\* _set_channel_volume()
SetChannelVolume(v) ==
  /\ \/ StreamFound /\ streamVolume' = v /\ unheard' = unheard \ {"channel"}
     \/ UNCHANGED streamVolume /\ unheard' = unheard \cup {"channel"}
  /\ UNCHANGED loudness

\* on_audio_volume_set(); _on_config_changed("volume").
SystemVolume(v) ==
  volume' = v /\ SetGlobalVolume(v) /\ UNCHANGED channelVolume

\* on_audio_channel_volume_set(); _on_config_changed("volume_ch<id>").
ChannelVolume(v) ==
  channelVolume' = v /\ SetChannelVolume(v) /\ UNCHANGED volume

VolumeRefused ==
  UNCHANGED <<volume, channelVolume, loudness, unheard, streamVolume>>

\* In the bus thread, between two choices of a device.
HearVolume ==
  /\ volumeRequests # <<>> /\ changing = Nothing
  /\ volumeRequests' = Tail(volumeRequests)
  /\ LET m == Head(volumeRequests) IN
       \/ m[3] \in Loud /\ m[2] = "system" /\ SystemVolume(m[3])
       \/ m[3] \in Loud /\ m[2] = "channel" /\ ChannelVolume(m[3])
       \/ m[3] \notin Loud /\ VolumeRefused
  /\ UNCHANGED volumesAsked

VolumesNext ==
  /\ AskVolume \/ HearVolume
  /\ UNCHANGED <<audioState, sink, player, broken, coding, buffer, stream, playerDeaths,
                 feed, selection>>

VolumesTypeOK ==
  /\ volume \in Loud /\ channelVolume \in Loud /\ loudness \in Loud
  /\ streamVolume \in Loud \cup {Unset} /\ unheard \subseteq Whose

\* What is heard is as loud as was asked for last, unless setting it has failed.
VolumesAreSet ==
  /\ "system" \notin unheard => loudness = volume
  /\ "channel" \notin unheard /\ streamVolume # Unset => streamVolume = channelVolume
=============================================================================
