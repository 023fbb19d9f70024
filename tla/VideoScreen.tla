----------------------------- MODULE VideoScreen -----------------------------
(***************************************************************************)
(* v2/modules/channel_modules/video/main.py: VideoModule tells video_ui    *)
(* the state of the video stream and passes its frames on; every frame of  *)
(* the phone has a body, and publish_frames is set.                        *)
(*                                                                         *)
(* v2/modules/video_ui/main.py: what the driver sees.  Three threads:      *)
(* the bus thread follows the state of the connection, the Qt thread owns  *)
(* the stack of pages and GStreamer's decoder runs in a thread of its own. *)
(* The other two ask the Qt thread for work by queued calls.               *)
(*                                                                         *)
(* A buffer the decoder is given becomes a picture or is dropped; its      *)
(* contents, the time stamps and the shaders are left out.                 *)
(***************************************************************************)
EXTENDS ChannelFeed

CONSTANT MaxPipeline  \* pictures the pipeline holds

ASSUME ScreenAssumption == MaxPipeline \in Nat \ {0}

-----------------------------------------------------------------------------
(* The channel module.                                                     *)

VARIABLES
  videoState,  \* _state
  videoStream  \* streams announced over so far: names the frames of a stream

video == <<videoState, videoStream>>

VideoInit   == videoState = "IDLE" /\ videoStream = 0
VideoStarts == videoState' = "IDLE" /\ UNCHANGED videoStream

\* _set_state(): published when it changes.
SetState(s) ==
  /\ videoState' = s
  /\ videoStream' = IF s # videoState /\ s \in {"IDLE", "STOPPED"}
                    THEN videoStream + 1 ELSE videoStream
  /\ screenIn' = IF s = videoState THEN screenIn ELSE Append(screenIn, <<"state", s>>)

\* _publish_video_frame()
PublishFrame ==
  /\ screenIn' = Append(screenIn, <<"picture", videoStream>>)
  /\ UNCHANGED video

\* _handle_media_with_timestamp(): the stream is taken to be playing, whatever
\* its state was.
MediaFrame ==
  /\ ReceiveFrame("media")
  /\ \/ videoState \in {"OPEN", "PLAYING"} /\ PublishFrame
     \/ /\ videoState \notin {"OPEN", "PLAYING"}
        /\ videoState' = "PLAYING" /\ UNCHANGED videoStream
        /\ screenIn' = screenIn \o <<<<"state", "PLAYING">>, <<"picture", videoStream>>>>

\* _handle_media(): what the decoder needs before it can decode, in any state.
ConfigFrame ==
  /\ ReceiveFrame("config")
  /\ screenIn' = Append(screenIn, <<"config">>)
  /\ UNCHANGED video

\* _handle_video_focus_request(): answered, and granted.
FocusRequest == ReceiveFrame("focus") /\ UNCHANGED <<screenIn, video>>

VideoFrame ==
  \/ ReceiveFrame("setup")  /\ SetState("SETUP")
  \/ ReceiveFrame("open")   /\ SetState("OPEN")
  \/ ReceiveFrame("start")  /\ SetState("PLAYING")
  \/ ReceiveFrame("stop")   /\ SetState("STOPPED")
  \/ MediaFrame \/ ConfigFrame \/ FocusRequest
  \/ FrameDropped /\ UNCHANGED video

\* on_channel_open(), on_channel_close(), on_aa_session_shutdown(), _cleanup()
VideoReset ==
  /\ \/ ReceiveOpen \/ ReceiveClose \/ ReceiveShutdown
     \/ ReceiveStop /\ phase' = "none"
  /\ SetState("IDLE")

VideoHandles == kind = "video" /\ (VideoFrame \/ VideoReset)

VideoTypeOK == videoState \in {"IDLE", "SETUP", "OPEN", "PLAYING", "STOPPED"}

-----------------------------------------------------------------------------
(* The window.                                                             *)

VARIABLES
  label,      \* _conn_state
  text,       \* what the placeholder says of it
  calls,      \* queued calls of the Qt thread
  hiding,     \* set_streaming(False) has reset the flag and not the page
  firstShown, \* _first_frame_shown
  page,       \* index of the stack: 0 the placeholder, 1 the video
  decoder,    \* pictures in the pipeline: the stream each is from
  seen,       \* the stream of the picture the renderer has, or -1
  pairings

screen == <<label, text, calls, hiding, firstShown, page, decoder, seen, pairings>>

ScreenInit ==
  /\ label = "WAITING_BT" /\ text = label /\ calls = <<>> /\ hiding = FALSE
  /\ firstShown = FALSE /\ page = 0 /\ decoder = <<>> /\ seen = 0 - 1
  /\ pairings = 0

-----------------------------------------------------------------------------
(* The pipeline, built once, from what is installed.                       *)

Candidates == {"vaapih264dec", "vah264dec", "openh264dec", "avdec_h264"}

\* _try_load_system_vaapi(): the system's plugins may have what ours have not.
WithSystemPlugins(installed) ==
  IF "system vaapih264dec" \in installed THEN installed \cup {"vaapih264dec"}
                                         ELSE installed

\* _build_pipeline(): the format of its pictures, or none without a decoder.
BuildPipeline(installed, gl) ==
  IF WithSystemPlugins(installed) \cap Candidates = {} THEN "none"
  ELSE IF gl THEN "NV12" ELSE "RGB"

\* _init_gstreamer(): the page the stack has for the pictures, if any.
VideoPage ==
  IF BuildPipeline(scenario.decoders, scenario.gl) = "none" THEN 0 ELSE 1

-----------------------------------------------------------------------------
(* What others publish.                                                    *)

PairingCompleted ==
  /\ kind = "video" /\ pairings < scenario.pairings
  /\ pairings' = pairings + 1
  /\ screenIn' = Append(screenIn, <<"paired">>)
  /\ UNCHANGED <<label, text, calls, hiding, firstShown, page, decoder, seen, video,
                 scenario, phase, sessions, announced, phone, sent, inbox, channelOpen>>

-----------------------------------------------------------------------------
(* The bus thread.                                                         *)

Takes(m) == screenIn # <<>> /\ Head(screenIn) = m /\ screenIn' = Tail(screenIn)

\* _invoke(), QMetaObject.invokeMethod() with a queued connection
Invoke(cs) == calls' = calls \o cs

\* _set_conn_state() and the calls made after it
SetConnState(s, cs) == label' = s /\ Invoke(<<<<"label", s>>>> \o cs)

\* Fault: a stream is over when the phone stops it, not when its channel goes.
OverWhenStopped == {"STOPPED"}

OverStates == {"IDLE", "STOPPED"}

Hide == <<<<"hide">>>>

\* on_video_state()
OnVideoState ==
  \/ Takes(<<"state", "PLAYING">>) /\ SetConnState("STREAMING", <<>>)
  \/ /\ \E s \in OverStates : Takes(<<"state", s>>)
     /\ IF label = "STREAMING" THEN SetConnState("INTERRUPTED", Hide)
                               ELSE Invoke(Hide) /\ UNCHANGED label
  \/ /\ \E s \in {"IDLE", "STOPPED", "SETUP", "OPEN"} \ OverStates : Takes(<<"state", s>>)
     /\ UNCHANGED <<label, calls>>

\* The phone is on its way, as far as that was not known.
ConnectionComes(from) ==
  IF label \in from THEN SetConnState("HANDSHAKE", <<>>) ELSE UNCHANGED <<label, calls>>

\* on_aa_session_active(), on_aa_session_shutdown() and
\* on_bluetooth_pairing_completed()
OnSession ==
  \/ Takes(<<"active">>) /\ ConnectionComes({"WAITING_BT", "HANDSHAKE"})
  \/ Takes(<<"shutdown">>) /\ SetConnState("WAITING_BT", Hide)
  \/ Takes(<<"paired">>) /\ ConnectionComes({"WAITING_BT"})

\* on_video_frame()
OnVideoFrame ==
  /\ \/ \E n \in 0..videoStream : Takes(<<"picture", n>>) /\ Invoke(<<<<"picture", n>>>>)
     \/ Takes(<<"config">>) /\ Invoke(<<<<"config">>>>)
  /\ UNCHANGED label

ScreenBusThread ==
  /\ OnVideoState \/ OnSession \/ OnVideoFrame
  /\ UNCHANGED <<text, hiding, firstShown, page, decoder, seen, pairings, video,
                 scenario, phase, sessions, announced, phone, sent, inbox, channelOpen>>

-----------------------------------------------------------------------------
(* The Qt thread.                                                          *)

Called(c) == ~ hiding /\ calls # <<>> /\ Head(calls) = c /\ calls' = Tail(calls)

\* push_frame(): with no pipeline the frame is dropped.
PushFrame ==
  /\ \E n \in 0..videoStream :
       /\ Called(<<"picture", n>>)
       /\ decoder' = IF VideoPage = 0 THEN decoder ELSE Append(decoder, n)
  /\ Len(decoder') <= MaxPipeline
  /\ UNCHANGED <<text, hiding, firstShown, page, seen>>

\* push_frame() with is_config: no picture comes of it.
PushConfig == Called(<<"config">>) /\ UNCHANGED <<text, hiding, firstShown, page,
                       decoder, seen>>

\* push_nv12() or push_rgb(): the picture is kept, and painted.
PaintPicture ==
  /\ \E n \in 0..videoStream : Called(<<"paint", n>>) /\ seen' = n
  /\ UNCHANGED <<text, hiding, firstShown, page, decoder>>

\* set_conn_state() of the placeholder
ShowLabel ==
  /\ \E s \in {"WAITING_BT", "HANDSHAKE", "STREAMING", "INTERRUPTED"} :
       Called(<<"label", s>>) /\ text' = s
  /\ UNCHANGED <<hiding, firstShown, page, decoder, seen>>

\* Fault: the first picture of the next stream is not taken for one.
KeepFirst == UNCHANGED firstShown

ForgetFirst == firstShown' = FALSE

\* set_streaming(False), which the decoder's thread may interrupt ...
HideVideo ==
  /\ Called(<<"hide">>) /\ hiding' = TRUE
  /\ ForgetFirst /\ UNCHANGED <<text, page, decoder, seen>>

\* ... before the page is changed.
ShowPlaceholder ==
  /\ hiding /\ hiding' = FALSE /\ page' = 0
  /\ UNCHANGED <<text, calls, firstShown, decoder, seen>>

\* set_streaming(True)
ShowVideo ==
  /\ Called(<<"show">>) /\ page' = VideoPage
  /\ UNCHANGED <<text, hiding, firstShown, decoder, seen>>

QtThread ==
  /\ \/ PushFrame \/ PushConfig \/ PaintPicture \/ ShowLabel
     \/ HideVideo \/ ShowPlaceholder \/ ShowVideo
  /\ UNCHANGED <<label, pairings, video, feed>>

-----------------------------------------------------------------------------
(* The decoder's thread.                                                   *)

\* _on_new_sample()
NewSample ==
  /\ firstShown' = TRUE
  /\ Invoke((IF firstShown THEN <<>> ELSE <<<<"show">>>>) \o <<<<"paint", Head(decoder)>>>>)

\* A queue that leaks, or a decoder that waits for a picture to start from.
Leak == UNCHANGED <<firstShown, calls>>

DecoderThread ==
  /\ decoder # <<>> /\ decoder' = Tail(decoder)
  /\ NewSample \/ Leak
  /\ UNCHANGED <<label, text, hiding, page, seen, pairings, video, feed>>

ScreenTypeOK ==
  /\ {label, text} \subseteq {"WAITING_BT", "HANDSHAKE", "STREAMING", "INTERRUPTED"}
  /\ page \in {0, 1} /\ hiding \in BOOLEAN /\ firstShown \in BOOLEAN
=============================================================================
