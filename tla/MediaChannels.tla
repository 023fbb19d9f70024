---------------------------- MODULE MediaChannels ----------------------------
(***************************************************************************)
(* The media channels with those they work with: a channel of sound with   *)
(* audio_manager, which chooses its device, and the video channel with     *)
(* video_ui, which shows it.  Each behaviour follows one channel, over the *)
(* sessions that come and go, each with a process of its own.              *)
(***************************************************************************)
EXTENDS AudioChannel, MicChannel, VideoScreen, InputChannel

vars == <<feed, selection, audio, volumes, mic, video, screen, input, sensor, car>>

Init ==
  /\ FeedInit /\ SelectionInit /\ AudioInit /\ VolumesInit /\ MicInit
  /\ VideoInit /\ ScreenInit /\ InputInit /\ SensorInit

\* A session begins: channel_manager starts the process and opens the channel.
SessionBegins ==
  /\ ChannelOpened
  /\ AudioStarts /\ MicStarts /\ VideoStarts /\ InputStarts /\ SensorStarts
  /\ UNCHANGED <<selection, volumes, label, text, calls, hiding, firstShown, page,
                 decoder, seen, pairings, car>>

sound    == <<selection, audio, volumes, mic>>
pictures == <<video, screen>>
driving  == <<input, sensor, car>>

AudioNext ==
  /\ \/ (AudioHandles \/ PlayerDies) /\ UNCHANGED volumes
     \/ VolumesNext
  /\ UNCHANGED <<mic, pictures, driving>>
MicNext ==
  /\ MicBusThread \/ RecorderDies \/ \E k \in Captures : Reader(k)
  /\ UNCHANGED <<audio, volumes, pictures, driving>>
ScreenNext ==
  /\ \/ VideoHandles /\ UNCHANGED screen
     \/ PairingCompleted \/ ScreenBusThread \/ QtThread \/ DecoderThread
  /\ UNCHANGED <<sound, driving>>
DrivingNext ==
  /\ \/ (Gesture \/ Reading) /\ UNCHANGED <<input, sensor>>
     \/ InputHandles /\ UNCHANGED sensor
     \/ SensorHandles /\ UNCHANGED input
  /\ UNCHANGED <<sound, pictures>>

FeedStep == FeedNext /\ UNCHANGED <<sound, pictures, driving>>
Select(A) == A /\ UNCHANGED <<audio, volumes, mic, pictures, driving>>

Next ==
  \/ SessionBegins \/ FeedStep \/ Select(SelectionNext)
  \/ AudioNext \/ MicNext \/ ScreenNext \/ DrivingNext

Spec == Init /\ [][Next]_vars

\* Every thread goes on; polls are made again and again.  Nobody has to plug,
\* to choose, to speak or to end a session.
Fairness ==
  /\ WF_vars(FeedStep /\ ChannelClosed)
  /\ WF_vars(Select(StoreChoice \/ PublishChoice))
  /\ \A t \in Refreshers : WF_vars(Select(SelectionNext /\ Refresh(t)))
  /\ WF_vars(AudioNext /\ AudioHandles)
  /\ WF_vars(MicNext /\ MicBusThread)
  /\ \A k \in Captures : WF_vars(MicNext /\ Reader(k))

FairSpec == Spec /\ Fairness

-----------------------------------------------------------------------------
TypeOK ==
  /\ SelectionTypeOK /\ AudioTypeOK /\ VolumesTypeOK /\ MicTypeOK /\ VideoTypeOK
  /\ ScreenTypeOK

\* Sound of a stream that was stopped is neither played in the next one nor
\* sent to the phone after the microphone was opened again, although the
\* threads that bring it are not stopped at once: _prebuffer and _send_queue.
SoundIsOfThisStream ==
  /\ \A i \in DOMAIN buffer : buffer[i] = stream /\ audioState = "PLAYING"
  /\ stopping = "no" =>
       \A i \in DOMAIN queue : queue[i] = capture /\ capturing

\* In the end sound is played on and recorded from what the user has chosen last,
\* however the choice, the two refreshing threads and the restarts of the channel
\* interleave, and otherwise from the default, never from a device that is not there;
\* and it is as loud as was asked for.  The choice is not followed if the device has
\* been gone, a listing has failed or a refreshment has been overtaken since it was
\* made (Excuses), and nothing is heard any more once pacat has died.
SoundFollowsChoice ==
  <>[](/\ choice \in {wanted, Default} \cap (present \cup {Default})
       /\ excuses = {} => choice = wanted
       /\ kind = "audio" /\ phase = "up" /\ inbox = <<>> =>
            player = choice \/ (player = Nothing /\ playerDeaths > 0)
       /\ kind = "mic" /\ capturing =>
            (recorder \in recording /\ device = choice) \/ micDeaths > 0
       /\ VolumesAreSet)

\* The module plays and records nothing and sends nothing that the phone has asked
\* for, or it is about to stop.  The bindings of the keys, the decoder and what the
\* phone has said of its codec may be kept: on_channel_close() leaves them.
Quiet ==
  \/ /\ {audioState, micState, videoState, inputState, sensorState} = {"IDLE"}
     /\ started = {} /\ ~ capturing
  \/ stopping # "no"

\* Once the channel is closed nothing of it goes on (Quiet), and nothing is reported
\* to the phone, although the frames of the phone and the news of the end of the
\* session, of the first ping and of what happens in the car come in any order.
ClosedIsQuiet ==
  [][/\ ~ channelOpen' => Quiet'
     /\ reports' # reports => channelOpen]_vars

\* Nothing on its way to the screen, nothing in it left to do.
Settled == Drained /\ calls = <<>> /\ ~ hiding /\ decoder = <<>>

\* The state shown to the driver is the state of the stream, whatever the
\* order in which the channel, the session and the pairing have told it.
LabelTellsTheStream ==
  kind = "video" /\ Settled => (text = "STREAMING" <=> videoState = "PLAYING")

\* Once a picture of a playing stream has been decoded the video is on the
\* screen: no hiding of the stream before can have the last word.
PicturesAreShown ==
  kind = "video" /\ Settled /\ videoState = "PLAYING" /\ seen = videoStream => page = 1

-----------------------------------------------------------------------------
(* The instance that TLC checks: scenarios for each kind of channel.       *)

Scenario(channel, s, f, w, p, c, d, b, g) ==
  [kind |-> channel, sessions |-> s, frames |-> f, waiting |-> w, plugs |-> p,
   choices |-> c, deaths |-> d, pairings |-> b,
   gestures |-> g, volumes |-> 0, failures |-> 0, devices |-> {CHOOSE e \in Devices : TRUE},
   codecs |-> {"PCM"}, decoders |-> {"avdec_h264"}, gl |-> TRUE]

With(decoders, gl, s) == [s EXCEPT !.decoders = decoders, !.gl = gl]
Volume(n, s) == [s EXCEPT !.volumes = n]
Failing(n, s) == [s EXCEPT !.failures = n]
AnyDevice(s) == [s EXCEPT !.devices = Devices]
WithAAC(s) == [s EXCEPT !.codecs = {"PCM", "AAC"}]

\* Streams that follow each other, devices that come and go, choices of the user.
Everything ==
  { Scenario("audio", 2, 4, 2, 0, 0, 1, 0, 0), Scenario("audio", 1, 0, 2, 1, 1, 0, 0, 0),
    AnyDevice(Scenario("audio", 0, 0, 0, 1, 1, 0, 0, 0)),
    WithAAC(Scenario("audio", 1, 4, 2, 0, 0, 0, 0, 0)),
    Volume(1, Scenario("audio", 1, 0, 1, 0, 0, 1, 0, 0)),
    Scenario("mic", 1, 3, 2, 0, 0, 1, 0, 0), Scenario("mic", 1, 2, 2, 0, 1, 0, 0, 0),
    AnyDevice(Failing(1, Scenario("audio", 1, 0, 1, 0, 1, 0, 0, 0))),
    Scenario("video", 2, 2, 1, 0, 0, 0, 0, 0), Scenario("video", 1, 4, 2, 0, 0, 0, 0, 0),
    Scenario("video", 1, 3, 2, 0, 0, 0, 1, 0),
    With({}, TRUE, Scenario("video", 1, 3, 1, 0, 0, 0, 0, 0)),
    With({"system vaapih264dec"}, FALSE, Scenario("video", 1, 3, 1, 0, 0, 0, 0, 0)),
    Scenario("input", 1, 3, 2, 0, 0, 0, 0, 2), Scenario("sensor", 1, 3, 2, 0, 0, 0, 0, 2) }
=============================================================================
