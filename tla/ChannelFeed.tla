----------------------------- MODULE ChannelFeed -----------------------------
(***************************************************************************)
(* What a channel module of v2/modules/channel_modules is told, and in     *)
(* which order.  channel_manager runs one process per channel and session; *)
(* the module follows one of them, of any kind.                            *)
(*                                                                         *)
(* Three publishers speak to it: channel_manager opens and closes the      *)
(* channel, oaa_control_channel announces the end of the session, and      *)
(* tcp_server passes on the phone's frames until it hears of that end, so  *)
(* frames may follow aa.session.shutdown.  The broker puts all of it in    *)
(* one order, the same for every subscriber.                               *)
(***************************************************************************)
EXTENDS Naturals, Sequences, TLC

\* What happens in a behaviour: the channel that is followed and bounds on the
\* actions of the others.
CONSTANT Scenarios

Counts == {"sessions", "frames", "waiting", "plugs", "choices", "deaths", "pairings",
           "gestures", "volumes", "failures"}

ASSUME FeedAssumption ==
  \A s \in Scenarios :
    /\ s.kind \in {"audio", "mic", "video", "input", "sensor"}
    /\ s.codecs \subseteq {"PCM", "AAC"} /\ \A c \in Counts : s[c] \in Nat

VARIABLES
  scenario,
  phase,        \* "none", "up", "ending" once aa.session.shutdown is published,
                \* "closed" once channel_manager has closed the channel
  sessions,     \* sessions so far
  announced,    \* aa.session.active has been published in this session
  phone,        \* "new", "opened" or "playing": how far the phone is
  sent,         \* frames of this session
  inbox,        \* messages for the channel's process
  screenIn,     \* messages for video_ui, when it is the video channel
  channelOpen   \* _channel_open of BaseChannelModule

feed == <<scenario, phase, sessions, announced, phone, sent, inbox, screenIn,
          channelOpen>>

kind == scenario.kind

FeedInit ==
  /\ scenario \in Scenarios
  /\ phase = "none" /\ sessions = 0 /\ announced = FALSE /\ phone = "new" /\ sent = 0
  /\ inbox = <<>> /\ screenIn = <<>> /\ channelOpen = FALSE

\* <<before, frame, after>>: what the phone says on a channel, and when.
Dialogue ==
  { <<"new", "setup", "new">>, <<"new", "open", "opened">> } \cup
  CASE kind = "mic" ->
         { <<"opened", "mic on", "playing">>, <<"playing", "ack", "playing">>,
           <<"playing", "mic off", "opened">> }
    [] kind = "input" ->
         { <<"opened", b, "playing">> : b \in {"bind", "bind home", "bind other"} }
    [] kind = "sensor" ->
         { <<"opened", s, "opened">> : s \in {"start 1", "start 4", "start 6", "start 10"} }
    [] OTHER ->
         { <<"opened", "start", "playing">>, <<"playing", "media", "playing">>,
           <<"playing", "stop", "opened">> } \cup
         IF kind = "video"
           THEN { <<"opened", "config", "opened">>, <<"opened", "focus", "opened">> } ELSE {}

\* The channel modules of a new session run and are ready: aa.channel.open.
ChannelOpened ==
  /\ phase = "none" /\ sessions < scenario.sessions
  /\ phase' = "up" /\ sessions' = sessions + 1 /\ announced' = FALSE
  /\ phone' = "new" /\ sent' = 0
  /\ inbox' = <<<<"open">>>> /\ channelOpen' = FALSE
  /\ UNCHANGED <<scenario, screenIn>>

PhoneSends ==
  /\ phase \in {"up", "ending"} /\ sent < scenario.frames /\ Len(inbox) < scenario.waiting
  /\ sent' = sent + 1
  /\ \E d \in Dialogue :
       /\ phone = d[1] /\ phone' = d[3]
       /\ inbox' = Append(inbox, <<"frame", d[2]>>)
  /\ UNCHANGED <<scenario, phase, sessions, announced, screenIn, channelOpen>>

\* aa.session.active: the phone has sent its first ping.  Nobody of a channel of
\* sound listens.
SessionActive ==
  /\ phase = "up" /\ ~ announced /\ announced' = TRUE
  /\ kind \in {"video", "input", "sensor"}
  /\ screenIn' = IF kind = "video" THEN Append(screenIn, <<"active">>) ELSE screenIn
  /\ inbox' = IF kind = "video" THEN inbox ELSE Append(inbox, <<"active">>)
  /\ UNCHANGED <<scenario, phase, sessions, phone, sent, channelOpen>>

\* aa.session.shutdown: the phone has quit or gone, or the configuration of
\* the session has changed.
SessionEnds ==
  /\ phase = "up"
  /\ phase' = "ending"
  /\ inbox' = Append(inbox, <<"shutdown">>)
  /\ screenIn' = IF kind = "video" THEN Append(screenIn, <<"shutdown">>) ELSE screenIn
  /\ UNCHANGED <<scenario, sessions, announced, phone, sent, channelOpen>>

\* Session.shutdown(): aa.channel.close and channel_manager.module_stop.
ChannelClosed ==
  /\ phase = "ending"
  /\ phase' = "closed"
  /\ inbox' = inbox \o <<<<"close">>, <<"stop">>>>
  /\ UNCHANGED <<scenario, sessions, announced, phone, sent, screenIn, channelOpen>>

FeedNext == PhoneSends \/ SessionActive \/ SessionEnds \/ ChannelClosed

-----------------------------------------------------------------------------
\* The process takes the next message.
Receive(m) ==
  /\ inbox # <<>> /\ Head(inbox) = m
  /\ inbox' = Tail(inbox)
  /\ UNCHANGED <<scenario, sessions, announced, phone, sent>>

\* _on_aa_channel_open() and _on_aa_channel_close()
ReceiveOpen  == Receive(<<"open">>)  /\ channelOpen' = TRUE  /\ UNCHANGED phase
ReceiveClose == Receive(<<"close">>) /\ channelOpen' = FALSE /\ UNCHANGED phase

\* _on_aa_frame()
ReceiveFrame(f) ==
  /\ channelOpen
  /\ Receive(<<"frame", f>>) /\ UNCHANGED <<phase, channelOpen>>

\* "Frame dropped - channel not open yet"
FrameDropped ==
  /\ ~ channelOpen
  /\ \E d \in Dialogue : Receive(<<"frame", d[2]>>)
  /\ UNCHANGED <<phase, screenIn, channelOpen>>

\* aa.session.active, for those who listen.
ReceiveActive == Receive(<<"active">>) /\ UNCHANGED <<phase, channelOpen>>

ReceiveShutdown == Receive(<<"shutdown">>) /\ UNCHANGED <<phase, channelOpen>>

\* _on_channel_manager_module_stop(): _cleanup(), then the process ends.
ReceiveStop == Receive(<<"stop">>) /\ UNCHANGED channelOpen

Drained == inbox = <<>> /\ screenIn = <<>>
=============================================================================
