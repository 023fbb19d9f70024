------------------------- MODULE MediaChannelsProofs ------------------------
(***************************************************************************)
(* Theorems about MediaChannels for any scenarios, devices, and sizes of   *)
(* the buffer, of the queue and of the pipeline.                           *)
(*                                                                         *)
(* What is on its way decides whether a state is a good one: the messages  *)
(* for the channel are words of the phone, those for the window are        *)
(* changes of a label.  They are read by automata.                         *)
(***************************************************************************)
EXTENDS MediaChannels, SequenceTheorems, TLAPS

-----------------------------------------------------------------------------
(* Sequences.                                                              *)

IsSeq(s) == \E S : s \in Seq(S)
Holds(s, m) == \E i \in DOMAIN s : s[i] = m

\* One element more.
LEMMA Appended ==
  ASSUME NEW s, IsSeq(s), NEW m, NEW a, a = Append(s, m)
  PROVE  /\ IsSeq(a) /\ Len(s) \in Nat /\ Len(a) = Len(s) + 1
         /\ DOMAIN s = 1..Len(s) /\ DOMAIN a = 1..Len(a)
         /\ a[Len(a)] = m /\ \A i \in 1..Len(s) : a[i] = s[i]
<1>1. PICK S : s \in Seq(S)
  BY DEF IsSeq
<1>2. s \in Seq(S \cup {m}) /\ m \in S \cup {m}
  BY <1>1, SeqMonotonic
<1> HIDE DEF IsSeq
<1>3. a \in Seq(S \cup {m})
  BY <1>2, AppendProperties
<1> QED
  BY <1>2, <1>3, AppendProperties, LenProperties DEF IsSeq

\* One element less.
LEMMA Shortened ==
  ASSUME NEW s, IsSeq(s), s # <<>>, NEW t, t = Tail(s)
  PROVE  /\ IsSeq(t) /\ Len(s) \in Nat \ {0} /\ Len(t) = Len(s) - 1
         /\ DOMAIN s = 1..Len(s) /\ DOMAIN t = 1..Len(t)
         /\ Head(s) = s[1] /\ \A i \in 1..Len(t) : t[i] = s[i + 1]
<1>1. PICK S : s \in Seq(S)
  BY DEF IsSeq
<1>2. t \in Seq(S)
  BY <1>1, HeadTailProperties
<1> QED
  BY <1>1, <1>2, HeadTailProperties, LenProperties, EmptySeq DEF IsSeq

\* Two elements put together.
LEMMA Pair ==
  ASSUME NEW x, NEW y
  PROVE  <<x>> \o <<y>> = <<x, y>>
<1>1. PICK U : x \in U /\ y \in U /\ <<x>> \in Seq(U) /\ <<y>> \in Seq(U)
  <2>1. x \in {x, y} /\ y \in {x, y} /\ <<x>> \in Seq({x, y}) /\ <<y>> \in Seq({x, y})
    OBVIOUS
  <2> QED
    BY <2>1
<1>2. PICK c, d : c = <<x>> \o <<y>> /\ d = <<x, y>>
  OBVIOUS
<1>3. c \in Seq(U) /\ Len(c) = 2
  BY <1>1, <1>2, ConcatProperties
<1>4. c[1] = x /\ c[2] = y
  BY <1>1, <1>2, ConcatProperties
<1>5. d \in Seq(U) /\ Len(d) = 2 /\ d[1] = x /\ d[2] = y
  BY <1>1, <1>2
<1>6. \A i \in 1..Len(c) : c[i] = d[i]
  BY <1>3, <1>4, <1>5
<1>7. c = d
  BY <1>3, <1>5, <1>6, SeqEqual
<1> QED
  BY <1>2, <1>7

\* None, one and two elements more at once.
LEMMA Joined ==
  ASSUME NEW s, IsSeq(s), NEW x, NEW y
  PROVE  /\ s \o <<>> = s /\ s \o <<x>> = Append(s, x)
         /\ s \o <<x, y>> = Append(Append(s, x), y)
<1>1. PICK S : s \in Seq(S)
  BY DEF IsSeq
<1> DEFINE U == S \cup {x, y}
<1>2. s \in Seq(U) /\ x \in U /\ y \in U
  BY <1>1, SeqMonotonic
<1> HIDE DEF U
<1>3. s \o <<x>> = Append(s, x)
  BY <1>2, AppendIsConcat
<1>4. Append(s, x) \in Seq(U) /\ <<x>> \in Seq(U) /\ <<y>> \in Seq(U)
  BY <1>2, AppendProperties
<1>5. Append(Append(s, x), y) = (s \o <<x>>) \o <<y>>
  BY <1>2, <1>3, <1>4, AppendIsConcat
<1>6. (s \o <<x>>) \o <<y>> = s \o (<<x>> \o <<y>>)
  BY <1>2, <1>4, ConcatAssociative
<1>7. <<x>> \o <<y>> = <<x, y>>
  BY Pair
<1>8. s \o <<>> = s
  BY <1>2, ConcatEmptySeq
<1> QED
  BY <1>3, <1>5, <1>6, <1>7, <1>8

-----------------------------------------------------------------------------
(* Automata that read messages: T has the transitions, Q the states.       *)

\* What they read of a message.
Gist(m) == <<m[1], IF m[1] \in {"frame", "state", "label"} THEN m[2] ELSE "">>

\* Reading s, the automaton comes from a to b.
Leads(T, Q, a, s, b) ==
  \E p \in [0..Len(s) -> Q] :
    /\ p[0] = a /\ p[Len(s)] = b
    /\ \A i \in 1..Len(s) : <<p[i - 1], Gist(s[i]), p[i]>> \in T

\* Nothing to read.
LEMMA NothingLeads ==
  ASSUME NEW T, NEW Q, NEW a, NEW b
  PROVE  Leads(T, Q, a, <<>>, b) <=> a = b /\ a \in Q
<1>1. ASSUME a = b, a \in Q PROVE Leads(T, Q, a, <<>>, b)
  <2> DEFINE p == [i \in 0..0 |-> a]
  <2>1. Len(<<>>) = 0 /\ 1..0 = {}
    BY EmptySeq
  <2>2. p \in [0..Len(<<>>) -> Q] /\ p[0] = a
    BY <1>1, <2>1
  <2> HIDE DEF p
  <2> QED
    BY <1>1, <2>1, <2>2 DEF Leads
<1>2. ASSUME Leads(T, Q, a, <<>>, b) PROVE a = b /\ a \in Q
  BY <1>2, EmptySeq DEF Leads
<1> QED
  BY <1>1, <1>2

\* One message more.
LEMMA LeadsOn ==
  ASSUME NEW T, NEW Q, NEW a, NEW b, NEW c \in Q, NEW s, IsSeq(s), NEW m,
         Leads(T, Q, a, s, b), <<b, Gist(m), c>> \in T
  PROVE  Leads(T, Q, a, Append(s, m), c)
<1>1. PICK p \in [0..Len(s) -> Q] :
         /\ p[0] = a /\ p[Len(s)] = b
         /\ \A i \in 1..Len(s) : <<p[i - 1], Gist(s[i]), p[i]>> \in T
  BY DEF Leads
<1>2. PICK t : t = Append(s, m)
  OBVIOUS
<1>3. /\ Len(s) \in Nat /\ Len(t) = Len(s) + 1 /\ t[Len(t)] = m
      /\ \A i \in 1..Len(s) : t[i] = s[i]
  BY <1>2, Appended
<1>4. PICK n \in Nat : n = Len(s)
  BY <1>3
<1> DEFINE q == [i \in 0..(n + 1) |-> IF i = n + 1 THEN c ELSE p[i]]
<1>5. q \in [0..(n + 1) -> Q] /\ q[0] = a /\ q[n + 1] = c /\ \A i \in 0..n : q[i] = p[i]
  BY <1>1, <1>4
<1> HIDE DEF q
<1>6. ASSUME NEW i \in 1..(n + 1) PROVE <<q[i - 1], Gist(t[i]), q[i]>> \in T
  <2>1. CASE i = n + 1
    BY <1>1, <1>3, <1>4, <1>5, <2>1
  <2>2. CASE i # n + 1
    <3>1. i \in 1..n /\ i \in 0..n /\ i - 1 \in 0..n
      BY <1>4, <2>2
    <3> QED
      BY <1>1, <1>3, <1>4, <1>5, <3>1
  <2> QED
    BY <2>1, <2>2
<1> QED
  BY <1>2, <1>3, <1>4, <1>5, <1>6 DEF Leads

\* The first message is read.
LEMMA LeadsFrom ==
  ASSUME NEW T, NEW Q, NEW a, NEW b, NEW s, IsSeq(s), s # <<>>, Leads(T, Q, a, s, b)
  PROVE  \E c \in Q : <<a, Gist(Head(s)), c>> \in T /\ Leads(T, Q, c, Tail(s), b)
<1>1. PICK p \in [0..Len(s) -> Q] :
         /\ p[0] = a /\ p[Len(s)] = b
         /\ \A i \in 1..Len(s) : <<p[i - 1], Gist(s[i]), p[i]>> \in T
  BY DEF Leads
<1>2. PICK t : t = Tail(s)
  OBVIOUS
<1>3. /\ Len(s) \in Nat \ {0} /\ Len(t) = Len(s) - 1 /\ Head(s) = s[1]
      /\ \A i \in 1..Len(t) : t[i] = s[i + 1]
  BY <1>2, Shortened
<1>4. PICK n \in Nat : n = Len(t)
  BY <1>3
<1> DEFINE q == [i \in 0..n |-> p[i + 1]]
<1>5. q \in [0..n -> Q] /\ q[0] = p[1] /\ q[n] = b /\ \A i \in 0..n : q[i] = p[i + 1]
  BY <1>1, <1>3, <1>4
<1> HIDE DEF q
<1>6. ASSUME NEW i \in 1..n PROVE <<q[i - 1], Gist(t[i]), q[i]>> \in T
  <2>1. i + 1 \in 1..Len(s) /\ i \in 0..n /\ i - 1 \in 0..n /\ (i - 1) + 1 = i
        /\ (i + 1) - 1 = i
    BY <1>3, <1>4
  <2> QED
    BY <1>1, <1>3, <1>4, <1>5, <2>1
<1>7. <<a, Gist(Head(s)), p[1]>> \in T /\ p[1] \in Q
  <2>1. 1 \in 1..Len(s) /\ 1 \in 0..Len(s)
    BY <1>3
  <2> QED
    BY <1>1, <1>3, <2>1
<1>8. Leads(T, Q, p[1], t, b)
  BY <1>4, <1>5, <1>6 DEF Leads
<1> QED
  BY <1>2, <1>7, <1>8

-----------------------------------------------------------------------------
(* A closed channel is quiet.                                              *)

\* A step that touches no channel's own state.
Aside ==
  /\ scenario' = scenario /\ channelOpen' = channelOpen
  /\ UNCHANGED <<audioState, buffer, stream, mic, video, input, sensor, reports>>

\* What a step is to the channels.
LEMMA Steps ==
  ASSUME [Next]_vars
  PROVE  \/ SessionBegins
         \/ Aside
         \/ (AudioHandles \/ PlayerDies) /\ UNCHANGED <<mic, pictures, driving>>
         \/ MicNext
         \/ VideoHandles /\ UNCHANGED <<sound, driving>>
         \/ InputHandles /\ UNCHANGED <<sensor, sound, pictures>>
         \/ SensorHandles /\ UNCHANGED <<input, sound, pictures>>
<1>1. CASE UNCHANGED vars
  BY <1>1 DEF vars, feed, audio, video, input, sensor, car, Aside
<1>2. CASE FeedStep
  BY <1>2 DEF FeedStep, FeedNext, PhoneSends, SessionActive, SessionEnds, ChannelClosed,
              sound, pictures, driving, audio, video, input, sensor, car, Aside
<1>3. CASE Select(SelectionNext)
  <2>1. UNCHANGED <<audio, volumes, mic, pictures, driving>> /\ SelectionNext
    BY <1>3 DEF Select
  <2>2. scenario' = scenario /\ channelOpen' = channelOpen
    BY <2>1 DEF SelectionNext, Plug, Choose, StoreChoice, PublishChoice, Refresh, Enumerate,
                TakeList, Validate, Validated, Republish, PublishSelected, feed
  <2> QED
    BY <2>1, <2>2 DEF pictures, driving, audio, video, input, sensor, car, Aside
<1>4. CASE AudioNext
  <2>1. CASE VolumesNext
    BY <1>4, <2>1 DEF AudioNext, VolumesNext, pictures, driving, feed, video, input, sensor,
                      car, Aside
  <2> QED
    BY <1>4, <2>1 DEF AudioNext
<1>5. CASE ScreenNext
  <2>1. CASE PairingCompleted \/ ScreenBusThread \/ QtThread \/ DecoderThread
    BY <1>5, <2>1 DEF ScreenNext, PairingCompleted, ScreenBusThread, QtThread, DecoderThread,
                      sound, driving, feed, audio, video, input, sensor, car, Aside
  <2> QED
    BY <1>5, <2>1 DEF ScreenNext
<1>6. CASE DrivingNext
  <2>1. CASE (Gesture \/ Reading) /\ UNCHANGED <<input, sensor>>
    BY <1>6, <2>1 DEF DrivingNext, Gesture, Reading, Happens, sound, pictures, audio, video,
                      input, sensor, Aside
  <2> QED
    BY <1>6, <2>1 DEF DrivingNext
<1> QED
  BY <1>1, <1>2, <1>3, <1>4, <1>5, <1>6 DEF Next

\* The microphone.  A reader that is alive is the one that a join waits for; when
\* the bus thread stops nothing, it is that of the capture that runs, as is all
\* that waits in the queue.
AllDead == \A k \in Captures : reading[k] = "dead"

MicTyped ==
  /\ reading \in [Captures -> {"read", "put", "backoff", "dead"}]
  /\ capture \in Captures /\ IsSeq(queue)
  /\ stopping \in {"no", "join", "drain", "start"}

OneReader ==
  /\ \A k \in Captures : reading[k] # "dead" => reader = k
  /\ stopping \in {"drain", "start"} => AllDead
  /\ stopping = "start" => queue = <<>> /\ after = "start"

Current(k) == k = capture /\ capturing

OfThisCapture ==
  stopping = "no" =>
    /\ \A k \in Captures : reading[k] # "dead" => Current(k)
    /\ \A i \in DOMAIN queue : Current(queue[i])

MicQuiet ==
  /\ ~ channelOpen /\ stopping = "no" => ~ capturing /\ micState = "IDLE"
  /\ ~ channelOpen /\ stopping # "no" => after \in {"idle", "exit"}
  /\ kind # "mic" =>
       micState = "IDLE" /\ ~ capturing /\ stopping = "no" /\ AllDead /\ queue = <<>>

MicInv == MicTyped /\ OneReader /\ OfThisCapture /\ MicQuiet

\* A process that starts.
LEMMA MicBegins ==
  ASSUME MicStarts
  PROVE  MicInv'
<1>1. IsSeq(<<>>) /\ DOMAIN <<>> = {}
  BY EmptySeq DEF IsSeq
<1>2. queue' = <<>> /\ stopping' = "no" /\ capturing' = FALSE /\ micState' = "IDLE"
      /\ capture' = 2 /\ reading' = [k \in Captures |-> "dead"]
  BY DEF MicStarts
<1>3. IsSeq(queue)' /\ DOMAIN (queue') = {}
  BY <1>1, <1>2 DEF IsSeq
<1> QED
  BY <1>2, <1>3 DEF MicInv, MicTyped, OneReader, OfThisCapture, MicQuiet, AllDead, Captures

\* The same for the first state.
LEMMA MicBefore ==
  ASSUME MicInit
  PROVE  MicInv
<1>1. IsSeq(<<>>) /\ DOMAIN <<>> = {}
  BY EmptySeq DEF IsSeq
<1> QED
  BY <1>1 DEF MicInit, MicInv, MicTyped, OneReader, OfThisCapture, MicQuiet, AllDead, Captures,
              IsSeq

\* What others do.
LEMMA MicAside ==
  ASSUME MicInv, UNCHANGED <<micState, capturing, capture, thread, stopping, after>>,
         kind' = kind, channelOpen' = channelOpen \/ kind # "mic"
  PROVE  MicInv'
<1> USE DEF thread
<1>1. MicTyped'
  BY DEF MicInv, MicTyped, IsSeq
<1>2. OneReader'
  BY DEF MicInv, OneReader, AllDead
<1>3. OfThisCapture'
  BY DEF MicInv, OfThisCapture, Current
<1>4. MicQuiet'
  BY DEF MicInv, MicQuiet, AllDead
<1> QED
  BY <1>1, <1>2, <1>3, <1>4 DEF MicInv

\* A stream is stopped: only where the bus thread is, and what it does then, has
\* changed.
LEMMA StopBegins ==
  ASSUME MicInv, kind = "mic", NEW then, stopping = "no", StopStream(then),
         queue' \in {queue, <<>>}, kind' = kind, channelOpen' \/ then \in {"idle", "exit"}
  PROVE  MicInv'
<1>1. IsSeq(queue')
  <2>1. IsSeq(queue) /\ IsSeq(<<>>)
    BY EmptySeq DEF MicInv, MicTyped, IsSeq
  <2> HIDE DEF IsSeq
  <2> QED
    BY <2>1
<1> QED
  BY <1>1 DEF MicInv, MicTyped, OneReader, OfThisCapture, MicQuiet, StopStream, AllDead, IsSeq

\* Nothing is stopped.
LEMMA NothingStops ==
  ASSUME MicInv, kind = "mic", stopping = "no", NEW c, NEW s, Idle(c, s),
         queue' \in {queue, <<>>}, kind' = kind,
         c = capturing \/ (c = FALSE /\ ~ capturing), channelOpen' \/ (~ c /\ s = "IDLE")
  PROVE  MicInv'
<1>1. IsSeq(queue') /\ DOMAIN <<>> = {}
  <2>1. IsSeq(queue) /\ IsSeq(<<>>) /\ DOMAIN <<>> = {}
    BY EmptySeq DEF MicInv, MicTyped, IsSeq
  <2> HIDE DEF IsSeq
  <2> QED
    BY <2>1
<1>2. /\ capturing' = c /\ micState' = s
      /\ UNCHANGED <<stopping, after, capture, reader, reading>>
  BY DEF Idle, pacat
<1>3. \A k : Current(k) => Current(k)'
  BY <1>2 DEF Current
<1>4. MicTyped'
  BY <1>1, <1>2 DEF MicInv, MicTyped, IsSeq
<1>5. OneReader'
  BY <1>2 DEF MicInv, OneReader, AllDead
<1>6. OfThisCapture'
  BY <1>1, <1>2, <1>3 DEF MicInv, OfThisCapture
<1>7. MicQuiet'
  BY <1>2 DEF MicInv, MicQuiet
<1> QED
  BY <1>4, <1>5, <1>6, <1>7 DEF MicInv

-----------------------------------------------------------------------------
(* What happens to the messages for a channel.                             *)

Words == {"active", "shutdown", "close", "stop", "selected", "touch", "key", "reading"}

Untouched == UNCHANGED <<scenario, phone, inbox, channelOpen>>
Taken == inbox # <<>> /\ inbox' = Tail(inbox) /\ UNCHANGED <<scenario, phone>>
Told(m) ==
  /\ m[1] \in Words /\ inbox' = Append(inbox, m) /\ UNCHANGED <<scenario, phone, channelOpen>>
Closing ==
  /\ inbox' = Append(Append(inbox, <<"close">>), <<"stop">>)
  /\ UNCHANGED <<scenario, phone, channelOpen>>
Says(d) ==
  /\ d \in Dialogue /\ phone = d[1] /\ phone' = d[3]
  /\ inbox' = Append(inbox, <<"frame", d[2]>>) /\ UNCHANGED <<scenario, channelOpen>>

Sent == Untouched \/ Closing \/ (\E m : Told(m)) \/ (\E d : Says(d))

Handling ==
  AudioHandles \/ MicHandles \/ VideoHandles \/ InputHandles \/ SensorHandles

\* A channel of sound takes a message.
LEMMA AudioTakes ==
  ASSUME AudioHandles
  PROVE  Taken
BY DEF AudioHandles, AudioOpen, AudioClose, AudioShutdown, AudioStop, AudioFrame, SinkSelected,
       AudioSetup, AudioOpenRequest, AudioStart, AudioStopped, AudioMedia, CodecData,
       ReceiveOpen, ReceiveClose, ReceiveShutdown, ReceiveStop, ReceiveFrame, FrameDropped,
       Receive, Taken

\* So does that of the microphone, unless it goes on with the one it has taken.
LEMMA MicTakes ==
  ASSUME MicNext
  PROVE  (MicHandles /\ Taken) \/ Untouched
<1>1. CASE MicHandles
  BY <1>1 DEF MicHandles, MicOpen, MicClose, MicShutdown, MicStop, MicFrame, SourceSelected,
       ReceiveOpen, ReceiveClose, ReceiveShutdown, ReceiveStop, ReceiveFrame, FrameDropped,
       Receive, Taken
<1>2. CASE MicNext /\ ~ MicHandles
  BY <1>2 DEF MicNext, MicBusThread, JoinReader, Stopped, StartCapture, RecorderDies, Reader,
       ReadChunk, PutChunk, BackOff, Retry, Reads, feed, Untouched
<1> QED
  BY <1>1, <1>2

\* And those of pictures, touches and sensors.
LEMMA OthersTake ==
  ASSUME VideoHandles \/ InputHandles \/ SensorHandles
  PROVE  Taken
<1> USE DEF ReceiveOpen, ReceiveClose, ReceiveShutdown, ReceiveStop, ReceiveFrame, FrameDropped,
       ReceiveActive, Receive, Taken
<1>1. CASE VideoHandles
  BY <1>1 DEF VideoHandles, VideoFrame, VideoReset, MediaFrame, ConfigFrame, FocusRequest
<1>2. CASE InputHandles
  BY <1>2 DEF InputHandles, InputLifecycle, InputFrame, InputReports, InputOpened, KeysBound,
       Report
<1>3. CASE SensorHandles
  BY <1>3 DEF SensorHandles, SensorLifecycle, SensorFrame, SensorReports, SensorOpened,
       SensorStarted, Report
<1> QED
  BY <1>1, <1>2, <1>3

\* What others send.
LEMMA FeedSends ==
  ASSUME IsSeq(inbox), FeedNext
  PROVE  Sent
<1>1. CASE PhoneSends
  BY <1>1 DEF PhoneSends, Sent, Says
<1>2. CASE SessionActive
  BY <1>2 DEF SessionActive, Sent, Told, Words, Untouched
<1>3. CASE SessionEnds
  BY <1>3 DEF SessionEnds, Sent, Told, Words
<1>4. CASE ChannelClosed
  BY <1>4, Joined DEF ChannelClosed, Sent, Closing
<1> QED
  BY <1>1, <1>2, <1>3, <1>4 DEF FeedNext

\* What audio_manager publishes.
LEMMA SelectionSends ==
  ASSUME SelectionNext
  PROVE  Sent
<1>1. CASE UNCHANGED feed
  BY <1>1 DEF feed, Sent, Untouched
<1>2. ASSUME NEW d, PublishSelected(d) PROVE Sent
  BY <1>2 DEF PublishSelected, Sent, Untouched, Told, Words
<1>3. UNCHANGED feed \/ \E d : PublishSelected(d)
  BY DEF SelectionNext, Plug, Choose, StoreChoice, PublishChoice, Refresh, Enumerate,
         TakeList, Validate, Validated, Republish
<1> QED
  BY <1>1, <1>2, <1>3

\* Every step.
LEMMA InboxSteps ==
  ASSUME IsSeq(inbox), [Next]_vars
  PROVE  SessionBegins \/ Sent \/ (Taken /\ Handling)
<1>1. CASE UNCHANGED vars
  BY <1>1 DEF vars, feed, Sent, Untouched
<1>2. CASE FeedStep
  BY <1>2, FeedSends DEF FeedStep
<1>3. CASE Select(SelectionNext)
  BY <1>3, SelectionSends DEF Select
<1>4. CASE AudioNext
  <2>1. CASE VolumesNext \/ PlayerDies
    BY <2>1 DEF VolumesNext, PlayerDies, feed, Sent, Untouched
  <2> QED
    BY <1>4, <2>1, AudioTakes DEF AudioNext, Handling
<1>5. CASE MicNext
  BY <1>5, MicTakes DEF Sent, Handling
<1>6. CASE ScreenNext
  <2>1. CASE PairingCompleted \/ ScreenBusThread \/ QtThread \/ DecoderThread
    BY <2>1 DEF PairingCompleted, ScreenBusThread, QtThread, DecoderThread, feed, Sent,
                Untouched
  <2> QED
    BY <1>6, <2>1, OthersTake DEF ScreenNext, Handling
<1>7. CASE DrivingNext
  <2>1. CASE Gesture \/ Reading
    BY <2>1 DEF Gesture, Reading, Happens, Sent, Told, Words
  <2> QED
    BY <1>7, <2>1, OthersTake DEF DrivingNext, Handling
<1> QED
  BY <1>1, <1>2, <1>3, <1>4, <1>5, <1>6, <1>7 DEF Next

\* The word that opens the channel is the first there is, and it comes once.
OpenFirst ==
  IsSeq(inbox) /\ \A i \in DOMAIN inbox : inbox[i] = <<"open">> => i = 1 /\ ~ channelOpen

\* The channel is closed when it comes.
LEMMA OpenedWhenClosed ==
  ASSUME OpenFirst, ReceiveOpen
  PROVE  ~ channelOpen
<1>1. inbox # <<>> /\ Head(inbox) = <<"open">>
  BY DEF ReceiveOpen, Receive
<1>2. 1 \in DOMAIN inbox /\ inbox[1] = <<"open">>
  BY <1>1, Shortened DEF OpenFirst
<1> QED
  BY <1>2 DEF OpenFirst

\* It stays so.
LEMMA OpenStaysFirst ==
  ASSUME OpenFirst, [Next]_vars
  PROVE  OpenFirst'
<1>1. PICK s, t : s = inbox /\ t = inbox'
  OBVIOUS
<1>2. IsSeq(s) /\ \A i \in DOMAIN s : s[i] = <<"open">> => i = 1 /\ ~ channelOpen
  BY <1>1 DEF OpenFirst
<1>3. SUFFICES IsSeq(t) /\ \A i \in DOMAIN t : t[i] = <<"open">> => i = 1 /\ ~ channelOpen'
  BY <1>1 DEF OpenFirst
<1> HIDE DEF IsSeq
<1>4. ASSUME NEW m, m[1] # "open", NEW a, a = Append(s, m)
      PROVE  IsSeq(a) /\ \A i \in DOMAIN a : a[i] = <<"open">> => i = 1 /\ ~ channelOpen
  <2>0. IsSeq(a)
    BY <1>2, <1>4, Appended
  <2>1. a[Len(a)] = m /\ \A i \in 1..Len(s) : a[i] = s[i]
    BY <1>2, <1>4, Appended
  <2>2. Len(s) \in Nat /\ Len(a) = Len(s) + 1 /\ DOMAIN s = 1..Len(s) /\ DOMAIN a = 1..Len(a)
    BY <1>2, <1>4, Appended
  <2>3. ASSUME NEW i \in DOMAIN a, a[i] = <<"open">> PROVE i \in DOMAIN s /\ a[i] = s[i]
    BY <1>4, <2>1, <2>2, <2>3
  <2> QED
    BY <1>2, <2>0, <2>3
<1>5. CASE Taken
  <2>1. s # <<>> /\ t = Tail(s)
    BY <1>1, <1>5 DEF Taken
  <2>2. /\ IsSeq(t) /\ Len(s) \in Nat \ {0} /\ Len(t) = Len(s) - 1
        /\ DOMAIN s = 1..Len(s) /\ DOMAIN t = 1..Len(t)
        /\ \A i \in 1..Len(t) : t[i] = s[i + 1]
    BY <1>2, <2>1, Shortened
  <2>3. ASSUME NEW i \in DOMAIN t, t[i] = <<"open">> PROVE FALSE
    <3>1. i + 1 \in DOMAIN s /\ s[i + 1] = <<"open">> /\ i + 1 # 1
      BY <2>2, <2>3
    <3> QED
      BY <1>2, <3>1
  <2> QED
    BY <2>2, <2>3
<1>6. CASE \E m : Told(m)
  <2>1. PICK m : Told(m)
    BY <1>6
  <2>2. m[1] # "open" /\ t = Append(s, m) /\ channelOpen' = channelOpen
    BY <1>1, <2>1 DEF Told, Words
  <2> QED
    BY <1>4, <2>2
<1>7. CASE \E d : Says(d)
  <2>1. PICK d : Says(d)
    BY <1>7
  <2>2. PICK m : m = <<"frame", d[2]>>
    OBVIOUS
  <2>3. m[1] # "open" /\ t = Append(s, m) /\ channelOpen' = channelOpen
    BY <1>1, <2>1, <2>2 DEF Says
  <2> QED
    BY <1>4, <2>3
<1>8. CASE Closing
  <2>1. PICK m, n : m = <<"close">> /\ n = <<"stop">>
    OBVIOUS
  <2>2. m[1] # "open" /\ n[1] # "open"
    BY <2>1
  <2>3. PICK a : a = Append(s, m)
    OBVIOUS
  <2>4. t = Append(a, n) /\ channelOpen' = channelOpen
    BY <1>1, <1>8, <2>1, <2>3 DEF Closing
  <2>5. IsSeq(a) /\ \A i \in DOMAIN a : a[i] = <<"open">> => i = 1 /\ ~ channelOpen
    BY <1>4, <2>2, <2>3
  <2>6. t[Len(t)] = n /\ \A i \in 1..Len(a) : t[i] = a[i]
    BY <2>4, <2>5, Appended
  <2>7. Len(a) \in Nat /\ Len(t) = Len(a) + 1 /\ DOMAIN a = 1..Len(a) /\ DOMAIN t = 1..Len(t)
    BY <2>4, <2>5, Appended
  <2>8. ASSUME NEW i \in DOMAIN t, t[i] = <<"open">> PROVE i \in DOMAIN a /\ t[i] = a[i]
    BY <2>2, <2>6, <2>7, <2>8
  <2>9. IsSeq(t)
    BY <2>4, <2>5, Appended
  <2> QED
    BY <2>4, <2>5, <2>8, <2>9
<1>9. CASE SessionBegins
  <2>1. PICK u : u = <<"open">>
    OBVIOUS
  <2>2. t = <<u>> /\ ~ channelOpen'
    BY <1>1, <1>9, <2>1 DEF SessionBegins, ChannelOpened
  <2>3. <<u>> \in Seq({u}) /\ DOMAIN <<u>> = {1}
    OBVIOUS
  <2>4. IsSeq(t) /\ DOMAIN t = {1}
    BY <2>2, <2>3 DEF IsSeq
  <2> QED
    BY <2>2, <2>4
<1>10. CASE Untouched
  BY <1>1, <1>2, <1>10 DEF Untouched
<1> QED
  BY <1>1, <1>2, <1>5, <1>6, <1>7, <1>8, <1>9, <1>10, InboxSteps DEF Sent

-----------------------------------------------------------------------------
(* The steps of the microphone.                                            *)

\* The bus thread takes a message.
LEMMA MicHandlesKeeps ==
  ASSUME MicInv, OpenFirst, MicHandles
  PROVE  MicInv'
<1> USE DEF MicHandles
<1>1. kind = "mic" /\ stopping = "no" /\ kind' = kind
  BY DEF MicOpen, MicClose, MicShutdown, MicStop, MicFrame, SourceSelected, ReceiveOpen,
         ReceiveClose, ReceiveShutdown, ReceiveStop, ReceiveFrame, FrameDropped, Receive, kind
<1>2. CASE MicOpen
  <2>1. ~ channelOpen
    BY <1>2, OpenedWhenClosed DEF MicOpen
  <2>2. ~ capturing
    BY <1>1, <2>1 DEF MicInv, MicQuiet
  <2> QED
    BY <1>1, <1>2, <2>2, NothingStops DEF MicOpen
<1>3. CASE MicClose
  BY <1>1, <1>3, NothingStops, StopBegins DEF MicClose
<1>4. CASE MicShutdown
  BY <1>1, <1>4, StopBegins DEF MicShutdown
<1>5. CASE MicStop
  BY <1>1, <1>5, StopBegins DEF MicStop
<1>6. CASE MicFrame
  <2>1. \E f : ReceiveFrame(f)
    BY <1>6 DEF MicFrame
  <2>2. channelOpen'
    BY <2>1 DEF ReceiveFrame
  <2>3. queue' = <<>>
    BY <1>6 DEF MicFrame
  <2> QED
    BY <1>1, <1>6, <2>2, <2>3, NothingStops, StopBegins DEF MicFrame
<1>7. ASSUME NEW d \in Names, SourceSelected(d) PROVE MicInv'
  <2>1. channelOpen' = channelOpen
    BY <1>7 DEF SourceSelected
  <2>2. ~ channelOpen => ~ capturing /\ micState = "IDLE"
    BY <1>1 DEF MicInv, MicQuiet
  <2>3. CASE Idle(capturing, micState)
    <3>1. channelOpen' \/ (~ capturing /\ micState = "IDLE")
      BY <2>1, <2>2
    <3>2. queue' = queue
      BY <1>7 DEF SourceSelected
    <3> QED
      BY <1>1, <2>3, <3>1, <3>2, NothingStops
  <2>4. CASE capturing /\ StopStream("start")
    BY <1>1, <1>7, <2>1, <2>2, <2>4, StopBegins DEF SourceSelected
  <2> QED
    BY <1>7, <2>3, <2>4 DEF SourceSelected
<1>8. CASE FrameDropped /\ Idle(capturing, micState) /\ UNCHANGED <<source, queue>>
  <2>1. ~ channelOpen
    BY <1>8 DEF FrameDropped
  <2>2. ~ channelOpen => ~ capturing /\ micState = "IDLE"
    BY <1>1 DEF MicInv, MicQuiet
  <2> QED
    BY <1>1, <1>8, <2>1, <2>2, NothingStops
<1> QED
  BY <1>2, <1>3, <1>4, <1>5, <1>6, <1>7, <1>8

\* The bus thread goes on with a stop, and starts the next capture.
LEMMA MicStopsKeeps ==
  ASSUME MicInv, JoinReader \/ Stopped \/ StartCapture
  PROVE  MicInv'
<1>1. CASE JoinReader
  <2>1. AllDead /\ stopping' = "drain"
        /\ UNCHANGED <<reading, queue, capture, capturing, micState, after>>
    BY <1>1 DEF JoinReader, MicInv, OneReader, AllDead, pacat
  <2>2. kind' = kind /\ channelOpen' = channelOpen /\ stopping = "join"
    BY <1>1 DEF JoinReader, feed, kind
  <2>3. MicTyped' /\ OfThisCapture'
    BY <2>1 DEF MicInv, MicTyped, OfThisCapture, IsSeq
  <2>4. OneReader'
    BY <2>1 DEF OneReader, AllDead
  <2>5. MicQuiet'
    BY <2>1, <2>2 DEF MicInv, MicQuiet
  <2> QED
    BY <2>3, <2>4, <2>5 DEF MicInv
<1>2. CASE Stopped
  <2>1. /\ AllDead /\ stopping = "drain" /\ queue' = <<>> /\ UNCHANGED <<reading, capture, after>>
        /\ capturing' = FALSE /\ stopping' = IF after = "start" THEN "start" ELSE "no"
    BY <1>2 DEF Stopped, EmptyQueue, MicInv, OneReader, pacat
  <2>2. kind' = kind /\ channelOpen' = channelOpen
        /\ (after \in {"idle", "exit"} => micState' = "IDLE")
    BY <1>2 DEF Stopped, kind
  <2>3. IsSeq(queue') /\ DOMAIN (queue') = {}
    BY <2>1, EmptySeq DEF IsSeq
  <2>4. MicTyped' /\ OfThisCapture' /\ OneReader'
    BY <2>1, <2>3 DEF MicInv, MicTyped, OfThisCapture, OneReader, AllDead, IsSeq
  <2>5. kind = "mic"
    BY <2>1 DEF MicInv, MicQuiet
  <2>6. MicQuiet'
    BY <2>1, <2>2, <2>5 DEF MicInv, MicQuiet
  <2> QED
    BY <2>4, <2>6 DEF MicInv
<1>3. CASE StartCapture
  <2>1. stopping = "start" /\ AllDead /\ queue = <<>> /\ after = "start" /\ channelOpen
        /\ kind = "mic"
    BY <1>3 DEF StartCapture, MicInv, OneReader, MicQuiet
  <2>2. PICK k \in Captures :
          /\ capture' = k /\ reader' = k /\ reading' = [reading EXCEPT ![k] = "read"]
          /\ k # capture
    <3>1. \E c \in Captures : c # capture
      BY DEF Captures
    <3> QED
      BY <1>3, <3>1 DEF StartCapture
  <2>3. stopping' = "no" /\ capturing' = TRUE /\ queue' = queue
        /\ kind' = kind /\ channelOpen' = channelOpen
    BY <1>3 DEF StartCapture, feed, kind
  <2>4. DOMAIN (queue') = {}
    BY <2>1, <2>3, EmptySeq
  <2>5. MicTyped'
    BY <2>2, <2>3 DEF MicInv, MicTyped, IsSeq
  <2>6. \A c \in Captures : reading'[c] # "dead" => c = k
    BY <2>1, <2>2 DEF AllDead, MicInv, MicTyped
  <2>7. OneReader' /\ OfThisCapture'
    BY <2>2, <2>3, <2>4, <2>6 DEF OneReader, OfThisCapture, Current
  <2>8. MicQuiet'
    BY <2>1, <2>3 DEF MicQuiet
  <2> QED
    BY <2>5, <2>7, <2>8 DEF MicInv
<1> QED
  BY <1>1, <1>2, <1>3

\* The reader of a capture goes on.
LEMMA ReaderKeeps ==
  ASSUME MicInv, NEW k \in Captures, Reader(k)
  PROVE  MicInv'
<1>1. /\ reading[k] # "dead" /\ \A c \in Captures : c # k => reading'[c] = reading[c]
      /\ reading' \in [Captures -> {"read", "put", "backoff", "dead"}]
  BY DEF Reader, ReadChunk, PutChunk, BackOff, Retry, Reads, MicInv, MicTyped
<1>2. UNCHANGED <<micState, capturing, capture, reader, stopping, after>>
  BY DEF Reader, ReadChunk, PutChunk, BackOff, Retry, Reads
<1>3. kind' = kind /\ channelOpen' = channelOpen
  BY DEF Reader, ReadChunk, PutChunk, BackOff, Retry, Reads, feed, kind
<1>4. queue' = queue \/ queue' = Append(queue, k)
  BY DEF Reader, ReadChunk, PutChunk, BackOff, Retry
<1>5. kind = "mic" /\ reader = k /\ stopping \in {"no", "join"}
  BY <1>1 DEF MicInv, MicTyped, MicQuiet, OneReader, AllDead
<1>6. IsSeq(queue')
  <2>1. IsSeq(queue)
    BY DEF MicInv, MicTyped
  <2> HIDE DEF IsSeq
  <2> QED
    BY <1>4, <2>1, Appended
<1>7. ASSUME stopping = "no", NEW i \in DOMAIN (queue') PROVE Current(queue'[i])
  <2>1. Current(k) /\ \A j \in DOMAIN queue : Current(queue[j])
    BY <1>1, <1>7 DEF MicInv, OfThisCapture
  <2>2. CASE queue' = queue
    BY <1>7, <2>1, <2>2
  <2>3. CASE queue' = Append(queue, k)
    <3>1. PICK a : a = Append(queue, k)
      OBVIOUS
    <3>2. IsSeq(queue)
      BY DEF MicInv, MicTyped
    <3> HIDE DEF IsSeq
    <3>3. Len(queue) \in Nat /\ Len(a) = Len(queue) + 1 /\ DOMAIN queue = 1..Len(queue)
          /\ DOMAIN a = 1..Len(a)
      BY <3>1, <3>2, Appended
    <3>4. a[Len(a)] = k /\ \A j \in 1..Len(queue) : a[j] = queue[j]
      BY <3>1, <3>2, Appended
    <3>5. i \in DOMAIN a
      BY <1>7, <2>3, <3>1
    <3>6. a[i] = k \/ (i \in DOMAIN queue /\ a[i] = queue[i])
      BY <3>3, <3>4, <3>5
    <3> QED
      BY <2>1, <2>3, <3>1, <3>6
  <2> QED
    BY <1>4, <2>2, <2>3
<1>8. MicTyped' /\ OneReader'
  BY <1>1, <1>2, <1>5, <1>6 DEF MicInv, MicTyped, OneReader
<1>9. OfThisCapture'
  BY <1>1, <1>2, <1>7 DEF MicInv, OfThisCapture, Current
<1>10. MicQuiet'
  BY <1>2, <1>3, <1>5 DEF MicInv, MicQuiet
<1> QED
  BY <1>8, <1>9, <1>10 DEF MicInv

\* Every step.
LEMMA MicStays ==
  ASSUME MicInv, OpenFirst, [Next]_vars
  PROVE  MicInv'
<1>1. CASE SessionBegins
  BY <1>1, MicBegins DEF SessionBegins
<1>2. CASE Aside
  BY <1>2, MicAside DEF Aside, kind, mic, pacat
<1>3. CASE MicNext
  <2>1. CASE RecorderDies
    BY <2>1, MicAside DEF RecorderDies, thread, feed, kind
  <2> QED
    BY <1>3, <2>1, MicHandlesKeeps, MicStopsKeeps, ReaderKeeps DEF MicNext, MicBusThread
<1>4. CASE (AudioHandles \/ PlayerDies) /\ UNCHANGED <<mic, pictures, driving>>
  <2>1. kind = "audio" /\ scenario' = scenario
    BY <1>4, AudioTakes DEF AudioHandles, PlayerDies, feed, Taken
  <2> QED
    BY <1>4, <2>1, MicAside DEF kind, mic, pacat
<1>5. CASE (VideoHandles \/ InputHandles \/ SensorHandles) /\ UNCHANGED mic
  <2>1. kind # "mic" /\ scenario' = scenario
    BY <1>5, OthersTake DEF VideoHandles, InputHandles, SensorHandles, Taken
  <2> QED
    BY <1>5, <2>1, MicAside DEF kind, mic, pacat
<1> QED
  BY <1>1, <1>2, <1>3, <1>4, <1>5, Steps DEF sound

-----------------------------------------------------------------------------
(* The other channels, while they are closed.                              *)

AudioQuiet == ~ channelOpen \/ kind # "audio" => audioState = "IDLE" /\ buffer = <<>>
VideoQuiet == ~ channelOpen \/ kind # "video" => videoState = "IDLE"
InputQuiet == ~ channelOpen \/ kind # "input" => inputState = "IDLE"
SensorQuiet ==
  ~ channelOpen \/ kind # "sensor" => sensorState = "IDLE" /\ started = {}

QuietInv == OpenFirst /\ MicInv /\ AudioQuiet /\ VideoQuiet /\ InputQuiet /\ SensorQuiet

\* Frames are handled by an open channel, and leave it open.
LEMMA FramesInTheOpen ==
  ASSUME NEW f, ReceiveFrame(f)
  PROVE  channelOpen /\ channelOpen'
BY DEF ReceiveFrame

\* A channel of sound is quiet once it is closed.
LEMMA AudioStaysQuiet ==
  ASSUME AudioQuiet, AudioHandles \/ PlayerDies
  PROVE  AudioQuiet'
<1>1. kind = "audio" /\ kind' = kind
  BY AudioTakes DEF AudioHandles, PlayerDies, feed, Taken, kind
<1>2. CASE AudioClose \/ AudioShutdown \/ AudioStop
  BY <1>2 DEF AudioClose, AudioShutdown, AudioStop, AudioQuiet
<1>3. CASE AudioOpen
  BY <1>1, <1>3 DEF AudioOpen, ReceiveOpen, AudioQuiet
<1>4. CASE AudioFrame
  <2>1. CASE FrameDropped /\ UNCHANGED audio
    BY <1>1, <2>1 DEF FrameDropped, audio, AudioQuiet
  <2>2. CASE \E f : ReceiveFrame(f)
    BY <1>1, <2>2, FramesInTheOpen DEF AudioQuiet
  <2> QED
    BY <1>4, <2>1, <2>2 DEF AudioFrame, AudioSetup, AudioOpenRequest, AudioStart, AudioStopped,
                            AudioMedia, CodecData
<1>5. ASSUME NEW d \in Names, SinkSelected(d) PROVE AudioQuiet'
  BY <1>1, <1>5 DEF SinkSelected, AudioQuiet
<1>6. CASE PlayerDies
  BY <1>1, <1>6 DEF PlayerDies, feed, AudioQuiet
<1> QED
  BY <1>2, <1>3, <1>4, <1>5, <1>6 DEF AudioHandles

\* So is that of pictures,
LEMMA VideoStaysQuiet ==
  ASSUME VideoQuiet, VideoHandles
  PROVE  VideoQuiet'
<1>1. kind = "video" /\ kind' = kind
  BY OthersTake DEF VideoHandles, Taken, kind
<1>2. CASE VideoReset
  BY <1>2 DEF VideoReset, SetState, VideoQuiet
<1>3. CASE VideoFrame
  <2>1. CASE FrameDropped /\ UNCHANGED video
    BY <1>1, <2>1 DEF FrameDropped, video, VideoQuiet
  <2>2. CASE \E f : ReceiveFrame(f)
    BY <1>1, <2>2, FramesInTheOpen DEF VideoQuiet
  <2> QED
    BY <1>3, <2>1, <2>2 DEF VideoFrame, MediaFrame, ConfigFrame, FocusRequest
<1> QED
  BY <1>2, <1>3 DEF VideoHandles

\* that of touches and keys,
LEMMA InputStaysQuiet ==
  ASSUME InputQuiet, InputHandles
  PROVE  InputQuiet'
<1>1. kind = "input" /\ kind' = kind
  BY OthersTake DEF InputHandles, Taken, kind
<1>2. CASE InputLifecycle
  BY <1>1, <1>2 DEF InputLifecycle, ReceiveOpen, InputClosed, InputReset, input, InputQuiet
<1>3. CASE InputFrame
  <2>1. CASE FrameDropped /\ UNCHANGED input
    BY <1>1, <2>1 DEF FrameDropped, input, InputQuiet
  <2>2. CASE \E f : ReceiveFrame(f)
    BY <1>1, <2>2, FramesInTheOpen DEF InputQuiet
  <2> QED
    BY <1>3, <2>1, <2>2 DEF InputFrame, InputOpened, KeysBound
<1>4. CASE InputReports
  BY <1>1, <1>4 DEF InputReports, Report, input, InputQuiet
<1> QED
  BY <1>2, <1>3, <1>4 DEF InputHandles

\* and that of the sensors.
LEMMA SensorStaysQuiet ==
  ASSUME SensorQuiet, SensorHandles
  PROVE  SensorQuiet'
<1>1. kind = "sensor" /\ kind' = kind
  BY OthersTake DEF SensorHandles, Taken, kind
<1>2. CASE SensorLifecycle
  BY <1>1, <1>2 DEF SensorLifecycle, ReceiveOpen, SensorReset, sensor, SensorQuiet
<1>3. CASE SensorFrame
  <2>1. CASE FrameDropped /\ UNCHANGED sensor
    BY <1>1, <2>1 DEF FrameDropped, sensor, SensorQuiet
  <2>2. CASE \E f : ReceiveFrame(f)
    BY <1>1, <2>2, FramesInTheOpen DEF SensorQuiet
  <2> QED
    BY <1>3, <2>1, <2>2 DEF SensorFrame, SensorOpened, SensorStarted
<1>4. CASE SensorReports
  BY <1>1, <1>4 DEF SensorReports, Report, sensor, SensorQuiet
<1> QED
  BY <1>2, <1>3, <1>4 DEF SensorHandles

\* Reports are made by an open channel of touches and keys or of sensors.
LEMMA ReportsInTheOpen ==
  ASSUME InputQuiet, SensorQuiet, InputHandles \/ SensorHandles, reports' # reports
  PROVE  channelOpen
<1>1. CASE InputHandles
  BY <1>1 DEF InputHandles, InputReports, Report, InputOpen, InputQuiet
<1>2. CASE SensorHandles
  <2>1. CASE SensorFrame
    BY <1>2, <2>1, FramesInTheOpen DEF SensorHandles, SensorFrame, SensorOpened, SensorStarted
  <2> QED
    BY <1>2, <2>1 DEF SensorHandles, SensorReports, Report, SensorQuiet
<1> QED
  BY <1>1, <1>2

\* What no channel of the kind does.
LEMMA OthersStayQuiet ==
  ASSUME kind' = kind, channelOpen' = channelOpen
  PROVE  /\ AudioQuiet /\ UNCHANGED <<audioState, buffer>> => AudioQuiet'
         /\ VideoQuiet /\ UNCHANGED videoState => VideoQuiet'
         /\ InputQuiet /\ UNCHANGED inputState => InputQuiet'
         /\ SensorQuiet /\ UNCHANGED sensor => SensorQuiet'
BY DEF AudioQuiet, VideoQuiet, InputQuiet, SensorQuiet, sensor

\* The same for the kinds that a step is not about.
LEMMA OtherKinds ==
  ASSUME kind' = kind
  PROVE  /\ kind # "audio" /\ AudioQuiet /\ UNCHANGED <<audioState, buffer>> => AudioQuiet'
         /\ kind # "video" /\ VideoQuiet /\ UNCHANGED videoState => VideoQuiet'
         /\ kind # "input" /\ InputQuiet /\ UNCHANGED inputState => InputQuiet'
         /\ kind # "sensor" /\ SensorQuiet /\ UNCHANGED sensor => SensorQuiet'
BY DEF AudioQuiet, VideoQuiet, InputQuiet, SensorQuiet, sensor

\* Every step leaves a closed channel quiet, and reports through an open one.
LEMMA QuietStays ==
  ASSUME QuietInv, [Next]_vars
  PROVE  QuietInv' /\ (reports' # reports => channelOpen)
<1>1. OpenFirst' /\ MicInv'
  BY OpenStaysFirst, MicStays DEF QuietInv
<1>2. AudioQuiet /\ VideoQuiet /\ InputQuiet /\ SensorQuiet
  BY DEF QuietInv
<1> SUFFICES (AudioQuiet /\ VideoQuiet /\ InputQuiet /\ SensorQuiet)'
             /\ (reports' # reports => channelOpen)
  BY <1>1 DEF QuietInv
<1>3. CASE SessionBegins
  BY <1>3, EmptySeq DEF SessionBegins, AudioStarts, VideoStarts, InputStarts, SensorStarts, car,
                        AudioQuiet, VideoQuiet, InputQuiet, SensorQuiet
<1>4. CASE Aside
  BY <1>2, <1>4, OthersStayQuiet DEF Aside, kind, video, input, sensor
<1>5. CASE (AudioHandles \/ PlayerDies) /\ UNCHANGED <<mic, pictures, driving>>
  <2>1. kind = "audio" /\ kind' = kind
    BY <1>5, AudioTakes DEF AudioHandles, PlayerDies, feed, Taken, kind
  <2> QED
    BY <1>2, <1>5, <2>1, AudioStaysQuiet, OtherKinds DEF pictures, driving, video, input, car
<1>6. CASE MicNext
  <2>1. UNCHANGED <<audio, pictures, driving>>
    BY <1>6 DEF MicNext
  <2>2. kind' = kind /\ (channelOpen' = channelOpen \/ kind = "mic")
    BY <1>6, MicTakes DEF MicNext, MicBusThread, MicHandles, JoinReader, Stopped, StartCapture,
                          RecorderDies, Reader, ReadChunk, PutChunk, BackOff, Retry, Reads,
                          feed, Taken, Untouched, kind
  <2> QED
    BY <1>2, <2>1, <2>2, OtherKinds, OthersStayQuiet
       DEF audio, pictures, driving, video, input, car
<1>7. CASE VideoHandles /\ UNCHANGED <<sound, driving>>
  <2>1. kind = "video" /\ kind' = kind
    BY <1>7, OthersTake DEF VideoHandles, Taken, kind
  <2> QED
    BY <1>2, <1>7, <2>1, VideoStaysQuiet, OtherKinds DEF sound, audio, driving, input, car
<1>8. CASE InputHandles /\ UNCHANGED <<sensor, sound, pictures>>
  <2>1. kind = "input" /\ kind' = kind
    BY <1>8, OthersTake DEF InputHandles, Taken, kind
  <2> QED
    BY <1>2, <1>8, <2>1, InputStaysQuiet, ReportsInTheOpen, OtherKinds
       DEF sound, audio, pictures, video
<1>9. CASE SensorHandles /\ UNCHANGED <<input, sound, pictures>>
  <2>1. kind = "sensor" /\ kind' = kind
    BY <1>9, OthersTake DEF SensorHandles, Taken, kind
  <2> QED
    BY <1>2, <1>9, <2>1, SensorStaysQuiet, ReportsInTheOpen, OtherKinds
       DEF sound, audio, pictures, video, input
<1> QED
  BY <1>3, <1>4, <1>5, <1>6, <1>7, <1>8, <1>9, Steps

\* At first nothing is open.
LEMMA QuietAtFirst ==
  ASSUME Init
  PROVE  QuietInv
<1>1. inbox = <<>> /\ channelOpen = FALSE
  BY DEF Init, FeedInit
<1>2. OpenFirst
  BY <1>1, EmptySeq DEF OpenFirst, IsSeq
<1>3. MicInv
  BY MicBefore DEF Init
<1>4. AudioQuiet /\ VideoQuiet /\ InputQuiet /\ SensorQuiet
  BY DEF Init, AudioInit, VideoInit, InputInit, SensorInit, AudioQuiet, VideoQuiet, InputQuiet,
         SensorQuiet
<1> QED
  BY <1>2, <1>3, <1>4 DEF QuietInv

\* Once the channel is closed it holds nothing, or is about to let go of it, and
\* it reports nothing to the phone: ClosedIsQuiet, in any behaviour.
THEOREM ClosedIsQuietCorrect == Spec => ClosedIsQuiet
<1>1. Init => QuietInv
  BY QuietAtFirst
<1>2. QuietInv /\ [Next]_vars => QuietInv'
  BY QuietStays
<1>3. ASSUME QuietInv, QuietInv', [Next]_vars
      PROVE  [/\ ~ channelOpen' => Quiet'
              /\ reports' # reports => channelOpen]_vars
  <2>1. ~ channelOpen' => Quiet'
    BY <1>3 DEF QuietInv, AudioQuiet, VideoQuiet, InputQuiet, SensorQuiet, MicInv, MicQuiet, Quiet
  <2>2. reports' # reports => channelOpen
    BY <1>3, QuietStays
  <2> QED
    BY <2>1, <2>2
<1>4. QuietInv /\ QuietInv' /\ [Next]_vars
      => [/\ ~ channelOpen' => Quiet'
          /\ reports' # reports => channelOpen]_vars
  BY <1>3
<1> QED
  BY <1>1, <1>2, <1>4, PTL DEF Spec, ClosedIsQuiet

-----------------------------------------------------------------------------
(* What the phone has said and the channel has not heard yet: an automaton *)
(* that reads it comes to where the phone is.                              *)

Stages == {"new", "opened", "playing"}
Spoken ==
  {<<d[1], <<"frame", d[2]>>, d[3]>> : d \in Dialogue} \cup
  {<<q[1], <<q[2], "">>, q[1]>> : q \in Stages \X (Words \cup {"open"})}

\* The channel is at h, if it has heard what it has been told.
Fed(h) == Leads(Spoken, Stages, h, inbox, phone)

\* The frames of a channel of sound or of pictures.
LEMMA DialogueOfMedia ==
  ASSUME kind \in {"audio", "video"}
  PROVE  \A d \in Dialogue :
           /\ d = <<d[1], d[2], d[3]>> /\ {d[1], d[3]} \subseteq Stages
           /\ d[2] \in {"setup", "open", "start", "media", "stop", "config", "focus"}
           /\ d[2] = "setup" => d[1] = "new" /\ d[3] = "new"
           /\ d[2] = "open" => d[1] = "new" /\ d[3] = "opened"
           /\ d[2] = "start" => d[1] = "opened" /\ d[3] = "playing"
           /\ d[2] = "media" => d[1] = "playing" /\ d[3] = "playing"
           /\ d[2] = "stop" => d[1] = "playing" /\ d[3] = "opened"
           /\ d[2] \in {"config", "focus"} => d[1] = "opened" /\ d[3] = "opened"
<1>1. Dialogue \subseteq
        { <<"new", "setup", "new">>, <<"new", "open", "opened">>,
          <<"opened", "start", "playing">>, <<"playing", "media", "playing">>,
          <<"playing", "stop", "opened">>,
          <<"opened", "config", "opened">>, <<"opened", "focus", "opened">> }
  BY DEF Dialogue
<1> QED
  BY <1>1 DEF Stages

\* The transitions are of two kinds.
OfDialogue(q, g, r) == \E d \in Dialogue : q = d[1] /\ g = <<"frame", d[2]>> /\ r = d[3]
OfWords(q, g, r) == q \in Stages /\ r = q /\ \E x \in Words \cup {"open"} : g = <<x, "">>

LEMMA InSpoken ==
  ASSUME NEW q, NEW g, NEW r
  PROVE  <<q, g, r>> \in Spoken <=> OfDialogue(q, g, r) \/ OfWords(q, g, r)
<1> DEFINE F == {<<d[1], <<"frame", d[2]>>, d[3]>> : d \in Dialogue}
           W == {<<p[1], <<p[2], "">>, p[1]>> : p \in Stages \X (Words \cup {"open"})}
<1>1. <<q, g, r>> \in F <=> OfDialogue(q, g, r)
  <2>1. \A d : <<q, g, r>> = <<d[1], <<"frame", d[2]>>, d[3]>>
               <=> q = d[1] /\ g = <<"frame", d[2]>> /\ r = d[3]
    OBVIOUS
  <2>2. <<q, g, r>> \in F <=> \E d \in Dialogue : <<q, g, r>> = <<d[1], <<"frame", d[2]>>, d[3]>>
    BY Zenon
  <2> QED
    BY <2>1, <2>2 DEF OfDialogue
<1>2. <<q, g, r>> \in W <=> OfWords(q, g, r)
  <2>1. \A p : <<q, g, r>> = <<p[1], <<p[2], "">>, p[1]>>
               <=> q = p[1] /\ g = <<p[2], "">> /\ r = p[1]
    OBVIOUS
  <2>2. <<q, g, r>> \in W
        <=> \E p \in Stages \X (Words \cup {"open"}) : <<q, g, r>> = <<p[1], <<p[2], "">>, p[1]>>
    BY Zenon
  <2>3. ASSUME q \in Stages, r = q, NEW x \in Words \cup {"open"}, g = <<x, "">>
        PROVE  <<q, g, r>> \in W
    <3>1. PICK p : p = <<q, x>>
      OBVIOUS
    <3>2. p \in Stages \X (Words \cup {"open"}) /\ p[1] = q /\ p[2] = x
      BY <2>3, <3>1
    <3> QED
      BY <2>1, <2>2, <2>3, <3>2
  <2>4. ASSUME <<q, g, r>> \in W
        PROVE  q \in Stages /\ r = q /\ \E x \in Words \cup {"open"} : g = <<x, "">>
    <3>1. PICK p \in Stages \X (Words \cup {"open"}) : q = p[1] /\ g = <<p[2], "">> /\ r = p[1]
      BY <2>1, <2>2, <2>4
    <3> QED
      BY <3>1
  <2> QED
    BY <2>3, <2>4 DEF OfWords
<1>3. Spoken = F \cup W
  BY DEF Spoken
<1> HIDE DEF F, W
<1> QED
  BY <1>1, <1>2, <1>3

\* They stay the same.
LEMMA SpokenStays ==
  ASSUME scenario' = scenario
  PROVE  Spoken' = Spoken
<1>1. kind' = kind
  BY DEF kind
<1>2. Dialogue' = Dialogue
  BY <1>1 DEF Dialogue
<1> QED
  BY <1>2 DEF Spoken

\* What is said is heard later.
LEMMA FedOn ==
  ASSUME kind \in {"audio", "video"}, IsSeq(inbox), Sent, NEW h, Fed(h)
  PROVE  Fed(h)'
<1>1. PICK T, s, t : T = Spoken /\ s = inbox /\ t = inbox'
  OBVIOUS
<1>2. scenario' = scenario
  BY DEF Sent, Untouched, Told, Closing, Says
<1>3. T = Spoken'
  BY <1>1, <1>2, SpokenStays
<1>4. Leads(T, Stages, h, s, phone) /\ IsSeq(s)
  BY <1>1 DEF Fed
<1>5. phone \in Stages
  <2>1. Len(s) \in Nat /\ Len(s) \in 0..Len(s)
    BY <1>4 DEF IsSeq
  <2> QED
    BY <1>4, <2>1 DEF Leads
<1> SUFFICES Leads(T, Stages, h, t, phone')
  BY <1>1, <1>3 DEF Fed
<1> HIDE DEF IsSeq
<1>6. ASSUME NEW m, m[1] \in Words
      PROVE  <<phone, Gist(m), phone>> \in T
  <2>1. Gist(m) = <<m[1], "">>
    BY <1>6 DEF Gist, Words
  <2> QED
    BY <1>1, <1>5, <1>6, <2>1, InSpoken DEF OfWords
<1>7. CASE Untouched
  BY <1>1, <1>4, <1>7 DEF Untouched
<1>8. CASE \E m : Told(m)
  <2>1. PICK m : m[1] \in Words /\ t = Append(s, m) /\ phone' = phone
    BY <1>1, <1>8 DEF Told
  <2> QED
    BY <1>4, <1>5, <1>6, <2>1, LeadsOn
<1>9. CASE \E d : Says(d)
  <2>1. PICK d : d \in Dialogue /\ phone = d[1] /\ phone' = d[3] /\ t = Append(s, <<"frame", d[2]>>)
    BY <1>1, <1>9 DEF Says
  <2>2. PICK m : m = <<"frame", d[2]>>
    OBVIOUS
  <2>3. Gist(m) = <<"frame", d[2]>>
    BY <2>2 DEF Gist
  <2>4. <<d[1], Gist(m), d[3]>> \in T
    BY <1>1, <2>1, <2>3, InSpoken DEF OfDialogue
  <2>5. d[3] \in Stages
    BY <2>1, DialogueOfMedia
  <2> QED
    BY <1>4, <2>1, <2>2, <2>4, <2>5, LeadsOn
<1>10. CASE Closing
  <2>1. PICK m, n : m = <<"close">> /\ n = <<"stop">>
    OBVIOUS
  <2>2. m[1] \in Words /\ n[1] \in Words
    BY <2>1 DEF Words
  <2>3. PICK a : a = Append(s, m)
    OBVIOUS
  <2>4. IsSeq(a) /\ Leads(T, Stages, h, a, phone)
    BY <1>4, <1>5, <1>6, <2>2, <2>3, Appended, LeadsOn
  <2>5. t = Append(a, n) /\ phone' = phone
    BY <1>1, <1>10, <2>1, <2>3 DEF Closing
  <2> QED
    BY <1>5, <1>6, <2>2, <2>4, <2>5, LeadsOn
<1> QED
  BY <1>7, <1>8, <1>9, <1>10 DEF Sent

\* What is heard brings the channel on.
LEMMA FedTaken ==
  ASSUME IsSeq(inbox), Taken, NEW h, Fed(h)
  PROVE  \E c \in Stages : <<h, Gist(Head(inbox)), c>> \in Spoken /\ Fed(c)'
<1>1. PICK T, s, t : T = Spoken /\ s = inbox /\ t = inbox'
  OBVIOUS
<1>2. T = Spoken' /\ phone' = phone
  BY <1>1, SpokenStays DEF Taken
<1>3. Leads(T, Stages, h, s, phone) /\ IsSeq(s) /\ s # <<>> /\ t = Tail(s)
  BY <1>1 DEF Fed, Taken
<1>4. PICK c \in Stages : <<h, Gist(Head(s)), c>> \in T /\ Leads(T, Stages, c, Tail(s), phone)
  BY <1>3, LeadsFrom
<1> QED
  BY <1>1, <1>2, <1>3, <1>4 DEF Fed

\* A frame is one of the dialogue, at its place in it.
LEMMA HeardFrame ==
  ASSUME kind \in {"audio", "video"}, NEW h, NEW c, NEW f,
         <<h, Gist(<<"frame", f>>), c>> \in Spoken
  PROVE  <<h, f, c>> \in Dialogue
<1>1. Gist(<<"frame", f>>) = <<"frame", f>>
  BY DEF Gist
<1>2. PICK g : g = <<"frame", f>>
  OBVIOUS
<1>3. <<h, g, c>> \in Spoken /\ \A x \in Words \cup {"open"} : g # <<x, "">>
  BY <1>1, <1>2 DEF Words
<1>4. OfDialogue(h, g, c) \/ OfWords(h, g, c)
  BY <1>3, InSpoken
<1>5. PICK d \in Dialogue : h = d[1] /\ g = <<"frame", d[2]>> /\ c = d[3]
  BY <1>3, <1>4 DEF OfDialogue, OfWords
<1>6. f = d[2]
  BY <1>2, <1>5
<1> QED
  BY <1>5, <1>6, DialogueOfMedia

\* Another word leaves the channel where it is.
LEMMA HeardWord ==
  ASSUME NEW h, NEW c, NEW m, m[1] # "frame", <<h, Gist(m), c>> \in Spoken
  PROVE  c = h
<1>1. PICK g : g = Gist(m)
  OBVIOUS
<1>2. g[1] # "frame" /\ <<h, g, c>> \in Spoken
  BY <1>1 DEF Gist
<1>3. \A d : g # <<"frame", d[2]>>
  BY <1>2
<1>4. OfDialogue(h, g, c) \/ OfWords(h, g, c)
  BY <1>2, InSpoken
<1> QED
  BY <1>3, <1>4 DEF OfDialogue, OfWords

-----------------------------------------------------------------------------
(* Sound is of this stream.                                                *)

\* What is kept when the channel is at h of the dialogue: a stream that starts
\* finds nothing of the one before.
AudioFits(h) ==
  /\ h # "playing" => buffer = <<>>
  /\ h = "playing" => audioState \in {"IDLE", "PLAYING"}

OfThisStream ==
  /\ IsSeq(buffer)
  /\ \A i \in DOMAIN buffer : buffer[i] = stream /\ audioState = "PLAYING"

AudioInv ==
  OfThisStream /\ (kind = "audio" => \E h \in Stages : Fed(h) /\ AudioFits(h))

\* An empty buffer.
LEMMA NothingKept ==
  /\ buffer = <<>> => OfThisStream
  /\ (buffer = <<>> => OfThisStream)'
<1>1. IsSeq(<<>>) /\ DOMAIN <<>> = {}
  BY EmptySeq DEF IsSeq
<1>2. IsSeq(buffer)' <=> IsSeq(buffer')
  BY DEF IsSeq
<1> HIDE DEF IsSeq
<1> QED
  BY <1>1, <1>2 DEF OfThisStream

\* What there is to hear of the beginning.
LEMMA FedAtFirst ==
  ASSUME FeedInit
  PROVE  Fed("new")
BY NothingLeads DEF FeedInit, Fed, Stages

\* The same for a session that begins.
LEMMA FedBegins ==
  ASSUME SessionBegins
  PROVE  Fed("new")'
<1>1. PICK T : T = Spoken' /\ T = Spoken
  BY SpokenStays DEF SessionBegins, ChannelOpened
<1>2. PICK m : m = <<"open">>
  OBVIOUS
<1>3. inbox' = <<m>> /\ phone' = "new"
  BY <1>2 DEF SessionBegins, ChannelOpened
<1>4. IsSeq(<<>>) /\ Append(<<>>, m) = <<m>> /\ "new" \in Stages
  BY EmptySeq DEF IsSeq, Stages
<1>5. Leads(T, Stages, "new", <<>>, "new")
  BY <1>4, NothingLeads
<1>6. Gist(m) = <<"open", "">>
  BY <1>2 DEF Gist
<1>7. OfWords("new", Gist(m), "new")
  BY <1>4, <1>6 DEF OfWords
<1>8. <<"new", Gist(m), "new">> \in T
  BY <1>1, <1>7, InSpoken
<1> HIDE DEF IsSeq
<1>9. Leads(T, Stages, "new", Append(<<>>, m), "new")
  BY <1>4, <1>5, <1>8, LeadsOn
<1> QED
  BY <1>1, <1>3, <1>4, <1>9 DEF Fed

\* The buffer after one frame more.
LEMMA OneMore ==
  ASSUME OfThisStream, buffer' = Append(buffer, stream), stream' = stream,
         audioState' = "PLAYING"
  PROVE  OfThisStream'
<1>1. PICK s, a : s = buffer /\ a = buffer'
  OBVIOUS
<1>2. IsSeq(s) /\ a = Append(s, stream) /\ \A i \in DOMAIN s : s[i] = stream
  BY <1>1 DEF OfThisStream
<1>3. IsSeq(a)
  <2> HIDE DEF IsSeq
  <2> QED
    BY <1>2, Appended
<1>4. Len(s) \in Nat /\ Len(a) = Len(s) + 1 /\ DOMAIN s = 1..Len(s) /\ DOMAIN a = 1..Len(a)
  BY <1>2, Appended
<1>5. a[Len(a)] = stream /\ \A i \in 1..Len(s) : a[i] = s[i]
  BY <1>2, Appended
<1>6. \A i \in DOMAIN a : a[i] = stream
  BY <1>2, <1>4, <1>5
<1> QED
  BY <1>1, <1>3, <1>6 DEF OfThisStream, IsSeq

\* A message that is not a frame of the dialogue.
LEMMA AudioWords ==
  ASSUME QuietInv, AudioInv, kind = "audio",
         AudioOpen \/ AudioClose \/ AudioShutdown \/ AudioStop \/ \E d : SinkSelected(d)
  PROVE  AudioInv'
<1>1. PICK h \in Stages : Fed(h) /\ AudioFits(h)
  BY DEF AudioInv
<1>2. PICK m : Receive(m) /\ m[1] # "frame"
  <2>1. PICK m : /\ Receive(m)
                 /\ \/ m \in {<<"open">>, <<"close">>, <<"shutdown">>, <<"stop">>}
                    \/ \E d : m = <<"selected", d>>
    BY DEF AudioOpen, AudioClose, AudioShutdown, AudioStop, SinkSelected, ReceiveOpen,
           ReceiveClose, ReceiveShutdown, ReceiveStop
  <2> QED
    BY <2>1
<1>3. Taken /\ m = Head(inbox) /\ IsSeq(inbox)
  BY <1>2 DEF Receive, Taken, QuietInv, OpenFirst
<1>4. PICK c \in Stages : <<h, Gist(m), c>> \in Spoken /\ Fed(c)'
  BY <1>1, <1>3, FedTaken
<1>5. Fed(h)'
  BY <1>2, <1>4, HeardWord
<1>6. CASE AudioClose \/ AudioShutdown \/ AudioStop
  BY <1>5, <1>6, NothingKept
     DEF AudioClose, AudioShutdown, AudioStop, AudioInv, AudioFits
<1>7. CASE AudioOpen
  <2>1. ~ channelOpen
    BY <1>7, OpenedWhenClosed DEF AudioOpen, QuietInv
  <2>2. buffer = <<>>
    BY <2>1 DEF QuietInv, AudioQuiet
  <2> QED
    BY <1>5, <1>7, <2>2, NothingKept DEF AudioOpen, AudioInv, AudioFits
<1>8. CASE \E d : SinkSelected(d)
  BY <1>1, <1>5, <1>8 DEF SinkSelected, AudioInv, AudioFits, OfThisStream, IsSeq
<1> QED
  BY <1>6, <1>7, <1>8

\* A frame of the dialogue, whether it is handled or not.
LEMMA AudioFrames ==
  ASSUME QuietInv, AudioInv, kind = "audio", AudioFrame
  PROVE  AudioInv'
<1>1. PICK h \in Stages : Fed(h) /\ AudioFits(h)
  BY DEF AudioInv
<1>2. ASSUME NEW f, Receive(<<"frame", f>>)
      PROVE  \E c \in Stages : <<h, f, c>> \in Dialogue /\ Fed(c)'
  <2>1. PICK m : m = <<"frame", f>>
    OBVIOUS
  <2>2. Taken /\ m = Head(inbox) /\ IsSeq(inbox)
    BY <1>2, <2>1 DEF Receive, Taken, QuietInv, OpenFirst
  <2>3. PICK c \in Stages : <<h, Gist(m), c>> \in Spoken /\ Fed(c)'
    BY <1>1, <2>2, FedTaken
  <2> QED
    BY <2>1, <2>3, HeardFrame
<1>3. \A c, f : <<h, f, c>> \in Dialogue =>
        /\ f \in {"setup", "open"} => h = "new"
        /\ f \in {"start"} => h = "opened" /\ c = "playing"
        /\ f \in {"open", "stop"} => c = "opened"
        /\ f = "setup" => c = "new"
        /\ f = "media" => h = "playing" /\ c = "playing"
  BY DialogueOfMedia
<1>4. ASSUME NEW f, ReceiveFrame(f)
      PROVE  \E c \in Stages : <<h, f, c>> \in Dialogue /\ Fed(c)'
  BY <1>2, <1>4 DEF ReceiveFrame
<1>5. OfThisStream
  BY DEF AudioInv
<1>6. CASE FrameDropped /\ UNCHANGED audio
  <2>1. PICK f : Receive(<<"frame", f>>) /\ ~ channelOpen
    BY <1>6 DEF FrameDropped
  <2>2. PICK c \in Stages : Fed(c)'
    BY <1>2, <2>1
  <2>3. buffer = <<>> /\ audioState = "IDLE"
    BY <2>1 DEF QuietInv, AudioQuiet
  <2> QED
    BY <1>6, <2>2, <2>3, NothingKept DEF audio, AudioInv, AudioFits
<1>7. CASE AudioSetup /\ UNCHANGED <<buffer, stream>>
  <2>1. PICK c \in Stages : <<h, "setup", c>> \in Dialogue /\ Fed(c)'
    BY <1>4, <1>7 DEF AudioSetup
  <2>2. h = "new" /\ c = "new"
    BY <1>3, <2>1
  <2> QED
    BY <1>1, <1>7, <2>1, <2>2, NothingKept DEF AudioInv, AudioFits
<1>8. CASE AudioOpenRequest /\ UNCHANGED <<buffer, stream>>
  <2>1. PICK c \in Stages : <<h, "open", c>> \in Dialogue /\ Fed(c)'
    BY <1>4, <1>8 DEF AudioOpenRequest
  <2>2. h = "new" /\ c = "opened"
    BY <1>3, <2>1
  <2> QED
    BY <1>1, <1>8, <2>1, <2>2, NothingKept DEF AudioInv, AudioFits
<1>9. CASE AudioStart /\ UNCHANGED buffer
  <2>1. PICK c \in Stages : <<h, "start", c>> \in Dialogue /\ Fed(c)'
    BY <1>4, <1>9 DEF AudioStart
  <2>2. h = "opened" /\ c = "playing"
    BY <1>3, <2>1
  <2> QED
    BY <1>1, <1>9, <2>1, <2>2, NothingKept DEF AudioInv, AudioFits, AudioStart
<1>10. CASE AudioStopped
  <2>1. PICK c \in Stages : <<h, "stop", c>> \in Dialogue /\ Fed(c)'
    BY <1>4, <1>10 DEF AudioStopped
  <2>2. c = "opened"
    BY <1>3, <2>1
  <2> QED
    BY <1>10, <2>1, <2>2, NothingKept DEF AudioInv, AudioFits, AudioStopped, ClearBuffer
<1>11. ASSUME ReceiveFrame("media"), OfThisStream' , audioState' \in {audioState, "PLAYING"}
       PROVE  AudioInv'
  <2>1. PICK c \in Stages : <<h, "media", c>> \in Dialogue /\ Fed(c)'
    BY <1>4, <1>11
  <2>2. h = "playing" /\ c = "playing"
    BY <1>3, <2>1
  <2> QED
    BY <1>1, <1>11, <2>1, <2>2 DEF AudioInv, AudioFits
<1>12. CASE AudioMedia /\ UNCHANGED stream
  <2>1. PICK c \in Stages : <<h, "media", c>> \in Dialogue
    BY <1>4, <1>12 DEF AudioMedia
  <2>2. audioState \in {"IDLE", "PLAYING"}
    BY <1>1, <1>3, <2>1 DEF AudioFits
  <2>3. audioState' = "PLAYING"
    BY <1>12, <2>2 DEF AudioMedia, EnterPlaying
  <2>4. OfThisStream'
    <3>1. CASE NotPlayed
      BY <1>5, <1>12, <2>3, <3>1 DEF NotPlayed, OfThisStream, IsSeq
    <3>2. CASE Accumulate
      BY <1>5, <1>12, <2>3, <3>2, OneMore DEF Accumulate
    <3>3. CASE Flush
      BY <3>3, NothingKept DEF Flush
    <3> QED
      BY <1>12, <3>1, <3>2, <3>3 DEF AudioMedia
  <2> QED
    BY <1>11, <1>12, <2>3, <2>4 DEF AudioMedia
<1>13. CASE CodecData /\ UNCHANGED <<audioState, buffer, stream>>
  <2>1. OfThisStream'
    BY <1>5, <1>13 DEF OfThisStream, IsSeq
  <2> QED
    BY <1>11, <1>13, <2>1 DEF CodecData
<1> QED
  BY <1>6, <1>7, <1>8, <1>9, <1>10, <1>12, <1>13 DEF AudioFrame

\* Every step.
LEMMA AudioStays ==
  ASSUME QuietInv, AudioInv, [Next]_vars
  PROVE  AudioInv'
<1>1. CASE SessionBegins
  <2>1. Fed("new")' /\ "new" \in Stages
    BY <1>1, FedBegins DEF Stages
  <2>2. audioState' = "IDLE" /\ buffer' = <<>>
    BY <1>1 DEF SessionBegins, AudioStarts
  <2> QED
    BY <2>1, <2>2, NothingKept DEF AudioInv, AudioFits
<1>2. CASE kind = "audio" /\ AudioHandles
  BY <1>2, AudioWords, AudioFrames DEF AudioHandles
<1>3. ASSUME UNCHANGED <<audioState, buffer, stream>>, Sent \/ (Taken /\ kind # "audio")
      PROVE  AudioInv'
  <2>1. OfThisStream'
    BY <1>3 DEF AudioInv, OfThisStream, IsSeq
  <2>2. kind' = kind /\ IsSeq(inbox)
    BY <1>3 DEF Sent, Untouched, Taken, Told, Closing, Says, kind, QuietInv, OpenFirst
  <2>3. ASSUME kind = "audio", NEW h \in Stages, Fed(h), AudioFits(h)
        PROVE  Fed(h)' /\ AudioFits(h)'
    BY <1>3, <2>2, <2>3, FedOn DEF AudioFits
  <2> QED
    BY <2>1, <2>2, <2>3 DEF AudioInv
<1>4. SessionBegins \/ Sent \/ (Taken /\ (AudioHandles \/ kind # "audio"))
  BY InboxSteps
     DEF QuietInv, OpenFirst, Handling, MicHandles, VideoHandles, InputHandles, SensorHandles
<1>5. SessionBegins \/ AudioHandles \/ UNCHANGED <<audioState, buffer, stream>>
  BY Steps DEF Aside, PlayerDies, MicNext, sound, audio
<1> QED
  BY <1>1, <1>2, <1>3, <1>4, <1>5 DEF AudioHandles

\* Before the first session.
LEMMA AudioAtFirst ==
  ASSUME Init
  PROVE  AudioInv
<1>1. buffer = <<>> /\ Fed("new") /\ "new" \in Stages
  BY FedAtFirst DEF Init, AudioInit, Stages
<1> QED
  BY <1>1, NothingKept DEF AudioInv, AudioFits

\* Sound is of the stream that plays and of the capture that runs, whatever was
\* stopped before: SoundIsOfThisStream, in any behaviour.
THEOREM SoundIsOfThisStreamCorrect == Spec => []SoundIsOfThisStream
<1>1. Init => QuietInv /\ AudioInv
  BY QuietAtFirst, AudioAtFirst
<1>2. QuietInv /\ AudioInv /\ [Next]_vars => (QuietInv /\ AudioInv)'
  BY QuietStays, AudioStays
<1>3. QuietInv /\ AudioInv => SoundIsOfThisStream
  BY DEF QuietInv, AudioInv, OfThisStream, MicInv, OfThisCapture, Current, SoundIsOfThisStream
<1> QED
  BY <1>1, <1>2, <1>3, PTL DEF Spec

-----------------------------------------------------------------------------
(* The steps when pictures are followed.                                   *)

\* Nothing of the pictures.
NoPicture == UNCHANGED <<feed, video, screen>>

\* What a step is to the pictures.
LEMMA VideoSteps ==
  ASSUME QuietInv, kind = "video", [Next]_vars
  PROVE  /\ scenario' = scenario
         /\ \/ SessionBegins
            \/ FeedNext /\ UNCHANGED pictures
            \/ VideoHandles /\ UNCHANGED screen
            \/ PairingCompleted \/ ScreenBusThread \/ QtThread \/ DecoderThread
            \/ NoPicture
<1>1. CASE UNCHANGED vars
  BY <1>1 DEF vars, feed, NoPicture
<1>2. CASE SessionBegins
  BY <1>2 DEF SessionBegins, ChannelOpened
<1>3. CASE FeedStep
  BY <1>3 DEF FeedStep, FeedNext, PhoneSends, SessionActive, SessionEnds, ChannelClosed
<1>4. CASE AudioNext
  <2>1. ~ AudioHandles /\ ~ PlayerDies
    BY DEF AudioHandles, PlayerDies
  <2>2. VolumesNext /\ UNCHANGED pictures
    BY <1>4, <2>1 DEF AudioNext
  <2> QED
    BY <2>2 DEF VolumesNext, feed, pictures, NoPicture
<1>5. CASE MicNext
  <2>1. AllDead /\ stopping = "no"
    BY DEF QuietInv, MicInv, MicQuiet
  <2>2. ~ MicBusThread /\ \A k \in Captures : ~ Reader(k)
    BY <2>1 DEF AllDead, MicBusThread, MicHandles, JoinReader, Stopped, StartCapture, Reader,
                ReadChunk, PutChunk, BackOff, Retry, Reads
  <2>3. RecorderDies /\ UNCHANGED pictures
    BY <1>5, <2>2 DEF MicNext
  <2> QED
    BY <2>3 DEF RecorderDies, feed, pictures, NoPicture
<1>6. CASE ScreenNext
  <2>1. scenario' = scenario
    BY <1>6, OthersTake DEF ScreenNext, PairingCompleted, ScreenBusThread, QtThread,
                            DecoderThread, feed, Taken
  <2> QED
    BY <1>6, <2>1 DEF ScreenNext
<1>7. ~ Select(SelectionNext) /\ ~ DrivingNext
  BY DEF Select, SelectionNext, DrivingNext, Gesture, Reading, InputHandles, SensorHandles
<1> QED
  BY <1>1, <1>2, <1>3, <1>4, <1>5, <1>6, <1>7 DEF Next

-----------------------------------------------------------------------------
(* The phases of a session of pictures.                                    *)

\* Nothing comes after the word that ends the process, and nothing is left of
\* a process that has ended.
Finished ==
  /\ phase = "none" => inbox = <<>> /\ videoState = "IDLE"
  /\ \A i \in DOMAIN inbox : inbox[i] = <<"stop">> => phase = "closed" /\ i = Len(inbox)

\* A stream that is set up is not playing.
VideoFits(h) == h = "new" => videoState \in {"IDLE", "SETUP"}

VideoInv ==
  kind = "video" => Finished /\ \E h \in Stages : Fed(h) /\ VideoFits(h)

\* A word more, while the session lasts.
LEMMA NotFinished ==
  ASSUME Finished, IsSeq(inbox), NEW m, m # <<"stop">>, inbox' = Append(inbox, m),
         phase \in {"up", "ending"}, phase' \in {"up", "ending"}
  PROVE  Finished'
<1>1. PICK s, a : s = inbox /\ a = inbox'
  OBVIOUS
<1>2. IsSeq(s) /\ a = Append(s, m) /\ \A i \in DOMAIN s : s[i] # <<"stop">>
  BY <1>1 DEF Finished
<1>3. Len(s) \in Nat /\ Len(a) = Len(s) + 1 /\ DOMAIN s = 1..Len(s) /\ DOMAIN a = 1..Len(a)
  BY <1>2, Appended
<1>4. a[Len(a)] = m /\ \A i \in 1..Len(s) : a[i] = s[i]
  BY <1>2, Appended
<1>5. ASSUME NEW i \in DOMAIN a PROVE a[i] # <<"stop">>
  <2>1. i \in DOMAIN s \/ i = Len(a)
    BY <1>3
  <2> QED
    BY <1>2, <1>3, <1>4, <2>1
<1> QED
  BY <1>1, <1>5 DEF Finished

\* The session ends.
LEMMA Finishes ==
  ASSUME Finished, IsSeq(inbox), ChannelClosed
  PROVE  Finished'
<1>1. PICK s, t : s = inbox /\ t = inbox'
  OBVIOUS
<1>2. PICK m, n : m = <<"close">> /\ n = <<"stop">>
  OBVIOUS
<1>3. PICK a : a = Append(s, m)
  OBVIOUS
<1>4. phase = "ending" /\ phase' = "closed" /\ t = Append(a, n) /\ IsSeq(s)
  BY <1>1, <1>2, <1>3, Joined DEF ChannelClosed
<1>5. \A i \in DOMAIN s : s[i] # <<"stop">>
  BY <1>1, <1>4 DEF Finished
<1>6. IsSeq(a)
  BY <1>3, <1>4, Appended
<1>7. Len(s) \in Nat /\ Len(a) = Len(s) + 1 /\ DOMAIN s = 1..Len(s) /\ DOMAIN a = 1..Len(a)
  BY <1>3, <1>4, Appended
<1>8. a[Len(a)] = m /\ \A i \in 1..Len(s) : a[i] = s[i]
  BY <1>3, <1>4, Appended
<1>9. Len(t) = Len(a) + 1 /\ DOMAIN t = 1..Len(t)
  BY <1>4, <1>6, Appended
<1>10. t[Len(t)] = n /\ \A i \in 1..Len(a) : t[i] = a[i]
  BY <1>4, <1>6, Appended
<1>11. m # <<"stop">>
  BY <1>2
<1>12. ASSUME NEW i \in DOMAIN a PROVE a[i] # <<"stop">>
  <2>1. i \in DOMAIN s \/ i = Len(a)
    BY <1>7
  <2> QED
    BY <1>5, <1>7, <1>8, <1>11, <2>1
<1>13. \A i \in DOMAIN t : t[i] = <<"stop">> => i = Len(t)
  BY <1>7, <1>9, <1>10, <1>12
<1> QED
  BY <1>1, <1>4, <1>13 DEF Finished

\* A word is taken.
LEMMA GoesOn ==
  ASSUME Finished, IsSeq(inbox), Taken,
         \/ phase' = phase
         \/ phase' = "none" /\ Head(inbox) = <<"stop">> /\ videoState' = "IDLE"
  PROVE  Finished'
<1>1. PICK s, t : s = inbox /\ t = inbox'
  OBVIOUS
<1>2. IsSeq(s) /\ s # <<>> /\ t = Tail(s) /\ phase # "none"
  BY <1>1 DEF Taken, Finished
<1>3. Len(s) \in Nat \ {0} /\ Len(t) = Len(s) - 1 /\ DOMAIN s = 1..Len(s) /\ DOMAIN t = 1..Len(t)
  BY <1>2, Shortened
<1>4. IsSeq(t) /\ Head(s) = s[1] /\ \A i \in 1..Len(t) : t[i] = s[i + 1]
  BY <1>2, Shortened
<1>5. \A i \in DOMAIN s : s[i] = <<"stop">> => phase = "closed" /\ i = Len(s)
  BY <1>1 DEF Finished
<1>6. CASE phase' = phase
  <2>1. \A i \in DOMAIN t : t[i] = <<"stop">> => phase = "closed" /\ i = Len(t)
    BY <1>3, <1>4, <1>5
  <2> QED
    BY <1>1, <1>2, <1>6, <2>1 DEF Finished
<1>7. CASE phase' = "none" /\ Head(inbox) = <<"stop">> /\ videoState' = "IDLE"
  <2>1. Len(s) = 1
    BY <1>1, <1>3, <1>4, <1>5, <1>7
  <2>2. t = <<>>
    BY <1>3, <1>4, <2>1, EmptySeq DEF IsSeq
  <2> QED
    BY <1>1, <1>7, <2>2, EmptySeq DEF Finished
<1> QED
  BY <1>6, <1>7

\* The feed goes on.
LEMMA VideoFed ==
  ASSUME QuietInv, VideoInv, kind = "video", FeedNext, UNCHANGED pictures
  PROVE  VideoInv'
<1>1. IsSeq(inbox) /\ Finished
  BY DEF QuietInv, OpenFirst, VideoInv
<1>2. PICK h \in Stages : Fed(h) /\ VideoFits(h)
  BY DEF VideoInv
<1>3. Fed(h)' /\ VideoFits(h)'
  BY <1>1, <1>2, FeedSends, FedOn DEF VideoFits, pictures, video
<1>4. Finished'
  <2>1. CASE PhoneSends
    <3>1. PICK d : inbox' = Append(inbox, <<"frame", d[2]>>)
      BY <2>1 DEF PhoneSends
    <3>2. PICK m : m = <<"frame", d[2]>>
      OBVIOUS
    <3>3. m # <<"stop">> /\ inbox' = Append(inbox, m)
      BY <3>1, <3>2
    <3> QED
      BY <1>1, <2>1, <3>3, NotFinished DEF PhoneSends
  <2>2. CASE SessionActive
    BY <1>1, <2>2 DEF SessionActive, Finished, pictures, video
  <2>3. CASE SessionEnds
    <3>1. PICK m : m = <<"shutdown">>
      OBVIOUS
    <3>2. m # <<"stop">> /\ inbox' = Append(inbox, m)
      BY <2>3, <3>1 DEF SessionEnds
    <3> QED
      BY <1>1, <2>3, <3>2, NotFinished DEF SessionEnds
  <2>4. CASE ChannelClosed
    BY <1>1, <2>4, Finishes
  <2> QED
    BY <2>1, <2>2, <2>3, <2>4 DEF FeedNext
<1> QED
  BY <1>3, <1>4 DEF VideoInv

\* The channel takes a message.
LEMMA VideoTaken ==
  ASSUME QuietInv, VideoInv, VideoHandles
  PROVE  VideoInv'
<1>1. kind = "video" /\ Taken /\ IsSeq(inbox) /\ Finished
  BY OthersTake DEF VideoHandles, QuietInv, OpenFirst, VideoInv
<1>2. PICK h \in Stages : Fed(h) /\ VideoFits(h)
  BY <1>1 DEF VideoInv
<1>3. PICK c \in Stages : <<h, Gist(Head(inbox)), c>> \in Spoken /\ Fed(c)'
  BY <1>1, <1>2, FedTaken
<1>4. \/ phase' = phase
      \/ phase' = "none" /\ Head(inbox) = <<"stop">> /\ videoState' = "IDLE"
  BY DEF VideoHandles, VideoReset, VideoFrame, ReceiveOpen, ReceiveClose, ReceiveShutdown,
         ReceiveStop, ReceiveFrame, Receive, FrameDropped, MediaFrame, ConfigFrame,
         FocusRequest, SetState
<1>5. Finished'
  BY <1>1, <1>4, GoesOn
<1>6. VideoFits(c)'
  <2>1. CASE VideoReset \/ (FrameDropped /\ UNCHANGED video)
    <3>1. videoState' = "IDLE"
      BY <2>1 DEF VideoReset, SetState, FrameDropped, QuietInv, VideoQuiet, video
    <3> QED
      BY <3>1 DEF VideoFits
  <2>2. ASSUME NEW f, ReceiveFrame(f) PROVE <<h, f, c>> \in Dialogue
    <3>1. Head(inbox) = <<"frame", f>>
      BY <2>2 DEF ReceiveFrame, Receive
    <3> QED
      BY <1>1, <1>3, <3>1, HeardFrame
  <2>3. CASE ReceiveFrame("setup") /\ SetState("SETUP")
    BY <2>3 DEF SetState, VideoFits
  <2>4. CASE \E f : ReceiveFrame(f) /\ f # "setup"
    <3>1. PICK f : <<h, f, c>> \in Dialogue /\ f # "setup"
      BY <2>2, <2>4
    <3>2. c # "new"
      BY <1>1, <3>1, DialogueOfMedia
    <3> QED
      BY <3>2 DEF VideoFits
  <2> QED
    BY <2>1, <2>3, <2>4 DEF VideoHandles, VideoFrame, MediaFrame, ConfigFrame, FocusRequest
<1> QED
  BY <1>3, <1>5, <1>6 DEF VideoInv

\* Every step.
LEMMA VideoStays ==
  ASSUME QuietInv, VideoInv, [Next]_vars
  PROVE  VideoInv'
<1>1. CASE SessionBegins
  <2>1. Fed("new")' /\ "new" \in Stages
    BY <1>1, FedBegins DEF Stages
  <2>2. videoState' = "IDLE" /\ phase' = "up" /\ inbox' = <<<<"open">>>>
    BY <1>1 DEF SessionBegins, VideoStarts, ChannelOpened
  <2>3. Finished'
    BY <2>2 DEF Finished
  <2> QED
    BY <2>1, <2>2, <2>3 DEF VideoInv, VideoFits
<1>2. CASE kind # "video" /\ kind' = kind
  BY <1>2 DEF VideoInv
<1>3. CASE kind = "video" /\ Untouched /\ UNCHANGED <<phase, videoState>>
  <2>1. PICK h \in Stages : Fed(h) /\ VideoFits(h)
    BY <1>3 DEF VideoInv
  <2>2. Fed(h)' /\ VideoFits(h)'
    BY <1>3, <2>1, FedOn DEF Sent, QuietInv, OpenFirst, VideoFits
  <2>3. Finished'
    BY <1>3 DEF VideoInv, Finished, Untouched
  <2> QED
    BY <2>2, <2>3 DEF VideoInv
<1>4. kind' = kind
  BY Steps, AudioTakes, MicTakes, OthersTake
     DEF SessionBegins, ChannelOpened, Aside, PlayerDies, feed, Taken, Untouched, kind
<1>5. CASE kind = "video" /\ (PairingCompleted \/ ScreenBusThread \/ QtThread \/ DecoderThread
                              \/ NoPicture)
  BY <1>3, <1>5 DEF PairingCompleted, ScreenBusThread, QtThread, DecoderThread, NoPicture, feed,
                    video, Untouched
<1> QED
  BY <1>1, <1>2, <1>4, <1>5, VideoSteps, VideoFed, VideoTaken

\* Before the first session.
LEMMA VideoAtFirst ==
  ASSUME Init
  PROVE  VideoInv
<1>1. phase = "none" /\ inbox = <<>> /\ videoState = "IDLE" /\ Fed("new") /\ "new" \in Stages
  BY FedAtFirst DEF Init, FeedInit, VideoInit, Stages
<1> QED
  BY <1>1, EmptySeq DEF VideoInv, Finished, VideoFits

-----------------------------------------------------------------------------
(* What the window has been told of the stream and has not heard yet, and  *)
(* the calls it has queued and not made: two automata read them.           *)

VideoStates == {"IDLE", "SETUP", "OPEN", "PLAYING", "STOPPED"}
Labels == {"WAITING_BT", "HANDSHAKE", "STREAMING", "INTERRUPTED"}

\* The first follows whether the window takes the stream to be playing.
Watch == {"streaming", "other"}
News ==
  {<<"state", s>> : s \in VideoStates} \cup
  {<<x, "">> : x \in {"shutdown", "active", "paired", "picture", "config"}}
Over == {<<"state", "IDLE">>, <<"state", "STOPPED">>, <<"shutdown", "">>}

AfterNews(q, g) ==
  IF g = <<"state", "PLAYING">> THEN "streaming" ELSE IF g \in Over THEN "other" ELSE q
Shows == {t \in Watch \X News \X Watch : t[3] = AfterNews(t[1], t[2])}

\* The second follows the label.
Orders ==
  {<<"label", s>> : s \in Labels} \cup
  {<<x, "">> : x \in {"hide", "show", "picture", "paint", "config"}}

AfterOrder(q, g) == IF g[1] = "label" THEN g[2] ELSE q
Tells == {t \in Labels \X Orders \X Labels : t[3] = AfterOrder(t[1], t[2])}

\* A call leaves a label.
LEMMA AfterOrderType ==
  ASSUME NEW q \in Labels, NEW g \in Orders
  PROVE  AfterOrder(q, g) \in Labels
<1>1. CASE \E s \in Labels : g = <<"label", s>>
  BY <1>1 DEF AfterOrder
<1>2. CASE \E x \in {"hide", "show", "picture", "paint", "config"} : g = <<x, "">>
  <2>1. PICK x \in {"hide", "show", "picture", "paint", "config"} : g = <<x, "">>
    BY <1>2
  <2>2. g[1] = x /\ x # "label"
    BY <2>1
  <2> QED
    BY <2>2 DEF AfterOrder
<1> QED
  BY <1>1, <1>2 DEF Orders

\* Their transitions.
LEMMA InShows ==
  ASSUME NEW q, NEW g, NEW r
  PROVE  <<q, g, r>> \in Shows <=> q \in Watch /\ g \in News /\ r = AfterNews(q, g)
<1>1. PICK t : t = <<q, g, r>>
  OBVIOUS
<1>2. q \in Watch => AfterNews(q, g) \in Watch
  BY DEF AfterNews, Watch
<1>3. t \in Watch \X News \X Watch <=> q \in Watch /\ g \in News /\ r \in Watch
  BY <1>1
<1>4. t[1] = q /\ t[2] = g /\ t[3] = r
  BY <1>1
<1> QED
  BY <1>1, <1>2, <1>3, <1>4 DEF Shows

\* Those of the other.
LEMMA InTells ==
  ASSUME NEW q, NEW g, NEW r
  PROVE  <<q, g, r>> \in Tells <=> q \in Labels /\ g \in Orders /\ r = AfterOrder(q, g)
<1>1. PICK t : t = <<q, g, r>>
  OBVIOUS
<1>2. ASSUME q \in Labels, g \in Orders PROVE AfterOrder(q, g) \in Labels
  BY <1>2, AfterOrderType
<1>3. t \in Labels \X Orders \X Labels <=> q \in Labels /\ g \in Orders /\ r \in Labels
  BY <1>1
<1>4. t[1] = q /\ t[2] = g /\ t[3] = r
  BY <1>1
<1> QED
  BY <1>1, <1>2, <1>3, <1>4 DEF Tells

\* They end where they may.
LEMMA LeadsWithin ==
  ASSUME NEW T, NEW Q, NEW a, NEW b, NEW s, IsSeq(s), Leads(T, Q, a, s, b)
  PROVE  a \in Q /\ b \in Q
<1>1. Len(s) \in Nat
  BY DEF IsSeq
<1>2. 0 \in 0..Len(s) /\ Len(s) \in 0..Len(s)
  BY <1>1
<1> QED
  BY <1>2 DEF Leads

\* News more.
LEMMA ShowsOn ==
  ASSUME NEW a, NEW x, NEW s, IsSeq(s), Leads(Shows, Watch, a, s, x), NEW m, Gist(m) \in News
  PROVE  Leads(Shows, Watch, a, Append(s, m), AfterNews(x, Gist(m)))
<1>1. x \in Watch
  BY LeadsWithin
<1>2. PICK r : r = AfterNews(x, Gist(m))
  OBVIOUS
<1>3. r \in Watch
  BY <1>1, <1>2 DEF AfterNews, Watch
<1>4. <<x, Gist(m), r>> \in Shows
  BY <1>1, <1>2, InShows
<1> QED
  BY <1>2, <1>3, <1>4, LeadsOn

\* A call more.
LEMMA TellsOn ==
  ASSUME NEW a, NEW x, NEW s, IsSeq(s), Leads(Tells, Labels, a, s, x), NEW m, Gist(m) \in Orders
  PROVE  Leads(Tells, Labels, a, Append(s, m), AfterOrder(x, Gist(m)))
<1>1. x \in Labels
  BY LeadsWithin
<1>2. PICK r : r = AfterOrder(x, Gist(m))
  OBVIOUS
<1>3. r \in Labels
  BY <1>1, <1>2, AfterOrderType
<1>4. <<x, Gist(m), r>> \in Tells
  BY <1>1, <1>2, InTells
<1> QED
  BY <1>2, <1>3, <1>4, LeadsOn

-----------------------------------------------------------------------------
(* The label tells the stream.                                             *)

Ending == Holds(inbox, <<"shutdown">>)

Showing == IF label = "STREAMING" THEN "streaming" ELSE "other"
Shown(x) == Leads(Shows, Watch, Showing, screenIn, x)
Matches(x) ==
  /\ x = "streaming" => videoState = "PLAYING"
  /\ videoState = "PLAYING" /\ ~ Ending => x = "streaming"

LabelInv ==
  kind = "video" =>
    /\ IsSeq(screenIn) /\ IsSeq(calls)
    /\ Leads(Tells, Labels, text, calls, label)
    /\ \E x \in Watch : Shown(x) /\ Matches(x)

\* The end that was announced is announced until it is heard.
LEMMA EndingStays ==
  ASSUME IsSeq(inbox), Sent, Ending
  PROVE  Ending'
<1>1. PICK s, t, e : s = inbox /\ t = inbox' /\ e = <<"shutdown">>
  OBVIOUS
<1>2. IsSeq(s) /\ Holds(s, e)
  BY <1>1 DEF Ending
<1>3. ASSUME NEW r, IsSeq(r), Holds(r, e), NEW m, NEW a, a = Append(r, m)
      PROVE  IsSeq(a) /\ Holds(a, e)
  <2>1. PICK i \in DOMAIN r : r[i] = e
    BY <1>3 DEF Holds
  <2>2. Len(r) \in Nat /\ Len(a) = Len(r) + 1 /\ DOMAIN r = 1..Len(r) /\ DOMAIN a = 1..Len(a)
    BY <1>3, Appended
  <2>3. \A j \in 1..Len(r) : a[j] = r[j]
    BY <1>3, Appended
  <2>4. i \in DOMAIN a /\ a[i] = e
    BY <2>1, <2>2, <2>3
  <2> QED
    BY <1>3, <2>4, Appended DEF Holds
<1>4. t = s \/ (\E m : t = Append(s, m)) \/ (\E m, n : t = Append(Append(s, m), n))
  BY <1>1 DEF Sent, Untouched, Told, Closing, Says
<1>5. Holds(t, e)
  BY <1>2, <1>3, <1>4
<1> QED
  BY <1>1, <1>5 DEF Ending, Holds

\* Hearing something else does not change it.
LEMMA StillEnding ==
  ASSUME IsSeq(inbox), Taken, Head(inbox) # <<"shutdown">>, Ending
  PROVE  Ending'
<1>1. PICK s, t, e : s = inbox /\ t = inbox' /\ e = <<"shutdown">>
  OBVIOUS
<1>2. IsSeq(s) /\ s # <<>> /\ t = Tail(s) /\ Head(s) # e
  BY <1>1 DEF Taken
<1>3. PICK i \in DOMAIN s : s[i] = e
  BY <1>1 DEF Ending, Holds
<1>4. Len(s) \in Nat \ {0} /\ Len(t) = Len(s) - 1 /\ DOMAIN s = 1..Len(s) /\ DOMAIN t = 1..Len(t)
  BY <1>2, Shortened
<1>5. Head(s) = s[1] /\ \A j \in 1..Len(t) : t[j] = s[j + 1]
  BY <1>2, Shortened
<1>6. i - 1 \in DOMAIN t /\ (i - 1) + 1 = i
  BY <1>2, <1>3, <1>4, <1>5
<1>7. t[i - 1] = e
  BY <1>3, <1>4, <1>5, <1>6
<1> QED
  BY <1>1, <1>6, <1>7 DEF Ending, Holds

\* What the window hears of the stream, while it does not take the news.
LEMMA ScreenTold ==
  ASSUME IsSeq(screenIn), label' = label, NEW x, Shown(x)
  PROVE  /\ screenIn' = screenIn => Shown(x)' /\ IsSeq(screenIn')
         /\ \A m : screenIn' = Append(screenIn, m) /\ Gist(m) \in News
                   => Shown(AfterNews(x, Gist(m)))' /\ IsSeq(screenIn')
<1>1. PICK a, s : a = Showing /\ s = screenIn
  OBVIOUS
<1>2. Showing' = a
  BY <1>1 DEF Showing
<1>3. IsSeq(s) /\ Leads(Shows, Watch, a, s, x)
  BY <1>1 DEF Shown
<1>4. screenIn' = screenIn => Shown(x)' /\ IsSeq(screenIn')
  BY <1>1, <1>2, <1>3 DEF Shown
<1>5. ASSUME NEW m, screenIn' = Append(screenIn, m), Gist(m) \in News
      PROVE  Shown(AfterNews(x, Gist(m)))' /\ IsSeq(screenIn')
  <2>1. Leads(Shows, Watch, a, Append(s, m), AfterNews(x, Gist(m))) /\ IsSeq(Append(s, m))
    BY <1>3, <1>5, ShowsOn, Appended
  <2> QED
    BY <1>1, <1>2, <1>5, <2>1 DEF Shown, AfterNews
<1> QED
  BY <1>4, <1>5

\* What one message says: a state of the stream, or a picture.
LEMMA StateGist ==
  ASSUME NEW s \in VideoStates, NEW m, m = <<"state", s>>, NEW q
  PROVE  /\ Gist(m) = <<"state", s>> /\ Gist(m) \in News
         /\ AfterNews(q, Gist(m)) = IF s = "PLAYING" THEN "streaming"
                                    ELSE IF s \in OverStates THEN "other" ELSE q
<1>1. Gist(m) = <<"state", s>>
  BY DEF Gist
<1>2. <<"state", s>> \in News
  BY DEF News
<1>3. /\ <<"state", s>> = <<"state", "PLAYING">> <=> s = "PLAYING"
      /\ <<"state", s>> \in Over <=> s \in OverStates
  BY DEF Over, OverStates
<1> QED
  BY <1>1, <1>2, <1>3 DEF AfterNews

\* A picture says nothing of the state.
LEMMA PictureGist ==
  ASSUME NEW n, NEW m, m = <<"picture", n>>, NEW q
  PROVE  Gist(m) = <<"picture", "">> /\ Gist(m) \in News /\ AfterNews(q, Gist(m)) = q
<1>1. Gist(m) = <<"picture", "">>
  BY DEF Gist
<1>2. <<"picture", "">> \in News
  BY DEF News
<1>3. <<"picture", "">> # <<"state", "PLAYING">> /\ <<"picture", "">> \notin Over
  BY DEF Over
<1> QED
  BY <1>1, <1>2, <1>3 DEF AfterNews

\* A word says nothing of the state, unless it is the end of the session.
LEMMA WordGist ==
  ASSUME NEW w \in {"shutdown", "active", "paired", "config"}, NEW m, m = <<w>>, NEW q
  PROVE  /\ Gist(m) = <<w, "">> /\ Gist(m) \in News
         /\ AfterNews(q, Gist(m)) = IF w = "shutdown" THEN "other" ELSE q
<1>1. Gist(m) = <<w, "">>
  BY DEF Gist
<1>2. <<w, "">> \in News
  BY DEF News
<1>3. <<w, "">> # <<"state", "PLAYING">> /\ (<<w, "">> \in Over <=> w = "shutdown")
  BY DEF Over
<1> QED
  BY <1>1, <1>2, <1>3 DEF AfterNews

\* The channel takes on a state, and says so when it is another.
LEMMA LabelOnState ==
  ASSUME IsSeq(screenIn), label' = label, NEW x \in Watch, Shown(x), Matches(x),
         NEW t \in VideoStates, SetState(t),
         t \in {"SETUP", "OPEN"} => videoState # "PLAYING", t = "PLAYING" /\ Ending => Ending'
  PROVE  IsSeq(screenIn') /\ \E y \in Watch : Shown(y)' /\ Matches(y)'
<1>1. CASE t = videoState
  <2>1. Shown(x)' /\ IsSeq(screenIn')
    BY <1>1, ScreenTold DEF SetState
  <2>2. Matches(x)'
    BY <1>1 DEF SetState, Matches
  <2> QED
    BY <2>1, <2>2
<1>2. CASE t # videoState
  <2>1. PICK m : m = <<"state", t>>
    OBVIOUS
  <2>2. screenIn' = Append(screenIn, m) /\ videoState' = t
    BY <1>2, <2>1 DEF SetState
  <2>3. Gist(m) = <<"state", t>> /\ Gist(m) \in News
    BY <2>1, StateGist
  <2>4. PICK y : y = AfterNews(x, <<"state", t>>)
    OBVIOUS
  <2>a. y = IF t = "PLAYING" THEN "streaming" ELSE IF t \in OverStates THEN "other" ELSE x
    BY <2>1, <2>3, <2>4, StateGist
  <2>5. Shown(y)' /\ IsSeq(screenIn')
    BY <2>2, <2>3, <2>4, ScreenTold
  <2>6. CASE t = "PLAYING"
    <3>1. y = "streaming"
      BY <2>6, <2>a
    <3> QED
      BY <2>2, <2>5, <2>6, <3>1 DEF Matches, Watch
  <2>7. CASE t \in OverStates
    <3>1. y = "other"
      BY <2>7, <2>a DEF OverStates
    <3> QED
      BY <2>2, <2>5, <2>7, <3>1 DEF Matches, Watch, OverStates
  <2>8. CASE t \in {"SETUP", "OPEN"}
    <3>1. y = x /\ x # "streaming"
      BY <2>8, <2>a DEF Matches, OverStates
    <3> QED
      BY <2>2, <2>5, <2>8, <3>1 DEF Matches, Watch
  <2> QED
    BY <2>6, <2>7, <2>8 DEF VideoStates, OverStates
<1> QED
  BY <1>1, <1>2

\* It says something else, or nothing.
LEMMA LabelOnFrame ==
  ASSUME IsSeq(screenIn), label' = label, NEW x \in Watch, Shown(x), Matches(x), Ending => Ending',
         \/ /\ UNCHANGED videoState
            /\ \/ screenIn' = screenIn \/ screenIn' = Append(screenIn, <<"config">>)
               \/ screenIn' = Append(screenIn, <<"paired">>)
               \/ screenIn' = Append(screenIn, <<"active">>)
               \/ \E n : screenIn' = Append(screenIn, <<"picture", n>>)
         \/ /\ videoState' = "PLAYING"
            /\ \E n : screenIn' = Append(Append(screenIn, <<"state", "PLAYING">>), <<"picture", n>>)
  PROVE  IsSeq(screenIn') /\ \E y \in Watch : Shown(y)' /\ Matches(y)'
<1>1. CASE /\ UNCHANGED videoState
           /\ \/ screenIn' = screenIn
              \/ \E m : screenIn' = Append(screenIn, m) /\ Gist(m) \in News
                        /\ AfterNews(x, Gist(m)) = x
  <2>1. Shown(x)' /\ IsSeq(screenIn')
    BY <1>1, ScreenTold
  <2>2. Matches(x)'
    BY <1>1 DEF Matches
  <2> QED
    BY <2>1, <2>2
<1>2. ASSUME NEW n, videoState' = "PLAYING",
             screenIn' = Append(Append(screenIn, <<"state", "PLAYING">>), <<"picture", n>>)
      PROVE  IsSeq(screenIn') /\ \E y \in Watch : Shown(y)' /\ Matches(y)'
  <2>1. PICK a, s, k, m : a = Showing /\ s = screenIn /\ k = <<"state", "PLAYING">>
                          /\ m = <<"picture", n>>
    OBVIOUS
  <2>2. Gist(k) = <<"state", "PLAYING">> /\ Gist(k) \in News /\ AfterNews(x, Gist(k)) = "streaming"
    <3>1. "PLAYING" \in VideoStates
      BY DEF VideoStates
    <3> QED
      BY <2>1, <3>1, StateGist
  <2>3. Gist(m) = <<"picture", "">> /\ Gist(m) \in News
        /\ AfterNews("streaming", Gist(m)) = "streaming"
    BY <2>1, PictureGist
  <2>4. PICK t : t = Append(s, k)
    OBVIOUS
  <2>5. IsSeq(t) /\ Leads(Shows, Watch, a, t, "streaming")
    BY <2>1, <2>2, <2>4, ShowsOn, Appended DEF Shown
  <2>6. IsSeq(Append(t, m)) /\ Leads(Shows, Watch, a, Append(t, m), "streaming")
    BY <2>3, <2>5, ShowsOn, Appended
  <2>7. screenIn' = Append(t, m) /\ Showing' = a
    BY <1>2, <2>1, <2>4 DEF Showing
  <2>8. Shown("streaming")' /\ IsSeq(screenIn')
    BY <2>6, <2>7 DEF Shown
  <2> QED
    BY <1>2, <2>8 DEF Matches, Watch
<1>3. ASSUME NEW m, \/ m \in {<<"config">>, <<"paired">>, <<"active">>}
                    \/ \E n : m = <<"picture", n>>
      PROVE  Gist(m) \in News /\ AfterNews(x, Gist(m)) = x
  <2>1. CASE \E n : m = <<"picture", n>>
    BY <2>1, PictureGist
  <2>2. ASSUME NEW w \in {"config", "paired", "active"}, m = <<w>>
        PROVE  Gist(m) \in News /\ AfterNews(x, Gist(m)) = x
    BY <2>2, WordGist
  <2> QED
    BY <1>3, <2>1, <2>2
<1> QED
  BY <1>1, <1>2, <1>3

\* The calls and the label are left alone.
LEMMA LabelKept ==
  ASSUME kind = "video", LabelInv, UNCHANGED <<label, text, calls>>,
         IsSeq(screenIn') /\ \E y \in Watch : Shown(y)' /\ Matches(y)'
  PROVE  LabelInv'
<1>1. Leads(Tells, Labels, text, calls, label)' /\ IsSeq(calls)'
  BY DEF LabelInv, IsSeq
<1>2. IsSeq(screenIn)'
  BY DEF IsSeq
<1> QED
  BY <1>1, <1>2 DEF LabelInv

\* The channel takes a message.
LEMMA LabelOnVideo ==
  ASSUME QuietInv, VideoInv, LabelInv, VideoHandles, UNCHANGED screen
  PROVE  LabelInv'
<1>1. kind = "video" /\ Taken /\ IsSeq(inbox) /\ IsSeq(screenIn) /\ UNCHANGED <<label, text, calls>>
  BY OthersTake DEF VideoHandles, QuietInv, OpenFirst, LabelInv, screen
<1>2. PICK x \in Watch : Shown(x) /\ Matches(x)
  BY <1>1 DEF LabelInv
<1>3. Head(inbox) # <<"shutdown">> => (Ending => Ending')
  BY <1>1, StillEnding
<1>4. ASSUME NEW f, ReceiveFrame(f) PROVE Head(inbox) = <<"frame", f>> /\ (Ending => Ending')
  <2>1. Head(inbox) = <<"frame", f>>
    BY <1>4 DEF ReceiveFrame, Receive
  <2> QED
    BY <1>3, <2>1
<1> SUFFICES IsSeq(screenIn') /\ \E y \in Watch : Shown(y)' /\ Matches(y)'
  BY <1>1, LabelKept
<1>5. CASE SetState("IDLE")
  BY <1>1, <1>2, <1>5, LabelOnState DEF VideoStates
<1>6. ASSUME NEW f \in {"setup", "open"}, ReceiveFrame(f) PROVE videoState # "PLAYING"
  <2>1. PICK h \in Stages : Fed(h) /\ VideoFits(h)
    BY <1>1 DEF VideoInv
  <2>2. PICK c \in Stages : <<h, Gist(Head(inbox)), c>> \in Spoken
    BY <1>1, <2>1, FedTaken
  <2>3. <<h, f, c>> \in Dialogue
    BY <1>1, <1>4, <1>6, <2>2, HeardFrame
  <2>4. h = "new"
    BY <1>1, <1>6, <2>3, DialogueOfMedia
  <2> QED
    BY <2>1, <2>4 DEF VideoFits
<1>7. CASE (ReceiveFrame("setup") /\ SetState("SETUP"))
           \/ (ReceiveFrame("open") /\ SetState("OPEN"))
  BY <1>1, <1>2, <1>6, <1>7, LabelOnState DEF VideoStates
<1>8. CASE ReceiveFrame("start") /\ SetState("PLAYING")
  BY <1>1, <1>2, <1>4, <1>8, LabelOnState DEF VideoStates
<1>9. CASE ReceiveFrame("stop") /\ SetState("STOPPED")
  BY <1>1, <1>2, <1>9, LabelOnState DEF VideoStates
<1>10. CASE MediaFrame
  <2>1. CASE PublishFrame
    BY <1>1, <1>2, <1>4, <1>10, <2>1, LabelOnFrame DEF MediaFrame, PublishFrame, video
  <2>2. CASE videoState' = "PLAYING"
             /\ screenIn' = screenIn \o <<<<"state", "PLAYING">>, <<"picture", videoStream>>>>
    <3>1. screenIn' = Append(Append(screenIn, <<"state", "PLAYING">>), <<"picture", videoStream>>)
      <4>1. PICK k, m : k = <<"state", "PLAYING">> /\ m = <<"picture", videoStream>>
        OBVIOUS
      <4>2. screenIn' = screenIn \o <<k, m>>
        BY <2>2, <4>1
      <4>3. screenIn' = Append(Append(screenIn, k), m)
        BY <1>1, <4>2, Joined
      <4> QED
        BY <4>1, <4>3
    <3> QED
      BY <1>1, <1>2, <1>4, <1>10, <2>2, <3>1, LabelOnFrame DEF MediaFrame
  <2> QED
    BY <1>10, <2>1, <2>2 DEF MediaFrame
<1>11. CASE ConfigFrame
  BY <1>1, <1>2, <1>4, <1>11, LabelOnFrame DEF ConfigFrame, video
<1>12. CASE FocusRequest
  BY <1>1, <1>2, <1>4, <1>12, LabelOnFrame DEF FocusRequest, video
<1>13. CASE FrameDropped /\ UNCHANGED video
  <2>1. \E f : Head(inbox) = <<"frame", f>>
    BY <1>13 DEF FrameDropped, Receive
  <2>2. Ending => Ending'
    BY <1>3, <2>1
  <2>3. UNCHANGED <<videoState, screenIn>>
    BY <1>13 DEF FrameDropped, video
  <2> QED
    BY <1>1, <1>2, <2>2, <2>3, LabelOnFrame
<1> QED
  BY <1>5, <1>7, <1>8, <1>9, <1>10, <1>11, <1>12, <1>13 DEF VideoHandles, VideoFrame, VideoReset

\* The feed goes on.
LEMMA LabelOnFeed ==
  ASSUME QuietInv, kind = "video", LabelInv, FeedNext, UNCHANGED pictures
  PROVE  LabelInv'
<1>1. IsSeq(inbox) /\ IsSeq(screenIn) /\ UNCHANGED <<label, text, calls, videoState>>
  BY DEF QuietInv, OpenFirst, LabelInv, pictures, screen, video
<1>2. PICK x \in Watch : Shown(x) /\ Matches(x)
  BY DEF LabelInv
<1>3. Ending => Ending'
  BY <1>1, EndingStays, FeedSends
<1> SUFFICES IsSeq(screenIn') /\ \E y \in Watch : Shown(y)' /\ Matches(y)'
  BY <1>1, LabelKept
<1>4. CASE PhoneSends \/ SessionActive \/ ChannelClosed
  <2>1. screenIn' = screenIn \/ screenIn' = Append(screenIn, <<"active">>)
    BY <1>4 DEF PhoneSends, SessionActive, ChannelClosed
  <2> QED
    BY <1>1, <1>2, <1>3, <2>1, LabelOnFrame
<1>5. CASE SessionEnds
  <2>1. PICK m : m = <<"shutdown">>
    OBVIOUS
  <2>2. screenIn' = Append(screenIn, m) /\ inbox' = Append(inbox, m)
    BY <1>5, <2>1 DEF SessionEnds
  <2>3. Gist(m) \in News /\ AfterNews(x, Gist(m)) = "other"
    BY <2>1, WordGist
  <2>5. Shown("other")' /\ IsSeq(screenIn')
    BY <1>1, <1>2, <2>2, <2>3, ScreenTold
  <2>6. Ending'
    <3>1. PICK a, n : a = inbox' /\ n = Len(a)
      OBVIOUS
    <3>2. n \in DOMAIN a
      BY <1>1, <2>2, <3>1, Appended
    <3>3. a[n] = m
      BY <1>1, <2>2, <3>1, Appended
    <3> QED
      BY <2>1, <3>1, <3>2, <3>3 DEF Ending, Holds
  <2> QED
    BY <2>5, <2>6 DEF Matches, Watch
<1> QED
  BY <1>4, <1>5 DEF FeedNext

\* A session begins.
LEMMA LabelBegins ==
  ASSUME VideoInv, LabelInv, kind = "video", SessionBegins
  PROVE  LabelInv'
<1>1. /\ UNCHANGED <<screenIn, label, text, calls>> /\ videoState' = "IDLE" /\ phase = "none"
      /\ IsSeq(screenIn)
  BY DEF SessionBegins, ChannelOpened, VideoStarts, LabelInv
<1>2. PICK x \in Watch : Shown(x) /\ Matches(x)
  BY DEF LabelInv
<1>3. x = "other"
  BY <1>1, <1>2 DEF VideoInv, Finished, Matches, Watch
<1>4. Shown(x)' /\ IsSeq(screenIn')
  BY <1>1, <1>2, ScreenTold
<1>5. Matches(x)'
  BY <1>1, <1>3 DEF Matches
<1> QED
  BY <1>1, <1>4, <1>5, LabelKept

\* Calls that are put together.
LEMMA Strung ==
  ASSUME NEW s, IsSeq(s), NEW x, NEW y
  PROVE  /\ s \o (<<x>> \o <<>>) = Append(s, x)
         /\ s \o (<<>> \o <<x>>) = Append(s, x)
         /\ s \o (<<x>> \o <<y>>) = Append(Append(s, x), y)
<1>1. IsSeq(<<x>>) /\ IsSeq(<<>>)
  <2>1. <<x>> \in Seq({x}) /\ <<>> \in Seq({x})
    OBVIOUS
  <2> QED
    BY <2>1 DEF IsSeq
<1>2. <<x>> \o <<>> = <<x>>
  BY <1>1, Joined
<1>3. <<>> \o <<x>> = <<x>>
  <2>1. <<>> \o <<x>> = Append(<<>>, x)
    BY <1>1, Joined
  <2> QED
    BY <2>1
<1>4. <<x>> \o <<y>> = <<x, y>>
  BY Pair
<1> QED
  BY <1>2, <1>3, <1>4, Joined

\* What the calls say.
LEMMA Calls ==
  ASSUME NEW m,
         m \in {<<"hide">>, <<"show">>, <<"config">>}
         \/ \E n : m = <<"picture", n>> \/ m = <<"paint", n>>
  PROVE  Gist(m) \in Orders /\ \A q : AfterOrder(q, Gist(m)) = q
<1>1. PICK w : w \in {"hide", "show", "picture", "paint", "config"} /\ m[1] = w
  BY SMT
<1>2. PICK g : g = Gist(m)
  OBVIOUS
<1>3. g = <<w, "">> /\ g[1] = w /\ w # "label"
  BY <1>1, <1>2 DEF Gist
<1>4. <<w, "">> \in Orders
  BY <1>1 DEF Orders
<1> QED
  BY <1>2, <1>3, <1>4 DEF AfterOrder

\* A change of the label.
LEMMA LabelCall ==
  ASSUME NEW s \in Labels, NEW m, m = <<"label", s>>
  PROVE  Gist(m) \in Orders /\ \A q : AfterOrder(q, Gist(m)) = s
<1>1. Gist(m) = <<"label", s>>
  BY DEF Gist
<1>2. <<"label", s>> \in Orders
  BY DEF Orders
<1> QED
  BY <1>1, <1>2 DEF AfterOrder

\* The calls, when some are queued and none is made.
LEMMA CallsQueued ==
  ASSUME IsSeq(calls), Leads(Tells, Labels, text, calls, label), text' = text,
         NEW m, NEW n, Gist(n) \in Orders,
         \/ calls' = calls /\ label' = label
         \/ /\ Gist(m) \in Orders
            /\ label' = AfterOrder(label, Gist(m)) /\ calls' = Append(calls, m)
         \/ /\ Gist(m) \in Orders /\ AfterOrder(label', Gist(n)) = label'
            /\ label' = AfterOrder(label, Gist(m)) /\ calls' = Append(Append(calls, m), n)
  PROVE  IsSeq(calls') /\ Leads(Tells, Labels, text, calls, label)'
<1>1. PICK s, t : s = calls /\ t = calls'
  OBVIOUS
<1>2. IsSeq(s) /\ Leads(Tells, Labels, text, s, label)
  BY <1>1
<1> SUFFICES IsSeq(t) /\ Leads(Tells, Labels, text, t, label')
  BY <1>1
<1>3. CASE t = s /\ label' = label
  BY <1>2, <1>3
<1>4. PICK r : r = Append(s, m)
  OBVIOUS
<1>5. Gist(m) \in Orders => IsSeq(r) /\ Leads(Tells, Labels, text, r, AfterOrder(label, Gist(m)))
  BY <1>2, <1>4, TellsOn, Appended
<1>6. CASE Gist(m) \in Orders /\ t = r /\ label' = AfterOrder(label, Gist(m))
  BY <1>5, <1>6
<1>7. CASE /\ Gist(m) \in Orders /\ label' = AfterOrder(label, Gist(m))
           /\ AfterOrder(label', Gist(n)) = label' /\ t = Append(r, n)
  BY <1>5, <1>7, TellsOn, Appended
<1> QED
  BY <1>1, <1>3, <1>4, <1>6, <1>7

\* The window takes the news: the label follows the automaton.
LEMMA NewsTaken ==
  ASSUME IsSeq(screenIn), NEW x, Shown(x), NEW m, Takes(m)
  PROVE  /\ IsSeq(screenIn') /\ Gist(m) \in News
         /\ Showing' = AfterNews(Showing, Gist(m)) => Shown(x)'
<1>1. PICK a, b, s, t : a = Showing /\ b = Showing' /\ s = screenIn /\ t = screenIn'
  OBVIOUS
<1>2. IsSeq(s) /\ s # <<>> /\ Head(s) = m /\ t = Tail(s) /\ Leads(Shows, Watch, a, s, x)
  BY <1>1 DEF Takes, Shown
<1>3. PICK c \in Watch : <<a, Gist(m), c>> \in Shows /\ Leads(Shows, Watch, c, t, x)
  BY <1>2, LeadsFrom
<1>4. Gist(m) \in News /\ c = AfterNews(a, Gist(m))
  BY <1>3, InShows
<1>5. IsSeq(t)
  BY <1>2, Shortened
<1>6. b = c => Shown(x)'
  BY <1>1, <1>3 DEF Shown
<1> QED
  BY <1>1, <1>4, <1>5, <1>6

\* The window takes the news, and queues the calls that follow from it.
LEMMA LabelOnNews ==
  ASSUME kind = "video", LabelInv, UNCHANGED <<text, videoState, inbox>>, NEW m, Takes(m),
         Showing' = AfterNews(Showing, Gist(m)),
         IsSeq(calls') /\ Leads(Tells, Labels, text, calls, label)'
  PROVE  LabelInv'
<1>1. PICK x \in Watch : Shown(x) /\ Matches(x)
  BY DEF LabelInv
<1>2. Shown(x)' /\ IsSeq(screenIn')
  BY <1>1, NewsTaken DEF LabelInv
<1>3. Matches(x)'
  BY <1>1 DEF Matches, Ending, Holds
<1>4. IsSeq(calls)' /\ IsSeq(screenIn)'
  BY <1>2 DEF IsSeq
<1> QED
  BY <1>2, <1>3, <1>4 DEF LabelInv

\* The label changes, and other calls may follow.
LEMMA LabelChanges ==
  ASSUME LabelInv, kind = "video", UNCHANGED text, NEW s \in Labels,
         SetConnState(s, <<>>) \/ SetConnState(s, Hide)
  PROVE  label' = s /\ IsSeq(calls') /\ Leads(Tells, Labels, text, calls, label)'
<1>1. IsSeq(calls) /\ Leads(Tells, Labels, text, calls, label)
  BY DEF LabelInv
<1>2. PICK m, n : m = <<"label", s>> /\ n = <<"hide">>
  OBVIOUS
<1>3. Gist(m) \in Orders /\ \A q : AfterOrder(q, Gist(m)) = s
  BY <1>2, LabelCall
<1>4. Gist(n) \in Orders /\ \A q : AfterOrder(q, Gist(n)) = q
  BY <1>2, Calls
<1>5. label' = s
  BY DEF SetConnState
<1>6. calls' = calls \o (<<m>> \o <<>>) \/ calls' = calls \o (<<m>> \o <<n>>)
  BY <1>2 DEF SetConnState, Invoke, Hide
<1>7. calls' = Append(calls, m) \/ calls' = Append(Append(calls, m), n)
  <2>1. calls \o (<<m>> \o <<>>) = Append(calls, m)
    BY <1>1, Strung
  <2>2. calls \o (<<m>> \o <<n>>) = Append(Append(calls, m), n)
    BY <1>1, Strung
  <2> QED
    BY <1>6, <2>1, <2>2
<1> QED
  BY <1>1, <1>3, <1>4, <1>5, <1>7, CallsQueued

\* It does not change.
LEMMA LabelRests ==
  ASSUME LabelInv, kind = "video", UNCHANGED <<text, label>>,
         \/ calls' = calls
         \/ \E m : Invoke(<<m>>) /\ (m \in {<<"hide">>, <<"show">>, <<"config">>}
                                   \/ \E n : m = <<"picture", n>> \/ m = <<"paint", n>>)
  PROVE  IsSeq(calls') /\ Leads(Tells, Labels, text, calls, label)'
<1>1. IsSeq(calls) /\ Leads(Tells, Labels, text, calls, label)
  BY DEF LabelInv
<1>2. CASE calls' = calls
  BY <1>1, <1>2
<1>3. ASSUME NEW m, Invoke(<<m>>),
             m \in {<<"hide">>, <<"show">>, <<"config">>}
             \/ \E n : m = <<"picture", n>> \/ m = <<"paint", n>>
      PROVE  IsSeq(calls') /\ Leads(Tells, Labels, text, calls, label)'
  <2>1. Gist(m) \in Orders /\ \A q : AfterOrder(q, Gist(m)) = q
    BY <1>3, Calls
  <2>2. calls' = Append(calls, m)
    BY <1>1, <1>3, Joined DEF Invoke
  <2> QED
    BY <1>1, <2>1, <2>2, CallsQueued
<1> QED
  BY <1>2, <1>3

\* The bus thread.
LEMMA LabelOnBus ==
  ASSUME kind = "video", LabelInv, ScreenBusThread
  PROVE  LabelInv'
<1>1. UNCHANGED <<text, videoState, inbox>>
  BY DEF ScreenBusThread, video
<1>2. label \in Labels
  BY LeadsWithin DEF LabelInv
<1>3. ASSUME Takes(<<"state", "PLAYING">>), SetConnState("STREAMING", <<>>) PROVE LabelInv'
  <2>1. PICK m : m = <<"state", "PLAYING">> /\ Takes(m)
    BY <1>3
  <2>2. AfterNews(Showing, Gist(m)) = "streaming"
    <3>1. "PLAYING" \in VideoStates
      BY DEF VideoStates
    <3> QED
      BY <2>1, <3>1, StateGist
  <2>3. label' = "STREAMING" /\ IsSeq(calls') /\ Leads(Tells, Labels, text, calls, label)'
    BY <1>1, <1>3, LabelChanges DEF Labels
  <2> QED
    BY <1>1, <2>1, <2>2, <2>3, LabelOnNews DEF Showing
<1>4. ASSUME NEW s \in OverStates, Takes(<<"state", s>>),
             IF label = "STREAMING" THEN SetConnState("INTERRUPTED", Hide)
                                    ELSE Invoke(Hide) /\ UNCHANGED label
      PROVE  LabelInv'
  <2>1. PICK m : m = <<"state", s>> /\ Takes(m)
    BY <1>4
  <2>2. AfterNews(Showing, Gist(m)) = "other"
    <3>1. s \in VideoStates /\ s # "PLAYING"
      BY DEF VideoStates, OverStates
    <3> QED
      BY <2>1, <3>1, StateGist
  <2>3. label' # "STREAMING" /\ IsSeq(calls') /\ Leads(Tells, Labels, text, calls, label)'
    <3>1. CASE label = "STREAMING"
      BY <1>1, <1>4, <3>1, LabelChanges DEF Labels
    <3>2. CASE label # "STREAMING"
      BY <1>1, <1>4, <3>2, LabelRests DEF Hide
    <3> QED
      BY <3>1, <3>2
  <2> QED
    BY <1>1, <2>1, <2>2, <2>3, LabelOnNews DEF Showing
<1>5. ASSUME NEW m, Takes(m), AfterNews(Showing, Gist(m)) = Showing, UNCHANGED label,
             \/ calls' = calls
             \/ \E k : Invoke(<<k>>) /\ (k \in {<<"hide">>, <<"show">>, <<"config">>}
                                       \/ \E n : k = <<"picture", n>> \/ k = <<"paint", n>>)
      PROVE  LabelInv'
  BY <1>1, <1>5, LabelRests, LabelOnNews DEF Showing
<1>6. ASSUME NEW s \in {"SETUP", "OPEN"}, Takes(<<"state", s>>), UNCHANGED <<label, calls>>
      PROVE  LabelInv'
  <2>1. PICK m : m = <<"state", s>> /\ Takes(m)
    BY <1>6
  <2>2. AfterNews(Showing, Gist(m)) = Showing
    <3>1. s \in VideoStates /\ s # "PLAYING" /\ s \notin OverStates
      BY DEF VideoStates, OverStates
    <3> QED
      BY <2>1, <3>1, StateGist
  <2> QED
    BY <1>5, <1>6, <2>1, <2>2
<1>7. ASSUME NEW w \in {"active", "paired"}, Takes(<<w>>), NEW from, "STREAMING" \notin from,
             ConnectionComes(from)
      PROVE  LabelInv'
  <2>1. PICK m : m = <<w>> /\ Takes(m)
    BY <1>7
  <2>2. AfterNews(Showing, Gist(m)) = Showing
    <3>1. Gist(m) = <<w, "">>
      BY <2>1 DEF Gist
    <3>2. <<w, "">> # <<"state", "PLAYING">> /\ <<w, "">> \notin Over
      BY DEF Over
    <3> QED
      BY <3>1, <3>2 DEF AfterNews
  <2>3. CASE label \in from
    <3>1. label' = "HANDSHAKE" /\ IsSeq(calls') /\ Leads(Tells, Labels, text, calls, label)'
      BY <1>1, <1>7, <2>3, LabelChanges DEF Labels, ConnectionComes
    <3> QED
      BY <1>1, <1>7, <2>1, <2>2, <2>3, <3>1, LabelOnNews DEF Showing
  <2>4. CASE label \notin from
    BY <1>5, <1>7, <2>1, <2>2, <2>4 DEF ConnectionComes
  <2> QED
    BY <2>3, <2>4
<1>8. ASSUME Takes(<<"shutdown">>), SetConnState("WAITING_BT", Hide) PROVE LabelInv'
  <2>1. PICK m : m = <<"shutdown">> /\ Takes(m)
    BY <1>8
  <2>2. AfterNews(Showing, Gist(m)) = "other"
    BY <2>1, WordGist
  <2>3. label' = "WAITING_BT" /\ IsSeq(calls') /\ Leads(Tells, Labels, text, calls, label)'
    BY <1>1, <1>8, LabelChanges DEF Labels
  <2> QED
    BY <1>1, <2>1, <2>2, <2>3, LabelOnNews DEF Showing
<1>9. ASSUME OnVideoFrame PROVE LabelInv'
  <2>1. PICK m : /\ Takes(m) /\ Invoke(<<m>>) /\ UNCHANGED label
                 /\ m = <<"config">> \/ \E n : m = <<"picture", n>>
    BY <1>9 DEF OnVideoFrame
  <2>3. AfterNews(Showing, Gist(m)) = Showing
    <3>1. CASE m = <<"config">>
      BY <3>1, WordGist
    <3>2. CASE \E n : m = <<"picture", n>>
      BY <3>2, PictureGist
    <3> QED
      BY <2>1, <3>1, <3>2
  <2> QED
    BY <1>5, <2>1, <2>3
<1>10. CASE OnVideoState
  BY <1>3, <1>4, <1>6, <1>10 DEF OnVideoState, OverStates
<1>11. CASE OnSession
  BY <1>7, <1>8, <1>11 DEF OnSession
<1> QED
  BY <1>9, <1>10, <1>11 DEF ScreenBusThread

\* The stream, and what the window was told of it, are left alone.
LEMMA StreamRests ==
  ASSUME kind = "video", LabelInv, UNCHANGED <<label, screenIn, videoState, inbox>>,
         IsSeq(calls') /\ Leads(Tells, Labels, text, calls, label)'
  PROVE  LabelInv'
<1>1. IsSeq(screenIn) /\ \E x \in Watch : Shown(x) /\ Matches(x)
  BY DEF LabelInv
<1>2. PICK x \in Watch : Shown(x) /\ Matches(x)
  BY <1>1
<1>3. Shown(x)' /\ IsSeq(screenIn')
  BY <1>1, <1>2, ScreenTold
<1>4. Matches(x)'
  BY <1>2 DEF Matches, Ending, Holds
<1>5. IsSeq(calls)' /\ IsSeq(screenIn)'
  BY <1>3 DEF IsSeq
<1> QED
  BY <1>3, <1>4, <1>5 DEF LabelInv

\* The Qt thread makes a call: the text follows the automaton.
LEMMA CallMade ==
  ASSUME kind = "video", LabelInv, UNCHANGED <<label, screenIn, videoState, inbox>>,
         NEW c, Called(c), text' = AfterOrder(text, Gist(c))
  PROVE  LabelInv'
<1>1. PICK s, t, a : s = calls /\ t = calls' /\ a = text
  OBVIOUS
<1>2. IsSeq(s) /\ s # <<>> /\ Head(s) = c /\ t = Tail(s) /\ Leads(Tells, Labels, a, s, label)
  BY <1>1 DEF Called, LabelInv
<1>3. PICK b \in Labels : <<a, Gist(c), b>> \in Tells /\ Leads(Tells, Labels, b, t, label)
  BY <1>2, LeadsFrom
<1>4. b = text'
  BY <1>1, <1>3, InTells
<1>5. IsSeq(t)
  BY <1>2, Shortened
<1> QED
  BY <1>1, <1>3, <1>4, <1>5, StreamRests

\* The Qt thread.
LEMMA LabelOnQt ==
  ASSUME kind = "video", LabelInv, QtThread
  PROVE  LabelInv'
<1>1. UNCHANGED <<label, screenIn, videoState, inbox>>
  BY DEF QtThread, feed, video
<1>2. ASSUME NEW c, Called(c), text' = text,
             c \in {<<"hide">>, <<"show">>, <<"config">>}
             \/ \E n : c = <<"picture", n>> \/ c = <<"paint", n>>
      PROVE  LabelInv'
  <2>1. AfterOrder(text, Gist(c)) = text
    BY <1>2, Calls
  <2> QED
    BY <1>1, <1>2, <2>1, CallMade
<1>3. ASSUME NEW s \in Labels, Called(<<"label", s>>), text' = s PROVE LabelInv'
  <2>1. PICK c : c = <<"label", s>>
    OBVIOUS
  <2>2. AfterOrder(text, Gist(c)) = s
    BY <2>1, LabelCall
  <2> QED
    BY <1>1, <1>3, <2>1, <2>2, CallMade
<1>4. CASE PushFrame
  <2>1. PICK n : Called(<<"picture", n>>)
    BY <1>4 DEF PushFrame
  <2> QED
    BY <1>2, <1>4, <2>1 DEF PushFrame
<1>5. CASE PaintPicture
  <2>1. PICK n : Called(<<"paint", n>>)
    BY <1>5 DEF PaintPicture
  <2> QED
    BY <1>2, <1>5, <2>1 DEF PaintPicture
<1>6. CASE PushConfig \/ HideVideo \/ ShowVideo
  BY <1>2, <1>6 DEF PushConfig, HideVideo, ShowVideo
<1>7. CASE ShowLabel
  BY <1>3, <1>7 DEF ShowLabel, Labels
<1>8. CASE ShowPlaceholder
  <2>1. UNCHANGED <<text, label, calls>>
    BY <1>1, <1>8 DEF ShowPlaceholder
  <2> QED
    BY <1>1, <2>1, LabelRests, StreamRests
<1> QED
  BY <1>4, <1>5, <1>6, <1>7, <1>8 DEF QtThread

\* The decoder's thread.
LEMMA LabelOnDecoder ==
  ASSUME kind = "video", LabelInv, DecoderThread
  PROVE  LabelInv'
<1>1. UNCHANGED <<label, text, screenIn, videoState, inbox>>
  BY DEF DecoderThread, feed, video
<1>2. IsSeq(calls) /\ Leads(Tells, Labels, text, calls, label)
  BY DEF LabelInv
<1>3. CASE Leak
  BY <1>1, <1>2, <1>3, StreamRests DEF Leak, IsSeq
<1>4. CASE NewSample
  <2>1. PICK m, n : m = <<"show">> /\ n = <<"paint", Head(decoder)>>
    OBVIOUS
  <2>2. /\ Gist(m) \in Orders /\ AfterOrder(label, Gist(m)) = label
        /\ Gist(n) \in Orders /\ AfterOrder(label, Gist(n)) = label
    BY <2>1, Calls
  <2>3. calls' = calls \o (<<>> \o <<n>>) \/ calls' = calls \o (<<m>> \o <<n>>)
    BY <1>4, <2>1 DEF NewSample, Invoke
  <2>4. calls' = Append(calls, n) \/ calls' = Append(Append(calls, m), n)
    BY <1>2, <2>3, Strung
  <2>5. IsSeq(calls') /\ Leads(Tells, Labels, text, calls, label)'
    BY <1>1, <1>2, <2>2, <2>4, CallsQueued
  <2> QED
    BY <1>1, <2>5, StreamRests
<1> QED
  BY <1>3, <1>4 DEF DecoderThread

\* A phone that is paired is news of no stream.
LEMMA LabelOnPairing ==
  ASSUME LabelInv, PairingCompleted
  PROVE  LabelInv'
<1>1. /\ kind = "video" /\ UNCHANGED <<label, text, calls, videoState, inbox>>
      /\ screenIn' = Append(screenIn, <<"paired">>)
  BY DEF PairingCompleted, video
<1>2. IsSeq(screenIn) /\ \E x \in Watch : Shown(x) /\ Matches(x)
  BY <1>1 DEF LabelInv
<1>3. Ending => Ending'
  BY <1>1 DEF Ending, Holds
<1>4. PICK x \in Watch : Shown(x) /\ Matches(x)
  BY <1>2
<1>5. IsSeq(screenIn') /\ \E y \in Watch : Shown(y)' /\ Matches(y)'
  BY <1>1, <1>2, <1>3, <1>4, LabelOnFrame
<1> QED
  BY <1>1, <1>5, LabelKept

\* Every step.
LEMMA LabelStays ==
  ASSUME QuietInv, VideoInv, LabelInv, [Next]_vars
  PROVE  LabelInv'
<1>1. CASE kind # "video" /\ ~ SessionBegins
  <2>1. kind' = kind
    BY <1>1, Steps, AudioTakes, MicTakes, OthersTake
       DEF Aside, PlayerDies, feed, Taken, Untouched, kind
  <2> QED
    BY <1>1, <2>1 DEF LabelInv
<1>2. CASE kind # "video" /\ SessionBegins
  BY <1>2 DEF SessionBegins, ChannelOpened, LabelInv, kind
<1>3. CASE kind = "video" /\ NoPicture
  <2>1. UNCHANGED <<label, text, calls, screenIn, videoState, inbox>>
    BY <1>3 DEF NoPicture, feed, video, screen
  <2> QED
    BY <1>3, <2>1, LabelRests, StreamRests
<1> QED
  BY <1>1, <1>2, <1>3, VideoSteps, LabelBegins, LabelOnFeed, LabelOnVideo, LabelOnPairing,
     LabelOnBus, LabelOnQt, LabelOnDecoder

\* Before the first session the driver is told to pair a phone.
LEMMA LabelAtFirst ==
  ASSUME Init
  PROVE  LabelInv
<1>1. /\ screenIn = <<>> /\ calls = <<>> /\ text = "WAITING_BT" /\ label = "WAITING_BT"
      /\ videoState = "IDLE"
  BY DEF Init, FeedInit, VideoInit, ScreenInit
<1>2. IsSeq(<<>>)
  BY EmptySeq DEF IsSeq
<1>3. Leads(Tells, Labels, text, calls, label)
  BY <1>1, NothingLeads DEF Labels
<1>4. Shown("other") /\ Matches("other") /\ "other" \in Watch
  BY <1>1, NothingLeads DEF Shown, Showing, Watch, Matches
<1> QED
  BY <1>1, <1>2, <1>3, <1>4 DEF LabelInv

\* Once everything that was said has been heard, the state shown to the driver
\* is that of the stream: whether the phone plays, stops, closes the channel or
\* ends the session, and whatever pairing and pictures come in between.
THEOREM LabelTellsTheStreamCorrect == Spec => []LabelTellsTheStream
<1>1. Init => QuietInv /\ VideoInv /\ LabelInv
  BY QuietAtFirst, VideoAtFirst, LabelAtFirst
<1>2. QuietInv /\ VideoInv /\ LabelInv /\ [Next]_vars => (QuietInv /\ VideoInv /\ LabelInv)'
  BY QuietStays, VideoStays, LabelStays
<1>3. ASSUME LabelInv, kind = "video", Settled PROVE text = "STREAMING" <=> videoState = "PLAYING"
  <2>1. inbox = <<>> /\ screenIn = <<>> /\ calls = <<>>
    BY <1>3 DEF Settled, Drained
  <2>2. text = label
    BY <1>3, <2>1, NothingLeads DEF LabelInv
  <2>3. PICK x \in Watch : Shown(x) /\ Matches(x)
    BY <1>3 DEF LabelInv
  <2>4. x = Showing
    BY <2>1, <2>3, NothingLeads DEF Shown
  <2>5. ~ Ending
    BY <2>1, EmptySeq DEF Ending, Holds
  <2> QED
    BY <2>2, <2>3, <2>4, <2>5 DEF Matches, Showing
<1>4. LabelInv => LabelTellsTheStream
  BY <1>3 DEF LabelTellsTheStream
<1> QED
  BY <1>1, <1>2, <1>4, PTL DEF Spec

-----------------------------------------------------------------------------
(* Pictures are shown.                                                     *)

\* What hides the video: a call, and the news it comes from.
Hider(m) == m \in {<<"hide">>, <<"shutdown">>, <<"state", "IDLE">>, <<"state", "STOPPED">>}
Hidden(s) == \E i \in DOMAIN s : Hider(s[i])
HiddenAfter(s, m) == \E i, j \in DOMAIN s : i < j /\ s[i] = m /\ Hider(s[j])

\* A picture of the n-th stream is with the renderer, or anywhere on its way.
Painted(n) == Holds(calls, <<"paint", n>>) \/ seen = n
Somewhere(n) ==
  \/ Holds(screenIn, <<"picture", n>>) \/ Holds(calls, <<"picture", n>>)
  \/ Holds(decoder, n) \/ Painted(n)

\* What hides the video is heard before the pictures of the stream that plays.
LastWord ==
  /\ ~ HiddenAfter(screenIn, <<"picture", videoStream>>)
  /\ Holds(calls, <<"picture", videoStream>>) =>
       ~ Hidden(screenIn) /\ ~ HiddenAfter(calls, <<"picture", videoStream>>)
  /\ Holds(decoder, videoStream) \/ Painted(videoStream) =>
       ~ Hidden(screenIn) /\ ~ Hidden(calls)
  /\ Painted(videoStream) => firstShown

\* Streams are numbered, and one that is over has a number of the past.
Numbered ==
  /\ videoStream \in Nat
  /\ \A n \in Nat : n > videoStream => ~ Somewhere(n)
  /\ Somewhere(videoStream) => videoState \notin OverStates

\* The page is that of the last call about it; without a pipeline there is no
\* picture.
PageFits ==
  /\ firstShown /\ ~ Hidden(calls) =>
       Holds(calls, <<"show">>) \/ (~ hiding /\ page = VideoPage)
  /\ VideoPage = 0 => decoder = <<>> /\ \A n \in Nat : ~ Painted(n)

PictureInv ==
  kind = "video" =>
    IsSeq(screenIn) /\ IsSeq(calls) /\ IsSeq(decoder) /\ Numbered /\ PageFits
    /\ (~ Ending => LastWord)

\* One message more.
LEMMA MoreSaid ==
  ASSUME NEW s, IsSeq(s), NEW m, NEW a, a = Append(s, m)
  PROVE  /\ IsSeq(a)
         /\ \A x : Holds(a, x) <=> Holds(s, x) \/ m = x
         /\ Hidden(a) <=> Hidden(s) \/ Hider(m)
         /\ \A x : HiddenAfter(a, x) <=> HiddenAfter(s, x) \/ (Holds(s, x) /\ Hider(m))
<1>1. IsSeq(a)
  BY Appended
<1>2. /\ Len(s) \in Nat /\ Len(a) = Len(s) + 1 /\ DOMAIN s = 1..Len(s) /\ DOMAIN a = 1..Len(a)
  BY Appended
<1>3. a[Len(a)] = m /\ \A i \in 1..Len(s) : a[i] = s[i]
  BY Appended
<1>4. PICK n \in Nat : n = Len(s) /\ DOMAIN s = 1..n /\ DOMAIN a = 1..(n + 1) /\ a[n + 1] = m
  BY <1>2, <1>3
<1>5. \A i \in 1..n : a[i] = s[i]
  BY <1>3, <1>4
<1>6. ASSUME NEW x PROVE Holds(a, x) <=> Holds(s, x) \/ m = x
  BY <1>4, <1>5 DEF Holds
<1>7. Hidden(a) <=> Hidden(s) \/ Hider(m)
  <2> HIDE DEF Hider
  <2> QED
    BY <1>4, <1>5 DEF Hidden
<1>8. ASSUME NEW x PROVE HiddenAfter(a, x) <=> HiddenAfter(s, x) \/ (Holds(s, x) /\ Hider(m))
  <2>1. ASSUME HiddenAfter(a, x) PROVE HiddenAfter(s, x) \/ (Holds(s, x) /\ Hider(m))
    <3>1. PICK i, j \in 1..(n + 1) : i < j /\ a[i] = x /\ Hider(a[j])
      BY <1>4, <2>1 DEF HiddenAfter
    <3>2. i \in 1..n /\ s[i] = x
      BY <1>4, <1>5, <3>1
    <3>3. CASE j = n + 1
      BY <1>4, <3>1, <3>2, <3>3 DEF Holds
    <3>4. CASE j # n + 1
      <4>1. j \in 1..n /\ s[j] = a[j]
        BY <1>4, <1>5, <3>4
      <4> QED
        BY <1>4, <3>1, <3>2, <4>1 DEF HiddenAfter
    <3> QED
      BY <3>3, <3>4
  <2>2. ASSUME HiddenAfter(s, x) PROVE HiddenAfter(a, x)
    <3>1. PICK i, j \in 1..n : i < j /\ s[i] = x /\ Hider(s[j])
      BY <1>4, <2>2 DEF HiddenAfter
    <3> QED
      BY <1>4, <1>5, <3>1 DEF HiddenAfter
  <2>3. ASSUME Holds(s, x), Hider(m) PROVE HiddenAfter(a, x)
    <3>1. PICK i \in 1..n : s[i] = x
      BY <1>4, <2>3 DEF Holds
    <3>2. i \in 1..(n + 1) /\ n + 1 \in 1..(n + 1) /\ i < n + 1 /\ a[i] = x /\ Hider(a[n + 1])
      BY <1>4, <1>5, <2>3, <3>1
    <3> QED
      BY <1>4, <3>2 DEF HiddenAfter
  <2> QED
    BY <2>1, <2>2, <2>3
<1> QED
  BY <1>1, <1>6, <1>7, <1>8

\* One message less.
LEMMA LessSaid ==
  ASSUME NEW s, IsSeq(s), s # <<>>, NEW t, t = Tail(s), NEW h, h = Head(s)
  PROVE  /\ IsSeq(t)
         /\ \A x : Holds(s, x) <=> h = x \/ Holds(t, x)
         /\ Hidden(s) <=> Hider(h) \/ Hidden(t)
         /\ \A x : HiddenAfter(s, x) <=> (h = x /\ Hidden(t)) \/ HiddenAfter(t, x)
<1>1. IsSeq(t)
  BY Shortened
<1>2. Len(s) \in Nat \ {0} /\ Len(t) = Len(s) - 1 /\ DOMAIN s = 1..Len(s) /\ DOMAIN t = 1..Len(t)
  BY Shortened
<1>3. h = s[1] /\ \A i \in 1..Len(t) : t[i] = s[i + 1]
  BY Shortened
<1>4. PICK n \in Nat : n = Len(t) /\ DOMAIN t = 1..n /\ DOMAIN s = 1..(n + 1)
  <2>1. Len(t) \in Nat /\ Len(s) = Len(t) + 1
    BY <1>2
  <2> QED
    BY <1>2, <2>1
<1>5. s[1] = h /\ \A i \in 1..n : t[i] = s[i + 1]
  BY <1>3, <1>4
<1>6. \A i \in 1..(n + 1) : i = 1 \/ (i - 1 \in 1..n /\ s[i] = t[i - 1])
  <2>1. ASSUME NEW i \in 1..(n + 1), i # 1 PROVE i - 1 \in 1..n /\ (i - 1) + 1 = i
    BY <2>1
  <2> QED
    BY <1>5, <2>1
<1>7. ASSUME NEW x PROVE Holds(s, x) <=> h = x \/ Holds(t, x)
  <2>1. ASSUME Holds(s, x) PROVE h = x \/ Holds(t, x)
    <3>1. PICK i \in 1..(n + 1) : s[i] = x
      BY <1>4, <2>1 DEF Holds
    <3>2. CASE i = 1
      BY <1>5, <3>1, <3>2
    <3>3. CASE i # 1
      <4>1. i - 1 \in 1..n /\ t[i - 1] = x
        BY <1>6, <3>1, <3>3
      <4> QED
        BY <1>4, <4>1 DEF Holds
    <3> QED
      BY <3>2, <3>3
  <2>2. ASSUME h = x \/ Holds(t, x) PROVE Holds(s, x)
    <3>1. 1 \in 1..(n + 1) /\ \A i \in 1..n : i + 1 \in 1..(n + 1)
      OBVIOUS
    <3> QED
      BY <1>4, <1>5, <2>2, <3>1 DEF Holds
  <2> QED
    BY <2>1, <2>2
<1>8. Hidden(s) <=> Hider(h) \/ Hidden(t)
  <2>1. ASSUME Hidden(s) PROVE Hider(h) \/ Hidden(t)
    BY <1>4, <1>5, <1>6, <2>1 DEF Hidden
  <2>2. ASSUME Hider(h) \/ Hidden(t) PROVE Hidden(s)
    <3>1. 1 \in 1..(n + 1) /\ \A i \in 1..n : i + 1 \in 1..(n + 1)
      OBVIOUS
    <3> QED
      BY <1>4, <1>5, <2>2, <3>1 DEF Hidden
  <2> QED
    BY <2>1, <2>2
<1>9. ASSUME NEW x PROVE HiddenAfter(s, x) <=> (h = x /\ Hidden(t)) \/ HiddenAfter(t, x)
  <2>1. ASSUME HiddenAfter(s, x) PROVE (h = x /\ Hidden(t)) \/ HiddenAfter(t, x)
    <3>1. PICK i, j \in 1..(n + 1) : i < j /\ s[i] = x /\ Hider(s[j])
      BY <1>4, <2>1 DEF HiddenAfter
    <3>2. j - 1 \in 1..n /\ Hider(t[j - 1])
      BY <1>4, <1>6, <3>1
    <3>3. CASE i = 1
      BY <1>4, <1>5, <3>1, <3>2, <3>3 DEF Hidden
    <3>4. CASE i # 1
      <4>1. i - 1 \in 1..n /\ t[i - 1] = x /\ i - 1 < j - 1
        BY <1>4, <1>6, <3>1, <3>4
      <4> QED
        BY <1>4, <3>2, <4>1 DEF HiddenAfter
    <3> QED
      BY <3>3, <3>4
  <2>2. ASSUME h = x, Hidden(t) PROVE HiddenAfter(s, x)
    <3>1. PICK j \in 1..n : Hider(t[j])
      BY <1>4, <2>2 DEF Hidden
    <3>2. 1 \in 1..(n + 1) /\ j + 1 \in 1..(n + 1) /\ 1 < j + 1 /\ s[1] = x /\ Hider(s[j + 1])
      BY <1>4, <1>5, <2>2, <3>1
    <3> QED
      BY <1>4, <3>2 DEF HiddenAfter
  <2>3. ASSUME HiddenAfter(t, x) PROVE HiddenAfter(s, x)
    <3>1. PICK i, j \in 1..n : i < j /\ t[i] = x /\ Hider(t[j])
      BY <1>4, <2>3 DEF HiddenAfter
    <3>2. /\ i + 1 \in 1..(n + 1) /\ j + 1 \in 1..(n + 1) /\ i + 1 < j + 1
          /\ s[i + 1] = x /\ Hider(s[j + 1])
      BY <1>4, <1>5, <3>1
    <3> QED
      BY <1>4, <3>2 DEF HiddenAfter
  <2> QED
    BY <2>1, <2>2, <2>3
<1> QED
  BY <1>1, <1>7, <1>8, <1>9

\* Hidden is only what was there.
LEMMA HiddenWasThere ==
  ASSUME NEW s, NEW x, HiddenAfter(s, x)
  PROVE  Holds(s, x) /\ Hidden(s)
BY DEF HiddenAfter, Holds, Hidden

\* Nothing was said.
LEMMA NothingSaid ==
  ~ Hidden(<<>>) /\ \A x : ~ Holds(<<>>, x) /\ ~ HiddenAfter(<<>>, x)
BY EmptySeq DEF Hidden, Holds, HiddenAfter

\* The window is told nothing new that hides the video, and no pictures but those
\* of a stream that plays.
LEMMA PicturesTold ==
  ASSUME kind = "video", PictureInv,
         UNCHANGED <<scenario, videoStream, calls, hiding, firstShown, page, decoder, seen>>,
         IsSeq(screenIn'),
         \A n \in Nat : Holds(screenIn', <<"picture", n>>) =>
           Holds(screenIn, <<"picture", n>>) \/ (n = videoStream /\ videoState' \notin OverStates),
         videoState' \in OverStates => videoState \in OverStates,
         ~ Ending' =>
           /\ ~ Ending \/ ~ Somewhere(videoStream)
           /\ Hidden(screenIn') => Hidden(screenIn)
           /\ HiddenAfter(screenIn', <<"picture", videoStream>>) =>
                HiddenAfter(screenIn, <<"picture", videoStream>>)
  PROVE  PictureInv'
<1>1. /\ IsSeq(calls) /\ IsSeq(decoder) /\ Numbered /\ PageFits /\ (~ Ending => LastWord)
      /\ UNCHANGED <<calls, hiding, firstShown, page, decoder, seen, videoStream>>
  BY DEF PictureInv
<1>2. IsSeq(screenIn)' /\ IsSeq(calls)' /\ IsSeq(decoder)'
  BY <1>1 DEF IsSeq
<1>3. PageFits'
  BY <1>1 DEF PageFits, VideoPage, Painted
<1>4. Numbered'
  <2>1. videoStream' = videoStream /\ videoStream \in Nat
    BY <1>1 DEF Numbered
  <2>2. ASSUME NEW n \in Nat, Somewhere(n)'
        PROVE  Somewhere(n) \/ (n = videoStream /\ videoState' \notin OverStates)
    BY <1>1, <2>2 DEF Somewhere, Painted
  <2>3. ASSUME NEW n \in Nat, n > videoStream PROVE ~ Somewhere(n)'
    BY <1>1, <2>1, <2>2, <2>3 DEF Numbered
  <2>4. ASSUME Somewhere(videoStream)' PROVE videoState' \notin OverStates
    <3>1. Somewhere(videoStream) \/ videoState' \notin OverStates
      BY <1>1, <2>1, <2>4 DEF Somewhere, Painted
    <3> QED
      BY <1>1, <3>1 DEF Numbered
  <2> QED
    BY <2>1, <2>3, <2>4 DEF Numbered, OverStates
<1>5. ASSUME ~ Ending' PROVE LastWord'
  <2>1. CASE LastWord
    BY <1>1, <1>5, <2>1 DEF LastWord, Painted
  <2>2. CASE ~ Somewhere(videoStream)
    <3>1. /\ ~ HiddenAfter(screenIn, <<"picture", videoStream>>)
          /\ ~ Holds(calls, <<"picture", videoStream>>)
          /\ ~ Holds(decoder, videoStream) /\ ~ Painted(videoStream)
      BY <2>2, HiddenWasThere DEF Somewhere
    <3> QED
      BY <1>1, <1>5, <3>1 DEF LastWord, Painted
  <2> QED
    BY <1>1, <1>5, <2>1, <2>2
<1> QED
  BY <1>2, <1>3, <1>4, <1>5 DEF PictureInv

\* The stream is over: of the next one there is nothing yet.
LEMMA PicturesOver ==
  ASSUME kind = "video", PictureInv, UNCHANGED <<scenario, screen>>,
         NEW t \in OverStates, t # videoState, SetState(t)
  PROVE  PictureInv'
<1>1. /\ IsSeq(screenIn) /\ IsSeq(calls) /\ IsSeq(decoder) /\ Numbered /\ PageFits
      /\ UNCHANGED <<calls, hiding, firstShown, page, decoder, seen>>
  BY DEF PictureInv, screen
<1>2. PICK m : m = <<"state", t>>
  OBVIOUS
<1>3. screenIn' = Append(screenIn, m) /\ videoStream' = videoStream + 1 /\ videoStream \in Nat
  BY <1>1, <1>2 DEF SetState, OverStates, Numbered
<1>4. IsSeq(screenIn') /\ \A x : Holds(screenIn', x) <=> Holds(screenIn, x) \/ m = x
  BY <1>1, <1>3, MoreSaid
<1>5. ASSUME NEW n \in Nat, n > videoStream PROVE ~ Somewhere(n)'
  <2>1. ~ Somewhere(n)
    BY <1>1, <1>5 DEF Numbered
  <2>2. m # <<"picture", n>>
    BY <1>2
  <2> QED
    BY <1>1, <1>4, <2>1, <2>2 DEF Somewhere, Painted
<1>6. Numbered' /\ ~ Somewhere(videoStream)'
  <2>1. \A n \in Nat : n > videoStream' => n > videoStream
    BY <1>3
  <2>2. ~ Somewhere(videoStream)'
    <3>1. PICK w \in Nat : w = videoStream' /\ w > videoStream
      BY <1>3
    <3>2. ~ Somewhere(w)'
      BY <1>5, <3>1
    <3> QED
      BY <3>1, <3>2 DEF Somewhere, Painted
  <2> QED
    BY <1>3, <1>5, <2>1, <2>2 DEF Numbered
<1>7. PageFits'
  BY <1>1 DEF PageFits, VideoPage, Painted
<1>8. LastWord'
  BY <1>6, HiddenWasThere DEF LastWord, Somewhere
<1> QED
  BY <1>1, <1>4, <1>6, <1>7, <1>8 DEF PictureInv, IsSeq

\* The channel takes on a state.
LEMMA PicturesOfState ==
  ASSUME kind = "video", PictureInv, UNCHANGED <<scenario, screen>>,
         NEW t \in VideoStates, SetState(t),
         t \in OverStates \/ (~ Ending' => ~ Ending)
  PROVE  PictureInv'
<1>1. IsSeq(screenIn) /\ Numbered
  BY DEF PictureInv
<1>2. CASE t \in OverStates /\ t # videoState
  BY <1>2, PicturesOver
<1>3. CASE t = videoState
  <2>1. UNCHANGED <<screenIn, videoState, videoStream>>
    BY <1>3 DEF SetState
  <2>2. t \in OverStates => ~ Somewhere(videoStream)
    BY <1>1, <1>3 DEF Numbered
  <2> QED
    BY <1>1, <2>1, <2>2, PicturesTold DEF IsSeq, screen
<1>4. CASE t \notin OverStates /\ t # videoState
  <2>1. PICK m : m = <<"state", t>>
    OBVIOUS
  <2>2. screenIn' = Append(screenIn, m) /\ UNCHANGED videoStream /\ videoState' = t
    BY <1>4, <2>1 DEF SetState, OverStates
  <2>3. ~ Hider(m) /\ \A n : m # <<"picture", n>>
    BY <1>4, <2>1 DEF Hider, OverStates
  <2> QED
    BY <1>1, <1>4, <2>2, <2>3, MoreSaid, PicturesTold DEF screen
<1> QED
  BY <1>2, <1>3, <1>4

\* It passes a picture on, or something that is none, or nothing.
LEMMA PicturesOnFrame ==
  ASSUME kind = "video", PictureInv,
         UNCHANGED <<scenario, videoStream, calls, hiding, firstShown, page, decoder, seen>>,
         ~ Ending' => ~ Ending,
         \/ /\ UNCHANGED videoState
            /\ \/ screenIn' = screenIn
               \/ \E m \in {<<"config">>, <<"paired">>, <<"active">>} :
                    screenIn' = Append(screenIn, m)
         \/ /\ UNCHANGED videoState /\ videoState \notin OverStates
            /\ screenIn' = Append(screenIn, <<"picture", videoStream>>)
         \/ /\ videoState' = "PLAYING"
            /\ screenIn' = Append(Append(screenIn, <<"state", "PLAYING">>),
                                  <<"picture", videoStream>>)
  PROVE  PictureInv'
<1>1. IsSeq(screenIn)
  BY DEF PictureInv
<1>2. CASE UNCHANGED <<videoState, screenIn>>
  BY <1>1, <1>2, PicturesTold DEF IsSeq
<1>3. CASE UNCHANGED videoState /\ \E m \in {<<"config">>, <<"paired">>, <<"active">>} :
             screenIn' = Append(screenIn, m)
  <2>1. PICK m \in {<<"config">>, <<"paired">>, <<"active">>} : screenIn' = Append(screenIn, m)
    BY <1>3
  <2>2. ~ Hider(m) /\ \A n : m # <<"picture", n>>
    BY DEF Hider
  <2> QED
    BY <1>1, <1>3, <2>1, <2>2, MoreSaid, PicturesTold
<1>4. PICK p : p = <<"picture", videoStream>>
  OBVIOUS
<1>5. ~ Hider(p) /\ \A n : p = <<"picture", n>> => n = videoStream
  BY <1>4 DEF Hider
<1>6. CASE /\ UNCHANGED videoState /\ videoState \notin OverStates
           /\ screenIn' = Append(screenIn, p)
  BY <1>1, <1>5, <1>6, MoreSaid, PicturesTold
<1>7. ASSUME videoState' = "PLAYING",
             screenIn' = Append(Append(screenIn, <<"state", "PLAYING">>), p)
      PROVE  PictureInv'
  <2>1. PICK m, s : m = <<"state", "PLAYING">> /\ s = Append(screenIn, m)
    OBVIOUS
  <2>2. ~ Hider(m) /\ \A n : m # <<"picture", n>>
    BY <2>1 DEF Hider
  <2>3. /\ IsSeq(s) /\ (Hidden(s) <=> Hidden(screenIn))
        /\ \A n : Holds(s, <<"picture", n>>) <=> Holds(screenIn, <<"picture", n>>)
        /\ \A x : HiddenAfter(s, x) => HiddenAfter(screenIn, x)
    <3>1. PICK r : r = screenIn /\ IsSeq(r) /\ s = Append(r, m)
      BY <1>1, <2>1
    <3>2. IsSeq(s)
      BY <3>1, MoreSaid
    <3>3. Hidden(s) <=> Hidden(r) \/ Hider(m)
      BY <3>1, MoreSaid
    <3>4. ASSUME NEW x PROVE Holds(s, x) <=> Holds(r, x) \/ m = x
      BY <3>1, MoreSaid
    <3>5. ASSUME NEW x PROVE HiddenAfter(s, x) <=> HiddenAfter(r, x) \/ (Holds(r, x) /\ Hider(m))
      BY <3>1, MoreSaid
    <3> QED
      BY <2>2, <3>1, <3>2, <3>3, <3>4, <3>5
  <2>4. PICK u : u = screenIn' /\ u = Append(s, p)
    BY <1>7, <2>1
  <2>5. /\ IsSeq(u) /\ (Hidden(u) <=> Hidden(s))
        /\ \A x : Holds(u, x) <=> Holds(s, x) \/ p = x
        /\ \A x : HiddenAfter(u, x) <=> HiddenAfter(s, x)
    BY <1>5, <2>3, <2>4, MoreSaid
  <2>6. videoState' \notin OverStates
    BY <1>7 DEF OverStates
  <2> QED
    BY <1>5, <2>3, <2>4, <2>5, <2>6, PicturesTold
<1> QED
  BY <1>2, <1>3, <1>4, <1>6, <1>7

\* The channel takes a message.
LEMMA PicturesOnVideo ==
  ASSUME QuietInv, PictureInv, scenario' = scenario, VideoHandles, UNCHANGED screen
  PROVE  PictureInv'
<1>1. kind = "video" /\ Taken /\ IsSeq(inbox) /\ IsSeq(screenIn)
  BY OthersTake DEF VideoHandles, QuietInv, OpenFirst, PictureInv
<1>2. Head(inbox) # <<"shutdown">> => (~ Ending' => ~ Ending)
  BY <1>1, StillEnding
<1>3. ASSUME NEW f, ReceiveFrame(f) PROVE ~ Ending' => ~ Ending
  <2>1. Head(inbox) = <<"frame", f>>
    BY <1>3 DEF ReceiveFrame, Receive
  <2> QED
    BY <1>2, <2>1
<1>4. CASE SetState("IDLE")
  BY <1>1, <1>4, PicturesOfState DEF VideoStates, OverStates
<1>5. ASSUME NEW f, ReceiveFrame(f), NEW t \in VideoStates, SetState(t) PROVE PictureInv'
  BY <1>1, <1>3, <1>5, PicturesOfState
<1>6. CASE MediaFrame
  <2>1. CASE videoState \in {"OPEN", "PLAYING"} /\ PublishFrame
    BY <1>1, <1>3, <1>6, <2>1, PicturesOnFrame
       DEF MediaFrame, PublishFrame, video, screen, OverStates
  <2>2. CASE videoState' = "PLAYING" /\ UNCHANGED videoStream
             /\ screenIn' = screenIn \o <<<<"state", "PLAYING">>, <<"picture", videoStream>>>>
    <3>1. screenIn' = Append(Append(screenIn, <<"state", "PLAYING">>), <<"picture", videoStream>>)
      <4>1. PICK k, m : k = <<"state", "PLAYING">> /\ m = <<"picture", videoStream>>
        OBVIOUS
      <4>2. screenIn' = screenIn \o <<k, m>>
        BY <2>2, <4>1
      <4>3. screenIn' = Append(Append(screenIn, k), m)
        BY <1>1, <4>2, Joined
      <4> QED
        BY <4>1, <4>3
    <3> QED
      BY <1>1, <1>3, <1>6, <2>2, <3>1, PicturesOnFrame DEF MediaFrame, screen
  <2> QED
    BY <1>6, <2>1, <2>2 DEF MediaFrame
<1>7. CASE ConfigFrame \/ FocusRequest
  BY <1>1, <1>3, <1>7, PicturesOnFrame
     DEF ConfigFrame, FocusRequest, video, screen
<1>8. CASE FrameDropped /\ UNCHANGED video
  <2>1. \E f : Head(inbox) = <<"frame", f>>
    BY <1>8 DEF FrameDropped, Receive
  <2>2. ~ Ending' => ~ Ending
    BY <1>2, <2>1
  <2>3. UNCHANGED <<videoState, videoStream, screenIn>>
    BY <1>8 DEF FrameDropped, video
  <2> QED
    BY <1>1, <2>2, <2>3, PicturesOnFrame DEF screen
<1> QED
  BY <1>4, <1>5, <1>6, <1>7, <1>8 DEF VideoHandles, VideoFrame, VideoReset, VideoStates

\* The feed goes on.
LEMMA PicturesOnFeed ==
  ASSUME QuietInv, kind = "video", PictureInv, FeedNext, UNCHANGED pictures
  PROVE  PictureInv'
<1>1. IsSeq(inbox) /\ IsSeq(screenIn) /\ UNCHANGED <<scenario, screen, videoState, videoStream>>
  BY DEF QuietInv, OpenFirst, PictureInv, pictures, video, FeedNext, PhoneSends, SessionActive,
         SessionEnds, ChannelClosed
<1>2. ~ Ending' => ~ Ending
  BY <1>1, EndingStays, FeedSends
<1>3. CASE PhoneSends \/ SessionActive \/ ChannelClosed
  <2>1. screenIn' = screenIn \/ screenIn' = Append(screenIn, <<"active">>)
    BY <1>3 DEF PhoneSends, SessionActive, ChannelClosed
  <2> QED
    BY <1>1, <1>2, <2>1, PicturesOnFrame DEF screen
<1>4. CASE SessionEnds
  <2>1. PICK m : m = <<"shutdown">>
    OBVIOUS
  <2>2. screenIn' = Append(screenIn, m) /\ inbox' = Append(inbox, m)
    BY <1>4, <2>1 DEF SessionEnds
  <2>3. \A n : m # <<"picture", n>>
    BY <2>1
  <2>4. IsSeq(screenIn') /\ \A x : Holds(screenIn', x) <=> Holds(screenIn, x) \/ m = x
    BY <1>1, <2>2, MoreSaid
  <2>5. Ending'
    <3>1. Holds(inbox', m)
      BY <1>1, <2>2, MoreSaid
    <3> QED
      BY <2>1, <3>1 DEF Ending
  <2> QED
    BY <1>1, <2>3, <2>4, <2>5, PicturesTold DEF screen
<1> QED
  BY <1>3, <1>4 DEF FeedNext

\* A session begins: that of before has come to its end.
LEMMA PicturesBegin ==
  ASSUME VideoInv, PictureInv, kind = "video", SessionBegins
  PROVE  PictureInv'
<1>1. /\ UNCHANGED <<scenario, screen, videoStream, screenIn>> /\ videoState' = "IDLE"
      /\ phase = "none" /\ IsSeq(screenIn)
  BY DEF SessionBegins, ChannelOpened, VideoStarts, PictureInv, screen
<1>2. inbox = <<>> /\ videoState = "IDLE"
  BY <1>1 DEF VideoInv, Finished
<1>3. ~ Ending
  BY <1>2, NothingSaid DEF Ending
<1> QED
  BY <1>1, <1>2, <1>3, PicturesTold DEF IsSeq, screen

\* A phone is paired.
LEMMA PicturesOnPairing ==
  ASSUME PictureInv, PairingCompleted
  PROVE  PictureInv'
<1>1. /\ kind = "video" /\ screenIn' = Append(screenIn, <<"paired">>)
      /\ UNCHANGED <<scenario, videoState, videoStream, calls, hiding, firstShown, page, decoder,
                     seen, inbox>>
  BY DEF PairingCompleted, video
<1>2. ~ Ending' => ~ Ending
  BY <1>1 DEF Ending, Holds
<1> QED
  BY <1>1, <1>2, PicturesOnFrame

\* The window takes the news, and queues calls that hide no more than they do.
LEMMA PicturesHeard ==
  ASSUME kind = "video", PictureInv, NEW m, Takes(m),
         UNCHANGED <<scenario, videoState, videoStream, hiding, firstShown, page, decoder, seen,
                     inbox>>,
         IsSeq(calls'),
         \A n \in Nat : Holds(calls', <<"picture", n>>) =>
           Holds(calls, <<"picture", n>>) \/ m = <<"picture", n>>,
         \A n \in Nat : Holds(calls', <<"paint", n>>) => Holds(calls, <<"paint", n>>),
         Holds(calls, <<"show">>) => Holds(calls', <<"show">>),
         Hidden(calls) => Hidden(calls'), Hidden(calls') => Hidden(calls) \/ Hider(m),
         \A n \in Nat : HiddenAfter(calls', <<"picture", n>>) =>
           HiddenAfter(calls, <<"picture", n>>) \/ (Holds(calls, <<"picture", n>>) /\ Hider(m))
  PROVE  PictureInv'
<1>1. /\ IsSeq(screenIn) /\ IsSeq(decoder) /\ Numbered /\ PageFits /\ (~ Ending => LastWord)
      /\ videoStream \in Nat
  BY DEF PictureInv, Numbered
<1>2. PICK s, t : s = screenIn /\ t = screenIn'
  OBVIOUS
<1>3. IsSeq(s) /\ s # <<>> /\ t = Tail(s) /\ m = Head(s)
  BY <1>1, <1>2 DEF Takes
<1>4. /\ IsSeq(t) /\ (Hidden(s) <=> Hider(m) \/ Hidden(t))
      /\ \A x : Holds(s, x) <=> m = x \/ Holds(t, x)
  BY <1>3, LessSaid
<1>5. \A x : HiddenAfter(s, x) <=> (m = x /\ Hidden(t)) \/ HiddenAfter(t, x)
  BY <1>3, LessSaid
<1>6. PageFits'
  BY <1>1 DEF PageFits, VideoPage, Painted
<1>7. ASSUME NEW n \in Nat, Somewhere(n)' PROVE Somewhere(n)
  BY <1>2, <1>4, <1>7 DEF Somewhere, Painted
<1>8. Numbered'
  <2>1. Somewhere(videoStream)' => Somewhere(videoStream)
    <3>1. PICK w \in Nat : w = videoStream /\ w = videoStream'
      BY <1>1
    <3>2. Somewhere(w)' => Somewhere(w)
      BY <1>7
    <3> QED
      BY <3>1, <3>2 DEF Somewhere, Painted
  <2> QED
    BY <1>1, <1>7, <2>1 DEF Numbered
<1>9. ASSUME LastWord PROVE LastWord'
  <2>1. PICK V, P : V = videoStream /\ P = <<"picture", V>> /\ V \in Nat
    BY <1>1
  <2>2. ~ HiddenAfter(s, P) /\ ~ Hider(P)
    BY <1>2, <1>9, <2>1 DEF LastWord, Hider
  <2>3. ~ HiddenAfter(t, P)
    BY <1>5, <2>2
  <2>4. Holds(calls, P) => ~ Hidden(s) /\ ~ HiddenAfter(calls, P)
    BY <1>2, <1>9, <2>1 DEF LastWord
  <2>5. ASSUME Holds(calls', P) PROVE ~ Hidden(t) /\ ~ HiddenAfter(calls', P)
    <3>1. Holds(calls, P) \/ m = P
      BY <2>1, <2>5
    <3>2. HiddenAfter(calls', P) => HiddenAfter(calls, P) \/ (Holds(calls, P) /\ Hider(m))
      BY <2>1
    <3>3. CASE Holds(calls, P)
      BY <1>4, <2>4, <3>2, <3>3
    <3>4. CASE ~ Holds(calls, P)
      BY <1>5, <2>2, <3>1, <3>2, <3>4, HiddenWasThere
    <3> QED
      BY <3>3, <3>4
  <2>6. Painted(V)' => Painted(V)
    BY <2>1 DEF Painted
  <2>7. ASSUME Holds(decoder, V) \/ Painted(V) PROVE ~ Hidden(t) /\ ~ Hidden(calls')
    <3>1. ~ Hidden(s) /\ ~ Hidden(calls)
      BY <1>2, <1>9, <2>1, <2>7 DEF LastWord
    <3> QED
      BY <1>4, <3>1
  <2>8. Painted(V) => firstShown
    BY <1>9, <2>1 DEF LastWord
  <2> QED
    BY <1>2, <2>1, <2>3, <2>5, <2>6, <2>7, <2>8 DEF LastWord, Painted
<1>10. Ending' <=> Ending
  BY DEF Ending, Holds
<1> QED
  BY <1>1, <1>2, <1>4, <1>6, <1>8, <1>9, <1>10 DEF PictureInv, IsSeq

\* Those calls are at most a change of the label and one more.
LEMMA PicturesOnNews ==
  ASSUME kind = "video", PictureInv, NEW m, Takes(m),
         UNCHANGED <<scenario, videoState, videoStream, hiding, firstShown, page, decoder, seen,
                     inbox>>,
         NEW c, Hider(c) => Hider(m), \A n : c # <<"paint", n>>,
         \A n : c = <<"picture", n>> => m = c, NEW k, k[1] = "label",
         \/ calls' = calls \/ calls' = Append(calls, c) \/ calls' = Append(calls, k)
         \/ calls' = Append(Append(calls, k), c)
  PROVE  PictureInv'
<1>1. PICK s, a : s = calls /\ a = calls'
  OBVIOUS
<1>2. IsSeq(s)
  BY <1>1 DEF PictureInv
<1>3. ~ Hider(k) /\ k # <<"show">> /\ \A n : k # <<"picture", n>> /\ k # <<"paint", n>>
  BY DEF Hider
<1>4. CASE a = s
  BY <1>1, <1>2, <1>4, PicturesHeard
<1>5. ASSUME a = Append(s, c) PROVE PictureInv'
  <2>1. IsSeq(a) /\ (Hidden(a) <=> Hidden(s) \/ Hider(c))
        /\ \A x : Holds(a, x) <=> Holds(s, x) \/ c = x
    BY <1>2, <1>5, MoreSaid
  <2>2. \A x : HiddenAfter(a, x) <=> HiddenAfter(s, x) \/ (Holds(s, x) /\ Hider(c))
    BY <1>2, <1>5, MoreSaid
  <2> QED
    BY <1>1, <2>1, <2>2, PicturesHeard
<1>6. PICK r : r = Append(s, k)
  OBVIOUS
<1>7. IsSeq(r) /\ (Hidden(r) <=> Hidden(s)) /\ \A x : Holds(r, x) <=> Holds(s, x) \/ k = x
  BY <1>2, <1>3, <1>6, MoreSaid
<1>8. \A x : HiddenAfter(r, x) => HiddenAfter(s, x)
  BY <1>2, <1>3, <1>6, MoreSaid
<1>9. CASE a = r
  BY <1>1, <1>3, <1>7, <1>8, <1>9, PicturesHeard
<1>10. ASSUME a = Append(r, c) PROVE PictureInv'
  <2>1. IsSeq(a) /\ (Hidden(a) <=> Hidden(r) \/ Hider(c))
        /\ \A x : Holds(a, x) <=> Holds(r, x) \/ c = x
    BY <1>7, <1>10, MoreSaid
  <2>2. \A x : HiddenAfter(a, x) <=> HiddenAfter(r, x) \/ (Holds(r, x) /\ Hider(c))
    BY <1>7, <1>10, MoreSaid
  <2>3. \A n : Holds(a, <<"picture", n>>) => Holds(s, <<"picture", n>>) \/ m = <<"picture", n>>
    BY <1>3, <1>7, <2>1
  <2>4. \A n : Holds(a, <<"paint", n>>) => Holds(s, <<"paint", n>>)
    BY <1>3, <1>7, <2>1
  <2>5. \A n : HiddenAfter(a, <<"picture", n>>) =>
          HiddenAfter(s, <<"picture", n>>) \/ (Holds(s, <<"picture", n>>) /\ Hider(m))
    BY <1>3, <1>7, <1>8, <2>2
  <2> QED
    BY <1>1, <1>7, <2>1, <2>3, <2>4, <2>5, PicturesHeard
<1> QED
  BY <1>1, <1>4, <1>5, <1>6, <1>9, <1>10

\* The bus thread.
LEMMA PicturesOnBus ==
  ASSUME kind = "video", LabelInv, PictureInv, ScreenBusThread
  PROVE  PictureInv'
<1>1. /\ IsSeq(calls)
      /\ UNCHANGED <<scenario, videoState, videoStream, hiding, firstShown, page, decoder, seen,
                     inbox>>
  BY DEF ScreenBusThread, video, PictureInv
<1>2. ASSUME NEW m, Takes(m), NEW s, SetConnState(s, <<>>) \/ Invoke(<<>>) \/ UNCHANGED calls
      PROVE  PictureInv'
  <2>1. PICK k, c : k = <<"label", s>> /\ c = <<"config">>
    OBVIOUS
  <2>2. ~ Hider(c) /\ k[1] = "label" /\ (\A n : c # <<"paint", n>>) /\ \A n : c # <<"picture", n>>
    BY <2>1 DEF Hider
  <2>3. calls' = calls \o (<<k>> \o <<>>) \/ calls' = calls \o <<>> \/ calls' = calls
    BY <1>2, <2>1 DEF SetConnState, Invoke
  <2>4. calls' = Append(calls, k) \/ calls' = calls
    BY <1>1, <2>3, Strung, Joined
  <2> QED
    BY <1>1, <1>2, <2>2, <2>4, PicturesOnNews
<1>3. ASSUME NEW m, Takes(m), Hider(m), NEW s, SetConnState(s, Hide) \/ Invoke(Hide)
      PROVE  PictureInv'
  <2>1. PICK k, c : k = <<"label", s>> /\ c = <<"hide">>
    OBVIOUS
  <2>2. k[1] = "label" /\ (\A n : c # <<"paint", n>>) /\ \A n : c # <<"picture", n>>
    BY <2>1
  <2>3. calls' = calls \o (<<k>> \o <<c>>) \/ calls' = calls \o <<c>>
    BY <1>3, <2>1 DEF SetConnState, Invoke, Hide
  <2>4. calls' = Append(Append(calls, k), c) \/ calls' = Append(calls, c)
    <3>1. calls \o (<<k>> \o <<c>>) = Append(Append(calls, k), c)
      BY <1>1, Strung
    <3>2. calls \o <<c>> = Append(calls, c)
      BY <1>1, Joined
    <3> QED
      BY <2>3, <3>1, <3>2
  <2> QED
    BY <1>1, <1>3, <2>2, <2>4, PicturesOnNews
<1>4. ASSUME NEW m, Takes(m), m = <<"config">> \/ \E n : m = <<"picture", n>>, Invoke(<<m>>)
      PROVE  PictureInv'
  <2>1. PICK k : k = <<"label", "">>
    OBVIOUS
  <2>2. k[1] = "label" /\ \A n : m # <<"paint", n>>
    <3>1. m[1] \in {"config", "picture"}
      BY <1>4, SMT
    <3>2. ASSUME NEW n, m = <<"paint", n>> PROVE FALSE
      <4>1. m[1] = "paint"
        BY <3>2
      <4> QED
        BY <3>1, <4>1
    <3>3. k[1] = "label"
      BY <2>1
    <3> QED
      BY <3>2, <3>3
  <2>3. calls' = Append(calls, m)
    BY <1>1, <1>4, Joined DEF Invoke
  <2> QED
    BY <1>1, <1>4, <2>2, <2>3, PicturesOnNews
<1>5. CASE OnVideoState
  <2>1. CASE Takes(<<"state", "PLAYING">>) /\ SetConnState("STREAMING", <<>>)
    BY <1>2, <2>1
  <2>2. ASSUME NEW s \in OverStates, Takes(<<"state", s>>),
               IF label = "STREAMING" THEN SetConnState("INTERRUPTED", Hide)
                                      ELSE Invoke(Hide) /\ UNCHANGED label
        PROVE  PictureInv'
    <3>1. Hider(<<"state", s>>)
      BY DEF Hider, OverStates
    <3>2. SetConnState("INTERRUPTED", Hide) \/ Invoke(Hide)
      BY <2>2
    <3> QED
      BY <1>3, <2>2, <3>1, <3>2
  <2>3. ASSUME NEW s, Takes(<<"state", s>>), UNCHANGED calls PROVE PictureInv'
    BY <1>2, <2>3
  <2> QED
    BY <1>5, <2>1, <2>2, <2>3 DEF OnVideoState
<1>6. ASSUME NEW m, Takes(m), NEW from, ConnectionComes(from) PROVE PictureInv'
  BY <1>2, <1>6 DEF ConnectionComes
<1>7. ASSUME Takes(<<"shutdown">>), SetConnState("WAITING_BT", Hide) PROVE PictureInv'
  <2>1. Hider(<<"shutdown">>)
    BY DEF Hider
  <2> QED
    BY <1>3, <1>7, <2>1
<1>8. CASE OnSession
  BY <1>6, <1>7, <1>8 DEF OnSession
<1>9. CASE OnVideoFrame
  <2>1. PICK m : /\ Takes(m) /\ Invoke(<<m>>)
                 /\ m = <<"config">> \/ \E n : m = <<"picture", n>>
    BY <1>9 DEF OnVideoFrame
  <2> QED
    BY <1>4, <2>1
<1> QED
  BY <1>5, <1>8, <1>9 DEF ScreenBusThread

\* The Qt thread makes a call.
LEMMA PicturesMade ==
  ASSUME kind = "video", PictureInv, NEW c, Called(c),
         UNCHANGED <<scenario, videoState, videoStream, screenIn, inbox>>,
         IsSeq(decoder'), VideoPage = 0 => decoder' = decoder,
         \A n \in Nat : Holds(decoder', n) => Holds(decoder, n) \/ c = <<"picture", n>>,
         \A n \in Nat : seen' = n => seen = n \/ c = <<"paint", n>>,
         hiding' => Hider(c), firstShown' <=> firstShown /\ ~ Hider(c),
         page' = IF c = <<"show">> THEN VideoPage ELSE page
  PROVE  PictureInv'
<1>1. /\ IsSeq(screenIn) /\ IsSeq(calls) /\ Numbered /\ PageFits /\ (~ Ending => LastWord)
      /\ videoStream \in Nat
  BY DEF PictureInv, Numbered
<1>2. PICK s, t : s = calls /\ t = calls'
  OBVIOUS
<1>3. IsSeq(s) /\ s # <<>> /\ t = Tail(s) /\ c = Head(s) /\ ~ hiding
  BY <1>1, <1>2 DEF Called
<1>4. /\ IsSeq(t) /\ (Hidden(s) <=> Hider(c) \/ Hidden(t))
      /\ \A x : Holds(s, x) <=> c = x \/ Holds(t, x)
  BY <1>3, LessSaid
<1>5. \A x : HiddenAfter(s, x) <=> (c = x /\ Hidden(t)) \/ HiddenAfter(t, x)
  BY <1>3, LessSaid
<1>6. ASSUME NEW n \in Nat, Painted(n)' PROVE Painted(n)
  BY <1>2, <1>4, <1>6 DEF Painted
<1>7. PageFits'
  <2>1. ASSUME firstShown', ~ Hidden(t)
        PROVE  Holds(t, <<"show">>) \/ (~ hiding' /\ page' = VideoPage)
    <3>1. firstShown /\ ~ Hider(c) /\ ~ Hidden(s) /\ ~ hiding'
      BY <1>4, <2>1
    <3>2. Holds(s, <<"show">>) \/ page = VideoPage
      BY <1>1, <1>2, <3>1 DEF PageFits
    <3> QED
      BY <1>4, <3>1, <3>2
  <2>2. VideoPage' = VideoPage
    BY DEF VideoPage
  <2>3. ASSUME VideoPage = 0 PROVE decoder' = <<>> /\ \A n \in Nat : ~ Painted(n)'
    BY <1>1, <1>6, <2>3 DEF PageFits
  <2> QED
    BY <1>2, <2>1, <2>2, <2>3 DEF PageFits
<1>8. ASSUME NEW n \in Nat, Somewhere(n)' PROVE Somewhere(n)
  BY <1>2, <1>4, <1>6, <1>8 DEF Somewhere, Painted
<1>9. Numbered'
  <2>1. Somewhere(videoStream)' => Somewhere(videoStream)
    <3>1. PICK w \in Nat : w = videoStream /\ w = videoStream'
      BY <1>1
    <3>2. Somewhere(w)' => Somewhere(w)
      BY <1>8
    <3> QED
      BY <3>1, <3>2 DEF Somewhere, Painted
  <2> QED
    BY <1>1, <1>8, <2>1 DEF Numbered
<1>10. ASSUME LastWord PROVE LastWord'
  <2>1. PICK V, P : V = videoStream /\ P = <<"picture", V>> /\ V \in Nat
    BY <1>1
  <2>2. Holds(s, P) => ~ Hidden(screenIn) /\ ~ HiddenAfter(s, P)
    BY <1>2, <1>10, <2>1 DEF LastWord
  <2>3. Holds(decoder, V) \/ Painted(V) => ~ Hidden(screenIn) /\ ~ Hidden(s)
    BY <1>2, <1>10, <2>1 DEF LastWord
  <2>4. Holds(t, P) => ~ Hidden(screenIn) /\ ~ HiddenAfter(t, P)
    BY <1>4, <1>5, <2>2
  <2>5. Holds(decoder', V) => ~ Hidden(screenIn) /\ ~ Hidden(t)
    <3>1. Holds(decoder', V) => Holds(decoder, V) \/ c = P
      BY <2>1
    <3> QED
      BY <1>4, <1>5, <2>2, <2>3, <3>1
  <2>6. Painted(V)' => ~ Hidden(screenIn) /\ ~ Hidden(t) /\ firstShown'
    <3>1. Painted(V) => firstShown
      BY <1>10, <2>1 DEF LastWord
    <3> QED
      BY <1>4, <1>6, <2>1, <2>3, <3>1
  <2>7. ~ HiddenAfter(screenIn, P)
    BY <1>10, <2>1 DEF LastWord
  <2> QED
    BY <1>2, <2>1, <2>4, <2>5, <2>6, <2>7 DEF LastWord, Painted
<1>11. Ending' <=> Ending
  BY DEF Ending, Holds
<1> QED
  BY <1>1, <1>2, <1>4, <1>7, <1>9, <1>10, <1>11 DEF PictureInv, IsSeq

\* The Qt thread.
LEMMA PicturesOnQt ==
  ASSUME kind = "video", PictureInv, QtThread
  PROVE  PictureInv'
<1>1. UNCHANGED <<scenario, videoState, videoStream, screenIn, inbox>>
  BY DEF QtThread, feed, video
<1>2. IsSeq(decoder) /\ IsSeq(screenIn) /\ IsSeq(calls) /\ Numbered /\ PageFits
  BY DEF PictureInv
<1>3. CASE PushFrame
  <2>1. PICK n, c : /\ c = <<"picture", n>> /\ Called(c)
                    /\ decoder' = IF VideoPage = 0 THEN decoder ELSE Append(decoder, n)
    BY <1>3 DEF PushFrame
  <2>2. ~ Hider(c) /\ c # <<"show">>
    BY <2>1 DEF Hider
  <2>3. IsSeq(decoder') /\ \A x : Holds(decoder', x) => Holds(decoder, x) \/ x = n
    BY <1>2, <2>1, MoreSaid
  <2>4. \A x \in Nat : Holds(decoder', x) => Holds(decoder, x) \/ c = <<"picture", x>>
    BY <2>1, <2>3
  <2>5. ~ hiding
    BY <2>1 DEF Called
  <2> QED
    BY <1>1, <1>3, <2>1, <2>2, <2>3, <2>4, <2>5, PicturesMade DEF PushFrame, PageFits
<1>4. CASE PushConfig \/ ShowLabel
  <2>1. PICK c : Called(c) /\ (c = <<"config">> \/ \E s : c = <<"label", s>>)
    BY <1>4 DEF PushConfig, ShowLabel
  <2>2. ~ Hider(c) /\ c # <<"show">>
    BY <2>1 DEF Hider
  <2>3. ~ hiding
    BY <2>1 DEF Called
  <2>4. UNCHANGED <<hiding, firstShown, page, decoder, seen>> /\ IsSeq(decoder')
    BY <1>2, <1>4 DEF PushConfig, ShowLabel, IsSeq
  <2> QED
    BY <1>1, <2>1, <2>2, <2>3, <2>4, PicturesMade
<1>5. CASE PaintPicture
  <2>1. PICK n, c : c = <<"paint", n>> /\ Called(c) /\ seen' = n
    BY <1>5 DEF PaintPicture
  <2>2. ~ Hider(c) /\ c # <<"show">>
    BY <2>1 DEF Hider
  <2>3. ~ hiding
    BY <2>1 DEF Called
  <2> QED
    BY <1>1, <1>2, <1>5, <2>1, <2>2, <2>3, PicturesMade DEF PaintPicture, IsSeq
<1>6. CASE HideVideo
  <2>1. PICK c : c = <<"hide">> /\ Called(c)
    BY <1>6 DEF HideVideo
  <2>2. Hider(c) /\ c # <<"show">>
    BY <2>1 DEF Hider
  <2> QED
    BY <1>1, <1>2, <1>6, <2>1, <2>2, PicturesMade DEF HideVideo, ForgetFirst, IsSeq
<1>7. CASE ShowVideo
  <2>1. PICK c : c = <<"show">> /\ Called(c)
    BY <1>7 DEF ShowVideo
  <2>2. ~ Hider(c)
    BY <2>1 DEF Hider
  <2>3. ~ hiding
    BY <2>1 DEF Called
  <2> QED
    BY <1>1, <1>2, <1>7, <2>1, <2>2, <2>3, PicturesMade DEF ShowVideo, IsSeq
<1>8. CASE ShowPlaceholder
  <2>1. hiding /\ UNCHANGED <<calls, firstShown, decoder, seen>>
    BY <1>8 DEF ShowPlaceholder
  <2>2. PageFits'
    BY <1>1, <1>2, <2>1 DEF PageFits, VideoPage, Painted
  <2>3. Numbered'
    BY <1>1, <1>2, <2>1 DEF Numbered, Somewhere, Painted
  <2>4. (Ending' <=> Ending) /\ (LastWord => LastWord')
    BY <1>1, <2>1 DEF Ending, Holds, LastWord, Painted
  <2> QED
    BY <1>1, <1>2, <2>1, <2>2, <2>3, <2>4 DEF PictureInv, IsSeq
<1> QED
  BY <1>3, <1>4, <1>5, <1>6, <1>7, <1>8 DEF QtThread

\* The decoder's thread shows the video with its first picture.
LEMMA PicturesOnDecoder ==
  ASSUME kind = "video", PictureInv, DecoderThread
  PROVE  PictureInv'
<1>1. /\ IsSeq(decoder) /\ IsSeq(screenIn) /\ IsSeq(calls) /\ Numbered /\ PageFits
      /\ (~ Ending => LastWord) /\ videoStream \in Nat
  BY DEF PictureInv, Numbered
<1>2. UNCHANGED <<scenario, videoState, videoStream, screenIn, inbox, hiding, page, seen>>
  BY DEF DecoderThread, feed, video
<1>3. PICK d, e, h : d = decoder /\ e = decoder' /\ h = Head(d) /\ d # <<>> /\ e = Tail(d)
  BY DEF DecoderThread
<1>4. IsSeq(e) /\ \A x : Holds(d, x) <=> h = x \/ Holds(e, x)
  BY <1>1, <1>3, LessSaid
<1>5. VideoPage # 0
  BY <1>1, <1>3 DEF PageFits
<1>6. PICK n, a, b : n = <<"paint", h>> /\ a = calls /\ b = calls'
  OBVIOUS
<1>7. ~ Hider(n) /\ n # <<"show">> /\ (\A x : n # <<"picture", x>>)
      /\ \A x : n = <<"paint", x>> => x = h
  BY <1>6 DEF Hider
<1>8. \/ b = a /\ firstShown' = firstShown
      \/ b = Append(a, n) /\ firstShown /\ firstShown'
      \/ b = Append(Append(a, <<"show">>), n) /\ firstShown'
  <2>1. CASE Leak
    BY <1>6, <2>1 DEF Leak
  <2>2. CASE NewSample
    <3>1. firstShown' /\ calls' = a \o ((IF firstShown THEN <<>> ELSE <<<<"show">>>>) \o <<n>>)
      BY <1>3, <1>6, <2>2 DEF NewSample, Invoke
    <3>2. CASE firstShown
      <4>1. b = a \o (<<>> \o <<n>>)
        BY <1>6, <3>1, <3>2
      <4> QED
        BY <1>1, <1>6, <3>1, <3>2, <4>1, Strung
    <3>3. CASE ~ firstShown
      <4>1. PICK k : k = <<"show">>
        OBVIOUS
      <4>2. b = a \o (<<k>> \o <<n>>)
        BY <1>6, <3>1, <3>3, <4>1
      <4>3. b = Append(Append(a, k), n)
        BY <1>1, <1>6, <4>2, Strung
      <4> QED
        BY <3>1, <4>1, <4>3
    <3> QED
      BY <3>2, <3>3
  <2> QED
    BY <2>1, <2>2 DEF DecoderThread
<1>9. /\ IsSeq(b) /\ (Hidden(b) <=> Hidden(a)) /\ (Holds(a, <<"show">>) => Holds(b, <<"show">>))
      /\ \A x : Holds(b, <<"picture", x>>) <=> Holds(a, <<"picture", x>>)
      /\ \A x : Holds(b, <<"paint", x>>) => Holds(a, <<"paint", x>>) \/ x = h
      /\ \A x : HiddenAfter(b, x) => HiddenAfter(a, x)
      /\ firstShown' => firstShown \/ Holds(b, <<"show">>)
  <2>1. CASE b = a /\ firstShown' = firstShown
    BY <1>1, <1>6, <2>1
  <2>2. PICK k, r : k = <<"show">> /\ r = Append(a, k)
    OBVIOUS
  <2>3. ~ Hider(k) /\ (\A x : k # <<"picture", x>>) /\ \A x : k # <<"paint", x>>
    BY <2>2 DEF Hider
  <2>4. IsSeq(a)
    BY <1>1, <1>6
  <2>5. IsSeq(r) /\ (Hidden(r) <=> Hidden(a)) /\ \A x : Holds(r, x) <=> Holds(a, x) \/ k = x
    BY <2>2, <2>3, <2>4, MoreSaid
  <2>6. \A x : HiddenAfter(r, x) => HiddenAfter(a, x)
    BY <2>2, <2>3, <2>4, MoreSaid
  <2>7. ASSUME NEW s, IsSeq(s), b = Append(s, n)
        PROVE  /\ IsSeq(b) /\ (Hidden(b) <=> Hidden(s))
               /\ \A x : Holds(b, x) <=> Holds(s, x) \/ n = x
    BY <1>7, <2>7, MoreSaid
  <2>8. ASSUME NEW s, IsSeq(s), b = Append(s, n), NEW x, HiddenAfter(b, x) PROVE HiddenAfter(s, x)
    BY <1>7, <2>8, MoreSaid
  <2>9. CASE b = Append(a, n) /\ firstShown /\ firstShown'
    BY <1>7, <2>4, <2>7, <2>8, <2>9
  <2>10. CASE b = Append(r, n) /\ firstShown'
    <3>1. Holds(r, k)
      BY <2>5
    <3> QED
      BY <1>7, <2>2, <2>3, <2>5, <2>6, <2>7, <2>8, <2>10, <3>1
  <2> QED
    BY <1>8, <2>1, <2>2, <2>9, <2>10
<1>10. PageFits'
  <2>1. VideoPage' # 0 /\ VideoPage' = VideoPage
    BY <1>2, <1>5 DEF VideoPage
  <2>2. ASSUME firstShown', ~ Hidden(b) PROVE Holds(b, <<"show">>) \/ (~ hiding /\ page = VideoPage)
    BY <1>1, <1>6, <1>9, <2>2 DEF PageFits
  <2> QED
    BY <1>2, <1>6, <2>1, <2>2 DEF PageFits
<1>11. ASSUME NEW x \in Nat, Somewhere(x)' PROVE Somewhere(x)
  BY <1>2, <1>3, <1>4, <1>6, <1>9, <1>11 DEF Somewhere, Painted
<1>12. Numbered'
  <2>1. Somewhere(videoStream)' => Somewhere(videoStream)
    <3>1. PICK w \in Nat : w = videoStream /\ w = videoStream'
      BY <1>1, <1>2
    <3>2. Somewhere(w)' => Somewhere(w)
      BY <1>11
    <3> QED
      BY <3>1, <3>2 DEF Somewhere, Painted
  <2> QED
    BY <1>1, <1>2, <1>11, <2>1 DEF Numbered
<1>13. ASSUME LastWord PROVE LastWord'
  <2>1. PICK V, P : V = videoStream /\ P = <<"picture", V>> /\ V \in Nat
    BY <1>1
  <2>2. ~ HiddenAfter(screenIn, P)
    BY <1>13, <2>1 DEF LastWord
  <2>3. Holds(b, P) => ~ Hidden(screenIn) /\ ~ HiddenAfter(b, P)
    BY <1>6, <1>9, <1>13, <2>1 DEF LastWord
  <2>4. Holds(d, V) \/ Painted(V) => ~ Hidden(screenIn) /\ ~ Hidden(b)
    BY <1>3, <1>6, <1>9, <1>13, <2>1 DEF LastWord
  <2>5. Painted(V)' => Holds(d, V) \/ Painted(V)
    BY <1>2, <1>4, <1>6, <1>9 DEF Painted
  <2>6. Painted(V)' => firstShown'
    <3>1. Painted(V) => firstShown
      BY <1>13, <2>1 DEF LastWord
    <3>2. firstShown => firstShown'
      BY <1>8
    <3>3. CASE b = a
      <4>1. Painted(V)' => Painted(V)
        BY <1>2, <1>6, <3>3 DEF Painted
      <4> QED
        BY <3>1, <3>2, <4>1
    <3>4. CASE b # a
      BY <1>8, <3>4
    <3> QED
      BY <3>3, <3>4
  <2> QED
    BY <1>2, <1>3, <1>4, <1>6, <2>1, <2>2, <2>3, <2>4, <2>5, <2>6 DEF LastWord, Painted
<1>14. Ending' <=> Ending
  BY <1>2 DEF Ending, Holds
<1> QED
  BY <1>1, <1>2, <1>3, <1>4, <1>6, <1>9, <1>10, <1>12, <1>13, <1>14 DEF PictureInv, IsSeq

\* Every step.
LEMMA PicturesStay ==
  ASSUME QuietInv, VideoInv, LabelInv, PictureInv, [Next]_vars
  PROVE  PictureInv'
<1>1. CASE kind # "video" /\ ~ SessionBegins
  <2>1. kind' = kind
    BY <1>1, Steps, AudioTakes, MicTakes, OthersTake
       DEF Aside, PlayerDies, feed, Taken, Untouched, kind
  <2> QED
    BY <1>1, <2>1 DEF PictureInv
<1>2. CASE kind # "video" /\ SessionBegins
  BY <1>2 DEF SessionBegins, ChannelOpened, PictureInv, kind
<1>3. CASE kind = "video" /\ NoPicture
  <2>1. /\ UNCHANGED <<scenario, videoState, videoStream, screenIn, inbox, calls, hiding,
                       firstShown, page, decoder, seen>>
        /\ IsSeq(screenIn)
    BY <1>3 DEF NoPicture, feed, video, screen, PictureInv
  <2>2. Ending' <=> Ending
    BY <2>1 DEF Ending, Holds
  <2> QED
    BY <1>3, <2>1, <2>2, PicturesOnFrame
<1> QED
  BY <1>1, <1>2, <1>3, VideoSteps, PicturesBegin, PicturesOnFeed, PicturesOnVideo,
     PicturesOnPairing, PicturesOnBus, PicturesOnQt, PicturesOnDecoder

\* Before the first session there is no picture.
LEMMA PicturesAtFirst ==
  ASSUME Init
  PROVE  PictureInv
<1>1. /\ screenIn = <<>> /\ calls = <<>> /\ decoder = <<>> /\ inbox = <<>> /\ seen = 0 - 1
      /\ videoStream = 0 /\ firstShown = FALSE
  BY DEF Init, FeedInit, VideoInit, ScreenInit
<1>2. IsSeq(<<>>)
  BY EmptySeq DEF IsSeq
<1>3. \A n \in Nat : ~ Somewhere(n) /\ ~ Painted(n)
  BY <1>1, NothingSaid DEF Somewhere, Painted
<1>4. LastWord
  BY <1>1, <1>3, NothingSaid DEF LastWord
<1> QED
  BY <1>1, <1>2, <1>3, <1>4 DEF PictureInv, Numbered, PageFits

\* Once the renderer has a picture of the stream that plays, and nothing is left to do,
\* the video is on the screen: no hiding for a stream before can have the last word,
\* although it comes by three threads (video_ui, on_video_state(), set_streaming(),
\* _on_new_sample()).
THEOREM PicturesAreShownCorrect == Spec => []PicturesAreShown
<1> DEFINE Inv == QuietInv /\ VideoInv /\ LabelInv /\ PictureInv
<1>1. Init => Inv
  BY QuietAtFirst, VideoAtFirst, LabelAtFirst, PicturesAtFirst
<1>2. Inv /\ [Next]_vars => Inv'
  BY QuietStays, VideoStays, LabelStays, PicturesStay
<1>3. ASSUME Inv, kind = "video", Settled, videoState = "PLAYING", seen = videoStream PROVE page = 1
  <2>1. inbox = <<>> /\ calls = <<>> /\ ~ hiding
    BY <1>3 DEF Settled, Drained
  <2>2. PageFits /\ (~ Ending => LastWord) /\ videoStream \in Nat
    BY <1>3 DEF PictureInv, Numbered
  <2>3. ~ Ending /\ ~ Hidden(calls) /\ ~ Holds(calls, <<"show">>)
    BY <2>1, NothingSaid DEF Ending
  <2>4. Painted(videoStream)
    BY <1>3 DEF Painted
  <2>5. page = VideoPage
    BY <2>2, <2>3, <2>4 DEF LastWord, PageFits
  <2>6. VideoPage # 0
    BY <2>2, <2>4 DEF PageFits
  <2> QED
    BY <2>5, <2>6 DEF VideoPage
<1>4. Inv => PicturesAreShown
  BY <1>3 DEF PicturesAreShown
<1> HIDE DEF Inv
<1> QED
  BY <1>1, <1>2, <1>4, PTL DEF Spec
=============================================================================
