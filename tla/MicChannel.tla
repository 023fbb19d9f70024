----------------------------- MODULE MicChannel -----------------------------
(***************************************************************************)
(* v2/modules/channel_modules/av_input/main.py: AVInputModule sends what   *)
(* the microphone hears to the phone.  pacat writes it to a pipe, a reader *)
(* thread of each capture moves it to a queue, and the bus thread sends    *)
(* the queue's contents when the phone says something.                     *)
(*                                                                         *)
(* pacat can be started and ends when it is told to, so that the joins of  *)
(* the bus thread do not time out.  A capture is started after the reader  *)
(* of the one before has been joined: two names for captures are enough.   *)
(***************************************************************************)
EXTENDS AudioManager

CONSTANT MaxQueue  \* pieces of sound that wait

ASSUME MicAssumption == MaxQueue \in Nat

Captures == {1, 2}
NoCapture == 0

VARIABLES
  micState,   \* _state
  capturing,  \* _capturing
  source,     \* _selected_source
  capture,    \* the latest capture
  recorder,   \* the capture whose pacat is in _proc
  device,     \* the device it was started on
  recording,  \* captures whose pacat runs
  stopEvent,  \* _stop_event
  queue,      \* _send_queue: the capture each piece is from
  reader,     \* _reader_thread: its capture
  reading,    \* where the thread of each capture is
  stopping,   \* where the bus thread is in _stop_stream(), or "no"
  after,      \* what it does after that
  micDeaths

thread == <<queue, reader, reading>>
pacat  == <<recorder, device, recording, capture>>
mic == <<micState, capturing, source, stopEvent, stopping, after, micDeaths,
         thread, pacat>>

MicInit ==
  /\ micState = "IDLE" /\ capturing = FALSE /\ source = Default
  /\ capture = 2 /\ recorder = NoCapture /\ device = Default /\ recording = {}
  /\ stopEvent = FALSE /\ queue = <<>> /\ reader = NoCapture
  /\ reading = [k \in Captures |-> "dead"]
  /\ stopping = "no" /\ after = "nothing" /\ micDeaths = 0

MicStarts ==
  /\ micState' = "IDLE" /\ capturing' = FALSE /\ source' = Default
  /\ capture' = 2 /\ recorder' = NoCapture /\ device' = Default /\ recording' = {}
  /\ stopEvent' = FALSE /\ queue' = <<>> /\ reader' = NoCapture
  /\ reading' = [k \in Captures |-> "dead"]
  /\ stopping' = "no" /\ after' = "nothing" /\ UNCHANGED micDeaths

-----------------------------------------------------------------------------
(* _stop_stream(), and what the bus thread does after it.                  *)

TerminatePacat ==
  /\ stopEvent' = TRUE
  /\ recorder' = NoCapture /\ recording' = recording \ {recorder}

StopStream(then) ==
  /\ TerminatePacat /\ stopping' = "join" /\ after' = then
  /\ UNCHANGED <<micState, capturing, device, capture, reader, reading>>

Idle(c, ms) ==
  /\ capturing' = c /\ micState' = ms
  /\ UNCHANGED <<stopEvent, stopping, after, pacat, reader, reading>>

\* _reader_thread.join()
JoinReader ==
  /\ stopping = "join"
  /\ \A k \in Captures : reader = k => reading[k] = "dead"
  /\ reader' = NoCapture /\ stopping' = "drain"
  /\ UNCHANGED <<micState, capturing, source, stopEvent, after, micDeaths, queue,
                 reading, pacat, feed>>

\* Fault: what is in the queue is left there.
DrainNothing == UNCHANGED queue

\* "while not self._send_queue.empty()"
EmptyQueue == queue' = <<>>

\* _stop_stream() ends; without a new capture the handler ends with it, and
\* the process with its _cleanup().
Stopped ==
  /\ stopping = "drain"
  /\ EmptyQueue
  /\ capturing' = FALSE
  /\ micState' = CASE after \in {"idle", "exit"} -> "IDLE"
                   [] after \notin {"idle", "exit"} /\ capturing -> "STOPPED"
                   [] OTHER -> micState
  /\ stopping' = IF after = "start" THEN "start" ELSE "no"
  /\ phase' = IF after = "exit" THEN "none" ELSE phase
  /\ UNCHANGED <<source, stopEvent, after, micDeaths, reader, reading, pacat, scenario,
                 sessions, announced, phone, sent, inbox, screenIn, channelOpen>>

\* The rest of _start_stream(): pacat on the selected source, and a reader.
StartCapture ==
  /\ stopping = "start" /\ stopping' = "no"
  /\ LET k == CHOOSE c \in Captures : c # capture IN
       /\ capture' = k /\ recorder' = k /\ recording' = recording \cup {k}
       /\ reader' = k /\ reading' = [reading EXCEPT ![k] = "read"]
  /\ device' = source /\ stopEvent' = FALSE
  /\ capturing' = TRUE /\ micState' = "PLAYING"
  /\ UNCHANGED <<source, after, micDeaths, queue, feed>>

-----------------------------------------------------------------------------
(* What the bus thread handles.                                            *)

\* on_channel_open(): nothing is stopped.
MicOpen == ReceiveOpen /\ Idle(FALSE, "IDLE") /\ UNCHANGED <<source, queue>>

\* on_channel_close()
MicClose ==
  /\ ReceiveClose
  /\ \/ capturing /\ StopStream("idle")
     \/ ~ capturing /\ Idle(FALSE, "IDLE")
  /\ UNCHANGED <<source, queue>>

\* on_aa_session_shutdown()
MicShutdown == ReceiveShutdown /\ StopStream("idle") /\ UNCHANGED <<source, queue>>

\* _cleanup()
MicStop ==
  /\ ReceiveStop /\ UNCHANGED phase
  /\ StopStream("exit") /\ UNCHANGED <<source, queue>>

\* on_audio_source_selected(): a running capture is started anew.
SourceSelected(d) ==
  /\ Receive(<<"selected", d>>) /\ UNCHANGED <<phase, channelOpen>>
  /\ source' = d
  /\ \/ d # source /\ capturing /\ StopStream("start")
     \/ (d = source \/ ~ capturing) /\ Idle(capturing, micState)
  /\ UNCHANGED queue

\* on_frame(): the queue is sent first.  _handle_setup_request(),
\* _handle_open_request() and _handle_input_open_request().
MicFrame ==
  /\ \/ ReceiveFrame("setup") /\ Idle(capturing, "SETUP")
     \/ ReceiveFrame("open") /\ Idle(capturing, "OPEN")
     \/ ReceiveFrame("ack") /\ Idle(capturing, micState)
     \/ ReceiveFrame("mic on") /\ StopStream("start")
     \/ ReceiveFrame("mic off") /\ StopStream("nothing")
  /\ queue' = <<>> /\ UNCHANGED source

MicHandles ==
  /\ kind = "mic" /\ stopping = "no"
  /\ \/ MicOpen \/ MicClose \/ MicShutdown \/ MicStop \/ MicFrame
     \/ \E d \in Names : SourceSelected(d)
     \/ FrameDropped /\ Idle(capturing, micState) /\ UNCHANGED <<source, queue>>
  /\ UNCHANGED <<screenIn, micDeaths>>

MicBusThread ==
  (MicHandles \/ JoinReader \/ Stopped \/ StartCapture) /\ UNCHANGED selection

-----------------------------------------------------------------------------
(* _mic_reader(), the thread of capture k, and its pacat.                  *)

Reads(k, here, there) ==
  /\ reading[k] = here /\ reading' = [reading EXCEPT ![k] = there]
  /\ UNCHANGED <<micState, capturing, source, device, capture, reader, stopping,
                 after, micDeaths, feed, selection>>

ReadChunk(k) ==
  /\ k \in recording /\ Len(queue) < MaxQueue /\ Reads(k, "read", "put")
  /\ UNCHANGED <<queue, stopEvent, recorder, recording>>

\* The stop flag is looked at before the next piece is read.
PutChunk(k) ==
  /\ Reads(k, "put", IF stopEvent THEN "dead" ELSE "read")
  /\ queue' = Append(queue, k)
  /\ UNCHANGED <<stopEvent, recorder, recording>>

\* "pacat stdout EOF - retry 1/3 in 0.5s", unless the capture was stopped.
BackOff(k) ==
  /\ k \notin recording /\ Reads(k, "read", IF stopEvent THEN "dead" ELSE "backoff")
  /\ UNCHANGED <<queue, stopEvent, recorder, recording>>

\* _start_stream() calls _stop_stream(), which joins the thread that calls it:
\* RuntimeError, and the thread ends there.
Retry(k) ==
  Reads(k, "backoff", "dead") /\ TerminatePacat /\ UNCHANGED queue

Reader(k) ==
  ReadChunk(k) \/ PutChunk(k) \/ BackOff(k) \/ Retry(k)

\* pacat dies, because its device has gone or for another reason.
RecorderDies ==
  /\ recorder \in recording /\ micDeaths < scenario.deaths
  /\ micDeaths' = micDeaths + 1 /\ recording' = recording \ {recorder}
  /\ UNCHANGED <<micState, capturing, source, stopEvent, stopping, after, thread,
                 recorder, device, capture, feed, selection>>

MicTypeOK ==
  /\ micState \in {"IDLE", "SETUP", "OPEN", "PLAYING", "STOPPED"}
  /\ capturing \in BOOLEAN /\ stopEvent \in BOOLEAN
  /\ source \in Names /\ device \in Names /\ capture \in Captures
  /\ recorder \in Captures \cup {NoCapture} /\ recording \subseteq {recorder}
  /\ queue \in Seq(Captures)
  /\ \A k \in Captures :
       /\ reading[k] \in {"read", "put", "backoff", "dead"}
       /\ reading[k] # "dead" => reader = k   \* what Retry(k) relies on
  /\ stopping \in {"no", "join", "drain", "start"}
  /\ after \in {"nothing", "start", "idle", "exit"}
=============================================================================
