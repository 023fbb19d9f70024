----------------------------- MODULE FrameCodec -----------------------------
(***************************************************************************)
(* The receive path of v2/modules/tcp_server: frame_codec.py (how a        *)
(* message is cut into frames and put together again), aa_cryptor.py       *)
(* decrypt() and _on_raw_frame() of main.py.                               *)
(*                                                                         *)
(* Two threads meet here.  The relay thread reads frames, feeds them to    *)
(* the FrameAssembler and publishes whole messages.  The bus thread, in    *)
(* on_aa_session_restart(), deinits the cryptor and resets the assembler   *)
(* on the connection that stays open.                                      *)
(*                                                                         *)
(* A payload is a sequence of units <<message, index>>; a frame carries at *)
(* most Chunk units (FRAME_SIZE_THRESHOLD).  The units of a ciphertext are *)
(* those of the plaintext under another name and one more, the overhead of *)
(* a TLS record.  The phone fragments as encode() does and may interleave  *)
(* the frames of different channels.                                       *)
(***************************************************************************)
EXTENDS Naturals, Sequences, FiniteSets

CONSTANTS
  Chans,       \* channels
  Chunk,       \* FRAME_SIZE_THRESHOLD
  Sizes,       \* payload sizes of the messages, message id included
  Encryptions, \* whether messages are sent in the clear, encrypted, or both
  MaxMsgs,     \* bound on the messages sent on a channel
  MaxRestarts  \* bound on session restarts

ASSUME ChunkAssumption == Chunk \in Nat \ {0}
ASSUME SizesAssumption == Sizes \subseteq Nat \ {0}
ASSUME EncryptionsAssumption == Encryptions \subseteq BOOLEAN
ASSUME BoundsAssumption == MaxMsgs \in Nat /\ MaxRestarts \in Nat

VARIABLES
  sent,      \* messages the phone has sent on a channel
  wire,      \* frames of a channel the relay has not read yet
  active,    \* cryptor.is_active()
  buffers,   \* FrameAssembler._buffers
  relay,     \* where the relay thread is: "read", "delete", "publish", "dead"
  inHand,    \* the message the relay thread is working on
  published, \* messages published on aa.frame.ch<N>
  bus,       \* where the bus thread is: "idle" or "reset"
  restarts,  \* restarts so far
  fresh      \* of each channel, how many messages had been sent at the last
             \* reset: those after them have seen only one assembler state

vars == <<sent, wire, active, buffers, relay, inHand, published, bus,
          restarts, fresh>>

FrameTypes == {"FIRST", "MIDDLE", "LAST", "BULK"}
None == [none |-> TRUE]

-----------------------------------------------------------------------------
(* encode()                                                                *)

\* The payload of the n-th message of a channel: message id and body.
Payload(n, size) == [k \in 1 .. size |-> <<"plain", n, k>>]

\* cryptor.encrypt() of the whole payload: one TLS record, longer than it.
Encrypt(payload) ==
  [k \in 1 .. Len(payload) + 1 |->
     IF k <= Len(payload) THEN <<"cipher", payload[k][2], k>>
                          ELSE <<"cipher", payload[1][2], k>>]

\* Fault: a rest that does not fill a frame is left out.
FrameCountShort(size) == IF size <= Chunk THEN 1 ELSE size \div Chunk

\* How many frames a payload makes: the loop of _build_multi_frame() goes on
\* while more than a chunk is left.
FrameCount(size) == (size + Chunk - 1) \div Chunk

SmallerOf(a, b) == IF a <= b THEN a ELSE b

\* Fault: the last frame of a message is marked MIDDLE.
FrameNeverLast(c, enc, payload, k) ==
  LET last == FrameCount(Len(payload)) IN
  [ch    |-> c,
   enc   |-> enc,
   type  |-> CASE last = 1           -> "BULK"
               [] last > 1 /\ k = 1 -> "FIRST"
               [] OTHER              -> "MIDDLE",
   data  |-> SubSeq(payload, (k - 1) * Chunk + 1,
                    SmallerOf(k * Chunk, Len(payload))),
   total |-> IF last > 1 /\ k = 1 THEN Len(payload) ELSE 0]

\* The k-th frame.
Frame(c, enc, payload, k) ==
  LET last == FrameCount(Len(payload)) IN
  [ch    |-> c,
   enc   |-> enc,
   type  |-> CASE last = 1              -> "BULK"
               [] last > 1 /\ k = 1    -> "FIRST"
               [] last > 1 /\ k = last -> "LAST"
               [] OTHER                 -> "MIDDLE",
   data  |-> SubSeq(payload, (k - 1) * Chunk + 1,
                    SmallerOf(k * Chunk, Len(payload))),
   total |-> IF last > 1 /\ k = 1 THEN Len(payload) ELSE 0]

Encode(c, enc, payload) ==
  LET body == IF enc THEN Encrypt(payload) ELSE payload IN
  [k \in 1 .. FrameCount(Len(body)) |-> Frame(c, enc, body, k)]

-----------------------------------------------------------------------------
Init ==
  /\ sent = [c \in Chans |-> <<>>]
  /\ wire = [c \in Chans |-> <<>>]
  /\ active = TRUE
  /\ buffers = [c \in Chans |-> None]
  /\ relay = "read" /\ inHand = None
  /\ published = [c \in Chans |-> <<>>]
  /\ bus = "idle" /\ restarts = 0
  /\ fresh = [c \in Chans |-> 0]

\* The phone sends a message.
PhoneSend(c) ==
  /\ Len(sent[c]) < MaxMsgs
  /\ \E size \in Sizes, enc \in Encryptions :
       LET payload == Payload(Len(sent[c]) + 1, size) IN
       /\ sent' = [sent EXCEPT ![c] = Append(@, [data |-> payload,
                                                 enc  |-> enc])]
       /\ wire' = [wire EXCEPT ![c] = @ \o Encode(c, enc, payload)]
  /\ UNCHANGED <<active, buffers, relay, inHand, published, bus, restarts,
                 fresh>>

-----------------------------------------------------------------------------
(* The relay thread: FrameAssembler.feed() and _on_raw_frame().            *)

\* The next frame off the socket, which is of channel c.
Read(c) ==
  /\ relay = "read" /\ wire[c] # <<>>
  /\ wire' = [wire EXCEPT ![c] = Tail(@)]
  /\ UNCHANGED <<sent, active, published, bus, restarts, fresh>>

FeedBulk(c) ==
  /\ Read(c) /\ Head(wire[c]).type = "BULK"
  /\ LET f == Head(wire[c]) IN
       inHand' = [ch |-> c, enc |-> f.enc, data |-> f.data, total |-> f.total]
  /\ relay' = "publish"
  /\ UNCHANGED buffers

\* Starts, or starts again, the accumulation for this channel.
FeedFirst(c) ==
  /\ Read(c) /\ Head(wire[c]).type = "FIRST"
  /\ LET f == Head(wire[c]) IN
       buffers' = [buffers EXCEPT ![c] =
                     [enc |-> f.enc, data |-> f.data, total |-> f.total]]
  /\ UNCHANGED <<relay, inHand>>

\* Fault: a frame without its FIRST starts an accumulation of its own.
FeedMiddleAnyway(c) ==
  /\ Read(c) /\ Head(wire[c]).type = "MIDDLE"
  /\ LET f == Head(wire[c]) IN
       buffers' = [buffers EXCEPT ![c] =
         IF buffers[c] = None
           THEN [enc |-> f.enc, data |-> f.data, total |-> 0]
           ELSE [buffers[c] EXCEPT !.data = @ \o f.data]]
  /\ UNCHANGED <<relay, inHand>>

\* Without a FIRST the frame is dropped.
FeedMiddle(c) ==
  /\ Read(c) /\ Head(wire[c]).type = "MIDDLE"
  /\ buffers' = [buffers EXCEPT ![c] =
                   IF buffers[c] = None THEN None
                   ELSE [buffers[c] EXCEPT !.data = @ \o Head(wire[c]).data]]
  /\ UNCHANGED <<relay, inHand>>

FeedLast(c) ==
  /\ Read(c) /\ Head(wire[c]).type = "LAST"
  /\ IF buffers[c] = None
       THEN UNCHANGED <<relay, inHand>>
       ELSE /\ inHand' = [ch    |-> c,
                          enc   |-> buffers[c].enc,
                          data  |-> buffers[c].data \o Head(wire[c]).data,
                          total |-> buffers[c].total]
            /\ relay' = "delete"
  /\ UNCHANGED buffers

\* del self._buffers[channel_id]: KeyError if the bus thread has reset the
\* assembler since the lookup; it ends the relay.
DeleteBuffer ==
  /\ relay = "delete"
  /\ LET c == inHand.ch IN
       IF buffers[c] = None
         THEN relay' = "dead" /\ inHand' = None /\ UNCHANGED buffers
         ELSE /\ buffers' = [buffers EXCEPT ![c] = None]
              /\ relay' = "publish" /\ UNCHANGED inHand
  /\ UNCHANGED <<sent, wire, active, published, bus, restarts, fresh>>

\* AACryptor.decrypt(): the chunks read are overwritten one by one and
\* buf.extend() is only reached with the empty one that ends the loop.
Decrypt(data) == <<>>

\* Decryption, message id, publication.  A message that is too short for a
\* message id is dropped.  A length that differs from the declared total is
\* logged with a format that has no place for its arguments, which raises.
PublishMessage ==
  /\ relay = "publish"
  /\ LET c     == inHand.ch
         plain == IF inHand.enc /\ active THEN Decrypt(inHand.data)
                                          ELSE inHand.data
     IN  CASE plain = <<>> ->
                relay' = "read" /\ UNCHANGED published
           [] plain # <<>> /\ inHand.total \notin {0, Len(plain)} ->
                relay' = "dead" /\ UNCHANGED published
           [] OTHER ->
                /\ published' = [published EXCEPT ![c] =
                                   Append(@, [data |-> plain,
                                              enc  |-> inHand.enc])]
                /\ relay' = "read"
  /\ inHand' = None
  /\ UNCHANGED <<sent, wire, active, buffers, bus, restarts, fresh>>

Relay ==
  \/ \E c \in Chans :
       FeedBulk(c) \/ FeedFirst(c) \/ FeedMiddle(c) \/ FeedLast(c)
  \/ DeleteBuffer
  \/ PublishMessage

-----------------------------------------------------------------------------
(* The bus thread: on_aa_session_restart() and the new TLS handshake.      *)

DeinitCryptor ==
  /\ bus = "idle" /\ restarts < MaxRestarts
  /\ restarts' = restarts + 1
  /\ active' = FALSE
  /\ bus' = "reset"
  /\ UNCHANGED <<sent, wire, buffers, relay, inHand, published, fresh>>

ResetAssembler ==
  /\ bus = "reset"
  /\ buffers' = [c \in Chans |-> None]
  /\ fresh' = [c \in Chans |-> Len(sent[c])]
  /\ bus' = "idle"
  /\ UNCHANGED <<sent, wire, active, relay, inHand, published, restarts>>

HandshakeDone ==
  /\ bus = "idle" /\ ~ active
  /\ active' = TRUE
  /\ UNCHANGED <<sent, wire, buffers, relay, inHand, published, bus,
                 restarts, fresh>>

Next ==
  \/ \E c \in Chans : PhoneSend(c)
  \/ Relay
  \/ DeinitCryptor \/ ResetAssembler \/ HandshakeDone

Spec == Init /\ [][Next]_vars

\* The relay thread goes on reading, the bus thread completes its handlers.
FairSpec == Spec /\ WF_vars(Relay) /\ WF_vars(ResetAssembler)

-----------------------------------------------------------------------------
(* Properties.                                                             *)

\* What the variables hold.
TypeOK ==
  /\ \A c \in Chans :
       /\ \A i \in 1 .. Len(wire[c]) :
            /\ wire[c][i].ch = c /\ wire[c][i].type \in FrameTypes
            /\ wire[c][i].enc \in BOOLEAN
            /\ Len(wire[c][i].data) \in 1 .. Chunk
       /\ fresh[c] \in 0 .. Len(sent[c])
       /\ Len(published[c]) <= Len(sent[c])
  /\ active \in BOOLEAN
  /\ relay \in {"read", "delete", "publish", "dead"}
  /\ inHand = None <=> relay \in {"read", "dead"}
  /\ bus \in {"idle", "reset"}
  /\ restarts \in 0 .. MaxRestarts

\* Only whole messages are published, in the clear and as the phone sent them,
\* however the frames of the channels interleave and whenever the assembler is
\* reset: "a fully assembled, decrypted frame" (base_channel_module.py).
OnlyWholeMessages ==
  \A c \in Chans : \A i \in 1 .. Len(published[c]) :
    published[c][i] \in {sent[c][j] : j \in 1 .. Len(sent[c])}

\* The n-th message of a channel has been sent and published.
Published(c, n) ==
  /\ n <= Len(sent[c])
  /\ \E i \in 1 .. Len(published[c]) : published[c][i] = sent[c][n]

\* A message that was sent after the last reset arrives, unless the relay is
\* gone: a reset costs the messages that were on their way, no others.
ResetCostsOnlyInFlight ==
  relay = "read" =>
    \A c \in Chans :
      wire[c] = <<>> => \A n \in fresh[c] + 1 .. Len(sent[c]) : Published(c, n)

\* Every message that is sent is published in the end, or the connection is
\* reset.
EverythingArrives ==
  \A c \in Chans, n \in 1 .. MaxMsgs :
    Len(sent[c]) >= n ~> Published(c, n) \/ restarts > 0
=============================================================================
