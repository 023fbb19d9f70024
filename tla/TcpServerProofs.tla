-------------------------- MODULE TcpServerProofs --------------------------
(***************************************************************************)
(* Theorems about the two modules of tcp_server.                           *)
(*                                                                         *)
(* FrameCodec, for any channels, any sizes of messages and of frames, any  *)
(* number of messages and restarts, and messages in the clear, encrypted,  *)
(* or both: what is published is whole, and a reset costs no message that  *)
(* is sent in the clear after it.  The proof follows the messages as they  *)
(* are carried, an encrypted one as its ciphertext.                        *)
(*                                                                         *)
(* TcpServer, for any number of connections and restarts and whatever may  *)
(* happen to them: its types, and that it serves one connection at a time. *)
(***************************************************************************)
EXTENDS FrameCodec, TcpServer, SequenceTheorems, TLAPS

Unit    == {"plain", "cipher"} \X Nat \X Nat
Body    == Seq(Unit) \ {<<>>}
Message == [data : Body, enc : BOOLEAN]
Framed  == [ch : Chans, enc : BOOLEAN, type : FrameTypes, data : Seq(Unit),
            total : Nat]
Numbers == Nat \ {0}

-----------------------------------------------------------------------------
(* What encode() makes of a message.                                       *)

(* The frames of a payload are as many as it takes, the last one not empty. *)
LEMMA FrameCountBounds ==
  ASSUME NEW size \in Numbers
  PROVE  /\ FrameCount(size) \in Numbers
         /\ (FrameCount(size) - 1) * Chunk < size
         /\ size <= FrameCount(size) * Chunk
<1> DEFINE q == (size + Chunk - 1) \div Chunk
           r == (size + Chunk - 1) % Chunk
<1>1. Chunk \in Nat /\ Chunk > 0 /\ size \in Nat /\ size > 0
  BY ChunkAssumption DEF Numbers
<1>2. q \in Int /\ r \in 0 .. Chunk - 1 /\ size + Chunk - 1 = Chunk * q + r
  BY <1>1
<1> HIDE DEF q, r
<1>3. q > 0
  BY <1>1, <1>2
<1>4. (q - 1) * Chunk < size /\ size <= q * Chunk
  BY <1>1, <1>2, <1>3
<1>5. QED
  BY <1>2, <1>3, <1>4 DEF FrameCount, q, Numbers

(* Frames before the last are full. *)
LEMMA FullFrames ==
  ASSUME NEW size \in Numbers, NEW k \in Nat, k < FrameCount(size)
  PROVE  k * Chunk < size /\ k * Chunk \in Nat
<1>1. Chunk \in Nat /\ FrameCount(size) \in Nat /\ size \in Nat
  BY ChunkAssumption, FrameCountBounds DEF Numbers
<1>2. \A a, b, n \in Nat : a <= b => a * n <= b * n
  OBVIOUS
<1>3. k * Chunk <= (FrameCount(size) - 1) * Chunk
  BY <1>1, <1>2
<1>4. k * Chunk \in Nat
  BY <1>1
<1>5. QED
  BY <1>1, <1>3, <1>4, FrameCountBounds

(* A message has at least one frame. *)
LEMMA SomeFrames ==
  ASSUME NEW data \in Body
  PROVE  /\ data \in Seq(Unit) /\ Len(data) \in Numbers
         /\ FrameCount(Len(data)) \in Nat /\ FrameCount(Len(data)) > 0
<1>1. data \in Seq(Unit) /\ Len(data) \in Numbers
  BY EmptySeq DEF Body, Numbers
<1>2. FrameCount(Len(data)) \in Numbers
  BY <1>1, FrameCountBounds
<1>3. QED
  BY <1>1, <1>2 DEF Numbers

(* A message of one frame. *)
LEMMA CutBulk ==
  ASSUME NEW c \in Chans, NEW enc \in BOOLEAN, NEW data \in Body,
         FrameCount(Len(data)) = 1
  PROVE  Frame(c, enc, data, 1) =
           [ch |-> c, enc |-> enc, type |-> "BULK", data |-> data, total |-> 0]
<1>1. Len(data) \in Numbers /\ data \in Seq(Unit)
  BY EmptySeq DEF Body, Numbers
<1>2. Len(data) <= 1 * Chunk
  BY <1>1, FrameCountBounds
<1>3. SmallerOf(1 * Chunk, Len(data)) = Len(data) /\ (1 - 1) * Chunk + 1 = 1
  BY <1>1, <1>2, ChunkAssumption DEF SmallerOf, Numbers
<1>4. SubSeq(data, 1, Len(data)) = data
  BY <1>1, SubSeqFull
<1>5. SubSeq(data, (1 - 1) * Chunk + 1, SmallerOf(1 * Chunk, Len(data))) = data
  BY <1>3, <1>4
<1>6. ~ (FrameCount(Len(data)) > 1)
  OBVIOUS
<1>7. QED
  BY <1>5, <1>6 DEF Frame

(* The first of several frames. *)
LEMMA CutFirst ==
  ASSUME NEW c \in Chans, NEW enc \in BOOLEAN, NEW data \in Body,
         FrameCount(Len(data)) > 1
  PROVE  Frame(c, enc, data, 1) =
           [ch |-> c, enc |-> enc, type |-> "FIRST",
            data |-> SubSeq(data, 1, Chunk), total |-> Len(data)]
<1>1. Len(data) \in Numbers /\ FrameCount(Len(data)) \in Nat
  BY EmptySeq, FrameCountBounds DEF Body, Numbers
<1>2. 1 * Chunk < Len(data)
  BY <1>1, FullFrames
<1>3. SmallerOf(1 * Chunk, Len(data)) = Chunk /\ (1 - 1) * Chunk + 1 = 1
  BY <1>1, <1>2, ChunkAssumption DEF SmallerOf, Numbers
<1>4. FrameCount(Len(data)) # 1
  BY <1>1
<1>5. QED
  BY <1>3, <1>4 DEF Frame

(* A frame in the middle continues what those before it held. *)
LEMMA CutMiddle ==
  ASSUME NEW c \in Chans, NEW enc \in BOOLEAN, NEW data \in Body, NEW k \in Nat,
         1 < k, k < FrameCount(Len(data))
  PROVE  /\ Frame(c, enc, data, k).type = "MIDDLE"
         /\ Frame(c, enc, data, k).ch = c /\ Frame(c, enc, data, k).enc = enc
         /\ SubSeq(data, 1, (k - 1) * Chunk) \o Frame(c, enc, data, k).data
              = SubSeq(data, 1, k * Chunk)
<1>1. Len(data) \in Numbers /\ FrameCount(Len(data)) \in Nat /\ data \in Seq(Unit)
  BY EmptySeq, FrameCountBounds DEF Body, Numbers
<1>2. k * Chunk < Len(data) /\ k * Chunk \in Nat
  BY <1>1, FullFrames
<1>3. (k - 1) * Chunk \in Nat /\ (k - 1) * Chunk <= k * Chunk
  BY ChunkAssumption
<1>4. SmallerOf(k * Chunk, Len(data)) = k * Chunk
  BY <1>1, <1>2 DEF SmallerOf, Numbers
<1>5. FrameCount(Len(data)) # 1 /\ FrameCount(Len(data)) # k /\ k # 1
  BY <1>1
<1>6. /\ Frame(c, enc, data, k).type = "MIDDLE"
      /\ Frame(c, enc, data, k).ch = c /\ Frame(c, enc, data, k).enc = enc
      /\ Frame(c, enc, data, k).data = SubSeq(data, (k - 1) * Chunk + 1, k * Chunk)
  BY <1>4, <1>5 DEF Frame
<1>7. SubSeq(data, 1, (k - 1) * Chunk) \o SubSeq(data, (k - 1) * Chunk + 1, k * Chunk)
        = SubSeq(data, 1, k * Chunk)
  <2> DEFINE a == (k - 1) * Chunk
             b == k * Chunk
  <2>1. a \in 0 .. Len(data) /\ b \in a .. Len(data) /\ 1 \in 1 .. Len(data) + 1
    BY <1>1, <1>2, <1>3 DEF Numbers
  <2> HIDE DEF a, b
  <2>2. SubSeq(data, 1, a) \o SubSeq(data, a + 1, b) = SubSeq(data, 1, b)
    BY <1>1, <2>1, ConcatAdjacentSubSeq
  <2>3. QED
    BY <2>2 DEF a, b
<1>8. QED
  BY <1>6, <1>7

(* The last of several frames completes the message. *)
LEMMA CutLast ==
  ASSUME NEW c \in Chans, NEW enc \in BOOLEAN, NEW data \in Body, NEW k \in Nat,
         1 < k, k = FrameCount(Len(data))
  PROVE  SubSeq(data, 1, (k - 1) * Chunk) \o Frame(c, enc, data, k).data = data
<1>1. Len(data) \in Numbers /\ data \in Seq(Unit)
  BY EmptySeq DEF Body, Numbers
<1>2. (k - 1) * Chunk < Len(data) /\ Len(data) <= k * Chunk
  BY <1>1, FrameCountBounds
<1>3. (k - 1) * Chunk \in Nat /\ k * Chunk \in Nat
  BY ChunkAssumption
<1>4. SmallerOf(k * Chunk, Len(data)) = Len(data)
  BY <1>1, <1>2, <1>3 DEF SmallerOf, Numbers
<1>5. k # 1
  OBVIOUS
<1>6. Frame(c, enc, data, k).data = SubSeq(data, (k - 1) * Chunk + 1, Len(data))
  BY <1>4, <1>5 DEF Frame
<1>7. SubSeq(data, 1, (k - 1) * Chunk) \o SubSeq(data, (k - 1) * Chunk + 1, Len(data))
        = SubSeq(data, 1, Len(data))
  <2> DEFINE a == (k - 1) * Chunk
             b == Len(data)
  <2>1. a \in 0 .. Len(data) /\ b \in a .. Len(data) /\ 1 \in 1 .. Len(data) + 1
    BY <1>1, <1>2, <1>3 DEF Numbers
  <2> HIDE DEF a, b
  <2>2. SubSeq(data, 1, a) \o SubSeq(data, a + 1, b) = SubSeq(data, 1, b)
    BY <1>1, <2>1, ConcatAdjacentSubSeq
  <2>3. QED
    BY <2>2 DEF a, b
<1>8. SubSeq(data, 1, Len(data)) = data
  BY <1>1, SubSeqFull
<1>9. QED
  BY <1>6, <1>7, <1>8

(* A frame has its type. *)
LEMMA FrameType ==
  ASSUME NEW c \in Chans, NEW enc \in BOOLEAN, NEW data \in Body,
         NEW k \in 1 .. FrameCount(Len(data))
  PROVE  Frame(c, enc, data, k) \in Framed
<1> DEFINE a == (k - 1) * Chunk + 1
           b == SmallerOf(k * Chunk, Len(data))
<1>1. Len(data) \in Numbers /\ data \in Seq(Unit) /\ k \in Numbers
  BY EmptySeq, FrameCountBounds DEF Body, Numbers
<1>2. (k - 1) * Chunk \in Nat /\ k * Chunk \in Nat
  BY <1>1, ChunkAssumption DEF Numbers
<1>3. a \in Nat /\ a > 0 /\ b \in Nat /\ b <= Len(data)
  BY <1>1, <1>2 DEF SmallerOf, Numbers
<1> HIDE DEF a, b
<1>4. SubSeq(data, a, b) \in Seq(Unit)
  <2>1. \A i \in a .. b : data[i] \in Unit
    BY <1>1, <1>3, ElementOfSeq
  <2>2. QED
    BY <1>3, <2>1, SubSeqProperties
<1>5. QED
  BY <1>1, <1>4 DEF Frame, Framed, FrameTypes, Numbers, a, b

\* A message as it is carried: encrypted, or as it is.
Carried(x) ==
  [data |-> IF x.enc THEN Encrypt(x.data) ELSE x.data, enc |-> x.enc]

Count(x) == FrameCount(Len(x.data))

\* The frames of a message that is carried.
Frames(c, x) == [k \in 1 .. Count(x) |-> Frame(c, x.enc, x.data, k)]

(* encode() cuts the message as it is carried. *)
LEMMA EncodeFrames ==
  ASSUME NEW c \in Chans, NEW enc \in BOOLEAN, NEW payload
  PROVE  Encode(c, enc, payload)
           = Frames(c, Carried([data |-> payload, enc |-> enc]))
<1>1. CASE enc
  BY <1>1 DEF Encode, Frames, Carried, Count
<1>2. CASE ~ enc
  BY <1>2 DEF Encode, Frames, Carried, Count
<1>3. QED
  BY <1>1, <1>2

(* The frames of a message. *)
LEMMA FramesType ==
  ASSUME NEW c \in Chans, NEW x \in Message
  PROVE  /\ Count(x) \in Numbers
         /\ Frames(c, x) \in Seq(Framed)
         /\ Len(Frames(c, x)) = Count(x)
         /\ \A k \in 1 .. Count(x) :
              Frames(c, x)[k] = Frame(c, x.enc, x.data, k)
<1> DEFINE q == Count(x)
<1>1. q \in Numbers
  <2>1. x.data \in Body
    BY DEF Message
  <2>2. QED
    BY <2>1, SomeFrames DEF Count, Numbers
<1>2. Frames(c, x) = [k \in 1 .. q |-> Frame(c, x.enc, x.data, k)]
  BY DEF Frames
<1>3. \A k \in 1 .. q : Frame(c, x.enc, x.data, k) \in Framed
  <2>1. x.data \in Body /\ x.enc \in BOOLEAN
    BY DEF Message
  <2>2. QED
    BY <2>1, FrameType DEF Count
<1> HIDE DEF q
<1>4. Frames(c, x) \in [1 .. q -> Framed]
  BY <1>2, <1>3
<1>5. Frames(c, x) \in Seq(Framed) /\ Len(Frames(c, x)) = q
  <2> DEFINE e == Frames(c, x)
  <2>1. e \in [1 .. q -> Framed]
    BY <1>4
  <2> HIDE DEF e
  <2>2. e \in Seq(Framed) /\ Len(e) = q
    BY <1>1, <2>1, SeqDef DEF Numbers
  <2>3. QED
    BY <2>2 DEF e
<1>6. QED
  BY <1>1, <1>2, <1>5 DEF q

(* What is carried is a message as well. *)
LEMMA CarriedType ==
  ASSUME NEW x \in Message
  PROVE  Carried(x) \in Message /\ Carried(x).enc = x.enc
<1> DEFINE d == x.data
           n == Len(d)
           r == Encrypt(d)
<1>1. d \in Seq(Unit) /\ n \in Numbers /\ x.enc \in BOOLEAN
  BY SomeFrames DEF Message
<1>2. \A k \in 1 .. n : d[k][2] \in Nat
  <2>1. \A k \in 1 .. n : d[k] \in Unit
    BY <1>1, ElementOfSeq
  <2>2. QED
    BY <2>1 DEF Unit
<1>3. r = [k \in 1 .. n + 1 |-> IF k <= n THEN <<"cipher", d[k][2], k>>
                                         ELSE <<"cipher", d[1][2], k>>]
  BY DEF Encrypt
<1> HIDE DEF d, r, n
<1>4. ASSUME NEW k \in 1 .. n + 1
      PROVE  (IF k <= n THEN <<"cipher", d[k][2], k>>
                        ELSE <<"cipher", d[1][2], k>>) \in Unit
  <2>1. n \in Nat /\ 0 < n /\ k \in Nat /\ 1 \in 1 .. n
    BY <1>1 DEF Numbers
  <2>2. \A a \in Nat : <<"cipher", a, k>> \in Unit
    BY <2>1 DEF Unit
  <2>3. CASE k <= n
    <3>1. d[k][2] \in Nat
      BY <1>2, <2>1, <2>3
    <3>2. QED
      BY <2>2, <2>3, <3>1
  <2>4. CASE ~ (k <= n)
    <3>1. d[1][2] \in Nat
      BY <1>2, <2>1
    <3>2. QED
      BY <2>2, <2>4, <3>1
  <2>5. QED
    BY <2>3, <2>4
<1>5. r \in [1 .. n + 1 -> Unit]
  BY <1>3, <1>4
<1>6. n + 1 \in Nat /\ n + 1 > 0
  BY <1>1 DEF Numbers
<1>7. r \in Seq(Unit) /\ Len(r) = n + 1
  BY <1>5, <1>6, SeqDef
<1>8. r \in Body
  BY <1>6, <1>7, EmptySeq DEF Body
<1>9. d \in Body
  BY DEF Message, d
<1>10. QED
  BY <1>1, <1>8, <1>9 DEF Carried, Message, d, r

(* A payload is a body. *)
LEMMA PayloadType ==
  ASSUME NEW n \in Nat, NEW size \in Numbers
  PROVE  Payload(n, size) \in Body
<1>1. Payload(n, size) \in [1 .. size -> Unit]
  BY DEF Payload, Unit, Numbers
<1>2. Payload(n, size) \in Seq(Unit) /\ Len(Payload(n, size)) = size
  BY <1>1, SeqDef DEF Numbers
<1>3. QED
  BY <1>2 DEF Body, Numbers

-----------------------------------------------------------------------------
(* What is on the wire of a channel.                                       *)

\* The frames w under way are those of the messages s from some frame of some
\* message on: the i-th is the frame k[i] of the message m[i].
Wired(c, s, w, m, k) ==
  /\ m \in [1 .. Len(w) -> Numbers] /\ k \in [1 .. Len(w) -> Numbers]
  /\ \A i \in 1 .. Len(w) :
       /\ m[i] <= Len(s) /\ k[i] <= Count(s[m[i]])
       /\ w[i] = Frame(c, s[m[i]].enc, s[m[i]].data, k[i])
  /\ \A i \in 1 .. Len(w) - 1 :
       IF k[i] < Count(s[m[i]]) THEN m[i + 1] = m[i] /\ k[i + 1] = k[i] + 1
                                ELSE m[i + 1] = m[i] + 1 /\ k[i + 1] = 1
  /\ w # <<>> => m[Len(w)] = Len(s) /\ k[Len(w)] = Count(s[m[Len(w)]])

(* A frame under way. *)
LEMMA WiredAt ==
  ASSUME NEW c \in Chans, NEW s \in Seq(Message), NEW w \in Seq(Framed),
         NEW m, NEW k, Wired(c, s, w, m, k), NEW i \in 1 .. Len(w)
  PROVE  /\ m[i] \in 1 .. Len(s) /\ k[i] \in Numbers
         /\ k[i] <= Count(s[m[i]])
         /\ w[i] = Frame(c, s[m[i]].enc, s[m[i]].data, k[i])
<1>1. m[i] \in Numbers /\ k[i] \in Numbers
  BY DEF Wired
<1>2. /\ m[i] <= Len(s) /\ k[i] <= Count(s[m[i]])
      /\ w[i] = Frame(c, s[m[i]].enc, s[m[i]].data, k[i])
  BY DEF Wired
<1>3. m[i] \in 1 .. Len(s)
  BY <1>1, <1>2 DEF Numbers
<1>4. QED
  BY <1>1, <1>2, <1>3

\* The numbers of the frames after the first.
Later(w, m) == [i \in 1 .. Len(w) - 1 |-> m[i + 1]]

(* A frame is read. *)
LEMMA WiredTail ==
  ASSUME NEW c \in Chans, NEW s \in Seq(Message), NEW w \in Seq(Framed), w # <<>>,
         NEW m, NEW k, Wired(c, s, w, m, k)
  PROVE  Wired(c, s, Tail(w), Later(w, m), Later(w, k))
<1> DEFINE t == Tail(w)
           mm == Later(w, m)
           kk == Later(w, k)
<1>1. /\ Len(w) \in Nat /\ Len(w) > 0 /\ Len(t) = Len(w) - 1 /\ t \in Seq(Framed)
      /\ \A i \in 1 .. Len(t) : t[i] = w[i + 1]
  BY HeadTailProperties, EmptySeq
<1>2. m \in [1 .. Len(w) -> Numbers] /\ k \in [1 .. Len(w) -> Numbers]
  BY DEF Wired
<1>3. /\ mm = [i \in 1 .. Len(t) |-> m[i + 1]]
      /\ kk = [i \in 1 .. Len(t) |-> k[i + 1]]
  BY <1>1 DEF Later
<1>4. mm \in [1 .. Len(t) -> Numbers] /\ kk \in [1 .. Len(t) -> Numbers]
  BY <1>1, <1>2, <1>3
<1>5. \A i \in 1 .. Len(t) : mm[i] = m[i + 1] /\ kk[i] = k[i + 1] /\ i + 1 \in 1 .. Len(w)
  BY <1>1, <1>3
<1> HIDE DEF t, mm, kk
<1>6. ASSUME NEW i \in 1 .. Len(t)
      PROVE  /\ mm[i] <= Len(s) /\ kk[i] <= Count(s[mm[i]])
             /\ t[i] = Frame(c, s[mm[i]].enc, s[mm[i]].data, kk[i])
  BY <1>1, <1>5 DEF Wired
<1>7. ASSUME NEW i \in 1 .. Len(t) - 1
      PROVE  IF kk[i] < Count(s[mm[i]])
               THEN mm[i + 1] = mm[i] /\ kk[i + 1] = kk[i] + 1
               ELSE mm[i + 1] = mm[i] + 1 /\ kk[i + 1] = 1
  <2>1. i + 1 \in 1 .. Len(w) - 1 /\ i \in 1 .. Len(t) /\ i + 1 \in 1 .. Len(t)
    BY <1>1
  <2>2. /\ mm[i] = m[i + 1] /\ kk[i] = k[i + 1]
        /\ mm[i + 1] = m[(i + 1) + 1] /\ kk[i + 1] = k[(i + 1) + 1]
    BY <2>1, <1>5
  <2>3. QED
    BY <2>1, <2>2 DEF Wired
<1>8. t # <<>> => mm[Len(t)] = Len(s) /\ kk[Len(t)] = Count(s[mm[Len(t)]])
  <2> SUFFICES ASSUME t # <<>>
               PROVE  mm[Len(t)] = Len(s) /\ kk[Len(t)] = Count(s[mm[Len(t)]])
    OBVIOUS
  <2>1. Len(t) \in 1 .. Len(t) /\ Len(t) + 1 = Len(w)
    BY <1>1, EmptySeq
  <2>2. mm[Len(t)] = m[Len(w)] /\ kk[Len(t)] = k[Len(w)]
    BY <2>1, <1>5
  <2>3. QED
    BY <2>2 DEF Wired
<1>9. Wired(c, s, t, mm, kk)
  BY <1>4, <1>6, <1>7, <1>8 DEF Wired
<1>10. QED
  BY <1>9 DEF t, mm, kk

\* f is the frame k of a payload.
IsFrame(f, c, enc, data, k) == f = Frame(c, enc, data, k)

(* Which frame is read. *)
LEMMA WiredHead ==
  ASSUME NEW c \in Chans, NEW s \in Seq(Message), NEW w \in Seq(Framed), w # <<>>,
         NEW m, NEW k, Wired(c, s, w, m, k)
  PROVE  /\ m[1] \in 1 .. Len(s) /\ s[m[1]].data \in Body
         /\ k[1] \in 1 .. Count(s[m[1]]) /\ Count(s[m[1]]) \in Numbers
         /\ s[m[1]].enc \in BOOLEAN
         /\ IsFrame(Head(w), c, s[m[1]].enc, s[m[1]].data, k[1])
<1>1. /\ Len(w) \in Nat /\ Len(w) > 0 /\ Len(Tail(w)) = Len(w) - 1
      /\ Head(w) = w[1] /\ Len(s) \in Nat
  BY HeadTailProperties, EmptySeq
<1>2. /\ m[1] \in Numbers /\ k[1] \in Numbers
      /\ m[1] <= Len(s) /\ k[1] <= Count(s[m[1]])
      /\ Head(w) = Frame(c, s[m[1]].enc, s[m[1]].data, k[1])
  <2>1. 1 \in 1 .. Len(w)
    BY <1>1
  <2>2. QED
    BY <1>1, <2>1 DEF Wired
<1>3. m[1] \in 1 .. Len(s)
  BY <1>1, <1>2 DEF Numbers
<1>4. s[m[1]] \in Message
  BY <1>3, ElementOfSeq
<1>5. /\ s[m[1]].data \in Body /\ s[m[1]].enc \in BOOLEAN
      /\ Count(s[m[1]]) \in Numbers
  BY <1>4, FramesType DEF Message
<1>6. k[1] \in 1 .. Count(s[m[1]])
  BY <1>2, <1>5 DEF Numbers
<1>7. QED
  BY <1>2, <1>3, <1>5, <1>6 DEF IsFrame

(* Which frame is then the next: after the last of a message the first of the
   message after it, if that has been sent. *)
LEMMA WiredNext ==
  ASSUME NEW c \in Chans, NEW s \in Seq(Message), NEW w \in Seq(Framed), w # <<>>,
         NEW m, NEW k, Wired(c, s, w, m, k)
  PROVE  /\ k[1] = Count(s[m[1]]) /\ Tail(w) = <<>> => m[1] = Len(s)
         /\ k[1] = Count(s[m[1]]) /\ Tail(w) # <<>> =>
              Later(w, m)[1] = m[1] + 1 /\ Later(w, k)[1] = 1
         /\ k[1] < Count(s[m[1]]) =>
              Tail(w) # <<>> /\ Later(w, m)[1] = m[1] /\ Later(w, k)[1] = k[1] + 1
<1>1. /\ Len(w) \in Nat /\ Len(w) > 0 /\ Len(Tail(w)) = Len(w) - 1
      /\ Tail(w) \in Seq(Framed)
  BY HeadTailProperties, EmptySeq
<1>2. k[1] \in 1 .. Count(s[m[1]]) /\ Count(s[m[1]]) \in Numbers
  BY WiredHead
<1>3. k[1] \in Nat /\ Count(s[m[1]]) \in Nat /\ k[1] <= Count(s[m[1]])
  BY <1>2 DEF Numbers
<1>4. ASSUME Tail(w) = <<>>
      PROVE  m[1] = Len(s) /\ k[1] = Count(s[m[1]])
  <2>1. Len(w) = 1
    BY <1>1, <1>4
  <2>2. QED
    BY <2>1 DEF Wired
<1>5. ASSUME Tail(w) # <<>>
      PROVE  IF k[1] < Count(s[m[1]])
               THEN Later(w, m)[1] = m[1] /\ Later(w, k)[1] = k[1] + 1
               ELSE Later(w, m)[1] = m[1] + 1 /\ Later(w, k)[1] = 1
  <2>1. 1 \in 1 .. Len(w) - 1
    BY <1>1, <1>5, EmptySeq
  <2>2. Later(w, m)[1] = m[1 + 1] /\ Later(w, k)[1] = k[1 + 1]
    BY <2>1 DEF Later
  <2>3. QED
    BY <2>1, <2>2 DEF Wired
<1>6. QED
  BY <1>3, <1>4, <1>5

\* The numbers of the frames when a message of q frames has been added.
MessagesAfter(s, w, q, m) ==
  [i \in 1 .. Len(w) + q |-> IF i <= Len(w) THEN m[i] ELSE Len(s) + 1]
FramesAfter(w, q, k) ==
  [i \in 1 .. Len(w) + q |-> IF i <= Len(w) THEN k[i] ELSE i - Len(w)]

(* A message is sent. *)
LEMMA WiredSend ==
  ASSUME NEW c \in Chans, NEW s \in Seq(Message), NEW w \in Seq(Framed),
         NEW m, NEW k, Wired(c, s, w, m, k), NEW x \in Message
  PROVE  Wired(c, Append(s, x), w \o Frames(c, x),
               MessagesAfter(s, w, Count(x), m), FramesAfter(w, Count(x), k))
<1> DEFINE q == Count(x)
           e == Frames(c, x)
           ss == Append(s, x)
           ww == w \o e
           mm == MessagesAfter(s, w, q, m)
           kk == FramesAfter(w, q, k)
<1>1. /\ q \in Nat /\ q > 0 /\ e \in Seq(Framed) /\ Len(e) = q
      /\ \A j \in 1 .. q : e[j] = Frame(c, x.enc, x.data, j)
  BY FramesType DEF Numbers
<1>2. /\ Len(s) \in Nat /\ Len(ss) = Len(s) + 1
      /\ \A n \in 1 .. Len(s) : ss[n] = s[n]
      /\ ss[Len(s) + 1] = x
  BY AppendProperties
<1> HIDE DEF e, q, ss
<1>3. /\ Len(w) \in Nat /\ Len(ww) = Len(w) + q
      /\ \A i \in 1 .. Len(w) : ww[i] = w[i]
      /\ \A i \in Len(w) + 1 .. Len(w) + q : ww[i] = Frame(c, x.enc, x.data, i - Len(w))
  <2>1. /\ Len(w) \in Nat /\ Len(ww) = Len(w) + q
        /\ \A i \in 1 .. Len(w) + q :
             ww[i] = IF i <= Len(w) THEN w[i] ELSE e[i - Len(w)]
    <3>1. /\ Len(w \o e) = Len(w) + Len(e)
          /\ \A i \in 1 .. Len(w) + Len(e) :
               (w \o e)[i] = IF i <= Len(w) THEN w[i] ELSE e[i - Len(w)]
      BY <1>1, ConcatProperties
    <3>2. QED
      BY <1>1, <3>1
  <2> HIDE DEF ww
  <2>2. ASSUME NEW i \in Len(w) + 1 .. Len(w) + q
        PROVE  ww[i] = Frame(c, x.enc, x.data, i - Len(w))
    <3>1. i \in 1 .. Len(w) + q /\ ~ (i <= Len(w)) /\ i - Len(w) \in 1 .. q
      BY <1>1, <2>1
    <3>2. ww[i] = e[i - Len(w)]
      BY <2>1, <3>1
    <3>3. QED
      BY <1>1, <3>1, <3>2
  <2>3. ASSUME NEW i \in 1 .. Len(w)
        PROVE  ww[i] = w[i]
    BY <1>1, <2>1
  <2>4. QED
    BY <2>1, <2>2, <2>3
<1>4. /\ \A i \in 1 .. Len(w) : mm[i] = m[i] /\ kk[i] = k[i]
      /\ \A i \in Len(w) + 1 .. Len(w) + q : mm[i] = Len(s) + 1 /\ kk[i] = i - Len(w)
      /\ DOMAIN mm = 1 .. Len(w) + q /\ DOMAIN kk = 1 .. Len(w) + q
  BY <1>1, <1>3 DEF MessagesAfter, FramesAfter
<1>5. mm \in [1 .. Len(ww) -> Numbers] /\ kk \in [1 .. Len(ww) -> Numbers]
  <2>1. m \in [1 .. Len(w) -> Numbers] /\ k \in [1 .. Len(w) -> Numbers]
    BY DEF Wired
  <2>2. \A i \in 1 .. Len(w) + q :
          /\ (IF i <= Len(w) THEN m[i] ELSE Len(s) + 1) \in Numbers
          /\ (IF i <= Len(w) THEN k[i] ELSE i - Len(w)) \in Numbers
    BY <1>1, <1>2, <1>3, <2>1 DEF Numbers
  <2>3. QED
    BY <1>3, <2>2 DEF MessagesAfter, FramesAfter
<1> HIDE DEF ww, mm, kk
<1>6. ASSUME NEW i \in 1 .. Len(ww)
      PROVE  /\ mm[i] <= Len(ss) /\ kk[i] <= Count(ss[mm[i]])
             /\ ww[i] = Frame(c, ss[mm[i]].enc, ss[mm[i]].data, kk[i])
  <2>1. CASE i \in 1 .. Len(w)
    <3>1. mm[i] = m[i] /\ kk[i] = k[i] /\ ww[i] = w[i]
      BY <1>3, <1>4, <2>1
    <3>2. /\ m[i] \in 1 .. Len(s) /\ k[i] <= Count(s[m[i]])
          /\ w[i] = Frame(c, s[m[i]].enc, s[m[i]].data, k[i])
      <4>1. m[i] \in 1 .. Len(s)
        BY <2>1, WiredAt
      <4>2. k[i] <= Count(s[m[i]])
        BY <2>1 DEF Wired
      <4>3. w[i] = Frame(c, s[m[i]].enc, s[m[i]].data, k[i])
        BY <2>1 DEF Wired
      <4>4. QED
        BY <4>1, <4>2, <4>3
    <3>3. ss[m[i]] = s[m[i]] /\ m[i] <= Len(ss)
      BY <1>2, <3>2
    <3>4. QED
      BY <3>1, <3>2, <3>3
  <2>2. CASE i \in Len(w) + 1 .. Len(w) + q
    <3>1. mm[i] = Len(s) + 1 /\ kk[i] = i - Len(w) /\ i - Len(w) <= q
      BY <1>1, <1>3, <1>4, <2>2
    <3>2. ss[mm[i]] = x
      BY <1>2, <3>1
    <3>3. ww[i] = Frame(c, x.enc, x.data, kk[i])
      BY <1>3, <2>2, <3>1
    <3>4. mm[i] <= Len(ss) /\ Count(ss[mm[i]]) = q
      BY <1>2, <3>1, <3>2 DEF q
    <3>5. QED
      BY <3>1, <3>2, <3>3, <3>4
  <2>3. QED
    <3>1. i \in 1 .. Len(w) \/ i \in Len(w) + 1 .. Len(w) + q
      BY <1>1, <1>3
    <3>2. QED
      BY <2>1, <2>2, <3>1
<1>7. ASSUME NEW i \in 1 .. Len(ww) - 1
      PROVE  IF kk[i] < Count(ss[mm[i]])
               THEN mm[i + 1] = mm[i] /\ kk[i + 1] = kk[i] + 1
               ELSE mm[i + 1] = mm[i] + 1 /\ kk[i + 1] = 1
  <2>1. CASE i \in 1 .. Len(w) - 1
    <3>1. i \in 1 .. Len(w) /\ i + 1 \in 1 .. Len(w)
      BY <1>3, <2>1
    <3>2. /\ mm[i] = m[i] /\ kk[i] = k[i]
          /\ mm[i + 1] = m[i + 1] /\ kk[i + 1] = k[i + 1]
      BY <1>4, <3>1
    <3>3. m[i] \in 1 .. Len(s)
      BY <3>1, WiredAt
    <3>4. ss[mm[i]] = s[m[i]]
      BY <1>2, <3>2, <3>3
    <3>5. QED
      BY <2>1, <3>2, <3>4 DEF Wired
  <2>2. CASE i = Len(w)
    <3>1. i \in 1 .. Len(w) /\ i + 1 \in Len(w) + 1 .. Len(w) + q
      BY <1>1, <1>3, <2>2
    <3>2. /\ mm[i] = m[i] /\ kk[i] = k[i]
          /\ mm[i + 1] = Len(s) + 1 /\ kk[i + 1] = (i + 1) - Len(w)
      BY <1>4, <3>1
    <3>3. w # <<>>
      BY <3>1
    <3>4. m[i] = Len(s) /\ k[i] = Count(s[m[i]]) /\ m[i] \in 1 .. Len(s)
      BY <2>2, <3>1, <3>3, <1>2 DEF Wired, Numbers
    <3>5. ss[mm[i]] = s[m[i]] /\ k[i] \in Nat
      BY <1>2, <3>1, <3>2, <3>4 DEF Wired, Numbers
    <3>6. QED
      BY <1>2, <1>3, <2>2, <3>2, <3>4, <3>5
  <2>3. CASE i \in Len(w) + 1 .. Len(w) + q - 1
    <3>1. i \in Len(w) + 1 .. Len(w) + q /\ i + 1 \in Len(w) + 1 .. Len(w) + q
      BY <1>1, <1>3, <2>3
    <3>2. /\ mm[i] = Len(s) + 1 /\ kk[i] = i - Len(w)
          /\ mm[i + 1] = Len(s) + 1 /\ kk[i + 1] = (i + 1) - Len(w)
      BY <1>4, <3>1
    <3>3. Count(ss[mm[i]]) = q /\ i - Len(w) < q
      BY <1>1, <1>2, <1>3, <2>3, <3>2 DEF q
    <3>4. QED
      BY <1>3, <2>3, <3>2, <3>3
  <2>4. QED
    BY <1>1, <1>3, <2>1, <2>2, <2>3
<1>8. mm[Len(ww)] = Len(ss) /\ kk[Len(ww)] = Count(ss[mm[Len(ww)]])
  <2>1. Len(ww) \in Len(w) + 1 .. Len(w) + q
    BY <1>1, <1>3
  <2>2. mm[Len(ww)] = Len(s) + 1 /\ kk[Len(ww)] = q
    BY <1>1, <1>3, <1>4, <2>1
  <2>3. QED
    BY <1>2, <2>2 DEF q
<1>9. Wired(c, ss, ww, mm, kk)
  BY <1>5, <1>6, <1>7, <1>8 DEF Wired
<1>10. QED
  BY <1>9 DEF ss, ww, mm, kk, e, q

(* The kind of a frame tells its place. *)
LEMMA FrameKinds ==
  ASSUME NEW c \in Chans, NEW enc \in BOOLEAN, NEW data \in Body,
         NEW k \in 1 .. FrameCount(Len(data)),
         NEW f, IsFrame(f, c, enc, data, k)
  PROVE  /\ f.type \in FrameTypes
         /\ f.type = "BULK" => FrameCount(Len(data)) = 1 /\ k = 1
         /\ f.type = "FIRST" => FrameCount(Len(data)) > 1 /\ k = 1
         /\ f.type = "MIDDLE" => 1 < k /\ k < FrameCount(Len(data))
         /\ f.type = "LAST" => 1 < k /\ k = FrameCount(Len(data))
<1>1. FrameCount(Len(data)) \in Nat /\ FrameCount(Len(data)) > 0
  BY SomeFrames
<1>2. f.type \in FrameTypes
  BY FrameType DEF Framed, IsFrame
<1>3. k \in Nat /\ 0 < k /\ k <= FrameCount(Len(data))
  BY <1>1
<1>4. CASE FrameCount(Len(data)) = 1
  <2>1. f.type = "BULK"
    BY <1>4 DEF Frame, IsFrame
  <2>2. k = 1
    BY <1>3, <1>4
  <2>3. QED
    BY <1>2, <1>4, <2>1, <2>2
<1>5. CASE FrameCount(Len(data)) > 1 /\ k = 1
  <2>1. FrameCount(Len(data)) # 1 /\ FrameCount(Len(data)) # k
    BY <1>1, <1>5
  <2>2. f.type = "FIRST"
    BY <1>5, <2>1 DEF Frame, IsFrame
  <2>3. QED
    BY <1>2, <1>5, <2>2
<1>6. CASE FrameCount(Len(data)) > 1 /\ k = FrameCount(Len(data))
  <2>1. FrameCount(Len(data)) # 1 /\ k # 1 /\ 1 < k
    BY <1>1, <1>6
  <2>2. f.type = "LAST"
    BY <1>6, <2>1 DEF Frame, IsFrame
  <2>3. QED
    BY <1>2, <1>6, <2>1, <2>2
<1>7. CASE 1 < k /\ k < FrameCount(Len(data))
  <2>1. FrameCount(Len(data)) # 1 /\ k # 1 /\ k # FrameCount(Len(data))
    BY <1>1, <1>3, <1>7
  <2>2. f.type = "MIDDLE"
    BY <2>1 DEF Frame, IsFrame
  <2>3. QED
    BY <1>2, <1>7, <2>2
<1>8. \/ FrameCount(Len(data)) = 1
      \/ FrameCount(Len(data)) > 1 /\ k = 1
      \/ FrameCount(Len(data)) > 1 /\ k = FrameCount(Len(data))
      \/ 1 < k /\ k < FrameCount(Len(data))
  BY <1>1, <1>3
<1>9. QED
  BY <1>4, <1>5, <1>6, <1>7, <1>8

-----------------------------------------------------------------------------
(* The inductive invariant.                                                *)

\* The messages of a channel as they are carried.
carried ==
  [c \in Chans |-> [n \in 1 .. Len(sent[c]) |-> Carried(sent[c][n])]]

\* A message has been published as it was carried.
Arrived(c, n) ==
  /\ n <= Len(carried[c])
  /\ \E i \in 1 .. Len(published[c]) : published[c][i] = carried[c][n]

\* Only whole messages are published, as they are carried.
OnlyWholeCarried ==
  \A c \in Chans : \A i \in 1 .. Len(published[c]) :
    published[c][i] \in {carried[c][j] : j \in 1 .. Len(carried[c])}

Typed ==
  /\ sent \in [Chans -> Seq(Message)]
  /\ carried \in [Chans -> Seq(Message)]
  /\ \A c \in Chans : Len(carried[c]) = Len(sent[c])
  /\ wire \in [Chans -> Seq(Framed)]
  /\ published \in [Chans -> Seq(Message)]
  /\ DOMAIN buffers = Chans
  /\ fresh \in [Chans -> Nat]
  /\ \A c \in Chans : fresh[c] <= Len(carried[c])

\* What has been collected of a message before its frame k.
Collected(x, k) ==
  [enc   |-> x.enc,
   data  |-> SubSeq(x.data, 1, (k - 1) * Chunk),
   total |-> Len(x.data)]

\* A whole message of a channel; one of a single frame declares no total.
Whole(c, x) ==
  {[ch |-> c, enc |-> x.enc, data |-> x.data, total |-> t] : t \in {0, Len(x.data)}}

HasInHand == relay \in {"delete", "publish"}
Deletes(c) == relay = "delete" /\ inHand.ch = c

\* What the relay thread has in its hand is a whole message.
InHandIsWhole ==
  HasInHand =>
    \E c \in Chans : \E n \in 1 .. Len(carried[c]) : inHand \in Whole(c, carried[c][n])

Holds(c, n) == HasInHand /\ inHand \in Whole(c, carried[c][n])

\* The buffer of a channel holds what has been read of the message whose frame
\* comes next, unless its message is complete and about to be deleted.
Assembles(c, m, k) ==
  \/ buffers[c] = None
  \/ Deletes(c)
  \/ wire[c] # <<>> /\ k[1] > 1 /\ buffers[c] = Collected(carried[c][m[1]], k[1])

\* A message sent in the clear since the last reset is published, in hand, under
\* way, or in the buffer and under way.
Keeps(c, m, k) ==
  relay # "dead" =>
    /\ \A n \in fresh[c] + 1 .. Len(carried[c]) :
         ~ carried[c][n].enc /\ (wire[c] = <<>> \/ n < m[1]) =>
           Arrived(c, n) \/ Holds(c, n)
    /\ (wire[c] # <<>> /\ k[1] > 1 /\ m[1] > fresh[c]) => buffers[c] # None
    /\ Deletes(c) => wire[c] = <<>> \/ k[1] = 1

InOrder(c) ==
  \E m, k : /\ Wired(c, carried[c], wire[c], m, k)
            /\ Assembles(c, m, k)
            /\ Keeps(c, m, k)

Inv ==
  /\ Typed
  /\ InHandIsWhole
  /\ OnlyWholeCarried
  /\ \A c \in Chans : InOrder(c)

(* The initial state. *)
LEMMA InitInv == Init => Inv
<1> SUFFICES ASSUME Init PROVE Inv
  OBVIOUS
<1>0. \A c \in Chans : carried[c] = <<>>
  BY EmptySeq DEF Init, carried
<1>1. Typed
  <2>1. DOMAIN carried = Chans /\ carried = [c \in Chans |-> carried[c]]
    BY DEF carried
  <2>2. carried \in [Chans -> Seq(Message)]
    <3>1. \A c \in Chans : carried[c] \in Seq(Message)
      BY <1>0, EmptySeq
    <3>2. QED
      BY <2>1, <3>1
  <2>3. QED
    BY <1>0, <2>2, EmptySeq DEF Init, Typed
<1>2. InHandIsWhole /\ OnlyWholeCarried
  BY EmptySeq DEF Init, InHandIsWhole, HasInHand, OnlyWholeCarried
<1>3. ASSUME NEW c \in Chans
      PROVE  InOrder(c)
  <2> DEFINE e == [i \in 1 .. 0 |-> 1]
  <2>1. /\ carried[c] = <<>> /\ wire[c] = <<>> /\ Len(carried[c]) = 0 /\ Len(wire[c]) = 0
        /\ buffers[c] = None /\ fresh[c] = 0 /\ relay = "read"
    BY <1>0, EmptySeq DEF Init
  <2>2. e \in [1 .. 0 -> Numbers]
    BY DEF Numbers
  <2> HIDE DEF e
  <2>3. Wired(c, carried[c], wire[c], e, e)
    BY <2>1, <2>2 DEF Wired
  <2>4. Assembles(c, e, e) /\ Keeps(c, e, e)
    BY <2>1 DEF Assembles, Keeps, Deletes
  <2>5. QED
    BY <2>3, <2>4 DEF InOrder
<1>4. QED
  BY <1>1, <1>2, <1>3 DEF Inv

(* A channel that a step leaves alone, and whose message it does not have in
   its hand. *)
LEMMA Aside ==
  ASSUME NEW c \in Chans, InOrder(c), relay # "dead",
         ~ (HasInHand /\ inHand.ch = c), ~ Deletes(c)',
         carried'[c] = carried[c], wire'[c] = wire[c], buffers'[c] = buffers[c],
         published'[c] = published[c], fresh'[c] = fresh[c]
  PROVE  InOrder(c)'
<1>1. PICK m, k : /\ Wired(c, carried[c], wire[c], m, k)
                  /\ Assembles(c, m, k) /\ Keeps(c, m, k)
  BY DEF InOrder
<1>2. Wired(c, carried'[c], wire'[c], m, k)
  BY <1>1
<1>3. ~ Deletes(c) /\ \A n : ~ Holds(c, n)
  BY DEF Deletes, HasInHand, Holds, Whole
<1>4. Assembles(c, m, k)'
  BY <1>1, <1>3 DEF Assembles
<1>5. Keeps(c, m, k)'
  BY <1>1, <1>3 DEF Keeps, Arrived
<1>6. QED
  BY <1>2, <1>4, <1>5 DEF InOrder

(* A step that changes nothing of a channel and of the message in hand. *)
LEMMA Untouched ==
  ASSUME NEW c \in Chans, InOrder(c), UNCHANGED <<relay, inHand>>,
         carried'[c] = carried[c], wire'[c] = wire[c], buffers'[c] = buffers[c],
         published'[c] = published[c], fresh'[c] = fresh[c]
  PROVE  InOrder(c)'
<1>1. PICK m, k : /\ Wired(c, carried[c], wire[c], m, k)
                  /\ Assembles(c, m, k) /\ Keeps(c, m, k)
  BY DEF InOrder
<1>2. Wired(c, carried'[c], wire'[c], m, k)
  BY <1>1
<1>3. Assembles(c, m, k)'
  BY <1>1 DEF Assembles, Deletes
<1>4. Keeps(c, m, k)'
  BY <1>1 DEF Keeps, Deletes, Arrived, Holds, HasInHand
<1>5. QED
  BY <1>2, <1>3, <1>4 DEF InOrder

-----------------------------------------------------------------------------
(* The phone.                                                              *)

(* A message is sent. *)
LEMMA SendKeeps ==
  ASSUME Inv, NEW c \in Chans, PhoneSend(c)
  PROVE  Inv'
<1>1. PICK size \in Sizes, enc \in Encryptions :
        /\ sent' = [sent EXCEPT ![c] =
             Append(@, [data |-> Payload(Len(sent[c]) + 1, size), enc |-> enc])]
        /\ wire' = [wire EXCEPT ![c] =
             @ \o Encode(c, enc, Payload(Len(sent[c]) + 1, size))]
  BY DEF PhoneSend
<1>2. UNCHANGED <<buffers, relay, inHand, published, fresh>>
  BY DEF PhoneSend
<1> DEFINE y == [data |-> Payload(Len(sent[c]) + 1, size), enc |-> enc]
           x == Carried(y)
           e == Frames(c, x)
<1>3. /\ carried[c] \in Seq(Message) /\ wire[c] \in Seq(Framed)
      /\ Len(carried[c]) \in Nat
      /\ sent[c] \in Seq(Message) /\ Len(sent[c]) = Len(carried[c])
  BY DEF Inv, Typed
<1>4. y \in Message /\ x \in Message
  <2>1. size \in Numbers
    BY SizesAssumption DEF Numbers
  <2>2. Payload(Len(sent[c]) + 1, size) \in Body
    BY <1>3, <2>1, PayloadType
  <2>3. enc \in BOOLEAN
    BY EncryptionsAssumption
  <2>4. y \in Message
    BY <2>2, <2>3 DEF Message
  <2>5. QED
    BY <2>4, CarriedType
<1>5. /\ sent' = [sent EXCEPT ![c] = Append(sent[c], y)]
      /\ wire' = [wire EXCEPT ![c] = wire[c] \o e]
  <2>1. enc \in BOOLEAN
    BY EncryptionsAssumption
  <2>2. e = Encode(c, enc, Payload(Len(sent[c]) + 1, size))
    BY <2>1, EncodeFrames
  <2> HIDE DEF e
  <2>3. QED
    BY <1>1, <2>2
<1>6. e \in Seq(Framed) /\ Len(e) = Count(x) /\ Count(x) \in Nat /\ Count(x) > 0
  <2> HIDE DEF x
  <2>1. QED
    BY <1>4, FramesType DEF Numbers
<1> HIDE DEF e
<1>6a. /\ carried'[c] = Append(carried[c], x)
       /\ \A d \in Chans \ {c} : carried'[d] = carried[d] /\ sent'[d] = sent[d]
       /\ sent' \in [Chans -> Seq(Message)]
       /\ Len(sent'[c]) = Len(sent[c]) + 1
  <2> HIDE DEF y
  <2>1. /\ sent'[c] = Append(sent[c], y)
        /\ \A d \in Chans \ {c} : sent'[d] = sent[d]
        /\ sent' \in [Chans -> Seq(Message)]
    BY <1>3, <1>4, <1>5 DEF Inv, Typed
  <2>2. /\ Len(sent'[c]) = Len(sent[c]) + 1 /\ Len(sent[c]) \in Nat
        /\ \A n \in 1 .. Len(sent[c]) : sent'[c][n] = sent[c][n]
        /\ sent'[c][Len(sent[c]) + 1] = y
    BY <1>3, <1>4, <2>1, AppendProperties
  <2>3. /\ carried[c] = [n \in 1 .. Len(sent[c]) |-> Carried(sent[c][n])]
        /\ carried'[c] = [n \in 1 .. Len(sent[c]) + 1 |-> Carried(sent'[c][n])]
    BY <2>2 DEF carried
  <2>4. /\ Append(carried[c], x) \in Seq(Message)
        /\ Len(Append(carried[c], x)) = Len(sent[c]) + 1
        /\ \A n \in 1 .. Len(sent[c]) : Append(carried[c], x)[n] = carried[c][n]
        /\ Append(carried[c], x)[Len(sent[c]) + 1] = x
    BY <1>3, <1>4, AppendProperties
  <2>5. /\ carried'[c] \in Seq(Message)
        /\ Len(carried'[c]) = Len(sent[c]) + 1
    <3>1. Len(sent[c]) + 1 \in Nat
      BY <2>2
    <3>2. \A n \in 1 .. Len(sent[c]) + 1 : sent'[c][n] \in Message
      <4>1. sent'[c] \in Seq(Message)
        BY <2>1
      <4>2. QED
        BY <2>2, <4>1, ElementOfSeq
    <3>3. \A n \in 1 .. Len(sent[c]) + 1 : Carried(sent'[c][n]) \in Message
      BY <3>2, CarriedType
    <3>4. carried'[c] \in [1 .. Len(sent[c]) + 1 -> Message]
      BY <2>3, <3>3
    <3>5. QED
      BY <3>1, <3>4, SeqDef
  <2>6. carried'[c] = Append(carried[c], x)
    <3>1. ASSUME NEW n \in 1 .. Len(sent[c]) + 1
          PROVE  carried'[c][n] = Append(carried[c], x)[n]
      <4>1. carried'[c][n] = Carried(sent'[c][n])
        BY <2>3
      <4>2. CASE n \in 1 .. Len(sent[c])
        <5>1. carried[c][n] = Carried(sent[c][n])
          BY <2>3, <4>2
        <5>2. QED
          BY <2>2, <2>4, <4>1, <4>2, <5>1
      <4>3. CASE n = Len(sent[c]) + 1
        BY <2>2, <2>4, <4>1, <4>3
      <4>4. n \in 1 .. Len(sent[c]) \/ n = Len(sent[c]) + 1
        <5>1. Len(sent[c]) \in Nat
          BY <2>2
        <5>2. QED
          BY <5>1
      <4>5. QED
        BY <4>2, <4>3, <4>4
    <3>2. QED
      BY <2>4, <2>5, <3>1, SeqEqual
  <2>7. \A d \in Chans \ {c} : carried'[d] = carried[d]
    BY <2>1 DEF carried
  <2>8. QED
    BY <2>1, <2>2, <2>6, <2>7
<1> HIDE DEF x, y
<1>7. /\ carried'[c] = Append(carried[c], x)
      /\ Len(carried'[c]) = Len(carried[c]) + 1
      /\ \A n \in 1 .. Len(carried[c]) : carried'[c][n] = carried[c][n]
      /\ carried'[c] \in Seq(Message)
      /\ \A d \in Chans \ {c} : carried'[d] = carried[d]
  <2>1. /\ carried'[c] = Append(carried[c], x)
        /\ \A d \in Chans \ {c} : carried'[d] = carried[d]
    BY <1>6a
  <2>2. QED
    BY <1>3, <1>4, <2>1, AppendProperties
<1>8. /\ wire'[c] = wire[c] \o e
      /\ wire'[c] \in Seq(Framed)
      /\ Len(wire'[c]) = Len(wire[c]) + Count(x)
      /\ \A d \in Chans \ {c} : wire'[d] = wire[d]
  <2>1. wire'[c] = wire[c] \o e /\ \A d \in Chans \ {c} : wire'[d] = wire[d]
    BY <1>5 DEF Inv, Typed
  <2>2. wire[c] \o e \in Seq(Framed) /\ Len(wire[c] \o e) = Len(wire[c]) + Len(e)
    BY <1>3, <1>6, ConcatProperties
  <2>3. QED
    BY <1>6, <2>1, <2>2
<1>9. \A d \in Chans : \A n \in 1 .. Len(carried[d]) :
        n \in 1 .. Len(carried'[d]) /\ carried'[d][n] = carried[d][n]
  <2>1. ASSUME NEW n \in 1 .. Len(carried[c])
        PROVE  n \in 1 .. Len(carried'[c]) /\ carried'[c][n] = carried[c][n]
    BY <1>3, <1>7
  <2>2. ASSUME NEW d \in Chans \ {c} PROVE carried'[d] = carried[d]
    BY <1>7
  <2>3. QED
    BY <2>1, <2>2
<1>10. Typed'
  <2>1. carried' \in [Chans -> Seq(Message)] /\ wire' \in [Chans -> Seq(Framed)]
    <3>1. \A d \in Chans : carried[d] \in Seq(Message)
      BY DEF Inv, Typed
    <3>2. \A d \in Chans : carried'[d] \in Seq(Message)
      BY <1>7, <3>1
    <3>3. carried' \in [Chans -> Seq(Message)]
      BY <3>2 DEF carried
    <3>4. wire' \in [Chans -> Seq(Framed)]
      BY <1>5, <1>8 DEF Inv, Typed
    <3>5. QED
      BY <3>3, <3>4
  <2>2. \A d \in Chans : fresh'[d] <= Len(carried'[d])
    <3>1. \A d \in Chans : fresh[d] \in Nat /\ fresh[d] <= Len(carried[d])
      BY DEF Inv, Typed
    <3>2. QED
      BY <1>2, <1>3, <1>7, <3>1
  <2>3. QED
    <3>1. ASSUME NEW d \in Chans
          PROVE  Len(carried'[d]) = Len(sent'[d])
      <4>1. CASE d = c
        BY <1>3, <1>6a, <1>7, <4>1
      <4>2. CASE d # c
        <5>1. carried'[d] = carried[d] /\ sent'[d] = sent[d]
          BY <1>6a, <4>2
        <5>2. QED
          BY <5>1 DEF Inv, Typed
      <4>3. QED
        BY <4>1, <4>2
    <3>2. /\ published' \in [Chans -> Seq(Message)] /\ DOMAIN buffers' = Chans
          /\ fresh' \in [Chans -> Nat]
      BY <1>2 DEF Inv, Typed
    <3>3. sent' \in [Chans -> Seq(Message)]
      BY <1>6a
    <3>4. QED
      BY <2>1, <2>2, <3>1, <3>2, <3>3 DEF Typed
<1>11. InHandIsWhole'
  <2> SUFFICES ASSUME HasInHand'
               PROVE  \E d \in Chans : \E n \in 1 .. Len(carried'[d]) :
                        inHand' \in Whole(d, carried'[d][n])
    BY DEF InHandIsWhole
  <2>1. PICK d \in Chans : \E n \in 1 .. Len(carried[d]) : inHand \in Whole(d, carried[d][n])
    BY <1>2 DEF Inv, InHandIsWhole, HasInHand
  <2>2. PICK n \in 1 .. Len(carried[d]) : inHand \in Whole(d, carried[d][n])
    BY <2>1
  <2>3. QED
    BY <1>2, <1>9, <2>2
<1>12. OnlyWholeCarried'
  <2> SUFFICES ASSUME NEW d \in Chans, NEW i \in 1 .. Len(published'[d])
               PROVE  \E j \in 1 .. Len(carried'[d]) : published'[d][i] = carried'[d][j]
    BY DEF OnlyWholeCarried
  <2>1. PICK j \in 1 .. Len(carried[d]) : published[d][i] = carried[d][j]
    BY <1>2 DEF Inv, OnlyWholeCarried
  <2>2. QED
    BY <1>2, <1>9, <2>1
<1>13. InOrder(c)'
  <2>1. PICK m, k : /\ Wired(c, carried[c], wire[c], m, k)
                    /\ Assembles(c, m, k) /\ Keeps(c, m, k)
    BY DEF Inv, InOrder
  <2>2. PICK mm, kk : /\ mm = MessagesAfter(carried[c], wire[c], Count(x), m)
                      /\ kk = FramesAfter(wire[c], Count(x), k)
                      /\ Wired(c, carried'[c], wire'[c], mm, kk)
    <3>1. Wired(c, carried'[c], wire'[c], MessagesAfter(carried[c], wire[c], Count(x), m),
                FramesAfter(wire[c], Count(x), k))
      BY <1>3, <1>4, <1>7, <1>8, <2>1, WiredSend DEF e
    <3>2. QED
      BY <3>1
  <2>3. /\ wire[c] # <<>> => mm[1] = m[1] /\ kk[1] = k[1] /\ m[1] \in 1 .. Len(carried[c])
        /\ wire[c] = <<>> => mm[1] = Len(carried[c]) + 1 /\ kk[1] = 1
        /\ wire'[c] # <<>>
    <3>1. Len(wire[c]) \in Nat /\ (wire[c] # <<>> => Len(wire[c]) > 0)
          /\ (wire[c] = <<>> => Len(wire[c]) = 0)
      BY <1>3, EmptySeq
    <3>2. 1 \in 1 .. Len(wire[c]) + Count(x)
      BY <1>6, <3>1
    <3>3. /\ mm[1] = IF 1 <= Len(wire[c]) THEN m[1] ELSE Len(carried[c]) + 1
          /\ kk[1] = IF 1 <= Len(wire[c]) THEN k[1] ELSE 1 - Len(wire[c])
      BY <2>2, <3>2 DEF MessagesAfter, FramesAfter
    <3>4. wire[c] # <<>> => m[1] \in 1 .. Len(carried[c])
      BY <1>3, <2>1, WiredHead
    <3>5. wire'[c] # <<>>
      BY <1>6, <1>8, <3>1, EmptySeq
    <3>6. QED
      BY <3>1, <3>3, <3>4, <3>5
  <2>4. Assembles(c, mm, kk)'
    <3>1. CASE buffers[c] = None
      BY <1>2, <3>1 DEF Assembles
    <3>2. CASE Deletes(c)
      BY <1>2, <3>2 DEF Assembles, Deletes
    <3>3. CASE wire[c] # <<>> /\ k[1] > 1 /\ buffers[c] = Collected(carried[c][m[1]], k[1])
      <4>1. mm[1] = m[1] /\ kk[1] = k[1] /\ carried'[c][mm[1]] = carried[c][m[1]]
        BY <1>7, <2>3, <3>3
      <4>2. buffers'[c] = Collected(carried'[c][mm[1]], kk[1])
        BY <1>2, <3>3, <4>1
      <4>3. QED
        BY <2>3, <3>3, <4>1, <4>2 DEF Assembles
    <3>4. QED
      BY <2>1, <3>1, <3>2, <3>3 DEF Assembles
  <2>5. Keeps(c, mm, kk)'
    <3> SUFFICES ASSUME relay # "dead"
                 PROVE  /\ \A n \in fresh[c] + 1 .. Len(carried'[c]) :
                             ~ carried'[c][n].enc /\ n < mm[1] =>
                               Arrived(c, n)' \/ Holds(c, n)'
                        /\ (kk[1] > 1 /\ mm[1] > fresh[c]) => buffers[c] # None
                        /\ Deletes(c)' => kk[1] = 1
      BY <1>2, <2>3 DEF Keeps
    <3>1. ASSUME NEW n \in fresh[c] + 1 .. Len(carried'[c]), n < mm[1],
                 ~ carried'[c][n].enc
          PROVE  Arrived(c, n)' \/ Holds(c, n)'
      <4>1. fresh[c] \in Nat
        BY DEF Inv, Typed
      <4>2. n \in fresh[c] + 1 .. Len(carried[c]) /\ (wire[c] = <<>> \/ n < m[1])
            /\ n \in 1 .. Len(carried[c])
        BY <1>3, <1>7, <2>3, <3>1, <4>1
      <4>3. carried'[c][n] = carried[c][n] /\ n <= Len(carried'[c])
        BY <1>3, <1>7, <4>2
      <4>4. Arrived(c, n) \/ Holds(c, n)
        BY <2>1, <3>1, <4>2, <4>3 DEF Keeps
      <4>5. QED
        BY <1>2, <4>3, <4>4 DEF Arrived, Holds, HasInHand
    <3>2. (kk[1] > 1 /\ mm[1] > fresh[c]) => buffers[c] # None
      BY <2>1, <2>3 DEF Keeps
    <3>3. Deletes(c)' => kk[1] = 1
      BY <1>2, <2>1, <2>3 DEF Keeps, Deletes
    <3>4. QED
      BY <3>1, <3>2, <3>3
  <2>6. QED
    BY <2>2, <2>4, <2>5 DEF InOrder
<1>14. \A d \in Chans \ {c} : InOrder(d)'
  BY <1>2, <1>7, <1>8, Untouched DEF Inv
<1>15. QED
  BY <1>10, <1>11, <1>12, <1>13, <1>14 DEF Inv

-----------------------------------------------------------------------------
(* The relay thread.                                                       *)

(* What a read changes, and what it does not. *)
LEMMA Reading ==
  ASSUME Typed, NEW c \in Chans, Read(c)
  PROVE  /\ relay = "read" /\ ~ HasInHand /\ ~ Deletes(c)
         /\ wire[c] # <<>> /\ wire'[c] = Tail(wire[c])
         /\ wire' \in [Chans -> Seq(Framed)]
         /\ \A d \in Chans \ {c} : wire'[d] = wire[d]
         /\ UNCHANGED <<sent, carried, published, fresh>>
<1>1. /\ relay = "read" /\ wire[c] # <<>>
      /\ wire' = [wire EXCEPT ![c] = Tail(wire[c])]
      /\ UNCHANGED <<sent, carried, published, fresh>>
  BY DEF Read, carried
<1>2. wire[c] \in Seq(Framed) /\ Tail(wire[c]) \in Seq(Framed)
  BY <1>1, HeadTailProperties DEF Typed
<1>3. ~ HasInHand /\ ~ Deletes(c)
  BY <1>1 DEF HasInHand, Deletes
<1>4. QED
  BY <1>1, <1>2, <1>3 DEF Typed

(* The frame that is read. *)
LEMMA ReadsFrame ==
  ASSUME Typed, NEW c \in Chans, Read(c), NEW m, NEW k,
         Wired(c, carried[c], wire[c], m, k)
  PROVE  /\ m[1] \in 1 .. Len(carried[c]) /\ carried[c][m[1]].data \in Body
         /\ k[1] \in 1 .. Count(carried[c][m[1]]) /\ Count(carried[c][m[1]]) \in Numbers
         /\ carried[c][m[1]].enc \in BOOLEAN
         /\ IsFrame(Head(wire[c]), c, carried[c][m[1]].enc, carried[c][m[1]].data, k[1])
<1>1. carried[c] \in Seq(Message) /\ wire[c] \in Seq(Framed) /\ wire[c] # <<>>
  BY Reading DEF Typed
<1>2. QED
  BY <1>1, WiredHead

(* Which frame is then the next. *)
LEMMA ReadsOn ==
  ASSUME Typed, NEW c \in Chans, Read(c), NEW m, NEW k,
         Wired(c, carried[c], wire[c], m, k)
  PROVE  \E mm, kk :
           /\ Wired(c, carried'[c], wire'[c], mm, kk)
           /\ k[1] = Count(carried[c][m[1]]) /\ wire'[c] = <<>> => m[1] = Len(carried[c])
           /\ k[1] = Count(carried[c][m[1]]) /\ wire'[c] # <<>> =>
                mm[1] = m[1] + 1 /\ kk[1] = 1
           /\ k[1] < Count(carried[c][m[1]]) =>
                wire'[c] # <<>> /\ mm[1] = m[1] /\ kk[1] = k[1] + 1
<1>1. carried[c] \in Seq(Message) /\ wire[c] \in Seq(Framed) /\ wire[c] # <<>>
  BY Reading DEF Typed
<1>2. wire'[c] = Tail(wire[c]) /\ carried'[c] = carried[c]
  BY Reading
<1>3. Wired(c, carried[c], Tail(wire[c]), Later(wire[c], m), Later(wire[c], k))
  BY <1>1, WiredTail
<1>4. /\ k[1] = Count(carried[c][m[1]]) /\ Tail(wire[c]) = <<>> => m[1] = Len(carried[c])
      /\ k[1] = Count(carried[c][m[1]]) /\ Tail(wire[c]) # <<>> =>
           Later(wire[c], m)[1] = m[1] + 1 /\ Later(wire[c], k)[1] = 1
      /\ k[1] < Count(carried[c][m[1]]) =>
           /\ Tail(wire[c]) # <<>> /\ Later(wire[c], m)[1] = m[1]
           /\ Later(wire[c], k)[1] = k[1] + 1
  BY <1>1, WiredNext
<1>5. QED
  BY <1>2, <1>3, <1>4

(* The frame that is read is the one after those collected. *)
LEMMA ReadsNext ==
  ASSUME Typed, NEW c \in Chans, Read(c), NEW m, NEW k,
         Wired(c, carried[c], wire[c], m, k), Assembles(c, m, k), Keeps(c, m, k)
  PROVE  /\ carried[c][m[1]] \in Message /\ carried[c][m[1]].data \in Body
         /\ m[1] \in 1 .. Len(carried[c])
         /\ k[1] \in 1 .. FrameCount(Len(carried[c][m[1]].data))
         /\ carried[c][m[1]].enc \in BOOLEAN
         /\ IsFrame(Head(wire[c]), c, carried[c][m[1]].enc, carried[c][m[1]].data, k[1])
         /\ buffers[c] = None \/ (k[1] > 1 /\ buffers[c] = Collected(carried[c][m[1]], k[1]))
         /\ k[1] > 1 /\ m[1] > fresh[c] => buffers[c] # None
         /\ \A n \in fresh[c] + 1 .. Len(carried[c]) :
              ~ carried[c][n].enc /\ n < m[1] => Arrived(c, n)
<1>1. carried[c] \in Seq(Message) /\ wire[c] \in Seq(Framed)
  BY DEF Typed
<1>2. wire[c] # <<>> /\ ~ HasInHand /\ ~ Deletes(c) /\ relay = "read"
  BY Reading
<1>3. /\ m[1] \in 1 .. Len(carried[c]) /\ carried[c][m[1]].data \in Body
      /\ k[1] \in 1 .. FrameCount(Len(carried[c][m[1]].data))
      /\ carried[c][m[1]].enc \in BOOLEAN
      /\ IsFrame(Head(wire[c]), c, carried[c][m[1]].enc, carried[c][m[1]].data, k[1])
  BY ReadsFrame DEF Count
<1>4. carried[c][m[1]] \in Message
  BY <1>1, <1>3, ElementOfSeq
<1>5. buffers[c] = None \/ (k[1] > 1 /\ buffers[c] = Collected(carried[c][m[1]], k[1]))
  BY <1>2 DEF Assembles
<1>6. /\ k[1] > 1 /\ m[1] > fresh[c] => buffers[c] # None
      /\ \A n \in fresh[c] + 1 .. Len(carried[c]) :
           ~ carried[c][n].enc /\ n < m[1] => Arrived(c, n)
  BY <1>2 DEF Keeps, Holds
<1>7. QED
  BY <1>3, <1>4, <1>5, <1>6

(* The frame completes its message, which is in hand, or is dropped because of a
   reset. *)
LEMMA Completed ==
  ASSUME Typed, NEW c \in Chans, Read(c), NEW m, NEW k,
         Wired(c, carried[c], wire[c], m, k), Assembles(c, m, k), Keeps(c, m, k),
         k[1] = Count(carried[c][m[1]]),
         m[1] > fresh[c] => Holds(c, m[1])',
         buffers'[c] = None \/ Deletes(c)'
  PROVE  InOrder(c)'
<1> DEFINE x == carried[c][m[1]]
<1>1. /\ carried[c] \in Seq(Message) /\ wire[c] \in Seq(Framed) /\ fresh[c] \in Nat
      /\ Len(carried[c]) \in Nat
  BY DEF Typed
<1>2. /\ wire[c] # <<>> /\ wire'[c] = Tail(wire[c])
      /\ UNCHANGED <<sent, carried, published, fresh>>
  BY Reading
<1>3. PICK mm, kk :
        /\ Wired(c, carried'[c], wire'[c], mm, kk)
        /\ k[1] = Count(x) /\ wire'[c] = <<>> => m[1] = Len(carried[c])
        /\ k[1] = Count(x) /\ wire'[c] # <<>> => mm[1] = m[1] + 1 /\ kk[1] = 1
        /\ k[1] < Count(x) => wire'[c] # <<>> /\ mm[1] = m[1] /\ kk[1] = k[1] + 1
  BY ReadsOn
<1>4. /\ m[1] \in 1 .. Len(carried[c])
      /\ \A n \in fresh[c] + 1 .. Len(carried[c]) :
           ~ carried[c][n].enc /\ n < m[1] => Arrived(c, n)
  BY ReadsNext
<1>5. /\ wire'[c] = <<>> => m[1] = Len(carried[c])
      /\ wire'[c] # <<>> => mm[1] = m[1] + 1 /\ kk[1] = 1
  BY <1>3
<1>6. Assembles(c, mm, kk)'
  BY DEF Assembles
<1>7. Keeps(c, mm, kk)'
  <2>1. ASSUME NEW n \in fresh'[c] + 1 .. Len(carried'[c]),
               ~ carried'[c][n].enc, wire'[c] = <<>> \/ n < mm[1]
        PROVE  Arrived(c, n)' \/ Holds(c, n)'
    <3>1. n \in fresh[c] + 1 .. Len(carried[c]) /\ n <= m[1]
      BY <1>1, <1>2, <1>4, <1>5, <2>1
    <3>2. CASE n < m[1]
      BY <1>2, <1>4, <2>1, <3>1, <3>2 DEF Arrived
    <3>3. CASE n = m[1]
      BY <1>1, <3>1, <3>3
    <3>4. QED
      BY <1>1, <1>4, <3>1, <3>2, <3>3
  <2>2. ~ (wire'[c] # <<>> /\ kk[1] > 1)
    BY <1>5
  <2>3. wire'[c] = <<>> \/ kk[1] = 1
    BY <1>5
  <2>4. QED
    BY <2>1, <2>2, <2>3 DEF Keeps
<1>8. QED
  BY <1>3, <1>6, <1>7 DEF InOrder

(* The frame is not the last of its message. *)
LEMMA Continued ==
  ASSUME Typed, NEW c \in Chans, Read(c), NEW m, NEW k,
         Wired(c, carried[c], wire[c], m, k), Assembles(c, m, k), Keeps(c, m, k),
         k[1] < Count(carried[c][m[1]]), relay' = "read",
         \/ buffers'[c] = Collected(carried[c][m[1]], k[1] + 1)
         \/ buffers'[c] = None /\ m[1] <= fresh[c]
  PROVE  InOrder(c)'
<1> DEFINE x == carried[c][m[1]]
<1>1. /\ carried[c] \in Seq(Message) /\ wire[c] \in Seq(Framed) /\ fresh[c] \in Nat
      /\ Len(carried[c]) \in Nat
  BY DEF Typed
<1>2. /\ wire[c] # <<>> /\ wire'[c] = Tail(wire[c])
      /\ UNCHANGED <<sent, carried, published, fresh>>
  BY Reading
<1>3. PICK mm, kk :
        /\ Wired(c, carried'[c], wire'[c], mm, kk)
        /\ k[1] = Count(x) /\ wire'[c] = <<>> => m[1] = Len(carried[c])
        /\ k[1] = Count(x) /\ wire'[c] # <<>> => mm[1] = m[1] + 1 /\ kk[1] = 1
        /\ k[1] < Count(x) => wire'[c] # <<>> /\ mm[1] = m[1] /\ kk[1] = k[1] + 1
  BY ReadsOn
<1>4. /\ m[1] \in 1 .. Len(carried[c])
      /\ \A n \in fresh[c] + 1 .. Len(carried[c]) :
           ~ carried[c][n].enc /\ n < m[1] => Arrived(c, n)
  BY ReadsNext
<1>5. wire'[c] # <<>> /\ mm[1] = m[1] /\ kk[1] = k[1] + 1 /\ kk[1] > 1
  <2>1. wire'[c] # <<>> /\ mm[1] = m[1] /\ kk[1] = k[1] + 1
    BY <1>3
  <2>2. k[1] \in 1 .. Count(x) /\ Count(x) \in Numbers
    BY ReadsFrame
  <2>3. QED
    BY <2>1, <2>2
<1>6. ~ Deletes(c)'
  BY DEF Deletes
<1>7. Assembles(c, mm, kk)'
  BY <1>2, <1>5 DEF Assembles
<1>8. Keeps(c, mm, kk)'
  <2>1. ASSUME NEW n \in fresh'[c] + 1 .. Len(carried'[c]), n < mm[1],
               ~ carried'[c][n].enc
        PROVE  Arrived(c, n)'
    BY <1>2, <1>4, <1>5, <2>1 DEF Arrived
  <2>2. m[1] > fresh'[c] => buffers'[c] # None
    <3>1. Collected(x, k[1] + 1) # None
      BY DEF Collected, None
    <3>2. QED
      BY <1>1, <1>2, <1>4, <3>1
  <2>3. QED
    BY <1>5, <1>6, <2>1, <2>2 DEF Keeps
<1>9. QED
  BY <1>3, <1>7, <1>8 DEF InOrder

(* A frame has been fed to the assembler: the other channels, and what is
   published. *)
LEMMA FeedKeeps ==
  ASSUME Inv, NEW c \in Chans, Read(c), InOrder(c)',
         DOMAIN buffers' = Chans, \A d \in Chans \ {c} : buffers'[d] = buffers[d],
         HasInHand' => \E n \in 1 .. Len(carried[c]) : inHand' \in Whole(c, carried[c][n])
  PROVE  Inv'
<1>1. /\ relay = "read" /\ ~ HasInHand
      /\ wire' \in [Chans -> Seq(Framed)]
      /\ \A d \in Chans \ {c} : wire'[d] = wire[d]
      /\ UNCHANGED <<sent, carried, published, fresh>>
  BY Reading DEF Inv
<1>2. Typed'
  BY <1>1 DEF Inv, Typed
<1>3. InHandIsWhole'
  BY <1>1 DEF InHandIsWhole
<1>4. OnlyWholeCarried'
  BY <1>1 DEF Inv, OnlyWholeCarried
<1>5. ASSUME NEW d \in Chans \ {c}
      PROVE  InOrder(d)'
  <2>1. InOrder(d) /\ d # c
    BY DEF Inv
  <2>2. ~ Deletes(d)'
    BY <2>1 DEF Deletes, HasInHand, Whole
  <2>3. relay # "dead" /\ ~ (HasInHand /\ inHand.ch = d)
    BY <1>1
  <2>4. /\ carried'[d] = carried[d] /\ wire'[d] = wire[d] /\ buffers'[d] = buffers[d]
        /\ published'[d] = published[d] /\ fresh'[d] = fresh[d]
    BY <1>1, <1>5
  <2>5. QED
    BY <2>1, <2>2, <2>3, <2>4, Aside
<1>6. QED
  BY <1>2, <1>3, <1>4, <1>5 DEF Inv

(* A message of a single frame. *)
LEMMA FeedBulkKeeps ==
  ASSUME Inv, NEW c \in Chans, FeedBulk(c)
  PROVE  Inv'
<1>1. /\ Read(c) /\ Head(wire[c]).type = "BULK" /\ relay' = "publish"
      /\ buffers' = buffers
      /\ inHand' = [ch |-> c, enc |-> Head(wire[c]).enc,
                    data |-> Head(wire[c]).data, total |-> Head(wire[c]).total]
  BY DEF FeedBulk
<1>2. Typed
  BY DEF Inv
<1>3. PICK m, k : /\ Wired(c, carried[c], wire[c], m, k)
                  /\ Assembles(c, m, k) /\ Keeps(c, m, k)
  BY DEF Inv, InOrder
<1>4. PICK data, enc, f, j :
        /\ data = carried[c][m[1]].data /\ enc = carried[c][m[1]].enc
        /\ f = Head(wire[c]) /\ j = k[1]
  OBVIOUS
<1>5. /\ data \in Body /\ m[1] \in 1 .. Len(carried[c])
      /\ j \in 1 .. FrameCount(Len(data))
      /\ enc \in BOOLEAN /\ IsFrame(f, c, enc, data, j)
      /\ buffers[c] = None \/ k[1] > 1
  BY <1>1, <1>2, <1>3, <1>4, ReadsNext
<1>6. FrameCount(Len(data)) = 1 /\ j = 1
  BY <1>1, <1>4, <1>5, FrameKinds
<1>7. f =
        [ch |-> c, enc |-> enc, type |-> "BULK", data |-> data, total |-> 0]
  BY <1>5, <1>6, CutBulk DEF IsFrame
<1>8. inHand' = [ch |-> c, enc |-> enc, data |-> data, total |-> 0]
  <2>1. inHand' = [ch |-> c, enc |-> f.enc, data |-> f.data, total |-> f.total]
    BY <1>1, <1>4
  <2>2. QED
    BY <1>7, <2>1
<1>9. HasInHand' /\ inHand' \in Whole(c, carried[c][m[1]])
  BY <1>1, <1>4, <1>8 DEF HasInHand, Whole
<1>10. InOrder(c)'
  <2>1. Holds(c, m[1])'
    BY <1>1, <1>2, <1>9, Reading DEF Holds
  <2>2. k[1] = Count(carried[c][m[1]])
    BY <1>4, <1>6 DEF Count
  <2>3. buffers'[c] = None
    BY <1>1, <1>4, <1>5, <1>6
  <2>4. QED
    BY <1>1, <1>2, <1>3, <2>1, <2>2, <2>3, Completed
<1>11. DOMAIN buffers' = Chans /\ \A d \in Chans \ {c} : buffers'[d] = buffers[d]
  BY <1>1, <1>2 DEF Typed
<1>12. QED
  BY <1>1, <1>5, <1>9, <1>10, <1>11, FeedKeeps

(* The first frame of several. *)
LEMMA FeedFirstKeeps ==
  ASSUME Inv, NEW c \in Chans, FeedFirst(c)
  PROVE  Inv'
<1>1. /\ Read(c) /\ Head(wire[c]).type = "FIRST" /\ relay' = relay /\ inHand' = inHand
      /\ buffers' = [buffers EXCEPT ![c] =
           [enc |-> Head(wire[c]).enc, data |-> Head(wire[c]).data,
            total |-> Head(wire[c]).total]]
  BY DEF FeedFirst
<1>2. Typed /\ relay = "read"
  BY <1>1, Reading DEF Inv
<1>3. PICK m, k : /\ Wired(c, carried[c], wire[c], m, k)
                  /\ Assembles(c, m, k) /\ Keeps(c, m, k)
  BY DEF Inv, InOrder
<1>4. PICK data, enc, f, j :
        /\ data = carried[c][m[1]].data /\ enc = carried[c][m[1]].enc
        /\ f = Head(wire[c]) /\ j = k[1]
  OBVIOUS
<1>5. /\ data \in Body /\ j \in 1 .. FrameCount(Len(data))
      /\ enc \in BOOLEAN /\ IsFrame(f, c, enc, data, j)
  BY <1>1, <1>2, <1>3, <1>4, ReadsNext
<1>6. FrameCount(Len(data)) > 1 /\ j = 1
  BY <1>1, <1>4, <1>5, FrameKinds
<1>7. f =
        [ch |-> c, enc |-> enc, type |-> "FIRST",
         data |-> SubSeq(data, 1, Chunk), total |-> Len(data)]
  BY <1>5, <1>6, CutFirst DEF IsFrame
<1>8. DOMAIN buffers' = Chans /\ \A d \in Chans \ {c} : buffers'[d] = buffers[d]
  BY <1>1, <1>2 DEF Typed
<1>9. InOrder(c)'
  <2>1. buffers'[c] = [enc |-> enc, data |-> SubSeq(data, 1, Chunk), total |-> Len(data)]
    <3>1. buffers'[c] = [enc |-> f.enc, data |-> f.data, total |-> f.total]
      BY <1>1, <1>2, <1>4 DEF Typed
    <3>2. QED
      BY <1>7, <3>1
  <2>2. ((1 + 1) - 1) * Chunk = Chunk
    BY ChunkAssumption
  <2>3. buffers'[c] = Collected(carried[c][m[1]], k[1] + 1)
    BY <1>4, <1>6, <2>1, <2>2 DEF Collected
  <2>4. k[1] < Count(carried[c][m[1]])
    BY <1>4, <1>6 DEF Count
  <2>5. QED
    BY <1>1, <1>2, <1>3, <2>3, <2>4, Continued
<1>10. ~ HasInHand'
  BY <1>1, <1>2 DEF HasInHand
<1>11. QED
  BY <1>1, <1>8, <1>9, <1>10, FeedKeeps

(* A frame in the middle. *)
LEMMA FeedMiddleKeeps ==
  ASSUME Inv, NEW c \in Chans, FeedMiddle(c)
  PROVE  Inv'
<1>1. /\ Read(c) /\ Head(wire[c]).type = "MIDDLE" /\ relay' = relay /\ inHand' = inHand
      /\ buffers' = [buffers EXCEPT ![c] =
           IF buffers[c] = None THEN None
           ELSE [buffers[c] EXCEPT !.data = buffers[c].data \o Head(wire[c]).data]]
  BY DEF FeedMiddle
<1>2. Typed /\ relay = "read"
  BY <1>1, Reading DEF Inv
<1>3. PICK m, k : /\ Wired(c, carried[c], wire[c], m, k)
                  /\ Assembles(c, m, k) /\ Keeps(c, m, k)
  BY DEF Inv, InOrder
<1>4. PICK data, enc, f, j, before, after :
        /\ data = carried[c][m[1]].data /\ enc = carried[c][m[1]].enc
        /\ f = Head(wire[c]) /\ j = k[1]
        /\ before = SubSeq(data, 1, (j - 1) * Chunk)
        /\ after = SubSeq(data, 1, j * Chunk)
  OBVIOUS
<1>5. /\ data \in Body /\ j \in 1 .. FrameCount(Len(data))
      /\ m[1] \in 1 .. Len(carried[c])
      /\ enc \in BOOLEAN /\ IsFrame(f, c, enc, data, j)
      /\ buffers[c] = None \/ buffers[c] = Collected(carried[c][m[1]], k[1])
      /\ k[1] > 1 /\ m[1] > fresh[c] => buffers[c] # None
  <2>1. /\ carried[c][m[1]].data \in Body /\ m[1] \in 1 .. Len(carried[c])
        /\ k[1] \in 1 .. FrameCount(Len(carried[c][m[1]].data))
        /\ carried[c][m[1]].enc \in BOOLEAN
        /\ IsFrame(Head(wire[c]), c, carried[c][m[1]].enc, carried[c][m[1]].data, k[1])
        /\ buffers[c] = None \/ buffers[c] = Collected(carried[c][m[1]], k[1])
        /\ k[1] > 1 /\ m[1] > fresh[c] => buffers[c] # None
    BY <1>1, <1>2, <1>3, ReadsNext
  <2>2. QED
    BY <1>4, <2>1
<1>6. j \in Nat /\ 1 < j /\ j < FrameCount(Len(data))
  <2>1. f.type = "MIDDLE"
    BY <1>1, <1>4
  <2>2. 1 < j /\ j < FrameCount(Len(data))
    BY <1>5, <2>1, FrameKinds
  <2>3. QED
    BY <1>5, <2>2
<1>7. before \o f.data = after
  <2>1. SubSeq(data, 1, (j - 1) * Chunk) \o Frame(c, enc, data, j).data
          = SubSeq(data, 1, j * Chunk)
    BY <1>5, <1>6, CutMiddle
  <2>2. QED
    BY <1>4, <1>5, <2>1 DEF IsFrame
<1>8. DOMAIN buffers' = Chans /\ \A d \in Chans \ {c} : buffers'[d] = buffers[d]
  BY <1>1, <1>2 DEF Typed
<1>9. InOrder(c)'
  <2>1. k[1] < Count(carried[c][m[1]])
    BY <1>4, <1>6 DEF Count
  <2>2. CASE buffers[c] = None
    <3>1. buffers'[c] = None
      BY <1>1, <1>2, <2>2 DEF Typed
    <3>2. m[1] <= fresh[c]
      BY <1>2, <1>4, <1>5, <1>6, <2>2 DEF Typed
    <3>3. QED
      BY <1>1, <1>2, <1>3, <2>1, <3>1, <3>2, Continued
  <2>3. CASE buffers[c] # None
    <3>1. buffers[c] = [enc |-> enc, data |-> before, total |-> Len(data)]
      BY <1>4, <1>5, <2>3 DEF Collected
    <3>2. PICK b, bb : b = buffers[c] /\ bb = buffers'[c]
      OBVIOUS
    <3>3. b = [enc |-> enc, data |-> before, total |-> Len(data)]
      BY <3>1, <3>2
    <3>4. bb = [enc |-> enc, data |-> after, total |-> Len(data)]
      <4>1. b.data \o f.data = after
        BY <1>7, <3>3
      <4>2. bb = [b EXCEPT !.data = b.data \o f.data]
        <5>1. DOMAIN buffers = Chans
          BY <1>2 DEF Typed
        <5>2. QED
          BY <1>1, <1>4, <2>3, <3>2, <5>1
      <4>3. bb = [b EXCEPT !.data = after]
        BY <4>1, <4>2
      <4>4. QED
        BY <3>3, <4>3
    <3>5. (k[1] + 1) - 1 = j
      BY <1>4, <1>6
    <3>6. buffers'[c] = Collected(carried[c][m[1]], k[1] + 1)
      BY <1>4, <3>2, <3>4, <3>5 DEF Collected
    <3>7. QED
      BY <1>1, <1>2, <1>3, <2>1, <3>6, Continued
  <2>4. QED
    BY <2>2, <2>3
<1>10. ~ HasInHand'
  BY <1>1, <1>2 DEF HasInHand
<1>11. QED
  BY <1>1, <1>8, <1>9, <1>10, FeedKeeps

(* The last frame. *)
LEMMA FeedLastKeeps ==
  ASSUME Inv, NEW c \in Chans, FeedLast(c)
  PROVE  Inv'
<1>1. Read(c) /\ Head(wire[c]).type = "LAST" /\ buffers' = buffers
  BY DEF FeedLast
<1>2. Typed /\ relay = "read" /\ UNCHANGED <<sent, carried, published, fresh>>
  BY <1>1, Reading DEF Inv
<1>3. PICK m, k : /\ Wired(c, carried[c], wire[c], m, k)
                  /\ Assembles(c, m, k) /\ Keeps(c, m, k)
  BY DEF Inv, InOrder
<1>4. PICK data, enc, f, j, before :
        /\ data = carried[c][m[1]].data /\ enc = carried[c][m[1]].enc
        /\ f = Head(wire[c]) /\ j = k[1]
        /\ before = SubSeq(data, 1, (j - 1) * Chunk)
  OBVIOUS
<1>5. /\ data \in Body /\ j \in 1 .. FrameCount(Len(data))
      /\ m[1] \in 1 .. Len(carried[c])
      /\ enc \in BOOLEAN /\ IsFrame(f, c, enc, data, j)
      /\ buffers[c] = None \/ buffers[c] = Collected(carried[c][m[1]], k[1])
      /\ k[1] > 1 /\ m[1] > fresh[c] => buffers[c] # None
  BY <1>1, <1>2, <1>3, <1>4, ReadsNext
<1>6. j \in Nat /\ 1 < j /\ j = FrameCount(Len(data))
  BY <1>1, <1>4, <1>5, FrameKinds
<1>7. DOMAIN buffers' = Chans /\ \A d \in Chans \ {c} : buffers'[d] = buffers[d]
  BY <1>1, <1>2 DEF Typed
<1>8. k[1] = Count(carried[c][m[1]])
  BY <1>4, <1>6 DEF Count
<1>9. CASE buffers[c] = None
  <2>1. relay' = relay /\ inHand' = inHand
    BY <1>9 DEF FeedLast
  <2>2. ~ (m[1] > fresh[c])
    BY <1>4, <1>5, <1>6, <1>9
  <2>3. InOrder(c)'
    BY <1>1, <1>2, <1>3, <1>8, <1>9, <2>2, Completed
  <2>4. ~ HasInHand'
    BY <1>2, <2>1 DEF HasInHand
  <2>5. QED
    BY <1>1, <1>7, <2>3, <2>4, FeedKeeps
<1>10. CASE buffers[c] # None
  <2>1. /\ relay' = "delete"
        /\ inHand' = [ch |-> c, enc |-> buffers[c].enc,
                      data |-> buffers[c].data \o f.data,
                      total |-> buffers[c].total]
    BY <1>4, <1>10 DEF FeedLast
  <2>2. buffers[c] = [enc |-> enc, data |-> before, total |-> Len(data)]
    BY <1>4, <1>5, <1>10 DEF Collected
  <2>3. before \o f.data = data
    <3>1. SubSeq(data, 1, (j - 1) * Chunk) \o Frame(c, enc, data, j).data = data
      <4>1. /\ enc \in BOOLEAN /\ data \in Body
            /\ j \in Nat /\ 1 < j /\ j = FrameCount(Len(data))
        BY <1>5, <1>6
      <4>2. QED
        BY <4>1, CutLast
    <3>2. QED
      BY <1>4, <1>5, <3>1 DEF IsFrame
  <2>4. inHand' = [ch |-> c, enc |-> enc, data |-> data, total |-> Len(data)]
    <3>1. buffers[c].enc = enc /\ buffers[c].total = Len(data)
      BY <2>2
    <3>2. buffers[c].data \o f.data = data
      BY <2>2, <2>3
    <3>3. QED
      BY <2>1, <3>1, <3>2
  <2>5. HasInHand' /\ inHand' \in Whole(c, carried[c][m[1]])
    BY <1>4, <2>1, <2>4 DEF HasInHand, Whole
  <2>6. Holds(c, m[1])' /\ Deletes(c)'
    BY <1>2, <2>1, <2>4, <2>5 DEF Holds, Deletes
  <2>7. InOrder(c)'
    BY <1>1, <1>2, <1>3, <1>8, <2>6, Completed
  <2>8. QED
    BY <1>1, <1>5, <1>7, <2>5, <2>7, FeedKeeps
<1>11. QED
  BY <1>9, <1>10

(* The buffer of a message that is whole is deleted, unless a reset came first. *)
LEMMA DeleteKeeps ==
  ASSUME Inv, DeleteBuffer
  PROVE  Inv'
<1>1. relay = "delete" /\ UNCHANGED <<sent, carried, wire, published, fresh>>
  BY DEF DeleteBuffer, carried
<1>2. HasInHand
  BY <1>1 DEF HasInHand
<1>3. PICK c \in Chans : \E n \in 1 .. Len(carried[c]) : inHand \in Whole(c, carried[c][n])
  BY <1>2 DEF Inv, InHandIsWhole
<1>4. inHand.ch = c
  BY <1>3 DEF Whole
<1>5. Deletes(c) /\ \A d \in Chans \ {c} : ~ Deletes(d)
  BY <1>1, <1>4 DEF Deletes
<1>6. OnlyWholeCarried'
  BY <1>1 DEF Inv, OnlyWholeCarried
<1>7. CASE buffers[c] = None
  <2>1. relay' = "dead" /\ buffers' = buffers
    BY <1>4, <1>7 DEF DeleteBuffer
  <2>2. Typed'
    BY <1>1, <2>1 DEF Inv, Typed
  <2>3. InHandIsWhole'
    BY <2>1 DEF InHandIsWhole, HasInHand
  <2>4. ASSUME NEW d \in Chans
        PROVE  InOrder(d)'
    <3>1. PICK m, k : Wired(d, carried[d], wire[d], m, k) /\ Assembles(d, m, k)
      BY DEF Inv, InOrder
    <3>2. Wired(d, carried'[d], wire'[d], m, k)
      BY <1>1, <3>1
    <3>3. Assembles(d, m, k)'
      BY <1>1, <1>5, <1>7, <2>1, <3>1 DEF Assembles
    <3>4. Keeps(d, m, k)'
      BY <2>1 DEF Keeps
    <3>5. QED
      BY <3>2, <3>3, <3>4 DEF InOrder
  <2>5. QED
    BY <1>6, <2>2, <2>3, <2>4 DEF Inv
<1>8. CASE buffers[c] # None
  <2>1. /\ relay' = "publish" /\ inHand' = inHand
        /\ buffers' = [buffers EXCEPT ![c] = None]
    BY <1>4, <1>8 DEF DeleteBuffer
  <2>2. Typed'
    BY <1>1, <2>1 DEF Inv, Typed
  <2>3. HasInHand' /\ ~ Deletes(c)' /\ \A d \in Chans : ~ Deletes(d)'
    BY <2>1 DEF HasInHand, Deletes
  <2>4. InHandIsWhole'
    BY <1>1, <1>3, <2>1 DEF InHandIsWhole
  <2>5. buffers'[c] = None /\ \A d \in Chans \ {c} : buffers'[d] = buffers[d]
    BY <2>1 DEF Inv, Typed
  <2>6. InOrder(c)'
    <3>1. PICK m, k : Wired(c, carried[c], wire[c], m, k) /\ Keeps(c, m, k)
      BY DEF Inv, InOrder
    <3>2. Wired(c, carried'[c], wire'[c], m, k)
      BY <1>1, <3>1
    <3>3. Assembles(c, m, k)'
      BY <2>5 DEF Assembles
    <3>4. ~ (wire[c] # <<>> /\ k[1] > 1)
      BY <1>1, <1>5, <3>1 DEF Keeps
    <3>5. \A n \in fresh[c] + 1 .. Len(carried[c]) :
            ~ carried[c][n].enc /\ (wire[c] = <<>> \/ n < m[1]) =>
              Arrived(c, n) \/ Holds(c, n)
      BY <1>1, <3>1 DEF Keeps
    <3>6. Keeps(c, m, k)'
      BY <1>1, <2>1, <2>3, <3>4, <3>5 DEF Keeps, Arrived, Holds
    <3>7. QED
      BY <3>2, <3>3, <3>6 DEF InOrder
  <2>7. ASSUME NEW d \in Chans \ {c}
        PROVE  InOrder(d)'
    <3>1. /\ carried'[d] = carried[d] /\ wire'[d] = wire[d] /\ buffers'[d] = buffers[d]
          /\ published'[d] = published[d] /\ fresh'[d] = fresh[d]
      BY <1>1, <2>5, <2>7
    <3>2. InOrder(d) /\ relay # "dead" /\ ~ (HasInHand /\ inHand.ch = d)
      BY <1>1, <1>4, <2>7 DEF Inv
    <3>3. QED
      BY <2>3, <2>7, <3>1, <3>2, Aside
  <2>8. QED
    BY <1>6, <2>2, <2>4, <2>6, <2>7 DEF Inv
<1>9. QED
  BY <1>7, <1>8

(* A whole message is published as it was carried; an encrypted one may be
   dropped. *)
LEMMA PublishKeeps ==
  ASSUME Inv, PublishMessage
  PROVE  Inv'
<1>1. /\ relay = "publish" /\ inHand' = None
      /\ UNCHANGED <<sent, carried, wire, buffers, fresh>>
  BY DEF PublishMessage, carried
<1>2. HasInHand
  BY <1>1 DEF HasInHand
<1>3. PICK c \in Chans : \E n \in 1 .. Len(carried[c]) : inHand \in Whole(c, carried[c][n])
  BY <1>2 DEF Inv, InHandIsWhole
<1>4. PICK n \in 1 .. Len(carried[c]), x \in Message :
        x = carried[c][n] /\ inHand \in Whole(c, x)
  <2>1. carried[c] \in Seq(Message)
    BY DEF Inv, Typed
  <2>2. QED
    BY <1>3, <2>1, ElementOfSeq
<1>5. x.data \in Body /\ x.enc \in BOOLEAN /\ x = [data |-> x.data, enc |-> x.enc]
  BY DEF Message
<1>6. /\ inHand.ch = c /\ inHand.enc = x.enc /\ inHand.data = x.data
      /\ inHand.total \in {0, Len(x.data)}
  BY <1>3, <1>4 DEF Whole
<1>7. /\ relay' = "read"
      /\ \/ published' = [published EXCEPT ![c] = Append(published[c], x)]
         \/ published' = published /\ x.enc
  <2>1. x.data # <<>>
    BY <1>5 DEF Body
  <2>2. CASE x.enc /\ active
    BY <1>6, <2>2 DEF PublishMessage, Decrypt
  <2>3. CASE ~ (x.enc /\ active)
    <3>1. /\ published' = [published EXCEPT ![c] =
                             Append(@, [data |-> x.data, enc |-> x.enc])]
          /\ relay' = "read"
      BY <1>6, <2>1, <2>3 DEF PublishMessage
    <3>2. QED
      BY <1>5, <3>1
  <2>4. QED
    BY <2>2, <2>3
<1>8. published[c] \in Seq(Message) /\ Len(published[c]) \in Nat
  BY DEF Inv, Typed
<1>9. \/ published'[c] = Append(published[c], x)
      \/ published'[c] = published[c] /\ x.enc
  BY <1>7 DEF Inv, Typed
<1>9a. \A d \in Chans \ {c} : published'[d] = published[d]
  BY <1>7 DEF Inv, Typed
<1>10. /\ published'[c] \in Seq(Message)
       /\ \A i \in 1 .. Len(published[c]) :
            i \in 1 .. Len(published'[c]) /\ published'[c][i] = published[c][i]
       /\ \A i \in 1 .. Len(published'[c]) :
            i \in 1 .. Len(published[c]) \/ published'[c][i] = x
       /\ ~ x.enc => \E i \in 1 .. Len(published'[c]) : published'[c][i] = x
  <2>1. CASE published'[c] = Append(published[c], x)
    <3>1. /\ published'[c] \in Seq(Message)
          /\ Len(published'[c]) = Len(published[c]) + 1
          /\ \A i \in 1 .. Len(published[c]) : published'[c][i] = published[c][i]
          /\ published'[c][Len(published[c]) + 1] = x
      BY <1>5, <1>8, <2>1, AppendProperties
    <3>2. QED
      BY <1>8, <3>1
  <2>2. CASE published'[c] = published[c] /\ x.enc
    BY <1>8, <2>2
  <2>3. QED
    BY <1>9, <2>1, <2>2
<1>11. Typed'
  <2>1. published' \in [Chans -> Seq(Message)]
    BY <1>5, <1>7, <1>8, <1>10, <1>9a DEF Inv, Typed
  <2>2. QED
    BY <1>1, <2>1 DEF Inv, Typed
<1>12. InHandIsWhole'
  BY <1>7 DEF InHandIsWhole, HasInHand
<1>13. OnlyWholeCarried'
  <2> SUFFICES ASSUME NEW d \in Chans, NEW i \in 1 .. Len(published'[d])
               PROVE  \E j \in 1 .. Len(carried[d]) : published'[d][i] = carried[d][j]
    BY <1>1 DEF OnlyWholeCarried
  <2>1. CASE d # c
    <3>1. published'[d] = published[d] /\ i \in 1 .. Len(published[d])
      BY <1>9a, <2>1
    <3>2. PICK j \in 1 .. Len(carried[d]) : published[d][i] = carried[d][j]
      BY <3>1 DEF Inv, OnlyWholeCarried
    <3>3. QED
      BY <3>1, <3>2
  <2>2. CASE d = c /\ i \in 1 .. Len(published[c])
    <3>1. published'[d][i] = published[d][i]
      BY <1>10, <2>2
    <3>2. QED
      BY <2>2, <3>1 DEF Inv, OnlyWholeCarried
  <2>3. CASE d = c /\ published'[c][i] = x
    BY <1>4, <2>3
  <2>4. QED
    BY <1>10, <2>1, <2>2, <2>3
<1>14. \A d \in Chans : ~ Deletes(d)' /\ ~ Deletes(d)
  BY <1>1, <1>7 DEF Deletes
<1>15. InOrder(c)'
  <2>1. PICK m, k : /\ Wired(c, carried[c], wire[c], m, k)
                    /\ Assembles(c, m, k) /\ Keeps(c, m, k)
    BY DEF Inv, InOrder
  <2>2. Wired(c, carried'[c], wire'[c], m, k)
    BY <1>1, <2>1
  <2>3. Assembles(c, m, k)'
    BY <1>1, <1>14, <2>1 DEF Assembles
  <2>4. ASSUME NEW j \in fresh[c] + 1 .. Len(carried[c]), wire[c] = <<>> \/ j < m[1],
               ~ carried[c][j].enc
        PROVE  Arrived(c, j)'
    <3>1. Arrived(c, j) \/ Holds(c, j)
      BY <1>1, <2>1, <2>4 DEF Keeps
    <3>2. CASE Arrived(c, j)
      <4>1. PICK i \in 1 .. Len(published[c]) : published[c][i] = carried[c][j]
        BY <3>2 DEF Arrived
      <4>2. i \in 1 .. Len(published'[c]) /\ published'[c][i] = carried'[c][j]
        BY <1>1, <1>10, <4>1
      <4>3. QED
        BY <1>1, <3>2, <4>2 DEF Arrived
    <3>3. CASE Holds(c, j)
      <4>1. j \in 1 .. Len(carried[c])
        <5>1. fresh[c] \in Nat /\ Len(carried[c]) \in Nat
          BY DEF Inv, Typed
        <5>2. QED
          BY <2>4, <5>1
      <4>2. carried[c][j] = x
        <5>1. carried[c] \in Seq(Message)
          BY DEF Inv, Typed
        <5>2. carried[c][j] \in Message
          BY <4>1, <5>1, ElementOfSeq
        <5>3. inHand.data = carried[c][j].data
          BY <3>3 DEF Holds, Whole
        <5>4. /\ inHand.enc = carried[c][j].enc
              /\ carried[c][j] = [data |-> carried[c][j].data, enc |-> carried[c][j].enc]
          BY <3>3, <5>2 DEF Holds, Whole, Message
        <5>5. QED
          BY <1>5, <1>6, <5>3, <5>4
      <4>3. \E i \in 1 .. Len(published'[c]) : published'[c][i] = x
        BY <1>10, <2>4, <4>2
      <4>4. j <= Len(carried'[c])
        BY <1>1, <4>1, <1>8
      <4>5. QED
        BY <1>1, <4>2, <4>3, <4>4 DEF Arrived
    <3>4. QED
      BY <3>1, <3>2, <3>3
  <2>5. (wire[c] # <<>> /\ k[1] > 1 /\ m[1] > fresh[c]) => buffers[c] # None
    BY <1>1, <2>1 DEF Keeps
  <2>6. Keeps(c, m, k)'
    BY <1>1, <1>14, <2>4, <2>5 DEF Keeps
  <2>7. QED
    BY <2>2, <2>3, <2>6 DEF InOrder
<1>16. ASSUME NEW d \in Chans \ {c}
       PROVE  InOrder(d)'
  <2>1. /\ carried'[d] = carried[d] /\ wire'[d] = wire[d] /\ buffers'[d] = buffers[d]
        /\ published'[d] = published[d] /\ fresh'[d] = fresh[d]
    BY <1>1, <1>9a, <1>16
  <2>2. InOrder(d) /\ relay # "dead" /\ ~ (HasInHand /\ inHand.ch = d)
    BY <1>1, <1>6, <1>16 DEF Inv
  <2>3. QED
    BY <1>14, <1>16, <2>1, <2>2, Aside
<1>17. QED
  BY <1>11, <1>12, <1>13, <1>15, <1>16 DEF Inv

-----------------------------------------------------------------------------
(* The bus thread.                                                         *)

(* The assembler forgets what it has collected; messages sent before do not
   count any more. *)
LEMMA ResetKeeps ==
  ASSUME Inv, ResetAssembler
  PROVE  Inv'
<1>1. /\ buffers' = [c \in Chans |-> None]
      /\ fresh' = [c \in Chans |-> Len(carried[c])]
      /\ UNCHANGED <<sent, carried, wire, relay, inHand, published>>
  <2>1. \A c \in Chans : Len(carried[c]) = Len(sent[c])
    BY DEF Inv, Typed
  <2>2. UNCHANGED carried
    BY DEF ResetAssembler, carried
  <2>3. QED
    BY <2>1, <2>2 DEF ResetAssembler
<1>2. \A c \in Chans : Len(carried[c]) \in Nat
  BY DEF Inv, Typed
<1>3. Typed'
  BY <1>1, <1>2 DEF Inv, Typed
<1>4. InHandIsWhole' /\ OnlyWholeCarried'
  BY <1>1 DEF Inv, InHandIsWhole, HasInHand, OnlyWholeCarried
<1>5. ASSUME NEW c \in Chans
      PROVE  InOrder(c)'
  <2>1. PICK m, k : /\ Wired(c, carried[c], wire[c], m, k)
                    /\ Assembles(c, m, k) /\ Keeps(c, m, k)
    BY DEF Inv, InOrder
  <2>2. Wired(c, carried'[c], wire'[c], m, k)
    BY <1>1, <2>1
  <2>3. Assembles(c, m, k)'
    BY <1>1 DEF Assembles
  <2>4. wire[c] # <<>> => ~ (m[1] > fresh'[c])
    <3>1. carried[c] \in Seq(Message) /\ wire[c] \in Seq(Framed)
      BY DEF Inv, Typed
    <3>2. wire[c] # <<>> => m[1] \in 1 .. Len(carried[c])
      BY <2>1, <3>1, WiredHead
    <3>3. QED
      BY <1>1, <1>2, <3>2
  <2>5. \A n \in fresh'[c] + 1 .. Len(carried'[c]) : FALSE
    BY <1>1, <1>2
  <2>6. Keeps(c, m, k)'
    BY <1>1, <2>1, <2>4, <2>5 DEF Keeps, Deletes
  <2>7. QED
    BY <2>2, <2>3, <2>6 DEF InOrder
<1>6. QED
  BY <1>3, <1>4, <1>5 DEF Inv

(* What does not concern the messages at all. *)
LEMMA RestKeeps ==
  ASSUME Inv, UNCHANGED <<sent, wire, buffers, relay, inHand, published, fresh>>
  PROVE  Inv'
<1>0. UNCHANGED carried
  BY DEF carried
<1>1. Typed'
  BY <1>0 DEF Inv, Typed
<1>2. InHandIsWhole' /\ OnlyWholeCarried'
  BY <1>0 DEF Inv, InHandIsWhole, HasInHand, OnlyWholeCarried
<1>3. \A c \in Chans : InOrder(c)'
  BY <1>0, Untouched DEF Inv
<1>4. QED
  BY <1>1, <1>2, <1>3 DEF Inv

-----------------------------------------------------------------------------
(* The theorems.                                                           *)

(* Every step keeps the invariant. *)
LEMMA InvInductive == Spec => []Inv
<1>1. Init => Inv
  BY InitInv
<1>2. Inv /\ [Next]_vars => Inv'
  <2> SUFFICES ASSUME Inv, [Next]_vars PROVE Inv'
    OBVIOUS
  <2>1. ASSUME NEW c \in Chans, PhoneSend(c) PROVE Inv'
    BY <2>1, SendKeeps
  <2>2. ASSUME NEW c \in Chans, FeedBulk(c) PROVE Inv'
    BY <2>2, FeedBulkKeeps
  <2>3. ASSUME NEW c \in Chans, FeedFirst(c) PROVE Inv'
    BY <2>3, FeedFirstKeeps
  <2>4. ASSUME NEW c \in Chans, FeedMiddle(c) PROVE Inv'
    BY <2>4, FeedMiddleKeeps
  <2>5. ASSUME NEW c \in Chans, FeedLast(c) PROVE Inv'
    BY <2>5, FeedLastKeeps
  <2>6. CASE DeleteBuffer
    BY <2>6, DeleteKeeps
  <2>7. CASE PublishMessage
    BY <2>7, PublishKeeps
  <2>8. CASE ResetAssembler
    BY <2>8, ResetKeeps
  <2>9. CASE DeinitCryptor \/ HandshakeDone
    BY <2>9, RestKeeps DEF DeinitCryptor, HandshakeDone
  <2>10. CASE UNCHANGED vars
    BY <2>10, RestKeeps DEF vars
  <2>11. QED
    BY <2>1, <2>2, <2>3, <2>4, <2>5, <2>6, <2>7, <2>8, <2>9, <2>10 DEF Next, Relay
<1>3. QED
  BY <1>1, <1>2, PTL DEF Spec

\* A message is published whole: as it was sent or, if it was encrypted, as the
\* whole ciphertext, and that only after a restart.
WholeOrCiphertext ==
  \A c \in Chans : \A i \in 1 .. Len(published[c]) :
    \E j \in 1 .. Len(sent[c]) :
      \/ ~ sent[c][j].enc /\ published[c][i] = sent[c][j]
      \/ /\ sent[c][j].enc /\ restarts > 0
         /\ published[c][i] = [data |-> Encrypt(sent[c][j].data), enc |-> TRUE]

\* ResetCostsOnlyInFlight of the messages that were sent in the clear.
ResetSparesTheClear ==
  relay = "read" =>
    \A c \in Chans : wire[c] = <<>> =>
      \A n \in fresh[c] + 1 .. Len(sent[c]) : ~ sent[c][n].enc => Published(c, n)

(* What is carried of a message that was sent. *)
LEMMA CarriedAt ==
  ASSUME Typed, NEW c \in Chans, NEW n \in 1 .. Len(sent[c])
  PROVE  /\ n \in 1 .. Len(carried[c]) /\ carried[c][n].enc = sent[c][n].enc
         /\ sent[c][n].enc \in BOOLEAN
         /\ ~ sent[c][n].enc => carried[c][n] = sent[c][n]
         /\ sent[c][n].enc =>
              carried[c][n] = [data |-> Encrypt(sent[c][n].data), enc |-> TRUE]
<1>1. PICK x \in Message : x = sent[c][n] /\ carried[c][n] = Carried(x)
  <2>1. sent[c][n] \in Message
    BY ElementOfSeq DEF Typed
  <2>2. carried[c][n] = Carried(sent[c][n])
    BY DEF carried
  <2>3. QED
    BY <2>1, <2>2
<1>2. x = [data |-> x.data, enc |-> x.enc] /\ x.enc \in BOOLEAN
  BY DEF Message
<1>3. Carried(x).enc = x.enc
  BY CarriedType
<1>4. ~ x.enc => Carried(x) = [data |-> x.data, enc |-> x.enc]
  BY DEF Carried
<1>5. x.enc => Carried(x) = [data |-> Encrypt(x.data), enc |-> TRUE]
  BY <1>2 DEF Carried
<1>6. n \in 1 .. Len(carried[c])
  BY DEF Typed
<1>7. QED
  BY <1>1, <1>2, <1>3, <1>4, <1>5, <1>6

\* Without a restart the cryptor is active and no ciphertext is published.
CiphertextTellsRestart ==
  /\ restarts \in 0 .. MaxRestarts
  /\ ~ active => restarts > 0
  /\ \A c \in Chans : \A i \in 1 .. Len(published[c]) :
       published[c][i].enc => restarts > 0

(* The cryptor is deactivated by a restart alone. *)
LEMMA CiphertextTellsRestartInductive == Spec => []CiphertextTellsRestart
<1>1. Init => CiphertextTellsRestart
  BY BoundsAssumption, EmptySeq DEF Init, CiphertextTellsRestart
<1>2. Inv /\ CiphertextTellsRestart /\ [Next]_vars => CiphertextTellsRestart'
  <2> SUFFICES ASSUME Inv, CiphertextTellsRestart, [Next]_vars
               PROVE  CiphertextTellsRestart'
    OBVIOUS
  <2>1. CASE PublishMessage
    <3>1. PICK c, x :
            /\ \/ published' = [published EXCEPT ![c] = Append(published[c], x)]
               \/ published' = published
            /\ x.enc => ~ active \/ published' = published
      <4>1. PICK c, x : /\ c = inHand.ch
                        /\ x = [data |-> inHand.data, enc |-> inHand.enc]
        OBVIOUS
      <4>2. CASE inHand.enc /\ active
        BY <2>1, <4>2 DEF PublishMessage, Decrypt
      <4>3. CASE ~ (inHand.enc /\ active)
        <5>1. \/ published' = [published EXCEPT ![c] = Append(published[c], x)]
              \/ published' = published
          BY <2>1, <4>1, <4>3 DEF PublishMessage
        <5>2. x.enc = inHand.enc
          BY <4>1
        <5>3. QED
          BY <4>3, <5>1, <5>2
      <4>4. QED
        BY <4>2, <4>3
    <3>2. UNCHANGED <<active, restarts>>
      BY <2>1 DEF PublishMessage
    <3>3. ASSUME NEW d \in Chans, NEW i \in 1 .. Len(published'[d]),
                 published'[d][i].enc
          PROVE  restarts > 0
      <4>1. published \in [Chans -> Seq(Message)]
        BY DEF Inv, Typed
      <4>2. CASE published'[d] = published[d]
        BY <3>3, <4>2 DEF CiphertextTellsRestart
      <4>3. CASE published'[d] # published[d]
        <5>1. published'[d] = Append(published[d], x) /\ (x.enc => ~ active)
          BY <3>1, <4>1, <4>3
        <5>2. published[d] \in Seq(Message)
          BY <4>1
        <5>3. /\ Len(published'[d]) = Len(published[d]) + 1
              /\ Len(published[d]) \in Nat
              /\ \A n \in 1 .. Len(published[d]) : published'[d][n] = published[d][n]
              /\ published'[d][Len(published[d]) + 1] = x
          BY <5>1, <5>2
        <5>4. i \in 1 .. Len(published[d]) \/ i = Len(published[d]) + 1
          BY <5>3
        <5>5. QED
          BY <3>3, <5>1, <5>3, <5>4 DEF CiphertextTellsRestart
      <4>4. QED
        BY <4>2, <4>3
    <3>4. QED
      BY <3>2, <3>3 DEF CiphertextTellsRestart
  <2>2. CASE DeinitCryptor
    BY <2>2, BoundsAssumption DEF DeinitCryptor, CiphertextTellsRestart
  <2>3. CASE HandshakeDone
    BY <2>3 DEF HandshakeDone, CiphertextTellsRestart
  <2>4. CASE UNCHANGED <<active, published, restarts>>
    BY <2>4 DEF CiphertextTellsRestart
  <2>5. QED
    BY <2>1, <2>2, <2>3, <2>4 DEF Next, Relay, PhoneSend, Read, FeedBulk, FeedFirst,
         FeedMiddle, FeedLast, DeleteBuffer, ResetAssembler, vars
<1>3. QED
  BY <1>1, <1>2, InvInductive, PTL DEF Spec

(* Only whole messages are published, whatever is encrypted: the frames of one
   message are collected in one buffer of their channel, in order, and a buffer
   that a reset took away is not filled again before the next first frame. *)
THEOREM WholeOrCiphertextCorrect == Spec => []WholeOrCiphertext
<1>1. Inv /\ CiphertextTellsRestart => WholeOrCiphertext
  <2> SUFFICES ASSUME Inv, CiphertextTellsRestart,
                      NEW c \in Chans, NEW i \in 1 .. Len(published[c])
               PROVE  \E j \in 1 .. Len(sent[c]) :
                        \/ ~ sent[c][j].enc /\ published[c][i] = sent[c][j]
                        \/ /\ sent[c][j].enc /\ restarts > 0
                           /\ published[c][i] = [data |-> Encrypt(sent[c][j].data),
                                                 enc  |-> TRUE]
    BY DEF WholeOrCiphertext
  <2>1. PICK j \in 1 .. Len(carried[c]) : published[c][i] = carried[c][j]
    BY DEF Inv, OnlyWholeCarried
  <2>2. j \in 1 .. Len(sent[c])
    BY DEF Inv, Typed
  <2>3. published[c][i].enc => restarts > 0
    BY DEF CiphertextTellsRestart
  <2>4. QED
    BY <2>1, <2>2, <2>3, CarriedAt DEF Inv
<1>2. QED
  BY <1>1, InvInductive, CiphertextTellsRestartInductive, PTL

(* A reset costs the messages that were under way, no others: what was sent in
   the clear after it has been published once nothing is left to read, unless
   the relay is gone, whatever else was sent in between. *)
THEOREM ResetSparesTheClearCorrect == Spec => []ResetSparesTheClear
<1>1. Inv => ResetSparesTheClear
  <2> SUFFICES ASSUME Inv, relay = "read", NEW c \in Chans, wire[c] = <<>>,
                      NEW n \in fresh[c] + 1 .. Len(sent[c]), ~ sent[c][n].enc
               PROVE  Published(c, n)
    BY DEF ResetSparesTheClear
  <2>1. PICK m, k : Keeps(c, m, k)
    BY DEF Inv, InOrder
  <2>2. ~ Holds(c, n)
    BY DEF Holds, HasInHand
  <2>3. n \in 1 .. Len(sent[c]) /\ n \in fresh[c] + 1 .. Len(carried[c])
    BY DEF Inv, Typed
  <2>4. carried[c][n] = sent[c][n]
    BY <2>3, CarriedAt DEF Inv
  <2>5. Arrived(c, n)
    BY <2>1, <2>2, <2>3, <2>4 DEF Keeps
  <2>6. QED
    BY <2>3, <2>4, <2>5 DEF Arrived, Published
<1>2. QED
  BY <1>1, InvInductive, PTL

-----------------------------------------------------------------------------
(* Nothing is encrypted.                                                   *)

\* Every message is sent in the clear.
InTheClear == Encryptions \subseteq {FALSE}

\* Every message has been.
AllClear == \A c \in Chans : \A n \in 1 .. Len(sent[c]) : ~ sent[c][n].enc

(* Then nothing that was sent is. *)
LEMMA AllClearInductive ==
  ASSUME InTheClear
  PROVE  Spec => []AllClear
<1>1. Init => AllClear
  BY EmptySeq DEF Init, AllClear
<1>2. Inv /\ AllClear /\ [Next]_vars => AllClear'
  <2> SUFFICES ASSUME Inv, AllClear, [Next]_vars PROVE AllClear'
    OBVIOUS
  <2>1. ASSUME NEW c \in Chans, PhoneSend(c) PROVE AllClear'
    <3>1. PICK x : sent' = [sent EXCEPT ![c] = Append(sent[c], x)] /\ x.enc = FALSE
      <4>1. PICK size \in Sizes, enc \in Encryptions :
              sent' = [sent EXCEPT ![c] =
                         Append(@, [data |-> Payload(Len(sent[c]) + 1, size),
                                    enc  |-> enc])]
        BY <2>1 DEF PhoneSend
      <4>2. enc = FALSE
        BY DEF InTheClear
      <4>3. PICK x : x = [data |-> Payload(Len(sent[c]) + 1, size), enc |-> enc]
        OBVIOUS
      <4>4. sent' = [sent EXCEPT ![c] = Append(sent[c], x)]
        BY <4>1, <4>3
      <4>5. x.enc = FALSE
        BY <4>2, <4>3
      <4>6. QED
        BY <4>4, <4>5
    <3>2. sent \in [Chans -> Seq(Message)]
      BY DEF Inv, Typed
    <3>3. ASSUME NEW d \in Chans, NEW n \in 1 .. Len(sent'[d])
          PROVE  ~ sent'[d][n].enc
      <4>1. CASE d # c
        BY <3>1, <3>2, <3>3, <4>1 DEF AllClear
      <4>2. CASE d = c
        <5>1. sent'[d] = Append(sent[d], x) /\ sent[d] \in Seq(Message)
          BY <3>1, <3>2, <4>2
        <5>2. /\ Len(sent'[d]) = Len(sent[d]) + 1 /\ Len(sent[d]) \in Nat
              /\ \A i \in 1 .. Len(sent[d]) : sent'[d][i] = sent[d][i]
              /\ sent'[d][Len(sent[d]) + 1] = x
          BY <5>1
        <5>3. QED
          BY <3>1, <3>3, <5>2 DEF AllClear
      <4>3. QED
        BY <4>1, <4>2
    <3>4. QED
      BY <3>3 DEF AllClear
  <2>2. CASE UNCHANGED sent
    BY <2>2 DEF AllClear
  <2>3. QED
    BY <2>1, <2>2 DEF Next, Relay, Read, FeedBulk, FeedFirst, FeedMiddle,
         FeedLast, DeleteBuffer, PublishMessage, DeinitCryptor, ResetAssembler,
         HandshakeDone, vars
<1>3. QED
  BY <1>1, <1>2, InvInductive, PTL DEF Spec

(* Every message is published as it was sent if none is encrypted, or if there
   is no restart. *)
THEOREM OnlyWholeMessagesCorrect ==
  ASSUME InTheClear \/ MaxRestarts = 0
  PROVE  Spec => []OnlyWholeMessages
<1> DEFINE Clear == \A c \in Chans : \A j \in 1 .. Len(sent[c]) :
                      ~ (sent[c][j].enc /\ restarts > 0)
<1>1. Spec => []Clear
  <2>1. CASE InTheClear
    <3>1. AllClear => Clear
      BY DEF AllClear
    <3>2. Spec => []AllClear
      BY <2>1, AllClearInductive
    <3> HIDE DEF Clear
    <3>3. QED
      BY <3>1, <3>2, PTL
  <2>2. CASE MaxRestarts = 0
    <3>1. CiphertextTellsRestart => Clear
      BY <2>2 DEF CiphertextTellsRestart
    <3> HIDE DEF Clear
    <3>2. QED
      BY <3>1, CiphertextTellsRestartInductive, PTL
  <2>3. QED
    BY <2>1, <2>2
<1>2. WholeOrCiphertext /\ Clear => OnlyWholeMessages
  <2> SUFFICES ASSUME WholeOrCiphertext, Clear, NEW c \in Chans,
                      NEW i \in 1 .. Len(published[c])
               PROVE  \E j \in 1 .. Len(sent[c]) : published[c][i] = sent[c][j]
    BY DEF OnlyWholeMessages
  <2>1. PICK j \in 1 .. Len(sent[c]) :
          \/ ~ sent[c][j].enc /\ published[c][i] = sent[c][j]
          \/ sent[c][j].enc /\ restarts > 0
    <3>1. PICK j \in 1 .. Len(sent[c]) :
            \/ ~ sent[c][j].enc /\ published[c][i] = sent[c][j]
            \/ /\ sent[c][j].enc /\ restarts > 0
               /\ published[c][i] = [data |-> Encrypt(sent[c][j].data), enc |-> TRUE]
      BY DEF WholeOrCiphertext
    <3>2. QED
      BY <3>1
  <2>2. QED
    BY <2>1
<1> HIDE DEF Clear
<1>3. QED
  BY <1>1, <1>2, WholeOrCiphertextCorrect, PTL

(* ResetSparesTheClear when nothing else is sent. *)
THEOREM ResetCostsOnlyInFlightCorrect ==
  ASSUME InTheClear
  PROVE  Spec => []ResetCostsOnlyInFlight
<1>1. Inv /\ ResetSparesTheClear /\ AllClear => ResetCostsOnlyInFlight
  <2> SUFFICES ASSUME Inv, ResetSparesTheClear, AllClear, relay = "read",
                      NEW c \in Chans, wire[c] = <<>>,
                      NEW n \in fresh[c] + 1 .. Len(sent[c])
               PROVE  Published(c, n)
    BY DEF ResetCostsOnlyInFlight
  <2>1. n \in 1 .. Len(sent[c])
    BY DEF Inv, Typed
  <2>2. QED
    BY <2>1 DEF ResetSparesTheClear, AllClear
<1>2. QED
  BY <1>1, InvInductive, ResetSparesTheClearCorrect, AllClearInductive, PTL

-----------------------------------------------------------------------------
(* TcpServer: what its variables hold.                                     *)

\* Who runs _teardown(): the thread of a connection, or the bus thread.
Actors == Conns \cup {BusThread}

(* The globals and the order in which they are dropped. *)
LEMMA Globals ==
  /\ "relay" \in Resources /\ "server" \in Resources
  /\ "cryptor" \in Resources /\ "assembler" \in Resources
  /\ DropOrder[1] = "relay" /\ DropOrder[2] = "server"
  /\ DropOrder[3] = "cryptor" /\ DropOrder[4] = "assembler"
  /\ Len(DropOrder) = 4
BY DEF Resources, DropOrder

(* A step of _teardown() that is about a global says which. *)
LEMMA TearStatesAre ==
  ASSUME NEW t \in TearStates
  PROVE  /\ t[2] \in {"none", "flag", "test", "use", "drop"}
         /\ t[2] \in {"test", "use", "drop"} => t[1] \in 1 .. 4
         /\ t[2] = "drop" => t[1] # 3
BY DEF TearStates, NoTear

(* What a step of _teardown() may come to. *)
LEMMA TearsTo ==
  /\ NoTear \in TearStates /\ <<0, "flag">> \in TearStates
  /\ \A k \in 1 .. 4 :
       <<k, "test">> \in TearStates /\ <<k, "use">> \in TearStates
  /\ \A k \in 1 .. 4 : k # 3 => <<k, "drop">> \in TearStates
BY DEF TearStates

(* The next global, or the last step. *)
LEMMA TearNextTyped ==
  ASSUME tear \in [Actors -> TearStates], NEW a \in Actors, NEW k \in 1 .. 4,
         TearNext(a, k)
  PROVE  /\ tear' \in [Actors -> TearStates]
         /\ \A b \in Actors : b # a => tear'[b] = tear[b]
<1> DEFINE t == IF k < Len(DropOrder) THEN <<k + 1, "test">> ELSE <<0, "flag">>
<1>1. t \in TearStates
  <2>1. CASE k < 4
    <3>1. k + 1 \in 1 .. 4
      BY <2>1
    <3>2. QED
      BY <2>1, <3>1, Globals, TearsTo
  <2>2. CASE ~ (k < 4)
    BY <2>2, Globals, TearsTo
  <2>3. QED
    BY <2>1, <2>2
<1>2. tear' = [tear EXCEPT ![a] = t]
  BY DEF TearNext
<1> HIDE DEF t
<1>3. QED
  BY <1>1, <1>2

\* The part of ServerTypeOK that _teardown() touches.
TearTyped ==
  /\ global \in [Resources -> Conns \cup {NoConn}]
  /\ starting \in BOOLEAN /\ secure \in BOOLEAN
  /\ tear \in [Actors -> TearStates]
  /\ listening \subseteq Conns /\ open \subseteq Conns
  /\ secure => global.cryptor # NoConn

(* A step of _teardown() keeps the types, and where the others are. *)
LEMMA TearStepTyped ==
  ASSUME TearTyped, NEW a \in Actors, TearStep(a)
  PROVE  TearTyped' /\ starting' = starting
         /\ \A b \in Actors : b # a => tear'[b] = tear[b]
<1> DEFINE k == tear[a][1]
           r == DropOrder[k]
<1>1. /\ tear[a] \in TearStates
      /\ tear[a][2] \in {"test", "use", "drop"}
  BY DEF TearTyped, TearStep, TearTest, TearUse, TearDrop
<1>2. k \in 1 .. 4 /\ (tear[a][2] = "drop" => k # 3)
  BY <1>1, TearStatesAre
<1>3. r \in Resources /\ (r = "cryptor" <=> k = 3)
  <2>1. k = 1 \/ k = 2 \/ k = 3 \/ k = 4
    BY <1>2
  <2>2. QED
    BY <2>1, Globals
<1>4. CASE TearTest(a)
  <2>1. /\ tear' \in [Actors -> TearStates]
        /\ \A b \in Actors : b # a => tear'[b] = tear[b]
    <3>1. CASE global[r] = NoConn
      <4>1. TearNext(a, k)
        BY <1>4, <3>1 DEF TearTest
      <4>2. QED
        BY <4>1, <1>2, TearNextTyped DEF TearTyped
    <3>2. CASE global[r] # NoConn
      <4>1. tear' = [tear EXCEPT ![a] = <<k, "use">>]
        BY <1>4, <3>2 DEF TearTest
      <4>2. <<k, "use">> \in TearStates
        BY <1>2, TearsTo
      <4>3. QED
        BY <4>1, <4>2 DEF TearTyped
    <3>3. QED
      BY <3>1, <3>2
  <2>2. UNCHANGED <<global, starting, secure, listening, open>>
    BY <1>4 DEF TearTest, globals, network
  <2>3. QED
    BY <2>1, <2>2 DEF TearTyped
<1>5. CASE TearDrop(a)
  <2>1. TearNext(a, k) /\ UNCHANGED <<starting, secure, listening, open>>
    BY <1>5 DEF TearDrop, network
  <2>2. /\ tear' \in [Actors -> TearStates]
        /\ \A b \in Actors : b # a => tear'[b] = tear[b]
    BY <2>1, <1>2, TearNextTyped DEF TearTyped
  <2>3. global' = [global EXCEPT ![r] = NoConn] /\ r # "cryptor"
    BY <1>5, <1>2, <1>3 DEF TearDrop
  <2> HIDE DEF r, k
  <2>4. /\ global' \in [Resources -> Conns \cup {NoConn}]
        /\ global'.cryptor = global.cryptor
    BY <2>3, <1>3, Globals DEF TearTyped
  <2>5. QED
    BY <2>1, <2>2, <2>4 DEF TearTyped
<1>6. CASE TearUse(a)
  <2>1. /\ tear' \in [Actors -> TearStates]
        /\ \A b \in Actors : b # a => tear'[b] = tear[b]
    <3>1. CASE r = "cryptor"
      <4>1. TearNext(a, k)
        BY <1>6, <3>1 DEF TearUse
      <4>2. QED
        BY <4>1, <1>2, TearNextTyped DEF TearTyped
    <3>2. CASE r # "cryptor"
      <4>1. tear' = [tear EXCEPT ![a] = <<k, "drop">>]
        BY <1>6, <3>2 DEF TearUse
      <4>2. <<k, "drop">> \in TearStates
        BY <1>2, <1>3, <3>2, TearsTo
      <4>3. QED
        BY <4>1, <4>2 DEF TearTyped
    <3>3. QED
      BY <3>1, <3>2
  <2>2. /\ global' \in [Resources -> Conns \cup {NoConn}]
        /\ starting' = starting /\ secure' \in BOOLEAN
        /\ listening' \subseteq Conns /\ open' \subseteq Conns
        /\ secure' => global'.cryptor # NoConn
    <3>1. CASE r = "relay"
      BY <1>6, <3>1 DEF TearUse, globals, TearTyped
    <3>2. CASE r = "server"
      BY <1>6, <3>2 DEF TearUse, globals, TearTyped
    <3>3. CASE r = "cryptor"
      <4>1. /\ secure' = FALSE /\ global' = [global EXCEPT !["cryptor"] = NoConn]
            /\ UNCHANGED <<starting, listening, open>>
        BY <1>6, <3>3 DEF TearUse, network
      <4>2. QED
        BY <4>1 DEF TearTyped
    <3>4. CASE r = "assembler"
      BY <1>6, <3>4 DEF TearUse, globals, network, TearTyped
    <3>5. QED
      BY <3>1, <3>2, <3>3, <3>4, <1>3 DEF Resources
  <2>3. QED
    BY <2>1, <2>2 DEF TearTyped
<1>7. QED
  BY <1>4, <1>5, <1>6 DEF TearStep

(* So does its end. *)
LEMMA TearEndsTyped ==
  ASSUME TearTyped, NEW a \in Actors, TearFlag(a) \/ TearFails(a)
  PROVE  TearTyped' /\ tear' = [tear EXCEPT ![a] = NoTear]
<1>1. tear' = [tear EXCEPT ![a] = NoTear] /\ starting' \in BOOLEAN
  BY DEF TearFlag, TearFails, TearTyped, globals
<1>2. UNCHANGED <<global, secure, listening, open>>
  BY DEF TearFlag, TearFails, globals, network
<1>3. QED
  BY <1>1, <1>2, TearsTo DEF TearTyped

\* The rest of ServerTypeOK.
OthersTyped ==
  /\ pending \in BOOLEAN /\ ack \in BOOLEAN /\ answered \in BOOLEAN
  /\ restarted \in 0 .. MaxRestarted
  /\ wpc \in [Conns -> ThreadStates]
  /\ last \in Conns \cup {NoConn}
  /\ bpc \in BusStates
  /\ first \in [Conns -> {"none", "queued", "sent", "dropped"}]
  /\ announced \subseteq Conns /\ closed \subseteq Conns
  /\ stopAsked \in BOOLEAN /\ overlaid \in 0 .. 2

(* The two parts make the whole. *)
LEMMA TypesApart == ServerTypeOK <=> TearTyped /\ OthersTyped
BY DEF ServerTypeOK, TearTyped, OthersTyped, Actors

(* The initial state is typed. *)
LEMMA ServerTypeInit == ServerInit => ServerTypeOK
<1> SUFFICES ASSUME ServerInit PROVE ServerTypeOK
  OBVIOUS
<1>1. TearTyped
  BY TearsTo DEF ServerInit, TearTyped, Actors
<1>2. OthersTyped
  <2>1. 0 \in 0 .. MaxRestarted /\ 0 \in 0 .. 2
    BY ConnsAssumption
  <2>2. restarted \in 0 .. MaxRestarted /\ overlaid \in 0 .. 2
    BY <2>1 DEF ServerInit
  <2>3. wpc \in [Conns -> ThreadStates] /\ bpc \in BusStates
    BY DEF ServerInit, ThreadStates, BusStates
  <2>4. QED
    BY <2>2, <2>3 DEF ServerInit, OthersTyped
<1>3. QED
  BY <1>1, <1>2, TypesApart

(* The thread of a connection and the network keep the types. *)
LEMMA ServerThreadTyped ==
  ASSUME ServerTypeOK, NEW i \in Conns, Thread(i) \/ PhoneCloses(i)
  PROVE  ServerTypeOK'
<1> USE DEF globals, restart, threads, network, seen, Goto
<1>t. TearTyped /\ OthersTyped /\ i \in Actors /\ i # NoConn
  BY TypesApart DEF Actors, Conns, NoConn
<1>b. <<1, "test">> \in TearStates
  BY TearsTo
<1>1. CASE Begin(i)
  BY <1>1, <1>t DEF ServerTypeOK, Begin, ThreadStates
<1>2. CASE Bind(i)
  <2>1. /\ global' \in [Resources -> Conns \cup {NoConn}]
        /\ global'.cryptor = global.cryptor
    BY <1>2, <1>t, Globals DEF TearTyped, Bind
  <2>2. /\ listening' \subseteq Conns /\ starting' = FALSE
        /\ wpc' \in [Conns -> ThreadStates]
    BY <1>2 DEF ServerTypeOK, Bind, ThreadStates
  <2>3. UNCHANGED <<secure, restart, tear, last, bpc, open, seen, stopAsked, overlaid>>
    BY <1>2 DEF Bind
  <2>4. QED
    BY <2>1, <2>2, <2>3 DEF ServerTypeOK
<1>3. CASE Accept(i)
  <2>1. tear' \in [Actors -> TearStates]
    BY <1>3, <1>t, <1>b DEF TearTyped, Accept, BeginTear
  <2>2. open' \subseteq Conns /\ wpc' \in [Conns -> ThreadStates]
    BY <1>3 DEF ServerTypeOK, Accept, ThreadStates
  <2>3. UNCHANGED <<globals, restart, last, bpc, listening, seen, stopAsked, overlaid>>
    BY <1>3 DEF Accept
  <2>4. QED
    BY <2>1, <2>2, <2>3 DEF ServerTypeOK, Actors
<1>4. CASE Announce(i)
  BY <1>4 DEF ServerTypeOK, Announce, ThreadStates
<1>5. CASE MakeAssembler(i)
  BY <1>5, Globals DEF ServerTypeOK, MakeAssembler, ThreadStates
<1>6. CASE MakeRelay(i)
  BY <1>6, Globals DEF ServerTypeOK, MakeRelay, ThreadStates
<1>7. CASE StartRelay(i)
  BY <1>7 DEF ServerTypeOK, StartRelay, ThreadStates
<1>8. CASE RelayEnds(i)
  BY <1>8 DEF ServerTypeOK, RelayEnds, ThreadStates
<1>9. CASE SessionClosed(i)
  <2>1. tear' \in [Actors -> TearStates]
    BY <1>9, <1>t, <1>b DEF TearTyped, SessionClosed, BeginTear
  <2>2. closed' \subseteq Conns /\ wpc' \in [Conns -> ThreadStates]
    BY <1>9 DEF ServerTypeOK, SessionClosed, ThreadStates
  <2>3. UNCHANGED <<globals, restart, last, bpc, network, first, announced,
                    stopAsked, overlaid>>
    BY <1>9 DEF SessionClosed
  <2>4. QED
    BY <2>1, <2>2, <2>3 DEF ServerTypeOK, Actors
<1>10. CASE Teardown(i)
  <2>1. TearTyped'
    BY <1>10, <1>t, TearStepTyped, TearEndsTyped DEF Teardown
  <2>2. wpc' \in [Conns -> ThreadStates]
    BY <1>10 DEF ServerTypeOK, Teardown, ThreadStates
  <2>3. UNCHANGED <<restart, last, bpc, seen, stopAsked, overlaid>>
    BY <1>10 DEF Teardown
  <2>4. OthersTyped'
    BY <1>t, <2>2, <2>3 DEF OthersTyped
  <2>5. QED
    BY <2>1, <2>4, TypesApart, PTL
<1>11. CASE PhoneCloses(i)
  BY <1>11 DEF ServerTypeOK, PhoneCloses
<1>12. QED
  BY <1>1, <1>2, <1>3, <1>4, <1>5, <1>6, <1>7, <1>8, <1>9, <1>10, <1>11
  DEF Thread

(* So do the bus thread and the answer of the phone. *)
LEMMA ServerBusTyped ==
  ASSUME ServerTypeOK, Bus \/ PhoneAnswers
  PROVE  ServerTypeOK'
<1> USE DEF globals, restart, threads, network, seen, Goto
<1>t. TearTyped /\ OthersTyped /\ BusThread \in Actors
  BY TypesApart DEF Actors
<1>1. ASSUME NEW i \in Conns, HandshakeCompleted(i) PROVE ServerTypeOK'
  <2>1. overlaid' \in 0 .. 2
    BY <1>1 DEF HandshakeCompleted, Overlay
  <2>2. QED
    BY <1>1, <2>1 DEF ServerTypeOK, HandshakeCompleted, ThreadStates
<1>2. ASSUME NEW i \in Conns, SendFirst(i) PROVE ServerTypeOK'
  BY <1>2 DEF ServerTypeOK, SendFirst
<1>3. CASE StartTls
  BY <1>3, Globals DEF ServerTypeOK, StartTls
<1>4. CASE FeedInput
  BY <1>4 DEF ServerTypeOK, FeedInput
<1>5. CASE Ch0Frame
  BY <1>5 DEF ServerTypeOK, Ch0Frame
<1>6. CASE Restart
  <2>1. restarted' \in 0 .. MaxRestarted
    <3>1. /\ restarted \in 0 .. MaxRestarted /\ restarted < MaxRestarted
          /\ restarted' = restarted + 1
      BY <1>6 DEF ServerTypeOK, Restart
    <3>2. QED
      BY <3>1, ConnsAssumption
  <2>2. pending' = TRUE /\ ack' = FALSE /\ bpc' \in BusStates
    BY <1>6 DEF Restart, BusStates
  <2>3. UNCHANGED <<globals, answered, threads, network, seen, stopAsked, overlaid>>
    BY <1>6 DEF Restart
  <2>4. QED
    BY <2>1, <2>2, <2>3 DEF ServerTypeOK
<1>7. CASE SystemStop
  <2>1. tear' \in [Actors -> TearStates]
    BY <1>7, <1>t, TearsTo DEF TearTyped, SystemStop, BeginTear
  <2>2. stopAsked' = TRUE /\ bpc' \in BusStates
    BY <1>7 DEF SystemStop, BusStates
  <2>3. UNCHANGED <<globals, restart, wpc, last, network, seen, overlaid>>
    BY <1>7 DEF SystemStop
  <2>4. QED
    BY <2>1, <2>2, <2>3 DEF ServerTypeOK, Actors
<1>8. CASE SendShutdownRequest
  BY <1>8 DEF ServerTypeOK, SendShutdownRequest, BusStates
<1>9. CASE WaitEnds
  BY <1>9 DEF ServerTypeOK, WaitEnds, BusStates
<1>10. CASE ResetSession
  <2>1. bpc' \in BusStates /\ (secure' = secure \/ secure' = FALSE)
    BY <1>10 DEF ResetSession, ResetCryptor, ResetFrames, BusStates
  <2>2. UNCHANGED <<global, starting, restart, threads, network, seen, stopAsked, overlaid>>
    BY <1>10 DEF ResetSession
  <2>3. CASE secure' = secure
    BY <2>1, <2>2, <2>3 DEF ServerTypeOK
  <2>4. CASE secure' = FALSE
    BY <2>1, <2>2, <2>4 DEF ServerTypeOK
  <2>5. QED
    BY <2>1, <2>3, <2>4
<1>11. CASE Restarting
  BY <1>11 DEF ServerTypeOK, Restarting, BusStates
<1>12. CASE StopTeardown
  <2>1. TearTyped'
    BY <1>12, <1>t, TearStepTyped, TearEndsTyped DEF StopTeardown
  <2>2. bpc' \in BusStates
    BY <1>12 DEF ServerTypeOK, StopTeardown, BusStates
  <2>3. UNCHANGED <<restart, wpc, last, seen, stopAsked, overlaid>>
    BY <1>12 DEF StopTeardown
  <2>4. OthersTyped'
    BY <1>t, <2>2, <2>3 DEF OthersTyped
  <2>5. QED
    BY <2>1, <2>4, TypesApart, PTL
<1>13. CASE StopJoin
  BY <1>13 DEF ServerTypeOK, StopJoin, BusStates
<1>14. CASE PhoneAnswers
  BY <1>14 DEF ServerTypeOK, PhoneAnswers
<1>15. QED
  BY <1>1, <1>2, <1>3, <1>4, <1>5, <1>6, <1>7, <1>8, <1>9, <1>10, <1>11,
     <1>12, <1>13, <1>14 DEF Bus, BusStep

(* So does every step. *)
LEMMA ServerTypeStep ==
  ASSUME ServerTypeOK, [ServerNext]_serverVars
  PROVE  ServerTypeOK'
<1>1. CASE ServerNext
  BY <1>1, ServerThreadTyped, ServerBusTyped DEF ServerNext
<1>2. CASE UNCHANGED serverVars
  BY <1>2 DEF ServerTypeOK, serverVars, globals, restart, threads, network, seen
<1>3. QED
  BY <1>1, <1>2

(* What the globals of tcp_server hold, how far each _teardown() is and where
   the threads are, for any number of connections and restarts and whatever
   may happen: in particular the cryptor is never active once _cryptor has
   been dropped.                                                            *)
THEOREM ServerTypeCorrect == ServerSpec => []ServerTypeOK
<1>1. ServerInit => ServerTypeOK
  BY ServerTypeInit
<1>2. ServerTypeOK /\ [ServerNext]_serverVars => ServerTypeOK'
  BY ServerTypeStep
<1>3. QED
  BY <1>1, <1>2, PTL DEF ServerSpec

-----------------------------------------------------------------------------
(* One server at a time.                                                   *)

\* A connection that is served, or has ended and is not torn down yet: _server
\* is the one it made.
Holding(i) == Serving(i) \/ wpc[i] = "closed"
\* A handshake has completed in the middle of a _teardown().
Overlaid == overlaid > 0
\* The module is being stopped, or has been.
Stopping == bpc \in {"teardown", "join", "stopped"}

\* No two threads serve.
Single == \A i, j \in Conns : Serving(i) /\ Serving(j) => i = j

\* Nobody else is about to tear down what a connection uses.
Alone ==
  \A i, j \in Conns :
    Holding(i) /\ i # j /\ wpc[j] \in {"closed", "teardown"} => Overlaid

\* The guard of on_handshake_completed() sees a connection that is there.
Kept ==
  \A i \in Conns :
    Holding(i) =>
      \/ Overlaid \/ Stopping
      \/ IF wpc[i] = "begin" THEN starting ELSE global.server = i

\* A _teardown() of the bus thread that has found a global will find it again:
\* it does not raise, which would leave the bus thread idle, and is not
\* followed by another handshake.
Undropped ==
  \A i \in Conns :
    Holding(i) /\ bpc = "teardown" /\ tear[BusThread][2] = "use" =>
      Overlaid \/ global[DropOrder[tear[BusThread][1]]] # NoConn

\* The inductive invariant, until another handshake follows one that has fallen
\* into a _teardown().
ServerInv == ServerTypeOK /\ Single /\ Alone /\ Kept /\ Undropped

\* What a step leaves alone.
KeepsGlobals ==
  \A r \in Resources : global[r] # NoConn => global'[r] # NoConn

KeepsServer == global'.server = global.server

BusApart == bpc' = bpc /\ tear'[BusThread] = tear[BusThread]

\* A step of the thread of a connection that is served or has just ended.
Works(i) ==
  /\ Holding(i) /\ BusApart
  /\ \E w \in ThreadStates \ {"none", "begin"} :
       /\ Goto(i, w)
       /\ w = "closed" => wpc[i] # "closed"
       /\ w \notin {"closed", "teardown", "done"} => Serving(i)
       /\ w \notin {"teardown", "done"} =>
            /\ KeepsGlobals
            /\ \/ global'.server = i
               \/ wpc[i] # "begin" /\ KeepsServer

\* A step of a thread that tears down.
Unwinds(i) ==
  /\ wpc[i] = "teardown" /\ BusApart
  /\ UNCHANGED wpc \/ Goto(i, "done")

\* A step that has no part in who serves.
Passes ==
  /\ UNCHANGED <<wpc, starting>> /\ tear'[BusThread] = tear[BusThread]
  /\ KeepsGlobals /\ KeepsServer
  /\ bpc' = bpc \/ ~ (Stopping \/ Stopping')

(* The global the bus thread is about to use. *)
LEMMA UsedGlobal ==
  ASSUME ServerTypeOK, tear[BusThread][2] = "use"
  PROVE  DropOrder[tear[BusThread][1]] \in Resources
<1>1. tear[BusThread] \in TearStates
  BY DEF ServerTypeOK
<1>2. tear[BusThread][1] \in 1 .. 4
  BY <1>1, TearStatesAre
<1>3. tear[BusThread][1] \in {1, 2, 3, 4}
  BY <1>2
<1>4. QED
  BY <1>3, Globals

(* What the bus thread is about to use it has found. *)
LEMMA BeforeUse ==
  ASSUME ServerTypeOK, TearStep(BusThread), tear'[BusThread][2] = "use"
  PROVE  global'[DropOrder[tear'[BusThread][1]]] # NoConn
<1> DEFINE k == tear[BusThread][1]
<1>1. tear \in [Actors -> TearStates] /\ BusThread \in Actors
  BY DEF ServerTypeOK, Actors
<1>2. ~ TearNext(BusThread, k)
  <2>1. ~ \E t : t[2] # "use" /\ tear' = [tear EXCEPT ![BusThread] = t]
    BY <1>1
  <2>2. QED
    BY <2>1 DEF TearNext
<1>3. ~ (tear' = [tear EXCEPT ![BusThread] = <<k, "drop">>])
  BY <1>1
<1>4. TearTest(BusThread)
  BY <1>2, <1>3 DEF TearStep, TearDrop, TearUse
<1>5. /\ global[DropOrder[k]] # NoConn /\ global' = global
      /\ tear' = [tear EXCEPT ![BusThread] = <<k, "use">>]
  BY <1>2, <1>4 DEF TearTest, globals
<1>6. QED
  BY <1>1, <1>5

(* A global that is made. *)
LEMMA KeepsUpdate ==
  ASSUME global \in [Resources -> Conns \cup {NoConn}],
         NEW r \in Resources, NEW i \in Conns,
         global' = [global EXCEPT ![r] = i]
  PROVE  /\ KeepsGlobals /\ (r # "server" => KeepsServer)
         /\ r = "server" => global'.server = i
<1>1. i # NoConn
  BY DEF Conns, NoConn
<1>2. QED
  BY <1>1, Globals DEF KeepsGlobals, KeepsServer

(* Globals that are left alone. *)
LEMMA KeepsSame == ASSUME UNCHANGED global PROVE KeepsGlobals /\ KeepsServer
BY DEF KeepsGlobals, KeepsServer

(* What a step of the thread of a connection is. *)
LEMMA ThreadKinds ==
  ASSUME ServerTypeOK, NEW i \in Conns, Thread(i)
  PROVE  Works(i) \/ Unwinds(i)
<1> USE DEF globals, threads, network, seen
<1>t. /\ global \in [Resources -> Conns \cup {NoConn}]
      /\ i \in Actors /\ BusThread \in Actors /\ i # BusThread /\ tear \in [Actors -> TearStates]
  BY DEF ServerTypeOK, Actors, Conns, BusThread
<1>1. CASE Begin(i)
  <2>1. /\ global' = [global EXCEPT !["server"] = i] /\ BusApart
        /\ Goto(i, "bind") /\ wpc[i] = "begin"
    BY <1>1 DEF Begin, BusApart
  <2>2. KeepsGlobals /\ global'.server = i
    BY <2>1, <1>t, KeepsUpdate, Globals
  <2>3. "bind" \in ThreadStates /\ Serving(i)
    BY <2>1 DEF ThreadStates, Serving
  <2>4. QED
    BY <2>1, <2>2, <2>3 DEF Works, Holding
<1>2. CASE Bind(i)
  <2>1. wpc[i] = "bind" /\ BusApart
    BY <1>2 DEF Bind, BusApart
  <2>2. CASE UNCHANGED global /\ Goto(i, "accept")
    BY <2>1, <2>2, KeepsSame DEF Works, Holding, Serving, ThreadStates
  <2>3. CASE Goto(i, "done")
    BY <2>1, <2>3 DEF Works, Holding, Serving, ThreadStates
  <2>4. QED
    BY <1>2, <2>2, <2>3 DEF Bind
<1>3. CASE Accept(i)
  <2>1. wpc[i] = "accept" /\ UNCHANGED global /\ bpc' = bpc
    BY <1>3 DEF Accept
  <2>2. BusApart
    BY <1>3, <1>t, <2>1 DEF Accept, BeginTear, BusApart
  <2>3. Goto(i, "connected") \/ Goto(i, "teardown")
    BY <1>3 DEF Accept
  <2>4. QED
    BY <2>1, <2>2, <2>3, KeepsSame DEF Works, Holding, Serving, ThreadStates
<1>4. CASE Announce(i)
  <2>1. /\ wpc[i] = "connected" /\ Goto(i, "assembler")
        /\ UNCHANGED global /\ BusApart
    BY <1>4 DEF Announce, BusApart
  <2>2. QED
    BY <2>1, KeepsSame DEF Works, Holding, Serving, ThreadStates
<1>5. CASE MakeAssembler(i)
  <2>1. /\ global' = [global EXCEPT !["assembler"] = i] /\ BusApart
        /\ Goto(i, "relay") /\ wpc[i] = "assembler"
    BY <1>5 DEF MakeAssembler, BusApart
  <2>2. KeepsGlobals /\ KeepsServer
    BY <2>1, <1>t, KeepsUpdate, Globals
  <2>3. QED
    BY <2>1, <2>2 DEF Works, Holding, Serving, ThreadStates
<1>6. CASE MakeRelay(i)
  <2>1. /\ global' = [global EXCEPT !["relay"] = i] /\ BusApart
        /\ Goto(i, "start") /\ wpc[i] = "relay"
    BY <1>6 DEF MakeRelay, BusApart
  <2>2. KeepsGlobals /\ KeepsServer
    BY <2>1, <1>t, KeepsUpdate, Globals
  <2>3. QED
    BY <2>1, <2>2 DEF Works, Holding, Serving, ThreadStates
<1>7. CASE StartRelay(i)
  <2>1. /\ wpc[i] = "start" /\ UNCHANGED global /\ BusApart
        /\ Goto(i, "done") \/ Goto(i, "read")
    BY <1>7 DEF StartRelay, BusApart
  <2>2. QED
    BY <2>1, KeepsSame DEF Works, Holding, Serving, ThreadStates
<1>8. CASE RelayEnds(i)
  <2>1. /\ wpc[i] = "read" /\ UNCHANGED global /\ BusApart
        /\ Goto(i, "done") \/ Goto(i, "closed")
    BY <1>8 DEF RelayEnds, BusApart
  <2>2. QED
    BY <2>1, KeepsSame DEF Works, Holding, Serving, ThreadStates
<1>9. CASE SessionClosed(i)
  <2>1. wpc[i] = "closed" /\ bpc' = bpc
    BY <1>9 DEF SessionClosed
  <2>2. BusApart
    BY <1>9, <1>t, <2>1 DEF SessionClosed, BeginTear, BusApart
  <2>3. Goto(i, "done") \/ Goto(i, "teardown")
    BY <1>9 DEF SessionClosed
  <2>4. QED
    BY <2>1, <2>2, <2>3 DEF Works, Holding, Serving, ThreadStates
<1>10. CASE Teardown(i)
  <2>1. wpc[i] = "teardown" /\ bpc' = bpc /\ (UNCHANGED wpc \/ Goto(i, "done"))
    BY <1>10 DEF Teardown
  <2>2. tear'[BusThread] = tear[BusThread]
    <3>1. CASE TearStep(i)
      BY <3>1, <1>t, TypesApart, TearStepTyped
    <3>2. CASE TearFlag(i) \/ TearFails(i)
      BY <3>2, <1>t, TypesApart, TearEndsTyped
    <3>3. QED
      BY <1>10, <3>1, <3>2 DEF Teardown
  <2>3. QED
    BY <2>1, <2>2 DEF Unwinds, BusApart
<1>11. QED
  BY <1>1, <1>2, <1>3, <1>4, <1>5, <1>6, <1>7, <1>8, <1>9, <1>10 DEF Thread

(* What any step is. *)
LEMMA BusKinds ==
  ASSUME ServerTypeOK, [ServerNext]_serverVars
  PROVE  \/ \E i \in Conns : Works(i) \/ Unwinds(i) \/ HandshakeCompleted(i)
         \/ Passes \/ SystemStop \/ StopTeardown \/ StopJoin
<1> USE DEF globals, threads
<1>1. ASSUME UNCHANGED <<wpc, global, starting, tear>>,
             bpc' = bpc \/ ~ (Stopping \/ Stopping')
      PROVE  Passes
  BY <1>1, KeepsSame DEF Passes
<1>2. CASE StartTls
  <2>1. PICK i \in Conns : global' = [global EXCEPT !["cryptor"] = i]
    BY <1>2 DEF StartTls, ServerTypeOK
  <2>2. KeepsGlobals /\ KeepsServer
    BY <2>1, KeepsUpdate, Globals DEF ServerTypeOK
  <2>3. UNCHANGED <<wpc, starting, tear, bpc>>
    BY <1>2 DEF StartTls
  <2>4. QED
    BY <2>2, <2>3 DEF Passes
<1>3. ASSUME NEW i \in Conns, PhoneCloses(i) \/ SendFirst(i)
      PROVE  UNCHANGED <<wpc, global, starting, tear>> /\ bpc' = bpc
  BY <1>3 DEF PhoneCloses, SendFirst
<1>4. CASE FeedInput \/ Ch0Frame \/ PhoneAnswers
  <2>1. UNCHANGED <<wpc, global, starting, tear>> /\ bpc' = bpc
    BY <1>4 DEF FeedInput, Ch0Frame, PhoneAnswers
  <2>2. QED
    BY <2>1, <1>1
<1>5. CASE Restart \/ SendShutdownRequest \/ WaitEnds \/ Restarting
  <2>1. UNCHANGED <<wpc, global, starting, tear>> /\ ~ Stopping /\ ~ Stopping'
    BY <1>5 DEF Restart, SendShutdownRequest, WaitEnds, Restarting, Stopping
  <2>2. QED
    BY <2>1, <1>1
<1>6. CASE ResetSession
  <2>1. UNCHANGED <<wpc, global, starting, tear>>
    BY <1>6 DEF ResetSession
  <2>2. ~ Stopping /\ ~ Stopping'
    BY <1>6 DEF ResetSession, ResetCryptor, ResetFrames, Stopping
  <2>3. QED
    BY <2>1, <2>2, <1>1
<1>7. CASE UNCHANGED serverVars
  BY <1>7, <1>1 DEF serverVars
<1>8. CASE ServerNext
  <2>1. ASSUME NEW i \in Conns, Thread(i) PROVE Works(i) \/ Unwinds(i)
    BY <2>1, ThreadKinds
  <2>2. CASE Bus
    BY <2>2, <1>1, <1>2, <1>3, <1>4, <1>5, <1>6 DEF Bus, BusStep
  <2>3. QED
    BY <1>8, <1>1, <1>3, <1>4, <2>1, <2>2 DEF ServerNext
<1>9. QED
  BY <1>7, <1>8

(* The invariant holds before the first handshake. *)
LEMMA ServerInvInit == ServerInit => ServerInv
<1> SUFFICES ASSUME ServerInit PROVE ServerInv
  OBVIOUS
<1>1. \A i \in Conns : wpc[i] = "none"
  BY DEF ServerInit
<1>2. \A i \in Conns : ~ Holding(i)
  BY <1>1 DEF Holding, Serving
<1>3. Single
  BY <1>2 DEF Single, Holding
<1>4. QED
  BY <1>1, <1>2, <1>3, ServerTypeInit
  DEF ServerInv, Alone, Kept, Undropped

(* Two connections that are held at once: one came in a _teardown(). *)
LEMMA HeldAlone ==
  ASSUME ServerInv, NEW i \in Conns, NEW j \in Conns,
         Holding(i), Holding(j), i # j
  PROVE  Overlaid
<1>1. wpc[i] = "closed" \/ wpc[j] = "closed"
  BY DEF ServerInv, Single, Holding
<1>2. QED
  BY <1>1 DEF ServerInv, Alone

(* A thread that works keeps it: it is the only one, or no handshake is left
   that could find its _server gone.                                        *)
LEMMA WorksKeeps ==
  ASSUME ServerInv, UNCHANGED overlaid, NEW i \in Conns, Works(i), ServerTypeOK'
  PROVE  ServerInv'
<1> PICK w \in ThreadStates \ {"none", "begin"} :
       /\ Goto(i, w)
       /\ w = "closed" => wpc[i] # "closed"
       /\ w \notin {"closed", "teardown", "done"} => Serving(i)
       /\ w \notin {"teardown", "done"} =>
            /\ KeepsGlobals
            /\ \/ global'.server = i
               \/ wpc[i] # "begin" /\ KeepsServer
  BY DEF Works
<1>1. Holding(i) /\ BusApart
  BY DEF Works
<1>2. /\ wpc'[i] = w
      /\ \A j \in Conns : j # i => wpc'[j] = wpc[j]
  BY DEF Goto, ServerInv, ServerTypeOK
<1>n. wpc[i] # "none" /\ w # "none"
  BY <1>1 DEF Holding, Serving
<1>3. \A j \in Conns : (wpc[j] = "none" <=> wpc'[j] = "none")
  BY <1>2, <1>n
<1>4. (Overlaid <=> Overlaid') /\ (Stopping <=> Stopping')
  BY <1>1 DEF Overlaid, Stopping, BusApart
<1>5. \A j \in Conns :
        j # i => (Serving(j) <=> Serving(j)') /\ (Holding(j) <=> Holding(j)')
  BY <1>2 DEF Holding, Serving
<1>6. Holding(i)' => w \notin {"teardown", "done"}
  BY <1>2 DEF Holding, Serving
<1>7. Serving(i)' => Serving(i)
  BY <1>2 DEF Serving
<1>8. \A j \in Conns : j # i /\ Holding(j) => Overlaid
  BY <1>1, HeldAlone
<1>9. Single'
  BY <1>5, <1>7 DEF ServerInv, Single
<1>10. Alone'
  <2> SUFFICES ASSUME NEW j \in Conns, NEW k \in Conns, Holding(j)', j # k,
                      wpc'[k] \in {"closed", "teardown"}
               PROVE  Overlaid'
    BY DEF Alone
  <2>1. CASE j = i
    BY <2>1, <1>1, <1>2, <1>4 DEF ServerInv, Alone
  <2>2. CASE j # i
    BY <2>2, <1>4, <1>5, <1>8
  <2>3. QED
    BY <2>1, <2>2
<1>11. Kept'
  <2> SUFFICES ASSUME NEW j \in Conns, Holding(j)', ~ Overlaid', ~ Stopping'
               PROVE  IF wpc'[j] = "begin" THEN starting' ELSE global'.server = j
    BY DEF Kept
  <2>1. j = i
    BY <1>4, <1>5, <1>8
  <2>2. /\ w # "begin"
        /\ global'.server = i \/ (wpc[i] # "begin" /\ KeepsServer)
    BY <2>1, <1>6
  <2>3. wpc[i] # "begin" => global.server = i
    BY <1>1, <1>4 DEF ServerInv, Kept
  <2>4. QED
    BY <2>1, <2>2, <2>3, <1>2 DEF KeepsServer
<1>12. Undropped'
  <2> SUFFICES ASSUME NEW j \in Conns, Holding(j)', bpc' = "teardown",
                      tear'[BusThread][2] = "use", ~ Overlaid'
               PROVE  global'[DropOrder[tear'[BusThread][1]]] # NoConn
    BY DEF Undropped
  <2>1. j = i
    BY <1>4, <1>5, <1>8
  <2>2. KeepsGlobals /\ tear'[BusThread] = tear[BusThread] /\ bpc = "teardown"
    BY <2>1, <1>1, <1>6 DEF BusApart
  <2> DEFINE r == DropOrder[tear[BusThread][1]]
  <2>3. global[r] # NoConn
    BY <1>1, <1>4, <2>2 DEF ServerInv, Undropped
  <2>4. r \in Resources
    BY <2>2, UsedGlobal DEF ServerInv
  <2>5. QED
    BY <2>2, <2>3, <2>4 DEF KeepsGlobals
<1>13. QED
  BY <1>9, <1>10, <1>11, <1>12 DEF ServerInv

(* So does a thread that tears down, whatever it drops: nobody uses it, or no
   handshake is left.                                                       *)
LEMMA UnwindsKeeps ==
  ASSUME ServerInv, UNCHANGED overlaid, NEW i \in Conns, Unwinds(i), ServerTypeOK'
  PROVE  ServerInv'
<1>1. wpc[i] = "teardown" /\ BusApart /\ i \in Conns
  BY DEF Unwinds
<1>2. /\ wpc'[i] \in {"teardown", "done"}
      /\ \A j \in Conns : j # i => wpc'[j] = wpc[j]
  BY DEF Unwinds, Goto, ServerInv, ServerTypeOK
<1>3. \A j \in Conns : (wpc[j] = "none" <=> wpc'[j] = "none")
  BY <1>1, <1>2
<1>4. Overlaid <=> Overlaid'
  BY DEF Overlaid
<1>5. \A j \in Conns :
        (Serving(j) <=> Serving(j)') /\ (Holding(j) <=> Holding(j)')
  BY <1>1, <1>2 DEF Holding, Serving
<1>6. \A j \in Conns : Holding(j) => Overlaid
  <2> SUFFICES ASSUME NEW j \in Conns, Holding(j) PROVE Overlaid
    OBVIOUS
  <2>1. i # j
    BY <1>1 DEF Holding, Serving
  <2>2. QED
    BY <2>1, <1>1 DEF ServerInv, Alone
<1>7. \A j \in Conns : Holding(j)' => Overlaid'
  BY <1>4, <1>5, <1>6
<1>8. Single'
  BY <1>5 DEF ServerInv, Single
<1>9. QED
  BY <1>7, <1>8 DEF ServerInv, Alone, Kept, Undropped

(* So does a step that has no part in it. *)
LEMMA PassesKeeps ==
  ASSUME ServerInv, UNCHANGED overlaid, Passes, ServerTypeOK'
  PROVE  ServerInv'
<1>1. /\ UNCHANGED <<wpc, starting>> /\ KeepsGlobals /\ KeepsServer
      /\ tear'[BusThread] = tear[BusThread]
  BY DEF Passes
<1>2. (Stopping <=> Stopping') /\ (bpc' = "teardown" => bpc = "teardown")
  BY DEF Passes, Stopping
<1>3. Single'
  BY <1>1 DEF ServerInv, Single, Serving
<1>4. Alone'
  BY <1>1 DEF ServerInv, Alone, Holding, Serving, Overlaid
<1>5. Kept'
  <2> SUFFICES ASSUME NEW j \in Conns, Holding(j)', ~ Overlaid', ~ Stopping'
               PROVE  IF wpc'[j] = "begin" THEN starting' ELSE global'.server = j
    BY DEF Kept
  <2>1. Holding(j) /\ ~ Overlaid /\ ~ Stopping
    BY <1>1, <1>2 DEF Holding, Serving, Overlaid
  <2>2. IF wpc[j] = "begin" THEN starting ELSE global.server = j
    BY <2>1 DEF ServerInv, Kept
  <2>3. QED
    BY <2>2, <1>1 DEF KeepsServer
<1>6. Undropped'
  <2> SUFFICES ASSUME NEW j \in Conns, Holding(j)', bpc' = "teardown",
                      tear'[BusThread][2] = "use", ~ Overlaid'
               PROVE  global'[DropOrder[tear'[BusThread][1]]] # NoConn
    BY DEF Undropped
  <2>1. /\ Holding(j) /\ ~ Overlaid
        /\ bpc = "teardown" /\ tear[BusThread][2] = "use"
    BY <1>1, <1>2 DEF Holding, Serving, Overlaid
  <2> DEFINE r == DropOrder[tear[BusThread][1]]
  <2>2. global[r] # NoConn
    BY <2>1 DEF ServerInv, Undropped
  <2>3. r \in Resources
    BY <2>1, UsedGlobal DEF ServerInv
  <2>4. QED
    BY <1>1, <2>2, <2>3 DEF KeepsGlobals
<1>7. QED
  BY <1>3, <1>4, <1>5, <1>6 DEF ServerInv

(* So does a handshake: the guard of on_handshake_completed() lets it through
   only when no connection is there.                                        *)
LEMMA HandshakeKeeps ==
  ASSUME ServerInv, NEW i \in Conns, HandshakeCompleted(i), overlaid' < 2,
         ServerTypeOK'
  PROVE  ServerInv'
<1>1. /\ bpc = "idle" /\ wpc[i] = "none"
      /\ ~ starting /\ global.server = NoConn /\ starting' = TRUE
      /\ Goto(i, "begin") /\ bpc' = "idle"
  BY DEF HandshakeCompleted
<1>2. wpc'[i] = "begin" /\ \A j \in Conns : j # i => wpc'[j] = wpc[j]
  BY <1>1 DEF Goto, ServerInv, ServerTypeOK
<1>3. ~ Overlaid /\ (~ Overlaid' => \A j \in Conns : wpc[j] # "teardown")
  BY DEF HandshakeCompleted, Overlay, Overlaid, ServerInv, ServerTypeOK
<1>4. \A j \in Conns : ~ Holding(j)
  <2> SUFFICES ASSUME NEW j \in Conns, Holding(j) PROVE FALSE
    OBVIOUS
  <2>1. ~ Stopping
    BY <1>1 DEF Stopping
  <2>2. IF wpc[j] = "begin" THEN starting ELSE global.server = j
    BY <2>1, <1>3 DEF ServerInv, Kept
  <2>3. QED
    BY <2>2, <1>1 DEF Conns, NoConn
<1>5. \A j \in Conns : Holding(j)' => j = i
  BY <1>2, <1>4 DEF Holding, Serving
<1>6. Single'
  BY <1>5 DEF Single, Holding
<1>7. Alone'
  <2> SUFFICES ASSUME NEW j \in Conns, NEW k \in Conns, Holding(j)', j # k,
                      wpc'[k] \in {"closed", "teardown"}
               PROVE  Overlaid'
    BY DEF Alone
  <2>1. wpc[k] \in {"closed", "teardown"}
    BY <1>2
  <2>2. wpc[k] = "teardown"
    BY <2>1, <1>4 DEF Holding
  <2>3. QED
    BY <2>2, <1>3
<1>8. Kept'
  BY <1>1, <1>2, <1>5 DEF Kept
<1>9. Undropped'
  BY <1>1 DEF Undropped
<1>10. QED
  BY <1>6, <1>7, <1>8, <1>9 DEF ServerInv

(* So does the stop of the module. *)
LEMMA StopKeeps ==
  ASSUME ServerInv, UNCHANGED overlaid, SystemStop \/ StopTeardown \/ StopJoin, ServerTypeOK'
  PROVE  ServerInv'
<1>1. UNCHANGED wpc
  BY DEF SystemStop, StopTeardown, StopJoin, threads
<1>2. \A j \in Conns :
        (Holding(j) <=> Holding(j)') /\ (Serving(j) <=> Serving(j)')
  BY <1>1 DEF Holding, Serving
<1>3. Overlaid <=> Overlaid'
  BY DEF Overlaid
<1>4. Single'
  BY <1>2 DEF ServerInv, Single
<1>5. Alone'
  BY <1>1, <1>2, <1>3 DEF ServerInv, Alone
<1>6. CASE SystemStop
  <2>1. bpc' = "teardown" /\ tear'[BusThread] = <<1, "test">>
    BY <1>6 DEF SystemStop, BeginTear, ServerInv, ServerTypeOK
  <2>2. Kept' /\ Undropped'
    BY <2>1 DEF Kept, Undropped, Stopping
  <2>3. QED
    BY <1>4, <1>5, <2>2 DEF ServerInv
<1>7. CASE StopJoin
  <2>1. bpc' = "stopped"
    BY <1>7 DEF StopJoin
  <2>2. Kept' /\ Undropped'
    BY <2>1 DEF Kept, Undropped, Stopping
  <2>3. QED
    BY <1>4, <1>5, <2>2 DEF ServerInv
<1>8. CASE StopTeardown
  <2>1. bpc = "teardown"
    BY <1>8 DEF StopTeardown
  <2>2. CASE TearStep(BusThread) /\ UNCHANGED bpc
    <3>1. Kept'
      BY <2>1, <2>2 DEF Kept, Stopping
    <3>2. Undropped'
      <4> SUFFICES ASSUME tear'[BusThread][2] = "use"
                   PROVE  global'[DropOrder[tear'[BusThread][1]]] # NoConn
        BY DEF Undropped
      <4>1. QED
        BY <2>2, BeforeUse DEF ServerInv
    <3>3. QED
      BY <1>4, <1>5, <3>1, <3>2 DEF ServerInv
  <2>3. CASE TearFlag(BusThread) /\ bpc' = "join"
    <3>1. Kept' /\ Undropped'
      BY <2>3 DEF Kept, Undropped, Stopping
    <3>2. QED
      BY <1>4, <1>5, <3>1 DEF ServerInv
  <2>4. CASE TearFails(BusThread) /\ bpc' = "idle"
    <3>1. /\ tear[BusThread][2] = "use"
          /\ global[DropOrder[tear[BusThread][1]]] = NoConn
      BY <2>4 DEF TearFails
    <3>2. \A j \in Conns : Holding(j) => Overlaid
      BY <2>1, <3>1 DEF ServerInv, Undropped
    <3>3. Kept' /\ Undropped'
      BY <1>2, <1>3, <3>2 DEF Kept, Undropped
    <3>4. QED
      BY <1>4, <1>5, <3>3 DEF ServerInv
  <2>5. QED
    BY <1>8, <2>2, <2>3, <2>4 DEF StopTeardown
<1>9. QED
  BY <1>6, <1>7, <1>8

(* Only a handshake changes the history. *)
LEMMA HistoryStep ==
  ASSUME [ServerNext]_serverVars
  PROVE  \/ UNCHANGED overlaid
         \/ \E i \in Conns : HandshakeCompleted(i) /\ Overlay
<1>1. ASSUME NEW i \in Conns, Thread(i) \/ PhoneCloses(i)
      PROVE  UNCHANGED overlaid
  BY <1>1 DEF Thread, PhoneCloses, Begin, Bind, Accept, Announce, MakeAssembler,
              MakeRelay, StartRelay, RelayEnds, SessionClosed, Teardown
<1>2. ASSUME NEW i \in Conns, HandshakeCompleted(i) \/ SendFirst(i)
      PROVE  UNCHANGED overlaid \/ (HandshakeCompleted(i) /\ Overlay)
  BY <1>2 DEF HandshakeCompleted, SendFirst
<1>3. CASE BusStep
  BY <1>3 DEF BusStep, SendShutdownRequest, WaitEnds, ResetSession, Restarting,
              StopTeardown, StopJoin
<1>4. CASE StartTls \/ FeedInput \/ Ch0Frame \/ Restart \/ SystemStop \/ PhoneAnswers
  BY <1>4 DEF StartTls, FeedInput, Ch0Frame, Restart, SystemStop, PhoneAnswers
<1>5. QED
  BY <1>1, <1>2, <1>3, <1>4 DEF ServerNext, Bus, serverVars

(* So does every step, unless a handshake follows one in a _teardown(). *)
LEMMA ServerInvStep ==
  ASSUME ServerInv, [ServerNext]_serverVars, overlaid' < 2
  PROVE  ServerInv'
<1>1. ServerTypeOK'
  BY ServerTypeStep DEF ServerInv
<1>2. CASE \E i \in Conns : HandshakeCompleted(i)
  BY <1>1, <1>2, HandshakeKeeps
<1>3. CASE UNCHANGED overlaid
  BY <1>1, <1>2, <1>3, BusKinds, WorksKeeps, UnwindsKeeps, PassesKeeps, StopKeeps
     DEF ServerInv
<1>4. QED
  BY <1>2, <1>3, HistoryStep

(* "Accept exactly one plain TCP connection at a time" (server.py): for any
   number of connections, restarts and stops, no two threads bind, accept or
   relay at the same time, until a handshake follows one that has been let in
   while the thread of an earlier connection was still in _teardown().      *)
THEOREM OneServerCorrect == ServerSpec => []OneServer
<1> DEFINE Held == ServerTypeOK /\ (overlaid < 2 => ServerInv)
<1>1. ServerInit => Held
  BY ServerInvInit DEF ServerInv
<1>2. Held /\ [ServerNext]_serverVars => Held'
  <2> SUFFICES ASSUME Held, [ServerNext]_serverVars PROVE Held'
    OBVIOUS
  <2>1. ServerTypeOK'
    BY ServerTypeStep
  <2>2. overlaid' < 2 => overlaid < 2
    BY HistoryStep DEF Overlay, ServerTypeOK
  <2>3. overlaid' < 2 => ServerInv'
    BY <2>2, ServerInvStep
  <2>4. QED
    BY <2>1, <2>3
<1>3. Held => OneServer
  BY DEF ServerInv, Single, OneServer
<1>4. QED
  BY <1>1, <1>2, <1>3, PTL DEF ServerSpec
=============================================================================
