-------------------------- MODULE MessageBusProofs --------------------------
(***************************************************************************)
(* Theorems about MessageBus for any number of modules, threads, messages  *)
(* and launches, and for queues of any length.                             *)
(***************************************************************************)
EXTENDS MessageBus, SequenceTheorems, TLAPS

-----------------------------------------------------------------------------
(* Types of the messages.                                                  *)

Message == [src : Modules, seq : 1..MaxMessages]

(* The numbers of a message: a sender and a positive sequence number. *)
LEMMA MessageFields ==
  ASSUME NEW x \in Message
  PROVE  x.src \in Modules /\ x.seq \in 0..MaxMessages /\ x.seq # 0
BY DEF Message

(* The initial state has the types. *)
LEMMA InitBusType == BusInit => BusTypeOK
<1> SUFFICES ASSUME BusInit PROVE BusTypeOK
  OBVIOUS
<1>1. wire \in Seq(Message) /\ Len(wire) <= Hwm
  BY BusAssumption, EmptySeq DEF BusInit
<1>2. /\ seq \in [Modules -> 0..MaxMessages] /\ last \in [Modules -> 0..MaxMessages]
      /\ sending \in [Writers -> 0..MaxMessages] /\ lives \in [Modules -> 1..MaxLives]
      /\ gaps \in [Modules -> Nat] /\ duplicates \in [Modules -> Nat]
      /\ lost \in [Modules -> Nat]
  BY BusAssumption DEF BusInit, Zero
<1>3. QED
  BY <1>1, <1>2 DEF BusInit, BusTypeOK, Message

\* What is lost is counted.
LEMMA LostType ==
  ASSUME BusTypeOK, NEW m \in Modules, Lost(m)
  PROVE  lost' \in [Modules -> Nat]
<1>1. lost \in [Modules -> Nat]
  BY DEF BusTypeOK
<1>2. CASE subscribed
  BY <1>1, <1>2 DEF Lost
<1>3. CASE ~ subscribed
  BY <1>1, <1>3 DEF Lost
<1>4. QED
  BY <1>2, <1>3

\* What the subscriber takes to be missing between two numbers, and to be there
\* twice.
Missing(l, s) == IF l # 0 /\ s > l + 1 THEN s - l - 1 ELSE 0
Twice(l, s)   == IF s = l THEN 1 ELSE 0

(* What the receive loop changes, with the message at the head of the wire named. *)
LEMMA Received ==
  ASSUME Receive, NEW m, NEW s, m = Head(wire).src, s = Head(wire).seq
  PROVE  /\ wire # <<>> /\ wire' = Tail(wire)
         /\ last' = [last EXCEPT ![m] = s]
         /\ gaps' = [gaps EXCEPT ![m] = @ + Missing(last[m], s)]
         /\ duplicates' = [duplicates EXCEPT ![m] = @ + Twice(last[m], s)]
         /\ UNCHANGED <<seq, sending, lives, subscribed, lost, overtaken>>
BY DEF Receive, Key, Missing, Twice, numbers

(* A gap and a repetition are counted by natural numbers. *)
LEMMA MissingType ==
  ASSUME NEW l \in Nat, NEW s \in Nat
  PROVE  Missing(l, s) \in Nat /\ Twice(l, s) \in Nat
BY DEF Missing, Twice

(* Every step of a sender, of the broker and of a receiver keeps the types. *)
LEMMA BusType ==
  ASSUME BusTypeOK, BusNext
  PROVE  BusTypeOK'
<1>0. /\ seq \in [Modules -> 0..MaxMessages] /\ last \in [Modules -> 0..MaxMessages]
      /\ sending \in [Writers -> 0..MaxMessages] /\ lives \in [Modules -> 1..MaxLives]
      /\ gaps \in [Modules -> Nat] /\ duplicates \in [Modules -> Nat]
      /\ lost \in [Modules -> Nat] /\ subscribed \in BOOLEAN /\ overtaken \subseteq Modules
      /\ wire \in Seq(Message) /\ Len(wire) <= Hwm
  BY DEF BusTypeOK, Message
<1> USE <1>0, BusAssumption
<1> SUFFICES
      /\ seq' \in [Modules -> 0..MaxMessages] /\ last' \in [Modules -> 0..MaxMessages]
      /\ sending' \in [Writers -> 0..MaxMessages] /\ lives' \in [Modules -> 1..MaxLives]
      /\ gaps' \in [Modules -> Nat] /\ duplicates' \in [Modules -> Nat]
      /\ lost' \in [Modules -> Nat] /\ subscribed' \in BOOLEAN
      /\ overtaken' \subseteq Modules
      /\ wire' \in Seq(Message) /\ Len(wire') <= Hwm
  BY DEF BusTypeOK, Message
<1> USE DEF numbers, noticed
<1>1. ASSUME NEW w \in Writers, NextSeq(w)
      PROVE  /\ seq' \in [Modules -> 0..MaxMessages]
             /\ sending' \in [Writers -> 0..MaxMessages]
             /\ UNCHANGED <<lives, wire, subscribed, noticed, lost, overtaken>>
  <2>1. seq[ModuleOf[w]] + 1 \in 0..MaxMessages
    BY <1>1 DEF NextSeq
  <2>2. QED
    BY <1>1, <2>1 DEF NextSeq
<1>2. ASSUME NEW w \in Writers, Send(w) \/ EncodeFails(w)
      PROVE  /\ sending' \in [Writers -> 0..MaxMessages]
             /\ wire' \in Seq(Message) /\ Len(wire') <= Hwm
             /\ lost' \in [Modules -> Nat] /\ overtaken' \subseteq Modules
             /\ UNCHANGED <<seq, lives, subscribed, noticed>>
  <2>1. ModuleOf[w] \in Modules
    OBVIOUS
  <2>2. overtaken' \subseteq Modules
    BY <1>2, <2>1 DEF Send, EncodeFails, Overtakes
  <2>3. sending' \in [Writers -> 0..MaxMessages]
    <3>1. sending' = [sending EXCEPT ![w] = 0]
      BY <1>2 DEF Send, EncodeFails
    <3>2. QED
      BY <3>1
  <2>4. CASE UNCHANGED wire /\ Lost(ModuleOf[w])
    BY <1>2, <2>1, <2>2, <2>3, <2>4, LostType DEF Send, EncodeFails
  <2>5. CASE /\ Send(w) /\ Len(wire) < Hwm /\ UNCHANGED lost
             /\ wire' = Append(wire, [src |-> ModuleOf[w], seq |-> sending[w]])
    <3>1. [src |-> ModuleOf[w], seq |-> sending[w]] \in Message
      BY <2>1, <2>5 DEF Send, Message
    <3>2. wire' \in Seq(Message) /\ Len(wire') = Len(wire) + 1
      BY <2>5, <3>1, AppendProperties
    <3>3. Len(wire') <= Hwm
      BY <2>5, <3>2, LenProperties
    <3>4. QED
      BY <2>2, <2>3, <2>5, <3>2, <3>3 DEF Send
  <2>6. QED
    BY <1>2, <2>4, <2>5 DEF Send, EncodeFails
<1>3. ASSUME NEW m \in Modules, Relaunch(m)
      PROVE  /\ seq' \in [Modules -> 0..MaxMessages]
             /\ sending' \in [Writers -> 0..MaxMessages]
             /\ lives' \in [Modules -> 1..MaxLives]
             /\ UNCHANGED <<wire, subscribed, noticed, lost, overtaken>>
  <2>1. lives[m] + 1 \in 1..MaxLives
    BY <1>3 DEF Relaunch
  <2>2. QED
    BY <1>3, <2>1 DEF Relaunch
<1>4. CASE Subscribe
  BY <1>4 DEF Subscribe
<1>5. CASE Receive
  <2>1. Head(wire) \in Message /\ Tail(wire) \in Seq(Message) /\ Len(Tail(wire)) <= Hwm
    <3>1. Len(Tail(wire)) = Len(wire) - 1
      BY <1>5, HeadTailProperties DEF Receive
    <3>2. QED
      BY <1>5, <3>1, HeadTailProperties, LenProperties DEF Receive
  <2>2. PICK m \in Modules, s \in 0..MaxMessages : m = Head(wire).src /\ s = Head(wire).seq
    BY <2>1, MessageFields
  <2>3. PICK d \in Nat, e \in Nat : d = Missing(last[m], s) /\ e = Twice(last[m], s)
    <3>1. last[m] \in Nat /\ s \in Nat
      OBVIOUS
    <3>2. QED
      BY <3>1, MissingType
  <2>4. /\ last' = [last EXCEPT ![m] = s] /\ gaps' = [gaps EXCEPT ![m] = @ + d]
        /\ duplicates' = [duplicates EXCEPT ![m] = @ + e]
    BY <1>5, <2>2, <2>3, Received, Zenon
  <2>5. /\ last' \in [Modules -> 0..MaxMessages]
        /\ gaps' \in [Modules -> Nat] /\ duplicates' \in [Modules -> Nat]
    <3>1. last' \in [Modules -> 0..MaxMessages]
      BY <2>4
    <3>2. gaps' \in [Modules -> Nat]
      BY <2>4
    <3>3. duplicates' \in [Modules -> Nat]
      BY <2>4
    <3>4. QED
      BY <3>1, <3>2, <3>3
  <2>6. QED
    BY <1>5, <2>1, <2>5 DEF Receive
<1>6. QED
  BY <1>1, <1>2, <1>3, <1>4, <1>5 DEF BusNext

\* The numbers of the bus are well typed.
THEOREM BusTypeCorrect == Spec => []BusTypeOK
<1>1. Init => BusTypeOK
  BY InitBusType DEF Init
<1>2. BusTypeOK /\ [Next]_vars => BusTypeOK'
  <2> SUFFICES ASSUME BusTypeOK, [Next]_vars PROVE BusTypeOK'
    OBVIOUS
  <2>1. CASE BusNext
    BY <2>1, BusType
  <2>2. CASE UNCHANGED traffic
    BY <2>2 DEF traffic, numbers, noticed, BusTypeOK
  <2>3. QED
    BY <2>1, <2>2 DEF Next, vars
<1>3. QED
  BY <1>1, <1>2, PTL DEF Spec
-----------------------------------------------------------------------------
(* The inductive invariant.                                                *)

\* What the subscriber will take to be the last number of m, and how many it will
\* say are missing, after the first i messages that are on their way.
Foreseen(m, L, G) ==
  /\ L[0] = last[m] /\ G[0] = gaps[m]
  /\ \A i \in 1..Len(wire) :
       IF wire[i].src = m
         THEN L[i] = wire[i].seq /\ G[i] = G[i-1] + Missing(L[i-1], L[i])
         ELSE L[i] = L[i-1] /\ G[i] = G[i-1]

\* The numbers of m up to S have been sent or lost, one after the other; each of
\* the others that were given is with a thread of its own.
SentUpTo(m, S) ==
  /\ S \in Nat /\ S <= seq[m]
  /\ \A w \in Writers : ModuleOf[w] = m /\ sending[w] # 0 =>
       /\ S < sending[w] /\ sending[w] <= seq[m]
       /\ \A v \in Writers : ModuleOf[v] = m /\ v # w => sending[v] # sending[w]
  /\ \A n \in S+1 .. seq[m] : \E w \in Writers : ModuleOf[w] = m /\ sending[w] = n

\* What will be said to be missing is lost, even if the number after S comes next.
Accounted(m, L, G, S) ==
  /\ \A i \in 0..Len(wire) : G[i] <= lost[m]
  /\ G[Len(wire)] + Missing(L[Len(wire)], S + 1) <= lost[m]

\* The numbers of the first life of m come one after the other.
Ascends(m, L, S) ==
  lives[m] = 1 =>
    /\ duplicates[m] = 0 /\ L[Len(wire)] <= S
    /\ \A i \in 1..Len(wire) : wire[i].src = m => L[i-1] < L[i]

Foresight == [0..Len(wire) -> Nat]

Explained(m) ==
  \E L \in Foresight, G \in Foresight, S \in Nat :
    /\ Foreseen(m, L, G) /\ SentUpTo(m, S)
    /\ Accounted(m, L, G, S) /\ Ascends(m, L, S)

Numbered ==
  /\ ~ subscribed => wire = <<>> /\ \A m \in Modules : last[m] = 0
  /\ \A m \in Modules \ overtaken : Explained(m)

-----------------------------------------------------------------------------
(* The numbers with the threads.                                           *)

\* The facts about the types that the proofs use.
Typed ==
  /\ seq \in [Modules -> Nat] /\ last \in [Modules -> Nat]
  /\ sending \in [Writers -> Nat] /\ lives \in [Modules -> Nat \ {0}]
  /\ gaps \in [Modules -> Nat] /\ duplicates \in [Modules -> Nat]
  /\ lost \in [Modules -> Nat] /\ subscribed \in BOOLEAN
  /\ wire \in Seq(Message)

(* The types that the argument about numbers needs are part of BusTypeOK. *)
LEMMA TypedWeakly == BusTypeOK => Typed
<1> SUFFICES ASSUME BusTypeOK PROVE Typed
  OBVIOUS
<1>1. /\ 0..MaxMessages \subseteq Nat /\ 1..MaxLives \subseteq Nat \ {0}
  BY BusAssumption
<1>2. /\ seq \in [Modules -> Nat] /\ last \in [Modules -> Nat]
      /\ sending \in [Writers -> Nat] /\ lives \in [Modules -> Nat \ {0}]
  BY <1>1 DEF BusTypeOK
<1>3. QED
  BY <1>2 DEF BusTypeOK, Typed, Message

\* A number that is given is above all those before.
LEMMA NextSeqSent ==
  ASSUME Typed, NEW m \in Modules, NEW S, SentUpTo(m, S),
         NEW w \in Writers, NextSeq(w)
  PROVE  SentUpTo(m, S)'
<1> USE DEF Typed
<1>1. CASE ModuleOf[w] = m
  <2>1. /\ seq' = [seq EXCEPT ![m] = @ + 1] /\ sending[w] = 0
        /\ sending' = [sending EXCEPT ![w] = seq[m] + 1]
    BY <1>1 DEF NextSeq
  <2>2. seq'[m] = seq[m] + 1 /\ sending'[w] = seq[m] + 1
    BY <2>1
  <2>3. \A v \in Writers : v # w => sending'[v] = sending[v]
    BY <2>1
  <2>4. S \in Nat /\ S <= seq'[m]
    BY <2>2 DEF SentUpTo
  <2>5. ASSUME NEW v \in Writers, ModuleOf[v] = m, sending'[v] # 0
        PROVE  /\ S < sending'[v] /\ sending'[v] <= seq'[m]
               /\ \A u \in Writers : ModuleOf[u] = m /\ u # v => sending'[u] # sending'[v]
    <3>1. \A u \in Writers : ModuleOf[u] = m => sending[u] <= seq[m]
      BY DEF SentUpTo
    <3>2. CASE v = w
      BY <2>2, <2>3, <3>1, <3>2 DEF SentUpTo
    <3>3. CASE v # w
      BY <2>2, <2>3, <2>5, <3>1, <3>3 DEF SentUpTo
    <3>4. QED
      BY <3>2, <3>3
  <2>6. ASSUME NEW n \in S+1 .. seq'[m]
        PROVE  \E v \in Writers : ModuleOf[v] = m /\ sending'[v] = n
    <3>1. CASE n = seq[m] + 1
      BY <1>1, <2>2, <3>1
    <3>2. CASE n # seq[m] + 1
      <4>1. n \in S+1 .. seq[m] /\ n # 0
        <5>1. seq[m] \in Nat /\ S \in Nat /\ n \in S+1 .. seq[m] + 1
          BY <2>2, <2>4
        <5>2. QED
          BY <3>2, <5>1
      <4>2. PICK v \in Writers : ModuleOf[v] = m /\ sending[v] = n
        BY <4>1 DEF SentUpTo
      <4>3. QED
        BY <2>1, <2>3, <4>1, <4>2
    <3>3. QED
      BY <3>1, <3>2
  <2>7. QED
    BY <2>4, <2>5, <2>6 DEF SentUpTo
<1>2. CASE ModuleOf[w] # m
  <2>1. seq'[m] = seq[m] /\ \A v \in Writers : ModuleOf[v] = m => sending'[v] = sending[v]
    BY <1>2, BusAssumption DEF NextSeq
  <2>2. S \in Nat /\ S <= seq'[m]
    BY <2>1 DEF SentUpTo
  <2>3. ASSUME NEW v \in Writers, ModuleOf[v] = m, sending'[v] # 0
        PROVE  /\ S < sending'[v] /\ sending'[v] <= seq'[m]
               /\ \A u \in Writers : ModuleOf[u] = m /\ u # v => sending'[u] # sending'[v]
    BY <2>1, <2>3 DEF SentUpTo
  <2>4. ASSUME NEW n \in S+1 .. seq'[m]
        PROVE  \E v \in Writers : ModuleOf[v] = m /\ sending'[v] = n
    <3>1. PICK v \in Writers : ModuleOf[v] = m /\ sending[v] = n
      BY <2>1 DEF SentUpTo
    <3>2. QED
      BY <2>1, <3>1
  <2>5. QED
    BY <2>2, <2>3, <2>4 DEF SentUpTo
<1>3. QED
  BY <1>1, <1>2

\* The number that a thread gets rid of is the next one, or older ones are
\* overtaken.
LEMMA SendSent ==
  ASSUME Typed, NEW m \in Modules \ overtaken', NEW S, SentUpTo(m, S),
         NEW w \in Writers, ModuleOf[w] = m, sending[w] # 0,
         sending' = [sending EXCEPT ![w] = 0], Overtakes(w), UNCHANGED seq
  PROVE  sending[w] = S + 1 /\ SentUpTo(m, S + 1)'
<1> USE DEF Typed
<1>1. S \in Nat /\ S < sending[w] /\ sending[w] <= seq[m]
  BY DEF SentUpTo
<1>2. \A v \in Writers : ModuleOf[v] = m => sending[v] \notin 1 .. sending[w] - 1
  BY DEF Overtakes
<1>3. sending[w] = S + 1
  <2>1. S + 1 \in S+1 .. seq[m]
    BY <1>1
  <2>2. PICK v \in Writers : ModuleOf[v] = m /\ sending[v] = S + 1
    BY <2>1 DEF SentUpTo
  <2>3. sending[w] \in Nat /\ S + 1 \notin 1 .. sending[w] - 1
    BY <1>2, <2>2
  <2>4. QED
    BY <1>1, <2>3
<1>4. sending'[w] = 0 /\ \A v \in Writers : v # w => sending'[v] = sending[v]
  OBVIOUS
<1>5. ASSUME NEW v \in Writers, ModuleOf[v] = m, sending'[v] # 0
      PROVE  /\ S + 1 < sending'[v] /\ sending'[v] <= seq'[m]
             /\ \A u \in Writers : ModuleOf[u] = m /\ u # v => sending'[u] # sending'[v]
  <2>1. v # w /\ sending'[v] = sending[v]
    BY <1>4, <1>5
  <2>2. /\ S < sending[v] /\ sending[v] <= seq[m] /\ sending[v] # sending[w]
        /\ \A u \in Writers : ModuleOf[u] = m /\ u # v => sending[u] # sending[v]
    BY <1>5, <2>1 DEF SentUpTo
  <2>3. S + 1 < sending[v]
    BY <1>1, <1>3, <2>2
  <2>4. QED
    BY <1>4, <1>5, <2>1, <2>2, <2>3
<1>6. ASSUME NEW n \in S+1+1 .. seq'[m]
      PROVE  \E v \in Writers : ModuleOf[v] = m /\ sending'[v] = n
  <2>1. n \in S+1 .. seq[m] /\ n # S + 1
    BY <1>1, <1>6
  <2>2. PICK v \in Writers : ModuleOf[v] = m /\ sending[v] = n
    BY <2>1 DEF SentUpTo
  <2>3. QED
    BY <1>3, <1>4, <2>1, <2>2
<1>7. QED
  BY <1>1, <1>3, <1>5, <1>6 DEF SentUpTo

\* The threads of another module have numbers of their own.
LEMMA OtherSent ==
  ASSUME NEW m \in Modules, NEW S, SentUpTo(m, S), seq'[m] = seq[m],
         \A v \in Writers : ModuleOf[v] = m => sending'[v] = sending[v]
  PROVE  SentUpTo(m, S)'
BY DEF SentUpTo

\* A module that is launched again begins with 1.
LEMMA RelaunchSent ==
  ASSUME Typed, NEW m \in Modules, Relaunch(m)
  PROVE  SentUpTo(m, 0)'
<1>1. seq'[m] = 0 /\ \A v \in Writers : ModuleOf[v] = m => sending'[v] = 0
  BY DEF Relaunch, Typed
<1>2. QED
  BY <1>1 DEF SentUpTo

-----------------------------------------------------------------------------
(* The queue.                                                              *)

\* As long as the queue stays what it is, what is foreseen does.
LEMMA QueueKept ==
  ASSUME Typed, Typed', NEW m \in Modules, NEW L \in Foresight, NEW G \in Foresight,
         NEW S \in Nat, NEW T \in Nat,
         Foreseen(m, L, G), Accounted(m, L, G, S), Ascends(m, L, S),
         UNCHANGED <<wire, last, gaps, duplicates>>,
         SentUpTo(m, T)', lost[m] <= lost'[m],
         G[Len(wire)] + Missing(L[Len(wire)], T + 1) <= lost'[m],
         lives'[m] = 1 => lives[m] = 1 /\ S <= T
  PROVE  Explained(m)'
<1>1. Len(wire) \in Nat /\ Foresight' = Foresight
  BY LenProperties DEF Typed, Foresight
<1>2. Foreseen(m, L, G)'
  BY DEF Foreseen
<1>3. Accounted(m, L, G, T)'
  <2>1. \A i \in 0..Len(wire) : G[i] \in Nat /\ G[i] <= lost[m]
    BY DEF Accounted, Foresight
  <2>2. lost[m] \in Nat /\ lost'[m] \in Nat
    BY DEF Typed
  <2>3. \A i \in 0..Len(wire) : G[i] <= lost'[m]
    BY <2>1, <2>2
  <2>4. QED
    BY <2>3 DEF Accounted
<1>4. Ascends(m, L, T)'
  <2>1. L[Len(wire)] \in Nat
    BY <1>1 DEF Foresight
  <2>2. QED
    BY <2>1 DEF Ascends
<1>5. QED
  BY <1>1, <1>2, <1>3, <1>4 DEF Explained

\* A message of another module changes nothing for this one.
LEMMA OtherAppended ==
  ASSUME Typed, Typed', NEW m \in Modules, Explained(m), NEW x \in Message, x.src # m,
         wire' = Append(wire, x), UNCHANGED <<last, gaps, duplicates, lives, lost>>,
         \A T \in Nat : SentUpTo(m, T) => SentUpTo(m, T)'
  PROVE  Explained(m)'
<1>1. PICK L \in Foresight, G \in Foresight, T \in Nat :
        /\ Foreseen(m, L, G) /\ SentUpTo(m, T)
        /\ Accounted(m, L, G, T) /\ Ascends(m, L, T)
  BY DEF Explained
<1>2. PICK n \in Nat : n = Len(wire)
  BY LenProperties DEF Typed
<1>3. /\ Len(wire') = n + 1
      /\ \A i \in 1..n : wire'[i] = wire[i]
      /\ wire'[n + 1] = x
  BY <1>2, AppendProperties DEF Typed
<1>4. L \in [0..n -> Nat] /\ G \in [0..n -> Nat]
  BY <1>2 DEF Foresight
<1>5. PICK L2 \in [0..n+1 -> Nat], G2 \in [0..n+1 -> Nat] :
        /\ \A i \in 0..n : L2[i] = L[i] /\ G2[i] = G[i]
        /\ L2[n + 1] = L[n] /\ G2[n + 1] = G[n]
  <2> DEFINE Longer(f) == [i \in 0..n+1 |-> IF i <= n THEN f[i] ELSE f[n]]
  <2>1. Longer(L) \in [0..n+1 -> Nat] /\ Longer(G) \in [0..n+1 -> Nat]
    BY <1>4
  <2>2. /\ \A i \in 0..n : Longer(L)[i] = L[i] /\ Longer(G)[i] = G[i]
        /\ Longer(L)[n + 1] = L[n] /\ Longer(G)[n + 1] = G[n]
    OBVIOUS
  <2> HIDE DEF Longer
  <2>3. QED
    BY <2>1, <2>2
<1>6. Foreseen(m, L2, G2)'
  <2>1. L2[0] = last[m] /\ G2[0] = gaps[m]
    BY <1>1, <1>5 DEF Foreseen
  <2>2. ASSUME NEW i \in 1..n+1
        PROVE  IF wire'[i].src = m
                 THEN L2[i] = wire'[i].seq /\ G2[i] = G2[i-1] + Missing(L2[i-1], L2[i])
                 ELSE L2[i] = L2[i-1] /\ G2[i] = G2[i-1]
    <3>1. CASE i = n + 1
      <4>1. n \in 0..n /\ i - 1 = n
        BY <3>1
      <4>2. QED
        BY <1>3, <1>5, <3>1, <4>1
    <3>2. CASE i # n + 1
      <4>1. i \in 1..n /\ i \in 0..n /\ i-1 \in 0..n
        BY <3>2
      <4>2. IF wire[i].src = m
              THEN L[i] = wire[i].seq /\ G[i] = G[i-1] + Missing(L[i-1], L[i])
              ELSE L[i] = L[i-1] /\ G[i] = G[i-1]
        BY <1>1, <1>2, <4>1 DEF Foreseen
      <4>3. QED
        BY <1>3, <1>5, <4>1, <4>2
    <3>3. QED
      BY <3>1, <3>2
  <2>3. QED
    BY <1>3, <2>1, <2>2 DEF Foreseen
<1>7. Accounted(m, L2, G2, T)'
  <2>1. \A i \in 0..n+1 : G2[i] <= lost[m]
    <3>1. \A i \in 0..n : G[i] <= lost[m]
      BY <1>1, <1>2 DEF Accounted
    <3>2. n \in 0..n /\ \A i \in 0..n+1 : i \in 0..n \/ i = n + 1
      OBVIOUS
    <3>3. QED
      BY <1>5, <3>1, <3>2
  <2>2. G2[n + 1] + Missing(L2[n + 1], T + 1) <= lost[m]
    BY <1>1, <1>2, <1>5 DEF Accounted
  <2>3. QED
    BY <1>3, <2>1, <2>2 DEF Accounted
<1>8. Ascends(m, L2, T)'
  <2> SUFFICES ASSUME lives[m] = 1
               PROVE  /\ duplicates[m] = 0 /\ L2[n + 1] <= T
                      /\ \A i \in 1..n+1 : wire'[i].src = m => L2[i-1] < L2[i]
    BY <1>3 DEF Ascends
  <2>1. duplicates[m] = 0 /\ L[n] <= T
    BY <1>1, <1>2 DEF Ascends
  <2>2. ASSUME NEW i \in 1..n+1, wire'[i].src = m
        PROVE  L2[i-1] < L2[i]
    <3>1. i # n + 1
      BY <1>3, <2>2
    <3>2. i \in 1..n /\ i \in 0..n /\ i-1 \in 0..n
      BY <3>1
    <3>3. QED
      BY <1>1, <1>2, <1>3, <1>5, <2>2, <3>2 DEF Ascends
  <2>3. QED
    BY <1>5, <2>1, <2>2
<1>9. L2 \in Foresight' /\ G2 \in Foresight' /\ SentUpTo(m, T)'
  BY <1>1, <1>3, <1>5 DEF Foresight
<1>10. QED
  BY <1>6, <1>7, <1>8, <1>9 DEF Explained

\* A message of this module ends what is foreseen with its number.
LEMMA OwnAppended ==
  ASSUME Typed, Typed', NEW m \in Modules, NEW L \in Foresight, NEW G \in Foresight,
         NEW S \in Nat, Foreseen(m, L, G), Accounted(m, L, G, S), Ascends(m, L, S),
         NEW x \in Message, x.src = m, x.seq = S + 1, SentUpTo(m, S + 1)',
         wire' = Append(wire, x), UNCHANGED <<last, gaps, duplicates, lives, lost>>
  PROVE  Explained(m)'
<1>1. PICK n \in Nat : n = Len(wire)
  BY LenProperties DEF Typed
<1>2. /\ Len(wire') = n + 1
      /\ \A i \in 1..n : wire'[i] = wire[i]
      /\ wire'[n + 1] = x
  BY <1>1, AppendProperties DEF Typed
<1>3. L \in [0..n -> Nat] /\ G \in [0..n -> Nat]
  BY <1>1 DEF Foresight
<1>4. PICK g \in Nat : g = G[n] + Missing(L[n], S + 1)
  <2>1. L[n] \in Nat /\ G[n] \in Nat /\ S + 1 \in Nat
    BY <1>3
  <2>2. PICK d \in Nat : d = Missing(L[n], S + 1)
    BY <2>1, MissingType
  <2>3. G[n] + d \in Nat
    BY <2>1
  <2>4. QED
    BY <2>2, <2>3
<1>5. g <= lost[m]
  BY <1>1, <1>4 DEF Accounted
<1>6. PICK L2 \in [0..n+1 -> Nat], G2 \in [0..n+1 -> Nat] :
        /\ \A i \in 0..n : L2[i] = L[i] /\ G2[i] = G[i]
        /\ L2[n + 1] = S + 1 /\ G2[n + 1] = g
  <2> DEFINE Longer(f, e) == [i \in 0..n+1 |-> IF i <= n THEN f[i] ELSE e]
  <2>1. Longer(L, S + 1) \in [0..n+1 -> Nat] /\ Longer(G, g) \in [0..n+1 -> Nat]
    BY <1>3
  <2>2. /\ \A i \in 0..n : Longer(L, S + 1)[i] = L[i] /\ Longer(G, g)[i] = G[i]
        /\ Longer(L, S + 1)[n + 1] = S + 1 /\ Longer(G, g)[n + 1] = g
    OBVIOUS
  <2> HIDE DEF Longer
  <2>3. QED
    BY <2>1, <2>2
<1>7. Foreseen(m, L2, G2)'
  <2>1. L2[0] = last[m] /\ G2[0] = gaps[m]
    BY <1>6 DEF Foreseen
  <2>2. ASSUME NEW i \in 1..n+1
        PROVE  IF wire'[i].src = m
                 THEN L2[i] = wire'[i].seq /\ G2[i] = G2[i-1] + Missing(L2[i-1], L2[i])
                 ELSE L2[i] = L2[i-1] /\ G2[i] = G2[i-1]
    <3>1. CASE i = n + 1
      <4>1. n \in 0..n /\ i - 1 = n
        BY <3>1
      <4>2. QED
        BY <1>2, <1>4, <1>6, <3>1, <4>1
    <3>2. CASE i # n + 1
      <4>1. i \in 1..n /\ i \in 0..n /\ i-1 \in 0..n
        BY <3>2
      <4>2. IF wire[i].src = m
              THEN L[i] = wire[i].seq /\ G[i] = G[i-1] + Missing(L[i-1], L[i])
              ELSE L[i] = L[i-1] /\ G[i] = G[i-1]
        BY <1>1, <4>1 DEF Foreseen
      <4>3. /\ L2[i] = L[i] /\ L2[i-1] = L[i-1] /\ G2[i] = G[i] /\ G2[i-1] = G[i-1]
            /\ wire'[i] = wire[i]
        BY <1>2, <1>6, <4>1
      <4>4. QED
        BY <4>2, <4>3
    <3>3. QED
      BY <3>1, <3>2
  <2>3. QED
    BY <1>2, <2>1, <2>2 DEF Foreseen
<1>8. Accounted(m, L2, G2, S + 1)'
  <2>1. \A i \in 0..n+1 : G2[i] <= lost[m]
    <3>1. \A i \in 0..n : G[i] <= lost[m]
      BY <1>1 DEF Accounted
    <3>2. \A i \in 0..n+1 : i \in 0..n \/ i = n + 1
      OBVIOUS
    <3>3. QED
      BY <1>5, <1>6, <3>1, <3>2
  <2>2. Missing(S + 1, S + 1 + 1) = 0
    BY DEF Missing
  <2>3. G2[n + 1] + Missing(L2[n + 1], S + 1 + 1) <= lost[m]
    BY <1>5, <1>6, <2>2
  <2>4. QED
    BY <1>2, <2>1, <2>3 DEF Accounted
<1>9. Ascends(m, L2, S + 1)'
  <2> SUFFICES ASSUME lives[m] = 1
               PROVE  /\ duplicates[m] = 0 /\ L2[n + 1] <= S + 1
                      /\ \A i \in 1..n+1 : wire'[i].src = m => L2[i-1] < L2[i]
    BY <1>2 DEF Ascends
  <2>1. duplicates[m] = 0 /\ L[n] <= S
    BY <1>1 DEF Ascends
  <2>2. ASSUME NEW i \in 1..n+1, wire'[i].src = m
        PROVE  L2[i-1] < L2[i]
    <3>1. CASE i = n + 1
      <4>1. n \in 0..n /\ i - 1 = n /\ L[n] \in Nat
        BY <1>3, <3>1
      <4>2. QED
        BY <1>6, <2>1, <3>1, <4>1
    <3>2. CASE i # n + 1
      <4>1. i \in 1..n /\ i \in 0..n /\ i-1 \in 0..n
        BY <3>2
      <4>2. QED
        BY <1>1, <1>2, <1>6, <2>2, <4>1 DEF Ascends
    <3>3. QED
      BY <3>1, <3>2
  <2>3. L2[n + 1] <= S + 1
    BY <1>6
  <2>4. QED
    BY <2>1, <2>2, <2>3
<1>10. L2 \in Foresight' /\ G2 \in Foresight' /\ S + 1 \in Nat
  BY <1>2, <1>6 DEF Foresight
<1>11. QED
  BY <1>7, <1>8, <1>9, <1>10 DEF Explained

\* The first message has been taken: what was foreseen of it has come.
LEMMA Taken ==
  ASSUME Typed, Typed', NEW m \in Modules, NEW L \in Foresight, NEW G \in Foresight,
         NEW S \in Nat, Foreseen(m, L, G), Accounted(m, L, G, S), Ascends(m, L, S),
         wire # <<>>, wire' = Tail(wire), last'[m] = L[1], gaps'[m] = G[1],
         lives[m] = 1 => duplicates'[m] = 0,
         SentUpTo(m, S)', UNCHANGED <<lives, lost>>
  PROVE  Explained(m)'
<1>1. PICK n \in Nat : n + 1 = Len(wire)
  <2>1. Len(wire) \in Nat /\ Len(wire) # 0
    BY LenProperties, EmptySeq DEF Typed
  <2>2. Len(wire) - 1 \in Nat /\ Len(wire) - 1 + 1 = Len(wire)
    BY <2>1
  <2>3. QED
    BY <2>2
<1>2. Len(wire') = n /\ \A i \in 1..n : wire'[i] = wire[i + 1]
  BY <1>1, HeadTailProperties DEF Typed
<1>3. L \in [0..n+1 -> Nat] /\ G \in [0..n+1 -> Nat]
  BY <1>1 DEF Foresight
<1>4. PICK L2 \in [0..n -> Nat], G2 \in [0..n -> Nat] :
        \A i \in 0..n : L2[i] = L[i + 1] /\ G2[i] = G[i + 1]
  <2> DEFINE Shifted(f) == [i \in 0..n |-> f[i + 1]]
  <2>1. \A i \in 0..n : i + 1 \in 0..n+1
    OBVIOUS
  <2>2. Shifted(L) \in [0..n -> Nat] /\ Shifted(G) \in [0..n -> Nat]
    BY <1>3, <2>1
  <2>3. \A i \in 0..n : Shifted(L)[i] = L[i + 1] /\ Shifted(G)[i] = G[i + 1]
    OBVIOUS
  <2> HIDE DEF Shifted
  <2>4. QED
    BY <2>2, <2>3
<1>5. Foreseen(m, L2, G2)'
  <2>1. L2[0] = L[1] /\ G2[0] = G[1]
    BY <1>4
  <2>2. ASSUME NEW i \in 1..n
        PROVE  IF wire'[i].src = m
                 THEN L2[i] = wire'[i].seq /\ G2[i] = G2[i-1] + Missing(L2[i-1], L2[i])
                 ELSE L2[i] = L2[i-1] /\ G2[i] = G2[i-1]
    <3>1. /\ i + 1 \in 1..Len(wire) /\ i \in 0..n /\ i - 1 \in 0..n
          /\ i - 1 + 1 = i /\ i + 1 - 1 = i
      BY <1>1
    <3>2. IF wire[i + 1].src = m
            THEN L[i + 1] = wire[i + 1].seq /\ G[i + 1] = G[i] + Missing(L[i], L[i + 1])
            ELSE L[i + 1] = L[i] /\ G[i + 1] = G[i]
      BY <3>1 DEF Foreseen
    <3>3. /\ L2[i] = L[i + 1] /\ L2[i-1] = L[i] /\ G2[i] = G[i + 1] /\ G2[i-1] = G[i]
          /\ wire'[i] = wire[i + 1]
      BY <1>2, <1>4, <3>1
    <3>4. QED
      BY <3>2, <3>3
  <2>3. QED
    BY <1>2, <2>1, <2>2 DEF Foreseen
<1>6. L2[n] = L[n + 1] /\ G2[n] = G[n + 1]
  BY <1>4
<1>7. Accounted(m, L2, G2, S)'
  <2>1. \A i \in 0..n : i + 1 \in 0..Len(wire)
    BY <1>1
  <2>2. \A i \in 0..n : G2[i] <= lost[m]
    BY <1>4, <2>1 DEF Accounted
  <2>3. G2[n] + Missing(L2[n], S + 1) <= lost[m]
    BY <1>1, <1>6 DEF Accounted
  <2>4. QED
    BY <1>2, <2>2, <2>3 DEF Accounted
<1>8. Ascends(m, L2, S)'
  <2> SUFFICES ASSUME lives[m] = 1
               PROVE  L2[n] <= S /\ \A i \in 1..n : wire'[i].src = m => L2[i-1] < L2[i]
    BY <1>2 DEF Ascends
  <2>1. L2[n] <= S
    BY <1>1, <1>6 DEF Ascends
  <2>2. ASSUME NEW i \in 1..n, wire'[i].src = m
        PROVE  L2[i-1] < L2[i]
    <3>1. /\ i + 1 \in 1..Len(wire) /\ i \in 0..n /\ i - 1 \in 0..n
          /\ i - 1 + 1 = i /\ i + 1 - 1 = i
      BY <1>1
    <3>2. wire[i + 1].src = m => L[i] < L[i + 1]
      BY <3>1 DEF Ascends
    <3>3. L2[i] = L[i + 1] /\ L2[i-1] = L[i] /\ wire'[i] = wire[i + 1]
      BY <1>2, <1>4, <3>1
    <3>4. QED
      BY <2>2, <3>2, <3>3
  <2>3. QED
    BY <2>1, <2>2
<1>9. L2 \in Foresight' /\ G2 \in Foresight'
  BY <1>2, <1>4 DEF Foresight
<1>10. QED
  BY <1>5, <1>7, <1>8, <1>9 DEF Explained

-----------------------------------------------------------------------------
(* The steps of the bus.                                                   *)

\* A number that is left out makes at most one more missing.
LEMMA OneMoreMissing ==
  ASSUME NEW l \in Nat, NEW S \in Nat
  PROVE  /\ Missing(l, S + 1 + 1) <= Missing(l, S + 1) + 1
         /\ Missing(0, S + 1 + 1) = 0 /\ Missing(l, 1) = 0
BY DEF Missing

\* As long as nobody has subscribed, nothing is on its way and nothing has come.
LEMMA NothingBefore ==
  ASSUME Typed, Numbered, ~ subscribed, NEW m \in Modules, NEW L, NEW G, Foreseen(m, L, G)
  PROVE  Len(wire) = 0 /\ L[0] = 0
BY EmptySeq DEF Numbered, Foreseen

\* What is foreseen for the end of the queue.
LEMMA AtEnd ==
  ASSUME Typed, NEW m \in Modules, NEW L \in Foresight, NEW G \in Foresight,
         NEW S \in Nat, Accounted(m, L, G, S), NEW n \in Nat, n = Len(wire)
  PROVE  /\ L[n] \in Nat /\ G[n] \in Nat /\ G[n] <= lost[m] /\ lost[m] \in Nat
         /\ G[n] + Missing(L[n], S + 1) <= lost[m]
<1>1. lost[m] \in Nat
  BY DEF Typed
<1>2. n \in 0..n /\ L \in [0..n -> Nat] /\ G \in [0..n -> Nat]
  BY DEF Foresight
<1>3. L[n] \in Nat /\ G[n] \in Nat
  BY <1>2
<1>4. G[n] <= lost[m] /\ G[n] + Missing(L[n], S + 1) <= lost[m]
  BY <1>2 DEF Accounted
<1>5. QED
  BY <1>1, <1>3, <1>4

\* A message that does not get on the bus.
LEMMA LostExplained ==
  ASSUME Typed, Typed', Numbered, NEW m \in Modules \ overtaken', Explained(m),
         NEW w \in Writers, sending[w] # 0,
         sending' = [sending EXCEPT ![w] = 0], Overtakes(w), Lost(ModuleOf[w]),
         UNCHANGED <<seq, lives, wire, subscribed, last, gaps, duplicates>>
  PROVE  Explained(m)'
<1>1. PICK L \in Foresight, G \in Foresight, S \in Nat :
        /\ Foreseen(m, L, G) /\ SentUpTo(m, S)
        /\ Accounted(m, L, G, S) /\ Ascends(m, L, S)
  BY DEF Explained
<1>2. PICK n \in Nat : n = Len(wire)
  BY LenProperties DEF Typed
<1>3. /\ L[n] \in Nat /\ G[n] \in Nat /\ G[n] <= lost[m] /\ lost[m] \in Nat
      /\ G[n] + Missing(L[n], S + 1) <= lost[m]
  BY <1>1, <1>2, AtEnd
<1>4. PICK d \in Nat, e \in Nat : /\ d = Missing(L[n], S + 1) /\ e = Missing(L[n], S + 1 + 1)
                                  /\ e <= d + 1
  <2>1. S + 1 \in Nat /\ S + 1 + 1 \in Nat
    OBVIOUS
  <2>2. Missing(L[n], S + 1) \in Nat /\ Missing(L[n], S + 1 + 1) \in Nat
    BY <1>3, <2>1, MissingType
  <2>3. Missing(L[n], S + 1 + 1) <= Missing(L[n], S + 1) + 1
    BY <1>3, OneMoreMissing
  <2>4. QED
    BY <2>2, <2>3
<1>5. G[n] + d <= lost[m]
  BY <1>3, <1>4
<1>6. CASE ModuleOf[w] = m
  <2>1. SentUpTo(m, S + 1)'
    BY <1>1, <1>6, SendSent
  <2>2. lost[m] <= lost'[m] /\ G[n] + e <= lost'[m]
    <3>1. CASE subscribed
      <4>1. lost'[m] = lost[m] + 1
        BY <1>6, <3>1 DEF Lost, Typed
      <4>2. QED
        BY <1>3, <1>4, <1>5, <4>1
    <3>2. CASE ~ subscribed
      <4>1. lost'[m] = lost[m]
        BY <3>2 DEF Lost
      <4>2. L[n] = 0
        BY <1>1, <1>2, <3>2, NothingBefore
      <4>3. e = 0
        BY <1>4, <4>2, OneMoreMissing
      <4>4. QED
        BY <1>3, <4>1, <4>3
    <3>3. QED
      BY <3>1, <3>2
  <2>3. S + 1 \in Nat /\ S <= S + 1
    OBVIOUS
  <2>4. G[Len(wire)] + Missing(L[Len(wire)], S + 1 + 1) <= lost'[m]
    BY <1>2, <1>4, <2>2
  <2>5. QED
    BY <1>1, <2>1, <2>2, <2>3, <2>4, QueueKept
<1>7. CASE ModuleOf[w] # m
  <2>1. /\ lost'[m] = lost[m] /\ lost[m] <= lost'[m]
        /\ \A v \in Writers : ModuleOf[v] = m => sending'[v] = sending[v]
    <3>1. lost'[m] = lost[m]
      BY <1>7 DEF Lost, Typed
    <3>2. \A v \in Writers : ModuleOf[v] = m => sending'[v] = sending[v]
      BY <1>7 DEF Typed
    <3>3. QED
      BY <1>3, <3>1, <3>2
  <2>2. SentUpTo(m, S)'
    BY <1>1, <2>1, OtherSent
  <2>3. G[Len(wire)] + Missing(L[Len(wire)], S + 1) <= lost'[m] /\ S <= S
    BY <1>2, <1>4, <1>5, <2>1
  <2>4. QED
    BY <1>1, <2>1, <2>2, <2>3, QueueKept
<1>8. QED
  BY <1>6, <1>7

\* A message that gets on the bus.
LEMMA AppendedExplained ==
  ASSUME Typed, Typed', NEW m \in Modules \ overtaken', Explained(m),
         NEW w \in Writers, sending[w] # 0,
         sending' = [sending EXCEPT ![w] = 0], Overtakes(w),
         NEW x \in Message, x.src = ModuleOf[w], x.seq = sending[w],
         wire' = Append(wire, x), UNCHANGED <<seq, lives, last, gaps, duplicates, lost>>
  PROVE  Explained(m)'
<1>1. CASE ModuleOf[w] = m
  <2>1. PICK L \in Foresight, G \in Foresight, S \in Nat :
          /\ Foreseen(m, L, G) /\ SentUpTo(m, S)
          /\ Accounted(m, L, G, S) /\ Ascends(m, L, S)
    BY DEF Explained
  <2>2. sending[w] = S + 1 /\ SentUpTo(m, S + 1)'
    BY <1>1, <2>1, SendSent
  <2>3. x.src = m /\ x.seq = S + 1
    BY <1>1, <2>2
  <2>4. QED
    BY <2>1, <2>2, <2>3, OwnAppended
<1>2. CASE ModuleOf[w] # m
  <2>1. /\ \A v \in Writers : ModuleOf[v] = m => sending'[v] = sending[v]
        /\ seq'[m] = seq[m] /\ x.src # m
    BY <1>2 DEF Typed
  <2>2. \A T \in Nat : SentUpTo(m, T) => SentUpTo(m, T)'
    BY <2>1, OtherSent
  <2>3. QED
    BY <2>1, <2>2, OtherAppended
<1>3. QED
  BY <1>1, <1>2

\* A module is launched again.
LEMMA RelaunchExplained ==
  ASSUME Typed, Typed', NEW m \in Modules, Explained(m), NEW k \in Modules, Relaunch(k)
  PROVE  Explained(m)'
<1>1. PICK L \in Foresight, G \in Foresight, S \in Nat :
        /\ Foreseen(m, L, G) /\ SentUpTo(m, S)
        /\ Accounted(m, L, G, S) /\ Ascends(m, L, S)
  BY DEF Explained
<1>2. PICK n \in Nat : n = Len(wire)
  BY LenProperties DEF Typed
<1>3. /\ L[n] \in Nat /\ G[n] \in Nat /\ G[n] <= lost[m] /\ lost[m] \in Nat
      /\ G[n] + Missing(L[n], S + 1) <= lost[m]
  BY <1>1, <1>2, AtEnd
<1>4. /\ lost' = lost /\ lost[m] <= lost'[m]
      /\ UNCHANGED <<wire, last, gaps, duplicates>>
  BY <1>3 DEF Relaunch, noticed
<1>5. CASE k = m
  <2>1. SentUpTo(m, 0)' /\ lives'[m] # 1
    <3>1. lives'[m] = lives[m] + 1
      BY <1>5 DEF Relaunch, Typed
    <3>2. SentUpTo(m, 0)'
      BY <1>5, RelaunchSent
    <3>3. lives[m] \in Nat \ {0}
      BY DEF Typed
    <3>4. QED
      BY <3>1, <3>2, <3>3
  <2>2. Missing(L[n], 0 + 1) = 0
    BY <1>3, OneMoreMissing
  <2>3. G[Len(wire)] + Missing(L[Len(wire)], 0 + 1) <= lost'[m]
    BY <1>2, <1>3, <1>4, <2>2
  <2>4. QED
    BY <1>1, <1>4, <2>1, <2>3, QueueKept
<1>6. CASE k # m
  <2>1. /\ \A v \in Writers : ModuleOf[v] = m => sending'[v] = sending[v]
        /\ seq'[m] = seq[m] /\ lives'[m] = lives[m]
    BY <1>6 DEF Relaunch, Typed
  <2>2. SentUpTo(m, S)'
    BY <1>1, <2>1, OtherSent
  <2>3. G[Len(wire)] + Missing(L[Len(wire)], S + 1) <= lost'[m] /\ S <= S
    BY <1>2, <1>3, <1>4
  <2>4. QED
    BY <1>1, <1>4, <2>1, <2>2, <2>3, QueueKept
<1>7. QED
  BY <1>5, <1>6

\* Numbers that are given, and the subscription, change nothing on the bus.
LEMMA QuietExplained ==
  ASSUME Typed, Typed', NEW m \in Modules, Explained(m),
         \A T \in Nat : SentUpTo(m, T) => SentUpTo(m, T)',
         UNCHANGED <<lives, wire, last, gaps, duplicates, lost>>
  PROVE  Explained(m)'
<1>1. PICK L \in Foresight, G \in Foresight, S \in Nat :
        /\ Foreseen(m, L, G) /\ SentUpTo(m, S)
        /\ Accounted(m, L, G, S) /\ Ascends(m, L, S)
  BY DEF Explained
<1>2. /\ SentUpTo(m, S)' /\ S <= S /\ lost[m] <= lost'[m]
      /\ G[Len(wire)] + Missing(L[Len(wire)], S + 1) <= lost'[m]
  BY <1>1 DEF Accounted, Typed
<1>3. QED
  BY <1>1, <1>2, QueueKept

\* The subscriber takes a message.
LEMMA ReceiveExplained ==
  ASSUME Typed, Typed', NEW m \in Modules, Explained(m), Receive
  PROVE  Explained(m)'
<1>1. PICK L \in Foresight, G \in Foresight, S \in Nat :
        /\ Foreseen(m, L, G) /\ SentUpTo(m, S)
        /\ Accounted(m, L, G, S) /\ Ascends(m, L, S)
  BY DEF Explained
<1>2. /\ wire # <<>> /\ Head(wire) \in Message /\ Head(wire) = wire[1]
      /\ 1 \in 1..Len(wire)
  <2>1. wire # <<>> /\ wire \in Seq(Message)
    BY DEF Receive, Typed
  <2>2. Head(wire) \in Message /\ Len(wire) \in Nat \ {0}
    BY <2>1, HeadTailProperties, LenProperties, EmptySeq
  <2>3. Head(wire) = wire[1]
    BY <2>1
  <2>4. QED
    BY <2>1, <2>2, <2>3
<1>3. PICK k \in Modules, s \in Nat :
        /\ k = Head(wire).src /\ s = Head(wire).seq
        /\ k = wire[1].src /\ s = wire[1].seq
  BY <1>2, MessageFields
<1>4. PICK l \in Nat, d \in Nat, e \in Nat :
        l = last[k] /\ d = Missing(last[k], s) /\ e = Twice(last[k], s)
  <2>1. last[k] \in Nat
    BY DEF Typed
  <2>2. QED
    BY <2>1, MissingType
<1>5. /\ wire' = Tail(wire) /\ last' = [last EXCEPT ![k] = s]
      /\ gaps' = [gaps EXCEPT ![k] = @ + d]
      /\ duplicates' = [duplicates EXCEPT ![k] = @ + e]
      /\ UNCHANGED <<seq, sending, lives, subscribed, lost, overtaken>>
  BY <1>3, <1>4, Received, Zenon
<1>6. IF k = m THEN L[1] = s /\ G[1] = G[0] + Missing(L[0], L[1])
               ELSE L[1] = L[0] /\ G[1] = G[0]
  <2>1. 1 - 1 = 0
    OBVIOUS
  <2>2. QED
    BY <1>1, <1>2, <1>3, <2>1 DEF Foreseen
<1>7. L[0] = last[m] /\ G[0] = gaps[m]
  BY <1>1 DEF Foreseen
<1>8. last'[m] = L[1] /\ gaps'[m] = G[1]
  <2>1. CASE k = m
    <3>1. last'[m] = s /\ gaps'[m] = gaps[m] + d
      BY <1>5, <2>1 DEF Typed
    <3>2. d = Missing(L[0], L[1])
      BY <1>4, <1>6, <1>7, <2>1
    <3>3. QED
      BY <1>6, <1>7, <2>1, <3>1, <3>2
  <2>2. CASE k # m
    BY <1>5, <1>6, <1>7, <2>2 DEF Typed
  <2>3. QED
    BY <2>1, <2>2
<1>9. lives[m] = 1 => duplicates'[m] = 0
  <2> SUFFICES ASSUME lives[m] = 1 PROVE duplicates'[m] = 0
    OBVIOUS
  <2>1. duplicates[m] = 0
    BY <1>1 DEF Ascends
  <2>2. CASE k = m
    <3>1. L[0] < L[1]
      <4>1. 1 - 1 = 0
        OBVIOUS
      <4>2. QED
        BY <1>1, <1>2, <1>3, <2>2, <4>1 DEF Ascends
    <3>2. e = 0
      <4>1. L[1] = s /\ L[0] = l
        BY <1>4, <1>6, <1>7, <2>2
      <4>2. s # l
        BY <3>1, <4>1
      <4>3. QED
        BY <1>4, <4>2 DEF Twice
    <3>3. QED
      BY <1>5, <2>1, <2>2, <3>2 DEF Typed
  <2>3. CASE k # m
    BY <1>5, <2>1, <2>3 DEF Typed
  <2>4. QED
    BY <2>2, <2>3
<1>10. SentUpTo(m, S)'
  BY <1>1, <1>5, OtherSent
<1>11. QED
  BY <1>1, <1>2, <1>5, <1>8, <1>9, <1>10, Taken

-----------------------------------------------------------------------------
(* The invariant is inductive.                                             *)

(* Before the first message nothing has to be accounted for. *)
LEMMA InitNumbered == Typed /\ BusInit => Numbered
<1> SUFFICES ASSUME Typed, BusInit PROVE Numbered
  OBVIOUS
<1>1. wire = <<>> /\ Len(wire) = 0 /\ \A m \in Modules : last[m] = 0
  BY EmptySeq DEF BusInit, Zero
<1>2. ASSUME NEW m \in Modules
      PROVE  Explained(m)
  <2>1. PICK Z \in [0..0 -> Nat] : Z[0] = 0
    <3>1. [i \in 0..0 |-> 0] \in [0..0 -> Nat] /\ [i \in 0..0 |-> 0][0] = 0
      OBVIOUS
    <3>2. QED
      BY <3>1
  <2>2. /\ last[m] = 0 /\ gaps[m] = 0 /\ duplicates[m] = 0 /\ lost[m] = 0 /\ seq[m] = 0
        /\ \A w \in Writers : sending[w] = 0
    BY DEF BusInit, Zero
  <2>3. Foreseen(m, Z, Z) /\ Ascends(m, Z, 0)
    BY <1>1, <2>1, <2>2 DEF Foreseen, Ascends
  <2>4. SentUpTo(m, 0)
    BY <2>2 DEF SentUpTo
  <2>5. Accounted(m, Z, Z, 0)
    <3>1. Missing(0, 0 + 1) = 0
      BY DEF Missing
    <3>2. \A i \in 0..0 : Z[i] = 0
      BY <2>1
    <3>3. QED
      BY <1>1, <2>1, <2>2, <3>1, <3>2 DEF Accounted
  <2>6. Z \in Foresight /\ 0 \in Nat
    BY <1>1, <2>1 DEF Foresight
  <2>7. QED
    BY <2>3, <2>4, <2>5, <2>6 DEF Explained
<1>3. QED
  BY <1>1, <1>2 DEF Numbered

\* Before the subscription nothing gets on the bus, and nobody takes anything.
LEMMA NumberedBefore ==
  ASSUME Typed, Numbered, BusNext, ~ subscribed'
  PROVE  wire' = <<>> /\ \A m \in Modules : last'[m] = 0
<1>1. CASE \E w \in Writers : NextSeq(w) \/ Send(w) \/ EncodeFails(w)
  BY <1>1 DEF Numbered, NextSeq, Send, EncodeFails, noticed
<1>2. CASE \E m \in Modules : Relaunch(m)
  BY <1>2 DEF Numbered, Relaunch, noticed
<1>3. CASE Subscribe
  BY <1>3 DEF Subscribe
<1>4. CASE Receive
  BY <1>4 DEF Numbered, Receive
<1>5. QED
  BY <1>1, <1>2, <1>3, <1>4 DEF BusNext

(* Every step keeps what is said of the numbers sent, on their way and received. *)
LEMMA NumberedInductive ==
  ASSUME BusTypeOK, Typed, Typed', Numbered, BusNext
  PROVE  Numbered'
<1>1. ASSUME NEW m \in Modules \ overtaken'
      PROVE  Explained(m)'
  <2>1. overtaken \subseteq overtaken'
    <3>1. \A w \in Writers : Overtakes(w) => overtaken \subseteq overtaken'
      BY DEF Overtakes
    <3>2. QED
      BY <3>1 DEF BusNext, NextSeq, Send, EncodeFails, Relaunch, Subscribe, Receive
  <2>2. Explained(m) /\ m \in Modules
    BY <1>1, <2>1 DEF Numbered
  <2>3. ASSUME NEW w \in Writers, NextSeq(w)
        PROVE  Explained(m)'
    <3>1. \A T \in Nat : SentUpTo(m, T) => SentUpTo(m, T)'
      BY <2>2, <2>3, NextSeqSent
    <3>2. UNCHANGED <<lives, wire, last, gaps, duplicates, lost>>
      BY <2>3 DEF NextSeq, noticed
    <3>3. QED
      BY <2>2, <3>1, <3>2, QuietExplained
  <2>4. ASSUME NEW w \in Writers, Send(w), subscribed /\ Len(wire) < Hwm
        PROVE  Explained(m)'
    <3>1. PICK x : x = [src |-> ModuleOf[w], seq |-> sending[w]]
      OBVIOUS
    <3>2. x.src = ModuleOf[w] /\ x.seq = sending[w]
      BY <3>1
    <3>3. /\ sending[w] # 0 /\ sending' = [sending EXCEPT ![w] = 0] /\ Overtakes(w)
          /\ wire' = Append(wire, x)
          /\ UNCHANGED <<seq, lives, last, gaps, duplicates, lost>>
      BY <2>4, <3>1 DEF Send, noticed
    <3>4. x \in Message
      <4>1. ModuleOf[w] \in Modules /\ sending[w] \in 0..MaxMessages
        BY BusAssumption DEF BusTypeOK
      <4>2. sending[w] \in 1..MaxMessages
        BY <3>3, <4>1, BusAssumption
      <4>3. QED
        BY <3>1, <4>1, <4>2 DEF Message
    <3>5. QED
      BY <1>1, <2>2, <3>2, <3>3, <3>4, AppendedExplained
  <2>5. ASSUME NEW w \in Writers, \/ EncodeFails(w)
                                  \/ Send(w) /\ ~ (subscribed /\ Len(wire) < Hwm)
        PROVE  Explained(m)'
    <3>1. /\ sending[w] # 0 /\ sending' = [sending EXCEPT ![w] = 0] /\ Overtakes(w)
          /\ Lost(ModuleOf[w])
          /\ UNCHANGED <<seq, lives, wire, subscribed, last, gaps, duplicates>>
      BY <2>5 DEF EncodeFails, Send, noticed
    <3>2. QED
      BY <1>1, <2>2, <3>1, LostExplained
  <2>6. ASSUME NEW k \in Modules, Relaunch(k)
        PROVE  Explained(m)'
    BY <2>2, <2>6, RelaunchExplained
  <2>7. CASE Subscribe
    <3>1. /\ UNCHANGED <<seq, sending>>
          /\ UNCHANGED <<lives, wire, last, gaps, duplicates, lost>>
      BY <2>7 DEF Subscribe, numbers, noticed
    <3>2. \A T \in Nat : SentUpTo(m, T) => SentUpTo(m, T)'
      BY <2>2, <3>1, OtherSent
    <3>3. QED
      BY <2>2, <3>1, <3>2, QuietExplained
  <2>8. CASE Receive
    BY <2>2, <2>8, ReceiveExplained
  <2>9. QED
    BY <2>3, <2>4, <2>5, <2>6, <2>7, <2>8 DEF BusNext
<1>2. QED
  BY <1>1, NumberedBefore DEF Numbered

-----------------------------------------------------------------------------
\* No message is called missing that was not lost, and none a duplicate as long as
\* the module is not launched again, unless a thread was overtaken by another of
\* its module: whatever the number of modules, threads, messages and launches.
THEOREM AlarmsAreTrueCorrect == Spec => []AlarmsAreTrue
<1> DEFINE Inv == BusTypeOK /\ Numbered
<1>1. Init => Inv
  BY InitBusType, TypedWeakly, InitNumbered DEF Init
<1>2. Inv /\ [Next]_vars => Inv'
  <2> SUFFICES ASSUME BusTypeOK, Numbered, [Next]_vars PROVE Inv'
    OBVIOUS
  <2>1. CASE BusNext
    <3>1. BusTypeOK'
      BY <2>1, BusType
    <3>2. Typed /\ Typed'
      BY <3>1, TypedWeakly, PTL
    <3>3. QED
      BY <2>1, <3>1, <3>2, NumberedInductive
  <2>2. CASE UNCHANGED traffic
    <3>1. BusTypeOK'
      BY <2>2 DEF traffic, numbers, noticed, BusTypeOK
    <3>2. /\ UNCHANGED <<seq, sending, subscribed, overtaken>>
          /\ UNCHANGED <<lives, wire, last, gaps, duplicates, lost>>
      BY <2>2 DEF traffic, numbers, noticed
    <3>3. ASSUME NEW m \in Modules \ overtaken, Explained(m)
          PROVE  Explained(m)'
      <4>1. \A T \in Nat : SentUpTo(m, T) => SentUpTo(m, T)'
        BY <3>2, OtherSent
      <4>2. Typed /\ Typed'
        BY <3>1, TypedWeakly, PTL
      <4>3. QED
        BY <3>2, <3>3, <4>1, <4>2, QuietExplained
    <3>4. Numbered'
      BY <3>2, <3>3 DEF Numbered
    <3>5. QED
      BY <3>1, <3>4
  <2>3. QED
    BY <2>1, <2>2 DEF Next, vars
<1>3. Inv => AlarmsAreTrue
  <2> SUFFICES ASSUME BusTypeOK, Numbered, NEW m \in Modules \ overtaken
               PROVE  gaps[m] <= lost[m] /\ (duplicates[m] > 0 => lives[m] > 1)
    BY DEF AlarmsAreTrue
  <2>1. Typed
    BY TypedWeakly
  <2>2. PICK L \in Foresight, G \in Foresight, S \in Nat :
          Foreseen(m, L, G) /\ Accounted(m, L, G, S) /\ Ascends(m, L, S)
    BY DEF Numbered, Explained
  <2>3. G[0] = gaps[m] /\ G[0] <= lost[m]
    <3>1. 0 \in 0..Len(wire)
      BY <2>1, LenProperties DEF Typed
    <3>2. QED
      BY <2>2, <3>1 DEF Foreseen, Accounted
  <2>4. lives[m] \in Nat \ {0} /\ duplicates[m] \in Nat
    BY <2>1 DEF Typed
  <2>5. lives[m] = 1 => duplicates[m] = 0
    BY <2>2 DEF Ascends
  <2>6. QED
    BY <2>3, <2>4, <2>5
<1>4. QED
  BY <1>1, <1>2, <1>3, PTL DEF Spec

-----------------------------------------------------------------------------
(* The trace.                                                              *)

\* What is sent to the collector: not what it counts of its own.
Sent == Emitted \cup {"trace_local_drop"}

TraceInv == TraceTypeOK /\ pipe \in Seq(Sent) /\ TraceAddsUp

\* What is typed of the trace, as the proofs use it.
TraceTypes ==
  /\ queue \in Seq(Emitted) /\ Len(queue) \in Nat /\ Len(queue) <= QueueMax
  /\ inHand \in Seq(Emitted) /\ Len(inHand) \in Nat /\ Len(inHand) <= 1
  /\ pipe \in Seq(Sent) /\ pipe \in Seq(Kinds)
  /\ Len(pipe) \in Nat /\ Len(pipe) <= TraceHwm
  /\ dropped \in Nat /\ dropsTold \in Nat /\ window \in Nat /\ lastPub \in Nat
  /\ windows \in Nat /\ published \in Nat /\ discarded \in Nat /\ skipped \in Nat
  /\ emitted \in 0..MaxEvents /\ told \in 0..MaxTells
  /\ emitted \in Nat /\ told \in Nat
  /\ total \in [Kinds -> Nat] /\ total["publish_ok"] \in Nat
  /\ total["recv_ok"] \in Nat /\ total["blacklisted"] \in Nat
  /\ total["trace_local_drop"] \in Nat /\ total["jsonl_write_error"] \in Nat

(* The invariant of the trace contains the types of its counters. *)
LEMMA TraceTyped == TraceInv => TraceTypes
<1> SUFFICES ASSUME TraceInv PROVE TraceTypes
  OBVIOUS
<1>1. /\ dropped \in Nat /\ dropsTold \in Nat /\ window \in Nat /\ lastPub \in Nat
      /\ windows \in Nat /\ published \in Nat /\ discarded \in Nat /\ skipped \in Nat
      /\ total \in [Kinds -> Nat]
      /\ emitted \in 0..MaxEvents /\ told \in 0..MaxTells
  BY DEF TraceInv, TraceTypeOK
<1>2. /\ queue \in Seq(Emitted) /\ Len(queue) <= QueueMax
      /\ inHand \in Seq(Emitted) /\ Len(inHand) <= 1
      /\ pipe \in Seq(Sent) /\ pipe \in Seq(Kinds) /\ Len(pipe) <= TraceHwm
  BY DEF TraceInv, TraceTypeOK
<1>3. Len(queue) \in Nat /\ Len(inHand) \in Nat /\ Len(pipe) \in Nat
  BY <1>2, LenProperties
<1>4. emitted \in Nat /\ told \in Nat
  BY <1>1, TraceAssumption
<1>5. /\ total["publish_ok"] \in Nat /\ total["recv_ok"] \in Nat
      /\ total["blacklisted"] \in Nat /\ total["trace_local_drop"] \in Nat
      /\ total["jsonl_write_error"] \in Nat
  BY <1>1 DEF Kinds, Emitted
<1>6. QED
  BY <1>1, <1>2, <1>3, <1>4, <1>5 DEF TraceTypes

\* The sum, with a name for the events that the collector has counted.
Collected == total["publish_ok"] + total["recv_ok"] + total["blacklisted"] +
             total["trace_local_drop"] + total["jsonl_write_error"]

(* An event that leaves a sum for the pipe, or is lost at it: the sum that it has
   left is one less, or a told loss has been counted, too. *)
LEMMA OnePushed ==
  ASSUME NEW sum \in Nat, NEW rest \in Nat, NEW x \in Nat, NEW d \in Nat,
         NEW y \in Nat, NEW g \in Nat, y + g = x + d + 1
  PROVE  /\ sum = rest + 1 + x + d => sum = rest + y + g
         /\ sum = rest + x + d => sum + 1 = rest + y + g
OBVIOUS

(* What has been collected is a number. *)
LEMMA CollectedNumber == TraceTypes => Collected \in Nat
<1>1. ASSUME NEW a \in Nat, NEW b \in Nat, NEW c \in Nat, NEW d \in Nat, NEW e \in Nat
      PROVE  a + b + c + d + e \in Nat
  OBVIOUS
<1>2. QED
  BY <1>1 DEF Collected, TraceTypes

(* TraceAddsUp, with the sum over the kinds of losses written out. *)
LEMMA TraceSum ==
  TraceAddsUp <=>
    /\ emitted + told + total["jsonl_write_error"] =
         Len(queue) + Len(inHand) + Len(pipe) + Collected + skipped + dropped + discarded
    /\ windows + window = Collected
    /\ published = lastPub
BY DEF TraceAddsUp, Collected

(* A trace that has not begun has counted nothing. *)
LEMMA InitTraceInv == TraceInit => TraceInv
<1> SUFFICES ASSUME TraceInit PROVE TraceInv
  OBVIOUS
<1>1. /\ queue \in Seq(Emitted) /\ inHand \in Seq(Emitted)
      /\ pipe \in Seq(Kinds) /\ pipe \in Seq(Sent)
      /\ Len(queue) = 0 /\ Len(inHand) = 0 /\ Len(pipe) = 0
  BY EmptySeq DEF TraceInit
<1>2. total \in [Kinds -> Nat] /\ \A k \in Kinds : total[k] = 0
  BY DEF TraceInit
<1>3. TraceAddsUp
  BY <1>1, <1>2 DEF TraceInit, TraceAddsUp, Kinds, Emitted
<1>4. TraceTypeOK
  BY <1>1, <1>2, TraceAssumption DEF TraceInit, TraceTypeOK
<1>5. QED
  BY <1>1, <1>3, <1>4 DEF TraceInv

\* An event that is sent off is on its way or counted as dropped.
LEMMA SentOff ==
  ASSUME TraceInv, NEW k \in Sent, SendNow(k)
  PROVE  /\ pipe' \in Seq(Sent) /\ pipe' \in Seq(Kinds)
         /\ Len(pipe') \in Nat /\ Len(pipe') <= TraceHwm /\ dropped' \in Nat
         /\ Len(pipe') + dropped' = Len(pipe) + dropped + 1
<1>0. TraceTypes
  BY TraceTyped
<1> USE <1>0 DEF TraceTypes
<1>1. k \in Kinds
  BY DEF Sent, Kinds
<1>2. CASE push = "open" /\ Len(pipe) < TraceHwm
  <2>1. pipe' = Append(pipe, k) /\ dropped' = dropped
    BY <1>2 DEF SendNow
  <2>2. /\ pipe' \in Seq(Sent) /\ pipe' \in Seq(Kinds) /\ Len(pipe') = Len(pipe) + 1
    BY <1>1, <2>1, AppendProperties
  <2>3. Len(pipe) + 1 <= TraceHwm
    BY <1>2, TraceAssumption
  <2>4. QED
    BY <2>1, <2>2, <2>3
<1>3. CASE ~ (push = "open" /\ Len(pipe) < TraceHwm)
  <2>1. pipe' = pipe /\ dropped' = dropped + 1
    BY <1>3, Zenon DEF SendNow
  <2>2. QED
    BY <2>1
<1>4. QED
  BY <1>2, <1>3

\* An event that is counted is one more of its kind.
LEMMA Counted ==
  ASSUME TraceInv, NEW n \in Nat, NEW ks \in SUBSET Kinds, Add(n, ks)
  PROVE  /\ window' = window + n /\ total' \in [Kinds -> Nat]
         /\ \A k \in Kinds : total'[k] = IF k \in ks THEN total[k] + 1 ELSE total[k]
<1>1. total \in [Kinds -> Nat] /\ window \in Nat
  BY TraceTyped DEF TraceTypes
<1>2. \A k \in Kinds : total'[k] = IF k \in ks THEN total[k] + 1 ELSE total[k]
  BY <1>1 DEF Add
<1>3. \A k \in Kinds : total[k] + (IF k \in ks THEN 1 ELSE 0) \in Nat
  BY <1>1
<1>4. total' \in [Kinds -> Nat]
  BY <1>3 DEF Add
<1>5. QED
  BY <1>2, <1>4, Zenon DEF Add

\* What the module of a client does.
LEMMA TracerStep ==
  ASSUME TraceInv,
         \/ \E k \in Emitted : Emit(k)
         \/ Take \/ SendTaken \/ TellDrops \/ CloseTracer \/ ClosePush
  PROVE  TraceInv'
<1>0. TraceTypes
  BY TraceTyped
<1> USE DEF reports, metrics
<1>a. PICK c \in Nat, e \in Nat : c = Collected /\ e = total["jsonl_write_error"]
  BY <1>0, CollectedNumber DEF TraceTypes
<1>n. /\ emitted \in Nat /\ told \in Nat /\ dropped \in Nat /\ discarded \in Nat
      /\ skipped \in Nat /\ Len(queue) \in Nat /\ Len(inHand) \in Nat /\ Len(pipe) \in Nat
  BY <1>0 DEF TraceTypes
<1>b. /\ emitted + told + e =
           Len(queue) + Len(inHand) + Len(pipe) + c + skipped + dropped + discarded
      /\ windows + window = c
      /\ published = lastPub
  BY <1>a, TraceSum DEF TraceInv
<1>c. ASSUME UNCHANGED <<total, windows, window, published, lastPub, skipped>>,
             emitted' + told' + e = Len(queue') + Len(inHand') + Len(pipe') + c +
                                    skipped + dropped' + discarded'
      PROVE  TraceAddsUp'
  <2>1. Collected' = c /\ total'["jsonl_write_error"] = e
    BY <1>0, <1>a, <1>c DEF Collected, TraceTypes
  <2>2. /\ emitted' + told' + total'["jsonl_write_error"] =
             Len(queue') + Len(inHand') + Len(pipe') + Collected' + skipped' + dropped' +
             discarded'
        /\ windows' + window' = Collected'
        /\ published' = lastPub'
    BY <1>0, <1>b, <1>c, <2>1 DEF TraceTypes
  <2>3. QED
    BY <1>0, <2>2, Zenon DEF TraceAddsUp, Collected, TraceTypes
<1>1. ASSUME NEW k \in Emitted, Emit(k)
      PROVE  TraceInv'
  <2>1. /\ queue' \in Seq(Emitted) /\ Len(queue') <= QueueMax /\ Len(queue') \in Nat
        /\ dropped' \in Nat
        /\ Len(queue') + dropped' = Len(queue) + dropped + 1
    <3>1. CASE Len(queue) < QueueMax
      <4>1. queue' = Append(queue, k) /\ dropped' = dropped
        BY <1>1, <3>1 DEF Emit
      <4>2. queue' \in Seq(Emitted) /\ Len(queue') = Len(queue) + 1
        BY <1>0, <4>1, AppendProperties DEF TraceTypes
      <4>3. Len(queue) + 1 <= QueueMax
        BY <1>0, <3>1, TraceAssumption DEF TraceTypes
      <4>4. QED
        BY <1>0, <4>1, <4>2, <4>3 DEF TraceTypes
    <3>2. CASE ~ (Len(queue) < QueueMax)
      BY <1>0, <1>1, <3>2 DEF Emit, TraceTypes
    <3>3. QED
      BY <1>0, <3>1, <3>2 DEF TraceTypes
  <2>2. /\ emitted' = emitted + 1 /\ emitted' \in 0..MaxEvents
        /\ UNCHANGED <<dropsTold, tracing, inHand, push, told, pipe, collector, enabled,
                       window, total, reporter, lastPub, windows, published, discarded,
                       skipped>>
    BY <1>0, <1>1, TraceAssumption DEF Emit, TraceTypes
  <2>3. TraceTypeOK'
    BY <1>0, <2>1, <2>2 DEF TraceInv, TraceTypeOK, TraceTypes
  <2>4. TraceAddsUp'
    <3>1. emitted' + told' + e = Len(queue') + Len(inHand') + Len(pipe') + c +
                                 skipped + dropped' + discarded'
      <4>1. Len(inHand') = Len(inHand) /\ Len(pipe') = Len(pipe) /\ told' = told
        BY <2>2
      <4>2. QED
        <5>1. PICK q \in Nat, d \in Nat : q = Len(queue') /\ d = dropped'
          BY <2>1
        <5>2. /\ q + d = Len(queue) + dropped + 1
              /\ emitted' = emitted + 1 /\ discarded' = discarded
          BY <2>1, <2>2, <5>1
        <5>3. emitted + 1 + told + e =
                q + Len(inHand) + Len(pipe) + c + skipped + d + discarded
          BY <1>n, <1>b, <5>2
        <5>4. QED
          BY <4>1, <5>1, <5>2, <5>3
    <3>2. QED
      BY <1>c, <2>1, <2>2, <3>1
  <2>5. QED
    BY <2>2, <2>3, <2>4 DEF TraceInv
<1>2. CASE Take
  <2>1. queue # <<>> /\ inHand = <<>> /\ inHand' = <<Head(queue)>> /\ queue' = Tail(queue)
    BY <1>2 DEF Take
  <2>2. /\ queue' \in Seq(Emitted) /\ Len(queue') = Len(queue) - 1 /\ Len(queue') \in Nat
        /\ Head(queue) \in Emitted
    BY <1>0, <2>1, HeadTailProperties, LenProperties DEF TraceTypes
  <2>3. inHand' \in Seq(Emitted) /\ Len(inHand') = 1 /\ Len(inHand) = 0
    BY <1>0, <2>1, <2>2 DEF TraceTypes
  <2>4. UNCHANGED <<dropped, dropsTold, tracing, push, emitted, told, pipe, collector,
                    enabled, window, total, reporter, lastPub, windows, published,
                    discarded, skipped>>
    BY <1>2 DEF Take
  <2>5. TraceTypeOK'
    BY <1>0, <2>2, <2>3, <2>4, TraceAssumption DEF TraceInv, TraceTypeOK, TraceTypes
  <2>6. TraceAddsUp'
    <3>1. emitted' + told' + e = Len(queue') + Len(inHand') + Len(pipe') + c +
                                 skipped + dropped' + discarded'
      BY <1>n, <1>b, <2>2, <2>3, <2>4
    <3>2. QED
      BY <1>c, <2>2, <2>3, <2>4, <3>1
  <2>7. QED
    BY <2>4, <2>5, <2>6 DEF TraceInv
<1>3. CASE SendTaken
  <2>1. inHand # <<>> /\ inHand' = <<>> /\ SendNow(inHand[1])
    BY <1>3 DEF SendTaken
  <2>2. Len(inHand) = 1 /\ inHand[1] \in Emitted
    <3>1. inHand \in Seq(Emitted) /\ Len(inHand) \in Nat /\ Len(inHand) <= 1
      BY <1>0 DEF TraceTypes
    <3>2. Len(inHand) # 0
      <4>1. Len(Tail(inHand)) = Len(inHand) - 1 /\ Tail(inHand) \in Seq(Emitted)
        BY <2>1, <3>1, HeadTailProperties
      <4>2. QED
        BY <4>1, <3>1, LenProperties
    <3>3. Len(inHand) = 1 /\ 1 \in 1..Len(inHand)
      <4>1. PICK l \in Nat : l = Len(inHand)
        BY <3>1
      <4>2. l = 1
        BY <3>1, <3>2, <4>1
      <4>3. QED
        BY <4>1, <4>2
    <3>4. QED
      BY <3>1, <3>3, ElementOfSeq
  <2>3. inHand' \in Seq(Emitted) /\ Len(inHand') = 0
    BY <1>0, <2>1, EmptySeq DEF TraceTypes
  <2>4. inHand[1] \in Sent
    BY <1>0, <2>2 DEF Sent, TraceTypes
  <2>5. /\ pipe' \in Seq(Sent) /\ pipe' \in Seq(Kinds)
        /\ Len(pipe') \in Nat /\ Len(pipe') <= TraceHwm /\ dropped' \in Nat
        /\ Len(pipe') + dropped' = Len(pipe) + dropped + 1
    BY <1>0, <2>1, <2>4, SentOff DEF TraceTypes
  <2>6. UNCHANGED <<queue, dropsTold, tracing, push, emitted, told, collector, enabled,
                    window, total, reporter, lastPub, windows, published, discarded,
                    skipped>>
    BY <1>3 DEF SendTaken
  <2>7. TraceTypeOK'
    BY <1>0, <2>3, <2>5, <2>6 DEF TraceInv, TraceTypeOK, TraceTypes
  <2>8. TraceAddsUp'
    <3>1. PICK sum \in Nat, rest \in Nat, x \in Nat, d \in Nat, y \in Nat, g \in Nat :
            /\ sum = emitted + told + e /\ rest = Len(queue) + c + skipped + discarded
            /\ x = Len(pipe) /\ d = dropped /\ y = Len(pipe') /\ g = dropped'
      <4>1. emitted + told + e \in Nat
        BY <1>n
      <4>2. Len(queue) + c + skipped + discarded \in Nat
        BY <1>n
      <4>3. QED
        BY <1>n, <2>5, <4>1, <4>2, Zenon
    <3>2. sum = rest + 1 + x + d /\ y + g = x + d + 1
      BY <1>n, <1>b, <2>2, <2>5, <3>1
    <3>3. sum = rest + y + g
      BY <3>2, OnePushed
    <3>4. /\ emitted' + told' + e = sum
          /\ Len(queue') + Len(inHand') + Len(pipe') + c + skipped + dropped' + discarded'
               = rest + y + g
      BY <1>n, <2>3, <2>6, <3>1
    <3>5. QED
      BY <1>c, <2>6, <3>3, <3>4
  <2>9. QED
    BY <2>5, <2>7, <2>8 DEF TraceInv
<1>4. CASE TellDrops
  <2>1. SendNow("trace_local_drop") /\ "trace_local_drop" \in Sent
    BY <1>0, <1>4 DEF TellDrops, Sent, TraceTypes
  <2>2. /\ pipe' \in Seq(Sent) /\ pipe' \in Seq(Kinds)
        /\ Len(pipe') \in Nat /\ Len(pipe') <= TraceHwm /\ dropped' \in Nat
        /\ Len(pipe') + dropped' = Len(pipe) + dropped + 1
    BY <1>0, <2>1, SentOff DEF TraceTypes
  <2>3. /\ dropsTold' = dropped /\ told' = told + 1 /\ told' \in 0..MaxTells
        /\ UNCHANGED <<queue, tracing, inHand, push, emitted, collector, enabled, window,
                       total, reporter, lastPub, windows, published, discarded, skipped>>
    BY <1>0, <1>4, TraceAssumption DEF TellDrops, TraceTypes
  <2>4. TraceTypeOK'
    BY <1>0, <2>2, <2>3 DEF TraceInv, TraceTypeOK, TraceTypes
  <2>5. TraceAddsUp'
    <3>1. PICK sum \in Nat, rest \in Nat, x \in Nat, d \in Nat, y \in Nat, g \in Nat :
            /\ sum = emitted + told + e
            /\ rest = Len(queue) + Len(inHand) + c + skipped + discarded
            /\ x = Len(pipe) /\ d = dropped /\ y = Len(pipe') /\ g = dropped'
      <4>1. emitted + told + e \in Nat
        BY <1>n
      <4>2. Len(queue) + Len(inHand) + c + skipped + discarded \in Nat
        BY <1>n
      <4>3. QED
        BY <1>n, <2>2, <4>1, <4>2, Zenon
    <3>2. sum = rest + x + d /\ y + g = x + d + 1
      BY <1>n, <1>b, <2>2, <3>1
    <3>3. sum + 1 = rest + y + g
      BY <3>2, OnePushed
    <3>4. /\ emitted' + told' + e = sum + 1
          /\ Len(queue') + Len(inHand') + Len(pipe') + c + skipped + dropped' + discarded'
               = rest + y + g
      BY <1>n, <2>3, <3>1
    <3>5. QED
      BY <1>c, <2>3, <3>3, <3>4
  <2>6. QED
    BY <2>2, <2>4, <2>5 DEF TraceInv
<1>5. CASE CloseTracer
  <2>1. /\ tracing' = FALSE
        /\ UNCHANGED <<queue, dropped, dropsTold, inHand, push, emitted, told, pipe,
                       collector, enabled, window, total, reporter, lastPub, windows,
                       published, discarded, skipped>>
    BY <1>5 DEF CloseTracer
  <2>2. TraceTypeOK'
    BY <1>0, <2>1 DEF TraceInv, TraceTypeOK, TraceTypes
  <2>3. TraceAddsUp'
    <3>1. emitted' + told' + e = Len(queue') + Len(inHand') + Len(pipe') + c +
                                 skipped + dropped' + discarded'
      BY <1>n, <1>b, <2>1
    <3>2. QED
      BY <1>c, <2>1, <3>1
  <2>4. QED
    BY <2>1, <2>2, <2>3 DEF TraceInv
<1>6. CASE ClosePush
  <2>1. PICK n \in 0 .. Len(pipe) :
          pipe' = SubSeq(pipe, 1, n) /\ discarded' = discarded + Len(pipe) - n
    BY <1>6 DEF ClosePush
  <2>2. /\ pipe' \in Seq(Sent) /\ pipe' \in Seq(Kinds) /\ Len(pipe') = n
    <3>1. \A i \in 1..n : i \in 1..Len(pipe)
      BY <1>0 DEF TraceTypes
    <3>2. \A i \in 1..n : pipe[i] \in Sent /\ pipe[i] \in Kinds
      <4>1. Len(pipe) \in Nat /\ pipe \in Seq(Sent) /\ pipe \in Seq(Kinds)
        BY <1>0 DEF TraceTypes
      <4>2. QED
        BY <1>0, <3>1, <4>1, ElementOfSeq DEF TraceTypes
    <3>3. 1 \in Int /\ n \in Int /\ (IF 1 <= n THEN n - 1 + 1 ELSE 0) = n
      BY <1>n
    <3>4. /\ pipe' \in Seq(Sent) /\ pipe' \in Seq(Kinds)
          /\ Len(pipe') = IF 1 <= n THEN n - 1 + 1 ELSE 0
      BY <2>1, <3>2, <3>3, SubSeqProperties
    <3>5. QED
      BY <3>3, <3>4
  <2>3. /\ Len(pipe') + discarded' = Len(pipe) + discarded /\ Len(pipe') <= TraceHwm
        /\ discarded' \in Nat /\ Len(pipe') \in Nat
    <3>1. n \in Nat /\ n <= Len(pipe) /\ Len(pipe) <= TraceHwm /\ TraceHwm \in Nat
      BY <1>0, <1>n, TraceAssumption DEF TraceTypes
    <3>2. QED
      BY <1>n, <2>1, <2>2, <3>1
  <2>4. /\ push' = "closed"
        /\ UNCHANGED <<queue, dropped, dropsTold, tracing, inHand, emitted, told,
                       collector, enabled, window, total, reporter, lastPub, windows,
                       published, skipped>>
    BY <1>6 DEF ClosePush
  <2>5. TraceTypeOK'
    BY <1>0, <2>2, <2>3, <2>4 DEF TraceInv, TraceTypeOK, TraceTypes
  <2>6. TraceAddsUp'
    <3>1. emitted' + told' + e = Len(queue') + Len(inHand') + Len(pipe') + c +
                                 skipped + dropped' + discarded'
      BY <1>n, <1>b, <2>3, <2>4
    <3>2. QED
      BY <1>c, <2>3, <2>4, <3>1
  <2>7. QED
    BY <2>2, <2>5, <2>6 DEF TraceInv
<1>7. QED
  BY <1>1, <1>2, <1>3, <1>4, <1>5, <1>6

\* One event more of one kind, and the failure to write it down, are two more.
LEMMA CollectedMore ==
  ASSUME TraceInv, NEW h \in Sent, NEW n \in {1, 2},
         Add(n, IF n = 1 THEN {h} ELSE {h, "jsonl_write_error"})
  PROVE  /\ window' = window + n /\ total' \in [Kinds -> Nat]
         /\ Collected' = Collected + n
         /\ total'["jsonl_write_error"] = total["jsonl_write_error"] + n - 1
<1>1. PICK ks \in SUBSET Kinds : ks = IF n = 1 THEN {h} ELSE {h, "jsonl_write_error"}
  BY DEF Sent, Kinds
<1>2. /\ window' = window + n /\ total' \in [Kinds -> Nat]
      /\ \A k \in Kinds : total'[k] = IF k \in ks THEN total[k] + 1 ELSE total[k]
  <2>1. Add(n, ks) /\ n \in Nat
    BY <1>1
  <2>2. QED
    BY <2>1, Counted
<1>3. PICK a \in Nat, b \in Nat, c \in Nat, d \in Nat, e \in Nat :
        /\ a = total["publish_ok"] /\ b = total["recv_ok"] /\ c = total["blacklisted"]
        /\ d = total["trace_local_drop"] /\ e = total["jsonl_write_error"]
  BY TraceTyped DEF TraceTypes
<1>4. /\ total'["publish_ok"] = IF "publish_ok" \in ks THEN a + 1 ELSE a
      /\ total'["recv_ok"] = IF "recv_ok" \in ks THEN b + 1 ELSE b
      /\ total'["blacklisted"] = IF "blacklisted" \in ks THEN c + 1 ELSE c
      /\ total'["trace_local_drop"] = IF "trace_local_drop" \in ks THEN d + 1 ELSE d
      /\ total'["jsonl_write_error"] = IF "jsonl_write_error" \in ks THEN e + 1 ELSE e
  BY <1>2, <1>3 DEF Kinds, Emitted
<1>5. total'["jsonl_write_error"] = e + n - 1
  <2>1. CASE n = 1
    <3>1. "jsonl_write_error" \notin ks
      BY <1>1, <2>1 DEF Sent, Emitted
    <3>2. QED
      BY <1>4, <2>1, <3>1
  <2>2. CASE n = 2
    BY <1>1, <1>4, <2>2
  <2>3. QED
    BY <2>1, <2>2
<1>6. /\ total'["publish_ok"] + total'["recv_ok"] + total'["blacklisted"] +
           total'["trace_local_drop"] = a + b + c + d + 1
  <2>1. CASE h = "publish_ok"
    BY <1>1, <1>4, <2>1
  <2>2. CASE h = "recv_ok"
    BY <1>1, <1>4, <2>2
  <2>3. CASE h = "blacklisted"
    BY <1>1, <1>4, <2>3
  <2>4. CASE h = "trace_local_drop"
    BY <1>1, <1>4, <2>4
  <2>5. QED
    BY <2>1, <2>2, <2>3, <2>4 DEF Sent, Emitted
<1>7. Collected' = a + b + c + d + 1 + (e + n - 1)
  BY <1>5, <1>6 DEF Collected
<1>8. Collected = a + b + c + d + e
  BY <1>3 DEF Collected
<1>9. Collected' = Collected + n
  BY <1>7, <1>8
<1>10. QED
  BY <1>2, <1>3, <1>5, <1>9

\* What zmq_trace does.
LEMMA CollectorStep ==
  ASSUME TraceInv,
         \/ \E b \in BOOLEAN : ConfigLoaded(b) \/ Collect(b)
         \/ ConfigChanged \/ StopTrace \/ Report \/ LateEvents
  PROVE  TraceInv'
<1>0. TraceTypes
  BY TraceTyped
<1> USE DEF tracer, reports, metrics
<1>1. PICK c \in Nat, e \in Nat : c = Collected /\ e = total["jsonl_write_error"]
  BY <1>0, CollectedNumber DEF TraceTypes
<1>2. /\ emitted \in Nat /\ told \in Nat /\ dropped \in Nat /\ discarded \in Nat
      /\ skipped \in Nat /\ Len(queue) \in Nat /\ Len(inHand) \in Nat /\ Len(pipe) \in Nat
      /\ windows \in Nat /\ window \in Nat
  BY <1>0 DEF TraceTypes
<1>3. /\ emitted + told + e =
           Len(queue) + Len(inHand) + Len(pipe) + c + skipped + dropped + discarded
      /\ windows + window = c
      /\ published = lastPub
  BY <1>1, TraceSum DEF TraceInv
<1>4. UNCHANGED total => Collected' = c /\ total'["jsonl_write_error"] = e
  BY <1>1 DEF Collected
<1>5. ASSUME NEW n \in 0..2, Collected' = c + n,
             UNCHANGED <<emitted, told, queue, inHand, dropped>>,
             emitted + told + total'["jsonl_write_error"] =
               Len(queue) + Len(inHand) + Len(pipe') + c + n + skipped' + dropped + discarded',
             windows' + window' = c + n, published' = lastPub'
      PROVE  TraceAddsUp'
  <2>1. Len(queue') = Len(queue) /\ Len(inHand') = Len(inHand)
    BY <1>5
  <2>2. /\ emitted' + told' + total'["jsonl_write_error"] =
             Len(queue') + Len(inHand') + Len(pipe') + Collected' + skipped' + dropped' +
             discarded'
        /\ windows' + window' = Collected'
        /\ published' = lastPub'
    <3>1. emitted + told + total'["jsonl_write_error"] =
             Len(queue') + Len(inHand') + Len(pipe') + Collected' + skipped' + dropped +
             discarded'
      BY <1>2, <1>5, <2>1
    <3>2. QED
      BY <1>5, <3>1
  <2>3. QED
    BY <2>2, Zenon DEF TraceAddsUp, Collected
<1>6. ASSUME UNCHANGED <<emitted, told, queue, inHand, dropped, total, window, lastPub,
                         windows, published>>,
             Len(pipe') + skipped' + discarded' = Len(pipe) + skipped + discarded,
             Len(pipe') \in Nat, skipped' \in Nat, discarded' \in Nat
      PROVE  TraceAddsUp'
  <2>1. PICK p \in Nat, s \in Nat, d \in Nat :
          p = Len(pipe') /\ s = skipped' /\ d = discarded'
    BY <1>6
  <2>2. p + s + d = Len(pipe) + skipped + discarded
    BY <1>6, <2>1
  <2>3. emitted + told + e =
               Len(queue) + Len(inHand) + p + c + 0 + s + dropped + d
    BY <1>2, <1>3, <2>2
  <2>4. windows' + window' = c + 0 /\ published' = lastPub' /\ Collected' = c + 0
    BY <1>3, <1>4, <1>6
  <2>5. QED
    BY <1>4, <1>5, <1>6, <2>1, <2>3, <2>4
<1>7. ASSUME NEW b \in BOOLEAN, ConfigLoaded(b)
      PROVE  TraceInv'
  <2>1. /\ collector' = "up" /\ reporter' = "up" /\ enabled' \in BOOLEAN
        /\ UNCHANGED <<tracer, pipe, metrics, reports, discarded, skipped>>
    BY <1>7 DEF ConfigLoaded
  <2>2. TraceTypeOK'
    BY <2>1 DEF TraceInv, TraceTypeOK
  <2>3. TraceAddsUp'
    BY <1>2, <1>6, <2>1
  <2>4. QED
    BY <2>1, <2>2, <2>3 DEF TraceInv
<1>8. CASE ConfigChanged
  <2>1. /\ enabled' = ~ enabled
        /\ UNCHANGED <<tracer, pipe, collector, metrics, reporter, reports, discarded,
                       skipped>>
    BY <1>8 DEF ConfigChanged
  <2>2. TraceTypeOK'
    BY <2>1 DEF TraceInv, TraceTypeOK
  <2>3. TraceAddsUp'
    BY <1>2, <1>6, <2>1
  <2>4. QED
    BY <2>1, <2>2, <2>3 DEF TraceInv
<1>9. ASSUME collector' = "stopped", reporter' \in {"down", "up", "last", "ended"},
             pipe' = <<>>, discarded' = discarded + Len(pipe),
             UNCHANGED <<tracer, enabled, metrics, reports, skipped>>
      PROVE  TraceInv'
  <2>1. pipe' \in Seq(Kinds) /\ pipe' \in Seq(Sent) /\ Len(pipe') = 0
    BY <1>9, EmptySeq
  <2>2. discarded' \in Nat /\ Len(pipe') + skipped' + discarded' =
                                Len(pipe) + skipped + discarded
    BY <1>2, <1>9, <2>1
  <2>3. TraceTypeOK'
    BY <1>9, <2>1, <2>2, TraceAssumption DEF TraceInv, TraceTypeOK
  <2>4. TraceAddsUp'
    BY <1>2, <1>6, <1>9, <2>1, <2>2
  <2>5. QED
    BY <2>1, <2>3, <2>4 DEF TraceInv
<1>10. CASE StopTrace
  BY <1>9, <1>10 DEF StopTrace
<1>11. CASE LateEvents
  <2>1. reporter \in {"down", "up", "last", "ended"}
    BY DEF TraceInv, TraceTypeOK
  <2>2. QED
    BY <1>9, <1>11, <2>1 DEF LateEvents
<1>12. CASE Report
  <2>1. /\ windows' = windows + window /\ window' = 0
        /\ published' = published + total["publish_ok"] - lastPub
        /\ lastPub' = total["publish_ok"]
        /\ reporter' \in {"down", "up", "last", "ended"}
        /\ UNCHANGED <<tracer, pipe, collector, enabled, total, discarded, skipped>>
    BY <1>12 DEF Report, SnapshotAndReset
  <2>2. /\ windows' \in Nat /\ windows' + window' = c + 0
        /\ published' = lastPub' /\ lastPub' \in Nat
    BY <1>0, <1>2, <1>3, <2>1 DEF TraceTypes
  <2>3. TraceTypeOK'
    <3>1. TraceTypeOK
      BY DEF TraceInv
    <3>2. windows' \in Nat /\ window' \in Nat /\ published' \in Nat /\ lastPub' \in Nat
      BY <2>1, <2>2
    <3>3. {dropped, dropsTold, window, lastPub, windows, published, discarded,
           skipped}' \subseteq Nat
      BY <2>1, <3>1, <3>2 DEF TraceTypeOK
    <3>4. QED
      BY <2>1, <3>1, <3>3 DEF TraceTypeOK
  <2>4. TraceAddsUp'
    <3>1. emitted + told + e =
            Len(queue) + Len(inHand) + Len(pipe) + c + 0 + skipped + dropped + discarded
      BY <1>2, <1>3
    <3>2. Collected' = c + 0 /\ total'["jsonl_write_error"] = e
      BY <1>4, <2>1
    <3>3. QED
      BY <1>5, <2>1, <2>2, <3>1, <3>2
  <2>5. QED
    BY <2>1, <2>3, <2>4 DEF TraceInv
<1>13. ASSUME NEW b \in BOOLEAN, Collect(b)
       PROVE  TraceInv'
  <2>1. /\ pipe # <<>> /\ pipe' = Tail(pipe)
        /\ UNCHANGED <<tracer, collector, enabled, reporter, reports, discarded>>
    BY <1>13 DEF Collect
  <2>2. /\ pipe' \in Seq(Sent) /\ pipe' \in Seq(Kinds) /\ Head(pipe) \in Sent
        /\ Len(pipe') = Len(pipe) - 1 /\ Len(pipe') \in Nat /\ Len(pipe') <= TraceHwm
    <3>1. /\ pipe \in Seq(Sent) /\ pipe \in Seq(Kinds) /\ Len(pipe) \in Nat
          /\ Len(pipe) <= TraceHwm /\ TraceHwm \in Nat
      BY <1>0, TraceAssumption DEF TraceTypes
    <3>2. /\ pipe' \in Seq(Sent) /\ pipe' \in Seq(Kinds) /\ Head(pipe) \in Sent
          /\ Len(pipe') = Len(pipe) - 1 /\ Len(pipe') \in Nat
      BY <2>1, <3>1, HeadTailProperties, LenProperties
    <3>3. QED
      BY <3>1, <3>2
  <2>3. CASE skipped' = skipped + 1 /\ UNCHANGED metrics
    <3>1. skipped' \in Nat /\ Len(pipe') + skipped' + discarded' =
                               Len(pipe) + skipped + discarded
      BY <1>2, <2>1, <2>2, <2>3
    <3>2. TraceTypeOK'
      BY <2>1, <2>2, <2>3, <3>1 DEF TraceInv, TraceTypeOK
    <3>3. TraceAddsUp'
      BY <1>2, <1>6, <2>1, <2>2, <2>3, <3>1
    <3>4. QED
      BY <2>2, <3>2, <3>3 DEF TraceInv
  <2>4. ASSUME NEW n \in {1, 2}, UNCHANGED skipped,
               Add(n, IF n = 1 THEN {Head(pipe)} ELSE {Head(pipe), "jsonl_write_error"})
        PROVE  TraceInv'
    <3>1. /\ window' = window + n /\ total' \in [Kinds -> Nat]
          /\ Collected' = c + n /\ total'["jsonl_write_error"] = e + n - 1
      BY <1>1, <2>2, <2>4, CollectedMore
    <3>2. window' \in Nat /\ n \in 0..2
      BY <1>2, <3>1
    <3>3. TraceTypeOK'
      BY <2>1, <2>2, <2>4, <3>1, <3>2 DEF TraceInv, TraceTypeOK
    <3>4. TraceAddsUp'
      <4>1. emitted + told + (e + n - 1) =
              Len(queue) + Len(inHand) + (Len(pipe) - 1) + c + n + skipped + dropped +
              discarded
        BY <1>2, <1>3, <3>2
      <4>2. windows' + window' = c + n /\ published' = lastPub'
        BY <1>2, <1>3, <2>1, <3>1, <3>2
      <4>3. QED
        BY <1>5, <2>1, <2>2, <2>4, <3>1, <3>2, <4>1, <4>2
    <3>5. QED
      BY <2>2, <3>3, <3>4 DEF TraceInv
  <2>5. QED
    <3>1. \/ skipped' = skipped + 1 /\ UNCHANGED metrics
          \/ Add(2, {Head(pipe), "jsonl_write_error"}) /\ UNCHANGED skipped
          \/ Add(1, {Head(pipe)}) /\ UNCHANGED skipped
      BY <1>13 DEF Collect
    <3>2. QED
      BY <2>3, <2>4, <3>1
<1>14. QED
  BY <1>7, <1>8, <1>10, <1>11, <1>12, <1>13

\* Each event of the trace is on its way, counted, ignored, counted as dropped, or
\* lost with a socket that was closed, and each that is counted is in one report or
\* in the next: whatever the size of the queues and the number of events.
THEOREM TraceAddsUpCorrect == Spec => []TraceAddsUp
<1>1. Init => TraceInv
  BY InitTraceInv DEF Init
<1>2. TraceInv /\ [Next]_vars => TraceInv'
  <2> SUFFICES ASSUME TraceInv, [Next]_vars PROVE TraceInv'
    OBVIOUS
  <2>1. CASE TraceNext
    BY <2>1, TracerStep, CollectorStep DEF TraceNext
  <2>2. CASE UNCHANGED trace
    <3>1. UNCHANGED <<tracer, pipe, collector, enabled, metrics, reporter, reports,
                      discarded, skipped>>
      BY <2>2 DEF trace
    <3>2. TraceTypeOK' /\ pipe' \in Seq(Sent)
      BY <3>1 DEF tracer, metrics, reports, TraceInv, TraceTypeOK
    <3>3. TraceAddsUp'
      BY <3>1 DEF tracer, metrics, reports, TraceInv, TraceAddsUp
    <3>4. QED
      BY <3>2, <3>3 DEF TraceInv
  <2>3. QED
    BY <2>1, <2>2 DEF Next, vars
<1>3. TraceInv => TraceAddsUp
  BY DEF TraceInv
<1>4. QED
  BY <1>1, <1>2, <1>3, PTL DEF Spec

=============================================================================
