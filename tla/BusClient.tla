----------------------------- MODULE BusClient -----------------------------
(***************************************************************************)
(* v2/shared/bus_client.py on v2/bus_broker.py: the numbers that publish() *)
(* gives the messages of a topic, and what the receive loop of another     *)
(* module concludes from those it gets.                                    *)
(*                                                                         *)
(* A message is numbered in one step of its thread and sent in another;    *)
(* ZeroMQ drops, without a word to the sender, what a full queue cannot    *)
(* take and what nobody has subscribed to yet.                             *)
(***************************************************************************)
EXTENDS Naturals, Sequences

CONSTANTS
  Modules,     \* modules that publish the topic
  Writers,     \* their threads
  ModuleOf,    \* the module of each thread
  Hwm,         \* BUS_HWM: what the queues hold
  MaxMessages, \* numbers a process gives
  MaxLives     \* times a module is launched

ASSUME BusAssumption ==
  /\ ModuleOf \in [Writers -> Modules]
  /\ Hwm \in Nat \ {0} /\ MaxMessages \in Nat /\ MaxLives \in Nat \ {0}

VARIABLES
  seq,         \* _trace_seq of each publisher
  sending,     \* the number a thread has taken for its message, 0: none
  wire,        \* messages on their way, from publisher to subscriber
  subscribed,  \* the subscription has reached the broker and the publishers
  last,        \* _trace_last_recv_seq, 0: nothing received yet
  gaps,        \* messages the subscriber has said are missing
  duplicates,  \* messages the subscriber has said it had before
  lost,        \* messages that are lost, once there is a subscription
  overtaken,   \* publishers of which a thread has sent an older number later
  lives        \* times each publisher has been launched

numbers == <<seq, sending, lives>>
noticed == <<last, gaps, duplicates>>
traffic == <<numbers, wire, subscribed, noticed, lost, overtaken>>

Zero == [m \in Modules |-> 0]

BusInit ==
  /\ seq = Zero /\ sending = [w \in Writers |-> 0] /\ lives = [m \in Modules |-> 1]
  /\ wire = <<>> /\ subscribed = FALSE
  /\ last = Zero /\ gaps = Zero /\ duplicates = Zero
  /\ lost = Zero /\ overtaken = {}

\* _next_trace_seq(): no lock, but no thread switch within it either.
NextSeq(w) ==
  LET m == ModuleOf[w] IN
  /\ sending[w] = 0 /\ seq[m] < MaxMessages
  /\ seq' = [seq EXCEPT ![m] = @ + 1]
  /\ sending' = [sending EXCEPT ![w] = seq[m] + 1]
  /\ UNCHANGED <<lives, wire, subscribed, noticed, lost, overtaken>>

Lost(m) == lost' = IF subscribed THEN [lost EXCEPT ![m] = @ + 1] ELSE lost

Overtakes(w) ==
  LET m == ModuleOf[w] IN
  overtaken' = IF \E v \in Writers : ModuleOf[v] = m /\ sending[v] \in 1 .. sending[w] - 1
               THEN overtaken \cup {m} ELSE overtaken

\* send_multipart(NOBLOCK): a PUB socket never answers zmq.Again.
Send(w) ==
  LET m == ModuleOf[w] IN
  /\ sending[w] # 0
  /\ sending' = [sending EXCEPT ![w] = 0]
  /\ IF subscribed /\ Len(wire) < Hwm
     THEN wire' = Append(wire, [src |-> m, seq |-> sending[w]]) /\ UNCHANGED lost
     ELSE Lost(m) /\ UNCHANGED wire
  /\ Overtakes(w)
  /\ UNCHANGED <<seq, lives, subscribed, noticed>>

\* json.dumps() or encode() raises: the number is used up.
EncodeFails(w) ==
  /\ sending[w] # 0
  /\ sending' = [sending EXCEPT ![w] = 0]
  /\ Lost(ModuleOf[w]) /\ Overtakes(w)
  /\ UNCHANGED <<seq, lives, wire, subscribed, noticed>>

\* The process ends and is launched again: its numbers begin at 1.
Relaunch(m) ==
  /\ lives[m] < MaxLives
  /\ lives' = [lives EXCEPT ![m] = @ + 1]
  /\ seq' = [seq EXCEPT ![m] = 0]
  /\ sending' = [w \in Writers |-> IF ModuleOf[w] = m THEN 0 ELSE sending[w]]
  /\ UNCHANGED <<wire, subscribed, noticed, lost, overtaken>>

Subscribe ==
  /\ ~ subscribed
  /\ subscribed' = TRUE
  /\ UNCHANGED <<numbers, wire, noticed, lost, overtaken>>

\* What the numbers are kept by: the module and the topic.  The fault keeps
\* them by the topic alone.
ByTopic(m) == CHOOSE n \in Modules : TRUE
Key(m) == m

\* _receive_loop(), _handle_received_message(): a smaller number is taken for
\* that of a publisher that has been launched again.
Receive ==
  /\ wire # <<>>
  /\ LET m == Head(wire).src  s == Head(wire).seq  k == Key(m) IN
     /\ gaps' = [gaps EXCEPT ![m] =
          @ + (IF last[k] # 0 /\ s > last[k] + 1 THEN s - last[k] - 1 ELSE 0)]
     /\ duplicates' = [duplicates EXCEPT ![m] = @ + (IF s = last[k] THEN 1 ELSE 0)]
     /\ last' = [last EXCEPT ![k] = s]
  /\ wire' = Tail(wire)
  /\ UNCHANGED <<numbers, subscribed, lost, overtaken>>

BusNext ==
  \/ \E w \in Writers : NextSeq(w) \/ Send(w) \/ EncodeFails(w)
  \/ \E m \in Modules : Relaunch(m)
  \/ Subscribe \/ Receive

BusTypeOK ==
  /\ seq \in [Modules -> 0..MaxMessages] /\ sending \in [Writers -> 0..MaxMessages]
  /\ lives \in [Modules -> 1..MaxLives] /\ subscribed \in BOOLEAN
  /\ wire \in Seq([src : Modules, seq : 1..MaxMessages]) /\ Len(wire) <= Hwm
  /\ last \in [Modules -> 0..MaxMessages] /\ overtaken \subseteq Modules
  /\ {gaps, duplicates, lost} \subseteq [Modules -> Nat]

\* "seq_gap" and "duplicate" of the trace are about this bus: no message of a
\* module is called missing that was not lost, nor called a duplicate as long
\* as the module is not launched again.  Where two threads publish one topic
\* the numbers may be out of order on the bus, and both are wrong then.
AlarmsAreTrue ==
  \A m \in Modules \ overtaken :
    /\ gaps[m] <= lost[m]
    /\ duplicates[m] > 0 => lives[m] > 1
=============================================================================
