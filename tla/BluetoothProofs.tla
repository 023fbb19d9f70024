--------------------------- MODULE BluetoothProofs --------------------------
(***************************************************************************)
(* Theorems about BluetoothManager: the agent answers a request of BlueZ   *)
(* for a reason, and the window shows what it has been told of.            *)
(*                                                                         *)
(* Each of the two has an invariant of its own, over the variables of the  *)
(* side it is about.                                                       *)
(***************************************************************************)
EXTENDS BluetoothManager, SequenceTheorems, FiniteSetTheorems, TLAPS

-----------------------------------------------------------------------------
(* Pairing: the invariant.                                                 *)

WorkerStates ==
  {"none", "started", "waiting", "confirmed", "timed out", "taken", "taken late",
   "decided", "done"}

PairingTyped ==
  /\ worker \in [Confirmations -> WorkerStates] /\ taken \in [Confirmations -> Nat]
  /\ answers \in [Confirmations -> Seq({"accepted", "rejected"})]
  /\ device \in Seq(Devices) /\ handlers \in Nat
  /\ event \in BOOLEAN /\ accepted \in BOOLEAN /\ entangled \in BOOLEAN

\* One of these is among what has been said about request r.
Said(r, whys) == \E why \in whys : <<r, why>> \in reasons
Running(r) == worker[r] \notin {"none", "done"}

\* Only the thread of the last request can be there still, and only that request
\* is BlueZ waiting for.
OneAtATime ==
  /\ \A r \in Confirmations :
       /\ r < Len(device) => worker[r] = "done"
       /\ worker[r] = "none" <=> r > Len(device)
  /\ asking \in {0, Len(device)}

\* The agent holds the passkey and the callbacks of the thread that runs.
Own(r) ==
  /\ Running(r) => pin = r
  /\ Running(r) /\ worker[r] # "decided" => handlers = r
  /\ worker[r] \in {"taken", "taken late", "decided"} => taken[r] = r
  /\ worker[r] # "done" => answers[r] = <<>>

\* What it is going to answer has been said: the flag, and that there is one.
Justified(r) ==
  Running(r) =>
    /\ accepted => Said(r, {"user", "time"})
    /\ ~ accepted /\ (event \/ worker[r] \in {"confirmed", "taken", "decided"}) =>
         Said(r, {"mismatch", "cancel"})
    /\ worker[r] \in {"timed out", "taken late"} => Said(r, {"time"})

\* What it has answered had been.
Deserved(r) ==
  /\ Len(answers[r]) <= 1
  /\ Accepted(r) => Said(r, {"user", "time"})
  /\ Refused(r) => Said(r, {"mismatch", "cancel"})

Orderly ==
  OneAtATime /\ \A r \in Confirmations : Own(r) /\ Justified(r) /\ Deserved(r)

PairingInv == PairingTyped /\ (entangled \/ Orderly)

-----------------------------------------------------------------------------
(* Pairing: every step keeps it.                                           *)

\* The agent's variables keep their types: the only sequence that grows by
\* something else than a device is that of the answers to a request.
LEMMA PairingTypes == PairingTyped /\ PairingNext => PairingTyped'
<1> SUFFICES ASSUME PairingTyped, PairingNext PROVE PairingTyped'
  OBVIOUS
<1> USE DEF PairingTyped, WorkerStates, agent, workers, bluezPairing, screen, counters,
            history
<1>1. CASE \E d \in Devices : Pair(d) \/ PairUnknown(d)
  BY <1>1 DEF Pair, PairUnknown
<1>2. CASE Confirm
  BY <1>2 DEF Confirm, Confirmed, ConfirmIgnored, SetEvent
<1>3. CASE Cancel
  BY <1>3 DEF Cancel, SetEvent
<1>4. ASSUME NEW d \in Devices, RequestConfirmation(d) PROVE PairingTyped'
  <2>1. Append(device, d) \in Seq(Devices) /\ Len(device) + 1 \in Nat
    <3> HIDE DEF WorkerStates
    <3>1. device \in Seq(Devices)
      OBVIOUS
    <3> QED
      BY <3>1, AppendProperties, LenProperties
  <2> QED
    BY <1>4, <2>1 DEF RequestConfirmation, ResetForRequest, StartWorker
<1>5. CASE Answered \/ (\E d \in Devices : PairReturns(d)) \/ OutcomeSeen
  BY <1>5 DEF Answered, PairReturns, OutcomeSeen
<1>6. ASSUME NEW r \in Confirmations, User(r) PROVE PairingTyped'
  BY <1>6 DEF User, DialogAccepted, DialogCancelled
<1>7. ASSUME NEW r \in Confirmations, Wait(r) \/ TimeOut(r) PROVE PairingTyped'
  BY <1>7 DEF Wait, TimeOut
<1>8. ASSUME NEW r \in Confirmations, Take(r) PROVE PairingTyped'
  BY <1>8 DEF Take
<1>9. ASSUME NEW r \in Confirmations, Answer(r) PROVE PairingTyped'
  <2> PICK s \in {"accepted", "rejected"} :
             answers' = [answers EXCEPT ![taken[r]] = Append(@, s)] \/ answers' = answers
    BY <1>9 DEF Answer
  <2>1. ASSUME NEW q \in Confirmations PROVE Append(answers[q], s) \in
                                                Seq({"accepted", "rejected"})
    BY AppendProperties
  <2>2. answers' \in [Confirmations -> Seq({"accepted", "rejected"})]
    <3>1. CASE taken[r] \in Confirmations
      BY <3>1, <2>1
    <3>2. CASE taken[r] \notin Confirmations
      BY <3>2
    <3> QED
      BY <3>1, <3>2
  <2> QED
    BY <1>9, <2>2 DEF Answer
<1>10. ASSUME NEW r \in Confirmations, Decide(r) PROVE PairingTyped'
  <2>1. accepted' \in BOOLEAN
    BY <1>10 DEF Decide
  <2>2. handlers' \in Nat /\ worker' \in [Confirmations -> WorkerStates]
    BY <1>10 DEF Decide
  <2> QED
    BY <1>10, <2>1, <2>2 DEF Decide
<1> QED
  BY <1>1, <1>2, <1>3, <1>4, <1>5, <1>6, <1>7, <1>8, <1>9, <1>10
  DEF PairingNext, PairingBusThread, PairingGLibThread, AgentCalled, Worker

\* The last request is the only one whose thread can still be there.
LEMMA OnlyTheLastRuns ==
  ASSUME PairingTyped, OneAtATime, NEW r \in Confirmations, Running(r)
  PROVE  r = Len(device)
BY LenProperties DEF PairingTyped, OneAtATime, Running, Confirmations

\* A request of BlueZ finds the agent at rest, unless a pairing was begun or a
\* confirmation asked for too early, and a new pairing finds it so, too.
LEMMA OrderlyBegun ==
  ASSUME PairingTyped, Orderly, ~ UnderWay, NEW d \in Devices,
         Pair(d) \/ PairUnknown(d) \/ RequestConfirmation(d)
  PROVE  Orderly'
<1>1. \A q \in Confirmations : ~ Running(q)
  BY DEF UnderWay, Running
<1>2. CASE Pair(d) \/ PairUnknown(d)
  <2>1. /\ UNCHANGED <<worker, taken, handlers, asking, answers, device>>
        /\ reasons \subseteq reasons'
    BY <1>2 DEF Pair, PairUnknown, workers, bluezPairing
  <2>2. ASSUME NEW q \in Confirmations PROVE ~ Running(q)'
    BY <1>1, <2>1 DEF Running
  <2>3. OneAtATime'
    BY <2>1, <2>2 DEF Orderly, OneAtATime, Running
  <2>4. ASSUME NEW q \in Confirmations PROVE Own(q)'
    BY <2>1, <2>2 DEF Orderly, Own, Running
  <2>5. ASSUME NEW q \in Confirmations PROVE Justified(q)'
    BY <2>2 DEF Justified
  <2>6. ASSUME NEW q \in Confirmations, NEW whys, Said(q, whys) PROVE Said(q, whys)'
    BY <2>1, <2>6 DEF Said
  <2>7. ASSUME NEW q \in Confirmations PROVE Deserved(q)'
    BY <2>1, <2>6 DEF Orderly, Deserved, Accepted, Refused
  <2> QED
    BY <2>3, <2>4, <2>5, <2>7 DEF Orderly
<1>3. CASE RequestConfirmation(d)
  <2> DEFINE r == Len(device) + 1
  <2>1. /\ Len(device) \in Nat /\ r \in Confirmations /\ Len(device') = r
        /\ worker' = [worker EXCEPT ![r] = "started"] /\ pin' = r /\ handlers' = r
        /\ asking' = r /\ event' = FALSE /\ accepted' = FALSE
        /\ UNCHANGED <<taken, answers, reasons>>
    BY <1>3, AppendProperties, LenProperties
    DEF RequestConfirmation, ResetForRequest, StartWorker, PairingTyped
  <2>2. /\ worker'[r] = "started" /\ worker[r] = "none"
        /\ \A q \in Confirmations \ {r} : worker'[q] = worker[q]
    BY <2>1 DEF PairingTyped, Orderly, OneAtATime
  <2> HIDE DEF r
  <2>3. OneAtATime'
    BY <1>1, <2>1, <2>2 DEF Orderly, OneAtATime, Running, Confirmations, r
  <2>4. ASSUME NEW q \in Confirmations PROVE (Own(q) /\ Justified(q))'
    <3>1. CASE q = r
      BY <2>1, <2>2, <3>1 DEF Orderly, Own, Justified, Running
    <3>2. CASE q # r
      BY <1>1, <2>1, <2>2, <3>2 DEF Orderly, Own, Justified, Running
    <3> QED
      BY <3>1, <3>2
  <2>5. ASSUME NEW q \in Confirmations PROVE Deserved(q)'
    BY <2>1 DEF Orderly, Deserved, Accepted, Refused, Said
  <2> QED
    BY <2>3, <2>4, <2>5 DEF Orderly
<1> QED
  BY <1>2, <1>3

\* Whoever sets the event says why: the user, or BlueZ.
LEMMA OrderlyTold ==
  ASSUME PairingTyped, Orderly, Confirm \/ Cancel
  PROVE  Orderly'
<1> USE DEF PairingTyped
<1>1. /\ UNCHANGED <<taken, answers, handlers, device, pin>>
      /\ reasons \subseteq reasons' /\ asking' \in {0, asking}
  BY DEF Confirm, Cancel, Confirmed, ConfirmIgnored, counters, bluezPairing
<1>2. ASSUME NEW q \in Confirmations
      PROVE  /\ worker'[q] = worker[q] \/ (worker[q] = "waiting" /\ worker'[q] = "confirmed")
             /\ Running(q)' <=> Running(q)
  BY DEF Confirm, Cancel, Confirmed, ConfirmIgnored, SetEvent, Running
<1>3. ASSUME NEW q \in Confirmations, Running(q)
      PROVE  \/ UNCHANGED <<accepted, event, worker>>
             \/ accepted' /\ <<q, "user">> \in reasons'
             \/ ~ accepted' /\ Said(q, {"mismatch", "cancel"})'
  <2>1. pin = q /\ (asking # 0 => asking = q)
    BY <1>3, OnlyTheLastRuns DEF Orderly, OneAtATime, Own
  <2>2. CASE Confirm
    BY <2>1, <2>2 DEF Confirm, Confirmed, ConfirmIgnored, Said
  <2>3. CASE Cancel
    BY <2>1, <2>3 DEF Cancel, Said
  <2> QED
    BY <2>2, <2>3
<1>4. ASSUME NEW q \in Confirmations, NEW whys, Said(q, whys) PROVE Said(q, whys)'
  BY <1>1, <1>4 DEF Said
<1>5. OneAtATime'
  BY <1>1, <1>2 DEF Orderly, OneAtATime
<1>6. ASSUME NEW q \in Confirmations PROVE Own(q)'
  BY <1>1, <1>2 DEF Orderly, Own
<1>7. ASSUME NEW q \in Confirmations PROVE Justified(q)'
  <2> SUFFICES ASSUME Running(q) PROVE Justified(q)'
    BY <1>2 DEF Justified
  <2>1. worker'[q] \in {"timed out", "taken late"} => Said(q, {"time"})'
    BY <1>2, <1>4 DEF Orderly, Justified
  <2>2. CASE UNCHANGED <<accepted, event, worker>>
    BY <1>4, <2>1, <2>2 DEF Orderly, Justified, Running
  <2>3. CASE accepted' /\ <<q, "user">> \in reasons'
    BY <2>1, <2>3 DEF Justified, Said
  <2>4. CASE ~ accepted' /\ Said(q, {"mismatch", "cancel"})'
    BY <2>1, <2>4 DEF Justified
  <2> QED
    BY <1>3, <2>2, <2>3, <2>4
<1>8. ASSUME NEW q \in Confirmations PROVE Deserved(q)'
  BY <1>1, <1>4 DEF Orderly, Deserved, Accepted, Refused
<1> QED
  BY <1>5, <1>6, <1>7, <1>8 DEF Orderly

\* The thread of a request goes by what the agent holds for it.
LEMMA OrderlyWaited ==
  ASSUME PairingTyped, Orderly, NEW r \in Confirmations,
         Wait(r) \/ TimeOut(r) \/ Take(r) \/ Decide(r)
  PROVE  Orderly'
<1> USE DEF PairingTyped
<1>1. /\ UNCHANGED <<answers, device, pin, asking, event>>
      /\ reasons \subseteq reasons' /\ Running(r) /\ Running(r)'
      /\ \A q \in Confirmations \ {r} : worker'[q] = worker[q] /\ taken'[q] = taken[q]
  <2>1. UNCHANGED <<answers, device, pin, asking, event>> /\ reasons \subseteq reasons'
    BY DEF Wait, TimeOut, Take, Decide, agent, bluezPairing, history
  <2>2. \E w \in WorkerStates \ {"none", "done"} : worker' = [worker EXCEPT ![r] = w]
    BY DEF Wait, TimeOut, Take, Decide, WorkerStates
  <2>3. ASSUME NEW q \in Confirmations, q # r PROVE taken'[q] = taken[q]
    <3>1. CASE Wait(r)
      BY <3>1 DEF Wait
    <3>2. CASE TimeOut(r)
      BY <3>2 DEF TimeOut
    <3>3. CASE Take(r)
      BY <2>3, <3>3 DEF Take
    <3>4. CASE Decide(r)
      BY <3>4 DEF Decide
    <3> QED
      BY <3>1, <3>2, <3>3, <3>4
  <2>4. Running(r)
    BY DEF Wait, TimeOut, Take, Decide, Running
  <2> QED
    BY <2>1, <2>2, <2>3, <2>4 DEF Running
<1>2. r = Len(device) /\ \A q \in Confirmations \ {r} : ~ Running(q) /\ ~ Running(q)'
  BY <1>1, OnlyTheLastRuns DEF Orderly, Running
<1>3. ASSUME NEW q \in Confirmations, NEW whys, Said(q, whys) PROVE Said(q, whys)'
  BY <1>1, <1>3 DEF Said
<1>4. OneAtATime'
  BY <1>1 DEF Orderly, OneAtATime, Running
<1>5. ASSUME NEW q \in Confirmations \ {r} PROVE (Own(q) /\ Justified(q))'
  BY <1>1, <1>2, <1>5 DEF Orderly, Own, Justified, Running
<1>6. Own(r)'
  BY <1>1 DEF Orderly, Own, Running, Wait, TimeOut, Take, Decide, agent
<1>7. Justified(r)'
  <2>1. CASE Wait(r)
    <3>1. UNCHANGED <<accepted, reasons>> /\ worker[r] = "started"
          /\ worker'[r] \in {"confirmed", "waiting"} /\ (worker'[r] = "confirmed" => event)
      BY <2>1 DEF Wait, agent, history
    <3> QED
      BY <1>1, <3>1 DEF Orderly, Justified, Said
  <2>2. CASE TimeOut(r)
    <3>1. UNCHANGED accepted /\ <<r, "time">> \in reasons'
          /\ worker[r] = "waiting" /\ worker'[r] = "timed out"
      BY <2>2 DEF TimeOut, agent
    <3> QED
      BY <1>1, <1>3, <3>1 DEF Orderly, Justified, Said
  <2>3. CASE Take(r)
    <3>1. UNCHANGED <<accepted, reasons>>
          /\ \/ worker[r] = "confirmed" /\ worker'[r] = "taken"
             \/ worker[r] = "timed out" /\ worker'[r] = "taken late"
      BY <2>3 DEF Take, agent, history
    <3> QED
      BY <1>1, <3>1 DEF Orderly, Justified, Said
  <2>4. CASE Decide(r)
    <3>1. worker[r] = "taken late" => Said(r, {"user", "time"})'
      BY <1>1, <1>3 DEF Orderly, Justified, Said
    <3>2. worker'[r] = "decided" /\ (accepted' <=> accepted \/ worker[r] = "taken late")
      BY <2>4 DEF Decide
    <3>3. accepted => Said(r, {"user", "time"})'
      BY <1>1, <1>3 DEF Orderly, Justified
    <3>4. ~ accepted /\ worker[r] = "taken" => Said(r, {"mismatch", "cancel"})'
      BY <1>1, <1>3 DEF Orderly, Justified
    <3>5. worker[r] \in {"taken", "taken late"}
      BY <2>4 DEF Decide
    <3> QED
      BY <3>1, <3>2, <3>3, <3>4, <3>5 DEF Justified
  <2> QED
    BY <2>1, <2>2, <2>3, <2>4
<1>8. ASSUME NEW q \in Confirmations PROVE Deserved(q)'
  BY <1>1, <1>3 DEF Orderly, Deserved, Accepted, Refused
<1> QED
  BY <1>4, <1>5, <1>6, <1>7, <1>8 DEF Orderly

\* It answers the request it was started for, which has no answer yet.
LEMMA OrderlyAnswer ==
  ASSUME PairingTyped, Orderly, NEW r \in Confirmations, Answer(r)
  PROVE  Orderly'
<1> DEFINE a == IF accepted THEN "accepted" ELSE "rejected"
<1>1. /\ UNCHANGED <<taken, handlers, device, pin, asking, event, accepted, reasons>>
      /\ worker' = [worker EXCEPT ![r] = "done"]
  BY DEF Answer, agent, history
<1>2. worker[r] = "decided" /\ taken[r] = r /\ r \in 1..MaxConfirmations /\ answers[r] = <<>>
  BY DEF Answer, Orderly, Own, Confirmations
<1>3. answers' = [answers EXCEPT ![r] = Append(@, a)]
  BY <1>2, BoundsAssumption DEF Answer
<1>4. answers'[r] = <<a>> /\ \A q \in Confirmations \ {r} : answers'[q] = answers[q]
  BY <1>2, <1>3 DEF PairingTyped
<1>5. r = Len(device)
  BY <1>2, OnlyTheLastRuns DEF Orderly, Running
<1>6. worker'[r] = "done" /\ \A q \in Confirmations \ {r} : worker'[q] = worker[q]
  BY <1>1 DEF PairingTyped
<1>7. OneAtATime'
  BY <1>1, <1>2, <1>6 DEF Orderly, OneAtATime
<1>8. ASSUME NEW q \in Confirmations \ {r} PROVE (Own(q) /\ Justified(q) /\ Deserved(q))'
  <2>1. (Own(q) /\ Justified(q))'
    BY <1>1, <1>4, <1>6 DEF Orderly, Own, Justified, Running, Said
  <2>2. Deserved(q)'
    BY <1>1, <1>4 DEF Orderly, Deserved, Accepted, Refused, Said
  <2> QED
    BY <2>1, <2>2
<1>9. (Own(r) /\ Justified(r))'
  BY <1>6 DEF Own, Justified, Running
<1>10. Deserved(r)'
  <2>1. Said(r, IF accepted THEN {"user", "time"} ELSE {"mismatch", "cancel"})
    BY <1>2 DEF Orderly, Justified, Running
  <2> HIDE DEF a
  <2>2. Len(answers'[r]) = 1 /\ \A i \in DOMAIN answers'[r] : answers'[r][i] = a
    BY <1>4
  <2> USE DEF a
  <2> QED
    BY <1>1, <2>1, <2>2 DEF Deserved, Accepted, Refused, Said
<1> QED
  BY <1>7, <1>8, <1>9, <1>10 DEF Orderly

\* What else happens, on the screen and in BlueZ, leaves the agent alone.
LEMMA OrderlyElsewhere ==
  ASSUME Orderly, UNCHANGED <<agent, workers, device, answers, reasons>>,
         asking' \in {0, asking}
  PROVE  Orderly'
BY DEF Orderly, OneAtATime, Own, Justified, Deserved, Accepted, Refused, Running, Said,
   agent, workers

LEMMA PairingKept == PairingInv /\ PairingNext => PairingInv'
<1> SUFFICES ASSUME PairingInv, PairingNext PROVE PairingInv'
  OBVIOUS
<1>1. PairingTyped /\ PairingTyped'
  BY PairingTypes DEF PairingInv
<1> SUFFICES ASSUME ~ entangled' PROVE Orderly'
  BY <1>1 DEF PairingInv
<1> USE DEF counters, history, bluezPairing, screen, workers, agent
<1>2. CASE \E d \in Devices : Pair(d) \/ PairUnknown(d) \/ RequestConfirmation(d)
  <2>1. ~ entangled /\ ~ UnderWay
    BY <1>2 DEF Pair, PairUnknown, RequestConfirmation
  <2> QED
    BY <1>1, <1>2, <2>1, OrderlyBegun DEF PairingInv
<1>3. CASE Confirm \/ Cancel
  <2>1. ~ entangled
    BY <1>3 DEF Confirm, Cancel
  <2> QED
    BY <1>1, <1>3, <2>1, OrderlyTold DEF PairingInv
<1>4. CASE \E r \in Confirmations : Worker(r)
  <2> PICK r \in Confirmations : Worker(r)
    BY <1>4
  <2>1. ~ entangled
    BY DEF Worker, Wait, TimeOut, Take, Decide, Answer
  <2> QED
    BY <1>1, <2>1, OrderlyWaited, OrderlyAnswer DEF PairingInv, Worker
<1>5. CASE \/ Answered \/ OutcomeSeen \/ \E d \in Devices : PairReturns(d)
           \/ \E r \in Confirmations : User(r)
  <2>1. UNCHANGED <<agent, workers, device, answers, history>> /\ asking' \in {0, asking}
    BY <1>5 DEF Answered, OutcomeSeen, PairReturns, User, DialogAccepted, DialogCancelled
  <2> QED
    BY <1>1, <2>1, OrderlyElsewhere DEF PairingInv
<1> QED
  BY <1>2, <1>3, <1>4, <1>5
  DEF PairingNext, PairingBusThread, PairingGLibThread, AgentCalled

\* A request is answered for a reason: AnsweredForAReason, as long as no pairing is
\* begun and no confirmation asked for before the last one is done.
THEOREM AnsweredForAReasonCorrect == Spec => []AnsweredForAReason
<1>1. Init => PairingInv
  <2> SUFFICES ASSUME Init PROVE PairingInv
    OBVIOUS
  <2>1. PairingInit
    BY DEF Init
  <2>2. <<>> \in Seq(Devices) /\ <<>> \in Seq({"accepted", "rejected"}) /\ Len(<<>>) = 0
    BY EmptySeq
  <2>3. PairingTyped
    BY <2>1, <2>2 DEF PairingInit, PairingTyped, WorkerStates
  <2>4. Orderly
    BY <2>1, <2>2 DEF PairingInit, Orderly, OneAtATime, Own, Justified, Deserved, Accepted,
       Refused, Running, Confirmations
  <2> QED
    BY <2>3, <2>4 DEF PairingInv
<1>2. PairingInv /\ [Next]_vars => PairingInv'
  <2> SUFFICES ASSUME PairingInv, [Next]_vars PROVE PairingInv'
    OBVIOUS
  <2>1. PairingNext \/ UNCHANGED pairing
    BY DEF Next, vars
  <2>2. CASE UNCHANGED pairing
    BY <2>2 DEF PairingInv, PairingTyped, Orderly, OneAtATime, Own, Justified, Deserved,
       Accepted, Refused, Running, Said, pairing, agent, workers, bluezPairing, history
  <2> QED
    BY <2>1, <2>2, PairingKept
<1>3. PairingInv => AnsweredForAReason
  BY DEF PairingInv, Orderly, Deserved, Said, AnsweredForAReason
<1> QED
  BY <1>1, <1>2, <1>3, PTL DEF Spec

-----------------------------------------------------------------------------
(* The window of the paired devices: the invariant.                        *)

\* The devices it will be told have been removed, once it has heard i messages.
RemovedAfter(n, i) == {n[j][2] : j \in {k \in (i + 1)..Len(n) : n[k][1] = "removed"}}

\* A device that has been removed is still to be taken off the list, and off any
\* list on its way.  Before it subscribes the window hears nothing, before it
\* is there it lists nothing.
WindowInv ==
  /\ \E S : news \in Seq(S)
  /\ side # "window" => ~ listening
  /\ ~ listening => news = <<>>
  /\ ~ listening \/ ~ opened => DOMAIN listed = {}
  /\ DOMAIN listed \subseteq paired \cup RemovedAfter(news, 0)
  /\ \A i \in DOMAIN news :
       news[i][1] = "devices" => DOMAIN news[i][2] \subseteq paired \cup RemovedAfter(news, i)
  /\ buttons = Offered(listed, selected)

-----------------------------------------------------------------------------
(* The window of the paired devices: every step keeps it.                  *)

\* What is still to be heard, when one message has been ...
LEMMA RemovedTail ==
  ASSUME NEW S, NEW n \in Seq(S), n # <<>>, NEW i \in Nat
  PROVE  RemovedAfter(Tail(n), i) = RemovedAfter(n, i + 1)
<1> DEFINE t == Tail(n)
<1>1. Len(t) = Len(n) - 1 /\ Len(n) \in Nat \ {0} /\ \A j \in 1..Len(t) : t[j] = n[j + 1]
  BY HeadTailProperties, EmptySeq, LenProperties
<1> HIDE DEF t
<1>2. ASSUME NEW x \in RemovedAfter(t, i) PROVE x \in RemovedAfter(n, i + 1)
  <2>1. PICK j \in (i + 1)..Len(t) : t[j][1] = "removed" /\ x = t[j][2]
    BY DEF RemovedAfter
  <2>2. j + 1 \in (i + 1 + 1)..Len(n) /\ t[j] = n[j + 1]
    BY <1>1
  <2> QED
    BY <2>1, <2>2 DEF RemovedAfter
<1>3. ASSUME NEW x \in RemovedAfter(n, i + 1) PROVE x \in RemovedAfter(t, i)
  <2>1. PICK j \in (i + 1 + 1)..Len(n) : n[j][1] = "removed" /\ x = n[j][2]
    BY DEF RemovedAfter
  <2>2. j - 1 \in (i + 1)..Len(t) /\ t[j - 1] = n[j]
    BY <1>1
  <2> QED
    BY <2>1, <2>2 DEF RemovedAfter
<1> QED
  BY <1>2, <1>3 DEF t

\* ... and when one more has been sent.
LEMMA RemovedAppend ==
  ASSUME NEW S, NEW n \in Seq(S), NEW m, NEW i \in 0..Len(n)
  PROVE  RemovedAfter(Append(n, m), i)
           = RemovedAfter(n, i) \cup (IF m[1] = "removed" THEN {m[2]} ELSE {})
<1> DEFINE a == Append(n, m)
<1>1. /\ Len(n) \in Nat /\ Len(a) = Len(n) + 1 /\ a[Len(a)] = m
      /\ \A j \in 1..Len(n) : a[j] = n[j]
  <2>1. n \in Seq(S \cup {m}) /\ m \in S \cup {m}
    BY SeqMonotonic
  <2> QED
    BY <2>1, AppendProperties, LenProperties
<1> HIDE DEF a
<1> QED
  BY <1>1 DEF RemovedAfter, a

\* The manager tells the truth: a list is of paired devices, and what is paired no
\* more is reported in the same step.
LEMMA WindowTold ==
  ASSUME WindowInv, NEW m, Tell(m), UNCHANGED <<side, showing>>,
         paired \subseteq paired' \cup (IF m[1] = "removed" THEN {m[2]} ELSE {}),
         m[1] = "devices" => DOMAIN m[2] \subseteq paired'
  PROVE  WindowInv'
<1> USE DEF showing, rows
<1> PICK S : news \in Seq(S)
  BY DEF WindowInv
<1>1. CASE ~ listening
  BY <1>1, EmptySeq DEF WindowInv, Tell, Offered, RemovedAfter
<1>2. CASE listening
  <2>1. news' = Append(news, m) /\ Len(news) \in Nat
    BY <1>2, LenProperties DEF Tell
  <2>2. news' \in Seq(S \cup {m}) /\ Len(news') = Len(news) + 1 /\ DOMAIN news' = 1..Len(news')
        /\ news'[Len(news')] = m /\ \A j \in DOMAIN news : news'[j] = news[j]
    <3>1. news \in Seq(S \cup {m}) /\ m \in S \cup {m}
      BY SeqMonotonic
    <3> QED
      BY <2>1, <3>1, AppendProperties, LenProperties
  <2>3. \A i \in 0..Len(news) :
          paired \cup RemovedAfter(news, i) \subseteq paired' \cup RemovedAfter(news', i)
    BY <2>1, RemovedAppend
  <2>4. ASSUME NEW i \in DOMAIN news', news'[i][1] = "devices"
        PROVE  DOMAIN news'[i][2] \subseteq paired' \cup RemovedAfter(news', i)
    <3>1. CASE i = Len(news')
      BY <2>2, <2>4, <3>1
    <3>2. CASE i # Len(news')
      <4>1. i \in DOMAIN news /\ i \in 0..Len(news) /\ news'[i] = news[i]
        BY <2>1, <2>2, <3>2, LenProperties
      <4> QED
        BY <2>3, <2>4, <4>1 DEF WindowInv
    <3> QED
      BY <3>1, <3>2
  <2>5. DOMAIN listed' \subseteq paired' \cup RemovedAfter(news', 0)
    BY <2>1, <2>3 DEF WindowInv
  <2> QED
    BY <1>2, <2>2, <2>4, <2>5 DEF WindowInv, Offered
<1> QED
  BY <1>1, <1>2

\* A message that the window has heard, whatever it does about it, as long as it
\* takes the devices off its list that it has been told are gone.
LEMMA WindowHeard ==
  ASSUME WindowInv, news # <<>>, news' = Tail(news), UNCHANGED <<side, opened, listening, paired>>,
         ~ opened => UNCHANGED listed, buttons' = Offered(listed', selected'),
         \/ Head(news)[1] = "devices" /\ DOMAIN listed' \subseteq DOMAIN Head(news)[2]
         \/ Head(news)[1] = "removed" /\ DOMAIN listed' \subseteq DOMAIN listed \ {Head(news)[2]}
         \/ Head(news)[1] # "removed" /\ DOMAIN listed' \subseteq DOMAIN listed
         \/ DOMAIN listed' = {}
  PROVE  WindowInv'
<1> PICK S : news \in Seq(S)
  BY DEF WindowInv
<1>1. /\ news' \in Seq(S) /\ Len(news') = Len(news) - 1 /\ Len(news) \in Nat \ {0}
      /\ DOMAIN news = 1..Len(news) /\ DOMAIN news' = 1..Len(news')
      /\ Head(news) = news[1] /\ \A j \in DOMAIN news' : news'[j] = news[j + 1]
  BY HeadTailProperties, EmptySeq, LenProperties
<1>2. \A i \in Nat : RemovedAfter(news', i) = RemovedAfter(news, i + 1)
  BY RemovedTail
<1>3. ASSUME NEW i \in DOMAIN news', news'[i][1] = "devices"
      PROVE  DOMAIN news'[i][2] \subseteq paired' \cup RemovedAfter(news', i)
  <2>1. i \in Nat /\ i + 1 \in DOMAIN news /\ news'[i] = news[i + 1]
    BY <1>1
  <2> QED
    BY <1>2, <1>3, <2>1 DEF WindowInv
<1>4. RemovedAfter(news, 0) = RemovedAfter(news, 1)
                                \cup (IF Head(news)[1] = "removed" THEN {Head(news)[2]} ELSE {})
  <2>1. {k \in 1..Len(news) : news[k][1] = "removed"}
          = {k \in 2..Len(news) : news[k][1] = "removed"}
              \cup (IF news[1][1] = "removed" THEN {1} ELSE {})
    BY <1>1
  <2> QED
    BY <1>1, <2>1 DEF RemovedAfter
<1>5. DOMAIN listed' \subseteq paired' \cup RemovedAfter(news', 0)
  <2>1. RemovedAfter(news', 0) = RemovedAfter(news, 1)
    BY <1>2
  <2>2. Head(news)[1] = "devices" =>
          DOMAIN Head(news)[2] \subseteq paired \cup RemovedAfter(news, 1)
    BY <1>1 DEF WindowInv
  <2>3. DOMAIN listed \subseteq paired \cup RemovedAfter(news, 0)
    BY DEF WindowInv
  <2> QED
    BY <1>4, <2>1, <2>2, <2>3
<1>6. listening
  BY DEF WindowInv
<1> QED
  BY <1>1, <1>3, <1>5, <1>6 DEF WindowInv

\* bluetooth_manager's side.
LEMMA WindowManaged ==
  ASSUME WindowInv, UNCHANGED side,
         ManagerStarts \/ ManagerListens \/ ManagerHears \/ ManagerReports
  PROVE  WindowInv'
<1> USE DEF bluez, calls
<1>1. CASE UNCHANGED <<news, showing, paired>>
  BY <1>1 DEF WindowInv, showing, rows, Offered
<1>2. CASE ManagerStarts \/ ManagerListens
  BY <1>1, <1>2 DEF ManagerStarts, ManagerListens
<1>3. CASE ManagerHears
  <2>1. UNCHANGED showing
    BY <1>3 DEF ManagerHears
  <2>2. ASSUME NEW d, Failed(d), UNCHANGED paired PROVE WindowInv'
    <3>1. Tell(<<"failed", d>>)
      BY <2>2 DEF Failed
    <3> QED
      BY <2>1, <2>2, <3>1, WindowTold
  <2>3. CASE OnPairedList
    <3> DEFINE m == <<"devices", [d \in Known |-> d \in connected]>>
    <3>1. Tell(m) /\ UNCHANGED paired /\ m[1] = "devices" /\ DOMAIN m[2] = Known
      BY <2>3 DEF OnPairedList
    <3>2. Known \subseteq paired
      BY DEF Known
    <3> HIDE DEF m
    <3> QED
      BY <2>1, <3>1, <3>2, WindowTold
  <2>4. CASE OnPairedRemove
    <3>1. PICK d : d = Head(asks)[2]
      OBVIOUS
    <3>2. CASE d \in Known /\ RemoveDevice(d) /\ Tell(<<"removed", d>>)
      <4>1. paired \subseteq paired' \cup {d}
        BY <3>2 DEF RemoveDevice
      <4> QED
        BY <2>1, <3>2, <4>1, WindowTold
    <3>3. CASE Failed(d) /\ UNCHANGED <<bluez, calls>>
      BY <2>2, <3>3
    <3> QED
      BY <2>4, <3>1, <3>2, <3>3 DEF OnPairedRemove
  <2>5. CASE OnPairedConnect
    <3>1. PICK d : d = Head(asks)[2]
      OBVIOUS
    <3> QED
      BY <1>1, <2>1, <2>2, <2>5, <3>1 DEF OnPairedConnect, ConnectAsked
  <2>6. CASE OnPairedDisconnect
    <3>1. PICK d : d = Head(asks)[2]
      OBVIOUS
    <3> QED
      BY <1>1, <2>1, <2>2, <2>6, <3>1 DEF OnPairedDisconnect
  <2> QED
    BY <1>3, <2>3, <2>4, <2>5, <2>6 DEF ManagerHears
<1>4. CASE ManagerReports
  <2>1. UNCHANGED <<showing, paired>>
    BY <1>4 DEF ManagerReports, Parted, ConnectReported, ReplyReported, TimeoutReported,
       ReplyArrives, WatchdogWakes, PhoneConnects, PhoneLeaves
  <2>2. ASSUME NEW what \in {"failed", "connected", "disconnected"}, NEW d, Tell(<<what, d>>)
        PROVE  WindowInv'
    BY <2>1, <2>2, WindowTold
  <2>3. \/ UNCHANGED news
        \/ \E what \in {"failed", "connected", "disconnected"} : \E d : Tell(<<what, d>>)
    BY <1>4 DEF ManagerReports, Parted, ConnectReported, Failed
  <2> QED
    BY <1>1, <2>1, <2>2, <2>3
<1> QED
  BY <1>2, <1>3, <1>4

\* The window's side: the slots, and its user.
LEMMA WindowShown ==
  ASSUME WindowInv, UNCHANGED <<side, paired>>, side = "window",
         WindowOpens \/ WindowListens \/ NewsDropped \/ WindowSlots \/ UserClicks
  PROVE  WindowInv'
<1> USE DEF showing, rows
<1>1. CASE WindowOpens
  BY <1>1 DEF WindowInv, WindowOpens, Offered
<1>2. CASE WindowListens
  BY <1>2, EmptySeq DEF WindowInv, WindowListens, Offered
<1>3. CASE NewsDropped
  <2>1. DOMAIN listed' = {} /\ buttons' = Offered(listed', selected')
    BY <1>3 DEF NewsDropped, WindowInv
  <2> QED
    BY <1>3, <2>1, WindowHeard DEF NewsDropped
<1>4. CASE WindowSlots
  <2>1. /\ opened /\ news # <<>> /\ news' = Tail(news) /\ UNCHANGED <<opened, listening>>
        /\ buttons' = Offered(listed', selected')
    BY <1>4 DEF WindowSlots, RefreshPairedList, RefreshItemState, OnPairedRemoved,
       OnPairedFailed, Called, UpdateButtons
  <2>2. \/ Head(news)[1] = "devices" /\ listed' = Head(news)[2]
        \/ Head(news)[1] = "removed" /\ DOMAIN listed' = DOMAIN listed \ {Head(news)[2]}
        \/ Head(news)[1] # "removed" /\ DOMAIN listed' = DOMAIN listed
    BY <1>4 DEF WindowSlots, RefreshPairedList, RefreshItemState, OnPairedRemoved,
       OnPairedFailed, Called, WithoutRow
  <2> QED
    BY <2>1, <2>2, WindowHeard
<1>5. CASE UserClicks
  <2>1. UNCHANGED <<news, opened, listening, listed>>
    BY <1>5 DEF UserClicks, SelectRow, RefreshClicked, ConnectClicked, DisconnectClicked,
       RemoveClicked, RemoveAnswered
  <2>2. buttons' = Offered(listed', selected') \/ UNCHANGED <<buttons, selected>>
    BY <1>5 DEF UserClicks, SelectRow, RefreshClicked, ConnectClicked, DisconnectClicked,
       RemoveClicked, RemoveAnswered, UpdateButtons
  <2> QED
    BY <2>1, <2>2 DEF WindowInv
<1> QED
  BY <1>1, <1>2, <1>3, <1>4, <1>5

\* Seen from another side the window is closed, and the devices only get fewer.
LEMMA WindowKept == WindowInv /\ [Next]_vars => WindowInv'
<1> SUFFICES ASSUME WindowInv, [Next]_vars PROVE WindowInv'
  OBVIOUS
<1>1. UNCHANGED side
  BY DEF Next, vars
<1>2. CASE UNCHANGED <<windows, paired>>
  BY <1>1, <1>2 DEF WindowInv, windows, showing, rows, Offered
<1>3. CASE side # "window" /\ UNCHANGED windows
  BY <1>1, <1>3 DEF WindowInv, windows, showing, rows, Offered, RemovedAfter
<1>4. CASE side = "window" /\ WindowNext
  BY <1>1, <1>4, WindowManaged, WindowShown DEF WindowNext, bluez
<1> QED
  BY <1>2, <1>3, <1>4 DEF Next, vars, bluez

-----------------------------------------------------------------------------
(* The search: the invariant.                                              *)

\* What the last session has found is listed or on its way, and the window finds
\* the devices it has a row for.  Elsewhere than on this side none is found.
ScanInv ==
  /\ requests \in 0..MaxDiscoveries /\ scans \in Nat
  /\ devices \in [Sessions -> SUBSET Devices] /\ inRange \subseteq Devices
  /\ findings \in Seq(Devices) /\ foundRows \in Seq(Devices)
  /\ found = ToSet(foundRows)
  /\ side # "scan" => \A s \in Sessions : devices[s] = {}
  /\ scans = 0 /\ ~ ignored /\ requests # 0 =>
       devices[requests] \subseteq found \cup ToSet(findings)

-----------------------------------------------------------------------------
(* The search: every step keeps it.                                        *)

\* What is in a sequence, as it grows and shrinks.
LEMMA ToSetAppend ==
  ASSUME NEW S, NEW s \in Seq(S), NEW e \in S PROVE ToSet(Append(s, e)) = ToSet(s) \cup {e}
BY AppendProperties, LenProperties DEF ToSet

LEMMA ToSetTail ==
  ASSUME NEW S, NEW s \in Seq(S), s # <<>> PROVE ToSet(s) = ToSet(Tail(s)) \cup {Head(s)}
<1> DEFINE t == Tail(s)
<1>1. /\ t \in Seq(S) /\ Len(t) = Len(s) - 1 /\ Len(s) \in Nat \ {0} /\ DOMAIN s = 1..Len(s)
      /\ DOMAIN t = 1..Len(t) /\ \A j \in 1..Len(t) : t[j] = s[j + 1]
  BY HeadTailProperties, EmptySeq, LenProperties
<1>2. Head(s) = s[1]
  BY HeadTailProperties
<1> HIDE DEF t
<1>3. ASSUME NEW x \in ToSet(s) PROVE x \in ToSet(t) \cup {Head(s)}
  <2>1. PICK j \in 1..Len(s) : x = s[j]
    BY <1>1 DEF ToSet
  <2>2. j = 1 \/ (j - 1 \in 1..Len(t) /\ t[j - 1] = s[j])
    BY <1>1
  <2> QED
    BY <1>1, <1>2, <2>1, <2>2 DEF ToSet
<1>4. ASSUME NEW x \in ToSet(t) PROVE x \in ToSet(s)
  <2>1. PICK j \in 1..Len(t) : x = t[j]
    BY <1>1 DEF ToSet
  <2>2. j + 1 \in 1..Len(s) /\ t[j] = s[j + 1]
    BY <1>1
  <2> QED
    BY <1>1, <2>1, <2>2 DEF ToSet
<1>5. Head(s) \in ToSet(s)
  BY <1>1, <1>2 DEF ToSet
<1> QED
  BY <1>3, <1>4, <1>5 DEF t

LEMMA ToSetConcat ==
  ASSUME NEW S, NEW s \in Seq(S), NEW u \in Seq(S)
  PROVE  s \o u \in Seq(S) /\ ToSet(s) \subseteq ToSet(s \o u) /\ ToSet(u) \subseteq ToSet(s \o u)
<1> DEFINE c == s \o u
<1>1. /\ c \in Seq(S) /\ Len(c) = Len(s) + Len(u) /\ DOMAIN c = 1..Len(c)
      /\ Len(s) \in Nat /\ Len(u) \in Nat /\ DOMAIN s = 1..Len(s) /\ DOMAIN u = 1..Len(u)
      /\ \A j \in 1..Len(c) : c[j] = IF j <= Len(s) THEN s[j] ELSE u[j - Len(s)]
  BY ConcatProperties, LenProperties
<1> HIDE DEF c
<1>2. ASSUME NEW x \in ToSet(s) PROVE x \in ToSet(c)
  BY <1>1 DEF ToSet
<1>3. ASSUME NEW x \in ToSet(u) PROVE x \in ToSet(c)
  <2>1. PICK j \in 1..Len(u) : x = u[j]
    BY <1>1 DEF ToSet
  <2>2. j + Len(s) \in 1..Len(c) /\ c[j + Len(s)] = u[j]
    BY <1>1
  <2> QED
    BY <1>1, <2>1, <2>2 DEF ToSet
<1> QED
  BY <1>1, <1>2, <1>3 DEF c

\* A poll names all the devices that are new, in whatever order.
LEMMA EachIsNamed ==
  ASSUME NEW S, IsFiniteSet(S), NEW f \in SetToSeqs(S)
  PROVE  f \in Seq(S) /\ ToSet(f) = S
<1> DEFINE n == Cardinality(S)
<1>1. n \in Nat
  BY FS_CardinalityType
<1>2. f \in [1..n -> S] /\ \A i, j \in 1..n : i # j => f[i] # f[j]
  BY DEF SetToSeqs
<1>3. f \in Injection(1..n, S)
  BY <1>2 DEF Injection, IsInjective
<1>4. Cardinality(1..n) = n
  BY <1>1, FS_Interval
<1> HIDE DEF n
<1>5. f \in Surjection(1..n, S)
  BY <1>3, <1>4, FS_Injection DEF n
<1>6. f \in Seq(S)
  BY <1>1, <1>2
<1> QED
  BY <1>2, <1>5, <1>6 DEF Surjection, ToSet

\* BlueZ and bluetooth_manager.
LEMMA ScanManaged ==
  ASSUME ScanInv, UNCHANGED side, side = "scan",
         HearDiscover \/ RangeChanges \/ \E s \in Sessions : PollDevices(s)
  PROVE  ScanInv'
<1> USE DEF ScanInv, discovery
<1>1. CASE HearDiscover
  <2>1. /\ UNCHANGED <<inRange, findings, found, foundRows>> /\ scans' \in Nat
    BY <1>1 DEF HearDiscover
  <2>2. CASE ignored'
    BY <1>1, <2>1, <2>2 DEF HearDiscover
  <2>3. CASE ~ ignored'
    <3>1. /\ requests' = requests + 1 /\ requests' \in 1..MaxDiscoveries
          /\ devices' = [devices EXCEPT ![requests + 1] = {}]
      BY <1>1, <2>3, DiscoveryAssumption DEF HearDiscover, Discover
    <3>2. devices' \in [Sessions -> SUBSET Devices] /\ devices'[requests'] = {}
      BY <3>1 DEF Sessions
    <3> QED
      BY <2>1, <3>1, <3>2
  <2> QED
    BY <2>2, <2>3
<1>2. CASE RangeChanges
  <2>1. inRange' \subseteq Devices
    BY <1>2 DEF RangeChanges
  <2> QED
    BY <1>2, <2>1 DEF RangeChanges
<1>3. ASSUME NEW s \in Sessions, PollDevices(s) PROVE ScanInv'
  <2> DEFINE new == inRange \ devices[s]
  <2>1. PICK n \in SetToSeqs(new) : findings' = findings \o n
    BY <1>3 DEF PollDevices
  <2>2. IsFiniteSet(new) /\ new \subseteq Devices
    BY DevicesAssumption, FS_Subset
  <2>3. n \in Seq(Devices) /\ ToSet(n) = new
    <3>1. n \in Seq(new) /\ ToSet(n) = new
      BY <2>1, <2>2, EachIsNamed
    <3> HIDE DEF new
    <3> QED
      BY <2>2, <3>1, SeqMonotonic
  <2>4. findings' \in Seq(Devices) /\ ToSet(findings) \cup new \subseteq ToSet(findings')
    BY <2>1, <2>3, ToSetConcat
  <2>5. UNCHANGED <<inRange, scans, found, foundRows, ignored, requests>>
        /\ devices' = [devices EXCEPT ![s] = @ \cup new]
    BY <1>3 DEF PollDevices
  <2> HIDE DEF new
  <2>6. devices' \in [Sessions -> SUBSET Devices]
        /\ \A r \in Sessions : devices'[r] \subseteq devices[r] \cup new
    BY <2>2, <2>5
  <2>7. requests # 0 => requests \in Sessions
    BY DiscoveryAssumption DEF Sessions
  <2> QED
    BY <2>4, <2>5, <2>6, <2>7
<1> QED
  BY <1>1, <1>2, <1>3

\* The window.
LEMMA ScanShown ==
  ASSUME ScanInv, UNCHANGED side, ScanClicked \/ AddDevice \/ ChooseFound
  PROVE  ScanInv'
<1> USE DEF ScanInv, discovery
<1>1. CASE ScanClicked
  <2>1. foundRows' = <<>> /\ found' = {} /\ scans' \in Nat \ {0}
        /\ UNCHANGED <<requests, devices, inRange, findings>>
    BY <1>1 DEF ScanClicked, EmptyFound
  <2>2. ToSet(foundRows') = {} /\ foundRows' \in Seq(Devices)
    BY <2>1, EmptySeq DEF ToSet
  <2> QED
    BY <2>1, <2>2
<1>2. CASE AddDevice
  <2> PICK d : d = Head(findings)
    OBVIOUS
  <2>1. d \in Devices /\ findings' \in Seq(Devices) /\ ToSet(findings) = ToSet(findings') \cup {d}
    BY <1>2, ToSetTail, HeadTailProperties DEF AddDevice
  <2>2. found' = found \cup {d} /\ UNCHANGED <<requests, devices, inRange, scans, ignored>>
        /\ foundRows' = IF d \in found THEN foundRows ELSE Append(foundRows, d)
    BY <1>2 DEF AddDevice
  <2>3. foundRows' \in Seq(Devices) /\ ToSet(foundRows') = found'
    <3>1. CASE d \in found
      BY <2>2, <3>1
    <3>2. CASE d \notin found
      BY <2>1, <2>2, <3>2, ToSetAppend, AppendProperties
    <3> QED
      BY <3>1, <3>2
  <2> QED
    BY <2>1, <2>2, <2>3
<1>3. CASE ChooseFound
  BY <1>3 DEF ChooseFound
<1> QED
  BY <1>1, <1>2, <1>3

\* A session that is begun has found nothing yet, whichever side it is seen from.
LEMMA ScanKept == ScanInv /\ [Next]_vars => ScanInv'
<1> SUFFICES ASSUME ScanInv, [Next]_vars PROVE ScanInv'
  OBVIOUS
<1>1. UNCHANGED side
  BY DEF Next, vars
<1>2. CASE UNCHANGED <<scan, requests>>
  BY <1>1, <1>2 DEF ScanInv, scan
<1>3. CASE side # "scan" /\ UNCHANGED scan /\ Discover
  <2>1. requests' \in 0..MaxDiscoveries /\ requests' \in Sessions
    BY <1>3, DiscoveryAssumption DEF ScanInv, Discover, Sessions
  <2>2. devices[requests'] = {}
    BY <1>3, <2>1 DEF ScanInv
  <2> QED
    BY <1>1, <1>3, <2>1, <2>2 DEF ScanInv, scan
<1>4. CASE side = "scan" /\ ScanNext
  <2>1. CASE (ForeignDiscovery \/ \E s \in Sessions : SessionStep(s)) /\ UNCHANGED scan
    <3>1. UNCHANGED requests
      BY <2>1 DEF ForeignDiscovery, SessionStep, StartDiscovery, StartFails, EndPolling,
         StopDiscovery, Release, Complete
    <3> QED
      BY <1>2, <2>1, <3>1
  <2> QED
    BY <1>1, <1>4, <2>1, ScanManaged, ScanShown DEF ScanNext
<1>5. CASE side = "connections" /\ ConnectionsNext /\ UNCHANGED scan
  <2>1. Discover \/ UNCHANGED requests
    BY <1>5 DEF ConnectionsNext, discovery, ForeignDiscovery, SessionStep, StartDiscovery,
       StartFails, EndPolling, StopDiscovery, Release, Complete, ResetAdapter, StartAfterReset
  <2> QED
    BY <1>2, <1>3, <1>5, <2>1
<1> QED
  BY <1>2, <1>4, <1>5 DEF Next, vars, connections, discovery

-----------------------------------------------------------------------------
\* The window keeps up, WindowKeepsUp: when it has been told everything it lists only
\* paired devices and each device that the last search has found, and it offers to do
\* what can be done with the current row.
THEOREM WindowKeepsUpCorrect == Spec => []WindowKeepsUp
<1>1. Init => WindowInv /\ ScanInv
  <2> SUFFICES ASSUME Init PROVE WindowInv /\ ScanInv
    OBVIOUS
  <2>1. WindowInit /\ FoundInit /\ requests = 0
    BY DEF Init, DiscoveryInit
  <2>2. WindowInv
    BY <2>1, EmptySeq DEF WindowInit, WindowInv, NoRows, Offered
  <2>3. <<>> \in Seq(Devices) /\ ToSet(<<>>) = {}
    BY EmptySeq DEF ToSet
  <2>4. ScanInv
    BY <2>1, <2>3, DiscoveryAssumption DEF FoundInit, ScanInv
  <2> QED
    BY <2>2, <2>4
<1>2. WindowInv => WindowTellsThePaired
  <2> SUFFICES ASSUME WindowInv, news = <<>> PROVE DOMAIN listed \subseteq paired
    BY DEF WindowInv, WindowTellsThePaired
  <2>1. RemovedAfter(news, 0) = {}
    BY DEF RemovedAfter
  <2> QED
    BY <2>1 DEF WindowInv
<1>3. ScanInv => FoundAreListed
  <2>1. ToSet(<<>>) = {}
    BY DEF ToSet
  <2> QED
    BY <2>1 DEF ScanInv, FoundAreListed
<1>4. WindowInv /\ ScanInv => WindowKeepsUp
  BY <1>2, <1>3 DEF WindowKeepsUp
<1> QED
  BY <1>1, <1>4, WindowKept, ScanKept, PTL DEF Spec
=============================================================================
