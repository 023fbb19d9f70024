------------------------------ MODULE Pairing ------------------------------
(***************************************************************************)
(* v2/modules/bluetooth_manager/pairing.py: PairingAgent, the dialog of    *)
(* v2/modules/bluetooth_ui that shows its passkey, and BlueZ as it calls   *)
(* the agent.                                                              *)
(*                                                                         *)
(* Three threads meet in the agent: BlueZ's calls run in the GLib thread,  *)
(* the handlers of bluetooth_manager.pair and .confirm_pairing in the bus  *)
(* thread, and each confirmation has a thread of its own that waits for    *)
(* the user and answers BlueZ.  They share one event, one flag and one     *)
(* pair of D-Bus callbacks, without a lock.                                *)
(***************************************************************************)
EXTENDS PairedDevices, Sequences, SequencesExt

CONSTANTS
  MaxConfirmations,  \* confirmations BlueZ asks for
  MaxPairs,          \* pairings the user asks for
  MaxCancels         \* confirmations BlueZ takes back

ASSUME BoundsAssumption == {MaxConfirmations, MaxPairs, MaxCancels} \subseteq Nat

Confirmations == 1..MaxConfirmations
VARIABLES
  \* PairingAgent
  address,   \* _pending_address
  pin,       \* _pending_pin: the request whose passkey it is, or 0
  event,     \* _confirm_event is set
  accepted,  \* _confirm_accepted
  handlers,  \* the request the stored callbacks answer, or 0
  worker,    \* where the thread of each confirmation is
  taken,     \* the callbacks it has read
  \* BlueZ
  device,    \* the device of each request
  asking,    \* the request BlueZ waits to be answered, or 0
  pairCalls, \* devices with a Pair() call under way
  answers,   \* what each request has been answered
  \* bluetooth_ui and the bus
  dialogs,   \* what is on the screen, the last on top: the passkey of a request,
             \* or 0 for the outcome of a pairing; each is modal
  confirms,  \* bluetooth_manager.confirm_pairing on its way
  pairs, cancels,
  \* No state of the program:
  entangled, \* a pairing was begun while a confirmation was under way
  reasons    \* <<r, why>>: what has been said about request r

agent == <<address, pin, event, accepted, handlers>>
workers == <<worker, taken>>
bluezPairing == <<device, asking, pairCalls, answers>>
screen == <<dialogs, confirms>>
counters == <<pairs, cancels>>
history == <<entangled, reasons>>
pairing == <<agent, workers, bluezPairing, screen, counters, history>>

PairingInit ==
  /\ address = Nobody /\ pin = 0 /\ event = FALSE /\ accepted = FALSE
  /\ handlers = 0
  /\ worker = [r \in Confirmations |-> "none"] /\ taken = [r \in Confirmations |-> 0]
  /\ device = <<>> /\ asking = 0 /\ pairCalls = {}
  /\ answers = [r \in Confirmations |-> <<>>]
  /\ dialogs = <<>> /\ confirms = <<>>
  /\ pairs = 0 /\ cancels = 0
  /\ entangled = FALSE /\ reasons = {}

UnderWay == \E r \in Confirmations : worker[r] \notin {"none", "done"}

\* Event.set(): who waits is woken, even if the event is cleared at once.
SetEvent ==
  /\ event' = TRUE
  /\ worker' = [r \in Confirmations |->
                  IF worker[r] = "waiting" THEN "confirmed" ELSE worker[r]]

-----------------------------------------------------------------------------
(* The bus thread.                                                         *)

\* pair(): the agent is reset, then Device1.Pair() is called.
Pair(d) ==
  /\ pairs < MaxPairs /\ d \notin pairCalls
  /\ pairs' = pairs + 1
  /\ address' = d /\ pin' = 0 /\ event' = FALSE /\ accepted' = FALSE
  /\ pairCalls' = pairCalls \cup {d}
  /\ entangled' = (entangled \/ UnderWay)
  /\ UNCHANGED <<handlers, workers, device, asking, answers, screen, cancels,
                 reasons>>

\* on_pairing_completed() and on_pairing_failed() of the window, for a call of ours.
ShowOutcome(d) == dialogs' = IF d \in pairCalls THEN Append(dialogs, 0) ELSE dialogs

\* pair() finds no such device: bluetooth_manager.pairing.failed.
PairUnknown(d) ==
  /\ pairs < MaxPairs /\ d \notin pairCalls
  /\ pairs' = pairs + 1
  /\ address' = d /\ pin' = 0 /\ event' = FALSE /\ accepted' = FALSE
  /\ dialogs' = Append(dialogs, 0)
  /\ entangled' = (entangled \/ UnderWay)
  /\ UNCHANGED <<handlers, workers, bluezPairing, confirms, cancels, reasons>>

\* confirm() for the passkey of request r.
Confirmed(r) ==
  /\ device[r] = address
  /\ accepted' = (pin = r)
  /\ SetEvent
  /\ reasons' = reasons \cup {<<pin, IF pin = r THEN "user" ELSE "mismatch">>}

ConfirmIgnored(r) ==
  /\ device[r] # address
  /\ UNCHANGED <<accepted, event, worker, reasons>>

Confirm ==
  /\ confirms # <<>>
  /\ confirms' = Tail(confirms)
  /\ Confirmed(Head(confirms)) \/ ConfirmIgnored(Head(confirms))
  /\ UNCHANGED <<address, pin, handlers, taken, bluezPairing, dialogs, counters,
                 entangled>>

-----------------------------------------------------------------------------
(* The GLib thread.                                                        *)

\* Fault: what the event was set to for the last request is kept.
ResetNothing == UNCHANGED <<event, accepted>>

\* _handle_confirm_request()
ResetForRequest == event' = FALSE /\ accepted' = FALSE

\* A thread of its own runs _confirm_worker().
StartWorker(r) == worker' = [worker EXCEPT ![r] = "started"]

\* Agent1.RequestConfirmation, for a Pair() of ours or one the phone has begun.
RequestConfirmation(d) ==
  LET r == Len(device) + 1 IN
    /\ r \in Confirmations /\ asking = 0
    /\ device' = Append(device, d)
    /\ asking' = r
    /\ address' = d /\ pin' = r
    /\ ResetForRequest
    /\ handlers' = r
    /\ StartWorker(r)
    /\ dialogs' = Append(dialogs, r)
    /\ entangled' = (entangled \/ UnderWay)
    /\ UNCHANGED <<taken, pairCalls, answers, confirms, counters, reasons>>

\* Agent1.Cancel: the phone has gone, or BlueZ has waited for too long.
Cancel ==
  /\ asking # 0 /\ cancels < MaxCancels
  /\ cancels' = cancels + 1
  /\ accepted' = FALSE
  /\ SetEvent
  /\ asking' = 0
  /\ pairCalls' = pairCalls \ {device[asking]}
  /\ ShowOutcome(device[asking])
  /\ reasons' = reasons \cup {<<asking, "cancel">>}
  /\ UNCHANGED <<address, pin, handlers, taken, device, answers, confirms, pairs,
                 entangled>>

\* BlueZ has its answer: the pairing of that device ends, _pair_reply_handler()
\* or _pair_error_handler() is called for a call of ours.
Answered ==
  /\ asking # 0 /\ answers[asking] # <<>>
  /\ asking' = 0
  /\ pairCalls' = pairCalls \ {device[asking]}
  /\ ShowOutcome(device[asking])
  /\ UNCHANGED <<agent, workers, device, answers, confirms, counters, history>>

\* Pair() ends without a confirmation: it fails, or there is nothing to confirm.
PairReturns(d) ==
  /\ d \in pairCalls /\ (asking # 0 => device[asking] # d)
  /\ pairCalls' = pairCalls \ {d}
  /\ ShowOutcome(d)
  /\ UNCHANGED <<agent, workers, device, asking, answers, confirms, counters,
                 history>>

-----------------------------------------------------------------------------
(* The thread of a confirmation, _confirm_worker().                        *)

Wait(r) ==
  /\ worker[r] = "started"
  /\ worker' = [worker EXCEPT ![r] = IF event THEN "confirmed" ELSE "waiting"]
  /\ UNCHANGED <<agent, taken, bluezPairing, screen, counters, history>>

\* AUTO_ACCEPT_TIMEOUT_S is over.
TimeOut(r) ==
  /\ worker[r] = "waiting"
  /\ worker' = [worker EXCEPT ![r] = "timed out"]
  /\ reasons' = reasons \cup {<<r, "time">>}
  /\ UNCHANGED <<agent, taken, bluezPairing, screen, counters, entangled>>

\* The stored callbacks are read ...
Take(r) ==
  /\ worker[r] \in {"confirmed", "timed out"}
  /\ taken' = [taken EXCEPT ![r] = handlers]
  /\ worker' = [worker EXCEPT ![r] =
                  IF @ = "confirmed" THEN "taken" ELSE "taken late"]
  /\ UNCHANGED <<agent, bluezPairing, screen, counters, history>>

\* ... and removed, and without an answer of the user the passkey is accepted.
Decide(r) ==
  /\ worker[r] \in {"taken", "taken late"}
  /\ handlers' = 0
  /\ accepted' = (accepted \/ worker[r] = "taken late")
  /\ worker' = [worker EXCEPT ![r] = "decided"]
  /\ UNCHANGED <<address, pin, event, taken, bluezPairing, screen, counters, history>>

\* reply_handler() or error_handler(), if there are any.
Answer(r) ==
  /\ worker[r] = "decided"
  /\ worker' = [worker EXCEPT ![r] = "done"]
  /\ IF taken[r] = 0
       THEN UNCHANGED answers
       ELSE answers' = [answers EXCEPT ![taken[r]] =
                          Append(@, IF accepted THEN "accepted" ELSE "rejected")]
  /\ UNCHANGED <<agent, taken, device, asking, pairCalls, screen, counters, history>>

-----------------------------------------------------------------------------
(* The user, in the dialog of bluetooth_ui that is on top.                 *)

OnTop(r) == dialogs # <<>> /\ Last(dialogs) = r /\ dialogs' = Front(dialogs)

DialogAccepted(r) ==
  /\ OnTop(r)
  /\ confirms' = Append(confirms, r)
  /\ UNCHANGED <<agent, workers, bluezPairing, counters, history>>

\* The dialog says that the pairing is called off, and tells nobody.
DialogCancelled(r) ==
  /\ OnTop(r)
  /\ UNCHANGED <<agent, workers, bluezPairing, confirms, counters, history>>

OutcomeSeen ==
  /\ OnTop(0)
  /\ UNCHANGED <<agent, workers, bluezPairing, confirms, counters, history>>

-----------------------------------------------------------------------------
PairingBusThread == Confirm \/ \E d \in Devices : Pair(d) \/ PairUnknown(d)
AgentCalled == Cancel \/ \E d \in Devices : RequestConfirmation(d)
PairingGLibThread == AgentCalled \/ Answered \/ \E d \in Devices : PairReturns(d)
Worker(r) == Wait(r) \/ TimeOut(r) \/ Take(r) \/ Decide(r) \/ Answer(r)
User(r) == DialogAccepted(r) \/ DialogCancelled(r)

PairingNext ==
  \/ PairingBusThread \/ PairingGLibThread \/ OutcomeSeen
  \/ \E r \in Confirmations : Worker(r) \/ User(r)

-----------------------------------------------------------------------------
PairingTypeOK ==
  /\ address \in Devices \cup {Nobody} /\ pin \in Confirmations \cup {0}
  /\ event \in BOOLEAN /\ accepted \in BOOLEAN
  /\ handlers \in 0..Len(device)
  /\ device \in Seq(Devices) /\ asking \in 0..Len(device)
  /\ pairCalls \subseteq Devices
  /\ dialogs \in Seq(0..Len(device))
  /\ \A r \in Confirmations :
       /\ worker[r] # "none" <=> r \in DOMAIN device
       /\ taken[r] \in 0..Len(device)
       /\ answers[r] # <<>> => r \in DOMAIN device

Accepted(r) == \E i \in DOMAIN answers[r] : answers[r][i] = "accepted"
Refused(r)  == \E i \in DOMAIN answers[r] : answers[r][i] = "rejected"

\* A request is answered once; with yes because the user confirmed its passkey
\* or the time was over; with no because the user confirmed another one, or
\* BlueZ had taken it back.  That holds as long as no pairing is begun and no
\* confirmation asked for before the last one is done.
AnsweredForAReason ==
  ~ entangled =>
    \A r \in Confirmations :
      /\ Len(answers[r]) <= 1
      /\ Accepted(r) => <<r, "user">> \in reasons \/ <<r, "time">> \in reasons
      /\ Refused(r) =>
           <<r, "mismatch">> \in reasons \/ <<r, "cancel">> \in reasons
=============================================================================
