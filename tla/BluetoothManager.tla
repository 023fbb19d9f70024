-------------------------- MODULE BluetoothManager --------------------------
(***************************************************************************)
(* v2/modules/bluetooth_manager with v2/modules/bluetooth_ui: the          *)
(* autoconnect loop, the connections the user asks for, the discovery of   *)
(* new devices and pairing, on one adapter, and the window of all that.    *)
(*                                                                         *)
(* Pairing shares no variable with the others, and the window only those   *)
(* of the paired devices.  A behaviour is seen from one of four sides: in  *)
(* the first what the user or another module asks for is heard in any      *)
(* order, in the last two it is asked for in the window.                   *)
(***************************************************************************)
EXTENDS FoundDevices, Pairing, BluetoothWindow

CONSTANT MaxRequests  \* of the user and of other programs, all together

ASSUME RequestsAssumption == MaxRequests \in Nat

VARIABLE side  \* "connections", "pairing", "window" or "scan"

connections == <<auto, discovery>>
vars == <<side, bluez, calls, connections, pairing, windows, scan>>

Init ==
  /\ side \in {"connections", "pairing", "window", "scan"}
  /\ DevicesInit /\ AutoconnectInit /\ DiscoveryInit /\ PairingInit /\ WindowInit
  /\ IF side = "scan" THEN FoundInit ELSE FoundInit /\ inRange = {}

\* bluez_adapter.py, reset(): what is connected is lost.
ResetAdapter(s) ==
  /\ StartAfterReset(s)
  /\ connected' = {}
  /\ UNCHANGED <<paired, calls, auto>>

WithinBounds ==
  starts + stops + asked + Cardinality(Devices \ paired) + requests + foreign
    <= MaxRequests

ConnectionsNext ==
  \/ DevicesNext /\ UNCHANGED <<auto, discovery>> /\ WithinBounds'
  \/ AutoconnectNext /\ UNCHANGED discovery /\ WithinBounds'
  \/ /\ Discover \/ ForeignDiscovery \/ \E s \in Sessions : SessionStep(s)
     /\ UNCHANGED <<bluez, calls, auto>> /\ WithinBounds'
  \/ \E s \in Sessions : ResetAdapter(s)

Next ==
  /\ UNCHANGED side
  /\ \/ side = "connections" /\ ConnectionsNext /\ UNCHANGED <<pairing, windows, scan>>
     \/ /\ side = "pairing" /\ PairingNext
        /\ UNCHANGED <<bluez, calls, connections, windows, scan>>
     \/ side = "window" /\ WindowNext /\ UNCHANGED <<connections, pairing, scan>>
     \/ side = "scan" /\ ScanNext /\ UNCHANGED <<bluez, calls, auto, pairing, windows>>

Spec == Init /\ [][Next]_vars

\* A step of the first side.
Step(A) == side = "connections" /\ A /\ UNCHANGED <<side, pairing, windows, scan>>

\* The threads are scheduled, and their waits end.  BlueZ may never reply.
Fairness ==
  /\ \A t \in Threads : WF_vars(Step(LoopStep(t) /\ UNCHANGED discovery))
  /\ \A c \in Callers :
       /\ WF_vars(Step(Watchdog(c) /\ UNCHANGED connections))
       /\ WF_vars(Step(ReplyReported(c) /\ UNCHANGED connections))
  /\ \A s \in Sessions : WF_vars(Step(SessionStep(s) /\ UNCHANGED <<bluez, calls, auto>>))

FairSpec == Spec /\ Fairness

-----------------------------------------------------------------------------
TypeOK ==
  /\ DevicesTypeOK /\ AutoconnectTypeOK /\ PairingTypeOK /\ WindowTypeOK
  /\ FoundTypeOK
  /\ clients \subseteq {"us", "other"} /\ requests \in 0..MaxDiscoveries
  /\ foreign \in 0..MaxForeign
  /\ failures \subseteq 1..requests
  /\ \A s \in Sessions :
       running[s] <=> session[s] \in {"starting", "polling", "stopping", "stopped"}

\* The window shows what it has been told of: the paired devices that there are,
\* and what the last search has found.
WindowKeepsUp == WindowTellsThePaired /\ FoundAreListed

\* "Stops when _autoconnect_stop is set": a loop that has been told to stop
\* ends, whatever is asked for meanwhile.
StopIsHeeded == stop /\ active ~> ~ active

\* "preventing the ~25 s native BlueZ timeout from stalling the caller": each
\* call is reported, even if BlueZ never replies.
CallsAreReported ==
  \A c \in Callers :
    side = "connections" /\ call[c].handler = "waiting" /\ call[c].reported = 0
      ~> call[c].reported # 0
=============================================================================
