-------------------------- MODULE FoundDevices ------------------------------
(***************************************************************************)
(* v2/modules/bluetooth_manager/discovery.py: DiscoverySession, a thread   *)
(* that makes BlueZ look for devices for some time, and on_discover() of   *)
(* main.py, which starts one unless the last one is running.               *)
(*                                                                         *)
(* Other programs discover devices through BlueZ, too, and the adapter is  *)
(* discovering as long as one of them does.                                *)
(***************************************************************************)
EXTENDS PairedDevices, Sequences, SequencesExt

CONSTANTS
  MaxDiscoveries,  \* sessions
  MaxForeign       \* discoveries of other programs

ASSUME DiscoveryAssumption == {MaxDiscoveries, MaxForeign} \subseteq Nat

Sessions == 1..MaxDiscoveries

VARIABLES
  session,     \* where the thread of each session is
  running,     \* _running of each session
  requests,    \* sessions begun
  clients,     \* who makes the adapter discover
  foreign,     \* times another program has begun to
  failures     \* sessions whose StartDiscovery has failed

discovery == <<session, running, requests, clients, foreign, failures>>

DiscoveryInit ==
  /\ session = [s \in Sessions |-> "none"] /\ running = [s \in Sessions |-> FALSE]
  /\ requests = 0 /\ clients = {} /\ foreign = 0
  /\ failures = {}

\* BlueZ: the property Discovering.
IsDiscovering == clients # {}

\* DiscoverySession.start(): a thread of its own.
Begin(s) ==
  /\ session' = [session EXCEPT ![s] = "starting"]
  /\ running' = [running EXCEPT ![s] = TRUE]

\* on_discover(): a new session, unless _discovery, the last one, is running.
Discover ==
  /\ requests < MaxDiscoveries
  /\ requests # 0 => ~ running[requests]
  /\ requests' = requests + 1
  /\ Begin(requests + 1)
  /\ UNCHANGED <<clients, foreign, failures>>

\* _start_discovery(): nothing to do if the adapter is discovering.
StartDiscovery(s) ==
  /\ session[s] = "starting"
  /\ session' = [session EXCEPT ![s] = "polling"]
  /\ clients' = IF IsDiscovering THEN clients ELSE clients \cup {"us"}
  /\ UNCHANGED <<running, requests, foreign, failures>>

\* StartDiscovery fails: polled all the same.
StartFails(s) ==
  /\ session[s] = "starting" /\ ~ IsDiscovering
  /\ session' = [session EXCEPT ![s] = "polling"]
  /\ failures' = failures \cup {s}
  /\ UNCHANGED <<running, requests, clients, foreign>>

\* StartDiscovery says InProgress though nothing is: the adapter is turned off
\* and on, and asked again.
StartAfterReset(s) ==
  /\ session[s] = "starting" /\ ~ IsDiscovering
  /\ session' = [session EXCEPT ![s] = "polling"]
  /\ clients' = {"us"}
  /\ UNCHANGED <<running, requests, foreign, failures>>

\* The deadline is over.
Finished(s) ==
  /\ session' = [session EXCEPT ![s] = "stopping"]
  /\ UNCHANGED running

EndPolling(s) ==
  /\ session[s] = "polling"
  /\ Finished(s)
  /\ UNCHANGED <<requests, clients, foreign, failures>>

\* _stop_discovery(): BlueZ refuses, and nothing more, if it was not us.
StopDiscovery(s) ==
  /\ session[s] = "stopping"
  /\ session' = [session EXCEPT ![s] = "stopped"]
  /\ clients' = clients \ {"us"}
  /\ UNCHANGED <<running, requests, foreign, failures>>

Release(s) ==
  /\ session[s] = "stopped"
  /\ session' = [session EXCEPT ![s] = "released"]
  /\ running' = [running EXCEPT ![s] = FALSE]
  /\ UNCHANGED <<requests, clients, foreign, failures>>

\* bluetooth_manager.discovery.completed is published.
Complete(s) ==
  /\ session[s] = "released"
  /\ session' = [session EXCEPT ![s] = "done"]
  /\ UNCHANGED <<running, requests, clients, foreign, failures>>

\* Another program begins or ends a discovery.
ForeignDiscovery ==
  \/ /\ foreign < MaxForeign /\ "other" \notin clients
     /\ foreign' = foreign + 1 /\ clients' = clients \cup {"other"}
     /\ UNCHANGED <<session, running, requests, failures>>
  \/ /\ "other" \in clients
     /\ clients' = clients \ {"other"}
     /\ UNCHANGED <<session, running, requests, foreign, failures>>

SessionStep(s) ==
  \/ StartDiscovery(s) \/ StartFails(s) \/ EndPolling(s) \/ StopDiscovery(s)
  \/ Release(s) \/ Complete(s)

-----------------------------------------------------------------------------
(***************************************************************************)
(* The devices that a discovery finds: DiscoverySession polls BlueZ for    *)
(* them (discovery.py), bluetooth_manager publishes each of them once per  *)
(* session, and the window of bluetooth_ui lists them until the next       *)
(* search.  Both modules have started.                                     *)
(*                                                                         *)
(* The window empties its list before the request is sent; the manager     *)
(* ignores the request while a session is running.                         *)
(***************************************************************************)
CONSTANT MaxScans  \* searches the user asks for

ASSUME ScansAssumption == MaxScans \in Nat

VARIABLES
  inRange,    \* devices BlueZ has an object for
  devices,    \* _devices of each session
  scans,      \* bluetooth_manager.discover on its way
  findings,   \* bluetooth_manager.device.found, up to the Qt thread
  found,      \* _devices of the window, and the rows of its list
  foundRows,
  chosen,     \* the current row
  pairOffered,\* the button is enabled
  scanClicks,
  \* No state of the program:
  ignored     \* the request for the list that is shown was ignored

scan == <<inRange, devices, scans, findings, found, foundRows, chosen, pairOffered,
          scanClicks, ignored>>

FoundInit ==
  /\ inRange \in SUBSET Devices /\ devices = [s \in Sessions |-> {}]
  /\ scans = 0 /\ findings = <<>>
  /\ found = {} /\ foundRows = <<>> /\ chosen = Nobody /\ pairOffered = FALSE
  /\ scanClicks = 0 /\ ignored = FALSE

-----------------------------------------------------------------------------
(* bluetooth_manager.                                                      *)

\* on_discover()
HearDiscover ==
  /\ scans > 0 /\ scans' = scans - 1
  /\ \/ Discover /\ devices' = [devices EXCEPT ![requests + 1] = {}] /\ ignored' = FALSE
     \/ /\ requests # 0 /\ running[requests]
        /\ ignored' = TRUE /\ UNCHANGED <<devices, discovery>>
  /\ UNCHANGED <<inRange, findings, found, foundRows, chosen, pairOffered, scanClicks>>

\* _poll_devices(), and on_device_cb for what it has found since the last time.
PollDevices(s) ==
  /\ session[s] = "polling"
  /\ LET new == inRange \ devices[s] IN
       /\ new # {}
       /\ devices' = [devices EXCEPT ![s] = @ \cup new]
       /\ \E news \in SetToSeqs(new) : findings' = findings \o news
  /\ UNCHANGED <<inRange, scans, found, foundRows, chosen, pairOffered, scanClicks,
                 ignored, discovery>>

\* BlueZ comes to know a device, or drops one, while it discovers.
RangeChanges ==
  /\ IsDiscovering
  /\ \E d \in Devices :
       inRange' = IF d \in inRange THEN inRange \ {d} ELSE inRange \cup {d}
  /\ UNCHANGED <<devices, scans, findings, found, foundRows, chosen, pairOffered,
                 scanClicks, ignored, discovery>>

-----------------------------------------------------------------------------
(* bluetooth_ui.                                                           *)

\* Fault: only the rows go, and what has been found is not shown again.
RowsEmptied == foundRows' = <<>> /\ UNCHANGED found

EmptyFound == foundRows' = <<>> /\ found' = {}

\* _on_scan_clicked()
ScanClicked ==
  /\ scanClicks < MaxScans /\ scanClicks' = scanClicks + 1
  /\ EmptyFound /\ chosen' = Nobody /\ pairOffered' = FALSE
  /\ scans' = scans + 1
  /\ UNCHANGED <<inRange, devices, findings, ignored, discovery>>

\* add_device()
AddDevice ==
  /\ findings # <<>> /\ findings' = Tail(findings)
  /\ LET d == Head(findings) IN
       /\ found' = found \cup {d}
       /\ foundRows' = IF d \in found THEN foundRows ELSE Append(foundRows, d)
  /\ UNCHANGED <<inRange, devices, scans, chosen, pairOffered, scanClicks, ignored,
                 discovery>>

\* _on_selection_changed()
ChooseFound ==
  /\ chosen' \in ToSet(foundRows) \ {chosen}
  /\ pairOffered' = TRUE
  /\ UNCHANGED <<inRange, devices, scans, findings, found, foundRows, scanClicks,
                 ignored, discovery>>

ScanNext ==
  \/ HearDiscover \/ RangeChanges \/ ScanClicked \/ AddDevice \/ ChooseFound
  \/ \E s \in Sessions : PollDevices(s)
  \/ /\ ForeignDiscovery \/ \E s \in Sessions : SessionStep(s)
     /\ UNCHANGED scan

-----------------------------------------------------------------------------
FoundTypeOK ==
  /\ devices \in [Sessions -> SUBSET Devices]
  /\ found = ToSet(foundRows) /\ IsInjective(foundRows)
  /\ chosen \in ToSet(foundRows) \cup {Nobody}
  /\ pairOffered = (chosen # Nobody)

\* Once everything has arrived the window lists each device that the last search
\* has found, in however many sessions the others were found before, and whatever
\* the user has asked for meanwhile, unless that request was ignored.
FoundAreListed ==
  scans = 0 /\ findings = <<>> /\ ~ ignored /\ requests # 0
    => devices[requests] \subseteq ToSet(foundRows)
=============================================================================
