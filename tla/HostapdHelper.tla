--------------------------- MODULE HostapdHelper ---------------------------
(***************************************************************************)
(* v2/modules/hostapd_helper/main.py: for each RFCOMM connection it has    *)
(* the access point started, or announces again the one that runs.         *)
(*                                                                         *)
(* The bus thread makes the D-Bus calls; the GLib thread handles the       *)
(* signals, and calls Status() too.  Both write _ap_ready_params.          *)
(***************************************************************************)
EXTENDS ApManager, WifiTopics

VARIABLES
  params, \* _ap_ready_params: None or the key in it
  hpc,    \* where the bus thread is
  gpc     \* the key Status() has told the GLib thread in APStarted, or None

helperVars == <<params, hpc, gpc>>

HelperInit == params = None /\ hpc = "boot" /\ gpc = None

HGoto(where) == hpc' = where

\* _DBusAPClient.is_running(): a Status() call that fails or times out counts as
\* a service that is not running.
IsRunning(so) ==
  \/ (Answers \/ gone = "yes") /\ so = (Answers /\ Running) /\ UNCHANGED trouble
  \/ ~ Answers /\ Trouble("slow") /\ so = FALSE

\* _DBusAPClient.start(), stop(): the call is made, and waited for.
Calls(method) == call' = method /\ reply' = "none"

\* _DBusAPClient.status() returns the key, or raises for a service that is gone.
StatusReturns == Answers
StatusRaises  == gone = "yes"

\* _ensure_dbus(): the GLib thread that dispatches what is subscribed to.
GLibLoop == {"signals"}

\* _subscribe_dbus_signals()
HearSignals == "signals" \in subscribed

-----------------------------------------------------------------------------
(* The bus thread.                                                         *)

\* _on_config_loaded() with a configuration.
ConfigLoaded ==
  /\ hpc = "boot"
  /\ subscribed' = subscribed \cup GLibLoop \cup {"connected"}
  /\ HGoto("idle")
  /\ UNCHANGED <<apVars, connected, ready, notices, params, gpc>>

\* on_rfcomm_connected()
HandleConnected ==
  /\ hpc = "idle" /\ connected # <<>>
  /\ connected' = Tail(connected)
  /\ \E so \in BOOLEAN : IsRunning(so) /\ HGoto(IF so THEN "reuse" ELSE "start")
  /\ UNCHANGED <<runner, dbus, spc, gone, starts, ready, subscribed, notices,
                 params, gpc>>

\* The access point runs: announce what is known of it.
Reuse ==
  /\ hpc = "reuse"
  /\ IF params # None
       THEN PublishReady(params) /\ HGoto("idle")
       ELSE UNCHANGED <<ready, notices>> /\ HGoto("fetch")
  /\ UNCHANGED <<apVars, connected, subscribed, params, gpc>>

\* Nothing is known of it: client.status().
Fetch ==
  /\ hpc = "fetch"
  /\ \/ StatusReturns /\ PublishReady(StatusKey)
     \/ StatusRaises /\ Notice({"failed"}) /\ UNCHANGED ready
  /\ HGoto("idle")
  /\ UNCHANGED <<apVars, connected, subscribed, params, gpc>>

\* hostapd.starting, client.start().
CallStart ==
  /\ hpc = "start"
  /\ Calls("start")
  /\ HGoto("wait")
  /\ UNCHANGED <<runner, signals, spc, gone, starts, trouble, topics, params,
                 gpc>>

\* Start() returns or raises.  An access point that is already running is
\* announced as on a reconnection: on_rfcomm_connected() calls itself.
StartReturns ==
  /\ hpc = "wait" /\ reply # "none"
  /\ reply' = "none"
  /\ IF reply = "already"
       THEN \E so \in BOOLEAN :
              IsRunning(so) /\ HGoto(IF so THEN "reuse" ELSE "start")
       ELSE HGoto("idle") /\ UNCHANGED trouble
  /\ Notice(IF reply = "error" THEN {"failed"} ELSE {})
  /\ UNCHANGED <<runner, call, signals, spc, gone, starts, connected, ready,
                 subscribed, params, gpc>>

\* on_system_stop(): _teardown() forgets the parameters and asks is_running().
SystemStop ==
  /\ hpc = "idle"
  /\ params' = None
  /\ \E so \in BOOLEAN : IsRunning(so) /\ HGoto(IF so THEN "stop" ELSE "off")
  /\ UNCHANGED <<runner, dbus, spc, gone, starts, topics, gpc>>

CallStop ==
  /\ hpc = "stop"
  /\ Calls("stop")
  /\ HGoto("stopping")
  /\ UNCHANGED <<runner, signals, spc, gone, starts, trouble, topics, params,
                 gpc>>

StopReturns ==
  /\ hpc = "stopping" /\ reply # "none"
  /\ reply' = "none"
  /\ HGoto("off")
  /\ UNCHANGED <<runner, call, signals, spc, gone, starts, trouble, topics,
                 params, gpc>>

-----------------------------------------------------------------------------
(* The GLib thread.                                                        *)

\* _on_dbus_ap_started(): Status() for the key that the signal does not carry.
ApStarted ==
  /\ gpc = None /\ HearSignals /\ signals # <<>> /\ Head(signals) = "started"
  /\ signals' = Tail(signals)
  /\ \/ StatusReturns /\ gpc' = StatusKey /\ UNCHANGED notices
     \/ StatusRaises /\ Notice({"failed"}) /\ UNCHANGED gpc
  /\ UNCHANGED <<runner, call, reply, spc, gone, starts, trouble, connected,
                 ready, subscribed, params, hpc>>

\* Fault: the parameters are kept and not announced.
ApReadyUnsaid ==
  /\ gpc # None
  /\ params' = gpc /\ gpc' = None
  /\ UNCHANGED <<apVars, topics, hpc>>

\* The parameters are kept, and announced.
ApReady ==
  /\ gpc # None
  /\ params' = gpc /\ gpc' = None
  /\ PublishReady(gpc)
  /\ UNCHANGED <<apVars, connected, subscribed, hpc>>

\* _on_dbus_ap_stopped(), _on_dbus_ap_failed()
ApEnded ==
  /\ gpc = None /\ HearSignals /\ signals # <<>> /\ Head(signals) # "started"
  /\ signals' = Tail(signals)
  /\ params' = None
  /\ Notice(IF Head(signals) = "failed" THEN {"failed"} ELSE {})
  /\ UNCHANGED <<runner, call, reply, spc, gone, starts, trouble, connected,
                 ready, subscribed, hpc, gpc>>

HelperStep ==
  \/ ConfigLoaded \/ HandleConnected \/ Reuse \/ Fetch \/ CallStart
  \/ StartReturns \/ CallStop \/ StopReturns
  \/ ApStarted \/ ApReady \/ ApEnded

HelperTypeOK ==
  /\ params \in Keys \cup {None, Blank}
  /\ hpc \in {"boot", "idle", "reuse", "fetch", "start", "wait", "stop",
              "stopping", "off"}
  /\ gpc \in Keys \cup {None, Blank}
  /\ ready \in Seq(Keys \cup {Blank})
  /\ subscribed \subseteq {"signals", "connected", "ready"}
  /\ notices \subseteq {"failed", "unheard"}
=============================================================================
