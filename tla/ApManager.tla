----------------------------- MODULE ApManager -----------------------------
(***************************************************************************)
(* services/ap_manager_service/ap_manager_service.py: the root service     *)
(* that owns hostapd and dnsmasq, or joins the Wi-Fi network the head unit *)
(* is on.  One thread runs its D-Bus methods, one after the other.  Start  *)
(* takes seconds: SIGTERM may interrupt it between its commands.           *)
(*                                                                         *)
(* A start is known by its number: the key of the network is 1 for the     *)
(* first, 2 for the second.  The contents of the configuration files, the  *)
(* arguments of the commands and the DHCP leases are left out.             *)
(***************************************************************************)
EXTENDS Naturals, Sequences, FiniteSets

CONSTANTS
  MaxStarts, \* bound on the starts that get to choose a key
  Faults,    \* what may go wrong
  MaxFaults  \* bound on the kinds of faults in one behaviour

FaultKinds ==
  { "refused", "fails",   \* PolicyKit or the configuration; a daemon
    "timeout",            \* a command takes longer than _run() waits for it
    "dies",               \* a daemon exits later on
    "slow",               \* the caller gives up before the reply
    "sigterm" }           \* the service is stopped by systemd

ASSUME StartsAssumption == MaxStarts \in Nat \ {0}
ASSUME FaultsAssumption == Faults \subseteq FaultKinds /\ MaxFaults \in Nat

Keys == 1 .. MaxStarts
None == 0               \* no configuration, no parameters
Blank == MaxStarts + 1  \* the parameters of a service that is not running

VARIABLES
  mode,    \* _mode
  key,     \* the key in _cfg, None when _cfg is None
  hostapd, dnsmasq,  \* the two processes: "none", "alive" or "dead"
  managed, \* NetworkManager has the interface
  spc,     \* where the service thread is in Start()
  call,    \* the method the client waits for
  reply,   \* what it returned
  signals, \* D-Bus signals on their way to hostapd_helper
  gone,    \* the service: "no", "asked" by SIGTERM, or "yes"
  starts,  \* keys chosen so far
  trouble  \* the faults that have happened

runner == <<mode, key, hostapd, dnsmasq, managed>>
dbus   == <<call, reply, signals>>
apVars == <<runner, dbus, spc, gone, starts, trouble>>

ApInit ==
  /\ mode = "none" /\ key = None
  /\ hostapd = "none" /\ dnsmasq = "none"
  /\ managed = TRUE
  /\ spc = "idle" /\ call = "none" /\ reply = "none" /\ signals = <<>>
  /\ gone = "no" /\ starts = 0 /\ trouble = {}

Trouble(kind) ==
  /\ kind \in Faults /\ Cardinality(trouble \cup {kind}) <= MaxFaults
  /\ trouble' = trouble \cup {kind}

\* is_running()
Running ==
  IF mode = "join" THEN key # None
                   ELSE hostapd = "alive" /\ dnsmasq = "alive"

\* The service answers a Status() call: it is neither busy nor gone.
Answers == spc = "idle" /\ gone = "no"

\* get_params(), get_key(): blank unless a configuration is set.
Params == IF key = None THEN Blank ELSE key

\* What Status() tells of the network.
StatusKey == IF Running THEN Params ELSE Blank

\* _kill_proc(): whatever the process was, it is gone and forgotten.
KillProcs == hostapd' = "none" /\ dnsmasq' = "none"

\* _restore_interface(), _set_nm_managed(TRUE), _nm_reconnect(): of the
\* interface in _cfg, when there is one.
RestoreInterface == managed' = (managed \/ key # None)

ResetState == mode' = "none" /\ key' = None

\* _APRunner.stop()
RunnerStop ==
  /\ IF mode = "join"
       THEN UNCHANGED <<hostapd, dnsmasq, managed>>
       ELSE KillProcs /\ RestoreInterface
  /\ ResetState

\* The daemons that cleanup finds by their command line.
Killed(daemon) == IF daemon = "alive" THEN "dead" ELSE daemon

\* The signals of a method: APStarted, APStopped, APFailed.
Emit(sent) == signals' = signals \o sent

Return(result, sent) ==
  /\ call' = "none"
  /\ reply' = IF call = "none" THEN reply ELSE result
  /\ Emit(sent)
  /\ spc' = "idle"

-----------------------------------------------------------------------------
(* Start()                                                                 *)

\* _polkit_check() and _config_from_dbus_dict() raise.
NotAuthorised == Trouble("refused")
BadConfig     == Trouble("refused")

\* Not authorised, already running, or a bad configuration.
StartRefused ==
  /\ call = "start" /\ Answers
  /\ \/ Running /\ Return("already", <<>>) /\ UNCHANGED trouble
     \/ (NotAuthorised \/ (~ Running /\ BadConfig)) /\ Return("error", <<>>)
  /\ UNCHANGED <<runner, gone, starts>>

\* Whether the head unit is on a Wi-Fi network, has an address on it and knows
\* its key: _detect_existing_wifi(), _get_iface_ip(), _get_wifi_psk().
OnUsableNetwork == BOOLEAN

\* _start_join_network(): that network is the one for the phone.
JoinNetwork ==
  /\ mode' = "join" /\ key' = starts'
  /\ Return("ok", <<"started">>)
  /\ UNCHANGED <<hostapd, dnsmasq, managed>>

\* _release_interface(), _configure_interface(): NetworkManager loses it.
TakeInterface == managed' = FALSE

\* _start_ap() up to the daemons: a new key, stale daemons killed, the
\* interface taken.
BeginAp ==
  /\ key' = starts'
  /\ hostapd' = Killed(hostapd) /\ dnsmasq' = Killed(dnsmasq)
  /\ TakeInterface
  /\ spc' = "hostapd"
  /\ UNCHANGED <<mode, dbus>>

\* _generate_key(), or the key of the network that is joined.
NewKey == starts < MaxStarts /\ starts' = starts + 1

StartNetwork ==
  /\ call = "start" /\ Answers /\ ~ Running
  /\ NewKey
  /\ \E usable \in OnUsableNetwork : IF usable THEN JoinNetwork ELSE BeginAp
  /\ UNCHANGED <<gone, trouble>>

StartHostapd ==
  /\ spc = "hostapd"
  /\ hostapd' = "alive"
  /\ spc' = "dnsmasq"
  /\ UNCHANGED <<mode, key, dnsmasq, managed, dbus, gone, starts, trouble>>

StartDnsmasq ==
  /\ spc = "dnsmasq"
  /\ dnsmasq' = "alive"
  /\ mode' = "ap"
  /\ Return("ok", <<"started">>)
  /\ UNCHANGED <<key, hostapd, managed, gone, starts, trouble>>

\* Fault: a failed start leaves behind what it has set up.
StartFailsUnclean ==
  /\ spc \in {"hostapd", "dnsmasq"}
  /\ Trouble("fails")
  /\ Return("error", <<"failed">>)
  /\ UNCHANGED <<runner, gone, starts>>

\* RuntimeError: the daemon is missing or exits at once.
StartFails ==
  /\ spc \in {"hostapd", "dnsmasq"}
  /\ Trouble("fails")
  /\ RunnerStop
  /\ Return("error", <<"failed">>)
  /\ UNCHANGED <<gone, starts>>

\* TimeoutExpired is no RuntimeError: no clean-up and no signal.
StartTimesOut ==
  /\ spc = "hostapd"
  /\ Trouble("timeout")
  /\ Return("error", <<>>)
  /\ UNCHANGED <<runner, gone, starts>>

-----------------------------------------------------------------------------
(* Stop(), SIGTERM and the end of a daemon.                                *)

Stop ==
  /\ call = "stop" /\ Answers
  /\ \/ ~ Running /\ Return("error", <<>>) /\ UNCHANGED <<runner, trouble>>
     \/ NotAuthorised /\ Return("error", <<>>) /\ UNCHANGED runner
     \/ /\ Running /\ RunnerStop
        /\ Return("ok", <<"stopped">>)
        /\ UNCHANGED trouble
  /\ UNCHANGED <<gone, starts>>

\* _on_sigterm(): an access point that is still starting is not running.
Sigterm ==
  /\ gone = "no" /\ "sigterm" \in Faults /\ Cardinality(trouble) < MaxFaults
  /\ gone' = "asked"
  /\ IF Running THEN RunnerStop ELSE UNCHANGED runner
  /\ trouble' = trouble \cup
       (IF spc = "idle" THEN {"sigterm"} ELSE {"sigterm", "interrupted"})
  /\ UNCHANGED <<dbus, spc, starts>>

\* The main loop ends once the method that runs has returned.
Quit ==
  /\ gone = "asked" /\ spc = "idle"
  /\ gone' = "yes"
  /\ UNCHANGED <<runner, dbus, spc, starts, trouble>>

\* Nobody answers a service that is gone.
Unanswered ==
  /\ call # "none" /\ gone = "yes"
  /\ Return("error", <<>>)
  /\ UNCHANGED <<runner, gone, starts, trouble>>

\* The D-Bus call of the client times out; the service goes on.
GivesUp ==
  /\ call = "start" /\ spc # "idle"
  /\ Trouble("slow")
  /\ call' = "none" /\ reply' = "error"
  /\ UNCHANGED <<runner, spc, signals, gone, starts>>

\* One of the daemons of a running access point exits; the other one stays, and
\* nobody is told.
DaemonDies ==
  /\ hostapd = "alive" /\ dnsmasq = "alive"
  /\ \/ hostapd' = "dead" /\ UNCHANGED dnsmasq
     \/ dnsmasq' = "dead" /\ UNCHANGED hostapd
  /\ Trouble("dies")
  /\ UNCHANGED <<mode, key, managed, spc, dbus, gone, starts>>

ApStep ==
  \/ StartRefused \/ StartNetwork \/ StartHostapd \/ StartDnsmasq
  \/ Stop \/ Quit \/ Unanswered

ApFault ==
  StartFails \/ StartTimesOut \/ Sigterm \/ GivesUp \/ DaemonDies

ApTypeOK ==
  /\ mode \in {"none", "ap", "join"}
  /\ key \in Keys \cup {None}
  /\ hostapd \in {"none", "alive", "dead"}
  /\ dnsmasq \in {"none", "alive", "dead"}
  /\ managed \in BOOLEAN
  /\ spc \in {"idle", "hostapd", "dnsmasq"}
  /\ call \in {"none", "start", "stop"}
  /\ reply \in {"none", "ok", "already", "error"}
  /\ signals \in Seq({"started", "stopped", "failed"})
  /\ gone \in {"no", "asked", "yes"}
  /\ starts \in 0 .. MaxStarts
  /\ trouble \subseteq FaultKinds \cup {"interrupted", "unheard"}

\* Nothing of an access point is left: no daemon runs and NetworkManager has
\* the interface back.
Clean == hostapd # "alive" /\ dnsmasq # "alive" /\ managed
=============================================================================
