-------------------------------- MODULE Boot --------------------------------
(***************************************************************************)
(* v2/main.py: the orchestrator launches the broker and the modules,       *)
(* starts them level by level and stops them again.  The main thread may   *)
(* be interrupted by a signal at any point; a request to shut down arrives *)
(* on the bus and is handled in a thread of its own.                       *)
(*                                                                         *)
(* Of a module there is what all modules/*/main.py do alike: announce      *)
(* themselves, start at their level, report system.ready, stop.  The bus   *)
(* delivers nothing to who has not subscribed.                             *)
(***************************************************************************)
EXTENDS Naturals, FiniteSets

CONSTANTS
  Modules,
  Priority,    \* PRIORITY of each module
  ConfigManager,   \* the module that answers config.get
  ChannelManager,  \* the module that reports channel_manager.stopped
  NeedsConfig, \* modules that report system.ready once they have their config
  Events       \* what may happen besides the plain course of a boot

EventKinds ==
  { "late",     \* a module is not up before the window of 20 s is over
    "crash",    \* a module ends by itself
    "signal",   \* SIGINT or SIGTERM
    "shutdown" } \* system.shutdown

ASSUME PriorityAssumption == Priority \in [Modules -> Nat]
ASSUME ManagersAssumption == {ConfigManager, ChannelManager} \subseteq Modules
ASSUME NeedsAssumption ==
  NeedsConfig \subseteq Modules \ {ConfigManager} /\ Events \subseteq EventKinds

Fallback == 1  \* the level of a module that has not been heard

VARIABLES
  main,      \* where the main thread is
  spawned,   \* the process just spawned and not yet in module_processes
  listed,    \* module_processes
  proc,      \* what each module's process has got to
  inbox,     \* levels of the system.start messages that wait, for each module
  told,      \* modules that system.stop waits for
  heard,     \* modules whose system.module_ready has been received
  lost,      \* modules whose announcement nobody received
  levels,    \* levels still to be started
  level,     \* the level that is being started
  pending,   \* modules of this level that have not reported system.ready
  broker,    \* bus_broker runs
  broker_proc, \* its process is known to the signal handler
  asked,     \* system.shutdown waits for the listener
  listener,  \* where the thread of the shutdown listener is
  ack,       \* channel_manager.stopped: "none", "lost" or "received"
  stopping,  \* _stop_responder
  timeouts   \* levels that have been given up waiting for

boot == <<heard, lost, levels, level, pending, timeouts>>
halt == <<asked, listener, ack, stopping>>
mail == <<inbox, told>>
bus == <<broker, broker_proc>>
vars == <<main, spawned, listed, proc, mail, boot, bus, halt>>

Nobody == {}

Alive(m) == proc[m] \notin {"none", "exited"}
\* The module's receive loop runs: it is up and has not been told to stop.
Receives(m) == proc[m] \in {"up", "started", "ready"}

Init ==
  /\ main = "start" /\ spawned = Nobody /\ listed = {}
  /\ proc = [m \in Modules |-> "none"]
  /\ inbox = [m \in Modules |-> {}] /\ told = {}
  /\ heard = {} /\ lost = {}
  /\ levels = {} /\ level = 0 /\ pending = {} /\ timeouts = {}
  /\ broker = FALSE /\ broker_proc = FALSE
  /\ asked = FALSE /\ listener = "none" /\ ack = "none" /\ stopping = FALSE

\* publish() reaches the modules that receive.
Audience == {m \in Modules : broker /\ Receives(m)}
Start(l) ==
  inbox' = [m \in Modules |->
              IF m \in Audience THEN inbox[m] \cup {l} ELSE inbox[m]]

-----------------------------------------------------------------------------
(* The boot, in the main thread.                                           *)

\* _start_process(BROKER_SCRIPT, ...): the handlers of the signals are there already.
LaunchBroker ==
  /\ main = "start"
  /\ broker' = TRUE
  /\ main' = "broker"
  /\ UNCHANGED <<spawned, listed, proc, mail, boot, broker_proc, halt>>

\* broker_proc = ...; until then the handler reads None.  What it publishes before
\* there is a publisher nobody would receive.
KeepBroker ==
  /\ main = "broker"
  /\ broker_proc' = TRUE
  /\ main' = "launch"
  /\ UNCHANGED <<spawned, listed, proc, mail, boot, broker, halt>>

\* proc = _start_process(...)
Spawn(m) ==
  /\ main = "launch" /\ spawned = Nobody /\ m \notin listed
  /\ spawned' = {m}
  /\ proc' = [proc EXCEPT ![m] = "starting"]
  /\ UNCHANGED <<main, listed, mail, boot, bus, halt>>

\* module_processes.append(...)
List ==
  /\ main = "launch" /\ spawned # Nobody
  /\ listed' = listed \cup spawned
  /\ spawned' = Nobody
  /\ main' = IF listed' = Modules THEN "subscribe" ELSE "launch"
  /\ UNCHANGED <<proc, mail, boot, bus, halt>>

\* _collect_module_ready() subscribes.
Collect ==
  /\ main = "subscribe"
  /\ main' = "collect"
  /\ UNCHANGED <<spawned, listed, proc, mail, boot, bus, halt>>

\* Fault: nobody's priority is kept.
FallbackForAll(m) == Fallback

\* The level at which a module is started.
StartLevel(m) == IF m \in heard THEN Priority[m] ELSE Fallback

\* All have replied, or the window is over.
Collected ==
  /\ main = "collect"
  /\ \/ heard = Modules
     \/ \A m \in Modules \ heard :
          m \in lost \/ ~ Alive(m) \/ "late" \in Events
  /\ levels' = {StartLevel(m) : m \in Modules}
  /\ main' = "level"
  /\ UNCHANGED <<spawned, listed, proc, mail, heard, lost, level, pending,
                 timeouts, bus, halt>>

\* priority_map[level]
Expected(l) == {m \in Modules : StartLevel(m) = l}

\* _wait_for_level_ready(): subscribe, then publish system.start.
BeginLevel ==
  /\ main = "level" /\ levels # {}
  /\ level' = CHOOSE l \in levels : \A k \in levels : l <= k
  /\ levels' = levels \ {level'}
  /\ pending' = Expected(level')
  /\ Start(level')
  /\ main' = "wait"
  /\ UNCHANGED <<spawned, listed, proc, told, heard, lost, timeouts, bus,
                 halt>>

\* Fault: the next level does not wait for this one.
LevelReadyAnyway ==
  /\ main = "wait"
  /\ main' = "level"
  /\ UNCHANGED <<spawned, listed, proc, mail, boot, bus, halt>>

LevelReady ==
  /\ main = "wait" /\ pending = {}
  /\ main' = "level"
  /\ UNCHANGED <<spawned, listed, proc, mail, boot, bus, halt>>

\* The time of this level is over: the boot goes on without those that miss.
LevelTimesOut ==
  /\ main = "wait" /\ pending # {}
  /\ timeouts' = timeouts \cup {level}
  /\ main' = "level"
  /\ UNCHANGED <<spawned, listed, proc, mail, heard, lost, levels, level,
                 pending, bus, halt>>

\* The responder and the shutdown listener are started.
BootDone ==
  /\ main = "level" /\ levels = {}
  /\ main' = "run"
  /\ listener' = "listening"
  /\ UNCHANGED <<spawned, listed, proc, mail, boot, bus, asked, ack,
                 stopping>>

-----------------------------------------------------------------------------
(* A module.                                                               *)

\* It subscribes, starts its receive loop, and announces itself.
Announce(m) ==
  /\ proc[m] = "starting"
  /\ proc' = [proc EXCEPT ![m] = "up"]
  /\ IF main = "collect" /\ broker
       THEN heard' = heard \cup {m} /\ UNCHANGED lost
       ELSE lost' = lost \cup {m} /\ UNCHANGED heard
  /\ UNCHANGED <<main, spawned, listed, mail, levels, level, pending, timeouts,
                 bus, halt>>

\* on_system_start(): only the module's own level counts.
HandleStart(m) ==
  /\ proc[m] = "up" /\ Priority[m] \in inbox[m]
  /\ proc' = [proc EXCEPT ![m] = "started"]
  /\ inbox' = [inbox EXCEPT ![m] = @ \ {Priority[m]}]
  /\ UNCHANGED <<main, told, spawned, listed, boot, bus, halt>>

\* system.ready, for some modules only once config.response has come.
ReportReady(m) ==
  /\ proc[m] = "started"
  /\ m \in NeedsConfig => proc[ConfigManager] = "ready"
  /\ proc' = [proc EXCEPT ![m] = "ready"]
  /\ pending' = IF main = "wait" /\ level = Priority[m] /\ broker
                  THEN pending \ {m} ELSE pending
  /\ UNCHANGED <<main, spawned, listed, mail, heard, lost, levels, level,
                 timeouts, bus, halt>>

\* on_system_stop(): the receive loop ends.
HandleStop(m) ==
  /\ Receives(m) /\ m \in told
  /\ proc' = [proc EXCEPT ![m] = "stopping"]
  /\ UNCHANGED <<main, spawned, listed, mail, boot, bus, halt>>

\* The process ends by itself.  channel_manager has reported that before.
Exit(m) ==
  /\ proc[m] = "stopping" /\ (m = ChannelManager => ack # "none")
  /\ proc' = [proc EXCEPT ![m] = "exited"]
  /\ UNCHANGED <<main, spawned, listed, mail, boot, bus, halt>>

\* channel_manager.stopped, heard by a listener that waits for it.
ReportStopped ==
  /\ proc[ChannelManager] = "stopping" /\ ack = "none"
  /\ ack' = IF listener = "waiting" /\ broker THEN "received" ELSE "lost"
  /\ UNCHANGED <<main, spawned, listed, proc, mail, boot, bus, asked,
                 listener, stopping>>

Crash(m) ==
  /\ "crash" \in Events /\ Alive(m)
  /\ proc' = [proc EXCEPT ![m] = "exited"]
  /\ UNCHANGED <<main, spawned, listed, mail, boot, bus, halt>>

-----------------------------------------------------------------------------
(* Shutdown.                                                               *)

\* A user interface publishes system.shutdown; who does not listen yet misses
\* it.
AskShutdown ==
  /\ "shutdown" \in Events /\ broker
  /\ listener = "listening" /\ ~ asked
  /\ asked' = TRUE
  /\ UNCHANGED <<main, spawned, listed, proc, mail, boot, bus, listener,
                 ack, stopping>>

\* The listener publishes system.stop ...
ListenerStop ==
  /\ listener = "listening" /\ asked /\ ~ stopping
  /\ told' = told \cup Audience
  /\ listener' = "stopping"
  /\ UNCHANGED <<main, inbox, spawned, listed, proc, boot, bus, asked, ack,
                 stopping>>

\* ... and only then subscribes to the acknowledgement.
ListenerWait ==
  /\ listener = "stopping"
  /\ listener' = "waiting"
  /\ UNCHANGED <<main, spawned, listed, proc, mail, boot, bus, asked, ack,
                 stopping>>

\* _wait_channel_manager_stopped() returns: the acknowledgement is here, the
\* process has exited, or the time is over.
ListenerGoesOn ==
  /\ listener = "waiting"
  /\ listener' = "terminating"
  /\ UNCHANGED <<main, spawned, listed, proc, mail, boot, bus, asked, ack,
                 stopping>>

\* Fault: system.stop is left to do it.
TerminateNobody == UNCHANGED proc

\* _terminate_all(): what has not exited by now is terminated or killed.
TerminateAll ==
  proc' = [m \in Modules |-> IF m \in listed THEN "exited" ELSE proc[m]]

\* Fault: the main thread is not told.
TerminatesSilently ==
  /\ listener = "terminating"
  /\ TerminateAll
  /\ listener' = "done"
  /\ UNCHANGED <<main, spawned, listed, mail, boot, bus, asked, ack,
                 stopping>>

ListenerTerminates ==
  /\ listener = "terminating"
  /\ TerminateAll
  /\ listener' = "done" /\ stopping' = TRUE
  /\ UNCHANGED <<main, spawned, listed, mail, boot, bus, asked, ack>>

\* _terminate_broker(), if broker_proc is not None: terminated, and killed if that
\* does not do.
TerminateBroker ==
  /\ broker' = (broker /\ ~ broker_proc)
  /\ UNCHANGED broker_proc

\* The main loop ends: the broker is the last to go.
EndMain ==
  /\ main = "run" /\ stopping
  /\ TerminateBroker
  /\ main' = "exited"
  /\ UNCHANGED <<spawned, listed, proc, mail, boot, halt>>

\* _shutdown(): the signal handler runs in the main thread, wherever that is.
Signal ==
  /\ "signal" \in Events /\ main \notin {"stop", "exited"}
  /\ stopping' = TRUE
  /\ told' = told \cup Audience
  /\ main' = "stop"
  /\ UNCHANGED <<spawned, inbox, listed, proc, boot, bus, asked, listener,
                 ack>>

SignalTerminates ==
  /\ main = "stop"
  /\ TerminateAll
  /\ TerminateBroker
  /\ main' = "exited"
  /\ UNCHANGED <<spawned, listed, mail, boot, halt>>

\* The daemon threads end with the main thread.
Listener ==
  /\ main # "exited"
  /\ ListenerStop \/ ListenerWait \/ ListenerGoesOn \/ ListenerTerminates

Main ==
  \/ LaunchBroker \/ KeepBroker
  \/ List \/ Collect \/ Collected \/ BeginLevel \/ LevelReady \/ LevelTimesOut
  \/ BootDone \/ EndMain \/ SignalTerminates
  \/ \E m \in Modules : Spawn(m)

Module(m) ==
  \/ Announce(m) \/ HandleStart(m) \/ ReportReady(m) \/ HandleStop(m)
  \/ Exit(m)
  \/ m = ChannelManager /\ ReportStopped

Next ==
  \/ Main \/ Listener \/ AskShutdown \/ Signal
  \/ \E m \in Modules : Module(m) \/ Crash(m)

Spec == Init /\ [][Next]_vars

\* The threads of the orchestrator and the processes are scheduled; every wait
\* of the orchestrator has a timeout.
Fairness ==
  /\ WF_vars(Main) /\ WF_vars(Listener)
  /\ \A m \in Modules : WF_vars(Module(m))

FairSpec == Spec /\ Fairness

-----------------------------------------------------------------------------
TypeOK ==
  /\ main \in {"start", "broker", "launch", "subscribe", "collect", "level",
               "wait", "run", "stop", "exited"}
  /\ spawned \subseteq Modules /\ listed \subseteq Modules
  /\ proc \in [Modules -> {"none", "starting", "up", "started", "ready",
                           "stopping", "exited"}]
  /\ told \subseteq Modules /\ \A m \in Modules : inbox[m] \subseteq Nat
  /\ heard \subseteq Modules /\ lost \subseteq Modules
  /\ levels \subseteq Nat /\ level \in Nat /\ timeouts \subseteq Nat
  /\ pending \subseteq {m \in Modules : StartLevel(m) = level}
  /\ asked \in BOOLEAN /\ stopping \in BOOLEAN
  /\ broker \in BOOLEAN /\ broker_proc \in BOOLEAN
  /\ listener \in {"none", "listening", "stopping", "waiting", "terminating",
                   "done"}
  /\ ack \in {"none", "lost", "received"}

\* A module that has started finds the modules of the lower levels ready, those
\* left out that have ended, whose level was given up waiting for, or whose
\* announcement was lost.  (The loop over sorted(priority_map).)
LowerLevelsFirst ==
  \A m, n \in Modules :
    proc[m] \in {"started", "ready"} /\ Priority[n] < Priority[m] =>
      \/ proc[n] \in {"ready", "stopping", "exited"}
      \/ Priority[n] \in timeouts \/ n \notin heard

\* When the orchestrator has exited at most one process is left: the one that was
\* being launched when the signal came, whose handler does not know it yet.  That
\* may be the broker, as long as no module has been launched, or one module.
NothingIsLeft ==
  main = "exited" =>
    /\ broker => ~ broker_proc /\ \A m \in Modules : proc[m] = "none"
    /\ \A m \in Modules : Alive(m) => spawned = {m}

\* A module that has announced itself in time is started, or the system stops.
HeardIsStarted ==
  \A m \in Modules :
    m \in heard ~> proc[m] \notin {"up"} \/ stopping \/ asked

\* Once it is asked to, the system stops, whatever the modules do.
ShutdownCompletes == asked \/ stopping ~> main = "exited"
=============================================================================
