--------------------------- MODULE ChannelManager ---------------------------
(***************************************************************************)
(* v2/modules/channel_manager with the channel-module subprocesses it      *)
(* runs (v2/modules/channel_modules/base_channel_module.py).               *)
(*                                                                         *)
(* Threads of channel_manager:                                             *)
(*   - the bus thread: every bus handler, one at a time (bpc);             *)
(*   - one cm_wait_ready thread per session (wpc[s]);                      *)
(*   - the crash monitor (mon).                                            *)
(* Processes: one child per session and channel (phase[s][c]).             *)
(*                                                                         *)
(* A child is called channel_<type>_<id> whatever the session, so a bus    *)
(* message from a child carries no session: said[s][c] is what process     *)
(* (s, c) has published, heard[s][c] how much of it channel_manager's bus  *)
(* thread has handled, and the handler books it under the session that is  *)
(* current when it runs.  module_start, module_stop, aa.channel.open    *)
(* and aa.channel.close are broadcasts, received by every subscribed child *)
(* of every session.                                                       *)
(***************************************************************************)
EXTENDS Naturals, Sequences, FiniteSets

CONSTANTS
  Channels,     \* channels of the service discovery response with a module
  Priority,     \* [Channels -> Nat]: PRIORITY of each channel's module
  MaxSessions,  \* bound on the number of open_channels events
  Scenarios     \* the circumstances a behaviour may meet: records of the
                \* channels the phone's descriptors name, the number of
                \* open_channels events and the faults, a subset of FaultKinds

FaultKinds == {"timeout",   \* a child is slower than CHILDREN_READY_TIMEOUT
               "crash",     \* a child dies by itself
               "spawn",     \* Popen raises an OSError part of the way
               "missing",   \* a module has no script: FileNotFoundError
               "preempt"}   \* a thread switch between test and use of _session

ASSUME PriorityAssumption == Priority \in [Channels -> Nat]
ASSUME MaxSessionsAssumption == MaxSessions \in Nat
ASSUME ScenariosAssumption ==
  \A x \in Scenarios : /\ x.channels \subseteq Channels
                        /\ x.sessions \in 0 .. MaxSessions
                        /\ x.faults \subseteq FaultKinds

Sessions == 1 .. MaxSessions
NoSession == 0

VARIABLES
  scenario,  \* the circumstances of this behaviour; it never changes
  opened,    \* sessions opened so far; the last one is number opened
  session,   \* the global _session
  active,    \* session._is_active
  procs,     \* session._launcher._procs
  expected,  \* session._expected
  known,     \* session._all_started_channels
  toStart,   \* session._ready_to_start and _all_ready_channels
  ready,     \* session._ready
  live,      \* session._all_active_channels
  acked,     \* session._stopped
  evStart,   \* session._all_ready_to_start
  evReady,   \* session._all_ready
  wpc,       \* where the wait thread of the session is
  wtodo,     \* priorities the wait thread has still to start
  wok,       \* its local variable ok
  bpc,       \* where the bus thread is
  bses,      \* the session the bus thread is shutting down
  bnext,     \* what it does after that: "spawn", "drop" or "halt"
  mon,       \* where the crash monitor is
  phase,     \* process of a session's channel
  said,      \* messages the process has published, in order
  heard,     \* how many of them channel_manager's bus thread has handled
  inits,     \* how many times the child ran _init(), 0 once it is gone
  chOpen,    \* the child's _channel_open
  inbox,     \* broadcasts the child has not handled yet
  announced, \* sessions whose channels_ready was published
  stopped,   \* sessions whose shutdown() published channel_manager.stopped
  closing    \* channel_manager published system.shutdown

sessionVars == <<active, procs, expected, known, toStart, ready, live, acked,
                 evStart, evReady>>
waitVars    == <<wpc, wtodo, wok>>
busVars     == <<bpc, bses, bnext>>
managerVars == <<opened, session, sessionVars, waitVars, busVars, mon,
                 announced, stopped, closing>>
childVars   == <<phase, said, heard, inits, chOpen, inbox>>
moving == <<managerVars, childVars>>
vars == <<scenario, moving>>

Messages == {"toStart", "ready", "stopped"}
Topics   == {"start", "stop", "open", "close"}
Phases   == {"none", "booting", "up", "exited", "crashed"}

ScenarioOK == scenario \in Scenarios

GlobalsOK ==
  /\ opened \in Nat /\ opened <= MaxSessions
  /\ session \in Nat /\ session <= opened
  /\ mon \in {"poll", "use", "dead"}
  /\ announced \subseteq Sessions
  /\ stopped \subseteq Sessions
  /\ closing \in BOOLEAN

SessionsOK ==
  /\ active \in [Sessions -> BOOLEAN]
  /\ procs \in [Sessions -> SUBSET Channels]
  /\ expected \in [Sessions -> SUBSET Channels]
  /\ known \in [Sessions -> SUBSET Channels]
  /\ toStart \in [Sessions -> SUBSET Channels]
  /\ ready \in [Sessions -> SUBSET Channels]
  /\ live \in [Sessions -> SUBSET Channels]
  /\ acked \in [Sessions -> SUBSET Channels]
  /\ evStart \in [Sessions -> BOOLEAN]
  /\ evReady \in [Sessions -> BOOLEAN]

ThreadsOK ==
  /\ wpc \in [Sessions -> {"none", "waitStart", "next", "waitReady", "clear",
                           "stopping", "reset", "drop", "done"}]
  /\ wtodo \in [Sessions -> SUBSET Nat]
  /\ wok \in [Sessions -> BOOLEAN]
  /\ bpc \in {"idle", "stopping", "spawn", "exited"}
  /\ bses \in Nat /\ bses <= opened
  /\ bnext \in {"none", "spawn", "drop", "halt"}

ChildrenOK ==
  /\ phase \in [Sessions -> [Channels -> Phases]]
  /\ said \in [Sessions -> [Channels -> Seq(Messages)]]
  /\ heard \in [Sessions -> [Channels -> Nat]]
  /\ inits \in [Sessions -> [Channels -> Nat]]
  /\ chOpen \in [Sessions -> [Channels -> BOOLEAN]]
  /\ inbox \in [Sessions -> [Channels -> Seq(Topics)]]

TypeOK == ScenarioOK /\ GlobalsOK /\ SessionsOK /\ ThreadsOK /\ ChildrenOK

Init ==
  /\ scenario \in Scenarios
  /\ opened = 0 /\ session = NoSession
  /\ active = [s \in Sessions |-> FALSE]
  /\ procs = [s \in Sessions |-> {}]
  /\ expected = [s \in Sessions |-> {}]
  /\ known = [s \in Sessions |-> {}]
  /\ toStart = [s \in Sessions |-> {}]
  /\ ready = [s \in Sessions |-> {}]
  /\ live = [s \in Sessions |-> {}]
  /\ acked = [s \in Sessions |-> {}]
  /\ evStart = [s \in Sessions |-> FALSE]
  /\ evReady = [s \in Sessions |-> FALSE]
  /\ wpc = [s \in Sessions |-> "none"]
  /\ wtodo = [s \in Sessions |-> {}]
  /\ wok = [s \in Sessions |-> FALSE]
  /\ bpc = "idle" /\ bses = NoSession /\ bnext = "none"
  /\ mon = "poll"
  /\ phase = [s \in Sessions |-> [c \in Channels |-> "none"]]
  /\ said = [s \in Sessions |-> [c \in Channels |-> <<>>]]
  /\ heard = [s \in Sessions |-> [c \in Channels |-> 0]]
  /\ inits = [s \in Sessions |-> [c \in Channels |-> 0]]
  /\ chOpen = [s \in Sessions |-> [c \in Channels |-> FALSE]]
  /\ inbox = [s \in Sessions |-> [c \in Channels |-> <<>>]]
  /\ announced = {} /\ stopped = {}
  /\ closing = FALSE

-----------------------------------------------------------------------------
(* Helpers.                                                                *)

Alive(s, c) == phase[s][c] \in {"booting", "up"}

\* The threads of channel_manager run until its bus thread leaves run().
Running == bpc # "exited"

\* Has process (s, c) published m?
Said(s, c, m) == \E i \in 1 .. Len(said[s][c]) : said[s][c][i] = m

\* publish() of a broadcast: msgs[c] is what a child of channel c keeps of it
\* after its own filter (priority of module_start, channel_id of open, close).
Broadcast(msgs) ==
  inbox' = [s \in Sessions |-> [c \in Channels |->
              IF phase[s][c] = "up" THEN inbox[s][c] \o msgs[c]
                                    ELSE inbox[s][c]]]

\* First part of shutdown(): close the channels that reported ready, forget
\* them, tell the children to stop.
Quiesce(s) ==
  /\ active' = [active EXCEPT ![s] = FALSE]
  /\ Broadcast([c \in Channels |-> IF c \in live[s] THEN <<"close", "stop">>
                                                   ELSE <<"stop">>])
  /\ live' = [live EXCEPT ![s] = {}]
  /\ known' = [known EXCEPT ![s] = {}]
  /\ UNCHANGED <<procs, expected, toStart, ready, acked, evStart, evReady>>
  /\ UNCHANGED <<phase, said, heard, inits, chOpen>>

\* Fault: stop_all() that does not wait for the processes.
StopAllAtOnce(s) ==
  /\ procs' = [procs EXCEPT ![s] = {}]
  /\ stopped' = stopped \cup {s}
  /\ UNCHANGED <<active, expected, known, toStart, ready, live, acked,
                 evStart, evReady>>

\* Last part of shutdown(): stop_all() has returned, every process it held
\* has exited, and channel_manager.stopped goes out.
StopAllDone(s) ==
  /\ \A c \in procs[s] : ~ Alive(s, c)
  /\ procs' = [procs EXCEPT ![s] = {}]
  /\ stopped' = stopped \cup {s}
  /\ UNCHANGED <<active, expected, known, toStart, ready, live, acked,
                 evStart, evReady>>

Stopping(s) == wpc[s] = "stopping" \/ (bpc = "stopping" /\ bses = s)

-----------------------------------------------------------------------------
(* The bus thread.                                                         *)

\* Fault: the session that is still there is replaced without a shutdown.
OpenChannelsOverOld ==
  /\ bpc = "idle" /\ opened < scenario.sessions
  /\ opened' = opened + 1
  /\ bpc' = "spawn"
  /\ UNCHANGED <<bses, bnext, sessionVars, childVars, session, waitVars, mon,
                 announced, stopped, closing>>

\* oaa_control_channel.open_channels: a session that is still there is shut
\* down first.
OpenChannels ==
  /\ bpc = "idle" /\ opened < scenario.sessions
  /\ opened' = opened + 1
  /\ IF session = NoSession
       THEN /\ bpc' = "spawn"
            /\ UNCHANGED <<bses, bnext, sessionVars, childVars>>
       ELSE /\ bpc' = "stopping" /\ bses' = session /\ bnext' = "spawn"
            /\ Quiesce(session)
  /\ UNCHANGED <<session, waitVars, mon, announced, stopped, closing>>

\* aa.session.shutdown and aa.session.restart have the same body.
EndSession ==
  /\ bpc = "idle" /\ session # NoSession
  /\ bpc' = "stopping" /\ bses' = session /\ bnext' = "drop"
  /\ Quiesce(session)
  /\ UNCHANGED <<opened, session, waitVars, mon, announced, stopped, closing>>

\* Fault: bus.stop() without the shutdown of the session.
SystemStopAtOnce ==
  /\ bpc = "idle"
  /\ bpc' = "exited"
  /\ UNCHANGED <<bses, bnext, opened, session, sessionVars, waitVars, mon,
                 childVars, announced, stopped, closing>>

\* system.stop.
SystemStop ==
  /\ bpc = "idle"
  /\ IF session = NoSession
       THEN /\ bpc' = "exited"
            /\ UNCHANGED <<bses, bnext, sessionVars, childVars>>
       ELSE /\ bpc' = "stopping" /\ bses' = session /\ bnext' = "halt"
            /\ Quiesce(session)
  /\ UNCHANGED <<opened, session, waitVars, mon, announced, stopped, closing>>

BusStopped ==
  /\ bpc = "stopping"
  /\ StopAllDone(bses)
  /\ bpc' = CASE bnext = "spawn" -> "spawn"
              [] bnext = "halt"  -> "exited"
              [] OTHER           -> "idle"
  /\ session' = IF bnext = "spawn" THEN session ELSE NoSession
  /\ bses' = NoSession /\ bnext' = "none"
  /\ UNCHANGED <<opened, waitVars, mon, childVars, announced,
                 closing>>

\* The channels of the service discovery response.
Offered == scenario.channels

\* start() of session number opened, with "up" the processes Popen made.
Spawn(up) ==
  /\ phase' = [phase EXCEPT ![opened] =
                 [c \in Channels |-> IF c \in up THEN "booting" ELSE "none"]]
  /\ procs' = [procs EXCEPT ![opened] = up]
  /\ active' = [active EXCEPT ![opened] = TRUE]
  /\ bpc' = "idle"
  /\ UNCHANGED <<opened, toStart, ready, live, acked, bses, bnext, mon, said,
                 heard, inits, chOpen, inbox, announced, stopped, closing>>

\* The session starts; its wait thread is created.
SpawnAll ==
  /\ bpc = "spawn"
  /\ Spawn(Offered)
  /\ session' = opened
  /\ expected' = [expected EXCEPT ![opened] = Offered]
  /\ known' = [known EXCEPT ![opened] = Offered]
  /\ evStart' = [evStart EXCEPT ![opened] = (Offered = {})]
  /\ evReady' = [evReady EXCEPT ![opened] = (Offered = {})]
  /\ wpc' = [wpc EXCEPT ![opened] = "waitStart"]
  /\ UNCHANGED <<wtodo, wok>>

\* resolve_module_type() raises KeyError before anything is spawned.
SpawnUnresolved ==
  /\ bpc = "spawn"
  /\ Spawn({})
  /\ session' = NoSession
  /\ UNCHANGED <<expected, known, evStart, evReady, waitVars>>

\* FileNotFoundError: caught, the session object is dropped with the
\* processes it had already spawned.
SpawnMissing ==
  /\ bpc = "spawn" /\ "missing" \in scenario.faults
  /\ \E up \in SUBSET Offered : up # Offered /\ Spawn(up)
  /\ session' = NoSession
  /\ known' = [known EXCEPT ![opened] = Offered]
  /\ UNCHANGED <<expected, evStart, evReady, waitVars>>

\* Any other OSError of Popen: it leaves the handler through the bus client,
\* the session stays current with no wait thread.
SpawnFails ==
  /\ bpc = "spawn" /\ "spawn" \in scenario.faults
  /\ \E up \in SUBSET Offered : up # Offered /\ Spawn(up)
  /\ session' = opened
  /\ known' = [known EXCEPT ![opened] = Offered]
  /\ UNCHANGED <<expected, evStart, evReady, waitVars>>

\* The bus thread takes message m, the next of process (s, c), off its queue.
Hear(s, c, m) ==
  /\ bpc = "idle"
  /\ heard[s][c] < Len(said[s][c]) /\ said[s][c][heard[s][c] + 1] = m
  /\ heard' = [heard EXCEPT ![s][c] = @ + 1]
  /\ UNCHANGED <<opened, session, active, procs, expected, known, waitVars,
                 busVars, mon, phase, said, inits, chOpen, inbox, announced,
                 stopped, closing>>

\* The session that books a message naming channel c: the current one, if it
\* expects c.  (Once shutdown() has emptied _all_started_channels the lookup
\* raises StopIteration and nothing is recorded that is read again.)
Books(c) == session # NoSession /\ c \in expected[session] \cap known[session]

HearToStart(s, c) ==
  /\ Hear(s, c, "toStart")
  /\ IF Books(c)
       THEN LET started == toStart[session] \cup {c} IN
            /\ toStart' = [toStart EXCEPT ![session] = started]
            /\ evStart' = [evStart EXCEPT ![session] =
                             @ \/ expected[session] \subseteq started]
       ELSE UNCHANGED <<toStart, evStart>>
  /\ UNCHANGED <<ready, live, acked, evReady>>

\* Fault: a module that is ready speaks for its whole level.
SamePriorityAlone(c) == {c}

\* Channels of c's priority that have reported ready to start.
SamePriority(c) ==
  IF c \in toStart[session]
    THEN {d \in toStart[session] : Priority[d] = Priority[c]}
    ELSE {}

HearReady(s, c) ==
  /\ Hear(s, c, "ready")
  /\ IF Books(c)
       THEN LET up == ready[session] \cup {c} IN
            /\ ready' = [ready EXCEPT ![session] = up]
            /\ live' = [live EXCEPT ![session] = @ \cup {c}]
            /\ evReady' = [evReady EXCEPT ![session] =
                             @ \/ SamePriority(c) \subseteq up]
       ELSE UNCHANGED <<ready, live, evReady>>
  /\ UNCHANGED <<toStart, acked, evStart>>

\* The child's ACK is published with key "name" and read under "module_name":
\* the name looked up is the empty one.
AckedName(c) == ""

HearStopped(s, c) ==
  /\ Hear(s, c, "stopped")
  /\ IF session # NoSession /\ AckedName(c) \in expected[session]
       THEN acked' = [acked EXCEPT ![session] = @ \cup {AckedName(c)}]
       ELSE UNCHANGED acked
  /\ UNCHANGED <<toStart, ready, live, evStart, evReady>>

Bus ==
  \/ OpenChannels \/ EndSession \/ SystemStop \/ BusStopped
  \/ SpawnAll \/ SpawnUnresolved \/ SpawnMissing \/ SpawnFails
  \/ \E s \in Sessions, c \in Channels :
       HearToStart(s, c) \/ HearReady(s, c) \/ HearStopped(s, c)

-----------------------------------------------------------------------------
(* The wait thread of session s.                                           *)

AllReadyToStart(s) ==
  /\ wpc[s] = "waitStart" /\ evStart[s]
  /\ wtodo' = [wtodo EXCEPT ![s] = {Priority[c] : c \in toStart[s]}]
  /\ wok' = [wok EXCEPT ![s] = TRUE]
  /\ wpc' = [wpc EXCEPT ![s] = "next"]
  /\ UNCHANGED <<sessionVars, session, childVars, announced, stopped>>

\* A wait of CHILDREN_READY_TIMEOUT runs out because a child is slow, or
\* because no child has anything left to do.
Settled(s, c) ==
  /\ heard[s][c] = Len(said[s][c])
  /\ Alive(s, c) => /\ Said(s, c, "toStart") /\ inbox[s][c] = <<>>
                    /\ inits[s][c] = 0 \/ Said(s, c, "ready")

TimeoutPossible(s) ==
  "timeout" \in scenario.faults \/ \A c \in expected[s] : Settled(s, c)

StartTimeout(s) ==
  /\ TimeoutPossible(s)
  /\ wpc[s] = "waitStart" /\ ~ evStart[s]
  /\ wok' = [wok EXCEPT ![s] = FALSE]
  /\ wpc' = [wpc EXCEPT ![s] = "next"]
  /\ UNCHANGED <<wtodo, sessionVars, session, childVars, announced, stopped>>

\* The next priority: small integers come out of list({...}) in order.
StartLevel(s) ==
  /\ wpc[s] = "next"
  /\ \E p \in wtodo[s] :
       /\ \A q \in wtodo[s] : p <= q
       /\ Broadcast([c \in Channels |->
                        IF Priority[c] = p THEN <<"start">> ELSE <<>>])
       /\ wtodo' = [wtodo EXCEPT ![s] = @ \ {p}]
  /\ wpc' = [wpc EXCEPT ![s] = "waitReady"]
  /\ UNCHANGED <<wok, sessionVars, session, announced, stopped>>
  /\ UNCHANGED <<phase, said, heard, inits, chOpen>>

LevelReady(s) ==
  /\ wpc[s] = "waitReady" /\ evReady[s]
  /\ Broadcast([c \in Channels |->
                   IF c \in live[s] THEN <<"open">> ELSE <<>>])
  /\ wok' = [wok EXCEPT ![s] = TRUE]
  /\ wpc' = [wpc EXCEPT ![s] = "clear"]
  /\ UNCHANGED <<wtodo, sessionVars, session, announced, stopped>>
  /\ UNCHANGED <<phase, said, heard, inits, chOpen>>

LevelTimeout(s) ==
  /\ TimeoutPossible(s)
  /\ wpc[s] = "waitReady" /\ ~ evReady[s]
  /\ wok' = [wok EXCEPT ![s] = FALSE]
  /\ wpc' = [wpc EXCEPT ![s] = "clear"]
  /\ UNCHANGED <<wtodo, sessionVars, session, childVars, announced, stopped>>

\* session._all_ready.clear()
ClearReady(s) ==
  /\ wpc[s] = "clear"
  /\ evReady' = [evReady EXCEPT ![s] = FALSE]
  /\ wpc' = [wpc EXCEPT ![s] = "next"]
  /\ UNCHANGED <<wtodo, wok, active, procs, expected, known, toStart, ready,
                 live, acked, evStart, session, childVars, announced,
                 stopped>>

StartupDone(s) ==
  /\ wpc[s] = "next" /\ wtodo[s] = {} /\ wok[s]
  /\ announced' = announced \cup {s}
  /\ wpc' = [wpc EXCEPT ![s] = "done"]
  /\ wok' = [wok EXCEPT ![s] = FALSE]
  /\ UNCHANGED <<wtodo, sessionVars, session, childVars, stopped>>

\* Fault: a startup that failed is only logged.
StartupFailedLogged(s) ==
  /\ wpc[s] = "next" /\ wtodo[s] = {} /\ ~ wok[s]
  /\ wpc' = [wpc EXCEPT ![s] = "done"]
  /\ UNCHANGED <<wtodo, wok, sessionVars, session, childVars, announced,
                 stopped>>

StartupFailed(s) ==
  /\ wpc[s] = "next" /\ wtodo[s] = {} /\ ~ wok[s]
  /\ Quiesce(s)
  /\ wpc' = [wpc EXCEPT ![s] = "stopping"]
  /\ UNCHANGED <<wtodo, wok, session, announced, stopped>>

WaitStopped(s) ==
  /\ wpc[s] = "stopping"
  /\ StopAllDone(s)
  /\ wpc' = [wpc EXCEPT ![s] = "reset"]
  /\ UNCHANGED <<wtodo, wok, session, childVars, announced>>

\* "if _session is session: _session = None": one step, unless another
\* thread may run between the test and the store.
ResetSession(s) ==
  /\ wpc[s] = "reset" /\ "preempt" \notin scenario.faults
  /\ session' = IF session = s THEN NoSession ELSE session
  /\ wpc' = [wpc EXCEPT ![s] = "done"]
  /\ UNCHANGED <<wtodo, wok, sessionVars, childVars, announced, stopped>>

TestSession(s) ==
  /\ wpc[s] = "reset" /\ "preempt" \in scenario.faults
  /\ wpc' = [wpc EXCEPT ![s] = IF session = s THEN "drop" ELSE "done"]
  /\ UNCHANGED <<wtodo, wok, sessionVars, session, childVars, announced,
                 stopped>>

DropSession(s) ==
  /\ wpc[s] = "drop"
  /\ session' = NoSession
  /\ wpc' = [wpc EXCEPT ![s] = "done"]
  /\ UNCHANGED <<wtodo, wok, sessionVars, childVars, announced, stopped>>

WaitThread(s) ==
  /\ Running
  /\ \/ AllReadyToStart(s) \/ StartTimeout(s) \/ StartLevel(s)
     \/ LevelReady(s) \/ LevelTimeout(s) \/ ClearReady(s)
     \/ StartupDone(s) \/ StartupFailed(s) \/ WaitStopped(s)
     \/ ResetSession(s) \/ TestSession(s) \/ DropSession(s)
  /\ UNCHANGED <<opened, busVars, mon, closing>>

-----------------------------------------------------------------------------
(* The crash monitor.                                                      *)

Crashes == /\ session # NoSession /\ active[session]
           /\ \E c \in procs[session] : ~ Alive(session, c)

\* "if _session: if _session.check_crashes(): publish system.shutdown"
MonitorPoll ==
  /\ mon = "poll" /\ "preempt" \notin scenario.faults
  /\ Crashes
  /\ closing' = TRUE
  /\ UNCHANGED mon

MonitorTest ==
  /\ mon = "poll" /\ "preempt" \in scenario.faults
  /\ session # NoSession
  /\ mon' = "use"
  /\ UNCHANGED closing

\* _session.check_crashes() on None raises and ends the thread.
MonitorUse ==
  /\ mon = "use"
  /\ mon' = IF session = NoSession THEN "dead" ELSE "poll"
  /\ closing' = (closing \/ Crashes)

Monitor ==
  /\ Running
  /\ MonitorPoll \/ MonitorTest \/ MonitorUse
  /\ UNCHANGED <<opened, session, sessionVars, waitVars, busVars, childVars,
                 announced, stopped>>

-----------------------------------------------------------------------------
(* The process of channel c of session s.                                  *)

\* run(): the subscriptions are in place.
Subscribe(s, c) ==
  /\ phase[s][c] = "booting"
  /\ phase' = [phase EXCEPT ![s][c] = "up"]
  /\ UNCHANGED <<managerVars, said, heard, inits, chOpen, inbox>>

\* _module_ready_to_start(), 50 ms later.
Announce(s, c) ==
  /\ phase[s][c] = "up" /\ ~ Said(s, c, "toStart")
  /\ said' = [said EXCEPT ![s][c] = Append(@, "toStart")]
  /\ UNCHANGED <<managerVars, phase, heard, inits, chOpen, inbox>>

Take(s, c, topic) ==
  /\ phase[s][c] = "up"
  /\ inbox[s][c] # <<>> /\ Head(inbox[s][c]) = topic
  /\ inbox' = [inbox EXCEPT ![s][c] = Tail(@)]

\* module_start: _init(), then _try_publish_ready().  The gate may be open at
\* once or open later (config.response, _is_ready()): see PublishReady.
OnModuleStart(s, c) ==
  /\ Take(s, c, "start")
  /\ inits' = [inits EXCEPT ![s][c] = @ + 1]
  /\ UNCHANGED <<managerVars, phase, said, heard, chOpen>>

PublishReady(s, c) ==
  /\ phase[s][c] = "up" /\ inits[s][c] > 0 /\ ~ Said(s, c, "ready")
  /\ said' = [said EXCEPT ![s][c] = Append(@, "ready")]
  /\ UNCHANGED <<managerVars, phase, heard, inits, chOpen, inbox>>

\* module_stop: _cleanup(), ACK, bus.stop(): run() returns.
OnModuleStop(s, c) ==
  /\ phase[s][c] = "up"
  /\ inbox[s][c] # <<>> /\ Head(inbox[s][c]) = "stop"
  /\ inbox' = [inbox EXCEPT ![s][c] = <<>>]
  /\ phase' = [phase EXCEPT ![s][c] = "exited"]
  /\ said' = [said EXCEPT ![s][c] = Append(@, "stopped")]
  /\ chOpen' = [chOpen EXCEPT ![s][c] = FALSE]
  /\ inits' = [inits EXCEPT ![s][c] = 0]
  /\ UNCHANGED <<managerVars, heard>>

OnChannelOpen(s, c) ==
  /\ Take(s, c, "open")
  /\ chOpen' = [chOpen EXCEPT ![s][c] = TRUE]
  /\ UNCHANGED <<managerVars, phase, said, heard, inits>>

OnChannelClose(s, c) ==
  /\ Take(s, c, "close")
  /\ chOpen' = [chOpen EXCEPT ![s][c] = FALSE]
  /\ UNCHANGED <<managerVars, phase, said, heard, inits>>

\* ChannelProcess.stop(): SIGTERM, then SIGKILL, after the grace period.
Terminate(s, c) ==
  /\ Running /\ Stopping(s) /\ c \in procs[s] /\ Alive(s, c)
  /\ phase' = [phase EXCEPT ![s][c] = "exited"]
  /\ chOpen' = [chOpen EXCEPT ![s][c] = FALSE]
  /\ inits' = [inits EXCEPT ![s][c] = 0]
  /\ inbox' = [inbox EXCEPT ![s][c] = <<>>]
  /\ UNCHANGED <<managerVars, said, heard>>

Crash(s, c) ==
  /\ "crash" \in scenario.faults
  /\ Alive(s, c)
  /\ phase' = [phase EXCEPT ![s][c] = "crashed"]
  /\ chOpen' = [chOpen EXCEPT ![s][c] = FALSE]
  /\ inits' = [inits EXCEPT ![s][c] = 0]
  /\ inbox' = [inbox EXCEPT ![s][c] = <<>>]
  /\ UNCHANGED <<managerVars, said, heard>>

Child(s, c) ==
  \/ Subscribe(s, c) \/ Announce(s, c)
  \/ OnModuleStart(s, c) \/ PublishReady(s, c) \/ OnModuleStop(s, c)
  \/ OnChannelOpen(s, c) \/ OnChannelClose(s, c)
  \/ Terminate(s, c) \/ Crash(s, c)

-----------------------------------------------------------------------------
Next ==
  /\ \/ Bus
     \/ \E s \in Sessions : WaitThread(s)
     \/ Monitor
     \/ \E s \in Sessions, c \in Channels : Child(s, c)
  /\ UNCHANGED scenario

Spec == Init /\ [][Next]_vars

\* The threads and the children are scheduled by the operating system, a wait
\* ends by its timeout at the latest and stop_all() terminates what does not
\* exit.  main.py answers system.shutdown with system.stop.  Nothing is fair
\* about the phone (open_channels, shutdown, restart) or about crashes.
Fairness ==
  /\ WF_moving(BusStopped) /\ WF_moving(SpawnAll \/ SpawnUnresolved)
  /\ WF_moving(closing /\ SystemStop)
  /\ WF_moving(Monitor)
  /\ \A s \in Sessions :
       /\ WF_moving(WaitThread(s))
       /\ \A c \in Channels :
            /\ WF_moving(\/ HearToStart(s, c) \/ HearReady(s, c)
                       \/ HearStopped(s, c))
            /\ WF_moving(Subscribe(s, c)) /\ WF_moving(Announce(s, c))
            /\ WF_moving(OnModuleStart(s, c) \/ OnModuleStop(s, c)
                       \/ OnChannelOpen(s, c) \/ OnChannelClose(s, c))
            /\ WF_moving(PublishReady(s, c)) /\ WF_moving(Terminate(s, c))

FairSpec == Spec /\ Fairness

-----------------------------------------------------------------------------
(* Properties.                                                             *)

\* A session number not handed to a session yet.
Unused(s) ==
  /\ wpc[s] = "none" /\ procs[s] = {} /\ s \notin stopped
  /\ s # session /\ s # bses
  /\ \A c \in Channels : phase[s][c] = "none"

Opening == bpc = "spawn" \/ (bpc = "stopping" /\ bnext = "spawn")

\* What the launchers and the two kinds of thread know of the children, with
\* any fault: a child is alive only while its launcher holds it, a thread is
\* past stop_all() only if no child of that session is left.
Bookkeeping ==
  /\ Opening => opened \in Sessions
  /\ bpc = "stopping" => bses \in Sessions
  /\ \A s \in Sessions : s > opened \/ (s = opened /\ Opening) => Unused(s)
  /\ \A s \in Sessions, c \in Channels : Alive(s, c) => c \in procs[s]
  /\ \A s \in Sessions : wpc[s] \in {"reset", "drop"} => s \in stopped
  /\ \A s \in stopped, c \in Channels : ~ Alive(s, c)

\* The reason why generations do not mix: a live child belongs to the session
\* the bus handlers act on, and the bus thread opens a session, or leaves,
\* only when no child is left at all.
LiveChildrenAreCurrent ==
  /\ \A s \in Sessions, c \in Channels : Alive(s, c) => s = session
  /\ bpc = "stopping" => session \in {bses, NoSession}
  /\ bpc \in {"spawn", "exited"} =>
       \A s \in Sessions, c \in Channels : ~ Alive(s, c)

\* No fault of this behaviour makes channel_manager forget a session whose
\* children run: SpawnMissing does, and a thread switch before DropSession.
SessionKept == scenario.faults \cap {"missing", "preempt"} = {}

\* A wait thread that outlives its session speaks to the children of the next
\* one: what follows about the startup is said of a single session.
OneSession == scenario.sessions = 1

\* Children of two sessions never run at the same time: they share names,
\* topics and devices (launcher.py "kill any stale processes").
SingleGeneration ==
  SessionKept =>
    \A s, t \in Sessions : \A c, d \in Channels :
      Alive(s, c) /\ Alive(t, d) => s = t

\* When channel_manager.stopped goes out for a session none of its children is
\* left, whichever of the two threads that may shut it down publishes it:
\* main.py goes on to terminate the modules on that message.
StoppedMeansExited ==
  \A s \in stopped, c \in Channels : ~ Alive(s, c)

\* When channel_manager leaves run() no child survives it.
NoOrphanAtExit ==
  SessionKept /\ bpc = "exited" =>
    \A s \in Sessions, c \in Channels : ~ Alive(s, c)

\* channels_ready is published when every child of the session has published
\* module_ready (main.py, responsibility 5).
ChannelsReadyMeansAllReady ==
  [][OneSession => \A s \in announced' \ announced :
                     \A c \in expected[s] : Said(s, c, "ready")]_vars

\* A session that gets its wait thread becomes ready or loses its children.
SessionResolves ==
  \A s \in Sessions :
    OneSession /\ wpc[s] = "waitStart" ~>
      s \in announced \/ \A c \in Channels : ~ Alive(s, c)
=============================================================================
