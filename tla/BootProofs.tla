----------------------------- MODULE BootProofs -----------------------------
(***************************************************************************)
(* Theorems about Boot for any set of modules, any priorities and any      *)
(* events: what has been started when a module starts, and what is left    *)
(* when the orchestrator has exited.                                       *)
(***************************************************************************)
EXTENDS Boot, FiniteSetTheorems, TLAPS

States == {"none", "starting", "up", "started", "ready", "stopping", "exited"}

-----------------------------------------------------------------------------
(* The inductive invariant.                                                *)

\* Until the announcements have been collected no module is started.
NotStarted ==
  main \in {"start", "broker", "launch", "subscribe", "collect"} =>
    /\ pending = {}
    /\ \A m \in Modules : inbox[m] = {} /\ proc[m] \notin {"started", "ready"}

\* The module is ready or has ended, or its level has been given up.
Passed(n) == proc[n] \in {"ready", "stopping", "exited"} \/ Priority[n] \in timeouts

\* A level is told to a module after those below it have passed.
InOrder ==
  \A m, n \in Modules, l \in Nat :
    /\ l \in inbox[m] \/ (proc[m] \in {"started", "ready"} /\ l = Priority[m])
    /\ n \in heard /\ Priority[n] < l
    => Passed(n)

\* What has passed at this point of the loop over the levels.
LoopsOn ==
  /\ main = "level" => \A n \in heard : Priority[n] \in levels \/ Passed(n)
  /\ main = "wait" =>
       \A n \in heard : \/ Priority[n] \in levels \/ Passed(n)
                        \/ Priority[n] = level /\ n \in pending

\* The processes that run are known, all of them once they have been launched.
Known ==
  /\ \A m \in Modules : proc[m] # "none" => m \in listed \cup spawned
  /\ main \notin {"start", "broker", "launch", "stop", "exited"} => listed = Modules
  /\ listener # "none" => main \in {"run", "stop", "exited"} /\ listed = Modules

\* The main loop ends when the listener has terminated them all.
Terminated ==
  /\ stopping => main \in {"run", "stop", "exited"}
  /\ main = "run" /\ stopping => listener = "done"
  /\ listener = "done" => \A m \in Modules : proc[m] = "exited"

\* One process is launched at a time, the broker before the modules.
OneByOne ==
  /\ \A m \in spawned : spawned = {m}
  /\ broker_proc \/ main \in {"start", "broker", "stop", "exited"}
  /\ ~ broker_proc => listed = {} /\ \A m \in Modules : proc[m] = "none"

Started == TypeOK /\ NotStarted /\ InOrder /\ LoopsOn /\ Known
Left == TypeOK /\ Known /\ OneByOne /\ Terminated /\ NothingIsLeft

-----------------------------------------------------------------------------
(* Types.                                                                  *)

(* The initial state has the types. *)
LEMMA InitType == Init => TypeOK
<1> SUFFICES ASSUME Init PROVE TypeOK
  OBVIOUS
<1>1. proc \in [Modules -> States] /\ \A m \in Modules : inbox[m] = {}
  BY DEF Init, States
<1>2. QED
  BY <1>1 DEF Init, TypeOK, Nobody, States

\* A set of natural numbers has a lowest one: the intervals below them are finite,
\* and among finite sets inclusion is well-founded.
LEMMA LowestNumber ==
  ASSUME NEW S \in SUBSET Nat, S # {}
  PROVE  \E l \in S : \A k \in S : l <= k
<1> DEFINE T == {0 .. k : k \in S}
<1>1. T \subseteq FiniteSubsetsOf(Nat) /\ T # {}
  <2>1. \A k \in S : IsFiniteSet(0 .. k) /\ 0 .. k \subseteq Nat
    BY FS_Interval
  <2>2. QED
    BY <2>1 DEF FiniteSubsetsOf
<1>2. PICK x \in T : \A y \in T : <<y, x>> \notin StrictSubsetOrdering(Nat)
  BY <1>1, FS_StrictSubsetOrderingWellFounded, WFMin
<1>3. PICK l \in S : x = 0 .. l
  OBVIOUS
<1>4. ASSUME NEW k \in S, k < l
      PROVE  FALSE
  <2>1. k \in Nat /\ l \in Nat
    OBVIOUS
  <2>2. 0 .. k \subseteq 0 .. l /\ 0 .. k # 0 .. l
    <3>1. l \in 0 .. l /\ l \notin 0 .. k
      BY <1>4, <2>1
    <3>2. \A i \in 0 .. k : i \in 0 .. l
      BY <1>4, <2>1
    <3>3. QED
      BY <3>1, <3>2
  <2>3. 0 .. k \in SUBSET Nat /\ 0 .. l \in SUBSET Nat
    BY <2>1
  <2>4. <<0 .. k, 0 .. l>> \in StrictSubsetOrdering(Nat)
    BY <2>2, <2>3 DEF StrictSubsetOrdering
  <2>5. QED
    BY <1>2, <1>3, <2>4
<1>5. QED
  BY <1>4

\* The level that is begun is the lowest of those that are left.
LEMMA Lowest ==
  ASSUME TypeOK, BeginLevel
  PROVE  level' \in levels /\ \A k \in levels : level' <= k
<1>1. levels \in SUBSET Nat /\ levels # {}
  BY DEF TypeOK, BeginLevel
<1>2. \E l \in levels : \A k \in levels : l <= k
  BY <1>1, LowestNumber
<1>3. level' = CHOOSE l \in levels : \A k \in levels : l <= k
  BY DEF BeginLevel
<1>4. QED
  BY <1>2, <1>3

\* Each step is well typed; what it may change of the modules.
LEMMA StepType ==
  ASSUME TypeOK, NotStarted, Next
  PROVE  TypeOK'
<1> USE DEF TypeOK, boot, halt, bus, mail, TerminateAll, TerminateBroker
<1>1. ASSUME NEW m \in Modules, Spawn(m)
      PROVE  TypeOK'
  BY <1>1 DEF Spawn, StartLevel
<1>2. CASE List \/ LaunchBroker \/ KeepBroker
  <2>1. CASE List
    BY <2>1 DEF List, Nobody, StartLevel
  <2>2. CASE LaunchBroker \/ KeepBroker
    BY <2>2 DEF LaunchBroker, KeepBroker, StartLevel
  <2>3. QED
    BY <1>2, <2>1, <2>2
<1>3. CASE Collect
  BY <1>3 DEF Collect, StartLevel
<1>4. CASE Collected
  <2>1. levels' \subseteq Nat
    BY <1>4, PriorityAssumption DEF Collected, StartLevel, Fallback
  <2>2. QED
    BY <1>4, <2>1 DEF Collected, StartLevel
<1>5. CASE BeginLevel
  <2>1. level' \in Nat /\ levels' \subseteq Nat
    BY <1>5, Lowest DEF BeginLevel
  <2>2. \A m \in Modules : inbox'[m] \subseteq Nat
    BY <1>5, <2>1 DEF BeginLevel, Start
  <2>3. pending' \subseteq {m \in Modules : StartLevel(m)' = level'}
    BY <1>5 DEF BeginLevel, Expected, StartLevel
  <2>4. QED
    BY <1>5, <2>1, <2>2, <2>3 DEF BeginLevel
<1>6. CASE LevelReady \/ LevelTimesOut \/ BootDone \/ EndMain
  <2>1. CASE LevelReady \/ LevelTimesOut
    BY <2>1 DEF LevelReady, LevelTimesOut, StartLevel
  <2>2. CASE BootDone \/ EndMain
    BY <2>2 DEF BootDone, EndMain, StartLevel
  <2>3. QED
    BY <1>6, <2>1, <2>2
<1>7. CASE SignalTerminates \/ Signal
  <2>1. CASE SignalTerminates
    BY <2>1 DEF SignalTerminates, StartLevel
  <2>2. CASE Signal
    BY <2>2 DEF Signal, Audience, StartLevel
  <2>3. QED
    BY <1>7, <2>1, <2>2
<1>8. CASE Listener \/ AskShutdown
  <2>1. CASE ListenerStop
    BY <2>1 DEF ListenerStop, Audience, StartLevel
  <2>2. CASE ListenerWait \/ ListenerGoesOn \/ AskShutdown
    BY <2>2 DEF ListenerWait, ListenerGoesOn, AskShutdown, StartLevel
  <2>3. CASE ListenerTerminates
    <3>1. /\ proc' \in [Modules -> States] /\ listener' = "done" /\ stopping' = TRUE
          /\ UNCHANGED <<main, spawned, listed, mail, boot, bus, asked, ack>>
      BY <2>3 DEF ListenerTerminates, States
    <3>2. QED
      BY <3>1 DEF StartLevel, States
  <2>4. QED
    BY <1>8, <2>1, <2>2, <2>3 DEF Listener
<1>9. ASSUME NEW m \in Modules, Announce(m)
      PROVE  TypeOK'
  <2>1. heard' = heard \/ pending' = {}
    BY <1>9 DEF Announce, NotStarted
  <2>2. pending' \subseteq {n \in Modules : StartLevel(n)' = level'}
    BY <1>9, <2>1 DEF Announce, StartLevel
  <2>3. heard' \subseteq Modules /\ lost' \subseteq Modules
    BY <1>9 DEF Announce
  <2>4. QED
    BY <1>9, <2>2, <2>3 DEF Announce
<1>10. ASSUME NEW m \in Modules,
              HandleStart(m) \/ ReportReady(m) \/ HandleStop(m) \/ Exit(m) \/ Crash(m)
       PROVE  TypeOK'
  <2>1. CASE HandleStart(m)
    BY <2>1 DEF HandleStart, StartLevel
  <2>2. CASE ReportReady(m)
    BY <2>2 DEF ReportReady, StartLevel
  <2>3. CASE HandleStop(m) \/ Exit(m) \/ Crash(m)
    <3>1. UNCHANGED <<main, spawned, listed, mail, boot, bus, halt>>
      BY <2>3 DEF HandleStop, Exit, Crash
    <3>2. \E s \in {"stopping", "exited"} : proc' = [proc EXCEPT ![m] = s]
      BY <2>3 DEF HandleStop, Exit, Crash
    <3>3. proc' \in [Modules -> States]
      BY <3>2 DEF States
    <3>4. pending' \subseteq {n \in Modules : StartLevel(n)' = level'}
      BY <3>1 DEF StartLevel
    <3>5. QED
      BY <3>1, <3>3, <3>4 DEF States
  <2>4. QED
    BY <1>10, <2>1, <2>2, <2>3
<1>11. CASE ReportStopped
  BY <1>11 DEF ReportStopped, StartLevel
<1>12. QED
  BY <1>1, <1>2, <1>3, <1>4, <1>5, <1>6, <1>7, <1>8, <1>9, <1>10, <1>11
     DEF Next, Main, Module

-----------------------------------------------------------------------------
(* What is known of the processes.                                         *)

(* Every step keeps Known. *)
LEMMA KnownStep ==
  ASSUME TypeOK, Known, Next
  PROVE  Known'
<1> USE DEF Known, boot, halt, bus, mail, TypeOK
<1>1. ASSUME NEW m \in Modules, Spawn(m)
      PROVE  Known'
  BY <1>1 DEF Spawn, Nobody
<1>2. CASE List \/ LaunchBroker \/ KeepBroker
  BY <1>2 DEF List, Nobody, LaunchBroker, KeepBroker
<1>3. CASE Collect \/ Collected \/ BeginLevel \/ LevelReady \/ LevelTimesOut \/ BootDone
  BY <1>3 DEF Collect, Collected, BeginLevel, LevelReady, LevelTimesOut, BootDone
<1>4. CASE EndMain \/ Signal
  BY <1>4 DEF EndMain, Signal
<1>5. CASE SignalTerminates \/ (main # "exited" /\ ListenerTerminates)
  BY <1>5 DEF SignalTerminates, ListenerTerminates, TerminateAll
<1>6. CASE ListenerStop \/ ListenerWait \/ ListenerGoesOn \/ AskShutdown \/ ReportStopped
  BY <1>6 DEF ListenerStop, ListenerWait, ListenerGoesOn, AskShutdown, ReportStopped
<1>7. ASSUME NEW m \in Modules,
             \/ Announce(m) \/ HandleStart(m) \/ ReportReady(m) \/ HandleStop(m)
             \/ Exit(m) \/ Crash(m)
      PROVE  Known'
  <2>1. /\ proc[m] # "none"
        /\ \A k \in Modules : k # m => proc'[k] = proc[k]
        /\ UNCHANGED <<main, spawned, listed, listener>>
    BY <1>7 DEF Announce, HandleStart, ReportReady, HandleStop, Exit, Crash, Receives,
                Alive
  <2>2. QED
    BY <2>1
<1>8. QED
  BY <1>1, <1>2, <1>3, <1>4, <1>5, <1>6, <1>7 DEF Next, Main, Module, Listener

\* A module that is ready or has ended is not launched again, nor does a level come
\* back that has been given up.
LEMMA PassedStays ==
  ASSUME TypeOK, Known, Next, NEW n \in Modules, Passed(n)
  PROVE  Passed(n)'
<1> USE DEF Passed, boot, halt, bus, mail, TypeOK
<1>1. ASSUME NEW m \in Modules, Spawn(m)
      PROVE  Passed(n)'
  <2>1. proc[m] = "none"
    BY <1>1 DEF Spawn, Known, Nobody
  <2>2. QED
    BY <1>1, <2>1 DEF Spawn
<1>2. CASE SignalTerminates \/ ListenerTerminates
  BY <1>2 DEF SignalTerminates, ListenerTerminates, TerminateAll
<1>3. ASSUME NEW m \in Modules,
             \/ Announce(m) \/ HandleStart(m) \/ ReportReady(m) \/ HandleStop(m)
             \/ Exit(m) \/ Crash(m)
      PROVE  Passed(n)'
  <2>1. /\ UNCHANGED timeouts /\ \A k \in Modules : k # m => proc'[k] = proc[k]
        /\ proc[m] \in {"ready", "stopping", "exited"} =>
             proc'[m] \in {"ready", "stopping", "exited"}
    BY <1>3 DEF Announce, HandleStart, ReportReady, HandleStop, Exit, Crash
  <2>2. QED
    BY <2>1
<1>4. CASE \/ LaunchBroker \/ KeepBroker \/ List \/ Collect \/ Collected
           \/ BeginLevel \/ LevelReady \/ LevelTimesOut
  BY <1>4 DEF LaunchBroker, KeepBroker, List, Collect, Collected, BeginLevel,
              LevelReady, LevelTimesOut
<1>5. CASE BootDone \/ EndMain \/ Signal \/ AskShutdown \/ ReportStopped \/ ListenerStop
           \/ ListenerWait \/ ListenerGoesOn
  BY <1>5 DEF BootDone, EndMain, Signal, AskShutdown, ReportStopped, ListenerStop,
              ListenerWait, ListenerGoesOn
<1>6. QED
  BY <1>1, <1>2, <1>3, <1>4, <1>5 DEF Next, Main, Module, Listener

-----------------------------------------------------------------------------
(* The order of the levels.                                                *)

(* Every step keeps NotStarted. *)
LEMMA NotStartedStep ==
  ASSUME TypeOK, Known, NotStarted, Next
  PROVE  NotStarted'
<1> USE DEF NotStarted, boot, halt, bus, mail, TypeOK
<1>1. ASSUME NEW m \in Modules, Spawn(m)
      PROVE  NotStarted'
  BY <1>1 DEF Spawn
<1>2. CASE LaunchBroker \/ KeepBroker \/ List \/ Collect \/ Collected
  BY <1>2 DEF LaunchBroker, KeepBroker, List, Collect, Collected
<1>3. CASE BeginLevel \/ LevelReady \/ LevelTimesOut \/ BootDone \/ EndMain \/ Signal
           \/ SignalTerminates
  BY <1>3 DEF BeginLevel, LevelReady, LevelTimesOut, BootDone, EndMain, Signal,
              SignalTerminates
<1>4. CASE AskShutdown \/ ReportStopped \/ Listener
  BY <1>4 DEF AskShutdown, ReportStopped, Listener, ListenerStop, ListenerWait,
              ListenerGoesOn, ListenerTerminates, TerminateAll
<1>5. ASSUME NEW m \in Modules,
             \/ Announce(m) \/ HandleStart(m) \/ ReportReady(m) \/ HandleStop(m)
             \/ Exit(m) \/ Crash(m)
      PROVE  NotStarted'
  <2>1. CASE main \in {"start", "broker", "launch", "subscribe", "collect"}
    <3>1. /\ UNCHANGED <<main, inbox>> /\ pending' = {}
          /\ proc'[m] \notin {"started", "ready"}
          /\ \A k \in Modules : k # m => proc'[k] = proc[k]
      BY <1>5, <2>1 DEF Announce, HandleStart, ReportReady, HandleStop, Exit, Crash
    <3>2. QED
      BY <2>1, <3>1
  <2>2. CASE main \notin {"start", "broker", "launch", "subscribe", "collect"}
    BY <1>5, <2>2 DEF Announce, HandleStart, ReportReady, HandleStop, Exit, Crash
  <2>3. QED
    BY <2>1, <2>2
<1>6. QED
  BY <1>1, <1>2, <1>3, <1>4, <1>5 DEF Next, Main, Module

\* The level that is begun comes after those that have passed.
LEMMA BeginInOrder ==
  ASSUME TypeOK, InOrder, LoopsOn, BeginLevel
  PROVE  InOrder' /\ LoopsOn'
<1>1. /\ level' \in Nat /\ level' \in levels /\ \A k \in levels : level' <= k
      /\ levels' = levels \ {level'} /\ pending' = Expected(level')
      /\ main = "level" /\ main' = "wait"
      /\ UNCHANGED <<proc, heard, timeouts>>
  BY Lowest DEF BeginLevel, TypeOK
<1>2. \A m \in Modules : inbox'[m] \subseteq inbox[m] \cup {level'}
  BY DEF BeginLevel, Start
<1>3. \A n \in heard : Priority[n] < level' => Passed(n)
  <2>1. \A n \in heard : Priority[n] \in Nat
    BY PriorityAssumption DEF TypeOK
  <2>2. \A n \in heard : Priority[n] \in levels => level' <= Priority[n]
    BY <1>1
  <2>3. QED
    BY <1>1, <2>1, <2>2 DEF LoopsOn
<1>4. \A n \in Modules : Passed(n)' <=> Passed(n)
  BY <1>1 DEF Passed
<1>5. InOrder'
  <2> SUFFICES ASSUME NEW m \in Modules, NEW n \in Modules, NEW l \in Nat,
                      l \in inbox'[m] \/ (proc[m] \in {"started", "ready"} /\ l = Priority[m]),
                      n \in heard, Priority[n] < l
               PROVE  Passed(n)
    BY <1>1, <1>4 DEF InOrder
  <2>1. CASE l \in inbox'[m] /\ l \notin inbox[m]
    BY <1>2, <1>3, <2>1
  <2>2. CASE l \in inbox[m] \/ (proc[m] \in {"started", "ready"} /\ l = Priority[m])
    BY <2>2 DEF InOrder
  <2>3. QED
    BY <2>1, <2>2
<1>6. LoopsOn'
  <2>1. \A n \in heard : Priority[n] = level' => n \in pending'
    BY <1>1 DEF Expected, StartLevel, TypeOK
  <2>2. \A n \in heard : n \in Modules
    BY DEF TypeOK
  <2>3. QED
    BY <1>1, <1>4, <2>1, <2>2 DEF LoopsOn
<1>7. QED
  BY <1>5, <1>6

(* Every step keeps the order of the levels, and the loop over them where it is. *)
LEMMA OrderStep ==
  ASSUME TypeOK, Known, NotStarted, InOrder, LoopsOn, Next
  PROVE  InOrder' /\ LoopsOn'
<1> USE DEF boot, halt, mail
<1>1. \A n \in Modules : Passed(n) => Passed(n)'
  BY PassedStays
<1>2. heard \subseteq Modules
  BY DEF TypeOK
\* Neither is an order given, nor a module heard.
<1>3. ASSUME UNCHANGED heard,
             \A m \in Modules, l \in Nat :
               l \in inbox'[m] \/ (proc'[m] \in {"started", "ready"} /\ l = Priority[m])
               => l \in inbox[m] \/ (proc[m] \in {"started", "ready"} /\ l = Priority[m])
      PROVE  InOrder'
  BY <1>1, <1>3 DEF InOrder
<1>4. CASE BeginLevel
  BY <1>4, BeginInOrder
<1>5. ASSUME NEW m \in Modules, Spawn(m)
      PROVE  InOrder' /\ LoopsOn'
  <2>1. main' = "launch" /\ UNCHANGED <<heard, inbox>>
    BY <1>5 DEF Spawn
  <2>2. \A k \in Modules : proc'[k] \in {"started", "ready"} => proc'[k] = proc[k]
    BY <1>5 DEF Spawn, TypeOK
  <2>3. QED
    BY <1>3, <2>1, <2>2 DEF LoopsOn
<1>6. CASE LaunchBroker \/ KeepBroker \/ List \/ Collect
  <2>1. main' \notin {"level", "wait"} /\ UNCHANGED <<heard, inbox, proc>>
    BY <1>6 DEF LaunchBroker, KeepBroker, List, Collect
  <2>2. QED
    BY <1>3, <2>1 DEF LoopsOn
<1>7. CASE Collected
  <2>1. /\ main' = "level" /\ UNCHANGED <<heard, inbox, proc>>
        /\ levels' = {StartLevel(m) : m \in Modules}
    BY <1>7 DEF Collected
  <2>2. \A n \in heard : Priority[n] \in levels'
    BY <1>2, <2>1 DEF StartLevel
  <2>3. QED
    BY <1>3, <2>1, <2>2 DEF LoopsOn
<1>8. CASE LevelReady
  <2>1. /\ main = "wait" /\ pending = {} /\ main' = "level"
        /\ UNCHANGED <<heard, inbox, proc, levels>>
    BY <1>8 DEF LevelReady
  <2>2. QED
    BY <1>1, <1>2, <1>3, <2>1 DEF LoopsOn
<1>9. CASE LevelTimesOut
  <2>1. /\ main = "wait" /\ timeouts' = timeouts \cup {level} /\ main' = "level"
        /\ UNCHANGED <<heard, inbox, proc, levels>>
    BY <1>9 DEF LevelTimesOut
  <2>2. \A n \in heard : Priority[n] = level => Passed(n)'
    BY <2>1 DEF Passed
  <2>3. QED
    BY <1>1, <1>2, <1>3, <2>1, <2>2 DEF LoopsOn
<1>10. CASE BootDone \/ EndMain \/ Signal \/ SignalTerminates
  <2>1. /\ main' \notin {"level", "wait"} /\ UNCHANGED <<heard, inbox>>
        /\ \A k \in Modules : proc'[k] = proc[k] \/ proc'[k] = "exited"
    BY <1>10 DEF BootDone, EndMain, Signal, SignalTerminates, TerminateAll, TypeOK
  <2>2. QED
    BY <1>3, <2>1 DEF LoopsOn
<1>11. CASE AskShutdown \/ ReportStopped \/ Listener
  <2>1. /\ UNCHANGED <<main, heard, inbox, levels, level, pending>>
        /\ \A k \in Modules : proc'[k] = proc[k] \/ proc'[k] = "exited"
    BY <1>11 DEF AskShutdown, ReportStopped, Listener, ListenerStop, ListenerWait,
                 ListenerGoesOn, ListenerTerminates, TerminateAll, TypeOK
  <2>2. InOrder'
    BY <1>3, <2>1
  <2>3. LoopsOn'
    BY <1>1, <1>2, <2>1 DEF LoopsOn
  <2>4. QED
    BY <2>2, <2>3
<1>12. ASSUME NEW m \in Modules, Announce(m)
       PROVE  InOrder' /\ LoopsOn'
  <2>1. /\ proc' = [proc EXCEPT ![m] = "up"]
        /\ UNCHANGED <<main, inbox, levels, level, pending>>
        /\ heard' # heard => main = "collect"
    BY <1>12 DEF Announce
  <2>2. \A k \in Modules : proc'[k] \in {"started", "ready"} => proc'[k] = proc[k]
    BY <2>1 DEF TypeOK
  <2>3. InOrder'
    <3>1. CASE heard' = heard
      BY <1>3, <2>1, <2>2, <3>1
    <3>2. CASE main = "collect"
      BY <2>1, <2>2, <3>2 DEF NotStarted, InOrder
    <3>3. QED
      BY <2>1, <3>1, <3>2
  <2>4. LoopsOn'
    BY <1>1, <1>2, <2>1 DEF LoopsOn
  <2>5. QED
    BY <2>3, <2>4
<1>13. ASSUME NEW m \in Modules, HandleStart(m)
       PROVE  InOrder' /\ LoopsOn'
  <2>1. /\ Priority[m] \in inbox[m] /\ proc' = [proc EXCEPT ![m] = "started"]
        /\ inbox' = [inbox EXCEPT ![m] = @ \ {Priority[m]}]
        /\ UNCHANGED <<main, heard, levels, level, pending>>
    BY <1>13 DEF HandleStart
  <2>2. \A k \in Modules : inbox'[k] \subseteq inbox[k]
    BY <2>1
  <2>3. \A k \in Modules : proc'[k] \in {"started", "ready"} => k = m \/ proc'[k] = proc[k]
    BY <2>1 DEF TypeOK
  <2>4. InOrder'
    BY <1>3, <2>1, <2>2, <2>3
  <2>5. LoopsOn'
    BY <1>1, <1>2, <2>1 DEF LoopsOn
  <2>6. QED
    BY <2>4, <2>5
<1>14. ASSUME NEW m \in Modules, ReportReady(m)
       PROVE  InOrder' /\ LoopsOn'
  <2>1. /\ proc[m] = "started" /\ proc' = [proc EXCEPT ![m] = "ready"]
        /\ pending \ {m} \subseteq pending'
        /\ UNCHANGED <<main, heard, inbox, levels, level>>
    BY <1>14 DEF ReportReady
  <2>2. Passed(m)' /\ \A k \in Modules : k # m => proc'[k] = proc[k]
    BY <2>1 DEF Passed, TypeOK
  <2>3. InOrder'
    BY <1>3, <2>1, <2>2
  <2>4. LoopsOn'
    BY <1>1, <1>2, <2>1, <2>2 DEF LoopsOn
  <2>5. QED
    BY <2>3, <2>4
<1>15. ASSUME NEW m \in Modules, HandleStop(m) \/ Exit(m) \/ Crash(m)
       PROVE  InOrder' /\ LoopsOn'
  <2>1. /\ proc'[m] \notin {"started", "ready"}
        /\ \A k \in Modules : k # m => proc'[k] = proc[k]
        /\ UNCHANGED <<main, heard, inbox, levels, level, pending>>
    BY <1>15 DEF HandleStop, Exit, Crash, TypeOK
  <2>2. InOrder'
    BY <1>3, <2>1
  <2>3. LoopsOn'
    BY <1>1, <1>2, <2>1 DEF LoopsOn
  <2>4. QED
    BY <2>2, <2>3
<1>16. QED
  BY <1>4, <1>5, <1>6, <1>7, <1>8, <1>9, <1>10, <1>11, <1>12, <1>13, <1>14, <1>15
     DEF Next, Main, Module

\* Whatever the modules, their priorities, and what happens to them: one that has
\* started finds the modules of the lower levels ready, ended, given up or unheard.
THEOREM LowerLevelsFirstCorrect == Spec => []LowerLevelsFirst
<1>1. Init => Started
  <2> SUFFICES ASSUME Init PROVE Started
    OBVIOUS
  <2>1. /\ \A m \in Modules : proc[m] = "none" /\ inbox[m] = {}
        /\ main = "start" /\ pending = {} /\ listener = "none"
    BY DEF Init
  <2>2. NotStarted /\ InOrder /\ LoopsOn /\ Known
    BY <2>1 DEF NotStarted, InOrder, LoopsOn, Known
  <2>3. QED
    BY <2>2, InitType DEF Started
<1>2. Started /\ [Next]_vars => Started'
  <2> SUFFICES ASSUME Started, [Next]_vars PROVE Started'
    OBVIOUS
  <2>1. CASE Next
    BY <2>1, StepType, KnownStep, NotStartedStep, OrderStep DEF Started
  <2>2. CASE UNCHANGED vars
    BY <2>2 DEF vars, boot, halt, bus, mail, Started, TypeOK, NotStarted, InOrder, LoopsOn,
                Known, Passed, StartLevel
  <2>3. QED
    BY <2>1, <2>2
<1>3. Started => LowerLevelsFirst
  BY PriorityAssumption DEF Started, InOrder, Passed, LowerLevelsFirst
<1>4. QED
  BY <1>1, <1>2, <1>3, PTL DEF Spec

-----------------------------------------------------------------------------
(* What is left.                                                           *)

(* Every step keeps OneByOne. *)
LEMMA OneByOneStep ==
  ASSUME TypeOK, Known, OneByOne, Next
  PROVE  OneByOne'
<1> USE DEF OneByOne, boot, halt, bus, mail, TypeOK
<1>1. ASSUME NEW m \in Modules, Spawn(m)
      PROVE  OneByOne'
  <2>1. /\ main' = "launch" /\ spawned' = {m} /\ UNCHANGED broker_proc
        /\ main = "launch"
    BY <1>1 DEF Spawn
  <2>2. QED
    BY <2>1
<1>2. CASE LaunchBroker \/ KeepBroker \/ List
  BY <1>2 DEF LaunchBroker, KeepBroker, List, Nobody
<1>3. CASE \/ Collect \/ Collected \/ BeginLevel \/ LevelReady \/ LevelTimesOut
           \/ BootDone \/ EndMain \/ Signal
  BY <1>3 DEF Collect, Collected, BeginLevel, LevelReady, LevelTimesOut, BootDone,
              EndMain, Signal, TerminateBroker
<1>4. CASE SignalTerminates \/ ListenerTerminates
  <2>1. /\ UNCHANGED <<spawned, listed, broker_proc>>
        /\ main' = main \/ main' = "exited"
        /\ proc' = [m \in Modules |-> IF m \in listed THEN "exited" ELSE proc[m]]
    BY <1>4 DEF SignalTerminates, ListenerTerminates, TerminateAll, TerminateBroker
  <2>2. QED
    BY <2>1
<1>5. CASE AskShutdown \/ ReportStopped \/ ListenerStop \/ ListenerWait \/ ListenerGoesOn
  BY <1>5 DEF AskShutdown, ReportStopped, ListenerStop, ListenerWait, ListenerGoesOn
<1>6. ASSUME NEW m \in Modules,
             \/ Announce(m) \/ HandleStart(m) \/ ReportReady(m) \/ HandleStop(m)
             \/ Exit(m) \/ Crash(m)
      PROVE  OneByOne'
  <2>1. proc[m] # "none" /\ UNCHANGED <<main, spawned, listed, broker_proc>>
    BY <1>6 DEF Announce, HandleStart, ReportReady, HandleStop, Exit, Crash, Receives,
                Alive
  <2>2. QED
    BY <2>1
<1>7. QED
  BY <1>1, <1>2, <1>3, <1>4, <1>5, <1>6 DEF Next, Main, Module, Listener

(* Every step of the shutdown, and every other one, keeps what is left at the end. *)
LEMMA TerminatedStep ==
  ASSUME TypeOK, Known, OneByOne, Terminated, NothingIsLeft, Next
  PROVE  Terminated' /\ NothingIsLeft'
<1> USE DEF Terminated, NothingIsLeft, Alive, boot, halt, bus, mail
<1>1. ASSUME NEW m \in Modules, Spawn(m)
      PROVE  Terminated' /\ NothingIsLeft'
  <2>1. /\ main = "launch" /\ main' = "launch" /\ listener' = "none"
        /\ UNCHANGED stopping
    BY <1>1 DEF Spawn, Known
  <2>2. ~ stopping'
    BY <2>1, Zenon
  <2>3. QED
    BY <2>1, <2>2
<1>2. CASE \/ LaunchBroker \/ KeepBroker \/ List \/ Collect \/ Collected
           \/ BeginLevel \/ LevelReady \/ LevelTimesOut
  <2>1. /\ main \notin {"run", "stop", "exited"} /\ main' \notin {"run", "exited"}
        /\ UNCHANGED <<listener, proc, stopping>>
    BY <1>2 DEF LaunchBroker, KeepBroker, List, Collect, Collected, BeginLevel,
                LevelReady, LevelTimesOut
  <2>2. ~ stopping'
    BY <2>1, Zenon
  <2>3. QED
    BY <2>1, <2>2
<1>3. CASE BootDone
  BY <1>3 DEF BootDone
<1>4. CASE EndMain
  BY <1>4 DEF EndMain, TerminateBroker, OneByOne
<1>5. CASE Signal
  BY <1>5 DEF Signal
<1>6. CASE SignalTerminates
  <2>1. \A m \in Modules : proc'[m] \notin {"none", "exited"} => spawned = {m}
    BY <1>6 DEF SignalTerminates, TerminateAll, Known, TypeOK, OneByOne
  <2>2. /\ main' = "exited" /\ main = "stop" /\ UNCHANGED <<spawned, listener, stopping>>
        /\ broker' = (broker /\ ~ broker_proc) /\ UNCHANGED broker_proc
    BY <1>6 DEF SignalTerminates, TerminateBroker
  <2>3. ~ broker_proc => \A m \in Modules : proc'[m] = "none"
    BY <1>6 DEF SignalTerminates, TerminateAll, OneByOne, Known, TypeOK
  <2>4. listener = "done" => \A m \in Modules : proc'[m] = "exited"
    BY <1>6 DEF SignalTerminates, TerminateAll, TypeOK
  <2>5. NothingIsLeft'
    BY <2>1, <2>2, <2>3
  <2>6. Terminated'
    BY <2>2, <2>4
  <2>7. QED
    BY <2>5, <2>6
<1>7. CASE main # "exited" /\ ListenerTerminates
  BY <1>7 DEF ListenerTerminates, TerminateAll, Known, TypeOK
<1>8. CASE \/ AskShutdown \/ ReportStopped
           \/ main # "exited" /\ (ListenerStop \/ ListenerWait \/ ListenerGoesOn)
  BY <1>8 DEF AskShutdown, ReportStopped, ListenerStop, ListenerWait, ListenerGoesOn
<1>9. ASSUME NEW m \in Modules,
             \/ Announce(m) \/ HandleStart(m) \/ ReportReady(m) \/ HandleStop(m)
             \/ Exit(m) \/ Crash(m)
      PROVE  Terminated' /\ NothingIsLeft'
  <2>1. /\ Alive(m) /\ \A k \in Modules : k # m => proc'[k] = proc[k]
        /\ UNCHANGED <<main, spawned, broker, broker_proc, stopping, listener>>
    BY <1>9 DEF Announce, HandleStart, ReportReady, HandleStop, Exit, Crash, Receives,
                TypeOK
  <2>2. QED
    BY <2>1
<1>10. QED
  BY <1>1, <1>2, <1>3, <1>4, <1>5, <1>6, <1>7, <1>8, <1>9 DEF Next, Main, Module, Listener

\* When the orchestrator has exited nothing runs any more, but for the one process
\* that was being launched when the signal came: a module, or the broker itself.
THEOREM NothingIsLeftCorrect == Spec => []NothingIsLeft
<1> DEFINE Inv == Started /\ Left
<1>1. Init => Inv
  <2> SUFFICES ASSUME Init PROVE Inv
    OBVIOUS
  <2>1. /\ \A m \in Modules : proc[m] = "none" /\ inbox[m] = {}
        /\ main = "start" /\ pending = {} /\ listener = "none" /\ ~ stopping
        /\ spawned = {} /\ listed = {}
    BY DEF Init, Nobody
  <2>2. /\ NotStarted /\ InOrder /\ LoopsOn /\ Known /\ Terminated /\ NothingIsLeft
        /\ OneByOne
    BY <2>1 DEF NotStarted, InOrder, LoopsOn, Known, Terminated, NothingIsLeft,
                OneByOne
  <2>3. QED
    BY <2>2, InitType DEF Started, Left
<1>2. Inv /\ [Next]_vars => Inv'
  <2> SUFFICES ASSUME Started, Left, [Next]_vars PROVE Inv'
    OBVIOUS
  <2>1. CASE Next
    BY <2>1, StepType, KnownStep, NotStartedStep, OrderStep, OneByOneStep,
       TerminatedStep DEF Started, Left
  <2>2. CASE UNCHANGED vars
    BY <2>2 DEF vars, boot, halt, bus, mail, Started, TypeOK, NotStarted, InOrder, LoopsOn,
                Known, Passed, StartLevel, Left, OneByOne, Terminated, NothingIsLeft, Alive
  <2>3. QED
    BY <2>1, <2>2
<1>3. Inv => NothingIsLeft
  BY DEF Left
<1>4. QED
  BY <1>1, <1>2, <1>3, PTL DEF Spec

============================================================================
