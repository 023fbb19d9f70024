--------------------------- MODULE SessionProofs ----------------------------
(***************************************************************************)
(* Theorems about the channel modules of a session, and about the session. *)
(*                                                                         *)
(* ChannelManager, for any number of channels and sessions.  TypeOK and    *)
(* Bookkeeping are inductive, whatever goes wrong.  With                   *)
(* LiveChildrenAreCurrent they give that generations of children do not    *)
(* mix in the behaviours where no thread runs between the test and the     *)
(* store of _session and every module has its script (SessionKept).        *)
(* Startup is inductive for a single session of modules of one level; it   *)
(* gives that channels_ready is true.                                      *)
(*                                                                         *)
(* AASession, for any number of connections, configuration changes and     *)
(* pings, whatever happens.  SessionInv is inductive: it follows the       *)
(* messages of a handshake around the ring of the processes, where no two  *)
(* handshakes can both come to ask for the services, and what              *)
(* channel_manager has been told since.                                    *)
(***************************************************************************)
EXTENDS ChannelManager, AASession, SequenceTheorems, TLAPS

-----------------------------------------------------------------------------
(* Functions.                                                              *)

\* An EXCEPT keeps the type of a function.
LEMMA ExceptType ==
  ASSUME NEW A, NEW T, NEW f \in [A -> T], NEW x, NEW v \in T
  PROVE  [f EXCEPT ![x] = v] \in [A -> T]
OBVIOUS

\* The same for the nested functions that hold the state of the children.
LEMMA ExceptType2 ==
  ASSUME NEW A, NEW B, NEW T, NEW f \in [A -> [B -> T]],
         NEW x \in A, NEW y \in B, NEW v \in T
  PROVE  [f EXCEPT ![x][y] = v] \in [A -> [B -> T]]
OBVIOUS

-----------------------------------------------------------------------------
(* Types.                                                                  *)

\* A current session is one of Sessions.
LEMMA CurrentSession ==
  ASSUME GlobalsOK, session # NoSession
  PROVE  session \in Sessions
BY MaxSessionsAssumption DEF GlobalsOK, NoSession, Sessions

\* The circumstances of a behaviour keep to the constants.
LEMMA ScenarioBounds ==
  ASSUME ScenarioOK
  PROVE  /\ Offered \subseteq Channels
         /\ scenario.sessions \in Nat /\ scenario.sessions <= MaxSessions
BY ScenariosAssumption, MaxSessionsAssumption DEF ScenarioOK, Offered

\* Init is well typed.
LEMMA InitTypeOK == Init => TypeOK
<1> SUFFICES ASSUME Init PROVE TypeOK
  OBVIOUS
<1>1. GlobalsOK
  <2>1. closing \in BOOLEAN
    BY Zenon DEF Init
  <2>2. QED
    BY <2>1, MaxSessionsAssumption DEF Init, GlobalsOK, NoSession
<1>2. SessionsOK
  BY DEF Init, SessionsOK
<1>3. ThreadsOK
  BY DEF Init, ThreadsOK, NoSession
<1>4. ChildrenOK
  BY DEF Init, ChildrenOK, Phases
<1>5. QED
  BY <1>1, <1>2, <1>3, <1>4 DEF TypeOK, ScenarioOK, Init

\* A broadcast keeps the queues of the children well typed.
LEMMA BroadcastType ==
  ASSUME NEW msgs \in [Channels -> Seq(Topics)],
         ChildrenOK, Broadcast(msgs)
  PROVE  inbox' \in [Sessions -> [Channels -> Seq(Topics)]]
<1>1. \A s \in Sessions, c \in Channels :
        inbox[s][c] \o msgs[c] \in Seq(Topics)
  BY DEF ChildrenOK
<1>2. QED
  BY <1>1 DEF Broadcast, ChildrenOK

\* The first part of shutdown() keeps the types of what it touches.
LEMMA QuiesceType ==
  ASSUME NEW s \in Sessions, SessionsOK, ChildrenOK, Quiesce(s)
  PROVE  SessionsOK' /\ ChildrenOK'
<1> DEFINE both == <<"close", "stop">>
           only == <<"stop">>
           msgs == [c \in Channels |-> IF c \in live[s] THEN both ELSE only]
<1>1. ChildrenOK'
  <2>1. Broadcast(msgs)
    BY DEF Quiesce
  <2>2. both \in Seq(Topics) /\ only \in Seq(Topics)
    BY DEF Topics
  <2> HIDE DEF both, only
  <2>3. msgs \in [Channels -> Seq(Topics)]
    BY <2>2
  <2>4. inbox' \in [Sessions -> [Channels -> Seq(Topics)]]
    BY <2>1, <2>3, BroadcastType
  <2>5. QED
    BY <2>4 DEF Quiesce, ChildrenOK
<1>2. SessionsOK'
  <2>1. active' \in [Sessions -> BOOLEAN]
    BY ExceptType, Zenon DEF Quiesce, SessionsOK
  <2>2. /\ known' \in [Sessions -> SUBSET Channels]
        /\ live' \in [Sessions -> SUBSET Channels]
    BY DEF Quiesce, SessionsOK
  <2>3. QED
    BY <2>1, <2>2 DEF Quiesce, SessionsOK
<1>3. QED
  BY <1>1, <1>2

\* start() is well typed whatever it managed to spawn.
LEMMA SpawnType ==
  ASSUME TypeOK, opened \in Sessions, NEW up \in SUBSET Channels, Spawn(up)
  PROVE  /\ active' \in [Sessions -> BOOLEAN]
         /\ procs' \in [Sessions -> SUBSET Channels]
         /\ ChildrenOK'
         /\ bpc' = "idle" /\ bses' \in Nat /\ bses' <= opened'
         /\ bnext' \in {"none", "spawn", "drop", "halt"}
<1>1. active' \in [Sessions -> BOOLEAN]
  BY ExceptType, Zenon DEF Spawn, TypeOK, SessionsOK
<1>2. procs' \in [Sessions -> SUBSET Channels]
  BY DEF Spawn, TypeOK, SessionsOK
<1>3. ChildrenOK'
  <2>1. phase' \in [Sessions -> [Channels -> Phases]]
    BY DEF Spawn, TypeOK, ChildrenOK, Phases
  <2>2. QED
    BY <2>1 DEF Spawn, TypeOK, ChildrenOK
<1>4. QED
  BY <1>1, <1>2, <1>3 DEF Spawn, TypeOK, ThreadsOK

\* Every step of the bus thread keeps the types, except for the handlers of
\* the children's messages, which come next.
LEMMA BusType ==
  ASSUME TypeOK,
         \/ OpenChannels \/ EndSession \/ SystemStop \/ BusStopped
         \/ SpawnAll \/ SpawnUnresolved \/ SpawnMissing \/ SpawnFails,
         bpc = "spawn" => opened \in Sessions,
         bpc = "stopping" => bses \in Sessions,
         UNCHANGED scenario
  PROVE  TypeOK'
<1> USE DEF TypeOK, ScenarioOK
<1>0. /\ Offered \subseteq Channels
      /\ scenario.sessions \in Nat /\ scenario.sessions <= MaxSessions
  BY ScenarioBounds
<1>1. CASE OpenChannels
  <2>1. CASE session = NoSession
    BY <1>0, <1>1, <2>1, MaxSessionsAssumption
    DEF OpenChannels, GlobalsOK, SessionsOK, ThreadsOK, ChildrenOK,
        sessionVars, childVars, waitVars, NoSession
  <2>2. CASE session # NoSession
    <3>1. SessionsOK' /\ ChildrenOK'
      BY <1>1, <2>2, CurrentSession, QuiesceType DEF OpenChannels
    <3>2. GlobalsOK' /\ ThreadsOK'
      BY <1>0, <1>1, <2>2, MaxSessionsAssumption
      DEF OpenChannels, GlobalsOK, ThreadsOK, waitVars, NoSession
    <3>3. QED
      BY <3>1, <3>2
  <2>3. QED
    BY <2>1, <2>2
<1>2. CASE EndSession
  <2>1. SessionsOK' /\ ChildrenOK'
    BY <1>2, CurrentSession, QuiesceType DEF EndSession
  <2>2. GlobalsOK' /\ ThreadsOK'
    BY <1>2 DEF EndSession, GlobalsOK, ThreadsOK, waitVars
  <2>3. QED
    BY <2>1, <2>2
<1>3. CASE SystemStop
  <2>1. CASE session = NoSession
    BY <1>3, <2>1
    DEF SystemStop, GlobalsOK, SessionsOK, ThreadsOK, ChildrenOK,
        sessionVars, childVars, waitVars
  <2>2. CASE session # NoSession
    <3>1. SessionsOK' /\ ChildrenOK'
      BY <1>3, <2>2, CurrentSession, QuiesceType DEF SystemStop
    <3>2. GlobalsOK' /\ ThreadsOK'
      BY <1>3, <2>2 DEF SystemStop, GlobalsOK, ThreadsOK, waitVars
    <3>3. QED
      BY <3>1, <3>2
  <2>3. QED
    BY <2>1, <2>2
<1>4. CASE BusStopped
  <2>1. bses \in Sessions
    BY <1>4 DEF BusStopped
  <2>2. procs' \in [Sessions -> SUBSET Channels]
    BY <1>4, <2>1 DEF BusStopped, StopAllDone, SessionsOK
  <2>3. SessionsOK'
    BY <1>4, <2>2 DEF BusStopped, StopAllDone, SessionsOK
  <2>4. GlobalsOK'
    BY <1>4, <2>1, MaxSessionsAssumption
    DEF BusStopped, StopAllDone, GlobalsOK, NoSession
  <2>5. ThreadsOK' /\ ChildrenOK'
    BY <1>4 DEF BusStopped, ThreadsOK, ChildrenOK, GlobalsOK, waitVars,
                childVars, NoSession
  <2>6. QED
    BY <2>3, <2>4, <2>5
<1>5. CASE SpawnAll
  <2>1. opened \in Sessions
    BY <1>5 DEF SpawnAll
  <2>2. /\ evStart' \in [Sessions -> BOOLEAN]
        /\ evReady' \in [Sessions -> BOOLEAN]
    BY <1>5, ExceptType, Zenon DEF SpawnAll, SessionsOK
  <2>3. /\ expected' \in [Sessions -> SUBSET Channels]
        /\ known' \in [Sessions -> SUBSET Channels]
    BY <1>0, <1>5 DEF SpawnAll, SessionsOK
  <2>4. SessionsOK'
    BY <1>0, <1>5, <2>1, <2>2, <2>3, SpawnType DEF SpawnAll, Spawn, SessionsOK
  <2>5. GlobalsOK'
    BY <1>5, <2>1 DEF SpawnAll, Spawn, GlobalsOK
  <2>6. ThreadsOK'
    BY <1>0, <1>5, <2>1, SpawnType DEF SpawnAll, ThreadsOK
  <2>7. ChildrenOK'
    BY <1>0, <1>5, <2>1, SpawnType DEF SpawnAll
  <2>8. QED
    BY <2>4, <2>5, <2>6, <2>7
<1>6. ASSUME NEW up \in SUBSET Channels, Spawn(up), bpc = "spawn",
             session' \in {NoSession, opened},
             known' \in {known, [known EXCEPT ![opened] = Offered]},
             UNCHANGED <<expected, evStart, evReady, waitVars>>
      PROVE  TypeOK'
  <2>1. opened \in Sessions
    BY <1>6
  <2>2. known' \in [Sessions -> SUBSET Channels]
    BY <1>0, <1>6 DEF SessionsOK
  <2>3. SessionsOK'
    BY <1>6, <2>1, <2>2, SpawnType DEF Spawn, SessionsOK
  <2>4. GlobalsOK'
    BY <1>6, <2>1 DEF Spawn, GlobalsOK, NoSession
  <2>5. ThreadsOK' /\ ChildrenOK'
    BY <1>6, <2>1, SpawnType DEF ThreadsOK, waitVars
  <2>6. QED
    BY <2>3, <2>4, <2>5
<1>7. CASE SpawnUnresolved
  BY <1>6, <1>7 DEF SpawnUnresolved
<1>8. CASE SpawnMissing
  BY <1>0, <1>6, <1>8 DEF SpawnMissing
<1>9. CASE SpawnFails
  BY <1>0, <1>6, <1>9 DEF SpawnFails
<1>10. QED
  BY <1>1, <1>2, <1>3, <1>4, <1>5, <1>7, <1>8, <1>9

\* The handlers of the children's messages keep the types.
LEMMA HearType ==
  ASSUME TypeOK, NEW s \in Sessions, NEW c \in Channels,
         HearToStart(s, c) \/ HearReady(s, c) \/ HearStopped(s, c),
         UNCHANGED scenario
  PROVE  TypeOK'
<1> USE DEF TypeOK, ScenarioOK
<1>1. \E m \in Messages : Hear(s, c, m)
  BY DEF HearToStart, HearReady, HearStopped, Messages
<1>2. GlobalsOK' /\ ThreadsOK'
  BY <1>1 DEF Hear, GlobalsOK, ThreadsOK, waitVars, busVars
<1>3. ChildrenOK'
  <2>1. heard[s][c] + 1 \in Nat
    BY DEF ChildrenOK
  <2>2. heard' = [heard EXCEPT ![s][c] = heard[s][c] + 1]
    BY <1>1 DEF Hear
  <2>3. heard' \in [Sessions -> [Channels -> Nat]]
    BY <2>1, <2>2, ExceptType2 DEF ChildrenOK
  <2>4. QED
    BY <1>1, <2>3 DEF Hear, ChildrenOK
<1>4. /\ active' \in [Sessions -> BOOLEAN]
      /\ procs' \in [Sessions -> SUBSET Channels]
      /\ expected' \in [Sessions -> SUBSET Channels]
      /\ known' \in [Sessions -> SUBSET Channels]
  BY <1>1 DEF Hear, SessionsOK
<1>5. /\ toStart' \in [Sessions -> SUBSET Channels]
      /\ ready' \in [Sessions -> SUBSET Channels]
      /\ live' \in [Sessions -> SUBSET Channels]
      /\ acked' \in [Sessions -> SUBSET Channels]
  <2>1. CASE HearToStart(s, c)
    BY <2>1 DEF HearToStart, SessionsOK
  <2>2. CASE HearReady(s, c)
    BY <2>2 DEF HearReady, SessionsOK
  <2>3. CASE HearStopped(s, c)
    <3>1. CASE session # NoSession /\ AckedName(c) \in expected[session]
      <4>1. AckedName(c) \in Channels
        BY <3>1, CurrentSession DEF SessionsOK
      <4>2. QED
        BY <2>3, <3>1, <4>1 DEF HearStopped, SessionsOK
    <3>2. CASE ~ (session # NoSession /\ AckedName(c) \in expected[session])
      BY <2>3, <3>2 DEF HearStopped, SessionsOK
    <3>3. QED
      BY <3>1, <3>2
  <2>4. QED
    BY <2>1, <2>2, <2>3
<1>6. /\ evStart' \in [Sessions -> BOOLEAN]
      /\ evReady' \in [Sessions -> BOOLEAN]
  BY ExceptType, Zenon DEF HearToStart, HearReady, HearStopped, SessionsOK
<1>7. QED
  BY <1>2, <1>3, <1>4, <1>5, <1>6 DEF SessionsOK

\* Every step of a wait thread keeps the types.
LEMMA WaitType ==
  ASSUME TypeOK, NEW s \in Sessions, WaitThread(s), UNCHANGED scenario
  PROVE  TypeOK'
<1> USE DEF TypeOK, ScenarioOK
<1>1. UNCHANGED <<opened, busVars, mon, closing>>
  BY DEF WaitThread
<1>2. /\ announced' \subseteq Sessions /\ stopped' \subseteq Sessions
      /\ session' \in {session, NoSession}
  BY DEF WaitThread, AllReadyToStart, StartTimeout, StartLevel, LevelReady,
         LevelTimeout, ClearReady, StartupDone, StartupFailed, WaitStopped,
         ResetSession, TestSession, DropSession, StopAllDone, GlobalsOK
<1>3. GlobalsOK'
  BY <1>1, <1>2 DEF GlobalsOK, NoSession
<1>4. wpc' \in [Sessions -> {"none", "waitStart", "next", "waitReady",
                             "clear", "stopping", "reset", "drop", "done"}]
  BY DEF WaitThread, AllReadyToStart, StartTimeout, StartLevel, LevelReady,
         LevelTimeout, ClearReady, StartupDone, StartupFailed, WaitStopped,
         ResetSession, TestSession, DropSession, ThreadsOK
<1>5. wtodo' \in [Sessions -> SUBSET Nat]
  <2>1. CASE AllReadyToStart(s)
    <3>1. {Priority[c] : c \in toStart[s]} \in SUBSET Nat
      BY PriorityAssumption DEF SessionsOK
    <3>2. QED
      BY <2>1, <3>1, ExceptType DEF AllReadyToStart, ThreadsOK
  <2>2. CASE StartLevel(s)
    BY <2>2 DEF StartLevel, ThreadsOK
  <2>3. CASE UNCHANGED wtodo
    BY <2>3 DEF ThreadsOK
  <2>4. QED
    BY <2>1, <2>2, <2>3
    DEF WaitThread, StartTimeout, LevelReady, LevelTimeout, ClearReady,
        StartupDone, StartupFailed, WaitStopped, ResetSession, TestSession,
        DropSession
<1>6. wok' \in [Sessions -> BOOLEAN]
  BY ExceptType, Zenon
  DEF WaitThread, AllReadyToStart, StartTimeout, StartLevel, LevelReady,
      LevelTimeout, ClearReady, StartupDone, StartupFailed, WaitStopped,
      ResetSession, TestSession, DropSession, ThreadsOK
<1>7. ThreadsOK'
  BY <1>1, <1>4, <1>5, <1>6 DEF ThreadsOK, busVars
<1>8. CASE StartLevel(s)
  <2> DEFINE only == <<"start">>
             nil  == << >>
  <2>1. only \in Seq(Topics) /\ nil \in Seq(Topics)
    BY DEF Topics
  <2>2. PICK p \in wtodo[s] :
          Broadcast([c \in Channels |->
                       IF Priority[c] = p THEN only ELSE nil])
    BY <1>8 DEF StartLevel
  <2> HIDE DEF only, nil
  <2>3. [c \in Channels |-> IF Priority[c] = p THEN only ELSE nil]
          \in [Channels -> Seq(Topics)]
    BY <2>1
  <2>4. inbox' \in [Sessions -> [Channels -> Seq(Topics)]]
    BY <2>2, <2>3, BroadcastType
  <2>5. ChildrenOK' /\ SessionsOK'
    BY <1>8, <2>4 DEF StartLevel, ChildrenOK, SessionsOK, sessionVars
  <2>6. QED
    BY <1>3, <1>7, <2>5
<1>9. CASE LevelReady(s)
  <2> DEFINE only == <<"open">>
             nil  == << >>
  <2>1. only \in Seq(Topics) /\ nil \in Seq(Topics)
    BY DEF Topics
  <2>2. Broadcast([c \in Channels |-> IF c \in live[s] THEN only ELSE nil])
    BY <1>9 DEF LevelReady
  <2> HIDE DEF only, nil
  <2>3. [c \in Channels |-> IF c \in live[s] THEN only ELSE nil]
          \in [Channels -> Seq(Topics)]
    BY <2>1
  <2>4. inbox' \in [Sessions -> [Channels -> Seq(Topics)]]
    BY <2>2, <2>3, BroadcastType
  <2>5. ChildrenOK' /\ SessionsOK'
    BY <1>9, <2>4 DEF LevelReady, ChildrenOK, SessionsOK, sessionVars
  <2>6. QED
    BY <1>3, <1>7, <2>5
<1>10. CASE StartupFailed(s)
  BY <1>3, <1>7, <1>10, QuiesceType DEF StartupFailed
<1>11. CASE ClearReady(s)
  <2>1. evReady' \in [Sessions -> BOOLEAN]
    BY <1>11, ExceptType, Zenon DEF ClearReady, SessionsOK
  <2>2. ChildrenOK' /\ SessionsOK'
    BY <1>11, <2>1 DEF ClearReady, ChildrenOK, SessionsOK, childVars
  <2>3. QED
    BY <1>3, <1>7, <2>2
<1>12. CASE WaitStopped(s)
  <2>1. procs' \in [Sessions -> SUBSET Channels]
    BY <1>12 DEF WaitStopped, StopAllDone, SessionsOK
  <2>2. ChildrenOK' /\ SessionsOK'
    BY <1>12, <2>1
    DEF WaitStopped, StopAllDone, ChildrenOK, SessionsOK, childVars
  <2>3. QED
    BY <1>3, <1>7, <2>2
<1>13. CASE UNCHANGED <<sessionVars, childVars>>
  BY <1>3, <1>7, <1>13 DEF ChildrenOK, SessionsOK, sessionVars, childVars
<1>14. QED
  BY <1>8, <1>9, <1>10, <1>11, <1>12, <1>13
  DEF WaitThread, AllReadyToStart, StartTimeout, LevelTimeout, StartupDone,
      ResetSession, TestSession, DropSession

\* The crash monitor keeps the types.
LEMMA MonitorType ==
  ASSUME TypeOK, Monitor, UNCHANGED scenario
  PROVE  TypeOK'
<1>1. closing' \in BOOLEAN
  BY Zenon DEF Monitor, MonitorPoll, MonitorTest, MonitorUse, TypeOK,
               GlobalsOK
<1>2. mon' \in {"poll", "use", "dead"}
  BY DEF Monitor, MonitorPoll, MonitorTest, MonitorUse, TypeOK, GlobalsOK
<1>3. QED
  BY <1>1, <1>2
  DEF Monitor, TypeOK, ScenarioOK, GlobalsOK, SessionsOK, ThreadsOK, ChildrenOK,
      sessionVars, waitVars, busVars, childVars

\* Every step of a child keeps the types.
LEMMA ChildType ==
  ASSUME TypeOK, NEW s \in Sessions, NEW c \in Channels, Child(s, c),
         UNCHANGED scenario
  PROVE  TypeOK'
<1>1. UNCHANGED managerVars
  BY DEF Child, Subscribe, Announce, OnModuleStart, PublishReady,
         OnModuleStop, OnChannelOpen, OnChannelClose, Terminate, Crash
<1>2. (GlobalsOK /\ SessionsOK /\ ThreadsOK)'
  BY <1>1 DEF TypeOK, GlobalsOK, SessionsOK, ThreadsOK, managerVars,
              sessionVars, waitVars, busVars
<1>3. phase' \in [Sessions -> [Channels -> Phases]]
  <2>1. CASE UNCHANGED phase
    BY <2>1 DEF TypeOK, ChildrenOK
  <2>2. CASE \E q \in Phases : phase' = [phase EXCEPT ![s][c] = q]
    BY <2>2, ExceptType2 DEF TypeOK, ChildrenOK
  <2>3. QED
    BY <2>1, <2>2
    DEF Child, Subscribe, Announce, OnModuleStart, PublishReady,
        OnModuleStop, OnChannelOpen, OnChannelClose, Terminate, Crash,
        Take, Phases
<1>4. said' \in [Sessions -> [Channels -> Seq(Messages)]]
  <2>1. CASE UNCHANGED said
    BY <2>1 DEF TypeOK, ChildrenOK
  <2>2. ASSUME NEW m \in Messages,
               said' = [said EXCEPT ![s][c] = Append(@, m)]
        PROVE  said' \in [Sessions -> [Channels -> Seq(Messages)]]
    <3>1. Append(said[s][c], m) \in Seq(Messages)
      BY DEF TypeOK, ChildrenOK
    <3>2. QED
      BY <2>2, <3>1, ExceptType2 DEF TypeOK, ChildrenOK
  <2>3. \/ UNCHANGED said
        \/ \E m \in Messages : said' = [said EXCEPT ![s][c] = Append(@, m)]
    BY DEF Child, Subscribe, Announce, OnModuleStart, PublishReady,
           OnModuleStop, OnChannelOpen, OnChannelClose, Terminate, Crash,
           Take, Messages
  <2>4. QED
    BY <2>1, <2>2, <2>3
<1>5. inits' \in [Sessions -> [Channels -> Nat]]
  <2>1. CASE UNCHANGED inits
    BY <2>1 DEF TypeOK, ChildrenOK
  <2>2. CASE inits' = [inits EXCEPT ![s][c] = 0]
    BY <2>2, ExceptType2 DEF TypeOK, ChildrenOK
  <2>3. CASE inits' = [inits EXCEPT ![s][c] = @ + 1]
    <3>1. inits[s][c] + 1 \in Nat
      BY DEF TypeOK, ChildrenOK
    <3>2. QED
      BY <2>3, <3>1, ExceptType2 DEF TypeOK, ChildrenOK
  <2>4. QED
    BY <2>1, <2>2, <2>3
    DEF Child, Subscribe, Announce, OnModuleStart, PublishReady,
        OnModuleStop, OnChannelOpen, OnChannelClose, Terminate, Crash
<1>6. chOpen' \in [Sessions -> [Channels -> BOOLEAN]]
  <2>1. CASE UNCHANGED chOpen
    BY <2>1, Zenon DEF TypeOK, ChildrenOK
  <2>2. ASSUME NEW b \in BOOLEAN, chOpen' = [chOpen EXCEPT ![s][c] = b]
        PROVE  chOpen' \in [Sessions -> [Channels -> BOOLEAN]]
    <3>1. chOpen \in [Sessions -> [Channels -> BOOLEAN]]
      BY Zenon DEF TypeOK, ChildrenOK
    <3> HIDE DEF Sessions
    <3>2. QED
      BY <2>2, <3>1, ExceptType2, Zenon
  <2>3. QED
    BY <2>1, <2>2, Zenon
    DEF Child, Subscribe, Announce, OnModuleStart, PublishReady,
        OnModuleStop, OnChannelOpen, OnChannelClose, Terminate, Crash
<1>7. inbox' \in [Sessions -> [Channels -> Seq(Topics)]]
  <2>1. inbox[s][c] \in Seq(Topics) /\ << >> \in Seq(Topics)
    BY DEF TypeOK, ChildrenOK
  <2>2. inbox[s][c] # << >> => Tail(inbox[s][c]) \in Seq(Topics)
    BY <2>1
  <2>3. \/ UNCHANGED inbox
        \/ inbox' = [inbox EXCEPT ![s][c] = << >>]
        \/ /\ inbox[s][c] # << >>
           /\ inbox' = [inbox EXCEPT ![s][c] = Tail(@)]
    BY DEF Child, Subscribe, Announce, OnModuleStart, PublishReady,
           OnModuleStop, OnChannelOpen, OnChannelClose, Terminate, Crash,
           Take
  <2>4. inbox \in [Sessions -> [Channels -> Seq(Topics)]]
    BY DEF TypeOK, ChildrenOK
  <2>5. CASE UNCHANGED inbox
    BY <2>4, <2>5
  <2>6. CASE inbox' = [inbox EXCEPT ![s][c] = << >>]
    BY <2>1, <2>4, <2>6, ExceptType2
  <2>7. CASE /\ inbox[s][c] # << >>
             /\ inbox' = [inbox EXCEPT ![s][c] = Tail(@)]
    BY <2>2, <2>4, <2>7, ExceptType2
  <2>8. QED
    BY <2>3, <2>5, <2>6, <2>7
<1>8. heard' \in [Sessions -> [Channels -> Nat]]
  BY DEF TypeOK, ChildrenOK, Child, Subscribe, Announce, OnModuleStart,
         PublishReady, OnModuleStop, OnChannelOpen, OnChannelClose,
         Terminate, Crash
<1>9. QED
  BY <1>2, <1>3, <1>4, <1>5, <1>6, <1>7, <1>8
  DEF TypeOK, ScenarioOK, ChildrenOK

-----------------------------------------------------------------------------
(* Bookkeeping.                                                            *)

\* What Bookkeeping speaks of.
books == <<opened, session, bpc, bses, bnext, procs, wpc, phase, stopped>>

\* Session 0 is no session.
LEMMA SessionPositive == \A s \in Sessions : s \in Nat /\ s # NoSession
BY MaxSessionsAssumption DEF Sessions, NoSession

\* Bookkeeping holds before anything happened.
LEMMA InitBookkeeping == Init => Bookkeeping
<1> SUFFICES ASSUME Init PROVE Bookkeeping
  OBVIOUS
<1>1. \A s \in Sessions : Unused(s)
  BY SessionPositive DEF Init, Unused
<1>2. \A s \in Sessions, c \in Channels : ~ Alive(s, c)
  BY DEF Init, Alive
<1>3. QED
  BY <1>1, <1>2 DEF Init, Bookkeeping, Opening

\* A step that leaves all of that alone preserves it.
LEMMA BooksUnchanged ==
  Bookkeeping /\ UNCHANGED books => Bookkeeping'
BY DEF Bookkeeping, books, Opening, Unused, Alive

\* The bus thread preserves Bookkeeping: a new session is an unused one, and
\* stop_all() returns when the children of bses have exited.
LEMMA BusBookkeeping ==
  ASSUME TypeOK, Bookkeeping, Bus
  PROVE  Bookkeeping'
<1> USE DEF NoSession
<1>0. /\ Offered \subseteq Channels
      /\ scenario.sessions \in Nat /\ scenario.sessions <= MaxSessions
  BY ScenarioBounds DEF TypeOK
<1>1. opened \in Nat /\ session \in Nat /\ session <= opened /\ MaxSessions \in Nat
  BY MaxSessionsAssumption DEF TypeOK, GlobalsOK
<1>2. procs \in [Sessions -> SUBSET Channels] /\ DOMAIN wpc = Sessions
  BY DEF TypeOK, SessionsOK, ThreadsOK
<1>3. CASE OpenChannels
  <2>1. /\ opened' = opened + 1 /\ opened' \in Sessions
        /\ UNCHANGED <<session, procs, wpc, phase, stopped>>
    BY <1>0, <1>1, <1>3
    DEF OpenChannels, Quiesce, sessionVars, childVars, waitVars, Sessions
  <2>2. \/ bpc' = "spawn" /\ bses' = bses
        \/ bpc' = "stopping" /\ bses' = session /\ session # NoSession
    BY <1>3 DEF OpenChannels
  <2>3. \A s \in Sessions : s > opened => Unused(s)
    BY DEF Bookkeeping
  <2>4. \A s \in Sessions : s >= opened' => Unused(s)'
    BY <1>1, <2>1, <2>2, <2>3 DEF Unused, Sessions
  <2>5. bpc' = "stopping" => bses' \in Sessions
    BY <1>1, <2>1, <2>2 DEF Sessions
  <2>6. QED
    BY <1>1, <2>1, <2>4, <2>5 DEF Bookkeeping, Alive, Sessions
<1>4. CASE EndSession \/ SystemStop
  <2>1. UNCHANGED <<opened, session, procs, wpc, phase, stopped>>
    BY <1>4 DEF EndSession, SystemStop, Quiesce, sessionVars, childVars,
                waitVars
  <2>2. \/ bpc' = "exited" /\ bses' = bses
        \/ /\ bpc' = "stopping" /\ bses' = session /\ session # NoSession
           /\ bnext' \in {"drop", "halt"}
    BY <1>4 DEF EndSession, SystemStop
  <2>3. \A s \in Sessions : s > opened => Unused(s)'
    BY <1>1, <2>1, <2>2 DEF Unused, Sessions, Bookkeeping
  <2>4. ~ Opening'
    BY <2>2 DEF Opening
  <2>5. bpc' = "stopping" => bses' \in Sessions
    BY <1>1, <2>1, <2>2, MaxSessionsAssumption DEF Sessions, TypeOK, GlobalsOK
  <2>6. QED
    BY <2>1, <2>3, <2>4, <2>5 DEF Bookkeeping, Alive
<1>5. CASE BusStopped
  <2>1. bses \in Sessions
    BY <1>5 DEF BusStopped, Bookkeeping
  <2>2. /\ UNCHANGED <<opened, wpc, phase>>
        /\ session' \in {session, NoSession} /\ bses' = NoSession
        /\ procs' = [procs EXCEPT ![bses] = {}]
        /\ stopped' = stopped \cup {bses}
        /\ \A c \in procs[bses] : ~ Alive(bses, c)
    BY <1>5 DEF BusStopped, StopAllDone, waitVars, childVars
  <2>3. Opening' = Opening /\ bpc' # "stopping"
    BY <1>5 DEF BusStopped, Opening
  <2>4. \A s \in Sessions : Unused(s) => Unused(s)'
    BY <1>2, <2>2, SessionPositive DEF Unused
  <2>5. \A c \in Channels : ~ Alive(bses, c)
    BY <2>1, <2>2 DEF Bookkeeping
  <2>6. \A s \in Sessions, c \in Channels : Alive(s, c)' => c \in procs'[s]
    BY <1>2, <2>2, <2>5 DEF Bookkeeping, Alive
  <2>7. \A s \in stopped', c \in Channels : ~ Alive(s, c)'
    BY <2>2, <2>5 DEF Bookkeeping, Alive
  <2>8. \A s \in Sessions : wpc'[s] \in {"reset", "drop"} => s \in stopped'
    BY <2>2 DEF Bookkeeping
  <2>9. QED
    BY <2>2, <2>3, <2>4, <2>6, <2>7, <2>8 DEF Bookkeeping
<1>6. ASSUME NEW up \in SUBSET Channels, Spawn(up), bpc = "spawn",
             session' \in {NoSession, opened},
             wpc' \in {wpc, [wpc EXCEPT ![opened] = "waitStart"]}
      PROVE  Bookkeeping'
  <2>1. opened \in Sessions /\ Unused(opened)
    BY <1>6 DEF Bookkeeping, Opening
  <2>2. /\ UNCHANGED <<opened, bses, stopped>> /\ bpc' = "idle"
        /\ procs' = [procs EXCEPT ![opened] = up]
    BY <1>6 DEF Spawn
  <2>3. \A s \in Sessions, c \in Channels :
          phase'[s][c] = IF s = opened
                           THEN IF c \in up THEN "booting" ELSE "none"
                           ELSE phase[s][c]
    BY <1>6 DEF Spawn, TypeOK, ChildrenOK
  <2>4. \A s \in Sessions : s > opened => Unused(s)'
    BY <1>1, <1>2, <1>6, <2>1, <2>2, <2>3, SessionPositive
    DEF Bookkeeping, Unused
  <2>5. \A s \in Sessions, c \in Channels : Alive(s, c)' => c \in procs'[s]
    BY <1>2, <2>1, <2>2, <2>3 DEF Bookkeeping, Alive
  <2>6. opened \notin stopped
    BY <2>1 DEF Unused
  <2>7. \A s \in stopped', c \in Channels : ~ Alive(s, c)'
    BY <2>2, <2>3, <2>6 DEF Bookkeeping, Alive, TypeOK, GlobalsOK
  <2>8. \A s \in Sessions : wpc'[s] \in {"reset", "drop"} => s \in stopped'
    BY <1>2, <1>6, <2>1, <2>2 DEF Bookkeeping
  <2>9. QED
    BY <1>1, <2>1, <2>2, <2>4, <2>5, <2>7, <2>8 DEF Bookkeeping, Opening
<1>7. CASE SpawnAll \/ SpawnUnresolved \/ SpawnMissing \/ SpawnFails
  BY <1>0, <1>6, <1>7 DEF SpawnAll, SpawnUnresolved, SpawnMissing, SpawnFails,
                    waitVars
<1>8. CASE \E s \in Sessions, c \in Channels :
             HearToStart(s, c) \/ HearReady(s, c) \/ HearStopped(s, c)
  BY <1>8, BooksUnchanged
  DEF HearToStart, HearReady, HearStopped, Hear, books, waitVars, busVars
<1>9. QED
  BY <1>3, <1>4, <1>5, <1>7, <1>8 DEF Bus

\* A wait thread belongs to a session that is not unused, and past stop_all()
\* none of its children is alive.
LEMMA WaitBookkeeping ==
  ASSUME TypeOK, Bookkeeping, NEW s \in Sessions, WaitThread(s)
  PROVE  Bookkeeping'
<1>1. procs \in [Sessions -> SUBSET Channels] /\ DOMAIN wpc = Sessions
  BY DEF TypeOK, SessionsOK, ThreadsOK
<1>2. /\ UNCHANGED <<opened, bpc, bses, bnext>>
      /\ session' \in {session, NoSession}
      /\ UNCHANGED phase
  BY DEF WaitThread, busVars, AllReadyToStart, StartTimeout, StartLevel,
         LevelReady, LevelTimeout, ClearReady, StartupDone, StartupFailed,
         WaitStopped, ResetSession, TestSession, DropSession, childVars,
         Quiesce
<1>3. /\ wpc[s] # "none"
      /\ \E pc \in {"next", "waitReady", "clear", "done", "stopping",
                    "reset", "drop"} :
            /\ wpc' = [wpc EXCEPT ![s] = pc]
            /\ pc \in {"reset", "drop"} => s \in stopped'
  BY DEF WaitThread, AllReadyToStart, StartTimeout, StartLevel, LevelReady,
         LevelTimeout, ClearReady, StartupDone, StartupFailed, WaitStopped,
         ResetSession, TestSession, DropSession, StopAllDone, Bookkeeping
<1>4. \/ UNCHANGED <<procs, stopped>>
      \/ StopAllDone(s)
  BY DEF WaitThread, AllReadyToStart, StartTimeout, StartLevel, LevelReady,
         LevelTimeout, ClearReady, StartupDone, StartupFailed, WaitStopped,
         ResetSession, TestSession, DropSession, sessionVars, Quiesce
<1>5. /\ procs'[s] \in {procs[s], {}}
      /\ \A t \in Sessions \ {s} : procs'[t] = procs[t]
      /\ stopped' \in {stopped, stopped \cup {s}}
  BY <1>1, <1>4 DEF StopAllDone
<1>6. \A t \in Sessions : Unused(t) => t # s /\ Unused(t)'
  BY <1>1, <1>2, <1>3, <1>5, SessionPositive DEF Unused
<1>7. StopAllDone(s) => \A c \in Channels : ~ Alive(s, c)
  BY DEF StopAllDone, Bookkeeping
<1>8. \A t \in Sessions, c \in Channels : Alive(t, c)' => c \in procs'[t]
  BY <1>1, <1>2, <1>4, <1>7 DEF Bookkeeping, StopAllDone, Alive
<1>9. \A t \in stopped', c \in Channels : ~ Alive(t, c)'
  BY <1>2, <1>4, <1>7 DEF Bookkeeping, StopAllDone, Alive
<1>10. \A t \in Sessions : wpc'[t] \in {"reset", "drop"} => t \in stopped'
  BY <1>1, <1>3, <1>5 DEF Bookkeeping
<1>11. QED
  BY <1>2, <1>6, <1>8, <1>9, <1>10 DEF Bookkeeping, Opening

\* A child that was never spawned does nothing, and no step revives one.
LEMMA ChildBookkeeping ==
  ASSUME TypeOK, Bookkeeping, NEW s \in Sessions, NEW c \in Channels,
         Child(s, c)
  PROVE  Bookkeeping'
<1>1. UNCHANGED <<opened, session, bpc, bses, bnext, procs, wpc, stopped>>
  BY DEF Child, Subscribe, Announce, OnModuleStart, PublishReady,
         OnModuleStop, OnChannelOpen, OnChannelClose, Terminate, Crash,
         managerVars, sessionVars, waitVars, busVars
<1>2. /\ Alive(s, c)
      /\ \/ UNCHANGED phase
         \/ \E q \in Phases : phase' = [phase EXCEPT ![s][c] = q]
  BY DEF Child, Subscribe, Announce, OnModuleStart, PublishReady,
         OnModuleStop, OnChannelOpen, OnChannelClose, Terminate, Crash,
         Take, Alive, Phases
<1>3. \A t \in Sessions, d \in Channels :
        <<t, d>> # <<s, c>> => phase'[t][d] = phase[t][d]
  BY <1>2 DEF TypeOK, ChildrenOK
<1>4. \A t \in Sessions, d \in Channels : Alive(t, d)' => Alive(t, d)
  BY <1>2, <1>3 DEF Alive
<1>5. \A t \in Sessions : Unused(t) => t # s
  BY <1>2 DEF Unused, Alive
<1>6. \A t \in Sessions : Unused(t) => Unused(t)'
  BY <1>1, <1>3, <1>5 DEF Unused
<1>7. stopped \subseteq Sessions
  BY DEF TypeOK, GlobalsOK
<1>8. QED
  BY <1>1, <1>4, <1>6, <1>7 DEF Bookkeeping, Opening

\* TypeOK and Bookkeeping are inductive together.
LEMMA Induction ==
  TypeOK /\ Bookkeeping /\ [Next]_vars => TypeOK' /\ Bookkeeping'
<1> SUFFICES ASSUME TypeOK, Bookkeeping, [Next]_vars
             PROVE  TypeOK' /\ Bookkeeping'
  OBVIOUS
<1>0. CASE UNCHANGED vars
  <2>1. UNCHANGED books
    BY <1>0 DEF vars, moving, managerVars, childVars, books, sessionVars,
                waitVars, busVars
  <2>2. /\ ScenarioOK' /\ GlobalsOK' /\ SessionsOK' /\ ThreadsOK'
        /\ ChildrenOK'
    <3>1. GlobalsOK' /\ ThreadsOK'
      BY <1>0 DEF TypeOK, GlobalsOK, ThreadsOK, vars, moving, managerVars,
                  waitVars, busVars
    <3>2. SessionsOK'
      BY <1>0 DEF TypeOK, SessionsOK, vars, moving, managerVars, sessionVars
    <3>3. ChildrenOK'
      BY <1>0 DEF TypeOK, ChildrenOK, vars, moving, childVars
    <3>4. ScenarioOK'
      BY <1>0 DEF TypeOK, ScenarioOK, vars
    <3>5. QED
      BY <3>1, <3>2, <3>3, <3>4
  <2>3. QED
    BY <2>1, <2>2, BooksUnchanged DEF TypeOK
<1>1. CASE Bus /\ UNCHANGED scenario
  <2>1. /\ bpc = "spawn" => opened \in Sessions
        /\ bpc = "stopping" => bses \in Sessions
    BY DEF Bookkeeping, Opening
  <2>2. TypeOK'
    BY <1>1, <2>1, BusType, HearType DEF Bus
  <2>3. QED
    BY <1>1, <2>2, BusBookkeeping
<1>2. ASSUME NEW s \in Sessions, WaitThread(s), UNCHANGED scenario
      PROVE  TypeOK' /\ Bookkeeping'
  BY <1>2, WaitType, WaitBookkeeping
<1>3. CASE Monitor /\ UNCHANGED scenario
  <2>1. UNCHANGED books
    BY <1>3 DEF Monitor, books, sessionVars, waitVars, busVars, childVars
  <2>2. QED
    BY <1>3, <2>1, MonitorType, BooksUnchanged
<1>4. ASSUME NEW s \in Sessions, NEW c \in Channels, Child(s, c),
             UNCHANGED scenario
      PROVE  TypeOK' /\ Bookkeeping'
  BY <1>4, ChildType, ChildBookkeeping
<1>5. QED
  BY <1>0, <1>1, <1>2, <1>3, <1>4 DEF Next

\* Every variable keeps its type in every behaviour, whatever goes wrong.
THEOREM TypeCorrect == Spec => []TypeOK
<1>1. Init => TypeOK /\ Bookkeeping
  BY InitTypeOK, InitBookkeeping
<1>2. QED
  BY <1>1, Induction, PTL DEF Spec

\* The launchers and the threads always know which children are left, whatever
\* goes wrong: crashes, timeouts, failing spawns, thread switches.
THEOREM BookkeepingCorrect == Spec => []Bookkeeping
<1>1. Init => TypeOK /\ Bookkeeping
  BY InitTypeOK, InitBookkeeping
<1>2. QED
  BY <1>1, Induction, PTL DEF Spec

\* channel_manager.stopped goes out for a session only when none of its
\* children is left, and none comes back.
THEOREM StoppedMeansExitedCorrect == Spec => []StoppedMeansExited
<1>1. Bookkeeping => StoppedMeansExited
  BY DEF Bookkeeping, StoppedMeansExited
<1>2. QED
  BY <1>1, BookkeepingCorrect, PTL

-----------------------------------------------------------------------------
(* Generations.                                                            *)

\* Without a thread switch between test and store, no thread stands between
\* the two.
NoThreadAtStore == \A s \in Sessions : wpc[s] # "drop"

Generations == TypeOK /\ Bookkeeping /\ LiveChildrenAreCurrent /\ NoThreadAtStore

\* The bus thread opens a session, or leaves, only when no child is left.
LEMMA BusGenerations ==
  ASSUME SessionKept, Generations, Bus
  PROVE  LiveChildrenAreCurrent'
<1> USE DEF Generations
<1>1. CASE OpenChannels \/ EndSession \/ SystemStop
  <2>1. UNCHANGED <<session, phase>>
    BY <1>1 DEF OpenChannels, EndSession, SystemStop, Quiesce, sessionVars,
                childVars
  <2>2. \/ /\ session = NoSession /\ bpc' \in {"spawn", "exited"}
        \/ bpc' = "stopping" /\ bses' = session
    BY <1>1 DEF OpenChannels, EndSession, SystemStop
  <2>3. session = NoSession =>
          \A s \in Sessions, c \in Channels : ~ Alive(s, c)
    BY SessionPositive DEF LiveChildrenAreCurrent
  <2>4. QED
    BY <2>1, <2>2, <2>3 DEF LiveChildrenAreCurrent, Alive
<1>2. CASE BusStopped
  <2>1. /\ \A c \in procs[bses] : ~ Alive(bses, c)
        /\ UNCHANGED phase
        /\ bpc' # "stopping"
    BY <1>2 DEF BusStopped, StopAllDone, childVars
  <2>2. \A s \in Sessions, c \in Channels : Alive(s, c) => s = bses
    BY <1>2, SessionPositive DEF LiveChildrenAreCurrent, BusStopped
  <2>3. \A s \in Sessions, c \in Channels : ~ Alive(s, c)
    BY <2>1, <2>2 DEF Bookkeeping
  <2>4. QED
    BY <2>1, <2>3 DEF LiveChildrenAreCurrent, Alive
<1>3. ASSUME NEW up \in SUBSET Channels, Spawn(up), bpc = "spawn",
             session' = opened \/ up = {}
      PROVE  LiveChildrenAreCurrent'
  <2>1. \A s \in Sessions, c \in Channels : ~ Alive(s, c)
    BY <1>3 DEF LiveChildrenAreCurrent
  <2>2. opened \in Sessions /\ bpc' = "idle"
    BY <1>3 DEF Bookkeeping, Opening, Spawn
  <2>3. \A s \in Sessions, c \in Channels :
          phase'[s][c] = IF s = opened
                           THEN IF c \in up THEN "booting" ELSE "none"
                           ELSE phase[s][c]
    BY <1>3 DEF Spawn, TypeOK, ChildrenOK
  <2>4. \A s \in Sessions, c \in Channels : Alive(s, c)' => s = session'
    BY <1>3, <2>1, <2>3 DEF Alive
  <2>5. QED
    BY <2>2, <2>4 DEF LiveChildrenAreCurrent
<1>4. CASE SpawnAll \/ SpawnUnresolved \/ SpawnFails
  <2>1. Offered \subseteq Channels
    BY ScenarioBounds DEF TypeOK
  <2>2. QED
    BY <1>3, <1>4, <2>1 DEF SpawnAll, SpawnUnresolved, SpawnFails
<1>5. CASE SpawnMissing
  BY <1>5 DEF SpawnMissing, SessionKept
<1>6. CASE \E s \in Sessions, c \in Channels :
             HearToStart(s, c) \/ HearReady(s, c) \/ HearStopped(s, c)
  BY <1>6 DEF HearToStart, HearReady, HearStopped, Hear, busVars,
              LiveChildrenAreCurrent, Alive
<1>7. QED
  BY <1>1, <1>2, <1>4, <1>5, <1>6 DEF Bus

\* A wait thread forgets only its own session, after stop_all().
LEMMA WaitGenerations ==
  ASSUME SessionKept, Generations,
         NEW s \in Sessions, WaitThread(s)
  PROVE  LiveChildrenAreCurrent'
<1> USE DEF Generations
<1>1. UNCHANGED <<bpc, bses, phase>>
  BY DEF WaitThread, busVars, AllReadyToStart, StartTimeout, StartLevel,
         LevelReady, LevelTimeout, ClearReady, StartupDone, StartupFailed,
         WaitStopped, ResetSession, TestSession, DropSession, childVars,
         Quiesce
<1>2. CASE UNCHANGED session
  BY <1>1, <1>2 DEF LiveChildrenAreCurrent, Alive
<1>3. CASE ResetSession(s) /\ session = s
  <2>1. s \in stopped /\ session' = NoSession
    BY <1>3 DEF ResetSession, Bookkeeping
  <2>2. \A t \in Sessions, c \in Channels : ~ Alive(t, c)
    BY <1>3, <2>1 DEF Bookkeeping, LiveChildrenAreCurrent
  <2>3. QED
    BY <1>1, <2>1, <2>2 DEF LiveChildrenAreCurrent, Alive
<1>4. QED
  BY <1>2, <1>3
  DEF SessionKept, WaitThread, AllReadyToStart, StartTimeout, StartLevel, LevelReady,
      LevelTimeout, ClearReady, StartupDone, StartupFailed, WaitStopped,
      ResetSession, TestSession, DropSession, NoThreadAtStore

\* Children do not come back to life.
LEMMA ChildGenerations ==
  ASSUME Generations, NEW s \in Sessions, NEW c \in Channels, Child(s, c)
  PROVE  LiveChildrenAreCurrent'
<1> USE DEF Generations
<1>1. UNCHANGED <<session, bpc, bses>>
  BY DEF Child, Subscribe, Announce, OnModuleStart, PublishReady,
         OnModuleStop, OnChannelOpen, OnChannelClose, Terminate, Crash,
         managerVars, busVars
<1>2. /\ Alive(s, c)
      /\ \/ UNCHANGED phase
         \/ \E q \in Phases : phase' = [phase EXCEPT ![s][c] = q]
  BY DEF Child, Subscribe, Announce, OnModuleStart, PublishReady,
         OnModuleStop, OnChannelOpen, OnChannelClose, Terminate, Crash,
         Take, Alive, Phases
<1>3. \A t \in Sessions, d \in Channels :
        <<t, d>> # <<s, c>> => phase'[t][d] = phase[t][d]
  BY <1>2 DEF TypeOK, ChildrenOK
<1>4. \A t \in Sessions, d \in Channels : Alive(t, d)' => Alive(t, d)
  BY <1>2, <1>3 DEF Alive
<1>5. QED
  BY <1>1, <1>4 DEF LiveChildrenAreCurrent

\* Generations is inductive if no module is missing and no thread runs
\* between the test and the store of _session.
LEMMA GenerationsInductive ==
  SessionKept /\ Generations /\ [Next]_vars => Generations'
<1> SUFFICES ASSUME SessionKept, Generations, [Next]_vars PROVE Generations'
  OBVIOUS
<1>1. TypeOK' /\ Bookkeeping'
  BY Induction DEF Generations
<1>2. NoThreadAtStore'
  <2>1. CASE Bus
    <3>1. SpawnAll => wpc' = [wpc EXCEPT ![opened] = "waitStart"]
      BY DEF SpawnAll
    <3>2. CASE UNCHANGED wpc
      BY <3>2 DEF Generations, NoThreadAtStore
    <3>3. ~ SpawnAll => UNCHANGED wpc
      <4>1. CASE OpenChannels \/ EndSession \/ SystemStop \/ BusStopped
        BY <4>1 DEF OpenChannels, EndSession, SystemStop, BusStopped, waitVars
      <4>2. CASE SpawnUnresolved \/ SpawnMissing \/ SpawnFails
        BY <4>2 DEF SpawnUnresolved, SpawnMissing, SpawnFails, waitVars
      <4>3. CASE \E t \in Sessions, c \in Channels :
                   HearToStart(t, c) \/ HearReady(t, c) \/ HearStopped(t, c)
        BY <4>3 DEF HearToStart, HearReady, HearStopped, Hear, waitVars
      <4>4. QED
        BY <2>1, <4>1, <4>2, <4>3 DEF Bus
    <3>4. CASE wpc' = [wpc EXCEPT ![opened] = "waitStart"]
      BY <3>4 DEF Generations, NoThreadAtStore, TypeOK, ThreadsOK
    <3>5. QED
      BY <3>1, <3>2, <3>3, <3>4
  <2>2. ASSUME NEW s \in Sessions, WaitThread(s)
        PROVE  NoThreadAtStore'
    BY <2>2
    DEF SessionKept, WaitThread, AllReadyToStart, StartTimeout, StartLevel, LevelReady,
        LevelTimeout, ClearReady, StartupDone, StartupFailed, WaitStopped,
        ResetSession, TestSession, DropSession, Generations,
        NoThreadAtStore, TypeOK, ThreadsOK
  <2>3. CASE Monitor
    BY <2>3 DEF Monitor, waitVars, Generations, NoThreadAtStore
  <2>4. ASSUME NEW s \in Sessions, NEW c \in Channels, Child(s, c)
        PROVE  NoThreadAtStore'
    BY <2>4 DEF Child, Subscribe, Announce, OnModuleStart, PublishReady,
                OnModuleStop, OnChannelOpen, OnChannelClose, Terminate,
                Crash, managerVars, waitVars, Generations, NoThreadAtStore
  <2>5. CASE UNCHANGED vars
    BY <2>5 DEF vars, moving, managerVars, waitVars, Generations,
                NoThreadAtStore
  <2>6. QED
    BY <2>1, <2>2, <2>3, <2>4, <2>5 DEF Next
<1>3. LiveChildrenAreCurrent'
  <2>1. CASE Monitor \/ UNCHANGED vars
    <3>1. UNCHANGED <<session, bpc, bses, phase>>
      BY <2>1 DEF Monitor, vars, moving, managerVars, busVars, childVars
    <3>2. QED
      BY <3>1 DEF Generations, LiveChildrenAreCurrent, Alive
  <2>2. QED
    BY <2>1, BusGenerations, WaitGenerations, ChildGenerations DEF Next
<1>4. QED
  BY <1>1, <1>2, <1>3 DEF Generations

\* Generations holds before anything happened.
LEMMA InitGenerations == Init => Generations
<1> SUFFICES ASSUME Init PROVE Generations
  OBVIOUS
<1>1. TypeOK /\ Bookkeeping
  BY InitTypeOK, InitBookkeeping
<1>2. LiveChildrenAreCurrent /\ NoThreadAtStore
  BY DEF Init, LiveChildrenAreCurrent, NoThreadAtStore, Alive
<1>3. QED
  BY <1>1, <1>2 DEF Generations

\* A live child belongs to the session the handlers act on.
THEOREM LiveChildrenAreCurrentCorrect ==
  Spec => [](SessionKept => LiveChildrenAreCurrent)
<1> DEFINE Kept == SessionKept => Generations
<1>1. Init => Kept
  BY InitGenerations
<1>2. Kept /\ [Next]_vars => Kept'
  <2>1. [Next]_vars => UNCHANGED scenario
    BY DEF Next, vars
  <2>2. UNCHANGED scenario => (SessionKept' <=> SessionKept)
    BY DEF SessionKept
  <2>3. QED
    BY <2>1, <2>2, GenerationsInductive
<1>3. Kept => (SessionKept => LiveChildrenAreCurrent)
  BY DEF Generations
<1>4. QED
  BY <1>1, <1>2, <1>3, PTL DEF Spec

\* Children of two sessions never run at the same time, however sessions are
\* opened, ended, time out or crash.
THEOREM SingleGenerationCorrect == Spec => []SingleGeneration
<1>1. (SessionKept => LiveChildrenAreCurrent) => SingleGeneration
  BY DEF LiveChildrenAreCurrent, SingleGeneration
<1>2. QED
  BY <1>1, LiveChildrenAreCurrentCorrect, PTL

\* No child survives channel_manager's exit on system.stop.
THEOREM NoOrphanAtExitCorrect == Spec => []NoOrphanAtExit
<1>1. (SessionKept => LiveChildrenAreCurrent) => NoOrphanAtExit
  BY DEF LiveChildrenAreCurrent, NoOrphanAtExit
<1>2. QED
  BY <1>1, LiveChildrenAreCurrentCorrect, PTL
-----------------------------------------------------------------------------
(* The startup of a single session.                                        *)

\* All modules are of one level, as those of the tree are.
OneLevelOnly == \A c, d \in Channels : Priority[c] = Priority[d]

HasStart(q) == \E i \in DOMAIN q : q[i] = "start"

\* The child has been told to start, has started, or was ready once.
Started(s, c) == Said(s, c, "ready") \/ inits[s][c] # 0 \/ HasStart(inbox[s][c])

\* No child starts before all have reported ready to start, so that whoever
\* is ready first finds them all listed; the event is set when all are ready.
StartupOf(s) ==
  /\ s > opened \/ (s = opened /\ Opening) =>
       wtodo[s] = {} /\ \A c \in Channels : ~ Started(s, c)
  /\ evStart[s] => expected[s] \subseteq toStart[s]
  /\ wtodo[s] # {} => evStart[s]
  /\ \A c \in Channels : Started(s, c) => evStart[s]
  /\ evReady[s] => expected[s] \subseteq ready[s]
  /\ \A c \in ready[s] : Said(s, c, "ready")
  /\ wok[s] /\ (wpc[s] = "clear" \/ (wpc[s] = "next" /\ wtodo[s] = {})) =>
       expected[s] \subseteq ready[s]

Startup == opened <= 1 /\ \A s \in Sessions : StartupOf(s)

\* What of the startup the children do not touch.
startup == <<opened, bpc, bnext, expected, toStart, ready, evStart, evReady, wtodo,
             wok, wpc>>

\* Nobody has started before the first session.
LEMMA InitStartup == Init => Startup
<1> SUFFICES ASSUME Init PROVE Startup
  OBVIOUS
<1>1. ASSUME NEW s \in Sessions PROVE StartupOf(s)
  <2>1. ASSUME NEW c \in Channels PROVE ~ Started(s, c)
    BY DEF Init, Started, Said, HasStart
  <2>2. QED
    BY <2>1 DEF Init, StartupOf
<1>2. QED
  BY <1>1 DEF Init, Startup

\* Steps that neither change the startup nor start or silence a child.
LEMMA StartupKept ==
  ASSUME Startup, UNCHANGED startup,
         \A s \in Sessions, c \in Channels :
           /\ Started(s, c)' => Started(s, c)
           /\ Said(s, c, "ready") => Said(s, c, "ready")',
         ready \in [Sessions -> SUBSET Channels]
  PROVE  Startup'
<1>1. ASSUME NEW s \in Sessions PROVE StartupOf(s)'
  <2>1. ready[s] \subseteq Channels /\ StartupOf(s)
    BY DEF Startup
  <2>2. QED
    BY <2>1 DEF StartupOf, startup, Opening
<1>2. QED
  BY <1>1 DEF Startup, startup

\* A broadcast starts only those it tells to start.
LEMMA BroadcastStarts ==
  ASSUME NEW msgs \in [Channels -> Seq(Topics)], ChildrenOK, Broadcast(msgs),
         UNCHANGED <<phase, said, inits>>,
         NEW s \in Sessions, NEW c \in Channels
  PROVE  /\ Started(s, c)' =>
              Started(s, c) \/ (phase[s][c] = "up" /\ HasStart(msgs[c]))
         /\ Said(s, c, "ready")' <=> Said(s, c, "ready")
<1>1. PICK q \in Seq(Topics) : q = inbox[s][c]
  BY DEF ChildrenOK
<1>2. PICK r \in Seq(Topics) : r = msgs[c]
  OBVIOUS
<1>3. inbox'[s][c] = IF phase[s][c] = "up" THEN q \o r ELSE q
  BY <1>1, <1>2 DEF Broadcast
<1>4. HasStart(q \o r) => HasStart(q) \/ HasStart(r)
  <2>1. SUFFICES ASSUME NEW i \in DOMAIN (q \o r), (q \o r)[i] = "start"
                 PROVE  HasStart(q) \/ HasStart(r)
    BY DEF HasStart
  <2>2. i \in 1 .. Len(q) + Len(r)
    OBVIOUS
  <2>3. CASE i <= Len(q)
    <3>1. i \in DOMAIN q /\ q[i] = "start"
      BY <2>1, <2>2, <2>3
    <3>2. QED
      BY <3>1 DEF HasStart
  <2>4. CASE i > Len(q)
    <3>1. i - Len(q) \in DOMAIN r /\ r[i - Len(q)] = "start"
      BY <2>1, <2>2, <2>4
    <3>2. QED
      BY <3>1 DEF HasStart
  <2>5. QED
    BY <2>2, <2>3, <2>4
<1>5. QED
  BY <1>1, <1>2, <1>3, <1>4 DEF Started, Said

\* The first part of shutdown() starts nobody.
LEMMA QuiesceStarts ==
  ASSUME TypeOK, NEW x \in Sessions, Quiesce(x),
         NEW s \in Sessions, NEW c \in Channels
  PROVE  /\ Started(s, c)' => Started(s, c)
         /\ Said(s, c, "ready")' <=> Said(s, c, "ready")
<1> DEFINE both == <<"close", "stop">>
           only == <<"stop">>
           msgs == [d \in Channels |-> IF d \in live[x] THEN both ELSE only]
<1>1. both \in Seq(Topics) /\ only \in Seq(Topics)
  BY DEF Topics
<1>2. ~ HasStart(both) /\ ~ HasStart(only)
  BY DEF HasStart
<1>3. Broadcast(msgs) /\ UNCHANGED <<phase, said, inits>>
  BY DEF Quiesce
<1> HIDE DEF both, only
<1>4. msgs \in [Channels -> Seq(Topics)] /\ ~ HasStart(msgs[c])
  BY <1>1, <1>2
<1> HIDE DEF msgs
<1>5. QED
  BY <1>3, <1>4, BroadcastStarts DEF TypeOK

\* What one message more, or one less, is to a queue.
LEMMA QueueStarts ==
  ASSUME NEW q \in Seq(Topics)
  PROVE  /\ q # <<>> /\ HasStart(Tail(q)) => HasStart(q)
         /\ q # <<>> /\ Head(q) = "start" => HasStart(q)
         /\ ~ HasStart(<<>>)
<1>1. ASSUME q # <<>>, HasStart(Tail(q)) PROVE HasStart(q)
  <2>1. PICK i \in DOMAIN Tail(q) : Tail(q)[i] = "start"
    BY <1>1 DEF HasStart
  <2>2. i + 1 \in DOMAIN q /\ q[i + 1] = "start"
    BY <1>1, <2>1
  <2>3. QED
    BY <2>2 DEF HasStart
<1>2. ASSUME q # <<>>, Head(q) = "start" PROVE HasStart(q)
  <2>1. 1 \in DOMAIN q /\ q[1] = "start"
    BY <1>2
  <2>2. QED
    BY <2>1 DEF HasStart
<1>3. QED
  BY <1>1, <1>2 DEF HasStart

\* A child starts when it is told to, and is ready when it has started.
LEMMA ChildStarts ==
  ASSUME TypeOK, NEW s \in Sessions, NEW c \in Channels, Child(s, c),
         NEW t \in Sessions, NEW d \in Channels
  PROVE  /\ Started(t, d)' => Started(t, d)
         /\ Said(t, d, "ready") => Said(t, d, "ready")'
<1>1. /\ said \in [Sessions -> [Channels -> Seq(Messages)]]
      /\ inits \in [Sessions -> [Channels -> Nat]]
      /\ inbox \in [Sessions -> [Channels -> Seq(Topics)]]
  BY DEF TypeOK, ChildrenOK
<1>2. PICK q \in Seq(Topics) : q = inbox[s][c]
  BY <1>1
<1>3. PICK w \in Seq(Messages) : w = said[s][c]
  BY <1>1
<1>4. CASE <<t, d>> # <<s, c>>
  <2>1. said'[t][d] = said[t][d] /\ inits'[t][d] = inits[t][d] /\ inbox'[t][d] = inbox[t][d]
    <3>1. \/ UNCHANGED said
          \/ \E v : said' = [said EXCEPT ![s][c] = v]
      BY DEF Child, Subscribe, Announce, OnModuleStart, PublishReady,
         OnModuleStop, OnChannelOpen, OnChannelClose, Terminate, Crash, Take
    <3>2. \/ UNCHANGED inits
          \/ \E v : inits' = [inits EXCEPT ![s][c] = v]
      BY DEF Child, Subscribe, Announce, OnModuleStart, PublishReady,
         OnModuleStop, OnChannelOpen, OnChannelClose, Terminate, Crash, Take
    <3>3. \/ UNCHANGED inbox
          \/ \E v : inbox' = [inbox EXCEPT ![s][c] = v]
      BY DEF Child, Subscribe, Announce, OnModuleStart, PublishReady,
         OnModuleStop, OnChannelOpen, OnChannelClose, Terminate, Crash, Take
    <3>4. said'[t][d] = said[t][d]
      BY <1>1, <1>4, <3>1
    <3>5. inits'[t][d] = inits[t][d]
      BY <1>1, <1>4, <3>2
    <3>6. inbox'[t][d] = inbox[t][d]
      BY <1>1, <1>4, <3>3
    <3>7. QED
      BY <3>4, <3>5, <3>6
  <2>2. QED
    BY <2>1 DEF Started, Said
<1>5. CASE t = s /\ d = c
  <2>1. HasStart(inbox'[s][c]) => HasStart(q)
    <3>1. \/ UNCHANGED inbox \/ inbox' = [inbox EXCEPT ![s][c] = <<>>]
          \/ inbox[s][c] # <<>> /\ inbox' = [inbox EXCEPT ![s][c] = Tail(@)]
      BY DEF Child, Subscribe, Announce, OnModuleStart, PublishReady,
         OnModuleStop, OnChannelOpen, OnChannelClose, Terminate, Crash, Take
    <3>2. inbox'[s][c] \in {q, <<>>} \/ (q # <<>> /\ inbox'[s][c] = Tail(q))
      BY <1>1, <1>2, <3>1
    <3>3. QED
      BY <3>2, QueueStarts
  <2>2. inits'[s][c] # 0 => inits[s][c] # 0 \/ HasStart(q)
    <3>1. \/ UNCHANGED inits \/ inits' = [inits EXCEPT ![s][c] = 0]
          \/ Take(s, c, "start")
      BY DEF Child, Subscribe, Announce, OnModuleStart, PublishReady,
         OnModuleStop, OnChannelOpen, OnChannelClose, Terminate, Crash
    <3>2. Take(s, c, "start") => q # <<>> /\ Head(q) = "start"
      BY <1>2 DEF Take
    <3>3. QED
      BY <1>1, <3>1, <3>2, QueueStarts
  <2>3. PICK m \in Messages :
          /\ said'[s][c] \in {w, Append(w, m)}
          /\ m = "ready" => inits[s][c] # 0
    <3>1. \/ said'[s][c] = w
          \/ said'[s][c] = Append(w, "toStart") \/ said'[s][c] = Append(w, "stopped")
          \/ said'[s][c] = Append(w, "ready") /\ inits[s][c] > 0
      <4>1. CASE Announce(s, c)
        BY <1>1, <1>3, <4>1 DEF Announce
      <4>2. CASE PublishReady(s, c)
        BY <1>1, <1>3, <4>2 DEF PublishReady
      <4>3. CASE OnModuleStop(s, c)
        BY <1>1, <1>3, <4>3 DEF OnModuleStop
      <4>4. CASE ~ (Announce(s, c) \/ PublishReady(s, c) \/ OnModuleStop(s, c))
        BY <1>3, <4>4 DEF Child, Subscribe, OnModuleStart, OnChannelOpen, OnChannelClose,
           Terminate, Crash, Take
      <4>5. QED
        BY <4>1, <4>2, <4>3, <4>4
    <3>2. "toStart" \in Messages /\ "stopped" \in Messages /\ "ready" \in Messages
      BY DEF Messages
    <3>3. CASE said'[s][c] \in {w, Append(w, "toStart")}
      BY <3>2, <3>3
    <3>4. CASE said'[s][c] = Append(w, "stopped")
      BY <3>2, <3>4
    <3>5. CASE said'[s][c] = Append(w, "ready") /\ inits[s][c] > 0
      <4>1. inits[s][c] # 0
        BY <3>5
      <4>2. QED
        BY <3>2, <3>5, <4>1
    <3>6. QED
      BY <3>1, <3>3, <3>4, <3>5
  <2>a. PICK v \in Seq(Messages) : v = said'[s][c]
    <3>1. w \in Seq(Messages) /\ Append(w, m) \in Seq(Messages)
      OBVIOUS
    <3>2. QED
      BY <2>3, <3>1
  <2>b. \/ v = w
        \/ /\ Len(v) = Len(w) + 1 /\ v[Len(w) + 1] = m
           /\ \A i \in 1 .. Len(w) : v[i] = w[i]
    <3>1. CASE v = w
      BY <3>1
    <3>2. CASE v = Append(w, m)
      BY <3>2
    <3>3. QED
      BY <2>3, <2>a, <3>1, <3>2
  <2>c. Len(w) \in Nat /\ \A i \in 1 .. Len(w) + 1 : i \in 1 .. Len(w) \/ i = Len(w) + 1
    OBVIOUS
  <2>4. Said(s, c, "ready")' => Said(s, c, "ready") \/ inits[s][c] # 0
    BY <1>3, <2>3, <2>a, <2>b, <2>c DEF Said
  <2>5. Said(s, c, "ready") => Said(s, c, "ready")'
    <3>1. \A i \in 1 .. Len(w) : i \in 1 .. Len(w) + 1
      BY <2>c
    <3>2. QED
      BY <1>3, <2>a, <2>b, <3>1 DEF Said
  <2>6. QED
    BY <1>2, <1>5, <2>1, <2>2, <2>4, <2>5 DEF Started
<1>6. QED
  BY <1>4, <1>5

\* Steps of a child keep the startup.
LEMMA ChildStartup ==
  ASSUME TypeOK, Startup, NEW s \in Sessions, NEW c \in Channels, Child(s, c)
  PROVE  Startup'
<1>1. UNCHANGED startup
  BY DEF Child, Subscribe, Announce, OnModuleStart, PublishReady,
         OnModuleStop, OnChannelOpen, OnChannelClose, Terminate, Crash,
         managerVars, sessionVars, waitVars, busVars, startup
<1>2. ready \in [Sessions -> SUBSET Channels]
  BY DEF TypeOK, SessionsOK
<1>3. QED
  BY <1>1, <1>2, ChildStarts, StartupKept

\* The wait thread tells a level to start after all have reported, and takes
\* the startup for done after all are ready.
LEMMA WaitStartup ==
  ASSUME TypeOK, Bookkeeping, Startup, NEW s \in Sessions, WaitThread(s)
  PROVE  Startup'
<1>1. /\ wpc[s] # "none" /\ ~ (s > opened \/ (s = opened /\ Opening))
      /\ UNCHANGED <<opened, bpc, bses, bnext, expected, toStart, ready, evStart>>
  <2>1. /\ wpc[s] # "none"
        /\ UNCHANGED <<opened, bpc, bses, bnext, expected, toStart, ready, evStart>>
    BY DEF WaitThread, AllReadyToStart, StartTimeout, StartLevel, LevelReady,
         LevelTimeout, ClearReady, StartupDone, StartupFailed, WaitStopped,
         ResetSession, TestSession, DropSession, StopAllDone, Quiesce, sessionVars, busVars
  <2>2. QED
    BY <2>1 DEF Bookkeeping, Unused
<1>2. /\ DOMAIN wpc = Sessions /\ DOMAIN wtodo = Sessions /\ DOMAIN wok = Sessions
      /\ DOMAIN evReady = Sessions /\ ready \in [Sessions -> SUBSET Channels]
      /\ toStart \in [Sessions -> SUBSET Channels]
  BY DEF TypeOK, ThreadsOK, SessionsOK
<1>3. \A t \in Sessions \ {s} :
        /\ wpc'[t] = wpc[t] /\ wtodo'[t] = wtodo[t] /\ wok'[t] = wok[t]
        /\ evReady'[t] = evReady[t]
  BY <1>2 DEF WaitThread, AllReadyToStart, StartTimeout, StartLevel, LevelReady,
         LevelTimeout, ClearReady, StartupDone, StartupFailed, WaitStopped,
         ResetSession, TestSession, DropSession, StopAllDone, Quiesce, sessionVars
<1>4. StartupOf(s) /\ \A c \in ready[s] : c \in Channels
  BY <1>2 DEF Startup
<1>5. /\ evReady'[s] => evReady[s]
      /\ wtodo'[s] # {} => evStart[s]
      /\ wok'[s] /\ (wpc'[s] = "clear" \/ (wpc'[s] = "next" /\ wtodo'[s] = {})) =>
           expected[s] \subseteq ready[s]
  <2>1. CASE AllReadyToStart(s)
    <3>1. evStart[s] /\ wtodo'[s] = {Priority[c] : c \in toStart[s]}
      BY <1>2, <2>1 DEF AllReadyToStart
    <3>2. wtodo'[s] = {} => toStart[s] = {}
      BY <3>1
    <3>3. wpc'[s] = "next" /\ UNCHANGED evReady
      BY <1>2, <2>1 DEF AllReadyToStart, sessionVars
    <3>4. QED
      BY <1>4, <3>1, <3>2, <3>3 DEF StartupOf
  <2>2. CASE StartTimeout(s) \/ LevelTimeout(s)
    BY <1>2, <1>4, <2>2 DEF StartTimeout, LevelTimeout, sessionVars, StartupOf
  <2>3. CASE StartLevel(s)
    BY <1>2, <1>4, <2>3 DEF StartLevel, sessionVars, StartupOf
  <2>4. CASE LevelReady(s)
    BY <1>2, <1>4, <2>4 DEF LevelReady, sessionVars, StartupOf
  <2>5. CASE ClearReady(s)
    BY <1>2, <1>4, <2>5 DEF ClearReady, StartupOf
  <2>6. CASE StartupDone(s)
    BY <1>2, <1>4, <2>6 DEF StartupDone, sessionVars, StartupOf
  <2>7. CASE StartupFailed(s)
    BY <1>2, <1>4, <2>7 DEF StartupFailed, Quiesce, StartupOf
  <2>8. CASE WaitStopped(s)
    BY <1>2, <1>4, <2>8 DEF WaitStopped, StopAllDone, StartupOf
  <2>9. CASE ResetSession(s) \/ TestSession(s) \/ DropSession(s)
    BY <1>2, <1>4, <2>9 DEF ResetSession, TestSession, DropSession, sessionVars, StartupOf
  <2>10. QED
    BY <2>1, <2>2, <2>3, <2>4, <2>5, <2>6, <2>7, <2>8, <2>9 DEF WaitThread
<1>6. \A t \in Sessions, c \in Channels :
        /\ Started(t, c)' => Started(t, c) \/ (evStart[s] /\ phase[t][c] = "up")
        /\ Said(t, c, "ready")' <=> Said(t, c, "ready")
  <2> TAKE t \in Sessions, c \in Channels
  <2>1. CASE StartLevel(s)
    <3> DEFINE only == <<"start">>
               nil  == << >>
    <3>1. only \in Seq(Topics) /\ nil \in Seq(Topics)
      BY DEF Topics
    <3>2. PICK p \in wtodo[s] :
            Broadcast([d \in Channels |-> IF Priority[d] = p THEN only ELSE nil])
      BY <2>1 DEF StartLevel
    <3> HIDE DEF only, nil
    <3>3. [d \in Channels |-> IF Priority[d] = p THEN only ELSE nil]
            \in [Channels -> Seq(Topics)]
      BY <3>1
    <3>4. UNCHANGED <<phase, said, inits>>
      BY <2>1 DEF StartLevel
    <3>5. evStart[s]
      BY <1>4, <3>2 DEF StartupOf
    <3>6. QED
      BY <3>2, <3>3, <3>4, <3>5, BroadcastStarts DEF TypeOK
  <2>2. CASE LevelReady(s)
    <3> DEFINE only == <<"open">>
               nil  == << >>
               msgs == [d \in Channels |-> IF d \in live[s] THEN only ELSE nil]
    <3>1. only \in Seq(Topics) /\ nil \in Seq(Topics)
      BY DEF Topics
    <3>2. ~ HasStart(only) /\ ~ HasStart(nil)
      BY DEF HasStart
    <3>3. Broadcast(msgs) /\ UNCHANGED <<phase, said, inits>>
      BY <2>2 DEF LevelReady
    <3> HIDE DEF only, nil
    <3>4. msgs \in [Channels -> Seq(Topics)] /\ ~ HasStart(msgs[c])
      BY <3>1, <3>2
    <3> HIDE DEF msgs
    <3>5. QED
      BY <3>3, <3>4, BroadcastStarts DEF TypeOK
  <2>3. CASE StartupFailed(s)
    BY <2>3, QuiesceStarts DEF StartupFailed
  <2>4. CASE UNCHANGED childVars
    BY <2>4 DEF childVars, Started, Said
  <2>5. QED
    BY <2>1, <2>2, <2>3, <2>4 DEF WaitThread, AllReadyToStart, StartTimeout, LevelTimeout,
       ClearReady, StartupDone, WaitStopped, ResetSession, TestSession, DropSession
<1>7. \A t \in Sessions, c \in Channels : phase[t][c] = "up" => t = 1 /\ s = 1
  <2>1. \A t \in Sessions : t > opened => \A c \in Channels : phase[t][c] = "none"
    BY DEF Bookkeeping, Unused
  <2>2. \A t \in Sessions : t <= opened => t = 1
    BY DEF Startup, Sessions, TypeOK, GlobalsOK
  <2>3. \A t \in Sessions : t > opened \/ t <= opened
    BY DEF Sessions, TypeOK, GlobalsOK
  <2>4. QED
    BY <1>1, <2>1, <2>2, <2>3
<1>8. ASSUME NEW t \in Sessions, NEW c \in Channels, Started(t, c)'
      PROVE  Started(t, c) \/ (t = s /\ evStart[s])
  BY <1>6, <1>7, <1>8
<1>9. ASSUME NEW t \in Sessions PROVE StartupOf(t)'
  <2>1. StartupOf(t) /\ \A c \in ready[t] : c \in Channels
    BY <1>2 DEF Startup
  <2>2. CASE t = s
    BY <1>1, <1>4, <1>5, <1>6, <1>8, <2>1, <2>2 DEF StartupOf, Opening
  <2>3. CASE t # s
    BY <1>1, <1>3, <1>6, <1>8, <2>1, <2>3 DEF StartupOf, Opening
  <2>4. QED
    BY <2>2, <2>3
<1>10. QED
  BY <1>1, <1>9 DEF Startup

\* The bus thread opens one session, and books who has reported: whoever is
\* ready first finds all of them listed.
LEMMA BusStartup ==
  ASSUME TypeOK, Bookkeeping, OneSession, OneLevelOnly, Startup, Bus
  PROVE  Startup'
<1>1. /\ ready \in [Sessions -> SUBSET Channels] /\ toStart \in [Sessions -> SUBSET Channels]
      /\ expected \in [Sessions -> SUBSET Channels]
      /\ DOMAIN evStart = Sessions /\ DOMAIN evReady = Sessions /\ DOMAIN wpc = Sessions
      /\ opened \in Nat /\ opened <= 1 /\ session \in Nat /\ session <= opened
  BY DEF TypeOK, SessionsOK, ThreadsOK, GlobalsOK, Startup
<1>2. CASE OpenChannels
  <2>1. opened = 0 /\ opened' = 1 /\ session = NoSession
    BY <1>1, <1>2 DEF OpenChannels, OneSession, NoSession
  <2>2. /\ UNCHANGED <<sessionVars, childVars, waitVars>>
        /\ bpc' = "spawn"
    BY <1>2, <2>1 DEF OpenChannels
  <2>3. \A s \in Sessions : s > opened
    BY <2>1 DEF Sessions
  <2>4. ASSUME NEW s \in Sessions PROVE StartupOf(s)'
    BY <2>2, <2>3 DEF Startup, StartupOf, sessionVars, childVars, waitVars, Started, Said
  <2>5. QED
    BY <2>1, <2>4 DEF Startup
<1>3. CASE EndSession \/ SystemStop
  <2>1. /\ UNCHANGED <<opened, expected, toStart, ready, evStart, evReady, waitVars>>
        /\ Opening' => Opening
    BY <1>3 DEF EndSession, SystemStop, Quiesce, sessionVars, Opening
  <2>2. \A s \in Sessions, c \in Channels :
          /\ Started(s, c)' => Started(s, c)
          /\ Said(s, c, "ready") => Said(s, c, "ready")'
    <3>1. CASE session # NoSession /\ Quiesce(session)
      BY <3>1, CurrentSession, QuiesceStarts DEF TypeOK
    <3>2. CASE UNCHANGED childVars
      BY <3>2 DEF childVars, Started, Said
    <3>3. QED
      BY <1>3, <3>1, <3>2 DEF EndSession, SystemStop
  <2>3. ASSUME NEW s \in Sessions PROVE StartupOf(s)'
    <3>1. ready[s] \subseteq Channels /\ StartupOf(s)
      BY <1>1 DEF Startup
    <3>2. QED
      BY <2>1, <2>2, <3>1 DEF StartupOf, waitVars
  <2>4. QED
    BY <1>1, <2>1, <2>3 DEF Startup
<1>4. CASE BusStopped
  <2>1. /\ UNCHANGED <<opened, expected, toStart, ready, evStart, evReady, waitVars, childVars>>
        /\ Opening' => Opening
    BY <1>4 DEF BusStopped, StopAllDone, Opening
  <2>2. ASSUME NEW s \in Sessions PROVE StartupOf(s)'
    BY <2>1 DEF Startup, StartupOf, waitVars, childVars, Started, Said
  <2>3. QED
    BY <1>1, <2>1, <2>2 DEF Startup
<1>5. CASE SpawnAll \/ SpawnUnresolved \/ SpawnMissing \/ SpawnFails
  <2>1. bpc = "spawn" /\ bpc' = "idle"
        /\ UNCHANGED <<opened, toStart, ready, said, inits, inbox, wtodo, wok>>
    BY <1>5 DEF SpawnAll, SpawnUnresolved, SpawnMissing, SpawnFails, Spawn, waitVars
  <2>2. \A s \in Sessions, c \in Channels :
          (Started(s, c)' <=> Started(s, c)) /\ (Said(s, c, "ready")' <=> Said(s, c, "ready"))
    BY <2>1 DEF Started, Said
  <2>3. opened \in Sessions /\ StartupOf(opened)
    BY <2>1 DEF Bookkeeping, Opening, Startup
  <2>4. wtodo[opened] = {} /\ \A c \in Channels : ~ Started(opened, c)
    BY <1>1, <2>1, <2>3 DEF StartupOf, Opening
  <2>5. \A s \in Sessions : s # opened =>
          /\ expected'[s] = expected[s] /\ evStart'[s] = evStart[s]
          /\ evReady'[s] = evReady[s] /\ wpc'[s] = wpc[s]
    BY <1>1, <1>5 DEF SpawnAll, SpawnUnresolved, SpawnMissing, SpawnFails, waitVars
  <2>6. \/ /\ expected'[opened] = expected[opened] /\ evStart'[opened] = evStart[opened]
           /\ evReady'[opened] = evReady[opened] /\ wpc'[opened] = wpc[opened]
        \/ /\ expected'[opened] = Offered /\ wpc'[opened] = "waitStart"
           /\ evStart'[opened] => Offered = {}
           /\ evReady'[opened] => Offered = {}
    BY <1>1, <1>5, <2>3 DEF SpawnAll, SpawnUnresolved, SpawnMissing, SpawnFails, waitVars
  <2>7. ASSUME NEW s \in Sessions PROVE StartupOf(s)'
    <3>1. ready[s] \subseteq Channels /\ StartupOf(s)
      BY <1>1 DEF Startup
    <3>2. CASE s # opened
      BY <2>1, <2>2, <2>5, <3>1, <3>2 DEF StartupOf, Opening
    <3>3. CASE s = opened
      BY <2>1, <2>2, <2>3, <2>4, <2>6, <3>1, <3>3 DEF StartupOf, Opening
    <3>4. QED
      BY <3>2, <3>3
  <2>8. QED
    BY <1>1, <2>1, <2>7 DEF Startup
<1>6. ASSUME NEW s \in Sessions, NEW c \in Channels,
             HearToStart(s, c) \/ HearReady(s, c) \/ HearStopped(s, c)
      PROVE  Startup'
  <2>1. /\ UNCHANGED <<opened, bpc, bnext, session, expected, known, waitVars>>
        /\ UNCHANGED <<phase, said, inits, inbox>>
    BY <1>6 DEF HearToStart, HearReady, HearStopped, Hear, busVars
  <2>2. \A t \in Sessions, d \in Channels :
          (Started(t, d)' <=> Started(t, d)) /\ (Said(t, d, "ready")' <=> Said(t, d, "ready"))
    BY <2>1 DEF Started, Said
  <2>3. ASSUME NEW t \in Sessions PROVE StartupOf(t) /\ ready[t] \subseteq Channels
    BY <1>1 DEF Startup
  <2>4. CASE UNCHANGED <<toStart, ready, evStart, evReady>>
    <3>1. ASSUME NEW t \in Sessions PROVE StartupOf(t)'
      BY <2>1, <2>2, <2>3, <2>4 DEF StartupOf, Opening, waitVars
    <3>2. QED
      BY <1>1, <2>1, <3>1 DEF Startup
  <2>5. CASE HearToStart(s, c) /\ Books(c)
    <3>1. session \in Sessions /\ UNCHANGED <<ready, evReady>>
      BY <2>5, CurrentSession DEF TypeOK, Books, HearToStart
    <3>2. /\ toStart'[session] = toStart[session] \cup {c}
          /\ evStart'[session] <=>
               evStart[session] \/ expected[session] \subseteq toStart[session] \cup {c}
          /\ \A t \in Sessions : t # session =>
               toStart'[t] = toStart[t] /\ evStart'[t] = evStart[t]
      BY <1>1, <2>5, <3>1 DEF HearToStart
    <3>3. ASSUME NEW t \in Sessions PROVE StartupOf(t)'
      BY <2>1, <2>2, <2>3, <3>1, <3>2 DEF StartupOf, Opening, waitVars
    <3>4. QED
      BY <1>1, <2>1, <3>3 DEF Startup
  <2>6. CASE HearReady(s, c) /\ Books(c)
    <3>1. session \in Sessions /\ UNCHANGED <<toStart, evStart>> /\ c \in expected[session]
      BY <2>6, CurrentSession DEF TypeOK, Books, HearReady
    <3>2. Said(s, c, "ready")
      <4>1. PICK n \in Nat, l \in Nat : n = heard[s][c] /\ l = Len(said[s][c])
        BY DEF TypeOK, ChildrenOK
      <4>2. n < l /\ said[s][c][n + 1] = "ready" /\ n + 1 \in 1 .. l
        BY <2>6, <4>1 DEF HearReady, Hear
      <4>3. QED
        BY <4>1, <4>2 DEF Said
    <3>3. s = session
      <4>1. Started(s, c)
        BY <3>2 DEF Started
      <4>2. ~ (s > opened)
        BY <2>3, <4>1 DEF StartupOf
      <4>3. QED
        BY <1>1, <3>1, <4>2 DEF Sessions
    <3>4. expected[session] \subseteq toStart[session] /\ c \in toStart[session]
      BY <2>3, <3>1, <3>2, <3>3 DEF StartupOf, Started
    <3>5. expected[session] \subseteq SamePriority(c)
      <4>1. \A d \in expected[session] : d \in Channels /\ Priority[d] = Priority[c]
        BY <1>1, <3>1 DEF OneLevelOnly
      <4>2. QED
        BY <3>4, <4>1 DEF SamePriority
    <3>6. /\ ready'[session] = ready[session] \cup {c}
          /\ evReady'[session] =>
               evReady[session] \/ expected[session] \subseteq ready[session] \cup {c}
          /\ \A t \in Sessions : t # session =>
               ready'[t] = ready[t] /\ evReady'[t] = evReady[t]
      BY <1>1, <2>6, <3>1, <3>5 DEF HearReady
    <3>7. ASSUME NEW t \in Sessions PROVE StartupOf(t)'
      BY <2>1, <2>2, <2>3, <3>1, <3>2, <3>3, <3>6 DEF StartupOf, Opening, waitVars
    <3>8. QED
      BY <1>1, <2>1, <3>7 DEF Startup
  <2>7. QED
    BY <1>6, <2>4, <2>5, <2>6 DEF HearToStart, HearReady, HearStopped
<1>7. QED
  BY <1>2, <1>3, <1>4, <1>5, <1>6 DEF Bus

\* Startup is inductive for a single session of modules of one level, whatever
\* goes wrong.
LEMMA StartupInductive ==
  ASSUME TypeOK, Bookkeeping, OneSession, OneLevelOnly, Startup, [Next]_vars
  PROVE  Startup'
<1>1. CASE Monitor \/ UNCHANGED vars
  <2>1. UNCHANGED <<startup, childVars>>
    BY <1>1 DEF Monitor, vars, moving, managerVars, sessionVars, waitVars, busVars, startup
  <2>2. ready \in [Sessions -> SUBSET Channels]
    BY DEF TypeOK, SessionsOK
  <2>3. ASSUME NEW s \in Sessions, NEW c \in Channels
        PROVE  /\ Started(s, c)' => Started(s, c)
               /\ Said(s, c, "ready") => Said(s, c, "ready")'
    BY <2>1 DEF childVars, Started, Said
  <2>4. QED
    BY <2>1, <2>2, <2>3, StartupKept
<1>2. QED
  BY <1>1, BusStartup, WaitStartup, ChildStartup DEF Next

\* channels_ready goes out when every child of the session has published
\* module_ready, for any number of modules of one level and whatever goes
\* wrong (main.py, responsibility 5).
THEOREM ChannelsReadyMeansAllReadyCorrect ==
  ASSUME OneLevelOnly
  PROVE  Spec => ChannelsReadyMeansAllReady
<1> DEFINE Kept == OneSession => Startup
           Told == OneSession => \A s \in announced' \ announced :
                                   \A c \in expected[s] : Said(s, c, "ready")
<1>1. Init => Kept
  BY InitStartup
<1>2. TypeOK /\ Bookkeeping /\ Kept /\ [Next]_vars => Kept'
  <2>1. [Next]_vars => UNCHANGED scenario
    BY DEF Next, vars
  <2>2. UNCHANGED scenario => (OneSession' <=> OneSession)
    BY DEF OneSession
  <2>3. QED
    BY <2>1, <2>2, StartupInductive
<1>3. TypeOK /\ Kept /\ [Next]_vars => [Told]_vars
  <2>1. SUFFICES ASSUME TypeOK, Startup, Next, NEW s \in announced' \ announced
                 PROVE  \A c \in expected[s] : Said(s, c, "ready")
    BY DEF Next
  <2>2. PICK t \in Sessions : StartupDone(t)
    <3>1. ASSUME Bus PROVE UNCHANGED announced
      <4>1. CASE OpenChannels \/ EndSession \/ SystemStop \/ BusStopped
        BY <4>1 DEF OpenChannels, EndSession, SystemStop, BusStopped
      <4>2. CASE SpawnAll \/ SpawnUnresolved \/ SpawnMissing \/ SpawnFails
        BY <4>2 DEF SpawnAll, SpawnUnresolved, SpawnMissing, SpawnFails, Spawn
      <4>3. CASE \E t \in Sessions, c \in Channels :
                   HearToStart(t, c) \/ HearReady(t, c) \/ HearStopped(t, c)
        BY <4>3 DEF HearToStart, HearReady, HearStopped, Hear
      <4>4. QED
        BY <3>1, <4>1, <4>2, <4>3 DEF Bus
    <3>2. ASSUME NEW t \in Sessions, WaitThread(t)
          PROVE  UNCHANGED announced \/ StartupDone(t)
      BY <3>2 DEF WaitThread, AllReadyToStart, StartTimeout, StartLevel, LevelReady,
         LevelTimeout, ClearReady, StartupFailed, WaitStopped, ResetSession,
         TestSession, DropSession
    <3>3. ASSUME NEW t \in Sessions, NEW c \in Channels, Child(t, c)
          PROVE  UNCHANGED announced
      BY <3>3 DEF Child, Subscribe, Announce, OnModuleStart, PublishReady, OnModuleStop,
         OnChannelOpen, OnChannelClose, Terminate, Crash, managerVars
    <3>4. Monitor => UNCHANGED announced
      BY DEF Monitor
    <3>5. QED
      BY <2>1, <3>1, <3>2, <3>3, <3>4 DEF Next
  <2>3. t = s /\ wpc[s] = "next" /\ wtodo[s] = {} /\ wok[s]
    BY <2>1, <2>2 DEF StartupDone
  <2>4. expected[s] \subseteq ready[s] /\ \A c \in ready[s] : Said(s, c, "ready")
    BY <2>1, <2>2, <2>3 DEF Startup, StartupOf
  <2>5. QED
    BY <2>4
<1>4. QED
  BY <1>1, <1>2, <1>3, TypeCorrect, BookkeepingCorrect, PTL
  DEF Spec, ChannelsReadyMeansAllReady

-----------------------------------------------------------------------------
(* What is in a queue.                                                     *)

\* The message x is in the queue s.
Has(s, x) == \E i \in 1 .. Len(s) : s[i] = x

\* There is a y somewhere behind an x.
Behind(s, x, y) == \E i \in 1 .. Len(s), j \in 1 .. Len(s) :
                     i < j /\ s[i] = x /\ s[j] = y

\* The message is there more than once.
Twice(s, x) == Behind(s, x, x)

\* There is a restart without a request for the version behind it.
Bare(s) ==
  \E i \in 1 .. Len(s) :
    /\ s[i] = Plain("restart")
    /\ \A j \in 1 .. Len(s) : i < j => s[j] # Plain("VERSION_REQUEST")

\* No message opens channels.
NoOpen(s) == \A i \in 1 .. Len(s) : s[i][1] # "open_channels"

\* The last message opens channels for the configuration v, none before does.
OnlyLast(s, v) ==
  /\ s # <<>> /\ s[Len(s)] = <<"open_channels", v>>
  /\ \A i \in 1 .. Len(s) : i # Len(s) => s[i][1] # "open_channels"

\* The configuration the channels will be open for when s has been handled, if
\* they are open for c.
End(s, c) ==
  IF s = <<>> THEN c
  ELSE IF s[Len(s)][1] = "open_channels" THEN s[Len(s)][2] ELSE 0

-----------------------------------------------------------------------------
(* The invariant of the session.                                           *)
(*                                                                         *)
(* A handshake runs in a ring: from tcp_server to oaa_control_channel, back *)
(* to tcp_server, to the phone and from the phone to tcp_server again.     *)
(* What is on its way tells how far it has come.                           *)

\* The versions are yet to be agreed on, or TLS is yet to start.
Young ==
  \/ Has(fromTcp, Plain("connected")) \/ Has(fromTcp, Plain("restarting"))
  \/ Has(toTcp, Plain("VERSION_REQUEST"))
  \/ Has(phoneIn, Plain("VERSION_REQUEST"))
  \/ Has(phoneOut, Plain("VERSION_RESPONSE"))
  \/ Has(fromTcp, Plain("VERSION_RESPONSE"))
  \/ Has(toTcp, Plain("start_tls"))

\* The bytes of the handshake that _cryptor is in, on their way to the phone and
\* back.
Hello == <<"tls_handshake", cryptor>>
Bytes == <<"SSL_HANDSHAKE", cryptor>>
Input == <<"feed_input", cryptor>>

\* The cryptor takes bytes.
Live == tls \in {"hello", "active"}

\* TLS is being agreed on.
Shaking ==
  /\ Live
  /\ \/ Has(fromTcp, Hello) \/ Has(toTcp, Bytes) \/ Has(phoneIn, Bytes)
     \/ Has(phoneOut, Bytes) \/ Has(fromTcp, Bytes) \/ Has(toTcp, Input)

\* TLS has been agreed on.
Secured == Has(fromTcp, Plain("tls_handshake_completed"))

\* The phone is told, or asks for the services.
Late ==
  \/ Has(toTcp, Plain("AUTH_COMPLETE")) \/ Has(phoneIn, Plain("AUTH_COMPLETE"))
  \/ Has(phoneOut, Plain("SERVICE_DISCOVERY_REQ"))
  \/ Has(fromTcp, Plain("SERVICE_DISCOVERY_REQ"))

\* The phone says that it has been told.
Confirming ==
  Has(phoneOut, Plain("AUTH_COMPLETE")) \/ Has(fromTcp, Plain("AUTH_COMPLETE"))

\* Some handshake has not asked for the services yet.
Underway == Young \/ Shaking \/ Secured \/ Late \/ Confirming

\* The messages of a young handshake that are not there.
NoStart == ~ Has(fromTcp, Plain("connected")) /\ ~ Has(fromTcp, Plain("restarting"))
NoRequest == ~ Has(toTcp, Plain("VERSION_REQUEST"))
NoHeard == ~ Has(phoneIn, Plain("VERSION_REQUEST"))
NoAnswer == ~ Has(phoneOut, Plain("VERSION_RESPONSE"))
NoVersion == ~ Has(fromTcp, Plain("VERSION_RESPONSE"))

\* The bytes of the cryptor are there once at most, and no younger handshake is
\* between them and the place they left: where they are, part by part of the
\* ring.
Order0 ==
  Live /\ Has(fromTcp, Hello) =>
    /\ ~ Twice(fromTcp, Hello)
    /\ ~ Behind(fromTcp, Hello, Plain("connected"))
    /\ ~ Behind(fromTcp, Hello, Plain("restarting"))
Order1 ==
  Live /\ Has(toTcp, Bytes) =>
    /\ NoStart /\ ~ Has(fromTcp, Hello)
    /\ ~ Twice(toTcp, Bytes)
    /\ ~ Behind(toTcp, Bytes, Plain("VERSION_REQUEST"))
Order2 ==
  Live /\ Has(phoneIn, Bytes) =>
    /\ NoStart /\ ~ Has(fromTcp, Hello)
    /\ NoRequest /\ ~ Has(toTcp, Bytes)
    /\ ~ Twice(phoneIn, Bytes)
    /\ ~ Behind(phoneIn, Bytes, Plain("VERSION_REQUEST"))
Order3 ==
  Live /\ Has(phoneOut, Bytes) =>
    /\ NoStart /\ ~ Has(fromTcp, Hello)
    /\ NoRequest /\ ~ Has(toTcp, Bytes)
    /\ NoHeard /\ ~ Has(phoneIn, Bytes)
    /\ ~ Twice(phoneOut, Bytes)
    /\ ~ Behind(phoneOut, Bytes, Plain("VERSION_RESPONSE"))
Order4 ==
  Live /\ Has(fromTcp, Bytes) =>
    /\ NoStart /\ ~ Has(fromTcp, Hello)
    /\ NoRequest /\ ~ Has(toTcp, Bytes)
    /\ NoHeard /\ ~ Has(phoneIn, Bytes)
    /\ NoAnswer /\ ~ Has(phoneOut, Bytes)
    /\ ~ Twice(fromTcp, Bytes)
    /\ ~ Behind(fromTcp, Bytes, Plain("VERSION_RESPONSE"))
Order5 ==
  Live /\ Has(toTcp, Input) =>
    /\ NoStart /\ ~ Has(fromTcp, Hello)
    /\ NoRequest /\ ~ Has(toTcp, Bytes)
    /\ NoHeard /\ ~ Has(phoneIn, Bytes)
    /\ NoAnswer /\ ~ Has(phoneOut, Bytes)
    /\ NoVersion /\ ~ Has(fromTcp, Bytes)
    /\ ~ Twice(toTcp, Input)
    /\ ~ Behind(toTcp, Input, Plain("start_tls"))
Order == Order0 /\ Order1 /\ Order2 /\ Order3 /\ Order4 /\ Order5

\* One handshake at a time is past the start of TLS, and no younger one follows
\* it: a later stage excludes the earlier ones.
Stages ==
  /\ tls = "active" => ~ Shaking
  /\ Secured => /\ ~ Young /\ ~ Shaking
                /\ ~ Twice(fromTcp, Plain("tls_handshake_completed"))
  /\ Late => ~ Young /\ ~ Shaking /\ ~ Secured

\* The phone is told once, and asks once.
AuthT == Has(toTcp, Plain("AUTH_COMPLETE"))
AuthP == Has(phoneIn, Plain("AUTH_COMPLETE"))
AskP == Has(phoneOut, Plain("SERVICE_DISCOVERY_REQ"))
AskT == Has(fromTcp, Plain("SERVICE_DISCOVERY_REQ"))
LateOnce ==
  /\ AuthT => ~ AuthP /\ ~ AskP /\ ~ AskT
  /\ AuthP => ~ AskP /\ ~ AskT
  /\ AskP => ~ AskT
  /\ ~ Twice(toTcp, Plain("AUTH_COMPLETE"))
  /\ ~ Twice(phoneIn, Plain("AUTH_COMPLETE"))
  /\ ~ Twice(phoneOut, Plain("SERVICE_DISCOVERY_REQ"))
  /\ ~ Twice(fromTcp, Plain("SERVICE_DISCOVERY_REQ"))

\* The phone does not say so after it has asked.
Confirms ==
  /\ ~ Behind(phoneOut, Plain("SERVICE_DISCOVERY_REQ"), Plain("AUTH_COMPLETE"))
  /\ ~ Behind(fromTcp, Plain("SERVICE_DISCOVERY_REQ"), Plain("AUTH_COMPLETE"))
  /\ AskT => ~ Has(phoneOut, Plain("AUTH_COMPLETE"))

Ring == Order /\ Stages /\ LateOnce /\ Confirms

\* channel_manager has nothing open and nothing to open.
Quiet == cm = 0 /\ fromCm = <<>> /\ NoOpen(toCm)

\* It has not before the phone has asked for the services.
QuietBefore == Underway => Quiet

\* A handshake started after the last restart has its request for the version
\* behind the restart; none is at its end while a restart is to come.
Restarts ==
  /\ state # "none" => /\ ~ Bare(toTcp)
                       /\ waiting => Has(toTcp, Plain("VERSION_REQUEST"))
  /\ Has(toTcp, Plain("AUTH_COMPLETE")) =>
       ~ waiting /\ ~ Behind(toTcp, Plain("restart"), Plain("AUTH_COMPLETE"))

\* oaa_control_channel hears of the end of a connection before the next one.
Gone ==
  /\ ~ Behind(fromTcp, Plain("closed"), Plain("connected"))
  /\ ~ Behind(fromTcp, Plain("closed"), Plain("restarting"))
  /\ conn = "down" =>
       ~ waiting /\ (Has(fromTcp, Plain("closed")) \/ (state = "none" /\ NoStart))

\* The configuration the channels will be open for when channel_manager has
\* handled what it has been sent.
CmEnd == End(toCm, cm)

\* They will only for a handshake that has asked for them.
Follow ==
  CmEnd # 0 =>
    state \in {"WAITING_CHANNELS", "CHANNELS_OPENING", "ACTIVE"} /\ CmEnd = asked

\* What is on its way while a handshake waits for them.
Awaits ==
  state = "WAITING_CHANNELS" =>
    \/ /\ toCm = <<>> /\ cm = asked /\ cmReady
       /\ fromCm = <<<<"channels_ready", asked>>>>
    \/ toCm = <<>> /\ cm = asked /\ ~ cmReady /\ fromCm = <<>>
    \/ toCm = <<>> /\ cm = 0 /\ fromCm = <<>>
    \/ OnlyLast(toCm, asked) /\ cm = 0 /\ fromCm = <<>>

SessionInv ==
  SessionTypeOK /\ Ring /\ QuietBefore /\ Restarts /\ Gone /\ Follow /\ Awaits

-----------------------------------------------------------------------------
(* Lemmas about queues.                                                    *)

\* The messages the proof follows.
Token(x) ==
  x[1] \in {"connected", "restarting", "VERSION_REQUEST", "VERSION_RESPONSE",
            "start_tls", "tls_handshake", "SSL_HANDSHAKE", "feed_input",
            "tls_handshake_completed", "AUTH_COMPLETE", "SERVICE_DISCOVERY_REQ"}

\* Of these, t holds at most those of s, and m behind them.
Gains(s, t, m) ==
  /\ \A x : Token(x) /\ Has(t, x) => Has(s, x) \/ x = m
  /\ \A x, y : Token(x) /\ Token(y) /\ Behind(t, x, y) =>
                Behind(s, x, y) \/ (Has(s, x) /\ y = m)
  /\ \A x, y : Behind(s, x, y) => Has(s, x)

\* The queue s holds those of t, and m before them.
Loses(s, t, m) ==
  /\ \A x : x = m \/ Has(t, x) => Has(s, x)
  /\ \A x, y : (x = m /\ Has(t, y)) \/ Behind(t, x, y) => Behind(s, x, y)

\* The queue t holds no others than s.
Fewer(s, t) ==
  /\ \A x : Token(x) /\ Has(t, x) => Has(s, x)
  /\ \A x, y : Token(x) /\ Token(y) /\ Behind(t, x, y) => Behind(s, x, y)

\* What is in a queue with a message more.
LEMMA HasAppend ==
  ASSUME NEW U, NEW s \in Seq(U), NEW m, NEW x
  PROVE  Has(Append(s, m), x) <=> Has(s, x) \/ x = m
<1>0. PICK t : t = Append(s, m)
  OBVIOUS
<1>1. /\ Len(t) = Len(s) + 1 /\ t[Len(s) + 1] = m /\ Len(s) \in Nat
      /\ \A i \in 1 .. Len(s) : t[i] = s[i]
  BY <1>0
<1>2. Has(t, x) <=> Has(s, x) \/ x = m
  <2>1. Has(s, x) => Has(t, x)
    BY <1>1 DEF Has
  <2>2. x = m => Has(t, x)
    <3>1. Len(s) + 1 \in 1 .. Len(t)
      BY <1>1
    <3> QED
      BY <1>1, <3>1 DEF Has
  <2>3. ASSUME Has(t, x) PROVE Has(s, x) \/ x = m
    <3>1. PICK i \in 1 .. Len(t) : t[i] = x
      BY <2>3 DEF Has
    <3>2. i \in 1 .. Len(s) \/ i = Len(s) + 1
      BY <1>1
    <3> QED
      BY <1>1, <3>1, <3>2 DEF Has
  <2> QED
    BY <2>1, <2>2, <2>3
<1> QED
  BY <1>0, <1>2

\* What is behind what in a queue with a message more.
LEMMA BehindAppend ==
  ASSUME NEW U, NEW s \in Seq(U), NEW m, NEW x, NEW y
  PROVE  Behind(Append(s, m), x, y) <=> Behind(s, x, y) \/ (Has(s, x) /\ y = m)
<1>0. PICK t : t = Append(s, m)
  OBVIOUS
<1>1. /\ Len(t) = Len(s) + 1 /\ t[Len(s) + 1] = m /\ Len(s) \in Nat
      /\ \A i \in 1 .. Len(s) : t[i] = s[i]
  BY <1>0
<1>2. Behind(t, x, y) <=> Behind(s, x, y) \/ (Has(s, x) /\ y = m)
  <2>1. Behind(s, x, y) => Behind(t, x, y)
    BY <1>1 DEF Behind
  <2>2. ASSUME Has(s, x), y = m PROVE Behind(t, x, y)
    <3>1. PICK i \in 1 .. Len(s) : s[i] = x
      BY <2>2 DEF Has
    <3>2. i \in 1 .. Len(t) /\ Len(s) + 1 \in 1 .. Len(t) /\ i < Len(s) + 1
      BY <1>1
    <3> QED
      BY <1>1, <2>2, <3>1, <3>2 DEF Behind
  <2>3. ASSUME Behind(t, x, y) PROVE Behind(s, x, y) \/ (Has(s, x) /\ y = m)
    <3>1. PICK i \in 1 .. Len(t), j \in 1 .. Len(t) : i < j /\ t[i] = x /\ t[j] = y
      BY <2>3 DEF Behind
    <3>2. i \in 1 .. Len(s) /\ (j \in 1 .. Len(s) \/ j = Len(s) + 1)
      BY <1>1, <3>1
    <3> QED
      BY <1>1, <3>1, <3>2 DEF Behind, Has
  <2> QED
    BY <2>1, <2>2, <2>3
<1> QED
  BY <1>0, <1>2

\* When a restart is the last word in a queue with a message more.
LEMMA BareAppend ==
  ASSUME NEW U, NEW s \in Seq(U), NEW m
  PROVE  Bare(Append(s, m)) <=>
           (Bare(s) /\ m # Plain("VERSION_REQUEST")) \/ m = Plain("restart")
<1>0. PICK t : t = Append(s, m)
  OBVIOUS
<1>1. /\ Len(t) = Len(s) + 1 /\ t[Len(s) + 1] = m /\ Len(s) \in Nat
      /\ \A i \in 1 .. Len(s) : t[i] = s[i]
  BY <1>0
<1>2. Bare(t) <=> (Bare(s) /\ m # Plain("VERSION_REQUEST")) \/ m = Plain("restart")
  <2>1. ASSUME Bare(s), m # Plain("VERSION_REQUEST") PROVE Bare(t)
    <3>1. PICK i \in 1 .. Len(s) :
            /\ s[i] = Plain("restart")
            /\ \A j \in 1 .. Len(s) : i < j => s[j] # Plain("VERSION_REQUEST")
      BY <2>1 DEF Bare
    <3>2. \A j \in 1 .. Len(t) : i < j => t[j] # Plain("VERSION_REQUEST")
      <4> SUFFICES ASSUME NEW j \in 1 .. Len(t), i < j
                   PROVE  t[j] # Plain("VERSION_REQUEST")
        OBVIOUS
      <4>1. j \in 1 .. Len(s) \/ j = Len(s) + 1
        BY <1>1
      <4> QED
        BY <1>1, <2>1, <3>1, <4>1
    <3>3. i \in 1 .. Len(t) /\ t[i] = Plain("restart")
      BY <1>1, <3>1
    <3> QED
      BY <3>2, <3>3 DEF Bare
  <2>2. ASSUME m = Plain("restart") PROVE Bare(t)
    <3>1. Len(s) + 1 \in 1 .. Len(t) /\ \A j \in 1 .. Len(t) : ~ (Len(s) + 1 < j)
      BY <1>1
    <3> QED
      BY <1>1, <2>2, <3>1 DEF Bare
  <2>3. ASSUME Bare(t), m # Plain("restart") PROVE Bare(s) /\ m # Plain("VERSION_REQUEST")
    <3>1. PICK i \in 1 .. Len(t) :
            /\ t[i] = Plain("restart")
            /\ \A j \in 1 .. Len(t) : i < j => t[j] # Plain("VERSION_REQUEST")
      BY <2>3 DEF Bare
    <3>2. i \in 1 .. Len(s)
      BY <1>1, <2>3, <3>1
    <3>3. Len(s) + 1 \in 1 .. Len(t) /\ i < Len(s) + 1
      BY <1>1, <3>2
    <3>4. m # Plain("VERSION_REQUEST")
      BY <1>1, <3>1, <3>3
    <3>5. \A j \in 1 .. Len(s) : i < j => s[j] # Plain("VERSION_REQUEST")
      BY <1>1, <3>1
    <3>6. s[i] = Plain("restart")
      BY <1>1, <3>1, <3>2
    <3> QED
      BY <3>2, <3>4, <3>5, <3>6 DEF Bare
  <2> QED
    BY <2>1, <2>2, <2>3
<1> QED
  BY <1>0, <1>2

\* What is behind something is in the queue.
LEMMA BehindHas ==
  ASSUME NEW s, NEW x, NEW y, Behind(s, x, y)
  PROVE  Has(s, x) /\ Has(s, y)
BY DEF Behind, Has

\* A message more is gained ...
LEMMA GainsMore ==
  ASSUME NEW U, NEW s \in Seq(U), NEW m
  PROVE  Gains(s, Append(s, m), m)
BY HasAppend, BehindAppend, BehindHas DEF Gains

\* ... or not counted.
LEMMA FewerMore ==
  ASSUME NEW U, NEW s \in Seq(U), NEW m, ~ Token(m)
  PROVE  Fewer(s, Append(s, m))
BY HasAppend, BehindAppend DEF Fewer

\* What is in a queue, its first message and the others.
LEMMA HasTail ==
  ASSUME NEW U, NEW s \in Seq(U), s # <<>>, NEW x
  PROVE  Has(s, x) <=> x = Head(s) \/ Has(Tail(s), x)
<1>0. PICK t, m : t = Tail(s) /\ m = Head(s)
  OBVIOUS
<1>1. /\ Len(s) = Len(t) + 1 /\ s[1] = m /\ Len(t) \in Nat
      /\ \A i \in 1 .. Len(t) : t[i] = s[i + 1]
  BY <1>0
<1>2. \A i \in 1 .. Len(s) : i = 1 \/ (i - 1 \in 1 .. Len(t) /\ s[i] = t[i - 1])
  BY <1>1
<1>3. \A i \in 1 .. Len(t) : i + 1 \in 1 .. Len(s) /\ s[i + 1] = t[i]
  BY <1>1
<1>4. 1 \in 1 .. Len(s)
  BY <1>1
<1>5. Has(s, x) <=> x = m \/ Has(t, x)
  <2>1. x = m \/ Has(t, x) => Has(s, x)
    BY <1>1, <1>3, <1>4 DEF Has
  <2>2. Has(s, x) => x = m \/ Has(t, x)
    BY <1>1, <1>2 DEF Has
  <2> QED
    BY <2>1, <2>2
<1> QED
  BY <1>0, <1>5

\* What is behind what in it.
LEMMA BehindTail ==
  ASSUME NEW U, NEW s \in Seq(U), s # <<>>, NEW x, NEW y
  PROVE  Behind(s, x, y) <=> (x = Head(s) /\ Has(Tail(s), y)) \/ Behind(Tail(s), x, y)
<1>0. PICK t, m : t = Tail(s) /\ m = Head(s)
  OBVIOUS
<1>1. /\ Len(s) = Len(t) + 1 /\ s[1] = m /\ Len(t) \in Nat
      /\ \A i \in 1 .. Len(t) : t[i] = s[i + 1]
  BY <1>0
<1>2. \A i \in 1 .. Len(s) : i = 1 \/ (i - 1 \in 1 .. Len(t) /\ s[i] = t[i - 1])
  BY <1>1
<1>3. \A i \in 1 .. Len(t) : i + 1 \in 1 .. Len(s) /\ s[i + 1] = t[i]
  BY <1>1
<1>4. 1 \in 1 .. Len(s)
  BY <1>1
<1>5. Behind(s, x, y) <=> (x = m /\ Has(t, y)) \/ Behind(t, x, y)
  <2>1. ASSUME x = m, Has(t, y) PROVE Behind(s, x, y)
    <3>1. PICK j \in 1 .. Len(t) : t[j] = y
      BY <2>1 DEF Has
    <3>2. j + 1 \in 1 .. Len(s) /\ s[j + 1] = y /\ 1 < j + 1
      BY <1>3, <3>1
    <3> QED
      BY <1>1, <1>4, <2>1, <3>2 DEF Behind
  <2>2. ASSUME Behind(t, x, y) PROVE Behind(s, x, y)
    <3>1. PICK i \in 1 .. Len(t), j \in 1 .. Len(t) : i < j /\ t[i] = x /\ t[j] = y
      BY <2>2 DEF Behind
    <3>2. /\ i + 1 \in 1 .. Len(s) /\ s[i + 1] = x
          /\ j + 1 \in 1 .. Len(s) /\ s[j + 1] = y /\ i + 1 < j + 1
      BY <1>3, <3>1
    <3> QED
      BY <3>2 DEF Behind
  <2>3. ASSUME Behind(s, x, y) PROVE (x = m /\ Has(t, y)) \/ Behind(t, x, y)
    <3>1. PICK i \in 1 .. Len(s), j \in 1 .. Len(s) : i < j /\ s[i] = x /\ s[j] = y
      BY <2>3 DEF Behind
    <3>2. j - 1 \in 1 .. Len(t) /\ t[j - 1] = y
      BY <1>1, <1>2, <3>1
    <3>3. CASE i = 1
      BY <1>1, <3>1, <3>2, <3>3 DEF Has
    <3>4. CASE i # 1
      <4>1. i - 1 \in 1 .. Len(t) /\ t[i - 1] = x /\ i - 1 < j - 1
        BY <1>2, <3>1, <3>4
      <4> QED
        BY <3>2, <4>1 DEF Behind
    <3> QED
      BY <3>3, <3>4
  <2> QED
    BY <2>1, <2>2, <2>3
<1> QED
  BY <1>0, <1>5

\* A restart that is not the last word is followed by a request.
LEMMA BareTail ==
  ASSUME NEW U, NEW s \in Seq(U), s # <<>>, ~ Bare(s)
  PROVE  /\ ~ Bare(Tail(s))
         /\ Head(s) = Plain("restart") => Has(Tail(s), Plain("VERSION_REQUEST"))
<1>0. PICK t, m : t = Tail(s) /\ m = Head(s)
  OBVIOUS
<1>1. /\ Len(s) = Len(t) + 1 /\ s[1] = m /\ Len(t) \in Nat
      /\ \A i \in 1 .. Len(t) : t[i] = s[i + 1]
  BY <1>0
<1>2. \A i \in 1 .. Len(s) : i = 1 \/ (i - 1 \in 1 .. Len(t) /\ s[i] = t[i - 1])
  BY <1>1
<1>3. \A i \in 1 .. Len(t) : i + 1 \in 1 .. Len(s) /\ s[i + 1] = t[i]
  BY <1>1
<1>4. 1 \in 1 .. Len(s)
  BY <1>1
<1>5. Bare(t) => Bare(s)
  <2> SUFFICES ASSUME Bare(t) PROVE Bare(s)
    OBVIOUS
  <2>1. PICK i \in 1 .. Len(t) :
          /\ t[i] = Plain("restart")
          /\ \A j \in 1 .. Len(t) : i < j => t[j] # Plain("VERSION_REQUEST")
    BY DEF Bare
  <2>2. i + 1 \in 1 .. Len(s) /\ s[i + 1] = Plain("restart")
    BY <1>3, <2>1
  <2>3. ASSUME NEW j \in 1 .. Len(s), i + 1 < j PROVE s[j] # Plain("VERSION_REQUEST")
    <3>1. j - 1 \in 1 .. Len(t) /\ s[j] = t[j - 1] /\ i < j - 1
      BY <1>2, <2>3
    <3> QED
      BY <2>1, <3>1
  <2> QED
    BY <2>2, <2>3 DEF Bare
<1>6. ASSUME m = Plain("restart"), ~ Bare(s) PROVE Has(t, Plain("VERSION_REQUEST"))
  <2>1. PICK j \in 1 .. Len(s) : 1 < j /\ s[j] = Plain("VERSION_REQUEST")
    BY <1>1, <1>4, <1>6 DEF Bare
  <2>2. j - 1 \in 1 .. Len(t) /\ t[j - 1] = Plain("VERSION_REQUEST")
    BY <1>2, <2>1
  <2> QED
    BY <2>2 DEF Has
<1> QED
  BY <1>0, <1>5, <1>6

\* The first message is lost.
LEMMA LosesTail ==
  ASSUME NEW U, NEW s \in Seq(U), s # <<>>
  PROVE  Loses(s, Tail(s), Head(s)) /\ Fewer(s, Tail(s))
BY HasTail, BehindTail DEF Loses, Fewer

\* There is nothing in an empty queue.
LEMMA HasNothing ==
  /\ \A x : ~ Has(<<>>, x)
  /\ \A x, y : ~ Behind(<<>>, x, y)
  /\ ~ Bare(<<>>)
<1>1. ~ \E i \in 1 .. Len(<<>>) : TRUE
  OBVIOUS
<1> QED
  BY <1>1 DEF Has, Behind, Bare

\* Fewer is transitive, and nothing is fewer than anything.
LEMMA Fewest ==
  /\ \A s : Fewer(s, s) /\ Fewer(s, <<>>)
  /\ \A s, t, u : Fewer(s, t) /\ Fewer(t, u) => Fewer(s, u)
BY HasNothing DEF Fewer

\* A queue that gets the answer of the phone.
LEMMA TwoMore ==
  ASSUME NEW U, NEW s \in Seq(U), NEW m, NEW n
  PROVE  /\ s \o <<>> = s /\ s \o <<m>> = Append(s, m)
         /\ s \o <<m, n>> = Append(Append(s, m), n)
         /\ (s \o <<>>) \o <<n>> = Append(s, n)
         /\ (s \o <<m>>) \o <<n>> = Append(Append(s, m), n)
OBVIOUS

\* The ring is kept by what takes tokens away and adds none.
LEMMA FewerRing ==
  ASSUME Ring, Fewer(fromTcp, fromTcp'), Fewer(toTcp, toTcp'),
         Fewer(phoneIn, phoneIn'), Fewer(phoneOut, phoneOut'),
         UNCHANGED <<cryptor, tls>> \/ ~ Live'
  PROVE  Ring' /\ (Underway' => Underway)
<1> USE DEF Fewer, Plain, Token, Live, Hello, Bytes, Input, NoStart,
            NoRequest, NoHeard, NoAnswer, NoVersion, Twice
<1>1. Order0'
  BY DEF Ring, Order, Order0
<1>2. Order1'
  BY DEF Ring, Order, Order0, Order1
<1>3. Order2'
  BY DEF Ring, Order, Order1, Order2
<1>4. Order3'
  BY DEF Ring, Order, Order2, Order3
<1>5. Order4'
  BY DEF Ring, Order, Order4, Order3
<1>6. Order5'
  BY DEF Ring, Order, Order5, Order4
<1>7. Stages'
  BY DEF Ring, Stages, Shaking, Secured, Young, Late
<1>8. LateOnce'
  BY DEF Ring, Stages, Secured, Late, LateOnce, AuthT, AuthP, AskP, AskT
<1>9. Underway' => Underway
  BY DEF Underway, Shaking, Secured, Young, Late, Confirming
<1>10. Confirms'
  BY DEF Ring, Confirms, AskT
<1> QED
  BY <1>1, <1>2, <1>3, <1>4, <1>5, <1>6, <1>7, <1>8, <1>9, <1>10 DEF Ring, Order

\* A token that moves to the next queue, as itself or as what it is answered
\* with, keeps the ring.
LEMMA MoveRing ==
  ASSUME Ring, NEW m, NEW n, UNCHANGED <<cryptor, tls>>,
         \/ /\ Loses(toTcp, toTcp', m) /\ Gains(phoneIn, phoneIn', n)
            /\ UNCHANGED <<fromTcp, phoneOut>>
            /\ n = m
         \/ /\ Loses(phoneIn, phoneIn', m) /\ Gains(phoneOut, phoneOut', n)
            /\ UNCHANGED <<fromTcp, toTcp>>
            /\ \/ m = Plain("VERSION_REQUEST") /\ n = Plain("VERSION_RESPONSE")
               \/ m[1] = "SSL_HANDSHAKE" /\ n = m
               \/ m = Plain("AUTH_COMPLETE") /\ n = Plain("SERVICE_DISCOVERY_REQ")
         \/ /\ Loses(phoneOut, phoneOut', m) /\ Gains(fromTcp, fromTcp', n)
            /\ UNCHANGED <<toTcp, phoneIn>>
            /\ n = m /\ m \in OfPhone
         \/ /\ Loses(fromTcp, fromTcp', m) /\ Gains(toTcp, toTcp', n)
            /\ UNCHANGED <<phoneIn, phoneOut>>
            /\ \/ /\ m \in {Plain("connected"), Plain("restarting")}
                  /\ n = Plain("VERSION_REQUEST")
               \/ m = Plain("VERSION_RESPONSE") /\ n = Plain("start_tls")
               \/ \E h : m = <<"tls_handshake", h>> /\ n = <<"SSL_HANDSHAKE", h>>
               \/ \E h : m = <<"SSL_HANDSHAKE", h>> /\ n = <<"feed_input", h>>
               \/ m = Plain("tls_handshake_completed") /\ n = Plain("AUTH_COMPLETE")
  PROVE  Ring' /\ (Underway' => Underway)
<1>1. m \in OfPhone => m \notin {Plain("connected"), Plain("restarting"), Hello,
                                 Plain("tls_handshake_completed"), Plain("closed")}
  BY DEF OfPhone, Hello, Plain, Plainly, PhoneSays
<1> USE DEF Gains, Loses, Plain, Token, Live, Hello, Bytes, Input, NoStart,
            NoRequest, NoHeard, NoAnswer, NoVersion, Twice
<1>2. Order0'
  BY <1>1 DEF Ring, Order, Order0
<1>3. Order1'
  BY <1>1 DEF Ring, Order, Order0, Order1
<1>4. Order2'
  BY <1>1 DEF Ring, Order, Order1, Order2
<1>5. Order3'
  BY <1>1 DEF Ring, Order, Order2, Order3
<1>6. Order4'
  BY <1>1 DEF Ring, Order, Order4, Order3
<1>7. Order5'
  BY <1>1 DEF Ring, Order, Order5, Order4
<1>8. Stages'
  BY <1>1 DEF Ring, Stages, Shaking, Secured, Young, Late
<1>9. LateOnce'
  BY <1>1 DEF Ring, Stages, Secured, Late, LateOnce, AuthT, AuthP, AskP, AskT
<1>10. Underway' => Underway
  BY <1>1 DEF Underway, Shaking, Secured, Young, Late, Confirming
<1>11. Confirms'
  BY <1>1 DEF Ring, Confirms, LateOnce, AuthP, AskP, AskT
<1> QED
  BY <1>2, <1>3, <1>4, <1>5, <1>6, <1>7, <1>8, <1>9, <1>10, <1>11 DEF Ring, Order

\* A phone that confirms keeps the ring, too.
LEMMA ConfirmRing ==
  ASSUME Ring, NEW s, UNCHANGED <<cryptor, tls, fromTcp, toTcp>>,
         Loses(phoneIn, phoneIn', Plain("AUTH_COMPLETE")),
         Gains(phoneOut, s, Plain("AUTH_COMPLETE")),
         Gains(s, phoneOut', Plain("SERVICE_DISCOVERY_REQ"))
  PROVE  Ring' /\ Underway
<1>1. Underway /\ Late /\ AuthP
  BY DEF Loses, Underway, Late, AuthP
<1>2. /\ ~ Young /\ ~ Shaking /\ ~ Secured
      /\ ~ AuthT /\ ~ AskP /\ ~ AskT
  BY <1>1 DEF Ring, Stages, LateOnce
<1> USE DEF Gains, Loses, Plain, Token, Live, Hello, Bytes, Input, NoStart,
            NoRequest, NoHeard, NoAnswer, NoVersion, Twice
<1>3. ~ Young'
  BY <1>2 DEF Young
<1>4. ~ Shaking'
  BY <1>2 DEF Shaking
<1>5. ~ Secured'
  BY <1>2 DEF Secured
<1>6. Order'
  BY <1>4 DEF Shaking, Order, Order0, Order1, Order2, Order3, Order4, Order5
<1>7. Stages'
  BY <1>3, <1>4, <1>5 DEF Stages
<1>8. LateOnce'
  BY <1>2 DEF Ring, LateOnce, AuthT, AuthP, AskP, AskT
<1>9. Confirms'
  BY <1>2 DEF Ring, Confirms, AskP, AskT
<1> QED
  BY <1>1, <1>6, <1>7, <1>8, <1>9 DEF Ring

\* A new cryptor: no bytes of its handshake are anywhere yet.
LEMMA StartTlsRing ==
  ASSUME Ring, NEW c, Loses(toTcp, toTcp', Plain("start_tls")),
         Gains(fromTcp, fromTcp', <<"tls_handshake", c>>),
         UNCHANGED <<phoneIn, phoneOut>>, cryptor' = c, tls' = "hello",
         \A q \in {fromTcp, toTcp, phoneIn, phoneOut} :
           ~ Has(q, <<"tls_handshake", c>>) /\ ~ Has(q, <<"SSL_HANDSHAKE", c>>)
             /\ ~ Has(q, <<"feed_input", c>>)
  PROVE  Ring' /\ Underway
<1> USE DEF Gains, Loses, Plain, Token, Live, Hello, Bytes, Input, NoStart,
            NoRequest, NoHeard, NoAnswer, NoVersion, Twice
<1>1. Order0'
  BY DEF Ring, Order, Order0
<1>2. Order1'
  BY DEF Ring, Order, Order0, Order1
<1>3. Order2'
  BY DEF Ring, Order, Order1, Order2
<1>4. Order3'
  BY DEF Ring, Order, Order2, Order3
<1>5. Order4'
  BY DEF Ring, Order, Order4, Order3
<1>6. Order5'
  BY DEF Ring, Order, Order5, Order4
<1>7. Stages'
  <2>1. Young /\ ~ Secured /\ ~ Late
    BY DEF Ring, Stages, Young
  <2>2. ~ Secured'
    BY <2>1 DEF Secured
  <2>3. ~ Late'
    BY <2>1 DEF Late
  <2> QED
    BY <2>2, <2>3 DEF Stages
<1>8. LateOnce'
  BY DEF Ring, Stages, Secured, Late, LateOnce, AuthT, AuthP, AskP, AskT
<1>9. Underway
  BY DEF Underway, Young
<1>10. Confirms'
  BY DEF Ring, Confirms, AskT
<1> QED
  BY <1>1, <1>2, <1>3, <1>4, <1>5, <1>6, <1>7, <1>8, <1>9, <1>10 DEF Ring, Order

\* The cryptor takes the last bytes of its handshake.
LEMMA FeedRing ==
  ASSUME Ring, Loses(toTcp, toTcp', Input), Live,
         Gains(fromTcp, fromTcp', Plain("tls_handshake_completed")),
         UNCHANGED <<phoneIn, phoneOut, cryptor>>, tls' = "active"
  PROVE  Ring' /\ Underway
<1> USE DEF Gains, Loses, Plain, Token, Live, Hello, Bytes, Input, NoStart,
            NoRequest, NoHeard, NoAnswer, NoVersion, Twice
<1>1. Order0'
  BY DEF Ring, Order, Order0
<1>2. Order1'
  BY DEF Ring, Order, Order0, Order1
<1>3. Order2'
  BY DEF Ring, Order, Order1, Order2
<1>4. Order3'
  BY DEF Ring, Order, Order2, Order3
<1>5. Order4'
  BY DEF Ring, Order, Order4, Order3
<1>6. Order5'
  BY DEF Ring, Order, Order5, Order4
<1>7. Stages'
  <2>1. Shaking /\ ~ Secured /\ ~ Late
    BY DEF Ring, Stages, Shaking
  <2>2. ~ Shaking'
    BY DEF Ring, Order, Order5, Shaking
  <2>3. ~ Young'
    BY DEF Ring, Order, Order5, Young
  <2>4. ~ Late'
    BY <2>1 DEF Late
  <2>5. ~ Twice(fromTcp, Plain("tls_handshake_completed"))'
    BY <2>1 DEF Secured
  <2> QED
    BY <2>2, <2>3, <2>4, <2>5 DEF Stages
<1>8. LateOnce'
  BY DEF Ring, Stages, Secured, Late, LateOnce, AuthT, AuthP, AskP, AskT
<1>9. Underway
  BY DEF Underway, Shaking
<1>10. Confirms'
  BY DEF Ring, Confirms, AskT
<1> QED
  BY <1>1, <1>2, <1>3, <1>4, <1>5, <1>6, <1>7, <1>8, <1>9, <1>10 DEF Ring, Order

\* A handshake starts when nothing of another is on its way but to tcp_server.
LEMMA StartRing ==
  ASSUME Ring, NEW m, Gains(fromTcp, fromTcp', m),
         m \in {Plain("connected"), Plain("restarting")},
         fromTcp = <<>>, phoneIn = <<>>, phoneOut = <<>>,
         UNCHANGED <<toTcp, phoneIn, phoneOut>>,
         ~ Has(toTcp, Plain("AUTH_COMPLETE")), ~ Live' \/ toTcp = <<>>
  PROVE  Ring'
<1> USE DEF Gains, Plain, Token, Live, Hello, Bytes, Input, NoStart,
            NoRequest, NoHeard, NoAnswer, NoVersion, Twice
<1>1. Order0'
  BY HasNothing DEF Ring, Order, Order0
<1>2. Order1'
  BY HasNothing DEF Ring, Order, Order0, Order1
<1>3. Order2'
  BY HasNothing DEF Ring, Order, Order1, Order2
<1>4. Order3'
  BY HasNothing DEF Ring, Order, Order2, Order3
<1>5. Order4'
  BY HasNothing DEF Ring, Order, Order4, Order3
<1>6. Order5'
  BY HasNothing DEF Ring, Order, Order5, Order4
<1>7. Stages'
  BY HasNothing DEF Ring, Stages, Shaking, Secured, Young, Late
<1>8. LateOnce'
  BY HasNothing DEF Ring, Stages, Secured, Late, LateOnce, AuthT, AuthP, AskP, AskT
<1>9. Confirms'
  BY HasNothing DEF Ring, Confirms, AskT
<1> QED
  BY <1>1, <1>2, <1>3, <1>4, <1>5, <1>6, <1>7, <1>8, <1>9 DEF Ring, Order

\* With its request for the services the handshake has left the ring.
LEMMA DiscoveryRing ==
  ASSUME Ring, Fewer(fromTcp, fromTcp'),
         Loses(fromTcp, fromTcp', Plain("SERVICE_DISCOVERY_REQ")),
         UNCHANGED <<toTcp, phoneIn, phoneOut, cryptor, tls>>
  PROVE  Ring' /\ ~ Underway'
<1>1. Ring' /\ (Underway' => Underway)
  BY FewerRing, Fewest
<1>2. Late /\ ~ Young /\ ~ Shaking /\ ~ Secured
  BY DEF Loses, Ring, Stages, Late
<1>3. ~ Young' /\ ~ Shaking' /\ ~ Secured'
  BY <1>1, <1>2 DEF Fewer, Token, Plain, Young, Shaking, Secured, Live, Hello, Bytes, Input
<1>4. ~ Late'
  BY <1>1 DEF Loses, Ring, LateOnce, AuthT, AuthP, AskP, AskT, Late, Twice
<1>5. ~ Confirming'
  BY DEF Loses, Ring, Confirms, AskT, Confirming
<1> QED
  BY <1>1, <1>3, <1>4, <1>5 DEF Underway

-----------------------------------------------------------------------------
(* Types.                                                                  *)

\* What a queue holds after a message more, or without its first.
LEMMA QueueTypes ==
  ASSUME NEW U, NEW s \in Seq(U)
  PROVE  /\ s # <<>> => Head(s) \in U /\ Tail(s) \in Seq(U)
         /\ \A m \in U : Append(s, m) \in Seq(U)
         /\ <<>> \in Seq(U)
OBVIOUS

\* A longer queue of messages holds what the shorter may.
LEMMA MoreTypes ==
  ASSUME SessionTypeOK, config' \in Nat, hellos' \in Nat,
         config <= config', hellos <= hellos'
  PROVE  /\ toTcp \in Seq(ToServer') /\ fromTcp \in Seq(OfServer')
         /\ phoneIn \in Seq(ToPhone') /\ phoneOut \in Seq(OfPhone')
         /\ toCm \in Seq(ToManager') /\ fromCm \in Seq(OfManager')
<1>1. 1 .. config \subseteq 1 .. config' /\ 1 .. hellos \subseteq 1 .. hellos'
  BY DEF SessionTypeOK, CCTypeOK
<1>2. ToPhone \subseteq ToPhone' /\ OfPhone \subseteq OfPhone'
  BY <1>1 DEF ToPhone, OfPhone
<1>3. ToServer \subseteq ToServer' /\ OfServer \subseteq OfServer'
  BY <1>1, <1>2 DEF ToServer, OfServer
<1>4. ToManager \subseteq ToManager' /\ OfManager \subseteq OfManager'
  BY <1>1 DEF ToManager, OfManager
<1> HIDE DEF ToServer, OfServer, ToPhone, OfPhone, ToManager, OfManager
<1> QED
  BY <1>2, <1>3, <1>4, SeqMonotonic DEF SessionTypeOK, QueuesOK

\* Which messages may be where.
LEMMA PlainTypes ==
  /\ \A n \in PhoneHears : Plain(n) \in ToPhone
  /\ \A n \in PhoneSays : Plain(n) \in OfPhone
  /\ \A n \in {"start_tls", "restart"} : Plain(n) \in ToServer
  /\ \A n \in {"connected", "restarting", "closed", "tls_handshake_completed"} :
       Plain(n) \in OfServer
  /\ ToPhone \subseteq ToServer /\ OfPhone \subseteq OfServer
  /\ \A n \in {"shutdown", "restart"} : Plain(n) \in ToManager
BY DEF ToPhone, OfPhone, ToServer, OfServer, ToManager, Plainly

\* The messages do not change while no configuration and no ClientHello is new.
LEMMA SameTypes ==
  ASSUME UNCHANGED <<config, hellos>>
  PROVE  /\ ToPhone' = ToPhone /\ OfPhone' = OfPhone
         /\ ToServer' = ToServer /\ OfServer' = OfServer
         /\ ToManager' = ToManager /\ OfManager' = OfManager
BY DEF ToPhone, OfPhone, ToServer, OfServer, ToManager, OfManager

\* What the phone answers is a message of the phone, or two, or none.
LEMMA AnswerTypes ==
  ASSUME NEW m \in ToPhone, NEW b \in BOOLEAN
  PROVE  \/ Answer(m, b) = <<>>
         \/ \E n \in OfPhone : Answer(m, b) = <<n>>
         \/ \E n \in OfPhone, o \in OfPhone : Answer(m, b) = <<n, o>>
<1>1. m[1] = "SSL_HANDSHAKE" => m \in OfPhone
  BY DEF ToPhone, OfPhone, Plainly, Plain, PhoneHears
<1>2. \A n \in PhoneSays : <<n, 0>> \in OfPhone
  BY PlainTypes DEF Plain
<1>3. CASE m[1] = "VERSION_REQUEST"
  BY <1>2, <1>3 DEF Answer, PhoneSays
<1>4. CASE m[1] = "SSL_HANDSHAKE"
  BY <1>1, <1>4 DEF Answer, PhoneSays
<1>5. CASE m[1] = "AUTH_COMPLETE"
  <2>1. \/ Answer(m, b) = <<<<"AUTH_COMPLETE", 0>>, <<"SERVICE_DISCOVERY_REQ", 0>>>>
        \/ Answer(m, b) = <<<<"SERVICE_DISCOVERY_REQ", 0>>>>
    BY <1>5 DEF Answer
  <2> QED
    BY <1>2, <2>1 DEF PhoneSays
<1>6. CASE m[1] = "SERVICE_DISCOVERY_RES"
  BY <1>2, <1>6 DEF Answer, PhoneSays
<1>7. CASE m[1] = "CHANNEL_OPEN_RES"
  <2>1. Answer(m, b) = <<<<"AUDIO_FOCUS_REQUEST", 0>>, <<"NAV_FOCUS_REQUEST", 0>>>>
    BY <1>7 DEF Answer
  <2> QED
    BY <1>2, <2>1 DEF PhoneSays
<1>8. CASE m[1] = "AUDIO_FOCUS_RESPONSE"
  <2>1. Answer(m, b) = <<<<"VOICE_SESSION_REQUEST", 0>>, <<"BATTERY_STATUS", 0>>>>
    BY <1>8 DEF Answer
  <2> QED
    BY <1>2, <2>1 DEF PhoneSays
<1>9. CASE m[1] = "SHUTDOWN_REQUEST"
  BY <1>2, <1>9 DEF Answer, PhoneSays
<1>10. CASE m[1] \notin {"VERSION_REQUEST", "SSL_HANDSHAKE", "AUTH_COMPLETE",
                         "SERVICE_DISCOVERY_RES", "CHANNEL_OPEN_RES",
                         "AUDIO_FOCUS_RESPONSE", "SHUTDOWN_REQUEST"}
  BY <1>10 DEF Answer
<1> QED
  BY <1>3, <1>4, <1>5, <1>6, <1>7, <1>8, <1>9, <1>10

\* Types: the phone.
LEMMA PhoneTypes ==
  ASSUME SessionTypeOK, BoundsAssumption,
         PhoneTakes \/ PhonePings \/ PhoneQuits \/ PhoneConnects \/ PhoneCloses \/ TcpRelays
  PROVE  SessionTypeOK'
<1>1. UNCHANGED <<state, config, hellos>>
  BY DEF PhoneTakes, PhonePings, PhoneQuits, PhoneConnects, PhoneCloses, TcpRelays,
         ccVars, tcpVars
<1>2. /\ ToPhone' = ToPhone /\ OfPhone' = OfPhone
      /\ ToServer' = ToServer /\ OfServer' = OfServer
      /\ ToManager' = ToManager /\ OfManager' = OfManager
  BY <1>1, SameTypes
<1>3. /\ \A m \in {"VERSION_RESPONSE", "PING_REQUEST", "SHUTDOWN_REQUEST"} :
           <<m, 0>> \in OfPhone
      /\ \A m \in {"connected", "closed"} : <<m, 0>> \in OfServer
      /\ OfPhone \subseteq OfServer
  BY PlainTypes DEF Plain, PhoneSays
<1>4. CASE PhoneTakes
  <2>1. PICK m : m = Head(phoneIn)
    OBVIOUS
  <2>2. m \in ToPhone /\ phoneIn' \in Seq(ToPhone)
    BY <1>4, <2>1, QueueTypes DEF SessionTypeOK, QueuesOK, PhoneTakes
  <2>3. \/ phoneOut' = phoneOut
        \/ \E b \in BOOLEAN : phoneOut' = phoneOut \o Answer(m, b)
    BY <1>4, <2>1 DEF PhoneTakes
  <2>4. phoneOut' \in Seq(OfPhone)
    <3>1. phoneOut \in Seq(OfPhone)
      BY DEF SessionTypeOK, QueuesOK
    <3>2. ASSUME NEW n \in OfPhone PROVE phoneOut \o <<n>> \in Seq(OfPhone)
      BY <3>1
    <3>3. ASSUME NEW n \in OfPhone, NEW o \in OfPhone
          PROVE  phoneOut \o <<n, o>> \in Seq(OfPhone)
      BY <3>1
    <3>4. phoneOut \o <<>> \in Seq(OfPhone)
      BY <3>1
    <3> QED
      BY <2>2, <2>3, <3>1, <3>2, <3>3, <3>4, AnswerTypes
  <2>5. phone' \in PhoneStates
    BY <1>4, <2>1 DEF PhoneTakes, PhoneAfter, SessionTypeOK, PhoneStates
  <2>6. sdr' \in 0 .. config
    <3>1. m[1] = "SERVICE_DISCOVERY_RES" => m[2] \in 0 .. config
      BY <2>2 DEF ToPhone, Plainly, Plain, PhoneHears, SessionTypeOK, CCTypeOK
    <3>2. sdr' \in {sdr, 0} \/ (m[1] = "SERVICE_DISCOVERY_RES" /\ sdr' = m[2])
      BY <1>4, <2>1 DEF PhoneTakes
    <3> QED
      BY <3>1, <3>2 DEF SessionTypeOK, CCTypeOK
  <2>7. UNCHANGED <<ccVars, tcpVars, cmVars, pingVars, asked, userVars>>
    BY <1>4 DEF PhoneTakes
  <2> QED
    BY <1>2, <2>2, <2>4, <2>5, <2>6, <2>7
    DEF SessionTypeOK, CCTypeOK, QueuesOK, ccVars, tcpVars, cmVars, pingVars, userVars
<1>5. CASE PhonePings
  <2>1. phoneOut' \in Seq(OfPhone)
    BY <1>3, <1>5, QueueTypes DEF PhonePings, Tell, SessionTypeOK, QueuesOK
  <2>2. pings' \in 0 .. MaxPings /\ early' \in BOOLEAN
    BY <1>5 DEF PhonePings, SessionTypeOK, BoundsAssumption
  <2> QED
    BY <1>2, <1>5, <2>1, <2>2
    DEF PhonePings, SessionTypeOK, CCTypeOK, QueuesOK, ccVars, tcpVars, cmVars, userVars
<1>6. CASE PhoneQuits
  <2>1. phoneOut' \in Seq(OfPhone)
    BY <1>3, <1>6, QueueTypes DEF PhoneQuits, Tell, SessionTypeOK, QueuesOK
  <2> QED
    BY <1>2, <1>6, <2>1
    DEF PhoneQuits, SessionTypeOK, CCTypeOK, QueuesOK, PhoneStates, ccVars, tcpVars,
        cmVars, pingVars, userVars
<1>7. CASE PhoneConnects
  <2>1. fromTcp' \in Seq(OfServer)
    BY <1>3, <1>7, QueueTypes DEF PhoneConnects, Tell, SessionTypeOK, QueuesOK
  <2>2. conns' \in 0 .. MaxConns /\ sdr' \in 0 .. config
    BY <1>7 DEF PhoneConnects, SessionTypeOK, CCTypeOK, BoundsAssumption
  <2> QED
    BY <1>2, <1>7, <2>1, <2>2
    DEF PhoneConnects, SessionTypeOK, CCTypeOK, QueuesOK, PhoneStates, ccVars, cmVars,
        pingVars, userVars
<1>8. CASE PhoneCloses
  <2>1. fromTcp' \in Seq(OfServer)
    BY <1>3, <1>8, QueueTypes DEF PhoneCloses, Tell, SessionTypeOK, QueuesOK
  <2>2. phoneIn' \in Seq(ToPhone) /\ phoneOut' \in Seq(OfPhone)
    BY <1>8, QueueTypes DEF PhoneCloses, SessionTypeOK, QueuesOK
  <2>3. sdr' \in 0 .. config /\ phone' \in PhoneStates /\ conn' \in {"down", "up", "lost"}
    <3>1. sdr' = 0 /\ phone' = "away" /\ conn' \in {"down", "lost"}
      BY <1>8 DEF PhoneCloses
    <3> QED
      BY <3>1 DEF SessionTypeOK, CCTypeOK, PhoneStates
  <2>4. cryptor' \in 0 .. hellos /\ tls' \in {"none", "hello", "active", "broken"}
        /\ (tls' = "none" <=> cryptor' = 0)
    <3>1. UNCHANGED <<cryptor, tls>> \/ (cryptor' = 0 /\ tls' = "none")
      BY <1>8 DEF PhoneCloses
    <3>2. hellos \in Nat /\ cryptor \in 0 .. hellos /\ (tls = "none" <=> cryptor = 0)
          /\ tls \in {"none", "hello", "active", "broken"}
      BY DEF SessionTypeOK
    <3> QED
      BY <3>1, <3>2
  <2>5. UNCHANGED <<ccVars, hellos, waiting, conns, decrypts, cmVars, pingVars, asked,
                    userVars>>
    BY <1>8 DEF PhoneCloses
  <2> QED
    BY <1>2, <2>1, <2>2, <2>3, <2>4, <2>5
    DEF SessionTypeOK, CCTypeOK, QueuesOK, ccVars, cmVars, pingVars, userVars
<1>9. CASE TcpRelays
  <2>1. fromTcp' \in Seq(OfServer) /\ phoneOut' \in Seq(OfPhone)
    BY <1>3, <1>9, QueueTypes DEF TcpRelays, SessionTypeOK, QueuesOK
  <2> QED
    BY <1>2, <1>9, <2>1
    DEF TcpRelays, SessionTypeOK, CCTypeOK, QueuesOK, ccVars, cmVars, pingVars, userVars
<1> QED
  BY <1>4, <1>5, <1>6, <1>7, <1>8, <1>9

\* Types: tcp_server.
LEMMA TcpTypes ==
  ASSUME SessionTypeOK, TcpTakes \/ TcpRestarted
  PROVE  SessionTypeOK'
<1>1. UNCHANGED <<state, config, toCm, conn, conns, decrypts, cmVars, phone, sdr,
                  pings, early, phoneOut, asked, userVars>>
  BY DEF TcpTakes, TcpRestarted, ccVars, phoneVars, pingVars, cmVars
<1>2. /\ \A m \in {"tls_handshake_completed", "restarting"} : <<m, 0>> \in OfServer
      /\ <<"SHUTDOWN_REQUEST", 0>> \in ToPhone
  BY PlainTypes DEF Plain, PhoneHears
<1>3. CASE TcpRestarted
  <2>1. /\ ToPhone' = ToPhone /\ OfPhone' = OfPhone
        /\ ToServer' = ToServer /\ OfServer' = OfServer
        /\ ToManager' = ToManager /\ OfManager' = OfManager
    BY <1>1, <1>3, SameTypes DEF TcpRestarted
  <2>2. fromTcp' \in Seq(OfServer)
    BY <1>2, <1>3, QueueTypes DEF TcpRestarted, Tell, SessionTypeOK, QueuesOK
  <2>3. /\ UNCHANGED <<toTcp, phoneIn, hellos>>
        /\ cryptor' = 0 /\ tls' = "none" /\ waiting' = FALSE
    BY <1>3 DEF TcpRestarted, ccVars
  <2>4. QueuesOK'
    BY <1>1, <2>1, <2>2, <2>3 DEF SessionTypeOK, QueuesOK, cmVars
  <2>5. cryptor' \in 0 .. hellos' /\ hellos' \in Nat
    BY <2>3 DEF SessionTypeOK
  <2> QED
    BY <1>1, <2>3, <2>4, <2>5 DEF SessionTypeOK, CCTypeOK, cmVars, userVars
<1>4. CASE TcpTakes
  <2>1. PICK m : m = Head(toTcp)
    OBVIOUS
  <2>2. m \in ToServer /\ toTcp' \in Seq(ToServer)
    BY <1>4, <2>1, QueueTypes DEF TcpTakes, SessionTypeOK, QueuesOK
  <2>3. CASE m[1] = "start_tls"
    <3>1. TcpStartTls
      BY <1>4, <2>1, <2>3 DEF TcpTakes
    <3>2. UNCHANGED config /\ config \in Nat /\ hellos' = hellos + 1 /\ hellos \in Nat
      BY <1>1, <3>1 DEF TcpStartTls, SessionTypeOK, CCTypeOK
    <3>3. /\ toTcp \in Seq(ToServer') /\ fromTcp \in Seq(OfServer')
          /\ phoneIn \in Seq(ToPhone') /\ phoneOut \in Seq(OfPhone')
          /\ toCm \in Seq(ToManager') /\ fromCm \in Seq(OfManager')
      <4>1. config' \in Nat /\ hellos' \in Nat /\ config <= config' /\ hellos <= hellos'
        BY <3>2
      <4> QED
        BY <4>1, MoreTypes
    <3>4. <<"tls_handshake", hellos + 1>> \in OfServer'
      BY <3>2 DEF OfServer
    <3>5. toTcp' \in Seq(ToServer') /\ fromTcp' \in Seq(OfServer')
      <4>1. toTcp # <<>> /\ toTcp' = Tail(toTcp)
        BY <1>4 DEF TcpTakes
      <4>2. fromTcp' = Append(fromTcp, <<"tls_handshake", hellos + 1>>)
        BY <3>1 DEF TcpStartTls, Tell
      <4> QED
        BY <3>3, <3>4, <4>1, <4>2, QueueTypes
    <3>6. UNCHANGED <<phoneIn, waiting>> /\ cryptor' = hellos + 1 /\ tls' = "hello"
      BY <3>1 DEF TcpStartTls
    <3> QED
      BY <1>1, <3>2, <3>3, <3>5, <3>6 DEF SessionTypeOK, CCTypeOK, QueuesOK, cmVars, userVars
  <2>4. CASE m[1] # "start_tls"
    <3>1. hellos' = hellos
      BY <1>4, <2>1, <2>4 DEF TcpTakes, TcpFeed, TcpRestart, TcpSend
    <3>2. /\ ToPhone' = ToPhone /\ OfPhone' = OfPhone
          /\ ToServer' = ToServer /\ OfServer' = OfServer
          /\ ToManager' = ToManager /\ OfManager' = OfManager
      BY <1>1, <3>1, SameTypes
    <3>3. cryptor' = cryptor /\ tls' \in {"none", "hello", "active", "broken"}
          /\ (tls' = "none" <=> tls = "none")
      BY <1>4, <2>1, <2>4 DEF TcpTakes, TcpFeed, TcpRestart, TcpSend, SessionTypeOK
    <3>4. fromTcp' = fromTcp \/ fromTcp' = Append(fromTcp, <<"tls_handshake_completed", 0>>)
      BY <1>4, <2>1, <2>4 DEF TcpTakes, TcpFeed, TcpRestart, TcpSend, Tell
    <3>5. \/ phoneIn' = phoneIn \/ phoneIn' = Append(phoneIn, <<"SHUTDOWN_REQUEST", 0>>)
          \/ /\ m[1] \notin {"start_tls", "feed_input", "restart"}
             /\ phoneIn' = Append(phoneIn, m)
      BY <1>4, <2>1, <2>4 DEF TcpTakes, TcpFeed, TcpRestart, TcpSend, Tell
    <3>6. waiting' \in BOOLEAN
      BY <1>4, <2>1, <2>4 DEF TcpTakes, TcpFeed, TcpRestart, TcpSend, SessionTypeOK
    <3>7. m[1] \notin {"start_tls", "feed_input", "restart"} => m \in ToPhone
      BY <2>2 DEF ToServer, Plainly, Plain
    <3>8. fromTcp' \in Seq(OfServer) /\ phoneIn' \in Seq(ToPhone)
      <4>1. fromTcp \in Seq(OfServer) /\ phoneIn \in Seq(ToPhone)
        BY DEF SessionTypeOK, QueuesOK
      <4>2. fromTcp' \in Seq(OfServer)
        BY <1>2, <3>4, <4>1, QueueTypes
      <4>3. phoneIn' \in Seq(ToPhone)
        BY <1>2, <3>5, <3>7, <4>1, QueueTypes
      <4> QED
        BY <4>2, <4>3
    <3> QED
      BY <1>1, <2>2, <3>1, <3>2, <3>3, <3>6, <3>8
      DEF SessionTypeOK, CCTypeOK, QueuesOK, cmVars, userVars
  <2> QED
    BY <2>3, <2>4
<1> QED
  BY <1>3, <1>4

\* Types: channel_manager.
LEMMA CmTypes ==
  ASSUME SessionTypeOK, CmTakes \/ CmReady \/ CmFails
  PROVE  SessionTypeOK'
<1>1. UNCHANGED <<state, config, toTcp, tcpVars, phoneVars, phoneIn, asked, userVars>>
  BY DEF CmTakes, CmReady, CmFails, ccVars
<1>2. /\ ToPhone' = ToPhone /\ OfPhone' = OfPhone
      /\ ToServer' = ToServer /\ OfServer' = OfServer
      /\ ToManager' = ToManager /\ OfManager' = OfManager
  BY <1>1, SameTypes DEF tcpVars
<1>3. toCm \in Seq(ToManager) /\ fromCm \in Seq(OfManager) /\ cm \in 0 .. config
      /\ cmReady \in BOOLEAN /\ config \in Nat
  BY DEF SessionTypeOK, QueuesOK, CCTypeOK
<1>4. toCm' \in Seq(ToManager) /\ fromCm' \in Seq(OfManager) /\ cm' \in 0 .. config
      /\ cmReady' \in BOOLEAN
  <2>1. CASE CmTakes
    <3>1. Head(toCm) \in ToManager /\ toCm' \in Seq(ToManager)
      BY <1>3, <2>1, QueueTypes DEF CmTakes
    <3>2. Head(toCm)[1] = "open_channels" => Head(toCm)[2] \in 1 .. config
      BY <3>1 DEF ToManager, Plainly, Plain
    <3>3. cm' \in 0 .. config
      BY <1>3, <2>1, <3>2 DEF CmTakes
    <3>4. fromCm' = fromCm /\ cmReady' = FALSE
      BY <2>1 DEF CmTakes
    <3> QED
      BY <1>3, <3>1, <3>3, <3>4
  <2>2. CASE CmReady
    <3>1. cm \in 1 .. config
      BY <1>3, <2>2 DEF CmReady
    <3>2. <<"channels_ready", cm>> \in OfManager
      BY <3>1 DEF OfManager
    <3>3. fromCm' \in Seq(OfManager)
      BY <1>3, <2>2, <3>2, QueueTypes DEF CmReady, Tell
    <3> QED
      BY <1>3, <2>2, <3>3 DEF CmReady, ccVars
  <2>3. CASE CmFails
    <3>1. cm' = 0 /\ UNCHANGED <<toCm, fromCm, cmReady>>
      BY <2>3 DEF CmFails, ccVars
    <3>2. 0 \in 0 .. config
      BY <1>3
    <3> QED
      BY <1>3, <3>1, <3>2
  <2> QED
    BY <2>1, <2>2, <2>3
<1>5. QueuesOK'
  BY <1>1, <1>2, <1>4 DEF SessionTypeOK, QueuesOK, tcpVars, phoneVars
<1> QED
  BY <1>1, <1>4, <1>5 DEF SessionTypeOK, CCTypeOK, tcpVars, phoneVars, pingVars, userVars

\* What oaa_control_channel sends to tcp_server when it takes a message.
LEMMA OaaTells ==
  ASSUME SessionTypeOK, NEW m \in OfServer, FromTcp(m)
  PROVE  /\ state' \in States /\ config' = config
         /\ toTcp' = toTcp \/ \E n \in ToServer : toTcp' = Append(toTcp, n)
         /\ toCm' = toCm \/ \E n \in ToManager : toCm' = Append(toCm, n)
<1>0. state \in States /\ config \in 1 .. config
  BY DEF SessionTypeOK, CCTypeOK
<1>1. \A n \in PhoneHears \cup {"start_tls"} : <<n, 0>> \in ToServer
  BY PlainTypes DEF Plain
<1>2. <<"shutdown", 0>> \in ToManager /\ <<"open_channels", config>> \in ToManager
  <2>1. <<"shutdown", 0>> \in ToManager
    BY PlainTypes DEF Plain
  <2> QED
    BY <1>0, <2>1 DEF ToManager
<1>3. CASE m[1] \in {"connected", "restarting"}
  BY <1>0, <1>1, <1>3 DEF FromTcp, StartHandshake, FreshHandshake, Tell, PhoneHears, States
<1>4. CASE m[1] = "closed"
  BY <1>0, <1>2, <1>4 DEF FromTcp, TcpClosed, Tell, States
<1>5. CASE m[1] = "tls_handshake"
  <2>1. TlsHandshake(m[2])
    BY <1>5 DEF FromTcp
  <2>2. m[2] \in 1 .. hellos
    BY <1>5 DEF OfServer, OfPhone, Plainly, Plain, PhoneSays
  <2>3. <<"SSL_HANDSHAKE", m[2]>> \in ToServer
    BY <2>2 DEF ToServer, ToPhone
  <2> QED
    BY <1>0, <2>1, <2>3 DEF TlsHandshake, Tell
<1>6. CASE m[1] = "tls_handshake_completed"
  BY <1>0, <1>1, <1>6 DEF FromTcp, TlsCompleted, TlsComplete, Tell, PhoneHears, States
<1>7. CASE m[1] \notin {"connected", "restarting", "closed", "tls_handshake",
                        "tls_handshake_completed"}
  <2>1. FrameCh0(m)
    BY <1>7 DEF FromTcp
  <2>2. CASE state = "none"
    BY <1>0, <2>1, <2>2 DEF FrameCh0, ccVars
  <2>3. CASE state # "none"
    <3>1. OnMessage(m)
      BY <2>1, <2>3 DEF FrameCh0
    <3>2. CASE m[1] = "VERSION_RESPONSE" /\ VersionResponse
      BY <1>0, <1>1, <3>2 DEF VersionResponse, Tell, States
    <3>3. CASE m[1] = "SSL_HANDSHAKE" /\ SslHandshake(m[2])
      <4>1. m[2] \in 1 .. hellos
        BY <3>3 DEF OfServer, OfPhone, Plainly, Plain, PhoneSays
      <4>2. <<"feed_input", m[2]>> \in ToServer
        BY <4>1 DEF ToServer
      <4> QED
        BY <1>0, <3>3, <4>2 DEF SslHandshake, Tell
    <3>4. CASE m[1] = "SERVICE_DISCOVERY_REQ" /\ ServiceDiscovery
      BY <1>0, <1>2, <3>4 DEF ServiceDiscovery, Tell, States
    <3>5. CASE m[1] = "CHANNEL_OPEN_REQ" /\ ChannelOpen
      BY <1>0, <1>1, <3>5 DEF ChannelOpen, Tell, PhoneHears
    <3>6. CASE m[1] = "PING_REQUEST" /\ Ping
      BY <1>0, <1>1, <3>6 DEF Ping, Tell, PhoneHears, States
    <3>7. CASE m[1] = "AUDIO_FOCUS_REQUEST" /\ AudioFocus
      BY <1>0, <1>1, <3>7 DEF AudioFocus, Tell, PhoneHears, States
    <3>8. CASE m[1] = "NAV_FOCUS_REQUEST" /\ NavigationFocus
      BY <1>0, <1>1, <3>8 DEF NavigationFocus, Tell, PhoneHears
    <3>9. CASE UNCHANGED ccVars
      BY <1>0, <3>9 DEF ccVars
    <3>10. CASE m[1] = "SHUTDOWN_REQUEST" /\ ShutdownRequest
      BY <1>0, <1>1, <1>2, <3>10
      DEF ShutdownRequest, SessionShutdown, Tell, PhoneHears, States
    <3>11. CASE m[1] = "AUTH_COMPLETE" /\ AuthComplete
      BY <1>0, <3>11 DEF AuthComplete, States
    <3> QED
      BY <3>1, <3>2, <3>3, <3>4, <3>5, <3>6, <3>7, <3>8, <3>9, <3>10, <3>11
      DEF OnMessage, OnlyNoted
  <2> QED
    BY <2>2, <2>3
<1> QED
  BY <1>3, <1>4, <1>5, <1>6, <1>7

\* oaa_control_channel takes a message of tcp_server ...
OaaTakesTcp ==
  /\ fromTcp # <<>>
  /\ fromTcp' = Tail(fromTcp)
  /\ FromTcp(Head(fromTcp))
  /\ asked' = IF Head(fromTcp)[1] = "SERVICE_DISCOVERY_REQ" /\ state # "none"
                THEN config ELSE asked
  /\ UNCHANGED <<conn, cryptor, tls, hellos, waiting, conns, decrypts, fromCm>>
  /\ UNCHANGED <<cm, cmReady, phoneVars, phoneIn, userVars>>

\* ... or of channel_manager.
OaaTakesCm ==
  /\ fromCm # <<>>
  /\ fromCm' = Tail(fromCm)
  /\ ChannelsReady(Head(fromCm)[2])
  /\ UNCHANGED <<tcpVars, asked>>
  /\ UNCHANGED <<cm, cmReady, phoneVars, phoneIn, userVars>>

\* These are the steps of oaa_control_channel.
LEMMA OaaSteps == OaaStep <=> OaaTakesTcp \/ OaaTakesCm
BY DEF OaaStep, OaaTakes, OaaTakesTcp, OaaTakesCm

\* Types: oaa_control_channel.
LEMMA OaaTypes ==
  ASSUME SessionTypeOK, OaaTakesTcp \/ OaaTakesCm
  PROVE  SessionTypeOK'
<1>0. /\ toTcp \in Seq(ToServer) /\ fromTcp \in Seq(OfServer) /\ toCm \in Seq(ToManager)
      /\ fromCm \in Seq(OfManager)
      /\ state \in States /\ config \in Nat \ {0} /\ asked \in 0 .. config
  BY DEF SessionTypeOK, QueuesOK, CCTypeOK
<1>1. CASE OaaTakesTcp
  <2>1. PICK m : m = Head(fromTcp)
    OBVIOUS
  <2>2. m \in OfServer /\ fromTcp' \in Seq(OfServer)
    BY <1>0, <1>1, <2>1, QueueTypes DEF OaaTakesTcp
  <2>3. FromTcp(m)
    BY <1>1, <2>1 DEF OaaTakesTcp, FromTcp, FrameCh0, OnMessage, TlsHandshake, SslHandshake
  <2>4. /\ state' \in States /\ config' = config
        /\ toTcp' = toTcp \/ \E n \in ToServer : toTcp' = Append(toTcp, n)
        /\ toCm' = toCm \/ \E n \in ToManager : toCm' = Append(toCm, n)
    BY <2>2, <2>3, OaaTells
  <2>5. toTcp' \in Seq(ToServer)
    BY <1>0, <2>4, QueueTypes
  <2>6. toCm' \in Seq(ToManager)
    BY <1>0, <2>4, QueueTypes
  <2>7. asked' \in 0 .. config
    <3>1. asked' \in {config, asked}
      BY <1>1 DEF OaaTakesTcp
    <3> QED
      BY <1>0, <3>1
  <2>8. /\ ToPhone' = ToPhone /\ OfPhone' = OfPhone
        /\ ToServer' = ToServer /\ OfServer' = OfServer
        /\ ToManager' = ToManager /\ OfManager' = OfManager
    BY <1>1, <2>4, SameTypes DEF OaaTakesTcp
  <2>9. /\ UNCHANGED <<conn, cryptor, tls, hellos, waiting, conns, decrypts, fromCm>>
        /\ UNCHANGED <<cm, cmReady, phoneVars, phoneIn, userVars>>
    BY <1>1 DEF OaaTakesTcp
  <2>10. QueuesOK'
    BY <2>2, <2>5, <2>6, <2>8, <2>9 DEF SessionTypeOK, QueuesOK, phoneVars
  <2> QED
    BY <2>4, <2>7, <2>9, <2>10 DEF SessionTypeOK, CCTypeOK, phoneVars, pingVars, userVars
<1>2. CASE OaaTakesCm
  <2>1. PICK v : v = Head(fromCm)[2]
    OBVIOUS
  <2>2. Head(fromCm) \in OfManager /\ fromCm' \in Seq(OfManager)
    BY <1>0, <1>2, QueueTypes DEF OaaTakesCm
  <2>3. v \in 1 .. config
    BY <2>1, <2>2 DEF OfManager
  <2>4. <<"SERVICE_DISCOVERY_RES", v>> \in ToServer
    BY <2>3 DEF ToServer, ToPhone
  <2>5. /\ state' \in States /\ UNCHANGED <<config, toCm>>
        /\ toTcp' = toTcp \/ toTcp' = Append(toTcp, <<"SERVICE_DISCOVERY_RES", v>>)
    BY <1>0, <1>2, <2>1 DEF OaaTakesCm, ChannelsReady, AnswerDiscovery, Tell, States
  <2>6. toTcp' \in Seq(ToServer)
    BY <1>0, <2>4, <2>5, QueueTypes
  <2>7. /\ UNCHANGED <<tcpVars, asked>>
        /\ UNCHANGED <<cm, cmReady, phoneVars, phoneIn, userVars>>
    BY <1>2 DEF OaaTakesCm
  <2>8. /\ ToPhone' = ToPhone /\ OfPhone' = OfPhone
        /\ ToServer' = ToServer /\ OfServer' = OfServer
        /\ ToManager' = ToManager /\ OfManager' = OfManager
    BY <2>5, <2>7, SameTypes DEF tcpVars
  <2>9. QueuesOK'
    BY <2>2, <2>5, <2>6, <2>7, <2>8 DEF SessionTypeOK, QueuesOK, phoneVars, tcpVars
  <2> QED
    BY <2>5, <2>7, <2>9 DEF SessionTypeOK, CCTypeOK, tcpVars, phoneVars, pingVars, userVars
<1> QED
  BY <1>1, <1>2

\* Types: the configuration changes.
LEMMA ChangeTypes ==
  ASSUME SessionTypeOK, BoundsAssumption, ConfigChange
  PROVE  SessionTypeOK'
<1>0. config \in Nat \ {0} /\ config' = config + 1 /\ UNCHANGED hellos /\ hellos \in Nat
  BY DEF SessionTypeOK, CCTypeOK, ConfigChange, ConfigChanged, tcpVars
<1>1. /\ toTcp \in Seq(ToServer') /\ fromTcp \in Seq(OfServer')
      /\ phoneIn \in Seq(ToPhone') /\ phoneOut \in Seq(OfPhone')
      /\ toCm \in Seq(ToManager') /\ fromCm \in Seq(OfManager')
  <2>1. config' \in Nat /\ hellos' \in Nat /\ config <= config' /\ hellos <= hellos'
    BY <1>0
  <2> QED
    BY <2>1, MoreTypes
<1>2. /\ <<"restart", 0>> \in ToServer' /\ <<"restart", 0>> \in ToManager'
      /\ <<"shutdown", 0>> \in ToManager'
  BY DEF ToServer, ToManager, Plainly, Plain
<1>3. toTcp' \in Seq(ToServer')
  <2>1. toTcp' = Append(toTcp, <<"restart", 0>>)
    BY DEF ConfigChange, ConfigChanged, Tell
  <2> QED
    BY <1>1, <1>2, <2>1, QueueTypes
<1>4. toCm' \in Seq(ToManager')
  <2>1. PICK s : s = IF state = "none" THEN <<>> ELSE <<<<"shutdown", 0>>>>
    OBVIOUS
  <2>2. toCm' = toCm \o s \o <<<<"restart", 0>>>>
    BY <2>1 DEF ConfigChange, ConfigChanged
  <2>3. s \in Seq(ToManager')
    BY <1>2, <2>1
  <2> QED
    BY <1>1, <1>2, <2>2, <2>3
<1>5. UNCHANGED <<tcpVars, cmVars, phoneVars, phoneIn, asked>> /\ state' = "none"
  BY DEF ConfigChange, ConfigChanged
<1>6. changes' \in 0 .. MaxChanges /\ hasty' \in BOOLEAN
  <2>1. changes' = changes + 1 /\ changes < MaxChanges /\ hasty' = (hasty \/ StartPending)
    BY DEF ConfigChange
  <2>2. changes \in 0 .. MaxChanges /\ MaxChanges \in Nat /\ hasty \in BOOLEAN
    BY DEF SessionTypeOK, BoundsAssumption
  <2>3. hasty' \in BOOLEAN
    BY <2>1, <2>2 DEF StartPending
  <2> QED
    BY <2>1, <2>2, <2>3
<1>7. QueuesOK'
  BY <1>1, <1>3, <1>4, <1>5 DEF QueuesOK, tcpVars, cmVars, phoneVars
<1>8. sdr' \in 0 .. config' /\ cm' \in 0 .. config' /\ asked' \in 0 .. config'
  <2>1. sdr \in 0 .. config /\ cm \in 0 .. config /\ asked \in 0 .. config
    BY DEF SessionTypeOK
  <2>2. UNCHANGED <<sdr, cm, asked>>
    BY <1>5 DEF phoneVars, cmVars
  <2> QED
    BY <1>0, <2>1, <2>2
<1> QED
  BY <1>0, <1>5, <1>6, <1>7, <1>8
  DEF SessionTypeOK, CCTypeOK, States, tcpVars, cmVars, phoneVars, pingVars

\* The types hold initially.
LEMMA InitTypes ==
  ASSUME BoundsAssumption, SessionInit
  PROVE  SessionTypeOK
<1>1. QueuesOK
  BY QueueTypes DEF SessionInit, CCInit, QueuesOK
<1>2. CCTypeOK
  BY DEF SessionInit, CCInit, CCTypeOK, States
<1>3. 0 \in 0 .. MaxConns /\ 0 \in 0 .. MaxChanges /\ 0 \in 0 .. MaxPings
  BY DEF BoundsAssumption
<1>4. /\ sdr \in 0 .. config /\ cryptor \in 0 .. hellos
      /\ cm \in 0 .. config /\ asked \in 0 .. config
  BY DEF SessionInit, CCInit
<1>5. decrypts \in BOOLEAN
  BY DecryptsAssumption DEF SessionInit
<1> QED
  BY <1>1, <1>2, <1>3, <1>4, <1>5 DEF SessionInit, CCInit, SessionTypeOK, PhoneStates

\* The types hold in every step.
LEMMA TypesStep ==
  ASSUME SessionTypeOK, BoundsAssumption, [SessionNext]_aaVars
  PROVE  SessionTypeOK'
<1>1. CASE SessionNext
  BY <1>1, PhoneTypes, TcpTypes, CmTypes, OaaTypes, OaaSteps, ChangeTypes
  DEF SessionNext, Deliver
<1>2. CASE UNCHANGED aaVars
  <2>1. UNCHANGED <<ccVars, tcpVars, cmVars, phoneVars, phoneIn, asked, userVars>>
    BY <1>2 DEF aaVars
  <2>2. /\ ToPhone' = ToPhone /\ OfPhone' = OfPhone
        /\ ToServer' = ToServer /\ OfServer' = OfServer
        /\ ToManager' = ToManager /\ OfManager' = OfManager
    BY <2>1, SameTypes DEF ccVars, tcpVars
  <2>3. QueuesOK'
    BY <2>1, <2>2 DEF SessionTypeOK, QueuesOK, ccVars, tcpVars, cmVars, phoneVars
  <2> QED
    BY <2>1, <2>3
    DEF SessionTypeOK, CCTypeOK, ccVars, tcpVars, cmVars, phoneVars, pingVars, userVars
<1> QED
  BY <1>1, <1>2

\* The types of a session, for any bounds and events.
THEOREM SessionTypeCorrect == SessionSpec => []SessionTypeOK
<1>1. SessionInit => SessionTypeOK
  BY InitTypes, BoundsAssumption
<1>2. SessionTypeOK /\ [SessionNext]_aaVars => SessionTypeOK'
  BY TypesStep, BoundsAssumption
<1> QED
  BY <1>1, <1>2, PTL DEF SessionSpec

-----------------------------------------------------------------------------
(* channel_manager's queue.                                                *)

\* A queue of channel_manager with a message more.
LEMMA OpenMore ==
  ASSUME NEW U, NEW s \in Seq(U), NEW m, NEW t, t = Append(s, m), NEW c
  PROVE  /\ t # <<>>
         /\ NoOpen(t) <=> NoOpen(s) /\ m[1] # "open_channels"
         /\ End(t, c) = IF m[1] = "open_channels" THEN m[2] ELSE 0
         /\ \A v : NoOpen(s) /\ m = <<"open_channels", v>> => OnlyLast(t, v)
<1>1. /\ Len(t) = Len(s) + 1 /\ t[Len(s) + 1] = m /\ Len(s) \in Nat
      /\ \A i \in 1 .. Len(s) : t[i] = s[i]
  OBVIOUS
<1>2. \A i \in 1 .. Len(t) : i \in 1 .. Len(s) \/ i = Len(s) + 1
  BY <1>1
<1>3. Len(s) + 1 \in 1 .. Len(t) /\ \A i \in 1 .. Len(s) : i \in 1 .. Len(t)
  BY <1>1
<1>4. t # <<>>
  BY <1>1
<1>5. NoOpen(t) <=> NoOpen(s) /\ m[1] # "open_channels"
  BY <1>1, <1>2, <1>3 DEF NoOpen
<1>6. End(t, c) = IF m[1] = "open_channels" THEN m[2] ELSE 0
  BY <1>1, <1>4 DEF End
<1>7. ASSUME NEW v, NoOpen(s), m = <<"open_channels", v>> PROVE OnlyLast(t, v)
  BY <1>1, <1>2, <1>4, <1>7 DEF NoOpen, OnlyLast
<1> QED
  BY <1>4, <1>5, <1>6, <1>7

\* The same: whether it opens channels ...
LEMMA NoOpenMore ==
  ASSUME NEW U, NEW s \in Seq(U), NEW m
  PROVE  NoOpen(Append(s, m)) <=> NoOpen(s) /\ m[1] # "open_channels"
BY OpenMore

\* ... what it ends with ...
LEMMA EndMore ==
  ASSUME NEW U, NEW s \in Seq(U), NEW m, NEW c
  PROVE  End(Append(s, m), c) = IF m[1] = "open_channels" THEN m[2] ELSE 0
BY OpenMore

\* ... and that nothing before does.
LEMMA OnlyLastMore ==
  ASSUME NEW U, NEW s \in Seq(U), NEW v, NoOpen(s)
  PROVE  OnlyLast(Append(s, <<"open_channels", v>>), v)
BY OpenMore

\* The same without its first message.
LEMMA OpenLess ==
  ASSUME NEW U, NEW s \in Seq(U), s # <<>>, NEW t, t = Tail(s), NEW m, m = Head(s)
  PROVE  /\ NoOpen(s) => NoOpen(t) /\ m[1] # "open_channels"
         /\ \A v : OnlyLast(s, v) => \/ t = <<>> /\ m = <<"open_channels", v>>
                                     \/ OnlyLast(t, v) /\ m[1] # "open_channels"
<1>1. /\ Len(s) = Len(t) + 1 /\ s[1] = m /\ Len(t) \in Nat
      /\ \A i \in 1 .. Len(t) : t[i] = s[i + 1]
  OBVIOUS
<1>2. t = <<>> <=> Len(t) = 0
  OBVIOUS
<1>3. \A i \in 1 .. Len(t) : i + 1 \in 1 .. Len(s) /\ (i + 1 = Len(s) <=> i = Len(t))
  BY <1>1
<1>4. 1 \in 1 .. Len(s)
  BY <1>1
<1>5. NoOpen(s) => NoOpen(t) /\ m[1] # "open_channels"
  BY <1>1, <1>3, <1>4 DEF NoOpen
<1>6. Len(t) # 0 => s[Len(s)] = t[Len(t)]
  BY <1>1, <1>3
<1>7. ASSUME NEW v, OnlyLast(s, v)
      PROVE  \/ t = <<>> /\ m = <<"open_channels", v>>
             \/ OnlyLast(t, v) /\ m[1] # "open_channels"
  <2>1. CASE Len(t) = 0
    <3>1. Len(s) = 1
      BY <1>1, <2>1
    <3>2. s[Len(s)] = <<"open_channels", v>>
      BY <1>7 DEF OnlyLast
    <3> QED
      BY <1>1, <1>2, <2>1, <3>1, <3>2
  <2>2. CASE Len(t) # 0
    <3>1. m[1] # "open_channels"
      <4>1. 1 # Len(s)
        BY <1>1, <2>2
      <4> QED
        BY <1>1, <1>4, <1>7, <4>1 DEF OnlyLast
    <3>2. t # <<>> /\ t[Len(t)] = <<"open_channels", v>>
      BY <1>2, <1>6, <1>7, <2>2 DEF OnlyLast
    <3>3. \A i \in 1 .. Len(t) : i # Len(t) => t[i][1] # "open_channels"
      BY <1>1, <1>3, <1>7 DEF OnlyLast
    <3> QED
      BY <3>1, <3>2, <3>3 DEF OnlyLast
  <2> QED
    BY <2>1, <2>2
<1> QED
  BY <1>5, <1>7

\* What a queue ends with once its first message has been handled.
LEMMA EndLess ==
  ASSUME NEW U, NEW s \in Seq(U), s # <<>>, NEW c
  PROVE  End(s, c) = End(Tail(s), IF Head(s)[1] = "open_channels" THEN Head(s)[2] ELSE 0)
<1>0. PICK t, m : t = Tail(s) /\ m = Head(s)
  OBVIOUS
<1>1. /\ Len(s) = Len(t) + 1 /\ s[1] = m /\ Len(t) \in Nat
      /\ \A i \in 1 .. Len(t) : t[i] = s[i + 1]
  BY <1>0
<1>2. t = <<>> <=> Len(t) = 0
  BY <1>0
<1>3. Len(t) # 0 => s[Len(s)] = t[Len(t)]
  BY <1>1
<1>4. End(s, c) = End(t, IF m[1] = "open_channels" THEN m[2] ELSE 0)
  <2>1. CASE Len(t) = 0
    BY <1>1, <1>2, <2>1 DEF End
  <2>2. CASE Len(t) # 0
    BY <1>1, <1>2, <1>3, <2>2 DEF End
  <2> QED
    BY <2>1, <2>2
<1> QED
  BY <1>0, <1>4

\* While no channels are wanted, none will be open.
LEMMA QuietEnd ==
  ASSUME SessionTypeOK, Quiet
  PROVE  CmEnd = 0
<1>1. toCm \in Seq(ToManager)
  BY DEF SessionTypeOK, QueuesOK
<1>2. toCm # <<>> => Len(toCm) \in 1 .. Len(toCm)
  BY <1>1
<1> QED
  BY <1>2 DEF Quiet, NoOpen, CmEnd, End

\* Restart requests without a version request.
LEMMA BareRestart ==
  ASSUME NEW U, NEW s \in Seq(U),
         Has(s, Plain("restart")), ~ Has(s, Plain("VERSION_REQUEST"))
  PROVE  Bare(s)
BY DEF Has, Bare

\* No message of a queue is of a ClientHello to come.
LEMMA FreshHello ==
  ASSUME SessionTypeOK, NEW q \in {fromTcp, toTcp, phoneIn, phoneOut},
         NEW n \in {"tls_handshake", "SSL_HANDSHAKE", "feed_input"}
  PROVE  ~ Has(q, <<n, hellos + 1>>)
<1>1. hellos \in Nat /\ config \in Nat
  BY DEF SessionTypeOK, CCTypeOK
<1>2. <<n, hellos + 1>> \notin ToServer \cup OfServer
  BY <1>1 DEF ToServer, ToPhone, OfServer, OfPhone, Plainly, Plain
<1>3. ToPhone \subseteq ToServer /\ OfPhone \subseteq OfServer
  BY PlainTypes
<1>4. \A i \in 1 .. Len(q) : q[i] \in ToServer \cup OfServer
  <2>1. CASE q = fromTcp
    BY <2>1 DEF SessionTypeOK, QueuesOK
  <2>2. CASE q = toTcp
    BY <2>2 DEF SessionTypeOK, QueuesOK
  <2>3. CASE q = phoneIn
    BY <1>3, <2>3 DEF SessionTypeOK, QueuesOK
  <2>4. CASE q = phoneOut
    BY <1>3, <2>4 DEF SessionTypeOK, QueuesOK
  <2> QED
    BY <2>1, <2>2, <2>3, <2>4
<1> QED
  BY <1>2, <1>4 DEF Has

-----------------------------------------------------------------------------
(* The steps.                                                              *)

\* What neither the phone nor tcp_server changes.
openingVars == <<state, toCm, cm, asked, cmReady, fromCm>>

\* Of these alone depend the invariants about channel_manager.
LEMMA ManagerSame ==
  ASSUME QuietBefore, Follow, Awaits, UNCHANGED openingVars, Underway' => Underway \/ Quiet
  PROVE  QuietBefore' /\ Follow' /\ Awaits'
BY DEF QuietBefore, Quiet, Follow, CmEnd, Awaits, openingVars

\* What else the phone answers with.
LEMMA RareAnswers ==
  ASSUME NEW m, NEW b, m[1] \notin {"VERSION_REQUEST", "SSL_HANDSHAKE", "AUTH_COMPLETE"}
  PROVE  \/ Answer(m, b) = <<>>
         \/ \E n : ~ Token(n) /\ Answer(m, b) = <<n>>
         \/ \E n, o : ~ Token(n) /\ ~ Token(o) /\ n \in OfPhone /\ Answer(m, b) = <<n, o>>
<1>1. ~ Token(<<"CHANNEL_OPEN_REQ", 0>>) /\ ~ Token(<<"SHUTDOWN_RESPONSE", 0>>)
      /\ ~ Token(<<"AUDIO_FOCUS_REQUEST", 0>>) /\ ~ Token(<<"NAV_FOCUS_REQUEST", 0>>)
      /\ ~ Token(<<"VOICE_SESSION_REQUEST", 0>>) /\ ~ Token(<<"BATTERY_STATUS", 0>>)
  BY DEF Token
<1>2. <<"AUDIO_FOCUS_REQUEST", 0>> \in OfPhone /\ <<"VOICE_SESSION_REQUEST", 0>> \in OfPhone
  BY PlainTypes DEF Plain, PhoneSays
<1>3. CASE m[1] = "SERVICE_DISCOVERY_RES"
  BY <1>1, <1>3 DEF Answer
<1>4. CASE m[1] = "CHANNEL_OPEN_RES"
  <2>1. Answer(m, b) = <<<<"AUDIO_FOCUS_REQUEST", 0>>, <<"NAV_FOCUS_REQUEST", 0>>>>
    BY <1>4 DEF Answer
  <2> QED
    BY <1>1, <1>2, <2>1
<1>5. CASE m[1] = "AUDIO_FOCUS_RESPONSE"
  <2>1. Answer(m, b) = <<<<"VOICE_SESSION_REQUEST", 0>>, <<"BATTERY_STATUS", 0>>>>
    BY <1>5 DEF Answer
  <2> QED
    BY <1>1, <1>2, <2>1
<1>6. CASE m[1] = "SHUTDOWN_REQUEST"
  BY <1>1, <1>6 DEF Answer
<1>7. CASE m[1] \notin {"VERSION_REQUEST", "SSL_HANDSHAKE", "AUTH_COMPLETE",
                        "SERVICE_DISCOVERY_RES", "CHANNEL_OPEN_RES",
                        "AUDIO_FOCUS_RESPONSE", "SHUTDOWN_REQUEST"}
  BY <1>7 DEF Answer
<1> QED
  BY <1>3, <1>4, <1>5, <1>6, <1>7

\* The steps of the phone and of its connection.
LEMMA PhoneStep ==
  ASSUME SessionInv,
         PhoneTakes \/ PhonePings \/ PhoneQuits \/ PhoneConnects \/ PhoneCloses \/ TcpRelays
  PROVE  Ring' /\ QuietBefore' /\ Restarts' /\ Gone' /\ Follow' /\ Awaits'
<1>0. /\ SessionTypeOK /\ Ring /\ QuietBefore /\ Restarts /\ Gone /\ Follow /\ Awaits
      /\ toTcp \in Seq(ToServer) /\ fromTcp \in Seq(OfServer)
      /\ phoneIn \in Seq(ToPhone) /\ phoneOut \in Seq(OfPhone)
  BY DEF SessionInv, SessionTypeOK, QueuesOK
<1>1. UNCHANGED openingVars /\ UNCHANGED <<toTcp, waiting, state>>
  BY DEF PhoneTakes, PhonePings, PhoneQuits, PhoneConnects, PhoneCloses, TcpRelays,
         ccVars, tcpVars, cmVars, openingVars
<1>2. Restarts'
  BY <1>0, <1>1 DEF Restarts
<1>3. SUFFICES Ring' /\ (Underway' => Underway \/ Quiet) /\ Gone'
  BY <1>0, <1>1, <1>2, ManagerSame
<1>4. CASE PhoneTakes
  <2>1. PICK m : m = Head(phoneIn)
    OBVIOUS
  <2>2. /\ phoneIn # <<>> /\ phoneIn' = Tail(phoneIn)
        /\ UNCHANGED <<fromTcp, toTcp, cryptor, tls, conn, waiting, state>>
        /\ \/ phoneOut' = phoneOut
           \/ \E b \in BOOLEAN : phoneOut' = phoneOut \o Answer(m, b)
    BY <1>4, <2>1 DEF PhoneTakes, tcpVars, ccVars
  <2>3. Loses(phoneIn, phoneIn', m) /\ Fewer(phoneIn, phoneIn') /\ m \in ToPhone
    BY <1>0, <2>1, <2>2, LosesTail, QueueTypes
  <2>4. Gone'
    BY <1>0, <2>2 DEF Gone, NoStart
  <2>5. ASSUME NEW n \in OfPhone, NEW b, Answer(m, b) = <<n>>,
               phoneOut' = phoneOut \o Answer(m, b)
        PROVE  phoneOut' = Append(phoneOut, n) /\ Gains(phoneOut, phoneOut', n)
    <3>1. phoneOut \in Seq(OfPhone)
      BY <1>0
    <3>2. phoneOut' = Append(phoneOut, n)
      BY <2>5, <3>1
    <3> QED
      BY <3>1, <3>2, GainsMore
  <2>6. ASSUME Fewer(phoneOut, phoneOut')
        PROVE  Ring' /\ (Underway' => Underway)
    BY <1>0, <2>2, <2>3, <2>6, FewerRing, Fewest
  <2>7. ASSUME NEW n, Gains(phoneOut, phoneOut', n),
               \/ m = Plain("VERSION_REQUEST") /\ n = Plain("VERSION_RESPONSE")
               \/ m[1] = "SSL_HANDSHAKE" /\ n = m
               \/ m = Plain("AUTH_COMPLETE") /\ n = Plain("SERVICE_DISCOVERY_REQ")
        PROVE  Ring' /\ (Underway' => Underway)
    BY <1>0, <2>2, <2>3, <2>7, MoveRing
  <2>8. CASE phoneOut' = phoneOut
    BY <2>4, <2>6, <2>8, Fewest
  <2>9. ASSUME NEW b \in BOOLEAN, phoneOut' = phoneOut \o Answer(m, b)
        PROVE  Ring' /\ (Underway' => Underway) /\ Gone'
    <3>1. m[1] \in {"VERSION_REQUEST", "AUTH_COMPLETE"} => m = Plain(m[1])
      BY <2>3 DEF ToPhone, Plainly, Plain, PhoneHears
    <3>2. CASE m[1] = "VERSION_REQUEST"
      <4>1. Answer(m, b) = <<Plain("VERSION_RESPONSE")>>
        BY <3>2 DEF Answer, Plain
      <4>2. Plain("VERSION_RESPONSE") \in OfPhone
        BY PlainTypes DEF PhoneSays
      <4> QED
        BY <2>4, <2>5, <2>7, <2>9, <3>1, <3>2, <4>1, <4>2
    <3>3. CASE m[1] = "SSL_HANDSHAKE"
      <4>1. Answer(m, b) = <<m>>
        BY <3>3 DEF Answer
      <4>2. m \in OfPhone
        BY <2>3, <3>3 DEF ToPhone, OfPhone, Plainly, Plain, PhoneHears
      <4> QED
        BY <2>4, <2>5, <2>7, <2>9, <3>3, <4>1, <4>2
    <3>4. CASE m[1] = "AUTH_COMPLETE"
      <4>1. /\ Plain("SERVICE_DISCOVERY_REQ") \in OfPhone
            /\ Plain("AUTH_COMPLETE") \in OfPhone
        BY PlainTypes DEF PhoneSays
      <4>2. CASE Answer(m, b) = <<Plain("SERVICE_DISCOVERY_REQ")>>
        BY <2>4, <2>5, <2>7, <2>9, <3>1, <3>4, <4>1, <4>2
      <4>3. CASE Answer(m, b) = <<Plain("AUTH_COMPLETE"), Plain("SERVICE_DISCOVERY_REQ")>>
        <5>1. PICK s : s = Append(phoneOut, Plain("AUTH_COMPLETE"))
          OBVIOUS
        <5>2. phoneOut' = phoneOut \o <<Plain("AUTH_COMPLETE"), Plain("SERVICE_DISCOVERY_REQ")>>
          BY <2>9, <4>3
        <5>3. s \in Seq(OfPhone) /\ phoneOut' = Append(s, Plain("SERVICE_DISCOVERY_REQ"))
          BY <1>0, <4>1, <5>1, <5>2, TwoMore, QueueTypes
        <5>4. /\ Gains(phoneOut, s, Plain("AUTH_COMPLETE"))
              /\ Gains(s, phoneOut', Plain("SERVICE_DISCOVERY_REQ"))
          BY <1>0, <5>1, <5>3, GainsMore
        <5>5. Loses(phoneIn, phoneIn', Plain("AUTH_COMPLETE"))
          BY <2>3, <3>1, <3>4
        <5> QED
          BY <1>0, <2>2, <2>4, <5>4, <5>5, ConfirmRing
      <4> QED
        BY <3>4, <4>2, <4>3 DEF Answer, Plain
    <3>5. CASE m[1] \notin {"VERSION_REQUEST", "SSL_HANDSHAKE", "AUTH_COMPLETE"}
      <4>1. \/ Answer(m, b) = <<>>
            \/ \E n : ~ Token(n) /\ Answer(m, b) = <<n>>
            \/ \E n, o : ~ Token(n) /\ ~ Token(o) /\ n \in OfPhone /\ Answer(m, b) = <<n, o>>
        BY <3>5, RareAnswers
      <4>2. Fewer(phoneOut, phoneOut')
        <5>1. CASE Answer(m, b) = <<>>
          BY <1>0, <2>9, <5>1, TwoMore, Fewest
        <5>2. ASSUME NEW n, ~ Token(n), Answer(m, b) = <<n>> PROVE Fewer(phoneOut, phoneOut')
          <6>1. phoneOut' = Append(phoneOut, n)
            BY <1>0, <2>9, <5>2
          <6> QED
            BY <1>0, <5>2, <6>1, FewerMore
        <5>3. ASSUME NEW n \in OfPhone, NEW o, ~ Token(n), ~ Token(o), Answer(m, b) = <<n, o>>
              PROVE  Fewer(phoneOut, phoneOut')
          <6>1. PICK s : s = Append(phoneOut, n)
            OBVIOUS
          <6>2. s \in Seq(OfPhone) /\ phoneOut' = Append(s, o)
            <7>1. phoneOut' = phoneOut \o <<n, o>>
              BY <2>9, <5>3
            <7> QED
              BY <1>0, <5>3, <6>1, <7>1, TwoMore, QueueTypes
          <6>3. Fewer(phoneOut, s)
            BY <1>0, <5>3, <6>1, FewerMore
          <6>4. Fewer(s, phoneOut')
            BY <5>3, <6>2, FewerMore
          <6> QED
            BY <6>3, <6>4, Fewest
        <5> QED
          BY <4>1, <5>1, <5>2, <5>3
      <4> QED
        BY <2>4, <2>6, <4>2
    <3> QED
      BY <3>2, <3>3, <3>4, <3>5
  <2> QED
    BY <2>2, <2>8, <2>9
<1>5. CASE PhonePings \/ PhoneQuits
  <2>1. PICK n \in {Plain("PING_REQUEST"), Plain("SHUTDOWN_REQUEST")} :
          phoneOut' = Append(phoneOut, n)
    BY <1>5 DEF PhonePings, PhoneQuits, Tell, Plain
  <2>2. UNCHANGED <<fromTcp, phoneIn, cryptor, tls, conn, waiting>>
    BY <1>5 DEF PhonePings, PhoneQuits, tcpVars
  <2>3. Fewer(phoneOut, phoneOut')
    BY <1>0, <2>1, FewerMore DEF Token, Plain
  <2>4. Ring' /\ (Underway' => Underway)
    BY <1>0, <1>1, <2>2, <2>3, FewerRing, Fewest
  <2> QED
    BY <1>0, <1>1, <2>2, <2>4 DEF Gone, NoStart
<1>6. CASE PhoneConnects
  <2>1. /\ conn = "down" /\ toTcp = <<>> /\ fromTcp = <<>>
        /\ phoneIn = <<>> /\ phoneOut = <<>>
        /\ toCm = <<>> /\ fromCm = <<>>
        /\ conn' = "up" /\ fromTcp' = Append(fromTcp, Plain("connected"))
        /\ UNCHANGED <<phoneIn, phoneOut>>
    BY <1>6 DEF PhoneConnects, Drained, Tell, Plain
  <2>2. Gains(fromTcp, fromTcp', Plain("connected"))
        /\ \A x, y : Behind(fromTcp', x, y) <=>
             Behind(fromTcp, x, y) \/ (Has(fromTcp, x) /\ y = Plain("connected"))
    BY <1>0, <2>1, GainsMore, BehindAppend
  <2>3. Ring'
    BY <1>0, <1>1, <2>1, <2>2, StartRing, HasNothing
  <2>4. Gone'
    BY <2>1, <2>2, HasNothing DEF Gone
  <2>5. state = "none"
    BY <1>0, <2>1, HasNothing DEF Gone
  <2>6. cm = 0
    BY <1>0, <2>1, <2>5 DEF Follow, CmEnd, End
  <2>7. Quiet
    BY <2>1, <2>6 DEF Quiet, NoOpen
  <2> QED
    BY <2>3, <2>4, <2>7
<1>7. CASE PhoneCloses
  <2>1. /\ phoneIn' = <<>> /\ phoneOut' = <<>> /\ conn # "down"
        /\ \/ /\ waiting /\ conn' = "lost" /\ UNCHANGED <<fromTcp, cryptor, tls>>
           \/ /\ ~ waiting /\ conn' = "down"
              /\ fromTcp' = Append(fromTcp, Plain("closed")) /\ tls' = "none"
    BY <1>7 DEF PhoneCloses, Tell, Plain
  <2>2. CASE waiting
    <3>1. Ring' /\ (Underway' => Underway)
      BY <1>0, <1>1, <2>1, <2>2, FewerRing, Fewest
    <3> QED
      BY <1>0, <1>1, <2>1, <2>2, <3>1 DEF Gone, NoStart
  <2>3. CASE ~ waiting
    <3>1. /\ Fewer(fromTcp, fromTcp')
          /\ \A x : Has(fromTcp', x) <=> Has(fromTcp, x) \/ x = Plain("closed")
          /\ \A x, y : Behind(fromTcp', x, y) <=>
                         Behind(fromTcp, x, y) \/ (Has(fromTcp, x) /\ y = Plain("closed"))
      <4>1. fromTcp' = Append(fromTcp, Plain("closed")) /\ ~ Token(Plain("closed"))
        BY <2>1, <2>3 DEF Token, Plain
      <4> QED
        BY <1>0, <4>1, FewerMore, HasAppend, BehindAppend
    <3>2. ~ Live'
      BY <2>1, <2>3 DEF Live
    <3>3. Ring' /\ (Underway' => Underway)
      BY <1>0, <1>1, <2>1, <3>1, <3>2, FewerRing, Fewest
    <3>4. Gone'
      BY <1>0, <1>1, <2>1, <2>3, <3>1 DEF Gone, Plain
    <3> QED
      BY <3>3, <3>4
  <2> QED
    BY <2>2, <2>3
<1>8. CASE TcpRelays
  <2>1. PICK m : m = Head(phoneOut)
    OBVIOUS
  <2>2. /\ phoneOut # <<>> /\ phoneOut' = Tail(phoneOut)
        /\ fromTcp' = Append(fromTcp, m) \/ fromTcp' = fromTcp
        /\ UNCHANGED <<phoneIn, cryptor, tls, conn>>
    BY <1>8, <2>1 DEF TcpRelays
  <2>3. Loses(phoneOut, phoneOut', m) /\ Fewer(phoneOut, phoneOut') /\ m \in OfPhone
    BY <1>0, <2>1, <2>2, LosesTail, QueueTypes
  <2>8. CASE fromTcp' = fromTcp
    <3>1. Ring' /\ (Underway' => Underway)
      BY <1>0, <1>1, <2>2, <2>3, <2>8, FewerRing, Fewest
    <3>2. Gone'
      BY <1>0, <1>1, <2>2, <2>8 DEF Gone, NoStart
    <3> QED
      BY <3>1, <3>2
  <2>9. CASE fromTcp' = Append(fromTcp, m)
    <3>1. /\ Gains(fromTcp, fromTcp', m)
          /\ \A x : Has(fromTcp', x) <=> Has(fromTcp, x) \/ x = m
          /\ \A x, y : Behind(fromTcp', x, y) <=>
               Behind(fromTcp, x, y) \/ (Has(fromTcp, x) /\ y = m)
      BY <1>0, <2>9, GainsMore, HasAppend, BehindAppend
    <3>2. Ring' /\ (Underway' => Underway)
      BY <1>0, <1>1, <2>2, <2>3, <3>1, MoveRing
    <3>3. m \notin {Plain("connected"), Plain("restarting")}
      BY <2>3 DEF OfPhone, Plainly, Plain, PhoneSays
    <3>4. Gone'
      BY <1>0, <1>1, <2>2, <3>1, <3>3 DEF Gone, NoStart
    <3> QED
      BY <3>2, <3>4
  <2> QED
    BY <2>2, <2>8, <2>9
<1> QED
  BY <1>4, <1>5, <1>6, <1>7, <1>8

\* The steps of tcp_server but for the relay.
LEMMA TcpStep ==
  ASSUME SessionInv, TcpTakes \/ TcpRestarted
  PROVE  Ring' /\ QuietBefore' /\ Restarts' /\ Gone' /\ Follow' /\ Awaits'
<1>0. /\ SessionTypeOK /\ Ring /\ QuietBefore /\ Restarts /\ Gone /\ Follow /\ Awaits
      /\ toTcp \in Seq(ToServer) /\ fromTcp \in Seq(OfServer)
      /\ phoneIn \in Seq(ToPhone) /\ phoneOut \in Seq(OfPhone)
  BY DEF SessionInv, SessionTypeOK, QueuesOK
<1>1. UNCHANGED openingVars /\ UNCHANGED <<conn, state, phoneOut>>
  BY DEF TcpTakes, TcpRestarted, ccVars, cmVars, phoneVars, openingVars
<1>2. SUFFICES Ring' /\ (Underway' => Underway \/ Quiet) /\ Gone' /\ Restarts'
  BY <1>0, <1>1, ManagerSame
<1>3. CASE TcpRestarted
  <2>1. /\ waiting /\ fromTcp = <<>> /\ phoneIn = <<>> /\ phoneOut = <<>>
        /\ toCm = <<>> /\ fromCm = <<>>
        /\ waiting' = FALSE /\ tls' = "none" /\ UNCHANGED <<toTcp, phoneIn, phoneOut>>
        /\ fromTcp' = Append(fromTcp, Plain("restarting"))
    BY <1>1, <1>3 DEF TcpRestarted, Drained, Tell, Plain, ccVars
  <2>2. /\ Gains(fromTcp, fromTcp', Plain("restarting"))
        /\ \A x, y : Behind(fromTcp', x, y) <=>
                       Behind(fromTcp, x, y) \/ (Has(fromTcp, x) /\ y = Plain("restarting"))
    BY <1>0, <2>1, GainsMore, BehindAppend
  <2>3. ~ Has(toTcp, Plain("AUTH_COMPLETE"))
    BY <1>0, <2>1 DEF Restarts
  <2>4. Ring'
    BY <1>0, <2>1, <2>2, <2>3, StartRing DEF Live
  <2>5. Gone'
    BY <1>0, <1>1, <2>1, <2>2, HasNothing DEF Gone
  <2>6. Restarts'
    BY <1>0, <1>1, <2>1, <2>3 DEF Restarts
  <2>7. Quiet
    <3>1. CASE state = "none"
      <4>1. cm = 0
        BY <1>0, <2>1, <3>1 DEF Follow, CmEnd, End
      <4> QED
        BY <2>1, <4>1 DEF Quiet, NoOpen
    <3>2. CASE state # "none"
      BY <1>0, <2>1, <3>2 DEF Restarts, QuietBefore, Underway, Young
    <3> QED
      BY <3>1, <3>2
  <2> QED
    BY <2>4, <2>5, <2>6, <2>7
<1>4. CASE TcpTakes
  <2>1. PICK m : m = Head(toTcp)
    OBVIOUS
  <2>2. toTcp # <<>> /\ ~ waiting /\ toTcp' = Tail(toTcp)
    BY <1>4 DEF TcpTakes
  <2>3. /\ Loses(toTcp, toTcp', m) /\ Fewer(toTcp, toTcp') /\ m \in ToServer
        /\ \A x : Has(toTcp, x) <=> x = m \/ Has(toTcp', x)
        /\ \A x, y : Behind(toTcp, x, y) <=>
             (x = m /\ Has(toTcp', y)) \/ Behind(toTcp', x, y)
    BY <1>0, <2>1, <2>2, LosesTail, HasTail, BehindTail, QueueTypes
  <2>4. waiting' => m[1] = "restart" /\ conn = "up"
    BY <1>4, <2>1, <2>2 DEF TcpTakes, TcpStartTls, TcpFeed, TcpRestart, TcpSend
  <2>5. m[1] = "restart" => m = Plain("restart")
    BY <2>3 DEF ToServer, ToPhone, Plainly, Plain, PhoneHears
  <2>6. Restarts'
    <3>1. ASSUME state' # "none"
          PROVE  ~ Bare(toTcp') /\ (waiting' => Has(toTcp', Plain("VERSION_REQUEST")))
      <4>1. ~ Bare(toTcp)
        BY <1>0, <1>1, <3>1 DEF Restarts
      <4>2. ~ Bare(toTcp') /\ (m = Plain("restart") => Has(toTcp', Plain("VERSION_REQUEST")))
        BY <1>0, <2>1, <2>2, <4>1, BareTail
      <4> QED
        BY <2>4, <2>5, <4>2
    <3>2. ASSUME Has(toTcp', Plain("AUTH_COMPLETE"))
          PROVE  ~ waiting' /\ ~ Behind(toTcp', Plain("restart"), Plain("AUTH_COMPLETE"))
      <4>1. ~ Behind(toTcp, Plain("restart"), Plain("AUTH_COMPLETE"))
        BY <1>0, <2>3, <3>2 DEF Restarts
      <4> QED
        BY <2>3, <2>4, <2>5, <3>2, <4>1
    <3> QED
      BY <3>1, <3>2 DEF Restarts
  <2>7. fromTcp' = fromTcp \/ \E n : /\ fromTcp' = Append(fromTcp, n)
                                     /\ n[1] \in {"tls_handshake", "tls_handshake_completed"}
    BY <1>4, <2>1 DEF TcpTakes, TcpStartTls, TcpFeed, TcpRestart, TcpSend, Tell
  <2>8. Gone'
    <3>1. CASE fromTcp' = fromTcp
      BY <1>0, <1>1, <2>4, <3>1 DEF Gone, NoStart
    <3>2. ASSUME NEW n, fromTcp' = Append(fromTcp, n),
                 n[1] \in {"tls_handshake", "tls_handshake_completed"}
          PROVE  Gone'
      <4>1. n \notin {Plain("connected"), Plain("restarting"), Plain("closed")}
        BY <3>2 DEF Plain
      <4>2. /\ \A x : Has(fromTcp', x) <=> Has(fromTcp, x) \/ x = n
            /\ \A x, y : Behind(fromTcp', x, y) <=>
                 Behind(fromTcp, x, y) \/ (Has(fromTcp, x) /\ y = n)
        BY <1>0, <3>2, HasAppend, BehindAppend
      <4> QED
        BY <1>0, <1>1, <2>4, <4>1, <4>2 DEF Gone, NoStart
    <3> QED
      BY <2>7, <3>1, <3>2
  <2>9. SUFFICES Ring' /\ (Underway' => Underway)
    BY <2>6, <2>8
  <2>10. CASE m[1] = "start_tls"
    <3>1. TcpStartTls
      BY <1>4, <2>1, <2>10 DEF TcpTakes
    <3>2. PICK c : c = hellos + 1
      OBVIOUS
    <3>3. /\ cryptor' = c /\ tls' = "hello" /\ UNCHANGED <<phoneIn, phoneOut>>
          /\ fromTcp' = Append(fromTcp, <<"tls_handshake", c>>)
      BY <1>1, <3>1, <3>2 DEF TcpStartTls, Tell
    <3>4. m = Plain("start_tls")
      BY <2>3, <2>10 DEF ToServer, ToPhone, Plainly, Plain, PhoneHears
    <3>5. \A q \in {fromTcp, toTcp, phoneIn, phoneOut} :
            ~ Has(q, <<"tls_handshake", c>>) /\ ~ Has(q, <<"SSL_HANDSHAKE", c>>)
              /\ ~ Has(q, <<"feed_input", c>>)
      BY <1>0, <3>2, FreshHello
    <3>6. Gains(fromTcp, fromTcp', <<"tls_handshake", c>>)
      BY <1>0, <3>3, GainsMore
    <3> QED
      BY <1>0, <2>3, <3>3, <3>4, <3>5, <3>6, StartTlsRing
  <2>11. CASE m[1] = "feed_input"
    <3>1. TcpFeed(m[2])
      BY <1>4, <2>1, <2>11 DEF TcpTakes, TcpFeed
    <3>2. UNCHANGED <<cryptor, phoneIn>>
      BY <3>1 DEF TcpFeed
    <3>3. CASE Live /\ m[2] = cryptor
      <4>1. m = Input
        BY <2>3, <2>11, <3>3 DEF ToServer, ToPhone, Plainly, Plain, PhoneHears, Input
      <4>2. tls' = "active" /\ fromTcp' = Append(fromTcp, Plain("tls_handshake_completed"))
        BY <3>1, <3>3 DEF TcpFeed, Live, Tell, Plain
      <4>3. Gains(fromTcp, fromTcp', Plain("tls_handshake_completed"))
        BY <1>0, <4>2, GainsMore
      <4> QED
        BY <1>0, <1>1, <2>3, <3>2, <3>3, <4>1, <4>2, <4>3, FeedRing
    <3>4. CASE ~ (Live /\ m[2] = cryptor)
      <4>1. UNCHANGED fromTcp /\ (UNCHANGED tls \/ ~ Live')
        BY <1>0, <3>1, <3>4 DEF TcpFeed, Live, SessionTypeOK
      <4> QED
        BY <1>0, <1>1, <2>3, <3>2, <4>1, FewerRing, Fewest
    <3> QED
      BY <3>3, <3>4
  <2>12. CASE m[1] = "restart"
    <3>1. TcpRestart
      BY <1>4, <2>1, <2>12 DEF TcpTakes
    <3>2. UNCHANGED <<cryptor, tls, fromTcp>>
      BY <3>1 DEF TcpRestart
    <3>3. phoneIn' = phoneIn \/ phoneIn' = Append(phoneIn, Plain("SHUTDOWN_REQUEST"))
      BY <3>1 DEF TcpRestart, Tell, Plain
    <3>4. Fewer(phoneIn, phoneIn')
      <4>1. ~ Token(Plain("SHUTDOWN_REQUEST"))
        BY DEF Token, Plain
      <4>2. CASE phoneIn' = phoneIn
        BY <4>2, Fewest
      <4>3. CASE phoneIn' = Append(phoneIn, Plain("SHUTDOWN_REQUEST"))
        BY <1>0, <4>1, <4>3, FewerMore
      <4> QED
        BY <3>3, <4>2, <4>3
    <3> QED
      BY <1>0, <1>1, <2>3, <3>2, <3>4, FewerRing, Fewest
  <2>13. CASE m[1] \notin {"start_tls", "feed_input", "restart"}
    <3>1. /\ UNCHANGED <<cryptor, tls, fromTcp>>
          /\ phoneIn' = phoneIn \/ phoneIn' = Append(phoneIn, m)
      BY <1>4, <2>1, <2>13 DEF TcpTakes, TcpSend
    <3>2. CASE phoneIn' = phoneIn
      BY <1>0, <1>1, <2>3, <3>1, <3>2, FewerRing, Fewest
    <3>3. CASE phoneIn' = Append(phoneIn, m)
      <4>1. Gains(phoneIn, phoneIn', m)
        BY <1>0, <3>3, GainsMore
      <4> QED
        BY <1>0, <1>1, <2>3, <3>1, <4>1, MoveRing
    <3> QED
      BY <3>1, <3>2, <3>3
  <2> QED
    BY <2>10, <2>11, <2>12, <2>13
<1> QED
  BY <1>3, <1>4

\* The steps of channel_manager.
LEMMA CmStep ==
  ASSUME SessionInv, CmTakes \/ CmReady \/ CmFails
  PROVE  Ring' /\ QuietBefore' /\ Restarts' /\ Gone' /\ Follow' /\ Awaits'
<1>0. /\ SessionTypeOK /\ Ring /\ QuietBefore /\ Restarts /\ Gone /\ Follow /\ Awaits
      /\ toCm \in Seq(ToManager) /\ fromCm \in Seq(OfManager) /\ cmReady \in BOOLEAN
  BY DEF SessionInv, SessionTypeOK, QueuesOK
<1>1. UNCHANGED <<state, asked, conn, waiting, cryptor, tls, toTcp, fromTcp,
                  phoneIn, phoneOut>>
  BY DEF CmTakes, CmReady, CmFails, ccVars, tcpVars, phoneVars
<1>2. Ring' /\ (Underway' => Underway)
  BY <1>0, <1>1, FewerRing, Fewest
<1>3. Restarts' /\ Gone'
  BY <1>0, <1>1 DEF Restarts, Gone, NoStart
<1>4. SUFFICES (Quiet => Quiet') /\ Follow' /\ Awaits'
  BY <1>0, <1>2, <1>3 DEF QuietBefore
<1>5. CASE CmTakes
  <2>1. PICK m : m = Head(toCm)
    OBVIOUS
  <2>2. /\ toCm # <<>> /\ toCm' = Tail(toCm) /\ fromCm' = fromCm /\ cmReady' = FALSE
        /\ cm' = IF m[1] = "open_channels" THEN m[2] ELSE 0
    BY <1>5, <2>1 DEF CmTakes
  <2>3. NoOpen(toCm) => NoOpen(toCm') /\ m[1] # "open_channels"
    BY <1>0, <2>1, <2>2, OpenLess
  <2>4. End(toCm, cm) = End(toCm', cm')
    BY <1>0, <2>1, <2>2, EndLess
  <2>5. \A v : OnlyLast(toCm, v) => \/ toCm' = <<>> /\ m = <<"open_channels", v>>
                                    \/ OnlyLast(toCm', v) /\ m[1] # "open_channels"
    BY <1>0, <2>1, <2>2, OpenLess
  <2>6. Quiet => Quiet'
    BY <2>2, <2>3 DEF Quiet
  <2>7. Follow'
    BY <1>0, <1>1, <2>4 DEF Follow, CmEnd
  <2>8. Awaits'
    <3> SUFFICES ASSUME state = "WAITING_CHANNELS"
                 PROVE  \/ toCm' = <<>> /\ cm' = asked /\ fromCm' = <<>>
                        \/ OnlyLast(toCm', asked) /\ cm' = 0 /\ fromCm' = <<>>
      BY <1>1, <2>2 DEF Awaits
    <3>1. OnlyLast(toCm, asked) /\ fromCm = <<>>
      BY <1>0, <2>2 DEF Awaits
    <3>2. CASE toCm' = <<>> /\ m = <<"open_channels", asked>>
      BY <2>2, <3>1, <3>2
    <3>3. CASE OnlyLast(toCm', asked) /\ m[1] # "open_channels"
      BY <2>2, <3>1, <3>3
    <3> QED
      BY <2>5, <3>1, <3>2, <3>3
  <2> QED
    BY <2>6, <2>7, <2>8
<1>6. CASE CmReady
  <2>1. /\ cm # 0 /\ ~ cmReady /\ cmReady' = TRUE /\ UNCHANGED <<cm, toCm>>
        /\ fromCm' = Append(fromCm, <<"channels_ready", cm>>)
    BY <1>6 DEF CmReady, Tell, ccVars
  <2>2. ~ Quiet
    BY <2>1 DEF Quiet
  <2>3. Follow'
    BY <1>0, <1>1, <2>1 DEF Follow, CmEnd
  <2>4. Awaits'
    <3> SUFFICES ASSUME state = "WAITING_CHANNELS" PROVE Awaits'
      BY <1>1 DEF Awaits
    <3>1. toCm = <<>> /\ cm = asked /\ fromCm = <<>>
      BY <1>0, <2>1 DEF Awaits
    <3>2. fromCm' = <<<<"channels_ready", asked>>>>
      BY <2>1, <3>1
    <3> QED
      BY <1>1, <2>1, <3>1, <3>2 DEF Awaits
  <2> QED
    BY <2>2, <2>3, <2>4
<1>7. CASE CmFails
  <2>1. cm # 0 /\ ~ cmReady /\ cm' = 0 /\ UNCHANGED <<toCm, cmReady, fromCm>>
    BY <1>7 DEF CmFails, ccVars
  <2>2. ~ Quiet
    BY <2>1 DEF Quiet
  <2>3. Follow'
    BY <1>0, <1>1, <2>1 DEF Follow, CmEnd, End
  <2>4. Awaits'
    BY <1>0, <1>1, <2>1 DEF Awaits
  <2> QED
    BY <2>2, <2>3, <2>4
<1> QED
  BY <1>5, <1>6, <1>7

\* A change of the configuration.
LEMMA ChangeStep ==
  ASSUME SessionInv, ConfigChange
  PROVE  Ring' /\ QuietBefore' /\ Restarts' /\ Gone' /\ Follow' /\ Awaits'
<1>0. /\ SessionTypeOK /\ Ring /\ QuietBefore /\ Restarts /\ Gone /\ Follow /\ Awaits
      /\ toCm \in Seq(ToManager) /\ toTcp \in Seq(ToServer)
  BY DEF SessionInv, SessionTypeOK, QueuesOK
<1>1. /\ UNCHANGED <<asked, cm, fromCm, conn, waiting, cryptor, tls, fromTcp,
                     phoneIn, phoneOut>>
      /\ state' = "none" /\ toTcp' = Append(toTcp, Plain("restart"))
  BY DEF ConfigChange, ConfigChanged, Tell, Plain, tcpVars, cmVars, phoneVars
<1>2. Fewer(toTcp, toTcp')
  <2>1. ~ Token(Plain("restart"))
    BY DEF Token, Plain
  <2> QED
    BY <1>0, <1>1, <2>1, FewerMore
<1>3. Ring' /\ (Underway' => Underway)
  BY <1>0, <1>1, <1>2, FewerRing, Fewest
<1>4. Restarts'
  <2>1. Has(toTcp', Plain("AUTH_COMPLETE")) => Has(toTcp, Plain("AUTH_COMPLETE"))
    BY <1>0, <1>1, HasAppend DEF Plain
  <2>2. Behind(toTcp', Plain("restart"), Plain("AUTH_COMPLETE")) =>
          Behind(toTcp, Plain("restart"), Plain("AUTH_COMPLETE"))
    BY <1>0, <1>1, BehindAppend DEF Plain
  <2> QED
    BY <1>0, <1>1, <2>1, <2>2 DEF Restarts
<1>5. Gone'
  BY <1>0, <1>1 DEF Gone, NoStart
<1>6. PICK s \in Seq(ToManager) : /\ toCm' = Append(s, <<"restart", 0>>)
                                  /\ NoOpen(toCm) => NoOpen(s)
  <2>1. CASE state = "none"
    <3>1. toCm' = toCm \o <<>> \o <<<<"restart", 0>>>>
      BY <2>1 DEF ConfigChange, ConfigChanged
    <3>2. toCm' = Append(toCm, <<"restart", 0>>)
      BY <1>0, <3>1, TwoMore
    <3> QED
      BY <1>0, <3>2
  <2>2. CASE state # "none"
    <3>1. toCm' = toCm \o <<<<"shutdown", 0>>>> \o <<<<"restart", 0>>>>
      BY <2>2 DEF ConfigChange, ConfigChanged
    <3>2. PICK s : s = Append(toCm, <<"shutdown", 0>>)
      OBVIOUS
    <3>3. <<"shutdown", 0>> \in ToManager
      BY PlainTypes DEF Plain
    <3>4. s \in Seq(ToManager)
      BY <1>0, <3>2, <3>3, QueueTypes
    <3>5. toCm' = Append(s, <<"restart", 0>>)
      <4>1. PICK m, n : m = <<"shutdown", 0>> /\ n = <<"restart", 0>>
        OBVIOUS
      <4>2. toCm' = (toCm \o <<m>>) \o <<n>> /\ s = Append(toCm, m)
        BY <3>1, <3>2, <4>1
      <4>3. toCm \in Seq(ToManager) /\ m \in ToManager /\ s = Append(toCm, m)
        BY <1>0, <3>3, <4>1, <4>2
      <4>4. s \in Seq(ToManager) /\ s = toCm \o <<m>>
        BY <4>3
      <4>5. s \o <<n>> = Append(s, n)
        BY <4>4
      <4> QED
        BY <4>1, <4>2, <4>4, <4>5
    <3>6. NoOpen(toCm) => NoOpen(s)
      BY <1>0, <3>2, NoOpenMore
    <3> QED
      BY <3>4, <3>5, <3>6
  <2> QED
    BY <2>1, <2>2
<1>7. NoOpen(toCm) => NoOpen(toCm')
  BY <1>6, NoOpenMore
<1>8. End(toCm', cm') = 0
  BY <1>6, EndMore
<1>9. QuietBefore'
  BY <1>0, <1>1, <1>3, <1>7 DEF QuietBefore, Quiet
<1>10. Follow' /\ Awaits'
  BY <1>1, <1>8 DEF Follow, Awaits, CmEnd
<1> QED
  BY <1>3, <1>4, <1>5, <1>9, <1>10

\* oaa_control_channel takes channels_ready.
LEMMA OaaCmStep ==
  ASSUME SessionInv, OaaTakesCm
  PROVE  Ring' /\ QuietBefore' /\ Restarts' /\ Gone' /\ Follow' /\ Awaits'
<1>0. /\ SessionTypeOK /\ Ring /\ QuietBefore /\ Restarts /\ Gone /\ Follow /\ Awaits
      /\ toTcp \in Seq(ToServer)
  BY DEF SessionInv, SessionTypeOK, QueuesOK
<1>1. /\ UNCHANGED <<toCm, cm, asked, conn, waiting, cryptor, tls, fromTcp,
                     phoneIn, phoneOut>>
      /\ fromCm # <<>>
  BY DEF OaaTakesCm, ChannelsReady, tcpVars, phoneVars
<1>2. PICK n : n = <<"SERVICE_DISCOVERY_RES", Head(fromCm)[2]>>
  OBVIOUS
<1>3. \/ state # "WAITING_CHANNELS" /\ UNCHANGED <<state, toTcp>>
      \/ /\ state = "WAITING_CHANNELS" /\ state' = "CHANNELS_OPENING"
         /\ toTcp' = Append(toTcp, n)
  BY <1>2 DEF OaaTakesCm, ChannelsReady, AnswerDiscovery, Tell
<1>4. Fewer(toTcp, toTcp')
  <2>1. ~ Token(n)
    BY <1>2 DEF Token
  <2>2. CASE toTcp' = toTcp
    BY <2>2, Fewest
  <2>3. CASE toTcp' = Append(toTcp, n)
    BY <1>0, <2>1, <2>3, FewerMore
  <2> QED
    BY <1>3, <2>2, <2>3
<1>5. Ring' /\ (Underway' => Underway)
  BY <1>0, <1>1, <1>4, FewerRing, Fewest
<1>6. Restarts'
  <2>1. CASE UNCHANGED <<state, toTcp>>
    BY <1>0, <1>1, <2>1 DEF Restarts
  <2>2. CASE state # "none" /\ toTcp' = Append(toTcp, n)
    <3>1. n \notin {Plain("restart"), Plain("VERSION_REQUEST"), Plain("AUTH_COMPLETE")}
      BY <1>2 DEF Plain
    <3>2. Bare(toTcp') => Bare(toTcp)
      BY <1>0, <2>2, <3>1, BareAppend
    <3>3. \A x : Has(toTcp', x) <=> Has(toTcp, x) \/ x = n
      BY <1>0, <2>2, HasAppend
    <3>4. \A x, y : Behind(toTcp', x, y) <=> Behind(toTcp, x, y) \/ (Has(toTcp, x) /\ y = n)
      BY <1>0, <2>2, BehindAppend
    <3> QED
      BY <1>0, <1>1, <2>2, <3>1, <3>2, <3>3, <3>4 DEF Restarts
  <2> QED
    BY <1>3, <2>1, <2>2
<1>7. Gone'
  BY <1>0, <1>1, <1>3 DEF Gone, NoStart
<1>8. ~ Quiet
  BY <1>1 DEF Quiet
<1>9. QuietBefore'
  BY <1>0, <1>5, <1>8 DEF QuietBefore
<1>10. Follow' /\ Awaits'
  BY <1>0, <1>1, <1>3 DEF Follow, Awaits, CmEnd
<1> QED
  BY <1>5, <1>6, <1>7, <1>9, <1>10

\* oaa_control_channel takes a message of tcp_server.
LEMMA OaaTcpStep ==
  ASSUME SessionInv, OaaTakesTcp
  PROVE  Ring' /\ QuietBefore' /\ Restarts' /\ Gone' /\ Follow' /\ Awaits'
<1>0. /\ SessionTypeOK /\ Ring /\ QuietBefore /\ Restarts /\ Gone /\ Follow /\ Awaits
      /\ toTcp \in Seq(ToServer) /\ fromTcp \in Seq(OfServer) /\ toCm \in Seq(ToManager)
  BY DEF SessionInv, SessionTypeOK, QueuesOK
<1>1. UNCHANGED <<cm, fromCm, cmReady, conn, waiting, cryptor, tls, phoneIn, phoneOut>>
  BY DEF OaaTakesTcp, phoneVars
<1>2. PICK m : m = Head(fromTcp)
  OBVIOUS
<1>3. fromTcp # <<>> /\ fromTcp' = Tail(fromTcp)
  BY DEF OaaTakesTcp
<1>4. /\ Loses(fromTcp, fromTcp', m) /\ Fewer(fromTcp, fromTcp') /\ m \in OfServer
      /\ \A x : Has(fromTcp, x) <=> x = m \/ Has(fromTcp', x)
      /\ \A x, y : Behind(fromTcp, x, y) <=>
           (x = m /\ Has(fromTcp', y)) \/ Behind(fromTcp', x, y)
  BY <1>0, <1>2, <1>3, LosesTail, HasTail, BehindTail, QueueTypes
<1>5. FromTcp(m)
  BY <1>2 DEF OaaTakesTcp, FromTcp, FrameCh0, OnMessage, TlsHandshake, SslHandshake
<1>6. asked' = IF m[1] = "SERVICE_DISCOVERY_REQ" /\ state # "none" THEN config ELSE asked
  BY <1>2 DEF OaaTakesTcp
<1>7. m[1] \notin {"tls_handshake", "SSL_HANDSHAKE"} => m = Plain(m[1])
  BY <1>4 DEF OfServer, OfPhone, Plainly, Plain
\* What holds of the version requests, whatever is sent but a restart.
<1>8. ASSUME NEW n, toTcp' = Append(toTcp, n), n # Plain("restart"),
             state # "none" \/ n = Plain("VERSION_REQUEST"),
             n = Plain("AUTH_COMPLETE") => m = Plain("tls_handshake_completed")
      PROVE  Restarts'
  <2>1. \A x : Has(toTcp', x) <=> Has(toTcp, x) \/ x = n
    BY <1>0, <1>8, HasAppend
  <2>2. \A x, y : Behind(toTcp', x, y) <=> Behind(toTcp, x, y) \/ (Has(toTcp, x) /\ y = n)
    BY <1>0, <1>8, BehindAppend
  <2>3. Bare(toTcp') <=> Bare(toTcp) /\ n # Plain("VERSION_REQUEST")
    BY <1>0, <1>8, BareAppend
  <2>4. state' # "none" => /\ ~ Bare(toTcp')
                           /\ waiting' => Has(toTcp', Plain("VERSION_REQUEST"))
    BY <1>0, <1>1, <1>8, <2>1, <2>3 DEF Restarts
  <2>5. CASE n = Plain("AUTH_COMPLETE")
    <3>1. Secured /\ state # "none"
      BY <1>4, <1>8, <2>5 DEF Secured, Plain
    <3>2. ~ Has(toTcp, Plain("VERSION_REQUEST"))
      BY <1>0, <3>1 DEF Ring, Stages, Young
    <3>3. ~ waiting /\ ~ Has(toTcp, Plain("restart"))
      BY <1>0, <3>1, <3>2, BareRestart DEF Restarts
    <3>4. ~ Behind(toTcp, Plain("restart"), Plain("AUTH_COMPLETE"))
      BY <3>3, BehindHas
    <3> QED
      BY <1>1, <2>2, <2>4, <3>3, <3>4 DEF Restarts
  <2>6. CASE n # Plain("AUTH_COMPLETE")
    BY <1>0, <1>1, <2>1, <2>2, <2>4, <2>6 DEF Restarts
  <2> QED
    BY <2>5, <2>6
<1>9. ASSUME UNCHANGED toTcp, state' = state \/ state' = "none" \/ state # "none"
      PROVE  Restarts'
  BY <1>0, <1>1, <1>9 DEF Restarts
\* What holds of a connection that has ended, whatever else is taken.
<1>10. ASSUME m \notin {Plain("connected"), Plain("restarting"), Plain("closed")},
              state = "none" => state' = "none"
       PROVE  Gone'
  BY <1>0, <1>1, <1>4, <1>10 DEF Gone, NoStart
<1>11. ASSUME NEW n, ~ Token(n), toTcp' = Append(toTcp, n) PROVE Fewer(toTcp, toTcp')
  BY <1>0, <1>11, FewerMore
<1>12. ASSUME Fewer(toTcp, toTcp') PROVE Ring' /\ (Underway' => Underway)
  BY <1>0, <1>1, <1>4, <1>12, FewerRing, Fewest
<1>13. ASSUME NEW n, toTcp' = Append(toTcp, n),
              \/ /\ m \in {Plain("connected"), Plain("restarting")}
                 /\ n = Plain("VERSION_REQUEST")
              \/ m = Plain("VERSION_RESPONSE") /\ n = Plain("start_tls")
              \/ \E h : m = <<"tls_handshake", h>> /\ n = <<"SSL_HANDSHAKE", h>>
              \/ \E h : m = <<"SSL_HANDSHAKE", h>> /\ n = <<"feed_input", h>>
              \/ m = Plain("tls_handshake_completed") /\ n = Plain("AUTH_COMPLETE")
       PROVE  Ring' /\ (Underway' => Underway)
  <2>1. Gains(toTcp, toTcp', n)
    BY <1>0, <1>13, GainsMore
  <2> QED
    BY <1>0, <1>1, <1>4, <1>13, <2>1, MoveRing
\* What holds of channel_manager when it is told nothing.
<1>14. ASSUME UNCHANGED <<toCm, asked>>, Underway' => Underway,
              \/ Quiet
              \/ state' = state
              \/ state' \in {"CHANNELS_OPENING", "ACTIVE"},
              state' = state \/ state' # "WAITING_CHANNELS"
       PROVE  QuietBefore' /\ Follow' /\ Awaits'
  <2>1. QuietBefore'
    BY <1>0, <1>1, <1>14 DEF QuietBefore, Quiet
  <2>2. Quiet => CmEnd = 0
    BY <1>0, QuietEnd
  <2>3. CmEnd' = CmEnd
    BY <1>1, <1>14 DEF CmEnd
  <2>4. Follow'
    BY <1>0, <1>14, <2>2, <2>3 DEF Follow
  <2>5. Awaits'
    BY <1>0, <1>1, <1>14 DEF Awaits
  <2> QED
    BY <2>1, <2>4, <2>5
\* ... and when it is told of the shutdown.
<1>15. ASSUME toCm' = Append(toCm, Plain("shutdown")), Underway' => Underway,
              state' # "WAITING_CHANNELS"
       PROVE  QuietBefore' /\ Follow' /\ Awaits'
  <2>1. NoOpen(toCm) => NoOpen(toCm')
    BY <1>0, <1>15, NoOpenMore DEF Plain
  <2>2. CmEnd' = 0
    BY <1>0, <1>15, EndMore DEF CmEnd, Plain
  <2>3. QuietBefore'
    BY <1>0, <1>1, <1>15, <2>1 DEF QuietBefore, Quiet
  <2> QED
    BY <1>15, <2>2, <2>3 DEF Follow, Awaits
<1>16. CASE m[1] \in {"connected", "restarting"}
  <2>1. m \in {Plain("connected"), Plain("restarting")}
    BY <1>7, <1>16
  <2>2. /\ toTcp' = Append(toTcp, Plain("VERSION_REQUEST")) /\ state' = "VERSION_SENT"
        /\ UNCHANGED <<toCm, asked>>
    BY <1>5, <1>6, <1>16 DEF FromTcp, StartHandshake, FreshHandshake, Tell, Plain
  <2>3. Ring' /\ (Underway' => Underway)
    BY <1>13, <2>1, <2>2
  <2>4. Restarts'
    BY <1>8, <2>2 DEF Plain
  <2>5. Young
    BY <1>4, <2>1 DEF Young
  <2>6. Quiet
    BY <1>0, <2>5 DEF QuietBefore, Underway
  <2>7. QuietBefore' /\ Follow' /\ Awaits'
    BY <1>14, <2>2, <2>3, <2>6
  <2>8. Gone'
    <3>1. ~ NoStart
      BY <1>4, <2>1 DEF NoStart
    <3>2. m # Plain("closed")
      BY <2>1 DEF Plain
    <3> QED
      BY <1>0, <1>1, <1>4, <3>1, <3>2 DEF Gone
  <2> QED
    BY <2>3, <2>4, <2>7, <2>8
<1>17. CASE m[1] = "closed"
  <2>1. m = Plain("closed")
    BY <1>7, <1>17
  <2>2. state' = "none" /\ UNCHANGED toTcp /\ toCm' = Append(toCm, Plain("shutdown"))
    BY <1>5, <1>17 DEF FromTcp, TcpClosed, Tell, Plain
  <2>3. Ring' /\ (Underway' => Underway)
    BY <1>12, <2>2, Fewest
  <2>4. Restarts'
    BY <1>9, <2>2
  <2>5. QuietBefore' /\ Follow' /\ Awaits'
    BY <1>15, <2>2, <2>3
  <2>6. Gone'
    <3>1. NoStart'
      BY <1>0, <1>4, <2>1 DEF Gone, NoStart
    <3> QED
      BY <1>0, <1>1, <1>4, <2>2, <3>1 DEF Gone
  <2> QED
    BY <2>3, <2>4, <2>5, <2>6
<1>18. CASE m[1] = "tls_handshake"
  <2>1. UNCHANGED <<state, toCm, asked>>
    BY <1>5, <1>6, <1>18 DEF FromTcp, TlsHandshake
  <2>2. \/ state = "none" /\ UNCHANGED toTcp
        \/ state # "none" /\ toTcp' = Append(toTcp, <<"SSL_HANDSHAKE", m[2]>>)
    BY <1>5, <1>18 DEF FromTcp, TlsHandshake, Tell
  <2>3. m = <<"tls_handshake", m[2]>>
    BY <1>4, <1>18 DEF OfServer, OfPhone, Plainly, Plain, PhoneSays
  <2>4. Gone'
    BY <1>10, <1>18, <2>1 DEF Plain
  <2>5. CASE UNCHANGED toTcp
    <3>1. Ring' /\ (Underway' => Underway)
      BY <1>12, <2>5, Fewest
    <3>2. Restarts'
      BY <1>9, <2>1, <2>5
    <3>3. QuietBefore' /\ Follow' /\ Awaits'
      BY <1>14, <2>1, <3>1
    <3> QED
      BY <2>4, <3>1, <3>2, <3>3
  <2>6. CASE state # "none" /\ toTcp' = Append(toTcp, <<"SSL_HANDSHAKE", m[2]>>)
    <3>1. Ring' /\ (Underway' => Underway)
      BY <1>13, <2>3, <2>6
    <3>2. Restarts'
      BY <1>8, <2>6 DEF Plain
    <3>3. QuietBefore' /\ Follow' /\ Awaits'
      BY <1>14, <2>1, <3>1
    <3> QED
      BY <2>4, <3>1, <3>2, <3>3
  <2> QED
    BY <2>2, <2>5, <2>6
<1>19. CASE m[1] = "tls_handshake_completed"
  <2>1. m = Plain("tls_handshake_completed")
    BY <1>7, <1>19
  <2>2. UNCHANGED <<toCm, asked>>
    BY <1>5, <1>6, <1>19 DEF FromTcp, TlsCompleted
  <2>3. \/ state = "none" /\ UNCHANGED <<state, toTcp>>
        \/ /\ state # "none" /\ state' = "AUTH_OK"
           /\ toTcp' = Append(toTcp, Plain("AUTH_COMPLETE"))
    BY <1>5, <1>19 DEF FromTcp, TlsCompleted, TlsComplete, Tell, Plain
  <2>4. Gone'
    BY <1>10, <2>1, <2>3 DEF Plain
  <2>5. CASE state = "none" /\ UNCHANGED <<state, toTcp>>
    <3>1. Ring' /\ (Underway' => Underway)
      BY <1>12, <2>5, Fewest
    <3>2. Restarts'
      BY <1>9, <2>5
    <3>3. QuietBefore' /\ Follow' /\ Awaits'
      BY <1>14, <2>2, <2>5, <3>1
    <3> QED
      BY <2>4, <3>1, <3>2, <3>3
  <2>6. CASE /\ state # "none" /\ state' = "AUTH_OK"
             /\ toTcp' = Append(toTcp, Plain("AUTH_COMPLETE"))
    <3>1. Ring' /\ (Underway' => Underway)
      BY <1>13, <2>1, <2>6
    <3>2. Restarts'
      BY <1>8, <2>1, <2>6 DEF Plain
    <3>3. Quiet
      BY <1>0, <1>4, <2>1 DEF QuietBefore, Underway, Secured
    <3>4. QuietBefore' /\ Follow' /\ Awaits'
      BY <1>14, <2>2, <2>6, <3>1, <3>3
    <3> QED
      BY <2>4, <3>1, <3>2, <3>4
  <2> QED
    BY <2>3, <2>5, <2>6
<1>20. CASE m[1] \notin {"connected", "restarting", "closed", "tls_handshake",
                         "tls_handshake_completed"}
  <2>1. FrameCh0(m)
    BY <1>5, <1>20 DEF FromTcp
  <2>2. m \notin {Plain("connected"), Plain("restarting"), Plain("closed")}
    BY <1>20 DEF Plain
  <2>3. CASE UNCHANGED ccVars /\ asked' = asked
    <3>1. UNCHANGED <<state, toTcp, toCm>>
      BY <2>3 DEF ccVars
    <3>2. Ring' /\ (Underway' => Underway)
      BY <1>12, <3>1, Fewest
    <3>3. Restarts'
      BY <1>9, <3>1
    <3>4. Gone'
      BY <1>10, <2>2, <3>1
    <3>5. QuietBefore' /\ Follow' /\ Awaits'
      BY <1>14, <2>3, <3>1, <3>2
    <3> QED
      BY <3>2, <3>3, <3>4, <3>5
  <2>4. CASE state = "none"
    <3>1. UNCHANGED ccVars /\ asked' = asked
      BY <1>6, <2>1, <2>4 DEF FrameCh0
    <3> QED
      BY <2>3, <3>1
  <2>5. CASE state # "none"
    <3>1. OnMessage(m)
      BY <2>1, <2>5 DEF FrameCh0
    <3>2. Gone'
      BY <1>10, <2>2, <2>5
    <3>3. CASE m[1] = "VERSION_RESPONSE" /\ VersionResponse
      <4>1. m = Plain("VERSION_RESPONSE")
        BY <1>7, <3>3
      <4>2. /\ state' = "TLS_IN_PROGRESS" /\ toTcp' = Append(toTcp, Plain("start_tls"))
            /\ UNCHANGED <<toCm, asked>>
        BY <1>6, <3>3 DEF VersionResponse, Tell, Plain
      <4>3. Ring' /\ (Underway' => Underway)
        BY <1>13, <4>1, <4>2
      <4>4. Restarts'
        BY <1>8, <2>5, <4>2 DEF Plain
      <4>5. Quiet
        BY <1>0, <1>4, <4>1 DEF QuietBefore, Underway, Young
      <4>6. QuietBefore' /\ Follow' /\ Awaits'
        BY <1>14, <4>2, <4>3, <4>5
      <4> QED
        BY <3>2, <4>3, <4>4, <4>6
    <3>4. CASE m[1] = "SSL_HANDSHAKE" /\ SslHandshake(m[2])
      <4>1. m = <<"SSL_HANDSHAKE", m[2]>>
        BY <1>4, <3>4 DEF OfServer, OfPhone, Plainly, Plain, PhoneSays
      <4>2. /\ toTcp' = Append(toTcp, <<"feed_input", m[2]>>)
            /\ UNCHANGED <<state, toCm, asked>>
        BY <1>6, <3>4 DEF SslHandshake, Tell
      <4>3. Ring' /\ (Underway' => Underway)
        BY <1>13, <4>1, <4>2
      <4>4. Restarts'
        BY <1>8, <2>5, <4>2 DEF Plain
      <4>5. QuietBefore' /\ Follow' /\ Awaits'
        BY <1>14, <4>2, <4>3
      <4> QED
        BY <3>2, <4>3, <4>4, <4>5
    <3>5. CASE m[1] = "SERVICE_DISCOVERY_REQ" /\ ServiceDiscovery
      <4>1. m = Plain("SERVICE_DISCOVERY_REQ")
        BY <1>7, <3>5
      <4>2. /\ state' = "WAITING_CHANNELS" /\ UNCHANGED toTcp /\ asked' = config
            /\ toCm' = Append(toCm, <<"open_channels", config>>)
        BY <1>6, <2>5, <3>5 DEF ServiceDiscovery, Tell
      <4>3. Ring' /\ ~ Underway'
        BY <1>0, <1>1, <1>4, <4>1, <4>2, DiscoveryRing
      <4>4. Restarts'
        BY <1>9, <2>5, <4>2
      <4>5. Quiet
        BY <1>0, <1>4, <4>1 DEF QuietBefore, Underway, Late
      <4>6. QuietBefore'
        BY <4>3 DEF QuietBefore
      <4>7. CmEnd' = config
        BY <1>0, <4>2, EndMore DEF CmEnd
      <4>8. OnlyLast(toCm', asked')
        BY <1>0, <4>2, <4>5, OnlyLastMore DEF Quiet
      <4>9. Follow'
        BY <4>2, <4>7 DEF Follow
      <4>10. Awaits'
        BY <1>1, <4>2, <4>5, <4>8 DEF Awaits, Quiet
      <4> QED
        BY <3>2, <4>3, <4>4, <4>6, <4>9, <4>10
    <3>6. ASSUME NEW n, ~ Token(n), n # Plain("restart"), toTcp' = Append(toTcp, n),
                 UNCHANGED <<toCm, asked>>,
                 state' = state \/ state' \in {"CHANNELS_OPENING", "ACTIVE"}
          PROVE  Ring' /\ QuietBefore' /\ Restarts' /\ Gone' /\ Follow' /\ Awaits'
      <4>1. Ring' /\ (Underway' => Underway)
        BY <1>11, <1>12, <3>6
      <4>2. n # Plain("AUTH_COMPLETE")
        BY <3>6 DEF Token, Plain
      <4>3. Restarts'
        BY <1>8, <2>5, <3>6, <4>2
      <4>4. QuietBefore' /\ Follow' /\ Awaits'
        BY <1>14, <3>6, <4>1
      <4> QED
        BY <3>2, <4>1, <4>3, <4>4
    <3>7. \A x \in {"CHANNEL_OPEN_RES", "PING_RESPONSE", "AUDIO_FOCUS_RESPONSE",
                    "NAV_FOCUS_RESPONSE", "SHUTDOWN_RESPONSE"} :
            ~ Token(Plain(x)) /\ Plain(x) # Plain("restart")
      BY DEF Token, Plain
    <3>8. CASE m[1] = "CHANNEL_OPEN_REQ" /\ ChannelOpen
      <4>1. /\ toTcp' = Append(toTcp, Plain("CHANNEL_OPEN_RES"))
            /\ UNCHANGED <<toCm, asked, state>>
        BY <1>6, <3>8 DEF ChannelOpen, Tell, Plain
      <4> QED
        BY <3>6, <3>7, <4>1
    <3>9. CASE m[1] = "PING_REQUEST" /\ Ping
      <4>1. /\ toTcp' = Append(toTcp, Plain("PING_RESPONSE"))
            /\ UNCHANGED <<toCm, asked>> /\ state' = "ACTIVE"
        BY <1>6, <3>9 DEF Ping, Tell, Plain
      <4> QED
        BY <3>6, <3>7, <4>1
    <3>10. CASE m[1] = "AUDIO_FOCUS_REQUEST" /\ AudioFocus
      <4>1. /\ toTcp' = Append(toTcp, Plain("AUDIO_FOCUS_RESPONSE"))
            /\ UNCHANGED <<toCm, asked>> /\ state' \in {state, "ACTIVE"}
        BY <1>6, <3>10 DEF AudioFocus, Tell, Plain
      <4> QED
        BY <3>6, <3>7, <4>1
    <3>11. CASE m[1] = "NAV_FOCUS_REQUEST" /\ NavigationFocus
      <4>1. /\ toTcp' = Append(toTcp, Plain("NAV_FOCUS_RESPONSE"))
            /\ UNCHANGED <<toCm, asked, state>>
        BY <1>6, <3>11 DEF NavigationFocus, Tell, Plain
      <4> QED
        BY <3>6, <3>7, <4>1
    <3>12. CASE m[1] = "SHUTDOWN_REQUEST" /\ ShutdownRequest
      <4>1. /\ toTcp' = Append(toTcp, Plain("SHUTDOWN_RESPONSE")) /\ state' = "SHUTDOWN"
            /\ toCm' = Append(toCm, Plain("shutdown"))
        BY <3>12 DEF ShutdownRequest, SessionShutdown, Tell, Plain
      <4>2. Ring' /\ (Underway' => Underway)
        BY <1>11, <1>12, <3>7, <4>1
      <4>3. Restarts'
        BY <1>8, <2>5, <4>1 DEF Plain
      <4>4. QuietBefore' /\ Follow' /\ Awaits'
        BY <1>15, <4>1, <4>2
      <4> QED
        BY <3>2, <4>2, <4>3, <4>4
    <3>13. CASE UNCHANGED ccVars /\ m[1] # "SERVICE_DISCOVERY_REQ"
      BY <1>6, <2>3, <3>13
    <3>14. CASE m[1] = "AUTH_COMPLETE" /\ AuthComplete
      <4>1. m = Plain("AUTH_COMPLETE")
        BY <1>7, <3>14
      <4>2. state' = "AUTH_OK" /\ UNCHANGED <<toTcp, toCm, asked>>
        BY <1>6, <3>14 DEF AuthComplete
      <4>3. Ring' /\ (Underway' => Underway)
        BY <1>12, <4>2, Fewest
      <4>4. Restarts'
        BY <1>9, <2>5, <4>2
      <4>5. Quiet
        BY <1>0, <1>4, <4>1 DEF QuietBefore, Underway, Confirming
      <4>6. QuietBefore' /\ Follow' /\ Awaits'
        BY <1>14, <4>2, <4>3, <4>5
      <4> QED
        BY <3>2, <4>3, <4>4, <4>6
    <3> QED
      BY <3>1, <3>3, <3>4, <3>5, <3>8, <3>9, <3>10, <3>11, <3>12, <3>13, <3>14
      DEF OnMessage, OnlyNoted
  <2> QED
    BY <2>4, <2>5
<1> QED
  BY <1>16, <1>17, <1>18, <1>19, <1>20

\* The invariant holds initially.
LEMMA SessionInvInit ==
  ASSUME BoundsAssumption, SessionInit
  PROVE  SessionInv
<1>1. /\ toTcp = <<>> /\ fromTcp = <<>> /\ phoneIn = <<>> /\ phoneOut = <<>>
      /\ toCm = <<>> /\ fromCm = <<>> /\ cm = 0 /\ state = "none" /\ ~ waiting
  BY DEF SessionInit, CCInit
<1>2. SessionTypeOK
  BY InitTypes
<1>3. Order
  BY <1>1, HasNothing DEF Order, Order0, Order1, Order2, Order3, Order4, Order5
<1>4. Stages
  BY <1>1, HasNothing DEF Stages, Shaking, Secured, Late
<1>5. LateOnce
  BY <1>1, HasNothing DEF LateOnce, AuthT, AuthP, AskP, AskT, Twice
<1>6. Quiet /\ Confirms
  BY <1>1, HasNothing DEF Quiet, NoOpen, Confirms, AskT
<1>7. Restarts /\ Gone
  BY <1>1, HasNothing DEF Restarts, Gone, NoStart
<1>8. Follow /\ Awaits
  BY <1>1 DEF Follow, Awaits, CmEnd, End
<1> QED
  BY <1>2, <1>3, <1>4, <1>5, <1>6, <1>7, <1>8 DEF SessionInv, Ring, QuietBefore

\* Every step keeps it.
LEMMA SessionInvStep ==
  ASSUME SessionInv, BoundsAssumption, [SessionNext]_aaVars
  PROVE  SessionInv'
<1>1. SessionTypeOK'
  BY TypesStep DEF SessionInv
<1>2. CASE SessionNext
  <2>1. Ring' /\ QuietBefore' /\ Restarts' /\ Gone' /\ Follow' /\ Awaits'
    BY <1>2, PhoneStep, TcpStep, CmStep, OaaCmStep, OaaTcpStep, OaaSteps, ChangeStep
    DEF SessionNext, Deliver
  <2> QED
    BY <1>1, <2>1 DEF SessionInv
<1>3. CASE UNCHANGED aaVars
  <2>1. UNCHANGED openingVars
        /\ UNCHANGED <<state, waiting, conn, cryptor, tls, toTcp, fromTcp, phoneIn,
                       phoneOut>>
    BY <1>3 DEF aaVars, ccVars, tcpVars, cmVars, phoneVars, openingVars
  <2>2. Ring' /\ (Underway' => Underway)
    BY <2>1, FewerRing, Fewest DEF SessionInv
  <2>3. QuietBefore' /\ Follow' /\ Awaits'
    BY <2>1, <2>2, ManagerSame DEF SessionInv
  <2>4. Restarts' /\ Gone'
    BY <2>1 DEF SessionInv, Restarts, Gone, NoStart
  <2> QED
    BY <1>1, <2>2, <2>3, <2>4 DEF SessionInv
<1> QED
  BY <1>2, <1>3

\* The invariant of the session.
LEMMA SessionInductive == SessionSpec => []SessionInv
<1>1. SessionInit => SessionInv
  BY SessionInvInit, BoundsAssumption
<1>2. SessionInv /\ [SessionNext]_aaVars => SessionInv'
  BY SessionInvStep, BoundsAssumption
<1> QED
  BY <1>1, <1>2, PTL DEF SessionSpec

\* Once the processes have handled everything, channel modules run only for the
\* handshake that asked for them, for any number of connections, configuration
\* changes and pings.
THEOREM ChannelsFollowSessionCorrect == SessionSpec => []ChannelsFollowSession
<1>1. SessionInv => ChannelsFollowSession
  BY DEF SessionInv, Follow, CmEnd, End, ChannelsFollowSession, Handled, Drained
<1> QED
  BY <1>1, SessionInductive, PTL

\* The last message of a queue that got one is known by it.
LEMMA LastSent ==
  ASSUME NEW U, NEW s \in Seq(U), NEW m, NEW n, Append(s, m) = Append(s, n)
  PROVE  m = n
<1>1. Append(s, m)[Len(s) + 1] = m /\ Append(s, n)[Len(s) + 1] = n
  OBVIOUS
<1> QED
  BY <1>1

\* A queue that got a message is neither as it was nor without its first.
LEMMA SentIsMore ==
  ASSUME NEW U, NEW s \in Seq(U), NEW m
  PROVE  Append(s, m) # s /\ (s # <<>> => Append(s, m) # Tail(s))
<1>1. Len(Append(s, m)) = Len(s) + 1 /\ Len(s) \in Nat
  OBVIOUS
<1>2. s # <<>> => Len(Tail(s)) = Len(s) - 1
  OBVIOUS
<1> QED
  BY <1>1, <1>2

\* A message of tcp_server is never answered with the services.
LEMMA NoServicesYet ==
  ASSUME NEW m, FromTcp(m)
  PROVE  \/ toTcp' = toTcp
         \/ \E n : n[1] # "SERVICE_DISCOVERY_RES" /\ toTcp' = Append(toTcp, n)
<1>1. ASSUME NEW x, NEW h, x # "SERVICE_DISCOVERY_RES", Tell(toTcp, x, h)
      PROVE  \E n : n[1] # "SERVICE_DISCOVERY_RES" /\ toTcp' = Append(toTcp, n)
  BY <1>1 DEF Tell
<1>2. CASE m[1] \in {"connected", "restarting"}
  BY <1>1, <1>2 DEF FromTcp, StartHandshake, FreshHandshake
<1>3. CASE m[1] = "closed"
  BY <1>3 DEF FromTcp, TcpClosed
<1>4. CASE m[1] = "tls_handshake"
  BY <1>1, <1>4 DEF FromTcp, TlsHandshake
<1>5. CASE m[1] = "tls_handshake_completed"
  BY <1>1, <1>5 DEF FromTcp, TlsCompleted, TlsComplete
<1>6. CASE m[1] \notin {"connected", "restarting", "closed", "tls_handshake",
                        "tls_handshake_completed"}
  <2>1. FrameCh0(m)
    BY <1>6 DEF FromTcp
  <2>2. CASE UNCHANGED ccVars
    BY <2>2 DEF ccVars
  <2>3. CASE OnMessage(m)
    <3>1. CASE VersionResponse \/ SslHandshake(m[2]) \/ AuthComplete \/ ServiceDiscovery
               \/ ChannelOpen
      BY <1>1, <3>1 DEF VersionResponse, SslHandshake, AuthComplete, ServiceDiscovery,
                        ChannelOpen
    <3>2. CASE Ping \/ AudioFocus \/ NavigationFocus \/ ShutdownRequest
      BY <1>1, <3>2 DEF Ping, AudioFocus, NavigationFocus, ShutdownRequest
    <3> QED
      BY <2>2, <2>3, <3>1, <3>2 DEF OnMessage, OnlyNoted
  <2> QED
    BY <2>1, <2>2, <2>3 DEF FrameCh0
<1> QED
  BY <1>2, <1>3, <1>4, <1>5, <1>6

\* The services are sent only as an answer to channels_ready.
LEMMA SdrStep ==
  ASSUME SessionInv, [SessionNext]_aaVars, NEW v,
         toTcp' = Append(toTcp, <<"SERVICE_DISCOVERY_RES", v>>)
  PROVE  v = asked /\ cm = v /\ cmReady
<1>1. toTcp \in Seq(ToServer) /\ Awaits
  BY DEF SessionInv, SessionTypeOK, QueuesOK
<1>2. toTcp' # toTcp /\ (toTcp # <<>> => toTcp' # Tail(toTcp))
  BY <1>1, SentIsMore
<1>3. ASSUME NEW n, toTcp' = Append(toTcp, n)
      PROVE  n = <<"SERVICE_DISCOVERY_RES", v>>
  BY <1>1, <1>3, LastSent
<1>4. OaaTakesTcp \/ OaaTakesCm \/ ConfigChange
  <2>1. ~ (UNCHANGED toTcp) /\ ~ TcpTakes /\ ~ (UNCHANGED aaVars)
    BY <1>2 DEF TcpTakes, aaVars, ccVars
  <2>2. ~ PhoneTakes /\ ~ PhonePings /\ ~ PhoneQuits /\ ~ PhoneConnects /\ ~ PhoneCloses
    BY <2>1 DEF PhoneTakes, PhonePings, PhoneQuits, PhoneConnects, PhoneCloses, ccVars
  <2>3. ~ TcpRelays /\ ~ TcpRestarted /\ ~ CmTakes /\ ~ CmReady /\ ~ CmFails
    BY <2>1 DEF TcpRelays, TcpRestarted, CmTakes, CmReady, CmFails, ccVars
  <2> QED
    BY <2>1, <2>2, <2>3, OaaSteps DEF SessionNext, Deliver
<1>5. CASE OaaTakesTcp
  <2>1. PICK m : m = Head(fromTcp)
    OBVIOUS
  <2>2. FromTcp(m)
    BY <1>5, <2>1 DEF OaaTakesTcp, FromTcp, FrameCh0, OnMessage, TlsHandshake, SslHandshake
  <2> QED
    BY <1>2, <1>3, <2>2, NoServicesYet
<1>6. CASE ConfigChange
  <2>1. toTcp' = Append(toTcp, <<"restart", 0>>)
    BY <1>6 DEF ConfigChange, ConfigChanged, Tell
  <2> QED
    BY <1>3, <2>1
<1>7. CASE OaaTakesCm
  <2>1. PICK w : w = Head(fromCm)[2]
    OBVIOUS
  <2>2. fromCm # <<>> /\ state = "WAITING_CHANNELS"
        /\ toTcp' = Append(toTcp, <<"SERVICE_DISCOVERY_RES", w>>)
    BY <1>2, <1>7, <2>1 DEF OaaTakesCm, ChannelsReady, AnswerDiscovery, Tell
  <2>3. v = w
    BY <1>3, <2>2
  <2>4. cm = asked /\ cmReady /\ fromCm = <<<<"channels_ready", asked>>>>
    BY <1>1, <2>2 DEF Awaits
  <2>5. w = asked
    BY <2>1, <2>4
  <2> QED
    BY <2>3, <2>4, <2>5
<1> QED
  BY <1>4, <1>5, <1>6, <1>7

\* The phone learns the services it asked for last, and not before their channel
\* modules are up.
THEOREM SdrWhenChannelsUpCorrect == SessionSpec => SdrWhenChannelsUp
<1>1. SessionInv /\ [SessionNext]_aaVars =>
        [\A v \in 0 .. config :
           toTcp' = Append(toTcp, <<"SERVICE_DISCOVERY_RES", v>>) =>
             v = asked /\ cm = v /\ cmReady]_aaVars
  BY SdrStep
<1> QED
  BY <1>1, SessionInductive, PTL DEF SessionSpec, SdrWhenChannelsUp

=============================================================================
