------------------------- MODULE WifiBringUpProofs -------------------------
(***************************************************************************)
(* Theorems about WifiBringUp for any number of connections and starts.    *)
(***************************************************************************)
EXTENDS WifiBringUp, SequenceTheorems, TLAPS

-----------------------------------------------------------------------------
(* The inductive invariants.                                               *)

\* The socket that is pending is open, and its thread is past the choice of
\* taking it or not; a connection that waits for that choice has its socket.
SocketsKept ==
  /\ \A c \in Conns : cpc[c] = "connected" => c \in open
  /\ sock # NoConn => sock \in open /\ cpc[sock] \notin {"none", "connected"}
  /\ HandshakeOwnsSocket

\* What keeps an access point from being torn down.
Hindered ==
  trouble \cap {"dies", "timeout", "slow", "interrupted", "refused"} # {}

\* The client waits for an answer exactly while its bus thread does.
Waits(where, method) ==
  hpc = where =>
    (call = method /\ reply = "none") \/ (call = "none" /\ reply # "none")

\* The mode tells what is up, and what is up when nobody waits for it is what
\* the bus thread of hostapd_helper takes to be up.
ModeTells ==
  /\ mode = "join" => Clean /\ key # None
  /\ mode = "ap" => hostapd = "alive" /\ dnsmasq = "alive" /\ key # None
  /\ mode = "none" /\ spc = "idle" => Clean
  /\ spc # "idle" =>
       mode = "none" /\ key # None /\ call = "start" /\ gone = "no"
  /\ spc = "dnsmasq" => hostapd = "alive"
  /\ Waits("wait", "start") /\ Waits("stopping", "stop")
  /\ hpc \notin {"wait", "stopping"} => call = "none" /\ reply = "none"
  /\ gone # "no" => mode = "none"
  /\ hpc = "off" \/ (hpc = "stopping" /\ call = "none") => mode = "none"

TornDownInv == Hindered \/ ModeTells

\* What may take the network of a phone away.
Disturbed ==
  trouble \cap {"dies", "sigterm"} # {} \/ hpc \in {"stop", "stopping", "off"}

\* The network that is up stays up, and what tells of one comes after it.
NetworkStays ==
  /\ gone = "no" /\ call # "stop"
  /\ mode # "none" => Running /\ spc = "idle" /\ key # None
  /\ mode = "none" => dnsmasq # "alive"
  /\ spc # "idle" => key # None
  /\ spc = "dnsmasq" => hostapd = "alive"
  /\ \A i \in DOMAIN signals : signals[i] = "started" => mode # "none"
  /\ hpc \in {"reuse", "fetch"} => mode # "none"

\* Wherever a key is kept or on its way, it is that of the network that is up.
Up(k) == mode # "none" /\ k = key

KeysAreCurrent ==
  /\ gpc # None => Up(gpc)
  /\ params # None => Up(params)
  /\ \A i \in DOMAIN ready : Up(ready[i])
  /\ credentials # Nothing => Up(credentials)
  /\ hs.pc = "begin" => credentials # Nothing /\ running
  /\ hs.pc \in {"request", "run"} => Up(hs.key) /\ running

KeysInv == Disturbed \/ (NetworkStays /\ KeysAreCurrent)
-----------------------------------------------------------------------------
(* Types.                                                                  *)

\* The records of hs in TypeOK.
HandshakeRecord ==
  [pc : {"none", "begin", "request", "run", "unavailable", "completed", "failed"},
   conn : Conns \cup {NoConn}, key : Keys \cup {Nothing, Blank},
   informed : BOOLEAN, left : 0 .. MaxMessages]

(* The handshake that is no handshake has the shape of one. *)
LEMMA NoHandshakeType == NoHandshake \in HandshakeRecord
BY RfcommAssumption DEF HandshakeRecord, NoHandshake

\* Init is well typed.
LEMMA InitType == Init => TypeOK
<1> SUFFICES ASSUME Init PROVE TypeOK
  OBVIOUS
<1>1. ApTypeOK
  BY StartsAssumption DEF Init, ApInit, ApTypeOK, FaultKinds
<1>2. HelperTypeOK
  BY DEF Init, HelperInit, TopicsInit, HelperTypeOK
<1>3. hs \in HandshakeRecord
  BY NoHandshakeType DEF Init, RfInit
<1>4. /\ connected \in Seq(Conns) /\ open \subseteq Conns
      /\ listener \subseteq {"glib", "profile"}
  BY DEF Init, TopicsInit, RfInit
<1>5. /\ cpc \in [Conns -> {"none", "connected", "announce", "try", "done"}]
      /\ running \in BOOLEAN
  BY DEF Init, RfInit
<1>6. QED
  BY <1>1, <1>2, <1>3, <1>4, <1>5 DEF Init, RfInit, TypeOK, HandshakeRecord

\* What a method of the service returns and tells keeps the types.
LEMMA ReturnType ==
  ASSUME ApTypeOK, NEW result \in {"ok", "already", "error"},
         NEW sent \in Seq({"started", "stopped", "failed"}), Return(result, sent)
  PROVE  /\ call' \in {"none", "start", "stop"}
         /\ reply' \in {"none", "ok", "already", "error"}
         /\ signals' \in Seq({"started", "stopped", "failed"})
         /\ spc' \in {"idle", "hostapd", "dnsmasq"}
BY DEF ApTypeOK, Return, Emit

\* Every step of the access point service keeps its types.
LEMMA ServiceType ==
  ASSUME ApTypeOK, ApStep \/ ApFault
  PROVE  ApTypeOK'
<1> USE DEF ApTypeOK, FaultKinds
<1>0. /\ <<>> \in Seq({"started", "stopped", "failed"})
      /\ <<"started">> \in Seq({"started", "stopped", "failed"})
      /\ <<"stopped">> \in Seq({"started", "stopped", "failed"})
      /\ <<"failed">> \in Seq({"started", "stopped", "failed"})
  OBVIOUS
<1>1. CASE StartRefused
  BY <1>1, <1>0, ReturnType
  DEF StartRefused, runner, NotAuthorised, BadConfig, Trouble
<1>2. CASE StartNetwork
  <2>1. starts' \in 0 .. MaxStarts /\ starts' \in Keys
    BY <1>2, StartsAssumption DEF StartNetwork, NewKey, Keys
  <2>2. CASE JoinNetwork
    BY <1>2, <2>1, <2>2, <1>0, ReturnType DEF StartNetwork, JoinNetwork
  <2>3. CASE BeginAp
    BY <1>2, <2>1, <2>3 DEF StartNetwork, BeginAp, TakeInterface, Killed, dbus
  <2>4. QED
    BY <1>2, <2>2, <2>3 DEF StartNetwork
<1>3. CASE StartHostapd
  BY <1>3 DEF StartHostapd, dbus
<1>4. CASE StartDnsmasq
  BY <1>4, <1>0, ReturnType DEF StartDnsmasq
<1>5. CASE Stop
  BY <1>5, <1>0, ReturnType
  DEF Stop, NotAuthorised, Trouble, runner, RunnerStop, KillProcs,
      RestoreInterface, ResetState
<1>6. CASE Quit \/ GivesUp \/ DaemonDies
  <2>1. CASE Quit
    BY <2>1 DEF Quit, runner, dbus
  <2>2. CASE GivesUp
    BY <2>2 DEF GivesUp, Trouble, runner
  <2>3. CASE DaemonDies
    BY <2>3 DEF DaemonDies, Trouble, dbus
  <2>4. QED
    BY <1>6, <2>1, <2>2, <2>3
<1>7. CASE Unanswered
  BY <1>7, <1>0, ReturnType DEF Unanswered, runner
<1>8. CASE StartFails
  BY <1>8, <1>0, ReturnType
  DEF StartFails, Trouble, RunnerStop, KillProcs, RestoreInterface, ResetState
<1>9. CASE StartTimesOut
  BY <1>9, <1>0, ReturnType DEF StartTimesOut, Trouble, runner
<1>10. CASE Sigterm
  <2>1. UNCHANGED <<dbus, spc, starts>>
    BY <1>10 DEF Sigterm
  <2>2. CASE Running /\ RunnerStop
    BY <1>10, <2>1, <2>2
    DEF Sigterm, dbus, RunnerStop, KillProcs, RestoreInterface, ResetState
  <2>3. CASE UNCHANGED runner
    BY <1>10, <2>1, <2>3 DEF Sigterm, dbus, runner
  <2>4. QED
    BY <1>10, <2>2, <2>3 DEF Sigterm
<1>11. QED
  BY <1>1, <1>2, <1>3, <1>4, <1>5, <1>6, <1>7, <1>8, <1>9, <1>10
  DEF ApStep, ApFault

\* What Status() tells is a key, or blank.
LEMMA StatusKeyType ==
  ASSUME ApTypeOK
  PROVE  StatusKey \in Keys \cup {Blank}
BY DEF ApTypeOK, StatusKey, Params

\* hostapd.ready carries what is announced.
LEMMA PublishReadyType ==
  ASSUME HelperTypeOK, NEW k \in Keys \cup {Blank}, PublishReady(k)
  PROVE  /\ ready' \in Seq(Keys \cup {Blank})
         /\ notices' \subseteq {"failed", "unheard"}
<1>1. CASE "ready" \in subscribed
  <2>1. ready' = Append(ready, k) /\ notices' = notices
    BY <1>1 DEF PublishReady
  <2>2. QED
    BY <2>1, AppendProperties DEF HelperTypeOK
<1>2. CASE "ready" \notin subscribed
  BY <1>2 DEF HelperTypeOK, PublishReady, Notice
<1>3. QED
  BY <1>1, <1>2

\* Every step of hostapd_helper keeps the types.
LEMMA HelperType ==
  ASSUME ApTypeOK, HelperTypeOK, connected \in Seq(Conns),
         HelperStep \/ SystemStop
  PROVE  ApTypeOK' /\ HelperTypeOK' /\ connected' \in Seq(Conns)
<1> USE DEF ApTypeOK, HelperTypeOK, FaultKinds, apVars, runner, dbus, HGoto
<1>1. CASE ConfigLoaded
  BY <1>1 DEF ConfigLoaded, GLibLoop
<1>2. CASE HandleConnected
  <2>1. ready' = ready /\ connected' \in Seq(Conns)
    BY <1>2 DEF HandleConnected
  <2>2. trouble' \subseteq FaultKinds \cup {"interrupted", "unheard"}
    BY <1>2 DEF HandleConnected, IsRunning, Trouble
  <2>3. hpc' \in {"reuse", "start"}
    BY <1>2 DEF HandleConnected
  <2>4. QED
    BY <1>2, <2>1, <2>2, <2>3 DEF HandleConnected
<1>3. CASE Reuse
  <2>1. CASE params # None
    BY <1>3, <2>1, PublishReadyType DEF Reuse
  <2>2. CASE params = None
    <3>1. UNCHANGED <<apVars, connected, ready, notices, subscribed, params, gpc>>
      BY <1>3, <2>2 DEF Reuse
    <3>2. hpc' = "fetch"
      BY <1>3, <2>2 DEF Reuse
    <3>3. QED
      BY <3>1, <3>2
  <2>3. QED
    BY <2>1, <2>2
<1>4. CASE Fetch
  <2>1. CASE PublishReady(StatusKey)
    BY <1>4, <2>1, StatusKeyType, PublishReadyType DEF Fetch
  <2>2. CASE Notice({"failed"}) /\ UNCHANGED ready
    BY <1>4, <2>2 DEF Fetch, Notice
  <2>3. QED
    BY <1>4, <2>1, <2>2 DEF Fetch
<1>5. CASE CallStart \/ CallStop
  <2>1. CASE CallStart
    BY <2>1 DEF CallStart, Calls, topics
  <2>2. CASE CallStop
    BY <2>2 DEF CallStop, Calls, topics
  <2>3. QED
    BY <1>5, <2>1, <2>2
<1>6. CASE StartReturns
  <2>1. trouble' \subseteq FaultKinds \cup {"interrupted", "unheard"}
    BY <1>6 DEF StartReturns, IsRunning, Trouble
  <2>2. hpc' \in {"reuse", "start", "idle"}
    BY <1>6 DEF StartReturns
  <2>3. notices' \subseteq {"failed", "unheard"}
    BY <1>6 DEF StartReturns, Notice
  <2>4. QED
    BY <1>6, <2>1, <2>2, <2>3 DEF StartReturns
<1>7. CASE StopReturns
  BY <1>7 DEF StopReturns, topics
<1>8. CASE ApStarted
  <2>1. signals' \in Seq({"started", "stopped", "failed"})
    BY <1>8 DEF ApStarted
  <2>2. notices' \subseteq {"failed", "unheard"}
    BY <1>8 DEF ApStarted, Notice
  <2>3. gpc' \in Keys \cup {None, Blank}
    BY <1>8, StatusKeyType DEF ApStarted
  <2>4. QED
    BY <1>8, <2>1, <2>2, <2>3 DEF ApStarted
<1>9. CASE ApReady
  BY <1>9, PublishReadyType DEF ApReady
<1>10. CASE ApEnded
  <2>1. signals' \in Seq({"started", "stopped", "failed"})
    BY <1>10 DEF ApEnded
  <2>2. notices' \subseteq {"failed", "unheard"}
    BY <1>10 DEF ApEnded, Notice
  <2>3. QED
    BY <1>10, <2>1, <2>2 DEF ApEnded
<1>11. CASE SystemStop
  <2>1. trouble' \subseteq FaultKinds \cup {"interrupted", "unheard"}
    BY <1>11 DEF SystemStop, IsRunning, Trouble
  <2>2. hpc' \in {"stop", "off"}
    BY <1>11 DEF SystemStop
  <2>3. QED
    BY <1>11, <2>1, <2>2 DEF SystemStop, topics
<1>12. QED
  BY <1>1, <1>2, <1>3, <1>4, <1>5, <1>6, <1>7, <1>8, <1>9, <1>10, <1>11
  DEF HelperStep

\* A handshake that begins is well typed.
LEMMA TryStartType ==
  ASSUME TypeOK, TryStart
  PROVE  /\ running' \in BOOLEAN
         /\ hs' \in HandshakeRecord
<1>1. CASE CanStart
  BY <1>1, NoHandshakeType DEF TypeOK, TryStart, HandshakeRecord
<1>2. CASE ~ CanStart
  BY <1>2 DEF TypeOK, TryStart, HandshakeRecord
<1>3. QED
  BY <1>1, <1>2

\* Every step of rfcomm_handshake keeps the types.
LEMMA HandshakeType ==
  ASSUME TypeOK, Handshake
  PROVE  TypeOK'
<1> USE DEF TypeOK, HelperTypeOK, state, topics
<1>0. ApTypeOK'
  BY DEF Handshake, ApTypeOK, apVars, runner, dbus
<1>1. UNCHANGED <<params, hpc, gpc>>
  BY DEF Handshake, helperVars
<1>2. CASE RfBus
  <2>1. CASE Listen
    BY <1>0, <1>1, <2>1 DEF Listen, StartGlib, StartListener
  <2>2. CASE SubscribeReady
    BY <1>0, <1>1, <2>2 DEF SubscribeReady, Subscribe
  <2>3. CASE HostapdReady
    <3>1. credentials' \in Keys \cup {Nothing, Blank}
      BY <2>3 DEF HostapdReady
    <3>2. ready' \in Seq(Keys \cup {Blank})
      BY <2>3 DEF HostapdReady
    <3>3. QED
      BY <1>0, <1>1, <2>3, <3>1, <3>2 DEF HostapdReady
  <2>4. CASE ReadyTries
    BY <1>0, <1>1, <2>4, TryStartType DEF ReadyTries, HandshakeRecord
  <2>5. QED
    BY <1>2, <2>1, <2>2, <2>3, <2>4 DEF RfBus
<1>3. CASE RfHandshake
  <2>1. /\ open' \subseteq Conns /\ sock' \in Conns \cup {NoConn}
        /\ running' \in BOOLEAN
    BY <1>3
    DEF RfHandshake, BeginHandshake, Unavailable, SendStartRequest,
        HandshakeFails, OtherMessage, InfoRequest, ConnectStatus, EndHandshake,
        ClosePending
  <2>2. UNCHANGED <<cpc, device, credentials, rpc, listener, topics>>
    BY <1>3
    DEF RfHandshake, BeginHandshake, Unavailable, SendStartRequest,
        HandshakeFails, OtherMessage, InfoRequest, ConnectStatus, EndHandshake
  <2>3. hs' \in HandshakeRecord
    <3> USE DEF HandshakeRecord
    <3>1. CASE BeginHandshake
      <4>1. MaxMessages \in 0 .. MaxMessages
        BY RfcommAssumption
      <4>2. QED
        BY <3>1, <4>1 DEF BeginHandshake
    <3>2. CASE Unavailable \/ EndHandshake
      BY <3>2, NoHandshakeType DEF Unavailable, EndHandshake
    <3>3. CASE SendStartRequest \/ HandshakeFails \/ ConnectStatus
      BY <3>3 DEF SendStartRequest, HandshakeFails, ConnectStatus
    <3>4. CASE OtherMessage \/ InfoRequest
      <4>1. hs.left - 1 \in 0 .. MaxMessages
        BY <3>4, RfcommAssumption DEF OtherMessage, InfoRequest, Receives
      <4>2. QED
        <5>1. CASE OtherMessage
          BY <4>1, <5>1 DEF OtherMessage
        <5>2. CASE InfoRequest
          BY <4>1, <5>2 DEF InfoRequest
        <5>3. QED
          BY <3>4, <5>1, <5>2
    <3>5. QED
      BY <1>3, <3>1, <3>2, <3>3, <3>4 DEF RfHandshake
  <2>4. QED
    BY <1>0, <1>1, <2>1, <2>2, <2>3 DEF HandshakeRecord
<1>4. CASE RfcommStop
  BY <1>0, <1>1, <1>4 DEF RfcommStop, ClosePending, StopListener
<1>5. ASSUME NEW c \in Conns, NewConnection(c) \/ RfConnection(c)
      PROVE  TypeOK'
  <2>1. CASE NewConnection(c)
    BY <1>0, <1>1, <2>1 DEF NewConnection, Thread
  <2>2. CASE IgnoreConnection(c)
    BY <1>0, <1>1, <2>2 DEF IgnoreConnection, Thread
  <2>3. CASE TakeConnection(c)
    BY <1>0, <1>1, <2>3 DEF TakeConnection, Thread
  <2>4. CASE AnnounceConnection(c)
    <3>1. connected' \in Seq(Conns)
      <4>1. connected' \in {connected, Append(connected, c)}
        BY <2>4 DEF AnnounceConnection, PublishConnected
      <4>2. QED
        BY <4>1, AppendProperties
    <3>2. notices' \subseteq {"failed", "unheard"}
      BY <2>4 DEF AnnounceConnection, PublishConnected, Notice
    <3>3. QED
      BY <1>0, <1>1, <2>4, <3>1, <3>2 DEF AnnounceConnection, Thread
  <2>5. CASE ConnectionTries(c)
    BY <1>0, <1>1, <2>5, TryStartType DEF ConnectionTries, Thread, HandshakeRecord
  <2>6. QED
    BY <1>5, <2>1, <2>2, <2>3, <2>4, <2>5 DEF RfConnection
<1>6. QED
  BY <1>2, <1>3, <1>4, <1>5 DEF Handshake

\* Every state is well typed.
THEOREM TypeCorrect == Spec => []TypeOK
<1>1. TypeOK /\ [Next]_vars => TypeOK'
  <2> SUFFICES ASSUME TypeOK, [Next]_vars PROVE TypeOK'
    OBVIOUS
  <2>1. CASE Service
    <3>1. ApTypeOK'
      BY <2>1, ServiceType DEF Service, TypeOK
    <3>2. QED
      BY <2>1, <3>1 DEF Service, TypeOK, HelperTypeOK, topics, helperVars,
                        rfVars, state
  <2>2. CASE Helper
    <3>1. ApTypeOK' /\ HelperTypeOK' /\ connected' \in Seq(Conns)
      BY <2>2, HelperType DEF Helper, TypeOK
    <3>2. QED
      BY <2>2, <3>1 DEF Helper, TypeOK, rfVars, state
  <2>3. CASE Handshake
    BY <2>3, HandshakeType
  <2>4. CASE UNCHANGED vars
    BY <2>4 DEF vars, TypeOK, ApTypeOK, HelperTypeOK, apVars, runner, dbus,
                topics, helperVars, rfVars, state
  <2>5. QED
    BY <2>1, <2>2, <2>3, <2>4 DEF Next
<1>2. QED
  BY InitType, <1>1, PTL DEF Spec

-----------------------------------------------------------------------------
(* The socket of a handshake.                                              *)

(* The number that stands for "no connection" is none of a connection. *)
LEMMA NoConnIsNone == NoConn \notin Conns
BY DEF NoConn, Conns

(* At the start nobody has a socket. *)
LEMMA InitSockets == Init => SocketsKept
<1> SUFFICES ASSUME Init PROVE SocketsKept
  OBVIOUS
<1>1. running = FALSE /\ hs.pc = "none" /\ sock = NoConn
  BY DEF Init, RfInit, NoHandshake
<1>2. \A c \in Conns : cpc[c] # "connected"
  BY DEF Init, RfInit
<1>3. QED
  BY <1>1, <1>2 DEF SocketsKept, HandshakeOwnsSocket

\* The attempt to start a handshake keeps the socket.
LEMMA TryStartSockets ==
  ASSUME TypeOK, SocketsKept, TryStart
  PROVE  /\ (hs'.pc # "none") = running'
         /\ hs'.pc \in {"none", "begin"} \/ UNCHANGED hs
BY DEF TypeOK, SocketsKept, HandshakeOwnsSocket, TryStart, CanStart, NoHandshake

\* The thread of the handshake finds the socket that is pending, and only its
\* end gives it up.
LEMMA HandshakeSockets ==
  ASSUME TypeOK, SocketsKept, RfHandshake
  PROVE  SocketsKept'
<1> USE DEF TypeOK, SocketsKept, HandshakeOwnsSocket, state
<1>1. CASE BeginHandshake
  BY <1>1 DEF BeginHandshake
<1>2. CASE Unavailable
  BY <1>2 DEF Unavailable, NoHandshake
<1>3. CASE SendStartRequest \/ HandshakeFails \/ ConnectStatus
  BY <1>3 DEF SendStartRequest, HandshakeFails, ConnectStatus, Receives
<1>4. CASE OtherMessage \/ InfoRequest
  BY <1>4 DEF OtherMessage, InfoRequest, Receives
<1>5. CASE EndHandshake
  BY <1>5, NoConnIsNone DEF EndHandshake, ClosePending, NoHandshake
<1>6. QED
  BY <1>1, <1>2, <1>3, <1>4, <1>5 DEF RfHandshake

\* A connection leaves the pending socket alone, or no handshake runs.
LEMMA ConnectionSockets ==
  ASSUME TypeOK, SocketsKept, NEW c \in Conns, NewConnection(c) \/ RfConnection(c)
  PROVE  SocketsKept'
<1> USE DEF TypeOK, SocketsKept, HandshakeOwnsSocket, state, Thread
<1>1. CASE NewConnection(c)
  BY <1>1, NoConnIsNone DEF NewConnection
<1>2. CASE IgnoreConnection(c)
  <2>1. sock \in open => sock # c
    BY <1>2, NoConnIsNone DEF IgnoreConnection
  <2>2. cpc' = [cpc EXCEPT ![c] = "done"] /\ open' = open \ {c}
    BY <1>2 DEF IgnoreConnection
  <2>3. UNCHANGED <<sock, hs, running, rpc>>
    BY <1>2 DEF IgnoreConnection
  <2>4. \A b \in Conns : cpc'[b] = "connected" => b \in open'
    BY <2>2
  <2>5. sock' # NoConn => sock' \in open' /\ cpc'[sock'] \notin {"none", "connected"}
    BY <2>1, <2>2, <2>3
  <2>6. HandshakeOwnsSocket'
    <3>1. (hs'.pc # "none") = running'
      BY <2>3
    <3>2. hs.pc \in {"request", "run", "completed", "failed"} /\ rpc # "off" =>
            sock = hs.conn /\ sock \in open \ {c}
      BY <2>1
    <3>3. hs'.pc \in {"request", "run", "completed", "failed"} /\ rpc' # "off" =>
            sock' = hs'.conn /\ sock' \in open'
      BY <2>2, <2>3, <3>2
    <3>4. QED
      BY <3>1, <3>3
  <2>7. QED
    BY <2>4, <2>5, <2>6
<1>3. CASE TakeConnection(c)
  <2>1. hs.pc = "none" /\ sock # c
    BY <1>3, NoConnIsNone DEF TakeConnection
  <2>2. UNCHANGED <<hs, running>> /\ sock' = c /\ open' = open \ {sock}
    BY <1>3 DEF TakeConnection
  <2>3. cpc[c] = "connected" /\ cpc' = [cpc EXCEPT ![c] = "announce"]
    BY <1>3 DEF TakeConnection
  <2>4. \A b \in Conns : cpc'[b] = "connected" => b \in open'
    BY <2>1, <2>2, <2>3, NoConnIsNone
  <2>5. sock' \in open' /\ cpc'[sock'] \notin {"none", "connected"}
    BY <2>1, <2>2, <2>3
  <2>6. HandshakeOwnsSocket'
    BY <2>1, <2>2
  <2>7. QED
    BY <2>4, <2>5, <2>6
<1>4. CASE AnnounceConnection(c)
  BY <1>4 DEF AnnounceConnection
<1>5. CASE ConnectionTries(c)
  BY <1>5, TryStartSockets DEF ConnectionTries
<1>6. QED
  BY <1>1, <1>2, <1>3, <1>4, <1>5 DEF RfConnection

\* The pending socket is open, and that of a handshake as long as it runs.
LEMMA SocketsInductive ==
  ASSUME TypeOK, SocketsKept, [Next]_vars
  PROVE  SocketsKept'
<1> USE DEF TypeOK, SocketsKept, HandshakeOwnsSocket, state
<1>1. CASE Service \/ Helper \/ UNCHANGED vars
  BY <1>1 DEF Service, Helper, vars, rfVars
<1>2. CASE RfBus
  <2>1. CASE Listen \/ SubscribeReady
    BY <2>1 DEF Listen, SubscribeReady
  <2>2. CASE HostapdReady
    BY <2>2 DEF HostapdReady
  <2>3. CASE ReadyTries
    BY <2>3, TryStartSockets DEF ReadyTries
  <2>4. QED
    BY <1>2, <2>1, <2>2, <2>3 DEF RfBus
<1>3. CASE RfcommStop
  BY <1>3, NoConnIsNone DEF RfcommStop, ClosePending, StopListener
<1>4. QED
  BY <1>1, <1>2, <1>3, HandshakeSockets, ConnectionSockets DEF Next, Handshake

\* From its start to its end a handshake owns the pending socket, which stays
\* open: _handshake_running keeps every other connection from replacing it.
THEOREM HandshakeOwnsSocketCorrect == Spec => []HandshakeOwnsSocket
<1>1. SocketsKept => HandshakeOwnsSocket
  BY DEF SocketsKept
<1>2. QED
  BY <1>1, TypeCorrect, InitSockets, SocketsInductive, PTL DEF Spec

-----------------------------------------------------------------------------
(* What is left of an access point.                                        *)

\* What has gone wrong is not forgotten.
LEMMA TroubleGrows ==
  ASSUME [Next]_vars
  PROVE  trouble \subseteq trouble'
<1> USE DEF Trouble
<1>1. CASE ApStep
  BY <1>1
  DEF ApStep, StartRefused, StartNetwork, StartHostapd, StartDnsmasq, Stop, Quit,
      Unanswered, NotAuthorised, BadConfig
<1>2. CASE ApFault
  BY <1>2 DEF ApFault, StartFails, StartTimesOut, Sigterm, GivesUp, DaemonDies
<1>3. CASE Helper
  BY <1>3
  DEF Helper, HelperStep, ConfigLoaded, HandleConnected, Reuse, Fetch, CallStart,
      StartReturns, CallStop, StopReturns, ApStarted, ApReady, ApEnded,
      SystemStop, IsRunning, apVars
<1>4. CASE Handshake \/ UNCHANGED vars
  BY <1>4 DEF Handshake, vars, apVars
<1>5. QED
  BY <1>1, <1>2, <1>3, <1>4 DEF Next, Service

(* At the start nothing of an access point is there, and no mode says so. *)
LEMMA InitTornDown == Init => ModeTells
BY DEF Init, ApInit, HelperInit, ModeTells, Waits, Clean, None

\* A start leaves the access point as it found it, or up.
LEMMA StartTornDown ==
  ASSUME TypeOK, ModeTells, ~ Hindered', UNCHANGED helperVars,
         StartRefused \/ StartNetwork \/ StartHostapd \/ StartDnsmasq
  PROVE  ModeTells'
<1> USE DEF TypeOK, ApTypeOK, ModeTells, Waits, helperVars
<1>1. CASE StartRefused
  BY <1>1
  DEF StartRefused, Return, Emit, NotAuthorised, BadConfig, Trouble, Hindered,
      runner, Clean, Answers
<1>2. CASE StartNetwork
  <2>1. mode = "none" /\ Clean /\ spc = "idle" /\ call = "start" /\ gone = "no"
    BY <1>2 DEF StartNetwork, Answers, Running
  <2>2. starts' # None
    BY <1>2 DEF StartNetwork, NewKey, None
  <2>3. CASE JoinNetwork
    BY <1>2, <2>1, <2>2, <2>3 DEF StartNetwork, JoinNetwork, Return, Emit, Clean
  <2>4. CASE BeginAp
    BY <1>2, <2>1, <2>2, <2>4 DEF StartNetwork, BeginAp, dbus
  <2>5. QED
    BY <1>2, <2>3, <2>4 DEF StartNetwork
<1>3. CASE StartHostapd
  BY <1>3 DEF StartHostapd, dbus
<1>4. CASE StartDnsmasq
  BY <1>4 DEF StartDnsmasq, Return, Emit, Hindered
<1>5. QED
  BY <1>1, <1>2, <1>3, <1>4

\* So do the end of the service and its faults.
LEMMA StopTornDown ==
  ASSUME TypeOK, ModeTells, ~ Hindered', UNCHANGED helperVars,
         Stop \/ Quit \/ Unanswered \/ ApFault
  PROVE  ModeTells'
<1> USE DEF TypeOK, ApTypeOK, ModeTells, Waits, helperVars
<1>1. CASE Stop
  BY <1>1
  DEF Stop, Return, Emit, NotAuthorised, Trouble, Hindered, runner, Clean, Answers,
      Running, RunnerStop, KillProcs, RestoreInterface, ResetState
<1>2. CASE Quit \/ Unanswered
  BY <1>2 DEF Quit, Unanswered, Return, Emit, Clean, runner, dbus
<1>3. CASE StartFails
  BY <1>3
  DEF StartFails, Return, Emit, Clean, RunnerStop, KillProcs, RestoreInterface,
      ResetState
<1>4. CASE Sigterm
  <2>1. spc = "idle"
    BY <1>4 DEF Sigterm, Hindered
  <2>2. CASE Running
    BY <1>4, <2>1, <2>2
    DEF Sigterm, Clean, dbus, RunnerStop, KillProcs, RestoreInterface,
        ResetState
  <2>3. CASE ~ Running
    BY <1>4, <2>1, <2>3 DEF Sigterm, Clean, dbus, Running, runner
  <2>4. QED
    BY <2>2, <2>3
<1>5. CASE StartTimesOut \/ GivesUp \/ DaemonDies
  BY <1>5 DEF StartTimesOut, GivesUp, DaemonDies, Trouble, Hindered
<1>6. QED
  BY <1>1, <1>2, <1>3, <1>4, <1>5 DEF ApFault

\* The bus thread of hostapd_helper takes down what it finds up.
LEMMA HelperTornDown ==
  ASSUME TypeOK, ModeTells, ~ Hindered', HelperStep \/ SystemStop
  PROVE  ModeTells'
<1> USE DEF TypeOK, ApTypeOK, HelperTypeOK, ModeTells, Waits, HGoto, runner
<1>1. UNCHANGED <<mode, key, hostapd, dnsmasq, managed, spc, gone>>
  BY DEF HelperStep, ConfigLoaded, HandleConnected, Reuse, Fetch, CallStart,
         StartReturns, CallStop, StopReturns, ApStarted, ApReady, ApEnded,
         SystemStop, apVars
<1> USE <1>1 DEF Clean
<1>2. CASE ConfigLoaded \/ Reuse \/ Fetch
  BY <1>2 DEF ConfigLoaded, Reuse, Fetch, apVars, dbus
<1>3. CASE HandleConnected
  BY <1>3 DEF HandleConnected, dbus
<1>4. CASE CallStart \/ CallStop
  BY <1>4 DEF CallStart, CallStop, Calls
<1>5. CASE StartReturns
  BY <1>5 DEF StartReturns
<1>6. CASE StopReturns
  BY <1>6 DEF StopReturns
<1>7. CASE ApStarted \/ ApReady \/ ApEnded
  BY <1>7 DEF ApStarted, ApReady, ApEnded, apVars, dbus
<1>8. CASE SystemStop
  <2>1. hpc' = "off" => mode = "none"
    BY <1>8 DEF SystemStop, IsRunning, Trouble, Hindered, Answers, Running
  <2>2. QED
    BY <1>8, <2>1 DEF SystemStop, dbus
<1>9. QED
  BY <1>2, <1>3, <1>4, <1>5, <1>6, <1>7, <1>8 DEF HelperStep

(* Every step of the three programs and of their surroundings keeps TornDownInv. *)
LEMMA TornDownInductive ==
  ASSUME TypeOK, TornDownInv, [Next]_vars
  PROVE  TornDownInv'
<1> SUFFICES ASSUME ~ Hindered' PROVE ModeTells'
  BY DEF TornDownInv
<1>1. ModeTells
  BY TroubleGrows DEF TornDownInv, Hindered
<1>2. CASE Service
  BY <1>1, <1>2, StartTornDown, StopTornDown DEF Service, ApStep
<1>3. CASE Helper
  BY <1>1, <1>3, HelperTornDown DEF Helper
<1>4. CASE Handshake \/ UNCHANGED vars
  BY <1>1, <1>4
  DEF Handshake, vars, apVars, helperVars, runner, dbus, ModeTells, Waits, Clean
<1>5. QED
  BY <1>2, <1>3, <1>4 DEF Next

\* After _teardown() of hostapd_helper nothing of an access point is left,
\* however its starts ended and whenever the service was stopped, unless a fault
\* has kept Stop() from being called or accepted.
THEOREM TornDownCorrect == Spec => []TornDown
<1>1. TornDownInv /\ TypeOK => TornDown
  BY DEF TornDownInv, ModeTells, Hindered, TornDown, TypeOK, ApTypeOK
<1>2. Init => TornDownInv
  BY InitTornDown DEF TornDownInv
<1>3. QED
  BY <1>1, <1>2, TypeCorrect, TornDownInductive, PTL DEF Spec

-----------------------------------------------------------------------------
(* The key that a phone is sent.                                           *)

\* What may take the network away is not undone.
LEMMA DisturbedStays ==
  ASSUME [Next]_vars, Disturbed
  PROVE  Disturbed'
<1>1. trouble \subseteq trouble'
  BY TroubleGrows
<1>2. hpc \in {"stop", "stopping", "off"} => hpc' \in {"stop", "stopping", "off"}
  BY DEF Next, Service, Helper, Handshake, HelperStep, ConfigLoaded,
         HandleConnected, Reuse, Fetch, CallStart, StartReturns, CallStop,
         StopReturns, ApStarted, ApReady, ApEnded, SystemStop, HGoto, helperVars,
         vars
<1>3. CASE trouble \cap {"dies", "sigterm"} # {}
  <2>1. PICK t \in {"dies", "sigterm"} : t \in trouble
    BY <1>3
  <2>2. t \in trouble' \cap {"dies", "sigterm"}
    BY <1>1, <2>1
  <2>3. QED
    BY <2>2 DEF Disturbed
<1>4. QED
  BY <1>2, <1>3 DEF Disturbed

(* At the start no network is up and no key is on its way. *)
LEMMA InitKeys == Init => NetworkStays /\ KeysAreCurrent
<1> SUFFICES ASSUME Init PROVE NetworkStays /\ KeysAreCurrent
  OBVIOUS
<1>1. NetworkStays
  BY DEF Init, ApInit, HelperInit, NetworkStays
<1>2. /\ gpc = None /\ params = None /\ ready = <<>> /\ credentials = Nothing
      /\ hs.pc = "none"
  BY DEF Init, HelperInit, TopicsInit, RfInit, NoHandshake
<1>3. QED
  BY <1>1, <1>2 DEF KeysAreCurrent

\* Emit() adds what is told to the end of the queue, and nothing else.
LEMMA EmitStarted ==
  ASSUME signals \in Seq({"started", "stopped", "failed"}),
         NEW told \in {<<>>, <<"started">>, <<"stopped">>, <<"failed">>},
         Emit(told), NEW i \in DOMAIN signals', signals'[i] = "started"
  PROVE  told = <<"started">> \/ \E j \in DOMAIN signals : signals[j] = "started"
<1>1. told \in Seq({"started", "stopped", "failed"}) /\ Len(told) \in {0, 1}
  <2>1. CASE told = <<>>
    BY <2>1
  <2>2. CASE told # <<>>
    <3>1. PICK m \in {"started", "stopped", "failed"} : told = <<m>>
      BY <2>2
    <3>2. QED
      BY <3>1
  <2>3. QED
    BY <2>1, <2>2
<1>2. signals' = signals \o told
  BY DEF Emit
<1>3. DOMAIN signals' = 1 .. Len(signals) + Len(told)
  <2>1. /\ signals' \in Seq({"started", "stopped", "failed"})
        /\ Len(signals') = Len(signals) + Len(told)
    BY <1>1, <1>2, ConcatProperties
  <2>2. QED
    BY <2>1, LenProperties
<1>4. Len(signals) \in Nat /\ DOMAIN signals = 1 .. Len(signals)
  BY LenProperties
<1>5. CASE i <= Len(signals)
  <2>1. signals'[i] = signals[i]
    BY <1>1, <1>2, <1>3, <1>5, ConcatProperties
  <2>2. QED
    BY <1>3, <1>4, <1>5, <2>1
<1>6. CASE ~ (i <= Len(signals))
  <2>1. Len(told) = 1 /\ i = Len(signals) + 1
    <3> DEFINE n == Len(signals)
               k == Len(told)
    <3>1. n \in Nat /\ k \in {0, 1} /\ i \in 1 .. n + k /\ ~ (i <= n)
      BY <1>1, <1>3, <1>4, <1>6
    <3> HIDE DEF n, k
    <3>2. k = 1 /\ i = n + 1
      BY <3>1
    <3>3. QED
      BY <3>2 DEF n, k
  <2>2. signals'[i] = told[1]
    <3>1. /\ i \in 1 .. Len(signals) + Len(told) /\ ~ (i <= Len(signals))
          /\ i - Len(signals) = 1
      BY <1>3, <1>4, <1>6, <2>1
    <3>2. (signals \o told)[i] = told[i - Len(signals)]
      BY <1>1, <3>1, ConcatProperties
    <3>3. QED
      BY <1>2, <3>1, <3>2
  <2>3. told[1] = "started" /\ told # <<>>
    BY <2>1, <2>2
  <2>4. <<"stopped">>[1] = "stopped" /\ <<"failed">>[1] = "failed"
    OBVIOUS
  <2>5. told \notin {<<>>, <<"stopped">>, <<"failed">>}
    BY <2>3, <2>4
  <2>6. QED
    BY <2>5
<1>7. QED
  BY <1>5, <1>6

\* A return with signals: what they tell is so.
LEMMA ReturnTells ==
  ASSUME TypeOK, NetworkStays, NEW result,
         NEW told \in {<<>>, <<"started">>, <<"stopped">>, <<"failed">>},
         Return(result, told),
         mode # "none" => mode' # "none",
         told = <<"started">> => mode' # "none"
  PROVE  \A i \in DOMAIN signals' : signals'[i] = "started" => mode' # "none"
<1> SUFFICES ASSUME NEW i \in DOMAIN signals', signals'[i] = "started"
             PROVE  mode' # "none"
  OBVIOUS
<1>1. told = <<"started">> \/ \E j \in DOMAIN signals : signals[j] = "started"
  BY EmitStarted DEF Return, TypeOK, ApTypeOK
<1>2. QED
  BY <1>1 DEF NetworkStays

\* The access point service keeps the network that is up, and its key.
LEMMA ServiceNetwork ==
  ASSUME TypeOK, NetworkStays, ~ Disturbed, ~ Disturbed', Service
  PROVE  NetworkStays' /\ (mode # "none" => UNCHANGED <<mode, key>>)
<1> USE DEF TypeOK, ApTypeOK
<1>0. UNCHANGED hpc
  BY DEF Service, helperVars
<1>1. CASE StartRefused
  <2>1. UNCHANGED runner /\ call' = "none" /\ spc' = "idle" /\ gone' = "no"
    BY <1>1 DEF StartRefused, Return, NetworkStays
  <2>2. \A i \in DOMAIN signals' : signals'[i] = "started" => mode' # "none"
    BY <1>1, <2>1, ReturnTells DEF StartRefused, runner
  <2>3. QED
    BY <1>0, <2>1, <2>2 DEF NetworkStays, runner, Running
<1>2. CASE StartNetwork
  <2>1. mode = "none" /\ call = "start" /\ dnsmasq # "alive" /\ gone' = "no"
    BY <1>2 DEF StartNetwork, NetworkStays, Running
  <2>2. starts' # None
    BY <1>2 DEF StartNetwork, NewKey, None
  <2>3. CASE JoinNetwork
    <3>1. /\ mode' = "join" /\ key' # None /\ call' = "none" /\ spc' = "idle"
      BY <2>2, <2>3 DEF JoinNetwork, Return
    <3>2. QED
      BY <1>0, <2>1, <3>1 DEF NetworkStays, Running
  <2>4. CASE BeginAp
    BY <1>0, <2>1, <2>2, <2>4
    DEF BeginAp, dbus, Killed, NetworkStays
  <2>5. QED
    BY <1>2, <2>3, <2>4 DEF StartNetwork
<1>3. CASE StartHostapd
  BY <1>0, <1>3 DEF StartHostapd, dbus, NetworkStays, Running
<1>4. CASE StartDnsmasq
  <2>1. /\ mode' = "ap" /\ hostapd' = "alive" /\ dnsmasq' = "alive"
        /\ call' = "none" /\ spc' = "idle" /\ gone' = "no" /\ mode = "none"
        /\ key' # None
    BY <1>4 DEF StartDnsmasq, Return, NetworkStays
  <2>2. QED
    BY <1>0, <2>1 DEF NetworkStays, Running
<1>5. CASE StartFails
  <2>1. mode = "none" /\ call' = "none" /\ spc' = "idle" /\ gone' = "no"
    BY <1>5 DEF StartFails, NetworkStays, Return
  <2>2. mode' = "none" /\ dnsmasq' = "none"
    BY <1>5, <2>1 DEF StartFails, RunnerStop, ResetState, KillProcs
  <2>3. \A i \in DOMAIN signals' : signals'[i] = "started" => mode' # "none"
    BY <1>5, <2>1, ReturnTells DEF StartFails
  <2>4. QED
    BY <1>0, <2>1, <2>2, <2>3 DEF NetworkStays
<1>6. CASE StartTimesOut
  <2>1. /\ mode = "none" /\ call' = "none" /\ spc' = "idle" /\ gone' = "no"
        /\ UNCHANGED runner
    BY <1>6 DEF StartTimesOut, NetworkStays, Return
  <2>2. \A i \in DOMAIN signals' : signals'[i] = "started" => mode' # "none"
    BY <1>6, <2>1, ReturnTells DEF StartTimesOut
  <2>3. QED
    BY <1>0, <2>1, <2>2 DEF NetworkStays, runner
<1>7. CASE Stop \/ Quit \/ Unanswered
  BY <1>7 DEF Stop, Quit, Unanswered, NetworkStays
<1>8. CASE Sigterm \/ DaemonDies
  BY <1>8 DEF Sigterm, DaemonDies, Trouble, Disturbed
<1>9. CASE GivesUp
  BY <1>0, <1>9 DEF GivesUp, NetworkStays, runner, Running
<1>10. QED
  BY <1>1, <1>2, <1>3, <1>4, <1>5, <1>6, <1>7, <1>8, <1>9
  DEF Service, ApStep, ApFault

\* What follows the network that is up is true of it as long as it is up.
LEMMA ServiceKeys ==
  ASSUME TypeOK, NetworkStays, KeysAreCurrent, ~ Disturbed, ~ Disturbed', Service
  PROVE  NetworkStays' /\ KeysAreCurrent'
<1>1. NetworkStays' /\ (mode # "none" => UNCHANGED <<mode, key>>)
  BY ServiceNetwork
<1>2. UNCHANGED <<topics, helperVars, rfVars>>
  BY DEF Service
<1>3. QED
  BY <1>1, <1>2
  DEF KeysAreCurrent, Up, topics, helperVars, rfVars, state

\* The elements of a queue to which one is added, and of one that is served.
LEMMA AppendHas ==
  ASSUME NEW S, NEW q \in Seq(S), NEW e \in S, NEW i \in DOMAIN Append(q, e)
  PROVE  Append(q, e)[i] = e \/ (i \in DOMAIN q /\ Append(q, e)[i] = q[i])
<1>1. /\ Append(q, e) \in Seq(S) /\ Len(Append(q, e)) = Len(q) + 1
      /\ \A j \in 1 .. Len(q) : Append(q, e)[j] = q[j]
      /\ Append(q, e)[Len(q) + 1] = e
  BY AppendProperties
<1>2. i \in 1 .. Len(q) + 1
  BY <1>1, LenProperties
<1>3. Len(q) \in Nat /\ DOMAIN q = 1 .. Len(q)
  BY LenProperties
<1>4. i \in 1 .. Len(q) \/ i = Len(q) + 1
  BY <1>2, <1>3
<1>5. QED
  BY <1>1, <1>3, <1>4

(* What is left of a queue without its head was in the queue, one place later. *)
LEMMA TailHas ==
  ASSUME NEW S, NEW q \in Seq(S), q # <<>>, NEW i \in DOMAIN Tail(q)
  PROVE  i + 1 \in DOMAIN q /\ Tail(q)[i] = q[i + 1]
<1>1. /\ Tail(q) \in Seq(S) /\ Len(Tail(q)) = Len(q) - 1
      /\ \A j \in 1 .. Len(Tail(q)) : Tail(q)[j] = q[j + 1]
  BY HeadTailProperties
<1>2. i \in 1 .. Len(Tail(q))
  BY <1>1, LenProperties
<1>3. Len(q) \in Nat /\ DOMAIN q = 1 .. Len(q)
  BY LenProperties
<1>4. QED
  BY <1>1, <1>2, <1>3

(* The head of a queue that is not empty is its first element. *)
LEMMA HeadHas ==
  ASSUME NEW S, NEW q \in Seq(S), q # <<>>
  PROVE  1 \in DOMAIN q /\ Head(q) = q[1]
<1>1. Head(q) = q[1] /\ Len(q) \in Nat \ {0} /\ DOMAIN q = 1 .. Len(q)
  BY EmptySeq, LenProperties, HeadTailProperties
<1>2. QED
  BY <1>1

\* Status() tells the key of the network that is up.
LEMMA StatusTellsKey ==
  ASSUME NetworkStays, mode # "none"
  PROVE  StatusKey = key
BY DEF NetworkStays, StatusKey, Params

\* hostapd.ready is published with the key of the network that is up.
LEMMA PublishKey ==
  ASSUME TypeOK, KeysAreCurrent, NEW k \in Keys \cup {Blank}, Up(k), PublishReady(k)
  PROVE  \A i \in DOMAIN ready' : Up(ready'[i])
<1>1. CASE ready' = ready
  BY <1>1 DEF KeysAreCurrent
<1>2. CASE ready' = Append(ready, k)
  BY <1>2, AppendHas DEF KeysAreCurrent, TypeOK, HelperTypeOK
<1>3. QED
  BY <1>1, <1>2 DEF PublishReady

\* hostapd_helper announces the network that is up.
LEMMA HelperKeys ==
  ASSUME TypeOK, NetworkStays, KeysAreCurrent, ~ Disturbed', Helper
  PROVE  NetworkStays' /\ KeysAreCurrent'
<1>0. hpc' \notin {"stop", "stopping", "off"}
  BY DEF Disturbed
<1>1. UNCHANGED <<runner, spc, gone, credentials, hs, running>>
  BY DEF Helper, rfVars, state, HelperStep, ConfigLoaded, HandleConnected, Reuse,
         Fetch, CallStart, StartReturns, CallStop, StopReturns, ApStarted,
         ApReady, ApEnded, SystemStop, apVars
<1> USE <1>0, <1>1 DEF runner, HGoto
<1>2. UNCHANGED <<mode, key, Running>>
  BY DEF Running
<1> HIDE DEF runner
<1> SUFFICES
      /\ call' # "stop"
      /\ \A i \in DOMAIN signals' : signals'[i] = "started" => mode # "none"
      /\ hpc' \in {"reuse", "fetch"} => mode # "none"
      /\ gpc' # None => Up(gpc')
      /\ params' # None => Up(params')
      /\ \A i \in DOMAIN ready' : Up(ready'[i])
  BY <1>2 DEF NetworkStays, KeysAreCurrent, Up, runner
<1>3. Running => mode # "none"
  BY DEF NetworkStays, Running
<1>4. CASE ConfigLoaded \/ CallStart
  BY <1>4
  DEF ConfigLoaded, CallStart, Calls, NetworkStays, KeysAreCurrent, apVars, dbus, topics
<1>5. CASE HandleConnected \/ StartReturns
  <2>1. hpc' \in {"reuse", "fetch"} => mode # "none"
    BY <1>3, <1>5 DEF HandleConnected, StartReturns, IsRunning
  <2>2. UNCHANGED <<call, signals, gpc, params, ready>>
    BY <1>5 DEF HandleConnected, StartReturns, dbus
  <2>3. QED
    BY <2>1, <2>2 DEF NetworkStays, KeysAreCurrent
<1>6. CASE Reuse
  <2>1. UNCHANGED <<call, signals, gpc, params>> /\ mode # "none"
    BY <1>6 DEF Reuse, apVars, dbus, NetworkStays
  <2>2. \A i \in DOMAIN ready' : Up(ready'[i])
    <3>1. CASE params = None
      BY <1>6, <3>1 DEF Reuse, KeysAreCurrent
    <3>2. CASE params # None
      BY <1>6, <3>2, PublishKey DEF Reuse, KeysAreCurrent, TypeOK, HelperTypeOK
    <3>3. QED
      BY <3>1, <3>2
  <2>3. QED
    BY <2>1, <2>2 DEF NetworkStays, KeysAreCurrent
<1>7. CASE Fetch
  <2>1. UNCHANGED <<call, signals, gpc, params>> /\ hpc' = "idle" /\ mode # "none"
    BY <1>7 DEF Fetch, apVars, dbus, NetworkStays
  <2>2. \A i \in DOMAIN ready' : Up(ready'[i])
    <3>1. CASE UNCHANGED ready
      BY <3>1 DEF KeysAreCurrent
    <3>2. CASE PublishReady(StatusKey)
      BY <2>1, <3>2, StatusTellsKey, StatusKeyType, PublishKey DEF Up, TypeOK
    <3>3. QED
      BY <1>7, <3>1, <3>2 DEF Fetch
  <2>3. QED
    BY <2>1, <2>2 DEF NetworkStays, KeysAreCurrent
<1>8. CASE CallStop \/ StopReturns \/ SystemStop
  BY <1>8 DEF CallStop, StopReturns, SystemStop
<1>9. CASE ApStarted \/ ApEnded
  <2>1. UNCHANGED <<call, hpc, ready>> /\ signals # <<>> /\ signals' = Tail(signals)
    BY <1>9 DEF ApStarted, ApEnded
  <2>2. \A i \in DOMAIN signals' : signals'[i] = "started" => mode # "none"
    BY <2>1, TailHas DEF NetworkStays, TypeOK, ApTypeOK
  <2>3. (gpc' # None => Up(gpc')) /\ (params' # None => Up(params'))
    <3>1. CASE ApStarted
      <4>1. mode # "none"
        BY <3>1, HeadHas DEF ApStarted, NetworkStays, TypeOK, ApTypeOK
      <4>2. QED
        BY <3>1, <4>1, StatusTellsKey DEF ApStarted, KeysAreCurrent, Up
    <3>2. CASE ApEnded
      BY <3>2 DEF ApEnded, KeysAreCurrent
    <3>3. QED
      BY <1>9, <3>1, <3>2
  <2>4. QED
    BY <2>1, <2>2, <2>3 DEF NetworkStays, KeysAreCurrent
<1>10. CASE ApReady
  <2>1. UNCHANGED <<call, signals, hpc>> /\ params' = gpc /\ gpc' = None
    BY <1>10 DEF ApReady, apVars, dbus
  <2>2. Up(gpc) /\ PublishReady(gpc)
    BY <1>10 DEF ApReady, KeysAreCurrent
  <2>3. \A i \in DOMAIN ready' : Up(ready'[i])
    BY <1>10, <2>2, PublishKey DEF ApReady, TypeOK, HelperTypeOK
  <2>4. QED
    BY <2>1, <2>2, <2>3 DEF NetworkStays, KeysAreCurrent
<1>11. QED
  BY <1>4, <1>5, <1>6, <1>7, <1>8, <1>9, <1>10 DEF Helper, HelperStep

\* A handshake has the key that it was started with.
LEMMA HandshakeKeys ==
  ASSUME TypeOK, NetworkStays, KeysAreCurrent, Handshake
  PROVE  NetworkStays' /\ KeysAreCurrent'
<1>1. UNCHANGED <<apVars, helperVars>>
  BY DEF Handshake
<1>2. NetworkStays' /\ UNCHANGED <<mode, key, gpc, params>>
  BY <1>1 DEF NetworkStays, Running, apVars, runner, dbus, helperVars
<1> SUFFICES
      /\ \A i \in DOMAIN ready' : Up(ready'[i])
      /\ credentials' # Nothing => Up(credentials')
      /\ hs'.pc = "begin" => credentials' # Nothing /\ running'
      /\ hs'.pc \in {"request", "run"} => Up(hs'.key) /\ running'
  BY <1>2 DEF KeysAreCurrent, Up
<1> USE DEF KeysAreCurrent, state, topics
<1>3. CASE Listen \/ SubscribeReady \/ RfcommStop
  BY <1>3 DEF Listen, SubscribeReady, RfcommStop
<1>4. CASE HostapdReady
  <2>1. /\ ready # <<>> /\ ready' = Tail(ready) /\ credentials' = Head(ready)
        /\ UNCHANGED <<hs, running>>
    BY <1>4 DEF HostapdReady
  <2>2. ready \in Seq(Keys \cup {Blank})
    BY DEF TypeOK, HelperTypeOK
  <2>3. Up(credentials')
    BY <2>1, <2>2, HeadHas
  <2>4. credentials' # Nothing
    BY <2>3 DEF Up, NetworkStays, Nothing, None
  <2>5. \A i \in DOMAIN ready' : Up(ready'[i])
    BY <2>1, <2>2, TailHas
  <2>6. QED
    BY <2>1, <2>3, <2>4, <2>5
<1>5. CASE TryStart /\ UNCHANGED <<credentials, ready>>
  <2>1. CASE CanStart
    BY <1>5, <2>1 DEF TryStart, CanStart, NoHandshake
  <2>2. CASE ~ CanStart
    BY <1>5, <2>2 DEF TryStart
  <2>3. QED
    BY <2>1, <2>2
<1>6. CASE RfHandshake
  <2>1. UNCHANGED <<credentials, ready>>
    BY <1>6 DEF RfHandshake, BeginHandshake, Unavailable, SendStartRequest,
                HandshakeFails, OtherMessage, InfoRequest, ConnectStatus,
                EndHandshake
  <2>2. CASE BeginHandshake
    BY <2>1, <2>2 DEF BeginHandshake, TypeOK
  <2>3. CASE Unavailable \/ EndHandshake
    BY <2>1, <2>3 DEF Unavailable, EndHandshake, NoHandshake
  <2>4. CASE SendStartRequest \/ HandshakeFails \/ ConnectStatus
    BY <2>1, <2>4
    DEF SendStartRequest, HandshakeFails, ConnectStatus, Receives, TypeOK
  <2>5. CASE OtherMessage \/ InfoRequest
    BY <2>1, <2>5 DEF OtherMessage, InfoRequest, Receives, TypeOK
  <2>6. QED
    BY <1>6, <2>2, <2>3, <2>4, <2>5 DEF RfHandshake
<1>7. ASSUME NEW c \in Conns,
             NewConnection(c) \/ IgnoreConnection(c) \/ AnnounceConnection(c)
      PROVE  UNCHANGED <<ready, credentials, hs, running>>
  BY <1>7 DEF NewConnection, IgnoreConnection, AnnounceConnection
<1>8. ASSUME NEW c \in Conns, TakeConnection(c)
      PROVE  /\ UNCHANGED <<ready, hs, running>> /\ ~ running
             /\ credentials' = Nothing
  BY <1>8 DEF TakeConnection
<1>9. CASE ReadyTries
  BY <1>5, <1>9 DEF ReadyTries
<1>10. CASE \E c \in Conns : NewConnection(c) \/ RfConnection(c)
  <2>1. PICK c \in Conns : NewConnection(c) \/ RfConnection(c)
    BY <1>10
  <2>2. CASE ConnectionTries(c)
    BY <1>5, <2>2 DEF ConnectionTries
  <2>3. CASE TakeConnection(c)
    BY <1>8, <2>3
  <2>4. CASE NewConnection(c) \/ IgnoreConnection(c) \/ AnnounceConnection(c)
    BY <1>7, <2>4
  <2>5. QED
    BY <2>1, <2>2, <2>3, <2>4 DEF RfConnection
<1>11. CASE RfBus
  BY <1>3, <1>4, <1>9, <1>11 DEF RfBus
<1>12. QED
  BY <1>3, <1>6, <1>10, <1>11 DEF Handshake

(* Every step of the three programs and of their surroundings keeps KeysInv. *)
LEMMA KeysInductive ==
  ASSUME TypeOK, KeysInv, [Next]_vars
  PROVE  KeysInv'
<1> SUFFICES ASSUME ~ Disturbed' PROVE NetworkStays' /\ KeysAreCurrent'
  BY DEF KeysInv
<1>1. ~ Disturbed /\ NetworkStays /\ KeysAreCurrent
  BY DisturbedStays DEF KeysInv
<1>2. CASE UNCHANGED vars
  BY <1>1, <1>2
  DEF NetworkStays, KeysAreCurrent, Up, Running, vars, apVars, runner, dbus,
      topics, helperVars, rfVars, state
<1>3. QED
  BY <1>1, <1>2, ServiceKeys, HelperKeys, HandshakeKeys DEF Next

\* Only the answer to WifiInfoRequest sends the credentials.
LEMMA OnlyInfoRequest ==
  ASSUME TypeOK, [Next]_vars, ~ hs.informed, hs'.informed
  PROVE  hs.pc = "run"
<1>1. CASE InfoRequest
  BY <1>1 DEF InfoRequest, Receives
<1>2. CASE UNCHANGED hs
  BY <1>2
<1>3. CASE TryStart
  BY <1>3 DEF TryStart, NoHandshake
<1>4. CASE RfHandshake
  <2>1. CASE BeginHandshake \/ SendStartRequest \/ HandshakeFails \/ OtherMessage
             \/ ConnectStatus
    <3>1. hs'.informed = hs.informed
      BY <2>1 DEF BeginHandshake, SendStartRequest, HandshakeFails, OtherMessage,
                  ConnectStatus, TypeOK
    <3>2. QED
      BY <3>1, Zenon
  <2>2. CASE Unavailable \/ EndHandshake
    BY <2>2 DEF Unavailable, EndHandshake, NoHandshake
  <2>3. QED
    BY <1>1, <1>4, <2>1, <2>2 DEF RfHandshake
<1>5. QED
  BY <1>2, <1>3, <1>4
  DEF Next, Service, Helper, Handshake, vars, rfVars, RfBus, RfcommStop,
      RfConnection, NewConnection, Listen, SubscribeReady, HostapdReady,
      ReadyTries, IgnoreConnection, TakeConnection, AnnounceConnection,
      ConnectionTries

\* Unless a daemon has died or the modules are being stopped, the key that a
\* phone is sent is that of the network that is up, however many connections and
\* starts came before and whichever of them failed.
THEOREM SentKeyIsCurrentCorrect == Spec => SentKeyIsCurrent
<1>1. Init => KeysInv
  BY InitKeys DEF KeysInv
<1>2. TypeOK /\ KeysInv /\ [Next]_vars => KeysInv'
  BY KeysInductive
<1>3. ASSUME TypeOK, KeysInv, [Next]_vars, ~ hs.informed, hs'.informed
      PROVE  \/ Running /\ hs.key = key
             \/ trouble \cap {"dies", "sigterm"} # {} \/ Stopping
  <2>1. hs.pc = "run"
    BY <1>3, OnlyInfoRequest
  <2>2. QED
    BY <1>3, <2>1
    DEF KeysInv, Disturbed, Stopping, NetworkStays, KeysAreCurrent, Up
<1>4. QED
  BY <1>1, <1>2, <1>3, TypeCorrect, PTL DEF Spec, SentKeyIsCurrent

=============================================================================
