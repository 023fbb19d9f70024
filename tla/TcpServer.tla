----------------------------- MODULE TcpServer -----------------------------
(***************************************************************************)
(* The lifecycle of v2/modules/tcp_server/main.py: which thread creates,   *)
(* uses and drops the globals _server, _relay, _cryptor and _assembler.    *)
(*                                                                         *)
(* The bus thread runs the handlers one after the other.  Each completed   *)
(* RFCOMM handshake starts a thread in _start_server(), which binds,       *)
(* accepts, relays the frames of the connection until it ends and then     *)
(* runs _teardown().  Thread i serves connection i.  on_system_stop() runs *)
(* _teardown() in the bus thread.                                          *)
(*                                                                         *)
(* A global is read and written without a lock, so each test, use and      *)
(* assignment of one is a step.  The bytes on the wire and the frame codec *)
(* are in FrameCodec; here a connection is open or not, and of the frames  *)
(* the bus asks to send only the first one of a connection matters:        *)
(* VERSION_REQUEST, sent when tcp.session.connected arrives.               *)
(***************************************************************************)
EXTENDS Naturals, Sequences, FiniteSets

CONSTANTS
  MaxConns,     \* bound on the _start_server() threads
  MaxRestarted, \* bound on aa.session.restart
  MaxStopped,   \* bound on the threads of a module that is stopped
  Events        \* what may happen besides the plain course of a session

Conns == 1 .. MaxConns

EventKinds ==
  { "bind fails",     \* the port cannot be bound
    "no phone",       \* accept() times out or fails
    "phone closes",   \* the connection ends
    "closes awaited", \* it ends while SHUTDOWN_RESPONSE is awaited
    "stop" }          \* system.stop

ASSUME ConnsAssumption ==
  MaxConns \in Nat \ {0} /\ MaxRestarted \in Nat /\ MaxStopped \in Nat
ASSUME EventsAssumption == Events \subseteq EventKinds

BusThread == 0  \* as an actor of _teardown()
NoConn == 0     \* a global that is None

Resources == {"relay", "server", "cryptor", "assembler"}

\* The globals, in the order in which _teardown() drops them.
DropOrder == <<"relay", "server", "cryptor", "assembler">>

VARIABLES
  global,    \* of each global: None or the connection it was made for
  starting,  \* _server_starting
  secure,    \* _cryptor.is_active()
  pending,   \* _restart_pending
  ack,       \* _shutdown_ack_event
  wpc,       \* where the _start_server() thread of a connection is
  tear,      \* of each actor: how far its _teardown() is
  last,      \* _server_thread
  bpc,       \* where the bus thread is
  listening, \* connections whose server socket listens
  open,      \* connections that are up
  answered,  \* SHUTDOWN_RESPONSE waits in the queue of the bus thread
  first,     \* VERSION_REQUEST: "none", "queued", "sent" or "dropped"
  announced, \* connections of tcp.session.connected
  closed,    \* connections of tcp.session.closed
  restarted, \* sessions restarted
  stopAsked, \* system.stop has been received
  overlaid   \* history: 1 once a handshake has completed while a thread was in
             \* its _teardown(), 2 once another one has after that

globals == <<global, starting, secure>>
restart == <<pending, ack, answered, restarted>>
threads == <<wpc, tear, last>>
network == <<listening, open>>
seen    == <<first, announced, closed>>

serverVars ==
  <<globals, restart, threads, bpc, network, seen, stopAsked, overlaid>>

NoTear == <<0, "none">>

ServerInit ==
  /\ global = [r \in Resources |-> NoConn]
  /\ starting = FALSE /\ secure = FALSE
  /\ pending = FALSE /\ ack = FALSE /\ answered = FALSE /\ restarted = 0
  /\ wpc = [i \in Conns |-> "none"]
  /\ tear = [a \in Conns \cup {BusThread} |-> NoTear]
  /\ last = NoConn
  /\ bpc = "idle"
  /\ listening = {} /\ open = {}
  /\ first = [i \in Conns |-> "none"]
  /\ announced = {} /\ closed = {}
  /\ stopAsked = FALSE /\ overlaid = 0

Goto(i, where) == wpc' = [wpc EXCEPT ![i] = where]

-----------------------------------------------------------------------------
(* _teardown(), run by the thread of a connection or by the bus thread.    *)

\* Each global is tested, used and dropped in turn; the last step resets
\* _server_starting.
TearNext(a, k) ==
  tear' = [tear EXCEPT ![a] =
             IF k < Len(DropOrder) THEN <<k + 1, "test">> ELSE <<0, "flag">>]

\* if _x:
TearTest(a) ==
  LET k == tear[a][1] IN
  /\ tear[a][2] = "test"
  /\ IF global[DropOrder[k]] = NoConn
       THEN TearNext(a, k)
       ELSE tear' = [tear EXCEPT ![a] = <<k, "use">>]
  /\ UNCHANGED <<globals, network>>

\* _x.stop(), deinit() or reset() of whatever _x is now.
TearUse(a) ==
  LET k == tear[a][1]
      r == DropOrder[k]
  IN
  /\ tear[a][2] = "use" /\ global[r] # NoConn
  /\ CASE r = "relay" ->
            open' = open \ {global[r]} /\ UNCHANGED <<globals, listening>>
       [] r = "server" ->
            listening' = listening \ {global[r]} /\ UNCHANGED <<globals, open>>
       [] r = "cryptor" ->  \* dropped under the same lock
            /\ secure' = FALSE /\ global' = [global EXCEPT ![r] = NoConn]
            /\ UNCHANGED <<starting, network>>
       [] r = "assembler" ->
            UNCHANGED <<globals, network>>
  /\ IF r = "cryptor" THEN TearNext(a, k)
                      ELSE tear' = [tear EXCEPT ![a] = <<k, "drop">>]

\* _x = None
TearDrop(a) ==
  LET k == tear[a][1] IN
  /\ tear[a][2] = "drop"
  /\ global' = [global EXCEPT ![DropOrder[k]] = NoConn]
  /\ TearNext(a, k)
  /\ UNCHANGED <<starting, secure, network>>

TearFlag(a) ==
  /\ tear[a][2] = "flag"
  /\ starting' = FALSE
  /\ tear' = [tear EXCEPT ![a] = NoTear]
  /\ UNCHANGED <<global, secure, network>>

TearStep(a) == TearTest(a) \/ TearUse(a) \/ TearDrop(a)

\* Another actor has dropped _x since the test: AttributeError.
TearFails(a) ==
  /\ tear[a][2] = "use" /\ global[DropOrder[tear[a][1]]] = NoConn
  /\ tear' = [tear EXCEPT ![a] = NoTear]
  /\ UNCHANGED <<globals, network>>

BeginTear(a) == tear' = [tear EXCEPT ![a] = <<1, "test">>]

-----------------------------------------------------------------------------
(* _start_server() and the relay it runs.                                  *)

\* _server = TCPServer()
Begin(i) ==
  /\ wpc[i] = "begin"
  /\ global' = [global EXCEPT !.server = i]
  /\ Goto(i, "bind")
  /\ UNCHANGED <<starting, secure, restart, tear, last, bpc, network, seen,
                 stopAsked, overlaid>>

\* server.start(): a port in use cannot be bound.
Bind(i) ==
  /\ wpc[i] = "bind"
  /\ \/ /\ listening = {}
        /\ listening' = {i}
        /\ starting' = FALSE
        /\ Goto(i, "accept")
        /\ UNCHANGED global
     \/ /\ listening # {} \/ "bind fails" \in Events
        /\ IF global.server = i
             THEN global' = [global EXCEPT !.server = NoConn]
             ELSE UNCHANGED global
        /\ starting' = FALSE
        /\ Goto(i, "done")
        /\ UNCHANGED listening
  /\ UNCHANGED <<secure, restart, tear, last, bpc, open, seen,
                 stopAsked, overlaid>>

\* A thread that runs _teardown() is done with it before a phone has gone
\* through a TCP handshake and before the three seconds of a restart are over.
Unwinding == \E i \in Conns : wpc[i] \in {"closed", "teardown"}

\* server.accept(): the phone connects, or it does not.
Accept(i) ==
  /\ wpc[i] = "accept"
  /\ \/ /\ i \in listening /\ ~ Unwinding
        /\ open' = open \cup {i}
        /\ Goto(i, "connected")
        /\ UNCHANGED tear
     \/ /\ i \notin listening \/ "no phone" \in Events
        /\ Goto(i, "teardown") /\ BeginTear(i)
        /\ UNCHANGED open
  /\ UNCHANGED <<globals, restart, last, bpc, listening, seen,
                 stopAsked, overlaid>>

\* tcp.session.connected: oaa_control_channel answers with VERSION_REQUEST.
Announce(i) ==
  /\ wpc[i] = "connected"
  /\ announced' = announced \cup {i}
  /\ first' = [first EXCEPT ![i] = "queued"]
  /\ Goto(i, "assembler")
  /\ UNCHANGED <<globals, restart, tear, last, bpc, network, closed,
                 stopAsked, overlaid>>

MakeAssembler(i) ==
  /\ wpc[i] = "assembler"
  /\ global' = [global EXCEPT !.assembler = i]
  /\ Goto(i, "relay")
  /\ UNCHANGED <<starting, secure, restart, tear, last, bpc, network, seen,
                 stopAsked, overlaid>>

MakeRelay(i) ==
  /\ wpc[i] = "relay"
  /\ global' = [global EXCEPT !.relay = i]
  /\ Goto(i, "start")
  /\ UNCHANGED <<starting, secure, restart, tear, last, bpc, network, seen,
                 stopAsked, overlaid>>

\* _relay.start(): None if the bus thread has torn down since: AttributeError
\* ends the thread.
StartRelay(i) ==
  /\ wpc[i] = "start"
  /\ Goto(i, IF global.relay = NoConn THEN "done" ELSE "read")
  /\ UNCHANGED <<globals, restart, tear, last, bpc, network, seen,
                 stopAsked, overlaid>>

\* The connection ends, on_closed_cb: ignored while a restart is pending.
RelayEnds(i) ==
  /\ wpc[i] = "read" /\ i \notin open
  /\ Goto(i, IF pending THEN "done" ELSE "closed")
  /\ UNCHANGED <<globals, restart, tear, last, bpc, network, seen,
                 stopAsked, overlaid>>

\* Fault: a connection that ends is torn down without a word.
SessionClosedUnsaid(i) ==
  /\ wpc[i] = "closed"
  /\ Goto(i, "teardown") /\ BeginTear(i)
  /\ UNCHANGED <<globals, restart, last, bpc, network, seen, stopAsked, overlaid>>

\* tcp.session.closed; on a closed bus publish() raises and ends the thread.
SessionClosed(i) ==
  /\ wpc[i] = "closed"
  /\ IF bpc = "stopped"
       THEN Goto(i, "done") /\ UNCHANGED <<tear, closed>>
       ELSE /\ closed' = closed \cup {i}
            /\ Goto(i, "teardown") /\ BeginTear(i)
  /\ UNCHANGED <<globals, restart, last, bpc, network, first, announced,
                 stopAsked, overlaid>>

Teardown(i) ==
  /\ wpc[i] = "teardown"
  /\ \/ TearStep(i) /\ UNCHANGED wpc
     \/ (TearFlag(i) \/ TearFails(i)) /\ Goto(i, "done")
  /\ UNCHANGED <<restart, last, bpc, seen, stopAsked, overlaid>>

Thread(i) ==
  \/ Begin(i) \/ Bind(i) \/ Accept(i) \/ Announce(i)
  \/ MakeAssembler(i) \/ MakeRelay(i) \/ StartRelay(i)
  \/ RelayEnds(i) \/ SessionClosed(i) \/ Teardown(i)

\* The phone or the network ends the connection.
PhoneCloses(i) ==
  /\ i \in open
  /\ IF bpc = "wait" THEN "closes awaited" \in Events
                     ELSE "phone closes" \in Events
  /\ open' = open \ {i}
  /\ UNCHANGED <<globals, restart, threads, bpc, listening, seen,
                 stopAsked, overlaid>>

-----------------------------------------------------------------------------
(* The handlers of the bus thread.                                         *)

Overlay ==
  overlaid' = IF overlaid > 0 THEN 2
              ELSE IF \E i \in Conns : wpc[i] = "teardown" THEN 1 ELSE 0

\* Fault: the state of the server is not looked at.
HandshakeCompletedAnyway(i) ==
  /\ bpc = "idle"
  /\ wpc[i] = "none" /\ \A j \in 1 .. i - 1 : wpc[j] # "none"
  /\ stopAsked => i <= MaxStopped
  /\ starting' = TRUE
  /\ last' = i
  /\ Goto(i, "begin")
  /\ Overlay
  /\ UNCHANGED <<global, secure, restart, tear, bpc, network, seen, stopAsked>>

\* on_handshake_completed(): ignored while a server is starting or active.
HandshakeCompleted(i) ==
  /\ bpc = "idle"
  /\ wpc[i] = "none" /\ \A j \in 1 .. i - 1 : wpc[j] # "none"
  /\ stopAsked => i <= MaxStopped
  /\ ~ starting /\ global.server = NoConn
  /\ starting' = TRUE
  /\ last' = i
  /\ Goto(i, "begin")
  /\ Overlay
  /\ UNCHANGED <<global, secure, restart, tear, bpc, network, seen, stopAsked>>

\* on_frame_send() of the VERSION_REQUEST of a connection: it is dropped when
\* there is no relay, or its socket is closed.
SendFirst(i) ==
  /\ bpc = "idle" /\ first[i] = "queued"
  /\ first' = [first EXCEPT ![i] = IF global.relay \in open THEN "sent"
                                                            ELSE "dropped"]
  /\ UNCHANGED <<globals, restart, threads, bpc, network, announced, closed,
                 stopAsked, overlaid>>

\* on_handshake_start_tls(): VERSION_RESPONSE has arrived on a connection.
StartTls ==
  /\ bpc = "idle"
  /\ \E i \in announced :
       first[i] = "sent" /\ global' = [global EXCEPT !.cryptor = i]
  /\ secure' = FALSE
  /\ UNCHANGED <<starting, restart, threads, bpc, network, seen,
                 stopAsked, overlaid>>

\* on_handshake_feed_input() that completes the TLS handshake; the rounds
\* before it change nothing here.
FeedInput ==
  /\ bpc = "idle" /\ global.cryptor # NoConn /\ global.cryptor \in open
  /\ secure' = TRUE
  /\ UNCHANGED <<global, starting, restart, threads, bpc, network, first,
                 announced, closed, stopAsked, overlaid>>

\* on_ch0_frame() of a SHUTDOWN_RESPONSE.
Ch0Frame ==
  /\ bpc = "idle" /\ answered
  /\ answered' = FALSE
  /\ ack' = (ack \/ pending)
  /\ UNCHANGED <<globals, pending, restarted, threads, bpc, network, seen,
                 stopAsked, overlaid>>

\* on_aa_session_restart() up to the SHUTDOWN_REQUEST.
Restart ==
  /\ bpc = "idle" /\ restarted < MaxRestarted /\ global.relay # NoConn
  /\ restarted' = restarted + 1
  /\ pending' = TRUE /\ ack' = FALSE
  /\ bpc' = "request"
  /\ UNCHANGED <<globals, answered, threads, network, seen, stopAsked, overlaid>>

\* Sending fails when _relay is None or its socket is closed; a socket closed
\* by the peer alone may still take the frame.
SendShutdownRequest ==
  /\ bpc = "request"
  /\ \/ global.relay # NoConn /\ bpc' = "wait" /\ UNCHANGED pending
     \/ global.relay \notin open /\ bpc' = "idle" /\ pending' = FALSE
  /\ UNCHANGED <<globals, ack, answered, restarted, threads, network, seen,
                 stopAsked, overlaid>>

\* The phone answers; the relay thread publishes the answer on aa.frame.ch0.
PhoneAnswers ==
  /\ bpc = "wait" /\ ~ answered
  /\ \E i \in open : wpc[i] = "read"
  /\ answered' = TRUE
  /\ UNCHANGED <<globals, pending, ack, restarted, threads, bpc, network, seen,
                 stopAsked, overlaid>>

\* _shutdown_ack_event.wait() returns, acknowledged or after three seconds.
WaitEnds ==
  /\ bpc = "wait"
  /\ ~ ack => ~ Unwinding
  /\ bpc' = "cryptor?"
  /\ UNCHANGED <<globals, restart, threads, network, seen, stopAsked, overlaid>>

\* A handler that raises leaves the bus thread to its next message, and
\* _restart_pending as it is.
ResetCryptor ==
  \/ /\ bpc = "cryptor?"
     /\ bpc' = IF global.cryptor = NoConn THEN "assembler?" ELSE "deinit"
     /\ UNCHANGED secure
  \/ /\ bpc = "deinit"
     /\ bpc' = IF global.cryptor = NoConn THEN "idle" ELSE "assembler?"
     /\ secure' = FALSE

ResetFrames ==
  /\ \/ /\ bpc = "assembler?"
        /\ bpc' = IF global.assembler = NoConn THEN "restarting" ELSE "reset"
     \/ /\ bpc = "reset"
        /\ bpc' = IF global.assembler = NoConn THEN "idle" ELSE "restarting"
  /\ UNCHANGED secure

ResetSession ==
  /\ ResetCryptor \/ ResetFrames
  /\ UNCHANGED <<global, starting, restart, threads, network, seen,
                 stopAsked, overlaid>>

\* Fault: the restart stays pending.
RestartingStillPending ==
  /\ bpc = "restarting"
  /\ bpc' = "idle"
  /\ UNCHANGED <<globals, restart, threads, network, seen, stopAsked, overlaid>>

\* aa.session.restarting: oaa_control_channel sends VERSION_REQUEST again.
Restarting ==
  /\ bpc = "restarting"
  /\ pending' = FALSE
  /\ bpc' = "idle"
  /\ UNCHANGED <<globals, ack, answered, restarted, threads, network, seen,
                 stopAsked, overlaid>>

\* on_system_stop()
SystemStop ==
  /\ bpc = "idle" /\ "stop" \in Events /\ ~ stopAsked
  /\ \A i \in Conns : wpc[i] # "none" => i <= MaxStopped
  /\ stopAsked' = TRUE
  /\ bpc' = "teardown" /\ BeginTear(BusThread)
  /\ UNCHANGED <<globals, restart, wpc, last, network, seen, overlaid>>

StopTeardown ==
  /\ bpc = "teardown"
  /\ \/ TearStep(BusThread) /\ UNCHANGED bpc
     \/ TearFlag(BusThread) /\ bpc' = "join"
     \/ TearFails(BusThread) /\ bpc' = "idle"
  /\ UNCHANGED <<restart, wpc, last, seen, stopAsked, overlaid>>

\* _server_thread.join(timeout=3): it times out only on a thread that blocks.
StopJoin ==
  /\ bpc = "join"
  /\ last # NoConn => \/ wpc[last] \in {"done", "accept"}
                      \/ wpc[last] = "read" /\ last \in open
  /\ bpc' = "stopped"
  /\ UNCHANGED <<globals, restart, threads, network, seen, stopAsked, overlaid>>

BusStep ==
  \/ SendShutdownRequest \/ WaitEnds \/ ResetSession
  \/ Restarting \/ StopTeardown \/ StopJoin

Bus ==
  \/ \E i \in Conns : HandshakeCompleted(i) \/ SendFirst(i)
  \/ StartTls \/ FeedInput \/ Ch0Frame
  \/ Restart \/ SystemStop \/ BusStep

ServerNext ==
  \/ \E i \in Conns : Thread(i) \/ PhoneCloses(i)
  \/ Bus \/ PhoneAnswers

ServerSpec == ServerInit /\ [][ServerNext]_serverVars

\* Every thread goes on, accept() returns in the end, a handler that has begun
\* completes and an answer that waits for the bus thread is handled.
FairServerSpec ==
  /\ ServerSpec
  /\ \A i \in Conns : WF_serverVars(Thread(i))
  /\ WF_serverVars(BusStep) /\ WF_serverVars(Ch0Frame)

-----------------------------------------------------------------------------
(* Properties.                                                             *)

ThreadStates ==
  {"none", "begin", "bind", "accept", "connected", "assembler", "relay",
   "start", "read", "closed", "teardown", "done"}

BusStates ==
  {"idle", "request", "wait", "cryptor?", "deinit", "assembler?", "reset",
   "restarting", "teardown", "join", "stopped"}

\* _cryptor is dropped in the step that uses it.
TearStates ==
  {NoTear, <<0, "flag">>, <<1, "drop">>, <<2, "drop">>, <<4, "drop">>}
    \cup ((1 .. 4) \X {"test", "use"})

\* What the variables hold.
ServerTypeOK ==
  /\ global \in [Resources -> Conns \cup {NoConn}]
  /\ starting \in BOOLEAN /\ secure \in BOOLEAN
  /\ pending \in BOOLEAN /\ ack \in BOOLEAN /\ answered \in BOOLEAN
  /\ restarted \in 0 .. MaxRestarted
  /\ wpc \in [Conns -> ThreadStates]
  /\ tear \in [Conns \cup {BusThread} -> TearStates]
  /\ last \in Conns \cup {NoConn}
  /\ bpc \in BusStates
  /\ listening \subseteq Conns /\ open \subseteq Conns
  /\ first \in [Conns -> {"none", "queued", "sent", "dropped"}]
  /\ announced \subseteq Conns /\ closed \subseteq Conns
  /\ stopAsked \in BOOLEAN /\ overlaid \in 0 .. 2
  /\ secure => global.cryptor # NoConn

Gone(i) == wpc[i] \in {"none", "done"}

Serving(i) ==
  wpc[i] \in {"begin", "bind", "accept", "connected", "assembler", "relay",
             "start", "read"}

\* "Accept exactly one plain TCP connection at a time" (server.py), and a
\* second handshake is a duplicate to ignore (on_handshake_completed): no two
\* threads bind, accept or relay at the same time.  The exception is what a
\* handshake in the middle of a _teardown() leads to: the end of that _teardown()
\* takes away what the new server has set, and the handshake after it is let in
\* beside that server.
OneServer ==
  overlaid < 2 => \A i, j \in Conns : Serving(i) /\ Serving(j) => i = j

\* "On socket close -> publishes tcp.session.closed" (step 9 of main.py), as long
\* as the session is not restarted and the module not stopped, whoever closes the
\* connection and whatever the servers before it have come to.
ClosedUnlessRestarted ==
  \A i \in Conns :
    i \in announced /\ i \notin open ~>
      i \in closed \/ restarted > 0 \/ stopAsked

\* A restart that is begun is completed, or given up because the connection
\* could not take the request.
RestartCompletes == pending ~> ~ pending
=============================================================================
