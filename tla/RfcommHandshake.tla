-------------------------- MODULE RfcommHandshake --------------------------
(***************************************************************************)
(* v2/modules/rfcomm_handshake: a phone that opens the RFCOMM channel is   *)
(* told, over that channel, which Wi-Fi network to join.                   *)
(*                                                                         *)
(* Each connection is reported in a thread of its own; hostapd.ready is    *)
(* handled in the bus thread; a handshake runs in a thread of its own.     *)
(* _state_lock makes the regions it guards steps.  The write of            *)
(* _credentials in on_hostapd_ready() is not guarded.                      *)
(***************************************************************************)
EXTENDS WifiTopics, FiniteSets

CONSTANTS
  MaxConns,    \* bound on the RFCOMM connections
  MaxMessages  \* _MAX_MESSAGES of a handshake

ASSUME RfcommAssumption ==
  MaxConns \in Nat \ {0} /\ MaxMessages \in Nat \ {0}

Conns == 1 .. MaxConns
NoConn == 0
Nothing == 0  \* credentials that are None

VARIABLES
  cpc,         \* where the thread of a connection is
  open,        \* connections whose socket is open on this side
  device,      \* _device_address: the connection it was set for
  sock,        \* _pending_sock
  credentials, \* _credentials
  running,     \* _handshake_running
  rpc,         \* where the bus thread is
  listener,    \* of the two that connections need: "glib", the main loop runs,
               \* and "profile", BlueZ knows the profile
  hs           \* the handshake thread

\* A handshake: where it is, its socket and credentials, whether the credentials
\* have been sent, and how many messages it still takes.
NoHandshake ==
  [pc |-> "none", conn |-> NoConn, key |-> Nothing, informed |-> FALSE,
   left |-> 0]

state == <<device, sock, credentials, running>>
rfVars == <<cpc, open, state, rpc, listener, hs>>

RfInit ==
  /\ cpc = [c \in Conns |-> "none"] /\ open = {}
  /\ device = NoConn /\ sock = NoConn
  /\ credentials = Nothing /\ running = FALSE
  /\ rpc = "boot" /\ listener = {}
  /\ hs = NoHandshake

Thread(c, where) == cpc' = [cpc EXCEPT ![c] = where]

-----------------------------------------------------------------------------
(* Boot: the profile is registered before hostapd.ready is subscribed to.  *)

\* _start_glib_mainloop(): that it fails is only logged.
StartGlib == {{}, {"glib"}}

\* DbusRfcommListener.start(): when it fails rfcomm.handshake.failed is
\* published, and the boot goes on.
StartListener == {{}, {"profile"}}

Listen ==
  /\ rpc = "boot"
  /\ rpc' = "listening"
  /\ \E glib \in StartGlib, profile \in StartListener :
       listener' = glib \cup profile
  /\ UNCHANGED <<cpc, open, state, hs, topics>>

SubscribeReady ==
  /\ rpc = "listening"
  /\ rpc' = "idle"
  /\ Subscribe("ready")
  /\ UNCHANGED <<cpc, open, state, listener, hs, connected,
                 ready, notices>>

-----------------------------------------------------------------------------
(* Connections and credentials.                                            *)

\* NewConnection() of the profile.
NewConnection(c) ==
  /\ listener = {"glib", "profile"}
  /\ cpc[c] = "none" /\ \A b \in Conns : b < c => cpc[b] # "none"
  /\ Thread(c, "connected")
  /\ open' = open \cup {c}
  /\ UNCHANGED <<state, rpc, listener, hs, topics>>

\* _close_pending_sock_locked()
ClosePending == open' = open \ {sock} /\ sock' = NoConn

\* _on_rfcomm_connected(), under the lock.
IgnoreConnection(c) ==
  /\ cpc[c] = "connected" /\ running
  /\ open' = open \ {c}
  /\ Thread(c, "done")
  /\ UNCHANGED <<state, rpc, listener, hs, topics>>

\* Fault: a connection is taken while a handshake runs.
TakeConnectionAnyway(c) ==
  /\ cpc[c] = "connected"
  /\ open' = open \ {sock}
  /\ sock' = c /\ device' = c /\ credentials' = Nothing
  /\ Thread(c, "announce")
  /\ UNCHANGED <<running, rpc, listener, hs, topics>>

TakeConnection(c) ==
  /\ cpc[c] = "connected" /\ ~ running
  /\ open' = open \ {sock}
  /\ sock' = c /\ device' = c /\ credentials' = Nothing
  /\ Thread(c, "announce")
  /\ UNCHANGED <<running, rpc, listener, hs, topics>>

AnnounceConnection(c) ==
  /\ cpc[c] = "announce"
  /\ PublishConnected(c)
  /\ Thread(c, "try")
  /\ UNCHANGED <<open, state, rpc, listener, hs, ready, subscribed>>

\* Fault: a handshake does not wait for the credentials.
CanStartEarly ==
  /\ ~ running
  /\ device # NoConn /\ sock # NoConn

\* _try_start_handshake()
CanStart ==
  /\ ~ running
  /\ device # NoConn /\ credentials # Nothing /\ sock # NoConn

TryStart ==
  IF CanStart
    THEN /\ running' = TRUE
         /\ hs' = [NoHandshake EXCEPT !.pc = "begin"]
    ELSE UNCHANGED <<running, hs>>

ConnectionTries(c) ==
  /\ cpc[c] = "try"
  /\ TryStart
  /\ Thread(c, "done")
  /\ UNCHANGED <<open, device, sock, credentials, rpc, listener, topics>>

\* on_hostapd_ready(): the write, then the attempt.
HostapdReady ==
  /\ rpc = "idle" /\ ready # <<>>
  /\ credentials' = Head(ready)
  /\ ready' = Tail(ready)
  /\ rpc' = "try"
  /\ UNCHANGED <<cpc, open, device, sock, running, listener, hs,
                 connected, subscribed, notices>>

ReadyTries ==
  /\ rpc = "try"
  /\ TryStart
  /\ rpc' = "idle"
  /\ UNCHANGED <<cpc, open, device, sock, credentials, listener, topics>>

-----------------------------------------------------------------------------
(* _run_handshake() and RfcommHandshake.run().                             *)

\* The device, the socket and the credentials are read under the lock.
BeginHandshake ==
  /\ hs.pc = "begin"
  /\ hs' = [hs EXCEPT !.pc = IF sock = NoConn THEN "unavailable" ELSE "request",
                      !.conn = sock, !.key = credentials,
                      !.left = MaxMessages]
  /\ UNCHANGED <<cpc, open, state, rpc, listener, topics>>

\* "RFCOMM socket unavailable"
Unavailable ==
  /\ hs.pc = "unavailable"
  /\ running' = FALSE /\ hs' = NoHandshake
  /\ UNCHANGED <<cpc, open, device, sock, credentials, rpc, listener, topics>>

\* send_packet() can succeed: the socket is open on this side.
Sends == hs.conn \in open

\* _send_start_request()
SendStartRequest ==
  /\ hs.pc = "request" /\ Sends
  /\ hs' = [hs EXCEPT !.pc = "run"]
  /\ UNCHANGED <<cpc, open, state, rpc, listener, topics>>

\* The socket has been closed, here or by the phone, or nothing came in time, or
\* _MAX_MESSAGES have come: rfcomm.handshake.failed.
HandshakeFails ==
  /\ hs.pc \in {"request", "run"}
  /\ hs' = [hs EXCEPT !.pc = "failed"]
  /\ UNCHANGED <<cpc, open, state, rpc, listener, topics>>

Receives == hs.pc = "run" /\ hs.conn \in open /\ hs.left > 0

\* WifiStartResponse, or a message that is not known.
OtherMessage ==
  /\ Receives
  /\ hs' = [hs EXCEPT !.left = @ - 1]
  /\ UNCHANGED <<cpc, open, state, rpc, listener, topics>>

\* WifiInfoRequest: the credentials are sent.
InfoRequest ==
  /\ Receives /\ Sends
  /\ hs' = [hs EXCEPT !.left = @ - 1, !.informed = TRUE]
  /\ UNCHANGED <<cpc, open, state, rpc, listener, topics>>

\* WifiConnectionStatus: done, whatever the status and whether or not the
\* credentials have been sent: rfcomm.handshake.completed.
ConnectStatus ==
  /\ Receives
  /\ hs' = [hs EXCEPT !.pc = "completed"]
  /\ UNCHANGED <<cpc, open, state, rpc, listener, topics>>

\* Whatever socket is pending now is closed.
EndHandshake ==
  /\ hs.pc \in {"completed", "failed"}
  /\ ClosePending
  /\ running' = FALSE /\ hs' = NoHandshake
  /\ UNCHANGED <<cpc, device, credentials, rpc, listener, topics>>

-----------------------------------------------------------------------------
\* DbusRfcommListener.stop(), _stop_glib_mainloop()
StopListener == listener' = {}

\* on_system_stop()
RfcommStop ==
  /\ rpc = "idle"
  /\ rpc' = "off"
  /\ ClosePending
  /\ StopListener
  /\ UNCHANGED <<cpc, device, credentials, running, hs,
                 topics>>

RfConnection(c) ==
  IgnoreConnection(c) \/ TakeConnection(c) \/ AnnounceConnection(c)
  \/ ConnectionTries(c)

RfBus == Listen \/ SubscribeReady \/ HostapdReady \/ ReadyTries

RfHandshake ==
  \/ BeginHandshake \/ Unavailable \/ SendStartRequest \/ HandshakeFails
  \/ OtherMessage \/ InfoRequest \/ ConnectStatus \/ EndHandshake
=============================================================================
