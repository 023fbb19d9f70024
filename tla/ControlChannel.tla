--------------------------- MODULE ControlChannel ---------------------------
(***************************************************************************)
(* v2/modules/oaa_control_channel: main.py and handshake.py.  The module   *)
(* holds the handshake with the phone on channel 0.  All its handlers run  *)
(* in the bus thread; each is an action here that takes the message it     *)
(* handles and appends what it publishes to the queues of the modules that *)
(* listen: tcp_server and channel_manager.                                 *)
(*                                                                         *)
(* A message is a pair: its name and a value (the version of the           *)
(* configuration that a service discovery response is built from, the      *)
(* number of the ClientHello that TLS bytes belong to, otherwise 0).       *)
(***************************************************************************)
EXTENDS Naturals, Sequences

VARIABLES
  state,   \* state of _handshake, "none" when there is no handshake
  config,  \* version of _cfg
  toTcp,   \* what tcp_server has not handled yet
  toCm     \* what channel_manager has not handled yet

ccVars == <<state, config, toTcp, toCm>>

States ==
  {"none", "VERSION_SENT", "TLS_IN_PROGRESS", "AUTH_OK", "WAITING_CHANNELS",
   "CHANNELS_OPENING", "ACTIVE", "SHUTDOWN"}

CCInit ==
  /\ state = "none" /\ config = 1
  /\ toTcp = <<>> /\ toCm = <<>>

Tell(queue, name, value) == queue' = Append(queue, <<name, value>>)

-----------------------------------------------------------------------------
(* main.py                                                                 *)

\* ControlChannelHandshake.__init__() and send_version_request()
FreshHandshake ==
  /\ Tell(toTcp, "VERSION_REQUEST", 0)
  /\ state' = "VERSION_SENT"

\* on_tcp_session_connected(), on_aa_session_restarting(): a fresh handshake,
\* whatever there was.
StartHandshake == FreshHandshake /\ UNCHANGED <<config, toCm>>

\* Fault: channel_manager is not told.
TcpClosedUntold ==
  /\ state' = "none"
  /\ UNCHANGED <<config, toTcp, toCm>>

\* on_tcp_session_closed()
TcpClosed ==
  /\ state' = "none"
  /\ Tell(toCm, "shutdown", 0)
  /\ UNCHANGED <<config, toTcp>>

\* Fault: the session goes on with the old configuration.
ConfigChangedOnly ==
  /\ config' = config + 1
  /\ UNCHANGED <<state, toTcp, toCm>>

\* _on_config_changed(): the handshake is dropped, with aa.session.shutdown
\* if there was one; aa.session.restart goes to both.
ConfigChanged ==
  /\ config' = config + 1
  /\ state' = "none"
  /\ toCm' = toCm \o (IF state = "none" THEN <<>> ELSE <<<<"shutdown", 0>>>>)
                  \o <<<<"restart", 0>>>>
  /\ Tell(toTcp, "restart", 0)

\* on_tls_handshake(): a ClientHello goes to the phone.
TlsHandshake(hello) ==
  /\ IF state = "none" THEN UNCHANGED toTcp
                       ELSE Tell(toTcp, "SSL_HANDSHAKE", hello)
  /\ UNCHANGED <<state, config, toCm>>

\* on_tls_complete() of the handshake: in any state.
TlsComplete == state' = "AUTH_OK" /\ Tell(toTcp, "AUTH_COMPLETE", 0)

\* on_tls_handshake_completed()
TlsCompleted ==
  /\ IF state = "none" THEN UNCHANGED <<state, toTcp>> ELSE TlsComplete
  /\ UNCHANGED <<config, toCm>>

\* on_channels_ready() of the handshake: answers the phone's request with what
\* comes along, if it still waits.
AnswerDiscovery(sdr) ==
  IF state = "WAITING_CHANNELS"
    THEN /\ state' = "CHANNELS_OPENING"
         /\ Tell(toTcp, "SERVICE_DISCOVERY_RES", sdr)
    ELSE UNCHANGED <<state, toTcp>>

\* on_channel_ready()
ChannelsReady(sdr) ==
  /\ IF state = "none" THEN UNCHANGED <<state, toTcp>> ELSE AnswerDiscovery(sdr)
  /\ UNCHANGED <<config, toCm>>

\* _on_session_shutdown()
SessionShutdown == Tell(toCm, "shutdown", 0)

-----------------------------------------------------------------------------
(* handshake.py: the messages of the phone on channel 0.                   *)

\* _on_version_response()
VersionResponse ==
  /\ state' = "TLS_IN_PROGRESS"
  /\ Tell(toTcp, "start_tls", 0)
  /\ UNCHANGED <<config, toCm>>

\* _on_ssl_handshake()
SslHandshake(hello) ==
  /\ Tell(toTcp, "feed_input", hello)
  /\ UNCHANGED <<state, config, toCm>>

\* _on_auth_complete(): in any state.
AuthComplete == state' = "AUTH_OK" /\ UNCHANGED <<config, toTcp, toCm>>

\* Fault: the phone is answered before the channel modules are up.
ServiceDiscoveryAtOnce ==
  /\ state' = "CHANNELS_OPENING"
  /\ Tell(toCm, "open_channels", config)
  /\ Tell(toTcp, "SERVICE_DISCOVERY_RES", config)
  /\ UNCHANGED config

\* _on_service_discovery_request()
ServiceDiscovery ==
  /\ state' = "WAITING_CHANNELS"
  /\ Tell(toCm, "open_channels", config)
  /\ UNCHANGED <<config, toTcp>>

\* _on_channel_open_request()
ChannelOpen ==
  /\ Tell(toTcp, "CHANNEL_OPEN_RES", 0)
  /\ UNCHANGED <<state, config, toCm>>

\* _on_ping_request(): the session is active from now on, whatever the state.
Ping ==
  /\ state' = "ACTIVE"
  /\ Tell(toTcp, "PING_RESPONSE", 0)
  /\ UNCHANGED <<config, toCm>>

\* _on_audio_focus_request()
AudioFocus ==
  /\ IF state = "CHANNELS_OPENING"
       THEN state' = "ACTIVE"
       ELSE UNCHANGED state
  /\ Tell(toTcp, "AUDIO_FOCUS_RESPONSE", 0)
  /\ UNCHANGED <<config, toCm>>

\* _on_navigation_focus_request(): the projection always has it.
NavigationFocus ==
  /\ Tell(toTcp, "NAV_FOCUS_RESPONSE", 0)
  /\ UNCHANGED <<state, config, toCm>>

\* _on_voice_session_request(), _on_battery_status_notification()
OnlyNoted == UNCHANGED ccVars

\* _on_shutdown_request()
ShutdownRequest ==
  /\ state' = "SHUTDOWN"
  /\ Tell(toTcp, "SHUTDOWN_RESPONSE", 0)
  /\ SessionShutdown
  /\ UNCHANGED config

\* on_message(): ignores what it has no handler for, SHUTDOWN_RESPONSE among
\* others.
OnMessage(m) ==
  \/ m[1] = "VERSION_RESPONSE" /\ VersionResponse
  \/ m[1] = "SSL_HANDSHAKE" /\ SslHandshake(m[2])
  \/ m[1] = "AUTH_COMPLETE" /\ AuthComplete
  \/ m[1] = "SERVICE_DISCOVERY_REQ" /\ ServiceDiscovery
  \/ m[1] = "CHANNEL_OPEN_REQ" /\ ChannelOpen
  \/ m[1] = "PING_REQUEST" /\ Ping
  \/ m[1] = "AUDIO_FOCUS_REQUEST" /\ AudioFocus
  \/ m[1] = "NAV_FOCUS_REQUEST" /\ NavigationFocus
  \/ m[1] \in {"VOICE_SESSION_REQUEST", "BATTERY_STATUS"} /\ OnlyNoted
  \/ m[1] = "SHUTDOWN_REQUEST" /\ ShutdownRequest
  \/ m[1] = "SHUTDOWN_RESPONSE" /\ UNCHANGED ccVars

\* on_frame_ch0() of main.py: dropped without a handshake.
FrameCh0(m) == IF state = "none" THEN UNCHANGED ccVars ELSE OnMessage(m)

\* What its own variables hold.
CCTypeOK == state \in States /\ config \in Nat \ {0}
=============================================================================
