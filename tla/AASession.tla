------------------------------ MODULE AASession ------------------------------
(***************************************************************************)
(* An Android Auto session across its processes: the phone, tcp_server,    *)
(* oaa_control_channel (module ControlChannel) and channel_manager.        *)
(*                                                                         *)
(* The processes talk through the ZeroMQ bus.  What one publisher sends to *)
(* one subscriber arrives in order; messages of different publishers are   *)
(* handled in any order.  Each pair of processes has a queue, and so have  *)
(* the two directions of the TCP connection.                               *)
(*                                                                         *)
(* tcp_server and channel_manager are reduced to what the others see of    *)
(* them; modules TcpServer, FrameCodec and ChannelManager have the detail. *)
(* A restart keeps the bus thread of tcp_server busy until its wait times  *)
(* out, whether or not the phone answers (TcpServer).                      *)
(*                                                                         *)
(* What the phone says after the TLS handshake is encrypted.  decrypt() as *)
(* it is returns nothing (FrameCodec, run frame_codec_f_decrypt), so that  *)
(* none of it gets past tcp_server.  The sessions are modelled both with   *)
(* decrypt() as it is and with the one that its unit test expects.         *)
(***************************************************************************)
EXTENDS ControlChannel

CONSTANTS
  MaxConns,   \* bound on the connections of the phone
  MaxChanges, \* bound on the configuration changes
  MaxPings,   \* bound on the pings of the phone
  Decrypts,   \* whether decrypt() returns what was encrypted: TRUE as its test
              \* has it, FALSE as it is
  Events      \* what may happen besides the plain course of a session

EventKinds ==
  { "phone closes",   \* the connection ends
    "closes awaited", \* it ends while tcp_server waits for SHUTDOWN_RESPONSE
    "phone quits",    \* the phone sends SHUTDOWN_REQUEST
    "phone confirms", \* it sends AUTH_COMPLETE, too
    "startup fails" } \* the channel modules do not start

ASSUME BoundsAssumption ==
  MaxConns \in Nat /\ MaxChanges \in Nat /\ MaxPings \in Nat
ASSUME EventsAssumption == Events \subseteq EventKinds
ASSUME DecryptsAssumption == Decrypts \subseteq BOOLEAN

VARIABLES
  fromTcp,  \* what oaa_control_channel has not handled of tcp_server
  fromCm,   \* and of channel_manager
  phoneIn,  \* on their way to the phone
  phoneOut, \* on their way from the phone
  phone,    \* "away", "new", "authed" once it has asked for the services,
            \* "served" once it knows them, "quit"
  sdr,      \* version of the service discovery response the phone has
  conn,     \* connection: "down", "up", or "lost" when it has ended and
            \* tcp_server ignored it
  cryptor,  \* number of the ClientHello of _cryptor
  tls,      \* "none", "hello", "active" or "broken"
  hellos,   \* ClientHellos so far
  waiting,  \* tcp_server waits for SHUTDOWN_RESPONSE
  cm,       \* configuration the channel modules are opened for, 0 if none
  cmReady,  \* channels_ready has been published for them
  asked,    \* configuration of the last request for services
  decrypts, \* decrypt() returns what was encrypted
  conns, changes, pings,
  early,    \* the phone has pinged before it knew the services
  hasty     \* the configuration has changed while a handshake was about to
            \* start

tcpVars   == <<conn, cryptor, tls, hellos, waiting, fromTcp, conns,
               decrypts>>
cmVars    == <<cm, cmReady, fromCm>>
pingVars  == <<pings, early>>
phoneVars == <<phone, sdr, pingVars, phoneOut>>
userVars  == <<changes, hasty>>

aaVars == <<ccVars, tcpVars, cmVars, phoneVars, phoneIn, asked, userVars>>

SessionInit ==
  /\ CCInit
  /\ fromTcp = <<>> /\ fromCm = <<>> /\ phoneIn = <<>> /\ phoneOut = <<>>
  /\ phone = "away" /\ sdr = 0
  /\ conn = "down" /\ cryptor = 0 /\ tls = "none" /\ hellos = 0
  /\ waiting = FALSE
  /\ cm = 0 /\ cmReady = FALSE /\ asked = 0
  /\ decrypts \in Decrypts
  /\ conns = 0 /\ changes = 0 /\ pings = 0
  /\ early = FALSE /\ hasty = FALSE

\* Nothing is on its way to or from the phone or channel_manager.
Drained == phoneIn = <<>> /\ phoneOut = <<>> /\ toCm = <<>> /\ fromCm = <<>>

\* A handshake is about to start: oaa_control_channel will be told to.
StartPending ==
  \/ waiting
  \/ \E i \in 1 .. Len(toTcp) : toTcp[i][1] = "restart"
  \/ \E i \in 1 .. Len(fromTcp) : fromTcp[i][1] \in {"connected", "restarting"}

-----------------------------------------------------------------------------
(* The phone.                                                              *)

\* What the phone answers to a message and what it takes itself to be after.
Answer(m, confirms) ==
  CASE m[1] = "VERSION_REQUEST"  -> <<<<"VERSION_RESPONSE", 0>>>>
    [] m[1] = "SSL_HANDSHAKE"    -> <<m>>
    [] m[1] = "AUTH_COMPLETE"    ->
         IF confirms
           THEN <<<<"AUTH_COMPLETE", 0>>, <<"SERVICE_DISCOVERY_REQ", 0>>>>
           ELSE <<<<"SERVICE_DISCOVERY_REQ", 0>>>>
    [] m[1] = "SERVICE_DISCOVERY_RES" -> <<<<"CHANNEL_OPEN_REQ", 0>>>>
    [] m[1] = "CHANNEL_OPEN_RES" ->
         <<<<"AUDIO_FOCUS_REQUEST", 0>>, <<"NAV_FOCUS_REQUEST", 0>>>>
    [] m[1] = "AUDIO_FOCUS_RESPONSE" ->
         <<<<"VOICE_SESSION_REQUEST", 0>>, <<"BATTERY_STATUS", 0>>>>
    [] m[1] = "SHUTDOWN_REQUEST" -> <<<<"SHUTDOWN_RESPONSE", 0>>>>
    [] OTHER                     -> <<>>

PhoneAfter(m) ==
  CASE m[1] \in {"VERSION_REQUEST", "SHUTDOWN_REQUEST"} -> "new"
    [] m[1] = "AUTH_COMPLETE"                           -> "authed"
    [] m[1] = "SERVICE_DISCOVERY_RES"                   -> "served"
    [] OTHER                                            -> phone

PhoneTakes ==
  /\ conn = "up" /\ phoneIn # <<>>
  /\ phoneIn' = Tail(phoneIn)
  /\ LET m == Head(phoneIn) IN
       IF phone = "quit"
         THEN UNCHANGED <<phone, sdr, phoneOut>>
         ELSE /\ \E confirms \in BOOLEAN :
                   /\ confirms => "phone confirms" \in Events
                   /\ phoneOut' = phoneOut \o Answer(m, confirms)
              /\ phone' = PhoneAfter(m)
              /\ sdr' = CASE m[1] = "SERVICE_DISCOVERY_RES" -> m[2]
                          [] PhoneAfter(m) = "new"          -> 0
                          [] OTHER                          -> sdr
  /\ UNCHANGED <<ccVars, tcpVars, cmVars, pingVars, asked, userVars>>

PhonePings ==
  /\ conn = "up" /\ pings < MaxPings
  /\ phone \in {"authed", "served"}
  /\ pings' = pings + 1
  /\ early' = (early \/ phone = "authed")
  /\ Tell(phoneOut, "PING_REQUEST", 0)
  /\ UNCHANGED <<ccVars, tcpVars, cmVars, phone, sdr, phoneIn, asked, userVars>>

PhoneQuits ==
  /\ conn = "up" /\ "phone quits" \in Events
  /\ phone \in {"authed", "served"}
  /\ phone' = "quit"
  /\ Tell(phoneOut, "SHUTDOWN_REQUEST", 0)
  /\ UNCHANGED <<ccVars, tcpVars, cmVars, sdr, pingVars, phoneIn, asked, userVars>>

\* A phone takes seconds to come back: all messages have arrived by then.
PhoneConnects ==
  /\ conn = "down" /\ ~ waiting /\ conns < MaxConns
  /\ toTcp = <<>> /\ fromTcp = <<>> /\ Drained
  /\ conn' = "up" /\ conns' = conns + 1
  /\ phone' = "new" /\ sdr' = 0
  /\ Tell(fromTcp, "connected", 0)
  /\ UNCHANGED <<ccVars, cryptor, tls, hellos, waiting, decrypts, cmVars,
                 pingVars, phoneOut, phoneIn, asked, userVars>>

\* The connection ends, with what was on its way; tcp_server publishes
\* tcp.session.closed and tears down unless a restart is pending.
PhoneCloses ==
  /\ conn = "up"
  /\ IF waiting THEN "closes awaited" \in Events ELSE "phone closes" \in Events
  /\ phone' = "away" /\ sdr' = 0
  /\ phoneIn' = <<>> /\ phoneOut' = <<>>
  /\ IF waiting
       THEN conn' = "lost" /\ UNCHANGED <<fromTcp, cryptor, tls>>
       ELSE /\ conn' = "down" /\ Tell(fromTcp, "closed", 0)
            /\ cryptor' = 0 /\ tls' = "none"
  /\ UNCHANGED <<ccVars, hellos, waiting, conns, decrypts, cmVars, pingVars, asked,
                 userVars>>

-----------------------------------------------------------------------------
(* tcp_server                                                              *)

\* The messages of the phone that are not encrypted.
Open(m) == m[1] \in {"VERSION_RESPONSE", "SSL_HANDSHAKE", "AUTH_COMPLETE"}

\* The relay thread: also during a restart.  An encrypted message gets through
\* if the cryptor is active and decrypt() returns it.  It is dropped as too short
\* otherwise, or goes out as ciphertext, which no module has a handler for.
TcpRelays ==
  /\ conn = "up" /\ phoneOut # <<>>
  /\ phoneOut' = Tail(phoneOut)
  /\ fromTcp' = IF Open(Head(phoneOut)) \/ (decrypts /\ tls = "active")
                  THEN Append(fromTcp, Head(phoneOut))
                  ELSE fromTcp
  /\ UNCHANGED <<ccVars, conn, cryptor, tls, hellos, waiting, conns, decrypts,
                 cmVars, phone, sdr, pingVars, phoneIn, asked, userVars>>

\* on_handshake_start_tls(): a new cryptor, even over one in use.
TcpStartTls ==
  /\ hellos' = hellos + 1 /\ cryptor' = hellos + 1 /\ tls' = "hello"
  /\ Tell(fromTcp, "tls_handshake", hellos + 1)
  /\ UNCHANGED <<waiting, phoneIn>>

\* on_handshake_feed_input(): bytes of another handshake break this one.
TcpFeed(hello) ==
  /\ CASE tls \in {"none", "broken"} -> UNCHANGED <<tls, fromTcp>>
       [] tls \in {"hello", "active"} /\ hello # cryptor ->
            tls' = "broken" /\ UNCHANGED fromTcp
       [] OTHER ->
            tls' = "active" /\ Tell(fromTcp, "tls_handshake_completed", 0)
  /\ UNCHANGED <<cryptor, hellos, waiting, phoneIn>>

\* on_aa_session_restart(): ignored without a relay.
TcpRestart ==
  /\ IF conn = "up"
       THEN waiting' = TRUE /\ Tell(phoneIn, "SHUTDOWN_REQUEST", 0)
       ELSE UNCHANGED <<waiting, phoneIn>>
  /\ UNCHANGED <<cryptor, tls, hellos, fromTcp>>

\* on_frame_send()
TcpSend(m) ==
  /\ IF conn = "up" THEN phoneIn' = Append(phoneIn, m) ELSE UNCHANGED phoneIn
  /\ UNCHANGED <<cryptor, tls, hellos, waiting, fromTcp>>

\* The bus thread takes the next message.
TcpTakes ==
  /\ toTcp # <<>> /\ ~ waiting
  /\ toTcp' = Tail(toTcp)
  /\ LET m == Head(toTcp) IN
       CASE m[1] = "start_tls"  -> TcpStartTls
         [] m[1] = "feed_input" -> TcpFeed(m[2])
         [] m[1] = "restart"    -> TcpRestart
         [] OTHER               -> TcpSend(m)
  /\ UNCHANGED <<state, config, toCm, conn, conns, decrypts, cmVars, phoneVars,
                 asked, userVars>>

\* The wait of three seconds is over: the cryptor is reset and
\* aa.session.restarting goes out.  What was on its way has arrived by then,
\* save what waits for tcp_server itself.
TcpRestarted ==
  /\ waiting
  /\ fromTcp = <<>> /\ Drained
  /\ waiting' = FALSE
  /\ cryptor' = 0 /\ tls' = "none"
  /\ Tell(fromTcp, "restarting", 0)
  /\ UNCHANGED <<ccVars, conn, hellos, conns, decrypts, cmVars, phoneVars, phoneIn,
                 asked, userVars>>

-----------------------------------------------------------------------------
(* channel_manager                                                         *)

CmTakes ==
  /\ toCm # <<>>
  /\ toCm' = Tail(toCm)
  /\ cm' = IF Head(toCm)[1] = "open_channels" THEN Head(toCm)[2] ELSE 0
  /\ cmReady' = FALSE
  /\ UNCHANGED <<state, config, toTcp, tcpVars, fromCm, phoneVars,
                 phoneIn, asked, userVars>>

\* All channel modules of the session are up.
CmReady ==
  /\ cm # 0 /\ ~ cmReady
  /\ cmReady' = TRUE
  /\ Tell(fromCm, "channels_ready", cm)
  /\ UNCHANGED <<ccVars, tcpVars, cm, phoneVars, phoneIn, asked, userVars>>

\* They are not: they are stopped, and nobody is told.
CmFails ==
  /\ cm # 0 /\ ~ cmReady /\ "startup fails" \in Events
  /\ cm' = 0
  /\ UNCHANGED <<ccVars, tcpVars, cmReady, fromCm, phoneVars, phoneIn, asked,
                 userVars>>

-----------------------------------------------------------------------------
(* oaa_control_channel takes messages of tcp_server and channel_manager,   *)
(* and changes of its configuration.                                       *)

FromTcp(m) ==
  CASE m[1] \in {"connected", "restarting"} -> StartHandshake
    [] m[1] = "closed"                  -> TcpClosed
    [] m[1] = "tls_handshake"           -> TlsHandshake(m[2])
    [] m[1] = "tls_handshake_completed" -> TlsCompleted
    [] OTHER                            -> FrameCh0(m)

OaaTakes ==
  \/ /\ fromTcp # <<>>
     /\ fromTcp' = Tail(fromTcp)
     /\ FromTcp(Head(fromTcp))
     /\ asked' = IF Head(fromTcp)[1] = "SERVICE_DISCOVERY_REQ" /\ state # "none"
                   THEN config ELSE asked
     /\ UNCHANGED <<conn, cryptor, tls, hellos, waiting, conns, decrypts, fromCm>>
  \/ /\ fromCm # <<>>
     /\ fromCm' = Tail(fromCm)
     /\ ChannelsReady(Head(fromCm)[2])
     /\ UNCHANGED <<tcpVars, asked>>

OaaStep ==
  /\ OaaTakes
  /\ UNCHANGED <<cm, cmReady, phoneVars, phoneIn, userVars>>

ConfigChange ==
  /\ changes < MaxChanges
  /\ changes' = changes + 1
  /\ hasty' = (hasty \/ StartPending)
  /\ ConfigChanged
  /\ UNCHANGED <<tcpVars, cmVars, phoneVars, phoneIn, asked>>

-----------------------------------------------------------------------------
Deliver ==
  \/ PhoneTakes \/ TcpRelays \/ TcpTakes \/ TcpRestarted
  \/ CmTakes \/ CmReady \/ OaaStep

SessionNext ==
  \/ Deliver
  \/ PhonePings \/ PhoneQuits \/ PhoneConnects \/ PhoneCloses
  \/ CmFails \/ ConfigChange

SessionSpec == SessionInit /\ [][SessionNext]_aaVars

\* Every process goes on handling what it is sent, and the phone answers.
FairSessionSpec ==
  /\ SessionSpec
  /\ WF_aaVars(PhoneTakes) /\ WF_aaVars(TcpRelays) /\ WF_aaVars(TcpTakes)
  /\ WF_aaVars(TcpRestarted) /\ WF_aaVars(CmTakes) /\ WF_aaVars(CmReady)
  /\ WF_aaVars(OaaStep)

-----------------------------------------------------------------------------
(* Properties.                                                             *)

PhoneStates == {"away", "new", "authed", "served", "quit"}

\* The messages of the phone, and to the phone, that carry no value.
PhoneSays ==
  {"VERSION_RESPONSE", "AUTH_COMPLETE", "SERVICE_DISCOVERY_REQ",
   "CHANNEL_OPEN_REQ", "PING_REQUEST", "AUDIO_FOCUS_REQUEST",
   "NAV_FOCUS_REQUEST", "VOICE_SESSION_REQUEST", "BATTERY_STATUS", "SHUTDOWN_REQUEST", "SHUTDOWN_RESPONSE"}
PhoneHears ==
  {"VERSION_REQUEST", "AUTH_COMPLETE", "CHANNEL_OPEN_RES", "PING_RESPONSE",
   "AUDIO_FOCUS_RESPONSE", "NAV_FOCUS_RESPONSE", "SHUTDOWN_REQUEST",
   "SHUTDOWN_RESPONSE"}

\* What may be on its way: a ClientHello is one of those so far, a configuration
\* not newer than the last.
Plain(name) == <<name, 0>>
Plainly(names) == {Plain(n) : n \in names}
ToPhone ==
  Plainly(PhoneHears) \cup ({"SSL_HANDSHAKE"} \X (1 .. hellos))
    \cup ({"SERVICE_DISCOVERY_RES"} \X (1 .. config))
OfPhone == Plainly(PhoneSays) \cup ({"SSL_HANDSHAKE"} \X (1 .. hellos))
ToServer ==
  ToPhone \cup Plainly({"start_tls", "restart"})
    \cup ({"feed_input"} \X (1 .. hellos))
OfServer ==
  OfPhone \cup ({"tls_handshake"} \X (1 .. hellos))
    \cup Plainly({"connected", "restarting", "closed", "tls_handshake_completed"})
ToManager ==
  Plainly({"shutdown", "restart"}) \cup ({"open_channels"} \X (1 .. config))
OfManager == {"channels_ready"} \X (1 .. config)

QueuesOK ==
  /\ toTcp \in Seq(ToServer) /\ fromTcp \in Seq(OfServer)
  /\ phoneIn \in Seq(ToPhone) /\ phoneOut \in Seq(OfPhone)
  /\ toCm \in Seq(ToManager) /\ fromCm \in Seq(OfManager)

\* What the variables hold.
SessionTypeOK ==
  /\ CCTypeOK /\ QueuesOK
  /\ phone \in PhoneStates /\ sdr \in 0 .. config
  /\ conn \in {"down", "up", "lost"}
  /\ hellos \in Nat /\ cryptor \in 0 .. hellos
  /\ tls \in {"none", "hello", "active", "broken"}
  /\ tls = "none" <=> cryptor = 0
  /\ waiting \in BOOLEAN /\ cmReady \in BOOLEAN /\ decrypts \in BOOLEAN
  /\ cm \in 0 .. config /\ asked \in 0 .. config
  /\ conns \in 0 .. MaxConns /\ changes \in 0 .. MaxChanges
  /\ pings \in 0 .. MaxPings
  /\ early \in BOOLEAN /\ hasty \in BOOLEAN

\* SERVICE_DISCOVERY_RESPONSE is sent "only after all channel modules are up"
\* (handshake.py, step 4 of the integration with channel_manager), and tells
\* of the services the phone asked for last.
SdrWhenChannelsUp ==
  [][\A v \in 0 .. config :
       toTcp' = Append(toTcp, <<"SERVICE_DISCOVERY_RES", v>>) =>
         v = asked /\ cm = v /\ cmReady]_aaVars

\* The processes have handled everything.
Handled == toTcp = <<>> /\ fromTcp = <<>> /\ Drained /\ ~ waiting

\* When the processes have handled everything, channel modules run only for a
\* handshake that is past its service discovery: no connection, quit or
\* restarted session leaves modules behind (aa.session.shutdown).
ChannelsFollowSession ==
  Handled /\ cm # 0 =>
    state \in {"WAITING_CHANNELS", "CHANNELS_OPENING", "ACTIVE"} /\ cm = asked

\* The channel modules of the session have failed to start.
NoModules == state = "WAITING_CHANNELS" /\ cm = 0 /\ toCm = <<>>

\* With a decrypt() that returns what was encrypted, as its unit test expects, a
\* phone that stays connected gets an active session with the configuration as
\* it is now, however often it has changed (restart flow of main.py), unless its
\* channel modules fail to start, the phone has pinged before it was answered or
\* a change has come while the previous restart was under way.  With decrypt() as
\* it is (run frame_codec_f_decrypt) no session comes up: the phone's request for
\* the services does not arrive.
SessionComesUp ==
  decrypts /\ conn = "up" ~>
    \/ conn # "up" \/ phone = "quit" \/ NoModules \/ hasty \/ early
    \/ state = "ACTIVE" /\ sdr = config
=============================================================================
