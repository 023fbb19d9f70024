---------------------------- MODULE WifiBringUp ----------------------------
(***************************************************************************)
(* The three programs that get a phone onto the Wi-Fi of the head unit:    *)
(* rfcomm_handshake, hostapd_helper and the access point service.          *)
(***************************************************************************)
EXTENDS HostapdHelper, RfcommHandshake

\* A key for each connection: none asks for more than one start.
ASSUME StartsSuffice == MaxStarts >= MaxConns

vars == <<apVars, topics, helperVars, rfVars>>

Init == ApInit /\ TopicsInit /\ HelperInit /\ RfInit

Service   == (ApStep \/ ApFault) /\ UNCHANGED <<topics, helperVars, rfVars>>
Helper    == (HelperStep \/ SystemStop) /\ UNCHANGED rfVars
Handshake ==
  /\ \/ RfBus \/ RfHandshake \/ RfcommStop
     \/ \E c \in Conns : NewConnection(c) \/ RfConnection(c)
  /\ UNCHANGED <<apVars, helperVars>>

Next == Service \/ Helper \/ Handshake

Spec == Init /\ [][Next]_vars

\* The threads of the three programs are scheduled, a D-Bus call is answered
\* and a handshake ends: its socket has a timeout and its messages are counted.
\* Nothing is assumed of the phone, of faults or of system.stop.
Fairness ==
  /\ WF_vars(ApStep /\ UNCHANGED <<topics, helperVars, rfVars>>)
  /\ WF_vars(HelperStep /\ UNCHANGED rfVars)
  /\ WF_vars(RfBus /\ UNCHANGED <<apVars, helperVars>>)
  /\ WF_vars(RfHandshake /\ UNCHANGED <<apVars, helperVars>>)
  /\ \A c \in Conns : WF_vars(RfConnection(c) /\ UNCHANGED <<apVars, helperVars>>)

FairSpec == Spec /\ Fairness

-----------------------------------------------------------------------------
\* system.stop has come to one of the modules.
Stopping == rpc = "off" \/ hpc \in {"stop", "stopping", "off"}

TypeOK ==
  /\ ApTypeOK /\ HelperTypeOK
  /\ connected \in Seq(Conns)
  /\ cpc \in [Conns -> {"none", "connected", "announce", "try", "done"}]
  /\ open \subseteq Conns
  /\ device \in Conns \cup {NoConn} /\ sock \in Conns \cup {NoConn}
  /\ credentials \in Keys \cup {Nothing, Blank}
  /\ running \in BOOLEAN
  /\ rpc \in {"boot", "listening", "idle", "try", "off"}
  /\ listener \subseteq {"glib", "profile"}
  /\ hs \in [pc : {"none", "begin", "request", "run", "unavailable",
                   "completed", "failed"},
             conn : Conns \cup {NoConn}, key : Keys \cup {Nothing, Blank},
             informed : BOOLEAN, left : 0 .. MaxMessages]

\* A handshake owns the pending socket from its start to its end: no other
\* connection replaces it or has it closed, and the socket stays open.
\* (_handshake_running, tested in _on_rfcomm_connected under the lock.)
HandshakeOwnsSocket ==
  /\ (hs.pc # "none") = running
  /\ hs.pc \in {"request", "run", "completed", "failed"} /\ rpc # "off" =>
       sock = hs.conn /\ sock \in open

\* Unless a daemon of the access point has died, a phone is only ever sent the
\* key of the network that is up: credentials wait for hostapd.ready, which
\* follows APStarted or a Status() that says "running".
SentKeyIsCurrent ==
  [][~ hs.informed /\ hs'.informed =>
        \/ Running /\ hs.key = key
        \/ trouble \cap {"dies", "sigterm"} # {} \/ Stopping]_vars

\* After _teardown() nothing of an access point is left, whatever start failed
\* before, unless a fault has kept Stop() from being called or accepted.
TornDown ==
  hpc = "off" =>
    Clean \/ trouble \cap {"dies", "timeout", "slow", "interrupted", "refused"} # {}

\* A phone whose connection is pending gets a handshake, is replaced by a newer
\* connection, or hostapd.failed is published; unless a message went unheard.
PendingServed ==
  \A c \in Conns :
    sock = c ~> sock # c \/ notices # {} \/ Stopping
=============================================================================
