---------------------------- MODULE WifiTopics -----------------------------
(***************************************************************************)
(* The bus topics by which rfcomm_handshake and hostapd_helper bring up    *)
(* the Wi-Fi of a phone.  The broker drops what nobody has subscribed to.  *)
(***************************************************************************)
EXTENDS Naturals, Sequences

VARIABLES
  connected,  \* bluetooth_manager.rfcomm.connected: connections to be handled
  ready,      \* hostapd.ready: the keys announced
  subscribed, \* the topics among these that are subscribed to, and "signals" for
              \* those of the access point service
  notices     \* "failed": hostapd.failed has been published;
              \* "unheard": a message of these topics was dropped

topics == <<connected, ready, subscribed, notices>>

TopicsInit ==
  connected = <<>> /\ ready = <<>> /\ subscribed = {} /\ notices = {}

Notice(kinds) == notices' = notices \cup kinds

PublishConnected(c) ==
  IF "connected" \in subscribed
    THEN connected' = Append(connected, c) /\ UNCHANGED notices
    ELSE Notice({"unheard"}) /\ UNCHANGED connected

PublishReady(key) ==
  IF "ready" \in subscribed
    THEN ready' = Append(ready, key) /\ UNCHANGED notices
    ELSE Notice({"unheard"}) /\ UNCHANGED ready

Subscribe(topic) == subscribed' = subscribed \cup {topic}
=============================================================================
