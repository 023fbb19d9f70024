------------------------------- MODULE MCBoot -------------------------------
\* Instances of Boot for TLC: config_manager at level 0, the channel manager and
\* a service that needs its configuration at level 1, a user interface at 2.
EXTENDS Boot

CONSTANTS config_manager, channel_manager, hostapd_helper, config_ui

Levels == [m \in Modules |-> CASE m = config_manager -> 0
                               [] m = config_ui      -> 2
                               [] OTHER              -> 1]
=============================================================================
