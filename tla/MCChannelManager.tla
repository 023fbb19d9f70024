-------------------------- MODULE MCChannelManager --------------------------
\* Instances of ChannelManager for TLC: two channel modules.
EXTENDS ChannelManager

CONSTANTS video, audio

\* Every module in the tree has PRIORITY 1.
OneLevel == [c \in Channels |-> 1]

\* Two sessions of one channel, and one session of two channels with every
\* fault.
Generations == [channels |-> {audio}, sessions |-> 2,
                faults |-> {"timeout", "crash", "spawn"}]
Startup == [channels |-> {video, audio}, sessions |-> 1, faults |-> FaultKinds]
GenerationsAndStartup == {Generations, Startup}
=============================================================================
