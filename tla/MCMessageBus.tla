---------------------------- MODULE MCMessageBus ----------------------------
\* Instances of MessageBus for TLC: a module with two threads that publish, and
\* one with a single thread.
EXTENDS MessageBus

CONSTANTS channel_manager, audio, bus_thread, monitor, audio_thread

Threads == [w \in Writers |-> IF w = audio_thread THEN audio ELSE channel_manager]
=============================================================================
