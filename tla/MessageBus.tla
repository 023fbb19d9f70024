----------------------------- MODULE MessageBus -----------------------------
(***************************************************************************)
(* The v2 bus and those who watch it: the numbers of the messages, the     *)
(* trace of what the clients do, and the log records of the modules.       *)
(*                                                                         *)
(* The three share no socket and no variable: BusTracer and the bus sink of*)
(* the logger have sockets of their own so as not to disturb the first.    *)
(* A behaviour shows one of them.                                          *)
(***************************************************************************)
EXTENDS BusClient, BusTrace, LogBus

VARIABLE side  \* "traffic", "trace" or "logs"

vars == <<side, traffic, trace, logs>>

Init ==
  /\ side \in {"traffic", "trace", "logs"}
  /\ BusInit /\ TraceInit /\ LogInit /\ ViewInit

Next ==
  /\ UNCHANGED side
  /\ \/ side = "traffic" /\ BusNext /\ UNCHANGED <<trace, logs>>
     \/ side = "trace" /\ TraceNext /\ UNCHANGED <<traffic, logs>>
     \/ side = "logs" /\ LogNext /\ UNCHANGED <<traffic, trace>>

Spec == Init /\ [][Next]_vars

TypeOK == BusTypeOK /\ TraceTypeOK /\ LogTypeOK
=============================================================================
