------------------------------ MODULE BusTrace ------------------------------
(***************************************************************************)
(* v2/shared/bus_trace.py and v2/modules/zmq_trace: the events a module's  *)
(* bus client emits, the thread that sends them off, the collector that    *)
(* counts them and the reporter that tells of the counts.                  *)
(***************************************************************************)
EXTENDS Integers, Sequences

CONSTANTS
  QueueMax,   \* TRACE_QUEUE_MAX
  TraceHwm,   \* TRACE_HWM
  MaxEvents,  \* events emitted
  MaxTells    \* failures of its own that the trace tells of, of a kind

ASSUME TraceAssumption ==
  /\ {QueueMax, TraceHwm} \subseteq Nat \ {0} /\ {MaxEvents, MaxTells} \subseteq Nat

\* Kinds of event: what a client does on its bus, and what the trace tells of
\* itself.  One kind is on the blacklist.
Emitted == {"publish_ok", "recv_ok", "blacklisted"}
Kinds == Emitted \cup {"trace_local_drop", "jsonl_write_error"}

VARIABLES
  queue,      \* _queue of the tracer
  dropped,    \* _dropped_local
  dropsTold,  \* last_drop_report
  tracing,    \* _running
  inHand,     \* what the drain thread is about to send, <<>> or one event
  push,       \* the PUSH socket: "open" or "closed"
  pipe,       \* events on their way to the collector
  collector,  \* "down", "up" or "stopped"
  enabled,    \* _config["enabled"]
  window,     \* Metrics.window["events"]
  total,      \* Metrics.total
  lastPub,    \* last_topic_pub of the reporter
  reporter,   \* "down", "up", "last" or "ended"
  emitted, told, discarded, skipped,
              \* events so far: emitted; about drops; that close() or the end
              \* of the collector has cost; that the collector was to ignore
  windows, published  \* sums of the reports: of events, of publications

tracer == <<queue, dropped, dropsTold, tracing, inHand, push, emitted, told>>
reports == <<lastPub, windows, published>>
metrics == <<window, total>>
trace == <<tracer, pipe, collector, enabled, metrics, reporter, reports, discarded,
           skipped>>

TraceInit ==
  /\ queue = <<>> /\ dropped = 0 /\ dropsTold = 0 /\ tracing = TRUE /\ inHand = <<>>
  /\ push = "open" /\ pipe = <<>> /\ collector = "down" /\ reporter = "down"
  /\ window = 0 /\ total = [k \in Kinds |-> 0]
  /\ enabled = TRUE /\ lastPub = 0 /\ windows = 0 /\ published = 0
  /\ emitted = 0 /\ told = 0 /\ discarded = 0 /\ skipped = 0

\* emit(): never waits, works before the start and after the end of the thread.
Emit(k) ==
  /\ emitted < MaxEvents
  /\ emitted' = emitted + 1
  /\ IF Len(queue) < QueueMax
     THEN queue' = Append(queue, k) /\ UNCHANGED dropped
     ELSE dropped' = dropped + 1 /\ UNCHANGED queue
  /\ UNCHANGED <<dropsTold, tracing, inHand, push, told, pipe, collector, enabled,
                 metrics, reporter, reports, discarded, skipped>>

\* _send_now(): what cannot be sent is counted.  The fault is not to count.
SendUncounted(k) ==
  /\ pipe' = IF push = "open" /\ Len(pipe) < TraceHwm THEN Append(pipe, k) ELSE pipe
  /\ UNCHANGED dropped

SendNow(k) ==
  IF push = "open" /\ Len(pipe) < TraceHwm
  THEN pipe' = Append(pipe, k) /\ UNCHANGED dropped
  ELSE dropped' = dropped + 1 /\ UNCHANGED pipe

\* _drain_loop().
Take ==
  /\ tracing /\ inHand = <<>> /\ queue # <<>>
  /\ inHand' = <<Head(queue)>> /\ queue' = Tail(queue)
  /\ UNCHANGED <<dropped, dropsTold, tracing, push, emitted, told, pipe, collector,
                 enabled, metrics, reporter, reports, discarded, skipped>>

SendTaken ==
  /\ inHand # <<>>
  /\ SendNow(inHand[1])
  /\ inHand' = <<>>
  /\ UNCHANGED <<queue, dropsTold, tracing, push, emitted, told, collector, enabled,
                 metrics, reporter, reports, discarded, skipped>>

\* Nothing to send for a quarter of a second: the drops are told.
TellDrops ==
  /\ tracing /\ inHand = <<>> /\ queue = <<>> /\ dropped # dropsTold /\ told < MaxTells
  /\ dropsTold' = dropped
  /\ told' = told + 1
  /\ SendNow("trace_local_drop")
  /\ UNCHANGED <<queue, tracing, inHand, push, emitted, collector, enabled, metrics,
                 reporter, reports, discarded, skipped>>

\* close(), called by BusClient.stop() and at exit.  The thread may be waiting
\* for an event longer than it is waited for: it may even send one later.
CloseTracer ==
  /\ tracing
  /\ tracing' = FALSE
  /\ UNCHANGED <<queue, dropped, dropsTold, inHand, push, emitted, told, pipe,
                 collector, enabled, metrics, reporter, reports, discarded, skipped>>

ClosePush ==
  /\ ~ tracing /\ push = "open"
  /\ push' = "closed"
  /\ \E n \in 0 .. Len(pipe) :
       pipe' = SubSeq(pipe, 1, n) /\ discarded' = discarded + Len(pipe) - n
  /\ UNCHANGED <<queue, dropped, dropsTold, tracing, inHand, emitted, told, collector,
                 enabled, metrics, reporter, reports, skipped>>

-----------------------------------------------------------------------------
\* zmq_trace/main.py, _on_config_loaded(): with an empty configuration neither
\* thread is started.
ConfigLoaded(empty) ==
  /\ collector = "down" /\ ~ empty
  /\ collector' = "up" /\ reporter' = "up" /\ enabled' \in BOOLEAN
  /\ UNCHANGED <<tracer, pipe, metrics, reports, discarded, skipped>>

\* _on_config_changed(): takes effect with the next event.
ConfigChanged ==
  /\ collector # "stopped"
  /\ enabled' = ~ enabled
  /\ UNCHANGED <<tracer, pipe, collector, metrics, reporter, reports, discarded, skipped>>

\* _blacklisted(), and what a collector that is not enabled does.
Ignored(k) == ~ enabled \/ k = "blacklisted"

\* Metrics.add().
Add(n, ks) ==
  /\ window' = window + n
  /\ total' = [k \in Kinds |-> total[k] + (IF k \in ks THEN 1 ELSE 0)]

\* collector_loop(): counts, and counts once more when the file cannot be
\* written to.
Collect(fails) ==
  /\ collector = "up" /\ pipe # <<>>
  /\ pipe' = Tail(pipe)
  /\ IF Ignored(Head(pipe))
     THEN skipped' = skipped + 1 /\ UNCHANGED metrics
     ELSE IF fails /\ total["jsonl_write_error"] < MaxTells
          THEN Add(2, {Head(pipe), "jsonl_write_error"}) /\ UNCHANGED skipped
          ELSE Add(1, {Head(pipe)}) /\ UNCHANGED skipped
  /\ UNCHANGED <<tracer, collector, enabled, reporter, reports, discarded>>

\* on_system_stop() sets stop_event: the collector closes its socket.  The reporter
\* makes one more report if it is asleep and the process lasts until it wakes up, and
\* none otherwise.
StopTrace ==
  /\ collector = "up"
  /\ collector' = "stopped"
  /\ discarded' = discarded + Len(pipe) /\ pipe' = <<>>
  /\ reporter' \in {"last", "ended"}
  /\ UNCHANGED <<tracer, enabled, metrics, reports, skipped>>

\* snapshot_and_reset_window(), under the lock of add().
SnapshotAndReset == windows' = windows + window /\ window' = 0

\* reporter_loop(): one report.
Report ==
  /\ reporter \in {"up", "last"}
  /\ SnapshotAndReset
  /\ published' = published + total["publish_ok"] - lastPub
  /\ lastPub' = total["publish_ok"]
  /\ reporter' = IF reporter = "last" THEN "ended" ELSE "up"
  /\ UNCHANGED <<tracer, pipe, collector, enabled, total, discarded, skipped>>

\* A collector that is stopped takes no events: they are lost with its socket.
LateEvents ==
  /\ collector = "stopped" /\ pipe # <<>>
  /\ discarded' = discarded + Len(pipe) /\ pipe' = <<>>
  /\ UNCHANGED <<tracer, collector, enabled, metrics, reporter, reports, skipped>>

TraceNext ==
  \/ \E k \in Emitted : Emit(k)
  \/ Take \/ SendTaken \/ TellDrops \/ CloseTracer \/ ClosePush
  \/ \E b \in BOOLEAN : ConfigLoaded(b) \/ Collect(b)
  \/ ConfigChanged \/ StopTrace \/ Report \/ LateEvents

TraceTypeOK ==
  /\ queue \in Seq(Emitted) /\ Len(queue) <= QueueMax
  /\ inHand \in Seq(Emitted) /\ Len(inHand) <= 1
  /\ pipe \in Seq(Kinds) /\ Len(pipe) <= TraceHwm
  /\ push \in {"open", "closed"} /\ {tracing, enabled} \subseteq BOOLEAN
  /\ collector \in {"down", "up", "stopped"}
  /\ reporter \in {"down", "up", "last", "ended"}
  /\ total \in [Kinds -> Nat]
  /\ {dropped, dropsTold, window, lastPub, windows, published, discarded, skipped}
       \subseteq Nat
  /\ emitted \in 0..MaxEvents /\ told \in 0..MaxTells

\* "Drop trace events rather than perturbing realtime paths" and say so: each
\* event is on its way, counted, ignored, counted as dropped, or lost with a
\* socket that was closed; and each that is counted is in one report or in the
\* window, which is in the next report if there is one.
TraceAddsUp ==
  LET counted == total["publish_ok"] + total["recv_ok"] + total["blacklisted"] +
                 total["trace_local_drop"] + total["jsonl_write_error"] IN
  /\ emitted + told + total["jsonl_write_error"] =
       Len(queue) + Len(inHand) + Len(pipe) + counted + skipped + dropped + discarded
  /\ windows + window = counted
  /\ published = lastPub
=============================================================================
