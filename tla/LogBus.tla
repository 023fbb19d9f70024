------------------------------- MODULE LogBus -------------------------------
(***************************************************************************)
(* v2/shared/logger.py and v2/modules/log_viewer: the records of a module  *)
(* that has attached its logger to the bus, and the window that shows them.*)
(*                                                                         *)
(* A record goes from loguru's own queue to the queue of the bus sink, to  *)
(* the drain thread and its socket, to the viewer's bus thread, to the     *)
(* buffer that the window's timer empties.  Records are numbered in the    *)
(* order they are logged.                                                  *)
(***************************************************************************)
EXTENDS Naturals, Sequences, SequencesExt

CONSTANTS
  MaxRecords,  \* records logged
  LogHwm,      \* what the sockets hold
  Limits,      \* values of max_lines
  MaxClicks    \* changes of the filter or of max_lines, and Clear

ASSUME LogAssumption ==
  /\ {MaxRecords, MaxClicks} \subseteq Nat /\ LogHwm \in Nat \ {0}
  /\ Limits \subseteq Nat \ {0} /\ Limits # {}

Records == 1..MaxRecords
LevelOrder == <<"DEBUG", "INFO", "ERROR">>  \* _LEVEL_ORDER
Levels == Range(LevelOrder)

VARIABLES
  logged,     \* records so far
  level,      \* the level of each record
  lines,      \* the lines of its message, 1 or 2
  sink,       \* "none", "attached" or "removed"
  sinkQueue,  \* loguru's queue of the sink
  busQueue,   \* _bus_queue
  drained,    \* what the drain thread is about to send
  onBus,      \* records on their way to the viewer
  viewer,     \* "starting", "listening" or "stopped": its bus client
  buffer,     \* _record_buffer
  app,        \* "none", "open" or "closed"
  view,       \* the lines of the window: the record of each
  count,      \* _line_count
  filter,     \* _filter_level
  maxLines,   \* _config["max_lines"]
  clicks,     \* clicks so far
  received,   \* records the viewer has heard
  unshown,    \* those of them that the filter has kept out, or that are older than Clear
  lowest,     \* the smallest max_lines a flush has used
  limit       \* the max_lines the last flush used

logger == <<logged, level, lines, sink, sinkQueue, busQueue, drained>>
settings == <<filter, maxLines, clicks>>
page == <<view, count, unshown, lowest, limit>>
logs == <<logger, onBus, viewer, buffer, app, settings, page, received>>

\* logger.py and run(): nothing is logged yet, and nothing listens.
LogInit ==
  /\ logged = 0 /\ sink = "none" /\ sinkQueue = <<>> /\ busQueue = <<>> /\ drained = <<>>
  /\ level = [r \in Records |-> "INFO"] /\ lines = [r \in Records |-> 1]
  /\ onBus = <<>> /\ viewer = "starting" /\ buffer = <<>> /\ app = "none"
  /\ maxLines \in Limits /\ clicks = 0 /\ received = {} /\ lowest = 1000 /\ limit = 1000

\* LogViewerWindow.__init__(): the window lets all records through, whatever is
\* in the buffer already.
ViewInit == view = <<>> /\ count = 0 /\ filter = "ALL" /\ unshown = {}

-----------------------------------------------------------------------------
\* attach_bus(), called once: a queue, a socket and a thread of its own.
Attach ==
  /\ sink = "none"
  /\ sink' = "attached"
  /\ UNCHANGED <<logged, level, lines, sinkQueue, busQueue, drained, onBus, viewer,
                 buffer, app, settings, page, received>>

\* Logger.info() and the like: the sink takes records of INFO and above.
Log ==
  /\ logged < MaxRecords
  /\ logged' = logged + 1
  /\ \E l \in Levels, n \in {1, 2} :
       /\ level' = [level EXCEPT ![logged'] = l]
       /\ lines' = [lines EXCEPT ![logged'] = n]
       /\ sinkQueue' = IF sink = "attached" /\ l # "DEBUG"
                       THEN Append(sinkQueue, logged') ELSE sinkQueue
  /\ UNCHANGED <<sink, busQueue, drained, onBus, viewer, buffer, app, settings, page,
                 received>>

\* _bus_sink(), in loguru's thread.
SinkTakes ==
  /\ sinkQueue # <<>>
  /\ busQueue' = Append(busQueue, Head(sinkQueue)) /\ sinkQueue' = Tail(sinkQueue)
  /\ UNCHANGED <<logged, level, lines, sink, drained, onBus, viewer, buffer, app,
                 settings, page, received>>

\* _drain(): the one thread that sends.
Drain ==
  /\ sink = "attached" /\ drained = <<>> /\ busQueue # <<>>
  /\ drained' = <<Head(busQueue)>> /\ busQueue' = Tail(busQueue)
  /\ UNCHANGED <<logged, level, lines, sink, sinkQueue, onBus, viewer, buffer, app,
                 settings, page, received>>

\* send_multipart(NOBLOCK): nothing is said when the record is dropped, or when
\* the socket has been closed.
DrainSends ==
  /\ drained # <<>>
  /\ drained' = <<>>
  /\ onBus' = IF sink = "attached" /\ viewer = "listening" /\ Len(onBus) < LogHwm
              THEN onBus \o drained ELSE onBus
  /\ UNCHANGED <<logged, level, lines, sink, sinkQueue, busQueue, viewer, buffer, app,
                 settings, page, received>>

\* _atexit_cleanup(): loguru's queue is emptied, that of the drain thread is not.
AtExit ==
  /\ sink = "attached"
  /\ sink' = "removed"
  /\ busQueue' = busQueue \o sinkQueue /\ sinkQueue' = <<>>
  /\ UNCHANGED <<logged, level, lines, drained, onBus, viewer, buffer, app, settings,
                 page, received>>

-----------------------------------------------------------------------------
\* log_viewer, _on_config_loaded(): subscribes to log.entry, if there is a
\* configuration.
ConfigArrives ==
  /\ viewer = "starting"
  /\ viewer' = "listening"
  /\ maxLines' \in Limits
  /\ UNCHANGED <<logger, onBus, buffer, app, filter, clicks, page, received>>

\* _on_config_changed("max_lines").
MaxLinesChanged(n) ==
  /\ viewer # "stopped" /\ clicks < MaxClicks /\ maxLines # n
  /\ maxLines' = n /\ clicks' = clicks + 1
  /\ UNCHANGED <<logger, onBus, viewer, buffer, app, filter, page, received>>

\* on_log_entry(), in the bus thread.
OnLogEntry ==
  /\ viewer = "listening" /\ onBus # <<>>
  /\ onBus' = Tail(onBus)
  /\ buffer' = Append(buffer, Head(onBus))
  /\ received' = received \cup {Head(onBus)}
  /\ UNCHANGED <<logger, viewer, app, settings, page>>

\* on_system_stop(): the window is told to close, if there is one yet.
ViewerStops ==
  /\ viewer # "stopped"
  /\ viewer' = "stopped"
  /\ app' = IF app = "open" THEN "closed" ELSE app
  /\ UNCHANGED <<logger, onBus, buffer, settings, page, received>>

\* run(): the window opens after the bus client has started.
OpenWindow ==
  /\ app = "none"
  /\ app' = "open"
  /\ UNCHANGED <<logger, onBus, viewer, buffer, settings, page, received>>

Rank(l) == CHOOSE i \in DOMAIN LevelOrder : LevelOrder[i] = l

Shown(r) == filter = "ALL" \/ Rank(level[r]) >= Rank(filter)

\* The lines of some records, each with its record.
LinesOf(rs) == FlattenSeq([i \in DOMAIN rs |-> [j \in 1 .. lines[rs[i]] |-> rs[i]]])

\* flush_log_buffer(), its end: as many lines are removed at the top as there
\* are records too many.  The fault forgets to set the count right.
TrimUncounted(all, n) ==
  IF n > maxLines
  THEN view' = SubSeq(all, n - maxLines + 1, Len(all)) /\ count' = n
  ELSE view' = all /\ count' = n

Trim(all, n) ==
  IF n > maxLines
  THEN view' = SubSeq(all, n - maxLines + 1, Len(all)) /\ count' = maxLines
  ELSE view' = all /\ count' = n

\* flush_log_buffer(), in the window's thread: what the filter lets through is
\* appended, a record at a time and a line or more for each.
Flush ==
  /\ app = "open" /\ buffer # <<>>
  /\ LET batch == SelectSeq(buffer, Shown) IN
     /\ Trim(view \o LinesOf(batch), count + Len(batch))
     /\ unshown' = unshown \cup (Range(buffer) \ Range(batch))
  /\ buffer' = <<>>
  /\ limit' = maxLines /\ lowest' = IF maxLines < lowest THEN maxLines ELSE lowest
  /\ UNCHANGED <<logger, onBus, viewer, app, settings, received>>

\* _on_clear_clicked().
Clear ==
  /\ app = "open" /\ clicks < MaxClicks /\ view # <<>>
  /\ view' = <<>> /\ count' = 0
  /\ unshown' = received \ Range(buffer)
  /\ clicks' = clicks + 1
  /\ UNCHANGED <<logger, onBus, viewer, buffer, app, filter, maxLines, received, lowest,
                 limit>>

\* _on_filter_changed(): what is shown already stays.
ChooseFilter(l) ==
  /\ app = "open" /\ clicks < MaxClicks /\ filter # l
  /\ filter' = l /\ clicks' = clicks + 1
  /\ UNCHANGED <<logger, onBus, viewer, buffer, app, maxLines, page, received>>

LogNext ==
  \/ Attach \/ Log \/ SinkTakes \/ Drain \/ DrainSends \/ AtExit
  \/ ConfigArrives \/ OnLogEntry \/ ViewerStops \/ OpenWindow \/ Flush \/ Clear
  \/ \E n \in Limits : MaxLinesChanged(n)
  \/ \E l \in {"ALL", "ERROR"} : ChooseFilter(l)

LogTypeOK ==
  /\ logged \in 0..MaxRecords /\ level \in [Records -> Levels]
  /\ lines \in [Records -> {1, 2}] /\ sink \in {"none", "attached", "removed"}
  /\ {sinkQueue, busQueue, drained, onBus, buffer, view} \subseteq Seq(Records)
  /\ viewer \in {"starting", "listening", "stopped"} /\ app \in {"none", "open", "closed"}
  /\ {count, lowest, limit} \subseteq Nat /\ filter \in {"ALL", "ERROR"}
  /\ maxLines \in Limits /\ clicks \in 0..MaxClicks
  /\ unshown \subseteq received /\ received \subseteq Records

\* The window shows the latest records: they are in the order they were logged
\* in; what the viewer has heard and does not show is waiting for the timer, was
\* not wanted, or is older than all that is shown; nothing is removed while there
\* are fewer lines than max_lines; and there are never more ("max lines kept in
\* the view") as long as no record has two.
ViewIsTheTail ==
  /\ \A i, j \in DOMAIN view : i < j => view[i] <= view[j]
  /\ \A r \in received \ (Range(buffer) \cup unshown \cup Range(view)) :
       view # <<>> /\ r < view[1] /\ Len(view) >= lowest
  /\ (\A r \in Records : lines[r] = 1) => Len(view) <= limit
=============================================================================
