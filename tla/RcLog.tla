-------------------------------- MODULE RcLog --------------------------------
(***************************************************************************)
(* The log adapter (components/rc_log): any thread's log records reach the *)
(* embedder's callback.  On Android a background thread of the adapter     *)
(* takes them from a bounded channel; on iOS the logging thread calls the  *)
(* callback itself.  The embedder may free the callback as soon as         *)
(* rc_log_adapter_destroy returns.  Its calls are serialised (they are     *)
(* @Synchronized in RustLogAdapter.kt), so one adapter is alive at a time. *)
(***************************************************************************)
EXTENDS Integers, Sequences

CONSTANTS
    Platforms,  \* the backends, a subset of {"android", "ios"}
    Loggers,    \* threads that log, other than the embedder's
    Levels,     \* the levels they log at: 1 (error) .. 5 (trace)
    Filters,    \* the values passed to rc_log_adapter_set_max_level
    Capacity    \* size of the channel: 4096 in the code

VARIABLES
    platform,   \* the backend the library is built with
    app,        \* where the embedder's thread is in create / destroy
    max_level,  \* log::max_level: 0 (off) .. 5 (trace)
    logger,     \* SETTABLE_LOG holds the adapter's sink
    log,        \* log[t]: where thread t is in log!()
    disabled,   \* LogSink::disabled
    queue,      \* the sync_channel
    stopped,    \* LogAdapterState::stopped (stop on iOS)
    guard,      \* holder of the mutex around stopped
    bg,         \* where the background thread is
    valid       \* the embedder still keeps the callback

vars == <<platform, app, max_level, logger, log, disabled, queue, stopped,
          guard, bg, valid>>

Logging == Loggers \cup {"app"}

TypeOK ==
    /\ platform \in {"android", "ios"}
    /\ app \in {"none", "spawned", "set", "logging", "live", "off",
                "join", "unset"}
    /\ max_level \in 0..5
    /\ logger \in BOOLEAN /\ disabled \in BOOLEAN
    /\ stopped \in BOOLEAN /\ valid \in BOOLEAN
    /\ log \in [Logging -> {"idle", "passed", "reading", "sending", "calling"}]
    /\ queue \in Seq({"record", "stop"}) /\ Len(queue) <= Capacity
    /\ guard \in {"free", "bg", "app"}
    /\ bg \in {"none", "recv", "got", "calling"}

Init ==
    /\ platform \in Platforms
    /\ app = "none" /\ max_level = 0 /\ logger = FALSE
    /\ log = [t \in Logging |-> "idle"]
    /\ disabled = FALSE /\ queue = <<>> /\ stopped = FALSE /\ guard = "free"
    /\ bg = "none" /\ valid = FALSE

(***************************************************************************)
(* Logging, by any thread.  log!() compares the level with max_level and   *)
(* then calls the global logger, which keeps the read lock of SETTABLE_LOG *)
(* until the sink has returned.                                            *)
(***************************************************************************)
Reading(t) == log[t] \in {"reading", "sending", "calling"}

\* The macro's test of max_level.  The embedder's thread logs from init.
LogMacro(t) ==
    /\ log[t] = "idle"
    /\ t # "app"
    /\ \E l \in Levels : l <= max_level
    /\ log' = [log EXCEPT ![t] = "passed"]
    /\ UNCHANGED <<platform, app, max_level, logger, disabled, queue, stopped,
                   guard, bg, valid>>

\* SettableLog::log up to the call of the sink.
SettableLog(t) ==
    /\ log[t] = "passed"
    /\ log' = [log EXCEPT ![t] = IF logger THEN "reading" ELSE "idle"]
    /\ UNCHANGED <<platform, app, max_level, logger, disabled, queue, stopped,
                   guard, bg, valid>>

\* The first test of the sink: LogSink::disabled, or Logger::stop on iOS.
SinkEnabled(t) ==
    LET off == IF platform = "android" THEN disabled ELSE stopped
        on  == IF platform = "android" THEN "sending" ELSE "calling"
    IN  /\ log[t] = "reading"
        /\ log' = [log EXCEPT ![t] = IF off THEN "idle" ELSE on]
        /\ UNCHANGED <<platform, app, max_level, logger, disabled, queue,
                       stopped, guard, bg, valid>>

\* try_send on the channel: fails when it is full or its receiver is gone.
CanSend == bg # "none" /\ Len(queue) < Capacity

LogSink(t) ==
    /\ log[t] = "sending"
    /\ log' = [log EXCEPT ![t] = "idle"]
    /\ queue' = IF CanSend THEN Append(queue, "record") ELSE queue
    /\ disabled' = (disabled \/ ~CanSend)
    /\ UNCHANGED <<platform, app, max_level, logger, stopped, guard, bg, valid>>

\* The callback of the iOS Logger returns to the logging thread.
LoggerCalled(t) ==
    /\ log[t] = "calling"
    /\ log' = [log EXCEPT ![t] = "idle"]
    /\ UNCHANGED <<platform, app, max_level, logger, disabled, queue, stopped,
                   guard, bg, valid>>

(***************************************************************************)
(* The background thread of the Android backend.                           *)
(***************************************************************************)
\* The thread returns: its receiver is dropped and the mutex released.
BgReturns ==
    /\ bg' = "none"
    /\ queue' = <<>>
    /\ guard' = "free"

\* message_recv.recv()
BgRecv ==
    /\ bg = "recv" /\ queue # <<>>
    /\ IF Head(queue) = "record"
         THEN bg' = "got" /\ queue' = Tail(queue)
         ELSE bg' = "none" /\ queue' = <<>>
    /\ UNCHANGED <<platform, app, max_level, logger, log, disabled, stopped,
                   guard, valid>>

\* stopped.lock(), the test, and the call of the callback.
BgLock ==
    /\ bg = "got" /\ guard = "free"
    /\ IF stopped
         THEN BgReturns
         ELSE bg' = "calling" /\ guard' = "bg" /\ UNCHANGED queue
    /\ UNCHANGED <<platform, app, max_level, logger, log, disabled, stopped,
                   valid>>

\* The callback returns 1 to go on and 0 to close the thread.
BgCalled ==
    /\ bg = "calling"
    /\ \/ /\ bg' = "recv" /\ guard' = "free"
          /\ UNCHANGED <<queue, stopped>>
       \/ BgReturns /\ stopped' = TRUE
    /\ UNCHANGED <<platform, app, max_level, logger, log, disabled, valid>>

(***************************************************************************)
(* The embedder's thread.                                                  *)
(***************************************************************************)
NoReader == \A t \in Logging : ~Reading(t)

\* LogAdapterState::init up to set_logger: a fresh channel, flag and thread.
Create ==
    /\ app = "none"
    /\ app' = "spawned" /\ valid' = TRUE
    /\ stopped' = FALSE /\ queue' = <<>> /\ guard' = "free"
    /\ bg' = IF platform = "android" THEN "recv" ELSE "none"
    /\ UNCHANGED <<platform, max_level, logger, log, disabled>>

\* settable_log::set_logger: the write lock, and a new sink.
SetLogger ==
    /\ app = "spawned" /\ NoReader
    /\ app' = "set" /\ logger' = TRUE /\ disabled' = FALSE
    /\ UNCHANGED <<platform, max_level, log, queue, stopped, guard, bg, valid>>

\* set_max_level(Debug) and the record "rc_log adapter initialized!".
InitLevel ==
    /\ app = "set"
    /\ app' = "logging" /\ max_level' = 4
    /\ log' = [log EXCEPT !["app"] = "passed"]
    /\ UNCHANGED <<platform, logger, disabled, queue, stopped, guard, bg, valid>>

Created ==
    /\ app = "logging" /\ log["app"] = "idle"
    /\ app' = "live"
    /\ UNCHANGED <<platform, max_level, logger, log, disabled, queue, stopped,
                   guard, bg, valid>>

level_filter_from_i32(n) == IF n <= 0 THEN 0 ELSE IF n >= 5 THEN 5 ELSE n

SetMaxLevel(n) ==
    /\ app = "live"
    /\ max_level' = level_filter_from_i32(n)
    /\ UNCHANGED <<platform, app, logger, log, disabled, queue, stopped, guard,
                   bg, valid>>

\* rc_log_adapter_destroy: turn logging off, ...
Destroy ==
    /\ app = "live"
    /\ app' = "off" /\ max_level' = 0
    /\ UNCHANGED <<platform, logger, log, disabled, queue, stopped, guard, bg,
                   valid>>

\* Mutation: drop does not send Stop to the background thread
DropQuietly ==
    /\ app = "off" /\ guard = "free"
    /\ stopped' = TRUE
    /\ app' = IF platform = "android" THEN "join" ELSE "unset"
    /\ UNCHANGED <<platform, max_level, logger, log, disabled, queue, guard, bg,
                   valid>>

\* ... drop the adapter: on iOS set the flag; on Android take the mutex, set
\* the flag, try to send Stop and release the mutex, ...
DropState ==
    /\ app = "off" /\ guard = "free"
    /\ stopped' = TRUE
    /\ IF platform = "android"
         THEN /\ app' = "join"
              /\ queue' = IF CanSend THEN Append(queue, "stop") ELSE queue
         ELSE app' = "unset" /\ UNCHANGED queue
    /\ UNCHANGED <<platform, max_level, logger, log, disabled, guard, bg, valid>>

\* ... wait for the background thread, ...
Join ==
    /\ app = "join" /\ bg = "none"
    /\ app' = "unset"
    /\ UNCHANGED <<platform, max_level, logger, log, disabled, queue, stopped,
                   guard, bg, valid>>

\* Mutation: destroy does not wait for the readers of SETTABLE_LOG
UnsetAtOnce ==
    /\ app = "unset"
    /\ app' = "none" /\ logger' = FALSE /\ valid' = FALSE
    /\ UNCHANGED <<platform, max_level, log, disabled, queue, stopped, guard, bg>>

\* ... and take the sink out of SETTABLE_LOG.  Then the callback may go.
UnsetLogger ==
    /\ app = "unset" /\ NoReader
    /\ app' = "none" /\ logger' = FALSE /\ valid' = FALSE
    /\ UNCHANGED <<platform, max_level, log, disabled, queue, stopped, guard, bg>>

LogStep(t) == SettableLog(t) \/ SinkEnabled(t) \/ LogSink(t) \/ LoggerCalled(t)
BgStep == BgRecv \/ BgLock \/ BgCalled
CallStep == SetLogger \/ InitLevel \/ Created \/ DropState \/ Join \/ UnsetLogger

Next ==
    \/ \E t \in Logging : LogMacro(t)
    \/ \E t \in Logging : SettableLog(t)
    \/ \E t \in Logging : SinkEnabled(t)
    \/ \E t \in Logging : LogSink(t)
    \/ \E t \in Logging : LoggerCalled(t)
    \/ BgRecv \/ BgLock \/ BgCalled
    \/ Create \/ SetLogger \/ InitLevel \/ Created
    \/ \E n \in Filters : SetMaxLevel(n)
    \/ Destroy \/ DropState \/ Join \/ UnsetLogger

\* Threads inside a call go on; the callback returns.
Fairness ==
    /\ \A t \in Logging : WF_vars(LogStep(t))
    /\ WF_vars(BgStep)
    /\ WF_vars(CallStep)

Spec == Init /\ [][Next]_vars /\ Fairness

\* The callback only runs between create and the return of destroy (the
\* embedder frees it then): Android holds the mutex around the call and joins
\* the thread, iOS relies on unset_logger waiting for the readers.
CallbackStaysValid ==
    bg = "calling" \/ (\E t \in Logging : log[t] = "calling") => valid

Destroying == app = "off"
Destroyed == app = "none"

\* rc_log_adapter_destroy returns, also when Stop did not fit into the full
\* channel, when the callback had closed the thread before, and when records
\* are being logged.
DestroyReturns == Destroying ~> Destroyed

=============================================================================
