----------------------------- MODULE MCLibrary -----------------------------
(* What the components share at their boundary with the application, for    *)
(* TLC: calls with handles (FfiCalls), logging (RcLog) and HTTP requests    *)
(* (Viaduct).  A behaviour is one of them; the last two share x1 .. x11.    *)
EXTENDS FfiCalls

CONSTANTS Platforms, Loggers, Levels, Filters, Capacity,
          Statuses, MaxRequests, MaxHeaders, Reqwest

VARIABLES part, x1, x2, x3, x4, x5, x6, x7, x8, x9, x10, x11

xs == <<x1, x2, x3, x4, x5, x6, x7, x8, x9, x10, x11>>

RL == INSTANCE RcLog WITH
        platform <- x1, app <- x2, max_level <- x3, logger <- x4, log <- x5, disabled <- x6,
        queue <- x7, stopped <- x8, guard <- x9, bg <- x10, valid <- x11

\* Two names, one of them in two spellings, and one that is not allowed.
MCContentType == [name |-> 2, lower |-> TRUE, valid |-> TRUE]
MCWritten == {[name |-> 1, lower |-> TRUE, valid |-> TRUE], MCContentType,
              [MCContentType EXCEPT !.lower = FALSE], [name |-> 3, lower |-> TRUE, valid |-> FALSE]}
MCJson == [text |-> "json", pad |-> "none", illegal |-> FALSE]
MCValues == {[text |-> "x", pad |-> "newline", illegal |-> FALSE],
             [text |-> "y", pad |-> "blank", illegal |-> FALSE],
             [text |-> "z", pad |-> "none", illegal |-> TRUE]}

Callers == {"t1"}

VI == INSTANCE Viaduct WITH
        Threads <- Callers, Written <- MCWritten, Values <- MCValues,
        ContentType <- MCContentType, Json <- MCJson,
        forced <- x1, callback <- x2, th <- x3, buffers <- x4, requests <- x5

Rest == x6 = 0 /\ x7 = 0 /\ x8 = 0 /\ x9 = 0 /\ x10 = 0 /\ x11 = 0

MCInit ==
    /\ Init
    /\ \/ part = "ffi" /\ x1 = 0 /\ x2 = 0 /\ x3 = 0 /\ x4 = 0 /\ x5 = 0 /\ Rest
       \/ part = "log" /\ RL!Init
       \/ part = "http" /\ VI!Init /\ Rest

MCNext ==
    /\ UNCHANGED part
    /\ \/ part = "ffi" /\ Next /\ UNCHANGED xs
       \/ part = "log" /\ RL!Next /\ UNCHANGED vars
       \/ part = "http" /\ VI!Next /\ UNCHANGED <<vars, x6, x7, x8, x9, x10, x11>>

MCSpec ==
    /\ MCInit /\ [][MCNext]_<<vars, part, xs>>
    /\ \A t \in Loggers \cup {"app"} : WF_xs(part = "log" /\ RL!LogStep(t))
    /\ WF_xs(part = "log" /\ RL!BgStep)
    /\ WF_xs(part = "log" /\ RL!CallStep)

\* The log callback only runs between create and the return of destroy (RcLog).
CallbackStaysValid == part = "log" => RL!CallbackStaysValid

\* rc_log_adapter_destroy returns (RcLog).
DestroyReturns == (part = "log" /\ RL!Destroying) ~> (part = "log" /\ RL!Destroyed)

\* What a request sends under a name is what was last set for it (Viaduct).
LastHeaderWins == part = "http" => VI!LastHeaderWins

=============================================================================
