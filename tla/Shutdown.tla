------------------------------ MODULE Shutdown ------------------------------
(***************************************************************************)
(* The graceful shutdown of main.rs: one task selects between the server   *)
(* and the watchdog, axum runs the signal future in a task of its own, and *)
(* the two meet in a Notify.  notify_waiters wakes whoever is registered   *)
(* at that moment and leaves nothing behind for a later waiter.            *)
(*                                                                         *)
(* Time is discrete and counted only while the watchdog sleeps.            *)
(***************************************************************************)
EXTENDS Integers, FiniteSets

CONSTANTS
    Connections,   \* connections that clients may open
    Grace          \* SHUTDOWN_GRACE, in ticks

ASSUME ShutdownAssumption ==
    /\ IsFiniteSet(Connections)
    /\ Grace \in Nat \ {0}

VARIABLES
    select,        \* the select of main: "boot", "server" polled, "both" polled
    signalTask,    \* "none", "spawned", "armed" (handlers installed), "ended"
    signalled,     \* SIGTERM or SIGINT has arrived
    draining,      \* the server has stopped accepting
    open,          \* connections with work in flight
    opened,        \* connections seen so far
    watchdog,      \* "unpolled", "registered", "notified", "sleeping"
    slept,         \* ticks the watchdog has slept
    elapsed,       \* ticks since the drain began, counted up to Grace
    exit           \* "none", "clean" or "forced"

vars == <<select, signalTask, signalled, draining, open, opened, watchdog, slept,
          elapsed, exit>>

TypeOK ==
    /\ select \in {"boot", "server", "both"}
    /\ signalTask \in {"none", "spawned", "armed", "ended"}
    /\ signalled \in BOOLEAN
    /\ draining \in BOOLEAN
    /\ opened \in SUBSET Connections
    /\ open \in SUBSET opened
    /\ watchdog \in {"unpolled", "registered", "notified", "sleeping"}
    /\ slept \in 0..Grace
    /\ elapsed \in 0..Grace
    /\ exit \in {"none", "clean", "forced"}

Init ==
    /\ select = "boot"
    /\ signalTask = "none"
    /\ signalled = FALSE
    /\ draining = FALSE
    /\ open = {}
    /\ opened = {}
    /\ watchdog = "unpolled"
    /\ slept = 0
    /\ elapsed = 0
    /\ exit = "none"

Running == exit = "none"

-----------------------------------------------------------------------------
(* The task of main                                                        *)

\* biased: the server is polled first; its first poll spawns the signal task.
PollServer ==
    /\ Running
    /\ select = "boot"
    /\ select' = "server"
    /\ signalTask' = "spawned"
    /\ UNCHANGED <<signalled, draining, open, opened, watchdog, slept, elapsed, exit>>

\* Mutated: the grace period is counted from the start of the service.
PollWatchdog_WholeServe ==
    /\ Running
    /\ select = "server"
    /\ select' = "both"
    /\ watchdog' = "sleeping"
    /\ UNCHANGED <<signalTask, signalled, draining, open, opened, slept, elapsed, exit>>

\* The first poll of the watchdog creates the Notified future and registers it.
PollWatchdog ==
    /\ Running
    /\ select = "server"
    /\ select' = "both"
    /\ watchdog' = "registered"
    /\ UNCHANGED <<signalTask, signalled, draining, open, opened, slept, elapsed, exit>>

\* The watchdog wakes up and sleeps for the grace period.
StartSleep ==
    /\ Running
    /\ watchdog = "notified"
    /\ watchdog' = "sleeping"
    /\ UNCHANGED <<select, signalTask, signalled, draining, open, opened, slept,
                   elapsed, exit>>

\* The server future completes: it drains and no connection is left.  That it returns
\* an error, which ends the process at once, is left out: axum says that it never does.
ServerDone ==
    /\ Running
    /\ select = "both"
    /\ draining
    /\ open = {}
    /\ exit' = "clean"
    /\ UNCHANGED <<select, signalTask, signalled, draining, open, opened, watchdog,
                   slept, elapsed>>

\* Mutated: the watchdog gives up one tick early.
ForceExit_Early ==
    /\ Running
    /\ watchdog = "sleeping"
    /\ slept + 1 >= Grace
    /\ ~(draining /\ open = {})
    /\ exit' = "forced"
    /\ UNCHANGED <<select, signalTask, signalled, draining, open, opened, watchdog,
                   slept, elapsed>>

\* The grace period is over and the server, asked first, is not done.
ForceExit ==
    /\ Running
    /\ watchdog = "sleeping"
    /\ slept = Grace
    /\ ~(draining /\ open = {})
    /\ exit' = "forced"
    /\ UNCHANGED <<select, signalTask, signalled, draining, open, opened, watchdog,
                   slept, elapsed>>

-----------------------------------------------------------------------------
(* The signal task, and the operating system                               *)

InstallHandlers ==
    /\ Running
    /\ signalTask = "spawned"
    /\ signalTask' = "armed"
    /\ UNCHANGED <<select, signalled, draining, open, opened, watchdog, slept, elapsed, exit>>

Signal ==
    /\ Running
    /\ signalTask = "armed"
    /\ ~signalled
    /\ signalled' = TRUE
    /\ UNCHANGED <<select, signalTask, draining, open, opened, watchdog, slept, elapsed, exit>>

\* Mutated: the drain begins without telling the watchdog.
BeginDrain_Silent ==
    /\ Running
    /\ signalTask = "armed"
    /\ signalled
    /\ signalTask' = "ended"
    /\ draining' = TRUE
    /\ UNCHANGED <<select, signalled, open, opened, watchdog, slept, elapsed, exit>>

\* notify_waiters reaches the watchdog if it is registered by now; the signal
\* future ends and the server stops accepting.
BeginDrain ==
    /\ Running
    /\ signalTask = "armed"
    /\ signalled
    /\ signalTask' = "ended"
    /\ draining' = TRUE
    /\ watchdog' = IF watchdog = "registered" THEN "notified" ELSE watchdog
    /\ UNCHANGED <<select, signalled, open, opened, slept, elapsed, exit>>

-----------------------------------------------------------------------------
(* Connections and time                                                    *)

Open(c) ==
    /\ Running
    /\ select # "boot"
    /\ ~draining
    /\ c \notin opened
    /\ opened' = opened \cup {c}
    /\ open' = open \cup {c}
    /\ UNCHANGED <<select, signalTask, signalled, draining, watchdog, slept, elapsed, exit>>

Close(c) ==
    /\ Running
    /\ c \in open
    /\ open' = open \ {c}
    /\ UNCHANGED <<select, signalTask, signalled, draining, opened, watchdog, slept,
                   elapsed, exit>>

Tick ==
    /\ Running
    /\ draining \/ watchdog = "sleeping"
    /\ slept < Grace
    /\ slept' = IF watchdog = "sleeping" THEN slept + 1 ELSE slept
    /\ elapsed' = IF draining /\ elapsed < Grace THEN elapsed + 1 ELSE elapsed
    /\ UNCHANGED <<select, signalTask, signalled, draining, open, opened, watchdog, exit>>

Main == PollServer \/ PollWatchdog \/ StartSleep \/ ServerDone \/ ForceExit

SignalTask == InstallHandlers \/ BeginDrain

Next ==
    \/ Main \/ SignalTask \/ Signal \/ Tick
    \/ \E c \in Connections : Open(c) \/ Close(c)

Spec == Init /\ [][Next]_vars

\* Tasks are scheduled and time passes; a connection may stay open for ever.
LiveSpec == Spec /\ WF_vars(Main) /\ WF_vars(SignalTask) /\ WF_vars(Tick)

-----------------------------------------------------------------------------

\* Connections that still work are cut only after the whole grace period, and
\* never when the drain is complete, even if both happen in the same instant
\* (the order of the select's branches).
CutOnlyAfterGrace ==
    exit = "forced" => elapsed = Grace /\ open # {}

\* The process never ends while the server serves: the watchdog does not fire,
\* and the server does not return, unless a signal asked for it.
EndsOnlyWhenAsked == exit # "none" => signalled /\ draining

\* A shutdown whose signal finds the watchdog registered before the drain begins
\* ends within the grace period, even if a connection never closes.
WatchedShutdownEnds ==
    (signalled /\ ~draining /\ watchdog = "registered") ~> (exit # "none")

(***************************************************************************)
(* What DESIGN.md promises: after the signal the process ends within the   *)
(* grace period, whatever the connections do.                              *)
(***************************************************************************)
ShutdownEnds == signalled ~> (exit # "none")
=============================================================================
