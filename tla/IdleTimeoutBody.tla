-------------------------- MODULE IdleTimeoutBody --------------------------
(***************************************************************************)
(* One IdleTimeoutBody (body_timeout.rs) at the level of its polls: the    *)
(* timer, the wake-ups it registers, the inner body, and the task that     *)
(* polls it.                                                               *)
(*                                                                         *)
(* The task belongs to hyper and is modelled as this code meets it: it     *)
(* polls when it was woken, goes on polling while it can buffer what it    *)
(* gets, stops polling while its peer does not take what is buffered, and  *)
(* drops the body when the body has ended or the peer has gone.            *)
(*                                                                         *)
(* Time is discrete.  age counts the ticks since the timer was set, quiet  *)
(* those since the inner body last had something new; both stop at         *)
(* Timeout.  A due timer fires, and a task that is woken and has room      *)
(* polls, before the next tick.                                            *)
(***************************************************************************)
EXTENDS Integers

CONSTANTS
    Timeout,       \* the idle timeout, in ticks
    MaxFrames      \* bound of the model: data frames the inner body produces

ASSUME TimeoutAssumption ==
    /\ Timeout \in Nat \ {0}
    /\ MaxFrames \in Nat

Unset == -1        \* sleep is None

VARIABLES
    age,           \* ticks since reset_sleep, or Unset
    timerWakes,    \* the current Sleep was polled, so it will wake the task
    innerWakes,    \* the inner body was polled to Pending, so it will too
    woken,         \* the task is scheduled
    room,          \* the task can buffer another frame
    ready,         \* a data frame of the inner body is ready
    tail,          \* what comes after it: nothing yet, a trailer, end, error
    produced,      \* data frames the inner body has had so far
    quiet,         \* ticks since the inner body last had something new
    lull,          \* quiet reached Timeout since the last frame was handed on
    stalled,       \* a tick passed without room since then
    bytes,         \* data handed on (IdleTimeoutBody::bytes)
    outcome,       \* how the body ended for the polling task
    finished,      \* IdleTimeoutBody::finished
    lines,         \* final log lines written
    logged         \* the byte count of the last of them

vars == <<age, timerWakes, innerWakes, woken, room, ready, tail, produced, quiet,
          lull, stalled, bytes, outcome, finished, lines, logged>>

timer == <<age, timerWakes>>
inner == <<ready, tail, produced, quiet>>
log   == <<finished, lines, logged>>

Outcomes == {"open", "complete", "timed_out", "failed", "dropped"}

TypeOK ==
    /\ age \in {Unset} \cup 0..Timeout
    /\ timerWakes \in BOOLEAN
    /\ innerWakes \in BOOLEAN
    /\ woken \in BOOLEAN
    /\ room \in BOOLEAN
    /\ ready \in BOOLEAN
    /\ tail \in {"open", "trailer", "end", "error"}
    /\ produced \in 0..MaxFrames
    /\ quiet \in 0..Timeout
    /\ lull \in BOOLEAN
    /\ stalled \in BOOLEAN
    /\ bytes \in 0..MaxFrames
    /\ outcome \in Outcomes
    /\ finished \in BOOLEAN
    /\ lines \in Nat
    /\ logged \in 0..MaxFrames

Init ==
    /\ age = Unset
    /\ timerWakes = FALSE
    /\ innerWakes = FALSE
    /\ woken = TRUE
    /\ room = TRUE
    /\ ready = FALSE
    /\ tail = "open"
    /\ produced = 0
    /\ quiet = 0
    /\ lull = FALSE
    /\ stalled = FALSE
    /\ bytes = 0
    /\ outcome = "open"
    /\ finished = FALSE
    /\ lines = 0
    /\ logged = 0

-----------------------------------------------------------------------------
(* poll_frame                                                              *)

CanPoll == woken /\ room /\ outcome # "dropped"

\* Mutated: every poll starts the timer anew.
AgeAtPoll_Restart == 0

\* The first poll starts the timer.
AgeAtPoll == IF age = Unset THEN 0 ELSE age

Expired == AgeAtPoll >= Timeout

\* The final line, unless it was written before.
LogFinal ==
    /\ finished' = TRUE
    /\ lines' = IF finished THEN lines ELSE lines + 1
    /\ logged' = IF finished THEN logged ELSE bytes

\* Mutated: nothing remembers that the final line was written.
EndWith_LogsAgain(how) ==
    /\ outcome' = IF outcome = "open" THEN how ELSE outcome
    /\ lines' = IF lines < 2 THEN lines + 1 ELSE lines
    /\ logged' = bytes
    /\ UNCHANGED finished

\* poll_frame returns its end or an error.  The task remembers the first end
\* it saw; the body does not, and may be polled again before it is dropped.
EndWith(how) ==
    /\ outcome' = IF outcome = "open" THEN how ELSE outcome
    /\ LogFinal

\* Mutated: the idle limit is hit one tick early.
PollExpired_Early ==
    /\ CanPoll
    /\ AgeAtPoll + 1 >= Timeout
    /\ age' = AgeAtPoll
    /\ EndWith("timed_out")
    /\ UNCHANGED <<timerWakes, innerWakes, woken, room, ready, tail, produced, quiet,
                   lull, stalled, bytes>>

\* The timer is looked at first: expired, the poll fails even if a frame waits.
PollExpired ==
    /\ CanPoll
    /\ Expired
    /\ age' = AgeAtPoll
    /\ EndWith("timed_out")
    /\ UNCHANGED <<timerWakes, innerWakes, woken, room, ready, tail, produced, quiet,
                   lull, stalled, bytes>>

\* A data frame is handed on.  The timer starts anew and will wake nobody until
\* the next poll.  The task may have no room after this frame.
PollData ==
    /\ CanPoll
    /\ ~Expired
    /\ ready
    /\ age' = 0
    /\ timerWakes' = FALSE
    /\ innerWakes' = FALSE
    /\ ready' = FALSE
    /\ bytes' = bytes + 1
    /\ lull' = FALSE
    /\ stalled' = FALSE
    /\ room' \in BOOLEAN
    /\ UNCHANGED <<woken, tail, produced, quiet, outcome, log>>

\* The inner body ended.  A trailer before the end is swallowed by the loop; it
\* counts as activity and sets the timer anew.
PollEnd ==
    /\ CanPoll
    /\ ~Expired
    /\ ~ready
    /\ tail \in {"trailer", "end"}
    /\ age' = IF tail = "trailer" THEN 0 ELSE AgeAtPoll
    /\ timerWakes' = TRUE
    /\ tail' = "end"
    /\ EndWith("complete")
    /\ UNCHANGED <<innerWakes, woken, room, ready, produced, quiet, lull, stalled, bytes>>

\* The inner body failed; polled again it has nothing left.
PollFail ==
    /\ CanPoll
    /\ ~Expired
    /\ ~ready
    /\ tail = "error"
    /\ age' = AgeAtPoll
    /\ timerWakes' = TRUE
    /\ tail' = "end"
    /\ EndWith("failed")
    /\ UNCHANGED <<innerWakes, woken, room, ready, produced, quiet, lull, stalled, bytes>>

\* Mutated: the timer is set anew after it was polled, so it wakes nobody.
PollPending_ResetLast ==
    /\ CanPoll
    /\ ~Expired
    /\ ~ready
    /\ tail = "open"
    /\ age' = 0
    /\ timerWakes' = FALSE
    /\ innerWakes' = TRUE
    /\ woken' = FALSE
    /\ UNCHANGED <<room, inner, lull, stalled, bytes, outcome, log>>

\* Nothing to hand on: timer and inner body will both wake the task.
PollPending ==
    /\ CanPoll
    /\ ~Expired
    /\ ~ready
    /\ tail = "open"
    /\ age' = AgeAtPoll
    /\ timerWakes' = TRUE
    /\ innerWakes' = TRUE
    /\ woken' = FALSE
    /\ UNCHANGED <<room, inner, lull, stalled, bytes, outcome, log>>

PollFrame == PollExpired \/ PollData \/ PollEnd \/ PollFail \/ PollPending

-----------------------------------------------------------------------------
(* The timer, the inner body, the polling task                             *)

TimerDue == timerWakes /\ age = Timeout

TimerFires ==
    /\ TimerDue
    /\ timerWakes' = FALSE
    /\ woken' = TRUE
    /\ UNCHANGED <<age, innerWakes, room, inner, lull, stalled, bytes, outcome, log>>

\* The inner body wakes the task if it was polled to Pending.
WakeTask ==
    /\ woken' = (woken \/ innerWakes)
    /\ innerWakes' = FALSE

\* Data arrives; the inner body reads no further ahead than one frame.
Produce ==
    /\ tail = "open"
    /\ ~ready
    /\ outcome = "open"
    /\ produced < MaxFrames
    /\ ready' = TRUE
    /\ produced' = produced + 1
    /\ quiet' = 0
    /\ WakeTask
    /\ UNCHANGED <<timer, room, tail, lull, stalled, bytes, outcome, log>>

\* The other side ends the inner body, with or without a trailer, or breaks it.
Close ==
    /\ tail = "open"
    /\ outcome = "open"
    /\ tail' \in {"trailer", "end", "error"}
    /\ quiet' = 0
    /\ WakeTask
    /\ UNCHANGED <<timer, room, ready, produced, lull, stalled, bytes, outcome, log>>

\* The peer has taken what was buffered: the task can poll the body again.
Resume ==
    /\ ~room
    /\ outcome = "open"
    /\ room' = TRUE
    /\ woken' = TRUE
    /\ UNCHANGED <<timer, innerWakes, inner, lull, stalled, bytes, outcome, log>>

\* The body is dropped: it has ended, or the peer has gone away.
DropBody ==
    /\ outcome # "dropped"
    /\ outcome' = "dropped"
    /\ UNCHANGED <<timer, innerWakes, woken, room, inner, lull, stalled, bytes, log>>

Capped(n) == IF n < Timeout THEN n + 1 ELSE n

Tick ==
    /\ ~CanPoll
    /\ ~TimerDue
    /\ outcome = "open"
    /\ age' = IF age = Unset THEN age ELSE Capped(age)
    /\ quiet' = Capped(quiet)
    /\ lull' = (lull \/ quiet' = Timeout)
    /\ stalled' = (stalled \/ ~room)
    /\ UNCHANGED <<timerWakes, innerWakes, woken, room, ready, tail, produced, bytes,
                   outcome, log>>

Next == PollFrame \/ TimerFires \/ Produce \/ Close \/ Resume \/ DropBody \/ Tick

Spec == Init /\ [][Next]_vars

-----------------------------------------------------------------------------

\* A task that waits for the body is always woken again, by data or by the idle
\* timer: no path through poll_frame returns Pending with a timer that nobody
\* polled (reset_sleep replaces the Sleep and its registration).
NoLostWakeup ==
    outcome = "open" /\ room /\ ~woken => innerWakes /\ timerWakes /\ age # Unset

\* The body is only ended for idleness if the inner body really had nothing new
\* for the whole timeout, or the task itself had no room since the last frame.
TimeoutMeansIdle == outcome = "timed_out" => lull \/ stalled

\* The final line is written once, however often an ended body is polled, and
\* its byte count is everything that was handed on (finished, bytes).
OneFinalLine == lines <= 1 /\ (lines = 1 => logged = bytes)

\* A task that keeps reading never hangs in a silent body: from every moment on
\* the inner body has another frame, or the transfer ends, by its end, its
\* failure or the idle timeout, unless the task has no room for a while.  Then
\* nothing is promised: a body that nobody polls does not look at its timer
\* (poll_frame; TransferEnds below).
SilenceEndsTransfer ==
    \A n \in 0..MaxFrames :
        (outcome = "open" /\ produced = n)
            ~> (outcome # "open" \/ produced # n \/ ~room)

(***************************************************************************)
(* What the documents say and the code does not do.                        *)
(***************************************************************************)

\* A transfer is never cut for idleness when a frame that came in time waits to
\* be handed on.
NeverCutWhileFlowing == outcome = "timed_out" => lull \/ ~ready

\* A transfer that stops is ended by the idle timeout, on whichever side it
\* stopped.
TransferEnds == <>(outcome # "open")

\* Every transfer that was begun leaves a final line with its byte count.
EveryEndLogged == outcome = "dropped" /\ bytes > 0 => lines = 1
=============================================================================
