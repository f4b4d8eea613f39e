--------------------------- MODULE ExchangeProofs ---------------------------
(***************************************************************************)
(* Proofs about IdleTimeoutBody and Exchange for all timeouts and any      *)
(* number of frames.  Exchange adds a handler that the body never waits    *)
(* for, so what is proved of a body alone holds of an upload; what the     *)
(* handler concludes from its own timeout is proved of Exchange.           *)
(***************************************************************************)
EXTENDS Exchange, TLAPS

\* Every frame the inner body has had was handed on or waits.
FramesInv == produced = bytes + (IF ready THEN 1 ELSE 0)

\* Who wakes the task; only a frame that was handed on takes its room.
WakeInv ==
    /\ NoLostWakeup
    /\ age = Unset => room /\ woken
    /\ bytes = 0 => room

\* The timer runs no faster than the inner body is quiet, unless time passed
\* without room, or there is news that the next poll sees before the timer.
ClockInv ==
    /\ ~room /\ ~stalled => age = 0
    /\ outcome = "open" /\ quiet = Timeout => lull
    /\ outcome = "open" /\ ready => quiet = 0 \/ quiet <= age
    /\ outcome = "open" /\ age # Unset /\ ~lull /\ ~stalled =>
          \/ age <= quiet
          \/ CanPoll /\ (ready \/ tail # "open") /\ age < Timeout

\* A body that has ended has nothing to hand on: not before its final line, and
\* not after it.
EndInv ==
    /\ outcome = "timed_out" => age = Timeout /\ (lull \/ stalled)
    /\ outcome \in {"complete", "failed"} => ~ready /\ tail # "open"
    /\ finished => outcome # "open"
    /\ lines = IF finished THEN 1 ELSE 0
    /\ finished => logged = bytes

BodyInv == TypeOK /\ FramesInv /\ WakeInv /\ ClockInv /\ EndInv

-----------------------------------------------------------------------------

LEMMA InitBodyInv == Init => BodyInv
<1> SUFFICES ASSUME Init PROVE BodyInv
  OBVIOUS
<1> USE TimeoutAssumption DEF Init, Unset
<1>1. TypeOK
  <2>1. /\ timerWakes \in BOOLEAN /\ innerWakes \in BOOLEAN /\ woken \in BOOLEAN
        /\ room \in BOOLEAN /\ ready \in BOOLEAN /\ lull \in BOOLEAN
        /\ stalled \in BOOLEAN /\ finished \in BOOLEAN
    OBVIOUS
  <2>2. /\ age \in {Unset} \cup 0..Timeout /\ quiet \in 0..Timeout /\ lines \in Nat
        /\ produced \in 0..MaxFrames /\ bytes \in 0..MaxFrames /\ logged \in 0..MaxFrames
    OBVIOUS
  <2>3. tail \in {"open", "trailer", "end", "error"} /\ outcome \in Outcomes
    BY DEF Outcomes
  <2> QED
    BY <2>1, <2>2, <2>3 DEF TypeOK
<1>2. FramesInv /\ WakeInv
  BY DEF FramesInv, WakeInv, NoLostWakeup
<1>3. ClockInv /\ EndInv
  BY DEF ClockInv, EndInv
<1> QED
  BY <1>1, <1>2, <1>3 DEF BodyInv

\* What the first poll makes of the timer.
LEMMA AgeAtPollType ==
  ASSUME TypeOK
  PROVE  AgeAtPoll \in 0..Timeout /\ (Expired => age = Timeout)
BY TimeoutAssumption DEF TypeOK, AgeAtPoll, Expired, Unset

LEMMA NextTypes == BodyInv /\ [Next]_vars => TypeOK'
<1> SUFFICES ASSUME BodyInv, [Next]_vars PROVE TypeOK'
  OBVIOUS
<1>1. TypeOK /\ FramesInv
  BY DEF BodyInv
<1>2. AgeAtPoll \in 0..Timeout
  BY <1>1, AgeAtPollType
<1> USE TimeoutAssumption DEF TypeOK
<1>3. ASSUME NEW how \in Outcomes, EndWith(how)
      PROVE  outcome' \in Outcomes /\ finished' \in BOOLEAN /\ lines' \in Nat
             /\ logged' \in 0..MaxFrames
  <2>1. outcome' \in Outcomes
    BY <1>1, <1>3 DEF EndWith
  <2>2. finished' \in BOOLEAN
    BY <1>3 DEF EndWith, LogFinal
  <2>3. lines' \in Nat /\ logged' \in 0..MaxFrames
    BY <1>1, <1>3 DEF EndWith, LogFinal
  <2> QED
    BY <2>1, <2>2, <2>3
<1>a. {"timed_out", "complete", "failed", "dropped"} \subseteq Outcomes
  BY DEF Outcomes
<1>4. CASE PollExpired
  BY <1>1, <1>2, <1>3, <1>4, <1>a DEF PollExpired
<1>5. CASE PollData
  <2>1. bytes' \in 0..MaxFrames
    BY <1>1, <1>5 DEF PollData, FramesInv
  <2>2. /\ timerWakes' \in BOOLEAN /\ innerWakes' \in BOOLEAN /\ ready' \in BOOLEAN
        /\ lull' \in BOOLEAN /\ stalled' \in BOOLEAN /\ room' \in BOOLEAN
    BY <1>5 DEF PollData
  <2>3. age' \in 0..Timeout
    BY <1>5 DEF PollData
  <2>4. UNCHANGED <<woken, tail, produced, quiet, outcome, finished, lines, logged>>
    BY <1>5 DEF PollData, log
  <2> QED
    BY <1>1, <2>1, <2>2, <2>3, <2>4
<1>6. CASE PollEnd
  <2>1. age' \in 0..Timeout
    BY <1>2, <1>6 DEF PollEnd
  <2>2. EndWith("complete")
    BY <1>6 DEF PollEnd
  <2>3. /\ tail' = "end" /\ timerWakes' = TRUE
        /\ UNCHANGED <<innerWakes, woken, room, ready, produced, quiet, lull, stalled, bytes>>
    BY <1>6 DEF PollEnd
  <2> QED
    BY <1>1, <1>3, <1>a, <2>1, <2>2, <2>3
<1>7. CASE PollFail
  <2>1. EndWith("failed")
    BY <1>7 DEF PollFail
  <2>2. /\ age' = AgeAtPoll /\ tail' = "end" /\ timerWakes' = TRUE
        /\ UNCHANGED <<innerWakes, woken, room, ready, produced, quiet, lull, stalled, bytes>>
    BY <1>7 DEF PollFail
  <2> QED
    BY <1>1, <1>2, <1>3, <1>a, <2>1, <2>2
<1>8. CASE PollPending
  BY <1>1, <1>2, <1>8 DEF PollPending, inner, log
<1>9. CASE TimerFires \/ Resume \/ DropBody
  BY <1>1, <1>9, <1>a, ZenonT(60) DEF TimerFires, Resume, DropBody, timer, inner, log
<1>10. CASE Produce \/ Close
  <2>1. /\ woken' \in BOOLEAN /\ innerWakes' \in BOOLEAN /\ ready' \in BOOLEAN
        /\ tail' \in {"open", "trailer", "end", "error"}
    BY <1>1, <1>10 DEF Produce, Close, WakeTask
  <2>2. produced' \in 0..MaxFrames /\ quiet' \in 0..Timeout
    BY <1>1, <1>10 DEF Produce, Close
  <2>3. UNCHANGED <<age, timerWakes, room, lull, stalled, bytes, outcome, finished, lines,
                    logged>>
    BY <1>10 DEF Produce, Close, timer, log
  <2> QED
    BY <1>1, <2>1, <2>2, <2>3
<1>11. CASE Tick
  <2>1. age' \in {Unset} \cup 0..Timeout /\ quiet' \in 0..Timeout
    BY <1>1, <1>11 DEF Tick, Capped, Unset
  <2>2. lull' \in BOOLEAN /\ stalled' \in BOOLEAN
    BY <1>11 DEF Tick
  <2>3. UNCHANGED <<timerWakes, innerWakes, woken, room, ready, tail, produced, bytes,
                    outcome, finished, lines, logged>>
    BY <1>11 DEF Tick, log
  <2> QED
    BY <1>1, <2>1, <2>2, <2>3
<1>12. CASE UNCHANGED vars
  BY <1>1, <1>12 DEF vars
<1> QED
  BY <1>4, <1>5, <1>6, <1>7, <1>8, <1>9, <1>10, <1>11, <1>12 DEF Next, PollFrame

LEMMA NextFrames == BodyInv /\ [Next]_vars => FramesInv'
<1> SUFFICES ASSUME BodyInv, [Next]_vars PROVE FramesInv'
  OBVIOUS
<1>1. /\ FramesInv
      /\ produced \in Nat /\ bytes \in Nat /\ ready \in BOOLEAN
  BY TimeoutAssumption DEF BodyInv, TypeOK
<1>2. CASE UNCHANGED <<produced, bytes, ready>>
  BY <1>1, <1>2 DEF FramesInv
<1>3. CASE PollData
  BY <1>1, <1>3 DEF PollData, FramesInv
<1>4. CASE Produce
  BY <1>1, <1>4 DEF Produce, FramesInv
<1> QED
  BY <1>2, <1>3, <1>4 DEF Next, PollFrame, PollExpired, PollEnd, PollFail, PollPending,
     TimerFires, Close, Resume, DropBody, Tick, vars, inner

LEMMA NextWake == BodyInv /\ [Next]_vars => WakeInv'
<1> SUFFICES ASSUME BodyInv, [Next]_vars PROVE WakeInv'
  OBVIOUS
<1>1. WakeInv /\ AgeAtPoll # Unset /\ bytes \in Nat
  BY AgeAtPollType DEF BodyInv, Unset, TypeOK
<1> USE <1>1 DEF WakeInv, NoLostWakeup
<1>2. CASE PollExpired
  BY <1>2 DEF PollExpired, EndWith, CanPoll
<1>3. CASE PollData
  BY <1>3 DEF PollData, CanPoll, Unset
<1>4. CASE PollEnd \/ PollFail
  BY <1>4 DEF PollEnd, PollFail, EndWith, CanPoll
<1>5. CASE PollPending
  BY <1>5 DEF PollPending, CanPoll
<1>6. CASE TimerFires \/ Resume
  BY <1>6 DEF TimerFires, Resume, timer
<1>7. CASE Produce \/ Close
  <2>1. /\ UNCHANGED <<age, timerWakes, room, bytes, outcome>>
        /\ woken' = (woken \/ innerWakes)
    BY <1>7 DEF Produce, Close, WakeTask, timer
  <2>2. (outcome = "open" /\ room => woken') /\ (woken => woken')
    BY <2>1
  <2> QED
    BY <2>1, <2>2
<1>8. CASE DropBody
  BY <1>8 DEF DropBody, timer
<1>9. CASE Tick
  <2>1. age' = Unset => age = Unset
    BY <1>9 DEF Tick, Capped, BodyInv, TypeOK, Unset
  <2> QED
    BY <1>9, <2>1 DEF Tick
<1>10. CASE UNCHANGED vars
  BY <1>10 DEF vars
<1> QED
  BY <1>2, <1>3, <1>4, <1>5, <1>6, <1>7, <1>8, <1>9, <1>10 DEF Next, PollFrame

\* Data and the end wake a task that has room; without room the timer either has
\* not run since, or the time that passed counts as a stall.
LEMMA NextClock == BodyInv /\ [Next]_vars => ClockInv'
<1> SUFFICES ASSUME BodyInv, [Next]_vars PROVE ClockInv'
  OBVIOUS
<1>1. TypeOK /\ WakeInv /\ ClockInv
  BY DEF BodyInv
<1>2. /\ age = Unset \/ age \in 0..Timeout
      /\ quiet \in 0..Timeout /\ Timeout \in Nat \ {0}
      /\ AgeAtPoll \in 0..Timeout
  BY <1>1, AgeAtPollType, TimeoutAssumption DEF TypeOK
<1>3. CASE PollExpired \/ PollEnd \/ PollFail
  <2>1. outcome' # "open" /\ room'
    BY <1>3 DEF PollExpired, PollEnd, PollFail, EndWith, CanPoll
  <2> QED
    BY <2>1 DEF ClockInv
<1>4. CASE PollData
  <2>1. outcome = "open" => quiet < Timeout
    BY <1>1, <1>2, <1>4 DEF PollData, Expired, AgeAtPoll, Unset, ClockInv
  <2>2. age' = 0 /\ ~ready' /\ quiet' = quiet /\ outcome' = outcome
    BY <1>4 DEF PollData
  <2> QED
    BY <1>2, <2>1, <2>2 DEF ClockInv
<1>5. CASE PollPending
  <2>1. /\ room /\ ~ready /\ tail = "open" /\ age' = AgeAtPoll
        /\ UNCHANGED <<room, ready, tail, quiet, lull, stalled, outcome>>
    BY <1>5 DEF PollPending, CanPoll, inner
  <2>2. AgeAtPoll = 0 \/ AgeAtPoll = age
    BY DEF AgeAtPoll
  <2> QED
    BY <1>1, <1>2, <2>1, <2>2 DEF ClockInv, Unset
<1>6. CASE TimerFires \/ Resume
  <2>1. /\ woken' /\ (room => room')
        /\ room' = room \/ room'
        /\ UNCHANGED <<age, ready, tail, quiet, lull, stalled, outcome>>
    BY <1>6 DEF TimerFires, Resume, timer, inner
  <2> QED
    BY <1>1, <2>1 DEF ClockInv, CanPoll
<1>7. CASE Produce \/ Close
  <2>1. /\ outcome = "open" /\ outcome' = "open" /\ quiet' = 0
        /\ UNCHANGED <<age, room, lull, stalled>>
        /\ woken' = (woken \/ innerWakes)
        /\ ready' \/ tail' # "open"
    BY <1>7 DEF Produce, Close, WakeTask, timer
  <2>2. room => woken'
    BY <1>1, <2>1 DEF WakeInv, NoLostWakeup
  <2>3. ASSUME age # Unset, ~lull, ~stalled
        PROVE  age = 0 \/ (room /\ woken' /\ age < Timeout)
    <3>1. CASE ~room
      BY <1>1, <2>3, <3>1 DEF ClockInv
    <3>2. CASE room
      BY <1>1, <1>2, <2>1, <2>2, <2>3, <3>2 DEF ClockInv, CanPoll
    <3> QED
      BY <3>1, <3>2
  <2> QED
    BY <1>1, <1>2, <2>1, <2>3 DEF ClockInv, CanPoll
<1>8. CASE DropBody
  BY <1>1, <1>8 DEF DropBody, ClockInv, timer
<1>9. CASE Tick
  <2>1. /\ ~CanPoll /\ outcome = "open" /\ age # Unset
        /\ age' = Capped(age) /\ quiet' = Capped(quiet)
        /\ lull' = (lull \/ quiet' = Timeout) /\ stalled' = (stalled \/ ~room)
        /\ UNCHANGED <<room, woken, ready, tail, outcome>>
    BY <1>1, <1>9 DEF Tick, WakeInv, CanPoll
  <2>2. ~room' => stalled'
    BY <2>1
  <2>3. quiet' = Timeout => lull'
    BY <2>1
  <2>4. ready => quiet' <= age'
    BY <1>1, <1>2, <2>1 DEF ClockInv, Capped, Unset
  <2>5. ~lull' /\ ~stalled' => age' <= quiet'
    <3>1. ~lull /\ ~stalled => age <= quiet
      BY <1>1, <2>1 DEF ClockInv
    <3>2. age <= quiet => age' <= quiet'
      BY <1>2, <2>1 DEF Capped, Unset
    <3> QED
      BY <2>1, <3>1, <3>2
  <2> QED
    BY <2>1, <2>2, <2>3, <2>4, <2>5 DEF ClockInv
<1>10. CASE UNCHANGED vars
  BY <1>1, <1>10 DEF vars, ClockInv, CanPoll
<1> QED
  BY <1>3, <1>4, <1>5, <1>6, <1>7, <1>8, <1>9, <1>10 DEF Next, PollFrame

LEMMA NextEnd == BodyInv /\ [Next]_vars => EndInv'
<1> SUFFICES ASSUME BodyInv, [Next]_vars PROVE EndInv'
  OBVIOUS
<1>1. TypeOK /\ ClockInv /\ EndInv
  BY DEF BodyInv
<1>2. Expired => age = Timeout
  BY <1>1, AgeAtPollType
<1>3. ASSUME NEW how \in {"timed_out", "complete", "failed"}, EndWith(how), bytes' = bytes
      PROVE  /\ outcome' # "open"
             /\ lines' = IF finished' THEN 1 ELSE 0
             /\ finished' => logged' = bytes'
  BY <1>1, <1>3 DEF EndWith, LogFinal, EndInv
<1>4. CASE PollExpired
  <2>1. /\ age = Timeout /\ age' = Timeout
        /\ EndWith("timed_out")
        /\ UNCHANGED <<ready, tail, lull, stalled, bytes, quiet>>
    BY <1>2, <1>4, TimeoutAssumption DEF PollExpired, AgeAtPoll, Unset
  <2>2. outcome = "open" => lull \/ stalled
    BY <1>1, <2>1, TimeoutAssumption DEF ClockInv, TypeOK, Unset
  <2>3. outcome' = IF outcome = "open" THEN "timed_out" ELSE outcome
    BY <2>1 DEF EndWith
  <2> QED
    BY <1>1, <1>3, <2>1, <2>2, <2>3 DEF EndInv
<1>5. CASE PollData
  <2>1. outcome = "open" /\ outcome' = "open" /\ UNCHANGED <<finished, lines>>
    BY <1>1, <1>5, TimeoutAssumption
       DEF PollData, log, EndInv, CanPoll, Expired, AgeAtPoll, TypeOK, Outcomes, Unset
  <2>2. ~finished /\ lines = 0
    BY <1>1, <2>1 DEF EndInv
  <2> QED
    BY <2>1, <2>2 DEF EndInv
<1>6. ASSUME NEW how \in {"complete", "failed"}, EndWith(how), ~Expired,
             ~ready', tail' # "open", bytes' = bytes
      PROVE  EndInv'
  <2>1. outcome # "timed_out"
    BY <1>1, <1>6, TimeoutAssumption DEF EndInv, Expired, AgeAtPoll, Unset
  <2>2. outcome' # "timed_out"
    BY <1>6, <2>1 DEF EndWith
  <2> QED
    BY <1>3, <1>6, <2>2 DEF EndInv
<1>7. CASE PollEnd \/ PollFail
  BY <1>6, <1>7 DEF PollEnd, PollFail
<1>8. CASE PollPending
  <2>1. outcome = "open" /\ outcome' = "open" /\ UNCHANGED <<finished, lines>>
    BY <1>1, <1>8, TimeoutAssumption
       DEF PollPending, log, EndInv, CanPoll, Expired, AgeAtPoll, TypeOK, Outcomes, Unset
  <2>2. ~finished /\ lines = 0
    BY <1>1, <2>1 DEF EndInv
  <2> QED
    BY <2>1, <2>2 DEF EndInv
<1>9. CASE TimerFires \/ Resume
  BY <1>1, <1>9 DEF TimerFires, Resume, timer, inner, log, EndInv
<1>10. CASE Produce \/ Close \/ Tick
  BY <1>1, <1>10 DEF Produce, Close, Tick, timer, log, EndInv
<1>11. CASE DropBody
  BY <1>1, <1>11 DEF DropBody, log, EndInv
<1>12. CASE UNCHANGED vars
  BY <1>1, <1>12 DEF vars, EndInv
<1> QED
  BY <1>4, <1>5, <1>7, <1>8, <1>9, <1>10, <1>11, <1>12 DEF Next, PollFrame

LEMMA NextBodyInv == BodyInv /\ [Next]_vars => BodyInv'
BY NextTypes, NextFrames, NextWake, NextClock, NextEnd DEF BodyInv

-----------------------------------------------------------------------------
(* A body, whoever polls it                                                *)

\* The body, its timer and its task are type correct.
THEOREM BodyTypeCorrect == Spec => []TypeOK
<1>1. BodyInv => TypeOK
  BY DEF BodyInv
<1> QED
  BY InitBodyInv, NextBodyInv, <1>1, PTL DEF Spec

\* No path through poll_frame returns Pending and leaves nobody to wake the task:
\* the timer that reset_sleep put in place has always been polled.
THEOREM TaskIsAlwaysWoken == Spec => []NoLostWakeup
<1>1. BodyInv => NoLostWakeup
  BY DEF BodyInv, WakeInv
<1> QED
  BY InitBodyInv, NextBodyInv, <1>1, PTL DEF Spec

\* poll_frame ends a body for idleness only when it was idle, or not asked for.
THEOREM TimeoutIsDeserved == Spec => []TimeoutMeansIdle
<1>1. BodyInv => TimeoutMeansIdle
  BY DEF BodyInv, EndInv, TimeoutMeansIdle
<1> QED
  BY InitBodyInv, NextBodyInv, <1>1, PTL DEF Spec

\* The final line of a body is written once and counts what was handed on.
THEOREM FinalLineIsUnique == Spec => []OneFinalLine
<1>1. BodyInv => OneFinalLine
  <2>1. BodyInv => lines = (IF finished THEN 1 ELSE 0) /\ (finished => logged = bytes)
    BY DEF BodyInv, EndInv
  <2> QED
    BY <2>1 DEF OneFinalLine
<1> QED
  BY InitBodyInv, NextBodyInv, <1>1, PTL DEF Spec

-----------------------------------------------------------------------------
(* The upload of an exchange                                               *)

LEMMA ExchangeStepIsBodyStep == [ExchangeNext]_exchange => [Next]_vars
BY DEF ExchangeNext, BodyStep, Answer, HeadersExpire, ConnectionEnds, SentInFull,
   ConnectionBreaks, ExchangeTick, Next, exchange

\* The handler only watches: the body of an exchange does what a body does, and
\* whatever holds of a body holds of the upload of forward_request.
THEOREM ExchangeImplementsBody == ExchangeSpec => Spec
BY ExchangeStepIsBodyStep, PTL DEF ExchangeSpec, ExchangeInit, Spec

ExchangeInv == BodyInv /\ ExchangeTypeOK

LEMMA InitExchange == ExchangeInit => ExchangeInv
<1> SUFFICES ASSUME ExchangeInit PROVE ExchangeInv
  OBVIOUS
<1>1. BodyInv
  BY InitBodyInv DEF ExchangeInit
<1>2. head = "waiting" /\ waited = 0 /\ 0 \in 0..HeadersTimeout
  BY HeadersAssumption DEF ExchangeInit
<1> QED
  BY <1>1, <1>2 DEF ExchangeInv, ExchangeTypeOK, BodyInv

LEMMA NextExchange == ExchangeInv /\ [ExchangeNext]_exchange => ExchangeInv'
<1> SUFFICES ASSUME ExchangeInv, [ExchangeNext]_exchange PROVE ExchangeInv'
  OBVIOUS
<1>1. BodyInv'
  BY ExchangeStepIsBodyStep, NextBodyInv DEF ExchangeInv
<1>2. head \in {"waiting", "answered", "timed_out", "failed"} /\ waited \in 0..HeadersTimeout
  BY DEF ExchangeInv, ExchangeTypeOK
<1>3. head' \in {"waiting", "answered", "timed_out", "failed"}
  BY <1>2 DEF ExchangeNext, BodyStep, Answer, HeadersExpire, ConnectionEnds, SentInFull,
     ConnectionBreaks, ExchangeTick, exchange
<1>4. waited' = waited \/ (waited' = waited + 1 /\ waited < HeadersTimeout)
  BY DEF ExchangeNext, BodyStep, Answer, HeadersExpire, ConnectionEnds, SentInFull,
     ConnectionBreaks, ExchangeTick, exchange
<1>5. waited' \in 0..HeadersTimeout
  BY <1>2, <1>4, HeadersAssumption
<1> QED
  BY <1>1, <1>3, <1>5 DEF ExchangeInv, ExchangeTypeOK, BodyInv

\* The upload and the handler that waits beside it are type correct.
THEOREM ExchangeTypeCorrect == ExchangeSpec => []ExchangeTypeOK
<1>1. ExchangeInv => ExchangeTypeOK
  BY DEF ExchangeInv
<1> QED
  BY InitExchange, NextExchange, <1>1, PTL DEF ExchangeSpec

\* While a client sends nothing, the timer of its upload and the wait for the
\* headers start together, and the timer comes first.
SilentInv ==
    head = "waiting" /\ produced = 0 /\ tail = "open" =>
        /\ outcome # "dropped"
        /\ waited <= Timeout
        /\ outcome = "open" => waited <= IF age = Unset THEN 0 ELSE age

LEMMA InitSilent == ExchangeInit => SilentInv
BY TimeoutAssumption DEF ExchangeInit, Init, SilentInv, Unset

LEMMA NextSilent == ExchangeInv /\ SilentInv /\ [ExchangeNext]_exchange => SilentInv'
<1> SUFFICES ASSUME ExchangeInv, SilentInv, [ExchangeNext]_exchange,
                    head' = "waiting", produced' = 0, tail' = "open"
             PROVE  /\ outcome' # "dropped"
                    /\ waited' <= Timeout
                    /\ outcome' = "open" => waited' <= IF age' = Unset THEN 0 ELSE age'
  BY DEF SilentInv
<1>1. /\ TypeOK /\ FramesInv /\ WakeInv /\ EndInv
      /\ head \in {"waiting", "answered", "timed_out", "failed"}
      /\ waited \in 0..HeadersTimeout
  BY DEF ExchangeInv, BodyInv, ExchangeTypeOK
<1>2. /\ age = Unset \/ age \in 0..Timeout
      /\ produced \in Nat /\ bytes \in Nat /\ waited \in Nat /\ Timeout \in Nat
      /\ outcome \in Outcomes
  BY <1>1, TimeoutAssumption, HeadersAssumption DEF TypeOK
<1>3. head = "waiting"
  BY <1>1 DEF ExchangeNext, BodyStep, Answer, HeadersExpire, ConnectionEnds, SentInFull,
     ConnectionBreaks, ExchangeTick, exchange
<1>4. produced = 0 /\ tail = "open"
  <2>1. CASE UNCHANGED vars
    BY <2>1 DEF vars
  <2>2. CASE Next
    <3>1. tail = "open"
      BY <2>2 DEF Next, PollFrame, PollExpired, PollData, PollEnd, PollFail, PollPending,
         TimerFires, Produce, Close, Resume, DropBody, Tick, inner
    <3>2. produced' = produced \/ produced' = produced + 1
      BY <2>2 DEF Next, PollFrame, PollExpired, PollData, PollEnd, PollFail, PollPending,
         TimerFires, Produce, Close, Resume, DropBody, Tick, inner
    <3> QED
      BY <1>2, <3>1, <3>2
  <2> QED
    BY <2>1, <2>2, ExchangeStepIsBodyStep
<1>5. /\ outcome # "dropped" /\ waited <= Timeout
      /\ outcome = "open" => waited <= IF age = Unset THEN 0 ELSE age
  BY <1>3, <1>4 DEF SilentInv
<1>6. bytes = 0 /\ ~ready /\ room
  BY <1>1, <1>2, <1>4 DEF FramesInv, WakeInv
<1>7. CASE BodyStep
  <2>1. waited' = waited
    BY <1>7 DEF BodyStep
  <2>2. CASE PollFrame
    <3>1. /\ outcome' # "dropped"
          /\ outcome' = "open" => PollPending
      BY <1>4, <1>5, <1>6, <2>2
         DEF PollFrame, PollExpired, PollData, PollEnd, PollFail, PollPending, EndWith, CanPoll
    <3>2. PollPending => age' = AgeAtPoll /\ outcome' = outcome
      BY DEF PollPending
    <3>3. outcome' = "open" => waited' <= IF age' = Unset THEN 0 ELSE age'
      BY <1>2, <1>5, <2>1, <3>1, <3>2 DEF AgeAtPoll, Unset
    <3> QED
      BY <1>5, <2>1, <3>1, <3>3
  <2>3. CASE TimerFires \/ Produce \/ Close \/ Resume
    <3>1. age' = age /\ outcome' = outcome
      BY <2>3 DEF TimerFires, Produce, Close, Resume, timer
    <3> QED
      BY <1>5, <2>1, <3>1
  <2> QED
    BY <1>7, <2>2, <2>3 DEF BodyStep
<1>8. CASE ExchangeTick
  <2>1. Tick /\ waited' = waited + 1
    BY <1>3, <1>5, <1>8 DEF ExchangeTick
  <2>2. ~woken /\ outcome = "open" /\ outcome' = "open"
    BY <1>5, <1>6, <2>1 DEF Tick, CanPoll
  <2>3. age # Unset /\ age # Timeout
    BY <1>1, <1>6, <2>1, <2>2 DEF WakeInv, NoLostWakeup, Tick, TimerDue
  <2>4. age' = age + 1
    BY <1>2, <2>1, <2>3 DEF Tick, Capped
  <2> QED
    BY <1>2, <1>5, <2>1, <2>2, <2>3, <2>4 DEF Unset
<1>9. CASE SentInFull
  BY <1>1, <1>4, <1>9 DEF SentInFull, EndInv
<1>10. CASE UNCHANGED exchange
  BY <1>5, <1>10 DEF exchange, vars
<1> QED
  BY <1>7, <1>8, <1>9, <1>10
     DEF ExchangeNext, Answer, HeadersExpire, ConnectionEnds, ConnectionBreaks

\* Who sends nothing at all is cut by the idle timeout of the upload, and the
\* upstream is not blamed with a 504, where the idle timeout is the shorter one.
THEOREM SilentClientGetsNoGatewayTimeout ==
  ASSUME Timeout < HeadersTimeout
  PROVE  ExchangeSpec => SilentClientIsNotTheUpstream
<1>1. ExchangeInv /\ SilentInv /\ [ExchangeNext]_exchange
      => [head = "waiting" /\ head' = "timed_out" => produced > 0 \/ tail # "open"]_exchange
  <2> SUFFICES ASSUME ExchangeInv, SilentInv, ExchangeNext,
                      head = "waiting", head' = "timed_out", tail = "open"
               PROVE  produced > 0
    BY DEF exchange
  <2>1. HeadersExpire
    BY DEF ExchangeNext, BodyStep, Answer, HeadersExpire, ConnectionEnds, SentInFull,
       ConnectionBreaks, ExchangeTick
  <2>2. produced \in Nat
    BY TimeoutAssumption DEF ExchangeInv, BodyInv, TypeOK
  <2>3. produced # 0
    BY <2>1, TimeoutAssumption, HeadersAssumption DEF SilentInv, HeadersExpire
  <2> QED
    BY <2>2, <2>3
<1> QED
  BY InitExchange, NextExchange, InitSilent, NextSilent, <1>1, PTL
     DEF ExchangeSpec, SilentClientIsNotTheUpstream
=============================================================================
