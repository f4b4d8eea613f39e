--------------------------- MODULE ShutdownProofs ---------------------------
(***************************************************************************)
(* Proofs about Shutdown for every set of connections and every grace      *)
(* period.  The induction carries what ties the watchdog to the drain: it  *)
(* is woken by nothing else, so it has slept no longer than the drain has  *)
(* lasted.                                                                 *)
(***************************************************************************)
EXTENDS Shutdown, TLAPS

\* The variables of main, its tasks and its connections keep to their ranges.
THEOREM ShutdownTypes == Spec => []TypeOK
<1>1. Init => TypeOK
  <2> SUFFICES ASSUME Init PROVE TypeOK
    OBVIOUS
  <2>1. slept \in 0..Grace /\ elapsed \in 0..Grace
    BY ShutdownAssumption DEF Init
  <2> QED
    BY <2>1 DEF Init, TypeOK
<1>2. TypeOK /\ [Next]_vars => TypeOK'
  <2> SUFFICES ASSUME TypeOK, [Next]_vars PROVE TypeOK'
    OBVIOUS
  <2> USE ShutdownAssumption DEF TypeOK
  <2>1. CASE Main
    BY <2>1 DEF Main, PollServer, PollWatchdog, StartSleep, ServerDone, ForceExit
  <2>2. CASE SignalTask
    BY <2>2 DEF SignalTask, InstallHandlers, BeginDrain
  <2>3. CASE Signal
    BY <2>3 DEF Signal
  <2>4. CASE Tick
    <3>1. slept' \in 0..Grace /\ elapsed' \in 0..Grace
      BY <2>4 DEF Tick
    <3> QED
      BY <2>4, <3>1 DEF Tick
  <2>5. ASSUME NEW c \in Connections, Open(c) PROVE TypeOK'
    BY <2>5 DEF Open
  <2>6. ASSUME NEW c \in Connections, Close(c) PROVE TypeOK'
    BY <2>6 DEF Close
  <2>7. CASE UNCHANGED vars
    BY <2>7 DEF vars
  <2> QED
    BY <2>1, <2>2, <2>3, <2>4, <2>5, <2>6, <2>7 DEF Next
<1> QED
  BY <1>1, <1>2, PTL DEF Spec

\* The watchdog is polled once, and leaves its place in the queue only when the
\* drain begins.
WatchdogFollows ==
  /\ select # "both" => watchdog = "unpolled"
  /\ watchdog \in {"notified", "sleeping"} => draining
  /\ slept > 0 => watchdog = "sleeping"
  /\ slept <= elapsed

\* The drain begins at a signal, and how the process ended fits what is left.
EndsFit ==
  /\ draining => signalled
  /\ exit # "none" => draining
  /\ exit = "forced" => elapsed = Grace /\ open # {}

IInv == TypeOK /\ WatchdogFollows /\ EndsFit

LEMMA InvariantHolds == Spec => []IInv
<1>1. Init => WatchdogFollows /\ EndsFit
  BY DEF Init, WatchdogFollows, EndsFit
<1>2. TypeOK /\ WatchdogFollows /\ EndsFit /\ [Next]_vars => WatchdogFollows' /\ EndsFit'
  <2> SUFFICES ASSUME TypeOK, WatchdogFollows, EndsFit, [Next]_vars
               PROVE  WatchdogFollows' /\ EndsFit'
    OBVIOUS
  <2> USE ShutdownAssumption DEF TypeOK, WatchdogFollows, EndsFit, Running
  <2>1. CASE PollServer
    BY <2>1 DEF PollServer
  <2>2. CASE PollWatchdog
    <3>1. slept = 0
      BY <2>2 DEF PollWatchdog
    <3> QED
      BY <2>2, <3>1 DEF PollWatchdog
  <2>3. CASE StartSleep
    BY <2>3 DEF StartSleep
  <2>4. CASE ServerDone
    BY <2>4 DEF ServerDone
  <2>5. CASE ForceExit
    <3>1. slept = Grace /\ slept <= elapsed /\ elapsed <= Grace /\ draining
      BY <2>5 DEF ForceExit
    <3>2. elapsed = Grace /\ open # {}
      BY <2>5, <3>1 DEF ForceExit
    <3> QED
      BY <2>5, <3>1, <3>2 DEF ForceExit
  <2>6. CASE InstallHandlers
    BY <2>6 DEF InstallHandlers
  <2>7. CASE Signal
    BY <2>7 DEF Signal
  <2>8. CASE BeginDrain
    BY <2>8 DEF BeginDrain
  <2>9. CASE Tick
    <3>1. slept' <= elapsed'
      BY <2>9 DEF Tick
    <3>2. slept' > 0 => watchdog' = "sleeping"
      BY <2>9 DEF Tick
    <3> QED
      BY <2>9, <3>1, <3>2 DEF Tick
  <2>10. ASSUME NEW c \in Connections, Open(c) PROVE WatchdogFollows' /\ EndsFit'
    BY <2>10 DEF Open
  <2>11. ASSUME NEW c \in Connections, Close(c) PROVE WatchdogFollows' /\ EndsFit'
    BY <2>11 DEF Close
  <2>12. CASE UNCHANGED vars
    BY <2>12 DEF vars
  <2> QED
    BY <2>1, <2>2, <2>3, <2>4, <2>5, <2>6, <2>7, <2>8, <2>9, <2>10, <2>11, <2>12
       DEF Next, Main, SignalTask
<1> QED
  BY <1>1, <1>2, ShutdownTypes, PTL DEF Spec, IInv

\* Working connections are cut only when the grace period has passed since the
\* drain began (the watchdog of main).
THEOREM CutsAreLate == Spec => []CutOnlyAfterGrace
<1>1. IInv => CutOnlyAfterGrace
  BY DEF IInv, EndsFit, CutOnlyAfterGrace
<1> QED
  BY <1>1, InvariantHolds, PTL

\* Neither branch of the select ends the process before a signal asks for it.
THEOREM EndsAreAskedFor == Spec => []EndsOnlyWhenAsked
<1>1. IInv => EndsOnlyWhenAsked
  BY DEF IInv, EndsFit, EndsOnlyWhenAsked
<1> QED
  BY <1>1, InvariantHolds, PTL
=============================================================================
