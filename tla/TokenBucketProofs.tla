------------------------- MODULE TokenBucketProofs -------------------------
(***************************************************************************)
(* Proofs about TokenBucket for every rate, clock resolution, duration and *)
(* size of a rounding error.                                               *)
(* The products of constants and durations are kept behind names, because  *)
(* the SMT solver is only asked about linear arithmetic.                   *)
(***************************************************************************)
EXTENDS TokenBucket, TLAPS

IInv == TypeOK /\ WindowInv

LEMMA ConstantTypes ==
  /\ Capacity \in Nat \ {0}
  /\ Token \in Nat \ {0}
  /\ Full \in Nat
  /\ Token <= Full
  /\ Rounding \in Nat
<1>1. Capacity \in Nat \ {0} /\ Token \in Nat \ {0}
  BY BucketAssumption DEF Capacity, Token
<1>2. \A c, t \in Nat \ {0} : c * t \in Nat /\ t <= c * t
  OBVIOUS
<1> QED
  BY <1>1, <1>2, BucketAssumption DEF Full

\* Refilling over two adjacent intervals is refilling over both.
LEMMA RefillAdds ==
  ASSUME NEW a \in Int, NEW b \in Int, NEW c \in Int
  PROVE  (a - b) * Capacity + (b - c) * Capacity = (a - c) * Capacity
BY ConstantTypes

LEMMA RefillMonotone ==
  ASSUME NEW a \in Int, NEW b \in Int, a <= b
  PROVE  a * Capacity \in Int /\ b * Capacity \in Int /\ a * Capacity <= b * Capacity
<1>1. \A c \in Nat, d \in Nat : c * d \in Nat
  OBVIOUS
<1>2. (b - a) * Capacity \in Nat
  BY <1>1, ConstantTypes
<1>3. b * Capacity = a * Capacity + (b - a) * Capacity
  BY ConstantTypes
<1>4. a * Capacity \in Int /\ b * Capacity \in Int
  BY ConstantTypes
<1> QED
  BY <1>2, <1>3, <1>4

LEMMA InitIInv == Init => IInv
<1> SUFFICES ASSUME Init PROVE IInv
  OBVIOUS
<1> USE ConstantTypes, BucketAssumption
<1>1. TypeOK
  BY DEF Init, TypeOK
<1>2. WindowInv
  <2>1. (0 - 0) * Capacity = 0 /\ 0 * Token = 0 /\ 0 * Rounding = 0
    OBVIOUS
  <2> QED
    BY <2>1 DEF Init, WindowInv
<1> QED
  BY <1>1, <1>2 DEF IInv

\* How often the window's refills were rounded once an attempt is made.
Rounded == IF now = last THEN refills ELSE refills + 1

\* What an attempt finds in the bucket obeys the window's two bounds, whether
\* the last refill was inside the window or before it, and whatever the error.
LEMMA RefilledInWindow ==
  ASSUME IInv, NEW e \in Errors
  PROVE  /\ Refilled(e) \in 0..Full
         /\ Rounded \in Nat
         /\ Refilled(e) + granted * Token
                <= Full + (now - mark) * Capacity + Rounded * Rounding
         /\ \/ Full <= Refilled(e) + granted * Token + Rounded * Rounding
            \/ (now - mark) * Capacity
                   <= Refilled(e) + granted * Token + Rounded * Rounding
<1> USE ConstantTypes DEF IInv, TypeOK
<1> DEFINE gain == (now - last) * Capacity
           span == (now - mark) * Capacity
           used == granted * Token
           lost == refills * Rounding
           off == Rounded * Rounding
           before == (last - mark) * Capacity
<1>1. /\ now \in Int /\ last \in Int /\ mark \in Int
      /\ granted \in Nat /\ refills \in Nat /\ Rounded \in Nat /\ tokens \in 0..Full
  BY BucketAssumption DEF Rounded
<1>2. gain \in Nat
  <2>1. 0 * Capacity = 0
    OBVIOUS
  <2>2. now - last \in Int /\ 0 <= now - last
    BY <1>1
  <2> HIDE DEF IInv, TypeOK
  <2> QED
    BY <2>1, <2>2, RefillMonotone
<1>3. span \in Nat
  <2>1. 0 * Capacity = 0
    OBVIOUS
  <2>2. now - mark \in Int /\ 0 <= now - mark
    BY <1>1
  <2> HIDE DEF IInv, TypeOK
  <2> QED
    BY <2>1, <2>2, RefillMonotone
<1>4. used \in Nat /\ lost \in Nat /\ off \in Nat
  <2>1. \A a, b \in Nat : a * b \in Nat
    OBVIOUS
  <2> QED
    BY <2>1, <1>1
<1>5. before \in Int
  BY <1>1
<1>6. gain + before = span
  BY <1>1, RefillAdds
<1>7. /\ e \in Int /\ 0 <= gain + e
      /\ lost <= off
      /\ lost - e <= off
      /\ lost + e <= off
  <2>1. CASE now = last
    <3>1. e = 0
      BY <2>1 DEF Errors
    <3>2. off = lost
      BY <2>1 DEF Rounded
    <3> QED
      BY <3>1, <3>2, <1>2, <1>4
  <2>2. CASE now # last
    <3>1. e \in -Rounding..Rounding /\ 0 <= gain + e
      BY <2>2 DEF Errors
    <3>2. \A a, b \in Nat : (a + 1) * b = a * b + b
      OBVIOUS
    <3>3. off = lost + Rounding
      BY <2>2, <3>2, <1>1 DEF Rounded
    <3> HIDE DEF gain, lost, off, IInv, TypeOK
    <3> QED
      BY <3>1, <3>3, <1>4
  <2> QED
    BY <2>1, <2>2
<1>8. /\ Refilled(e) \in 0..Full
      /\ Refilled(e) = Full \/ Refilled(e) = tokens + gain + e
      /\ Refilled(e) <= tokens + gain + e
  <2>1. Refilled(e) = IF tokens + gain + e <= Full THEN tokens + gain + e ELSE Full
    BY DEF Refilled
  <2> HIDE DEF gain, IInv, TypeOK
  <2> QED
    BY <2>1, <1>1, <1>2, <1>7
<1>9. CASE last >= mark
  <2>1. /\ tokens + used <= Full + before + lost
        /\ Full <= tokens + used + lost \/ before <= tokens + used + lost
    BY <1>9 DEF WindowInv
  <2> HIDE DEF gain, span, used, before, lost, off, IInv, TypeOK
  <2>2. Refilled(e) + used <= Full + span + off
    BY <1>1, <1>2, <1>3, <1>4, <1>5, <1>6, <1>7, <1>8, <2>1
  <2>3. Full <= Refilled(e) + used + off \/ span <= Refilled(e) + used + off
    BY <1>1, <1>2, <1>3, <1>4, <1>5, <1>6, <1>7, <1>8, <2>1
  <2> QED
    BY <1>1, <1>8, <2>2, <2>3 DEF span, used, off
<1>10. CASE last < mark
  <2>1. used = 0 /\ lost = 0
    <3>1. granted = 0 /\ refills = 0
      BY <1>10 DEF WindowInv
    <3> QED
      BY <3>1
  <2>2. span <= gain
    <3>1. now - mark <= now - last /\ now - mark \in Int /\ now - last \in Int
      BY <1>1, <1>10
    <3> HIDE DEF IInv, TypeOK
    <3> QED
      BY <3>1, RefillMonotone
  <2> HIDE DEF gain, span, used, before, lost, off, IInv, TypeOK
  <2>3. /\ Refilled(e) + used <= Full + span + off
        /\ Full <= Refilled(e) + used + off \/ span <= Refilled(e) + used + off
    BY <1>1, <1>2, <1>3, <1>4, <1>7, <1>8, <2>1, <2>2
  <2> QED
    BY <1>1, <1>8, <2>3 DEF span, used, off
<1> QED
  BY <1>1, <1>9, <1>10

LEMMA NextIInv ==
  ASSUME IInv, [Next]_vars
  PROVE  IInv'
<1> USE ConstantTypes
<1>1. ASSUME NEW e \in Errors, Grant(e)
      PROVE  IInv'
  <2>1. /\ tokens' = Refilled(e) - Token /\ granted' = granted + 1
        /\ last' = now /\ mark' = mark /\ now' = now
        /\ verdict' = "granted" /\ refills' = Rounded
        /\ Refilled(e) >= Token
    BY <1>1 DEF Grant, Attempt, Rounded
  <2>2. TypeOK'
    BY <1>1, <2>1, RefilledInWindow DEF IInv, TypeOK
  <2>3. (granted + 1) * Token = granted * Token + Token /\ granted * Token \in Int
    BY DEF IInv, TypeOK
  <2>4. tokens' + granted' * Token = Refilled(e) + granted * Token
    BY <1>1, <2>1, <2>3, RefilledInWindow
  <2>5. now >= mark
    BY DEF IInv, TypeOK
  <2>6. Refilled(e) \in Int /\ Rounded \in Nat
    BY <1>1, RefilledInWindow
  <2>7. WindowInv'
    BY <1>1, <2>1, <2>4, <2>5, <2>6, RefilledInWindow DEF WindowInv, IInv, TypeOK
  <2> QED
    BY <2>2, <2>7 DEF IInv
<1>2. ASSUME NEW e \in Errors, Refuse(e)
      PROVE  IInv'
  <2>1. /\ tokens' = Refilled(e) /\ granted' = granted
        /\ last' = now /\ mark' = mark /\ now' = now
        /\ verdict' = "refused" /\ refills' = Rounded
        /\ Refilled(e) < Token
    BY <1>2 DEF Refuse, Attempt, Rounded
  <2>2. TypeOK'
    BY <1>2, <2>1, RefilledInWindow DEF IInv, TypeOK
  <2>3. WindowInv'
    BY <1>2, <2>1, RefilledInWindow DEF WindowInv, IInv, TypeOK
  <2> QED
    BY <2>2, <2>3 DEF IInv
<1>3. CASE Tick
  <2>1. TypeOK'
    BY <1>3, BucketAssumption DEF Tick, IInv, TypeOK
  <2>2. WindowInv'
    BY <1>3 DEF Tick, WindowInv, IInv, TypeOK
  <2> QED
    BY <2>1, <2>2 DEF IInv
<1>4. CASE Observe
  <2>1. TypeOK'
    BY <1>4 DEF Observe, IInv, TypeOK
  <2>2. WindowInv'
    <3>1. 0 * Token = 0 /\ 0 * Rounding = 0 /\ (now - now) * Capacity = 0
      BY DEF IInv, TypeOK
    <3> QED
      BY <1>4, <3>1 DEF Observe, WindowInv, IInv, TypeOK
  <2> QED
    BY <2>1, <2>2 DEF IInv
<1>5. CASE UNCHANGED vars
  BY <1>5 DEF vars, IInv, TypeOK, WindowInv
<1> QED
  BY <1>1, <1>2, <1>3, <1>4, <1>5 DEF Next, TryAcquire

LEMMA SpecIInv == Spec => []IInv
BY InitIInv, NextIInv, PTL DEF Spec

-----------------------------------------------------------------------------

\* The bucket never holds a negative amount or more than its capacity.
THEOREM BucketTypeCorrect == Spec => []TypeOK
BY SpecIInv, PTL DEF IInv

\* Whatever the rate and wherever a window begins, it never grants more than
\* one full bucket plus what the window refills, up to the rounding of those
\* refills (TokenBucket::try_acquire).
THEOREM RateStaysBounded == Spec => []RateBounded
<1>1. IInv => RateBounded
  <2> SUFFICES ASSUME IInv PROVE RateBounded
    OBVIOUS
  <2> USE ConstantTypes
  <2> DEFINE used == granted * Token
             lost == refills * Rounding
             span == (now - mark) * Capacity
             before == (last - mark) * Capacity
  <2>1. /\ now \in Int /\ last \in Int /\ mark \in Int /\ last <= now /\ mark <= now
        /\ granted \in Nat /\ refills \in Nat /\ tokens \in 0..Full
    BY BucketAssumption DEF IInv, TypeOK
  <2>2. used \in Nat /\ lost \in Nat
    <3>1. \A a, b \in Nat : a * b \in Nat
      OBVIOUS
    <3> QED
      BY <2>1, <3>1
  <2>3. span \in Nat
    <3>1. 0 * Capacity = 0 /\ now - mark \in Int /\ 0 <= now - mark
      BY <2>1
    <3> QED
      BY <3>1, RefillMonotone
  <2>4. CASE last < mark
    <3>1. used = 0
      BY <2>4 DEF IInv, WindowInv
    <3> HIDE DEF used, lost, span
    <3>2. used <= Full + span + lost
      BY <3>1, <2>2, <2>3
    <3> QED
      BY <3>2 DEF RateBounded, used, lost, span
  <2>5. CASE last >= mark
    <3>1. tokens + used <= Full + before + lost
      BY <2>5 DEF IInv, WindowInv
    <3>2. before <= span /\ before \in Int
      <4>1. last - mark <= now - mark /\ last - mark \in Int /\ now - mark \in Int
        BY <2>1
      <4> QED
        BY <4>1, RefillMonotone
    <3> HIDE DEF used, lost, span, before
    <3>3. used <= Full + span + lost
      BY <3>1, <3>2, <2>1, <2>2, <2>3
    <3> QED
      BY <3>3 DEF RateBounded, used, lost, span
  <2> QED
    BY <2>1, <2>4, <2>5
<1> QED
  BY SpecIInv, <1>1, PTL

\* A refusal proves that the requests granted in the last second fall short of
\* rps by less than one, apart from rounding (try_acquire).
THEOREM RefusalsAreDeserved == Spec => []RefusesOnlyAboveRate
<1>1. IInv => RefusesOnlyAboveRate
  <2> SUFFICES ASSUME IInv, verdict = "refused", now - mark = TicksPerSecond
               PROVE  (granted + 1) * Token + refills * Rounding > Full
    BY DEF RefusesOnlyAboveRate
  <2> USE ConstantTypes
  <2>1. /\ last = now /\ tokens < Token /\ tokens \in Nat
        /\ granted \in Nat /\ refills \in Nat
    BY DEF IInv, TypeOK, WindowInv
  <2>2. (last - mark) * Capacity = Full
    <3>1. last - mark = Token
      BY <2>1 DEF Token
    <3> QED
      BY <3>1 DEF Full
  <2>3. Full <= tokens + granted * Token + refills * Rounding
    <3>1. last >= mark
      BY <2>1 DEF IInv, TypeOK
    <3> QED
      BY <2>2, <3>1 DEF IInv, WindowInv
  <2>4. (granted + 1) * Token = granted * Token + Token
    BY <2>1
  <2>5. granted * Token \in Int /\ refills * Rounding \in Int
    BY <2>1
  <2> QED
    BY <2>1, <2>3, <2>4, <2>5
<1> QED
  BY SpecIInv, <1>1, PTL
=============================================================================
