-------------------------- MODULE ConnectorProofs --------------------------
(***************************************************************************)
(* Proofs about Connector for every set of addresses, every answer and all *)
(* timeouts.  The induction carries, besides types, what the checks have   *)
(* established so far (ChecksHold) and how far the call is (StepsHold).    *)
(*                                                                         *)
(* The second part is about the address table, for every IPv4 and IPv6     *)
(* address: what each network of the deny list contains, and that together *)
(* they leave the public addresses.                                        *)
(***************************************************************************)
EXTENDS PublicPolicy, FiniteSetTheorems, TLAPS

\* An answer is a non-empty sequence of addresses.
LEMMA AnswerType ==
  ASSUME NEW a \in Answers
  PROVE  a \in Seq(Addresses) /\ a # <<>> /\ 1 \in DOMAIN a
<1>1. PICK n \in 1..Cardinality(Addresses) : a \in [1..n -> Addresses]
  BY DEF Answers, Injection
<1>2. Cardinality(Addresses) \in Nat
  BY AddressAssumption, FS_CardinalityType
<1>3. n \in Nat /\ 1 <= n
  BY <1>2
<1>4. a \in Seq(Addresses)
  BY <1>1, <1>3
<1>5. DOMAIN a = 1..n
  BY <1>1
<1>6. a # <<>>
  BY <1>3, <1>4, <1>5
<1> QED
  BY <1>3, <1>4, <1>5, <1>6

\* The index of a known answer leads to one of its addresses.
LEMMA CurrentAddress ==
  ASSUME TypeOK, AnswerKnown, pc \in {"validate", "dial", "tls"}
  PROVE  /\ Len(answer) \in Nat \ {0}
         /\ DOMAIN answer = 1..Len(answer)
         /\ next \in 1..Len(answer)
         /\ answer[next] \in Addresses
<1>1. answer \in Seq(Addresses) /\ answer # <<>>
  BY DEF TypeOK, AnswerKnown
<1>2. Len(answer) \in Nat \ {0} /\ DOMAIN answer = 1..Len(answer)
  BY <1>1
<1>3. next \in 1..Len(answer)
  BY <1>2 DEF TypeOK
<1> QED
  BY <1>1, <1>2, <1>3

LEMMA InitTypes == Init => TypeOK /\ AnswerKnown
<1> SUFFICES ASSUME Init PROVE TypeOK /\ AnswerKnown
  OBVIOUS
<1>1. answer \in Seq(Addresses)
  BY DEF Init
<1>2. PolicyTypeOK
  BY DEF Init, PolicyInit, PolicyTypeOK
<1>3. AnswerKnown
  BY DEF Init, AnswerKnown
<1>4. /\ pc \in {"resolve", "validate", "dial", "tls", "done"}
      /\ https \in BOOLEAN /\ trusted \in BOOLEAN
      /\ next = 1 /\ waited = 0 /\ total = 0
      /\ dialed = {} /\ peer = NoAddress /\ result \in Results
  BY DEF Init, Results
<1> QED
  BY <1>1, <1>2, <1>3, <1>4 DEF TypeOK

LEMMA NextTypes == TypeOK /\ AnswerKnown /\ [Next]_vars => TypeOK' /\ AnswerKnown'
<1> SUFFICES ASSUME TypeOK, AnswerKnown, [Next]_vars PROVE TypeOK' /\ AnswerKnown'
  OBVIOUS
<1>a. pc \in {"validate", "dial", "tls"} =>
         /\ Len(answer) \in Nat \ {0}
         /\ next \in 1..Len(answer)
         /\ answer[next] \in Addresses
  BY CurrentAddress
<1> USE TimeoutsAssumption
    DEF TypeOK, PolicyTypeOK, Results, policy, call, GoOn, Return, AnswerKnown
<1>b. ASSUME NEW e \in {"connect_failed", "connect_timeout"}, pc = "dial", FailOver(e)
      PROVE  TypeOK' /\ AnswerKnown'
  BY <1>a, <1>b DEF FailOver
<1>1. CASE Resolved
  <2>1. answer' \in Seq(Addresses) /\ answer' # <<>>
    BY <1>1, AnswerType DEF Resolved
  <2>2. next' = 1
    <3>1. answer = <<>> /\ next' = next
      BY <1>1 DEF Resolved
    <3> QED
      BY <3>1
  <2> QED
    BY <1>1, <2>1, <2>2 DEF Resolved
<1>2. CASE ResolveFails
  BY <1>2 DEF ResolveFails
<1>3. CASE Validate
  BY <1>3, <1>a DEF Validate, Accept, Block
<1>4. ASSUME NEW p \in Addresses, Dialed(p) \/ DialedElsewhere(p)
      PROVE  TypeOK' /\ AnswerKnown'
  <2>1. CASE Dialed(p)
    BY <2>1, <1>a DEF Dialed
  <2>2. CASE DialedElsewhere(p)
    BY <2>2, <1>b DEF DialedElsewhere
  <2> QED
    BY <1>4, <2>1, <2>2
<1>5. CASE DialFails
  BY <1>5, <1>b DEF DialFails
<1>6. CASE TlsDone \/ TlsFails
  BY <1>6 DEF TlsDone, TlsFails
<1>7. CASE Expire
  <2>1. CASE DialExpires
    BY <2>1, <1>b DEF DialExpires
  <2>2. CASE ResolveExpires \/ TlsExpires
    BY <2>2 DEF ResolveExpires, TlsExpires
  <2> QED
    BY <1>7, <2>1, <2>2 DEF Expire
<1>8. CASE Cancel
  BY <1>8 DEF Cancel
<1>9. CASE Tick
  BY <1>9 DEF Tick
<1>10. CASE RefreshHost
  BY <1>10, AddressAssumption, ZenonT(60) DEF RefreshHost, Refresh, RefreshOk, RefreshFail, Enumerations
<1>11. CASE UNCHANGED vars
  BY <1>11 DEF vars
<1> QED
  BY <1>1, <1>2, <1>3, <1>4, <1>5, <1>6, <1>7, <1>8, <1>9, <1>10, <1>11 DEF Next

\* The types of Connector hold in every behaviour: each address that is checked
\* or dialed is one of the resolver's answer.
THEOREM ConnectorTypeCorrect == Spec => []TypeOK
<1>1. Init => TypeOK /\ AnswerKnown
  BY InitTypes
<1>2. TypeOK /\ AnswerKnown /\ [Next]_vars => TypeOK' /\ AnswerKnown'
  BY NextTypes
<1> QED
  BY <1>1, <1>2, PTL DEF Spec

-----------------------------------------------------------------------------
(* What the checks establish                                               *)

\* An accepted address is clear: the snapshot holds the local addresses once an
\* enumeration has succeeded, whichever refreshes came between.
LEMMA AcceptClears ==
  ASSUME ChecksHold, Allowed(answer[next])
  PROVE  Clear(answer[next])
BY DEF ChecksHold, Allowed, Clear

LEMMA NextChecks ==
  TypeOK /\ AnswerKnown /\ StepsHold /\ ChecksHold /\ [Next]_vars => ChecksHold'
<1> SUFFICES ASSUME TypeOK, AnswerKnown, StepsHold, ChecksHold, [Next]_vars
             PROVE  ChecksHold'
  OBVIOUS
<1>a. pc \in {"validate", "dial", "tls"} =>
         /\ Len(answer) \in Nat \ {0}
         /\ DOMAIN answer = 1..Len(answer)
         /\ next \in 1..Len(answer)
  BY CurrentAddress
<1>b. UNCHANGED <<host, enumerated, trusted>> =>
         /\ (enumerated => Local \subseteq host)'
         /\ (trusted => enumerated)'
  BY DEF ChecksHold
<1>c. pc = "dial" => \A i \in DOMAIN answer : Clear(answer[i])
  BY DEF ChecksHold
<1>d. ASSUME UNCHANGED <<policy, answer, trusted>>, pc' # "validate",
             pc = "dial" \/ (UNCHANGED dialed /\ (pc' \in {"dial", "tls"} => pc = pc'))
      PROVE  ChecksHold'
  BY <1>d DEF ChecksHold, Clear, policy
<1>1. CASE Resolved
  <2>1. next = 1 /\ dialed = {} /\ dialed' = {} /\ next' = 1
    BY <1>1 DEF Resolved, AnswerKnown, StepsHold, TypeOK
  <2>2. UNCHANGED policy /\ trusted' = enumerated /\ pc' = "validate"
    BY <1>1 DEF Resolved, GoOn
  <2> QED
    BY <2>1, <2>2 DEF ChecksHold, policy
<1>2. CASE ResolveFails
  BY <1>2, <1>d DEF ResolveFails, Return
<1>3. CASE Validate
  <2>1. CASE Block
    BY <2>1, <1>d DEF Block, Return
  <2>2. CASE Accept
    <3>1. Clear(answer[next]) /\ \A i \in 1..(next - 1) : Clear(answer[i])
      BY <2>2, AcceptClears DEF Accept, ChecksHold
    <3>2. \A i \in 1..next : Clear(answer[i])
      BY <3>1, <1>a, <2>2 DEF Accept
    <3>3. UNCHANGED <<policy, answer, trusted, dialed>> /\ dialed = {}
      BY <2>2 DEF Accept, StepsHold
    <3>4. CASE next < Len(answer)
      <4>1. next' = next + 1 /\ pc' = "validate"
        BY <2>2, <3>4 DEF Accept
      <4>2. \A i \in 1..(next' - 1) : Clear(answer[i])
        BY <4>1, <3>2, <1>a, <2>2 DEF Accept
      <4> QED
        BY <4>1, <4>2, <3>3, <1>b DEF ChecksHold, Clear, policy
    <3>5. CASE ~(next < Len(answer))
      <4>1. pc' = "dial" /\ next = Len(answer)
        BY <2>2, <3>5, <1>a DEF Accept
      <4>2. \A i \in DOMAIN answer : Clear(answer[i])
        BY <4>1, <3>2, <1>a, <2>2 DEF Accept
      <4> QED
        BY <4>1, <4>2, <3>3, <1>b DEF ChecksHold, Clear, policy
    <3> QED
      BY <3>4, <3>5
  <2> QED
    BY <1>3, <2>1, <2>2 DEF Validate
<1>4. ASSUME NEW p \in Addresses, Dialed(p) \/ DialedElsewhere(p)
      PROVE  ChecksHold'
  BY <1>4, <1>d DEF Dialed, DialedElsewhere, FailOver, GoOn, Return
<1>5. CASE DialFails
  BY <1>5, <1>d DEF DialFails, FailOver, GoOn, Return
<1>6. CASE TlsDone \/ TlsFails
  BY <1>6, <1>d DEF TlsDone, TlsFails, Return
<1>7. CASE Expire
  BY <1>7, <1>d DEF Expire, ResolveExpires, DialExpires, FailOver, TlsExpires, GoOn, Return
<1>8. CASE Cancel
  BY <1>8, <1>d DEF Cancel, Return
<1>9. CASE Tick
  BY <1>9, <1>d DEF Tick
<1>10. CASE RefreshHost
  BY <1>10 DEF RefreshHost, Refresh, RefreshOk, RefreshFail, Enumerations, call,
               ChecksHold, Clear
<1>11. CASE UNCHANGED vars
  BY <1>11 DEF vars, policy, call, ChecksHold, Clear
<1> QED
  BY <1>1, <1>2, <1>3, <1>4, <1>5, <1>6, <1>7, <1>8, <1>9, <1>10, <1>11 DEF Next

-----------------------------------------------------------------------------
(* How far the call is, and what it returns                                *)

Outcome == StepsHold /\ PeerWasValidated /\ EveryAddressTried

\* A failed dial moves to the next address, and the last one has tried them all.
LEMMA FailOverOutcome ==
  ASSUME TypeOK, AnswerKnown, Outcome, pc = "dial",
         NEW e \in {"connect_failed", "connect_timeout"}, FailOver(e)
  PROVE  Outcome'
<1>a. /\ Len(answer) \in Nat \ {0}
      /\ DOMAIN answer = 1..Len(answer)
      /\ next \in 1..Len(answer)
  BY CurrentAddress
<1>1. /\ dialed = {answer[i] : i \in 1..(next - 1)}
      /\ peer = NoAddress /\ peer' = peer /\ answer' = answer
      /\ dialed' = dialed \cup {answer[next]}
      /\ result = "none"
  BY DEF FailOver, Outcome, StepsHold
<1>2. dialed' = {answer[i] : i \in 1..next}
  <2>1. 1..next = (1..(next - 1)) \cup {next}
    BY <1>a
  <2> QED
    BY <1>1, <2>1
<1>3. CASE next < Len(answer)
  <2>1. next' = next + 1 /\ pc' = "dial" /\ result' = "none"
    BY <1>1, <1>3 DEF FailOver, GoOn
  <2>2. dialed' = {answer'[i] : i \in 1..(next' - 1)}
    <3>1. next' - 1 = next
      BY <2>1, <1>a
    <3> QED
      BY <1>1, <1>2, <3>1
  <2> QED
    BY <1>1, <2>1, <2>2 DEF Outcome, StepsHold, PeerWasValidated, EveryAddressTried
<1>4. CASE ~(next < Len(answer))
  <2>1. /\ pc' = "done" /\ result' = e
        /\ next = Len(answer)
    <3>1. pc' = "done" /\ result' = e
      BY <1>4 DEF FailOver, Return
    <3>2. next = Len(answer)
      <4>1. next \in Int /\ Len(answer) \in Int /\ next <= Len(answer)
        BY <1>a
      <4> QED
        BY <4>1, <1>4
    <3> QED
      BY <3>1, <3>2
  <2>2. dialed' = Range(answer)
    BY <1>2, <1>a, <2>1 DEF Range
  <2> QED
    BY <1>1, <2>1, <2>2 DEF Outcome, StepsHold, PeerWasValidated, EveryAddressTried
<1> QED
  BY <1>3, <1>4

LEMMA NextOutcome == TypeOK /\ AnswerKnown /\ Outcome /\ [Next]_vars => Outcome'
<1> SUFFICES ASSUME TypeOK, AnswerKnown, Outcome, [Next]_vars PROVE Outcome'
  OBVIOUS
<1> USE DEF StepsHold, PeerWasValidated, EveryAddressTried, GoOn, Return
<1>1. CASE Resolved
  <2>1. next' = 1 /\ dialed' = {} /\ peer' = NoAddress /\ pc' = "validate" /\ result' = "none"
    BY <1>1 DEF Resolved, Outcome, AnswerKnown, TypeOK
  <2> QED
    BY <2>1 DEF Outcome
<1>2. CASE ResolveFails
  BY <1>2 DEF ResolveFails, Outcome
<1>3. CASE Validate
  <2>1. CASE Block
    BY <2>1 DEF Block, Outcome
  <2>2. CASE Accept /\ next < Len(answer)
    BY <2>2 DEF Accept, Outcome
  <2>3. CASE Accept /\ ~(next < Len(answer))
    <3>1. /\ dialed' = {} /\ peer' = NoAddress /\ pc' = "dial" /\ result' = "none"
          /\ next' = 1
      BY <2>3 DEF Accept, Outcome
    <3>2. {answer'[i] : i \in 1..(next' - 1)} = {}
      <4>1. 1..(next' - 1) = {}
        BY <3>1
      <4> QED
        BY <4>1
    <3> QED
      BY <3>1, <3>2 DEF Outcome
  <2> QED
    BY <1>3, <2>1, <2>2, <2>3 DEF Validate
<1>4. ASSUME NEW p \in Addresses, Dialed(p) \/ DialedElsewhere(p)
      PROVE  Outcome'
  <2>1. CASE Dialed(p)
    <3>1. p # NoAddress
      BY TimeoutsAssumption
    <3>2. /\ peer' = p /\ answer' = answer /\ p \in Range(answer) /\ dialed' # {}
          /\ \/ pc' = "tls" /\ result' = "none"
             \/ pc' = "done" /\ result' = "connected"
      BY <2>1 DEF Dialed, Outcome
    <3> QED
      BY <3>1, <3>2 DEF Outcome
  <2>2. CASE DialedElsewhere(p)
    BY <2>2, FailOverOutcome DEF DialedElsewhere
  <2> QED
    BY <1>4, <2>1, <2>2
<1>5. CASE DialFails
  BY <1>5, FailOverOutcome DEF DialFails
<1>b. pc = "tls" => peer # NoAddress /\ peer \in Range(answer)
  <2>1. ASSUME pc = "tls" PROVE peer # NoAddress /\ peer \in Range(answer)
    <3>1. peer \in Range(answer)
      BY <2>1 DEF Outcome
    <3>2. \A i \in DOMAIN answer : answer[i] \in Addresses
      BY DEF TypeOK
    <3> QED
      BY <3>1, <3>2, TimeoutsAssumption DEF Range
  <2> QED
    BY <2>1
<1>6. CASE TlsDone \/ TlsFails
  BY <1>6, <1>b DEF TlsDone, TlsFails, Outcome
<1>7. CASE Expire
  <2>1. CASE DialExpires
    BY <2>1, FailOverOutcome DEF DialExpires
  <2>2. CASE ResolveExpires
    BY <2>2 DEF ResolveExpires, Outcome, AnswerKnown
  <2>3. CASE TlsExpires
    BY <2>3, <1>b DEF TlsExpires, Outcome
  <2> QED
    BY <1>7, <2>1, <2>2, <2>3 DEF Expire
<1>8. CASE Cancel
  BY <1>8 DEF Cancel, Outcome
<1>9. CASE Tick
  BY <1>9 DEF Tick, Outcome
<1>10. CASE RefreshHost
  BY <1>10 DEF RefreshHost, call, Outcome
<1>11. CASE UNCHANGED vars
  BY <1>11 DEF vars, call, Outcome
<1> QED
  BY <1>1, <1>2, <1>3, <1>4, <1>5, <1>6, <1>7, <1>8, <1>9, <1>10, <1>11 DEF Next

-----------------------------------------------------------------------------
(* How long the call takes                                                 *)

LEMMA Product ==
  ASSUME NEW a \in Nat, NEW b \in Nat, a <= b
  PROVE  /\ a * ConnectTimeout \in Nat /\ b * ConnectTimeout \in Nat
         /\ a * ConnectTimeout <= b * ConnectTimeout
         /\ (a + 1) * ConnectTimeout = a * ConnectTimeout + ConnectTimeout
<1> USE TimeoutsAssumption
<1>1. \A c, d \in Nat : c * d \in Nat
  OBVIOUS
<1>2. b * ConnectTimeout = a * ConnectTimeout + (b - a) * ConnectTimeout
  OBVIOUS
<1>3. (b - a) * ConnectTimeout \in Nat
  BY <1>1
<1>4. (a + 1) * ConnectTimeout = a * ConnectTimeout + ConnectTimeout
  OBVIOUS
<1> QED
  BY <1>1, <1>2, <1>3, <1>4

\* Each place may use up what its timeout adds to the bound.
LEMMA WaitStaysBounded ==
  TypeOK /\ AnswerKnown /\ TimeHolds /\ WaitBounded /\ [Next]_vars
    => TimeHolds' /\ WaitBounded'
<1> SUFFICES ASSUME TypeOK, AnswerKnown, TimeHolds, WaitBounded, [Next]_vars
             PROVE  TimeHolds' /\ WaitBounded'
  OBVIOUS
<1> DEFINE before == (next - 1) * ConnectTimeout
           all == Len(answer) * ConnectTimeout
<1>t. /\ waited \in Nat /\ total \in Nat /\ next \in Nat \ {0}
      /\ DnsTimeout \in Nat /\ ConnectTimeout \in Nat /\ TlsTimeout \in Nat
      /\ Len(answer) \in Nat /\ all \in Nat
  <2>1. answer \in Seq(Addresses)
    BY DEF TypeOK
  <2>2. Len(answer) \in Nat
    BY <2>1
  <2> QED
    BY <2>2, Product, TimeoutsAssumption DEF TypeOK
<1>a. pc = "dial" =>
         /\ next <= Len(answer)
         /\ before \in Nat
         /\ next * ConnectTimeout = before + ConnectTimeout
         /\ before + ConnectTimeout <= all
  <2> SUFFICES ASSUME pc = "dial"
               PROVE  /\ next <= Len(answer) /\ before \in Nat
                      /\ next * ConnectTimeout = before + ConnectTimeout
                      /\ before + ConnectTimeout <= all
    OBVIOUS
  <2>1. next \in 1..Len(answer)
    BY CurrentAddress
  <2>2. next - 1 \in Nat /\ (next - 1) + 1 = next /\ next <= Len(answer)
    BY <2>1, <1>t
  <2>3. before \in Nat /\ next * ConnectTimeout = before + ConnectTimeout
    <3>1. next - 1 <= next - 1
      BY <2>2
    <3> QED
      BY <2>2, <3>1, Product
  <2>4. next * ConnectTimeout <= all
    BY <2>2, <1>t, Product
  <2> QED
    BY <2>2, <2>3, <2>4
<1>b. UNCHANGED <<answer, total>> => WaitBounded'
  BY DEF WaitBounded
<1>c. ASSUME UNCHANGED <<answer, total>>, pc' = "done" PROVE TimeHolds' /\ WaitBounded'
  BY <1>b, <1>c DEF TimeHolds
<1>d. ASSUME NEW e \in {"connect_failed", "connect_timeout"}, pc = "dial", FailOver(e)
      PROVE  TimeHolds' /\ WaitBounded'
  <2>1. CASE next < Len(answer)
    <3>1. /\ pc' = "dial" /\ waited' = 0 /\ next' = next + 1
          /\ UNCHANGED <<answer, total>>
      BY <1>d, <2>1 DEF FailOver, GoOn
    <3>2. total <= DnsTimeout + before + waited /\ waited <= ConnectTimeout
      BY <1>d DEF TimeHolds
    <3>3. (next' - 1) * ConnectTimeout = before + ConnectTimeout
      <4>1. next' - 1 = next
        BY <3>1, <1>t
      <4> QED
        BY <4>1, <1>a, <1>d
    <3>4. total <= DnsTimeout + (before + ConnectTimeout) + 0
      BY <3>2, <1>t, <1>a, <1>d
    <3> QED
      BY <3>1, <3>3, <3>4, <1>b, <1>t DEF TimeHolds
  <2>2. CASE ~(next < Len(answer))
    BY <1>d, <2>2, <1>c DEF FailOver, Return
  <2> QED
    BY <2>1, <2>2
<1>1. CASE Resolved
  <2>1. /\ pc = "resolve" /\ pc' = "validate" /\ waited' = 0 /\ total' = total
        /\ total <= DnsTimeout
    BY <1>1 DEF Resolved, GoOn, TimeHolds
  <2>2. Len(answer') * ConnectTimeout \in Nat
    <3>1. answer' \in Seq(Addresses)
      BY <1>1, AnswerType DEF Resolved
    <3>2. Len(answer') \in Nat
      BY <3>1
    <3> QED
      BY <3>2, Product
  <2> HIDE DEF all
  <2> QED
    BY <2>1, <2>2, <1>t DEF TimeHolds, WaitBounded
<1>2. CASE ResolveFails
  BY <1>2, <1>c DEF ResolveFails, Return
<1>3. CASE Validate
  <2>1. CASE Block
    BY <2>1, <1>c DEF Block, Return
  <2>2. CASE Accept
    <3>1. pc = "validate" /\ waited' = 0 /\ UNCHANGED <<answer, total>> /\ total <= DnsTimeout
      BY <2>2 DEF Accept, TimeHolds
    <3>2. pc' = "validate" \/ (pc' = "dial" /\ next' = 1)
      BY <2>2 DEF Accept
    <3>3. (1 - 1) * ConnectTimeout = 0
      BY <1>t
    <3> QED
      BY <3>1, <3>2, <3>3, <1>b, <1>t DEF TimeHolds
  <2> QED
    BY <1>3, <2>1, <2>2 DEF Validate
<1>4. ASSUME NEW p \in Addresses, Dialed(p) \/ DialedElsewhere(p)
      PROVE  TimeHolds' /\ WaitBounded'
  <2>1. CASE Dialed(p)
    <3>1. CASE https
      <4>1. pc = "dial" /\ pc' = "tls" /\ waited' = 0 /\ UNCHANGED <<answer, total>>
        BY <2>1, <3>1 DEF Dialed, GoOn
      <4>2. total <= DnsTimeout + before + waited /\ waited <= ConnectTimeout
        BY <4>1 DEF TimeHolds
      <4>3. total <= DnsTimeout + all + 0
        BY <4>1, <4>2, <1>a, <1>t
      <4> QED
        BY <4>1, <4>3, <1>b, <1>t DEF TimeHolds
    <3>2. CASE ~https
      BY <2>1, <3>2, <1>c DEF Dialed, Return
    <3> QED
      BY <3>1, <3>2
  <2>2. CASE DialedElsewhere(p)
    BY <2>2, <1>d DEF DialedElsewhere
  <2> QED
    BY <1>4, <2>1, <2>2
<1>5. CASE DialFails
  BY <1>5, <1>d DEF DialFails
<1>6. CASE TlsDone \/ TlsFails
  BY <1>6, <1>c DEF TlsDone, TlsFails, Return
<1>7. CASE Expire
  <2>1. CASE DialExpires
    BY <2>1, <1>d DEF DialExpires
  <2>2. CASE ResolveExpires \/ TlsExpires
    BY <2>2, <1>c DEF ResolveExpires, TlsExpires, Return
  <2> QED
    BY <1>7, <2>1, <2>2 DEF Expire
<1>8. CASE Cancel
  BY <1>8, <1>c DEF Cancel, Return
<1>9. CASE Tick
  <2>1. /\ UNCHANGED <<pc, answer, next>>
        /\ waited' = waited + 1 /\ total' = total + 1
        /\ waited < Limit(pc)
    BY <1>9 DEF Tick
  <2>2. CASE pc = "resolve"
    <3>1. waited < DnsTimeout /\ total = waited
      BY <2>1, <2>2 DEF Limit, TimeHolds
    <3> QED
      BY <2>1, <2>2, <3>1, <1>t DEF TimeHolds, WaitBounded
  <2>3. CASE pc = "dial"
    <3>1. waited < ConnectTimeout /\ total <= DnsTimeout + before + waited
      BY <2>1, <2>3 DEF Limit, TimeHolds
    <3>2. waited + 1 <= ConnectTimeout /\ total + 1 <= DnsTimeout + before + (waited + 1)
      BY <3>1, <1>a, <1>t, <2>3
    <3>3. total + 1 <= DnsTimeout + all + TlsTimeout
      BY <3>2, <1>a, <1>t, <2>3
    <3> QED
      BY <2>1, <2>3, <3>2, <3>3 DEF TimeHolds, WaitBounded
  <2>4. CASE pc = "tls"
    <3>1. waited < TlsTimeout /\ total <= DnsTimeout + all + waited
      BY <2>1, <2>4 DEF Limit, TimeHolds
    <3>2. waited + 1 <= TlsTimeout /\ total + 1 <= DnsTimeout + all + (waited + 1)
      BY <3>1, <1>t
    <3>3. total + 1 <= DnsTimeout + all + TlsTimeout
      BY <3>2, <1>t
    <3> QED
      BY <2>1, <2>4, <3>2, <3>3 DEF TimeHolds, WaitBounded
  <2> QED
    BY <1>9, <2>2, <2>3, <2>4 DEF Tick
<1>10. CASE RefreshHost
  BY <1>10, <1>b DEF RefreshHost, call, TimeHolds
<1>11. CASE UNCHANGED vars
  BY <1>11, <1>b DEF vars, call, TimeHolds
<1> QED
  BY <1>1, <1>2, <1>3, <1>4, <1>5, <1>6, <1>7, <1>8, <1>9, <1>10, <1>11 DEF Next

LEMMA InitTime == Init => TimeHolds /\ WaitBounded
<1> SUFFICES ASSUME Init PROVE TimeHolds /\ WaitBounded
  OBVIOUS
<1>1. pc = "resolve" /\ waited = 0 /\ total = 0 /\ Len(answer) = 0
  BY DEF Init
<1>2. 0 * ConnectTimeout = 0
  BY TimeoutsAssumption
<1> QED
  BY <1>1, <1>2, TimeoutsAssumption DEF TimeHolds, WaitBounded

\* The call takes at most one DNS timeout, one connect timeout for each address
\* and one TLS timeout: no path waits twice for the same thing.
THEOREM WaitIsBounded == Spec => []WaitBounded
<1>1. Init => TypeOK /\ AnswerKnown /\ TimeHolds /\ WaitBounded
  BY InitTypes, InitTime
<1>2. TypeOK /\ AnswerKnown /\ TimeHolds /\ WaitBounded /\ [Next]_vars
        => TypeOK' /\ AnswerKnown' /\ TimeHolds' /\ WaitBounded'
  BY NextTypes, WaitStaysBounded
<1> QED
  BY <1>1, <1>2, PTL DEF Spec

-----------------------------------------------------------------------------

\* Only addresses of the answer are dialed.
DialsTheAnswer == dialed \subseteq Range(answer)

LEMMA NextDials ==
  TypeOK /\ AnswerKnown /\ StepsHold /\ DialsTheAnswer /\ [Next]_vars => DialsTheAnswer'
<1> SUFFICES ASSUME TypeOK, AnswerKnown, StepsHold, DialsTheAnswer, [Next]_vars
             PROVE  DialsTheAnswer'
  OBVIOUS
<1>1. CASE Resolved
  BY <1>1 DEF Resolved, StepsHold, DialsTheAnswer
<1>2. ASSUME pc = "dial", answer' = answer, dialed' = dialed \cup {answer[next]}
      PROVE  DialsTheAnswer'
  <2>1. answer[next] \in Range(answer)
    BY <1>2, CurrentAddress DEF Range
  <2> QED
    BY <1>2, <2>1 DEF DialsTheAnswer
<1>3. CASE \E p \in Addresses : Dialed(p) \/ DialedElsewhere(p)
  BY <1>2, <1>3 DEF Dialed, DialedElsewhere, FailOver
<1>4. CASE DialFails \/ DialExpires
  BY <1>2, <1>4 DEF DialFails, DialExpires, FailOver
<1>5. ASSUME UNCHANGED <<answer, dialed>> PROVE DialsTheAnswer'
  BY <1>5 DEF DialsTheAnswer
<1>6. CASE ResolveFails \/ ResolveExpires \/ Validate \/ TlsDone \/ TlsFails \/ TlsExpires
  BY <1>5, <1>6 DEF ResolveFails, ResolveExpires, Validate, Accept, Block,
                    TlsDone, TlsFails, TlsExpires
<1>7. CASE Cancel \/ Tick \/ RefreshHost \/ UNCHANGED vars
  BY <1>5, <1>7 DEF Cancel, Tick, RefreshHost, call, vars
<1> QED
  BY <1>1, <1>3, <1>4, <1>6, <1>7 DEF Next, Expire

SafeInv == TypeOK /\ AnswerKnown /\ ChecksHold /\ Outcome /\ DialsTheAnswer

\* A call that begins, whatever has become of the snapshot by then.
Fresh ==
    /\ PolicyTypeOK
    /\ enumerated => Local \subseteq host
    /\ pc = "resolve" /\ https \in BOOLEAN /\ answer = <<>> /\ next = 1
    /\ dialed = {} /\ peer = NoAddress /\ waited = 0 /\ total = 0
    /\ result = "none" /\ trusted = FALSE

LEMMA FreshIsSafe == Fresh => SafeInv
<1> SUFFICES ASSUME Fresh PROVE SafeInv
  OBVIOUS
<1>1. answer \in Seq(Addresses)
  BY DEF Fresh
<1>2. TypeOK /\ AnswerKnown
  <2>1. /\ pc \in {"resolve", "validate", "dial", "tls", "done"}
        /\ https \in BOOLEAN /\ trusted \in BOOLEAN /\ PolicyTypeOK
        /\ pc = "resolve" /\ next = 1 /\ waited = 0 /\ total = 0
        /\ dialed = {} /\ peer = NoAddress /\ result \in Results /\ answer = <<>>
    BY DEF Fresh, Results
  <2> QED
    BY <1>1, <2>1 DEF TypeOK, AnswerKnown
<1>3. ChecksHold
  BY DEF Fresh, ChecksHold
<1>4. Outcome
  BY DEF Fresh, Outcome, StepsHold, PeerWasValidated, EveryAddressTried
<1>5. DialsTheAnswer
  BY DEF Fresh, DialsTheAnswer
<1> QED
  BY <1>2, <1>3, <1>4, <1>5 DEF SafeInv

LEMMA InitFresh == Init => Fresh
BY DEF Init, PolicyInit, PolicyTypeOK, Fresh

LEMMA NextSafeInv == SafeInv /\ [Next]_vars => SafeInv'
BY NextTypes, NextChecks, NextOutcome, NextDials DEF SafeInv, Outcome

LEMMA SafeInvHolds == Spec => []SafeInv
BY InitFresh, FreshIsSafe, NextSafeInv, PTL DEF Spec

\* One rejected address anywhere in the answer means that nothing is dialed: the
\* whole answer is checked before the first dial of connect.
THEOREM RejectedAnswersAreNotDialed == Spec => []UnroutableNeverDialed
<1>1. SafeInv => UnroutableNeverDialed
  BY DEF SafeInv, ChecksHold, Clear, UnroutableNeverDialed, Range
<1> QED
  BY <1>1, SafeInvHolds, PTL

\* The host's own addresses are never dialed once an enumeration has succeeded
\* before the checks, whatever refreshes succeed or fail meanwhile.
THEOREM HostIsNotDialed == Spec => []LocalNeverDialed
<1>1. SafeInv => LocalNeverDialed
  BY DEF SafeInv, ChecksHold, Clear, LocalNeverDialed, Range
<1> QED
  BY <1>1, SafeInvHolds, PTL

\* The connection handed out leads to an address of the checked answer.
THEOREM PeerIsFromTheAnswer == Spec => []PeerWasValidated
<1>1. SafeInv => PeerWasValidated
  BY DEF SafeInv, Outcome
<1> QED
  BY <1>1, SafeInvHolds, PTL

\* The call fails for want of a connection only after it dialed every address.
THEOREM FailOverIsComplete == Spec => []EveryAddressTried
<1>1. SafeInv => EveryAddressTried
  BY DEF SafeInv, Outcome
<1> QED
  BY <1>1, SafeInvHolds, PTL

-----------------------------------------------------------------------------
(* The address table                                                       *)

\* An address has as many groups as its family says.
LEMMA Groups ==
  ASSUME NEW n \in {4, 8}, NEW top \in Nat, NEW ip \in [1..n -> 0..top]
  PROVE  /\ Len(ip) = n /\ DOMAIN ip = 1..n
         /\ \A i \in 1..n : ip[i] \in Nat /\ ip[i] <= top
<1>1. n \in Nat
  OBVIOUS
<1>2. ip \in Seq(0..top)
  BY <1>1
<1>3. DOMAIN ip = 1..n
  OBVIOUS
<1>4. Len(ip) = n
  BY <1>1, <1>2, <1>3
<1> QED
  BY <1>3, <1>4

\* Ordered sequences are ordered at the first place where they may differ.
LEMMA OrderedAt ==
  ASSUME NEW n \in {4, 8}, NEW a \in [1..n -> Nat], NEW b \in [1..n -> Nat], NotAfter(a, b),
         NEW i \in 1..n, \A j \in 1..(i - 1) : a[j] = b[j]
  PROVE  a[i] <= b[i]
<1>1. CASE a = b
  BY <1>1
<1>2. CASE a # b
  <2>1. PICK k \in 1..n : a[k] < b[k] /\ \A j \in 1..(k - 1) : a[j] = b[j]
    BY <1>2 DEF NotAfter
  <2>2. ~(k < i)
    BY <2>1
  <2> QED
    BY <2>1, <2>2
<1> QED
  BY <1>1, <1>2

\* What is ordered place by place is ordered.
LEMMA Groupwise ==
  ASSUME NEW n \in {4, 8}, NEW a \in [1..n -> Nat], NEW b \in [1..n -> Nat],
         \A i \in 1..n : a[i] <= b[i]
  PROVE  NotAfter(a, b)
<1> DEFINE Differs(i) == a[i] # b[i] /\ \A j \in 1..(i - 1) : a[j] = b[j]
<1>1. SUFFICES ASSUME a # b PROVE \E i \in 1..n : Differs(i)
  <2>1. ASSUME NEW i \in 1..n, Differs(i)
        PROVE  NotAfter(a, b)
    <3>1. a[i] < b[i]
      BY <2>1
    <3>2. i \in DOMAIN a /\ \A j \in 1..(i - 1) : a[j] = b[j]
      BY <2>1
    <3> QED
      BY <3>1, <3>2 DEF NotAfter
  <2>2. a = b => NotAfter(a, b)
    BY DEF NotAfter
  <2> QED
    BY <2>1, <2>2
<1>2. PICK d \in 1..n : a[d] # b[d]
  BY <1>1
<1>3. SUFFICES ASSUME \A i \in 1..n : ~Differs(i) PROVE FALSE
  OBVIOUS
<1>4. a[1] = b[1] /\ a[2] = b[2] /\ a[3] = b[3] /\ a[4] = b[4]
  <2>1. a[1] = b[1]
    BY <1>3
  <2>2. a[2] = b[2]
    BY <1>3, <2>1
  <2>3. a[3] = b[3]
    BY <1>3, <2>1, <2>2
  <2> QED
    BY <1>3, <2>1, <2>2, <2>3, SMTT(60)
<1>5. CASE n = 4
  BY <1>2, <1>4, <1>5
<1>6. CASE n = 8
  <2>1. a[5] = b[5]
    BY <1>3, <1>4, <1>6
  <2>2. a[6] = b[6]
    BY <1>3, <1>4, <1>6, <2>1
  <2>3. a[7] = b[7]
    BY <1>3, <1>4, <1>6, <2>1, <2>2
  <2>4. a[8] = b[8]
    BY <1>3, <1>4, <1>6, <2>1, <2>2, <2>3
  <2> QED
    BY <1>2, <1>4, <1>6, <2>1, <2>2, <2>3, <2>4
<1> QED
  BY <1>5, <1>6

\* The addresses between two that differ only in group k are those that agree
\* with them before it and lie between them there.
LEMMA InBlock ==
  ASSUME NEW n \in {4, 8}, NEW top \in Nat, NEW ip \in [1..n -> 0..top],
         NEW k \in 1..3, NEW from \in [1..k -> 0..top], NEW to \in [1..k -> 0..top],
         \A i \in 1..(k - 1) : from[i] = to[i], from[k] <= to[k]
  PROVE  NotAfter(Fill(from, n, 0), ip) /\ NotAfter(ip, Fill(to, n, top))
         <=> (\A i \in 1..(k - 1) : ip[i] = from[i]) /\ from[k] <= ip[k] /\ ip[k] <= to[k]
<1> DEFINE a == Fill(from, n, 0)
           b == Fill(to, n, top)
           Same == \A i \in 1..(k - 1) : ip[i] = from[i]
<1>1. k \in 1..n /\ n \in Nat
  OBVIOUS
<1>2. Len(from) = k /\ Len(to) = k
  <2>1. from \in Seq(0..top) /\ to \in Seq(0..top)
    BY SMTT(60)
  <2> QED
    BY <2>1
<1>3. \A i \in 1..k : from[i] \in Nat /\ to[i] \in Nat /\ from[i] <= top /\ to[i] <= top
  OBVIOUS
<1>4. \A i \in 1..n : ip[i] \in Nat /\ ip[i] <= top
  BY Groups
<1>5. \A i \in 1..n : /\ a[i] = IF i <= k THEN from[i] ELSE 0
                      /\ b[i] = IF i <= k THEN to[i] ELSE top
  BY <1>2 DEF Fill
<1>6. a \in [1..n -> Nat] /\ b \in [1..n -> Nat] /\ ip \in [1..n -> Nat]
  <2>1. DOMAIN a = 1..n /\ DOMAIN b = 1..n
    BY DEF Fill
  <2>2. \A i \in 1..n : a[i] \in Nat /\ b[i] \in Nat
    BY <1>3, <1>5, SMTT(60)
  <2>3. a = [i \in 1..n |-> a[i]] /\ b = [i \in 1..n |-> b[i]]
    BY <2>1 DEF Fill
  <2> QED
    BY <1>4, <2>2, <2>3
<1> HIDE DEF a, b
<1>7. ASSUME NotAfter(a, ip), NotAfter(ip, b)
      PROVE  Same /\ from[k] <= ip[k] /\ ip[k] <= to[k]
  <2>1. \A i \in 1..k : from[i] = a[i] /\ to[i] = b[i]
    BY <1>1, <1>5, SMTT(60)
  <2>2. a[1] <= ip[1] /\ ip[1] <= b[1]
    <3>1. 1 \in 1..n /\ \A j \in 1..(1 - 1) : a[j] = ip[j] /\ ip[j] = b[j]
      OBVIOUS
    <3> QED
      BY <1>6, <1>7, <3>1, OrderedAt, ZenonT(60)
  <2>3. CASE k = 1
    BY <2>1, <2>2, <2>3
  <2>4. CASE k # 1
    <3>1. a[1] = ip[1] /\ ip[1] = b[1]
      BY <1>3, <1>4, <2>1, <2>2, <2>4, SMTT(60)
    <3>2. a[2] <= ip[2] /\ ip[2] <= b[2]
      <4>1. 2 \in 1..n /\ \A j \in 1..(2 - 1) : a[j] = ip[j] /\ ip[j] = b[j]
        BY <3>1
      <4> QED
        BY <1>6, <1>7, <4>1, OrderedAt, ZenonT(60)
    <3>4. CASE k = 2
      BY <2>1, <3>1, <3>2, <3>4
    <3>5. CASE k = 3
      <4>1. a[2] = ip[2] /\ ip[2] = b[2]
        BY <1>3, <1>4, <2>1, <3>2, <3>5, SMTT(60)
      <4>2. a[3] <= ip[3] /\ ip[3] <= b[3]
        <5>1. 3 \in 1..n /\ \A j \in 1..(3 - 1) : a[j] = ip[j] /\ ip[j] = b[j]
          BY <3>1, <4>1
        <5> QED
          BY <1>6, <1>7, <5>1, OrderedAt, ZenonT(60)
      <4> QED
        BY <2>1, <3>1, <3>5, <4>1, <4>2
    <3> QED
      BY <2>4, <3>4, <3>5
  <2> QED
    BY <2>3, <2>4
<1>8. ASSUME Same, from[k] <= ip[k], ip[k] <= to[k]
      PROVE  NotAfter(a, ip) /\ NotAfter(ip, b)
  <2>1. \A i \in 1..(k - 1) : a[i] = ip[i] /\ ip[i] = b[i]
    BY <1>1, <1>5, <1>8
  <2>2. a[k] <= ip[k] /\ ip[k] <= b[k]
    BY <1>1, <1>5, <1>8
  <2>3. \A i \in 1..n : i > k => a[i] <= ip[i] /\ ip[i] <= b[i]
    BY <1>4, <1>5
  <2>4. \A i \in 1..n : a[i] <= ip[i] /\ ip[i] <= b[i]
    <3> SUFFICES ASSUME NEW i \in 1..n PROVE a[i] <= ip[i] /\ ip[i] <= b[i]
      OBVIOUS
    <3>1. CASE i \in 1..(k - 1)
      BY <1>4, <2>1, <3>1
    <3>2. CASE i = k
      BY <2>2, <3>2
    <3>3. CASE i > k
      BY <2>3, <3>3
    <3> QED
      BY <3>1, <3>2, <3>3
  <2>5. NotAfter(a, ip)
    BY <1>6, <2>4, Groupwise
  <2>6. NotAfter(ip, b)
    BY <1>6, <2>4, Groupwise
  <2> QED
    BY <2>5, <2>6
<1> QED
  BY <1>7, <1>8 DEF a, b

\* What a network of IPv4 fixes of the octets.
LEMMA Network4 ==
  ASSUME NEW base \in IPv4, NEW bits \in 1..32, NEW ip \in IPv4
  PROVE  /\ bits <= 8 =>
                (Contains(Cidr(base, bits), ip)
                 <=> ip[1] \div 2^(8 - bits) = base[1] \div 2^(8 - bits))
         /\ 8 < bits /\ bits <= 16 =>
                (Contains(Cidr(base, bits), ip)
                 <=> ip[1] = base[1] /\ ip[2] \div 2^(16 - bits) = base[2] \div 2^(16 - bits))
         /\ bits = 24 =>
                (Contains(Cidr(base, bits), ip)
                 <=> ip[1] = base[1] /\ ip[2] = base[2] /\ ip[3] = base[3])
         /\ bits = 32 => (Contains(Cidr(base, bits), ip) => ip[1] = base[1])
<1> DEFINE net == Cidr(base, bits)
<1>1. /\ Len(ip) = 4 /\ DOMAIN ip = 1..4 /\ Len(base) = 4
      /\ \A i \in 1..4 : ip[i] \in Nat /\ ip[i] < 256 /\ base[i] \in Nat /\ base[i] < 256
  <2>1. MaxOctet \in Nat /\ ip \in [1..4 -> 0..MaxOctet] /\ base \in [1..4 -> 0..MaxOctet]
    BY SMT DEF IPv4, Octets, MaxOctet
  <2>2. /\ Len(ip) = 4 /\ DOMAIN ip = 1..4 /\ Len(base) = 4
        /\ \A i \in 1..4 : ip[i] \in Nat /\ ip[i] <= MaxOctet
        /\ \A i \in 1..4 : base[i] \in Nat /\ base[i] <= MaxOctet
    BY <2>1, Groups
  <2> QED
    BY <2>2, SMT DEF MaxOctet
<1>2. net.base = base /\ net.bits = bits
  BY DEF Cidr
<1>3. Width(base) = 8
  BY <1>1 DEF Width
<1> HIDE DEF net
<1>4. Contains(net, ip) <=>
          \A i \in 1..4 : ip[i] \div Span(net, i) = base[i] \div Span(net, i)
  BY <1>1, <1>2 DEF Contains
<1>5. ASSUME NEW i \in 1..4, bits <= (i - 1) * 8
      PROVE  ip[i] \div Span(net, i) = base[i] \div Span(net, i)
  <2>1. Span(net, i) = 256
    BY <1>2, <1>3, <1>5 DEF Span, Kept
  <2> QED
    BY <1>1, <2>1
<1>6. ASSUME NEW i \in 1..4, bits >= i * 8
      PROVE  ip[i] \div Span(net, i) = base[i] \div Span(net, i) <=> ip[i] = base[i]
  <2>1. Span(net, i) = 1
    BY <1>2, <1>3, <1>6 DEF Span, Kept
  <2>2. ip[i] \div 1 = ip[i] /\ base[i] \div 1 = base[i]
    BY <1>1
  <2> QED
    BY <2>1, <2>2
<1>7. ASSUME NEW i \in 1..4, (i - 1) * 8 < bits, bits <= i * 8
      PROVE  Span(net, i) = 2^(i * 8 - bits)
  <2>1. Kept(net, i) = bits - (i - 1) * 8
    BY <1>2, <1>3, <1>7 DEF Kept
  <2>2. 8 - Kept(net, i) = i * 8 - bits
    BY <2>1
  <2> QED
    BY <1>2, <1>3, <2>2 DEF Span
<1>8. CASE bits <= 8
  <2>1. Span(net, 1) = 2^(8 - bits)
    BY <1>7, <1>8
  <2> QED
    BY <1>4, <1>5, <1>8, <2>1 DEF net
<1>9. CASE 8 < bits /\ bits <= 16
  <2>1. Span(net, 2) = 2^(16 - bits)
    BY <1>7, <1>9
  <2> QED
    BY <1>4, <1>5, <1>6, <1>9, <2>1 DEF net
<1>10. CASE bits > 16
  BY <1>4, <1>5, <1>6, <1>10 DEF net
<1> QED
  BY <1>8, <1>9, <1>10

\* The range of a hextet keeps a name: the provers count a long one out.
LEMMA GroupsOfV6 ==
  ASSUME NEW ip \in IPv6
  PROVE  /\ Len(ip) = 8 /\ DOMAIN ip = 1..8
         /\ \A i \in 1..8 : ip[i] \in Nat /\ ip[i] <= 65535
<1>1. MaxHextet \in Nat
  BY SMT DEF MaxHextet
<1>2. ip \in [1..8 -> 0..MaxHextet]
  BY Zenon DEF IPv6, Hextets
<1>3. /\ Len(ip) = 8 /\ DOMAIN ip = 1..8
      /\ \A i \in 1..8 : ip[i] \in Nat /\ ip[i] <= MaxHextet
  BY <1>1, <1>2, Groups
<1> QED
  BY <1>3, SMT DEF MaxHextet

\* The same for IPv6, as far as the default networks need it.
LEMMA Network6 ==
  ASSUME NEW base \in IPv6, NEW bits \in 1..128, NEW ip \in IPv6
  PROVE  /\ bits <= 16 =>
                (Contains(Cidr(base, bits), ip)
                 <=> ip[1] \div 2^(16 - bits) = base[1] \div 2^(16 - bits))
         /\ 16 < bits /\ bits <= 32 =>
                (Contains(Cidr(base, bits), ip)
                 <=> ip[1] = base[1] /\ ip[2] \div 2^(32 - bits) = base[2] \div 2^(32 - bits))
         /\ bits > 32 => (Contains(Cidr(base, bits), ip) => ip[1] = base[1])
<1> DEFINE net == Cidr(base, bits)
<1>1. /\ Len(ip) = 8 /\ DOMAIN ip = 1..8 /\ Len(base) = 8
      /\ \A i \in 1..8 : ip[i] \in Nat /\ ip[i] <= 65535 /\ base[i] \in Nat /\ base[i] <= 65535
  BY GroupsOfV6
<1>2. net.base = base /\ net.bits = bits
  BY DEF Cidr
<1>3. Width(base) = 16
  BY <1>1 DEF Width
<1> HIDE DEF net
<1>4. Contains(net, ip) <=>
          \A i \in 1..8 : ip[i] \div Span(net, i) = base[i] \div Span(net, i)
  BY <1>1, <1>2 DEF Contains
<1>5. ASSUME NEW i \in 1..8, bits <= (i - 1) * 16
      PROVE  ip[i] \div Span(net, i) = base[i] \div Span(net, i)
  <2>1. Span(net, i) = 65536
    BY <1>2, <1>3, <1>5 DEF Span, Kept
  <2> QED
    BY <1>1, <2>1
<1>6. ASSUME NEW i \in 1..8, bits >= i * 16
      PROVE  ip[i] \div Span(net, i) = base[i] \div Span(net, i) <=> ip[i] = base[i]
  <2>1. Span(net, i) = 1
    BY <1>2, <1>3, <1>6 DEF Span, Kept
  <2>2. ip[i] \div 1 = ip[i] /\ base[i] \div 1 = base[i]
    BY <1>1
  <2> QED
    BY <2>1, <2>2
<1>7. ASSUME NEW i \in 1..8, (i - 1) * 16 < bits, bits <= i * 16
      PROVE  Span(net, i) = 2^(i * 16 - bits)
  <2>1. Kept(net, i) = bits - (i - 1) * 16
    BY <1>2, <1>3, <1>7 DEF Kept
  <2>2. 16 - Kept(net, i) = i * 16 - bits
    BY <2>1
  <2> QED
    BY <1>2, <1>3, <2>2 DEF Span
<1>8. CASE bits <= 16
  <2>1. Span(net, 1) = 2^(16 - bits)
    BY <1>7, <1>8
  <2> QED
    BY <1>4, <1>5, <1>8, <2>1 DEF net
<1>9. CASE 16 < bits /\ bits <= 32
  <2>1. Span(net, 2) = 2^(32 - bits)
    BY <1>7, <1>9
  <2> QED
    BY <1>4, <1>5, <1>6, <1>9, <2>1 DEF net
<1>10. CASE bits > 32
  BY <1>4, <1>6, <1>10 DEF net
<1> QED
  BY <1>8, <1>9, <1>10

\* What the deny list and the global unicast rule take, by the octets and by the
\* hextets.
Special4(ip) ==
    \/ ip[1] \in {0, 10, 127} \/ ip[1] >= 224
    \/ ip[1] = 100 /\ 64 <= ip[2] /\ ip[2] <= 127
    \/ ip[1] = 169 /\ ip[2] = 254
    \/ ip[1] = 172 /\ 16 <= ip[2] /\ ip[2] <= 31
    \/ ip[1] = 192 /\ \/ ip[2] = 168
                      \/ ip[2] = 0 /\ ip[3] \in {0, 2}
                      \/ ip[2] = 88 /\ ip[3] = 99
    \/ ip[1] = 198 /\ (ip[2] \in {18, 19} \/ (ip[2] = 51 /\ ip[3] = 100))
    \/ ip[1] = 203 /\ ip[2] = 0 /\ ip[3] = 113

Special6(ip) ==
    \/ ip[1] <= 8191 \/ ip[1] >= 16384
    \/ ip[1] = 8193 /\ (ip[2] \in {0, 3512} \/ (16 <= ip[2] /\ ip[2] <= 31))
    \/ ip[1] = 8194

\* What each default network contains, by its first groups.
LEMMA PrivateUseIs ==
  ASSUME NEW ip \in IPv4
  PROVE  /\ (Contains(Cidr(<<10, 0, 0, 0>>, 8), ip) <=> ip[1] = 10)
         /\ (Contains(Cidr(<<172, 16, 0, 0>>, 12), ip) <=> ip[1] = 172 /\ 16 <= ip[2] /\ ip[2] <= 31)
         /\ (Contains(Cidr(<<192, 168, 0, 0>>, 16), ip) <=> ip[1] = 192 /\ ip[2] = 168)
<1>0. ip[1] \in 0..255 /\ ip[2] \in 0..255 /\ ip[3] \in 0..255
  BY DEF IPv4, Octets, MaxOctet
<1>1. Contains(Cidr(<<10, 0, 0, 0>>, 8), ip) <=> ip[1] = 10
  <2>1. <<10, 0, 0, 0>> \in IPv4 /\ 8 \in 1..32
    BY DEF IPv4, Octets, MaxOctet
  <2> QED
    BY <1>0, <2>1, Network4
<1>2. Contains(Cidr(<<172, 16, 0, 0>>, 12), ip) <=> ip[1] = 172 /\ 16 <= ip[2] /\ ip[2] <= 31
  <2>1. <<172, 16, 0, 0>> \in IPv4 /\ 12 \in 1..32
    BY DEF IPv4, Octets, MaxOctet
  <2> QED
    BY <1>0, <2>1, Network4
<1>3. Contains(Cidr(<<192, 168, 0, 0>>, 16), ip) <=> ip[1] = 192 /\ ip[2] = 168
  <2>1. <<192, 168, 0, 0>> \in IPv4 /\ 16 \in 1..32
    BY DEF IPv4, Octets, MaxOctet
  <2> QED
    BY <1>0, <2>1, Network4
<1> QED
  BY <1>1, <1>2, <1>3

LEMMA OwnUseIs ==
  ASSUME NEW ip \in IPv4
  PROVE  /\ (Contains(Cidr(<<169, 254, 0, 0>>, 16), ip) <=> ip[1] = 169 /\ ip[2] = 254)
         /\ (Contains(Cidr(<<127, 0, 0, 0>>, 8), ip) <=> ip[1] = 127)
         /\ (Contains(Cidr(<<224, 0, 0, 0>>, 4), ip) <=> 224 <= ip[1] /\ ip[1] <= 239)
         /\ (Contains(Cidr(<<255, 255, 255, 255>>, 32), ip) => ip[1] = 255)
         /\ (Contains(Cidr(<<0, 0, 0, 0>>, 8), ip) <=> ip[1] = 0)
         /\ (Contains(Cidr(<<100, 64, 0, 0>>, 10), ip) <=> ip[1] = 100 /\ 64 <= ip[2] /\ ip[2] <= 127)
         /\ (Contains(Cidr(<<240, 0, 0, 0>>, 4), ip) <=> 240 <= ip[1])
<1>0. ip[1] \in 0..255 /\ ip[2] \in 0..255 /\ ip[3] \in 0..255
  BY DEF IPv4, Octets, MaxOctet
<1>1. Contains(Cidr(<<169, 254, 0, 0>>, 16), ip) <=> ip[1] = 169 /\ ip[2] = 254
  <2>1. <<169, 254, 0, 0>> \in IPv4 /\ 16 \in 1..32
    BY DEF IPv4, Octets, MaxOctet
  <2> QED
    BY <1>0, <2>1, Network4
<1>2. Contains(Cidr(<<127, 0, 0, 0>>, 8), ip) <=> ip[1] = 127
  <2>1. <<127, 0, 0, 0>> \in IPv4 /\ 8 \in 1..32
    BY DEF IPv4, Octets, MaxOctet
  <2> QED
    BY <1>0, <2>1, Network4
<1>3. Contains(Cidr(<<224, 0, 0, 0>>, 4), ip) <=> 224 <= ip[1] /\ ip[1] <= 239
  <2>1. <<224, 0, 0, 0>> \in IPv4 /\ 4 \in 1..32
    BY DEF IPv4, Octets, MaxOctet
  <2> QED
    BY <1>0, <2>1, Network4
<1>4. Contains(Cidr(<<255, 255, 255, 255>>, 32), ip) => ip[1] = 255
  <2>1. <<255, 255, 255, 255>> \in IPv4 /\ 32 \in 1..32
    BY DEF IPv4, Octets, MaxOctet
  <2> QED
    BY <1>0, <2>1, Network4
<1>5. Contains(Cidr(<<0, 0, 0, 0>>, 8), ip) <=> ip[1] = 0
  <2>1. <<0, 0, 0, 0>> \in IPv4 /\ 8 \in 1..32
    BY DEF IPv4, Octets, MaxOctet
  <2> QED
    BY <1>0, <2>1, Network4
<1>6. Contains(Cidr(<<100, 64, 0, 0>>, 10), ip) <=> ip[1] = 100 /\ 64 <= ip[2] /\ ip[2] <= 127
  <2>1. <<100, 64, 0, 0>> \in IPv4 /\ 10 \in 1..32
    BY DEF IPv4, Octets, MaxOctet
  <2> QED
    BY <1>0, <2>1, Network4
<1>7. Contains(Cidr(<<240, 0, 0, 0>>, 4), ip) <=> 240 <= ip[1]
  <2>1. <<240, 0, 0, 0>> \in IPv4 /\ 4 \in 1..32
    BY DEF IPv4, Octets, MaxOctet
  <2> QED
    BY <1>0, <2>1, Network4
<1> QED
  BY <1>1, <1>2, <1>3, <1>4, <1>5, <1>6, <1>7

LEMMA SpecialUseIs ==
  ASSUME NEW ip \in IPv4
  PROVE  /\ (Contains(Cidr(<<192, 0, 2, 0>>, 24), ip) <=> ip[1] = 192 /\ ip[2] = 0 /\ ip[3] = 2)
         /\ (Contains(Cidr(<<198, 51, 100, 0>>, 24), ip) <=> ip[1] = 198 /\ ip[2] = 51 /\ ip[3] = 100)
         /\ (Contains(Cidr(<<203, 0, 113, 0>>, 24), ip) <=> ip[1] = 203 /\ ip[2] = 0 /\ ip[3] = 113)
         /\ (Contains(Cidr(<<198, 18, 0, 0>>, 15), ip) <=> ip[1] = 198 /\ ip[2] \in {18, 19})
         /\ (Contains(Cidr(<<192, 0, 0, 0>>, 24), ip) <=> ip[1] = 192 /\ ip[2] = 0 /\ ip[3] = 0)
         /\ (Contains(Cidr(<<192, 88, 99, 0>>, 24), ip) <=> ip[1] = 192 /\ ip[2] = 88 /\ ip[3] = 99)
<1>0. ip[1] \in 0..255 /\ ip[2] \in 0..255 /\ ip[3] \in 0..255
  BY DEF IPv4, Octets, MaxOctet
<1>1. Contains(Cidr(<<192, 0, 2, 0>>, 24), ip) <=> ip[1] = 192 /\ ip[2] = 0 /\ ip[3] = 2
  <2>1. <<192, 0, 2, 0>> \in IPv4 /\ 24 \in 1..32
    BY DEF IPv4, Octets, MaxOctet
  <2> QED
    BY <1>0, <2>1, Network4
<1>2. Contains(Cidr(<<198, 51, 100, 0>>, 24), ip) <=> ip[1] = 198 /\ ip[2] = 51 /\ ip[3] = 100
  <2>1. <<198, 51, 100, 0>> \in IPv4 /\ 24 \in 1..32
    BY DEF IPv4, Octets, MaxOctet
  <2> QED
    BY <1>0, <2>1, Network4
<1>3. Contains(Cidr(<<203, 0, 113, 0>>, 24), ip) <=> ip[1] = 203 /\ ip[2] = 0 /\ ip[3] = 113
  <2>1. <<203, 0, 113, 0>> \in IPv4 /\ 24 \in 1..32
    BY DEF IPv4, Octets, MaxOctet
  <2> QED
    BY <1>0, <2>1, Network4
<1>4. Contains(Cidr(<<198, 18, 0, 0>>, 15), ip) <=> ip[1] = 198 /\ ip[2] \in {18, 19}
  <2>1. <<198, 18, 0, 0>> \in IPv4 /\ 15 \in 1..32
    BY DEF IPv4, Octets, MaxOctet
  <2> QED
    BY <1>0, <2>1, Network4
<1>5. Contains(Cidr(<<192, 0, 0, 0>>, 24), ip) <=> ip[1] = 192 /\ ip[2] = 0 /\ ip[3] = 0
  <2>1. <<192, 0, 0, 0>> \in IPv4 /\ 24 \in 1..32
    BY DEF IPv4, Octets, MaxOctet
  <2> QED
    BY <1>0, <2>1, Network4
<1>6. Contains(Cidr(<<192, 88, 99, 0>>, 24), ip) <=> ip[1] = 192 /\ ip[2] = 88 /\ ip[3] = 99
  <2>1. <<192, 88, 99, 0>> \in IPv4 /\ 24 \in 1..32
    BY DEF IPv4, Octets, MaxOctet
  <2> QED
    BY <1>0, <2>1, Network4
<1> QED
  BY <1>1, <1>2, <1>3, <1>4, <1>5, <1>6

\* The bounds keep their names for the same reason.
LEMMA OctetRange ==
  /\ MaxOctet \in Nat /\ Octets = 0..MaxOctet
  /\ \A x \in Octets : x <= 255
BY SMT DEF Octets, MaxOctet

LEMMA HextetRange ==
  /\ MaxHextet \in Nat /\ Hextets = 0..MaxHextet
<1>1. MaxHextet \in Nat
  BY SMT DEF MaxHextet
<1> QED
  BY <1>1, SMT DEF Hextets

LEMMA HextetIs ==
  ASSUME NEW x \in Nat, x <= 65535
  PROVE  x \in Hextets
<1>1. MaxHextet \in Nat /\ x <= MaxHextet
  BY SMT DEF MaxHextet
<1>2. x \in 0..MaxHextet
  BY <1>1, SMT
<1> QED
  BY <1>2, SMT DEF Hextets

\* The head of an IPv6 base: its groups, the first of them, and the second.
GroupOf(head, i) == IF i <= Len(head) THEN head[i] ELSE 0

Base(head, first, second) ==
    /\ \A i \in 1..8 : GroupOf(head, i) \in Nat /\ GroupOf(head, i) <= 65535
    /\ GroupOf(head, 1) = first /\ GroupOf(head, 2) = second

\* A base written by its head is an address.
LEMMA V6Is ==
  ASSUME NEW head, NEW first, NEW second, Base(head, first, second)
  PROVE  V6(head) \in IPv6 /\ V6(head)[1] = first /\ V6(head)[2] = second
<1>1. V6(head) = [i \in 1..8 |-> GroupOf(head, i)]
  BY DEF V6, GroupOf
<1>2. \A i \in 1..8 : GroupOf(head, i) \in Hextets
  BY HextetIs DEF Base
<1> QED
  BY <1>1, <1>2 DEF IPv6, Base

LEMMA NetworkV6 ==
  ASSUME NEW head, NEW first, NEW second, Base(head, first, second),
         NEW bits \in 1..128, NEW ip \in IPv6
  PROVE  /\ bits <= 16 =>
                (Contains(Cidr(V6(head), bits), ip)
                 <=> ip[1] \div 2^(16 - bits) = first \div 2^(16 - bits))
         /\ 16 < bits /\ bits <= 32 =>
                (Contains(Cidr(V6(head), bits), ip)
                 <=> ip[1] = first /\ ip[2] \div 2^(32 - bits) = second \div 2^(32 - bits))
         /\ bits > 32 => (Contains(Cidr(V6(head), bits), ip) => ip[1] = first)
<1> DEFINE base == V6(head)
<1>1. base \in IPv6 /\ base[1] = first /\ base[2] = second
  BY V6Is
<1> HIDE DEF base
<1>2. /\ bits <= 16 =>
             (Contains(Cidr(base, bits), ip)
              <=> ip[1] \div 2^(16 - bits) = base[1] \div 2^(16 - bits))
      /\ 16 < bits /\ bits <= 32 =>
             (Contains(Cidr(base, bits), ip)
              <=> ip[1] = base[1] /\ ip[2] \div 2^(32 - bits) = base[2] \div 2^(32 - bits))
      /\ bits > 32 => (Contains(Cidr(base, bits), ip) => ip[1] = base[1])
  BY <1>1, Network6
<1> QED
  BY <1>1, <1>2 DEF base

LEMMA OwnUseV6Is ==
  ASSUME NEW ip \in IPv6
  PROVE  /\ (Contains(Cidr(V6(<<0, 0, 0, 0, 0, 0, 0, 1>>), 128), ip) => ip[1] = 0)
         /\ (Contains(Cidr(V6(<<65152>>), 10), ip) => 65152 <= ip[1])
         /\ (Contains(Cidr(V6(<<65280>>), 8), ip) => 65280 <= ip[1])
         /\ (Contains(Cidr(V6(<<>>), 128), ip) => ip[1] = 0)
         /\ (Contains(Cidr(V6(<<64512>>), 7), ip) => 64512 <= ip[1])
         /\ (Contains(Cidr(V6(<<0, 0, 0, 0, 0, 65535>>), 96), ip) => ip[1] = 0)
         /\ (Contains(Cidr(V6(<<>>), 96), ip) => ip[1] = 0)
         /\ (Contains(Cidr(V6(<<100, 65435>>), 96), ip) => ip[1] = 100)
         /\ (Contains(Cidr(V6(<<256>>), 64), ip) => ip[1] = 256)
<1>0. ip[1] \in Nat /\ ip[2] \in Nat /\ ip[1] <= 65535 /\ ip[2] <= 65535
  BY GroupsOfV6, SMT
<1>1. Contains(Cidr(V6(<<0, 0, 0, 0, 0, 0, 0, 1>>), 128), ip) => ip[1] = 0
  <2>1. Base(<<0, 0, 0, 0, 0, 0, 0, 1>>, 0, 0)
    BY SMT DEF Base, GroupOf
  <2> QED
    BY <1>0, <2>1, NetworkV6, SMT
<1>2. Contains(Cidr(V6(<<65152>>), 10), ip) => 65152 <= ip[1]
  <2>1. Base(<<65152>>, 65152, 0)
    BY SMT DEF Base, GroupOf
  <2> QED
    BY <1>0, <2>1, NetworkV6, SMT
<1>3. Contains(Cidr(V6(<<65280>>), 8), ip) => 65280 <= ip[1]
  <2>1. Base(<<65280>>, 65280, 0)
    BY SMT DEF Base, GroupOf
  <2> QED
    BY <1>0, <2>1, NetworkV6, SMT
<1>4. Contains(Cidr(V6(<<>>), 128), ip) => ip[1] = 0
  <2>1. Base(<<>>, 0, 0)
    BY SMT DEF Base, GroupOf
  <2> QED
    BY <1>0, <2>1, NetworkV6, SMT
<1>5. Contains(Cidr(V6(<<64512>>), 7), ip) => 64512 <= ip[1]
  <2>1. Base(<<64512>>, 64512, 0)
    BY SMT DEF Base, GroupOf
  <2> QED
    BY <1>0, <2>1, NetworkV6, SMT
<1>6. Contains(Cidr(V6(<<0, 0, 0, 0, 0, 65535>>), 96), ip) => ip[1] = 0
  <2>1. Base(<<0, 0, 0, 0, 0, 65535>>, 0, 0)
    BY SMT DEF Base, GroupOf
  <2> QED
    BY <1>0, <2>1, NetworkV6, SMT
<1>7. Contains(Cidr(V6(<<>>), 96), ip) => ip[1] = 0
  <2>1. Base(<<>>, 0, 0)
    BY SMT DEF Base, GroupOf
  <2> QED
    BY <1>0, <2>1, NetworkV6, SMT
<1>8. Contains(Cidr(V6(<<100, 65435>>), 96), ip) => ip[1] = 100
  <2>1. Base(<<100, 65435>>, 100, 65435)
    BY SMT DEF Base, GroupOf
  <2> QED
    BY <1>0, <2>1, NetworkV6, SMT
<1>9. Contains(Cidr(V6(<<256>>), 64), ip) => ip[1] = 256
  <2>1. Base(<<256>>, 256, 0)
    BY SMT DEF Base, GroupOf
  <2> QED
    BY <1>0, <2>1, NetworkV6, SMT
<1> QED
  BY <1>1, <1>2, <1>3, <1>4, <1>5, <1>6, <1>7, <1>8, <1>9

LEMMA SpecialUseV6Is ==
  ASSUME NEW ip \in IPv6
  PROVE  /\ (Contains(Cidr(V6(<<8193, 3512>>), 32), ip) <=> ip[1] = 8193 /\ ip[2] = 3512)
         /\ (Contains(Cidr(V6(<<8194>>), 16), ip) <=> ip[1] = 8194)
         /\ (Contains(Cidr(V6(<<8193>>), 32), ip) <=> ip[1] = 8193 /\ ip[2] = 0)
         /\ (Contains(Cidr(V6(<<8193, 16>>), 28), ip) <=> ip[1] = 8193 /\ 16 <= ip[2] /\ ip[2] <= 31)
         /\ (Contains(Cidr(V6(<<8192>>), 3), ip) <=> 8192 <= ip[1] /\ ip[1] <= 16383)
<1>0. ip[1] \in Nat /\ ip[2] \in Nat /\ ip[1] <= 65535 /\ ip[2] <= 65535
  BY GroupsOfV6, SMT
<1>1. Contains(Cidr(V6(<<8193, 3512>>), 32), ip) <=> ip[1] = 8193 /\ ip[2] = 3512
  <2>1. Base(<<8193, 3512>>, 8193, 3512)
    BY SMT DEF Base, GroupOf
  <2> QED
    BY <1>0, <2>1, NetworkV6, SMT
<1>2. Contains(Cidr(V6(<<8194>>), 16), ip) <=> ip[1] = 8194
  <2>1. Base(<<8194>>, 8194, 0)
    BY SMT DEF Base, GroupOf
  <2> QED
    BY <1>0, <2>1, NetworkV6, SMT
<1>3. Contains(Cidr(V6(<<8193>>), 32), ip) <=> ip[1] = 8193 /\ ip[2] = 0
  <2>1. Base(<<8193>>, 8193, 0)
    BY SMT DEF Base, GroupOf
  <2> QED
    BY <1>0, <2>1, NetworkV6, SMT
<1>4. Contains(Cidr(V6(<<8193, 16>>), 28), ip) <=> ip[1] = 8193 /\ 16 <= ip[2] /\ ip[2] <= 31
  <2>1. Base(<<8193, 16>>, 8193, 16)
    BY SMT DEF Base, GroupOf
  <2> QED
    BY <1>0, <2>1, NetworkV6, SMTT(60)
<1>5. Contains(Cidr(V6(<<8192>>), 3), ip) <=> 8192 <= ip[1] /\ ip[1] <= 16383
  <2>1. Base(<<8192>>, 8192, 0)
    BY SMT DEF Base, GroupOf
  <2> QED
    BY <1>0, <2>1, NetworkV6, SMT
<1> QED
  BY <1>1, <1>2, <1>3, <1>4, <1>5

\* The deny list and the global unicast rule, in full.
LEMMA Denied4 ==
  ASSUME NEW ip \in IPv4
  PROVE  (\E net \in DefaultDenyCidrs : Contains(net, ip)) <=> Special4(ip)
<1>1. ip[1] \in 0..255 /\ ip[2] \in 0..255 /\ ip[3] \in 0..255 /\ Len(ip) = 4
  BY SMT DEF IPv4, Octets, MaxOctet
<1>2. (\E net \in PrivateUse : Contains(net, ip)) <=>
         \/ ip[1] = 10 \/ (ip[1] = 172 /\ 16 <= ip[2] /\ ip[2] <= 31)
         \/ (ip[1] = 192 /\ ip[2] = 168)
  BY <1>1, PrivateUseIs, SMT DEF PrivateUse
<1>3. (\E net \in OwnUse : Contains(net, ip)) <=>
         \/ ip[1] \in {0, 127} \/ ip[1] >= 224
         \/ (ip[1] = 100 /\ 64 <= ip[2] /\ ip[2] <= 127)
         \/ (ip[1] = 169 /\ ip[2] = 254)
  BY <1>1, OwnUseIs, SMT DEF OwnUse
<1>4. (\E net \in SpecialUse : Contains(net, ip)) <=>
         \/ (ip[1] = 192 /\ ip[2] = 0 /\ ip[3] \in {0, 2})
         \/ (ip[1] = 192 /\ ip[2] = 88 /\ ip[3] = 99)
         \/ (ip[1] = 198 /\ (ip[2] \in {18, 19} \/ (ip[2] = 51 /\ ip[3] = 100)))
         \/ (ip[1] = 203 /\ ip[2] = 0 /\ ip[3] = 113)
  BY <1>1, SpecialUseIs, SMT DEF SpecialUse
<1>5. \A head, bits : ~Contains(Cidr(V6(head), bits), ip)
  BY <1>1, SMT DEF Contains, Cidr, V6
<1>6. \A net \in OwnUseV6 \cup SpecialUseV6 : ~Contains(net, ip)
  BY <1>5, SMTT(60) DEF OwnUseV6, SpecialUseV6
<1> QED
  BY <1>1, <1>2, <1>3, <1>4, <1>6, SMT DEF DefaultDenyCidrs, Special4

LEMMA Denied6 ==
  ASSUME NEW ip \in IPv6
  PROVE  (\E net \in DefaultDenyCidrs : Contains(net, ip)) \/ ~Contains(GlobalUnicastV6, ip)
         <=> Special6(ip)
<1>1. ip[1] \in Nat /\ ip[2] \in Nat /\ Len(ip) = 8
  BY GroupsOfV6, SMT
<1>2. Contains(GlobalUnicastV6, ip) <=> 8192 <= ip[1] /\ ip[1] <= 16383
  BY SpecialUseV6Is, SMT DEF GlobalUnicastV6
<1>3. \A net \in OwnUseV6 :
         Contains(net, ip) => \/ ip[1] \in {0, 100, 256}
                              \/ 64512 <= ip[1]
  BY <1>1, OwnUseV6Is, SMTT(60) DEF OwnUseV6
<1>4. (\E net \in SpecialUseV6 : Contains(net, ip)) <=>
         \/ (ip[1] = 8193 /\ (ip[2] \in {0, 3512} \/ (16 <= ip[2] /\ ip[2] <= 31)))
         \/ ip[1] = 8194
  BY <1>1, SpecialUseV6Is, SMT DEF SpecialUseV6
<1>5. \A a, b, c, d, bits : ~Contains(Cidr(<<a, b, c, d>>, bits), ip)
  BY <1>1, SMT DEF Contains, Cidr
<1>6. \A net \in PrivateUse \cup OwnUse \cup SpecialUse : ~Contains(net, ip)
  BY <1>5, SMT DEF PrivateUse, OwnUse, SpecialUse
<1> QED
  BY <1>1, <1>2, <1>3, <1>4, <1>6, SMT DEF DefaultDenyCidrs, Special6

\* The addresses of a range that differ in one group.
LEMMA Range1 ==
  ASSUME NEW n \in {4, 8}, NEW top \in Nat, NEW ip \in [1..n -> 0..top],
         NEW a \in 0..top, NEW z \in 0..top, a <= z
  PROVE  NotAfter(Fill(<<a>>, n, 0), ip) /\ NotAfter(ip, Fill(<<z>>, n, top))
         <=> a <= ip[1] /\ ip[1] <= z
<1> DEFINE from == <<a>>
           to == <<z>>
<1>1. from \in [1..1 -> 0..top] /\ to \in [1..1 -> 0..top] /\ from[1] = a /\ to[1] = z
  OBVIOUS
<1>3. 1 \in 1..3 /\ (\A i \in 1..(1 - 1) : from[i] = to[i]) /\ from[1] <= to[1]
  BY <1>1
<1> HIDE DEF from, to
<1>2. NotAfter(Fill(from, n, 0), ip) /\ NotAfter(ip, Fill(to, n, top))
      <=> (\A i \in 1..(1 - 1) : ip[i] = from[i]) /\ from[1] <= ip[1] /\ ip[1] <= to[1]
  BY <1>1, <1>3, InBlock, ZenonT(60)
<1> QED
  BY <1>1, <1>2 DEF from, to

LEMMA Range2 ==
  ASSUME NEW n \in {4, 8}, NEW top \in Nat, NEW ip \in [1..n -> 0..top],
         NEW a \in 0..top, NEW b \in 0..top, NEW z \in 0..top, b <= z
  PROVE  NotAfter(Fill(<<a, b>>, n, 0), ip) /\ NotAfter(ip, Fill(<<a, z>>, n, top))
         <=> ip[1] = a /\ b <= ip[2] /\ ip[2] <= z
<1> DEFINE k == 2
           from == <<a, b>>
           to == <<a, z>>
<1>1. k \in 1..3 /\ from \in [1..k -> 0..top] /\ to \in [1..k -> 0..top]
  OBVIOUS
<1>2. (\A i \in 1..(k - 1) : from[i] = to[i]) /\ from[k] <= to[k]
  OBVIOUS
<1>3. (\A i \in 1..(k - 1) : ip[i] = from[i]) /\ from[k] <= ip[k] /\ ip[k] <= to[k]
      <=> ip[1] = a /\ b <= ip[2] /\ ip[2] <= z
  OBVIOUS
<1> HIDE DEF k, from, to
<1>4. NotAfter(Fill(from, n, 0), ip) /\ NotAfter(ip, Fill(to, n, top))
      <=> (\A i \in 1..(k - 1) : ip[i] = from[i]) /\ from[k] <= ip[k] /\ ip[k] <= to[k]
  BY <1>1, <1>2, InBlock, ZenonT(60)
<1> QED
  BY <1>3, <1>4 DEF from, to

\* The reserved ranges, by the groups in which their ends differ.
LEMMA Block4Is1 ==
  ASSUME NEW ip \in IPv4,
         NEW a \in Octets, NEW z \in Octets, a <= z
  PROVE  Within(Block4(<<a>>, <<z>>), ip) <=> a <= ip[1] /\ ip[1] <= z
<1> DEFINE top == MaxOctet
           n == 4
<1>1. top \in Nat /\ n \in {4, 8}
  BY OctetRange, SMT
<1>0. Octets = 0..top
  BY OctetRange, SMT
<1>2. /\ Block4(<<a>>, <<z>>).first = Fill(<<a>>, n, 0)
      /\ Block4(<<a>>, <<z>>).last = Fill(<<z>>, n, top)
  BY SMT DEF Block4
<1>3. IPv4 = [1..n -> Octets]
  BY SMT DEF IPv4
<1> HIDE DEF top, n
<1>4. a \in 0..top /\ z \in 0..top
  BY <1>0, <1>1, SMT
<1>5. ip \in [1..n -> 0..top]
  BY <1>0, <1>3, SMT
<1>6. NotAfter(Fill(<<a>>, n, 0), ip) /\ NotAfter(ip, Fill(<<z>>, n, top)) <=> a <= ip[1] /\ ip[1] <= z
  BY <1>1, <1>4, <1>5, Range1, ZenonT(30)
<1> QED
  BY <1>2, <1>6, SMT DEF Within

LEMMA Block4Is2 ==
  ASSUME NEW ip \in IPv4,
         NEW a \in Octets, NEW b \in Octets, NEW z \in Octets, b <= z
  PROVE  Within(Block4(<<a, b>>, <<a, z>>), ip) <=> ip[1] = a /\ b <= ip[2] /\ ip[2] <= z
<1> DEFINE top == MaxOctet
           n == 4
<1>1. top \in Nat /\ n \in {4, 8}
  BY OctetRange, SMT
<1>0. Octets = 0..top
  BY OctetRange, SMT
<1>2. /\ Block4(<<a, b>>, <<a, z>>).first = Fill(<<a, b>>, n, 0)
      /\ Block4(<<a, b>>, <<a, z>>).last = Fill(<<a, z>>, n, top)
  BY SMT DEF Block4
<1>3. IPv4 = [1..n -> Octets]
  BY SMT DEF IPv4
<1> HIDE DEF top, n
<1>4. a \in 0..top /\ b \in 0..top /\ z \in 0..top
  BY <1>0, <1>1, SMT
<1>5. ip \in [1..n -> 0..top]
  BY <1>0, <1>3, SMT
<1>6. NotAfter(Fill(<<a, b>>, n, 0), ip) /\ NotAfter(ip, Fill(<<a, z>>, n, top)) <=> ip[1] = a /\ b <= ip[2] /\ ip[2] <= z
  BY <1>1, <1>4, <1>5, Range2, ZenonT(30)
<1> QED
  BY <1>2, <1>6, SMT DEF Within

LEMMA Block4Is3 ==
  ASSUME NEW ip \in IPv4, NEW a \in Octets, NEW b \in Octets, NEW c \in Octets
  PROVE  Within(Block4(<<a, b, c>>, <<a, b, c>>), ip) <=> ip[1] = a /\ ip[2] = b /\ ip[3] = c
<1> DEFINE top == MaxOctet
           n == 4
           k == 3
           from == <<a, b, c>>
<1>1. top \in Nat /\ n \in {4, 8}
  BY OctetRange, SMT
<1>2. Octets = 0..top
  BY OctetRange, SMT
<1>3. /\ Block4(from, from).first = Fill(from, n, 0)
      /\ Block4(from, from).last = Fill(from, n, top)
  BY SMT DEF Block4
<1>4. IPv4 = [1..n -> Octets]
  BY SMT DEF IPv4
<1>5. k \in 1..3 /\ from \in [1..k -> Octets]
  BY SMT
<1>6. /\ ip[1] \in 0..top /\ ip[2] \in 0..top /\ ip[3] \in 0..top
      /\ a \in 0..top /\ b \in 0..top /\ c \in 0..top
  BY <1>2, SMT DEF IPv4
<1> HIDE DEF top
<1>7. (\A i \in 1..(k - 1) : from[i] = from[i]) /\ from[k] <= from[k]
  BY <1>1, <1>6, SMT
<1>8. (\A i \in 1..(k - 1) : ip[i] = from[i]) /\ from[k] <= ip[k] /\ ip[k] <= from[k]
      <=> ip[1] = a /\ ip[2] = b /\ ip[3] = c
  BY <1>1, <1>6, SMT
<1> HIDE DEF n, k, from
<1>9. ip \in [1..n -> 0..top] /\ from \in [1..k -> 0..top]
  BY <1>2, <1>4, <1>5, SMT
<1>10. NotAfter(Fill(from, n, 0), ip) /\ NotAfter(ip, Fill(from, n, top))
       <=> (\A i \in 1..(k - 1) : ip[i] = from[i]) /\ from[k] <= ip[k] /\ ip[k] <= from[k]
  BY <1>1, <1>5, <1>7, <1>9, InBlock, ZenonT(60)
<1>11. Within(Block4(from, from), ip) <=> ip[1] = a /\ ip[2] = b /\ ip[3] = c
  BY <1>3, <1>8, <1>10, Zenon DEF Within
<1> QED
  BY <1>11 DEF from

LEMMA Block6Is1 ==
  ASSUME NEW ip \in IPv6,
         NEW a \in Hextets, NEW z \in Hextets, a <= z
  PROVE  Within(Block6(<<a>>, <<z>>), ip) <=> a <= ip[1] /\ ip[1] <= z
<1> DEFINE top == MaxHextet
           n == 8
<1>1. top \in Nat /\ n \in {4, 8}
  BY HextetRange, SMT
<1>0. Hextets = 0..top
  BY HextetRange, SMT
<1>2. /\ Block6(<<a>>, <<z>>).first = Fill(<<a>>, n, 0)
      /\ Block6(<<a>>, <<z>>).last = Fill(<<z>>, n, top)
  BY SMT DEF Block6
<1>3. IPv6 = [1..n -> Hextets]
  BY SMT DEF IPv6
<1> HIDE DEF top, n
<1>4. a \in 0..top /\ z \in 0..top
  BY <1>0, <1>1, SMT
<1>5. ip \in [1..n -> 0..top]
  BY <1>0, <1>3, SMT
<1>6. NotAfter(Fill(<<a>>, n, 0), ip) /\ NotAfter(ip, Fill(<<z>>, n, top)) <=> a <= ip[1] /\ ip[1] <= z
  BY <1>1, <1>4, <1>5, Range1, ZenonT(30)
<1> QED
  BY <1>2, <1>6, SMT DEF Within

LEMMA Block6Is2 ==
  ASSUME NEW ip \in IPv6,
         NEW a \in Hextets, NEW b \in Hextets, NEW z \in Hextets, b <= z
  PROVE  Within(Block6(<<a, b>>, <<a, z>>), ip) <=> ip[1] = a /\ b <= ip[2] /\ ip[2] <= z
<1> DEFINE top == MaxHextet
           n == 8
<1>1. top \in Nat /\ n \in {4, 8}
  BY HextetRange, SMT
<1>0. Hextets = 0..top
  BY HextetRange, SMT
<1>2. /\ Block6(<<a, b>>, <<a, z>>).first = Fill(<<a, b>>, n, 0)
      /\ Block6(<<a, b>>, <<a, z>>).last = Fill(<<a, z>>, n, top)
  BY SMT DEF Block6
<1>3. IPv6 = [1..n -> Hextets]
  BY SMT DEF IPv6
<1> HIDE DEF top, n
<1>4. a \in 0..top /\ b \in 0..top /\ z \in 0..top
  BY <1>0, <1>1, SMT
<1>5. ip \in [1..n -> 0..top]
  BY <1>0, <1>3, SMT
<1>6. NotAfter(Fill(<<a, b>>, n, 0), ip) /\ NotAfter(ip, Fill(<<a, z>>, n, top)) <=> ip[1] = a /\ b <= ip[2] /\ ip[2] <= z
  BY <1>1, <1>4, <1>5, Range2, ZenonT(30)
<1> QED
  BY <1>2, <1>6, SMT DEF Within

\* Each reserved range, by its first groups.
LEMMA Ranges4 ==
  ASSUME NEW ip \in IPv4
  PROVE  /\ (Within(Block4(<<0>>, <<0>>), ip) <=> 0 <= ip[1] /\ ip[1] <= 0)
         /\ (Within(Block4(<<10>>, <<10>>), ip) <=> 10 <= ip[1] /\ ip[1] <= 10)
         /\ (Within(Block4(<<100, 64>>, <<100, 127>>), ip) <=> ip[1] = 100 /\ 64 <= ip[2] /\ ip[2] <= 127)
         /\ (Within(Block4(<<127>>, <<127>>), ip) <=> 127 <= ip[1] /\ ip[1] <= 127)
         /\ (Within(Block4(<<169, 254>>, <<169, 254>>), ip) <=> ip[1] = 169 /\ 254 <= ip[2] /\ ip[2] <= 254)
         /\ (Within(Block4(<<172, 16>>, <<172, 31>>), ip) <=> ip[1] = 172 /\ 16 <= ip[2] /\ ip[2] <= 31)
         /\ (Within(Block4(<<192, 0, 0>>, <<192, 0, 0>>), ip) <=> ip[1] = 192 /\ ip[2] = 0 /\ ip[3] = 0)
         /\ (Within(Block4(<<192, 0, 2>>, <<192, 0, 2>>), ip) <=> ip[1] = 192 /\ ip[2] = 0 /\ ip[3] = 2)
         /\ (Within(Block4(<<192, 88, 99>>, <<192, 88, 99>>), ip) <=> ip[1] = 192 /\ ip[2] = 88 /\ ip[3] = 99)
         /\ (Within(Block4(<<192, 168>>, <<192, 168>>), ip) <=> ip[1] = 192 /\ 168 <= ip[2] /\ ip[2] <= 168)
         /\ (Within(Block4(<<198, 18>>, <<198, 19>>), ip) <=> ip[1] = 198 /\ 18 <= ip[2] /\ ip[2] <= 19)
         /\ (Within(Block4(<<198, 51, 100>>, <<198, 51, 100>>), ip) <=> ip[1] = 198 /\ ip[2] = 51 /\ ip[3] = 100)
         /\ (Within(Block4(<<203, 0, 113>>, <<203, 0, 113>>), ip) <=> ip[1] = 203 /\ ip[2] = 0 /\ ip[3] = 113)
         /\ (Within(Block4(<<224>>, <<MaxOctet>>), ip) <=> 224 <= ip[1] /\ ip[1] <= MaxOctet)
<1>0. {0, 2, 10, 16, 18, 19, 31, 51, 64, 88, 99, 100, 113, 127, 168, 169, 172, 192, 198, 203, 224, 254, MaxOctet} \subseteq Octets /\ 224 <= MaxOctet
  BY SMT DEF Octets, MaxOctet
<1>1. /\ (Within(Block4(<<0>>, <<0>>), ip) <=> 0 <= ip[1] /\ ip[1] <= 0)
      /\ (Within(Block4(<<10>>, <<10>>), ip) <=> 10 <= ip[1] /\ ip[1] <= 10)
      /\ (Within(Block4(<<127>>, <<127>>), ip) <=> 127 <= ip[1] /\ ip[1] <= 127)
      /\ (Within(Block4(<<224>>, <<MaxOctet>>), ip) <=> 224 <= ip[1] /\ ip[1] <= MaxOctet)
  BY <1>0, Block4Is1, SMT
<1>2. /\ (Within(Block4(<<100, 64>>, <<100, 127>>), ip) <=> ip[1] = 100 /\ 64 <= ip[2] /\ ip[2] <= 127)
      /\ (Within(Block4(<<169, 254>>, <<169, 254>>), ip) <=> ip[1] = 169 /\ 254 <= ip[2] /\ ip[2] <= 254)
      /\ (Within(Block4(<<172, 16>>, <<172, 31>>), ip) <=> ip[1] = 172 /\ 16 <= ip[2] /\ ip[2] <= 31)
      /\ (Within(Block4(<<192, 168>>, <<192, 168>>), ip) <=> ip[1] = 192 /\ 168 <= ip[2] /\ ip[2] <= 168)
      /\ (Within(Block4(<<198, 18>>, <<198, 19>>), ip) <=> ip[1] = 198 /\ 18 <= ip[2] /\ ip[2] <= 19)
  BY <1>0, Block4Is2, SMT
<1>3. /\ (Within(Block4(<<192, 0, 0>>, <<192, 0, 0>>), ip) <=> ip[1] = 192 /\ ip[2] = 0 /\ ip[3] = 0)
      /\ (Within(Block4(<<192, 0, 2>>, <<192, 0, 2>>), ip) <=> ip[1] = 192 /\ ip[2] = 0 /\ ip[3] = 2)
      /\ (Within(Block4(<<192, 88, 99>>, <<192, 88, 99>>), ip) <=> ip[1] = 192 /\ ip[2] = 88 /\ ip[3] = 99)
      /\ (Within(Block4(<<198, 51, 100>>, <<198, 51, 100>>), ip) <=> ip[1] = 198 /\ ip[2] = 51 /\ ip[3] = 100)
      /\ (Within(Block4(<<203, 0, 113>>, <<203, 0, 113>>), ip) <=> ip[1] = 203 /\ ip[2] = 0 /\ ip[3] = 113)
  BY <1>0, Block4Is3, SMTT(60)
<1> QED
  BY <1>1, <1>2, <1>3

LEMMA Ranges6 ==
  ASSUME NEW ip \in IPv6
  PROVE  /\ (Within(Block6(<<0>>, <<8191>>), ip) <=> 0 <= ip[1] /\ ip[1] <= 8191)
         /\ (Within(Block6(<<8194>>, <<8194>>), ip) <=> 8194 <= ip[1] /\ ip[1] <= 8194)
         /\ (Within(Block6(<<16384>>, <<MaxHextet>>), ip) <=> 16384 <= ip[1] /\ ip[1] <= MaxHextet)
         /\ (Within(Block6(<<8193, 0>>, <<8193, 511>>), ip) <=> ip[1] = 8193 /\ 0 <= ip[2] /\ ip[2] <= 511)
         /\ (Within(Block6(<<8193, 3512>>, <<8193, 3512>>), ip) <=> ip[1] = 8193 /\ 3512 <= ip[2] /\ ip[2] <= 3512)
         /\ (Within(Block6(<<16383, 0>>, <<16383, 4095>>), ip) <=> ip[1] = 16383 /\ 0 <= ip[2] /\ ip[2] <= 4095)
         /\ (Within(Block6(<<8193, 3>>, <<8193, 3>>), ip) <=> ip[1] = 8193 /\ 3 <= ip[2] /\ ip[2] <= 3)
         /\ (Within(Block6(<<8193, 32>>, <<8193, 47>>), ip) <=> ip[1] = 8193 /\ 32 <= ip[2] /\ ip[2] <= 47)
         /\ (Within(Block6(<<8193, 48>>, <<8193, 63>>), ip) <=> ip[1] = 8193 /\ 48 <= ip[2] /\ ip[2] <= 63)
         /\ (Within(Block6(<<8193, 1>>, <<8193, 15>>), ip) <=> ip[1] = 8193 /\ 1 <= ip[2] /\ ip[2] <= 15)
         /\ (Within(Block6(<<8193, 64>>, <<8193, 511>>), ip) <=> ip[1] = 8193 /\ 64 <= ip[2] /\ ip[2] <= 511)
<1>0. {0, 1, 3, 15, 32, 47, 48, 63, 64, 511, 3512, 4095, 8191, 8193, 8194, 16383, 16384, MaxHextet} \subseteq Hextets /\ 16384 <= MaxHextet
  BY SMT DEF Hextets, MaxHextet
<1>1. /\ (Within(Block6(<<0>>, <<8191>>), ip) <=> 0 <= ip[1] /\ ip[1] <= 8191)
      /\ (Within(Block6(<<8194>>, <<8194>>), ip) <=> 8194 <= ip[1] /\ ip[1] <= 8194)
      /\ (Within(Block6(<<16384>>, <<MaxHextet>>), ip) <=> 16384 <= ip[1] /\ ip[1] <= MaxHextet)
  BY <1>0, Block6Is1, SMT
<1>2. /\ (Within(Block6(<<8193, 0>>, <<8193, 511>>), ip) <=> ip[1] = 8193 /\ 0 <= ip[2] /\ ip[2] <= 511)
      /\ (Within(Block6(<<8193, 3512>>, <<8193, 3512>>), ip) <=> ip[1] = 8193 /\ 3512 <= ip[2] /\ ip[2] <= 3512)
      /\ (Within(Block6(<<16383, 0>>, <<16383, 4095>>), ip) <=> ip[1] = 16383 /\ 0 <= ip[2] /\ ip[2] <= 4095)
      /\ (Within(Block6(<<8193, 3>>, <<8193, 3>>), ip) <=> ip[1] = 8193 /\ 3 <= ip[2] /\ ip[2] <= 3)
      /\ (Within(Block6(<<8193, 32>>, <<8193, 47>>), ip) <=> ip[1] = 8193 /\ 32 <= ip[2] /\ ip[2] <= 47)
      /\ (Within(Block6(<<8193, 48>>, <<8193, 63>>), ip) <=> ip[1] = 8193 /\ 48 <= ip[2] /\ ip[2] <= 63)
      /\ (Within(Block6(<<8193, 1>>, <<8193, 15>>), ip) <=> ip[1] = 8193 /\ 1 <= ip[2] /\ ip[2] <= 15)
      /\ (Within(Block6(<<8193, 64>>, <<8193, 511>>), ip) <=> ip[1] = 8193 /\ 64 <= ip[2] /\ ip[2] <= 511)
  BY <1>0, Block6Is2, SMT
<1> QED
  BY <1>1, <1>2

\* Between two addresses that agree up to a group, so does every address.
Pinned(r, ip, k, n) ==
    /\ k \in 1..n
    /\ DOMAIN r.first = 1..n /\ DOMAIN ip = 1..n
    /\ \A i \in 1..n : r.first[i] \in Nat /\ ip[i] \in Nat /\ r.last[i] \in Nat
    /\ \A j \in 1..(k - 1) : ip[j] = r.first[j]
    /\ \A j \in 1..k : r.first[j] = r.last[j]
    /\ Within(r, ip)

LEMMA Sandwich ==
  ASSUME NEW n \in Nat, NEW r, NEW ip, NEW k, Pinned(r, ip, k, n)
  PROVE  ip[k] = r.first[k]
<1>0. /\ k \in 1..n
      /\ DOMAIN r.first = 1..n /\ DOMAIN ip = 1..n
      /\ \A i \in 1..n : r.first[i] \in Nat /\ ip[i] \in Nat /\ r.last[i] \in Nat
      /\ \A j \in 1..(k - 1) : ip[j] = r.first[j]
      /\ \A j \in 1..k : r.first[j] = r.last[j]
      /\ Within(r, ip)
  BY DEF Pinned
<1> DEFINE a == r.first
           z == r.last
<1>1. NotAfter(a, ip) /\ NotAfter(ip, z)
  BY <1>0 DEF Within
<1> HIDE DEF a, z
<1>2. a[k] <= ip[k]
  <2>1. CASE a = ip
    BY <1>0, <2>1 DEF a
  <2>2. CASE a # ip
    <3>1. PICK i \in 1..n : a[i] < ip[i] /\ \A j \in 1..(i - 1) : a[j] = ip[j]
      BY <1>0, <1>1, <2>2 DEF NotAfter, a
    <3>2. ~(i < k)
      BY <1>0, <3>1 DEF a
    <3> QED
      BY <1>0, <3>1, <3>2 DEF a
  <2> QED
    BY <2>1, <2>2
<1>3. ip[k] <= z[k]
  <2>1. CASE ip = z
    BY <1>0, <2>1 DEF z
  <2>2. CASE ip # z
    <3>1. PICK i \in 1..n : ip[i] < z[i] /\ \A j \in 1..(i - 1) : ip[j] = z[j]
      BY <1>0, <1>1, <2>2 DEF NotAfter
    <3>2. ~(i < k)
      BY <1>0, <3>1 DEF a, z
    <3> QED
      BY <1>0, <3>1, <3>2 DEF z
  <2> QED
    BY <2>1, <2>2
<1>4. a[k] = z[k] /\ a[k] \in Nat /\ ip[k] \in Nat
  BY <1>0 DEF a, z
<1> QED
  BY <1>2, <1>3, <1>4 DEF a

\* The reserved ranges, in full.
LEMMA Reserved4 ==
  ASSUME NEW ip \in IPv4
  PROVE  (\E r \in ReservedV4 : Within(r, ip)) <=> Special4(ip)
<1>1. ip[1] \in 0..255 /\ ip[2] \in 0..255 /\ ip[3] \in 0..255 /\ MaxOctet = 255
  BY SMT DEF IPv4, Octets, MaxOctet
<1>2. (\E r \in ReservedV4 : Within(r, ip)) <=>
         \/ ip[1] <= 0 \/ (10 <= ip[1] /\ ip[1] <= 10)
         \/ (ip[1] = 100 /\ 64 <= ip[2] /\ ip[2] <= 127)
         \/ (127 <= ip[1] /\ ip[1] <= 127)
         \/ (ip[1] = 169 /\ 254 <= ip[2] /\ ip[2] <= 254)
         \/ (ip[1] = 172 /\ 16 <= ip[2] /\ ip[2] <= 31)
         \/ (ip[1] = 192 /\ ip[2] = 0 /\ ip[3] = 0)
         \/ (ip[1] = 192 /\ ip[2] = 0 /\ ip[3] = 2)
         \/ (ip[1] = 192 /\ ip[2] = 88 /\ ip[3] = 99)
         \/ (ip[1] = 192 /\ 168 <= ip[2] /\ ip[2] <= 168)
         \/ (ip[1] = 198 /\ 18 <= ip[2] /\ ip[2] <= 19)
         \/ (ip[1] = 198 /\ ip[2] = 51 /\ ip[3] = 100)
         \/ (ip[1] = 203 /\ ip[2] = 0 /\ ip[3] = 113)
         \/ (224 <= ip[1] /\ ip[1] <= MaxOctet)
  BY <1>1, Ranges4, SMTT(60) DEF ReservedV4
<1> QED
  BY <1>1, <1>2, SMTT(60) DEF Special4

LEMMA Reserved6 ==
  ASSUME NEW ip \in IPv6
  PROVE  (\E r \in ReservedV6 : Within(r, ip)) <=>
            \/ ip[1] <= 8191 \/ ip[1] >= 16384
            \/ ip[1] = 8193 /\ (ip[2] <= 511 \/ ip[2] = 3512)
            \/ ip[1] = 8194
            \/ ip[1] = 16383 /\ ip[2] <= 4095
<1>1. ip[1] \in Nat /\ ip[2] \in Nat /\ ip[1] <= MaxHextet
  BY GroupsOfV6, SMT DEF MaxHextet
<1>2. (\E r \in ReservedV6 : Within(r, ip)) <=>
         \/ ip[1] <= 8191 \/ (ip[1] = 8193 /\ 0 <= ip[2] /\ ip[2] <= 511)
         \/ (ip[1] = 8193 /\ 3512 <= ip[2] /\ ip[2] <= 3512)
         \/ (8194 <= ip[1] /\ ip[1] <= 8194)
         \/ (ip[1] = 16383 /\ 0 <= ip[2] /\ ip[2] <= 4095)
         \/ (16384 <= ip[1] /\ ip[1] <= MaxHextet)
  BY <1>1, Ranges6, SMT DEF ReservedV6
<1> QED
  BY <1>1, <1>2, SMT

LEMMA Forgotten6 ==
  ASSUME NEW ip \in IPv6
  PROVE  (\E r \in ForgottenV6 : Within(r, ip)) <=>
            \/ ip[1] = 8193 /\ \/ 1 <= ip[2] /\ ip[2] <= 15
                               \/ 64 <= ip[2] /\ ip[2] <= 511
            \/ ip[1] = 16383 /\ ip[2] <= 4095
<1>1. ip[1] \in Nat /\ ip[2] \in Nat
  BY GroupsOfV6, SMT
<1>2. (\E r \in ForgottenV6 : Within(r, ip)) <=>
         \/ (ip[1] = 8193 /\ 1 <= ip[2] /\ ip[2] <= 15)
         \/ (ip[1] = 8193 /\ 64 <= ip[2] /\ ip[2] <= 511)
         \/ (ip[1] = 16383 /\ 0 <= ip[2] /\ ip[2] <= 4095)
  BY <1>1, Ranges6, SMT DEF ForgottenV6
<1> QED
  BY <1>1, <1>2, SMT

\* The two public addresses among the protocol assignments of IPv4.
LEMMA Allocated4 ==
  ASSUME NEW ip \in IPv4, NEW r \in AllocatedV4, Within(r, ip)
  PROVE  ip[1] = 192 /\ ip[2] = 0 /\ ip[3] = 0
<1> DEFINE n == 4
<1>1. r = Block4(<<192, 0, 0, 9>>, <<192, 0, 0, 10>>)
  BY DEF AllocatedV4
<1>2. /\ DOMAIN r.first = 1..n
      /\ r.first[1] = 192 /\ r.first[2] = 0 /\ r.first[3] = 0
      /\ r.last[1] = 192 /\ r.last[2] = 0 /\ r.last[3] = 0
      /\ \A i \in 1..n : r.first[i] \in Nat /\ r.last[i] \in Nat
  BY <1>1, SMT DEF Block4, Fill
<1>a. DOMAIN ip = 1..n /\ \A i \in 1..n : ip[i] \in Nat
  BY SMT DEF IPv4, Octets, MaxOctet
<1>3. /\ DOMAIN ip = 1..n
      /\ \A i \in 1..n : r.first[i] \in Nat /\ ip[i] \in Nat /\ r.last[i] \in Nat
  BY <1>2, <1>a
<1>4. n \in Nat /\ 1 \in 1..n /\ 2 \in 1..n /\ 3 \in 1..n
  OBVIOUS
<1> HIDE DEF n
<1>5. ip[1] = 192
  <2> DEFINE k == 1
  <2>1. k \in 1..n
    BY <1>4
  <2>a. \A j \in 1..(k - 1) : ip[j] = r.first[j]
    BY <1>2, <1>4
  <2>b. \A j \in 1..k : r.first[j] = r.last[j]
    BY <1>2, <1>4
  <2> HIDE DEF k
  <2>c. Pinned(r, ip, k, n)
    BY <1>2, <1>3, <2>1, <2>a, <2>b DEF Pinned
  <2>2. ip[k] = r.first[k]
    BY <1>4, <2>c, Sandwich
  <2> QED
    BY <1>2, <2>2 DEF k
<1>6. ip[2] = 0
  <2> DEFINE k == 2
  <2>1. k \in 1..n
    BY <1>4
  <2>a. \A j \in 1..(k - 1) : ip[j] = r.first[j]
    BY <1>2, <1>4, <1>5
  <2>b. \A j \in 1..k : r.first[j] = r.last[j]
    BY <1>2, <1>4, <1>5
  <2> HIDE DEF k
  <2>c. Pinned(r, ip, k, n)
    BY <1>2, <1>3, <2>1, <2>a, <2>b DEF Pinned
  <2>2. ip[k] = r.first[k]
    BY <1>4, <2>c, Sandwich
  <2> QED
    BY <1>2, <2>2 DEF k
<1>7. ip[3] = 0
  <2> DEFINE k == 3
  <2>1. k \in 1..n
    BY <1>4
  <2>a. \A j \in 1..(k - 1) : ip[j] = r.first[j]
    BY <1>2, <1>4, <1>5, <1>6
  <2>b. \A j \in 1..k : r.first[j] = r.last[j]
    BY <1>2, <1>4, <1>5, <1>6
  <2> HIDE DEF k
  <2>c. Pinned(r, ip, k, n)
    BY <1>2, <1>3, <2>1, <2>a, <2>b DEF Pinned
  <2>2. ip[k] = r.first[k]
    BY <1>4, <2>c, Sandwich
  <2> QED
    BY <1>2, <2>2 DEF k
<1> QED
  BY <1>5, <1>6, <1>7

\* A range of IPv6 addresses whose first two groups are given.
Begins(r, b) ==
    /\ DOMAIN r.first = 1..8
    /\ \A i \in 1..8 : r.first[i] \in Nat /\ r.last[i] \in Nat
    /\ r.first[1] = 8193 /\ r.last[1] = 8193
    /\ r.first[2] = b /\ r.last[2] = b

LEMMA InNetwork ==
  ASSUME NEW ip \in IPv6, NEW r, NEW b, Begins(r, b), Within(r, ip)
  PROVE  ip[1] = 8193 /\ ip[2] = b
<1> DEFINE n == 8
<1>1. /\ DOMAIN r.first = 1..n /\ DOMAIN ip = 1..n
      /\ \A i \in 1..n : r.first[i] \in Nat /\ ip[i] \in Nat /\ r.last[i] \in Nat
  BY GroupsOfV6 DEF Begins
<1>a. /\ r.first[1] = 8193 /\ r.last[1] = 8193
      /\ r.first[2] = b /\ r.last[2] = b
  BY DEF Begins
<1>2. n \in Nat /\ 1 \in 1..n /\ 2 \in 1..n
  OBVIOUS
<1> HIDE DEF n
<1>3. ip[1] = 8193
  <2> DEFINE k == 1
  <2>1. k \in 1..n
    BY <1>2
  <2>a. \A j \in 1..(k - 1) : ip[j] = r.first[j]
    BY <1>a, <1>2
  <2>b. \A j \in 1..k : r.first[j] = r.last[j]
    BY <1>a, <1>2
  <2> HIDE DEF k
  <2>c. Pinned(r, ip, k, n)
    BY <1>1, <2>1, <2>a, <2>b DEF Pinned
  <2>2. ip[k] = r.first[k]
    BY <1>2, <2>c, Sandwich
  <2> QED
    BY <1>a, <2>2 DEF k
<1>4. ip[2] = b
  <2> DEFINE k == 2
  <2>1. k \in 1..n
    BY <1>2
  <2>a. \A j \in 1..(k - 1) : ip[j] = r.first[j]
    BY <1>a, <1>2, <1>3
  <2>b. \A j \in 1..k : r.first[j] = r.last[j]
    BY <1>a, <1>2, <1>3
  <2> HIDE DEF k
  <2>c. Pinned(r, ip, k, n)
    BY <1>1, <2>1, <2>a, <2>b DEF Pinned
  <2>2. ip[k] = r.first[k]
    BY <1>2, <2>c, Sandwich
  <2> QED
    BY <1>a, <2>2 DEF k
<1> QED
  BY <1>3, <1>4

\* The public networks among the protocol assignments of IPv6 do not meet what
\* the deny list has of them, and with what it forgot they fill the rest.
LEMMA Allocated6 ==
  ASSUME NEW ip \in IPv6
  PROVE  /\ (\E r \in AllocatedV6 : Within(r, ip)) =>
               ip[1] = 8193 /\ (ip[2] \in {1, 3, 4} \/ (32 <= ip[2] /\ ip[2] <= 63))
         /\ ip[1] = 8193 /\ 32 <= ip[2] /\ ip[2] <= 63 =>
               \E r \in AllocatedV6 : Within(r, ip)
<1> DEFINE anycast == Block6(<<8193, 1, 0, 0, 0, 0, 0, 1>>, <<8193, 1, 0, 0, 0, 0, 0, 3>>)
           as112 == Block6(<<8193, 4, 274>>, <<8193, 4, 274>>)
<1>1. ip[1] \in Nat /\ ip[2] \in Nat
  BY GroupsOfV6, SMT
<1>2. Within(anycast, ip) => ip[1] = 8193 /\ ip[2] = 1
  <2>1. Begins(anycast, 1)
    BY SMT DEF Begins, Block6, Fill, MaxHextet
  <2> HIDE DEF anycast
  <2> QED
    BY <2>1, InNetwork
<1>3. Within(as112, ip) => ip[1] = 8193 /\ ip[2] = 4
  <2>1. Begins(as112, 4)
    BY SMT DEF Begins, Block6, Fill, MaxHextet
  <2> HIDE DEF as112
  <2> QED
    BY <2>1, InNetwork
<1>4. (\E r \in AllocatedV6 : Within(r, ip)) <=>
         \/ Within(anycast, ip) \/ Within(as112, ip)
         \/ (ip[1] = 8193 /\ 3 <= ip[2] /\ ip[2] <= 3)
         \/ (ip[1] = 8193 /\ 32 <= ip[2] /\ ip[2] <= 47)
         \/ (ip[1] = 8193 /\ 48 <= ip[2] /\ ip[2] <= 63)
  <2> HIDE DEF anycast, as112
  <2> DEFINE amt == Block6(<<8193, 3>>, <<8193, 3>>)
             orchid == Block6(<<8193, 32>>, <<8193, 47>>)
             drones == Block6(<<8193, 48>>, <<8193, 63>>)
  <2>1. AllocatedV6 = {anycast, amt, as112, orchid, drones}
    BY DEF AllocatedV6, anycast, as112
  <2>2. /\ Within(amt, ip) <=> ip[1] = 8193 /\ 3 <= ip[2] /\ ip[2] <= 3
        /\ Within(orchid, ip) <=> ip[1] = 8193 /\ 32 <= ip[2] /\ ip[2] <= 47
        /\ Within(drones, ip) <=> ip[1] = 8193 /\ 48 <= ip[2] /\ ip[2] <= 63
    BY Ranges6
  <2> HIDE DEF amt, orchid, drones
  <2> QED
    BY <2>1, <2>2
<1> HIDE DEF anycast, as112
<1> QED
  BY <1>1, <1>2, <1>3, <1>4, SMT

\* A range is met by addresses of its own family only.
LEMMA FamiliesApart ==
  ASSUME NEW ip
  PROVE  /\ ip \in IPv4 =>
              /\ InSome(Reserved, ip) <=> \E r \in ReservedV4 : Within(r, ip)
              /\ InSome(Allocated, ip) <=> \E r \in AllocatedV4 : Within(r, ip)
              /\ InSome(WithheldV4, ip) <=> \E r \in AllocatedV4 : Within(r, ip)
              /\ ~InSome(ForgottenV6, ip)
         /\ ip \in IPv6 =>
              /\ InSome(Reserved, ip) <=> \E r \in ReservedV6 : Within(r, ip)
              /\ InSome(Allocated, ip) <=> \E r \in AllocatedV6 : Within(r, ip)
              /\ InSome(ForgottenV6, ip) <=> \E r \in ForgottenV6 : Within(r, ip)
              /\ ~InSome(WithheldV4, ip)
<1>1. \A from, to : Len(Block4(from, to).first) = 4 /\ Len(Block6(from, to).first) = 8
  BY SMT DEF Block4, Block6, Fill
<1>2. \A r \in ReservedV4 \cup AllocatedV4 : Len(r.first) = 4
  BY <1>1, SMT DEF ReservedV4, AllocatedV4
<1>3. \A r \in ReservedV6 \cup AllocatedV6 \cup ForgottenV6 : Len(r.first) = 8
  BY <1>1, SMT DEF ReservedV6, AllocatedV6, ForgottenV6
<1>4. ip \in IPv4 => Len(ip) = 4
  BY SMT DEF IPv4
<1>5. ip \in IPv6 => Len(ip) = 8
  BY SMT DEF IPv6
<1>6. 4 # 8
  BY SMT
<1>7. ASSUME ip \in IPv4
      PROVE  /\ InSome(Reserved, ip) <=> \E r \in ReservedV4 : Within(r, ip)
             /\ InSome(Allocated, ip) <=> \E r \in AllocatedV4 : Within(r, ip)
             /\ InSome(WithheldV4, ip) <=> \E r \in AllocatedV4 : Within(r, ip)
             /\ ~InSome(ForgottenV6, ip)
  BY <1>2, <1>3, <1>4, <1>6, <1>7, ZenonT(60) DEF InSome, Reserved, Allocated, WithheldV4
<1>8. ASSUME ip \in IPv6
      PROVE  /\ InSome(Reserved, ip) <=> \E r \in ReservedV6 : Within(r, ip)
             /\ InSome(Allocated, ip) <=> \E r \in AllocatedV6 : Within(r, ip)
             /\ InSome(ForgottenV6, ip) <=> \E r \in ForgottenV6 : Within(r, ip)
             /\ ~InSome(WithheldV4, ip)
  BY <1>2, <1>3, <1>5, <1>6, <1>8, ZenonT(60) DEF InSome, Reserved, Allocated, WithheldV4
<1> QED
  BY <1>7, <1>8

\* The deny list and the global unicast rule leave the addresses that the IANA
\* registries call public, whatever the address: but for three ranges of IPv6 that
\* the list forgot, and two addresses of IPv4 that it withholds, every prefix of it
\* is right (default_deny_cidrs, is_allowed).
THEOREM RoutableIsPublic ==
  ASSUME NEW ip \in IPv4 \cup IPv6
  PROVE  Routable(ip) <=> Reachable(ip)
<1>1. CASE ip \in IPv4
  <2>1. Len(ip) = 4
    BY <1>1, SMT DEF IPv4
  <2>2. (\E net \in DefaultDenyCidrs : Contains(net, ip)) <=> InSome(Reserved, ip)
    BY <1>1, Denied4, Reserved4, FamiliesApart
  <2>3. InSome(WithheldV4, ip) <=> InSome(Allocated, ip)
    BY <1>1, FamiliesApart
  <2>4. InSome(Allocated, ip) => InSome(Reserved, ip)
    <3> SUFFICES ASSUME InSome(Allocated, ip) PROVE Special4(ip)
      BY <1>1, Reserved4, FamiliesApart
    <3>1. PICK r \in AllocatedV4 : Within(r, ip)
      BY <1>1, FamiliesApart
    <3>2. ip[1] = 192 /\ ip[2] = 0 /\ ip[3] = 0
      BY <1>1, <3>1, Allocated4
    <3> QED
      BY <3>2 DEF Special4
  <2>5. ~InSome(ForgottenV6, ip)
    BY <1>1, FamiliesApart
  <2>6. (\E net \in DefaultDenyCidrs : Contains(net, ip))
        <=> ~(Public(ip) \/ InSome(ForgottenV6, ip)) \/ InSome(WithheldV4, ip)
    BY <2>2, <2>3, <2>4, <2>5 DEF Public
  <2> QED
    BY <2>1, <2>6 DEF Routable, Reachable
<1>2. CASE ip \in IPv6
  <2>1. Len(ip) = 8 /\ ip[1] \in Nat /\ ip[2] \in Nat
    BY <1>2, GroupsOfV6
  <2>2. ((\E net \in DefaultDenyCidrs : Contains(net, ip)) \/ ~Contains(GlobalUnicastV6, ip))
        <=> Special6(ip)
    BY <1>2, Denied6
  <2>3. Special6(ip)
        <=> InSome(Reserved, ip) /\ ~InSome(Allocated, ip) /\ ~InSome(ForgottenV6, ip)
    <3>1. /\ InSome(Reserved, ip) <=>
                \/ ip[1] <= 8191 \/ ip[1] >= 16384
                \/ ip[1] = 8193 /\ (ip[2] <= 511 \/ ip[2] = 3512)
                \/ ip[1] = 8194
                \/ ip[1] = 16383 /\ ip[2] <= 4095
          /\ InSome(ForgottenV6, ip) <=>
                \/ ip[1] = 8193 /\ \/ 1 <= ip[2] /\ ip[2] <= 15
                                   \/ 64 <= ip[2] /\ ip[2] <= 511
                \/ ip[1] = 16383 /\ ip[2] <= 4095
      BY <1>2, Reserved6, Forgotten6, FamiliesApart
    <3>2. /\ InSome(Allocated, ip) =>
                ip[1] = 8193 /\ (ip[2] \in {1, 3, 4} \/ (32 <= ip[2] /\ ip[2] <= 63))
          /\ ip[1] = 8193 /\ 32 <= ip[2] /\ ip[2] <= 63 => InSome(Allocated, ip)
      BY <1>2, Allocated6, FamiliesApart
    <3> QED
      BY <2>1, <3>1, <3>2, SMTT(60) DEF Special6
  <2>4. ~InSome(WithheldV4, ip)
    BY <1>2, FamiliesApart
  <2>5. ((\E net \in DefaultDenyCidrs : Contains(net, ip)) \/ ~Contains(GlobalUnicastV6, ip))
        <=> ~(Public(ip) \/ InSome(ForgottenV6, ip)) \/ InSome(WithheldV4, ip)
    BY <2>2, <2>3, <2>4 DEF Public
  <2> QED
    BY <2>1, <2>5 DEF Routable, Reachable
<1> QED
  BY <1>1, <1>2

\* The policy allows exactly the addresses that the registries call public and the
\* Forgotten, but for the Withheld, those of DENY_CIDRS and of the host, whatever
\* the refreshes of the snapshot find.
THEOREM PolicyAllowsPublicOnly == Spec => []AllowsPublicOnly
<1>1. \A ip \in Probes : ip \notin Unroutable <=> Reachable(ip)
  BY ProbesAssumption, RoutableIsPublic
<1>2. AllowsPublicOnly
  BY <1>1 DEF AllowsPublicOnly, ReachableProbes, Allowed
<1> QED
  BY <1>2, PTL

\* What connect dials is public by the registries, or in one of the three ranges
\* that the deny list forgot, and DENY_CIDRS does not name it; and no interface of
\* the host has had it throughout, if an enumeration had succeeded by the time of
\* the checks.
THEOREM OnlyPublicIsDialed ==
  ASSUME Addresses \subseteq Probes
  PROVE  Spec => [](\A ip \in dialed : Reachable(ip) /\ (trusted => ip \notin Local))
<1>1. \A ip \in Addresses : ip \notin Unroutable <=> Reachable(ip)
  BY ProbesAssumption, RoutableIsPublic
<1>2. SafeInv => \A ip \in dialed : Reachable(ip) /\ (trusted => ip \notin Local)
  <2> SUFFICES ASSUME SafeInv, NEW ip \in dialed
               PROVE  Reachable(ip) /\ (trusted => ip \notin Local)
    OBVIOUS
  <2>1. ip \in Addresses /\ ip \in Range(answer)
    BY DEF SafeInv, TypeOK, DialsTheAnswer
  <2>2. Clear(ip)
    BY <2>1 DEF SafeInv, ChecksHold, Range
  <2> QED
    BY <1>1, <2>1, <2>2 DEF Clear
<1> QED
  BY <1>2, SafeInvHolds, PTL
=============================================================================
