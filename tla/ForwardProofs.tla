---------------------------- MODULE ForwardProofs ----------------------------
(***************************************************************************)
(* Proofs about forward_request: first of the redirect loop alone          *)
(* (Redirect), for every set of URLs and every limit on hops, against      *)
(* upstreams that answer whatever they like; then of Forward, which        *)
(* without its connector is Redirect, so that all of this holds of the     *)
(* whole request; and last of the connection of each hop, from what        *)
(* ConnectorProofs shows of one call.                                      *)
(***************************************************************************)
EXTENDS Forward, TLAPS

\* How the trail, the hop count and the visited set belong together.
TrailInv ==
    /\ pc = "send" => Len(trail) = hops /\ hops <= MaxHops
    /\ pc = "await" => Len(trail) = hops + 1 /\ hops <= MaxHops
    /\ current \in visited
    /\ \A i \in 1..Len(trail) : trail[i].target \in visited
    /\ pc = "send" => \A i \in 1..Len(trail) : trail[i].target # current
    /\ body => trail = <<>>
    /\ trail # <<>> /\ pc = "send" => method \in {"GET", "HEAD"}

\* What the next request may rely on about all earlier ones.
HistoryInv ==
    pc # "done" =>
        /\ \A i \in 1..Len(trail) : trail[i].target \in Https => current \in Https
        /\ auth => \A i \in 1..Len(trail) : Origin[trail[i].target] = Origin[current]

Safe == HopsBounded /\ NoTargetTwice /\ NeverDowngraded /\ AuthStaysHome /\ BodySentOnce

IInv == TypeOK /\ TrailInv /\ HistoryInv /\ Safe

-----------------------------------------------------------------------------

LEMMA AppendElements ==
  ASSUME NEW S, NEW s \in Seq(S), NEW e \in S
  PROVE  /\ Append(s, e) \in Seq(S)
         /\ Len(Append(s, e)) = Len(s) + 1
         /\ Append(s, e)[Len(s) + 1] = e
         /\ \A i \in 1..Len(s) : Append(s, e)[i] = s[i]
OBVIOUS

LEMMA InitIInv == Init => IInv
<1> SUFFICES ASSUME Init PROVE IInv
  OBVIOUS
<1> USE RedirectAssumption DEF Init
<1>1. TypeOK
  BY DEF TypeOK, Results, Sent
<1>2. TrailInv
  BY DEF TrailInv
<1>3. HistoryInv
  BY DEF HistoryInv
<1>4. Safe
  BY DEF Safe, HopsBounded, NoTargetTwice, NeverDowngraded, AuthStaysHome, BodySentOnce
<1> QED
  BY <1>1, <1>2, <1>3, <1>4 DEF IInv

\* Sending is the only step that extends the trail.
LEMMA SendIInv ==
  ASSUME IInv, Send
  PROVE  IInv'
<1> DEFINE e == [target |-> current, auth |-> auth, body |-> body]
           n == Len(trail)
<1>1. /\ pc = "send" /\ pc' = "await" /\ trail' = Append(trail, e) /\ body' = FALSE
      /\ UNCHANGED <<method, current, visited, hops, auth, result>>
  BY DEF Send
<1>2. e \in Sent /\ trail \in Seq(Sent) /\ n \in Nat
  BY DEF IInv, TypeOK, Sent
<1>3. /\ trail' \in Seq(Sent)
      /\ Len(trail') = n + 1
      /\ trail'[n + 1] = e
      /\ \A i \in 1..n : trail'[i] = trail[i]
  BY <1>1, <1>2, AppendElements
<1>4. \A i \in 1..Len(trail') : i \in 1..n \/ i = n + 1
  BY <1>2, <1>3
<1>5. e.target = current /\ e.auth = auth /\ e.body = body
  OBVIOUS
<1> HIDE DEF e
<1>6. TypeOK'
  BY <1>1, <1>3 DEF IInv, TypeOK
<1>7. TrailInv'
  BY <1>1, <1>2, <1>3, <1>4, <1>5, RedirectAssumption DEF IInv, TypeOK, TrailInv
<1>8. HistoryInv'
  BY <1>1, <1>3, <1>4, <1>5 DEF IInv, HistoryInv
<1>9. Safe'
  <2>1. HopsBounded'
    BY <1>1, <1>2, <1>3, RedirectAssumption DEF IInv, TypeOK, TrailInv, HopsBounded
  <2>2. NoTargetTwice'
    BY <1>1, <1>2, <1>3, <1>4, <1>5 DEF IInv, TrailInv, Safe, NoTargetTwice
  <2>3. NeverDowngraded'
    BY <1>1, <1>2, <1>3, <1>4, <1>5 DEF IInv, HistoryInv, Safe, NeverDowngraded
  <2>4. AuthStaysHome'
    <3> SUFFICES ASSUME NEW i \in 1..Len(trail'), NEW j \in 1..Len(trail'),
                        i <= j, trail'[j].auth
                 PROVE  Origin[trail'[i].target] = Origin[trail'[1].target]
      BY DEF AuthStaysHome
    <3>1. 1 \in 1..Len(trail')
      BY <1>2, <1>3
    <3>2. CASE j \in 1..n
      <4>1. i \in 1..n /\ 1 \in 1..n
        BY <3>2, <1>2
      <4> QED
        BY <3>2, <4>1, <1>3 DEF IInv, Safe, AuthStaysHome
    <3>3. CASE j = n + 1
      <4>1. auth
        BY <3>3, <1>3, <1>5
      <4>2. \A k \in 1..Len(trail') : Origin[trail'[k].target] = Origin[current]
        BY <4>1, <1>1, <1>3, <1>4, <1>5 DEF IInv, HistoryInv
      <4> QED
        BY <3>1, <4>2
    <3> QED
      BY <3>2, <3>3, <1>4
  <2>5. BodySentOnce'
    <3>1. n >= 1 => ~body /\ method \in {"GET", "HEAD"}
      BY <1>1, <1>2 DEF IInv, TrailInv
    <3> SUFFICES ASSUME NEW i \in 2..Len(trail')
                 PROVE  ~trail'[i].body /\ method' \in {"GET", "HEAD"}
      BY DEF BodySentOnce
    <3>2. CASE i \in 1..n
      <4>1. i \in 2..n
        BY <3>2
      <4> QED
        BY <3>2, <4>1, <1>1, <1>3 DEF IInv, Safe, BodySentOnce
    <3>3. CASE i = n + 1
      <4>1. n >= 1
        BY <3>3, <1>2
      <4> QED
        BY <3>3, <4>1, <3>1, <1>1, <1>3, <1>5
    <3>4. i \in 1..Len(trail')
      BY <1>2, <1>3
    <3> QED
      BY <3>2, <3>3, <3>4, <1>4
  <2> QED
    BY <2>1, <2>2, <2>3, <2>4, <2>5 DEF Safe
<1> QED
  BY <1>6, <1>7, <1>8, <1>9 DEF IInv

\* Following a redirect chooses the next target; the trail stays as it is.
LEMMA FollowIInv ==
  ASSUME IInv, NEW status \in Statuses, NEW loc \in Locations, Follow(status, loc)
  PROVE  IInv'
<1>1. /\ pc = "await" /\ pc' = "send" /\ current' = loc
      /\ hops' = hops + 1 /\ hops + 1 <= MaxHops
      /\ visited' = visited \cup {loc} /\ loc \notin visited
      /\ auth' = (auth /\ Origin[current] = Origin[loc])
      /\ method \in {"GET", "HEAD"}
      /\ ~(current \in Https /\ loc \notin Https)
      /\ UNCHANGED <<method, body, result, trail>>
  BY DEF Follow, IsRedirect, Downgrades, HopAllowed, KeepsAuth
<1>2. loc \in Targets
  BY DEF Follow, IsRedirect, Locations
<1>3. TypeOK'
  BY <1>1, <1>2, RedirectAssumption DEF IInv, TypeOK
<1>4. TrailInv'
  BY <1>1, <1>2 DEF IInv, TypeOK, TrailInv
<1>5. HistoryInv'
  BY <1>1 DEF IInv, HistoryInv
<1>6. Safe'
  BY <1>1 DEF IInv, Safe, HopsBounded, NoTargetTwice, NeverDowngraded, AuthStaysHome, BodySentOnce
<1> QED
  BY <1>3, <1>4, <1>5, <1>6 DEF IInv

\* Every way to end leaves the trail as it is.
LEMMA FinishIInv ==
  ASSUME IInv, NEW how \in Results, Finish(how),
         hops' = hops \/ (pc = "await" /\ hops' = hops + 1),
         UNCHANGED <<method, current, visited, auth, body, trail>>
  PROVE  IInv'
<1>1. TypeOK'
  BY RedirectAssumption DEF IInv, TypeOK, TrailInv, Finish
<1>2. TrailInv'
  BY DEF IInv, TrailInv, Finish
<1>3. HistoryInv'
  BY DEF HistoryInv, Finish
<1>4. Safe'
  BY DEF IInv, Safe, HopsBounded, NoTargetTwice, NeverDowngraded, AuthStaysHome, BodySentOnce
<1> QED
  BY <1>1, <1>2, <1>3, <1>4 DEF IInv

LEMMA NextIInv ==
  ASSUME IInv, [Next]_vars
  PROVE  IInv'
<1>1. CASE Send
  BY <1>1, SendIInv
<1>2. CASE ConnectFail \/ Fail
  BY <1>2, FinishIInv DEF ConnectFail, Fail, Results
<1>3. ASSUME NEW status \in Statuses, NEW loc \in Locations,
             Respond(status, loc) \/ HandleRedirect(status, loc)
      PROVE  IInv'
  <2>1. CASE Respond(status, loc)
    BY <2>1, FinishIInv DEF Respond, Results
  <2>2. CASE RefuseDowngrade(status, loc)
    BY <2>2, FinishIInv DEF RefuseDowngrade, Results
  <2>3. CASE RefuseHop(status, loc)
    BY <2>3, FinishIInv DEF RefuseHop, Results
  <2>4. CASE Follow(status, loc)
    BY <2>4, FollowIInv
  <2> QED
    BY <1>3, <2>1, <2>2, <2>3, <2>4 DEF HandleRedirect
<1>4. CASE UNCHANGED vars
  BY <1>4 DEF vars, IInv, TypeOK, TrailInv, HistoryInv, Safe, HopsBounded, NoTargetTwice,
              NeverDowngraded, AuthStaysHome, BodySentOnce
<1> QED
  BY <1>1, <1>2, <1>3, <1>4 DEF Next

LEMMA SpecIInv == Spec => []IInv
BY InitIInv, NextIInv, PTL DEF Spec

-----------------------------------------------------------------------------

\* Every variable keeps its type; hop_count passes the limit by one at most.
THEOREM RedirectTypeCorrect == Spec => []TypeOK
BY SpecIInv, PTL DEF IInv

\* At most MaxHops redirects are followed (hop_count in handle_redirect).
THEOREM RedirectsAreBounded == Spec => []HopsBounded
BY SpecIInv, PTL DEF IInv, Safe

\* No URL is requested twice for one request (visit).
THEOREM RedirectsDoNotLoop == Spec => []NoTargetTwice
BY SpecIInv, PTL DEF IInv, Safe

\* Comparing neighbours is enough to keep the whole chain from going back to
\* http (the downgrade check of handle_redirect).
THEOREM RedirectsStaySecure == Spec => []NeverDowngraded
BY SpecIInv, PTL DEF IInv, Safe

\* Authorization never reaches a target outside the first target's origin, nor
\* a later one inside it after the chain has left (strip_authorization).
THEOREM AuthorizationStaysHome == Spec => []AuthStaysHome
BY SpecIInv, PTL DEF IInv, Safe

\* The body is sent at most once, and methods with a body are not repeated.
THEOREM BodyIsNotReplayed == Spec => []BodySentOnce
BY SpecIInv, PTL DEF IInv, Safe

-----------------------------------------------------------------------------
(* The whole request                                                       *)

\* Every step of forward_request is a step of the redirect loop or leaves the
\* loop's variables alone: the connector takes part in none of its decisions.
THEOREM ForwardImplementsRedirect == ForwardSpec => Spec
<1>1. ForwardInit => Init
  BY DEF ForwardInit
<1>2. [ForwardNext]_forward => [Next]_vars
  <2> SUFFICES ASSUME [ForwardNext]_forward PROVE [Next]_vars
    OBVIOUS
  <2>1. CASE Inside(C!Next)
    BY <2>1 DEF Inside
  <2>2. CASE SendRequest \/ GiveUp
    BY <2>2 DEF SendRequest, GiveUp, Next
  <2>3. CASE HeadersTick \/ HeadersExpire \/ HeadersFail
    BY <2>3 DEF HeadersTick, HeadersExpire, HeadersFail, Next
  <2>4. ASSUME NEW status \in Statuses, NEW loc \in Locations,
               Conclude(status, loc) \/ FollowRedirect(status, loc)
        PROVE  Next
    BY <2>4 DEF Conclude, FollowRedirect, Next, HandleRedirect
  <2>5. CASE UNCHANGED forward
    BY <2>5 DEF forward
  <2> QED
    BY <2>1, <2>2, <2>3, <2>4, <2>5 DEF ForwardNext
<1> QED
  BY <1>1, <1>2, PTL DEF ForwardSpec, Spec

\* The client's Authorization stays within its origin in the whole request.
COROLLARY ForwardKeepsAuthorizationHome == ForwardSpec => []AuthStaysHome
BY ForwardImplementsRedirect, AuthorizationStaysHome, PTL

-----------------------------------------------------------------------------

\* How far the round is, in the loop and in its call.
RoundsFit ==
    /\ pc # "send" => place = "done"
    /\ place = "done" <=> outcome # "none"
    /\ pc = "await" => outcome = "connected"

\* The call is about the current target, and what it returned is of its answer.
CallFits ==
    /\ https = (current \in Https)
    /\ place # "resolve" => asked = current
    /\ place = "tls" \/ outcome = "connected" => peer \in Range(answer)

HopInv == RoundsFit /\ CallFits

LEMMA InitHopInv == ForwardInit => HopInv
BY DEF ForwardInit, Init, C!Init, HopInv, RoundsFit, CallFits

\* A step of the connector moves the call on and never changes its target.
LEMMA InsideHopInv ==
  ASSUME HopInv, Inside(C!Next)
  PROVE  HopInv'
<1> USE DEF HopInv, RoundsFit, CallFits
<1>1. /\ UNCHANGED <<vars, quiet>>
      /\ asked' = IF place = "resolve" THEN current ELSE asked
      /\ C!Next
  BY DEF Inside
<1>2. UNCHANGED <<pc, current>>
  BY <1>1 DEF vars
<1>3. CASE C!RefreshHost
  BY <1>1, <1>2, <1>3 DEF C!RefreshHost, C!call
<1>4. CASE C!Resolved
  BY <1>1, <1>2, <1>4 DEF C!Resolved, C!GoOn
<1>5. CASE C!ResolveFails \/ C!ResolveExpires \/ C!Cancel
  BY <1>1, <1>2, <1>5 DEF C!ResolveFails, C!ResolveExpires, C!Cancel, C!Return
<1>6. CASE C!Validate
  BY <1>1, <1>2, <1>6 DEF C!Validate, C!Accept, C!Block, C!Return
<1>7. ASSUME NEW e \in {"connect_failed", "connect_timeout"}, place = "dial", C!FailOver(e)
      PROVE  HopInv'
  BY <1>1, <1>2, <1>7 DEF C!FailOver, C!GoOn, C!Return
<1>8. CASE C!DialFails \/ C!DialExpires
  BY <1>7, <1>8 DEF C!DialFails, C!DialExpires
<1>9. ASSUME NEW p \in Addresses, C!Dialed(p) PROVE HopInv'
  <2>1. p \in Range(answer)
    BY <1>9 DEF C!Dialed, C!Range, Range
  <2>2. /\ place = "dial" /\ peer' = p
        /\ UNCHANGED <<https, answer>>
        /\ \/ place' = "tls" /\ outcome' = outcome
           \/ place' = "done" /\ outcome' = "connected"
    BY <1>9 DEF C!Dialed, C!GoOn, C!Return
  <2> QED
    BY <1>1, <1>2, <2>1, <2>2
<1>10. ASSUME NEW p \in Addresses, C!DialedElsewhere(p) PROVE HopInv'
  BY <1>7, <1>10 DEF C!DialedElsewhere
<1>11. CASE C!TlsDone \/ C!TlsFails \/ C!TlsExpires
  BY <1>1, <1>2, <1>11 DEF C!TlsDone, C!TlsFails, C!TlsExpires, C!Return
<1>12. CASE C!Tick
  BY <1>1, <1>2, <1>12 DEF C!Tick
<1> QED
  BY <1>1, <1>3, <1>4, <1>5, <1>6, <1>8, <1>9, <1>10, <1>11, <1>12 DEF C!Next, C!Expire

LEMMA NextHopInv == HopInv /\ [ForwardNext]_forward => HopInv'
<1> SUFFICES ASSUME HopInv, [ForwardNext]_forward PROVE HopInv'
  OBVIOUS
<1> USE DEF HopInv, RoundsFit, CallFits
<1>1. CASE Inside(C!Next)
  BY <1>1, InsideHopInv
<1>2. CASE SendRequest \/ GiveUp
  BY <1>2 DEF SendRequest, GiveUp, Send, ConnectFail, Finish, connect
<1>3. CASE HeadersTick \/ HeadersExpire \/ HeadersFail
  BY <1>3 DEF HeadersTick, HeadersExpire, HeadersFail, Fail, Finish, connect, vars
<1>4. ASSUME NEW status \in Statuses, NEW loc \in Locations, Conclude(status, loc)
      PROVE  HopInv'
  BY <1>4 DEF Conclude, Respond, RefuseDowngrade, RefuseHop, Finish, connect
<1>5. ASSUME NEW status \in Statuses, NEW loc \in Locations, FollowRedirect(status, loc)
      PROVE  HopInv'
  BY <1>5 DEF FollowRedirect, Follow, NewCall
<1>6. CASE UNCHANGED forward
  BY <1>6 DEF forward, vars, connect
<1> QED
  BY <1>1, <1>2, <1>3, <1>4, <1>5, <1>6 DEF ForwardNext

\* A hop is sent on a connection that was resolved, checked and secured for it.
THEOREM HopsAreChecked == ForwardSpec => []EveryHopIsChecked
<1>1. HopInv => EveryHopIsChecked
  BY DEF HopInv, RoundsFit, CallFits, EveryHopIsChecked
<1> QED
  BY <1>1, InitHopInv, NextHopInv, PTL DEF ForwardSpec

-----------------------------------------------------------------------------
(* What the checks of every hop establish                                  *)

\* Connector with the proofs about it, for the call of the current round.
P == INSTANCE ConnectorProofs
       WITH pc <- place, result <- outcome, Probes <- {}, DenyCidrs <- {}

LEMMA SameAnswers == C!Answers = P!Answers
BY DEF C!Answers, C!Injection, C!IsInjective, C!Cardinality, C!IsFiniteSet,
       P!Answers, P!Injection, P!IsInjective, P!Cardinality, P!IsFiniteSet

\* P has the actions of C.
LEMMA SameSteps == C!Next => P!Next
<1> USE DEF C!policy, C!call, C!GoOn, C!Return, C!FailOver,
            P!policy, P!call, P!GoOn, P!Return, P!FailOver
<1>1. C!Resolved => P!Resolved
  BY SameAnswers DEF C!Resolved, P!Resolved
<1>2. C!ResolveFails => P!ResolveFails
  BY DEF C!ResolveFails, P!ResolveFails
<1>3. C!Validate => P!Validate
  BY DEF C!Validate, C!Accept, C!Block, C!Allowed,
         P!Validate, P!Accept, P!Block, P!Allowed
<1>4. \A p \in Addresses : C!Dialed(p) => P!Dialed(p)
  BY DEF C!Dialed, C!Range, P!Dialed, P!Range
<1>5. \A p \in Addresses : C!DialedElsewhere(p) => P!DialedElsewhere(p)
  BY DEF C!DialedElsewhere, C!Range, P!DialedElsewhere, P!Range
<1>6. C!DialFails => P!DialFails
  BY DEF C!DialFails, P!DialFails
<1>7. C!TlsDone \/ C!TlsFails => P!TlsDone \/ P!TlsFails
  BY DEF C!TlsDone, C!TlsFails, P!TlsDone, P!TlsFails
<1>8. C!Expire => P!Expire
  BY DEF C!Expire, C!ResolveExpires, C!DialExpires, C!TlsExpires,
         P!Expire, P!ResolveExpires, P!DialExpires, P!TlsExpires
<1>9. C!Cancel => P!Cancel
  BY DEF C!Cancel, P!Cancel
<1>10. C!Tick => P!Tick
  BY DEF C!Tick, C!Limit, P!Tick, P!Limit
<1>11. C!RefreshHost => P!RefreshHost
  BY DEF C!RefreshHost, C!Refresh, C!RefreshOk, C!RefreshFail, C!Enumerations,
         P!RefreshHost, P!Refresh, P!RefreshOk, P!RefreshFail, P!Enumerations
<1> QED
  BY <1>1, <1>2, <1>3, <1>4, <1>5, <1>6, <1>7, <1>8, <1>9, <1>10, <1>11
     DEF C!Next, P!Next

\* What ConnectorProofs assumes of its constants is assumed here.
LEMMA CallAssumptions ==
  /\ P!IsFiniteSet(Addresses) /\ Local \subseteq Addresses
  /\ DnsTimeout \in Nat \ {0} /\ ConnectTimeout \in Nat \ {0} /\ TlsTimeout \in Nat \ {0}
  /\ NoAddress \notin Addresses
  /\ {} \subseteq P!IPv4 \cup P!IPv6
  /\ \A ip \in {} : ip \in Unroutable <=> ~P!Routable(ip)
BY ForwardAssumption DEF IsFiniteSet, P!IsFiniteSet

LEMMA FreshCallSafe == P!Fresh => P!SafeInv
BY CallAssumptions, P!FreshIsSafe

LEMMA CallStepSafe == P!SafeInv /\ [P!Next]_(P!vars) => P!SafeInv'
BY CallAssumptions, P!NextSafeInv

\* The first call starts with the snapshot as main left it.
LEMMA InitCallSafe == ForwardInit => P!SafeInv
<1>1. ForwardInit => P!Fresh
  BY DEF ForwardInit, C!Init, C!PolicyInit, P!Fresh, P!PolicyTypeOK
<1> QED
  BY <1>1, FreshCallSafe

\* A redirect that is followed begins a call of its own.
LEMMA RedirectBeginsFresh ==
  ASSUME P!SafeInv, NEW status \in Statuses, NEW loc \in Locations,
         FollowRedirect(status, loc)
  PROVE  P!Fresh'
<1>1. P!PolicyTypeOK /\ (enumerated => Local \subseteq host)
  BY DEF P!SafeInv, P!TypeOK, P!ChecksHold
<1>2. NewCall(loc)
  BY DEF FollowRedirect
<1>3. UNCHANGED <<host, refresher, enumerated>>
  BY <1>2 DEF NewCall, snapshot
<1>4. P!PolicyTypeOK' /\ (enumerated' => Local \subseteq host')
  BY <1>1, <1>3 DEF P!PolicyTypeOK
<1> QED
  BY <1>2, <1>4 DEF NewCall, P!Fresh

\* A step of the round's call keeps what its checks have established; a redirect
\* that is followed begins a new call, which has established nothing yet.
LEMMA NextCallSafe == P!SafeInv /\ [ForwardNext]_forward => P!SafeInv'
<1>1. P!SafeInv /\ Inside(C!Next) => P!SafeInv'
  BY SameSteps, CallStepSafe DEF Inside
<1>2. P!SafeInv /\ UNCHANGED connect => P!SafeInv'
  <2>1. UNCHANGED connect => UNCHANGED P!vars
    BY DEF connect, snapshot, P!vars, P!policy, P!call
  <2> QED
    BY <2>1, CallStepSafe
<1>3. ASSUME P!SafeInv, NEW status \in Statuses, NEW loc \in Locations,
             FollowRedirect(status, loc)
      PROVE  P!Fresh'
  BY <1>3, RedirectBeginsFresh
<1>4. P!Fresh' => P!SafeInv'
  BY FreshCallSafe, PTL
<1>5. ASSUME NEW status \in Statuses, NEW loc \in Locations, Conclude(status, loc)
      PROVE  UNCHANGED connect
  BY <1>5 DEF Conclude
<1>6. SendRequest \/ GiveUp \/ HeadersTick \/ HeadersExpire \/ HeadersFail
        => UNCHANGED connect
  BY DEF SendRequest, GiveUp, HeadersTick, HeadersExpire, HeadersFail
<1>7. UNCHANGED forward => UNCHANGED connect
  BY DEF forward
<1> QED
  BY <1>1, <1>2, <1>3, <1>4, <1>5, <1>6, <1>7 DEF ForwardNext

\* Whatever chain of redirects the upstreams and whatever answers the resolver
\* come up with, no hop dials a denied address, or one of the host's own once
\* an enumeration has found them.
THEOREM NoHopLeavesThePolicy == ForwardSpec => []NothingForbiddenDialed
<1>1. P!SafeInv => NothingForbiddenDialed
  <2> SUFFICES ASSUME P!SafeInv, NEW ip \in dialed
               PROVE  ip \notin Unroutable /\ (trusted => ip \notin Local)
    BY DEF NothingForbiddenDialed
  <2>1. PICK i \in DOMAIN answer : ip = answer[i]
    BY DEF P!SafeInv, P!DialsTheAnswer, P!Range
  <2>2. P!Clear(answer[i])
    BY <2>1 DEF P!SafeInv, P!ChecksHold
  <2> QED
    BY <2>1, <2>2 DEF P!Clear
<1> QED
  BY <1>1, InitCallSafe, NextCallSafe, PTL DEF ForwardSpec

-----------------------------------------------------------------------------
(* How long a hop may take                                                 *)

\* A hop spends at most one DNS timeout, one connect timeout for each address
\* and one TLS timeout on its connection, and one more timeout on its headers.
HopIsBounded ==
    /\ total <= DnsTimeout + Len(answer) * ConnectTimeout + TlsTimeout
    /\ quiet <= HeadersTimeout

\* What the clocks of a hop rest on; headers are awaited only once it is sent.
ClockInv ==
    /\ P!SafeInv /\ P!TimeHolds /\ P!WaitBounded
    /\ quiet \in 0..HeadersTimeout

LEMMA FreshCallTime == P!Fresh => P!TimeHolds /\ P!WaitBounded
<1> SUFFICES ASSUME P!Fresh PROVE P!TimeHolds /\ P!WaitBounded
  OBVIOUS
<1>1. place = "resolve" /\ waited = 0 /\ total = 0 /\ Len(answer) = 0
  BY DEF P!Fresh
<1>2. 0 * ConnectTimeout = 0
  BY CallAssumptions
<1> QED
  BY <1>1, <1>2, CallAssumptions DEF P!TimeHolds, P!WaitBounded

LEMMA CallStepTime ==
  P!SafeInv /\ P!TimeHolds /\ P!WaitBounded /\ [P!Next]_(P!vars)
    => P!TimeHolds' /\ P!WaitBounded'
BY CallAssumptions, P!WaitStaysBounded DEF P!SafeInv

LEMMA InitClock == ForwardInit => ClockInv
<1> SUFFICES ASSUME ForwardInit PROVE ClockInv
  OBVIOUS
<1>1. P!Fresh
  BY DEF ForwardInit, C!Init, C!PolicyInit, P!Fresh, P!PolicyTypeOK
<1>2. quiet \in 0..HeadersTimeout
  BY ForwardAssumption DEF ForwardInit
<1> QED
  BY <1>1, <1>2, FreshCallSafe, FreshCallTime DEF ClockInv

LEMMA NextClock == ClockInv /\ [ForwardNext]_forward => ClockInv'
<1> USE DEF ClockInv
<1>1. ClockInv /\ Inside(C!Next) => ClockInv'
  BY SameSteps, CallStepSafe, CallStepTime DEF Inside
<1>2. ClockInv /\ UNCHANGED connect /\ quiet' \in 0..HeadersTimeout => ClockInv'
  <2>1. UNCHANGED connect => UNCHANGED P!vars
    BY DEF connect, snapshot, P!vars, P!policy, P!call
  <2> QED
    BY <2>1, CallStepSafe, CallStepTime
<1>3. ASSUME ClockInv, NEW status \in Statuses, NEW loc \in Locations,
             FollowRedirect(status, loc)
      PROVE  P!Fresh' /\ quiet' \in 0..HeadersTimeout
  <2>1. NewCall(loc)
    BY <1>3 DEF FollowRedirect
  <2>2. P!Fresh'
    BY <1>3, RedirectBeginsFresh
  <2> QED
    BY <2>1, <2>2, ForwardAssumption DEF NewCall
<1>4. P!Fresh' => P!SafeInv' /\ P!TimeHolds' /\ P!WaitBounded'
  BY FreshCallSafe, FreshCallTime, PTL
<1>5. ASSUME NEW status \in Statuses, NEW loc \in Locations, Conclude(status, loc)
      PROVE  UNCHANGED <<connect, quiet>>
  BY <1>5 DEF Conclude
<1>6. SendRequest \/ GiveUp \/ HeadersExpire \/ HeadersFail => UNCHANGED <<connect, quiet>>
  BY DEF SendRequest, GiveUp, HeadersExpire, HeadersFail
<1>7. ClockInv /\ HeadersTick => UNCHANGED connect /\ quiet' \in 0..HeadersTimeout
  BY ForwardAssumption DEF HeadersTick
<1>8. UNCHANGED forward => UNCHANGED <<connect, quiet>>
  BY DEF forward
<1> QED
  BY <1>1, <1>2, <1>3, <1>4, <1>5, <1>6, <1>7, <1>8 DEF ForwardNext

\* Every hop starts its clocks anew and no wait of it is unbounded.  With
\* RedirectsAreBounded, the time to the response headers is bounded too, however
\* many addresses and redirects the other side comes up with.
THEOREM HopsTakeBoundedTime == ForwardSpec => []HopIsBounded
<1>1. ClockInv => HopIsBounded
  BY ForwardAssumption DEF ClockInv, P!WaitBounded, HopIsBounded
<1> QED
  BY <1>1, InitClock, NextClock, PTL DEF ForwardSpec
=============================================================================
