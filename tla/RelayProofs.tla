---------------------------- MODULE RelayProofs ----------------------------
(***************************************************************************)
(* Proofs about Relay, for every set of requests and every limit.          *)
(***************************************************************************)
EXTENDS Relay, FiniteSetTheorems, TLAPS

\* How far a request can be with no connection and no answer yet.
BeforeDial == {"new", "screen", "rate", "egress"}

\* The part of the invariant that ties a request's place to its answer.
PlaceInv ==
    \A r \in Requests :
        /\ pc[r] \in BeforeDial \cup {"connect", "send"} => answer[r] = "none"
        /\ pc[r] = "stream" => answer[r] = "relayed"
        /\ pc[r] \in {"rate", "egress", "connect", "send", "stream"} => kind[r] = "proxy"
        /\ pc[r] \in BeforeDial => \A h \in Hops : <<r, h>> \notin conns
        /\ answer[r] = "overloaded" => kind[r] # "healthz"

\* The inductive invariant.  PermitsExact alone is not inductive: an answer of
\* "overloaded" could be overwritten by a later step of the same request.
IInv == TypeOK /\ PlaceInv /\ PermitsExact /\ RefusedNeverDials

-----------------------------------------------------------------------------

LEMMA InitIInv == Init => IInv
<1> SUFFICES ASSUME Init PROVE IInv
  OBVIOUS
<1> USE LimitsAssumption
<1>1. TypeOK
  BY DEF Init, TypeOK, Kinds, Places, Answers, Hops
<1>2. PlaceInv
  BY DEF Init, PlaceInv, BeforeDial
<1>3. PermitsExact
  <2>1. Counted = {}
    BY DEF Init, Counted
  <2>2. Cardinality({}) = 0
    BY FS_EmptySet
  <2> QED
    BY <2>1, <2>2 DEF Init, PermitsExact
<1>4. RefusedNeverDials
  BY DEF Init, RefusedNeverDials
<1> QED
  BY <1>1, <1>2, <1>3, <1>4 DEF IInv

\* Type correctness is preserved by every step.
LEMMA NextTypeOK ==
  ASSUME IInv, Next
  PROVE  TypeOK'
<1> USE LimitsAssumption DEF IInv, TypeOK, Kinds, Places, Answers, Hops, MoveTo, ReplyWith
<1> PICK r \in Requests :
        \/ Admit(r) \/ Screen(r) \/ CheckAdmission(r) \/ Forward(r)
        \/ Frame(r) \/ BodyEnd(r) \/ Disconnect(r)
        \/ Upload(r) \/ \E h \in Hops : ConnEnd(r, h)
  BY DEF Next
<1>1. CASE Admit(r)
  BY <1>1 DEF Admit, Bypass, Acquire, Overload
<1>2. CASE Screen(r)
  BY <1>2 DEF Screen, ScreenPass, ScreenReply
<1>3. CASE CheckAdmission(r)
  BY <1>3 DEF CheckAdmission, RateAllow, RateLimit, BudgetAllow, BudgetExceed
<1>4. CASE Forward(r)
  BY <1>4 DEF Forward, Connect, ConnectFail, Respond, Redirect, SendFail
<1>5. CASE Frame(r)
  BY <1>5 DEF Frame, CountFrame
<1>6. CASE BodyEnd(r) \/ Disconnect(r)
  <2>1. r \in permits => available < MaxConcurrent
    <3>1. IsFiniteSet(permits)
      BY RequestsFinite, FS_Subset
    <3>2. Cardinality(permits) \in Nat
      BY <3>1, FS_CardinalityType
    <3>3. r \in permits => Cardinality(permits) # 0
      BY <3>1, FS_EmptySet
    <3> QED
      BY <3>2, <3>3 DEF PermitsExact
  <2> QED
    BY <1>6, <2>1 DEF BodyEnd, Disconnect, Drop
<1>7. CASE Upload(r)
  BY <1>7 DEF Upload, UploadFrame, UploadEnd, CountFrame
<1>8. CASE \E h \in Hops : ConnEnd(r, h)
  BY <1>8 DEF ConnEnd
<1> QED
  BY <1>1, <1>2, <1>3, <1>4, <1>5, <1>6, <1>7, <1>8

\* A request's place keeps agreeing with its answer and its connections.
LEMMA NextPlaceInv ==
  ASSUME IInv, Next
  PROVE  PlaceInv'
<1> USE DEF IInv, TypeOK, PlaceInv, BeforeDial, MoveTo, ReplyWith
<1> PICK r \in Requests :
        \/ Admit(r) \/ Screen(r) \/ CheckAdmission(r) \/ Forward(r)
        \/ Frame(r) \/ BodyEnd(r) \/ Disconnect(r)
        \/ Upload(r) \/ \E h \in Hops : ConnEnd(r, h)
  BY DEF Next
<1>1. CASE Admit(r)
  BY <1>1 DEF Admit, Bypass, Acquire, Overload
<1>2. CASE Screen(r)
  BY <1>2 DEF Screen, ScreenPass, ScreenReply
<1>3. CASE CheckAdmission(r)
  BY <1>3 DEF CheckAdmission, RateAllow, RateLimit, BudgetAllow, BudgetExceed
<1>4. CASE Forward(r)
  BY <1>4 DEF Forward, Connect, ConnectFail, Respond, Redirect, SendFail
<1>5. CASE Frame(r)
  BY <1>5 DEF Frame
<1>6. CASE BodyEnd(r) \/ Disconnect(r)
  BY <1>6 DEF BodyEnd, Disconnect, Drop
<1>7. CASE Upload(r)
  BY <1>7 DEF Upload, UploadFrame, UploadEnd
<1>8. CASE \E h \in Hops : ConnEnd(r, h)
  BY <1>8 DEF ConnEnd
<1> QED
  BY <1>1, <1>2, <1>3, <1>4, <1>5, <1>6, <1>7, <1>8

LEMMA CardinalityMinusOne ==
  ASSUME NEW S, IsFiniteSet(S), NEW x \in S
  PROVE  Cardinality(S \ {x}) = Cardinality(S) - 1
BY FS_RemoveElement

\* Only the middleware and the end of a request move a permit.
LEMMA NextPermitsExact ==
  ASSUME IInv, Next
  PROVE  PermitsExact'
<1> USE LimitsAssumption DEF IInv, TypeOK, PlaceInv, BeforeDial, PermitsExact, Counted,
        MoveTo, ReplyWith
<1>1. IsFiniteSet(permits)
  BY RequestsFinite, FS_Subset
<1>2. Cardinality(permits) \in Nat
  BY <1>1, FS_CardinalityType
<1> PICK r \in Requests :
        \/ Admit(r) \/ Screen(r) \/ CheckAdmission(r) \/ Forward(r)
        \/ Frame(r) \/ BodyEnd(r) \/ Disconnect(r)
        \/ Upload(r) \/ \E h \in Hops : ConnEnd(r, h)
  BY DEF Next
<1>3. CASE Acquire(r)
  <2>1. r \notin permits
    BY <1>3 DEF Acquire
  <2>2. Cardinality(permits \cup {r}) = Cardinality(permits) + 1
    BY <1>1, <2>1, FS_AddElement
  <2>3. Counted' = Counted \cup {r}
    BY <1>3 DEF Acquire
  <2> QED
    BY <1>2, <1>3, <2>2, <2>3 DEF Acquire
<1>4. CASE Bypass(r) \/ Overload(r)
  <2>1. Counted' = Counted
    BY <1>4 DEF Bypass, Overload
  <2> QED
    BY <1>4, <2>1 DEF Bypass, Overload
<1>5. CASE Screen(r) \/ CheckAdmission(r)
  <2>1. Counted' = Counted
    BY <1>5 DEF Screen, ScreenPass, ScreenReply,
                CheckAdmission, RateAllow, RateLimit, BudgetAllow, BudgetExceed
  <2>2. UNCHANGED <<available, permits>>
    BY <1>5 DEF Screen, ScreenPass, ScreenReply,
                CheckAdmission, RateAllow, RateLimit, BudgetAllow, BudgetExceed
  <2> QED
    BY <2>1, <2>2
<1>6. CASE Forward(r)
  <2>1. Counted' = Counted
    BY <1>6 DEF Forward, Connect, ConnectFail, Respond, Redirect, SendFail
  <2>2. UNCHANGED <<available, permits>>
    BY <1>6 DEF Forward, Connect, ConnectFail, Respond, Redirect, SendFail
  <2> QED
    BY <2>1, <2>2
<1>7. CASE BodyEnd(r) \/ Disconnect(r)
  <2>1. Counted' = Counted \ {r}
    BY <1>7 DEF BodyEnd, Disconnect, Drop
  <2>2. permits' = permits \ {r} /\ available' = IF r \in permits THEN available + 1 ELSE available
    BY <1>7 DEF BodyEnd, Disconnect, Drop
  <2>3. CASE r \in permits
    <3>1. Cardinality(permits \ {r}) = Cardinality(permits) - 1
      BY <1>1, <2>3, CardinalityMinusOne
    <3> QED
      BY <1>2, <2>1, <2>2, <2>3, <3>1
  <2>4. CASE r \notin permits
    <3>1. permits \ {r} = permits
      BY <2>4
    <3> QED
      BY <2>1, <2>2, <2>4, <3>1
  <2> QED
    BY <2>3, <2>4
<1>8. CASE Frame(r) \/ Upload(r) \/ \E h \in Hops : ConnEnd(r, h)
  <2>1. UNCHANGED <<kind, pc, answer, available, permits>>
    BY <1>8 DEF Frame, Upload, UploadFrame, UploadEnd, ConnEnd
  <2> QED
    BY <2>1
<1> QED
  BY <1>3, <1>4, <1>5, <1>6, <1>7, <1>8 DEF Admit

\* A refused request has no connection, and gets none.
LEMMA NextRefusedNeverDials ==
  ASSUME IInv, Next
  PROVE  RefusedNeverDials'
<1> USE DEF IInv, TypeOK, PlaceInv, BeforeDial, RefusedNeverDials, MoveTo, ReplyWith
<1> PICK r \in Requests :
        \/ Admit(r) \/ Screen(r) \/ CheckAdmission(r) \/ Forward(r)
        \/ Frame(r) \/ BodyEnd(r) \/ Disconnect(r)
        \/ Upload(r) \/ \E h \in Hops : ConnEnd(r, h)
  BY DEF Next
<1>1. CASE Admit(r)
  BY <1>1 DEF Admit, Bypass, Acquire, Overload
<1>2. CASE Screen(r)
  BY <1>2 DEF Screen, ScreenPass, ScreenReply
<1>3. CASE CheckAdmission(r)
  BY <1>3 DEF CheckAdmission, RateAllow, RateLimit, BudgetAllow, BudgetExceed
<1>4. CASE Forward(r)
  BY <1>4 DEF Forward, Connect, ConnectFail, Respond, Redirect, SendFail
<1>5. CASE BodyEnd(r) \/ Disconnect(r)
  BY <1>5 DEF BodyEnd, Disconnect, Drop
<1>6. CASE Frame(r) \/ Upload(r) \/ \E h \in Hops : ConnEnd(r, h)
  BY <1>6 DEF Frame, Upload, UploadFrame, UploadEnd, ConnEnd
<1> QED
  BY <1>1, <1>2, <1>3, <1>4, <1>5, <1>6

LEMMA SpecIInv == Spec => []IInv
<1>1. IInv /\ UNCHANGED vars => IInv'
  BY DEF vars, IInv, TypeOK, PlaceInv, PermitsExact, Counted, RefusedNeverDials
<1>2. IInv /\ [Next]_vars => IInv'
  BY <1>1, NextTypeOK, NextPlaceInv, NextPermitsExact, NextRefusedNeverDials DEF IInv
<1> QED
  BY InitIInv, <1>2, PTL DEF Spec

-----------------------------------------------------------------------------

\* Every variable keeps its type; in particular the number of free permits
\* stays between 0 and MAX_CONCURRENT_REQUESTS.
THEOREM TypeCorrect == Spec => []TypeOK
BY SpecIInv, PTL DEF IInv

\* No path through middleware, handler and body loses a permit or returns one
\* twice (limit_concurrency, GuardedBody).
THEOREM PermitsNeverLeak == Spec => []PermitsExact
BY SpecIInv, PTL DEF IInv

\* A request refused before forwarding has no upstream connection, ever
\* (the early returns of proxy_handler).
THEOREM RefusalIsFinal == Spec => []RefusedNeverDials
BY SpecIInv, PTL DEF IInv

\* The limit covers whole transfers, whatever their number and interleaving
\* (limit_concurrency: the permit moves into the response body).
THEOREM TransfersStayBounded == Spec => []TransfersBounded
<1>1. IInv => TransfersBounded
  <2> SUFFICES ASSUME IInv PROVE TransfersBounded
    OBVIOUS
  <2> USE DEF IInv, TypeOK
  <2>1. Transfers \subseteq permits
    BY DEF PlaceInv, PermitsExact, Counted, Transfers
  <2>2. IsFiniteSet(permits)
    BY RequestsFinite, FS_Subset
  <2>3. /\ IsFiniteSet(Transfers)
        /\ Cardinality(Transfers) <= Cardinality(permits)
    BY <2>1, <2>2, FS_Subset
  <2>4. Cardinality(permits) \in Nat /\ Cardinality(Transfers) \in Nat
    BY <2>2, <2>3, FS_CardinalityType
  <2> QED
    BY <2>3, <2>4, LimitsAssumption DEF PermitsExact, TransfersBounded
<1> QED
  BY SpecIInv, <1>1, PTL

-----------------------------------------------------------------------------

\* Once the budget is used up nobody joins those who can still send, however
\* the check of one request interleaves with the frames of others
\* (check_admission loads egress_used without a lock).
THEOREM ExhaustedBudgetAdmitsNobody == Spec => BudgetClosesDoor
<1>1. ASSUME IInv, [Next]_vars, egress >= MaxEgress
      PROVE  Senders' \subseteq Senders
  <2> USE <1>1 DEF IInv, TypeOK, Transfers, Senders, MoveTo, ReplyWith
  <2>1. CASE UNCHANGED vars
    BY <2>1 DEF vars
  <2>2. CASE Next
    <3> PICK r \in Requests :
            \/ Admit(r) \/ Screen(r) \/ CheckAdmission(r) \/ Forward(r)
            \/ Frame(r) \/ BodyEnd(r) \/ Disconnect(r)
            \/ Upload(r) \/ \E h \in Hops : ConnEnd(r, h)
      BY <2>2 DEF Next
    <3>1. CASE Admit(r) \/ Screen(r)
      BY <3>1 DEF Admit, Bypass, Acquire, Overload, Screen, ScreenPass, ScreenReply
    <3>2. CASE CheckAdmission(r)
      <4>1. ~ BudgetAllow(r)
        BY LimitsAssumption DEF BudgetAllow
      <4> QED
        BY <3>2, <4>1 DEF CheckAdmission, RateAllow, RateLimit, BudgetExceed
    <3>3. CASE Forward(r)
      BY <3>3 DEF Forward, Connect, ConnectFail, Respond, Redirect, SendFail
    <3>4. CASE BodyEnd(r) \/ Disconnect(r)
      BY <3>4 DEF BodyEnd, Disconnect, Drop
    <3>5. CASE Frame(r) \/ Upload(r) \/ \E h \in Hops : ConnEnd(r, h)
      BY <3>5 DEF Frame, Upload, UploadFrame, UploadEnd, ConnEnd
    <3> QED
      BY <3>1, <3>2, <3>3, <3>4, <3>5
  <2> QED
    BY <1>1, <2>1, <2>2
<1>2. IInv /\ [Next]_vars => [egress >= MaxEgress => Senders' \subseteq Senders]_vars
  BY <1>1
<1> QED
  BY SpecIInv, <1>2, PTL DEF Spec, BudgetClosesDoor

-----------------------------------------------------------------------------
(* Refinement: every step of Relay is a step of Limiter or leaves its      *)
(* variables alone.                                                        *)

LEMMA InitLimiter == Init => Lim!Init
BY DEF Init, Lim!Init

\* The instance has its own copy of Cardinality; it is the same operator.
LEMMA LimCardinality ==
  ASSUME NEW S
  PROVE  Lim!Cardinality(S) = Cardinality(S)
BY DEF Lim!Cardinality, Cardinality

LEMMA MapsToStart ==
  ASSUME NEW r \in Requests, pc[r] = "new", kind[r] # "healthz",
         Cardinality(permits) < MaxConcurrent,
         {x \in Requests : pc'[x] = "new"} = {x \in Requests : pc[x] = "new"} \ {r},
         UNCHANGED <<kind, answer>>, permits' = permits \cup {r}
  PROVE  Lim!Start(r)
<1>1. r \in {x \in Requests : pc[x] = "new"} \ {x \in Requests : kind[x] = "healthz"}
  OBVIOUS
<1>2. UNCHANGED <<{x \in Requests : kind[x] = "healthz"},
                  {x \in Requests : answer[x] = "overloaded"}>>
  OBVIOUS
<1> QED
  BY <1>1, <1>2, LimCardinality DEF Lim!Start

LEMMA MapsToRefuse ==
  ASSUME NEW r \in Requests, pc[r] = "new", kind[r] # "healthz",
         Cardinality(permits) = MaxConcurrent,
         {x \in Requests : pc'[x] = "new"} = {x \in Requests : pc[x] = "new"} \ {r},
         {x \in Requests : answer'[x] = "overloaded"}
             = {x \in Requests : answer[x] = "overloaded"} \cup {r},
         UNCHANGED <<kind, permits>>
  PROVE  Lim!Refuse(r)
<1>1. r \in {x \in Requests : pc[x] = "new"} \ {x \in Requests : kind[x] = "healthz"}
  OBVIOUS
<1>2. UNCHANGED <<{x \in Requests : kind[x] = "healthz"}, permits>>
  OBVIOUS
<1> QED
  BY <1>1, <1>2, LimCardinality DEF Lim!Refuse

LEMMA StepLimiter ==
  ASSUME IInv, Next
  PROVE  Lim!Next \/ UNCHANGED Lim!lvars
<1> USE DEF IInv, TypeOK, PlaceInv, BeforeDial, MoveTo, ReplyWith, Lim!lvars
<1> PICK r \in Requests :
        \/ Admit(r) \/ Screen(r) \/ CheckAdmission(r) \/ Forward(r)
        \/ Frame(r) \/ BodyEnd(r) \/ Disconnect(r)
        \/ Upload(r) \/ \E h \in Hops : ConnEnd(r, h)
  BY DEF Next
<1>1. CASE Acquire(r)
  <2>1. Cardinality(permits) < MaxConcurrent
    <3>1. IsFiniteSet(permits)
      BY RequestsFinite, FS_Subset
    <3>2. Cardinality(permits) \in Nat
      BY <3>1, FS_CardinalityType
    <3> QED
      BY <1>1, <3>2, LimitsAssumption DEF Acquire, PermitsExact
  <2>2. {x \in Requests : pc'[x] = "new"} = {x \in Requests : pc[x] = "new"} \ {r}
    BY <1>1 DEF Acquire
  <2>3. UNCHANGED <<kind, answer>> /\ permits' = permits \cup {r}
    BY <1>1 DEF Acquire
  <2>4. pc[r] = "new" /\ kind[r] # "healthz"
    BY <1>1 DEF Acquire
  <2>5. Lim!Start(r)
    BY <2>1, <2>2, <2>3, <2>4, MapsToStart
  <2> QED
    BY <2>5 DEF Lim!Next
<1>2. CASE Overload(r)
  <2>1. Cardinality(permits) = MaxConcurrent
    <3>1. IsFiniteSet(permits)
      BY RequestsFinite, FS_Subset
    <3>2. Cardinality(permits) \in Nat
      BY <3>1, FS_CardinalityType
    <3> QED
      BY <1>2, <3>2, LimitsAssumption DEF Overload, PermitsExact
  <2>2. {x \in Requests : pc'[x] = "new"} = {x \in Requests : pc[x] = "new"} \ {r}
    BY <1>2 DEF Overload
  <2>3. {x \in Requests : answer'[x] = "overloaded"}
            = {x \in Requests : answer[x] = "overloaded"} \cup {r}
    BY <1>2 DEF Overload
  <2>4. UNCHANGED <<kind, permits>>
    BY <1>2 DEF Overload
  <2>5. pc[r] = "new" /\ kind[r] # "healthz"
    BY <1>2 DEF Overload
  <2>6. Lim!Refuse(r)
    BY <2>1, <2>2, <2>3, <2>4, <2>5, MapsToRefuse
  <2> QED
    BY <2>6 DEF Lim!Next
<1>3. CASE Bypass(r)
  <2>1. Lim!Pass(r)
    BY <1>3 DEF Bypass, Lim!Pass
  <2> QED
    BY <2>1 DEF Lim!Next
<1>4. CASE BodyEnd(r) \/ Disconnect(r)
  <2>1. {x \in Requests : pc'[x] = "new"} = {x \in Requests : pc[x] = "new"}
    BY <1>4 DEF BodyEnd, Disconnect, Drop
  <2>2. UNCHANGED <<kind, answer>> /\ permits' = permits \ {r}
    BY <1>4 DEF BodyEnd, Disconnect, Drop
  <2>3. CASE r \in permits
    <3>1. Lim!Finish(r)
      BY <2>1, <2>2, <2>3 DEF Lim!Finish
    <3> QED
      BY <3>1 DEF Lim!Next
  <2>4. CASE r \notin permits
    <3>1. permits' = permits
      BY <2>2, <2>4
    <3> QED
      BY <2>1, <2>2, <3>1
  <2> QED
    BY <2>3, <2>4
<1>5. CASE Screen(r) \/ CheckAdmission(r)
  BY <1>5 DEF Screen, ScreenPass, ScreenReply,
              CheckAdmission, RateAllow, RateLimit, BudgetAllow, BudgetExceed
<1>6. CASE Forward(r)
  BY <1>6 DEF Forward, Connect, ConnectFail, Respond, Redirect, SendFail
<1>7. CASE Frame(r) \/ Upload(r) \/ \E h \in Hops : ConnEnd(r, h)
  BY <1>7 DEF Frame, Upload, UploadFrame, UploadEnd, ConnEnd
<1> QED
  BY <1>1, <1>2, <1>3, <1>4, <1>5, <1>6, <1>7 DEF Admit

\* The middleware, handler and guarded body together are a Limiter: a slot is
\* given or refused on arrival, refused only when every slot is taken, and the
\* exempt health check never needs one.
THEOREM RelayIsALimiter == Spec => ImplementsLimiter
<1>1. IInv /\ [Next]_vars => [Lim!Next]_(Lim!lvars)
  <2>1. UNCHANGED vars => UNCHANGED Lim!lvars
    BY DEF vars, Lim!lvars
  <2> QED
    BY <2>1, StepLimiter
<1> QED
  BY SpecIInv, InitLimiter, <1>1, PTL DEF Spec, ImplementsLimiter, Lim!Spec
=============================================================================
