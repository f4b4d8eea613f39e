---------------------------- MODULE HeadersProofs ----------------------------
(***************************************************************************)
(* Proofs about Headers for all names the peers may write.  What a message *)
(* is built from is described once, field by field, by the first lemmas.   *)
(***************************************************************************)
EXTENDS Headers, TLAPS

LEMMA InsertFields ==
  ASSUME NEW m \in Messages, NEW n \in Names, NEW v \in Values
  PROVE  /\ Insert(m, n, v) \in Messages
         /\ Insert(m, n, v).nominates = m.nominates
         /\ \A k \in Names : Insert(m, n, v).field[k] = IF k = n THEN {v} ELSE m.field[k]
BY DEF Insert, Messages

LEMMA AppendFields ==
  ASSUME NEW m \in Messages, NEW n \in Names, NEW v \in Values
  PROVE  /\ Append(m, n, v) \in Messages
         /\ Append(m, n, v).nominates = m.nominates
         /\ \A k \in Names : Append(m, n, v).field[k] =
                IF k = n THEN m.field[k] \cup {v} ELSE m.field[k]
BY DEF Append, Messages

LEMMA RemoveFields ==
  ASSUME NEW m \in Messages, NEW N
  PROVE  /\ Remove(m, N) \in Messages
         /\ Remove(m, N).nominates = m.nominates
         /\ Remove(m, N).unreadable = m.unreadable
         /\ \A k \in Names : Remove(m, N).field[k] = IF k \in N THEN {} ELSE m.field[k]
BY DEF Remove, Messages

LEMMA CleanFields ==
  ASSUME NEW m \in Messages, NEW Strip
  PROVE  /\ Clean(m, Strip) \in Messages
         /\ \A k \in Names : Clean(m, Strip).field[k] =
                IF k \in m.nominates \cup HopByHop \cup Strip THEN {} ELSE m.field[k]
<1> DEFINE r == Remove(m, m.nominates \cup HopByHop \cup Strip)
<1>1. r \in Messages /\ \A k \in Names : r.field[k] =
        IF k \in m.nominates \cup HopByHop \cup Strip THEN {} ELSE m.field[k]
  BY RemoveFields
<1>2. Clean(m, Strip) = [r EXCEPT !.nominates = {}, !.unreadable = {}]
  BY DEF Clean
<1> HIDE DEF r
<1>3. Clean(m, Strip) \in Messages /\ Clean(m, Strip).field = r.field
  BY <1>1, <1>2 DEF Messages
<1> QED
  BY <1>1, <1>3

LEMMA NamesUsed ==
  /\ "host" \in Names
  /\ "vary" \in Names
  /\ "content-type" \in Names
  /\ "content-length" \in Names
  /\ "authorization" \in Names
  /\ "x-proxy-request-id" \in Names
  /\ "access-control-allow-origin" \in Names
  /\ "access-control-allow-methods" \in Names
  /\ "access-control-allow-headers" \in Names
  /\ "access-control-expose-headers" \in Names
  /\ "access-control-allow-credentials" \in Names
  /\ "access-control-max-age" \in Names
BY DEF Names, HopByHop, RequestStrip, Prefixed, ResponseStrip, EndToEnd

LEMMA ValuesUsed ==
  /\ Targets \subseteq Values
  /\ "client" \in Values
  /\ "upstream" \in Values
  /\ "proxy" \in Values
  /\ "*" \in Values
  /\ "listed" \in Values
  /\ "preflight" \in Values
  /\ "Origin" \in Values
BY DEF Values

LEMMA BlankFields == Blank \in Messages /\ \A k \in Names : Blank.field[k] = {}
BY DEF Blank, Messages

LEMMA WrittenType ==
  ASSUME NEW Used \in SUBSET Names, NEW by \in Values, NEW m \in Written(Used, by)
  PROVE  m \in Messages
<1>1. PICK W \in SUBSET Used, N \in SUBSET Used, U \in SUBSET Used :
        m = [nominates |-> N, unreadable |-> U,
             field |-> [n \in Names |->
                 IF n \notin W THEN {} ELSE IF n = "content-length" THEN {"length"} ELSE {by}]]
  BY DEF Written, Few
<1>2. "length" \in Values
  BY DEF Values
<1> QED
  BY <1>1, <1>2 DEF Messages

-----------------------------------------------------------------------------
(* Replies                                                                 *)

\* What OneCorsVoice asks of a reply.
Voice(m) ==
  /\ \/ m.field["access-control-allow-origin"] = {"*"}
     \/ /\ m.field["access-control-allow-origin"] = {"listed"}
        /\ cors = "listed"
        /\ "Origin" \in m.field["vary"]
  /\ m.field["access-control-allow-credentials"] = {}
  /\ m.field["access-control-expose-headers"] \subseteq {"proxy"}
  /\ "preflight" \in m.field["vary"]

\* Of the names that no rule takes out, m2 has whatever m1 has.
Keeps(m1, m2) == \A n \in EndToEnd : m1.field[n] \subseteq m2.field[n]

LEMMA EndToEndNames ==
  /\ EndToEnd \subseteq Names
  /\ EndToEnd \cap (HopByHop \cup RequestStrip \cup Prefixed \cup ResponseStrip) = {}
BY DEF Names, HopByHop, RequestStrip, Prefixed, ResponseStrip, EndToEnd

LEMMA AddCorsVoice ==
  ASSUME NEW m \in Messages, m.field["access-control-allow-credentials"] = {}
  PROVE  AddCors(m) \in Messages /\ Voice(AddCors(m)) /\ Keeps(m, AddCors(m))
<1> DEFINE a == Insert(m, "access-control-allow-origin", "*")
           b == Insert(a, "access-control-expose-headers", "proxy")
           c == Append(b, "vary", "preflight")
<1>1. a \in Messages /\ \A k \in Names : a.field[k] =
        IF k = "access-control-allow-origin" THEN {"*"} ELSE m.field[k]
  <2>1. "access-control-allow-origin" \in Names /\ "*" \in Values
    BY NamesUsed, ValuesUsed
  <2> QED
    BY <2>1, InsertFields, ZenonT(60)
<1> HIDE DEF a
<1>2. b \in Messages /\ \A k \in Names : b.field[k] =
        IF k = "access-control-expose-headers" THEN {"proxy"} ELSE a.field[k]
  <2>1. "access-control-expose-headers" \in Names /\ "proxy" \in Values
    BY NamesUsed, ValuesUsed
  <2>2. a \in Messages
    BY <1>1
  <2> QED
    BY <2>1, <2>2, InsertFields
<1> HIDE DEF b
<1>3. c \in Messages /\ \A k \in Names : c.field[k] =
        IF k = "vary" THEN b.field[k] \cup {"preflight"} ELSE b.field[k]
  <2>1. "vary" \in Names /\ "preflight" \in Values
    BY NamesUsed, ValuesUsed
  <2>2. b \in Messages
    BY <1>2
  <2> QED
    BY <2>1, <2>2, AppendFields, ZenonT(60)
<1>4. c = AddCors(m)
  BY DEF AddCors, a, b
<1> HIDE DEF c
<1>5. Voice(c)
  BY <1>1, <1>2, <1>3, NamesUsed DEF Voice
<1>6. Keeps(m, c)
  <2> SUFFICES ASSUME NEW n \in EndToEnd PROVE m.field[n] \subseteq c.field[n]
    BY DEF Keeps
  <2>1. /\ n \in Names
        /\ n # "access-control-allow-origin" /\ n # "access-control-expose-headers"
    BY EndToEndNames DEF EndToEnd
  <2>2. a.field[n] = m.field[n]
    BY <1>1, <2>1
  <2>3. b.field[n] = a.field[n]
    BY <1>2, <2>1
  <2>4. b.field[n] \subseteq c.field[n]
    BY <1>3, <2>1
  <2> QED
    BY <2>2, <2>3, <2>4
<1> QED
  BY <1>3, <1>4, <1>5, <1>6

LEMMA ApplyOriginVoice ==
  ASSUME NEW m \in Messages, Voice(m)
  PROVE  ApplyOrigin(m) \in Messages /\ Voice(ApplyOrigin(m)) /\ Keeps(m, ApplyOrigin(m))
<1>1. CASE cors # "listed"
  BY <1>1 DEF ApplyOrigin, Keeps
<1>2. CASE cors = "listed"
  <2> DEFINE a == Insert(m, "access-control-allow-origin", "listed")
             b == Append(a, "vary", "Origin")
    <2>1. a \in Messages /\ \A k \in Names : a.field[k] =
          IF k = "access-control-allow-origin" THEN {"listed"} ELSE m.field[k]
      <3>1. "access-control-allow-origin" \in Names /\ "listed" \in Values
        BY NamesUsed, ValuesUsed
      <3> QED
        BY <3>1, InsertFields, ZenonT(60)
  <2> HIDE DEF a
  <2>2. b \in Messages /\ \A k \in Names : b.field[k] =
          IF k = "vary" THEN a.field[k] \cup {"Origin"} ELSE a.field[k]
    <3>1. "vary" \in Names /\ "Origin" \in Values
      BY NamesUsed, ValuesUsed
    <3>2. a \in Messages
      BY <2>1
    <3> QED
      BY <3>1, <3>2, AppendFields, ZenonT(60)
  <2>3. b = ApplyOrigin(m)
    BY <1>2 DEF ApplyOrigin, a
  <2> HIDE DEF b
  <2>4. Voice(b)
    BY <1>2, <2>1, <2>2, NamesUsed DEF Voice
  <2>5. Keeps(m, b)
    BY <2>1, <2>2, EndToEndNames DEF Keeps, EndToEnd
  <2> QED
    BY <2>2, <2>3, <2>4, <2>5
<1> QED
  BY <1>1, <1>2

LEMMA LocalVoice ==
  /\ AddCors(Insert(Blank, "content-type", "proxy")) \in Messages
  /\ Voice(AddCors(Insert(Blank, "content-type", "proxy")))
  /\ ErrorReply \in Messages /\ Voice(ErrorReply)
<1> DEFINE a == Insert(Blank, "content-type", "proxy")
           b == Insert(a, "x-proxy-request-id", "proxy")
<1>1. a \in Messages /\ \A k \in Names : a.field[k] =
        IF k = "content-type" THEN {"proxy"} ELSE Blank.field[k]
  <2>1. "content-type" \in Names /\ "proxy" \in Values
    BY NamesUsed, ValuesUsed
  <2>2. Blank \in Messages
    BY BlankFields
  <2> QED
    BY <2>1, <2>2, InsertFields, ZenonT(60)
<1>2. AddCors(a) \in Messages /\ Voice(AddCors(a))
  BY <1>1, BlankFields, NamesUsed, AddCorsVoice
<1>4. ErrorReply = AddCors(b)
  BY DEF ErrorReply
<1> HIDE DEF a
<1>3. b \in Messages /\ \A k \in Names : b.field[k] =
        IF k = "x-proxy-request-id" THEN {"proxy"} ELSE a.field[k]
  <2>1. "x-proxy-request-id" \in Names /\ "proxy" \in Values
    BY NamesUsed, ValuesUsed
  <2>2. a \in Messages
    BY <1>1
  <2> QED
    BY <2>1, <2>2, InsertFields
<1> HIDE DEF b
<1>5. AddCors(b) \in Messages /\ Voice(AddCors(b))
  BY <1>1, <1>3, BlankFields, NamesUsed, AddCorsVoice
<1> QED
  BY <1>2, <1>4, <1>5 DEF a

LEMMA PreflightVoice == PreflightReply \in Messages /\ Voice(PreflightReply)
<1> DEFINE a == Insert(Blank, "access-control-allow-origin", "*")
           b == Insert(a, "access-control-allow-methods", "proxy")
           c == Insert(b, "access-control-allow-headers", "proxy")
           d == Insert(c, "access-control-max-age", "proxy")
           e == Insert(d, "vary", "preflight")
<1>6. e = PreflightReply
  BY DEF PreflightReply
<1>1. a \in Messages /\ \A k \in Names : a.field[k] =
        IF k = "access-control-allow-origin" THEN {"*"} ELSE Blank.field[k]
  <2>1. "access-control-allow-origin" \in Names /\ "*" \in Values
    BY NamesUsed, ValuesUsed
  <2>2. Blank \in Messages
    BY BlankFields
  <2> QED
    BY <2>1, <2>2, InsertFields, ZenonT(60)
<1> HIDE DEF a
<1>2. b \in Messages /\ \A k \in Names : b.field[k] =
        IF k = "access-control-allow-methods" THEN {"proxy"} ELSE a.field[k]
  <2>1. "access-control-allow-methods" \in Names /\ "proxy" \in Values
    BY NamesUsed, ValuesUsed
  <2>2. a \in Messages
    BY <1>1
  <2> QED
    BY <2>1, <2>2, InsertFields, ZenonT(60)
<1> HIDE DEF b
<1>3. c \in Messages /\ \A k \in Names : c.field[k] =
        IF k = "access-control-allow-headers" THEN {"proxy"} ELSE b.field[k]
  <2>1. "access-control-allow-headers" \in Names /\ "proxy" \in Values
    BY NamesUsed, ValuesUsed
  <2>2. b \in Messages
    BY <1>2
  <2> QED
    BY <2>1, <2>2, InsertFields
<1> HIDE DEF c
<1>4. d \in Messages /\ \A k \in Names : d.field[k] =
        IF k = "access-control-max-age" THEN {"proxy"} ELSE c.field[k]
  <2>1. "access-control-max-age" \in Names /\ "proxy" \in Values
    BY NamesUsed, ValuesUsed
  <2>2. c \in Messages
    BY <1>3
  <2> QED
    BY <2>1, <2>2, InsertFields, ZenonT(60)
<1> HIDE DEF d
<1>5. e \in Messages /\ \A k \in Names : e.field[k] =
        IF k = "vary" THEN {"preflight"} ELSE d.field[k]
  <2>1. "vary" \in Names /\ "preflight" \in Values
    BY NamesUsed, ValuesUsed
  <2>2. d \in Messages
    BY <1>4
  <2> QED
    BY <2>1, <2>2, InsertFields, ZenonT(60)
<1> HIDE DEF e
<1>7. Voice(e)
  BY <1>1, <1>2, <1>3, <1>4, <1>5, NamesUsed, BlankFields DEF Voice
<1> QED
  BY <1>5, <1>6, <1>7

-----------------------------------------------------------------------------
(* The invariant                                                           *)

NotAnsweredYet == pc # "done" => received = Blank

IInv == TypeOK /\ NotAnsweredYet /\ PrivateStaysBehind /\ RestGoesThrough /\ OneCorsVoice

LEMMA InitIInv == Init => IInv
<1> SUFFICES ASSUME Init PROVE IInv
  OBVIOUS
<1>1. headers \in Messages
  <2>1. CASE pc = "send"
    <3>1. headers \in Written(ClientNames, "client")
      BY <2>1 DEF Init
    <3>2. ClientNames \in SUBSET Names /\ "client" \in Values
      BY BoundsAssumption, ValuesUsed
    <3> QED
      BY <3>1, <3>2, WrittenType
  <2>2. CASE pc # "send"
    BY <2>2, BlankFields DEF Init
  <2> QED
    BY <2>1, <2>2
<1>2. request \in Messages /\ received \in Messages /\ reply \in Messages
  BY BlankFields DEF Init
<1>3. hop \in 0..MaxHops
  BY BoundsAssumption DEF Init
<1>4. chunked \in BOOLEAN
  BY DEF Init
<1>5. TypeOK
  BY <1>1, <1>2, <1>3, <1>4 DEF Init, TypeOK, Targets
<1>6. PrivateStaysBehind
  BY BlankFields DEF Init, PrivateStaysBehind
<1>7. OneCorsVoice
  BY DEF Init, OneCorsVoice
<1>8. NotAnsweredYet /\ RestGoesThrough
  BY DEF Init, NotAnsweredYet, RestGoesThrough
<1> QED
  BY <1>5, <1>6, <1>7, <1>8 DEF IInv

\* Whatever way a reply is built, if it speaks with the proxy's voice and keeps
\* what it answers with, the invariant holds in the end.
LEMMA ReplyIInv ==
  ASSUME IInv, NEW m \in Messages, Voice(m), Reply(m), received' \in Messages,
         \A n \in EndToEnd \ Nominated(received') : received'.field[n] \subseteq m.field[n]
  PROVE  IInv'
<1>1. /\ pc' = "done" /\ reply' = m
      /\ UNCHANGED <<headers, chunked, cors, target, hop, request, body>>
  BY DEF Reply
<1>2. TypeOK'
  BY <1>1 DEF IInv, TypeOK
<1>3. PrivateStaysBehind'
  BY <1>1 DEF IInv, PrivateStaysBehind
<1>4. OneCorsVoice'
  BY <1>1 DEF OneCorsVoice, Voice
<1>5. NotAnsweredYet' /\ RestGoesThrough'
  BY <1>1 DEF NotAnsweredYet, RestGoesThrough
<1> QED
  BY <1>2, <1>3, <1>4, <1>5 DEF IInv

\* A reply of the proxy's own answers nothing an upstream sent.
LEMMA OwnReplyIInv ==
  ASSUME IInv, pc # "done", NEW m \in Messages, Voice(m), Reply(m), UNCHANGED received
  PROVE  IInv'
<1>1. received' = Blank /\ received' \in Messages
  BY BlankFields DEF IInv, NotAnsweredYet
<1>2. \A n \in EndToEnd : received'.field[n] = {}
  BY <1>1, BlankFields, EndToEndNames
<1> QED
  BY <1>1, <1>2, ReplyIInv

LEMMA SendIInv ==
  ASSUME IInv, Send
  PROVE  IInv'
<1> DEFINE c == CleanRequest(headers)
           r == Insert(c, "host", target)
<1>1. /\ pc = "send" /\ pc' = "await" /\ request' = r
      /\ UNCHANGED <<headers, chunked, cors, target, hop, received, reply>>
      /\ body' \in {"whole", "empty"}
  BY DEF Send
<1>2. headers \in Messages /\ target \in Targets
  BY DEF IInv, TypeOK
<1>3. c \in Messages /\ \A k \in Names : c.field[k] =
        IF k \in headers.nominates \cup HopByHop \cup (RequestStrip \cup Prefixed)
        THEN {} ELSE headers.field[k]
  BY <1>2, CleanFields DEF CleanRequest
<1> HIDE DEF c
<1>4. r \in Messages /\ \A k \in Names : r.field[k] =
        IF k = "host" THEN {target} ELSE c.field[k]
  <2>1. "host" \in Names /\ target \in Values
    BY <1>2, NamesUsed, ValuesUsed
  <2>2. c \in Messages
    BY <1>3
  <2> QED
    BY <2>1, <2>2, InsertFields
<1> HIDE DEF r
<1>5. TypeOK'
  BY <1>1, <1>4 DEF IInv, TypeOK
<1>6. PrivateStaysBehind'
  <2>1. r.field["host"] = {target}
    BY <1>4, NamesUsed
  <2>2. ASSUME NEW n \in Names \ {"host"}, r.field[n] # {}
        PROVE  n \notin HopByHop \cup RequestStrip \cup Prefixed \cup headers.nominates
    BY <2>2, <1>3, <1>4
  <2> QED
    BY <1>1, <2>1, <2>2 DEF PrivateStaysBehind
<1>7. OneCorsVoice'
  BY <1>1 DEF OneCorsVoice
<1>8. RestGoesThrough'
  <2>1. \A n \in EndToEnd \ Nominated(headers) : r.field[n] = headers.field[n]
    BY <1>3, <1>4, EndToEndNames DEF RequestStrip, Nominated
  <2> QED
    BY <1>1, <2>1 DEF RestGoesThrough
<1>9. NotAnsweredYet'
  BY <1>1 DEF IInv, NotAnsweredYet
<1> QED
  BY <1>5, <1>6, <1>7, <1>8, <1>9 DEF IInv

LEMMA FollowIInv ==
  ASSUME IInv, NEW t \in Targets, Follow(t)
  PROVE  IInv'
<1> DEFINE h == Remove(headers, {"authorization"})
<1>1. /\ pc = "await" /\ pc' = "send" /\ target' = t
      /\ headers' = h \/ headers' = headers
      /\ hop < MaxHops /\ hop' = hop + 1
      /\ UNCHANGED <<chunked, cors, request, body, received, reply>>
  BY DEF Follow
<1>2. headers \in Messages /\ hop \in 0..MaxHops
  BY DEF IInv, TypeOK
<1>3. h \in Messages /\ h.nominates = headers.nominates
  BY <1>2, RemoveFields
<1> HIDE DEF h
<1>4. hop' \in 0..MaxHops
  BY <1>1, <1>2, BoundsAssumption
<1>5. TypeOK'
  BY <1>1, <1>2, <1>3, <1>4 DEF IInv, TypeOK
<1>6. PrivateStaysBehind'
  BY <1>1, <1>3 DEF IInv, PrivateStaysBehind
<1>7. OneCorsVoice'
  BY <1>1 DEF OneCorsVoice
<1>8. NotAnsweredYet' /\ RestGoesThrough'
  BY <1>1 DEF IInv, NotAnsweredYet, RestGoesThrough
<1> QED
  BY <1>5, <1>6, <1>7, <1>8 DEF IInv

LEMMA RelayIInv ==
  ASSUME IInv, Relay
  PROVE  IInv'
<1> DEFINE c == CleanResponse(received')
<1>1. received' \in Messages
  <2>1. received' \in Written(UpstreamNames, "upstream")
    BY DEF Relay
  <2>2. UpstreamNames \in SUBSET Names /\ "upstream" \in Values
    BY BoundsAssumption, ValuesUsed
  <2> QED
    BY <2>1, <2>2, WrittenType
<1>2. c \in Messages /\ \A k \in Names : c.field[k] =
        IF k \in received'.nominates \cup HopByHop \cup ResponseStrip
        THEN {} ELSE received'.field[k]
  BY <1>1, CleanFields DEF CleanResponse
<1>3. c.field["access-control-allow-credentials"] = {}
  BY <1>2, NamesUsed DEF ResponseStrip
<1>4. Reply(ApplyOrigin(AddCors(c)))
  BY DEF Relay
<1> HIDE DEF c
<1>5. AddCors(c) \in Messages /\ Voice(AddCors(c)) /\ Keeps(c, AddCors(c))
  BY <1>2, <1>3, AddCorsVoice
<1>6. /\ ApplyOrigin(AddCors(c)) \in Messages /\ Voice(ApplyOrigin(AddCors(c)))
      /\ Keeps(AddCors(c), ApplyOrigin(AddCors(c)))
  BY <1>5, ApplyOriginVoice
<1>7. \A n \in EndToEnd \ Nominated(received') : c.field[n] = received'.field[n]
  BY <1>2, EndToEndNames DEF Nominated
<1>8. \A n \in EndToEnd \ Nominated(received') :
         received'.field[n] \subseteq ApplyOrigin(AddCors(c)).field[n]
  BY <1>5, <1>6, <1>7 DEF Keeps
<1> QED
  BY <1>1, <1>4, <1>6, <1>8, ReplyIInv

LEMMA NextIInv == IInv /\ [Next]_vars => IInv'
<1> SUFFICES ASSUME IInv, [Next]_vars PROVE IInv'
  OBVIOUS
<1>1. CASE AnswerLocally
  BY <1>1, LocalVoice, OwnReplyIInv DEF AnswerLocally
<1>2. CASE AnswerPreflight
  <2>1. /\ ApplyOrigin(PreflightReply) \in Messages /\ Voice(ApplyOrigin(PreflightReply))
        /\ ApplyOrigin(ErrorReply) \in Messages /\ Voice(ApplyOrigin(ErrorReply))
    BY LocalVoice, PreflightVoice, ApplyOriginVoice
  <2> QED
    BY <1>2, <2>1, OwnReplyIInv DEF AnswerPreflight
<1>3. CASE Fail
  BY <1>3, LocalVoice, OwnReplyIInv DEF Fail
<1>4. CASE UNCHANGED vars
  BY <1>4 DEF IInv, TypeOK, NotAnsweredYet, PrivateStaysBehind, RestGoesThrough,
              OneCorsVoice, vars
<1> QED
  BY <1>1, <1>2, <1>3, <1>4, SendIInv, RelayIInv, FollowIInv DEF Next

LEMMA SpecIInv == Spec => []IInv
BY InitIInv, NextIInv, PTL DEF Spec

-----------------------------------------------------------------------------

\* Requests and replies are sets of writers per name on every path.
THEOREM HeadersTypes == Spec => []TypeOK
<1>1. IInv => TypeOK
  BY DEF IInv
<1> QED
  BY <1>1, SpecIInv, PTL

\* Nothing meant for the proxy, and nothing the client nominated in a value of
\* Connection that can be read, reaches an upstream, whatever names the client
\* writes, whatever unreadable values stand beside them, and on every hop.
THEOREM PrivateHeadersStay == Spec => []PrivateStaysBehind
<1>1. IInv => PrivateStaysBehind
  BY DEF IInv
<1> QED
  BY <1>1, SpecIInv, PTL

\* What no rule takes out is carried to the upstream on every hop, and back to
\* the client, for all names either side may write.
THEOREM RestIsCarried == Spec => []RestGoesThrough
<1>1. IInv => RestGoesThrough
  BY DEF IInv
<1> QED
  BY <1>1, SpecIInv, PTL

\* Every reply has the proxy's CORS headers and nobody else's.
THEOREM RepliesHaveOneVoice == Spec => []OneCorsVoice
<1>1. IInv => OneCorsVoice
  BY DEF IInv
<1> QED
  BY <1>1, SpecIInv, PTL
=============================================================================
