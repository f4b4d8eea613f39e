-------------------------- MODULE ScreeningProofs --------------------------
(***************************************************************************)
(* Proofs about Screening for all environments and requests.  The first    *)
(* part is about texts: what parse_target makes of a URL, however it is    *)
(* spelled, and when an entry of the allowlist matches what it made.       *)
(***************************************************************************)
EXTENDS Screening, SequenceTheorems, TLAPS

-----------------------------------------------------------------------------
(* Texts                                                                   *)

LEMMA FirstIs ==
  ASSUME NEW text \in Seq(Tokens), NEW token, NEW k \in 1..Len(text) + 1,
         k = Len(text) + 1 \/ text[k] = token,
         \A j \in 1..k - 1 : text[j] # token
  PROVE  First(text, token) = k
<1> DEFINE IsFirst(i) == /\ i = Len(text) + 1 \/ text[i] = token
                         /\ \A j \in 1..i - 1 : text[j] # token
<1>1. Len(text) \in Nat
  BY LenProperties
<1>2. IsFirst(k)
  OBVIOUS
<1>3. ASSUME NEW i \in 1..Len(text) + 1, IsFirst(i) PROVE i = k
  <2>1. ~(i < k)
    BY <1>1, <1>3
  <2>2. ~(k < i)
    BY <1>1, <1>3
  <2> QED
    BY <1>1, <2>1, <2>2
<1>4. First(text, token) = CHOOSE i \in 1..Len(text) + 1 : IsFirst(i)
  BY DEF First
<1> HIDE DEF IsFirst
<1> QED
  BY <1>2, <1>3, <1>4

LEMMA TrimDotsIs ==
  ASSUME NEW host \in Seq(Tokens), NEW n \in 0..Len(host),
         n > 0 => host[n] # ".",
         \A k \in n + 1..Len(host) : host[k] = "."
  PROVE  TrimDots(host) = SubSeq(host, 1, n)
<1> DEFINE IsLast(i) == /\ i > 0 => host[i] # "."
                        /\ \A k \in i + 1..Len(host) : host[k] = "."
<1>1. Len(host) \in Nat
  BY LenProperties
<1>2. IsLast(n)
  OBVIOUS
<1>3. ASSUME NEW i \in 0..Len(host), IsLast(i) PROVE i = n
  <2>1. ~(i < n)
    BY <1>1, <1>3
  <2>2. ~(n < i)
    BY <1>1, <1>3
  <2> QED
    BY <1>1, <2>1, <2>2
<1>4. TrimDots(host) = SubSeq(host, 1, CHOOSE i \in 0..Len(host) : IsLast(i))
  BY DEF TrimDots
<1>5. (CHOOSE i \in 0..Len(host) : IsLast(i)) = n
  <2> HIDE DEF IsLast
  <2> QED
    BY <1>2, <1>3
<1> QED
  BY <1>4, <1>5

\* The labels are at the odd places, the dots at the even ones.
LEMMA DottedIs ==
  ASSUME NEW labels \in Seq(Tokens)
  PROVE  /\ Dotted(labels) \in Seq(Tokens)
         /\ Len(Dotted(labels)) = IF labels = <<>> THEN 0 ELSE 2 * Len(labels) - 1
         /\ \A k \in 1..Len(labels) : Dotted(labels)[2 * k - 1] = labels[k]
         /\ \A k \in 1..Len(labels) - 1 : Dotted(labels)[2 * k] = "."
         /\ \A i \in 1..2 * Len(labels) - 1 :
                Dotted(labels)[i] = "." \/ \E k \in 1..Len(labels) : Dotted(labels)[i] = labels[k]
<1> DEFINE d == Dotted(labels)
           n == 2 * Len(labels) - 1
<1>1. Len(labels) \in Nat /\ (labels = <<>> <=> Len(labels) = 0)
  BY LenProperties, EmptySeq
<1>2. \A i \in 1..n : d[i] = IF i % 2 = 1 THEN labels[(i + 1) \div 2] ELSE "."
  BY DEF Dotted
<1>3. \A k \in 1..Len(labels) : d[2 * k - 1] = labels[k]
  <2> TAKE k \in 1..Len(labels)
  <2>1. 2 * k - 1 \in 1..n /\ (2 * k - 1) % 2 = 1 /\ (2 * k - 1 + 1) \div 2 = k
    BY <1>1
  <2> QED
    BY <1>2, <2>1
<1>4. \A k \in 1..Len(labels) - 1 : d[2 * k] = "."
  <2> TAKE k \in 1..Len(labels) - 1
  <2>1. 2 * k \in 1..n /\ (2 * k) % 2 # 1
    BY <1>1
  <2> QED
    BY <1>2, <2>1
<1>5. \A i \in 1..n : d[i] = "." \/ \E k \in 1..Len(labels) : d[i] = labels[k]
  <2> TAKE i \in 1..n
  <2>1. CASE i % 2 = 1
    <3>1. (i + 1) \div 2 \in 1..Len(labels)
      BY <1>1, <2>1
    <3> QED
      BY <1>2, <2>1, <3>1
  <2>2. CASE i % 2 # 1
    BY <1>2, <2>2
  <2> QED
    BY <2>1, <2>2
<1>6. d \in Seq(Tokens) /\ Len(d) = IF labels = <<>> THEN 0 ELSE n
  <2>1. \A i \in 1..n : d[i] \in Tokens
    <3>1. \A k \in 1..Len(labels) : labels[k] \in Tokens
      BY ElementOfSeq
    <3>2. "." \in Tokens
      BY DEF Tokens, Punctuation
    <3> HIDE DEF d
    <3> QED
      BY <1>5, <3>1, <3>2
  <2>2. CASE labels = <<>>
    <3>1. d = <<>>
      BY <1>1, <2>2 DEF Dotted
    <3> QED
      BY <2>2, <3>1, EmptySeq
  <2>3. CASE labels # <<>>
    <3>1. n \in Nat
      BY <1>1, <2>3
    <3>2. d \in [1..n -> Tokens]
      BY <2>1 DEF Dotted
    <3> QED
      BY <2>3, <3>1, <3>2, SeqDef
  <2> QED
    BY <2>2, <2>3
<1> QED
  BY <1>3, <1>4, <1>5, <1>6

-----------------------------------------------------------------------------
(* Hosts that end in a number                                              *)

LEMMA LabelsAre ==
  /\ Labels \subseteq Tokens
  /\ \A s \in Labels : s \notin Punctuation /\ s # "." /\ s # ":" /\ s # "[" /\ s # "]"
BY Zenon DEF Labels, Punctuation

LEMMA NumeralIs ==
  ASSUME NEW n \in DOMAIN Numeral
  PROVE  /\ Numeral[n] \in DOMAIN Decimal /\ Decimal[Numeral[n]] = n
         /\ Numeral[n] \in Labels
<1> DEFINE Says(m) == Numeral[m] = Numeral[n]
<1>1. Numeral[n] \in DOMAIN Decimal
  BY DEF Decimal
<1>2. Decimal[Numeral[n]] = CHOOSE m \in DOMAIN Numeral : Says(m)
  BY <1>1 DEF Decimal
<1>3. \A m \in DOMAIN Numeral : Says(m) <=> m = n
  BY NumeralAssumption
<1> HIDE DEF Says
<1>4. (CHOOSE m \in DOMAIN Numeral : Says(m)) = n
  BY <1>3
<1>5. Numeral[n] \in Labels
  BY NumeralAssumption
<1> QED
  BY <1>1, <1>2, <1>4, <1>5

LEMMA DecimalIs ==
  ASSUME NEW s \in DOMAIN Decimal
  PROVE  /\ Decimal[s] \in DOMAIN Numeral /\ Decimal[s] \in Nat
         /\ Numeral[Decimal[s]] = s
         /\ s \in Labels
<1>1. PICK n \in DOMAIN Numeral : Numeral[n] = s
  BY DEF Decimal
<1>2. Decimal[s] = n
  BY <1>1, NumeralIs
<1> QED
  BY <1>1, <1>2, NumeralIs, NumeralAssumption

LEMMA NumbersAreLabels ==
  /\ \A s \in Punctuation : s \notin Numbers
  /\ \A s \in Numbers : Value(s) # Invalid => Value(s) \in Nat
<1>1. ASSUME NEW s \in Punctuation PROVE s \notin Numbers
  <2>1. s \notin DOMAIN Decimal
    BY DecimalIs, LabelsAre
  <2>2. s \notin DOMAIN Notation
    BY NotationAssumption, LabelsAre
  <2> QED
    BY <2>1, <2>2 DEF Numbers
<1>2. ASSUME NEW s \in Numbers, Value(s) # Invalid PROVE Value(s) \in Nat
  <2>1. CASE s \in DOMAIN Decimal
    BY <2>1, DecimalIs DEF Value
  <2>2. CASE s \notin DOMAIN Decimal
    BY <1>2, <2>2, NotationAssumption DEF Value, Numbers
  <2> QED
    BY <2>1, <2>2
<1> QED
  BY <1>1, <1>2

LEMMA AddressEndsInNumber ==
  ASSUME NEW host \in Seq(Tokens), IsAddress(host)
  PROVE  host # <<>> /\ Undotted(host) = host /\ EndsInNumber(host)
<1>1. Len(host) \in {1, 3, 5, 7} /\ host[Len(host)] \in Numbers
  <2>1. /\ Len(host) \in {1, 3, 5, 7}
        /\ \A k \in {1, 3, 5, 7} : k <= Len(host) => host[k] \in Numbers
    BY DEF IsAddress
  <2>2. Len(host) <= Len(host)
    BY <2>1
  <2> QED
    BY <2>1, <2>2
<1>2. host # <<>>
  BY <1>1, EmptySeq
<1>3. host[Len(host)] # "."
  BY <1>1, NumbersAreLabels DEF Punctuation
<1> QED
  BY <1>1, <1>2, <1>3 DEF Undotted, EndsInNumber

\* The octets of an address have numerals, whatever it was written with.
LEMMA OctetsAre ==
  ASSUME NEW host, IsAddress(host)
  PROVE  /\ Octets(host) \in Seq(Tokens) /\ Len(Octets(host)) = 4
         /\ \A i \in 1..4 : /\ Octets(host)[i] \in DOMAIN Decimal
                            /\ Decimal[Octets(host)[i]] <= MaxOctet
<1>1. /\ Len(host) \in {1, 3, 5, 7}
      /\ \A k \in {1, 3, 5, 7} : k <= Len(host) =>
            /\ Value(host[k]) \in Nat
            /\ k < Len(host) => Value(host[k]) <= MaxOctet
  BY NumbersAreLabels DEF IsAddress
<1>2. \A i \in 1..4 : Octet(host, i) \in 0..MaxOctet
  <2> TAKE i \in 1..4
  <2>1. CASE 2 * i - 1 < Len(host)
    <3>1. 2 * i - 1 \in {1, 3, 5, 7}
      OBVIOUS
    <3> DEFINE k == 2 * i - 1
    <3> HIDE DEF k
    <3>2. Value(host[k]) \in Nat /\ Value(host[k]) <= MaxOctet
      <4>1. k \in {1, 3, 5, 7} /\ k < Len(host) /\ k <= Len(host)
        BY <1>1, <2>1, <3>1 DEF k
      <4> QED
        BY <1>1, <4>1
    <3>3. Octet(host, i) = Value(host[k])
      BY <2>1 DEF Octet, k
    <3> QED
      BY <3>2, <3>3 DEF MaxOctet
  <2>2. CASE ~(2 * i - 1 < Len(host))
    <3> DEFINE v == Value(host[Len(host)])
    <3>1. v \in Nat
      <4>1. Len(host) <= Len(host)
        BY <1>1
      <4> QED
        BY <1>1, <4>1
    <3>2. Weight[i] \in Nat /\ Weight[i] > 0
      BY DEF Weight
    <3>3. Octet(host, i) = (v \div Weight[i]) % 256
      BY <2>2 DEF Octet
    <3> HIDE DEF v
    <3> DEFINE q == v \div Weight[i]
    <3>4. q \in Int
      BY <3>1, <3>2
    <3> HIDE DEF q
    <3>5. q % 256 \in Int /\ 0 <= q % 256 /\ q % 256 <= 255
      BY <3>4
    <3> QED
      BY <3>3, <3>5 DEF MaxOctet, q
  <2> QED
    BY <2>1, <2>2
<1>3. \A i \in 1..4 : Octet(host, i) \in DOMAIN Numeral
  BY <1>2, NumeralAssumption
<1>4. \A i \in 1..4 : Octets(host)[i] = Numeral[Octet(host, i)]
  BY DEF Octets
<1>5. \A i \in 1..4 : /\ Octets(host)[i] \in Tokens
                      /\ Octets(host)[i] \in DOMAIN Decimal
                      /\ Decimal[Octets(host)[i]] = Octet(host, i)
  BY <1>3, <1>4, NumeralIs, LabelsAre
<1>6. Octets(host) \in Seq(Tokens) /\ Len(Octets(host)) = 4
  <2>1. Octets(host) \in [1..4 -> Tokens]
    BY <1>5 DEF Octets
  <2>2. 4 \in Nat
    OBVIOUS
  <2>3. Octets(host) \in Seq(Tokens)
    BY <2>1, <2>2, SeqDef
  <2> QED
    BY <2>1, <2>2, <2>3, LenProperties
<1>7. \A i \in 1..4 : Octet(host, i) <= MaxOctet
  BY <1>2 DEF MaxOctet
<1> QED
  BY <1>5, <1>6, <1>7

\* Four octets in decimal are the text of an address.
LEMMA FourOctets ==
  ASSUME NEW labels \in Seq(Tokens)
  PROVE  IsIpv4(Dotted(labels)) <=>
            /\ Len(labels) = 4
            /\ \A i \in 1..4 : labels[i] \in DOMAIN Decimal /\ Decimal[labels[i]] <= MaxOctet
<1> DEFINE d == Dotted(labels)
           n == Len(labels)
<1>1. n \in Nat /\ (labels = <<>> <=> n = 0)
  BY LenProperties, EmptySeq
<1>2. /\ Len(d) = IF labels = <<>> THEN 0 ELSE 2 * n - 1
      /\ \A k \in 1..n : d[2 * k - 1] = labels[k]
      /\ \A k \in 1..n - 1 : d[2 * k] = "."
  BY DottedIs
<1> HIDE DEF d, n
<1>3. Len(d) = 7 <=> n = 4
  BY <1>1, <1>2
<1>4. n = 4 => /\ d[1] = labels[1] /\ d[3] = labels[2] /\ d[5] = labels[3] /\ d[7] = labels[4]
               /\ d[2] = "." /\ d[4] = "." /\ d[6] = "."
  <2> SUFFICES ASSUME n = 4
               PROVE  /\ d[1] = labels[1] /\ d[3] = labels[2]
                      /\ d[5] = labels[3] /\ d[7] = labels[4]
                      /\ d[2] = "." /\ d[4] = "." /\ d[6] = "."
    OBVIOUS
  <2>1. /\ d[2 * 1 - 1] = labels[1] /\ d[2 * 2 - 1] = labels[2]
        /\ d[2 * 3 - 1] = labels[3] /\ d[2 * 4 - 1] = labels[4]
    BY <1>2
  <2>2. d[2 * 1] = "." /\ d[2 * 2] = "." /\ d[2 * 3] = "."
    BY <1>2
  <2> QED
    BY <2>1, <2>2
<1>5. (\A i \in 1..4 : labels[i] \in DOMAIN Decimal /\ Decimal[labels[i]] <= MaxOctet)
      <=> \A i \in {1, 2, 3, 4} : labels[i] \in DOMAIN Decimal /\ Decimal[labels[i]] <= MaxOctet
  <2>1. 1..4 = {1, 2, 3, 4}
    OBVIOUS
  <2> QED
    BY <2>1
<1> QED
  BY <1>3, <1>4, <1>5 DEF IsIpv4, d, n

\* Written in decimal, an address is its own octets.
LEMMA OctetsOfIpv4 ==
  ASSUME NEW labels \in Seq(Tokens), IsIpv4(Dotted(labels))
  PROVE  IsAddress(Dotted(labels)) /\ Octets(Dotted(labels)) = labels
<1> DEFINE d == Dotted(labels)
<1>1. /\ Len(labels) = 4
      /\ \A i \in 1..4 : labels[i] \in DOMAIN Decimal /\ Decimal[labels[i]] <= MaxOctet
  BY FourOctets
<1>2. \A k \in 1..4 : d[2 * k - 1] = labels[k]
  BY <1>1, DottedIs
<1>3. Len(d) = 7 /\ d[2] = "." /\ d[4] = "." /\ d[6] = "."
  BY DEF IsIpv4
<1>4. \A i \in 1..4 : /\ labels[i] \in Numbers
                      /\ Value(labels[i]) = Decimal[labels[i]]
                      /\ Value(labels[i]) \in Nat
                      /\ Value(labels[i]) # Invalid
  BY <1>1, DecimalIs, NotationAssumption DEF Numbers, Value
<1>5. \A k \in {1, 3, 5, 7} : /\ d[k] \in Numbers /\ Value(d[k]) # Invalid
                              /\ Value(d[k]) <= MaxOctet
  <2> TAKE k \in {1, 3, 5, 7}
  <2>1. PICK i \in 1..4 : k = 2 * i - 1
    <3>1. 1 = 2 * 1 - 1 /\ 3 = 2 * 2 - 1 /\ 5 = 2 * 3 - 1 /\ 7 = 2 * 4 - 1
      OBVIOUS
    <3> QED
      BY <3>1
  <2>2. d[k] = labels[i]
    BY <1>2, <2>1
  <2> QED
    BY <1>1, <1>4, <2>2
<1> HIDE DEF d
<1>6. d[7] = labels[4]
  <2>1. d[2 * 4 - 1] = labels[4]
    BY <1>2
  <2> QED
    BY <2>1
<1>7. Value(d[7]) \in Nat /\ Value(d[7]) \div Weight[4] = Value(d[7])
  <2>1. Value(d[7]) \in Nat
    BY <1>4, <1>6
  <2> QED
    BY <2>1 DEF Weight
<1>8. IsAddress(d)
  <2>1. Value(d[Len(d)]) \div Weight[(Len(d) + 1) \div 2] <= MaxOctet
    <3>1. (Len(d) + 1) \div 2 = 4
      BY <1>3
    <3> QED
      BY <1>3, <1>5, <1>7, <3>1
  <2>2. \A k \in {2, 4, 6} : d[k] = "."
    BY <1>3
  <2> QED
    BY <1>3, <1>5, <2>1, <2>2 DEF IsAddress
<1>9. \A i \in 1..4 : Octet(d, i) = Decimal[labels[i]]
  <2> TAKE i \in 1..4
  <2>1. CASE 2 * i - 1 < 7
    <3>1. Octet(d, i) = Value(d[2 * i - 1])
      BY <1>3, <2>1 DEF Octet
    <3> QED
      BY <1>2, <1>4, <3>1
  <2>2. CASE ~(2 * i - 1 < 7)
    <3>1. i = 4
      BY <2>2
    <3>2. Octet(d, 4) = (Value(d[7]) \div Weight[4]) % 256
      BY <1>3 DEF Octet
    <3>3. Value(d[7]) = Decimal[labels[4]] /\ Decimal[labels[4]] <= MaxOctet
      BY <1>1, <1>4, <1>6
    <3>4. Value(d[7]) % 256 = Value(d[7])
      BY <1>7, <3>3 DEF MaxOctet
    <3> QED
      BY <1>7, <3>1, <3>2, <3>3, <3>4
  <2> QED
    BY <2>1, <2>2
<1>10. Octets(d) = labels
  <2>1. \A i \in 1..4 : Octets(d)[i] = labels[i]
    BY <1>1, <1>9, DecimalIs DEF Octets
  <2>2. Octets(d) \in Seq(Tokens) /\ Len(Octets(d)) = 4
    BY <1>8, OctetsAre
  <2> QED
    BY <1>1, <2>1, <2>2, SeqEqual
<1> QED
  BY <1>8, <1>10 DEF d

\* And written out, the octets of an address are an address in decimal.
LEMMA OctetsReadBack ==
  ASSUME NEW host, IsAddress(host)
  PROVE  /\ IsIpv4(Dotted(Octets(host))) /\ IsAddress(Dotted(Octets(host)))
         /\ Octets(Dotted(Octets(host))) = Octets(host)
         /\ \A i \in 1..Len(Octets(host)) : Octets(host)[i] \in Labels
<1>1. Octets(host) \in Seq(Tokens) /\ IsIpv4(Dotted(Octets(host)))
  BY OctetsAre, FourOctets
<1>2. \A i \in 1..4 : Octets(host)[i] \in Labels
  BY OctetsAre, DecimalIs
<1> QED
  BY <1>1, <1>2, OctetsAre, OctetsOfIpv4

-----------------------------------------------------------------------------
(* A URL as it is spelled                                                  *)

Dots(meant) == [k \in 1..meant.dots |-> "."]

\* The host as the url crate returns it, and as the target keeps it.
HostText(meant) == IF meant.ipv6 THEN meant.labels ELSE Dotted(HostLabels(meant))

Bracketed(meant) ==
    IF meant.ipv6 THEN <<"[">> \o meant.labels \o <<"]">> ELSE Dotted(meant.labels)

WrittenHost(meant) == Bracketed(meant) \o Dots(meant)

PortText(meant) == IF meant.port = NoPort THEN <<>> ELSE <<":", Numeral[meant.port]>>

LEMMA WrittenIs ==
  ASSUME NEW meant
  PROVE  /\ Written(meant).authority = WrittenHost(meant) \o PortText(meant)
         /\ Written(meant).scheme = meant.scheme
         /\ Written(meant).userinfo = meant.userinfo
BY DEF Written, WrittenHost, Bracketed, PortText, Dots

LEMMA SpelledTypes ==
  ASSUME NEW meant, Spelled(meant)
  PROVE  /\ meant.scheme \in STRING /\ meant.userinfo \in BOOLEAN /\ meant.ipv6 \in BOOLEAN
         /\ meant.labels \in Seq(Tokens) /\ meant.dots \in Nat
         /\ meant.port \in Nat \cup {NoPort}
BY DEF Spelled

LEMMA DotsIs ==
  ASSUME NEW meant, Spelled(meant)
  PROVE  /\ Dots(meant) \in Seq(Tokens)
         /\ Len(Dots(meant)) = meant.dots
         /\ \A k \in 1..meant.dots : Dots(meant)[k] = "."
<1>1. meant.dots \in Nat
  BY SpelledTypes
<1>2. Dots(meant) \in [1..meant.dots -> Tokens]
  BY DEF Dots, Tokens, Punctuation
<1>3. Dots(meant) \in Seq(Tokens)
  BY <1>1, <1>2, SeqDef
<1>4. Len(Dots(meant)) = meant.dots
  BY <1>1, <1>2, <1>3, LenProperties
<1> QED
  BY <1>3, <1>4 DEF Dots

LEMMA PortTextIs ==
  ASSUME NEW meant, Spelled(meant)
  PROVE  /\ PortText(meant) \in Seq(Tokens)
         /\ meant.port = NoPort => PortText(meant) = <<>> /\ Len(PortText(meant)) = 0
         /\ meant.port # NoPort =>
                /\ Len(PortText(meant)) = 2
                /\ PortText(meant)[1] = ":"
                /\ PortText(meant)[2] = Numeral[meant.port]
                /\ Numeral[meant.port] \in DOMAIN Decimal
                /\ Decimal[Numeral[meant.port]] = meant.port
<1>1. CASE meant.port = NoPort
  BY <1>1, EmptySeq DEF PortText
<1>2. CASE meant.port # NoPort
  <2>1. /\ Numeral[meant.port] \in DOMAIN Decimal
        /\ Decimal[Numeral[meant.port]] = meant.port
    BY <1>2, NumeralIs DEF Spelled
  <2>2. Numeral[meant.port] \in Tokens /\ ":" \in Tokens
    <3>1. Numeral[meant.port] \in Tokens
      BY <1>2, NumeralIs, LabelsAre DEF Spelled
    <3>2. ":" \in Tokens
      BY DEF Tokens, Punctuation
    <3> QED
      BY <3>1, <3>2
  <2>3. PortText(meant) = <<":", Numeral[meant.port]>>
    BY <1>2 DEF PortText
  <2> QED
    BY <1>2, <2>1, <2>2, <2>3
<1> QED
  BY <1>1, <1>2

LEMMA BracketedIs ==
  ASSUME NEW meant, Spelled(meant), meant.ipv6
  PROVE  /\ Bracketed(meant) \in Seq(Tokens)
         /\ Len(Bracketed(meant)) = Len(meant.labels) + 2
         /\ Bracketed(meant)[1] = "["
         /\ Bracketed(meant)[Len(meant.labels) + 2] = "]"
         /\ \A k \in 1..Len(meant.labels) : Bracketed(meant)[k + 1] = meant.labels[k]
         /\ \A k \in 1..Len(meant.labels) + 1 : Bracketed(meant)[k] # "]"
<1>1. meant.labels \in Seq(Tokens) /\ Len(meant.labels) \in Nat
  BY SpelledTypes, LenProperties
<1>2. \A k \in 1..Len(meant.labels) : meant.labels[k] # "]"
  BY DEF Spelled
<1> DEFINE l == <<"[">>
           r == <<"]">>
           n == Len(meant.labels)
<1>3. /\ l \in Seq(Tokens) /\ Len(l) = 1 /\ l[1] = "["
      /\ r \in Seq(Tokens) /\ Len(r) = 1 /\ r[1] = "]"
  BY DEF Tokens, Punctuation
<1>4. Bracketed(meant) = (l \o meant.labels) \o r
  BY DEF Bracketed
<1> HIDE DEF l, r
<1>5. /\ l \o meant.labels \in Seq(Tokens)
      /\ Len(l \o meant.labels) = 1 + n
      /\ \A i \in 1..1 + n :
            (l \o meant.labels)[i] = IF i <= 1 THEN l[i] ELSE meant.labels[i - 1]
  BY <1>1, <1>3, ConcatProperties
<1>6. /\ Bracketed(meant) \in Seq(Tokens)
      /\ Len(Bracketed(meant)) = n + 2
      /\ \A i \in 1..n + 2 : Bracketed(meant)[i] =
            IF i <= n + 1 THEN (l \o meant.labels)[i] ELSE r[i - (n + 1)]
  BY <1>1, <1>3, <1>4, <1>5, ConcatProperties
<1>7. \A i \in 1..n + 1 :
        Bracketed(meant)[i] = IF i <= 1 THEN l[i] ELSE meant.labels[i - 1]
  BY <1>1, <1>5, <1>6, SMTT(60)
<1>8. Bracketed(meant)[1] = "["
  BY <1>1, <1>3, <1>7
<1>9. Bracketed(meant)[n + 2] = "]"
  BY <1>1, <1>3, <1>6, SMTT(60)
<1>10. \A k \in 1..n : Bracketed(meant)[k + 1] = meant.labels[k]
  BY <1>1, <1>7
<1>11. \A k \in 1..n + 1 : Bracketed(meant)[k] # "]"
  BY <1>1, <1>2, <1>3, <1>7
<1> QED
  BY <1>6, <1>8, <1>9, <1>10, <1>11

\* The authority, place by place.
LEMMA WrittenHostIs ==
  ASSUME NEW meant, Spelled(meant)
  PROVE  /\ Bracketed(meant) \in Seq(Tokens)
         /\ WrittenHost(meant) \in Seq(Tokens)
         /\ Len(WrittenHost(meant)) = Len(Bracketed(meant)) + meant.dots
         /\ \A i \in 1..Len(Bracketed(meant)) + meant.dots : WrittenHost(meant)[i] =
                IF i <= Len(Bracketed(meant)) THEN Bracketed(meant)[i] ELSE "."
<1>1. Bracketed(meant) \in Seq(Tokens)
  <2>1. CASE meant.ipv6
    BY <2>1, BracketedIs
  <2>2. CASE ~meant.ipv6
    BY <2>2, SpelledTypes, DottedIs DEF Bracketed
  <2> QED
    BY <2>1, <2>2
<1>2. Dots(meant) \in Seq(Tokens) /\ Len(Dots(meant)) = meant.dots /\ meant.dots \in Nat
      /\ \A k \in 1..meant.dots : Dots(meant)[k] = "."
  BY DotsIs, SpelledTypes
<1> DEFINE b == Bracketed(meant)
           d == Dots(meant)
<1>3. Len(b) \in Nat
  BY <1>1, LenProperties
<1> HIDE DEF b, d
<1>4. /\ b \o d \in Seq(Tokens)
      /\ Len(b \o d) = Len(b) + Len(d)
      /\ \A i \in 1..Len(b) + Len(d) : (b \o d)[i] = IF i <= Len(b) THEN b[i] ELSE d[i - Len(b)]
  BY <1>1, <1>2, ConcatProperties DEF b, d
<1>5. WrittenHost(meant) = b \o d
  BY DEF WrittenHost, b, d
<1>6. \A i \in 1..Len(b) + meant.dots :
        (b \o d)[i] = IF i <= Len(b) THEN b[i] ELSE "."
  BY <1>2, <1>3, <1>4 DEF d
<1> QED
  BY <1>1, <1>2, <1>4, <1>5, <1>6 DEF b, d

LEMMA AuthorityIs ==
  ASSUME NEW meant, Spelled(meant)
  PROVE  LET a == Written(meant).authority
             w == WrittenHost(meant)
             p == PortText(meant)
         IN  /\ a \in Seq(Tokens)
             /\ Len(w) \in Nat /\ Len(p) \in Nat
             /\ Len(a) = Len(w) + Len(p)
             /\ \A i \in 1..Len(w) + Len(p) : a[i] = IF i <= Len(w) THEN w[i] ELSE p[i - Len(w)]
<1> DEFINE a == Written(meant).authority
           w == WrittenHost(meant)
           p == PortText(meant)
<1>1. w \in Seq(Tokens) /\ p \in Seq(Tokens) /\ a = w \o p
  BY WrittenHostIs, PortTextIs, WrittenIs
<1> HIDE DEF a, w, p
<1>2. Len(w) \in Nat /\ Len(p) \in Nat
  BY <1>1, LenProperties
<1>3. /\ a \in Seq(Tokens)
      /\ Len(a) = Len(w) + Len(p)
      /\ \A i \in 1..Len(w) + Len(p) : a[i] = IF i <= Len(w) THEN w[i] ELSE p[i - Len(w)]
  BY <1>1, ConcatProperties
<1> QED
  BY <1>2, <1>3 DEF a, w, p

LEMMA SplitConcat ==
  ASSUME NEW u \in Seq(Tokens), NEW v \in Seq(Tokens)
  PROVE  /\ SubSeq(u \o v, 1, Len(u)) = u
         /\ SubSeq(u \o v, Len(u) + 1, Len(u \o v)) = v
<1> DEFINE a == u \o v
<1>1. Len(u) \in Nat /\ Len(v) \in Nat
  BY LenProperties
<1>2. /\ a \in Seq(Tokens) /\ Len(a) = Len(u) + Len(v)
      /\ \A i \in 1..Len(u) + Len(v) : a[i] = IF i <= Len(u) THEN u[i] ELSE v[i - Len(u)]
  BY ConcatProperties
<1>3. \A i \in 1..Len(a) : a[i] \in Tokens
  BY <1>2, ElementOfSeq
<1> HIDE DEF a
<1>4. SubSeq(a, 1, Len(u)) = u
  <2>1. \A i \in 1..Len(u) : a[i] \in Tokens
    BY <1>1, <1>2, <1>3
  <2>2. /\ SubSeq(a, 1, Len(u)) \in Seq(Tokens)
        /\ Len(SubSeq(a, 1, Len(u))) = IF 1 <= Len(u) THEN Len(u) - 1 + 1 ELSE 0
        /\ \A i \in 1..Len(u) - 1 + 1 : SubSeq(a, 1, Len(u))[i] = a[1 + i - 1]
    BY <1>1, <2>1, SubSeqProperties
  <2>3. Len(SubSeq(a, 1, Len(u))) = Len(u)
    BY <1>1, <2>2
  <2>4. \A i \in 1..Len(u) : SubSeq(a, 1, Len(u))[i] = u[i]
    BY <1>1, <1>2, <2>2
  <2> QED
    BY <2>2, <2>3, <2>4, SeqEqual
<1>5. SubSeq(a, Len(u) + 1, Len(a)) = v
  <2> DEFINE m == Len(u) + 1
             n == Len(a)
  <2>1. m \in Int /\ n \in Int /\ n - m + 1 = Len(v) /\ (\A i \in m..n : a[i] \in Tokens)
    BY <1>1, <1>2, <1>3
  <2> HIDE DEF m, n
  <2>2. /\ SubSeq(a, m, n) \in Seq(Tokens)
        /\ Len(SubSeq(a, m, n)) = IF m <= n THEN n - m + 1 ELSE 0
        /\ \A i \in 1..n - m + 1 : SubSeq(a, m, n)[i] = a[m + i - 1]
    BY <2>1, SubSeqProperties
  <2>3. Len(SubSeq(a, m, n)) = Len(v)
    BY <1>1, <2>1, <2>2
  <2>4. \A i \in 1..Len(v) : SubSeq(a, m, n)[i] = v[i]
    <3> TAKE i \in 1..Len(v)
    <3> DEFINE j == m + i - 1
    <3>1. j \in 1..Len(u) + Len(v) /\ ~(j <= Len(u)) /\ j - Len(u) = i
      BY <1>1 DEF m
    <3>2. SubSeq(a, m, n)[i] = a[j]
      BY <2>1, <2>2
    <3> HIDE DEF j
    <3>3. a[j] = v[j - Len(u)]
      BY <1>2, <3>1
    <3> QED
      BY <3>1, <3>2, <3>3
  <2>5. SubSeq(a, m, n) = v
    BY <2>2, <2>3, <2>4, SeqEqual
  <2> QED
    BY <2>5 DEF m, n
<1> QED
  BY <1>4, <1>5 DEF a

\* The colon of the port is the first one outside the brackets.
LEMMA PartsOfAName ==
  ASSUME NEW meant, Spelled(meant), ~meant.ipv6
  PROVE  /\ HostPart(Written(meant).authority) = WrittenHost(meant)
         /\ PortPart(Written(meant).authority) = PortText(meant)
<1> DEFINE a == Written(meant).authority
           w == WrittenHost(meant)
           p == PortText(meant)
<1>1. /\ w \in Seq(Tokens) /\ p \in Seq(Tokens) /\ a \in Seq(Tokens) /\ a = w \o p
      /\ Len(w) \in Nat /\ Len(p) \in Nat /\ Len(a) = Len(w) + Len(p)
      /\ \A i \in 1..Len(w) + Len(p) : a[i] = IF i <= Len(w) THEN w[i] ELSE p[i - Len(w)]
  BY AuthorityIs, WrittenHostIs, PortTextIs, WrittenIs
<1>2. (p = <<>> /\ Len(p) = 0) \/ (Len(p) = 2 /\ p[1] = ":")
  BY PortTextIs
<1>3. \A i \in 1..Len(w) : w[i] # ":" /\ w[i] # "["
  <2>1. Bracketed(meant) = Dotted(meant.labels) /\ meant.labels \in Seq(Tokens)
        /\ Len(meant.labels) \in Nat /\ meant.dots \in Nat
    BY SpelledTypes, LenProperties DEF Bracketed
  <2>2. \A k \in 1..Len(meant.labels) : meant.labels[k] # ":" /\ meant.labels[k] # "["
    BY LabelsAre DEF Spelled
  <2>3. \A i \in 1..Len(Bracketed(meant)) : Bracketed(meant)[i] # ":" /\ Bracketed(meant)[i] # "["
    <3>1. Len(Bracketed(meant)) \in {0, 2 * Len(meant.labels) - 1}
      BY <2>1, DottedIs
    <3>2. \A i \in 1..2 * Len(meant.labels) - 1 : Dotted(meant.labels)[i] = "."
            \/ \E k \in 1..Len(meant.labels) : Dotted(meant.labels)[i] = meant.labels[k]
      BY <2>1, DottedIs
    <3> TAKE i \in 1..Len(Bracketed(meant))
    <3>3. i \in 1..2 * Len(meant.labels) - 1
      BY <2>1, <3>1
    <3> QED
      BY <2>1, <2>2, <3>2, <3>3
  <2>4. /\ Len(w) = Len(Bracketed(meant)) + meant.dots
        /\ \A i \in 1..Len(Bracketed(meant)) + meant.dots :
              w[i] = IF i <= Len(Bracketed(meant)) THEN Bracketed(meant)[i] ELSE "."
        /\ Len(Bracketed(meant)) \in Nat
    BY WrittenHostIs, LenProperties
  <2> TAKE i \in 1..Len(w)
  <2>5. w[i] = "." \/ (i \in 1..Len(Bracketed(meant)) /\ w[i] = Bracketed(meant)[i])
    BY <2>4
  <2> QED
    BY <2>3, <2>5
<1> HIDE DEF a, w, p
<1>4. ~(a # <<>> /\ a[1] = "[")
  <2> SUFFICES ASSUME a # <<>> PROVE a[1] # "["
    OBVIOUS
  <2>1. Len(a) # 0
    BY <1>1, EmptySeq
  <2>2. CASE Len(w) = 0
    BY <1>1, <1>2, <2>1, <2>2
  <2>3. CASE Len(w) # 0
    BY <1>1, <1>3, <2>3
  <2> QED
    BY <2>2, <2>3
<1>5. First(a, ":") = Len(w) + 1
  <2> DEFINE k == Len(w) + 1
  <2>1. k \in 1..Len(a) + 1
    BY <1>1
  <2>2. k = Len(a) + 1 \/ a[k] = ":"
    BY <1>1, <1>2
  <2>3. \A j \in 1..k - 1 : a[j] # ":"
    BY <1>1, <1>3
  <2>4. a \in Seq(Tokens)
    BY <1>1
  <2> HIDE DEF k
  <2>5. First(a, ":") = k
    BY <2>1, <2>2, <2>3, <2>4, FirstIs
  <2> QED
    BY <2>5 DEF k
<1>6. HostPart(a) = SubSeq(a, 1, Len(w))
  BY <1>1, <1>4, <1>5 DEF HostPart
<1>7. HostPart(a) = w
  BY <1>1, <1>6, SplitConcat
<1>8. PortPart(a) = p
  BY <1>1, <1>7, SplitConcat DEF PortPart
<1> QED
  BY <1>7, <1>8 DEF a, w, p

LEMMA PartsOfAnAddress ==
  ASSUME NEW meant, Spelled(meant), meant.ipv6
  PROVE  /\ HostPart(Written(meant).authority) = Bracketed(meant)
         /\ PortPart(Written(meant).authority) = Dots(meant) \o PortText(meant)
<1> DEFINE a == Written(meant).authority
           b == Bracketed(meant)
           v == Dots(meant) \o PortText(meant)
<1>1. b \in Seq(Tokens) /\ Dots(meant) \in Seq(Tokens) /\ PortText(meant) \in Seq(Tokens)
  BY WrittenHostIs, DotsIs, PortTextIs
<1>2. v \in Seq(Tokens)
  BY <1>1, ConcatProperties
<1>3. a = b \o v
  <2>1. a = (b \o Dots(meant)) \o PortText(meant)
    BY WrittenIs DEF WrittenHost
  <2>2. ASSUME NEW x \in Seq(Tokens), NEW y \in Seq(Tokens), NEW z \in Seq(Tokens)
        PROVE  (x \o y) \o z = x \o (y \o z)
    BY SMTT(30)
  <2> HIDE DEF a, b
  <2>3. (b \o Dots(meant)) \o PortText(meant) = b \o (Dots(meant) \o PortText(meant))
    BY <1>1, <2>2, Zenon
  <2> QED
    BY <2>1, <2>3, Zenon
<1>4. /\ Len(b) \in Nat /\ Len(b) >= 2 /\ b[1] = "[" /\ b[Len(b)] = "]"
      /\ \A k \in 1..Len(b) - 1 : b[k] # "]"
  <2>1. Len(meant.labels) \in Nat
    BY SpelledTypes, LenProperties
  <2> QED
    BY <2>1, BracketedIs
<1> HIDE DEF a, b, v
<1>5. /\ a \in Seq(Tokens) /\ Len(v) \in Nat /\ Len(a) = Len(b) + Len(v)
      /\ \A i \in 1..Len(b) + Len(v) : a[i] = IF i <= Len(b) THEN b[i] ELSE v[i - Len(b)]
  BY <1>1, <1>2, <1>3, ConcatProperties, LenProperties DEF b
<1>6. a # <<>> /\ a[1] = "["
  <2>1. a[1] = "[" /\ Len(a) # 0
    BY <1>4, <1>5
  <2> QED
    BY <2>1, EmptySeq
<1>7. First(a, "]") = Len(b)
  <2>1. Len(b) \in 1..Len(a) + 1 /\ a[Len(b)] = "]"
    BY <1>4, <1>5
  <2>2. \A j \in 1..Len(b) - 1 : a[j] # "]"
    BY <1>4, <1>5
  <2> QED
    BY <1>5, <2>1, <2>2, FirstIs
<1>8. HostPart(a) = SubSeq(a, 1, Len(b))
  BY <1>6, <1>7 DEF HostPart
<1>9. b \in Seq(Tokens)
  BY <1>1 DEF b
<1>10. HostPart(a) = b
  BY <1>2, <1>3, <1>8, <1>9, SplitConcat
<1>11. PortPart(a) = v
  BY <1>2, <1>3, <1>9, <1>10, SplitConcat DEF PortPart
<1> QED
  BY <1>10, <1>11 DEF a, b, v

-----------------------------------------------------------------------------
(* What parse_target makes of it                                           *)

Kind(meant) ==
    IF meant.ipv6 THEN "ipv6" ELSE IF IsIpv4(Dotted(HostLabels(meant))) THEN "ipv4" ELSE "domain"

HostMeant(meant) == [kind |-> Kind(meant), text |-> HostText(meant)]

PortMeant(meant) == IF meant.port = NoPort THEN DefaultPort(meant.scheme) ELSE meant.port

\* A host, and not one that the url crate takes for an address and that is none.
IsHost(meant) ==
    /\ meant.labels # <<>>
    /\ meant.dots <= 1 /\ EndsInNumber(Dotted(meant.labels)) => IsAddress(Dotted(meant.labels))

\* What is refused: another scheme, userinfo, no host, a number that is no
\* address, dots behind an IPv6 address, port 0 and a port that does not fit 16
\* bits.
Acceptable(meant) ==
    /\ meant.scheme \in {"http", "https"}
    /\ ~meant.userinfo
    /\ IF meant.ipv6 THEN meant.dots = 0 ELSE IsHost(meant)
    /\ meant.port # NoPort => meant.port < 65536 /\ meant.port # 0

LEMMA HostOfAName ==
  ASSUME NEW meant, Spelled(meant), ~meant.ipv6
  PROVE  ParseHost(WrittenHost(meant)) =
            IF meant.labels = <<>>
            THEN Invalid
            ELSE [kind |-> IF IsIpv4(Dotted(meant.labels)) THEN "ipv4" ELSE "domain",
                  text |-> Dotted(meant.labels)]
<1> DEFINE b == Bracketed(meant)
           w == WrittenHost(meant)
<1>1. /\ b \in Seq(Tokens) /\ w \in Seq(Tokens) /\ Dots(meant) \in Seq(Tokens)
      /\ Len(w) = Len(b) + meant.dots
      /\ \A i \in 1..Len(b) + meant.dots : w[i] = IF i <= Len(b) THEN b[i] ELSE "."
      /\ w = b \o Dots(meant)
  BY WrittenHostIs, DotsIs DEF WrittenHost
<1>2. /\ meant.labels \in Seq(Tokens) /\ Len(meant.labels) \in Nat /\ meant.dots \in Nat
      /\ (meant.labels = <<>> <=> Len(meant.labels) = 0)
      /\ Len(b) \in Nat
  BY <1>1, SpelledTypes, LenProperties, EmptySeq
<1>3. /\ b = Dotted(meant.labels)
      /\ meant.labels = <<>> => Len(b) = 0
      /\ meant.labels # <<>> => Len(b) = 2 * Len(meant.labels) - 1
      /\ \A k \in 1..Len(meant.labels) : b[2 * k - 1] = meant.labels[k]
  BY <1>2, DottedIs DEF Bracketed
<1>4. \A k \in 1..Len(meant.labels) : meant.labels[k] # "." /\ meant.labels[k] # "["
  BY LabelsAre DEF Spelled
<1>5. Len(b) > 0 => b[1] # "[" /\ b[Len(b)] # "."
  <2> SUFFICES ASSUME Len(b) > 0 PROVE b[1] # "[" /\ b[Len(b)] # "."
    OBVIOUS
  <2>1. /\ 1 \in 1..Len(meant.labels) /\ Len(meant.labels) \in 1..Len(meant.labels)
        /\ Len(b) = 2 * Len(meant.labels) - 1 /\ 2 * 1 - 1 = 1
    BY <1>2, <1>3
  <2>2. b[2 * 1 - 1] = meant.labels[1] /\ b[Len(b)] = meant.labels[Len(meant.labels)]
    BY <1>3, <2>1
  <2> QED
    BY <1>4, <2>1, <2>2
<1> HIDE DEF b, w
<1>6. TrimDots(w) = b
  <2> DEFINE n == Len(b)
  <2>1. n \in 0..Len(w)
    BY <1>1, <1>2
  <2>2. n > 0 => w[n] # "."
    BY <1>1, <1>2, <1>5
  <2>3. \A k \in n + 1..Len(w) : w[k] = "."
    BY <1>1, <1>2
  <2>4. w \in Seq(Tokens)
    BY <1>1
  <2> HIDE DEF n
  <2>5. TrimDots(w) = SubSeq(w, 1, n)
    BY <2>1, <2>2, <2>3, <2>4, TrimDotsIs
  <2> QED
    BY <1>1, <2>5, SplitConcat DEF n
<1>7. CASE meant.labels = <<>>
  <2>1. b = <<>>
    BY <1>1, <1>3, <1>7, EmptySeq
  <2>2. ~IsIpv4(<<>>)
    BY EmptySeq DEF IsIpv4
  <2>3. ParseHost(w) = Invalid
    BY <1>6, <2>1, <2>2 DEF ParseHost
  <2> QED
    BY <1>7, <2>3 DEF w
<1>8. CASE meant.labels # <<>>
  <2>1. Len(b) > 0
    BY <1>2, <1>3, <1>8
  <2>2. b # <<>> /\ b[1] # "["
    BY <1>1, <1>5, <2>1, EmptySeq
  <2>3. ParseHost(w) = IF IsIpv4(b) THEN [kind |-> "ipv4", text |-> b]
                                    ELSE [kind |-> "domain", text |-> b]
    BY <1>6, <2>2 DEF ParseHost
  <2> QED
    BY <1>3, <1>8, <2>3 DEF w
<1> QED
  BY <1>7, <1>8

\* The labels of a host that ends in a number count with one dot behind them, and
\* not with two.
LEMMA UrlHostOfAName ==
  ASSUME NEW meant, Spelled(meant), ~meant.ipv6
  PROVE  LET d == Dotted(meant.labels)
         IN  UrlHost(WrittenHost(meant)) =
                IF meant.dots <= 1 /\ EndsInNumber(d)
                THEN IF IsAddress(d) THEN Dotted(Octets(d)) ELSE Invalid
                ELSE WrittenHost(meant)
<1> DEFINE b == Bracketed(meant)
           w == WrittenHost(meant)
<1>1. /\ b \in Seq(Tokens) /\ w \in Seq(Tokens) /\ Dots(meant) \in Seq(Tokens)
      /\ Len(w) = Len(b) + meant.dots
      /\ \A i \in 1..Len(b) + meant.dots : w[i] = IF i <= Len(b) THEN b[i] ELSE "."
      /\ w = b \o Dots(meant)
  BY WrittenHostIs, DotsIs DEF WrittenHost
<1>2. Len(b) \in Nat /\ meant.dots \in Nat /\ (b = <<>> <=> Len(b) = 0) /\ (w = <<>> <=> Len(w) = 0)
  BY <1>1, SpelledTypes, LenProperties, EmptySeq
<1>3. Len(b) > 0 => b[Len(b)] # "."
  <2> SUFFICES ASSUME Len(b) > 0 PROVE b[Len(b)] # "."
    OBVIOUS
  <2>1. /\ meant.labels \in Seq(Tokens) /\ Len(meant.labels) \in Nat
        /\ b = Dotted(meant.labels)
    BY SpelledTypes, LenProperties DEF Bracketed
  <2>2. /\ Len(b) = IF meant.labels = <<>> THEN 0 ELSE 2 * Len(meant.labels) - 1
        /\ \A k \in 1..Len(meant.labels) : b[2 * k - 1] = meant.labels[k]
    BY <2>1, DottedIs
  <2>3. Len(b) = 2 * Len(meant.labels) - 1 /\ Len(meant.labels) \in 1..Len(meant.labels)
    BY <2>1, <2>2
  <2>4. b[Len(b)] = meant.labels[Len(meant.labels)]
    BY <2>2, <2>3
  <2> QED
    BY <2>3, <2>4, LabelsAre DEF Spelled
<1>4. b = Dotted(meant.labels)
  BY DEF Bracketed
<1> HIDE DEF b, w
<1>5. Undotted(b) = b
  BY <1>2, <1>3 DEF Undotted
<1>6. CASE meant.dots <= 1
  <2>1. Undotted(w) = b
    <3>1. CASE meant.dots = 0
      <4>1. Len(Dots(meant)) = 0
        BY <3>1, DotsIs
      <4>2. w = b
        BY <1>1, <4>1, EmptySeq, ConcatEmptySeq
      <4> QED
        BY <1>5, <4>2
    <3>2. CASE meant.dots = 1
      <4>1. Len(w) = Len(b) + 1 /\ w # <<>> /\ w[Len(w)] = "." /\ Len(w) - 1 = Len(b)
        BY <1>1, <1>2, <3>2
      <4>2. SubSeq(w, 1, Len(b)) = b
        BY <1>1, SplitConcat
      <4> QED
        BY <4>1, <4>2 DEF Undotted
    <3> QED
      BY <1>2, <1>6, <3>1, <3>2
  <2>2. EndsInNumber(w) <=> EndsInNumber(b)
    BY <1>5, <2>1 DEF EndsInNumber
  <2>3. UrlHost(w) = IF EndsInNumber(b)
                     THEN IF IsAddress(b) THEN Dotted(Octets(b)) ELSE Invalid
                     ELSE w
    <3>1. CASE EndsInNumber(b) /\ IsAddress(b)
      BY <2>1, <2>2, <3>1 DEF UrlHost
    <3>2. CASE EndsInNumber(b) /\ ~IsAddress(b)
      BY <2>1, <2>2, <3>2 DEF UrlHost
    <3>3. CASE ~EndsInNumber(b)
      BY <2>2, <3>3 DEF UrlHost
    <3> QED
      BY <3>1, <3>2, <3>3
  <2> QED
    BY <1>4, <1>6, <2>3 DEF w
<1>7. CASE ~(meant.dots <= 1)
  <2> DEFINE n == Len(w) - 1
  <2>a. /\ n \in 1..Len(b) + meant.dots /\ Len(w) \in 1..Len(b) + meant.dots
        /\ ~(n <= Len(b)) /\ ~(Len(w) <= Len(b)) /\ n \in 1..Len(w)
    BY <1>1, <1>2, <1>7
  <2>b. w[n] = "." /\ w[Len(w)] = "."
    <3> HIDE DEF n
    <3> QED
      BY <1>1, <2>a
  <2>1. n \in 1..Len(w) /\ w[n] = "." /\ w[Len(w)] = "." /\ w # <<>>
    BY <1>2, <2>a, <2>b
  <2>2. Undotted(w) = SubSeq(w, 1, n)
    BY <2>1 DEF Undotted
  <2> HIDE DEF n
  <2>3. Len(SubSeq(w, 1, n)) = n /\ SubSeq(w, 1, n)[n] = "."
    BY <1>1, <2>1
  <2>4. ~EndsInNumber(w)
    BY <2>2, <2>3, NumbersAreLabels DEF EndsInNumber, Punctuation
  <2> QED
    BY <1>7, <2>4 DEF UrlHost, w
<1> QED
  BY <1>6, <1>7

LEMMA HostLabelsAre ==
  ASSUME NEW meant, Spelled(meant), ~meant.ipv6
  PROVE  /\ HostLabels(meant) \in Seq(Tokens)
         /\ \A k \in 1..Len(HostLabels(meant)) : HostLabels(meant)[k] \in Labels
         /\ meant.labels # <<>> => HostLabels(meant) # <<>>
<1>1. CASE HostLabels(meant) = meant.labels
  BY <1>1, SpelledTypes DEF Spelled
<1>2. CASE IsAddress(Dotted(meant.labels)) /\ HostLabels(meant) = Octets(Dotted(meant.labels))
  <2>1. HostLabels(meant) \in Seq(Tokens) /\ Len(HostLabels(meant)) = 4
    BY <1>2, OctetsAre
  <2>2. HostLabels(meant) # <<>>
    BY <2>1, EmptySeq
  <2> QED
    BY <1>2, <2>1, <2>2, OctetsReadBack
<1> QED
  BY <1>1, <1>2 DEF HostLabels

\* What the two parsers make of a name, one after the other.
LEMMA HostRead ==
  ASSUME NEW meant, Spelled(meant), ~meant.ipv6
  PROVE  LET host == UrlHost(WrittenHost(meant))
         IN  /\ host # Invalid /\ ParseHost(host) # Invalid <=> IsHost(meant)
             /\ IsHost(meant) => ParseHost(host) = HostMeant(meant)
<1> DEFINE d == Dotted(meant.labels)
           w == WrittenHost(meant)
           host == UrlHost(w)
<1>1. /\ meant.labels \in Seq(Tokens) /\ d \in Seq(Tokens) /\ w \in Seq(Tokens)
      /\ meant.dots \in Nat
  BY SpelledTypes, DottedIs, WrittenHostIs
<1>2. HostMeant(meant) # Invalid
  <2>1. HostText(meant) \in Seq(Tokens)
    BY HostLabelsAre, DottedIs DEF HostText
  <2>2. HostMeant(meant) \in Hosts
    BY <2>1 DEF HostMeant, Hosts, Kind
  <2> QED
    BY <2>2, TargetAssumption
<1>3. HostMeant(meant) = [kind |-> IF IsIpv4(Dotted(HostLabels(meant))) THEN "ipv4" ELSE "domain",
                          text |-> Dotted(HostLabels(meant))]
  BY DEF HostMeant, Kind, HostText
<1>4. host = IF meant.dots <= 1 /\ EndsInNumber(d)
             THEN IF IsAddress(d) THEN Dotted(Octets(d)) ELSE Invalid
             ELSE w
  BY UrlHostOfAName
<1> HIDE DEF d, w, host
<1>5. CASE meant.dots <= 1 /\ EndsInNumber(d) /\ IsAddress(d)
  <2> DEFINE plain == [meant EXCEPT !.labels = Octets(d), !.dots = 0]
  <2>1. /\ Octets(d) \in Seq(Tokens) /\ Octets(d) # <<>>
        /\ \A k \in 1..Len(Octets(d)) : Octets(d)[k] \in Labels
    BY <1>5, OctetsAre, OctetsReadBack, EmptySeq
  <2>2. /\ Spelled(plain) /\ ~plain.ipv6 /\ plain.labels = Octets(d) /\ plain.dots = 0
    BY <2>1 DEF Spelled
  <2> HIDE DEF plain
  <2>3. WrittenHost(plain) = Dotted(Octets(d))
    <3>1. /\ Bracketed(plain) = Dotted(Octets(d)) /\ Dots(plain) \in Seq(Tokens)
          /\ Len(Dots(plain)) = 0 /\ Bracketed(plain) \in Seq(Tokens)
      BY <2>2, DotsIs, WrittenHostIs DEF Bracketed
    <3> QED
      BY <3>1, EmptySeq, ConcatEmptySeq DEF WrittenHost
  <2>4. ParseHost(Dotted(Octets(d))) =
          [kind |-> IF IsIpv4(Dotted(Octets(d))) THEN "ipv4" ELSE "domain",
           text |-> Dotted(Octets(d))]
    BY <2>1, <2>2, <2>3, HostOfAName
  <2>5. HostLabels(meant) = Octets(d)
    BY <1>5 DEF HostLabels, d
  <2>6. host = Dotted(Octets(d)) /\ host # Invalid
    <3>1. Dotted(Octets(d)) \in Seq(Tokens)
      BY <2>1, DottedIs
    <3> QED
      BY <1>4, <1>5, <3>1, TargetAssumption
  <2>7. meant.labels # <<>>
    <3>1. d # <<>>
      BY <1>1, <1>5, AddressEndsInNumber
    <3>2. d \in Seq(Tokens) /\ (meant.labels = <<>> => Len(d) = 0)
      BY <1>1, DottedIs DEF d
    <3> QED
      BY <3>1, <3>2, EmptySeq
  <2>8. IsHost(meant)
    BY <1>5, <2>7 DEF IsHost, d
  <2> QED
    BY <1>2, <1>3, <2>4, <2>5, <2>6, <2>8 DEF host, w
<1>6. CASE meant.dots <= 1 /\ EndsInNumber(d) /\ ~IsAddress(d)
  <2>1. host = Invalid
    BY <1>4, <1>6
  <2>2. ~IsHost(meant)
    BY <1>6 DEF IsHost, d
  <2> QED
    BY <2>1, <2>2 DEF host, w
<1>7. CASE ~(meant.dots <= 1 /\ EndsInNumber(d))
  <2>1. host = w /\ host # Invalid
    BY <1>1, <1>4, <1>7, TargetAssumption
  <2>2. HostLabels(meant) = meant.labels
    <3>1. IsAddress(d) => EndsInNumber(d)
      BY <1>1, AddressEndsInNumber
    <3> QED
      BY <1>7, <3>1 DEF HostLabels, d
  <2>3. IsHost(meant) <=> meant.labels # <<>>
    BY <1>7 DEF IsHost, d
  <2>4. ParseHost(w) = IF meant.labels = <<>> THEN Invalid ELSE HostMeant(meant)
    BY <1>3, <2>2, HostOfAName DEF w
  <2> QED
    BY <1>2, <2>1, <2>3, <2>4 DEF host, w
<1> QED
  BY <1>5, <1>6, <1>7

LEMMA HostOfAnAddress ==
  ASSUME NEW meant, Spelled(meant), meant.ipv6
  PROVE  /\ UrlHost(Bracketed(meant)) = Bracketed(meant)
         /\ ParseHost(Bracketed(meant)) = HostMeant(meant)
<1> DEFINE b == Bracketed(meant)
           l == meant.labels
<1>1. /\ l \in Seq(Tokens) /\ Len(l) \in Nat /\ b \in Seq(Tokens)
      /\ Len(b) = Len(l) + 2
      /\ b[1] = "[" /\ b[Len(b)] = "]"
      /\ \A k \in 1..Len(l) : b[k + 1] = l[k]
  BY SpelledTypes, LenProperties, BracketedIs
<1>2. HostMeant(meant) = [kind |-> "ipv6", text |-> l]
  BY DEF HostMeant, Kind, HostText
<1> HIDE DEF b, l
<1>3. TrimDots(b) = b
  <2> DEFINE n == Len(b)
  <2>1. n \in 0..Len(b) /\ b[n] # "." /\ n + 1 > Len(b)
    BY <1>1
  <2>2. \A k \in n + 1..Len(b) : b[k] = "."
    BY <1>1
  <2> HIDE DEF n
  <2>3. TrimDots(b) = SubSeq(b, 1, n)
    BY <1>1, <2>1, <2>2, TrimDotsIs
  <2> QED
    BY <1>1, <2>3, SubSeqFull DEF n
<1>4. b # <<>> /\ b[1] = "["
  <2>1. Len(b) # 0
    BY <1>1
  <2> QED
    BY <1>1, <2>1, EmptySeq
<1>5. SubSeq(b, 2, Len(b) - 1) = l
  <2> DEFINE m == Len(b) - 1
  <2>1. m \in Int /\ 2 \in Int /\ m - 2 + 1 = Len(l)
    BY <1>1
  <2>2. \A i \in 1..Len(b) : b[i] \in Tokens
    BY <1>1, ElementOfSeq
  <2>3. \A i \in 2..m : b[i] \in Tokens
    BY <1>1, <2>2
  <2>4. \A i \in 1..Len(l) : b[2 + i - 1] = l[i]
    BY <1>1
  <2> HIDE DEF m
  <2>5. /\ SubSeq(b, 2, m) \in Seq(Tokens)
        /\ Len(SubSeq(b, 2, m)) = IF 2 <= m THEN m - 2 + 1 ELSE 0
        /\ \A i \in 1..m - 2 + 1 : SubSeq(b, 2, m)[i] = b[2 + i - 1]
    BY <2>1, <2>3, SubSeqProperties
  <2>6. Len(SubSeq(b, 2, m)) = Len(l)
    BY <1>1, <2>1, <2>5
  <2>7. \A i \in 1..Len(l) : SubSeq(b, 2, m)[i] = l[i]
    BY <2>1, <2>4, <2>5
  <2>8. SubSeq(b, 2, m) = l
    BY <1>1, <2>5, <2>6, <2>7, SeqEqual
  <2> QED
    BY <2>8 DEF m
<1>6. ~IsIpv4(b)
  <2>1. "[" \notin DOMAIN Decimal
    BY DecimalIs, LabelsAre
  <2> QED
    BY <1>4, <2>1 DEF IsIpv4
<1>7. ParseHost(b) = [kind |-> "ipv6", text |-> SubSeq(b, 2, Len(b) - 1)]
  BY <1>3, <1>4, <1>6 DEF ParseHost
<1>8. UrlHost(b) = b
  <2>1. Undotted(b) = b
    BY <1>1 DEF Undotted
  <2>2. ~EndsInNumber(b)
    BY <1>1, <2>1, NumbersAreLabels DEF EndsInNumber, Punctuation
  <2> QED
    BY <2>2 DEF UrlHost
<1> QED
  BY <1>2, <1>5, <1>7, <1>8 DEF b

FitsU16(meant) == meant.port # NoPort => meant.port < 65536

LEMMA PortOfWritten ==
  ASSUME NEW meant, Spelled(meant), NEW text, text.scheme = meant.scheme,
         PortPart(text.authority) = PortText(meant)
  PROVE  /\ WellFormed(text) <=> /\ HostPart(text.authority) # <<>>
                                  /\ UrlHost(HostPart(text.authority)) # Invalid
                                  /\ FitsU16(meant)
         /\ FitsU16(meant) => Port(text) = PortMeant(meant)
<1> DEFINE port == PortPart(text.authority)
<1>a. WellFormed(text) <=> /\ HostPart(text.authority) # <<>>
                           /\ UrlHost(HostPart(text.authority)) # Invalid
                           /\ IsPort(port)
  BY DEF WellFormed
<1>1. CASE meant.port = NoPort
  <2>1. port = <<>>
    BY <1>1, PortTextIs
  <2>2. Port(text) = PortMeant(meant)
    BY <1>1, <2>1 DEF WrittenPort, Port, PortMeant
  <2>3. IsPort(port) /\ FitsU16(meant)
    BY <1>1, <2>1 DEF IsPort, FitsU16
  <2> QED
    BY <1>a, <2>2, <2>3, Zenon
<1>2. CASE meant.port # NoPort
  <2>1. /\ Len(port) = 2 /\ port[1] = ":" /\ port[2] \in DOMAIN Decimal
        /\ Decimal[port[2]] = meant.port
    BY <1>2, PortTextIs
  <2>2. port # <<>>
    <3>1. Len(<<>>) = 0
      BY EmptySeq
    <3> QED
      BY <2>1, <3>1, SMTT(60)
  <2>3. WrittenPort(text) = meant.port
    BY <2>1, <2>2 DEF WrittenPort
  <2>4. IsPort(port) <=> FitsU16(meant)
    BY <1>2, <2>1, <2>2 DEF IsPort, FitsU16
  <2>5. Port(text) = PortMeant(meant)
    BY <1>2, <2>3 DEF Port, PortMeant
  <2> QED
    BY <1>a, <2>4, <2>5, Zenon
<1> QED
  BY <1>1, <1>2

\* What parse_target reads is what the client meant, however it spelled it: the
\* host without its trailing dots or brackets, an IPv4 address in four decimal
\* octets, the port or the default of the scheme.  It refuses what is not
\* Acceptable and nothing else.  A number that is no address is refused behind one
\* trailing dot and read as a name behind two (IsHost, HostLabels).
THEOREM ParseReadsWhatIsMeant ==
  ASSUME NEW meant, Spelled(meant)
  PROVE  Parse(Written(meant)) =
            IF Acceptable(meant)
            THEN [scheme |-> meant.scheme, host |-> HostMeant(meant), port |-> PortMeant(meant)]
            ELSE Invalid
<1> DEFINE text == Written(meant)
           Fits == FitsU16(meant)
<1>1. /\ text.scheme = meant.scheme /\ text.userinfo = meant.userinfo
      /\ meant.port \in Nat \cup {NoPort} /\ meant.dots \in Nat
      /\ meant.labels \in Seq(Tokens)
  BY WrittenIs, SpelledTypes
<1>2. HostMeant(meant) # Invalid
  <2>1. HostText(meant) \in Seq(Tokens)
    BY <1>1, DottedIs, HostLabelsAre DEF HostText
  <2>2. Kind(meant) \in {"ipv4", "ipv6", "domain"}
    BY DEF Kind
  <2>3. HostMeant(meant) \in Hosts
    BY <2>1, <2>2 DEF HostMeant, Hosts
  <2> QED
    BY <2>3, TargetAssumption
<1>3. (meant.port # NoPort => meant.port < 65536 /\ meant.port # 0)
      <=> Fits /\ PortMeant(meant) # 0
  BY DEF PortMeant, DefaultPort, FitsU16
<1> DEFINE Reads == [scheme |-> meant.scheme, host |-> HostMeant(meant),
                     port |-> PortMeant(meant)]
           Accepted(host) == WellFormed(text) /\ host # Invalid /\ Port(text) # 0
<1>4. ASSUME NEW host, NEW good \in BOOLEAN,
             ParseHost(UrlHost(HostPart(text.authority))) = host,
             WellFormed(text) => Fits /\ Port(text) = PortMeant(meant),
             WellFormed(text) /\ host # Invalid => good,
             Fits /\ good => WellFormed(text),
             good => host = HostMeant(meant)
      PROVE  Parse(text) = IF /\ meant.scheme \in {"http", "https"}
                              /\ ~meant.userinfo
                              /\ good
                              /\ meant.port # NoPort => meant.port < 65536 /\ meant.port # 0
                           THEN Reads ELSE Invalid
  <2>1. Parse(text) = IF /\ Accepted(host)
                         /\ meant.scheme \in {"http", "https"}
                         /\ ~meant.userinfo
                      THEN [scheme |-> meant.scheme, host |-> host, port |-> Port(text)]
                      ELSE Invalid
    <3> HIDE DEF text
    <3> QED
      BY <1>1, <1>4 DEF Parse
  <2>2. Accepted(host) <=> /\ good
                           /\ meant.port # NoPort => meant.port < 65536 /\ meant.port # 0
    <3> HIDE DEF Fits, text
    <3> QED
      BY <1>2, <1>3, <1>4
  <2>3. Accepted(host) => host = HostMeant(meant) /\ Port(text) = PortMeant(meant)
    BY <1>4
  <2> HIDE DEF Accepted, text
  <2> QED
    BY <2>1, <2>2, <2>3
<1> SUFFICES Parse(text) = IF Acceptable(meant) THEN Reads ELSE Invalid
  OBVIOUS
<1> HIDE DEF text, Reads
<1>5. CASE meant.ipv6
  <2>1. /\ HostPart(text.authority) = Bracketed(meant)
        /\ PortPart(text.authority) = Dots(meant) \o PortText(meant)
    BY <1>5, PartsOfAnAddress DEF text
  <2>2. Bracketed(meant) # <<>> /\ Bracketed(meant) # Invalid
    <3>1. Len(Bracketed(meant)) # 0 /\ Bracketed(meant) \in Seq(Tokens)
      BY <1>1, <1>5, BracketedIs, LenProperties
    <3> QED
      BY <3>1, EmptySeq, TargetAssumption
  <2>3. /\ UrlHost(Bracketed(meant)) = Bracketed(meant)
        /\ ParseHost(Bracketed(meant)) = HostMeant(meant)
    BY <1>5, HostOfAnAddress
  <2>4. CASE meant.dots = 0
    <3>1. PortPart(text.authority) = PortText(meant)
      <4>1. Dots(meant) \in Seq(Tokens) /\ Len(Dots(meant)) = 0 /\ PortText(meant) \in Seq(Tokens)
        BY <2>4, DotsIs, PortTextIs
      <4>2. Dots(meant) = <<>>
        BY <4>1, EmptySeq
      <4> QED
        BY <2>1, <4>1, <4>2, ConcatEmptySeq
    <3>2. (WellFormed(text) <=> Fits) /\ (Fits => Port(text) = PortMeant(meant))
      BY <1>1, <2>1, <2>2, <2>3, <3>1, PortOfWritten
    <3>3. Parse(text) = IF /\ meant.scheme \in {"http", "https"}
                           /\ ~meant.userinfo
                           /\ meant.port # NoPort => meant.port < 65536 /\ meant.port # 0
                        THEN Reads ELSE Invalid
      <4> DEFINE host == HostMeant(meant)
      <4>1. ParseHost(UrlHost(HostPart(text.authority))) = host /\ host # Invalid
        BY <1>2, <2>1, <2>3
      <4> HIDE DEF Fits, host
      <4>2. Parse(text) = IF /\ WellFormed(text)
                             /\ meant.scheme \in {"http", "https"}
                             /\ ~meant.userinfo
                             /\ Port(text) # 0
                          THEN [scheme |-> meant.scheme, host |-> host, port |-> Port(text)]
                          ELSE Invalid
        BY <1>1, <4>1 DEF Parse
      <4>3. WellFormed(text) /\ Port(text) # 0
            <=> (meant.port # NoPort => meant.port < 65536 /\ meant.port # 0)
        BY <1>3, <3>2
      <4>4. WellFormed(text) => Port(text) = PortMeant(meant)
        BY <3>2
      <4> QED
        BY <4>2, <4>3, <4>4 DEF Reads, host
    <3> QED
      BY <1>5, <2>4, <3>3 DEF Acceptable
  <2>5. CASE meant.dots # 0
    <3>1. /\ Dots(meant) \in Seq(Tokens) /\ Len(Dots(meant)) = meant.dots
          /\ Dots(meant)[1] = "." /\ PortText(meant) \in Seq(Tokens)
      BY <1>1, <2>5, DotsIs, PortTextIs
    <3>2. Len(PortText(meant)) \in Nat
      BY <3>1, LenProperties
    <3>3. /\ PortPart(text.authority)[1] = "."
          /\ Len(PortPart(text.authority)) # 0
      BY <1>1, <2>1, <2>5, <3>1, <3>2, ConcatProperties
    <3>4. ~IsPort(PortPart(text.authority))
      BY <3>3, EmptySeq DEF IsPort
    <3>5. ~WellFormed(text)
      BY <3>4 DEF WellFormed
    <3> QED
      BY <1>5, <2>5, <3>5 DEF Parse, Acceptable
  <2> QED
    BY <2>4, <2>5
<1>6. CASE ~meant.ipv6
  <2>1. /\ HostPart(text.authority) = WrittenHost(meant)
        /\ PortPart(text.authority) = PortText(meant)
    BY <1>6, PartsOfAName DEF text
  <2> DEFINE host == UrlHost(WrittenHost(meant))
  <2>2. /\ host # Invalid /\ ParseHost(host) # Invalid <=> IsHost(meant)
        /\ IsHost(meant) => ParseHost(host) = HostMeant(meant)
    BY <1>6, HostRead
  <2>3. IsHost(meant) => WrittenHost(meant) # <<>>
    <3> SUFFICES ASSUME meant.labels # <<>> PROVE WrittenHost(meant) # <<>>
      BY DEF IsHost
    <3>1. Len(WrittenHost(meant)) = Len(Bracketed(meant)) + meant.dots
      BY WrittenHostIs
    <3>2. Bracketed(meant) = Dotted(meant.labels)
      BY <1>6 DEF Bracketed
    <3>3. Len(meant.labels) \in Nat /\ Len(meant.labels) # 0
      BY <1>1, LenProperties, EmptySeq
    <3>4. Len(Bracketed(meant)) = 2 * Len(meant.labels) - 1
      BY <1>1, <3>2, DottedIs
    <3>5. Len(WrittenHost(meant)) # 0
      BY <1>1, <3>1, <3>3, <3>4
    <3> QED
      BY <3>5, EmptySeq
  <2>4. /\ WellFormed(text) <=> WrittenHost(meant) # <<>> /\ host # Invalid /\ Fits
        /\ Fits => Port(text) = PortMeant(meant)
    <3> HIDE DEF text
    <3>1. /\ WellFormed(text) <=> /\ HostPart(text.authority) # <<>>
                                  /\ UrlHost(HostPart(text.authority)) # Invalid
                                  /\ FitsU16(meant)
          /\ FitsU16(meant) => Port(text) = PortMeant(meant)
      BY <1>1, <2>1, PortOfWritten, Zenon
    <3> QED
      BY <2>1, <3>1, Zenon
  <2> DEFINE good == IsHost(meant) = TRUE
  <2>5. /\ WellFormed(text) /\ ParseHost(host) # Invalid => good
        /\ Fits /\ good => WellFormed(text)
        /\ good => ParseHost(host) = HostMeant(meant)
        /\ WellFormed(text) => Fits /\ Port(text) = PortMeant(meant)
        /\ good \in BOOLEAN /\ (good <=> IsHost(meant))
    <3> HIDE DEF Fits, host
    <3> QED
      BY <2>2, <2>3, <2>4
  <2>6. ParseHost(UrlHost(HostPart(text.authority))) = ParseHost(host)
    BY <2>1
  <2> HIDE DEF good, host
  <2>7. Parse(text) = IF /\ meant.scheme \in {"http", "https"}
                         /\ ~meant.userinfo
                         /\ good
                         /\ meant.port # NoPort => meant.port < 65536 /\ meant.port # 0
                      THEN Reads ELSE Invalid
    <3> HIDE DEF Fits
    <3> QED
      BY <1>4, <2>5, <2>6
  <2> QED
    BY <1>6, <2>5, <2>7 DEF Acceptable
<1> QED
  BY <1>1, <1>5, <1>6, SpelledTypes

-----------------------------------------------------------------------------
(* The entries of ALLOW_TARGETS                                            *)

LEMMA SuffixIs ==
  ASSUME NEW s \in Seq(Tokens), NEW k \in 1..Len(s)
  PROVE  /\ SubSeq(s, k, Len(s)) \in Seq(Tokens)
         /\ Len(SubSeq(s, k, Len(s))) = Len(s) - k + 1
         /\ \A i \in 1..Len(s) - k + 1 : SubSeq(s, k, Len(s))[i] = s[k + i - 1]
<1>1. Len(s) \in Nat
  BY LenProperties
<1>2. \A i \in 1..Len(s) : s[i] \in Tokens
  BY ElementOfSeq
<1> DEFINE n == Len(s)
<1>3. k \in Int /\ n \in Int /\ k <= n /\ \A i \in k..n : s[i] \in Tokens
  BY <1>1, <1>2
<1> HIDE DEF n
<1>4. /\ SubSeq(s, k, n) \in Seq(Tokens)
      /\ Len(SubSeq(s, k, n)) = IF k <= n THEN n - k + 1 ELSE 0
      /\ \A i \in 1..n - k + 1 : SubSeq(s, k, n)[i] = s[k + i - 1]
  BY <1>3, SubSeqProperties
<1>5. Len(SubSeq(s, k, n)) = n - k + 1
  BY <1>3, <1>4
<1> QED
  BY <1>4, <1>5 DEF n

\* A dot before the text of an entry.
LEMMA DotBefore ==
  ASSUME NEW s \in Seq(Tokens)
  PROVE  /\ <<".">> \o s \in Seq(Tokens)
         /\ Len(<<".">> \o s) = 1 + Len(s)
         /\ (<<".">> \o s)[1] = "."
         /\ \A i \in 1..Len(s) : (<<".">> \o s)[i + 1] = s[i]
<1> DEFINE d == <<".">>
<1>1. d \in Seq(Tokens) /\ Len(d) = 1 /\ d[1] = "."
  BY DEF Tokens, Punctuation
<1>2. Len(s) \in Nat
  BY LenProperties
<1> HIDE DEF d
<1>a. /\ d \o s \in Seq(Tokens)
      /\ Len(d \o s) = Len(d) + Len(s)
      /\ \A i \in 1..Len(d) + Len(s) : (d \o s)[i] = IF i <= Len(d) THEN d[i] ELSE s[i - Len(d)]
  BY <1>1, ConcatProperties
<1>3. /\ d \o s \in Seq(Tokens)
      /\ Len(d \o s) = 1 + Len(s)
      /\ \A i \in 1..1 + Len(s) : (d \o s)[i] = IF i <= 1 THEN d[i] ELSE s[i - 1]
  BY <1>1, <1>a
<1>4. (d \o s)[1] = "."
  BY <1>1, <1>2, <1>3
<1>5. \A i \in 1..Len(s) : (d \o s)[i + 1] = s[i]
  <2> TAKE i \in 1..Len(s)
  <2> DEFINE j == i + 1
  <2>1. j \in 1..1 + Len(s) /\ ~(j <= 1) /\ j - 1 = i
    BY <1>2
  <2> HIDE DEF j
  <2>2. (d \o s)[j] = s[j - 1]
    BY <1>3, <2>1
  <2> QED
    BY <2>1, <2>2 DEF j
<1> QED
  BY <1>3, <1>4, <1>5 DEF d

LEMMA DottedInjective ==
  ASSUME NEW a \in Seq(Tokens), NEW b \in Seq(Tokens), Dotted(a) = Dotted(b)
  PROVE  a = b
<1>1. /\ Len(a) \in Nat /\ Len(b) \in Nat
      /\ (a = <<>> <=> Len(a) = 0) /\ (b = <<>> <=> Len(b) = 0)
  BY LenProperties, EmptySeq
<1>2. /\ Len(Dotted(a)) = IF a = <<>> THEN 0 ELSE 2 * Len(a) - 1
      /\ Len(Dotted(b)) = IF b = <<>> THEN 0 ELSE 2 * Len(b) - 1
  BY DottedIs
<1>3. Len(a) = Len(b)
  BY <1>1, <1>2
<1>4. /\ \A k \in 1..Len(a) : Dotted(a)[2 * k - 1] = a[k]
      /\ \A k \in 1..Len(b) : Dotted(b)[2 * k - 1] = b[k]
  BY DottedIs
<1>5. \A k \in 1..Len(a) : a[k] = b[k]
  BY <1>3, <1>4
<1> QED
  BY <1>3, <1>5, SeqEqual

\* The labels at the end of a name are the text at the end of its text.
LEMMA DottedSuffix ==
  ASSUME NEW L \in Seq(Tokens), NEW E \in Seq(Tokens), L # <<>>, E # <<>>,
         NEW k \in 1..Len(Dotted(L))
  PROVE  SubSeq(Dotted(L), k, Len(Dotted(L))) = <<".">> \o Dotted(E)
         <=> /\ k = 2 * (Len(L) - Len(E))
             /\ E = SubSeq(L, Len(L) - Len(E) + 1, Len(L))
<1> DEFINE n == Len(L)
           m == Len(E)
           l == Dotted(L)
           e == Dotted(E)
           host == SubSeq(l, k, Len(l))
           entry == <<".">> \o e
<1>1. n \in Nat \ {0} /\ m \in Nat \ {0}
  BY EmptySeq
<1>2. /\ l \in Seq(Tokens) /\ Len(l) = 2 * n - 1
      /\ \A j \in 1..n : l[2 * j - 1] = L[j]
      /\ \A j \in 1..n - 1 : l[2 * j] = "."
  BY DottedIs
<1>3. /\ e \in Seq(Tokens) /\ Len(e) = 2 * m - 1
      /\ \A j \in 1..m : e[2 * j - 1] = E[j]
      /\ \A j \in 1..m - 1 : e[2 * j] = "."
  BY DottedIs
<1> HIDE DEF l, e
<1>4. /\ host \in Seq(Tokens) /\ Len(host) = Len(l) - k + 1
      /\ \A i \in 1..Len(l) - k + 1 : host[i] = l[k + i - 1]
  BY <1>2, SuffixIs DEF l
<1>5. /\ entry \in Seq(Tokens) /\ Len(entry) = 1 + Len(e)
      /\ entry[1] = "."
      /\ \A i \in 1..Len(e) : entry[i + 1] = e[i]
  BY <1>3, DotBefore
<1>6. k \in 1..2 * n - 1
  BY <1>2 DEF l
<1> HIDE DEF host, entry, n, m
<1>7. ASSUME host = entry
      PROVE  k = 2 * (n - m) /\ E = SubSeq(L, n - m + 1, n)
  <2>1. Len(host) = 2 * n - k /\ Len(entry) = 2 * m
    BY <1>1, <1>2, <1>3, <1>4, <1>5, <1>6
  <2>2. k = 2 * (n - m)
    BY <1>1, <1>6, <1>7, <2>1
  <2> DEFINE p == n - m + 1
  <2>3. p \in 1..n /\ n - p + 1 = m
    BY <1>1, <1>6, <2>2
  <2>4. /\ SubSeq(L, p, n) \in Seq(Tokens) /\ Len(SubSeq(L, p, n)) = m
        /\ \A i \in 1..m : SubSeq(L, p, n)[i] = L[p + i - 1]
    <3> HIDE DEF p
    <3> QED
      BY <2>3, SuffixIs DEF n
  <2>5. \A j \in 1..m : E[j] = SubSeq(L, p, n)[j]
    <3> TAKE j \in 1..m
    <3>1. E[j] = e[2 * j - 1] /\ e[2 * j - 1] = entry[2 * j - 1 + 1]
      BY <1>1, <1>3, <1>5
    <3>2. entry[2 * j] = l[k + 2 * j - 1]
      BY <1>1, <1>2, <1>4, <1>7, <2>1, <2>2
    <3>3. n - m + j \in 1..n /\ k + 2 * j - 1 = 2 * (n - m + j) - 1
      BY <1>1, <1>6, <2>2
    <3>4. l[k + 2 * j - 1] = L[n - m + j]
      BY <1>2, <3>3
    <3>5. p + j - 1 = n - m + j /\ 2 * j - 1 + 1 = 2 * j
      BY <1>1
    <3> QED
      BY <2>4, <3>1, <3>2, <3>4, <3>5
  <2> HIDE DEF p
  <2>6. E = SubSeq(L, p, n)
    BY <2>4, <2>5, SeqEqual DEF m
  <2> QED
    BY <2>2, <2>6 DEF p
<1>8. ASSUME k = 2 * (n - m), E = SubSeq(L, n - m + 1, n)
      PROVE  host = entry
  <2>1. Len(host) = 2 * m /\ Len(entry) = 2 * m /\ n - m \in 1..n - 1
    BY <1>1, <1>2, <1>3, <1>4, <1>5, <1>6, <1>8
  <2>2. \A j \in 1..m : E[j] = L[n - m + j]
    <3> DEFINE p == n - m + 1
    <3>1. p \in 1..n /\ n - p + 1 = m
      BY <1>1, <2>1
    <3> HIDE DEF p
    <3>2. \A i \in 1..m : SubSeq(L, p, n)[i] = L[p + i - 1]
      BY <3>1, SuffixIs DEF n
    <3>3. \A i \in 1..m : p + i - 1 = n - m + i
      BY <1>1 DEF p
    <3>4. E = SubSeq(L, p, n)
      BY <1>8 DEF p
    <3> QED
      BY <3>2, <3>3, <3>4
  <2>3. \A j \in 1..m : host[2 * j] = entry[2 * j]
    <3> TAKE j \in 1..m
    <3>1. host[2 * j] = l[k + 2 * j - 1]
      BY <1>1, <1>2, <1>4, <2>1, SMTT(60)
    <3>2. n - m + j \in 1..n /\ k + 2 * j - 1 = 2 * (n - m + j) - 1
      BY <1>1, <1>8, <2>1
    <3>3. l[k + 2 * j - 1] = L[n - m + j]
      BY <1>2, <3>2
    <3>4. entry[2 * j - 1 + 1] = e[2 * j - 1] /\ e[2 * j - 1] = E[j] /\ 2 * j - 1 + 1 = 2 * j
      BY <1>1, <1>3, <1>5
    <3> QED
      BY <2>2, <3>1, <3>3, <3>4
  <2>4. \A j \in 0..m - 1 : host[2 * j + 1] = "."
    <3> TAKE j \in 0..m - 1
    <3>1. host[2 * j + 1] = l[k + 2 * j + 1 - 1]
      BY <1>1, <1>2, <1>4, <2>1, SMTT(60)
    <3>2. n - m + j \in 1..n - 1 /\ k + 2 * j + 1 - 1 = 2 * (n - m + j)
      BY <1>1, <1>8, <2>1
    <3> QED
      BY <1>2, <3>1, <3>2
  <2>5. \A j \in 0..m - 1 : entry[2 * j + 1] = "."
    <3> TAKE j \in 0..m - 1
    <3>1. CASE j = 0
      BY <1>5, <3>1
    <3>2. CASE j # 0
      <4>1. 2 * j \in 1..Len(e) /\ j \in 1..m - 1
        BY <1>1, <1>3, <3>2
      <4> QED
        BY <1>3, <1>5, <4>1
    <3> QED
      BY <3>1, <3>2
  <2>6. \A i \in 1..2 * m : host[i] = entry[i]
    <3> TAKE i \in 1..2 * m
    <3>1. PICK j \in Int : i = 2 * j \/ i = 2 * j + 1
      <4>1. i = 2 * (i \div 2) \/ i = 2 * (i \div 2) + 1
        OBVIOUS
      <4> QED
        BY <1>1, <4>1
    <3>2. CASE i = 2 * j
      <4>1. j \in 1..m
        BY <1>1, <3>2
      <4> QED
        BY <2>3, <3>2, <4>1
    <3>3. CASE i = 2 * j + 1
      <4>1. j \in 0..m - 1
        BY <1>1, <3>3
      <4> QED
        BY <2>4, <2>5, <3>3, <4>1
    <3> QED
      BY <3>1, <3>2, <3>3
  <2> QED
    BY <1>4, <1>5, <2>1, <2>6, SeqEqual
<1> QED
  BY <1>7, <1>8 DEF host, entry, n, m, l, e

\* An allowlist entry without colons never matches an IPv6 address.
LEMMA AddressesAreNotNamed ==
  ASSUME NEW entry, IsEntry(entry), NEW meant, Spelled(meant), meant.ipv6
  PROVE  ~Matches(entry, HostText(meant))
<1> DEFINE l == meant.labels
           e == Dotted(entry.labels)
<1>1. HostText(meant) = l /\ l \in Seq(Tokens) /\ Len(l) \in Nat
  BY SpelledTypes, LenProperties DEF HostText
<1>2. (\E k \in 1..Len(l) : l[k] = ":") /\ (\A k \in 1..Len(l) : l[k] # ".")
  BY DEF Spelled
<1>3. entry.labels \in Seq(Tokens) /\ \A k \in 1..Len(entry.labels) : entry.labels[k] # ":"
  BY LabelsAre DEF IsEntry
<1>4. /\ e \in Seq(Tokens)
      /\ Len(e) = IF entry.labels = <<>> THEN 0 ELSE 2 * Len(entry.labels) - 1
      /\ \A i \in 1..2 * Len(entry.labels) - 1 :
            e[i] = "." \/ \E k \in 1..Len(entry.labels) : e[i] = entry.labels[k]
  BY <1>3, DottedIs
<1>5. l # e
  <2> SUFFICES ASSUME l = e PROVE FALSE
    OBVIOUS
  <2>1. PICK k \in 1..Len(l) : l[k] = ":"
    BY <1>2
  <2>2. k \in 1..2 * Len(entry.labels) - 1
    BY <1>1, <1>4, <2>1
  <2>3. e[k] # ":"
    BY <1>3, <1>4, <2>2
  <2> QED
    BY <2>1, <2>3
<1> HIDE DEF l, e
<1>6. ASSUME NEW k \in 1..Len(l) PROVE SubSeq(l, k, Len(l)) # <<".">> \o e
  <2>1. SubSeq(l, k, Len(l))[1] = l[k]
    <3>1. 1 \in 1..Len(l) - k + 1 /\ k + 1 - 1 = k
      BY <1>1
    <3>2. \A i \in 1..Len(l) - k + 1 : SubSeq(l, k, Len(l))[i] = l[k + i - 1]
      BY <1>1, SuffixIs
    <3> QED
      BY <3>1, <3>2
  <2>2. (<<".">> \o e)[1] = "."
    BY <1>4, DotBefore
  <2> QED
    BY <1>2, <2>1, <2>2
<1> QED
  BY <1>1, <1>5, <1>6 DEF Matches, e

LEMMA NamesOfHosts ==
  ASSUME NEW entry, IsEntry(entry), NEW meant, Spelled(meant), ~meant.ipv6, meant.labels # <<>>
  PROVE  Matches(entry, HostText(meant)) <=> Names(entry, meant)
<1> DEFINE L == HostLabels(meant)
           E == entry.labels
           n == Len(L)
           m == Len(E)
<1>1. /\ HostText(meant) = Dotted(L) /\ L \in Seq(Tokens) /\ E \in Seq(Tokens)
      /\ n \in Nat /\ m \in Nat /\ n # 0 /\ L # <<>> /\ (E = <<>> <=> m = 0)
  BY HostLabelsAre, LenProperties, EmptySeq DEF HostText, IsEntry
<1>2. Len(Dotted(L)) = 2 * n - 1 /\ Dotted(L) \in Seq(Tokens)
  BY <1>1, DottedIs
<1>3. CASE E = <<>>
  <2>1. Dotted(E) = <<>> /\ Len(Dotted(E)) = 0
    BY <1>1, <1>3, DottedIs, EmptySeq
  <2>2. Dotted(L) # Dotted(E)
    BY <1>1, <1>2, <2>1
  <2>3. ASSUME NEW k \in 1..Len(Dotted(L)),
               SubSeq(Dotted(L), k, Len(Dotted(L))) = <<".">> \o Dotted(E)
        PROVE  FALSE
    <3> DEFINE l == Dotted(L)
               host == SubSeq(l, k, Len(l))
               last == <<".">> \o Dotted(E)
    <3>1. /\ Len(host) = Len(l) - k + 1
          /\ \A i \in 1..Len(l) - k + 1 : host[i] = l[k + i - 1]
      BY <1>2, SuffixIs
    <3>2. Len(last) = 1 + Len(Dotted(E)) /\ last[1] = "."
      BY <1>1, DottedIs, DotBefore
    <3>3. k = 2 * n - 1
      <4> HIDE DEF host, last, n
      <4>1. Len(l) - k + 1 = 1
        BY <2>1, <2>3, <3>1, <3>2 DEF host, last
      <4> HIDE DEF l
      <4>2. k \in Int
        BY <1>1, <1>2 DEF l
      <4> QED
        BY <1>1, <1>2, <4>1, <4>2 DEF l
    <3>4. l[2 * n - 1] = L[n]
      <4>1. \A j \in 1..n : l[2 * j - 1] = L[j]
        BY <1>1, DottedIs
      <4>2. n \in 1..n
        BY <1>1
      <4> QED
        BY <4>1, <4>2
    <3>5. host[1] = l[k]
      BY <1>1, <1>2, <3>1, <3>3
    <3>6. L[n] # "."
      <4>1. n \in 1..n
        BY <1>1
      <4>2. \A j \in 1..n : L[j] \in Labels
        BY HostLabelsAre
      <4> HIDE DEF n, L
      <4> QED
        BY <4>1, <4>2, LabelsAre
    <3> QED
      BY <2>3, <3>2, <3>3, <3>4, <3>5, <3>6
  <2>4. ~Matches(entry, Dotted(L))
    BY <2>2, <2>3 DEF Matches
  <2>5. ~Names(entry, meant)
    BY <1>3 DEF Names
  <2> QED
    BY <1>1, <2>4, <2>5
<1>4. CASE E # <<>>
  <2>1. Dotted(L) = Dotted(E) <=> n - m = 0 /\ E = SubSeq(L, n - m + 1, n)
    <3>1. ASSUME Dotted(L) = Dotted(E) PROVE n - m = 0 /\ E = SubSeq(L, n - m + 1, n)
      <4>1. L = E
        BY <1>1, <3>1, DottedInjective
      <4>2. n - m = 0 /\ n - m + 1 = 1
        BY <1>1, <4>1
      <4>3. SubSeq(L, 1, n) = L
        BY <1>1, SubSeqFull
      <4> QED
        BY <4>1, <4>2, <4>3
    <3>2. ASSUME n - m = 0, E = SubSeq(L, n - m + 1, n) PROVE Dotted(L) = Dotted(E)
      <4>1. n - m + 1 = 1
        BY <3>2
      <4>2. SubSeq(L, 1, n) = L
        BY <1>1, SubSeqFull
      <4> QED
        BY <3>2, <4>1, <4>2
    <3> QED
      BY <3>1, <3>2
  <2>2. (\E k \in 1..Len(Dotted(L)) :
            SubSeq(Dotted(L), k, Len(Dotted(L))) = <<".">> \o Dotted(E))
        <=> n - m > 0 /\ E = SubSeq(L, n - m + 1, n)
    <3>1. \A k \in 1..Len(Dotted(L)) :
            SubSeq(Dotted(L), k, Len(Dotted(L))) = <<".">> \o Dotted(E)
            <=> k = 2 * (n - m) /\ E = SubSeq(L, n - m + 1, n)
      BY <1>1, <1>4, DottedSuffix
    <3>2. n \in Nat /\ m \in Nat /\ m # 0 /\ Len(Dotted(L)) = 2 * n - 1
      BY <1>1, <1>2, <1>4
    <3>3. (\A k \in 1..Len(Dotted(L)) : k = 2 * (n - m) => n - m > 0)
          /\ (n - m > 0 => 2 * (n - m) \in 1..Len(Dotted(L)))
      <4> HIDE DEF n, m, L
      <4>1. \A k \in 1..2 * n - 1 : k = 2 * (n - m) => n - m > 0
        BY <3>2
      <4>2. n - m > 0 => 2 * (n - m) \in 1..2 * n - 1
        BY <3>2
      <4> QED
        BY <3>2, <4>1, <4>2
    <3> QED
      BY <3>1, <3>3
  <2>3. Matches(entry, Dotted(L)) <=> \/ Dotted(L) = Dotted(E)
                                      \/ /\ entry.suffix
                                         /\ n - m > 0 /\ E = SubSeq(L, n - m + 1, n)
    BY <2>2 DEF Matches
  <2>4. Names(entry, meant) <=> /\ n - m = 0 \/ (n - m > 0 /\ entry.suffix)
                                /\ E = SubSeq(L, n - m + 1, n)
    BY <1>4 DEF Names
  <2> QED
    BY <1>1, <2>1, <2>3, <2>4
<1> QED
  BY <1>3, <1>4

\* The allowlist compares texts, and means what the operator meant: the host
\* itself, or with a dot in front every host below it, never one whose name
\* merely ends with the same letters.
THEOREM MatchesWhatIsNamed ==
  ASSUME NEW entry, IsEntry(entry), NEW meant, Spelled(meant), Acceptable(meant)
  PROVE  Matches(entry, HostText(meant)) <=> Names(entry, meant)
<1>1. CASE meant.ipv6
  BY <1>1, AddressesAreNotNamed DEF Names
<1>2. CASE ~meant.ipv6
  BY <1>2, NamesOfHosts DEF Acceptable, IsHost
<1> QED
  BY <1>1, <1>2

-----------------------------------------------------------------------------
(* A target in writing again                                               *)

Meaning(meant) ==
    [scheme |-> meant.scheme, host |-> HostMeant(meant), port |-> PortMeant(meant)]

LEMMA PlainlyIs ==
  ASSUME NEW meant, Spelled(meant), Acceptable(meant)
  PROVE  LET plain == Plainly(meant)
         IN  /\ Spelled(plain)
             /\ plain.scheme = meant.scheme /\ plain.userinfo = FALSE
             /\ plain.ipv6 = meant.ipv6 /\ plain.labels = HostLabels(meant) /\ plain.dots = 0
             /\ plain.port = IF meant.port = DefaultPort(meant.scheme) THEN NoPort
                                                                       ELSE meant.port
<1> DEFINE plain == Plainly(meant)
           L == HostLabels(meant)
           R == [scheme : STRING, userinfo : BOOLEAN, ipv6 : BOOLEAN,
                 labels : Seq(Tokens), dots : Nat, port : Nat \cup {NoPort}]
<1>1. meant \in R
  BY DEF Spelled
<1>2. /\ L \in Seq(Tokens)
      /\ IF meant.ipv6
         THEN /\ \E k \in 1..Len(L) : L[k] = ":"
              /\ \A k \in 1..Len(L) : L[k] \notin {".", "[", "]"}
         ELSE \A k \in 1..Len(L) : L[k] \in Labels
  <2>1. CASE meant.ipv6
    <3>1. L = meant.labels
      BY <2>1 DEF HostLabels
    <3> QED
      BY <2>1, <3>1, SpelledTypes DEF Spelled
  <2>2. CASE ~meant.ipv6
    BY <2>2, HostLabelsAre
  <2> QED
    BY <2>1, <2>2
<1> HIDE DEF L
<1>3. /\ plain \in R
      /\ plain.scheme = meant.scheme /\ plain.userinfo = meant.userinfo
      /\ plain.ipv6 = meant.ipv6 /\ plain.labels = L /\ plain.dots = 0
      /\ plain.port = IF meant.port = DefaultPort(meant.scheme) THEN NoPort ELSE meant.port
  BY <1>1, <1>2 DEF Plainly, L
<1>4. plain.userinfo = FALSE
  <2>1. meant.userinfo \in BOOLEAN /\ ~meant.userinfo
    BY <1>1 DEF Acceptable
  <2> QED
    BY <1>3, <2>1
<1> HIDE DEF plain
<1>5. plain.port # NoPort => plain.port \in DOMAIN Numeral
  BY <1>3 DEF Spelled
<1>6. Spelled(plain)
  BY <1>2, <1>3, <1>5 DEF Spelled
<1> QED
  BY <1>3, <1>4, <1>6 DEF plain, L

\* Unless it hides a number, a host is the same without its trailing dots.
LEMMA HostOfPlain ==
  ASSUME NEW meant, Spelled(meant), Acceptable(meant), ~HiddenNumber(meant)
  PROVE  /\ Acceptable(Plainly(meant))
         /\ HostLabels(Plainly(meant)) = HostLabels(meant)
<1> DEFINE plain == Plainly(meant)
           L == HostLabels(meant)
           d == Dotted(meant.labels)
<1>1. /\ plain.scheme = meant.scheme /\ plain.userinfo = FALSE
      /\ plain.ipv6 = meant.ipv6 /\ plain.labels = L /\ plain.dots = 0
      /\ plain.port = IF meant.port = DefaultPort(meant.scheme) THEN NoPort ELSE meant.port
  BY PlainlyIs
<1>2. meant.labels \in Seq(Tokens) /\ d \in Seq(Tokens) /\ meant.dots \in Nat
  BY SpelledTypes, DottedIs
<1>3. HostLabels(plain) = IF ~meant.ipv6 /\ IsAddress(Dotted(L)) THEN Octets(Dotted(L)) ELSE L
  <2> HIDE DEF plain, L
  <2> QED
    BY <1>1 DEF HostLabels
<1>4. L = IF ~meant.ipv6 /\ meant.dots <= 1 /\ IsAddress(d) THEN Octets(d) ELSE meant.labels
  BY DEF HostLabels
<1> HIDE DEF plain, L, d
<1>5. HostLabels(plain) = L /\ (~meant.ipv6 => IsHost(plain))
  <2>1. CASE meant.ipv6
    BY <1>3, <2>1
  <2>2. CASE ~meant.ipv6 /\ meant.dots <= 1 /\ IsAddress(d)
    <3>1. L = Octets(d)
      BY <1>4, <2>2
    <3>2. IsAddress(Dotted(L)) /\ Octets(Dotted(L)) = L
      BY <2>2, <3>1, OctetsReadBack
    <3>3. L # <<>>
      BY <2>2, <3>1, OctetsAre, EmptySeq
    <3> QED
      BY <1>1, <1>3, <3>2, <3>3 DEF IsHost
  <2>3. CASE ~meant.ipv6 /\ ~(meant.dots <= 1 /\ IsAddress(d))
    <3>1. L = meant.labels /\ Dotted(L) = d /\ meant.labels # <<>>
      BY <1>4, <2>3 DEF d, Acceptable, IsHost
    <3>2. CASE IsIpv4(d)
      <4>1. IsAddress(d) /\ Octets(d) = meant.labels
        BY <1>2, <3>2, OctetsOfIpv4 DEF d
      <4> QED
        BY <1>1, <1>3, <3>1, <4>1 DEF IsHost
    <3>3. CASE ~IsIpv4(d)
      <4>1. ~EndsInNumber(d)
        <5>1. CASE meant.dots <= 1
          BY <2>3, <5>1 DEF Acceptable, IsHost, d
        <5>2. CASE ~(meant.dots <= 1)
          <6>1. meant.dots > 1
            BY <1>2, <5>2
          <6> QED
            BY <2>3, <3>3, <6>1 DEF HiddenNumber, d
        <5> QED
          BY <5>1, <5>2
      <4>2. ~IsAddress(d)
        BY <1>2, <4>1, AddressEndsInNumber
      <4> QED
        BY <1>1, <1>3, <3>1, <4>1, <4>2 DEF IsHost
    <3> QED
      BY <3>2, <3>3
  <2> QED
    BY <2>1, <2>2, <2>3
<1>6. Acceptable(plain)
  BY <1>1, <1>5 DEF Acceptable
<1> QED
  BY <1>5, <1>6 DEF plain, L

LEMMA MeaningOfPlain ==
  ASSUME NEW meant, Spelled(meant), Acceptable(meant), ~HiddenNumber(meant)
  PROVE  Meaning(Plainly(meant)) = Meaning(meant)
<1> DEFINE plain == Plainly(meant)
<1>1. /\ plain.scheme = meant.scheme /\ plain.ipv6 = meant.ipv6
      /\ plain.labels = HostLabels(meant)
      /\ plain.port = IF meant.port = DefaultPort(meant.scheme) THEN NoPort ELSE meant.port
      /\ HostLabels(plain) = HostLabels(meant)
  BY PlainlyIs, HostOfPlain
<1> HIDE DEF plain
<1>2. HostMeant(plain) = HostMeant(meant)
  <2>1. meant.ipv6 => HostLabels(meant) = meant.labels
    BY DEF HostLabels
  <2> QED
    BY <1>1, <2>1 DEF HostMeant, Kind, HostText
<1>3. PortMeant(plain) = PortMeant(meant)
  BY <1>1 DEF PortMeant
<1> QED
  BY <1>1, <1>2, <1>3 DEF Meaning, plain

\* full_url writes the plain spelling of what was meant.
LEMMA FullUrlIsPlain ==
  ASSUME NEW meant, Spelled(meant), Acceptable(meant)
  PROVE  FullUrl(Meaning(meant)) = Written(Plainly(meant))
<1> DEFINE plain == Plainly(meant)
           t == Meaning(meant)
           default == DefaultPort(meant.scheme)
<1>1. /\ Spelled(plain)
      /\ plain.scheme = meant.scheme /\ plain.userinfo = FALSE
      /\ plain.ipv6 = meant.ipv6 /\ plain.labels = HostLabels(meant) /\ plain.dots = 0
      /\ plain.port = IF meant.port = default THEN NoPort ELSE meant.port
  BY PlainlyIs
<1>2. /\ t.scheme = meant.scheme /\ t.port = PortMeant(meant)
      /\ t.host.text = HostText(meant) /\ t.host.kind = Kind(meant)
  BY DEF Meaning, HostMeant
<1> HIDE DEF plain, t
<1>3. (IF t.host.kind = "ipv6" THEN <<"[">> \o t.host.text \o <<"]">> ELSE t.host.text)
      = WrittenHost(plain)
  <2>1. Kind(meant) = "ipv6" <=> meant.ipv6
    BY DEF Kind
  <2>2. (IF t.host.kind = "ipv6" THEN <<"[">> \o t.host.text \o <<"]">> ELSE t.host.text)
        = Bracketed(plain)
    BY <1>1, <1>2, <2>1 DEF Bracketed, HostText, HostLabels
  <2>3. WrittenHost(plain) = Bracketed(plain)
    <3>1. Bracketed(plain) \in Seq(Tokens) /\ Dots(plain) \in Seq(Tokens) /\ Len(Dots(plain)) = 0
      BY <1>1, WrittenHostIs, DotsIs
    <3>2. Dots(plain) = <<>>
      BY <3>1, EmptySeq
    <3> QED
      BY <3>1, <3>2, ConcatEmptySeq DEF WrittenHost
  <2> QED
    BY <2>2, <2>3
<1>4. (IF t.port = DefaultPort(t.scheme) THEN <<>> ELSE <<":", Numeral[t.port]>>)
      = PortText(plain)
  <2>1. default # NoPort
    <3>1. NoPort \notin Ports
      BY NumeralAssumption
    <3>2. default \in Ports
      BY DEF DefaultPort, Ports, MaxPort
    <3> QED
      BY <3>1, <3>2
  <2>2. t.port = default <=> plain.port = NoPort
    BY <1>1, <1>2, <2>1 DEF PortMeant
  <2>3. plain.port # NoPort => t.port = plain.port
    BY <1>1, <1>2 DEF PortMeant
  <2> QED
    BY <1>2, <2>2, <2>3 DEF PortText
<1>5. Authority(t) = WrittenHost(plain) \o PortText(plain)
  BY <1>3, <1>4 DEF Authority
<1>6. Written(plain) = [scheme |-> plain.scheme, userinfo |-> plain.userinfo,
                        authority |-> WrittenHost(plain) \o PortText(plain)]
  BY DEF Written, WrittenHost, Bracketed, PortText, Dots
<1> QED
  BY <1>1, <1>2, <1>5, <1>6 DEF FullUrl, plain, t

\* full_url and parse_target agree on every target that can be meant and that
\* hides no number behind trailing dots: what is sent upstream and logged is
\* read back as what was judged, and two spellings of one server, trailing dots
\* and notations of an IPv4 address among them, are written alike.
THEOREM FullUrlReadsBack ==
  ASSUME NEW meant, Spelled(meant), Acceptable(meant), ~HiddenNumber(meant)
  PROVE  /\ FullUrl(Meaning(meant)) = Written(Plainly(meant))
         /\ Parse(FullUrl(Meaning(meant))) = Meaning(meant)
<1> DEFINE plain == Plainly(meant)
<1>1. FullUrl(Meaning(meant)) = Written(plain)
  BY FullUrlIsPlain
<1>2. Spelled(plain) /\ Acceptable(plain)
  BY PlainlyIs, HostOfPlain
<1>3. Parse(Written(plain)) = Meaning(plain)
  BY <1>2, ParseReadsWhatIsMeant DEF Meaning
<1>4. Meaning(plain) = Meaning(meant)
  BY MeaningOfPlain
<1> QED
  BY <1>1, <1>3, <1>4

-----------------------------------------------------------------------------
(* The server                                                              *)

\* A server that serves has read its environment as it was written, and passed
\* the gate.
ServerInv ==
    /\ env \in Environments
    /\ stage \in {"gate", "deny", "roots", "bind", "serving"} => config = FromEnv /\ ~EnvInvalid
    /\ stage \in {"deny", "roots", "bind", "serving"} => ~ShouldGateStartup
    /\ check # "idle" => stage = "serving"

LEMMA InitServer == Init => ServerInv
BY DEF Init, StartupInit, ServerInv

LEMMA EnvironmentStays ==
  ASSUME UNCHANGED env
  PROVE  /\ FromEnv' = FromEnv
         /\ EnvInvalid' <=> EnvInvalid
         /\ UNCHANGED config => (ShouldGateStartup' <=> ShouldGateStartup)
BY Zenon DEF FromEnv, EnvInvalid, ShouldGateStartup, EnvList, EnvStr

LEMMA NextServer == ServerInv /\ [Next]_vars => ServerInv'
<1> SUFFICES ASSUME ServerInv, [Next]_vars PROVE ServerInv'
  OBVIOUS
<1>1. UNCHANGED env
  BY DEF Next, vars, startup, Start, Load, LoadFails, Gate, LoadDenyCidrs, LoadRoots, Bind,
     Handle, Arrive, CheckSize, CheckPath, CheckToken, CheckOrigin, CheckMethod,
     AnswerPreflight, ParseTarget, CheckAllowlist, CheckRate, CheckEgress, GoOn, Return
<1>2. /\ FromEnv' = FromEnv
      /\ EnvInvalid' <=> EnvInvalid
      /\ UNCHANGED config => (ShouldGateStartup' <=> ShouldGateStartup)
  BY <1>1, EnvironmentStays
<1>3. CASE UNCHANGED startup
  <2>1. UNCHANGED <<stage, config>>
    BY <1>3 DEF startup
  <2>2. check' # "idle" => stage = "serving"
    BY <1>3 DEF ServerInv, Next, vars, startup, screening, Handle, Arrive, CheckSize, CheckPath,
       CheckToken, CheckOrigin, CheckMethod, AnswerPreflight, ParseTarget, CheckAllowlist,
       CheckRate, CheckEgress, At
  <2> QED
    BY <1>1, <1>2, <2>1, <2>2 DEF ServerInv
<1>4. CASE Start /\ UNCHANGED screening
  <2>1. check = "idle" /\ check' = "idle"
    BY <1>4 DEF ServerInv, screening, Start, Load, LoadFails, Gate, LoadDenyCidrs, LoadRoots, Bind
  <2>2. CASE Load
    BY <1>1, <1>2, <2>1, <2>2 DEF ServerInv, Load
  <2>3. CASE LoadFails
    BY <1>1, <2>1, <2>3 DEF ServerInv, LoadFails
  <2>4. CASE Gate
    BY <1>1, <1>2, <2>1, <2>4 DEF ServerInv, Gate
  <2>5. CASE LoadDenyCidrs \/ LoadRoots \/ Bind
    BY <1>1, <1>2, <2>1, <2>5 DEF ServerInv, LoadDenyCidrs, LoadRoots, Bind
  <2> QED
    BY <1>4, <2>2, <2>3, <2>4, <2>5 DEF Start
<1>5. CASE Handle
  BY <1>3, <1>5 DEF Handle, Arrive, CheckSize, CheckPath, CheckToken, CheckOrigin, CheckMethod,
     AnswerPreflight, ParseTarget, CheckAllowlist, CheckRate, CheckEgress, GoOn, Return
<1> QED
  BY <1>3, <1>4, <1>5 DEF Next, vars

\* env_ports accepts no port that a URL could not name.
LEMMA ValidPortsArePorts ==
  ASSUME NEW p, p \in ValidPorts
  PROVE  p \in Ports
<1>1. U16Max = MaxPort /\ MaxPort \in Nat
  BY SMT DEF U16Max, MaxPort
<1> QED
  BY <1>1, SMT DEF ValidPorts, Ports

LEMMA PortFits ==
  ASSUME NEW p \in Nat, p < 65536, p # 0
  PROVE  p \in ValidPorts
<1>1. U16Max \in Nat /\ p < U16Max + 1
  BY SMT DEF U16Max
<1> QED
  BY <1>1, SMT DEF ValidPorts

\* The port of a target fits 16 bits and is not zero.
LEMMA PortsOfTargets ==
  ASSUME NEW meant, Spelled(meant), Parse(Written(meant)) # Invalid
  PROVE  Parse(Written(meant)).port \in ValidPorts
<1>1. Acceptable(meant) /\ Parse(Written(meant)).port = PortMeant(meant)
  BY ParseReadsWhatIsMeant
<1>2. meant.port \in Nat \cup {NoPort}
  BY SpelledTypes
<1>3. CASE meant.port = NoPort
  <2>1. 443 \in ValidPorts /\ 80 \in ValidPorts
    BY PortFits, SMT
  <2>2. PortMeant(meant) \in {443, 80}
    BY <1>3 DEF PortMeant, DefaultPort
  <2> QED
    BY <1>1, <2>1, <2>2
<1>4. CASE meant.port # NoPort
  <2>1. meant.port \in Nat /\ meant.port < 65536 /\ meant.port # 0
    BY <1>1, <1>2, <1>4 DEF Acceptable
  <2>2. meant.port \in ValidPorts
    BY <2>1, PortFits
  <2> QED
    BY <1>1, <1>4, <2>2 DEF PortMeant
<1> QED
  BY <1>3, <1>4

\* What env_list returns is what the operator wrote as text.
LEMMA ListIs ==
  ASSUME NEW list
  PROVE  /\ \A item : item \in EnvList(list) <=> /\ list # Unreadable
                                                 /\ item \in list /\ item # Blank
         /\ EnvList(list) # {} <=> IsWritten(list)
<1>1. \A item : item \in EnvList(list) <=> list # Unreadable /\ item \in list /\ item # Blank
  BY DEF EnvList, EnvStr
<1>2. EnvList(list) # {} <=> \E item : item \in EnvList(list)
  OBVIOUS
<1> QED
  BY <1>1, <1>2 DEF IsWritten

\* What the checks of the target find is what the operator wrote.
LEMMA TargetJudged ==
  ASSUME ServerInv, stage = "serving", req \in Requests, Acceptable(req.target)
  PROVE  /\ TargetAllowed(HostText(req.target)) <=> HostMet
         /\ PortAllowed(PortMeant(req.target)) <=> PortMet
<1>1. /\ config.allow_targets = EnvList(env.targets) /\ config.allow_ports = EnvList(env.ports)
      /\ EnvList(env.ports) \subseteq ValidPorts
      /\ env \in Environments
  <2>1. config = FromEnv /\ ~EnvInvalid /\ env \in Environments
    BY DEF ServerInv
  <2>2. config.allow_targets = EnvList(env.targets) /\ config.allow_ports = EnvList(env.ports)
    BY <2>1 DEF FromEnv
  <2>3. EnvList(env.ports) \subseteq ValidPorts
    BY <2>1 DEF EnvInvalid
  <2> QED
    BY <2>1, <2>2, <2>3
<1>2. Spelled(req.target)
  BY ScreeningAssumption
<1>a. \A e : e \in EnvList(env.targets) <=> /\ env.targets # Unreadable
                                              /\ e \in env.targets /\ e # Blank
  BY ListIs
<1>3. \A e \in EnvList(env.targets) : IsEntry(e)
  BY <1>1, <1>a, ScreeningAssumption
<1>4. \A e \in EnvList(env.targets) : Matches(e, HostText(req.target)) <=> Names(e, req.target)
  BY <1>2, <1>3, MatchesWhatIsNamed
<1>5. TargetAllowed(HostText(req.target)) <=> HostMet
  <2>1. EnvList(env.targets) # {} <=> IsWritten(env.targets)
    BY ListIs
  <2>2. (\E e \in EnvList(env.targets) : Matches(e, HostText(req.target)))
        <=> Listed(req.target)
    BY <1>4, <1>a DEF Listed
  <2> QED
    BY <1>1, <2>1, <2>2 DEF TargetAllowed, HostMet
<1>6. NoPort \notin EnvList(env.ports)
  <2>1. NoPort \notin Ports
    BY NumeralAssumption
  <2> QED
    BY <1>1, <2>1, ValidPortsArePorts
<1>b. /\ EnvList(env.ports) # {} <=> IsWritten(env.ports)
      /\ IsWritten(env.ports) => \A p : p # Blank => (p \in EnvList(env.ports) <=> p \in env.ports)
  BY ListIs DEF IsWritten
<1>7. req.target.scheme \in {"http", "https"}
  BY DEF Acceptable
<1>8. PortAllowed(PortMeant(req.target)) <=> PortMet
  <2>1. PortAllowed(PortMeant(req.target))
        <=> (IsWritten(env.ports) => PortMeant(req.target) \in EnvList(env.ports))
    BY <1>1, <1>b DEF PortAllowed
  <2>2. \A p \in Nat \cup {NoPort} : p # Blank
    BY ScreeningAssumption
  <2>3. CASE req.target.port = NoPort
    <3>1. IsWritten(env.ports) => NoPort \notin env.ports
      BY <1>6, <1>b, <2>2
    <3>2. 443 # Blank /\ 80 # Blank
      BY <2>2, SMT
    <3>3. PortMeant(req.target) = IF req.target.scheme = "https" THEN 443 ELSE 80
      BY <2>3 DEF PortMeant, DefaultPort
    <3> QED
      BY <1>7, <1>b, <2>1, <2>3, <3>1, <3>2, <3>3 DEF PortMet
  <2>4. CASE req.target.port # NoPort
    <3>1. PortMeant(req.target) = req.target.port /\ req.target.port # Blank
      BY <1>2, <2>2, <2>4, SpelledTypes DEF PortMeant
    <3> QED
      BY <1>b, <2>1, <2>4, <3>1, Zenon DEF PortMet
  <2> QED
    BY <2>3, <2>4
<1> QED
  BY <1>5, <1>8

-----------------------------------------------------------------------------
(* The checks                                                              *)

\* What the checks behind the handler have established.
PassedInv ==
    /\ check # "idle" => req \in Requests
    /\ check \in {"origin", "method", "preflight", "parse", "allowlist", "rate", "egress"} =>
          TokenMet
    /\ check \in {"method", "preflight", "parse", "allowlist", "rate", "egress"} => OriginMet
    /\ check \in {"allowlist", "rate", "egress"} =>
          Acceptable(req.target) /\ target = Meaning(req.target)
    /\ check \in {"rate", "egress"} => HostMet /\ PortMet

\* What the answer says.
AnswerInv ==
    /\ check # "done" => answer = "none"
    /\ answer = "forwarded" =>
          Meets /\ Acceptable(req.target) /\ target = Meaning(req.target) /\ req \in Requests
    /\ answer = "unauthorized" => ~TokenMet
    /\ answer = "origin_blocked" => ~OriginMet
    /\ answer = "target_blocked" => ~(HostMet /\ PortMet)
    /\ check = "done" /\ ~TokenMet =>
          answer \in {"uri_too_long", "healthz", "index", "unauthorized"}
    /\ charged => /\ check \in {"egress", "done"}
                  /\ answer \in {"none", "forwarded", "budget_exceeded"}

LEMMA InitPassed == Init => PassedInv /\ AnswerInv
BY DEF Init, PassedInv, AnswerInv

\* The environment stays as it was while a request is screened.
LEMMA Unmoved ==
  ASSUME UNCHANGED env, UNCHANGED req
  PROVE  /\ TokenMet' = TokenMet /\ OriginMet' = OriginMet
         /\ HostMet' = HostMet /\ PortMet' = PortMet /\ Meets' = Meets
<1>1. \A entry : Names(entry, req.target)' = Names(entry, req.target)
  BY DEF Names, HostLabels
<1>2. Listed(req.target)' = Listed(req.target)
  BY DEF Listed, Names, HostLabels
<1> QED
  BY <1>2, Zenon DEF TokenMet, OriginMet, HostMet, PortMet, Meets, HasToken, IsWritten

LEMMA NextPassed ==
  ServerInv /\ PassedInv /\ AnswerInv /\ [Next]_vars => PassedInv' /\ AnswerInv'
<1> SUFFICES ASSUME ServerInv, PassedInv, AnswerInv, [Next]_vars
             PROVE  PassedInv' /\ AnswerInv'
  OBVIOUS
<1>1. CASE UNCHANGED <<env, screening>>
  <2>1. UNCHANGED <<env, req, check, target, answer, charged>>
    BY <1>1 DEF screening
  <2>2. /\ TokenMet' = TokenMet /\ OriginMet' = OriginMet
        /\ HostMet' = HostMet /\ PortMet' = PortMet /\ Meets' = Meets
    BY <2>1, Unmoved
  <2> QED
    BY <2>1, <2>2 DEF PassedInv, AnswerInv
<1>2. CASE Start /\ UNCHANGED screening
  BY <1>1, <1>2 DEF Start, Load, LoadFails, Gate, LoadDenyCidrs, LoadRoots, Bind
<1>3. CASE Arrive
  <2>1. req' \in Requests /\ check' = "size" /\ answer' = "none" /\ charged' = FALSE
    BY <1>3 DEF Arrive, At, AnswerInv
  <2> QED
    BY <2>1 DEF PassedInv, AnswerInv
<1>4. ASSUME UNCHANGED <<env, req>>
      PROVE  /\ TokenMet' = TokenMet /\ OriginMet' = OriginMet
             /\ HostMet' = HostMet /\ PortMet' = PortMet /\ Meets' = Meets
  BY <1>4, Unmoved
<1>5. ASSUME NEW c \in {"path", "token", "origin", "method", "preflight", "parse", "rate"},
             GoOn(c), check # "idle", ~charged, answer = "none",
             c \in {"origin", "method", "preflight", "parse", "rate"} => TokenMet,
             c \in {"method", "preflight", "parse", "rate"} => OriginMet,
             c = "rate" => /\ Acceptable(req.target) /\ target = Meaning(req.target)
                           /\ HostMet /\ PortMet
      PROVE  PassedInv' /\ AnswerInv'
  <2>1. check' = c /\ UNCHANGED <<env, req, target, answer, charged>>
    BY <1>5 DEF GoOn, startup
  <2> QED
    BY <1>4, <1>5, <2>1 DEF PassedInv, AnswerInv
<1>6. ASSUME NEW a, Return(a), check # "idle",
             a # "forwarded",
             a = "unauthorized" => ~TokenMet,
             a = "origin_blocked" => ~OriginMet,
             a = "target_blocked" => ~(HostMet /\ PortMet),
             ~TokenMet => a \in {"uri_too_long", "healthz", "index", "unauthorized"},
             charged => a = "budget_exceeded"
      PROVE  PassedInv' /\ AnswerInv'
  <2>1. check' = "done" /\ answer' = a /\ UNCHANGED <<env, req, target, charged>>
    BY <1>6 DEF Return, startup
  <2> QED
    BY <1>4, <1>6, <2>1 DEF PassedInv, AnswerInv
<1>7. check \notin {"egress", "done"} => ~charged /\ answer = "none"
  BY DEF AnswerInv
<1>8. /\ config = FromEnv \/ stage # "serving"
      /\ config = FromEnv => /\ config.auth_token = EnvStr(env.token, "")
                             /\ config.allow_origins = EnvList(env.origins)
  <2>1. config = FromEnv \/ stage # "serving"
    BY DEF ServerInv
  <2>2. /\ FromEnv.auth_token = EnvStr(env.token, "")
        /\ FromEnv.allow_origins = EnvList(env.origins)
    BY Zenon DEF FromEnv
  <2> QED
    BY <2>1, <2>2, Zenon
<1>9. CASE CheckSize
  <2>1. check = "size" /\ (Return("uri_too_long") \/ GoOn("path"))
    BY <1>9 DEF CheckSize, At
  <2> QED
    BY <1>5, <1>6, <1>7, <2>1
<1>10. CASE CheckPath
  <2>1. check = "path" /\ (Return("healthz") \/ Return("index") \/ GoOn("token"))
    BY <1>10 DEF CheckPath, At
  <2> QED
    BY <1>5, <1>6, <1>7, <2>1
<1>11. CASE CheckToken
  <2>1. check = "token"
    BY <1>11 DEF CheckToken, At
  <2>2. (~TokenMet /\ Return("unauthorized")) \/ (TokenMet /\ GoOn("origin"))
    <3>1. config.auth_token = IF env.token = Unreadable THEN "" ELSE env.token
      BY <1>8, <1>11, Zenon DEF CheckToken, At, EnvStr
    <3> QED
      BY <1>11, <3>1, ZenonT(60) DEF CheckToken, TokenMet, HasToken
  <2> QED
    BY <1>5, <1>6, <1>7, <2>1, <2>2
<1>12. CASE CheckOrigin
  <2>1. check = "origin" /\ TokenMet
    BY <1>12 DEF CheckOrigin, At, PassedInv
  <2>2. (~OriginMet /\ Return("origin_blocked")) \/ (OriginMet /\ GoOn("method"))
    <3>1. config.allow_origins = EnvList(env.origins) /\ req \in Requests
      BY <1>8, <1>12 DEF CheckOrigin, At, PassedInv
    <3>2. req.origin # Blank
      BY <3>1, ScreeningAssumption
    <3>3. OriginAllowed(req.origin)
          <=> (IsWritten(env.origins) => req.origin \in env.origins)
      <4>1. EnvList(env.origins) # {} <=> IsWritten(env.origins)
        BY ListIs
      <4>2. IsWritten(env.origins) =>
              (req.origin \in EnvList(env.origins) <=> req.origin \in env.origins)
        BY <3>2, ListIs DEF IsWritten
      <4> QED
        BY <3>1, <4>1, <4>2 DEF OriginAllowed
    <3> QED
      BY <1>12, <3>3, ZenonT(60) DEF CheckOrigin, OriginMet
  <2> QED
    BY <1>5, <1>6, <1>7, <2>1, <2>2
<1>13. CASE CheckMethod
  <2>1. check = "method" /\ TokenMet /\ OriginMet
    BY <1>13 DEF CheckMethod, At, PassedInv
  <2>2. GoOn("preflight") \/ GoOn("parse") \/ Return("method_not_allowed")
    BY <1>13 DEF CheckMethod
  <2> QED
    BY <1>5, <1>6, <1>7, <2>1, <2>2
<1>14. CASE AnswerPreflight
  <2>1. check = "preflight" /\ TokenMet /\ (Return("preflight") \/ Return("invalid_target"))
    BY <1>14 DEF AnswerPreflight, At, PassedInv
  <2> QED
    BY <1>6, <1>7, <2>1
<1>15. CASE ParseTarget
  <2>1. check = "parse" /\ TokenMet /\ OriginMet /\ req \in Requests
    BY <1>15 DEF ParseTarget, At, PassedInv
  <2>2. \/ Return("invalid_target")
        \/ /\ Parse(Written(req.target)) # Invalid
           /\ target' = Parse(Written(req.target))
           /\ check' = "allowlist"
           /\ UNCHANGED <<env, req, answer, charged>>
    BY <1>15 DEF ParseTarget, startup
  <2>3. Spelled(req.target)
    BY <2>1, ScreeningAssumption
  <2>4. Parse(Written(req.target)) # Invalid =>
          Acceptable(req.target) /\ Parse(Written(req.target)) = Meaning(req.target)
    BY <2>3, ParseReadsWhatIsMeant DEF Meaning
  <2>5. CASE Return("invalid_target")
    BY <1>6, <1>7, <2>1, <2>5
  <2>6. CASE /\ Parse(Written(req.target)) # Invalid
             /\ target' = Parse(Written(req.target))
             /\ check' = "allowlist"
             /\ UNCHANGED <<env, req, answer, charged>>
    <3>1. Acceptable(req'.target) /\ target' = Meaning(req'.target) /\ req' \in Requests
      BY <2>1, <2>4, <2>6
    <3>2. TokenMet' /\ OriginMet' /\ answer' = "none" /\ ~charged' /\ check' = "allowlist"
      BY <1>4, <1>7, <2>1, <2>6
    <3> QED
      BY <3>1, <3>2 DEF PassedInv, AnswerInv
  <2> QED
    BY <2>2, <2>5, <2>6
<1>16. CASE CheckAllowlist
  <2>1. /\ check = "allowlist" /\ stage = "serving" /\ TokenMet /\ OriginMet /\ req \in Requests
        /\ Acceptable(req.target) /\ target = Meaning(req.target)
    BY <1>16 DEF CheckAllowlist, At, PassedInv
  <2>2. target.host.text = HostText(req.target) /\ target.port = PortMeant(req.target)
    BY <2>1 DEF Meaning, HostMeant
  <2>3. /\ TargetAllowed(target.host.text) <=> HostMet
        /\ PortAllowed(target.port) <=> PortMet
    BY <2>1, <2>2, TargetJudged
  <2>4. (HostMet /\ PortMet /\ GoOn("rate")) \/ (~(HostMet /\ PortMet) /\ Return("target_blocked"))
    BY <1>16, <2>3 DEF CheckAllowlist
  <2> QED
    BY <1>5, <1>6, <1>7, <2>1, <2>4
<1>17. CASE CheckRate
  <2>1. /\ check = "rate" /\ TokenMet /\ OriginMet /\ HostMet /\ PortMet /\ req \in Requests
        /\ Acceptable(req.target) /\ target = Meaning(req.target)
    BY <1>17 DEF CheckRate, At, PassedInv
  <2>2. \/ Return("rate_limited")
        \/ check' = "egress" /\ UNCHANGED <<env, req, target, answer>>
    BY <1>17 DEF CheckRate, startup
  <2>3. CASE Return("rate_limited")
    BY <1>6, <1>7, <2>1, <2>3
  <2>4. CASE check' = "egress" /\ UNCHANGED <<env, req, target, answer>>
    <3>1. TokenMet' /\ OriginMet' /\ HostMet' /\ PortMet' /\ answer' = "none"
      BY <1>4, <1>7, <2>1, <2>4
    <3> QED
      BY <2>1, <2>4, <3>1 DEF PassedInv, AnswerInv
  <2> QED
    BY <2>2, <2>3, <2>4
<1>18. CASE CheckEgress
  <2>1. /\ check = "egress" /\ TokenMet /\ OriginMet /\ HostMet /\ PortMet /\ req \in Requests
        /\ Acceptable(req.target) /\ target = Meaning(req.target)
    BY <1>18 DEF CheckEgress, At, PassedInv
  <2>2. CASE Return("forwarded")
    <3>1. check' = "done" /\ answer' = "forwarded" /\ UNCHANGED <<env, req, target, charged>>
      BY <2>2 DEF Return, startup
    <3>2. Meets' /\ TokenMet'
      BY <1>4, <2>1, <3>1 DEF Meets
    <3> QED
      BY <2>1, <3>1, <3>2 DEF PassedInv, AnswerInv
  <2>3. CASE Return("budget_exceeded")
    BY <1>6, <2>1, <2>3
  <2> QED
    BY <1>18, <2>2, <2>3 DEF CheckEgress
<1>19. CASE UNCHANGED vars
  BY <1>1, <1>19 DEF vars, startup
<1> QED
  BY <1>2, <1>3, <1>9, <1>10, <1>11, <1>12, <1>13, <1>14, <1>15, <1>16, <1>17, <1>18, <1>19
     DEF Next, Handle
-----------------------------------------------------------------------------
(* Theorems                                                                *)

ScreeningInv == ServerInv /\ PassedInv /\ AnswerInv

LEMMA ScreeningInvariant == Spec => []ScreeningInv
<1>1. Init => ScreeningInv
  BY InitServer, InitPassed DEF ScreeningInv
<1>2. ScreeningInv /\ [Next]_vars => ScreeningInv'
  BY NextServer, NextPassed DEF ScreeningInv
<1> QED
  BY <1>1, <1>2, PTL DEF Spec

\* The configuration and the target stay within what from_env and parse_target
\* can return.
THEOREM ScreeningTypeCorrect == Spec => []TypeOK
<1> DEFINE ConfigOK ==
             /\ config.auth_token \in {""} \cup {e.token : e \in Environments}
             /\ config.public_mode \in BOOLEAN
             /\ config.allow_ports \subseteq ValidPorts
             /\ Blank \notin config.allow_targets /\ Blank \notin config.allow_origins
           TargetOK == target # Invalid => target.port \in ValidPorts
           ScreenOK ==
             /\ stage \in Stages
             /\ req \in Requests \cup {NoRequest}
             /\ check \in Checks
             /\ answer \in Answers
             /\ charged \in BOOLEAN
<1>1. Init => ScreeningInv /\ TypeOK
  <2> SUFFICES ASSUME Init
               PROVE  ScreeningInv /\ TypeOK
    OBVIOUS
  <2>1. ConfigOK
    BY DEF Init, StartupInit, Default
  <2>2. TargetOK /\ ScreenOK /\ env \in Environments
    BY DEF Init, StartupInit, Stages, Checks, Answers
  <2> QED
    BY <2>1, <2>2, InitServer, InitPassed DEF ScreeningInv, TypeOK
<1>2. ScreeningInv /\ TypeOK /\ [Next]_vars => ScreeningInv' /\ TypeOK'
  <2> SUFFICES ASSUME ScreeningInv, TypeOK, [Next]_vars
               PROVE  TypeOK'
    BY NextServer, NextPassed DEF ScreeningInv
  <2>1. ScreeningInv'
    BY NextServer, NextPassed DEF ScreeningInv
  <2>2. ConfigOK /\ TargetOK /\ ScreenOK
    BY DEF TypeOK
  <2>3. ConfigOK'
    <3>1. CASE UNCHANGED config
      BY <2>2, <3>1
    <3>2. CASE Load
      <4>1. config' = FromEnv /\ env \in Environments /\ EnvList(env.ports) \subseteq ValidPorts
        BY <3>2 DEF Load, EnvInvalid, ScreeningInv, ServerInv
      <4>2. FromEnv.public_mode \in BOOLEAN
        <5> DEFINE value == EnvStr(env.public, "")
                   yes == {"1", "true", "yes", "on"}
                   on == value \in yes
        <5>1. FromEnv.public_mode = on
          BY Zenon DEF FromEnv
        <5> HIDE DEF value, yes
        <5>2. on \in BOOLEAN
          OBVIOUS
        <5> HIDE DEF on
        <5> QED
          BY <5>1, <5>2
      <4>3. /\ FromEnv.auth_token = EnvStr(env.token, "")
            /\ FromEnv.allow_ports = EnvList(env.ports)
            /\ FromEnv.allow_targets = EnvList(env.targets)
            /\ FromEnv.allow_origins = EnvList(env.origins)
        BY Zenon DEF FromEnv
      <4>a. EnvStr(env.token, "") \in {""} \cup {e.token : e \in Environments}
        BY <4>1, Zenon DEF EnvStr
      <4>4. Blank \notin EnvList(env.targets) /\ Blank \notin EnvList(env.origins)
        BY DEF EnvList
      <4> QED
        BY <4>1, <4>2, <4>3, <4>4, <4>a, Zenon
    <3> QED
      BY <3>1, <3>2 DEF Next, Start, LoadFails, Gate, LoadDenyCidrs, LoadRoots, Bind, Handle,
         Arrive, CheckSize, CheckPath, CheckToken, CheckOrigin, CheckMethod, AnswerPreflight,
         ParseTarget, CheckAllowlist, CheckRate, CheckEgress, GoOn, Return, vars, startup
  <2>4. TargetOK'
    <3>1. CASE UNCHANGED target
      BY <2>2, <3>1
    <3>2. CASE ParseTarget
      <4>1. (Spelled(req.target) /\ target' = Parse(Written(req.target))) \/ UNCHANGED target
        BY <3>2, ScreeningAssumption DEF ParseTarget, At, Return, ScreeningInv, PassedInv
      <4> QED
        BY <3>1, <4>1, PortsOfTargets
    <3> QED
      BY <3>1, <3>2 DEF Next, screening, Handle,
         Arrive, CheckSize, CheckPath, CheckToken, CheckOrigin, CheckMethod, AnswerPreflight,
         CheckAllowlist, CheckRate, CheckEgress, GoOn, Return, vars
  <2>5. ScreenOK'
    <3>1. CASE Start /\ UNCHANGED screening
      BY <2>2, <3>1 DEF Start, Load, LoadFails, Gate, LoadDenyCidrs, LoadRoots, Bind, Stages,
         screening
    <3>2. CASE Handle
      BY <2>2, <3>2, ZenonT(60) DEF Handle, Arrive, CheckSize, CheckPath, CheckToken, CheckOrigin,
         CheckMethod, AnswerPreflight, ParseTarget, CheckAllowlist, CheckRate, CheckEgress,
         GoOn, Return, startup, Checks, Answers
    <3>3. CASE UNCHANGED vars
      BY <2>2, <3>3 DEF vars, startup, screening
    <3> QED
      BY <3>1, <3>2, <3>3 DEF Next
  <2> QED
    BY <2>1, <2>3, <2>4, <2>5 DEF TypeOK, ScreeningInv, ServerInv
<1> QED
  BY <1>1, <1>2, PTL DEF Spec

\* What is forwarded meets every restriction that the operator wrote as text, for
\* all environments and requests (from_env to the allowlists of proxy_handler).
\* A value that is not text restricts nothing, and an Origin that is not text is
\* held against no list.
THEOREM ForwardedMeetsRestrictions == Spec => []RestrictionsHold
<1>1. ScreeningInv => RestrictionsHold
  BY DEF ScreeningInv, AnswerInv, RestrictionsHold
<1> QED
  BY <1>1, ScreeningInvariant, PTL

\* Only a request that breaks a written restriction is turned away as
\* unauthorized or blocked.
THEOREM NobodyIsTurnedAwayWrongly == Spec => []RefusalsAreDeserved
<1>1. ScreeningInv => RefusalsAreDeserved
  BY DEF ScreeningInv, AnswerInv, RefusalsAreDeserved, Meets
<1> QED
  BY <1>1, ScreeningInvariant, PTL

\* The answer to a request without the token comes from the checks before it.
THEOREM TokenComesFirst == Spec => []StrangersLearnNothing
<1>1. ScreeningInv => StrangersLearnNothing
  <2> SUFFICES ASSUME AnswerInv, check = "done", env.token \notin {"", Unreadable}, ~HasToken
               PROVE  answer \in {"uri_too_long", "healthz", "index", "unauthorized"}
    BY Zenon DEF ScreeningInv, StrangersLearnNothing
  <2>1. ~TokenMet
    BY Zenon DEF TokenMet
  <2> QED
    BY <2>1 DEF AnswerInv
<1> QED
  BY <1>1, ScreeningInvariant, PTL

\* Only a request that is forwarded, or that the egress budget holds back, has
\* taken a token from the rate limiter (check_admission comes last).
THEOREM RefusalsAreFree == Spec => []OnlyForwardsAreCharged
<1>1. ScreeningInv => OnlyForwardsAreCharged
  BY DEF ScreeningInv, AnswerInv, OnlyForwardsAreCharged
<1> QED
  BY <1>1, ScreeningInvariant, PTL

\* Beyond loopback and without PUBLIC_MODE a request is forwarded only with the
\* token or to a listed target: should_gate_startup left one of the two set, and
\* the handler enforces it.
THEOREM RelayIsNeverOpenByAccident == Spec => []OpenOnlyOnPurpose
<1>1. ScreeningInv => OpenOnlyOnPurpose
  <2> SUFFICES ASSUME ScreeningInv, answer = "forwarded", env.listen \notin Loopback,
                      env.public \notin {"1", "true", "yes", "on"}
               PROVE  HasToken \/ Listed(req.target)
    BY DEF OpenOnlyOnPurpose
  <2>1. TokenMet /\ HostMet /\ check = "done"
    BY DEF ScreeningInv, AnswerInv, Meets
  <2>2. config = FromEnv /\ ~ShouldGateStartup
    BY <2>1 DEF ScreeningInv, ServerInv
  <2>3. /\ config.auth_token = EnvStr(env.token, "")
        /\ config.allow_targets = EnvList(env.targets)
        /\ config.listen_addr = EnvStr(env.listen, Default.listen_addr)
        /\ config.public_mode = (EnvStr(env.public, "") \in {"1", "true", "yes", "on"})
    BY <2>2, Zenon DEF FromEnv
  <2>4. ~config.public_mode
    BY <2>3, Zenon DEF EnvStr
  <2>5. config.listen_addr \notin Loopback
    <3>1. Default.listen_addr \notin Loopback
      BY Zenon DEF Default, Loopback
    <3> QED
      BY <2>3, <3>1, Zenon DEF EnvStr
  <2>6. EnvStr(env.token, "") # "" \/ EnvList(env.targets) # {}
    BY <2>2, <2>3, <2>4, <2>5, Zenon DEF ShouldGateStartup
  <2>7. EnvStr(env.token, "") # "" => env.token \notin {"", Unreadable}
    BY Zenon DEF EnvStr
  <2>8. EnvList(env.targets) # {} => Listed(req.target)
    BY <2>1, ListIs DEF HostMet
  <2> QED
    BY <2>1, <2>6, <2>7, <2>8, Zenon DEF TokenMet
<1> QED
  BY <1>1, ScreeningInvariant, PTL

\* However a client spells a server, full_url writes it in one way, and
\* parse_target reads what full_url wrote as the target that was judged, unless
\* trailing dots hide a number.
THEOREM ServerHasOneName == Spec => []OneAddressee
<1>1. ScreeningInv => OneAddressee
  <2> SUFFICES ASSUME ScreeningInv, answer = "forwarded", ~HiddenNumber(req.target)
               PROVE  /\ FullUrl(target) = Written(Plainly(req.target))
                      /\ Parse(FullUrl(target)) = target
    BY DEF OneAddressee
  <2>1. /\ Spelled(req.target) /\ Acceptable(req.target)
        /\ target = Meaning(req.target)
    BY ScreeningAssumption DEF ScreeningInv, AnswerInv
  <2> QED
    BY <2>1, FullUrlReadsBack
<1> QED
  BY <1>1, ScreeningInvariant, PTL
=============================================================================
