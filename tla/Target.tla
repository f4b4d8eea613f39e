------------------------------- MODULE Target -------------------------------
(***************************************************************************)
(* From the text of a URL to a Target and back (target.rs): parse_target   *)
(* reads what the client wrote or what a Location was resolved to;         *)
(* authority and full_url write the target again, for the Host header, for *)
(* the loop check and as the base of the next Location.                    *)
(*                                                                         *)
(* A text is [scheme, userinfo, authority], the authority being a sequence *)
(* of tokens: labels, numerals, dots, colons and brackets.  Path and query *)
(* are handed on as they are and left out.  Letters are in lower case and  *)
(* IPv6 addresses in the standard notation, as the url crate returns them; *)
(* an IPv4 address may come in any notation that the crate understands.    *)
(***************************************************************************)
EXTENDS Integers, Sequences

CONSTANTS
    NoPort,         \* the port of a URL that names none
    Invalid,        \* what is not a target, not a host, not a number
    Numeral,        \* [numbers -> numerals], in decimal, without leading zeros
    Notation        \* [labels -> Nat \cup {Invalid}], other labels that the url
                    \* crate takes for numbers: "0x7f", "010", or "08"

Punctuation == {".", ":", "[", "]"}

MaxPort == 65535

Ports == 0..MaxPort

Tokens == STRING \cup Punctuation

\* What may stand between two dots.
Labels == Tokens \ (Punctuation \cup {""})

Hosts == [kind : {"ipv4", "ipv6", "domain"}, text : Seq(Tokens)]

MaxOctet == 255

ASSUME TargetAssumption ==
    /\ Invalid \notin Hosts
    /\ Invalid \notin Seq(Tokens)
    /\ Invalid \notin [scheme : {"http", "https"}, host : Hosts, port : Nat]

ASSUME NumeralAssumption ==
    /\ NoPort \notin Ports
    /\ DOMAIN Numeral \subseteq Nat
    /\ 0..MaxOctet \subseteq DOMAIN Numeral
    /\ Numeral \in [DOMAIN Numeral -> Labels]
    /\ \A m, n \in DOMAIN Numeral : Numeral[m] = Numeral[n] => m = n

\* What a numeral says.
Decimal ==
    [s \in {Numeral[n] : n \in DOMAIN Numeral} |-> CHOOSE n \in DOMAIN Numeral : Numeral[n] = s]

ASSUME NotationAssumption ==
    /\ Invalid \notin Nat
    /\ DOMAIN Notation \subseteq Labels \ DOMAIN Decimal
    /\ Notation \in [DOMAIN Notation -> Nat \cup {Invalid}]

\* Scheme::default_port
DefaultPort(scheme) == IF scheme = "https" THEN 443 ELSE 80

\* The labels with dots between them.
Dotted(labels) ==
    [k \in 1..2 * Len(labels) - 1 |-> IF k % 2 = 1 THEN labels[(k + 1) \div 2] ELSE "."]

-----------------------------------------------------------------------------
(* A host that ends in a number is an IPv4 address to the url crate, or it *)
(* is refused.  One trailing dot does not count; behind two of them the    *)
(* last label is empty, and the host is a name.                            *)

Numbers == DOMAIN Decimal \cup DOMAIN Notation

Value(label) == IF label \in DOMAIN Decimal THEN Decimal[label] ELSE Notation[label]

Undotted(host) ==
    IF host # <<>> /\ host[Len(host)] = "." THEN SubSeq(host, 1, Len(host) - 1) ELSE host

EndsInNumber(host) == Undotted(host) # <<>> /\ Undotted(host)[Len(Undotted(host))] \in Numbers

\* What one unit of each octet is worth.
Weight == <<16777216, 65536, 256, 1>>

\* One to four numbers, the last of which fills the octets that are left.
IsAddress(host) ==
    /\ Len(host) \in {1, 3, 5, 7}
    /\ \A k \in {2, 4, 6} : k < Len(host) => host[k] = "."
    /\ \A k \in {1, 3, 5, 7} : k <= Len(host) =>
           /\ host[k] \in Numbers
           /\ Value(host[k]) # Invalid
           /\ k < Len(host) => Value(host[k]) <= MaxOctet
    /\ Value(host[Len(host)]) \div Weight[(Len(host) + 1) \div 2] <= MaxOctet

Octet(host, i) ==
    IF 2 * i - 1 < Len(host)
    THEN Value(host[2 * i - 1])
    ELSE (Value(host[Len(host)]) \div Weight[i]) % 256

Octets(host) == [i \in 1..4 |-> Numeral[Octet(host, i)]]

\* Url::host_str
UrlHost(host) ==
    CASE ~EndsInNumber(host) -> host
      [] EndsInNumber(host) /\ IsAddress(Undotted(host)) -> Dotted(Octets(Undotted(host)))
      [] OTHER -> Invalid

-----------------------------------------------------------------------------
(* What the url crate makes of a text                                      *)

\* The place of the first such token, or the place after the last.
First(text, token) ==
    CHOOSE k \in 1..Len(text) + 1 :
        /\ k = Len(text) + 1 \/ text[k] = token
        /\ \A j \in 1..k - 1 : text[j] # token

\* The host ends before the first colon, or after the bracket that closes it.
HostPart(authority) ==
    IF authority # <<>> /\ authority[1] = "["
    THEN SubSeq(authority, 1, First(authority, "]"))
    ELSE SubSeq(authority, 1, First(authority, ":") - 1)

PortPart(authority) == SubSeq(authority, Len(HostPart(authority)) + 1, Len(authority))

IsPort(port) ==
    \/ port = <<>>
    \/ /\ Len(port) = 2
       /\ port[1] = ":"
       /\ port[2] \in DOMAIN Decimal
       /\ Decimal[port[2]] < 65536

\* Url::parse succeeds.
WellFormed(text) ==
    /\ HostPart(text.authority) # <<>>
    /\ UrlHost(HostPart(text.authority)) # Invalid
    /\ IsPort(PortPart(text.authority))

\* Url::port
WrittenPort(text) ==
    LET port == PortPart(text.authority)
    IN  IF port = <<>> THEN NoPort ELSE Decimal[port[2]]

-----------------------------------------------------------------------------
(* parse_target                                                            *)

TrimDots(host) ==
    SubSeq(host, 1, CHOOSE n \in 0..Len(host) :
        /\ n > 0 => host[n] # "."
        /\ \A k \in n + 1..Len(host) : host[k] = ".")

\* Four octets in decimal with dots between them.
IsIpv4(host) ==
    /\ Len(host) = 7
    /\ \A k \in {1, 3, 5, 7} : host[k] \in DOMAIN Decimal /\ Decimal[host[k]] <= MaxOctet
    /\ \A k \in {2, 4, 6} : host[k] = "."

ParseHost(host) ==
    LET trimmed == TrimDots(host)
    IN  CASE trimmed = <<>> -> Invalid
          [] trimmed # <<>> /\ trimmed[1] = "[" ->
                 [kind |-> "ipv6", text |-> SubSeq(trimmed, 2, Len(trimmed) - 1)]
          [] IsIpv4(trimmed) -> [kind |-> "ipv4", text |-> trimmed]
          [] OTHER -> [kind |-> "domain", text |-> trimmed]

\* Mutated: the default port is forgotten.
Port_AsWritten(text) == WrittenPort(text)

Port(text) ==
    IF WrittenPort(text) = NoPort THEN DefaultPort(text.scheme) ELSE WrittenPort(text)

Parse(text) ==
    LET host == ParseHost(UrlHost(HostPart(text.authority)))
    IN  IF /\ WellFormed(text)
           /\ text.scheme \in {"http", "https"}
           /\ ~text.userinfo
           /\ host # Invalid
           /\ Port(text) # 0
        THEN [scheme |-> text.scheme, host |-> host, port |-> Port(text)]
        ELSE Invalid

-----------------------------------------------------------------------------
(* A target in writing                                                     *)

\* Mutated: an IPv6 address is written like every other host.
Authority_Bare(target) ==
    target.host.text
    \o IF target.port = DefaultPort(target.scheme) THEN <<>> ELSE <<":", Numeral[target.port]>>

Authority(target) ==
    (IF target.host.kind = "ipv6" THEN <<"[">> \o target.host.text \o <<"]">>
                                  ELSE target.host.text)
    \o IF target.port = DefaultPort(target.scheme) THEN <<>> ELSE <<":", Numeral[target.port]>>

FullUrl(target) ==
    [scheme |-> target.scheme, userinfo |-> FALSE, authority |-> Authority(target)]
=============================================================================
