---------------------------- MODULE MCScreening ----------------------------
(* Screening in small sets of environments and requests: each restriction   *)
(* on and off, with blank, invalid and unreadable values; each check met   *)
(* and missed.                                                              *)
EXTENDS Screening, TLC

Sub == [suffix |-> TRUE, labels |-> <<"x", "com">>]
Bare == [suffix |-> TRUE, labels |-> <<>>]
One == [suffix |-> FALSE, labels |-> <<"y", "com">>]
Host == [suffix |-> FALSE, labels |-> <<"127", "0", "0", "1">>]

\* Environments that differ in what the restrictions are.
MCOpen ==
    [listen : {"127.0.0.1", "0.0.0.0"}, limits : {"valid"}, deny : {"valid"},
     targets : {{}, {Blank}, {Sub, Blank}, {One, Host}, {Bare}}, origins : {{}, {"app"}},
     ports : {{}, {443}}, token : {"", "secret"}, public : {"", "ture", "yes"},
     budget : {"none", "valid"}]

\* Environments that main turns down, or might.
MCBroken ==
    [listen : {"invalid", "::1", "192.0.2.7"}, limits : {"valid", "invalid"},
     deny : {"valid", "invalid"}, targets : {{}}, origins : {{Blank}},
     ports : {{Blank}, {0}, {443, 70000}}, token : {""}, public : {"", "1"},
     budget : {"none", "invalid"}]

\* Environments in which some restriction cannot be read.
MCUnreadable ==
    [listen : {"0.0.0.0", Unreadable}, limits : {Unreadable}, deny : {Unreadable},
     targets : {{Sub}, Unreadable}, origins : {{"app"}, Unreadable},
     ports : {{443}, Unreadable}, token : {"secret", Unreadable}, public : {"1", Unreadable},
     budget : {Unreadable}]

MCEnvironments == MCOpen \cup MCBroken \cup MCUnreadable

MCNumeral == [n \in 0..MaxOctet \cup {443, 8443, 70000} |-> ToString(n)]

MCNotation == "0x7f" :> 127 @@ "08" :> Invalid

Named(scheme, labels, dots, port) ==
    [scheme |-> scheme, userinfo |-> FALSE, ipv6 |-> FALSE, labels |-> labels,
     dots |-> dots, port |-> port]

Nowhere == Named("https", <<>>, 1, NoPort)

\* Each reason to refuse a URL, and each liberty in the spelling of one.
MCTargets ==
    {Named("https", <<"a", "x", "com">>, 1, NoPort),
     Named("http", <<"x", "com">>, 0, NoPort),
     Named("http", <<"y", "com">>, 2, 443),
     Named("https", <<"com">>, 0, 8443),
     Named("https", <<"yx", "com">>, 0, 443),
     Named("https", <<"192", "0", "2", "7">>, 1, 443),
     Named("https", <<"0x7f", "1">>, 1, 443),
     Named("https", <<"08">>, 0, 443),
     Named("https", <<"08">>, 2, 443),
     Named("https", <<"443", "0", "2", "7">>, 0, NoPort),
     Named("https", <<"y", "7">>, 1, NoPort),
     Named("https", <<"127", "1">>, 2, NoPort),
     Named("https", <<"192", "0", "2", "7">>, 2, NoPort),
     [Named("https", <<"fd00", ":", ":", "443">>, 0, NoPort) EXCEPT !.ipv6 = TRUE],
     [Named("http", <<"fd00", ":", ":", "7">>, 0, 8443) EXCEPT !.ipv6 = TRUE],
     [Named("https", <<"y", "com">>, 0, NoPort) EXCEPT !.userinfo = TRUE],
     Named("ftp", <<"y", "com">>, 0, NoPort),
     Named("https", <<"y", "com">>, 0, 0),
     Named("https", <<"y", "com">>, 0, 70000),
     Nowhere}

MCRequests ==
    [uri : {"target"}, method : {"GET", "OPTIONS", "TRACE"}, token : {"", "secret", "wrong"},
     origin : {"", "app", "other"}, target : MCTargets]
    \cup
    [uri : {"target"}, method : {"GET"}, token : {"secret", Unreadable},
     origin : {"app", Unreadable}, target : {Named("https", <<"y", "com">>, 0, NoPort)}]
    \cup
    [uri : {"long", "healthz", "index"}, method : {"GET", "TRACE"}, token : {""},
     origin : {""}, target : {Nowhere}]
=============================================================================
