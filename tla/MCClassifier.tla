---------------------------- MODULE MCClassifier ----------------------------
(***************************************************************************)
(* Checks validate_network_args (Classifier) against the policy spec.md    *)
(* states for it, over every argument vector <<"curl">> \o s with s a      *)
(* sequence of at most MaxArgs tokens drawn from Tokens.  The state is the *)
(* argument vector: Init enumerates the vectors, Next leaves it alone.     *)
(***************************************************************************)
EXTENDS Classifier

CONSTANTS Tokens, MaxArgs

VARIABLE args

-----------------------------------------------------------------------------
(* Groups: the colon-free pieces of argument text (see Classifier).        *)

G(txt, cls, len, hexval, quad, low) ==
    [txt |-> txt, cls |-> cls, len |-> len, hexval |-> hexval, quad |-> quad, low |-> low]
Dig(txt, len, hexval) == G(txt, "digits", len, hexval, <<>>, txt)
Hex(txt, len, hexval) == G(txt, "hex", len, hexval, <<>>, txt)
Quad(txt, q)          == G(txt, "dotted4", 0, -1, q, txt)
Name(txt, low)        == G(txt, "name", 0, -1, <<>>, low)

E       == G("", "empty", 0, -1, <<>>, "")
D1      == Dig("1", 1, 1)
D10     == Dig("10", 2, 16)
D8080   == Dig("8080", 4, 32896)
D2001   == Dig("2001", 4, 8193)
Hdb8    == Hex("db8", 3, 3512)
Hadd    == Hex("add", 3, 2781)
QLo     == Quad("127.0.0.1", <<127, 0, 0, 1>>)
QLo2    == Quad("127.0.0.2", <<127, 0, 0, 2>>)
QPriv   == Quad("192.168.1.1", <<192, 168, 1, 1>>)
QBad    == Quad("999.1.1.1", <<999, 1, 1, 1>>)
NLocal  == Name("localhost", "localhost")
NUpper  == Name("LOCALHOST", "localhost")
NEx     == Name("example.com", "example.com")
NCurl   == Name("curl", "curl")
NTest   == Name("test", "test")
OPath   == G("./...", "other", 5, -1, <<>>, "./...")
D53     == Dig("53", 2, 83)
D64     == Dig("64", 2, 100)
Hffff   == Hex("ffff", 4, 65535)
Hff9b   == Hex("ff9b", 4, 65435)
QDns    == Quad("8.8.8.8", <<8, 8, 8, 8>>)

V6Lo  == <<E, E, D1>>               \* ::1
V6Doc == <<D2001, Hdb8, E, Hadd>>   \* 2001:db8::add
V6Map == <<E, E, Hffff, QDns>>      \* ::ffff:8.8.8.8 (IPv4-mapped)
V6Nat == <<D64, Hff9b, E, QDns>>    \* 64:ff9b::8.8.8.8 (NAT64)

-----------------------------------------------------------------------------
(* Bodies and tokens.                                                      *)

B(gs)        == [scheme |-> "", lb |-> FALSE, core |-> gs, rb |-> FALSE, port |-> <<>>, path |-> FALSE]
Br(gs, port) == [B(gs) EXCEPT !.lb = TRUE, !.rb = TRUE, !.port = port]
U(s, b)      == [b EXCEPT !.scheme = s, !.path = TRUE]

A(b) == [dash |-> FALSE, eq |-> FALSE, body |-> b]   \* a positional argument
F(b) == [dash |-> TRUE, eq |-> TRUE, body |-> b]     \* --flag=<body>
BareFlag == [dash |-> TRUE, eq |-> FALSE, body |-> B(<<NTest>>)]   \* -v

Command == A(B(<<NCurl>>))

\* http://localhost:8080/api, https://127.0.0.1/, http://[::1]:8080/,
\* [::1]:8080, 127.0.0.1:8080, LOCALHOST:8080, 127.0.0.2
LoopbackForms ==
    { A(U("http", B(<<NLocal, D8080>>))), A(U("https", B(<<QLo>>))),
      A(U("http", Br(V6Lo, <<D8080>>))), A(Br(V6Lo, <<D8080>>)),
      A(B(<<QLo, D8080>>)), A(B(<<NUpper, D8080>>)), A(B(<<QLo2>>)) }

\* http://example.com/, ftp://192.168.1.1:8080/, http://[2001:db8::add]/,
\* --url=http://example.com/, 192.168.1.1:8080, example.com:8080,
\* [2001:db8::add]:8080, 2001:db8::add, 999.1.1.1
ExternalForms ==
    { A(U("http", B(<<NEx>>))), A(U("ftp", B(<<QPriv, D8080>>))),
      A(U("http", Br(V6Doc, <<>>))), F(U("http", B(<<NEx>>))),
      A(B(<<QPriv, D8080>>)), A(B(<<NEx, D8080>>)),
      A(Br(V6Doc, <<D8080>>)), A(B(V6Doc)), A(B(<<QBad>>)) }

\* test, ./..., -v
PlainWords == { A(B(<<NTest>>)), A(B(<<OPath>>)), BareFlag }

\* 10, add, -count=1
HexWords == { A(B(<<D10>>)), A(B(<<Hadd>>)), F(B(<<D1>>)) }

\* ::1, ::1:8080 (ambiguous: an address, or ::1 and a port)
BareIPv6 == { A(B(V6Lo)), A(B(V6Lo \o <<D8080>>)) }

\* http://[2001:db8::add/ (one bracket), ::1], [::1
Malformed ==
    { A(U("http", [Br(V6Doc, <<>>) EXCEPT !.rb = FALSE])),
      A([Br(V6Lo, <<>>) EXCEPT !.lb = FALSE]), A([Br(V6Lo, <<>>) EXCEPT !.rb = FALSE]) }

\* ws://example.com/
OtherSchemes == { A(U("ws", B(<<NEx>>))) }

\* ::ffff:8.8.8.8, [::ffff:8.8.8.8]:53, 64:ff9b::8.8.8.8: IPv6 literals
\* with a dotted IPv4 tail, which ipaddress accepts and which name 8.8.8.8.
EmbeddedV4 == { A(B(V6Map)), A(Br(V6Map, <<D53>>)), A(B(V6Nat)) }

AllTokens == LoopbackForms \cup ExternalForms \cup PlainWords \cup HexWords
             \cup BareIPv6 \cup Malformed \cup OtherSchemes
HexTokens    == LoopbackForms \cup PlainWords \cup HexWords
V6Tokens     == LoopbackForms \cup PlainWords \cup BareIPv6
MappedTokens == LoopbackForms \cup PlainWords \cup EmbeddedV4

-----------------------------------------------------------------------------
Init == args \in {<<Command>> \o s : s \in BoundedSeq(Tokens, MaxArgs)}

Next == UNCHANGED args

Spec == Init /\ [][Next]_args

-----------------------------------------------------------------------------
(* The policy of spec.md 4.1-4.3, as reference definitions.                *)

\* The loop inspects a token unless it is a flag without "=" (4.1, last rule).
Inspected(t) == ~t.dash \/ t.eq

\* 4.1 rule 5: no URL scheme, no dotted quad, no bracket and no colon: the
\* token is not network-shaped (rule 3 asks for a bracket or a colon).
NotNetworkShaped(a) ==
    /\ a.scheme \notin URL_SCHEMES
    /\ ~a.lb /\ ~a.rb /\ ~HasColon(a)
    /\ a.core[1].cls # "dotted4"

\* A token that unambiguously names one endpoint: matched brackets around
\* an IPv6 address, a host, host:port, or a bare IPv6 address whose last
\* group is not a number (spec.md 9 keeps "::1:8080" ambiguous).
WellFormed(a) ==
    /\ a.lb = a.rb
    /\ a.lb => IPv6Address(a.core).ok /\ (a.port = <<>> \/ IsDigits(a.port[1]))
    /\ ~a.lb => \/ Len(a.core) = 1 /\ a.core[1].cls # "empty"
                \/ Len(a.core) = 2 /\ a.core[1].cls # "empty" /\ IsDigits(a.core[2])
                \/ /\ Len(a.core) >= 3 /\ a.scheme = ""
                   /\ IPv6Address(a.core).ok /\ ~IsDigits(Last(a.core))

\* The host a well-formed token names.
Target(a) ==
    IF a.lb THEN a.core
    ELSE IF Len(a.core) <= 2 THEN <<a.core[1]>>
    ELSE a.core

\* 4.2: a loopback name in any letter case, 127.0.0.0/8 or ::1.
RefLoopback(gs) ==
    \/ Len(gs) = 1 /\ gs[1].low \in LOOPBACK_HOSTNAMES
    \/ IPv4Address(gs) /\ gs[1].quad[1] = 127
    \/ IPv6Address(gs).ok /\ IPv6Address(gs).words = <<0, 0, 0, 0, 0, 0, 0, 1>>

\* The token names a loopback endpoint, or is itself a loopback address.
DesignatesLoopback(a) ==
    \/ WellFormed(a) /\ RefLoopback(Target(a))
    \/ Bare(a) /\ ~a.lb /\ ~a.rb /\ RefLoopback(a.core)

Approved == ValidateNetworkArgs(args).ok

-----------------------------------------------------------------------------
(* Properties.                                                             *)

\* Soundness of the gate (validate_network_args, lines 105-142): when the
\* whole argument vector is approved, every inspected argument that spec
\* 4.1 calls network-shaped (an http/https/ftp/ftps URL, a dotted quad, a
\* bracket or colon form) and that names one endpoint names a loopback
\* host, whatever its position, its flag prefix or the pattern it matches.
Soundness ==
    Approved =>
        \A i \in DOMAIN args :
            LET a == args[i].body IN
            (Inspected(args[i]) /\ ~NotNetworkShaped(a) /\ a.scheme \in URL_SCHEMES \cup {""}
                /\ WellFormed(a)) => RefLoopback(Target(a))

\* Spec 4.3: a command without network-shaped arguments is always allowed;
\* a plain word or number such as "10" or "-count=1" has no scheme, no
\* dotted quad, no bracket and no colon (IPV6_PATTERN, line 46).
NonNetworkApproved ==
    (\A i \in DOMAIN args : Inspected(args[i]) => NotNetworkShaped(args[i].body))
        => Approved

\* Spec 4.2 and the diagnostic of line 287: the loopback addresses
\* 127.0.0.1, ::1 and localhost are allowed, so a vector whose inspected
\* arguments all name loopback is approved (extract_host_from_address,
\* lines 90-94, on a bare "::1").
LoopbackLiteralsApproved ==
    (\A i \in DOMAIN args :
        Inspected(args[i]) =>
            NotNetworkShaped(args[i].body) \/ DesignatesLoopback(args[i].body))
        => Approved

=============================================================================
