----------------------------- MODULE Classifier -----------------------------
(***************************************************************************)
(* The argument gate of scripts/autoapprove/autoapprove.py: the four       *)
(* argument patterns, the two host extractors, the loopback predicates and *)
(* validate_network_args, as pure operators.                               *)
(*                                                                         *)
(* Data abstraction.  An argument is not a character string but the        *)
(* structure the patterns look at:                                         *)
(*   Token == [dash, eq, body]   dash: the token starts with "-";          *)
(*                               eq:   it contains "=" (the body is then   *)
(*                                     the text after the first "=")       *)
(*   Body  == [scheme, lb, core, rb, port, path]                           *)
(*     text = scheme"://"? "["? core[1]":"core[2]":"... "]"? (":"port)?    *)
(*            ("/..." when path)                                           *)
(* The core is the colon-separated sequence of groups, so every ":" of the *)
(* text before a "]" is a group boundary; port is non-empty only after a   *)
(* "]" (an unbracketed port is the last core group).  A group is a record  *)
(* whose cls names the character class of its characters:                  *)
(*   "empty"   ""                                                          *)
(*   "digits"  [0-9]+                                                      *)
(*   "hex"     [0-9a-fA-F]+ with a letter                                  *)
(*   "dotted4" \d{1,3}(\.\d{1,3}){3}   (quad holds its four numbers)       *)
(*   "name"    [a-zA-Z0-9.-]+ and none of the above                        *)
(*   "other"   has a character outside [a-zA-Z0-9.-]                       *)
(* len is its length, hexval its value read as hex (digits, hex) and low   *)
(* its lower-case text.  An extracted host is an Addr [lb, gs, rb, port]:  *)
(* the same layout without scheme and path.                                *)
(***************************************************************************)
EXTENDS Integers, Sequences, SequencesExt, FiniteSets

CONSTANT None   \* the Python value None: no host could be extracted

\* Line 39: the allowed loopback host names.
LOOPBACK_HOSTNAMES == {"localhost", "localhost.localdomain", "ip6-localhost", "ip6-loopback"}

\* Line 42: the URL schemes URL_PATTERN recognises (case-insensitively).
URL_SCHEMES == {"http", "https", "ftp", "ftps"}

IsDigits(g)  == g.cls = "digits"
HexChars(g)  == g.cls \in {"digits", "hex"}
HostChars(g) == g.cls \in {"digits", "hex", "dotted4", "name"}

\* The colon-joined text of gs is not "".
NonEmpty(gs) == Len(gs) > 1 \/ gs[1].cls # "empty"

\* ":" occurs in the text of a scheme-less body.
HasColon(b) == Len(b.core) > 1 \/ b.port # <<>>

\* No "://" and no "/...": the only bodies the address patterns can match.
Bare(b) == b.scheme = "" /\ ~b.path

Plain(gs) == [lb |-> FALSE, gs |-> gs, rb |-> FALSE, port |-> <<>>]
AsAddr(b) == [lb |-> b.lb, gs |-> b.core, rb |-> b.rb, port |-> b.port]

-----------------------------------------------------------------------------
(* Lines 42-48: the four patterns, anchored with ^...$.                    *)

URL_PATTERN(b) == b.scheme \in URL_SCHEMES

IPV4_PATTERN(b) ==
    /\ Bare(b) /\ ~b.lb /\ ~b.rb
    /\ b.core[1].cls = "dotted4"
    /\ \/ Len(b.core) = 1
       \/ Len(b.core) = 2 /\ IsDigits(b.core[2])

\* ^\[?([0-9a-fA-F:]+)\]?(:\d+)?$ : both brackets are optional on their own.
IPV6_PATTERN(b) ==
    /\ Bare(b)
    /\ \A i \in DOMAIN b.core : b.core[i].cls = "empty" \/ HexChars(b.core[i])
    /\ NonEmpty(b.core)
    /\ b.port = <<>> \/ IsDigits(b.port[1])

HOST_PORT_PATTERN(b) ==
    /\ Bare(b) /\ ~b.lb /\ ~b.rb
    /\ HostChars(b.core[1])
    /\ \/ Len(b.core) = 1
       \/ Len(b.core) = 2 /\ IsDigits(b.core[2])

-----------------------------------------------------------------------------
(* Python's ipaddress, as called by is_loopback_address (line 54).         *)

IPv4Address(gs) ==
    Len(gs) = 1 /\ gs[1].cls = "dotted4" /\ \A i \in 1..4 : gs[1].quad[i] <= 255

\* One ':'-separated part: empty, or its value as a hextet (-1: not 1-4 hex).
Part(g) == [empty |-> g.cls = "empty",
            val   |-> IF HexChars(g) /\ g.len <= 4 THEN g.hexval ELSE -1]

\* IPv6Address._ip_int_from_string: [ok, words] with the eight hextets.
IPv6Address(gs) ==
    LET v4  == gs[Len(gs)].cls = "dotted4"
        q   == gs[Len(gs)].quad
        P   == IF v4 THEN [i \in 1..Len(gs) - 1 |-> Part(gs[i])]
                          \o << [empty |-> FALSE, val |-> q[1] * 256 + q[2]],
                               [empty |-> FALSE, val |-> q[3] * 256 + q[4]] >>
                     ELSE [i \in 1..Len(gs) |-> Part(gs[i])]
        n     == Len(P)
        skips == {i \in 2..n - 1 : P[i].empty}
        s     == CHOOSE i \in skips : TRUE
        hi    == IF skips = {} THEN n ELSE IF P[1].empty THEN 0 ELSE s - 1
        lo    == IF skips = {} THEN 0 ELSE IF P[n].empty THEN 0 ELSE n - s
        shape == IF skips = {}
                 THEN n = 8 /\ ~P[1].empty /\ ~P[n].empty
                 ELSE /\ Cardinality(skips) = 1
                      /\ P[1].empty => s = 2
                      /\ P[n].empty => s = n - 1
                      /\ hi + lo <= 7
        used  == [i \in 1..hi |-> P[i]] \o [i \in 1..lo |-> P[n - lo + i]]
    IN  IF /\ Len(gs) >= 3
           /\ v4 => IPv4Address(<<gs[Len(gs)]>>)
           /\ n <= 9
           /\ shape
           /\ \A i \in DOMAIN used : used[i].val >= 0
        THEN [ok |-> TRUE,
              words |-> [i \in 1..hi |-> used[i].val]
                        \o [i \in 1..8 - (hi + lo) |-> 0]
                        \o [i \in 1..lo |-> used[hi + i].val]]
        ELSE [ok |-> FALSE, words |-> <<>>]

-----------------------------------------------------------------------------
(* Lines 51-70: the loopback predicates.                                   *)

\* is_loopback_address: ip_address tries IPv4 first; ValueError -> FALSE.
IsLoopbackAddress(gs) ==
    IF IPv4Address(gs) THEN gs[1].quad[1] = 127
    ELSE IPv6Address(gs).ok /\ IPv6Address(gs).words = <<0, 0, 0, 0, 0, 0, 0, 1>>

\* is_allowed_host: host.strip("[]") removes a leading "[" and, unless a
\* port follows it, the "]"; a "]" left inside the text fails both checks.
IsAllowedHost(h) ==
    /\ h.port = <<>>
    /\ \/ Len(h.gs) = 1 /\ h.gs[1].low \in LOOPBACK_HOSTNAMES
       \/ IsLoopbackAddress(h.gs)

-----------------------------------------------------------------------------
(* Lines 73-95: the host extractors.                                       *)

\* extract_host_from_url: urlparse(url).hostname under Python >= 3.11.4.
\* urlsplit raises ValueError (caught: None) on one unmatched bracket and on
\* a bracketed host that is not an IPv6 address; hostname is the bracketed
\* text, or the netloc up to its first ":", None when that is empty.
ExtractHostFromUrl(b) ==
    IF b.lb # b.rb THEN None
    ELSE IF b.lb THEN (IF IPv6Address(b.core).ok THEN Plain(b.core) ELSE None)
    ELSE IF b.core[1].cls = "empty" THEN None
    ELSE Plain(<<b.core[1]>>)

\* extract_host_from_address: the balanced "[...]" form, else rsplit(":", 1)
\* keeping the head when the last piece is all digits, else the whole text.
\* The last piece is the port after "]", or the last core group ("...]"
\* when a "]" closes it, which is never all digits).
ExtractHostFromAddress(b) ==
    LET whole == AsAddr(b) IN
    IF b.lb
    THEN IF b.rb /\ (b.port = <<>> \/ IsDigits(b.port[1])) THEN Plain(b.core)
         ELSE whole
    ELSE IF ~HasColon(b) THEN whole
    ELSE IF b.port # <<>>
         THEN IF IsDigits(b.port[1]) THEN [whole EXCEPT !.port = <<>>] ELSE whole
    ELSE IF ~b.rb /\ IsDigits(Last(b.core)) THEN Plain(Front(b.core))
    ELSE whole

\* Python truthiness of the extracted host: not None and not "".
Truthy(h) == h # None /\ (h.lb \/ h.rb \/ h.port # <<>> \/ NonEmpty(h.gs))

-----------------------------------------------------------------------------
(* Lines 98-142: validate_network_args.                                    *)

Categories == {"URL", "IPv4", "IPv6", "HostPort"}

\* The category reported when the host extracted for it is denied, else "ok".
Verdict(cat, host) == IF Truthy(host) /\ ~IsAllowedHost(host) THEN cat ELSE "ok"

\* Mutant: every token starting with "-" is skipped, "=" or not.
CheckArg_FlagValueSkipped(t) ==
    IF t.dash THEN "skip"
    ELSE LET a == t.body IN
         IF URL_PATTERN(a) THEN Verdict("URL", ExtractHostFromUrl(a))
         ELSE IF IPV4_PATTERN(a) THEN Verdict("IPv4", ExtractHostFromAddress(a))
         ELSE IF IPV6_PATTERN(a) THEN Verdict("IPv6", ExtractHostFromAddress(a))
         ELSE IF HOST_PORT_PATTERN(a) /\ HasColon(a)
              THEN Verdict("HostPort", ExtractHostFromAddress(a))
         ELSE "ok"

\* One iteration of the loop (lines 106-140): "skip" for a bare flag, a
\* category for a denial, "ok" otherwise; first matching pattern wins.
CheckArg(t) ==
    IF t.dash /\ ~t.eq THEN "skip"
    ELSE LET a == t.body IN
         IF URL_PATTERN(a) THEN Verdict("URL", ExtractHostFromUrl(a))
         ELSE IF IPV4_PATTERN(a) THEN Verdict("IPv4", ExtractHostFromAddress(a))
         ELSE IF IPV6_PATTERN(a) THEN Verdict("IPv6", ExtractHostFromAddress(a))
         ELSE IF HOST_PORT_PATTERN(a) /\ HasColon(a)
              THEN Verdict("HostPort", ExtractHostFromAddress(a))
         ELSE "ok"

\* The (is_valid, error_message) pair: [ok, cat, at], at the index of the
\* offending argument; the loop returns on the first denial.
ValidateNetworkArgs(args) ==
    LET RECURSIVE Scan(_)
        Scan(i) ==
            IF i > Len(args) THEN [ok |-> TRUE, cat |-> "", at |-> 0]
            ELSE IF CheckArg(args[i]) \in Categories
                 THEN [ok |-> FALSE, cat |-> CheckArg(args[i]), at |-> i]
                 ELSE Scan(i + 1)
    IN  Scan(1)

=============================================================================
