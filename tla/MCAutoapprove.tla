--------------------------- MODULE MCAutoapprove ---------------------------
(***************************************************************************)
(* Instantiates Autoapprove for TLC: two wrapper processes started with    *)
(* invocations from a small table that covers every branch of main and     *)
(* run_command.                                                            *)
(***************************************************************************)
EXTENDS Autoapprove

G(txt, cls, low) == [txt |-> txt, cls |-> cls, len |-> 0, hexval |-> -1, quad |-> <<>>, low |-> low]
B(gs)    == [scheme |-> "", lb |-> FALSE, core |-> gs, rb |-> FALSE, port |-> <<>>, path |-> FALSE]
A(b)     == [dash |-> FALSE, eq |-> FALSE, body |-> b]
Url(s, h, port) ==
    A([B(<<h>> \o port) EXCEPT !.scheme = s, !.path = TRUE])

Curl        == A(B(<<G("curl", "name", "curl")>>))
UsrBinCurl  == A(B(<<G("/usr/bin/curl", "other", "/usr/bin/curl")>>))
Echo        == A(B(<<G("echo", "name", "echo")>>))
LocalUrl    == Url("http", G("localhost", "name", "localhost"),
                   <<[G("8080", "digits", "8080") EXCEPT !.len = 4, !.hexval = 32896]>>)
ExternalUrl == Url("http", G("example.com", "name", "example.com"), <<>>)

\* os.path.basename, then re.sub(r"[^\w\-.]", "_", ...).
MCSafeName(t) == IF t = Echo THEN "echo" ELSE "curl"

\* One CPU figure is enough: the times are only copied into result.log.
MCChildCpu == {<<1, 0>>}

\* curl http://localhost:8080/api < data        allowed
\* curl http://example.com/                      denied by the gate
\* (no command)                                  help, exit 1
\* echo, stdin a terminal                        allowed
\* --skip-validation /usr/bin/curl http://example.com/ < /dev/null
\* the same from a terminal
\* curl http://localhost:8080/api, stdin a pipe whose writer never closes
Local    == [argv |-> <<Curl, LocalUrl>>, skip |-> FALSE, stdin |-> "data"]
Denied   == [argv |-> <<Curl, ExternalUrl>>, skip |-> FALSE, stdin |-> "tty"]
Help     == [argv |-> <<>>, skip |-> FALSE, stdin |-> "tty"]
EchoTty  == [argv |-> <<Echo>>, skip |-> FALSE, stdin |-> "tty"]
Skipped  == [argv |-> <<UsrBinCurl, ExternalUrl>>, skip |-> TRUE, stdin |-> ""]
SkippedTty == [Skipped EXCEPT !.stdin = "tty"]
Held     == [argv |-> <<Curl, LocalUrl>>, skip |-> FALSE, stdin |-> "open"]

AllInvocations == {Local, Denied, Help, EchoTty, Skipped}
Colliding      == {Local, Skipped}
TtyOnly        == {EchoTty}
LocalOnly      == {Local}
RefInvocations == {Local, Help, SkippedTty, Held}

\* Processes whose commands have different sanitised names: their report
\* directories never share a name.
DistinctNames ==
    \A p, q \in Procs :
        p # q /\ inv[p].argv # <<>> /\ inv[q].argv # <<>>
            => SafeName(inv[p].argv[1]) # SafeName(inv[q].argv[1])

InitDistinct == Init /\ DistinctNames

\* Invocations run one after another: a process leaves main only once every
\* other started one has ended and the clock has moved past the timestamp
\* of its report directory.
OneAfterAnother ==
    \A p \in Procs :
        (pc[p] = "main" /\ pc'[p] # "main") =>
            \A q \in Procs \ {p} :
                pc[q] = "main" \/ (pc[q] \in Final /\ (dir[q] # None => now > dir[q][1]))

SpecDistinct == InitDistinct /\ [][Next]_vars /\ Fairness

\* The wrapper processes are interchangeable: nothing in the code or the
\* invariants tells p1 from p2.  Used only where no liveness is checked.
ProcSymmetry == Permutations(Procs)

=============================================================================
