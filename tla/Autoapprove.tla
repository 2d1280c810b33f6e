----------------------------- MODULE Autoapprove -----------------------------
(***************************************************************************)
(* The wrapper process of scripts/autoapprove/autoapprove.py: main() and   *)
(* run_command(), one process per invocation, several running at once over *)
(* one shared test-output/autoapprove tree.  Each step is one statement    *)
(* group of the code in its order; a process may be killed between any two *)
(* steps, and any mkdir or log write may raise OSError (disk full,         *)
(* permissions), which main does not catch.  The gate is the Classifier's  *)
(* ValidateNetworkArgs.                                                    *)
(***************************************************************************)
EXTENDS Classifier

CONSTANTS
    Procs,        \* concurrent wrapper processes
    Invocations,  \* [argv, skip, stdin]: argv a token sequence, skip the
                  \* --skip-validation flag, stdin "tty", the piped
                  \* bytes, or "open": a pipe never closed
    SafeName(_),  \* re.sub(r"[^\w\-.]", "_", os.path.basename(argv[1]))
    ChildCodes,   \* exit codes a spawned child may return
    ChildRss,     \* peak resident set sizes, in KB, a spawned child may reach
    ChildCpu,     \* <<user, system>> CPU times a spawned child may use
    Platform,     \* sys.platform: "linux", "darwin" or "win32"
    TtyInput,     \* what a user may type on the terminal
    MaxClock      \* the millisecond clock runs over 0..MaxClock

VARIABLES
    pc,        \* pc[p]: the next step of process p
    inv,       \* inv[p]: the invocation p runs
    stdinData, \* stdin_data (line 292): None or the bytes read
    dir,       \* report_dir (line 298): None or <<timestamp, safe name>>
    now,       \* the wall clock, in milliseconds
    child,     \* None, or what the spawned child does
    captured,  \* stdout_data, stderr_data, exit_code (lines 201-215)
    made,      \* report directories that exist
    files,     \* files[d][a]: the content of artifact a of directory d
    ret,       \* the exit status of process p, None while it runs
    caller,    \* what p forwarded to its caller (lines 245-248)
    mono,      \* time.perf_counter(), the monotonic clock, in milliseconds
    timing     \* start/end wall times and perf_counter readings of p's run

vars == <<pc, inv, stdinData, dir, now, child, captured, made, files, ret, caller, mono, timing>>

Artifacts == <<"STDIN.log", "STDOUT.log", "STDERR.log", "result.log">>
DirNames == (0..MaxClock) \X {SafeName(i.argv[1]) : i \in {j \in Invocations : j.argv # <<>>}}
SpawnErrors == {"FileNotFoundError", "PermissionError", "Exception"}
Final == {"exited", "crashed"}
Truncated == "truncated"   \* what a write that failed after opening leaves

\* The artifact each logging step writes.
StepArtifact == [log_stdin |-> 1, log_out |-> 2, log_err |-> 3, log_result |-> 4]

\* Mutant: the catch-all handler reports -1 (sys.exit makes it 255).
SpawnErrorCode_Negative(e) == CASE e = "FileNotFoundError" -> 127
                              [] e = "PermissionError"   -> 126
                              [] e = "Exception"         -> -1

\* Lines 204-215: the exit code reported for a spawn that raised.
SpawnErrorCode(e) == CASE e = "FileNotFoundError" -> 127
                       [] e = "PermissionError"   -> 126
                       [] e = "Exception"         -> 1

\* The gate of lines 283-289.
Allowed(p) == inv[p].skip \/ ValidateNetworkArgs(inv[p].argv).ok

Write(d, a, content) == files' = [files EXCEPT ![d][Artifacts[a]] = content]

Init ==
    /\ inv \in [Procs -> Invocations]
    /\ pc = [p \in Procs |-> "main"]
    /\ stdinData = [p \in Procs |-> None]
    /\ dir = [p \in Procs |-> None]
    /\ now = 0
    /\ child = [p \in Procs |-> None]
    /\ captured = [p \in Procs |-> None]
    /\ made = {}
    /\ files = [d \in DirNames |-> [a \in {Artifacts[i] : i \in 1..4} |-> None]]
    /\ ret = [p \in Procs |-> None]
    /\ caller = [p \in Procs |-> None]
    /\ mono = 0
    /\ timing = [p \in Procs |-> None]

-----------------------------------------------------------------------------
(* main(), lines 274-298.                                                  *)

\* Lines 274-289: no command prints the help; a denied command prints the
\* three diagnostics; both return 1.  Otherwise go on.
Main(p) ==
    /\ pc[p] = "main"
    /\ IF inv[p].argv = <<>> \/ ~Allowed(p)
       THEN pc' = [pc EXCEPT ![p] = "exited"] /\ ret' = [ret EXCEPT ![p] = 1]
       ELSE pc' = [pc EXCEPT ![p] = "read_stdin"] /\ UNCHANGED ret
    /\ UNCHANGED <<inv, stdinData, dir, now, child, captured, made, files, caller, mono, timing>>

\* Mutant: the isatty check dropped, so a terminal is read too; read()
\* then returns only when the user types the end-of-file key.
ReadStdin_NoTtyCheck(p) ==
    /\ pc[p] = "read_stdin"
    /\ inv[p].stdin \notin {"open", "tty"}
    /\ stdinData' = [stdinData EXCEPT ![p] = inv[p].stdin]
    /\ pc' = [pc EXCEPT ![p] = "mkdir"]
    /\ UNCHANGED <<inv, dir, now, child, captured, made, files, ret, caller, mono, timing>>

\* Lines 292-294: the whole of stdin unless it is a terminal.  read()
\* returns at end-of-file only: on a pipe whose writer never closes it
\* ("open") the process blocks here for good.
ReadStdin(p) ==
    /\ pc[p] = "read_stdin"
    /\ inv[p].stdin # "open"
    /\ stdinData' = [stdinData EXCEPT ![p] = IF inv[p].stdin = "tty" THEN None ELSE inv[p].stdin]
    /\ pc' = [pc EXCEPT ![p] = "mkdir"]
    /\ UNCHANGED <<inv, dir, now, child, captured, made, files, ret, caller, mono, timing>>

\* Lines 297-298 and create_report_directory (150-157): the name is the
\* millisecond timestamp and the sanitised command name; mkdir(exist_ok=True)
\* succeeds on a directory another process already made.
CreateReportDir(p) ==
    /\ pc[p] = "mkdir"
    /\ dir' = [dir EXCEPT ![p] = <<now, SafeName(inv[p].argv[1])>>]
    /\ made' = made \cup {dir'[p]}
    /\ pc' = [pc EXCEPT ![p] = "log_stdin"]
    /\ UNCHANGED <<inv, stdinData, now, child, captured, files, ret, caller, mono, timing>>

-----------------------------------------------------------------------------
(* run_command(), lines 183-248.                                           *)

\* Lines 182-191: start_time from perf_counter, start_datetime from the
\* wall clock; STDIN.log gets the bytes, or "" when there are none.
LogStdin(p) ==
    /\ pc[p] = "log_stdin"
    /\ timing' = [timing EXCEPT ![p] = [start |-> now, t0 |-> mono, end |-> None, dur |-> None]]
    /\ Write(dir[p], 1, [by |-> p, data |-> IF stdinData[p] = None THEN "" ELSE stdinData[p]])
    /\ pc' = [pc EXCEPT ![p] = "spawn"]
    /\ UNCHANGED <<inv, stdinData, dir, now, child, captured, made, ret, caller, mono>>

\* Lines 194-215: subprocess.run either raises while spawning (the three
\* handlers make up the outcome) or starts the child.  With input=None the
\* child inherits the wrapper's stdin: on a terminal it may read what the
\* user types.  A started child may never exit; nothing times it out.
Spawn(p) ==
    /\ pc[p] = "spawn"
    /\ \/ \E e \in SpawnErrors :
            /\ child' = [child EXCEPT ![p] = [state |-> "failed", error |-> e, code |-> SpawnErrorCode(e),
                                               read |-> "", hang |-> FALSE, rss |-> 0, cpu |-> <<0, 0>>]]
            /\ captured' = [captured EXCEPT ![p] = [out |-> "", err |-> e, code |-> SpawnErrorCode(e)]]
            /\ pc' = [pc EXCEPT ![p] = "log_out"]
       \/ \E c \in ChildCodes, h \in BOOLEAN, m \in ChildRss, u \in ChildCpu,
             r \in IF stdinData[p] = None THEN {"", TtyInput} ELSE {stdinData[p]} :
            /\ child' = [child EXCEPT ![p] = [state |-> "running", error |-> "", code |-> c,
                                               read |-> r, hang |-> h, rss |-> m, cpu |-> u]]
            /\ pc' = [pc EXCEPT ![p] = "wait"]
            /\ UNCHANGED captured
    /\ UNCHANGED <<inv, stdinData, dir, now, made, files, ret, caller, mono, timing>>

\* Lines 195-203: the child exits; its whole output is captured.
WaitChild(p) ==
    /\ pc[p] = "wait"
    /\ ~child[p].hang
    /\ child' = [child EXCEPT ![p].state = "exited"]
    /\ captured' = [captured EXCEPT ![p] = [out |-> "stdout", err |-> "stderr",
                                             code |-> child[p].code]]
    /\ pc' = [pc EXCEPT ![p] = "log_out"]
    /\ UNCHANGED <<inv, stdinData, dir, now, made, files, ret, caller, mono, timing>>

\* Lines 217-224: end_time and end_datetime are read, the duration is the
\* perf_counter difference; then STDOUT.log is written.
WriteStdoutLog(p) ==
    /\ pc[p] = "log_out"
    /\ timing' = [timing EXCEPT ![p].end = now, ![p].dur = mono - timing[p].t0]
    /\ Write(dir[p], 2, [by |-> p, data |-> captured[p].out])
    /\ pc' = [pc EXCEPT ![p] = "log_err"]
    /\ UNCHANGED <<inv, stdinData, dir, now, child, captured, made, ret, caller, mono>>

\* Mutant: stderr_log.write_bytes(stdout_data).
WriteStderrLog_StdoutData(p) ==
    /\ pc[p] = "log_err"
    /\ Write(dir[p], 3, [by |-> p, data |-> captured[p].out])
    /\ pc' = [pc EXCEPT ![p] = "log_result"]
    /\ UNCHANGED <<inv, stdinData, dir, now, child, captured, made, ret, caller, mono, timing>>

\* Line 225.
WriteStderrLog(p) ==
    /\ pc[p] = "log_err"
    /\ Write(dir[p], 3, [by |-> p, data |-> captured[p].err])
    /\ pc' = [pc EXCEPT ![p] = "log_result"]
    /\ UNCHANGED <<inv, stdinData, dir, now, child, captured, made, ret, caller, mono, timing>>

\* Lines 232-241: the result.log text from the exit code, the timing
\* record and the usage record (the command and cwd lines are left out;
\* times are in milliseconds).
ResultText(code, t, u) ==
    "exit_code: " \o ToString(code) \o "\nstart_time: " \o ToString(t.start)
    \o "\nend_time: " \o ToString(t.end) \o "\nduration_seconds: " \o ToString(t.dur)
    \o "\ncpu_user_time_seconds: " \o ToString(u.user)
    \o "\ncpu_system_time_seconds: " \o ToString(u.sys)
    \o "\nmax_memory_kb: " \o ToString(u.mem)

\* get_resource_usage (160-173): no resource module on Windows gives
\* zeros; otherwise RUSAGE_CHILDREN, the times and the peak of the reaped
\* child, whose ru_maxrss the kernel gives in KB on Linux, bytes on macOS.
GetResourceUsage(p) ==
    IF Platform = "win32" THEN [user |-> 0, sys |-> 0, mem |-> 0]
    ELSE [user |-> child[p].cpu[1], sys |-> child[p].cpu[2],
          mem |-> IF Platform = "darwin" THEN child[p].rss * 1024 ELSE child[p].rss]

WriteResultLog(p) ==
    /\ pc[p] = "log_result"
    /\ Write(dir[p], 4, [by |-> p, data |-> ResultText(captured[p].code, timing[p], GetResourceUsage(p))])
    /\ pc' = [pc EXCEPT ![p] = "forward"]
    /\ UNCHANGED <<inv, stdinData, dir, now, child, captured, made, ret, caller, mono, timing>>

\* Mutant: main calls run_command without returning its result, so
\* sys.exit(None) exits 0.
Forward_NoReturn(p) ==
    /\ pc[p] = "forward"
    /\ caller' = [caller EXCEPT ![p] = captured[p]]
    /\ ret' = [ret EXCEPT ![p] = 0]
    /\ pc' = [pc EXCEPT ![p] = "exited"]
    /\ UNCHANGED <<inv, stdinData, dir, now, child, captured, made, files, mono, timing>>

\* Lines 245-248 and 301-307: the captured bytes go to the caller's
\* streams and the exit code becomes the wrapper's exit status.
Forward(p) ==
    /\ pc[p] = "forward"
    /\ caller' = [caller EXCEPT ![p] = captured[p]]
    /\ ret' = [ret EXCEPT ![p] = captured[p].code]
    /\ pc' = [pc EXCEPT ![p] = "exited"]
    /\ UNCHANGED <<inv, stdinData, dir, now, child, captured, made, files, mono, timing>>

-----------------------------------------------------------------------------
(* Failures and the clock.                                                 *)

\* Mutant: each log write wrapped in contextlib.suppress(OSError), so a
\* failed write is skipped and the next step runs.
ReportingFailure_Suppressed(p) ==
    /\ pc[p] \in {"log_stdin", "log_out", "log_err", "log_result"}
    /\ \/ UNCHANGED files
       \/ Write(dir[p], StepArtifact[pc[p]], [by |-> p, data |-> Truncated])
    /\ timing' = CASE pc[p] = "log_stdin" ->
                        [timing EXCEPT ![p] = [start |-> now, t0 |-> mono, end |-> None, dur |-> None]]
                    [] pc[p] = "log_out" ->
                        [timing EXCEPT ![p].end = now, ![p].dur = mono - timing[p].t0]
                    [] OTHER -> timing
    /\ pc' = [pc EXCEPT ![p] = [log_stdin |-> "spawn", log_out |-> "log_err",
                                 log_err |-> "log_result", log_result |-> "forward"][pc[p]]]
    /\ UNCHANGED <<inv, stdinData, dir, now, child, captured, made, ret, caller, mono>>

\* mkdir (line 156), a log write (lines 189-191, 224-225, 242) or the
\* write to the caller's streams (245-248, BrokenPipeError when the caller
\* has gone) raises OSError; nothing catches it, so Python exits with
\* status 1.  write_bytes and write_text open with truncation first: the
\* file may be left empty.
ReportingFailure(p) ==
    /\ pc[p] \in {"mkdir", "log_stdin", "log_out", "log_err", "log_result", "forward"}
    /\ \/ UNCHANGED files
       \/ /\ pc[p] \notin {"mkdir", "forward"}
          /\ Write(dir[p], StepArtifact[pc[p]], [by |-> p, data |-> Truncated])
    /\ pc' = [pc EXCEPT ![p] = "exited"]
    /\ ret' = [ret EXCEPT ![p] = 1]
    /\ UNCHANGED <<inv, stdinData, dir, now, child, captured, made, caller, mono, timing>>

\* The process is killed (a signal, or Ctrl-C raising KeyboardInterrupt).
Crash(p) ==
    /\ pc[p] \notin Final
    /\ pc' = [pc EXCEPT ![p] = "crashed"]
    /\ UNCHANGED <<inv, stdinData, dir, now, child, captured, made, files, ret, caller, mono, timing>>

\* A millisecond passes: both clocks advance.
Tick ==
    /\ mono < MaxClock
    /\ now' = now + 1 /\ mono' = mono + 1
    /\ UNCHANGED <<pc, inv, stdinData, dir, child, captured, made, files, ret, caller, timing>>

\* get_timestamp reads datetime.now(UTC), the wall clock, which NTP or an
\* administrator may step back.
ClockStepBack ==
    /\ now > 0
    /\ now' \in 0..(now - 1)
    /\ UNCHANGED <<pc, inv, stdinData, dir, child, captured, made, files, ret, caller, mono, timing>>

\* The steps a running process takes on its own.
Run(p) ==
    \/ Main(p) \/ ReadStdin(p) \/ CreateReportDir(p) \/ LogStdin(p) \/ Spawn(p)
    \/ WaitChild(p) \/ WriteStdoutLog(p) \/ WriteStderrLog(p) \/ WriteResultLog(p)
    \/ Forward(p)

Next ==
    \/ \E p \in Procs : Run(p) \/ ReportingFailure(p) \/ Crash(p)
    \/ Tick \/ ClockStepBack

\* The OS keeps running a runnable process, and the caller reads what the
\* wrapper writes to it (else Forward blocks); failures and the clock are
\* not assumed to happen.
Fairness == \A p \in Procs : WF_vars(Run(p))

Spec == Init /\ [][Next]_vars /\ Fairness

-----------------------------------------------------------------------------
(* Properties.                                                             *)

\* The contents an artifact can have: stdin bytes, child output, a spawn
\* error text, an exit code, or what a failed write left.
Codes == ChildCodes \cup {1, 126, 127}
Usages == {[user |-> 0, sys |-> 0, mem |-> 0]}
          \cup {[user |-> u[1], sys |-> u[2], mem |-> m] :
                   u \in ChildCpu, m \in ChildRss \cup {k * 1024 : k \in ChildRss}}
RecordedTimes == [start : 0..MaxClock, end : 0..MaxClock, dur : -MaxClock..MaxClock]
ResultTexts == {ResultText(c, t, u) : c \in Codes, t \in RecordedTimes, u \in Usages}
Contents == {i.stdin : i \in Invocations} \cup {"", TtyInput, Truncated, "stdout", "stderr"}
            \cup SpawnErrors \cup ResultTexts
Records == [by : Procs, data : Contents]

TypeOK ==
    /\ pc \in [Procs -> {"main", "read_stdin", "mkdir", "log_stdin", "spawn", "wait",
                         "log_out", "log_err", "log_result", "forward"} \cup Final]
    /\ dir \in [Procs -> DirNames \cup {None}]
    /\ made \subseteq DirNames
    /\ now \in 0..MaxClock /\ mono \in 0..MaxClock
    /\ files \in [DirNames -> [{Artifacts[i] : i \in 1..4} -> Records \cup {None}]]
    /\ ret \in [Procs -> {None, 1, 126, 127} \cup ChildCodes]

\* A report directory is written in the code's order (STDIN.log before the
\* spawn, then STDOUT.log, STDERR.log, result.log): whatever crashes and
\* failed writes stopped the processes, the artifacts present in a
\* directory are a prefix of that order, so a result.log never stands
\* without the logs it summarises; no artifact exists outside a directory
\* mkdir made (lines 156, 189-191, 224-225, 242).
ReportPrefix ==
    \A d \in DirNames :
        \E k \in 0..(IF d \in made THEN 4 ELSE 0) :
            \A i \in 1..4 : files[d][Artifacts[i]] # None <=> i <= k

\* What STDIN.log is meant to hold for p (lines 188-191).
LoggedStdin(p) == IF stdinData[p] = None THEN "" ELSE stdinData[p]

\* Spec 4.4: the CPU times and the peak memory in KB of p's child, or
\* zeros where the platform cannot account for them.
ChildUsage(p) ==
    IF Platform = "win32" THEN [user |-> 0, sys |-> 0, mem |-> 0]
    ELSE [user |-> child[p].cpu[1], sys |-> child[p].cpu[2], mem |-> child[p].rss]

\* Spec 3 and 4.6 steps 6-8: once p has handed the output to its caller
\* (lines 245-248), its exit status is the child's code, or the code of
\* the spawn failure, and its report directory holds exactly p's four
\* artifacts: what p read, what the caller was given, and a result.log of
\* that exit code, p's own start, end and duration, and the child's usage
\* (from ResourceSampler, memory in KB).
ReportMatchesOutcome ==
    \A p \in Procs : caller[p] # None =>
        /\ ret[p] = IF child[p].state = "failed" THEN SpawnErrorCode(child[p].error)
                    ELSE child[p].code
        /\ files[dir[p]] =
              (Artifacts[1] :> [by |-> p, data |-> LoggedStdin(p)])
              @@ (Artifacts[2] :> [by |-> p, data |-> caller[p].out])
              @@ (Artifacts[3] :> [by |-> p, data |-> caller[p].err])
              @@ (Artifacts[4] :> [by |-> p, data |-> ResultText(ret[p], timing[p], ChildUsage(p))])

\* Spec 4.5: STDIN.log holds the bytes supplied to the child.  Whatever the
\* spawned child read on its standard input (line 197) is what STDIN.log
\* of its directory records.
StdinLogFaithful ==
    \A p \in Procs : child[p] # None /\ child[p].state # "failed" =>
        files[dir[p]][Artifacts[1]].data = child[p].read

\* Every wrapper process ends (returns an exit status or is killed) unless
\* its child never exits or its stdin is a pipe nobody closes: the only
\* waits in main and run_command are the child (line 195) and the read to
\* end-of-file (line 294), which the isatty check (line 293) keeps away
\* from a terminal.  The caller is assumed to drain the wrapper's output.
Termination ==
    \A p \in Procs :
        <>(\/ pc[p] \in Final
           \/ pc[p] = "wait" /\ child[p].hang
           \/ pc[p] = "read_stdin" /\ inv[p].stdin = "open")

-----------------------------------------------------------------------------
(* Refinement of the abstract runner (Runner).                             *)

Admitted(p) == inv[p].argv # <<>> /\ Allowed(p)

\* The abstract phase of p: not yet past main, ended normally (turned away
\* or forwarded its output), ended otherwise, or in between.
Phase(p) ==
    CASE pc[p] = "main"                                       -> "new"
      [] pc[p] = "crashed"                                    -> "failed"
      [] pc[p] = "exited" /\ (~Admitted(p) \/ caller[p] # None) -> "finished"
      [] pc[p] = "exited"                                     -> "failed"
      [] OTHER                                                -> "running"

\* The exit code p's result.log records, None while it has none of p's.
Recorded(p) ==
    LET r == IF dir[p] = None THEN None ELSE files[dir[p]][Artifacts[4]] IN
    IF r = None \/ r.by # p \/ r.data = Truncated THEN None
    ELSE CHOOSE c \in Codes : \E t \in RecordedTimes, u \in Usages : ResultText(c, t, u) = r.data

R == INSTANCE Runner WITH
        Outcomes <- Codes,
        admitted <- [p \in Procs |-> Admitted(p)],
        status   <- [p \in Procs |-> Phase(p)],
        exitCode <- ret,
        record   <- [p \in Procs |-> Recorded(p)]

\* The wrapper implements the abstract runner: a denied or empty command
\* ends with 1 and no record; result.log is written once per admitted
\* invocation and never changed afterwards (spec 3); the exit status of a
\* process that ends normally is the code its result.log recorded (lines
\* 242, 248, 303); and every invocation is eventually judged by main.
RunnerSpec == R!Spec

=============================================================================
