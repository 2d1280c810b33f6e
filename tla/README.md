# TLA+ models of `scripts/autoapprove` and `scripts/count_tokens.py`

This directory holds TLA+ specifications of the core of the repository: the
command wrapper `src/scripts/autoapprove/autoapprove.py`, together with the TLC
configurations that check them. The wrapper does two jobs. First it gates a
command line, allowing it only if every network-shaped argument names a
loopback host. Then it runs the command and writes a four-file audit report.

## The system

`autoapprove.py` (308 lines) has the parts that `spec.md` section 2 names:

| Part | Code | What it does |
|---|---|---|
| AddressClassifier | `URL_PATTERN`, `IPV4_PATTERN`, `IPV6_PATTERN`, `HOST_PORT_PATTERN` (42-48), `extract_host_from_url` (73-79), `extract_host_from_address` (82-95) | decides what shape a token has and which host it names |
| LoopbackPolicy | `is_loopback_address`, `is_allowed_host` (51-70) | host name or address → allowed |
| InvocationValidator | `validate_network_args` (98-142) | scans the argv, stops at the first denied token |
| ExecutionReporter | `get_timestamp`, `create_report_directory` (145-157) and the writes in `run_command` | `test-output/autoapprove/<ms timestamp>-<name>/{STDIN,STDOUT,STDERR,result}.log` |
| ResourceSampler | `get_resource_usage` (160-173) | reads `getrusage` |
| CommandRunner | `run_command` (176-248), `main` (251-307) | gate → read stdin → mkdir → STDIN.log → spawn and wait → STDOUT/STDERR/result.log → forward output → exit status |

The parts interact as follows:

- The validator is a pure function called once, before any side effect.
- The runner owns the sequence of side effects.
- The reporter's files are the only state shared between processes. Each invocation is its own OS process. Wrappers started in parallel (by an editor agent or a test runner) write into the same `test-output/autoapprove` tree. They take no lock and run no uniqueness check.

Spec section 1 puts two one-shot batch scripts out of the core:

- `src/scripts/count_tokens.py` is modelled anyway, in `CountTokens`: a sequential process whose path de-duplication and error handling can be checked.
- `src/fix_passwords.py` is not modelled (see below).

The test file is not modelled.

## Modules

| Module | Models | State and actions |
|---|---|---|
| `Classifier` | AddressClassifier, LoopbackPolicy, InvocationValidator | pure operators, no state |
| `MCClassifier` | harness for `Classifier` | `args`: one argument vector, fixed by `Init` |
| `Autoapprove` | CommandRunner, ExecutionReporter, ResourceSampler | one process per invocation |
| `Runner` | the abstract promise of CommandRunner | per invocation: judged, running, recorded, finished or failed |
| `MCAutoapprove` | harness for `Autoapprove` | the invocation tables and the action constraint `OneAfterAnother` |
| `CountTokens` | `count_tokens.py`: `find_paths`, `analyze_files`, `num_tokens_from_messages`, `main` | one sequential process |
| `MCCountTokens` | harness for `CountTokens` | the file system and the command lines |

### `Classifier`

An argument is not modelled as a character string. It is modelled as the structure the patterns examine:

- A token is `[dash, eq, body]`.
- A body is `[scheme, lb, core, rb, port, path]`, where `core` is the sequence of colon-separated groups.
- Each group records its character class: `empty`, `digits`, `hex`, `dotted4`, `name` or `other`. It also records its length, its hex value, its dotted-quad numbers and its lower-case text.

This keeps everything the regexes, `rsplit(":", 1)`, `isdigit`, `strip("[]")`, `urlparse().hostname` and `ipaddress` decide on. It drops the characters themselves.

`IPv6Address` follows `ipaddress._ip_int_from_string`:

- at most one `::`;
- leading and trailing `:` only as part of `::`;
- at most 8 parts;
- each hextet 1-4 hex digits;
- an optional trailing dotted quad.

`ExtractHostFromUrl` follows `urlsplit` of Python ≥ 3.11.4, which raises on an unbalanced bracket or a bracketed non-IPv6 host; the code catches that and yields `None`. `CheckArg` keeps the code's first-match order. `ValidateNetworkArgs` is the loop, written as a `RECURSIVE` scan that stops at the first denial.

`MCClassifier` enumerates every vector `<<"curl">> \o s`, where `s` is up to two tokens drawn from a table (`MaxArgs = 2`). The table is written out as text in its comments:

- loopback URLs and addresses in each syntax;
- external ones;
- plain words;
- hex-looking words;
- bare IPv6;
- malformed bracket forms;
- a `ws://` URL.

A separate set, `EmbeddedV4`, holds IPv6 literals with a dotted IPv4 tail: `::ffff:8.8.8.8`, `[::ffff:8.8.8.8]:53` and the NAT64 form `64:ff9b::8.8.8.8`.

It judges the result against reference definitions of spec 4.1-4.3:

- `NotNetworkShaped`: rule 5 of 4.1.
- `WellFormed` and `Target`: which endpoint a token names.
- `RefLoopback`: 4.2.

Two tokens are enough, because the scan treats tokens independently and stops at the first denial. Two tokens exercise both the "continue" and the "stop" path, and a denied token after an allowed one.

### `Autoapprove`

This module has one process per element of `Procs`, each running an invocation `[argv, skip, stdin]`. Each action is one statement group of the code, in the code's order:

| Action | Lines | pc |
|---|---|---|
| `Main` | 274-289 | main → exited (help or denial, exit 1) or read_stdin |
| `ReadStdin` | 292-294 | stdin_data = None on a tty, else the bytes; `read()` returns only at end-of-file, so on a pipe never closed (stdin `"open"`) the step is never enabled |
| `CreateReportDir` | 150-157, 297-298 | `dir = <<now, SafeName(argv[1])>>`; `exist_ok=True` |
| `LogStdin` | 182-191 | `timing[p]` gets the wall clock and `perf_counter` readings; STDIN.log = bytes or "" |
| `Spawn` | 194-215 | one of the three caught exceptions (127/126/1, synthetic stderr), or a started child with an exit code, maybe hanging, reading the bytes or, on a tty, whatever is typed |
| `WaitChild` | 195-203 | the child exits, output captured |
| `WriteStdoutLog` | 217-224 | end wall time; duration = `perf_counter` difference; STDOUT.log |
| `WriteStderrLog`, `WriteResultLog` | 225-242 | STDERR.log; result.log |
| `Forward` | 245-248, 301-307 | caller gets the bytes, exit status = code |
| `ReportingFailure` | 156, 189-191, 224-225, 242, 245-248 | uncaught OSError (mkdir, a log write, or `BrokenPipeError` writing to a caller that has gone): exit 1; a log file may be left truncated |
| `Crash` | any step | the process is killed |
| `Tick` | 145-147 | a millisecond passes: the wall clock `now` and the monotonic `mono` advance |
| `ClockStepBack` | 145-147 | `datetime.now` is a wall clock: NTP or an administrator may set it back |

`WriteResultLog` writes `ResultText`: the exit code, `start_time`, `end_time`, `duration_seconds`, the two CPU times and `max_memory_kb`, in the code's order. Times are integers of milliseconds; the command and cwd lines are left out. The usage is `GetResourceUsage` (160-173):

- zeros on Windows;
- otherwise the child's user and system CPU times (`ChildCpu`) and `ru_maxrss`;
- `ru_maxrss` is kilobytes on Linux but bytes on macOS; the code copies it unscaled in both cases. The model keeps the child's peak in KB (`ChildRss`) and gives the macOS figure as `rss * 1024`, the byte count the kernel reports there.

`Platform`, `ChildRss` and `ChildCpu` are constants.

`files[d][a]` is a record `[by, data]`: the process that last wrote the artifact, and what it wrote. The `by` field is what makes a mixed report visible.

### `Runner` and the refinement

`Runner` states what spec 4.6 promises of one invocation, without the steps: it is denied (exit 1) or admitted; an admitted one records an exit code once, then finishes with exactly that code, unless it fails first (exit 1 on a reporting failure, no status when killed). Fairness says only that every invocation is eventually judged.

`Autoapprove` defines `R == INSTANCE Runner WITH ...` under this mapping:

- `admitted[p]`: the argv is non-empty and the gate allows it (`Admitted`);
- `status[p]`: `Phase(p)`, read off the pc: `main` is new, `crashed` is failed, `exited` is finished when the process was denied or delivered its output, failed otherwise; every other pc is running;
- `exitCode`: the process's `ret`;
- `record[p]`: the exit code parsed back out of the `result.log` of the process's directory, if that process wrote it whole.

The run `pipeline_refines_runner` checks `RunnerSpec == R!Spec` as a temporal property. It covers crashes, truncated writes and clock steps, but only with distinct command names: with colliding names a second process rewrites a finished record, which `report_collision` already shows.

### `CountTokens`

Paths are names; the file system is constants (`Resolve`: what a path resolves to; `Kind`: text, invalid UTF-8, directory or missing; `Chars`, `Enc`, `RoleLen`: lengths). A file's text is represented by those lengths, never by its characters. `FindPaths` is `find_paths` with its fold-based de-duplication (`Dedup`) on resolved paths. `NumTokensFromMessages` is the cookbook formula (3 per message, the encoded values, 1 per `name`, 3 for the reply). The actions are `Find`, `Check`, `AnalyzeFile` (one loop iteration) and `PrintTotals`. The environment step `DeleteFile` lets another process delete a regular file after `find_paths` has listed it; `AnalyzeFile` then meets `FileNotFoundError`, which is not caught either.

## Properties and runs

| Run | Cfg | Expect | Checks |
|---|---|---|---|
| `classifier_soundness` | `MCClassifier.cfg` | pass (813 states) | `Soundness`: an approved vector names only loopback in every inspected, network-shaped, well-formed token, whatever its position, flag prefix or matching pattern |
| `hex_words_denied` | `MCClassifier_HexWords.cfg` | violation | `NonNetworkApproved` (spec 4.3) |
| `bare_ipv6_loopback_denied` | `MCClassifier_BareV6.cfg` | violation | `LoopbackLiteralsApproved` (spec 4.2, line 287) |
| `embedded_ipv4_approved` | `MCClassifier_V4Mapped.cfg` | violation | `Soundness` over `EmbeddedV4` |
| `pipeline` | `MCAutoapprove.cfg` | pass (≈1.79M states under symmetry, 70 s) | `TypeOK`, `ReportPrefix`, `ReportMatchesOutcome` |
| `report_collision` | `MCAutoapprove_Collision.cfg` | violation | `ReportMatchesOutcome` with same-named commands |
| `tty_stdin_unlogged` | `MCAutoapprove_TtyStdin.cfg` | violation | `StdinLogFaithful` |
| `pipeline_refines_runner` | `MCAutoapprove_Refinement.cfg` | pass (≈17k states) | `RunnerSpec`, `Termination` |
| `darwin_maxrss_units` | `MCAutoapprove_Darwin.cfg` | violation | `ReportMatchesOutcome` on macOS |
| `clock_step_back_reuse` | `MCAutoapprove_ClockBack.cfg` | violation | `ReportMatchesOutcome` with runs one after another |
| `count_tokens` | `MCCountTokens.cfg` | pass (≈1.1k states) | `EachFileCountedOnce` |
| `count_tokens_directory` | `MCCountTokens_Directory.cfg` | violation | `NoCrash` |

What the passing `pipeline` run checks:

- **`ReportPrefix`**: whatever crashes and failed writes stop the processes, the artifacts in a directory are a prefix of STDIN, STDOUT, STDERR, result. So no result.log exists without its logs.
- **`ReportMatchesOutcome`**: once a wrapper has forwarded its output, two things hold:
  - its exit status is the child's code or the spawn-failure code;
  - its directory holds exactly its own four artifacts, agreeing with what the caller got, and its result.log carries its own times and its child's usage.

What `pipeline_refines_runner` checks:

- **`RunnerSpec`**: the wrappers implement the abstract `Runner`.
- **`Termination`**: every wrapper ends, unless its child never exits or its stdin is a pipe that is never closed. Those are the two places the code waits: `subprocess.run` has no timeout (line 195), and `sys.stdin.buffer.read()` (line 294) waits for end-of-file. The isatty check (line 293) keeps the read away from a terminal; the mutant that drops it leaves an interactive wrapper waiting for the user's end-of-file key. It is checked here rather than in `pipeline`, because TLC's symmetry reduction is unsound for liveness.
- **`EachFileCountedOnce`** (`count_tokens`): when the totals are printed, every file named by `--file` or the glob, however spelled (`a.md` and `./a.md`), was counted exactly once, and the total is the sum of the rows.

Each of these has a mutant in `PROJECT.json`: a plausible code change that TLC shows breaks it.

What the violation runs show:

- **`hex_words_denied`**: `curl 10`, `git add` and `go test -count=1` are denied, because `IPV6_PATTERN` matches any hex word.
- **`bare_ipv6_loopback_denied`**: `curl ::1` is denied, because `rsplit` turns `::1` into `:`.
- **`embedded_ipv4_approved`**: `nc ::ffff:8.8.8.8 53` is approved. `IPV6_PATTERN` (line 46) allows only hex digits and colons, so an IPv6 address ending in a dotted quad matches no pattern, and neither does the bracketed form with a port. `ipaddress` accepts these addresses, and they name 8.8.8.8. The real code gives the same verdicts under Python 3.11.
- **`report_collision`**: `curl` and `/usr/bin/curl` started in the same millisecond share a directory, and the survivor's report mixes both runs. Spec 5 and 9 accept this limitation; spec 3 states the contrary.
- **`tty_stdin_unlogged`**: on a terminal, the child reads input that STDIN.log never records.
- **`darwin_maxrss_units`**: on macOS `ru_maxrss` is already in bytes, so `max_memory_kb` is 1024 times the kilobyte peak (line 172).
- **`clock_step_back_reuse`**: the action constraint `OneAfterAnother` lets a process start only when every other one has finished, and at a later clock reading. So the runs are strictly sequential, yet after the clock is set back the second run gets the same directory name, and `exist_ok=True` lets it overwrite a completed report. spec 8 promises distinct directories for repeated invocations; spec 5 and 9 concede collisions only for starts within one timestamp window. Without `ClockStepBack` the same cfg passes.
- **`count_tokens_directory`**: a glob such as `*` matches a directory, `read_text` raises `IsADirectoryError`, and only `TypeError` is caught (line 90), so the script ends in a traceback. The cfg's action constraint `NoDeletion` keeps `DeleteFile` out, so the counterexample is the directory case alone. With `DeleteFile` allowed, a file deleted after it was listed ends the same way, with `FileNotFoundError`; no run checks that case separately.

Other things the model shows but no property checks:

- The gate fails open on malformed URLs: `http://[2001:db8::add/` is approved.
- `ws://example.com/` is approved, because `URL_PATTERN` knows only four schemes. Spec 4.1 lists the same four, so no property states a policy for the others.
- `::1:8080` is ambiguous (spec 9).
- `start_time` and `end_time` in result.log come from the wall clock (lines 184, 218), so a clock set back during a run gives an `end_time` before the `start_time`. The model records both readings in `timing`, but no property states an order, because spec 3 asks only for the two readings. `duration_seconds` comes from `perf_counter` and cannot be negative.
- Bare host names such as `curl example.com` are approved, since spec 4.1 rule 5 does not call them network-shaped.

## Bounds, fairness, deadlock

`pipeline` uses these bounds:

- two processes;
- five invocations: allowed curl with piped stdin, denied curl, no command, `echo` on a tty, and `--skip-validation /usr/bin/curl` with empty stdin;
- `ChildCodes = {0, 2}`;
- `MaxClock = 1`.

`ChildRss = {3}`, `ChildCpu = {<<1, 0>>}` and `Platform = "linux"`; `darwin_maxrss_units` sets `"darwin"`. `pipeline_refines_runner` uses four invocations: allowed curl with piped stdin, no command, `--skip-validation /usr/bin/curl` on a tty, and allowed curl whose stdin pipe is never closed (`Held`). All four use the command name curl or none, so no two admitted wrappers run at once. Adding `echo` on a tty, which runs alongside curl, grows the temporal check past a million states. The denied branch and concurrent wrappers are covered by `pipeline`.

These bounds cover every branch of `main` and `run_command`. Two processes are enough to interleave all steps of two wrappers. The clock bound lets two wrappers either start in the same millisecond or not.

`SpecDistinct` restricts `pipeline` to commands with different sanitised names. `pipeline` is checked up to permutations of the two processes (`ProcSymmetry`): nothing in the code or the invariants tells them apart.

With `MaxClock = 1` the monotonic clock ticks once. The wall clock can be set back by that tick, before, during or after a run. That is enough for the wall clock to step back between a run's start and end, and for a later run to reuse an earlier run's timestamp. `report_collision` lifts that restriction.

Fairness is weak fairness on each process's own steps (`Run(p)`). The OS keeps scheduling a runnable process. Weak fairness on `Forward` also assumes that the caller reads the wrapper's stdout and stderr: a caller that stops reading a full pipe would block the write, and the model leaves that case out. A blocking read is modelled by its guard instead: `ReadStdin` is not enabled on a pipe that is never closed, so fairness does not force it. Crashes, failed writes and clock ticks or steps back are possible steps but never assumed to happen. `CountTokens` has weak fairness on the script's own steps, not on `DeleteFile`.

`MCCountTokens` has five paths (`a.md`, `./a.md` resolving to the same file, `b.md`, a directory `docs`, a missing `gone.md`) and the glob results empty, `a.md b.md`, `b.md a.md` and `a.md docs`, with and without `--file`, each tiktoken setting and each `--as-message` mode.

`CHECK_DEADLOCK FALSE` is used because the wrapper is meant to stop: once all processes have ended, no step is left.

## Not modelled

- **The command and working_directory lines of result.log**: text copied from the argv and `os.getcwd()`.
- **`src/fix_passwords.py`**: it rewrites five Go files under `internal/` that are not in this repository, with `str.replace` and `re.sub`. Every effect depends on that text. An abstract model would make any property hold by construction, and the script has no concurrency or state beyond a per-file loop.
- **The order of `find_paths`'s result**: the comment on line 127 says "remove duplicates and sort", but the code only removes duplicates. The order is the `--file` path, then the glob order, and `Dedup` keeps that order. No property checks an order, since nothing downstream depends on it.
- **The `TypeError` fallback of `count_tokens.py` (91-95)**: `read_text(errors="replace")` does not raise `TypeError` on Python 3.11, so the branch is unreachable.
- **Output size and memory**: `capture_output` buffers everything.
- **A child left running after its wrapper is killed.**

## Plan for later work

- Widening the classifier table with IPv6 zone ids (`fe80::1%eth0`), which no pattern matches either.
