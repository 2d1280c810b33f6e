------------------------------- MODULE Runner -------------------------------
(***************************************************************************)
(* What the CommandRunner of spec.md 4.6 promises for each invocation,     *)
(* without its steps: an invocation is either turned away with status 1,   *)
(* or admitted; an admitted one records its execution once and then ends   *)
(* with exactly the recorded exit code, unless it fails first (status 1 on *)
(* a reporting failure, no status when killed).  The execution record is   *)
(* written once and never changed (spec 3).                                *)
(***************************************************************************)
CONSTANTS
    Procs,     \* the invocations, one wrapper process each
    Outcomes,  \* the exit codes an execution can record
    None       \* no exit status / no record yet

VARIABLES
    admitted,  \* admitted[p]: the invocation passes the gate (fixed)
    status,    \* "new", "running", "finished" or "failed"
    exitCode,  \* the process's exit status, None until it has one
    record     \* the exit code recorded in result.log, None until written

avars == <<admitted, status, exitCode, record>>

Init ==
    /\ admitted \in [Procs -> BOOLEAN]
    /\ status = [p \in Procs |-> "new"]
    /\ exitCode = [p \in Procs |-> None]
    /\ record = [p \in Procs |-> None]

\* Help text or validation failure: status 1, nothing run or recorded.
Deny(p) ==
    /\ status[p] = "new" /\ ~admitted[p]
    /\ status' = [status EXCEPT ![p] = "finished"]
    /\ exitCode' = [exitCode EXCEPT ![p] = 1]
    /\ UNCHANGED <<admitted, record>>

Admit(p) ==
    /\ status[p] = "new" /\ admitted[p]
    /\ status' = [status EXCEPT ![p] = "running"]
    /\ UNCHANGED <<admitted, exitCode, record>>

\* The execution record is written, once.
Record(p) ==
    /\ status[p] = "running" /\ record[p] = None
    /\ \E c \in Outcomes : record' = [record EXCEPT ![p] = c]
    /\ UNCHANGED <<admitted, status, exitCode>>

\* The process ends with the code it recorded.
Complete(p) ==
    /\ status[p] = "running" /\ record[p] # None
    /\ status' = [status EXCEPT ![p] = "finished"]
    /\ exitCode' = [exitCode EXCEPT ![p] = record[p]]
    /\ UNCHANGED <<admitted, record>>

\* Reporting failure (status 1) while running, or the process is killed.
Fail(p) ==
    /\ \/ status[p] = "running" /\ exitCode' = [exitCode EXCEPT ![p] = 1]
       \/ status[p] \in {"new", "running"} /\ UNCHANGED exitCode
    /\ status' = [status EXCEPT ![p] = "failed"]
    /\ UNCHANGED <<admitted, record>>

Next == \E p \in Procs : Deny(p) \/ Admit(p) \/ Record(p) \/ Complete(p) \/ Fail(p)

\* Every invocation is eventually judged.
Spec == Init /\ [][Next]_avars /\ \A p \in Procs : WF_avars(Deny(p) \/ Admit(p))

=============================================================================
