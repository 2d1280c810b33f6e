----------------------------- MODULE CountTokens -----------------------------
(***************************************************************************)
(* scripts/count_tokens.py: find_paths, analyze_files and the token        *)
(* counting of main, as one sequential process.  Paths are names; the file *)
(* system is given by constants: what each name resolves to, whether it    *)
(* exists and what kind of file it is.  A file's text is not modelled      *)
(* character by character: Chars and Enc give its length and the length of *)
(* its tiktoken encoding, RoleLen that of a role name.                     *)
(***************************************************************************)
EXTENDS Integers, Sequences, SequencesExt, Functions

CONSTANTS
    Names,       \* path strings the user or glob can produce
    Resolve,     \* Resolve[n]: Path(n).resolve(), the real file n names
    Kind,        \* Kind[f]: "text", "invalid" (bad UTF-8), "dir" or "missing"
    Chars,       \* Chars[f]: len(text) after decoding with replacement
    Enc,         \* Enc[f]: len(encoding.encode(text))
    RoleLen,     \* RoleLen[r]: len(encoding.encode(r)) for a role name
    Calls,       \* [file, glob, mode, tiktoken]: the command lines to run
    None

VARIABLES
    pc,          \* "find", "check", "analyze", "done"
    call,        \* the parsed arguments
    paths,       \* find_paths' result
    rows,        \* analyze_files' rows: [path, chars, tokens]
    totalTokens,
    totalChars,
    outcome,     \* what main ended with
    removed      \* files another process has deleted since find_paths ran

vars == <<pc, call, paths, rows, totalTokens, totalChars, outcome, removed>>

-----------------------------------------------------------------------------
(* Pure parts.                                                             *)

\* len(encoding.encode(v)) for a message value: a role name or a file's text.
EncodedLen(v) == IF v \in DOMAIN RoleLen THEN RoleLen[v] ELSE Enc[v]

\* num_tokens_from_messages (47-71): 3 per message, the encoded length of
\* every value, 1 more for a "name" key, and 3 for the primed reply.
NumTokensFromMessages(msgs) ==
    LET PerMessage(m) ==
            3 + SumFunction([k \in DOMAIN m |-> EncodedLen(m[k]) + IF k = "name" THEN 1 ELSE 0])
    IN  SumFunction([i \in DOMAIN msgs |-> PerMessage(msgs[i])]) + 3

\* The tokens analyze_files counts for file f (lines 102-109): one message
\* [role, content] for "system" and "user", the bare text for "none".
FileTokens(f, mode) ==
    IF mode = "none" THEN Enc[f]
    ELSE NumTokensFromMessages(<<("role" :> mode) @@ ("content" :> f)>>)

\* Mutant: duplicates removed by the path string, not the resolved file.
Dedup_ByName(ps) ==
    LET Step(acc, n) == IF n \in acc.seen THEN acc
                        ELSE [unique |-> Append(acc.unique, n), seen |-> acc.seen \cup {n}]
    IN  FoldLeft(Step, [unique |-> <<>>, seen |-> {}], ps).unique

\* Lines 127-135: keep the first path naming each resolved file, in order.
Dedup(ps) ==
    LET Step(acc, n) == IF Resolve[n] \in acc.seen THEN acc
                        ELSE [unique |-> Append(acc.unique, n), seen |-> acc.seen \cup {Resolve[n]}]
    IN  FoldLeft(Step, [unique |-> <<>>, seen |-> {}], ps).unique

\* find_paths (115-135): the --file path (which must exist), then the glob
\* matches in the order glob returns them.
FindPaths(file, matches) ==
    Dedup((IF file = None THEN <<>> ELSE <<file>>) \o matches)

-----------------------------------------------------------------------------
(* main (138-190) and analyze_files (83-112).                              *)

Init ==
    /\ pc = "find"
    /\ call \in Calls
    /\ paths = <<>> /\ rows = <<>>
    /\ totalTokens = 0 /\ totalChars = 0
    /\ outcome = None
    /\ removed = {}

\* Lines 150-154 and 117-122: a missing --file is printed and main returns.
Find ==
    /\ pc = "find"
    /\ IF call.file # None /\ Kind[Resolve[call.file]] = "missing"
       THEN pc' = "done" /\ outcome' = "not_found" /\ UNCHANGED paths
       ELSE pc' = "check" /\ paths' = FindPaths(call.file, call.glob) /\ UNCHANGED outcome
    /\ UNCHANGED <<call, rows, totalTokens, totalChars, removed>>

\* Lines 156-162.
Check ==
    /\ pc = "check"
    /\ CASE paths = <<>>   -> pc' = "done" /\ outcome' = "no_files"
         [] ~call.tiktoken -> pc' = "done" /\ outcome' = "no_tiktoken"
         [] OTHER          -> pc' = "analyze" /\ UNCHANGED outcome
    /\ UNCHANGED <<call, paths, rows, totalTokens, totalChars, removed>>

\* One iteration of analyze_files' loop.  read_text on a directory raises
\* IsADirectoryError, and on a file deleted since find_paths listed it
\* FileNotFoundError; only "except TypeError" surrounds it: the script
\* dies with a traceback.  Bad UTF-8 is decoded with replacement and warned.
AnalyzeFile ==
    /\ pc = "analyze" /\ Len(rows) < Len(paths)
    /\ LET n == paths[Len(rows) + 1]
           f == Resolve[n]
       IN  IF Kind[f] = "dir" \/ f \in removed
           THEN pc' = "done" /\ outcome' = "traceback"
                /\ UNCHANGED <<rows, totalTokens, totalChars>>
           ELSE /\ rows' = Append(rows, [path |-> n, chars |-> Chars[f],
                                         tokens |-> FileTokens(f, call.mode)])
                /\ totalTokens' = totalTokens + FileTokens(f, call.mode)
                /\ totalChars' = totalChars + Chars[f]
                /\ UNCHANGED <<pc, outcome>>
    /\ UNCHANGED <<call, paths, removed>>

\* Lines 164-190: the table and the totals are printed.
PrintTotals ==
    /\ pc = "analyze" /\ Len(rows) = Len(paths)
    /\ pc' = "done" /\ outcome' = "totals"
    /\ UNCHANGED <<call, paths, rows, totalTokens, totalChars, removed>>

\* Another process (an editor, a build) deletes a regular file after
\* find_paths has listed the tree and before the script has finished
\* reading it; nothing in the script locks or re-checks the tree.
DeleteFile ==
    /\ pc \in {"check", "analyze"}
    /\ \E f \in {Resolve[n] : n \in Names} \ removed :
          /\ Kind[f] \in {"text", "invalid"}
          /\ removed' = removed \cup {f}
    /\ UNCHANGED <<pc, call, paths, rows, totalTokens, totalChars, outcome>>

Next == Find \/ Check \/ AnalyzeFile \/ PrintTotals \/ DeleteFile

\* The script's own steps run; a deletion is never assumed to happen.
Spec == Init /\ [][Next]_vars /\ WF_vars(Find \/ Check \/ AnalyzeFile \/ PrintTotals)

-----------------------------------------------------------------------------
(* Properties.                                                             *)

\* The paths named on the command line (--file and the glob matches).
Named == (IF call.file = None THEN {} ELSE {call.file}) \cup Range(call.glob)

\* find_paths' dedup (lines 127-135): when the totals are printed, every
\* file named by --file or the glob, under whatever path spelling, was
\* counted exactly once, so total_tokens counts no file twice and misses
\* none.
EachFileCountedOnce ==
    outcome = "totals" =>
        /\ {Resolve[r.path] : r \in Range(rows)} = {Resolve[n] : n \in Named}
        /\ \A i, j \in DOMAIN rows : i # j => Resolve[rows[i].path] # Resolve[rows[j].path]
        /\ totalTokens = SumFunction([i \in DOMAIN rows |-> rows[i].tokens])

\* The comment of line 89 reads the file "to avoid crashes": the script
\* ends with a message or the totals, never with an uncaught exception.
NoCrash == outcome # "traceback"

=============================================================================
