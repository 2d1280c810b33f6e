--------------------------- MODULE MCCountTokens ---------------------------
(***************************************************************************)
(* A small file tree for CountTokens: a.md reached as "a.md" and "./a.md", *)
(* b.md with invalid UTF-8, a directory docs, and a missing gone.md; the   *)
(* command lines combine --file, glob results in either order, the three   *)
(* --as-message modes and tiktoken present or not.                         *)
(***************************************************************************)
EXTENDS CountTokens

MCNames == {"a.md", "./a.md", "b.md", "docs", "gone.md"}

MCResolve == [n \in MCNames |-> IF n = "./a.md" THEN "a.md" ELSE n]

MCKind == ("a.md" :> "text") @@ ("b.md" :> "invalid") @@ ("docs" :> "dir") @@ ("gone.md" :> "missing")

MCChars == ("a.md" :> 12) @@ ("b.md" :> 5) @@ ("docs" :> 0) @@ ("gone.md" :> 0)
MCEnc   == ("a.md" :> 3) @@ ("b.md" :> 2) @@ ("docs" :> 0) @@ ("gone.md" :> 0)
MCRoleLen == ("system" :> 1) @@ ("user" :> 1)

Globs == {<<>>, <<"a.md", "b.md">>, <<"b.md", "a.md">>, <<"a.md", "docs">>}

MCCalls == [file : {None, "a.md", "./a.md", "gone.md"}, glob : Globs,
            mode : {"system", "user", "none"}, tiktoken : BOOLEAN]

\* No file is deleted while the tool runs: keeps DeleteFile out of a run
\* whose counterexample is to show the directory case alone.
NoDeletion == removed' = removed

=============================================================================
