--------------------------- MODULE MCSandboxJudge ---------------------------
(* Submissions for TLC: every language, compilation and run behaviour occurs. *)
EXTENDS SandboxJudge

OneBox == <<1>>

S(lang, compile, runs) == [lang |-> lang, compile |-> compile, runs |-> runs, alone |-> TRUE]
Exposed(s) == [s EXCEPT !.alone = FALSE]

\* Programs of all languages that share a box; cpp and go share the file
\* "solution", slow compilations leave the previous one in place, and two
\* submissions look things up that earlier ones may have left.
ManySubmissions ==
    {S("cpp", "ok", <<"right", "right">>), S("cpp", "error", <<"right">>),
     S("cpp", "slow", <<"right">>), S("cpp", "ok", <<"right", "big signalled">>),
     S("go", "ok", <<"wrong">>), S("go", "ok", <<>>),
     S("java", "ok", <<"exits">>), S("java", "nomain", <<"exits">>),
     S("python", "ok", <<"right", "slow">>), S("other", "ok", <<"right">>),
     Exposed(S("java", "error", <<"right">>)), Exposed(S("python", "ok", <<"right">>))}

\* For the questions about faults and timeouts.
FewSubmissions ==
    {S("cpp", "ok", <<"right">>), S("go", "ok", <<"wrong">>),
     S("cpp", "slow", <<"wrong">>), S("python", "error", <<"right">>)}
=============================================================================
