---------------------------- MODULE SandboxJudge ----------------------------
(***************************************************************************)
(* JudgeEngine::judge and Sandbox: one submission after another is         *)
(* compiled and run in isolate boxes that are initialised once and never   *)
(* cleaned in between, so that programs, meta files and outputs of earlier *)
(* submissions, and of an earlier process that died, are still there.      *)
(*                                                                         *)
(* isolate and the programs it runs are external: a submission carries how *)
(* its compilation and each of its runs behave in an empty box, isolate    *)
(* reports it in the meta file, and Faults are the ways in which isolate   *)
(* or the file system can fail instead.  Compilers and programs also see   *)
(* the other files that earlier submissions left: only a submission that   *)
(* is "alone", of which no such file can take the place of anything it     *)
(* looks up or writes, behaves beside them as it would in an empty box.    *)
(***************************************************************************)
EXTENDS Integers, Queues

CONSTANTS
    Pool,           \* the boxes that BoxPool could initialise, in its order
    Submissions,    \* what may be judged
    Faults,         \* the faults that may happen, a subset of AllFaults
    None

\* compile "slow": the compiler is stopped by its wall time or by a signal.
\* "nomain": javac succeeds, but not with the class that run() will start,
\* which java_class_name takes from the first "public class ", or is Main.
Languages == {"cpp", "go", "java", "python", "other"}
Outcomes(lang) == {"ok", "error", "slow"} \cup (IF lang = "java" THEN {"nomain"} ELSE {})
Behaviours == {"right", "wrong", "exits", "signalled", "slow", "big", "big signalled"}

\* "XX": isolate reports an internal error.  "absent": it does not start, or
\* ends before it writes the meta file.  "cut": the meta file is cut off, in the middle of a number or before.
\* "write": the source or the input file cannot be written (or the shell cannot
\* be forked: the result is the same).  "kill": the process is killed.
AllFaults == {"XX", "absent", "cut", "write", "kill"}

Boxes == Elements(Pool)

ASSUME SandboxAssumption ==
    /\ Pool \in Seq(Nat) /\ Distinct(Pool)
    /\ None \notin Submissions
    /\ \A s \in Submissions :
        /\ s.lang \in Languages
        /\ s.compile \in Outcomes(s.lang)
        /\ s.runs \in Seq(Behaviours)
        /\ s.alone \in BOOLEAN
    /\ Faults \subseteq AllFaults

VARIABLES
    available,      \* BoxPool::available_
    files,          \* per box: whose program each artifact file holds
    metas,          \* per box: what compile_meta.txt and run_meta.txt report
    output,         \* per box: output.txt
    litter,         \* per box: whose other files it may hold (sources, classes, modules)
    pc,             \* where judge() is
    sub,            \* its submission
    box,            \* the box it acquired
    case,           \* the testcase it is at
    got,            \* the SandboxResult of the last execution
    verdict, cases, \* its result
    faulty          \* history: a fault happened while judging sub

store == <<available, files, metas, output, litter>>
vars == <<store, pc, sub, box, case, got, verdict, cases, faulty>>

-----------------------------------------------------------------------------
(* isolate: meta files and outputs (external). *)

Artifacts == {"solution", "class", "script"}

\* The file that run() executes.
Artifact(lang) == CASE lang \in {"cpp", "go"} -> "solution"
                    [] lang = "java" -> "class"
                    [] lang = "python" -> "script"

\* The keys that isolate writes.  A program stopped for time, by a signal or by
\* an internal error has no exitcode line.
MetaOf(behaviour) ==
    CASE behaviour \in {"right", "wrong", "ok", "nomain"} -> [exitcode |-> 0, rss |-> "within"]
      [] behaviour \in {"exits", "error"} ->
            [exitcode |-> 1, status |-> "RE", rss |-> "within"]
      [] behaviour = "signalled" -> [status |-> "SG", exitsig |-> 11, rss |-> "within"]
      [] behaviour = "slow" -> [status |-> "TO", rss |-> "within"]
      [] behaviour = "big" -> [exitcode |-> 0, rss |-> "over"]
      [] behaviour = "big signalled" -> [status |-> "SG", exitsig |-> 11, rss |-> "over"]
      [] behaviour = "XX" -> [status |-> "XX", rss |-> "within"]
      [] behaviour = "emptied" -> [rss |-> "within"]

\* What a run left in output.txt: for which testcase, and whether it is right.
Written(s, i, behaviour) == [of |-> <<s, i>>, right |-> behaviour # "wrong"]
NoOutput == [of |-> <<>>, right |-> FALSE]

\* compare_output(expected, actual); output of another testcase, or none at
\* all, may or may not agree with the expected output.
Matches(s, i, out) == IF out.of = <<s, i>> THEN {out.right} ELSE BOOLEAN

-----------------------------------------------------------------------------
(* Sandbox::parse_meta and the results that are not parsed. *)

Result(exit, status, signal, mem, out) ==
    [exit |-> exit, status |-> status, signal |-> signal, mem |-> mem, out |-> out]

\* What is returned when a file cannot be written, or there is no meta file.
Broken(out) == Result(-1, "XX", 0, "within", out)

\* stod and stoi throw, and nobody catches it.
Throws(report) == report = "torn"

\* A key that is not there leaves the default: exit_code 0, signal_num 0.
ParseMeta(report, out) ==
    LET meta == MetaOf(report)
        Key(k, default) == IF k \in DOMAIN meta THEN meta[k] ELSE default IN
    IF report = "none" THEN Broken(out)
    ELSE Result(Key("exitcode", 0), Key("status", ""), Key("exitsig", 0),
                Key("rss", "within"), out)

-----------------------------------------------------------------------------
NoFiles == [a \in Artifacts |-> None]
NoMetas == [compile |-> "none", run |-> "none"]

Init ==
    /\ available = Pool
    /\ files = [b \in Boxes |-> NoFiles]
    /\ metas = [b \in Boxes |-> NoMetas]
    /\ output = [b \in Boxes |-> NoOutput]
    /\ litter = [b \in Boxes |-> "none"]
    /\ pc = "idle"
    /\ sub = None /\ box = None /\ case = 0 /\ got = None
    /\ verdict = "SYSTEM_ERROR" /\ cases = <<>>
    /\ faulty = FALSE

\* Mutant: the acquired box is not the one used.
StartElsewhere(s) ==
    /\ pc = "idle"
    /\ available # <<>>
    /\ available' = Tail(available)
    /\ pc' = "compile"
    /\ sub' = s /\ case' = 1 /\ got' = None
    /\ verdict' = "SYSTEM_ERROR" /\ cases' = <<>>
    /\ faulty' = FALSE
    /\ UNCHANGED <<files, metas, output, litter, box>>

\* BoxPool::acquire: waits for a box, takes the one released longest ago, and
\* nobody removes what is in it.
Start(s) ==
    /\ pc = "idle"
    /\ available # <<>>
    /\ box' = Head(available)
    /\ available' = Tail(available)
    /\ litter' = [litter EXCEPT ![box'] = IF @ = "none" THEN "own" ELSE "others"]
    /\ pc' = "compile"
    /\ sub' = s /\ case' = 1 /\ got' = None
    /\ verdict' = "SYSTEM_ERROR" /\ cases' = <<>>
    /\ faulty' = FALSE
    /\ UNCHANGED <<files, metas, output>>

-----------------------------------------------------------------------------
(* Sandbox::compile. *)

\* The source is written; python runs it as it is.
SourceWritten ==
    IF sub.lang = "python" THEN [files[box] EXCEPT !["script"] = sub] ELSE files[box]

\* It returns without a result of isolate's.
CompileRefused ==
    /\ pc = "compile"
    /\ \/ sub.lang = "other" /\ faulty' = faulty /\ files' = files
       \/ /\ sub.lang # "other" /\ "write" \in Faults
          /\ faulty' = TRUE
          /\ files' \in {files, [files EXCEPT ![box] = SourceWritten]}
    /\ got' = Broken(NoOutput)
    /\ pc' = "compiled"
    /\ UNCHANGED <<available, metas, output, litter, sub, box, case, verdict, cases>>

\* A compiler that does not succeed leaves the artifact of an earlier
\* submission, or has removed it.
Leftovers == {SourceWritten, [SourceWritten EXCEPT !["solution"] = None]}

\* What an earlier submission left can decide how this one compiles and runs:
\* javac and java look classes up in the box, python modules, g++ quoted headers.
Disturbed == litter[box] = "others" /\ ~sub.alone

\* The program is in the file that run() executes exactly if the outcome is "ok".
CompileRuns ==
    /\ pc = "compile"
    /\ sub.lang # "other"
    /\ \E outcome \in IF Disturbed THEN Outcomes(sub.lang) ELSE {sub.compile} :
        /\ \E left \in IF outcome = "ok"
                          THEN {[files[box] EXCEPT ![Artifact(sub.lang)] = sub]}
                       ELSE IF Artifact(sub.lang) = "solution" THEN Leftovers
                       ELSE {SourceWritten} :
            files' = [files EXCEPT ![box] = left]
        /\ metas' = [metas EXCEPT ![box].compile = outcome]
        /\ got' = ParseMeta(outcome, output[box])
    /\ pc' = "compiled"
    /\ UNCHANGED <<available, output, litter, sub, box, case, verdict, cases, faulty>>

\* What isolate may leave in a meta file when it fails; old is there already.
FaultReports(old) ==
    {report \in {"XX", "torn", "emptied", old} :
        \/ report = "XX" /\ "XX" \in Faults
        \/ report \in {"torn", "emptied"} /\ "cut" \in Faults
        \/ report = old /\ "absent" \in Faults}

\* The process ends without a destructor, and its memory is gone.
Terminate ==
    /\ pc' = "down"
    /\ available' = <<>>
    /\ sub' = None /\ box' = None /\ case' = 0 /\ got' = None
    /\ verdict' = "SYSTEM_ERROR" /\ cases' = <<>>
    /\ faulty' = FALSE

\* isolate fails: it reports XX, or the meta file is cut off, or as it was.
CompileFaults ==
    /\ pc = "compile"
    /\ sub.lang # "other"
    /\ files' = [files EXCEPT ![box] = SourceWritten]
    /\ \E report \in FaultReports(metas[box].compile) :
        /\ metas' = [metas EXCEPT ![box].compile = report]
        /\ IF Throws(report) THEN Terminate
           ELSE /\ got' = ParseMeta(report, output[box])
                /\ faulty' = TRUE
                /\ pc' = "compiled"
                /\ UNCHANGED <<available, sub, box, case, verdict, cases>>
    /\ UNCHANGED <<output, litter>>

-----------------------------------------------------------------------------
(* JudgeEngine::judge. *)

\* Every return of judge() releases the box.
Return(status) ==
    /\ verdict' = status
    /\ available' = Append(available, box)
    /\ pc' = "idle"

\* Mutant: the early return forgets the box.
CompileErrorKeepsBox ==
    /\ pc = "compiled"
    /\ got.exit # 0
    /\ verdict' = "COMPILE_ERROR" /\ pc' = "idle"
    /\ UNCHANGED <<store, sub, box, case, got, cases, faulty>>

CompileError ==
    /\ pc = "compiled"
    /\ got.exit # 0
    /\ Return("COMPILE_ERROR")
    /\ UNCHANGED <<files, metas, output, litter, sub, box, case, got, cases, faulty>>

CompileOK ==
    /\ pc = "compiled"
    /\ got.exit = 0
    /\ pc' = "run"
    /\ UNCHANGED <<store, sub, box, case, got, verdict, cases, faulty>>

Program == files[box][Artifact(sub.lang)]

\* What happens if there is none: isolate's exec fails; java starts, and does
\* not find the class.
Missing(lang) == IF lang = "java" THEN "exits" ELSE "XX"

\* run() executes the program that is in the box.  If it is another
\* submission's, or finds another's files beside it, it can behave in any way on
\* this input; if there is none, output.txt is emptied all the same.
RunProgram ==
    /\ pc = "run" /\ case <= Len(sub.runs)
    /\ IF Program = None
       THEN /\ metas' = [metas EXCEPT ![box].run = Missing(sub.lang)]
            /\ output' = [output EXCEPT ![box] = NoOutput]
       ELSE \E behaviour \in IF Program = sub /\ ~Disturbed
                             THEN {sub.runs[case]} ELSE Behaviours :
            /\ metas' = [metas EXCEPT ![box].run = behaviour]
            /\ output' = [output EXCEPT ![box] = Written(sub, case, behaviour)]
    /\ got' = ParseMeta(metas'[box].run, output'[box])
    /\ pc' = "ran"
    /\ UNCHANGED <<available, files, litter, sub, box, case, verdict, cases, faulty>>

RunFaults ==
    /\ pc = "run" /\ case <= Len(sub.runs)
    /\ \E report \in FaultReports(metas[box].run) :
        /\ metas' = [metas EXCEPT ![box].run = report]
        /\ \E out \in {NoOutput, output[box]} : output' = [output EXCEPT ![box] = out]
        /\ IF Throws(report) THEN Terminate
           ELSE /\ got' = ParseMeta(report, output'[box])
                /\ faulty' = TRUE
                /\ pc' = "ran"
                /\ UNCHANGED <<available, sub, box, case, verdict, cases>>
    /\ UNCHANGED <<files, litter>>

\* The input file cannot be written: isolate is not even called.
RunRefused ==
    /\ pc = "run" /\ case <= Len(sub.runs)
    /\ "write" \in Faults
    /\ got' = Broken(NoOutput)
    /\ faulty' = TRUE
    /\ pc' = "ran"
    /\ UNCHANGED <<store, sub, box, case, verdict, cases>>

\* Mutant: the runtime error is looked for before the memory limit.
CheckedMemoryLast(accepted) ==
    IF got.status = "TO" THEN "TIME_LIMIT_EXCEEDED"
    ELSE IF got.exit # 0 \/ got.signal # 0 THEN "RUNTIME_ERROR"
    ELSE IF got.mem = "over" THEN "MEMORY_LIMIT_EXCEEDED"
    ELSE IF ~accepted THEN "WRONG_ANSWER" ELSE "ACCEPTED"

\* The checks after a run, in the order of the code.
Checked(accepted) ==
    IF got.status = "TO" THEN "TIME_LIMIT_EXCEEDED"
    ELSE IF got.mem = "over" THEN "MEMORY_LIMIT_EXCEEDED"
    ELSE IF got.exit # 0 \/ got.signal # 0 THEN "RUNTIME_ERROR"
    ELSE IF ~accepted THEN "WRONG_ANSWER" ELSE "ACCEPTED"

\* Mutant: the case that decides the verdict gets no case result.
CheckRunUnlisted ==
    /\ pc = "ran"
    /\ \E accepted \in Matches(sub, case, got.out) :
        LET status == Checked(accepted) IN
        IF status = "ACCEPTED"
        THEN /\ pc' = "run" /\ case' = case + 1 /\ cases' = Append(cases, status)
             /\ UNCHANGED <<available, verdict>>
        ELSE Return(status) /\ UNCHANGED <<case, cases>>
    /\ UNCHANGED <<files, metas, output, litter, sub, box, got, faulty>>

CheckRun ==
    /\ pc = "ran"
    /\ \E accepted \in Matches(sub, case, got.out) :
        LET status == Checked(accepted) IN
        /\ cases' = Append(cases, status)
        /\ IF status = "ACCEPTED"
           THEN /\ pc' = "run" /\ case' = case + 1
                /\ UNCHANGED <<available, verdict>>
           ELSE Return(status) /\ UNCHANGED case
    /\ UNCHANGED <<files, metas, output, litter, sub, box, got, faulty>>

AllPassed ==
    /\ pc = "run"
    /\ case > Len(sub.runs)
    /\ Return("ACCEPTED")
    /\ UNCHANGED <<files, metas, output, litter, sub, box, case, got, cases, faulty>>

-----------------------------------------------------------------------------
(* The process. *)

Kill ==
    /\ "kill" \in Faults
    /\ pc # "down"
    /\ Terminate
    /\ UNCHANGED <<files, metas, output, litter>>

\* A new process: BoxPool calls isolate --init for every box, which empties a
\* box or leaves it as the old process did (external).
Restart ==
    /\ pc = "down"
    /\ \E emptied \in SUBSET Boxes :
        /\ files' = [b \in Boxes |-> IF b \in emptied THEN NoFiles ELSE files[b]]
        /\ metas' = [b \in Boxes |-> IF b \in emptied THEN NoMetas ELSE metas[b]]
        /\ output' = [b \in Boxes |-> IF b \in emptied THEN NoOutput ELSE output[b]]
        /\ litter' = [b \in Boxes |-> IF b \in emptied THEN "none" ELSE litter[b]]
    /\ available' = Pool
    /\ pc' = "idle"
    /\ UNCHANGED <<sub, box, case, got, verdict, cases, faulty>>

Next ==
    \/ \E s \in Submissions : Start(s)
    \/ CompileRefused \/ CompileRuns \/ CompileFaults \/ CompileError \/ CompileOK
    \/ RunProgram \/ RunFaults \/ RunRefused \/ CheckRun \/ AllPassed
    \/ Kill \/ Restart

Spec == Init /\ [][Next]_vars

-----------------------------------------------------------------------------
(* Properties. *)

Verdicts == {"COMPILE_ERROR", "TIME_LIMIT_EXCEEDED", "MEMORY_LIMIT_EXCEEDED",
             "RUNTIME_ERROR", "WRONG_ANSWER", "ACCEPTED"}
Judging == pc \notin {"idle", "down"}
Judged == pc = "idle" /\ sub # None

Reports == Behaviours \cup {"ok", "nomain", "error", "XX", "torn", "emptied", "none"}

\* The pool and the result have their types, and a box that is judged in is a
\* box of the pool.
TypeOK ==
    /\ available \in Seq(Boxes)
    /\ files \in [Boxes -> [Artifacts -> Submissions \cup {None}]]
    /\ metas \in [Boxes -> [compile : Reports, run : Reports]]
    /\ output \in [Boxes -> [of : {<<>>} \cup (Submissions \X Nat), right : BOOLEAN]]
    /\ litter \in [Boxes -> {"none", "own", "others"}]
    /\ pc \in {"down", "idle", "compile", "compiled", "run", "ran"}
    /\ sub \in Submissions \cup {None}
    /\ Judging => box \in Boxes
    /\ verdict \in Verdicts \cup {"SYSTEM_ERROR"}
    /\ cases \in Seq(Verdicts)

\* The verdict each run deserves, whatever the order of the checks.
Deserved(behaviour) ==
    CASE behaviour = "right" -> "ACCEPTED"
      [] behaviour = "wrong" -> "WRONG_ANSWER"
      [] behaviour \in {"exits", "signalled"} -> "RUNTIME_ERROR"
      [] behaviour = "slow" -> "TIME_LIMIT_EXCEEDED"
      [] behaviour \in {"big", "big signalled"} -> "MEMORY_LIMIT_EXCEEDED"

\* What judging s from scratch, in an empty box, would give.
Expected(s) ==
    LET failed == {i \in DOMAIN s.runs : Deserved(s.runs[i]) # "ACCEPTED"} IN
    IF s.lang = "other" \/ s.compile = "error" THEN [status |-> "COMPILE_ERROR", cases |-> <<>>]
    ELSE IF failed = {}
         THEN [status |-> "ACCEPTED", cases |-> [i \in DOMAIN s.runs |-> "ACCEPTED"]]
         ELSE LET first == CHOOSE i \in failed : \A j \in failed : i <= j IN
              [status |-> Deserved(s.runs[first]),
               cases |-> [i \in 1..first |-> Deserved(s.runs[i])]]

\* What judge() can promise: isolate worked, the compiler finished with a verdict
\* of its own, and nothing of another submission could decide what was judged.
Undisturbed ==
    /\ ~faulty
    /\ sub.compile \in {"ok", "error"}
    /\ ~Disturbed

\* The verdict is the submission's own: whatever programs, meta files and outputs
\* earlier submissions, faults and processes left in the box, an undisturbed
\* judging gives what an empty box would give.
OwnVerdict ==
    Judged /\ Undisturbed => [status |-> verdict, cases |-> cases] = Expected(sub)

\* Whatever fails, judge() returns a result of the form JudgeDelivery assumes:
\* no case rows after a compilation error, otherwise accepted cases up to the
\* one that decided the verdict, and all of them for ACCEPTED.
ResultShape ==
    Judged =>
        \/ verdict = "COMPILE_ERROR" /\ cases = <<>>
        \/ /\ verdict = "ACCEPTED"
           /\ cases = [i \in DOMAIN sub.runs |-> "ACCEPTED"]
        \/ /\ verdict \notin {"COMPILE_ERROR", "ACCEPTED", "SYSTEM_ERROR"}
           /\ Len(cases) \in DOMAIN sub.runs
           /\ cases = [i \in DOMAIN cases |->
                         IF i = Len(cases) THEN verdict ELSE "ACCEPTED"]

\* Every return path of judge() gives its box back once: each box is either
\* available, once, or the one in use.
BoxesConserved ==
    pc # "down" =>
        /\ Distinct(available)
        /\ Elements(available) \cup (IF Judging THEN {box} ELSE {}) = Boxes
        /\ Judging => box \notin Elements(available)


\* DATA_FORMATS.md:114: the worker reports SystemError when isolate fails.
FaultIsSystemError == Judged /\ faulty => verdict = "SYSTEM_ERROR"

-----------------------------------------------------------------------------
(* The inductive invariant of the proofs (SandboxJudgeProofs). *)

\* How far judge() has come, whatever has failed.
Progress ==
    /\ pc = "down" => sub = None
    /\ Judging => sub \in Submissions
    /\ pc \in {"compile", "compiled"} => case = 1 /\ cases = <<>>
    /\ pc \in {"run", "ran"} =>
        /\ case \in 1..(Len(sub.runs) + 1)
        /\ cases = [i \in 1..(case - 1) |-> "ACCEPTED"]
    /\ pc = "ran" => case <= Len(sub.runs)

\* In an undisturbed judging the program in the box is the submission's own from
\* the compilation on, and what was accepted deserved it.
OwnProgress ==
    Judging /\ Undisturbed =>
        /\ pc = "compiled" => (got.exit = 0 <=> sub.lang # "other" /\ sub.compile = "ok")
        /\ pc \in {"run", "ran"} => sub.lang # "other" /\ sub.compile = "ok"
        /\ (pc = "compiled" /\ got.exit = 0) \/ pc \in {"run", "ran"} => Program = sub
        /\ pc \in {"run", "ran"} =>
            \A i \in 1..(case - 1) : Deserved(sub.runs[i]) = "ACCEPTED"
        /\ pc = "ran" =>
            got = ParseMeta(sub.runs[case], Written(sub, case, sub.runs[case]))

Inv == TypeOK /\ Progress /\ BoxesConserved /\ ResultShape /\ OwnProgress /\ OwnVerdict
=============================================================================
