------------------------- MODULE SandboxJudgeProofs -------------------------
(***************************************************************************)
(* Proofs about SandboxJudge, for any pool of boxes, any submissions and   *)
(* any of the faults.                                                      *)
(***************************************************************************)
EXTENDS SandboxJudge, QueueProofs

-----------------------------------------------------------------------------
(* What a report of isolate leads to. *)

\* The checks after a run that isolate reported, with its own output, give the
\* verdict the run deserves: their order decides nothing wrongly.
LEMMA RunDeserves ==
    ASSUME NEW s, NEW i, NEW b \in Behaviours, got = ParseMeta(b, Written(s, i, b)),
           NEW accepted \in Matches(s, i, got.out)
    PROVE  Checked(accepted) = Deserved(b)
<1>1. accepted = (b # "wrong")
  BY DEF ParseMeta, Result, Broken, Written, Matches
<1>2. CASE b = "right"
  BY <1>1, <1>2 DEF ParseMeta, Result, MetaOf, Checked, Deserved
<1>3. CASE b = "wrong"
  BY <1>1, <1>3 DEF ParseMeta, Result, MetaOf, Checked, Deserved
<1>4. CASE b = "exits"
  BY <1>4 DEF ParseMeta, Result, MetaOf, Checked, Deserved
<1>5. CASE b = "signalled"
  BY <1>5 DEF ParseMeta, Result, MetaOf, Checked, Deserved
<1>6. CASE b = "slow"
  BY <1>6 DEF ParseMeta, Result, MetaOf, Checked, Deserved
<1>7. CASE b = "big"
  BY <1>7 DEF ParseMeta, Result, MetaOf, Checked, Deserved
<1>8. CASE b = "big signalled"
  BY <1>8 DEF ParseMeta, Result, MetaOf, Checked, Deserved
<1> QED  BY <1>2, <1>3, <1>4, <1>5, <1>6, <1>7, <1>8 DEF Behaviours

\* A finished compilation succeeds exactly if isolate reported exit code 0.
LEMMA CompileReported ==
    ASSUME NEW out
    PROVE  /\ ParseMeta("ok", out).exit = 0
           /\ ParseMeta("error", out).exit # 0
<1>1. ParseMeta("ok", out).exit = 0
  BY DEF ParseMeta, Result, MetaOf
<1>2. ParseMeta("error", out).exit = 1
  BY DEF ParseMeta, Result, MetaOf
<1> QED  BY <1>1, <1>2

\* The checks end in one of five verdicts.
LEMMA CheckedType ==
    ASSUME NEW accepted
    PROVE  Checked(accepted) \in Verdicts \ {"COMPILE_ERROR"}
BY DEF Checked, Verdicts

-----------------------------------------------------------------------------
(* The kinds of steps. *)

Goes ==
    /\ Judging /\ Judging'
    /\ UNCHANGED <<available, sub, box>>

Returns ==
    /\ Judging /\ pc' = "idle"
    /\ available' = Append(available, box)
    /\ UNCHANGED <<sub, box>>

\* A step starts a judging, is one inside it, ends it, or ends the process.
LEMMA Kinds ==
    ASSUME Next
    PROVE  (\E s \in Submissions : Start(s)) \/ Goes \/ Returns \/ Terminate \/ Restart
<1> USE DEF Judging
<1>1. CASE CompileRefused \/ CompileRuns \/ CompileOK
  BY <1>1 DEF CompileRefused, CompileRuns, CompileOK, Goes, store
<1>2. CASE RunProgram \/ RunRefused
  BY <1>2 DEF RunProgram, RunRefused, Goes, store
<1>3. CASE CompileFaults
  BY <1>3 DEF CompileFaults, Goes
<1>4. CASE RunFaults
  BY <1>4 DEF RunFaults, Goes
<1>5. CASE CheckRun
  <2>1. PICK accepted \in Matches(sub, case, got.out) :
            \/ /\ pc' = "run" /\ UNCHANGED available
            \/ Return(Checked(accepted))
    BY <1>5 DEF CheckRun
  <2> QED  BY <1>5, <2>1 DEF CheckRun, Goes, Returns, Return
<1>6. CASE CompileError \/ AllPassed
  BY <1>6 DEF CompileError, AllPassed, Returns, Return
<1>7. CASE Kill
  BY <1>7 DEF Kill
<1> QED  BY <1>1, <1>2, <1>3, <1>4, <1>5, <1>6, <1>7 DEF Next

-----------------------------------------------------------------------------
(* The conjuncts of the invariant. *)

LEMMA InitInv == Init => Inv
<1> SUFFICES ASSUME Init PROVE Inv
  OBVIOUS
<1>1. \A b \in Boxes : NoMetas \in [compile : Reports, run : Reports]
  BY DEF NoMetas, Reports
<1>2. NoOutput \in [of : {<<>>} \cup (Submissions \X Nat), right : BOOLEAN]
  BY DEF NoOutput
<1>3. NoFiles \in [Artifacts -> Submissions \cup {None}]
  BY DEF NoFiles
<1>4. available \in Seq(Boxes)
  <2>1. /\ Pool \in [1..Len(Pool) -> Nat] /\ Len(Pool) \in Nat
        /\ Boxes = {Pool[i] : i \in 1..Len(Pool)}
    BY SandboxAssumption, LenProperties DEF Boxes, Elements
  <2>2. Pool \in [1..Len(Pool) -> Boxes]
    BY <2>1
  <2>3. Pool \in Seq(Boxes)
    BY <2>1, <2>2
  <2> QED  BY <2>3 DEF Init
<1>5. TypeOK
  BY <1>1, <1>2, <1>3, <1>4 DEF Init, TypeOK, Judging
<1>6. Progress /\ ResultShape /\ OwnProgress /\ OwnVerdict
  BY DEF Init, Progress, ResultShape, OwnProgress, OwnVerdict, Judging, Judged
<1>7. BoxesConserved
  BY SandboxAssumption DEF Init, BoxesConserved, Boxes, Judging
<1> QED  BY <1>5, <1>6, <1>7 DEF Inv

\* The queue hands out what is in it.
LEMMA ConservedStep == ASSUME Inv, [Next]_vars PROVE BoxesConserved' /\ available' \in Seq(Boxes)
<1>0. TypeOK /\ BoxesConserved
  BY DEF Inv
<1> USE DEF Judging
<1>1. CASE UNCHANGED vars
  BY <1>0, <1>1 DEF vars, store, BoxesConserved, TypeOK
<1>2. ASSUME NEW s \in Submissions, Start(s) PROVE BoxesConserved' /\ available' \in Seq(Boxes)
  <2>1. available # <<>> /\ available \in Seq(Boxes) /\ Distinct(available)
        /\ Elements(available) = Boxes
    BY <1>0, <1>2 DEF Start, TypeOK, BoxesConserved
  <2>2. available' \in Seq(Boxes)
    BY <1>2, <2>1, HeadTailProperties DEF Start
  <2>3. /\ Head(available) \in Boxes /\ Distinct(available')
        /\ Elements(available') = Boxes \ {Head(available)}
    BY <1>2, <2>1, TailElements DEF Start
  <2>4. box' = Head(available) /\ pc' = "compile"
    BY <1>2 DEF Start
  <2> QED  BY <2>2, <2>3, <2>4 DEF BoxesConserved
<1>3. CASE Goes
  BY <1>0, <1>3 DEF Goes, BoxesConserved, TypeOK
<1>4. CASE Returns
  <2>1. /\ available \in Seq(Boxes) /\ box \in Boxes /\ box \notin Elements(available)
        /\ Distinct(available) /\ Elements(available) \cup {box} = Boxes
    BY <1>0, <1>4 DEF Returns, TypeOK, BoxesConserved
  <2>2. available' \in Seq(Boxes)
    BY <1>4, <2>1, AppendProperties DEF Returns
  <2>3. Elements(available') = Boxes /\ Distinct(available')
    <3>1. available' = Append(available, box)
      BY <1>4 DEF Returns
    <3>2. /\ Elements(Append(available, box)) = Elements(available) \cup {box}
          /\ Distinct(Append(available, box))
      BY <2>1, AppendElements
    <3> QED  BY <2>1, <3>1, <3>2
  <2>4. pc' = "idle"
    BY <1>4 DEF Returns
  <2> QED  BY <2>2, <2>3, <2>4 DEF BoxesConserved
<1>5. CASE Terminate
  <2>1. available' = <<>> /\ pc' = "down"
    BY <1>5 DEF Terminate
  <2> QED  BY <2>1, EmptySeq DEF BoxesConserved
<1>6. CASE Restart
  <2>1. available' = Pool /\ pc' = "idle"
    BY <1>6 DEF Restart
  <2>2. Pool \in Seq(Boxes) /\ Distinct(Pool) /\ Elements(Pool) = Boxes
    BY SandboxAssumption DEF Boxes, Elements
  <2> QED  BY <2>1, <2>2 DEF BoxesConserved
<1> QED  BY <1>1, <1>2, <1>3, <1>4, <1>5, <1>6, Kinds

\* Every step keeps each variable in its type.
LEMMA TypeStep == ASSUME Inv, [Next]_vars PROVE TypeOK'
<1>0. TypeOK /\ Progress /\ available' \in Seq(Boxes)
  BY ConservedStep DEF Inv
<1> DEFINE Files == [Artifacts -> Submissions \cup {None}]
           Metas == [compile : Reports, run : Reports]
           Outputs == [of : {<<>>} \cup (Submissions \X Nat), right : BOOLEAN]
<1>a. /\ files \in [Boxes -> Files] /\ metas \in [Boxes -> Metas]
      /\ output \in [Boxes -> Outputs] /\ litter \in [Boxes -> {"none", "own", "others"}]
  BY <1>0 DEF TypeOK
<1>b. NoFiles \in Files /\ NoMetas \in Metas /\ NoOutput \in Outputs
  BY DEF NoFiles, NoMetas, NoOutput, Reports
<1> USE DEF Judging
<1>1. CASE UNCHANGED vars
  BY <1>0, <1>1 DEF vars, store, TypeOK
<1>2. ASSUME NEW s \in Submissions, Start(s) PROVE TypeOK'
  <2>1. Head(available) \in Boxes
    BY <1>0, <1>2, HeadTailProperties DEF Start, TypeOK
  <2>2. verdict' \in Verdicts \cup {"SYSTEM_ERROR"} /\ cases' \in Seq(Verdicts)
    BY <1>2, EmptySeq DEF Start
  <2>3. litter' \in [Boxes -> {"none", "own", "others"}]
    BY <1>a, <1>2 DEF Start
  <2> QED  BY <1>0, <1>2, <2>1, <2>2, <2>3 DEF Start, TypeOK
<1>3. CASE CompileRefused
  <2>1. SourceWritten \in Files
    BY <1>0, <1>3 DEF CompileRefused, TypeOK, Progress, SourceWritten, Artifacts
  <2>2. files' \in [Boxes -> Files]
    BY <1>a, <1>3, <2>1 DEF CompileRefused
  <2> QED  BY <1>0, <1>3, <2>2 DEF CompileRefused, TypeOK
<1>4. CASE CompileRuns
  <2>1. box \in Boxes /\ sub \in Submissions
    BY <1>0, <1>4 DEF CompileRuns, TypeOK, Progress
  <2>2. SourceWritten \in Files
    BY <1>0, <2>1 DEF TypeOK, SourceWritten, Artifacts
  <2>3. Leftovers \subseteq Files
    BY <2>2 DEF Leftovers, Artifacts
  <2>4. [files[box] EXCEPT ![Artifact(sub.lang)] = sub] \in Files
    BY <1>a, <2>1
  <2>5. PICK outcome \in {sub.compile} \cup Outcomes(sub.lang),
             left \in {[files[box] EXCEPT ![Artifact(sub.lang)] = sub], SourceWritten}
                        \cup Leftovers :
            /\ files' = [files EXCEPT ![box] = left]
            /\ metas' = [metas EXCEPT ![box].compile = outcome]
    BY <1>4 DEF CompileRuns
  <2>6. outcome \in Reports /\ left \in Files
    <3>1. sub.compile \in Outcomes(sub.lang)
      BY <2>1, SandboxAssumption
    <3>2. Outcomes(sub.lang) \subseteq Reports
      BY DEF Outcomes, Reports, Behaviours
    <3> QED  BY <2>2, <2>3, <2>4, <2>5, <3>1, <3>2
  <2>7. files' \in [Boxes -> Files]
    BY <1>a, <2>5, <2>6
  <2>8. metas' \in [Boxes -> Metas]
    BY <1>a, <2>1, <2>5, <2>6
  <2> QED  BY <1>0, <1>4, <2>7, <2>8 DEF CompileRuns, TypeOK
<1>5. ASSUME CompileFaults PROVE TypeOK'
  <2>1. box \in Boxes /\ sub \in Submissions
    BY <1>0, <1>5 DEF CompileFaults, TypeOK, Progress
  <2>2. SourceWritten \in Files
    BY <1>0, <2>1 DEF TypeOK, SourceWritten, Artifacts
  <2>3. files' \in [Boxes -> Files] /\ UNCHANGED <<output, litter>>
    BY <1>a, <1>5, <2>2 DEF CompileFaults
  <2>4. PICK report \in FaultReports(metas[box].compile) :
            /\ metas' = [metas EXCEPT ![box].compile = report]
            /\ \/ Terminate
               \/ pc' = "compiled" /\ UNCHANGED <<available, sub, box, case, verdict, cases>>
    BY <1>5 DEF CompileFaults
  <2>5. report \in Reports
    BY <1>a, <2>1 DEF FaultReports, Reports
  <2>6. metas' \in [Boxes -> Metas]
    BY <1>a, <2>1, <2>4, <2>5
  <2>7. CASE Terminate
    BY <1>0, <2>3, <2>6, <2>7, EmptySeq DEF Terminate, TypeOK
  <2>8. CASE pc' = "compiled" /\ UNCHANGED <<available, sub, box, case, verdict, cases>>
    BY <1>0, <2>1, <2>3, <2>6, <2>8 DEF TypeOK
  <2> QED  BY <2>4, <2>7, <2>8
<1>6. CASE CompileError
  BY <1>0, <1>6 DEF CompileError, Return, TypeOK, Verdicts
<1>7. CASE CompileOK
  BY <1>0, <1>7 DEF CompileOK, store, TypeOK
<1>8. CASE RunProgram
  <2>1. box \in Boxes /\ sub \in Submissions /\ case \in Nat
    BY <1>0, <1>8, SandboxAssumption DEF RunProgram, TypeOK, Progress
  <2>2. Missing(sub.lang) \in Reports
    BY DEF Missing, Reports, Behaviours
  <2>3. ASSUME NEW behaviour \in {sub.runs[case]} \cup Behaviours
        PROVE  behaviour \in Reports /\ Written(sub, case, behaviour) \in Outputs
    <3>1. sub.runs[case] \in Behaviours
      BY <1>0, <1>8, <2>1, SandboxAssumption, ElementOfSeq DEF RunProgram, Progress
    <3> QED  BY <2>1, <2>3, <3>1 DEF Reports, Written
  <2>4. metas' \in [Boxes -> Metas] /\ output' \in [Boxes -> Outputs]
    <3>1. PICK report \in Reports, out \in Outputs :
              /\ metas' = [metas EXCEPT ![box].run = report]
              /\ output' = [output EXCEPT ![box] = out]
      <4>1. CASE Program = None
        BY <1>b, <1>8, <2>2, <4>1 DEF RunProgram
      <4>2. CASE Program # None
        BY <1>8, <2>3, <4>2 DEF RunProgram
      <4> QED  BY <4>1, <4>2
    <3>2. metas' \in [Boxes -> Metas]
      BY <1>a, <2>1, <3>1
    <3> QED  BY <1>a, <3>1, <3>2
  <2> QED  BY <1>0, <1>8, <2>4 DEF RunProgram, TypeOK
<1>9. ASSUME RunFaults PROVE TypeOK'
  <2>1. box \in Boxes
    BY <1>0, <1>9 DEF RunFaults, TypeOK
  <2>4. PICK report \in FaultReports(metas[box].run), out \in {NoOutput, output[box]} :
            /\ metas' = [metas EXCEPT ![box].run = report]
            /\ output' = [output EXCEPT ![box] = out]
            /\ \/ Terminate
               \/ pc' = "ran" /\ UNCHANGED <<available, sub, box, case, verdict, cases>>
    BY <1>9 DEF RunFaults
  <2>5. report \in Reports
    BY <1>a, <2>1 DEF FaultReports, Reports
  <2>6. metas' \in [Boxes -> Metas] /\ output' \in [Boxes -> Outputs] 
        /\ UNCHANGED <<files, litter>>
    BY <1>a, <1>b, <1>9, <2>1, <2>4, <2>5 DEF RunFaults
  <2>7. CASE Terminate
    BY <1>0, <2>6, <2>7, EmptySeq DEF Terminate, TypeOK
  <2>8. CASE pc' = "ran" /\ UNCHANGED <<available, sub, box, case, verdict, cases>>
    BY <1>0, <2>1, <2>6, <2>8 DEF TypeOK
  <2> QED  BY <2>4, <2>7, <2>8
<1>10. CASE RunRefused
  BY <1>0, <1>10 DEF RunRefused, store, TypeOK
<1>11. CASE CheckRun
  <2>1. PICK accepted \in Matches(sub, case, got.out) :
            LET status == Checked(accepted) IN
            /\ cases' = Append(cases, status)
            /\ \/ pc' = "run" /\ UNCHANGED <<available, verdict>>
               \/ Return(status)
    BY <1>11 DEF CheckRun
  <2>2. Checked(accepted) \in Verdicts
    BY CheckedType
  <2>3. cases' \in Seq(Verdicts)
    BY <1>0, <2>1, <2>2, AppendProperties DEF TypeOK
  <2> QED  BY <1>0, <1>11, <2>1, <2>2, <2>3 DEF CheckRun, Return, TypeOK
<1>12. CASE AllPassed
  BY <1>0, <1>12 DEF AllPassed, Return, TypeOK, Verdicts
<1>13. CASE Kill
  BY <1>0, <1>13, EmptySeq DEF Kill, Terminate, TypeOK
<1>14. CASE Restart
  <2>1. /\ files' \in [Boxes -> Files] /\ metas' \in [Boxes -> Metas]
        /\ output' \in [Boxes -> Outputs] /\ litter' \in [Boxes -> {"none", "own", "others"}]
    BY <1>a, <1>b, <1>14 DEF Restart
  <2> QED  BY <1>0, <1>14, <2>1 DEF Restart, TypeOK
<1> QED
  BY <1>1, <1>2, <1>3, <1>4, <1>5, <1>6, <1>7, <1>8, <1>9, <1>10, <1>11, <1>12, <1>13, <1>14
  DEF Next

\* n accepted testcases and what comes after them.
LEMMA CasesGrow ==
    ASSUME NEW n \in Nat, NEW status
    PROVE  LET a == Append([i \in 1..n |-> "ACCEPTED"], status) IN
           /\ a = [i \in 1..(n + 1) |-> IF i = n + 1 THEN status ELSE "ACCEPTED"]
           /\ Len(a) = n + 1
<1> DEFINE S == {"ACCEPTED", status}
           s == [i \in 1..n |-> "ACCEPTED"]
           a == Append(s, status)
           b == [i \in 1..(n + 1) |-> IF i = n + 1 THEN status ELSE "ACCEPTED"]
<1>1. s \in Seq(S) /\ Len(s) = n
  OBVIOUS
<1>2. /\ a \in Seq(S) /\ Len(a) = n + 1 /\ a[n + 1] = status
      /\ \A i \in 1..n : a[i] = s[i]
  BY <1>1, AppendProperties
<1>3. b \in Seq(S) /\ Len(b) = n + 1
  OBVIOUS
<1>4. \A i \in 1..(n + 1) : a[i] = b[i]
  BY <1>2
<1> HIDE DEF a, b
<1>5. a = b
  BY <1>2, <1>3, <1>4, SeqEqual
<1> QED  BY <1>2, <1>5 DEF a, b

\* What a check adds: it goes on after an accepted case, otherwise it returns.
LEMMA Checks ==
    ASSUME Inv, CheckRun
    PROVE  \E accepted \in Matches(sub, case, got.out) :
             LET status == Checked(accepted) IN
             /\ cases' = [i \in 1..case |-> IF i = case THEN status ELSE "ACCEPTED"]
             /\ Len(cases') = case /\ case \in 1..Len(sub.runs)
             /\ UNCHANGED <<sub, box, files, litter, faulty, got>>
             /\ \/ status = "ACCEPTED" /\ pc' = "run" /\ case' = case + 1
                \/ status # "ACCEPTED" /\ pc' = "idle" /\ case' = case /\ verdict' = status
<1>0. /\ case \in 1..Len(sub.runs)
      /\ cases = [i \in 1..(case - 1) |-> "ACCEPTED"]
  <2>1. /\ case \in 1..(Len(sub.runs) + 1) /\ case <= Len(sub.runs)
        /\ cases = [i \in 1..(case - 1) |-> "ACCEPTED"]
        /\ sub \in Submissions
    BY DEF Inv, Progress, CheckRun, Judging
  <2>2. Len(sub.runs) \in Nat
    BY <2>1, SandboxAssumption, LenProperties
  <2> QED  BY <2>1, <2>2
<1>1. PICK accepted \in Matches(sub, case, got.out) :
        LET status == Checked(accepted) IN
        /\ cases' = Append(cases, status)
        /\ IF status = "ACCEPTED"
           THEN /\ pc' = "run" /\ case' = case + 1
                /\ UNCHANGED <<available, verdict>>
           ELSE Return(status) /\ UNCHANGED case
  BY DEF CheckRun
<1> DEFINE status == Checked(accepted)
           n == case - 1
<1>2. n \in Nat /\ n + 1 = case
  BY <1>0
<1>3. /\ Append(cases, status)
            = [i \in 1..(n + 1) |-> IF i = n + 1 THEN status ELSE "ACCEPTED"]
      /\ Len(Append(cases, status)) = n + 1
  <2> HIDE DEF status, n
  <2>1. cases = [i \in 1..n |-> "ACCEPTED"]
    BY <1>0 DEF n
  <2> QED  BY <1>2, <2>1, CasesGrow
<1>4. /\ cases' = [i \in 1..case |-> IF i = case THEN status ELSE "ACCEPTED"]
      /\ Len(cases') = case
  BY <1>1, <1>2, <1>3
<1> HIDE DEF n
<1>5. \/ status = "ACCEPTED" /\ pc' = "run" /\ case' = case + 1
      \/ status # "ACCEPTED" /\ pc' = "idle" /\ case' = case /\ verdict' = status
  BY <1>1 DEF Return
<1>6. UNCHANGED <<sub, box, files, litter, faulty, got>>
  BY DEF CheckRun
<1> QED  BY <1>0, <1>4, <1>5, <1>6

\* judge() compiles once, and then goes through the testcases one by one.
LEMMA ProgressStep == ASSUME Inv, [Next]_vars PROVE Progress'
<1>0. TypeOK /\ Progress
  BY DEF Inv
<1> USE DEF Judging
<1>1. CASE UNCHANGED vars
  BY <1>0, <1>1 DEF vars, Progress
<1>2. ASSUME NEW s \in Submissions, Start(s) PROVE Progress'
  BY <1>2 DEF Start, Progress
<1>3. CASE CompileRefused \/ CompileRuns
  BY <1>0, <1>3 DEF CompileRefused, CompileRuns, Progress
<1>4. CASE CompileFaults
  BY <1>0, <1>4 DEF CompileFaults, Terminate, Progress
<1>5. CASE CompileError \/ AllPassed
  BY <1>0, <1>5 DEF CompileError, AllPassed, Return, Progress
<1>6. CASE CompileOK
  <2>1. /\ sub \in Submissions /\ case = 1 /\ cases = <<>> /\ pc' = "run"
        /\ UNCHANGED <<sub, case, cases>>
    BY <1>0, <1>6 DEF CompileOK, Progress
  <2>2. Len(sub.runs) \in Nat
    BY <2>1, SandboxAssumption, LenProperties
  <2>3. cases = [i \in 1..(case - 1) |-> "ACCEPTED"]
    BY <2>1
  <2> QED  BY <2>1, <2>2, <2>3 DEF Progress
<1>7. CASE RunProgram \/ RunRefused
  BY <1>0, <1>7 DEF RunProgram, RunRefused, store, Progress
<1>8. CASE RunFaults
  BY <1>0, <1>8 DEF RunFaults, Terminate, Progress
<1>9. CASE CheckRun
  <2>1. PICK accepted \in Matches(sub, case, got.out) :
             LET status == Checked(accepted) IN
             /\ cases' = [i \in 1..case |-> IF i = case THEN status ELSE "ACCEPTED"]
             /\ case \in 1..Len(sub.runs) /\ sub' = sub
             /\ \/ status = "ACCEPTED" /\ pc' = "run" /\ case' = case + 1
                \/ status # "ACCEPTED" /\ pc' = "idle"
    BY <1>9, Checks
  <2>2. sub \in Submissions /\ Len(sub.runs) \in Nat
    BY <1>0, <1>9, SandboxAssumption, LenProperties DEF CheckRun, Progress
  <2>3. CASE pc' = "idle"
    BY <2>1, <2>3 DEF Progress
  <2>4. CASE Checked(accepted) = "ACCEPTED" /\ pc' = "run" /\ case' = case + 1
    <3>1. cases' = [i \in 1..case |-> "ACCEPTED"] /\ case' - 1 = case
      BY <2>1, <2>2, <2>4
    <3> QED  BY <2>1, <2>2, <2>4, <3>1 DEF Progress
  <2> QED  BY <2>1, <2>3, <2>4
<1>10. CASE Kill
  BY <1>10 DEF Kill, Terminate, Progress
<1>11. CASE Restart
  BY <1>0, <1>11 DEF Restart, Progress
<1> QED
  BY <1>1, <1>2, <1>3, <1>4, <1>5, <1>6, <1>7, <1>8, <1>9, <1>10, <1>11 DEF Next

\* Steps that do not end a judging leave no result to look at.
LEMMA NoResultYet ==
    ASSUME Inv, [Next]_vars
    PROVE  \/ ~Judged' \/ CompileError \/ AllPassed \/ CheckRun
           \/ UNCHANGED <<pc, sub, box, litter, verdict, cases, faulty>>
<1> USE DEF Judged
<1>1. CASE UNCHANGED vars
  BY <1>1 DEF vars, store
<1>2. ASSUME NEW s \in Submissions, Start(s) PROVE ~Judged'
  BY <1>2 DEF Start
<1>3. CASE CompileRefused \/ CompileRuns \/ CompileOK \/ RunProgram \/ RunRefused
  BY <1>3 DEF CompileRefused, CompileRuns, CompileOK, RunProgram, RunRefused
<1>4. CASE CompileFaults
  BY <1>4 DEF CompileFaults, Terminate
<1>5. CASE RunFaults
  BY <1>5 DEF RunFaults, Terminate
<1>6. CASE Kill
  BY <1>6 DEF Kill, Terminate
<1>7. CASE Restart
  BY <1>7 DEF Restart, Inv, Progress
<1> QED  BY <1>1, <1>2, <1>3, <1>4, <1>5, <1>6, <1>7 DEF Next

\* Each return of judge() builds one of the three forms of a result.
LEMMA ShapeStep == ASSUME Inv, [Next]_vars PROVE ResultShape'
<1>0. TypeOK /\ Progress /\ ResultShape
  BY DEF Inv
<1> USE DEF Judging
<1>1. CASE UNCHANGED <<pc, sub, box, litter, verdict, cases, faulty>>
  BY <1>0, <1>1 DEF ResultShape, Judged
<1>2. CASE ~Judged'
  BY <1>2 DEF ResultShape
<1>3. CASE CompileError
  BY <1>0, <1>3 DEF CompileError, Return, Progress, ResultShape
<1>4. CASE AllPassed
  <2>1. /\ sub \in Submissions /\ case \in 1..(Len(sub.runs) + 1) /\ case > Len(sub.runs)
        /\ cases = [i \in 1..(case - 1) |-> "ACCEPTED"]
        /\ verdict' = "ACCEPTED" /\ UNCHANGED <<sub, cases>>
    BY <1>0, <1>4 DEF AllPassed, Return, Progress
  <2>2. Len(sub.runs) \in Nat /\ DOMAIN sub.runs = 1..Len(sub.runs)
    BY <2>1, SandboxAssumption, LenProperties
  <2>3. case - 1 = Len(sub.runs)
    BY <2>1, <2>2
  <2> QED  BY <2>1, <2>2, <2>3 DEF ResultShape
<1>5. CASE CheckRun
  <2>1. PICK accepted \in Matches(sub, case, got.out) :
             LET status == Checked(accepted) IN
             /\ cases' = [i \in 1..case |-> IF i = case THEN status ELSE "ACCEPTED"]
             /\ Len(cases') = case /\ case \in 1..Len(sub.runs) /\ sub' = sub
             /\ pc' = "run" \/ (status # "ACCEPTED" /\ verdict' = status)
    BY <1>5, Checks
  <2>2. sub \in Submissions /\ Len(sub.runs) \in Nat /\ DOMAIN sub.runs = 1..Len(sub.runs)
    BY <1>0, <1>5, SandboxAssumption, LenProperties DEF CheckRun, Progress
  <2>3. CASE pc' = "run"
    BY <2>3 DEF ResultShape, Judged
  <2>4. CASE Checked(accepted) # "ACCEPTED" /\ verdict' = Checked(accepted)
    <3>1. verdict' \notin {"COMPILE_ERROR", "ACCEPTED", "SYSTEM_ERROR"}
      BY <2>4, CheckedType DEF Verdicts
    <3>2. Len(cases') \in DOMAIN sub'.runs /\ DOMAIN cases' = 1..case
      BY <2>1, <2>2
    <3>3. cases' = [i \in DOMAIN cases' |-> IF i = Len(cases') THEN verdict' ELSE "ACCEPTED"]
      BY <2>1, <2>4, <3>2
    <3> QED  BY <3>1, <3>2, <3>3 DEF ResultShape
  <2> QED  BY <2>1, <2>3, <2>4
<1> QED  BY <1>1, <1>2, <1>3, <1>4, <1>5, NoResultYet

-----------------------------------------------------------------------------
(* The verdict is the submission's own. *)

\* The first testcase that fails decides what is expected.
LEMMA FailureExpected ==
    ASSUME NEW s, s.lang # "other", s.compile = "ok",
           NEW n \in DOMAIN s.runs, DOMAIN s.runs \subseteq Nat,
           Deserved(s.runs[n]) # "ACCEPTED",
           \A i \in 1..(n - 1) : Deserved(s.runs[i]) = "ACCEPTED",
           0 \notin DOMAIN s.runs
    PROVE  Expected(s) = [status |-> Deserved(s.runs[n]),
                          cases |-> [i \in 1..n |-> Deserved(s.runs[i])]]
<1> DEFINE failed == {i \in DOMAIN s.runs : Deserved(s.runs[i]) # "ACCEPTED"}
           first == CHOOSE i \in failed : \A j \in failed : i <= j
<1>1. n \in failed
  OBVIOUS
<1>2. ASSUME NEW j \in failed PROVE n <= j
  <2>1. j \in Nat /\ n \in Nat /\ j # 0
    OBVIOUS
  <2>2. j \notin 1..(n - 1)
    OBVIOUS
  <2> QED  BY <2>1, <2>2
<1>3. \A i \in failed : (\A j \in failed : i <= j) => i = n
  <2> SUFFICES ASSUME NEW i \in failed, \A j \in failed : i <= j PROVE i = n
    OBVIOUS
  <2>1. i <= n /\ n <= i /\ i \in Nat /\ n \in Nat
    BY <1>1, <1>2
  <2> QED  BY <2>1
<1>4. first = n
  BY <1>1, <1>2, <1>3
<1>5. failed # {}
  BY <1>1
<1> QED  BY <1>4, <1>5 DEF Expected

\* If none fails, the submission is to be accepted.
LEMMA AcceptanceExpected ==
    ASSUME NEW s, s.lang # "other", s.compile = "ok",
           \A i \in DOMAIN s.runs : Deserved(s.runs[i]) = "ACCEPTED"
    PROVE  Expected(s) = [status |-> "ACCEPTED", cases |-> [i \in DOMAIN s.runs |-> "ACCEPTED"]]
<1>1. {i \in DOMAIN s.runs : Deserved(s.runs[i]) # "ACCEPTED"} = {}
  OBVIOUS
<1> QED  BY <1>1 DEF Expected

\* What is in the box stays the submission's own, and every check gives what the
\* run deserves.
LEMMA OwnProgressStep == ASSUME Inv, [Next]_vars PROVE OwnProgress'
<1>0. TypeOK /\ Progress /\ OwnProgress
  BY DEF Inv
<1> USE DEF Judging
<1>1. CASE UNCHANGED vars
  BY <1>0, <1>1 DEF vars, store, OwnProgress, Program, Undisturbed, Disturbed
<1>2. ASSUME NEW s \in Submissions, Start(s) PROVE OwnProgress'
  BY <1>2 DEF Start, OwnProgress
<1>3. CASE CompileRefused
  <2>1. got'.exit = -1 /\ pc' = "compiled" /\ sub' = sub
    BY <1>3 DEF CompileRefused, Broken, Result
  <2>2. sub.lang = "other" \/ faulty'
    BY <1>3 DEF CompileRefused
  <2> QED  BY <2>1, <2>2 DEF OwnProgress, Undisturbed
<1>4. CASE CompileRuns
  <2>1. /\ sub \in Submissions /\ sub.lang # "other" /\ sub.lang \in Languages
        /\ box \in Boxes
        /\ pc' = "compiled" /\ UNCHANGED <<sub, box, litter, faulty>>
    BY <1>0, <1>4, SandboxAssumption DEF CompileRuns, Progress, TypeOK
  <2>2. SUFFICES ASSUME Undisturbed PROVE OwnProgress'
    BY <2>1 DEF OwnProgress, Undisturbed, Disturbed
  <2>3. got'.exit = 0 <=> sub.compile = "ok"
    <3>1. got' = ParseMeta(sub.compile, output[box])
      BY <1>4, <2>2 DEF CompileRuns, Undisturbed
    <3> QED  BY <2>2, <3>1, CompileReported DEF Undisturbed
  <2>4. ASSUME sub.compile = "ok" PROVE Program' = sub
    <3>1. files' = [files EXCEPT ![box] = [files[box] EXCEPT ![Artifact(sub.lang)] = sub]]
      BY <1>4, <2>2, <2>4 DEF CompileRuns, Undisturbed
    <3>2. Artifact(sub.lang) \in Artifacts
      BY <2>1 DEF Artifact, Artifacts, Languages
    <3>3. files'[box] = [files[box] EXCEPT ![Artifact(sub.lang)] = sub]
      BY <1>0, <2>1, <3>1 DEF TypeOK
    <3>4. DOMAIN files[box] = Artifacts
      BY <1>0, <2>1 DEF TypeOK
    <3> QED  BY <2>1, <3>2, <3>3, <3>4 DEF Program
  <2> QED  BY <2>1, <2>3, <2>4 DEF OwnProgress
<1>5. CASE CompileFaults
  BY <1>5 DEF CompileFaults, Terminate, OwnProgress, Undisturbed
<1>6. CASE CompileError \/ AllPassed
  BY <1>6 DEF CompileError, AllPassed, Return, OwnProgress
<1>7. CASE CompileOK
  <2>1. /\ pc = "compiled" /\ pc' = "run" /\ got.exit = 0 /\ case = 1
        /\ UNCHANGED <<sub, box, files, litter, case, faulty>>
    BY <1>0, <1>7 DEF CompileOK, store, Progress
  <2> QED  BY <1>0, <2>1 DEF OwnProgress, Program, Undisturbed, Disturbed
<1>8. CASE RunProgram
  <2>1. /\ pc = "run" /\ pc' = "ran" /\ sub \in Submissions /\ box \in Boxes
        /\ UNCHANGED <<sub, box, files, litter, case, faulty>>
    BY <1>0, <1>8 DEF RunProgram, Progress, TypeOK
  <2>2. SUFFICES ASSUME Undisturbed PROVE OwnProgress'
    BY <2>1 DEF OwnProgress, Undisturbed, Disturbed
  <2>3. /\ sub.lang # "other" /\ sub.compile = "ok" /\ Program = sub
        /\ \A i \in 1..(case - 1) : Deserved(sub.runs[i]) = "ACCEPTED"
    BY <1>0, <2>1, <2>2 DEF OwnProgress
  <2>4. Program # None
    BY <2>1, <2>3, SandboxAssumption
  <2>5. /\ metas' = [metas EXCEPT ![box].run = sub.runs[case]]
        /\ output' = [output EXCEPT ![box] = Written(sub, case, sub.runs[case])]
        /\ got' = ParseMeta(metas'[box].run, output'[box])
    BY <1>8, <2>2, <2>3, <2>4 DEF RunProgram, Undisturbed
  <2>6. metas'[box].run = sub.runs[case]
    BY <1>0, <2>1, <2>5 DEF TypeOK
  <2>7. output'[box] = Written(sub, case, sub.runs[case])
    BY <1>0, <2>1, <2>5 DEF TypeOK
  <2>8. got' = ParseMeta(sub.runs[case], Written(sub, case, sub.runs[case]))
    BY <2>5, <2>6, <2>7
  <2>9. Program' = sub
    BY <2>1, <2>3 DEF Program
  <2> QED  BY <2>1, <2>3, <2>8, <2>9 DEF OwnProgress
<1>9. CASE RunFaults
  BY <1>9 DEF RunFaults, Terminate, OwnProgress, Undisturbed
<1>10. CASE RunRefused
  BY <1>10 DEF RunRefused, OwnProgress, Undisturbed
<1>11. CASE CheckRun
  <2>1. PICK accepted \in Matches(sub, case, got.out) :
             LET status == Checked(accepted) IN
             /\ case \in 1..Len(sub.runs)
             /\ UNCHANGED <<sub, box, files, litter, faulty, got>>
             /\ \/ status = "ACCEPTED" /\ pc' = "run" /\ case' = case + 1
                \/ pc' = "idle"
    BY <1>11, Checks
  <2>2. pc = "ran" /\ sub \in Submissions
    BY <1>0, <1>11 DEF CheckRun, Progress
  <2>3. CASE pc' = "idle"
    BY <2>3 DEF OwnProgress
  <2>4. ASSUME Checked(accepted) = "ACCEPTED", pc' = "run", case' = case + 1,
               Undisturbed
        PROVE  OwnProgress'
    <3>1. /\ sub.lang # "other" /\ sub.compile = "ok" /\ Program = sub
          /\ \A i \in 1..(case - 1) : Deserved(sub.runs[i]) = "ACCEPTED"
          /\ got = ParseMeta(sub.runs[case], Written(sub, case, sub.runs[case]))
      BY <1>0, <2>2, <2>4 DEF OwnProgress
    <3>2. sub.runs[case] \in Behaviours
      BY <2>1, <2>2, SandboxAssumption, ElementOfSeq
    <3>3. Deserved(sub.runs[case]) = "ACCEPTED"
      BY <2>1, <2>4, <3>1, <3>2, RunDeserves
    <3>4. \A i \in 1..(case' - 1) : Deserved(sub.runs[i]) = "ACCEPTED"
      BY <2>1, <2>4, <3>1, <3>3
    <3>5. Program' = sub
      BY <2>1, <3>1 DEF Program
    <3> QED  BY <2>1, <2>4, <3>1, <3>4, <3>5 DEF OwnProgress
  <2>5. CASE ~Undisturbed
    BY <2>1, <2>5 DEF OwnProgress, Undisturbed, Disturbed
  <2> QED  BY <2>1, <2>3, <2>4, <2>5
<1>12. CASE Kill
  BY <1>12 DEF Kill, Terminate, OwnProgress
<1>13. CASE Restart
  BY <1>13 DEF Restart, OwnProgress
<1> QED
  BY <1>1, <1>2, <1>3, <1>4, <1>5, <1>6, <1>7, <1>8, <1>9, <1>10, <1>11, <1>12, <1>13 DEF Next

\* Each return of judge() gives what an empty box would have given.
LEMMA OwnVerdictStep == ASSUME Inv, [Next]_vars PROVE OwnVerdict'
<1>0. TypeOK /\ Progress /\ OwnProgress /\ OwnVerdict
  BY DEF Inv
<1> USE DEF Judging
<1>1. CASE UNCHANGED <<pc, sub, box, litter, verdict, cases, faulty>>
  BY <1>0, <1>1 DEF OwnVerdict, Judged, Undisturbed, Disturbed
<1>2. CASE ~Judged'
  BY <1>2 DEF OwnVerdict
<1>3. CASE CompileError
  <2>1. /\ pc = "compiled" /\ got.exit # 0 /\ sub \in Submissions /\ cases = <<>>
        /\ verdict' = "COMPILE_ERROR" /\ UNCHANGED <<sub, box, litter, cases, faulty>>
    BY <1>0, <1>3 DEF CompileError, Return, Progress
  <2>2. SUFFICES ASSUME Undisturbed
                 PROVE  Expected(sub) = [status |-> "COMPILE_ERROR", cases |-> <<>>]
    BY <2>1 DEF OwnVerdict, Undisturbed, Disturbed
  <2>3. sub.lang = "other" \/ sub.compile = "error"
    BY <1>0, <2>1, <2>2 DEF OwnProgress, Undisturbed
  <2> QED  BY <2>3 DEF Expected
<1>4. CASE AllPassed
  <2>1. /\ pc = "run" /\ sub \in Submissions /\ case > Len(sub.runs)
        /\ case \in 1..(Len(sub.runs) + 1)
        /\ cases = [i \in 1..(case - 1) |-> "ACCEPTED"]
        /\ verdict' = "ACCEPTED" /\ UNCHANGED <<sub, box, litter, cases, faulty>>
    BY <1>0, <1>4 DEF AllPassed, Return, Progress
  <2>2. Len(sub.runs) \in Nat /\ DOMAIN sub.runs = 1..Len(sub.runs)
    BY <2>1, SandboxAssumption, LenProperties
  <2>3. 1..(case - 1) = DOMAIN sub.runs
    BY <2>1, <2>2
  <2>4. SUFFICES ASSUME Undisturbed
                 PROVE  Expected(sub) = [status |-> "ACCEPTED", cases |-> cases]
    BY <2>1 DEF OwnVerdict, Undisturbed, Disturbed
  <2>5. /\ sub.lang # "other" /\ sub.compile = "ok"
        /\ \A i \in DOMAIN sub.runs : Deserved(sub.runs[i]) = "ACCEPTED"
    BY <1>0, <2>1, <2>3, <2>4 DEF OwnProgress
  <2>6. Expected(sub) = [status |-> "ACCEPTED", cases |-> [i \in DOMAIN sub.runs |-> "ACCEPTED"]]
    BY <2>5, AcceptanceExpected
  <2> QED  BY <2>1, <2>3, <2>6
<1>5. CASE CheckRun
  <2>1. PICK accepted \in Matches(sub, case, got.out) :
             LET status == Checked(accepted) IN
             /\ cases' = [i \in 1..case |-> IF i = case THEN status ELSE "ACCEPTED"]
             /\ case \in 1..Len(sub.runs)
             /\ UNCHANGED <<sub, box, litter, faulty>>
             /\ pc' = "run" \/ (status # "ACCEPTED" /\ verdict' = status)
    BY <1>5, Checks
  <2>2. /\ pc = "ran" /\ sub \in Submissions /\ sub.runs \in Seq(Behaviours)
        /\ Len(sub.runs) \in Nat /\ DOMAIN sub.runs = 1..Len(sub.runs)
    BY <1>0, <1>5, SandboxAssumption, LenProperties DEF CheckRun, Progress
  <2>3. CASE pc' = "run"
    BY <2>3 DEF OwnVerdict, Judged
  <2>4. ASSUME Checked(accepted) # "ACCEPTED", verdict' = Checked(accepted),
               Undisturbed
        PROVE  [status |-> verdict', cases |-> cases'] = Expected(sub)
    <3>1. /\ sub.lang # "other" /\ sub.compile = "ok"
          /\ \A i \in 1..(case - 1) : Deserved(sub.runs[i]) = "ACCEPTED"
          /\ got = ParseMeta(sub.runs[case], Written(sub, case, sub.runs[case]))
      BY <1>0, <2>2, <2>4 DEF OwnProgress
    <3>2. sub.runs[case] \in Behaviours
      BY <2>1, <2>2, ElementOfSeq
    <3>3. Checked(accepted) = Deserved(sub.runs[case])
      BY <2>1, <3>1, <3>2, RunDeserves
    <3>4. Expected(sub) = [status |-> Deserved(sub.runs[case]),
                           cases |-> [i \in 1..case |-> Deserved(sub.runs[i])]]
      <4>1. case \in DOMAIN sub.runs /\ DOMAIN sub.runs \subseteq Nat /\ 0 \notin DOMAIN sub.runs
        BY <2>1, <2>2
      <4> QED  BY <2>4, <3>1, <3>3, <4>1, FailureExpected
    <3>5. \A i \in 1..case :
            (IF i = case THEN Checked(accepted) ELSE "ACCEPTED") = Deserved(sub.runs[i])
      BY <2>1, <2>2, <3>1, <3>3
    <3>6. cases' = [i \in 1..case |-> Deserved(sub.runs[i])]
      BY <2>1, <3>5
    <3> QED  BY <2>4, <3>3, <3>4, <3>6
  <2> QED  BY <2>1, <2>3, <2>4 DEF OwnVerdict, Undisturbed, Disturbed
<1> QED  BY <1>1, <1>2, <1>3, <1>4, <1>5, NoResultYet

-----------------------------------------------------------------------------
(* The theorems. *)

\* Inv is an invariant for any pool, submissions and faults.
LEMMA Invariance == Spec => []Inv
<1>1. ASSUME Inv, [Next]_vars PROVE Inv'
  <2>1. TypeOK' /\ Progress' /\ BoxesConserved'
    BY <1>1, TypeStep, ProgressStep, ConservedStep
  <2>2. ResultShape' /\ OwnProgress' /\ OwnVerdict'
    BY <1>1, ShapeStep, OwnProgressStep, OwnVerdictStep
  <2> QED  BY <2>1, <2>2 DEF Inv
<1> QED  BY InitInv, <1>1, PTL DEF Spec

\* The pool, the boxes and the result stay well typed.
THEOREM TypeCorrect == Spec => []TypeOK
<1>1. Inv => TypeOK
  BY DEF Inv
<1> QED  BY <1>1, Invariance, PTL

\* Every return path of judge() gives its box back, whatever fails.
THEOREM BoxesAreConserved == Spec => []BoxesConserved
<1>1. Inv => BoxesConserved
  BY DEF Inv
<1> QED  BY <1>1, Invariance, PTL

\* judge() returns one of the results that JudgeDelivery assumes.
THEOREM ResultsHaveShape == Spec => []ResultShape
<1>1. Inv => ResultShape
  BY DEF Inv
<1> QED  BY <1>1, Invariance, PTL

\* Whatever programs, meta files and outputs earlier submissions, faults and
\* processes left in the boxes, a judging gives what an empty box would give, if
\* isolate worked, the compiler finished and built the class that is started, and
\* none of the other files in the box stands for anything the submission looks up
\* (Undisturbed).
THEOREM VerdictIsOwn == Spec => []OwnVerdict
<1>1. Inv => OwnVerdict
  BY DEF Inv
<1> QED  BY <1>1, Invariance, PTL
=============================================================================
