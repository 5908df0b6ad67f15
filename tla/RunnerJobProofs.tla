-------------------------- MODULE RunnerJobProofs --------------------------
(***************************************************************************)
(* What holds of a judge request in the runner for every number of test    *)
(* cases, every limit, every signal and every interleaving.                *)
(***************************************************************************)
EXTENDS RunnerJob, RunCaseProofs, FiniteSetTheorems

-----------------------------------------------------------------------------
(* The invariant of the case is one of the request *)

\* Removing the directories disturbs nothing that a case relies on.
LEMMA CleanupCase == CaseInv /\ Cleanup => CaseInv'
  <1> SUFFICES ASSUME CaseInv, Cleanup
               PROVE  CaseInv'
    OBVIOUS
  <1>1. CaseTypeOK'
    BY DEF CaseInv, CaseTypeOK, Written, Cleanup, programVars, outputVars
  <1>2. ProcInv'
    BY DEF CaseInv, ProcInv, Judged, Cleanup, programVars, outputVars
  <1>3. FlowInv'
    BY DEF CaseInv, FlowInv, Written, Cleanup, programVars, outputVars
  <1>4. VerdictInv'
    BY SameVerdict DEF CaseInv, VerdictInv, Judged, Drained, Cleanup, programVars, outputVars
  <1> QED
    BY <1>1, <1>2, <1>3, <1>4 DEF CaseInv

\* Every step of the request leaves the case alone but those that are its own.
LEMMA JobCase ==
  ASSUME [Next]_vars
  PROVE  CaseNext \/ CallAgain \/ Cleanup \/ UNCHANGED caseVars
  <1>1. ASSUME NEW m \in Modes, NEW i \in 1..(Cardinality(Enabled) + 1), Prepare(m, i)
        PROVE  UNCHANGED caseVars
    BY <1>1 DEF Prepare
  <1>2. Refuse \/ Begin \/ WriteFails => UNCHANGED caseVars
    BY DEF Refuse, Begin, WriteFails
  <1>3. GccStarts \/ GccMissing \/ GccEnds \/ CompileDone \/ CompileTimesOut => UNCHANGED caseVars
    BY DEF GccStarts, GccMissing, GccEnds, CompileDone, CompileTimesOut
  <1>4. CallCase \/ CaseRaised \/ Conclude => UNCHANGED caseVars
    BY DEF CallCase, CaseRaised, Conclude
  <1>5. CaseDone => CallAgain
    BY DEF CaseDone
  <1>6. CaseStep => CaseNext
    BY DEF CaseStep
  <1>7. Answered \/ UNCHANGED vars => UNCHANGED caseVars
    BY DEF Answered, vars
  <1> QED
    BY <1>1, <1>2, <1>3, <1>4, <1>5, <1>6, <1>7 DEF Next, Job

\* CaseInv is inductive for the specification.
LEMMA SpecCaseInv == Spec => []CaseInv
  <1>1. Init => CaseInv
    BY FreshInv DEF Init, CaseInit
  <1>2. CaseInv /\ [Next]_vars => CaseInv'
    BY JobCase, CaseNextInv, CallAgainInv, CleanupCase, StutterInv
  <1> QED
    BY <1>1, <1>2, PTL DEF Spec

(***************************************************************************)
(* Whatever the order of the program, the readers and the loop: a case is  *)
(* ACCEPTED only for a program that ended well within its limits and whose *)
(* whole output was captured.                                              *)
(***************************************************************************)
THEOREM SpecAcceptedIsEarned == Spec => []AcceptedIsEarned
  BY SpecCaseInv, InvAccepted, PTL

(***************************************************************************)
(* The output limit is exact for both streams together, whatever ended the *)
(* program first.                                                          *)
(***************************************************************************)
THEOREM SpecOutputLimitExact == Spec => []OutputLimitExact
  BY SpecCaseInv, InvOutputLimit, PTL

(***************************************************************************)
(* The verdict is the one for how the program really ended, with and       *)
(* without the launcher, for every signal and every status.                *)
(***************************************************************************)
THEOREM SpecVerdictTellsTheEnding == Spec => []VerdictTellsTheEnding
  BY SpecCaseInv, InvVerdict, PTL

(***************************************************************************)
(* No process and no directory of a case outlives its result.              *)
(***************************************************************************)
THEOREM SpecNothingSurvives == Spec => []NothingSurvives
  BY SpecCaseInv, InvSurvives, PTL

-----------------------------------------------------------------------------
(* The cases of a request *)

(***************************************************************************)
(* Sorted lists each case of a finite set once, by its position: the cases *)
(* below a case give it its place, and no two cases the same one.          *)
(***************************************************************************)
LEMMA SortedIs ==
  ASSUME NEW S \in SUBSET Nat, IsFiniteSet(S)
  PROVE  /\ Sorted(S) \in [1..Cardinality(S) -> S]
         /\ \A i, j \in 1..Cardinality(S) : i < j => Sorted(S)[i] < Sorted(S)[j]
         /\ S = {Sorted(S)[i] : i \in 1..Cardinality(S)}
  <1> DEFINE n == Cardinality(S)
             Below(x) == {y \in S : y <= x}
             rank == [x \in S |-> Cardinality(Below(x))]
  <1>1. n \in Nat
    BY FS_CardinalityType
  <1>2. ASSUME NEW x \in S
        PROVE  IsFiniteSet(Below(x)) /\ rank[x] \in 1..n
    <2>1. /\ IsFiniteSet(Below(x)) /\ Cardinality(Below(x)) <= n
      BY FS_Subset
    <2>2. Cardinality(Below(x)) \in Nat
      BY <2>1, FS_CardinalityType
    <2>3. Below(x) # {}
      OBVIOUS
    <2>4. Cardinality(Below(x)) # 0
      BY <2>1, <2>3, FS_EmptySet
    <2> QED
      BY <1>1, <2>1, <2>2, <2>4
  <1>3. ASSUME NEW x \in S, NEW y \in S, x < y
        PROVE  rank[x] < rank[y]
    <2>0. \A z \in S : z \in Nat
      OBVIOUS
    <2>1. Below(x) \in SUBSET Below(y) /\ y \in Below(y) /\ y \notin Below(x)
      <3>1. \A z \in S : z <= x => z <= y
        BY <1>3, <2>0
      <3>2. y <= y /\ ~(y <= x)
        BY <1>3, <2>0
      <3> QED
        BY <3>1, <3>2
    <2>2. /\ Cardinality(Below(x)) <= Cardinality(Below(y))
          /\ Cardinality(Below(y)) # Cardinality(Below(x))
      BY <1>2, <2>1, FS_Subset
    <2>3. Cardinality(Below(x)) \in Nat /\ Cardinality(Below(y)) \in Nat
      BY <1>2, FS_CardinalityType
    <2> QED
      BY <2>2, <2>3
  <1> HIDE DEF rank, n
  <1>4. rank \in [S -> 1..n]
    BY <1>2 DEF rank
  <1>5. \A x, y \in S : rank[x] = rank[y] => x = y
    BY <1>3, <1>4
  <1>6. rank \in Surjection(S, 1..n)
    <2>1. rank \in Injection(S, 1..n)
      BY <1>4, <1>5 DEF Injection, IsInjective
    <2>2. IsFiniteSet(1..n) /\ Cardinality(1..n) = n
      BY <1>1, FS_Interval
    <2> QED
      BY <2>1, <2>2, FS_Injection DEF n
  <1> DEFINE place == [i \in 1..n |-> CHOOSE x \in S : rank[x] = i]
  <1>7. ASSUME NEW i \in 1..n
        PROVE  place[i] \in S /\ rank[place[i]] = i
    BY <1>6 DEF Surjection
  <1> HIDE DEF place
  <1>8. place \in [1..n -> S] /\ \A i, j \in DOMAIN place : i < j => place[i] < place[j]
    <2>1. place \in [1..n -> S]
      BY <1>7 DEF place
    <2>2. ASSUME NEW i \in 1..n, NEW j \in 1..n, i < j
          PROVE  place[i] < place[j]
      <3>1. place[j] < place[i] => j < i
        BY <1>3, <1>7
      <3>2. place[i] # place[j]
        BY <1>7, <2>2
      <3>3. place[i] \in Nat /\ place[j] \in Nat
        BY <1>7
      <3> QED
        BY <2>2, <3>1, <3>2, <3>3
    <2> QED
      BY <2>1, <2>2
  <1> DEFINE f == Sorted(S)
  <1>9. f \in [1..n -> S] /\ \A i, j \in DOMAIN f : i < j => f[i] < f[j]
    BY <1>8 DEF Sorted, n
  <1> HIDE DEF f
  <1>10. f \in Surjection(1..n, S)
    <2>1. ASSUME NEW i \in 1..n, NEW j \in 1..n, f[i] = f[j]
          PROVE  i = j
      <3>1. f[i] \in Nat /\ f[j] \in Nat
        BY <1>9
      <3>2. ~(i < j) /\ ~(j < i)
        BY <1>9, <2>1, <3>1
      <3> QED
        BY <1>1, <3>2
    <2>2. f \in Injection(1..n, S)
      BY <1>9, <2>1 DEF Injection, IsInjective
    <2>3. Cardinality(1..n) = Cardinality(S)
      BY <1>1, FS_Interval DEF n
    <2> QED
      BY <2>2, <2>3, FS_Injection
  <1>11. S = {f[i] : i \in 1..n}
    BY <1>9, <1>10 DEF Surjection
  <1> QED
    BY <1>9, <1>11 DEF f, n

\* What is in the payload: known cases, the public ones for a sample, and
\* every enabled one for the whole problem.
LEMMA CasesAre ==
  ASSUME NEW m \in Modes, NEW k \in Nat, ~TurnedDown(m, k)
  PROVE  /\ CasesOf(m, k) \in Seq(TestCases \cup {Custom})
         /\ m = "sample" => \A i \in 1..Len(CasesOf(m, k)) : CasesOf(m, k)[i] \in Public
         /\ m = "custom" => \A i \in 1..Len(CasesOf(m, k)) : CasesOf(m, k)[i] = Custom
         /\ m \in {"all", "verify"} =>
               Enabled \subseteq {CasesOf(m, k)[i] : i \in 1..Len(CasesOf(m, k))}
  <1>1. /\ Enabled \in SUBSET Nat /\ IsFiniteSet(Enabled)
        /\ Enabled \cap Public \in SUBSET Nat /\ IsFiniteSet(Enabled \cap Public)
        /\ Enabled \subseteq TestCases
    BY RequestAssumption, FS_Subset
  <1>2. CASE m = "sample"
    <2>1. k \in DOMAIN Samples /\ CasesOf(m, k) = <<Samples[k]>>
      BY <1>2, Zenon DEF TurnedDown, CasesOf
    <2>2. Samples[k] \in Enabled \cap Public
      BY <1>1, <2>1, SortedIs DEF Samples
    <2> DEFINE c == Samples[k]
    <2>3. c \in TestCases \cup {Custom} /\ c \in Public /\ CasesOf(m, k) = <<c>>
      BY <1>1, <2>1, <2>2
    <2> HIDE DEF c
    <2>4. /\ <<c>> \in Seq(TestCases \cup {Custom}) /\ Len(<<c>>) = 1
          /\ \A i \in 1..1 : <<c>>[i] = c
      BY <2>3
    <2> QED
      BY <1>2, <2>3, <2>4
  <1>3. CASE m = "custom"
    <2>1. m # "sample"
      BY <1>3
    <2>2. CasesOf(m, k) = <<Custom>>
      BY <1>3, <2>1, Zenon DEF CasesOf
    <2> QED
      BY <1>3, <2>2
  <1>4. CASE m \notin {"sample", "custom"}
    <2>1. CasesOf(m, k) = Sorted(Enabled)
      BY <1>4, Zenon DEF CasesOf
    <2>2. /\ Cardinality(Enabled) \in Nat
          /\ Sorted(Enabled) \in [1..Cardinality(Enabled) -> Enabled]
          /\ Enabled = {Sorted(Enabled)[i] : i \in 1..Cardinality(Enabled)}
      BY <1>1, SortedIs, FS_CardinalityType
    <2>3. Sorted(Enabled) \in Seq(Enabled) /\ Len(Sorted(Enabled)) = Cardinality(Enabled)
      BY <2>2
    <2>4. Sorted(Enabled) \in Seq(TestCases \cup {Custom})
      <3>1. Sorted(Enabled) \in [1..Cardinality(Enabled) -> TestCases \cup {Custom}]
        BY <1>1, <2>2
      <3> QED
        BY <2>2, <3>1
    <2> QED
      BY <1>4, <2>1, <2>2, <2>3, <2>4
  <1> QED
    BY <1>2, <1>3, <1>4

-----------------------------------------------------------------------------
(* The inductive invariant of the request *)

\* Where the case is while the request is elsewhere, and what exists then.
PlaceInv ==
    /\ job # "case" => pc = "start" \/ (pc = "raised" /\ job \in {"finally", "answered"})
    /\ pc = "raised" /\ job # "case" => response = "500"
    /\ pc = "start" => dirs = {}
    /\ job = "answered" => dirs = {}
    /\ job \in {"new", "sent", "answered"} => workdir = FALSE
    /\ gcc = "running" => job = "gcc"
    /\ response # "none" => job \in {"finally", "answered"}

\* A case counts as passed only when its program earned it.
Earned(i) ==
    results[i].status = "ACCEPTED" =>
        /\ results[i].earned
        /\ asked[i] # Custom => results[i].passed = "yes"

\* A case whose program was not started is a system error, and no other.
Ran(i) == results[i].ran <=> results[i].status # "SYSTEM_ERROR"

\* What the results say, and the answer of them.
ResultInv ==
    /\ \E T : results \in Seq(T)
    /\ job \in {"new", "sent", "compile", "gcc"} => results = <<>>
    /\ \A i \in 1..Len(results) :
          results[i].status \in Statuses \cup {"WRONG_ANSWER"} /\ Earned(i) /\ Ran(i)
    /\ response = "ACCEPTED" =>
          /\ Len(results) = Len(asked)
          /\ \A i \in 1..Len(results) : results[i].status = "ACCEPTED"
    /\ response \in Judgements \cup {"SYSTEM_ERROR"} =>
          /\ Len(results) = Len(asked)
          /\ response = "SYSTEM_ERROR" <=> SomeCase("SYSTEM_ERROR")

\* Only a request within the limits gets past the checks.
LimitInv ==
    /\ time_limit \in TimeLimits
    /\ job = "new" => asked = <<>>
    /\ job \in {"compile", "gcc", "cases", "case", "finally"} => LimitsValid(time_limit)
    /\ response = "422" => ~LimitsValid(time_limit)
    /\ job = "answered" /\ asked # <<>> /\ response # "422" => LimitsValid(time_limit)

\* What is asked for is what the mode allows, and what is shown was asked for.
AskedInv ==
    /\ asked \in Seq(TestCases \cup {Custom})
    /\ mode \in Modes \cup {"none"}
    /\ mode = "sample" => \A i \in 1..Len(asked) : asked[i] \in Public
    /\ mode = "custom" => \A i \in 1..Len(asked) : asked[i] = Custom
    /\ job # "new" /\ response # "400" /\ mode \in {"all", "verify"}
          => Enabled \subseteq {asked[i] : i \in 1..Len(asked)}
    /\ Len(results) <= Len(asked)
    /\ job = "case" => Len(results) < Len(asked)
    /\ job = "new" => shown = {}
    /\ Reveals(mode) \/ shown = {}
    /\ shown \subseteq {asked[i] : i \in 1..Len(asked)}

JobInv == CaseInv /\ FailInv /\ PlaceInv /\ ResultInv /\ LimitInv

\* A step of the case leaves its start behind, or what exists as it is.
LEMMA CaseKeeps ==
  ASSUME CaseNext
  PROVE  isolated' = isolated /\ (pc' # "start" \/ (pc' = pc /\ dirs' = dirs))
  <1>1. Program => isolated' = isolated /\ pc' = pc /\ dirs' = dirs
    BY DEF Program, Write, Fork, ChildEnds, MainEnds, LauncherFails, parentVars
  <1>2. ASSUME NEW s \in Streams, Reader(s)
        PROVE  isolated' = isolated /\ pc' = pc /\ dirs' = dirs
    BY <1>2 DEF Reader, ReadChunk, RecordChunk, CloseStream, parentVars
  <1>3. ASSUME NEW s \in Streams, Join(s)
        PROVE  isolated' = isolated /\ pc' # "start"
    BY <1>3 DEF Join, Goto
  <1>4. SetUp \/ SetUpRaises \/ PopenStarts \/ PopenFails \/ ThreadsStart \/ ThreadFails
           => isolated' = isolated /\ pc' # "start"
    BY DEF SetUp, SetUpRaises, PopenStarts, PopenFails, ThreadsStart, ThreadFails, Goto
  <1>5. Poll \/ CheckOutput \/ DeadlinePassed \/ DeadlineAhead \/ Reap
           => isolated' = isolated /\ pc' # "start"
    BY DEF Poll, CheckOutput, DeadlinePassed, DeadlineAhead, Reap, ForceStatus, Goto
  <1>6. Stop \/ Decode \/ Classify \/ Finally => isolated' = isolated /\ pc' # "start"
    BY DEF Stop, Decode, Classify, Finally, Goto
  <1> QED
    BY <1>1, <1>2, <1>3, <1>4, <1>5, <1>6 DEF CaseNext, Parent

\* A set of the first numbers has a least one.
LEMMA FirstOfSix ==
  ASSUME NEW S, S \subseteq 1..6, S # {}
  PROVE  \E i \in S : \A j \in S : i <= j
  <1>1. PICK a \in S : TRUE
    OBVIOUS
  <1> QED
    BY <1>1, 1 \in S \/ 2 \in S \/ 3 \in S \/ 4 \in S \/ 5 \in S \/ 6 \in S

\* The order of the failures, and that one of them is the first.
LEMMA VerdictIs ==
  /\ SomeCase("SYSTEM_ERROR") <=> Verdict = "SYSTEM_ERROR"
  /\ Verdict # "422"
  /\ Verdict = "ACCEPTED" =>
        \A st \in {"SYSTEM_ERROR", "TIME_LIMIT_EXCEEDED", "MEMORY_LIMIT_EXCEEDED",
                   "OUTPUT_LIMIT_EXCEEDED", "RUNTIME_ERROR", "WRONG_ANSWER"} : ~SomeCase(st)
  <1> DEFINE order == <<"SYSTEM_ERROR", "TIME_LIMIT_EXCEEDED", "MEMORY_LIMIT_EXCEEDED",
                        "OUTPUT_LIMIT_EXCEEDED", "RUNTIME_ERROR", "WRONG_ANSWER">>
             found == {i \in DOMAIN order : SomeCase(order[i])}
             first == CHOOSE i \in found : \A j \in found : i <= j
  <1>1. Verdict = IF found = {} THEN "ACCEPTED" ELSE order[first]
    BY DEF Verdict
  <1>2. DOMAIN order = 1..6
    OBVIOUS
  <1>3. found \subseteq 1..6
    BY <1>2
  <1>4. ASSUME found # {}
        PROVE  first \in found /\ \A j \in found : first <= j
    <2>1. \E i \in found : \A j \in found : i <= j
      BY <1>3, <1>4, FirstOfSix
    <2> QED
      BY <2>1
  <1>5. ASSUME SomeCase("SYSTEM_ERROR")
        PROVE  Verdict = "SYSTEM_ERROR"
    <2>1. 1 \in found
      BY <1>5
    <2>2. first = 1
      BY <1>3, <1>4, <2>1
    <2> QED
      BY <1>1, <2>1, <2>2
  <1>6. found # {} => order[first] \in {order[k] : k \in 1..6}
    BY <1>3, <1>4
  <1>7. ASSUME found # {} PROVE Verdict \notin {"422", "ACCEPTED"}
    BY <1>1, <1>6, <1>7
  <1>8. ASSUME found = {} PROVE /\ Verdict = "ACCEPTED"
                               /\ \A k \in 1..6 : ~SomeCase(order[k])
    BY <1>1, <1>2, <1>8
  <1>9. ASSUME Verdict = "SYSTEM_ERROR"
        PROVE  SomeCase("SYSTEM_ERROR")
    <2>1. found # {} /\ order[first] = "SYSTEM_ERROR"
      BY <1>1, <1>9
    <2>2. SomeCase(order[first])
      BY <1>4, <2>1
    <2> QED
      BY <2>1, <2>2
  <1> QED
    BY <1>5, <1>7, <1>8, <1>9

\* Every step keeps the places consistent.
LEMMA PlaceNext ==
  ASSUME JobInv, [Next]_vars
  PROVE  PlaceInv'
  <1> USE DEF PlaceInv, caseVars, requestVars, Answer
  <1>0. PlaceInv
    BY DEF JobInv
  <1>1. ASSUME NEW m \in Modes, NEW i \in 1..(Cardinality(Enabled) + 1), Prepare(m, i)
        PROVE  PlaceInv'
    BY <1>0, <1>1 DEF Prepare
  <1>2. CASE Refuse
    BY <1>0, <1>2 DEF Refuse
  <1>3. CASE Begin
    BY <1>0, <1>3 DEF Begin
  <1>4. CASE WriteFails \/ GccStarts \/ GccEnds
    BY <1>0, <1>4 DEF WriteFails, GccStarts, GccEnds
  <1>5. CASE GccMissing \/ CompileDone \/ CompileTimesOut
    BY <1>0, <1>5 DEF GccMissing, CompileDone, CompileTimesOut, CompileReturns
  <1>6. CASE CallCase
    BY <1>0, <1>6 DEF CallCase
  <1>7. CASE CaseStep
    BY <1>0, <1>7, CaseKeeps DEF CaseStep, jobVars
  <1>8. CASE CaseDone
    BY <1>0, <1>8 DEF CaseDone, CallAgain
  <1>9. CASE CaseRaised
    BY <1>0, <1>9 DEF CaseRaised
  <1>10. CASE Conclude
    BY <1>0, <1>10 DEF Conclude
  <1>11. CASE Cleanup
    BY <1>0, <1>11 DEF Cleanup
  <1>12. CASE Answered \/ UNCHANGED vars
    BY <1>0, <1>12 DEF Answered, vars, jobVars
  <1> QED
    BY <1>1, <1>2, <1>3, <1>4, <1>5, <1>6, <1>7, <1>8, <1>9, <1>10, <1>11, <1>12
    DEF Next, Job

\* Every step keeps to the limits that were checked.
LEMMA LimitNext ==
  ASSUME JobInv, [Next]_vars
  PROVE  LimitInv'
  <1> USE DEF LimitInv, PlaceInv, requestVars, Answer
  <1>0. LimitInv /\ PlaceInv
    BY DEF JobInv
  <1>1. ASSUME NEW m \in Modes, NEW i \in 1..(Cardinality(Enabled) + 1), Prepare(m, i)
        PROVE  LimitInv'
    BY <1>0, <1>1 DEF Prepare
  <1>2. CASE Refuse
    BY <1>0, <1>2 DEF Refuse
  <1>3. CASE Begin \/ WriteFails \/ GccStarts \/ GccEnds
    BY <1>0, <1>3 DEF Begin, WriteFails, GccStarts, GccEnds
  <1>5. CASE GccMissing \/ CompileDone \/ CompileTimesOut
    BY <1>0, <1>5 DEF GccMissing, CompileDone, CompileTimesOut, CompileReturns
  <1>6. CASE CallCase \/ CaseRaised \/ CaseDone
    BY <1>0, <1>6 DEF CallCase, CaseRaised, CaseDone
  <1>7. CASE CaseStep
    BY <1>0, <1>7 DEF CaseStep, jobVars
  <1>10. CASE Conclude
    <2>1. Verdict # "422"
      BY VerdictIs
    <2> QED
      BY <1>0, <1>10, <2>1 DEF Conclude
  <1>11. CASE Cleanup
    BY <1>0, <1>11 DEF Cleanup
  <1>12. CASE Answered \/ UNCHANGED vars
    BY <1>0, <1>12 DEF Answered, vars, jobVars
  <1> QED
    BY <1>1, <1>2, <1>3, <1>5, <1>6, <1>7, <1>10, <1>11, <1>12
    DEF Next, Job

\* A result is recorded for what the case was: nothing else passes, and a
\* system error is for a program that was not started.
LEMMA CaseResultOK ==
  ASSUME CaseInv, pc = "done", NEW i, NEW same \in BOOLEAN,
         NEW r, r = CaseResult(i, same)
  PROVE  /\ r.status \in Statuses \cup {"WRONG_ANSWER"}
         /\ r.status = "ACCEPTED" => r.earned /\ (asked[i] # Custom => r.passed = "yes")
         /\ r.status = "SYSTEM_ERROR" <=> status = "SYSTEM_ERROR"
         /\ r.ran = (ending # Alive)
  <1> DEFINE passed == status = "ACCEPTED" /\ same
             well == /\ ending = [kind |-> "exit", n |-> 0] /\ ~large /\ forced = "none"
                     /\ Drained => Written <= MaxOutput /\ text = wrote["out"]
  <1>1. status \in Statuses
    BY DEF CaseInv, VerdictInv
  <1>2. r.ran = (ending # Alive) /\ r.earned = (well /\ (asked[i] # Custom => same))
    BY Zenon DEF CaseResult
  <1>3. status = "ACCEPTED" => well
    BY InvAccepted DEF AcceptedIsEarned, Returned
  <1> HIDE DEF well
  <1>4. CASE asked[i] = Custom
    <2>1. r.status = status
      BY <1>4 DEF CaseResult
    <2> QED
      BY <1>1, <1>2, <1>3, <1>4, <2>1
  <1>5. CASE asked[i] # Custom /\ passed
    <2>1. r.status = "ACCEPTED" /\ r.passed = "yes"
      BY <1>5 DEF CaseResult
    <2> QED
      BY <1>2, <1>3, <1>5, <2>1 DEF Statuses
  <1>6. CASE asked[i] # Custom /\ ~passed
    <2>1. r.status = IF status = "ACCEPTED" THEN "WRONG_ANSWER" ELSE status
      BY <1>6 DEF CaseResult
    <2> QED
      BY <1>1, <1>2, <2>1
  <1> QED
    BY <1>4, <1>5, <1>6

\* Every step keeps the results earned and the answer theirs.
LEMMA ResultNext ==
  ASSUME JobInv, [Next]_vars
  PROVE  ResultInv'
  <1> USE DEF ResultInv, PlaceInv, requestVars, Answer
  <1>0. ResultInv /\ PlaceInv /\ LimitInv /\ CaseInv /\ FailInv
    BY DEF JobInv
  <1>1. ASSUME NEW m \in Modes, NEW i \in 1..(Cardinality(Enabled) + 1), Prepare(m, i)
        PROVE  ResultInv'
    BY <1>0, <1>1 DEF Prepare, Earned, Ran, SomeCase, Judgements, Statuses
  <1>2. CASE Refuse
    BY <1>0, <1>2 DEF Refuse, Earned, Ran, SomeCase, Judgements, Statuses, caseVars
  <1>3. CASE Begin \/ WriteFails \/ GccStarts \/ GccEnds
    BY <1>0, <1>3 DEF Begin, WriteFails, GccStarts, GccEnds, Earned, Ran, SomeCase, Judgements, Statuses, caseVars
  <1>5. CASE GccMissing \/ CompileDone \/ CompileTimesOut
    BY <1>0, <1>5 DEF GccMissing, CompileDone, CompileTimesOut, CompileReturns, Earned, Ran, SomeCase, Judgements, Statuses, caseVars
  <1>6. CASE CallCase \/ CaseRaised
    BY <1>0, <1>6 DEF CallCase, CaseRaised, Earned, Ran, SomeCase, Judgements, Statuses, caseVars
  <1>7. CASE CaseStep
    BY <1>0, <1>7, CaseKeeps DEF CaseStep, jobVars, Earned, Ran, SomeCase, Judgements, Statuses
  <1>8. CASE CaseDone
    <2>1. /\ job = "case" /\ job' = "cases" /\ pc = "done" /\ response' = response
          /\ asked' = asked /\ isolated' = isolated
      BY <1>8 DEF CaseDone, CallAgain
    <2>2. PICK same \in BOOLEAN :
             results' = Append(results, CaseResult(Len(results) + 1, same))
      BY <1>8 DEF CaseDone
    <2> DEFINE r == CaseResult(Len(results) + 1, same)
    <2>3. /\ r.status \in Statuses \cup {"WRONG_ANSWER"}
          /\ r.status = "ACCEPTED" =>
                r.earned /\ (asked[Len(results) + 1] # Custom => r.passed = "yes")
          /\ r.ran <=> r.status # "SYSTEM_ERROR"
      <3>1. CaseInv /\ FailInv /\ pc = "done"
        BY <1>0, <2>1
      <3>2. status = "SYSTEM_ERROR" <=> ending = Alive
        BY <3>1, InvRan
      <3>3. /\ r.status \in Statuses \cup {"WRONG_ANSWER"}
            /\ r.status = "ACCEPTED" =>
                  r.earned /\ (asked[Len(results) + 1] # Custom => r.passed = "yes")
            /\ r.status = "SYSTEM_ERROR" <=> status = "SYSTEM_ERROR"
            /\ r.ran = (ending # Alive)
        <4> HIDE DEF ResultInv, PlaceInv, requestVars, Answer
        <4> QED
          BY <3>1, CaseResultOK
      <3> HIDE DEF r
      <3> QED
        BY <3>2, <3>3
    <2> HIDE DEF r
    <2>4. PICK T : results \in Seq(T)
      BY <1>0
    <2>5. results' = Append(results, r)
      BY <2>2 DEF r
    <2>6. /\ results' \in Seq(T \cup {r}) /\ Len(results') = Len(results) + 1
          /\ Len(results) \in Nat
          /\ \A i \in 1..Len(results) : results'[i] = results[i]
          /\ results'[Len(results) + 1] = r
      BY <2>4, <2>5
    <2>7. ASSUME NEW i \in 1..Len(results')
          PROVE  (results[i].status \in Statuses \cup {"WRONG_ANSWER"} /\ Earned(i) /\ Ran(i))'
      <3>1. CASE i \in 1..Len(results)
        BY <1>0, <2>1, <2>6, <3>1 DEF Earned, Ran
      <3>2. CASE i = Len(results) + 1
        BY <2>1, <2>3, <2>6, <3>2 DEF Earned, Ran
      <3> QED
        BY <2>6, <2>7, <3>1, <3>2
    <2>8. response = "none"
      BY <1>0, <2>1
    <2> QED
      BY <2>1, <2>6, <2>7, <2>8 DEF Judgements, Statuses
  <1>10. CASE Conclude
    <2>1. /\ job = "cases" /\ job' = "finally" /\ Len(results) = Len(asked)
          /\ response' = Verdict /\ UNCHANGED <<results, asked, isolated>>
      BY <1>10 DEF Conclude, caseVars
    <2>2. PICK T : results \in Seq(T)
      BY <1>0
    <2>3. ASSUME Verdict = "ACCEPTED", NEW i \in 1..Len(results)
          PROVE  results[i].status = "ACCEPTED"
      <3>1. DOMAIN results = 1..Len(results)
        BY <2>2
      <3>2. \A st \in {"SYSTEM_ERROR", "TIME_LIMIT_EXCEEDED", "MEMORY_LIMIT_EXCEEDED",
                       "OUTPUT_LIMIT_EXCEEDED", "RUNTIME_ERROR", "WRONG_ANSWER"} :
               results[i].status # st
        BY <2>3, <3>1, VerdictIs DEF SomeCase
      <3>3. results[i].status \in Statuses \cup {"WRONG_ANSWER"}
        BY <1>0
      <3> QED
        BY <3>2, <3>3 DEF Statuses
    <2>4. (SomeCase("SYSTEM_ERROR"))' <=> Verdict = "SYSTEM_ERROR"
      BY <2>1, VerdictIs DEF SomeCase
    <2> QED
      BY <1>0, <2>1, <2>3, <2>4 DEF Earned, Ran
  <1>11. CASE Cleanup
    BY <1>0, <1>11 DEF Cleanup, Earned, Ran, SomeCase, Judgements, Statuses
  <1>12. CASE Answered \/ UNCHANGED vars
    BY <1>0, <1>12 DEF Answered, vars, jobVars, caseVars, Earned, Ran, SomeCase, Judgements, Statuses
  <1> QED
    BY <1>1, <1>2, <1>3, <1>5, <1>6, <1>7, <1>8, <1>10, <1>11, <1>12
    DEF Next, Job

\* Every step asks for and shows what the mode allows.
LEMMA AskedNext ==
  ASSUME JobInv, AskedInv, [Next]_vars
  PROVE  AskedInv'
  <1> USE DEF AskedInv, PlaceInv, requestVars, Answer
  <1>0. AskedInv /\ PlaceInv /\ ResultInv /\ LimitInv
    BY DEF JobInv
  <1>1. ASSUME NEW m \in Modes, NEW i \in 1..(Cardinality(Enabled) + 1), Prepare(m, i)
        PROVE  AskedInv'
    <2>1. /\ job = "new" /\ mode' = m /\ shown' = {} /\ results' = results
          /\ asked = <<>> /\ results = <<>>
      BY <1>0, <1>1 DEF Prepare, LimitInv, ResultInv
    <2>2. i \in Nat
      BY <1>1, RequestAssumption, FS_Subset, FS_CardinalityType
    <2>3. CASE ~TurnedDown(m, i) /\ job' = "sent" /\ asked' = CasesOf(m, i)
      <3> DEFINE c == CasesOf(m, i)
      <3>1. /\ c \in Seq(TestCases \cup {Custom})
            /\ m = "sample" => \A j \in 1..Len(c) : c[j] \in Public
            /\ m = "custom" => \A j \in 1..Len(c) : c[j] = Custom
            /\ m \in {"all", "verify"} => Enabled \subseteq {c[j] : j \in 1..Len(c)}
        BY <2>2, <2>3, CasesAre
      <3> HIDE DEF c
      <3>2. asked' = c
        BY <2>3 DEF c
      <3> QED
        BY <2>1, <2>3, <3>1, <3>2
    <2>4. CASE Answer("400") /\ asked' = asked
      BY <1>0, <2>1, <2>4
    <2> QED
      BY <1>1, <2>3, <2>4 DEF Prepare
  <1>2. CASE Refuse
    BY <1>0, <1>2 DEF Refuse
  <1>3. CASE Begin \/ WriteFails \/ GccStarts \/ GccEnds
    BY <1>0, <1>3 DEF Begin, WriteFails, GccStarts, GccEnds
  <1>5. CASE GccMissing \/ CompileDone \/ CompileTimesOut
    BY <1>0, <1>5 DEF GccMissing, CompileDone, CompileTimesOut, CompileReturns
  <1>6. CASE CallCase \/ CaseRaised
    BY <1>0, <1>6 DEF CallCase, CaseRaised
  <1>7. CASE CaseStep
    BY <1>0, <1>7 DEF CaseStep, jobVars
  <1>8. CASE CaseDone
    <2>1. PICK same \in BOOLEAN :
             results' = Append(results, CaseResult(Len(results) + 1, same))
      BY <1>8 DEF CaseDone
    <2>2. PICK T : results \in Seq(T)
      BY <1>0 DEF ResultInv
    <2>3. Len(results') = Len(results) + 1 /\ Len(results) \in Nat
      BY <2>1, <2>2
    <2>4. /\ job = "case" /\ job' = "cases"
          /\ UNCHANGED <<mode, asked, shown, response>>
      BY <1>8 DEF CaseDone
    <2> QED
      BY <1>0, <2>3, <2>4
  <1>10. CASE Conclude
    <2>1. /\ job = "cases" /\ job' = "finally" /\ response = "none"
          /\ UNCHANGED <<mode, asked, results>>
          /\ shown' = IF Reveals(mode) THEN Contents ELSE {}
      BY <1>0, <1>10 DEF Conclude
    <2>2. Contents \subseteq {asked[i] : i \in 1..Len(asked)}
      <3>1. PICK T : results \in Seq(T)
        BY <1>0 DEF ResultInv
      <3>2. DOMAIN results = 1..Len(results) /\ Len(results) \in Nat /\ Len(asked) \in Nat
        BY <1>0, <3>1
      <3> QED
        BY <1>0, <3>2 DEF Contents
    <2> QED
      BY <1>0, <2>1, <2>2 DEF Reveals
  <1>11. CASE Cleanup
    BY <1>0, <1>11 DEF Cleanup
  <1>12. CASE Answered \/ UNCHANGED vars
    BY <1>0, <1>12 DEF Answered, vars, jobVars
  <1> QED
    BY <1>1, <1>2, <1>3, <1>5, <1>6, <1>7, <1>8, <1>10, <1>11, <1>12
    DEF Next, Job

\* JobInv is inductive for the specification.
LEMMA SpecJobInv == Spec => []JobInv
  <1>1. Init => JobInv
    <2> SUFFICES ASSUME Init
                 PROVE  JobInv
      OBVIOUS
    <2>1. CaseInv
      BY FreshInv DEF Init, CaseInit
    <2>2. PlaceInv /\ LimitInv
      BY DEF Init, CaseInit, Fresh, PlaceInv, LimitInv
    <2>3. results \in Seq({})
      BY DEF Init
    <2>4. ResultInv
      BY <2>3 DEF Init, ResultInv, Judgements, Statuses
    <2>5. FailInv
      BY DEF Init, CaseInit, Fresh, FailInv
    <2> QED
      BY <2>1, <2>2, <2>4, <2>5 DEF JobInv
  <1>2. JobInv /\ [Next]_vars => JobInv'
    <2> SUFFICES ASSUME JobInv, [Next]_vars
                 PROVE  JobInv'
      OBVIOUS
    <2>1. CaseInv'
      BY JobCase, CaseNextInv, CallAgainInv, CleanupCase, StutterInv DEF JobInv
    <2>2. FailInv'
      <3>1. Cleanup => UNCHANGED <<pc, status, procs, ending, reader>>
        BY DEF Cleanup, programVars, outputVars
      <3>2. CallAgain => status' = "none"
        BY DEF CallAgain
      <3> QED
        BY <3>1, <3>2, JobCase, FailNext DEF JobInv, FailInv, caseVars
    <2> QED
      BY <2>1, <2>2, PlaceNext, ResultNext, LimitNext DEF JobInv
  <1> QED
    BY <1>1, <1>2, PTL DEF Spec

\* AskedInv is inductive together with JobInv.
LEMMA SpecAskedInv == Spec => [](JobInv /\ AskedInv)
  <1>1. Init => AskedInv
    BY DEF Init, AskedInv, Reveals
  <1>2. JobInv /\ AskedInv /\ [Next]_vars => AskedInv'
    BY AskedNext
  <1> QED
    BY <1>1, <1>2, SpecJobInv, PTL DEF Spec

(***************************************************************************)
(* A request is ACCEPTED only when each of its cases ran and was earned,   *)
(* however many there are and whatever came before in the same request,    *)
(* and a judge of the problem is of every enabled case.                    *)
(***************************************************************************)
THEOREM SpecJobVerdictEarned == Spec => []JobVerdictEarned
  <1>1. JobInv /\ AskedInv => JobVerdictEarned
    <2> SUFFICES ASSUME JobInv, AskedInv, response = "ACCEPTED"
                 PROVE  /\ Len(results) = Len(asked)
                        /\ \A i \in 1..Len(asked) : Earned(i) /\ results[i].status = "ACCEPTED"
                        /\ mode \in {"all", "verify"}
                              => Enabled \subseteq {asked[i] : i \in 1..Len(asked)}
      BY DEF JobVerdictEarned, Earned
    <2>1. job # "new"
      BY DEF JobInv, PlaceInv
    <2> QED
      BY <2>1 DEF JobInv, ResultInv, AskedInv
  <1> QED
    BY <1>1, SpecAskedInv, PTL

(***************************************************************************)
(* For every problem: no answer to a student shows a case that is not      *)
(* public, in any mode, with any verdict and any failure on the way.       *)
(***************************************************************************)
THEOREM SpecHiddenStaysHidden == Spec => []HiddenStaysHidden
  <1>1. AskedInv => HiddenStaysHidden
    <2> SUFFICES ASSUME AskedInv, mode # "verify", NEW c \in shown, c \in TestCases
                 PROVE  c \in Public
      BY DEF HiddenStaysHidden
    <2>1. PICK i \in 1..Len(asked) : c = asked[i]
      BY DEF AskedInv
    <2>2. mode \in {"sample", "custom"}
      BY DEF AskedInv, Reveals
    <2>3. c # Custom
      BY RequestAssumption DEF Custom
    <2> QED
      BY <2>1, <2>2, <2>3 DEF AskedInv
  <1> QED
    BY <1>1, SpecAskedInv, PTL

-----------------------------------------------------------------------------
(* Types *)

Results == [status : Overall, passed : PassedOf, earned : BOOLEAN, ran : BOOLEAN]

\* A result is one.
LEMMA CaseResultType ==
  ASSUME CaseInv, pc = "done", NEW i, NEW same \in BOOLEAN
  PROVE  CaseResult(i, same) \in Results
  <1> DEFINE r == CaseResult(i, same)
  <1>1. r.status \in Overall
    BY CaseResultOK DEF Overall
  <1>2. r.passed \in PassedOf
    <2>1. CASE asked[i] = Custom
      BY <2>1, Zenon DEF CaseResult, PassedOf
    <2>2. CASE asked[i] # Custom
      BY <2>2, Zenon DEF CaseResult, PassedOf
    <2> QED
      BY <2>1, <2>2
  <1>3. r.earned \in BOOLEAN /\ r.ran \in BOOLEAN
    BY DEF CaseResult
  <1>4. r = [status |-> r.status, passed |-> r.passed, earned |-> r.earned, ran |-> r.ran]
    BY DEF CaseResult
  <1> QED
    BY <1>1, <1>2, <1>3, <1>4 DEF Results

\* What the answer of a judged request can be.
LEMMA VerdictType == Verdict \in Overall
  <1> DEFINE order == <<"SYSTEM_ERROR", "TIME_LIMIT_EXCEEDED", "MEMORY_LIMIT_EXCEEDED",
                        "OUTPUT_LIMIT_EXCEEDED", "RUNTIME_ERROR", "WRONG_ANSWER">>
             found == {i \in DOMAIN order : SomeCase(order[i])}
             first == CHOOSE i \in found : \A j \in found : i <= j
  <1>1. Verdict = IF found = {} THEN "ACCEPTED" ELSE order[first]
    BY DEF Verdict
  <1>2. found \subseteq 1..6
    OBVIOUS
  <1>3. found # {} => first \in 1..6
    <2>1. found # {} => \E i \in found : \A j \in found : i <= j
      BY <1>2, FirstOfSix
    <2> QED
      BY <1>2, <2>1
  <1>4. \A k \in 1..6 : order[k] \in Overall
    BY DEF Overall, Statuses
  <1> QED
    BY <1>1, <1>3, <1>4 DEF Overall, Statuses

\* The variables of the request itself.
JobTypes ==
    /\ job \in JobPlaces
    /\ gcc \in {"none", "running", "ok", "error"}
    /\ workdir \in BOOLEAN
    /\ results \in Seq(Results)
    /\ response \in Overall \cup HttpErrors \cup {"none"}

\* Every step keeps their types.
LEMMA TypeNext ==
  ASSUME JobInv, JobTypes, [Next]_vars
  PROVE  JobTypes'
  <1> USE DEF JobTypes, JobPlaces, requestVars, Answer, HttpErrors
  <1>0. JobTypes
    OBVIOUS
  <1>1. ASSUME NEW m \in Modes, NEW i \in 1..(Cardinality(Enabled) + 1), Prepare(m, i)
        PROVE  JobTypes'
    BY <1>0, <1>1 DEF Prepare
  <1>2. CASE Refuse
    BY <1>0, <1>2 DEF Refuse
  <1>3. CASE Begin \/ WriteFails \/ GccStarts \/ GccEnds
    BY <1>0, <1>3 DEF Begin, WriteFails, GccStarts, GccEnds
  <1>5. CASE GccMissing \/ CompileDone \/ CompileTimesOut
    <2>1. "COMPILE_ERROR" \in Overall
      BY DEF Overall
    <2> QED
      BY <1>0, <1>5, <2>1 DEF GccMissing, CompileDone, CompileTimesOut, CompileReturns
  <1>6. CASE CallCase \/ CaseRaised
    BY <1>0, <1>6 DEF CallCase, CaseRaised
  <1>7. CASE CaseStep
    BY <1>0, <1>7 DEF CaseStep, jobVars
  <1>8. CASE CaseDone
    <2>1. PICK same \in BOOLEAN :
             results' = Append(results, CaseResult(Len(results) + 1, same))
      BY <1>8 DEF CaseDone
    <2>2. CaseResult(Len(results) + 1, same) \in Results
      BY <1>8, CaseResultType DEF CaseDone, JobInv
    <2>3. results' \in Seq(Results)
      BY <1>0, <2>1, <2>2
    <2> QED
      BY <1>0, <1>8, <2>3 DEF CaseDone
  <1>10. CASE Conclude
    BY <1>0, <1>10, VerdictType DEF Conclude
  <1>11. CASE Cleanup
    BY <1>0, <1>11 DEF Cleanup
  <1>12. CASE Answered \/ UNCHANGED vars
    BY <1>0, <1>12 DEF Answered, vars, jobVars
  <1> QED
    BY <1>1, <1>2, <1>3, <1>5, <1>6, <1>7, <1>8, <1>10, <1>11, <1>12
    DEF Next, Job

(***************************************************************************)
(* Every variable of the case and of the request keeps its type.           *)
(***************************************************************************)
THEOREM SpecTypeOK == Spec => []TypeOK
  <1>1. Init => JobTypes
    <2>1. <<>> \in Seq(Results)
      OBVIOUS
    <2> QED
      BY <2>1 DEF Init, JobTypes, JobPlaces
  <1>2. JobInv /\ JobTypes /\ [Next]_vars => JobTypes'
    BY TypeNext
  <1>3. JobInv /\ AskedInv /\ JobTypes => TypeOK
    <2> SUFFICES ASSUME JobInv, AskedInv, JobTypes
                 PROVE  TypeOK
      OBVIOUS
    <2>1. {asked[i] : i \in 1..Len(asked)} \subseteq TestCases \cup {Custom}
      BY DEF AskedInv
    <2>2. shown \subseteq TestCases \cup {Custom}
      BY <2>1 DEF AskedInv
    <2> QED
      BY <2>2 DEF JobInv, CaseInv, LimitInv, AskedInv, JobTypes, Results, TypeOK
  <1> QED
    BY <1>1, <1>2, <1>3, SpecJobInv, SpecAskedInv, PTL DEF Spec

(***************************************************************************)
(* The student's program is judged only when each of its cases was started *)
(* and came to an end, for every number of cases and every mix of their    *)
(* results; SYSTEM_ERROR says that one of them could not be started.  A    *)
(* launcher that fails (125) counts as an end.                             *)
(***************************************************************************)
THEOREM SpecJudgedAfterEveryRun == Spec => []JudgedAfterEveryRun
  <1>1. JobInv => JudgedAfterEveryRun
    <2> SUFFICES ASSUME JobInv, job = "answered"
                 PROVE  /\ response \in Judgements =>
                              /\ Len(results) = Len(asked)
                              /\ \A i \in 1..Len(asked) : results[i].ran
                        /\ response = "SYSTEM_ERROR" =>
                              /\ Len(results) = Len(asked)
                              /\ \E i \in 1..Len(asked) : ~results[i].ran
                        /\ pc = "raised" => response = "500"
      BY DEF JudgedAfterEveryRun
    <2>0. ResultInv /\ PlaceInv
      BY DEF JobInv
    <2>1. PICK T : results \in Seq(T)
      BY <2>0 DEF ResultInv
    <2>2. DOMAIN results = 1..Len(results)
      BY <2>1
    <2>3. "SYSTEM_ERROR" \notin Judgements
      BY DEF Judgements
    <2>4. ASSUME response \in Judgements
          PROVE  Len(results) = Len(asked) /\ \A i \in 1..Len(asked) : results[i].ran
      BY <2>0, <2>2, <2>3, <2>4 DEF ResultInv, Ran, SomeCase
    <2>5. ASSUME response = "SYSTEM_ERROR"
          PROVE  Len(results) = Len(asked) /\ \E i \in 1..Len(asked) : ~results[i].ran
      BY <2>0, <2>2, <2>5 DEF ResultInv, Ran, SomeCase
    <2>6. pc = "raised" => response = "500"
      BY <2>0 DEF PlaceInv
    <2> QED
      BY <2>4, <2>5, <2>6
  <1> QED
    BY <1>1, SpecJobInv, PTL

(***************************************************************************)
(* An answered request leaves no directory, compiler or process behind.    *)
(***************************************************************************)
THEOREM SpecJobLeavesNothing == Spec => []JobLeavesNothing
  <1>1. JobInv => JobLeavesNothing
    <2> SUFFICES ASSUME JobInv, job = "answered"
                 PROVE  /\ ~workdir /\ dirs = {} /\ gcc # "running"
                        /\ procs \cap Group = {} /\ (isolated => procs = {})
      BY DEF JobLeavesNothing
    <2>1. ~workdir /\ dirs = {} /\ gcc # "running" /\ pc \in {"start", "raised"}
      BY DEF JobInv, PlaceInv
    <2>2. procs \cap Group = {} /\ (isolated => procs = {})
      BY <2>1 DEF JobInv, CaseInv, ProcInv, Stopped, Group
    <2> QED
      BY <2>1, <2>2
  <1> QED
    BY <1>1, SpecJobInv, PTL

\* The numbers of a range; opaque bounds are easier on the solver.
LEMMA RangeIs ==
  ASSUME NEW a \in Int, NEW b \in Int, NEW m
  PROVE  m \in a..b <=> m \in Int /\ a <= m /\ m <= b
  OBVIOUS

\* What the payload model accepts of a limit the schema allows.
LEMMA LimitsAre ==
  ASSUME NEW ms \in TimeLimits
  PROVE  LimitsValid(ms) <=> ~(ms > 20000)
  <1>1. /\ {MinTime, MaxTime, MinWall, MaxWall} \subseteq Int
        /\ \A m \in Int : MinTime <= m /\ m <= MaxTime =>
              /\ WallTime(m) \in Int /\ MinWall <= WallTime(m)
              /\ WallTime(m) <= MaxWall <=> ~(m > 20000)
    BY SMTT(120) DEF MinTime, MaxTime, MinWall, MaxWall, WallTime
  <1>2. ms \in MinTime..MaxTime
    BY RequestAssumption
  <1>3. ms \in Int /\ MinTime <= ms /\ ms <= MaxTime
    BY <1>1, <1>2
  <1>4. WallTime(ms) \in MinWall..MaxWall <=> ~(ms > 20000)
    BY <1>1, <1>3, RangeIs
  <1> QED
    BY <1>2, <1>4 DEF LimitsValid

(***************************************************************************)
(* For every time limit a problem may have: above 20 seconds, and only     *)
(* then, each of its requests is refused by the runner.                    *)
(***************************************************************************)
THEOREM SpecLimitsRefused == Spec => []LimitsRefused
  <1>1. JobInv => LimitsRefused
    BY LimitsAre DEF JobInv, LimitInv, LimitsRefused
  <1> QED
    BY <1>1, SpecJobInv, PTL
=============================================================================
