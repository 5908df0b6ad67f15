------------------------------ MODULE RunnerJob ------------------------------
(***************************************************************************)
(* One judge request: what the backend asks for (JudgeRequest), and the    *)
(* runner's answer (runner/app/main.py, run_code): the checks,             *)
(* the working directory, one compilation (runner/app/compiler.py), a      *)
(* RunCase for every test case, one after the other, and the overall       *)
(* verdict.                                                                *)
(***************************************************************************)
EXTENDS RunCase, JudgeRequest

VARIABLES
    mode,      \* the mode of the request
    time_limit,
    asked,     \* the cases of its payload
    job,       \* where the request is
    gcc,       \* the compiler
    workdir,   \* the working directory of the job exists
    results,   \* the results so far: status, passed, and the history behind them
    shown,     \* the cases whose contents are in the answer
    response   \* the status of the answer, "none" before there is one

requestVars == <<mode, time_limit, asked>>
jobVars == <<requestVars, job, gcc, workdir, results, shown, response>>
vars    == <<caseVars, jobVars>>

JobPlaces   == {"new", "sent", "compile", "gcc", "cases", "case", "finally", "answered"}
HttpErrors  == {"400", "422", "500", "503"}
Overall     == Statuses \cup {"COMPILE_ERROR", "WRONG_ANSWER"}
PassedOf    == {"yes", "no", "unknown"}

TypeOK ==
    /\ CaseTypeOK
    /\ mode \in Modes \cup {"none"} /\ time_limit \in TimeLimits
    /\ asked \in Seq(TestCases \cup {Custom})
    /\ shown \subseteq TestCases \cup {Custom}
    /\ job \in JobPlaces
    /\ gcc \in {"none", "running", "ok", "error"}
    /\ workdir \in BOOLEAN
    /\ results \in Seq([status : Overall, passed : PassedOf,
                       earned : BOOLEAN, ran : BOOLEAN])
    /\ Len(results) <= Len(asked)
    /\ response \in Overall \cup HttpErrors \cup {"none"}

Init ==
    /\ CaseInit
    /\ mode = "none" /\ time_limit \in TimeLimits /\ asked = <<>> /\ shown = {}
    /\ job = "new" /\ gcc = "none" /\ workdir = FALSE
    /\ results = <<>> /\ response = "none"

-----------------------------------------------------------------------------

Answer(a) == job' = "answered" /\ response' = a

\* prepare_sample, prepare_custom, prepare_all.  Missing rows and values that
\* are too long are refused as well; 400 stands for every such refusal.
Prepare(m, i) ==
    /\ job = "new"
    /\ mode' = m
    /\ \/ ~TurnedDown(m, i) /\ job' = "sent" /\ asked' = CasesOf(m, i)
          /\ UNCHANGED response
       \/ Answer("400") /\ UNCHANGED asked
    /\ UNCHANGED <<caseVars, time_limit, gcc, workdir, results, shown>>

\* The runner refuses: limits out of their bounds; no isolation, where the
\* environment requires it; mkdir or mkdtemp fails.
Refuse ==
    /\ job = "sent"
    /\ \/ ~LimitsValid(time_limit) /\ Answer("422")
       \/ LimitsValid(time_limit) /\ ~isolated /\ Answer("503")
       \/ LimitsValid(time_limit) /\ Answer("500")
    /\ UNCHANGED <<requestVars, caseVars, gcc, workdir, results, shown>>

Begin ==
    /\ job = "sent" /\ LimitsValid(time_limit)
    /\ workdir' = TRUE
    /\ job' = "compile"
    /\ UNCHANGED <<requestVars, caseVars, gcc, results, shown, response>>

\* source_path.write_text raises: 500, through the finally clause.
WriteFails ==
    /\ job = "compile"
    /\ response' = "500" /\ job' = "finally"
    /\ UNCHANGED <<requestVars, caseVars, gcc, workdir, results, shown>>

-----------------------------------------------------------------------------
(* compile_c *)

GccStarts ==
    /\ job = "compile"
    /\ gcc' = "running" /\ job' = "gcc"
    /\ UNCHANGED <<requestVars, caseVars, workdir, results, shown, response>>

CompileReturns(ok) ==
    /\ job' = (IF ok THEN "cases" ELSE "finally")
    /\ response' = (IF ok THEN "none" ELSE "COMPILE_ERROR")

\* gcc is missing or could not be started.
GccMissing ==
    /\ job = "compile"
    /\ CompileReturns(FALSE)
    /\ UNCHANGED <<requestVars, caseVars, gcc, workdir, results, shown>>

\* gcc ends; it may also be killed by one of its own limits.
GccEnds ==
    /\ gcc = "running"
    /\ gcc' \in {"ok", "error"}
    /\ UNCHANGED <<requestVars, caseVars, job, workdir, results, shown, response>>

CompileDone ==
    /\ job = "gcc" /\ gcc \in {"ok", "error"}
    /\ CompileReturns(gcc = "ok")
    /\ gcc' = "none"
    /\ UNCHANGED <<requestVars, caseVars, workdir, results, shown>>

\* Mutant of CompileTimesOut: gcc is not killed.
CompileTimesOutOnly ==
    /\ job = "gcc"
    /\ CompileReturns(FALSE)
    /\ UNCHANGED <<requestVars, caseVars, gcc, workdir, results, shown>>

\* wait(timeout) expires: the group is killed and waited for, whether or not
\* gcc has ended in the meantime.
CompileTimesOut ==
    /\ job = "gcc"
    /\ CompileReturns(FALSE)
    /\ gcc' = "none"
    /\ UNCHANGED <<requestVars, caseVars, workdir, results, shown>>

-----------------------------------------------------------------------------
(* The cases *)

CallCase ==
    /\ job = "cases" /\ Len(results) < Len(asked)
    /\ job' = "case"
    /\ UNCHANGED <<requestVars, caseVars, gcc, workdir, results, shown, response>>

CaseStep == job = "case" /\ CaseNext /\ UNCHANGED jobVars

\* The result of the case; same is compare_output's answer on the captured
\* text, whole or not.  History: whether the program earned the result, and
\* whether it was started at all.
CaseResult(i, same) ==
    LET passed == status = "ACCEPTED" /\ same
    IN  [status |-> CASE asked[i] = Custom -> status
                      [] asked[i] # Custom /\ passed -> "ACCEPTED"
                      [] asked[i] # Custom /\ ~passed ->
                            IF status = "ACCEPTED" THEN "WRONG_ANSWER" ELSE status,
         passed |-> CASE asked[i] = Custom -> "unknown"
                      [] asked[i] # Custom -> IF passed THEN "yes" ELSE "no",
         earned |-> /\ ending = [kind |-> "exit", n |-> 0] /\ ~large /\ forced = "none"
                    /\ Drained => Written <= MaxOutput /\ text = wrote["out"]
                    /\ asked[i] # Custom => same,
         ran    |-> ending # Alive]

\* run_case returned: its result is recorded; the next call starts afresh.
CaseDone ==
    /\ job = "case" /\ pc = "done"
    /\ \E same \in BOOLEAN : results' = Append(results, CaseResult(Len(results) + 1, same))
    /\ job' = "cases"
    /\ CallAgain
    /\ UNCHANGED <<requestVars, gcc, workdir, shown, response>>

\* run_case raised: 500, through the finally clause.
CaseRaised ==
    /\ job = "case" /\ pc = "raised"
    /\ response' = "500" /\ job' = "finally"
    /\ UNCHANGED <<requestVars, caseVars, gcc, workdir, results, shown>>

-----------------------------------------------------------------------------
(* The overall verdict *)

SomeCase(st) == \E i \in DOMAIN results : results[i].status = st

\* Mutant of Verdict: the failures are looked for in the order of their
\* seriousness, a system error last.
VerdictLastSystemError ==
    LET order == <<"TIME_LIMIT_EXCEEDED", "MEMORY_LIMIT_EXCEEDED",
                   "OUTPUT_LIMIT_EXCEEDED", "RUNTIME_ERROR", "WRONG_ANSWER">>
        found == {i \in DOMAIN order : SomeCase(order[i])}
    IN  IF found = {} THEN "ACCEPTED"
        ELSE order[CHOOSE i \in found : \A j \in found : i <= j]

Verdict ==
    LET order == <<"SYSTEM_ERROR", "TIME_LIMIT_EXCEEDED", "MEMORY_LIMIT_EXCEEDED",
                   "OUTPUT_LIMIT_EXCEEDED", "RUNTIME_ERROR", "WRONG_ANSWER">>
        found == {i \in DOMAIN order : SomeCase(order[i])}
    IN  IF found = {} THEN "ACCEPTED"
        ELSE order[CHOOSE i \in found : \A j \in found : i <= j]

Contents == {asked[i] : i \in DOMAIN results}

\* Mutant of Conclude: the loop ends one case early.
ConcludeEarly ==
    /\ job = "cases" /\ Len(results) + 1 = Len(asked)
    /\ response' = Verdict /\ job' = "finally"
    /\ shown' = IF Reveals(mode) THEN Contents ELSE {}
    /\ UNCHANGED <<requestVars, caseVars, gcc, workdir, results>>

Conclude ==
    /\ job = "cases" /\ Len(results) = Len(asked)
    /\ response' = Verdict /\ job' = "finally"
    /\ shown' = IF Reveals(mode) THEN Contents ELSE {}
    /\ UNCHANGED <<requestVars, caseVars, gcc, workdir, results>>

\* The finally clause removes the working directory, and with it what
\* run_case left there.
Cleanup ==
    /\ job = "finally"
    /\ workdir' = FALSE /\ dirs' = {}
    /\ job' = "answered"
    /\ UNCHANGED <<requestVars, isolated, pc, programVars, outputVars, forced, text, status,
                   gcc, results, shown, response>>

Answered == job = "answered" /\ UNCHANGED vars

Job == \/ (\E m \in Modes : \E i \in 1..(Cardinality(Enabled) + 1) : Prepare(m, i))
       \/ Refuse \/ Begin \/ WriteFails \/ GccStarts \/ GccMissing \/ CompileDone
       \/ CompileTimesOut \/ CallCase \/ CaseDone \/ CaseRaised \/ Conclude \/ Cleanup

Next == Job \/ GccEnds \/ CaseStep \/ Answered

Spec == Init /\ [][Next]_vars

(***************************************************************************)
(* The thread of the request and the two readers are scheduled and the     *)
(* clock advances, so the loop does not find the deadline ahead for ever;  *)
(* nothing is assumed of gcc and of the student's program.                 *)
(***************************************************************************)
InCase(A) == job = "case" /\ A /\ UNCHANGED jobVars

FairSpec ==
    /\ Spec
    /\ WF_vars(Job \/ InCase(Parent))
    /\ SF_vars(InCase(DeadlinePassed))
    /\ \A s \in Streams : WF_vars(InCase(Reader(s)))

-----------------------------------------------------------------------------
(* Properties *)

(***************************************************************************)
(* JobVerdictEarned: the answer is ACCEPTED only when every case of the    *)
(* request ran, each program ended by itself with status 0 below the       *)
(* memory limit, and its output matched wherever one was expected; that    *)
(* output is all it ever wrote and within the limit but for a process      *)
(* that left the group without isolation.  No case is skipped, and a judge *)
(* of the whole problem was of every enabled case, hidden or not.          *)
(***************************************************************************)
JobVerdictEarned ==
    response = "ACCEPTED" =>
        /\ Len(results) = Len(asked)
        /\ \A i \in 1..Len(asked) : results[i].earned
        /\ \A i \in 1..Len(asked) : asked[i] # Custom => results[i].passed = "yes"
        /\ mode \in {"all", "verify"} => Enabled \subseteq {asked[i] : i \in 1..Len(asked)}

\* The answers that judge the student's program.
Judgements == (Statuses \ {"SYSTEM_ERROR"}) \cup {"WRONG_ANSWER"}

(***************************************************************************)
(* JudgedAfterEveryRun: an answer judges the program only when every case  *)
(* of the request was started and came to an end; SYSTEM_ERROR is for a    *)
(* request that was worked off with a case that could not be started, and  *)
(* an exception of run_case is never a verdict.  The launcher's own        *)
(* failure (125) is an end like another here: nothing in the code tells it *)
(* from the program's, and it is answered as RUNTIME_ERROR.                *)
(***************************************************************************)
JudgedAfterEveryRun ==
    job = "answered" =>
        /\ response \in Judgements =>
              Len(results) = Len(asked) /\ \A i \in 1..Len(asked) : results[i].ran
        /\ response = "SYSTEM_ERROR" =>
              Len(results) = Len(asked) /\ \E i \in 1..Len(asked) : ~results[i].ran
        /\ pc = "raised" => response = "500"

(***************************************************************************)
(* HiddenStaysHidden: no answer to a student carries the contents of a     *)
(* test case that is not public, in any mode and with any verdict.         *)
(***************************************************************************)
HiddenStaysHidden == mode # "verify" => shown \cap TestCases \subseteq Public

(***************************************************************************)
(* LimitsRefused: the runner refuses a problem's limits exactly when its   *)
(* time limit is above 20 s, although one up to 30 s can be saved: three   *)
(* times the limit may not exceed 60 s of wall clock.                      *)
(***************************************************************************)
LimitsRefused == job = "answered" => (response = "422" => time_limit > 20000)
                                  /\ (asked # <<>> /\ time_limit > 20000 => response = "422")

(***************************************************************************)
(* JobLeavesNothing: an answered request left no directory and no compiler *)
(* behind, whichever step failed, and with isolation no process.           *)
(***************************************************************************)
JobLeavesNothing ==
    job = "answered" => /\ ~workdir /\ dirs = {} /\ gcc # "running"
                        /\ procs \cap Group = {} /\ (isolated => procs = {})

(***************************************************************************)
(* JobAnswered: every request is answered although the compiler or the     *)
(* program never ends, ignores its limits' signals, fills its pipes,       *)
(* closes nothing or leaves its group: no cycle of waits between the loop, *)
(* the readers and the program.                                            *)
(***************************************************************************)
JobAnswered == <>(job = "answered")
=============================================================================
