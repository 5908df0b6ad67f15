------------------------------- MODULE RunCase -------------------------------
(***************************************************************************)
(* One test case of the runner (runner/app/sandbox.py, run_case, and       *)
(* runner/sandbox_launcher.c): the student's processes, the two reader     *)
(* threads that empty their pipes, and the thread of run_case that polls,  *)
(* kills, drains and decides.  Each is interrupted anywhere by the others; *)
(* a section under output_lock is one step.                                *)
(*                                                                         *)
(* Output is counted in units; the contents are left out.  The kernel's    *)
(* limits appear as what they do to the program: a signal that ends it.    *)
(***************************************************************************)
EXTENDS Integers, FiniteSets

CONSTANTS MaxOutput,  \* output_kb, in units, for both streams together
          KeepErr,    \* the part of stderr that is kept (64 KiB)
          PipeSize,   \* what a pipe holds
          MaxWrites,  \* bound on the units a program writes, for TLC
          OwnCodes,   \* the statuses a program exits with by itself
          Signals     \* the signals a program dies from

ASSUME CaseAssumption ==
    /\ {MaxOutput, KeepErr, PipeSize, MaxWrites} \subseteq Nat
    /\ OwnCodes \subseteq 0..255
    /\ Signals \subseteq 1..64

VARIABLES
    isolated,  \* what unshare_works() answers
    pc,        \* where run_case is
    procs,     \* the living processes of the program
    detached,  \* one of them called setsid (history)
    ending,    \* how the main process ended
    large,     \* its peak resident size is above the memory limit
    wrote,     \* units written to each stream (history)
    pipe,      \* units in each pipe
    reader,    \* what each reader thread does
    chunk,     \* the units it has read and not recorded yet
    kept,      \* length of stdout_data and stderr_data
    output_bytes,
    output_exceeded,
    forced,    \* forced_status
    text,      \* length of the decoded stdout
    status,    \* the status of the RunResult
    dirs       \* the directories of the case that exist

caseVars == <<isolated, pc, procs, detached, ending, large, wrote, pipe, reader, chunk, kept,
              output_bytes, output_exceeded, forced, text, status, dirs>>
programVars == <<procs, detached, ending, large>>
outputVars  == <<wrote, pipe, reader, chunk, kept, output_bytes, output_exceeded>>
parentVars  == <<forced, text, status, dirs>>

\* "main" is the process of Popen, or the launcher's child, with everything
\* above it; "child" stays in its process group, "stray" called setsid.
Processes == {"main", "child", "stray"}
Group     == {"main", "child"}
Streams   == {"out", "err"}
Places    == {"start", "popen", "threads", "poll", "output", "deadline", "reap",
              "stop", "join_out", "join_err", "decode", "classify", "finally",
              "done", "raised"}
Alive     == [kind |-> "alive", n |-> 0]
Endings   == [kind : {"exit"}, n : OwnCodes] \cup [kind : {"signal"}, n : Signals]
Failed    == [kind |-> "exit", n |-> 125]   \* the launcher's own failures
Killed    == [kind |-> "killed", n |-> 9]   \* by stop_process_group
Statuses  == {"ACCEPTED", "RUNTIME_ERROR", "TIME_LIMIT_EXCEEDED",
              "MEMORY_LIMIT_EXCEEDED", "OUTPUT_LIMIT_EXCEEDED", "SYSTEM_ERROR"}

SIGKILL == 9
SIGSEGV == 11
SIGXCPU == 24
SIGXFSZ == 25

Written == wrote["out"] + wrote["err"]

CaseTypeOK ==
    /\ isolated \in BOOLEAN /\ pc \in Places
    /\ procs \subseteq Processes
    /\ ending \in Endings \cup {Alive, Failed, Killed}
    /\ {large, detached} \subseteq BOOLEAN /\ output_exceeded \in BOOLEAN
    /\ wrote \in [Streams -> Nat] /\ Written <= MaxWrites
    /\ pipe \in [Streams -> 0..PipeSize]
    /\ reader \in [Streams -> {"none", "new", "read", "record", "closed"}]
    /\ chunk \in [Streams -> 0..PipeSize]
    /\ kept \in [Streams -> Nat]
    /\ output_bytes \in Nat /\ text \in Nat
    /\ forced \in {"none", "OUTPUT_LIMIT_EXCEEDED", "TIME_LIMIT_EXCEEDED"}
    /\ status \in Statuses \cup {"none"}
    /\ dirs \subseteq {"case", "io"}

\* What run_case starts with.
Fresh ==
    /\ pc = "start" /\ procs = {} /\ detached = FALSE /\ ending = Alive /\ large = FALSE
    /\ wrote = [s \in Streams |-> 0] /\ pipe = [s \in Streams |-> 0]
    /\ reader = [s \in Streams |-> "none"] /\ chunk = [s \in Streams |-> 0]
    /\ kept = [s \in Streams |-> 0] /\ output_bytes = 0 /\ output_exceeded = FALSE
    /\ forced = "none" /\ text = 0 /\ status = "none" /\ dirs = {}

CaseInit == isolated \in BOOLEAN /\ Fresh

\* The next call of run_case starts with the same.
CallAgain ==
    /\ pc' = "start" /\ procs' = {} /\ detached' = FALSE /\ ending' = Alive /\ large' = FALSE
    /\ wrote' = [s \in Streams |-> 0] /\ pipe' = [s \in Streams |-> 0]
    /\ reader' = [s \in Streams |-> "none"] /\ chunk' = [s \in Streams |-> 0]
    /\ kept' = [s \in Streams |-> 0] /\ output_bytes' = 0 /\ output_exceeded' = FALSE
    /\ forced' = "none" /\ text' = 0 /\ status' = "none" /\ dirs' = {}
    /\ UNCHANGED isolated

-----------------------------------------------------------------------------
(* The student's program *)

\* A process writes a unit; it blocks while the pipe is full.
Write(s) ==
    /\ procs # {} /\ pipe[s] < PipeSize /\ Written < MaxWrites
    /\ pipe' = [pipe EXCEPT ![s] = @ + 1]
    /\ wrote' = [wrote EXCEPT ![s] = @ + 1]
    /\ UNCHANGED <<isolated, pc, programVars, reader, chunk, kept, output_bytes,
                   output_exceeded, parentVars>>

\* fork, in the group or out of it.
Fork(p) ==
    /\ "main" \in procs /\ p \in {"child", "stray"} \ procs
    /\ procs' = procs \cup {p}
    /\ detached' = (detached \/ p = "stray")
    /\ UNCHANGED <<isolated, pc, ending, large, outputVars, parentVars>>

ChildEnds(p) ==
    /\ p \in procs \ {"main"}
    /\ procs' = procs \ {p}
    /\ UNCHANGED <<isolated, pc, detached, ending, large, outputVars, parentVars>>

\* The main process ends.  The launcher is PID 1 of the namespace: when it
\* has seen the end and exits, the kernel ends all the others.
MainEnds(e) ==
    /\ "main" \in procs
    /\ ending' = e
    /\ procs' = IF isolated THEN {} ELSE procs \ {"main"}
    /\ large' \in BOOLEAN
    /\ UNCHANGED <<isolated, pc, detached, outputVars, parentVars>>

\* The launcher fails before the program runs: a message on stderr, 125.
LauncherFails ==
    /\ isolated /\ procs = {"main"} /\ Written = 0 /\ MaxWrites > 0 /\ PipeSize > 0
    /\ ending' = Failed
    /\ procs' = {}
    /\ pipe' = [pipe EXCEPT !["err"] = @ + 1]
    /\ wrote' = [wrote EXCEPT !["err"] = @ + 1]
    /\ UNCHANGED <<isolated, pc, detached, large, reader, chunk, kept, output_bytes,
                   output_exceeded, parentVars>>

Program ==
    \/ \E s \in Streams : Write(s)
    \/ \E p \in Processes : Fork(p) \/ ChildEnds(p)
    \/ \E e \in Endings : MainEnds(e)
    \/ LauncherFails

-----------------------------------------------------------------------------
(* collect_output *)

\* os.read returns all the pipe holds.
ReadChunk(s) ==
    /\ reader[s] = "read" /\ pipe[s] > 0
    /\ chunk' = [chunk EXCEPT ![s] = pipe[s]]
    /\ pipe' = [pipe EXCEPT ![s] = 0]
    /\ reader' = [reader EXCEPT ![s] = "record"]
    /\ UNCHANGED <<isolated, pc, programVars, wrote, kept, output_bytes,
                   output_exceeded, parentVars>>

Keep(s) == IF s = "out" THEN MaxOutput ELSE KeepErr

Least(a, b) == IF a < b THEN a ELSE b

\* The section under output_lock.  The thread goes on reading past the limit.
RecordChunk(s) ==
    /\ reader[s] = "record"
    /\ output_bytes' = output_bytes + chunk[s]
    /\ kept' = [kept EXCEPT ![s] = Least(@ + chunk[s], Keep(s))]
    /\ output_exceeded' = (output_exceeded \/ output_bytes' > MaxOutput)
    /\ reader' = [reader EXCEPT ![s] = "read"]
    /\ chunk' = [chunk EXCEPT ![s] = 0]
    /\ UNCHANGED <<isolated, pc, programVars, wrote, pipe, parentVars>>

\* The end of the file: nothing is in the pipe and nobody holds it.
CloseStream(s) ==
    /\ reader[s] = "read" /\ pipe[s] = 0 /\ procs = {}
    /\ reader' = [reader EXCEPT ![s] = "closed"]
    /\ UNCHANGED <<isolated, pc, programVars, wrote, pipe, chunk, kept,
                   output_bytes, output_exceeded, parentVars>>

Reader(s) == ReadChunk(s) \/ RecordChunk(s) \/ CloseStream(s)

-----------------------------------------------------------------------------
(* run_case *)

Goto(p) == pc' = p

SetUp ==
    /\ pc = "start" /\ Goto("popen")
    /\ dirs' = {"case", "io"}
    /\ UNCHANGED <<isolated, programVars, outputVars, forced, text, status>>

\* mkdir, write_text and copy2 stand before the try: their errors propagate.
SetUpRaises ==
    /\ pc = "start" /\ Goto("raised")
    /\ dirs' \in SUBSET {"case", "io"}
    /\ UNCHANGED <<isolated, programVars, outputVars, forced, text, status>>

PopenStarts ==
    /\ pc = "popen" /\ Goto("threads")
    /\ procs' = {"main"}
    /\ reader' = [s \in Streams |-> "new"]
    /\ UNCHANGED <<isolated, detached, ending, large, wrote, pipe, chunk, kept, output_bytes,
                   output_exceeded, parentVars>>

\* except Exception: SYSTEM_ERROR
PopenFails ==
    /\ pc = "popen" /\ Goto("finally")
    /\ status' = "SYSTEM_ERROR"
    /\ UNCHANGED <<isolated, programVars, outputVars, forced, text, dirs>>

ThreadsStart ==
    /\ pc = "threads" /\ Goto("poll")
    /\ reader' = [s \in Streams |-> "read"]
    /\ UNCHANGED <<isolated, programVars, wrote, pipe, chunk, kept, output_bytes,
                   output_exceeded, parentVars>>

\* Thread.start fails for the first or the second thread.
ThreadFails ==
    /\ pc = "threads" /\ Goto("finally")
    /\ reader' \in {reader, [reader EXCEPT !["out"] = "read"]}
    /\ status' = "SYSTEM_ERROR"
    /\ UNCHANGED <<isolated, programVars, wrote, pipe, chunk, kept, output_bytes,
                   output_exceeded, forced, text, dirs>>

\* os.killpg: the processes of the group get no further; with the main
\* process the launcher dies and the namespace with it.
StopProcessGroup ==
    /\ procs' = IF isolated /\ "main" \in procs THEN {} ELSE procs \ Group
    /\ ending' = IF "main" \in procs THEN Killed ELSE ending
    /\ UNCHANGED <<detached, large>>

\* os.wait4(..., WNOHANG)
Poll ==
    /\ pc = "poll"
    /\ Goto(IF "main" \in procs THEN "output" ELSE "stop")
    /\ UNCHANGED <<isolated, programVars, outputVars, parentVars>>

ForceStatus(f) ==
    /\ forced' = f
    /\ StopProcessGroup
    /\ Goto("reap")
    /\ UNCHANGED <<isolated, outputVars, text, status, dirs>>

CheckOutput ==
    /\ pc = "output"
    /\ \/ output_exceeded /\ ForceStatus("OUTPUT_LIMIT_EXCEEDED")
       \/ ~output_exceeded /\ Goto("deadline")
          /\ UNCHANGED <<isolated, programVars, outputVars, parentVars>>

\* Mutant of DeadlinePassed: another name for the same status.
DeadlinePassedMisnamed == pc = "deadline" /\ ForceStatus("TIMEOUT")

\* time.monotonic() > deadline.  The clock is not modelled: either answer.
DeadlinePassed == pc = "deadline" /\ ForceStatus("TIME_LIMIT_EXCEEDED")

\* ... not yet; the sleep of 5 ms.
DeadlineAhead ==
    /\ pc = "deadline" /\ Goto("poll")
    /\ UNCHANGED <<isolated, programVars, outputVars, parentVars>>

\* os.wait4(..., 0)
Reap ==
    /\ pc = "reap" /\ "main" \notin procs /\ Goto("stop")
    /\ UNCHANGED <<isolated, programVars, outputVars, parentVars>>

Stop ==
    /\ pc = "stop" /\ Goto("join_out")
    /\ StopProcessGroup
    /\ UNCHANGED <<isolated, outputVars, parentVars>>

\* Mutant of Join: the threads are not waited for.
JoinNothing(s) ==
    /\ pc = (IF s = "out" THEN "join_out" ELSE "join_err")
    /\ Goto(IF s = "out" THEN "join_err" ELSE "decode")
    /\ UNCHANGED <<isolated, programVars, outputVars, parentVars>>

\* Mutant of Join: without the timeout.
JoinForever(s) ==
    /\ pc = (IF s = "out" THEN "join_out" ELSE "join_err")
    /\ reader[s] = "closed"
    /\ Goto(IF s = "out" THEN "join_err" ELSE "decode")
    /\ UNCHANGED <<isolated, programVars, outputVars, parentVars>>

\* thread.join(timeout=1).  A thread whose pipe nobody holds any more is at
\* its end within the second; the timer is for a pipe that stays open.
Join(s) ==
    /\ pc = (IF s = "out" THEN "join_out" ELSE "join_err")
    /\ reader[s] = "closed" \/ procs # {}
    /\ Goto(IF s = "out" THEN "join_err" ELSE "decode")
    /\ UNCHANGED <<isolated, programVars, outputVars, parentVars>>

Decode ==
    /\ pc = "decode" /\ Goto("classify")
    /\ text' = kept["out"]
    /\ UNCHANGED <<isolated, programVars, outputVars, forced, status, dirs>>

\* Mutant of LauncherStatus: the signal is returned as it is.
LauncherStatusPlain(e) == e.n

\* What main() of the launcher returns for the end of its child.
LauncherStatus(e) == IF e.kind = "signal" THEN 128 + e.n ELSE e.n

\* os.waitstatus_to_exitcode of what wait4 returned.
ExitCode ==
    CASE ending.kind = "killed" -> -SIGKILL
      [] ending.kind # "killed" /\ isolated -> LauncherStatus(ending)
      [] ending.kind # "killed" /\ ~isolated ->
            IF ending.kind = "signal" THEN -ending.n ELSE ending.n

\* sig, 0 for None.
Sig ==
    CASE ExitCode < 0 -> -ExitCode
      [] isolated /\ ExitCode \in 129..192 -> ExitCode - 128
      [] OTHER -> 0

SignalStatus ==
    CASE Sig = SIGXFSZ -> "OUTPUT_LIMIT_EXCEEDED"
      [] Sig \in {SIGKILL, SIGSEGV} /\ large -> "MEMORY_LIMIT_EXCEEDED"
      [] Sig = SIGXCPU \/ (Sig = SIGKILL /\ ~large) -> "TIME_LIMIT_EXCEEDED"
      [] OTHER -> "RUNTIME_ERROR"

\* Mutant of CaseStatus: the output limit is only what the loop saw.
CaseStatusForced ==
    CASE forced # "none" -> forced
      [] forced = "none" /\ Sig # 0 -> SignalStatus
      [] forced = "none" /\ Sig = 0 /\ large -> "MEMORY_LIMIT_EXCEEDED"
      [] forced = "none" /\ Sig = 0 /\ ~large ->
            IF ExitCode # 0 THEN "RUNTIME_ERROR" ELSE "ACCEPTED"

\* The returns of run_case in their order.
CaseStatus ==
    CASE output_exceeded -> "OUTPUT_LIMIT_EXCEEDED"
      [] ~output_exceeded /\ forced # "none" -> forced
      [] ~output_exceeded /\ forced = "none" /\ Sig # 0 -> SignalStatus
      [] ~output_exceeded /\ forced = "none" /\ Sig = 0 /\ large -> "MEMORY_LIMIT_EXCEEDED"
      [] ~output_exceeded /\ forced = "none" /\ Sig = 0 /\ ~large ->
            IF ExitCode # 0 THEN "RUNTIME_ERROR" ELSE "ACCEPTED"

Classify ==
    /\ pc = "classify" /\ Goto("finally")
    /\ status' = CaseStatus
    /\ UNCHANGED <<isolated, programVars, outputVars, forced, text, dirs>>

\* Mutant of Finally: the process group is not stopped on the way out.
FinallyKeepingProcesses ==
    /\ pc = "finally"
    /\ IF \E s \in Streams : reader[s] = "new"
       THEN Goto("raised") /\ UNCHANGED <<status, dirs>>
       ELSE Goto("done") /\ dirs' = {} /\ UNCHANGED status
    /\ UNCHANGED <<isolated, programVars, outputVars, forced, text>>

\* The finally clause.  join() of a thread that was never started raises,
\* in place of the result, and before the directories are removed.
Finally ==
    /\ pc = "finally"
    /\ StopProcessGroup
    /\ IF \E s \in Streams : reader[s] = "new"
       THEN Goto("raised") /\ UNCHANGED dirs
       ELSE Goto("done") /\ dirs' = {}
    /\ UNCHANGED <<isolated, outputVars, forced, text, status>>

Parent ==
    \/ SetUp \/ SetUpRaises \/ PopenStarts \/ PopenFails \/ ThreadsStart \/ ThreadFails
    \/ Poll \/ CheckOutput \/ DeadlinePassed \/ DeadlineAhead \/ Reap
    \/ Stop \/ (\E s \in Streams : Join(s)) \/ Decode \/ Classify \/ Finally

CaseNext == Program \/ (\E s \in Streams : Reader(s)) \/ Parent

-----------------------------------------------------------------------------
(* Properties *)

Returned == pc = "done" /\ status # "SYSTEM_ERROR"

\* Nobody can have written after the pipes were drained.
Drained == isolated \/ ~detached

(***************************************************************************)
(* AcceptedIsEarned: a case is ACCEPTED only when the main process ended   *)
(* by itself with status 0, below the memory limit, was not killed by the  *)
(* loop, and all that was ever written is within the output limit and in   *)
(* the captured text; except, without isolation, for a process that left   *)
(* the group and still holds the pipes.  It is about the order of wait,    *)
(* kill, drain and classification against the readers and the program.     *)
(***************************************************************************)
AcceptedIsEarned ==
    Returned /\ status = "ACCEPTED" =>
        /\ ending = [kind |-> "exit", n |-> 0] /\ ~large /\ forced = "none"
        /\ Drained => Written <= MaxOutput /\ text = wrote["out"]

(***************************************************************************)
(* OutputLimitExact: whatever ended the program first -- itself, the       *)
(* deadline or the output limit -- the verdict is OUTPUT_LIMIT_EXCEEDED    *)
(* when the two streams together hold more than the limit, and only then   *)
(* or when the program ended as by SIGXFSZ.                                *)
(***************************************************************************)
OutputLimitExact ==
    Returned /\ Drained =>
        (status = "OUTPUT_LIMIT_EXCEEDED"
            <=> Written > MaxOutput \/ (forced = "none" /\ Sig = SIGXFSZ))

\* The verdict on an end of its own, from how the kernel saw it.
EndingStatus(e) ==
    CASE e.kind = "signal" /\ e.n = SIGXFSZ -> "OUTPUT_LIMIT_EXCEEDED"
      [] e.kind = "signal" /\ e.n \in {SIGKILL, SIGSEGV} /\ large -> "MEMORY_LIMIT_EXCEEDED"
      [] e.kind = "signal" /\ e.n \in {SIGKILL, SIGXCPU} /\ ~(e.n = SIGKILL /\ large) ->
            "TIME_LIMIT_EXCEEDED"
      [] e.kind = "exit" /\ large -> "MEMORY_LIMIT_EXCEEDED"
      [] e.kind = "exit" /\ ~large /\ e.n = 0 -> "ACCEPTED"
      [] OTHER -> "RUNTIME_ERROR"

(***************************************************************************)
(* VerdictTellsTheEnding: through the launcher's 128 + signal, the exit of *)
(* unshare and wait4, the verdict is the one for how the program really    *)
(* ended, in both modes -- but for an isolated program that exits by       *)
(* itself with a status from 129 to 192, which cannot be told apart.       *)
(***************************************************************************)
VerdictTellsTheEnding ==
    Returned /\ forced = "none" /\ ~output_exceeded
        /\ ~(isolated /\ ending.kind = "exit" /\ ending.n \in 129..192)
      => status = EndingStatus(ending)

(***************************************************************************)
(* NothingSurvives: when run_case is over, also by an exception, no        *)
(* process of the group lives, with isolation no process at all, and a     *)
(* result is only returned with both directories removed.                  *)
(***************************************************************************)
NothingSurvives ==
    /\ pc \in {"done", "raised"} => procs \cap Group = {} /\ (isolated => procs = {})
    /\ pc = "done" => dirs = {}
=============================================================================
