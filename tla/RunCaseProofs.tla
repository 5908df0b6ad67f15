--------------------------- MODULE RunCaseProofs ---------------------------
(***************************************************************************)
(* What holds of one case in the runner for every limit, every size of a   *)
(* pipe, every status and every signal.                                    *)
(***************************************************************************)
EXTENDS RunCase, TLAPS

-----------------------------------------------------------------------------
(* The inductive invariant *)

\* The places between the start of the program and the verdict.
Running == {"threads", "poll", "output", "deadline", "reap", "stop",
            "join_out", "join_err", "decode", "classify"}

\* The places after the wait for the main process.
Waited == {"reap", "stop", "join_out", "join_err", "decode", "classify"}

\* The places after the group was stopped for the last time.
Stopped == {"join_out", "join_err", "decode", "classify", "done", "raised"}

\* The case has a verdict, which is no failure of the sandbox.
Judged == pc \in {"finally", "done"} /\ status # "SYSTEM_ERROR"

\* Which processes live where, and what the end of the main one says.
ProcInv ==
    /\ "main" \in procs => ending = Alive
    /\ pc \in {"start", "popen"} => procs = {} /\ ending = Alive
    /\ "stray" \in procs => detached
    /\ isolated /\ "main" \notin procs => procs = {}
    /\ pc \in Running /\ "main" \notin procs => ending # Alive
    /\ pc \in Waited => "main" \notin procs
    /\ pc \in Stopped => procs \cap Group = {}
    /\ ending = Killed => forced # "none" \/ status = "SYSTEM_ERROR"
    /\ Judged => "main" \notin procs /\ ending # Alive

\* A unit that was written is in the pipe, in a reader's hands or recorded.
FlowInv ==
    /\ \A s \in Streams :
        /\ wrote[s] >= chunk[s] + pipe[s]
        /\ kept[s] = Least(wrote[s] - chunk[s] - pipe[s], Keep(s))
        /\ reader[s] # "record" => chunk[s] = 0
        /\ reader[s] = "closed" => pipe[s] = 0 /\ procs = {}
        /\ pc \in {"start", "popen"} => reader[s] = "none"
        /\ pc = "threads" => reader[s] = "new"
    /\ output_bytes = Written - (chunk["out"] + pipe["out"]) - (chunk["err"] + pipe["err"])
    /\ output_exceeded <=> output_bytes > MaxOutput

\* The readers are at their end when their data is judged, and the verdict is
\* the one for that data.
VerdictInv ==
    /\ pc \in Running \cup {"start", "popen"} => status = "none"
    /\ pc \in {"finally", "done"} => status \in Statuses
    /\ forced = "OUTPUT_LIMIT_EXCEEDED" => output_exceeded
    /\ pc \in {"join_err", "decode", "classify"} /\ Drained => reader["out"] = "closed"
    /\ pc \in {"decode", "classify"} /\ Drained => reader["err"] = "closed"
    /\ pc = "classify" /\ Drained => text = kept["out"]
    /\ Judged =>
        /\ Drained => /\ \A s \in Streams : reader[s] = "closed"
                      /\ text = kept["out"]
        /\ status = "ACCEPTED" =>
            ending = [kind |-> "exit", n |-> 0] /\ ~large /\ forced = "none"
        /\ ~output_exceeded \/ Drained => status = CaseStatus
    /\ pc = "done" => dirs = {}

CaseInv == CaseTypeOK /\ ProcInv /\ FlowInv /\ VerdictInv

\* SYSTEM_ERROR is for a program that was never started, or, on the way to an
\* exception, for a thread that was not.
FailInv ==
    status = "SYSTEM_ERROR" =>
        /\ pc \in {"finally", "done", "raised"}
        /\ (reader["err"] = "new" /\ pc # "done") \/ (procs = {} /\ ending = Alive)

-----------------------------------------------------------------------------
(* Facts on the operators *)

\* The verdict depends on the end of the program and what forced it only.
LEMMA SameVerdict ==
  ASSUME UNCHANGED <<isolated, ending, large, forced, output_exceeded>>
  PROVE  CaseStatus' = CaseStatus
  BY DEF CaseStatus, SignalStatus, Sig, ExitCode

\* A signal is never a success nor a failure of the sandbox.
LEMMA SignalStatusType == SignalStatus \in Statuses \ {"SYSTEM_ERROR", "ACCEPTED"}
  BY DEF SignalStatus, Statuses

\* The verdict is one, and no failure of the sandbox.
LEMMA CaseStatusType == ASSUME CaseTypeOK PROVE CaseStatus \in Statuses \ {"SYSTEM_ERROR"}
  <1>1. CASE output_exceeded
    BY <1>1 DEF CaseStatus, Statuses
  <1>2. CASE ~output_exceeded /\ forced # "none"
    BY <1>2 DEF CaseStatus, Statuses, CaseTypeOK
  <1>3. CASE ~output_exceeded /\ forced = "none" /\ Sig # 0
    BY <1>3, SignalStatusType DEF CaseStatus, Statuses
  <1>4. CASE ~output_exceeded /\ forced = "none" /\ Sig = 0
    BY <1>4 DEF CaseStatus, Statuses, CaseTypeOK
  <1> QED BY <1>1, <1>2, <1>3, <1>4

\* Only an exit with status 0 within the limits is accepted.
LEMMA AcceptedEnding ==
  ASSUME CaseTypeOK, ending # Alive, CaseStatus = "ACCEPTED"
  PROVE  ending = [kind |-> "exit", n |-> 0] /\ ~large /\ forced = "none"
  <1>1. CASE output_exceeded
    BY <1>1 DEF CaseStatus
  <1>2. CASE ~output_exceeded /\ forced # "none"
    BY <1>2 DEF CaseStatus, CaseTypeOK
  <1>3. CASE ~output_exceeded /\ forced = "none" /\ Sig # 0
    BY <1>3, SignalStatusType DEF CaseStatus
  <1>4. CASE ~output_exceeded /\ forced = "none" /\ Sig = 0
    <2>1. ~large /\ ExitCode = 0
      BY <1>4 DEF CaseStatus, CaseTypeOK
    <2>2. ending = [kind |-> "exit", n |-> 0]
      BY <2>1, CaseAssumption DEF CaseTypeOK, ExitCode, LauncherStatus, Endings, Failed,
             Killed, Alive, SIGKILL
    <2> QED BY <1>4, <2>1, <2>2
  <1> QED BY <1>1, <1>2, <1>3, <1>4

\* A step that leaves the case alone.
LEMMA StutterInv == CaseInv /\ UNCHANGED caseVars => CaseInv'
  BY SameVerdict DEF CaseInv, CaseTypeOK, ProcInv, FlowInv, VerdictInv, caseVars, Judged,
                    Drained, Written

-----------------------------------------------------------------------------
(* The student's program *)

\* A unit more is written and in the pipe.
LEMMA WriteInv ==
  ASSUME CaseInv, NEW s \in Streams, Write(s)
  PROVE  CaseInv'
  <1>1. CaseTypeOK'
    <2>1. /\ wrote \in [Streams -> Nat] /\ pipe \in [Streams -> 0..PipeSize]
          /\ wrote' = [wrote EXCEPT ![s] = wrote[s] + 1]
          /\ pipe' = [pipe EXCEPT ![s] = pipe[s] + 1]
          /\ pipe[s] < PipeSize /\ Written < MaxWrites
      BY DEF CaseInv, CaseTypeOK, Write
    <2>2. PipeSize \in Nat /\ MaxWrites \in Nat
      BY CaseAssumption
    <2>3. wrote' \in [Streams -> Nat] /\ pipe' \in [Streams -> 0..PipeSize]
      BY <2>1, <2>2
    <2>4. Written' <= MaxWrites
      BY <2>1, <2>2 DEF Written, Streams
    <2> QED
      BY <2>3, <2>4 DEF CaseInv, CaseTypeOK, Write, programVars, parentVars
  <1>2. ProcInv'
    BY DEF CaseInv, ProcInv, Judged, Write, programVars, outputVars,
           parentVars
  <1>3. FlowInv'
    BY DEF CaseInv, CaseTypeOK, FlowInv, Written, Streams, Least, Keep, Write,
           programVars, outputVars, parentVars
  <1>4. VerdictInv'
    BY SameVerdict DEF CaseInv, VerdictInv, Judged, Drained, Write,
           programVars, outputVars, parentVars
  <1> QED
    BY <1>1, <1>2, <1>3, <1>4 DEF CaseInv

\* Only a living main process forks; a stray one is remembered.
LEMMA ForkInv ==
  ASSUME CaseInv, NEW p \in Processes, Fork(p)
  PROVE  CaseInv'
  <1>1. CaseTypeOK'
    BY CaseAssumption DEF CaseInv, CaseTypeOK, Written, Fork, Processes,
           programVars, outputVars, parentVars
  <1>2. ProcInv'
    BY DEF CaseInv, ProcInv, Judged, Fork, Processes, Group, Stopped, Running,
           Waited, programVars, outputVars, parentVars
  <1>3. FlowInv'
    BY DEF CaseInv, CaseTypeOK, FlowInv, Written, Streams, Least, Keep, Fork,
           programVars, outputVars, parentVars
  <1>4. VerdictInv'
    BY SameVerdict DEF CaseInv, VerdictInv, Judged, Drained, Fork, ProcInv,
           Waited, programVars, outputVars, parentVars
  <1> QED
    BY <1>1, <1>2, <1>3, <1>4 DEF CaseInv

\* The end of another process says nothing of the verdict.
LEMMA ChildEndsInv ==
  ASSUME CaseInv, NEW p \in Processes, ChildEnds(p)
  PROVE  CaseInv'
  <1>1. CaseTypeOK'
    BY CaseAssumption DEF CaseInv, CaseTypeOK, Written, ChildEnds, Processes,
           programVars, outputVars, parentVars
  <1>2. ProcInv'
    BY DEF CaseInv, ProcInv, Judged, ChildEnds, Processes, Group, Stopped,
           Running, Waited, programVars, outputVars, parentVars
  <1>3. FlowInv'
    BY DEF CaseInv, CaseTypeOK, FlowInv, Written, Streams, Least, Keep,
           ChildEnds, programVars, outputVars, parentVars
  <1>4. VerdictInv'
    BY SameVerdict DEF CaseInv, VerdictInv, Judged, Drained, ChildEnds,
           ProcInv, Waited, programVars, outputVars, parentVars
  <1> QED
    BY <1>1, <1>2, <1>3, <1>4 DEF CaseInv

\* The main process ends by itself, with isolation all with it.
LEMMA MainEndsInv ==
  ASSUME CaseInv, NEW e \in Endings, MainEnds(e)
  PROVE  CaseInv'
  <1>1. CaseTypeOK'
    BY CaseAssumption DEF CaseInv, CaseTypeOK, Written, MainEnds, Processes,
           programVars, outputVars, parentVars
  <1>2. ProcInv'
    BY DEF CaseInv, ProcInv, Judged, MainEnds, Processes, Group, Endings,
           Killed, Alive, Stopped, Running, Waited, programVars, outputVars,
           parentVars
  <1>3. FlowInv'
    BY DEF CaseInv, CaseTypeOK, FlowInv, Written, Streams, Least, Keep,
           MainEnds, programVars, outputVars, parentVars
  <1>4. VerdictInv'
    BY SameVerdict DEF CaseInv, VerdictInv, Judged, Drained, MainEnds,
           ProcInv, Waited, programVars, outputVars, parentVars
  <1> QED
    BY <1>1, <1>2, <1>3, <1>4 DEF CaseInv

\* The launcher ends with its message on stderr before the program runs.
LEMMA LauncherFailsInv ==
  ASSUME CaseInv, LauncherFails
  PROVE  CaseInv'
  <1>1. CaseTypeOK'
    <2>1. /\ wrote \in [Streams -> Nat] /\ pipe \in [Streams -> 0..PipeSize]
          /\ wrote' = [wrote EXCEPT !["err"] = wrote["err"] + 1]
          /\ pipe' = [pipe EXCEPT !["err"] = pipe["err"] + 1]
          /\ Written = 0 /\ MaxWrites > 0 /\ PipeSize > 0
      BY DEF CaseInv, CaseTypeOK, LauncherFails
    <2>2. PipeSize \in Nat /\ MaxWrites \in Nat
      BY CaseAssumption
    <2>3. wrote["err"] >= chunk["err"] + pipe["err"] /\ chunk["err"] \in Nat
      BY DEF CaseInv, CaseTypeOK, FlowInv, Streams
    <2>4. pipe["err"] = 0 /\ wrote["err"] = 0 /\ wrote["out"] = 0
      BY <2>1, <2>2, <2>3 DEF Written, Streams
    <2>5. wrote' \in [Streams -> Nat] /\ pipe' \in [Streams -> 0..PipeSize]
      BY <2>1, <2>2, <2>4 DEF Streams
    <2>6. Written' <= MaxWrites
      BY <2>1, <2>2, <2>4 DEF Written, Streams
    <2> QED
      BY <2>5, <2>6 DEF CaseInv, CaseTypeOK, LauncherFails, parentVars
  <1>2. ProcInv'
    BY DEF CaseInv, ProcInv, Judged, LauncherFails, Processes, Group, Failed,
           Killed, Alive, Stopped, Running, Waited, programVars, outputVars,
           parentVars
  <1>3. FlowInv'
    BY DEF CaseInv, CaseTypeOK, FlowInv, Written, Streams, Least, Keep,
           LauncherFails, programVars, outputVars, parentVars
  <1>4. VerdictInv'
    BY SameVerdict DEF CaseInv, VerdictInv, Judged, Drained, LauncherFails,
           ProcInv, Waited, programVars, outputVars, parentVars
  <1> QED
    BY <1>1, <1>2, <1>3, <1>4 DEF CaseInv

-----------------------------------------------------------------------------
(* The readers *)

\* What was in the pipe is in the reader's hands.
LEMMA ReadChunkInv ==
  ASSUME CaseInv, NEW s \in Streams, ReadChunk(s)
  PROVE  CaseInv'
  <1>1. CaseTypeOK'
    BY CaseAssumption DEF CaseInv, CaseTypeOK, Written, ReadChunk, Streams,
           programVars, outputVars, parentVars
  <1>2. ProcInv'
    BY DEF CaseInv, ProcInv, Judged, ReadChunk, programVars, outputVars,
           parentVars
  <1>3. FlowInv'
    <2>1. CASE s = "out"
      BY <2>1, CaseAssumption DEF CaseInv, CaseTypeOK, FlowInv, Written, Streams, Least, Keep,
             ReadChunk, programVars, parentVars
    <2>2. CASE s = "err"
      BY <2>2, CaseAssumption DEF CaseInv, CaseTypeOK, FlowInv, Written, Streams, Least, Keep,
             ReadChunk, programVars, parentVars
    <2> QED
      BY <2>1, <2>2 DEF Streams
  <1>4. VerdictInv'
    BY SameVerdict DEF CaseInv, VerdictInv, Judged, Drained, ReadChunk,
           CaseTypeOK, FlowInv, Streams, programVars, outputVars, parentVars
  <1> QED
    BY <1>1, <1>2, <1>3, <1>4 DEF CaseInv

\* What was in the reader's hands is recorded, up to what is kept.
LEMMA RecordChunkInv ==
  ASSUME CaseInv, NEW s \in Streams, RecordChunk(s)
  PROVE  CaseInv'
  <1>1. CaseTypeOK'
    BY CaseAssumption DEF CaseInv, CaseTypeOK, Written, RecordChunk, Streams,
           Least, Keep, programVars, outputVars, parentVars
  <1>2. ProcInv'
    BY DEF CaseInv, ProcInv, Judged, RecordChunk, programVars, outputVars,
           parentVars
  <1>3. FlowInv'
    <2>1. /\ \A x \in Streams : wrote[x] \in Nat /\ chunk[x] \in Nat /\ pipe[x] \in Nat
          /\ kept[s] \in Nat
          /\ wrote' = wrote /\ pipe' = pipe /\ procs' = procs /\ pc' = pc
          /\ output_bytes \in Nat /\ output_bytes' = output_bytes + chunk[s]
          /\ output_exceeded \in BOOLEAN
          /\ output_exceeded' = (output_exceeded \/ output_bytes' > MaxOutput)
          /\ MaxOutput \in Nat /\ KeepErr \in Nat
      BY CaseAssumption DEF CaseInv, CaseTypeOK, RecordChunk, programVars, parentVars
    <2>2. /\ chunk' = [chunk EXCEPT ![s] = 0] /\ chunk'[s] = 0
          /\ reader' = [reader EXCEPT ![s] = "read"]
          /\ kept'[s] = Least(kept[s] + chunk[s], Keep(s))
          /\ \A x \in Streams : x # s => chunk'[x] = chunk[x] /\ kept'[x] = kept[x]
      BY DEF CaseInv, CaseTypeOK, RecordChunk
    <2>3. Keep(s) \in Nat
      BY <2>1 DEF Keep
    <2>4. /\ wrote[s] >= chunk[s] + pipe[s]
          /\ kept[s] = Least(wrote[s] - chunk[s] - pipe[s], Keep(s))
      BY DEF CaseInv, FlowInv
    <2>5. kept'[s] = Least(wrote[s] - pipe[s], Keep(s))
      BY <2>1, <2>2, <2>3, <2>4 DEF Least
    <2>6. output_bytes' = Written - (chunk'["out"] + pipe["out"]) - (chunk'["err"] + pipe["err"])
      <3>1. output_bytes = Written - (chunk["out"] + pipe["out"]) - (chunk["err"] + pipe["err"])
        BY DEF CaseInv, FlowInv
      <3>2. CASE s = "out"
        BY <2>1, <2>2, <3>1, <3>2 DEF Written, Streams
      <3>3. CASE s = "err"
        BY <2>1, <2>2, <3>1, <3>3 DEF Written, Streams
      <3> QED
        BY <3>2, <3>3 DEF Streams
    <2>7. output_exceeded' <=> output_bytes' > MaxOutput
      <3>1. output_bytes > MaxOutput => output_bytes' > MaxOutput
        BY <2>1
      <3>2. output_exceeded <=> output_bytes > MaxOutput
        BY DEF CaseInv, FlowInv
      <3> QED
        BY <2>1, <3>1, <3>2
    <2>8. ASSUME NEW x \in Streams
          PROVE  /\ wrote[x] >= chunk'[x] + pipe[x]
                 /\ kept'[x] = Least(wrote[x] - chunk'[x] - pipe[x], Keep(x))
                 /\ reader'[x] # "record" => chunk'[x] = 0
                 /\ reader'[x] = "closed" => pipe[x] = 0 /\ procs = {}
                 /\ pc \in {"start", "popen"} => reader'[x] = "none"
                 /\ pc = "threads" => reader'[x] = "new"
      <3>1. CASE x = s
        <4>1. reader[s] = "record" /\ reader'[s] = "read"
          BY DEF CaseInv, CaseTypeOK, RecordChunk
        <4> QED
          BY <2>1, <2>2, <2>4, <2>5, <3>1, <4>1 DEF CaseInv, FlowInv
      <3>2. CASE x # s
        <4>1. chunk'[x] = chunk[x] /\ kept'[x] = kept[x]
          BY <2>2, <3>2
        <4>2. reader'[x] = reader[x]
          BY <2>2, <3>2 DEF CaseInv, CaseTypeOK
        <4> QED
          BY <4>1, <4>2 DEF CaseInv, FlowInv
      <3> QED
        BY <3>1, <3>2
    <2>9. Written' = Written
      BY <2>1 DEF Written
    <2> QED
      BY <2>1, <2>6, <2>7, <2>8, <2>9 DEF FlowInv, Keep
  <1>4. VerdictInv'
    BY SameVerdict DEF CaseInv, VerdictInv, Judged, Drained, RecordChunk,
           CaseTypeOK, FlowInv, Streams, programVars, outputVars, parentVars
  <1> QED
    BY <1>1, <1>2, <1>3, <1>4 DEF CaseInv

\* A stream at its end stays there: nobody is left to write.
LEMMA CloseStreamInv ==
  ASSUME CaseInv, NEW s \in Streams, CloseStream(s)
  PROVE  CaseInv'
  <1>1. CaseTypeOK'
    BY CaseAssumption DEF CaseInv, CaseTypeOK, Written, CloseStream, Streams,
           programVars, outputVars, parentVars
  <1>2. ProcInv'
    BY DEF CaseInv, ProcInv, Judged, CloseStream, programVars, outputVars,
           parentVars
  <1>3. FlowInv'
    BY DEF CaseInv, CaseTypeOK, FlowInv, Written, Streams, Least, Keep,
           CloseStream, programVars, outputVars, parentVars
  <1>4. VerdictInv'
    BY SameVerdict DEF CaseInv, VerdictInv, Judged, Drained, CloseStream,
           CaseTypeOK, FlowInv, Streams, programVars, outputVars, parentVars
  <1> QED
    BY <1>1, <1>2, <1>3, <1>4 DEF CaseInv

-----------------------------------------------------------------------------
(* run_case *)

\* The directories are made.
LEMMA SetUpInv ==
  ASSUME CaseInv, SetUp
  PROVE  CaseInv'
  <1>1. CaseTypeOK'
    BY CaseAssumption DEF CaseInv, CaseTypeOK, Written, SetUp, Goto, Places,
           Processes, Statuses, Streams, Killed, programVars, outputVars,
           parentVars
  <1>2. ProcInv'
    BY DEF CaseInv, ProcInv, Judged, SetUp, Goto, Processes, Group, Killed,
           Alive, Stopped, Running, Waited, programVars, outputVars,
           parentVars
  <1>3. FlowInv'
    BY DEF CaseInv, CaseTypeOK, FlowInv, Written, Streams, Least, Keep, SetUp,
           Goto, programVars, outputVars, parentVars
  <1>4. VerdictInv'
    BY SameVerdict DEF CaseInv, VerdictInv, Judged, Drained, SetUp, Goto,
           ProcInv, Group, Statuses, Waited, Running, programVars, outputVars,
           parentVars
  <1> QED
    BY <1>1, <1>2, <1>3, <1>4 DEF CaseInv

\* A failure before the try clause, with nothing started.
LEMMA SetUpRaisesInv ==
  ASSUME CaseInv, SetUpRaises
  PROVE  CaseInv'
  <1>1. CaseTypeOK'
    BY CaseAssumption DEF CaseInv, CaseTypeOK, Written, SetUpRaises, Goto,
           Places, Processes, Statuses, Streams, Killed, programVars,
           outputVars, parentVars
  <1>2. ProcInv'
    BY DEF CaseInv, ProcInv, Judged, SetUpRaises, Goto, Processes, Group,
           Killed, Alive, Stopped, Running, Waited, programVars, outputVars,
           parentVars
  <1>3. FlowInv'
    BY DEF CaseInv, CaseTypeOK, FlowInv, Written, Streams, Least, Keep,
           SetUpRaises, Goto, programVars, outputVars, parentVars
  <1>4. VerdictInv'
    BY SameVerdict DEF CaseInv, VerdictInv, Judged, Drained, SetUpRaises,
           Goto, ProcInv, Group, Statuses, Waited, Running, programVars,
           outputVars, parentVars
  <1> QED
    BY <1>1, <1>2, <1>3, <1>4 DEF CaseInv

\* The main process lives from here.
LEMMA PopenStartsInv ==
  ASSUME CaseInv, PopenStarts
  PROVE  CaseInv'
  <1>1. CaseTypeOK'
    BY CaseAssumption DEF CaseInv, CaseTypeOK, Written, PopenStarts, Goto,
           Places, Processes, Statuses, Streams, Killed, programVars,
           outputVars, parentVars
  <1>2. ProcInv'
    BY DEF CaseInv, ProcInv, Judged, PopenStarts, Goto, Processes, Group,
           Killed, Alive, Stopped, Running, Waited, programVars, outputVars,
           parentVars
  <1>3. FlowInv'
    BY DEF CaseInv, CaseTypeOK, FlowInv, Written, Streams, Least, Keep,
           PopenStarts, Goto, programVars, outputVars, parentVars
  <1>4. VerdictInv'
    BY SameVerdict DEF CaseInv, VerdictInv, Judged, Drained, PopenStarts,
           Goto, ProcInv, Group, Statuses, Waited, Running, programVars,
           outputVars, parentVars
  <1> QED
    BY <1>1, <1>2, <1>3, <1>4 DEF CaseInv

\* No process and no thread: SYSTEM_ERROR.
LEMMA PopenFailsInv ==
  ASSUME CaseInv, PopenFails
  PROVE  CaseInv'
  <1>1. CaseTypeOK'
    BY CaseAssumption DEF CaseInv, CaseTypeOK, Written, PopenFails, Goto,
           Places, Processes, Statuses, Streams, Killed, programVars,
           outputVars, parentVars
  <1>2. ProcInv'
    BY DEF CaseInv, ProcInv, Judged, PopenFails, Goto, Processes, Group,
           Killed, Alive, Stopped, Running, Waited, programVars, outputVars,
           parentVars
  <1>3. FlowInv'
    BY DEF CaseInv, CaseTypeOK, FlowInv, Written, Streams, Least, Keep,
           PopenFails, Goto, programVars, outputVars, parentVars
  <1>4. VerdictInv'
    BY SameVerdict DEF CaseInv, VerdictInv, Judged, Drained, PopenFails, Goto,
           ProcInv, Group, Statuses, Waited, Running, programVars, outputVars,
           parentVars
  <1> QED
    BY <1>1, <1>2, <1>3, <1>4 DEF CaseInv

\* Both readers begin.
LEMMA ThreadsStartInv ==
  ASSUME CaseInv, ThreadsStart
  PROVE  CaseInv'
  <1>1. CaseTypeOK'
    BY CaseAssumption DEF CaseInv, CaseTypeOK, Written, ThreadsStart, Goto,
           Places, Processes, Statuses, Streams, Killed, programVars,
           outputVars, parentVars
  <1>2. ProcInv'
    BY DEF CaseInv, ProcInv, Judged, ThreadsStart, Goto, Processes, Group,
           Killed, Alive, Stopped, Running, Waited, programVars, outputVars,
           parentVars
  <1>3. FlowInv'
    BY DEF CaseInv, CaseTypeOK, FlowInv, Written, Streams, Least, Keep,
           ThreadsStart, Goto, programVars, outputVars, parentVars
  <1>4. VerdictInv'
    BY SameVerdict DEF CaseInv, VerdictInv, Judged, Drained, ThreadsStart,
           Goto, ProcInv, Group, Statuses, Waited, Running, programVars,
           outputVars, parentVars
  <1> QED
    BY <1>1, <1>2, <1>3, <1>4 DEF CaseInv

\* A thread did not start: SYSTEM_ERROR, with the program alive.
LEMMA ThreadFailsInv ==
  ASSUME CaseInv, ThreadFails
  PROVE  CaseInv'
  <1>1. CaseTypeOK'
    BY CaseAssumption DEF CaseInv, CaseTypeOK, Written, ThreadFails, Goto,
           Places, Processes, Statuses, Streams, Killed, programVars,
           outputVars, parentVars
  <1>2. ProcInv'
    BY DEF CaseInv, ProcInv, Judged, ThreadFails, Goto, Processes, Group,
           Killed, Alive, Stopped, Running, Waited, programVars, outputVars,
           parentVars
  <1>3. FlowInv'
    BY DEF CaseInv, CaseTypeOK, FlowInv, Written, Streams, Least, Keep,
           ThreadFails, Goto, programVars, outputVars, parentVars
  <1>4. VerdictInv'
    BY SameVerdict DEF CaseInv, VerdictInv, Judged, Drained, ThreadFails,
           Goto, ProcInv, Group, Statuses, Waited, Running, programVars,
           outputVars, parentVars
  <1> QED
    BY <1>1, <1>2, <1>3, <1>4 DEF CaseInv

\* The loop goes on to the drain only after the main process has ended.
LEMMA PollInv ==
  ASSUME CaseInv, Poll
  PROVE  CaseInv'
  <1>1. CaseTypeOK'
    BY CaseAssumption DEF CaseInv, CaseTypeOK, Written, Poll, Goto, Places,
           Processes, Statuses, Streams, Killed, programVars, outputVars,
           parentVars
  <1>2. ProcInv'
    BY DEF CaseInv, ProcInv, Judged, Poll, Goto, Processes, Group, Killed,
           Alive, Stopped, Running, Waited, programVars, outputVars,
           parentVars
  <1>3. FlowInv'
    BY DEF CaseInv, CaseTypeOK, FlowInv, Written, Streams, Least, Keep, Poll,
           Goto, programVars, outputVars, parentVars
  <1>4. VerdictInv'
    BY SameVerdict DEF CaseInv, VerdictInv, Judged, Drained, Poll, Goto,
           ProcInv, Group, Statuses, Waited, Running, programVars, outputVars,
           parentVars
  <1> QED
    BY <1>1, <1>2, <1>3, <1>4 DEF CaseInv

\* The loop kills for the output limit only when it is exceeded.
LEMMA CheckOutputInv ==
  ASSUME CaseInv, CheckOutput
  PROVE  CaseInv'
  <1>1. CaseTypeOK'
    <2>1. CASE output_exceeded
      BY <2>1 DEF CaseInv, CaseTypeOK, Written, CheckOutput, Goto, ForceStatus,
             StopProcessGroup, Places, outputVars
    <2>2. CASE ~output_exceeded
      BY <2>2 DEF CaseInv, CaseTypeOK, Written, CheckOutput, Goto, Places,
             programVars, outputVars, parentVars
    <2> QED
      BY <2>1, <2>2
  <1>2. ProcInv'
    BY DEF CaseInv, ProcInv, Judged, CheckOutput, Goto, ForceStatus,
           StopProcessGroup, Processes, Group, Killed, Alive, Stopped,
           Running, Waited, programVars, outputVars, parentVars
  <1>3. FlowInv'
    BY DEF CaseInv, CaseTypeOK, FlowInv, Written, Streams, Least, Keep,
           CheckOutput, Goto, ForceStatus, StopProcessGroup, programVars,
           outputVars, parentVars
  <1>4. VerdictInv'
    BY SameVerdict DEF CaseInv, VerdictInv, Judged, Drained, CheckOutput,
           Goto, ForceStatus, StopProcessGroup, ProcInv, Group, Statuses,
           Waited, Running, programVars, outputVars, parentVars
  <1> QED
    BY <1>1, <1>2, <1>3, <1>4 DEF CaseInv

\* The loop kills for the deadline.
LEMMA DeadlinePassedInv ==
  ASSUME CaseInv, DeadlinePassed
  PROVE  CaseInv'
  <1>1. CaseTypeOK'
    BY CaseAssumption DEF CaseInv, CaseTypeOK, Written, DeadlinePassed, Goto,
           ForceStatus, StopProcessGroup, Places, Processes, Statuses,
           Streams, Killed, programVars, outputVars, parentVars
  <1>2. ProcInv'
    BY DEF CaseInv, ProcInv, Judged, DeadlinePassed, Goto, ForceStatus,
           StopProcessGroup, Processes, Group, Killed, Alive, Stopped,
           Running, Waited, programVars, outputVars, parentVars
  <1>3. FlowInv'
    BY DEF CaseInv, CaseTypeOK, FlowInv, Written, Streams, Least, Keep,
           DeadlinePassed, Goto, ForceStatus, StopProcessGroup, programVars,
           outputVars, parentVars
  <1>4. VerdictInv'
    BY SameVerdict DEF CaseInv, VerdictInv, Judged, Drained, DeadlinePassed,
           Goto, ForceStatus, StopProcessGroup, ProcInv, Group, Statuses,
           Waited, Running, programVars, outputVars, parentVars
  <1> QED
    BY <1>1, <1>2, <1>3, <1>4 DEF CaseInv

\* The loop goes round.
LEMMA DeadlineAheadInv ==
  ASSUME CaseInv, DeadlineAhead
  PROVE  CaseInv'
  <1>1. CaseTypeOK'
    BY CaseAssumption DEF CaseInv, CaseTypeOK, Written, DeadlineAhead, Goto,
           Places, Processes, Statuses, Streams, Killed, programVars,
           outputVars, parentVars
  <1>2. ProcInv'
    BY DEF CaseInv, ProcInv, Judged, DeadlineAhead, Goto, Processes, Group,
           Killed, Alive, Stopped, Running, Waited, programVars, outputVars,
           parentVars
  <1>3. FlowInv'
    BY DEF CaseInv, CaseTypeOK, FlowInv, Written, Streams, Least, Keep,
           DeadlineAhead, Goto, programVars, outputVars, parentVars
  <1>4. VerdictInv'
    BY SameVerdict DEF CaseInv, VerdictInv, Judged, Drained, DeadlineAhead,
           Goto, ProcInv, Group, Statuses, Waited, Running, programVars,
           outputVars, parentVars
  <1> QED
    BY <1>1, <1>2, <1>3, <1>4 DEF CaseInv

\* After a kill the main process is waited for.
LEMMA ReapInv ==
  ASSUME CaseInv, Reap
  PROVE  CaseInv'
  <1>1. CaseTypeOK'
    BY CaseAssumption DEF CaseInv, CaseTypeOK, Written, Reap, Goto, Places,
           Processes, Statuses, Streams, Killed, programVars, outputVars,
           parentVars
  <1>2. ProcInv'
    BY DEF CaseInv, ProcInv, Judged, Reap, Goto, Processes, Group, Killed,
           Alive, Stopped, Running, Waited, programVars, outputVars,
           parentVars
  <1>3. FlowInv'
    BY DEF CaseInv, CaseTypeOK, FlowInv, Written, Streams, Least, Keep, Reap,
           Goto, programVars, outputVars, parentVars
  <1>4. VerdictInv'
    BY SameVerdict DEF CaseInv, VerdictInv, Judged, Drained, Reap, Goto,
           ProcInv, Group, Statuses, Waited, Running, programVars, outputVars,
           parentVars
  <1> QED
    BY <1>1, <1>2, <1>3, <1>4 DEF CaseInv

\* The rest of the group is stopped before the pipes are drained.
LEMMA StopInv ==
  ASSUME CaseInv, Stop
  PROVE  CaseInv'
  <1>1. CaseTypeOK'
    BY CaseAssumption DEF CaseInv, CaseTypeOK, Written, Stop, Goto,
           StopProcessGroup, Places, Processes, Statuses, Streams, Killed,
           programVars, outputVars, parentVars
  <1>2. ProcInv'
    BY DEF CaseInv, ProcInv, Judged, Stop, Goto, StopProcessGroup, Processes,
           Group, Killed, Alive, Stopped, Running, Waited, programVars,
           outputVars, parentVars
  <1>3. FlowInv'
    BY DEF CaseInv, CaseTypeOK, FlowInv, Written, Streams, Least, Keep, Stop,
           Goto, StopProcessGroup, programVars, outputVars, parentVars
  <1>4. VerdictInv'
    BY SameVerdict DEF CaseInv, VerdictInv, Judged, Drained, Stop, Goto,
           StopProcessGroup, ProcInv, Group, Statuses, Waited, Running,
           programVars, outputVars, parentVars
  <1> QED
    BY <1>1, <1>2, <1>3, <1>4 DEF CaseInv

\* The text is what was kept.
LEMMA DecodeInv ==
  ASSUME CaseInv, Decode
  PROVE  CaseInv'
  <1>1. CaseTypeOK'
    BY CaseAssumption DEF CaseInv, CaseTypeOK, Written, Decode, Goto, Places,
           Processes, Statuses, Streams, Killed, programVars, outputVars,
           parentVars
  <1>2. ProcInv'
    BY DEF CaseInv, ProcInv, Judged, Decode, Goto, Processes, Group, Killed,
           Alive, Stopped, Running, Waited, programVars, outputVars,
           parentVars
  <1>3. FlowInv'
    BY DEF CaseInv, CaseTypeOK, FlowInv, Written, Streams, Least, Keep,
           Decode, Goto, programVars, outputVars, parentVars
  <1>4. VerdictInv'
    BY SameVerdict DEF CaseInv, VerdictInv, Judged, Drained, Decode, Goto,
           ProcInv, Group, Statuses, Waited, Running, programVars, outputVars,
           parentVars
  <1> QED
    BY <1>1, <1>2, <1>3, <1>4 DEF CaseInv

\* The verdict is that of the end, at a time when nothing can change it.
LEMMA ClassifyInv ==
  ASSUME CaseInv, Classify
  PROVE  CaseInv'
  <1>1. CaseTypeOK'
    BY CaseStatusType DEF CaseInv, CaseTypeOK, Written, Classify, Goto, Places,
           programVars, outputVars
  <1>2. ProcInv'
    BY DEF CaseInv, ProcInv, VerdictInv, Judged, Classify, Goto, Stopped, Running, Waited,
           programVars, outputVars
  <1>3. FlowInv'
    BY DEF CaseInv, CaseTypeOK, FlowInv, Written, Streams, Least, Keep,
           Classify, Goto, programVars, outputVars, parentVars
  <1>4. VerdictInv'
    <2>1. CaseTypeOK /\ pc = "classify" /\ status' = CaseStatus /\ pc' = "finally"
      BY DEF CaseInv, Classify, Goto
    <2>2. ending # Alive
      BY <2>1 DEF CaseInv, ProcInv, Running, Waited
    <2>3. CaseStatus' = CaseStatus
      BY SameVerdict DEF Classify, programVars, outputVars
    <2>4. CaseStatus \in Statuses \ {"SYSTEM_ERROR"}
      BY <2>1, CaseStatusType
    <2>5. CaseStatus = "ACCEPTED" =>
             ending = [kind |-> "exit", n |-> 0] /\ ~large /\ forced = "none"
      BY <2>1, <2>2, AcceptedEnding
    <2> QED
      BY <2>1, <2>3, <2>4, <2>5
      DEF CaseInv, VerdictInv, Judged, Drained, Classify, Streams, Running,
          programVars, outputVars
  <1> QED
    BY <1>1, <1>2, <1>3, <1>4 DEF CaseInv

\* The way out, also over an unstarted thread.
LEMMA FinallyInv ==
  ASSUME CaseInv, Finally
  PROVE  CaseInv'
  <1>1. CaseTypeOK'
    BY CaseAssumption DEF CaseInv, CaseTypeOK, Written, Finally, Goto,
           StopProcessGroup, Places, Processes, Statuses, Streams, Killed,
           programVars, outputVars, parentVars
  <1>2. ProcInv'
    BY DEF CaseInv, ProcInv, Judged, Finally, Goto, StopProcessGroup,
           Processes, Group, Killed, Alive, Stopped, Running, Waited,
           programVars, outputVars, parentVars
  <1>3. FlowInv'
    BY DEF CaseInv, CaseTypeOK, FlowInv, Written, Streams, Least, Keep,
           Finally, Goto, StopProcessGroup, programVars, outputVars,
           parentVars
  <1>4. VerdictInv'
    BY SameVerdict DEF CaseInv, VerdictInv, Judged, Drained, Finally, Goto,
           StopProcessGroup, ProcInv, Group, Statuses, Waited, Running,
           programVars, outputVars, parentVars
  <1> QED
    BY <1>1, <1>2, <1>3, <1>4 DEF CaseInv

\* A reader that is waited for is at its end, but for a stray process.
LEMMA JoinInv ==
  ASSUME CaseInv, NEW s \in Streams, Join(s)
  PROVE  CaseInv'
  <1>1. CaseTypeOK'
    BY CaseAssumption DEF CaseInv, CaseTypeOK, Written, Join, Goto, Places,
           programVars, outputVars, parentVars
  <1>2. ProcInv'
    BY DEF CaseInv, ProcInv, Judged, Join, Goto, Stopped, Running, Waited,
           programVars, outputVars, parentVars
  <1>3. FlowInv'
    BY DEF CaseInv, CaseTypeOK, FlowInv, Written, Streams, Least, Keep, Join,
           Goto, programVars, outputVars, parentVars
  <1>4. VerdictInv'
    <2>1. Drained => procs = {} \/ reader[s] = "closed"
      BY DEF CaseInv, CaseTypeOK, ProcInv, Join, Processes, Group, Stopped, Waited, Drained, Streams
    <2>2. Drained => reader[s] = "closed"
      BY <2>1 DEF Join
    <2>3. CASE s = "out"
      BY <2>2, <2>3 DEF CaseInv, VerdictInv, Judged, Drained, Join, Goto, Running,
             programVars, outputVars, parentVars
    <2>4. CASE s = "err"
      BY <2>2, <2>4 DEF CaseInv, VerdictInv, Judged, Drained, Join, Goto, Running,
             programVars, outputVars, parentVars
    <2> QED
      BY <2>3, <2>4 DEF Streams
  <1> QED
    BY <1>1, <1>2, <1>3, <1>4 DEF CaseInv

\* Every step of run_case keeps the invariant.
LEMMA ParentInv == CaseInv /\ Parent => CaseInv'
  BY SetUpInv, SetUpRaisesInv, PopenStartsInv, PopenFailsInv, ThreadsStartInv,
     ThreadFailsInv, PollInv, CheckOutputInv, DeadlinePassedInv, DeadlineAheadInv,
     ReapInv, StopInv, JoinInv, DecodeInv, ClassifyInv, FinallyInv
  DEF Parent

\* Every step of the program, the readers and run_case does.
LEMMA CaseNextInv == CaseInv /\ CaseNext => CaseInv'
  <1>1. CaseInv /\ Program => CaseInv'
    BY WriteInv, ForkInv, ChildEndsInv, MainEndsInv, LauncherFailsInv DEF Program
  <1>2. ASSUME CaseInv, NEW s \in Streams, Reader(s) PROVE CaseInv'
    BY <1>2, ReadChunkInv, RecordChunkInv, CloseStreamInv DEF Reader
  <1> QED
    BY <1>1, <1>2, ParentInv DEF CaseNext

\* No step but the two failures comes to SYSTEM_ERROR.
LEMMA FailNext ==
  ASSUME CaseInv, FailInv, CaseNext
  PROVE  FailInv'
  <1> USE DEF FailInv
  <1>0. FailInv /\ CaseInv
    OBVIOUS
  <1>1. CASE Program
    BY <1>0, <1>1 DEF Program, Write, Fork, ChildEnds, MainEnds, LauncherFails, parentVars,
                      outputVars
  <1>2. ASSUME NEW s \in Streams, Reader(s)
        PROVE  FailInv'
    <2>1. reader \in [Streams -> {"none", "new", "read", "record", "closed"}]
      BY <1>0 DEF CaseInv, CaseTypeOK
    <2>2. /\ UNCHANGED <<pc, procs, ending, status>>
          /\ reader[s] # "new" /\ \E t : reader' = [reader EXCEPT ![s] = t]
      BY <1>2 DEF Reader, ReadChunk, RecordChunk, CloseStream, programVars, parentVars
    <2>3. reader["err"] = "new" => reader'["err"] = "new"
      BY <2>1, <2>2 DEF Streams
    <2> QED
      BY <1>0, <2>2, <2>3
  <1>3. CASE SetUp \/ SetUpRaises \/ PopenStarts \/ ThreadsStart
    BY <1>0, <1>3 DEF SetUp, SetUpRaises, PopenStarts, ThreadsStart, Goto, parentVars
  <1>4. CASE PopenFails
    BY <1>0, <1>4 DEF PopenFails, Goto, programVars, CaseInv, ProcInv
  <1>5. CASE ThreadFails
    <2>1. reader["err"] = "new" /\ reader \in [Streams -> {"none", "new", "read", "record", "closed"}]
      BY <1>0, <1>5 DEF ThreadFails, CaseInv, FlowInv, CaseTypeOK, Streams
    <2>2. reader' = reader \/ reader' = [reader EXCEPT !["out"] = "read"]
      BY <1>5 DEF ThreadFails
    <2>3. reader'["err"] = "new"
      BY <2>1, <2>2 DEF Streams
    <2> QED
      BY <1>5, <2>3 DEF ThreadFails, Goto
  <1>6. CASE Poll \/ CheckOutput \/ DeadlinePassed \/ DeadlineAhead \/ Reap \/ Stop \/ Decode
    BY <1>0, <1>6 DEF Poll, CheckOutput, DeadlinePassed, DeadlineAhead, Reap, Stop, Decode,
                      ForceStatus, Goto, parentVars
  <1>7. ASSUME NEW s \in Streams, Join(s)
        PROVE  FailInv'
    BY <1>0, <1>7 DEF Join, Goto, parentVars
  <1>8. CASE Classify
    BY <1>0, <1>8, CaseStatusType DEF Classify, CaseInv
  <1>9. CASE Finally
    <2>1. UNCHANGED <<reader, status>> /\ pc = "finally" /\ pc' \in {"raised", "done"}
      BY <1>9 DEF Finally, Goto, outputVars
    <2>2. reader["err"] = "new" => pc' = "raised"
      BY <1>9 DEF Finally, Goto, Streams
    <2>3. procs = {} /\ ending = Alive => procs' = {} /\ ending' = Alive
      BY <1>9 DEF Finally, StopProcessGroup
    <2> QED
      BY <1>0, <2>1, <2>2, <2>3
  <1> QED
    BY <1>1, <1>2, <1>3, <1>4, <1>5, <1>6, <1>7, <1>8, <1>9 DEF CaseNext, Parent

\* What a result says of the start of the program.
LEMMA InvRan ==
  ASSUME CaseInv, FailInv, pc = "done"
  PROVE  status = "SYSTEM_ERROR" <=> ending = Alive
  BY DEF CaseInv, ProcInv, Judged, FailInv

\* A call of run_case starts with the invariant.
LEMMA FreshInv ==
  ASSUME isolated \in BOOLEAN, Fresh
  PROVE  CaseInv
  <1>1. CaseTypeOK
    <2>1. /\ wrote \in [Streams -> Nat] /\ pipe \in [Streams -> 0..PipeSize]
          /\ chunk \in [Streams -> 0..PipeSize] /\ kept \in [Streams -> Nat]
          /\ reader \in [Streams -> {"none", "new", "read", "record", "closed"}]
      BY CaseAssumption DEF Fresh
    <2>2. Written <= MaxWrites
      BY CaseAssumption DEF Fresh, Written, Streams
    <2> QED
      BY <2>1, <2>2 DEF CaseInv, CaseTypeOK, Fresh, Places
  <1>2. ProcInv
    BY DEF ProcInv, Fresh, Judged, Alive, Killed, Stopped, Waited, Running
  <1>3. FlowInv
    BY CaseAssumption DEF FlowInv, Fresh, Written, Streams, Least, Keep
  <1>4. VerdictInv
    BY DEF VerdictInv, Fresh, Judged, Running
  <1> QED
    BY <1>1, <1>2, <1>3, <1>4 DEF CaseInv

\* ... and so does the next call.
LEMMA CallAgainInv ==
  ASSUME CaseInv, CallAgain
  PROVE  CaseInv'
  <1>1. CaseTypeOK'
    <2>1. /\ wrote' \in [Streams -> Nat] /\ pipe' \in [Streams -> 0..PipeSize]
          /\ chunk' \in [Streams -> 0..PipeSize] /\ kept' \in [Streams -> Nat]
          /\ reader' \in [Streams -> {"none", "new", "read", "record", "closed"}]
      BY CaseAssumption DEF CallAgain
    <2>2. Written' <= MaxWrites
      BY CaseAssumption DEF CallAgain, Written, Streams
    <2> QED
      BY <2>1, <2>2 DEF CaseInv, CaseTypeOK, CallAgain, Places
  <1>2. ProcInv'
    BY DEF ProcInv, CallAgain, Judged, Alive, Killed, Stopped, Waited, Running
  <1>3. FlowInv'
    BY CaseAssumption DEF FlowInv, CallAgain, Written, Streams, Least, Keep
  <1>4. VerdictInv'
    BY DEF VerdictInv, CallAgain, Judged, Running
  <1> QED
    BY <1>1, <1>2, <1>3, <1>4 DEF CaseInv

-----------------------------------------------------------------------------
(* What the invariant says of the properties *)

\* An accepted program ended well and its whole output was judged.
LEMMA InvAccepted == CaseInv => AcceptedIsEarned
  <1> SUFFICES ASSUME CaseInv, Returned, status = "ACCEPTED"
               PROVE  /\ ending = [kind |-> "exit", n |-> 0] /\ ~large /\ forced = "none"
                      /\ Drained => Written <= MaxOutput /\ text = wrote["out"]
    BY DEF AcceptedIsEarned
  <1>1. Judged
    BY DEF Returned, Judged
  <1>2. ending = [kind |-> "exit", n |-> 0] /\ ~large /\ forced = "none"
    BY <1>1 DEF CaseInv, VerdictInv
  <1>3. ASSUME Drained PROVE Written <= MaxOutput /\ text = wrote["out"]
    <2>1. reader["out"] = "closed" /\ reader["err"] = "closed" /\ text = kept["out"]
      BY <1>1, <1>3 DEF CaseInv, VerdictInv, Streams
    <2>2. ~output_exceeded
      BY <1>1, <1>3 DEF CaseInv, CaseTypeOK, VerdictInv, CaseStatus
    <2>3. /\ chunk["out"] = 0 /\ pipe["out"] = 0 /\ chunk["err"] = 0 /\ pipe["err"] = 0
          /\ kept["out"] = Least(wrote["out"] - chunk["out"] - pipe["out"], Keep("out"))
          /\ output_bytes = Written - (chunk["out"] + pipe["out"]) - (chunk["err"] + pipe["err"])
          /\ ~(output_bytes > MaxOutput)
      BY <2>1, <2>2 DEF CaseInv, CaseTypeOK, FlowInv, Streams
    <2>4. wrote["out"] \in Nat /\ wrote["err"] \in Nat /\ MaxOutput \in Nat
      BY CaseAssumption DEF CaseInv, CaseTypeOK, Streams
    <2> QED
      BY <2>1, <2>3, <2>4 DEF Written, Least, Keep
  <1> QED
    BY <1>2, <1>3

\* The limit on the output is decided on all that was written.
LEMMA InvOutputLimit == CaseInv => OutputLimitExact
  <1> SUFFICES ASSUME CaseInv, Returned, Drained
               PROVE  status = "OUTPUT_LIMIT_EXCEEDED"
                        <=> Written > MaxOutput \/ (forced = "none" /\ Sig = SIGXFSZ)
    BY DEF OutputLimitExact
  <1>1. Judged
    BY DEF Returned, Judged
  <1>2. status = CaseStatus
    BY <1>1 DEF CaseInv, VerdictInv
  <1>3. output_exceeded <=> Written > MaxOutput
    <2>1. reader["out"] = "closed" /\ reader["err"] = "closed"
      BY <1>1 DEF CaseInv, VerdictInv, Streams
    <2>2. /\ chunk["out"] = 0 /\ pipe["out"] = 0 /\ chunk["err"] = 0 /\ pipe["err"] = 0
          /\ output_bytes = Written - (chunk["out"] + pipe["out"]) - (chunk["err"] + pipe["err"])
          /\ output_exceeded <=> output_bytes > MaxOutput
      BY <2>1 DEF CaseInv, CaseTypeOK, FlowInv, Streams
    <2>3. Written \in Nat
      BY DEF Written, CaseInv, CaseTypeOK, Streams
    <2> QED
      BY <2>2, <2>3
  <1>4. forced = "OUTPUT_LIMIT_EXCEEDED" => output_exceeded
    BY DEF CaseInv, VerdictInv
  <1>5. /\ output_exceeded \in BOOLEAN
        /\ forced \in {"none", "OUTPUT_LIMIT_EXCEEDED", "TIME_LIMIT_EXCEEDED"}
    BY DEF CaseInv, CaseTypeOK
  <1>6. CASE output_exceeded
    BY <1>2, <1>3, <1>6 DEF CaseStatus
  <1>7. CASE ~output_exceeded /\ forced # "none"
    BY <1>2, <1>3, <1>4, <1>5, <1>7 DEF CaseStatus
  <1>8. CASE ~output_exceeded /\ forced = "none" /\ Sig # 0
    <2>1. CaseStatus = SignalStatus
      BY <1>8 DEF CaseStatus
    <2>2. SignalStatus = "OUTPUT_LIMIT_EXCEEDED" <=> Sig = SIGXFSZ
      BY DEF SignalStatus, SIGXFSZ, SIGKILL, SIGSEGV, SIGXCPU
    <2> QED
      BY <1>2, <1>3, <1>8, <2>1, <2>2
  <1>9. CASE ~output_exceeded /\ forced = "none" /\ Sig = 0
    <2>1. large \in BOOLEAN
      BY DEF CaseInv, CaseTypeOK
    <2>2. CaseStatus # "OUTPUT_LIMIT_EXCEEDED"
      BY <1>9, <2>1 DEF CaseStatus
    <2> QED
      BY <1>2, <1>3, <1>9, <2>2 DEF SIGXFSZ
  <1> QED
    BY <1>5, <1>6, <1>7, <1>8, <1>9

\* Nothing lives and nothing exists after the result.
LEMMA InvSurvives == CaseInv => NothingSurvives
  BY DEF CaseInv, CaseTypeOK, ProcInv, VerdictInv, NothingSurvives, Stopped, Group, Processes

\* The numbers of the ends a program has by itself.
LEMMA EndingRange ==
  ASSUME CaseTypeOK, ending # Alive, ending # Killed
  PROVE  \/ ending.kind = "signal" /\ ending.n \in 1..64
         \/ ending.kind = "exit" /\ ending.n \in 0..255
  <1>1. ending \in [kind : {"exit"}, n : OwnCodes] \cup [kind : {"signal"}, n : Signals]
        \/ ending = Failed
    BY DEF CaseTypeOK, Endings
  <1>2. OwnCodes \subseteq 0..255 /\ Signals \subseteq 1..64
    BY CaseAssumption
  <1>3. CASE ending \in [kind : {"exit"}, n : OwnCodes]
    BY <1>2, <1>3
  <1>4. CASE ending \in [kind : {"signal"}, n : Signals]
    BY <1>2, <1>4
  <1>5. CASE ending = Failed
    BY <1>5 DEF Failed
  <1> QED
    BY <1>1, <1>3, <1>4, <1>5

\* What run_case makes of the end of the program: the signal, or the status.
LEMMA SigTells ==
  ASSUME CaseTypeOK, ending # Alive, ending # Killed,
         ~(isolated /\ ending.kind = "exit" /\ ending.n \in 129..192)
  PROVE  \/ ending.kind = "signal" /\ ending.n \in 1..64 /\ Sig = ending.n
         \/ ending.kind = "exit" /\ ending.n \in Nat /\ Sig = 0 /\ ExitCode = ending.n
  <1>1. \/ ending.kind = "signal" /\ ending.n \in 1..64
        \/ ending.kind = "exit" /\ ending.n \in 0..255
    BY EndingRange
  <1>2. isolated \in BOOLEAN
    BY DEF CaseTypeOK
  <1>3. CASE ending.kind = "signal"
    <2>1. ending.n \in 1..64
      BY <1>1, <1>3
    <2>2. CASE isolated
      <3>1. ExitCode = 128 + ending.n
        BY <1>3, <2>2 DEF ExitCode, LauncherStatus
      <3>2. ~(ExitCode < 0) /\ ExitCode \in 129..192 /\ ExitCode - 128 = ending.n
        BY <2>1, <3>1
      <3>3. Sig = ExitCode - 128
        BY <2>2, <3>2, Zenon DEF Sig
      <3> QED
        BY <1>3, <2>1, <3>2, <3>3
    <2>3. CASE ~isolated
      <3>1. ExitCode = -ending.n
        BY <1>3, <2>3 DEF ExitCode
      <3>2. ExitCode < 0 /\ -ExitCode = ending.n
        BY <2>1, <3>1
      <3>3. Sig = -ExitCode
        <4>1. ~(isolated /\ ExitCode \in 129..192)
          BY <2>3
        <4> QED
          BY <3>2, <4>1, Zenon DEF Sig
      <3> QED
        BY <1>3, <2>1, <3>2, <3>3
    <2> QED
      BY <1>2, <2>2, <2>3
  <1>4. CASE ending.kind = "exit"
    <2>1. ending.n \in 0..255
      BY <1>1, <1>4
    <2>2. ExitCode = ending.n
      BY <1>2, <1>4 DEF ExitCode, LauncherStatus
    <2>3. ~(ExitCode < 0) /\ ~(isolated /\ ExitCode \in 129..192)
      BY <1>4, <2>1, <2>2
    <2>4. Sig = 0
      BY <2>3, Zenon DEF Sig
    <2> QED
      BY <1>4, <2>1, <2>2, <2>4
  <1> QED
    BY <1>1, <1>3, <1>4

\* The verdict is the one for the end the kernel saw.
LEMMA InvVerdict == CaseInv => VerdictTellsTheEnding
  <1> SUFFICES ASSUME CaseInv, Returned, forced = "none", ~output_exceeded,
                      ~(isolated /\ ending.kind = "exit" /\ ending.n \in 129..192)
               PROVE  status = EndingStatus(ending)
    BY DEF VerdictTellsTheEnding
  <1>1. Judged
    BY DEF Returned, Judged
  <1>2. status = CaseStatus
    BY <1>1 DEF CaseInv, VerdictInv
  <1>3. ending # Alive /\ ending # Killed /\ CaseTypeOK /\ large \in BOOLEAN
    BY <1>1 DEF CaseInv, CaseTypeOK, ProcInv, Returned
  <1>4. \/ ending.kind = "signal" /\ ending.n \in 1..64 /\ Sig = ending.n
        \/ ending.kind = "exit" /\ ending.n \in Nat /\ Sig = 0 /\ ExitCode = ending.n
    BY <1>3, SigTells
  <1>5. CASE ending.kind = "signal" /\ ending.n \in 1..64 /\ Sig = ending.n
    <2>1. Sig # 0
      BY <1>5
    <2>2. CaseStatus = SignalStatus
      BY <2>1 DEF CaseStatus
    <2>3. CASE ending.n = SIGXFSZ
      BY <1>2, <1>5, <2>2, <2>3 DEF SignalStatus, EndingStatus, SIGXFSZ, SIGKILL, SIGSEGV, SIGXCPU
    <2>4. CASE ending.n \in {SIGKILL, SIGSEGV} /\ large
      BY <1>2, <1>5, <2>2, <2>4 DEF SignalStatus, EndingStatus, SIGXFSZ, SIGKILL, SIGSEGV, SIGXCPU
    <2>5. CASE ending.n = SIGXCPU \/ (ending.n = SIGKILL /\ ~large)
      BY <1>2, <1>5, <2>2, <2>5 DEF SignalStatus, EndingStatus, SIGXFSZ, SIGKILL, SIGSEGV, SIGXCPU
    <2>6. CASE /\ ending.n # SIGXFSZ /\ ~(ending.n \in {SIGKILL, SIGSEGV} /\ large)
               /\ ~(ending.n = SIGXCPU \/ (ending.n = SIGKILL /\ ~large))
      BY <1>2, <1>5, <2>2, <2>6 DEF SignalStatus, EndingStatus, SIGXFSZ, SIGKILL, SIGSEGV, SIGXCPU
    <2> QED
      BY <2>3, <2>4, <2>5, <2>6
  <1>6. CASE ending.kind = "exit" /\ ending.n \in Nat /\ Sig = 0 /\ ExitCode = ending.n
    <2>1. CASE large
      BY <1>2, <1>6, <2>1 DEF CaseStatus, EndingStatus
    <2>2. CASE ~large /\ ending.n = 0
      BY <1>2, <1>6, <2>2 DEF CaseStatus, EndingStatus
    <2>3. CASE ~large /\ ending.n # 0
      BY <1>2, <1>6, <2>3 DEF CaseStatus, EndingStatus
    <2> QED
      BY <1>3, <2>1, <2>2, <2>3
  <1> QED
    BY <1>4, <1>5, <1>6
=============================================================================
