---------------------------- MODULE JudgePipeline ----------------------------
(***************************************************************************)
(* A judge request on its whole way: the database session in which it is   *)
(* prepared, JudgeLimiter, the HTTP client with its timeouts, the worker   *)
(* threads of the runner and back (backend/app/api/public.py,              *)
(* services/public.py, services/runner_client.py; runner/app/main.py) --   *)
(* beside the administrators' preview runs and verifications               *)
(* (services/admin.py), which reach the runner without this limiter and    *)
(* keep their session and its connection until the answer.                 *)
(*                                                                         *)
(* Limiter, client and the administrators' handlers run on the event loop; *)
(* a handler that waits for a database connection there stops it.          *)
(***************************************************************************)
EXTENDS JudgeLimiter

CONSTANTS Direct,      \* the administrators' preview runs and verifications
          PoolSize,    \* connections of the engine's pool, overflow included
          Threads,     \* worker threads of the runner
          MaxRestarts  \* bound on the restarts of the runner, for TLC

ASSUME PipelineAssumption ==
    /\ IsFiniteSet(Direct) /\ Direct \cap Requests = {}
    /\ PoolSize \in Nat /\ Threads \in Nat /\ MaxRestarts \in Nat

VARIABLES
    prep,     \* a student's request before the limiter
    direct,   \* an administrator's request
    conn,     \* the client's exchange with the runner
    srv,      \* the same exchange at the runner
    restarts  \* of the runner

pipeVars == <<prep, direct, conn, srv, restarts>>
allVars  == <<vars, pipeVars>>

Calls == Requests \cup Direct

PipelineTypeOK ==
    /\ TypeOK
    /\ prep \in [Requests -> {"new", "reading", "ready", "refused"}]
    /\ direct \in [Direct -> {"new", "blocked", "loaded", "done"}]
    /\ conn \in [Calls -> {"none", "open", "closed"}]
    /\ srv \in [Calls -> {"none", "waiting", "working", "ok", "error", "lost"}]
    /\ restarts \in 0..MaxRestarts

PipelineInit ==
    /\ Init
    /\ prep = [r \in Requests |-> "new"]
    /\ direct = [d \in Direct |-> "new"]
    /\ conn = [c \in Calls |-> "none"]
    /\ srv = [c \in Calls |-> "none"]
    /\ restarts = 0

-----------------------------------------------------------------------------
(* The database connections *)

Held == {r \in Requests : prep[r] = "reading"} \cup {d \in Direct : direct[d] = "loaded"}

Exhausted == Cardinality(Held) >= PoolSize

\* A handler that waits for a connection on the event loop stops it.
LoopFree == \A d \in Direct : direct[d] # "blocked"

SetPrep(r, p) ==
    /\ prep' = [prep EXCEPT ![r] = p]
    /\ UNCHANGED <<vars, direct, conn, srv, restarts>>

SetDirect(d, p) ==
    /\ direct' = [direct EXCEPT ![d] = p]
    /\ UNCHANGED <<vars, prep, conn, srv, restarts>>

\* _prepare_with_db, in a worker thread of the backend.
Reads(r) == prep[r] = "new" /\ ~Exhausted /\ SetPrep(r, "reading")

\* Its session is closed before the request is queued, or it was turned down.
Prepared(r) == prep[r] = "reading" /\ \E p \in {"ready", "refused"} : SetPrep(r, p)

\* The pool gives up on the thread.
ReadFails(r) == prep[r] = "new" /\ Exhausted /\ SetPrep(r, "refused")

\* A preview run or a verification loads its problem on the event loop ...
Loads(d) ==
    /\ direct[d] = "new" /\ LoopFree /\ ~Exhausted
    /\ \E p \in {"loaded", "done"} : SetDirect(d, p)   \* or is turned down

\* ... and waits there for a connection.
Blocks(d) == direct[d] = "new" /\ LoopFree /\ Exhausted /\ SetDirect(d, "blocked")

Unblocks(d) == direct[d] = "blocked" /\ ~Exhausted /\ SetDirect(d, "loaded")

\* Mutant of GivesUp: the pool has no timeout.
GivesUpNever(d) == direct[d] = "blocked" /\ ~Exhausted /\ SetDirect(d, "done")

\* The pool's timeout: 500.
GivesUp(d) == direct[d] = "blocked" /\ SetDirect(d, "done")

-----------------------------------------------------------------------------
(* The limiter, on the event loop *)

Arrives(r) == prep[r] = "ready" /\ LoopFree /\ Arrive(r) /\ UNCHANGED pipeVars

Resumes(r) == LoopFree /\ Resume(r) /\ UNCHANGED pipeVars

Expires(r) == LoopFree /\ TimerFires(r) /\ UNCHANGED pipeVars

-----------------------------------------------------------------------------
(* call_runner *)

\* The task of a student's request, or an administrator's handler.
InTask(c) == IF c \in Requests THEN stage[c] = "running" ELSE direct[c] = "loaded"

\* Mutant of Ends: the exception of the client skips the limiter's finally.
EndsSkipping(c, a) ==
    \/ c \in Requests /\ a = "unavailable" /\ TaskEndsKeepingSlot(c, a) /\ UNCHANGED direct
    \/ c \in Requests /\ a = "result" /\ TaskEnds(c, a) /\ UNCHANGED direct
    \/ c \in Direct /\ direct' = [direct EXCEPT ![c] = "done"] /\ UNCHANGED vars

\* call_runner returns or raises RunnerUnavailable; the caller goes on.
Ends(c, a) ==
    \/ c \in Requests /\ TaskEnds(c, a) /\ UNCHANGED direct
    \/ c \in Direct /\ direct' = [direct EXCEPT ![c] = "done"] /\ UNCHANGED vars

Closes(c) ==
    /\ conn' = [conn EXCEPT ![c] = "closed"]
    /\ UNCHANGED <<prep, srv, restarts>>

Posts(c) ==
    /\ InTask(c) /\ conn[c] = "none" /\ LoopFree
    /\ conn' = [conn EXCEPT ![c] = "open"]
    /\ srv' = [srv EXCEPT ![c] = "waiting"]
    /\ UNCHANGED <<vars, prep, direct, restarts>>

\* No connection to the runner, within 5 s.
ConnectFails(c) ==
    /\ InTask(c) /\ conn[c] = "none" /\ LoopFree
    /\ Ends(c, "unavailable") /\ Closes(c)

\* A result; a status of 400 and above, or a broken connection.
Receives(c) ==
    /\ conn[c] = "open" /\ LoopFree
    /\ \/ srv[c] = "ok" /\ Ends(c, "result")
       \/ srv[c] \in {"error", "lost"} /\ Ends(c, "unavailable")
    /\ Closes(c)

\* 180 s without an answer.  The runner is not told.
TimesOut(c) ==
    /\ conn[c] = "open" /\ LoopFree
    /\ Ends(c, "unavailable") /\ Closes(c)

-----------------------------------------------------------------------------
(* The runner *)

Working == {c \in Calls : srv[c] = "working"}

SetServer(c, s) ==
    /\ srv' = [srv EXCEPT ![c] = s]
    /\ UNCHANGED <<vars, prep, direct, conn, restarts>>

\* run_code is a plain function: it waits for a thread of the server.
Takes(c) == srv[c] = "waiting" /\ Cardinality(Working) < Threads /\ SetServer(c, "working")

\* run_code ends, whoever still waits for it.
Works(c) == srv[c] = "working" /\ \E s \in {"ok", "error"} : SetServer(c, s)

\* The process ends and is started again: nothing of a job remains.
RunnerRestarts ==
    /\ restarts < MaxRestarts
    /\ restarts' = restarts + 1
    /\ srv' = [c \in Calls |-> IF srv[c] \in {"waiting", "working"} THEN "lost" ELSE srv[c]]
    /\ UNCHANGED <<vars, prep, direct, conn>>

-----------------------------------------------------------------------------

StudentStep(r) == Reads(r) \/ Prepared(r) \/ ReadFails(r)
                    \/ Arrives(r) \/ Resumes(r) \/ Expires(r)
DirectStep(d)  == Loads(d) \/ Blocks(d) \/ Unblocks(d) \/ GivesUp(d)
ClientStep(c)  == Posts(c) \/ ConnectFails(c) \/ Receives(c) \/ TimesOut(c)
RunnerStep     == (\E c \in Calls : Takes(c) \/ Works(c)) \/ RunnerRestarts

\* Everybody has his answer.
AllServed ==
    /\ \A r \in Requests : stage[r] = "done" \/ prep[r] = "refused"
    /\ \A d \in Direct : direct[d] = "done"
    /\ UNCHANGED allVars

PipelineNext ==
    \/ \E r \in Requests : StudentStep(r)
    \/ \E d \in Direct : DirectStep(d)
    \/ \E c \in Calls : ClientStep(c)
    \/ RunnerStep
    \/ AllServed

PipelineSpec == PipelineInit /\ [][PipelineNext]_allVars

(***************************************************************************)
(* The worker threads of the backend and the ready callbacks of its loop   *)
(* run, and the timeouts of the pool and of the HTTP client fire at last.  *)
(* Nothing is assumed of the runner -- it may never answer --, of the      *)
(* timers of the limiter and of the administrators.                        *)
(***************************************************************************)
FairPipelineSpec ==
    /\ PipelineSpec
    /\ \A r \in Requests :
        /\ WF_allVars(Reads(r) \/ ReadFails(r)) /\ WF_allVars(Prepared(r))
        /\ WF_allVars(Arrives(r)) /\ WF_allVars(Resumes(r))
    /\ \A d \in Direct : WF_allVars(Unblocks(d) \/ GivesUp(d))
    /\ \A c \in Calls : WF_allVars(ClientStep(c))

-----------------------------------------------------------------------------
(* Properties *)

(***************************************************************************)
(* ImplementsLimiter: session, client and runner around it keep the        *)
(* limiter a JudgeLimiter, and earn the fairness that module assumes: a    *)
(* resumed call runs and a task ends, although the runner hangs, restarts  *)
(* or goes on with jobs nobody waits for, and a handler stops the loop.    *)
(***************************************************************************)
ImplementsLimiter == FairSpec

(***************************************************************************)
(* RequestServed: a student's request that is made is answered or turned   *)
(* down, whatever the runner and the administrators do; the event loop     *)
(* never waits for ever for a connection that only the loop can give back. *)
(***************************************************************************)
RequestServed ==
    \A r \in Requests : prep[r] # "new" ~> (stage[r] = "done" \/ prep[r] = "refused")

(***************************************************************************)
(* SlotHasThread: a request with a slot of the limiter waits for a thread  *)
(* of the runner only while preview runs, verifications and jobs whose     *)
(* caller has given up hold more of the threads than those the limiter     *)
(* leaves over.  It relates the limiter's slots, the client's timeout and  *)
(* the runner's threads.                                                   *)
(***************************************************************************)
Foreign == {c \in Working : c \in Direct \/ conn[c] # "open"}

SlotHasThread ==
    (\E r \in Requests : conn[r] = "open" /\ srv[r] = "waiting")
        /\ Cardinality(Working) >= Threads
      => Cardinality(Foreign) > Threads - MaxConcurrency
=============================================================================
