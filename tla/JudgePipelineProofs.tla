------------------------ MODULE JudgePipelineProofs ------------------------
(***************************************************************************)
(* The limiter amid the sessions, the client, the runner and the preview   *)
(* runs is still a JudgeLimiter -- what is proved of that holds here --,   *)
(* and its slots find their threads, for every size of pool and server.    *)
(***************************************************************************)
EXTENDS JudgePipeline, JudgeLimiterProofs

-----------------------------------------------------------------------------
(* Every step is one of the limiter, or leaves it alone *)

\* The end of a call is the end of a task, or none of the limiter's business.
LEMMA EndsIsTask ==
  ASSUME NEW c \in Calls, NEW a \in {"result", "unavailable"}, Ends(c, a)
  PROVE  [Next]_vars
  BY DEF Ends, Next, Finish

\* Each step of the pipeline is one of the limiter or a stutter of it.
LEMMA PipelineStep == [PipelineNext]_allVars => [Next]_vars
  <1> SUFFICES ASSUME [PipelineNext]_allVars
               PROVE  [Next]_vars
    OBVIOUS
  <1>1. ASSUME NEW r \in Requests, StudentStep(r)
        PROVE  [Next]_vars
    BY <1>1 DEF StudentStep, Reads, Prepared, ReadFails, SetPrep, Arrives, Resumes, Expires, Next
  <1>2. ASSUME NEW d \in Direct, DirectStep(d)
        PROVE  [Next]_vars
    BY <1>2 DEF DirectStep, Loads, Blocks, Unblocks, GivesUp, SetDirect
  <1>3. ASSUME NEW c \in Calls, ClientStep(c)
        PROVE  [Next]_vars
    BY <1>3, EndsIsTask DEF ClientStep, Posts, ConnectFails, Receives, TimesOut
  <1>4. CASE RunnerStep
    BY <1>4 DEF RunnerStep, Takes, Works, SetServer, RunnerRestarts
  <1>5. CASE AllServed \/ UNCHANGED allVars
    BY <1>5 DEF AllServed, allVars
  <1> QED
    BY <1>1, <1>2, <1>3, <1>4, <1>5 DEF PipelineNext

(***************************************************************************)
(* The limiter of the pipeline behaves as JudgeLimiter says, whatever the  *)
(* sessions, the client, the runner and the administrators do.             *)
(***************************************************************************)
THEOREM PipelineIsLimiter == PipelineSpec => Spec
  <1>1. PipelineInit => Init
    BY DEF PipelineInit
  <1> QED
    BY <1>1, PipelineStep, PTL DEF PipelineSpec, Spec

\* So its permits, its wake-ups and its rates are as proved there.
COROLLARY PipelineInv == PipelineSpec => []Inv
  BY PipelineIsLimiter, SpecInv, PTL

-----------------------------------------------------------------------------
(* Types *)

\* The variables around the limiter.
PipeTypes ==
    /\ prep \in [Requests -> {"new", "reading", "ready", "refused"}]
    /\ direct \in [Direct -> {"new", "blocked", "loaded", "done"}]
    /\ conn \in [Calls -> {"none", "open", "closed"}]
    /\ srv \in [Calls -> {"none", "waiting", "working", "ok", "error", "lost"}]
    /\ restarts \in 0..MaxRestarts

\* The end of a call, for whomever it was.
LEMMA EndsTypes ==
  ASSUME PipeTypes, NEW c \in Calls, NEW a, Ends(c, a), Closes(c)
  PROVE  PipeTypes'
  <1>1. direct' \in [Direct -> {"new", "blocked", "loaded", "done"}]
    BY DEF Ends, PipeTypes
  <1> QED
    BY <1>1 DEF Closes, PipeTypes

\* Every step keeps their types.
LEMMA PipeTypesNext ==
  ASSUME PipeTypes, [PipelineNext]_allVars
  PROVE  PipeTypes'
  <1>1. ASSUME NEW r \in Requests, StudentStep(r)
        PROVE  PipeTypes'
    <2>1. CASE Reads(r) \/ Prepared(r) \/ ReadFails(r)
      BY <2>1 DEF Reads, Prepared, ReadFails, SetPrep, PipeTypes
    <2>2. CASE Arrives(r) \/ Resumes(r) \/ Expires(r)
      BY <2>2 DEF Arrives, Resumes, Expires, pipeVars, PipeTypes
    <2> QED
      BY <1>1, <2>1, <2>2 DEF StudentStep
  <1>2. ASSUME NEW d \in Direct, DirectStep(d)
        PROVE  PipeTypes'
    BY <1>2 DEF DirectStep, Loads, Blocks, Unblocks, GivesUp, SetDirect, PipeTypes
  <1>3. ASSUME NEW c \in Calls, ClientStep(c)
        PROVE  PipeTypes'
    <2>1. CASE Posts(c)
      BY <2>1 DEF Posts, PipeTypes
    <2>2. CASE ConnectFails(c) \/ Receives(c) \/ TimesOut(c)
      BY <2>2, EndsTypes DEF ConnectFails, Receives, TimesOut
    <2> QED
      BY <1>3, <2>1, <2>2 DEF ClientStep
  <1>4. CASE RunnerStep
    <2>1. CASE RunnerRestarts
      BY <2>1, PipelineAssumption DEF RunnerRestarts, PipeTypes
    <2>2. ASSUME NEW c \in Calls, Takes(c) \/ Works(c)
          PROVE  PipeTypes'
      BY <2>2 DEF Takes, Works, SetServer, PipeTypes
    <2> QED
      BY <1>4, <2>1, <2>2 DEF RunnerStep
  <1>5. CASE AllServed \/ UNCHANGED allVars
    BY <1>5 DEF AllServed, allVars, pipeVars, PipeTypes
  <1> QED
    BY <1>1, <1>2, <1>3, <1>4, <1>5 DEF PipelineNext

(***************************************************************************)
(* The limiter, the sessions, the exchanges and the runner keep their      *)
(* types, for every number of students, administrators and restarts.       *)
(***************************************************************************)
THEOREM SpecPipelineTypeOK == PipelineSpec => []PipelineTypeOK
  <1>1. PipelineInit => PipeTypes
    BY PipelineAssumption DEF PipelineInit, PipeTypes
  <1>2. PipeTypes /\ [PipelineNext]_allVars => PipeTypes'
    BY PipeTypesNext
  <1>3. Inv /\ PipeTypes => PipelineTypeOK
    BY DEF Inv, PipeTypes, PipelineTypeOK
  <1> QED
    BY <1>1, <1>2, <1>3, PipelineInv, PTL DEF PipelineSpec

(***************************************************************************)
(* In the whole pipeline, too, nobody who waits is overtaken for a slot.   *)
(***************************************************************************)
COROLLARY PipelineNoOvertaking == PipelineSpec => NoOvertaking
  BY PipelineIsLimiter, SpecNoOvertaking, PTL

-----------------------------------------------------------------------------
(* The exchanges with the runner belong to the tasks *)

\* An exchange is open for a task that runs.
ConnInv ==
    /\ conn \in [Calls -> {"none", "open", "closed"}]
    /\ srv \in [Calls -> {"none", "waiting", "working", "ok", "error", "lost"}]
    /\ \A r \in Requests : conn[r] = "open" => stage[r] = "running"

\* The end of a call closes its exchange and leaves the other tasks running.
LEMMA EndsConn ==
  ASSUME Inv, ConnInv, NEW c \in Calls, NEW a, Ends(c, a), Closes(c)
  PROVE  ConnInv'
  <1>1. stage \in [Requests -> Stages]
    BY DEF Inv, TypeOK
  <1>2. \A x \in Requests \ {c} : stage'[x] = stage[x]
    <2>1. CASE c \in Requests /\ TaskEnds(c, a)
      BY <1>1, <2>1 DEF TaskEnds, Answer
    <2>2. CASE UNCHANGED vars
      BY <2>2 DEF vars
    <2> QED
      BY <2>1, <2>2 DEF Ends
  <1> QED
    BY <1>2 DEF ConnInv, Closes, Calls

\* No step leaves an exchange open without its task.
LEMMA ConnNext ==
  ASSUME Inv, ConnInv, [PipelineNext]_allVars
  PROVE  ConnInv'
  <1>0. stage \in [Requests -> Stages]
    BY DEF Inv, TypeOK
  <1>1. ASSUME NEW r \in Requests, StudentStep(r)
        PROVE  ConnInv'
    <2>1. CASE Reads(r) \/ Prepared(r) \/ ReadFails(r)
      BY <2>1 DEF Reads, Prepared, ReadFails, SetPrep, vars, ConnInv
    <2>2. CASE Arrives(r)
      <3>1. PICK k \in Keys :
              ArriveLimited(r, k) \/ ArriveWait(r, k) \/ ArriveQueue(r, k) \/ ArriveRun(r, k)
        BY <2>2 DEF Arrives, Arrive
      <3>2. stage[r] = "idle" /\ \E st : stage' = [stage EXCEPT ![r] = st]
        BY <3>1 DEF ArriveLimited, ArriveWait, ArriveQueue, ArriveRun, Answer
      <3> QED
        BY <1>0, <2>2, <3>2 DEF Arrives, pipeVars, ConnInv
    <2>3. CASE Resumes(r)
      <3>1. /\ stage[r] \in {"admission", "slot"}
            /\ \E st : stage' = [stage EXCEPT ![r] = st]
        BY <2>3 DEF Resumes, Resume, AdmittedQueue, AdmittedRun, QueuedRun,
                    AdmissionExpires, SlotExpires, Answer
      <3> QED
        BY <1>0, <2>3, <3>1 DEF Resumes, pipeVars, ConnInv
    <2>4. CASE Expires(r)
      BY <2>4 DEF Expires, TimerFires, pipeVars, ConnInv
    <2> QED
      BY <1>1, <2>1, <2>2, <2>3, <2>4 DEF StudentStep
  <1>2. ASSUME NEW d \in Direct, DirectStep(d)
        PROVE  ConnInv'
    BY <1>2 DEF DirectStep, Loads, Blocks, Unblocks, GivesUp, SetDirect, vars, ConnInv
  <1>3. ASSUME NEW c \in Calls, ClientStep(c)
        PROVE  ConnInv'
    <2>1. CASE Posts(c)
      BY <2>1 DEF Posts, InTask, vars, ConnInv, Calls
    <2>2. CASE ConnectFails(c) \/ Receives(c) \/ TimesOut(c)
      BY <2>2, EndsConn DEF ConnectFails, Receives, TimesOut
    <2> QED
      BY <1>3, <2>1, <2>2 DEF ClientStep
  <1>4. CASE RunnerStep
    <2>1. CASE RunnerRestarts
      BY <2>1 DEF RunnerRestarts, vars, ConnInv
    <2>2. ASSUME NEW c \in Calls, Takes(c) \/ Works(c)
          PROVE  ConnInv'
      BY <2>2 DEF Takes, Works, SetServer, vars, ConnInv
    <2> QED
      BY <1>4, <2>1, <2>2 DEF RunnerStep
  <1>5. CASE AllServed \/ UNCHANGED allVars
    BY <1>5 DEF AllServed, allVars, pipeVars, vars, ConnInv
  <1> QED
    BY <1>1, <1>2, <1>3, <1>4, <1>5 DEF PipelineNext

\* Both invariants hold throughout.
LEMMA PipelineConn == PipelineSpec => [](Inv /\ ConnInv)
  <1>1. PipelineInit => Inv /\ ConnInv
    BY InitInv DEF PipelineInit, ConnInv, Calls
  <1>2. Inv /\ ConnInv /\ [PipelineNext]_allVars => (Inv /\ ConnInv)'
    BY PipelineStep, NextInv, ConnNext
  <1> QED
    BY <1>1, <1>2, PTL DEF PipelineSpec

-----------------------------------------------------------------------------
(* Slots and threads *)

\* A request that waits has a slot, so at most the others hold a thread as well.
LEMMA OwnThreads ==
  ASSUME Inv, ConnInv, NEW r \in Requests, conn[r] = "open", srv[r] = "waiting"
  PROVE  /\ IsFiniteSet(Working \ Foreign)
         /\ Cardinality(Working \ Foreign) < MaxConcurrency
  <1> DEFINE O == Working \ Foreign
             H == Holders("slot")
  <1>1. O \subseteq H \ {r} /\ r \in H /\ H \in SUBSET Requests
    BY DEF ConnInv, Working, Foreign, Holders, Calls
  <1>2. IsFiniteSet(H) /\ Cardinality(H) \in Nat /\ Cardinality(H) <= MaxConcurrency
    <2>1. IsFiniteSet(H) /\ Cardinality(H) \in Nat
      BY <1>1, CallSets
    <2>2. permits["slot"] \in Nat /\ permits["slot"] + Cardinality(H) = MaxConcurrency
      BY DEF Inv, TypeOK, PermitsConserved, Capacity, Semaphores
    <2> QED
      BY <2>1, <2>2, LimiterAssumption
  <1>3. /\ IsFiniteSet(H \ {r}) /\ Cardinality(H \ {r}) = Cardinality(H) - 1
    BY <1>1, <1>2, FS_RemoveElement
  <1>4. IsFiniteSet(O) /\ Cardinality(O) \in Nat /\ Cardinality(O) <= Cardinality(H \ {r})
    BY <1>1, <1>3, FS_Subset, FS_CardinalityType
  <1> QED
    BY <1>2, <1>3, <1>4, LimiterAssumption

(***************************************************************************)
(* For every number of slots, threads, preview runs and restarts: a        *)
(* student's request with a slot is without a thread only when more of     *)
(* them than the slots leave over are held by previews, verifications and  *)
(* jobs nobody waits for any more.                                         *)
(***************************************************************************)
THEOREM SpecSlotHasThread == PipelineSpec => []SlotHasThread
  <1>1. Inv /\ ConnInv => SlotHasThread
    <2> SUFFICES ASSUME Inv, ConnInv, NEW r \in Requests, conn[r] = "open", srv[r] = "waiting",
                        Cardinality(Working) >= Threads
                 PROVE  Cardinality(Foreign) > Threads - MaxConcurrency
      BY DEF SlotHasThread
    <2>1. /\ IsFiniteSet(Working) /\ IsFiniteSet(Foreign)
          /\ Cardinality(Working) \in Nat /\ Cardinality(Foreign) \in Nat
      <3>1. IsFiniteSet(Calls)
        BY LimiterAssumption, PipelineAssumption, FS_Union DEF Calls
      <3>2. Working \subseteq Calls /\ Foreign \subseteq Calls
        BY DEF Working, Foreign
      <3> QED
        BY <3>1, <3>2, FS_Subset, FS_CardinalityType
    <2>2. IsFiniteSet(Working \ Foreign) /\ Cardinality(Working \ Foreign) < MaxConcurrency
      BY OwnThreads
    <2>3. Cardinality(Working) = Cardinality(Working \ Foreign) + Cardinality(Foreign)
      <3>1. Working = (Working \ Foreign) \cup Foreign /\ (Working \ Foreign) \cap Foreign = {}
        BY DEF Foreign
      <3>2. Cardinality((Working \ Foreign) \cap Foreign) = 0
        BY <3>1, FS_EmptySet
      <3>3. Cardinality((Working \ Foreign) \cup Foreign)
              = Cardinality(Working \ Foreign) + Cardinality(Foreign)
                  - Cardinality((Working \ Foreign) \cap Foreign)
        BY <2>1, <2>2, FS_Union
      <3>4. Cardinality(Working \ Foreign) \in Nat
        BY <2>2, FS_CardinalityType
      <3>5. Cardinality(Working) = Cardinality((Working \ Foreign) \cup Foreign)
        BY <3>1, Zenon
      <3> QED
        BY <2>1, <3>2, <3>3, <3>4, <3>5
    <2>4. Cardinality(Working \ Foreign) \in Nat
      BY <2>2, FS_CardinalityType
    <2> QED
      BY <2>1, <2>2, <2>3, <2>4, LimiterAssumption, PipelineAssumption
  <1> QED
    BY <1>1, PipelineConn, PTL
=============================================================================
