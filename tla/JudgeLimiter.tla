---------------------------- MODULE JudgeLimiter ----------------------------
(***************************************************************************)
(* The judge limiter of the backend                                        *)
(* (backend/app/services/rate_limit.py, JudgeLimiter): a rate window, an   *)
(* admission semaphore that bounds the requests inside, and an execution   *)
(* semaphore that bounds the requests at the runner.  Both are             *)
(* asyncio.Semaphores acquired under asyncio.wait_for.                     *)
(*                                                                         *)
(* The event loop runs a coroutine without interruption from one           *)
(* suspension to the next, so an action is everything a call of run()      *)
(* does between two suspensions.  The suspensions are: the future of a     *)
(* contended acquire(), and the task itself.  An acquire() that finds a    *)
(* free permit and no waiter does not suspend.                             *)
(***************************************************************************)
EXTENDS RateWindow, FiniteSets, SequencesExt

CONSTANTS Requests,        \* the calls of run()
          MaxConcurrency,  \* max_concurrency
          QueueSize        \* queue_size

ASSUME LimiterAssumption ==
    /\ IsFiniteSet(Requests)
    /\ MaxConcurrency \in Nat
    /\ QueueSize \in Nat

VARIABLES
    stage,    \* where a call is: not yet made, waiting for a permit of a
              \* semaphore, inside its task, answered
    fut,      \* the future a waiting call is suspended on: "pending";
              \* "granted": it has its permit but did not run yet;
              \* "cancelled": its timer fired first; "revoked": its timer
              \* fired after the grant and before the call ran
    permits,  \* Semaphore._value of both semaphores
    waiters,  \* Semaphore._waiters of both semaphores
    answer    \* the answer of a call, "none" before it has one

vars == <<now, hits, log, stage, fut, permits, waiters, answer>>

Semaphores == {"admission", "slot"}
Stages     == {"idle", "admission", "slot", "running", "done"}
Futures    == {"none", "pending", "granted", "cancelled", "revoked"}
Answers    == {"limited", "full", "busy", "result", "unavailable"}

\* Admission covers running and queued jobs, the slots only running ones.
Capacity(s) == IF s = "admission" THEN MaxConcurrency + QueueSize
                                  ELSE MaxConcurrency

TypeOK ==
    /\ RateTypeOK
    /\ stage \in [Requests -> Stages]
    /\ fut \in [Requests -> Futures]
    /\ permits \in [Semaphores -> Nat]
    /\ waiters \in [Semaphores -> Seq(Requests)]
    /\ answer \in [Requests -> Answers \cup {"none"}]

Init ==
    /\ RateInit
    /\ stage = [r \in Requests |-> "idle"]
    /\ fut = [r \in Requests |-> "none"]
    /\ permits = [s \in Semaphores |-> Capacity(s)]
    /\ waiters = [s \in Semaphores |-> <<>>]
    /\ answer = [r \in Requests |-> "none"]

-----------------------------------------------------------------------------
(* asyncio.Semaphore *)

Waiting(s) == {r \in Requests : stage[r] = s}
Pending(s) == {r \in Waiting(s) : fut[r] = "pending"}

\* Semaphore.locked(): no permit, or somebody waits who was not cancelled.
Locked(s) == permits[s] = 0 \/ \E r \in Waiting(s) : fut[r] # "cancelled"

\* a stands before b in the deque of s
Before(s, a, b) ==
    \E i, j \in DOMAIN waiters[s] :
        i < j /\ waiters[s][i] = a /\ waiters[s][j] = b

\* n calls of _wake_up_next grant W: the first n pending futures, or all.
WakesFirst(s, W, n) ==
    /\ W \subseteq Pending(s)
    /\ Cardinality(W) <= n
    /\ Cardinality(W) < n => W = Pending(s)
    /\ \A w \in W : \A p \in Pending(s) \ W : Before(s, w, p)

\* The deque of s after the call r took itself out.
Without(s, r) ==
    {RemoveAt(waiters[s], i) : i \in {j \in DOMAIN waiters[s] : waiters[s][j] = r}}

\* The futures after those of W were granted and r moved on to f.
Granting(W, r, f) ==
    [x \in Requests |-> IF x = r THEN f ELSE IF x \in W THEN "granted" ELSE fut[x]]

-----------------------------------------------------------------------------
(* JudgeLimiter.run *)

\* r leaves run() with an answer.
Answer(r, a) ==
    /\ stage' = [stage EXCEPT ![r] = "done"]
    /\ answer' = [answer EXCEPT ![r] = a]

\* _check_rate raises 429.
ArriveLimited(r, k) ==
    /\ stage[r] = "idle"
    /\ RefuseHit(k)
    /\ Answer(r, "limited")
    /\ UNCHANGED <<fut, permits, waiters>>

\* No place inside: the call suspends on the admission semaphore.
ArriveWait(r, k) ==
    /\ stage[r] = "idle"
    /\ AcceptHit(k)
    /\ Locked("admission")
    /\ stage' = [stage EXCEPT ![r] = "admission"]
    /\ fut' = [fut EXCEPT ![r] = "pending"]
    /\ waiters' = [waiters EXCEPT !["admission"] = Append(@, r)]
    /\ UNCHANGED <<permits, answer>>

\* A place but no slot: the call suspends on the execution semaphore.
ArriveQueue(r, k) ==
    /\ stage[r] = "idle"
    /\ AcceptHit(k)
    /\ ~Locked("admission")
    /\ Locked("slot")
    /\ stage' = [stage EXCEPT ![r] = "slot"]
    /\ fut' = [fut EXCEPT ![r] = "pending"]
    /\ permits' = [permits EXCEPT !["admission"] = @ - 1]
    /\ waiters' = [waiters EXCEPT !["slot"] = Append(@, r)]
    /\ UNCHANGED answer

\* Mutant of ArriveRun: the slot is taken without looking whether one is free.
ArriveRunUnchecked(r, k) ==
    /\ stage[r] = "idle"
    /\ AcceptHit(k)
    /\ ~Locked("admission")
    /\ stage' = [stage EXCEPT ![r] = "running"]
    /\ permits' = [s \in Semaphores |-> permits[s] - 1]
    /\ UNCHANGED <<fut, waiters, answer>>

\* A place and a slot: the call runs up to the await of its task.
ArriveRun(r, k) ==
    /\ stage[r] = "idle"
    /\ AcceptHit(k)
    /\ ~Locked("admission")
    /\ ~Locked("slot")
    /\ stage' = [stage EXCEPT ![r] = "running"]
    /\ permits' = [s \in Semaphores |-> permits[s] - 1]
    /\ UNCHANGED <<fut, waiters, answer>>

\* An admitted call resumes, wakes those the free permits allow and finds
\* no slot.
AdmittedQueue(r) ==
    /\ stage[r] = "admission" /\ fut[r] = "granted"
    /\ Locked("slot")
    /\ \E q \in Without("admission", r), W \in SUBSET Pending("admission") :
        /\ WakesFirst("admission", W, permits["admission"])
        /\ fut' = Granting(W, r, "pending")
        /\ permits' = [permits EXCEPT !["admission"] = @ - Cardinality(W)]
        /\ waiters' = [waiters EXCEPT !["admission"] = q,
                                      !["slot"] = Append(@, r)]
    /\ stage' = [stage EXCEPT ![r] = "slot"]
    /\ UNCHANGED <<answer, rateVars>>

\* An admitted call resumes and finds a slot.
AdmittedRun(r) ==
    /\ stage[r] = "admission" /\ fut[r] = "granted"
    /\ ~Locked("slot")
    /\ \E q \in Without("admission", r), W \in SUBSET Pending("admission") :
        /\ WakesFirst("admission", W, permits["admission"])
        /\ fut' = Granting(W, r, "none")
        /\ permits' = [permits EXCEPT !["admission"] = @ - Cardinality(W),
                                      !["slot"] = @ - 1]
        /\ waiters' = [waiters EXCEPT !["admission"] = q]
    /\ stage' = [stage EXCEPT ![r] = "running"]
    /\ UNCHANGED <<answer, rateVars>>

\* Mutant of QueuedRun: the place inside is released when the slot is taken.
QueuedRunReleasing(r) ==
    /\ stage[r] = "slot" /\ fut[r] = "granted"
    /\ \E q \in Without("slot", r), W \in SUBSET Pending("slot"),
          V \in SUBSET Pending("admission") :
        /\ WakesFirst("slot", W, permits["slot"])
        /\ WakesFirst("admission", V, 1)
        /\ fut' = Granting(W \cup V, r, "none")
        /\ permits' = [permits EXCEPT !["slot"] = @ - Cardinality(W),
                                      !["admission"] = @ + 1 - Cardinality(V)]
        /\ waiters' = [waiters EXCEPT !["slot"] = q]
    /\ stage' = [stage EXCEPT ![r] = "running"]
    /\ UNCHANGED <<answer, rateVars>>

\* A queued call got its slot and resumes.
QueuedRun(r) ==
    /\ stage[r] = "slot" /\ fut[r] = "granted"
    /\ \E q \in Without("slot", r), W \in SUBSET Pending("slot") :
        /\ WakesFirst("slot", W, permits["slot"])
        /\ fut' = Granting(W, r, "none")
        /\ permits' = [permits EXCEPT !["slot"] = @ - Cardinality(W)]
        /\ waiters' = [waiters EXCEPT !["slot"] = q]
    /\ stage' = [stage EXCEPT ![r] = "running"]
    /\ UNCHANGED <<answer, rateVars>>

\* The timer of wait_for (1 s for a place, 180 s for a slot) fires.
TimerFires(r) ==
    /\ stage[r] \in Semaphores
    /\ \/ fut[r] = "pending" /\ fut' = [fut EXCEPT ![r] = "cancelled"]
       \/ fut[r] = "granted" /\ fut' = [fut EXCEPT ![r] = "revoked"]
    /\ UNCHANGED <<stage, permits, waiters, answer, rateVars>>

\* The permits of s once the cancelled call r gave back one it was granted.
GivenBack(s, r) == permits[s] + (IF fut[r] = "revoked" THEN 1 ELSE 0)

\* Mutant of AdmissionExpires: the wake loop is skipped on the way out.
AdmissionExpiresSilently(r) ==
    /\ stage[r] = "admission" /\ fut[r] \in {"cancelled", "revoked"}
    /\ \E q \in Without("admission", r) :
        waiters' = [waiters EXCEPT !["admission"] = q]
    /\ fut' = [fut EXCEPT ![r] = "none"]
    /\ permits' = [permits EXCEPT !["admission"] = GivenBack("admission", r)]
    /\ Answer(r, "full")
    /\ UNCHANGED rateVars

\* A call whose admission timed out resumes: 503.
AdmissionExpires(r) ==
    /\ stage[r] = "admission" /\ fut[r] \in {"cancelled", "revoked"}
    /\ \E q \in Without("admission", r), W \in SUBSET Pending("admission") :
        /\ WakesFirst("admission", W, GivenBack("admission", r))
        /\ fut' = Granting(W, r, "none")
        /\ permits' = [permits EXCEPT !["admission"] =
                            GivenBack("admission", r) - Cardinality(W)]
        /\ waiters' = [waiters EXCEPT !["admission"] = q]
    /\ Answer(r, "full")
    /\ UNCHANGED rateVars

\* Mutant of SlotExpires: the place inside is not released.
SlotExpiresKeepingPlace(r) ==
    /\ stage[r] = "slot" /\ fut[r] \in {"cancelled", "revoked"}
    /\ \E q \in Without("slot", r), W \in SUBSET Pending("slot") :
        /\ WakesFirst("slot", W, GivenBack("slot", r))
        /\ fut' = Granting(W, r, "none")
        /\ permits' = [permits EXCEPT !["slot"] = GivenBack("slot", r) - Cardinality(W)]
        /\ waiters' = [waiters EXCEPT !["slot"] = q]
    /\ Answer(r, "busy")
    /\ UNCHANGED rateVars

\* A call whose wait for a slot timed out resumes: 503, and its place is
\* released on the way out.
SlotExpires(r) ==
    /\ stage[r] = "slot" /\ fut[r] \in {"cancelled", "revoked"}
    /\ \E q \in Without("slot", r), W \in SUBSET Pending("slot"),
          V \in SUBSET Pending("admission") :
        /\ WakesFirst("slot", W, GivenBack("slot", r))
        /\ WakesFirst("admission", V, 1)
        /\ fut' = Granting(W \cup V, r, "none")
        /\ permits' = [permits EXCEPT
                !["slot"] = GivenBack("slot", r) - Cardinality(W),
                !["admission"] = @ + 1 - Cardinality(V)]
        /\ waiters' = [waiters EXCEPT !["slot"] = q]
    /\ Answer(r, "busy")
    /\ UNCHANGED rateVars

\* Mutant of TaskEnds: the place inside is released, the slot is not.
TaskEndsKeepingSlot(r, a) ==
    /\ stage[r] = "running"
    /\ \E V \in SUBSET Pending("admission") :
        /\ WakesFirst("admission", V, 1)
        /\ fut' = Granting(V, r, "none")
        /\ permits' = [permits EXCEPT !["admission"] = @ + 1 - Cardinality(V)]
    /\ Answer(r, a)
    /\ UNCHANGED <<waiters, rateVars>>

\* The task ends, with a result or a RunnerUnavailable: both semaphores are
\* released, the first pending waiter of each is granted the permit.
TaskEnds(r, a) ==
    /\ stage[r] = "running"
    /\ \E W \in SUBSET Pending("slot"), V \in SUBSET Pending("admission") :
        /\ WakesFirst("slot", W, 1)
        /\ WakesFirst("admission", V, 1)
        /\ fut' = Granting(W \cup V, r, "none")
        /\ permits' = [permits EXCEPT
                !["slot"] = @ + 1 - Cardinality(W),
                !["admission"] = @ + 1 - Cardinality(V)]
    /\ Answer(r, a)
    /\ UNCHANGED <<waiters, rateVars>>

Arrive(r) == \E k \in Keys :
    ArriveLimited(r, k) \/ ArriveWait(r, k) \/ ArriveQueue(r, k) \/ ArriveRun(r, k)

Resume(r) == AdmittedQueue(r) \/ AdmittedRun(r) \/ QueuedRun(r)
                \/ AdmissionExpires(r) \/ SlotExpires(r)

Finish(r) == \E a \in {"result", "unavailable"} : TaskEnds(r, a)

TimePasses == Tick /\ UNCHANGED <<stage, fut, permits, waiters, answer>>

\* Every call was answered and the clock is at its bound.
AllAnswered ==
    /\ \A r \in Requests : stage[r] = "done"
    /\ now = MaxTime
    /\ UNCHANGED vars

Next ==
    \/ \E r \in Requests : Arrive(r) \/ Resume(r) \/ TimerFires(r) \/ Finish(r)
    \/ TimePasses
    \/ AllAnswered

Spec == Init /\ [][Next]_vars

(***************************************************************************)
(* The event loop runs every coroutine whose future is done, and a task    *)
(* ends because every read of the HTTP client is under a 180 s timeout.    *)
(* Nothing is assumed of the timers: a request must not depend on one.     *)
(***************************************************************************)
FairSpec == Spec /\ \A r \in Requests : WF_vars(Resume(r)) /\ WF_vars(Finish(r))

-----------------------------------------------------------------------------
(* Properties *)

\* The calls that hold a permit: granted and not yet given back.
Holders(s) ==
    IF s = "slot"
    THEN {r \in Requests : \/ stage[r] = "running"
                           \/ stage[r] = "slot" /\ fut[r] \in {"granted", "revoked"}}
    ELSE {r \in Requests : \/ stage[r] \in {"slot", "running"}
                           \/ stage[r] = "admission" /\ fut[r] \in {"granted", "revoked"}}

(***************************************************************************)
(* PermitsConserved: no permit is lost or invented -- the free permits of  *)
(* a semaphore and the calls that hold one add up to its capacity, through *)
(* every grant that races with a timer and every exit of run().  With it   *)
(* BoundedSemaphore.release never raises.                                  *)
(***************************************************************************)
PermitsConserved ==
    \A s \in Semaphores : permits[s] + Cardinality(Holders(s)) = Capacity(s)

(***************************************************************************)
(* NoLostWakeup: a free permit and a waiting call exist together only      *)
(* while some other call that was woken or cancelled is about to resume    *)
(* and hand the permit on; it is about the wake loop of acquire().         *)
(***************************************************************************)
NoLostWakeup ==
    \A s \in Semaphores :
        permits[s] > 0 /\ Pending(s) # {} => \E r \in Waiting(s) : fut[r] # "pending"

(***************************************************************************)
(* NoOvertaking: no call starts its task while a call that stood before it *)
(* in the queue for a slot -- or stood there at all when the starting call *)
(* was not queued -- is still waiting for one.                             *)
(***************************************************************************)
NoOvertaking ==
    [][\A b \in Requests : stage[b] # "running" /\ stage'[b] = "running" =>
          \A a \in Pending("slot") : stage[b] = "slot" /\ Before("slot", b, a)]_vars

(***************************************************************************)
(* EveryCallAnswered: a call of run() that was made ends, although none of *)
(* the two timers need ever fire; so a permit that becomes free always     *)
(* reaches a waiting call in the end.                                      *)
(***************************************************************************)
EveryCallAnswered ==
    \A r \in Requests : stage[r] # "idle" ~> stage[r] = "done"

(***************************************************************************)
(* The limiter implements JudgePool.  A call that waits for admission, or  *)
(* was granted it and did not resume yet, is still outside the pool.       *)
(***************************************************************************)
PhaseOf(st) ==
    CASE st \in {"idle", "admission"} -> "new"
      [] st = "slot"    -> "queued"
      [] st = "running" -> "running"
      [] st = "done"    -> "answered"

Pool == INSTANCE JudgePool WITH phase <- [r \in Requests |-> PhaseOf(stage[r])],
                                outcome <- answer

(***************************************************************************)
(* ImplementsPool: every behaviour of the limiter is one of JudgePool: at  *)
(* most max_concurrency tasks run, at most max_concurrency + queue_size    *)
(* requests are inside, and every request is answered at most once.        *)
(***************************************************************************)
ImplementsPool == Pool!Spec
=============================================================================
