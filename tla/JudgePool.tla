------------------------------ MODULE JudgePool ------------------------------
(***************************************************************************)
(* What a JudgeLimiter promises to the callers of run(), without queues,   *)
(* futures, timers or the rate window: a request is answered exactly once, *)
(* at most MaxConcurrency tasks run at a time, at most MaxConcurrency +    *)
(* QueueSize requests are inside, a task's answer is only given to a       *)
(* request whose task ran.                                                 *)
(***************************************************************************)
EXTENDS Integers, FiniteSets

CONSTANTS Requests,        \* the calls of JudgeLimiter.run
          MaxConcurrency,  \* max_concurrency
          QueueSize        \* queue_size

TaskAnswers   == {"result", "unavailable"}        \* of a task that ran
RefuseAnswers == {"limited", "full"}              \* of a request never admitted
Answers       == TaskAnswers \cup RefuseAnswers \cup {"busy"}

VARIABLES phase,    \* "new", "queued", "running" or "answered"
          outcome   \* the answer of every request, "none" before it has one

poolVars == <<phase, outcome>>

In(p) == {r \in Requests : phase[r] = p}
Inside == In("queued") \cup In("running")

Init ==
    /\ phase = [r \in Requests |-> "new"]
    /\ outcome = [r \in Requests |-> "none"]

Goto(r, p) ==
    /\ phase' = [phase EXCEPT ![r] = p]
    /\ UNCHANGED outcome

Answer(r, a) ==
    /\ phase' = [phase EXCEPT ![r] = "answered"]
    /\ outcome' = [outcome EXCEPT ![r] = a]

\* A request takes one of the places of the pool.
Enter(r) ==
    /\ phase[r] = "new"
    /\ Cardinality(Inside) < MaxConcurrency + QueueSize
    /\ Goto(r, "queued")

\* Its task starts, at once when it enters or after a time in the queue.
Start(r) ==
    /\ phase[r] \in {"new", "queued"}
    /\ phase[r] = "new" => Cardinality(Inside) < MaxConcurrency + QueueSize
    /\ Cardinality(In("running")) < MaxConcurrency
    /\ Goto(r, "running")

Refuse(r) ==
    /\ phase[r] = "new"
    /\ \E a \in RefuseAnswers : Answer(r, a)

GiveUp(r) ==
    /\ phase[r] = "queued"
    /\ Answer(r, "busy")

Finish(r) ==
    /\ phase[r] = "running"
    /\ \E a \in TaskAnswers : Answer(r, a)

Next == \E r \in Requests :
    Enter(r) \/ Start(r) \/ Refuse(r) \/ GiveUp(r) \/ Finish(r)

Spec == Init /\ [][Next]_poolVars
=============================================================================
