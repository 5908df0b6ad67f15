----------------------------- MODULE RateWindow -----------------------------
(***************************************************************************)
(* The sliding-window rate limit of a JudgeLimiter                         *)
(* (backend/app/services/rate_limit.py, _check_rate): for every key (a     *)
(* client address, or "admin:" and a user name) a deque of the times at    *)
(* which a request was accepted.  The asyncio lock around the window is    *)
(* never contended, because nothing is awaited while it is held, so a      *)
(* check is one atomic step.                                               *)
(***************************************************************************)
EXTENDS Integers, Sequences

CONSTANTS Keys,           \* the rate-limit keys
          RatePerMinute,  \* rate_per_minute; the settings accept any integer
          Window,         \* the literal 60 of the code
          MaxTime         \* bound on the clock, for TLC

ASSUME RateAssumption ==
    /\ RatePerMinute \in Int
    /\ Window \in Nat
    /\ MaxTime \in Nat

VARIABLES now,   \* time.monotonic(), in the unit of Window
          hits,  \* _hits: the deque of accepted times of every key
          log    \* history: every accepted time of every key, for the properties

rateVars == <<now, hits, log>>

RateTypeOK ==
    /\ now \in 0..MaxTime
    /\ hits \in [Keys -> Seq(0..MaxTime)]
    /\ log \in [Keys -> Seq(0..MaxTime)]

RateInit ==
    /\ now = 0
    /\ hits = [k \in Keys |-> <<>>]
    /\ log = [k \in Keys |-> <<>>]

-----------------------------------------------------------------------------

\* Mutant of Stale: an entry exactly Window old is dropped.
StaleTooEarly(t) == now - t >= Window

\* now - q[0] > 60
Stale(t) == now - t > Window

\* q without its first d entries
DropFirst(q, d) == SubSeq(q, d + 1, Len(q))

\* while q and now - q[0] > 60: q.popleft() -- pops exactly d entries
PopsStale(q, d) ==
    /\ d \in 0..Len(q)
    /\ \A i \in 1..d : Stale(q[i])
    /\ d < Len(q) => ~Stale(q[d + 1])

\* The window has room: the popped deque gets the new time.
AcceptHit(k) ==
    \E d \in 0..Len(hits[k]) :
        /\ PopsStale(hits[k], d)
        /\ Len(hits[k]) - d < RatePerMinute
        /\ hits' = [hits EXCEPT ![k] = Append(DropFirst(@, d), now)]
        /\ log' = [log EXCEPT ![k] = Append(@, now)]
        /\ UNCHANGED now

\* The window is full: 429, after the stale entries were popped.
RefuseHit(k) ==
    \E d \in 0..Len(hits[k]) :
        /\ PopsStale(hits[k], d)
        /\ Len(hits[k]) - d >= RatePerMinute
        /\ hits' = [hits EXCEPT ![k] = DropFirst(@, d)]
        /\ UNCHANGED <<now, log>>

Tick ==
    /\ now < MaxTime
    /\ now' = now + 1
    /\ UNCHANGED <<hits, log>>

-----------------------------------------------------------------------------

(***************************************************************************)
(* RateBound: whatever the arrivals, no Window holds more than             *)
(* RatePerMinute accepted requests of one key -- an accepted request and   *)
(* the RatePerMinute-th one after it are more than Window apart.  It is    *)
(* about popleft dropping only entries that can no longer matter.          *)
(***************************************************************************)
RateBound ==
    \A k \in Keys : \A i, j \in 1..Len(log[k]) :
        j >= i + RatePerMinute => log[k][j] - log[k][i] > Window

(***************************************************************************)
(* The inductive form: the deque of a key is the log without a prefix, and *)
(* that prefix is stale.                                                   *)
(***************************************************************************)
RecentFrom(k, d) ==
    /\ Len(hits[k]) = Len(log[k]) - d
    /\ \A i \in 1..Len(hits[k]) : hits[k][i] = log[k][d + i]
    /\ \A i \in 1..d : Stale(log[k][i])

DequeIsRecentLog == \A k \in Keys : \E d \in 0..Len(log[k]) : RecentFrom(k, d)

RateInv == RateTypeOK /\ DequeIsRecentLog /\ RateBound
=============================================================================
