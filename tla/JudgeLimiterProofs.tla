------------------------- MODULE JudgeLimiterProofs -------------------------
(***************************************************************************)
(* The limiter keeps its permits, loses no wake-up, respects the rate and  *)
(* implements JudgePool, for every finite set of calls and every capacity. *)
(***************************************************************************)
EXTENDS JudgeLimiter, RateWindowProofs, FiniteSetTheorems

Inv == TypeOK /\ RateInv /\ PermitsConserved /\ NoLostWakeup

-----------------------------------------------------------------------------
(* Lemmas on the sets of calls *)

\* Sets of calls are finite and have a natural number of elements.
LEMMA CallSets ==
  ASSUME NEW S \in SUBSET Requests
  PROVE  IsFiniteSet(S) /\ Cardinality(S) \in Nat
  BY LimiterAssumption, FS_Subset, FS_CardinalityType

\* New holders add up with the old ones.
LEMMA JoinCount ==
  ASSUME NEW H \in SUBSET Requests, NEW W \in SUBSET Requests, H \cap W = {}
  PROVE  Cardinality(H \cup W) = Cardinality(H) + Cardinality(W)
  <1>1. /\ IsFiniteSet(H) /\ IsFiniteSet(W)
        /\ Cardinality(H) \in Nat /\ Cardinality(W) \in Nat
    BY CallSets
  <1>2. Cardinality(H \cup W) =
          Cardinality(H) + Cardinality(W) - Cardinality(H \cap W)
    BY <1>1, FS_Union
  <1>3. Cardinality(H \cap W) = 0
    BY FS_EmptySet
  <1> QED BY <1>1, <1>2, <1>3

\* One holder leaves while others join.
LEMMA SwapCount ==
  ASSUME NEW H \in SUBSET Requests, NEW W \in SUBSET Requests, H \cap W = {},
         NEW r \in H
  PROVE  Cardinality((H \ {r}) \cup W) = Cardinality(H) - 1 + Cardinality(W)
  <1>1. Cardinality(H \ {r}) = Cardinality(H) - 1
    BY CallSets, FS_RemoveElement
  <1>2. (H \ {r}) \in SUBSET Requests /\ (H \ {r}) \cap W = {}
    OBVIOUS
  <1> QED BY <1>1, <1>2, JoinCount

\* The deque without one of its entries is a deque.
LEMMA WithoutType ==
  ASSUME TypeOK, NEW s \in Semaphores, NEW r \in Requests,
         NEW q \in Without(s, r)
  PROVE  q \in Seq(Requests)
  <1> DEFINE w == waiters[s]
  <1>1. PICK i \in DOMAIN w : q = RemoveAt(w, i)
    BY DEF Without
  <1>2. w \in Seq(Requests)
    BY DEF TypeOK
  <1>3. i \in 1..Len(w) /\ Len(w) \in Nat /\ \A j \in 1..Len(w) : w[j] \in Requests
    BY <1>1, <1>2
  <1> HIDE DEF w
  <1>4. SubSeq(w, 1, i - 1) \in Seq(Requests)
    <2>1. 1 \in Int /\ i - 1 \in Int /\ \A j \in 1..(i - 1) : w[j] \in Requests
      BY <1>3
    <2> QED BY <2>1, SubSeqProperties
  <1>5. SubSeq(w, i + 1, Len(w)) \in Seq(Requests)
    <2>1. i + 1 \in Int /\ Len(w) \in Int /\ \A j \in (i + 1)..Len(w) : w[j] \in Requests
      BY <1>3
    <2> QED BY <2>1, SubSeqProperties
  <1> QED BY <1>1, <1>4, <1>5, ConcatProperties DEF RemoveAt

\* What a wake of at most n calls leaves of n permits.
LEMMA WakeCount ==
  ASSUME TypeOK, NEW s \in Semaphores, NEW n \in Nat, NEW W, WakesFirst(s, W, n)
  PROVE  /\ W \in SUBSET Requests /\ W \subseteq Pending(s)
         /\ Cardinality(W) \in Nat /\ n - Cardinality(W) \in Nat
         /\ n - Cardinality(W) > 0 => W = Pending(s)
  BY CallSets DEF WakesFirst, Pending, Waiting

-----------------------------------------------------------------------------
(* Initial states *)

\* All permits are free and nobody waits.
LEMMA InitInv == Init => Inv
  <1> SUFFICES ASSUME Init PROVE Inv
    OBVIOUS
  <1> USE LimiterAssumption
  <1>1. TypeOK
    BY RateInitInv DEF Init, TypeOK, RateInv, Semaphores, Capacity, Stages, Futures
  <1>2. RateInv
    BY RateInitInv DEF Init
  <1>3. \A s \in Semaphores : Holders(s) = {} /\ Pending(s) = {}
    BY DEF Init, Holders, Pending, Waiting, Semaphores
  <1>4. PermitsConserved
    <2>1. \A s \in Semaphores : permits[s] = Capacity(s) /\ Capacity(s) \in Nat
      BY DEF Init, Capacity
    <2>2. Cardinality({}) = 0
      BY FS_EmptySet
    <2> QED BY <1>3, <2>1, <2>2 DEF PermitsConserved
  <1>5. NoLostWakeup
    BY <1>3 DEF NoLostWakeup
  <1> QED BY <1>1, <1>2, <1>4, <1>5 DEF Inv

-----------------------------------------------------------------------------
(* Steps *)

\* A step that leaves the rate window alone keeps its invariant.
LEMMA RateUnchangedInv == RateInv /\ UNCHANGED rateVars => RateInv'
  BY DEF RateInv, RateTypeOK, DequeIsRecentLog, RecentFrom, RateBound, Stale, rateVars

\* The end of a task: the caller leaves both semaphores, the first waiter of
\* each takes its permit.
LEMMA TaskEndsInv ==
  ASSUME Inv, NEW r \in Requests, NEW a \in {"result", "unavailable"},
         TaskEnds(r, a)
  PROVE  Inv'
  <1> USE DEF Inv
  <1>0. RateInv'
    BY RateUnchangedInv DEF TaskEnds
  <1>1. PICK W \in SUBSET Pending("slot"), V \in SUBSET Pending("admission") :
          /\ WakesFirst("slot", W, 1)
          /\ WakesFirst("admission", V, 1)
          /\ fut' = Granting(W \cup V, r, "none")
          /\ permits' = [permits EXCEPT
                 !["slot"] = @ + 1 - Cardinality(W),
                 !["admission"] = @ + 1 - Cardinality(V)]
    BY DEF TaskEnds
  <1>2. /\ stage[r] = "running" /\ stage' = [stage EXCEPT ![r] = "done"]
        /\ answer' = [answer EXCEPT ![r] = a] /\ UNCHANGED waiters
    BY DEF TaskEnds, Answer
  <1>3. /\ W \in SUBSET Requests /\ V \in SUBSET Requests
        /\ Cardinality(W) \in Nat /\ Cardinality(V) \in Nat
        /\ 1 - Cardinality(W) \in Nat /\ 1 - Cardinality(V) \in Nat
        /\ 1 - Cardinality(W) > 0 => W = Pending("slot")
        /\ 1 - Cardinality(V) > 0 => V = Pending("admission")
    BY <1>1, WakeCount DEF Semaphores
  <1>4. /\ permits'["slot"] = permits["slot"] + 1 - Cardinality(W)
        /\ permits'["admission"] = permits["admission"] + 1 - Cardinality(V)
        /\ permits["slot"] \in Nat /\ permits["admission"] \in Nat
    BY <1>1 DEF TypeOK, Semaphores
  <1>5. TypeOK'
    BY <1>0, <1>1, <1>2, <1>3, <1>4 DEF TypeOK, RateInv, Granting, Semaphores, Stages, Futures, Answers
  <1>6. PermitsConserved'
    <2>1. /\ Holders("slot") \in SUBSET Requests /\ r \in Holders("slot")
          /\ Holders("slot") \cap W = {}
          /\ Holders("slot")' = (Holders("slot") \ {r}) \cup W
      BY <1>1, <1>2 DEF Holders, TypeOK, Granting, Pending, Waiting
    <2>2. /\ Holders("admission") \in SUBSET Requests /\ r \in Holders("admission")
          /\ Holders("admission") \cap V = {}
          /\ Holders("admission")' = (Holders("admission") \ {r}) \cup V
      BY <1>1, <1>2 DEF Holders, TypeOK, Granting, Pending, Waiting
    <2>3. Cardinality(Holders("slot")') = Cardinality(Holders("slot")) - 1 + Cardinality(W)
      BY <2>1, <1>3, SwapCount
    <2>4. Cardinality(Holders("admission")') = Cardinality(Holders("admission")) - 1 + Cardinality(V)
      BY <2>2, <1>3, SwapCount
    <2>5. Cardinality(Holders("slot")) \in Nat /\ Cardinality(Holders("admission")) \in Nat
      BY <2>1, <2>2, CallSets
    <2> QED BY <2>3, <2>4, <2>5, <1>3, <1>4 DEF PermitsConserved, Semaphores, Capacity
  <1>7. NoLostWakeup'
    <2>1. ASSUME permits'["slot"] > 0, Pending("slot")' # {}
          PROVE  \E x \in Requests : stage'[x] = "slot" /\ fut'[x] # "pending"
      <3>1. Pending("slot")' = Pending("slot") \ W
        BY <1>1, <1>2 DEF Pending, Waiting, Granting, TypeOK
      <3>2. permits["slot"] > 0
        BY <2>1, <3>1, <1>3, <1>4
      <3>3. PICK x \in Waiting("slot") : fut[x] # "pending"
        BY <2>1, <3>1, <3>2 DEF NoLostWakeup, Semaphores
      <3> QED BY <3>3, <1>1, <1>2 DEF Waiting, Granting, TypeOK, Pending
    <2>2. ASSUME permits'["admission"] > 0, Pending("admission")' # {}
          PROVE  \E x \in Requests : stage'[x] = "admission" /\ fut'[x] # "pending"
      <3>1. Pending("admission")' = Pending("admission") \ V
        BY <1>1, <1>2 DEF Pending, Waiting, Granting, TypeOK
      <3>2. permits["admission"] > 0
        BY <2>2, <3>1, <1>3, <1>4
      <3>3. PICK x \in Waiting("admission") : fut[x] # "pending"
        BY <2>2, <3>1, <3>2 DEF NoLostWakeup, Semaphores
      <3> QED BY <3>3, <1>1, <1>2 DEF Waiting, Granting, TypeOK, Pending
    <2> QED BY <2>1, <2>2 DEF NoLostWakeup, Semaphores, Waiting
  <1> QED BY <1>0, <1>5, <1>6, <1>7

\* A call that gave up its wait for a slot leaves both semaphores as well.
LEMMA SlotExpiresInv ==
  ASSUME Inv, NEW r \in Requests, SlotExpires(r)
  PROVE  Inv'
  <1> USE DEF Inv
  <1>0. RateInv'
    BY RateUnchangedInv DEF SlotExpires
  <1> DEFINE n == GivenBack("slot", r)
  <1>1. PICK q \in Without("slot", r), W \in SUBSET Pending("slot"),
             V \in SUBSET Pending("admission") :
          /\ WakesFirst("slot", W, n)
          /\ WakesFirst("admission", V, 1)
          /\ fut' = Granting(W \cup V, r, "none")
          /\ permits' = [permits EXCEPT
                 !["slot"] = n - Cardinality(W),
                 !["admission"] = @ + 1 - Cardinality(V)]
          /\ waiters' = [waiters EXCEPT !["slot"] = q]
    BY DEF SlotExpires
  <1>2. /\ stage[r] = "slot" /\ fut[r] \in {"cancelled", "revoked"}
        /\ stage' = [stage EXCEPT ![r] = "done"]
        /\ answer' = [answer EXCEPT ![r] = "busy"]
    BY DEF SlotExpires, Answer
  <1>3. /\ permits["slot"] \in Nat /\ permits["admission"] \in Nat /\ n \in Nat
        /\ fut[r] = "revoked" => n = permits["slot"] + 1
        /\ fut[r] = "cancelled" => n = permits["slot"]
    BY <1>2 DEF TypeOK, Semaphores, GivenBack
  <1>4. /\ W \in SUBSET Requests /\ V \in SUBSET Requests
        /\ Cardinality(W) \in Nat /\ Cardinality(V) \in Nat
        /\ n - Cardinality(W) \in Nat /\ 1 - Cardinality(V) \in Nat
        /\ n - Cardinality(W) > 0 => W = Pending("slot")
        /\ 1 - Cardinality(V) > 0 => V = Pending("admission")
    BY <1>1, <1>3, WakeCount DEF Semaphores
  <1>5. /\ permits'["slot"] = n - Cardinality(W)
        /\ permits'["admission"] = permits["admission"] + 1 - Cardinality(V)
    BY <1>1 DEF TypeOK, Semaphores
  <1> HIDE DEF n
  <1>6. TypeOK'
    <2>1. q \in Seq(Requests)
      BY <1>1, WithoutType DEF Semaphores
    <2>2. waiters' \in [Semaphores -> Seq(Requests)]
      BY <2>1, <1>1 DEF TypeOK, Semaphores
    <2>3. permits' \in [Semaphores -> Nat]
      BY <1>1, <1>3, <1>4, <1>5 DEF TypeOK, Semaphores
    <2> QED
      BY <2>2, <2>3, <1>0, <1>1, <1>2
      DEF TypeOK, RateInv, Granting, Stages, Futures, Answers
  <1>7. PermitsConserved'
    <2>1. permits'["slot"] + Cardinality(Holders("slot")')
            = permits["slot"] + Cardinality(Holders("slot"))
      <3>1. CASE fut[r] = "revoked"
        <4>1. /\ Holders("slot") \in SUBSET Requests /\ r \in Holders("slot")
              /\ Holders("slot") \cap W = {}
              /\ Holders("slot")' = (Holders("slot") \ {r}) \cup W
          BY <1>1, <1>2, <3>1 DEF Holders, TypeOK, Granting, Pending, Waiting
        <4>2. /\ Cardinality(Holders("slot")') =
                   Cardinality(Holders("slot")) - 1 + Cardinality(W)
              /\ Cardinality(Holders("slot")) \in Nat
          BY <4>1, <1>4, SwapCount, CallSets
        <4> QED BY <4>2, <3>1, <1>3, <1>4, <1>5
      <3>2. CASE fut[r] = "cancelled"
        <4>1. /\ Holders("slot") \in SUBSET Requests
              /\ Holders("slot") \cap W = {}
              /\ Holders("slot")' = Holders("slot") \cup W
          BY <1>1, <1>2, <3>2 DEF Holders, TypeOK, Granting, Pending, Waiting
        <4>2. /\ Cardinality(Holders("slot")') =
                   Cardinality(Holders("slot")) + Cardinality(W)
              /\ Cardinality(Holders("slot")) \in Nat
          BY <4>1, <1>4, JoinCount, CallSets
        <4> QED BY <4>2, <3>2, <1>3, <1>4, <1>5
      <3> QED BY <3>1, <3>2, <1>2
    <2>2. permits'["admission"] + Cardinality(Holders("admission")')
            = permits["admission"] + Cardinality(Holders("admission"))
      <3>1. /\ Holders("admission") \in SUBSET Requests /\ r \in Holders("admission")
            /\ Holders("admission") \cap V = {}
            /\ Holders("admission")' = (Holders("admission") \ {r}) \cup V
        BY <1>1, <1>2 DEF Holders, TypeOK, Granting, Pending, Waiting
      <3>2. /\ Cardinality(Holders("admission")') =
                 Cardinality(Holders("admission")) - 1 + Cardinality(V)
            /\ Cardinality(Holders("admission")) \in Nat
        BY <3>1, <1>4, SwapCount, CallSets
      <3> QED BY <3>2, <1>3, <1>4, <1>5
    <2> QED BY <2>1, <2>2 DEF PermitsConserved, Semaphores, Capacity
  <1>8. NoLostWakeup'
    <2>1. ASSUME permits'["slot"] > 0 PROVE Pending("slot")' = {}
      <3>1. W = Pending("slot")
        BY <2>1, <1>4, <1>5
      <3> QED BY <3>1, <1>1, <1>2 DEF Pending, Waiting, Granting, TypeOK
    <2>2. ASSUME permits'["admission"] > 0, Pending("admission")' # {}
          PROVE  \E x \in Requests : stage'[x] = "admission" /\ fut'[x] # "pending"
      <3>1. Pending("admission")' = Pending("admission") \ V
        BY <1>1, <1>2 DEF Pending, Waiting, Granting, TypeOK
      <3>2. permits["admission"] > 0
        BY <2>2, <3>1, <1>3, <1>4, <1>5
      <3>3. PICK x \in Waiting("admission") : fut[x] # "pending"
        BY <2>2, <3>1, <3>2 DEF NoLostWakeup, Semaphores
      <3> QED BY <3>3, <1>1, <1>2 DEF Waiting, Granting, TypeOK, Pending
    <2> QED BY <2>1, <2>2 DEF NoLostWakeup, Semaphores, Waiting
  <1> QED BY <1>0, <1>6, <1>7, <1>8

\* A call whose admission timed out gives back what it was granted.
LEMMA AdmissionExpiresInv ==
  ASSUME Inv, NEW r \in Requests, AdmissionExpires(r)
  PROVE  Inv'
  <1> USE DEF Inv
  <1>0. RateInv'
    BY RateUnchangedInv DEF AdmissionExpires
  <1> DEFINE n == GivenBack("admission", r)
  <1>1. PICK q \in Without("admission", r), W \in SUBSET Pending("admission") :
          /\ WakesFirst("admission", W, n)
          /\ fut' = Granting(W, r, "none")
          /\ permits' = [permits EXCEPT !["admission"] = n - Cardinality(W)]
          /\ waiters' = [waiters EXCEPT !["admission"] = q]
    BY DEF AdmissionExpires
  <1>2. /\ stage[r] = "admission" /\ fut[r] \in {"cancelled", "revoked"}
        /\ stage' = [stage EXCEPT ![r] = "done"]
        /\ answer' = [answer EXCEPT ![r] = "full"]
    BY DEF AdmissionExpires, Answer
  <1>3. /\ permits["slot"] \in Nat /\ permits["admission"] \in Nat /\ n \in Nat
        /\ fut[r] = "revoked" => n = permits["admission"] + 1
        /\ fut[r] = "cancelled" => n = permits["admission"]
    BY <1>2 DEF TypeOK, Semaphores, GivenBack
  <1>4. /\ W \in SUBSET Requests /\ Cardinality(W) \in Nat
        /\ n - Cardinality(W) \in Nat
        /\ n - Cardinality(W) > 0 => W = Pending("admission")
    BY <1>1, <1>3, WakeCount DEF Semaphores
  <1>5. permits'["admission"] = n - Cardinality(W) /\ permits'["slot"] = permits["slot"]
    BY <1>1 DEF TypeOK, Semaphores
  <1> HIDE DEF n
  <1>6. TypeOK'
    <2>1. q \in Seq(Requests)
      BY <1>1, WithoutType DEF Semaphores
    <2>2. waiters' \in [Semaphores -> Seq(Requests)]
      BY <2>1, <1>1 DEF TypeOK, Semaphores
    <2>3. permits' \in [Semaphores -> Nat]
      BY <1>1, <1>3, <1>4, <1>5 DEF TypeOK, Semaphores
    <2> QED
      BY <2>2, <2>3, <1>0, <1>1, <1>2
      DEF TypeOK, RateInv, Granting, Stages, Futures, Answers
  <1>7. PermitsConserved'
    <2>1. permits'["admission"] + Cardinality(Holders("admission")')
            = permits["admission"] + Cardinality(Holders("admission"))
      <3>1. CASE fut[r] = "revoked"
        <4>1. /\ Holders("admission") \in SUBSET Requests /\ r \in Holders("admission")
              /\ Holders("admission") \cap W = {}
              /\ Holders("admission")' = (Holders("admission") \ {r}) \cup W
          BY <1>1, <1>2, <3>1 DEF Holders, TypeOK, Granting, Pending, Waiting
        <4>2. /\ Cardinality(Holders("admission")') =
                   Cardinality(Holders("admission")) - 1 + Cardinality(W)
              /\ Cardinality(Holders("admission")) \in Nat
          BY <4>1, <1>4, SwapCount, CallSets
        <4> QED BY <4>2, <3>1, <1>3, <1>4, <1>5
      <3>2. CASE fut[r] = "cancelled"
        <4>1. /\ Holders("admission") \in SUBSET Requests
              /\ Holders("admission") \cap W = {}
              /\ Holders("admission")' = Holders("admission") \cup W
          BY <1>1, <1>2, <3>2 DEF Holders, TypeOK, Granting, Pending, Waiting
        <4>2. /\ Cardinality(Holders("admission")') =
                   Cardinality(Holders("admission")) + Cardinality(W)
              /\ Cardinality(Holders("admission")) \in Nat
          BY <4>1, <1>4, JoinCount, CallSets
        <4> QED BY <4>2, <3>2, <1>3, <1>4, <1>5
      <3> QED BY <3>1, <3>2, <1>2
    <2>2. Holders("slot")' = Holders("slot")
      BY <1>1, <1>2 DEF Holders, TypeOK, Granting, Pending, Waiting
    <2> QED BY <2>1, <2>2, <1>5 DEF PermitsConserved, Semaphores, Capacity
  <1>8. NoLostWakeup'
    <2>1. ASSUME permits'["admission"] > 0 PROVE Pending("admission")' = {}
      <3>1. W = Pending("admission")
        BY <2>1, <1>4, <1>5
      <3> QED BY <3>1, <1>1, <1>2 DEF Pending, Waiting, Granting, TypeOK
    <2>2. Pending("slot")' = Pending("slot") /\ Waiting("slot")' = Waiting("slot")
      BY <1>1, <1>2 DEF Pending, Waiting, Granting, TypeOK
    <2>3. \A x \in Waiting("slot") : fut'[x] = fut[x]
      BY <1>1, <1>2 DEF Pending, Waiting, Granting, TypeOK
    <2> QED BY <2>1, <2>2, <2>3, <1>5 DEF NoLostWakeup, Semaphores
  <1> QED BY <1>0, <1>6, <1>7, <1>8

\* A queued call that resumes keeps the permit it was granted, and wakes the
\* calls that other free permits allow.
LEMMA QueuedRunInv ==
  ASSUME Inv, NEW r \in Requests, QueuedRun(r)
  PROVE  Inv'
  <1> USE DEF Inv
  <1>0. RateInv'
    BY RateUnchangedInv DEF QueuedRun
  <1> DEFINE n == permits["slot"]
  <1>1. PICK q \in Without("slot", r), W \in SUBSET Pending("slot") :
          /\ WakesFirst("slot", W, n)
          /\ fut' = Granting(W, r, "none")
          /\ permits' = [permits EXCEPT !["slot"] = @ - Cardinality(W)]
          /\ waiters' = [waiters EXCEPT !["slot"] = q]
    BY DEF QueuedRun
  <1>2. /\ stage[r] = "slot" /\ fut[r] = "granted"
        /\ stage' = [stage EXCEPT ![r] = "running"] /\ answer' = answer
    BY DEF QueuedRun
  <1>3. n \in Nat
    BY DEF TypeOK, Semaphores
  <1>4. /\ W \in SUBSET Requests /\ Cardinality(W) \in Nat
        /\ n - Cardinality(W) \in Nat
        /\ n - Cardinality(W) > 0 => W = Pending("slot")
    BY <1>1, <1>3, WakeCount DEF Semaphores
  <1>5. /\ permits'["slot"] = n - Cardinality(W)
        /\ permits'["admission"] = permits["admission"]
    BY <1>1 DEF TypeOK, Semaphores
  <1>6. TypeOK'
    <2>1. q \in Seq(Requests)
      BY <1>1, WithoutType DEF Semaphores
    <2>2. waiters' \in [Semaphores -> Seq(Requests)]
      BY <2>1, <1>1 DEF TypeOK, Semaphores
    <2>3. permits' \in [Semaphores -> Nat]
      BY <1>1, <1>3, <1>4, <1>5 DEF TypeOK, Semaphores
    <2> QED
      BY <2>2, <2>3, <1>0, <1>1, <1>2
      DEF TypeOK, RateInv, Granting, Stages, Futures
  <1>7. PermitsConserved'
    <2>1. /\ Holders("slot") \in SUBSET Requests
          /\ Holders("slot") \cap W = {}
          /\ Holders("slot")' = Holders("slot") \cup W
      BY <1>1, <1>2 DEF Holders, TypeOK, Granting, Pending, Waiting
    <2>2. /\ Cardinality(Holders("slot")') =
               Cardinality(Holders("slot")) + Cardinality(W)
          /\ Cardinality(Holders("slot")) \in Nat
      BY <2>1, <1>4, JoinCount, CallSets
    <2>3. permits'["slot"] + Cardinality(Holders("slot")')
            = permits["slot"] + Cardinality(Holders("slot"))
      BY <2>2, <1>3, <1>4, <1>5
    <2>4. Holders("admission")' = Holders("admission")
      BY <1>1, <1>2 DEF Holders, TypeOK, Granting, Pending, Waiting
    <2> QED BY <2>3, <2>4, <1>5 DEF PermitsConserved, Semaphores, Capacity
  <1>8. NoLostWakeup'
    <2>1. ASSUME permits'["slot"] > 0 PROVE Pending("slot")' = {}
      <3>1. W = Pending("slot")
        BY <2>1, <1>4, <1>5
      <3> QED BY <3>1, <1>1, <1>2 DEF Pending, Waiting, Granting, TypeOK
    <2>2. /\ Pending("admission")' = Pending("admission")
          /\ Waiting("admission")' = Waiting("admission")
      BY <1>1, <1>2 DEF Pending, Waiting, Granting, TypeOK
    <2>3. \A x \in Waiting("admission") : fut'[x] = fut[x]
      BY <1>1, <1>2 DEF Pending, Waiting, Granting, TypeOK
    <2> QED BY <2>1, <2>2, <2>3, <1>5 DEF NoLostWakeup, Semaphores
  <1> QED BY <1>0, <1>6, <1>7, <1>8

\* An admitted call that finds no slot keeps its place and queues.
LEMMA AdmittedQueueInv ==
  ASSUME Inv, NEW r \in Requests, AdmittedQueue(r)
  PROVE  Inv'
  <1> USE DEF Inv
  <1>0. RateInv'
    BY RateUnchangedInv DEF AdmittedQueue
  <1> DEFINE n == permits["admission"]
  <1>1. PICK q \in Without("admission", r), W \in SUBSET Pending("admission") :
          /\ WakesFirst("admission", W, n)
          /\ fut' = Granting(W, r, "pending")
          /\ permits' = [permits EXCEPT !["admission"] = @ - Cardinality(W)]
          /\ waiters' = [waiters EXCEPT !["admission"] = q,
                                        !["slot"] = Append(@, r)]
    BY DEF AdmittedQueue
  <1>2. /\ stage[r] = "admission" /\ fut[r] = "granted" /\ Locked("slot")
        /\ stage' = [stage EXCEPT ![r] = "slot"] /\ answer' = answer
    BY DEF AdmittedQueue
  <1>3. n \in Nat
    BY DEF TypeOK, Semaphores
  <1>4. /\ W \in SUBSET Requests /\ Cardinality(W) \in Nat
        /\ n - Cardinality(W) \in Nat
        /\ n - Cardinality(W) > 0 => W = Pending("admission")
    BY <1>1, <1>3, WakeCount DEF Semaphores
  <1>5. /\ permits'["admission"] = n - Cardinality(W)
        /\ permits'["slot"] = permits["slot"]
    BY <1>1 DEF TypeOK, Semaphores
  <1>6. TypeOK'
    <2>1. q \in Seq(Requests)
      BY <1>1, WithoutType DEF Semaphores
    <2>2. waiters' \in [Semaphores -> Seq(Requests)]
      BY <2>1, <1>1 DEF TypeOK, Semaphores
    <2>3. permits' \in [Semaphores -> Nat]
      BY <1>1, <1>3, <1>4, <1>5 DEF TypeOK, Semaphores
    <2> QED
      BY <2>2, <2>3, <1>0, <1>1, <1>2
      DEF TypeOK, RateInv, Granting, Stages, Futures
  <1>7. PermitsConserved'
    <2>1. /\ Holders("admission") \in SUBSET Requests
          /\ Holders("admission") \cap W = {}
          /\ Holders("admission")' = Holders("admission") \cup W
      BY <1>1, <1>2 DEF Holders, TypeOK, Granting, Pending, Waiting
    <2>2. /\ Cardinality(Holders("admission")') =
               Cardinality(Holders("admission")) + Cardinality(W)
          /\ Cardinality(Holders("admission")) \in Nat
      BY <2>1, <1>4, JoinCount, CallSets
    <2>3. permits'["admission"] + Cardinality(Holders("admission")')
            = permits["admission"] + Cardinality(Holders("admission"))
      BY <2>2, <1>3, <1>4, <1>5
    <2>4. Holders("slot")' = Holders("slot")
      BY <1>1, <1>2 DEF Holders, TypeOK, Granting, Pending, Waiting
    <2> QED BY <2>3, <2>4, <1>5 DEF PermitsConserved, Semaphores, Capacity
  <1>8. NoLostWakeup'
    <2>1. ASSUME permits'["admission"] > 0 PROVE Pending("admission")' = {}
      <3>1. W = Pending("admission")
        BY <2>1, <1>4, <1>5
      <3> QED BY <3>1, <1>1, <1>2 DEF Pending, Waiting, Granting, TypeOK
    <2>2. ASSUME permits'["slot"] > 0
          PROVE  \E x \in Requests : stage'[x] = "slot" /\ fut'[x] # "pending"
      <3>1. PICK x \in Waiting("slot") : fut[x] # "cancelled"
        BY <2>2, <1>2, <1>5 DEF Locked
      <3>2. PICK y \in Waiting("slot") : fut[y] # "pending"
        BY <3>1, <2>2, <1>5 DEF NoLostWakeup, Semaphores, Pending
      <3> QED BY <3>2, <1>1, <1>2 DEF Waiting, Granting, TypeOK, Pending
    <2> QED BY <2>1, <2>2 DEF NoLostWakeup, Semaphores, Waiting
  <1> QED BY <1>0, <1>6, <1>7, <1>8

\* An admitted call that finds a slot keeps its place and takes the slot.
LEMMA AdmittedRunInv ==
  ASSUME Inv, NEW r \in Requests, AdmittedRun(r)
  PROVE  Inv'
  <1> USE DEF Inv
  <1>0. RateInv'
    BY RateUnchangedInv DEF AdmittedRun
  <1> DEFINE n == permits["admission"]
  <1>1. PICK q \in Without("admission", r), W \in SUBSET Pending("admission") :
          /\ WakesFirst("admission", W, n)
          /\ fut' = Granting(W, r, "none")
          /\ permits' = [permits EXCEPT !["admission"] = @ - Cardinality(W),
                                        !["slot"] = @ - 1]
          /\ waiters' = [waiters EXCEPT !["admission"] = q]
    BY DEF AdmittedRun
  <1>2. /\ stage[r] = "admission" /\ fut[r] = "granted" /\ ~Locked("slot")
        /\ stage' = [stage EXCEPT ![r] = "running"] /\ answer' = answer
    BY DEF AdmittedRun
  <1>3. /\ n \in Nat /\ permits["slot"] \in Nat /\ permits["slot"] - 1 \in Nat
    BY <1>2 DEF TypeOK, Semaphores, Locked
  <1>4. /\ W \in SUBSET Requests /\ Cardinality(W) \in Nat
        /\ n - Cardinality(W) \in Nat
        /\ n - Cardinality(W) > 0 => W = Pending("admission")
    BY <1>1, <1>3, WakeCount DEF Semaphores
  <1>5. /\ permits'["admission"] = n - Cardinality(W)
        /\ permits'["slot"] = permits["slot"] - 1
    BY <1>1 DEF TypeOK, Semaphores
  <1>6. TypeOK'
    <2>1. q \in Seq(Requests)
      BY <1>1, WithoutType DEF Semaphores
    <2>2. waiters' \in [Semaphores -> Seq(Requests)]
      BY <2>1, <1>1 DEF TypeOK, Semaphores
    <2>3. permits' \in [Semaphores -> Nat]
      BY <1>1, <1>3, <1>4, <1>5 DEF TypeOK, Semaphores
    <2> QED
      BY <2>2, <2>3, <1>0, <1>1, <1>2
      DEF TypeOK, RateInv, Granting, Stages, Futures
  <1>7. PermitsConserved'
    <2>1. /\ Holders("admission") \in SUBSET Requests
          /\ Holders("admission") \cap W = {}
          /\ Holders("admission")' = Holders("admission") \cup W
      BY <1>1, <1>2 DEF Holders, TypeOK, Granting, Pending, Waiting
    <2>2. /\ Cardinality(Holders("admission")') =
               Cardinality(Holders("admission")) + Cardinality(W)
          /\ Cardinality(Holders("admission")) \in Nat
      BY <2>1, <1>4, JoinCount, CallSets
    <2>3. permits'["admission"] + Cardinality(Holders("admission")')
            = permits["admission"] + Cardinality(Holders("admission"))
      BY <2>2, <1>3, <1>4, <1>5
    <2>4. /\ Holders("slot") \in SUBSET Requests /\ r \notin Holders("slot")
          /\ Holders("slot")' = Holders("slot") \cup {r}
      BY <1>1, <1>2 DEF Holders, TypeOK, Granting, Pending, Waiting
    <2>5. /\ Cardinality(Holders("slot")') = Cardinality(Holders("slot")) + 1
          /\ Cardinality(Holders("slot")) \in Nat
      BY <2>4, FS_AddElement, CallSets
    <2>6. permits'["slot"] + Cardinality(Holders("slot")')
            = permits["slot"] + Cardinality(Holders("slot"))
      BY <2>5, <1>3, <1>5
    <2> QED BY <2>3, <2>6 DEF PermitsConserved, Semaphores, Capacity
  <1>8. NoLostWakeup'
    <2>1. ASSUME permits'["admission"] > 0 PROVE Pending("admission")' = {}
      <3>1. W = Pending("admission")
        BY <2>1, <1>4, <1>5
      <3> QED BY <3>1, <1>1, <1>2 DEF Pending, Waiting, Granting, TypeOK
    <2>2. Pending("slot")' = Pending("slot") /\ Waiting("slot")' = Waiting("slot")
      BY <1>1, <1>2 DEF Pending, Waiting, Granting, TypeOK
    <2>3. \A x \in Waiting("slot") : fut'[x] = fut[x]
      BY <1>1, <1>2 DEF Pending, Waiting, Granting, TypeOK
    <2> QED BY <2>1, <2>2, <2>3, <1>3, <1>5 DEF NoLostWakeup, Semaphores
  <1> QED BY <1>0, <1>6, <1>7, <1>8

\* A new call: refused by the window, waiting for a place, queued or run.
LEMMA ArriveInv ==
  ASSUME Inv, NEW r \in Requests, Arrive(r)
  PROVE  Inv'
  <1> USE DEF Inv
  <1>1. PICK k \in Keys :
          ArriveLimited(r, k) \/ ArriveWait(r, k) \/ ArriveQueue(r, k) \/ ArriveRun(r, k)
    BY DEF Arrive
  <1>2. RateInv'
    BY <1>1, AcceptHitInv, RefuseHitInv
    DEF ArriveLimited, ArriveWait, ArriveQueue, ArriveRun
  <1>3. stage[r] = "idle"
    BY <1>1 DEF ArriveLimited, ArriveWait, ArriveQueue, ArriveRun
  <1>4. \A s \in Semaphores : /\ Holders(s) \in SUBSET Requests /\ r \notin Holders(s)
                              /\ Cardinality(Holders(s)) \in Nat
                              /\ permits[s] \in Nat
    BY <1>3, CallSets DEF Holders, TypeOK
  <1>5. CASE ArriveLimited(r, k)
    <2>1. TypeOK'
      BY <1>2, <1>5 DEF ArriveLimited, Answer, TypeOK, RateInv, Stages, Answers
    <2>2. \A s \in Semaphores : /\ Holders(s)' = Holders(s)
                                /\ Pending(s)' = Pending(s)
                                /\ Waiting(s)' = Waiting(s)
      BY <1>3, <1>5
      DEF ArriveLimited, Answer, TypeOK, Holders, Pending, Waiting, Semaphores
    <2>3. PermitsConserved' /\ NoLostWakeup'
      BY <2>2, <1>5 DEF ArriveLimited, PermitsConserved, NoLostWakeup, Capacity
    <2> QED BY <1>2, <2>1, <2>3
  <1>6. CASE ArriveWait(r, k)
    <2>1. TypeOK'
      BY <1>2, <1>6 DEF ArriveWait, TypeOK, RateInv, Stages, Futures, Semaphores
    <2>2. \A s \in Semaphores : Holders(s)' = Holders(s)
      BY <1>3, <1>6 DEF ArriveWait, TypeOK, Holders, Semaphores
    <2>3. PermitsConserved'
      BY <2>2, <1>6 DEF ArriveWait, PermitsConserved, Capacity
    <2>4. ASSUME permits["admission"] > 0
          PROVE  \E x \in Waiting("admission") : fut[x] # "pending"
      <3>1. PICK x \in Waiting("admission") : fut[x] # "cancelled"
        BY <2>4, <1>6 DEF ArriveWait, Locked
      <3> QED BY <3>1, <2>4 DEF NoLostWakeup, Pending, Semaphores
    <2>5. NoLostWakeup'
      BY <2>4, <1>3, <1>6
      DEF ArriveWait, NoLostWakeup, Waiting, Pending, Semaphores, TypeOK
    <2> QED BY <1>2, <2>1, <2>3, <2>5
  <1>7. CASE ArriveQueue(r, k)
    <2>0. permits["admission"] > 0
      BY <1>4, <1>7 DEF ArriveQueue, Locked, Semaphores
    <2>1. TypeOK'
      BY <2>0, <1>2, <1>7 DEF ArriveQueue, TypeOK, RateInv, Stages, Futures, Semaphores
    <2>2. Holders("slot")' = Holders("slot")
      BY <1>3, <1>7 DEF ArriveQueue, TypeOK, Holders
    <2>3. Holders("admission")' = Holders("admission") \cup {r}
      BY <1>3, <1>7 DEF ArriveQueue, TypeOK, Holders
    <2>4. Cardinality(Holders("admission")') = Cardinality(Holders("admission")) + 1
      BY <2>3, <1>4, FS_AddElement, CallSets DEF Semaphores
    <2>5. PermitsConserved'
      <3>1. /\ permits'["slot"] = permits["slot"]
            /\ permits'["admission"] = permits["admission"] - 1
            /\ permits["admission"] \in Nat /\ Cardinality(Holders("admission")) \in Nat
        BY <1>4, <1>7 DEF ArriveQueue, Semaphores, TypeOK
      <3>2. permits'["admission"] + Cardinality(Holders("admission")')
              = permits["admission"] + Cardinality(Holders("admission"))
        BY <3>1, <2>4
      <3> QED BY <2>2, <3>1, <3>2 DEF PermitsConserved, Capacity, Semaphores
    <2>6. ASSUME permits["slot"] > 0
          PROVE  \E x \in Waiting("slot") : fut[x] # "pending"
      <3>1. PICK x \in Waiting("slot") : fut[x] # "cancelled"
        BY <2>6, <1>7 DEF ArriveQueue, Locked
      <3> QED BY <3>1, <2>6 DEF NoLostWakeup, Pending, Semaphores
    <2>7. NoLostWakeup'
      BY <2>0, <2>6, <1>3, <1>7
      DEF ArriveQueue, NoLostWakeup, Waiting, Pending, Semaphores, TypeOK
    <2> QED BY <1>2, <2>1, <2>5, <2>7
  <1>8. CASE ArriveRun(r, k)
    <2>0. \A s \in Semaphores : permits[s] > 0
      BY <1>4, <1>8 DEF ArriveRun, Locked, Semaphores
    <2>1. TypeOK'
      BY <2>0, <1>2, <1>8 DEF ArriveRun, TypeOK, RateInv, Stages, Semaphores
    <2>2. \A s \in Semaphores : Holders(s)' = Holders(s) \cup {r}
      BY <1>3, <1>8 DEF ArriveRun, TypeOK, Holders
    <2>3. \A s \in Semaphores :
             Cardinality(Holders(s)') = Cardinality(Holders(s)) + 1
      BY <2>2, <1>4, FS_AddElement, CallSets
    <2>4. \A s \in Semaphores : permits'[s] = permits[s] - 1
      BY <1>8 DEF ArriveRun
    <2>5. PermitsConserved'
      BY <2>3, <2>4, <1>4 DEF PermitsConserved, Capacity
    <2>6. NoLostWakeup'
      BY <2>0, <1>3, <1>8
      DEF ArriveRun, NoLostWakeup, Waiting, Pending, Semaphores, TypeOK
    <2> QED BY <1>2, <2>1, <2>5, <2>6
  <1> QED BY <1>1, <1>5, <1>6, <1>7, <1>8

\* A timer that fires takes no permit and only ends a wait.
LEMMA TimerFiresInv ==
  ASSUME Inv, NEW r \in Requests, TimerFires(r)
  PROVE  Inv'
  <1> USE DEF Inv
  <1>1. RateInv'
    BY RateUnchangedInv DEF TimerFires
  <1>2. TypeOK'
    BY <1>1 DEF TimerFires, TypeOK, RateInv, Futures
  <1>3. \A s \in Semaphores : Holders(s)' = Holders(s)
    BY DEF TimerFires, TypeOK, Holders, Semaphores
  <1>4. PermitsConserved'
    BY <1>3 DEF TimerFires, PermitsConserved, Capacity
  <1>5. \A s \in Semaphores :
          /\ Pending(s)' \subseteq Pending(s) /\ Waiting(s)' = Waiting(s)
          /\ \A x \in Waiting(s) : fut[x] # "pending" => fut'[x] # "pending"
    BY DEF TimerFires, TypeOK, Pending, Waiting
  <1>6. NoLostWakeup'
    BY <1>5 DEF TimerFires, NoLostWakeup
  <1> QED BY <1>1, <1>2, <1>4, <1>6

\* A step that changes neither the calls nor the permits, but perhaps the clock.
LEMMA OthersUnchangedInv ==
  ASSUME Inv, RateInv', UNCHANGED <<stage, fut, permits, waiters, answer>>
  PROVE  Inv'
  BY DEF Inv, RateInv, TypeOK, PermitsConserved, NoLostWakeup, Holders, Pending,
         Waiting, Capacity

\* Every step of the limiter keeps the invariant.
LEMMA NextInv == Inv /\ [Next]_vars => Inv'
  <1> SUFFICES ASSUME Inv, [Next]_vars PROVE Inv'
    OBVIOUS
  <1>1. ASSUME NEW r \in Requests, Arrive(r) PROVE Inv'
    BY <1>1, ArriveInv
  <1>2. ASSUME NEW r \in Requests, Resume(r) PROVE Inv'
    BY <1>2, AdmittedQueueInv, AdmittedRunInv, QueuedRunInv, AdmissionExpiresInv,
       SlotExpiresInv DEF Resume
  <1>3. ASSUME NEW r \in Requests, TimerFires(r) PROVE Inv'
    BY <1>3, TimerFiresInv
  <1>4. ASSUME NEW r \in Requests, Finish(r) PROVE Inv'
    BY <1>4, TaskEndsInv DEF Finish
  <1>5. CASE TimePasses
    BY <1>5, TickInv, OthersUnchangedInv DEF TimePasses, Inv
  <1>6. CASE UNCHANGED vars
    BY <1>6, RateUnchangedInv, OthersUnchangedInv DEF vars, rateVars, Inv
  <1> QED BY <1>1, <1>2, <1>3, <1>4, <1>5, <1>6 DEF Next, AllAnswered

-----------------------------------------------------------------------------
(* Theorems *)

\* Inv holds throughout.
THEOREM SpecInv == Spec => []Inv
  BY InitInv, NextInv, PTL DEF Spec

\* The variables keep their types.
THEOREM SpecTypeOK == Spec => []TypeOK
  BY SpecInv, PTL DEF Inv

\* No permit of either semaphore is lost or invented, whatever the
\* interleaving of grants, timers and exits (run, acquire, release).
THEOREM SpecPermitsConserved == Spec => []PermitsConserved
  BY SpecInv, PTL DEF Inv

\* A free permit and a waiting call exist together only while another call
\* is about to resume and hand the permit on (the wake loop of acquire).
THEOREM SpecNoLostWakeup == Spec => []NoLostWakeup
  BY SpecInv, PTL DEF Inv

\* No key gets more than RatePerMinute requests accepted in any Window
\* (_check_rate).
THEOREM SpecRateBound == Spec => []RateBound
  BY SpecInv, PTL DEF Inv, RateInv

-----------------------------------------------------------------------------
(* The limiter implements JudgePool *)

\* The sets of the pool are sets of permit holders of the limiter.
LEMMA PoolSets ==
  ASSUME TypeOK
  PROVE  /\ Pool!In("running") = {r \in Requests : stage[r] = "running"}
         /\ Pool!Inside = {r \in Requests : stage[r] \in {"slot", "running"}}
         /\ Pool!In("running") \subseteq Holders("slot")
         /\ Pool!Inside \subseteq Holders("admission")
         /\ Holders("slot") \in SUBSET Requests
         /\ Holders("admission") \in SUBSET Requests
  BY DEF TypeOK, Stages, Pool!In, Pool!Inside, PhaseOf, Holders

\* A call that holds a slot or finds a free one may start its task.
LEMMA SlotRoom ==
  ASSUME Inv, NEW r \in Requests, stage[r] # "running",
         permits["slot"] > 0 \/ r \in Holders("slot")
  PROVE  Cardinality(Pool!In("running")) < MaxConcurrency
  <1> DEFINE A == Pool!In("running")
             H == Holders("slot")
  <1>1. TypeOK
    BY DEF Inv
  <1>2. A \subseteq H /\ H \in SUBSET Requests /\ A \in SUBSET Requests /\ r \notin A
    BY <1>1, PoolSets
  <1>3. /\ IsFiniteSet(H) /\ Cardinality(H) \in Nat /\ Cardinality(A) \in Nat
    BY <1>2, CallSets
  <1>4. permits["slot"] + Cardinality(H) = MaxConcurrency /\ permits["slot"] \in Nat
    BY DEF Inv, PermitsConserved, Semaphores, Capacity, TypeOK
  <1> HIDE DEF A, H
  <1>5. CASE permits["slot"] > 0
    <2>1. Cardinality(A) <= Cardinality(H)
      BY <1>2, <1>3, FS_Subset
    <2> QED BY <2>1, <1>3, <1>4, <1>5, LimiterAssumption DEF A
  <1>6. CASE r \in H
    <2>1. /\ IsFiniteSet(H \ {r}) /\ Cardinality(H \ {r}) = Cardinality(H) - 1
          /\ A \subseteq H \ {r}
      BY <1>2, <1>3, <1>6, FS_RemoveElement
    <2>2. Cardinality(A) <= Cardinality(H \ {r})
      BY <2>1, FS_Subset
    <2> QED BY <2>1, <2>2, <1>3, <1>4, LimiterAssumption DEF A
  <1> QED BY <1>5, <1>6 DEF H

\* A call that holds a place or finds a free one may enter the pool.
LEMMA PlaceRoom ==
  ASSUME Inv, NEW r \in Requests, stage[r] \notin {"slot", "running"},
         permits["admission"] > 0 \/ r \in Holders("admission")
  PROVE  Cardinality(Pool!Inside) < MaxConcurrency + QueueSize
  <1> DEFINE A == Pool!Inside
             H == Holders("admission")
             c == MaxConcurrency + QueueSize
  <1>1. TypeOK
    BY DEF Inv
  <1>2. A \subseteq H /\ H \in SUBSET Requests /\ A \in SUBSET Requests /\ r \notin A
    BY <1>1, PoolSets
  <1>3. /\ IsFiniteSet(H) /\ Cardinality(H) \in Nat /\ Cardinality(A) \in Nat
    BY <1>2, CallSets
  <1>4. /\ permits["admission"] + Cardinality(H) = c /\ permits["admission"] \in Nat
        /\ c \in Nat
    BY LimiterAssumption DEF Inv, PermitsConserved, Semaphores, Capacity, TypeOK
  <1> HIDE DEF A, H, c
  <1>5. CASE permits["admission"] > 0
    <2>1. Cardinality(A) <= Cardinality(H)
      BY <1>2, <1>3, FS_Subset
    <2> QED BY <2>1, <1>3, <1>4, <1>5 DEF A, c
  <1>6. CASE r \in H
    <2>1. /\ IsFiniteSet(H \ {r}) /\ Cardinality(H \ {r}) = Cardinality(H) - 1
          /\ A \subseteq H \ {r}
      BY <1>2, <1>3, <1>6, FS_RemoveElement
    <2>2. Cardinality(A) <= Cardinality(H \ {r})
      BY <2>1, FS_Subset
    <2> QED BY <2>1, <2>2, <1>3, <1>4 DEF A, c
  <1> QED BY <1>5, <1>6 DEF H

\* A step of one call changes at most the phase of that call.
LEMMA PhaseStep ==
  ASSUME TypeOK, NEW r \in Requests, NEW st,
         stage' = [stage EXCEPT ![r] = st]
  PROVE  [x \in Requests |-> PhaseOf(stage'[x])] =
           [[x \in Requests |-> PhaseOf(stage[x])] EXCEPT ![r] = PhaseOf(st)]
  BY DEF TypeOK

\* The cardinality of the instance is the one of FiniteSets.
LEMMA PoolCardinality ==
  ASSUME NEW S
  PROVE  Pool!Cardinality(S) = Cardinality(S)
  BY DEF Pool!Cardinality, Cardinality

\* A step that leaves stages and answers alone is a stutter of the pool.
LEMMA StutterStep ==
  ASSUME UNCHANGED <<stage, answer>>
  PROVE  UNCHANGED Pool!poolVars
  BY DEF Pool!poolVars

\* Every step of the limiter is a step of the pool or a stutter.
LEMMA PoolStep == Inv /\ [Next]_vars => [Pool!Next]_(Pool!poolVars)
  <1> SUFFICES ASSUME Inv, [Next]_vars PROVE [Pool!Next]_(Pool!poolVars)
    OBVIOUS
  <1>0. TypeOK
    BY DEF Inv
  <1>1. ASSUME NEW r \in Requests, NEW k \in Keys, ArriveLimited(r, k)
        PROVE  Pool!Refuse(r)
    <2>1. stage[r] = "idle" /\ stage' = [stage EXCEPT ![r] = "done"]
          /\ answer' = [answer EXCEPT ![r] = "limited"]
      BY <1>1 DEF ArriveLimited, Answer
    <2>2. [x \in Requests |-> PhaseOf(stage'[x])] =
            [[x \in Requests |-> PhaseOf(stage[x])] EXCEPT ![r] = "answered"]
      BY <2>1, <1>0, PhaseStep DEF PhaseOf
    <2> QED BY <2>1, <2>2 DEF Pool!Refuse, Pool!Answer, Pool!RefuseAnswers, PhaseOf
  <1>2. ASSUME NEW r \in Requests, NEW k \in Keys, ArriveWait(r, k)
        PROVE  UNCHANGED Pool!poolVars
    <2>1. stage[r] = "idle" /\ stage' = [stage EXCEPT ![r] = "admission"]
          /\ answer' = answer
      BY <1>2 DEF ArriveWait
    <2>2. [x \in Requests |-> PhaseOf(stage'[x])] = [x \in Requests |-> PhaseOf(stage[x])]
      <3>1. ASSUME NEW x \in Requests
            PROVE  PhaseOf(stage'[x]) = PhaseOf(stage[x])
        <4>1. CASE x = r
          BY <4>1, <2>1, <1>0 DEF PhaseOf, TypeOK
        <4>2. CASE x # r
          BY <4>2, <2>1, <1>0 DEF TypeOK
        <4> QED BY <4>1, <4>2
      <3> QED BY <3>1
    <2> QED BY <2>1, <2>2 DEF Pool!poolVars
  <1>3. ASSUME NEW r \in Requests, NEW k \in Keys, ArriveQueue(r, k)
        PROVE  Pool!Enter(r)
    <2>1. stage[r] = "idle" /\ stage' = [stage EXCEPT ![r] = "slot"]
          /\ answer' = answer /\ permits["admission"] > 0
      BY <1>3, <1>0 DEF ArriveQueue, Locked, TypeOK, Semaphores
    <2>2. [x \in Requests |-> PhaseOf(stage'[x])] =
            [[x \in Requests |-> PhaseOf(stage[x])] EXCEPT ![r] = "queued"]
      BY <2>1, <1>0, PhaseStep DEF PhaseOf
    <2>3. Pool!Cardinality(Pool!Inside) < MaxConcurrency + QueueSize
      BY <2>1, PlaceRoom, PoolCardinality
    <2> QED BY <2>1, <2>2, <2>3 DEF Pool!Enter, Pool!Goto, PhaseOf
  <1>4. ASSUME NEW r \in Requests, NEW k \in Keys, ArriveRun(r, k)
        PROVE  Pool!Start(r)
    <2>1. stage[r] = "idle" /\ stage' = [stage EXCEPT ![r] = "running"]
          /\ answer' = answer /\ permits["admission"] > 0 /\ permits["slot"] > 0
      BY <1>4, <1>0 DEF ArriveRun, Locked, TypeOK, Semaphores
    <2>2. [x \in Requests |-> PhaseOf(stage'[x])] =
            [[x \in Requests |-> PhaseOf(stage[x])] EXCEPT ![r] = "running"]
      BY <2>1, <1>0, PhaseStep DEF PhaseOf
    <2>3. /\ Pool!Cardinality(Pool!Inside) < MaxConcurrency + QueueSize
          /\ Pool!Cardinality(Pool!In("running")) < MaxConcurrency
      BY <2>1, PlaceRoom, SlotRoom, PoolCardinality
    <2> QED BY <2>1, <2>2, <2>3 DEF Pool!Start, Pool!Goto, PhaseOf
  <1>5. ASSUME NEW r \in Requests, AdmittedQueue(r)
        PROVE  Pool!Enter(r)
    <2>1. stage[r] = "admission" /\ stage' = [stage EXCEPT ![r] = "slot"]
          /\ answer' = answer /\ r \in Holders("admission")
      BY <1>5 DEF AdmittedQueue, Holders
    <2>2. [x \in Requests |-> PhaseOf(stage'[x])] =
            [[x \in Requests |-> PhaseOf(stage[x])] EXCEPT ![r] = "queued"]
      BY <2>1, <1>0, PhaseStep DEF PhaseOf
    <2>3. Pool!Cardinality(Pool!Inside) < MaxConcurrency + QueueSize
      BY <2>1, PlaceRoom, PoolCardinality
    <2> QED BY <2>1, <2>2, <2>3 DEF Pool!Enter, Pool!Goto, PhaseOf
  <1>6. ASSUME NEW r \in Requests, AdmittedRun(r)
        PROVE  Pool!Start(r)
    <2>1. stage[r] = "admission" /\ stage' = [stage EXCEPT ![r] = "running"]
          /\ answer' = answer /\ r \in Holders("admission") /\ permits["slot"] > 0
      BY <1>6, <1>0 DEF AdmittedRun, Holders, Locked, TypeOK, Semaphores
    <2>2. [x \in Requests |-> PhaseOf(stage'[x])] =
            [[x \in Requests |-> PhaseOf(stage[x])] EXCEPT ![r] = "running"]
      BY <2>1, <1>0, PhaseStep DEF PhaseOf
    <2>3. /\ Pool!Cardinality(Pool!Inside) < MaxConcurrency + QueueSize
          /\ Pool!Cardinality(Pool!In("running")) < MaxConcurrency
      BY <2>1, PlaceRoom, SlotRoom, PoolCardinality
    <2> QED BY <2>1, <2>2, <2>3 DEF Pool!Start, Pool!Goto, PhaseOf
  <1>7. ASSUME NEW r \in Requests, QueuedRun(r)
        PROVE  Pool!Start(r)
    <2>1. stage[r] = "slot" /\ stage' = [stage EXCEPT ![r] = "running"]
          /\ answer' = answer /\ r \in Holders("slot")
      BY <1>7 DEF QueuedRun, Holders
    <2>2. [x \in Requests |-> PhaseOf(stage'[x])] =
            [[x \in Requests |-> PhaseOf(stage[x])] EXCEPT ![r] = "running"]
      BY <2>1, <1>0, PhaseStep DEF PhaseOf
    <2>3. Pool!Cardinality(Pool!In("running")) < MaxConcurrency
      BY <2>1, SlotRoom, PoolCardinality
    <2> QED BY <2>1, <2>2, <2>3 DEF Pool!Start, Pool!Goto, PhaseOf
  <1>8. ASSUME NEW r \in Requests, AdmissionExpires(r)
        PROVE  Pool!Refuse(r)
    <2>1. stage[r] = "admission" /\ stage' = [stage EXCEPT ![r] = "done"]
          /\ answer' = [answer EXCEPT ![r] = "full"]
      BY <1>8 DEF AdmissionExpires, Answer
    <2>2. [x \in Requests |-> PhaseOf(stage'[x])] =
            [[x \in Requests |-> PhaseOf(stage[x])] EXCEPT ![r] = "answered"]
      BY <2>1, <1>0, PhaseStep DEF PhaseOf
    <2> QED BY <2>1, <2>2 DEF Pool!Refuse, Pool!Answer, Pool!RefuseAnswers, PhaseOf
  <1>9. ASSUME NEW r \in Requests, SlotExpires(r)
        PROVE  Pool!GiveUp(r)
    <2>1. stage[r] = "slot" /\ stage' = [stage EXCEPT ![r] = "done"]
          /\ answer' = [answer EXCEPT ![r] = "busy"]
      BY <1>9 DEF SlotExpires, Answer
    <2>2. [x \in Requests |-> PhaseOf(stage'[x])] =
            [[x \in Requests |-> PhaseOf(stage[x])] EXCEPT ![r] = "answered"]
      BY <2>1, <1>0, PhaseStep DEF PhaseOf
    <2> QED BY <2>1, <2>2 DEF Pool!GiveUp, Pool!Answer, PhaseOf
  <1>10. ASSUME NEW r \in Requests, Finish(r)
         PROVE  Pool!Finish(r)
    <2>1. PICK a \in {"result", "unavailable"} : TaskEnds(r, a)
      BY <1>10 DEF Finish
    <2>2. stage[r] = "running" /\ stage' = [stage EXCEPT ![r] = "done"]
          /\ answer' = [answer EXCEPT ![r] = a]
      BY <2>1 DEF TaskEnds, Answer
    <2>3. [x \in Requests |-> PhaseOf(stage'[x])] =
            [[x \in Requests |-> PhaseOf(stage[x])] EXCEPT ![r] = "answered"]
      BY <2>2, <1>0, PhaseStep DEF PhaseOf
    <2> QED BY <2>2, <2>3 DEF Pool!Finish, Pool!Answer, Pool!TaskAnswers, PhaseOf
  <1>11. ASSUME NEW r \in Requests, TimerFires(r)
         PROVE  UNCHANGED Pool!poolVars
    BY <1>11, StutterStep DEF TimerFires
  <1>12. CASE TimePasses \/ UNCHANGED vars
    BY <1>12, StutterStep DEF TimePasses, vars
  <1> QED
    BY <1>1, <1>2, <1>3, <1>4, <1>5, <1>6, <1>7, <1>8, <1>9, <1>10, <1>11, <1>12
    DEF Next, Arrive, Resume, AllAnswered, Pool!Next

\* The limiter implements the pool: with queues, futures, timers and the rate
\* window hidden, it admits, starts, refuses and answers as JudgePool does.
THEOREM SpecImplementsPool == Spec => ImplementsPool
  <1>1. Init => Pool!Init
    BY DEF Init, Pool!Init, PhaseOf
  <1>2. Spec => []Inv
    BY SpecInv
  <1> QED BY <1>1, <1>2, PoolStep, PTL DEF Spec, ImplementsPool, Pool!Spec

-----------------------------------------------------------------------------
(* The order of the queues *)

\* A call that waits stands in the deque, and the calls with a grant stand
\* before those without one.
InOrder(s) ==
    /\ \A r \in Waiting(s) : \E i \in DOMAIN waiters[s] : waiters[s][i] = r
    /\ \A b \in Waiting(s), a \in Pending(s) : fut[b] = "granted" => Before(s, b, a)

QueueInv == \A s \in Semaphores : InOrder(s)

\* The entries of a deque without its k-th one.
LEMMA RemoveAtEntries ==
  ASSUME NEW S, NEW w \in Seq(S), NEW k \in 1..Len(w)
  PROVE  /\ DOMAIN RemoveAt(w, k) = 1..(Len(w) - 1)
         /\ \A m \in 1..(k - 1) : RemoveAt(w, k)[m] = w[m]
         /\ \A m \in k..(Len(w) - 1) : RemoveAt(w, k)[m] = w[m + 1]
  <1> DEFINE n == Len(w)
             u == SubSeq(w, 1, k - 1)
             v == SubSeq(w, k + 1, n)
  <1>1. n \in Nat /\ k \in 1..n /\ \A m \in 1..n : w[m] \in S
    OBVIOUS
  <1> HIDE DEF n
  <1>2. u \in Seq(S) /\ Len(u) = k - 1 /\ \A m \in 1..(k - 1) : u[m] = w[m]
    <2>1. 1 \in Int /\ k - 1 \in Int /\ 1 <= k /\ \A m \in 1..(k - 1) : w[m] \in S
      BY <1>1
    <2>2. Len(u) = (IF 1 <= k - 1 THEN (k - 1) - 1 + 1 ELSE 0)
      BY <2>1, SubSeqProperties
    <2>3. \A m \in 1..((k - 1) - 1 + 1) : u[m] = w[1 + m - 1]
      BY <2>1, SubSeqProperties
    <2> QED
      BY <1>1, <2>1, <2>2, <2>3, SubSeqProperties
  <1>3. v \in Seq(S) /\ Len(v) = n - k /\ \A m \in 1..(n - k) : v[m] = w[m + k]
    <2>1. k + 1 \in Int /\ n \in Int /\ \A m \in (k + 1)..n : w[m] \in S
      BY <1>1
    <2> QED
      BY <1>1, <2>1, SubSeqProperties
  <1>4. RemoveAt(w, k) = u \o v
    BY DEF RemoveAt, n
  <1> HIDE DEF u, v
  <1>5. /\ Len(u \o v) = n - 1 /\ DOMAIN (u \o v) = 1..(n - 1)
        /\ \A m \in 1..(n - 1) : (u \o v)[m] = IF m <= k - 1 THEN u[m] ELSE v[m - (k - 1)]
    <2>1. /\ u \o v \in Seq(S) /\ Len(u \o v) = Len(u) + Len(v)
          /\ \A m \in 1..(Len(u) + Len(v)) :
                (u \o v)[m] = IF m <= Len(u) THEN u[m] ELSE v[m - Len(u)]
      BY <1>2, <1>3, ConcatProperties
    <2>2. Len(u) + Len(v) = n - 1
      BY <1>1, <1>2, <1>3
    <2>3. DOMAIN (u \o v) = 1..(n - 1)
      BY <2>1, <2>2
    <2>4. Len(u) = k - 1
      BY <1>2
    <2> QED
      BY ONLY <2>1, <2>2, <2>3, <2>4
  <1>6. \A m \in 1..(k - 1) : (u \o v)[m] = w[m]
    BY <1>1, <1>2, <1>5
  <1>7. ASSUME NEW m \in k..(n - 1)
        PROVE  (u \o v)[m] = w[m + 1]
    <2>1. m \in 1..(n - 1) /\ ~(m <= k - 1) /\ m - (k - 1) \in 1..(n - k)
          /\ (m - (k - 1)) + k = m + 1
      BY <1>1
    <2> QED
      BY <1>3, <1>5, <2>1
  <1> QED
    BY <1>4, <1>5, <1>6, <1>7 DEF n

\* Who stands in a deque, and before whom, does not depend on a call that
\* takes itself out.
LEMMA WithoutKeeps ==
  ASSUME TypeOK, NEW s \in Semaphores, NEW r \in Requests, NEW q \in Without(s, r)
  PROVE  /\ \A a \in Requests \ {r}, i \in DOMAIN waiters[s] : waiters[s][i] = a =>
                \E j \in DOMAIN q : q[j] = a
         /\ \A a, b \in Requests \ {r} : Before(s, a, b) =>
                \E i, j \in DOMAIN q : i < j /\ q[i] = a /\ q[j] = b
  <1> DEFINE w == waiters[s]
             n == Len(w)
  <1>1. w \in Seq(Requests) /\ DOMAIN w = 1..n /\ n \in Nat
    BY DEF TypeOK
  <1>2. PICK k \in 1..n : w[k] = r /\ q = RemoveAt(w, k)
    BY <1>1 DEF Without
  <1>3. /\ DOMAIN q = 1..(n - 1)
        /\ \A m \in 1..(k - 1) : q[m] = w[m]
        /\ \A m \in k..(n - 1) : q[m] = w[m + 1]
    BY <1>1, <1>2, RemoveAtEntries
  <1>4. Before(s, r, r) \in BOOLEAN /\ \A a, b : Before(s, a, b) <=>
            \E i, j \in 1..n : i < j /\ w[i] = a /\ w[j] = b
    BY <1>1 DEF Before
  <1> DEFINE At(i) == IF i < k THEN i ELSE i - 1
  <1>5. ASSUME NEW i \in 1..n, i # k
        PROVE  At(i) \in 1..(n - 1) /\ q[At(i)] = w[i]
    <2>1. CASE i < k
      BY <1>1, <1>2, <1>3, <2>1
    <2>2. CASE i > k
      <3>1. i - 1 \in k..(n - 1) /\ (i - 1) + 1 = i /\ At(i) = i - 1
        BY <1>1, <1>2, <2>2
      <3> QED
        BY <1>1, <1>2, <1>3, <3>1
    <2> QED
      BY <1>1, <1>2, <1>5, <2>1, <2>2
  <1>6. \A i, j \in 1..n : i # k /\ j # k /\ i < j => At(i) < At(j)
    BY <1>1, <1>2
  <1> HIDE DEF At, n, w
  <1>7. ASSUME NEW a \in Requests \ {r}, NEW i \in 1..n, w[i] = a
        PROVE  \E j \in DOMAIN q : q[j] = a
    <2>1. i # k
      BY <1>2, <1>7
    <2> QED
      BY <1>3, <1>5, <1>7, <2>1
  <1>8. ASSUME NEW a \in Requests \ {r}, NEW b \in Requests \ {r}, Before(s, a, b)
        PROVE  \E i, j \in DOMAIN q : i < j /\ q[i] = a /\ q[j] = b
    <2>1. PICK i \in 1..n, j \in 1..n : i < j /\ w[i] = a /\ w[j] = b
      BY <1>4, <1>8
    <2>2. i # k /\ j # k
      BY <1>2, <2>1
    <2> QED
      BY <1>3, <1>5, <1>6, <2>1, <2>2
  <1>9. DOMAIN waiters[s] = 1..n /\ waiters[s] = w
    BY <1>1 DEF w
  <1> QED
    BY <1>7, <1>8, <1>9

\* A call leaves the semaphore s, or never was there, and others are granted.
LEMMA LeavesInOrder ==
  ASSUME TypeOK, NEW s \in Semaphores, InOrder(s), NEW r \in Requests,
         NEW W \in SUBSET Pending(s),
         \A x \in W, p \in Pending(s) \ W : Before(s, x, p),
         \A x \in Requests \ {r} : stage'[x] = stage[x],
         \A x \in Waiting(s) \ {r} : fut'[x] = IF x \in W THEN "granted" ELSE fut[x],
         stage'[r] # s,
         waiters'[s] = waiters[s] \/ waiters'[s] \in Without(s, r)
  PROVE  InOrder(s)'
  <1>1. Waiting(s)' \subseteq Waiting(s) \ {r}
    BY DEF Waiting
  <1>2. Pending(s)' \subseteq Pending(s) \ W
    BY <1>1 DEF Pending
  <1>3. \A x \in Waiting(s) \ {r} : \E i \in DOMAIN waiters'[s] : waiters'[s][i] = x
    BY WithoutKeeps DEF InOrder, Waiting
  <1>4. \A b, a \in Requests \ {r} : Before(s, b, a) => Before(s, b, a)'
    BY WithoutKeeps DEF Before
  <1>5. ASSUME NEW b \in Waiting(s)', NEW a \in Pending(s)', fut'[b] = "granted"
        PROVE  Before(s, b, a)'
    <2>1. b \in Waiting(s) \ {r} /\ a \in Pending(s) \ W /\ a \in Requests \ {r}
      BY <1>1, <1>2, <1>5 DEF Pending, Waiting
    <2>2. Before(s, b, a)
      BY <1>5, <2>1 DEF InOrder
    <2> QED
      BY <1>4, <2>1, <2>2 DEF Waiting
  <1> QED
    BY <1>1, <1>3, <1>5 DEF InOrder

\* A call joins the queue of s at its end, with a future that is pending.
LEMMA JoinsInOrder ==
  ASSUME TypeOK, NEW s \in Semaphores, InOrder(s), NEW r \in Requests, stage[r] # s,
         \A x \in Requests \ {r} : stage'[x] = stage[x],
         \A x \in Waiting(s) : fut'[x] = fut[x],
         fut'[r] = "pending",
         waiters'[s] = Append(waiters[s], r)
  PROVE  InOrder(s)'
  <1> DEFINE w == waiters[s]
             n == Len(w)
  <1>1. w \in Seq(Requests) /\ DOMAIN w = 1..n /\ n \in Nat
    BY DEF TypeOK
  <1>2. /\ DOMAIN waiters'[s] = 1..(n + 1) /\ waiters'[s][n + 1] = r
        /\ \A i \in 1..n : waiters'[s][i] = w[i]
    BY <1>1
  <1>3. \A i \in 1..n : i \in 1..(n + 1) /\ i < n + 1
    BY <1>1
  <1>4. n + 1 \in 1..(n + 1)
    BY <1>1
  <1> HIDE DEF n
  <1>5. \A x \in Waiting(s) : \E i \in 1..n : w[i] = x
    BY <1>1 DEF InOrder
  <1>6. Waiting(s)' \subseteq Waiting(s) \cup {r}
    BY DEF Waiting
  <1>7. \A x \in Waiting(s) \cup {r} : \E i \in DOMAIN waiters'[s] : waiters'[s][i] = x
    BY <1>2, <1>3, <1>4, <1>5
  <1>8. ASSUME NEW b \in Waiting(s)', NEW a \in Pending(s)', fut'[b] = "granted"
        PROVE  Before(s, b, a)'
    <2>1. b \in Waiting(s) /\ fut[b] = "granted"
      BY <1>6, <1>8
    <2>2. CASE a = r
      BY <1>2, <1>3, <1>4, <1>5, <2>1, <2>2 DEF Before
    <2>3. CASE a # r
      <3>1. a \in Pending(s)
        BY <1>6, <2>3 DEF Pending
      <3>2. PICK i \in 1..n, j \in 1..n : i < j /\ w[i] = b /\ w[j] = a
        BY <1>1, <2>1, <3>1 DEF InOrder, Before
      <3> QED
        BY <1>2, <1>3, <3>2 DEF Before
    <2> QED
      BY <2>2, <2>3
  <1> QED
    BY <1>6, <1>7, <1>8 DEF InOrder

\* The calls of U were the first of those that wait for the same semaphore.
Firsts(U) ==
    \A s \in Semaphores : \A x \in U \cap Waiting(s) :
        x \in Pending(s) /\ \A p \in Pending(s) \ U : Before(s, x, p)

\* What the two semaphores wake are such calls, separately and together.
LEMMA WokenAreFirsts ==
  ASSUME NEW W, NEW V, NEW n, NEW m
  PROVE  /\ WakesFirst("slot", W, n) => Firsts(W)
         /\ WakesFirst("admission", V, m) => Firsts(V)
         /\ WakesFirst("slot", W, n) /\ WakesFirst("admission", V, m) => Firsts(W \cup V)
  BY DEF WakesFirst, Firsts, Pending, Waiting, Semaphores

\* A call moves from its place to g while those of U are granted what they
\* wait for: a semaphore that it does not wait for afterwards keeps its order.
LEMMA GrantsInOrder ==
  ASSUME TypeOK, QueueInv, NEW r \in Requests, NEW g, NEW f, NEW s \in Semaphores, g # s,
         NEW U, Firsts(U), fut' = Granting(U, r, f), stage' = [stage EXCEPT ![r] = g],
         waiters'[s] = waiters[s] \/ waiters'[s] \in Without(s, r)
  PROVE  InOrder(s)'
  <1>1. PICK G \in SUBSET Pending(s) : G = U \cap Waiting(s)
    BY DEF Firsts
  <1>2. \A x \in G, p \in Pending(s) \ G : Before(s, x, p)
    BY <1>1 DEF Firsts, Pending
  <1>3. (\A x \in Requests \ {r} : stage'[x] = stage[x]) /\ stage'[r] # s
    BY DEF TypeOK
  <1>4. \A x \in Waiting(s) \ {r} : fut'[x] = IF x \in G THEN "granted" ELSE fut[x]
    BY <1>1 DEF Granting, Waiting
  <1> QED
    BY <1>2, <1>3, <1>4, LeavesInOrder DEF QueueInv

\* A call that arrives keeps the order, wherever it goes.
LEMMA ArriveInOrder ==
  ASSUME TypeOK, QueueInv, NEW r \in Requests, Arrive(r)
  PROVE  QueueInv'
  <1>1. PICK k \in Keys :
          ArriveLimited(r, k) \/ ArriveWait(r, k) \/ ArriveQueue(r, k) \/ ArriveRun(r, k)
    BY DEF Arrive
  <1>2. ASSUME NEW s \in Semaphores, NEW g \in Stages \ {s}, stage' = [stage EXCEPT ![r] = g],
               \A x \in Requests \ {r} : fut'[x] = fut[x], waiters'[s] = waiters[s]
        PROVE  InOrder(s)'
    <2>1. PICK W \in SUBSET Pending(s) : W = {}
      OBVIOUS
    <2>2. /\ \A x \in Requests \ {r} : stage'[x] = stage[x]
          /\ stage'[r] # s
          /\ \A x \in Waiting(s) \ {r} : fut'[x] = IF x \in W THEN "granted" ELSE fut[x]
      BY <1>2, <2>1 DEF TypeOK, Waiting
    <2>3. \A x \in W, p \in Pending(s) \ W : Before(s, x, p)
      BY <2>1
    <2> QED
      BY <1>2, <2>2, <2>3, LeavesInOrder DEF QueueInv
  <1>3. CASE ArriveLimited(r, k) \/ ArriveRun(r, k)
    BY <1>2, <1>3 DEF ArriveLimited, ArriveRun, Answer, QueueInv, Stages, Semaphores
  <1>4. CASE ArriveWait(r, k)
    <2>1. InOrder("slot")'
      BY <1>2, <1>4 DEF ArriveWait, TypeOK, Stages, Semaphores
    <2>2. InOrder("admission")'
      <3>1. /\ stage[r] # "admission" /\ fut'[r] = "pending"
            /\ \A x \in Requests \ {r} : stage'[x] = stage[x]
            /\ \A x \in Waiting("admission") : fut'[x] = fut[x]
            /\ waiters'["admission"] = Append(waiters["admission"], r)
        BY <1>4 DEF ArriveWait, TypeOK, Waiting, Semaphores
      <3> QED
        BY <3>1, JoinsInOrder DEF QueueInv, Semaphores
    <2> QED
      BY <2>1, <2>2 DEF QueueInv, Semaphores
  <1>5. CASE ArriveQueue(r, k)
    <2>1. InOrder("admission")'
      BY <1>2, <1>5 DEF ArriveQueue, TypeOK, Stages, Semaphores
    <2>2. InOrder("slot")'
      <3>1. /\ stage[r] # "slot" /\ fut'[r] = "pending"
            /\ \A x \in Requests \ {r} : stage'[x] = stage[x]
            /\ \A x \in Waiting("slot") : fut'[x] = fut[x]
            /\ waiters'["slot"] = Append(waiters["slot"], r)
        BY <1>5 DEF ArriveQueue, TypeOK, Waiting, Semaphores
      <3> QED
        BY <3>1, JoinsInOrder DEF QueueInv, Semaphores
    <2> QED
      BY <2>1, <2>2 DEF QueueInv, Semaphores
  <1> QED
    BY <1>1, <1>3, <1>4, <1>5

\* A call that resumes or ends keeps the order.
LEMMA ResumeInOrder ==
  ASSUME TypeOK, QueueInv, NEW r \in Requests, Resume(r) \/ Finish(r)
  PROVE  QueueInv'
  <1>1. waiters \in [Semaphores -> Seq(Requests)] /\ stage \in [Requests -> Stages]
    BY DEF TypeOK
  <1>2. ASSUME NEW U, Firsts(U), fut' = Granting(U, r, "none"),
               NEW g, g \notin Semaphores, stage' = [stage EXCEPT ![r] = g],
               \A s \in Semaphores : waiters'[s] = waiters[s] \/ waiters'[s] \in Without(s, r)
        PROVE  QueueInv'
    BY <1>2, GrantsInOrder DEF QueueInv
  <1>3. "running" \notin Semaphores /\ "done" \notin Semaphores
    BY DEF Semaphores
  <1>4. ASSUME NEW s \in Semaphores, NEW q \in Without(s, r), waiters' = [waiters EXCEPT ![s] = q]
        PROVE  \A x \in Semaphores : waiters'[x] = waiters[x] \/ waiters'[x] \in Without(x, r)
    BY <1>1, <1>4
  <1>5. CASE AdmittedQueue(r)
    <2>1. PICK q \in Without("admission", r), V \in SUBSET Pending("admission") :
            /\ WakesFirst("admission", V, permits["admission"])
            /\ fut' = Granting(V, r, "pending")
            /\ waiters' = [waiters EXCEPT !["admission"] = q, !["slot"] = Append(@, r)]
      BY <1>5 DEF AdmittedQueue
    <2>2. stage[r] = "admission" /\ stage' = [stage EXCEPT ![r] = "slot"]
      BY <1>5 DEF AdmittedQueue
    <2>3. waiters'["admission"] = q /\ waiters'["slot"] = Append(waiters["slot"], r)
      BY <1>1, <2>1 DEF Semaphores
    <2>4. InOrder("admission")'
      <3>1. Firsts(V)
        BY <2>1, WokenAreFirsts
      <3> QED
        BY <2>1, <2>2, <2>3, <3>1, GrantsInOrder DEF Semaphores
    <2>5. /\ \A x \in Requests \ {r} : stage'[x] = stage[x]
          /\ \A x \in Waiting("slot") : fut'[x] = fut[x]
          /\ fut'[r] = "pending"
      BY <1>1, <2>1, <2>2 DEF Granting, Waiting, Pending
    <2>6. InOrder("slot")'
      BY <2>2, <2>3, <2>5, JoinsInOrder DEF QueueInv, Semaphores
    <2> QED
      BY <2>4, <2>6 DEF QueueInv, Semaphores
  <1>6. CASE AdmittedRun(r)
    <2>1. PICK q \in Without("admission", r), V \in SUBSET Pending("admission") :
            /\ WakesFirst("admission", V, permits["admission"])
            /\ fut' = Granting(V, r, "none")
            /\ waiters' = [waiters EXCEPT !["admission"] = q]
      BY <1>6 DEF AdmittedRun
    <2>2. stage' = [stage EXCEPT ![r] = "running"] /\ Firsts(V)
      BY <1>6, <2>1, WokenAreFirsts DEF AdmittedRun
    <2>3. \A s \in Semaphores : waiters'[s] = waiters[s] \/ waiters'[s] \in Without(s, r)
      BY <1>4, <2>1 DEF Semaphores
    <2> QED
      BY <1>2, <1>3, <2>1, <2>2, <2>3
  <1>7. CASE QueuedRun(r)
    <2>1. PICK q \in Without("slot", r), W \in SUBSET Pending("slot") :
            /\ WakesFirst("slot", W, permits["slot"])
            /\ fut' = Granting(W, r, "none")
            /\ waiters' = [waiters EXCEPT !["slot"] = q]
      BY <1>7 DEF QueuedRun
    <2>2. stage' = [stage EXCEPT ![r] = "running"] /\ Firsts(W)
      BY <1>7, <2>1, WokenAreFirsts DEF QueuedRun
    <2>3. \A s \in Semaphores : waiters'[s] = waiters[s] \/ waiters'[s] \in Without(s, r)
      BY <1>4, <2>1 DEF Semaphores
    <2> QED
      BY <1>2, <1>3, <2>1, <2>2, <2>3
  <1>8. CASE AdmissionExpires(r)
    <2>1. PICK q \in Without("admission", r), V \in SUBSET Pending("admission") :
            /\ WakesFirst("admission", V, GivenBack("admission", r))
            /\ fut' = Granting(V, r, "none")
            /\ waiters' = [waiters EXCEPT !["admission"] = q]
      BY <1>8 DEF AdmissionExpires
    <2>2. stage' = [stage EXCEPT ![r] = "done"] /\ Firsts(V)
      BY <1>8, <2>1, WokenAreFirsts DEF AdmissionExpires, Answer
    <2>3. \A s \in Semaphores : waiters'[s] = waiters[s] \/ waiters'[s] \in Without(s, r)
      BY <1>4, <2>1 DEF Semaphores
    <2> QED
      BY <1>2, <1>3, <2>1, <2>2, <2>3
  <1>9. CASE SlotExpires(r)
    <2>1. PICK q \in Without("slot", r), W \in SUBSET Pending("slot"),
               V \in SUBSET Pending("admission") :
            /\ WakesFirst("slot", W, GivenBack("slot", r))
            /\ WakesFirst("admission", V, 1)
            /\ fut' = Granting(W \cup V, r, "none")
            /\ waiters' = [waiters EXCEPT !["slot"] = q]
      BY <1>9 DEF SlotExpires
    <2>2. stage' = [stage EXCEPT ![r] = "done"] /\ Firsts(W \cup V)
      BY <1>9, <2>1, WokenAreFirsts DEF SlotExpires, Answer
    <2>3. \A s \in Semaphores : waiters'[s] = waiters[s] \/ waiters'[s] \in Without(s, r)
      BY <1>4, <2>1 DEF Semaphores
    <2> QED
      BY <1>2, <1>3, <2>1, <2>2, <2>3
  <1>10. CASE Finish(r)
    <2>1. PICK a \in {"result", "unavailable"} : TaskEnds(r, a)
      BY <1>10 DEF Finish
    <2>2. PICK W \in SUBSET Pending("slot"), V \in SUBSET Pending("admission") :
            /\ WakesFirst("slot", W, 1)
            /\ WakesFirst("admission", V, 1)
            /\ fut' = Granting(W \cup V, r, "none")
      BY <2>1 DEF TaskEnds
    <2>3. /\ stage' = [stage EXCEPT ![r] = "done"] /\ Firsts(W \cup V)
          /\ \A s \in Semaphores : waiters'[s] = waiters[s]
      BY <2>1, <2>2, WokenAreFirsts DEF TaskEnds, Answer
    <2> QED
      BY <1>2, <1>3, <2>2, <2>3
  <1> QED
    BY <1>5, <1>6, <1>7, <1>8, <1>9, <1>10 DEF Resume

\* Every step keeps the order of the queues.
LEMMA NextInOrder == TypeOK /\ QueueInv /\ [Next]_vars => QueueInv'
  <1> SUFFICES ASSUME TypeOK, QueueInv, [Next]_vars
               PROVE  QueueInv'
    OBVIOUS
  <1>1. ASSUME NEW r \in Requests, TimerFires(r)
        PROVE  QueueInv'
    <2>1. /\ stage' = stage /\ waiters' = waiters
          /\ \A x \in Requests : fut'[x] \in {"pending", "granted"} => fut'[x] = fut[x]
      BY <1>1 DEF TimerFires, TypeOK
    <2> QED
      BY <2>1 DEF QueueInv, InOrder, Waiting, Pending, Before
  <1>2. CASE TimePasses \/ UNCHANGED vars
    BY <1>2 DEF TimePasses, vars, QueueInv, InOrder, Waiting, Pending, Before
  <1> QED
    BY <1>1, <1>2, ArriveInOrder, ResumeInOrder DEF Next, AllAnswered

\* A call that starts its task overtakes nobody.
LEMMA StartsInTurn ==
  ASSUME TypeOK, QueueInv, [Next]_vars, NEW b \in Requests,
         stage[b] # "running", stage'[b] = "running", NEW a \in Pending("slot")
  PROVE  stage[b] = "slot" /\ Before("slot", b, a)
  <1>1. stage \in [Requests -> Stages]
    BY DEF TypeOK
  <1>2. \E x \in Waiting("slot") : fut[x] # "cancelled"
    BY DEF Pending
  <1>3. ASSUME NEW r \in Requests, Arrive(r)
        PROVE  stage'[b] # "running"
    BY <1>1, <1>2, <1>3
    DEF Arrive, ArriveLimited, ArriveWait, ArriveQueue, ArriveRun, Answer, Locked, Stages
  <1>4. ASSUME NEW r \in Requests, Resume(r) \/ TimerFires(r) \/ Finish(r)
        PROVE  r = b /\ QueuedRun(b)
    BY <1>1, <1>2, <1>4
    DEF Resume, Finish, AdmittedQueue, AdmittedRun, QueuedRun, AdmissionExpires, SlotExpires,
        TimerFires, TaskEnds, Answer, Locked, Stages
  <1>5. ~TimePasses /\ ~UNCHANGED vars
    BY DEF TimePasses, vars
  <1>6. QueuedRun(b)
    BY <1>3, <1>4, <1>5 DEF Next, AllAnswered
  <1>7. b \in Waiting("slot") /\ fut[b] = "granted"
    BY <1>6 DEF QueuedRun, Waiting
  <1> QED
    BY <1>7 DEF QueueInv, InOrder, Waiting, Semaphores

\* Nobody waits at first.
LEMMA InitInOrder == Init => QueueInv
  BY DEF Init, QueueInv, InOrder, Waiting, Pending, Semaphores

(***************************************************************************)
(* A call starts its task in its turn, for any number of calls, permits    *)
(* and timers that race with grants: the wake-ups of asyncio.Semaphore go  *)
(* to the first waiter, and acquire() does not pass a waiting one.         *)
(***************************************************************************)
THEOREM SpecNoOvertaking == Spec => NoOvertaking
  <1>1. TypeOK /\ QueueInv /\ [Next]_vars =>
          [\A b \in Requests : stage[b] # "running" /\ stage'[b] = "running" =>
              \A a \in Pending("slot") : stage[b] = "slot" /\ Before("slot", b, a)]_vars
    BY StartsInTurn
  <1> QED
    BY <1>1, SpecTypeOK, InitInOrder, NextInOrder, PTL DEF Spec, NoOvertaking

=============================================================================
