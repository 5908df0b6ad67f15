-------------------------- MODULE RateWindowProofs --------------------------
(***************************************************************************)
(* The sliding window never accepts too many requests, whatever the keys,  *)
(* the rate and the length of the window.                                  *)
(***************************************************************************)
EXTENDS RateWindow, SequenceTheorems, TLAPS

\* The invariant of the window holds in the initial states.
LEMMA RateInitInv == RateInit => RateInv
  BY RateAssumption
  DEF RateInit, RateInv, RateTypeOK, DequeIsRecentLog, RecentFrom, RateBound

\* Popping the first d entries of a deque: its length and its entries.
LEMMA DropFirstProperties ==
  ASSUME NEW S, NEW q \in Seq(S), NEW d \in 0..Len(q)
  PROVE  /\ DropFirst(q, d) \in Seq(S)
         /\ Len(DropFirst(q, d)) = Len(q) - d
         /\ \A i \in 1..(Len(q) - d) : DropFirst(q, d)[i] = q[d + i]
  <1> DEFINE m == d + 1
             n == Len(q)
  <1>1. m \in Int /\ n \in Int /\ \A i \in m..n : q[i] \in S
    OBVIOUS
  <1>2. /\ SubSeq(q, m, n) \in Seq(S)
        /\ Len(SubSeq(q, m, n)) = IF m <= n THEN n - m + 1 ELSE 0
        /\ \A i \in 1..(n - m + 1) : SubSeq(q, m, n)[i] = q[m + i - 1]
    <2> HIDE DEF m, n
    <2> QED BY <1>1, SubSeqProperties
  <1>3. Len(SubSeq(q, m, n)) = n - d
    BY <1>2
  <1>4. ASSUME NEW i \in 1..(n - d)
        PROVE  SubSeq(q, m, n)[i] = q[d + i]
    <2>1. i \in 1..(n - m + 1) /\ m + i - 1 = d + i
      OBVIOUS
    <2>2. SubSeq(q, m, n)[i] = q[m + i - 1]
      <3> HIDE DEF m, n
      <3> QED BY <2>1, <1>2
    <2> QED BY <2>1, <2>2
  <1> QED BY <1>2, <1>3, <1>4 DEF DropFirst

\* The passing of time keeps the invariant: what was stale stays stale.
LEMMA TickInv == RateInv /\ Tick => RateInv'
  <1> SUFFICES ASSUME RateInv, Tick PROVE RateInv'
    OBVIOUS
  <1> USE RateAssumption DEF RateInv
  <1>1. RateTypeOK'
    BY DEF Tick, RateTypeOK
  <1>2. DequeIsRecentLog'
    <2> SUFFICES ASSUME NEW k \in Keys
                 PROVE  (\E d \in 0..Len(log[k]) : RecentFrom(k, d))'
      BY DEF DequeIsRecentLog
    <2>1. PICK d \in 0..Len(log[k]) : RecentFrom(k, d)
      BY DEF DequeIsRecentLog
    <2>2. ASSUME NEW i \in 1..d PROVE Stale(log[k][i])'
      <3>1. log[k][i] \in Int /\ now \in Int
        BY DEF RateTypeOK
      <3>2. now - log[k][i] > Window
        BY <2>1 DEF RecentFrom, Stale
      <3> QED BY <3>1, <3>2 DEF Tick, Stale
    <2>3. RecentFrom(k, d)'
      BY <2>1, <2>2 DEF Tick, RecentFrom
    <2> QED BY <2>3 DEF Tick
  <1>3. RateBound'
    BY DEF Tick, RateBound
  <1> QED BY <1>1, <1>2, <1>3

\* Popping d stale entries keeps the deque of k a recent part of the log.
LEMMA PopsStaleRecent ==
  ASSUME RateTypeOK, NEW k \in Keys, NEW e \in 0..Len(log[k]), RecentFrom(k, e),
         NEW d \in 0..Len(hits[k]), PopsStale(hits[k], d)
  PROVE  /\ e + d \in 0..Len(log[k])
         /\ Len(DropFirst(hits[k], d)) = Len(log[k]) - (e + d)
         /\ \A i \in 1..Len(DropFirst(hits[k], d)) :
              DropFirst(hits[k], d)[i] = log[k][(e + d) + i]
         /\ \A i \in 1..(e + d) : Stale(log[k][i])
  <1>1. hits[k] \in Seq(0..MaxTime) /\ log[k] \in Seq(0..MaxTime)
    BY DEF RateTypeOK
  <1>2. e + d \in 0..Len(log[k])
    BY <1>1 DEF RecentFrom
  <1>3. Len(DropFirst(hits[k], d)) = Len(log[k]) - (e + d)
    <2>1. Len(DropFirst(hits[k], d)) = Len(hits[k]) - d
      BY <1>1, DropFirstProperties
    <2>2. Len(hits[k]) = Len(log[k]) - e /\ Len(log[k]) \in Nat
      BY <1>1 DEF RecentFrom
    <2> QED BY <2>1, <2>2
  <1>4. ASSUME NEW i \in 1..Len(DropFirst(hits[k], d))
        PROVE  DropFirst(hits[k], d)[i] = log[k][(e + d) + i]
    <2>1. i \in 1..(Len(hits[k]) - d) /\ d + i \in 1..Len(hits[k])
      BY <1>1, <1>3 DEF RecentFrom
    <2>2. DropFirst(hits[k], d)[i] = hits[k][d + i]
      BY <1>1, <2>1, DropFirstProperties
    <2>3. hits[k][d + i] = log[k][e + (d + i)]
      BY <2>1 DEF RecentFrom
    <2> QED BY <2>2, <2>3, <1>1
  <1>5. ASSUME NEW i \in 1..(e + d)
        PROVE  Stale(log[k][i])
    <2>1. CASE i <= e
      BY <2>1 DEF RecentFrom
    <2>2. CASE i > e
      <3>1. i - e \in 1..d /\ i - e \in 1..Len(hits[k]) /\ e + (i - e) = i
        BY <2>2, <1>1
      <3>2. hits[k][i - e] = log[k][i]
        BY <3>1 DEF RecentFrom
      <3> QED BY <3>1, <3>2 DEF PopsStale
    <2> QED BY <2>1, <2>2, <1>1
  <1> QED BY <1>2, <1>3, <1>4, <1>5

\* A refused request only pops stale entries.
LEMMA RefuseHitInv ==
  ASSUME RateInv, NEW k \in Keys, RefuseHit(k)
  PROVE  RateInv'
  <1> USE RateAssumption DEF RateInv
  <1>1. PICK d \in 0..Len(hits[k]) :
          /\ PopsStale(hits[k], d)
          /\ hits' = [hits EXCEPT ![k] = DropFirst(@, d)]
          /\ UNCHANGED <<now, log>>
    BY DEF RefuseHit
  <1>2. hits[k] \in Seq(0..MaxTime)
    BY DEF RateTypeOK
  <1>3. RateTypeOK'
    BY <1>1, <1>2, DropFirstProperties DEF RateTypeOK
  <1>4. DequeIsRecentLog'
    <2> SUFFICES ASSUME NEW j \in Keys
                 PROVE  (\E e \in 0..Len(log[j]) : RecentFrom(j, e))'
      BY DEF DequeIsRecentLog
    <2>1. PICK e \in 0..Len(log[j]) : RecentFrom(j, e)
      BY DEF DequeIsRecentLog
    <2>2. CASE j # k
      <3>1. RecentFrom(j, e)'
        BY <1>1, <2>1, <2>2 DEF RateTypeOK, RecentFrom, Stale
      <3> QED BY <3>1, <1>1
    <2>3. CASE j = k
      <3>1. hits'[k] = DropFirst(hits[k], d)
        BY <1>1 DEF RateTypeOK
      <3>2. /\ e + d \in 0..Len(log[k])
            /\ Len(hits'[k]) = Len(log[k]) - (e + d)
            /\ \A i \in 1..Len(hits'[k]) : hits'[k][i] = log[k][(e + d) + i]
            /\ \A i \in 1..(e + d) : Stale(log[k][i])
        <4>1. /\ e + d \in 0..Len(log[k])
              /\ Len(DropFirst(hits[k], d)) = Len(log[k]) - (e + d)
              /\ \A i \in 1..Len(DropFirst(hits[k], d)) :
                   DropFirst(hits[k], d)[i] = log[k][(e + d) + i]
              /\ \A i \in 1..(e + d) : Stale(log[k][i])
          BY <1>1, <2>1, <2>3, PopsStaleRecent
        <4> QED BY <4>1, <3>1
      <3>3. \A t : Stale(t)' <=> Stale(t)
        BY <1>1 DEF Stale
      <3>4. RecentFrom(k, e + d)'
        BY <1>1, <3>2, <3>3 DEF RecentFrom
      <3> QED BY <3>2, <3>4, <2>3, <1>1
    <2> QED BY <2>2, <2>3
  <1>5. RateBound'
    BY <1>1 DEF RateBound
  <1> QED BY <1>3, <1>4, <1>5

\* An accepted request enters the deque and the log; the entries that no
\* longer count against it are those the deque has lost.
LEMMA AcceptHitInv ==
  ASSUME RateInv, NEW k \in Keys, AcceptHit(k)
  PROVE  RateInv'
  <1> USE RateAssumption DEF RateInv
  <1>1. PICK d \in 0..Len(hits[k]) :
          /\ PopsStale(hits[k], d)
          /\ Len(hits[k]) - d < RatePerMinute
          /\ hits' = [hits EXCEPT ![k] = Append(DropFirst(@, d), now)]
          /\ log' = [log EXCEPT ![k] = Append(@, now)]
          /\ UNCHANGED now
    BY DEF AcceptHit
  <1>2. /\ hits[k] \in Seq(0..MaxTime) /\ log[k] \in Seq(0..MaxTime)
        /\ now \in 0..MaxTime
    BY DEF RateTypeOK
  <1> DEFINE q == DropFirst(hits[k], d)
             n == Len(log[k])
  <1>3. q \in Seq(0..MaxTime) /\ n \in Nat
    BY <1>2, DropFirstProperties
  <1>4. /\ hits'[k] = Append(q, now) /\ log'[k] = Append(log[k], now)
        /\ \A j \in Keys \ {k} : hits'[j] = hits[j] /\ log'[j] = log[j]
    BY <1>1 DEF RateTypeOK
  <1>5. \A t : Stale(t)' <=> Stale(t)
    BY <1>1 DEF Stale
  <1>6. RateTypeOK'
    BY <1>1, <1>2, <1>3 DEF RateTypeOK
  <1>7. PICK e \in 0..n : RecentFrom(k, e)
    BY DEF DequeIsRecentLog
  <1>8. /\ e + d \in 0..n
        /\ Len(q) = n - (e + d)
        /\ \A i \in 1..Len(q) : q[i] = log[k][(e + d) + i]
        /\ \A i \in 1..(e + d) : Stale(log[k][i])
    BY <1>1, <1>7, PopsStaleRecent
  <1> HIDE DEF q, n
  <1>9. /\ Len(hits'[k]) = Len(q) + 1
        /\ \A i \in 1..Len(q) : hits'[k][i] = q[i]
        /\ hits'[k][Len(q) + 1] = now
        /\ Len(log'[k]) = n + 1
        /\ \A i \in 1..n : log'[k][i] = log[k][i]
        /\ log'[k][n + 1] = now
    BY <1>2, <1>3, <1>4 DEF n
  <1>10. DequeIsRecentLog'
    <2> SUFFICES ASSUME NEW j \in Keys
                 PROVE  (\E f \in 0..Len(log[j]) : RecentFrom(j, f))'
      BY DEF DequeIsRecentLog
    <2>1. CASE j # k
      <3>1. PICK f \in 0..Len(log[j]) : RecentFrom(j, f)
        BY DEF DequeIsRecentLog
      <3>2. RecentFrom(j, f)'
        BY <3>1, <2>1, <1>4, <1>5 DEF RecentFrom
      <3> QED BY <3>2, <2>1, <1>4
    <2>2. CASE j = k
      <3>1. e + d \in 0..Len(log'[k]) /\ Len(hits'[k]) = Len(log'[k]) - (e + d)
        BY <1>8, <1>9, <1>3
      <3>2. ASSUME NEW i \in 1..Len(hits'[k])
            PROVE  hits'[k][i] = log'[k][(e + d) + i]
        <4>1. CASE i = Len(q) + 1
          BY <4>1, <1>8, <1>9, <1>3
        <4>2. CASE i \in 1..Len(q)
          <5>1. (e + d) + i \in 1..n
            BY <4>2, <1>8, <1>3
          <5> QED BY <5>1, <4>2, <1>8, <1>9
        <4> QED BY <4>1, <4>2, <1>9, <1>3
      <3>3. \A i \in 1..(e + d) : Stale(log'[k][i])
        BY <1>8, <1>9, <1>3
      <3>4. RecentFrom(k, e + d)'
        BY <3>1, <3>2, <3>3, <1>5 DEF RecentFrom
      <3> QED BY <3>1, <3>4, <2>2
    <2> QED BY <2>1, <2>2
  <1>11. RateBound'
    <2> SUFFICES ASSUME NEW j \in Keys, NEW x \in 1..Len(log'[j]),
                        NEW y \in 1..Len(log'[j]), y >= x + RatePerMinute
                 PROVE  log'[j][y] - log'[j][x] > Window
      BY DEF RateBound
    <2>1. CASE j # k
      BY <2>1, <1>4 DEF RateBound
    <2>2. CASE j = k /\ y \in 1..n
      <3>1. 0 < RatePerMinute
        BY <1>1, <1>2
      <3>2. x \in 1..n
        BY <2>2, <3>1, <1>3
      <3>3. log[k][y] - log[k][x] > Window
        BY <2>2, <3>2 DEF RateBound, n
      <3> QED BY <2>2, <3>2, <3>3, <1>9
    <2>3. CASE j = k /\ y = n + 1
      <3>1. Len(hits[k]) - d = Len(q)
        BY <1>2, DropFirstProperties DEF q
      <3>2. x \in 1..(e + d)
        BY <3>1, <2>3, <1>1, <1>8, <1>3
      <3>3. now - log[k][x] > Window
        BY <3>2, <1>8 DEF Stale
      <3>4. x \in 1..n
        BY <3>2, <1>8, <1>3
      <3> QED BY <2>3, <3>3, <3>4, <1>9
    <2> QED BY <2>1, <2>2, <2>3, <1>9, <1>3
  <1> QED BY <1>6, <1>10, <1>11
=============================================================================
