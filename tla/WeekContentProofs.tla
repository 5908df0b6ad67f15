------------------------- MODULE WeekContentProofs -------------------------
(***************************************************************************)
(* The snapshots of a week for every number of administrators, cases and   *)
(* kept snapshots, as long as no handler serialises before its transaction *)
(* beside another (resave), and none leaves its snapshot out (legacy); the *)
(* verified marks, for all operations but one administrator at a time; and *)
(* the types, for everything.                                              *)
(***************************************************************************)
EXTENDS WeekContent, SequenceTheorems, FiniteSetTheorems, TLAPS

-----------------------------------------------------------------------------
(* The inductive invariants *)

\* The snapshots s stand in the order of their versions.
Ordered(s) ==
    /\ (\E T : s \in Seq(T)) /\ Len(s) \in Nat \ {0}
    /\ \A i \in 1..Len(s) : s[i].version \in Nat
    /\ \A i, k \in 1..Len(s) : i < k => s[i].version < s[k].version

\* What waits for its transaction: a request that serialised before it is
\* still up to date, and only the legacy import leaves its snapshot out.
Pending(j) ==
    /\ j.op = "resave" => "resave" \in Ops /\ j.saved = Reloaded(head, cases)
    /\ j.op = "edit" => j.snapshot = TRUE \/ "legacy" \in Ops

JobsInv == DOMAIN job = Admins /\ \A a \in Admins : Pending(job[a])

OrderInv == Ordered(snaps) /\ JobsInv

ContentInv == OrderInv /\ NewestSnapshotIsContent

\* A request that changes nothing may come, but then nobody works beside it.
ResaveAlone == "resave" \in Ops => \E b : Admins = {b}

-----------------------------------------------------------------------------
(* _save_snapshot *)

\* The newest version is the one of the last row.
LEMMA LatestIs ==
  ASSUME Ordered(snaps)
  PROVE  Latest = snaps[Len(snaps)].version /\ Latest \in Nat
  <1> DEFINE n == Len(snaps)
             V == {snaps[i].version : i \in DOMAIN snaps}
             m == snaps[n].version
  <1>1. n \in Nat \ {0} /\ DOMAIN snaps = 1..n
    BY DEF Ordered
  <1>2. \A i \in 1..n : snaps[i].version \in Nat /\ snaps[i].version <= m
    <2>1. ASSUME NEW i \in 1..n
          PROVE  snaps[i].version \in Nat /\ snaps[i].version <= m
      <3>1. CASE i = n
        BY <1>1, <3>1 DEF Ordered
      <3>2. CASE i < n
        BY <1>1, <3>2 DEF Ordered
      <3>3. i = n \/ i < n
        <4> HIDE DEF n
        <4> QED
          BY <1>1
      <3> QED
        BY <3>1, <3>2, <3>3
    <2> QED
      BY <2>1
  <1>3. m \in V /\ (\A y \in V : y \in Nat /\ m >= y)
    BY <1>1, <1>2
  <1> HIDE DEF V, m, n
  <1>4. \A x \in V : (\A y \in V : x >= y) => x = m
    BY <1>3
  <1>5. Max(V) = m
    BY <1>3, <1>4 DEF Max
  <1> QED
    BY <1>3, <1>5 DEF Latest, V, m, n

\* The rows w without the first when they are too many.
Pruned(w) == IF Len(w) <= KeepSnapshots THEN w ELSE Tail(w)

\* A snapshot with the next version stands last, and only the oldest goes.
LEMMA WithSnapshotIs ==
  ASSUME Ordered(snaps), NEW s, s.version = Latest + 1, NEW q \in WithSnapshot(s)
  PROVE  Ordered(q) /\ q[Len(q)] = s /\ q = Pruned(Append(snaps, s))
  <1>0. PICK S : snaps \in Seq(S)
    BY DEF Ordered
  <1> DEFINE n == Len(snaps)
             T == S \cup {s}
             all == Append(snaps, s)
  <1>1. n \in Nat \ {0} /\ snaps \in Seq(T)
    BY <1>0 DEF Ordered
  <1>2. /\ all \in Seq(T) /\ Len(all) = n + 1
        /\ \A i \in 1..n : all[i] = snaps[i]
        /\ all[n + 1] = s
    BY <1>1
  <1>3. /\ \A i \in 1..(n + 1) : all[i].version \in Nat
        /\ \A i, k \in 1..(n + 1) : i < k => all[i].version < all[k].version
    <2>1. \A i \in 1..n : snaps[i].version \in Nat /\ snaps[i].version <= Latest
      <3>1. ASSUME NEW i \in 1..n
            PROVE  snaps[i].version \in Nat /\ snaps[i].version <= Latest
        <4>1. CASE i = n
          BY <1>1, <4>1, LatestIs
        <4>2. CASE i < n
          BY <1>1, <4>2, LatestIs DEF Ordered
        <4> QED
          BY <1>1, <4>1, <4>2
      <3> QED
        BY <3>1
    <2>2. all[n + 1].version \in Nat /\ Latest \in Nat /\ all[n + 1].version = Latest + 1
      BY <1>2, LatestIs
    <2>3. \A i, k \in 1..n : i < k => all[i].version < all[k].version
      BY <1>2 DEF Ordered
    <2>4. \A i \in 1..n : all[i].version \in Nat /\ all[i].version < all[n + 1].version
      BY <1>2, <2>1, <2>2
    <2> HIDE DEF all
    <2>5. \A i \in 1..(n + 1) : i \in 1..n \/ i = n + 1
      BY <1>1
    <2>6. ASSUME NEW i \in 1..(n + 1), NEW k \in 1..(n + 1), i < k
          PROVE  all[i].version < all[k].version
      <3>1. i \in 1..n
        BY <1>1, <2>6
      <3> QED
        BY <2>3, <2>4, <2>5, <2>6, <3>1
    <2> QED
      BY <2>2, <2>4, <2>5, <2>6
  <1> DEFINE oldest == {i \in DOMAIN all : \A k \in DOMAIN all : all[i].version <= all[k].version}
  <1>4. q \in (IF Len(all) <= KeepSnapshots THEN {all} ELSE {RemoveAt(all, i) : i \in oldest})
    BY DEF WithSnapshot
  <1> HIDE DEF all
  <1>5. CASE Len(all) <= KeepSnapshots
    <2>1. q = all /\ q = Pruned(all)
      BY <1>4, <1>5 DEF Pruned
    <2>2. Ordered(all) /\ all[Len(all)] = s
      BY <1>1, <1>2, <1>3 DEF Ordered
    <2> QED
      BY <2>1, <2>2 DEF all
  <1>6. CASE ~(Len(all) <= KeepSnapshots)
    <2>1. PICK i \in oldest : q = RemoveAt(all, i)
      BY <1>4, <1>6
    <2>2. i = 1
      <3>1. i \in 1..(n + 1) /\ 1 \in 1..(n + 1) /\ all[i].version <= all[1].version
        BY <1>1, <1>2
      <3>2. ~(1 < i)
        BY <1>3, <3>1
      <3> QED
        BY <1>1, <3>1, <3>2
    <2>3. /\ SubSeq(all, 1, 0) \in Seq(T) /\ Len(SubSeq(all, 1, 0)) = 0
      BY <1>2, SubSeqProperties
    <2>4. /\ SubSeq(all, 2, n + 1) \in Seq(T) /\ Len(SubSeq(all, 2, n + 1)) = n
          /\ \A j \in 1..n : SubSeq(all, 2, n + 1)[j] = all[j + 1]
      BY <1>1, <1>2, SubSeqProperties
    <2>5. q = SubSeq(all, 1, 0) \o SubSeq(all, 2, n + 1)
      BY <1>2, <2>1, <2>2 DEF RemoveAt
    <2>6. /\ q \in Seq(T) /\ Len(q) = n /\ \A j \in 1..n : q[j] = all[j + 1]
      BY <1>1, <2>3, <2>4, <2>5
    <2>7. ASSUME NEW m \in 1..n, NEW k \in 1..n, m < k
          PROVE  q[m].version < q[k].version
      <3> HIDE DEF n
      <3>1. m + 1 \in 1..(n + 1) /\ k + 1 \in 1..(n + 1) /\ m + 1 < k + 1
        BY <1>1, <2>7
      <3>2. all[m + 1].version < all[k + 1].version
        BY <1>3, <3>1
      <3> QED
        BY <2>6, <3>2
    <2>8. \A m \in 1..n : q[m].version \in Nat
      BY <1>1, <1>3, <2>6
    <2>9. Ordered(q) /\ q[Len(q)] = s
      BY <1>1, <1>2, <2>6, <2>7, <2>8 DEF Ordered
    <2>10. q = Tail(all)
      <3>1. /\ Tail(all) \in Seq(T) /\ Len(Tail(all)) = n
            /\ \A j \in 1..n : Tail(all)[j] = all[j + 1]
        BY <1>1, <1>2, HeadTailProperties
      <3> QED
        BY <2>6, <3>1, SeqEqual
    <2>11. q = Pruned(all)
      BY <1>6, <2>10 DEF Pruned
    <2> QED
      BY <2>9, <2>11 DEF all
  <1> QED
    BY <1>5, <1>6

-----------------------------------------------------------------------------
(* The steps *)

\* What the handlers begin.
LEMMA BeginsJob ==
  ASSUME NEW a \in Admins, Begins(a)
  PROVE  \E j : Start(a, j) /\ Pending(j)
  <1>1. ASSUME NEW h, NEW touch, NEW drop, NEW n, Start(a, Edit(h, touch, drop, n))
        PROVE  \E j : Start(a, j) /\ Pending(j)
    <2>1. Edit(h, touch, drop, n).op = "edit" /\ Edit(h, touch, drop, n).snapshot = TRUE
      BY DEF Edit
    <2> QED
      BY <1>1, <2>1 DEF Pending
  <1>2. ASSUME NEW i \in 1..KeepSnapshots, Rollback(a, i)
        PROVE  \E j : Start(a, j) /\ Pending(j)
    <2> DEFINE d == snaps[i].data
               e == Edit(Restored(d), {}, cases, d.count)
               j == [e EXCEPT !.reuse = TRUE]
    <2>1. Start(a, j)
      BY <1>2 DEF Rollback
    <2>2. j.op = "edit" /\ j.snapshot = TRUE
      BY DEF Edit
    <2> QED
      BY <2>1, <2>2 DEF Pending
  <1>3. CASE VerifyBegin(a)
    <2> DEFINE j == [op |-> "verify", code |-> head.code, verified |-> head.verified]
    <2>1. Start(a, j)
      BY <1>3 DEF VerifyBegin
    <2>2. Pending(j)
      BY DEF Pending
    <2> QED
      BY <2>1, <2>2
  <1>4. CASE Resave(a)
    <2> DEFINE j == [op |-> "resave", saved |-> Reloaded(head, cases)]
    <2>1. Start(a, j) /\ "resave" \in Ops
      BY <1>4 DEF Resave
    <2>2. Pending(j)
      BY <2>1 DEF Pending
    <2> QED
      BY <2>1, <2>2
  <1>5. ASSUME NEW t, NEW n, NEW c, ImportLegacy(a, t, n, c)
        PROVE  \E j : Start(a, j) /\ Pending(j)
    <2> DEFINE h == [Bumped EXCEPT !.text = t, !.version = IF Exists THEN @ ELSE 2]
               e == Edit(IF c = "none" THEN h ELSE Answered(h, c), {}, cases, n)
               j == [e EXCEPT !.snapshot = FALSE]
    <2>1. Start(a, j) /\ "legacy" \in Ops
      BY <1>5 DEF ImportLegacy
    <2>2. j.op = "edit"
      BY DEF Edit
    <2> QED
      BY <2>1, <2>2 DEF Pending
  <1> QED
    BY <1>1, <1>2, <1>3, <1>4, <1>5
    DEF Begins, SaveProblem, DeleteProblem, AddCases, UpdateCase, DeleteCase, SaveSolution,
        ImportZip, ImportJson

\* The mark is not part of what is compared.
LEMMA MarkNotCounted ==
  ASSUME NEW b
  PROVE  Unmarked(DataOf([head EXCEPT !.verified = b], cases)) = Unmarked(DataOf(head, cases))
  <1>1. ASSUME NEW h
        PROVE  Unmarked(DataOf(h, cases))
                 = [head |-> [h EXCEPT !.verified = FALSE], count |-> Cardinality(cases)]
    <2> DEFINE d == DataOf(h, cases)
               g == [h EXCEPT !.verified = FALSE]
               n == Cardinality(cases)
    <2>1. d = [head |-> h, count |-> n]
      BY DEF DataOf
    <2>2. Unmarked(d) = [d EXCEPT !.head = [d.head EXCEPT !.verified = FALSE]]
      BY DEF Unmarked
    <2>3. [d.head EXCEPT !.verified = FALSE] = g
      BY <2>1
    <2> HIDE DEF d, g, n
    <2>4. [d EXCEPT !.head = g] = [head |-> g, count |-> n]
      BY <2>1
    <2> QED
      BY <2>2, <2>3, <2>4 DEF d, g, n
  <1>2. [[head EXCEPT !.verified = b] EXCEPT !.verified = FALSE] = [head EXCEPT !.verified = FALSE]
    OBVIOUS
  <1> QED
    BY <1>1, <1>2

\* Snapshots and content, apart from the mark, stay as they are.
Quiet == UNCHANGED snaps /\ Unmarked(DataOf(head', cases')) = Unmarked(DataOf(head, cases))

\* The snapshot s is taken, and is that of the content.
Takes(s) ==
    /\ s.version = Latest + 1 /\ s.data = DataOf(head', cases')
    /\ snaps' \in WithSnapshot(s)

\* Every step takes a snapshot, leaves content and snapshots alone, or is the
\* legacy import.
LEMMA Steps ==
  ASSUME OrderInv, [Next]_vars
  PROVE  Quiet \/ (\E s : Takes(s)) \/ ("legacy" \in Ops /\ UNCHANGED snaps)
  <1>1. ASSUME NEW a \in Admins, Begins(a)
        PROVE  Quiet
    <2>1. PICK j : Start(a, j)
      BY <1>1, BeginsJob
    <2> QED
      BY <2>1 DEF Start, Quiet, Unmarked, DataOf
  <1>2. ASSUME NEW a \in Admins, EditCommit(a), job[a].snapshot
        PROVE  \E s : Takes(s)
    <2>1. snaps' \in WithSnapshot(Reloaded(head', cases'))
      BY <1>2 DEF EditCommit
    <2>2. Takes(Reloaded(head', cases'))
      BY <2>1 DEF Takes, Reloaded
    <2> QED
      BY <2>2
  <1>3. ASSUME NEW a \in Admins, EditCommit(a), ~job[a].snapshot
        PROVE  "legacy" \in Ops /\ UNCHANGED snaps
    <2>1. job[a].op = "edit" /\ UNCHANGED snaps
      BY <1>3 DEF EditCommit
    <2>2. Pending(job[a])
      BY DEF OrderInv, JobsInv
    <2> QED
      BY <1>3, <2>1, <2>2 DEF Pending
  <1>4. ASSUME NEW a \in Admins, ResaveCommit(a)
        PROVE  \E s : Takes(s)
    <2>1. /\ job[a].op = "resave" /\ snaps' \in WithSnapshot(job[a].saved)
          /\ UNCHANGED <<head, cases>>
      BY <1>4 DEF ResaveCommit
    <2>2. job[a].saved = Reloaded(head, cases)
      BY <2>1 DEF OrderInv, JobsInv, Pending
    <2>3. Takes(job[a].saved)
      BY <2>1, <2>2 DEF Takes, Reloaded, DataOf
    <2> QED
      BY <2>3
  <1>5. ASSUME NEW a \in Admins, NEW passed \in BOOLEAN, VerifyEnds(a, passed)
        PROVE  Quiet
    <2>1. UNCHANGED <<cases, snaps>>
      BY <1>5 DEF VerifyEnds
    <2>2. head' = head \/ head' = [head EXCEPT !.verified = passed]
      BY <1>5 DEF VerifyEnds
    <2>3. Unmarked(DataOf(head', cases)) = Unmarked(DataOf(head, cases))
      BY <2>2, MarkNotCounted
    <2> QED
      BY <2>1, <2>3 DEF Quiet
  <1>6. ASSUME NEW a \in Admins, Fails(a)
        PROVE  Quiet
    BY <1>6 DEF Fails, Quiet, Unmarked, DataOf
  <1>7. CASE UNCHANGED vars
    BY <1>7 DEF vars, Quiet, Unmarked, DataOf
  <1> QED
    BY <1>1, <1>2, <1>3, <1>4, <1>5, <1>6, <1>7 DEF Next, Commits

\* A pending request that serialised early is alone, so nothing outdates it.
LEMMA JobsNext ==
  ASSUME ResaveAlone, JobsInv, [Next]_vars
  PROVE  JobsInv'
  <1>1. ASSUME NEW a \in Admins, Begins(a)
        PROVE  JobsInv'
    <2>1. PICK j : Start(a, j) /\ Pending(j)
      BY <1>1, BeginsJob
    <2>2. /\ job' = [job EXCEPT ![a] = j] /\ UNCHANGED <<head, cases, snaps>>
      BY <2>1 DEF Start
    <2>3. \A k : Pending(k)' <=> Pending(k)
      BY <2>2 DEF Pending, Reloaded, Latest, DataOf
    <2> QED
      BY <2>1, <2>2, <2>3 DEF JobsInv, Pending
  <1>2. ASSUME NEW a \in Admins, Done(a)
        PROVE  JobsInv'
    <2>1. DOMAIN job' = Admins /\ job'[a] = Idle
      BY <1>2 DEF Done, JobsInv
    <2>2. ASSUME NEW x \in Admins
          PROVE  Pending(job[x])'
      <3>1. CASE x = a
        BY <2>1, <3>1 DEF Pending, Idle
      <3>2. CASE x # a
        <4>1. job'[x] = job[x] /\ Pending(job[x])
          BY <1>2, <3>2 DEF Done, JobsInv
        <4>2. ~ \E b : Admins = {b}
          BY <3>2
        <4>3. job[x].op # "resave"
          BY <4>1, <4>2 DEF Pending, ResaveAlone
        <4> QED
          BY <4>1, <4>3 DEF Pending
      <3> QED
        BY <3>1, <3>2
    <2> QED
      BY <2>1, <2>2 DEF JobsInv
  <1>3. CASE UNCHANGED vars
    BY <1>3 DEF vars, JobsInv, Pending, Reloaded, Latest, DataOf
  <1> QED
    BY <1>1, <1>2, <1>3 DEF Next, Commits, EditCommit, ResaveCommit, VerifyEnds, Fails

\* Every step keeps the snapshots in order.
LEMMA OrderNext ==
  ASSUME ResaveAlone, OrderInv, [Next]_vars
  PROVE  OrderInv'
  <1>0. Ordered(snaps) /\ JobsInv
    BY DEF OrderInv
  <1>1. ASSUME UNCHANGED snaps
        PROVE  Ordered(snaps')
    BY <1>0, <1>1
  <1>2. ASSUME NEW s, Takes(s)
        PROVE  Ordered(snaps')
    BY <1>0, <1>2, WithSnapshotIs DEF Takes
  <1>3. Ordered(snaps')
    BY <1>1, <1>2, Steps DEF Quiet
  <1>4. JobsInv'
    BY <1>0, JobsNext
  <1> QED
    BY <1>3, <1>4 DEF OrderInv, Ordered

\* Every step keeps the newest snapshot that of the content.
LEMMA ContentNext ==
  ASSUME ResaveAlone, "legacy" \notin Ops, ContentInv, [Next]_vars
  PROVE  ContentInv'
  <1>0. OrderInv /\ OrderInv' /\ NewestSnapshotIsContent /\ Ordered(snaps)
    BY OrderNext DEF ContentInv, OrderInv
  <1>1. ASSUME Quiet
        PROVE  NewestSnapshotIsContent'
    BY <1>0, <1>1 DEF Quiet, NewestSnapshotIsContent, Last, Unmarked, DataOf
  <1>2. ASSUME NEW s, Takes(s)
        PROVE  NewestSnapshotIsContent'
    <2>1. snaps'[Len(snaps')] = s
      BY <1>0, <1>2, WithSnapshotIs DEF Takes
    <2> QED
      BY <1>2, <2>1 DEF Takes, NewestSnapshotIsContent, Last, Unmarked, DataOf
  <1>3. NewestSnapshotIsContent'
    BY <1>0, <1>1, <1>2, Steps
  <1> QED
    BY <1>0, <1>3 DEF ContentInv

\* The week as create_week leaves it.
LEMMA ContentInit == Init => ContentInv
  <1> SUFFICES ASSUME Init
               PROVE  ContentInv
    OBVIOUS
  <1>1. snaps \in Seq({snaps[1]}) /\ Len(snaps) = 1 /\ snaps[1].version = 1
        /\ snaps[1].data = DataOf(head, cases)
    BY DEF Init
  <1>2. Ordered(snaps)
    BY <1>1 DEF Ordered
  <1>3. JobsInv
    BY DEF Init, JobsInv, Pending, Idle
  <1>4. NewestSnapshotIsContent
    BY <1>1 DEF NewestSnapshotIsContent, Last
  <1> QED
    BY <1>2, <1>3, <1>4 DEF ContentInv, OrderInv

\* OrderInv is inductive with all operations ...
LEMMA SpecOrderInv ==
  ASSUME ResaveAlone
  PROVE  Spec => []OrderInv
  <1>1. OrderInv /\ [Next]_vars => OrderInv'
    BY OrderNext
  <1>2. Init => OrderInv
    BY ContentInit DEF ContentInv
  <1> QED
    BY <1>1, <1>2, PTL DEF Spec

\* ... and ContentInv without the legacy import.
LEMMA SpecContentInv ==
  ASSUME ResaveAlone, "legacy" \notin Ops
  PROVE  Spec => []ContentInv
  <1>1. ContentInv /\ [Next]_vars => ContentInv'
    BY ContentNext
  <1> QED
    BY <1>1, ContentInit, PTL DEF Spec

(***************************************************************************)
(* However many administrators edit at once: the newest snapshot is the    *)
(* content, so the next edit overwrites nothing that cannot be restored.   *)
(* Without the legacy import; and a request that changes nothing may come  *)
(* when nobody works beside it.                                            *)
(***************************************************************************)
THEOREM SpecNewestSnapshotIsContent ==
  ASSUME ResaveAlone, "legacy" \notin Ops
  PROVE  Spec => []NewestSnapshotIsContent
  BY SpecContentInv, PTL DEF ContentInv

(***************************************************************************)
(* ... and the versions of the snapshots increase, whichever were dropped, *)
(* with the legacy import as well.                                         *)
(***************************************************************************)
THEOREM SpecSnapshotsInOrder ==
  ASSUME ResaveAlone
  PROVE  Spec => []SnapshotsInOrder
  <1>1. OrderInv => SnapshotsInOrder
    BY DEF OrderInv, Ordered, SnapshotsInOrder
  <1> QED
    BY <1>1, SpecOrderInv, PTL

-----------------------------------------------------------------------------
(* The log of snapshots *)

Entry(s) == [version |-> s.version, data |-> Unmarked(s.data)]

LogOf(w) == [i \in DOMAIN w |-> Entry(w[i])]

\* The entries of a sequence of rows are a sequence.
LEMMA LogIsSeq ==
  ASSUME NEW T, NEW w \in Seq(T)
  PROVE  /\ LogOf(w) \in Seq({Entry(x) : x \in T}) /\ Len(LogOf(w)) = Len(w)
         /\ \A i \in 1..Len(w) : LogOf(w)[i] = Entry(w[i])
  <1> DEFINE n == Len(w)
             E == {Entry(x) : x \in T}
  <1>1. n \in Nat /\ DOMAIN w = 1..n /\ \A i \in 1..n : w[i] \in T
    OBVIOUS
  <1>2. LogOf(w) = [i \in 1..n |-> Entry(w[i])]
    BY <1>1 DEF LogOf
  <1>3. \A i \in 1..n : Entry(w[i]) \in E
    BY <1>1
  <1> HIDE DEF n, E
  <1>4. LogOf(w) \in [1..n -> E]
    BY <1>2, <1>3
  <1>5. LogOf(w) \in Seq(E) /\ Len(LogOf(w)) = n
    BY <1>1, <1>4, IsASeq, LenProperties
  <1> QED
    BY <1>2, <1>5 DEF n, E

\* Taking the entries commutes with appending and with dropping the first.
LEMMA LogOfAppend ==
  ASSUME NEW T, NEW w \in Seq(T), NEW s \in T
  PROVE  LogOf(Append(w, s)) = Append(LogOf(w), Entry(s))
  <1> DEFINE n == Len(w)
             E == {Entry(x) : x \in T}
             a == Append(w, s)
             b == Append(LogOf(w), Entry(s))
  <1>1. /\ n \in Nat /\ a \in Seq(T) /\ Len(a) = n + 1
        /\ (\A i \in 1..n : a[i] = w[i]) /\ a[n + 1] = s
    BY AppendProperties
  <1>2. /\ LogOf(a) \in Seq(E) /\ Len(LogOf(a)) = n + 1
        /\ \A i \in 1..(n + 1) : LogOf(a)[i] = Entry(a[i])
    BY <1>1, LogIsSeq
  <1>3. /\ LogOf(w) \in Seq(E) /\ Len(LogOf(w)) = n
        /\ \A i \in 1..n : LogOf(w)[i] = Entry(w[i])
    BY LogIsSeq
  <1>4. Entry(s) \in E
    OBVIOUS
  <1>5. /\ b \in Seq(E) /\ Len(b) = n + 1
        /\ (\A i \in 1..n : b[i] = LogOf(w)[i]) /\ b[n + 1] = Entry(s)
    BY <1>3, <1>4, AppendProperties
  <1> HIDE DEF n, E, a, b
  <1>6. \A i \in 1..(n + 1) : i \in 1..n \/ i = n + 1
    BY <1>1
  <1>7. \A i \in 1..(n + 1) : LogOf(a)[i] = b[i]
    BY <1>1, <1>2, <1>3, <1>5, <1>6
  <1>8. LogOf(a) = b
    BY <1>2, <1>5, <1>7, SeqEqual
  <1> QED
    BY <1>8 DEF a, b

LEMMA LogOfTail ==
  ASSUME NEW T, NEW w \in Seq(T), w # <<>>
  PROVE  LogOf(Tail(w)) = Tail(LogOf(w))
  <1> DEFINE n == Len(w)
             E == {Entry(x) : x \in T}
             t == Tail(w)
             u == Tail(LogOf(w))
  <1>1. /\ n \in Nat \ {0} /\ t \in Seq(T) /\ Len(t) = n - 1
        /\ \A i \in 1..(n - 1) : t[i] = w[i + 1]
    BY HeadTailProperties
  <1>2. /\ LogOf(t) \in Seq(E) /\ Len(LogOf(t)) = n - 1
        /\ \A i \in 1..(n - 1) : LogOf(t)[i] = Entry(t[i])
    BY <1>1, LogIsSeq
  <1>3. /\ LogOf(w) \in Seq(E) /\ Len(LogOf(w)) = n
        /\ \A i \in 1..n : LogOf(w)[i] = Entry(w[i])
    BY LogIsSeq
  <1>4. LogOf(w) # <<>>
    BY <1>1, <1>3
  <1>5. /\ u \in Seq(E) /\ Len(u) = n - 1
        /\ \A i \in 1..(n - 1) : u[i] = LogOf(w)[i + 1]
    BY <1>3, <1>4, HeadTailProperties
  <1> HIDE DEF n, E, t, u
  <1>6. \A i \in 1..(n - 1) : i + 1 \in 1..n
    BY <1>1
  <1>7. \A i \in 1..(n - 1) : LogOf(t)[i] = u[i]
    BY <1>1, <1>2, <1>3, <1>5, <1>6
  <1>8. LogOf(t) = u
    BY <1>2, <1>5, <1>7, SeqEqual
  <1> QED
    BY <1>8 DEF t, u

\* An edit's snapshot is a change of the log.
LEMMA LogChanges ==
  ASSUME Ordered(snaps), NEW s, s.version = Latest + 1, NEW q \in WithSnapshot(s)
  PROVE  LogOf(q) = Log!Trimmed(Log!Extended(LogOf(snaps), Unmarked(s.data)))
  <1>1. PICK S : snaps \in Seq(S)
    BY DEF Ordered
  <1> DEFINE n == Len(snaps)
             T == S \cup {s}
             all == Append(snaps, s)
  <1>2. snaps \in Seq(T) /\ s \in T /\ n \in Nat \ {0}
    BY <1>1 DEF Ordered
  <1>3. all \in Seq(T) /\ all # <<>> /\ Len(all) = n + 1
    BY <1>2, AppendProperties
  <1>4. Len(LogOf(snaps)) = n /\ LogOf(snaps)[n] = Entry(snaps[n])
    <2>1. /\ Len(LogOf(snaps)) = Len(snaps)
          /\ \A i \in 1..Len(snaps) : LogOf(snaps)[i] = Entry(snaps[i])
      BY <1>1, LogIsSeq
    <2> QED
      BY <1>2, <2>1
  <1>5. Entry(s) = [version |-> Entry(snaps[n]).version + 1, data |-> Unmarked(s.data)]
    BY LatestIs DEF Entry
  <1>6. LogOf(all) = Log!Extended(LogOf(snaps), Unmarked(s.data))
    BY <1>2, <1>4, <1>5, LogOfAppend DEF Log!Extended
  <1>7. Len(LogOf(all)) = Len(all)
    BY <1>3, LogIsSeq
  <1>8. LogOf(Tail(all)) = Tail(LogOf(all))
    BY <1>3, LogOfTail
  <1>9. q = Pruned(all)
    BY WithSnapshotIs
  <1> QED
    BY <1>6, <1>7, <1>8, <1>9 DEF Pruned, Log!Trimmed

\* Every step changes content and log together, or neither.
LEMMA LogNext ==
  ASSUME "legacy" \notin Ops, OrderInv, [Next]_vars
  PROVE  [Log!Change]_(Log!logVars)
  <1>0. Ordered(snaps)
    BY DEF OrderInv
  <1>1. CASE Quiet
    BY <1>1 DEF Quiet, Log!logVars, Unmarked, DataOf
  <1>2. ASSUME NEW s, Takes(s)
        PROVE  Log!Change
    <2> DEFINE c == Unmarked(DataOf(head, cases))
    <2>1. Unmarked(s.data) = c'
      BY <1>2 DEF Takes, Unmarked, DataOf
    <2> HIDE DEF c
    <2>2. LogOf(snaps') = Log!Trimmed(Log!Extended(LogOf(snaps), c'))
      BY <1>0, <1>2, <2>1, LogChanges DEF Takes
    <2> QED
      BY <2>2 DEF Log!Change, LogOf, Entry, c
  <1> QED
    BY <1>1, <1>2, Steps

(***************************************************************************)
(* However many administrators interleave, the content and its snapshots   *)
(* behave as SnapshotLog says: an edit and its snapshot are one change,    *)
(* and of the log only the oldest entries are ever lost.                   *)
(***************************************************************************)
THEOREM SpecImplementsLog ==
  ASSUME ResaveAlone, "legacy" \notin Ops
  PROVE  Spec => ImplementsLog
  <1>1. Init => Log!Init
    <2> SUFFICES ASSUME Init
                 PROVE  Log!Init
      OBVIOUS
    <2>1. snaps = <<[version |-> 1, data |-> DataOf(head, cases)]>>
      BY DEF Init
    <2> QED
      BY <2>1 DEF Log!Init
  <1>2. OrderInv /\ [Next]_vars => [Log!Change]_(Log!logVars)
    BY LogNext
  <1> QED
    BY <1>1, <1>2, SpecOrderInv, PTL DEF Spec, ImplementsLog, Log!Spec

-----------------------------------------------------------------------------
(* The verified mark, when one administrator works at a time *)

\* A row has its columns.
IsRow(h) == h = [c \in Columns |-> h[c]]

\* A row that is marked was judged.
JudgedRow(h) == IsRow(h) /\ (h.verified => h.code \in accepted)

\* What an edit makes of the row.
Result(j) == IF j.row = "delete" THEN NoProblem ELSE Overlaid(head, j.set)

\* Whatever is kept or under way: its mark was judged.
JudgedInv ==
    /\ JudgedRow(head)
    /\ \E T : snaps \in Seq(T) /\ \A s \in T : JudgedRow(s.data.head)
    /\ DOMAIN job = Admins
    /\ \A a \in Admins :
          /\ job[a].op = "edit" => JudgedRow(Result(job[a]))
          /\ job[a].op = "verify" => head.code = job[a].code
          /\ job[a].op = "resave" => JudgedRow(job[a].saved.data.head)

\* A sequence without one of its elements.
LEMMA RemoveAtType ==
  ASSUME NEW T, NEW w \in Seq(T), NEW i \in 1..Len(w)
  PROVE  RemoveAt(w, i) \in Seq(T)
  <1>1. Len(w) \in Nat /\ i \in 1..Len(w) /\ \A j \in 1..Len(w) : w[j] \in T
    OBVIOUS
  <1>2. SubSeq(w, 1, i - 1) \in Seq(T)
    <2>1. 1 \in Int /\ i - 1 \in Int /\ \A j \in 1..(i - 1) : w[j] \in T
      BY <1>1
    <2> QED BY <2>1, SubSeqProperties
  <1>3. SubSeq(w, i + 1, Len(w)) \in Seq(T)
    <2>1. i + 1 \in Int /\ Len(w) \in Int /\ \A j \in (i + 1)..Len(w) : w[j] \in T
      BY <1>1
    <2> QED BY <2>1, SubSeqProperties
  <1> QED BY <1>2, <1>3, ConcatProperties DEF RemoveAt

\* The snapshots are old ones and the new one.
LEMMA WithSnapshotType ==
  ASSUME NEW T, snaps \in Seq(T), NEW s, NEW q \in WithSnapshot(s)
  PROVE  q \in Seq(T \cup {s})
  <1> DEFINE all == Append(snaps, s)
             oldest == {i \in DOMAIN all : \A k \in DOMAIN all : all[i].version <= all[k].version}
  <1>1. all \in Seq(T \cup {s})
    OBVIOUS
  <1>2. q = all \/ \E i \in oldest : q = RemoveAt(all, i)
    BY DEF WithSnapshot
  <1>3. oldest \subseteq 1..Len(all)
    BY <1>1
  <1> HIDE DEF all, oldest
  <1> QED
    BY <1>1, <1>2, <1>3, RemoveAtType

\* The difference of a copy, written over what it was made from, is the copy.
LEMMA EditResult ==
  ASSUME IsRow(head), NEW h, JudgedRow(h), NEW touch, NEW drop, NEW n
  PROVE  JudgedRow(Result(Edit(h, touch, drop, n)))
  <1> DEFINE j == Edit(h, touch, drop, n)
  <1>1. j.set = Differing(h)
    BY DEF Edit
  <1>2. Overlaid(head, Differing(h)) = [c \in Columns |-> h[c]]
    BY DEF Overlaid, Differing
  <1>3. Overlaid(head, Differing(h)) = h
    BY <1>2 DEF JudgedRow, IsRow
  <1>4. JudgedRow(NoProblem)
    BY DEF NoProblem, JudgedRow, IsRow, Columns
  <1> HIDE DEF j
  <1>5. Result(j) = h \/ Result(j) = NoProblem
    BY <1>1, <1>3 DEF Result
  <1> QED
    BY <1>4, <1>5 DEF j

\* The copies that the handlers make.
LEMMA Copies ==
  ASSUME JudgedRow(head)
  PROVE  /\ JudgedRow(NoProblem)
         /\ JudgedRow(Bumped)
         /\ \A t : JudgedRow([Bumped EXCEPT !.text = t])
         /\ \A t, v : JudgedRow([Bumped EXCEPT !.text = t, !.version = v])
  BY DEF NoProblem, Bumped, JudgedRow, IsRow, Columns

\* A new standard answer has no mark.
LEMMA AnsweredCopy ==
  ASSUME NEW h, IsRow(h), NEW c
  PROVE  JudgedRow(Answered(h, c))
  BY DEF Answered, JudgedRow, IsRow, Columns

\* A rollback restores a mark only with its code.
LEMMA RestoredCopy ==
  ASSUME JudgedRow(head), NEW d, JudgedRow(d.head)
  PROVE  JudgedRow(Restored(d))
  <1>1. JudgedRow([d.head EXCEPT !.code = IF head.code = "none" THEN "none" ELSE "blank",
                                 !.verified = FALSE])
    BY DEF JudgedRow, IsRow, Columns
  <1> QED
    BY <1>1, Copies DEF Restored

\* What a handler may begin with.
Sound(j) ==
    /\ j.op = "edit" => JudgedRow(Result(j))
    /\ j.op = "verify" => head.code = j.code
    /\ j.op = "resave" => JudgedRow(j.saved.data.head)

\* The handlers begin with nothing else.
LEMMA BeginsSound ==
  ASSUME JudgedInv, NEW a \in Admins, Begins(a)
  PROVE  \E j : Start(a, j) /\ Sound(j)
  <1>0. JudgedRow(head) /\ IsRow(head)
    BY DEF JudgedInv, JudgedRow
  <1>1. ASSUME NEW h, JudgedRow(h), NEW touch, NEW drop, NEW n,
               Start(a, Edit(h, touch, drop, n))
        PROVE  \E j : Start(a, j) /\ Sound(j)
    <2>1. JudgedRow(Result(Edit(h, touch, drop, n)))
      BY <1>0, <1>1, EditResult
    <2>2. Edit(h, touch, drop, n).op = "edit"
      BY DEF Edit
    <2> QED
      BY <1>1, <2>1, <2>2 DEF Sound
  <1>2. ASSUME NEW t, SaveProblem(a, t)
        PROVE  \E j : Start(a, j) /\ Sound(j)
    BY <1>0, <1>1, <1>2, Copies DEF SaveProblem
  <1>3. CASE DeleteProblem(a)
    BY <1>0, <1>1, <1>3, Copies DEF DeleteProblem
  <1>4. ASSUME NEW n, AddCases(a, n)
        PROVE  \E j : Start(a, j) /\ Sound(j)
    BY <1>0, <1>1, <1>4, Copies DEF AddCases
  <1>5. ASSUME NEW i, NEW differs, UpdateCase(a, i, differs)
        PROVE  \E j : Start(a, j) /\ Sound(j)
    BY <1>0, <1>1, <1>5, Copies DEF UpdateCase
  <1>6. ASSUME NEW i, DeleteCase(a, i)
        PROVE  \E j : Start(a, j) /\ Sound(j)
    BY <1>0, <1>1, <1>6, Copies DEF DeleteCase
  <1>7. ASSUME NEW c, SaveSolution(a, c)
        PROVE  \E j : Start(a, j) /\ Sound(j)
    <2>1. JudgedRow(Answered(Bumped, c))
      BY <1>0, Copies, AnsweredCopy DEF JudgedRow
    <2> QED
      BY <1>1, <1>7, <2>1 DEF SaveSolution
  <1>8. ASSUME NEW n, NEW c, ImportZip(a, n, c)
        PROVE  \E j : Start(a, j) /\ Sound(j)
    <2>1. JudgedRow(Bumped) /\ JudgedRow(Answered(Bumped, c))
      BY <1>0, Copies, AnsweredCopy DEF JudgedRow
    <2>2. JudgedRow(IF c = "none" THEN Bumped ELSE Answered(Bumped, c))
      BY <2>1
    <2> QED
      BY <1>1, <1>8, <2>2 DEF ImportZip
  <1>9. ASSUME NEW t, NEW n, NEW c, ImportJson(a, t, n, c)
        PROVE  \E j : Start(a, j) /\ Sound(j)
    <2> DEFINE h == [Bumped EXCEPT !.text = t]
               k == IF c = "none" THEN h.code ELSE c
    <2>1. JudgedRow(Answered(h, k))
      BY <1>0, Copies, AnsweredCopy DEF JudgedRow
    <2>2. Start(a, Edit(Answered(h, k), {}, cases, n))
      BY <1>9 DEF ImportJson
    <2> QED
      BY <1>1, <2>1, <2>2
  <1>10. ASSUME NEW t, NEW n, NEW c, ImportLegacy(a, t, n, c)
         PROVE  \E j : Start(a, j) /\ Sound(j)
    <2> DEFINE h == [Bumped EXCEPT !.text = t,
                                   !.version = IF Exists THEN Bumped.version ELSE 2]
               k == IF c = "none" THEN h ELSE Answered(h, c)
               e == Edit(k, {}, cases, n)
               j == [e EXCEPT !.snapshot = FALSE]
    <2>1. JudgedRow(h)
      BY <1>0, Copies
    <2>2. JudgedRow(Answered(h, c))
      BY <2>1, AnsweredCopy DEF JudgedRow
    <2>3. JudgedRow(k)
      BY <2>1, <2>2
    <2>4. Start(a, j)
      BY <1>10 DEF ImportLegacy, Bumped
    <2> HIDE DEF k, h
    <2>5. j.op = "edit" /\ j.row = e.row /\ j.set = e.set
      BY DEF Edit
    <2>6. JudgedRow(Result(e))
      BY <1>0, <2>3, EditResult
    <2>7. Result(j) = Result(e)
      BY <2>5 DEF Result
    <2> HIDE DEF e
    <2> QED
      BY <2>4, <2>5, <2>6, <2>7 DEF Sound
  <1>11. ASSUME NEW i, Rollback(a, i)
         PROVE  \E j : Start(a, j) /\ Sound(j)
    <2> DEFINE d == snaps[i].data
               e == Edit(Restored(d), {}, cases, d.count)
               j == [e EXCEPT !.reuse = TRUE]
    <2>1. Start(a, j) /\ i \in DOMAIN snaps
      BY <1>11 DEF Rollback
    <2>2. JudgedRow(d.head)
      <3>1. PICK T : snaps \in Seq(T) /\ \A s \in T : JudgedRow(s.data.head)
        BY DEF JudgedInv
      <3>2. snaps[i] \in T
        BY <2>1, <3>1
      <3> QED
        BY <3>1, <3>2
    <2> HIDE DEF d
    <2>3. JudgedRow(Restored(d))
      BY <1>0, <2>2, RestoredCopy
    <2>4. JudgedRow(Result(e))
      BY <1>0, <2>3, EditResult
    <2>5. j.op = "edit" /\ j.row = e.row /\ j.set = e.set
      BY DEF Edit
    <2>6. Result(j) = Result(e)
      BY <2>5 DEF Result
    <2> HIDE DEF e
    <2> QED
      BY <2>1, <2>4, <2>5, <2>6 DEF Sound
  <1>12. CASE Resave(a)
    <2> DEFINE j == [op |-> "resave", saved |-> Reloaded(head, cases)]
    <2>1. Start(a, j)
      BY <1>12 DEF Resave
    <2>2. j.op = "resave" /\ j.saved.data.head = head
      BY DEF Reloaded, DataOf
    <2> HIDE DEF j
    <2> QED
      BY <1>0, <2>1, <2>2 DEF Sound
  <1>13. CASE VerifyBegin(a)
    <2> DEFINE j == [op |-> "verify", code |-> head.code, verified |-> head.verified]
    <2>1. Start(a, j)
      BY <1>13 DEF VerifyBegin
    <2>2. j.op = "verify" /\ j.code = head.code
      OBVIOUS
    <2> HIDE DEF j
    <2> QED
      BY <2>1, <2>2 DEF Sound
  <1> QED
    BY <1>2, <1>3, <1>4, <1>5, <1>6, <1>7, <1>8, <1>9, <1>10, <1>11, <1>12, <1>13 DEF Begins

\* Every step of the only administrator keeps the mark earned.
LEMMA JudgedNext ==
  ASSUME NEW b, Admins = {b}, JudgedInv, [Next]_vars
  PROVE  JudgedInv'
  <1>0. PICK T : snaps \in Seq(T) /\ \A s \in T : JudgedRow(s.data.head)
    BY DEF JudgedInv
  <1>1. ASSUME NEW a \in Admins, Begins(a)
        PROVE  JudgedInv'
    <2>1. PICK j : Start(a, j) /\ Sound(j)
      BY <1>1, BeginsSound
    <2>2. job' = [job EXCEPT ![a] = j] /\ UNCHANGED <<head, snaps, accepted>>
      BY <2>1 DEF Start
    <2> QED
      BY <2>1, <2>2 DEF JudgedInv, Sound, JudgedRow, Result
  <1>2. ASSUME NEW a \in Admins, Done(a)
        PROVE  DOMAIN job' = Admins /\ \A x \in Admins : job'[x].op = "idle"
    BY <1>2 DEF Done, Idle, JudgedInv
  <1>3. ASSUME NEW a \in Admins, EditCommit(a)
        PROVE  JudgedInv'
    <2>1. /\ job[a].op = "edit" /\ head' = Result(job[a]) /\ accepted' = accepted /\ Done(a)
          /\ snaps' = snaps \/ snaps' \in WithSnapshot(Reloaded(head', cases'))
      BY <1>3 DEF EditCommit, Result
    <2>2. JudgedRow(head')
      BY <2>1 DEF JudgedInv
    <2>3. \A h : JudgedRow(h) => (JudgedRow(h))'
      BY <2>1 DEF JudgedRow
    <2> DEFINE s == Reloaded(head', cases')
    <2>4. s.data.head = head'
      BY DEF Reloaded, DataOf
    <2> HIDE DEF s
    <2>5. snaps' \in Seq(T \cup {s})
      BY <1>0, <2>1, WithSnapshotType DEF s
    <2>6. \A x \in T \cup {s} : JudgedRow(x.data.head)
      BY <1>0, <2>2, <2>4
    <2> QED
      BY <1>2, <2>1, <2>2, <2>5, <2>6 DEF JudgedInv, JudgedRow
  <1>4. ASSUME NEW a \in Admins, ResaveCommit(a)
        PROVE  JudgedInv'
    <2> DEFINE s == job[a].saved
    <2>1. /\ job[a].op = "resave" /\ snaps' \in WithSnapshot(s) /\ Done(a)
          /\ UNCHANGED <<head, accepted>>
      BY <1>4 DEF ResaveCommit
    <2>2. JudgedRow(s.data.head)
      BY <2>1 DEF JudgedInv
    <2> HIDE DEF s
    <2>3. snaps' \in Seq(T \cup {s}) /\ \A x \in T \cup {s} : JudgedRow(x.data.head)
      BY <1>0, <2>1, <2>2, WithSnapshotType
    <2> QED
      BY <1>2, <2>1, <2>3 DEF JudgedInv, JudgedRow
  <1>5. ASSUME NEW a \in Admins, NEW passed \in BOOLEAN, VerifyEnds(a, passed)
        PROVE  JudgedInv'
    <2>1. /\ job[a].op = "verify" /\ Done(a) /\ UNCHANGED snaps
          /\ accepted \subseteq accepted' /\ (passed => job[a].code \in accepted')
          /\ head' = head \/ head' = [head EXCEPT !.verified = passed]
      BY <1>5 DEF VerifyEnds
    <2>2. head.code = job[a].code /\ JudgedRow(head)
      BY <2>1 DEF JudgedInv
    <2>3. JudgedRow(head)'
      BY <2>1, <2>2 DEF JudgedRow, IsRow, Columns
    <2>4. \A s \in T : (JudgedRow(s.data.head))'
      BY <1>0, <2>1 DEF JudgedRow
    <2> QED
      BY <1>0, <1>2, <2>1, <2>3, <2>4 DEF JudgedInv
  <1>6. ASSUME NEW a \in Admins, Fails(a)
        PROVE  JudgedInv'
    BY <1>2, <1>6 DEF Fails, JudgedInv, JudgedRow
  <1>7. CASE UNCHANGED vars
    BY <1>7 DEF vars, JudgedInv, JudgedRow, Result
  <1> QED
    BY <1>1, <1>3, <1>4, <1>5, <1>6, <1>7 DEF Next, Commits

\* No mark and no answer yet.
LEMMA JudgedInit == Init => JudgedInv
  <1> SUFFICES ASSUME Init
               PROVE  JudgedInv
    OBVIOUS
  <1>1. JudgedRow(head)
    BY DEF Init, NoProblem, JudgedRow, IsRow, Columns
  <1> DEFINE s == [version |-> 1, data |-> DataOf(NoProblem, {})]
  <1>2. s.data.head = head
    BY DEF Init, DataOf
  <1> HIDE DEF s
  <1>3. snaps = <<s>>
    BY DEF Init, s
  <1>4. snaps \in Seq({s}) /\ \A x \in {s} : JudgedRow(x.data.head)
    BY <1>1, <1>2, <1>3
  <1>5. DOMAIN job = Admins /\ \A a \in Admins : job[a].op = "idle"
    BY DEF Init, Idle
  <1> QED
    BY <1>1, <1>4, <1>5 DEF JudgedInv

(***************************************************************************)
(* One administrator at a time, with every operation there is: a mark      *)
(* stands only for an answer the runner accepted, also in a snapshot and   *)
(* after any rollback.                                                     *)
(***************************************************************************)
THEOREM SpecVerifiedWasJudged ==
  ASSUME NEW b, Admins = {b}
  PROVE  Spec => []VerifiedWasJudged
  <1>1. JudgedInv => VerifiedWasJudged
    BY DEF JudgedInv, JudgedRow, VerifiedWasJudged
  <1>2. JudgedInv /\ [Next]_vars => JudgedInv'
    BY JudgedNext
  <1> QED
    BY <1>1, <1>2, JudgedInit, PTL DEF Spec

-----------------------------------------------------------------------------
(* Types: the numbers of rows and versions *)

\* A finite set of numbers has a largest one.
LEMMA MaxIs ==
  ASSUME NEW S \in SUBSET Nat, IsFiniteSet(S), S # {}
  PROVE  Max(S) \in S /\ \A y \in S : y <= Max(S)
  <1> DEFINE Above(x) == {y \in S : y > x}
             R == StrictSubsetOrdering(S)
             T == {Above(x) : x \in S}
  <1>1. IsWellFoundedOn(R, SUBSET S)
    BY FS_StrictSubsetOrderingWellFounded, FS_FiniteSubsetsOfFinite
  <1>2. T \subseteq SUBSET S /\ T # {}
    OBVIOUS
  <1> HIDE DEF T, R
  <1>3. PICK A \in T : \A B \in T : <<B, A>> \notin R
    BY <1>1, <1>2, WFMin
  <1>4. PICK m \in S : A = Above(m)
    BY DEF T
  <1>5. ASSUME NEW y \in S
        PROVE  m >= y
    <2>1. CASE y > m
      <3>1. \A z \in S : z \in Nat
        OBVIOUS
      <3>2. Above(y) \subseteq Above(m)
        <4>1. \A z \in S : z > y => z > m
          BY <2>1, <3>1
        <4> QED
          BY <4>1
      <3>3. y \in Above(m) /\ y \notin Above(y)
        <4>1. ~(y > y)
          BY <3>1
        <4> QED
          BY <2>1, <4>1
      <3>4. Above(y) \in T /\ Above(y) \in SUBSET S /\ Above(m) \in SUBSET S
        BY DEF T
      <3>5. Above(y) # Above(m)
        BY <3>3
      <3> HIDE DEF Above
      <3>6. <<Above(y), Above(m)>> \in R
        BY <3>2, <3>4, <3>5 DEF R, StrictSubsetOrdering
      <3> QED
        BY <1>3, <1>4, <3>4, <3>6
    <2>2. y \in Nat /\ m \in Nat
      OBVIOUS
    <2> QED
      BY <2>1, <2>2
  <1>6. \E x \in S : \A y \in S : x >= y
    BY <1>5
  <1>7. Max(S) \in S /\ \A y \in S : Max(S) >= y
    BY <1>6 DEF Max
  <1>8. Max(S) \in Nat /\ \A y \in S : y \in Nat
    BY <1>7
  <1> QED
    BY <1>7, <1>8

\* The new rows are numbers, and finitely many.
LEMMA NewRowsAre ==
  ASSUME NEW S \in SUBSET Nat, IsFiniteSet(S), NEW n \in Nat
  PROVE  NewRows(S, n) \subseteq Nat /\ IsFiniteSet(NewRows(S, n))
  <1> DEFINE top == Max(S \cup {0})
  <1>1. IsFiniteSet(S \cup {0}) /\ S \cup {0} \in SUBSET Nat /\ S \cup {0} # {}
    BY FS_AddElement
  <1>2. top \in Nat
    BY <1>1, MaxIs
  <1> HIDE DEF top
  <1>3. (top + 1)..(top + n) \subseteq Nat /\ IsFiniteSet((top + 1)..(top + n))
    BY <1>2, FS_Interval
  <1> QED
    BY <1>3 DEF NewRows, top

\* The newest version is one of the snapshots', in whatever order they are.
LEMMA LatestType ==
  ASSUME snaps \in Seq(Snapshot), Len(snaps) > 0
  PROVE  Latest \in Nat
  <1> DEFINE V == {snaps[i].version : i \in DOMAIN snaps}
  <1>1. DOMAIN snaps = 1..Len(snaps) /\ Len(snaps) \in Nat
    OBVIOUS
  <1>2. \A i \in 1..Len(snaps) : snaps[i].version \in Nat
    <2>1. \A i \in 1..Len(snaps) : snaps[i] \in Snapshot
      BY <1>1
    <2>2. \A s \in Snapshot : s.version \in Nat
      BY DEF Snapshot
    <2> QED
      BY <2>1, <2>2
  <1>3. V \in SUBSET Nat /\ V # {}
    BY <1>1, <1>2
  <1>4. IsFiniteSet(V)
    <2>1. IsFiniteSet(DOMAIN snaps)
      BY <1>1, FS_Interval
    <2> DEFINE f == [i \in DOMAIN snaps |-> snaps[i].version]
    <2>2. f \in Surjection(DOMAIN snaps, V)
      BY DEF Surjection
    <2> HIDE DEF V, f
    <2> QED
      BY <2>1, <2>2, FS_Surjection
  <1> QED
    BY <1>3, <1>4, MaxIs DEF Latest

-----------------------------------------------------------------------------
(* Rows *)

\* A row is its four columns.
LEMMA RowIs ==
  ASSUME NEW h
  PROVE  h \in ProblemRow <=>
            /\ h = [c \in Columns |-> h[c]]
            /\ h["version"] \in Nat /\ h["text"] \in Texts \cup {"none"}
            /\ h["code"] \in Codes \cup {"none", "blank"} /\ h["verified"] \in BOOLEAN
  BY DEF ProblemRow, Columns


\* The columns of set over the row h.
LEMMA OverlaidRow ==
  ASSUME NEW h \in ProblemRow, NEW set, DOMAIN set \subseteq Columns,
         Overlaid(NoProblem, set) \in ProblemRow
  PROVE  Overlaid(h, set) \in ProblemRow
  <1> DEFINE o == Overlaid(h, set)
             p == Overlaid(NoProblem, set)
  <1>1. /\ o = [c \in Columns |-> o[c]]
        /\ \A c \in Columns : o[c] = p[c] \/ o[c] = h[c]
    BY DEF Overlaid
  <1> HIDE DEF o, p
  <1>2. {"version", "text", "code", "verified"} \subseteq Columns
    BY DEF Columns
  <1>3. p \in ProblemRow
    BY DEF p
  <1>4. /\ o["version"] \in Nat /\ o["text"] \in Texts \cup {"none"}
        /\ o["code"] \in Codes \cup {"none", "blank"} /\ o["verified"] \in BOOLEAN
    BY <1>1, <1>2, <1>3, RowIs
  <1> QED
    BY <1>1, <1>4, RowIs DEF o

\* The empty row, and the copies that the handlers make of a row.
LEMMA CopyTypes ==
  ASSUME NEW h \in ProblemRow
  PROVE  /\ NoProblem \in ProblemRow
         /\ [h EXCEPT !.version = h.version + 1] \in ProblemRow
         /\ \A v \in Nat : [h EXCEPT !.version = v] \in ProblemRow
         /\ \A t \in Texts : [h EXCEPT !.text = t] \in ProblemRow
         /\ \A c \in Codes \cup {"none", "blank"} : [h EXCEPT !.code = c] \in ProblemRow
         /\ \A b \in BOOLEAN : [h EXCEPT !.verified = b] \in ProblemRow
         /\ \A c \in Codes \cup {"none", "blank"} : Answered(h, c) \in ProblemRow
  <1>1. NoProblem \in ProblemRow
    BY DEF ProblemRow, NoProblem
  <1>2. \A v \in Nat : [h EXCEPT !.version = v] \in ProblemRow
    BY DEF ProblemRow
  <1>3. \A t \in Texts : [h EXCEPT !.text = t] \in ProblemRow
    BY DEF ProblemRow
  <1>4. \A c \in Codes \cup {"none", "blank"} : [h EXCEPT !.code = c] \in ProblemRow
    BY DEF ProblemRow
  <1>5. \A b \in BOOLEAN : [h EXCEPT !.verified = b] \in ProblemRow
    BY DEF ProblemRow
  <1>6. \A c \in Codes \cup {"none", "blank"} : Answered(h, c) \in ProblemRow
    BY DEF ProblemRow, Answered
  <1>7. h.version + 1 \in Nat
    BY DEF ProblemRow
  <1> QED
    BY <1>1, <1>2, <1>3, <1>4, <1>5, <1>6, <1>7

\* What a handler takes for the difference of a copy is an edit.
LEMMA EditIs ==
  ASSUME head \in ProblemRow, NEW h \in ProblemRow,
         NEW touch \in SUBSET Nat, NEW drop \in SUBSET Nat, NEW n \in Nat
  PROVE  IsEdit(Edit(h, touch, drop, n))
  <1> DEFINE j == Edit(h, touch, drop, n)
             d == Differing(h)
             o == Overlaid(NoProblem, d)
  <1>1. DOMAIN d \subseteq Columns /\ \A c \in DOMAIN d : d[c] = h[c]
    BY DEF Differing
  <1>2. o \in ProblemRow
    <2>1. /\ o = [c \in Columns |-> o[c]]
          /\ \A c \in Columns : o[c] = h[c] \/ o[c] = NoProblem[c]
      BY <1>1 DEF Overlaid
    <2> HIDE DEF o
    <2>2. {"version", "text", "code", "verified"} \subseteq Columns
      BY DEF Columns
    <2>3. NoProblem \in ProblemRow
      BY CopyTypes
    <2>4. /\ o["version"] \in Nat /\ o["text"] \in Texts \cup {"none"}
          /\ o["code"] \in Codes \cup {"none", "blank"} /\ o["verified"] \in BOOLEAN
      BY <2>1, <2>2, <2>3, RowIs
    <2> QED
      BY <2>1, <2>4, RowIs
  <1> HIDE DEF d
  <1>3. /\ j.op = "edit" /\ j.set = d /\ j.touch = touch /\ j.drop = drop /\ j.add = n
        /\ j.row \in {"insert", "update", "delete"} /\ j.answer \in {"insert", "update", "keep"}
        /\ j.reuse \in BOOLEAN /\ j.snapshot \in BOOLEAN
        /\ j = [op |-> "edit", row |-> j.row, set |-> j.set, answer |-> j.answer,
                touch |-> j.touch, drop |-> j.drop, add |-> j.add, reuse |-> j.reuse,
                snapshot |-> j.snapshot]
    BY DEF Edit, d
  <1> HIDE DEF j
  <1> QED
    BY <1>1, <1>2, <1>3 DEF IsEdit, j

\* The columns of an edit.
Fields == {"op", "row", "set", "answer", "touch", "drop", "add", "reuse", "snapshot"}

\* ... also of a rollback and of a legacy import.
LEMMA EditVariants ==
  ASSUME NEW j, IsEdit(j)
  PROVE  IsEdit([j EXCEPT !.reuse = TRUE]) /\ IsEdit([j EXCEPT !.snapshot = FALSE])
  <1> DEFINE form(row, set, answer, touch, drop, add, reuse, snapshot) ==
                [op |-> "edit", row |-> row, set |-> set, answer |-> answer, touch |-> touch,
                 drop |-> drop, add |-> add, reuse |-> reuse, snapshot |-> snapshot]
  <1>1. \A row, set, answer, touch, drop, add, reuse, snapshot :
           /\ row \in {"insert", "update", "delete"} /\ answer \in {"insert", "update", "keep"}
           /\ DOMAIN set \subseteq Columns /\ Overlaid(NoProblem, set) \in ProblemRow
           /\ touch \subseteq Nat /\ drop \subseteq Nat /\ add \in Nat
           /\ reuse \in BOOLEAN /\ snapshot \in BOOLEAN
           => IsEdit(form(row, set, answer, touch, drop, add, reuse, snapshot))
    BY DEF IsEdit
  <1>2. PICK row, set, answer, touch, drop, add, reuse, snapshot :
           /\ j = form(row, set, answer, touch, drop, add, reuse, snapshot)
           /\ row \in {"insert", "update", "delete"} /\ answer \in {"insert", "update", "keep"}
           /\ DOMAIN set \subseteq Columns /\ Overlaid(NoProblem, set) \in ProblemRow
           /\ touch \subseteq Nat /\ drop \subseteq Nat /\ add \in Nat
           /\ reuse \in BOOLEAN /\ snapshot \in BOOLEAN
    <2>1. j = form(j.row, j.set, j.answer, j.touch, j.drop, j.add, j.reuse, j.snapshot)
      BY DEF IsEdit
    <2> HIDE DEF form
    <2> QED
      BY <2>1 DEF IsEdit
  <1>3. [j EXCEPT !.reuse = TRUE] = form(row, set, answer, touch, drop, add, TRUE, snapshot)
    <2> DEFINE k == [j EXCEPT !.reuse = TRUE]
               r == form(row, set, answer, touch, drop, add, TRUE, snapshot)
    <2>1. j = [f \in Fields |-> j[f]] /\ r = [f \in Fields |-> r[f]]
      BY <1>2 DEF Fields
    <2>2. k = [f \in Fields |-> k[f]]
      BY <2>1
    <2>3. \A f \in Fields : k[f] = IF f = "reuse" THEN TRUE ELSE j[f]
      BY <2>1
    <2>4. /\ r.op = j.op /\ r.row = j.row /\ r.set = j.set /\ r.answer = j.answer
          /\ r.touch = j.touch /\ r.drop = j.drop /\ r.add = j.add
          /\ r.reuse = TRUE /\ r.snapshot = j.snapshot
      BY <1>2
    <2> HIDE DEF r
    <2>5. \A f \in Fields : r[f] = IF f = "reuse" THEN TRUE ELSE j[f]
      BY <2>4 DEF Fields
    <2> HIDE DEF k
    <2> QED
      BY <2>1, <2>2, <2>3, <2>5 DEF k, r
  <1>4. [j EXCEPT !.snapshot = FALSE] = form(row, set, answer, touch, drop, add, reuse, FALSE)
    <2> DEFINE k == [j EXCEPT !.snapshot = FALSE]
               r == form(row, set, answer, touch, drop, add, reuse, FALSE)
    <2>1. j = [f \in Fields |-> j[f]] /\ r = [f \in Fields |-> r[f]]
      BY <1>2 DEF Fields
    <2>2. k = [f \in Fields |-> k[f]]
      BY <2>1
    <2>3. \A f \in Fields : k[f] = IF f = "snapshot" THEN FALSE ELSE j[f]
      BY <2>1
    <2>4. /\ r.op = j.op /\ r.row = j.row /\ r.set = j.set /\ r.answer = j.answer
          /\ r.touch = j.touch /\ r.drop = j.drop /\ r.add = j.add
          /\ r.reuse = j.reuse /\ r.snapshot = FALSE
      BY <1>2
    <2> HIDE DEF r
    <2>5. \A f \in Fields : r[f] = IF f = "snapshot" THEN FALSE ELSE j[f]
      BY <2>4 DEF Fields
    <2> HIDE DEF k
    <2> QED
      BY <2>1, <2>2, <2>3, <2>5 DEF k, r
  <1>5. TRUE \in BOOLEAN /\ FALSE \in BOOLEAN
    OBVIOUS
  <1> HIDE DEF form
  <1>6. IsEdit(form(row, set, answer, touch, drop, add, TRUE, snapshot))
    BY <1>1, <1>2, <1>5
  <1>7. IsEdit(form(row, set, answer, touch, drop, add, reuse, FALSE))
    BY <1>1, <1>2, <1>5
  <1> QED
    BY <1>3, <1>4, <1>6, <1>7

\* A new snapshot is one.
LEMMA ReloadedType ==
  ASSUME snaps \in Seq(Snapshot), Len(snaps) > 0,
         NEW h \in ProblemRow, NEW S, IsFiniteSet(S)
  PROVE  Reloaded(h, S) \in Snapshot
  <1> DEFINE v == Latest + 1
             n == Cardinality(S)
             d == DataOf(h, S)
  <1>1. v \in Nat /\ n \in Nat
    BY LatestType, FS_CardinalityType
  <1>2. Reloaded(h, S) = [version |-> v, data |-> d] /\ d = [head |-> h, count |-> n]
    BY DEF Reloaded, DataOf
  <1> HIDE DEF v, n, d
  <1>3. d \in [head : ProblemRow, count : Nat]
    BY <1>1, <1>2
  <1> QED
    BY <1>1, <1>2, <1>3 DEF Snapshot

\* One more than there were, and never more than are kept.
LEMMA WithSnapshotBounds ==
  ASSUME snaps \in Seq(Snapshot), Len(snaps) \in 1..KeepSnapshots,
         NEW s \in Snapshot, NEW q \in WithSnapshot(s)
  PROVE  q \in Seq(Snapshot) /\ Len(q) \in 1..KeepSnapshots
  <1> DEFINE all == Append(snaps, s)
             n == Len(snaps)
             oldest == {i \in DOMAIN all : \A k \in DOMAIN all : all[i].version <= all[k].version}
  <1>1. all \in Seq(Snapshot) /\ Len(all) = n + 1 /\ n \in Nat
    OBVIOUS
  <1>2. \/ q = all /\ Len(all) <= KeepSnapshots
        \/ \E i \in oldest : q = RemoveAt(all, i)
    BY DEF WithSnapshot
  <1>3. oldest \subseteq 1..(n + 1)
    BY <1>1
  <1> HIDE DEF all, oldest
  <1>4. CASE q = all /\ Len(all) <= KeepSnapshots
    BY <1>1, <1>4, ContentAssumption
  <1>5. ASSUME NEW i \in 1..(n + 1), q = RemoveAt(all, i)
        PROVE  q \in Seq(Snapshot) /\ Len(q) = n
    <2>1. q \in Seq(Snapshot)
      BY <1>1, <1>5, RemoveAtType
    <2>2. \A k \in 1..(n + 1) : all[k] \in Snapshot
      BY <1>1
    <2>3. SubSeq(all, 1, i - 1) \in Seq(Snapshot) /\ Len(SubSeq(all, 1, i - 1)) = i - 1
      <3>1. 1 \in Int /\ i - 1 \in Int /\ \A k \in 1..(i - 1) : all[k] \in Snapshot
        BY <1>1, <2>2
      <3> QED
        BY <1>1, <3>1, SubSeqProperties
    <2>4. /\ SubSeq(all, i + 1, n + 1) \in Seq(Snapshot)
          /\ Len(SubSeq(all, i + 1, n + 1)) = n + 1 - i
      <3>1. i + 1 \in Int /\ n + 1 \in Int /\ \A k \in (i + 1)..(n + 1) : all[k] \in Snapshot
        BY <1>1, <2>2
      <3> QED
        BY <1>1, <3>1, SubSeqProperties
    <2>5. q = SubSeq(all, 1, i - 1) \o SubSeq(all, i + 1, n + 1)
      BY <1>1, <1>5 DEF RemoveAt
    <2>6. Len(q) = Len(SubSeq(all, 1, i - 1)) + Len(SubSeq(all, i + 1, n + 1))
      BY <2>3, <2>4, <2>5, ConcatProperties
    <2>7. i \in Int /\ n \in Int
      BY <1>1
    <2> HIDE DEF n
    <2>8. Len(q) = (i - 1) + (n + 1 - i)
      BY <2>3, <2>4, <2>6
    <2> QED
      BY <2>1, <2>7, <2>8
  <1> QED
    BY <1>1, <1>2, <1>3, <1>4, <1>5

-----------------------------------------------------------------------------
(* The steps keep the types *)

\* Each handler begins with a job.
LEMMA BeginsType ==
  ASSUME TypeOK, NEW a \in Admins, Begins(a)
  PROVE  \E j : Start(a, j) /\ IsJob(j)
  <1>0. /\ head \in ProblemRow /\ cases \in SUBSET Nat /\ IsFiniteSet(cases)
        /\ MaxCases \in Nat /\ Bumped \in ProblemRow
    BY ContentAssumption, CopyTypes DEF TypeOK, Bumped
  <1>1. ASSUME NEW h \in ProblemRow, NEW touch \in SUBSET Nat, NEW drop \in SUBSET Nat,
               NEW n \in Nat, Start(a, Edit(h, touch, drop, n))
        PROVE  \E j : Start(a, j) /\ IsJob(j)
    BY <1>0, <1>1, EditIs DEF IsJob
  <1>2. ASSUME NEW t \in Texts, SaveProblem(a, t)
        PROVE  \E j : Start(a, j) /\ IsJob(j)
    BY <1>0, <1>1, <1>2, CopyTypes DEF SaveProblem
  <1>3. CASE DeleteProblem(a)
    BY <1>0, <1>1, <1>3, CopyTypes DEF DeleteProblem
  <1>4. ASSUME NEW n \in 1..MaxCases, AddCases(a, n)
        PROVE  \E j : Start(a, j) /\ IsJob(j)
    BY <1>0, <1>1, <1>4 DEF AddCases
  <1>5. ASSUME NEW i \in cases, NEW differs \in BOOLEAN, UpdateCase(a, i, differs)
        PROVE  \E j : Start(a, j) /\ IsJob(j)
    <2>1. (IF differs THEN {i} ELSE {}) \in SUBSET Nat
      BY <1>0
    <2> QED
      BY <1>0, <1>1, <1>5, <2>1 DEF UpdateCase
  <1>6. ASSUME NEW i \in cases, DeleteCase(a, i)
        PROVE  \E j : Start(a, j) /\ IsJob(j)
    BY <1>0, <1>1, <1>6 DEF DeleteCase
  <1>7. ASSUME NEW c \in Codes \cup {"blank"}, SaveSolution(a, c)
        PROVE  \E j : Start(a, j) /\ IsJob(j)
    BY <1>0, <1>1, <1>7, CopyTypes DEF SaveSolution
  <1>8. ASSUME NEW n \in 1..MaxCases, NEW c \in Codes \cup {"none", "blank"}, ImportZip(a, n, c)
        PROVE  \E j : Start(a, j) /\ IsJob(j)
    <2>1. (IF c = "none" THEN Bumped ELSE Answered(Bumped, c)) \in ProblemRow
      BY <1>0, CopyTypes
    <2> QED
      BY <1>0, <1>1, <1>8, <2>1 DEF ImportZip
  <1>9. ASSUME NEW t \in Texts, NEW n \in 0..MaxCases, NEW c \in Codes \cup {"none"},
               ImportJson(a, t, n, c)
        PROVE  \E j : Start(a, j) /\ IsJob(j)
    <2> DEFINE h == [Bumped EXCEPT !.text = t]
               k == IF c = "none" THEN h.code ELSE c
    <2>1. h \in ProblemRow
      BY <1>0, CopyTypes
    <2> HIDE DEF h
    <2>2. k \in Codes \cup {"none", "blank"}
      BY <2>1 DEF ProblemRow
    <2> HIDE DEF k
    <2>3. Answered(h, k) \in ProblemRow
      BY <2>1, <2>2, CopyTypes
    <2>4. Start(a, Edit(Answered(h, k), {}, cases, n))
      BY <1>9 DEF ImportJson, h, k
    <2>5. n \in Nat /\ {} \in SUBSET Nat
      BY <1>0
    <2> HIDE DEF h
    <2> QED
      BY <1>0, <1>1, <2>3, <2>4, <2>5
  <1>10. ASSUME NEW t \in Texts, NEW n \in 0..(MaxCases + 1), NEW c \in Codes \cup {"none"},
                ImportLegacy(a, t, n, c)
         PROVE  \E j : Start(a, j) /\ IsJob(j)
    <2> DEFINE g == [Bumped EXCEPT !.text = t]
               v == IF Exists THEN Bumped.version ELSE 2
               h == [Bumped EXCEPT !.text = t,
                                   !.version = IF Exists THEN Bumped.version ELSE 2]
               k == IF c = "none" THEN h ELSE Answered(h, c)
               e == Edit(k, {}, cases, n)
    <2>1. h = [g EXCEPT !.version = v]
      OBVIOUS
    <2>2. v \in Nat /\ g \in ProblemRow
      <3>1. Bumped.version \in Nat
        BY <1>0 DEF ProblemRow
      <3> QED
        BY <1>0, <3>1, CopyTypes
    <2>3. Start(a, [e EXCEPT !.snapshot = FALSE])
      BY <1>10 DEF ImportLegacy, Bumped
    <2> HIDE DEF h, g, v
    <2>4. h \in ProblemRow
      BY <2>1, <2>2, CopyTypes
    <2>5. k \in ProblemRow
      BY <2>4, CopyTypes
    <2> HIDE DEF k
    <2>6. n \in Nat /\ {} \in SUBSET Nat
      BY <1>0
    <2>7. IsEdit(e)
      BY <1>0, <2>5, <2>6, EditIs
    <2> HIDE DEF e
    <2>8. IsEdit([e EXCEPT !.snapshot = FALSE])
      BY <2>7, EditVariants
    <2> QED
      BY <2>3, <2>8 DEF IsJob
  <1>11. ASSUME NEW i, Rollback(a, i)
         PROVE  \E j : Start(a, j) /\ IsJob(j)
    <2> DEFINE d == snaps[i].data
               e == Edit(Restored(d), {}, cases, d.count)
    <2>1. Start(a, [e EXCEPT !.reuse = TRUE]) /\ i \in DOMAIN snaps
      BY <1>11 DEF Rollback
    <2>2. d.head \in ProblemRow /\ d.count \in Nat
      <3>1. snaps[i] \in Snapshot
        BY <2>1 DEF TypeOK
      <3>2. \A s \in Snapshot : s.data.head \in ProblemRow /\ s.data.count \in Nat
        BY DEF Snapshot
      <3> QED
        BY <3>1, <3>2
    <2> HIDE DEF d
    <2>3. Restored(d) \in ProblemRow
      <3> DEFINE h == d.head
                 c == IF head.code = "none" THEN "none" ELSE "blank"
                 g == [h EXCEPT !.code = c]
      <3>1. [h EXCEPT !.code = c, !.verified = FALSE] = [g EXCEPT !.verified = FALSE]
        OBVIOUS
      <3>2. Restored(d) \in {NoProblem, h, [h EXCEPT !.code = c, !.verified = FALSE]}
        BY DEF Restored
      <3>3. c \in Codes \cup {"none", "blank"} /\ h \in ProblemRow
        BY <2>2
      <3> HIDE DEF h, c
      <3>4. g \in ProblemRow
        BY <3>3, CopyTypes
      <3> HIDE DEF g
      <3>5. [g EXCEPT !.verified = FALSE] \in ProblemRow /\ NoProblem \in ProblemRow
        BY <3>4, CopyTypes
      <3> QED
        BY <3>1, <3>2, <3>3, <3>5
    <2>4. IsEdit(e)
      BY <1>0, <2>2, <2>3, EditIs
    <2> HIDE DEF e
    <2>5. IsEdit([e EXCEPT !.reuse = TRUE])
      BY <2>4, EditVariants
    <2> QED
      BY <2>1, <2>5 DEF IsJob
  <1>12. CASE Resave(a)
    <2> DEFINE s == Reloaded(head, cases)
    <2>1. Start(a, [op |-> "resave", saved |-> s])
      BY <1>12 DEF Resave
    <2>2. s \in Snapshot
      BY <1>0, ReloadedType DEF TypeOK
    <2> HIDE DEF s
    <2>3. [op |-> "resave", saved |-> s] \in [op : {"resave"}, saved : Snapshot]
      BY <2>2
    <2> QED
      BY <2>1, <2>3 DEF IsJob
  <1>13. CASE VerifyBegin(a)
    <2>1. /\ Start(a, [op |-> "verify", code |-> head.code, verified |-> head.verified])
          /\ head.code \in Codes
      BY <1>13 DEF VerifyBegin
    <2>2. head.verified \in BOOLEAN
      BY <1>0 DEF ProblemRow
    <2> QED
      BY <2>1, <2>2 DEF IsJob
  <1> QED
    BY <1>2, <1>3, <1>4, <1>5, <1>6, <1>7, <1>8, <1>9, <1>10, <1>11, <1>12, <1>13 DEF Begins

\* Every step keeps the types.
LEMMA TypeNext ==
  ASSUME TypeOK, [Next]_vars
  PROVE  TypeOK'
  <1>0. /\ head \in ProblemRow /\ cases \in SUBSET Nat /\ IsFiniteSet(cases)
        /\ snaps \in Seq(Snapshot) /\ Len(snaps) \in 1..KeepSnapshots /\ Len(snaps) > 0
        /\ DOMAIN job = Admins /\ \A a \in Admins : IsJob(job[a])
        /\ accepted \subseteq Codes
    BY DEF TypeOK
  <1>1. ASSUME NEW a \in Admins, Begins(a)
        PROVE  TypeOK'
    <2>1. PICK j : Start(a, j) /\ IsJob(j)
      BY <1>1, BeginsType
    <2>2. job' = [job EXCEPT ![a] = j] /\ UNCHANGED <<head, cases, snaps, accepted>>
      BY <2>1 DEF Start
    <2> QED
      BY <1>0, <2>1, <2>2 DEF TypeOK
  <1>2. ASSUME NEW a \in Admins, Done(a)
        PROVE  DOMAIN job' = Admins /\ \A x \in Admins : IsJob(job'[x])
    <2>1. IsJob(Idle)
      BY DEF IsJob
    <2>2. job' = [job EXCEPT ![a] = Idle]
      BY <1>2 DEF Done
    <2> QED
      BY <1>0, <2>1, <2>2
  <1>3. ASSUME NEW a \in Admins, EditCommit(a)
        PROVE  TypeOK'
    <2> DEFINE j == job[a]
    <2>1. /\ head' = IF j.row = "delete" THEN NoProblem ELSE Overlaid(head, j.set)
          /\ cases' = CasesAfter(j) /\ j.op = "edit" /\ Done(a) /\ accepted' = accepted
          /\ snaps' = snaps \/ snaps' \in WithSnapshot(Reloaded(head', cases'))
      BY <1>3 DEF EditCommit
    <2>2. IsEdit(j)
      BY <1>0, <2>1 DEF IsJob, Idle
    <2> HIDE DEF j
    <2>3. head' \in ProblemRow
      <3>1. NoProblem \in ProblemRow
        BY <1>0, CopyTypes
      <3>2. Overlaid(head, j.set) \in ProblemRow
        BY <1>0, <2>2, OverlaidRow DEF IsEdit
      <3> QED
        BY <2>1, <3>1, <3>2
    <2>4. cases' \in SUBSET Nat /\ IsFiniteSet(cases')
      <3> DEFINE S == IF j.reuse THEN cases \ j.drop ELSE cases
                 N == NewRows(S, j.add)
      <3>1. cases \ j.drop \in SUBSET Nat /\ IsFiniteSet(cases \ j.drop)
        BY <1>0, FS_Subset
      <3>2. S \in SUBSET Nat /\ IsFiniteSet(S) /\ j.add \in Nat
        BY <1>0, <2>2, <3>1 DEF IsEdit
      <3>3. N \in SUBSET Nat /\ IsFiniteSet(N)
        BY <3>2, NewRowsAre
      <3>4. cases' = IF j.row = "delete" THEN {} ELSE (cases \ j.drop) \cup N
        BY <2>1 DEF CasesAfter
      <3> HIDE DEF N
      <3>5. (cases \ j.drop) \cup N \in SUBSET Nat /\ IsFiniteSet((cases \ j.drop) \cup N)
        BY <3>1, <3>3, FS_Union
      <3> QED
        BY <3>4, <3>5, FS_EmptySet
    <2>5. snaps' \in Seq(Snapshot) /\ Len(snaps') \in 1..KeepSnapshots
      <3> DEFINE s == Reloaded(head', cases')
      <3>1. s \in Snapshot
        BY <1>0, <2>3, <2>4, ReloadedType
      <3> HIDE DEF s
      <3>2. snaps' = snaps \/ snaps' \in WithSnapshot(s)
        BY <2>1 DEF s
      <3> QED
        BY <1>0, <3>1, <3>2, WithSnapshotBounds
    <2> QED
      BY <1>0, <1>2, <2>1, <2>3, <2>4, <2>5 DEF TypeOK
  <1>4. ASSUME NEW a \in Admins, ResaveCommit(a)
        PROVE  TypeOK'
    <2> DEFINE s == job[a].saved
    <2>1. /\ job[a].op = "resave" /\ snaps' \in WithSnapshot(s) /\ Done(a)
          /\ UNCHANGED <<head, cases, accepted>>
      BY <1>4 DEF ResaveCommit
    <2>2. s \in Snapshot
      BY <1>0, <2>1 DEF IsJob, IsEdit, Idle
    <2> HIDE DEF s
    <2>3. snaps' \in Seq(Snapshot) /\ Len(snaps') \in 1..KeepSnapshots
      BY <1>0, <2>1, <2>2, WithSnapshotBounds
    <2> QED
      BY <1>0, <1>2, <2>1, <2>3 DEF TypeOK
  <1>5. ASSUME NEW a \in Admins, NEW passed \in BOOLEAN, VerifyEnds(a, passed)
        PROVE  TypeOK'
    <2>1. /\ job[a].op = "verify" /\ Done(a) /\ UNCHANGED <<cases, snaps>>
          /\ accepted' \in {accepted, accepted \cup {job[a].code}}
          /\ head' = head \/ head' = [head EXCEPT !.verified = passed]
      BY <1>5 DEF VerifyEnds
    <2>2. job[a].code \in Codes
      BY <1>0, <2>1 DEF IsJob, IsEdit, Idle
    <2>3. head' \in ProblemRow
      BY <1>0, <2>1, CopyTypes
    <2> QED
      BY <1>0, <1>2, <2>1, <2>2, <2>3 DEF TypeOK
  <1>6. ASSUME NEW a \in Admins, Fails(a)
        PROVE  TypeOK'
    BY <1>0, <1>2, <1>6 DEF Fails, TypeOK
  <1>7. CASE UNCHANGED vars
    BY <1>0, <1>7 DEF vars, TypeOK
  <1> QED
    BY <1>1, <1>3, <1>4, <1>5, <1>6, <1>7 DEF Next, Commits

\* The week as create_week leaves it.
LEMMA TypeInit == Init => TypeOK
  <1> SUFFICES ASSUME Init
               PROVE  TypeOK
    OBVIOUS
  <1>1. NoProblem \in ProblemRow
    BY DEF NoProblem, ProblemRow
  <1>2. snaps \in Seq(Snapshot) /\ Len(snaps) = 1
    <2> DEFINE d == DataOf(NoProblem, {})
    <2>1. d = [head |-> NoProblem, count |-> 0]
      BY FS_EmptySet DEF DataOf
    <2>2. d \in [head : ProblemRow, count : Nat]
      BY <1>1, <2>1
    <2> HIDE DEF d
    <2>3. snaps = <<[version |-> 1, data |-> d]>>
      BY DEF Init, d
    <2>4. [version |-> 1, data |-> d] \in Snapshot
      BY <2>2 DEF Snapshot
    <2> QED
      BY <2>3, <2>4
  <1>3. DOMAIN job = Admins /\ \A a \in Admins : IsJob(job[a])
    BY DEF Init, IsJob
  <1> QED
    BY <1>1, <1>2, <1>3, FS_EmptySet, ContentAssumption DEF Init, TypeOK

(***************************************************************************)
(* With every operation and any number of administrators, also when their  *)
(* transactions meet rows they did not load: a row keeps its columns, the  *)
(* cases are finitely many, each snapshot is one of a problem and at least *)
(* one and at most KeepSnapshots of them are kept.                         *)
(***************************************************************************)
THEOREM SpecTypeOK == Spec => []TypeOK
  <1>1. TypeOK /\ [Next]_vars => TypeOK'
    BY TypeNext
  <1> QED
    BY <1>1, TypeInit, PTL DEF Spec
=============================================================================
