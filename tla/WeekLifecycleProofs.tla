------------------------ MODULE WeekLifecycleProofs ------------------------
(***************************************************************************)
(* The life of a week for every number of administrators, readers, weeks   *)
(* and times.                                                              *)
(***************************************************************************)
EXTENDS WeekLifecycle, SequenceTheorems, TLAPS

-----------------------------------------------------------------------------
(* Rows, changes and snapshots *)

\* Writing changes of the right types to a row gives a row.
LEMMA OverlayType ==
  ASSUME NEW row \in Row, NEW f, IsChanges(f)
  PROVE  /\ Overlay(row, f) \in Row
         /\ Overlay(row, f).status = IF "status" \in DOMAIN f THEN f["status"] ELSE row.status
         /\ Overlay(row, f).publish_at = IF "publish_at" \in DOMAIN f THEN f["publish_at"] ELSE row.publish_at
         /\ Overlay(row, f).number = IF "number" \in DOMAIN f THEN f["number"] ELSE row.number
  BY DEF Row, Overlay, IsChanges, TypeOfColumn, Columns, StateColumns, DateColumns

\* The state of a row is a state.
LEMMA StateType ==
  ASSUME NEW row \in Row
  PROVE  /\ RestrictTo(row, StateColumns) \in State
         /\ RestrictTo(row, StateColumns).status = row.status
         /\ RestrictTo(row, StateColumns).publish_at = row.publish_at
  BY DEF Row, State, RestrictTo, StateColumns, DateColumns

\* A publication pass keeps the release time of a row.
LEMMA MaterialisedType ==
  ASSUME NEW row \in Row
  PROVE  /\ Materialised(row) \in Row
         /\ Materialised(row).status = "PUBLISHED"
         /\ Materialised(row).publish_at = row.publish_at
         /\ Materialised(row).number = row.number
  BY DEF Row, Materialised, Statuses, Dates

\* Restricting changes gives changes.
LEMMA RestrictType ==
  ASSUME NEW f, IsChanges(f), NEW D \in SUBSET DOMAIN f
  PROVE  IsChanges(RestrictTo(f, D))
  BY DEF IsChanges, RestrictTo

\* The columns of a status change hold values of their types.
LEMMA AssignedType ==
  ASSUME NEW status \in Statuses \cup {"unchanged"}, NEW t \in Dates, now \in Times
  PROVE  IsChanges(Assigned(status, t))
  <1>1. NoTime \in Dates /\ now \in Dates
    BY DEF Dates
  <1>2. CASE status = "DRAFT"
    BY <1>1, <1>2 DEF Assigned, IsChanges, TypeOfColumn, Columns, StateColumns, DateColumns
  <1>3. CASE status = "SCHEDULED"
    BY <1>1, <1>3 DEF Assigned, IsChanges, TypeOfColumn, Columns, StateColumns, DateColumns, Statuses
  <1>4. CASE status = "PUBLISHED"
    BY <1>1, <1>4 DEF Assigned, IsChanges, TypeOfColumn, Columns, StateColumns, DateColumns, Statuses
  <1>5. CASE status = "ARCHIVED"
    BY <1>1, <1>5 DEF Assigned, IsChanges, TypeOfColumn, Columns, StateColumns, DateColumns, Statuses
  <1>6. CASE status = "unchanged"
    BY <1>6 DEF Assigned, IsChanges
  <1> QED BY <1>2, <1>3, <1>4, <1>5, <1>6 DEF Statuses

\* A snapshot extends the snapshots of a week.
LEMMA SnapshotType ==
  ASSUME NEW s \in Seq(State), NEW row \in Row
  PROVE  WithSnapshot(s, row) \in Seq(State)
  <1> DEFINE all == Append(s, RestrictTo(row, StateColumns))
  <1>1. all \in Seq(State) /\ all # <<>>
    BY StateType, AppendProperties
  <1>2. Tail(all) \in Seq(State)
    BY <1>1, HeadTailProperties
  <1> QED BY <1>1, <1>2 DEF WithSnapshot

\* The states in the snapshots of a week after one more was taken.
LEMMA SnapshotMembers ==
  ASSUME NEW s \in Seq(State), NEW row \in Row,
         NEW i \in 1..Len(WithSnapshot(s, row))
  PROVE  \/ WithSnapshot(s, row)[i] = RestrictTo(row, StateColumns)
         \/ \E k \in 1..Len(s) : WithSnapshot(s, row)[i] = s[k]
  <1> DEFINE st  == RestrictTo(row, StateColumns)
             all == Append(s, st)
  <1>1. /\ all \in Seq(State) /\ all # <<>> /\ Len(all) = Len(s) + 1 /\ Len(s) \in Nat
        /\ \A k \in 1..Len(s) : all[k] = s[k]
        /\ all[Len(s) + 1] = st
    BY StateType, AppendProperties, LenProperties
  <1>2. \A k \in 1..Len(all) : all[k] = st \/ \E m \in 1..Len(s) : all[k] = s[m]
    <2> HIDE DEF all
    <2> QED BY <1>1
  <1>3. /\ Len(Tail(all)) = Len(s)
        /\ \A k \in 1..Len(s) : Tail(all)[k] = all[k + 1]
    <2> HIDE DEF all
    <2> QED BY <1>1, HeadTailProperties
  <1>4. WithSnapshot(s, row) = all \/ WithSnapshot(s, row) = Tail(all)
    BY DEF WithSnapshot
  <1> HIDE DEF all
  <1>5. CASE WithSnapshot(s, row) = all
    BY <1>2, <1>5
  <1>6. CASE WithSnapshot(s, row) = Tail(all)
    <2>1. i \in 1..Len(s) /\ i + 1 \in 1..Len(all)
      BY <1>1, <1>3, <1>6
    <2>2. WithSnapshot(s, row)[i] = all[i + 1]
      BY <2>1, <1>3, <1>6
    <2> QED BY <2>1, <2>2, <1>2
  <1> QED BY <1>4, <1>5, <1>6

-----------------------------------------------------------------------------
(* Type correctness *)

\* What update_week assigns in an instance of UpdateBegin.
AssignedWith(n, status, t) ==
    [c \in DOMAIN Assigned(status, t) \cup {"number"} |->
        IF c = "number" THEN n ELSE Assigned(status, t)[c]]

LEMMA AssignedWithType ==
  ASSUME now \in Times, NEW n \in Numbers,
         NEW status \in Statuses \cup {"unchanged"}, NEW t \in Dates
  PROVE  IsChanges(AssignedWith(n, status, t))
  <1> DEFINE f == Assigned(status, t)
  <1>1. IsChanges(f)
    BY AssignedType
  <1>2. AssignedWith(n, status, t) =
          [c \in DOMAIN f \cup {"number"} |-> IF c = "number" THEN n ELSE f[c]]
    BY DEF AssignedWith
  <1> HIDE DEF f
  <1>3. "number" \in Columns /\ TypeOfColumn("number") = Numbers
    BY DEF TypeOfColumn, Columns
  <1> QED BY <1>1, <1>2, <1>3 DEF IsChanges

LEMMA WrittenType ==
  ASSUME NEW row, NEW f, IsChanges(f)
  PROVE  IsChanges(Written(row, f))
  BY RestrictType DEF Written

LEMMA DifferingType ==
  ASSUME NEW row, NEW f \in State
  PROVE  IsChanges(Differing(row, f))
  <1>1. IsChanges(f)
    BY DEF State, IsChanges, TypeOfColumn, Columns, StateColumns, DateColumns
  <1> QED BY <1>1, RestrictType DEF Differing

\* A row gives a release time.
LEMMA ReleaseType ==
  ASSUME NEW row \in Row
  PROVE  ReleaseOf(row) \in Dates
  BY DEF Row, ReleaseOf, Dates

LEMMA StartKeepsType ==
  ASSUME TypeOK, NEW a \in Admins, NEW j, IsJob(j), Start(a, j)
  PROVE  TypeOK'
  <1>1. DOMAIN job' = Admins /\ \A b \in Admins : IsJob(job'[b])
    BY DEF TypeOK, Start
  <1>2. IsJob(j)' <=> IsJob(j)
    BY DEF IsJob
  <1> QED BY <1>1 DEF TypeOK, Start

LEMMA StartWriteKeepsType ==
  ASSUME TypeOK, NEW a \in Admins, NEW w \in DOMAIN rows,
         NEW f, IsChanges(f), NEW snap \in BOOLEAN, StartWrite(a, w, f, snap)
  PROVE  TypeOK'
  <1> DEFINE j == [op |-> "write", id |-> w, changes |-> f, snapshot |-> snap,
                   asks |-> ReleaseOf(Overlay(rows[w], f))]
  <1>1. w \in Ids /\ rows[w] \in Row
    BY DEF TypeOK
  <1>2. ReleaseOf(Overlay(rows[w], f)) \in Dates
    BY <1>1, OverlayType, ReleaseType
  <1>3. IsJob(j)
    BY <1>1, <1>2 DEF IsJob
  <1>4. Start(a, j)
    BY DEF StartWrite
  <1> QED BY <1>3, <1>4, StartKeepsType

LEMMA BeginKeepsType ==
  ASSUME TypeOK, NEW a \in Admins, AdminBegins(a)
  PROVE  TypeOK'
  <1>1. ASSUME NEW n \in Numbers, CreateBegin(a, n)
        PROVE  TypeOK'
    <2>1. IsJob([op |-> "insert", number |-> n])
      BY DEF IsJob
    <2> QED BY <1>1, <2>1, StartKeepsType DEF CreateBegin
  <1>2. ASSUME NEW w \in Ids, NEW n \in Numbers, NEW status \in Statuses \cup {"unchanged"},
               NEW t \in Dates, NEW content \in BOOLEAN,
               UpdateBegin(a, w, n, status, t, content)
        PROVE  TypeOK'
    <2>1. IsChanges(Written(rows[w], AssignedWith(n, status, t)))
      BY AssignedWithType, WrittenType DEF TypeOK
    <2>2. /\ w \in DOMAIN rows
          /\ StartWrite(a, w, Written(rows[w], AssignedWith(n, status, t)), content)
      BY <1>2 DEF UpdateBegin, AssignedWith
    <2> QED BY <2>1, <2>2, StartWriteKeepsType
  <1>3. ASSUME NEW w \in Ids, NEW i \in 1..KeepSnapshots, RollbackBegin(a, w, i)
        PROVE  TypeOK'
    <2>1. w \in DOMAIN rows /\ snaps[w][i] \in State
      BY <1>3 DEF RollbackBegin, TypeOK
    <2>2. IsChanges(Differing(rows[w], snaps[w][i]))
      BY <2>1, DifferingType
    <2>3. StartWrite(a, w, Differing(rows[w], snaps[w][i]), TRUE)
      BY <1>3 DEF RollbackBegin
    <2> QED BY <2>1, <2>2, <2>3, StartWriteKeepsType
  <1>4. ASSUME NEW w \in Ids, DeleteBegin(a, w)
        PROVE  TypeOK'
    <2>1. IsJob([op |-> "delete", id |-> w])
      BY DEF IsJob
    <2> QED BY <1>4, <2>1, StartKeepsType DEF DeleteBegin
  <1> QED BY <1>1, <1>2, <1>3, <1>4 DEF AdminBegins

\* The handler of a is done; the other handlers stay.
LEMMA DoneKeepsJobs ==
  ASSUME TypeOK, NEW a \in Admins, Done(a)
  PROVE  DOMAIN job' = Admins /\ \A b \in Admins : IsJob(job'[b])
  BY DEF TypeOK, Done, IsJob

LEMMA CommitKeepsType ==
  ASSUME TypeOK, NEW a \in Admins, AdminCommits(a)
  PROVE  TypeOK'
  <1> USE DEF TypeOK
  <1>1. ASSUME NEW w \in Ids, InsertCommit(a, w)
        PROVE  TypeOK'
    <2> DEFINE row == [number |-> job[a].number, status |-> "DRAFT",
                       publish_at |-> NoTime, published_at |-> NoTime,
                       archived_at |-> NoTime]
    <2>1. job[a].number \in Numbers
      BY <1>1 DEF InsertCommit, IsJob, Idle
    <2>2. row \in Row
      BY <2>1 DEF Row, Statuses, Dates
    <2>3. WithSnapshot(<<>>, row) \in Seq(State)
      BY <2>2, SnapshotType, EmptySeq
    <2>4. /\ rows' = [v \in DOMAIN rows \cup {w} |-> IF v = w THEN row ELSE rows[v]]
          /\ snaps' = [v \in DOMAIN rows \cup {w} |->
                            IF v = w THEN WithSnapshot(<<>>, row) ELSE snaps[v]]
      BY <1>1 DEF InsertCommit
    <2> HIDE DEF row
    <2>5. /\ DOMAIN rows' \subseteq Ids /\ DOMAIN snaps' = DOMAIN rows'
          /\ \A v \in DOMAIN rows' : rows'[v] \in Row /\ snaps'[v] \in Seq(State)
      BY <2>2, <2>3, <2>4
    <2>6. now' = now /\ due' = due /\ Done(a)
      BY <1>1 DEF InsertCommit
    <2> QED BY <2>5, <2>6, DoneKeepsJobs
  <1>2. CASE WriteCommit(a)
    <2> DEFINE row == Overlay(rows[job[a].id], job[a].changes)
    <2>1. job[a].id \in DOMAIN rows /\ IsChanges(job[a].changes)
      BY <1>2 DEF WriteCommit, IsJob, Idle
    <2>2. row \in Row
      BY <2>1, OverlayType
    <2>3. /\ rows' = [rows EXCEPT ![job[a].id] = row]
          /\ \/ snaps' = [snaps EXCEPT ![job[a].id] = WithSnapshot(@, row)]
             \/ snaps' = snaps
      BY <1>2 DEF WriteCommit
    <2>4. WithSnapshot(snaps[job[a].id], row) \in Seq(State)
      BY <2>1, <2>2, SnapshotType
    <2> HIDE DEF row
    <2>5. /\ DOMAIN rows' = DOMAIN rows /\ DOMAIN snaps' = DOMAIN rows
          /\ \A v \in DOMAIN rows : rows'[v] \in Row /\ snaps'[v] \in Seq(State)
      BY <2>1, <2>2, <2>3, <2>4
    <2>6. now' = now /\ due' = due /\ Done(a)
      BY <1>2 DEF WriteCommit
    <2> QED BY <2>5, <2>6, DoneKeepsJobs
  <1>3. CASE DeleteCommit(a)
    <2>1. /\ DOMAIN rows' \subseteq DOMAIN rows /\ DOMAIN snaps' = DOMAIN rows'
          /\ \A v \in DOMAIN rows' : rows'[v] = rows[v] /\ snaps'[v] = snaps[v]
      BY <1>3 DEF DeleteCommit, RestrictTo
    <2>2. now' = now /\ due' = due /\ Done(a)
      BY <1>3 DEF DeleteCommit
    <2> QED BY <2>1, <2>2, DoneKeepsJobs
  <1>4. CASE CommitFails(a)
    BY <1>4, DoneKeepsJobs DEF CommitFails
  <1> QED BY <1>1, <1>2, <1>3, <1>4 DEF AdminCommits

\* What a publication pass does to the table.
LEMMA PassEffect ==
  ASSUME TypeOK, NEW r \in Readers, PassCommit(r)
  PROVE  /\ DOMAIN rows' = DOMAIN rows
         /\ \A w \in DOMAIN rows :
              \/ rows'[w] = rows[w]
              \/ rows[w].status = "SCHEDULED" /\ rows'[w] = Materialised(rows[w])
  BY DEF PassCommit

LEMMA PassKeepsType ==
  ASSUME TypeOK, NEW r \in Readers, PassBegin(r) \/ PassCommit(r) \/ PassFails(r)
  PROVE  TypeOK'
  <1>1. CASE PassBegin(r)
    BY <1>1 DEF TypeOK, PassBegin, IsJob
  <1>2. CASE PassCommit(r)
    <2>1. \A w \in DOMAIN rows : rows'[w] \in Row
      BY PassEffect, MaterialisedType, <1>2 DEF TypeOK
    <2>2. due' \in [Readers -> SUBSET Ids]
      BY <1>2 DEF TypeOK, PassCommit
    <2> QED BY <2>1, <2>2, PassEffect, <1>2 DEF TypeOK, PassCommit, IsJob
  <1>3. CASE PassFails(r)
    BY <1>3 DEF TypeOK, PassFails, IsJob
  <1> QED BY <1>1, <1>2, <1>3

LEMMA TypeInv == TypeOK /\ [Next]_vars => TypeOK'
  <1> SUFFICES ASSUME TypeOK, [Next]_vars PROVE TypeOK'
    OBVIOUS
  <1>1. CASE Tick
    BY <1>1, LifecycleAssumption DEF TypeOK, Tick, Times, IsJob
  <1>2. CASE UNCHANGED vars
    BY <1>2 DEF TypeOK, vars
  <1> QED BY <1>1, <1>2, BeginKeepsType, CommitKeepsType, PassKeepsType DEF Next

LEMMA TypeInit == Init => TypeOK
  BY LifecycleAssumption DEF Init, TypeOK, Times, IsJob

(***************************************************************************)
(* SpecTypeOK: every handler and every pass writes rows, snapshots and     *)
(* jobs of their types, for every number of requests that race.            *)
(***************************************************************************)
THEOREM SpecTypeOK == Spec => []TypeOK
  BY TypeInit, TypeInv, PTL DEF Spec

-----------------------------------------------------------------------------
(* What students see *)

\* The reads of a handler end in the start of its job.
LEMMA BeginStarts ==
  ASSUME NEW a \in Admins, AdminBegins(a)
  PROVE  \E j : Start(a, j)
  <1>1. ASSUME NEW w, NEW f, NEW snap, StartWrite(a, w, f, snap)
        PROVE  \E j : Start(a, j)
    BY <1>1 DEF StartWrite
  <1>2. ASSUME NEW w, NEW n, NEW status, NEW t, NEW content,
               UpdateBegin(a, w, n, status, t, content)
        PROVE  \E j : Start(a, j)
    <2>1. StartWrite(a, w, Written(rows[w], AssignedWith(n, status, t)), content)
      BY <1>2 DEF UpdateBegin, AssignedWith
    <2> QED BY <2>1, <1>1
  <1>3. ASSUME NEW w, NEW i, RollbackBegin(a, w, i)
        PROVE  \E j : Start(a, j)
    BY <1>1, <1>3 DEF RollbackBegin
  <1>4. ASSUME NEW n, CreateBegin(a, n)
        PROVE  \E j : Start(a, j)
    BY <1>4 DEF CreateBegin
  <1>5. ASSUME NEW w, DeleteBegin(a, w)
        PROVE  \E j : Start(a, j)
    BY <1>5 DEF DeleteBegin
  <1> QED BY <1>2, <1>3, <1>4, <1>5 DEF AdminBegins

\* Of an administrator's steps, only a commit that succeeds changes the table,
\* and it is the end of a handler.
LEMMA AdminStepEffect ==
  ASSUME TypeOK, NEW a \in Admins, AdminBegins(a) \/ AdminCommits(a)
  PROVE  now' = now /\ (rows' = rows \/ job' # job)
  <1>1. CASE AdminBegins(a)
    <2>1. PICK j : Start(a, j)
      BY <1>1, BeginStarts
    <2> QED BY <2>1 DEF Start
  <1>2. CASE CommitFails(a)
    BY <1>2 DEF CommitFails
  <1>3. ASSUME job[a].op # "idle", Done(a)
        PROVE  job' # job
    <2>1. job'[a] = Idle /\ job[a] # Idle
      BY <1>3 DEF Done, Idle, TypeOK
    <2> QED BY <2>1
  <1>4. CASE \E w \in Ids : InsertCommit(a, w)
    BY <1>3, <1>4 DEF InsertCommit
  <1>5. CASE WriteCommit(a)
    BY <1>3, <1>5 DEF WriteCommit
  <1>6. CASE DeleteCommit(a)
    BY <1>3, <1>6 DEF DeleteCommit
  <1> QED BY <1>1, <1>2, <1>4, <1>5, <1>6 DEF AdminCommits

LEMMA StepHides ==
  ASSUME TypeOK, [Next]_vars, job' = job
  PROVE  /\ DOMAIN rows' = DOMAIN rows
         /\ \A w \in DOMAIN rows :
              /\ Visible(w) => Visible(w)'
              /\ Visible(w)' /\ ~Visible(w) => now' = rows[w].publish_at
  <1>1. CASE now' = now /\ rows' = rows
    BY <1>1 DEF Visible
  <1>2. ASSUME NEW r \in Readers, PassCommit(r)
        PROVE  /\ DOMAIN rows' = DOMAIN rows
               /\ \A w \in DOMAIN rows : Visible(w)' <=> Visible(w)
    <2>1. now' = now
      BY <1>2 DEF PassCommit
    <2>2. ASSUME NEW w \in DOMAIN rows
          PROVE  Visible(w)' <=> Visible(w)
      <3>1. CASE rows'[w] = rows[w]
        BY <2>1, <3>1 DEF Visible
      <3>2. CASE rows[w].status = "SCHEDULED" /\ rows'[w] = Materialised(rows[w])
        BY <2>1, <3>2, MaterialisedType DEF Visible, TypeOK
      <3> QED BY <3>1, <3>2, PassEffect, <1>2
    <2> QED BY <2>2, PassEffect, <1>2
  <1>3. CASE Tick
    <2>1. now \in Int /\ now' = now + 1 /\ rows' = rows
      BY <1>3, LifecycleAssumption DEF Tick, TypeOK, Times
    <2>2. \A w \in DOMAIN rows : rows[w].publish_at \in Int
      BY LifecycleAssumption DEF TypeOK, Row, Dates, Times, NoTime
    <2> QED BY <2>1, <2>2 DEF Visible
  <1>4. CASE \E a \in Admins : AdminBegins(a) \/ AdminCommits(a)
    BY <1>1, <1>4, AdminStepEffect
  <1>5. CASE \E r \in Readers : PassBegin(r) \/ PassFails(r)
    BY <1>1, <1>5 DEF PassBegin, PassFails
  <1>6. CASE UNCHANGED vars
    BY <1>1, <1>6 DEF vars
  <1> QED BY <1>2, <1>3, <1>4, <1>5, <1>6 DEF Next

(***************************************************************************)
(* SpecOnlyCommandsHide: the publication passes, however many race with    *)
(* each other and with administrators, change nothing that students see.   *)
(***************************************************************************)
THEOREM SpecOnlyCommandsHide == Spec => OnlyCommandsHide
  <1>1. TypeOK /\ [Next]_vars =>
          [job' = job =>
            /\ DOMAIN rows' = DOMAIN rows
            /\ \A w \in DOMAIN rows :
                /\ Visible(w) => Visible(w)'
                /\ Visible(w)' /\ ~Visible(w) => now' = rows[w].publish_at]_vars
    BY StepHides
  <1> QED BY <1>1, SpecTypeOK, PTL DEF Spec, OnlyCommandsHide

-----------------------------------------------------------------------------
(* One administrator at a time *)

\* What the handler of a would make of its week now is what it asked for, and
\* has a release time if it is to be released.
Fits(a) ==
    job[a].op = "write" /\ job[a].id \in DOMAIN rows =>
        LET row == Overlay(rows[job[a].id], job[a].changes)
        IN  ReleaseOf(row) = job[a].asks /\ HasTime(row)

OneAdminInv == TypeOK /\ ScheduledHasTime /\ \A a \in Admins : Fits(a)

\* A pass that runs between the reads and the write of a handler makes no
\* difference to what the handler writes.
LEMMA OverlayMaterialised ==
  ASSUME NEW row \in Row, row.status = "SCHEDULED", NEW f, IsChanges(f)
  PROVE  /\ ReleaseOf(Overlay(Materialised(row), f)) = ReleaseOf(Overlay(row, f))
         /\ HasTime(Overlay(row, f)) => HasTime(Overlay(Materialised(row), f))
  <1>1. Materialised(row) \in Row
    BY MaterialisedType
  <1> DEFINE old == Overlay(row, f)
             new == Overlay(Materialised(row), f)
  <1>2. new.publish_at = old.publish_at
    BY <1>1, OverlayType, MaterialisedType
  <1>3. \/ new.status = old.status
        \/ old.status = "SCHEDULED" /\ new.status = "PUBLISHED"
    BY <1>1, OverlayType, MaterialisedType
  <1> HIDE DEF old, new
  <1>4. ReleaseOf(new) = ReleaseOf(old) /\ (HasTime(old) => HasTime(new))
    BY <1>2, <1>3 DEF ReleaseOf, HasTime
  <1> QED BY <1>4 DEF old, new

\* A row that update_week would leave behind has its release time.
LEMMA UpdateHasTime ==
  ASSUME TypeOK, NEW row \in Row, HasTime(row), NEW n \in Numbers,
         NEW status \in Statuses \cup {"unchanged"}, NEW t \in Dates,
         Acceptable(status, t)
  PROVE  HasTime(Overlay(row, Written(row, AssignedWith(n, status, t))))
  <1> DEFINE f   == AssignedWith(n, status, t)
             g   == Written(row, f)
             new == Overlay(row, g)
  <1>1. IsChanges(f) /\ IsChanges(g)
    BY AssignedWithType, WrittenType DEF TypeOK
  <1>2. /\ DOMAIN f = DOMAIN Assigned(status, t) \cup {"number"}
        /\ \A c \in DOMAIN Assigned(status, t) \ {"number"} : f[c] = Assigned(status, t)[c]
    BY DEF AssignedWith
  <1>3. now # NoTime
    BY LifecycleAssumption DEF TypeOK, Times, NoTime
  <1>4. /\ new.status = IF "status" \in DOMAIN g THEN g["status"] ELSE row.status
        /\ new.publish_at = IF "publish_at" \in DOMAIN g THEN g["publish_at"] ELSE row.publish_at
    BY <1>1, OverlayType
  <1>5. /\ \A c \in DOMAIN g : c \in DOMAIN f /\ g[c] = f[c]
        /\ "status" \in DOMAIN f /\ "status" \notin DOMAIN g => f["status"] = row.status
        /\ "publish_at" \in DOMAIN f /\ f["publish_at"] # NoTime => "publish_at" \in DOMAIN g
    BY <1>1 DEF Written, RestrictTo, Row, DateColumns
  <1> HIDE DEF f, g, new
  <1>6. CASE status = "DRAFT"
    <2>1. "status" \in DOMAIN f /\ f["status"] = "DRAFT"
      BY <1>2, <1>6 DEF Assigned
    <2>2. new.status = "DRAFT"
      BY <2>1, <1>4, <1>5
    <2> QED BY <2>2 DEF HasTime, new, g, f
  <1>7. CASE status = "SCHEDULED"
    <2>1. "publish_at" \in DOMAIN f /\ f["publish_at"] = t
      BY <1>2, <1>7 DEF Assigned
    <2>2. new.publish_at # NoTime
      BY <2>1, <1>4, <1>5, <1>7 DEF Acceptable
    <2> QED BY <2>2 DEF HasTime, new, g, f
  <1>8. CASE status = "PUBLISHED"
    <2>1. "publish_at" \in DOMAIN f /\ f["publish_at"] = now
      BY <1>2, <1>8 DEF Assigned
    <2>2. new.publish_at # NoTime
      BY <2>1, <1>3, <1>4, <1>5
    <2> QED BY <2>2 DEF HasTime, new, g, f
  <1>9. CASE status = "ARCHIVED"
    <2>1. "status" \in DOMAIN f /\ f["status"] = "ARCHIVED"
      BY <1>2, <1>9 DEF Assigned
    <2>2. new.status = "ARCHIVED"
      BY <2>1, <1>4, <1>5
    <2> QED BY <2>2 DEF HasTime, new, g, f
  <1>10. CASE status = "unchanged"
    <2>1. DOMAIN f = {"number"}
      BY <1>2, <1>10 DEF Assigned
    <2>2. new.status = row.status /\ new.publish_at = row.publish_at
      BY <2>1, <1>4, <1>5
    <2>3. HasTime(new)
      BY <2>2 DEF HasTime
    <2> QED BY <2>3 DEF new, g, f
  <1> QED BY <1>6, <1>7, <1>8, <1>9, <1>10 DEF Statuses

\* A rollback leaves the status and the time of the snapshot.
LEMMA RollbackHasTime ==
  ASSUME NEW row \in Row, NEW st \in State, HasTime(st)
  PROVE  HasTime(Overlay(row, Differing(row, st)))
  <1> DEFINE g   == Differing(row, st)
             new == Overlay(row, g)
  <1>1. IsChanges(g)
    BY DifferingType
  <1>2. /\ \A c \in DOMAIN g : g[c] = st[c]
        /\ "status" \in DOMAIN g \/ row.status = st.status
        /\ "publish_at" \in DOMAIN g \/ row.publish_at = st.publish_at
    BY DEF Differing, RestrictTo, State, Row
  <1>3. new.status = st.status /\ new.publish_at = st.publish_at
    BY <1>1, <1>2, OverlayType
  <1> HIDE DEF new
  <1>4. HasTime(new)
    BY <1>3 DEF HasTime
  <1> QED BY <1>4 DEF new

OneAdmin == \A a, b \in Admins : a = b

\* Nothing but the handler of the only administrator has started or ended.
LEMMA OtherJobs ==
  ASSUME OneAdmin, TypeOK, NEW a \in Admins, NEW j, job' = [job EXCEPT ![a] = j]
  PROVE  \A b \in Admins : b = a /\ job'[b] = j
  BY DEF OneAdmin, TypeOK

\* A handler that has just started fits.
LEMMA StartWriteFits ==
  ASSUME OneAdmin, OneAdminInv, NEW a \in Admins, NEW w \in DOMAIN rows,
         NEW f, NEW snap, HasTime(Overlay(rows[w], f)), StartWrite(a, w, f, snap)
  PROVE  \A b \in Admins : Fits(b)'
  <1> DEFINE j == [op |-> "write", id |-> w, changes |-> f, snapshot |-> snap,
                   asks |-> ReleaseOf(Overlay(rows[w], f))]
  <1>1. Start(a, j)
    BY DEF StartWrite
  <1>2. \A b \in Admins : job'[b] = j
    BY <1>1, OtherJobs DEF OneAdminInv, Start
  <1>3. rows' = rows
    BY <1>1 DEF Start
  <1>4. ASSUME NEW b \in Admins
        PROVE  Fits(b)'
    <2>1. /\ job'[b].id = w /\ job'[b].changes = f
          /\ job'[b].asks = ReleaseOf(Overlay(rows[w], f))
      BY <1>2
    <2>2. /\ ReleaseOf(Overlay(rows'[job'[b].id], job'[b].changes)) = job'[b].asks
          /\ HasTime(Overlay(rows'[job'[b].id], job'[b].changes))
      BY <2>1, <1>3
    <2> QED BY <2>2 DEF Fits
  <1> QED BY <1>4

\* A job that writes no row fits, whatever the table.
LEMMA IdleFits ==
  ASSUME NEW b \in Admins, job'[b].op # "write"
  PROVE  Fits(b)'
  BY DEF Fits

\* The reads of a handler disturb nothing.
LEMMA BeginKeepsOneAdmin ==
  ASSUME OneAdmin, OneAdminInv, NEW a \in Admins, AdminBegins(a)
  PROVE  OneAdminInv'
  <1> USE DEF OneAdminInv
  <1>1. rows' = rows /\ snaps' = snaps
    BY BeginStarts DEF Start
  <1>2. ScheduledHasTime'
    BY <1>1 DEF ScheduledHasTime, HasTime
  <1>3. ASSUME NEW n \in Numbers, CreateBegin(a, n)
        PROVE  \A b \in Admins : Fits(b)'
    <2>1. job' = [job EXCEPT ![a] = [op |-> "insert", number |-> n]]
      BY <1>3 DEF CreateBegin, Start
    <2>2. \A b \in Admins : job'[b] = [op |-> "insert", number |-> n]
      BY <2>1, OtherJobs
    <2> QED BY <2>2, IdleFits
  <1>4. ASSUME NEW w \in Ids, NEW n \in Numbers, NEW status \in Statuses \cup {"unchanged"},
               NEW t \in Dates, NEW content \in BOOLEAN,
               UpdateBegin(a, w, n, status, t, content)
        PROVE  \A b \in Admins : Fits(b)'
    <2>1. /\ w \in DOMAIN rows /\ Acceptable(status, t)
          /\ StartWrite(a, w, Written(rows[w], AssignedWith(n, status, t)), content)
      BY <1>4 DEF UpdateBegin, AssignedWith
    <2>2. rows[w] \in Row /\ HasTime(rows[w])
      BY <2>1 DEF TypeOK, ScheduledHasTime
    <2>3. HasTime(Overlay(rows[w], Written(rows[w], AssignedWith(n, status, t))))
      BY <2>1, <2>2, UpdateHasTime
    <2> QED BY <2>1, <2>3, StartWriteFits
  <1>5. ASSUME NEW w \in Ids, NEW i \in 1..KeepSnapshots, RollbackBegin(a, w, i)
        PROVE  \A b \in Admins : Fits(b)'
    <2>1. /\ w \in DOMAIN rows /\ i \in 1..Len(snaps[w])
          /\ StartWrite(a, w, Differing(rows[w], snaps[w][i]), TRUE)
      BY <1>5 DEF RollbackBegin
    <2>2. rows[w] \in Row /\ snaps[w][i] \in State /\ HasTime(snaps[w][i])
      BY <2>1 DEF TypeOK, ScheduledHasTime
    <2>3. HasTime(Overlay(rows[w], Differing(rows[w], snaps[w][i])))
      BY <2>2, RollbackHasTime
    <2> QED BY <2>1, <2>3, StartWriteFits
  <1>6. ASSUME NEW w \in Ids, DeleteBegin(a, w)
        PROVE  \A b \in Admins : Fits(b)'
    <2>1. job' = [job EXCEPT ![a] = [op |-> "delete", id |-> w]]
      BY <1>6 DEF DeleteBegin, Start
    <2>2. \A b \in Admins : job'[b] = [op |-> "delete", id |-> w]
      BY <2>1, OtherJobs
    <2> QED BY <2>2, IdleFits
  <1>7. \A b \in Admins : Fits(b)'
    BY <1>3, <1>4, <1>5, <1>6 DEF AdminBegins
  <1> QED BY <1>2, <1>7, BeginKeepsType

\* A row with its release time leaves a snapshot with it.
LEMMA SnapshotHasTime ==
  ASSUME NEW s \in Seq(State), \A i \in 1..Len(s) : HasTime(s[i]),
         NEW row \in Row, HasTime(row)
  PROVE  \A i \in 1..Len(WithSnapshot(s, row)) : HasTime(WithSnapshot(s, row)[i])
  <1>1. HasTime(RestrictTo(row, StateColumns))
    BY StateType DEF HasTime
  <1> QED BY <1>1, SnapshotMembers

\* The transaction of a handler keeps release times.
LEMMA CommitKeepsOneAdmin ==
  ASSUME OneAdmin, OneAdminInv, NEW a \in Admins, AdminCommits(a)
  PROVE  OneAdminInv'
  <1> USE DEF OneAdminInv
  <1>1. Done(a)
    BY DEF AdminCommits, InsertCommit, WriteCommit, DeleteCommit, CommitFails
  <1>2. \A b \in Admins : Fits(b)'
    <2>1. \A b \in Admins : job'[b] = Idle
      BY <1>1, OtherJobs DEF Done
    <2> QED BY <2>1, IdleFits DEF Idle
  <1>3. ASSUME NEW w \in Ids, InsertCommit(a, w)
        PROVE  ScheduledHasTime'
    <2> DEFINE row == [number |-> job[a].number, status |-> "DRAFT",
                       publish_at |-> NoTime, published_at |-> NoTime,
                       archived_at |-> NoTime]
    <2>1. row \in Row /\ HasTime(row)
      BY <1>3 DEF InsertCommit, TypeOK, IsJob, Idle, Row, Statuses, Dates, HasTime
    <2>2. \A i \in 1..Len(WithSnapshot(<<>>, row)) : HasTime(WithSnapshot(<<>>, row)[i])
      <3>1. <<>> \in Seq(State) /\ \A i \in 1..Len(<<>>) : HasTime(<<>>[i])
        OBVIOUS
      <3> QED BY <3>1, <2>1, SnapshotHasTime
    <2>3. /\ rows' = [v \in DOMAIN rows \cup {w} |-> IF v = w THEN row ELSE rows[v]]
          /\ snaps' = [v \in DOMAIN rows \cup {w} |->
                            IF v = w THEN WithSnapshot(<<>>, row) ELSE snaps[v]]
      BY <1>3 DEF InsertCommit
    <2> HIDE DEF row
    <2>4. ASSUME NEW v \in DOMAIN rows'
          PROVE  HasTime(rows'[v]) /\ \A i \in 1..Len(snaps'[v]) : HasTime(snaps'[v][i])
      <3>1. CASE v = w
        BY <2>1, <2>2, <2>3, <3>1
      <3>2. CASE v # w
        BY <2>3, <3>2 DEF ScheduledHasTime
      <3> QED BY <3>1, <3>2
    <2> QED BY <2>4 DEF ScheduledHasTime, HasTime
  <1>4. ASSUME WriteCommit(a)
        PROVE  ScheduledHasTime'
    <2> DEFINE w   == job[a].id
               row == Overlay(rows[w], job[a].changes)
    <2>1. w \in DOMAIN rows /\ job[a].op = "write" /\ IsChanges(job[a].changes)
      BY <1>4 DEF WriteCommit, TypeOK, IsJob, Idle
    <2>2. row \in Row /\ HasTime(row)
      BY <2>1, OverlayType DEF TypeOK, Fits
    <2>3. /\ rows' = [rows EXCEPT ![w] = row]
          /\ \/ snaps' = [snaps EXCEPT ![w] = WithSnapshot(snaps[w], row)]
             \/ snaps' = snaps
      BY <1>4 DEF WriteCommit
    <2>4. \A i \in 1..Len(WithSnapshot(snaps[w], row)) :
            HasTime(WithSnapshot(snaps[w], row)[i])
      BY <2>1, <2>2, SnapshotHasTime DEF TypeOK, ScheduledHasTime
    <2> HIDE DEF row, w
    <2>5. ASSUME NEW v \in DOMAIN rows
          PROVE  HasTime(rows'[v]) /\ \A i \in 1..Len(snaps'[v]) : HasTime(snaps'[v][i])
      <3>1. v \in DOMAIN snaps
        BY DEF TypeOK
      <3>2. CASE v = w
        BY <2>2, <2>3, <2>4, <3>1, <3>2 DEF ScheduledHasTime
      <3>3. CASE v # w
        BY <2>3, <3>1, <3>3 DEF ScheduledHasTime
      <3> QED BY <3>2, <3>3
    <2>6. DOMAIN rows' = DOMAIN rows
      BY <2>3
    <2> QED BY <2>5, <2>6 DEF ScheduledHasTime, HasTime
  <1>5. ASSUME DeleteCommit(a)
        PROVE  ScheduledHasTime'
    BY <1>5 DEF DeleteCommit, RestrictTo, ScheduledHasTime, HasTime
  <1>6. ASSUME CommitFails(a)
        PROVE  ScheduledHasTime'
    BY <1>6 DEF CommitFails, ScheduledHasTime, HasTime
  <1>7. ScheduledHasTime'
    BY <1>3, <1>4, <1>5, <1>6 DEF AdminCommits
  <1> QED BY <1>2, <1>7, CommitKeepsType

\* A pass keeps release times, those that a handler is about to write as well.
LEMMA PassKeepsOneAdmin ==
  ASSUME OneAdminInv, NEW r \in Readers, PassCommit(r)
  PROVE  OneAdminInv'
  <1> USE DEF OneAdminInv
  <1>1. job' = job /\ snaps' = snaps
    BY DEF PassCommit
  <1>2. ScheduledHasTime'
    <2>1. ASSUME NEW w \in DOMAIN rows
          PROVE  HasTime(rows'[w])
      <3>1. rows[w] \in Row /\ HasTime(rows[w])
        BY DEF TypeOK, ScheduledHasTime
      <3>2. CASE rows[w].status = "SCHEDULED" /\ rows'[w] = Materialised(rows[w])
        BY <3>1, <3>2, MaterialisedType DEF HasTime
      <3> QED BY <3>1, <3>2, PassEffect
    <2> QED BY <2>1, <1>1, PassEffect DEF ScheduledHasTime
  <1>3. ASSUME NEW a \in Admins
        PROVE  Fits(a)'
    <2> DEFINE w == job[a].id
               f == job[a].changes
    <2>1. SUFFICES ASSUME job[a].op = "write", w \in DOMAIN rows
                   PROVE  /\ ReleaseOf(Overlay(rows'[w], f)) = job[a].asks
                          /\ HasTime(Overlay(rows'[w], f))
      BY <1>1, PassEffect DEF Fits
    <2>2. /\ ReleaseOf(Overlay(rows[w], f)) = job[a].asks
          /\ HasTime(Overlay(rows[w], f))
      BY <2>1 DEF Fits
    <2>3. IsChanges(f) /\ rows[w] \in Row
      BY <2>1 DEF TypeOK, IsJob, Idle
    <2>4. CASE rows'[w] = rows[w]
      BY <2>2, <2>4
    <2>5. CASE rows[w].status = "SCHEDULED" /\ rows'[w] = Materialised(rows[w])
      BY <2>2, <2>3, <2>5, OverlayMaterialised
    <2> QED BY <2>1, <2>4, <2>5, PassEffect
  <1>4. TypeOK'
    BY PassKeepsType
  <1> QED BY <1>2, <1>3, <1>4

LEMMA OneAdminNext == OneAdmin /\ OneAdminInv /\ [Next]_vars => OneAdminInv'
  <1> SUFFICES ASSUME OneAdmin, OneAdminInv, [Next]_vars PROVE OneAdminInv'
    OBVIOUS
  <1>1. TypeOK'
    BY TypeInv DEF OneAdminInv
  <1>2. ASSUME UNCHANGED <<rows, snaps, job>>
        PROVE  OneAdminInv'
    <2>1. ScheduledHasTime'
      BY <1>2 DEF OneAdminInv, ScheduledHasTime
    <2>2. \A a \in Admins : Fits(a)'
      BY <1>2 DEF OneAdminInv, Fits
    <2> QED BY <1>1, <2>1, <2>2 DEF OneAdminInv
  <1>3. CASE Tick \/ (\E r \in Readers : PassBegin(r) \/ PassFails(r)) \/ UNCHANGED vars
    BY <1>2, <1>3 DEF Tick, PassBegin, PassFails, vars
  <1> QED BY <1>3, BeginKeepsOneAdmin, CommitKeepsOneAdmin, PassKeepsOneAdmin DEF Next

LEMMA OneAdminInit == Init => OneAdminInv
  BY TypeInit DEF Init, OneAdminInv, ScheduledHasTime, Fits, Idle

(***************************************************************************)
(* SpecScheduledHasTime: with one administrator at a time, no handler, in  *)
(* particular no rollback, leaves a scheduled or published week without a  *)
(* release time, however many passes run between its reads and its write.  *)
(***************************************************************************)
THEOREM SpecScheduledHasTime ==
  ASSUME OneAdmin
  PROVE  Spec => []ScheduledHasTime
  <1>1. OneAdminInv /\ [Next]_vars => OneAdminInv'
    BY OneAdminNext
  <1>2. OneAdminInv => ScheduledHasTime
    BY DEF OneAdminInv
  <1> QED BY <1>1, <1>2, OneAdminInit, PTL DEF Spec

-----------------------------------------------------------------------------
(* The refinement *)

ReleaseMap == [w \in Ids |-> IF w \in DOMAIN rows THEN ReleaseOf(rows[w]) ELSE NoTime]
CommandMap == [a \in Admins |-> CommandOf(job[a])]

\* The refinement mapping depends on these variables only.
LEMMA MapUnchanged ==
  ASSUME now' = now, ReleaseMap' = ReleaseMap, CommandMap' = CommandMap
  PROVE  UNCHANGED Catalog!catalogVars
  BY DEF Catalog!catalogVars, ReleaseMap, CommandMap

LEMMA InitMaps == Init => Catalog!Init
  <1> SUFFICES ASSUME Init PROVE Catalog!Init
    OBVIOUS
  <1>1. now = 0
    BY DEF Init
  <1>2. ReleaseMap = [w \in Ids |-> NoTime]
    BY DEF Init, ReleaseMap
  <1>3. CommandMap = [a \in Admins |-> Catalog!NoCommand]
    BY DEF Init, CommandMap, CommandOf, Idle, Catalog!NoCommand
  <1> QED BY <1>1, <1>2, <1>3 DEF Catalog!Init, ReleaseMap, CommandMap

\* The start of a handler that is to give week w the release time t is the
\* issue of the command.
LEMMA StartIssues ==
  ASSUME TypeOK, NEW a \in Admins, NEW j, NEW w \in Ids, NEW t \in Dates, Start(a, j),
         CommandOf(j) = [week |-> w, time |-> t]
  PROVE  Catalog!Next
  <1>1. /\ job' = [job EXCEPT ![a] = j] /\ job[a] = Idle /\ DOMAIN job = Admins
        /\ now' = now /\ rows' = rows
    BY DEF Start, TypeOK
  <1>2. CommandMap' = [CommandMap EXCEPT ![a] = [week |-> w, time |-> t]]
    <2>1. ASSUME NEW b \in Admins
          PROVE  CommandMap'[b] = [CommandMap EXCEPT ![a] = [week |-> w, time |-> t]][b]
      <3>1. CASE b = a
        BY <1>1, <3>1 DEF CommandMap
      <3>2. CASE b # a
        <4>1. job'[b] = job[b]
          BY <1>1, <3>2
        <4> QED BY <3>2, <4>1 DEF CommandMap, CommandOf
      <3> QED BY <3>1, <3>2
    <2> QED BY <2>1 DEF CommandMap
  <1>3. CommandMap[a] = Catalog!NoCommand
    BY <1>1 DEF CommandMap, CommandOf, Idle, Catalog!NoCommand
  <1>4. ReleaseMap' = ReleaseMap
    BY <1>1 DEF ReleaseMap, ReleaseOf
  <1>5. Catalog!Issue(a, w, t)
    BY <1>1, <1>2, <1>3, <1>4 DEF Catalog!Issue, CommandMap, ReleaseMap
  <1>6. t \in Times \cup {NoTime}
    BY DEF Dates
  <1> QED BY <1>5, <1>6 DEF Catalog!Next

LEMMA StartWriteIssues ==
  ASSUME TypeOK, NEW a \in Admins, NEW w \in DOMAIN rows, NEW f, IsChanges(f),
         NEW snap, StartWrite(a, w, f, snap)
  PROVE  Catalog!Next
  <1> DEFINE t == ReleaseOf(Overlay(rows[w], f))
             j == [op |-> "write", id |-> w, changes |-> f, snapshot |-> snap,
                   asks |-> t]
  <1>1. t \in Dates /\ w \in Ids
    BY OverlayType, ReleaseType DEF TypeOK
  <1>2. Start(a, j)
    BY DEF StartWrite
  <1> HIDE DEF t
  <1>3. CommandOf(j) = [week |-> w, time |-> t]
    BY DEF CommandOf
  <1> QED BY <1>1, <1>2, <1>3, StartIssues

LEMMA BeginImplements ==
  ASSUME TypeOK, NEW a \in Admins, AdminBegins(a)
  PROVE  [Catalog!Next]_Catalog!catalogVars
  <1>1. ASSUME NEW n \in Numbers, CreateBegin(a, n)
        PROVE  UNCHANGED Catalog!catalogVars
    <2>1. /\ job' = [job EXCEPT ![a] = [op |-> "insert", number |-> n]]
          /\ job[a] = Idle /\ now' = now /\ rows' = rows
      BY <1>1 DEF CreateBegin, Start
    <2>2. ASSUME NEW b \in Admins
          PROVE  CommandOf(job'[b]) = CommandOf(job[b])
      <3>1. CASE b = a
        BY <2>1, <3>1 DEF CommandOf, Idle, TypeOK
      <3>2. CASE b # a
        BY <2>1, <3>2 DEF TypeOK
      <3> QED BY <3>1, <3>2
    <2>3. CommandMap' = CommandMap
      BY <2>2 DEF CommandMap
    <2>4. ReleaseMap' = ReleaseMap
      BY <2>1 DEF ReleaseMap, ReleaseOf
    <2> QED BY <2>1, <2>3, <2>4, MapUnchanged
  <1>2. ASSUME NEW w \in Ids, NEW n \in Numbers, NEW status \in Statuses \cup {"unchanged"},
               NEW t \in Dates, NEW content \in BOOLEAN,
               UpdateBegin(a, w, n, status, t, content)
        PROVE  Catalog!Next
    <2>1. IsChanges(Written(rows[w], AssignedWith(n, status, t)))
      BY AssignedWithType, WrittenType DEF TypeOK
    <2>2. /\ w \in DOMAIN rows
          /\ StartWrite(a, w, Written(rows[w], AssignedWith(n, status, t)), content)
      BY <1>2 DEF UpdateBegin, AssignedWith
    <2> QED BY <2>1, <2>2, StartWriteIssues
  <1>3. ASSUME NEW w \in Ids, NEW i \in 1..KeepSnapshots, RollbackBegin(a, w, i)
        PROVE  Catalog!Next
    <2>1. /\ w \in DOMAIN rows /\ i \in 1..Len(snaps[w])
          /\ StartWrite(a, w, Differing(rows[w], snaps[w][i]), TRUE)
      BY <1>3 DEF RollbackBegin
    <2>2. snaps[w][i] \in State
      BY <2>1 DEF TypeOK
    <2> QED BY <2>1, <2>2, DifferingType, StartWriteIssues
  <1>4. ASSUME NEW w \in Ids, DeleteBegin(a, w)
        PROVE  Catalog!Next
    <2>1. Start(a, [op |-> "delete", id |-> w])
      BY <1>4 DEF DeleteBegin
    <2>2. CommandOf([op |-> "delete", id |-> w]) = [week |-> w, time |-> NoTime]
      BY DEF CommandOf
    <2> QED BY <2>1, <2>2, StartIssues DEF Dates
  <1> QED BY <1>1, <1>2, <1>3, <1>4 DEF AdminBegins

\* The end of a handler takes its command away.
LEMMA DoneClearsCommand ==
  ASSUME TypeOK, NEW a \in Admins, Done(a)
  PROVE  CommandMap' = [CommandMap EXCEPT ![a] = Catalog!NoCommand]
  <1>1. job' = [job EXCEPT ![a] = Idle] /\ DOMAIN job = Admins
    BY DEF Done, TypeOK
  <1>2. CommandOf(Idle) = Catalog!NoCommand
    BY DEF CommandOf, Idle, Catalog!NoCommand
  <1>3. ASSUME NEW b \in Admins
        PROVE  CommandOf(job'[b]) = [CommandMap EXCEPT ![a] = Catalog!NoCommand][b]
    <2>1. CASE b = a
      BY <1>1, <1>2, <2>1 DEF CommandMap
    <2>2. CASE b # a
      BY <1>1, <2>2 DEF CommandMap
    <2> QED BY <2>1, <2>2
  <1> QED BY <1>3 DEF CommandMap

\* A handler that writes or deletes has issued a command.
LEMMA PendingCommand ==
  ASSUME TypeOK, NEW a \in Admins, job[a].op \in {"write", "delete"}
  PROVE  /\ CommandMap[a] # Catalog!NoCommand
         /\ CommandMap[a].week = job[a].id /\ job[a].id \in Ids
         /\ CommandMap[a].time = IF job[a].op = "write" THEN job[a].asks ELSE NoTime
  <1>1. job[a].id \in Ids
    BY DEF TypeOK, IsJob, Idle
  <1>2. CommandMap[a] = [week |-> job[a].id,
                         time |-> IF job[a].op = "write" THEN job[a].asks ELSE NoTime]
    BY DEF CommandMap, CommandOf
  <1>3. job[a].id # NoTime
    BY <1>1, LifecycleAssumption DEF Ids, NoTime
  <1> QED BY <1>1, <1>2, <1>3 DEF Catalog!NoCommand

\* A command whose release time reaches its row takes effect.
LEMMA ApplyStep ==
  ASSUME TypeOK, NEW a \in Admins, job[a].op \in {"write", "delete"}, Done(a),
         now' = now,
         ReleaseMap' = [ReleaseMap EXCEPT ![job[a].id] = CommandMap[a].time]
  PROVE  Catalog!Next
  <1>1. Catalog!Apply(a)
    BY DoneClearsCommand, PendingCommand DEF Catalog!Apply, ReleaseMap, CommandMap
  <1> QED BY <1>1 DEF Catalog!Next

LEMMA CommitImplements ==
  ASSUME OneAdminInv, NEW a \in Admins, AdminCommits(a)
  PROVE  [Catalog!Next]_Catalog!catalogVars
  <1> USE DEF OneAdminInv
  <1>1. Done(a) /\ now' = now
    BY DEF AdminCommits, InsertCommit, WriteCommit, DeleteCommit, CommitFails
  <1>2. ASSUME job[a].op = "insert"
        PROVE  CommandMap' = CommandMap
    <2>1. CommandMap[a] = Catalog!NoCommand
      BY <1>2 DEF CommandMap, CommandOf, Catalog!NoCommand
    <2> QED BY <2>1, <1>1, DoneClearsCommand DEF CommandMap
  <1>3. ASSUME NEW w \in Ids, InsertCommit(a, w)
        PROVE  UNCHANGED Catalog!catalogVars
    <2>1. /\ w \notin DOMAIN rows /\ DOMAIN rows' = DOMAIN rows \cup {w}
          /\ rows'[w].status = "DRAFT"
          /\ \A v \in DOMAIN rows : rows'[v] = rows[v]
      BY <1>3 DEF InsertCommit
    <2>2. ASSUME NEW v \in Ids
          PROVE  ReleaseMap'[v] = ReleaseMap[v]
      <3>1. CASE v = w
        BY <2>1, <3>1 DEF ReleaseMap, ReleaseOf
      <3>2. CASE v # w
        BY <2>1, <3>2 DEF ReleaseMap, ReleaseOf
      <3> QED BY <3>1, <3>2
    <2>3. ReleaseMap' = ReleaseMap
      BY <2>2 DEF ReleaseMap
    <2> QED BY <2>3, <1>1, <1>2, <1>3, MapUnchanged DEF InsertCommit
  <1>4. ASSUME WriteCommit(a)
        PROVE  Catalog!Next
    <2> DEFINE w   == job[a].id
               row == Overlay(rows[w], job[a].changes)
    <2>1. /\ job[a].op = "write" /\ w \in DOMAIN rows /\ w \in Ids
          /\ rows' = [rows EXCEPT ![w] = row]
      BY <1>4 DEF WriteCommit, TypeOK
    <2>2. ReleaseOf(row) = CommandMap[a].time
      BY <2>1, PendingCommand DEF Fits
    <2> HIDE DEF row, w
    <2>3. ASSUME NEW v \in Ids
          PROVE  ReleaseMap'[v] = [ReleaseMap EXCEPT ![w] = CommandMap[a].time][v]
      <3>1. CASE v = w
        <4>1. ReleaseMap'[v] = ReleaseOf(row)
          BY <2>1, <3>1 DEF ReleaseMap
        <4> QED BY <2>1, <2>2, <3>1, <4>1 DEF ReleaseMap
      <3>2. CASE v # w
        <4>1. (v \in DOMAIN rows' <=> v \in DOMAIN rows) /\ rows'[v] = rows[v]
          BY <2>1, <3>2
        <4> QED BY <3>2, <4>1 DEF ReleaseMap
      <3> QED BY <3>1, <3>2
    <2>4. ReleaseMap' = [ReleaseMap EXCEPT ![w] = CommandMap[a].time]
      BY <2>3 DEF ReleaseMap
    <2> QED BY <2>1, <2>4, <1>1, ApplyStep DEF w
  <1>5. ASSUME DeleteCommit(a)
        PROVE  Catalog!Next
    <2> DEFINE w == job[a].id
    <2>1. /\ job[a].op = "delete" /\ w \in DOMAIN rows /\ w \in Ids
          /\ DOMAIN rows' = DOMAIN rows \ {w}
          /\ \A v \in DOMAIN rows \ {w} : rows'[v] = rows[v]
      BY <1>5 DEF DeleteCommit, RestrictTo, TypeOK
    <2>2. CommandMap[a].time = NoTime
      BY <2>1, PendingCommand
    <2> HIDE DEF w
    <2>3. ASSUME NEW v \in Ids
          PROVE  ReleaseMap'[v] = [ReleaseMap EXCEPT ![w] = CommandMap[a].time][v]
      BY <2>1, <2>2 DEF ReleaseMap
    <2>4. ReleaseMap' = [ReleaseMap EXCEPT ![w] = CommandMap[a].time]
      BY <2>3 DEF ReleaseMap
    <2> QED BY <2>1, <2>4, <1>1, ApplyStep DEF w
  <1>6. ASSUME CommitFails(a)
        PROVE  [Catalog!Next]_Catalog!catalogVars
    <2>1. rows' = rows
      BY <1>6 DEF CommitFails
    <2>2. ReleaseMap' = ReleaseMap
      BY <2>1 DEF ReleaseMap, ReleaseOf
    <2>3. CASE job[a].op = "insert"
      BY <2>2, <2>3, <1>1, <1>2, MapUnchanged
    <2>4. CASE job[a].op \in {"write", "delete"}
      <3>1. Catalog!Drop(a)
        BY <2>2, <2>4, <1>1, DoneClearsCommand, PendingCommand
           DEF Catalog!Drop, ReleaseMap, CommandMap
      <3> QED BY <3>1 DEF Catalog!Next
    <2>5. job[a].op \in {"insert", "write", "delete"}
      BY <1>6 DEF CommitFails, TypeOK, IsJob
    <2> QED BY <2>3, <2>4, <2>5
  <1> QED BY <1>3, <1>4, <1>5, <1>6 DEF AdminCommits

LEMMA StepImplements ==
  OneAdminInv /\ [Next]_vars => [Catalog!Next]_Catalog!catalogVars
  <1> SUFFICES ASSUME OneAdminInv, [Next]_vars
               PROVE  [Catalog!Next]_Catalog!catalogVars
    OBVIOUS
  <1>1. ASSUME now' = now, job' = job, ReleaseMap' = ReleaseMap
        PROVE  UNCHANGED Catalog!catalogVars
    <2>1. CommandMap' = CommandMap
      BY <1>1 DEF CommandMap, CommandOf
    <2> QED BY <1>1, <2>1, MapUnchanged
  <1>2. ASSUME rows' = rows
        PROVE  ReleaseMap' = ReleaseMap
    BY <1>2 DEF ReleaseMap, ReleaseOf
  <1>3. ASSUME NEW r \in Readers, PassCommit(r)
        PROVE  UNCHANGED Catalog!catalogVars
    <2>1. ASSUME NEW w \in DOMAIN rows
          PROVE  ReleaseOf(rows'[w]) = ReleaseOf(rows[w])
      <3>1. CASE rows'[w] = rows[w]
        BY <3>1
      <3>2. CASE rows[w].status = "SCHEDULED" /\ rows'[w] = Materialised(rows[w])
        BY <3>2, MaterialisedType DEF ReleaseOf, OneAdminInv, TypeOK
      <3> QED BY <1>3, <3>1, <3>2, PassEffect DEF OneAdminInv
    <2>2. DOMAIN rows' = DOMAIN rows
      BY <1>3, PassEffect DEF OneAdminInv
    <2>3. ReleaseMap' = ReleaseMap
      BY <2>1, <2>2 DEF ReleaseMap
    <2> QED BY <2>3, <1>1, <1>3 DEF PassCommit
  <1>4. CASE \E r \in Readers : PassBegin(r) \/ PassFails(r)
    BY <1>1, <1>2, <1>4 DEF PassBegin, PassFails
  <1>5. CASE UNCHANGED vars
    BY <1>1, <1>2, <1>5 DEF vars
  <1>6. CASE Tick
    <2>1. now' = now + 1 /\ rows' = rows /\ job' = job
      BY <1>6 DEF Tick
    <2>2. CommandMap' = CommandMap /\ ReleaseMap' = ReleaseMap
      BY <2>1, <1>2 DEF CommandMap, CommandOf
    <2>3. Catalog!Pass
      BY <2>1, <2>2 DEF Catalog!Pass, CommandMap, ReleaseMap
    <2> QED BY <2>3 DEF Catalog!Next
  <1> QED BY <1>3, <1>4, <1>5, <1>6, BeginImplements, CommitImplements
          DEF Next, OneAdminInv

(***************************************************************************)
(* SpecImplementsCatalog: with one administrator at a time, the release    *)
(* time of every week is what the last successful command asked for; the   *)
(* publication passes, however many race, are invisible.                   *)
(***************************************************************************)
THEOREM SpecImplementsCatalog ==
  ASSUME OneAdmin
  PROVE  Spec => ImplementsCatalog
  <1>1. OneAdminInv /\ [Next]_vars => OneAdminInv'
    BY OneAdminNext
  <1> QED BY <1>1, OneAdminInit, InitMaps, StepImplements, PTL
          DEF Spec, ImplementsCatalog, Catalog!Spec
=============================================================================
