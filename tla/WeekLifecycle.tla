---------------------------- MODULE WeekLifecycle ----------------------------
(***************************************************************************)
(* The life of a week: its publication state in the weeks table, the       *)
(* snapshots that record that state, the administrator's handlers          *)
(* (backend/app/services/admin.py) and the lazy publication pass that      *)
(* every public or administrator read makes first                          *)
(* (backend/app/services/scheduling.py).                                   *)
(*                                                                         *)
(* A handler runs in a worker thread with a session of its own.  SQLite    *)
(* gives it no transaction until its first write, so it reads and decides  *)
(* on one state of the table and writes, in one transaction, to a later    *)
(* one.  Between the two other handlers may commit.  The session writes    *)
(* only the columns whose new value differs from the loaded one: a commit  *)
(* overlays those columns on whatever the row holds by then.               *)
(***************************************************************************)
EXTENDS Integers, Sequences, FiniteSets

CONSTANTS Admins,        \* concurrent requests of administrators
          Readers,       \* concurrent requests that run publish_due_weeks
          Ops,           \* the operations of an instance: "create", "update",
                         \* "content" (updates of it), "rollback", "delete"
          MaxId,         \* bound on row identities
          MaxNumber,     \* bound on week numbers
          MaxTime,       \* bound on the clock
          KeepSnapshots  \* the literal 10 of _save_snapshot

ASSUME LifecycleAssumption ==
    /\ MaxId \in Nat /\ MaxNumber \in Nat /\ MaxTime \in Nat
    /\ KeepSnapshots \in Nat \ {0}

Ids      == 1..MaxId
Numbers  == 1..MaxNumber
NoTime   == -1                      \* NULL in a date column
Times    == 0..MaxTime
Dates    == Times \cup {NoTime}
Statuses == {"DRAFT", "SCHEDULED", "PUBLISHED", "ARCHIVED"}

DateColumns  == {"publish_at", "published_at", "archived_at"}
StateColumns == DateColumns \cup {"status"}
Columns      == StateColumns \cup {"number"}

Row   == [number : Numbers, status : Statuses, publish_at : Dates,
          published_at : Dates, archived_at : Dates]
State == [status : Statuses, publish_at : Dates,
          published_at : Dates, archived_at : Dates]

TypeOfColumn(c) == IF c = "number" THEN Numbers
                   ELSE IF c = "status" THEN Statuses ELSE Dates

\* Values for some of the columns: what one UPDATE sets.
IsChanges(f) == /\ DOMAIN f \subseteq Columns
                /\ \A c \in DOMAIN f : f[c] \in TypeOfColumn(c)

VARIABLES now,    \* utcnow()
          rows,   \* the weeks table: row identity -> Row
          snaps,  \* week_snapshots: row identity -> states, oldest first
          job,    \* the handler of an administrator request after its reads
          due     \* the due identities a publication pass has read

vars == <<now, rows, snaps, job, due>>

Idle == [op |-> "idle"]

\* asks is the release time that the handler means to give the week.
IsJob(j) ==
    \/ j = Idle
    \/ j \in [op : {"insert"}, number : Numbers]
    \/ j \in [op : {"delete"}, id : Ids]
    \/ /\ j = [op |-> "write", id |-> j.id, changes |-> j.changes,
                snapshot |-> j.snapshot, asks |-> j.asks]
       /\ j.id \in Ids /\ j.snapshot \in BOOLEAN /\ j.asks \in Dates
       /\ IsChanges(j.changes)

TypeOK ==
    /\ now \in Times
    /\ DOMAIN rows \subseteq Ids
    /\ \A w \in DOMAIN rows : rows[w] \in Row
    /\ DOMAIN snaps = DOMAIN rows
    /\ \A w \in DOMAIN rows : snaps[w] \in Seq(State)
    /\ DOMAIN job = Admins
    /\ \A a \in Admins : IsJob(job[a])
    /\ due \in [Readers -> SUBSET Ids]

Init ==
    /\ now = 0
    /\ rows = [w \in {} |-> Idle]
    /\ snaps = [w \in {} |-> Idle]
    /\ job = [a \in Admins |-> Idle]
    /\ due = [r \in Readers |-> {}]

-----------------------------------------------------------------------------
(* The publication state *)

\* _published_filter: status PUBLISHED or SCHEDULED, publish_at not NULL and
\* not in the future.
Visible(w) ==
    /\ rows[w].status \in {"PUBLISHED", "SCHEDULED"}
    /\ rows[w].publish_at # NoTime
    /\ rows[w].publish_at <= now

\* A row that publish_due_weeks selects.
IsDue(w) ==
    /\ rows[w].status = "SCHEDULED"
    /\ rows[w].publish_at # NoTime
    /\ rows[w].publish_at <= now

\* Mutants of Materialised: the release time becomes the time of the pass, or
\* is moved to published_at.
MaterialisedNow(row) ==
    [row EXCEPT !.status = "PUBLISHED", !.published_at = now, !.publish_at = now,
                !.archived_at = NoTime]

MaterialisedMoving(row) ==
    [row EXCEPT !.status = "PUBLISHED", !.published_at = row.publish_at,
                !.publish_at = NoTime, !.archived_at = NoTime]

\* What publish_due_weeks makes of a row.
Materialised(row) ==
    [row EXCEPT !.status = "PUBLISHED", !.published_at = row.publish_at,
                !.archived_at = NoTime]

\* The columns _change_status assigns for a new status and a time t.
Assigned(status, t) ==
    CASE status = "DRAFT"     -> [status |-> status, publish_at |-> NoTime,
                                  published_at |-> NoTime, archived_at |-> NoTime]
      [] status = "SCHEDULED" -> [status |-> status, publish_at |-> t,
                                  published_at |-> NoTime, archived_at |-> NoTime]
      [] status = "PUBLISHED" -> [status |-> status, publish_at |-> now,
                                  published_at |-> now, archived_at |-> NoTime]
      [] status = "ARCHIVED"  -> [status |-> status, archived_at |-> now]
      [] status = "unchanged" -> [c \in {} |-> now]

\* Mutant of Acceptable: only a given time is looked at.
AcceptableWithoutTime(status, t) == status = "SCHEDULED" => t = NoTime \/ t > now

\* _change_status refuses a schedule without a time or not in the future.
Acceptable(status, t) == status = "SCHEDULED" => t # NoTime /\ t > now

RestrictTo(f, D) == [x \in D |-> f[x]]

\* The assigned columns the session writes.  A date read back from SQLite has
\* no time zone and never equals the zoned one the handler assigns, so an
\* assigned date is always written.
Written(seen, assigned) ==
    RestrictTo(assigned, {c \in DOMAIN assigned :
        assigned[c] # seen[c] \/ (c \in DateColumns /\ assigned[c] # NoTime)})

\* A rollback assigns dates without a zone: only different ones are written.
Differing(seen, assigned) ==
    RestrictTo(assigned, {c \in DOMAIN assigned : assigned[c] # seen[c]})

Overlay(row, changes) ==
    [c \in Columns |-> IF c \in DOMAIN changes THEN changes[c] ELSE row[c]]

\* The release time a row gives its week.
ReleaseOf(row) ==
    IF row.status \in {"PUBLISHED", "SCHEDULED"} THEN row.publish_at ELSE NoTime

\* _save_snapshot: the state of the row joins the snapshots of its week, of
\* which the newest KeepSnapshots stay.
WithSnapshot(s, row) ==
    LET all == Append(s, RestrictTo(row, StateColumns))
    IN  IF Len(all) > KeepSnapshots THEN Tail(all) ELSE all

Taken(n) == \E v \in DOMAIN rows : rows[v].number = n

-----------------------------------------------------------------------------
(* Administrator handlers: the reads and the decisions *)

Start(a, j) ==
    /\ job[a] = Idle
    /\ job' = [job EXCEPT ![a] = j]
    /\ UNCHANGED <<now, rows, snaps, due>>

\* The handler of a has read week w and goes on to write changes to it.
StartWrite(a, w, changes, snapshot) ==
    Start(a, [op |-> "write", id |-> w, changes |-> changes, snapshot |-> snapshot,
              asks |-> ReleaseOf(Overlay(rows[w], changes))])

\* create_week, and duplicate_week with its own copy of the content: 409 when
\* the number is taken.
CreateBegin(a, n) ==
    /\ "create" \in Ops
    /\ ~Taken(n)
    /\ Start(a, [op |-> "insert", number |-> n])

\* update_week.  A time is used for a schedule only; given without a status
\* it repeats the loaded status.  A changed number is refused with 409 when it
\* is taken.  content says that the number, the title or the notice really
\* changes, for which a snapshot is taken after the row is written.  The other
\* handlers that change content do here what an update of the title does.
UpdateBegin(a, w, n, status, t, content) ==
    /\ "update" \in Ops
    /\ w \in DOMAIN rows
    /\ content => "content" \in Ops
    /\ n # rows[w].number => content /\ ~Taken(n)
    /\ status # "SCHEDULED" => t = NoTime
    /\ Acceptable(status, t)
    /\ LET state    == Assigned(status, t)
           assigned == [c \in DOMAIN state \cup {"number"} |->
                            IF c = "number" THEN n ELSE state[c]]
       IN  StartWrite(a, w, Written(rows[w], assigned), content)

\* rollback_snapshot: the state of the snapshot is restored as well.
RollbackBegin(a, w, i) ==
    /\ "rollback" \in Ops
    /\ w \in DOMAIN rows
    /\ i \in 1..Len(snaps[w])
    /\ StartWrite(a, w, Differing(rows[w], snaps[w][i]), TRUE)

\* delete_week: only drafts and scheduled weeks.
DeleteBegin(a, w) ==
    /\ "delete" \in Ops
    /\ w \in DOMAIN rows
    /\ rows[w].status \in {"DRAFT", "SCHEDULED"}
    /\ Start(a, [op |-> "delete", id |-> w])

-----------------------------------------------------------------------------
(* Administrator handlers: the transaction *)

Done(a) == job' = [job EXCEPT ![a] = Idle]

\* SQLite gives a new row the identity after the largest one in use, so the
\* identity of a deleted week may come back.
InsertCommit(a, w) ==
    /\ job[a].op = "insert"
    /\ w \in Ids \ DOMAIN rows
    /\ \A v \in DOMAIN rows : v < w
    /\ w = 1 \/ w - 1 \in DOMAIN rows
    /\ ~Taken(job[a].number)
    /\ LET row == [number |-> job[a].number, status |-> "DRAFT",
                   publish_at |-> NoTime, published_at |-> NoTime,
                   archived_at |-> NoTime]
       IN  /\ rows' = [v \in DOMAIN rows \cup {w} |-> IF v = w THEN row ELSE rows[v]]
           /\ snaps' = [v \in DOMAIN rows \cup {w} |->
                            IF v = w THEN WithSnapshot(<<>>, row) ELSE snaps[v]]
    /\ Done(a)
    /\ UNCHANGED <<now, due>>

\* The transaction of a writing handler succeeds.
WriteCommit(a) ==
    /\ job[a].op = "write"
    /\ job[a].id \in DOMAIN rows
    /\ "number" \in DOMAIN job[a].changes =>
            \A v \in DOMAIN rows \ {job[a].id} :
                rows[v].number # job[a].changes["number"]
    /\ LET row == Overlay(rows[job[a].id], job[a].changes)
       IN  /\ rows' = [rows EXCEPT ![job[a].id] = row]
           /\ snaps' = IF job[a].snapshot
                       THEN [snaps EXCEPT ![job[a].id] = WithSnapshot(@, row)]
                       ELSE snaps
    /\ Done(a)
    /\ UNCHANGED <<now, due>>

\* Mutant of DeleteCommit: the snapshots stay behind.
DeleteKeepingSnapshots(a) ==
    /\ job[a].op = "delete"
    /\ job[a].id \in DOMAIN rows
    /\ rows' = RestrictTo(rows, DOMAIN rows \ {job[a].id})
    /\ Done(a)
    /\ UNCHANGED <<now, snaps, due>>

\* The row is deleted with its snapshots, whatever it holds by now.
DeleteCommit(a) ==
    /\ job[a].op = "delete"
    /\ job[a].id \in DOMAIN rows
    /\ rows' = RestrictTo(rows, DOMAIN rows \ {job[a].id})
    /\ snaps' = RestrictTo(snaps, DOMAIN rows \ {job[a].id})
    /\ Done(a)
    /\ UNCHANGED <<now, due>>

\* The transaction fails and writes nothing: the row is gone or the number was
\* taken meanwhile, the database stayed locked for longer than busy_timeout, or
\* the process was restarted.
CommitFails(a) ==
    /\ job[a] # Idle
    /\ Done(a)
    /\ UNCHANGED <<now, rows, snaps, due>>

-----------------------------------------------------------------------------
(* The publication pass *)

\* The inexpensive read: nothing more happens when nothing is due.
PassBegin(r) ==
    /\ due[r] = {}
    /\ due' = [due EXCEPT ![r] = {w \in DOMAIN rows : IsDue(w)}]
    /\ UNCHANGED <<now, rows, snaps, job>>

\* Mutant of PassCommit: the transaction is never committed.
PassCommitUncommitted(r) ==
    /\ due[r] # {}
    /\ due' = [due EXCEPT ![r] = {}]
    /\ UNCHANGED <<now, rows, snaps, job>>

\* UPDATE ... WHERE id IN due AND status = 'SCHEDULED'
PassCommit(r) ==
    /\ due[r] # {}
    /\ rows' = [w \in DOMAIN rows |->
                    IF w \in due[r] /\ rows[w].status = "SCHEDULED"
                    THEN Materialised(rows[w]) ELSE rows[w]]
    /\ due' = [due EXCEPT ![r] = {}]
    /\ UNCHANGED <<now, snaps, job>>

\* The update fails: a locked database or a restart.
PassFails(r) ==
    /\ due[r] # {}
    /\ due' = [due EXCEPT ![r] = {}]
    /\ UNCHANGED <<now, rows, snaps, job>>

Tick ==
    /\ now < MaxTime
    /\ now' = now + 1
    /\ UNCHANGED <<rows, snaps, job, due>>

AdminBegins(a) ==
    \/ \E n \in Numbers : CreateBegin(a, n)
    \/ \E w \in Ids :
        \/ \E n \in Numbers, status \in Statuses \cup {"unchanged"}, t \in Dates,
              content \in BOOLEAN : UpdateBegin(a, w, n, status, t, content)
        \/ \E i \in 1..KeepSnapshots : RollbackBegin(a, w, i)
        \/ DeleteBegin(a, w)

AdminCommits(a) ==
    (\E w \in Ids : InsertCommit(a, w)) \/ WriteCommit(a) \/ DeleteCommit(a) \/ CommitFails(a)

Next ==
    \/ \E a \in Admins : AdminBegins(a) \/ AdminCommits(a)
    \/ \E r \in Readers : PassBegin(r) \/ PassCommit(r) \/ PassFails(r)
    \/ Tick

Spec == Init /\ [][Next]_vars

(***************************************************************************)
(* Students read the public lists again and again, and a worker thread     *)
(* that has read the due identities goes on to its update, which does not  *)
(* fail every time.  Nothing is assumed of administrators or of the clock. *)
(***************************************************************************)
FairSpec == Spec /\ \A r \in Readers : WF_vars(PassBegin(r)) /\ SF_vars(PassCommit(r))

-----------------------------------------------------------------------------
(* Properties *)

\* The command of a handler.
CommandOf(j) ==
    CASE j.op = "write"  -> [week |-> j.id, time |-> j.asks]
      [] j.op = "delete" -> [week |-> j.id, time |-> NoTime]
      [] OTHER           -> [week |-> NoTime, time |-> NoTime]

Catalog == INSTANCE PublicCatalog WITH
    Never   <- NoTime,
    clock   <- now,
    release <- [w \in Ids |-> IF w \in DOMAIN rows THEN ReleaseOf(rows[w]) ELSE NoTime],
    command <- [a \in Admins |-> CommandOf(job[a])]

(***************************************************************************)
(* ImplementsCatalog: while one administrator works at a time, the release *)
(* time of a week is what the last command that succeeded asked for.  The  *)
(* publication passes that run between the read and the write of a command *)
(* and rewrite status and dates of the same rows are invisible.            *)
(***************************************************************************)
ImplementsCatalog == Catalog!Spec

(***************************************************************************)
(* OnlyCommandsHide: whatever requests race, a public week stops being     *)
(* public, and a week that is not public becomes so before the clock       *)
(* reaches its time, only by the commit of an administrator's handler.  A  *)
(* publication pass changes nothing that students see.                     *)
(***************************************************************************)
OnlyCommandsHide ==
    [][job' = job =>
        /\ DOMAIN rows' = DOMAIN rows
        /\ \A w \in DOMAIN rows :
            /\ Visible(w) => Visible(w)'
            /\ Visible(w)' /\ ~Visible(w) => now' = rows[w].publish_at]_vars

(***************************************************************************)
(* ScheduledHasTime: a scheduled or published week has a release time, in  *)
(* the table and in every snapshot a rollback could restore; otherwise it  *)
(* would never become public.                                              *)
(***************************************************************************)
HasTime(s) == s.status \in {"SCHEDULED", "PUBLISHED"} => s.publish_at # NoTime

ScheduledHasTime ==
    \A w \in DOMAIN rows :
        HasTime(rows[w]) /\ \A i \in 1..Len(snaps[w]) : HasTime(snaps[w][i])

(***************************************************************************)
(* DueWeekIsPublished: a scheduled week that students see does not stay    *)
(* scheduled for ever: a pass marks it published, or an administrator      *)
(* changes it.  Passes that race with each other, with administrators and  *)
(* with failures do not starve it.                                         *)
(***************************************************************************)
Overdue(w) == w \in DOMAIN rows /\ rows[w].status = "SCHEDULED" /\ Visible(w)

DueWeekIsPublished == \A w \in Ids : Overdue(w) ~> ~Overdue(w)

(***************************************************************************)
(* What the repository says and the code does not keep.                    *)
(***************************************************************************)

(***************************************************************************)
(* PassPublishesOnlyDue: publish_due_weeks turns due weeks into published  *)
(* ones, atomically (scheduling.py:26): the weeks it turns are due then.   *)
(***************************************************************************)
PassPublishesOnlyDue ==
    [][\A r \in Readers : PassCommit(r) =>
        \A w \in DOMAIN rows : rows[w].status = "SCHEDULED" /\ w \in due[r] => IsDue(w)]_vars

(***************************************************************************)
(* DeletesOnlyUnpublished: only draft and scheduled weeks can be deleted   *)
(* (the error of delete_week, admin.py:380).                               *)
(***************************************************************************)
DeletesOnlyUnpublished ==
    [][\A w \in DOMAIN rows \ DOMAIN rows' : rows[w].status \in {"DRAFT", "SCHEDULED"}]_vars
=============================================================================
