----------------------------- MODULE WeekContent -----------------------------
(***************************************************************************)
(* The content of a week as administrators edit it: a problem, its test    *)
(* cases, its standard answer with the verified mark, and the snapshots of *)
(* the week (backend/app/services/admin.py, zip_import.py and              *)
(* import_legacy.py).                                                      *)
(*                                                                         *)
(* A handler loads the rows, works on its copies, and one transaction      *)
(* writes the difference between the copies and what was loaded to         *)
(* whatever the tables hold by then.  A job below is that difference.      *)
(* verify_solution waits for the runner between its reads and its write.   *)
(***************************************************************************)
EXTENDS Integers, Sequences, FiniteSets, FiniteSetsExt, SequencesExt

CONSTANTS Admins,        \* concurrent requests of administrators
          Ops,           \* the operations of an instance
          Texts,         \* statements with their limits
          Codes,         \* codes of standard answers
          MaxCases,      \* settings.max_test_cases
          MaxVersion,    \* bound on the versions of snapshots
          MaxEdits,      \* bound on the version of the problem
          KeepSnapshots  \* the literal 10 of _save_snapshot

ASSUME ContentAssumption ==
    /\ MaxCases \in Nat
    /\ MaxVersion \in Nat
    /\ MaxEdits \in Nat
    /\ KeepSnapshots \in Nat \ {0}
    /\ Codes \cap {"none", "blank"} = {}
    /\ "none" \notin Texts

Columns == {"version", "text", "code", "verified"}

\* A problem without its cases; version 0 stands for no row, code "none" for
\* no row in solutions and "blank" for one without code.
ProblemRow == [version : Nat, text : Texts \cup {"none"},
               code : Codes \cup {"none", "blank"}, verified : BOOLEAN]

NoProblem == [version |-> 0, text |-> "none", code |-> "none", verified |-> FALSE]

VARIABLES head,     \* the rows of the problem and of its standard answer
          cases,    \* test_cases: the identities of its rows
          snaps,    \* week_snapshots, in the order of their rows
          job,      \* the handler of an administrator request
          accepted  \* history: the codes that the runner accepted

vars == <<head, cases, snaps, job, accepted>>

Idle == [op |-> "idle"]

\* What a snapshot says of a problem: its columns and the number of cases.
DataOf(h, S) == [head |-> h, count |-> Cardinality(S)]

Snapshot == [version : Nat, data : [head : ProblemRow, count : Nat]]

\* The row h with the columns of set written over it.
Overlaid(h, set) == [c \in Columns |-> IF c \in DOMAIN set THEN set[c] ELSE h[c]]

IsEdit(j) ==
    /\ j.op = "edit"
    /\ j = [op |-> "edit", row |-> j.row, set |-> j.set, answer |-> j.answer,
            touch |-> j.touch, drop |-> j.drop, add |-> j.add, reuse |-> j.reuse,
            snapshot |-> j.snapshot]
    /\ j.row \in {"insert", "update", "delete"}
    /\ j.answer \in {"insert", "update", "keep"}
    /\ DOMAIN j.set \subseteq Columns
    /\ Overlaid(NoProblem, j.set) \in ProblemRow
    /\ j.touch \subseteq Nat /\ j.drop \subseteq Nat /\ j.add \in Nat
    /\ j.reuse \in BOOLEAN /\ j.snapshot \in BOOLEAN

IsJob(j) ==
    \/ j = Idle
    \/ IsEdit(j)
    \/ j \in [op : {"verify"}, code : Codes, verified : BOOLEAN]
    \/ j \in [op : {"resave"}, saved : Snapshot]

TypeOK ==
    /\ head \in ProblemRow
    /\ cases \subseteq Nat /\ IsFiniteSet(cases)
    /\ snaps \in Seq(Snapshot) /\ Len(snaps) \in 1..KeepSnapshots
    /\ DOMAIN job = Admins
    /\ \A a \in Admins : IsJob(job[a])
    /\ accepted \subseteq Codes

\* create_week has taken the first snapshot.
Init ==
    /\ head = NoProblem
    /\ cases = {}
    /\ snaps = <<[version |-> 1, data |-> DataOf(NoProblem, {})]>>
    /\ job = [a \in Admins |-> Idle]
    /\ accepted = {}

Exists == head.version > 0

-----------------------------------------------------------------------------
(* _save_snapshot *)

Latest == Max({snaps[i].version : i \in DOMAIN snaps})

\* Mutant of WithSnapshot: the offset is one too large.
WithSnapshotLate(s) ==
    LET all    == Append(snaps, s)
        oldest == {i \in DOMAIN all : \A k \in DOMAIN all : all[i].version <= all[k].version}
    IN  IF Len(all) <= KeepSnapshots + 1 THEN {all} ELSE {RemoveAt(all, i) : i \in oldest}

\* Mutant of WithSnapshot: the rows to drop are taken without their order.
WithSnapshotUnordered(s) ==
    LET all == Append(snaps, s)
    IN  IF Len(all) <= KeepSnapshots THEN {all} ELSE {RemoveAt(all, i) : i \in DOMAIN snaps}

\* The snapshots with one more, without one of the oldest version when they
\* are too many.
WithSnapshot(s) ==
    LET all    == Append(snaps, s)
        oldest == {i \in DOMAIN all : \A k \in DOMAIN all : all[i].version <= all[k].version}
    IN  IF Len(all) <= KeepSnapshots THEN {all} ELSE {RemoveAt(all, i) : i \in oldest}

\* Mutants of Reloaded: the copies of the handler are serialised, not the rows
\* of the transaction; the version does not see the other handlers.
ReloadedStale(h, S) == [version |-> Latest + 1, data |-> DataOf(head, cases)]

ReloadedCounting(h, S) == [version |-> Len(snaps) + 1, data |-> DataOf(h, S)]

\* The snapshot of the rows h and cases S, reloaded in the transaction.
Reloaded(h, S) == [version |-> Latest + 1, data |-> DataOf(h, S)]

-----------------------------------------------------------------------------
(* Administrator handlers: the reads, the checks and the copies *)

Start(a, j) ==
    /\ job[a] = Idle
    /\ job' = [job EXCEPT ![a] = j]
    /\ UNCHANGED <<head, cases, snaps, accepted>>

\* The session's columns to write: those of the copy that differ.
Differing(h) == [c \in {d \in Columns : h[d] # head[d]} |-> h[c]]

\* The job of a handler that turned its copy of the problem into h, changed
\* the cases touch, removed the cases drop and added n.
Edit(h, touch, drop, n) ==
    [op       |-> "edit",
     row      |-> IF ~Exists THEN "insert" ELSE IF h.version = 0 THEN "delete" ELSE "update",
     set      |-> Differing(h),
     answer   |-> IF head.code = "none" /\ h.code # "none" THEN "insert"
                  ELSE IF h.code # head.code \/ h.verified # head.verified THEN "update"
                  ELSE "keep",
     touch    |-> touch, drop |-> drop, add |-> n, reuse |-> FALSE, snapshot |-> TRUE]

\* The copy with its version increased.
Bumped == [head EXCEPT !.version = @ + 1]

\* The copy with a new standard answer, not verified.
Answered(h, c) == [h EXCEPT !.code = c, !.verified = FALSE]

\* upsert_problem
SaveProblem(a, t) ==
    /\ "problem" \in Ops
    /\ Start(a, Edit([Bumped EXCEPT !.text = t], {}, {}, 0))

\* delete_problem
DeleteProblem(a) ==
    /\ "problem" \in Ops
    /\ Exists
    /\ Start(a, Edit(NoProblem, {}, cases, 0))

\* upsert_testcase, import_cases_json
AddCases(a, n) ==
    /\ "cases" \in Ops
    /\ Exists
    /\ Cardinality(cases) + n <= MaxCases
    /\ Start(a, Edit(Bumped, {}, {}, n))

\* update_testcase: the row is written when the data differ.
UpdateCase(a, i, differs) ==
    /\ "cases" \in Ops
    /\ Exists
    /\ i \in cases
    /\ Start(a, Edit(Bumped, IF differs THEN {i} ELSE {}, {}, 0))

\* delete_testcase
DeleteCase(a, i) ==
    /\ "cases" \in Ops
    /\ Exists
    /\ i \in cases
    /\ Start(a, Edit(Bumped, {}, {i}, 0))

\* Mutant of SaveSolution: the mark of the old code stays.
SaveSolutionKeepingMark(a, c) ==
    /\ "solution" \in Ops
    /\ Exists
    /\ Start(a, Edit([Bumped EXCEPT !.code = c], {}, {}, 0))

\* upsert_solution
SaveSolution(a, c) ==
    /\ "solution" \in Ops
    /\ Exists
    /\ Start(a, Edit(Answered(Bumped, c), {}, {}, 0))

\* import_zip_testcases: cases, and a standard answer if the archive has one.
ImportZip(a, n, c) ==
    /\ "import" \in Ops
    /\ Exists
    /\ Cardinality(cases) + n <= MaxCases
    /\ Start(a, Edit(IF c = "none" THEN Bumped ELSE Answered(Bumped, c), {}, {}, n))

\* import_week_json: the cases are replaced, the mark is removed.
ImportJson(a, t, n, c) ==
    /\ "import" \in Ops
    /\ n <= MaxCases
    /\ LET h == [Bumped EXCEPT !.text = t]
       IN  Start(a, Edit(Answered(h, IF c = "none" THEN h.code ELSE c), {}, cases, n))

\* import_legacy_json: no bound on the cases, no snapshot, and the mark stays
\* when the file has no standard answer.  A new problem is flushed with the
\* default version 1 before its version is increased.
ImportLegacy(a, t, n, c) ==
    /\ "legacy" \in Ops
    /\ LET h == [Bumped EXCEPT !.text = t, !.version = IF Exists THEN @ ELSE 2]
       IN  Start(a, [Edit(IF c = "none" THEN h ELSE Answered(h, c), {}, cases, n)
                        EXCEPT !.snapshot = FALSE])

\* What rollback_snapshot makes of the copy for the snapshot data d.
Restored(d) ==
    IF d.head.version = 0 THEN NoProblem
    ELSE IF d.head.code \in Codes THEN d.head
    ELSE [d.head EXCEPT !.code = IF head.code = "none" THEN "none" ELSE "blank",
                        !.verified = FALSE]

\* A rollback that finds nothing to write opens no transaction before its
\* snapshot.
Writes(j) == DOMAIN j.set # {} \/ j.drop # {} \/ j.add > 0

\* rollback_snapshot: the rows of the old cases are removed before the new
\* ones are added.
Rollback(a, i) ==
    /\ "rollback" \in Ops
    /\ i \in DOMAIN snaps
    /\ LET d == snaps[i].data
           j == [Edit(Restored(d), {}, cases, d.count) EXCEPT !.reuse = TRUE]
       IN  Writes(j) /\ Start(a, j)

\* A rollback or an update_week that changes nothing: the version and the data
\* of its snapshot are read before the transaction begins.
Resave(a) ==
    /\ "resave" \in Ops
    /\ Start(a, [op |-> "resave", saved |-> Reloaded(head, cases)])

\* verify_solution: the code goes to the runner.
VerifyBegin(a) ==
    /\ "verify" \in Ops
    /\ head.code \in Codes
    /\ Cardinality(cases) \in 1..MaxCases
    /\ Start(a, [op |-> "verify", code |-> head.code, verified |-> head.verified])

-----------------------------------------------------------------------------
(* Administrator handlers: the transaction *)

Done(a) == job' = [job EXCEPT ![a] = Idle]

\* The row of every UPDATE and the parent of every INSERT are there, and no
\* INSERT meets a row of its key; a DELETE of a missing row is no error.
Applies(j) ==
    \/ j.row = "delete"
    \/ /\ j.row = "insert" => ~Exists
       /\ j.row = "update" /\ (DOMAIN j.set # {} \/ j.add > 0) => Exists
       /\ j.answer = "insert" => head.code = "none"
       /\ j.answer = "update" => head.code # "none"
       /\ j.touch \subseteq cases

\* n new rows come after the rows S in use.
NewRows(S, n) == LET top == Max(S \cup {0}) IN (top + 1)..(top + n)

CasesAfter(j) ==
    IF j.row = "delete" THEN {}
    ELSE (cases \ j.drop) \cup NewRows(IF j.reuse THEN cases \ j.drop ELSE cases, j.add)

EditCommit(a) ==
    /\ job[a].op = "edit"
    /\ Latest < MaxVersion
    /\ Applies(job[a])
    /\ head' = IF job[a].row = "delete" THEN NoProblem ELSE Overlaid(head, job[a].set)
    /\ cases' = CasesAfter(job[a])
    /\ head'.version <= MaxEdits
    /\ IF job[a].snapshot THEN snaps' \in WithSnapshot(Reloaded(head', cases'))
                          ELSE UNCHANGED snaps
    /\ Done(a)
    /\ UNCHANGED accepted

ResaveCommit(a) ==
    /\ job[a].op = "resave"
    /\ Latest < MaxVersion
    /\ snaps' \in WithSnapshot(job[a].saved)
    /\ Done(a)
    /\ UNCHANGED <<head, cases, accepted>>

\* The answer of the runner: the mark is written when it differs from the one
\* that was loaded, to the row that is there now.
VerifyEnds(a, passed) ==
    /\ job[a].op = "verify"
    /\ accepted' = IF passed THEN accepted \cup {job[a].code} ELSE accepted
    /\ head' = IF head.code # "none" /\ passed # job[a].verified
               THEN [head EXCEPT !.verified = passed] ELSE head
    /\ Done(a)
    /\ UNCHANGED <<cases, snaps>>

\* A row is missing or in the way, the database stayed locked, the runner is
\* unavailable, or the process was restarted: nothing is written.
Fails(a) ==
    /\ job[a] # Idle
    /\ Done(a)
    /\ UNCHANGED <<head, cases, snaps, accepted>>

Begins(a) ==
    \/ \E t \in Texts : SaveProblem(a, t)
    \/ DeleteProblem(a)
    \/ \E n \in 1..MaxCases : AddCases(a, n)
    \/ \E i \in cases : DeleteCase(a, i) \/ \E differs \in BOOLEAN : UpdateCase(a, i, differs)
    \/ \E c \in Codes \cup {"blank"} : SaveSolution(a, c)
    \/ \E n \in 1..MaxCases, c \in Codes \cup {"none", "blank"} : ImportZip(a, n, c)
    \/ \E t \in Texts, n \in 0..MaxCases, c \in Codes \cup {"none"} : ImportJson(a, t, n, c)
    \/ \E t \in Texts, n \in 0..(MaxCases + 1), c \in Codes \cup {"none"} :
            ImportLegacy(a, t, n, c)
    \/ \E i \in 1..KeepSnapshots : Rollback(a, i)
    \/ Resave(a)
    \/ VerifyBegin(a)

Commits(a) ==
    EditCommit(a) \/ ResaveCommit(a) \/ (\E passed \in BOOLEAN : VerifyEnds(a, passed)) \/ Fails(a)

Next == \E a \in Admins : Begins(a) \/ Commits(a)

Spec == Init /\ [][Next]_vars

-----------------------------------------------------------------------------
(* Properties *)

(***************************************************************************)
(* NewestSnapshotIsContent: the newest snapshot holds the content of the   *)
(* week, so that what was overwritten can be restored: it is about the     *)
(* reload of the rows inside the transaction.  The verified mark is not    *)
(* counted, because verify_solution takes no snapshot.                     *)
(***************************************************************************)
Unmarked(d) == [d EXCEPT !.head.verified = FALSE]

NewestSnapshotIsContent ==
    Unmarked(Last(snaps).data) = Unmarked(DataOf(head, cases))

(***************************************************************************)
(* SnapshotsInOrder: the versions of the snapshots of a week increase, no  *)
(* two handlers give the same one.                                         *)
(***************************************************************************)
SnapshotsInOrder ==
    \A i, k \in DOMAIN snaps : i < k => snaps[i].version < snaps[k].version

Log == INSTANCE SnapshotLog WITH
    Keep    <- KeepSnapshots,
    content <- Unmarked(DataOf(head, cases)),
    log     <- [i \in DOMAIN snaps |-> [version |-> snaps[i].version,
                                        data    |-> Unmarked(snaps[i].data)]]

(***************************************************************************)
(* ImplementsLog: whatever handlers interleave between their reads and     *)
(* their writes, the content changes only together with its snapshot, a    *)
(* snapshot is never altered while it is kept, and those that are kept are *)
(* the last ones, without a gap: a rollback goes to a state the week was   *)
(* in.  It is about the one transaction of an edit and the pruning at the  *)
(* end of _save_snapshot.                                                  *)
(***************************************************************************)
ImplementsLog == Log!Spec

(***************************************************************************)
(* VerifiedWasJudged: a standard answer that is marked verified, now or in *)
(* a snapshot, was accepted by the runner.                                 *)
(***************************************************************************)
VerifiedWasJudged ==
    /\ head.verified => head.code \in accepted
    /\ \A i \in DOMAIN snaps :
        snaps[i].data.head.verified => snaps[i].data.head.code \in accepted
=============================================================================
