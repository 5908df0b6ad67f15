# Code Judge in TLA+

A verification development for Code Judge, the online judge for C of a data
structures course: TLA+ models of its stateful parts, TLC runs on small
instances, and TLAPS proofs for every value of the constants. Paths below are
relative to the repository; `backend/`, `runner/` and `frontend/` are its own.

## 1. The system

A browser talks to one FastAPI process (`backend/`), which keeps its data in
SQLite and sends code to one runner process (`runner/`), which compiles it with
gcc and runs it in a sandbox. Synchronous handlers run in a pool of worker
threads, each with a SQLAlchemy session of its own; asynchronous handlers share
one event loop.

| Component | State | Operations | What makes it correct |
|---|---|---|---|
| Judge limiter, `services/rate_limit.py` | two asyncio semaphores with their queues of futures, a deque of times per key | `run`, `_check_rate` | permits are neither lost nor invented; nobody waits beside a free permit; first come, first served; at most so many jobs; at most so many runs per minute |
| Week lifecycle, `services/admin.py` | the row of a week: number, status, three dates | create, duplicate, update with status change, rollback, delete | release times are what the administrator asked for; a scheduled week has a time |
| Publication pass, `services/scheduling.py` | none of its own; rewrites due rows | `publish_due_weeks`, before every public and administrator read | it changes nothing students see; a due week is published in the end |
| Week content, `services/admin.py`, `zip_import.py`, `import_legacy.py` | problem, cases, standard answer with its verified mark | create, edit, delete, four imports, verify, rollback | a verified mark belongs to a judged code |
| Snapshots, `_save_snapshot` | at most ten versions per week | taken by each edit, restored by rollback | the newest one is the content; versions increase |
| Public service, `services/public.py` | none | lists, run sample / custom / all | only released weeks are visible; requests fit the runner's bounds |
| Runner client, `services/runner_client.py` | one HTTP client | `call_runner`, 180 s timeout | an answer or "unavailable" |
| Preview runs, `services/admin.py` | none; a session until the answer | sample / custom / all | they do not starve the students' requests |
| Runner, `runner/app/` | temporary directories, a process and two reader threads per case | `/run`, `/health` | each case ends with the right verdict; nothing survives a case; every request is answered |
| Launcher, `runner/sandbox_launcher.c` | kernel configuration | supervises one program | its exit status tells how the program ended |
| Student page, `views/StudentView.vue`, `stores/app.ts` | week, problem, drafts, result | load, poll, switch, run | an answer is shown where it belongs |
| Admin pages | forms | the API above | - |
| Authentication, CSRF, configuration | signed cookies | login, checks | stateless |
| Migrations, scripts | - | one-shot tools | - |

How they interact. A public run loads the problem in a session, builds a
request, and calls `limiter.run` with a task that calls the runner. A
verification loads the problem inside its task, under a limiter of its own, and
keeps its session open until the answer. A preview run calls the runner without
a limiter. Public and administrator reads call `publish_due_weeks` first. Every
edit of content ends in `_save_snapshot`.

What is hard. asyncio's `wait_for` may time out after the future was granted.
SQLite's driver begins a transaction only at the first write, so a handler
*reads and decides on one state and writes to a later one*; SQLAlchemy writes
only the columns that differ from what was loaded, so two handlers may mix their
columns in one row. A verification writes minutes after it read. Locked
databases and restarts drop a transaction at any moment. In the runner, three
threads and the student's processes race over two pipes, an exit status and a
deadline. The backend's timeout leaves a job at the runner, and an administrator's
handler may stop the event loop. In the browser, answers arrive after the student
has moved on. The hazards are listed,
each at its line, in `PROJECT.json`.

## 2. Modules

| Module | Models | Role |
|---|---|---|
| `RateWindow` | `_check_rate` | component, with its inductive invariant |
| `JudgePool` | - | abstract: what `run` promises |
| `JudgeLimiter` | `JudgeLimiter.run`, `asyncio.Semaphore`, `wait_for` | extends `RateWindow`, implements `JudgePool` |
| `PublicCatalog` | - | abstract: what publication promises |
| `WeekLifecycle` | rows of weeks, administrator handlers, the pass | implements `PublicCatalog` |
| `SnapshotLog` | - | abstract: what the snapshots promise |
| `WeekContent` | problem, cases, answer, snapshots and their handlers | component, implements `SnapshotLog` |
| `RunCase` | `run_case`, the launcher, the student's program | component |
| `JudgeRequest` | what the backend sends and the runner accepts | operators |
| `RunnerJob` | `run_code`, `compile_c`, `compare_output` | extends `RunCase` and `JudgeRequest` |
| `JudgePipeline` | sessions, `call_runner`, previews, the runner's threads | extends `JudgeLimiter` and implements its fair specification |
| `StudentClient` | the student's page in one tab | component |
| `MC...` | - | TLC instances |
| `RateWindowProofs`, `JudgeLimiterProofs`, `JudgePipelineProofs` | - | proofs about limiter and pipeline |
| `WeekLifecycleProofs`, `WeekContentProofs` | - | proofs about weeks, snapshots and marks |
| `RunCaseProofs`, `RunnerJobProofs` | - | proofs about a case and a request in the runner |
| `StudentClientProofs` | - | proofs about the page |

### 2.1 JudgeLimiter

The event loop runs a coroutine without interruption between two suspensions, so
an action is all a call of `run` does between two of them. `stage` says where a
call is suspended, `fut` what has become of its future: *pending*, *granted* (the
permit is its own, it has not run yet), *cancelled* (the timer fired first) or
*revoked* (the timer fired between the grant and the resumption).

| Action | Code |
|---|---|
| `ArriveLimited`, `ArriveWait`, `ArriveQueue`, `ArriveRun` | a call up to its first suspension: 429, waiting for admission, waiting for a slot, or the task |
| `AdmittedQueue`, `AdmittedRun` | resumes with an admission permit |
| `QueuedRun` | resumes with a slot |
| `TimerFires` | the timer of `wait_for`: cancels a pending future, revokes a granted one |
| `AdmissionExpires`, `SlotExpires` | resumes after its timer: 503, permits given back and handed on |
| `TaskEnds` | a result or `RunnerUnavailable`; both semaphores are released |

The semaphores are those of CPython's asyncio (3.11 and later): an acquirer that
finds nobody waiting and a free permit does not suspend; a release grants the
first future that is not done; a cancelled acquirer gives its permit back and
wakes the next. The asyncio lock around the rate window is never contended,
since nothing is awaited inside it, and is left out. The 1 s and 180 s timers
may fire at any moment of the wait, which covers every relation of their lengths.

### 2.2 WeekLifecycle

`rows` is the table. A handler of an administrator is two actions: *Begin* reads,
checks and computes what its UPDATE will set (`job[a].changes`, exactly the
columns SQLAlchemy finds changed); *Commit* overlays these columns on the row of
that moment, and takes the snapshot where the code does. `CommitFails` drops the
job: the row is gone, the number was taken, the database stayed locked past
`busy_timeout`, or the process stopped. The pass is the same: `PassBegin` reads
the due identities, `PassCommit` updates those still SCHEDULED.

A date read back from SQLite has no zone and differs from every zoned one, so an
assigned date is always written (`Written`), while a rollback, which assigns what
the snapshot has, writes different dates only (`Differing`). SQLite reuses the
identity of a deleted last row; so does `InsertCommit`. A content update is taken
to write its row before the snapshot, as a changed title or notice does; the case
of an update that changes nothing is `Resave` of `WeekContent`.

### 2.3 WeekContent

One problem of one week, its cases as a set of row identities, its standard answer
and mark, and the snapshots, which record the columns and the number of cases. A
handler is again a Begin (`SaveProblem`, `AddCases`, `UpdateCase`, `DeleteCase`,
`SaveSolution`, `ImportZip`, `ImportJson`, `ImportLegacy`, `Rollback`,
`DeleteProblem`), which computes a difference with `Edit`, and one `EditCommit`,
which writes it, reloads the rows and appends the snapshot. `Applies` says when
the transaction succeeds: an UPDATE needs its row, an INSERT its parent and no row
of the same key. `VerifyBegin` sends the loaded code to the runner and `VerifyEnds`
writes the mark. `Resave` is a snapshot by a request that changes nothing: its
reads are outside any transaction. `accepted` records which codes the runner
accepted. `SnapshotLog` is the content and its snapshots as an administrator thinks
of them: a change and its snapshot are one step, and only the oldest entry is ever
lost. The mark is not part of it, because a verification takes no snapshot.

Texts, limits, inputs and outputs are model values or left out; every case counts
as enabled, so "no enabled case" and "no case" coincide.

### 2.4 RunCase, JudgeRequest, RunnerJob

Three parties interleave in `RunCase`. The *program* is a set of processes: the main
one, a child in its group and a stray that called `setsid`; it writes units to two
pipes and ends by a status or a signal. The two *readers* (`ReadChunk`,
`RecordChunk`, `CloseStream`) are `collect_output`. The *parent* is `run_case`, with
`pc` for its place:

| Action | Code of `sandbox.py` |
|---|---|
| `SetUp`, `SetUpRaises` | directories and input, before the `try` |
| `PopenStarts`, `PopenFails`, `ThreadsStart`, `ThreadFails` | process and readers; a failure becomes SYSTEM_ERROR |
| `Poll`, `CheckOutput`, `DeadlinePassed`, `DeadlineAhead`, `Reap` | one turn of the loop; what forces a status kills the group |
| `Stop`, `Join`, `Decode` | kill the group, wait for the readers, take the text |
| `Classify` | the returns in their order (`CaseStatus`, `SignalStatus`) |
| `Finally` | kill again, join again -- which raises for a thread never started -- and remove the directories |

With isolation the main process is the launcher with what it supervises: its end
ends the namespace, and its status is `LauncherStatus`. Memory is one bit, time is
the choice between `DeadlinePassed` and `DeadlineAhead`, output is counted in units.

`RunnerJob` puts a request around it: `Prepare` (the backend's checks and cases),
`Refuse`, `Begin`, the compiler with its timeout, one `RunCase` per case, `Verdict`,
`Cleanup`. Whether the output matches is chosen by `CaseDone`, for a whole text and for
one that was cut: `compare_output` compares tokens. `earned`, `ran` and `shown` are
history: what the verdict and the answer rest on.

### 2.5 JudgePipeline

`JudgeLimiter` with what is around it. `prep` is a student's request in its database
session, which is closed before it is queued; `direct` is a preview run or a
verification, which keeps its session; `conn` is the client's side of an exchange
with the runner and `srv` the runner's. `Ends` refines `TaskEnds`: a result, an error
status, a broken connection, a connect that fails and a timeout all leave `call_runner`
and then the limiter. After `TimesOut` the runner goes on with `srv`; a restart loses
what waits and what works. An administrator's handler that finds the pool of
connections empty is `blocked` on the event loop, and no action of the loop happens
(`LoopFree`) until a worker thread returns a connection or the pool gives up.

### 2.6 StudentClient

A callback of the page is one step, with the watcher of `code` that Vue runs after it
(`Shows`). Calls of `loadWeek` in flight are a bag, each with the address it was for
and, once the server has read it, its answer; `LoadArrives` takes them in any order.
A text is the key it was written under and a number, so a draft stored under a key
that is not its own is seen.

The server is what can happen to the versions of the problems. An edit, also of cases
or of the answer, adds one (`UpsertProblem`); a deletion takes the problem away, and
one of the same identity starts at 1 again, or at 2 by the legacy import; a rollback
gives back all the versions of an earlier state (`RollbackSnapshot`). `past` holds
every earlier state, which is more than the ten kept snapshots. The status a rollback
restores is a publication or a retraction, `Publishes`, as a second change. Titles
and contents are left out, as is the title in `weekFingerprint`; so a page is told of
versions, and a number that has come back with another content -- edit, roll back,
edit -- is the same to the page and to the model.

## 3. Properties and runs

| Run | Instance | Shows |
|---|---|---|
| `queue` | 6 calls of one key, 2 slots, 1 place in the queue, 4 per window of 1, clock to 2 | `PermitsConserved`, `NoLostWakeup`, `NoOvertaking`, `RateBound`, `ImplementsPool` with every race of grants and timers |
| `pipeline` | 2 students, 2 administrators, 1 slot, 1 place, 1 connection, 2 threads, 1 restart | `ImplementsLimiter`, `EveryCallAnswered`, `RequestServed`, `SlotHasThread` |
| `job` | 2 enabled cases of 3, a program writing twice the limit, both isolation modes | `AcceptedIsEarned`, `OutputLimitExact`, `VerdictTellsTheEnding`, `NothingSurvives`, `JobVerdictEarned`, `JudgedAfterEveryRun`, `HiddenStaysHidden`, `LimitsRefused`, `JobLeavesNothing`, `JobAnswered` |
| `catalog` | 1 administrator, 2 readers, all operations, clock to 2 | `ScheduledHasTime`, `ImplementsCatalog`, `OnlyCommandsHide`, `DueWeekIsPublished` |
| `content` | 1 administrator, all operations, 2 codes, 5 snapshot versions of which 2 are kept | `VerifiedWasJudged` |
| `editors` | 2 administrators, without legacy import and no-op requests | `NewestSnapshotIsContent`, `SnapshotsInOrder`, `ImplementsLog` |
| `student` | 2 weeks, one edited before, one with 2 problems, 2 addresses, 2 loads, 2 events among edits of the student, runs and changes at the server | `DraftsBelong`, `ShownIsStored`, `ResultBelongs`, `StaleWeekFlagged` |

One run of each component checks the module's type invariant as well (`content` for
`editors`).

What two of the properties leave open, as the code does:

- `JudgedAfterEveryRun` counts a case whose launcher failed with 125 as started and
  ended: nothing in the code tells it from a program that exits with 125, and it is
  answered as RUNTIME_ERROR.
- `JobVerdictEarned` asks that the output judged be all that was written and within the
  limit, except when a stray process held the pipes beyond the last join, which only
  happens without isolation.

Five runs end in a counterexample; each is a finding in `PROJECT.json`:

| Run | Statement of the repository | What the code does |
|---|---|---|
| `pass` | "Atomically turn every due SCHEDULED week" (`scheduling.py:26`) | publishes a week that was rescheduled between its read and its update |
| `delete` | only drafts and scheduled weeks can be deleted (`admin.py:380`) | deletes a week that was published after the check |
| `notime` | a schedule needs a time (`admin.py:357`) | a rollback racing with a return to draft leaves SCHEDULED without one |
| `verify` | imported answers still have to be verified (`README.md:47`) | marks an answer that was replaced during the verification |
| `resave` | snapshots never serialize stale cases (`admin.py:850`) | a request that changes nothing takes a snapshot outside a transaction |

Each property of a passing run has a mutant, a definition of the model changed as
a plausible bug would change the code, under which TLC finds it violated. Mutants
stand before the definition they replace.

**Bounds.** Six calls fill two slots and the queue and leave three that wait for
admission, so a grant, a revoked grant and a cancelled future meet in one queue. A clock
to 2 with a window of 1 lets entries become stale and the deque refill. Two students
share one slot, so one waits at the semaphore while the other is at the runner; with one
connection and two administrators one handler holds it and the other stops the loop; two
threads and a restart let an abandoned job and a preview take both. In `job` a limit of
one unit, pipes of one unit and two units written let the output be within and beyond
the limit, in one stream and over both, with data in a pipe, in a reader's hands or
recorded when anything else happens; the statuses 0 and 137 and the signals 9 and 25
reach the branches that differ (137 is the status a program shares with signal 9). Of
`verify`, which has the cases of `all`, only `Reveals` differs, so the instance leaves
it out. In `student` two loads are enough for an older answer to arrive last.
`MaxEvents` counts the student's edits, the runs and the server's changes together: two
of them are a rollback of the edited week and a further edit, after which a version
number stands for its second content, a deletion and a new start, or any of the three
beside another. `AtFirst` says which week is current when the page is opened; the other
one, or none, becomes so by a publication or a retraction. Two codes let a mark move
from one answer to another by an edit, an import or a rollback. One week identity is
enough for the races on a row; two week numbers let the number change and clash. Two
kept snapshots make the pruning happen, and five versions let one request fill a
snapshot, verify, overwrite and restore. `MaxId`, `MaxNumber`, `MaxTime`, `MaxVersion`,
`MaxEdits`, `MaxWrites`, `MaxRestarts`, `MaxEvents` and `MaxLoads` are bounds of the
model; the code has none (`MaxTime` is the end of the clock, but in `JudgeRequest` the
code's own bound of a time limit). At the bound of versions a job of `WeekContent` can
only fail.

**Fairness.** `JudgeLimiter.FairSpec`: a coroutine whose future is done resumes
(the event loop runs every ready callback) and a task ends (the HTTP client has a
timeout of its own); no timer and no arrival is assumed. `WeekLifecycle.FairSpec`:
each reader's read of the due weeks goes on happening (weak: students poll) and its
update, infinitely often possible, does not fail every time (strong: `busy_timeout`
makes a writer wait its turn). Nothing is assumed of administrators and the clock.
`RunnerJob.FairSpec`: the request's thread and the readers are scheduled (weak), and
the deadline passes in the end (strong: the loop asks again and again); nothing is
assumed of gcc and of the program. `Join` takes it that a reader whose pipe nobody
holds reaches its end within the second of its timeout. `JudgePipeline`'s fairness:
worker threads and ready callbacks run, the timeouts of the pool (30 s) and of the
client (180 s) fire (weak); nothing of the runner, of the limiter's own timers and of
administrators. From this `ImplementsLimiter` derives the fairness `JudgeLimiter`
assumes. `StudentClient.FairSpec`: the minute timer goes on (weak), and a poll does
not fail every time (strong).

**Assumed of SQLite.** A transaction is taken whole or not at all: a change and its
snapshot are one `EditCommit`, and a commit that fails (`CommitFails`, or an `Applies`
that does not hold) leaves nothing. No property shows this; those of weeks and
snapshots rest on it.

## 4. Proofs

All theorems hold for every value of the constants that satisfies the modules'
assumptions: finitely many calls, natural capacities, any rate, any sets of
administrators and readers.

**JudgeLimiterProofs.** `SpecTypeOK`, `SpecPermitsConserved`, `SpecNoLostWakeup`,
`SpecRateBound`, `SpecNoOvertaking` and `SpecImplementsPool`. The inductive
invariant is

    Inv == TypeOK /\ RateInv /\ PermitsConserved /\ NoLostWakeup

`NoLostWakeup` needs `PermitsConserved` when a release finds the semaphore not
locked, and the pool's bound follows from the conservation: the running calls hold
slots and the calls inside hold admissions, and the free permits are not negative.
There is one lemma per action; the counting lemmas (`JoinCount`, `SwapCount`,
`WakeCount`) say how the holders change when one leaves and others are granted.
`RateInv` says the deque of a key is its log without a stale prefix; `RateBound`
then follows because a time is added only when fewer than `RatePerMinute` are left.
`SpecNoOvertaking` needs the order of the queue as well: by `QueueInv` every call
that waits stands in its semaphore's deque, and those that were granted stand before
those without a grant, since a release grants the first that is not done
(`WokenAreFirsts`). A call that has not queued cannot start while another waits,
because `locked()` asks for waiters too.

**WeekLifecycleProofs.** `SpecTypeOK`; `SpecOnlyCommandsHide`, for any number of
administrators, because every step that is not an administrator's commit keeps
`publish_at` and moves no status but SCHEDULED to PUBLISHED; and, assuming
`OneAdmin` (one administrator request at a time), `SpecScheduledHasTime` and
`SpecImplementsCatalog`. Neither is inductive: a job computed on an old row is
written to a new one. The strengthening

    OneAdminInv == TypeOK /\ ScheduledHasTime /\ \A a \in Admins : Fits(a)

says of every pending write that, laid over the row of this moment, it yields the
release time that was asked for (`asks`) and a row that has a time. A publication
pass keeps `Fits`, because it keeps `publish_at` and turns SCHEDULED into PUBLISHED
only (`OverlayMaterialised`); another administrator's commit need not keep it.
`OneAdmin` is therefore needed: run `notime` is the counterexample with two.

**WeekContentProofs.** `SpecNewestSnapshotIsContent`, `SpecSnapshotsInOrder` and
`SpecImplementsLog`, for any number of administrators, from

    ContentInv == Ordered(snaps) /\ JobsInv /\ NewestSnapshotIsContent

`Ordered` makes the last row the one of the newest version, which appending and
pruning keep (`WithSnapshotIs`: what goes is the first row). `JobsInv` says of what
waits for its transaction that only a legacy import leaves its snapshot out, and that
a request that serialised early is still up to date. The latter is kept only when
nobody works beside that request, which is the assumption `ResaveAlone` of all three;
run `resave` is the counterexample without it. `SpecSnapshotsInOrder` holds with the
legacy import, the other two without it: it changes the content and takes no
snapshot. The lemma `Steps` says what every step is to the snapshots, and the three
theorems follow from it; the refinement adds that taking the entries of the rows
commutes with appending and dropping (`LogOfAppend`, `LogOfTail`).

`SpecVerifiedWasJudged` has every operation but one
administrator; `JudgedInv` adds that the row an edit will leave, whichever columns
it sets, has no unearned mark, and that a verification still judges the stored code.
Run `verify` is the counterexample with two.

`SpecTypeOK` has every operation and any number of administrators. It says that a
transaction laid over rows that others wrote meanwhile leaves rows of the table
(`OverlaidRow`), that new rows get identities beyond those in use (`NewRowsAre`, with
`MaxIs` on the largest element of a finite set), and that between one and
`KeepSnapshots` snapshots are kept.

**RunCaseProofs, RunnerJobProofs.** `SpecAcceptedIsEarned`,
`SpecOutputLimitExact`, `SpecVerdictTellsTheEnding` and `SpecNothingSurvives` rest on

    CaseInv == CaseTypeOK /\ ProcInv /\ FlowInv /\ VerdictInv

`FlowInv` accounts for every unit written: in a pipe, in a reader's hands, or
counted, with as much of it kept as the limit allows. `ProcInv` says who may live at
each place of the parent, and `VerdictInv` that the readers are at their end when
their data is judged. Around it,

    JobInv == CaseInv /\ FailInv /\ PlaceInv /\ ResultInv /\ LimitInv

gives `SpecJudgedAfterEveryRun`, `SpecJobLeavesNothing` and `SpecLimitsRefused`, for
any set of cases and of limits within the stored bounds. `FailInv` says that
SYSTEM_ERROR is the status of a case only on the ways to its end by a failure: nothing
was started, or a reader thread was not, and then `run_case` raises instead of returning.
`AskedInv` says which cases a request holds: those `CasesOf` gives for its mode, which
`CasesAre` reads off the increasing enumeration `Sorted` (`SortedIs`: it exists, and has
each case once). With it, `SpecJobVerdictEarned` covers every enabled case of a judgement or
a verification, and `SpecHiddenStaysHidden` follows: of a student's modes only
`sample` and `custom` show contents, and samples are public. `SpecTypeOK` is the type
invariant of the request.

**JudgePipelineProofs.** `PipelineIsLimiter`: every step of the pipeline is one of
`JudgeLimiter` or leaves it alone, so `Inv` and what follows from it hold there
(`PipelineInv`, `PipelineNoOvertaking`). With `ConnInv` -- an open exchange of a
student's call belongs to a task that runs -- `SpecSlotHasThread` is a count: those at
the runner are slot holders or foreign. `SpecPipelineTypeOK` is the type invariant.

**StudentClientProofs.** `SpecDraftsBelong`, `SpecShownIsStored`,
`SpecResultBelongs`, for any weeks, loads and edits, from

    ClientInv == ServerInv /\ LoadsInv /\ PageInv /\ DraftsBelong /\ ShownIsStored /\ ResultInv

`ServerInv` bounds the versions, now and in `past`, by the events so far (`States`):
every event adds at most one. A result belongs only because a run that is under way
while its panel is open is for the problem shown (`ResultInv`); the panel closes with
every change of it. `SpecTypeOK` types the page and the bags of calls in flight, with
the lemma `BagKeeps` on a bag that gains or loses a member.

**Model-checked only.** Liveness is beyond the prover: `EveryCallAnswered`,
`RequestServed`, `DueWeekIsPublished`, `JobAnswered`, `StaleWeekFlagged`, and the
fair part of `ImplementsLimiter` (its safety part is `PipelineIsLimiter`). Every
invariant and every action property that a passing run checks is a theorem.

## 5. Not modelled

Parts without stored state or interleavings (authentication, configuration,
schemas, presentation, scripts), reading endpoints, the content of texts, title and
notice, several problems in one import, cancellation of a request by its client.
Of the launcher, the capabilities and the system-call filter, which configure the
kernel. Of the runner, the isolation probe (its answer is a constant of a
behaviour), a stray process of an earlier case when there is no isolation
(`CallAgain` starts the next case without it), and the bytes of the output. Of the
page, the preview mode, which calls other paths of the API, the tabs of the mobile
layout, a browser without a store, and a second tab on the same store.
`PROJECT.json` gives the reason for every component. A case edited after a
verification leaves the mark; the model keeps that, and no statement of the
repository contradicts it.

## 6. Plan

Done, in the order of importance: limiter and pool, lifecycle and catalog, content,
snapshots and their log, a case and a request in the runner with the numeric path of
its limits, the pipeline from the page's request to the runner's threads, the page,
and the proofs of section 4, which state all of the safety. Next:

1. `StudentClient` with the preview mode and with two tabs on one store.
2. Several cases at the runner at once, for the reuse of process numbers.
