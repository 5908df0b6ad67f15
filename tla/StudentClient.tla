---------------------------- MODULE StudentClient ----------------------------
(***************************************************************************)
(* The student's page in one browser tab                                   *)
(* (frontend/src/views/StudentView.vue, stores/app.ts): the address, the   *)
(* week and the problem shown, the code in the editor, its drafts in the   *)
(* browser's store, a run and its result, and the poll for new weeks.      *)
(* Everything asynchronous is in flight at once and arrives in any order;  *)
(* meanwhile weeks are published, retracted, edited and rolled back.       *)
(* Of a week the page's logic sees its identity and the version of every   *)
(* problem; title and statements are left out.                             *)
(*                                                                         *)
(* A callback of the page is one step, with the watcher of the code that   *)
(* Vue runs after it.  A text is the key it was written under and a        *)
(* number, 0 for the template.  The page is the desktop's.                 *)
(***************************************************************************)
EXTENDS Integers, FiniteSets, Bags

CONSTANTS Weeks,       \* the published weeks
          Past,        \* those whose address the student visits
          Single,      \* those that start with one problem, the others with two
          Edited,      \* those whose first problem was edited before
          AtFirst,     \* what may be current when the page is opened, 0 for no week
          MaxEvents,   \* bound on edits, runs and the server's changes together, for TLC
          MaxLoads     \* bound on the calls of loadWeek under way, for TLC

ASSUME StudentAssumption ==
    /\ IsFiniteSet(Weeks) /\ Weeks \subseteq Nat \ {0}
    /\ {Single, Edited} \subseteq SUBSET Weeks /\ Past \subseteq Weeks
    /\ AtFirst \subseteq Weeks \cup {0}
    /\ {MaxEvents, MaxLoads} \subseteq Nat

VARIABLES
    current,    \* at the server: the current week, 0 for none
    version,    \*   the version of every problem, 0 where there is none
    past,       \*   what the versions of a week have been, its snapshots among them
    route,      \* the address: 0 for the current week, or a past week
    week,       \* week: what is shown
    index,      \* currentIndex, as the problem that stands there
    code,       \* the text in the editor
    drafts,     \* the browser's store
    loads,      \* the calls of loadWeek under way, a bag
    run,        \* the problem a run under way is for
    visible,    \* resultVisible
    response,   \* runResponse, as the problem it is for
    poll,       \* the poll's request
    newWeekAvailable,
    events      \* the edits, runs and changes so far

serverVars == <<current, version, past>>
resultVars == <<run, visible, response>>
pollVars   == <<poll, newWeekAvailable>>
pageVars   == <<route, week, index, code, drafts>>
vars == <<serverVars, pageVars, loads, resultVars, pollVars, events>>

MaxVersion  == MaxEvents + 2
Keys        == {<<w, p, v>> : w \in Weeks, p \in 1..2, v \in 1..MaxVersion}
Texts       == [key : Keys, n : 0..MaxEvents]
NoText      == [key |-> <<0, 0, 0>>, n |-> 0] \* no entry in the store
Loose       == [key |-> <<0, 0, 0>>, n |-> 1] \* what is in the editor before any problem
NoWeek      == [id |-> 0, versions |-> <<>>]
NoRun       == <<>>

\* What the server answers for a week.
Content(w) == IF w = 0 THEN NoWeek
              ELSE [id |-> w, versions |-> [p \in {r \in 1..2 : version[w][r] > 0} |->
                                                version[w][p]]]

Listings == UNION {[P -> 1..MaxVersion] : P \in SUBSET (1..2)}
Contents == {NoWeek} \cup [id : Weeks, versions : Listings]

\* currentProblem is there.
HasProblem == index \in DOMAIN week.versions

\* A request: for what address, how far it is, and its answer.
Idle      == [of |-> 0, at |-> "idle", answer |-> NoWeek]
Asked(r)  == [of |-> r, at |-> "asked", answer |-> NoWeek]
Served(q) == [q EXCEPT !.at = "served", !.answer = Content(IF q.of = 0 THEN current ELSE q.of)]
Requests  == [of : Past \cup {0}, at : {"idle", "asked", "served"}, answer : Contents]

TypeOK ==
    /\ current \in Weeks \cup {0} /\ events \in 0..MaxEvents
    /\ version \in [Weeks -> [1..2 -> 0..MaxVersion]]
    /\ past \in [Weeks -> SUBSET [1..2 -> 0..MaxVersion]]
    /\ route \in Past \cup {0}
    /\ week \in Contents
    /\ index \in 1..2 /\ (DOMAIN week.versions # {} => HasProblem)
    /\ code \in Texts \cup {Loose}
    /\ drafts \in [Keys -> Texts \cup {NoText}]
    /\ IsABag(loads) /\ BagToSet(loads) \subseteq Requests
    /\ run \in (Weeks \X (1..2)) \cup {NoRun}
    /\ response \in (Weeks \X (1..2)) \cup {NoRun}
    /\ visible \in BOOLEAN /\ newWeekAvailable \in BOOLEAN
    /\ poll \in Requests

\* The versions of a new week.
Created(w) == [p \in 1..2 |-> IF w \in Single /\ p = 2 THEN 0 ELSE 1]

\* The page is opened at an address.
Init ==
    /\ current \in AtFirst /\ events = 0
    /\ version = [w \in Weeks |-> IF w \in Edited THEN [Created(w) EXCEPT ![1] = 2] ELSE Created(w)]
    /\ past = [w \in Weeks |-> {Created(w), version[w]}]
    /\ route \in Past \cup {0}
    /\ week = NoWeek /\ index = 1 /\ code = Loose
    /\ drafts = [k \in Keys |-> NoText]
    /\ loads = SetToBag({Asked(route)})
    /\ run = NoRun /\ visible = FALSE /\ response = NoRun
    /\ poll = Idle /\ newWeekAvailable = FALSE

\* One of the steps that are counted.
Event == events < MaxEvents /\ events' = events + 1

-----------------------------------------------------------------------------
(* The store and the editor *)

Key(w, i) == <<w.id, i, w.versions[i]>>
Template(k) == [key |-> k, n |-> 0]

\* loadCode
Stored(d, k) == IF d[k] = NoText THEN Template(k) ELSE d[k]

\* saveCode.  An entry with the template gives the same as none.
Saved(d, k, c) == [d EXCEPT ![k] = IF c = Template(k) THEN NoText ELSE c]

\* The watcher of the code saves a new text under the problem then shown.
Shows(d, k, c) ==
    /\ code' = c
    /\ drafts' = IF c = code THEN d ELSE Saved(d, k, c)

CloseResult == visible' = FALSE /\ response' = NoRun

\* Mutant of RestoreCode: the result stays open.
RestoreCodeKeepingResult(d, w, i) ==
    /\ Shows(d, Key(w, i), Stored(d, Key(w, i)))
    /\ UNCHANGED <<visible, response>>

\* restoreCode, for the problem i of the week w.
RestoreCode(d, w, i) == Shows(d, Key(w, i), Stored(d, Key(w, i))) /\ CloseResult

-----------------------------------------------------------------------------
(* The student *)

Types ==
    /\ HasProblem /\ Event
    /\ Shows(drafts, Key(week, index), [key |-> Key(week, index), n |-> events'])
    /\ UNCHANGED <<serverVars, route, week, index, loads, resultVars, pollVars>>

\* While no problem is shown the editor is open, and the text is not saved.
TypesEarly ==
    /\ ~HasProblem /\ Event
    /\ code' = Loose
    /\ UNCHANGED <<serverVars, route, week, index, drafts, loads, resultVars, pollVars>>

\* Mutant of SwitchProblem: the index changes before the code is saved.
SwitchProblemEarly(i) ==
    /\ HasProblem /\ i \in DOMAIN week.versions
    /\ index' = i
    /\ RestoreCode(Saved(drafts, Key(week, i), code), week, i)
    /\ UNCHANGED <<serverVars, route, week, loads, run, pollVars, events>>

SwitchProblem(i) ==
    /\ HasProblem /\ i \in DOMAIN week.versions
    /\ index' = i
    /\ RestoreCode(Saved(drafts, Key(week, index), code), week, i)
    /\ UNCHANGED <<serverVars, route, week, loads, run, pollVars, events>>

ResetCode ==
    /\ HasProblem
    /\ LET k == Key(week, index) IN Shows(Saved(drafts, k, NoText), k, Template(k))
    /\ CloseResult
    /\ UNCHANGED <<serverVars, route, week, index, loads, run, pollVars, events>>

-----------------------------------------------------------------------------
(* loadWeek *)

\* A call of loadWeek is sent for the address r.
Load(r) ==
    /\ BagCardinality(loads) < MaxLoads
    /\ loads' = loads (+) SetToBag({Asked(r)})

Ended(q) == loads' = loads (-) SetToBag({q})

\* The watcher of the address.  The run under way and its panel stay.
Navigate(r) ==
    /\ r # route
    /\ route' = r /\ week' = NoWeek /\ newWeekAvailable' = FALSE
    /\ Load(r)
    /\ UNCHANGED <<serverVars, index, code, drafts, resultVars, poll, events>>

\* The button of the notice.
Reload ==
    /\ newWeekAvailable
    /\ newWeekAvailable' = FALSE
    /\ Load(route)
    /\ UNCHANGED <<serverVars, pageVars, resultVars, poll, events>>

LoadServed(q) ==
    /\ q.at = "asked"
    /\ loads' = (loads (-) SetToBag({q})) (+) SetToBag({Served(q)})
    /\ UNCHANGED <<serverVars, pageVars, resultVars, pollVars, events>>

\* The problem at the head of the list.
First(w) == IF DOMAIN w.versions = {2} THEN 2 ELSE 1

\* Mutant of LoadArrives: currentIndex is kept.
LoadArrivesKeepingIndex(q) ==
    /\ q.at = "served"
    /\ week' = q.answer /\ UNCHANGED index
    /\ IF HasProblem' THEN RestoreCode(drafts, q.answer, index)
                      ELSE UNCHANGED <<code, drafts, visible, response>>
    /\ Ended(q)
    /\ UNCHANGED <<serverVars, route, run, pollVars, events>>

\* Mutant of LoadArrives: the editor keeps its text.
LoadArrivesKeepingCode(q) ==
    /\ q.at = "served"
    /\ week' = q.answer /\ index' = First(q.answer)
    /\ UNCHANGED <<code, drafts, visible, response>>
    /\ Ended(q)
    /\ UNCHANGED <<serverVars, route, run, pollVars, events>>

\* The answer, whatever is shown and wherever the address is by now.  Without
\* a problem in it the editor and the panel stay.
LoadArrives(q) ==
    /\ q.at = "served"
    /\ week' = q.answer /\ index' = First(q.answer)
    /\ IF HasProblem' THEN RestoreCode(drafts, q.answer, First(q.answer))
                      ELSE UNCHANGED <<code, drafts, visible, response>>
    /\ Ended(q)
    /\ UNCHANGED <<serverVars, route, run, pollVars, events>>

LoadFails(q) ==
    /\ Ended(q)
    /\ UNCHANGED <<serverVars, pageVars, resultVars, pollVars, events>>

-----------------------------------------------------------------------------
(* Runs: runSample, runCustom and runAll are the same here. *)

RunStarts ==
    /\ HasProblem /\ run = NoRun /\ Event
    /\ run' = <<week.id, index>>
    /\ visible' = TRUE /\ response' = NoRun
    /\ UNCHANGED <<serverVars, pageVars, loads, pollVars>>

\* The answer, or an alert.
RunEnds ==
    /\ run # NoRun
    /\ run' = NoRun
    /\ response' \in {run, response}
    /\ UNCHANGED <<serverVars, pageVars, loads, visible, pollVars, events>>

ClosesPanel ==
    /\ visible /\ CloseResult
    /\ UNCHANGED <<serverVars, pageVars, loads, run, pollVars, events>>

-----------------------------------------------------------------------------
(* The poll, every minute *)

\* weekFingerprint: the identities and the versions, whatever their content is.
Fingerprint(w) == <<w.id, w.versions>>

PollSends ==
    /\ poll = Idle /\ route = 0
    /\ poll' = Asked(0)
    /\ UNCHANGED <<serverVars, pageVars, loads, resultVars, newWeekAvailable, events>>

PollServed ==
    /\ poll.at = "asked"
    /\ poll' = Served(poll)
    /\ UNCHANGED <<serverVars, pageVars, loads, resultVars, newWeekAvailable, events>>

\* Mutant of PollArrives: only a problem that is new or has a later version.
PollArrivesNewer ==
    /\ poll.at = "served"
    /\ newWeekAvailable' = \/ newWeekAvailable
                           \/ poll.answer.id # week.id
                           \/ \E p \in DOMAIN poll.answer.versions :
                                 p \in DOMAIN week.versions =>
                                    poll.answer.versions[p] > week.versions[p]
    /\ poll' = Idle
    /\ UNCHANGED <<serverVars, pageVars, loads, resultVars, events>>

\* Compared with what is shown by then.
PollArrives ==
    /\ poll.at = "served"
    /\ newWeekAvailable' = (newWeekAvailable \/ Fingerprint(poll.answer) # Fingerprint(week))
    /\ poll' = Idle
    /\ UNCHANGED <<serverVars, pageVars, loads, resultVars, events>>

PollFails ==
    /\ poll # Idle
    /\ poll' = Idle
    /\ UNCHANGED <<serverVars, pageVars, loads, resultVars, newWeekAvailable, events>>

-----------------------------------------------------------------------------
(* The server *)

Changes ==
    /\ Event
    /\ UNCHANGED <<pageVars, loads, resultVars, pollVars>>

\* Another week, or none, becomes the current one.
Publishes ==
    /\ Changes
    /\ \E w \in (Weeks \cup {0}) \ {current} : current' = w
    /\ UNCHANGED <<version, past>>

\* A transaction leaves the week w with the versions v.
Leaves(w, v) ==
    /\ Changes
    /\ version' = [version EXCEPT ![w] = v]
    /\ past' = [past EXCEPT ![w] = @ \cup {v}]
    /\ UNCHANGED current

\* upsert_problem, for a problem that may be a new one; the edits of its cases
\* and its answer and the imports into it raise the version alike.
UpsertProblem(w, p) == Leaves(w, [version[w] EXCEPT ![p] = @ + 1])

\* The legacy import of a new problem, which is flushed with 1 before the edit.
ImportLegacy(w, p) == version[w][p] = 0 /\ Leaves(w, [version[w] EXCEPT ![p] = 2])

\* delete_problem; a problem of that identity starts at 1 again.
DeleteProblem(w, p) == version[w][p] > 0 /\ Leaves(w, [version[w] EXCEPT ![p] = 0])

\* rollback_snapshot, to any earlier state: the kept snapshots are among them.
RollbackSnapshot(w) == \E v \in past[w] \ {version[w]} : Leaves(w, v)

Edits ==
    \E w \in Weeks :
       \/ \E p \in 1..2 : UpsertProblem(w, p) \/ ImportLegacy(w, p) \/ DeleteProblem(w, p)
       \/ RollbackSnapshot(w)

Student == \/ Types \/ TypesEarly \/ (\E i \in 1..2 : SwitchProblem(i)) \/ ResetCode
           \/ (\E r \in Past \cup {0} : Navigate(r)) \/ Reload \/ RunStarts \/ ClosesPanel
Network == \/ (\E q \in BagToSet(loads) : LoadServed(q) \/ LoadArrives(q) \/ LoadFails(q))
           \/ RunEnds \/ PollSends \/ PollServed \/ PollArrives \/ PollFails

Next == Student \/ Network \/ Publishes \/ Edits

Spec == Init /\ [][Next]_vars

(***************************************************************************)
(* The timer goes on, requests are served, and a poll does not fail every  *)
(* time.  Nothing is assumed of the student, of loads and of runs.         *)
(***************************************************************************)
FairSpec == Spec /\ WF_vars(PollSends) /\ SF_vars(PollServed) /\ SF_vars(PollArrives)

-----------------------------------------------------------------------------
(* Properties *)

(***************************************************************************)
(* DraftsBelong: whatever arrives late, every draft in the store is a text *)
(* written for that problem in that version, or its template.              *)
(***************************************************************************)
DraftsBelong == \A k \in Keys : drafts[k] = NoText \/ drafts[k].key = k

(***************************************************************************)
(* ShownIsStored: the text in the editor of a shown problem is what the    *)
(* store gives back for it, so neither a switch nor an answer that         *)
(* replaces the page loses an edit.                                        *)
(***************************************************************************)
ShownIsStored == HasProblem => code = Stored(drafts, Key(week, index))

(***************************************************************************)
(* ResultBelongs: a result that is visible is one of the problem shown,    *)
(* although the student may switch problem and week during the run.        *)
(***************************************************************************)
ResultBelongs == visible /\ response # NoRun /\ HasProblem => response = <<week.id, index>>

(***************************************************************************)
(* StaleWeekFlagged: at the address of the current week, a page that shows *)
(* another week or other versions than the server's current one -- after a *)
(* publication, an edit, a deletion or a rollback to earlier versions, or  *)
(* because an older answer or one for another address arrived last -- is   *)
(* told of it in the end.  A version number that has come back with        *)
(* another content is the same to weekFingerprint and to this property.    *)
(***************************************************************************)
StaleWeekFlagged ==
    (route = 0 /\ week # Content(current))
        ~> (newWeekAvailable \/ week = Content(current) \/ route # 0)
=============================================================================
