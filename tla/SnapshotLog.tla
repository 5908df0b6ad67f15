----------------------------- MODULE SnapshotLog -----------------------------
(***************************************************************************)
(* What the snapshots of a week promise, without handlers, sessions and    *)
(* rows: a change of the content and the snapshot of the result are one    *)
(* step; the log keeps the last snapshots, without a gap and unaltered.    *)
(***************************************************************************)
EXTENDS Integers, Sequences

CONSTANT Keep       \* the number of snapshots kept

VARIABLES content,  \* what the week holds
          log       \* its snapshots: records of a version and its content

logVars == <<content, log>>

\* The log s with the content c as its next version.
Extended(s, c) == Append(s, [version |-> s[Len(s)].version + 1, data |-> c])

\* The log s without its oldest snapshot when there is one too many.
Trimmed(s) == IF Len(s) <= Keep THEN s ELSE Tail(s)

Init == log = <<[version |-> 1, data |-> content]>>

\* The content becomes anything, and is recorded.
Change == log' = Trimmed(Extended(log, content'))

Spec == Init /\ [][Change]_logVars
=============================================================================
