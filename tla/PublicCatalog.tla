---------------------------- MODULE PublicCatalog ----------------------------
(***************************************************************************)
(* What the publication of weeks promises to students and administrators,  *)
(* without stored statuses, materialisation and concurrent transactions:   *)
(* every week has a release time or none, it is public from that time on,  *)
(* and only an accepted command of an administrator changes the time.      *)
(***************************************************************************)
EXTENDS Integers

CONSTANTS Ids,      \* the identities of weeks
          Admins,   \* the requests of administrators
          Times,    \* the times
          Never     \* the release time of a week that is not to be published

VARIABLES clock,    \* the current time
          release,  \* the release time of every week, Never for none
          command   \* per administrator request: the pending command

catalogVars == <<clock, release, command>>

Public == {w \in Ids : release[w] # Never /\ release[w] <= clock}

NoCommand == [week |-> Never, time |-> Never]

Init ==
    /\ clock = 0
    /\ release = [w \in Ids |-> Never]
    /\ command = [a \in Admins |-> NoCommand]

Pass ==
    /\ clock' = clock + 1
    /\ UNCHANGED <<release, command>>

\* A command is accepted: week w is to be released at time t.
Issue(a, w, t) ==
    /\ command[a] = NoCommand
    /\ command' = [command EXCEPT ![a] = [week |-> w, time |-> t]]
    /\ UNCHANGED <<clock, release>>

\* The command takes effect.
Apply(a) ==
    /\ command[a] # NoCommand
    /\ release' = [release EXCEPT ![command[a].week] = command[a].time]
    /\ command' = [command EXCEPT ![a] = NoCommand]
    /\ UNCHANGED clock

\* The command fails.
Drop(a) ==
    /\ command[a] # NoCommand
    /\ command' = [command EXCEPT ![a] = NoCommand]
    /\ UNCHANGED <<clock, release>>

Next ==
    \/ Pass
    \/ \E a \in Admins :
        \/ \E w \in Ids, t \in Times \cup {Never} : Issue(a, w, t)
        \/ Apply(a)
        \/ Drop(a)

Spec == Init /\ [][Next]_catalogVars
=============================================================================
