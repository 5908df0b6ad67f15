------------------------ MODULE StudentClientProofs ------------------------
(***************************************************************************)
(* The drafts and the results of the student's page, for every set of      *)
(* weeks, every number of answers in flight and every order of them.       *)
(***************************************************************************)
EXTENDS StudentClient, TLAPS

-----------------------------------------------------------------------------
(* The inductive invariant *)

Text == [key : Keys \cup {<<0, 0, 0>>}, n : Nat]

\* A week as the server answers it.
IsWeek(c) ==
    /\ c.id \in Weeks
    /\ DOMAIN c.versions \subseteq 1..2
    /\ \A p \in DOMAIN c.versions : c.versions[p] \in 1..MaxVersion

\* The versions that n events can lead to: those of an edited week start at 2.
States(n) == [1..2 -> 0..(n + 2)]

ServerInv ==
    /\ current \in Weeks \cup {0} /\ events \in 0..MaxEvents
    /\ version \in [Weeks -> States(events)]
    /\ past \in [Weeks -> SUBSET States(events)]

\* Whatever is in flight: it is for an address, and answers with a week.
LoadsInv ==
    /\ route \in Past \cup {0}
    /\ \A q \in BagToSet(loads) :
          /\ q \in [of : Past \cup {0}, at : {"asked", "served"}, answer : {q.answer}]
          /\ q.at = "served" => q.answer = NoWeek \/ IsWeek(q.answer)

PageInv ==
    /\ week = NoWeek \/ IsWeek(week)
    /\ index \in 1..2 /\ (DOMAIN week.versions # {} => HasProblem)
    /\ drafts \in [Keys -> Text] /\ code \in Text

\* A panel that is open is for the problem shown, before and after the answer.
ResultInv ==
    visible /\ HasProblem =>
        /\ run # NoRun => run = <<week.id, index>>
        /\ response # NoRun => response = <<week.id, index>>

ClientInv == ServerInv /\ LoadsInv /\ PageInv /\ DraftsBelong /\ ShownIsStored /\ ResultInv

-----------------------------------------------------------------------------
(* The store *)

\* The key of a shown problem is one of the store's.
LEMMA KeyType ==
  ASSUME NEW w, IsWeek(w), NEW i \in DOMAIN w.versions
  PROVE  Key(w, i) \in Keys /\ Key(w, i) # <<0, 0, 0>>
  <1>1. w.id \in Weeks /\ i \in 1..2 /\ w.versions[i] \in 1..MaxVersion
    BY DEF IsWeek
  <1>2. w.id # 0
    BY <1>1, StudentAssumption
  <1> QED
    BY <1>1, <1>2 DEF Key, Keys

\* A week with problems has a first one.
LEMMA FirstProblem ==
  ASSUME NEW w, w = NoWeek \/ IsWeek(w)
  PROVE  First(w) \in 1..2 /\ (DOMAIN w.versions # {} => First(w) \in DOMAIN w.versions)
  <1>1. DOMAIN w.versions \subseteq {1, 2}
    <2>1. DOMAIN NoWeek.versions = {}
      BY DEF NoWeek
    <2>2. 1..2 = {1, 2}
      OBVIOUS
    <2> QED
      BY <2>1, <2>2 DEF IsWeek
  <1> QED
    BY <1>1 DEF First

\* A problem is shown of a week only.
LEMMA NoProblem == HasProblem => week # NoWeek
  <1>1. DOMAIN NoWeek.versions = {}
    BY DEF NoWeek
  <1> QED
    BY <1>1 DEF HasProblem

LEMMA NoProblemThen == HasProblem' => week' # NoWeek
  <1>1. DOMAIN NoWeek.versions = {}
    BY DEF NoWeek
  <1> QED
    BY <1>1 DEF HasProblem

\* A text of its key is stored under it and comes back.
LEMMA StoreBack ==
  ASSUME NEW d \in [Keys -> Text], NEW k \in Keys, k # <<0, 0, 0>>,
         NEW c \in Text, c.key = k,
         \A j \in Keys : d[j] = NoText \/ d[j].key = j
  PROVE  /\ Saved(d, k, c) \in [Keys -> Text]
         /\ \A j \in Keys : Saved(d, k, c)[j] = NoText \/ Saved(d, k, c)[j].key = j
         /\ Stored(Saved(d, k, c), k) = c
  <1>1. NoText \in Text /\ c # NoText
    BY DEF NoText, Text
  <1>2. CASE c = Template(k)
    <2>1. Saved(d, k, c) = [d EXCEPT ![k] = NoText]
      BY <1>2 DEF Saved
    <2>2. Saved(d, k, c)[k] = NoText
      BY <2>1
    <2> QED
      BY <1>1, <1>2, <2>1, <2>2 DEF Stored
  <1>3. CASE c # Template(k)
    <2>1. Saved(d, k, c) = [d EXCEPT ![k] = c]
      BY <1>3 DEF Saved
    <2>2. Saved(d, k, c)[k] = c
      BY <2>1
    <2> QED
      BY <1>1, <1>3, <2>1, <2>2 DEF Stored
  <1> QED
    BY <1>2, <1>3

\* What the store gives back for a key is a text of that key.
LEMMA StoredIs ==
  ASSUME NEW d \in [Keys -> Text], NEW k \in Keys,
         \A j \in Keys : d[j] = NoText \/ d[j].key = j
  PROVE  Stored(d, k) \in Text /\ Stored(d, k).key = k
  <1>1. Template(k) \in Text /\ Template(k).key = k
    BY DEF Template, Text
  <1> QED
    BY <1>1 DEF Stored

\* The page shows a text of its key that the store has, and the watcher keeps
\* the store so.
LEMMA ShowsKeeps ==
  ASSUME NEW d \in [Keys -> Text], NEW k \in Keys, k # <<0, 0, 0>>,
         NEW c \in Text, c.key = k, c = code => Stored(d, k) = c,
         \A j \in Keys : d[j] = NoText \/ d[j].key = j,
         Shows(d, k, c)
  PROVE  /\ drafts' \in [Keys -> Text] /\ code' \in Text
         /\ \A j \in Keys : drafts'[j] = NoText \/ drafts'[j].key = j
         /\ code' = Stored(drafts', k)
  BY StoreBack DEF Shows

-----------------------------------------------------------------------------
(* The server and what is in flight *)

\* A further event leads to more versions.
LEMMA MoreStates ==
  ASSUME NEW n \in Nat
  PROVE  /\ States(n) \subseteq States(n + 1)
         /\ \A v \in States(n), p \in 1..2 :
               {[v EXCEPT ![p] = v[p] + 1], [v EXCEPT ![p] = 2], [v EXCEPT ![p] = 0]}
                  \subseteq States(n + 1)
  <1>1. /\ 0..(n + 2) \subseteq 0..(n + 1 + 2) /\ 0 \in 0..(n + 1 + 2) /\ 2 \in 0..(n + 1 + 2)
        /\ \A k \in 0..(n + 2) : k + 1 \in 0..(n + 1 + 2)
    OBVIOUS
  <1> DEFINE A == 0..(n + 2)
             B == 0..(n + 1 + 2)
  <1>2. States(n) = [1..2 -> A] /\ States(n + 1) = [1..2 -> B]
    BY DEF States
  <1>3. A \subseteq B /\ 0 \in B /\ 2 \in B /\ \A k \in A : k + 1 \in B
    BY <1>1
  <1> HIDE DEF A, B
  <1>4. [1..2 -> A] \subseteq [1..2 -> B]
    BY <1>3
  <1>5. ASSUME NEW v \in [1..2 -> A], NEW p \in 1..2
        PROVE  {[v EXCEPT ![p] = v[p] + 1], [v EXCEPT ![p] = 2], [v EXCEPT ![p] = 0]}
                  \subseteq [1..2 -> B]
    <2>1. v \in [1..2 -> B] /\ v[p] + 1 \in B
      BY <1>3, <1>5
    <2> QED
      BY <1>3, <2>1
  <1> QED
    BY <1>2, <1>4, <1>5

\* A transaction to versions in reach of the events.
LEMMA LeavesServer ==
  ASSUME ServerInv, NEW w \in Weeks, NEW v \in States(events + 1), Leaves(w, v)
  PROVE  ServerInv'
  <1>1. /\ events' = events + 1 /\ events' \in 0..MaxEvents /\ current' = current
        /\ events \in Nat
    BY StudentAssumption DEF Leaves, Changes, Event, ServerInv
  <1>2. States(events) \subseteq States(events')
    BY <1>1, MoreStates
  <1>3. version' \in [Weeks -> States(events')]
    BY <1>1, <1>2 DEF Leaves, ServerInv
  <1>4. past' \in [Weeks -> SUBSET States(events')]
    BY <1>1, <1>2 DEF Leaves, ServerInv
  <1> QED
    BY <1>1, <1>3, <1>4 DEF ServerInv

\* The versions stay within the events so far.
LEMMA ServerNext == ServerInv /\ [Next]_vars => ServerInv'
  <1> SUFFICES ASSUME ServerInv, [Next]_vars
               PROVE  ServerInv'
    OBVIOUS
  <1>0. ASSUME UNCHANGED serverVars, events' = events \/ Event
        PROVE  ServerInv'
    <2>1. events' \in 0..MaxEvents /\ States(events) \subseteq States(events')
      BY <1>0, StudentAssumption, MoreStates DEF Event, ServerInv
    <2> QED
      BY <1>0, <2>1 DEF serverVars, ServerInv
  <1>1. CASE Student
    <2>1. UNCHANGED serverVars /\ (events' = events \/ Event)
      BY <1>1 DEF Student, Types, TypesEarly, SwitchProblem, ResetCode, Navigate, Reload,
                  RunStarts, ClosesPanel
    <2> QED
      BY <1>0, <2>1
  <1>2. CASE Network
    <2>1. UNCHANGED serverVars /\ (events' = events \/ Event)
      BY <1>2 DEF Network, LoadServed, LoadArrives, LoadFails, RunEnds, PollSends,
                  PollServed, PollArrives, PollFails
    <2> QED
      BY <1>0, <2>1
  <1>3. CASE Publishes
    <2>1. /\ events' = events + 1 /\ events' \in 0..MaxEvents /\ events \in Nat
          /\ current' \in Weeks \cup {0} /\ UNCHANGED <<version, past>>
      BY <1>3, StudentAssumption DEF Publishes, Changes, Event, ServerInv
    <2>2. States(events) \subseteq States(events')
      BY <2>1, MoreStates
    <2> QED
      BY <2>1, <2>2 DEF ServerInv
  <1>4. CASE Edits
    <2>1. PICK w \in Weeks :
             \/ \E p \in 1..2 : UpsertProblem(w, p) \/ ImportLegacy(w, p) \/ DeleteProblem(w, p)
             \/ RollbackSnapshot(w)
      BY <1>4 DEF Edits
    <2>2. /\ version[w] \in States(events) /\ past[w] \subseteq States(events)
          /\ events \in Nat
      BY StudentAssumption DEF ServerInv
    <2>3. ASSUME NEW p \in 1..2,
                 UpsertProblem(w, p) \/ ImportLegacy(w, p) \/ DeleteProblem(w, p)
          PROVE  ServerInv'
      <3>1. {[version[w] EXCEPT ![p] = version[w][p] + 1], [version[w] EXCEPT ![p] = 2],
             [version[w] EXCEPT ![p] = 0]} \subseteq States(events + 1)
        BY <2>2, MoreStates
      <3> QED
        BY <2>3, <3>1, LeavesServer DEF UpsertProblem, ImportLegacy, DeleteProblem
    <2>4. CASE RollbackSnapshot(w)
      BY <2>2, <2>4, MoreStates, LeavesServer DEF RollbackSnapshot
    <2> QED
      BY <2>1, <2>3, <2>4
  <1>5. CASE UNCHANGED vars
    BY <1>0, <1>5 DEF vars
  <1> QED
    BY <1>1, <1>2, <1>3, <1>4, <1>5 DEF Next

\* The versions of the problems that are there.
LEMMA Versions ==
  ASSUME ServerInv, NEW w \in Weeks
  PROVE  /\ {r \in 1..2 : version[w][r] > 0} \subseteq 1..2
         /\ \A p \in {r \in 1..2 : version[w][r] > 0} : version[w][p] \in 1..MaxVersion
  <1>1. version[w] \in [1..2 -> 0..(events + 2)]
    BY DEF ServerInv, States
  <1>2. \A p \in 1..2 : version[w][p] \in 0..(events + 2)
    BY <1>1
  <1>3. events <= MaxEvents /\ events \in Nat /\ MaxEvents \in Nat
    BY StudentAssumption DEF ServerInv
  <1> QED
    BY <1>2, <1>3 DEF MaxVersion

\* The server answers with a week, or none.
LEMMA ContentIs ==
  ASSUME ServerInv, NEW w \in Weeks \cup {0}
  PROVE  Content(w) = NoWeek \/ IsWeek(Content(w))
  <1>1. CASE w = 0
    BY <1>1 DEF Content
  <1>2. CASE w # 0
    <2> DEFINE P  == {r \in 1..2 : version[w][r] > 0}
               vs == [p \in P |-> version[w][p]]
    <2>1. w \in Weeks /\ Content(w) = [id |-> w, versions |-> vs]
      BY <1>2 DEF Content
    <2>2. vs \in [P -> 1..MaxVersion] /\ P \subseteq 1..2
      BY <2>1, Versions
    <2> HIDE DEF vs, P
    <2>3. Content(w).id = w /\ Content(w).versions = vs /\ DOMAIN vs = P
      BY <2>1, <2>2
    <2>4. \A p \in P : vs[p] \in 1..MaxVersion
      BY <2>2
    <2> QED
      BY <2>1, <2>2, <2>3, <2>4 DEF IsWeek
  <1> QED
    BY <1>1, <1>2

\* What is in flight after a request was added, or one was taken out.
LEMMA BagSets ==
  ASSUME NEW B, NEW q
  PROVE  /\ BagToSet(B (+) SetToBag({q})) = BagToSet(B) \cup {q}
         /\ BagToSet(B (-) SetToBag({q})) \subseteq BagToSet(B)
  BY DEF BagToSet, (+), (-), SetToBag

\* What is in flight stays for an address and carries a week.
LEMMA LoadsNext ==
  ASSUME ClientInv, [Next]_vars
  PROVE  LoadsInv'
  <1>0. LoadsInv /\ ServerInv
    BY DEF ClientInv
  <1>1. ASSUME UNCHANGED <<route, loads>>
        PROVE  LoadsInv'
    BY <1>0, <1>1 DEF LoadsInv
  <1>2. ASSUME NEW r \in Past \cup {0}, route' = r, Load(r)
        PROVE  LoadsInv'
    <2>1. BagToSet(loads') = BagToSet(loads) \cup {Asked(r)}
      BY <1>2, BagSets DEF Load
    <2>2. /\ Asked(r) \in [of : Past \cup {0}, at : {"asked", "served"}, answer : {Asked(r).answer}]
          /\ Asked(r).at = "asked"
      BY DEF Asked
    <2> QED
      BY <1>0, <1>2, <2>1, <2>2 DEF LoadsInv
  <1>3. CASE Student
    <2>1. ASSUME NEW r \in Past \cup {0}, Navigate(r)
          PROVE  LoadsInv'
      BY <1>2, <2>1 DEF Navigate
    <2>2. CASE Reload
      BY <1>0, <1>2, <2>2 DEF Reload, LoadsInv, pageVars
    <2>3. CASE Types \/ TypesEarly \/ ResetCode \/ RunStarts \/ ClosesPanel
      BY <1>1, <2>3 DEF Types, TypesEarly, ResetCode, RunStarts, ClosesPanel, pageVars
    <2>4. ASSUME NEW i \in 1..2, SwitchProblem(i)
          PROVE  LoadsInv'
      BY <1>1, <2>4 DEF SwitchProblem
    <2> QED
      BY <1>3, <2>1, <2>2, <2>3, <2>4 DEF Student
  <1>4. ASSUME NEW q \in BagToSet(loads), LoadServed(q) \/ LoadArrives(q) \/ LoadFails(q)
        PROVE  LoadsInv'
    <2>1. CASE LoadArrives(q) \/ LoadFails(q)
      <3>1. BagToSet(loads') \subseteq BagToSet(loads) /\ route' = route
        BY <2>1, BagSets DEF LoadArrives, LoadFails, Ended, pageVars
      <3> QED
        BY <1>0, <3>1 DEF LoadsInv
    <2>2. CASE LoadServed(q)
      <3> DEFINE w == IF q.of = 0 THEN current ELSE q.of
      <3>1. /\ BagToSet(loads') \subseteq BagToSet(loads) \cup {Served(q)}
            /\ route' = route
        <4> DEFINE rest == loads (-) SetToBag({q})
        <4>1. loads' = rest (+) SetToBag({Served(q)}) /\ route' = route
          BY <2>2 DEF LoadServed, pageVars
        <4>2. BagToSet(rest) \subseteq BagToSet(loads)
          BY BagSets
        <4> HIDE DEF rest
        <4>3. BagToSet(rest (+) SetToBag({Served(q)})) = BagToSet(rest) \cup {Served(q)}
          BY BagSets
        <4> QED
          BY <4>1, <4>2, <4>3
      <3>2. q \in [of : Past \cup {0}, at : {"asked", "served"}, answer : {q.answer}]
        BY <1>0 DEF LoadsInv
      <3>3. w \in Weeks \cup {0}
        BY <1>0, <3>2, StudentAssumption DEF ServerInv
      <3>4. Content(w) = NoWeek \/ IsWeek(Content(w))
        BY <1>0, <3>3, ContentIs
      <3>5. /\ Served(q) \in [of : Past \cup {0}, at : {"asked", "served"}, answer : {Served(q).answer}]
            /\ Served(q).answer = Content(w)
        BY <3>2 DEF Served
      <3> QED
        BY <1>0, <3>1, <3>4, <3>5 DEF LoadsInv
    <2> QED
      BY <1>4, <2>1, <2>2
  <1>5. CASE RunEnds \/ PollSends \/ PollServed \/ PollArrives \/ PollFails
    BY <1>1, <1>5 DEF RunEnds, PollSends, PollServed, PollArrives, PollFails, pageVars
  <1>6. CASE Publishes \/ Edits \/ UNCHANGED vars
    BY <1>1, <1>6 DEF Publishes, Edits, UpsertProblem, ImportLegacy,
                    DeleteProblem, RollbackSnapshot, Leaves, Changes, vars, pageVars
  <1> QED
    BY <1>3, <1>4, <1>5, <1>6 DEF Next, Network

-----------------------------------------------------------------------------
(* The page *)

\* The part of the invariant that is about the page.
OnPage == PageInv /\ DraftsBelong /\ ShownIsStored

\* What restoreCode shows is stored; the panel is closed.
LEMMA RestoreKeeps ==
  ASSUME NEW d \in [Keys -> Text], NEW w, IsWeek(w), NEW i \in DOMAIN w.versions,
         \A j \in Keys : d[j] = NoText \/ d[j].key = j,
         RestoreCode(d, w, i), week' = w, index' = i
  PROVE  OnPage' /\ visible' = FALSE
  <1> DEFINE k == Key(w, i)
             c == Stored(d, k)
  <1>1. k \in Keys /\ k # <<0, 0, 0>>
    BY KeyType
  <1>2. c \in Text /\ c.key = k
    BY <1>1, StoredIs
  <1>3. Shows(d, k, c) /\ visible' = FALSE
    BY DEF RestoreCode, CloseResult
  <1> HIDE DEF c
  <1>4. /\ drafts' \in [Keys -> Text] /\ code' \in Text
        /\ \A j \in Keys : drafts'[j] = NoText \/ drafts'[j].key = j
        /\ code' = Stored(drafts', k)
    BY <1>1, <1>2, <1>3, ShowsKeeps DEF c
  <1>5. index' \in 1..2 /\ HasProblem'
    BY DEF IsWeek, HasProblem
  <1> QED
    BY <1>3, <1>4, <1>5 DEF OnPage, PageInv, DraftsBelong, ShownIsStored

\* The problem shown has a key, and the editor a text of it.
LEMMA ShownKey ==
  ASSUME ClientInv, HasProblem
  PROVE  /\ Key(week, index) \in Keys /\ Key(week, index) # <<0, 0, 0>>
         /\ code \in Text /\ code.key = Key(week, index)
         /\ code = Stored(drafts, Key(week, index))
  <1>1. /\ IsWeek(week) /\ index \in DOMAIN week.versions
        /\ drafts \in [Keys -> Text] /\ code \in Text
    BY NoProblem DEF ClientInv, PageInv, HasProblem
  <1>2. Key(week, index) \in Keys /\ Key(week, index) # <<0, 0, 0>>
    BY <1>1, KeyType
  <1>3. code = Stored(drafts, Key(week, index))
    BY DEF ClientInv, ShownIsStored
  <1>4. \A j \in Keys : drafts[j] = NoText \/ drafts[j].key = j
    BY DEF ClientInv, DraftsBelong
  <1> QED
    BY <1>1, <1>2, <1>3, <1>4, StoredIs

\* An edit of the problem shown.
LEMMA TypesPage ==
  ASSUME ClientInv, Types
  PROVE  OnPage'
  <1> DEFINE k == Key(week, index)
             c == [key |-> k, n |-> events']
  <1>1. HasProblem /\ events' = events + 1 /\ Shows(drafts, k, c)
        /\ UNCHANGED <<week, index>> /\ events \in Nat
    BY StudentAssumption DEF Types, Event, ClientInv, ServerInv
  <1>2. k \in Keys /\ k # <<0, 0, 0>> /\ code = Stored(drafts, k)
    BY <1>1, ShownKey
  <1>3. events' \in Nat /\ c \in Text /\ c.key = k
    BY <1>1, <1>2 DEF Text
  <1>4. drafts \in [Keys -> Text] /\ \A j \in Keys : drafts[j] = NoText \/ drafts[j].key = j
    BY DEF ClientInv, PageInv, DraftsBelong
  <1> HIDE DEF c, k
  <1>5. /\ drafts' \in [Keys -> Text] /\ code' \in Text
        /\ \A j \in Keys : drafts'[j] = NoText \/ drafts'[j].key = j
        /\ code' = Stored(drafts', k)
    BY <1>1, <1>2, <1>3, <1>4, ShowsKeeps
  <1> QED
    BY <1>1, <1>3, <1>5 DEF OnPage, ClientInv, PageInv, DraftsBelong, ShownIsStored, HasProblem, k

\* Back to the template.
LEMMA ResetPage ==
  ASSUME ClientInv, ResetCode
  PROVE  OnPage'
  <1> DEFINE k == Key(week, index)
             d == Saved(drafts, k, NoText)
  <1>1. HasProblem /\ Shows(d, k, Template(k)) /\ UNCHANGED <<week, index>>
    BY DEF ResetCode
  <1>2. k \in Keys /\ k # <<0, 0, 0>>
    BY <1>1, ShownKey
  <1>3. drafts \in [Keys -> Text] /\ \A j \in Keys : drafts[j] = NoText \/ drafts[j].key = j
    BY DEF ClientInv, PageInv, DraftsBelong
  <1>4. NoText \in Text /\ Template(k) \in Text /\ Template(k).key = k
    BY <1>2 DEF NoText, Template, Text
  <1>5. d = [drafts EXCEPT ![k] = NoText]
    BY DEF Saved
  <1>6. /\ d \in [Keys -> Text] /\ \A j \in Keys : d[j] = NoText \/ d[j].key = j
        /\ Stored(d, k) = Template(k)
    BY <1>2, <1>3, <1>4, <1>5 DEF Stored
  <1> HIDE DEF d, k
  <1>7. /\ drafts' \in [Keys -> Text] /\ code' \in Text
        /\ \A j \in Keys : drafts'[j] = NoText \/ drafts'[j].key = j
        /\ code' = Stored(drafts', k)
    BY <1>1, <1>2, <1>4, <1>6, ShowsKeeps
  <1> QED
    BY <1>1, <1>7 DEF OnPage, ClientInv, PageInv, DraftsBelong, ShownIsStored, HasProblem, k

\* A switch to another problem, after the code of this one was saved.
LEMMA SwitchPage ==
  ASSUME ClientInv, NEW i \in 1..2, SwitchProblem(i)
  PROVE  OnPage' /\ visible' = FALSE
  <1> DEFINE k == Key(week, index)
             d == Saved(drafts, k, code)
  <1>1. /\ HasProblem /\ i \in DOMAIN week.versions /\ index' = i
        /\ RestoreCode(d, week, i) /\ UNCHANGED week
    BY DEF SwitchProblem
  <1>2. k \in Keys /\ k # <<0, 0, 0>> /\ code \in Text /\ code.key = k
    BY <1>1, ShownKey
  <1>3. drafts \in [Keys -> Text] /\ \A j \in Keys : drafts[j] = NoText \/ drafts[j].key = j
    BY DEF ClientInv, PageInv, DraftsBelong
  <1>4. IsWeek(week) /\ i \in DOMAIN week.versions
    BY <1>1, NoProblem DEF ClientInv, PageInv
  <1>5. d \in [Keys -> Text] /\ \A j \in Keys : d[j] = NoText \/ d[j].key = j
    BY <1>2, <1>3, StoreBack
  <1> HIDE DEF d, k
  <1> QED
    BY <1>1, <1>4, <1>5, RestoreKeeps

\* An answer replaces the page, whichever it is.
LEMMA ArrivesPage ==
  ASSUME ClientInv, NEW q \in BagToSet(loads), LoadArrives(q)
  PROVE  OnPage' /\ (HasProblem' => visible' = FALSE)
  <1> DEFINE i == First(q.answer)
  <1>1. q.answer = NoWeek \/ IsWeek(q.answer)
    BY DEF ClientInv, LoadsInv, LoadArrives
  <1>2. /\ drafts \in [Keys -> Text] /\ code \in Text
        /\ \A j \in Keys : drafts[j] = NoText \/ drafts[j].key = j
    BY DEF ClientInv, PageInv, DraftsBelong
  <1>3. week' = q.answer /\ index' = i
    BY DEF LoadArrives
  <1>4. i \in 1..2 /\ (DOMAIN q.answer.versions # {} => i \in DOMAIN q.answer.versions)
    BY <1>1, FirstProblem
  <1> HIDE DEF i
  <1>5. HasProblem' <=> i \in DOMAIN q.answer.versions
    BY <1>3 DEF HasProblem
  <1>6. CASE ~HasProblem'
    <2>1. UNCHANGED <<code, drafts>>
      BY <1>6 DEF LoadArrives
    <2>2. PageInv'
      BY <1>1, <1>2, <1>3, <1>4, <1>5, <2>1 DEF PageInv
    <2> QED
      BY <1>2, <1>6, <2>1, <2>2 DEF OnPage, DraftsBelong, ShownIsStored
  <1>7. CASE HasProblem'
    <2>1. RestoreCode(drafts, q.answer, i)
      BY <1>7 DEF LoadArrives, i
    <2>2. i \in DOMAIN q.answer.versions /\ IsWeek(q.answer)
      BY <1>1, <1>3, <1>5, <1>7, NoProblemThen
    <2> QED
      BY <1>2, <1>3, <2>1, <2>2, RestoreKeeps
  <1> QED
    BY <1>6, <1>7

\* Every other step leaves the page, or shows no week.
LEMMA PageNext ==
  ASSUME ClientInv, [Next]_vars
  PROVE  OnPage' /\ ResultInv'
  <1>0. OnPage /\ ResultInv
    BY DEF ClientInv, OnPage
  <1>1. ASSUME UNCHANGED <<week, index, code, drafts>>
        PROVE  OnPage'
    BY <1>0, <1>1 DEF OnPage, PageInv, DraftsBelong, ShownIsStored, HasProblem
  <1>2. ASSUME UNCHANGED <<week, index, visible, run, response>>
        PROVE  ResultInv'
    BY <1>0, <1>2 DEF ResultInv, HasProblem
  <1>3. CASE Types
    <2>1. ResultInv'
      BY <1>2, <1>3 DEF Types, resultVars
    <2> QED
      BY <1>3, <2>1, TypesPage
  <1>4. CASE TypesEarly
    <2>1. ~HasProblem /\ code' = Loose
          /\ UNCHANGED <<week, index, drafts, visible, run, response>>
      BY <1>4 DEF TypesEarly, resultVars
    <2>2. Loose \in Text
      BY DEF Loose, Text
    <2> QED
      BY <1>0, <1>2, <2>1, <2>2 DEF OnPage, PageInv, DraftsBelong, ShownIsStored, HasProblem
  <1>5. ASSUME NEW i \in 1..2, SwitchProblem(i)
        PROVE  OnPage' /\ ResultInv'
    BY <1>5, SwitchPage DEF ResultInv
  <1>6. CASE ResetCode
    BY <1>6, ResetPage DEF ResetCode, CloseResult, ResultInv
  <1>7. ASSUME NEW r \in Past \cup {0}, Navigate(r)
        PROVE  OnPage' /\ ResultInv'
    <2>1. week' = NoWeek /\ ~HasProblem' /\ DOMAIN week'.versions = {}
      BY <1>7, NoProblemThen DEF Navigate, NoWeek
    <2> QED
      BY <1>0, <1>7, <2>1 DEF Navigate, OnPage, PageInv, DraftsBelong, ShownIsStored, ResultInv
  <1>8. CASE Reload
    BY <1>1, <1>2, <1>8 DEF Reload, pageVars, resultVars
  <1>9. CASE RunStarts
    <2>1. ResultInv'
      BY <1>9 DEF RunStarts, ResultInv, pageVars
    <2> QED
      BY <1>1, <1>9, <2>1 DEF RunStarts, pageVars
  <1>10. CASE ClosesPanel
    <2>1. ResultInv'
      BY <1>10 DEF ClosesPanel, CloseResult, ResultInv
    <2> QED
      BY <1>1, <1>10, <2>1 DEF ClosesPanel, pageVars
  <1>11. ASSUME NEW q \in BagToSet(loads), LoadServed(q) \/ LoadFails(q)
         PROVE  OnPage' /\ ResultInv'
    BY <1>1, <1>2, <1>11 DEF LoadServed, LoadFails, pageVars, resultVars
  <1>12. ASSUME NEW q \in BagToSet(loads), LoadArrives(q)
         PROVE  OnPage' /\ ResultInv'
    BY <1>12, ArrivesPage DEF ResultInv
  <1>13. CASE RunEnds
    <2>1. ResultInv'
      BY <1>0, <1>13 DEF RunEnds, ResultInv, HasProblem, pageVars
    <2> QED
      BY <1>1, <1>13, <2>1 DEF RunEnds, pageVars
  <1>14. CASE PollSends \/ PollServed \/ PollArrives \/ PollFails
    BY <1>1, <1>2, <1>14 DEF PollSends, PollServed, PollArrives, PollFails, pageVars, resultVars
  <1>15. CASE Publishes \/ Edits \/ UNCHANGED vars
    BY <1>1, <1>2, <1>15 DEF Publishes, Edits, UpsertProblem, ImportLegacy,
                    DeleteProblem, RollbackSnapshot, Leaves, Changes, vars, pageVars, resultVars
  <1> QED
    BY <1>3, <1>4, <1>5, <1>6, <1>7, <1>8, <1>9, <1>10, <1>11, <1>12, <1>13, <1>14, <1>15
    DEF Next, Student, Network

\* The page as it is opened.
LEMMA ClientInit == Init => ClientInv
  <1> SUFFICES ASSUME Init
               PROVE  ClientInv
    OBVIOUS
  <1>1. ServerInv
    <2>0. \A w \in Weeks : Created(w) \in States(0)
      BY DEF Created, States
    <2>1. version \in [Weeks -> States(0)]
      BY <2>0 DEF Init, States
    <2>2. past \in [Weeks -> SUBSET States(0)]
      BY <2>0, <2>1 DEF Init
    <2> QED
      BY <2>1, <2>2, StudentAssumption DEF Init, ServerInv
  <1>2. LoadsInv
    BY DEF Init, LoadsInv, SetToBag, BagToSet, Asked
  <1>3. NoText \in Text /\ Loose \in Text
    BY DEF NoText, Loose, Text
  <1>4. PageInv /\ DraftsBelong /\ ShownIsStored /\ ResultInv
    <2>1. week = NoWeek /\ ~HasProblem /\ DOMAIN week.versions = {}
      BY NoProblem DEF Init, NoWeek
    <2> QED
      BY <1>3, <2>1 DEF Init, PageInv, DraftsBelong, ShownIsStored, ResultInv
  <1> QED
    BY <1>1, <1>2, <1>4 DEF ClientInv

\* ClientInv is inductive for the specification.
LEMMA SpecClientInv == Spec => []ClientInv
  <1>1. ClientInv /\ [Next]_vars => ClientInv'
    BY ServerNext, LoadsNext, PageNext DEF ClientInv, OnPage
  <1> QED
    BY <1>1, ClientInit, PTL DEF Spec

(***************************************************************************)
(* Whatever arrives, in whatever order: a draft is only ever one of the    *)
(* problem and the version it is stored under.                             *)
(***************************************************************************)
THEOREM SpecDraftsBelong == Spec => []DraftsBelong
  BY SpecClientInv, PTL DEF ClientInv

(***************************************************************************)
(* The text in the editor of a shown problem is always in the store, so    *)
(* nothing that replaces the page loses it.                                *)
(***************************************************************************)
THEOREM SpecShownIsStored == Spec => []ShownIsStored
  BY SpecClientInv, PTL DEF ClientInv

(***************************************************************************)
(* A visible result is always that of the problem shown.                   *)
(***************************************************************************)
THEOREM SpecResultBelongs == Spec => []ResultBelongs
  <1>1. ClientInv => ResultBelongs
    BY DEF ClientInv, ResultInv, ResultBelongs
  <1> QED
    BY <1>1, SpecClientInv, PTL

-----------------------------------------------------------------------------
(* Types *)

BagTypes  == IsABag(loads) /\ BagToSet(loads) \subseteq Requests
PollTypes == poll \in Requests /\ newWeekAvailable \in BOOLEAN

PageTypes ==
    /\ week \in Contents /\ index \in 1..2
    /\ code \in Texts \cup {Loose} /\ drafts \in [Keys -> Texts \cup {NoText}]

ResultTypes ==
    /\ run \in (Weeks \X (1..2)) \cup {NoRun}
    /\ response \in (Weeks \X (1..2)) \cup {NoRun}
    /\ visible \in BOOLEAN

\* A bag with one more, or one less, is one.
LEMMA BagKeeps ==
  ASSUME NEW B, IsABag(B), NEW q
  PROVE  IsABag(B (+) SetToBag({q})) /\ IsABag(B (-) SetToBag({q}))
  <1> DEFINE one == SetToBag({q})
  <1>1. one = [e \in {q} |-> 1]
    BY DEF SetToBag
  <1>2. \A e \in DOMAIN B : B[e] \in Nat /\ B[e] > 0
    BY DEF IsABag
  <1> HIDE DEF one
  <1>3. IsABag(B (+) one)
    <2> DEFINE C == B (+) one
    <2>1. /\ C = [e \in DOMAIN C |-> C[e]] /\ DOMAIN C = DOMAIN B \cup {q}
          /\ \A e \in DOMAIN C : C[e] = (IF e \in DOMAIN B THEN B[e] ELSE 0)
                                           + (IF e = q THEN 1 ELSE 0)
      BY <1>1 DEF (+)
    <2> HIDE DEF C
    <2>2. \A e \in DOMAIN C : C[e] \in Nat /\ C[e] > 0
      BY <1>2, <2>1
    <2> QED
      BY <2>1, <2>2 DEF IsABag, C
  <1>4. IsABag(B (-) one)
    <2> DEFINE C == B (-) one
    <2>1. /\ C = [e \in DOMAIN C |-> C[e]] /\ DOMAIN C \subseteq DOMAIN B
          /\ \A e \in DOMAIN C : /\ C[e] > 0
                                 /\ C[e] = IF e = q THEN B[e] - 1 ELSE B[e]
      BY <1>1 DEF (-)
    <2> HIDE DEF C
    <2>2. \A e \in DOMAIN C : C[e] \in Nat /\ C[e] > 0
      BY <1>2, <2>1
    <2> QED
      BY <2>1, <2>2 DEF IsABag, C
  <1> QED
    BY <1>3, <1>4 DEF one

\* What the server answers for a week is one of the contents.
LEMMA ContentType ==
  ASSUME ServerInv, NEW w \in Weeks \cup {0}
  PROVE  Content(w) \in Contents
  <1>1. CASE w = 0
    BY <1>1 DEF Content, Contents
  <1>2. CASE w # 0
    <2> DEFINE P  == {r \in 1..2 : version[w][r] > 0}
               vs == [p \in P |-> version[w][p]]
    <2>1. w \in Weeks /\ Content(w) = [id |-> w, versions |-> vs]
      BY <1>2 DEF Content
    <2>2. vs \in [P -> 1..MaxVersion] /\ P \subseteq 1..2
      BY <2>1, Versions
    <2> HIDE DEF vs, P
    <2>3. vs \in Listings
      BY <2>2 DEF Listings
    <2> QED
      BY <2>1, <2>3 DEF Contents
  <1> QED
    BY <1>1, <1>2

\* A request that was sent, and one the server has answered.
LEMMA RequestTypes ==
  ASSUME ServerInv
  PROVE  /\ Idle \in Requests
         /\ \A r \in Past \cup {0} : Asked(r) \in Requests
         /\ \A q \in Requests : Served(q) \in Requests
  <1>1. NoWeek \in Contents
    BY DEF Contents
  <1>2. Idle \in Requests /\ \A r \in Past \cup {0} : Asked(r) \in Requests
    BY <1>1 DEF Idle, Asked, Requests
  <1>3. ASSUME NEW q \in Requests
        PROVE  Served(q) \in Requests
    <2> DEFINE w == IF q.of = 0 THEN current ELSE q.of
               c == Content(w)
    <2>1. w \in Weeks \cup {0}
      BY StudentAssumption DEF ServerInv, Requests
    <2>2. c \in Contents
      BY <2>1, ContentType
    <2>3. Served(q) = [q EXCEPT !.at = "served", !.answer = c]
      BY DEF Served
    <2> HIDE DEF c
    <2> QED
      BY <2>2, <2>3 DEF Requests
  <1> QED
    BY <1>2, <1>3

\* What is in flight stays a bag of requests, and the poll one.
LEMMA FlightNext ==
  ASSUME ClientInv, BagTypes, PollTypes, [Next]_vars
  PROVE  BagTypes' /\ PollTypes'
  <1>0. ServerInv /\ LoadsInv
    BY DEF ClientInv
  <1>1. ASSUME UNCHANGED loads
        PROVE  BagTypes'
    BY <1>1 DEF BagTypes
  <1>2. ASSUME UNCHANGED pollVars
        PROVE  PollTypes'
    BY <1>2 DEF PollTypes, pollVars
  <1>3. ASSUME NEW r \in Past \cup {0}, Load(r)
        PROVE  BagTypes'
    <2>1. Asked(r) \in Requests
      BY <1>0, RequestTypes
    <2>2. loads' = loads (+) SetToBag({Asked(r)})
      BY <1>3 DEF Load
    <2>3. IsABag(loads') /\ BagToSet(loads') = BagToSet(loads) \cup {Asked(r)}
      BY <2>2, BagKeeps, BagSets DEF BagTypes
    <2> QED
      BY <2>1, <2>3 DEF BagTypes
  <1>4. ASSUME NEW q \in BagToSet(loads), Ended(q)
        PROVE  BagTypes'
    BY <1>4, BagKeeps, BagSets DEF Ended, BagTypes
  <1>5. CASE Student
    <2>1. ASSUME NEW r \in Past \cup {0}, Navigate(r)
          PROVE  BagTypes' /\ PollTypes'
      BY <1>3, <2>1 DEF Navigate, PollTypes
    <2>2. CASE Reload
      BY <1>0, <1>3, <2>2 DEF Reload, LoadsInv, PollTypes
    <2>3. CASE Types \/ TypesEarly \/ ResetCode \/ RunStarts \/ ClosesPanel
      BY <1>1, <1>2, <2>3 DEF Types, TypesEarly, ResetCode, RunStarts, ClosesPanel
    <2>4. ASSUME NEW i \in 1..2, SwitchProblem(i)
          PROVE  BagTypes' /\ PollTypes'
      BY <1>1, <1>2, <2>4 DEF SwitchProblem
    <2> QED
      BY <1>5, <2>1, <2>2, <2>3, <2>4 DEF Student
  <1>6. ASSUME NEW q \in BagToSet(loads), LoadServed(q) \/ LoadArrives(q) \/ LoadFails(q)
        PROVE  BagTypes' /\ PollTypes'
    <2>1. CASE LoadArrives(q) \/ LoadFails(q)
      BY <1>2, <1>4, <2>1 DEF LoadArrives, LoadFails
    <2>2. CASE LoadServed(q)
      <3> DEFINE rest == loads (-) SetToBag({q})
      <3>1. loads' = rest (+) SetToBag({Served(q)}) /\ UNCHANGED pollVars
        BY <2>2 DEF LoadServed
      <3>2. IsABag(rest) /\ BagToSet(rest) \subseteq Requests /\ Served(q) \in Requests
        BY <1>0, BagKeeps, BagSets, RequestTypes DEF BagTypes
      <3> HIDE DEF rest
      <3>3. IsABag(loads') /\ BagToSet(loads') = BagToSet(rest) \cup {Served(q)}
        BY <3>1, <3>2, BagKeeps, BagSets
      <3> QED
        BY <1>2, <3>1, <3>2, <3>3 DEF BagTypes
    <2> QED
      BY <1>6, <2>1, <2>2
  <1>7. CASE RunEnds
    BY <1>1, <1>2, <1>7 DEF RunEnds
  <1>8. CASE PollSends \/ PollServed \/ PollArrives \/ PollFails
    BY <1>0, <1>1, <1>8, RequestTypes
    DEF PollSends, PollServed, PollArrives, PollFails, PollTypes
  <1>9. CASE Publishes \/ Edits \/ UNCHANGED vars
    BY <1>1, <1>2, <1>9 DEF Publishes, Edits, UpsertProblem, ImportLegacy,
                    DeleteProblem, RollbackSnapshot, Leaves, Changes, vars
  <1> QED
    BY <1>5, <1>6, <1>7, <1>8, <1>9 DEF Next, Network

\* The texts in the editor and in the store after restoreCode.
LEMMA RestoreTypes ==
  ASSUME PageTypes, NEW d \in [Keys -> Texts \cup {NoText}], NEW k \in Keys,
         NEW c \in Texts, Shows(d, k, c)
  PROVE  code' \in Texts \cup {Loose} /\ drafts' \in [Keys -> Texts \cup {NoText}]
  BY DEF Shows, Saved

\* What the store gives back under a key of it.
LEMMA StoredType ==
  ASSUME NEW d \in [Keys -> Texts \cup {NoText}], NEW k \in Keys
  PROVE  Stored(d, k) \in Texts /\ Template(k) \in Texts
  <1>1. Template(k) \in Texts
    BY StudentAssumption DEF Template, Texts
  <1> QED
    BY <1>1 DEF Stored

\* The page, its texts and its results keep their types.
LEMMA PageTypesNext ==
  ASSUME ClientInv, PageTypes, ResultTypes, BagTypes, [Next]_vars
  PROVE  PageTypes' /\ ResultTypes'
  <1>0. PageTypes /\ ResultTypes /\ MaxEvents \in Nat
    BY StudentAssumption
  <1>1. ASSUME UNCHANGED <<week, index, code, drafts>>
        PROVE  PageTypes'
    BY <1>1 DEF PageTypes
  <1>2. ASSUME UNCHANGED <<visible, run, response>>
        PROVE  ResultTypes'
    BY <1>2 DEF ResultTypes
  <1>3. ASSUME UNCHANGED run, CloseResult
        PROVE  ResultTypes'
    BY <1>3 DEF ResultTypes, CloseResult
  <1>4. CASE Types
    <2> DEFINE k == Key(week, index)
               c == [key |-> k, n |-> events']
    <2>1. /\ Shows(drafts, k, c) /\ UNCHANGED <<week, index>>
          /\ events' = events + 1 /\ events < MaxEvents
      BY <1>4 DEF Types, Event
    <2>2. k \in Keys
      BY <1>4, ShownKey DEF Types
    <2>3. events' \in 0..MaxEvents
      BY <1>0, <2>1 DEF ClientInv, ServerInv
    <2>4. c \in Texts
      BY <2>2, <2>3 DEF Texts
    <2> HIDE DEF c, k
    <2>5. code' \in Texts \cup {Loose} /\ drafts' \in [Keys -> Texts \cup {NoText}]
      BY <2>1, <2>2, <2>4, RestoreTypes DEF PageTypes
    <2>6. PageTypes'
      BY <2>1, <2>3, <2>5 DEF PageTypes
    <2> QED
      BY <1>2, <1>4, <2>6 DEF Types, resultVars
  <1>5. CASE TypesEarly
    BY <1>0, <1>2, <1>5 DEF PageTypes, TypesEarly, resultVars
  <1>6. ASSUME NEW i \in 1..2, SwitchProblem(i)
        PROVE  PageTypes' /\ ResultTypes'
    <2> DEFINE k == Key(week, index)
               d == Saved(drafts, k, code)
               j == Key(week, i)
    <2>1. /\ HasProblem /\ i \in DOMAIN week.versions /\ index' = i
          /\ RestoreCode(d, week, i) /\ UNCHANGED <<week, run>>
      BY <1>6 DEF SwitchProblem
    <2>2. k \in Keys /\ k # <<0, 0, 0>> /\ code.key = k
      BY <2>1, ShownKey
    <2>3. code # Loose
      BY <2>2 DEF Loose
    <2>4. d \in [Keys -> Texts \cup {NoText}]
      BY <2>2, <2>3 DEF PageTypes, Saved
    <2>5. IsWeek(week) /\ i \in DOMAIN week.versions
      BY <2>1, NoProblem DEF ClientInv, PageInv
    <2>6. j \in Keys
      BY <2>5, KeyType
    <2> HIDE DEF d, j, k
    <2>7. Shows(d, j, Stored(d, j)) /\ CloseResult
      BY <2>1 DEF RestoreCode, j
    <2>8. code' \in Texts \cup {Loose} /\ drafts' \in [Keys -> Texts \cup {NoText}]
      BY <2>4, <2>6, <2>7, StoredType, RestoreTypes
    <2> QED
      BY <1>3, <2>1, <2>7, <2>8 DEF PageTypes
  <1>7. CASE ResetCode
    <2> DEFINE k == Key(week, index)
               d == Saved(drafts, k, NoText)
    <2>1. /\ HasProblem /\ Shows(d, k, Template(k)) /\ CloseResult
          /\ UNCHANGED <<week, index, run>>
      BY <1>7 DEF ResetCode
    <2>2. k \in Keys
      BY <2>1, ShownKey
    <2>3. d \in [Keys -> Texts \cup {NoText}] /\ Template(k) \in Texts
      BY <2>2, StoredType DEF PageTypes, Saved
    <2> HIDE DEF d, k
    <2>4. code' \in Texts \cup {Loose} /\ drafts' \in [Keys -> Texts \cup {NoText}]
      BY <2>1, <2>2, <2>3, RestoreTypes
    <2> QED
      BY <1>3, <2>1, <2>4 DEF PageTypes
  <1>8. ASSUME NEW r \in Past \cup {0}, Navigate(r)
        PROVE  PageTypes' /\ ResultTypes'
    BY <1>0, <1>2, <1>8 DEF Navigate, PageTypes, Contents, resultVars
  <1>9. CASE Reload
    BY <1>1, <1>2, <1>9 DEF Reload, pageVars, resultVars
  <1>10. CASE RunStarts
    <2>1. week.id \in Weeks
      BY <1>10, NoProblem DEF RunStarts, ClientInv, PageInv, IsWeek
    <2>2. ResultTypes'
      BY <1>0, <1>10, <2>1 DEF RunStarts, ResultTypes, PageTypes
    <2> QED
      BY <1>1, <1>10, <2>2 DEF RunStarts, pageVars
  <1>11. CASE ClosesPanel
    BY <1>1, <1>3, <1>11 DEF ClosesPanel, pageVars
  <1>12. ASSUME NEW q \in BagToSet(loads), LoadServed(q) \/ LoadFails(q)
         PROVE  PageTypes' /\ ResultTypes'
    BY <1>1, <1>2, <1>12 DEF LoadServed, LoadFails, pageVars, resultVars
  <1>13. ASSUME NEW q \in BagToSet(loads), LoadArrives(q)
         PROVE  PageTypes' /\ ResultTypes'
    <2> DEFINE i == First(q.answer)
               j == Key(q.answer, i)
    <2>1. /\ week' = q.answer /\ index' = i /\ UNCHANGED run
          /\ q.answer \in Contents /\ (q.answer = NoWeek \/ IsWeek(q.answer))
      BY <1>13 DEF LoadArrives, BagTypes, Requests, ClientInv, LoadsInv
    <2>2. i \in 1..2
      BY <2>1, FirstProblem
    <2>3. CASE ~HasProblem'
      BY <1>0, <1>2, <1>13, <2>1, <2>2, <2>3 DEF LoadArrives, PageTypes
    <2>4. CASE HasProblem'
      <3>1. i \in DOMAIN q.answer.versions /\ IsWeek(q.answer)
        BY <2>1, <2>4, NoProblemThen DEF HasProblem
      <3>2. j \in Keys
        BY <3>1, KeyType
      <3>3. Shows(drafts, j, Stored(drafts, j)) /\ CloseResult
        BY <1>13, <2>4 DEF LoadArrives, RestoreCode
      <3> HIDE DEF i, j
      <3>4. code' \in Texts \cup {Loose} /\ drafts' \in [Keys -> Texts \cup {NoText}]
        BY <3>2, <3>3, StoredType, RestoreTypes DEF PageTypes
      <3> QED
        BY <1>3, <2>1, <2>2, <3>3, <3>4 DEF PageTypes
    <2> QED
      BY <2>3, <2>4
  <1>14. CASE RunEnds
    <2>1. ResultTypes'
      BY <1>0, <1>14 DEF RunEnds, ResultTypes
    <2> QED
      BY <1>1, <1>14, <2>1 DEF RunEnds, pageVars
  <1>15. CASE PollSends \/ PollServed \/ PollArrives \/ PollFails
    BY <1>1, <1>2, <1>15 DEF PollSends, PollServed, PollArrives, PollFails, pageVars, resultVars
  <1>16. CASE Publishes \/ Edits \/ UNCHANGED vars
    BY <1>1, <1>2, <1>16 DEF Publishes, Edits, UpsertProblem, ImportLegacy,
                    DeleteProblem, RollbackSnapshot, Leaves, Changes, vars, pageVars, resultVars
  <1> QED
    BY <1>4, <1>5, <1>6, <1>7, <1>8, <1>9, <1>10, <1>11, <1>12, <1>13, <1>14, <1>15, <1>16
    DEF Next, Student, Network

\* The types hold in the page as it is opened.
LEMMA TypesInit == Init => BagTypes /\ PollTypes /\ PageTypes /\ ResultTypes
  <1> SUFFICES ASSUME Init
               PROVE  BagTypes /\ PollTypes /\ PageTypes /\ ResultTypes
    OBVIOUS
  <1>1. ServerInv
    BY ClientInit DEF ClientInv
  <1>2. BagTypes
    <2>1. Asked(route) \in Requests
      BY <1>1, RequestTypes DEF Init
    <2> DEFINE q == Asked(route)
    <2>2. loads = [e \in {q} |-> 1]
      BY DEF Init, SetToBag
    <2> HIDE DEF q
    <2> QED
      BY <2>1, <2>2 DEF BagTypes, IsABag, BagToSet, q
  <1>3. PollTypes
    BY <1>1, RequestTypes DEF Init, PollTypes
  <1>4. PageTypes
    BY StudentAssumption DEF Init, PageTypes, Contents
  <1>5. ResultTypes
    BY DEF Init, ResultTypes
  <1> QED
    BY <1>2, <1>3, <1>4, <1>5

(***************************************************************************)
(* Every variable keeps its type: in particular whatever is in flight      *)
(* stays a bag of requests and answers, and the problem shown one of the   *)
(* week shown, for every number of events and calls under way.     *)
(***************************************************************************)
THEOREM SpecTypeOK == Spec => []TypeOK
  <1> DEFINE TypeInv == BagTypes /\ PollTypes /\ PageTypes /\ ResultTypes
  <1>1. Init => TypeInv
    BY TypesInit
  <1>2. ClientInv /\ TypeInv /\ [Next]_vars => TypeInv'
    BY FlightNext, PageTypesNext
  <1>3. ClientInv /\ TypeInv => TypeOK
    <2> SUFFICES ASSUME ClientInv, TypeInv
                 PROVE  TypeOK
      OBVIOUS
    <2>1. /\ version \in [Weeks -> [1..2 -> 0..MaxVersion]]
          /\ past \in [Weeks -> SUBSET [1..2 -> 0..MaxVersion]]
      <3>1. 0..(events + 2) \subseteq 0..MaxVersion
        BY StudentAssumption DEF ClientInv, ServerInv, MaxVersion
      <3>2. States(events) \subseteq [1..2 -> 0..MaxVersion]
        BY <3>1 DEF States
      <3>3. version \in [Weeks -> States(events)] /\ past \in [Weeks -> SUBSET States(events)]
        BY DEF ClientInv, ServerInv
      <3> QED
        BY <3>2, <3>3
    <2>2. index \in 1..2 /\ (DOMAIN week.versions # {} => HasProblem)
      BY DEF ClientInv, PageInv
    <2> QED
      BY <2>1, <2>2 DEF ClientInv, ServerInv, LoadsInv, BagTypes, PollTypes, PageTypes,
                        ResultTypes, TypeOK
  <1> HIDE DEF TypeInv
  <1> QED
    BY <1>1, <1>2, <1>3, SpecClientInv, PTL DEF Spec
=============================================================================
