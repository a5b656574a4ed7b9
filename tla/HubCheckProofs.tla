--------------------------- MODULE HubCheckProofs ---------------------------
(* Theorems about HubCheck: no check gives the same news again, and what the *)
(* news asked of the user stays an item, for any number of MRs, notes, steps *)
(* of people, failed checks and kills.                                       *)
EXTENDS HubCheck, FiniteSetTheorems, WellFoundedInduction, TLAPS

USE HubCheckAssumption

-----------------------------------------------------------------------------
(* The inductive invariant *)

Todos == {"review_requested", "mentioned"}
Kinds == Todos \union {"opened", "note", "reaction"}
AllAuthors == {"me", "person", "bot"}

Note == [by : {"me", "other"}, liked : BOOLEAN, done : BOOLEAN]
Mr == [state : {"none", "opened", "closed", "reopened"}, author : AllAuthors, updated : Nat,
       todo : Todos \union {"none", "done"}, notes : Seq(Note), aged : Nat]
EngineMr == [updated : Nat, last : Nat, own : Nat, open : SUBSET Nat, likes : SUBSET Nat]
EventType == [kind : Kinds, mr : Mrs, id : Nat, author : AllAuthors \union {"none"}]

\* An MR that is not open yet has nothing.
MrOK(m) == mr[m].state = "none" => mr[m].todo = "none" /\ mr[m].notes = <<>> /\ mr[m].aged = 0

TypeOK ==
    /\ mr \in [Mrs -> Mr]
    /\ \A m \in Mrs : MrOK(m)
    /\ tree \in [Mrs -> {"none", "open", "gone"}]
    /\ report \in SUBSET Mrs
    /\ DOMAIN saved.mrs \subseteq Mrs
    /\ \A m \in DOMAIN saved.mrs : saved.mrs[m] \in EngineMr
    /\ check = [at |-> check.at, skip |-> check.skip, todos |-> check.todos,
                opened |-> check.opened, mine |-> check.mine, watched |-> check.watched,
                notes |-> check.notes, read |-> check.read, likes |-> check.likes,
                events |-> check.events]
    /\ check.at \in {"idle", "lists", "details", "saved"}
    /\ told \in SUBSET [kind : Kinds, item : Mrs \X Nat]

IsTold(kind, m, i) == [kind |-> kind, item |-> <<m, i>>] \in told
HasNote(m, i) == i \in 1 .. Len(mr[m].notes)

\* What GitLab has of the news.
ToldOK ==
    \A m \in Mrs, i \in Nat :
        /\ \A kind \in Todos :
               IsTold(kind, m, i) => i = 0 /\ mr[m].todo \in {kind, "done"}
        /\ IsTold("note", m, i) =>
               HasNote(m, i) /\ mr[m].notes[i].by = "other" /\ mr[m].author # "me"
        /\ IsTold("reaction", m, i) => HasNote(m, i) /\ mr[m].notes[i].liked

\* A note asks nothing of the user any more.  This is for good.
Excused(m, i) ==
    Answered(m, i) \/ ~Watched(m, i) \/ mr[m].state # "opened" \/ tree[m] # "none"

\* The saved state has each news that still counts.
SavedOK ==
    /\ \A m \in Known :
        /\ saved.mrs[m].own # 0 =>
               HasNote(m, saved.mrs[m].own) /\ mr[m].notes[saved.mrs[m].own].by = "me"
        /\ \A i \in saved.mrs[m].open : HasNote(m, i)
    /\ \A m \in Mrs, i \in Nat :
        /\ \A kind \in Todos : IsTold(kind, m, i) => m \in saved.todos \/ mr[m].todo = "done"
        /\ IsTold("review_requested", m, i) /\ mr[m].author = "person" =>
               <<m, 0>> \in saved.present \/ mr[m].todo = "done"
        /\ IsTold("note", m, i) =>
               /\ m \in Known => i <= saved.mrs[m].last
               /\ \/ Excused(m, i)
                  \/ m \in Known /\ i \in saved.mrs[m].open /\ <<m, i>> \in saved.present
        /\ IsTold("reaction", m, i) =>
               m \notin Known \/ i \in saved.mrs[m].likes \/ i \notin MyNotes(m)

\* What the lists have, compared with GitLab and with the last check.
ListsOK ==
    /\ check.todos \in SUBSET (Mrs \X Todos)
    /\ check.opened \in SUBSET {m \in Mrs : mr[m].state # "none"}
    /\ check.mine \in SUBSET (Mrs \X Nat)
    /\ \A m \in Mrs, kind \in Todos :
           <<m, kind>> \in check.todos => mr[m].todo \in {kind, "done"}
    /\ \A m \in Mrs, i \in Nat : <<m, i>> \in check.mine => HasNote(m, i)
    /\ \A m \in Mrs, i \in Nat :
        /\ \A kind \in Todos : IsTold(kind, m, i) =>
               /\ mr[m].todo = "done" \/ <<m, kind>> \in check.todos
               /\ m \notin saved.todos => \A k \in Todos : <<m, k>> \notin check.todos
        /\ IsTold("note", m, i) /\ Watched(m, i) => \E j \in Nat : <<m, j>> \in check.mine
        /\ IsTold("reaction", m, i) =>
               /\ m \notin Known \/ i \in saved.mrs[m].likes \/ <<m, i>> \notin check.mine
               /\ <<m, i>> \in check.mine \/ i \notin MyNotes(m)
ListsRead == check.at \in {"lists", "details"} /\ check.mine # Unread

WatchedOK ==
    /\ check.mine # Unread
    /\ DOMAIN check.watched = {note[1] : note \in check.mine}
    /\ \A m \in DOMAIN check.watched :
        /\ check.watched[m].updated \in Nat
        /\ mr[m].state = "opened" => check.watched[m].open

NotesOK ==
    /\ DOMAIN check.notes = Changed
    /\ \A m \in Changed :
        /\ check.notes[m] \in Seq(Note)
        /\ \A i \in 1 .. Len(check.notes[m]) :
            /\ HasNote(m, i)
            /\ check.notes[m][i].by = mr[m].notes[i].by
            /\ check.notes[m][i].done => mr[m].notes[i].done
        /\ \A i \in Nat : IsTold("note", m, i) => i <= Len(check.notes[m])

LikesOK ==
    /\ check.likes \in SUBSET (Mrs \X Nat)
    /\ \A m \in Mrs, i \in Nat : <<m, i>> \in check.likes => HasNote(m, i) /\ mr[m].notes[i].liked
    /\ \A m \in OfOthers, i \in Nat :
           IsTold("reaction", m, i) /\ <<m, i>> \in check.mine => <<m, i>> \in check.likes

CheckOK ==
    /\ check.at = "lists" => ~check.read /\ check.likes = Unread
    /\ ListsRead => ListsOK
    /\ check.at = "details" => WatchedOK
    /\ check.at = "details" /\ check.read => NotesOK
    /\ check.at = "details" /\ check.likes # Unread => LikesOK

\* The events are news, with the author of their MR or with none.
EventsOK ==
    /\ check.at # "saved" => check.events = {}
    /\ check.events \in SUBSET EventType
    /\ \A e \in check.events :
        /\ [kind |-> e.kind, item |-> ItemOf(e)] \in told
        /\ e.author \in {"none", mr[e.mr].author} /\ mr[e.mr].state # "none"

NewsInv == TypeOK /\ ToldOK /\ SavedOK /\ CheckOK /\ EventsOK
HubInv == NewsInv /\ NoteStays /\ ReviewRequestStays

-----------------------------------------------------------------------------
(* The greatest number *)

\* The sets 0 .. x of a set of numbers have a least one.
LEMMA LeastExists ==
  ASSUME NEW S \in SUBSET Nat, S # {}
  PROVE  \E m \in S : \A y \in S : m <= y
  <1> DEFINE U == {0 .. x : x \in S}
             F == FiniteSubsetsOf(Nat)
             R == StrictSubsetOrdering(Nat)
  <1>1. IsWellFoundedOn(R, F)
    BY FS_StrictSubsetOrderingWellFounded
  <1>2. \A x \in S : 0 .. x \in F
    BY FS_Interval DEF FiniteSubsetsOf
  <1>3. U \subseteq F /\ U # {}
    <2>1. ASSUME NEW u \in U PROVE u \in F
      <3>1. PICK x \in S : u = 0 .. x
        OBVIOUS
      <3> QED
        BY <1>2, <3>1
    <2>2. PICK x \in S : TRUE
      OBVIOUS
    <2>3. (0 .. x) \in U
      OBVIOUS
    <2> QED
      BY <2>1, <2>3
  <1>4. PICK u \in U : \A v \in U : <<v, u>> \notin R
    <2> HIDE DEF U, R, F
    <2> QED
      BY <1>1, <1>3, WFMin
  <1>5. PICK m \in S : u = 0 .. m
    OBVIOUS
  <1>6. ASSUME NEW y \in S, y < m PROVE FALSE
    <2>1. (0 .. y) \in U
      OBVIOUS
    <2>2. (0 .. y) \subseteq 0 .. m /\ m \in 0 .. m /\ m \notin 0 .. y
      BY <1>6
    <2>3. <<0 .. y, 0 .. m>> \in R
      BY <2>2 DEF StrictSubsetOrdering
    <2> QED
      BY <1>4, <1>5, <2>1, <2>3
  <1> QED
    BY <1>6

\* Of the bounds of a set, the least is its greatest element.
LEMMA GreatestIs ==
  ASSUME NEW k \in Nat, NEW S \in SUBSET (0 .. k), S # {}
  PROVE  Greatest(S) \in S /\ \A y \in S : y <= Greatest(S)
  <1> DEFINE U == {u \in Nat : \A y \in S : y <= u}
  <1>1. k \in U /\ U \in SUBSET Nat
    OBVIOUS
  <1> HIDE DEF U
  <1>2. PICK n \in U : \A m \in U : n <= m
    BY <1>1, LeastExists
  <1>3. n \in Nat /\ \A y \in S : y <= n
    BY <1>2 DEF U
  <1>4. CASE n \in S
    BY <1>3, <1>4 DEF Greatest
  <1>5. CASE n \notin S
    <2>1. \A y \in S : y <= n - 1 /\ y \in Nat
      BY <1>3, <1>5
    <2>2. n - 1 \in Nat
      <3>1. PICK y \in S : TRUE
        OBVIOUS
      <3> QED
        BY <1>3, <2>1, <3>1
    <2>3. n - 1 \in U
      BY <2>1, <2>2 DEF U
    <2> QED
      BY <1>2, <1>3, <2>3
  <1> QED
    BY <1>4, <1>5

-----------------------------------------------------------------------------
(* GitLab only adds *)

\* What stays of an MR when people go on.
Later(a, b) ==
    /\ a.state # "none" => b.state # "none" /\ b.author = a.author
    /\ b.state = "opened" => a.state \in {"none", "opened"}
    /\ a.todo # "none" => b.todo \in {a.todo, "done"}
    /\ Len(a.notes) <= Len(b.notes)
    /\ \A i \in 1 .. Len(a.notes) :
        /\ b.notes[i].by = a.notes[i].by
        /\ a.notes[i].liked => b.notes[i].liked
        /\ a.notes[i].done => b.notes[i].done
    /\ a.aged <= b.aged

LEMMA LaterSame ==
  ASSUME NEW a \in Mr
  PROVE  Later(a, a)
  <1>1. PICK n \in Nat, g \in Nat : n = Len(a.notes) /\ g = a.aged
    BY DEF Mr
  <1>2. n <= n /\ g <= g
    OBVIOUS
  <1>3. Len(a.notes) <= Len(a.notes) /\ a.aged <= a.aged
    BY <1>1, <1>2
  <1> QED
    BY ZenonT(60), <1>3 DEF Later

GitLabLater ==
    /\ mr' \in [Mrs -> Mr]
    /\ \A m \in Mrs : MrOK(m)' /\ Later(mr[m], mr'[m])
    /\ UNCHANGED <<tree, report, saved, check, pend, told, lost>>

LEMMA PersonLater ==
  ASSUME TypeOK, NEW m \in Mrs, NEW new \in Mr, Person(m, new), Later(mr[m], new),
         new.state # "none"
  PROVE  GitLabLater
  <1>1. mr' = [mr EXCEPT ![m] = new] /\ UNCHANGED <<tree, report, saved, check, pend, told, lost>>
    BY DEF Person
  <1>2. \A l \in Mrs : mr[l] \in Mr /\ mr[l].notes \in Seq(Note) /\ mr[l].aged \in Nat
    BY DEF TypeOK, Mr
  <1>3. \A l \in Mrs : Later(mr[l], mr[l])
    BY <1>2 DEF Later, Mr
  <1> QED
    BY <1>1, <1>3 DEF GitLabLater, TypeOK, MrOK

\* A change of an MR leaves its other fields alone.
LEMMA TouchedIs ==
  ASSUME TypeOK, NEW m \in Mrs
  PROVE  /\ Touched(m) \in Mr
         /\ Touched(m).state = mr[m].state /\ Touched(m).todo = mr[m].todo
         /\ Touched(m).author = mr[m].author /\ Touched(m).notes = mr[m].notes
         /\ Touched(m).aged = mr[m].aged
  <1>1. mr[m] \in Mr
    BY DEF TypeOK
  <1>2. mr[m].updated + 1 \in Nat
    BY <1>1 DEF Mr
  <1>3. Touched(m) = [mr[m] EXCEPT !.updated = mr[m].updated + 1]
    BY <1>1 DEF Touched, Mr
  <1> QED
    BY <1>1, <1>2, <1>3 DEF Mr

LEMMA PeopleLater ==
  ASSUME TypeOK, NEW m \in Mrs, People(m)
  PROVE  GitLabLater
  <1>1. mr[m] \in Mr /\ mr[m].notes \in Seq(Note) /\ mr[m].aged \in Nat /\ MrOK(m)
    BY DEF TypeOK, Mr
  <1>2. \A i \in 1 .. Len(mr[m].notes) : mr[m].notes[i] \in Note
    BY <1>1
  <1>3. CASE \E author \in Authors : Opens(m, author)
    <2>1. PICK author \in Authors : Opens(m, author)
      BY <1>3
    <2>2. NewMr(author) \in Mr /\ NewMr(author).state # "none"
      <3>1. author \in AllAuthors /\ <<>> \in Seq(Note)
        BY <2>1 DEF AllAuthors
      <3> QED
        BY <3>1 DEF NewMr, NoMr, Mr
    <2>3. Later(mr[m], NewMr(author))
      BY <1>1, <2>1 DEF Opens, MrOK, Later, NewMr, NoMr
    <2> QED
      BY <2>1, <2>2, <2>3, PersonLater DEF Opens
  <1>4. CASE Closes(m)
    <2> DEFINE new == [Touched(m) EXCEPT !.state = "closed"]
    <2>1. new \in Mr /\ new.state = "closed" /\ mr[m].state # "none"
      BY <1>1, <1>4, TouchedIs DEF Closes, IsOpen, Mr
    <2>2. /\ new.notes = mr[m].notes /\ new.todo = mr[m].todo /\ new.author = mr[m].author
          /\ new.aged = mr[m].aged
      BY <1>1, TouchedIs DEF Mr
    <2>3. Later(mr[m], new)
      <3> HIDE DEF new
      <3> QED
        BY <1>1, <2>1, <2>2 DEF Later
    <2> QED
      BY <1>4, <2>1, <2>3, PersonLater DEF Closes
  <1>5. CASE Reopens(m)
    <2> DEFINE new == [Touched(m) EXCEPT !.state = "reopened"]
    <2>1. new \in Mr /\ new.state = "reopened" /\ mr[m].state # "none"
      BY <1>1, <1>5, TouchedIs DEF Reopens, Mr
    <2>2. /\ new.notes = mr[m].notes /\ new.todo = mr[m].todo /\ new.author = mr[m].author
          /\ new.aged = mr[m].aged
      BY <1>1, TouchedIs DEF Mr
    <2>3. Later(mr[m], new)
      <3> HIDE DEF new
      <3> QED
        BY <1>1, <2>1, <2>2 DEF Later
    <2> QED
      BY <1>5, <2>1, <2>3, PersonLater DEF Reopens
  <1>6. CASE DoesTodo(m)
    <2> DEFINE new == [mr[m] EXCEPT !.todo = "done"]
    <2>1. new \in Mr /\ new.state # "none" /\ Later(mr[m], new)
      BY <1>1, <1>6 DEF DoesTodo, Mr, Later, MrOK
    <2> QED
      BY <1>6, <2>1, PersonLater DEF DoesTodo
  <1>7. CASE \E action \in Todos : AddsTodo(m, action)
    <2>1. PICK action \in Todos : AddsTodo(m, action)
      BY <1>7
    <2> DEFINE new == [mr[m] EXCEPT !.todo = action]
    <2>2. new \in Mr /\ new.state # "none" /\ Later(mr[m], new)
      BY <1>1, <2>1 DEF AddsTodo, Mr, Later
    <2> QED
      BY <2>1, <2>2, PersonLater DEF AddsTodo
  <1>8. CASE \E by \in {"me", "other"} : Comments(m, by)
    <2>1. PICK by \in {"me", "other"} : Comments(m, by)
      BY <1>8
    <2> DEFINE more == Append(mr[m].notes, NewNote(by))
               new == [Touched(m) EXCEPT !.notes = more]
    <2>2. NewNote(by) \in Note
      BY DEF NewNote, Note
    <2>3. more \in Seq(Note) /\ Len(more) = Len(mr[m].notes) + 1
          /\ \A i \in 1 .. Len(mr[m].notes) : more[i] = mr[m].notes[i]
      BY <1>1, <2>2
    <2>4. new = [Touched(m) EXCEPT !.notes = more]
      OBVIOUS
    <2> HIDE DEF more
    <2>5. new \in Mr /\ new.state # "none" /\ Later(mr[m], new)
      <3>1. mr[m].state # "none"
        BY <2>1 DEF Comments
      <3>2. new \in Mr /\ new.notes = more /\ new.todo = mr[m].todo /\ new.author = mr[m].author
            /\ new.aged = mr[m].aged /\ new.state = mr[m].state
        <4> HIDE DEF new
        <4> QED
          BY <1>1, <2>3, <2>4, TouchedIs DEF Mr
      <3> HIDE DEF new
      <3> QED
        BY <1>1, <2>3, <3>1, <3>2 DEF Later
    <2>6. Person(m, new)
      BY <2>1, TouchedIs DEF Comments, more
    <2> QED
      BY <2>5, <2>6, PersonLater
  <1>9. CASE \E i \in DOMAIN mr[m].notes : Reacts(m, i) \/ Resolves(m, i) \/ Ages(m, i)
    <2>1. PICK i \in 1 .. Len(mr[m].notes) : Reacts(m, i) \/ Resolves(m, i) \/ Ages(m, i)
      BY <1>1, <1>9
    <2>2. mr[m].state # "none"
      BY <1>1, <2>1 DEF MrOK
    <2>3. CASE Reacts(m, i)
      <3> DEFINE note == [mr[m].notes[i] EXCEPT !.liked = TRUE]
                 more == [mr[m].notes EXCEPT ![i] = note]
                 new == [mr[m] EXCEPT !.notes[i].liked = TRUE]
      <3>1. more \in Seq(Note) /\ Len(more) = Len(mr[m].notes)
            /\ \A j \in 1 .. Len(mr[m].notes) :
                 /\ more[j].by = mr[m].notes[j].by
                 /\ mr[m].notes[j].liked => more[j].liked
                 /\ mr[m].notes[j].done => more[j].done
        <4>1. note \in Note /\ note.by = mr[m].notes[i].by
              /\ (mr[m].notes[i].liked => note.liked) /\ (mr[m].notes[i].done => note.done)
          BY <1>2, <2>1 DEF Note
        <4> HIDE DEF note
        <4> QED
          BY <1>1, <1>2, <2>1, <4>1
      <3>2. new = [mr[m] EXCEPT !.notes = more]
        BY <1>1, <2>1 DEF Mr
      <3> HIDE DEF more
      <3>3. new \in Mr /\ new.state # "none" /\ Later(mr[m], new)
        <4>1. new \in Mr /\ new.notes = more /\ new.todo = mr[m].todo /\ new.author = mr[m].author
              /\ new.aged = mr[m].aged /\ new.state = mr[m].state
          <5> HIDE DEF new
          <5> QED
            BY <1>1, <3>1, <3>2 DEF Mr
        <4> HIDE DEF new
        <4> QED
          BY <1>1, <2>2, <3>1, <4>1 DEF Later
      <3> QED
        BY <2>3, <3>3, PersonLater DEF Reacts
    <2>4. CASE Resolves(m, i)
      <3> DEFINE note == [mr[m].notes[i] EXCEPT !.done = TRUE]
                 more == [mr[m].notes EXCEPT ![i] = note]
                 new == [Touched(m) EXCEPT !.notes[i].done = TRUE]
      <3>1. more \in Seq(Note) /\ Len(more) = Len(mr[m].notes)
            /\ \A j \in 1 .. Len(mr[m].notes) :
                 /\ more[j].by = mr[m].notes[j].by
                 /\ mr[m].notes[j].liked => more[j].liked
                 /\ mr[m].notes[j].done => more[j].done
        <4>1. note \in Note /\ note.by = mr[m].notes[i].by
              /\ (mr[m].notes[i].liked => note.liked) /\ (mr[m].notes[i].done => note.done)
          BY <1>2, <2>1 DEF Note
        <4> HIDE DEF note
        <4> QED
          BY <1>1, <1>2, <2>1, <4>1
      <3>2. new = [Touched(m) EXCEPT !.notes = more]
        BY <1>1, <2>1, TouchedIs DEF Mr
      <3> HIDE DEF more
      <3>3. new \in Mr /\ new.state # "none" /\ Later(mr[m], new)
        <4>1. new \in Mr /\ new.notes = more /\ new.todo = mr[m].todo /\ new.author = mr[m].author
              /\ new.aged = mr[m].aged /\ new.state = mr[m].state
          <5> HIDE DEF new
          <5> QED
            BY <1>1, <3>1, <3>2, TouchedIs DEF Mr
        <4> HIDE DEF new
        <4> QED
          BY <1>1, <2>2, <3>1, <4>1 DEF Later
      <3> QED
        BY <2>4, <3>3, PersonLater DEF Resolves
    <2>5. CASE Ages(m, i)
      <3> DEFINE new == [mr[m] EXCEPT !.aged = i]
      <3>1. new \in Mr /\ new.state # "none" /\ Later(mr[m], new)
        BY <1>1, <2>1, <2>2, <2>5 DEF Ages, MyNotes, Mr, Later
      <3> QED
        BY <2>5, <3>1, PersonLater DEF Ages
    <2> QED
      BY <2>1, <2>3, <2>4, <2>5
  <1> QED
    BY <1>3, <1>4, <1>5, <1>6, <1>7, <1>8, <1>9 DEF People, Todos

\* The steps outside of the daemon.
Outside ==
    /\ TypeOK'
    /\ \A m \in Mrs : Later(mr[m], mr'[m]) /\ (tree[m] # "none" => tree'[m] # "none")
    /\ UNCHANGED <<saved, check, pend, told, lost>>

LEMMA PeopleOutside ==
  ASSUME TypeOK, NEW m \in Mrs, People(m) \/ Trees(m)
  PROVE  Outside
  <1>1. CASE People(m)
    BY <1>1, PeopleLater DEF Outside, TypeOK, GitLabLater
  <1>2. CASE Trees(m)
    <2>1. \A l \in Mrs : mr[l] \in Mr /\ mr[l].notes \in Seq(Note) /\ mr[l].aged \in Nat
      BY DEF TypeOK, Mr
    <2>2. \A l \in Mrs : Later(mr[l], mr[l])
      BY <2>1 DEF Later
    <2>3. UNCHANGED <<mr, saved, check, pend, told, lost>>
      BY <1>2 DEF Trees
    <2>4. tree' \in [Mrs -> {"none", "open", "gone"}] /\ report' \in SUBSET Mrs
          /\ \A l \in Mrs : tree[l] # "none" => tree'[l] # "none"
      BY <1>2 DEF Trees, TypeOK
    <2> QED
      BY <2>2, <2>3, <2>4 DEF Outside, TypeOK, MrOK
  <1> QED
    BY <1>1, <1>2

-----------------------------------------------------------------------------
(* The invariant in the steps of people *)

LEMMA NotesStay ==
  ASSUME TypeOK, Outside, NEW m \in Mrs, NEW i \in Nat, HasNote(m, i)
  PROVE  /\ HasNote(m, i)' /\ mr'[m].notes[i].by = mr[m].notes[i].by
         /\ mr[m].notes[i].liked => mr'[m].notes[i].liked
         /\ mr[m].notes[i].done => mr'[m].notes[i].done
  <1>1. mr[m].notes \in Seq(Note) /\ mr'[m].notes \in Seq(Note)
    BY DEF TypeOK, Outside, Mr
  <1> QED
    BY SMTT(60), <1>1 DEF Outside, Later, HasNote

LEMMA MyNotesStay ==
  ASSUME TypeOK, Outside, NEW m \in Mrs, NEW i \in Nat, HasNote(m, i), i \in MyNotes(m)'
  PROVE  i \in MyNotes(m)
  <1>1. mr[m].notes \in Seq(Note) /\ mr[m].aged \in Nat /\ mr'[m].aged \in Nat
    BY DEF TypeOK, Outside, Mr
  <1>2. i > mr'[m].aged /\ mr'[m].notes[i].by = "me"
    BY DEF MyNotes
  <1>3. mr[m].aged <= mr'[m].aged
    BY DEF Outside, Later
  <1> QED
    BY SMTT(60), <1>1, <1>2, <1>3, NotesStay DEF MyNotes, HasNote

LEMMA ExcuseStays ==
  ASSUME TypeOK, Outside, NEW m \in Mrs, NEW i \in Nat, HasNote(m, i)
  PROVE  /\ Watched(m, i)' => Watched(m, i)
         /\ Answered(m, i) => Answered(m, i)'
         /\ mr'[m].state = "opened" => mr[m].state = "opened"
         /\ Excused(m, i) => Excused(m, i)'
  <1>1. mr[m].notes \in Seq(Note) /\ mr'[m].notes \in Seq(Note)
    BY DEF TypeOK, Outside, Mr
  <1>2. mr[m].state # "none"
    BY <1>1 DEF TypeOK, MrOK, HasNote
  <1>3. mr'[m].state = "opened" => mr[m].state = "opened"
    BY <1>2 DEF Outside, Later
  <1>4. Watched(m, i)' => Watched(m, i)
    <2> SUFFICES ASSUME NEW j \in MyNotes(m)', j < i
                 PROVE  Watched(m, i)
      BY DEF Watched
    <2>1. j \in Nat /\ HasNote(m, j)
      BY <1>1 DEF MyNotes, HasNote
    <2> QED
      BY <2>1, MyNotesStay DEF Watched
  <1>5. Answered(m, i) => Answered(m, i)'
    <2>1. CASE \E j \in DOMAIN mr[m].notes : j > i /\ mr[m].notes[j].by = "me"
      <3>1. PICK j \in DOMAIN mr[m].notes : j > i /\ mr[m].notes[j].by = "me"
        BY <2>1
      <3>2. j \in Nat /\ HasNote(m, j)
        BY <1>1, <3>1 DEF HasNote
      <3>3. HasNote(m, j)' /\ mr'[m].notes[j].by = "me"
        BY <3>1, <3>2, NotesStay
      <3> QED
        BY <1>1, <3>1, <3>3 DEF Answered, HasNote
    <2>2. CASE mr[m].notes[i].liked \/ mr[m].notes[i].done
      BY <2>2, NotesStay DEF Answered
    <2> QED
      BY <2>1, <2>2 DEF Answered
  <1> QED
    BY <1>3, <1>4, <1>5 DEF Excused, Outside

LEMMA OutsideTold ==
  ASSUME TypeOK, ToldOK, Outside
  PROVE  ToldOK'
  <1> SUFFICES ASSUME NEW m \in Mrs, NEW i \in Nat
               PROVE  /\ \A kind \in Todos :
                           IsTold(kind, m, i) => i = 0 /\ mr'[m].todo \in {kind, "done"}
                      /\ IsTold("note", m, i) =>
                           HasNote(m, i)' /\ mr'[m].notes[i].by = "other" /\ mr'[m].author # "me"
                      /\ IsTold("reaction", m, i) => HasNote(m, i)' /\ mr'[m].notes[i].liked
    BY DEF ToldOK, IsTold, Outside
  <1>1. ASSUME NEW kind \in Todos, IsTold(kind, m, i)
        PROVE  i = 0 /\ mr'[m].todo \in {kind, "done"}
    <2>1. i = 0 /\ mr[m].todo \in {kind, "done"}
      BY <1>1 DEF ToldOK
    <2>2. kind \in {"review_requested", "mentioned"}
      BY <1>1 DEF Todos
    <2>3. mr[m].todo # "none"
      BY <2>1, <2>2
    <2> QED
      BY <2>1, <2>3 DEF Outside, Later
  <1>2. ASSUME IsTold("note", m, i)
        PROVE  HasNote(m, i)' /\ mr'[m].notes[i].by = "other" /\ mr'[m].author # "me"
    <2>1. HasNote(m, i) /\ mr[m].author # "me" /\ mr[m].notes[i].by = "other"
      BY <1>2 DEF ToldOK
    <2>2. mr[m].notes \in Seq(Note)
      BY DEF TypeOK, Mr
    <2>3. mr[m].state # "none"
      BY <2>1, <2>2 DEF TypeOK, MrOK, HasNote
    <2> QED
      BY <2>1, <2>3, NotesStay DEF Outside, Later
  <1>3. IsTold("reaction", m, i) => HasNote(m, i)' /\ mr'[m].notes[i].liked
    BY NotesStay DEF ToldOK
  <1> QED
    BY <1>1, <1>2, <1>3

LEMMA OutsideSaved ==
  ASSUME TypeOK, ToldOK, SavedOK, Outside
  PROVE  SavedOK'
  <1>1. UNCHANGED <<saved, told, Known>>
    BY DEF Outside, Known
  <1>2. ASSUME NEW m \in Known
        PROVE  /\ saved.mrs[m].own # 0 =>
                    HasNote(m, saved.mrs[m].own)' /\ mr'[m].notes[saved.mrs[m].own].by = "me"
               /\ \A i \in saved.mrs[m].open : HasNote(m, i)'
    <2>1. m \in Mrs /\ saved.mrs[m].own \in Nat /\ saved.mrs[m].open \subseteq Nat
      BY DEF TypeOK, Known, EngineMr
    <2>2. ASSUME NEW i \in saved.mrs[m].open PROVE HasNote(m, i)'
      <3>1. i \in Nat /\ HasNote(m, i)
        BY <2>1 DEF SavedOK
      <3>2. \A j \in Nat : HasNote(m, j) => HasNote(m, j)'
        BY <2>1, NotesStay
      <3> QED
        BY <3>1, <3>2
    <2>3. saved.mrs[m].own # 0 =>
              HasNote(m, saved.mrs[m].own)' /\ mr'[m].notes[saved.mrs[m].own].by = "me"
      <3>1. PICK own \in Nat : own = saved.mrs[m].own
        BY <2>1
      <3>2. own # 0 => HasNote(m, own) /\ mr[m].notes[own].by = "me"
        BY <3>1 DEF SavedOK
      <3>3. own # 0 => HasNote(m, own)' /\ mr'[m].notes[own].by = "me"
        BY <2>1, <3>2, NotesStay
      <3> QED
        BY <1>1, <3>1, <3>3 DEF HasNote
    <2> QED
      BY <2>2, <2>3
  <1>3. ASSUME NEW m \in Mrs, NEW i \in Nat, NEW kind \in Todos, IsTold(kind, m, i)
        PROVE  m \in saved.todos \/ mr'[m].todo = "done"
    BY <1>3 DEF SavedOK, Outside, Later
  <1>4. ASSUME NEW m \in Mrs, NEW i \in Nat, IsTold("review_requested", m, i),
               mr'[m].author = "person"
        PROVE  <<m, 0>> \in saved.present \/ mr'[m].todo = "done"
    <2>1. mr[m].todo # "none"
      BY <1>4 DEF ToldOK, Todos
    <2>2. mr[m].state # "none"
      BY <2>1 DEF TypeOK, MrOK
    <2> QED
      BY <1>4, <2>2 DEF SavedOK, Outside, Later
  <1>5. ASSUME NEW m \in Mrs, NEW i \in Nat, IsTold("note", m, i)
        PROVE  /\ m \in Known => i <= saved.mrs[m].last
               /\ \/ Excused(m, i)'
                  \/ m \in Known /\ i \in saved.mrs[m].open /\ <<m, i>> \in saved.present
    <2>1. HasNote(m, i)
      BY <1>5 DEF ToldOK
    <2> QED
      BY <1>5, <2>1, ExcuseStays DEF SavedOK
  <1>6. ASSUME NEW m \in Mrs, NEW i \in Nat, IsTold("reaction", m, i)
        PROVE  m \notin Known \/ i \in saved.mrs[m].likes \/ i \notin MyNotes(m)'
    <2>1. HasNote(m, i)
      BY <1>6 DEF ToldOK
    <2> QED
      BY <1>6, <2>1, MyNotesStay DEF SavedOK
  <1> QED
    BY <1>1, <1>2, <1>3, <1>4, <1>5, <1>6 DEF SavedOK, IsTold

LEMMA OutsideLists ==
  ASSUME TypeOK, ToldOK, ListsOK, Outside
  PROVE  ListsOK'
  <1>1. UNCHANGED <<saved, told, Known, check>>
    BY DEF Outside, Known
  <1>2. ASSUME NEW m \in Mrs, NEW kind \in Todos, <<m, kind>> \in check.todos
        PROVE  mr'[m].todo \in {kind, "done"}
    BY <1>2 DEF ListsOK, Outside, Later, Todos
  <1>7. check.opened \in SUBSET {m \in Mrs : mr'[m].state # "none"}
    BY DEF ListsOK, Outside, Later
  <1>3. ASSUME NEW m \in Mrs, NEW i \in Nat, <<m, i>> \in check.mine
        PROVE  HasNote(m, i)'
    BY <1>3, NotesStay DEF ListsOK
  <1>4. ASSUME NEW m \in Mrs, NEW i \in Nat, NEW kind \in Todos, IsTold(kind, m, i)
        PROVE  /\ mr'[m].todo = "done" \/ <<m, kind>> \in check.todos
               /\ m \notin saved.todos => \A k \in Todos : <<m, k>> \notin check.todos
    BY <1>4 DEF ListsOK, Outside, Later
  <1>5. ASSUME NEW m \in Mrs, NEW i \in Nat, IsTold("note", m, i), Watched(m, i)'
        PROVE  \E j \in Nat : <<m, j>> \in check.mine
    <2>1. HasNote(m, i)
      BY <1>5 DEF ToldOK
    <2> QED
      BY <1>5, <2>1, ExcuseStays DEF ListsOK
  <1>6. ASSUME NEW m \in Mrs, NEW i \in Nat, IsTold("reaction", m, i)
        PROVE  /\ m \notin Known \/ i \in saved.mrs[m].likes \/ <<m, i>> \notin check.mine
               /\ <<m, i>> \in check.mine \/ i \notin MyNotes(m)'
    <2>1. HasNote(m, i)
      BY <1>6 DEF ToldOK
    <2> QED
      BY <1>6, <2>1, MyNotesStay DEF ListsOK
  <1> QED
    BY <1>1, <1>2, <1>3, <1>4, <1>5, <1>6, <1>7 DEF ListsOK, IsTold

\* The MRs that the check knows of are open or were.
LEMMA WatchedIsThere ==
  ASSUME TypeOK, ListsOK, WatchedOK, NEW m \in DOMAIN check.watched
  PROVE  m \in Mrs /\ mr[m].state # "none"
  <1>1. PICK note \in check.mine : m = note[1]
    BY DEF WatchedOK
  <1>2. m \in Mrs /\ note[2] \in Nat /\ <<m, note[2]>> \in check.mine
    BY <1>1 DEF ListsOK
  <1>3. HasNote(m, note[2])
    BY <1>2 DEF ListsOK
  <1>4. mr[m].notes \in Seq(Note)
    BY <1>2 DEF TypeOK, Mr
  <1> QED
    BY <1>2, <1>3, <1>4 DEF TypeOK, MrOK, HasNote

LEMMA OutsideWatched ==
  ASSUME TypeOK, ListsOK, WatchedOK, Outside
  PROVE  /\ WatchedOK'
         /\ OfOthers' = OfOthers /\ OfOthers \subseteq Mrs
         /\ Changed' = Changed /\ Changed \subseteq OfOthers
  <1>1. UNCHANGED <<saved, check>>
    BY DEF Outside
  <1>2. \A m \in DOMAIN check.watched : /\ m \in Mrs /\ mr'[m].author = mr[m].author
                                        /\ mr'[m].state = "opened" => mr[m].state = "opened"
    BY WatchedIsThere DEF Outside, Later
  <1>3. OfOthers' = OfOthers /\ OfOthers \subseteq Mrs
    BY <1>1, <1>2 DEF OfOthers
  <1>4. Changed' = Changed /\ Changed \subseteq OfOthers
    BY <1>1, <1>3 DEF Changed, Known
  <1> QED
    BY <1>1, <1>2, <1>3, <1>4 DEF WatchedOK

LEMMA OutsideNotes ==
  ASSUME TypeOK, ListsOK, WatchedOK, NotesOK, Outside
  PROVE  NotesOK'
  <1>1. UNCHANGED <<saved, told, check>> /\ Changed' = Changed /\ Changed \subseteq Mrs
    BY OutsideWatched DEF Outside
  <1>2. ASSUME NEW m \in Changed, NEW i \in 1 .. Len(check.notes[m])
        PROVE  /\ HasNote(m, i)'
               /\ check.notes[m][i].by = mr'[m].notes[i].by
               /\ check.notes[m][i].done => mr'[m].notes[i].done
    BY <1>1, NotesStay DEF NotesOK
  <1> QED
    BY <1>1, <1>2 DEF NotesOK, IsTold

LEMMA OutsideLikes ==
  ASSUME TypeOK, ListsOK, WatchedOK, LikesOK, Outside
  PROVE  LikesOK'
  <1>1. UNCHANGED <<told, check>> /\ OfOthers' = OfOthers
    BY OutsideWatched DEF Outside
  <1>2. ASSUME NEW m \in Mrs, NEW i \in Nat, <<m, i>> \in check.likes
        PROVE  HasNote(m, i)' /\ mr'[m].notes[i].liked
    BY <1>2, NotesStay DEF LikesOK
  <1> QED
    BY <1>1, <1>2 DEF LikesOK, IsTold

LEMMA OutsideEvents ==
  ASSUME TypeOK, EventsOK, Outside
  PROVE  EventsOK'
  <1>1. UNCHANGED <<told, check>>
    BY DEF Outside
  <1>2. \A e \in check.events : e.mr \in Mrs /\ mr'[e.mr].author = mr[e.mr].author
                                /\ mr'[e.mr].state # "none"
    BY DEF EventsOK, EventType, Outside, Later
  <1> QED
    BY <1>1, <1>2 DEF EventsOK, ItemOf

LEMMA OutsideStays ==
  ASSUME TypeOK, ToldOK, NoteStays, ReviewRequestStays, Outside
  PROVE  NoteStays' /\ ReviewRequestStays'
  <1>1. UNCHANGED <<told, check, pend, lost, Kept>>
    BY DEF Outside, Kept
  <1>2. \A n \in told : /\ n.item[1] \in Mrs /\ n.item[2] \in Nat
                        /\ n = [kind |-> n.kind, item |-> <<n.item[1], n.item[2]>>]
    BY DEF TypeOK
  <1>3. ASSUME NEW n \in told, n.kind = "note", n.item \notin lost
        PROVE  n.item \in Kept \/ Excused(n.item[1], n.item[2])'
    <2>1. IsTold("note", n.item[1], n.item[2])
      BY <1>2, <1>3 DEF IsTold
    <2>2. HasNote(n.item[1], n.item[2])
      BY <1>2, <2>1 DEF ToldOK
    <2>3. n.item \in Kept \/ Excused(n.item[1], n.item[2])
      BY <1>3 DEF NoteStays, Excused
    <2> QED
      BY <1>2, <2>2, <2>3, ExcuseStays
  <1>4. ASSUME NEW n \in told, n.kind = "review_requested", mr'[n.item[1]].author = "person",
               n.item \notin lost
        PROVE  n.item \in Kept \/ mr'[n.item[1]].todo = "done" \/ tree'[n.item[1]] # "none"
    <2>1. IsTold("review_requested", n.item[1], n.item[2])
      BY <1>2, <1>4 DEF IsTold
    <2>2. mr[n.item[1]].todo # "none"
      BY <1>2, <2>1 DEF ToldOK, Todos
    <2>3. mr[n.item[1]].state # "none"
      BY <1>2, <2>2 DEF TypeOK, MrOK
    <2>4. mr[n.item[1]].author = "person"
      BY <1>2, <1>4, <2>3 DEF Outside, Later
    <2>5. n.item \in Kept \/ mr[n.item[1]].todo = "done" \/ tree[n.item[1]] # "none"
      BY <1>4, <2>4 DEF ReviewRequestStays
    <2> QED
      BY <1>2, <2>5 DEF Outside, Later
  <1>5. NoteStays'
    BY <1>1, <1>3 DEF NoteStays, Excused
  <1>6. ReviewRequestStays'
    BY <1>1, <1>4 DEF ReviewRequestStays
  <1> QED
    BY <1>5, <1>6

LEMMA OutsideInv ==
  ASSUME HubInv, Outside
  PROVE  HubInv'
  <1>1. check' = check /\ TypeOK'
    BY DEF Outside
  <1>2. CheckOK'
    BY <1>1, OutsideLists, OutsideWatched, OutsideNotes, OutsideLikes
       DEF HubInv, NewsInv, CheckOK, ListsRead, WatchedOK
  <1> QED
    BY <1>1, <1>2, OutsideTold, OutsideSaved, OutsideEvents, OutsideStays DEF HubInv, NewsInv

-----------------------------------------------------------------------------
(* The reads of a check *)

LEMMA SavedKeeps ==
  ASSUME SavedOK, UNCHANGED <<mr, tree, saved, told>>
  PROVE  SavedOK'
  BY DEF SavedOK, IsTold, HasNote, Known, Excused, Answered, Watched, MyNotes

\* A step of the check that gives no news yet.
LEMMA ReadsKeep ==
  ASSUME HubInv, NEW new, Reads(new), check.at # "saved",
         new = [at |-> new.at, skip |-> new.skip, todos |-> new.todos, opened |-> new.opened,
                mine |-> new.mine, watched |-> new.watched, notes |-> new.notes, read |-> new.read,
                likes |-> new.likes, events |-> {}],
         new.at \in {"lists", "details"}, CheckOK'
  PROVE  HubInv'
  <1>1. check' = new /\ check.events = {} /\ new.events = {}
    BY DEF Reads, HubInv, NewsInv, EventsOK
  <1>2. UNCHANGED <<mr, tree, report, saved, pend, told, lost>>
    BY DEF Reads, gitlab
  <1>3. TypeOK'
    BY <1>1, <1>2 DEF HubInv, NewsInv, TypeOK, MrOK
  <1>4. ToldOK' /\ SavedOK'
    <2>1. ToldOK'
      BY <1>2 DEF HubInv, NewsInv, ToldOK, IsTold, HasNote
    <2>2. SavedOK'
      BY <1>2, SavedKeeps DEF HubInv, NewsInv
    <2> QED
      BY <2>1, <2>2
  <1>5. EventsOK'
    BY <1>1, <1>3 DEF EventsOK, TypeOK
  <1>6. Kept' = Kept
    BY <1>1, <1>2 DEF Kept
  <1>7. NoteStays'
    BY <1>2, <1>6 DEF HubInv, NoteStays, Answered, Watched, MyNotes
  <1>8. ReviewRequestStays'
    BY <1>2, <1>6 DEF HubInv, ReviewRequestStays
  <1> QED
    BY <1>3, <1>4, <1>5, <1>7, <1>8 DEF HubInv, NewsInv

LEMMA ReadListsInv ==
  ASSUME HubInv, ReadLists
  PROVE  HubInv'
  <1> DEFINE new == [check EXCEPT
                !.todos = {<<m, mr[m].todo>> : m \in PendingTodos},
                !.opened = {m \in Mrs : IsOpen(m)},
                !.mine = UNION {{<<m, i>> : i \in MyNotes(m)} : m \in Mrs}]
  <1>1. check.at = "lists" /\ Reads(new)
    BY DEF ReadLists
  <1>2. /\ new = [check EXCEPT !.todos = new.todos, !.opened = new.opened, !.mine = new.mine]
        /\ new.todos = {<<m, mr[m].todo>> : m \in PendingTodos}
        /\ new.opened = {m \in Mrs : IsOpen(m)}
        /\ new.mine = UNION {{<<m, i>> : i \in MyNotes(m)} : m \in Mrs}
    BY DEF HubInv, NewsInv, TypeOK
  <1>3. check' = new /\ UNCHANGED <<mr, saved, told>>
    BY <1>1 DEF Reads, gitlab
  <1>4. check.events = {} /\ ~check.read /\ check.likes = Unread
    BY <1>1 DEF HubInv, NewsInv, EventsOK, CheckOK
  <1> HIDE DEF new
  <1>5. new = [at |-> "lists", skip |-> check.skip, todos |-> new.todos, opened |-> new.opened,
               mine |-> new.mine, watched |-> check.watched, notes |-> check.notes, read |-> check.read,
               likes |-> check.likes, events |-> {}]
    BY ZenonT(60), <1>1, <1>2, <1>4 DEF HubInv, NewsInv, TypeOK
  <1>6. \A m \in Mrs : \A i : i \in MyNotes(m) <=> HasNote(m, i) /\ i > mr[m].aged /\ mr[m].notes[i].by = "me"
    <2> TAKE m \in Mrs
    <2>1. DOMAIN mr[m].notes = 1 .. Len(mr[m].notes)
      BY DEF HubInv, NewsInv, TypeOK, Mr
    <2>2. MyNotes(m) = {i \in 1 .. Len(mr[m].notes) : i > mr[m].aged /\ mr[m].notes[i].by = "me"}
      BY <2>1 DEF MyNotes
    <2> QED
      BY <2>2, Zenon DEF HasNote
  <1>13. PICK mine : mine = new.mine /\ mine = UNION {{<<m, i>> : i \in MyNotes(m)} : m \in Mrs}
    BY <1>2
  <1>14. PICK todos : todos = new.todos /\ todos = {<<m, mr[m].todo>> : m \in PendingTodos}
    BY <1>2
  <1>7. \A m \in Mrs, i \in Nat : <<m, i>> \in mine <=> i \in MyNotes(m)
    <2>1. ASSUME NEW m \in Mrs, NEW i \in Nat, i \in MyNotes(m)
          PROVE  <<m, i>> \in mine
      <3>1. <<m, i>> \in {<<m, j>> : j \in MyNotes(m)}
        BY <2>1
      <3> QED
        BY <1>13, <3>1
    <2>2. ASSUME NEW m \in Mrs, NEW i \in Nat, <<m, i>> \in mine
          PROVE  i \in MyNotes(m)
      <3>1. PICK l \in Mrs : <<m, i>> \in {<<l, j>> : j \in MyNotes(l)}
        BY <1>13, <2>2
      <3>2. PICK j \in MyNotes(l) : <<m, i>> = <<l, j>>
        BY <3>1
      <3> QED
        BY <3>2
    <2> QED
      BY <2>1, <2>2
  <1>8. mine \in SUBSET (Mrs \X Nat)
    <2>1. ASSUME NEW x \in mine PROVE x \in Mrs \X Nat
      <3>1. PICK l \in Mrs : x \in {<<l, j>> : j \in MyNotes(l)}
        BY <1>13, <2>1
      <3>2. PICK j \in MyNotes(l) : x = <<l, j>>
        BY <3>1
      <3>3. j \in Nat
        BY <1>6 DEF HasNote
      <3> QED
        BY <3>2, <3>3
    <2> QED
      BY <2>1
  <1>9. \A m \in Mrs, kind \in Todos : <<m, kind>> \in todos <=> mr[m].todo = kind
    <2>1. ASSUME NEW m \in Mrs, NEW kind \in Todos, <<m, kind>> \in todos
          PROVE  mr[m].todo = kind
      <3>1. PICK l \in PendingTodos : <<m, kind>> = <<l, mr[l].todo>>
        BY <1>14, <2>1
      <3> QED
        BY <3>1
    <2>2. ASSUME NEW m \in Mrs, NEW kind \in Todos, mr[m].todo = kind
          PROVE  <<m, kind>> \in todos
      <3>1. m \in PendingTodos
        BY <2>2 DEF PendingTodos, Todos
      <3> QED
        BY <1>14, <2>2, <3>1
    <2> QED
      BY <2>1, <2>2
  <1>10. todos \in SUBSET (Mrs \X Todos)
    <2>1. ASSUME NEW x \in todos PROVE x \in Mrs \X Todos
      <3>1. PICK l \in PendingTodos : x = <<l, mr[l].todo>>
        BY <1>14, <2>1
      <3> QED
        BY <3>1 DEF PendingTodos, Todos
    <2> QED
      BY <2>1
  <1>11. ListsOK'
    <2>1. new.opened \in SUBSET {m \in Mrs : mr[m].state # "none"}
      BY <1>2 DEF IsOpen
    <2>2. ASSUME NEW m \in Mrs, NEW i \in Nat, NEW kind \in Todos, IsTold(kind, m, i)
          PROVE  /\ mr[m].todo = "done" \/ <<m, kind>> \in new.todos
                 /\ m \notin saved.todos => \A k \in Todos : <<m, k>> \notin new.todos
      <3>1. mr[m].todo \in {kind, "done"} /\ (m \in saved.todos \/ mr[m].todo = "done")
        BY <2>2 DEF HubInv, NewsInv, ToldOK, SavedOK
      <3> QED
        BY <1>9, <1>14, <3>1 DEF Todos
    <2>3. ASSUME NEW m \in Mrs, NEW i \in Nat, IsTold("note", m, i), Watched(m, i)
          PROVE  \E j \in Nat : <<m, j>> \in new.mine
      <3>1. PICK j \in MyNotes(m) : j < i
        BY <2>3 DEF Watched
      <3>2. j \in Nat
        BY <1>6 DEF HasNote
      <3> QED
        BY <1>7, <1>13, <3>2
    <2>4. ASSUME NEW m \in Mrs, NEW i \in Nat, IsTold("reaction", m, i)
          PROVE  /\ m \notin Known \/ i \in saved.mrs[m].likes \/ <<m, i>> \notin new.mine
                 /\ <<m, i>> \in new.mine \/ i \notin MyNotes(m)
      BY <1>7, <1>13, <2>4 DEF HubInv, NewsInv, SavedOK
    <2> QED
      BY ZenonT(60), <1>3, <1>6, <1>7, <1>8, <1>9, <1>10, <1>13, <1>14, <2>1, <2>2, <2>3, <2>4
         DEF ListsOK, IsTold, HasNote, Known, Watched, MyNotes, Todos
  <1>12. CheckOK'
    BY <1>3, <1>4, <1>5, <1>11 DEF CheckOK
  <1> QED
    BY <1>1, <1>5, <1>12, ReadsKeep

LEMMA ListsKeep ==
  ASSUME ListsOK, UNCHANGED <<mr, saved, told>>,
         check'.todos = check.todos, check'.opened = check.opened, check'.mine = check.mine
  PROVE  ListsOK'
  BY ZenonT(60) DEF ListsOK, IsTold, HasNote, Known, Watched, MyNotes

LEMMA ReadWatchedInv ==
  ASSUME HubInv, ReadWatched
  PROVE  HubInv'
  <1> DEFINE known == [m \in {note[1] : note \in check.mine} |->
                          [updated |-> mr[m].updated, open |-> IsOpen(m)]]
  <1>1. PICK w : w = known
    OBVIOUS
  <1>2. PICK new : new = [check EXCEPT !.at = "details", !.watched = w]
    OBVIOUS
  <1>3. check.at = "lists" /\ check.mine # Unread /\ Reads(new)
    BY <1>1, <1>2 DEF ReadWatched
  <1>4. check' = new /\ UNCHANGED <<mr, saved, told>>
    BY <1>3 DEF Reads, gitlab
  <1>5. check.events = {} /\ ~check.read /\ check.likes = Unread /\ ListsOK
    BY <1>3 DEF HubInv, NewsInv, EventsOK, CheckOK, ListsRead
  <1>6. new = [at |-> "details", skip |-> check.skip, todos |-> check.todos,
               opened |-> check.opened, mine |-> check.mine, watched |-> w, notes |-> check.notes,
               read |-> check.read, likes |-> check.likes, events |-> {}]
    BY <1>2, <1>5 DEF HubInv, NewsInv, TypeOK
  <1>7. ListsOK'
    BY <1>4, <1>5, <1>6, ListsKeep
  <1>8. /\ DOMAIN w = {note[1] : note \in check.mine}
        /\ \A m \in DOMAIN w : w[m].updated = mr[m].updated /\ w[m].open = IsOpen(m)
    BY <1>1
  <1>9. \A m \in DOMAIN w : m \in Mrs
    BY <1>5, <1>8 DEF ListsOK
  <1>10. \A m \in Mrs : mr[m].updated \in Nat
    BY DEF HubInv, NewsInv, TypeOK, Mr
  <1>11. WatchedOK'
    BY <1>3, <1>4, <1>6, <1>8, <1>9, <1>10 DEF WatchedOK, IsOpen
  <1>12. CheckOK'
    BY <1>4, <1>5, <1>6, <1>7, <1>11 DEF CheckOK
  <1> QED
    BY <1>3, <1>6, <1>12, ReadsKeep

\* The MRs of the lists stay those of the check.
LEMMA DetailsKeep ==
  ASSUME WatchedOK, UNCHANGED <<mr, saved>>,
         check'.mine = check.mine, check'.watched = check.watched
  PROVE  WatchedOK' /\ OfOthers' = OfOthers /\ Changed' = Changed
  BY DEF WatchedOK, OfOthers, Changed, Known

LEMMA ReadNotesInv ==
  ASSUME HubInv, ReadNotes
  PROVE  HubInv'
  <1>1. PICK notes : notes = [m \in Changed |-> mr[m].notes]
    OBVIOUS
  <1>2. PICK new : new = [check EXCEPT !.notes = notes, !.read = TRUE]
    OBVIOUS
  <1>3. check.at = "details" /\ ~check.read /\ Reads(new)
    BY <1>1, <1>2 DEF ReadNotes
  <1>4. check' = new /\ UNCHANGED <<mr, saved, told>>
    BY <1>3 DEF Reads, gitlab
  <1>5. check.events = {} /\ ListsOK /\ WatchedOK
    BY <1>3 DEF HubInv, NewsInv, EventsOK, CheckOK, ListsRead, WatchedOK
  <1>6. new = [at |-> "details", skip |-> check.skip, todos |-> check.todos,
               opened |-> check.opened, mine |-> check.mine, watched |-> check.watched,
               notes |-> notes, read |-> TRUE, likes |-> check.likes, events |-> {}]
    BY <1>2, <1>3, <1>5 DEF HubInv, NewsInv, TypeOK
  <1>7. ListsOK' /\ WatchedOK' /\ OfOthers' = OfOthers /\ Changed' = Changed
    BY <1>4, <1>5, <1>6, ListsKeep, DetailsKeep
  <1>8. \A m \in Changed : m \in Mrs
    BY <1>5, WatchedIsThere DEF Changed, OfOthers, HubInv, NewsInv
  <1>9. NotesOK'
    <2>1. ASSUME NEW m \in Changed
          PROVE  /\ notes[m] \in Seq(Note)
                 /\ \A i \in 1 .. Len(notes[m]) :
                     /\ HasNote(m, i)
                     /\ notes[m][i].by = mr[m].notes[i].by
                     /\ notes[m][i].done => mr[m].notes[i].done
                 /\ \A i \in Nat : IsTold("note", m, i) => i <= Len(notes[m])
      <3>1. m \in Mrs /\ notes[m] = mr[m].notes
        BY <1>1, <1>8
      <3>2. mr[m].notes \in Seq(Note)
        BY <3>1 DEF HubInv, NewsInv, TypeOK, Mr
      <3>3. \A i \in Nat : IsTold("note", m, i) => i \in 1 .. Len(mr[m].notes)
        BY <3>1 DEF HubInv, NewsInv, ToldOK, HasNote
      <3> QED
        BY <3>1, <3>2, <3>3 DEF HasNote
    <2>2. DOMAIN notes = Changed
      BY <1>1
    <2> QED
      BY <1>4, <1>6, <1>7, <2>1, <2>2 DEF NotesOK, IsTold, HasNote
  <1>10. LikesOK => LikesOK'
    BY <1>4, <1>6, <1>7 DEF LikesOK, IsTold, HasNote
  <1>11. CheckOK'
    BY <1>3, <1>4, <1>5, <1>6, <1>7, <1>9, <1>10 DEF CheckOK, HubInv, NewsInv
  <1> QED
    BY <1>3, <1>6, <1>11, ReadsKeep

LEMMA ReadReactionsInv ==
  ASSUME HubInv, ReadReactions
  PROVE  HubInv'
  <1> DEFINE opens == UNION {{<<m, i>> : i \in saved.mrs[m].open} : m \in OfOthers \intersect Known}
             asked == {note \in check.mine : note[1] \in OfOthers} \union opens
  <1>1. PICK likes : likes = {n \in asked : mr[n[1]].notes[n[2]].liked}
    OBVIOUS
  <1>2. PICK new : new = [check EXCEPT !.likes = likes]
    OBVIOUS
  <1>3. check.at = "details" /\ Reads(new)
    BY <1>1, <1>2 DEF ReadReactions
  <1>4. check' = new /\ UNCHANGED <<mr, saved, told>>
    BY <1>3 DEF Reads, gitlab
  <1>5. check.events = {} /\ ListsOK /\ WatchedOK
    BY <1>3 DEF HubInv, NewsInv, EventsOK, CheckOK, ListsRead, WatchedOK
  <1>6. new = [at |-> "details", skip |-> check.skip, todos |-> check.todos,
               opened |-> check.opened, mine |-> check.mine, watched |-> check.watched,
               notes |-> check.notes, read |-> check.read, likes |-> likes, events |-> {}]
    BY <1>2, <1>3, <1>5 DEF HubInv, NewsInv, TypeOK
  <1>7. ListsOK' /\ WatchedOK' /\ OfOthers' = OfOthers /\ Changed' = Changed
    BY <1>4, <1>5, <1>6, ListsKeep, DetailsKeep
  <1>8. \A n \in opens : \E m \in Mrs, i \in Nat : n = <<m, i>> /\ HasNote(m, i)
    <2> TAKE n \in opens
    <2>1. PICK m \in OfOthers \intersect Known : n \in {<<m, i>> : i \in saved.mrs[m].open}
      OBVIOUS
    <2>2. PICK i \in saved.mrs[m].open : n = <<m, i>>
      BY <2>1
    <2>3. m \in Mrs /\ i \in Nat /\ HasNote(m, i)
      BY DEF HubInv, NewsInv, TypeOK, SavedOK, Known, EngineMr
    <2> QED
      BY <2>2, <2>3
  <1>9. \A n \in check.mine : \E m \in Mrs, i \in Nat : n = <<m, i>> /\ HasNote(m, i)
    <2> TAKE n \in check.mine
    <2>1. n \in Mrs \X Nat
      BY <1>5 DEF ListsOK
    <2>2. n = <<n[1], n[2]>> /\ n[1] \in Mrs /\ n[2] \in Nat
      BY <2>1
    <2> QED
      BY <1>5, <2>2 DEF ListsOK
  <1>10. likes \in SUBSET (Mrs \X Nat)
    BY <1>1, <1>8, <1>9
  <1>11. \A m \in Mrs, i \in Nat : <<m, i>> \in likes => HasNote(m, i) /\ mr[m].notes[i].liked
    BY <1>1, <1>8, <1>9
  <1>12. ASSUME NEW m \in OfOthers, NEW i \in Nat, IsTold("reaction", m, i), <<m, i>> \in check.mine
         PROVE  <<m, i>> \in likes
    <2>1. m \in Mrs
      BY <1>5, <1>12 DEF ListsOK
    <2>2. mr[m].notes[i].liked
      BY <1>12, <2>1 DEF HubInv, NewsInv, ToldOK
    <2> QED
      BY <1>1, <1>12, <2>2
  <1>13. LikesOK'
    BY <1>4, <1>6, <1>7, <1>10, <1>11, <1>12 DEF LikesOK, IsTold, HasNote
  <1>14. NotesOK => NotesOK'
    BY <1>4, <1>6, <1>7 DEF NotesOK, IsTold, HasNote
  <1>15. CheckOK'
    BY <1>3, <1>4, <1>5, <1>6, <1>7, <1>13, <1>14 DEF CheckOK, HubInv, NewsInv
  <1> QED
    BY <1>3, <1>6, <1>15, ReadsKeep

-----------------------------------------------------------------------------
(* A check begins, or ends without news *)

\* The check is over, or begins: it has read nothing.
LEMMA FreshKeeps ==
  ASSUME NewsInv, UNCHANGED <<mr, tree, report, saved, told>>,
         NEW begin \in {"idle", "lists"}, NEW skip,
         check' = [at |-> begin, skip |-> skip, todos |-> {}, opened |-> {}, mine |-> Unread,
                   watched |-> <<>>, notes |-> <<>>, read |-> FALSE, likes |-> Unread,
                   events |-> {}]
  PROVE  NewsInv' /\ check'.events = {}
  <1>1. /\ check'.at = begin /\ check'.mine = Unread /\ check'.read = FALSE
        /\ check'.likes = Unread /\ check'.events = {}
    OBVIOUS
  <1>2. TypeOK'
    BY DEF NewsInv, TypeOK, MrOK
  <1>3. ToldOK'
    BY DEF NewsInv, ToldOK, IsTold, HasNote
  <1>4. SavedOK'
    BY SavedKeeps DEF NewsInv
  <1>5. CheckOK'
    BY <1>1 DEF CheckOK, ListsRead
  <1>6. EventsOK'
    BY <1>1 DEF EventsOK
  <1> QED
    BY <1>1, <1>2, <1>3, <1>4, <1>5, <1>6 DEF NewsInv

LEMMA CheckFailsInv ==
  ASSUME HubInv, CheckFails
  PROVE  HubInv'
  <1>1. check' = [at |-> "idle", skip |-> {}, todos |-> {}, opened |-> {}, mine |-> Unread,
                  watched |-> <<>>, notes |-> <<>>, read |-> FALSE, likes |-> Unread,
                  events |-> {}]
    BY DEF CheckFails, NoCheck
  <1>2. check.events = {} /\ UNCHANGED <<mr, tree, report, saved, told, pend, lost>>
    BY DEF CheckFails, gitlab, HubInv, NewsInv, EventsOK
  <1>3. NewsInv' /\ check'.events = {}
    BY <1>1, <1>2, FreshKeeps DEF HubInv
  <1>4. Kept' = Kept
    BY <1>2, <1>3 DEF Kept
  <1>5. NoteStays'
    BY <1>2, <1>4 DEF HubInv, NoteStays, Answered, Watched, MyNotes
  <1>6. ReviewRequestStays'
    BY <1>2, <1>4 DEF HubInv, ReviewRequestStays
  <1> QED
    BY <1>3, <1>5, <1>6 DEF HubInv

LEMMA KillInv ==
  ASSUME HubInv, Kill
  PROVE  HubInv'
  <1>1. check' = [at |-> "idle", skip |-> {}, todos |-> {}, opened |-> {}, mine |-> Unread,
                  watched |-> <<>>, notes |-> <<>>, read |-> FALSE, likes |-> Unread,
                  events |-> {}]
    BY DEF Kill, NoCheck
  <1>2. UNCHANGED <<mr, tree, report, saved, told, pend>> /\ lost' = lost \union ItemsOf(check.events)
    BY DEF Kill, gitlab
  <1>3. NewsInv' /\ check'.events = {}
    BY <1>1, <1>2, FreshKeeps DEF HubInv
  <1>4. \A item : item \notin lost' /\ item \in Kept => item \in Kept'
    BY <1>2 DEF Kept
  <1>5. NoteStays'
    BY <1>2, <1>4 DEF HubInv, NoteStays, Answered, Watched, MyNotes
  <1>6. ReviewRequestStays'
    BY <1>2, <1>4 DEF HubInv, ReviewRequestStays
  <1> QED
    BY <1>3, <1>5, <1>6 DEF HubInv

\* Only an item of an MR with a worktree leaves for an agent.
LEMMA BeginInv ==
  ASSUME HubInv, NEW skip \in SUBSET Mrs, NEW moved \in SUBSET Mrs, Begin(skip, moved)
  PROVE  HubInv'
  <1>1. check' = [at |-> "lists", skip |-> skip, todos |-> {}, opened |-> {}, mine |-> Unread,
                  watched |-> <<>>, notes |-> <<>>, read |-> FALSE, likes |-> Unread,
                  events |-> {}]
    BY DEF Begin, NoCheck
  <1>2. check.events = {} /\ UNCHANGED <<mr, tree, report, saved, told, lost>>
    BY DEF Begin, gitlab, HubInv, NewsInv, EventsOK
  <1>3. NewsInv' /\ check'.events = {}
    BY <1>1, <1>2, FreshKeeps DEF HubInv
  <1>4. ASSUME NEW item \in Kept PROVE item \in Kept' \/ tree[item[1]] # "none"
    <2>1. item \in pend
      BY <1>2, <1>4 DEF Kept, ItemsOf
    <2>2. item[1] \in moved => tree[item[1]] = "open"
      BY DEF Begin
    <2>3. item[1] \notin moved => item \in pend'
      BY <2>1 DEF Begin
    <2> QED
      BY <2>2, <2>3 DEF Kept
  <1>5. NoteStays'
    BY <1>2, <1>4 DEF HubInv, NoteStays, Answered, Watched, MyNotes
  <1>6. ReviewRequestStays'
    BY <1>2, <1>4 DEF HubInv, ReviewRequestStays
  <1> QED
    BY <1>3, <1>5, <1>6 DEF HubInv

-----------------------------------------------------------------------------
(* The check compares *)

Details == check.at = "details" /\ check.read /\ check.likes # Unread

DetailsOK == Details /\ TypeOK /\ ToldOK /\ SavedOK /\ ListsOK /\ WatchedOK /\ NotesOK /\ LikesOK

LEMMA DetailsHold ==
  ASSUME NewsInv, Details
  PROVE  DetailsOK
  BY DEF NewsInv, CheckOK, Details, DetailsOK, ListsRead, WatchedOK

LEMMA OthersAre ==
  ASSUME DetailsOK, NEW m \in OfOthers
  PROVE  /\ m \in Mrs /\ mr[m] \in Mr /\ mr[m].state # "none" /\ mr[m].author # "me"
         /\ m \in Known => saved.mrs[m] \in EngineMr
         /\ OldMr(m) \in EngineMr
         /\ check.watched[m].updated \in Nat
  <1>1. m \in DOMAIN check.watched /\ mr[m].author # "me"
    BY DEF OfOthers
  <1>2. m \in Mrs /\ mr[m].state # "none"
    BY <1>1, WatchedIsThere DEF DetailsOK
  <1>3. m \in Known => saved.mrs[m] \in EngineMr
    BY DEF DetailsOK, TypeOK, Known
  <1>4. OldMr(m) \in EngineMr
    BY <1>3 DEF OldMr, Blank, EngineMr
  <1> QED
    BY <1>1, <1>2, <1>3, <1>4 DEF DetailsOK, TypeOK, WatchedOK

LEMMA FetchedIs ==
  ASSUME DetailsOK, NEW m \in OfOthers
  PROVE  /\ Fetched(m) \in Seq(Note) /\ DOMAIN Fetched(m) = 1 .. Len(Fetched(m))
         /\ \A i \in 1 .. Len(Fetched(m)) :
             /\ HasNote(m, i)
             /\ Fetched(m)[i].by = mr[m].notes[i].by
             /\ Fetched(m)[i].done => mr[m].notes[i].done
         /\ m \in Changed => \A i \in Nat : IsTold("note", m, i) => i <= Len(Fetched(m))
         /\ m \notin Changed => m \in Known
  <1>1. CASE m \in Changed
    <2>1. Fetched(m) = check.notes[m]
      BY <1>1 DEF DetailsOK, NotesOK, Fetched
    <2> QED
      BY <1>1, <2>1 DEF DetailsOK, NotesOK
  <1>2. CASE m \notin Changed
    <2>1. Fetched(m) = <<>>
      BY <1>2 DEF DetailsOK, NotesOK, Fetched
    <2> QED
      BY <1>2, <2>1 DEF Changed
  <1> QED
    BY <1>1, <1>2

LEMMA LastNoteIs ==
  ASSUME DetailsOK, NEW m \in OfOthers
  PROVE  /\ LastNote(m) \in Nat /\ OldMr(m).last <= LastNote(m)
         /\ \A i \in 1 .. Len(Fetched(m)) : i <= LastNote(m)
  <1> DEFINE S == {OldMr(m).last} \union DOMAIN Fetched(m)
  <1>1. OldMr(m).last \in Nat /\ Len(Fetched(m)) \in Nat /\ DOMAIN Fetched(m) = 1 .. Len(Fetched(m))
    BY OthersAre, FetchedIs DEF EngineMr
  <1>2. PICK k \in Nat : k = OldMr(m).last + Len(Fetched(m))
    BY <1>1
  <1>3. S \in SUBSET (0 .. k) /\ S # {}
    BY <1>1, <1>2
  <1>4. Greatest(S) \in S /\ \A y \in S : y <= Greatest(S)
    BY <1>3, GreatestIs
  <1>5. LastNote(m) = Greatest(S)
    BY DEF LastNote
  <1>6. OldMr(m).last \in S /\ \A i \in 1 .. Len(Fetched(m)) : i \in S
    BY <1>1
  <1>7. PICK last \in S : last = LastNote(m) /\ \A y \in S : y <= last
    BY <1>4, <1>5
  <1> HIDE DEF S
  <1>8. last \in Nat
    BY <1>3
  <1> QED
    BY <1>6, <1>7, <1>8

\* A note of the user.
LEMMA OwnNoteIs ==
  ASSUME DetailsOK, NEW m \in OfOthers
  PROVE  /\ OwnNote(m) \in Nat
         /\ OwnNote(m) # 0 => HasNote(m, OwnNote(m)) /\ mr[m].notes[OwnNote(m)].by = "me"
  <1> DEFINE S == {OldMr(m).own} \union {i \in DOMAIN Fetched(m) : Fetched(m)[i].by = "me"}
  <1>1. OldMr(m).own \in Nat /\ Len(Fetched(m)) \in Nat /\ DOMAIN Fetched(m) = 1 .. Len(Fetched(m))
    BY OthersAre, FetchedIs DEF EngineMr
  <1>2. PICK k \in Nat : k = OldMr(m).own + Len(Fetched(m))
    BY <1>1
  <1>3. S \in SUBSET (0 .. k) /\ S # {}
    BY <1>1, <1>2
  <1>4. Greatest(S) \in S
    BY <1>3, GreatestIs
  <1>5. PICK own : own = OwnNote(m) /\ own \in S
    BY <1>4 DEF OwnNote
  <1>6. own \in Nat
    BY <1>3, <1>5
  <1>7. CASE own = OldMr(m).own
    <2>1. own # 0 => m \in Known /\ own = saved.mrs[m].own
      BY <1>7 DEF OldMr, Blank
    <2> QED
      BY <1>5, <1>6, <2>1 DEF DetailsOK, SavedOK
  <1>8. CASE own \in 1 .. Len(Fetched(m)) /\ Fetched(m)[own].by = "me"
    <2>1. HasNote(m, own) /\ mr[m].notes[own].by = "me"
      BY <1>8, FetchedIs
    <2> QED
      BY <1>5, <1>6, <2>1
  <1> QED
    BY <1>1, <1>5, <1>7, <1>8

LEMMA NewNotesAre ==
  ASSUME DetailsOK, NEW m \in OfOthers, NEW i \in NewNotes(m)
  PROVE  /\ i \in Nat /\ i \in 1 .. Len(Fetched(m)) /\ HasNote(m, i)
         /\ mr[m].notes[i].by = "other"
         /\ m \in Known /\ i > saved.mrs[m].last
  <1>1. i \in 1 .. Len(Fetched(m)) /\ m \in Known /\ i > saved.mrs[m].last /\ Fetched(m)[i].by # "me"
    BY FetchedIs DEF NewNotes
  <1>2. HasNote(m, i) /\ Fetched(m)[i].by = mr[m].notes[i].by /\ Fetched(m)[i] \in Note
    BY <1>1, FetchedIs
  <1> QED
    BY <1>1, <1>2 DEF Note

LEMMA LikedIs ==
  ASSUME DetailsOK, NEW m \in Mrs, NEW i \in Liked(m)
  PROVE  i \in Nat /\ <<m, i>> \in check.likes /\ HasNote(m, i) /\ mr[m].notes[i].liked
  <1>1. PICK n \in check.likes : n[1] = m /\ i = n[2]
    BY DEF Liked
  <1>2. n \in Mrs \X Nat
    BY DEF DetailsOK, LikesOK
  <1>3. i \in Nat /\ n = <<m, i>>
    BY <1>1, <1>2
  <1> QED
    BY <1>1, <1>3 DEF DetailsOK, LikesOK

LEMMA LikedHas ==
  ASSUME NEW m \in Mrs, NEW i \in Nat, <<m, i>> \in check.likes
  PROVE  i \in Liked(m)
  <1>1. <<m, i>>[1] = m /\ <<m, i>>[2] = i
    OBVIOUS
  <1> QED
    BY <1>1 DEF Liked

LEMMA OldOpenIs ==
  ASSUME DetailsOK, NEW m \in OfOthers, NEW i \in OldMr(m).open
  PROVE  i \in Nat /\ HasNote(m, i) /\ m \in Known /\ i \in saved.mrs[m].open
  BY OthersAre DEF OldMr, Blank, DetailsOK, SavedOK, EngineMr

\* A note that the check may leave out has an answer.
LEMMA OpenNotesStay ==
  ASSUME DetailsOK, NEW m \in OfOthers, NEW i \in OldMr(m).open \union NewNotes(m),
         mr[m].notes[i].by = "other"
  PROVE  i \in OpenNotes(m) \/ Answered(m, i)
  <1>1. i \in Nat /\ HasNote(m, i)
    BY OldOpenIs, NewNotesAre
  <1>2. CASE ~(i > OwnNote(m))
    <2>1. PICK own \in Nat : own = OwnNote(m)
      BY OwnNoteIs
    <2>2. own >= i /\ own # 0
      BY <1>1, <1>2, <2>1 DEF HasNote
    <2>3. HasNote(m, own) /\ mr[m].notes[own].by = "me"
      BY <2>1, <2>2, OwnNoteIs
    <2>4. own > i
      BY <1>1, <2>2, <2>3
    <2>5. DOMAIN mr[m].notes = 1 .. Len(mr[m].notes)
      BY OthersAre DEF Mr
    <2> QED
      BY <2>3, <2>4, <2>5 DEF Answered, HasNote
  <1>3. CASE i \in OldMr(m).open /\ i \in Liked(m)
    BY <1>3, OthersAre, LikedIs DEF Answered
  <1>4. CASE i \in DOMAIN Fetched(m) /\ Fetched(m)[i].done
    BY <1>4, FetchedIs DEF Answered
  <1> QED
    BY <1>2, <1>3, <1>4 DEF OpenNotes

LEMMA OpenNotesAre ==
  ASSUME DetailsOK, NEW m \in OfOthers, NEW i \in OpenNotes(m)
  PROVE  i \in Nat /\ HasNote(m, i)
  BY OldOpenIs, NewNotesAre DEF OpenNotes

LEMMA MrStateIs ==
  ASSUME DetailsOK, NEW m \in OfOthers
  PROVE  /\ MrState(m) \in EngineMr
         /\ MrState(m).last = LastNote(m) /\ MrState(m).own = OwnNote(m)
         /\ MrState(m).open = OpenNotes(m) /\ MrState(m).likes = Reactions(m)
  <1>1. OpenNotes(m) \in SUBSET Nat
    BY OpenNotesAre
  <1>2. Reactions(m) \in SUBSET Nat
    BY OthersAre, LikedIs DEF Reactions
  <1>3. check.watched[m].updated \in Nat /\ LastNote(m) \in Nat /\ OwnNote(m) \in Nat
    BY OthersAre, LastNoteIs, OwnNoteIs
  <1> QED
    BY <1>1, <1>2, <1>3 DEF MrState, EngineMr

\* What an event of the news is.
FromTodo(e, anonymous) ==
    /\ e.kind \in Todos /\ e.mr \in Mrs /\ e.id = 0
    /\ <<e.mr, e.kind>> \in check.todos /\ e.mr \notin saved.todos
    /\ e.author \in {"none", mr[e.mr].author}
FromOpened(e) ==
    e.kind = "opened" /\ e.mr \in check.opened /\ e.id = 0 /\ e.author = mr[e.mr].author
FromNote(e) == e.kind = "note" /\ e.mr \in OfOthers /\ e.id \in NewNotes(e.mr) /\ e.author = "none"
FromLike(e) ==
    /\ e.kind = "reaction" /\ e.mr \in OfOthers \intersect Known /\ e.author = "none"
    /\ e.id \in Reactions(e.mr) /\ e.id \notin saved.mrs[e.mr].likes

LEMMA NewsIs ==
  ASSUME DetailsOK, NEW anonymous \in SUBSET Mrs, NEW e \in News(anonymous)
  PROVE  /\ FromTodo(e, anonymous) \/ FromOpened(e) \/ FromNote(e) \/ FromLike(e)
         /\ e = [kind |-> e.kind, mr |-> e.mr, id |-> e.id, author |-> e.author]
  <1> DEFINE todos == {Event(todo[2], todo[1], 0,
                             IF todo[1] \in anonymous THEN "none" ELSE mr[todo[1]].author) :
                         todo \in {todo \in OthersTodos(anonymous) : todo[1] \notin saved.todos}}
             opened == {Event("opened", m, 0, mr[m].author) : m \in OthersOpened \ saved.opened}
             notes == UNION {{Event("note", m, i, "none") : i \in NewNotes(m)} : m \in OfOthers}
             likes == UNION {{Event("reaction", m, i, "none") :
                                 i \in Reactions(m) \ saved.mrs[m].likes} : m \in OfOthers \intersect Known}
  <1>1. e \in todos \/ e \in opened \/ e \in notes \/ e \in likes
    <2>1. News(anonymous) = todos \union opened \union notes \union likes
      BY Zenon DEF News
    <2> HIDE DEF todos, opened, notes, likes
    <2> QED
      BY <2>1
  <1>2. CASE e \in todos
    <2>1. PICK todo \in OthersTodos(anonymous) :
              /\ todo[1] \notin saved.todos
              /\ e = Event(todo[2], todo[1], 0,
                           IF todo[1] \in anonymous THEN "none" ELSE mr[todo[1]].author)
      BY <1>2
    <2>2. todo \in check.todos /\ todo \in Mrs \X Todos
      BY DEF OthersTodos, DetailsOK, ListsOK
    <2>3. todo = <<todo[1], todo[2]>> /\ todo[1] \in Mrs /\ todo[2] \in Todos
      BY <2>2
    <2>4. e.kind = todo[2] /\ e.mr = todo[1] /\ e.id = 0 /\ e.author \in {"none", mr[todo[1]].author}
      BY <2>1 DEF Event
    <2>5. e = [kind |-> e.kind, mr |-> e.mr, id |-> e.id, author |-> e.author]
      BY <2>1 DEF Event
    <2> QED
      BY <2>1, <2>2, <2>3, <2>4, <2>5 DEF FromTodo
  <1>3. CASE e \in opened
    <2>1. PICK m \in OthersOpened : e = Event("opened", m, 0, mr[m].author)
      BY <1>3
    <2> QED
      BY <2>1 DEF Event, FromOpened, OthersOpened
  <1>4. CASE e \in notes
    <2>1. PICK m \in OfOthers : e \in {Event("note", m, i, "none") : i \in NewNotes(m)}
      BY <1>4
    <2>2. PICK i \in NewNotes(m) : e = Event("note", m, i, "none")
      BY <2>1
    <2> QED
      BY <2>2 DEF Event, FromNote
  <1>5. CASE e \in likes
    <2>1. PICK m \in OfOthers \intersect Known :
              e \in {Event("reaction", m, i, "none") : i \in Reactions(m) \ saved.mrs[m].likes}
      BY <1>5
    <2>2. PICK i \in Reactions(m) \ saved.mrs[m].likes : e = Event("reaction", m, i, "none")
      BY <2>1
    <2> QED
      BY <2>2 DEF Event, FromLike
  <1> QED
    BY <1>1, <1>2, <1>3, <1>4, <1>5

LEMMA NewsTyped ==
  ASSUME DetailsOK, NEW anonymous \in SUBSET Mrs, NEW e \in News(anonymous)
  PROVE  /\ e \in EventType
         /\ e.author \in {"none", mr[e.mr].author} /\ mr[e.mr].state # "none"
  <1>1. \A m \in Mrs : mr[m].author \in AllAuthors
    BY DEF DetailsOK, TypeOK, Mr
  <1>2. CASE FromTodo(e, anonymous)
    <2>1. e.mr \in Mrs /\ e.id = 0 /\ e.kind \in Kinds /\ e.author \in {"none", mr[e.mr].author}
      BY <1>2 DEF FromTodo, Kinds
    <2>2. mr[e.mr].todo # "none"
      BY <1>2 DEF FromTodo, DetailsOK, ListsOK, Todos
    <2>3. mr[e.mr].state # "none"
      BY <2>1, <2>2 DEF DetailsOK, TypeOK, MrOK
    <2> QED
      BY <1>1, <2>1, <2>3, NewsIs DEF EventType
  <1>3. CASE FromOpened(e)
    <2>1. e.mr \in Mrs /\ mr[e.mr].state # "none" /\ e.kind \in Kinds
      BY <1>3 DEF FromOpened, DetailsOK, ListsOK, Kinds
    <2> QED
      BY <1>1, <1>3, <2>1, NewsIs DEF EventType, FromOpened
  <1>4. CASE FromNote(e)
    <2>1. e.mr \in Mrs /\ mr[e.mr].state # "none" /\ e.id \in Nat /\ e.kind \in Kinds
      BY <1>4, OthersAre, NewNotesAre DEF FromNote, Kinds
    <2> QED
      BY <1>4, <2>1, NewsIs DEF EventType, FromNote
  <1>5. CASE FromLike(e)
    <2>1. e.mr \in Mrs /\ mr[e.mr].state # "none" /\ e.kind \in Kinds
      BY <1>5, OthersAre DEF FromLike, Kinds
    <2>2. e.id \in Nat
      BY <1>5, <2>1, LikedIs DEF FromLike, Reactions
    <2> QED
      BY <1>5, <2>1, <2>2, NewsIs DEF EventType, FromLike
  <1> QED
    BY <1>2, <1>3, <1>4, <1>5, NewsIs

\* A check gives a to-do, a note or a reaction once.
LEMMA NewsIsNew ==
  ASSUME DetailsOK, NEW anonymous \in SUBSET Mrs, NEW e \in News(anonymous), e.kind # "opened"
  PROVE  ~IsTold(e.kind, e.mr, e.id)
  <1>1. CASE FromTodo(e, anonymous)
    <2>1. e.mr \in Mrs /\ e.id \in Nat /\ e.kind \in Todos
      BY <1>1 DEF FromTodo
    <2> QED
      BY <1>1, <2>1 DEF FromTodo, DetailsOK, ListsOK
  <1>2. CASE FromNote(e)
    <2>1. e.mr \in Mrs /\ e.id \in Nat /\ e.mr \in Known /\ e.id > saved.mrs[e.mr].last
      BY <1>2, OthersAre, NewNotesAre DEF FromNote
    <2>2. saved.mrs[e.mr].last \in Nat
      BY <1>2, <2>1, OthersAre DEF FromNote, EngineMr
    <2>3. IsTold("note", e.mr, e.id) => e.id <= saved.mrs[e.mr].last
      BY <2>1 DEF DetailsOK, SavedOK
    <2> QED
      BY <1>2, <2>1, <2>2, <2>3 DEF FromNote
  <1>3. CASE FromLike(e)
    <2>1. e.mr \in Mrs
      BY <1>3, OthersAre DEF FromLike
    <2>2. e.id \in Nat
      BY <1>3, <2>1, LikedIs DEF FromLike, Reactions
    <2> QED
      BY <1>3, <2>1, <2>2 DEF FromLike, Reactions, DetailsOK, ListsOK
  <1> QED
    BY <1>1, <1>2, <1>3, NewsIs DEF FromOpened

-----------------------------------------------------------------------------
(* The save *)

ToldAs(e) == [kind |-> e.kind, item |-> ItemOf(e)]

\* A save tells the events of the news.
Saves(anonymous, events) ==
    /\ Details /\ anonymous \subseteq Mrs /\ events \subseteq News(anonymous)
    /\ saved' = NewState(anonymous)
    /\ check' = [at |-> "saved", skip |-> {}, todos |-> {}, opened |-> {}, mine |-> Unread,
                 watched |-> <<>>, notes |-> <<>>, read |-> FALSE, likes |-> Unread,
                 events |-> events]
    /\ told' = told \union {ToldAs(e) : e \in events}
    /\ UNCHANGED <<mr, tree, report, pend, lost>>

LEMMA SaveIs ==
  ASSUME SaveStep
  PROVE  \E anonymous, events : Saves(anonymous, events)
  <1>1. PICK anonymous \in SUBSET Mrs : Save(anonymous)
    BY DEF SaveStep
  <1>2. PICK events : events = IF saved.first THEN {} ELSE Unskipped(News(anonymous))
    OBVIOUS
  <1>3. events \subseteq News(anonymous)
    BY <1>2 DEF Unskipped
  <1>4. check' = [NoCheck EXCEPT !.at = "saved", !.events = events]
    BY <1>1, <1>2 DEF Save
  <1>5. told' = told \union {ToldAs(e) : e \in events}
    BY <1>1, <1>2 DEF Save, ToldAs
  <1> QED
    BY ZenonT(60), <1>1, <1>3, <1>4, <1>5 DEF Save, Saves, Details, NoCheck, gitlab

LEMMA SaveTold ==
  ASSUME DetailsOK, NEW anonymous, NEW events, Saves(anonymous, events),
         NEW m \in Mrs, NEW i \in Nat, NEW kind, IsTold(kind, m, i)'
  PROVE  \/ IsTold(kind, m, i)
         \/ \E e \in events : e.kind = kind /\ e.mr = m /\ e.id = i /\ e \in News(anonymous)
  <1>1. CASE [kind |-> kind, item |-> <<m, i>>] \in told
    BY <1>1 DEF IsTold
  <1>2. CASE [kind |-> kind, item |-> <<m, i>>] \notin told
    <2>1. PICK e \in events : [kind |-> kind, item |-> <<m, i>>] = ToldAs(e)
      BY <1>2 DEF IsTold, Saves
    <2>2. kind = e.kind /\ <<m, i>> = <<e.mr, e.id>>
      BY <2>1 DEF ToldAs, ItemOf
    <2> QED
      BY <2>1, <2>2 DEF Saves
  <1> QED
    BY <1>1, <1>2

LEMMA SaveToldOK ==
  ASSUME DetailsOK, NEW anonymous, NEW events, Saves(anonymous, events)
  PROVE  ToldOK'
  <1>1. mr' = mr /\ anonymous \in SUBSET Mrs
    BY DEF Saves
  <1>2. ASSUME NEW m \in Mrs, NEW i \in Nat, NEW kind \in Todos, IsTold(kind, m, i)'
        PROVE  i = 0 /\ mr[m].todo \in {kind, "done"}
    <2>1. CASE IsTold(kind, m, i)
      BY <2>1 DEF DetailsOK, ToldOK
    <2>2. ASSUME NEW e \in News(anonymous), e.kind = kind, e.mr = m, e.id = i
          PROVE  i = 0 /\ mr[m].todo \in {kind, "done"}
      <3>1. FromTodo(e, anonymous)
        BY <1>1, <2>2, NewsIs DEF FromOpened, FromNote, FromLike, Todos
      <3> QED
        BY <2>2, <3>1 DEF FromTodo, DetailsOK, ListsOK
    <2> QED
      BY SMTT(60), <1>2, <2>1, <2>2, SaveTold
  <1>3. ASSUME NEW m \in Mrs, NEW i \in Nat, IsTold("note", m, i)'
        PROVE  HasNote(m, i) /\ mr[m].notes[i].by = "other" /\ mr[m].author # "me"
    <2>1. CASE IsTold("note", m, i)
      BY <2>1 DEF DetailsOK, ToldOK
    <2>2. ASSUME NEW e \in News(anonymous), e.kind = "note", e.mr = m, e.id = i
          PROVE  HasNote(m, i) /\ mr[m].notes[i].by = "other" /\ mr[m].author # "me"
      <3>1. FromNote(e)
        BY <1>1, <2>2, NewsIs DEF FromOpened, FromTodo, FromLike, Todos
      <3> QED
        BY <2>2, <3>1, NewNotesAre, OthersAre DEF FromNote
    <2> QED
      BY <1>3, <2>1, <2>2, SaveTold
  <1>4. ASSUME NEW m \in Mrs, NEW i \in Nat, IsTold("reaction", m, i)'
        PROVE  HasNote(m, i) /\ mr[m].notes[i].liked
    <2>1. CASE IsTold("reaction", m, i)
      BY <2>1 DEF DetailsOK, ToldOK
    <2>2. ASSUME NEW e \in News(anonymous), e.kind = "reaction", e.mr = m, e.id = i
          PROVE  HasNote(m, i) /\ mr[m].notes[i].liked
      <3>1. FromLike(e)
        BY <1>1, <2>2, NewsIs DEF FromOpened, FromTodo, FromNote, Todos
      <3> QED
        BY <2>2, <3>1, LikedIs DEF FromLike, Reactions
    <2> QED
      BY <1>4, <2>1, <2>2, SaveTold
  <1> QED
    BY <1>1, <1>2, <1>3, <1>4 DEF ToldOK, HasNote

LEMMA NewStateIs ==
  ASSUME DetailsOK, NEW anonymous, NEW events, Saves(anonymous, events)
  PROVE  /\ saved'.todos = {todo[1] : todo \in check.todos}
         /\ DOMAIN saved'.mrs = OfOthers
         /\ \A m \in OfOthers :
              /\ saved'.mrs[m] = MrState(m)
              /\ check.watched[m].open => \A i \in OpenNotes(m) : <<m, i>> \in saved'.present
         /\ \A m \in Mrs, kind \in Todos :
              <<m, kind>> \in check.todos /\ mr[m].author # "me" => <<m, 0>> \in saved'.present
  <1>1. PICK present :
          present = {<<todo[1], 0>> : todo \in OthersTodos(anonymous)}
                    \union UNION {{<<m, i>> : i \in OpenNotes(m)} :
                                     m \in {m \in OfOthers : check.watched[m].open}}
    OBVIOUS
  <1>2. PICK states : states = [m \in OfOthers |-> MrState(m)]
    OBVIOUS
  <1>3. saved' = [first |-> FALSE, todos |-> {todo[1] : todo \in check.todos},
                  opened |-> OthersOpened, mrs |-> states, present |-> present]
    BY <1>1, <1>2 DEF Saves, NewState
  <1>4. ASSUME NEW m \in OfOthers, check.watched[m].open, NEW i \in OpenNotes(m)
        PROVE  <<m, i>> \in present
    <2>1. <<m, i>> \in {<<m, j>> : j \in OpenNotes(m)}
      OBVIOUS
    <2> QED
      BY <1>1, <1>4, <2>1
  <1>5. ASSUME NEW m \in Mrs, NEW kind \in Todos, <<m, kind>> \in check.todos, mr[m].author # "me"
        PROVE  <<m, 0>> \in present
    <2>1. <<m, kind>> \in OthersTodos(anonymous)
      BY <1>5 DEF OthersTodos
    <2>2. <<m, 0>> \in {<<todo[1], 0>> : todo \in OthersTodos(anonymous)}
      BY <2>1
    <2> QED
      BY <1>1, <2>2
  <1> QED
    BY <1>2, <1>3, <1>4, <1>5

\* A note that was told stays open in the new state.
LEMMA ToldNoteStays ==
  ASSUME DetailsOK, NEW anonymous, NEW events, Saves(anonymous, events),
         NEW m \in Mrs, NEW i \in Nat, IsTold("note", m, i)'
  PROVE  /\ m \in OfOthers => i <= LastNote(m)
         /\ Excused(m, i) \/ (m \in OfOthers /\ i \in OpenNotes(m) /\ <<m, i>> \in saved'.present)
  <1>1. HasNote(m, i) /\ mr[m].notes[i].by = "other"
    BY SaveToldOK DEF ToldOK, Saves, HasNote
  <1>2. ASSUME m \in OfOthers, i \in OldMr(m).open \union NewNotes(m)
        PROVE  Excused(m, i) \/ (i \in OpenNotes(m) /\ <<m, i>> \in saved'.present)
    <2>1. i \in OpenNotes(m) \/ Answered(m, i)
      BY <1>1, <1>2, OpenNotesStay
    <2>2. check.watched[m].open => (i \in OpenNotes(m) => <<m, i>> \in saved'.present)
      BY <1>2, NewStateIs
    <2>3. mr[m].state = "opened" => check.watched[m].open
      BY <1>2 DEF OfOthers, DetailsOK, WatchedOK
    <2> QED
      BY <2>1, <2>2, <2>3 DEF Excused
  <1>3. CASE IsTold("note", m, i)
    <2>1. ASSUME m \in OfOthers PROVE i <= LastNote(m)
      <3>1. CASE m \in Changed
        <4>1. i \in 1 .. Len(Fetched(m))
          BY <1>1, <1>3, <2>1, <3>1, FetchedIs DEF HasNote
        <4> QED
          BY <2>1, <4>1, LastNoteIs
      <3>2. CASE m \notin Changed
        <4>1. m \in Known /\ i <= saved.mrs[m].last
          BY <1>3, <2>1, <3>2, FetchedIs DEF DetailsOK, SavedOK
        <4>2. OldMr(m).last = saved.mrs[m].last /\ saved.mrs[m].last \in Nat
          BY <2>1, <4>1, OthersAre DEF OldMr, EngineMr
        <4>3. OldMr(m).last <= LastNote(m) /\ LastNote(m) \in Nat
          BY <2>1, LastNoteIs
        <4> QED
          BY <4>1, <4>2, <4>3
      <3> QED
        BY <3>1, <3>2
    <2>2. ASSUME ~Excused(m, i)
          PROVE  m \in OfOthers /\ i \in OldMr(m).open
      <3>1. m \in Known /\ i \in saved.mrs[m].open
        BY <1>3, <2>2 DEF DetailsOK, SavedOK
      <3>2. PICK j \in Nat : <<m, j>> \in check.mine
        BY <1>3, <2>2 DEF Excused, DetailsOK, ListsOK
      <3>3. m \in DOMAIN check.watched
        <4>1. <<m, j>>[1] = m
          OBVIOUS
        <4> QED
          BY <3>2, <4>1 DEF DetailsOK, WatchedOK
      <3>4. mr[m].author # "me"
        BY <1>3 DEF DetailsOK, ToldOK
      <3> QED
        BY <3>1, <3>3, <3>4 DEF OfOthers, OldMr
    <2> QED
      BY <1>2, <2>1, <2>2
  <1>4. ASSUME NEW e \in News(anonymous), e.kind = "note", e.mr = m, e.id = i
        PROVE  m \in OfOthers /\ i \in NewNotes(m) /\ i <= LastNote(m)
    <2>1. FromNote(e)
      BY <1>4, NewsIs DEF Saves, FromOpened, FromTodo, FromLike, Todos
    <2>2. m \in OfOthers /\ i \in NewNotes(m)
      BY <1>4, <2>1 DEF FromNote
    <2> QED
      BY <2>2, NewNotesAre, LastNoteIs
  <1>5. CASE ~IsTold("note", m, i)
    <2>1. PICK e \in News(anonymous) : e.kind = "note" /\ e.mr = m /\ e.id = i
      BY <1>5, SaveTold
    <2>2. m \in OfOthers /\ i \in NewNotes(m) /\ i <= LastNote(m)
      BY <1>4, <2>1
    <2> QED
      BY <1>2, <2>2
  <1> QED
    BY <1>2, <1>3, <1>5

LEMMA SaveSavedOK ==
  ASSUME DetailsOK, NEW anonymous, NEW events, Saves(anonymous, events)
  PROVE  SavedOK'
  <1>1. UNCHANGED <<mr, tree>> /\ Known' = OfOthers
    BY NewStateIs DEF Saves, Known
  <1>2. ASSUME NEW m \in OfOthers
        PROVE  /\ saved'.mrs[m].own # 0 =>
                    HasNote(m, saved'.mrs[m].own) /\ mr[m].notes[saved'.mrs[m].own].by = "me"
               /\ \A i \in saved'.mrs[m].open : HasNote(m, i)
    BY NewStateIs, MrStateIs, OwnNoteIs, OpenNotesAre
  <1>3. \A m \in Mrs, i \in Nat, kind \in Todos : IsTold(kind, m, i)' =>
            mr[m].todo = "done" \/ <<m, kind>> \in check.todos
    <2> TAKE m \in Mrs, i \in Nat, kind \in Todos
    <2> HAVE IsTold(kind, m, i)'
    <2>1. CASE IsTold(kind, m, i)
      BY <2>1 DEF DetailsOK, ListsOK
    <2>2. ASSUME NEW e \in News(anonymous), e.kind = kind, e.mr = m
          PROVE  <<m, kind>> \in check.todos
      BY <2>2, NewsIs DEF Saves, FromTodo, FromOpened, FromNote, FromLike, Todos
    <2> QED
      BY <2>1, <2>2, SaveTold
  <1>4. \A m \in Mrs, kind \in Todos : <<m, kind>> \in check.todos => m \in saved'.todos
    <2> TAKE m \in Mrs, kind \in Todos
    <2>1. <<m, kind>>[1] = m
      OBVIOUS
    <2> QED
      BY <2>1, NewStateIs
  <1>5. \A m \in Mrs, i \in Nat : IsTold("review_requested", m, i)' /\ mr[m].author = "person" =>
            <<m, 0>> \in saved'.present \/ mr[m].todo = "done"
    BY <1>3, NewStateIs DEF Todos
  <1>6. \A m \in Mrs, i \in Nat : IsTold("note", m, i)' =>
            /\ m \in OfOthers => i <= saved'.mrs[m].last
            /\ \/ Excused(m, i)
               \/ m \in OfOthers /\ i \in saved'.mrs[m].open /\ <<m, i>> \in saved'.present
    BY ToldNoteStays, NewStateIs, MrStateIs
  <1>7. \A m \in Mrs, i \in Nat : IsTold("reaction", m, i)' =>
            m \notin OfOthers \/ i \in saved'.mrs[m].likes \/ i \notin MyNotes(m)
    <2> TAKE m \in Mrs, i \in Nat
    <2> HAVE IsTold("reaction", m, i)'
    <2>1. ASSUME m \in OfOthers, i \in MyNotes(m) PROVE i \in Reactions(m)
      <3>1. CASE IsTold("reaction", m, i)
        <4>1. <<m, i>> \in check.mine
          BY <2>1, <3>1 DEF DetailsOK, ListsOK
        <4>2. <<m, i>> \in check.likes
          BY <2>1, <3>1, <4>1 DEF DetailsOK, LikesOK
        <4> QED
          BY <4>1, <4>2, LikedHas DEF Reactions
      <3>2. ASSUME NEW e \in News(anonymous), e.kind = "reaction", e.mr = m, e.id = i
            PROVE  i \in Reactions(m)
        BY <3>2, NewsIs DEF Saves, FromTodo, FromOpened, FromNote, FromLike, Todos
      <3> QED
        BY <3>1, <3>2, SaveTold
    <2> QED
      BY <2>1, NewStateIs, MrStateIs
  <1>8. \A m \in Mrs, i \in Nat, kind \in Todos :
            IsTold(kind, m, i)' => m \in saved'.todos \/ mr[m].todo = "done"
    BY <1>3, <1>4
  <1>9. /\ \A m \in Mrs, i \in Nat : Excused(m, i)' = Excused(m, i)
        /\ \A m \in Mrs : MyNotes(m)' = MyNotes(m)
    BY <1>1 DEF HasNote, Excused, Answered, Watched, MyNotes
  <1>10. (\A m \in Known :
            /\ saved.mrs[m].own # 0 =>
                   HasNote(m, saved.mrs[m].own) /\ mr[m].notes[saved.mrs[m].own].by = "me"
            /\ \A i \in saved.mrs[m].open : HasNote(m, i))'
    <2> SUFFICES ASSUME NEW m \in Known'
                 PROVE  /\ saved'.mrs[m].own # 0 =>
                             /\ saved'.mrs[m].own \in 1 .. Len(mr'[m].notes)
                             /\ mr'[m].notes[saved'.mrs[m].own].by = "me"
                        /\ \A i \in saved'.mrs[m].open : i \in 1 .. Len(mr'[m].notes)
      BY DEF HasNote
    <2>1. m \in OfOthers /\ mr' = mr
      BY <1>1
    <2>2. \A i : HasNote(m, i) <=> i \in 1 .. Len(mr'[m].notes)
      BY <2>1 DEF HasNote
    <2> QED
      BY <1>2, <2>1, <2>2
  <1>11. ASSUME NEW m \in Mrs, NEW i \in Nat
         PROVE  /\ \A kind \in Todos :
                       IsTold(kind, m, i)' => m \in saved'.todos \/ mr'[m].todo = "done"
                /\ IsTold("review_requested", m, i)' /\ mr'[m].author = "person" =>
                       <<m, 0>> \in saved'.present \/ mr'[m].todo = "done"
    BY <1>1, <1>5, <1>8
  <1>12. ASSUME NEW m \in Mrs, NEW i \in Nat
         PROVE  /\ IsTold("note", m, i)' =>
                       /\ m \in Known' => i <= saved'.mrs[m].last
                       /\ \/ Excused(m, i)'
                          \/ m \in Known' /\ i \in saved'.mrs[m].open /\ <<m, i>> \in saved'.present
                /\ IsTold("reaction", m, i)' =>
                       m \notin Known' \/ i \in saved'.mrs[m].likes \/ i \notin MyNotes(m)'
    BY <1>1, <1>6, <1>7, <1>9
  <1> QED
    BY <1>10, <1>11, <1>12 DEF SavedOK

LEMMA SaveInv ==
  ASSUME HubInv, SaveStep
  PROVE  HubInv'
  <1>1. PICK anonymous, events : Saves(anonymous, events)
    BY SaveIs
  <1>2. DetailsOK /\ UNCHANGED <<mr, tree, report, pend, lost>> /\ anonymous \in SUBSET Mrs
    BY <1>1, DetailsHold DEF HubInv, Saves
  <1>3. /\ check'.at = "saved" /\ check'.events = events /\ check'.read = FALSE
        /\ check'.likes = Unread /\ check'.mine = Unread
    BY <1>1 DEF Saves
  <1>4. \A e \in events : e \in EventType /\ e.author \in {"none", mr[e.mr].author}
                          /\ mr[e.mr].state # "none"
    BY <1>1, <1>2, NewsTyped DEF Saves
  <1>5. told' \in SUBSET [kind : Kinds, item : Mrs \X Nat]
    <2>1. \A e \in events : ToldAs(e) \in [kind : Kinds, item : Mrs \X Nat]
      BY <1>4 DEF EventType, ToldAs, ItemOf
    <2> QED
      BY <1>1, <1>2, <2>1 DEF Saves, DetailsOK, TypeOK
  <1>6. TypeOK'
    <2>1. \A m \in OfOthers : m \in Mrs /\ saved'.mrs[m] \in EngineMr
      BY <1>1, <1>2, NewStateIs, MrStateIs, OthersAre
    <2>2. check' = [at |-> "saved", skip |-> {}, todos |-> {}, opened |-> {}, mine |-> Unread,
                    watched |-> <<>>, notes |-> <<>>, read |-> FALSE, likes |-> Unread,
                    events |-> events]
      BY <1>1 DEF Saves
    <2>3. check' = [at |-> check'.at, skip |-> check'.skip, todos |-> check'.todos,
                    opened |-> check'.opened, mine |-> check'.mine, watched |-> check'.watched,
                    notes |-> check'.notes, read |-> check'.read, likes |-> check'.likes,
                    events |-> check'.events]
      BY <2>2
    <2>4. DOMAIN saved'.mrs = OfOthers
      BY <1>1, <1>2, NewStateIs
    <2> QED
      BY <1>2, <1>3, <1>5, <2>1, <2>3, <2>4 DEF DetailsOK, TypeOK, MrOK
  <1>7. CheckOK'
    BY <1>3 DEF CheckOK, ListsRead
  <1>8. EventsOK'
    <2>1. \A e \in events : [kind |-> e.kind, item |-> ItemOf(e)] \in told'
      BY <1>1 DEF Saves, ToldAs
    <2> QED
      BY <1>2, <1>3, <1>4, <2>1 DEF EventsOK, ItemOf
  <1>9. check.events = {}
    BY <1>1 DEF HubInv, NewsInv, EventsOK, Saves, Details
  <1>10. ASSUME NEW n \in told', n.kind \in {"note", "review_requested"}, n \notin told
         PROVE  n.item \in Kept'
    <2>1. PICK e \in events : n = ToldAs(e)
      BY <1>1, <1>10 DEF Saves
    <2>2. n.kind = e.kind /\ n.item = ItemOf(e)
      BY <2>1 DEF ToldAs
    <2>3. n.item \in ItemsOf(events)
      BY <1>10, <2>2 DEF ItemsOf
    <2> QED
      BY <1>3, <2>3 DEF Kept, ItemsOf, ItemOf
  <1>11. Kept \subseteq Kept'
    BY <1>2, <1>9 DEF Kept, ItemsOf
  <1>12. NoteStays'
    BY <1>2, <1>10, <1>11 DEF HubInv, NoteStays, Answered, Watched, MyNotes
  <1>13. ReviewRequestStays'
    BY <1>2, <1>10, <1>11 DEF HubInv, ReviewRequestStays
  <1> QED
    BY <1>1, <1>2, <1>6, <1>7, <1>8, <1>12, <1>13, SaveToldOK, SaveSavedOK DEF HubInv, NewsInv

LEMMA SaveToldOnce ==
  ASSUME NewsInv, SaveStep
  PROVE  \A e \in check'.events :
             e.kind # "opened" => [kind |-> e.kind, item |-> ItemOf(e)] \notin told
  <1>1. PICK anonymous, events : Saves(anonymous, events)
    BY SaveIs
  <1>2. DetailsOK /\ anonymous \in SUBSET Mrs /\ events \subseteq News(anonymous)
        /\ check'.events = events
    BY <1>1, DetailsHold DEF Saves
  <1> QED
    BY <1>2, NewsIsNew DEF IsTold, ItemOf

-----------------------------------------------------------------------------
(* The router *)

LEMMA EventsAre ==
  ASSUME NewsInv, NEW e \in check.events
  PROVE  /\ e \in EventType /\ e.mr \in Mrs /\ e.id \in Nat
         /\ IsTold(e.kind, e.mr, e.id)
         /\ e.author \in {"none", mr[e.mr].author}
  <1>1. e \in EventType
    BY DEF NewsInv, EventsOK
  <1>2. e.mr \in Mrs /\ e.id \in Nat
    BY <1>1 DEF EventType
  <1> QED
    BY <1>1, <1>2 DEF NewsInv, EventsOK, IsTold, ItemOf

LEMMA StartOfIs ==
  ASSUME NEW m, NEW e \in StartOf(m)
  PROVE  /\ e \in check.events /\ e.mr = m
         /\ e.kind = "opened" \/ e.id = 0 \/ e.kind = "review_requested"
         /\ ~IsBot(m) => e.kind = "review_requested" /\ AuthorOf(m) # {} /\ m \notin Reviewed
  BY DEF StartOf, EventsOf, IsReviewRequest

\* What leaves the items is a to-do: it starts an agent, or goes away for one.
LEMMA HandledIs ==
  ASSUME NewsInv, NEW ok \in SUBSET Round, NEW item \in ItemsOf(Handled(ok))
  PROVE  \E e \in check.events :
           /\ item = <<e.mr, 0>> /\ e.id = 0 /\ e.mr \in Mrs
           /\ \/ e \in StartOf(e.mr) /\ e.mr \in ok
              \/ e.kind \in Todos /\ e \notin StartOf(e.mr) /\ StartOf(e.mr) # {}
  <1>1. PICK e \in Handled(ok) : item = ItemOf(e) /\ e.kind \in {"review_requested", "mentioned", "note"}
    BY DEF ItemsOf
  <1>2. CASE e \in Agented(ok)
    <2>1. PICK m \in ok : e \in StartOf(m)
      BY <1>2 DEF Agented
    <2>2. e \in check.events /\ e.mr = m
      BY <2>1, StartOfIs
    <2>3. e.id = 0
      BY <1>1, <2>1, <2>2, StartOfIs, EventsAre DEF NewsInv, ToldOK, Todos
    <2> QED
      BY <1>1, <2>1, <2>2, <2>3, EventsAre DEF ItemOf
  <1>3. CASE e \notin Agented(ok)
    <2>1. PICK m \in Round : e \in Dismissed(m)
      BY <1>3 DEF Handled
    <2>2. e \in check.events /\ e.mr = m /\ e \notin StartOf(m) /\ e.kind \in Todos /\ StartOf(m) # {}
      BY <1>1, <2>1 DEF Dismissed, EventsOf, Todos
    <2>3. e.id = 0
      <3>1. e.mr \in Mrs /\ e.id \in Nat /\ IsTold(e.kind, e.mr, e.id)
        BY <2>2, EventsAre
      <3> QED
        BY <2>2, <3>1 DEF NewsInv, ToldOK
    <2> QED
      BY <1>1, <2>2, <2>3, EventsAre DEF ItemOf
  <1> QED
    BY <1>2, <1>3

\* The MR of a person is no bot's.
LEMMA PersonIsNoBot ==
  ASSUME NewsInv, NEW m \in Mrs, mr[m].author = "person"
  PROVE  ~IsBot(m)
  <1>1. \A e \in EventsOf(m) : e.author \in {"none", "person"}
    BY EventsAre DEF EventsOf
  <1>2. \A author \in AuthorOf(m) : author = "person"
    BY <1>1 DEF AuthorOf
  <1>3. "bot" \notin AuthorOf(m)
    BY <1>2
  <1> QED
    BY <1>3 DEF IsBot

LEMMA RouteInv ==
  ASSUME HubInv, NEW ok \in SUBSET Round, Route(ok)
  PROVE  HubInv'
  <1>1. UNCHANGED <<mr, report, saved, told, lost>> /\ check.at = "saved"
    BY DEF Route
  <1>2. check' = [at |-> "idle", skip |-> {}, todos |-> {}, opened |-> {}, mine |-> Unread,
                  watched |-> <<>>, notes |-> <<>>, read |-> FALSE, likes |-> Unread,
                  events |-> {}]
    BY DEF Route, NoCheck
  <1>3. /\ check'.at = "idle" /\ check'.mine = Unread /\ check'.read = FALSE
        /\ check'.likes = Unread /\ check'.events = {}
    BY <1>2
  <1>4. /\ tree' \in [Mrs -> {"none", "open", "gone"}]
        /\ \A m \in Mrs : tree[m] # "none" => tree'[m] # "none"
        /\ \A m \in Mrs : m \in ok => tree'[m] = "open"
    BY DEF Route, HubInv, NewsInv, TypeOK
  <1>5. \A m \in Mrs : \A i : Excused(m, i) => Excused(m, i)'
    BY <1>1, <1>4 DEF Excused, Answered, Watched, MyNotes
  <1>6. TypeOK'
    BY <1>1, <1>2, <1>4 DEF HubInv, NewsInv, TypeOK, MrOK
  <1>7. ToldOK'
    BY <1>1 DEF HubInv, NewsInv, ToldOK, IsTold, HasNote
  <1>8. SavedOK'
    BY ZenonT(60), <1>1, <1>5 DEF HubInv, NewsInv, SavedOK, IsTold, HasNote, Known, MyNotes
  <1>9. CheckOK' /\ EventsOK'
    <2>1. CheckOK'
      BY <1>3 DEF CheckOK, ListsRead
    <2>2. EventsOK'
      BY <1>3 DEF EventsOK
    <2> QED
      BY <2>1, <2>2
  <1>10. ASSUME NEW item \in Kept, item \in saved.present, item \notin ItemsOf(Handled(ok))
         PROVE  item \in Kept'
    <2>1. pend' = ((pend \union ItemsOf(check.events)) \ ItemsOf(Handled(ok))) \intersect saved.present
      BY DEF Route
    <2> QED
      BY <1>10, <2>1 DEF Kept
  <1>11. \A n \in told : /\ n.item[1] \in Mrs /\ n.item[2] \in Nat
                         /\ n.item = <<n.item[1], n.item[2]>>
                         /\ n = [kind |-> n.kind, item |-> <<n.item[1], n.item[2]>>]
    BY DEF HubInv, NewsInv, TypeOK
  <1>12. ASSUME NEW n \in told, n.kind = "note", n.item \notin lost
         PROVE  n.item \in Kept' \/ Excused(n.item[1], n.item[2])'
    <2>1. PICK m \in Mrs, i \in Nat : m = n.item[1] /\ i = n.item[2]
      BY <1>11
    <2>2. IsTold("note", m, i) /\ n.item = <<m, i>>
      BY <1>11, <1>12, <2>1 DEF IsTold
    <2>3. HasNote(m, i) /\ (Excused(m, i) \/ n.item \in saved.present)
      <3>1. HasNote(m, i)
        BY <2>2 DEF HubInv, NewsInv, ToldOK
      <3>2. Excused(m, i) \/ <<m, i>> \in saved.present
        BY <2>2 DEF HubInv, NewsInv, SavedOK
      <3> QED
        BY <2>2, <3>1, <3>2
    <2>4. Excused(m, i) \/ n.item \in Kept
      BY <1>12, <2>1 DEF HubInv, NoteStays, Excused
    <2>5. n.item \notin ItemsOf(Handled(ok))
      <3>1. i # 0
        BY <2>3 DEF HasNote
      <3> QED
        BY <2>2, <3>1, HandledIs DEF HubInv
    <2> QED
      BY <1>5, <1>10, <2>1, <2>3, <2>4, <2>5
  <1>13. ASSUME NEW n \in told, n.kind = "review_requested", mr[n.item[1]].author = "person",
                n.item \notin lost
         PROVE  n.item \in Kept' \/ mr[n.item[1]].todo = "done" \/ tree'[n.item[1]] # "none"
    <2>1. PICK m \in Mrs, i \in Nat : m = n.item[1] /\ i = n.item[2]
      BY <1>11
    <2>2. IsTold("review_requested", m, i) /\ n.item = <<m, i>>
      BY <1>11, <1>13, <2>1 DEF IsTold
    <2>3. i = 0 /\ mr[m].todo \in {"review_requested", "done"}
      BY <2>2 DEF HubInv, NewsInv, ToldOK, Todos
    <2>4. n.item \in saved.present \/ mr[m].todo = "done"
      BY <1>13, <2>1, <2>2, <2>3 DEF HubInv, NewsInv, SavedOK
    <2>5. n.item \in Kept \/ mr[m].todo = "done" \/ tree[m] # "none"
      BY <1>13, <2>1 DEF HubInv, ReviewRequestStays
    <2>6. ASSUME n.item \in ItemsOf(Handled(ok))
          PROVE  mr[m].todo = "done" \/ tree'[m] # "none"
      <3>1. PICK e \in check.events :
               /\ n.item = <<e.mr, 0>> /\ e.id = 0 /\ e.mr \in Mrs
               /\ \/ e \in StartOf(e.mr) /\ e.mr \in ok
                  \/ e.kind \in Todos /\ e \notin StartOf(e.mr) /\ StartOf(e.mr) # {}
        BY <2>6, HandledIs DEF HubInv
      <3>2. e.mr = m
        BY <2>1, <3>1
      <3>3. CASE e.mr \in ok
        BY <1>4, <3>2, <3>3
      <3>4. CASE e.kind \in Todos /\ e \notin StartOf(m) /\ StartOf(m) # {}
        <4>1. ~IsBot(m)
          BY <1>13, <2>1, PersonIsNoBot DEF HubInv
        <4>2. PICK x \in StartOf(m) : TRUE
          BY <3>4
        <4>3. AuthorOf(m) # {} /\ m \notin Reviewed
          BY <4>1, StartOfIs
        <4>4. e.kind # "review_requested"
          BY <3>2, <3>4, <4>1, <4>3 DEF StartOf, EventsOf, IsReviewRequest
        <4>5. mr[m].todo \in {"mentioned", "done"}
          <5>1. IsTold("mentioned", m, 0)
            BY <3>1, <3>2, <3>4, <4>4, EventsAre DEF HubInv, Todos
          <5> QED
            BY <5>1 DEF HubInv, NewsInv, ToldOK, Todos
        <4> QED
          BY <2>3, <4>5
      <3> QED
        BY <3>1, <3>2, <3>3, <3>4
    <2> QED
      BY <1>4, <1>10, <2>1, <2>4, <2>5, <2>6
  <1>14. NoteStays'
    BY <1>1, <1>12 DEF NoteStays, Excused
  <1>15. ReviewRequestStays'
    BY <1>1, <1>13 DEF ReviewRequestStays
  <1> QED
    BY <1>6, <1>7, <1>8, <1>9, <1>14, <1>15 DEF HubInv, NewsInv

-----------------------------------------------------------------------------
(* The theorems *)

LEMMA InitInv ==
  ASSUME Init
  PROVE  HubInv
  <1>1. \A m \in Mrs : mr[m] \in Mr /\ MrOK(m)
    <2> TAKE m \in Mrs
    <2>1. CASE mr[m] = NoMr
      <3>1. <<>> \in Seq(Note)
        OBVIOUS
      <3> QED
        BY <2>1, <3>1 DEF NoMr, Mr, MrOK, AllAuthors
    <2>2. CASE \E author \in Authors : mr[m] = [NewMr(author) EXCEPT !.notes = <<NewNote("me")>>]
      <3>1. PICK author \in AllAuthors : mr[m] = [NewMr(author) EXCEPT !.notes = <<NewNote("me")>>]
        BY <2>2 DEF AllAuthors
      <3>2. PICK note \in Note : note = NewNote("me")
        BY DEF NewNote, Note
      <3>3. <<note>> \in Seq(Note)
        OBVIOUS
      <3>4. PICK notes \in Seq(Note) : notes = <<NewNote("me")>>
        BY <3>2, <3>3
      <3>5. mr[m] = [state |-> "opened", author |-> author, updated |-> 1, todo |-> "none",
                     notes |-> notes, aged |-> 0]
        BY <3>1, <3>4 DEF NewMr, NoMr
      <3> QED
        BY <3>5 DEF Mr, MrOK
    <2> QED
      BY <2>1, <2>2 DEF Init
  <1>2. mr \in [Mrs -> Mr]
    BY <1>1 DEF Init
  <1>3. told = {} /\ check = NoCheck /\ saved = NoState /\ tree = [m \in Mrs |-> "none"]
        /\ report \in SUBSET Mrs
    BY DEF Init
  <1>4. Known = {}
    BY <1>3 DEF Known, NoState
  <1>5. TypeOK
    BY <1>1, <1>2, <1>3, <1>4 DEF TypeOK, NoCheck, Known
  <1>6. ToldOK /\ NoteStays /\ ReviewRequestStays
    BY <1>3 DEF ToldOK, IsTold, NoteStays, ReviewRequestStays
  <1>7. SavedOK
    BY <1>3, <1>4 DEF SavedOK, IsTold
  <1>8. CheckOK /\ EventsOK
    BY <1>3 DEF CheckOK, ListsRead, EventsOK, NoCheck
  <1> QED
    BY <1>5, <1>6, <1>7, <1>8 DEF HubInv, NewsInv

LEMMA StutterInv ==
  ASSUME HubInv, UNCHANGED vars
  PROVE  HubInv'
  <1>1. UNCHANGED <<mr, tree, report, saved, check, pend, told, lost>>
    BY DEF vars
  <1>2. \A m \in Mrs : mr[m].notes \in Seq(Note) /\ mr[m].aged \in Nat
    BY DEF HubInv, NewsInv, TypeOK, Mr
  <1>3. Outside
    <2>1. TypeOK'
      BY <1>1 DEF HubInv, NewsInv, TypeOK, MrOK
    <2>2. \A m \in Mrs : Later(mr[m], mr[m])
      BY LaterSame DEF HubInv, NewsInv, TypeOK
    <2> QED
      BY <1>1, <2>1, <2>2 DEF Outside
  <1> QED
    BY <1>3, OutsideInv

LEMMA NextInv ==
  ASSUME HubInv, [Next]_vars
  PROVE  HubInv'
  <1>1. CASE \E m \in Mrs : People(m) \/ Trees(m)
    BY <1>1, PeopleOutside, OutsideInv DEF HubInv, NewsInv
  <1>2. CASE \E skip, moved \in SUBSET Mrs : Begin(skip, moved)
    BY <1>2, BeginInv
  <1>3. CASE ReadLists \/ ReadWatched \/ ReadNotes \/ ReadReactions
    BY <1>3, ReadListsInv, ReadWatchedInv, ReadNotesInv, ReadReactionsInv
  <1>4. CASE SaveStep
    BY <1>4, SaveInv
  <1>5. CASE CheckFails \/ Kill
    BY <1>5, CheckFailsInv, KillInv
  <1>6. CASE \E ok \in SUBSET Round : Route(ok)
    BY <1>6, RouteInv
  <1>7. CASE UNCHANGED vars
    BY <1>7, StutterInv
  <1> QED
    BY <1>1, <1>2, <1>3, <1>4, <1>5, <1>6, <1>7 DEF Next

THEOREM HubInvariant == Spec => []HubInv
  BY InitInv, NextInv, PTL DEF Spec

\* A note of the news is a pending item, or in the hands of the check that found
\* it, until the user answers it or reacts to it, its thread is resolved, its MR
\* is closed or has a worktree, or a kill took it: hub_compare in engine/hub.rs,
\* with the items that the router leaves (W9.6).
THEOREM NoteAlwaysStays == Spec => []NoteStays
  BY HubInvariant, PTL DEF HubInv

\* A review request of a person stays an item until its to-do is done or its MR
\* has a worktree, with each result of an agent start, and with a mention or a
\* new MR in the same round: todo_action and routing of the router (W9.12).
THEOREM ReviewRequestAlwaysStays == Spec => []ReviewRequestStays
  BY HubInvariant, PTL DEF HubInv

\* Only the save gives news, and nothing that an earlier save gave: the state of
\* hub_compare knows each to-do, note and reaction that still counts, over failed
\* checks and over changes of GitLab between the reads of one check.
THEOREM NewsIsToldOnce == Spec => NewsToldOnce
  <1> DEFINE Once == check.at = "details" /\ check'.at = "saved" =>
                        \A e \in check'.events :
                            e.kind # "opened" => [kind |-> e.kind, item |-> ItemOf(e)] \notin told
  <1>1. ASSUME HubInv, [Next]_vars, check.at = "details", check'.at = "saved"
        PROVE  SaveStep
    <2>1. CASE \E m \in Mrs : People(m) \/ Trees(m)
      BY <1>1, <2>1, PeopleOutside DEF HubInv, NewsInv, Outside
    <2>2. CASE \E skip, moved \in SUBSET Mrs : Begin(skip, moved)
      BY <1>1, <2>2 DEF Begin
    <2>3. CASE ReadLists \/ ReadWatched
      BY <1>1, <2>3 DEF ReadLists, ReadWatched
    <2>4. CASE ReadNotes \/ ReadReactions
      <3>1. check' = [check EXCEPT !.notes = check'.notes, !.read = check'.read]
            \/ check' = [check EXCEPT !.likes = check'.likes]
        BY <2>4 DEF ReadNotes, ReadReactions, Reads, HubInv, NewsInv, TypeOK
      <3> QED
        BY <1>1, <3>1 DEF HubInv, NewsInv, TypeOK
    <2>5. CASE CheckFails \/ Kill \/ \E ok \in SUBSET Round : Route(ok)
      BY <1>1, <2>5 DEF CheckFails, Kill, Route, NoCheck
    <2>6. CASE UNCHANGED vars
      BY <1>1, <2>6 DEF vars
    <2> QED
      BY <1>1, <2>1, <2>2, <2>3, <2>4, <2>5, <2>6 DEF Next
  <1>2. HubInv /\ [Next]_vars => [Once]_vars
    BY <1>1, SaveToldOnce DEF HubInv
  <1> QED
    BY <1>2, HubInvariant, PTL DEF Spec, NewsToldOnce
=============================================================================
