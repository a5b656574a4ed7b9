--------------------------- MODULE MrCheckProofs ---------------------------
(* Theorems about MrCheck: what a watch is told of its MR, and what stays an *)
(* item of it, for any number of threads, pages, comments, reactions, pushes *)
(* and kills, whatever changes between the calls of a check.                 *)
EXTENDS MrCheck, FiniteSetTheorems, WellFoundedInduction, TLAPS

USE MrCheckAssumption

-----------------------------------------------------------------------------
(* The inductive invariant *)

UserOrNone == Users \union {None}
Note == [author : Users, thread : Threads]
Pipeline == [id : Nat, status : {"running", "failed", "success"}]
States == {"opened", "merged", "closed"}
Statuses == {"checking", "draft_status", "conflict", "mergeable"}
Mr == [state : States, head : Nat, own : SUBSET Nat, conflict : BOOLEAN, checking : BOOLEAN,
       draft : BOOLEAN, draftBy : UserOrNone, pipeline : Pipeline, starts : Nat,
       approved : SUBSET Users, notes : Seq(Note), resolved : [Threads -> UserOrNone],
       reactions : SUBSET (Nat \X Users)]
Base == [state : States, draft : BOOLEAN, pipeline : Pipeline, approved : SUBSET Users,
         status : Statuses, conflicts : BOOLEAN, mergeable : BOOLEAN]
Steps == {"idle", "reading", "read", "saved", "over"}

TypeOK ==
    /\ mr \in Mr
    /\ watch \in Watches
    /\ at \in Steps
    /\ got = [base |-> got.base, head |-> got.head, page |-> got.page, notes |-> got.notes,
              draftBy |-> got.draftBy, resolved |-> got.resolved, reactions |-> got.reactions]
    /\ got.base # None => got.base \in Base
    /\ got.head # None => got.head \in Nat
    /\ got.page \in 0 .. Pages
    /\ got.notes \subseteq 1 .. Len(mr.notes)
    /\ got.resolved \in [Threads -> UserOrNone]
    /\ got.reactions \subseteq Nat \X Users
    /\ saved # None => saved \in EngineMr
    /\ told = [notes |-> told.notes, again |-> told.again, conflicts |-> told.conflicts]
    /\ told.notes \subseteq 1 .. Len(mr.notes) /\ told.conflicts \in Nat
    /\ lost \in BOOLEAN

\* The notes of the thread of `n` from `n` on.
Follows(m, n) == m \in 1 .. Len(mr.notes) /\ m >= n /\ mr.notes[m].thread = mr.notes[n].thread

\* A note with no answer is of another user, as all later ones of its thread,
\* which is open.
OpenOK ==
    /\ \A n \in 1 .. Len(mr.notes) : n \notin answered =>
        /\ mr.resolved[mr.notes[n].thread] = None
        /\ \A m \in 1 .. Len(mr.notes) : Follows(m, n) =>
               mr.notes[m].author = Other /\ <<m, Me>> \notin mr.reactions
    /\ \A r \in mr.reactions : r[1] \in 1 .. Len(mr.notes)

\* The pages that were read, and what was read with them.
IsRead(t) == PageOf[t] <= got.page
PagesOK ==
    /\ \A n \in got.notes :
        /\ IsRead(mr.notes[n].thread)
        /\ \A m \in 1 .. n : mr.notes[m].thread = mr.notes[n].thread => m \in got.notes
        /\ n \notin answered =>
               /\ got.resolved[mr.notes[n].thread] = None
               /\ \A m \in got.notes : Follows(m, n) => <<m, Me>> \notin got.reactions
    /\ at = "reading" => got.reactions = {}
    /\ at \in {"read", "saved"} => AllRead
    /\ at \in {"idle", "over"} => got = NothingRead

\* A comment on a page that was read already is left out for good, or comes with
\* the next check.
OldLast == IF saved = None THEN 0 ELSE saved.lastNote
PassedOK ==
    at \in {"reading", "read"} =>
        \A n \in 1 .. Len(mr.notes) :
            mr.notes[n].author = Other /\ IsRead(mr.notes[n].thread) /\ n \notin got.notes =>
                n \in seen \/ (got.page = Pages /\ OldLast < n /\ \A m \in got.notes : m < n)

\* What the watch was told is in each page that has it.
ToldOK ==
    /\ told.again = {}
    /\ OldLast \in 0 .. Len(mr.notes)
    /\ \A n \in told.notes : n <= OldLast /\ (IsRead(mr.notes[n].thread) => n \in got.notes)

CommentsOf(some) == {e.about : e \in {c \in some : c.kind = "comment"}}
Line(t) == WithItem("unaddressed", t, t)
EventsOK ==
    /\ at # "saved" \/ saved = None => events = {}
    /\ \A e \in events :
        /\ e = WithItem(e.kind, e.about, e.item)
        /\ e.kind = "comment" =>
               /\ e.about \in got.notes /\ e.about <= OldLast /\ e.about \notin told.notes
               /\ e.about \notin answered => e.item = mr.notes[e.about].thread
        /\ e.item \in Threads => Line(e.item) \in events
        /\ e.kind = "unaddressed" => e.about \in Threads /\ e.item = e.about
        /\ e.kind = "conflict" => e = WithItem("conflict", None, "conflict")
        /\ e.kind = "pushed" => e.item = None

\* No comment is lost in between.
NoneLost ==
    saved # None /\ ~lost /\ Wanted("comment") =>
        \A n \in 1 .. Len(mr.notes) : mr.notes[n].author = Other /\ n <= saved.lastNote =>
            n \in told.notes \union seen \union CommentsOf(events)

\* A comment with no answer is present for the prune.
PresentOK ==
    \A n \in told.notes \union CommentsOf(events) : n \notin answered => mr.notes[n].thread \in present

\* A review has a note of the user in the thread of an item, in each page that has it.
MineOK ==
    watch.mode = "review" =>
        \A t \in pending \intersect Threads :
            \E n \in 1 .. Len(mr.notes) :
                mr.notes[n] = [author |-> Me, thread |-> t] /\ (IsRead(t) => n \in got.notes)

NeedsOK ==
    at = "saved" =>
        /\ saved # None
        /\ \A t \in present \intersect Threads :
               "reply" \in saved.needs /\ (YouCommented(t) => "reply_to_you" \in saved.needs)
        /\ "pipeline" \in present => "failed" \in saved.needs
        /\ "conflict" \in present => "conflict" \in saved.needs

\* The conflicts that were told, that the check found, that it read, and that is
\* there now all began apart.
One(condition) == IF condition THEN 1 ELSE 0
OldConflict == saved # None /\ saved.conflicts
ReadConflict ==
    IF at \in {"reading", "read"} /\ got.base # None
    THEN IF Transient(got.base.status) THEN OldConflict ELSE got.base.conflicts
    ELSE OldConflict
ConflictsOK ==
    told.conflicts + One(\E e \in events : e.kind = "conflict")
        + One(ReadConflict /\ ~OldConflict) + One(mr.conflict /\ ~ReadConflict) <= mr.starts

CheckInv ==
    /\ TypeOK /\ OpenOK /\ PagesOK /\ PassedOK /\ ToldOK /\ EventsOK /\ NoneLost /\ PresentOK
    /\ MineOK /\ NeedsOK /\ ConflictsOK /\ StaysUntilAnswered /\ ItemsShowNeed

-----------------------------------------------------------------------------
(* The greatest number, and pages *)

\* A finite set with no greatest element has no least subset like it.
LEMMA MaxIs ==
  ASSUME NEW S \in SUBSET Nat, IsFiniteSet(S), S # {}
  PROVE  Max(S) \in S /\ \A x \in S : x <= Max(S)
  <1> DEFINE HasMax(T) == \E k \in T : \A x \in T : x <= k
             F == FiniteSubsetsOf(Nat)
             R == StrictSubsetOrdering(Nat)
             U == {T \in F : T # {} /\ ~HasMax(T)}
  <1>1. IsWellFoundedOn(R, F)
    BY FS_StrictSubsetOrderingWellFounded
  <1>2. HasMax(S)
    <2>1. SUFFICES ASSUME ~HasMax(S) PROVE FALSE
      OBVIOUS
    <2>2. S \in U
      BY <2>1 DEF FiniteSubsetsOf
    <2>3. PICK T \in U : \A V \in U : <<V, T>> \notin R
      <3>1. U \subseteq F /\ U # {}
        BY <2>2
      <3> HIDE DEF U, R, F
      <3> QED
        BY <1>1, <3>1, WFMin
    <2>4. T \in SUBSET Nat /\ IsFiniteSet(T) /\ T # {} /\ ~HasMax(T)
      BY <2>3 DEF FiniteSubsetsOf
    <2>5. PICK x \in T : TRUE
      BY <2>4
    <2>6. (T \ {x}) \in F
      BY <2>4, FS_RemoveElement DEF FiniteSubsetsOf
    <2>7. <<T \ {x}, T>> \in R
      BY <2>4, <2>5 DEF StrictSubsetOrdering
    <2>8. T \ {x} = {} \/ HasMax(T \ {x})
      <3>1. T \ {x} \notin U
        BY <2>3, <2>7
      <3> QED
        BY <2>6, <3>1
    <2>9. CASE T \ {x} = {}
      <3>1. \A y \in T : y <= x
        BY <2>4, <2>5, <2>9
      <3> QED
        BY <2>4, <2>5, <3>1
    <2>10. CASE HasMax(T \ {x})
      <3>1. PICK k \in T \ {x} : \A y \in T \ {x} : y <= k
        BY <2>10
      <3>2. k \in Nat /\ x \in Nat /\ \A y \in T : y \in Nat
        BY <2>4, <2>5, <3>1
      <3>3. (\A y \in T : y <= k) \/ (\A y \in T : y <= x)
        BY <3>1, <3>2
      <3> QED
        BY <2>4, <2>5, <3>1, <3>3
    <2> QED
      BY <2>8, <2>9, <2>10
  <1>3. PICK k \in S : \A x \in S : x <= k
    BY <1>2
  <1>4. \A x \in S : k >= x
    BY <1>3
  <1> QED
    BY <1>3, <1>4 DEF Max

LEMMA BoundedMax ==
  ASSUME NEW k \in Nat, NEW S \in SUBSET (0 .. k), S # {}
  PROVE  Max(S) \in S /\ \A x \in S : x <= Max(S)
  <1>1. S \in SUBSET Nat /\ \A x \in S : x <= k
    OBVIOUS
  <1>2. IsFiniteSet(S)
    BY <1>1, FS_BoundedSetOfNaturals
  <1> QED
    BY <1>1, <1>2, MaxIs

LEMMA PagesAre == Pages \in Nat /\ \A t \in Threads : PageOf[t] \in 1 .. Pages
  <1> DEFINE image == {PageOf[t] : t \in Threads}
             S == {0} \union image
  <1>1. PageOf \in Surjection(Threads, image)
    BY DEF Surjection
  <1>2. IsFiniteSet(image)
    BY <1>1, FS_Surjection
  <1>3. IsFiniteSet(S)
    BY <1>2, FS_Singleton, FS_Union
  <1>4. S \in SUBSET Nat /\ S # {}
    OBVIOUS
  <1>5. Max(S) \in S /\ \A x \in S : x <= Max(S)
    <2> HIDE DEF S
    <2> QED
      BY <1>3, <1>4, MaxIs
  <1>6. Pages = Max(S)
    BY DEF Pages
  <1>7. \A t \in Threads : PageOf[t] \in S /\ PageOf[t] \in Nat /\ 1 <= PageOf[t]
    OBVIOUS
  <1>8. PICK p \in Nat : p = Pages /\ \A x \in S : x <= p
    <2> HIDE DEF S
    <2> QED
      BY <1>4, <1>5, <1>6
  <1>9. \A t \in Threads : PageOf[t] \in 1 .. p
    <2> HIDE DEF S
    <2> QED
      BY <1>7, <1>8
  <1> QED
    BY <1>8, <1>9

-----------------------------------------------------------------------------
(* GitLab *)

\* GitLab keeps each note, and what was answered stays so.
GitLabLater ==
    /\ mr' \in Mr /\ Len(mr.notes) <= Len(mr'.notes)
    /\ \A n \in 1 .. Len(mr.notes) : mr'.notes[n] = mr.notes[n]
    /\ answered \subseteq answered' /\ seen \subseteq seen'
    /\ OpenOK'
    /\ \A n \in 1 .. Len(mr'.notes) :
           /\ n > Len(mr.notes) /\ mr'.notes[n].author = Other
           /\ at = "reading" /\ IsRead(mr'.notes[n].thread) /\ got.page # Pages
           => n \in seen'
    /\ mr.starts <= mr'.starts
    /\ mr'.conflict /\ ~mr.conflict => mr.starts + 1 <= mr'.starts
    /\ UNCHANGED <<watch, at, got, saved, present, events, pending, needs, told, lost>>

\* The talk stays as it is.
LEMMA QuietLater ==
  ASSUME TypeOK, OpenOK, mr' \in Mr, UNCHANGED <<watch, check, seen, answered>>,
         mr'.notes = mr.notes, mr'.resolved = mr.resolved, mr'.reactions \subseteq mr.reactions,
         mr.starts <= mr'.starts, mr'.conflict /\ ~mr.conflict => mr.starts + 1 <= mr'.starts
  PROVE  GitLabLater
  <1>1. OpenOK'
    BY DEF OpenOK, Follows
  <1>2. Len(mr.notes) \in Nat
    BY DEF TypeOK, Mr
  <1> QED
    BY <1>1, <1>2 DEF GitLabLater, check

\* The fields that a change of GitLab keeps.
LEMMA MrFields == TypeOK =>
    /\ mr.state \in States /\ mr.head \in Nat /\ mr.own \subseteq Nat /\ mr.conflict \in BOOLEAN
    /\ mr.checking \in BOOLEAN /\ mr.draft \in BOOLEAN /\ mr.draftBy \in UserOrNone
    /\ mr.pipeline \in Pipeline /\ mr.starts \in Nat /\ mr.approved \subseteq Users
    /\ mr.notes \in Seq(Note) /\ mr.resolved \in [Threads -> UserOrNone]
    /\ mr.reactions \subseteq Nat \X Users /\ Len(mr.notes) \in Nat
    /\ \A n \in 1 .. Len(mr.notes) : mr.notes[n].author \in Users /\ mr.notes[n].thread \in Threads
    /\ DOMAIN mr.notes = 1 .. Len(mr.notes)
  <1> HAVE TypeOK
  <1>0. mr \in Mr
    BY DEF TypeOK
  <1>1. mr.notes \in Seq(Note)
    BY <1>0 DEF Mr
  <1>2. PICK notes \in Seq(Note) : notes = mr.notes
    BY <1>1
  <1>3. /\ Len(notes) \in Nat /\ DOMAIN notes = 1 .. Len(notes)
        /\ \A n \in 1 .. Len(notes) : notes[n] \in Note
    OBVIOUS
  <1>4. \A n \in 1 .. Len(notes) : notes[n].author \in Users /\ notes[n].thread \in Threads
    BY <1>3 DEF Note
  <1> QED
    BY <1>0, <1>2, <1>3, <1>4 DEF Mr

LEMMA QuietlyLater ==
  ASSUME TypeOK, OpenOK, NEW new, Quietly(new), new \in Mr,
         new.notes = mr.notes, new.resolved = mr.resolved, new.reactions = mr.reactions,
         new.conflict = mr.conflict, new.starts = mr.starts
  PROVE  GitLabLater
  <1>1. mr' = new /\ UNCHANGED <<watch, check, seen, answered>>
    BY DEF Quietly, Move, Changed
  <1>2. mr.starts \in Nat
    BY MrFields
  <1> QED
    BY <1>1, <1>2, QuietLater

LEMMA WithConflictLater ==
  ASSUME TypeOK, OpenOK, NEW base \in Mr, NEW conflict \in BOOLEAN,
         base.notes = mr.notes, base.resolved = mr.resolved, base.reactions = mr.reactions,
         base.starts = mr.starts, Quietly(WithConflict(base, conflict))
  PROVE  GitLabLater
  <1>1. PICK new : new = WithConflict(base, conflict)
    OBVIOUS
  <1>2. mr.starts \in Nat
    BY MrFields
  <1>3. new \in Mr
    <2>1. PICK starts \in Nat : starts = IF conflict /\ ~mr.conflict THEN base.starts + 1 ELSE base.starts
      BY <1>2
    <2>2. new = [base EXCEPT !.conflict = conflict, !.checking = TRUE, !.starts = starts]
      BY <1>1, <2>1 DEF WithConflict
    <2> QED
      BY <2>2 DEF Mr
  <1>4. /\ new.notes = mr.notes /\ new.resolved = mr.resolved /\ new.reactions = mr.reactions
        /\ new.conflict = conflict
        /\ new.starts = IF conflict /\ ~mr.conflict THEN mr.starts + 1 ELSE mr.starts
    BY <1>1 DEF WithConflict, Mr
  <1>5. mr' = new /\ UNCHANGED <<watch, check, seen, answered>>
    BY <1>1 DEF Quietly, Move, Changed
  <1> QED
    BY <1>2, <1>3, <1>4, <1>5, QuietLater

LEMMA MovesLater ==
  ASSUME TypeOK, OpenOK,
         \/ \E u \in Users : Draft(u) \/ Approve(u)
         \/ \E own \in BOOLEAN : Push(own)
         \/ TargetMoves \/ PipelineMoves \/ Ends \/ Reopens \/ StatusComputed
  PROVE  GitLabLater
  <1> USE MrFields
  <1>1. ASSUME NEW u \in Users, Draft(u) PROVE GitLabLater
    <2>1. PICK new : new = [mr EXCEPT !.draft = ~@, !.draftBy = u]
      OBVIOUS
    <2>2. new \in Mr /\ new.notes = mr.notes /\ new.resolved = mr.resolved
          /\ new.reactions = mr.reactions /\ new.conflict = mr.conflict /\ new.starts = mr.starts
      BY <2>1 DEF TypeOK, Mr, UserOrNone
    <2> QED
      BY <1>1, <2>1, <2>2, QuietlyLater DEF Draft
  <1>2. ASSUME NEW u \in Users, Approve(u) PROVE GitLabLater
    <2>1. PICK new : new = [mr EXCEPT !.approved = IF u \in @ THEN @ \ {u} ELSE @ \union {u}]
      OBVIOUS
    <2>2. new \in Mr /\ new.notes = mr.notes /\ new.resolved = mr.resolved
          /\ new.reactions = mr.reactions /\ new.conflict = mr.conflict /\ new.starts = mr.starts
      BY <2>1 DEF TypeOK, Mr
    <2> QED
      BY <1>2, <2>1, <2>2, QuietlyLater DEF Approve
  <1>3. ASSUME NEW own \in BOOLEAN, Push(own) PROVE GitLabLater
    <2>1. PICK base : base = [mr EXCEPT !.head = @ + 1,
                                        !.own = IF own THEN @ \union {mr.head + 1} ELSE @]
      OBVIOUS
    <2>0. PICK head \in Nat, heads \in SUBSET Nat : base = [mr EXCEPT !.head = head, !.own = heads]
      <3>1. mr.head + 1 \in Nat /\ (IF own THEN mr.own \union {mr.head + 1} ELSE mr.own) \in SUBSET Nat
        OBVIOUS
      <3> QED
        BY <2>1, <3>1
    <2>2. base \in Mr /\ base.notes = mr.notes /\ base.resolved = mr.resolved
          /\ base.reactions = mr.reactions /\ base.starts = mr.starts
      BY <2>0 DEF TypeOK, Mr
    <2> QED
      BY <1>3, <2>1, <2>2, WithConflictLater DEF Push
  <1>4. ASSUME TargetMoves PROVE GitLabLater
    <2>1. mr \in Mr /\ (~mr.conflict) \in BOOLEAN
      BY DEF TypeOK
    <2> QED
      BY <1>4, <2>1, WithConflictLater DEF TargetMoves
  <1>5. ASSUME PipelineMoves PROVE GitLabLater
    <2>1. PICK next \in Pipeline : Quietly([mr EXCEPT !.pipeline = next])
      <3>1. \A s \in {"failed", "success", "running"} :
                [id |-> mr.pipeline.id, status |-> s] \in Pipeline
        BY DEF Pipeline
      <3>2. [id |-> mr.pipeline.id + 1, status |-> "running"] \in Pipeline
        BY DEF Pipeline
      <3> QED
        BY <1>5, <3>1, <3>2 DEF PipelineMoves
    <2>2. PICK new : new = [mr EXCEPT !.pipeline = next]
      OBVIOUS
    <2>3. new \in Mr /\ new.notes = mr.notes /\ new.resolved = mr.resolved
          /\ new.reactions = mr.reactions /\ new.conflict = mr.conflict /\ new.starts = mr.starts
      BY <2>2 DEF TypeOK, Mr
    <2> QED
      BY <2>1, <2>2, <2>3, QuietlyLater
  <1>6. ASSUME NEW state \in States, Quietly([mr EXCEPT !.state = state]) PROVE GitLabLater
    <2>1. PICK new : new = [mr EXCEPT !.state = state]
      OBVIOUS
    <2>2. new \in Mr /\ new.notes = mr.notes /\ new.resolved = mr.resolved
          /\ new.reactions = mr.reactions /\ new.conflict = mr.conflict /\ new.starts = mr.starts
      BY <2>1 DEF TypeOK, Mr
    <2> QED
      BY <1>6, <2>1, <2>2, QuietlyLater
  <1>7. ASSUME StatusComputed PROVE GitLabLater
    <2>1. PICK new : new = [mr EXCEPT !.checking = FALSE]
      OBVIOUS
    <2>2. new \in Mr /\ new.notes = mr.notes /\ new.resolved = mr.resolved
          /\ new.reactions = mr.reactions /\ new.conflict = mr.conflict /\ new.starts = mr.starts
      BY <2>1 DEF TypeOK, Mr
    <2>3. mr' = new /\ UNCHANGED <<watch, check, seen, answered>>
      BY <1>7, <2>1 DEF StatusComputed
    <2> QED
      BY <2>2, <2>3, QuietLater
  <1> QED
    BY <1>1, <1>2, <1>3, <1>4, <1>5, <1>6, <1>7 DEF Ends, Reopens, States

LEMMA ReactLater ==
  ASSUME TypeOK, OpenOK, NEW u \in Users, React(u)
  PROVE  GitLabLater
  <1> USE MrFields
  <1>1. PICK n \in 1 .. Len(mr.notes) :
            /\ Talk([mr EXCEPT !.reactions = @ \union {<<n, u>>}])
            /\ IF u = Me THEN Answered(n, mr.notes[n].thread) ELSE UNCHANGED answered
            /\ UNCHANGED seen
    BY DEF React, Commented
  <1>2. PICK new : new = [mr EXCEPT !.reactions = @ \union {<<n, u>>}]
    OBVIOUS
  <1>3. new \in Mr /\ new.notes = mr.notes /\ new.resolved = mr.resolved
        /\ new.reactions = mr.reactions \union {<<n, u>>}
        /\ new.conflict = mr.conflict /\ new.starts = mr.starts
    <2>1. <<n, u>> \in Nat \X Users
      OBVIOUS
    <2>2. PICK both \in SUBSET (Nat \X Users) : both = mr.reactions \union {<<n, u>>}
      BY <2>1
    <2> QED
      BY <1>2, <2>2 DEF TypeOK, Mr
  <1>4. mr' = new /\ UNCHANGED <<watch, check>>
    BY <1>1, <1>2 DEF Talk, Changed
  <1>5. answered \subseteq answered'
    BY <1>1 DEF Answered
  <1>6. ASSUME NEW k \in 1 .. Len(mr.notes), k \notin answered',
               NEW m \in 1 .. Len(mr.notes), Follows(m, k)
        PROVE  <<m, Me>> \notin new.reactions
    <2>1. <<m, Me>> \notin mr.reactions
      BY <1>5, <1>6 DEF OpenOK
    <2>2. CASE m = n /\ u = Me
      <3>1. k \in NotesUpTo(n, mr.notes[n].thread)
        BY <1>6, <2>2 DEF NotesUpTo, Follows
      <3> QED
        BY <1>1, <1>6, <2>2, <3>1 DEF Answered
    <2> QED
      BY <1>3, <2>1, <2>2
  <1>7. OpenOK'
    BY SMTT(60), <1>3, <1>4, <1>5, <1>6 DEF OpenOK, Follows
  <1> QED
    BY <1>1, <1>3, <1>4, <1>5, <1>7 DEF GitLabLater, check

LEMMA ResolveLater ==
  ASSUME TypeOK, OpenOK, NEW u \in Users, Resolve(u)
  PROVE  GitLabLater
  <1> USE MrFields
  <1>1. PICK t \in Threads :
            /\ Talk([mr EXCEPT !.resolved[t] = u])
            /\ Answered(Len(mr.notes), t)
            /\ UNCHANGED seen
    BY DEF Resolve, ThreadsWithNotes
  <1>2. PICK new : new = [mr EXCEPT !.resolved[t] = u]
    OBVIOUS
  <1>3. new \in Mr /\ new.notes = mr.notes /\ new.resolved = [mr.resolved EXCEPT ![t] = u]
        /\ new.reactions = mr.reactions /\ new.conflict = mr.conflict /\ new.starts = mr.starts
    BY <1>2 DEF TypeOK, Mr, UserOrNone
  <1>4. mr' = new /\ UNCHANGED <<watch, check>>
    BY <1>1, <1>2 DEF Talk, Changed
  <1>5. answered' = answered \union NotesUpTo(Len(mr.notes), t)
    BY <1>1 DEF Answered
  <1>6. ASSUME NEW k \in 1 .. Len(mr.notes), k \notin answered'
        PROVE  new.resolved[mr.notes[k].thread] = None
    <2>1. mr.notes[k].thread # t
      BY <1>5, <1>6 DEF NotesUpTo
    <2> QED
      BY <1>3, <1>5, <1>6, <2>1 DEF OpenOK
  <1>7. OpenOK'
    <2>1. mr'.notes = mr.notes /\ mr'.resolved = new.resolved /\ mr'.reactions = mr.reactions
      BY <1>3, <1>4
    <2>2. \A k \in 1 .. Len(mr.notes) : k \notin answered' => k \notin answered
      BY <1>5
    <2> QED
      BY <1>6, <2>1, <2>2 DEF OpenOK, Follows
  <1> QED
    BY <1>1, <1>3, <1>4, <1>5, <1>7 DEF GitLabLater, check

LEMMA TakenBackLater ==
  ASSUME TypeOK, OpenOK, TakeBackReaction \/ Unresolve
  PROVE  GitLabLater
  <1> USE MrFields
  <1>1. ASSUME TakeBackReaction PROVE GitLabLater
    <2>1. PICK r : Talk([mr EXCEPT !.reactions = @ \ {r}]) /\ UNCHANGED <<seen, answered>>
      BY <1>1 DEF TakeBackReaction
    <2>2. PICK new : new = [mr EXCEPT !.reactions = @ \ {r}]
      OBVIOUS
    <2>3. new \in Mr /\ new.notes = mr.notes /\ new.resolved = mr.resolved
          /\ new.reactions \subseteq mr.reactions
          /\ new.conflict = mr.conflict /\ new.starts = mr.starts
      BY <2>2 DEF TypeOK, Mr
    <2>4. mr' = new /\ UNCHANGED <<watch, check, seen, answered>>
      BY <2>1, <2>2 DEF Talk, Changed
    <2> QED
      BY <2>3, <2>4, QuietLater
  <1>2. ASSUME Unresolve PROVE GitLabLater
    <2>1. PICK t \in Threads : Talk([mr EXCEPT !.resolved[t] = None]) /\ UNCHANGED <<seen, answered>>
      BY <1>2 DEF Unresolve
    <2>2. PICK new : new = [mr EXCEPT !.resolved[t] = None]
      OBVIOUS
    <2>3. new \in Mr /\ new.notes = mr.notes /\ new.resolved = [mr.resolved EXCEPT ![t] = None]
          /\ new.reactions = mr.reactions
          /\ new.conflict = mr.conflict /\ new.starts = mr.starts
      BY <2>2 DEF TypeOK, Mr, UserOrNone
    <2>4. mr' = new /\ UNCHANGED <<watch, check, seen, answered>>
      BY <2>1, <2>2 DEF Talk, Changed
    <2>5. OpenOK'
      <3>1. mr'.notes = mr.notes /\ mr'.resolved = new.resolved /\ mr'.reactions = mr.reactions
            /\ answered' = answered
        BY <2>3, <2>4
      <3>2. \A k \in 1 .. Len(mr.notes) : mr.resolved[mr.notes[k].thread] = None =>
                new.resolved[mr.notes[k].thread] = None
        BY <2>3
      <3> QED
        BY <3>1, <3>2 DEF OpenOK, Follows
    <2> QED
      BY <2>3, <2>4, <2>5 DEF GitLabLater, check
  <1> QED
    BY <1>1, <1>2

LEMMA CommentLater ==
  ASSUME TypeOK, OpenOK, NEW u \in Users, NEW t \in Threads, Comment(u, t)
  PROVE  GitLabLater
  <1> USE MrFields
  <1>1. PICK note : note = [author |-> u, thread |-> t]
    OBVIOUS
  <1>2. note \in Note /\ note.author = u /\ note.thread = t
    BY <1>1 DEF Note
  <1>3. PICK notes \in Seq(Note) : notes = Append(mr.notes, note)
    <2>1. PICK old \in Seq(Note) : old = mr.notes
      OBVIOUS
    <2>2. PICK one \in Note : one = note
      BY <1>2
    <2>3. Append(old, one) \in Seq(Note)
      OBVIOUS
    <2> QED
      BY <2>1, <2>2, <2>3
  <1>4. /\ Len(notes) = Len(mr.notes) + 1 /\ notes[Len(mr.notes) + 1] = note
        /\ \A n \in 1 .. Len(mr.notes) : notes[n] = mr.notes[n]
    BY <1>2, <1>3
  <1>5. PICK new : new = [mr EXCEPT !.notes = notes]
    OBVIOUS
  <1>6. new \in Mr /\ new.notes = notes /\ new.resolved = mr.resolved
        /\ new.reactions = mr.reactions /\ new.conflict = mr.conflict /\ new.starts = mr.starts
    BY <1>5 DEF TypeOK, Mr
  <1>7. mr' = new /\ UNCHANGED <<watch, check>>
    BY <1>1, <1>3, <1>5 DEF Comment, Talk, Changed
  <1>8. PICK last \in Nat : last = Len(mr.notes) + 1
    OBVIOUS
  <1>9. answered' = IF u = Me \/ mr.resolved[t] # None
                    THEN answered \union NotesUpTo(Len(mr.notes), t) \union {last} ELSE answered
    <2>1. Len(mr.notes) + 1 - 1 = Len(mr.notes)
      OBVIOUS
    <2> QED
      BY <1>8, <2>1 DEF Comment
  <1>10. seen' = IF at = "reading" /\ PageOf[t] <= got.page /\ got.page < Pages /\ u = Other
                 THEN seen \union {last} ELSE seen
    BY <1>8 DEF Comment
  <1>11. ASSUME NEW k \in 1 .. last, k \notin answered'
         PROVE  /\ new.resolved[notes[k].thread] = None
                /\ \A m \in 1 .. last : m >= k /\ notes[m].thread = notes[k].thread =>
                       notes[m].author = Other /\ <<m, Me>> \notin new.reactions
    <2>1. <<last, Me>> \notin mr.reactions
      BY <1>8 DEF OpenOK
    <2>2. CASE k = last
      <3>1. u = Other /\ mr.resolved[t] = None
        BY <1>9, <1>11, <2>2 DEF Users
      <3>2. notes[last] = note /\ new.resolved = mr.resolved /\ new.reactions = mr.reactions
        BY <1>4, <1>6, <1>8
      <3>3. \A m \in 1 .. last : m >= last => m = last
        OBVIOUS
      <3> QED
        BY <1>2, <2>1, <2>2, <3>1, <3>2, <3>3
    <2>3. CASE k # last
      <3>1. k \in 1 .. Len(mr.notes) /\ k \notin answered /\ notes[k] = mr.notes[k]
        BY <1>4, <1>8, <1>9, <1>11, <2>3
      <3>2. mr.notes[k].thread = t => u = Other
        BY <1>9, <1>11, <3>1 DEF NotesUpTo, Users
      <3>3. ASSUME NEW m \in 1 .. last, m >= k, notes[m].thread = notes[k].thread
            PROVE  notes[m].author = Other /\ <<m, Me>> \notin mr.reactions
        <4>1. CASE m = last
          BY <1>2, <1>4, <1>8, <2>1, <3>1, <3>2, <3>3, <4>1
        <4>2. CASE m # last
          <5>1. m \in 1 .. Len(mr.notes) /\ notes[m] = mr.notes[m]
            BY <1>4, <1>8, <4>2
          <5> QED
            BY <3>1, <3>3, <5>1 DEF OpenOK, Follows
        <4> QED
          BY <4>1, <4>2
      <3>4. mr.resolved[notes[k].thread] = None
        BY <3>1 DEF OpenOK
      <3> QED
        BY <1>6, <3>3, <3>4
    <2> QED
      BY <2>2, <2>3
  <1>12. OpenOK'
    <2>1. Len(mr'.notes) = last /\ mr'.notes = notes /\ mr'.resolved = new.resolved
          /\ mr'.reactions = new.reactions
      BY <1>4, <1>6, <1>7, <1>8
    <2>2. \A r \in mr'.reactions : r[1] \in 1 .. last
      BY <1>6, <1>7, <1>8 DEF OpenOK
    <2> QED
      BY <1>11, <2>1, <2>2 DEF OpenOK, Follows
  <1>13. ASSUME NEW n \in 1 .. last, n > Len(mr.notes), notes[n].author = Other,
                at = "reading", IsRead(notes[n].thread), got.page # Pages
         PROVE  n \in seen'
    <2>1. n = last /\ u = Other /\ PageOf[t] <= got.page
      BY <1>2, <1>4, <1>8, <1>13 DEF IsRead
    <2>2. got.page < Pages
      BY <1>13, PagesAre DEF TypeOK
    <2> QED
      BY <1>10, <1>13, <2>1, <2>2
  <1> QED
    <2>1. answered \subseteq answered' /\ seen \subseteq seen'
      BY <1>9, <1>10
    <2>2. UNCHANGED <<watch, at, got, saved, present, events, pending, needs, told, lost>>
      BY <1>7 DEF check
    <2>3. Len(mr'.notes) = last /\ mr'.notes = notes
      BY <1>4, <1>6, <1>7, <1>8
    <2>4. Len(mr.notes) <= last /\ mr' \in Mr /\ mr'.conflict = mr.conflict /\ mr'.starts = mr.starts
      BY <1>6, <1>7, <1>8
    <2> QED
      BY <1>4, <1>12, <1>13, <2>1, <2>2, <2>3, <2>4 DEF GitLabLater

LEMMA GitLabIsLater ==
  ASSUME TypeOK, OpenOK, GitLab \/ StatusComputed
  PROVE  GitLabLater
  BY MovesLater, ReactLater, ResolveLater, TakenBackLater, CommentLater DEF GitLab

\* No change of GitLab breaks the invariant, wherever the check is.
LEMMA GitLabInv ==
  ASSUME CheckInv, GitLabLater
  PROVE  CheckInv'
  <1> USE DEF CheckInv
  <1>1. PICK len \in Nat : len = Len(mr.notes)
    BY MrFields
  <1>2. PICK later \in Nat : later = Len(mr'.notes) /\ DOMAIN mr'.notes = 1 .. later
    <2>1. PICK notes \in Seq(Note) : notes = mr'.notes
      BY DEF GitLabLater, Mr
    <2> QED
      BY <2>1
  <1>3. /\ len <= later
        /\ \A n \in 1 .. len : n \in 1 .. later /\ mr'.notes[n] = mr.notes[n]
        /\ \A n : n \notin answered' => n \notin answered
        /\ \A n : n \in seen => n \in seen'
        /\ DOMAIN mr.notes = 1 .. len
    BY <1>1, <1>2, MrFields DEF GitLabLater
  <1>4. UNCHANGED <<watch, at, got, saved, present, events, pending, needs, told, lost>>
    BY DEF GitLabLater
  <1>5. \A n \in got.notes : n \in 1 .. len
    BY <1>1 DEF TypeOK
  <1>6. TypeOK'
    <2>1. got.notes \subseteq 1 .. later /\ told.notes \subseteq 1 .. later
      BY <1>1, <1>3 DEF TypeOK
    <2>2. mr' \in Mr
      BY DEF GitLabLater
    <2> QED
      BY <1>2, <1>4, <2>1, <2>2 DEF TypeOK
  <1>7. OpenOK'
    BY DEF GitLabLater
  <1>8. PagesOK'
    <2>1. ASSUME NEW n \in got.notes
          PROVE  /\ IsRead(mr'.notes[n].thread)
                 /\ \A m \in 1 .. n : mr'.notes[m].thread = mr'.notes[n].thread => m \in got.notes
      <3>1. \A m \in 1 .. n : m \in 1 .. len /\ mr'.notes[m] = mr.notes[m]
        BY <1>3, <1>5
      <3>2. mr'.notes[n] = mr.notes[n]
        BY <1>3, <1>5
      <3> QED
        BY <3>1, <3>2 DEF PagesOK
    <2>2. ASSUME NEW n \in got.notes, n \notin answered'
          PROVE  /\ got.resolved[mr'.notes[n].thread] = None
                 /\ \A m \in got.notes : Follows(m, n)' => <<m, Me>> \notin got.reactions
      <3>1. mr'.notes[n] = mr.notes[n] /\ n \notin answered
        BY <1>3, <1>5, <2>2
      <3>2. \A m \in got.notes : Follows(m, n)' => Follows(m, n)
        BY <1>1, <1>3, <1>5, <3>1 DEF Follows
      <3> QED
        BY <3>1, <3>2 DEF PagesOK
    <2>3. at \in {"read", "saved"} => AllRead
      BY DEF PagesOK
    <2>4. /\ at \in {"idle", "over"} => got = NothingRead
          /\ at = "reading" => got.reactions = {}
      BY DEF PagesOK
    <2> QED
      BY <1>4, <2>1, <2>2, <2>3, <2>4 DEF PagesOK, IsRead, AllRead
  <1>9. PassedOK'
    <2>1. SUFFICES ASSUME at \in {"reading", "read"}, NEW n \in 1 .. later,
                          mr'.notes[n].author = Other, IsRead(mr'.notes[n].thread), n \notin got.notes
                   PROVE  n \in seen' \/ (got.page = Pages /\ OldLast < n /\ \A m \in got.notes : m < n)
      BY <1>2, <1>4 DEF PassedOK, IsRead, OldLast
    <2>2. CASE n \in 1 .. len
      BY <1>1, <1>3, <2>1, <2>2 DEF PassedOK
    <2>3. CASE n \notin 1 .. len
      <3>1. n > len
        BY <2>3
      <3>2. CASE got.page = Pages
        <4>1. OldLast < n
          BY <1>1, <3>1 DEF ToldOK
        <4>2. \A m \in got.notes : m < n
          BY <1>5, <3>1
        <4> QED
          BY <3>2, <4>1, <4>2
      <3>3. CASE got.page # Pages
        <4>1. at = "reading"
          BY <2>1, <3>3 DEF PagesOK, AllRead
        <4> QED
          BY <1>1, <1>2, <2>1, <3>1, <3>3, <4>1 DEF GitLabLater
      <3> QED
        BY <3>2, <3>3
    <2> QED
      BY <2>2, <2>3
  <1>10. ToldOK'
    <2>1. OldLast \in 0 .. later
      BY <1>1, <1>3 DEF ToldOK
    <2>2. \A n \in told.notes : mr'.notes[n] = mr.notes[n]
      BY <1>1, <1>3 DEF TypeOK
    <2> QED
      BY <1>2, <1>4, <2>1, <2>2 DEF ToldOK, OldLast, IsRead
  <1>11. EventsOK'
    <2>1. \A e \in events : e.kind = "comment" => e.about \in 1 .. len
      BY <1>5 DEF EventsOK
    <2>2. \A e \in events : e.kind = "comment" => mr'.notes[e.about] = mr.notes[e.about]
      BY <1>3, <2>1
    <2>3. \A e \in events : e.kind = "comment" /\ e.about \notin answered' =>
              e.item = mr'.notes[e.about].thread
      BY <1>3, <2>2 DEF EventsOK
    <2>4. \A e \in events : e.kind = "comment" =>
              e.about \in got.notes /\ e.about <= OldLast /\ e.about \notin told.notes
      BY DEF EventsOK
    <2>5. \A e \in events : e = WithItem(e.kind, e.about, e.item)
      BY DEF EventsOK
    <2> QED
      BY <1>4, <2>3, <2>4, <2>5 DEF EventsOK, OldLast
  <1>12. NoneLost'
    <2>1. ASSUME saved # None, ~lost, Wanted("comment"), NEW n \in 1 .. later,
                 mr'.notes[n].author = Other, n <= saved.lastNote
          PROVE  n \in told.notes \union seen' \union CommentsOf(events)
      <3>1. n \in 1 .. len
        BY <1>1, <2>1 DEF ToldOK, OldLast
      <3> QED
        BY <1>1, <1>3, <2>1, <3>1 DEF NoneLost
    <2> QED
      BY <1>2, <1>4, <2>1 DEF NoneLost, Wanted
  <1>13. PresentOK'
    <2>1. \A n \in told.notes \union CommentsOf(events) : n \in 1 .. len
      BY <1>1, <1>5 DEF TypeOK, EventsOK, CommentsOf
    <2> QED
      BY <1>3, <1>4, <2>1 DEF PresentOK
  <1>14. MineOK'
    <2>1. ASSUME NEW t \in pending \intersect Threads, watch.mode = "review"
          PROVE  \E n \in 1 .. later :
                     mr'.notes[n] = [author |-> Me, thread |-> t] /\ (IsRead(t) => n \in got.notes)
      <3>1. PICK n \in 1 .. len :
                     mr.notes[n] = [author |-> Me, thread |-> t] /\ (IsRead(t) => n \in got.notes)
        BY <1>1, <2>1 DEF MineOK
      <3> QED
        BY <1>3, <3>1
    <2> QED
      BY <1>2, <1>4, <2>1 DEF MineOK, IsRead
  <1>15. NeedsOK'
    <2>1. \A t : YouCommented(t)' = YouCommented(t)
      <3>1. \A t : NotesOf(t)' = NotesOf(t)
        BY <1>3, <1>4, <1>5 DEF NotesOf
      <3>2. \A t : \A n \in NotesOf(t) : Author(n)' = Author(n)
        BY <1>3, <1>5 DEF NotesOf, Author
      <3> QED
        BY <3>1, <3>2 DEF YouCommented
    <2> QED
      BY <1>4, <2>1 DEF NeedsOK
  <1>16. ConflictsOK'
    <2>1. mr.starts \in Nat /\ mr'.starts \in Nat /\ told.conflicts \in Nat
      BY MrFields DEF TypeOK, GitLabLater, Mr
    <2>2. /\ ReadConflict' = ReadConflict /\ OldConflict' = OldConflict
          /\ told' = told /\ events' = events
      BY <1>4 DEF ReadConflict, OldConflict
    <2>3. PICK a \in Nat, b \in Nat, c \in Nat, d \in Nat, e \in Nat :
              /\ a = told.conflicts /\ b = One(\E x \in events : x.kind = "conflict")
              /\ c = One(ReadConflict /\ ~OldConflict) /\ d = One(mr.conflict /\ ~ReadConflict)
              /\ e = One(mr'.conflict /\ ~ReadConflict)
      BY <2>1 DEF One
    <2>4. e <= d \/ (d = 0 /\ e = 1 /\ mr.starts + 1 <= mr'.starts)
      BY <2>3 DEF One, GitLabLater
    <2>5. mr.starts <= mr'.starts
      BY DEF GitLabLater
    <2>6. a + b + c + d <= mr.starts
      BY <2>3 DEF ConflictsOK
    <2>7. a + b + c + e <= mr'.starts
      BY <2>1, <2>4, <2>5, <2>6
    <2>8. One(\E x \in events' : x.kind = "conflict") = b /\ One(ReadConflict' /\ ~OldConflict') = c
          /\ One(mr'.conflict /\ ~ReadConflict') = e /\ told'.conflicts = a
      BY <2>2, <2>3
    <2> QED
      BY <2>7, <2>8 DEF ConflictsOK
  <1>17. StaysUntilAnswered'
    <2>1. \A n \in told.notes : n \in 1 .. len /\ mr'.notes[n] = mr.notes[n]
      BY <1>1, <1>3 DEF TypeOK
    <2>2. ASSUME NEW n \in told.notes, n \notin answered'
          PROVE  \/ mr'.notes[n].thread \in pending
                 \/ /\ watch.mode = "review"
                    /\ \A m \in {x \in DOMAIN mr'.notes :
                                    x <= n /\ mr'.notes[x].thread = mr'.notes[n].thread} :
                           mr'.notes[m].author # Me
      <3>1. PICK t : t = mr.notes[n].thread /\ t = mr'.notes[n].thread
        BY <2>1
      <3>2. \/ t \in pending
            \/ /\ watch.mode = "review"
               /\ \A m \in NotesUpTo(n, t) : mr.notes[m].author # Me
        BY <1>3, <2>2, <3>1 DEF StaysUntilAnswered
      <3>3. ASSUME NEW m \in DOMAIN mr'.notes, m <= n, mr'.notes[m].thread = t
            PROVE  m \in NotesUpTo(n, t) /\ mr'.notes[m] = mr.notes[m]
        <4>1. m \in 1 .. len
          BY <1>2, <2>1, <3>3
        <4> QED
          BY <1>3, <3>3, <4>1 DEF NotesUpTo
      <3>4. \A m \in DOMAIN mr'.notes : m <= n /\ mr'.notes[m].thread = t
                /\ (\A x \in NotesUpTo(n, t) : mr.notes[x].author # Me) => mr'.notes[m].author # Me
        BY <3>3
      <3> QED
        BY <3>1, <3>2, <3>4
    <2> QED
      BY <1>4, <2>2 DEF StaysUntilAnswered, NotesUpTo
  <1>18. ItemsShowNeed'
    BY <1>4 DEF ItemsShowNeed
  <1> QED
    BY <1>6, <1>7, <1>8, <1>9, <1>10, <1>11, <1>12, <1>13, <1>14, <1>15, <1>16, <1>17, <1>18

-----------------------------------------------------------------------------
(* The calls of a check *)

\* A check begins, fails or is killed with nothing read.
LEMMA ResetInv ==
  ASSUME CheckInv, got' = NothingRead, at' \in {"idle", "reading"}, events' = {},
         lost' = (lost \/ events # {}),
         UNCHANGED <<mr, watch, saved, present, pending, needs, told, seen, answered>>
  PROVE  CheckInv'
  <1> USE DEF CheckInv
  <1>1. /\ got'.base = None /\ got'.head = None /\ got'.page = 0 /\ got'.notes = {}
        /\ got'.resolved = [t \in Threads |-> None] /\ got'.reactions = {}
    BY DEF NothingRead
  <1>2. \A t \in Threads : ~(PageOf[t] <= got'.page)
    BY <1>1, PagesAre
  <1>3. OldLast' = OldLast /\ OldConflict' = OldConflict
    BY DEF OldLast, OldConflict
  <1>4. TypeOK'
    <2>1. got' = [base |-> got'.base, head |-> got'.head, page |-> got'.page, notes |-> got'.notes,
                  draftBy |-> got'.draftBy, resolved |-> got'.resolved, reactions |-> got'.reactions]
      BY DEF NothingRead
    <2>2. got'.page \in 0 .. Pages
      BY <1>1, PagesAre
    <2> QED
      BY <1>1, <2>1, <2>2 DEF TypeOK, UserOrNone, Steps
  <1>5. OpenOK'
    BY DEF OpenOK, Follows
  <1>6. PagesOK'
    BY <1>1 DEF PagesOK
  <1>7. PassedOK'
    BY <1>2, MrFields DEF PassedOK, IsRead
  <1>8. ToldOK'
    <2>1. \A n \in told.notes : mr.notes[n].thread \in Threads
      BY MrFields DEF TypeOK
    <2> QED
      BY <1>2, <1>3, <2>1 DEF ToldOK, IsRead
  <1>9. EventsOK'
    BY DEF EventsOK
  <1>10. NoneLost'
    <2>1. ~lost' => ~lost /\ events = events'
      OBVIOUS
    <2> QED
      BY <2>1 DEF NoneLost, Wanted
  <1>11. PresentOK'
    BY DEF PresentOK, CommentsOf
  <1>12. MineOK'
    BY <1>2 DEF MineOK, IsRead
  <1>13. NeedsOK'
    BY DEF NeedsOK
  <1>14. ConflictsOK'
    <2>1. ReadConflict' = OldConflict
      BY <1>1, <1>3 DEF ReadConflict
    <2>2. PICK a \in Nat, b \in Nat, c \in Nat, d \in Nat, e \in Nat, starts \in Nat :
              /\ a = told.conflicts /\ b = One(\E x \in events : x.kind = "conflict")
              /\ c = One(ReadConflict /\ ~OldConflict) /\ d = One(mr.conflict /\ ~ReadConflict)
              /\ e = One(mr.conflict /\ ~OldConflict) /\ starts = mr.starts
      <3>1. told.conflicts \in Nat /\ mr.starts \in Nat
        BY MrFields DEF TypeOK
      <3>2. \A condition \in BOOLEAN : One(condition) \in Nat
        BY DEF One
      <3> QED
        BY ZenonT(60), <3>1, <3>2 DEF One
    <2>3. e <= c + d
      BY <2>2 DEF One
    <2>4. a + b + c + d <= starts
      BY <2>2 DEF ConflictsOK
    <2>5. a + 0 + 0 + e <= starts
      BY <2>3, <2>4
    <2>6. One(\E x \in events' : x.kind = "conflict") = 0 /\ One(ReadConflict' /\ ~OldConflict') = 0
          /\ One(mr'.conflict /\ ~ReadConflict') = e
      BY <1>3, <2>1, <2>2 DEF One
    <2> QED
      BY <2>2, <2>5, <2>6 DEF ConflictsOK
  <1>15. StaysUntilAnswered'
    BY DEF StaysUntilAnswered, NotesUpTo
  <1>16. ItemsShowNeed'
    BY DEF ItemsShowNeed
  <1> QED
    BY <1>4, <1>5, <1>6, <1>7, <1>8, <1>9, <1>10, <1>11, <1>12, <1>13, <1>14, <1>15, <1>16

LEMMA BeginsAgainInv ==
  ASSUME CheckInv, Begin \/ CheckFails \/ Kill
  PROVE  CheckInv'
  <1>1. CASE Begin
    <2>1. events = {} /\ lost \in BOOLEAN
      BY <1>1 DEF Begin, CheckInv, EventsOK, TypeOK
    <2> QED
      BY <1>1, <2>1, ResetInv DEF Begin
  <1>2. CASE CheckFails
    <2>1. events = {} /\ lost \in BOOLEAN
      BY <1>2 DEF CheckFails, CheckInv, EventsOK, TypeOK
    <2> QED
      BY <1>2, <2>1, ResetInv DEF CheckFails
  <1>3. CASE Kill
    BY <1>3, ResetInv DEF Kill
  <1> QED
    BY <1>1, <1>2, <1>3

\* A call that reads more of what the check has not read, and no note twice.
Reads(new) ==
    /\ at = "reading" /\ at' \in {"reading", "read"} /\ got' = new
    /\ new = [base |-> new.base, head |-> new.head, page |-> new.page, notes |-> new.notes,
              draftBy |-> new.draftBy, resolved |-> new.resolved, reactions |-> new.reactions]
    /\ new.base # None => new.base \in Base
    /\ new.head # None => new.head \in Nat
    /\ new.page \in 0 .. Pages
    /\ new.notes \subseteq 1 .. Len(mr.notes)
    /\ new.resolved \in [Threads -> UserOrNone]
    /\ new.reactions \subseteq Nat \X Users
    /\ UNCHANGED <<mr, watch, saved, present, events, pending, needs, told, lost, seen, answered>>

LEMMA ReadsInv ==
  ASSUME CheckInv, NEW new, Reads(new), PagesOK', PassedOK', ToldOK', MineOK', ConflictsOK'
  PROVE  CheckInv'
  <1> USE DEF CheckInv, Reads
  <1>1. TypeOK'
    BY DEF TypeOK, Steps
  <1>2. OpenOK'
    BY DEF OpenOK, Follows
  <1>3. events = {}
    BY DEF EventsOK
  <1>4. EventsOK' /\ NeedsOK'
    BY <1>3 DEF EventsOK, NeedsOK
  <1>5. NoneLost' /\ PresentOK'
    BY DEF NoneLost, PresentOK, Wanted
  <1>6. StaysUntilAnswered' /\ ItemsShowNeed'
    BY DEF StaysUntilAnswered, NotesUpTo, ItemsShowNeed
  <1> QED
    BY <1>1, <1>2, <1>4, <1>5, <1>6

\* A call that reads no page.
LEMMA ReadsNoPage ==
  ASSUME CheckInv, NEW new, Reads(new), new.page = got.page, new.notes = got.notes
  PROVE  PassedOK' /\ ToldOK' /\ MineOK'
  <1> USE DEF CheckInv, Reads
  <1>1. PassedOK'
    BY DEF PassedOK, IsRead, OldLast
  <1>2. ToldOK'
    BY DEF ToldOK, IsRead, OldLast
  <1>3. MineOK'
    BY DEF MineOK, IsRead
  <1> QED
    BY <1>1, <1>2, <1>3

LEMMA ReadBaseInv ==
  ASSUME CheckInv, ReadBase
  PROVE  CheckInv'
  <1> USE DEF CheckInv
  <1>1. PICK base : base = [state |-> mr.state, draft |-> mr.draft, pipeline |-> mr.pipeline,
                            approved |-> mr.approved, status |-> MergeStatus,
                            conflicts |-> mr.conflict /\ ~mr.checking,
                            mergeable |-> MergeStatus = "mergeable"]
    OBVIOUS
  <1>2. base \in Base /\ base.status = MergeStatus /\ base.conflicts = (mr.conflict /\ ~mr.checking)
    BY <1>1, MrFields DEF Base, MergeStatus, Statuses
  <1>3. PICK new : new = [got EXCEPT !.base = base]
    OBVIOUS
  <1>4. /\ new = [base |-> base, head |-> got.head, page |-> got.page, notes |-> got.notes,
                  draftBy |-> got.draftBy, resolved |-> got.resolved, reactions |-> got.reactions]
        /\ new.base = base /\ new.head = got.head /\ new.page = got.page /\ new.notes = got.notes
        /\ new.draftBy = got.draftBy /\ new.resolved = got.resolved /\ new.reactions = got.reactions
    BY <1>3 DEF TypeOK
  <1>5. Reads(new) /\ at' = "reading" /\ got.base = None
    BY <1>1, <1>2, <1>3, <1>4 DEF ReadBase, Read, Reads, TypeOK
  <1>6. PagesOK'
    BY <1>4, <1>5 DEF PagesOK, Reads, Follows, IsRead
  <1>7. ConflictsOK'
    <2>1. ReadConflict = OldConflict /\ OldConflict' = OldConflict
      BY <1>5 DEF ReadConflict, OldConflict, Reads
    <2>2. ReadConflict' = OldConflict \/ ReadConflict' = mr.conflict
      <3>1. Transient(base.status) <=> mr.checking
        BY <1>2, MrFields DEF Transient, MergeStatus
      <3>2. at' = "reading" /\ got'.base = base
        BY <1>4, <1>5 DEF Reads
      <3> QED
        BY <1>2, <2>1, <3>1, <3>2, MrFields DEF ReadConflict
    <2> QED
      BY <1>5, <2>1, <2>2, MrFields DEF ConflictsOK, Reads, One, TypeOK
  <1> QED
    BY <1>4, <1>5, <1>6, <1>7, ReadsNoPage, ReadsInv

\* The conflict of the base stays as the check read it.
LEMMA SameConflicts ==
  ASSUME ConflictsOK, UNCHANGED <<mr, saved, events, told>>, at \in {"reading", "read"},
         at' \in {"reading", "read"}, got'.base = got.base
  PROVE  ConflictsOK'
  <1>1. ReadConflict' = ReadConflict /\ OldConflict' = OldConflict
    BY DEF ReadConflict, OldConflict
  <1> QED
    BY <1>1 DEF ConflictsOK, One

LEMMA ReadRestInv ==
  ASSUME CheckInv, ReadRest
  PROVE  CheckInv'
  <1> USE DEF CheckInv
  <1>1. PICK new : new = [got EXCEPT !.head = mr.head]
    OBVIOUS
  <1>2. /\ new = [base |-> got.base, head |-> mr.head, page |-> got.page, notes |-> got.notes,
                  draftBy |-> got.draftBy, resolved |-> got.resolved, reactions |-> got.reactions]
        /\ new.base = got.base /\ new.head = mr.head /\ new.page = got.page /\ new.notes = got.notes
        /\ new.draftBy = got.draftBy /\ new.resolved = got.resolved /\ new.reactions = got.reactions
    BY <1>1 DEF TypeOK
  <1>3. Reads(new) /\ at' = "reading"
    BY <1>1, <1>2, MrFields DEF ReadRest, Read, Reads, TypeOK
  <1>4. PagesOK'
    BY <1>2, <1>3 DEF PagesOK, Reads, Follows, IsRead
  <1>5. ConflictsOK'
    BY <1>2, <1>3, SameConflicts DEF Reads
  <1> QED
    BY <1>2, <1>3, <1>4, <1>5, ReadsNoPage, ReadsInv

LEMMA ReadReactionsInv ==
  ASSUME CheckInv, ReadReactions
  PROVE  CheckInv'
  <1> USE DEF CheckInv
  <1>1. PICK new : new = [got EXCEPT !.reactions = ReactionsOn(got.notes)]
    OBVIOUS
  <1>2. /\ new = [base |-> got.base, head |-> got.head, page |-> got.page, notes |-> got.notes,
                  draftBy |-> got.draftBy, resolved |-> got.resolved,
                  reactions |-> ReactionsOn(got.notes)]
        /\ new.base = got.base /\ new.head = got.head /\ new.page = got.page /\ new.notes = got.notes
        /\ new.draftBy = got.draftBy /\ new.resolved = got.resolved
        /\ new.reactions = ReactionsOn(got.notes)
    BY <1>1 DEF TypeOK
  <1>3. ReactionsOn(got.notes) \subseteq mr.reactions
    BY DEF ReactionsOn
  <1>4. Reads(new) /\ at' = "read" /\ AllRead
    BY <1>1, <1>2, <1>3, MrFields DEF ReadReactions, Reads, TypeOK
  <1>5. PagesOK'
    <2>1. AllRead'
      BY <1>2, <1>4 DEF AllRead, Reads
    <2>2. ASSUME NEW n \in got.notes, n \notin answered, NEW m \in got.notes, Follows(m, n)
          PROVE  <<m, Me>> \notin new.reactions
      <3>1. n \in 1 .. Len(mr.notes) /\ m \in 1 .. Len(mr.notes)
        BY <2>2 DEF TypeOK
      <3> QED
        BY <1>2, <1>3, <2>2, <3>1 DEF OpenOK
    <2>3. got' = new /\ at' = "read" /\ mr' = mr /\ answered' = answered
      BY <1>4 DEF Reads
    <2> QED
      BY <1>2, <2>1, <2>2, <2>3 DEF PagesOK, Follows, IsRead
  <1>6. ConflictsOK'
    BY <1>2, <1>4, SameConflicts DEF Reads
  <1> QED
    BY <1>2, <1>4, <1>5, <1>6, ReadsNoPage, ReadsInv

LEMMA ReadPageInv ==
  ASSUME CheckInv, ReadPage
  PROVE  CheckInv'
  <1> USE DEF CheckInv
  <1>1. PICK page : page = got.page + 1
    OBVIOUS
  <1>2. PICK here \in SUBSET Threads : here = {t \in Threads : PageOf[t] = page}
    OBVIOUS
  <1>3. PICK notes : notes = got.notes \union {n \in DOMAIN mr.notes : mr.notes[n].thread \in here}
    OBVIOUS
  <1>4. PICK resolved : resolved = [t \in Threads |-> IF t \in here THEN mr.resolved[t]
                                                       ELSE got.resolved[t]]
    OBVIOUS
  <1>5. PICK new : new = [got EXCEPT !.page = page, !.notes = notes, !.resolved = resolved,
                                     !.draftBy = Actor]
    OBVIOUS
  <1>6. /\ new = [base |-> got.base, head |-> got.head, page |-> page, notes |-> notes,
                  draftBy |-> Actor, resolved |-> resolved, reactions |-> got.reactions]
        /\ new.base = got.base /\ new.head = got.head /\ new.page = page /\ new.notes = notes
        /\ new.draftBy = Actor /\ new.resolved = resolved /\ new.reactions = got.reactions
    BY <1>5 DEF TypeOK
  <1>7. page \in 0 .. Pages /\ page \in Nat /\ got.page \in Nat /\ page = got.page + 1
    BY <1>1, PagesAre DEF TypeOK, ReadPage
  <1>8. resolved \in [Threads -> UserOrNone]
    <2>1. \A t \in Threads : mr.resolved[t] \in UserOrNone /\ got.resolved[t] \in UserOrNone
      BY MrFields DEF TypeOK
    <2> QED
      BY <1>4, <2>1
  <1>9. notes \subseteq 1 .. Len(mr.notes) /\ got.notes \subseteq notes
    BY <1>3, MrFields DEF TypeOK
  <1>10. at = "reading" /\ got' = new
         /\ UNCHANGED <<mr, watch, at, saved, present, events, pending, needs, told, lost, seen, answered>>
    BY <1>1, <1>2, <1>3, <1>4, <1>5 DEF ReadPage, Read
  <1>11. Reads(new)
    <2>1. /\ got.base # None => got.base \in Base
          /\ got.head # None => got.head \in Nat
          /\ got.reactions \subseteq Nat \X Users
      BY DEF TypeOK
    <2>2. /\ new = [base |-> new.base, head |-> new.head, page |-> new.page, notes |-> new.notes,
                    draftBy |-> new.draftBy, resolved |-> new.resolved, reactions |-> new.reactions]
      BY <1>6
    <2> QED
      BY <1>6, <1>7, <1>8, <1>9, <1>10, <2>1, <2>2 DEF Reads
  <1>12. \A t \in Threads : PageOf[t] \in Nat
    BY PagesAre
  <1>13. /\ got'.page = page /\ got'.notes = notes /\ got'.resolved = resolved
         /\ got'.reactions = got.reactions
    BY <1>6, <1>10
  <1>14. ASSUME NEW n \in 1 .. Len(mr.notes)
         PROVE  /\ n \in notes <=> n \in got.notes \/ PageOf[mr.notes[n].thread] = page
                /\ PageOf[mr.notes[n].thread] <= page
                       <=> IsRead(mr.notes[n].thread) \/ PageOf[mr.notes[n].thread] = page
    BY <1>2, <1>3, <1>7, <1>12, MrFields DEF IsRead
  <1>15. PagesOK'
    <2>1. ASSUME NEW n \in notes
          PROVE  /\ PageOf[mr.notes[n].thread] <= page
                 /\ \A m \in 1 .. n : mr.notes[m].thread = mr.notes[n].thread => m \in notes
      <3>1. n \in 1 .. Len(mr.notes) /\ \A m \in 1 .. n : m \in 1 .. Len(mr.notes)
        BY <1>9, MrFields
      <3>2. CASE n \in got.notes
        BY <1>9, <1>14, <3>1, <3>2 DEF PagesOK
      <3>3. CASE PageOf[mr.notes[n].thread] = page
        BY <1>14, <3>1, <3>3
      <3> QED
        BY <1>14, <3>1, <3>2, <3>3
    <2>2. ASSUME NEW n \in notes, n \notin answered
          PROVE  resolved[mr.notes[n].thread] = None
      <3>1. n \in 1 .. Len(mr.notes) /\ mr.notes[n].thread \in Threads
        BY <1>9, MrFields
      <3>2. CASE PageOf[mr.notes[n].thread] = page
        BY <1>2, <1>4, <2>2, <3>1, <3>2 DEF OpenOK
      <3>3. CASE PageOf[mr.notes[n].thread] # page
        BY <1>2, <1>4, <1>14, <2>2, <3>1, <3>3 DEF PagesOK
      <3> QED
        BY <3>2, <3>3
    <2> QED
      BY <1>10, <1>13, <2>1, <2>2 DEF PagesOK, Follows, IsRead
  <1>16. PassedOK'
    <2>1. SUFFICES ASSUME NEW n \in 1 .. Len(mr.notes), mr.notes[n].author = Other,
                          PageOf[mr.notes[n].thread] <= page, n \notin notes
                   PROVE  n \in seen
      BY <1>10, <1>13 DEF PassedOK, IsRead
    <2>2. IsRead(mr.notes[n].thread) /\ n \notin got.notes
      BY <1>14, <2>1
    <2>3. got.page # Pages
      BY <1>7, PagesAre
    <2> QED
      BY <1>10, <2>1, <2>2, <2>3 DEF PassedOK
  <1>17. ToldOK'
    <2>1. ASSUME NEW n \in told.notes
          PROVE  n <= OldLast /\ (PageOf[mr.notes[n].thread] <= page => n \in notes)
      BY <1>14 DEF ToldOK, TypeOK
    <2>2. OldLast' = OldLast
      BY <1>10 DEF OldLast
    <2> QED
      BY <1>10, <1>13, <2>1, <2>2 DEF ToldOK, IsRead
  <1>18. MineOK'
    <2>1. ASSUME watch.mode = "review", NEW t \in pending \intersect Threads
          PROVE  \E n \in 1 .. Len(mr.notes) :
                     mr.notes[n] = [author |-> Me, thread |-> t] /\ (PageOf[t] <= page => n \in notes)
      <3>1. PICK n \in 1 .. Len(mr.notes) :
                     mr.notes[n] = [author |-> Me, thread |-> t] /\ (IsRead(t) => n \in got.notes)
        BY <2>1 DEF MineOK
      <3>2. mr.notes[n].thread = t
        BY <3>1
      <3> QED
        BY <1>14, <3>1, <3>2
    <2> QED
      BY <1>10, <1>13, <2>1 DEF MineOK, IsRead
  <1>19. ConflictsOK'
    BY <1>6, <1>10, SameConflicts
  <1> QED
    BY <1>11, <1>15, <1>16, <1>17, <1>18, <1>19, ReadsInv

-----------------------------------------------------------------------------
(* The comparison *)

\* The thread of a comment with no answer is in what the check saw as open.
LEMMA UnansweredIsUnaddressed ==
  ASSUME TypeOK, OpenOK, PagesOK, NEW n \in got.notes, n \notin answered
  PROVE  mr.notes[n].thread \in Unaddressed
  <1>1. PICK t : t = mr.notes[n].thread
    OBVIOUS
  <1>2. n \in 1 .. Len(mr.notes) /\ t \in Threads /\ Len(mr.notes) \in Nat
    BY <1>1, MrFields DEF TypeOK
  <1>3. n \in NotesOf(t) /\ NotesOf(t) \in SUBSET (0 .. Len(mr.notes))
    BY <1>1, <1>2 DEF NotesOf, TypeOK
  <1>4. PICK m : m = Max(NotesOf(t)) /\ m \in NotesOf(t) /\ n <= m
    BY <1>2, <1>3, BoundedMax
  <1>5. Follows(m, n) /\ m \in got.notes
    <2>1. m \in got.notes /\ mr.notes[m].thread = t
      BY <1>4 DEF NotesOf
    <2>2. m \in 1 .. Len(mr.notes)
      BY <2>1 DEF TypeOK
    <2> QED
      BY <1>1, <1>2, <1>4, <2>1, <2>2 DEF Follows
  <1>6. Author(m) # Me
    BY <1>2, <1>5 DEF OpenOK, Follows, Author
  <1>7. got.resolved[t] = None /\ <<m, Me>> \notin got.reactions
    BY <1>1, <1>5 DEF PagesOK
  <1> QED
    BY <1>1, <1>2, <1>3, <1>4, <1>6, <1>7 DEF Unaddressed, SeenThreads

OldState == IF saved = None THEN Fallback ELSE saved

\* What the comparison has of the old state.
LEMMA OldStateIs ==
  ASSUME CheckInv, at = "read"
  PROVE  /\ OldState.lastNote = OldLast /\ OldLast \in Nat /\ OldLast <= Len(mr.notes)
         /\ OldState.conflicts = OldConflict /\ OldConflict \in BOOLEAN
         /\ OldState.mergeable \in BOOLEAN
         /\ OldState.status \in {None} \union Statuses
         /\ OldState.seen \in {None} \union Nat
         /\ got.base \in Base /\ got.head \in Nat /\ got.page = Pages
         /\ \A t \in Threads : IsRead(t)
  <1> USE DEF CheckInv
  <1>1. AllRead
    BY DEF PagesOK
  <1>2. /\ got.base \in Base /\ got.head \in Nat /\ got.page = Pages
        /\ \A t \in Threads : IsRead(t)
    BY <1>1, PagesAre DEF AllRead, TypeOK, IsRead
  <1>3. OldLast \in Nat /\ OldLast <= Len(mr.notes)
    BY MrFields DEF ToldOK
  <1>4. CASE saved = None
    BY <1>2, <1>3, <1>4 DEF OldState, Fallback, OldLast, OldConflict
  <1>5. CASE saved # None
    <2>1. saved \in EngineMr
      BY <1>5 DEF TypeOK
    <2>2. /\ saved.conflicts \in BOOLEAN /\ saved.mergeable \in BOOLEAN
          /\ saved.status \in {None} \union Statuses /\ saved.seen \in Nat
      BY <2>1 DEF EngineMr, Statuses
    <2> QED
      BY <1>2, <1>3, <1>5, <2>2 DEF OldState, OldLast, OldConflict
  <1> QED
    BY <1>4, <1>5

\* The last note that the check saves.
LEMMA LastNoteIs ==
  ASSUME CheckInv, at = "read"
  PROVE  LET last == Max(got.notes \union {OldLast})
         IN  /\ last \in got.notes \union {OldLast} /\ last \in 0 .. Len(mr.notes)
             /\ OldLast <= last /\ \A n \in got.notes : n <= last
  <1>1. PICK S : S = got.notes \union {OldLast}
    OBVIOUS
  <1>2. S \in SUBSET (0 .. Len(mr.notes)) /\ S # {} /\ Len(mr.notes) \in Nat
    BY <1>1, MrFields DEF CheckInv, TypeOK, ToldOK
  <1>3. Max(S) \in S /\ \A x \in S : x <= Max(S)
    BY <1>2, BoundedMax
  <1> QED
    BY <1>1, <1>2, <1>3

LEMMA NewStateIs ==
  ASSUME CheckInv, at = "read", NEW new, new = NewState(OldState)
  PROVE  /\ new = [state |-> got.base.state, draft |-> got.base.draft,
                   pipeline |-> got.base.pipeline, approved |-> got.base.approved,
                   conflicts |-> new.conflicts, mergeable |-> new.mergeable, status |-> new.status,
                   seen |-> new.seen, lastNote |-> new.lastNote, reactions |-> got.reactions,
                   head |-> got.head, resolved |-> ResolvedMine, needs |-> {}]
         /\ new.conflicts = IF Transient(got.base.status) THEN OldConflict ELSE got.base.conflicts
         /\ new.lastNote = Max(got.notes \union {OldLast})
         /\ new.state \in States
         /\ [new EXCEPT !.needs = OpenNeeds(new)] \in EngineMr
  <1>1. PICK base : base = got.base
    OBVIOUS
  <1>2. /\ base \in Base /\ base.state \in States /\ base.draft \in BOOLEAN
        /\ base.pipeline \in Pipeline /\ base.approved \subseteq Users /\ base.status \in Statuses
        /\ base.conflicts \in BOOLEAN /\ base.mergeable \in BOOLEAN
    BY <1>1, OldStateIs DEF Base
  <1>3. PICK conflicts \in BOOLEAN, mergeable \in BOOLEAN, status \in {None} \union Statuses, head \in Nat :
            /\ conflicts = (IF Transient(base.status) THEN OldState.conflicts ELSE base.conflicts)
            /\ mergeable = (IF Transient(base.status) THEN OldState.mergeable ELSE base.mergeable)
            /\ status = (IF Transient(base.status) THEN OldState.status ELSE base.status)
            /\ head = IF Seen(OldState) THEN got.head ELSE OldState.seen
    <2>1. (IF Seen(OldState) THEN got.head ELSE OldState.seen) \in Nat
      BY OldStateIs DEF Seen
    <2> QED
      BY SMTT(60), <1>1, <1>2, <2>1, OldStateIs
  <1>4. PICK last \in Nat : last = Max(got.notes \union {OldLast})
    BY LastNoteIs, MrFields DEF CheckInv
  <1>5. new = [state |-> base.state, draft |-> base.draft, pipeline |-> base.pipeline,
               approved |-> base.approved, conflicts |-> conflicts, mergeable |-> mergeable,
               status |-> status, seen |-> head, lastNote |-> last, reactions |-> got.reactions,
               head |-> got.head, resolved |-> ResolvedMine, needs |-> {}]
    BY <1>1, <1>3, <1>4, OldStateIs DEF NewState
  <1>6. OpenNeeds(new) \in SUBSET Needs
    BY DEF OpenNeeds
  <1>7. ResolvedMine \in SUBSET Threads /\ got.reactions \in SUBSET (Nat \X Users) /\ got.head \in Nat
    BY OldStateIs DEF ResolvedMine, SeenThreads, CheckInv, TypeOK
  <1>8. PICK asked \in SUBSET Needs : asked = OpenNeeds(new)
    BY <1>6
  <1>9. [new EXCEPT !.needs = asked] \in EngineMr
    BY <1>2, <1>5, <1>7 DEF EngineMr, States, Pipeline, Statuses
  <1> QED
    BY <1>1, <1>2, <1>3, <1>4, <1>5, <1>8, <1>9, OldStateIs

CommentEvent(e, old) ==
    \E n \in got.notes :
        /\ n > old.lastNote
        /\ e = WithItem(IF Author(n) = Me THEN "own-comment" ELSE "comment", n,
                        IF mr.notes[n].thread \in Unaddressed THEN mr.notes[n].thread ELSE None)

OtherEvent(e, old, new) ==
    /\ e = WithItem(e.kind, e.about, e.item)
    /\ e.kind \notin {"comment", "own-comment", "unaddressed"}
    /\ e.item \in {None, "pipeline", "conflict"}
    /\ e.kind = "pushed" => e.item = None
    /\ e.kind = "conflict" => e = WithItem("conflict", None, "conflict") /\ new.conflicts /\ ~old.conflicts

LEMMA EventIs ==
  ASSUME NEW kind, NEW about, NEW item
  PROVE  /\ WithItem(kind, about, item).kind = kind /\ WithItem(kind, about, item).about = about
         /\ WithItem(kind, about, item).item = item
         /\ Event(kind, about) = WithItem(kind, about, None)
  BY DEF WithItem, Event

LEMMA OtherEventIs ==
  ASSUME NEW kind, NEW about, NEW item, NEW old, NEW new,
         kind \notin {"comment", "own-comment", "unaddressed", "conflict"},
         item \in {None, "pipeline", "conflict"}, kind = "pushed" => item = None
  PROVE  OtherEvent(WithItem(kind, about, item), old, new)
  BY EventIs DEF OtherEvent

LEMMA PlainEventIs ==
  ASSUME NEW kind, NEW about, NEW old, NEW new,
         kind \notin {"comment", "own-comment", "unaddressed", "conflict"}
  PROVE  OtherEvent(Event(kind, about), old, new)
  <1>1. Event(kind, about) = WithItem(kind, about, None)
    BY EventIs
  <1>2. OtherEvent(WithItem(kind, about, None), old, new)
    BY OtherEventIs
  <1> QED
    BY <1>1, <1>2

LEMMA MrEventsAre ==
  ASSUME NEW old, NEW new, new.state \in States, NEW e \in MrEvents(old, new)
  PROVE  CommentEvent(e, old) \/ OtherEvent(e, old, new)
  <1>1. CASE e \in CommentEvents(old)
    BY <1>1 DEF CommentEvents, CommentEvent
  <1>2. CASE e \in ReactionEvents(old)
    <2>1. PICK r : e = Event("reaction", r)
      BY <1>2 DEF ReactionEvents
    <2> QED
      BY <2>1, PlainEventIs
  <1>3. CASE e \in PipelineEvents(old, new)
    <2>1. CASE e = WithItem("pipeline", new.pipeline, "pipeline")
      <3>1. OtherEvent(WithItem("pipeline", new.pipeline, "pipeline"), old, new)
        BY OtherEventIs
      <3> QED
        BY <2>1, <3>1
    <2>2. CASE e = Event("pipeline", new.pipeline)
      BY <2>2, PlainEventIs
    <2> QED
      BY <1>3, <2>1, <2>2 DEF PipelineEvents
  <1>4. CASE e \in ApprovalEvents(old, new)
    <2>1. PICK u : e = Event("approved", u) \/ e = Event("unapproved", u)
      BY <1>4 DEF ApprovalEvents
    <2> QED
      BY <2>1, PlainEventIs
  <1>5. CASE e \in DraftEvents(old, new)
    <2>1. e = Event("draft", got.draftBy) \/ e = Event("ready", got.draftBy)
      BY <1>5 DEF DraftEvents
    <2> QED
      BY <2>1, PlainEventIs
  <1>6. CASE e \in MergeEvents(old, new)
    <2>1. CASE e = WithItem("conflict", None, "conflict") /\ new.conflicts /\ ~old.conflicts
      BY <2>1, EventIs DEF OtherEvent
    <2>2. CASE e = Event("mergeable", None)
      BY <2>2, PlainEventIs
    <2> QED
      BY <1>6, <2>1, <2>2 DEF MergeEvents
  <1>7. CASE e \in EndEvents(old, new)
    <2>1. new.state \in {"merged", "closed"} /\ e = WithItem(new.state, None, None)
      BY <1>7, EventIs DEF EndEvents, States
    <2> QED
      BY <2>1, OtherEventIs
  <1>8. CASE e \in PushEvents(old, new)
    <2>1. e = Event("pushed", <<old.head, new.head>>)
      BY <1>8 DEF PushEvents
    <2> QED
      BY <2>1, PlainEventIs
  <1>9. CASE e \in ResolvedEvents(old)
    <2>1. PICK t : e = Event("resolved", t)
      BY <1>9 DEF ResolvedEvents
    <2> QED
      BY <2>1, PlainEventIs
  <1> QED
    BY <1>1, <1>2, <1>3, <1>4, <1>5, <1>6, <1>7, <1>8, <1>9 DEF MrEvents

\* The shape of an event of a check, for the check that saves `last`.
EventOK(e, all, last) ==
    /\ e = WithItem(e.kind, e.about, e.item)
    /\ e.kind = "comment" =>
           /\ e.about \in got.notes /\ e.about <= last /\ e.about \notin told.notes
           /\ e.about \notin answered => e.item = mr.notes[e.about].thread
    /\ e.item \in Threads => Line(e.item) \in all
    /\ e.kind = "unaddressed" => e.about \in Threads /\ e.item = e.about
    /\ e.kind = "conflict" => e = WithItem("conflict", None, "conflict")
    /\ e.kind = "pushed" => e.item = None

\* The events of a check, with the lines of the open threads.
LEMMA LinesAre ==
  ASSUME CheckInv, at = "read", NEW new, new = NewState(OldState),
         NEW all, all = Lines(MrEvents(OldState, new))
  PROVE  /\ \A e \in all : EventOK(e, all, new.lastNote)
         /\ \A n \in got.notes : n > OldLast /\ Author(n) # Me => n \in CommentsOf(all)
         /\ (\E e \in all : e.kind = "conflict") => new.conflicts /\ ~OldConflict
  <1> USE DEF CheckInv
  <1>1. new.state \in States /\ new.lastNote = Max(got.notes \union {OldLast})
    BY NewStateIs
  <1>2. PICK last \in Nat : last = new.lastNote /\ OldLast <= last /\ \A n \in got.notes : n <= last
    <2>1. /\ new.lastNote \in 0 .. Len(mr.notes) /\ OldLast <= new.lastNote
          /\ \A n \in got.notes : n <= new.lastNote
      BY <1>1, LastNoteIs
    <2>2. new.lastNote \in Nat
      BY <2>1, MrFields
    <2> QED
      BY <2>1, <2>2
  <1>3. /\ \A e \in all : e \in MrEvents(OldState, new) \/ \E t \in Unaddressed : e = Line(t)
        /\ all # {} => \A t \in Unaddressed : Line(t) \in all
        /\ \A e \in MrEvents(OldState, new) : e \in all
    BY DEF Lines, Line
  <1>4. Unaddressed \subseteq Threads
    BY DEF Unaddressed, SeenThreads
  <1>5. ASSUME NEW t \in Unaddressed, NEW e, e = Line(t), e \in all
        PROVE  EventOK(e, all, last) /\ e.kind = "unaddressed"
    BY <1>4, <1>5, EventIs DEF EventOK, Line
  <1>6. ASSUME NEW e \in all, CommentEvent(e, OldState)
        PROVE  EventOK(e, all, last) /\ e.kind # "conflict"
    <2>1. PICK n \in got.notes :
              /\ n > OldState.lastNote
              /\ e = WithItem(IF Author(n) = Me THEN "own-comment" ELSE "comment", n,
                              IF mr.notes[n].thread \in Unaddressed THEN mr.notes[n].thread ELSE None)
      BY <1>6 DEF CommentEvent
    <2>2. PICK kind, item :
              /\ kind = (IF Author(n) = Me THEN "own-comment" ELSE "comment")
              /\ item = (IF mr.notes[n].thread \in Unaddressed THEN mr.notes[n].thread ELSE None)
      OBVIOUS
    <2>3. e = WithItem(kind, n, item) /\ e.kind = kind /\ e.about = n /\ e.item = item
      BY <2>1, <2>2, EventIs
    <2>4. n > OldLast /\ n \in Nat
      BY <2>1, OldStateIs, MrFields DEF TypeOK
    <2>5. n \notin told.notes
      BY <2>4, OldStateIs, MrFields DEF ToldOK, TypeOK
    <2>6. n \notin answered => item = mr.notes[n].thread
      BY <2>2, UnansweredIsUnaddressed
    <2>7. item \in Threads => Line(item) \in all
      BY <1>3, <2>2
    <2>8. kind \in {"own-comment", "comment"}
      BY <2>2
    <2> QED
      BY <1>2, <2>3, <2>5, <2>6, <2>7, <2>8 DEF EventOK
  <1>7. ASSUME NEW e \in all, OtherEvent(e, OldState, new)
        PROVE  EventOK(e, all, last) /\ (e.kind = "conflict" => new.conflicts /\ ~OldConflict)
    <2>1. e.item \notin Threads
      BY <1>7 DEF OtherEvent
    <2> QED
      BY <1>7, <2>1, OldStateIs DEF OtherEvent, EventOK
  <1>8. \A e \in all : CommentEvent(e, OldState) \/ OtherEvent(e, OldState, new)
                           \/ \E t \in Unaddressed : e = Line(t)
    BY <1>1, <1>3, MrEventsAre
  <1>9. ASSUME NEW n \in got.notes, n > OldLast, Author(n) # Me
        PROVE  n \in CommentsOf(all)
    <2>1. PICK item : item = IF mr.notes[n].thread \in Unaddressed THEN mr.notes[n].thread ELSE None
      OBVIOUS
    <2>2. PICK e : e = WithItem("comment", n, item)
      OBVIOUS
    <2>3. e \in CommentEvents(OldState)
      <3>1. n > OldState.lastNote
        BY <1>9, OldStateIs
      <3> QED
        BY <1>9, <2>1, <2>2, <3>1 DEF CommentEvents
    <2>4. e \in all
      BY <1>3, <2>3 DEF MrEvents
    <2>5. e.kind = "comment" /\ e.about = n
      BY <2>2, EventIs
    <2> QED
      BY <2>4, <2>5 DEF CommentsOf
  <1> QED
    BY <1>2, <1>5, <1>6, <1>7, <1>8, <1>9

\* The needs that go with the items of the check.
LEMMA NeedsOfItems ==
  ASSUME NEW new, NEW t \in PresentItems(new)
  PROVE  /\ t \in Threads => t \in Unaddressed /\ "reply" \in OpenNeeds(new)
                             /\ (YouCommented(t) => "reply_to_you" \in OpenNeeds(new))
         /\ t = "pipeline" /\ t \notin Threads => "failed" \in OpenNeeds(new)
         /\ t = "conflict" /\ t \notin Threads => "conflict" \in OpenNeeds(new)
  <1>1. new.state = "opened"
    BY DEF PresentItems
  <1>2. /\ t \in Threads => t \in Unaddressed
        /\ t = "pipeline" /\ t \notin Threads => new.pipeline.status = "failed"
        /\ t = "conflict" /\ t \notin Threads => new.status = "conflict"
    BY <1>1 DEF PresentItems, Unaddressed, SeenThreads
  <1>3. Unaddressed # {} => "reply" \in OpenNeeds(new)
    BY <1>1 DEF OpenNeeds, Needs
  <1>4. ASSUME NEW u \in Unaddressed, YouCommented(u) PROVE "reply_to_you" \in OpenNeeds(new)
    BY <1>1, <1>4 DEF OpenNeeds, Needs
  <1>5. new.pipeline.status = "failed" => "failed" \in OpenNeeds(new)
    BY <1>1 DEF OpenNeeds, Needs
  <1>6. new.status = "conflict" => "conflict" \in OpenNeeds(new)
    BY <1>1 DEF OpenNeeds, Needs
  <1> QED
    BY <1>2, <1>3, <1>4, <1>5, <1>6

LEMMA SaveInv ==
  ASSUME CheckInv, Save
  PROVE  CheckInv'
  <1> USE DEF CheckInv
  <1>1. PICK new : new = NewState(OldState)
    OBVIOUS
  <1>2. PICK sv : sv = [new EXCEPT !.needs = OpenNeeds(new)]
    OBVIOUS
  <1>3. PICK all : all = IF saved = None THEN {} ELSE Lines(MrEvents(OldState, new))
    OBVIOUS
  <1>4. /\ at = "read" /\ at' = "saved" /\ saved' = sv /\ present' = PresentItems(new)
        /\ events' = all
        /\ seen' = IF saved = None THEN seen \union {n \in got.notes : Author(n) = Other} ELSE seen
        /\ answered' = IF new.state = "opened" THEN answered ELSE answered \union got.notes
        /\ UNCHANGED <<mr, watch, got, pending, needs, told, lost>>
    BY <1>1, <1>2, <1>3 DEF Save, OldState
  <1>5. /\ sv \in EngineMr /\ sv # None
        /\ sv.lastNote = new.lastNote /\ sv.conflicts = new.conflicts /\ sv.needs = OpenNeeds(new)
        /\ new.lastNote = Max(got.notes \union {OldLast})
        /\ new.conflicts = IF Transient(got.base.status) THEN OldConflict ELSE got.base.conflicts
    <2>1. /\ new = [state |-> got.base.state, draft |-> got.base.draft,
                    pipeline |-> got.base.pipeline, approved |-> got.base.approved,
                    conflicts |-> new.conflicts, mergeable |-> new.mergeable, status |-> new.status,
                    seen |-> new.seen, lastNote |-> new.lastNote, reactions |-> got.reactions,
                    head |-> got.head, resolved |-> ResolvedMine, needs |-> {}]
          /\ new.conflicts = IF Transient(got.base.status) THEN OldConflict ELSE got.base.conflicts
          /\ new.lastNote = Max(got.notes \union {OldLast})
          /\ [new EXCEPT !.needs = OpenNeeds(new)] \in EngineMr
      BY <1>1, <1>4, NewStateIs
    <2>2. sv.lastNote = new.lastNote /\ sv.conflicts = new.conflicts /\ sv.needs = OpenNeeds(new)
      BY <1>2, <2>1
    <2>3. sv \in EngineMr /\ sv # None
      BY <1>2, <2>1
    <2> QED
      BY <2>1, <2>2, <2>3
  <1>6. PICK last \in Nat : last = sv.lastNote /\ last \in got.notes \union {OldLast}
            /\ last <= Len(mr.notes) /\ OldLast <= last /\ \A n \in got.notes : n <= last
    <2>1. /\ sv.lastNote \in got.notes \union {OldLast} /\ sv.lastNote \in 0 .. Len(mr.notes)
          /\ OldLast <= sv.lastNote /\ \A n \in got.notes : n <= sv.lastNote
      BY <1>4, <1>5, LastNoteIs
    <2>2. sv.lastNote \in Nat /\ sv.lastNote <= Len(mr.notes)
      BY <2>1, MrFields
    <2> QED
      BY <2>1, <2>2
  <1>7. OldLast' = last /\ OldConflict' = new.conflicts
    <2>1. sv.conflicts \in BOOLEAN
      BY <1>5 DEF EngineMr
    <2> QED
      BY <1>4, <1>5, <1>6, <2>1 DEF OldLast, OldConflict
  <1>8. /\ \A e \in all : EventOK(e, all, last)
        /\ saved # None => \A n \in got.notes : n > OldLast /\ Author(n) # Me => n \in CommentsOf(all)
        /\ (\E e \in all : e.kind = "conflict") => new.conflicts /\ ~OldConflict
    BY <1>1, <1>3, <1>4, <1>5, <1>6, LinesAre
  <1>9. events = {}
    BY <1>4 DEF EventsOK
  <1>10. answered \subseteq answered'
    BY <1>4
  <1>11. TypeOK'
    BY <1>4, <1>5 DEF TypeOK, Steps
  <1>12. OpenOK'
    BY <1>4, <1>10 DEF OpenOK, Follows
  <1>13. PagesOK'
    BY <1>4, <1>10 DEF PagesOK, Follows, IsRead, AllRead
  <1>14. PassedOK'
    BY <1>4 DEF PassedOK
  <1>15. ToldOK'
    <2>1. \A n \in told.notes : n \in Nat /\ n <= OldLast
      BY MrFields DEF ToldOK, TypeOK
    <2>2. \A n \in told.notes : n <= last
      BY <1>4, <1>6, <2>1, OldStateIs
    <2>3. last \in 0 .. Len(mr.notes)
      BY <1>6, MrFields
    <2> QED
      BY <1>4, <1>7, <2>2, <2>3 DEF ToldOK, IsRead
  <1>16. EventsOK'
    <2>1. ASSUME NEW e \in all
          PROVE  /\ e = WithItem(e.kind, e.about, e.item)
                 /\ e.kind = "comment" =>
                        /\ e.about \in got.notes /\ e.about <= last /\ e.about \notin told.notes
                        /\ e.about \notin answered' => e.item = mr.notes[e.about].thread
                 /\ e.item \in Threads => Line(e.item) \in all
                 /\ e.kind = "unaddressed" => e.about \in Threads /\ e.item = e.about
                 /\ e.kind = "conflict" => e = WithItem("conflict", None, "conflict")
                 /\ e.kind = "pushed" => e.item = None
      <3>1. EventOK(e, all, last)
        BY <1>8
      <3> QED
        BY <1>10, <3>1 DEF EventOK
    <2>2. at' = "saved" /\ saved' # None
      BY <1>4, <1>5
    <2> QED
      BY <1>4, <1>7, <2>1, <2>2 DEF EventsOK, Line
  <1>17. NoneLost'
    <2>1. SUFFICES ASSUME ~lost, Wanted("comment"), NEW n \in 1 .. Len(mr.notes),
                          mr.notes[n].author = Other, n <= last
                   PROVE  n \in told.notes \union seen' \union CommentsOf(all)
      BY <1>4, <1>6 DEF NoneLost, Wanted, CommentsOf
    <2>2. IsRead(mr.notes[n].thread) /\ got.page = Pages
      BY <1>4, <2>1, OldStateIs, MrFields
    <2>3. CASE n \notin got.notes
      <3>1. n \in seen \/ (OldLast < n /\ \A m \in got.notes : m < n)
        BY <1>4, <2>1, <2>2, <2>3 DEF PassedOK
      <3>2. OldLast \in Nat /\ n \in Nat /\ \A m \in got.notes : m \in Nat
        BY <1>4, <2>1, OldStateIs, MrFields DEF TypeOK
      <3>3. n \in seen
        BY <1>6, <2>1, <3>1, <3>2
      <3> QED
        BY <1>4, <3>3
    <2>4. CASE n \in got.notes /\ saved = None
      BY <1>4, <2>1, <2>4 DEF Author
    <2>5. CASE n \in got.notes /\ saved # None /\ n <= OldLast
      <3>1. OldLast = saved.lastNote
        BY <2>5 DEF OldLast
      <3>2. n \in told.notes \union seen \union CommentsOf(events)
        BY <2>1, <2>5, <3>1 DEF NoneLost
      <3> QED
        BY <1>4, <1>9, <3>2 DEF CommentsOf
    <2>6. CASE n \in got.notes /\ saved # None /\ n > OldLast
      <3>1. Author(n) # Me
        BY <2>1 DEF Author
      <3> QED
        BY <1>8, <2>6, <3>1
    <2> QED
      BY <1>4, <2>1, <2>3, <2>4, <2>5, <2>6, OldStateIs
  <1>18. PresentOK'
    <2>1. SUFFICES ASSUME NEW n \in told.notes \union CommentsOf(all), n \notin answered'
                   PROVE  mr.notes[n].thread \in PresentItems(new)
      BY <1>4 DEF PresentOK, CommentsOf
    <2>2. n \in got.notes
      <3>1. CASE n \in told.notes
        <4>1. n \in 1 .. Len(mr.notes) /\ mr.notes[n].thread \in Threads
          BY <3>1, MrFields DEF TypeOK
        <4>2. IsRead(mr.notes[n].thread)
          BY <1>4, <4>1, OldStateIs
        <4> QED
          BY <3>1, <4>2 DEF ToldOK
      <3>2. CASE n \in CommentsOf(all)
        <4>1. PICK e \in all : e.kind = "comment" /\ e.about = n
          BY <3>2 DEF CommentsOf
        <4>2. EventOK(e, all, last)
          BY <1>8
        <4> QED
          BY <4>1, <4>2 DEF EventOK
      <3> QED
        BY <3>1, <3>2
    <2>3. new.state = "opened" /\ n \notin answered
      BY <1>4, <2>1, <2>2
    <2>4. mr.notes[n].thread \in Unaddressed
      BY <2>2, <2>3, UnansweredIsUnaddressed
    <2> QED
      BY <2>3, <2>4 DEF PresentItems
  <1>19. MineOK'
    BY <1>4 DEF MineOK, IsRead
  <1>20. NeedsOK'
    <2>1. "pipeline" \notin Threads /\ "conflict" \notin Threads
      OBVIOUS
    <2>2. /\ \A t \in PresentItems(new) \intersect Threads :
                 "reply" \in sv.needs /\ (YouCommented(t) => "reply_to_you" \in sv.needs)
          /\ "pipeline" \in PresentItems(new) => "failed" \in sv.needs
          /\ "conflict" \in PresentItems(new) => "conflict" \in sv.needs
      BY <1>5, <2>1, NeedsOfItems
    <2>3. \A t : YouCommented(t)' = YouCommented(t)
      BY <1>4 DEF YouCommented, NotesOf, Author
    <2> QED
      BY <1>4, <1>5, <2>2, <2>3 DEF NeedsOK
  <1>21. ConflictsOK'
    <2>1. ReadConflict' = new.conflicts /\ ReadConflict = new.conflicts
      <3>1. got.base # None
        BY <1>4 DEF PagesOK, AllRead
      <3>2. ReadConflict' = OldConflict'
        BY <1>4 DEF ReadConflict, OldConflict
      <3> QED
        BY <1>4, <1>5, <1>7, <3>1, <3>2 DEF ReadConflict
    <2>2. PICK a \in Nat, b \in Nat, c \in Nat, d \in Nat, e \in Nat, starts \in Nat :
              /\ a = told.conflicts /\ b = One(\E x \in events : x.kind = "conflict")
              /\ c = One(ReadConflict /\ ~OldConflict) /\ d = One(mr.conflict /\ ~ReadConflict)
              /\ e = One(\E x \in all : x.kind = "conflict") /\ starts = mr.starts
      <3>1. told.conflicts \in Nat /\ mr.starts \in Nat
        BY MrFields DEF TypeOK
      <3>2. /\ One(\E x \in events : x.kind = "conflict") \in Nat
            /\ One(ReadConflict /\ ~OldConflict) \in Nat /\ One(mr.conflict /\ ~ReadConflict) \in Nat
            /\ One(\E x \in all : x.kind = "conflict") \in Nat
        BY DEF One
      <3> QED
        BY <3>1, <3>2
    <2>3. e <= c
      BY <1>8, <2>1, <2>2 DEF One
    <2>4. a + b + c + d <= starts
      BY <2>2 DEF ConflictsOK
    <2>5. a + e + 0 + d <= starts
      BY <2>3, <2>4
    <2>6. One(\E x \in events' : x.kind = "conflict") = e /\ One(ReadConflict' /\ ~OldConflict') = 0
          /\ One(mr'.conflict /\ ~ReadConflict') = d /\ told'.conflicts = a /\ mr'.starts = starts
      BY <1>4, <1>7, <2>1, <2>2 DEF One
    <2> QED
      BY <2>5, <2>6 DEF ConflictsOK
  <1>22. StaysUntilAnswered'
    BY <1>4, <1>10 DEF StaysUntilAnswered, NotesUpTo
  <1>23. ItemsShowNeed'
    BY <1>4 DEF ItemsShowNeed
  <1> QED
    BY <1>11, <1>12, <1>13, <1>14, <1>15, <1>16, <1>17, <1>18, <1>19, <1>20, <1>21, <1>22, <1>23

-----------------------------------------------------------------------------
(* The filter *)

Dropped == {e.item : e \in {d \in events : ~Holds(d)}}

\* An event that passes is one of the check, which maybe lost its item.
LEMMA FilterIs ==
  ASSUME EventsOK, NEW e \in Filter(events)
  PROVE  \E k \in events :
             /\ Holds(k) /\ k.kind \in Kinds \intersect Chosen
             /\ e = WithItem(k.kind, k.about, IF k.item \in Dropped THEN None ELSE k.item)
  <1>1. PICK k \in events :
             /\ Holds(k) /\ k.kind \in Kinds \intersect Chosen
             /\ e = IF k.item \in Dropped THEN [k EXCEPT !.item = None] ELSE k
    BY DEF Filter, Dropped
  <1>2. k = [kind |-> k.kind, about |-> k.about, item |-> k.item]
    BY DEF EventsOK, WithItem
  <1>3. [k EXCEPT !.item = None] = [kind |-> k.kind, about |-> k.about, item |-> None]
    BY <1>2
  <1> QED
    BY <1>1, <1>2, <1>3 DEF WithItem

LEMMA FilterHas ==
  ASSUME EventsOK, NEW k \in events, Holds(k), k.kind \in Kinds \intersect Chosen
  PROVE  WithItem(k.kind, k.about, IF k.item \in Dropped THEN None ELSE k.item) \in Filter(events)
  <1>1. (IF k.item \in Dropped THEN [k EXCEPT !.item = None] ELSE k) \in Filter(events)
    BY DEF Filter, Dropped
  <1>2. k = [kind |-> k.kind, about |-> k.about, item |-> k.item]
    BY DEF EventsOK, WithItem
  <1>3. [k EXCEPT !.item = None] = [kind |-> k.kind, about |-> k.about, item |-> None]
    BY <1>2
  <1> QED
    BY <1>1, <1>2, <1>3 DEF WithItem

LEMMA WatchModes == TypeOK => watch.mode \in {"author", "review"}
  BY DEF TypeOK

\* The comments that pass are comments of the check, and all of them do when the
\* watch has the kind.
LEMMA FilteredComments ==
  ASSUME EventsOK, TypeOK
  PROVE  /\ CommentsOf(Filter(events)) \subseteq CommentsOf(events)
         /\ Wanted("comment") => CommentsOf(events) \subseteq CommentsOf(Filter(events))
  <1>1. ASSUME NEW n \in CommentsOf(Filter(events)) PROVE n \in CommentsOf(events)
    <2>1. PICK e \in Filter(events) : e.kind = "comment" /\ e.about = n
      BY DEF CommentsOf
    <2>2. PICK k \in events : e.kind = k.kind /\ e.about = k.about
      BY FilterIs, EventIs
    <2> QED
      BY <2>1, <2>2 DEF CommentsOf
  <1>2. ASSUME Wanted("comment"), NEW n \in CommentsOf(events) PROVE n \in CommentsOf(Filter(events))
    <2>1. PICK k \in events : k.kind = "comment" /\ k.about = n
      BY DEF CommentsOf
    <2>2. Holds(k)
      BY <2>1, WatchModes DEF Holds
    <2>3. k.kind \in Kinds \intersect Chosen
      BY <1>2, <2>1 DEF Kinds, Chosen, Wanted
    <2>4. PICK e \in Filter(events) : e.kind = "comment" /\ e.about = n
      BY <2>1, <2>2, <2>3, FilterHas, EventIs
    <2> QED
      BY <2>4 DEF CommentsOf
  <1> QED
    BY <1>1, <1>2

\* An item of a review is of a thread with a comment of the user.
LEMMA FilteredItems ==
  ASSUME EventsOK, TypeOK, NEW t \in Threads, t \in ItemsOf(Filter(events)), watch.mode = "review"
  PROVE  YouCommented(t)
  <1>1. PICK e \in Filter(events) : e.item = t
    BY DEF ItemsOf
  <1>2. PICK k \in events : e.item = (IF k.item \in Dropped THEN None ELSE k.item)
    BY FilterIs, EventIs
  <1>3. k.item = t /\ t \notin Dropped
    BY <1>1, <1>2
  <1>4. Line(t) \in events
    BY <1>3 DEF EventsOK
  <1>5. Line(t).kind = "unaddressed" /\ Line(t).item = t /\ Line(t).about = t
    BY EventIs DEF Line
  <1>6. Holds(Line(t))
    BY <1>3, <1>4, <1>5 DEF Dropped
  <1> QED
    BY <1>5, <1>6 DEF Holds

\* A thread whose item was dropped is one of a review where the user wrote nothing.
LEMMA DroppedIs ==
  ASSUME EventsOK, TypeOK, NEW t \in Threads, t \in Dropped
  PROVE  watch.mode = "review" /\ ~YouCommented(t)
  <1>1. PICK d \in events : ~Holds(d) /\ d.item = t
    BY DEF Dropped
  <1>2. d.kind # "pushed"
    BY <1>1 DEF EventsOK
  <1>3. watch.mode = "review" /\ d.kind = "unaddressed" /\ ~YouCommented(d.about)
    BY <1>1, <1>2, WatchModes DEF Holds
  <1>4. d.about = t
    BY <1>1, <1>3 DEF EventsOK
  <1> QED
    BY <1>3, <1>4

\* A comment with no answer that passes opens the item of its thread, or the
\* thread was dropped.
LEMMA FilteredCommentOpens ==
  ASSUME EventsOK, TypeOK, NEW n \in CommentsOf(Filter(events)), n \notin answered,
         mr.notes[n].thread \in Threads
  PROVE  mr.notes[n].thread \in ItemsOf(Filter(events)) \union Dropped
  <1>1. PICK e \in Filter(events) : e.kind = "comment" /\ e.about = n
    BY DEF CommentsOf
  <1>2. PICK k \in events : /\ e.kind = k.kind /\ e.about = k.about
                            /\ e.item = IF k.item \in Dropped THEN None ELSE k.item
    BY FilterIs, EventIs
  <1>3. k.item = mr.notes[n].thread
    BY <1>1, <1>2 DEF EventsOK
  <1> QED
    BY <1>1, <1>2, <1>3 DEF ItemsOf

\* At most one event of a check is of a conflict.
LEMMA FilteredConflicts ==
  ASSUME EventsOK
  PROVE  LET some == {e \in Filter(events) : e.kind = "conflict"}
         IN  Cardinality(some) \in Nat /\ Cardinality(some) <= One(\E e \in events : e.kind = "conflict")
  <1>1. PICK some : some = {e \in Filter(events) : e.kind = "conflict"}
    OBVIOUS
  <1>2. PICK x : x = WithItem("conflict", None, IF "conflict" \in Dropped THEN None ELSE "conflict")
    OBVIOUS
  <1>3. ASSUME NEW e \in some
        PROVE  e = x /\ \E k \in events : k.kind = "conflict"
    <2>1. PICK k \in events :
              e = WithItem(k.kind, k.about, IF k.item \in Dropped THEN None ELSE k.item)
      BY <1>1, FilterIs
    <2>2. k.kind = "conflict"
      BY <1>1, <2>1, EventIs
    <2>3. k = WithItem("conflict", None, "conflict")
      BY <2>2 DEF EventsOK
    <2>4. k.about = None /\ k.item = "conflict"
      BY <2>3, EventIs
    <2> QED
      BY <1>2, <2>1, <2>2, <2>4
  <1>4. some = {} \/ (some = {x} /\ \E k \in events : k.kind = "conflict")
    BY <1>3
  <1>5. Cardinality({}) = 0 /\ Cardinality({x}) = 1
    BY FS_EmptySet, FS_Singleton
  <1>6. PICK one \in {0, 1} : one = One(\E e \in events : e.kind = "conflict")
                /\ ((\E e \in events : e.kind = "conflict") => one = 1)
    BY DEF One
  <1>7. Cardinality(some) \in Nat /\ Cardinality(some) <= one
    <2>1. CASE some = {}
      <3>1. Cardinality(some) = 0
        BY <1>5, <2>1
      <3>2. 0 <= one
        OBVIOUS
      <3> QED
        BY <3>1, <3>2
    <2>2. CASE some = {x} /\ \E k \in events : k.kind = "conflict"
      <3>1. Cardinality(some) = 1 /\ one = 1
        BY <1>5, <1>6, <2>2
      <3> QED
        BY <3>1
    <2> QED
      BY <1>4, <2>1, <2>2
  <1> QED
    BY <1>1, <1>6, <1>7

LEMMA DeliverInv ==
  ASSUME CheckInv, Deliver
  PROVE  CheckInv'
  <1> USE DEF CheckInv
  <1>1. PICK some : some = Filter(events)
    OBVIOUS
  <1>2. PICK new : new = Told(some)
    OBVIOUS
  <1>3. PICK conflicts : conflicts = Cardinality({e \in some : e.kind = "conflict"})
    OBVIOUS
  <1>4. /\ at = "saved" /\ at' \in {"idle", "over"} /\ got' = NothingRead /\ told' = new
        /\ pending' = (pending \union ItemsOf(some)) \intersect present
        /\ needs' = NeedsOf(watch.mode) /\ events' = {}
        /\ UNCHANGED <<mr, watch, saved, present, lost, seen, answered>>
    BY <1>1, <1>2 DEF Deliver
  <1>5. /\ new = [notes |-> new.notes, again |-> new.again, conflicts |-> new.conflicts]
        /\ new.notes = told.notes \union CommentsOf(some)
        /\ new.again = told.again \union (told.notes \intersect CommentsOf(some))
        /\ new.conflicts = told.conflicts + conflicts
    BY <1>2, <1>3 DEF Told, CommentsOf
  <1>6. /\ conflicts \in Nat /\ conflicts <= One(\E e \in events : e.kind = "conflict")
        /\ told.conflicts \in Nat
    BY <1>1, <1>3, FilteredConflicts DEF TypeOK
  <1>7. ASSUME NEW n \in CommentsOf(some)
        PROVE  /\ n \in CommentsOf(events) /\ n \in got.notes /\ n <= OldLast /\ n \notin told.notes
               /\ n \in 1 .. Len(mr.notes) /\ mr.notes[n].thread \in Threads
    <2>1. n \in CommentsOf(events)
      BY <1>1, FilteredComments
    <2>2. PICK e \in events : e.kind = "comment" /\ e.about = n
      BY <2>1 DEF CommentsOf
    <2>3. n \in got.notes /\ n <= OldLast /\ n \notin told.notes
      BY <2>2 DEF EventsOK
    <2> QED
      BY <2>1, <2>3, MrFields DEF TypeOK
  <1>8. saved # None /\ AllRead /\ \A t \in Threads : IsRead(t)
    BY <1>4, PagesAre DEF NeedsOK, PagesOK, AllRead, IsRead
  <1>9. /\ got'.base = None /\ got'.head = None /\ got'.page = 0 /\ got'.notes = {}
        /\ got'.resolved = [t \in Threads |-> None] /\ got'.reactions = {}
    BY <1>4 DEF NothingRead
  <1>10. \A t \in Threads : ~(PageOf[t] <= got'.page)
    BY <1>9, PagesAre
  <1>11. OldLast' = OldLast /\ OldConflict' = OldConflict
    BY <1>4 DEF OldLast, OldConflict
  \* The user wrote in the thread of each item of a review.
  <1>12. ASSUME watch.mode = "review", NEW t \in Threads, t \in pending'
         PROVE  YouCommented(t)
    <2>1. CASE t \in pending
      <3>1. PICK n \in 1 .. Len(mr.notes) : mr.notes[n] = [author |-> Me, thread |-> t] /\ n \in got.notes
        BY <1>8, <1>12, <2>1 DEF MineOK
      <3> QED
        BY <3>1 DEF YouCommented, NotesOf, Author
    <2>2. CASE t \in ItemsOf(some)
      BY <1>1, <1>12, <2>2, FilteredItems
    <2> QED
      BY <1>4, <1>12, <2>1, <2>2
  <1>13. TypeOK'
    <2>1. got' = [base |-> got'.base, head |-> got'.head, page |-> got'.page, notes |-> got'.notes,
                  draftBy |-> got'.draftBy, resolved |-> got'.resolved, reactions |-> got'.reactions]
      BY <1>4 DEF NothingRead
    <2>2. got'.page \in 0 .. Pages
      BY <1>9, PagesAre
    <2>3. new.notes \subseteq 1 .. Len(mr.notes) /\ new.conflicts \in Nat
      BY <1>5, <1>6, <1>7 DEF TypeOK
    <2> QED
      BY <1>4, <1>5, <1>9, <2>1, <2>2, <2>3 DEF TypeOK, UserOrNone, Steps
  <1>14. OpenOK'
    BY <1>4 DEF OpenOK, Follows
  <1>15. PagesOK'
    BY <1>4, <1>9 DEF PagesOK
  <1>16. PassedOK'
    BY <1>4 DEF PassedOK
  <1>17. ToldOK'
    <2>1. new.again = {}
      BY <1>5, <1>7 DEF ToldOK
    <2>2. \A n \in new.notes : n <= OldLast /\ mr.notes[n].thread \in Threads
      BY <1>5, <1>7, MrFields DEF ToldOK, TypeOK
    <2> QED
      BY <1>4, <1>10, <1>11, <2>1, <2>2 DEF ToldOK, IsRead
  <1>18. EventsOK'
    BY <1>4 DEF EventsOK
  <1>19. NoneLost'
    <2>1. ASSUME ~lost, Wanted("comment"), NEW n \in 1 .. Len(mr.notes),
                 mr.notes[n].author = Other, n <= saved.lastNote
          PROVE  n \in new.notes \union seen
      <3>1. n \in told.notes \union seen \union CommentsOf(events)
        BY <1>8, <2>1 DEF NoneLost
      <3>2. CommentsOf(events) \subseteq CommentsOf(some)
        BY <1>1, <2>1, FilteredComments
      <3> QED
        BY <1>5, <3>1, <3>2
    <2> QED
      BY <1>4, <2>1 DEF NoneLost, Wanted
  <1>20. PresentOK'
    <2>1. \A n \in new.notes : n \in told.notes \union CommentsOf(events)
      BY <1>5, <1>7
    <2>2. CommentsOf(events') = {}
      BY <1>4 DEF CommentsOf
    <2> QED
      BY <1>4, <2>1, <2>2 DEF PresentOK
  <1>21. MineOK'
    <2>1. ASSUME watch.mode = "review", NEW t \in Threads, t \in pending'
          PROVE  \E n \in 1 .. Len(mr.notes) : mr.notes[n] = [author |-> Me, thread |-> t]
      <3>1. PICK n \in got.notes : mr.notes[n].thread = t /\ mr.notes[n].author = Me
        BY <1>12, <2>1 DEF YouCommented, NotesOf, Author
      <3>2. n \in 1 .. Len(mr.notes)
        BY <3>1 DEF TypeOK
      <3>3. mr.notes[n] \in Note
        <4>1. PICK notes \in Seq(Note) : notes = mr.notes
          BY MrFields
        <4> QED
          BY <3>2, <4>1
      <3> QED
        BY <3>1, <3>2, <3>3 DEF Note
    <2> QED
      BY <1>4, <1>10, <2>1 DEF MineOK, IsRead
  <1>22. NeedsOK'
    BY <1>4 DEF NeedsOK
  <1>23. ConflictsOK'
    <2>1. ReadConflict' = OldConflict /\ ReadConflict = OldConflict
      BY <1>4, <1>11 DEF ReadConflict
    <2>2. PICK a \in Nat, b \in Nat, d \in Nat, starts \in Nat :
              /\ a = told.conflicts /\ b = One(\E x \in events : x.kind = "conflict")
              /\ d = One(mr.conflict /\ ~OldConflict) /\ starts = mr.starts
      <3>1. told.conflicts \in Nat /\ mr.starts \in Nat
        BY MrFields DEF TypeOK
      <3>2. /\ One(\E x \in events : x.kind = "conflict") \in Nat
            /\ One(mr.conflict /\ ~OldConflict) \in Nat
        BY DEF One
      <3> QED
        BY <3>1, <3>2
    <2>3. One(ReadConflict /\ ~OldConflict) = 0 /\ d = One(mr.conflict /\ ~ReadConflict)
      BY <2>1, <2>2 DEF One
    <2>4. a + b + 0 + d <= starts
      BY <2>2, <2>3 DEF ConflictsOK
    <2>5. a + conflicts + 0 + 0 + d <= starts
      <3>1. conflicts \in Nat /\ conflicts <= b
        BY <1>6, <2>2
      <3> QED
        BY <2>4, <3>1
    <2>6. One(\E x \in events' : x.kind = "conflict") = 0 /\ One(ReadConflict' /\ ~OldConflict') = 0
          /\ One(mr'.conflict /\ ~ReadConflict') = d /\ told'.conflicts = a + conflicts
          /\ mr'.starts = starts
      BY <1>4, <1>5, <1>11, <2>1, <2>2 DEF One
    <2> QED
      BY <1>6, <2>2, <2>5, <2>6 DEF ConflictsOK
  <1>24. StaysUntilAnswered'
    <2>1. ASSUME NEW n \in new.notes, n \notin answered
          PROVE  \/ mr.notes[n].thread \in pending'
                 \/ /\ watch.mode = "review"
                    /\ \A m \in NotesUpTo(n, mr.notes[n].thread) : mr.notes[m].author # Me
      <3>1. PICK t : t = mr.notes[n].thread
        OBVIOUS
      <3>2. n \in told.notes \union CommentsOf(events)
        BY <1>5, <1>7
      <3>3. t \in present
        BY <2>1, <3>1, <3>2 DEF PresentOK
      <3>4. CASE n \in told.notes
        <4>1. \/ t \in pending
              \/ watch.mode = "review" /\ \A m \in NotesUpTo(n, t) : mr.notes[m].author # Me
          BY <2>1, <3>1, <3>4 DEF StaysUntilAnswered
        <4> QED
          BY <1>4, <3>1, <3>3, <4>1
      <3>5. CASE n \in CommentsOf(some)
        <4>1. t \in ItemsOf(some) \union Dropped /\ t \in Threads
          BY <1>1, <1>7, <2>1, <3>1, <3>5, FilteredCommentOpens
        <4>2. CASE t \in ItemsOf(some)
          BY <1>4, <3>1, <3>3, <4>2
        <4>3. CASE t \in Dropped
          <5>1. watch.mode = "review" /\ ~YouCommented(t)
            BY <4>1, <4>3, DroppedIs
          <5>2. ASSUME NEW m \in NotesUpTo(n, t) PROVE m \in NotesOf(t)
            <6>1. n \in got.notes /\ n \in 1 .. Len(mr.notes)
              BY <1>7, <3>5
            <6>2. m \in 1 .. n /\ mr.notes[m].thread = mr.notes[n].thread
              BY <3>1, <6>1, MrFields DEF NotesUpTo
            <6> QED
              BY <3>1, <6>1, <6>2 DEF PagesOK, NotesOf
          <5> QED
            BY <3>1, <5>1, <5>2 DEF YouCommented, Author
        <4> QED
          BY <4>1, <4>2, <4>3
      <3> QED
        BY <1>5, <3>4, <3>5
    <2> QED
      BY <1>4, <2>1 DEF StaysUntilAnswered, NotesUpTo
  <1>25. ItemsShowNeed'
    <2>1. watch.mode \in {"author", "review"}
      BY WatchModes
    <2>2. ASSUME NEW t \in Threads, t \in pending'
          PROVE  "reply" \in needs'
      <3>1. t \in present
        BY <1>4, <2>2
      <3>2. "reply" \in saved.needs /\ (YouCommented(t) => "reply_to_you" \in saved.needs)
        BY <1>4, <3>1 DEF NeedsOK
      <3>3. CASE watch.mode = "author"
        BY <1>4, <3>2, <3>3 DEF NeedsOf
      <3>4. CASE watch.mode = "review"
        BY <1>4, <1>12, <2>2, <3>2, <3>4 DEF NeedsOf
      <3> QED
        BY <2>1, <3>3, <3>4
    <2>3. ASSUME watch.mode = "author"
          PROVE  /\ "pipeline" \in pending' => "failed" \in needs'
                 /\ "conflict" \in pending' => "conflict" \in needs'
      BY <1>4, <2>3 DEF NeedsOK, NeedsOf
    <2> QED
      BY <1>4, <2>2, <2>3 DEF ItemsShowNeed
  <1> QED
    BY <1>13, <1>14, <1>15, <1>16, <1>17, <1>18, <1>19, <1>20, <1>21, <1>22, <1>23, <1>24, <1>25

-----------------------------------------------------------------------------
(* The theorems *)

LEMMA InitInv == Init => CheckInv
  <1> SUFFICES ASSUME Init PROVE CheckInv
    OBVIOUS
  <1>1. /\ mr.notes = <<>> /\ mr.conflict = FALSE /\ mr.starts = 0 /\ mr.reactions = {}
        /\ got.base = None /\ got.head = None /\ got.page = 0 /\ got.notes = {}
        /\ got.resolved = [t \in Threads |-> None] /\ got.reactions = {} /\ got = NothingRead
        /\ told.notes = {} /\ told.again = {} /\ told.conflicts = 0
        /\ at = "idle" /\ saved = None /\ present = {} /\ events = {} /\ pending = {}
    BY DEF Init, NewMr, NothingRead, NothingTold
  <1>2. Len(mr.notes) = 0 /\ \A n : n \notin 1 .. Len(mr.notes)
    BY <1>1
  <1>3. mr \in Mr
    <2>1. <<>> \in Seq(Note)
      OBVIOUS
    <2>2. [id |-> 1, status |-> "running"] \in Pipeline
      BY DEF Pipeline
    <2>3. [t \in Threads |-> None] \in [Threads -> UserOrNone] /\ None \in UserOrNone
      BY DEF UserOrNone
    <2> QED
      BY <2>1, <2>2, <2>3 DEF Init, NewMr, Mr, States
  <1>4. TypeOK
    <2>1. got = [base |-> got.base, head |-> got.head, page |-> got.page, notes |-> got.notes,
                 draftBy |-> got.draftBy, resolved |-> got.resolved, reactions |-> got.reactions]
      BY <1>1 DEF NothingRead
    <2>2. told = [notes |-> told.notes, again |-> told.again, conflicts |-> told.conflicts]
      BY DEF Init, NothingTold
    <2>3. got.page \in 0 .. Pages /\ got.resolved \in [Threads -> UserOrNone]
      BY <1>1, PagesAre DEF UserOrNone
    <2>4. watch \in Watches /\ lost \in BOOLEAN
      BY DEF Init
    <2> QED
      BY <1>1, <1>3, <2>1, <2>2, <2>3, <2>4 DEF TypeOK, Steps
  <1>5. OpenOK /\ PagesOK /\ PassedOK
    BY <1>1, <1>2 DEF OpenOK, PagesOK, PassedOK
  <1>6. ToldOK /\ EventsOK /\ NoneLost /\ PresentOK
    BY <1>1, <1>2 DEF ToldOK, OldLast, EventsOK, NoneLost, PresentOK, CommentsOf
  <1>7. MineOK /\ NeedsOK /\ StaysUntilAnswered /\ ItemsShowNeed
    BY <1>1 DEF MineOK, NeedsOK, StaysUntilAnswered, ItemsShowNeed
  <1>8. ConflictsOK
    <2>1. ~ReadConflict /\ ~OldConflict /\ ~(\E e \in events : e.kind = "conflict") /\ ~mr.conflict
      BY <1>1 DEF ReadConflict, OldConflict
    <2>2. /\ One(\E e \in events : e.kind = "conflict") = 0 /\ One(ReadConflict /\ ~OldConflict) = 0
          /\ One(mr.conflict /\ ~ReadConflict) = 0
      BY <2>1 DEF One
    <2> QED
      BY <1>1, <2>1, <2>2 DEF ConflictsOK, One
  <1> QED
    BY <1>4, <1>5, <1>6, <1>7, <1>8 DEF CheckInv

LEMMA NextInv ==
  ASSUME CheckInv, [Next]_vars
  PROVE  CheckInv'
  <1>1. CASE GitLab \/ StatusComputed
    BY <1>1, GitLabIsLater, GitLabInv DEF CheckInv
  <1>2. CASE CheckStep
    BY <1>2, BeginsAgainInv, ReadBaseInv, ReadRestInv, ReadPageInv, ReadReactionsInv, SaveInv,
       DeliverInv DEF CheckStep
  <1>3. CASE CheckFails \/ Kill
    BY <1>3, BeginsAgainInv
  <1>4. CASE UNCHANGED vars
    <2>1. mr' = mr /\ UNCHANGED <<watch, check, seen, answered>>
      BY <1>4 DEF vars
    <2>2. mr \in Mr /\ mr.starts \in Nat
      BY MrFields DEF CheckInv, TypeOK
    <2>3. GitLabLater
      BY <2>1, <2>2, QuietLater DEF CheckInv
    <2> QED
      BY <2>3, GitLabInv
  <1> QED
    BY <1>1, <1>2, <1>3, <1>4 DEF Next

\* The inductive invariant of the check of an MR.
THEOREM CheckInvariant == Spec => []CheckInv
  <1>1. Init => CheckInv
    BY InitInv
  <1>2. CheckInv /\ [Next]_vars => CheckInv'
    BY NextInv
  <1> QED
    BY <1>1, <1>2, PTL DEF Spec

\* No comment of a different person is told twice, and none is left out without
\* a kill that took its event (`CommentEvents`, `check_mrs`).
THEOREM CommentsAlwaysToldOnce == Spec => []CommentsToldOnce
  <1>1. CheckInv => CommentsToldOnce
    <2>1. SUFFICES ASSUME CheckInv, Settled, saved # None, Wanted("comment"),
                          NEW n \in Commented, n <= saved.lastNote
                   PROVE  n \in told.notes \union seen
      BY DEF CommentsToldOnce, CheckInv, ToldOK
    <2>2. CommentsOf(events) = {}
      BY <2>1 DEF CheckInv, EventsOK, Settled, CommentsOf
    <2>3. n \in 1 .. Len(mr.notes) /\ mr.notes[n].author = Other
      BY <2>1, MrFields DEF Commented, CheckInv
    <2> QED
      BY <2>1, <2>2, <2>3 DEF CheckInv, NoneLost, Settled
  <1> QED
    BY <1>1, CheckInvariant, PTL

\* A comment that was told is an item until it has its answer, whatever the
\* other threads, the checks and GitLab do in between (`prune_items`, `filter`).
THEOREM AlwaysStaysUntilAnswered == Spec => []StaysUntilAnswered
  <1>1. CheckInv => StaysUntilAnswered
    BY DEF CheckInv
  <1> QED
    BY <1>1, CheckInvariant, PTL

\* A review has no item of a thread that the user wrote nothing in (`filter`).
THEOREM OthersThreadsAlwaysStayOut == Spec => []OthersThreadsStayOut
  <1>1. CheckInv => OthersThreadsStayOut
    BY MrFields DEF CheckInv, MineOK, OthersThreadsStayOut
  <1> QED
    BY <1>1, CheckInvariant, PTL

\* One conflict is told at most once, although GitLab computes the merge status
\* late and the checks sample it (`new_state`, `transient`).
THEOREM ConflictsAlwaysToldOnce == Spec => []ConflictsToldOnce
  <1>1. CheckInv => ConflictsToldOnce
    <2>1. SUFFICES ASSUME CheckInv PROVE told.conflicts <= mr.starts
      BY DEF ConflictsToldOnce
    <2>2. told.conflicts \in Nat /\ mr.starts \in Nat
      BY <2>1, MrFields DEF CheckInv, TypeOK
    <2>3. PICK b \in Nat, c \in Nat, d \in Nat : told.conflicts + b + c + d <= mr.starts
      <3>1. /\ One(\E e \in events : e.kind = "conflict") \in Nat
            /\ One(ReadConflict /\ ~OldConflict) \in Nat /\ One(mr.conflict /\ ~ReadConflict) \in Nat
        BY DEF One
      <3> QED
        BY <2>1, <3>1 DEF CheckInv, ConflictsOK
    <2> QED
      BY <2>2, <2>3
  <1> QED
    BY <1>1, CheckInvariant, PTL

\* The sidebar shows a need for each item (`needs`, `filter`).
THEOREM ItemsAlwaysShowNeed == Spec => []ItemsShowNeed
  <1>1. CheckInv => ItemsShowNeed
    BY DEF CheckInv
  <1> QED
    BY <1>1, CheckInvariant, PTL
=============================================================================
