------------------------- MODULE HubRoutingProofs -------------------------
(* Proofs about the items of the hub and of the worktrees: types, no open    *)
(* item gets out of the files, and a row stays the number of its item, for   *)
(* any number of worktrees and items.                                        *)
EXTENDS HubRouting, FiniteSetTheorems, TLAPS

File == [next : Nat \ {0}, row : [Items -> Nat]]

-----------------------------------------------------------------------------
(* The operators on files *)

\* An empty file is a file with no pending item.
LEMMA NoFileIsFile == NoFile \in File /\ Pending(NoFile) = {}
BY DEF NoFile, NoRows, File, Pending

\* A prune takes just the named items.
LEMMA WithoutFile ==
    ASSUME NEW file \in File, NEW items
    PROVE  /\ Without(file, items) \in File
           /\ Pending(Without(file, items)) = Pending(file) \ items
BY DEF Without, File, Pending

\* New numbers are numbers, and the items that get them are pending.
LEMMA RenumberedFile ==
    ASSUME NEW to \in File, NEW from \in File, NEW new \in SUBSET Items
    PROVE  /\ Renumbered(to, from, new) \in File
           /\ Pending(Renumbered(to, from, new)) = Pending(to) \union new
<1>. DEFINE before(i) == {j \in new : from.row[j] < from.row[i]}
            row == [i \in Items |-> IF i \in new THEN to.next + Cardinality(before(i))
                                                 ELSE to.row[i]]
<1>1. IsFiniteSet(new)
    BY FS_Subset, HubRoutingAssumption
<1>2. Cardinality(new) \in Nat
    BY <1>1, FS_CardinalityType
<1>3. \A i \in Items : Cardinality(before(i)) \in Nat
    <2>. TAKE i \in Items
    <2>1. before(i) \in SUBSET new
        OBVIOUS
    <2>2. IsFiniteSet(before(i))
        BY <1>1, <2>1, FS_Subset
    <2>. QED
        BY <2>2, FS_CardinalityType
<1>4. to.next \in Nat \ {0} /\ to.row \in [Items -> Nat]
    BY DEF File
<1>. HIDE DEF before
<1>5. \A i \in Items : row[i] \in Nat /\ (row[i] # 0 <=> i \in new \/ to.row[i] # 0)
    BY <1>3, <1>4
<1>6. row \in [Items -> Nat]
    BY <1>5
<1>7. Renumbered(to, from, new) = [next |-> to.next + Cardinality(new), row |-> row]
    BY DEF Renumbered, before
<1>8. to.next + Cardinality(new) \in Nat \ {0}
    BY <1>2, <1>4
<1>. HIDE DEF row
<1>. QED
    BY <1>5, <1>6, <1>7, <1>8 DEF File, Pending

\* After a move the target has its items and those that came.
LEMMA WithFile ==
    ASSUME NEW to \in File, NEW from \in File, NEW items
    PROVE  /\ With(to, from, items) \in File
           /\ Pending(With(to, from, items)) = Pending(to) \union (items \intersect Pending(from))
<1>. DEFINE new == Coming(from, items) \ Pending(to)
<1>1. new \in SUBSET Items
    BY DEF Coming, Pending
<1>. HIDE DEF new
<1>2. /\ Renumbered(to, from, new) \in File
      /\ Pending(Renumbered(to, from, new)) = Pending(to) \union new
    BY <1>1, RenumberedFile
<1>. QED
    BY <1>2 DEF With, new, Coming

\* When the agent of a key ends, the hub has the items of both.
LEMMA ToHubFiles ==
    ASSUME NEW fs \in [Files -> File], NEW k \in Keys
    PROVE  /\ ToHub(fs, k) \in [Files -> File]
           /\ Pending(ToHub(fs, k)[Hub]) = Pending(fs[Hub]) \union Pending(fs[k])
           /\ Pending(ToHub(fs, k)[k]) = {}
           /\ \A f \in Files \ {Hub, k} : ToHub(fs, k)[f] = fs[f]
<1>1. Hub \in Files /\ k \in Files /\ k # Hub
    BY HubRoutingAssumption DEF Files
<1>2. With(fs[Hub], fs[k], Items) \in File
      /\ Pending(With(fs[Hub], fs[k], Items)) = Pending(fs[Hub]) \union Pending(fs[k])
    <2>1. fs[Hub] \in File /\ fs[k] \in File
        BY <1>1
    <2>2. Items \intersect Pending(fs[k]) = Pending(fs[k])
        BY DEF Pending
    <2>. QED
        BY <2>1, <2>2, WithFile
<1>3. /\ ToHub(fs, k)[Hub] = With(fs[Hub], fs[k], Items)
      /\ ToHub(fs, k)[k] = NoFile
      /\ \A f \in Files \ {Hub, k} : ToHub(fs, k)[f] = fs[f]
    BY <1>1 DEF ToHub
<1>4. ToHub(fs, k) \in [Files -> File]
    BY <1>2, NoFileIsFile DEF ToHub
<1>. QED
    BY <1>2, <1>3, <1>4, NoFileIsFile

\* The prune of a check is a prune of each file.
LEMMA PrunedFiles ==
    ASSUME NEW fs \in [Files -> File], NEW f \in Files
    PROVE  /\ Pruned(f, fs) \in [Files -> File]
           /\ \A g \in Files : Pending(Pruned(f, fs)[g]) = Pending(fs[g]) \ Gone(f, fs, g)
<1>1. \A g \in Files : /\ Without(fs[g], Gone(f, fs, g)) \in File
                       /\ Pending(Without(fs[g], Gone(f, fs, g))) = Pending(fs[g]) \ Gone(f, fs, g)
    BY WithoutFile
<1>. QED
    BY <1>1 DEF Pruned

\* Items that are not pending get different numbers that are free.
NewRows(old, new) ==
    /\ old.next <= new.next
    /\ \A i \in Pending(new) :
          \/ i \in Pending(old) /\ new.row[i] = old.row[i]
          \/ i \notin Pending(old) /\ old.next <= new.row[i] /\ new.row[i] < new.next
    /\ \A i, j \in Pending(new) \ Pending(old) : new.row[i] = new.row[j] => i = j

\* assign_rows makes the items of the events pending, and keeps the others.
LEMMA NumberedFile ==
    ASSUME NEW file \in File, NEW events \in SUBSET Items, NEW top,
           NEW numbers \in [New(file, events) -> file.next .. top],
           top = file.next + Cardinality(New(file, events)) - 1,
           \A i, j \in New(file, events) : i # j => numbers[i] # numbers[j]
    PROVE  /\ NewRows(file, Numbered(file, events, numbers))
           /\ Numbered(file, events, numbers) \in File
           /\ Pending(Numbered(file, events, numbers)) = Pending(file) \union events
<1>. DEFINE new == New(file, events)
            row == [i \in Items |-> IF i \in new THEN numbers[i] ELSE file.row[i]]
<1>1. new \in SUBSET Items /\ DOMAIN numbers = new
    BY DEF New
<1>2. Cardinality(new) \in Nat
    BY <1>1, FS_Subset, FS_CardinalityType, HubRoutingAssumption
<1>3. file.next \in Nat \ {0} /\ file.row \in [Items -> Nat]
    BY DEF File
<1>4. \A i \in new : numbers[i] \in Nat \ {0}
    BY <1>3
<1>5. \A i \in Items : row[i] \in Nat /\ (row[i] # 0 <=> i \in new \/ file.row[i] # 0)
    BY <1>3, <1>4
<1>6. row \in [Items -> Nat]
    BY <1>5
<1>7. Numbered(file, events, numbers) = [next |-> file.next + Cardinality(new), row |-> row]
    BY <1>1 DEF Numbered
<1>8. Pending(file) \union new = Pending(file) \union events
    BY DEF New
<1>9. \A i \in new : numbers[i] < file.next + Cardinality(new) /\ file.next <= numbers[i]
    BY <1>2, <1>3
<1>10. \A i \in Items : row[i] # 0 =>
          \/ file.row[i] # 0 /\ row[i] = file.row[i]
          \/ file.row[i] = 0 /\ file.next <= row[i] /\ row[i] < file.next + Cardinality(new)
    BY <1>9 DEF New, Pending
<1>11. \A i, j \in new : row[i] = row[j] => i = j
    BY <1>1
<1>12. \A i \in Items : row[i] # 0 /\ file.row[i] = 0 => i \in new
    OBVIOUS
<1>. HIDE DEF row, new
<1>13. NewRows(file, Numbered(file, events, numbers))
    BY <1>1, <1>2, <1>3, <1>6, <1>7, <1>10, <1>11, <1>12 DEF NewRows, Pending
<1>. QED
    BY <1>1, <1>2, <1>3, <1>5, <1>6, <1>7, <1>8, <1>13 DEF File, Pending
-----------------------------------------------------------------------------
(* Types *)

Checks == [at : {"idle", "begin", "polled", "routed"}, events : SUBSET Items,
           row : [Items -> Nat], routes : BOOLEAN]

LEMMA NoCheckIsCheck == NoCheck \in Checks
BY DEF NoCheck, NoRows, Checks

\* A round begins with files and checks.
LEMMA RoundTypes ==
    ASSUME TypeOK, RoundTargets
    PROVE  TypeOK'
<1>. DEFINE moved(k) == {i \in Items : k \in record /\ ReviewOf[i] = k}
            all == UNION {moved(k) : k \in Keys}
<1>1. files \in [Files -> File] /\ Hub \in Files
    BY DEF TypeOK, File, Files
<1>. HIDE DEF moved, all
<1>2. files' = [f \in Files |-> IF f = Hub THEN Without(files[Hub], all)
                                ELSE With(files[f], files[Hub], moved(f))]
    BY DEF RoundTargets, moved, all
<1>3. \A f \in Files : With(files[f], files[Hub], moved(f)) \in File
    BY <1>1, WithFile
<1>4. files' \in [Files -> File]
    BY <1>1, <1>2, <1>3, WithoutFile
<1>5. check' \in [Files -> Checks]
    <2>1. [NoCheck EXCEPT !.at = "begin"] \in Checks
        BY NoCheckIsCheck DEF Checks
    <2>. QED
        BY <2>1 DEF RoundTargets
<1>. QED
    BY <1>4, <1>5 DEF TypeOK, RoundTargets, hub, File, Checks

LEMMA PollTypes ==
    ASSUME TypeOK, NEW f \in Files, NEW now \in SUBSET Found(f), NEW events \in SUBSET Found(f),
           Poll(f, now, events)
    PROVE  TypeOK'
<1>1. now \subseteq Items /\ events \subseteq Items
    BY DEF Found
<1>2. [NoCheck EXCEPT !.at = "polled", !.events = events] \in Checks
    BY <1>1, NoCheckIsCheck DEF Checks
<1>3. check' \in [Files -> Checks]
    BY <1>2 DEF Poll, TypeOK, Checks
<1>4. present' \in [Files -> SUBSET Items]
    BY <1>1 DEF Poll, TypeOK
<1>5. steps' \in Nat
    <2>1. IsFiniteSet(events \union (now \ present[f]))
        BY <1>1, FS_Subset, HubRoutingAssumption
    <2>. QED
        BY <2>1, FS_CardinalityType DEF Poll, TypeOK
<1>. QED
    BY <1>3, <1>4, <1>5 DEF Poll, TypeOK, hub, Checks

\* The end of a check by an error or with no event.
LEMMA CheckEndTypes ==
    ASSUME TypeOK, NEW f \in Files, CheckFails(f) \/ Quiet(f)
    PROVE  TypeOK'
<1>1. files \in [Files -> File]
    BY DEF TypeOK, File
<1>2. files' \in [Files -> File]
    BY <1>1, PrunedFiles DEF CheckFails, Quiet
<1>3. check' \in [Files -> Checks]
    BY NoCheckIsCheck DEF CheckFails, Quiet, TypeOK, Checks
<1>. QED
    BY <1>2, <1>3 DEF TypeOK, CheckFails, Quiet, hub, File, Checks

\* The files when a check assigns its rows, and what it gives its events.
LEMMA AssignFiles ==
    ASSUME TypeOK, NEW f \in Files, Assign(f)
    PROVE  \E left \in [Files -> File], numbered \in File :
              /\ NewRows(left[Owner(f)], numbered)
              /\ left = IF f \in Keys \ record THEN ToHub(files, f) ELSE files
              /\ Pending(numbered) = Pending(left[Owner(f)]) \union check[f].events
              /\ files' = [left EXCEPT ![Owner(f)] = numbered]
              /\ check' = [check EXCEPT ![f] =
                     [at |-> "routed", events |-> check[f].events,
                      row |-> [i \in Items |-> IF i \in check[f].events
                                               THEN numbered.row[i] ELSE 0],
                      routes |-> Recipient(f) = Hub]]
<1>. DEFINE left == IF f \in Keys \ record THEN ToHub(files, f) ELSE files
            file == left[Owner(f)]
            events == check[f].events
            new == New(file, events)
<1>1. files \in [Files -> File] /\ events \in SUBSET Items
    BY DEF TypeOK, File
<1>2. left \in [Files -> File]
    BY <1>1, ToHubFiles
<1>3. Owner(f) \in Files
    BY DEF Owner, Files
<1>4. file \in File
    BY <1>2, <1>3
<1>5. PICK numbers \in [new -> file.next .. file.next + Cardinality(new) - 1] :
         /\ \A i, j \in new : i # j => numbers[i] # numbers[j]
         /\ files' = [left EXCEPT ![Owner(f)] = Numbered(file, events, numbers)]
         /\ check' = [check EXCEPT ![f] =
                [at |-> "routed", events |-> events,
                 row |-> [i \in Items |-> IF i \in events
                                          THEN Numbered(file, events, numbers).row[i] ELSE 0],
                 routes |-> Recipient(f) = Hub]]
    BY DEF Assign
<1>. HIDE DEF left, file, events, new
<1>6. /\ NewRows(file, Numbered(file, events, numbers))
      /\ Numbered(file, events, numbers) \in File
      /\ Pending(Numbered(file, events, numbers)) = Pending(file) \union events
    BY <1>1, <1>4, <1>5, NumberedFile DEF new
<1>. USE <1>2, <1>6
<1>. WITNESS left \in [Files -> File], Numbered(file, events, numbers) \in File
<1>. QED
    BY <1>5 DEF left, file, events

LEMMA AssignTypes ==
    ASSUME TypeOK, NEW f \in Files, Assign(f)
    PROVE  TypeOK'
<1>1. PICK left \in [Files -> File], numbered \in File :
         /\ files' = [left EXCEPT ![Owner(f)] = numbered]
         /\ check' = [check EXCEPT ![f] =
                [at |-> "routed", events |-> check[f].events,
                 row |-> [i \in Items |-> IF i \in check[f].events
                                          THEN numbered.row[i] ELSE 0],
                 routes |-> Recipient(f) = Hub]]
    BY AssignFiles
<1>2. files' \in [Files -> File]
    BY <1>1
<1>3. check' \in [Files -> Checks]
    <2>1. check[f].events \in SUBSET Items /\ check \in [Files -> Checks]
        BY DEF TypeOK, Checks
    <2>2. [i \in Items |-> IF i \in check[f].events THEN numbered.row[i] ELSE 0] \in [Items -> Nat]
        BY DEF File
    <2>3. (Recipient(f) = Hub) \in BOOLEAN
        OBVIOUS
    <2>. QED
        BY <1>1, <2>1, <2>2, <2>3 DEF Checks
<1>. QED
    BY <1>2, <1>3 DEF TypeOK, Assign, hub, File, Checks

\* The files at the end of a check: `dropped` are the hub items that the router
\* is done with.
LEMMA DeliverFiles ==
    ASSUME TypeOK, NEW f \in Files, NEW asked, NEW drop, NEW ends,
           Deliver(f, asked, drop, ends)
    PROVE  \E dropped \in SUBSET Items, fs, pruned \in [Files -> File] :
              /\ fs = [files EXCEPT ![Hub] = Without(files[Hub], dropped)]
              /\ fs \in [Files -> File]
              /\ pruned = Pruned(f, fs)
              /\ files' = IF ends THEN ToHub(pruned, f) ELSE pruned
              /\ ends => f \in Keys
              /\ owed' = owed \ dropped
<1>. DEFINE c == check[f]
            handled == IF c.routes THEN c.events \ asked ELSE {}
            rowsOf(items) == {[item |-> i, row |-> c.row[i]] : i \in items}
            toHub == Recipient(f) = Hub /\ c.events # {}
            boarded == toHub /\ handled = c.events
            dropped == IF boarded THEN {i \in Pending(files[Hub]) :
                                            files[Hub].row[i] \in RowsOf(rowsOf(drop))}
                                  ELSE {}
            fs == [files EXCEPT ![Hub] = Without(files[Hub], dropped)]
            pruned == Pruned(f, fs)
<1>1. /\ files' = IF ends THEN ToHub(pruned, f) ELSE pruned
      /\ ends => f \in record \ {Hub}
      /\ owed' = owed \ dropped
    BY DEF Deliver
<1>2. dropped \in SUBSET Items
    BY DEF Pending
<1>. HIDE DEF dropped
<1>3. files \in [Files -> File] /\ Hub \in Files
    BY DEF TypeOK, File, Files
<1>4. fs \in [Files -> File]
    <2>1. Without(files[Hub], dropped) \in File
        BY <1>3, WithoutFile
    <2>. QED
        BY <1>3, <2>1
<1>5. fs = [files EXCEPT ![Hub] = Without(files[Hub], dropped)]
    OBVIOUS
<1>. HIDE DEF fs
<1>6. pruned \in [Files -> File]
    BY <1>4, PrunedFiles
<1>7. pruned = Pruned(f, fs)
    OBVIOUS
<1>. HIDE DEF pruned
<1>8. ends => f \in Keys
    BY <1>1 DEF Files
<1>. QED
    BY <1>1, <1>2, <1>4, <1>5, <1>6, <1>7, <1>8

\* What a delivery writes to the inbox and to the rows of the router.
LEMMA DeliverHubTypes ==
    ASSUME TypeOK, NEW f \in Files, NEW asked \in SUBSET check[f].events,
           NEW drop \in SUBSET check[f].events, NEW ends, Deliver(f, asked, drop, ends)
    PROVE  inbox' \subseteq Lines /\ routing' \in [handled : SUBSET RowLines, drop : SUBSET Nat]
<1>. DEFINE c == check[f]
            handled == IF c.routes THEN c.events \ asked ELSE {}
            rowsOf(items) == {[item |-> i, row |-> c.row[i]] : i \in items}
            lines == {[item |-> i, row |-> c.row[i], asked |-> i \in asked] : i \in c.events}
<1>1. c.events \in SUBSET Items /\ c.row \in [Items -> Nat]
    BY DEF TypeOK
<1>. HIDE DEF c
<1>2. \A items \in SUBSET Items : rowsOf(items) \subseteq RowLines /\ RowsOf(rowsOf(items)) \subseteq Nat
    BY <1>1 DEF RowLines, RowsOf
<1>3. lines \subseteq Lines
    <2>1. \A i \in Items, b \in BOOLEAN : [item |-> i, row |-> c.row[i], asked |-> b] \in Lines
        BY <1>1 DEF Lines
    <2>2. \A i \in c.events : i \in Items /\ (i \in asked) \in BOOLEAN
        BY <1>1
    <2>. QED
        BY <2>1, <2>2, Zenon
<1>4. handled \in SUBSET Items /\ drop \in SUBSET Items
    BY <1>1 DEF c
<1>5. inbox' = inbox \/ inbox' = inbox \union lines
    BY DEF Deliver, c
<1>6. routing' = routing \/ routing' = Saved(routing, rowsOf(handled), RowsOf(rowsOf(drop)))
    BY DEF Deliver, c
<1>7. rowsOf(handled) \subseteq RowLines /\ RowsOf(rowsOf(drop)) \subseteq Nat
    BY <1>2, <1>4
<1>. HIDE DEF rowsOf, lines, handled
<1>. QED
    BY <1>3, <1>5, <1>6, <1>7 DEF TypeOK, Saved

LEMMA DeliverTypes ==
    ASSUME TypeOK, NEW f \in Files, NEW asked \in SUBSET check[f].events,
           NEW drop \in SUBSET check[f].events, NEW ends, Deliver(f, asked, drop, ends)
    PROVE  TypeOK'
<1>1. PICK dropped \in SUBSET Items, pruned \in [Files -> File] :
         /\ files' = IF ends THEN ToHub(pruned, f) ELSE pruned
         /\ ends => f \in Keys
         /\ owed' = owed \ dropped
    BY DeliverFiles
<1>2. files' \in [Files -> File]
    BY <1>1, ToHubFiles
<1>3. check' \in [Files -> Checks]
    BY NoCheckIsCheck DEF Deliver, TypeOK, Checks
<1>4. record' \subseteq Files
    BY DEF Deliver, TypeOK
<1>5. UNCHANGED <<last, answer, present, steps>>
    BY DEF Deliver
<1>. QED
    BY <1>1, <1>2, <1>3, <1>4, <1>5, DeliverHubTypes DEF TypeOK, File, Checks

\* Watches, their ends, and the deliveries of the hub.
LEMMA WatchTypes ==
    ASSUME TypeOK, NEW k \in Keys, WatchKey(k) \/ EndKey(k)
    PROVE  TypeOK'
<1>1. files \in [Files -> File] /\ k \in Files
    BY DEF TypeOK, File, Files
<1>2. CASE WatchKey(k)
    BY <1>1, <1>2 DEF TypeOK, WatchKey, hub
<1>3. CASE EndKey(k)
    <2>1. files' \in [Files -> File]
        BY <1>1, <1>3, ToHubFiles DEF EndKey
    <2>. QED
        BY <1>3, <2>1 DEF TypeOK, EndKey, hub, File
<1>. QED
    BY <1>2, <1>3

LEMMA HubTypes ==
    ASSUME TypeOK, \/ WatchHub \/ EndHub \/ UnsubscribeHub \/ SessionExpires
                   \/ TakeHub \/ SendOk \/ SendFails
    PROVE  TypeOK'
<1>1. CASE WatchHub
    <2>. DEFINE lines == {[item |-> i, row |-> files[Hub].row[i], asked |-> FALSE] :
                             i \in Pending(files[Hub])}
    <2>1. files[Hub].row \in [Items -> Nat] /\ Hub \in Files
        BY DEF TypeOK, Files
    <2>2. lines \subseteq Lines
        <3>1. \A i \in Items : [item |-> i, row |-> files[Hub].row[i], asked |-> FALSE] \in Lines
            BY <2>1 DEF Lines
        <3>. QED
            BY <3>1 DEF Pending
    <2>3. inbox' = lines \/ inbox' = inbox
        BY <1>1 DEF WatchHub
    <2>. HIDE DEF lines
    <2>. QED
        BY <1>1, <2>1, <2>2, <2>3 DEF TypeOK, WatchHub
<1>2. CASE EndHub \/ UnsubscribeHub \/ SessionExpires \/ SendOk \/ SendFails
    BY <1>2 DEF TypeOK, EndHub, UnsubscribeHub, SessionExpires, SendOk, SendFails, hub
<1>3. CASE TakeHub
    <2>1. RowsOf(inbox) \subseteq Nat
        BY DEF TypeOK, RowsOf, Lines
    <2>. QED
        BY <1>3, <2>1 DEF TypeOK, TakeHub
<1>. QED
    BY <1>1, <1>2, <1>3

\* The rows of a report: `dropped` leaves the file and is done.
LEMMA ReportFiles ==
    ASSUME TypeOK, NEW f \in Files, NEW rows, Report(f, rows)
    PROVE  \E dropped \in SUBSET Pending(files[f]) :
              /\ files' = [files EXCEPT ![f] = Without(files[f], dropped)]
              /\ files' \in [Files -> File]
              /\ owed' = owed \ dropped
<1>. DEFINE out == rows \union (routing.drop \intersect (IF f = Hub THEN last ELSE {}))
            dropped == {i \in Pending(files[f]) : files[f].row[i] \in out}
<1>1. /\ files' = [files EXCEPT ![f] = Without(files[f], dropped)]
      /\ owed' = owed \ dropped
    BY DEF Report
<1>2. dropped \in SUBSET Pending(files[f])
    OBVIOUS
<1>. HIDE DEF dropped
<1>3. files' \in [Files -> File]
    <2>1. files \in [Files -> File]
        BY DEF TypeOK, File
    <2>2. Without(files[f], dropped) \in File
        BY <2>1, WithoutFile
    <2>. QED
        BY <1>1, <2>1, <2>2
<1>. QED
    BY <1>1, <1>2, <1>3

LEMMA ReportTypes ==
    ASSUME TypeOK, NEW f \in Files, NEW rows, Report(f, rows)
    PROVE  TypeOK'
<1>1. files' \in [Files -> File] /\ owed' \subseteq owed
    BY ReportFiles
<1>2. PICK taken : routing' = Left(routing, taken)
    BY DEF Report
<1>3. routing' \in [handled : SUBSET RowLines, drop : SUBSET Nat]
    BY <1>2 DEF TypeOK, Left
<1>. QED
    BY <1>1, <1>3 DEF TypeOK, Report, File

LEMMA InitTypes == Init => TypeOK
<1>1. NoFile \in File /\ NoCheck \in Checks
    BY NoFileIsFile, NoCheckIsCheck
<1>. QED
    BY <1>1, HubRoutingAssumption DEF Init, TypeOK, File, Checks, NoRouting

LEMMA NextTypes == TypeOK /\ [Next]_vars => TypeOK'
<1>. SUFFICES ASSUME TypeOK, [Next]_vars PROVE TypeOK'
    OBVIOUS
<1>1. CASE UNCHANGED vars
    BY <1>1 DEF TypeOK, vars, hub
<1>2. CASE Next
    BY <1>2, RoundTypes, PollTypes, CheckEndTypes, AssignTypes, DeliverTypes, ReportTypes,
       WatchTypes, HubTypes DEF Next
<1>. QED
    BY <1>1, <1>2

\* Each state of each instance has its type: numbers begin at 1, whatever moves.
THEOREM TypeCorrect == Spec => []TypeOK
BY InitTypes, NextTypes, PTL DEF Spec

-----------------------------------------------------------------------------
(* No open item gets out of the files *)

\* The file of a worktree has its items, and hub items of the MR it reviews.
Homes(fs) == \A k \in Keys : \A i \in Pending(fs[k]) : Source[i] \in {k, Hub}

Kept(fs, items) == \A i \in items : \E f \in Files : i \in Pending(fs[f])

\* The list of the last poll has each item that is owed.
Present(items) == \A i \in items : i \in present[Source[i]]

EventsArePresent ==
    \A f \in Files : check[f].at = "polled" => check[f].events \subseteq Found(f) \intersect present[f]

\* OpenIsPending is not inductive alone: that no prune takes an owed item needs
\* the list of the poll and the files that an item can be in.
OpenInv == TypeOK /\ OpenIsPending /\ Homes(files) /\ Present(owed) /\ EventsArePresent

\* A prune takes no item that the list of its own target has.
LEMMA KeptPruned ==
    ASSUME NEW fs \in [Files -> File], NEW f \in Files, NEW items,
           Homes(fs), Kept(fs, items), Present(items)
    PROVE  Homes(Pruned(f, fs)) /\ Kept(Pruned(f, fs), items)
<1>1. \A g \in Files : Pending(Pruned(f, fs)[g]) = Pending(fs[g]) \ Gone(f, fs, g)
    BY PrunedFiles
<1>2. Homes(Pruned(f, fs))
    BY <1>1 DEF Homes, Files
<1>3. \A g \in Files : \A i \in items : i \notin Gone(f, fs, g)
    <2>. SUFFICES ASSUME NEW g \in Files, NEW i \in items, i \in Gone(f, fs, g) PROVE FALSE
        OBVIOUS
    <2>1. i \in present[Source[i]]
        BY DEF Present
    <2>2. i \in Pending(fs[g])
        BY DEF Gone
    <2>3. CASE g = f /\ f = Hub
        BY <2>1, <2>3 DEF Gone
    <2>4. CASE g = f /\ f \in Keys
        <3>1. Source[i] \in {f, Hub}
            BY <2>2, <2>4 DEF Homes
        <3>. QED
            BY <2>1, <2>4, <3>1 DEF Gone
    <2>5. CASE g # f
        BY <2>1, <2>5 DEF Gone
    <2>. QED
        BY <2>3, <2>4, <2>5 DEF Files
<1>4. Kept(Pruned(f, fs), items)
    BY <1>1, <1>3 DEF Kept
<1>. QED
    BY <1>2, <1>4

\* The end of an agent loses no item.
LEMMA KeptToHub ==
    ASSUME NEW fs \in [Files -> File], NEW k \in Keys, NEW items, Homes(fs), Kept(fs, items)
    PROVE  Homes(ToHub(fs, k)) /\ Kept(ToHub(fs, k), items)
<1>1. Hub \in Files /\ k \in Files /\ Hub \notin Keys
    BY HubRoutingAssumption DEF Files
<1>2. /\ Pending(ToHub(fs, k)[Hub]) = Pending(fs[Hub]) \union Pending(fs[k])
      /\ Pending(ToHub(fs, k)[k]) = {}
      /\ \A f \in Files \ {Hub, k} : ToHub(fs, k)[f] = fs[f]
    BY ToHubFiles
<1>3. Homes(ToHub(fs, k))
    BY <1>1, <1>2 DEF Homes, Files
<1>4. Kept(ToHub(fs, k), items)
    BY <1>1, <1>2 DEF Kept
<1>. QED
    BY <1>3, <1>4

\* What leaves one file is what is named.
LEMMA KeptWithout ==
    ASSUME NEW fs \in [Files -> File], NEW f \in Files, NEW gone, NEW items,
           Homes(fs), Kept(fs, items)
    PROVE  LET gs == [fs EXCEPT ![f] = Without(fs[f], gone)]
           IN  Homes(gs) /\ Kept(gs, items \ gone)
<1>. DEFINE gs == [fs EXCEPT ![f] = Without(fs[f], gone)]
<1>1. \A g \in Files : Pending(gs[g]) = IF g = f THEN Pending(fs[g]) \ gone ELSE Pending(fs[g])
    <2>1. Pending(Without(fs[f], gone)) = Pending(fs[f]) \ gone
        BY WithoutFile
    <2>2. gs[f] = Without(fs[f], gone) /\ \A g \in Files \ {f} : gs[g] = fs[g]
        OBVIOUS
    <2>. HIDE DEF gs
    <2>. QED
        BY <2>1, <2>2
<1>. HIDE DEF gs
<1>2. Homes(gs) /\ Kept(gs, items \ gone)
    BY <1>1 DEF Homes, Kept, Files
<1>. QED
    BY <1>2 DEF gs

\* A round moves items between files and loses none.
LEMMA RoundOpen ==
    ASSUME OpenInv, RoundTargets
    PROVE  OpenInv'
<1>. DEFINE moved(k) == {i \in Items : k \in record /\ ReviewOf[i] = k}
            all == UNION {moved(k) : k \in Keys}
<1>1. files \in [Files -> File] /\ Hub \in Files /\ Keys \subseteq Files /\ Hub \notin Keys
    BY HubRoutingAssumption DEF OpenInv, TypeOK, File, Files
<1>2. \A k \in Keys : \A i \in moved(k) : Source[i] \in {k, Hub}
    BY HubRoutingAssumption DEF Files
<1>3. \A i \in all : \E k \in Keys : i \in moved(k)
    OBVIOUS
<1>. HIDE DEF moved, all
<1>4. files' = [f \in Files |-> IF f = Hub THEN Without(files[Hub], all)
                                ELSE With(files[f], files[Hub], moved(f))]
    BY DEF RoundTargets, moved, all
<1>5. Pending(files'[Hub]) = Pending(files[Hub]) \ all
    <2>1. files'[Hub] = Without(files[Hub], all)
        BY <1>1, <1>4
    <2>. QED
        BY <1>1, <2>1, WithoutFile
<1>6. \A k \in Keys :
         Pending(files'[k]) = Pending(files[k]) \union (moved(k) \intersect Pending(files[Hub]))
    <2>. TAKE k \in Keys
    <2>1. files'[k] = With(files[k], files[Hub], moved(k))
        BY <1>1, <1>4
    <2>2. files[k] \in File /\ files[Hub] \in File
        BY <1>1
    <2>. QED
        BY <2>1, <2>2, WithFile
<1>7. Homes(files)'
    BY <1>2, <1>6 DEF OpenInv, Homes
<1>8. Kept(files', owed)
    BY <1>1, <1>3, <1>5, <1>6 DEF OpenInv, OpenIsPending, Kept, Files
<1>9. EventsArePresent'
    BY DEF RoundTargets, EventsArePresent, NoCheck
<1>10. owed' = owed /\ present' = present
    BY DEF RoundTargets
<1>11. TypeOK'
    BY RoundTypes DEF OpenInv
<1>. QED
    BY <1>7, <1>8, <1>9, <1>10, <1>11 DEF OpenInv, OpenIsPending, Kept, Present

LEMMA PollOpen ==
    ASSUME OpenInv, NEW f \in Files, NEW now \in SUBSET Found(f), NEW events \in SUBSET Found(f),
           Poll(f, now, events)
    PROVE  OpenInv'
<1>1. TypeOK'
    BY PollTypes DEF OpenInv
<1>2. /\ owed' = owed \ (Found(f) \ now)
      /\ present' = [present EXCEPT ![f] = now]
      /\ check' = [check EXCEPT ![f] = [NoCheck EXCEPT !.at = "polled", !.events = events]]
      /\ events \subseteq now
      /\ files' = files
    BY DEF Poll
<1>3. present \in [Files -> SUBSET Items] /\ check \in [Files -> Checks] /\ owed \subseteq Items
    BY DEF OpenInv, TypeOK, Checks
<1>4. Present(owed)'
    <2>. SUFFICES ASSUME NEW i \in owed' PROVE i \in present'[Source[i]]
        BY DEF Present
    <2>1. i \in owed /\ i \in Items /\ Source[i] \in Files /\ i \in present[Source[i]]
        BY <1>2, <1>3, HubRoutingAssumption DEF OpenInv, Present
    <2>. QED
        BY <1>2, <1>3, <2>1 DEF Found
<1>5. EventsArePresent'
    <2>. SUFFICES ASSUME NEW g \in Files, check'[g].at = "polled"
                  PROVE  check'[g].events \subseteq Found(g) \intersect present'[g]
        BY DEF EventsArePresent
    <2>1. CASE g = f
        BY <1>2, <1>3, <2>1 DEF NoCheck
    <2>2. CASE g # f
        BY <1>2, <1>3, <2>2 DEF OpenInv, EventsArePresent
    <2>. QED
        BY <2>1, <2>2
<1>6. OpenIsPending' /\ Homes(files)'
    BY <1>2 DEF OpenInv, OpenIsPending, Homes
<1>. QED
    BY <1>1, <1>4, <1>5, <1>6 DEF OpenInv

\* A check that goes on or ends takes nothing from the other checks.
LEMMA OtherChecks ==
    ASSUME OpenInv, NEW f \in Files, NEW next \in Checks, next.at # "polled",
           check' = [check EXCEPT ![f] = next], present' = present
    PROVE  EventsArePresent'
<1>1. check \in [Files -> Checks]
    BY DEF OpenInv, TypeOK, Checks
<1>. QED
    BY <1>1 DEF OpenInv, EventsArePresent

LEMMA CheckEndOpen ==
    ASSUME OpenInv, NEW f \in Files, CheckFails(f) \/ Quiet(f)
    PROVE  OpenInv'
<1>1. TypeOK'
    BY CheckEndTypes DEF OpenInv
<1>2. /\ check' = [check EXCEPT ![f] = NoCheck]
      /\ present' = present /\ owed' = owed
    BY DEF CheckFails, Quiet
<1>3. EventsArePresent'
    BY <1>2, NoCheckIsCheck, OtherChecks DEF NoCheck
<1>4. files \in [Files -> File]
    BY DEF OpenInv, TypeOK, File
<1>5. Homes(files) /\ Kept(files, owed) /\ Present(owed)
    BY DEF OpenInv, OpenIsPending, Kept
<1>6. Homes(files') /\ Kept(files', owed)
    <2>1. CASE CheckFails(f)
        BY <1>5, <2>1 DEF CheckFails
    <2>2. CASE Quiet(f)
        BY <1>4, <1>5, <2>2, KeptPruned DEF Quiet
    <2>. QED
        BY <2>1, <2>2
<1>. QED
    BY <1>1, <1>2, <1>3, <1>5, <1>6 DEF OpenInv, OpenIsPending, Kept, Homes, Present

\* The items of the events of a check are pending when they have their rows.
LEMMA AssignOpen ==
    ASSUME OpenInv, NEW f \in Files, Assign(f)
    PROVE  OpenInv'
<1>. DEFINE events == check[f].events
<1>1. TypeOK'
    BY AssignTypes DEF OpenInv
<1>2. TypeOK
    BY DEF OpenInv
<1>3. PICK left \in [Files -> File], numbered \in File :
         /\ left = IF f \in Keys \ record THEN ToHub(files, f) ELSE files
         /\ Pending(numbered) = Pending(left[Owner(f)]) \union events
         /\ files' = [left EXCEPT ![Owner(f)] = numbered]
    BY <1>2, AssignFiles
<1>4. /\ check[f].at = "polled"
      /\ owed' = owed \union events
      /\ present' = present
    BY DEF Assign
<1>5. events \subseteq Found(f) \intersect present[f]
    BY <1>4 DEF OpenInv, EventsArePresent
<1>6. Homes(left) /\ Kept(left, owed)
    <2>1. files \in [Files -> File]
        BY <1>2 DEF TypeOK, File
    <2>2. Homes(files) /\ Kept(files, owed)
        BY DEF OpenInv, OpenIsPending, Kept
    <2>. QED
        BY <1>3, <2>1, <2>2, KeptToHub
<1>7. Owner(f) \in {f, Hub} /\ Owner(f) \in Files
    BY DEF Owner, Files
<1>8. /\ files'[Owner(f)] = numbered
      /\ \A g \in Files \ {Owner(f)} : files'[g] = left[g]
    BY <1>3, <1>7
<1>9. Homes(files')
    <2>. SUFFICES ASSUME NEW k \in Keys, NEW i \in Pending(files'[k]) PROVE Source[i] \in {k, Hub}
        BY DEF Homes
    <2>1. i \in Pending(left[k]) \/ (k = Owner(f) /\ i \in events)
        BY <1>3, <1>8 DEF Files
    <2>2. CASE i \in Pending(left[k])
        BY <1>6, <2>2 DEF Homes
    <2>3. CASE k = Owner(f) /\ i \in events
        BY <1>5, <1>7, <2>3, HubRoutingAssumption DEF Found
    <2>. QED
        BY <2>1, <2>2, <2>3
<1>10. Kept(files', owed')
    <2>1. \A g \in Files : Pending(left[g]) \subseteq Pending(files'[g])
        BY <1>3, <1>8
    <2>2. \A i \in events : i \in Pending(files'[Owner(f)])
        BY <1>3, <1>8
    <2>. QED
        BY <1>4, <1>6, <1>7, <2>1, <2>2 DEF Kept
<1>11. Present(owed)'
    BY <1>4, <1>5 DEF OpenInv, Present, Found
<1>12. EventsArePresent'
    <2>1. PICK row, routes : check' = [check EXCEPT ![f] =
              [at |-> "routed", events |-> events, row |-> row, routes |-> routes]]
        BY ZenonT(60) DEF Assign
    <2>2. check \in [Files -> Checks]
        BY <1>2 DEF TypeOK, Checks
    <2>3. check'[f].at = "routed" /\ \A g \in Files \ {f} : check'[g] = check[g]
        BY <2>1, <2>2
    <2>. QED
        BY <1>4, <2>3 DEF OpenInv, EventsArePresent
<1>. QED
    BY <1>1, <1>9, <1>10, <1>11, <1>12 DEF OpenInv, OpenIsPending, Kept, Homes

LEMMA DeliverOpen ==
    ASSUME OpenInv, NEW f \in Files, NEW asked \in SUBSET check[f].events,
           NEW drop \in SUBSET check[f].events, NEW ends, Deliver(f, asked, drop, ends)
    PROVE  OpenInv'
<1>1. TypeOK /\ TypeOK'
    BY DeliverTypes DEF OpenInv
<1>2. PICK dropped \in SUBSET Items, fs \in [Files -> File], pruned \in [Files -> File] :
         /\ fs = [files EXCEPT ![Hub] = Without(files[Hub], dropped)]
         /\ pruned = Pruned(f, fs)
         /\ files' = IF ends THEN ToHub(pruned, f) ELSE pruned
         /\ ends => f \in Keys
         /\ owed' = owed \ dropped
    BY <1>1, DeliverFiles
<1>3. check' = [check EXCEPT ![f] = NoCheck] /\ present' = present
    BY DEF Deliver
<1>4. EventsArePresent'
    BY <1>3, NoCheckIsCheck, OtherChecks DEF NoCheck
<1>5. Present(owed')
    BY <1>2 DEF OpenInv, Present
<1>6. Homes(fs) /\ Kept(fs, owed')
    <2>1. files \in [Files -> File] /\ Hub \in Files
        BY <1>1 DEF TypeOK, File, Files
    <2>2. Homes(files) /\ Kept(files, owed)
        BY DEF OpenInv, OpenIsPending, Kept
    <2>. QED
        BY <1>2, <2>1, <2>2, KeptWithout
<1>7. Homes(pruned) /\ Kept(pruned, owed')
    BY <1>2, <1>5, <1>6, KeptPruned
<1>8. Homes(files') /\ Kept(files', owed')
    BY <1>2, <1>7, KeptToHub
<1>. QED
    BY <1>1, <1>3, <1>4, <1>5, <1>8 DEF OpenInv, OpenIsPending, Kept, Homes, Present

\* A report ends only what its rows name.
LEMMA ReportOpen ==
    ASSUME OpenInv, NEW f \in Files, NEW rows, Report(f, rows)
    PROVE  OpenInv'
<1>1. TypeOK /\ TypeOK'
    BY ReportTypes DEF OpenInv
<1>2. PICK dropped \in SUBSET Pending(files[f]) :
         /\ files' = [files EXCEPT ![f] = Without(files[f], dropped)]
         /\ owed' = owed \ dropped
    BY <1>1, ReportFiles
<1>3. UNCHANGED <<present, check>>
    BY DEF Report
<1>4. files \in [Files -> File] /\ Homes(files) /\ Kept(files, owed)
    BY <1>1 DEF TypeOK, File, OpenInv, OpenIsPending, Kept
<1>5. Homes(files') /\ Kept(files', owed')
    BY <1>2, <1>4, KeptWithout
<1>. QED
    BY <1>1, <1>2, <1>3, <1>5 DEF OpenInv, OpenIsPending, Kept, Homes, Present, EventsArePresent

LEMMA WatchOpen ==
    ASSUME OpenInv, NEW k \in Keys, WatchKey(k) \/ EndKey(k)
    PROVE  OpenInv'
<1>1. TypeOK /\ TypeOK'
    BY WatchTypes DEF OpenInv
<1>2. UNCHANGED <<present, check, owed>>
    BY DEF WatchKey, EndKey
<1>3. files \in [Files -> File] /\ Homes(files) /\ Kept(files, owed)
    BY <1>1 DEF TypeOK, File, OpenInv, OpenIsPending, Kept
<1>4. files' = files \/ files' = ToHub(files, k)
    BY DEF WatchKey, EndKey
<1>5. Homes(files') /\ Kept(files', owed')
    BY <1>2, <1>3, <1>4, KeptToHub
<1>. QED
    BY <1>1, <1>2, <1>5 DEF OpenInv, OpenIsPending, Kept, Homes, Present, EventsArePresent

LEMMA OpenStep == OpenInv /\ [Next]_vars => OpenInv'
<1>. SUFFICES ASSUME OpenInv, [Next]_vars PROVE OpenInv'
    OBVIOUS
<1>1. ASSUME UNCHANGED <<files, present, check, owed>>, TypeOK' PROVE OpenInv'
    BY <1>1 DEF OpenInv, OpenIsPending, Homes, Present, EventsArePresent
<1>2. CASE UNCHANGED vars
    <2>1. TypeOK'
        BY <1>2 DEF OpenInv, TypeOK, vars, hub
    <2>. QED
        BY <1>1, <1>2, <2>1 DEF vars
<1>3. CASE \/ WatchHub \/ EndHub \/ UnsubscribeHub \/ SessionExpires
           \/ TakeHub \/ SendOk \/ SendFails
    <2>1. TypeOK'
        BY <1>3, HubTypes DEF OpenInv
    <2>2. UNCHANGED <<files, present, check, owed>>
        BY <1>3 DEF WatchHub, EndHub, UnsubscribeHub, SessionExpires, TakeHub, SendOk, SendFails
    <2>. QED
        BY <1>1, <2>1, <2>2
<1>4. CASE Next
    BY <1>3, <1>4, RoundOpen, PollOpen, CheckEndOpen, AssignOpen, DeliverOpen, ReportOpen, WatchOpen
       DEF Next
<1>. QED
    BY <1>2, <1>4

\* An item whose cause stays is pending in a file until the router or a model is
\* done with it: no move and no prune takes it.
THEOREM OpenItemsArePending == Spec => []OpenIsPending
<1>1. Init => OpenInv
    <2>. SUFFICES ASSUME Init PROVE OpenInv
        OBVIOUS
    <2>1. TypeOK
        BY InitTypes
    <2>2. Homes(files)
        BY NoFileIsFile DEF Init, Homes, Files
    <2>. QED
        BY <2>1, <2>2 DEF Init, OpenInv, OpenIsPending, Present, EventsArePresent, NoCheck
<1>2. OpenInv => OpenIsPending
    BY DEF OpenInv
<1>. QED
    BY <1>1, <1>2, OpenStep, PTL DEF Spec
-----------------------------------------------------------------------------
(* Rows: within a file a row is the number of one item, and the rows that the *)
(* router saves for a report never name another item.                        *)

OneRow(file) ==
    \A i, j \in Pending(file) :
        /\ file.row[i] < file.next
        /\ file.row[i] = file.row[j] => i = j

\* The rows of `new` are those of `old`, or were free in `old`.
Grown(old, new) ==
    /\ OneRow(new)
    /\ old.next <= new.next
    /\ \A i \in Pending(new) : new.row[i] = old.row[i] \/ old.next <= new.row[i]

-----------------------------------------------------------------------------
(* The operators on files *)

LEMMA OneRowNoFile == OneRow(NoFile)
BY NoFileIsFile DEF OneRow

LEMMA GrownSelf ==
    ASSUME NEW file \in File, OneRow(file)
    PROVE  Grown(file, file)
BY DEF Grown, File

LEMMA GrownTransitive ==
    ASSUME NEW old \in File, NEW mid \in File, NEW new \in File, Grown(old, mid), Grown(mid, new)
    PROVE  Grown(old, new)
<1>1. /\ old.next \in Nat /\ mid.next \in Nat /\ new.next \in Nat
      /\ \A i \in Items : old.row[i] \in Nat /\ mid.row[i] \in Nat /\ new.row[i] \in Nat
    BY DEF File
<1>2. OneRow(new) /\ old.next <= new.next
    BY <1>1 DEF Grown
<1>3. ASSUME NEW i \in Pending(new) PROVE new.row[i] = old.row[i] \/ old.next <= new.row[i]
    <2>1. i \in Items /\ new.row[i] # 0
        BY DEF Pending
    <2>2. CASE new.row[i] = mid.row[i]
        <3>1. i \in Pending(mid)
            BY <2>1, <2>2 DEF Pending
        <3>. QED
            BY <2>2, <3>1 DEF Grown
    <2>3. CASE mid.next <= new.row[i]
        BY <1>1, <2>1, <2>3 DEF Grown
    <2>. QED
        BY <2>2, <2>3 DEF Grown
<1>. QED
    BY <1>2, <1>3 DEF Grown

LEMMA GrownWithout ==
    ASSUME NEW file \in File, NEW items, OneRow(file)
    PROVE  Grown(file, Without(file, items))
<1>. DEFINE new == Without(file, items)
<1>1. new.next = file.next
    BY DEF Without, File
<1>2. \A i \in Pending(new) : i \in Pending(file) /\ new.row[i] = file.row[i]
    BY DEF Without, File, Pending
<1>3. file.next \in Nat
    BY DEF File
<1>. HIDE DEF new
<1>4. OneRow(new)
    BY <1>1, <1>2 DEF OneRow
<1>. QED
    BY <1>1, <1>2, <1>3, <1>4 DEF Grown, new

LEMMA GrownNewRows ==
    ASSUME NEW old \in File, NEW new \in File, OneRow(old), NewRows(old, new)
    PROVE  Grown(old, new)
<1>1. /\ old.next \in Nat /\ new.next \in Nat /\ old.next <= new.next
      /\ \A i \in Items : old.row[i] \in Nat /\ new.row[i] \in Nat
    BY DEF File, NewRows
<1>2. Pending(old) \subseteq Items /\ Pending(new) \subseteq Items
    BY DEF Pending
<1>3. ASSUME NEW i \in Pending(new)
      PROVE  \/ i \in Pending(old) /\ new.row[i] = old.row[i] /\ new.row[i] < old.next
             \/ i \notin Pending(old) /\ old.next <= new.row[i] /\ new.row[i] < new.next
    BY DEF NewRows, OneRow
<1>4. ASSUME NEW i \in Pending(new) PROVE new.row[i] < new.next
    BY <1>1, <1>2, <1>3
<1>5. ASSUME NEW i \in Pending(new), NEW j \in Pending(new), new.row[i] = new.row[j] PROVE i = j
    <2>1. CASE i \in Pending(old) /\ j \in Pending(old)
        BY <1>3, <1>5, <2>1 DEF OneRow
    <2>2. CASE i \notin Pending(old) /\ j \notin Pending(old)
        BY <1>5, <2>2 DEF NewRows
    <2>3. CASE i \in Pending(old) /\ j \notin Pending(old)
        BY <1>1, <1>2, <1>3, <1>5, <2>3
    <2>4. CASE i \notin Pending(old) /\ j \in Pending(old)
        BY <1>1, <1>2, <1>3, <1>5, <2>4
    <2>. QED
        BY <2>1, <2>2, <2>3, <2>4
<1>. QED
    BY <1>1, <1>3, <1>4, <1>5 DEF Grown, OneRow

\* Items that move get different numbers: each is the next number and how many
\* items with a smaller row move with it.
LEMMA NewRowsRenumbered ==
    ASSUME NEW to \in File, NEW from \in File, OneRow(from),
           NEW new \in SUBSET (Pending(from) \ Pending(to))
    PROVE  NewRows(to, Renumbered(to, from, new))
<1>. DEFINE before(i) == {j \in new : from.row[j] < from.row[i]}
            row == [i \in Items |-> IF i \in new THEN to.next + Cardinality(before(i))
                                                 ELSE to.row[i]]
            moved == Renumbered(to, from, new)
<1>1. IsFiniteSet(new) /\ Cardinality(new) \in Nat
    BY FS_Subset, FS_CardinalityType, HubRoutingAssumption DEF Pending
<1>2. \A i \in new : /\ IsFiniteSet(before(i)) /\ Cardinality(before(i)) \in Nat
                     /\ Cardinality(before(i)) < Cardinality(new)
    <2>. TAKE i \in new
    <2>1. before(i) \in SUBSET new /\ before(i) # new
        <3>1. from.row[i] \in Nat
            BY DEF File, Pending
        <3>. QED
            BY <3>1
    <2>. HIDE DEF before
    <2>2. IsFiniteSet(before(i)) /\ Cardinality(before(i)) <= Cardinality(new)
          /\ Cardinality(before(i)) # Cardinality(new)
        BY <1>1, <2>1, FS_Subset
    <2>3. Cardinality(before(i)) \in Nat
        BY <2>2, FS_CardinalityType
    <2>. QED
        BY <1>1, <2>2, <2>3
<1>3. \A i, j \in new : from.row[i] < from.row[j] => Cardinality(before(i)) < Cardinality(before(j))
    <2>. SUFFICES ASSUME NEW i \in new, NEW j \in new, from.row[i] < from.row[j]
                  PROVE  Cardinality(before(i)) < Cardinality(before(j))
        OBVIOUS
    <2>1. \A k \in new : from.row[k] \in Nat
        BY DEF File, Pending
    <2>2. before(i) \in SUBSET before(j) /\ i \in before(j) /\ i \notin before(i)
        BY <2>1
    <2>3. before(i) # before(j)
        BY <2>2
    <2>4. /\ IsFiniteSet(before(j)) /\ Cardinality(before(j)) \in Nat
          /\ Cardinality(before(i)) \in Nat
        BY <1>2
    <2>. HIDE DEF before
    <2>. QED
        BY <2>2, <2>3, <2>4, FS_Subset
<1>4. to.next \in Nat /\ to.row \in [Items -> Nat] /\ new \subseteq Items
    BY DEF File, Pending
<1>5. \A i, j \in new : row[i] = row[j] => i = j
    <2>. SUFFICES ASSUME NEW i \in new, NEW j \in new, i # j PROVE row[i] # row[j]
        OBVIOUS
    <2>1. from.row[i] # from.row[j] /\ from.row[i] \in Nat /\ from.row[j] \in Nat
        BY DEF OneRow, File, Pending
    <2>2. row[i] = to.next + Cardinality(before(i)) /\ row[j] = to.next + Cardinality(before(j))
        BY <1>4
    <2>3. Cardinality(before(i)) < Cardinality(before(j)) \/ Cardinality(before(j)) < Cardinality(before(i))
        BY SMTT(60), <1>3, <2>1
    <2>. HIDE DEF before, row
    <2>. QED
        BY <1>2, <1>4, <2>2, <2>3
<1>. HIDE DEF before
<1>6. \A i \in Items :
          \/ i \in new /\ to.next <= row[i] /\ row[i] < to.next + Cardinality(new)
          \/ i \notin new /\ row[i] = to.row[i]
    BY <1>1, <1>2, <1>4
<1>7. moved = [next |-> to.next + Cardinality(new), row |-> row]
    BY DEF Renumbered, before
<1>8. Pending(moved) = Pending(to) \union new
    BY <1>4, RenumberedFile
<1>. HIDE DEF row
<1>9. moved.next = to.next + Cardinality(new) /\ moved.row = row
    BY <1>7
<1>. HIDE DEF moved
<1>10. NewRows(to, moved)
    <2>1. to.next <= moved.next
        BY <1>1, <1>4, <1>9
    <2>2. ASSUME NEW i \in Pending(moved)
          PROVE  \/ i \in Pending(to) /\ moved.row[i] = to.row[i]
                 \/ i \notin Pending(to) /\ to.next <= moved.row[i] /\ moved.row[i] < moved.next
        <3>1. i \in Items
            BY DEF Pending
        <3>. QED
            BY <1>6, <1>8, <1>9, <3>1
    <2>3. \A i, j \in Pending(moved) \ Pending(to) : moved.row[i] = moved.row[j] => i = j
        BY <1>5, <1>8, <1>9
    <2>. QED
        BY <2>1, <2>2, <2>3 DEF NewRows
<1>. QED
    BY <1>10 DEF moved

LEMMA GrownWith ==
    ASSUME NEW to \in File, NEW from \in File, NEW items, OneRow(to), OneRow(from)
    PROVE  Grown(to, With(to, from, items))
<1>. DEFINE new == Coming(from, items) \ Pending(to)
<1>1. new \in SUBSET (Pending(from) \ Pending(to))
    BY DEF Coming
<1>2. Renumbered(to, from, new) \in File
    BY RenumberedFile DEF Coming, Pending
<1>. HIDE DEF new
<1>3. Grown(to, Renumbered(to, from, new))
    BY <1>1, <1>2, NewRowsRenumbered, GrownNewRows
<1>. QED
    BY <1>3 DEF With, new

-----------------------------------------------------------------------------
(* All files *)

Rows(fs) == \A f \in Files : OneRow(fs[f])

\* A step of the files that gives no number of the hub a second time.
RowsStep(fs, gs) == Rows(gs) /\ Grown(fs[Hub], gs[Hub])

LEMMA RowsStepSelf ==
    ASSUME NEW fs \in [Files -> File], Rows(fs)
    PROVE  RowsStep(fs, fs)
BY GrownSelf DEF Rows, RowsStep, Files

LEMMA RowsStepTransitive ==
    ASSUME NEW fs \in [Files -> File], NEW gs \in [Files -> File], NEW hs \in [Files -> File],
           RowsStep(fs, gs), RowsStep(gs, hs)
    PROVE  RowsStep(fs, hs)
<1>1. fs[Hub] \in File /\ gs[Hub] \in File /\ hs[Hub] \in File
    BY DEF Files
<1>. QED
    BY <1>1, GrownTransitive DEF RowsStep

\* One file changes.
LEMMA RowsStepAt ==
    ASSUME NEW fs \in [Files -> File], NEW f \in Files, NEW new \in File,
           Rows(fs), Grown(fs[f], new)
    PROVE  RowsStep(fs, [fs EXCEPT ![f] = new])
<1>1. Hub \in Files
    BY DEF Files
<1>2. OneRow(new)
    BY DEF Grown
<1>3. Grown(fs[Hub], fs[Hub])
    BY <1>1, GrownSelf DEF Rows
<1>. QED
    BY <1>1, <1>2, <1>3 DEF Rows, RowsStep

LEMMA RowsStepToHub ==
    ASSUME NEW fs \in [Files -> File], NEW k \in Keys, Rows(fs)
    PROVE  RowsStep(fs, ToHub(fs, k))
<1>1. Hub \in Files /\ k \in Files /\ k # Hub
    BY HubRoutingAssumption DEF Files
<1>2. Grown(fs[Hub], With(fs[Hub], fs[k], Items))
    BY <1>1, GrownWith DEF Rows
<1>3. OneRow(With(fs[Hub], fs[k], Items))
    BY <1>2 DEF Grown
<1>4. /\ ToHub(fs, k)[Hub] = With(fs[Hub], fs[k], Items)
      /\ ToHub(fs, k)[k] = NoFile
      /\ \A f \in Files \ {Hub, k} : ToHub(fs, k)[f] = fs[f]
    BY <1>1 DEF ToHub
<1>. QED
    BY <1>2, <1>3, <1>4, OneRowNoFile DEF Rows, RowsStep

LEMMA RowsStepPruned ==
    ASSUME NEW fs \in [Files -> File], NEW f \in Files, Rows(fs)
    PROVE  RowsStep(fs, Pruned(f, fs))
<1>1. \A g \in Files : Grown(fs[g], Without(fs[g], Gone(f, fs, g)))
    BY GrownWithout DEF Rows
<1>. QED
    BY <1>1 DEF Rows, RowsStep, Pruned, Grown, Files

-----------------------------------------------------------------------------
(* The steps *)

LEMMA RoundRows ==
    ASSUME TypeOK, Rows(files), RoundTargets
    PROVE  RowsStep(files, files')
<1>. DEFINE moved(k) == {i \in Items : k \in record /\ ReviewOf[i] = k}
            all == UNION {moved(k) : k \in Keys}
<1>1. files \in [Files -> File] /\ Hub \in Files
    BY DEF TypeOK, File, Files
<1>. HIDE DEF moved, all
<1>2. files' = [f \in Files |-> IF f = Hub THEN Without(files[Hub], all)
                                ELSE With(files[f], files[Hub], moved(f))]
    BY DEF RoundTargets, moved, all
<1>3. \A f \in Files : OneRow(files[f]) /\ files[f] \in File
    BY <1>1 DEF Rows
<1>4. \A f \in Files : Grown(files[f], With(files[f], files[Hub], moved(f)))
    BY <1>1, <1>3, GrownWith
<1>5. Grown(files[Hub], Without(files[Hub], all))
    BY <1>1, <1>3, GrownWithout
<1>6. files'[Hub] = Without(files[Hub], all)
      /\ \A f \in Files \ {Hub} : files'[f] = With(files[f], files[Hub], moved(f))
    BY <1>1, <1>2
<1>. QED
    BY <1>4, <1>5, <1>6 DEF Rows, RowsStep, Grown

LEMMA AssignRows ==
    ASSUME TypeOK, Rows(files), NEW f \in Files, Assign(f)
    PROVE  RowsStep(files, files')
<1>1. PICK left \in [Files -> File], numbered \in File :
         /\ NewRows(left[Owner(f)], numbered)
         /\ left = IF f \in Keys \ record THEN ToHub(files, f) ELSE files
         /\ files' = [left EXCEPT ![Owner(f)] = numbered]
    BY AssignFiles
<1>2. files \in [Files -> File] /\ files' \in [Files -> File]
    BY <1>1 DEF TypeOK, File
<1>3. RowsStep(files, left)
    BY <1>1, <1>2, RowsStepToHub, RowsStepSelf
<1>4. Owner(f) \in Files
    BY DEF Owner, Files
<1>5. Grown(left[Owner(f)], numbered)
    BY <1>1, <1>3, <1>4, GrownNewRows DEF RowsStep, Rows
<1>6. RowsStep(left, files')
    BY <1>1, <1>3, <1>4, <1>5, RowsStepAt DEF RowsStep
<1>. QED
    BY <1>2, <1>3, <1>6, RowsStepTransitive

LEMMA DeliverRows ==
    ASSUME TypeOK, Rows(files), NEW f \in Files, NEW asked, NEW drop, NEW ends,
           Deliver(f, asked, drop, ends)
    PROVE  RowsStep(files, files')
<1>1. PICK dropped \in SUBSET Items, fs \in [Files -> File], pruned \in [Files -> File] :
         /\ fs = [files EXCEPT ![Hub] = Without(files[Hub], dropped)]
         /\ pruned = Pruned(f, fs)
         /\ files' = IF ends THEN ToHub(pruned, f) ELSE pruned
         /\ ends => f \in Keys
    BY DeliverFiles
<1>2. files \in [Files -> File] /\ Hub \in Files
    BY DEF TypeOK, File, Files
<1>3. files' \in [Files -> File]
    BY <1>1, ToHubFiles
<1>4. RowsStep(files, fs)
    <2>1. Grown(files[Hub], Without(files[Hub], dropped)) /\ Without(files[Hub], dropped) \in File
        BY <1>2, GrownWithout, WithoutFile DEF Rows
    <2>. QED
        BY <1>1, <1>2, <2>1, RowsStepAt
<1>5. RowsStep(fs, pruned)
    BY <1>1, <1>4, RowsStepPruned DEF RowsStep
<1>6. RowsStep(pruned, files')
    BY <1>1, <1>5, RowsStepToHub, RowsStepSelf DEF RowsStep
<1>. QED
    BY <1>2, <1>3, <1>4, <1>5, <1>6, RowsStepTransitive

LEMMA ReportRows ==
    ASSUME TypeOK, Rows(files), NEW f \in Files, NEW rows, Report(f, rows)
    PROVE  RowsStep(files, files')
<1>1. PICK dropped \in SUBSET Pending(files[f]) :
         files' = [files EXCEPT ![f] = Without(files[f], dropped)]
    BY ReportFiles
<1>2. files \in [Files -> File]
    BY DEF TypeOK, File
<1>3. Grown(files[f], Without(files[f], dropped)) /\ Without(files[f], dropped) \in File
    BY <1>2, GrownWithout, WithoutFile DEF Rows
<1>. QED
    BY <1>1, <1>2, <1>3, RowsStepAt

LEMMA NextRows ==
    ASSUME TypeOK, Rows(files), [Next]_vars
    PROVE  RowsStep(files, files')
<1>1. files \in [Files -> File]
    BY DEF TypeOK, File
<1>2. CASE files' = files
    BY <1>1, <1>2, RowsStepSelf
<1>3. ASSUME NEW f \in Files, Quiet(f) PROVE RowsStep(files, files')
    BY <1>1, <1>3, RowsStepPruned DEF Quiet
<1>4. ASSUME NEW k \in Keys, EndKey(k) PROVE RowsStep(files, files')
    BY <1>1, <1>4, RowsStepToHub DEF EndKey
<1>5. CASE \/ WatchHub \/ EndHub \/ UnsubscribeHub \/ SessionExpires
           \/ TakeHub \/ SendOk \/ SendFails
    BY <1>2, <1>5 DEF WatchHub, EndHub, UnsubscribeHub, SessionExpires, TakeHub, SendOk, SendFails
<1>6. ASSUME NEW f \in Files, NEW now, NEW events, Poll(f, now, events)
      PROVE  RowsStep(files, files')
    BY <1>2, <1>6 DEF Poll
<1>7. ASSUME NEW f \in Files, CheckFails(f) PROVE RowsStep(files, files')
    BY <1>2, <1>7 DEF CheckFails
<1>8. ASSUME NEW k \in Keys, WatchKey(k) PROVE RowsStep(files, files')
    BY <1>2, <1>8 DEF WatchKey
<1>9. CASE UNCHANGED vars
    BY <1>2, <1>9 DEF vars
<1>. QED
    BY <1>3, <1>4, <1>5, <1>6, <1>7, <1>8, <1>9, RoundRows, AssignRows, DeliverRows, ReportRows
       DEF Next

\* Within a file, a row is the number of one pending item and the next number is
\* free: an agent that names an item by its row names that item.
THEOREM RowsNameOneItem == Spec => []OneItemPerRow
<1>1. OneItemPerRow <=> Rows(files)
    BY DEF OneItemPerRow, Rows, OneRow
<1>2. Init => Rows(files)
    BY OneRowNoFile DEF Init, Rows
<1>3. TypeOK /\ Rows(files) /\ [Next]_vars => Rows(files)'
    BY NextRows DEF RowsStep, Rows
<1>. QED
    BY <1>1, <1>2, <1>3, TypeCorrect, PTL DEF Spec

-----------------------------------------------------------------------------
(* The rows that wait for a report of the hub *)

\* A number that was given, and now or later is the row of no other item.
Names(file, n, i) == n < file.next /\ \A j \in Pending(file) : file.row[j] = n => j = i

HandledAreNamed == \A h \in routing.handled : Names(files[Hub], h.row, h.item)

RoutedAreNamed ==
    check[Hub].at = "routed" =>
        \A i \in check[Hub].events : Names(files[Hub], check[Hub].row[i], i)

\* SavedRowsNameTheirItem is not inductive alone: a saved row must not be free,
\* or the next item gets it, and the check of the hub carries the rows to save
\* while its router runs and the items move.
SavedInv == TypeOK /\ Rows(files) /\ HandledAreNamed /\ RoutedAreNamed

LEMMA NamesGrown ==
    ASSUME NEW old \in File, NEW new \in File, Grown(old, new), NEW n \in Nat, NEW i,
           Names(old, n, i)
    PROVE  Names(new, n, i)
<1>1. /\ old.next \in Nat /\ new.next \in Nat
      /\ \A j \in Items : old.row[j] \in Nat /\ new.row[j] \in Nat
    BY DEF File
<1>2. n < new.next
    BY <1>1 DEF Names, Grown
<1>3. ASSUME NEW j \in Pending(new), new.row[j] = n PROVE j = i
    <2>1. j \in Items /\ n # 0
        BY <1>3 DEF Pending
    <2>2. new.row[j] = old.row[j]
        BY <1>1, <1>3 DEF Names, Grown
    <2>3. j \in Pending(old)
        BY <1>3, <2>1, <2>2 DEF Pending
    <2>. QED
        BY <1>3, <2>2, <2>3 DEF Names
<1>. QED
    BY <1>2, <1>3 DEF Names

LEMMA NamesPending ==
    ASSUME NEW file \in File, OneRow(file), NEW i \in Pending(file)
    PROVE  Names(file, file.row[i], i)
BY DEF Names, OneRow

\* The router decides about an event of the hub only: the row that it saves is
\* the one that its check carries.
LEMMA HandledStep ==
    ASSUME TypeOK, [Next]_vars, NEW h \in routing'.handled
    PROVE  \/ h \in routing.handled
           \/ /\ check[Hub].at = "routed"
              /\ h.item \in check[Hub].events /\ h.row = check[Hub].row[h.item]
<1>1. CASE UNCHANGED routing
    BY <1>1
<1>2. ASSUME NEW f \in Files, NEW asked \in SUBSET check[f].events,
             NEW drop \in SUBSET check[f].events, NEW ends, Deliver(f, asked, drop, ends)
      PROVE  \/ h \in routing.handled
             \/ /\ check[Hub].at = "routed"
                /\ h.item \in check[Hub].events /\ h.row = check[Hub].row[h.item]
    <2>. DEFINE c == check[f]
                handled == IF c.routes THEN c.events \ asked ELSE {}
                rowsOf(items) == {[item |-> i, row |-> c.row[i]] : i \in items}
    <2>1. /\ c.at = "routed"
          /\ (c.routes /\ f = Hub) \/ asked = {}
          /\ \/ routing' = Saved(routing, rowsOf(handled), RowsOf(rowsOf(drop)))
                /\ handled # c.events
             \/ routing' = routing
        BY <1>2 DEF Deliver
    <2>. HIDE DEF rowsOf
    <2>2. CASE routing' = routing
        BY <2>2
    <2>3. CASE /\ routing' = Saved(routing, rowsOf(handled), RowsOf(rowsOf(drop)))
               /\ handled # c.events
               /\ h \notin routing.handled
        <3>1. h \in rowsOf(handled)
            BY <2>3 DEF Saved
        <3>2. PICK i \in handled : h = [item |-> i, row |-> c.row[i]]
            BY <3>1 DEF rowsOf
        <3>3. f = Hub /\ handled \subseteq c.events
            BY <2>1, <2>3, <3>2
        <3>. QED
            BY <2>1, <3>2, <3>3
    <2>. QED
        BY <2>1, <2>2, <2>3
<1>3. ASSUME NEW f \in Files, NEW rows, Report(f, rows) PROVE h \in routing.handled
    BY <1>3 DEF Report, Left
<1>4. CASE RoundTargets
    BY <1>1, <1>4 DEF RoundTargets, hub
<1>5. ASSUME NEW f \in Files, NEW now, NEW events, Poll(f, now, events) PROVE UNCHANGED routing
    BY <1>5 DEF Poll, hub
<1>6. ASSUME NEW f \in Files, CheckFails(f) \/ Quiet(f) \/ Assign(f) PROVE UNCHANGED routing
    BY <1>6 DEF CheckFails, Quiet, Assign, hub
<1>7. ASSUME NEW k \in Keys, WatchKey(k) \/ EndKey(k) PROVE UNCHANGED routing
    BY <1>7 DEF WatchKey, EndKey, hub
<1>8. CASE \/ WatchHub \/ EndHub \/ UnsubscribeHub \/ SessionExpires
           \/ TakeHub \/ SendOk \/ SendFails
    BY <1>1, <1>8 DEF WatchHub, EndHub, UnsubscribeHub, SessionExpires, TakeHub, SendOk, SendFails,
       hub
<1>9. CASE UNCHANGED vars
    BY <1>1, <1>9 DEF vars, hub
<1>. QED
    BY <1>1, <1>2, <1>3, <1>4, <1>5, <1>6, <1>7, <1>8, <1>9 DEF Next

\* The check of the hub has rows only from `assign`.
LEMMA RoutedStep ==
    ASSUME TypeOK, [Next]_vars, check'[Hub].at = "routed"
    PROVE  check'[Hub] = check[Hub] \/ Assign(Hub)
<1>. DEFINE Same == check'[Hub] = check[Hub]
<1>1. check \in [Files -> Checks] /\ Hub \in Files
    BY DEF TypeOK, Checks, Files
<1>2. ~ RoundTargets
    BY <1>1 DEF RoundTargets, NoCheck
<1>3. ASSUME NEW f \in Files, NEW next, check' = [check EXCEPT ![f] = next], next.at # "routed"
      PROVE  Same
    BY <1>1, <1>3
<1>4. ASSUME NEW f \in Files, NEW now, NEW events, Poll(f, now, events) PROVE Same
    BY <1>3, <1>4 DEF Poll, NoCheck
<1>5. ASSUME NEW f \in Files, NEW asked, NEW drop, NEW ends, Deliver(f, asked, drop, ends)
      PROVE  Same
    BY <1>3, <1>5 DEF Deliver, NoCheck
<1>6. ASSUME NEW f \in Files, CheckFails(f) \/ Quiet(f) PROVE Same
    BY <1>3, <1>6 DEF CheckFails, Quiet, NoCheck
<1>7. ASSUME NEW f \in Files, Assign(f) PROVE Same \/ Assign(Hub)
    <2>1. CASE f = Hub
        BY <1>7, <2>1
    <2>2. CASE f # Hub
        BY <1>1, <1>7, <2>2 DEF Assign
    <2>. QED
        BY <2>1, <2>2
<1>8. ASSUME NEW k \in Keys, WatchKey(k) \/ EndKey(k) PROVE Same
    BY <1>8 DEF WatchKey, EndKey
<1>9. ASSUME NEW f \in Files, NEW rows, Report(f, rows) PROVE Same
    BY <1>9 DEF Report
<1>10. CASE \/ WatchHub \/ EndHub \/ UnsubscribeHub \/ SessionExpires
            \/ TakeHub \/ SendOk \/ SendFails
    BY <1>10 DEF WatchHub, EndHub, UnsubscribeHub, SessionExpires, TakeHub, SendOk, SendFails
<1>11. CASE UNCHANGED vars
    BY <1>11 DEF vars
<1>. QED
    BY <1>2, <1>4, <1>5, <1>6, <1>7, <1>8, <1>9, <1>10, <1>11 DEF Next

\* The rows that `assign` gives to the events of the hub.
LEMMA AssignNames ==
    ASSUME TypeOK, Rows(files), Assign(Hub)
    PROVE  \A i \in check'[Hub].events : Names(files'[Hub], check'[Hub].row[i], i)
<1>1. Hub \in Files /\ Owner(Hub) = Hub
    BY DEF Owner, Files
<1>2. PICK left \in [Files -> File], numbered \in File :
         /\ Pending(numbered) = Pending(left[Owner(Hub)]) \union check[Hub].events
         /\ files' = [left EXCEPT ![Owner(Hub)] = numbered]
         /\ check' = [check EXCEPT ![Hub] =
                [at |-> "routed", events |-> check[Hub].events,
                 row |-> [i \in Items |-> IF i \in check[Hub].events
                                          THEN numbered.row[i] ELSE 0],
                 routes |-> Recipient(Hub) = Hub]]
    BY <1>1, AssignFiles
<1>3. files'[Hub] = numbered
    BY <1>1, <1>2
<1>4. OneRow(numbered)
    BY <1>1, <1>3, AssignRows DEF RowsStep, Rows
<1>5. check \in [Files -> Checks] /\ check[Hub].events \subseteq Items
    BY <1>1 DEF TypeOK, Checks
<1>6. /\ check'[Hub].events = check[Hub].events
      /\ \A i \in check[Hub].events : check'[Hub].row[i] = numbered.row[i]
    BY <1>1, <1>2, <1>5
<1>. QED
    BY <1>2, <1>3, <1>4, <1>6, NamesPending

LEMMA SavedStep == SavedInv /\ [Next]_vars => SavedInv'
<1>. SUFFICES ASSUME SavedInv, [Next]_vars PROVE SavedInv'
    OBVIOUS
<1>1. TypeOK /\ TypeOK' /\ Rows(files) /\ Rows(files)' /\ Grown(files[Hub], files'[Hub])
    BY NextTypes, NextRows DEF SavedInv, RowsStep, Rows
<1>2. files[Hub] \in File /\ files'[Hub] \in File
    BY <1>1 DEF TypeOK, File, Files
<1>3. /\ routing.handled \subseteq RowLines
      /\ check[Hub].events \subseteq Items /\ check[Hub].row \in [Items -> Nat]
    BY <1>1 DEF TypeOK, Files
<1>4. HandledAreNamed'
    <2>. SUFFICES ASSUME NEW h \in routing'.handled PROVE Names(files'[Hub], h.row, h.item)
        BY DEF HandledAreNamed
    <2>1. h.row \in Nat /\ Names(files[Hub], h.row, h.item)
        <3>1. CASE h \in routing.handled
            BY <1>3, <3>1 DEF SavedInv, HandledAreNamed, RowLines
        <3>2. CASE /\ check[Hub].at = "routed"
                   /\ h.item \in check[Hub].events /\ h.row = check[Hub].row[h.item]
            BY <1>3, <3>2 DEF SavedInv, RoutedAreNamed
        <3>. QED
            BY <1>1, <3>1, <3>2, HandledStep
    <2>. QED
        BY <1>1, <1>2, <2>1, NamesGrown
<1>5. RoutedAreNamed'
    <2>. SUFFICES ASSUME check'[Hub].at = "routed", NEW i \in check'[Hub].events
                  PROVE  Names(files'[Hub], check'[Hub].row[i], i)
        BY DEF RoutedAreNamed
    <2>1. CASE check'[Hub] = check[Hub]
        <3>1. check[Hub].row[i] \in Nat /\ Names(files[Hub], check[Hub].row[i], i)
            BY <1>3, <2>1 DEF SavedInv, RoutedAreNamed
        <3>. QED
            BY <1>1, <1>2, <2>1, <3>1, NamesGrown
    <2>2. CASE Assign(Hub)
        BY <1>1, <2>2, AssignNames
    <2>. QED
        BY <1>1, <2>1, <2>2, RoutedStep
<1>. QED
    BY <1>1, <1>4, <1>5 DEF SavedInv

\* A row that the router of the hub saved for the next report never becomes the
\* row of another item: no late report ends an item that nobody decided about.
THEOREM SavedRowsAreRight == Spec => []SavedRowsNameTheirItem
<1>1. Init => SavedInv
    <2>. SUFFICES ASSUME Init PROVE SavedInv
        OBVIOUS
    <2>1. TypeOK /\ Rows(files)
        BY InitTypes, OneRowNoFile DEF Init, Rows
    <2>2. HandledAreNamed
        BY DEF Init, HandledAreNamed, NoRouting
    <2>3. RoutedAreNamed
        BY DEF Init, RoutedAreNamed, NoCheck, Files
    <2>. QED
        BY <2>1, <2>2, <2>3 DEF SavedInv
<1>2. SavedInv => SavedRowsNameTheirItem
    BY DEF SavedInv, HandledAreNamed, SavedRowsNameTheirItem, Names
<1>. QED
    BY <1>1, <1>2, SavedStep, PTL DEF Spec

-----------------------------------------------------------------------------
(* A pending item keeps its row *)

\* A file after a step: an item that is in both has one row.
Keeps(old, new) == \A i \in Items : old.row[i] # 0 /\ new.row[i] # 0 => new.row[i] = old.row[i]

\* A file that lost no item.
Extends(old, new) == \A i \in Items : old.row[i] # 0 => new.row[i] = old.row[i]

LEMMA WithoutKeeps ==
    ASSUME NEW file \in File, NEW items
    PROVE  \A i \in Items :
               Without(file, items).row[i] = IF i \in items THEN 0 ELSE file.row[i]
BY DEF Without, File

LEMMA WithExtends ==
    ASSUME NEW to \in File, NEW from \in File, NEW items
    PROVE  /\ Extends(to, With(to, from, items))
           /\ \A i \in Items : from.row[i] = 0 => With(to, from, items).row[i] = to.row[i]
<1>. DEFINE new == Coming(from, items) \ Pending(to)
            before(i) == {j \in new : from.row[j] < from.row[i]}
            row == [i \in Items |-> IF i \in new THEN to.next + Cardinality(before(i))
                                                 ELSE to.row[i]]
<1>1. With(to, from, items).row = row
    BY DEF With, Renumbered
<1>2. \A i \in Items : to.row[i] # 0 \/ from.row[i] = 0 => i \notin new
    BY DEF Coming, Pending
<1>. HIDE DEF new, before
<1>3. \A i \in Items : i \notin new => row[i] = to.row[i]
    OBVIOUS
<1>. QED
    BY <1>1, <1>2, <1>3 DEF Extends

LEMMA NewRowsKeeps ==
    ASSUME NEW old \in File, NEW new \in File, NewRows(old, new)
    PROVE  Keeps(old, new)
<1>1. ASSUME NEW i \in Items, old.row[i] # 0, new.row[i] # 0 PROVE new.row[i] = old.row[i]
    <2>1. i \in Pending(new) /\ i \in Pending(old)
        BY <1>1 DEF Pending
    <2>. QED
        BY <2>1 DEF NewRows
<1>. QED
    BY <1>1 DEF Keeps

\* The file of a key that ends starts again, and the hub gets its items.
LEMMA ToHubExtends ==
    ASSUME NEW fs \in [Files -> File], NEW k \in Keys
    PROVE  /\ Hub \in Files /\ k \in Files /\ k # Hub
           /\ Extends(fs[Hub], ToHub(fs, k)[Hub])
           /\ \A i \in Items : ToHub(fs, k)[k].row[i] = 0
           /\ \A i \in Items : fs[k].row[i] = 0 => ToHub(fs, k)[Hub].row[i] = fs[Hub].row[i]
           /\ \A f \in Files \ {Hub, k} : ToHub(fs, k)[f] = fs[f]
<1>1. Hub \in Files /\ k \in Files /\ k # Hub
    BY HubRoutingAssumption DEF Files
<1>2. ToHub(fs, k)[Hub] = With(fs[Hub], fs[k], Items) /\ ToHub(fs, k)[k] = NoFile
    BY <1>1 DEF ToHub
<1>3. fs[Hub] \in File /\ fs[k] \in File
    BY <1>1
<1>. QED
    BY <1>1, <1>2, <1>3, WithExtends, ToHubFiles DEF NoFile, NoRows

LEMMA AssignKeeps ==
    ASSUME TypeOK, NEW f \in Files, Assign(f), NEW g \in Files
    PROVE  Keeps(files[g], files'[g])
<1>1. PICK left \in [Files -> File], numbered \in File :
         /\ NewRows(left[Owner(f)], numbered)
         /\ left = IF f \in Keys \ record THEN ToHub(files, f) ELSE files
         /\ files' = [left EXCEPT ![Owner(f)] = numbered]
    BY AssignFiles
<1>2. files \in [Files -> File] /\ files[g] \in File /\ left[g] \in File
    BY <1>1 DEF TypeOK, File
<1>3. Extends(files[g], left[g]) \/ \A i \in Items : left[g].row[i] = 0
    <2>1. CASE f \in Keys \ record
        <3>1. f \in Keys /\ left = ToHub(files, f)
            BY <1>1, <2>1
        <3>2. CASE g = Hub
            BY <1>2, <3>1, <3>2, ToHubExtends
        <3>3. CASE g = f
            BY <1>2, <3>1, <3>3, ToHubExtends
        <3>4. CASE g \in Files \ {Hub, f}
            <4>1. left[g] = files[g]
                BY <1>2, <3>1, <3>4, ToHubExtends
            <4>. QED
                BY <4>1 DEF Extends
        <3>. QED
            BY <3>2, <3>3, <3>4
    <2>2. CASE f \notin Keys \ record
        BY <1>1, <2>2 DEF Extends
    <2>. QED
        BY <2>1, <2>2
<1>4. CASE g # Owner(f)
    BY <1>1, <1>3, <1>4 DEF Keeps, Extends
<1>5. CASE g = Owner(f)
    <2>1. files'[g] = numbered /\ Keeps(left[g], numbered)
        BY <1>1, <1>2, <1>5, NewRowsKeeps
    <2>2. Extends(files[g], left[g])
        <3>1. CASE f \in Keys \ record
            <4>1. g = Hub
                BY <1>5, <3>1 DEF Owner
            <4>. QED
                BY <1>1, <1>2, <3>1, <4>1, ToHubExtends
        <3>2. CASE f \notin Keys \ record
            BY <1>1, <3>2 DEF Extends
        <3>. QED
            BY <3>1, <3>2
    <2>. QED
        BY <2>1, <2>2 DEF Keeps, Extends
<1>. QED
    BY <1>4, <1>5

\* The end of a check with the end of its watch prunes an item from the hub and
\* from the worktree alike, so the move to the hub gives no new row to an item
\* that the prune took.
LEMMA DeliverKeeps ==
    ASSUME TypeOK, NEW f \in Files, NEW asked, NEW drop, NEW ends \in BOOLEAN,
           Deliver(f, asked, drop, ends), NEW g \in Files
    PROVE  Keeps(files[g], files'[g])
<1>1. PICK dropped \in SUBSET Items :
         /\ ends => f \in record \ {Hub} /\ dropped = {}
         /\ files' = IF ends THEN ToHub(Pruned(f, [files EXCEPT ![Hub] = Without(files[Hub], dropped)]), f)
                     ELSE Pruned(f, [files EXCEPT ![Hub] = Without(files[Hub], dropped)])
    <2>. DEFINE c == check[f]
                handled == IF c.routes THEN c.events \ asked ELSE {}
                rowsOf(items) == {[item |-> i, row |-> c.row[i]] : i \in items}
                toHub == Recipient(f) = Hub /\ c.events # {}
                boarded == toHub /\ handled = c.events
                dropped == IF boarded THEN {i \in Pending(files[Hub]) :
                                                files[Hub].row[i] \in RowsOf(rowsOf(drop))}
                                      ELSE {}
    <2>1. /\ ends => f \in record \ {Hub}
          /\ files' = IF ends THEN ToHub(Pruned(f, [files EXCEPT ![Hub] = Without(files[Hub], dropped)]), f)
                      ELSE Pruned(f, [files EXCEPT ![Hub] = Without(files[Hub], dropped)])
        BY DEF Deliver
    <2>2. dropped \in SUBSET Items
        BY DEF Pending
    <2>3. f \in record \ {Hub} => dropped = {}
        <3>1. f \in record \ {Hub} => Recipient(f) # Hub
            BY DEF Recipient
        <3>. QED
            BY <3>1
    <2>. HIDE DEF dropped
    <2>. QED
        BY <2>1, <2>2, <2>3
<1>2. files \in [Files -> File] /\ Hub \in Files
    BY DEF TypeOK, File, Files
<1>3. PICK fs \in [Files -> File] : fs = [files EXCEPT ![Hub] = Without(files[Hub], dropped)]
    BY <1>2, WithoutFile
<1>4. PICK pruned \in [Files -> File] : pruned = Pruned(f, fs)
    BY <1>3, PrunedFiles
<1>5. ASSUME NEW h \in Files, NEW i \in Items
      PROVE  pruned[h].row[i] = 0 \/ pruned[h].row[i] = files[h].row[i]
    <2>1. fs[h].row[i] = 0 \/ fs[h].row[i] = files[h].row[i]
        BY <1>2, <1>3, <1>5, WithoutKeeps
    <2>2. pruned[h] = Without(fs[h], Gone(f, fs, h))
        BY <1>4, <1>5 DEF Pruned
    <2>3. pruned[h].row[i] = IF i \in Gone(f, fs, h) THEN 0 ELSE fs[h].row[i]
        BY <1>3, <1>5, <2>2, WithoutKeeps
    <2>. QED
        BY <2>1, <2>3
<1>6. CASE ~ends
    BY <1>1, <1>3, <1>4, <1>5, <1>6 DEF Keeps
<1>7. CASE ends
    <2>1. f \in Keys /\ f # Hub /\ files' = ToHub(pruned, f) /\ fs = files
        <3>1. f \in Keys /\ f # Hub /\ files' = ToHub(pruned, f)
            BY <1>1, <1>3, <1>4, <1>7 DEF Files, TypeOK
        <3>2. Without(files[Hub], {}) = files[Hub]
            <4>1. PICK file \in File : file = files[Hub]
                BY <1>2
            <4>2. file.row = [i \in Items |-> file.row[i]]
                BY DEF File
            <4>3. Without(file, {}) = [file EXCEPT !.row = file.row]
                BY <4>2 DEF Without
            <4>4. [file EXCEPT !.row = file.row] = file
                BY DEF File
            <4>. QED
                BY <4>1, <4>3, <4>4
        <3>. QED
            BY <1>1, <1>2, <1>3, <1>7, <3>1, <3>2
    <2>2. CASE g # Hub
        BY <1>5, <2>1, <2>2, ToHubExtends DEF Keeps
    <2>3. CASE g = Hub
        <3>1. ASSUME NEW i \in Items, files[Hub].row[i] # 0, files'[Hub].row[i] # 0
              PROVE  files'[Hub].row[i] = files[Hub].row[i]
            <4>1. CASE pruned[Hub].row[i] # 0
                <5>1. files'[Hub].row[i] = pruned[Hub].row[i]
                    BY <2>1, <4>1, ToHubExtends DEF Extends
                <5>. QED
                    BY <1>2, <1>5, <4>1, <5>1
            <4>2. CASE pruned[Hub].row[i] = 0
                <5>1. i \in Gone(f, fs, Hub)
                    <6>1. pruned[Hub] = Without(fs[Hub], Gone(f, fs, Hub))
                        BY <1>2, <1>4 DEF Pruned
                    <6>. QED
                        BY <1>2, <2>1, <3>1, <4>2, <6>1, WithoutKeeps
                <5>2. Source[i] = f /\ i \notin present[f]
                    BY <2>1, <5>1 DEF Gone
                <5>3. pruned[f].row[i] = 0
                    <6>1. pruned[f] = Without(fs[f], Gone(f, fs, f))
                        BY <1>4 DEF Pruned
                    <6>2. fs[f].row[i] # 0 => i \in Gone(f, fs, f)
                        BY <2>1, <5>2 DEF Gone, Pending
                    <6>. QED
                        BY <1>3, <6>1, <6>2, WithoutKeeps
                <5>. QED
                    BY <2>1, <3>1, <4>2, <5>3, ToHubExtends
            <4>. QED
                BY <4>1, <4>2
        <3>. QED
            BY <2>3, <3>1 DEF Keeps
    <2>. QED
        BY <2>2, <2>3
<1>. QED
    BY <1>6, <1>7

LEMMA RoundKeeps ==
    ASSUME TypeOK, RoundTargets, NEW g \in Files
    PROVE  Keeps(files[g], files'[g])
<1>. DEFINE moved(k) == {i \in Items : k \in record /\ ReviewOf[i] = k}
            all == UNION {moved(k) : k \in Keys}
<1>1. files \in [Files -> File] /\ Hub \in Files /\ files[g] \in File /\ files[Hub] \in File
    BY DEF TypeOK, File, Files
<1>. HIDE DEF moved, all
<1>2. files' = [f \in Files |-> IF f = Hub THEN Without(files[Hub], all)
                                ELSE With(files[f], files[Hub], moved(f))]
    BY DEF RoundTargets, moved, all
<1>3. CASE g = Hub
    BY <1>1, <1>2, <1>3, WithoutKeeps DEF Keeps
<1>4. CASE g # Hub
    BY <1>1, <1>2, <1>4, WithExtends DEF Keeps, Extends
<1>. QED
    BY <1>3, <1>4

LEMMA ReportKeeps ==
    ASSUME TypeOK, NEW f \in Files, NEW rows, Report(f, rows), NEW g \in Files
    PROVE  Keeps(files[g], files'[g])
<1>1. PICK dropped \in SUBSET Pending(files[f]) :
         files' = [files EXCEPT ![f] = Without(files[f], dropped)]
    BY ReportFiles
<1>2. files \in [Files -> File]
    BY DEF TypeOK, File
<1>. QED
    BY <1>1, <1>2, WithoutKeeps DEF Keeps

LEMMA QuietKeeps ==
    ASSUME TypeOK, NEW f \in Files, Quiet(f), NEW g \in Files
    PROVE  Keeps(files[g], files'[g])
<1>1. files \in [Files -> File]
    BY DEF TypeOK, File
<1>2. files'[g] = Without(files[g], Gone(f, files, g))
    BY DEF Quiet, Pruned
<1>. QED
    BY <1>1, <1>2, WithoutKeeps DEF Keeps

LEMMA EndKeyKeeps ==
    ASSUME TypeOK, NEW k \in Keys, EndKey(k), NEW g \in Files
    PROVE  Keeps(files[g], files'[g])
<1>1. files \in [Files -> File] /\ files' = ToHub(files, k)
    BY DEF TypeOK, File, EndKey
<1>. QED
    BY <1>1, ToHubExtends DEF Keeps, Extends

\* A pending item keeps its row for as long as it is pending in its file, also
\* with new events and with moves of others.
THEOREM RowsAreKept == Spec => KeepsRow
<1>1. ASSUME TypeOK, [Next]_vars, NEW g \in Files PROVE Keeps(files[g], files'[g])
    <2>1. CASE files' = files
        BY <2>1 DEF Keeps
    <2>2. CASE RoundTargets
        BY <1>1, <2>2, RoundKeeps
    <2>3. ASSUME NEW f \in Files, NEW now, NEW events, Poll(f, now, events)
          PROVE  files' = files
        BY <2>3 DEF Poll
    <2>4. ASSUME NEW f \in Files, CheckFails(f) PROVE files' = files
        BY <2>4 DEF CheckFails
    <2>5. ASSUME NEW k \in Keys, WatchKey(k) PROVE files' = files
        BY <2>5 DEF WatchKey
    <2>6. CASE \/ WatchHub \/ EndHub \/ UnsubscribeHub \/ SessionExpires
               \/ TakeHub \/ SendOk \/ SendFails
        BY <2>1, <2>6 DEF WatchHub, EndHub, UnsubscribeHub, SessionExpires, TakeHub, SendOk, SendFails
    <2>7. CASE UNCHANGED vars
        BY <2>1, <2>7 DEF vars
    <2>. QED
        BY <1>1, <2>1, <2>2, <2>3, <2>4, <2>5, <2>6, <2>7, AssignKeeps, DeliverKeeps, ReportKeeps,
           QuietKeeps, EndKeyKeeps DEF Next
<1>2. TypeOK /\ [Next]_vars
          => [\A f \in Files, i \in Items :
                 LET old == files[f].row[i]
                     new == files'[f].row[i]
                 IN  old # 0 /\ new # 0 => new = old]_vars
    BY <1>1 DEF Keeps
<1>. QED
    BY <1>2, TypeCorrect, PTL DEF Spec, KeepsRow
=============================================================================
