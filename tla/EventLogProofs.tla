--------------------------- MODULE EventLogProofs ---------------------------
(* Theorems about EventLog: the ids of the log, what a reader is notified of, *)
(* and that the log implements EventFeed, for any number of readers, lines,   *)
(* files and faults.                                                          *)
EXTENDS EventLog, FiniteSetTheorems, WellFoundedInduction, TLAPS

USE EventLogAssumption

-----------------------------------------------------------------------------
(* The inductive invariant *)

\* The lines of a file, and whether it reads as text.
LinesIn(file) == Range(file.lines)

\* A line that reads has a number and an id, and each other line has the id 0.
LinesOK ==
    \A f \in 1 .. Current : \A x \in LinesIn(files[f]) :
        x = Unreadable \/ (x.id > 0 /\ x.no \in 1 .. made)

\* The ids increase within a file, and a cached last id is at least those of
\* the last one.
FileOrder ==
    \A f \in 1 .. Current : ~files[f].split =>
        /\ \A i, j \in 1 .. Len(files[f].lines) :
               /\ i < j /\ files[f].lines[i].id # 0 /\ files[f].lines[j].id # 0
               => files[f].lines[i].id < files[f].lines[j].id
        /\ f = Current /\ lastId # Unknown => \A x \in LinesIn(files[f]) : x.id <= lastId

\* A line with a larger id, in the same file or in a later one, is newer.
PairOrder ==
    \A f, g \in 1 .. Current : f <= g /\ ~files[f].split /\ ~files[g].split =>
        \A a \in LinesIn(files[f]), b \in LinesIn(files[g]) : a.id < b.id => a.no < b.no

LogInv == LinesOK /\ FileOrder /\ PairOrder

\* The files that a reader can still read, and the lines that it gets without.
Readable(r) == (IF conn[r].st = "opened" THEN conn[r].opened ELSE Current) .. Current
OnWay(r) == {p \in Range(pipe[r]) \union Range(conn[r].out) : p.type = "line"}

InOrder(s) ==
    \A i, j \in 1 .. Len(s) : i < j /\ s[i].type = "line" /\ s[j].type = "line" =>
        s[i].id < s[j].id /\ s[i].no < s[j].no

ItemsOK(r) ==
    /\ conn[r].st # "sending" => conn[r].out = <<>>
    /\ \A q \in Range(conn[r].out) : q.type = "line"
    /\ \A p \in OnWay(r) : p.id > 0 /\ p.no \in 1 .. made
    /\ InOrder(pipe[r]) /\ InOrder(conn[r].out)
    /\ \A p \in Range(pipe[r]), q \in Range(conn[r].out) :
           p.type = "line" => p.id < q.id /\ p.no < q.no

\* What a connection sent is up to its last id, as are the lines before its
\* cursor and what the reader has.
LastOK(r) ==
    LET c == conn[r]
    IN  c.st # "closed" =>
        /\ \A p \in OnWay(r) : p.id <= c.last
        /\ reader[r] # Unknown => reader[r] <= c.last
        /\ c.file # 0 => \A i \in 1 .. c.offset : files[c.file].lines[i].id <= c.last

\* A reader with no id starts at that of a sidebar line.
StartOK(r) ==
    reader[r] = Unknown =>
        /\ handled[r] = {}
        /\ \A s \in Range(pipe[r]) : s.type = "sidebar" =>
            /\ \A p \in OnWay(r) : s.id < p.id
            /\ conn[r].st # "closed" => s.id <= conn[r].last

HandledOK(r) ==
    /\ reader[r] # Unknown => \A p \in OnWay(r) : reader[r] < p.id
    /\ \A h \in handled[r] : h \in 1 .. made /\ \A p \in OnWay(r) : h < p.no

AheadOK(r) ==
    \A g \in Readable(r) : ~files[g].split =>
        \A x \in LinesIn(files[g]) :
            /\ \A p \in OnWay(r) : p.id < x.id => p.no < x.no
            /\ \A h \in handled[r] : reader[r] < x.id => h < x.no

Increasing(s) == \A i, j \in 1 .. Len(s) : i < j => s[i] < s[j]
NotifyOK(r) ==
    /\ Increasing(notified[r]) /\ Increasing(todo[r])
    /\ \A n \in Range(notified[r]), t \in Range(todo[r]) : n < t
    /\ Range(notified[r]) \union Range(todo[r]) \subseteq handled[r]

FlowOK(r) == ItemsOK(r) /\ LastOK(r) /\ StartOK(r) /\ HandledOK(r) /\ AheadOK(r) /\ NotifyOK(r)
FlowInv == \A r \in Readers : FlowOK(r)

\* With no reset, no step back and no cut write.
IdsOK ==
    /\ \A f \in 1 .. Current : ~files[f].split
    /\ \A x \in Logged : x.time <= clock /\ x.id + 1 <= x.time + x.no
    /\ \A x, y \in Logged : (x.no < y.no => x.id < y.id) /\ (x.no = y.no => x = y)
    /\ lastId # Unknown => lastId + 1 <= clock + made
    /\ \A x \in Logged : x \notin LinesIn(File0) => x.time + Keep < clock

\* A file has each line of a later one that is not newer.
KeptOK ==
    \A f, g \in 1 .. Current : f <= g =>
        \A x \in LinesIn(files[g]), y \in LinesIn(files[f]) :
            x.no <= y.no /\ x.no # 0 => x \in LinesIn(files[f])

Taken(r) == handled[r] \union {p.no : p \in OnWay(r)}
IsTop(x, r, some) == x.no \in some /\ \A n \in some : n <= x.no
TopOK(r) ==
    /\ \A p \in OnWay(r) : \E x \in Logged : x.no = p.no /\ x.id = p.id
    /\ handled[r] # {} => \E x \in Logged : IsTop(x, r, handled[r]) /\ x.id = reader[r]
    /\ conn[r].st # "closed" /\ Taken(r) # {} =>
           \E x \in Logged : IsTop(x, r, Taken(r)) /\ x.id = conn[r].last

NoGap(r) ==
    \A n \in InFile, a, b \in Taken(r) :
        a < n /\ n < b /\ (\A h \in handled[r] : h < n) => n \in {p.no : p \in OnWay(r)}

FeedInv == Undisturbed => IdsOK /\ KeptOK /\ \A r \in Readers : TopOK(r) /\ NoGap(r)

\* What each step keeps of the log: lines stay where they are, a new line is
\* newer than all others, and a new file has lines of the last one only.
Grown ==
    /\ files' \in Seq(File) /\ Len(files') >= Len(files) /\ made' \in Nat /\ made' >= made
    /\ \A g \in 1 .. Len(files) :
        /\ files[g].split => files'[g].split
        /\ Len(files[g].lines) <= Len(files'[g].lines)
        /\ \A i \in 1 .. Len(files[g].lines) : files'[g].lines[i] = files[g].lines[i]
    /\ \A g \in 1 .. Len(files') : \A x \in LinesIn(files'[g]) :
        \/ x = Unreadable \/ x.no > made
        \/ g <= Len(files) /\ x \in LinesIn(files[g])
        \/ g > Len(files) /\ ~files[Len(files)].split /\ x \in LinesIn(files[Len(files)])

-----------------------------------------------------------------------------
(* The greatest number, and the elements at some positions *)

\* A finite set with no greatest element has no least subset like it.
LEMMA MaxIs ==
  ASSUME NEW S \in SUBSET Nat, IsFiniteSet(S), S # {}
  PROVE  Max(S) \in S /\ \A x \in S : x <= Max(S)
  <1> DEFINE HasMax(T) == \E k \in T : \A x \in T : x <= k
             F == FiniteSubsetsOf(Nat)
             R == StrictSubsetOrdering(Nat)
             U == {T \in F : T # {} /\ ~HasMax(T)}
  <1>1. IsWellFoundedOn(R, F)
    BY FS_StrictSubsetOrderingWellFounded
  <1>2. HasMax(S)
    <2>1. SUFFICES ASSUME ~HasMax(S) PROVE FALSE
      OBVIOUS
    <2>2. S \in U
      BY <2>1 DEF FiniteSubsetsOf
    <2>3. PICK T \in U : \A V \in U : <<V, T>> \notin R
      <3>1. U \subseteq F /\ U # {}
        BY <2>2
      <3> HIDE DEF U, R, F
      <3> QED
        BY <1>1, <3>1, WFMin
    <2>4. T \in SUBSET Nat /\ IsFiniteSet(T) /\ T # {} /\ ~HasMax(T)
      BY <2>3 DEF FiniteSubsetsOf
    <2>5. PICK x \in T : TRUE
      BY <2>4
    <2>6. (T \ {x}) \in F
      BY <2>4, FS_RemoveElement DEF FiniteSubsetsOf
    <2>7. <<T \ {x}, T>> \in R
      BY <2>4, <2>5 DEF StrictSubsetOrdering
    <2>8. T \ {x} = {} \/ HasMax(T \ {x})
      <3>1. T \ {x} \notin U
        BY <2>3, <2>7
      <3> QED
        BY <2>6, <3>1
    <2>9. CASE T \ {x} = {}
      <3>1. \A y \in T : y <= x
        BY <2>4, <2>5, <2>9
      <3> QED
        BY <2>4, <2>5, <3>1
    <2>10. CASE HasMax(T \ {x})
      <3>1. PICK k \in T \ {x} : \A y \in T \ {x} : y <= k
        BY <2>10
      <3>2. k \in Nat /\ x \in Nat /\ \A y \in T : y \in Nat
        BY <2>4, <2>5, <3>1
      <3>3. (\A y \in T : y <= k) \/ (\A y \in T : y <= x)
        BY <3>1, <3>2
      <3> QED
        BY <2>4, <2>5, <3>1, <3>3
    <2> QED
      BY <2>8, <2>9, <2>10
  <1>3. PICK k \in S : \A x \in S : x <= k
    BY <1>2
  <1>4. \A x \in S : k >= x
    BY <1>3
  <1> QED
    BY <1>3, <1>4 DEF Max


LEMMA MaxUpTo ==
  ASSUME NEW k \in Nat, NEW S \in SUBSET (0 .. k), S # {}
  PROVE  Max(S) \in S /\ \A x \in S : x <= Max(S)
  <1>1. S \in SUBSET Nat /\ \A x \in S : x <= k
    OBVIOUS
  <1>2. IsFiniteSet(S)
    BY <1>1, FS_BoundedSetOfNaturals
  <1> QED
    BY <1>1, <1>2, MaxIs

\* The numbers of finitely many elements have a greatest one.
LEMMA MaxOfImage ==
  ASSUME NEW k \in Nat, NEW f \in [1 .. k -> Nat], NEW at \in SUBSET (1 .. k), NEW least \in Nat
  PROVE  LET S == {least} \union {f[i] : i \in at}
         IN  Max(S) \in S /\ \A x \in S : x <= Max(S)
  <1> DEFINE image == {f[i] : i \in at}
             g == [i \in at |-> f[i]]
             S == {least} \union image
  <1>1. g \in Surjection(at, image)
    BY DEF Surjection
  <1>2. IsFiniteSet(at)
    <2>1. IsFiniteSet(1 .. k)
      BY FS_Interval
    <2> QED
      BY <2>1, FS_Subset
  <1>3. IsFiniteSet(image)
    BY <1>1, <1>2, FS_Surjection
  <1>4. IsFiniteSet(S)
    BY <1>3, FS_Singleton, FS_Union
  <1>5. S \in SUBSET Nat /\ S # {}
    OBVIOUS
  <1> HIDE DEF S
  <1> QED
    BY <1>4, <1>5, MaxIs DEF S

LEMMA ElementsOf ==
  ASSUME NEW T, NEW seq \in Seq(T)
  PROVE  Len(seq) \in Nat /\ \A i \in 1 .. Len(seq) : seq[i] \in T
  OBVIOUS

\* Only takes the elements at the positions, each once, in their order.
Selects(s, seq, at) ==
    /\ \A i \in at : \E k \in 1 .. Len(s) : s[k] = seq[i]
    /\ \A k \in 1 .. Len(s) : \E i \in at : s[k] = seq[i]
    /\ \A j, k \in 1 .. Len(s) : j < k =>
           \E a, b \in at : a < b /\ s[j] = seq[a] /\ s[k] = seq[b]

LEMMA OnlyIs ==
  ASSUME NEW T, NEW seq \in Seq(T), NEW at \in SUBSET (1 .. Len(seq))
  PROVE  Only(seq, at) \in Seq(T) /\ Selects(Only(seq, at), seq, at)
  <1>0. Len(seq) \in Nat /\ \A i \in at : i \in Int /\ i \in 1 .. Len(seq) /\ seq[i] \in T
    BY ElementsOf
  <1>1. PICK n \in Nat : n = Cardinality(at) /\ IsFiniteSet(at)
    <2>1. IsFiniteSet(1 .. Len(seq))
      BY <1>0, FS_Interval
    <2>2. IsFiniteSet(at)
      BY <2>1, FS_Subset
    <2> QED
      BY <2>2, FS_CardinalityType
  <1> DEFINE upTo(i) == {j \in at : j <= i}
             rank == [i \in at |-> UpTo(at, i)]
             p == [k \in 1 .. n |-> CHOOSE i \in at : UpTo(at, i) = k]
  <1>2. \A i \in at : UpTo(at, i) \in 1 .. n
    <2>1. TAKE i \in at
    <2>2. upTo(i) \in SUBSET at /\ {i} \in SUBSET upTo(i)
      BY <2>1
    <2>3. IsFiniteSet(upTo(i)) /\ Cardinality(upTo(i)) <= n /\ Cardinality(upTo(i)) \in Nat
      BY <1>1, <2>2, FS_Subset, FS_CardinalityType
    <2>4. Cardinality({i}) <= Cardinality(upTo(i)) /\ Cardinality({i}) = 1
      BY <2>2, <2>3, FS_Subset, FS_Singleton
    <2> QED
      BY <1>1, <2>3, <2>4 DEF UpTo
  <1>3. \A i, j \in at : i < j => UpTo(at, i) < UpTo(at, j)
    <2>1. SUFFICES ASSUME NEW i \in at, NEW j \in at, i < j PROVE UpTo(at, i) < UpTo(at, j)
      OBVIOUS
    <2>2. i \in Int /\ j \in Int
      BY <2>1
    <2>3. upTo(i) \in SUBSET upTo(j) /\ upTo(i) # upTo(j) /\ upTo(j) \in SUBSET at
      <3>1. \A x \in at : x \in Int
        OBVIOUS
      <3>2. j \in upTo(j) /\ j \notin upTo(i)
        BY <2>1, <2>2
      <3>3. \A x \in upTo(i) : x \in upTo(j)
        BY <2>1, <2>2, <3>1
      <3> QED
        BY <3>2, <3>3
    <2>4. IsFiniteSet(upTo(j))
      BY <1>1, <2>3, FS_Subset
    <2>5. Cardinality(upTo(i)) <= Cardinality(upTo(j)) /\ Cardinality(upTo(i)) # Cardinality(upTo(j))
      BY <2>3, <2>4, FS_Subset
    <2>6. UpTo(at, i) = Cardinality(upTo(i)) /\ UpTo(at, j) = Cardinality(upTo(j))
      BY DEF UpTo
    <2> QED
      BY <1>2, <2>5, <2>6
  <1> HIDE DEF upTo
  <1>4. rank \in Injection(at, 1 .. n)
    <2>1. \A i, j \in at : i # j => rank[i] # rank[j]
      <3>1. SUFFICES ASSUME NEW i \in at, NEW j \in at, i # j PROVE rank[i] # rank[j]
        OBVIOUS
      <3>2. i < j \/ j < i
        BY <3>1
      <3>3. UpTo(at, i) \in Nat /\ UpTo(at, j) \in Nat
        BY <1>2
      <3> QED
        BY <1>3, <3>2, <3>3
    <2> QED
      BY <1>2, <2>1 DEF Injection, IsInjective
  <1>5. rank \in Surjection(at, 1 .. n)
    <2>1. IsFiniteSet(1 .. n) /\ Cardinality(1 .. n) = n
      BY <1>1, FS_Interval
    <2> HIDE DEF rank
    <2> QED
      BY <1>1, <1>4, <2>1, FS_Injection
  <1>6. \A k \in 1 .. n : p[k] \in at /\ UpTo(at, p[k]) = k
    <2>1. \A k \in 1 .. n : \E i \in at : UpTo(at, i) = k
      BY <1>5 DEF Surjection
    <2> QED
      BY <2>1
  <1> HIDE DEF rank
  <1>7. Only(seq, at) = [k \in 1 .. n |-> seq[p[k]]]
    BY <1>1 DEF Only
  <1>8. p \in [1 .. n -> at]
    BY <1>6
  <1>9. \A j, k \in 1 .. n : j < k => p[j] < p[k]
    <2>1. SUFFICES ASSUME NEW j \in 1 .. n, NEW k \in 1 .. n, j < k PROVE p[j] < p[k]
      OBVIOUS
    <2>2. p[j] \in Int /\ p[k] \in Int /\ p[j] \in at /\ p[k] \in at
      BY <1>0, <1>6, <2>1
    <2>3. UpTo(at, p[j]) = j /\ UpTo(at, p[k]) = k
      BY <1>6
    <2>4. ~(p[k] < p[j]) /\ p[k] # p[j]
      BY <1>3, <2>1, <2>2, <2>3
    <2> QED
      BY <2>2, <2>4
  <1>10. \A i \in at : \E k \in 1 .. n : p[k] = i
    <2>1. SUFFICES ASSUME NEW i \in at PROVE \E k \in 1 .. n : p[k] = i
      OBVIOUS
    <2>2. PICK k \in 1 .. n : k = UpTo(at, i)
      BY <1>2
    <2>3. p[k] \in at /\ UpTo(at, p[k]) = UpTo(at, i) /\ p[k] \in Int /\ i \in Int
      BY <1>0, <1>6, <2>1, <2>2
    <2>4. ~(p[k] < i) /\ ~(i < p[k])
      BY <1>2, <1>3, <2>3
    <2> QED
      BY <2>3, <2>4
  <1> HIDE DEF p
  <1>11. \A k \in 1 .. n : seq[p[k]] \in T
    BY <1>0, <1>8
  <1>12. Only(seq, at) \in Seq(T) /\ Len(Only(seq, at)) = n
    BY <1>7, <1>11
  <1>13. \A k \in 1 .. n : Only(seq, at)[k] = seq[p[k]]
    BY <1>7
  <1>14. \A i \in at : \E k \in 1 .. n : Only(seq, at)[k] = seq[i]
    BY <1>10, <1>13
  <1>15. \A k \in 1 .. n : \E i \in at : Only(seq, at)[k] = seq[i]
    BY <1>8, <1>13
  <1>16. \A j, k \in 1 .. n : j < k =>
             \E a, b \in at : a < b /\ Only(seq, at)[j] = seq[a] /\ Only(seq, at)[k] = seq[b]
    BY ZenonT(60), <1>8, <1>9, <1>13
  <1>17. PICK s \in Seq(T) : s = Only(seq, at) /\ Len(s) = n
    BY <1>12
  <1>18. Selects(s, seq, at)
    BY <1>14, <1>15, <1>16, <1>17 DEF Selects
  <1> QED
    BY <1>17, <1>18

LEMMA FunctionIsSeq ==
  ASSUME NEW T, NEW n \in Nat, NEW f \in [1 .. n -> T]
  PROVE  f \in Seq(T) /\ Len(f) = n
  OBVIOUS

LEMMA OneElement ==
  ASSUME NEW T, NEW x \in T
  PROVE  <<x>> \in Seq(T) /\ Len(<<x>>) = 1 /\ <<x>>[1] = x
  OBVIOUS

LEMMA ConcatIs ==
  ASSUME NEW T, NEW s \in Seq(T), NEW t \in Seq(T)
  PROVE  /\ s \o t \in Seq(T) /\ Len(s \o t) = Len(s) + Len(t)
         /\ Len(s) \in Nat /\ Len(t) \in Nat
         /\ \A i \in 1 .. Len(s) : (s \o t)[i] = s[i]
         /\ \A i \in 1 .. Len(t) : (s \o t)[Len(s) + i] = t[i]
  OBVIOUS

LEMMA TailIs ==
  ASSUME NEW T, NEW s \in Seq(T), Len(s) > 0
  PROVE  /\ Tail(s) \in Seq(T) /\ Len(Tail(s)) = Len(s) - 1 /\ Head(s) = s[1] /\ Head(s) \in T
         /\ \A i \in 1 .. Len(s) - 1 : Tail(s)[i] = s[i + 1]
  OBVIOUS

LEMMA RangeIs ==
  ASSUME NEW T, NEW seq \in Seq(T)
  PROVE  /\ Range(seq) = {seq[i] : i \in 1 .. Len(seq)} /\ Range(seq) \subseteq T
         /\ \A x \in Range(seq) : \E i \in 1 .. Len(seq) : x = seq[i]
  <1>1. DOMAIN seq = 1 .. Len(seq)
    OBVIOUS
  <1>2. Range(seq) = {seq[i] : i \in 1 .. Len(seq)}
    BY <1>1 DEF Range
  <1> QED
    BY <1>2, ElementsOf

-----------------------------------------------------------------------------
(* The operators of the log *)

LEMMA FilesAre ==
  ASSUME TypeOK
  PROVE  /\ Current \in Nat /\ Current >= 1 /\ made \in Nat /\ clock \in Nat /\ clock >= 1
         /\ \A f \in 1 .. Current : files[f] \in File /\ files[f].lines \in Seq(Line)
         /\ File0 \in File /\ File0 = files[Current]
  <1>1. Current \in Nat /\ Current >= 1 /\ \A f \in 1 .. Current : files[f] \in File
    BY ElementsOf DEF TypeOK, Current
  <1>2. \A f \in 1 .. Current : files[f].lines \in Seq(Line)
    BY <1>1 DEF File
  <1>3. made \in Nat /\ clock \in Nat /\ clock >= 1
    BY DEF TypeOK
  <1> QED
    BY <1>1, <1>2, <1>3 DEF File0

LEMMA LinesAre ==
  ASSUME TypeOK, NEW f \in 1 .. Current
  PROVE  /\ Len(files[f].lines) \in Nat
         /\ \A i \in 1 .. Len(files[f].lines) :
                files[f].lines[i] \in Line /\ files[f].lines[i] \in LinesIn(files[f])
         /\ \A x \in LinesIn(files[f]) :
                x \in Line /\ \E i \in 1 .. Len(files[f].lines) : x = files[f].lines[i]
  <1>1. files[f].lines \in Seq(Line)
    BY FilesAre
  <1> QED
    BY <1>1, RangeIs, ElementsOf DEF LinesIn

\* The next id is larger than the last one, the cached one or that of the file.
LEMMA LastIdIs ==
  ASSUME TypeOK
  PROVE  /\ LastId \in Nat
         /\ lastId # Unknown => LastId = lastId
         /\ lastId = Unknown /\ ~File0.split =>
                \A x \in LinesIn(File0) : x.id <= LastId
         /\ lastId = Unknown => LastId = 0 \/ \E x \in LinesIn(File0) : x.id = LastId
  <1>1. PICK lines \in Seq(Line) : lines = File0.lines /\ LinesIn(File0) = Range(lines)
    BY FilesAre DEF File, LinesIn
  <1>2. Len(lines) \in Nat /\ \A i \in 1 .. Len(lines) : lines[i] \in Line
    BY ElementsOf
  <1>3. Range(lines) = {lines[i] : i \in 1 .. Len(lines)}
    BY RangeIs
  <1> DEFINE f == [i \in 1 .. Len(lines) |-> lines[i].id]
             S == {0} \union {f[i] : i \in 1 .. Len(lines)}
  <1>4. f \in [1 .. Len(lines) -> Nat]
    BY <1>2 DEF Line
  <1>5. Max(S) \in S /\ \A x \in S : x <= Max(S)
    <2> HIDE DEF f
    <2> QED
      BY <1>2, <1>4, MaxOfImage
  <1>6. S \subseteq Nat
    BY <1>4
  <1>7. S = {0} \union IdsIn(lines)
    BY <1>3 DEF IdsIn
  <1>8. \A x \in Range(lines) : x.id \in S
    BY <1>7 DEF IdsIn
  <1>9. \A n \in S : n = 0 \/ \E x \in Range(lines) : x.id = n
    BY <1>7 DEF IdsIn
  <1> HIDE DEF S
  <1>10. LastId = IF lastId # Unknown THEN lastId ELSE IF File0.split THEN 0 ELSE Max(S)
    BY <1>1, <1>7 DEF LastId
  <1>11. lastId # Unknown => lastId \in Nat
    BY DEF TypeOK
  <1> QED
    BY <1>1, <1>5, <1>6, <1>8, <1>9, <1>10, <1>11

LEMMA NewLinesAre ==
  ASSUME TypeOK, NEW count \in 1 .. MaxBatch
  PROVE  /\ NewLines(count) \in Seq(Line) /\ Len(NewLines(count)) = count
         /\ \E next \in Nat :
                /\ next > LastId /\ next >= clock
                /\ next = LastId + 1 \/ next = clock
                /\ \A i \in 1 .. count :
                       NewLines(count)[i] = [no |-> made + i, id |-> next + i - 1, time |-> clock]
  <1>1. LastId \in Nat /\ clock \in Nat /\ made \in Nat /\ count \in Nat
    BY LastIdIs, FilesAre
  <1>2. PICK next \in Nat : next = NextId(LastId, clock)
    BY <1>1 DEF NextId, Larger
  <1>3. next > LastId /\ next >= clock /\ next >= 1 /\ (next = LastId + 1 \/ next = clock)
    BY <1>1, <1>2 DEF NextId, Larger
  <1>4. NewLines(count) = [i \in 1 .. count |-> [no |-> made + i, id |-> next + i - 1, time |-> clock]]
    BY <1>2 DEF NewLines
  <1>5. \A i \in 1 .. count : [no |-> made + i, id |-> next + i - 1, time |-> clock] \in Line
    <2>1. TAKE i \in 1 .. count
    <2>2. made + i \in Nat /\ next + i - 1 \in Nat
      BY <1>1, <1>3
    <2> QED
      BY <1>1, <2>2 DEF Line
  <1>6. NewLines(count) \in Seq(Line) /\ Len(NewLines(count)) = count
    <2>1. NewLines(count) \in [1 .. count -> Line]
      BY <1>4, <1>5
    <2> QED
      BY <1>1, <2>1, FunctionIsSeq
  <1> QED
    BY <1>3, <1>4, <1>6

\* `after` is `file` with `whole` of the lines `new`, one of which may not read.
IsAppended(after, file, new, whole, piece) ==
    /\ after \in File
    /\ after.split = (file.split \/ piece = "split")
    /\ Len(after.lines) = Len(file.lines) + whole
    /\ \A i \in 1 .. Len(file.lines) : after.lines[i] = file.lines[i]
    /\ \A i \in 1 .. whole : \/ after.lines[Len(file.lines) + i] = new[i]
                              \/ after.lines[Len(file.lines) + i] = Unreadable

LEMMA AppendedIs ==
  ASSUME NEW file \in File, NEW new \in Seq(Line), NEW whole \in 0 .. Len(new), NEW piece
  PROVE  IsAppended(Appended(file, new, whole, piece), file, new, whole, piece)
  <1> DEFINE old == file.lines
             written == SubSeq(new, 1, whole)
             more == IF file.torn /\ whole > 0 THEN <<Unreadable>> \o Tail(written) ELSE written
             after == Appended(file, new, whole, piece)
  <1>1. old \in Seq(Line) /\ Len(old) \in Nat /\ whole \in Nat /\ file.split \in BOOLEAN
    BY DEF File
  <1>2. written \in Seq(Line) /\ Len(written) = whole /\ \A i \in 1 .. whole : written[i] = new[i]
    BY <1>1
  <1>3. Unreadable \in Line
    BY DEF Unreadable, Line
  <1>4. /\ more \in Seq(Line) /\ Len(more) = whole
        /\ \A i \in 1 .. whole : more[i] = new[i] \/ more[i] = Unreadable
    <2>1. CASE file.torn /\ whole > 0
      <3>1. PICK rest \in Seq(Line) :
               rest = Tail(written) /\ Len(rest) = whole - 1
               /\ \A i \in 1 .. whole - 1 : rest[i] = written[i + 1]
        <4> HIDE DEF written
        <4>1. Len(written) > 0
          BY <1>1, <1>2, <2>1
        <4>2. /\ Tail(written) \in Seq(Line) /\ Len(Tail(written)) = Len(written) - 1
              /\ \A i \in 1 .. Len(written) - 1 : Tail(written)[i] = written[i + 1]
          BY <1>2, <4>1, TailIs
        <4> QED
          BY <1>2, <4>2
      <3>2. \A i \in 1 .. whole - 1 : rest[i] = new[i + 1]
        <4> HIDE DEF written
        <4> QED
          BY <1>1, <1>2, <3>1
      <3>3. more = <<Unreadable>> \o rest
        BY <2>1, <3>1
      <3>4. PICK one \in Seq(Line) : one = <<Unreadable>> /\ Len(one) = 1 /\ one[1] = Unreadable
        BY <1>3, OneElement
      <3>5. /\ one \o rest \in Seq(Line) /\ Len(one \o rest) = 1 + (whole - 1)
            /\ \A i \in 1 .. 1 : (one \o rest)[i] = one[i]
            /\ \A i \in 1 .. whole - 1 : (one \o rest)[1 + i] = rest[i]
        <4>1. /\ one \o rest \in Seq(Line) /\ Len(one \o rest) = Len(one) + Len(rest)
              /\ \A i \in 1 .. Len(one) : (one \o rest)[i] = one[i]
              /\ \A i \in 1 .. Len(rest) : (one \o rest)[Len(one) + i] = rest[i]
          BY ConcatIs
        <4> QED
          BY <3>1, <3>4, <4>1
      <3>6. (one \o rest)[1] = Unreadable
        BY <3>4, <3>5
      <3>8. \A i \in 2 .. whole : (one \o rest)[i] = new[i]
        <4>1. TAKE i \in 2 .. whole
        <4>2. i - 1 \in 1 .. whole - 1 /\ (i - 1) + 1 = i /\ 1 + (i - 1) = i
          BY <1>1, <4>1
        <4> QED
          BY <3>2, <3>5, <4>2
      <3>9. \A i \in 1 .. whole : i = 1 \/ i \in 2 .. whole
        BY <1>1
      <3>10. more = one \o rest
        BY <3>3, <3>4
      <3> HIDE DEF more
      <3>11. more \in Seq(Line) /\ Len(more) = whole
        BY <1>1, <3>5, <3>10
      <3> QED
        BY <3>6, <3>8, <3>9, <3>10, <3>11
    <2>2. CASE ~(file.torn /\ whole > 0)
      BY <1>2, <2>2
    <2> QED
      BY <2>1, <2>2
  <1>5. after = [lines |-> old \o more, torn |-> piece # "none" \/ (file.torn /\ whole = 0),
                 split |-> file.split \/ piece = "split"]
    BY DEF Appended
  <1> HIDE DEF more, written, old
  <1>6. /\ old \o more \in Seq(Line) /\ Len(old \o more) = Len(old) + whole
        /\ \A i \in 1 .. Len(old) : (old \o more)[i] = old[i]
        /\ \A i \in 1 .. whole : (old \o more)[Len(old) + i] = more[i]
    <2>1. /\ old \o more \in Seq(Line) /\ Len(old \o more) = Len(old) + Len(more)
          /\ \A i \in 1 .. Len(old) : (old \o more)[i] = old[i]
          /\ \A i \in 1 .. Len(more) : (old \o more)[Len(old) + i] = more[i]
      <3>1. old \in Seq(Line) /\ more \in Seq(Line)
        BY <1>1, <1>4
      <3> QED
        BY <3>1, ConcatIs
    <2> QED
      BY <1>4, <2>1
  <1>7. (piece # "none" \/ (file.torn /\ whole = 0)) \in BOOLEAN
    OBVIOUS
  <1>8. (file.split \/ piece = "split") \in BOOLEAN
    OBVIOUS
  <1>9. after \in File
    BY <1>5, <1>6, <1>7, <1>8 DEF File
  <1>10. after.lines = old \o more /\ after.split = (file.split \/ piece = "split")
    BY <1>5
  <1> HIDE DEF after
  <1>11. \A i \in 1 .. Len(old) : after.lines[i] = old[i]
    BY <1>6, <1>10
  <1>12. \A i \in 1 .. whole : after.lines[Len(old) + i] = new[i]
                               \/ after.lines[Len(old) + i] = Unreadable
    BY <1>4, <1>6, <1>10
  <1>13. IsAppended(after, file, new, whole, piece)
    <2>1. Len(after.lines) = Len(old) + whole
      BY <1>6, <1>10
    <2> QED
      BY <1>9, <1>10, <1>11, <1>12, <2>1 DEF old, IsAppended
  <1> QED
    BY <1>13 DEF after

\* A prune keeps the order of the lines that it keeps, and each young line.
LEMMA PrunedIs ==
  ASSUME NEW file \in File
  PROVE  LET after == Pruned(file)
         IN  /\ after \in File /\ ~after.split
             /\ \A x \in LinesIn(after) : x = Unreadable \/ x \in LinesIn(file)
             /\ \A x \in LinesIn(file) : Young(x) => x \in LinesIn(after)
             /\ \A i, j \in 1 .. Len(after.lines) :
                    /\ i < j /\ after.lines[i] # Unreadable /\ after.lines[j] # Unreadable
                    => \E k, m \in 1 .. Len(file.lines) :
                           k < m /\ after.lines[i] = file.lines[k] /\ after.lines[j] = file.lines[m]
  <1> DEFINE old == file.lines
             at == {i \in 1 .. Len(old) : Young(old[i])}
             kept == Only(old, at)
             last == IF file.torn THEN <<Unreadable>> ELSE <<>>
             after == Pruned(file)
  <1>1. old \in Seq(Line) /\ Len(old) \in Nat /\ at \in SUBSET (1 .. Len(old))
    BY DEF File
  <1>2. PICK n \in Nat :
           /\ kept \in Seq(Line) /\ Len(kept) = n
           /\ \A i \in at : \E k \in 1 .. n : kept[k] = old[i]
           /\ \A k \in 1 .. n : \E i \in at : kept[k] = old[i]
           /\ \A j, k \in 1 .. n : j < k =>
                  \E a, b \in at : a < b /\ kept[j] = old[a] /\ kept[k] = old[b]
    <2> HIDE DEF old, at
    <2>1. kept \in Seq(Line) /\ Selects(kept, old, at)
      BY <1>1, OnlyIs
    <2> HIDE DEF kept
    <2>2. PICK n \in Nat : n = Len(kept)
      BY <2>1, ElementsOf
    <2>3. /\ \A i \in at : \E k \in 1 .. n : kept[k] = old[i]
          /\ \A k \in 1 .. n : \E i \in at : kept[k] = old[i]
      BY <2>1, <2>2 DEF Selects
    <2>4. \A j, k \in 1 .. n : j < k =>
                 \E a, b \in at : a < b /\ kept[j] = old[a] /\ kept[k] = old[b]
      BY <2>1, <2>2 DEF Selects
    <2>. WITNESS n \in Nat
    <2> QED
      BY <2>1, <2>2, <2>3, <2>4
  <1>3. last \in Seq(Line) /\ \A i \in 1 .. Len(last) : last[i] = Unreadable
    <2>1. Unreadable \in Line
      BY DEF Unreadable, Line
    <2>2. <<>> \in Seq(Line) /\ Len(<<>>) = 0
      OBVIOUS
    <2>3. CASE file.torn
      BY <2>1, <2>3, OneElement
    <2>4. CASE ~file.torn
      BY <2>2, <2>4
    <2> QED
      BY <2>3, <2>4
  <1>4. after = [lines |-> kept \o last, torn |-> FALSE, split |-> FALSE]
    <2>1. after = [NoFile EXCEPT !.lines = kept \o last]
      BY DEF Pruned
    <2> HIDE DEF kept, last, after
    <2> QED
      BY <2>1 DEF NoFile
  <1> HIDE DEF old, at, kept, last, after
  <1>5. /\ kept \o last \in Seq(Line) /\ Len(kept \o last) = n + Len(last)
        /\ \A i \in 1 .. n : (kept \o last)[i] = kept[i]
        /\ \A i \in 1 .. Len(last) : (kept \o last)[n + i] = last[i]
    <2>1. /\ kept \o last \in Seq(Line) /\ Len(kept \o last) = Len(kept) + Len(last)
          /\ \A i \in 1 .. Len(kept) : (kept \o last)[i] = kept[i]
          /\ \A i \in 1 .. Len(last) : (kept \o last)[Len(kept) + i] = last[i]
      <3>1. kept \in Seq(Line) /\ last \in Seq(Line)
        BY <1>2, <1>3
      <3> QED
        BY <3>1, ConcatIs
    <2> QED
      BY <1>2, <2>1
  <1>6. after \in File /\ after.split = FALSE /\ after.lines = kept \o last
    BY <1>4, <1>5 DEF File
  <1>7. Len(last) \in Nat
    BY <1>3
  <1>8. \A i \in 1 .. Len(after.lines) : (i \in 1 .. n /\ after.lines[i] = kept[i])
                                         \/ after.lines[i] = Unreadable
    <2>1. TAKE i \in 1 .. Len(after.lines)
    <2>2. CASE i \in 1 .. n
      BY <1>2, <1>5, <1>6, <2>2
    <2>3. CASE i \notin 1 .. n
      <3>1. i - n \in 1 .. Len(last) /\ n + (i - n) = i
        BY <1>5, <1>6, <1>7, <2>1, <2>3
      <3> QED
        BY <1>3, <1>5, <1>6, <3>1
    <2> QED
      BY <2>2, <2>3
  <1>9. /\ LinesIn(after) = {after.lines[i] : i \in 1 .. Len(after.lines)}
        /\ LinesIn(file) = {old[i] : i \in 1 .. Len(old)}
    <2>1. after.lines \in Seq(Line)
      BY <1>5, <1>6
    <2>2. LinesIn(after) = Range(after.lines) /\ LinesIn(file) = Range(old)
      BY DEF LinesIn, old
    <2> QED
      BY <1>1, <2>1, <2>2, RangeIs
  <1>10. \A i \in at : i \in 1 .. Len(old)
    BY <1>1
  <1>11. \A x \in LinesIn(after) : x = Unreadable \/ x \in LinesIn(file)
    <2>1. SUFFICES ASSUME NEW i \in 1 .. Len(after.lines), after.lines[i] # Unreadable
                   PROVE  after.lines[i] \in LinesIn(file)
      BY <1>9
    <2>2. i \in 1 .. n /\ after.lines[i] = kept[i]
      BY <1>8, <2>1
    <2>3. PICK k \in at : kept[i] = old[k]
      BY <1>2, <2>2
    <2> QED
      BY <1>9, <1>10, <2>2, <2>3
  <1>12. \A x \in LinesIn(file) : Young(x) => x \in LinesIn(after)
    <2>1. SUFFICES ASSUME NEW x \in LinesIn(file), Young(x) PROVE x \in LinesIn(after)
      OBVIOUS
    <2>2. PICK i \in at : x = old[i]
      BY <1>9, <2>1 DEF at
    <2>3. PICK k \in 1 .. n : kept[k] = old[i]
      BY <1>2
    <2>4. k \in 1 .. Len(after.lines)
      BY <1>5, <1>6, <1>7
    <2>5. after.lines[k] = x
      BY ZenonT(60), <1>2, <1>5, <1>6, <2>2, <2>3
    <2> QED
      BY <1>9, <2>4, <2>5
  <1>13. \A i, j \in 1 .. Len(after.lines) :
             i < j /\ after.lines[i] # Unreadable /\ after.lines[j] # Unreadable
             => \E k, m \in 1 .. Len(old) :
                    k < m /\ after.lines[i] = old[k] /\ after.lines[j] = old[m]
    <2>1. SUFFICES ASSUME NEW i \in 1 .. Len(after.lines), NEW j \in 1 .. Len(after.lines), i < j,
                          after.lines[i] # Unreadable, after.lines[j] # Unreadable
                   PROVE  \E k, m \in 1 .. Len(old) :
                              k < m /\ after.lines[i] = old[k] /\ after.lines[j] = old[m]
      OBVIOUS
    <2>2. i \in 1 .. n /\ j \in 1 .. n /\ after.lines[i] = kept[i] /\ after.lines[j] = kept[j]
      BY <1>8, <2>1
    <2>3. PICK a \in at, b \in at : a < b /\ kept[i] = old[a] /\ kept[j] = old[b]
      BY <1>2, <2>1, <2>2
    <2> QED
      BY <1>10, <2>2, <2>3
  <1> QED
    BY <1>6, <1>11, <1>12, <1>13 DEF old, after

-----------------------------------------------------------------------------
(* The steps of the log *)

\* A write changes the last file only, and its lines come after all others.
LEMMA WriteIs ==
  ASSUME TypeOK, NEW count \in 1 .. MaxBatch, NEW whole \in 0 .. count, NEW piece,
         Write(count, whole, piece)
  PROVE  /\ files' \in Seq(File) /\ Len(files') = Current
         /\ made' = made + count /\ made' \in 0 .. MaxLines
         /\ \A g \in 1 .. Current : g # Current => files'[g] = files[g]
         /\ files'[Current] \in File
         /\ files'[Current].split = (File0.split \/ piece = "split")
         /\ Len(files'[Current].lines) >= Len(File0.lines)
         /\ \A i \in 1 .. Len(File0.lines) : files'[Current].lines[i] = File0.lines[i]
         /\ \E next \in Nat :
                /\ next > LastId /\ next >= clock
                /\ next = LastId + 1 \/ next = clock
                /\ lastId' = next + count - 1
                /\ \A j \in 1 .. Len(files'[Current].lines) :
                       \/ j \in 1 .. Len(File0.lines)
                       \/ files'[Current].lines[j] = Unreadable
                       \/ LET i == j - Len(File0.lines)
                          IN  /\ i \in 1 .. count
                              /\ files'[Current].lines[j] =
                                     [no |-> made + i, id |-> next + i - 1, time |-> clock]
<1> DEFINE after == Appended(File0, NewLines(count), whole, piece)
<1>1. /\ Current \in Nat /\ Current >= 1 /\ made \in Nat /\ clock \in Nat /\ count \in Nat /\ whole \in Nat
      /\ files \in Seq(File) /\ Len(files) = Current /\ File0 = files[Current] /\ File0 \in File
    BY FilesAre DEF TypeOK, Current
<1>2. NewLines(count) \in Seq(Line) /\ Len(NewLines(count)) = count
    BY NewLinesAre
<1>3. PICK next \in Nat :
         /\ next > LastId /\ next >= clock
         /\ next = LastId + 1 \/ next = clock
         /\ \A i \in 1 .. count :
                NewLines(count)[i] = [no |-> made + i, id |-> next + i - 1, time |-> clock]
    BY NewLinesAre
<1>4. /\ after \in File /\ after.split = (File0.split \/ piece = "split")
      /\ Len(after.lines) = Len(File0.lines) + whole
      /\ \A i \in 1 .. Len(File0.lines) : after.lines[i] = File0.lines[i]
      /\ \A i \in 1 .. whole : after.lines[Len(File0.lines) + i] = NewLines(count)[i]
                               \/ after.lines[Len(File0.lines) + i] = Unreadable
    <2>1. whole \in 0 .. Len(NewLines(count))
        BY <1>2
    <2>2. PICK file \in File, new \in Seq(Line) : file = File0 /\ new = NewLines(count)
        BY <1>1, <1>2
    <2>3. whole \in 0 .. Len(new)
        BY <2>1, <2>2
    <2>4. IsAppended(Appended(file, new, whole, piece), file, new, whole, piece)
        BY <2>3, AppendedIs
    <2>5. IsAppended(after, File0, new, whole, piece) /\ new = NewLines(count)
        BY <2>2, <2>4
    <2>. HIDE DEF after
    <2>. QED
        BY <2>5 DEF IsAppended
<1>5. files' = [files EXCEPT ![Current] = after]
    BY <1>1 DEF Write
<1>. HIDE DEF after
<1>6. files' \in Seq(File) /\ Len(files') = Current /\ files'[Current] = after
    BY <1>1, <1>4, <1>5
<1>7. \A g \in 1 .. Current : g # Current => files'[g] = files[g]
    BY <1>1, <1>5
<1>8. made' = made + count /\ made' \in 0 .. MaxLines
    BY <1>1 DEF Write
<1>9. Len(File0.lines) \in Nat
    BY <1>1, LinesAre
<1>10. lastId' = next + count - 1
    <2>1. lastId' = NewLines(count)[count].id
        BY DEF Write
    <2>2. NewLines(count)[count] = [no |-> made + count, id |-> next + count - 1, time |-> clock]
        BY <1>1, <1>3
    <2>. QED
        BY <2>1, <2>2
<1>11. \A j \in 1 .. Len(after.lines) :
           \/ j \in 1 .. Len(File0.lines)
           \/ after.lines[j] = Unreadable
           \/ LET i == j - Len(File0.lines)
              IN  /\ i \in 1 .. count
                  /\ after.lines[j] = [no |-> made + i, id |-> next + i - 1, time |-> clock]
    <2>1. SUFFICES ASSUME NEW j \in 1 .. Len(after.lines), j \notin 1 .. Len(File0.lines),
                          after.lines[j] # Unreadable
                   PROVE  LET i == j - Len(File0.lines)
                          IN  /\ i \in 1 .. count
                              /\ after.lines[j] = [no |-> made + i, id |-> next + i - 1, time |-> clock]
        OBVIOUS
    <2>0. PICK k \in Nat : k = Len(File0.lines) /\ Len(after.lines) = k + whole
        BY <1>4, <1>9
    <2>5. j \in 1 .. k + whole /\ j \notin 1 .. k
        BY <2>0, <2>1
    <2>6. j - k \in 1 .. whole /\ j = k + (j - k)
        BY <1>1, <2>0, <2>5
    <2>2. PICK i \in 1 .. whole : i = j - Len(File0.lines) /\ j = Len(File0.lines) + i
        BY <2>0, <2>6
    <2>3. after.lines[j] = NewLines(count)[i] /\ i \in 1 .. count
        <3>1. i \in 1 .. count
            BY <1>1, <2>2
        <3>2. after.lines[Len(File0.lines) + i] = NewLines(count)[i]
              \/ after.lines[Len(File0.lines) + i] = Unreadable
            BY <1>4, <2>2
        <3>. QED
            BY <2>1, <2>2, <3>1, <3>2
    <2>. QED
        BY <1>3, <2>2, <2>3
<1>12. Len(after.lines) >= Len(File0.lines)
    BY <1>1, <1>4, <1>9
<1>. QED
    BY ZenonT(60), <1>3, <1>4, <1>6, <1>7, <1>8, <1>10, <1>11, <1>12

LEMMA WriteKeeps ==
  ASSUME TypeOK, LogInv, NEW count \in 1 .. MaxBatch, NEW whole \in 0 .. count, NEW piece,
         Write(count, whole, piece)
  PROVE  Grown /\ LogInv'
<1>1. /\ Current \in Nat /\ Current >= 1 /\ made \in Nat /\ clock \in Nat /\ count \in Nat
      /\ Len(files) = Current /\ File0 = files[Current] /\ LastId \in Nat
    BY FilesAre, LastIdIs DEF Current
<1>2. PICK k \in Nat : k = Len(File0.lines)
    BY <1>1, LinesAre
<1>3. PICK next \in Nat :
         /\ next > LastId /\ lastId' = next + count - 1
         /\ \A j \in 1 .. Len(files'[Current].lines) :
                \/ j \in 1 .. k
                \/ files'[Current].lines[j] = Unreadable
                \/ LET i == j - k
                   IN  /\ i \in 1 .. count
                       /\ files'[Current].lines[j] =
                              [no |-> made + i, id |-> next + i - 1, time |-> clock]
    <2>1. \E next \in Nat :
              /\ next > LastId /\ lastId' = next + count - 1
              /\ \A j \in 1 .. Len(files'[Current].lines) :
                     \/ j \in 1 .. Len(File0.lines)
                     \/ files'[Current].lines[j] = Unreadable
                     \/ LET i == j - Len(File0.lines)
                        IN  /\ i \in 1 .. count
                            /\ files'[Current].lines[j] =
                                   [no |-> made + i, id |-> next + i - 1, time |-> clock]
        BY ZenonT(60), WriteIs
    <2>. QED
        BY <1>2, <2>1
<1>4. /\ files' \in Seq(File) /\ Len(files') = Current /\ Current' = Current
      /\ made' = made + count /\ made' \in Nat
      /\ \A g \in 1 .. Current : g # Current => files'[g] = files[g]
      /\ files'[Current] \in File
      /\ File0.split => files'[Current].split
      /\ Len(files'[Current].lines) >= k
      /\ \A i \in 1 .. k : files'[Current].lines[i] = File0.lines[i]
    <2>1. /\ files' \in Seq(File) /\ Len(files') = Current
          /\ made' = made + count
          /\ \A g \in 1 .. Current : g # Current => files'[g] = files[g]
          /\ files'[Current] \in File
          /\ files'[Current].split = (File0.split \/ piece = "split")
          /\ Len(files'[Current].lines) >= Len(File0.lines)
          /\ \A i \in 1 .. Len(File0.lines) : files'[Current].lines[i] = File0.lines[i]
        BY WriteIs
    <2>2. Current' = Current
        BY <1>1, <2>1 DEF Current
    <2>3. File0.split => files'[Current].split
        BY <2>1
    <2>4. made' = made + count /\ made' \in Nat
        BY <1>1, <2>1
    <2>5. Len(files'[Current].lines) >= k /\ \A i \in 1 .. k : files'[Current].lines[i] = File0.lines[i]
        BY <1>2, <2>1
    <2>. QED
        BY <2>1, <2>2, <2>3, <2>4, <2>5
<1>5. PICK m \in Nat : m = Len(files'[Current].lines)
    BY <1>4 DEF File
<1>6. LinesIn(files'[Current]) = {files'[Current].lines[j] : j \in 1 .. m}
    BY SMTT(60), <1>4, <1>5, RangeIs DEF File, LinesIn
<1>7. \A j \in 1 .. k : File0.lines[j] \in LinesIn(File0) /\ File0.lines[j] \in Line
    BY <1>1, <1>2, LinesAre
<1>8. \A x \in LinesIn(files'[Current]) :
          \/ x = Unreadable
          \/ x \in LinesIn(File0)
          \/ x.no > made /\ x.no \in 1 .. made' /\ x.id > LastId /\ x.id <= lastId' /\ x.id \in Nat
    <2>1. SUFFICES ASSUME NEW j \in 1 .. m
                   PROVE  LET x == files'[Current].lines[j]
                          IN  \/ x = Unreadable
                              \/ x \in LinesIn(File0)
                              \/ /\ x.no > made /\ x.no \in 1 .. made' /\ x.id > LastId
                                 /\ x.id <= lastId' /\ x.id \in Nat
        BY <1>6
    <2>2. CASE j \in 1 .. k
        BY <1>4, <1>7, <2>2
    <2>3. CASE \E i \in 1 .. count :
                   files'[Current].lines[j] = [no |-> made + i, id |-> next + i - 1, time |-> clock]
        <3>1. PICK i \in 1 .. count :
                 files'[Current].lines[j] = [no |-> made + i, id |-> next + i - 1, time |-> clock]
            BY <2>3
        <3>2. files'[Current].lines[j].no = made + i /\ files'[Current].lines[j].id = next + i - 1
            BY <3>1
        <3>. QED
            <4>1. /\ made + i > made /\ made + i \in 1 .. made + count
                  /\ next + i - 1 > LastId /\ next + i - 1 <= next + count - 1 /\ next + i - 1 \in Nat
                BY SMTT(60), <1>1, <1>3
            <4>. QED
                BY <1>3, <1>4, <3>2, <4>1
    <2>. QED
        BY <1>3, <1>5, <2>1, <2>2, <2>3
<1>9. Grown
    <2>1. \A g \in 1 .. Len(files) :
              /\ files[g].split => files'[g].split
              /\ Len(files[g].lines) <= Len(files'[g].lines)
              /\ \A i \in 1 .. Len(files[g].lines) : files'[g].lines[i] = files[g].lines[i]
        <3>1. SUFFICES ASSUME NEW g \in 1 .. Current
                       PROVE  /\ files[g].split => files'[g].split
                              /\ Len(files[g].lines) <= Len(files'[g].lines)
                              /\ \A i \in 1 .. Len(files[g].lines) :
                                     files'[g].lines[i] = files[g].lines[i]
            BY <1>1
        <3>2. Len(files[g].lines) \in Nat
            BY LinesAre
        <3>3. CASE g # Current
            BY <1>4, <3>2, <3>3
        <3>4. CASE g = Current
            BY <1>1, <1>2, <1>4, <3>4
        <3>. QED
            BY <3>3, <3>4
    <2>2. \A g \in 1 .. Len(files') : \A x \in LinesIn(files'[g]) :
              x = Unreadable \/ x.no > made \/ (g <= Len(files) /\ x \in LinesIn(files[g]))
        BY <1>1, <1>4, <1>8
    <2>. QED
        BY <1>1, <1>4, <2>1, <2>2 DEF Grown
<1>10. LinesOK'
    <2>1. SUFFICES ASSUME NEW f \in 1 .. Current, NEW x \in LinesIn(files'[f])
                   PROVE  x = Unreadable \/ (x.id > 0 /\ x.no \in 1 .. made')
        BY <1>4 DEF LinesOK, LinesIn
    <2>2. ASSUME x \in LinesIn(files[f])
          PROVE  x = Unreadable \/ (x.id > 0 /\ x.no \in 1 .. made')
        BY <1>1, <1>4, <2>2 DEF LogInv, LinesOK
    <2>3. CASE x.no > made /\ x.no \in 1 .. made' /\ x.id > LastId /\ x.id \in Nat
        BY <1>1, <2>3
    <2>. QED
        BY <1>1, <1>4, <1>8, <2>1, <2>2, <2>3
<1>11. ASSUME ~files'[Current].split PROVE \A x \in LinesIn(File0) : x.id <= LastId /\ x.id \in Nat
    <2>1. ~File0.split
        BY <1>4, <1>11
    <2>2. \A x \in LinesIn(File0) : x.id \in Nat
        BY <1>1, LinesAre DEF Line
    <2>3. lastId # Unknown => \A x \in LinesIn(File0) : x.id <= lastId
        BY <1>1, <2>1 DEF LogInv, FileOrder
    <2>. QED
        BY <2>1, <2>2, <2>3, LastIdIs
<1>12. FileOrder'
    <2>1. SUFFICES ASSUME NEW f \in 1 .. Current, ~files'[f].split
                   PROVE  /\ \A i, j \in 1 .. Len(files'[f].lines) :
                              /\ i < j /\ files'[f].lines[i].id # 0 /\ files'[f].lines[j].id # 0
                              => files'[f].lines[i].id < files'[f].lines[j].id
                          /\ f = Current /\ lastId' # Unknown =>
                              \A x \in LinesIn(files'[f]) : x.id <= lastId'
        BY <1>4 DEF FileOrder, LinesIn
    <2>2. CASE f # Current
        BY <1>4, <2>1, <2>2 DEF LogInv, FileOrder
    <2>3. CASE f = Current
        <3>1. lastId' >= LastId /\ lastId' \in Nat /\ 0 <= LastId
            BY <1>1, <1>3
        <3>2. \A x \in LinesIn(files'[f]) : x.id <= lastId'
            <4>1. TAKE x \in LinesIn(files'[f])
            <4>2. CASE x = Unreadable
                BY <3>1, <4>2 DEF Unreadable
            <4>3. CASE x \in LinesIn(File0)
                BY <1>1, <1>11, <2>1, <2>3, <3>1, <4>3
            <4>. QED
                BY <1>8, <2>3, <4>1, <4>2, <4>3
        <3>3. ASSUME NEW i \in 1 .. m, NEW j \in 1 .. m, i < j,
                     files'[f].lines[i].id # 0, files'[f].lines[j].id # 0
              PROVE  files'[f].lines[i].id < files'[f].lines[j].id
            <4>1. files'[f].lines[i] # Unreadable /\ files'[f].lines[j] # Unreadable
                BY <3>3 DEF Unreadable
            <4>2. CASE j \in 1 .. k
                <5>1. i \in 1 .. k
                    BY <3>3, <4>2
                <5>2. ~files[Current].split
                    BY <1>1, <1>4, <2>1, <2>3
                <5>3. files'[f].lines[i] = files[Current].lines[i] /\ files'[f].lines[j] = files[Current].lines[j]
                    BY <1>1, <1>4, <2>3, <4>2, <5>1
                <5>. QED
                    BY <1>1, <1>2, <3>3, <4>2, <5>1, <5>2, <5>3 DEF LogInv, FileOrder
            <4>3. CASE j \notin 1 .. k
                <5>1. PICK b \in 1 .. count : b = j - k /\ files'[f].lines[j].id = next + b - 1
                    <6>1. /\ j - k \in 1 .. count
                          /\ files'[f].lines[j] =
                                 [no |-> made + (j - k), id |-> next + (j - k) - 1, time |-> clock]
                        BY <1>3, <1>5, <2>3, <3>3, <4>1, <4>3
                    <6>. QED
                        BY <6>1
                <5>2. CASE i \in 1 .. k
                    <6>1. files'[f].lines[i] \in LinesIn(File0)
                        BY <1>4, <1>7, <2>3, <5>2
                    <6>2. files'[f].lines[i].id <= LastId /\ files'[f].lines[i].id \in Nat
                        BY <1>11, <2>1, <2>3, <6>1
                    <6>. QED
                        BY SMTT(60), <1>1, <1>3, <5>1, <6>2
                <5>3. CASE i \notin 1 .. k
                    <6>1. PICK a \in 1 .. count : a = i - k /\ files'[f].lines[i].id = next + a - 1
                        <7>1. /\ i - k \in 1 .. count
                              /\ files'[f].lines[i] =
                                     [no |-> made + (i - k), id |-> next + (i - k) - 1, time |-> clock]
                            BY <1>3, <1>5, <2>3, <3>3, <4>1, <5>3
                        <7>. QED
                            BY <7>1
                    <6>. QED
                        BY <3>3, <5>1, <6>1
                <5>. QED
                    BY <5>2, <5>3
            <4>. QED
                BY <4>2, <4>3
        <3>. QED
            BY <1>5, <2>3, <3>2, <3>3
    <2>. QED
        BY <2>2, <2>3
<1>13. PairOrder'
    <2>1. SUFFICES ASSUME NEW f \in 1 .. Current, NEW g \in 1 .. Current, f <= g,
                          ~files'[f].split, ~files'[g].split,
                          NEW x \in LinesIn(files'[f]), NEW y \in LinesIn(files'[g]), x.id < y.id
                   PROVE  x.no < y.no
        BY <1>4 DEF PairOrder, LinesIn
    <2>2. ~files[f].split /\ ~files[g].split
        BY <1>1, <1>4, <2>1
    <2>3. \A h \in 1 .. Current : \A z \in LinesIn(files[h]) :
              z.no \in Nat /\ z.no <= made /\ z.id \in Nat
        <3>1. \A h \in 1 .. Current : \A z \in LinesIn(files[h]) : z \in Line
            BY LinesAre
        <3>. QED
            BY <1>1, <3>1 DEF LogInv, LinesOK, Line, Unreadable
    <2>4. \A h \in 1 .. Current : \A z \in LinesIn(files'[h]) :
              \/ z = Unreadable
              \/ z \in LinesIn(files[h])
              \/ h = Current /\ z.no > made /\ z.no \in 1 .. made' /\ z.id > LastId /\ z.id \in Nat
        BY <1>1, <1>4, <1>8
    <2>5. CASE y = Unreadable
        <3>1. y.id = 0 /\ x.id \in Nat
            BY <2>1, <2>3, <2>4, <2>5 DEF Unreadable
        <3>. QED
            BY <2>1, <3>1
    <2>6. CASE y \in LinesIn(files[g])
        <3>1. CASE x = Unreadable
            <4>1. x.no = 0 /\ x.id = 0 /\ y # Unreadable
                BY <2>1, <2>3, <2>6, <3>1 DEF Unreadable
            <4>. QED
                BY <2>1, <2>6, <4>1 DEF LogInv, LinesOK
        <3>2. CASE x \in LinesIn(files[f])
            BY <2>1, <2>2, <2>6, <3>2 DEF LogInv, PairOrder
        <3>3. CASE f = Current /\ x.id > LastId /\ x.id \in Nat
            <4>1. g = Current
                BY <1>1, <2>1, <3>3
            <4>2. y.id <= LastId /\ y.id \in Nat
                BY <1>1, <1>11, <2>1, <2>6, <4>1
            <4>. QED
                BY <1>1, <2>1, <3>3, <4>2
        <3>. QED
            BY <2>1, <2>4, <3>1, <3>2, <3>3
    <2>7. CASE g = Current /\ y.no > made /\ y.no \in 1 .. made' /\ y.id > LastId /\ y.id \in Nat
        <3>1. CASE x = Unreadable
            BY <1>1, <2>7, <3>1 DEF Unreadable
        <3>2. CASE x \in LinesIn(files[f])
            BY <1>1, <2>3, <2>7, <3>2
        <3>3. CASE f = Current /\ x \notin LinesIn(files[f]) /\ x # Unreadable
            <4>1. PICK a \in 1 .. m : x = files'[Current].lines[a]
                BY <1>6, <3>3
            <4>2. PICK b \in 1 .. m : y = files'[Current].lines[b]
                BY <1>6, <2>7
            <4>3. a \notin 1 .. k
                BY <1>1, <1>4, <1>7, <3>3, <4>1
            <4>4. b \notin 1 .. k
                <5>1. \A i \in 1 .. k : File0.lines[i].no <= made /\ File0.lines[i].no \in Nat
                    BY <1>1, <1>7, <2>3
                <5>. QED
                    BY SMTT(60), <1>1, <1>4, <2>7, <4>2, <5>1
            <4>5. PICK c \in 1 .. count : x = [no |-> made + c, id |-> next + c - 1, time |-> clock]
                BY <1>3, <1>5, <3>3, <4>1, <4>3
            <4>6. y # Unreadable
                BY <1>1, <2>7 DEF Unreadable
            <4>7. PICK d \in 1 .. count : y = [no |-> made + d, id |-> next + d - 1, time |-> clock]
                BY <1>3, <1>5, <4>2, <4>4, <4>6
            <4>8. x.id = next + c - 1 /\ y.id = next + d - 1 /\ x.no = made + c /\ y.no = made + d
                BY <4>5, <4>7
            <4>. QED
                BY <1>1, <2>1, <4>8
        <3>. QED
            BY <2>1, <2>4, <3>1, <3>2, <3>3
    <2>. QED
        BY <2>1, <2>4, <2>5, <2>6, <2>7
<1>. QED
    BY <1>9, <1>10, <1>12, <1>13 DEF LogInv

\* A new file at the path, of a prune or a reset, has some lines of the last one
\* in their order.
LEMMA NewFileKeeps ==
  ASSUME TypeOK, LogInv, NEW file \in File, files' = Append(files, file), made' = made,
         lastId' \in {lastId, Unknown},
         ~file.split,
         \A x \in LinesIn(file) : x = Unreadable \/ (~File0.split /\ x \in LinesIn(File0)),
         \A i, j \in 1 .. Len(file.lines) :
             /\ i < j /\ file.lines[i] # Unreadable /\ file.lines[j] # Unreadable
             => \E k, m \in 1 .. Len(File0.lines) :
                    k < m /\ file.lines[i] = File0.lines[k] /\ file.lines[j] = File0.lines[m]
  PROVE  Grown /\ LogInv' /\ Current' = Current + 1 /\ files'[Current'] = file
<1>1. /\ Current \in Nat /\ Current >= 1 /\ made \in Nat
      /\ files \in Seq(File) /\ Len(files) = Current /\ File0 = files[Current]
    BY FilesAre DEF Current, TypeOK
<1>2. /\ files' \in Seq(File) /\ Len(files') = Current + 1 /\ files'[Current + 1] = file
      /\ \A g \in 1 .. Current : files'[g] = files[g]
    BY <1>1
<1>3. Current' = Current + 1
    BY <1>2 DEF Current
<1>4. \A g \in 1 .. Current + 1 : g \in 1 .. Current \/ g = Current + 1
    BY <1>1
<1>5. \A g \in 1 .. Current : \A x \in LinesIn(files[g]) :
          x.id \in Nat /\ x.no \in Nat /\ (x = Unreadable \/ (x.id > 0 /\ x.no \in 1 .. made))
    BY LinesAre DEF LogInv, LinesOK, Line
<1>6. Grown
    <2>1. \A g \in 1 .. Current :
              /\ files[g].split => files'[g].split
              /\ Len(files[g].lines) <= Len(files'[g].lines)
              /\ \A i \in 1 .. Len(files[g].lines) : files'[g].lines[i] = files[g].lines[i]
        <3>1. TAKE g \in 1 .. Current
        <3>2. Len(files[g].lines) \in Nat
            BY LinesAre
        <3>3. files'[g] = files[g]
            BY <1>2
        <3>. QED
            BY <3>2, <3>3
    <2>2. \A g \in 1 .. Current + 1 : \A x \in LinesIn(files'[g]) :
              \/ x = Unreadable
              \/ g <= Current /\ x \in LinesIn(files[g])
              \/ g > Current /\ ~File0.split /\ x \in LinesIn(File0)
        BY <1>1, <1>2, <1>4
    <2>. QED
        BY <1>1, <1>2, <2>1, <2>2 DEF Grown
<1>7. LinesOK'
    <2>1. SUFFICES ASSUME NEW g \in 1 .. Current + 1, NEW x \in LinesIn(files'[g])
                   PROVE  x = Unreadable \/ (x.id > 0 /\ x.no \in 1 .. made)
        BY <1>3 DEF LinesOK, LinesIn
    <2>2. CASE g \in 1 .. Current
        BY <1>2, <1>5, <2>1, <2>2
    <2>3. CASE g = Current + 1
        BY <1>1, <1>2, <1>5, <2>1, <2>3
    <2>. QED
        BY <1>4, <2>2, <2>3
<1>8. ~File0.split /\ lastId # Unknown => \A x \in LinesIn(File0) : x.id <= lastId
    BY <1>1 DEF LogInv, FileOrder
<1>9. FileOrder'
    <2>1. SUFFICES ASSUME NEW f \in 1 .. Current + 1, ~files'[f].split
                   PROVE  /\ \A i, j \in 1 .. Len(files'[f].lines) :
                              /\ i < j /\ files'[f].lines[i].id # 0 /\ files'[f].lines[j].id # 0
                              => files'[f].lines[i].id < files'[f].lines[j].id
                          /\ f = Current + 1 /\ lastId' # Unknown =>
                              \A x \in LinesIn(files'[f]) : x.id <= lastId'
        BY <1>3 DEF FileOrder, LinesIn
    <2>2. CASE f \in 1 .. Current
        BY <1>1, <1>2, <2>1, <2>2 DEF LogInv, FileOrder
    <2>3. CASE f = Current + 1
        <3>1. \A i, j \in 1 .. Len(file.lines) :
                  /\ i < j /\ file.lines[i].id # 0 /\ file.lines[j].id # 0
                  => file.lines[i].id < file.lines[j].id
            <4>1. SUFFICES ASSUME NEW i \in 1 .. Len(file.lines), NEW j \in 1 .. Len(file.lines), i < j,
                                  file.lines[i].id # 0, file.lines[j].id # 0
                           PROVE  file.lines[i].id < file.lines[j].id
                OBVIOUS
            <4>2. file.lines[i] # Unreadable /\ file.lines[j] # Unreadable
                BY <4>1 DEF Unreadable
            <4>3. PICK k, m \in 1 .. Len(File0.lines) :
                     k < m /\ file.lines[i] = File0.lines[k] /\ file.lines[j] = File0.lines[m]
                BY <4>1, <4>2
            <4>4. ~File0.split
                <5>1. file.lines \in Seq(Line)
                    BY DEF File
                <5>2. file.lines[i] \in LinesIn(file)
                    BY <5>1, RangeIs DEF LinesIn
                <5>. QED
                    BY <4>2, <5>2
            <4>. QED
                BY <1>1, <4>1, <4>3, <4>4 DEF LogInv, FileOrder
        <3>2. lastId' # Unknown => \A x \in LinesIn(file) : x.id <= lastId'
            <4>1. SUFFICES ASSUME lastId' # Unknown, NEW x \in LinesIn(file) PROVE x.id <= lastId'
                OBVIOUS
            <4>2. lastId' = lastId /\ lastId \in Nat
                BY <4>1 DEF TypeOK
            <4>3. CASE x = Unreadable
                BY <4>2, <4>3 DEF Unreadable
            <4>. QED
                BY <1>8, <4>1, <4>2, <4>3
        <3>. QED
            BY <1>2, <2>3, <3>1, <3>2
    <2>. QED
        BY <1>4, <2>2, <2>3
<1>10. PairOrder'
    <2>1. SUFFICES ASSUME NEW f \in 1 .. Current + 1, NEW g \in 1 .. Current + 1, f <= g,
                          ~files'[f].split, ~files'[g].split,
                          NEW x \in LinesIn(files'[f]), NEW y \in LinesIn(files'[g]), x.id < y.id
                   PROVE  x.no < y.no
        BY <1>3 DEF PairOrder, LinesIn
    <2>2. CASE g \in 1 .. Current
        <3>1. f \in 1 .. Current
            BY <1>1, <2>1, <2>2
        <3>. QED
            BY <1>2, <2>1, <2>2, <3>1 DEF LogInv, PairOrder
    <2>3. CASE g = Current + 1
        <3>1. y = Unreadable \/ (~File0.split /\ y \in LinesIn(File0))
            BY <1>2, <2>1, <2>3
        <3>2. x.id \in Nat /\ (f \in 1 .. Current => x \in LinesIn(files[f]))
              /\ (f = Current + 1 => x = Unreadable \/ (~File0.split /\ x \in LinesIn(File0)))
            <4>1. CASE f \in 1 .. Current
                BY <1>1, <1>2, <1>5, <2>1, <4>1
            <4>2. CASE f = Current + 1
                BY <1>1, <1>2, <1>5, <2>1, <4>2 DEF Unreadable
            <4>. QED
                BY <1>4, <4>1, <4>2
        <3>3. y # Unreadable
            BY <2>1, <3>2 DEF Unreadable
        <3>4. y.no \in 1 .. made
            BY <1>1, <1>5, <3>1, <3>3
        <3>5. CASE x = Unreadable
            BY <3>4, <3>5 DEF Unreadable
        <3>6. CASE f \in 1 .. Current
            <4>1. f <= Current /\ ~files[f].split
                BY <1>2, <2>1, <3>6
            <4>. QED
                BY <1>1, <2>1, <3>1, <3>2, <3>3, <3>6, <4>1 DEF LogInv, PairOrder
        <3>7. CASE f = Current + 1 /\ x # Unreadable
            BY <1>1, <2>1, <3>1, <3>2, <3>3, <3>7 DEF LogInv, PairOrder
        <3>. QED
            BY <1>4, <3>5, <3>6, <3>7
    <2>. QED
        BY <1>4, <2>2, <2>3
<1>. QED
    BY <1>2, <1>3, <1>6, <1>7, <1>9, <1>10 DEF LogInv

LEMMA PruneKeeps ==
  ASSUME TypeOK, LogInv, Prune
  PROVE  Grown /\ LogInv' /\ files' \in Seq(File)
<1>1. PICK file \in File : file = Pruned(File0)
    BY FilesAre, PrunedIs
<1>2. /\ ~file.split
      /\ \A x \in LinesIn(file) : x = Unreadable \/ x \in LinesIn(File0)
      /\ \A i, j \in 1 .. Len(file.lines) :
             /\ i < j /\ file.lines[i] # Unreadable /\ file.lines[j] # Unreadable
             => \E k, m \in 1 .. Len(File0.lines) :
                    k < m /\ file.lines[i] = File0.lines[k] /\ file.lines[j] = File0.lines[m]
    <2>1. PICK old \in File : old = File0
        BY FilesAre
    <2>2. LET after == Pruned(old)
          IN  /\ ~after.split
              /\ \A x \in LinesIn(after) : x = Unreadable \/ x \in LinesIn(old)
              /\ \A i, j \in 1 .. Len(after.lines) :
                     /\ i < j /\ after.lines[i] # Unreadable /\ after.lines[j] # Unreadable
                     => \E k, m \in 1 .. Len(old.lines) :
                            k < m /\ after.lines[i] = old.lines[k] /\ after.lines[j] = old.lines[m]
        BY PrunedIs
    <2>. QED
        BY <1>1, <2>1, <2>2
<1>3. files' = Append(files, file) /\ made' = made /\ lastId' = lastId /\ ~File0.split
    BY <1>1 DEF Prune
<1>. QED
    BY <1>2, <1>3, NewFileKeeps DEF Grown

LEMMA ResetKeeps ==
  ASSUME TypeOK, LogInv, FormatReset
  PROVE  Grown /\ LogInv' /\ files' \in Seq(File)
<1>1. NoFile \in File /\ NoFile.lines = <<>> /\ ~NoFile.split
    BY DEF NoFile, File
<1>2. LinesIn(NoFile) = {} /\ Len(NoFile.lines) = 0
    BY <1>1 DEF LinesIn, Range
<1>3. files' = Append(files, NoFile) /\ made' = made /\ lastId' = Unknown
    BY DEF FormatReset, EndConnections
<1>4. \A i, j \in 1 .. Len(NoFile.lines) : FALSE
    BY <1>2
<1>. QED
    BY <1>1, <1>2, <1>3, <1>4, NewFileKeeps DEF Grown

\* The other steps leave the log, or cache the last id or forget it.
LEMMA SameLogKeeps ==
  ASSUME TypeOK, LogInv, files' = files, made' = made, lastId' \in {lastId, Unknown, LastId}
  PROVE  Grown /\ LogInv'
<1>1. Current \in Nat /\ Current >= 1 /\ Len(files) = Current /\ File0 = files[Current] /\ made \in Nat
      /\ files \in Seq(File)
    BY FilesAre DEF Current, TypeOK
<1>2. Current' = Current
    BY DEF Current
<1>3. Grown
    BY <1>1, LinesAre DEF Grown
<1>4. LinesOK' /\ PairOrder'
    BY <1>2 DEF LogInv, LinesOK, PairOrder, LinesIn
<1>5. FileOrder'
    <2>1. SUFFICES ASSUME ~File0.split, lastId' # Unknown
                   PROVE  \A x \in LinesIn(File0) : x.id <= lastId'
        BY <1>1, <1>2 DEF LogInv, FileOrder, LinesIn
    <2>2. CASE lastId' = lastId
        BY <1>1, <2>1, <2>2 DEF LogInv, FileOrder
    <2>3. CASE lastId' = LastId /\ lastId = Unknown
        BY <2>1, <2>3, LastIdIs
    <2>4. CASE lastId' = LastId /\ lastId # Unknown
        BY <2>2, <2>4, LastIdIs
    <2>. QED
        BY <2>1, <2>2, <2>3, <2>4
<1>. QED
    BY <1>3, <1>4, <1>5 DEF LogInv

LEMMA ShortWriteIs ==
  ASSUME NEW count \in 1 .. MaxBatch, NEW whole \in 0 .. MaxBatch, NEW piece,
         ShortWrite(count, whole, piece)
  PROVE  whole \in 0 .. count /\ Write(count, whole, piece)
BY DEF ShortWrite

LEMMA LogKeeps ==
  ASSUME TypeOK, LogInv, [Next]_vars
  PROVE  Grown /\ LogInv'
<1>1. ASSUME NEW count \in 1 .. MaxBatch, EventLog(count) PROVE Grown /\ LogInv'
    <2>1. count \in 0 .. count /\ Write(count, count, "none")
        BY <1>1 DEF EventLog
    <2>. QED
        BY <1>1, <2>1, WriteKeeps
<1>2. ASSUME NEW count \in 1 .. MaxBatch, NEW whole \in 0 .. MaxBatch, NEW piece,
             ShortWrite(count, whole, piece)
      PROVE  Grown /\ LogInv'
    BY <1>2, ShortWriteIs, WriteKeeps
<1>3. CASE Prune
    BY <1>3, PruneKeeps
<1>4. CASE FormatReset
    BY <1>4, ResetKeeps
<1>5. CASE Restart
    BY <1>5, SameLogKeeps DEF Restart, EndConnections
<1>6. ASSUME NEW r \in Readers, Connect(r) PROVE Grown /\ LogInv'
    BY <1>6, SameLogKeeps DEF Connect
<1>7. ASSUME NEW r \in Readers, OpenLog(r) \/ ReadLog(r) \/ SendLine(r) \/ Notify(r)
      PROVE  Grown /\ LogInv'
    BY <1>7, SameLogKeeps DEF OpenLog, ReadLog, SendLine, Notify, daemon
<1>8. ASSUME NEW r \in Readers, NEW changed \in BOOLEAN, EndPass(r, changed) PROVE Grown /\ LogInv'
    BY <1>8, SameLogKeeps DEF EndPass, daemon
<1>9. ASSUME NEW r \in Readers, Handle(r) PROVE Grown /\ LogInv'
    BY <1>9, SameLogKeeps DEF Handle, daemon
<1>10. ASSUME NEW r \in Readers, PluginCrash(r) PROVE Grown /\ LogInv'
    BY <1>10, SameLogKeeps DEF PluginCrash, daemon
<1>11. CASE TimePasses \/ TimeSteppedBack
    BY <1>11, SameLogKeeps DEF TimePasses, TimeSteppedBack, daemon
<1>12. CASE UNCHANGED vars
    BY <1>12, SameLogKeeps DEF vars, daemon
<1>. QED
    BY <1>1, <1>2, <1>3, <1>4, <1>5, <1>6, <1>7, <1>8, <1>9, <1>10, <1>11, <1>12 DEF Next

-----------------------------------------------------------------------------
(* The flow to a reader *)

LEMMA EmptyIs ==
  /\ Range(<<>>) = {} /\ Len(<<>>) = 0
  /\ InOrder(<<>>) /\ Increasing(<<>>)
  /\ \A T : <<>> \in Seq(T)
BY DEF Range, InOrder, Increasing

LEMMA FlowIs ==
  ASSUME TypeOK, NEW r \in Readers
  PROVE  /\ conn[r] \in Conn /\ pipe[r] \in Seq(Item) /\ conn[r].out \in Seq(Item)
         /\ conn[r].last \in Nat /\ conn[r].file \in Nat /\ conn[r].offset \in Nat
         /\ conn[r].opened \in Nat
         /\ conn[r].st \in {"closed", "idle", "opened", "sending"}
         /\ CursorOK(conn[r])
         /\ reader[r] \in Nat \union {Unknown} /\ todo[r] \in Seq(Nat) /\ notified[r] \in Seq(Nat)
         /\ handled[r] \subseteq Nat
         /\ Range(pipe[r]) \subseteq Item /\ Range(conn[r].out) \subseteq Item
         /\ OnWay(r) \subseteq Item
         /\ Range(todo[r]) \subseteq Nat /\ Range(notified[r]) \subseteq Nat
         /\ \A p \in Item : p.id \in Nat /\ p.no \in Nat
<1>1. conn[r] \in Conn /\ pipe[r] \in Seq(Item)
    BY DEF TypeOK
<1>2. /\ conn[r].out \in Seq(Item)
      /\ conn[r].last \in Nat /\ conn[r].file \in Nat /\ conn[r].offset \in Nat
      /\ conn[r].opened \in Nat
      /\ conn[r].st \in {"closed", "idle", "opened", "sending"}
    BY <1>1 DEF Conn
<1>3. /\ CursorOK(conn[r])
      /\ reader[r] \in Nat \union {Unknown} /\ todo[r] \in Seq(Nat) /\ notified[r] \in Seq(Nat)
      /\ handled[r] \subseteq Nat
    BY DEF TypeOK
<1>4. Range(pipe[r]) \subseteq Item
    BY <1>1, RangeIs
<1>5. Range(conn[r].out) \subseteq Item
    BY <1>2, RangeIs
<1>6. Range(todo[r]) \subseteq Nat
    BY <1>3, RangeIs
<1>7. Range(notified[r]) \subseteq Nat
    BY <1>3, RangeIs
<1>8. OnWay(r) \subseteq Item
    BY <1>4, <1>5 DEF OnWay
<1>9. \A p \in Item : p.id \in Nat /\ p.no \in Nat
    BY DEF Item
<1>. QED
    BY <1>1, <1>2, <1>3, <1>4, <1>5, <1>6, <1>7, <1>8, <1>9

\* A step of the log, of another reader, or one that ends the connection of the
\* reader or drops what is on the way to it.
LEMMA FlowLater ==
  ASSUME TypeOK, NEW r \in Readers, FlowOK(r), Grown,
         conn'[r] \in {conn[r], Closed}, pipe'[r] \in {pipe[r], <<>>},
         todo'[r] \in {todo[r], <<>>},
         reader'[r] = reader[r], handled'[r] = handled[r], notified'[r] = notified[r]
  PROVE  FlowOK(r)'
<1>1. /\ Current \in Nat /\ Current >= 1 /\ made \in Nat /\ made' \in Nat /\ made <= made'
      /\ Current' \in Nat /\ Current' >= Current /\ Len(files) = Current /\ Len(files') = Current'
    BY FilesAre DEF Grown, Current
<1>2. /\ Closed.st = "closed" /\ Closed.out = <<>>
    BY DEF Closed
<1>3. /\ Range(pipe'[r]) \subseteq Range(pipe[r]) /\ Range(conn'[r].out) \subseteq Range(conn[r].out)
      /\ conn'[r].out \in {conn[r].out, <<>>} /\ Range(todo'[r]) \subseteq Range(todo[r])
    BY <1>2, EmptyIs
<1>4. OnWay(r)' \subseteq OnWay(r)
    <2>1. OnWay(r)' = {p \in Range(pipe'[r]) \union Range(conn'[r].out) : p.type = "line"}
        BY DEF OnWay
    <2>. QED
        BY <1>3, <2>1 DEF OnWay
<1>5. /\ \A p \in OnWay(r) : p.id \in Nat /\ p.no \in Nat
      /\ \A h \in handled[r] : h \in Nat
      /\ reader[r] \in Nat \union {Unknown}
    BY FlowIs
<1>6. ItemsOK(r)'
    <2>1. InOrder(pipe'[r]) /\ InOrder(conn'[r].out)
        BY <1>3, EmptyIs DEF FlowOK, ItemsOK
    <2>2. \A p \in OnWay(r)' : p.id > 0 /\ p.no \in 1 .. made'
        BY <1>1, <1>4 DEF FlowOK, ItemsOK
    <2>3. conn'[r].st # "sending" => conn'[r].out = <<>>
        BY <1>2 DEF FlowOK, ItemsOK
    <2>4. /\ \A q \in Range(conn'[r].out) : q.type = "line"
          /\ \A p \in Range(pipe'[r]), q \in Range(conn'[r].out) :
                 p.type = "line" => p.id < q.id /\ p.no < q.no
        BY <1>3 DEF FlowOK, ItemsOK
    <2>. QED
        BY <2>1, <2>2, <2>3, <2>4 DEF ItemsOK, InOrder
<1>7. LastOK(r)'
    <2>1. SUFFICES ASSUME conn'[r].st # "closed" PROVE LastOK(r)'
        BY DEF LastOK
    <2>2. conn'[r] = conn[r]
        BY <1>2, <2>1
    <2>3. /\ \A p \in OnWay(r)' : p.id <= conn'[r].last
          /\ reader'[r] # Unknown => reader'[r] <= conn'[r].last
        BY <1>4, <2>1, <2>2 DEF FlowOK, LastOK
    <2>4. ASSUME conn[r].file # 0, NEW i \in 1 .. conn[r].offset
          PROVE  files'[conn[r].file].lines[i].id <= conn[r].last
        <3>1. conn[r].file \in 1 .. Current /\ conn[r].offset \in Nat
              /\ conn[r].offset <= Len(files[conn[r].file].lines)
            BY <1>1, <2>4, FlowIs DEF CursorOK
        <3>2. Len(files[conn[r].file].lines) \in Nat
            BY <3>1, LinesAre
        <3>3. i \in 1 .. Len(files[conn[r].file].lines)
            BY <2>4, <3>1, <3>2
        <3>4. files'[conn[r].file].lines[i] = files[conn[r].file].lines[i]
            BY <1>1, <3>1, <3>3 DEF Grown
        <3>. QED
            BY <2>1, <2>2, <2>4, <3>4 DEF FlowOK, LastOK
    <2>. QED
        BY <2>2, <2>3, <2>4 DEF LastOK
<1>8. StartOK(r)'
    <2>1. SUFFICES ASSUME reader[r] = Unknown
                   PROVE  /\ handled[r] = {}
                          /\ \A s \in Range(pipe'[r]) : s.type = "sidebar" =>
                              /\ \A p \in OnWay(r)' : s.id < p.id
                              /\ conn'[r].st # "closed" => s.id <= conn'[r].last
        BY DEF StartOK
    <2>2. /\ handled[r] = {}
          /\ \A s \in Range(pipe[r]) : s.type = "sidebar" =>
              /\ \A p \in OnWay(r) : s.id < p.id
              /\ conn[r].st # "closed" => s.id <= conn[r].last
        BY <2>1 DEF FlowOK, StartOK
    <2>3. conn'[r].st # "closed" => conn'[r] = conn[r]
        BY <1>2
    <2>. QED
        BY <1>3, <1>4, <2>2, <2>3
<1>9. HandledOK(r)'
    <2>1. /\ reader[r] # Unknown => \A p \in OnWay(r) : reader[r] < p.id
          /\ \A h \in handled[r] : h \in 1 .. made /\ \A p \in OnWay(r) : h < p.no
        BY DEF FlowOK, HandledOK
    <2>2. \A h \in handled[r] : h \in 1 .. made'
        BY <1>1, <2>1
    <2>. QED
        BY <1>4, <2>1, <2>2 DEF HandledOK
<1>10. AheadOK(r)'
    <2>1. SUFFICES ASSUME NEW g \in Readable(r)', ~files'[g].split, NEW x \in LinesIn(files'[g])
                   PROVE  /\ \A p \in OnWay(r)' : p.id < x.id => p.no < x.no
                          /\ \A h \in handled[r] : reader[r] < x.id => h < x.no
        BY DEF AheadOK, LinesIn
    <2>2. CASE x = Unreadable
        <3>1. x.id = 0
            BY <2>2 DEF Unreadable
        <3>2. \A h \in handled[r] : reader[r] \in Nat
            BY <1>5 DEF FlowOK, StartOK
        <3>. QED
            BY <1>4, <1>5, <3>1, <3>2
    <2>3. CASE x.no > made
        <3>1. \A p \in OnWay(r) : p.no <= made
            BY <1>1 DEF FlowOK, ItemsOK
        <3>2. \A h \in handled[r] : h <= made
            BY <1>1 DEF FlowOK, HandledOK
        <3>3. x.no \in Nat
            <4>1. g \in 1 .. Current' /\ files'[g] \in File
                <5>1. g \in 1 .. Current'
                    <6>1. Readable(r)' \subseteq 1 .. Current'
                        <7>1. Readable(r)' = (IF conn'[r].st = "opened" THEN conn'[r].opened ELSE Current') .. Current'
                            BY DEF Readable
                        <7>2. conn'[r].st = "opened" => conn'[r].opened \in 1 .. Current
                            BY <1>2, FlowIs DEF CursorOK
                        <7>. QED
                            BY <1>1, <7>1, <7>2
                    <6>. QED
                        BY <2>1, <6>1
                <5>. QED
                    BY <1>1, <5>1 DEF Grown
            <4>2. files'[g].lines \in Seq(Line)
                BY <4>1 DEF File
            <4>3. x \in Line
                BY <2>1, <4>2, RangeIs DEF LinesIn
            <4>. QED
                BY <4>3 DEF Line
        <3>. QED
            BY <1>1, <1>4, <1>5, <2>3, <3>1, <3>2, <3>3
    <2>4. CASE \E f \in Readable(r) : ~files[f].split /\ x \in LinesIn(files[f])
        BY <1>4, <2>4 DEF FlowOK, AheadOK
    <2>5. x = Unreadable \/ x.no > made \/ \E f \in Readable(r) : ~files[f].split /\ x \in LinesIn(files[f])
        <3>1. Readable(r)' = (IF conn'[r].st = "opened" THEN conn'[r].opened ELSE Current') .. Current'
            BY DEF Readable
        <3>2. Readable(r) = (IF conn[r].st = "opened" THEN conn[r].opened ELSE Current) .. Current
            BY DEF Readable
        <3>3. conn[r].st = "opened" => conn[r].opened \in 1 .. Current
            BY FlowIs DEF CursorOK
        <3>4. conn'[r].st = "opened" => conn'[r] = conn[r]
            BY <1>2
        <3>5. Current \in Readable(r)
            BY <1>1, <3>2, <3>3
        <3>6. /\ g \in 1 .. Current'
              /\ g <= Current => g \in Readable(r)
            <4>1. CASE conn'[r].st = "opened"
                BY <1>1, <2>1, <3>1, <3>2, <3>3, <3>4, <4>1
            <4>2. CASE conn'[r].st # "opened"
                BY <1>1, <2>1, <3>1, <3>5, <4>2
            <4>. QED
                BY <4>1, <4>2
        <3>7. \/ x = Unreadable \/ x.no > made
              \/ g <= Current /\ x \in LinesIn(files[g])
              \/ ~files[Current].split /\ x \in LinesIn(files[Current])
            BY <1>1, <2>1, <3>6 DEF Grown
        <3>8. g <= Current => ~files[g].split
            BY <1>1, <2>1, <3>6 DEF Grown
        <3>. QED
            BY <3>5, <3>6, <3>7, <3>8
    <2>. QED
        BY <2>2, <2>3, <2>4, <2>5
<1>11. NotifyOK(r)'
    <2>1. Increasing(notified[r]) /\ Increasing(todo'[r])
        BY EmptyIs DEF FlowOK, NotifyOK
    <2>. QED
        BY <1>3, <2>1 DEF FlowOK, NotifyOK, Increasing
<1>. QED
    BY <1>6, <1>7, <1>8, <1>9, <1>10, <1>11 DEF FlowOK

LEMMA AppendIs ==
  ASSUME NEW T, NEW s \in Seq(T), NEW x \in T
  PROVE  /\ Append(s, x) \in Seq(T) /\ Len(Append(s, x)) = Len(s) + 1 /\ Len(s) \in Nat
         /\ \A i \in 1 .. Len(s) : Append(s, x)[i] = s[i]
         /\ Append(s, x)[Len(s) + 1] = x
         /\ Range(Append(s, x)) = Range(s) \union {x}
<1>0. Append(s, x) \in Seq(T)
    OBVIOUS
<1>1. PICK t \in Seq(T) : t = Append(s, x)
    BY <1>0
<1>2. /\ Len(t) = Len(s) + 1 /\ Len(s) \in Nat
      /\ \A i \in 1 .. Len(s) : t[i] = s[i]
      /\ t[Len(s) + 1] = x
    BY <1>1
<1>3. Range(t) = {t[i] : i \in 1 .. Len(t)}
    BY RangeIs
<1>4. Range(s) = {s[i] : i \in 1 .. Len(s)}
    BY RangeIs
<1>5. \A i \in 1 .. Len(t) : i \in 1 .. Len(s) \/ i = Len(s) + 1
    BY <1>2
<1>6. 1 .. Len(s) \subseteq 1 .. Len(t) /\ Len(s) + 1 \in 1 .. Len(t)
    BY <1>2
<1>7. Range(t) = Range(s) \union {x}
    BY <1>2, <1>3, <1>4, <1>5, <1>6
<1>. QED
    BY <1>1, <1>2, <1>7

LEMMA HeadTailIs ==
  ASSUME NEW T, NEW s \in Seq(T), s # <<>>
  PROVE  /\ Len(s) \in Nat /\ Len(s) > 0 /\ Head(s) = s[1] /\ Head(s) \in T
         /\ Tail(s) \in Seq(T) /\ Len(Tail(s)) = Len(s) - 1
         /\ \A i \in 1 .. Len(s) - 1 : Tail(s)[i] = s[i + 1]
         /\ Range(s) = {Head(s)} \union Range(Tail(s))
<1>1. Len(s) \in Nat /\ Len(s) > 0 /\ Head(s) = s[1] /\ Head(s) \in T
    OBVIOUS
<1>2. PICK t \in Seq(T) : t = Tail(s)
    BY <1>1, TailIs
<1>3. Len(t) = Len(s) - 1 /\ \A i \in 1 .. Len(s) - 1 : t[i] = s[i + 1]
    BY <1>1, <1>2, TailIs
<1>4. Range(s) = {s[i] : i \in 1 .. Len(s)}
    BY RangeIs
<1>5. Range(t) = {t[i] : i \in 1 .. Len(t)}
    BY RangeIs
<1>6. Range(s) = {Head(s)} \union Range(t)
    <2>1. \A x \in Range(s) : x = s[1] \/ x \in Range(t)
        <3>1. SUFFICES ASSUME NEW i \in 1 .. Len(s), i # 1 PROVE s[i] \in Range(t)
            BY <1>4
        <3>2. i - 1 \in 1 .. Len(t) /\ i - 1 \in 1 .. Len(s) - 1 /\ (i - 1) + 1 = i
            BY <1>1, <1>3, <3>1
        <3>3. t[i - 1] = s[i]
            BY <1>3, <3>2
        <3>. QED
            BY <1>5, <3>2, <3>3
    <2>2. \A x \in Range(t) : x \in Range(s)
        <3>1. SUFFICES ASSUME NEW i \in 1 .. Len(t) PROVE t[i] \in Range(s)
            BY <1>5
        <3>2. i + 1 \in 1 .. Len(s) /\ i \in 1 .. Len(s) - 1
            BY <1>1, <1>3
        <3>. QED
            BY <1>3, <1>4, <3>2
    <2>3. s[1] \in Range(s)
        BY <1>1, <1>4
    <2>. QED
        BY <1>1, <2>1, <2>2, <2>3
<1>. QED
    BY <1>1, <1>2, <1>3, <1>6

\* Nothing is put on the way, and the reader has what it had.
LEMMA AheadLater ==
  ASSUME NEW r \in Readers, FlowOK(r), files' = files, made' = made,
         OnWay(r)' \subseteq OnWay(r), Readable(r)' \subseteq Readable(r),
         reader'[r] = reader[r], handled'[r] = handled[r]
  PROVE  HandledOK(r)' /\ AheadOK(r)' /\ \A p \in OnWay(r)' : p.id > 0 /\ p.no \in 1 .. made'
<1>1. HandledOK(r)'
    BY DEF FlowOK, HandledOK
<1>2. AheadOK(r)'
    BY DEF FlowOK, AheadOK, LinesIn
<1>3. \A p \in OnWay(r)' : p.id > 0 /\ p.no \in 1 .. made'
    BY DEF FlowOK, ItemsOK
<1>. QED
    BY <1>1, <1>2, <1>3

LEMMA NotifyLater ==
  ASSUME NEW r \in Readers, FlowOK(r), todo'[r] = todo[r], notified'[r] = notified[r],
         handled'[r] = handled[r]
  PROVE  NotifyOK(r)'
BY DEF FlowOK, NotifyOK, Increasing

LEMMA ConnectFlow ==
  ASSUME TypeOK, NEW r \in Readers, FlowOK(r), Connect(r)
  PROVE  FlowOK(r)'
<1>1. PICK last \in Nat : last = LastId
    BY LastIdIs
<1>2. /\ pipe[r] = <<>> /\ conn[r].st = "closed" /\ conn[r].out = <<>> /\ todo[r] = <<>>
      /\ pipe'[r] = <<Sidebar(last)>>
      /\ conn'[r] = [Closed EXCEPT !.st = "idle",
                         !.last = IF reader[r] = Unknown THEN last ELSE reader[r]]
      /\ files' = files /\ made' = made /\ reader' = reader /\ todo' = todo
      /\ handled' = handled /\ notified' = notified
    BY <1>1 DEF Connect, TypeOK, FlowOK, ItemsOK
<1>3. /\ conn'[r].st = "idle" /\ conn'[r].out = <<>> /\ conn'[r].file = 0
      /\ conn'[r].last = IF reader[r] = Unknown THEN last ELSE reader[r]
    BY <1>2 DEF Closed
<1>4. Sidebar(last) \in Item /\ Sidebar(last).type = "sidebar" /\ Sidebar(last).id = last
    BY DEF Sidebar, Item
<1>5. pipe'[r] \in Seq(Item) /\ Len(pipe'[r]) = 1 /\ pipe'[r][1] = Sidebar(last)
    BY <1>2, <1>4, OneElement
<1>6. Range(pipe'[r]) = {Sidebar(last)} /\ Range(conn'[r].out) = {}
    BY <1>3, <1>5, RangeIs, EmptyIs
<1>7. OnWay(r)' = {}
    <2>1. OnWay(r)' = {p \in Range(pipe'[r]) \union Range(conn'[r].out) : p.type = "line"}
        BY DEF OnWay
    <2>. QED
        BY <1>4, <1>6, <2>1
<1>8. Readable(r)' \subseteq Readable(r)
    BY <1>2, <1>3 DEF Readable, Current
<1>9. HandledOK(r)' /\ AheadOK(r)' /\ NotifyOK(r)'
    BY <1>2, <1>7, <1>8, AheadLater, NotifyLater
<1>10. ItemsOK(r)'
    BY <1>3, <1>4, <1>5, <1>6, <1>7, EmptyIs DEF ItemsOK, InOrder
<1>11. LastOK(r)'
    BY <1>2, <1>3, <1>7, FlowIs DEF LastOK
<1>12. StartOK(r)'
    BY <1>2, <1>3, <1>4, <1>6, <1>7 DEF FlowOK, StartOK
<1>. QED
    BY <1>9, <1>10, <1>11, <1>12 DEF FlowOK

LEMMA OpenLogFlow ==
  ASSUME TypeOK, NEW r \in Readers, FlowOK(r), OpenLog(r)
  PROVE  FlowOK(r)'
<1>1. /\ conn[r].st = "idle" /\ conn[r].out = <<>>
      /\ conn'[r] = [conn[r] EXCEPT !.st = "opened", !.opened = Current]
      /\ files' = files /\ made' = made /\ reader' = reader /\ todo' = todo /\ pipe' = pipe
      /\ handled' = handled /\ notified' = notified
    BY DEF OpenLog, TypeOK, FlowOK, ItemsOK, daemon, plugin
<1>2. /\ conn'[r].st = "opened" /\ conn'[r].opened = Current /\ conn'[r].out = <<>>
      /\ conn'[r].last = conn[r].last /\ conn'[r].file = conn[r].file
      /\ conn'[r].offset = conn[r].offset
    <2>1. conn[r] \in Conn
        BY FlowIs
    <2>. QED
        BY <1>1, <2>1 DEF Conn
<1>3. OnWay(r)' = OnWay(r)
    BY <1>1, <1>2 DEF OnWay
<1>4. Readable(r)' \subseteq Readable(r)
    BY <1>1, <1>2 DEF Readable, Current
<1>5. HandledOK(r)' /\ AheadOK(r)' /\ NotifyOK(r)'
    BY <1>1, <1>3, <1>4, AheadLater, NotifyLater
<1>6. ItemsOK(r)'
    BY <1>1, <1>2, <1>3 DEF FlowOK, ItemsOK, InOrder
<1>7. LastOK(r)'
    BY <1>1, <1>2, <1>3 DEF FlowOK, LastOK
<1>8. StartOK(r)'
    BY <1>1, <1>2, <1>3 DEF FlowOK, StartOK
<1>. QED
    BY <1>5, <1>6, <1>7, <1>8 DEF FlowOK

LEMMA EndPassFlow ==
  ASSUME TypeOK, NEW r \in Readers, FlowOK(r), NEW changed \in BOOLEAN, EndPass(r, changed)
  PROVE  FlowOK(r)'
<1>1. /\ conn[r].st = "sending" /\ conn[r].out = <<>>
      /\ conn'[r] = [conn[r] EXCEPT !.st = "idle"]
      /\ files' = files /\ made' = made /\ reader' = reader /\ todo' = todo
      /\ handled' = handled /\ notified' = notified
      /\ pipe'[r] = pipe[r] \/ pipe'[r] = Append(pipe[r], Sidebar(0))
    BY DEF EndPass, TypeOK, daemon, plugin
<1>2. /\ conn'[r].st = "idle" /\ conn'[r].out = <<>>
      /\ conn'[r].last = conn[r].last /\ conn'[r].file = conn[r].file
      /\ conn'[r].offset = conn[r].offset
    <2>1. conn[r] \in Conn
        BY FlowIs
    <2>. QED
        BY <1>1, <2>1 DEF Conn
<1>3. Sidebar(0) \in Item /\ Sidebar(0).type = "sidebar" /\ Sidebar(0).id = 0
    BY DEF Sidebar, Item
<1>4. /\ Range(pipe'[r]) \subseteq Range(pipe[r]) \union {Sidebar(0)}
      /\ Range(pipe[r]) \subseteq Range(pipe'[r])
      /\ InOrder(pipe'[r])
    <2>1. CASE pipe'[r] = pipe[r]
        BY <2>1 DEF FlowOK, ItemsOK
    <2>2. CASE pipe'[r] = Append(pipe[r], Sidebar(0))
        <3>1. PICK s \in Seq(Item) : s = pipe[r] /\ InOrder(s)
            BY FlowIs DEF FlowOK, ItemsOK
        <3>2. PICK t \in Seq(Item) : t = Append(s, Sidebar(0))
            BY <1>3, AppendIs
        <3>3. /\ Len(t) = Len(s) + 1 /\ Len(s) \in Nat
              /\ \A i \in 1 .. Len(s) : t[i] = s[i]
              /\ t[Len(s) + 1] = Sidebar(0)
              /\ Range(t) = Range(s) \union {Sidebar(0)}
            BY <1>3, <3>2, AppendIs
        <3>4. InOrder(t)
            <4>1. \A i \in 1 .. Len(t) : t[i].type = "line" => i \in 1 .. Len(s) /\ t[i] = s[i]
                BY <1>3, <3>3
            <4>. QED
                BY <3>1, <4>1 DEF InOrder
        <3>. QED
            BY <2>2, <3>1, <3>2, <3>3, <3>4
    <2>. QED
        BY <1>1, <2>1, <2>2
<1>5. OnWay(r)' = OnWay(r)
    <2>1. OnWay(r)' = {p \in Range(pipe'[r]) \union Range(conn'[r].out) : p.type = "line"}
        BY DEF OnWay
    <2>. QED
        BY <1>1, <1>2, <1>3, <1>4, <2>1 DEF OnWay
<1>6. Readable(r)' \subseteq Readable(r)
    BY <1>1, <1>2 DEF Readable, Current
<1>7. /\ HandledOK(r)' /\ AheadOK(r)' /\ NotifyOK(r)'
      /\ \A p \in OnWay(r)' : p.id > 0 /\ p.no \in 1 .. made'
    BY <1>1, <1>5, <1>6, AheadLater, NotifyLater
<1>8. ItemsOK(r)'
    <2>1. Range(conn'[r].out) = {} /\ InOrder(conn'[r].out)
        BY <1>2, EmptyIs
    <2>2. InOrder(pipe[r])'
        BY <1>4 DEF InOrder
    <2>3. InOrder(conn[r].out)'
        BY <2>1 DEF InOrder
    <2>. QED
        BY <1>2, <1>7, <2>1, <2>2, <2>3 DEF ItemsOK
<1>9. LastOK(r)'
    BY <1>1, <1>2, <1>5 DEF FlowOK, LastOK
<1>10. StartOK(r)'
    <2>1. \A p \in OnWay(r) : 0 < p.id
        BY FlowIs DEF FlowOK, ItemsOK
    <2>2. 0 <= conn[r].last
        BY FlowIs
    <2>. QED
        BY <1>1, <1>2, <1>3, <1>4, <1>5, <2>1, <2>2 DEF FlowOK, StartOK
<1>. QED
    BY <1>7, <1>8, <1>9, <1>10 DEF FlowOK

LEMMA SendLineFlow ==
  ASSUME TypeOK, NEW r \in Readers, FlowOK(r), SendLine(r)
  PROVE  FlowOK(r)'
<1>1. /\ conn[r].st = "sending" /\ conn[r].out # <<>>
      /\ conn'[r] = [conn[r] EXCEPT !.out = Tail(@)]
      /\ pipe'[r] = Append(pipe[r], Head(conn[r].out))
      /\ files' = files /\ made' = made /\ reader' = reader /\ todo' = todo
      /\ handled' = handled /\ notified' = notified
    BY DEF SendLine, TypeOK, daemon, plugin
<1>2. PICK out \in Seq(Item), s \in Seq(Item) : out = conn[r].out /\ s = pipe[r]
    BY FlowIs
<1>3. /\ Len(out) \in Nat /\ Len(out) > 0 /\ Head(out) = out[1] /\ Head(out) \in Item
      /\ Tail(out) \in Seq(Item) /\ Len(Tail(out)) = Len(out) - 1
      /\ \A i \in 1 .. Len(out) - 1 : Tail(out)[i] = out[i + 1]
      /\ Range(out) = {Head(out)} \union Range(Tail(out))
    BY SMTT(60), <1>1, <1>2, HeadTailIs
<1>4. PICK h \in Item, t \in Seq(Item), u \in Seq(Item) :
         h = Head(out) /\ t = Tail(out) /\ u = Append(s, h)
    BY <1>3, AppendIs
<1>5. /\ Len(u) = Len(s) + 1 /\ Len(s) \in Nat
      /\ \A i \in 1 .. Len(s) : u[i] = s[i]
      /\ u[Len(s) + 1] = h
      /\ Range(u) = Range(s) \union {h}
    BY <1>4, AppendIs
<1>6. /\ conn'[r].st = "sending" /\ conn'[r].out = t
      /\ conn'[r].last = conn[r].last /\ conn'[r].file = conn[r].file
      /\ conn'[r].offset = conn[r].offset /\ pipe'[r] = u
    <2>1. conn[r] \in Conn
        BY FlowIs
    <2>. QED
        BY <1>1, <1>2, <1>4, <2>1 DEF Conn
<1>7. /\ InOrder(s) /\ InOrder(out)
      /\ \A q \in Range(out) : q.type = "line"
      /\ \A p \in Range(s), q \in Range(out) : p.type = "line" => p.id < q.id /\ p.no < q.no
    BY <1>2 DEF FlowOK, ItemsOK
<1>8. /\ Range(s) = {s[i] : i \in 1 .. Len(s)}
      /\ Range(t) = {t[i] : i \in 1 .. Len(t)}
    BY RangeIs
<1>9. h \in Range(out) /\ h.type = "line"
    BY <1>3, <1>4, <1>7
<1>10. OnWay(r)' = OnWay(r)
    <2>1. OnWay(r)' = {p \in Range(u) \union Range(t) : p.type = "line"}
        BY <1>6 DEF OnWay
    <2>2. OnWay(r) = {p \in Range(s) \union Range(out) : p.type = "line"}
        BY <1>2 DEF OnWay
    <2>3. Range(u) \union Range(t) = Range(s) \union Range(out)
        BY <1>3, <1>4, <1>5
    <2>. QED
        BY <2>1, <2>2, <2>3
<1>11. Readable(r)' \subseteq Readable(r)
    BY <1>1, <1>6 DEF Readable, Current
<1>12. /\ HandledOK(r)' /\ AheadOK(r)' /\ NotifyOK(r)'
       /\ \A p \in OnWay(r)' : p.id > 0 /\ p.no \in 1 .. made'
    BY <1>1, <1>10, <1>11, AheadLater, NotifyLater
<1>13. InOrder(u)
    <2>1. SUFFICES ASSUME NEW i \in 1 .. Len(u), NEW j \in 1 .. Len(u), i < j,
                          u[i].type = "line", u[j].type = "line"
                   PROVE  u[i].id < u[j].id /\ u[i].no < u[j].no
        BY DEF InOrder
    <2>2. i \in 1 .. Len(s) /\ u[i] = s[i]
        BY <1>5, <2>1
    <2>3. CASE j \in 1 .. Len(s)
        BY <1>5, <1>7, <2>1, <2>2, <2>3 DEF InOrder
    <2>4. CASE j = Len(s) + 1
        <3>1. s[i] \in Range(s)
            BY <1>8, <2>2
        <3>. QED
            BY <1>5, <1>7, <1>9, <2>1, <2>2, <2>4, <3>1
    <2>. QED
        BY <1>5, <2>1, <2>3, <2>4
<1>14. InOrder(t) /\ \A q \in Range(t) : h.id < q.id /\ h.no < q.no
    <2>1. \A i \in 1 .. Len(t) : i + 1 \in 1 .. Len(out) /\ t[i] = out[i + 1]
        BY <1>3, <1>4
    <2>2. InOrder(t)
        <3>1. SUFFICES ASSUME NEW i \in 1 .. Len(t), NEW j \in 1 .. Len(t), i < j,
                              t[i].type = "line", t[j].type = "line"
                       PROVE  t[i].id < t[j].id /\ t[i].no < t[j].no
            BY DEF InOrder
        <3>2. i + 1 < j + 1 /\ i + 1 \in 1 .. Len(out) /\ j + 1 \in 1 .. Len(out)
              /\ t[i] = out[i + 1] /\ t[j] = out[j + 1]
            BY <2>1, <3>1
        <3>. QED
            BY <1>7, <3>1, <3>2 DEF InOrder
    <2>3. ASSUME NEW i \in 1 .. Len(t) PROVE h.id < t[i].id /\ h.no < t[i].no
        <3>1. 1 \in 1 .. Len(out) /\ 1 < i + 1 /\ i + 1 \in 1 .. Len(out) /\ t[i] = out[i + 1] /\ h = out[1]
            BY <1>3, <1>4, <2>1, <2>3
        <3>2. t[i] \in Range(out)
            BY <1>3, <1>4, <1>8, <2>3
        <3>. QED
            BY <1>7, <1>9, <3>1, <3>2 DEF InOrder
    <2>. QED
        BY <1>8, <2>2, <2>3
<1>15. ItemsOK(r)'
    <2>1. InOrder(pipe[r])'
        BY <1>6, <1>13 DEF InOrder
    <2>2. InOrder(conn[r].out)'
        BY <1>6, <1>14 DEF InOrder
    <2>3. \A q \in Range(t) : q.type = "line"
        BY <1>3, <1>4, <1>7
    <2>4. \A p \in Range(u), q \in Range(t) : p.type = "line" => p.id < q.id /\ p.no < q.no
        <3>1. Range(t) \subseteq Range(out)
            BY <1>3, <1>4
        <3>. QED
            BY <1>5, <1>7, <1>14, <3>1
    <2>. QED
        BY <1>6, <1>12, <2>1, <2>2, <2>3, <2>4 DEF ItemsOK
<1>16. LastOK(r)'
    BY <1>1, <1>6, <1>10 DEF FlowOK, LastOK
<1>17. StartOK(r)'
    BY <1>1, <1>2, <1>5, <1>6, <1>9, <1>10 DEF FlowOK, StartOK
<1>. QED
    BY <1>12, <1>15, <1>16, <1>17 DEF FlowOK

LEMMA NotifyFlow ==
  ASSUME TypeOK, NEW r \in Readers, FlowOK(r), Notify(r)
  PROVE  FlowOK(r)'
<1>1. /\ todo[r] # <<>>
      /\ notified'[r] = Append(notified[r], Head(todo[r])) /\ todo'[r] = Tail(todo[r])
      /\ files' = files /\ made' = made /\ reader' = reader
      /\ handled' = handled /\ conn' = conn /\ pipe' = pipe
    BY DEF Notify, TypeOK, daemon
<1>2. PICK s \in Seq(Nat), d \in Seq(Nat) : s = todo[r] /\ d = notified[r]
    BY FlowIs
<1>3. /\ Len(s) \in Nat /\ Len(s) > 0 /\ Head(s) = s[1] /\ Head(s) \in Nat
      /\ Tail(s) \in Seq(Nat) /\ Len(Tail(s)) = Len(s) - 1
      /\ \A i \in 1 .. Len(s) - 1 : Tail(s)[i] = s[i + 1]
      /\ Range(s) = {Head(s)} \union Range(Tail(s))
    BY <1>1, <1>2, HeadTailIs
<1>4. PICK h \in Nat, t \in Seq(Nat), u \in Seq(Nat) :
         h = Head(s) /\ t = Tail(s) /\ u = Append(d, h)
    BY <1>3, AppendIs
<1>5. /\ Len(u) = Len(d) + 1 /\ Len(d) \in Nat
      /\ \A i \in 1 .. Len(d) : u[i] = d[i]
      /\ u[Len(d) + 1] = h
      /\ Range(u) = Range(d) \union {h}
    BY <1>4, AppendIs
<1>6. /\ Increasing(d) /\ Increasing(s) /\ \A n \in Range(d), m \in Range(s) : n < m
      /\ Range(d) \union Range(s) \subseteq handled[r]
    BY <1>2 DEF FlowOK, NotifyOK
<1>7. /\ Range(d) = {d[i] : i \in 1 .. Len(d)} /\ Range(t) = {t[i] : i \in 1 .. Len(t)}
      /\ Range(t) \subseteq Nat /\ Range(d) \subseteq Nat
    BY RangeIs
<1>8. Increasing(u)
    <2>1. SUFFICES ASSUME NEW i \in 1 .. Len(u), NEW j \in 1 .. Len(u), i < j PROVE u[i] < u[j]
        BY DEF Increasing
    <2>2. i \in 1 .. Len(d) /\ u[i] = d[i]
        BY SMTT(60), <1>5, <2>1
    <2>3. CASE j \in 1 .. Len(d)
        BY <1>5, <1>6, <2>1, <2>2, <2>3 DEF Increasing
    <2>4. CASE j = Len(d) + 1
        BY <1>3, <1>4, <1>5, <1>6, <1>7, <2>2, <2>4
    <2>5. j \in 1 .. Len(d) \/ j = Len(d) + 1
        BY <1>5
    <2>. QED
        BY <2>3, <2>4, <2>5
<1>9. Increasing(t) /\ \A m \in Range(t) : h < m
    <2>1. \A i \in 1 .. Len(t) : i + 1 \in 1 .. Len(s) /\ t[i] = s[i + 1]
        BY <1>3, <1>4
    <2>2. Increasing(t)
        BY <1>6, <2>1 DEF Increasing
    <2>3. ASSUME NEW i \in 1 .. Len(t) PROVE h < t[i]
        <3>1. 1 \in 1 .. Len(s) /\ 1 < i + 1 /\ i + 1 \in 1 .. Len(s) /\ t[i] = s[i + 1] /\ h = s[1]
            BY <1>3, <1>4, <2>1, <2>3
        <3>. QED
            BY <1>6, <3>1 DEF Increasing
    <2>. QED
        BY <1>7, <2>2, <2>3
<1>10. NotifyOK(r)'
    <2>1. notified'[r] = u /\ todo'[r] = t /\ handled'[r] = handled[r]
        BY <1>1, <1>2, <1>4
    <2>2. /\ \A n \in Range(u), m \in Range(t) : n < m
          /\ Range(u) \union Range(t) \subseteq handled[r]
        BY <1>3, <1>4, <1>5, <1>6, <1>9
    <2>. QED
        BY <1>8, <1>9, <2>1, <2>2 DEF NotifyOK, Increasing
<1>11. OnWay(r)' = OnWay(r) /\ Readable(r)' = Readable(r)
    BY <1>1 DEF OnWay, Readable, Current
<1>12. HandledOK(r)' /\ AheadOK(r)'
    BY <1>1, <1>11, AheadLater
<1>13. ItemsOK(r)' /\ LastOK(r)' /\ StartOK(r)'
    BY <1>1, <1>11 DEF FlowOK, ItemsOK, LastOK, StartOK, InOrder
<1>. QED
    BY <1>10, <1>12, <1>13 DEF FlowOK

LEMMA LinesAfterAre ==
  ASSUME TypeOK, NEW r \in Readers, conn[r].st = "opened"
  PROVE  LET c == conn[r]
             size == Len(files[c.opened].lines)
             count == Cardinality(LinesAfter(c))
         IN  /\ c.opened \in 1 .. Current /\ StartOf(c) \in Nat /\ size \in Nat /\ count \in Nat
             /\ LinesAfter(c) \subseteq 1 .. size /\ StartOf(c) + count <= size
             /\ files[c.opened].split => LinesAfter(c) = {}
             /\ ~files[c.opened].split => StartOf(c) + count = size
             /\ \A i \in 1 .. StartOf(c) + count :
                    i \in LinesAfter(c) \/ (c.file = c.opened /\ i \in 1 .. c.offset)
<1>1. PICK c \in Conn : c = conn[r]
    BY FlowIs
<1>2. PICK g \in 1 .. Current : g = c.opened
    BY <1>1 DEF TypeOK, CursorOK
<1>3. PICK size \in Nat : size = Len(files[g].lines)
    BY <1>2, LinesAre
<1>4. c.offset \in Nat /\ (c.file = g => c.offset <= size)
    <2>1. g # 0
        BY <1>2
    <2>. QED
        BY <1>1, <1>3, <2>1, FlowIs DEF CursorOK
<1>5. PICK start \in Nat : start = StartOf(c) /\ start <= size /\ (start = 0 \/ (c.file = g /\ start = c.offset))
    BY <1>2, <1>3, <1>4 DEF StartOf
<1>6. CASE files[g].split
    <2>1. LinesAfter(c) = {}
        BY <1>2, <1>6 DEF LinesAfter
    <2>2. Cardinality(LinesAfter(c)) = 0
        BY <2>1, FS_EmptySet
    <2>3. \A i \in 1 .. start : c.file = g /\ i \in 1 .. c.offset
        BY <1>5
    <2>4. start + 0 = start
        OBVIOUS
    <2>. QED
        BY <1>1, <1>2, <1>3, <1>5, <1>6, <2>1, <2>2, <2>3, <2>4
<1>7. CASE ~files[g].split
    <2>1. LinesAfter(c) = start + 1 .. size
        BY <1>2, <1>3, <1>5, <1>7 DEF LinesAfter
    <2>2. Cardinality(start + 1 .. size) = size - start
        <3>1. Cardinality(start + 1 .. size) = IF start + 1 > size THEN 0 ELSE size - (start + 1) + 1
            BY FS_Interval
        <3>. QED
            BY <1>5, <3>1
    <2>3. start + (size - start) = size /\ size - start \in Nat
        BY <1>5
    <2>4. start + 1 .. size \subseteq 1 .. size
        OBVIOUS
    <2>5. \A i \in 1 .. size : i \in start + 1 .. size \/ (c.file = g /\ i \in 1 .. c.offset)
        BY <1>5
    <2>6. PICK count \in Nat : count = Cardinality(LinesAfter(c)) /\ start + count = size
        BY <2>1, <2>2, <2>3
    <2>7. /\ LinesAfter(c) \subseteq 1 .. size /\ start + count <= size
          /\ \A i \in 1 .. start + count : i \in LinesAfter(c) \/ (c.file = g /\ i \in 1 .. c.offset)
        BY <2>1, <2>4, <2>5, <2>6
    <2>. QED
        BY ZenonT(60), <1>1, <1>2, <1>3, <1>5, <1>7, <2>6, <2>7
<1>. QED
    BY <1>6, <1>7

\* A read: the lines after the cursor that are newer than what was sent, in
\* their order.
ItemOf(line) == [type |-> "line", no |-> line.no, id |-> line.id]
Reads(r, g, lines, new, out, last) ==
    /\ conn[r].st = "opened" /\ conn[r].out = <<>> /\ g = conn[r].opened /\ lines = files[g].lines
    /\ new = {i \in LinesAfter(conn[r]) : lines[i].id > conn[r].last}
    /\ Range(out) = {ItemOf(lines[i]) : i \in new}
    /\ \A j, k \in 1 .. Len(out) : j < k =>
           \E a, b \in new : a < b /\ out[j] = ItemOf(lines[a]) /\ out[k] = ItemOf(lines[b])
    /\ last = conn[r].last \/ \E i \in new : last = lines[i].id
    /\ conn[r].last <= last /\ \A i \in new : lines[i].id <= last
    /\ conn'[r] = [st |-> "sending", last |-> last, file |-> g,
                   offset |-> StartOf(conn[r]) + Cardinality(LinesAfter(conn[r])), opened |-> 0,
                   out |-> out]
    /\ \A q \in Readers \ {r} : conn'[q] = conn[q]
    /\ files' = files /\ made' = made /\ reader' = reader /\ todo' = todo /\ pipe' = pipe
    /\ handled' = handled /\ notified' = notified

LEMMA ReadLogIs ==
  ASSUME TypeOK, NEW r \in Readers, FlowOK(r), ReadLog(r)
  PROVE  \E g \in 1 .. Current, lines \in Seq(Line), out \in Seq(Item), last \in Nat :
             \E new \in SUBSET (1 .. Len(lines)) : Reads(r, g, lines, new, out, last)
<1>1. PICK c \in Conn : c = conn[r] /\ c.st = "opened" /\ c.out = <<>>
    BY FlowIs DEF ReadLog, FlowOK, ItemsOK
<1>2. PICK g \in 1 .. Current : g = c.opened
    BY <1>1 DEF TypeOK, CursorOK
<1>3. PICK lines \in Seq(Line) : lines = files[g].lines
    BY FilesAre
<1>4. LinesAfter(c) \subseteq 1 .. Len(lines)
    BY <1>1, <1>2, <1>3, LinesAfterAre
<1>5. PICK new \in SUBSET (1 .. Len(lines)) : new = {i \in LinesAfter(c) : lines[i].id > c.last}
    BY <1>4
<1>6. PICK chosen \in Seq(Line) : chosen = Only(lines, new) /\ Selects(chosen, lines, new)
    BY OnlyIs
<1>7. PICK n \in Nat : n = Len(chosen)
    BY ElementsOf
<1>8. /\ \A i \in new : \E k \in 1 .. n : chosen[k] = lines[i]
      /\ \A k \in 1 .. n : \E i \in new : chosen[k] = lines[i]
      /\ \A j, k \in 1 .. n : j < k =>
             \E a, b \in new : a < b /\ chosen[j] = lines[a] /\ chosen[k] = lines[b]
    BY <1>6, <1>7 DEF Selects
<1>9. PICK out \in Seq(Item) :
         out = Items(chosen) /\ Len(out) = n /\ \A k \in 1 .. n : out[k] = ItemOf(chosen[k])
    <2>1. Items(chosen) = [i \in 1 .. n |-> ItemOf(chosen[i])]
        BY <1>7 DEF Items, ItemOf
    <2>2. \A i \in 1 .. n : chosen[i] \in Line
        BY <1>7, ElementsOf
    <2>3. \A i \in 1 .. n : ItemOf(chosen[i]) \in Item
        BY <2>2 DEF Line, Item, ItemOf
    <2>4. Items(chosen) \in Seq(Item) /\ Len(Items(chosen)) = n
        BY <2>1, <2>3
    <2>5. \A k \in 1 .. n : Items(chosen)[k] = ItemOf(chosen[k])
        BY <2>1
    <2>. QED
        BY <2>4, <2>5
<1>10. PICK last : last = Max({c.last} \union {lines[i].id : i \in new})
    OBVIOUS
<1>11. /\ last \in Nat /\ c.last <= last /\ \A i \in new : lines[i].id <= last
       /\ last = c.last \/ \E i \in new : last = lines[i].id
    <2>. DEFINE f == [i \in 1 .. Len(lines) |-> lines[i].id]
                S == {c.last} \union {f[i] : i \in new}
    <2>1. \A i \in 1 .. Len(lines) : lines[i] \in Line
        BY ElementsOf
    <2>2. f \in [1 .. Len(lines) -> Nat] /\ c.last \in Nat
        BY <2>1 DEF Line, Conn
    <2>3. last = Max(S)
        BY <1>5, <1>10
    <2>4. Max(S) \in S /\ \A x \in S : x <= Max(S)
        <3>1. Len(lines) \in Nat
            BY ElementsOf
        <3>. HIDE DEF f
        <3>. QED
            BY <2>2, <3>1, MaxOfImage
    <2>5. S \subseteq Nat /\ c.last \in S /\ \A i \in new : lines[i].id \in S
        BY <2>2
    <2>6. \A x \in S : x = c.last \/ \E i \in new : x = lines[i].id
        OBVIOUS
    <2>. HIDE DEF S
    <2>. QED
        BY <2>2, <2>3, <2>4, <2>5, <2>6
<1>12. conn'[r] = [st |-> "sending", last |-> last, file |-> g,
                   offset |-> StartOf(c) + Cardinality(LinesAfter(c)), opened |-> 0, out |-> out]
       /\ \A q \in Readers \ {r} : conn'[q] = conn[q]
    <2>1. new = {i \in LinesAfter(conn[r]) : files[conn[r].opened].lines[i].id > conn[r].last}
        BY <1>1, <1>2, <1>3, <1>5
    <2>2. conn' = [conn EXCEPT ![r] = [st |-> "sending",
              last |-> Max({conn[r].last} \union {files[conn[r].opened].lines[i].id : i \in new}),
              file |-> conn[r].opened,
              offset |-> StartOf(conn[r]) + Cardinality(LinesAfter(conn[r])),
              opened |-> 0,
              out |-> Items(Only(files[conn[r].opened].lines, new))]]
        BY <2>1 DEF ReadLog
    <2>3. conn \in [Readers -> Conn]
        BY DEF TypeOK
    <2>4. conn'[r] = [st |-> "sending",
              last |-> Max({c.last} \union {lines[i].id : i \in new}), file |-> g,
              offset |-> StartOf(c) + Cardinality(LinesAfter(c)), opened |-> 0,
              out |-> Items(Only(lines, new))]
        BY <1>1, <1>2, <1>3, <2>2, <2>3
    <2>5. \A q \in Readers \ {r} : conn'[q] = conn[q]
        BY <2>2, <2>3
    <2>. QED
        BY <1>6, <1>9, <1>10, <2>4, <2>5
<1>13. Range(out) = {ItemOf(lines[i]) : i \in new}
    <2>1. \A q \in Range(out) : \E k \in 1 .. n : q = out[k]
        BY <1>9, RangeIs
    <2>2. \A k \in 1 .. n : out[k] \in Range(out)
        <3>1. Range(out) = {out[k] : k \in 1 .. Len(out)}
            BY RangeIs
        <3>. QED
            BY <1>9, <3>1
    <2>3. ASSUME NEW q \in Range(out) PROVE \E i \in new : q = ItemOf(lines[i])
        <3>1. PICK k \in 1 .. n : q = out[k]
            BY <2>1
        <3>2. PICK i \in new : chosen[k] = lines[i]
            BY <1>8
        <3>. QED
            BY <1>9, <3>1, <3>2
    <2>4. ASSUME NEW i \in new PROVE ItemOf(lines[i]) \in Range(out)
        <3>1. PICK k \in 1 .. n : chosen[k] = lines[i]
            BY <1>8
        <3>. QED
            BY <1>9, <2>2, <3>1
    <2>. QED
        BY <2>3, <2>4
<1>14. ASSUME NEW j \in 1 .. Len(out), NEW k \in 1 .. Len(out), j < k
       PROVE  \E a, b \in new : a < b /\ out[j] = ItemOf(lines[a]) /\ out[k] = ItemOf(lines[b])
    <2>1. j \in 1 .. n /\ k \in 1 .. n
        BY <1>9, <1>14
    <2>2. PICK a \in new, b \in new : a < b /\ chosen[j] = lines[a] /\ chosen[k] = lines[b]
        BY <1>8, <1>14, <2>1
    <2>. QED
        BY <1>9, <2>1, <2>2
<1>15. /\ files' = files /\ made' = made /\ reader' = reader /\ todo' = todo /\ pipe' = pipe
       /\ handled' = handled /\ notified' = notified
    BY DEF ReadLog, daemon, plugin
<1>16. Reads(r, g, lines, new, out, last)
    BY <1>1, <1>2, <1>3, <1>5, <1>11, <1>12, <1>13, <1>14, <1>15 DEF Reads
<1>. QED
    BY <1>11, <1>16

\* The lines that a read finds: they come after what is on the way and what the
\* reader has.
Finds(r, g, lines, new, out) ==
    /\ \A i \in new :
           /\ ~files[g].split /\ lines[i] \in LinesIn(files[g]) /\ lines[i] \in Line
           /\ lines[i].id \in Nat /\ lines[i].no \in Nat
           /\ lines[i].id > conn[r].last /\ lines[i].id > 0 /\ lines[i].no \in 1 .. made
    /\ \A q \in Range(out) : \E i \in new : q.type = "line" /\ q.no = lines[i].no /\ q.id = lines[i].id
    /\ \A i \in new : \E q \in Range(out) : q.no = lines[i].no
    /\ OnWay(r) = {x \in Range(pipe[r]) : x.type = "line"} /\ OnWay(r)' = OnWay(r) \union Range(out)
    /\ g \in Readable(r) /\ Readable(r)' \subseteq Readable(r) /\ Readable(r)' = {Current}
    /\ \A x \in OnWay(r), i \in new : x.id < lines[i].id /\ x.no < lines[i].no
    /\ \A i \in new : /\ reader[r] # Unknown => reader[r] < lines[i].id
                      /\ \A h \in handled[r] : h < lines[i].no

LEMMA ReadLogNew ==
  ASSUME TypeOK, LogInv, NEW r \in Readers, FlowOK(r), NEW g \in 1 .. Current,
         NEW lines \in Seq(Line), NEW out \in Seq(Item), NEW last \in Nat,
         NEW new \in SUBSET (1 .. Len(lines)), Reads(r, g, lines, new, out, last)
  PROVE  Finds(r, g, lines, new, out)
<1>3. PICK c \in Conn : c = conn[r] /\ c.st = "opened" /\ c.out = <<>> /\ g = c.opened
                         /\ lines = files[g].lines
    BY FlowIs DEF Reads
<1>4. /\ StartOf(c) \in Nat /\ Cardinality(LinesAfter(c)) \in Nat
      /\ LinesAfter(c) \subseteq 1 .. Len(lines)
      /\ StartOf(c) + Cardinality(LinesAfter(c)) <= Len(lines)
      /\ files[g].split => LinesAfter(c) = {}
      /\ \A i \in 1 .. StartOf(c) + Cardinality(LinesAfter(c)) :
             i \in LinesAfter(c) \/ (c.file = g /\ i \in 1 .. c.offset)
    BY <1>3, LinesAfterAre
<1>5. new = {i \in LinesAfter(c) : lines[i].id > c.last}
    BY <1>3 DEF Reads
<1>10. last \in Nat /\ c.last \in Nat /\ c.last <= last /\ \A i \in new : lines[i].id <= last
    BY <1>3 DEF Reads, Conn
<1>11. /\ conn'[r].st = "sending" /\ conn'[r].last = last /\ conn'[r].file = g
       /\ conn'[r].offset = StartOf(c) + Cardinality(LinesAfter(c)) /\ conn'[r].out = out
       /\ files' = files /\ made' = made /\ reader' = reader /\ todo' = todo /\ pipe' = pipe
       /\ handled' = handled /\ notified' = notified
    <2>1. conn'[r] = [st |-> "sending", last |-> last, file |-> g,
                      offset |-> StartOf(c) + Cardinality(LinesAfter(c)), opened |-> 0, out |-> out]
        BY <1>3 DEF Reads
    <2>2. /\ files' = files /\ made' = made /\ reader' = reader /\ todo' = todo /\ pipe' = pipe
          /\ handled' = handled /\ notified' = notified
        BY DEF Reads
    <2>. QED
        BY <2>1, <2>2
\* The lines that the read finds.
<1>12. ASSUME NEW i \in new
       PROVE  /\ ~files[g].split /\ lines[i] \in LinesIn(files[g]) /\ lines[i] \in Line
              /\ lines[i].id \in Nat /\ lines[i].no \in Nat
              /\ lines[i].id > c.last /\ lines[i].id > 0 /\ lines[i].no \in 1 .. made
    <2>1. i \in LinesAfter(c) /\ lines[i].id > c.last /\ i \in 1 .. Len(lines)
        BY <1>5, <1>12
    <2>2. lines[i] \in LinesIn(files[g]) /\ lines[i] \in Line
        BY <1>3, <1>4, <2>1, LinesAre
    <2>3. lines[i].id \in Nat /\ lines[i].no \in Nat
        BY <2>2 DEF Line
    <2>4. lines[i] # Unreadable
        BY <1>10, <2>1 DEF Unreadable
    <2>5. lines[i].id > 0 /\ lines[i].no \in 1 .. made
        BY <2>2, <2>4 DEF LogInv, LinesOK
    <2>. QED
        BY <1>4, <2>1, <2>2, <2>3, <2>5
<1>13. \A q \in Range(out) : \E i \in new : q.type = "line" /\ q.no = lines[i].no /\ q.id = lines[i].id
    <2>1. Range(out) = {ItemOf(lines[i]) : i \in new}
        BY DEF Reads
    <2>2. TAKE q \in Range(out)
    <2>3. PICK i \in new : q = ItemOf(lines[i])
        BY <2>1
    <2>. QED
        BY <2>3 DEF ItemOf
<1>14. OnWay(r) = {x \in Range(pipe[r]) : x.type = "line"} /\ OnWay(r)' = OnWay(r) \union Range(out)
    <2>1. OnWay(r)' = {x \in Range(pipe[r]) \union Range(out) : x.type = "line"}
        BY <1>11 DEF OnWay
    <2>2. OnWay(r) = {x \in Range(pipe[r]) : x.type = "line"}
        BY <1>3, EmptyIs DEF OnWay
    <2>. QED
        BY <1>13, <2>1, <2>2
<1>15. g \in Readable(r) /\ Readable(r)' \subseteq Readable(r) /\ Readable(r)' = {Current}
    <2>1. Readable(r) = g .. Current
        BY <1>3 DEF Readable
    <2>2. Readable(r)' = Current .. Current
        BY <1>11 DEF Readable, Current
    <2>3. Current \in Nat
        BY FilesAre
    <2>. QED
        BY <1>3, <2>1, <2>2, <2>3
\* The new items come after what is on the way and what the reader has.
<1>16. ASSUME NEW x \in OnWay(r), NEW i \in new
       PROVE  x.id < lines[i].id /\ x.no < lines[i].no
    <2>1. x.id <= c.last /\ x.id \in Nat
        BY <1>3, <1>16, FlowIs DEF FlowOK, LastOK
    <2>2. x.id < lines[i].id
        BY <1>10, <1>12, <1>16, <2>1
    <2>. QED
        BY <1>12, <1>15, <1>16, <2>2 DEF FlowOK, AheadOK
<1>17. ASSUME NEW i \in new
       PROVE  /\ reader[r] # Unknown => reader[r] < lines[i].id
              /\ \A h \in handled[r] : h < lines[i].no
    <2>1. reader[r] # Unknown => reader[r] \in Nat /\ reader[r] <= c.last
        BY <1>3, FlowIs DEF FlowOK, LastOK
    <2>2. reader[r] # Unknown => reader[r] < lines[i].id
        BY <1>10, <1>12, <1>17, <2>1
    <2>3. \A h \in handled[r] : reader[r] # Unknown
        BY DEF FlowOK, StartOK
    <2>. QED
        BY <1>12, <1>15, <1>17, <2>2, <2>3 DEF FlowOK, AheadOK
<1>18. \A i \in new : \E q \in Range(out) : q.no = lines[i].no
    <2>1. Range(out) = {ItemOf(lines[i]) : i \in new}
        BY DEF Reads
    <2>2. TAKE i \in new
    <2>3. ItemOf(lines[i]) \in Range(out) /\ ItemOf(lines[i]).no = lines[i].no
        BY <2>1 DEF ItemOf
    <2>. QED
        BY <2>3
<1>. QED
    BY <1>3, <1>12, <1>13, <1>14, <1>15, <1>16, <1>17, <1>18 DEF Finds

LEMMA ReadLogFlow ==
  ASSUME TypeOK, LogInv, NEW r \in Readers, FlowOK(r), ReadLog(r)
  PROVE  FlowOK(r)'
<1>1. PICK g \in 1 .. Current, lines \in Seq(Line), out \in Seq(Item), last \in Nat :
         \E new \in SUBSET (1 .. Len(lines)) : Reads(r, g, lines, new, out, last)
    BY ReadLogIs
<1>2. PICK new \in SUBSET (1 .. Len(lines)) : Reads(r, g, lines, new, out, last)
    BY <1>1
<1>3. PICK c \in Conn : c = conn[r] /\ c.st = "opened" /\ c.out = <<>> /\ g = c.opened
                         /\ lines = files[g].lines
    BY <1>2, FlowIs DEF Reads
<1>4. /\ StartOf(c) \in Nat /\ Cardinality(LinesAfter(c)) \in Nat
      /\ LinesAfter(c) \subseteq 1 .. Len(lines)
      /\ StartOf(c) + Cardinality(LinesAfter(c)) <= Len(lines)
      /\ files[g].split => LinesAfter(c) = {}
      /\ \A i \in 1 .. StartOf(c) + Cardinality(LinesAfter(c)) :
             i \in LinesAfter(c) \/ (c.file = g /\ i \in 1 .. c.offset)
    BY <1>3, LinesAfterAre
<1>5. new = {i \in LinesAfter(c) : lines[i].id > c.last}
    BY <1>2, <1>3 DEF Reads
<1>10. last \in Nat /\ c.last \in Nat /\ c.last <= last /\ \A i \in new : lines[i].id <= last
    BY <1>2, <1>3 DEF Reads, Conn
<1>11. /\ conn'[r].st = "sending" /\ conn'[r].last = last /\ conn'[r].file = g
       /\ conn'[r].offset = StartOf(c) + Cardinality(LinesAfter(c)) /\ conn'[r].out = out
       /\ files' = files /\ made' = made /\ reader' = reader /\ todo' = todo /\ pipe' = pipe
       /\ handled' = handled /\ notified' = notified
    <2>1. conn'[r] = [st |-> "sending", last |-> last, file |-> g,
                      offset |-> StartOf(c) + Cardinality(LinesAfter(c)), opened |-> 0, out |-> out]
        BY <1>2, <1>3 DEF Reads
    <2>2. /\ files' = files /\ made' = made /\ reader' = reader /\ todo' = todo /\ pipe' = pipe
          /\ handled' = handled /\ notified' = notified
        BY <1>2 DEF Reads
    <2>. QED
        BY <2>1, <2>2
\* The lines that the read finds.
<1>12. Finds(r, g, lines, new, out)
    BY <1>2, ReadLogNew
<1>13. ASSUME NEW i \in new
       PROVE  /\ ~files[g].split /\ lines[i] \in LinesIn(files[g]) /\ lines[i] \in Line
              /\ lines[i].id \in Nat /\ lines[i].no \in Nat
              /\ lines[i].id > c.last /\ lines[i].id > 0 /\ lines[i].no \in 1 .. made
    BY <1>3, <1>12 DEF Finds
<1>14. \A q \in Range(out) : \E i \in new : q.type = "line" /\ q.no = lines[i].no /\ q.id = lines[i].id
    BY <1>12 DEF Finds
<1>15. OnWay(r) = {x \in Range(pipe[r]) : x.type = "line"} /\ OnWay(r)' = OnWay(r) \union Range(out)
    BY <1>12 DEF Finds
<1>16. g \in Readable(r) /\ Readable(r)' \subseteq Readable(r) /\ Readable(r)' = {Current}
    BY <1>12 DEF Finds
<1>17. \A x \in OnWay(r), i \in new : x.id < lines[i].id /\ x.no < lines[i].no
    BY <1>12 DEF Finds
<1>18. \A i \in new : /\ reader[r] # Unknown => reader[r] < lines[i].id
                      /\ \A h \in handled[r] : h < lines[i].no
    BY <1>12 DEF Finds
<1>19. ItemsOK(r)'
    <2>1. InOrder(out)
        <3>1. SUFFICES ASSUME NEW j \in 1 .. Len(out), NEW k \in 1 .. Len(out), j < k
                       PROVE  out[j].id < out[k].id /\ out[j].no < out[k].no
            BY DEF InOrder
        <3>2. PICK a \in new, b \in new :
                 a < b /\ out[j] = ItemOf(lines[a]) /\ out[k] = ItemOf(lines[b])
            BY ZenonT(60), <1>2, <3>1 DEF Reads
        <3>3. lines[a].id < lines[b].id
            <4>1. lines[a].id # 0 /\ lines[b].id # 0 /\ ~files[g].split
                BY <1>13
            <4>. QED
                BY <1>3, <3>2, <4>1 DEF LogInv, FileOrder
        <3>4. lines[a].no < lines[b].no
            <4>1. g <= g /\ ~files[g].split /\ lines[a] \in LinesIn(files[g]) /\ lines[b] \in LinesIn(files[g])
                BY <1>13
            <4>. QED
                BY <3>3, <4>1 DEF LogInv, PairOrder
        <3>. QED
            BY <3>2, <3>3, <3>4 DEF ItemOf
    <2>2. InOrder(conn[r].out)'
        BY <1>11, <2>1 DEF InOrder
    <2>3. InOrder(pipe[r])'
        BY <1>11 DEF InOrder, FlowOK, ItemsOK
    <2>4. \A x \in OnWay(r)' : x.id > 0 /\ x.no \in 1 .. made'
        <3>1. \A x \in OnWay(r) : x.id > 0 /\ x.no \in 1 .. made
            BY DEF FlowOK, ItemsOK
        <3>2. \A x \in Range(out) : x.id > 0 /\ x.no \in 1 .. made
            BY <1>13, <1>14
        <3>. QED
            BY <1>11, <1>15, <3>1, <3>2
    <2>5. \A x \in Range(pipe[r]), q \in Range(out) : x.type = "line" => x.id < q.id /\ x.no < q.no
        BY <1>14, <1>15, <1>17
    <2>6. \A q \in Range(out) : q.type = "line"
        BY <1>14
    <2>. QED
        BY <1>11, <2>2, <2>3, <2>4, <2>5, <2>6 DEF ItemsOK
<1>20. LastOK(r)'
    <2>1. \A x \in OnWay(r)' : x.id <= last
        <3>1. \A x \in OnWay(r) : x.id <= c.last /\ x.id \in Nat
            BY <1>3, FlowIs DEF FlowOK, LastOK
        <3>2. \A x \in OnWay(r) : x.id <= last
            BY <1>10, <3>1
        <3>3. \A x \in Range(out) : x.id <= last
            BY <1>10, <1>14
        <3>. QED
            BY <1>15, <3>2, <3>3
    <2>2. reader[r] # Unknown => reader[r] <= last
        <3>1. reader[r] # Unknown => reader[r] \in Nat /\ reader[r] <= c.last
            BY <1>3, FlowIs DEF FlowOK, LastOK
        <3>. QED
            BY <1>10, <3>1
    <2>3. ASSUME NEW i \in 1 .. StartOf(c) + Cardinality(LinesAfter(c))
          PROVE  lines[i].id <= last
        <3>1. i \in 1 .. Len(lines)
            BY <1>4, <2>3, ElementsOf
        <3>2. lines[i].id \in Nat
            <4>1. lines[i] \in Line
                BY <3>1, ElementsOf
            <4>. QED
                BY <4>1 DEF Line
        <3>3. CASE i \in LinesAfter(c)
            <4>1. i \in new \/ ~(lines[i].id > c.last)
                BY <1>5, <3>3
            <4>2. ~(lines[i].id > c.last) => lines[i].id <= last
                BY <1>10, <3>2
            <4>. QED
                BY <1>10, <4>1, <4>2
        <3>4. CASE c.file = g /\ i \in 1 .. c.offset
            <4>1. lines[i].id <= c.last
                BY <1>3, <3>4 DEF FlowOK, LastOK
            <4>. QED
                BY <1>10, <3>2, <4>1
        <3>. QED
            BY <1>4, <2>3, <3>3, <3>4
    <2>. QED
        BY <1>3, <1>11, <2>1, <2>2, <2>3 DEF LastOK
<1>21. StartOK(r)'
    <2>1. SUFFICES ASSUME reader[r] = Unknown, NEW s \in Range(pipe[r]), s.type = "sidebar"
                   PROVE  /\ handled[r] = {}
                          /\ \A x \in OnWay(r)' : s.id < x.id
                          /\ s.id <= last
        <3>1. reader[r] = Unknown => handled[r] = {}
            BY DEF FlowOK, StartOK
        <3>. QED
            BY <1>11, <2>1, <3>1 DEF StartOK
    <2>2. handled[r] = {} /\ (\A x \in OnWay(r) : s.id < x.id) /\ s.id <= c.last
        BY <1>3, <2>1 DEF FlowOK, StartOK
    <2>3. s.id \in Nat
        BY <2>1, FlowIs
    <2>4. s.id <= last /\ \A i \in new : s.id < lines[i].id
        BY <1>10, <1>13, <2>2, <2>3
    <2>5. \A x \in Range(out) : s.id < x.id
        BY <1>14, <2>4
    <2>. QED
        BY <1>15, <2>2, <2>4, <2>5
<1>22. HandledOK(r)'
    <2>1. /\ reader[r] # Unknown => \A x \in OnWay(r) : reader[r] < x.id
          /\ \A h \in handled[r] : h \in 1 .. made /\ \A x \in OnWay(r) : h < x.no
        BY DEF FlowOK, HandledOK
    <2>2. /\ reader[r] # Unknown => \A x \in Range(out) : reader[r] < x.id
          /\ \A h \in handled[r] : \A x \in Range(out) : h < x.no
        BY <1>14, <1>18
    <2>. QED
        BY <1>11, <1>15, <2>1, <2>2 DEF HandledOK
<1>23. AheadOK(r)'
    <2>1. SUFFICES ASSUME ~files[Current].split, NEW x \in LinesIn(files[Current])
                   PROVE  /\ \A y \in OnWay(r)' : y.id < x.id => y.no < x.no
                          /\ \A h \in handled[r] : reader[r] < x.id => h < x.no
        BY <1>11, <1>16 DEF AheadOK, LinesIn
    <2>2. /\ \A y \in OnWay(r) : y.id < x.id => y.no < x.no
          /\ \A h \in handled[r] : reader[r] < x.id => h < x.no
        BY <1>16, <2>1 DEF FlowOK, AheadOK
    <2>3. \A i \in new : lines[i].id < x.id => lines[i].no < x.no
        <3>1. Current \in 1 .. Current /\ g <= Current
            BY FilesAre
        <3>. QED
            BY <1>13, <2>1, <3>1 DEF LogInv, PairOrder
    <2>4. \A y \in Range(out) : y.id < x.id => y.no < x.no
        BY <1>14, <2>3
    <2>. QED
        BY <1>15, <2>2, <2>4
<1>24. NotifyOK(r)'
    BY <1>11, NotifyLater
<1>. QED
    BY <1>19, <1>20, <1>21, <1>22, <1>23, <1>24 DEF FlowOK

LEMMA SplitIs ==
  ASSUME NEW T, NEW s \in Seq(T), NEW count \in 1 .. Len(s)
  PROVE  LET batch == SubSeq(s, 1, count)
             rest == SubSeq(s, count + 1, Len(s))
         IN  /\ batch \in Seq(T) /\ Len(batch) = count
             /\ \A i \in 1 .. count : batch[i] = s[i]
             /\ rest \in Seq(T) /\ Len(rest) = Len(s) - count
             /\ \A i \in 1 .. Len(s) - count : rest[i] = s[count + i]
<1>1. Len(s) \in Nat /\ count \in Nat /\ count <= Len(s)
    OBVIOUS
<1>2. SubSeq(s, 1, count) \in Seq(T) /\ Len(SubSeq(s, 1, count)) = count
    BY <1>1
<1>3. \A i \in 1 .. count : SubSeq(s, 1, count)[i] = s[i]
    BY <1>1
<1>4. SubSeq(s, count + 1, Len(s)) \in Seq(T) /\ Len(SubSeq(s, count + 1, Len(s))) = Len(s) - count
    BY <1>1
<1>5. \A i \in 1 .. Len(s) - count : SubSeq(s, count + 1, Len(s))[i] = s[count + i]
    BY <1>1
<1>. QED
    BY <1>2, <1>3, <1>4, <1>5

\* The id at which a reader with no `reader` file starts.
LEMMA StartIdIs ==
  ASSUME TypeOK, NEW r \in Readers, NEW batch \in Seq(Item)
  PROVE  \/ StartId(r, batch) = reader[r]
         \/ /\ reader[r] = Unknown
            /\ \E i \in 1 .. Len(batch) : batch[i].type = "sidebar" /\ StartId(r, batch) = batch[i].id
<1>1. PICK at \in SUBSET (1 .. Len(batch)) : at = PositionsOf("sidebar", batch)
    BY DEF PositionsOf
<1>2. CASE reader[r] = Unknown /\ at # {}
    <2>1. Len(batch) \in Nat /\ at \in SUBSET (0 .. Len(batch))
        BY ElementsOf
    <2>2. Max(at) \in at
        BY <1>2, <2>1, MaxUpTo
    <2>3. StartId(r, batch) = batch[Max(at)].id
        BY <1>1, <1>2 DEF StartId
    <2>4. Max(at) \in 1 .. Len(batch) /\ batch[Max(at)].type = "sidebar"
        BY <1>1, <2>2 DEF PositionsOf
    <2>. QED
        BY <1>2, <2>3, <2>4
<1>3. CASE ~(reader[r] = Unknown /\ at # {})
    BY <1>1, <1>3 DEF StartId
<1>. QED
    BY <1>2, <1>3

LEMMA ReaderAfterIs ==
  ASSUME TypeOK, NEW r \in Readers, NEW batch \in Seq(Item), NEW at, at = PositionsOf("line", batch),
         NEW start \in Nat \union {Unknown}, start = StartId(r, batch)
  PROVE  /\ at = {} => ReaderAfter(r, batch) = start
         /\ at # {} => /\ ReaderAfter(r, batch) \in Nat
                       /\ \A i \in at : batch[i].id <= ReaderAfter(r, batch)
                       /\ \/ ReaderAfter(r, batch) = start
                          \/ ReaderAfter(r, batch) = 0
                          \/ \E i \in at : ReaderAfter(r, batch) = batch[i].id
<1>1. at \in SUBSET (1 .. Len(batch)) /\ Len(batch) \in Nat
    BY ElementsOf DEF PositionsOf
<1>2. \A i \in 1 .. Len(batch) : batch[i].id \in Nat
    <2>1. \A i \in 1 .. Len(batch) : batch[i] \in Item
        BY ElementsOf
    <2>. QED
        BY <2>1 DEF Item
<1>3. CASE at = {}
    BY <1>3 DEF ReaderAfter
<1>4. CASE at # {}
    <2>1. PICK one \in at : TRUE
        BY <1>4
    <2>. DEFINE f == [i \in 1 .. Len(batch) |-> batch[i].id]
                S == {f[one]} \union {f[i] : i \in at}
    <2>2. f \in [1 .. Len(batch) -> Nat] /\ f[one] \in Nat
        BY <1>1, <1>2, <2>1
    <2>3. Max(S) \in S /\ \A x \in S : x <= Max(S)
        <3>. HIDE DEF f
        <3>. QED
            BY <1>1, <2>2, MaxOfImage
    <2>4. S = {batch[i].id : i \in at}
        BY <1>1, <2>1
    <2>5. PICK max \in Nat : max = Max({batch[i].id : i \in at}) /\ (\E i \in at : max = batch[i].id)
                             /\ \A i \in at : batch[i].id <= max
        <3>1. S \subseteq Nat
            BY <1>1, <1>2, <2>4
        <3>2. Max(S) \in Nat /\ (\E i \in at : Max(S) = batch[i].id) /\ \A i \in at : batch[i].id <= Max(S)
            <4>. HIDE DEF f
            <4>1. \A i \in at : batch[i].id \in S
                BY <2>4
            <4>2. \A x \in S : \E i \in at : x = batch[i].id
                BY <2>4
            <4>. HIDE DEF S
            <4>. QED
                BY <2>3, <3>1, <4>1, <4>2
        <3>. HIDE DEF S
        <3>. QED
            BY <2>4, <3>2
    <2>6. PICK low \in Nat : low = IF start = Unknown THEN 0 ELSE start
        OBVIOUS
    <2>7. ReaderAfter(r, batch) = Larger(max, low)
        BY <1>4, <2>5, <2>6 DEF ReaderAfter
    <2>8. /\ Larger(max, low) \in Nat /\ Larger(max, low) >= max
          /\ Larger(max, low) = max \/ Larger(max, low) = low
        BY DEF Larger
    <2>9. \A i \in at : batch[i].id <= Larger(max, low)
        <3>1. TAKE i \in at
        <3>2. batch[i].id \in Nat /\ batch[i].id <= max
            BY <1>1, <1>2, <2>5
        <3>. QED
            BY <2>8, <3>2
    <2>. QED
        BY <1>4, <2>5, <2>6, <2>7, <2>8, <2>9
<1>. QED
    BY <1>3, <1>4

\* A batch is the front of what is on the way: the reader has its lines, and
\* the largest of their ids.
Takes(r, s, count, rest, numbers) ==
    /\ s = pipe[r] /\ count \in 1 .. Len(s) /\ Len(s) \in Nat
    /\ pipe'[r] = rest /\ Len(rest) = Len(s) - count
    /\ \A i \in 1 .. Len(s) - count : rest[i] = s[count + i]
    /\ todo[r] = <<>> /\ todo'[r] = numbers /\ Increasing(numbers)
    /\ Range(numbers) = {s[i].no : i \in {j \in 1 .. count : s[j].type = "line"}}
    /\ handled'[r] = handled[r] \union Range(numbers)
    /\ files' = files /\ made' = made /\ conn' = conn /\ notified' = notified
    /\ (\A i \in 1 .. count : s[i].type # "line") =>
           \/ reader'[r] = reader[r]
           \/ reader[r] = Unknown
              /\ \E i \in 1 .. count : s[i].type = "sidebar" /\ reader'[r] = s[i].id
    /\ (\E i \in 1 .. count : s[i].type = "line") =>
           \E i \in 1 .. count :
               /\ s[i].type = "line" /\ reader'[r] = s[i].id
               /\ \A j \in 1 .. count : s[j].type = "line" => s[j].id <= s[i].id

LEMMA HandleIs ==
  ASSUME TypeOK, NEW r \in Readers, FlowOK(r), Handle(r)
  PROVE  \E s \in Seq(Item), count \in Nat, rest \in Seq(Item), numbers \in Seq(Nat) :
             Takes(r, s, count, rest, numbers)
<1>1. PICK s \in Seq(Item) : s = pipe[r]
    BY FlowIs
<1>2. PICK count \in 1 .. Len(pipe[r]) :
         LET batch == SubSeq(pipe[r], 1, count)
             lines == Only(batch, PositionsOf("line", batch))
             numbers == [i \in 1 .. Len(lines) |-> lines[i].no]
         IN  /\ todo[r] = <<>>
             /\ pipe' = [pipe EXCEPT ![r] = SubSeq(@, count + 1, Len(@))]
             /\ reader' = [reader EXCEPT ![r] = ReaderAfter(r, batch)]
             /\ todo' = [todo EXCEPT ![r] = numbers]
             /\ handled' = [handled EXCEPT ![r] = @ \union Range(numbers)]
    BY DEF Handle
<1>3. PICK batch \in Seq(Item), rest \in Seq(Item) :
         /\ batch = SubSeq(s, 1, count) /\ Len(batch) = count
         /\ \A i \in 1 .. count : batch[i] = s[i]
         /\ rest = SubSeq(s, count + 1, Len(s)) /\ Len(rest) = Len(s) - count
         /\ \A i \in 1 .. Len(s) - count : rest[i] = s[count + i]
    <2>1. count \in 1 .. Len(s)
        BY <1>1
    <2>2. /\ SubSeq(s, 1, count) \in Seq(Item) /\ Len(SubSeq(s, 1, count)) = count
          /\ \A i \in 1 .. count : SubSeq(s, 1, count)[i] = s[i]
          /\ SubSeq(s, count + 1, Len(s)) \in Seq(Item)
          /\ Len(SubSeq(s, count + 1, Len(s))) = Len(s) - count
          /\ \A i \in 1 .. Len(s) - count : SubSeq(s, count + 1, Len(s))[i] = s[count + i]
        BY <2>1, SplitIs
    <2>. QED
        BY <2>2
<1>4. Len(s) \in Nat /\ count \in Nat /\ \A i \in 1 .. Len(s) : s[i] \in Item /\ s[i] \in Range(s)
    <2>1. Range(s) = {s[i] : i \in 1 .. Len(s)}
        BY RangeIs
    <2>. QED
        BY <2>1, ElementsOf
<1>5. PICK at \in SUBSET (1 .. Len(batch)) : at = PositionsOf("line", batch)
    BY DEF PositionsOf
<1>6. at = {j \in 1 .. count : s[j].type = "line"} /\ \A i \in at : i \in 1 .. count /\ batch[i] = s[i]
    BY <1>3, <1>5 DEF PositionsOf
<1>0. PICK lines \in Seq(Item) :
         lines = Only(batch, at) /\ Selects(lines, batch, at)
    BY OnlyIs
<1>7. PICK n \in Nat : n = Len(lines) /\ lines = Only(batch, at)
    BY <1>0, ElementsOf
<1>8. /\ \A i \in at : \E k \in 1 .. n : lines[k] = batch[i]
      /\ \A k \in 1 .. n : \E i \in at : lines[k] = batch[i]
      /\ \A j, k \in 1 .. n : j < k =>
             \E a, b \in at : a < b /\ lines[j] = batch[a] /\ lines[k] = batch[b]
    BY <1>0, <1>7 DEF Selects
<1>9. PICK numbers : numbers = [i \in 1 .. n |-> lines[i].no]
    OBVIOUS
<1>10. /\ todo[r] = <<>> /\ pipe'[r] = rest /\ reader'[r] = ReaderAfter(r, batch)
       /\ todo'[r] = numbers /\ handled'[r] = handled[r] \union Range(numbers)
    <2>1. /\ pipe \in [Readers -> Seq(Item)] /\ reader \in [Readers -> Nat \union {Unknown}]
          /\ todo \in [Readers -> Seq(Nat)] /\ handled \in [Readers -> SUBSET Nat]
        BY DEF TypeOK
    <2>2. batch = SubSeq(pipe[r], 1, count) /\ rest = SubSeq(pipe[r], count + 1, Len(pipe[r]))
        BY <1>1, <1>3
    <2>3. numbers = [i \in 1 .. Len(lines) |-> lines[i].no]
        BY <1>7, <1>9
    <2>4. numbers = [i \in 1 .. Len(Only(batch, at)) |-> Only(batch, at)[i].no]
        BY <1>7, <2>3
    <2>. QED
        BY <1>2, <1>5, <2>1, <2>2, <2>4
<1>11. \A k \in 1 .. n : numbers[k] = lines[k].no
    BY <1>9
<1>12. numbers \in Seq(Nat) /\ Len(numbers) = n
    <2>1. \A k \in 1 .. n : lines[k].no \in Nat
        <3>1. \A k \in 1 .. n : lines[k] \in Item
            BY <1>7, ElementsOf
        <3>. QED
            BY <3>1 DEF Item
    <2>2. numbers \in [1 .. n -> Nat]
        BY <1>9, <2>1
    <2>. QED
        BY <2>2, FunctionIsSeq
<1>13. Range(numbers) = {s[i].no : i \in at}
    <2>1. Range(numbers) = {numbers[k] : k \in 1 .. Len(numbers)}
        BY <1>12, RangeIs
    <2>2. Range(numbers) = {numbers[k] : k \in 1 .. n}
        BY <1>12, <2>1
    <2>3. ASSUME NEW k \in 1 .. n PROVE numbers[k] \in {s[i].no : i \in at}
        <3>1. PICK i \in at : lines[k] = batch[i]
            BY <1>8
        <3>. QED
            BY <1>6, <1>11, <3>1
    <2>4. ASSUME NEW i \in at PROVE \E k \in 1 .. n : numbers[k] = s[i].no
        <3>1. PICK k \in 1 .. n : lines[k] = batch[i]
            BY <1>8
        <3>. QED
            BY <1>6, <1>11, <3>1
    <2>. QED
        BY <2>2, <2>3, <2>4
<1>14. Increasing(numbers)
    <2>1. SUFFICES ASSUME NEW j \in 1 .. n, NEW k \in 1 .. n, j < k
                   PROVE  numbers[j] < numbers[k]
        BY <1>12 DEF Increasing
    <2>2. PICK a \in at, b \in at : a < b /\ lines[j] = s[a] /\ lines[k] = s[b]
        <3>1. PICK a \in at, b \in at : a < b /\ lines[j] = batch[a] /\ lines[k] = batch[b]
            BY <1>8, <2>1
        <3>. QED
            BY <1>6, <3>1
    <2>3. a \in 1 .. Len(s) /\ b \in 1 .. Len(s) /\ s[a].type = "line" /\ s[b].type = "line"
        BY <1>3, <1>4, <1>6, <2>2
    <2>4. s[a].no < s[b].no
        BY <1>1, <2>2, <2>3 DEF FlowOK, ItemsOK, InOrder
    <2>. QED
        BY <1>11, <2>2, <2>4
<1>15. PICK start : start = StartId(r, batch)
    OBVIOUS
<1>16. \/ start = reader[r]
       \/ reader[r] = Unknown
          /\ \E i \in 1 .. count : s[i].type = "sidebar" /\ start = s[i].id
    <2>1. \/ StartId(r, batch) = reader[r]
          \/ /\ reader[r] = Unknown
             /\ \E i \in 1 .. Len(batch) : batch[i].type = "sidebar" /\ StartId(r, batch) = batch[i].id
        BY StartIdIs
    <2>2. \A i \in 1 .. Len(batch) : i \in 1 .. count /\ batch[i] = s[i]
        BY <1>3
    <2>. QED
        BY <1>15, <2>1, <2>2
<1>17. start \in Nat \union {Unknown}
    <2>0. \A i \in 1 .. count : i \in 1 .. Len(s)
        <3>1. count \in 1 .. Len(s)
            BY <1>1
        <3>. QED
            BY <1>4, <3>1
    <2>1. \A i \in 1 .. count : s[i].id \in Nat
        <3>1. \A i \in 1 .. count : s[i] \in Item
            BY <1>1, <1>4, <2>0
        <3>. QED
            BY <3>1 DEF Item
    <2>2. reader[r] \in Nat \union {Unknown}
        BY FlowIs
    <2>. QED
        BY <1>16, <2>1, <2>2
<1>18. /\ at = {} => ReaderAfter(r, batch) = start
       /\ at # {} => /\ ReaderAfter(r, batch) \in Nat
                     /\ \A i \in at : batch[i].id <= ReaderAfter(r, batch)
                     /\ \/ ReaderAfter(r, batch) = start
                        \/ ReaderAfter(r, batch) = 0
                        \/ \E i \in at : ReaderAfter(r, batch) = batch[i].id
    BY <1>5, <1>15, <1>17, ReaderAfterIs
<1>19. ASSUME \A i \in 1 .. count : s[i].type # "line"
       PROVE  \/ reader'[r] = reader[r]
              \/ reader[r] = Unknown
                 /\ \E i \in 1 .. count : s[i].type = "sidebar" /\ reader'[r] = s[i].id
    <2>1. at = {}
        BY <1>6, <1>19
    <2>. QED
        BY <1>10, <1>16, <1>18, <2>1
<1>20. ASSUME \E i \in 1 .. count : s[i].type = "line"
       PROVE  \E i \in 1 .. count :
                  /\ s[i].type = "line" /\ reader'[r] = s[i].id
                  /\ \A j \in 1 .. count : s[j].type = "line" => s[j].id <= s[i].id
    <2>1. at # {}
        BY <1>6, <1>20
    <2>2. PICK after \in Nat : after = ReaderAfter(r, batch)
        BY <1>18, <2>1
    <2>3. \A i \in at : s[i] \in OnWay(r) /\ s[i].id \in Nat /\ s[i].id > 0 /\ s[i].id <= after
        <3>1. TAKE i \in at
        <3>2. s[i] \in OnWay(r)
            BY <1>1, <1>4, <1>6 DEF OnWay
        <3>3. s[i].id \in Nat /\ s[i].id > 0
            BY <3>2, FlowIs DEF FlowOK, ItemsOK
        <3>. QED
            BY <1>6, <1>18, <2>1, <2>2, <3>2, <3>3
    <2>4. after # start
        <3>1. PICK i \in at : TRUE
            BY <2>1
        <3>2. SUFFICES ASSUME start \in Nat PROVE start < s[i].id
            BY <1>17, <2>2, <2>3, <3>1
        <3>3. CASE start = reader[r] /\ reader[r] # Unknown
            BY <2>3, <3>1, <3>3 DEF FlowOK, HandledOK
        <3>4. CASE start = reader[r] /\ reader[r] = Unknown
            BY <3>2, <3>4
        <3>5. CASE reader[r] = Unknown /\ \E k \in 1 .. count : s[k].type = "sidebar" /\ start = s[k].id
            <4>1. PICK k \in 1 .. count : s[k].type = "sidebar" /\ start = s[k].id
                BY <3>5
            <4>2. s[k] \in Range(pipe[r])
                BY <1>1, <1>4, <4>1
            <4>. QED
                BY <2>3, <3>1, <3>5, <4>1, <4>2 DEF FlowOK, StartOK
        <3>. QED
            BY <1>16, <3>3, <3>4, <3>5
    <2>5. after # 0
        <3>1. PICK i \in at : TRUE
            BY <2>1
        <3>. QED
            BY <2>2, <2>3, <3>1
    <2>6. PICK i \in at : after = s[i].id
        BY <1>6, <1>18, <2>1, <2>2, <2>4, <2>5
    <2>7. \A j \in 1 .. count : s[j].type = "line" => s[j].id <= s[i].id
        BY <1>6, <2>3, <2>6
    <2>. QED
        BY <1>6, <1>10, <2>2, <2>6, <2>7
<1>21. s \in Seq(Item) /\ count \in Nat /\ rest \in Seq(Item) /\ numbers \in Seq(Nat)
    BY <1>4, <1>12
<1>22. /\ s = pipe[r] /\ count \in 1 .. Len(s) /\ Len(s) \in Nat
       /\ pipe'[r] = rest /\ Len(rest) = Len(s) - count
       /\ \A i \in 1 .. Len(s) - count : rest[i] = s[count + i]
    BY <1>1, <1>3, <1>4, <1>10
<1>23. /\ todo[r] = <<>> /\ todo'[r] = numbers /\ Increasing(numbers)
       /\ Range(numbers) = {s[i].no : i \in {j \in 1 .. count : s[j].type = "line"}}
       /\ handled'[r] = handled[r] \union Range(numbers)
    BY <1>6, <1>10, <1>13, <1>14
<1>24. files' = files /\ made' = made /\ conn' = conn /\ notified' = notified
    BY DEF Handle, daemon
<1>. USE <1>21
<1>. WITNESS s \in Seq(Item), count \in Nat, rest \in Seq(Item), numbers \in Seq(Nat)
<1>. QED
    BY <1>19, <1>20, <1>22, <1>23, <1>24 DEF Takes

\* What a reader takes was on the way, before all that it leaves there.
Leaves(r, s, count) ==
    /\ \A i \in 1 .. count : s[i].type = "line" =>
           /\ s[i] \in OnWay(r) /\ s[i].id \in Nat /\ s[i].no \in Nat
           /\ \A p \in OnWay(r)' : s[i].id < p.id /\ s[i].no < p.no
    /\ OnWay(r)' \subseteq OnWay(r)
    /\ \A p \in OnWay(r) : p \in OnWay(r)' \/ \E i \in 1 .. count : s[i].type = "line" /\ p = s[i]

LEMMA TakesFirst ==
  ASSUME TypeOK, NEW r \in Readers, FlowOK(r), NEW s \in Seq(Item), NEW count \in Nat,
         NEW rest \in Seq(Item), NEW numbers \in Seq(Nat), Takes(r, s, count, rest, numbers)
  PROVE  Leaves(r, s, count)
<1>1. /\ s = pipe[r] /\ count \in 1 .. Len(s) /\ Len(s) \in Nat
      /\ pipe'[r] = rest /\ Len(rest) = Len(s) - count
      /\ \A i \in 1 .. Len(s) - count : rest[i] = s[count + i]
      /\ todo[r] = <<>> /\ todo'[r] = numbers /\ Increasing(numbers)
      /\ Range(numbers) = {s[i].no : i \in {j \in 1 .. count : s[j].type = "line"}}
      /\ handled'[r] = handled[r] \union Range(numbers)
      /\ files' = files /\ made' = made /\ conn' = conn /\ notified' = notified
    BY DEF Takes
<1>2. PICK taken : taken = {j \in 1 .. count : s[j].type = "line"}
    OBVIOUS
<1>3. /\ \A i \in 1 .. count : i \in 1 .. Len(s)
      /\ \A i \in 1 .. Len(s) : s[i] \in Range(s) /\ s[i] \in Item
    <2>1. Range(s) = {s[i] : i \in 1 .. Len(s)}
        BY RangeIs
    <2>. QED
        BY <1>1, <2>1, ElementsOf
<1>4. ASSUME NEW i \in taken
      PROVE  /\ i \in 1 .. count /\ i \in 1 .. Len(s) /\ s[i].type = "line" /\ s[i] \in OnWay(r)
             /\ s[i].id \in Nat /\ s[i].no \in Nat
    <2>1. i \in 1 .. count /\ i \in 1 .. Len(s) /\ s[i].type = "line"
        BY <1>2, <1>3, <1>4
    <2>2. s[i] \in OnWay(r)
        BY <1>1, <1>3, <2>1 DEF OnWay
    <2>. QED
        BY <2>1, <2>2, FlowIs
<1>5. \A n \in Range(numbers) : \E i \in taken : n = s[i].no
    BY <1>1, <1>2
<1>6. \A i \in 1 .. Len(rest) : count + i \in 1 .. Len(s) /\ count < count + i /\ rest[i] = s[count + i]
    BY <1>1
<1>7. Range(rest) = {rest[i] : i \in 1 .. Len(rest)}
    BY RangeIs
<1>8. Range(rest) \subseteq Range(pipe[r])
    <2>1. Range(rest) \subseteq Range(s)
        <3>1. SUFFICES ASSUME NEW i \in 1 .. Len(rest) PROVE rest[i] \in Range(s)
            BY <1>7
        <3>. QED
            BY <1>3, <1>6
    <2>. QED
        BY <1>1, <2>1
<1>9. OnWay(r)' = {p \in Range(rest) \union Range(conn[r].out) : p.type = "line"} /\ OnWay(r)' \subseteq OnWay(r)
    <2>1. OnWay(r)' = {p \in Range(rest) \union Range(conn[r].out) : p.type = "line"}
        BY <1>1 DEF OnWay
    <2>. QED
        BY <1>8, <2>1 DEF OnWay
\* What is taken comes before what is left on the way.
<1>10. ASSUME NEW i \in taken, NEW p \in OnWay(r)'
       PROVE  s[i].id < p.id /\ s[i].no < p.no
    <2>1. CASE p \in Range(rest)
        <3>1. PICK k \in 1 .. Len(rest) : p = rest[k]
            BY <1>7, <2>1
        <3>2. count + k \in 1 .. Len(s) /\ p = s[count + k] /\ p.type = "line"
            BY <1>6, <1>9, <1>10, <3>1
        <3>3. i < count + k
            BY <1>1, <1>4, <1>10, <3>1
        <3>. QED
            BY <1>1, <1>4, <1>10, <3>2, <3>3 DEF FlowOK, ItemsOK, InOrder
    <2>2. CASE p \in Range(conn[r].out)
        <3>1. s[i] \in Range(pipe[r]) /\ s[i].type = "line"
            BY <1>1, <1>3, <1>4, <1>10
        <3>. QED
            BY <2>2, <3>1 DEF FlowOK, ItemsOK
    <2>. QED
        BY <1>9, <1>10, <2>1, <2>2
<1>11. ASSUME NEW p \in OnWay(r)
       PROVE  p \in OnWay(r)' \/ \E i \in 1 .. count : s[i].type = "line" /\ p = s[i]
    <2>1. p.type = "line" /\ (p \in Range(s) \/ p \in Range(conn[r].out))
        BY <1>1, <1>11 DEF OnWay
    <2>2. CASE p \in Range(conn[r].out)
        BY <1>9, <2>1, <2>2
    <2>3. CASE p \in Range(s)
        <3>1. Range(s) = {s[i] : i \in 1 .. Len(s)}
            BY RangeIs
        <3>2. PICK i \in 1 .. Len(s) : p = s[i]
            BY <2>3, <3>1
        <3>3. CASE i <= count
            BY <2>1, <3>2, <3>3
        <3>4. CASE ~(i <= count)
            <4>1. i - count \in 1 .. Len(rest) /\ i - count \in 1 .. Len(s) - count /\ count + (i - count) = i
                BY <1>1, <3>4
            <4>2. rest[i - count] = p
                BY <1>1, <3>2, <4>1
            <4>. QED
                BY <1>7, <1>9, <2>1, <4>1, <4>2
        <3>. QED
            BY <3>3, <3>4
    <2>. QED
        BY <2>1, <2>2, <2>3
<1>12. ASSUME NEW i \in 1 .. count, s[i].type = "line"
       PROVE  /\ s[i] \in OnWay(r) /\ s[i].id \in Nat /\ s[i].no \in Nat
              /\ \A p \in OnWay(r)' : s[i].id < p.id /\ s[i].no < p.no
    <2>1. i \in taken
        BY <1>2, <1>12
    <2>. QED
        BY <1>4, <1>10, <2>1
<1>. QED
    BY <1>9, <1>11, <1>12 DEF Leaves

LEMMA HandleFlow ==
  ASSUME TypeOK, NEW r \in Readers, FlowOK(r), Handle(r)
  PROVE  FlowOK(r)'
<1>0. PICK s \in Seq(Item), count \in Nat, rest \in Seq(Item), numbers \in Seq(Nat) :
         Takes(r, s, count, rest, numbers)
    BY HandleIs
<1>1. /\ s = pipe[r] /\ count \in 1 .. Len(s) /\ Len(s) \in Nat
      /\ pipe'[r] = rest /\ Len(rest) = Len(s) - count
      /\ \A i \in 1 .. Len(s) - count : rest[i] = s[count + i]
      /\ todo[r] = <<>> /\ todo'[r] = numbers /\ Increasing(numbers)
      /\ Range(numbers) = {s[i].no : i \in {j \in 1 .. count : s[j].type = "line"}}
      /\ handled'[r] = handled[r] \union Range(numbers)
      /\ files' = files /\ made' = made /\ conn' = conn /\ notified' = notified
    BY <1>0 DEF Takes
<1>2. PICK taken : taken = {j \in 1 .. count : s[j].type = "line"}
    OBVIOUS
<1>3. /\ \A i \in 1 .. count : i \in 1 .. Len(s)
      /\ \A i \in 1 .. Len(s) : s[i] \in Range(s) /\ s[i] \in Item
    <2>1. Range(s) = {s[i] : i \in 1 .. Len(s)}
        BY RangeIs
    <2>. QED
        BY <1>1, <2>1, ElementsOf
<1>4. ASSUME NEW i \in taken
      PROVE  /\ i \in 1 .. count /\ i \in 1 .. Len(s) /\ s[i].type = "line" /\ s[i] \in OnWay(r)
             /\ s[i].id \in Nat /\ s[i].no \in Nat
    <2>1. i \in 1 .. count /\ i \in 1 .. Len(s) /\ s[i].type = "line"
        BY <1>2, <1>3, <1>4
    <2>2. Leaves(r, s, count)
        BY <1>0, TakesFirst
    <2>. QED
        BY <2>1, <2>2 DEF Leaves
<1>5. \A n \in Range(numbers) : \E i \in taken : n = s[i].no
    BY <1>1, <1>2
<1>6. \A i \in 1 .. Len(rest) : count + i \in 1 .. Len(s) /\ count < count + i /\ rest[i] = s[count + i]
    BY <1>1
<1>7. Range(rest) = {rest[i] : i \in 1 .. Len(rest)}
    BY RangeIs
<1>8. Range(rest) \subseteq Range(pipe[r])
    <2>1. Range(rest) \subseteq Range(s)
        <3>1. SUFFICES ASSUME NEW i \in 1 .. Len(rest) PROVE rest[i] \in Range(s)
            BY <1>7
        <3>. QED
            BY <1>3, <1>6
    <2>. QED
        BY <1>1, <2>1
<1>9. OnWay(r)' = {p \in Range(rest) \union Range(conn[r].out) : p.type = "line"} /\ OnWay(r)' \subseteq OnWay(r)
    <2>1. OnWay(r)' = {p \in Range(rest) \union Range(conn[r].out) : p.type = "line"}
        BY <1>1 DEF OnWay
    <2>. QED
        BY <1>8, <2>1 DEF OnWay
\* What is taken comes before what is left on the way.
<1>10. ASSUME NEW i \in taken, NEW p \in OnWay(r)'
       PROVE  s[i].id < p.id /\ s[i].no < p.no
    <2>1. i \in 1 .. count /\ s[i].type = "line"
        BY <1>4, <1>10
    <2>2. Leaves(r, s, count)
        BY <1>0, TakesFirst
    <2>. QED
        BY <1>10, <2>1, <2>2 DEF Leaves
<1>11. Readable(r)' = Readable(r)
    BY <1>1 DEF Readable, Current
\* The new id of the reader.
<1>12. /\ reader'[r] \in Nat \union {Unknown}
       /\ reader'[r] # Unknown => \A p \in OnWay(r)' : reader'[r] < p.id
       /\ conn[r].st # "closed" /\ reader'[r] # Unknown => reader'[r] <= conn[r].last
       /\ \A j \in taken : reader'[r] # Unknown /\ s[j].id <= reader'[r]
       /\ reader[r] # Unknown => reader'[r] # Unknown /\ reader[r] <= reader'[r]
    <2>1. CASE taken # {}
        <3>1. PICK i \in taken : reader'[r] = s[i].id /\ \A j \in taken : s[j].id <= s[i].id
            <4>1. \E j \in 1 .. count : s[j].type = "line"
                BY <1>2, <2>1
            <4>2. \E i \in 1 .. count :
                      /\ s[i].type = "line" /\ reader'[r] = s[i].id
                      /\ \A j \in 1 .. count : s[j].type = "line" => s[j].id <= s[i].id
                BY <1>0, <4>1 DEF Takes
            <4>. QED
                BY <1>2, <4>2
        <3>2. reader'[r] \in Nat /\ reader'[r] # Unknown
            BY <1>4, <3>1
        <3>3. \A p \in OnWay(r)' : reader'[r] < p.id
            BY <1>10, <3>1
        <3>4. conn[r].st # "closed" => reader'[r] <= conn[r].last
            BY <1>4, <3>1 DEF FlowOK, LastOK
        <3>5. \A j \in taken : s[j].id <= reader'[r]
            BY <3>1
        <3>6. reader[r] # Unknown => reader[r] \in Nat /\ reader[r] < reader'[r]
            BY <1>4, <3>1, FlowIs DEF FlowOK, HandledOK
        <3>7. reader[r] # Unknown => reader[r] <= reader'[r]
            BY <3>2, <3>6
        <3>. QED
            BY <3>2, <3>3, <3>4, <3>5, <3>7
    <2>2. CASE taken = {}
        <3>1. \/ reader'[r] = reader[r]
              \/ reader[r] = Unknown /\ \E i \in 1 .. count : s[i].type = "sidebar" /\ reader'[r] = s[i].id
            <4>1. \A i \in 1 .. count : s[i].type # "line"
                BY <1>2, <2>2
            <4>. QED
                BY <1>0, <4>1 DEF Takes
        <3>2. CASE reader'[r] = reader[r]
            <4>1. reader'[r] # Unknown => \A p \in OnWay(r)' : reader'[r] < p.id
                BY <1>9, <3>2 DEF FlowOK, HandledOK
            <4>2. conn[r].st # "closed" /\ reader'[r] # Unknown => reader'[r] <= conn[r].last
                BY <3>2 DEF FlowOK, LastOK
            <4>3. reader[r] \in Nat \union {Unknown}
                BY FlowIs
            <4>4. reader[r] # Unknown => reader[r] <= reader'[r]
                BY <3>2, <4>3
            <4>. QED
                BY <2>2, <3>2, <4>1, <4>2, <4>3, <4>4
        <3>3. CASE reader[r] = Unknown /\ \E i \in 1 .. count : s[i].type = "sidebar" /\ reader'[r] = s[i].id
            <4>1. PICK i \in 1 .. count : s[i].type = "sidebar" /\ reader'[r] = s[i].id
                BY <3>3
            <4>2. s[i] \in Range(pipe[r]) /\ s[i].id \in Nat
                BY <1>1, <1>3, FlowIs
            <4>3. \A p \in OnWay(r)' : reader'[r] < p.id
                BY <1>9, <3>3, <4>1, <4>2 DEF FlowOK, StartOK
            <4>4. conn[r].st # "closed" => reader'[r] <= conn[r].last
                BY <3>3, <4>1, <4>2 DEF FlowOK, StartOK
            <4>. QED
                BY <2>2, <3>3, <4>1, <4>2, <4>3, <4>4
        <3>. QED
            BY <3>1, <3>2, <3>3
    <2>. QED
        BY <2>1, <2>2
<1>13. ItemsOK(r)'
    <2>1. InOrder(rest)
        <3>1. SUFFICES ASSUME NEW j \in 1 .. Len(rest), NEW k \in 1 .. Len(rest), j < k,
                              rest[j].type = "line", rest[k].type = "line"
                       PROVE  rest[j].id < rest[k].id /\ rest[j].no < rest[k].no
            BY DEF InOrder
        <3>2. /\ count + j \in 1 .. Len(s) /\ count + k \in 1 .. Len(s) /\ count + j < count + k
              /\ rest[j] = s[count + j] /\ rest[k] = s[count + k]
            <4>1. j \in Nat /\ k \in Nat /\ count + j < count + k
                BY <3>1
            <4>. QED
                BY <1>6, <3>1, <4>1
        <3>. QED
            BY <1>1, <3>1, <3>2 DEF FlowOK, ItemsOK, InOrder
    <2>2. InOrder(pipe[r])'
        BY <1>1, <2>1 DEF InOrder
    <2>3. InOrder(conn[r].out)'
        <3>1. InOrder(conn[r].out)
            BY DEF FlowOK, ItemsOK
        <3>. QED
            BY <1>1, <3>1 DEF InOrder
    <2>4. \A p \in OnWay(r)' : p.id > 0 /\ p.no \in 1 .. made'
        BY <1>1, <1>9 DEF FlowOK, ItemsOK
    <2>5. \A p \in Range(rest), q \in Range(conn[r].out) : p.type = "line" => p.id < q.id /\ p.no < q.no
        BY <1>8 DEF FlowOK, ItemsOK
    <2>6. /\ conn[r].st # "sending" => conn[r].out = <<>>
          /\ \A q \in Range(conn[r].out) : q.type = "line"
        BY DEF FlowOK, ItemsOK
    <2>. QED
        BY <1>1, <2>2, <2>3, <2>4, <2>5, <2>6 DEF ItemsOK
<1>14. LastOK(r)'
    <2>1. conn[r].st # "closed" => \A p \in OnWay(r)' : p.id <= conn[r].last
        BY <1>9 DEF FlowOK, LastOK
    <2>2. conn[r].st # "closed" /\ conn[r].file # 0 =>
              \A i \in 1 .. conn[r].offset : files[conn[r].file].lines[i].id <= conn[r].last
        BY DEF FlowOK, LastOK
    <2>. QED
        BY <1>1, <1>12, <2>1, <2>2 DEF LastOK
<1>15. StartOK(r)'
    <2>1. SUFFICES ASSUME reader'[r] = Unknown, NEW x \in Range(rest), x.type = "sidebar"
                   PROVE  /\ \A p \in OnWay(r)' : x.id < p.id
                          /\ conn[r].st # "closed" => x.id <= conn[r].last
        <3>1. reader'[r] = Unknown => handled'[r] = {}
            <4>1. reader'[r] = Unknown => reader[r] = Unknown /\ taken = {}
                BY <1>12
            <4>2. taken = {} => Range(numbers) = {}
                BY <1>5
            <4>. QED
                BY <1>1, <4>1, <4>2 DEF FlowOK, StartOK
        <3>. QED
            BY <1>1, <3>1 DEF StartOK
    <2>2. reader[r] = Unknown
        BY <1>12, <2>1
    <2>. QED
        BY <1>8, <1>9, <2>1, <2>2 DEF FlowOK, StartOK
<1>16. HandledOK(r)'
    <2>1. \A h \in handled[r] : h \in 1 .. made /\ \A p \in OnWay(r)' : h < p.no
        BY <1>9 DEF FlowOK, HandledOK
    <2>2. \A h \in Range(numbers) : h \in 1 .. made /\ \A p \in OnWay(r)' : h < p.no
        <3>1. \A i \in taken : s[i].no \in 1 .. made
            BY <1>4 DEF FlowOK, ItemsOK
        <3>. QED
            BY <1>5, <1>10, <3>1
    <2>. QED
        BY <1>1, <1>12, <2>1, <2>2 DEF HandledOK
<1>17. AheadOK(r)'
    <2>1. SUFFICES ASSUME NEW g \in Readable(r), ~files[g].split, NEW x \in LinesIn(files[g])
                   PROVE  /\ \A p \in OnWay(r)' : p.id < x.id => p.no < x.no
                          /\ \A h \in handled'[r] : reader'[r] < x.id => h < x.no
        BY <1>1, <1>11 DEF AheadOK, LinesIn
    <2>2. \A p \in OnWay(r) : p.id < x.id => p.no < x.no
        BY <2>1 DEF FlowOK, AheadOK
    <2>3. x.id \in Nat
        <3>1. g \in 1 .. Current
            <4>1. Readable(r) = (IF conn[r].st = "opened" THEN conn[r].opened ELSE Current) .. Current
                BY DEF Readable
            <4>2. conn[r].st = "opened" => conn[r].opened \in 1 .. Current
                BY FlowIs DEF CursorOK
            <4>3. Current \in Nat /\ Current >= 1
                BY FilesAre
            <4>. QED
                BY <2>1, <4>1, <4>2, <4>3
        <3>2. x \in Line
            BY <2>1, <3>1, LinesAre
        <3>. QED
            BY <3>2 DEF Line
    <2>4. ASSUME reader'[r] < x.id, NEW h \in handled[r] PROVE h < x.no
        <3>1. reader[r] # Unknown
            BY <2>4 DEF FlowOK, StartOK
        <3>2. reader[r] \in Nat /\ reader'[r] \in Nat /\ reader[r] <= reader'[r]
            BY <1>12, <3>1, FlowIs
        <3>3. reader[r] < x.id
            BY <2>3, <2>4, <3>2
        <3>. QED
            BY <2>1, <2>4, <3>3 DEF FlowOK, AheadOK
    <2>5. ASSUME reader'[r] < x.id, NEW i \in taken PROVE s[i].no < x.no
        <3>1. reader'[r] \in Nat /\ s[i].id <= reader'[r] /\ s[i].id \in Nat
            BY <1>4, <1>12, <2>5
        <3>2. s[i].id < x.id /\ s[i] \in OnWay(r)
            BY <1>4, <2>3, <2>5, <3>1
        <3>. QED
            BY <2>2, <3>2
    <2>6. ASSUME reader'[r] < x.id, NEW h \in Range(numbers) PROVE h < x.no
        BY <1>5, <2>5, <2>6
    <2>. QED
        BY <1>1, <1>9, <2>2, <2>4, <2>6
<1>18. NotifyOK(r)'
    <2>1. \A n \in Range(notified[r]) : n \in handled[r]
        BY DEF FlowOK, NotifyOK
    <2>2. \A n \in Range(notified[r]), t \in Range(numbers) : n < t
        <3>1. \A n \in handled[r], i \in taken : n < s[i].no
            BY <1>4 DEF FlowOK, HandledOK
        <3>. QED
            BY <1>5, <2>1, <3>1
    <2>3. Increasing(notified[r])
        BY DEF FlowOK, NotifyOK
    <2>4. Range(notified[r]) \union Range(numbers) \subseteq handled'[r]
        BY <1>1, <2>1
    <2>5. Increasing(notified[r])' /\ Increasing(todo[r])'
        BY <1>1, <2>3 DEF Increasing
    <2>. QED
        BY <1>1, <2>2, <2>4, <2>5 DEF NotifyOK
<1>. QED
    BY <1>13, <1>14, <1>15, <1>16, <1>17, <1>18 DEF FlowOK

LEMMA FlowKeeps ==
  ASSUME TypeOK, LogInv, FlowInv, [Next]_vars
  PROVE  FlowInv'
<1>1. Grown
    BY LogKeeps
<1>2. SUFFICES ASSUME NEW r \in Readers PROVE FlowOK(r)'
    BY DEF FlowInv
<1>3. FlowOK(r)
    BY DEF FlowInv
<1>4. /\ conn \in [Readers -> Conn] /\ pipe \in [Readers -> Seq(Item)]
      /\ reader \in [Readers -> Nat \union {Unknown}] /\ todo \in [Readers -> Seq(Nat)]
      /\ handled \in [Readers -> SUBSET Nat] /\ notified \in [Readers -> Seq(Nat)]
    BY DEF TypeOK
\* A step that leaves the reader alone, or ends what comes to it.
<1>5. ASSUME conn'[r] \in {conn[r], Closed}, pipe'[r] \in {pipe[r], <<>>},
             todo'[r] \in {todo[r], <<>>},
             reader'[r] = reader[r], handled'[r] = handled[r], notified'[r] = notified[r]
      PROVE  FlowOK(r)'
    BY <1>1, <1>3, <1>5, FlowLater
<1>6. ASSUME UNCHANGED <<conn, pipe, plugin>> PROVE FlowOK(r)'
    BY <1>5, <1>6 DEF plugin
<1>7. ASSUME NEW count \in 1 .. MaxBatch, EventLog(count) PROVE FlowOK(r)'
    BY <1>6, <1>7 DEF EventLog, Write
<1>8. ASSUME NEW count \in 1 .. MaxBatch, NEW whole \in 0 .. MaxBatch, NEW piece,
             ShortWrite(count, whole, piece)
      PROVE  FlowOK(r)'
    BY <1>6, <1>8 DEF ShortWrite, Write
<1>9. CASE Prune
    BY <1>6, <1>9 DEF Prune
<1>10. CASE Restart \/ FormatReset
    <2>1. conn'[r] = Closed /\ UNCHANGED <<pipe, plugin>>
        BY <1>10 DEF Restart, FormatReset, EndConnections
    <2>. QED
        BY <1>5, <2>1 DEF plugin
<1>11. ASSUME NEW q \in Readers, Connect(q) PROVE FlowOK(r)'
    <2>1. CASE q = r
        BY <1>3, <1>11, <2>1, ConnectFlow
    <2>2. CASE q # r
        <3>1. conn'[r] = conn[r] /\ pipe'[r] = pipe[r] /\ UNCHANGED <<todo, reader, handled, notified>>
            BY <1>4, <1>11, <2>2 DEF Connect
        <3>. QED
            BY <1>5, <3>1
    <2>. QED
        BY <2>1, <2>2
<1>12. ASSUME NEW q \in Readers, OpenLog(q) PROVE FlowOK(r)'
    <2>1. CASE q = r
        BY <1>3, <1>12, <2>1, OpenLogFlow
    <2>2. CASE q # r
        <3>1. conn'[r] = conn[r] /\ UNCHANGED <<pipe, plugin>>
            BY <1>4, <1>12, <2>2 DEF OpenLog
        <3>. QED
            BY <1>5, <3>1 DEF plugin
    <2>. QED
        BY <2>1, <2>2
<1>13. ASSUME NEW q \in Readers, ReadLog(q) PROVE FlowOK(r)'
    <2>1. CASE q = r
        BY <1>3, <1>13, <2>1, ReadLogFlow
    <2>2. CASE q # r
        <3>1. conn'[r] = conn[r] /\ UNCHANGED <<pipe, plugin>>
            BY <1>4, <1>13, <2>2 DEF ReadLog
        <3>. QED
            BY <1>5, <3>1 DEF plugin
    <2>. QED
        BY <2>1, <2>2
<1>14. ASSUME NEW q \in Readers, SendLine(q) PROVE FlowOK(r)'
    <2>1. CASE q = r
        BY <1>3, <1>14, <2>1, SendLineFlow
    <2>2. CASE q # r
        <3>1. conn'[r] = conn[r] /\ pipe'[r] = pipe[r] /\ UNCHANGED plugin
            BY <1>4, <1>14, <2>2 DEF SendLine
        <3>. QED
            BY <1>5, <3>1 DEF plugin
    <2>. QED
        BY <2>1, <2>2
<1>15. ASSUME NEW q \in Readers, NEW changed \in BOOLEAN, EndPass(q, changed) PROVE FlowOK(r)'
    <2>1. CASE q = r
        BY <1>3, <1>15, <2>1, EndPassFlow
    <2>2. CASE q # r
        <3>1. conn'[r] = conn[r] /\ pipe'[r] = pipe[r] /\ UNCHANGED plugin
            BY <1>4, <1>15, <2>2 DEF EndPass
        <3>. QED
            BY <1>5, <3>1 DEF plugin
    <2>. QED
        BY <2>1, <2>2
<1>16. ASSUME NEW q \in Readers, Handle(q) PROVE FlowOK(r)'
    <2>1. CASE q = r
        BY <1>3, <1>16, <2>1, HandleFlow
    <2>2. CASE q # r
        <3>1. /\ pipe'[r] = pipe[r] /\ todo'[r] = todo[r] /\ reader'[r] = reader[r]
              /\ handled'[r] = handled[r] /\ UNCHANGED <<conn, notified>>
            BY <1>4, <1>16, <2>2 DEF Handle
        <3>. QED
            BY <1>5, <3>1
    <2>. QED
        BY <2>1, <2>2
<1>17. ASSUME NEW q \in Readers, Notify(q) PROVE FlowOK(r)'
    <2>1. CASE q = r
        BY <1>3, <1>17, <2>1, NotifyFlow
    <2>2. CASE q # r
        <3>1. /\ todo'[r] = todo[r] /\ notified'[r] = notified[r]
              /\ UNCHANGED <<conn, pipe, reader, handled>>
            BY <1>4, <1>17, <2>2 DEF Notify
        <3>. QED
            BY <1>5, <3>1
    <2>. QED
        BY <2>1, <2>2
<1>18. ASSUME NEW q \in Readers, PluginCrash(q) PROVE FlowOK(r)'
    <2>1. /\ conn'[r] \in {conn[r], Closed} /\ pipe'[r] \in {pipe[r], <<>>}
          /\ todo'[r] \in {todo[r], <<>>} /\ UNCHANGED <<reader, handled, notified>>
        BY <1>4, <1>18 DEF PluginCrash
    <2>. QED
        BY <1>5, <2>1
<1>19. CASE TimePasses \/ TimeSteppedBack
    BY <1>6, <1>19 DEF TimePasses, TimeSteppedBack
<1>20. CASE UNCHANGED vars
    BY <1>6, <1>20 DEF vars
<1>. QED
    BY <1>7, <1>8, <1>9, <1>10, <1>11, <1>12, <1>13, <1>14, <1>15, <1>16, <1>17, <1>18, <1>19, <1>20
    DEF Next

-----------------------------------------------------------------------------
(* Types *)

\* A cursor stays within its file, which only grows.
LEMMA CursorLater ==
  ASSUME TypeOK, Grown, NEW r \in Readers, conn'[r] \in {conn[r], Closed}
  PROVE  CursorOK(conn[r])'
<1>1. /\ Current \in Nat /\ Current >= 1 /\ Len(files) = Current
      /\ Current' \in Nat /\ Current' >= Current /\ Len(files') = Current'
    BY FilesAre DEF Grown, Current
<1>2. CASE conn'[r] = Closed
    BY <1>1, <1>2 DEF CursorOK, Closed
<1>3. CASE conn'[r] = conn[r]
    <2>1. PICK c \in Conn : c = conn[r]
        BY FlowIs
    <2>2. c.offset \in Nat /\ c.file \in 0 .. Current /\ (c.st = "opened" => c.opened \in 1 .. Current)
          /\ c.offset <= IF c.file = 0 THEN 0 ELSE Len(files[c.file].lines)
        BY <2>1, FlowIs DEF CursorOK
    <2>3. c.file # 0 => Len(files[c.file].lines) \in Nat
        BY <1>1, <2>2, LinesAre
    <2>4. c.file # 0 => Len(files[c.file].lines) <= Len(files'[c.file].lines)
        BY <1>1, <2>2 DEF Grown
    <2>5. c.file # 0 => Len(files'[c.file].lines) \in Nat
        <3>1. SUFFICES ASSUME c.file # 0 PROVE Len(files'[c.file].lines) \in Nat
            OBVIOUS
        <3>2. files'[c.file] \in File
            BY <1>1, <2>2, <3>1, ElementsOf DEF Grown
        <3>3. files'[c.file].lines \in Seq(Line)
            BY <3>2 DEF File
        <3>. QED
            BY <3>3, ElementsOf
    <2>6. c.offset <= IF c.file = 0 THEN 0 ELSE Len(files'[c.file].lines)
        <3>1. CASE c.file = 0
            BY <2>2, <3>1
        <3>2. CASE c.file # 0
            <4>1. PICK a \in Nat, b \in Nat : a = Len(files[c.file].lines) /\ b = Len(files'[c.file].lines)
                BY <2>3, <2>5, <3>2
            <4>2. c.offset <= a /\ a <= b
                BY <2>2, <2>4, <3>2, <4>1
            <4>3. c.offset <= b
                BY <2>2, <4>2
            <4>. QED
                BY <3>2, <4>1, <4>3
        <3>. QED
            BY <3>1, <3>2
    <2>7. c.file \in 0 .. Current' /\ (c.st = "opened" => c.opened \in 1 .. Current')
        BY <1>1, <2>2
    <2>8. conn'[r] = c
        BY <1>3, <2>1
    <2>. QED
        BY <2>6, <2>7, <2>8 DEF CursorOK
<1>. QED
    BY <1>2, <1>3

LogType ==
    /\ files \in Seq(File) /\ Len(files) \in 1 .. MaxFiles
    /\ lastId \in Nat \union {Unknown}
    /\ clock \in 1 .. MaxClock
    /\ made \in 0 .. MaxLines
    /\ faults \subseteq Faults
    /\ sidebars \in 0 .. MaxSidebars
PluginType ==
    /\ reader \in [Readers -> Nat \union {Unknown}]
    /\ todo \in [Readers -> Seq(Nat)]
    /\ started \in [Readers -> Nat]
    /\ handled \in [Readers -> SUBSET Nat]
    /\ notified \in [Readers -> Seq(Nat)]
FlowType ==
    /\ conn \in [Readers -> Conn]
    /\ pipe \in [Readers -> Seq(Item)]

LEMMA TypeParts ==
  TypeOK <=> LogType /\ PluginType /\ FlowType /\ \A r \in Readers : CursorOK(conn[r])
BY DEF TypeOK, LogType, PluginType, FlowType

LEMMA ClosedIsConn == Closed \in Conn
<1>1. <<>> \in Seq(Item)
    BY EmptyIs
<1>. QED
    BY <1>1 DEF Closed, Conn

LEMMA LogTypeKeeps ==
  ASSUME TypeOK, LogInv, [Next]_vars
  PROVE  LogType'
<1>1. /\ files \in Seq(File) /\ Len(files) \in 1 .. MaxFiles /\ lastId \in Nat \union {Unknown}
      /\ clock \in 1 .. MaxClock /\ made \in 0 .. MaxLines /\ faults \subseteq Faults
      /\ sidebars \in 0 .. MaxSidebars /\ MaxFiles \in Nat /\ MaxClock \in Nat /\ MaxSidebars \in Nat
    BY DEF TypeOK
<1>2. LastId \in Nat
    BY LastIdIs
<1>3. ASSUME NEW count \in 1 .. MaxBatch, NEW whole \in 0 .. count, NEW piece,
             Write(count, whole, piece), faults' \subseteq Faults
      PROVE  LogType'
    <2>1. files' \in Seq(File) /\ Len(files') = Current /\ made' \in 0 .. MaxLines
        BY <1>3, WriteIs
    <2>2. lastId' \in Nat
        <3>1. PICK next \in Nat : next > LastId /\ lastId' = next + count - 1
            BY <1>3, WriteIs
        <3>2. count \in Nat /\ count >= 1
            OBVIOUS
        <3>. QED
            BY <3>1, <3>2
    <2>3. clock' = clock /\ sidebars' = sidebars
        BY <1>3 DEF Write
    <2>. QED
        BY <1>1, <1>3, <2>1, <2>2, <2>3 DEF LogType, Current
<1>4. ASSUME NEW count \in 1 .. MaxBatch, EventLog(count) PROVE LogType'
    <2>1. Write(count, count, "none") /\ faults' = faults /\ count \in 0 .. count
        BY <1>4 DEF EventLog
    <2>. QED
        BY <1>1, <1>3, <2>1
<1>5. ASSUME NEW count \in 1 .. MaxBatch, NEW whole \in 0 .. MaxBatch, NEW piece,
             ShortWrite(count, whole, piece)
      PROVE  LogType'
    <2>1. whole \in 0 .. count /\ Write(count, whole, piece)
        BY <1>5, ShortWriteIs
    <2>2. faults' \subseteq Faults
        BY <1>1, <1>5 DEF ShortWrite, Fault
    <2>. QED
        BY <1>3, <2>1, <2>2
<1>6. CASE Prune
    <2>1. files' = Append(files, Pruned(File0)) /\ Current < MaxFiles /\ files' \in Seq(File)
          /\ UNCHANGED <<lastId, made, clock, faults, sidebars>>
        BY <1>6, PruneKeeps DEF Prune
    <2>2. Pruned(File0) \in File
        BY FilesAre, PrunedIs
    <2>3. Len(files') = Len(files) + 1
        BY <1>1, <2>1, <2>2
    <2>. QED
        BY <1>1, <2>1, <2>3 DEF LogType, Current
<1>7. CASE FormatReset
    <2>1. files' = Append(files, NoFile) /\ Current < MaxFiles /\ files' \in Seq(File)
          /\ lastId' = Unknown /\ UNCHANGED <<made, clock, sidebars>> /\ faults' \subseteq Faults
        BY <1>1, <1>7, ResetKeeps DEF FormatReset, EndConnections, Fault
    <2>2. Len(files') = Len(files) + 1
        BY <1>1, <2>1
    <2>. QED
        BY <1>1, <2>1, <2>2 DEF LogType, Current
<1>8. CASE Restart
    BY <1>1, <1>8 DEF Restart, EndConnections, Fault, LogType
<1>9. ASSUME NEW r \in Readers, Connect(r) PROVE LogType'
    BY <1>1, <1>2, <1>9 DEF Connect, LogType
<1>10. ASSUME NEW r \in Readers, OpenLog(r) \/ ReadLog(r) \/ SendLine(r) \/ Notify(r) PROVE LogType'
    BY <1>1, <1>10 DEF OpenLog, ReadLog, SendLine, Notify, daemon, LogType
<1>11. ASSUME NEW r \in Readers, NEW changed \in BOOLEAN, EndPass(r, changed) PROVE LogType'
    BY <1>1, <1>11 DEF EndPass, daemon, LogType
<1>12. ASSUME NEW r \in Readers, Handle(r) PROVE LogType'
    BY <1>1, <1>12 DEF Handle, daemon, LogType
<1>13. ASSUME NEW r \in Readers, PluginCrash(r) PROVE LogType'
    BY <1>1, <1>13 DEF PluginCrash, Fault, daemon, LogType
<1>14. CASE TimePasses
    BY <1>1, <1>14 DEF TimePasses, daemon, LogType
<1>15. CASE TimeSteppedBack
    BY <1>1, <1>15 DEF TimeSteppedBack, Fault, daemon, LogType
<1>16. CASE UNCHANGED vars
    BY <1>1, <1>16 DEF vars, daemon, LogType
<1>. QED
    BY <1>4, <1>5, <1>6, <1>7, <1>8, <1>9, <1>10, <1>11, <1>12, <1>13, <1>14, <1>15, <1>16 DEF Next

\* What a step of one reader leaves of its state.
LEMMA OneReaderType ==
  ASSUME TypeOK, Grown, NEW r \in Readers, CursorOK(conn[r])',
         \A q \in Readers \ {r} : conn'[q] = conn[q]
  PROVE  \A q \in Readers : CursorOK(conn[q])'
<1>1. TAKE q \in Readers
<1>2. CASE q = r
    BY <1>2
<1>3. CASE q # r
    BY <1>3, CursorLater
<1>. QED
    BY <1>2, <1>3

LEMMA FlowTypeKeeps ==
  ASSUME TypeOK, LogInv, FlowInv, [Next]_vars
  PROVE  FlowType' /\ \A r \in Readers : CursorOK(conn[r])'
<1>1. Grown
    BY LogKeeps
<1>2. conn \in [Readers -> Conn] /\ pipe \in [Readers -> Seq(Item)]
    BY DEF TypeOK
<1>3. Closed \in Conn /\ <<>> \in Seq(Item) /\ Current \in Nat /\ Current >= 1
    BY ClosedIsConn, EmptyIs, FilesAre
\* A step that leaves the connections alone, or ends them.
<1>4. ASSUME conn' \in [Readers -> Conn], pipe' \in [Readers -> Seq(Item)],
             \A q \in Readers : conn'[q] \in {conn[q], Closed}
      PROVE  FlowType' /\ \A q \in Readers : CursorOK(conn[q])'
    <2>1. \A q \in Readers : CursorOK(conn[q])'
        BY <1>1, <1>4, CursorLater
    <2>. QED
        BY <1>4, <2>1 DEF FlowType
<1>5. ASSUME conn' = conn, pipe' = pipe
      PROVE  FlowType' /\ \A q \in Readers : CursorOK(conn[q])'
    BY <1>2, <1>4, <1>5
\* A step of one connection.
<1>6. ASSUME NEW r \in Readers, NEW c \in Conn, conn' = [conn EXCEPT ![r] = c],
             pipe' \in [Readers -> Seq(Item)],
             /\ c.st = "opened" => c.opened \in 1 .. Current'
             /\ c.file \in 0 .. Current'
             /\ c.offset <= IF c.file = 0 THEN 0 ELSE Len(files'[c.file].lines)
      PROVE  FlowType' /\ \A q \in Readers : CursorOK(conn[q])'
    <2>1. conn' \in [Readers -> Conn] /\ conn'[r] = c /\ \A q \in Readers \ {r} : conn'[q] = conn[q]
        BY <1>2, <1>6
    <2>2. CursorOK(conn[r])'
        BY <1>6, <2>1 DEF CursorOK
    <2>3. \A q \in Readers : CursorOK(conn[q])'
        BY <1>1, <2>1, <2>2, OneReaderType
    <2>. QED
        BY <1>6, <2>1, <2>3 DEF FlowType
<1>7. ASSUME NEW count \in 1 .. MaxBatch, EventLog(count)
      PROVE  FlowType' /\ \A q \in Readers : CursorOK(conn[q])'
    BY <1>5, <1>7 DEF EventLog, Write
<1>8. ASSUME NEW count \in 1 .. MaxBatch, NEW whole \in 0 .. MaxBatch, NEW piece,
             ShortWrite(count, whole, piece)
      PROVE  FlowType' /\ \A q \in Readers : CursorOK(conn[q])'
    BY <1>5, <1>8 DEF ShortWrite, Write
<1>9. CASE Prune
    BY <1>5, <1>9 DEF Prune
<1>10. CASE Restart \/ FormatReset
    <2>1. conn' = [r \in Readers |-> Closed] /\ pipe' = pipe
        BY <1>10 DEF Restart, FormatReset, EndConnections
    <2>. QED
        BY <1>2, <1>3, <1>4, <2>1
<1>11. ASSUME NEW r \in Readers, Connect(r)
       PROVE  FlowType' /\ \A q \in Readers : CursorOK(conn[q])'
    <2>1. PICK last \in Nat : last = LastId
        BY LastIdIs
    <2>2. PICK c : c = [Closed EXCEPT !.st = "idle", !.last = IF reader[r] = Unknown THEN last ELSE reader[r]]
        OBVIOUS
    <2>3. reader[r] = Unknown \/ reader[r] \in Nat
        BY FlowIs
    <2>4. c \in Conn /\ c.st = "idle" /\ c.file = 0 /\ c.offset = 0
        BY <1>3, <2>2, <2>3 DEF Closed, Conn
    <2>5. conn' = [conn EXCEPT ![r] = c]
        BY <1>11, <2>1, <2>2 DEF Connect
    <2>6. pipe' \in [Readers -> Seq(Item)]
        <3>1. Sidebar(last) \in Item
            BY DEF Sidebar, Item
        <3>2. <<Sidebar(last)>> \in Seq(Item)
            BY <3>1, OneElement
        <3>3. pipe' = [pipe EXCEPT ![r] = <<Sidebar(last)>>]
            BY <1>11, <2>1 DEF Connect
        <3>. QED
            BY <1>2, <3>2, <3>3
    <2>7. Current' \in Nat /\ 0 \in 0 .. Current'
        BY <1>1, <1>3 DEF Grown, Current
    <2>. QED
        <3>1. /\ c.st = "opened" => c.opened \in 1 .. Current'
              /\ c.file \in 0 .. Current'
              /\ c.offset <= IF c.file = 0 THEN 0 ELSE Len(files'[c.file].lines)
            BY <2>4, <2>7
        <3>. QED
            BY <1>6, <2>4, <2>5, <2>6, <3>1
<1>12. ASSUME NEW r \in Readers, OpenLog(r)
       PROVE  FlowType' /\ \A q \in Readers : CursorOK(conn[q])'
    <2>1. PICK c : c = [conn[r] EXCEPT !.st = "opened", !.opened = Current]
        OBVIOUS
    <2>2. conn[r] \in Conn /\ CursorOK(conn[r])
        BY FlowIs
    <2>3. c \in Conn /\ c.opened = Current /\ c.file = conn[r].file /\ c.offset = conn[r].offset
        BY <1>3, <2>1, <2>2 DEF Conn
    <2>4. conn' = [conn EXCEPT ![r] = c] /\ pipe' = pipe /\ files' = files
        BY <1>2, <1>12, <2>1 DEF OpenLog, daemon
    <2>5. Current' = Current /\ c.opened \in 1 .. Current /\ c.file \in 0 .. Current
          /\ c.offset <= IF c.file = 0 THEN 0 ELSE Len(files[c.file].lines)
        BY <1>3, <2>2, <2>3, <2>4 DEF CursorOK, Current
    <2>. QED
        BY <1>2, <1>6, <2>3, <2>4, <2>5
<1>13. ASSUME NEW r \in Readers, ReadLog(r)
       PROVE  FlowType' /\ \A q \in Readers : CursorOK(conn[q])'
    <2>1. PICK g \in 1 .. Current, lines \in Seq(Line), out \in Seq(Item), last \in Nat :
             \E new \in SUBSET (1 .. Len(lines)) : Reads(r, g, lines, new, out, last)
        BY <1>13, ReadLogIs DEF FlowInv
    <2>2. PICK new \in SUBSET (1 .. Len(lines)) : Reads(r, g, lines, new, out, last)
        BY <2>1
    <2>3. /\ conn[r].st = "opened" /\ g = conn[r].opened /\ lines = files[g].lines
          /\ files' = files /\ pipe' = pipe
          /\ conn'[r] = [st |-> "sending", last |-> last, file |-> g,
                         offset |-> StartOf(conn[r]) + Cardinality(LinesAfter(conn[r])), opened |-> 0,
                         out |-> out]
        BY <2>2 DEF Reads
    <2>4. PICK offset \in Nat :
             /\ offset = StartOf(conn[r]) + Cardinality(LinesAfter(conn[r]))
             /\ offset <= Len(lines)
        <3>1. /\ StartOf(conn[r]) \in Nat /\ Cardinality(LinesAfter(conn[r])) \in Nat
              /\ StartOf(conn[r]) + Cardinality(LinesAfter(conn[r])) <= Len(lines)
            BY <2>3, LinesAfterAre
        <3>. QED
            BY <3>1
    <2>5. PICK c : c = [st |-> "sending", last |-> last, file |-> g, offset |-> offset, opened |-> 0,
                        out |-> out]
        OBVIOUS
    <2>6. g \in Nat /\ g >= 1
        BY <1>3
    <2>7. c \in Conn /\ c.st = "sending" /\ c.file = g /\ c.offset = offset
        BY <2>5, <2>6 DEF Conn
    <2>8. conn' = [conn EXCEPT ![r] = c]
        <3>1. conn'[r] = c
            BY <2>3, <2>4, <2>5
        <3>2. \E d : conn' = [conn EXCEPT ![r] = d]
            BY <1>13 DEF ReadLog
        <3>. QED
            BY <1>2, <3>1, <3>2
    <2>9. Current' = Current /\ g \in 0 .. Current' /\ offset <= Len(files'[g].lines)
        BY <1>3, <2>3, <2>4, <2>6 DEF Current
    <2>. QED
        <3>1. /\ c.st = "opened" => c.opened \in 1 .. Current'
              /\ c.file \in 0 .. Current'
              /\ c.offset <= IF c.file = 0 THEN 0 ELSE Len(files'[c.file].lines)
            BY <2>6, <2>7, <2>9
        <3>2. pipe' \in [Readers -> Seq(Item)]
            BY <1>2, <2>3
        <3>. QED
            BY <1>6, <2>7, <2>8, <3>1, <3>2
<1>14. ASSUME NEW r \in Readers, SendLine(r)
       PROVE  FlowType' /\ \A q \in Readers : CursorOK(conn[q])'
    <2>1. PICK out \in Seq(Item), s \in Seq(Item) : out = conn[r].out /\ s = pipe[r]
        BY FlowIs
    <2>2. out # <<>> /\ conn[r] \in Conn /\ CursorOK(conn[r]) /\ conn[r].st = "sending"
        BY <1>14, <2>1, FlowIs DEF SendLine
    <2>3. Head(out) \in Item /\ Tail(out) \in Seq(Item)
        BY <2>2, HeadTailIs
    <2>4. Append(s, Head(out)) \in Seq(Item)
        BY <2>3, AppendIs
    <2>5. PICK c : c = [conn[r] EXCEPT !.out = Tail(out)]
        OBVIOUS
    <2>6. c \in Conn /\ c.st = "sending" /\ c.file = conn[r].file /\ c.offset = conn[r].offset
        BY <2>2, <2>3, <2>5 DEF Conn
    <2>7. conn' = [conn EXCEPT ![r] = c] /\ pipe' = [pipe EXCEPT ![r] = Append(s, Head(out))]
          /\ files' = files
        BY <1>2, <1>14, <2>1, <2>5 DEF SendLine, daemon
    <2>8. pipe' \in [Readers -> Seq(Item)]
        BY <1>2, <2>4, <2>7
    <2>9. Current' = Current /\ c.file \in 0 .. Current
          /\ c.offset <= IF c.file = 0 THEN 0 ELSE Len(files[c.file].lines)
        BY <2>2, <2>6, <2>7 DEF CursorOK, Current
    <2>. QED
        BY <1>6, <2>6, <2>7, <2>8, <2>9
<1>15. ASSUME NEW r \in Readers, NEW changed \in BOOLEAN, EndPass(r, changed)
       PROVE  FlowType' /\ \A q \in Readers : CursorOK(conn[q])'
    <2>1. conn[r] \in Conn /\ CursorOK(conn[r]) /\ pipe[r] \in Seq(Item)
        BY FlowIs
    <2>2. PICK c : c = [conn[r] EXCEPT !.st = "idle"]
        OBVIOUS
    <2>3. c \in Conn /\ c.st = "idle" /\ c.file = conn[r].file /\ c.offset = conn[r].offset
        BY <2>1, <2>2 DEF Conn
    <2>4. conn' = [conn EXCEPT ![r] = c] /\ files' = files
        BY <1>2, <1>15, <2>2 DEF EndPass, daemon
    <2>5. pipe' \in [Readers -> Seq(Item)]
        <3>1. Sidebar(0) \in Item
            BY DEF Sidebar, Item
        <3>2. Append(pipe[r], Sidebar(0)) \in Seq(Item)
            BY <2>1, <3>1, AppendIs
        <3>3. pipe' = pipe \/ pipe' = [pipe EXCEPT ![r] = Append(pipe[r], Sidebar(0))]
            BY <1>2, <1>15 DEF EndPass
        <3>. QED
            BY <1>2, <3>2, <3>3
    <2>6. Current' = Current /\ c.file \in 0 .. Current
          /\ c.offset <= IF c.file = 0 THEN 0 ELSE Len(files[c.file].lines)
        BY <2>1, <2>3, <2>4 DEF CursorOK, Current
    <2>. QED
        BY <1>6, <2>3, <2>4, <2>5, <2>6
<1>16. ASSUME NEW r \in Readers, Handle(r)
       PROVE  FlowType' /\ \A q \in Readers : CursorOK(conn[q])'
    <2>1. PICK s \in Seq(Item), count \in Nat, rest \in Seq(Item), numbers \in Seq(Nat) :
             Takes(r, s, count, rest, numbers)
        BY <1>16, HandleIs DEF FlowInv
    <2>2. pipe'[r] = rest /\ conn' = conn
        BY <2>1 DEF Takes
    <2>3. \E d : pipe' = [pipe EXCEPT ![r] = d]
        BY <1>16 DEF Handle
    <2>4. pipe' \in [Readers -> Seq(Item)]
        BY <1>2, <2>2, <2>3
    <2>. QED
        BY <1>2, <1>4, <2>2, <2>4
<1>17. ASSUME NEW r \in Readers, Notify(r)
       PROVE  FlowType' /\ \A q \in Readers : CursorOK(conn[q])'
    BY <1>5, <1>17 DEF Notify
<1>18. ASSUME NEW r \in Readers, PluginCrash(r)
       PROVE  FlowType' /\ \A q \in Readers : CursorOK(conn[q])'
    <2>1. conn' = [conn EXCEPT ![r] = Closed] /\ pipe' = [pipe EXCEPT ![r] = <<>>]
        BY <1>18 DEF PluginCrash
    <2>2. conn' \in [Readers -> Conn] /\ pipe' \in [Readers -> Seq(Item)]
          /\ \A q \in Readers : conn'[q] \in {conn[q], Closed}
        BY <1>2, <1>3, <2>1
    <2>. QED
        BY <1>4, <2>2
<1>19. CASE TimePasses \/ TimeSteppedBack
    BY <1>5, <1>19 DEF TimePasses, TimeSteppedBack
<1>20. CASE UNCHANGED vars
    BY <1>5, <1>20 DEF vars
<1>. QED
    BY <1>7, <1>8, <1>9, <1>10, <1>11, <1>12, <1>13, <1>14, <1>15, <1>16, <1>17, <1>18, <1>19, <1>20
    DEF Next

LEMMA PluginTypeKeeps ==
  ASSUME TypeOK, FlowInv, [Next]_vars
  PROVE  PluginType'
<1>1. PluginType /\ made \in Nat
    BY TypeParts, FilesAre
<1>2. ASSUME UNCHANGED plugin PROVE PluginType'
    BY <1>1, <1>2 DEF plugin, PluginType
<1>3. ASSUME NEW count \in 1 .. MaxBatch, EventLog(count) PROVE PluginType'
    BY <1>2, <1>3 DEF EventLog, Write
<1>4. ASSUME NEW count \in 1 .. MaxBatch, NEW whole \in 0 .. MaxBatch, NEW piece,
             ShortWrite(count, whole, piece)
      PROVE  PluginType'
    BY <1>2, <1>4 DEF ShortWrite, Write
<1>5. CASE Prune
    BY <1>2, <1>5 DEF Prune
<1>6. CASE Restart \/ FormatReset
    BY <1>2, <1>6 DEF Restart, FormatReset, EndConnections
<1>7. ASSUME NEW r \in Readers, Connect(r) PROVE PluginType'
    <2>1. /\ UNCHANGED <<reader, todo, handled, notified>>
          /\ started' = [started EXCEPT ![r] = IF reader[r] = Unknown THEN made ELSE @]
        BY <1>7 DEF Connect
    <2>2. started' \in [Readers -> Nat]
        BY <1>1, <2>1 DEF PluginType
    <2>. QED
        BY <1>1, <2>1, <2>2 DEF PluginType
<1>8. ASSUME NEW r \in Readers, OpenLog(r) \/ ReadLog(r) \/ SendLine(r) PROVE PluginType'
    BY <1>2, <1>8 DEF OpenLog, ReadLog, SendLine
<1>9. ASSUME NEW r \in Readers, NEW changed \in BOOLEAN, EndPass(r, changed) PROVE PluginType'
    BY <1>2, <1>9 DEF EndPass
<1>10. ASSUME NEW r \in Readers, Handle(r) PROVE PluginType'
    <2>1. PICK s \in Seq(Item), count \in Nat, rest \in Seq(Item), numbers \in Seq(Nat) :
             Takes(r, s, count, rest, numbers)
        BY <1>10, HandleIs DEF FlowInv
    <2>2. /\ todo'[r] = numbers /\ handled'[r] = handled[r] \union Range(numbers)
          /\ Range(numbers) \subseteq Nat
        BY <2>1, RangeIs DEF Takes
    <2>3. reader'[r] \in Nat \union {Unknown}
        <3>1. \A i \in 1 .. count : s[i].id \in Nat
            <4>1. \A i \in 1 .. Len(s) : s[i] \in Item
                BY ElementsOf
            <4>2. Len(s) \in Nat /\ count \in 1 .. Len(s)
                BY <2>1 DEF Takes
            <4>3. \A i \in 1 .. count : i \in 1 .. Len(s)
                BY <4>2
            <4>. QED
                BY <4>1, <4>3 DEF Item
        <3>2. reader'[r] = reader[r] \/ \E i \in 1 .. count : reader'[r] = s[i].id
            <4>1. CASE \A i \in 1 .. count : s[i].type # "line"
                BY <2>1, <4>1 DEF Takes
            <4>2. CASE \E i \in 1 .. count : s[i].type = "line"
                BY <2>1, <4>2 DEF Takes
            <4>. QED
                BY <4>1, <4>2
        <3>3. reader[r] \in Nat \union {Unknown}
            BY FlowIs
        <3>. QED
            BY <3>1, <3>2, <3>3
    <2>4. /\ \E d : reader' = [reader EXCEPT ![r] = d]
          /\ \E d : todo' = [todo EXCEPT ![r] = d]
          /\ \E d : handled' = [handled EXCEPT ![r] = d]
          /\ UNCHANGED <<started, notified>>
        BY <1>10 DEF Handle
    <2>5. handled[r] \subseteq Nat
        BY FlowIs
    <2>6. reader' \in [Readers -> Nat \union {Unknown}]
        BY <1>1, <2>3, <2>4 DEF PluginType
    <2>7. todo' \in [Readers -> Seq(Nat)]
        BY <1>1, <2>2, <2>4 DEF PluginType
    <2>8. handled' \in [Readers -> SUBSET Nat]
        BY <1>1, <2>2, <2>4, <2>5 DEF PluginType
    <2>. QED
        BY <1>1, <2>4, <2>6, <2>7, <2>8 DEF PluginType
<1>11. ASSUME NEW r \in Readers, Notify(r) PROVE PluginType'
    <2>1. PICK s \in Seq(Nat), d \in Seq(Nat) : s = todo[r] /\ d = notified[r] /\ s # <<>>
        BY <1>11, FlowIs DEF Notify
    <2>2. Head(s) \in Nat /\ Tail(s) \in Seq(Nat)
        BY <2>1, HeadTailIs
    <2>3. Append(d, Head(s)) \in Seq(Nat)
        BY <2>2, AppendIs
    <2>4. /\ notified' = [notified EXCEPT ![r] = Append(d, Head(s))]
          /\ todo' = [todo EXCEPT ![r] = Tail(s)]
          /\ UNCHANGED <<reader, started, handled>>
        BY <1>1, <1>11, <2>1 DEF Notify, PluginType
    <2>. QED
        BY <1>1, <2>2, <2>3, <2>4 DEF PluginType
<1>12. ASSUME NEW r \in Readers, PluginCrash(r) PROVE PluginType'
    <2>1. todo' = [todo EXCEPT ![r] = <<>>] /\ UNCHANGED <<reader, started, handled, notified>>
        BY <1>12 DEF PluginCrash
    <2>. QED
        BY <1>1, <2>1, EmptyIs DEF PluginType
<1>13. CASE TimePasses \/ TimeSteppedBack
    BY <1>2, <1>13 DEF TimePasses, TimeSteppedBack
<1>14. CASE UNCHANGED vars
    BY <1>2, <1>14 DEF vars
<1>. QED
    BY <1>3, <1>4, <1>5, <1>6, <1>7, <1>8, <1>9, <1>10, <1>11, <1>12, <1>13, <1>14 DEF Next

-----------------------------------------------------------------------------
(* Notifications *)

LEMMA InitHolds ==
  ASSUME Init
  PROVE  TypeOK /\ LogInv /\ FlowInv
<1>1. /\ files = <<NoFile>> /\ NoFile \in File /\ NoFile.lines = <<>> /\ ~NoFile.split
    <2>1. <<>> \in Seq(Line)
        BY EmptyIs
    <2>. QED
        BY <2>1 DEF Init, NoFile, File
<1>2. files \in Seq(File) /\ Len(files) = 1 /\ files[1] = NoFile
    BY <1>1, OneElement
<1>3. Closed \in Conn /\ <<>> \in Seq(Item) /\ <<>> \in Seq(Nat)
    BY ClosedIsConn, EmptyIs
<1>4. \A r \in Readers : /\ conn[r] = Closed /\ pipe[r] = <<>> /\ reader[r] = Unknown
                         /\ todo[r] = <<>> /\ notified[r] = <<>> /\ handled[r] = {}
    BY DEF Init
<1>5. Current = 1 /\ LinesIn(files[1]) = {} /\ Len(files[1].lines) = 0 /\ ~files[1].split
    BY <1>1, <1>2, EmptyIs DEF Current, LinesIn
<1>6. TypeOK
    <2>1. LogType
        BY <1>2 DEF Init, LogType
    <2>2. PluginType
        BY <1>3 DEF Init, PluginType
    <2>3. FlowType
        BY <1>3 DEF Init, FlowType
    <2>4. \A r \in Readers : CursorOK(conn[r])
        BY <1>4, <1>5 DEF CursorOK, Closed
    <2>. QED
        BY <2>1, <2>2, <2>3, <2>4, TypeParts
<1>7. LogInv
    <2>1. \A f \in 1 .. Current : f = 1
        BY <1>5
    <2>2. LinesOK
        BY <1>5, <2>1 DEF LinesOK
    <2>3. FileOrder
        BY <1>5, <2>1 DEF FileOrder
    <2>4. PairOrder
        BY <1>5, <2>1 DEF PairOrder
    <2>. QED
        BY <2>2, <2>3, <2>4 DEF LogInv
<1>8. FlowInv
    <2>1. SUFFICES ASSUME NEW r \in Readers PROVE FlowOK(r)
        BY DEF FlowInv
    <2>2. OnWay(r) = {} /\ conn[r].st = "closed" /\ conn[r].out = <<>>
          /\ Range(pipe[r]) = {} /\ Range(conn[r].out) = {}
        BY <1>4, EmptyIs DEF OnWay, Closed
    <2>3. ItemsOK(r) /\ LastOK(r) /\ StartOK(r) /\ HandledOK(r)
        BY <1>4, <2>2, EmptyIs DEF ItemsOK, LastOK, StartOK, HandledOK
    <2>4. AheadOK(r)
        BY <1>4, <2>2 DEF AheadOK
    <2>5. NotifyOK(r)
        BY <1>4, EmptyIs DEF NotifyOK
    <2>. QED
        BY <2>3, <2>4, <2>5 DEF FlowOK
<1>. QED
    BY <1>6, <1>7, <1>8

\* The types, the order of the log and what is on the way to a reader are an
\* inductive invariant.
THEOREM FollowInvariant == Spec => [](TypeOK /\ LogInv /\ FlowInv)
<1>1. Init => TypeOK /\ LogInv /\ FlowInv
    BY InitHolds
<1>2. TypeOK /\ LogInv /\ FlowInv /\ [Next]_vars => TypeOK' /\ LogInv' /\ FlowInv'
    <2>1. SUFFICES ASSUME TypeOK, LogInv, FlowInv, [Next]_vars PROVE TypeOK' /\ LogInv' /\ FlowInv'
        OBVIOUS
    <2>2. LogInv' /\ FlowInv'
        BY <2>1, LogKeeps, FlowKeeps
    <2>3. LogType' /\ PluginType' /\ FlowType' /\ \A r \in Readers : CursorOK(conn[r])'
        BY <2>1, LogTypeKeeps, PluginTypeKeeps, FlowTypeKeeps
    <2>4. TypeOK'
        BY <2>3 DEF TypeOK, LogType, PluginType, FlowType
    <2>. QED
        BY <2>2, <2>4
<1>. QED
    BY <1>1, <1>2, PTL DEF Spec

\* A reader notifies of no line two times, and in the order of the log,
\* whatever writes, prunes, resets, restarts, crashes and steps of the clock
\* happen (watch.sh handle, follow of server.rs).
THEOREM NotifiedAlwaysOnce == Spec => []NotifiedOnce
<1>1. TypeOK /\ LogInv /\ FlowInv => NotifiedOnce
    BY DEF FlowInv, FlowOK, NotifyOK, Increasing, NotifiedOnce
<1>. QED
    BY <1>1, FollowInvariant, PTL

-----------------------------------------------------------------------------
(* Ids over prunes and restarts *)

LEMMA LoggedIs ==
  ASSUME TypeOK, LogInv
  PROVE  /\ \A x : x \in Logged <=> x # Unreadable /\ \E f \in 1 .. Current : x \in LinesIn(files[f])
         /\ \A x \in Logged : /\ x \in Line /\ x.id \in Nat /\ x.no \in Nat /\ x.time \in Nat
                              /\ x.id > 0 /\ x.no \in 1 .. made
<1>1. \A x : x \in Logged <=> x # Unreadable /\ \E f \in 1 .. Current : x \in LinesIn(files[f])
    BY DEF Logged, LinesIn, Current
<1>2. ASSUME NEW x \in Logged
      PROVE  /\ x \in Line /\ x.id \in Nat /\ x.no \in Nat /\ x.time \in Nat
             /\ x.id > 0 /\ x.no \in 1 .. made
    <2>1. PICK f \in 1 .. Current : x \in LinesIn(files[f]) /\ x # Unreadable
        BY <1>1, <1>2
    <2>2. x \in Line
        BY <2>1, LinesAre
    <2>3. x.id > 0 /\ x.no \in 1 .. made
        BY <2>1 DEF LogInv, LinesOK
    <2>. QED
        BY <2>2, <2>3 DEF Line
<1>. QED
    BY <1>1, <1>2

\* What a write adds to the log: the lines from the next id on.
NewLine(i, next) == [no |-> made + i, id |-> next + i - 1, time |-> clock]
LEMMA WrittenIs ==
  ASSUME TypeOK, LogInv, LogInv', TypeOK', NEW count \in 1 .. MaxBatch, NEW whole \in 0 .. count,
         NEW piece, Write(count, whole, piece)
  PROVE  /\ Current' = Current /\ Current \in Nat /\ Current >= 1
         /\ \A f \in 1 .. Current : f # Current => files'[f] = files[f]
         /\ files'[Current].split = (File0.split \/ piece = "split")
         /\ LinesIn(File0) \subseteq LinesIn(files'[Current])
         /\ \E next \in Nat :
                /\ next > LastId /\ next >= clock /\ (next = LastId + 1 \/ next = clock)
                /\ lastId' = next + count - 1
                /\ \A x \in LinesIn(files'[Current]) :
                       \/ x \in LinesIn(File0) \/ x = Unreadable
                       \/ \E i \in 1 .. count : x = NewLine(i, next)
<1>1. Current \in Nat /\ Current >= 1 /\ Current' = Current /\ File0 = files[Current]
    <2>1. Len(files') = Current
        BY WriteIs
    <2>. QED
        BY <2>1, FilesAre DEF Current
<1>2. /\ \A f \in 1 .. Current : f # Current => files'[f] = files[f]
      /\ files'[Current].split = (File0.split \/ piece = "split")
    BY WriteIs
<1>3. PICK old \in Seq(Line), after \in Seq(Line) : old = File0.lines /\ after = files'[Current].lines
    <2>1. File0.lines \in Seq(Line) /\ files'[Current] \in File
        BY <1>1, FilesAre, WriteIs
    <2>2. files'[Current].lines \in Seq(Line)
        BY <2>1 DEF File
    <2>. QED
        BY <2>1, <2>2
<1>4. /\ LinesIn(File0) = {old[i] : i \in 1 .. Len(old)}
      /\ LinesIn(files'[Current]) = {after[i] : i \in 1 .. Len(after)}
      /\ Len(old) \in Nat /\ Len(after) \in Nat
    <2>1. Range(old) = {old[i] : i \in 1 .. Len(old)}
        BY RangeIs
    <2>2. Range(after) = {after[i] : i \in 1 .. Len(after)}
        BY RangeIs
    <2>. QED
        BY <1>3, <2>1, <2>2, ElementsOf DEF LinesIn
<1>5. Len(after) >= Len(old) /\ \A i \in 1 .. Len(old) : after[i] = old[i]
    BY <1>3, WriteIs
<1>6. LinesIn(File0) \subseteq LinesIn(files'[Current])
    <2>1. \A i \in 1 .. Len(old) : i \in 1 .. Len(after)
        BY <1>4, <1>5
    <2>. QED
        BY <1>4, <1>5, <2>1
<1>7. PICK next \in Nat :
         /\ next > LastId /\ next >= clock /\ (next = LastId + 1 \/ next = clock)
         /\ lastId' = next + count - 1
         /\ \A j \in 1 .. Len(after) :
                \/ j \in 1 .. Len(old)
                \/ after[j] = Unreadable
                \/ j - Len(old) \in 1 .. count /\ after[j] = NewLine(j - Len(old), next)
    <2>1. PICK next \in Nat :
             /\ next > LastId /\ next >= clock
             /\ next = LastId + 1 \/ next = clock
             /\ lastId' = next + count - 1
             /\ \A j \in 1 .. Len(files'[Current].lines) :
                    \/ j \in 1 .. Len(File0.lines)
                    \/ files'[Current].lines[j] = Unreadable
                    \/ LET i == j - Len(File0.lines)
                       IN  /\ i \in 1 .. count
                           /\ files'[Current].lines[j] =
                                  [no |-> made + i, id |-> next + i - 1, time |-> clock]
        BY WriteIs
    <2>2. \A j \in 1 .. Len(files'[Current].lines) :
              \/ j \in 1 .. Len(File0.lines)
              \/ files'[Current].lines[j] = Unreadable
              \/ /\ j - Len(File0.lines) \in 1 .. count
                 /\ files'[Current].lines[j] = NewLine(j - Len(File0.lines), next)
        BY <2>1 DEF NewLine
    <2>3. \A j \in 1 .. Len(after) :
              \/ j \in 1 .. Len(old)
              \/ after[j] = Unreadable
              \/ j - Len(old) \in 1 .. count /\ after[j] = NewLine(j - Len(old), next)
        BY <1>3, <2>2
    <2>. QED
        BY <2>1, <2>3
<1>8. \A x \in LinesIn(files'[Current]) :
          \/ x \in LinesIn(File0) \/ x = Unreadable
          \/ \E i \in 1 .. count : x = NewLine(i, next)
    <2>1. SUFFICES ASSUME NEW j \in 1 .. Len(after)
                   PROVE  \/ after[j] \in LinesIn(File0) \/ after[j] = Unreadable
                          \/ \E i \in 1 .. count : after[j] = NewLine(i, next)
        BY <1>4
    <2>2. CASE j \in 1 .. Len(old)
        BY <1>4, <1>5, <2>2
    <2>3. CASE j \notin 1 .. Len(old)
        BY <1>7, <2>3
    <2>. QED
        BY <2>2, <2>3
<1>. QED
    BY <1>1, <1>2, <1>6, <1>7, <1>8

\* The next id is more than that of each line that was ever written, if the
\* lines are not more than the age of a prune: an id is ahead of its time only
\* by the lines before it.
LEMMA NextIsLarger ==
  ASSUME TypeOK, LogInv, IdsOK, MaxLines <= Keep + 2, made + 1 <= MaxLines,
         NEW next \in Nat, next > LastId, next >= clock
  PROVE  \A x \in Logged : x.id < next
<1>1. SUFFICES ASSUME NEW x \in Logged PROVE x.id < next
    OBVIOUS
<1>2. x.id \in Nat /\ x.no \in 1 .. made /\ x.time \in Nat /\ x.id + 1 <= x.time + x.no
    BY LoggedIs DEF IdsOK
<1>3. clock \in Nat /\ made \in Nat /\ Keep \in Nat /\ MaxLines \in Nat /\ LastId \in Nat
      /\ Current \in 1 .. Current
    BY FilesAre, LastIdIs
<1>4. CASE x \in LinesIn(File0)
    <2>1. ~File0.split
        BY <1>3 DEF IdsOK, File0
    <2>2. x.id <= LastId
        <3>1. CASE lastId = Unknown
            BY <1>4, <2>1, <3>1, LastIdIs
        <3>2. CASE lastId # Unknown
            BY <1>3, <1>4, <2>1, <3>2, LastIdIs DEF LogInv, FileOrder, File0
        <3>. QED
            BY <3>1, <3>2
    <2>. QED
        BY <1>2, <1>3, <2>2
<1>5. CASE x \notin LinesIn(File0)
    <2>1. x.time + Keep < clock
        BY <1>5 DEF IdsOK
    <2>. QED
        BY <1>2, <1>3, <2>1
<1>. QED
    BY <1>4, <1>5

LEMMA LastIdBound ==
  ASSUME TypeOK, LogInv, IdsOK
  PROVE  LastId + 1 <= clock + made
<1>1. clock \in Nat /\ clock >= 1 /\ made \in Nat /\ LastId \in Nat /\ Current \in 1 .. Current
    BY FilesAre, LastIdIs
<1>2. CASE lastId # Unknown
    BY <1>2, LastIdIs DEF IdsOK
<1>3. CASE lastId = Unknown /\ LastId = 0
    BY <1>1, <1>3
<1>4. CASE \E x \in LinesIn(File0) : x.id = LastId /\ x # Unreadable
    <2>1. PICK x \in LinesIn(File0) : x.id = LastId /\ x # Unreadable
        BY <1>4
    <2>2. x \in Logged
        BY <1>1, <2>1, LoggedIs DEF File0
    <2>3. /\ x.id + 1 <= x.time + x.no /\ x.time <= clock /\ x.no <= made
          /\ x.id \in Nat /\ x.no \in Nat /\ x.time \in Nat
        BY <1>1, <2>2, LoggedIs DEF IdsOK
    <2>. QED
        BY <1>1, <2>1, <2>3
<1>5. lastId = Unknown => LastId = 0 \/ \E x \in LinesIn(File0) : x.id = LastId /\ x # Unreadable
    <2>1. Unreadable.id = 0
        BY DEF Unreadable
    <2>. QED
        BY <2>1, LastIdIs
<1>. QED
    BY <1>2, <1>3, <1>4, <1>5

\* The conjuncts of IdsOK.
NotSplit == \A f \in 1 .. Current : ~files[f].split
NearTime == \A x \in Logged : x.time <= clock /\ x.id + 1 <= x.time + x.no
IdsFollow == \A x, y \in Logged : (x.no < y.no => x.id < y.id) /\ (x.no = y.no => x = y)
CacheNear == lastId # Unknown => lastId + 1 <= clock + made
OldArePruned == \A x \in Logged : x \notin LinesIn(File0) => x.time + Keep < clock

LEMMA IdsParts == IdsOK <=> NotSplit /\ NearTime /\ IdsFollow /\ CacheNear /\ OldArePruned
BY DEF IdsOK, NotSplit, NearTime, IdsFollow, CacheNear, OldArePruned

LEMMA WriteIds ==
  ASSUME TypeOK, LogInv, TypeOK', LogInv', IdsOK, KeptOK, MaxLines <= Keep + 2,
         NEW count \in 1 .. MaxBatch, NEW whole \in 0 .. count, NEW piece, piece # "split",
         Write(count, whole, piece)
  PROVE  IdsOK' /\ KeptOK' /\ Logged \subseteq Logged'
         /\ \A x \in Logged' : x \in Logged \/ x.no > made
<1>1. /\ Current' = Current /\ Current \in Nat /\ Current >= 1
      /\ \A f \in 1 .. Current : f # Current => files'[f] = files[f]
      /\ files'[Current].split = (File0.split \/ piece = "split")
      /\ LinesIn(File0) \subseteq LinesIn(files'[Current])
      /\ Current \in 1 .. Current /\ File0 = files[Current] /\ File0' = files'[Current]
    BY WrittenIs DEF File0
<1>2. PICK next \in Nat :
         /\ next > LastId /\ next >= clock /\ (next = LastId + 1 \/ next = clock)
         /\ lastId' = next + count - 1
         /\ \A x \in LinesIn(files'[Current]) :
                \/ x \in LinesIn(File0) \/ x = Unreadable
                \/ \E i \in 1 .. count : x = NewLine(i, next)
    BY WrittenIs
<1>3. /\ made' = made + count /\ made + count <= MaxLines /\ clock' = clock
      /\ made \in Nat /\ clock \in Nat /\ clock >= 1 /\ count \in Nat /\ count >= 1 /\ LastId \in Nat
    BY FilesAre, LastIdIs DEF Write
<1>4. MaxLines \in Nat /\ Keep \in Nat
    OBVIOUS
<1>5. \A x \in Logged : x.id < next
    <2>1. made + 1 <= MaxLines
        BY <1>3, <1>4
    <2>. QED
        BY <1>2, <2>1, NextIsLarger
<1>6. next <= clock + made
    BY <1>2, <1>3, LastIdBound
<1>7. ASSUME NEW x \in Logged'
      PROVE  \/ x \in Logged
             \/ /\ x \in LinesIn(files'[Current]) /\ x \notin Logged
                /\ \E i \in 1 .. count : x = NewLine(i, next)
    <2>1. PICK f \in 1 .. Current : x \in LinesIn(files'[f]) /\ x # Unreadable
        BY <1>1, <1>7 DEF Logged, LinesIn, Current
    <2>2. CASE f # Current
        BY <1>1, <2>1, <2>2, LoggedIs
    <2>3. CASE f = Current
        BY <1>1, <1>2, <2>1, <2>3, LoggedIs
    <2>. QED
        BY <2>2, <2>3
<1>8. Logged \subseteq Logged'
    <2>1. SUFFICES ASSUME NEW x \in Logged PROVE x \in Logged'
        OBVIOUS
    <2>2. PICK f \in 1 .. Current : x \in LinesIn(files[f]) /\ x # Unreadable
        BY <2>1, LoggedIs
    <2>3. x \in LinesIn(files'[f])
        BY <1>1, <2>2
    <2>4. \A y : y \in Logged' <=> y # Unreadable /\ \E h \in 1 .. Current' : y \in LinesIn(files'[h])
        BY DEF Logged, LinesIn, Current
    <2>. QED
        BY <1>1, <2>2, <2>3, <2>4
<1>9. ASSUME NEW i \in 1 .. count
      PROVE  LET x == NewLine(i, next)
             IN  x.no = made + i /\ x.id = next + i - 1 /\ x.time = clock
    BY DEF NewLine
<1>10. NotSplit'
    BY <1>1 DEF NotSplit, IdsOK, File0
<1>11. NearTime'
    <2>1. SUFFICES ASSUME NEW x \in Logged' PROVE x.time <= clock /\ x.id + 1 <= x.time + x.no
        BY <1>3 DEF NearTime
    <2>2. CASE x \in Logged
        BY <2>2 DEF IdsOK
    <2>3. CASE \E i \in 1 .. count : x = NewLine(i, next)
        <3>1. PICK i \in 1 .. count : x = NewLine(i, next)
            BY <2>3
        <3>2. x.no = made + i /\ x.id = next + i - 1 /\ x.time = clock
            BY <1>9, <3>1
        <3>. QED
            BY <1>3, <1>6, <3>2
    <2>. QED
        BY <1>7, <2>2, <2>3
<1>12. IdsFollow'
    <2>1. SUFFICES ASSUME NEW x \in Logged', NEW y \in Logged'
                   PROVE  (x.no < y.no => x.id < y.id) /\ (x.no = y.no => x = y)
        BY DEF IdsFollow
    <2>2. CASE x \in Logged /\ y \in Logged
        BY <2>2 DEF IdsOK
    <2>3. ASSUME NEW a \in Logged, NEW b, NEW i \in 1 .. count, b = NewLine(i, next)
          PROVE  a.no < b.no /\ a.id < b.id
        <3>1. a.id < next /\ a.no <= made /\ a.id \in Nat /\ a.no \in Nat
            BY <1>3, <1>5, LoggedIs
        <3>2. b.no = made + i /\ b.id = next + i - 1
            BY <1>9, <2>3
        <3>. QED
            BY <1>3, <3>1, <3>2
    <2>4. CASE x \in Logged /\ \E i \in 1 .. count : y = NewLine(i, next)
        <3>1. x.no < y.no /\ x.id < y.id
            BY <2>3, <2>4
        <3>2. x.no \in Nat
            BY <2>4, LoggedIs
        <3>. QED
            BY <3>1, <3>2
    <2>5. CASE y \in Logged /\ \E i \in 1 .. count : x = NewLine(i, next)
        <3>1. y.no < x.no
            BY <2>3, <2>5
        <3>2. PICK i \in 1 .. count : x = NewLine(i, next)
            BY <2>5
        <3>3. x.no \in Nat /\ y.no \in Nat
            BY <1>3, <1>9, <2>5, <3>2, LoggedIs
        <3>. QED
            BY <3>1, <3>3
    <2>6. CASE (\E i \in 1 .. count : x = NewLine(i, next)) /\ (\E i \in 1 .. count : y = NewLine(i, next))
        <3>1. PICK i \in 1 .. count : x = NewLine(i, next)
            BY <2>6
        <3>2. PICK j \in 1 .. count : y = NewLine(j, next)
            BY <2>6
        <3>3. /\ x.no = made + i /\ x.id = next + i - 1
              /\ y.no = made + j /\ y.id = next + j - 1
            BY <1>9, <3>1, <3>2
        <3>4. x.no < y.no => x.id < y.id
            BY <1>3, <3>3
        <3>5. x.no = y.no => i = j
            BY <1>3, <3>3
        <3>. QED
            BY <3>1, <3>2, <3>4, <3>5
    <2>. QED
        BY <1>7, <2>2, <2>4, <2>5, <2>6
<1>13. CacheNear'
    BY <1>2, <1>3, <1>6 DEF CacheNear
<1>14. OldArePruned'
    <2>1. SUFFICES ASSUME NEW x \in Logged', x \notin LinesIn(files'[Current])
                   PROVE  x.time + Keep < clock
        BY <1>1, <1>3 DEF OldArePruned
    <2>2. x \in Logged /\ x \notin LinesIn(File0)
        BY <1>1, <1>7, <2>1
    <2>. QED
        BY <2>2 DEF IdsOK
<1>15. KeptOK'
    <2>1. SUFFICES ASSUME NEW f \in 1 .. Current, NEW g \in 1 .. Current, f < g,
                          NEW x \in LinesIn(files'[g]), NEW y \in LinesIn(files'[f]),
                          x.no <= y.no, x.no # 0
                   PROVE  x \in LinesIn(files'[f])
        <3>1. \A f, g \in 1 .. Current : f <= g => f < g \/ f = g
            OBVIOUS
        <3>. QED
            BY <1>1, <2>1, <3>1 DEF KeptOK, LinesIn
    <2>2. f # Current /\ files'[f] = files[f]
        BY <1>1, <2>1
    <2>3. y.no \in 0 .. made
        <3>1. y = Unreadable \/ y.no \in 1 .. made
            BY <2>1, <2>2 DEF LogInv, LinesOK
        <3>. QED
            BY <1>3, <3>1 DEF Unreadable
    <2>4. CASE g # Current
        BY <1>1, <2>1, <2>2, <2>4 DEF KeptOK
    <2>5. CASE g = Current /\ x \in LinesIn(File0)
        BY <1>1, <2>1, <2>2, <2>5 DEF KeptOK
    <2>6. CASE \E i \in 1 .. count : x = NewLine(i, next)
        <3>1. PICK i \in 1 .. count : x.no = made + i
            BY <1>9, <2>6
        <3>. QED
            BY <1>3, <2>1, <2>3, <3>1
    <2>7. x # Unreadable
        BY <2>1 DEF Unreadable
    <2>. QED
        BY <1>2, <2>1, <2>4, <2>5, <2>6, <2>7
<1>16. \A x \in Logged' : x \in Logged \/ x.no > made
    <2>1. \A i \in 1 .. count : NewLine(i, next).no > made
        BY <1>3, <1>9
    <2>. QED
        BY <1>7, <2>1
<1>17. IdsOK'
    BY <1>10, <1>11, <1>12, <1>13, <1>14
       DEF IdsOK, NotSplit, NearTime, IdsFollow, CacheNear, OldArePruned
<1>. QED
    BY <1>8, <1>15, <1>16, <1>17

LEMMA PruneIds ==
  ASSUME TypeOK, LogInv, TypeOK', LogInv', IdsOK, KeptOK, Prune
  PROVE  IdsOK' /\ KeptOK' /\ Logged' = Logged
<1>1. /\ Current \in Nat /\ Current >= 1 /\ Current \in 1 .. Current /\ File0 = files[Current]
      /\ Len(files) = Current /\ files \in Seq(File) /\ File0 \in File
    BY FilesAre DEF TypeOK, Current
<1>2. PICK file \in File : file = Pruned(File0)
    BY <1>1, PrunedIs
<1>3. /\ files' = Append(files, file) /\ lastId' = lastId /\ made' = made /\ clock' = clock
    BY <1>2 DEF Prune
<1>4. /\ Current' = Current + 1 /\ files'[Current + 1] = file
      /\ \A f \in 1 .. Current : files'[f] = files[f]
    <2>1. /\ Len(Append(files, file)) = Len(files) + 1
          /\ \A f \in 1 .. Len(files) : Append(files, file)[f] = files[f]
          /\ Append(files, file)[Len(files) + 1] = file
        BY <1>1, AppendIs
    <2>. QED
        BY <1>1, <1>3, <2>1 DEF Current
<1>5. /\ ~file.split
      /\ \A x \in LinesIn(file) : x = Unreadable \/ x \in LinesIn(File0)
      /\ \A x \in LinesIn(File0) : Young(x) => x \in LinesIn(file)
    BY <1>1, <1>2, PrunedIs
<1>6. \A f \in 1 .. Current + 1 : f \in 1 .. Current \/ f = Current + 1
    BY <1>1
<1>7. \A x : x \in Logged' <=> x # Unreadable /\ \E f \in 1 .. Current + 1 : x \in LinesIn(files'[f])
    BY <1>4 DEF Logged, LinesIn, Current
<1>8. Logged' = Logged
    <2>1. ASSUME NEW x \in Logged' PROVE x \in Logged
        <3>1. PICK f \in 1 .. Current + 1 : x # Unreadable /\ x \in LinesIn(files'[f])
            BY <1>7, <2>1
        <3>2. CASE f \in 1 .. Current
            BY <1>4, <3>1, <3>2, LoggedIs
        <3>3. CASE f = Current + 1
            BY <1>1, <1>4, <1>5, <3>1, <3>3, LoggedIs
        <3>. QED
            BY <1>6, <3>2, <3>3
    <2>2. ASSUME NEW x \in Logged PROVE x \in Logged'
        <3>1. PICK f \in 1 .. Current : x # Unreadable /\ x \in LinesIn(files[f])
            BY <2>2, LoggedIs
        <3>2. f \in 1 .. Current + 1 /\ x \in LinesIn(files'[f])
            BY <1>1, <1>4, <3>1
        <3>. QED
            BY <1>7, <3>1, <3>2
    <2>. QED
        BY <2>1, <2>2
<1>9. NotSplit' /\ NearTime' /\ IdsFollow' /\ CacheNear'
    <2>1. NotSplit'
        <3>1. SUFFICES ASSUME NEW f \in 1 .. Current + 1 PROVE ~files'[f].split
            BY <1>4 DEF NotSplit
        <3>. QED
            BY <1>4, <1>5, <1>6 DEF IdsOK
    <2>2. NearTime' /\ IdsFollow' /\ CacheNear'
        BY <1>3, <1>8 DEF IdsOK, NearTime, IdsFollow, CacheNear
    <2>. QED
        BY <2>1, <2>2
<1>10. OldArePruned'
    <2>1. SUFFICES ASSUME NEW x \in Logged, x \notin LinesIn(file) PROVE x.time + Keep < clock
        <3>1. File0' = file
            BY <1>4 DEF File0
        <3>. QED
            BY <1>3, <1>8, <2>1, <3>1 DEF OldArePruned
    <2>2. CASE x \notin LinesIn(File0)
        BY <2>2 DEF IdsOK
    <2>3. CASE x \in LinesIn(File0)
        <3>1. ~Young(x) /\ x.id # 0 /\ x.time \in Nat /\ clock \in Nat /\ Keep \in Nat
            BY <1>5, <2>1, <2>3, LoggedIs, FilesAre
        <3>. QED
            BY <3>1 DEF Young
    <2>. QED
        BY <2>2, <2>3
<1>11. KeptOK'
    <2>1. SUFFICES ASSUME NEW f \in 1 .. Current + 1, NEW g \in 1 .. Current + 1, f <= g,
                          NEW x \in LinesIn(files'[g]), NEW y \in LinesIn(files'[f]),
                          x.no <= y.no, x.no # 0
                   PROVE  x \in LinesIn(files'[f])
        BY <1>4 DEF KeptOK, LinesIn
    <2>2. CASE f = Current + 1
        <3>1. g = Current + 1
            BY <1>1, <2>1, <2>2
        <3>. QED
            BY <2>1, <2>2, <3>1
    <2>3. CASE f \in 1 .. Current /\ g \in 1 .. Current
        BY <1>4, <2>1, <2>3 DEF KeptOK
    <2>4. CASE f \in 1 .. Current /\ g = Current + 1
        <3>1. x \in LinesIn(files[Current])
            <4>1. x # Unreadable
                BY <2>1 DEF Unreadable
            <4>. QED
                BY <1>1, <1>4, <1>5, <2>1, <2>4, <4>1
        <3>2. f <= Current
            BY <2>4
        <3>. QED
            BY <1>1, <1>4, <2>1, <2>4, <3>1, <3>2 DEF KeptOK
    <2>. QED
        BY <1>6, <2>2, <2>3, <2>4
<1>. QED
    BY <1>8, <1>9, <1>10, <1>11 DEF IdsOK, NotSplit, NearTime, IdsFollow, CacheNear, OldArePruned

LEMMA SameIds ==
  ASSUME TypeOK, LogInv, IdsOK, KeptOK, files' = files, made' = made, clock' \in Nat, clock' >= clock,
         lastId' \in {lastId, Unknown, LastId}
  PROVE  IdsOK' /\ KeptOK' /\ Logged' = Logged
<1>1. Logged' = Logged /\ Current' = Current /\ File0' = File0
    BY DEF Logged, Current, File0
<1>2. clock \in Nat /\ made \in Nat /\ LastId \in Nat /\ Keep \in Nat
    BY FilesAre, LastIdIs
<1>3. \A x \in Logged : x.time \in Nat /\ x.id \in Nat /\ x.no \in Nat
    BY LoggedIs
<1>4. NotSplit' /\ IdsFollow'
    BY <1>1 DEF IdsOK, NotSplit, IdsFollow
<1>5. NearTime'
    BY <1>1, <1>2, <1>3 DEF IdsOK, NearTime
<1>6. CacheNear'
    <2>1. lastId # Unknown => lastId + 1 <= clock + made
        BY DEF IdsOK
    <2>2. lastId # Unknown => lastId \in Nat
        BY DEF TypeOK
    <2>3. LastId + 1 <= clock + made
        BY LastIdBound
    <2>4. \A n \in Nat : n + 1 <= clock + made => n + 1 <= clock' + made
        <3>1. PICK now \in Nat : now = clock' /\ now >= clock
            OBVIOUS
        <3>2. PICK then \in Nat, sum \in Nat : then = clock /\ sum = made
            BY <1>2
        <3>3. \A n \in Nat : n + 1 <= then + sum => n + 1 <= now + sum
            <4>1. now >= then
                BY <3>1, <3>2
            <4>. QED
                BY <4>1
        <3>. QED
            BY <3>1, <3>2, <3>3
    <2>5. lastId' # Unknown => lastId' \in Nat /\ lastId' + 1 <= clock + made
        BY <1>2, <2>1, <2>2, <2>3
    <2>. QED
        BY <2>4, <2>5 DEF CacheNear
<1>7. OldArePruned'
    <2>1. \A x \in Logged : x \notin LinesIn(File0) => x.time + Keep < clock
        BY DEF IdsOK
    <2>2. \A x \in Logged : x.time + Keep < clock => x.time + Keep < clock'
        BY <1>2, <1>3
    <2>. QED
        BY <1>1, <2>1, <2>2 DEF OldArePruned
<1>8. KeptOK'
    BY <1>1 DEF KeptOK, LinesIn
<1>. QED
    BY <1>1, <1>4, <1>5, <1>6, <1>7, <1>8
       DEF IdsOK, NotSplit, NearTime, IdsFollow, CacheNear, OldArePruned

IdsInv == Undisturbed => IdsOK /\ KeptOK

LEMMA IdsKeep ==
  ASSUME TypeOK, LogInv, TypeOK', LogInv', IdsInv, MaxLines <= Keep + 2, [Next]_vars, Undisturbed'
  PROVE  /\ Undisturbed /\ IdsOK' /\ KeptOK' /\ Logged \subseteq Logged'
         /\ \A x \in Logged' : x \in Logged \/ x.no > made
<1>1. Undisturbed
    <2>1. faults \subseteq faults'
        <3>1. ASSUME NEW kind, Fault(kind) PROVE faults \subseteq faults'
            BY <3>1 DEF Fault
        <3>2. \/ \E kind \in {"restart", "reset", "back", "short", "cut", "crash"} : Fault(kind)
              \/ faults' = faults
            BY DEF Next, EventLog, ShortWrite, Prune, Restart, FormatReset, Connect, OpenLog, ReadLog,
                   SendLine, EndPass, Handle, Notify, PluginCrash, TimePasses, TimeSteppedBack, vars
        <3>. QED
            BY <3>1, <3>2
    <2>. QED
        BY <2>1 DEF Undisturbed
<1>2. IdsOK /\ KeptOK
    BY <1>1 DEF IdsInv
<1>3. clock \in Nat
    BY FilesAre
<1>4. ASSUME files' = files, made' = made, clock' = clock, lastId' \in {lastId, Unknown, LastId}
      PROVE  IdsOK' /\ KeptOK' /\ Logged' = Logged
    BY <1>2, <1>3, <1>4, SameIds
<1>5. ASSUME UNCHANGED daemon, clock' = clock
      PROVE  IdsOK' /\ KeptOK' /\ Logged' = Logged
    BY <1>4, <1>5 DEF daemon
<1>6. ASSUME NEW count \in 1 .. MaxBatch, EventLog(count)
      PROVE  IdsOK' /\ KeptOK' /\ Logged \subseteq Logged' /\ \A x \in Logged' : x \in Logged \/ x.no > made
    <2>1. Write(count, count, "none") /\ count \in 0 .. count
        BY <1>6 DEF EventLog
    <2>. QED
        BY <1>2, <2>1, WriteIds
<1>7. ASSUME NEW count \in 1 .. MaxBatch, NEW whole \in 0 .. MaxBatch, NEW piece,
             ShortWrite(count, whole, piece)
      PROVE  IdsOK' /\ KeptOK' /\ Logged \subseteq Logged' /\ \A x \in Logged' : x \in Logged \/ x.no > made
    <2>1. whole \in 0 .. count /\ Write(count, whole, piece)
        BY <1>7, ShortWriteIs
    <2>2. piece # "split"
        BY <1>7 DEF ShortWrite, Fault, Undisturbed
    <2>. QED
        BY <1>2, <2>1, <2>2, WriteIds
<1>8. ASSUME Prune PROVE IdsOK' /\ KeptOK' /\ Logged' = Logged
    BY <1>2, <1>8, PruneIds
<1>9. ASSUME Restart PROVE IdsOK' /\ KeptOK' /\ Logged' = Logged
    <2>1. files' = files /\ made' = made /\ clock' = clock /\ lastId' = Unknown
        BY <1>9 DEF Restart, EndConnections
    <2>. QED
        BY <1>4, <2>1
<1>10. ~FormatReset /\ ~TimeSteppedBack
    BY DEF FormatReset, TimeSteppedBack, Fault, Undisturbed
<1>11. ASSUME NEW r \in Readers, Connect(r) PROVE IdsOK' /\ KeptOK' /\ Logged' = Logged
    BY <1>4, <1>11 DEF Connect
<1>12. ASSUME NEW r \in Readers, OpenLog(r) \/ ReadLog(r) \/ SendLine(r) \/ Notify(r)
       PROVE  IdsOK' /\ KeptOK' /\ Logged' = Logged
    BY <1>5, <1>12 DEF OpenLog, ReadLog, SendLine, Notify
<1>13. ASSUME NEW r \in Readers, NEW changed \in BOOLEAN, EndPass(r, changed)
       PROVE  IdsOK' /\ KeptOK' /\ Logged' = Logged
    BY <1>5, <1>13 DEF EndPass
<1>14. ASSUME NEW r \in Readers, Handle(r) PROVE IdsOK' /\ KeptOK' /\ Logged' = Logged
    BY <1>5, <1>14 DEF Handle
<1>15. ASSUME NEW r \in Readers, PluginCrash(r) PROVE IdsOK' /\ KeptOK' /\ Logged' = Logged
    BY <1>5, <1>15 DEF PluginCrash
<1>16. ASSUME TimePasses PROVE IdsOK' /\ KeptOK' /\ Logged' = Logged
    <2>1. files' = files /\ made' = made /\ lastId' = lastId /\ clock' = clock + 1
        BY <1>16 DEF TimePasses, daemon
    <2>2. clock' \in Nat /\ clock' >= clock
        BY <1>3, <2>1
    <2>. QED
        BY <1>2, <2>1, <2>2, SameIds
<1>17. ASSUME UNCHANGED vars PROVE IdsOK' /\ KeptOK' /\ Logged' = Logged
    BY <1>5, <1>17 DEF vars
<1>. QED
    BY <1>1, <1>6, <1>7, <1>8, <1>9, <1>10, <1>11, <1>12, <1>13, <1>14, <1>15, <1>16, <1>17 DEF Next

\* In one file the ids increase, and no line has a larger id than the last one
\* that the daemon counts from, whatever happens to the clock and the files.
LEMMA FileIdsIncrease ==
  ASSUME TypeOK, LogInv, NEW f \in 1 .. Len(files), ~files[f].split
  PROVE  LET lines == files[f].lines
         IN  /\ \A i, j \in 1 .. Len(lines) :
                    i < j /\ lines[i].id # 0 /\ lines[j].id # 0 => lines[i].id < lines[j].id
             /\ f = Current => \A i \in 1 .. Len(lines) : lines[i].id <= LastId
<1>1. PICK lines \in Seq(Line) : lines = files[f].lines
    BY FilesAre DEF File, Current
<1>2. \A i, j \in 1 .. Len(lines) :
          i < j /\ lines[i].id # 0 /\ lines[j].id # 0 => lines[i].id < lines[j].id
    BY <1>1 DEF LogInv, FileOrder, Current
<1>3. ASSUME f = Current, NEW i \in 1 .. Len(lines) PROVE lines[i].id <= LastId
    <2>1. lines[i] \in LinesIn(File0) /\ ~File0.split
        BY <1>1, <1>3, LinesAre, FilesAre DEF Current
    <2>2. CASE lastId = Unknown
        BY <2>1, <2>2, LastIdIs
    <2>3. CASE lastId # Unknown
        <3>1. lines[i].id <= lastId
            BY <1>1, <1>3, <2>1, <2>3 DEF LogInv, FileOrder, File0
        <3>. QED
            BY <2>3, <3>1, LastIdIs
    <2>. QED
        BY <2>2, <2>3
<1>. QED
    BY <1>1, <1>2, <1>3

LEMMA InitIds == Init => IdsInv
<1>1. SUFFICES ASSUME Init PROVE IdsOK /\ KeptOK
    BY DEF IdsInv
<1>2. files = <<NoFile>> /\ Current = 1 /\ files[1] = NoFile /\ File0 = NoFile
    BY <1>1 DEF Init, Current, File0
<1>3. LinesIn(NoFile) = {}
    BY EmptyIs DEF LinesIn, NoFile
<1>4. Logged = {}
    BY <1>2, <1>3 DEF Logged, LinesIn, Current
<1>5. lastId = Unknown /\ \A f \in 1 .. Current : f = 1
    BY <1>1, <1>2 DEF Init
<1>. QED
    BY <1>2, <1>3, <1>4, <1>5 DEF IdsOK, KeptOK, NoFile

\* The id of a line is larger than that of each earlier line that any file had,
\* also after a prune of all lines and a restart of the daemon, and in one file
\* the ids increase whatever happens (event_log, next_id, read_last_id).  The
\* lines are at most two more than the age of a prune in milliseconds.
THEOREM IdsAlwaysIncrease == MaxLines <= Keep + 2 => (Spec => []IdsIncrease)
<1> SUFFICES ASSUME MaxLines <= Keep + 2 PROVE Spec => []IdsIncrease
    OBVIOUS
<1>1. Init => IdsInv
    BY InitIds
<1>2. TypeOK /\ LogInv /\ TypeOK' /\ LogInv' /\ IdsInv /\ [Next]_vars => IdsInv'
    BY IdsKeep DEF IdsInv
<1>3. TypeOK /\ LogInv /\ IdsInv => IdsIncrease
    <2>1. SUFFICES ASSUME TypeOK, LogInv, IdsInv PROVE IdsIncrease
        OBVIOUS
    <2>2. Undisturbed => \A a, b \in Logged : a.no < b.no => a.id < b.id
        BY <2>1 DEF IdsInv, IdsOK
    <2>. QED
        BY <2>1, <2>2, FileIdsIncrease DEF IdsIncrease
<1>. QED
    BY <1>1, <1>2, <1>3, FollowInvariant, PTL DEF Spec

-----------------------------------------------------------------------------
(* No reader skips a line *)

GapOK(r) == TopOK(r) /\ NoGap(r)

LEMMA TakenAre ==
  ASSUME TypeOK, NEW r \in Readers, FlowOK(r)
  PROVE  /\ \A n \in Taken(r) : n \in Nat /\ n <= made
         /\ \A n : n \in Taken(r) <=> n \in handled[r] \/ \E p \in OnWay(r) : n = p.no
         /\ made \in Nat
<1>1. \A n : n \in Taken(r) <=> n \in handled[r] \/ \E p \in OnWay(r) : n = p.no
    BY DEF Taken
<1>2. \A h \in handled[r] : h \in 1 .. made
    BY DEF FlowOK, HandledOK
<1>3. \A p \in OnWay(r) : p.no \in 1 .. made
    BY DEF FlowOK, ItemsOK
<1>4. made \in Nat
    BY FilesAre
<1>. QED
    BY <1>1, <1>2, <1>3, <1>4

LEMMA InFileIs ==
  ASSUME TypeOK
  PROVE  /\ \A n : n \in InFile <=> n # 0 /\ \E x \in LinesIn(File0) : x.no = n
         /\ InFile \subseteq Nat
<1>1. \A n : n \in InFile <=> n # 0 /\ \E x \in LinesIn(File0) : x.no = n
    BY DEF InFile, LinesIn
<1>2. \A x \in LinesIn(File0) : x.no \in Nat
    <2>1. Current \in 1 .. Current /\ File0 = files[Current]
        BY FilesAre
    <2>2. \A x \in LinesIn(File0) : x \in Line
        BY <2>1, LinesAre
    <2>. QED
        BY <2>2 DEF Line
<1>. QED
    BY <1>1, <1>2

\* The log grows or forgets lines, or the connection ends and drops the last
\* items that are on the way.
LEMMA GapLater ==
  ASSUME TypeOK, NEW r \in Readers, FlowOK(r), GapOK(r), Logged \subseteq Logged',
         \A n \in InFile' : n \in InFile \/ (n \in Nat /\ n > made),
         OnWay(r)' \subseteq OnWay(r), handled'[r] = handled[r], reader'[r] = reader[r],
         \A p \in OnWay(r), q \in OnWay(r)' : p \in OnWay(r)' \/ q.no < p.no,
         conn'[r].st # "closed" =>
             conn[r].st # "closed" /\ conn'[r].last = conn[r].last /\ OnWay(r)' = OnWay(r)
  PROVE  GapOK(r)'
<1>1. /\ \A n : n \in Taken(r)' <=> n \in handled[r] \/ \E p \in OnWay(r)' : n = p.no
      /\ Taken(r)' \subseteq Taken(r)
    BY DEF Taken
<1>2. TopOK(r)'
    <2>1. \A p \in OnWay(r)' : \E x \in Logged' : x.no = p.no /\ x.id = p.id
        BY DEF GapOK, TopOK
    <2>2. handled[r] # {} => \E x \in Logged' : IsTop(x, r, handled[r]) /\ x.id = reader[r]
        BY DEF GapOK, TopOK
    <2>3. ASSUME conn'[r].st # "closed", Taken(r)' # {}
          PROVE  \E x \in Logged' : IsTop(x, r, Taken(r)') /\ x.id = conn'[r].last
        <3>1. Taken(r)' = Taken(r)
            BY <2>3 DEF Taken
        <3>. QED
            BY <2>3, <3>1 DEF GapOK, TopOK
    <2>. QED
        BY <2>1, <2>2, <2>3 DEF TopOK, IsTop
<1>3. NoGap(r)'
    <2>1. SUFFICES ASSUME NEW n \in InFile', NEW a \in Taken(r)', NEW b \in Taken(r)', a < n, n < b,
                          \A h \in handled[r] : h < n
                   PROVE  \E p \in OnWay(r)' : n = p.no
        BY DEF NoGap
    <2>2. a \in Taken(r) /\ b \in Taken(r) /\ b \in Nat /\ b <= made /\ made \in Nat /\ n \in Nat
        <3>1. n \in Nat
            BY <2>1, InFileIs
        <3>. QED
            BY <1>1, <2>1, <3>1, TakenAre
    <2>3. n \in InFile
        BY <2>1, <2>2
    <2>4. PICK p \in OnWay(r) : n = p.no
        BY <2>1, <2>2, <2>3 DEF GapOK, NoGap
    <2>5. b \notin handled[r]
        BY <2>1, <2>2
    <2>6. PICK q \in OnWay(r)' : b = q.no
        BY <1>1, <2>1, <2>5
    <2>7. p \in OnWay(r)'
        BY <2>1, <2>2, <2>4, <2>6
    <2>. QED
        BY <2>4, <2>7
<1>. QED
    BY <1>2, <1>3 DEF GapOK

LEMMA ConnectGap ==
  ASSUME TypeOK, NEW r \in Readers, FlowOK(r), GapOK(r), Logged' = Logged, Connect(r)
  PROVE  GapOK(r)'
<1>1. PICK last \in Nat : last = LastId
    BY LastIdIs
<1>2. /\ pipe[r] = <<>> /\ conn[r].out = <<>> /\ pipe'[r] = <<Sidebar(last)>>
      /\ conn'[r] = [Closed EXCEPT !.st = "idle",
                         !.last = IF reader[r] = Unknown THEN last ELSE reader[r]]
      /\ files' = files /\ reader' = reader /\ handled' = handled
    BY <1>1 DEF Connect, TypeOK, FlowOK, ItemsOK
<1>3. conn'[r].out = <<>> /\ conn'[r].last = IF reader[r] = Unknown THEN last ELSE reader[r]
    BY <1>2 DEF Closed
<1>4. Sidebar(last) \in Item /\ Sidebar(last).type = "sidebar"
    BY DEF Sidebar, Item
<1>5. pipe'[r] \in Seq(Item) /\ Len(pipe'[r]) = 1 /\ pipe'[r][1] = Sidebar(last)
    BY <1>2, <1>4, OneElement
<1>6. Range(pipe'[r]) = {Sidebar(last)} /\ Range(conn'[r].out) = {}
    BY <1>3, <1>5, RangeIs, EmptyIs
<1>7. OnWay(r)' = {}
    <2>1. OnWay(r)' = {p \in Range(pipe'[r]) \union Range(conn'[r].out) : p.type = "line"}
        BY DEF OnWay
    <2>. QED
        BY <1>4, <1>6, <2>1
<1>8. Taken(r)' = handled[r]
    <2>1. Taken(r)' = handled'[r] \union {p.no : p \in OnWay(r)'}
        BY DEF Taken
    <2>. QED
        BY <1>2, <1>7, <2>1
<1>9. TopOK(r)'
    <2>1. handled[r] # {} => \E x \in Logged : IsTop(x, r, handled[r]) /\ x.id = reader[r]
        BY DEF GapOK, TopOK
    <2>2. handled[r] # {} => reader[r] # Unknown
        BY DEF FlowOK, StartOK
    <2>3. handled[r] # {} => conn'[r].last = reader[r]
        BY <1>3, <2>2
    <2>. QED
        BY <1>2, <1>7, <1>8, <2>1, <2>3 DEF TopOK, IsTop
<1>10. NoGap(r)'
    <2>1. SUFFICES ASSUME NEW n \in InFile', NEW b \in handled[r], n < b, \A h \in handled[r] : h < n
                   PROVE  FALSE
        BY <1>2, <1>8 DEF NoGap
    <2>2. n \in Nat /\ b \in Nat
        <3>1. InFile' = InFile
            BY <1>2 DEF InFile, File0, Current
        <3>. QED
            BY <2>1, <3>1, InFileIs, FlowIs
    <2>. QED
        BY <2>1, <2>2
<1>. QED
    BY <1>9, <1>10 DEF GapOK

LEMMA ReadLogGap ==
  ASSUME TypeOK, LogInv, IdsOK, KeptOK, NEW r \in Readers, FlowOK(r), GapOK(r), ReadLog(r)
  PROVE  GapOK(r)'
<1>1. PICK g \in 1 .. Current, lines \in Seq(Line), out \in Seq(Item), last \in Nat :
         \E new \in SUBSET (1 .. Len(lines)) : Reads(r, g, lines, new, out, last)
    BY ReadLogIs
<1>2. PICK new \in SUBSET (1 .. Len(lines)) : Reads(r, g, lines, new, out, last)
    BY <1>1
<1>3. Finds(r, g, lines, new, out)
    BY <1>2, ReadLogNew
<1>4. PICK c \in Conn : c = conn[r] /\ c.st = "opened" /\ g = c.opened /\ lines = files[g].lines
    BY <1>2, FlowIs DEF Reads
<1>5. /\ new = {i \in LinesAfter(c) : lines[i].id > c.last}
      /\ last = c.last \/ \E i \in new : last = lines[i].id
      /\ c.last <= last /\ c.last \in Nat /\ \A i \in new : lines[i].id <= last
    BY <1>2, <1>4 DEF Reads, Conn
<1>6. /\ conn'[r].last = last /\ files' = files /\ reader' = reader /\ handled' = handled
    <2>1. conn'[r] = [st |-> "sending", last |-> last, file |-> g,
                      offset |-> StartOf(c) + Cardinality(LinesAfter(c)), opened |-> 0, out |-> out]
        BY <1>2, <1>4 DEF Reads
    <2>2. files' = files /\ reader' = reader /\ handled' = handled
        BY <1>2 DEF Reads
    <2>. QED
        BY <2>1, <2>2
<1>7. Logged' = Logged /\ InFile' = InFile
    BY <1>6 DEF Logged, InFile, File0, Current
<1>8. OnWay(r)' = OnWay(r) \union Range(out)
    BY <1>3 DEF Finds
<1>9. \A n : n \in Taken(r)' <=> n \in Taken(r) \/ \E i \in new : n = lines[i].no
    <2>1. \A n : n \in Taken(r)' <=> n \in handled[r] \/ \E p \in OnWay(r)' : n = p.no
        BY <1>6 DEF Taken
    <2>2. \A n : (\E p \in Range(out) : n = p.no) <=> \E i \in new : n = lines[i].no
        <3>1. /\ \A q \in Range(out) : \E i \in new : q.no = lines[i].no
              /\ \A i \in new : \E q \in Range(out) : q.no = lines[i].no
            BY <1>3 DEF Finds
        <3>. QED
            BY <3>1
    <2>3. \A n : n \in Taken(r) <=> n \in handled[r] \/ \E p \in OnWay(r) : n = p.no
        BY TakenAre
    <2>4. \A n : (\E p \in OnWay(r)' : n = p.no)
                    <=> (\E p \in OnWay(r) : n = p.no) \/ (\E p \in Range(out) : n = p.no)
        BY <1>8
    <2>. QED
        BY <2>1, <2>2, <2>3, <2>4
<1>10. ASSUME NEW i \in new
       PROVE  /\ lines[i] \in Logged /\ lines[i].id \in Nat /\ lines[i].no \in Nat
              /\ lines[i].id > c.last /\ \A n \in Taken(r) : n < lines[i].no
    <2>1. /\ lines[i] \in LinesIn(files[g]) /\ lines[i].id \in Nat /\ lines[i].no \in Nat
          /\ lines[i].id > 0 /\ lines[i].id > c.last
        BY <1>3, <1>4 DEF Finds
    <2>2. lines[i] \in Logged
        BY <2>1, LoggedIs DEF Unreadable
    <2>3. \A n \in Taken(r) : n < lines[i].no
        <3>1. /\ \A h \in handled[r] : h < lines[i].no
              /\ \A p \in OnWay(r) : p.no < lines[i].no
            BY <1>3, <1>10 DEF Finds
        <3>2. \A n \in Taken(r) : n \in handled[r] \/ \E p \in OnWay(r) : n = p.no
            BY TakenAre
        <3>. QED
            BY <3>1, <3>2
    <2>. QED
        BY <2>1, <2>2, <2>3
<1>11. \A x, y \in Logged : /\ x.id \in Nat /\ x.no \in Nat
                            /\ x.no < y.no => x.id < y.id
    BY LoggedIs DEF IdsOK
<1>12. \A n \in Taken(r) : n \in Nat
    BY TakenAre
<1>13. TopOK(r)'
    <2>1. ASSUME NEW p \in OnWay(r)' PROVE \E x \in Logged : x.no = p.no /\ x.id = p.id
        <3>1. CASE p \in OnWay(r)
            BY <3>1 DEF GapOK, TopOK
        <3>2. CASE p \in Range(out)
            <4>1. PICK i \in new : p.no = lines[i].no /\ p.id = lines[i].id
                BY <1>3, <3>2 DEF Finds
            <4>. QED
                BY <1>10, <4>1
        <3>. QED
            BY <1>8, <2>1, <3>1, <3>2
    <2>2. ASSUME Taken(r)' # {}
          PROVE  \E x \in Logged : IsTop(x, r, Taken(r)') /\ x.id = last
        <3>1. CASE new = {}
            <4>1. Taken(r)' = Taken(r) /\ last = c.last
                BY <1>5, <1>9, <3>1
            <4>. QED
                BY <1>4, <2>2, <4>1 DEF GapOK, TopOK
        <3>2. CASE new # {}
            <4>1. PICK j \in new : TRUE
                BY <3>2
            <4>2. last # c.last
                BY <1>5, <1>10, <4>1
            <4>3. PICK i \in new : last = lines[i].id
                BY <1>5, <4>2
            <4>4. ASSUME NEW k \in new PROVE lines[k].no <= lines[i].no
                <5>1. lines[k].id <= lines[i].id /\ lines[k] \in Logged /\ lines[i] \in Logged
                    BY <1>5, <1>10, <4>3, <4>4
                <5>2. ~(lines[i].no < lines[k].no)
                    <6>1. /\ lines[i].no < lines[k].no => lines[i].id < lines[k].id
                          /\ lines[i].id \in Nat /\ lines[k].id \in Nat
                        BY <1>11, <5>1
                    <6>. QED
                        BY <5>1, <6>1
                <5>. QED
                    BY <1>10, <4>4, <5>2
            <4>5. \A n \in Taken(r)' : n <= lines[i].no
                <5>1. \A n \in Taken(r) : n <= lines[i].no
                    BY <1>10, <1>12
                <5>. QED
                    BY <1>9, <4>4, <5>1
            <4>6. IsTop(lines[i], r, Taken(r)')
                BY <1>9, <4>5 DEF IsTop
            <4>. QED
                BY <1>10, <4>3, <4>6
        <3>. QED
            BY <3>1, <3>2
    <2>3. handled[r] # {} => \E x \in Logged : IsTop(x, r, handled[r]) /\ x.id = reader[r]
        BY DEF GapOK, TopOK
    <2>. QED
        BY <1>6, <1>7, <2>1, <2>2, <2>3 DEF TopOK, IsTop
<1>14. NoGap(r)'
    <2>1. SUFFICES ASSUME NEW n \in InFile, NEW a \in Taken(r)', NEW b \in Taken(r)', a < n, n < b,
                          \A h \in handled[r] : h < n
                   PROVE  \E p \in OnWay(r)' : n = p.no
        BY <1>6, <1>7 DEF NoGap
    <2>2. n \in Nat
        BY InFileIs
    <2>3. SUFFICES ASSUME ~ \E p \in OnWay(r) : n = p.no PROVE \E p \in Range(out) : n = p.no
        BY <1>8
    <2>4. n \notin Taken(r)
        BY <2>1, <2>2, <2>3, TakenAre
    <2>5. \A m \in Taken(r) : a \in Taken(r) => m < n
        BY <1>12, <2>1, <2>2, <2>3, <2>4 DEF GapOK, NoGap
    <2>6. a \in Taken(r) \/ \A m \in Taken(r) : m < n
        BY <1>9, <1>10, <1>12, <2>1, <2>2
    <2>7. \A m \in Taken(r) : m < n
        BY <2>5, <2>6
    <2>8. b \notin Taken(r)
        BY <1>12, <2>1, <2>2, <2>7
    <2>9. PICK j \in new : b = lines[j].no
        BY <1>9, <2>8
    <2>10. PICK z \in LinesIn(File0) : z.no = n /\ n # 0
        BY InFileIs
    <2>11. ~files[g].split /\ lines[j] \in LinesIn(files[g]) /\ j \in LinesAfter(c)
        BY <1>3, <1>5, <2>9 DEF Finds
    <2>12. z \in LinesIn(files[g])
        <3>1. Current \in 1 .. Current /\ g <= Current /\ File0 = files[Current]
            BY FilesAre
        <3>2. z.no <= lines[j].no
            BY <1>10, <2>1, <2>2, <2>9, <2>10
        <3>. QED
            BY <2>10, <2>11, <3>1, <3>2 DEF KeptOK
    <2>13. PICK k \in 1 .. Len(lines) : z = lines[k]
        BY <1>4, <2>12, LinesAre
    <2>14. z \in Logged
        BY <2>10, <2>12, LoggedIs DEF Unreadable
    <2>15. k \in new
        <3>1. SUFFICES ASSUME k \notin new PROVE FALSE
            OBVIOUS
        <3>2. z.id <= c.last
            <4>1. \/ k \in LinesAfter(c) \/ (c.file = g /\ k \in 1 .. c.offset)
                BY <1>4, <2>11, <2>13, LinesAfterAre
            <4>2. CASE k \in LinesAfter(c)
                BY <1>5, <1>11, <2>13, <2>14, <3>1, <4>2
            <4>3. CASE c.file = g /\ k \in 1 .. c.offset
                BY <1>4, <2>13, <4>3 DEF FlowOK, LastOK
            <4>. QED
                BY <4>1, <4>2, <4>3
        <3>3. CASE Taken(r) = {}
            <4>1. PICK i \in new : a = lines[i].no
                BY <1>9, <3>3
            <4>2. lines[i] \in Logged /\ lines[i].id > c.last /\ lines[i].id \in Nat /\ lines[i].no < z.no
                BY <1>10, <2>1, <2>10, <4>1
            <4>3. lines[i].id < z.id /\ z.id \in Nat
                BY <1>11, <2>14, <4>2
            <4>. QED
                BY SMTT(60), <1>5, <3>2, <4>2, <4>3
        <3>4. CASE Taken(r) # {}
            <4>1. PICK x \in Logged : IsTop(x, r, Taken(r)) /\ x.id = c.last
                BY <1>4, <3>4 DEF GapOK, TopOK
            <4>2. x.no < z.no
                BY <2>7, <2>10, <4>1 DEF IsTop
            <4>3. x.id < z.id /\ z.id \in Nat /\ x.id \in Nat
                BY <1>11, <2>14, <4>1, <4>2
            <4>. QED
                BY <3>2, <4>1, <4>3
        <3>. QED
            BY <3>3, <3>4
    <2>. QED
        BY <1>3, <2>10, <2>13, <2>15 DEF Finds
<1>. QED
    BY <1>13, <1>14 DEF GapOK

LEMMA HandleGap ==
  ASSUME TypeOK, LogInv, IdsOK, NEW r \in Readers, FlowOK(r), GapOK(r), Handle(r)
  PROVE  GapOK(r)'
<1>1. PICK s \in Seq(Item), count \in Nat, rest \in Seq(Item), numbers \in Seq(Nat) :
         Takes(r, s, count, rest, numbers)
    BY HandleIs
<1>2. Leaves(r, s, count)
    BY <1>1, TakesFirst
<1>3. /\ Range(numbers) = {s[i].no : i \in {j \in 1 .. count : s[j].type = "line"}}
      /\ handled'[r] = handled[r] \union Range(numbers)
      /\ files' = files /\ conn' = conn
    BY <1>1 DEF Takes
<1>4. PICK at : at = {j \in 1 .. count : s[j].type = "line"}
    OBVIOUS
<1>5. \A n : n \in Range(numbers) <=> \E i \in at : n = s[i].no
    BY <1>3, <1>4
<1>6. \A i \in at : /\ s[i] \in OnWay(r) /\ s[i].id \in Nat /\ s[i].no \in Nat
                    /\ \A h \in handled[r] : h < s[i].no
    BY <1>2, <1>4 DEF Leaves, FlowOK, HandledOK
<1>7. OnWay(r)' \subseteq OnWay(r) /\ \A p \in OnWay(r) : p \in OnWay(r)' \/ \E i \in at : p = s[i]
    BY <1>2, <1>4 DEF Leaves
<1>8. Logged' = Logged /\ InFile' = InFile
    BY <1>3 DEF Logged, InFile, File0, Current
<1>9. Taken(r)' = Taken(r)
    <2>1. \A n : n \in Taken(r) <=> n \in handled[r] \/ \E p \in OnWay(r) : n = p.no
        BY TakenAre
    <2>2. \A n : n \in Taken(r)' <=> n \in handled'[r] \/ \E p \in OnWay(r)' : n = p.no
        BY DEF Taken
    <2>3. ASSUME NEW n \in Taken(r) PROVE n \in Taken(r)'
        <3>1. CASE n \in handled[r]
            BY <1>3, <2>2, <3>1
        <3>2. CASE \E p \in OnWay(r) : n = p.no
            <4>1. PICK p \in OnWay(r) : n = p.no
                BY <3>2
            <4>2. CASE p \in OnWay(r)'
                BY <2>2, <4>1, <4>2
            <4>3. CASE \E i \in at : p = s[i]
                BY <1>3, <1>5, <2>2, <4>1, <4>3
            <4>. QED
                BY <1>7, <4>2, <4>3
        <3>. QED
            BY <2>1, <2>3, <3>1, <3>2
    <2>4. ASSUME NEW n \in Taken(r)' PROVE n \in Taken(r)
        <3>1. CASE n \in handled[r]
            BY <2>1, <3>1
        <3>2. CASE n \in Range(numbers)
            BY <1>5, <1>6, <2>1, <3>2
        <3>3. CASE \E p \in OnWay(r)' : n = p.no
            BY <1>7, <2>1, <3>3
        <3>. QED
            BY <1>3, <2>2, <2>4, <3>1, <3>2, <3>3
    <2>. QED
        BY <2>3, <2>4
<1>10. \A x, y \in Logged : /\ x.id \in Nat /\ x.no \in Nat
                            /\ x.no < y.no => x.id < y.id
    BY LoggedIs DEF IdsOK
\* The new id of the reader is that of the newest line that it has.
<1>11. ASSUME handled'[r] # {}
       PROVE  \E x \in Logged : IsTop(x, r, handled'[r]) /\ x.id = reader'[r]
    <2>1. CASE at = {}
        <3>1. handled'[r] = handled[r] /\ handled[r] # {}
            BY <1>3, <1>5, <1>11, <2>1
        <3>2. reader[r] # Unknown
            BY <3>1 DEF FlowOK, StartOK
        <3>3. \A i \in 1 .. count : s[i].type # "line"
            BY <1>4, <2>1
        <3>4. reader'[r] = reader[r]
            BY <1>1, <3>2, <3>3 DEF Takes
        <3>. QED
            BY <3>1, <3>4 DEF GapOK, TopOK
    <2>2. CASE at # {}
        <3>1. \E i \in 1 .. count : s[i].type = "line"
            BY <1>4, <2>2
        <3>2. \E i \in 1 .. count :
                  /\ s[i].type = "line" /\ reader'[r] = s[i].id
                  /\ \A j \in 1 .. count : s[j].type = "line" => s[j].id <= s[i].id
            BY <1>1, <3>1 DEF Takes
        <3>3. PICK i \in at : reader'[r] = s[i].id /\ \A j \in at : s[j].id <= s[i].id
            BY <1>4, <3>2
        <3>4. PICK x \in Logged : x.no = s[i].no /\ x.id = s[i].id
            BY <1>6 DEF GapOK, TopOK
        <3>5. ASSUME NEW j \in at PROVE s[j].no <= x.no
            <4>1. PICK y \in Logged : y.no = s[j].no /\ y.id = s[j].id
                BY <1>6, <3>5 DEF GapOK, TopOK
            <4>2. y.id <= x.id
                BY <3>3, <3>4, <3>5, <4>1
            <4>3. /\ x.no < y.no => x.id < y.id
                  /\ x.id \in Nat /\ y.id \in Nat /\ x.no \in Nat /\ y.no \in Nat
                BY <1>10
            <4>4. y.no <= x.no
                BY <4>2, <4>3
            <4>. QED
                BY <4>1, <4>4
        <3>6. \A h \in handled[r] : h <= x.no
            <4>1. \A h \in handled[r] : h < s[i].no /\ h \in Nat
                BY <1>6, FlowIs
            <4>. QED
                BY <1>6, <3>4, <4>1
        <3>7. \A h \in handled'[r] : h <= x.no
            <4>1. \A h \in Range(numbers) : \E j \in at : h = s[j].no
                BY <1>5
            <4>2. \A h \in Range(numbers) : h <= x.no
                BY <3>5, <4>1
            <4>. QED
                BY <1>3, <3>6, <4>2
        <3>8. x.no \in handled'[r]
            BY <1>3, <1>5, <3>4
        <3>. QED
            BY <3>3, <3>4, <3>7, <3>8 DEF IsTop
    <2>. QED
        BY <2>1, <2>2
<1>12. TopOK(r)'
    <2>1. \A p \in OnWay(r)' : \E x \in Logged : x.no = p.no /\ x.id = p.id
        BY <1>7 DEF GapOK, TopOK
    <2>2. conn[r].st # "closed" /\ Taken(r) # {} =>
              \E x \in Logged : IsTop(x, r, Taken(r)) /\ x.id = conn[r].last
        BY DEF GapOK, TopOK
    <2>. QED
        BY <1>3, <1>8, <1>9, <1>11, <2>1, <2>2 DEF TopOK, IsTop
<1>13. NoGap(r)'
    <2>1. SUFFICES ASSUME NEW n \in InFile, NEW a \in Taken(r), NEW b \in Taken(r), a < n, n < b,
                          \A h \in handled'[r] : h < n
                   PROVE  \E p \in OnWay(r)' : n = p.no
        BY <1>8, <1>9 DEF NoGap
    <2>2. PICK p \in OnWay(r) : n = p.no
        BY <1>3, <2>1 DEF GapOK, NoGap
    <2>3. ~ \E i \in at : p = s[i]
        <3>1. SUFFICES ASSUME NEW i \in at, p = s[i] PROVE FALSE
            OBVIOUS
        <3>2. n \in handled'[r] /\ n \in Nat
            BY <1>3, <1>5, <1>6, <2>2, <3>1
        <3>. QED
            BY <2>1, <3>2
    <2>. QED
        BY <1>7, <2>2, <2>3
<1>. QED
    BY <1>12, <1>13 DEF GapOK

\* The other steps of a reader keep what is on the way to it.
SameWay(r) ==
    /\ OnWay(r)' = OnWay(r) /\ handled'[r] = handled[r] /\ reader'[r] = reader[r]
    /\ conn'[r].st # "closed" => conn[r].st # "closed" /\ conn'[r].last = conn[r].last

LEMMA SameWayIs ==
  ASSUME TypeOK, NEW r \in Readers, FlowOK(r), NEW changed \in BOOLEAN,
         OpenLog(r) \/ SendLine(r) \/ EndPass(r, changed) \/ Notify(r)
  PROVE  SameWay(r)
<1>1. conn \in [Readers -> Conn] /\ pipe \in [Readers -> Seq(Item)] /\ conn[r] \in Conn
    BY DEF TypeOK
<1>2. handled' = handled /\ reader' = reader
    BY DEF OpenLog, SendLine, EndPass, Notify, plugin
<1>3. OnWay(r)' = {p \in Range(pipe'[r]) \union Range(conn'[r].out) : p.type = "line"}
    BY DEF OnWay
<1>4. CASE OpenLog(r)
    <2>1. pipe' = pipe /\ conn'[r] = [conn[r] EXCEPT !.st = "opened", !.opened = Current]
          /\ conn[r].st = "idle"
        BY <1>1, <1>4 DEF OpenLog
    <2>2. conn'[r].out = conn[r].out /\ conn'[r].last = conn[r].last
        BY <1>1, <2>1 DEF Conn
    <2>. QED
        BY <1>2, <2>1, <2>2 DEF SameWay, OnWay
<1>5. CASE SendLine(r)
    <2>1. PICK out \in Seq(Item), s \in Seq(Item) : out = conn[r].out /\ s = pipe[r] /\ out # <<>>
        BY <1>1, <1>5 DEF Conn, SendLine
    <2>2. /\ Head(out) \in Item /\ Tail(out) \in Seq(Item)
          /\ Range(out) = {Head(out)} \union Range(Tail(out))
        BY <2>1, HeadTailIs
    <2>3. PICK h \in Item, t \in Seq(Item), u \in Seq(Item) :
             h = Head(out) /\ t = Tail(out) /\ u = Append(s, h) /\ Range(u) = Range(s) \union {h}
        <3>1. PICK h \in Item, t \in Seq(Item) : h = Head(out) /\ t = Tail(out)
            BY <2>2
        <3>2. Append(s, h) \in Seq(Item) /\ Range(Append(s, h)) = Range(s) \union {h}
            BY AppendIs
        <3>. QED
            BY <3>1, <3>2
    <2>4. pipe'[r] = u /\ conn'[r] = [conn[r] EXCEPT !.out = t] /\ conn[r].st = "sending"
        BY <1>1, <1>5, <2>1, <2>3 DEF SendLine
    <2>5. conn'[r].out = t /\ conn'[r].last = conn[r].last
        BY <1>1, <2>4 DEF Conn
    <2>6. OnWay(r) = {p \in Range(s) \union Range(out) : p.type = "line"}
        BY <2>1 DEF OnWay
    <2>7. Range(u) \union Range(t) = Range(s) \union Range(out)
        BY <2>2, <2>3
    <2>8. OnWay(r)' = OnWay(r)
        BY <1>3, <2>4, <2>5, <2>6, <2>7
    <2>. QED
        BY <1>2, <2>4, <2>5, <2>8 DEF SameWay
<1>6. CASE EndPass(r, changed)
    <2>1. /\ pipe'[r] = pipe[r] \/ pipe'[r] = Append(pipe[r], Sidebar(0))
          /\ conn'[r] = [conn[r] EXCEPT !.st = "idle"] /\ conn[r].st = "sending"
        BY <1>1, <1>6 DEF EndPass
    <2>2. conn'[r].out = conn[r].out /\ conn'[r].last = conn[r].last
        BY <1>1, <2>1 DEF Conn
    <2>3. Sidebar(0) \in Item /\ Sidebar(0).type # "line"
        BY DEF Sidebar, Item
    <2>4. pipe[r] \in Seq(Item)
        BY <1>1
    <2>5. Range(pipe'[r]) = Range(pipe[r]) \/ Range(pipe'[r]) = Range(pipe[r]) \union {Sidebar(0)}
        <3>1. Range(Append(pipe[r], Sidebar(0))) = Range(pipe[r]) \union {Sidebar(0)}
            BY <2>3, <2>4, AppendIs
        <3>. QED
            BY <2>1, <3>1
    <2>6. OnWay(r)' = OnWay(r)
        BY <1>3, <2>2, <2>3, <2>5 DEF OnWay
    <2>. QED
        BY <1>2, <2>1, <2>2, <2>6 DEF SameWay
<1>7. CASE Notify(r)
    BY <1>7 DEF Notify, SameWay, OnWay
<1>. QED
    BY <1>4, <1>5, <1>6, <1>7

\* The file has no line that it had not, but for those that were made since.
LEMMA InFileLater ==
  ASSUME TypeOK, LogInv, TypeOK', LogInv', [Next]_vars
  PROVE  /\ made \in Nat /\ made' \in Nat /\ made' >= made
         /\ InFile' \subseteq InFile \union (made + 1 .. made')
<1>1. Grown
    BY LogKeeps
<1>2. /\ Current \in Nat /\ Current >= 1 /\ made \in Nat /\ made' \in Nat /\ made' >= made
      /\ Len(files) = Current /\ Len(files') = Current' /\ Current' \in Nat /\ Current' >= Current
      /\ File0 = files[Current] /\ File0' = files'[Current']
    BY <1>1, FilesAre DEF Grown, Current, File0
<1>3. SUFFICES ASSUME NEW n \in InFile' PROVE n \in InFile \union (made + 1 .. made')
    BY <1>2
<1>4. PICK x \in LinesIn(files'[Current']) : x.no = n /\ n # 0
    BY <1>2, <1>3 DEF InFile, LinesIn
<1>5. x # Unreadable
    BY <1>4 DEF Unreadable
<1>6. n \in 1 .. made'
    BY <1>2, <1>4, <1>5 DEF LogInv, LinesOK, LinesIn
<1>7. \/ x.no > made
      \/ Current' <= Len(files) /\ x \in LinesIn(files[Current'])
      \/ x \in LinesIn(files[Current])
    <2>1. Current' \in 1 .. Len(files')
        BY <1>2
    <2>2. \/ x = Unreadable \/ x.no > made
          \/ Current' <= Len(files) /\ x \in LinesIn(files[Current'])
          \/ x \in LinesIn(files[Len(files)])
        BY <1>1, <1>4, <2>1 DEF Grown
    <2>. QED
        BY <1>2, <1>5, <2>2
<1>8. CASE x.no > made
    BY <1>2, <1>4, <1>6, <1>8
<1>9. CASE x \in LinesIn(files[Current])
    BY <1>2, <1>4, <1>9, InFileIs
<1>10. Current' <= Len(files) => Current' = Current
    BY <1>2
<1>. QED
    BY <1>7, <1>8, <1>9, <1>10

LEMMA GapKeeps ==
  ASSUME TypeOK, LogInv, FlowInv, TypeOK', LogInv', FeedInv, MaxLines <= Keep + 2,
         [Next]_vars, Undisturbed', NEW r \in Readers
  PROVE  GapOK(r)'
<1>1. /\ Undisturbed /\ Logged \subseteq Logged' /\ IdsOK /\ KeptOK
    <2>1. IdsInv
        BY DEF FeedInv, IdsInv
    <2>. QED
        BY <2>1, IdsKeep DEF IdsInv
<1>2. FlowOK(r) /\ GapOK(r)
    BY <1>1 DEF FlowInv, FeedInv, GapOK
<1>3. \A n \in InFile' : n \in InFile \/ (n \in Nat /\ n > made)
    <2>1. /\ made \in Nat /\ made' \in Nat
          /\ InFile' \subseteq InFile \union (made + 1 .. made')
        BY InFileLater
    <2>. QED
        BY <2>1
<1>4. /\ conn \in [Readers -> Conn] /\ pipe \in [Readers -> Seq(Item)]
      /\ reader \in [Readers -> Nat \union {Unknown}] /\ handled \in [Readers -> SUBSET Nat]
    BY DEF TypeOK
<1>5. ASSUME SameWay(r) PROVE GapOK(r)'
    BY <1>1, <1>2, <1>3, <1>5, GapLater DEF SameWay
<1>6. ASSUME conn'[r] = conn[r], pipe'[r] = pipe[r], reader'[r] = reader[r], handled'[r] = handled[r]
      PROVE  GapOK(r)'
    BY <1>5, <1>6 DEF SameWay, OnWay
<1>7. Closed.st = "closed" /\ Closed.out = <<>>
    BY DEF Closed
<1>8. ASSUME NEW count \in 1 .. MaxBatch, EventLog(count) PROVE GapOK(r)'
    BY <1>6, <1>8 DEF EventLog, Write, plugin
<1>9. ASSUME NEW count \in 1 .. MaxBatch, NEW whole \in 0 .. MaxBatch, NEW piece,
             ShortWrite(count, whole, piece)
      PROVE  GapOK(r)'
    BY <1>6, <1>9 DEF ShortWrite, Write, plugin
<1>10. CASE Prune
    BY <1>6, <1>10 DEF Prune, plugin
<1>11. CASE Restart
    <2>1. conn'[r] = Closed /\ pipe' = pipe /\ reader' = reader /\ handled' = handled
        BY <1>11 DEF Restart, EndConnections, plugin
    <2>2. OnWay(r)' = {p \in Range(pipe[r]) : p.type = "line"}
        BY <1>7, <2>1, EmptyIs DEF OnWay
    <2>3. \A p \in OnWay(r), q \in OnWay(r)' : p \in OnWay(r)' \/ q.no < p.no
        BY <1>2, <2>2 DEF OnWay, FlowOK, ItemsOK
    <2>4. OnWay(r)' \subseteq OnWay(r)
        BY <2>2 DEF OnWay
    <2>. QED
        BY <1>1, <1>2, <1>3, <1>7, <2>1, <2>3, <2>4, GapLater
<1>12. ~FormatReset /\ ~TimeSteppedBack
    BY DEF FormatReset, TimeSteppedBack, Fault, Undisturbed
<1>13. ASSUME NEW q \in Readers, Connect(q) PROVE GapOK(r)'
    <2>1. CASE q = r
        <3>1. Logged' = Logged
            BY <1>13 DEF Connect, Logged
        <3>. QED
            BY <1>2, <1>13, <2>1, <3>1, ConnectGap
    <2>2. CASE q # r
        BY <1>4, <1>6, <1>13, <2>2 DEF Connect
    <2>. QED
        BY <2>1, <2>2
<1>14. ASSUME NEW q \in Readers, ReadLog(q) PROVE GapOK(r)'
    <2>1. CASE q = r
        BY <1>1, <1>2, <1>14, <2>1, ReadLogGap
    <2>2. CASE q # r
        BY <1>4, <1>6, <1>14, <2>2 DEF ReadLog, plugin
    <2>. QED
        BY <2>1, <2>2
<1>15. ASSUME NEW q \in Readers, NEW changed \in BOOLEAN,
              OpenLog(q) \/ SendLine(q) \/ EndPass(q, changed) \/ Notify(q)
       PROVE  GapOK(r)'
    <2>1. CASE q = r
        BY <1>2, <1>5, <1>15, <2>1, SameWayIs
    <2>2. CASE q # r
        <3>1. conn'[r] = conn[r] /\ pipe'[r] = pipe[r] /\ reader' = reader /\ handled' = handled
            BY <1>4, <1>15, <2>2 DEF OpenLog, SendLine, EndPass, Notify, plugin
        <3>. QED
            BY <1>6, <3>1
    <2>. QED
        BY <2>1, <2>2
<1>16. ASSUME NEW q \in Readers, Handle(q) PROVE GapOK(r)'
    <2>1. CASE q = r
        BY <1>1, <1>2, <1>16, <2>1, HandleGap
    <2>2. CASE q # r
        <3>1. /\ pipe'[r] = pipe[r] /\ reader'[r] = reader[r] /\ handled'[r] = handled[r] /\ conn' = conn
            BY <1>4, <1>16, <2>2 DEF Handle
        <3>. QED
            BY <1>6, <3>1
    <2>. QED
        BY <2>1, <2>2
<1>17. ASSUME NEW q \in Readers, PluginCrash(q) PROVE GapOK(r)'
    <2>1. CASE q = r
        <3>1. conn'[r] = Closed /\ pipe'[r] = <<>> /\ reader' = reader /\ handled' = handled
            BY <1>4, <1>17, <2>1 DEF PluginCrash
        <3>2. OnWay(r)' = {}
            BY <1>7, <3>1, EmptyIs DEF OnWay
        <3>. QED
            BY <1>1, <1>2, <1>3, <1>7, <3>1, <3>2, GapLater
    <2>2. CASE q # r
        BY <1>4, <1>6, <1>17, <2>2 DEF PluginCrash
    <2>. QED
        BY <2>1, <2>2
<1>18. CASE TimePasses
    BY <1>6, <1>18 DEF TimePasses, plugin
<1>19. CASE UNCHANGED vars
    BY <1>6, <1>19 DEF vars, plugin
<1>. QED
    BY <1>8, <1>9, <1>10, <1>11, <1>12, <1>13, <1>14, <1>15, <1>16, <1>17, <1>18, <1>19 DEF Next

\* While the log is undisturbed: ids and files are as above, and what a reader
\* took has no gap at a line that the file still has.
THEOREM FeedInvariant == MaxLines <= Keep + 2 => (Spec => []FeedInv)
<1> SUFFICES ASSUME MaxLines <= Keep + 2 PROVE Spec => []FeedInv
    OBVIOUS
<1>1. Init => FeedInv
    <2>1. SUFFICES ASSUME Init, Undisturbed PROVE FeedInv
        BY DEF FeedInv
    <2>2. IdsOK /\ KeptOK
        BY <2>1, InitIds DEF IdsInv
    <2>3. ASSUME NEW r \in Readers PROVE TopOK(r) /\ NoGap(r)
        <3>1. /\ pipe[r] = <<>> /\ conn[r] = Closed /\ handled[r] = {}
            BY <2>1 DEF Init
        <3>2. conn[r].out = <<>> /\ conn[r].st = "closed"
            BY <3>1 DEF Closed
        <3>3. OnWay(r) = {}
            BY <3>1, <3>2, EmptyIs DEF OnWay
        <3>4. Taken(r) = {}
            BY <3>1, <3>3 DEF Taken
        <3>. QED
            BY <3>1, <3>2, <3>3, <3>4 DEF TopOK, NoGap
    <2>. QED
        BY <2>2, <2>3 DEF FeedInv
<1>2. TypeOK /\ LogInv /\ FlowInv /\ TypeOK' /\ LogInv' /\ FeedInv /\ [Next]_vars => FeedInv'
    <2>1. SUFFICES ASSUME TypeOK, LogInv, FlowInv, TypeOK', LogInv', FeedInv, [Next]_vars, Undisturbed'
                   PROVE  FeedInv'
        BY DEF FeedInv
    <2>2. IdsOK' /\ KeptOK'
        <3>1. IdsInv
            BY <2>1 DEF FeedInv, IdsInv
        <3>. QED
            BY <2>1, <3>1, IdsKeep
    <2>3. \A r \in Readers : GapOK(r)'
        BY <2>1, GapKeeps
    <2>. QED
        BY <2>2, <2>3 DEF FeedInv, GapOK
<1>. QED
    BY <1>1, <1>2, FollowInvariant, PTL DEF Spec

\* The lines that a reader takes in one batch: after those that it has, and with
\* each line between them that the file still has.
LEMMA HandleIsTake ==
  ASSUME TypeOK, LogInv, NEW r \in Readers, FlowOK(r), GapOK(r), Undisturbed, Handle(r)
  PROVE  UNCHANGED handled \/ \E batch \in SUBSET (1 .. made) : Feed!Take(r, batch)
<1>1. PICK s \in Seq(Item), count \in Nat, rest \in Seq(Item), numbers \in Seq(Nat) :
         Takes(r, s, count, rest, numbers)
    BY HandleIs
<1>2. Leaves(r, s, count)
    BY <1>1, TakesFirst
<1>3. /\ Range(numbers) = {s[i].no : i \in {j \in 1 .. count : s[j].type = "line"}}
      /\ handled'[r] = handled[r] \union Range(numbers)
      /\ files' = files /\ made' = made
    BY <1>1 DEF Takes
<1>4. PICK batch : batch = Range(numbers)
    OBVIOUS
<1>5. PICK at : at = {j \in 1 .. count : s[j].type = "line"}
    OBVIOUS
<1>6. \A n : n \in batch <=> \E i \in at : n = s[i].no
    BY <1>3, <1>4, <1>5
<1>7. \A i \in at : /\ s[i] \in OnWay(r) /\ s[i].no \in Nat
                    /\ \A p \in OnWay(r)' : s[i].no < p.no
    BY <1>2, <1>5 DEF Leaves
<1>8. \A p \in OnWay(r) : p \in OnWay(r)' \/ \E i \in at : p = s[i]
    BY <1>2, <1>5 DEF Leaves
<1>9. handled' = [handled EXCEPT ![r] = handled[r] \union batch]
    <2>1. PICK some : handled' = [handled EXCEPT ![r] = handled[r] \union some]
        BY DEF Handle
    <2>2. handled \in [Readers -> SUBSET Nat]
        BY DEF TypeOK
    <2>3. handled'[r] = handled[r] \union some
        BY <2>1, <2>2
    <2>. QED
        BY <1>3, <1>4, <2>1, <2>3
<1>10. batch \in SUBSET (1 .. made) /\ \A m \in handled[r], n \in batch : m < n
    <2>1. \A i \in at : s[i].no \in 1 .. made /\ \A m \in handled[r] : m < s[i].no
        BY <1>7 DEF FlowOK, ItemsOK, HandledOK
    <2>. QED
        BY SMTT(60), <1>6, <2>1
<1>11. InFile' = InFile /\ faults' = faults
    BY <1>3 DEF InFile, File0, Current, Handle
<1>12. CASE batch = {}
    <2>1. handled' = handled
        <3>1. handled \in [Readers -> SUBSET Nat]
            BY DEF TypeOK
        <3>. QED
            BY <1>9, <1>12, <3>1
    <2>. QED
        BY <2>1
<1>13. CASE batch # {}
    <2>1. ASSUME NEW n \in InFile, NEW last \in batch, n < last,
                 NEW first \in handled[r] \union batch, first < n, \A m \in handled[r] : m < n
          PROVE  n \in batch
        <3>1. last \in Taken(r) /\ first \in Taken(r) /\ last \in Nat
            BY <1>6, <1>7, <2>1, TakenAre
        <3>2. PICK p \in OnWay(r) : n = p.no
            BY <2>1, <3>1 DEF GapOK, NoGap
        <3>3. n \in Nat
            BY <2>1, InFileIs
        <3>4. p \notin OnWay(r)'
            <4>1. PICK i \in at : last = s[i].no
                BY <1>6, <2>1
            <4>. QED
                BY <1>7, <2>1, <3>1, <3>2, <3>3, <4>1
        <3>. QED
            BY <1>6, <1>8, <3>2, <3>4
    <2>2. \A n \in InFile :
              /\ \E last \in batch : n < last
              /\ \E first \in handled[r] \union batch : first < n
              /\ \A m \in handled[r] : m < n
              => n \in batch
        BY <2>1
    <2>3. UNCHANGED <<made, InFile, ~Undisturbed>>
        BY <1>3, <1>11 DEF Undisturbed
    <2>4. Feed!Take(r, batch)
        BY <1>9, <1>10, <1>13, <2>2, <2>3 DEF Feed!Take
    <2>. QED
        BY <1>10, <2>4
<1>. QED
    BY <1>12, <1>13

\* The log with its followers and readers implements EventFeed: each step is
\* one of the feed, or none: lines are made and go away, and a reader takes them
\* in their order, at most once, and skips none that is still there, over
\* prunes, restarts, short writes and crashes (event_log, follow, watch.sh).
THEOREM LogImplementsFeed == MaxLines <= Keep + 2 => (Spec => KeepsPromise)
<1> SUFFICES ASSUME MaxLines <= Keep + 2 PROVE Spec => KeepsPromise
    OBVIOUS
<1>1. Init => Feed!FeedInit
    <2>1. SUFFICES ASSUME Init PROVE Feed!FeedInit
        OBVIOUS
    <2>2. File0 = NoFile
        BY <2>1 DEF Init, File0, Current
    <2>3. InFile = {}
        BY <2>2, EmptyIs DEF InFile, NoFile
    <2>4. Undisturbed
        BY <2>1 DEF Init, Undisturbed
    <2>. QED
        BY <2>1, <2>3, <2>4 DEF Init, Feed!FeedInit
<1>2. TypeOK /\ LogInv /\ FlowInv /\ FeedInv /\ TypeOK' /\ LogInv' /\ [Next]_vars
          => [Feed!FeedNext]_Feed!feedVars
    <2>1. SUFFICES ASSUME TypeOK, LogInv, FlowInv, FeedInv, TypeOK', LogInv', [Next]_vars
                   PROVE  [Feed!FeedNext]_Feed!feedVars
        OBVIOUS
    <2>2. CASE ~Undisturbed'
        BY <2>2 DEF Feed!FeedNext, Feed!Break
    <2>3. CASE Undisturbed'
        <3>1. Undisturbed
            <4>1. IdsInv
                BY <2>1 DEF FeedInv, IdsInv
            <4>. QED
                BY <2>1, <2>3, <4>1, IdsKeep
        <3>2. /\ made \in Nat /\ made' \in Nat /\ made' >= made
              /\ InFile' \subseteq InFile \union (made + 1 .. made')
            BY <2>1, InFileLater
        <3>3. ASSUME handled' = handled PROVE [Feed!FeedNext]_Feed!feedVars
            <4>1. CASE made' > made
                BY <2>3, <3>1, <3>2, <3>3, <4>1 DEF Feed!FeedNext, Feed!Publish
            <4>2. CASE made' = made
                <5>1. InFile' \subseteq InFile
                    BY <3>2, <4>2
                <5>. QED
                    BY <2>3, <3>1, <3>3, <4>2, <5>1 DEF Feed!FeedNext, Feed!Forget
            <4>. QED
                BY <3>2, <4>1, <4>2
        <3>4. ASSUME NEW r \in Readers, Handle(r) PROVE [Feed!FeedNext]_Feed!feedVars
            <4>1. FlowOK(r) /\ GapOK(r)
                BY <2>1, <3>1 DEF FlowInv, FeedInv, GapOK
            <4>2. UNCHANGED handled \/ \E batch \in SUBSET (1 .. made) : Feed!Take(r, batch)
                BY <2>1, <3>1, <3>4, <4>1, HandleIsTake
            <4>. QED
                BY <3>3, <4>2 DEF Feed!FeedNext
        <3>5. handled' = handled \/ \E r \in Readers : Handle(r)
            BY <2>1 DEF Next, EventLog, ShortWrite, Write, Prune, Restart, FormatReset, EndConnections,
                        Connect, OpenLog, ReadLog, SendLine, EndPass, Notify, PluginCrash,
                        TimePasses, TimeSteppedBack, plugin, vars
        <3>. QED
            BY <3>3, <3>4, <3>5
    <2>. QED
        BY <2>2, <2>3
<1>. QED
    BY <1>1, <1>2, FollowInvariant, FeedInvariant, PTL DEF Spec, KeepsPromise, Feed!FeedSpec

=============================================================================
