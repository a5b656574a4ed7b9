--------------------------- MODULE DeliveryProofs ---------------------------
(* Theorems about Delivery for every number of sessions, keys, owners,      *)
(* connections and events.                                                  *)
EXTENDS Delivery, TLAPS

USE DeliveryAssumption

\* An open connection is of a session, and an error answer is of a key.
ConnOK ==
    \A n \in Conns :
        /\ conn[n].st # "closed" /\ conn[n].kind # "superseded" => conn[n].session \in Sessions
        /\ conn[n].st = "sending" <=> conn[n].kind # "none"
        /\ conn[n].kind = "error" => conn[n].errorKey \in Keys

LEMMA EmptyBatchType == EmptyBatch \in Batch /\ EmptyBatches \in [Keys -> Batch]
  BY DEF EmptyBatch, EmptyBatches, Batch

LEMMA ClosedType == Closed \in Conn
  BY EmptyBatchType DEF Closed, Conn, AnswerKinds

LEMMA IdsType ==
  ASSUME NEW b \in Batch
  PROVE  IdsOf(b) \subseteq Nat
  BY DEF IdsOf, Batch, Range

LEMMA OnlyType ==
  ASSUME NEW b \in Batch, NEW M
  PROVE  Only(b, M) \in Batch
  BY DEF Only, Batch

LEMMA JoinType ==
  ASSUME NEW b \in Batch, NEW c \in Batch
  PROVE  Join(b, c) \in Batch
  BY DEF Join, Batch

LEMMA NoSessionType == NoSession \in Session
  BY DEF NoSession, Session, Presence

LEMMA OrDefaultType ==
  ASSUME TypeOK, NEW s \in Sessions
  PROVE  OrDefault(s) \in Session /\ OrDefault(s).presence # "none"
  BY DEF OrDefault, TypeOK, Session, Presence

Base == TypeOK /\ ConnOK /\ RecordHasSession

LEMMA BaseInit == Init => Base
  <1> SUFFICES ASSUME Init PROVE Base
    OBVIOUS
  <1>1. TypeOK
    BY EmptyBatchType, ClosedType, NoSessionType DEF Init, TypeOK, Filters, Known
  <1>2. ConnOK
    BY DEF Init, ConnOK, Closed
  <1>3. RecordHasSession
    BY DEF Init, RecordHasSession
  <1> QED
    BY <1>1, <1>2, <1>3 DEF Base

LEMMA WatchBase ==
  ASSUME Base, NEW s \in Sessions, NEW k \in Keys, NEW mrs \in Filters, Watch(s, k, mrs)
  PROVE  Base'
  <1> USE DEF Base
  <1>1. Watching(s, k) \in Session /\ Watching(s, k).presence # "none"
    <2>1. session[s] \in Session
      BY DEF TypeOK
    <2>2. session[s].replaced \ {k} \in SUBSET Keys
      BY <2>1 DEF Session
    <2>3. (IF Known(s) THEN session[s].presence ELSE "away") \in Presence \ {"none"}
      BY <2>1 DEF Session, Presence, Known
    <2> QED
      BY <2>1, <2>2, <2>3 DEF Watching, Session
  <1>2. session' \in [Sessions -> Session]
    BY <1>1 DEF TypeOK, Watch, Session
  <1>3. \A t \in Sessions : Known(t)' <=> t = s \/ Known(t)
    BY <1>1 DEF TypeOK, Watch, Known, Session
  <1>4. \A t \in Sessions : ~Known(t)' => session'[t] = NoSession
    BY <1>3 DEF TypeOK, Watch, Known
  <1>5. TypeOK'
    BY <1>2, <1>4 DEF TypeOK, Watch, memory, history, bounds, Known
  <1>6. ConnOK'
    BY DEF ConnOK, Watch, memory
  <1>7. RecordHasSession'
    BY <1>3 DEF TypeOK, RecordHasSession, Watch
  <1> QED
    BY <1>5, <1>6, <1>7

LEMMA UnsubscribeBase ==
  ASSUME Base, NEW s \in Sessions, NEW k \in Keys, Unsubscribe(s, k)
  PROVE  Base'
  <1> USE DEF Base
  <1>1. IdsOf(inbox[k]) \subseteq Nat
    BY IdsType DEF TypeOK
  <1>2. TypeOK'
    BY <1>1, EmptyBatchType DEF TypeOK, Unsubscribe, memory, bounds, Known, Filters
  <1>3. ConnOK'
    BY DEF ConnOK, Unsubscribe, memory
  <1>4. RecordHasSession'
    BY DEF TypeOK, RecordHasSession, Unsubscribe, Known
  <1> QED
    BY <1>2, <1>3, <1>4

LEMMA WaitBase ==
  ASSUME Base, NEW s \in Sessions, NEW p \in Pids, NEW rename \in BOOLEAN, NEW n \in Conns,
         Wait(s, p, rename, n)
  PROVE  Base'
  <1> USE DEF Base
  <1> DEFINE moved(old) == [session EXCEPT ![old] = NoSession, ![s] = session[old]]
             own(old) == IF session[old].presence = "none" THEN session[old]
                         ELSE [session[old] EXCEPT !.presence = "live", !.owner = p]
             sources == IF rename /\ Renamed(s, p) # {} THEN Renamed(s, p) ELSE {s}
  <1>a. \A old \in sources : old \in Sessions /\ (old = s \/ ~Known(s))
    BY DEF Renamed
  <1>1. PICK old \in sources :
          /\ holder' = [k \in Keys |-> IF holder[k] = old THEN s ELSE holder[k]]
          /\ errorOf' = [k \in Keys |-> IF errorOf[k] = old THEN s ELSE errorOf[k]]
          /\ session' = [t \in Sessions |->
               IF t = s THEN own(old)
               ELSE IF Left(t, s, p, moved(old)) THEN [moved(old)[t] EXCEPT !.presence = "away"]
               ELSE moved(old)[t]]
          /\ waiter' = [t \in Sessions |->
               IF t = s THEN n
               ELSE IF t = old \/ Left(t, s, p, moved(old)) THEN NoConn
               ELSE waiter[t]]
    BY Zenon DEF Wait
  <1>b. old \in Sessions /\ (old = s \/ ~Known(s))
    BY <1>a
  <1> HIDE DEF sources
  <1>2. conn' = [conn EXCEPT ![n] = [Closed EXCEPT !.st = "waiting", !.session = s, !.pid = p]]
    BY DEF Wait
  <1>3. [Closed EXCEPT !.st = "waiting", !.session = s, !.pid = p] \in Conn
    BY ClosedType DEF Conn
  <1>4. moved(old) \in [Sessions -> Session]
    BY <1>b, NoSessionType DEF TypeOK
  <1>5. own(old) \in Session /\ (own(old).presence # "none" <=> Known(old))
    <2>1. session[old] \in Session
      BY <1>b DEF TypeOK
    <2>2. CASE session[old].presence = "none"
      BY <2>1, <2>2 DEF Known
    <2>3. CASE session[old].presence # "none"
      BY <2>1, <2>3 DEF Known, Session, Presence
    <2> QED
      BY <2>2, <2>3
  <1>6. \A t \in Sessions : [moved(old)[t] EXCEPT !.presence = "away"] \in Session
    BY <1>4 DEF Session, Presence
  <1> HIDE DEF moved, own
  <1>7. session' \in [Sessions -> Session]
    BY <1>1, <1>4, <1>5, <1>6, <1>b
  <1>8. \A t \in Sessions : Known(t)' <=>
          IF t = s THEN Known(old) ELSE Known(t) /\ t # old
    <2> TAKE t \in Sessions
    <2>1. CASE t = s
      BY <2>1, <1>1, <1>5 DEF Known
    <2>2. CASE t # s
      <3>1. moved(old)[t].presence # "none" <=> Known(t) /\ t # old
        BY <2>2, <1>b DEF moved, Known, TypeOK, NoSession
      <3>2. Left(t, s, p, moved(old)) => moved(old)[t].presence = "live"
        BY DEF Left
      <3>3. session'[t].presence # "none" <=> moved(old)[t].presence # "none"
        BY <2>2, <3>2, <1>1, <1>4 DEF Session
      <3> QED
        BY <2>2, <3>1, <3>3 DEF Known
    <2> QED
      BY <2>1, <2>2
  <1>9. \A t \in Sessions : ~Known(t)' => session'[t] = NoSession
    <2> SUFFICES ASSUME NEW t \in Sessions, ~Known(t)' PROVE session'[t] = NoSession
      OBVIOUS
    <2>1. CASE t = s
      <3>1. ~Known(old)
        BY <2>1, <1>8
      <3>2. session[old] = NoSession
        BY <3>1, <1>b DEF TypeOK
      <3> QED
        BY <2>1, <3>2, <1>1 DEF own, NoSession
    <2>2. CASE t # s
      <3>1. moved(old)[t] = NoSession
        BY <2>2, <1>8, <1>b DEF moved, TypeOK
      <3> QED
        BY <2>2, <3>1, <1>1 DEF Left, NoSession
    <2> QED
      BY <2>1, <2>2
  <1>10. TypeOK'
    <2>1. /\ holder' \in [Keys -> Sessions \union {None}]
          /\ errorOf' \in [Keys -> Sessions \union {None}]
          /\ waiter' \in [Sessions -> Conns \union {NoConn}]
      BY <1>1, <1>b DEF TypeOK
    <2>2. conn' \in [Conns -> Conn]
      BY <1>2, <1>3 DEF TypeOK
    <2> QED
      BY <2>1, <2>2, <1>7, <1>9 DEF TypeOK, Wait, history, bounds
  <1>11. ConnOK'
    BY <1>2 DEF ConnOK, Closed, Wait, TypeOK, Conn
  <1>12. RecordHasSession'
    BY <1>1, <1>8, <1>b DEF RecordHasSession, TypeOK
  <1> QED
    BY <1>10, <1>11, <1>12

\* The end of a connection touches only the connections and the waiters.
LEMMA CloseType ==
  ASSUME Base, NEW n \in Conns, Close(n)
  PROVE  /\ conn' \in [Conns -> Conn]
         /\ waiter' \in [Sessions -> Conns \union {NoConn}]
         /\ ConnOK'
  BY ClosedType DEF Base, TypeOK, Close, ConnOK, Closed

LEMMA ClientGoneBase ==
  ASSUME Base, NEW n \in Conns, ClientGone(n)
  PROVE  Base'
  <1>1. TypeOK'
    BY CloseType DEF Base, TypeOK, ClientGone, files, history, bounds, Known
  <1>2. RecordHasSession'
    BY DEF Base, RecordHasSession, ClientGone, files, Known
  <1> QED
    BY <1>1, <1>2, CloseType DEF Base, ClientGone

\* The start of a send touches only its connection.
LEMMA SendsType ==
  ASSUME Base, NEW n \in Conns, NEW a \in Conn, Sends(n, a),
         a.kind # "none", a.kind # "superseded" => a.session \in Sessions,
         a.kind = "error" => a.errorKey \in Keys
  PROVE  conn' \in [Conns -> Conn] /\ ConnOK'
  <1> DEFINE b == [a EXCEPT !.st = "sending", !.pid = None]
  <1>1. b \in Conn /\ b.kind = a.kind /\ b.session = a.session /\ b.errorKey = a.errorKey
          /\ b.st = "sending"
    BY DEF Conn
  <1>2. conn' = [conn EXCEPT ![n] = b]
    BY DEF Sends
  <1> HIDE DEF b
  <1>3. conn' \in [Conns -> Conn]
    BY <1>1, <1>2 DEF Base, TypeOK
  <1>4. ConnOK'
    BY <1>1, <1>2 DEF Base, TypeOK, ConnOK
  <1> QED
    BY <1>3, <1>4

LEMMA AnswerSupersededBase ==
  ASSUME Base, NEW n \in Conns, AnswerSuperseded(n)
  PROVE  Base'
  <1> DEFINE a == [Closed EXCEPT !.kind = "superseded"]
  <1>1. a \in Conn /\ a.kind = "superseded"
    BY ClosedType DEF Conn, AnswerKinds
  <1>2. Sends(n, a)
    BY DEF AnswerSuperseded
  <1> HIDE DEF a
  <1>3. conn' \in [Conns -> Conn] /\ ConnOK'
    BY <1>1, <1>2, SendsType
  <1>4. TypeOK'
    BY <1>3 DEF Base, TypeOK, AnswerSuperseded, files, history, bounds, Known
  <1>5. RecordHasSession'
    BY DEF Base, RecordHasSession, AnswerSuperseded, files, Known
  <1> QED
    BY <1>3, <1>4, <1>5 DEF Base

\* What a pass of a waiter knows of its session.
LEMMA TurnFacts ==
  ASSUME Base, NEW n \in Conns, Turn(n)
  PROVE  /\ conn[n] \in Conn /\ conn[n].session \in Sessions
         /\ session[conn[n].session] \in Session
  BY DEF Base, TypeOK, ConnOK, Turn

LEMMA AnswerUpgradeBase ==
  ASSUME Base, NEW n \in Conns, AnswerUpgrade(n)
  PROVE  Base'
  <1> DEFINE s == conn[n].session
             a == [conn[n] EXCEPT !.kind = "upgrade"]
  <1>1. /\ Turn(n) /\ session[s].upgraded /\ Sends(n, a)
        /\ session' = [session EXCEPT ![s].upgraded = FALSE]
    BY DEF AnswerUpgrade
  <1>2. conn[n] \in Conn /\ s \in Sessions /\ session[s] \in Session
    BY <1>1, TurnFacts
  <1>3. a \in Conn /\ a.kind = "upgrade" /\ a.session = s
    BY <1>2 DEF Conn, AnswerKinds
  <1>4. Known(s)
    BY <1>1, <1>2 DEF Base, TypeOK, NoSession
  <1> HIDE DEF a, s
  <1>5. conn' \in [Conns -> Conn] /\ ConnOK'
    BY <1>1, <1>2, <1>3, SendsType
  <1>6. session' \in [Sessions -> Session]
    BY <1>1, <1>2 DEF Base, TypeOK, Session
  <1>7. \A t \in Sessions : /\ Known(t)' <=> Known(t)
                            /\ ~Known(t) => session'[t] = session[t]
    BY <1>1, <1>2, <1>4 DEF Base, TypeOK, Session, Known
  <1>8. TypeOK'
    BY <1>5, <1>6, <1>7 DEF Base, TypeOK, AnswerUpgrade, history, bounds
  <1>9. RecordHasSession'
    BY <1>7 DEF Base, TypeOK, RecordHasSession, AnswerUpgrade
  <1> QED
    BY <1>5, <1>8, <1>9 DEF Base

LEMMA AnswerErrorBase ==
  ASSUME Base, NEW n \in Conns, AnswerError(n)
  PROVE  Base'
  <1> DEFINE s == conn[n].session
  <1>1. PICK k \in EndedErrors(s) :
          /\ errorOf' = [errorOf EXCEPT ![k] = None]
          /\ Sends(n, [conn[n] EXCEPT !.kind = "error",
                                      !.errorKey = k, !.errorOf = errorOf[k]])
    BY DEF AnswerError
  <1> DEFINE a == [conn[n] EXCEPT !.kind = "error", !.errorKey = k, !.errorOf = errorOf[k]]
  <1>2. conn[n] \in Conn /\ s \in Sessions /\ session[s] \in Session
    BY TurnFacts DEF AnswerError
  <1>3. k \in Keys
    BY <1>2 DEF EndedErrors, Session
  <1>4. a \in Conn /\ a.kind = "error" /\ a.session = s /\ a.errorKey = k
    BY <1>2, <1>3 DEF Conn, AnswerKinds, Base, TypeOK
  <1>5. Sends(n, a)
    BY <1>1
  <1> HIDE DEF a
  <1>6. conn' \in [Conns -> Conn] /\ ConnOK'
    BY <1>2, <1>3, <1>4, <1>5, SendsType
  <1>7. TypeOK'
    BY <1>1, <1>6 DEF Base, TypeOK, AnswerError, history, bounds, Known
  <1>8. RecordHasSession'
    BY DEF Base, RecordHasSession, AnswerError, Known
  <1> QED
    BY <1>6, <1>7, <1>8 DEF Base

LEMMA AnswerEventsBase ==
  ASSUME Base, NEW n \in Conns, AnswerEvents(n)
  PROVE  Base'
  <1> DEFINE s == conn[n].session
             batches == [k \in Keys |-> IF k \in TakenKeys(s)
                                        THEN Only(inbox[k], Taken(k)) ELSE EmptyBatch]
             a == [conn[n] EXCEPT !.kind = "events", !.batches = batches,
                                  !.replaced = session[s].replaced]
  <1>1. /\ inbox' = [k \in Keys |-> IF k \in TakenKeys(s) THEN Rest(k) ELSE inbox[k]]
        /\ session' = [session EXCEPT ![s].replaced = {}, ![s].ended = {}]
        /\ UNCHANGED conn \/ Sends(n, a)
    BY DEF AnswerEvents
  <1>2. conn[n] \in Conn /\ s \in Sessions /\ session[s] \in Session
    BY TurnFacts DEF AnswerEvents
  <1>3. \A k \in Keys : Only(inbox[k], Taken(k)) \in Batch /\ Rest(k) \in Batch
    BY OnlyType DEF Base, TypeOK, Rest
  <1>4. batches \in [Keys -> Batch]
    BY <1>3, EmptyBatchType
  <1> HIDE DEF batches
  <1>5. a \in Conn /\ a.kind = "events" /\ a.session = s
    BY <1>2, <1>4 DEF Conn, Session, AnswerKinds
  <1> HIDE DEF a
  <1>6. conn' \in [Conns -> Conn] /\ ConnOK'
    <2>1. CASE Sends(n, a)
      BY <2>1, <1>2, <1>5, SendsType
    <2>2. CASE UNCHANGED conn
      BY <2>2 DEF Base, TypeOK, ConnOK
    <2> QED
      BY <2>1, <2>2, <1>1
  <1>7. session' \in [Sessions -> Session]
    BY <1>1, <1>2 DEF Base, TypeOK, Session
  <1>8. \A t \in Sessions : /\ Known(t)' <=> Known(t)
                            /\ ~Known(t) => session'[t] = NoSession
    <2> TAKE t \in Sessions
    <2>1. CASE t # s
      BY <2>1, <1>1 DEF Base, TypeOK, Known
    <2>2. CASE t = s
      <3>1. session'[s] = [session[s] EXCEPT !.replaced = {}, !.ended = {}]
        BY <1>1, <1>2 DEF Base, TypeOK
      <3>2. session'[s].presence = session[s].presence
        BY <3>1, <1>2 DEF Session
      <3>3. CASE ~Known(s)
        <4>1. session[s] = NoSession
          BY <3>3, <1>2 DEF Base, TypeOK
        <4>2. session[s].replaced = {} /\ session[s].ended = {}
          BY <4>1 DEF NoSession
        <4>3. [session[s] EXCEPT !.replaced = {}, !.ended = {}] = session[s]
          BY <1>2, <4>2 DEF Session
        <4> QED
          BY <2>2, <3>1, <3>2, <4>1, <4>3 DEF Known
      <3> QED
        BY <2>2, <3>2, <3>3 DEF Known
    <2> QED
      BY <2>1, <2>2
  <1>9. TypeOK'
    <2>1. inbox' \in [Keys -> Batch]
      BY <1>1, <1>3 DEF Base, TypeOK
    <2>2. \A t \in Sessions : ~Known(t)' => session'[t] = NoSession
      BY <1>8
    <2> QED
      BY <2>1, <2>2, <1>6, <1>7 DEF Base, TypeOK, AnswerEvents, history, bounds
  <1>10. RecordHasSession'
    BY <1>8 DEF Base, TypeOK, RecordHasSession, AnswerEvents
  <1> QED
    BY <1>6, <1>9, <1>10 DEF Base

LEMMA SendOkBase ==
  ASSUME Base, NEW n \in Conns, SendOk(n)
  PROVE  Base'
  <1>1. conn[n].batches \in [Keys -> Batch]
    BY DEF Base, TypeOK, Conn
  <1>2. \A k \in Keys : IdsOf(conn[n].batches[k]) \subseteq Nat
    BY <1>1, IdsType
  <1>3. received' \in SUBSET Nat
    <2>1. UNION {IdsOf(conn[n].batches[k]) : k \in Keys} \subseteq Nat
      BY <1>2
    <2>2. received' = received \union UNION {IdsOf(conn[n].batches[k]) : k \in Keys}
      BY DEF SendOk
    <2> QED
      BY <2>1, <2>2 DEF Base, TypeOK
  <1>4. TypeOK'
    BY <1>3, CloseType DEF Base, TypeOK, SendOk, files, bounds, Known
  <1>5. RecordHasSession'
    BY DEF Base, RecordHasSession, SendOk, files, Known
  <1> QED
    BY <1>4, <1>5, CloseType DEF Base, SendOk

\* One session record changes, and it is the record of a session afterwards.
LEMMA OneSession ==
  ASSUME Base, NEW s \in Sessions, NEW r \in Session, r.presence # "none",
         session' = [session EXCEPT ![s] = r]
  PROVE  /\ session' \in [Sessions -> Session]
         /\ \A t \in Sessions : ~Known(t)' => session'[t] = NoSession
         /\ \A t \in Sessions : Known(t) => Known(t)'
  BY DEF Base, TypeOK, Known

LEMMA SendFailsFiles ==
  ASSUME Base, NEW n \in Conns, SendFails(n)
  PROVE  /\ session' \in [Sessions -> Session]
         /\ \A t \in Sessions : ~Known(t)' => session'[t] = NoSession
         /\ \A t \in Sessions : Known(t) => Known(t)'
         /\ inbox' \in [Keys -> Batch]
         /\ errorOf' \in [Keys -> Sessions \union {None}]
  <1> DEFINE a == conn[n]
             s == a.session
  <1>1. a \in Conn /\ a.kind # "none" /\ (a.kind # "superseded" => s \in Sessions)
    BY DEF Base, TypeOK, ConnOK, SendFails
  <1>2. CASE a.kind = "superseded"
    <2>1. UNCHANGED <<session, inbox, errorOf>>
      BY <1>2 DEF SendFails
    <2> QED
      BY <2>1 DEF Base, TypeOK, Known
  <1>3. CASE a.kind = "events"
    <2> DEFINE state == OrDefault(s)
               back == [state EXCEPT !.replaced = @ \union a.replaced,
                          !.ended = @ \union {k \in {j \in Keys : a.batches[j] # EmptyBatch} :
                                                  holder[k] = None}]
    <2>1. PutBack(s, a)
      BY <1>3 DEF SendFails
    <2>2. state \in Session /\ state.presence # "none"
      BY <1>1, <1>3, OrDefaultType DEF Base
    <2>3. a.replaced \subseteq Keys /\ a.batches \in [Keys -> Batch]
      BY <1>1 DEF Conn
    <2>4. back \in Session /\ back.presence # "none"
      BY <2>2, <2>3 DEF Session
    <2>5. inbox' \in [Keys -> Batch]
      BY <2>1, <2>3, JoinType DEF PutBack, Base, TypeOK
    <2>6. session' = session \/ session' = [session EXCEPT ![s] = back]
      BY <2>1 DEF PutBack
    <2> HIDE DEF back, state
    <2>7. /\ session' \in [Sessions -> Session]
          /\ \A t \in Sessions : ~Known(t)' => session'[t] = NoSession
          /\ \A t \in Sessions : Known(t) => Known(t)'
      <3>1. CASE session' = session
        BY <3>1 DEF Base, TypeOK, Known
      <3>2. CASE session' = [session EXCEPT ![s] = back]
        BY <3>2, <1>1, <1>3, <2>4, OneSession
      <3> QED
        BY <2>6, <3>1, <3>2
    <2> QED
      BY <2>1, <2>5, <2>7 DEF PutBack, Base, TypeOK
  <1>4. CASE a.kind = "error"
    <2> DEFINE r == [OrDefault(s) EXCEPT !.ended = @ \union {a.errorKey}]
    <2>1. PutBackError(s, a)
      BY <1>4 DEF SendFails
    <2>2. a.errorKey \in Keys /\ a.errorOf \in Sessions \union {None}
      BY <1>1, <1>4 DEF Base, ConnOK, Conn
    <2>3. OrDefault(s) \in Session /\ OrDefault(s).presence # "none"
      BY <1>1, <1>4, OrDefaultType DEF Base
    <2>4. r \in Session /\ r.presence # "none"
      BY <2>2, <2>3 DEF Session
    <2>5. session' = [session EXCEPT ![s] = r]
      BY <2>1 DEF PutBackError
    <2> HIDE DEF r
    <2>6. /\ session' \in [Sessions -> Session]
          /\ \A t \in Sessions : ~Known(t)' => session'[t] = NoSession
          /\ \A t \in Sessions : Known(t) => Known(t)'
      BY <2>4, <2>5, <1>1, <1>4, OneSession
    <2> QED
      BY <2>1, <2>2, <2>6 DEF PutBackError, Base, TypeOK
  <1>5. CASE a.kind = "upgrade"
    <2> DEFINE r == [OrDefault(s) EXCEPT !.upgraded = TRUE]
    <2>1. PutBackUpgrade(s)
      BY <1>5 DEF SendFails
    <2>2. OrDefault(s) \in Session /\ OrDefault(s).presence # "none"
      BY <1>1, <1>5, OrDefaultType DEF Base
    <2>3. r \in Session /\ r.presence # "none"
      BY <2>2 DEF Session
    <2>4. session' = [session EXCEPT ![s] = r]
      BY <2>1 DEF PutBackUpgrade
    <2> HIDE DEF r
    <2>5. /\ session' \in [Sessions -> Session]
          /\ \A t \in Sessions : ~Known(t)' => session'[t] = NoSession
          /\ \A t \in Sessions : Known(t) => Known(t)'
      BY <2>3, <2>4, <1>1, <1>5, OneSession
    <2> QED
      BY <2>1, <2>5 DEF PutBackUpgrade, Base, TypeOK
  <1> QED
    BY <1>1, <1>2, <1>3, <1>4, <1>5 DEF Conn, AnswerKinds

LEMMA SendFailsBase ==
  ASSUME Base, NEW n \in Conns, SendFails(n)
  PROVE  Base'
  <1>1. Close(n)
    BY DEF SendFails
  <1>2. /\ UNCHANGED <<holder, narrow, alive, phase, history, bounds>>
    BY DEF SendFails
  <1>3. TypeOK'
    BY <1>1, <1>2, SendFailsFiles, CloseType DEF Base, TypeOK, history, bounds
  <1>4. RecordHasSession'
    BY <1>2, SendFailsFiles DEF Base, TypeOK, RecordHasSession
  <1> QED
    BY <1>1, <1>3, <1>4, CloseType DEF Base

LEMMA EndRecordsBase ==
  ASSUME Base, NEW keys \in SUBSET Keys, NEW error \in BOOLEAN, EndRecords(keys, error)
  PROVE  /\ holder' \in [Keys -> Sessions \union {None}]
         /\ narrow' \in [Keys -> Filters]
         /\ session' \in [Sessions -> Session]
         /\ \A s \in Sessions : ~Known(s)' => session'[s] = NoSession
         /\ errorOf' \in [Keys -> Sessions \union {None}]
         /\ RecordHasSession'
  <1> USE DEF Base
  <1>1. /\ holder' \in [Keys -> Sessions \union {None}]
        /\ errorOf' \in [Keys -> Sessions \union {None}]
    BY DEF EndRecords, TypeOK
  <1>2. narrow' \in [Keys -> Filters]
    BY DEF EndRecords, TypeOK, Filters
  <1> DEFINE r(s) == [session[s] EXCEPT !.ended = @ \union (keys \cap Records(s))]
  <1>3. session' = [s \in Sessions |-> IF Known(s) THEN r(s) ELSE session[s]]
    BY DEF EndRecords
  <1>4. \A s \in Sessions : r(s) \in Session /\ r(s).presence = session[s].presence
    BY DEF TypeOK, Session
  <1> HIDE DEF r
  <1>5. session' \in [Sessions -> Session]
    BY <1>3, <1>4 DEF TypeOK
  <1>6. \A s \in Sessions : Known(s)' <=> Known(s)
    BY <1>3, <1>4 DEF Known
  <1>7. \A s \in Sessions : ~Known(s)' => session'[s] = NoSession
    BY <1>3, <1>6 DEF TypeOK
  <1>8. RecordHasSession'
    BY <1>6 DEF RecordHasSession, EndRecords, TypeOK
  <1> QED
    BY <1>1, <1>2, <1>5, <1>7, <1>8

LEMMA CheckEventsBase ==
  ASSUME Base, NEW k \in Keys, NEW m \in Mrs, NEW last \in BOOLEAN, CheckEvents(k, m, last)
  PROVE  Base'
  <1>1. EndRecords(IF last THEN {k} ELSE {}, FALSE)
    BY DEF CheckEvents
  <1>2. inbox' \in [Keys -> Batch] /\ nextId' \in Nat
    BY DEF CheckEvents, Base, TypeOK, Batch
  <1>3. TypeOK'
    BY <1>1, <1>2, EndRecordsBase DEF Base, TypeOK, CheckEvents, memory, bounds
  <1>4. ConnOK'
    BY DEF Base, ConnOK, CheckEvents, memory
  <1> QED
    BY <1>1, <1>3, <1>4, EndRecordsBase DEF Base

LEMMA CheckFailsBase ==
  ASSUME Base, NEW k \in Keys, CheckFails(k)
  PROVE  Base'
  <1>1. EndRecords({k}, TRUE)
    BY DEF CheckFails
  <1>2. errors' \in 0 .. MaxErrors
    BY DEF CheckFails, Base, TypeOK
  <1>3. TypeOK'
    BY <1>1, <1>2, EndRecordsBase DEF Base, TypeOK, CheckFails, memory, history
  <1>4. ConnOK'
    BY DEF Base, ConnOK, CheckFails, memory
  <1> QED
    BY <1>1, <1>3, <1>4, EndRecordsBase DEF Base

LEMMA OwnersBase ==
  ASSUME Base, NEW p \in Pids, OwnerEnds(p) \/ OwnerStarts(p)
  PROVE  Base'
  <1>1. UNCHANGED <<files, memory, phase, history, errors, resets, crashes>>
    BY DEF OwnerEnds, OwnerStarts, bounds
  <1>2. alive' \in SUBSET Pids /\ reuses' \in 0 .. MaxReuses
    BY DEF OwnerEnds, OwnerStarts, bounds, Base, TypeOK
  <1>3. TypeOK'
    BY <1>1, <1>2 DEF Base, TypeOK, files, memory, history, Known
  <1>4. ConnOK'
    BY <1>1 DEF Base, ConnOK, memory
  <1>5. RecordHasSession'
    BY <1>1 DEF Base, RecordHasSession, files, Known
  <1> QED
    BY <1>3, <1>4, <1>5 DEF Base

LEMMA GracePassesBase ==
  ASSUME Base, NEW s \in Sessions, GracePasses(s)
  PROVE  Base'
  <1> DEFINE r == [session[s] EXCEPT !.presence = "expired"]
  <1>1. r \in Session /\ r.presence # "none"
    BY DEF Base, TypeOK, Session, Presence
  <1>2. session' = [session EXCEPT ![s] = r]
    BY DEF GracePasses
  <1> HIDE DEF r
  <1>3. TypeOK'
    BY <1>1, <1>2, OneSession DEF Base, TypeOK, GracePasses, memory, history, bounds
  <1>4. ConnOK'
    BY DEF Base, ConnOK, GracePasses, memory
  <1>5. RecordHasSession'
    BY ZenonT(60), <1>1, <1>2, OneSession DEF Base, TypeOK, RecordHasSession, GracePasses
  <1> QED
    BY <1>3, <1>4, <1>5 DEF Base

LEMMA TickBase ==
  ASSUME Base, NEW gone \in SUBSET Keys, Tick(gone)
  PROVE  Base'
  <1> USE DEF Base
  <1>1. \A s \in Sessions : SessionAfter(s, gone) \in Session
    <2> TAKE s \in Sessions
    <2>1. CASE s \in Expired
      BY <2>1, NoSessionType DEF SessionAfter
    <2>2. CASE s \notin Expired
      <3>1. session[s] \in Session
        BY DEF TypeOK
      <3>2. (IF OwnerGone(s) THEN "away" ELSE session[s].presence) \in Presence
        BY <3>1 DEF Session, Presence
      <3>3. session[s].ended \union (gone \cap Records(s)) \in SUBSET Keys
        BY <3>1 DEF Session
      <3> QED
        BY <2>2, <3>1, <3>2, <3>3 DEF SessionAfter, Session
    <2> QED
      BY <2>1, <2>2
  <1>2. \A s \in Sessions :
          SessionAfter(s, gone).presence # "none" <=> Known(s) /\ s \notin Expired
    <2> TAKE s \in Sessions
    <2>1. CASE s \in Expired
      BY <2>1 DEF SessionAfter, NoSession
    <2>2. CASE s \notin Expired
      BY <2>2 DEF SessionAfter, TypeOK, Session, OwnerGone, Known
    <2> QED
      BY <2>1, <2>2
  <1>3. session' = [s \in Sessions |-> SessionAfter(s, gone)]
    BY DEF Tick
  <1>4. session' \in [Sessions -> Session]
    BY <1>1, <1>3
  <1>5. \A s \in Sessions : Known(s)' <=> Known(s) /\ s \notin Expired
    BY <1>2, <1>3 DEF Known
  <1>6. \A s \in Sessions : ~Known(s)' => session'[s] = NoSession
    <2> SUFFICES ASSUME NEW s \in Sessions, ~Known(s)' PROVE SessionAfter(s, gone) = NoSession
      BY <1>3
    <2>1. CASE s \in Expired
      BY <2>1 DEF SessionAfter
    <2>2. CASE s \notin Expired
      <3>1. ~Known(s) /\ session[s] = NoSession
        BY <2>2, <1>5 DEF TypeOK
      <3>2. Records(s) = {}
        BY <3>1 DEF RecordHasSession, Records, TypeOK
      <3>3. ~OwnerGone(s)
        BY <3>1 DEF OwnerGone, NoSession
      <3>4. SessionAfter(s, gone) = [session[s] EXCEPT !.presence = session[s].presence,
                                                       !.ended = session[s].ended \union {}]
        BY <2>2, <3>2, <3>3 DEF SessionAfter
      <3>5. session[s] \in Session
        BY DEF TypeOK
      <3>6. SessionAfter(s, gone) = session[s]
        BY <3>4, <3>5 DEF Session
      <3> QED
        BY <3>1, <3>6
    <2> QED
      BY <2>1, <2>2
  <1>7. /\ holder' \in [Keys -> Sessions \union {None}]
        /\ errorOf' \in [Keys -> Sessions \union {None}]
    BY DEF Tick, HolderAfter, TypeOK
  <1>8. narrow' \in [Keys -> Filters] /\ inbox' \in [Keys -> Batch]
    BY EmptyBatchType DEF Tick, TypeOK, Filters
  <1>9. released' \in SUBSET Nat
    <2>1. \A k \in Keys : IdsOf(inbox[k]) \subseteq Nat
      BY IdsType DEF TypeOK
    <2>2. UNION {IdsOf(inbox[k]) : k \in Swept(gone) \cap GivenUp} \subseteq Nat
      BY <2>1 DEF Swept
    <2>3. released' = released \union UNION {IdsOf(inbox[k]) : k \in Swept(gone) \cap GivenUp}
      BY DEF Tick
    <2> QED
      BY <2>2, <2>3 DEF TypeOK
  <1>10. errors' \in 0 .. MaxErrors
    BY DEF Tick, TypeOK
  <1>11. TypeOK'
    BY <1>4, <1>6, <1>7, <1>8, <1>9, <1>10 DEF TypeOK, Tick, memory
  <1>12. ConnOK'
    BY DEF ConnOK, Tick, memory
  <1>13. RecordHasSession'
    BY <1>5 DEF RecordHasSession, Tick, HolderAfter, TypeOK
  <1> QED
    BY <1>11, <1>12, <1>13

LEMMA NoConnectionsType ==
  ASSUME NoConnections
  PROVE  /\ conn' \in [Conns -> Conn]
         /\ waiter' \in [Sessions -> Conns \union {NoConn}]
         /\ phase' \in {"up", "draining"}
         /\ ConnOK'
  BY ClosedType DEF NoConnections, ConnOK, Closed

LEMMA DrainBase ==
  ASSUME Base, Drain
  PROVE  Base'
  BY DEF Base, TypeOK, ConnOK, RecordHasSession, Drain, files, memory, history, bounds, Known

LEMMA RestartBase ==
  ASSUME Base, Restart \/ Crash
  PROVE  Base'
  <1>1. NoConnections
    BY DEF Restart, Crash
  <1>2. UNCHANGED <<files, alive, history, errors, reuses, resets>>
    BY DEF Restart, Crash, bounds
  <1>3. crashes' \in 0 .. MaxCrashes
    BY DEF Restart, Crash, bounds, Base, TypeOK
  <1>4. TypeOK'
    BY <1>1, <1>2, <1>3, NoConnectionsType DEF Base, TypeOK, files, history, Known
  <1>5. RecordHasSession'
    BY <1>2 DEF Base, RecordHasSession, files, Known
  <1> QED
    BY <1>1, <1>4, <1>5, NoConnectionsType DEF Base

LEMMA FormatResetBase ==
  ASSUME Base, NEW readable \in SUBSET Keys, FormatReset(readable)
  PROVE  Base'
  <1> USE DEF Base
  <1> DEFINE unread == {k \in Keys : holder[k] # None} \ readable
             upgraded == {holder[k] : k \in unread} \union {s \in Sessions : session[s].upgraded}
             kept == upgraded \union {holder[k] : k \in readable}
             r(s) == [NoSession EXCEPT !.presence = "live", !.owner = session[s].owner,
                                       !.upgraded = s \in upgraded]
  <1>1. session' = [s \in Sessions |-> IF s \in kept THEN r(s) ELSE NoSession]
    BY DEF FormatReset, SessionsAfterReset
  <1> HIDE DEF upgraded
  <1>2. \A s \in Sessions : r(s) \in Session /\ r(s).presence # "none"
    <2> TAKE s \in Sessions
    <2>1. session[s].owner \in Pids \union {None} /\ (s \in upgraded) \in BOOLEAN
      BY DEF TypeOK, Session
    <2>2. "live" \in Presence /\ "live" # "none"
      BY DEF Presence
    <2> QED
      BY <2>1, <2>2, NoSessionType DEF Session
  <1> HIDE DEF r
  <1>3. session' \in [Sessions -> Session]
    BY <1>1, <1>2, NoSessionType
  <1>4. \A s \in Sessions : s \in kept => Known(s)'
    BY <1>1, <1>2 DEF Known
  <1>5. \A s \in Sessions : ~Known(s)' => session'[s] = NoSession
    BY <1>1, <1>4
  <1>6. /\ holder' \in [Keys -> Sessions \union {None}]
        /\ narrow' \in [Keys -> Filters]
        /\ errorOf' \in [Keys -> Sessions \union {None}]
        /\ inbox' \in [Keys -> Batch]
        /\ resets' \in 0 .. MaxResets
    BY EmptyBatchType DEF FormatReset, TypeOK, Filters
  <1>7. released' \in SUBSET Nat
    <2>1. \A k \in Keys : IdsOf(inbox[k]) \subseteq Nat
      BY IdsType DEF TypeOK
    <2>2. UNION {IdsOf(inbox[k]) : k \in Keys} \subseteq Nat
      BY <2>1
    <2>3. released' = released \union UNION {IdsOf(inbox[k]) : k \in Keys}
      BY DEF FormatReset
    <2> QED
      BY <2>2, <2>3 DEF TypeOK
  <1>8. NoConnections
    BY DEF FormatReset
  <1>9. TypeOK'
    BY <1>3, <1>5, <1>6, <1>7, <1>8, NoConnectionsType DEF TypeOK, FormatReset
  <1>10. RecordHasSession'
    BY <1>4 DEF RecordHasSession, FormatReset, TypeOK
  <1> QED
    BY <1>8, <1>9, <1>10, NoConnectionsType

LEMMA BaseStep == Base /\ [Next]_vars => Base'
  <1> SUFFICES ASSUME Base, [Next]_vars PROVE Base'
    OBVIOUS
  <1>1. ASSUME NEW s \in Sessions, NEW k \in Keys, NEW mrs \in Filters, Watch(s, k, mrs)
        PROVE  Base'
    BY <1>1, WatchBase
  <1>2. ASSUME NEW s \in Sessions, NEW k \in Keys, Unsubscribe(s, k)
        PROVE  Base'
    BY <1>2, UnsubscribeBase
  <1>3. ASSUME NEW s \in Sessions, NEW p \in Pids, NEW rename \in BOOLEAN, NEW n \in Conns,
               Wait(s, p, rename, n)
        PROVE  Base'
    BY <1>3, WaitBase
  <1>4. ASSUME NEW n \in Conns, ClientGone(n) \/ Answer(n) \/ SendOk(n) \/ SendFails(n)
        PROVE  Base'
    BY <1>4, ClientGoneBase, AnswerSupersededBase, AnswerUpgradeBase, AnswerErrorBase,
       AnswerEventsBase, SendOkBase, SendFailsBase DEF Answer
  <1>5. ASSUME NEW k \in Keys, NEW m \in Mrs, NEW last \in BOOLEAN, CheckEvents(k, m, last)
        PROVE  Base'
    BY <1>5, CheckEventsBase
  <1>6. ASSUME NEW k \in Keys, CheckFails(k)
        PROVE  Base'
    BY <1>6, CheckFailsBase
  <1>7. ASSUME NEW p \in Pids, OwnerEnds(p) \/ OwnerStarts(p)
        PROVE  Base'
    BY <1>7, OwnersBase
  <1>8. ASSUME NEW s \in Sessions, GracePasses(s)
        PROVE  Base'
    BY <1>8, GracePassesBase
  <1>9. ASSUME NEW gone \in SUBSET Keys, Tick(gone)
        PROVE  Base'
    BY <1>9, TickBase
  <1>10. ASSUME NEW readable \in SUBSET Keys, FormatReset(readable)
         PROVE  Base'
    BY <1>10, FormatResetBase
  <1>11. CASE Drain \/ Restart \/ Crash
    BY <1>11, DrainBase, RestartBase
  <1>12. CASE UNCHANGED vars
    BY <1>12 DEF Base, TypeOK, ConnOK, RecordHasSession, vars, files, memory, history, bounds, Known
  <1> QED
    BY <1>1, <1>2, <1>3, <1>4, <1>5, <1>6, <1>7, <1>8, <1>9, <1>10, <1>11, <1>12 DEF Next

THEOREM BaseInvariant == Spec => []Base
  BY BaseInit, BaseStep, PTL DEF Spec

\* The state files, the connections and the counters keep their types, and a
\* session that has no record has none of its fields.
THEOREM TypeCorrect == Spec => []TypeOK
  <1>1. Base => TypeOK
    BY DEF Base
  <1> QED
    BY <1>1, BaseInvariant, PTL

\* An agent record never outlives the record of its session, whatever the order
\* of watches, renames, ends of records, ticks, resets and crashes.
THEOREM RecordsHaveSessions == Spec => []RecordHasSession
  <1>1. Base => RecordHasSession
    BY DEF Base
  <1> QED
    BY <1>1, BaseInvariant, PTL

-----------------------------------------------------------------------------
(* The results of a key have a taker *)

Results(k) == inbox[k] # EmptyBatch \/ errorOf[k] # None
HasTaker(k) == holder[k] # None \/ \E s \in Sessions : k \in session[s].ended

LEMMA TakerByKey ==
  /\ ResultsHaveTaker <=> \A k \in Keys : Results(k) => HasTaker(k)
  /\ ResultsHaveTaker' <=> \A k \in Keys : Results(k)' => HasTaker(k)'
  BY DEF ResultsHaveTaker, Results, HasTaker

\* A step that adds no results and takes no taker away.
LEMMA TakerKept ==
  ASSUME ResultsHaveTaker,
         \A k \in Keys : Results(k)' => Results(k),
         \A k \in Keys : HasTaker(k) => HasTaker(k)'
  PROVE  ResultsHaveTaker'
  BY TakerByKey

LEMMA WatchTaker ==
  ASSUME Base, ResultsHaveTaker,
         NEW s \in Sessions, NEW k \in Keys, NEW mrs \in Filters, Watch(s, k, mrs)
  PROVE  ResultsHaveTaker'
  <1>1. \A t \in Sessions : session'[t].ended = session[t].ended
    <2> TAKE t \in Sessions
    <2>1. session[t] \in Session /\ session[s] \in Session
      BY DEF Base, TypeOK
    <2>2. Watching(s, k).ended = session[s].ended
      BY <2>1 DEF Watching, Session
    <2> QED
      BY <2>1, <2>2 DEF Watch, Session
  <1>2. \A j \in Keys : HasTaker(j) => HasTaker(j)'
    BY <1>1, None \notin Sessions DEF HasTaker, Watch, Base, TypeOK
  <1>3. \A j \in Keys : Results(j)' => Results(j)
    BY DEF Results, Watch
  <1> QED
    BY <1>2, <1>3, TakerKept

LEMMA UnsubscribeTaker ==
  ASSUME Base, ResultsHaveTaker, NEW s \in Sessions, NEW k \in Keys, Unsubscribe(s, k)
  PROVE  ResultsHaveTaker'
  <1>1. ~Results(k)'
    BY DEF Results, Unsubscribe, Base, TypeOK
  <1>2. \A j \in Keys \ {k} : (Results(j)' <=> Results(j)) /\ (HasTaker(j)' <=> HasTaker(j))
    BY DEF Results, HasTaker, Unsubscribe, Base, TypeOK
  <1> QED
    BY <1>1, <1>2, TakerByKey

LEMMA WaitTaker ==
  ASSUME Base, ResultsHaveTaker,
         NEW s \in Sessions, NEW p \in Pids, NEW rename \in BOOLEAN, NEW n \in Conns,
         Wait(s, p, rename, n)
  PROVE  ResultsHaveTaker'
  <1> DEFINE moved(old) == [session EXCEPT ![old] = NoSession, ![s] = session[old]]
             own(old) == IF session[old].presence = "none" THEN session[old]
                         ELSE [session[old] EXCEPT !.presence = "live", !.owner = p]
             sources == IF rename /\ Renamed(s, p) # {} THEN Renamed(s, p) ELSE {s}
  <1>1. PICK old \in sources :
          /\ holder' = [k \in Keys |-> IF holder[k] = old THEN s ELSE holder[k]]
          /\ errorOf' = [k \in Keys |-> IF errorOf[k] = old THEN s ELSE errorOf[k]]
          /\ session' = [t \in Sessions |->
               IF t = s THEN own(old)
               ELSE IF Left(t, s, p, moved(old)) THEN [moved(old)[t] EXCEPT !.presence = "away"]
               ELSE moved(old)[t]]
    BY Zenon DEF Wait
  <1>2. old \in Sessions /\ (old = s \/ session[s] = NoSession)
    BY DEF Renamed, Base, TypeOK
  <1>3. own(old).ended = session[old].ended
    BY <1>2 DEF Base, TypeOK, Session
  <1>4. moved(old) \in [Sessions -> Session]
    BY <1>2, NoSessionType DEF Base, TypeOK
  <1>5. \A t \in Sessions \ {s, old} : session'[t].ended = session[t].ended
    <2> TAKE t \in Sessions \ {s, old}
    <2>1. moved(old)[t] = session[t]
      BY DEF Base, TypeOK
    <2> QED
      BY <1>1, <1>4, <2>1 DEF Session
  <1>6. session'[s].ended = session[old].ended
    BY <1>1, <1>3
  <1>7. \A j \in Keys : HasTaker(j) => HasTaker(j)'
    <2> SUFFICES ASSUME NEW j \in Keys, HasTaker(j) PROVE HasTaker(j)'
      OBVIOUS
    <2>1. CASE holder[j] # None
      BY <2>1, <1>1, None \notin Sessions DEF HasTaker, Base, TypeOK
    <2>2. CASE \E t \in Sessions : j \in session[t].ended
      <3> PICK t \in Sessions : j \in session[t].ended
        BY <2>2
      <3>1. t # s \/ old = s
        BY <1>2 DEF NoSession
      <3> QED
        BY <3>1, <1>2, <1>5, <1>6 DEF HasTaker
    <2> QED
      BY <2>1, <2>2 DEF HasTaker
  <1>8. \A j \in Keys : Results(j)' => Results(j)
    BY <1>1, <1>2, None \notin Sessions DEF Results, Wait
  <1> QED
    BY <1>7, <1>8, TakerKept

LEMMA AnswerTaker ==
  ASSUME Base, ResultsHaveTaker, NEW n \in Conns, Answer(n)
  PROVE  ResultsHaveTaker'
  <1> DEFINE s == conn[n].session
  <1>1. CASE AnswerSuperseded(n)
    BY <1>1, TakerKept DEF AnswerSuperseded, files, Results, HasTaker
  <1>2. CASE AnswerUpgrade(n)
    <2>1. session' = [session EXCEPT ![s].upgraded = FALSE]
      BY <1>2 DEF AnswerUpgrade
    <2>2. \A t \in Sessions : session'[t].ended = session[t].ended
      BY <2>1 DEF Base, TypeOK, Session
    <2> QED
      BY <1>2, <2>2, TakerKept DEF AnswerUpgrade, Results, HasTaker
  <1>3. CASE AnswerError(n)
    <2>1. PICK k : errorOf' = [errorOf EXCEPT ![k] = None]
      BY <1>3 DEF AnswerError
    <2> QED
      BY <1>3, <2>1, TakerKept DEF AnswerError, Results, HasTaker, Base, TypeOK
  <1>4. CASE AnswerEvents(n)
    <2>1. /\ inbox' = [k \in Keys |-> IF k \in TakenKeys(s) THEN Rest(k) ELSE inbox[k]]
          /\ session' = [session EXCEPT ![s].replaced = {}, ![s].ended = {}]
          /\ EndedErrors(s) = {}
          /\ UNCHANGED <<holder, errorOf>>
      BY <1>4 DEF AnswerEvents
    <2>2. s \in Sessions /\ session[s] \in Session
      BY <1>4, TurnFacts DEF AnswerEvents
    <2>3. \A t \in Sessions \ {s} : session'[t] = session[t]
      BY <2>1 DEF Base, TypeOK
    <2> SUFFICES ASSUME NEW k \in Keys, Results(k)' PROVE HasTaker(k)'
      BY TakerByKey
    <2>4. CASE holder[k] # None
      BY <2>1, <2>4 DEF HasTaker
    <2>5. CASE holder[k] = None /\ k \in session[s].ended
      <3>1. errorOf'[k] = None
        BY <2>1, <2>5 DEF EndedErrors
      <3>2. Rest(k) = EmptyBatch
        BY <2>5 DEF Rest, Taken, Only, EmptyBatch
      <3>3. inbox'[k] = EmptyBatch
        BY <2>1, <2>5, <3>2 DEF TakenKeys
      <3> QED
        BY <3>1, <3>3 DEF Results
    <2>6. CASE holder[k] = None /\ k \notin session[s].ended
      <3>1. inbox'[k] = inbox[k] /\ errorOf'[k] = errorOf[k]
        BY <2>1, <2>2, <2>6, None \notin Sessions DEF TakenKeys, Records
      <3>2. HasTaker(k)
        BY <3>1, TakerByKey DEF Results
      <3> QED
        BY <3>2, <2>3, <2>6 DEF HasTaker
    <2> QED
      BY <2>4, <2>5, <2>6
  <1> QED
    BY <1>1, <1>2, <1>3, <1>4 DEF Answer

LEMMA JoinEmpty == Join(EmptyBatch, EmptyBatch) = EmptyBatch
  BY DEF Join, EmptyBatch

\* One session record changes and keeps its ended keys.
LEMMA EndedKept ==
  ASSUME Base, NEW s \in Sessions, NEW r \in Session, session[s].ended \subseteq r.ended,
         session' = [session EXCEPT ![s] = r], UNCHANGED holder
  PROVE  \A k \in Keys : /\ HasTaker(k) => HasTaker(k)'
                         /\ k \in r.ended => HasTaker(k)'
  BY DEF Base, TypeOK, HasTaker

LEMMA OrDefaultEnded ==
  ASSUME Base, NEW s \in Sessions
  PROVE  OrDefault(s) \in Session /\ OrDefault(s).ended = session[s].ended
  BY OrDefaultType DEF Base, OrDefault, TypeOK, Session

LEMMA SendFailsTaker ==
  ASSUME Base, ResultsHaveTaker, NEW n \in Conns, SendFails(n)
  PROVE  ResultsHaveTaker'
  <1> DEFINE a == conn[n]
             s == a.session
  <1>1. /\ a \in Conn /\ a.kind # "none" /\ (a.kind # "superseded" => s \in Sessions)
        /\ UNCHANGED holder
    BY DEF Base, TypeOK, ConnOK, SendFails
  <1>2. CASE a.kind = "superseded"
    BY <1>1, <1>2, TakerKept DEF SendFails, Results, HasTaker
  <1>3. CASE a.kind = "events"
    <2> DEFINE state == OrDefault(s)
               keys == {k \in Keys : a.batches[k] # EmptyBatch}
               back == [state EXCEPT !.replaced = @ \union a.replaced,
                          !.ended = @ \union {k \in keys : holder[k] = None}]
    <2>1. PutBack(s, a)
      BY <1>3 DEF SendFails
    <2>2. state \in Session /\ state.ended = session[s].ended
      BY <1>1, <1>3, OrDefaultEnded
    <2>3. a.replaced \subseteq Keys
      BY <1>1 DEF Conn
    <2>4. back \in Session /\ back.ended = session[s].ended \union {k \in keys : holder[k] = None}
      BY <2>2, <2>3 DEF Session
    <2>5. \/ session' = session /\ back = state
          \/ session' = [session EXCEPT ![s] = back]
      BY <2>1 DEF PutBack
    <2>6. \A k \in Keys : HasTaker(k) => HasTaker(k)'
      BY <2>4, <2>5, <1>1, <1>3, EndedKept DEF HasTaker
    <2>7. \A k \in keys : HasTaker(k)'
      <3>1. \A k \in keys : holder[k] # None => HasTaker(k)'
        BY <1>1 DEF HasTaker
      <3>2. \A k \in keys : holder[k] = None => k \in back.ended
        BY <2>4
      <3>3. CASE session' = session /\ back = state
        BY <3>1, <3>2, <3>3, <2>2, <1>1, <1>3 DEF HasTaker
      <3>4. CASE session' = [session EXCEPT ![s] = back]
        BY <3>1, <3>2, <3>4, <2>4, <1>1, <1>3, EndedKept
      <3> QED
        BY <2>5, <3>3, <3>4
    <2>8. \A k \in Keys \ keys : Results(k)' => Results(k)
      <3> TAKE k \in Keys \ keys
      <3>1. inbox'[k] = Join(EmptyBatch, inbox[k]) /\ errorOf'[k] = errorOf[k]
        BY <2>1 DEF PutBack
      <3> QED
        BY <3>1, JoinEmpty DEF Results
    <2> QED
      BY <2>6, <2>7, <2>8, TakerByKey
  <1>4. CASE a.kind = "error"
    <2> DEFINE r == [OrDefault(s) EXCEPT !.ended = @ \union {a.errorKey}]
    <2>1. PutBackError(s, a)
      BY <1>4 DEF SendFails
    <2>2. a.errorKey \in Keys
      BY <1>1, <1>4 DEF Base, ConnOK
    <2>3. r \in Session /\ r.ended = session[s].ended \union {a.errorKey}
      BY <2>2, <1>1, <1>4, OrDefaultEnded DEF Session
    <2>4. session' = [session EXCEPT ![s] = r]
      BY <2>1 DEF PutBackError
    <2> HIDE DEF r
    <2>5. \A k \in Keys : (HasTaker(k) => HasTaker(k)') /\ (k = a.errorKey => HasTaker(k)')
      BY <2>3, <2>4, <1>1, <1>4, EndedKept
    <2>6. \A k \in Keys : k # a.errorKey => (Results(k)' => Results(k))
      BY <2>1 DEF PutBackError, Results, Base, TypeOK
    <2> QED
      BY <2>5, <2>6, TakerByKey
  <1>5. CASE a.kind = "upgrade"
    <2> DEFINE r == [OrDefault(s) EXCEPT !.upgraded = TRUE]
    <2>1. PutBackUpgrade(s)
      BY <1>5 DEF SendFails
    <2>2. r \in Session /\ r.ended = session[s].ended
      <3>1. OrDefault(s) \in Session /\ OrDefault(s).ended = session[s].ended
        BY <1>1, <1>5, OrDefaultEnded
      <3> QED
        BY <3>1 DEF Session
    <2>3. session' = [session EXCEPT ![s] = r]
      BY <2>1 DEF PutBackUpgrade
    <2> HIDE DEF r
    <2>4. \A k \in Keys : HasTaker(k) => HasTaker(k)'
      BY <2>2, <2>3, <1>1, <1>5, EndedKept
    <2> QED
      BY <2>1, <2>4, TakerKept DEF PutBackUpgrade, Results
  <1> QED
    BY <1>1, <1>2, <1>3, <1>4, <1>5 DEF Conn, AnswerKinds

LEMMA EndRecordsTaker ==
  ASSUME Base, NEW keys \in SUBSET Keys, NEW error \in BOOLEAN, EndRecords(keys, error)
  PROVE  /\ \A k \in Keys : HasTaker(k) => HasTaker(k)'
         /\ \A k \in keys : holder[k] # None => HasTaker(k)'
         /\ \A k \in Keys \ keys : errorOf'[k] = errorOf[k]
  <1>1. \A s \in Sessions : session'[s].ended =
          session[s].ended \union (keys \cap Records(s))
    <2> TAKE s \in Sessions
    <2>1. CASE Known(s)
      BY <2>1 DEF EndRecords, Base, TypeOK, Session
    <2>2. CASE ~Known(s)
      <3>1. Records(s) = {}
        BY <2>2 DEF Base, RecordHasSession, Records, TypeOK
      <3> QED
        BY <2>2, <3>1 DEF EndRecords
    <2> QED
      BY <2>1, <2>2
  <1>2. \A k \in keys : holder[k] # None => HasTaker(k)'
    BY <1>1 DEF HasTaker, Records, Base, TypeOK
  <1>3. \A k \in Keys : HasTaker(k) => HasTaker(k)'
    <2> SUFFICES ASSUME NEW k \in Keys, HasTaker(k) PROVE HasTaker(k)'
      OBVIOUS
    <2>1. CASE holder[k] # None
      BY <2>1, <1>2 DEF HasTaker, EndRecords
    <2>2. CASE \E s \in Sessions : k \in session[s].ended
      BY <2>2, <1>1 DEF HasTaker
    <2> QED
      BY <2>1, <2>2 DEF HasTaker
  <1> QED
    BY <1>2, <1>3 DEF EndRecords

LEMMA ChecksTaker ==
  ASSUME Base, ResultsHaveTaker, NEW k \in Keys,
         CheckFails(k) \/ \E m \in Mrs, last \in BOOLEAN : CheckEvents(k, m, last)
  PROVE  ResultsHaveTaker'
  <1>1. CASE CheckFails(k)
    <2>1. EndRecords({k}, TRUE) /\ holder[k] # None /\ UNCHANGED inbox
      BY <1>1 DEF CheckFails
    <2>2. \A j \in Keys : HasTaker(j) => HasTaker(j)'
      BY <2>1, EndRecordsTaker
    <2>3. HasTaker(k)'
      BY <2>1, EndRecordsTaker
    <2>4. \A j \in Keys \ {k} : errorOf'[j] = errorOf[j]
      BY <2>1, EndRecordsTaker
    <2>5. \A j \in Keys \ {k} : Results(j)' => Results(j)
      BY <2>1, <2>4 DEF Results
    <2> QED
      BY <2>2, <2>3, <2>5, TakerByKey
  <1>2. ASSUME NEW m \in Mrs, NEW last \in BOOLEAN, CheckEvents(k, m, last)
        PROVE  ResultsHaveTaker'
    <2> DEFINE keys == IF last THEN {k} ELSE {}
    <2>1. EndRecords(keys, FALSE) /\ holder[k] # None
      BY <1>2 DEF CheckEvents
    <2>2. \A j \in Keys : HasTaker(j) => HasTaker(j)'
      BY <2>1, EndRecordsTaker
    <2>3. HasTaker(k)'
      BY <2>1, <2>2 DEF HasTaker
    <2>4. \A j \in Keys \ {k} : Results(j)' => Results(j)
      BY <1>2 DEF CheckEvents, EndRecords, Results, Base, TypeOK
    <2> QED
      BY <2>2, <2>3, <2>4, TakerByKey
  <1> QED
    BY <1>1, <1>2

LEMMA TickTaker ==
  ASSUME Base, ResultsHaveTaker, NEW gone \in SUBSET Keys, Tick(gone)
  PROVE  ResultsHaveTaker'
  <1> SUFFICES ASSUME NEW k \in Keys, Results(k)' PROVE HasTaker(k)'
    BY TakerByKey
  <1>1. k \notin Swept(gone)
    BY DEF Results, Tick
  <1>2. HolderAfter(k, gone) # None \/ \E s \in Sessions : k \in SessionAfter(s, gone).ended
    BY <1>1 DEF Swept
  <1> QED
    BY <1>2 DEF HasTaker, Tick

LEMMA OthersTaker ==
  ASSUME Base, ResultsHaveTaker,
         \/ \E n \in Conns : ClientGone(n) \/ SendOk(n)
         \/ \E p \in Pids : OwnerEnds(p) \/ OwnerStarts(p)
         \/ \E s \in Sessions : GracePasses(s)
         \/ Drain \/ Restart \/ Crash \/ UNCHANGED vars
         \/ \E readable \in SUBSET Keys : FormatReset(readable)
  PROVE  ResultsHaveTaker'
  <1>1. CASE UNCHANGED files
    BY <1>1, TakerKept DEF files, Results, HasTaker
  <1>2. ASSUME NEW s \in Sessions, GracePasses(s)
        PROVE  ResultsHaveTaker'
    <2>1. \A t \in Sessions : session'[t].ended = session[t].ended
      BY <1>2 DEF GracePasses, Base, TypeOK, Session
    <2> QED
      BY <1>2, <2>1, TakerKept DEF GracePasses, Results, HasTaker
  <1>3. ASSUME NEW readable \in SUBSET Keys, FormatReset(readable)
        PROVE  ResultsHaveTaker'
    BY <1>3, TakerByKey DEF FormatReset, Results, EmptyBatches
  <1> QED
    BY <1>1, <1>2, <1>3 DEF ClientGone, SendOk, OwnerEnds, OwnerStarts, Drain, Restart, Crash, vars

LEMMA TakerStep == Base /\ ResultsHaveTaker /\ [Next]_vars => ResultsHaveTaker'
  <1> SUFFICES ASSUME Base, ResultsHaveTaker, [Next]_vars PROVE ResultsHaveTaker'
    OBVIOUS
  <1> QED
    BY WatchTaker, UnsubscribeTaker, WaitTaker, AnswerTaker, SendFailsTaker, ChecksTaker,
       TickTaker, OthersTaker DEF Next

\* No step leaves events or an error that no session takes: a failed send, an end
\* of a record or a rename always leaves a record of the key or an ended key, and
\* a delivery forgets an ended key only with its results.
THEOREM ResultsAlwaysHaveTaker == Spec => []ResultsHaveTaker
  <1>1. Init => ResultsHaveTaker
    BY DEF Init, ResultsHaveTaker, EmptyBatches
  <1> QED
    BY <1>1, BaseInvariant, TakerStep, PTL DEF Spec
-----------------------------------------------------------------------------
(* Waiters *)

LEMMA WaitWaiter ==
  ASSUME Base, WaiterIsConnected,
         NEW s \in Sessions, NEW p \in Pids, NEW rename \in BOOLEAN, NEW n \in Conns,
         Wait(s, p, rename, n)
  PROVE  WaiterIsConnected'
  <1>1. conn' = [conn EXCEPT ![n] = [Closed EXCEPT !.st = "waiting", !.session = s, !.pid = p]]
    BY DEF Wait
  <1>2. conn[n].st = "closed"
    BY DEF Wait
  <1>3. \A t \in Sessions : waiter'[t] = IF t = s THEN n ELSE waiter'[t]
    BY DEF Wait
  <1>4. \A t \in Sessions \ {s} : waiter'[t] \in {NoConn, waiter[t]}
    BY DEF Wait
  <1>5. conn'[n].st = "waiting" /\ conn'[n].session = s
    BY <1>1 DEF Base, TypeOK, Closed
  <1>6. \A t \in Sessions \ {s} : waiter[t] # NoConn => waiter[t] \in Conns \ {n}
    BY <1>2 DEF WaiterIsConnected, Base, TypeOK
  <1>7. \A c \in Conns \ {n} : conn'[c] = conn[c]
    BY <1>1 DEF Base, TypeOK
  <1> QED
    BY <1>3, <1>4, <1>5, <1>6, <1>7 DEF WaiterIsConnected

LEMMA CloseWaiter ==
  ASSUME Base, WaiterIsConnected, NEW n \in Conns, Close(n)
  PROVE  WaiterIsConnected'
  BY DEF Close, WaiterIsConnected, Base, TypeOK

LEMMA SendsWaiter ==
  ASSUME Base, WaiterIsConnected, NEW n \in Conns, NEW a \in Conn,
         a.session = conn[n].session \/ \A s \in Sessions : waiter[s] # n,
         Sends(n, a), UNCHANGED waiter
  PROVE  WaiterIsConnected'
  <1>1. conn' = [conn EXCEPT ![n] = [a EXCEPT !.st = "sending", !.pid = None]]
    BY DEF Sends
  <1>2. conn'[n].st = "sending" /\ conn'[n].session = a.session
    BY <1>1 DEF Base, TypeOK, Conn
  <1>3. \A c \in Conns \ {n} : conn'[c] = conn[c]
    BY <1>1 DEF Base, TypeOK
  <1> QED
    BY <1>2, <1>3 DEF WaiterIsConnected, Base, TypeOK

LEMMA AnswerWaiter ==
  ASSUME Base, WaiterIsConnected, NEW n \in Conns, Answer(n)
  PROVE  WaiterIsConnected'
  <1> DEFINE s == conn[n].session
  <1>1. conn[n] \in Conn
    BY DEF Base, TypeOK
  <1>2. CASE AnswerSuperseded(n)
    <2> DEFINE a == [Closed EXCEPT !.kind = "superseded"]
    <2>1. a \in Conn
      BY ClosedType DEF Conn, AnswerKinds
    <2>2. waiter[conn[n].session] # n
      BY <1>2 DEF AnswerSuperseded
    <2>3. \A t \in Sessions : waiter[t] # n
      BY <2>2 DEF WaiterIsConnected, Base, TypeOK
    <2>4. Sends(n, a) /\ UNCHANGED waiter
      BY <1>2 DEF AnswerSuperseded
    <2> HIDE DEF a
    <2> QED
      BY <2>1, <2>3, <2>4, SendsWaiter
  <1>3. CASE AnswerUpgrade(n)
    <2> DEFINE a == [conn[n] EXCEPT !.kind = "upgrade"]
    <2>1. a \in Conn /\ a.session = conn[n].session
      BY <1>1 DEF Conn, AnswerKinds
    <2>2. Sends(n, a) /\ UNCHANGED waiter
      BY <1>3 DEF AnswerUpgrade
    <2> QED
      BY <2>1, <2>2, SendsWaiter
  <1>4. CASE AnswerError(n)
    <2>1. PICK k \in EndedErrors(s) :
            Sends(n, [conn[n] EXCEPT !.kind = "error", !.errorKey = k, !.errorOf = errorOf[k]])
      BY <1>4 DEF AnswerError
    <2> DEFINE a == [conn[n] EXCEPT !.kind = "error", !.errorKey = k, !.errorOf = errorOf[k]]
    <2>2. s \in Sessions
      BY <1>4, TurnFacts DEF AnswerError
    <2>3. k \in Keys /\ errorOf[k] \in Sessions \union {None}
      BY <2>2 DEF EndedErrors, Base, TypeOK, Session
    <2>4. a \in Conn /\ a.session = conn[n].session
      BY <1>1, <2>3 DEF Conn, AnswerKinds
    <2>5. UNCHANGED waiter
      BY <1>4 DEF AnswerError
    <2> QED
      BY <2>1, <2>4, <2>5, SendsWaiter
  <1>5. CASE AnswerEvents(n)
    <2> DEFINE batches == [k \in Keys |-> IF k \in TakenKeys(s)
                                          THEN Only(inbox[k], Taken(k)) ELSE EmptyBatch]
               a == [conn[n] EXCEPT !.kind = "events", !.batches = batches,
                                    !.replaced = session[s].replaced]
    <2>1. s \in Sessions
      BY <1>5, TurnFacts DEF AnswerEvents
    <2>2. session[s].replaced \in SUBSET Keys
      BY <2>1 DEF Base, TypeOK, Session
    <2>3. batches \in [Keys -> Batch]
      BY OnlyType, EmptyBatchType DEF Base, TypeOK
    <2>4. UNCHANGED conn \/ Sends(n, a)
      BY <1>5 DEF AnswerEvents
    <2>5. UNCHANGED waiter
      BY <1>5 DEF AnswerEvents
    <2> HIDE DEF batches
    <2>6. a \in Conn /\ a.session = conn[n].session
      BY <1>1, <2>2, <2>3 DEF Conn, AnswerKinds
    <2>7. CASE UNCHANGED conn
      BY <2>5, <2>7 DEF WaiterIsConnected
    <2> QED
      BY <2>4, <2>5, <2>6, <2>7, SendsWaiter
  <1> QED
    BY <1>2, <1>3, <1>4, <1>5 DEF Answer

LEMMA WaiterKept ==
  ASSUME WaiterIsConnected, UNCHANGED memory
  PROVE  WaiterIsConnected'
  BY DEF WaiterIsConnected, memory

LEMMA WaiterStep == Base /\ WaiterIsConnected /\ [Next]_vars => WaiterIsConnected'
  <1> SUFFICES ASSUME Base, WaiterIsConnected, [Next]_vars PROVE WaiterIsConnected'
    OBVIOUS
  <1>1. ASSUME NEW s \in Sessions, NEW p \in Pids, NEW rename \in BOOLEAN, NEW n \in Conns,
               Wait(s, p, rename, n)
        PROVE  WaiterIsConnected'
    BY <1>1, WaitWaiter
  <1>2. ASSUME NEW n \in Conns, ClientGone(n) \/ SendOk(n) \/ SendFails(n)
        PROVE  WaiterIsConnected'
    BY <1>2, CloseWaiter DEF ClientGone, SendOk, SendFails
  <1>3. ASSUME NEW n \in Conns, Answer(n)
        PROVE  WaiterIsConnected'
    BY <1>3, AnswerWaiter
  <1>4. CASE Restart \/ Crash \/ \E readable \in SUBSET Keys : FormatReset(readable)
    BY <1>4 DEF Restart, Crash, FormatReset, NoConnections, WaiterIsConnected
  <1>5. CASE UNCHANGED memory
    BY <1>5, WaiterKept
  <1> QED
    BY <1>1, <1>2, <1>3, <1>4, <1>5 DEF Next, Watch, Unsubscribe, CheckEvents, CheckFails,
       OwnerEnds, OwnerStarts, GracePasses, Tick, Drain, vars

\* Each registered waiter is an open connection of its session: no end of a
\* client, supersession, rename or restart leaves a number that answers nobody.
THEOREM WaitersAreConnected == Spec => []WaiterIsConnected
  <1>1. Init => WaiterIsConnected
    BY DEF Init, WaiterIsConnected
  <1> QED
    BY <1>1, BaseInvariant, WaiterStep, PTL DEF Spec
-----------------------------------------------------------------------------
(* Owners *)

LEMMA LiveKept ==
  ASSUME OneLivePerOwner,
         \A s \in Sessions : session'[s].presence = "live" /\ session'[s].owner # None =>
             session[s].presence = "live" /\ session[s].owner = session'[s].owner
  PROVE  OneLivePerOwner'
  BY DEF OneLivePerOwner

LEMMA WatchLive ==
  ASSUME Base, OneLivePerOwner, NEW s \in Sessions, NEW k \in Keys, NEW mrs \in Filters,
         Watch(s, k, mrs)
  PROVE  OneLivePerOwner'
  <1>1. Watching(s, k).presence = "live" => session[s].presence = "live"
    BY DEF Watching, Base, TypeOK, Session
  <1>2. Watching(s, k).owner = session[s].owner
    BY DEF Watching, Base, TypeOK, Session
  <1>3. session'[s] = Watching(s, k)
    BY DEF Watch
  <1>4. \A t \in Sessions \ {s} : /\ session'[t].presence = session[t].presence
                                  /\ session'[t].owner = session[t].owner
    BY DEF Watch, Base, TypeOK, Session
  <1> QED
    BY <1>1, <1>2, <1>3, <1>4, LiveKept

LEMMA WaitLive ==
  ASSUME Base, OneLivePerOwner,
         NEW s \in Sessions, NEW p \in Pids, NEW rename \in BOOLEAN, NEW n \in Conns,
         Wait(s, p, rename, n)
  PROVE  OneLivePerOwner'
  <1> DEFINE moved(old) == [session EXCEPT ![old] = NoSession, ![s] = session[old]]
             own(old) == IF session[old].presence = "none" THEN session[old]
                         ELSE [session[old] EXCEPT !.presence = "live", !.owner = p]
             sources == IF rename /\ Renamed(s, p) # {} THEN Renamed(s, p) ELSE {s}
  <1>1. PICK old \in sources :
          session' = [t \in Sessions |->
               IF t = s THEN own(old)
               ELSE IF Left(t, s, p, moved(old)) THEN [moved(old)[t] EXCEPT !.presence = "away"]
               ELSE moved(old)[t]]
    BY Zenon DEF Wait
  <1>2. old \in Sessions
    BY DEF Renamed
  <1> HIDE DEF sources
  <1>3. own(old).owner = p \/ own(old).presence # "live"
    BY <1>2 DEF Base, TypeOK, Session
  <1>4. \A t \in Sessions \ {s} : moved(old)[t] \in {session[t], NoSession}
    BY <1>2 DEF Base, TypeOK
  <1>5. \A t \in Sessions \ {s} : session'[t].presence = "live" =>
          /\ session'[t].owner # p
          /\ session[t].presence = "live" /\ session[t].owner = session'[t].owner
    <2> SUFFICES ASSUME NEW t \in Sessions \ {s}, session'[t].presence = "live"
                 PROVE  /\ session'[t].owner # p
                        /\ session[t].presence = "live" /\ session[t].owner = session'[t].owner
      OBVIOUS
    <2>1. moved(old)[t] \in Session
      BY <1>4, NoSessionType DEF Base, TypeOK
    <2>2. ~Left(t, s, p, moved(old))
      <3>1. [moved(old)[t] EXCEPT !.presence = "away"].presence = "away"
        BY <2>1 DEF Session
      <3>2. Left(t, s, p, moved(old)) =>
              session'[t] = [moved(old)[t] EXCEPT !.presence = "away"]
        BY <1>1
      <3> QED
        BY <3>1, <3>2
    <2>3. session'[t] = moved(old)[t]
      BY <1>1, <2>2
    <2>4. session'[t].owner # p
      BY <2>2, <2>3 DEF Left
    <2>5. moved(old)[t].presence = "live" /\ NoSession.presence = "none"
      BY <2>3 DEF NoSession
    <2> HIDE DEF moved
    <2>6. moved(old)[t] = session[t]
      BY <1>4, <2>5
    <2> QED
      BY <2>3, <2>4, <2>6
  <1>6. session'[s] = own(old)
    BY <1>1
  <1> HIDE DEF own, moved
  <1> QED
    BY <1>3, <1>5, <1>6 DEF OneLivePerOwner

\* A missing record that a failed send writes again has no owner.
LEMMA SendFailsLive ==
  ASSUME Base, OneLivePerOwner, NEW n \in Conns, SendFails(n)
  PROVE  OneLivePerOwner'
  <1> DEFINE a == conn[n]
             s == a.session
  <1>1. a \in Conn /\ (a.kind \notin {"none", "superseded"} => s \in Sessions)
    BY DEF Base, TypeOK, ConnOK, SendFails
  <1>2. CASE a.kind = "superseded"
    BY <1>2, LiveKept DEF SendFails
  <1>3. ASSUME s \in Sessions,
               NEW r, r.presence = OrDefault(s).presence, r.owner = OrDefault(s).owner,
               session' = session \/ session' = [session EXCEPT ![s] = r]
        PROVE  OneLivePerOwner'
    <2>1. OrDefault(s).owner = session[s].owner
      BY <1>3 DEF OrDefault, Base, TypeOK, Session
    <2>2. OrDefault(s).presence = "live" => session[s].presence = "live" \/ session[s].owner = None
      BY <1>3 DEF OrDefault, Base, TypeOK, Known, NoSession
    <2>3. CASE session' = session
      BY <2>3, LiveKept
    <2>4. CASE session' = [session EXCEPT ![s] = r]
      BY <1>3, <2>1, <2>2, <2>4, LiveKept DEF Base, TypeOK
    <2> QED
      BY <1>3, <2>3, <2>4
  <1>4. s \in Sessions => OrDefault(s) \in Session
    BY OrDefaultType DEF Base
  <1>5. CASE a.kind = "events"
    <2> DEFINE keys == {k \in Keys : a.batches[k] # EmptyBatch}
               state == OrDefault(s)
               r == [state EXCEPT !.replaced = @ \union a.replaced,
                                  !.ended = @ \union {k \in keys : holder[k] = None}]
    <2>1. PutBack(s, a)
      BY <1>5 DEF SendFails
    <2>2. session' = session \/ session' = [session EXCEPT ![s] = r]
      BY <2>1 DEF PutBack
    <2>3. r.presence = state.presence /\ r.owner = state.owner
      BY <1>1, <1>4, <1>5 DEF Session
    <2> HIDE DEF r
    <2> QED
      BY <1>1, <1>3, <1>5, <2>2, <2>3
  <1>6. CASE a.kind = "error"
    <2> DEFINE r == [OrDefault(s) EXCEPT !.ended = @ \union {a.errorKey}]
    <2>1. PutBackError(s, a)
      BY <1>6 DEF SendFails
    <2>2. session' = session \/ session' = [session EXCEPT ![s] = r]
      BY <2>1 DEF PutBackError
    <2>3. r.presence = OrDefault(s).presence /\ r.owner = OrDefault(s).owner
      BY <1>1, <1>4, <1>6 DEF Session
    <2> HIDE DEF r
    <2> QED
      BY <1>1, <1>3, <1>6, <2>2, <2>3
  <1>7. CASE a.kind = "upgrade"
    <2> DEFINE r == [OrDefault(s) EXCEPT !.upgraded = TRUE]
    <2>1. PutBackUpgrade(s)
      BY <1>7 DEF SendFails
    <2>2. session' = session \/ session' = [session EXCEPT ![s] = r]
      BY <2>1 DEF PutBackUpgrade
    <2>3. r.presence = OrDefault(s).presence /\ r.owner = OrDefault(s).owner
      BY <1>1, <1>4, <1>7 DEF Session
    <2> HIDE DEF r
    <2> QED
      BY <1>1, <1>3, <1>7, <2>2, <2>3
  <1> QED
    BY <1>1, <1>2, <1>5, <1>6, <1>7 DEF Conn, AnswerKinds, SendFails, Base, ConnOK

\* Deliveries, ends of records and time leave the owners as they are, and make
\* no session live.
LEMMA OthersLive ==
  ASSUME Base, OneLivePerOwner,
         \/ \E n \in Conns : Answer(n)
         \/ \E k \in Keys : CheckFails(k) \/ \E m \in Mrs, last \in BOOLEAN : CheckEvents(k, m, last)
         \/ \E s \in Sessions : GracePasses(s)
         \/ \E gone \in SUBSET Keys : Tick(gone)
  PROVE  OneLivePerOwner'
  <1>1. ASSUME NEW n \in Conns, Answer(n)
        PROVE  OneLivePerOwner'
    <2> DEFINE Same == \A s \in Sessions : /\ session'[s].presence = session[s].presence
                                           /\ session'[s].owner = session[s].owner
    <2>1. AnswerSuperseded(n) \/ AnswerError(n) => Same
      BY DEF AnswerSuperseded, AnswerError, files
    <2>2. AnswerUpgrade(n) => Same
      BY DEF AnswerUpgrade, Base, TypeOK, Session
    <2>3. AnswerEvents(n) => Same
      BY DEF AnswerEvents, Base, TypeOK, Session
    <2> QED
      BY <1>1, <2>1, <2>2, <2>3, LiveKept DEF Answer
  <1>2. ASSUME NEW keys, NEW error, EndRecords(keys, error)
        PROVE  OneLivePerOwner'
    <2>1. \A s \in Sessions : /\ session'[s].presence = session[s].presence
                              /\ session'[s].owner = session[s].owner
      BY <1>2 DEF EndRecords, Base, TypeOK, Session
    <2> QED
      BY <2>1, LiveKept
  <1>3. ASSUME NEW s \in Sessions, GracePasses(s)
        PROVE  OneLivePerOwner'
    <2>1. \A t \in Sessions : session'[t].presence = "live" =>
            session[t].presence = "live" /\ session[t].owner = session'[t].owner
      BY <1>3 DEF GracePasses, Base, TypeOK, Session
    <2> QED
      BY <2>1, LiveKept
  <1>4. ASSUME NEW gone \in SUBSET Keys, Tick(gone)
        PROVE  OneLivePerOwner'
    <2>1. \A s \in Sessions : SessionAfter(s, gone).presence = "live" =>
            /\ session[s].presence = "live"
            /\ session[s].owner = SessionAfter(s, gone).owner
      BY DEF SessionAfter, NoSession, Base, TypeOK, Session
    <2>2. \A s \in Sessions : session'[s] = SessionAfter(s, gone)
      BY <1>4 DEF Tick
    <2> QED
      BY <2>1, <2>2, LiveKept
  <1> QED
    BY <1>1, <1>2, <1>3, <1>4 DEF CheckFails, CheckEvents

LEMMA LiveStep ==
  ASSUME MaxResets = 0
  PROVE  Base /\ OneLivePerOwner /\ [Next]_vars => OneLivePerOwner'
  <1> SUFFICES ASSUME Base, OneLivePerOwner, [Next]_vars PROVE OneLivePerOwner'
    OBVIOUS
  <1>1. CASE UNCHANGED session
    BY <1>1, LiveKept
  <1>2. \A readable \in SUBSET Keys : ~FormatReset(readable)
    BY DEF FormatReset, Base, TypeOK
  <1> QED
    BY <1>1, <1>2, WatchLive, WaitLive, SendFailsLive, OthersLive DEF Next, Unsubscribe,
       ClientGone, SendOk, OwnerEnds, OwnerStarts, Drain, Restart, Crash, files, vars

\* One owner process has one live session, whatever its `wait` clients, renames
\* and returning PIDs do, while no format reset writes the session records again
\* (a reset forgets which sessions are away).
THEOREM OneConversation == MaxResets = 0 => (Spec => []OneLivePerOwner)
  <1> SUFFICES ASSUME MaxResets = 0 PROVE Spec => []OneLivePerOwner
    OBVIOUS
  <1>1. Init => OneLivePerOwner
    BY DEF Init, OneLivePerOwner, NoSession
  <1>2. Base /\ OneLivePerOwner /\ [Next]_vars => OneLivePerOwner'
    BY LiveStep
  <1> QED
    BY <1>1, <1>2, BaseInvariant, PTL DEF Spec
-----------------------------------------------------------------------------
(* Events: with no kill -9 each event is kept by an inbox, a delivery on its *)
(* way, its client or the end of its watch, and no event is in two of these  *)
(* places.                                                                  *)

In(k, m) == Range(inbox[k][m])
Out(n, k, m) == Range(conn[n].batches[k][m])
Done == received \union released

\* Only an answer with events carries events.
CarriesEvents == \A n \in Conns : conn[n].kind # "events" => conn[n].batches = EmptyBatches

Kept(i) ==
    \/ i \in Done
    \/ \E k \in Keys, m \in Mrs : i \in In(k, m)
    \/ \E n \in Conns, k \in Keys, m \in Mrs : i \in Out(n, k, m)

Ids == 0 .. nextId - 1

AllKept == \A i \in Ids : Kept(i)

\* Each id was given to an event.
IdsGiven ==
    /\ \A k \in Keys, m \in Mrs : \A i \in In(k, m) : i \in Ids
    /\ \A n \in Conns, k \in Keys, m \in Mrs : \A i \in Out(n, k, m) : i \in Ids
    /\ \A i \in Done : i \in Ids

\* An id is in one place.
OnePlace ==
    /\ \A k, l \in Keys, m, o \in Mrs : \A i \in In(k, m) : i \in In(l, o) => k = l /\ m = o
    /\ \A n, c \in Conns, k, l \in Keys, m, o \in Mrs :
           \A i \in Out(n, k, m) : i \in Out(c, l, o) => n = c /\ k = l /\ m = o
    /\ \A n \in Conns, k, l \in Keys, m, o \in Mrs : \A i \in In(k, m) : i \notin Out(n, l, o)
    /\ \A k \in Keys, m \in Mrs : \A i \in In(k, m) : i \notin Done
    /\ \A n \in Conns, k \in Keys, m \in Mrs : \A i \in Out(n, k, m) : i \notin Done

Places == IdsGiven /\ OnePlace
EventInv == Places /\ CarriesEvents /\ (crashes = 0 => AllKept)

LEMMA KeptById == AllKept => EventsKept
  <1>1. \A i : (\E k \in Keys, m \in Mrs : i \in In(k, m)) => i \in Waiting
    BY DEF Waiting, IdsOf, In
  <1>2. ASSUME NEW n \in Conns, NEW k \in Keys, NEW m \in Mrs
        PROVE  Out(n, k, m) \subseteq InFlight
    <2>1. Out(n, k, m) \subseteq IdsOf(conn[n].batches[k])
      BY DEF IdsOf, Out
    <2>2. IdsOf(conn[n].batches[k]) \subseteq InFlight
      BY DEF InFlight
    <2> QED
      BY <2>1, <2>2
  <1> QED
    BY <1>1, <1>2 DEF EventsKept, AllKept, Kept, Done, Ids

LEMMA TwiceByPlace ==
  ASSUME OnePlace
  PROVE  NoEventTwice
  <1> DEFINE Spots == [key : Keys, mr : Mrs, at : Conns \union {NoConn}]
             At(p) == Range(IF p.at = NoConn THEN inbox[p.key][p.mr]
                            ELSE conn[p.at].batches[p.key][p.mr])
  <1>1. \A p \in Spots : IF p.at = NoConn THEN At(p) = In(p.key, p.mr)
                                          ELSE p.at \in Conns /\ At(p) = Out(p.at, p.key, p.mr)
    BY DEF In, Out
  <1>2. \A p \in Spots : p.key \in Keys /\ p.mr \in Mrs
    OBVIOUS
  <1>3. \A p, q \in Spots : p.key = q.key /\ p.mr = q.mr /\ p.at = q.at => p = q
    OBVIOUS
  <1> HIDE DEF Spots, At
  <1>4. ASSUME NEW p \in Spots, NEW q \in Spots, At(p) \intersect At(q) # {}
        PROVE  p = q
    <2>1. PICK i : i \in At(p) /\ i \in At(q)
      BY <1>4
    <2>2. p.key = q.key /\ p.mr = q.mr /\ p.at = q.at
      BY <1>1, <1>2, <2>1 DEF OnePlace
    <2> QED
      BY <1>3, <2>2
  <1>5. ASSUME NEW p \in Spots
        PROVE  At(p) \intersect (received \union released) = {}
    BY <1>1, <1>2 DEF OnePlace, Done
  <1> QED
    BY <1>4, <1>5 DEF NoEventTwice, Spots, At

LEMMA NoneInEmpty ==
  /\ \A m \in Mrs : Range(EmptyBatch[m]) = {}
  /\ \A k \in Keys, m \in Mrs : Range(EmptyBatches[k][m]) = {}
  BY DEF EmptyBatch, EmptyBatches, Range

LEMMA AllInJoined ==
  ASSUME NEW b \in Batch, NEW c \in Batch, NEW m \in Mrs
  PROVE  Range(Join(b, c)[m]) = Range(b[m]) \union Range(c[m])
  <1>1. b[m] \in Seq(Nat) /\ c[m] \in Seq(Nat) /\ Join(b, c)[m] = b[m] \o c[m]
    BY DEF Batch, Join
  <1>2. ASSUME NEW s \in Seq(Nat), NEW t \in Seq(Nat)
        PROVE  Range(s \o t) = Range(s) \union Range(t)
    <2>1. \A i \in DOMAIN t : i + Len(s) \in DOMAIN (s \o t) /\ (s \o t)[i + Len(s)] = t[i]
      OBVIOUS
    <2>2. \A i \in DOMAIN s : i \in DOMAIN (s \o t) /\ (s \o t)[i] = s[i]
      OBVIOUS
    <2>3. \A i \in DOMAIN (s \o t) : \/ i \in DOMAIN s /\ (s \o t)[i] = s[i]
                                     \/ i - Len(s) \in DOMAIN t /\ (s \o t)[i] = t[i - Len(s)]
      OBVIOUS
    <2>4. Range(s) \subseteq Range(s \o t)
      BY <2>2 DEF Range
    <2>5. Range(t) \subseteq Range(s \o t)
      BY <2>1 DEF Range
    <2>6. Range(s \o t) \subseteq Range(s) \union Range(t)
      BY <2>3 DEF Range
    <2> QED
      BY <2>4, <2>5, <2>6
  <1> QED
    BY <1>1, <1>2

LEMMA OneMoreIn ==
  ASSUME NEW s \in Seq(Nat), NEW e \in Nat
  PROVE  Range(Append(s, e)) = Range(s) \union {e}
  <1>1. \A i \in DOMAIN s : i \in DOMAIN Append(s, e) /\ Append(s, e)[i] = s[i]
    OBVIOUS
  <1>2. Len(s) + 1 \in DOMAIN Append(s, e) /\ Append(s, e)[Len(s) + 1] = e
    OBVIOUS
  <1>3. \A i \in DOMAIN Append(s, e) : (i \in DOMAIN s /\ Append(s, e)[i] = s[i]) \/ Append(s, e)[i] = e
    OBVIOUS
  <1> QED
    BY <1>1, <1>2, <1>3 DEF Range
-----------------------------------------------------------------------------
(* What a step does to the places *)

LEMMA SamePlaces ==
  ASSUME Places, Ids' = Ids, Done' = Done,
         \A k \in Keys, m \in Mrs : In(k, m)' = In(k, m),
         \A n \in Conns, k \in Keys, m \in Mrs : Out(n, k, m)' = Out(n, k, m)
  PROVE  Places' /\ (AllKept => AllKept')
  BY DEF Places, IdsGiven, OnePlace, AllKept, Kept

\* The events of the keys in K go away with their watch.
LEMMA ReleasedPlaces ==
  ASSUME Places, Ids' = Ids, NEW K \in SUBSET Keys,
         \A i : i \in Done' <=> i \in Done \/ \E k \in K, m \in Mrs : i \in In(k, m),
         \A k \in Keys, m \in Mrs : In(k, m)' = IF k \in K THEN {} ELSE In(k, m),
         \A n \in Conns, k \in Keys, m \in Mrs : Out(n, k, m)' = Out(n, k, m)
  PROVE  Places' /\ (AllKept => AllKept')
  <1>1. IdsGiven'
    BY DEF Places, IdsGiven
  <1>2. OnePlace'
    BY DEF Places, OnePlace
  <1>3. ASSUME AllKept PROVE AllKept'
    BY <1>3 DEF AllKept, Kept
  <1> QED
    BY <1>1, <1>2, <1>3 DEF Places

\* A connection takes the events of some places.
LEMMA TakenPlaces ==
  ASSUME Places, Ids' = Ids, Done' = Done, NEW n \in Conns, NEW T \in [Keys -> SUBSET Mrs],
         \A k \in Keys, m \in Mrs : Out(n, k, m) = {},
         \A k \in Keys, m \in Mrs : In(k, m)' = IF m \in T[k] THEN {} ELSE In(k, m),
         \A k \in Keys, m \in Mrs : Out(n, k, m)' = IF m \in T[k] THEN In(k, m) ELSE {},
         \A c \in Conns \ {n}, k \in Keys, m \in Mrs : Out(c, k, m)' = Out(c, k, m)
  PROVE  Places' /\ (AllKept => AllKept')
  <1>1. IdsGiven'
    BY DEF Places, IdsGiven
  <1>2. OnePlace'
    <2>1. \A k, l \in Keys, m, o \in Mrs : \A i \in In(k, m)' : i \in In(l, o)' => k = l /\ m = o
      BY DEF Places, OnePlace
    <2>2. \A c, d \in Conns, k, l \in Keys, m, o \in Mrs :
              \A i \in Out(c, k, m)' : i \in Out(d, l, o)' => c = d /\ k = l /\ m = o
      BY DEF Places, OnePlace
    <2>3. \A c \in Conns, k, l \in Keys, m, o \in Mrs : \A i \in In(k, m)' : i \notin Out(c, l, o)'
      BY DEF Places, OnePlace
    <2>4. /\ \A k \in Keys, m \in Mrs : \A i \in In(k, m)' : i \notin Done'
          /\ \A c \in Conns, k \in Keys, m \in Mrs : \A i \in Out(c, k, m)' : i \notin Done'
      BY DEF Places, OnePlace
    <2> QED
      BY <2>1, <2>2, <2>3, <2>4 DEF OnePlace
  <1>3. ASSUME AllKept PROVE AllKept'
    BY <1>3 DEF AllKept, Kept
  <1> QED
    BY <1>1, <1>2, <1>3 DEF Places

\* The client got the events of a connection.
LEMMA ReceivedPlaces ==
  ASSUME Places, Ids' = Ids, NEW n \in Conns,
         \A i : i \in Done' <=> i \in Done \/ \E k \in Keys, m \in Mrs : i \in Out(n, k, m),
         \A k \in Keys, m \in Mrs : In(k, m)' = In(k, m),
         \A k \in Keys, m \in Mrs : Out(n, k, m)' = {},
         \A c \in Conns \ {n}, k \in Keys, m \in Mrs : Out(c, k, m)' = Out(c, k, m)
  PROVE  Places' /\ (AllKept => AllKept')
  <1>1. IdsGiven'
    BY DEF Places, IdsGiven
  <1>2. OnePlace'
    BY DEF Places, OnePlace
  <1>3. ASSUME AllKept PROVE AllKept'
    BY <1>3 DEF AllKept, Kept
  <1> QED
    BY <1>1, <1>2, <1>3 DEF Places

\* The events of a connection are in their inboxes again.
LEMMA ReturnedPlaces ==
  ASSUME Places, Ids' = Ids, Done' = Done, NEW n \in Conns,
         \A k \in Keys, m \in Mrs : In(k, m)' = Out(n, k, m) \union In(k, m),
         \A k \in Keys, m \in Mrs : Out(n, k, m)' = {},
         \A c \in Conns \ {n}, k \in Keys, m \in Mrs : Out(c, k, m)' = Out(c, k, m)
  PROVE  Places' /\ (AllKept => AllKept')
  <1>1. IdsGiven'
    BY DEF Places, IdsGiven
  <1>2. OnePlace'
    BY DEF Places, OnePlace
  <1>3. ASSUME AllKept PROVE AllKept'
    BY <1>3 DEF AllKept, Kept
  <1> QED
    BY <1>1, <1>2, <1>3 DEF Places

\* A check found the next event.
LEMMA FoundPlaces ==
  ASSUME Places, nextId \in Nat, nextId' = nextId + 1, Done' = Done, NEW k \in Keys, NEW m \in Mrs,
         In(k, m)' = In(k, m) \union {nextId},
         \A l \in Keys, o \in Mrs : l # k \/ o # m => In(l, o)' = In(l, o),
         \A n \in Conns, l \in Keys, o \in Mrs : Out(n, l, o)' = Out(n, l, o)
  PROVE  Places' /\ (AllKept => AllKept')
  <1>a. Ids' = Ids \union {nextId} /\ nextId \notin Ids
    BY DEF Ids
  <1>1. IdsGiven'
    BY <1>a DEF Places, IdsGiven
  <1>2. /\ \A l \in Keys, o \in Mrs : nextId \notin In(l, o)
        /\ \A n \in Conns, l \in Keys, o \in Mrs : nextId \notin Out(n, l, o)
        /\ nextId \notin Done
    BY <1>a DEF Places, IdsGiven
  <1>3. OnePlace'
    BY <1>2 DEF Places, OnePlace
  <1>4. ASSUME AllKept PROVE AllKept'
    <2> SUFFICES ASSUME NEW i \in Ids \union {nextId} PROVE Kept(i)'
      BY <1>a DEF AllKept
    <2>1. CASE i = nextId
      BY <2>1 DEF Kept
    <2>2. CASE i # nextId
      <3>1. Kept(i)
        BY <1>4, <2>2 DEF AllKept
      <3>2. \A l \in Keys, o \in Mrs : In(l, o) \subseteq In(l, o)'
        OBVIOUS
      <3> QED
        BY <3>1, <3>2 DEF Kept
    <2> QED
      BY <2>1, <2>2
  <1> QED
    BY <1>1, <1>3, <1>4 DEF Places

\* A kill -9 takes what is on its way.
LEMMA CrashPlaces ==
  ASSUME Places, Ids' = Ids, Done' = Done,
         \A k \in Keys, m \in Mrs : In(k, m)' = In(k, m),
         \A n \in Conns, k \in Keys, m \in Mrs : Out(n, k, m)' = {}
  PROVE  Places'
  BY DEF Places, IdsGiven, OnePlace
-----------------------------------------------------------------------------
(* The steps *)

Silent(n) == conn[n].batches = EmptyBatches

LEMMA NothingOut ==
  ASSUME NEW n \in Conns, Silent(n)
  PROVE  \A k \in Keys, m \in Mrs : Out(n, k, m) = {}
  BY NoneInEmpty DEF Silent, Out

\* A connection that does not send is silent.
LEMMA QuietConn ==
  ASSUME Base, EventInv, NEW n \in Conns, conn[n].st # "sending"
  PROVE  conn[n].kind = "none" /\ Silent(n)
  BY DEF Base, ConnOK, EventInv, CarriesEvents, Silent

LEMMA ClosedIsSilent == Closed.batches = EmptyBatches /\ Closed.kind = "none"
  BY DEF Closed

\* What keeps the events kept.
LEMMA StillInv ==
  ASSUME EventInv, Places', AllKept => AllKept', CarriesEvents', crashes' = crashes
  PROVE  EventInv'
  BY DEF EventInv

LEMMA NoMove ==
  ASSUME EventInv, UNCHANGED <<inbox, conn, received, released, nextId, crashes>>
  PROVE  EventInv'
  <1>1. Places' /\ (AllKept => AllKept')
    BY SamePlaces DEF EventInv, In, Out, Done, Ids
  <1>2. CarriesEvents'
    BY DEF EventInv, CarriesEvents
  <1> QED
    BY <1>1, <1>2, StillInv

\* A silent connection becomes another silent one.
LEMMA SilentMove ==
  ASSUME Base, EventInv, UNCHANGED <<inbox, received, released, nextId, crashes>>,
         NEW n \in Conns, Silent(n), NEW a, a.batches = EmptyBatches,
         conn' = [conn EXCEPT ![n] = a]
  PROVE  EventInv'
  <1>1. conn'[n] = a /\ \A c \in Conns \ {n} : conn'[c] = conn[c]
    BY DEF Base, TypeOK
  <1>2. \A c \in Conns : conn'[c].batches = conn[c].batches
    BY <1>1 DEF Silent
  <1>3. Places' /\ (AllKept => AllKept')
    BY <1>2, SamePlaces DEF EventInv, In, Out, Done, Ids
  <1>4. CarriesEvents'
    BY <1>1 DEF EventInv, CarriesEvents
  <1> QED
    BY <1>3, <1>4, StillInv

LEMMA WaitEvents ==
  ASSUME Base, EventInv,
         NEW s \in Sessions, NEW p \in Pids, NEW rename \in BOOLEAN, NEW n \in Conns,
         Wait(s, p, rename, n)
  PROVE  EventInv'
  <1> DEFINE a == [Closed EXCEPT !.st = "waiting", !.session = s, !.pid = p]
  <1>1. conn' = [conn EXCEPT ![n] = a]
    BY DEF Wait
  <1>2. a.batches = EmptyBatches
    BY DEF Closed
  <1>3. Silent(n)
    BY QuietConn DEF Wait
  <1> HIDE DEF a
  <1> QED
    BY <1>1, <1>2, <1>3, SilentMove DEF Wait, history, bounds

LEMMA ClientGoneEvents ==
  ASSUME Base, EventInv, NEW n \in Conns, ClientGone(n)
  PROVE  EventInv'
  <1>1. Silent(n)
    BY QuietConn DEF ClientGone
  <1> QED
    BY <1>1, ClosedIsSilent, SilentMove DEF ClientGone, Close, files, history, bounds

LEMMA SmallAnswerEvents ==
  ASSUME Base, EventInv, NEW n \in Conns,
         AnswerSuperseded(n) \/ AnswerUpgrade(n) \/ AnswerError(n)
  PROVE  EventInv'
  <1>1. Silent(n)
    BY QuietConn DEF AnswerSuperseded, AnswerUpgrade, AnswerError, Turn
  <1>2. conn[n] \in Conn
    BY DEF Base, TypeOK
  <1>3. PICK a : a.batches = EmptyBatches /\ conn' = [conn EXCEPT ![n] = a]
    <2>1. CASE AnswerSuperseded(n)
      <3> DEFINE a == [[Closed EXCEPT !.kind = "superseded"] EXCEPT !.st = "sending", !.pid = None]
      <3>1. a.batches = EmptyBatches
        BY DEF Closed
      <3>2. conn' = [conn EXCEPT ![n] = a]
        BY <2>1 DEF AnswerSuperseded, Sends
      <3> QED
        BY <3>1, <3>2
    <2>2. CASE AnswerUpgrade(n)
      <3> DEFINE a == [[conn[n] EXCEPT !.kind = "upgrade"] EXCEPT !.st = "sending", !.pid = None]
      <3>1. a.batches = EmptyBatches
        BY <1>1, <1>2 DEF Silent, Conn
      <3>2. conn' = [conn EXCEPT ![n] = a]
        BY <2>2 DEF AnswerUpgrade, Sends
      <3> QED
        BY <3>1, <3>2
    <2>3. CASE AnswerError(n)
      <3>1. PICK k \in EndedErrors(conn[n].session) :
                Sends(n, [conn[n] EXCEPT !.kind = "error", !.errorKey = k, !.errorOf = errorOf[k]])
        BY <2>3 DEF AnswerError
      <3> DEFINE a == [[conn[n] EXCEPT !.kind = "error", !.errorKey = k, !.errorOf = errorOf[k]]
                          EXCEPT !.st = "sending", !.pid = None]
      <3>2. a.batches = EmptyBatches
        BY <1>1, <1>2 DEF Silent, Conn
      <3>3. conn' = [conn EXCEPT ![n] = a]
        BY <3>1 DEF Sends
      <3> QED
        BY <3>2, <3>3
    <2> QED
      BY <2>1, <2>2, <2>3
  <1>4. UNCHANGED <<inbox, received, released, nextId, crashes>>
    BY DEF AnswerSuperseded, AnswerUpgrade, AnswerError, files, history, bounds
  <1> QED
    BY <1>1, <1>3, <1>4, SilentMove

LEMMA AnswerEventsEvents ==
  ASSUME Base, EventInv, NEW n \in Conns, AnswerEvents(n)
  PROVE  EventInv'
  <1> DEFINE s == conn[n].session
             T == [k \in Keys |-> IF k \in TakenKeys(s) THEN Taken(k) \intersect Mrs ELSE {}]
             batches == [k \in Keys |-> IF k \in TakenKeys(s)
                                        THEN Only(inbox[k], Taken(k)) ELSE EmptyBatch]
             a == [[conn[n] EXCEPT !.kind = "events", !.batches = batches,
                                   !.replaced = session[s].replaced]
                      EXCEPT !.st = "sending", !.pid = None]
  <1>1. Silent(n)
    BY QuietConn DEF AnswerEvents, Turn
  <1>2. conn[n] \in Conn
    BY DEF Base, TypeOK
  <1>3. T \in [Keys -> SUBSET Mrs]
    OBVIOUS
  <1>4. \A k \in Keys, m \in Mrs : In(k, m)' = IF m \in T[k] THEN {} ELSE In(k, m)
    <2> SUFFICES ASSUME NEW k \in Keys, NEW m \in Mrs
                 PROVE  In(k, m)' = IF m \in T[k] THEN {} ELSE In(k, m)
      OBVIOUS
    <2>1. inbox'[k][m] = IF m \in T[k] THEN <<>> ELSE inbox[k][m]
      BY DEF AnswerEvents, Rest, Only
    <2>2. Range(<<>>) = {}
      BY DEF Range
    <2> QED
      BY <2>1, <2>2 DEF In
  <1>5. \A k \in Keys, m \in Mrs : Range(batches[k][m]) = IF m \in T[k] THEN In(k, m) ELSE {}
    BY NoneInEmpty DEF Only, In, Range, EmptyBatch
  <1>6. UNCHANGED <<received, released, nextId, crashes>>
    BY DEF AnswerEvents, history, bounds
  <1>7. CASE batches = EmptyBatches /\ UNCHANGED conn
    <2>1. \A k \in Keys, m \in Mrs : m \in T[k] => In(k, m) = {}
      BY <1>5, <1>7, NoneInEmpty
    <2>2. \A k \in Keys, m \in Mrs : In(k, m)' = In(k, m)
      BY <1>4, <2>1
    <2>3. \A c \in Conns, k \in Keys, m \in Mrs : Out(c, k, m)' = Out(c, k, m)
      BY <1>7 DEF Out
    <2>4. CarriesEvents'
      BY <1>7 DEF EventInv, CarriesEvents
    <2>5. Ids' = Ids /\ Done' = Done
      BY <1>6 DEF Ids, Done
    <2>6. Places' /\ (AllKept => AllKept')
      BY <2>2, <2>3, <2>5, SamePlaces DEF EventInv
    <2> QED
      BY <1>6, <2>4, <2>6, StillInv
  <1>8. CASE conn' = [conn EXCEPT ![n] = a]
    <2>1. a.batches = batches /\ a.kind = "events"
      BY <1>2 DEF Conn
    <2>2. conn'[n] = a /\ \A c \in Conns \ {n} : conn'[c] = conn[c]
      BY <1>8 DEF Base, TypeOK
    <2>3. CarriesEvents'
      BY <2>1, <2>2 DEF EventInv, CarriesEvents
    <2>4. \A k \in Keys, m \in Mrs : Out(n, k, m)' = IF m \in T[k] THEN In(k, m) ELSE {}
      BY <1>5, <2>1, <2>2 DEF Out
    <2>5. \A c \in Conns \ {n}, k \in Keys, m \in Mrs : Out(c, k, m)' = Out(c, k, m)
      BY <2>2 DEF Out
    <2>6. Ids' = Ids /\ Done' = Done
      BY <1>6 DEF Ids, Done
    <2> HIDE DEF T, a, batches
    <2>7. Places' /\ (AllKept => AllKept')
      BY <1>1, <1>3, <1>4, <2>4, <2>5, <2>6, NothingOut, TakenPlaces DEF EventInv
    <2> QED
      BY <1>6, <2>3, <2>7, StillInv
  <1> QED
    BY <1>7, <1>8 DEF AnswerEvents, Sends

LEMMA ClosedConn ==
  ASSUME Base, EventInv, NEW n \in Conns, Close(n)
  PROVE  /\ CarriesEvents'
         /\ \A k \in Keys, m \in Mrs : Out(n, k, m)' = {}
         /\ \A c \in Conns \ {n}, k \in Keys, m \in Mrs : Out(c, k, m)' = Out(c, k, m)
  <1>1. conn'[n] = Closed /\ \A c \in Conns \ {n} : conn'[c] = conn[c]
    BY DEF Close, Base, TypeOK
  <1> QED
    BY <1>1, ClosedIsSilent, NoneInEmpty DEF EventInv, CarriesEvents, Out

LEMMA SendOkEvents ==
  ASSUME Base, EventInv, NEW n \in Conns, SendOk(n)
  PROVE  EventInv'
  <1>1. Close(n)
    BY DEF SendOk
  <1>2. \A k \in Keys : \A i : i \in IdsOf(conn[n].batches[k]) <=> \E m \in Mrs : i \in Out(n, k, m)
    BY DEF IdsOf, Out
  <1>3. \A i : i \in received' <=> i \in received \/ \E k \in Keys : i \in IdsOf(conn[n].batches[k])
    BY DEF SendOk
  <1>4. \A i : i \in Done' <=> i \in Done \/ \E k \in Keys, m \in Mrs : i \in Out(n, k, m)
    BY <1>2, <1>3 DEF Done, SendOk
  <1>5. Ids' = Ids /\ crashes' = crashes
    BY DEF Ids, SendOk, bounds
  <1>6. \A k \in Keys, m \in Mrs : In(k, m)' = In(k, m)
    BY DEF In, SendOk, files
  <1>7. Places' /\ (AllKept => AllKept')
    BY <1>1, <1>4, <1>5, <1>6, ClosedConn, ReceivedPlaces DEF EventInv
  <1> QED
    BY <1>1, <1>5, <1>7, ClosedConn, StillInv

LEMMA SendFailsEvents ==
  ASSUME Base, EventInv, NEW n \in Conns, SendFails(n)
  PROVE  EventInv'
  <1>1. Close(n)
    BY DEF SendFails
  <1>2. conn[n] \in Conn /\ conn[n].kind \in {"superseded", "events", "error", "upgrade"}
    BY DEF Base, TypeOK, ConnOK, SendFails, Conn, AnswerKinds
  <1>3. \A k \in Keys, m \in Mrs : In(k, m)' = Out(n, k, m) \union In(k, m)
    <2> SUFFICES ASSUME NEW k \in Keys, NEW m \in Mrs
                 PROVE  In(k, m)' = Out(n, k, m) \union In(k, m)
      OBVIOUS
    <2>1. CASE conn[n].kind = "events"
      <3>1. inbox'[k] = Join(conn[n].batches[k], inbox[k])
        BY <2>1 DEF SendFails, PutBack
      <3>2. conn[n].batches[k] \in Batch /\ inbox[k] \in Batch
        BY <1>2 DEF Conn, Base, TypeOK
      <3>3. Range(Join(conn[n].batches[k], inbox[k])[m])
              = Range(conn[n].batches[k][m]) \union Range(inbox[k][m])
        <4>1. PICK b \in Batch, c \in Batch : b = conn[n].batches[k] /\ c = inbox[k]
          BY <3>2
        <4>2. Range(Join(b, c)[m]) = Range(b[m]) \union Range(c[m])
          BY AllInJoined
        <4> QED
          BY <4>1, <4>2
      <3> QED
        BY <3>1, <3>3 DEF In, Out
    <2>2. CASE conn[n].kind # "events"
      <3>1. UNCHANGED inbox
        BY <1>2, <2>2 DEF SendFails, PutBackError, PutBackUpgrade
      <3>2. Out(n, k, m) = {}
        BY <2>2, NothingOut DEF EventInv, CarriesEvents, Silent
      <3> QED
        BY <3>1, <3>2 DEF In
    <2> QED
      BY <2>1, <2>2
  <1>4. Ids' = Ids /\ Done' = Done /\ crashes' = crashes
    BY DEF Ids, Done, SendFails, history, bounds
  <1>5. Places' /\ (AllKept => AllKept')
    BY <1>1, <1>3, <1>4, ClosedConn, ReturnedPlaces DEF EventInv
  <1> QED
    BY <1>1, <1>4, <1>5, ClosedConn, StillInv

LEMMA CheckEventsEvents ==
  ASSUME Base, EventInv, NEW k \in Keys, NEW m \in Mrs, NEW last \in BOOLEAN,
         CheckEvents(k, m, last)
  PROVE  EventInv'
  <1>1. inbox[k] \in Batch /\ inbox[k][m] \in Seq(Nat) /\ nextId \in Nat
    BY DEF Base, TypeOK, Batch
  <1>2. inbox' = [inbox EXCEPT ![k][m] = Append(@, nextId)]
    BY DEF CheckEvents
  <1>3. inbox'[k][m] = Append(inbox[k][m], nextId)
    BY <1>1, <1>2 DEF Base, TypeOK, Batch
  <1>4. \A l \in Keys, o \in Mrs : l # k \/ o # m => inbox'[l][o] = inbox[l][o]
    BY <1>2 DEF Base, TypeOK, Batch
  <1>5. In(k, m)' = In(k, m) \union {nextId}
    BY <1>1, <1>3, OneMoreIn DEF In
  <1>6. \A l \in Keys, o \in Mrs : l # k \/ o # m => In(l, o)' = In(l, o)
    BY <1>4 DEF In
  <1>7. UNCHANGED <<conn, received, released, crashes>> /\ nextId' = nextId + 1
    BY DEF CheckEvents, memory, bounds
  <1>8. Done' = Done /\ \A n \in Conns, l \in Keys, o \in Mrs : Out(n, l, o)' = Out(n, l, o)
    BY <1>7 DEF Done, Out
  <1>9. Places' /\ (AllKept => AllKept')
    BY <1>1, <1>5, <1>6, <1>7, <1>8, FoundPlaces DEF EventInv
  <1>10. CarriesEvents'
    BY <1>7 DEF EventInv, CarriesEvents
  <1> QED
    BY <1>7, <1>9, <1>10, StillInv

\* The end of a watch takes its inbox.
LEMMA ReleaseMove ==
  ASSUME EventInv, UNCHANGED <<conn, received, nextId, crashes>>, NEW K \in SUBSET Keys,
         inbox' = [k \in Keys |-> IF k \in K THEN EmptyBatch ELSE inbox[k]],
         \A i : i \in released' <=> i \in released \/ \E k \in K : i \in IdsOf(inbox[k])
  PROVE  EventInv'
  <1>1. \A k \in Keys : \A i : i \in IdsOf(inbox[k]) <=> \E m \in Mrs : i \in In(k, m)
    BY DEF IdsOf, In
  <1>2. \A i : i \in Done' <=> i \in Done \/ \E k \in K, m \in Mrs : i \in In(k, m)
    BY <1>1 DEF Done
  <1>3. \A k \in Keys, m \in Mrs : In(k, m)' = IF k \in K THEN {} ELSE In(k, m)
    BY NoneInEmpty DEF In
  <1>4. Ids' = Ids /\ \A n \in Conns, k \in Keys, m \in Mrs : Out(n, k, m)' = Out(n, k, m)
    BY DEF Ids, Out
  <1>5. Places' /\ (AllKept => AllKept')
    BY <1>2, <1>3, <1>4, ReleasedPlaces DEF EventInv
  <1>6. CarriesEvents'
    BY DEF EventInv, CarriesEvents
  <1> QED
    BY <1>5, <1>6, StillInv

LEMMA UnsubscribeEvents ==
  ASSUME Base, EventInv, NEW s \in Sessions, NEW k \in Keys, Unsubscribe(s, k)
  PROVE  EventInv'
  <1>1. inbox' = [j \in Keys |-> IF j \in {k} THEN EmptyBatch ELSE inbox[j]]
    BY DEF Unsubscribe, Base, TypeOK
  <1>2. \A i : i \in released' <=> i \in released \/ \E j \in {k} : i \in IdsOf(inbox[j])
    BY DEF Unsubscribe
  <1> QED
    BY <1>1, <1>2, ReleaseMove DEF Unsubscribe, memory, bounds

\* What a sweep deletes and no expired session gives up is empty.
LEMMA SweptIsEmpty ==
  ASSUME Base, ResultsHaveTaker, NEW gone \in SUBSET Keys, Tick(gone),
         NEW k \in Swept(gone), k \notin GivenUp
  PROVE  inbox[k] = EmptyBatch
  <1> SUFFICES ASSUME inbox[k] # EmptyBatch PROVE FALSE
    OBVIOUS
  <1>1. k \in Keys /\ HolderAfter(k, gone) = None /\ \A s \in Sessions : k \notin SessionAfter(s, gone).ended
    BY DEF Swept
  <1>2. \A s \in Sessions : s \notin Expired =>
            SessionAfter(s, gone).ended = session[s].ended \union (gone \intersect Records(s))
    BY DEF SessionAfter, Base, TypeOK, Session
  <1>3. CASE holder[k] # None
    <2>1. holder[k] \in Sessions \ Expired
      BY <1>1, <1>3 DEF GivenUp, Base, TypeOK, Expired
    <2>2. k \in gone
      BY <1>1, <1>3, <2>1 DEF HolderAfter
    <2>3. k \in Records(holder[k])
      BY <1>1 DEF Records
    <2> QED
      BY <1>1, <1>2, <2>1, <2>2, <2>3
  <1>4. CASE holder[k] = None
    <2>1. PICK s \in Sessions : k \in session[s].ended
      BY <1>1, <1>4 DEF ResultsHaveTaker
    <2>2. s \notin Expired
      BY <1>1, <2>1 DEF GivenUp
    <2> QED
      BY <1>1, <1>2, <2>1, <2>2
  <1> QED
    BY <1>3, <1>4

LEMMA TickEvents ==
  ASSUME Base, ResultsHaveTaker, EventInv, NEW gone \in SUBSET Keys, Tick(gone)
  PROVE  EventInv'
  <1>1. Swept(gone) \in SUBSET Keys
    BY DEF Swept
  <1>2. IdsOf(EmptyBatch) = {}
    BY NoneInEmpty DEF IdsOf
  <1>3. \A k \in Swept(gone) : k \notin GivenUp => IdsOf(inbox[k]) = {}
    BY <1>2, SweptIsEmpty
  <1>4. \A i : i \in released' <=>
               i \in released \/ \E k \in Swept(gone) \cap GivenUp : i \in IdsOf(inbox[k])
    BY DEF Tick
  <1>5. \A i : i \in released' <=> i \in released \/ \E k \in Swept(gone) : i \in IdsOf(inbox[k])
    BY <1>3, <1>4
  <1>6. inbox' = [k \in Keys |-> IF k \in Swept(gone) THEN EmptyBatch ELSE inbox[k]]
    BY DEF Tick
  <1>7. UNCHANGED <<conn, received, nextId, crashes>>
    BY DEF Tick, memory
  <1> QED
    BY <1>1, <1>5, <1>6, <1>7, ReleaseMove

\* All connections are closed.
LEMMA NoConns ==
  ASSUME Base, NoConnections
  PROVE  CarriesEvents' /\ \A n \in Conns, k \in Keys, m \in Mrs : Out(n, k, m)' = {}
  <1>1. \A n \in Conns : conn'[n] = Closed
    BY DEF NoConnections
  <1> QED
    BY <1>1, ClosedIsSilent, NoneInEmpty DEF CarriesEvents, Out

\* After the drain nothing is on its way.
LEMMA DrainedIsEmpty ==
  ASSUME Base, EventInv, Drained
  PROVE  \A n \in Conns, k \in Keys, m \in Mrs : Out(n, k, m) = {}
  BY QuietConn, NothingOut DEF Drained

LEMMA RestartEvents ==
  ASSUME Base, EventInv, Restart
  PROVE  EventInv'
  <1>1. \A n \in Conns, k \in Keys, m \in Mrs : Out(n, k, m)' = Out(n, k, m)
    BY NoConns, DrainedIsEmpty DEF Restart
  <1>2. UNCHANGED <<inbox, received, released, nextId, crashes>>
    BY DEF Restart, files, history, bounds
  <1>3. Places' /\ (AllKept => AllKept')
    BY <1>1, <1>2, SamePlaces DEF EventInv, In, Done, Ids
  <1> QED
    BY <1>2, <1>3, NoConns, StillInv DEF Restart

LEMMA FormatResetEvents ==
  ASSUME Base, EventInv, NEW readable \in SUBSET Keys, FormatReset(readable)
  PROVE  EventInv'
  <1>1. \A n \in Conns, k \in Keys, m \in Mrs : Out(n, k, m)' = Out(n, k, m)
    BY NoConns, DrainedIsEmpty DEF FormatReset
  <1>2. UNCHANGED <<received, nextId, crashes>> /\ inbox' = EmptyBatches
    BY DEF FormatReset
  <1>3. \A k \in Keys : \A i : i \in IdsOf(inbox[k]) <=> \E m \in Mrs : i \in In(k, m)
    BY DEF IdsOf, In
  <1>4. \A i : i \in released' <=> i \in released \/ \E k \in Keys : i \in IdsOf(inbox[k])
    BY DEF FormatReset
  <1>5. \A i : i \in Done' <=> i \in Done \/ \E k \in Keys, m \in Mrs : i \in In(k, m)
    BY <1>2, <1>3, <1>4 DEF Done
  <1>6. \A k \in Keys, m \in Mrs : In(k, m)' = IF k \in Keys THEN {} ELSE In(k, m)
    BY <1>2, NoneInEmpty DEF In
  <1>7. Ids' = Ids
    BY <1>2 DEF Ids
  <1>8. Places' /\ (AllKept => AllKept')
    BY <1>1, <1>5, <1>6, <1>7, ReleasedPlaces DEF EventInv
  <1> QED
    BY <1>2, <1>8, NoConns, StillInv DEF FormatReset

LEMMA CrashEvents ==
  ASSUME Base, EventInv, Crash
  PROVE  EventInv'
  <1>1. UNCHANGED <<inbox, received, released, nextId>> /\ crashes' = crashes + 1 /\ crashes \in Nat
    BY DEF Crash, files, history, Base, TypeOK
  <1>2. CarriesEvents' /\ \A n \in Conns, k \in Keys, m \in Mrs : Out(n, k, m)' = {}
    BY NoConns DEF Crash
  <1>3. Places'
    BY <1>1, <1>2, CrashPlaces DEF EventInv, In, Done, Ids
  <1>4. crashes' # 0
    BY <1>1
  <1> QED
    BY <1>2, <1>3, <1>4 DEF EventInv

LEMMA EventsInit == Init => EventInv
  <1> SUFFICES ASSUME Init PROVE EventInv
    OBVIOUS
  <1>1. /\ \A k \in Keys, m \in Mrs : In(k, m) = {}
        /\ \A n \in Conns, k \in Keys, m \in Mrs : Out(n, k, m) = {}
        /\ Done = {}
    BY NoneInEmpty, ClosedIsSilent DEF Init, In, Out, Done
  <1>2. Ids = {}
    BY DEF Init, Ids
  <1>3. CarriesEvents
    BY ClosedIsSilent DEF Init, CarriesEvents
  <1> QED
    BY <1>1, <1>2, <1>3 DEF EventInv, Places, IdsGiven, OnePlace, AllKept

LEMMA EventsStep == Base /\ ResultsHaveTaker /\ EventInv /\ [Next]_vars => EventInv'
  <1> SUFFICES ASSUME Base, ResultsHaveTaker, EventInv, [Next]_vars PROVE EventInv'
    OBVIOUS
  <1>1. ASSUME NEW s \in Sessions, NEW k \in Keys, NEW mrs \in Filters, Watch(s, k, mrs)
        PROVE  EventInv'
    BY <1>1, NoMove DEF Watch, memory, history, bounds
  <1>2. ASSUME NEW n \in Conns, ClientGone(n) \/ Answer(n) \/ SendOk(n) \/ SendFails(n)
        PROVE  EventInv'
    BY <1>2, ClientGoneEvents, SmallAnswerEvents, AnswerEventsEvents, SendOkEvents,
       SendFailsEvents DEF Answer
  <1>3. ASSUME NEW k \in Keys, CheckFails(k)
        PROVE  EventInv'
    BY <1>3, NoMove DEF CheckFails, memory, history
  <1>4. ASSUME NEW p \in Pids, OwnerEnds(p) \/ OwnerStarts(p)
        PROVE  EventInv'
    BY <1>4, NoMove DEF OwnerEnds, OwnerStarts, files, memory, history, bounds
  <1>5. ASSUME NEW s \in Sessions, GracePasses(s)
        PROVE  EventInv'
    BY <1>5, NoMove DEF GracePasses, memory, history, bounds
  <1>6. CASE Drain \/ UNCHANGED vars
    BY <1>6, NoMove DEF Drain, vars, files, memory, history, bounds
  <1> QED
    BY <1>1, <1>2, <1>3, <1>4, <1>5, <1>6, UnsubscribeEvents, WaitEvents, CheckEventsEvents,
       TickEvents, RestartEvents, CrashEvents, FormatResetEvents DEF Next

\* An id that was given to an event is in one place, and in at least one
\* while no kill -9 happened; answers other than events carry none.
THEOREM EventsInvariant == Spec => []EventInv
  <1> QED
    BY EventsInit, EventsStep, BaseInvariant, ResultsAlwaysHaveTaker, PTL DEF Spec

\* With no kill -9, each event that a check found is in an inbox, on its way,
\* with its client, or went away with its watch, whatever sends fail and whatever
\* conversations, ticks, resets and restarts come in between.
THEOREM NoEventIsLost == Spec => []NoEventLost
  <1>1. EventInv => NoEventLost
    BY KeptById DEF EventInv, NoEventLost
  <1> QED
    BY <1>1, EventsInvariant, PTL

\* No event is in two inboxes, in an inbox and on its way, or comes again after its
\* client got it, also after a kill -9.
THEOREM NoEventIsTwice == Spec => []NoEventTwice
  <1>1. EventInv => NoEventTwice
    BY TwiceByPlace DEF EventInv, Places
  <1> QED
    BY <1>1, EventsInvariant, PTL
=============================================================================
