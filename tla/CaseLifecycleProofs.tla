------------------------ MODULE CaseLifecycleProofs ------------------------
(***************************************************************************)
(* Theorems about CaseLifecycle, for every number of episodes, sources,    *)
(* observations per batch and instants of the clock.                       *)
(***************************************************************************)
EXTENDS CaseLifecycle, TLAPS

(***************************************************************************)
(* Typing of the operators.                                                *)
(***************************************************************************)
LEMMA NoTimeType == NoTime \in Int
BY DEF NoTime

LEMMA Max2Type ==
    \A a, b \in Int : Max2(a, b) \in Int /\ Max2(a, b) >= a /\ Max2(a, b) >= b
BY DEF Max2

LEMMA RowTypes ==
    ASSUME NEW at \in Int, NEW ends \in Int
    PROVE  /\ NoRow \in Row
           /\ OpenedRow(at, ends) \in Row
<1>1. NoRow \in Row
    BY NoTimeType DEF NoRow, Row
<1> QED
    BY <1>1 DEF OpenedRow, Row

LEMMA EdgeTypes ==
    ASSUME NEW c \in Row, NEW at \in Int, NEW ends \in Int
    PROVE  /\ ApplyT2(c, at, ends) \in Row
           /\ ApplyT3(c, at, ends) \in Row
           /\ ApplyT4(c, at, ends) \in Row
<1>1. PICK o \in Row : o = Observed(c, at, ends)
    BY DEF Observed, Row
<1>2. PICK n \in Nat : n = c.suppressCount + 1
    BY DEF Row
<1>3. ApplyT2(c, at, ends) \in Row
    BY <1>1, NoTimeType DEF ApplyT2, Row
<1>4. ApplyT3(c, at, ends) \in Row
    BY <1>1, <1>2, NoTimeType DEF ApplyT3, Row
<1>5. ApplyT4(c, at, ends) \in Row
    BY <1>1 DEF ApplyT4, Row
<1> QED
    BY <1>3, <1>4, <1>5

LEMMA ResolveTypes ==
    ASSUME NEW c \in Row, NEW at \in Int, NEW ends \in Int, NEW occurred \in Int
    PROVE  /\ \A w \in Int : ApplyT5Defer(c, at, ends, occurred, w) \in Row
           /\ ApplyT5(c, at, ends, occurred) \in Row
<1>1. PICK o \in Row : o = Observed(c, at, ends)
    BY DEF Observed, Row
<1>2. PICK e \in Int : e = Max2(occurred, c.startedAt)
    BY Max2Type DEF Row
<1>3. ASSUME NEW w \in Int PROVE ApplyT5Defer(c, at, ends, occurred, w) \in Row
  <2>1. PICK p \in Int : p = at + w
    OBVIOUS
  <2> QED
    BY <1>1, <1>2, <2>1 DEF ApplyT5Defer, Row
<1>4. ApplyT5(c, at, ends, occurred) \in Row
    BY <1>1, <1>2, NoTimeType DEF ApplyT5, Row
<1> QED
    BY <1>3, <1>4

LEMMA SweepTypes ==
    ASSUME NEW c \in Row, NEW at \in Int, NEW reason \in Expiries
    PROVE  ApplyCloseDue(c) \in Row /\ ApplyT6(c, at, reason) \in Row
<1>1. PICK e \in Int : e = Max2(at, c.startedAt)
    BY Max2Type DEF Row
<1>2. ApplyCloseDue(c) \in Row
    BY NoTimeType DEF ApplyCloseDue, Row
<1>3. ApplyT6(c, at, reason) \in Row
    BY <1>1 DEF ApplyT6, Row
<1> QED
    BY <1>2, <1>3

LEMMA ObserveSQLType ==
    ASSUME NEW row \in Row, NEW at \in Int, NEW ends \in Int
    PROVE  observeSQL(row, at, ends) \in Row
<1>1. PICK l \in Int : l = Max2(row.lastObservedAt, at)
    BY Max2Type DEF Row
<1>2. PICK e \in Int : e = Max2(row.sourceEndsAt, ends)
    BY Max2Type DEF Row
<1>3. PICK v \in Nat : v = row.version + 1
    BY DEF Row
<1> QED
    BY <1>1, <1>2, <1>3, NoTimeType DEF observeSQL, Row

LEMMA TransitionSQLType ==
    ASSUME NEW row \in Row, NEW next \in Row
    PROVE  transitionSQL(row, next) \in Row
<1>1. PICK m \in Int : m = Max2(row.lastObservedAt, next.lastObservedAt)
    BY Max2Type DEF Row
<1>2. PICK v \in Nat : v = row.version + 1
    BY DEF Row
<1> QED
    BY <1>1, <1>2, NoTimeType DEF transitionSQL, Row

LEMMA EmptyDBType == EmptyDB \in DB
<1>1. NoAlert \in Alert
    BY BoundsAssumption DEF NoAlert, Alert
<1>2. [k \in Seqs |-> NoRow] \in [Seqs -> Row]
    BY RowTypes
<1> QED
    BY <1>1, <1>2, NoTimeType, BoundsAssumption DEF EmptyDB, DB

LEMMA EventIn ==
    ASSUME NEW t \in EventTypes, NEW k \in 0..MaxCases, NEW v \in Nat
    PROVE  <<t, k, v>> \in EventTypes \X (0..MaxCases) \X Nat
OBVIOUS

LEMMA CountUp ==
    ASSUME NEW S, NEW f \in [S -> Nat], NEW x
    PROVE  [f EXCEPT ![x] = @ + 1] \in [S -> Nat]
<1>1. x \in S => f[x] + 1 \in Nat
    OBVIOUS
<1>2. PICK v : v = f[x] + 1
    OBVIOUS
<1>3. [f EXCEPT ![x] = v] \in [S -> Nat]
    BY <1>1, <1>2
<1> QED
    BY <1>2, <1>3

LEMMA EdgeType ==
    ASSUME NEW d \in DB, NEW k, NEW row, k \in Seqs => row \in Row,
           NEW event \in EventTypes \X (0..MaxCases) \X Nat, NEW reason
    PROVE  Edge(d, k, row, event, reason) \in DB
<1>1. [d.rows EXCEPT ![k] = row] \in [Seqs -> Row]
    BY DEF DB
<1>2. d.events \cup {event} \in SUBSET (EventTypes \X (0..MaxCases) \X Nat)
    BY DEF DB
<1>3. [d.notices EXCEPT ![<<reason, k>>] = @ + 1] \in [Reasons \X Seqs -> Nat]
    BY CountUp DEF DB
<1> QED
    BY <1>1, <1>2, <1>3 DEF Edge, DB

LEMMA SetRowType ==
    ASSUME NEW d \in DB, NEW k, NEW row, k \in Seqs => row \in Row
    PROVE  [d EXCEPT !.rows[k] = row] \in DB
<1>1. [d.rows EXCEPT ![k] = row] \in [Seqs -> Row]
    BY DEF DB
<1> QED
    BY <1>1 DEF DB

LEMMA HearType ==
    ASSUME NEW d \in DB, NEW status \in Statuses, tx.at \in Nat
    PROVE  Hear(d, status) \in DB
<1>1. PICK h \in Int : h = Max2(d.heardAt, tx.at)
  <2>1. d.heardAt \in Int
    BY DEF DB
  <2>2. tx.at \in Int
    OBVIOUS
  <2> QED
    BY <2>1, <2>2, Max2Type
<1>2. PICK w \in [Seqs -> Statuses \cup {"none"}] :
        w = IF d.n > 0 /\ IsOpen(d.rows[d.n]) THEN [d.word EXCEPT ![d.n] = status] ELSE d.word
    BY DEF DB
<1> QED
    BY <1>1, <1>2 DEF Hear, DB

LEMMA ProjectionType ==
    ASSUME NEW d \in DB, NEW k \in 0..MaxCases, NEW c \in Row, NEW e \in Nat
    PROVE  projectionFor(d, k, c, e) \in Alert
<1>1. PICK st \in {"none", "firing", "resolved", "expired"} : st = AlertState(c)
    BY DEF AlertState, Row
<1>2. PICK cu \in 0..MaxCases : cu = IF IsOpen(c) THEN k ELSE 0
    BY BoundsAssumption
<1>3. PICK to \in Nat : to = d.alert.total + e
    BY DEF DB, Alert
<1>4. PICK su \in BOOLEAN : su = c.suppressed
    BY DEF Row
<1>5. d.alert \in Alert
    BY DEF DB
<1> QED
    BY <1>1, <1>2, <1>3, <1>4, <1>5 DEF projectionFor, Alert

LEMMA SetAlertType ==
    ASSUME NEW d \in DB, NEW a \in Alert
    PROVE  [d EXCEPT !.alert = a] \in DB
BY DEF DB

LEMMA SweepCommitType ==
    ASSUME NEW d \in DB, NEW k \in 0..MaxCases, NEW next \in Row,
           NEW event \in EventTypes \X (0..MaxCases) \X Nat, NEW reason
    PROVE  SweepCommit(d, k, next, event, reason) \in DB
<1>1. k \in Seqs => transitionSQL(d.rows[k], next) \in Row
    BY TransitionSQLType, NoTimeType DEF DB
<1>2. Edge(d, k, transitionSQL(d.rows[k], next), event, reason) \in DB
    BY <1>1, EdgeType
<1> QED
    BY <1>2, ProjectionType, SetAlertType DEF SweepCommit

LEMMA EndsType == Ends \subseteq Int
BY ConfigAssumption, NoTimeType

LEMMA HeadType ==
    ASSUME TypeOK, tx.todo # <<>>
    PROVE  /\ Head(tx.todo) \in Observation
           /\ Head(tx.todo).ends \in Int
           /\ Occurred(Head(tx.todo)) \in Int
           /\ Tail(tx.todo) \in Seq(Observation)
<1>1. tx.todo \in Seq(Observation)
    BY DEF TypeOK, Tx
<1>2. Head(tx.todo) \in Observation /\ Tail(tx.todo) \in Seq(Observation)
    BY <1>1
<1>3. Head(tx.todo).ends \in Int
    BY <1>2, EndsType DEF Observation
<1> QED
    BY <1>2, <1>3 DEF Occurred, SourceStartsAt

LEMMA BatchType == \A actor \in Actors : Batches(actor) \subseteq Seq(Observation)
<1> SUFFICES ASSUME NEW actor \in Actors, NEW k \in 1..MaxBatch,
                    NEW f \in [1..k -> [status : StatusesOf(actor), ends : Ends]]
             PROVE  f \in Seq(Observation)
    BY DEF Batches
<1>1. [status : StatusesOf(actor), ends : Ends] \subseteq Observation
    BY DEF StatusesOf, Observation, Statuses, Actors
<1>2. k \in Nat
    BY BoundsAssumption
<1>3. f \in [1..k -> Observation]
    BY <1>1
<1> QED
    BY <1>2, <1>3

LEMMA LatestType == \A d \in DB : Latest(d) \in Row
<1>1. NoRow \in Row
    BY RowTypes, NoTimeType
<1> QED
    BY <1>1, BoundsAssumption DEF Latest, DB, Seqs

LEMMA UpsertedType ==
    ASSUME NEW d \in DB, NEW obs
    PROVE  Upserted(d, obs) \in DB
<1>1. PICK st \in {"resolved", "firing"} :
        st = IF obs[Len(obs)].status = "resolved" THEN "resolved" ELSE "firing"
    OBVIOUS
<1>2. PICK al \in Alert : al = [d.alert EXCEPT !.known = TRUE, !.state = st]
    BY <1>1 DEF DB, Alert
<1>3. PICK ev \in SUBSET (EventTypes \X (0..MaxCases) \X Nat) :
        ev = d.events \cup {<<"created", 0, 0>>}
  <2>1. <<"created", 0, 0>> \in EventTypes \X (0..MaxCases) \X Nat
    BY EventIn, BoundsAssumption DEF EventTypes
  <2> QED
    BY <2>1 DEF DB
<1>4. [d EXCEPT !.alert = al, !.events = ev] \in DB
    BY DEF DB
<1>5. [d EXCEPT !.alert.known = TRUE, !.alert.state = st,
                !.events = @ \cup {<<"created", 0, 0>>}]
        = [d EXCEPT !.alert = [d.alert EXCEPT !.known = TRUE, !.state = st],
                    !.events = d.events \cup {<<"created", 0, 0>>}]
    BY DEF DB, Alert
<1> QED
    BY <1>1, <1>2, <1>3, <1>4, <1>5 DEF Upserted

(***************************************************************************)
(* Type correctness.                                                       *)
(***************************************************************************)
LEMMA IdleTypes ==
    NoTx \in Tx /\ IdleReaper \in Reaper /\ IdleCloser \in Closer /\ IdleHuman \in Human
<1>1. NoRow \in Row /\ EmptyDB \in DB
    BY RowTypes, NoTimeType, EmptyDBType
<1> QED
    BY <1>1, BoundsAssumption DEF NoTx, Tx, IdleReaper, Reaper, IdleCloser, Closer,
       IdleHuman, Human, NoAlert, Alert

LEMMA LiveSourceType == AbsentSource \in SourceRow /\ \A m \in Silences : LiveSource(m) \in SourceRow
BY NoTimeType, ConfigAssumption DEF AbsentSource, LiveSource, SourceRow

LEMMA InitType == Init => TypeOK
<1> SUFFICES ASSUME Init PROVE TypeOK
    OBVIOUS
<1>1. now \in Nat /\ retention \in Nat
    BY ConfigAssumption DEF Init
<1>2. sources \in [Sources -> SourceRow]
    BY LiveSourceType DEF Init
<1> QED
    BY <1>1, <1>2, IdleTypes, EmptyDBType DEF Init, TypeOK

LEMMA OperatorType ==
    ASSUME TypeOK, Tick \/ Operator
    PROVE  TypeOK'
<1>1. now' \in Nat
  <2>1. now \in Nat
    BY DEF TypeOK
  <2>2. CASE Tick
    BY <2>1, <2>2 DEF Tick
  <2>3. CASE Operator
    BY <2>1, <2>3 DEF Operator, SetRetention, RegisterSource, RemoveSource,
       SetMaxSilence, SetHealth
  <2> QED
    BY <2>2, <2>3
<1>2. retention' \in Nat
    BY ConfigAssumption DEF TypeOK, Tick, Operator, SetRetention, RegisterSource,
       RemoveSource, SetMaxSilence, SetHealth
<1>3. sources' \in [Sources -> SourceRow]
  <2>1. CASE Tick \/ SetRetention
    BY <2>1 DEF TypeOK, Tick, SetRetention
  <2>2. ASSUME NEW s \in Sources, RegisterSource(s)
        PROVE  sources' \in [Sources -> SourceRow]
    BY <2>2, LiveSourceType DEF TypeOK, RegisterSource
  <2>3. ASSUME NEW s \in Sources, RemoveSource(s) \/ SetMaxSilence(s) \/ SetHealth(s)
        PROVE  sources' \in [Sources -> SourceRow]
    <3>1. PICK r \in SourceRow : r = sources[s]
        BY DEF TypeOK
    <3>2. now \in Int /\ \A m \in Silences : m \in Nat
        BY ConfigAssumption DEF TypeOK
    <3>3. /\ [r EXCEPT !.status = "removed", !.removedAt = now] \in SourceRow
          /\ \A m \in Silences : [r EXCEPT !.maxSilence = m] \in SourceRow
        BY <3>2 DEF SourceRow
    <3>4. PICK t \in Int : t = IF sources[s].healthy THEN now ELSE NoTime
        BY <3>2, NoTimeType
    <3>5. PICK b \in BOOLEAN : b = ~r.healthy
        OBVIOUS
    <3>6. [r EXCEPT !.healthy = b, !.sickAt = t] \in SourceRow
        BY DEF SourceRow
    <3>7. CASE RemoveSource(s)
        BY <3>7, <3>1, <3>3 DEF TypeOK, RemoveSource
    <3>8. CASE SetMaxSilence(s)
        BY <3>8, <3>1, <3>3 DEF TypeOK, SetMaxSilence
    <3>9. CASE SetHealth(s)
        BY <3>9, <3>1, <3>4, <3>5, <3>6 DEF TypeOK, SetHealth
    <3> QED
        BY <2>3, <3>7, <3>8, <3>9
  <2> QED
    BY <2>1, <2>2, <2>3 DEF Operator
<1>4. UNCHANGED <<db, tx, reaper, closer, human>>
    BY DEF Tick, Operator, SetRetention, RegisterSource, RemoveSource,
       SetMaxSilence, SetHealth
<1> QED
    BY <1>1, <1>2, <1>3, <1>4 DEF TypeOK

LEMMA ObserveType ==
    ASSUME TypeOK, Observe
    PROVE  TypeOK'
<1>1. UNCHANGED <<now, retention, sources, reaper, closer, human>>
    BY DEF Observe, ObserveBegin, applyOpen, applyT2, applyT3, applyT4, applyT5Defer,
       applyT5, noTransition, ObserveCommit, ObserveAbort, Step
<1>2. /\ db \in DB /\ tx.db \in DB /\ tx.mem \in Row /\ tx.at \in Nat
      /\ tx.opened \in Nat /\ tx.touched \in BOOLEAN /\ tx.on \in BOOLEAN
      /\ tx \in Tx /\ retention \in Nat
    BY DEF TypeOK, Tx
<1>3. tx' \in Tx /\ db' \in DB
  <2>1. CASE \E a \in Actors : ObserveBegin(a)
    <3>0. PICK a \in Actors : ObserveBegin(a)
        BY <2>1
    <3>1. PICK obs \in Batches(a), at \in Times :
            tx' = [on |-> TRUE, at |-> at, todo |-> obs, db |-> Upserted(db, obs),
                   mem |-> Latest(db), touched |-> FALSE, opened |-> 0]
        BY <3>0 DEF ObserveBegin
    <3>2. obs \in Seq(Observation) /\ at \in Nat
        BY BatchType, BoundsAssumption DEF Times
    <3>3. Upserted(db, obs) \in DB /\ Latest(db) \in Row
        BY <1>2, UpsertedType, LatestType
    <3>4. tx' \in Tx
        BY <3>1, <3>2, <3>3 DEF Tx
    <3> QED
        BY <3>0, <3>4, <1>2 DEF ObserveBegin
  <2>2. CASE ObserveCommit
    <3>1. tx.db.n \in 0..MaxCases
        BY <1>2 DEF DB
    <3>2. projectionFor(tx.db, tx.db.n, tx.mem, tx.opened) \in Alert
        BY <1>2, <3>1, ProjectionType
    <3> QED
        BY <2>2, <1>2, <3>2, SetAlertType, IdleTypes DEF ObserveCommit
  <2>3. CASE ObserveAbort
    BY <2>3, <1>2, IdleTypes DEF ObserveAbort
  <2>4. CASE applyOpen \/ applyT2 \/ applyT3 \/ applyT4 \/ applyT5Defer \/ applyT5 \/ noTransition
    <3>0. db' \in DB
        BY <2>4, <1>2 DEF applyOpen, applyT2, applyT3, applyT4, applyT5Defer, applyT5,
           noTransition, Step
    <3>1. tx.todo # <<>>
        BY <2>4 DEF applyOpen, applyT2, applyT3, applyT4, applyT5Defer, applyT5,
           noTransition, Deciding, Step
    <3> DEFINE o == Head(tx.todo)
               k == tx.db.n
               todo == Tail(tx.todo)
    <3>2. o.ends \in Int /\ Occurred(o) \in Int /\ todo \in Seq(Observation) /\ o.status \in Statuses
        BY <3>1, HeadType DEF Observation
    <3>3. \A st \in Statuses : Hear(tx.db, st) \in DB
        BY <1>2, HearType
    <3>4. k \in 0..MaxCases /\ (k \in Seqs => tx.db.rows[k] \in Row)
        BY <1>2 DEF DB
    <3>5. ASSUME NEW d \in DB, NEW mem \in Row
          PROVE  [tx EXCEPT !.todo = todo, !.db = d, !.mem = mem, !.touched = TRUE] \in Tx
        BY <1>2, <3>2 DEF Tx
    <3>6. \A d \in DB, mem \in Row : Step(d, mem) => tx' \in Tx
        BY <3>5 DEF Step
    <3>7. \A row, reason : \A st \in Statuses, t \in EventTypes, v \in Nat :
            (k \in Seqs => row \in Row)
              => Edge(Hear(tx.db, st), k, row, <<t, k, v>>, reason) \in DB
        BY <3>3, <3>4, EventIn, EdgeType
    <3>8. \A next \in Row : k \in Seqs => transitionSQL(tx.db.rows[k], next) \in Row
        BY <3>4, TransitionSQLType, NoTimeType
    <3>10. CASE applyOpen
      <4> DEFINE n   == k + 1
                 row == OpenedRow(tx.at, o.ends)
                 d   == [tx.db EXCEPT !.n = n]
                 e   == Edge(d, n, row, <<"opened", n, 0>>, "fired")
                 f   == IF tx.mem.acked
                          THEN [e EXCEPT !.events = @ \cup {<<"unacked_new_case", n, 0>>},
                                         !.notices[<<"unacked", n>>] = @ + 1]
                          ELSE e
      <4>1. n \in 0..MaxCases
        BY <3>10, <3>4, BoundsAssumption DEF applyOpen
      <4>1a. row \in Row
        BY <1>2, <3>2, RowTypes
      <4>2. d \in DB
        BY <4>1, <1>2 DEF DB
      <4> HIDE DEF row, n, d
      <4>3. e \in DB
        BY <4>1, <4>1a, <4>2, EventIn, EdgeType DEF EventTypes
      <4> HIDE DEF e
      <4>4. f \in DB
        <5>1. <<"unacked_new_case", n, 0>> \in EventTypes \X (0..MaxCases) \X Nat
            BY <4>1, EventIn DEF EventTypes
        <5>2. PICK ev \in SUBSET (EventTypes \X (0..MaxCases) \X Nat) :
                ev = e.events \cup {<<"unacked_new_case", n, 0>>}
            BY <5>1, <4>3 DEF DB
        <5>3. PICK no \in [Reasons \X Seqs -> Nat] :
                no = [e.notices EXCEPT ![<<"unacked", n>>] = @ + 1]
            BY <4>3, CountUp DEF DB
        <5>4. [e EXCEPT !.events = ev, !.notices = no] \in DB
            BY <4>3 DEF DB
        <5> QED
            BY <4>3, <5>2, <5>3, <5>4
      <4> HIDE DEF f
      <4>5. Hear(f, "firing") \in DB
        BY <4>4, <1>2, HearType DEF Statuses
      <4>6. tx' = [tx EXCEPT !.todo = todo, !.db = Hear(f, "firing"), !.mem = row,
                             !.touched = TRUE, !.opened = @ + 1]
        BY <3>10 DEF applyOpen, n, row, d, e, f
      <4>7. PICK h \in DB : h = Hear(f, "firing")
        BY <4>5
      <4>8. PICK p \in Nat : p = tx.opened + 1
        BY <1>2
      <4>9. tx' \in Tx
        BY <4>1a, <4>6, <4>7, <4>8, <1>2, <3>2 DEF Tx
      <4> QED
        BY <4>9, <3>0
    <3>11. CASE applyT2
      <4>1. ApplyT2(tx.mem, tx.at, o.ends) \in Row
        BY <1>2, <3>2, EdgeTypes
      <4>2. PICK h \in DB : h = Hear(tx.db, "firing")
        BY <3>3 DEF Statuses
      <4>3. k \in Seqs => observeSQL(h.rows[k], tx.at, o.ends) \in Row
        BY <1>2, <3>2, <4>2, ObserveSQLType, SMTT(30) DEF DB
      <4>4. [h EXCEPT !.rows[k] = observeSQL(h.rows[k], tx.at, o.ends)] \in DB
        BY <4>3, SetRowType
      <4>5. Step([h EXCEPT !.rows[k] = observeSQL(@, tx.at, o.ends)],
                 ApplyT2(tx.mem, tx.at, o.ends))
        BY <3>11, <4>2 DEF applyT2
      <4> QED
        BY <4>1, <4>4, <4>5, <3>0, <3>6
    <3>12. CASE applyT3
      <4> DEFINE next == ApplyT3(tx.mem, tx.at, o.ends)
      <4>1. next \in Row
        BY <1>2, <3>2, EdgeTypes
      <4>2. next.suppressCount \in Nat
        BY <4>1 DEF Row
      <4> HIDE DEF next
      <4>3. Edge(Hear(tx.db, "suppressed"), k, transitionSQL(tx.db.rows[k], next),
                 <<"suppressed", k, next.suppressCount>>, "suppressed") \in DB
        BY <3>7, <3>8, <4>1, <4>2 DEF Statuses, EventTypes
      <4>4. Step(Edge(Hear(tx.db, "suppressed"), k, transitionSQL(tx.db.rows[k], next),
                      <<"suppressed", k, next.suppressCount>>, "suppressed"), next)
        BY <3>12 DEF applyT3, next
      <4> QED
        BY <4>1, <4>3, <4>4, <3>0, <3>6
    <3>13. CASE applyT4
      <4> DEFINE next == ApplyT4(tx.mem, tx.at, o.ends)
      <4>1. next \in Row
        BY <1>2, <3>2, EdgeTypes
      <4>2. next.suppressCount \in Nat
        BY <4>1 DEF Row
      <4> HIDE DEF next
      <4>3. Edge(Hear(tx.db, "firing"), k, transitionSQL(tx.db.rows[k], next),
                 <<"unsuppressed", k, next.suppressCount>>, "unsuppressed") \in DB
        BY <3>7, <3>8, <4>1, <4>2 DEF Statuses, EventTypes
      <4>4. Step(Edge(Hear(tx.db, "firing"), k, transitionSQL(tx.db.rows[k], next),
                      <<"unsuppressed", k, next.suppressCount>>, "unsuppressed"), next)
        BY <3>13 DEF applyT4, next
      <4> QED
        BY <4>1, <4>3, <4>4, <3>0, <3>6
    <3>14. CASE applyT5Defer
      <4> DEFINE next == ApplyT5Defer(tx.mem, tx.at, o.ends, Occurred(o), retention)
      <4>1. next \in Row
        <5>1. tx.at \in Int /\ retention \in Int
            BY <1>2
        <5> QED
            BY <5>1, <1>2, <3>2, ResolveTypes
      <4> HIDE DEF next
      <4>2. PICK h \in DB : h = Hear(tx.db, "resolved")
        BY <3>3 DEF Statuses
      <4>3. k \in Seqs => transitionSQL(h.rows[k], next) \in Row
        BY <4>1, <4>2, TransitionSQLType, NoTimeType DEF DB
      <4>4. [h EXCEPT !.rows[k] = transitionSQL(h.rows[k], next)] \in DB
        BY <4>3, SetRowType
      <4>5. Step([h EXCEPT !.rows[k] = transitionSQL(@, next)], next)
        BY <3>14, <4>2 DEF applyT5Defer, next
      <4> QED
        BY <4>1, <4>4, <4>5, <3>0, <3>6
    <3>15. CASE applyT5
      <4> DEFINE next == ApplyT5(tx.mem, tx.at, o.ends, Occurred(o))
      <4>1. next \in Row
        BY <1>2, <3>2, ResolveTypes
      <4>2. next.suppressCount \in Nat
        BY <4>1 DEF Row
      <4> HIDE DEF next
      <4>3. Edge(Hear(tx.db, "resolved"), k, transitionSQL(tx.db.rows[k], next),
                 <<"resolved", k, 0>>, "all_resolved") \in DB
        BY <3>7, <3>8, <4>1, <4>2 DEF Statuses, EventTypes
      <4>4. Step(Edge(Hear(tx.db, "resolved"), k, transitionSQL(tx.db.rows[k], next),
                      <<"resolved", k, 0>>, "all_resolved"), next)
        BY <3>15 DEF applyT5, next
      <4> QED
        BY <4>1, <4>3, <4>4, <3>0, <3>6
    <3>16. CASE noTransition
      <4>1. Hear(tx.db, o.status) \in DB
        BY <3>2, <3>3
      <4> QED
        BY <3>16, <4>1, <1>2, <3>0, <3>2 DEF noTransition, Tx
    <3> QED
        BY <2>4, <3>10, <3>11, <3>12, <3>13, <3>14, <3>15, <3>16
  <2> QED
    BY <2>1, <2>2, <2>3, <2>4 DEF Observe
<1> QED
    BY <1>1, <1>3 DEF TypeOK

\* What every pending writer aims at is an episode: TypeOK needs it to be inductive.
Targets ==
    /\ reaper.pc \in {"prove", "health", "expire", "commit"}
         => reaper.seq \in Seqs /\ reaper.reason \in Expiries
    /\ closer.pc # "idle" => closer.seq \in Seqs
    /\ human.pc # "idle" => human.seq \in Seqs

LEMMA ReapType ==
    ASSUME TypeOK, Targets, Reap
    PROVE  TypeOK' /\ Targets'
<1>1. UNCHANGED <<now, retention, sources, tx, closer, human>>
    BY DEF Reap, ReapBegin, SourceRemovedCandidates, GuardedCandidates, resolveSources,
       healthBySource, expireRead, expireCommit, ReapAbandon, ReapUnchanged
<1>2. /\ db \in DB /\ reaper \in Reaper /\ now \in Nat /\ db.n \in 0..MaxCases
      /\ reaper.seq \in 0..MaxCases /\ NoRow \in Row /\ Live \subseteq Sources
    BY RowTypes, NoTimeType DEF TypeOK, Reaper, DB, Live
<1>3. IdleReaper \in Reaper /\ ReapNext \in Reaper
    BY <1>2, IdleTypes DEF ReapNext, Reaper
<1>4. reaper' \in Reaper
  <2>1. CASE ReapBegin
    BY <2>1, <1>2, <1>3 DEF ReapBegin, Reaper
  <2>2. CASE SourceRemovedCandidates
    BY <2>2, <1>2 DEF SourceRemovedCandidates, Reaper, Expiries
  <2>3. CASE GuardedCandidates
    BY <2>3, <1>2, <1>3 DEF GuardedCandidates, Reaper, Expiries
  <2>4. CASE resolveSources \/ healthBySource
    BY <2>4, <1>2, <1>3 DEF resolveSources, healthBySource, Reaper
  <2>5. CASE expireRead
    <3>1. db.rows[reaper.seq] \in Row
        BY <2>5, <1>2 DEF DB, Targets, expireRead
    <3> QED
        BY <2>5, <1>2, <1>3, <3>1 DEF expireRead, Reaper
  <2>6. CASE expireCommit \/ ReapAbandon
    BY <2>6, <1>3 DEF expireCommit, ReapAbandon
  <2> QED
    BY <2>1, <2>2, <2>3, <2>4, <2>5, <2>6 DEF Reap
<1>5. db' \in DB
  <2>1. CASE expireCommit
    <3> DEFINE k == reaper.seq
               next == ApplyT6(reaper.snap, reaper.now, reaper.reason)
    <3>1. reaper.snap \in Row /\ reaper.now \in Nat /\ reaper.reason \in Expiries
        BY <2>1, <1>2 DEF expireCommit, Reaper, Targets
    <3>2. next \in Row
      <4>1. reaper.now \in Int
        BY <3>1
      <4> QED
        BY <3>1, <4>1, SweepTypes
    <3>3. <<"expired", k, 0>> \in EventTypes \X (0..MaxCases) \X Nat
        BY <1>2, EventIn DEF EventTypes
    <3> HIDE DEF next
    <3>4. SweepCommit(db, k, next, <<"expired", k, 0>>, "expired") \in DB
        BY <1>2, <3>2, <3>3, SweepCommitType
    <3>5. db' = SweepCommit(db, k, next, <<"expired", k, 0>>, "expired") \/ db' = db
        BY <2>1 DEF expireCommit, next
    <3> QED
        BY <1>2, <3>4, <3>5
  <2>2. CASE ~expireCommit
    BY <2>2, <1>2 DEF Reap, ReapBegin, SourceRemovedCandidates, GuardedCandidates,
       resolveSources, healthBySource, expireRead, ReapAbandon, ReapUnchanged
  <2> QED
    BY <2>1, <2>2
<1>6. Targets'
  <2>1. IdleReaper.pc = "idle" /\ ReapNext.pc \in {"idle", "scan"}
    BY <1>2 DEF IdleReaper, ReapNext, Reaper
  <2>2. ASSUME Reapable(Latest(db)) PROVE db.n \in Seqs
    BY <2>2, <1>2 DEF Reapable, IsOpen, Latest, NoRow, Seqs
  <2>3. reaper'.pc \in {"prove", "health", "expire", "commit"}
          => reaper'.seq \in Seqs /\ reaper'.reason \in Expiries
    <3>1. CASE ReapBegin
        BY <3>1 DEF ReapBegin, IdleReaper
    <3>2. CASE SourceRemovedCandidates
        BY <3>2, <2>2, <1>2 DEF SourceRemovedCandidates, Reaper, Expiries
    <3>3. CASE GuardedCandidates
        BY <3>3, <2>1, <2>2, <1>2 DEF GuardedCandidates, Reaper, Expiries
    <3>4. CASE resolveSources \/ healthBySource
        BY <3>4, <2>1, <1>2 DEF resolveSources, healthBySource, Reaper, Targets
    <3>5. CASE expireRead
        BY <3>5, <2>1, <1>2 DEF expireRead, Reaper, Targets
    <3>6. CASE expireCommit \/ ReapAbandon
        BY <3>6, <2>1 DEF expireCommit, ReapAbandon
    <3> QED
        BY <3>1, <3>2, <3>3, <3>4, <3>5, <3>6 DEF Reap
  <2> QED
    BY <2>3, <1>1 DEF Targets
<1> QED
    BY <1>1, <1>4, <1>5, <1>6 DEF TypeOK

LEMMA CloseType ==
    ASSUME TypeOK, Targets, CloseDue
    PROVE  TypeOK' /\ Targets'
<1>1. UNCHANGED <<now, retention, sources, tx, reaper, human>>
    BY DEF CloseDue, CloseDueCandidates, closeDueRead, closeDueCommit, CloseAbandon,
       CloseUnchanged
<1>2. /\ db \in DB /\ closer \in Closer /\ now \in Nat /\ db.n \in 0..MaxCases
      /\ closer.seq \in 0..MaxCases /\ NoRow \in Row
    BY RowTypes, NoTimeType DEF TypeOK, Closer, DB
<1>3. closer' \in Closer /\ (closer'.pc # "idle" => closer'.seq \in Seqs)
  <2>1. CASE CloseDueCandidates
    <3>1. db.n \in Seqs
        BY <2>1, <1>2 DEF CloseDueCandidates, CloseDueAt, ClosePending, Latest, NoRow, Seqs
    <3> QED
        BY <2>1, <1>2, <3>1 DEF CloseDueCandidates, Closer
  <2>2. CASE closeDueRead
    <3>1. db.rows[closer.seq] \in Row
        BY <2>2, <1>2 DEF DB, Targets, closeDueRead
    <3> QED
        BY <2>2, <1>2, <3>1, IdleTypes DEF closeDueRead, Closer, IdleCloser, Targets
  <2>3. CASE closeDueCommit \/ CloseAbandon
    BY <2>3, IdleTypes DEF closeDueCommit, CloseAbandon, IdleCloser
  <2> QED
    BY <2>1, <2>2, <2>3 DEF CloseDue
<1>4. db' \in DB
  <2>1. CASE closeDueCommit
    <3> DEFINE k == closer.seq
               next == ApplyCloseDue(closer.snap)
    <3>1. closer.snap \in Row
        BY <1>2 DEF Closer
    <3>2. next \in Row
        BY <3>1, SweepTypes, NoTimeType DEF Expiries
    <3>3. <<"resolved", k, 0>> \in EventTypes \X (0..MaxCases) \X Nat
        BY <1>2, EventIn DEF EventTypes
    <3> HIDE DEF next
    <3>4. SweepCommit(db, k, next, <<"resolved", k, 0>>, "all_resolved") \in DB
        BY <1>2, <3>2, <3>3, SweepCommitType
    <3>5. db' = SweepCommit(db, k, next, <<"resolved", k, 0>>, "all_resolved") \/ db' = db
        BY <2>1 DEF closeDueCommit, next
    <3> QED
        BY <1>2, <3>4, <3>5
  <2>2. CASE ~closeDueCommit
    BY <2>2, <1>2 DEF CloseDue, CloseDueCandidates, closeDueRead, CloseAbandon, CloseUnchanged
  <2> QED
    BY <2>1, <2>2
<1> QED
    BY <1>1, <1>3, <1>4 DEF TypeOK, Targets

LEMMA HumanType ==
    ASSUME TypeOK, Targets, setAckRead \/ setAckCommit
    PROVE  TypeOK' /\ Targets'
<1>1. UNCHANGED <<now, retention, sources, tx, reaper, closer>>
    BY DEF setAckRead, setAckCommit
<1>2. /\ db \in DB /\ human \in Human /\ now \in Nat /\ db.n \in 0..MaxCases
      /\ db.alert \in Alert
    BY DEF TypeOK, DB
<1>3. CASE setAckRead
  <2>1. PICK k \in 1..db.n, ack \in BOOLEAN :
            human' = [pc |-> "commit", ack |-> ack, at |-> now, seq |-> k,
                      version |-> db.rows[k].version, alert |-> db.alert]
    BY <1>3 DEF setAckRead
  <2>2. k \in Seqs /\ k \in 0..MaxCases
    <3>1. db.n \in Int /\ db.n <= MaxCases /\ MaxCases \in Int
        BY <1>2, BoundsAssumption
    <3> QED
        BY <3>1 DEF Seqs
  <2>3. db.rows[k].version \in Nat
    BY <1>2, <2>2 DEF DB, Row
  <2>4. human' \in Human /\ human'.seq \in Seqs
    BY <2>1, <2>2, <2>3, <1>2 DEF Human
  <2>5. db' = db
    BY <1>3 DEF setAckRead
  <2> QED
    BY <2>4, <2>5, <1>1, <1>2 DEF TypeOK, Targets
<1>4. CASE setAckCommit
  <2> DEFINE k == human.seq
             row == [db.rows[k] EXCEPT !.acked = human.ack]
             event == <<IF human.ack THEN "acknowledged" ELSE "unacknowledged", k, human.at>>
             reason == IF human.ack THEN "acked" ELSE "unacked"
             alert == [db.alert EXCEPT !.state = human.alert.state, !.suppressed = FALSE,
                                       !.current = k, !.total = human.alert.total]
  <2>1. k \in Seqs /\ k \in 0..MaxCases /\ human.at \in Nat /\ human.alert \in Alert
    BY <1>2, <1>4 DEF Human, Targets, setAckCommit
  <2>2. row \in Row
    BY <1>2, <2>1, SMTT(30) DEF DB, Row, Human
  <2>3. event \in EventTypes \X (0..MaxCases) \X Nat
    BY <2>1, EventIn DEF EventTypes
  <2>4. alert \in Alert
    BY <1>2, <2>1 DEF Alert
  <2> HIDE DEF row, event, alert, reason
  <2>5. [Edge(db, k, row, event, reason) EXCEPT !.alert = alert] \in DB
    BY <1>2, <2>2, <2>3, <2>4, EdgeType, SetAlertType
  <2>6. db' = [Edge(db, k, row, event, reason) EXCEPT !.alert = alert] \/ db' = db
    BY <1>4 DEF setAckCommit, row, event, alert, reason
  <2>7. human' \in Human /\ human'.pc = "idle"
    BY <1>4, IdleTypes DEF setAckCommit, IdleHuman
  <2> QED
    BY <2>5, <2>6, <2>7, <1>1, <1>2 DEF TypeOK, Targets
<1> QED
    BY <1>3, <1>4

LEMMA TypeStep == TypeOK /\ Targets /\ [Next]_vars => TypeOK' /\ Targets'
<1> SUFFICES ASSUME TypeOK, Targets, [Next]_vars PROVE TypeOK' /\ Targets'
    OBVIOUS
<1>1. CASE Tick \/ Operator
  <2>1. UNCHANGED <<reaper, closer, human>>
    BY <1>1 DEF Tick, Operator, SetRetention, RegisterSource, RemoveSource,
       SetMaxSilence, SetHealth
  <2> QED
    BY <1>1, <2>1, OperatorType DEF Targets
<1>2. CASE Observe
  <2>1. UNCHANGED <<reaper, closer, human>>
    BY <1>2 DEF Observe, ObserveBegin, applyOpen, applyT2, applyT3, applyT4,
       applyT5Defer, applyT5, noTransition, ObserveCommit, ObserveAbort, Step
  <2> QED
    BY <1>2, <2>1, ObserveType DEF Targets
<1>3. CASE Reap
    BY <1>3, ReapType
<1>4. CASE CloseDue
    BY <1>4, CloseType
<1>5. CASE setAckRead \/ setAckCommit
    BY <1>5, HumanType
<1>6. CASE UNCHANGED vars
    BY <1>6 DEF vars, TypeOK, Targets
<1> QED
    BY <1>1, <1>2, <1>3, <1>4, <1>5, <1>6 DEF Next

\* Every reachable state of the case lifecycle is well typed, for every number of
\* episodes, sources, observations per batch and instants: no edge, statement or
\* projection of the alerts module writes a value outside its column's domain.
THEOREM TypeCorrect == Spec => []TypeOK
<1>1. Init => TypeOK /\ Targets
    BY InitType DEF Init, Targets, IdleReaper, IdleCloser, IdleHuman
<1> QED
    BY <1>1, TypeStep, PTL DEF Spec
=============================================================================
