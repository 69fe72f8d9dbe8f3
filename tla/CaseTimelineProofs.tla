------------------------ MODULE CaseTimelineProofs -------------------------
(***************************************************************************)
(* The timeline of CaseLifecycle for every value of the constants: the     *)
(* dedupe keys of alert_event_keys tell what happened to every episode.    *)
(***************************************************************************)
EXTENDS CaseLifecycleSafety

\* The event types that tell an episode's life, and the columns they tell.
Story == {"opened", "resolved", "expired", "suppressed", "unsuppressed"}

SameStory(c, r) ==
    /\ c.state = r.state /\ c.suppressed = r.suppressed
    /\ c.resolveReason = r.resolveReason /\ c.suppressCount = r.suppressCount

\* How many suppressions of the episode are over.
Lifted(c) == IF c.suppressed THEN c.suppressCount - 1 ELSE c.suppressCount

\* A suppression is counted when it begins, so the one that lasts has a number.
Told(d, k) ==
    /\ <<"opened", k, 0>> \in d.events <=> k <= d.n
    /\ <<"resolved", k, 0>> \in d.events <=> d.rows[k].resolveReason = "upstream"
    /\ <<"expired", k, 0>> \in d.events <=> d.rows[k].resolveReason \in Expiries
    /\ \A m \in Nat : <<"suppressed", k, m>> \in d.events
                        <=> m \in 1..d.rows[k].suppressCount
    /\ d.rows[k].state # "closed" =>
         \A m \in Nat : <<"unsuppressed", k, m>> \in d.events <=> m \in 1..Lifted(d.rows[k])
    /\ d.rows[k].suppressed => d.rows[k].suppressCount > 0

Timeline(d) == \A k \in Seqs : Told(d, k)

\* The transaction numbers the next suppression from memory, where the count is
\* the row's.
TimelineInv ==
    /\ Timeline(db)
    /\ tx.on => /\ Timeline(tx.db)
                /\ tx.mem.suppressCount = Latest(tx.db).suppressCount

(***************************************************************************)
(* Databases.                                                              *)
(***************************************************************************)
LEMMA ToldSame ==
    ASSUME NEW d, NEW e, NEW k \in Seqs, Told(d, k), SameStory(e.rows[k], d.rows[k]),
           k <= e.n <=> k <= d.n,
           \A t \in Story, m \in Nat : <<t, k, m>> \in e.events <=> <<t, k, m>> \in d.events
    PROVE  Told(e, k)
<1>1. Lifted(e.rows[k]) = Lifted(d.rows[k])
  BY DEF Lifted, SameStory
<1>2. \A t \in {"opened", "resolved", "expired"} :
        <<t, k, 0>> \in e.events <=> <<t, k, 0>> \in d.events
  BY DEF Story
<1>3. \A t \in {"suppressed", "unsuppressed"}, m \in Nat :
        <<t, k, m>> \in e.events <=> <<t, k, m>> \in d.events
  BY DEF Story
<1>4. QED
  BY <1>1, <1>2, <1>3 DEF Told, SameStory

\* Neither the projection nor history nor any other key is part of the story.
LEMMA TimelineSame ==
    ASSUME NEW d, NEW e, Timeline(d), e.n = d.n, NEW X,
           \A k \in Seqs : SameStory(e.rows[k], d.rows[k]),
           e.events = d.events \/ e.events = d.events \cup {X},
           \A t \in Story, k \in Seqs, m \in Nat : X # <<t, k, m>>
    PROVE  Timeline(e)
<1> SUFFICES ASSUME NEW k \in Seqs PROVE Told(e, k)
  BY DEF Timeline
<1>1. Told(d, k)
  BY DEF Timeline
<1>2. \A t \in Story, m \in Nat : <<t, k, m>> \in e.events <=> <<t, k, m>> \in d.events
  OBVIOUS
<1>3. QED
  BY <1>1, <1>2, ToldSame

\* What an edge on the open episode tells, and what it makes of the row.
Tells(old, new, t, v) ==
    \/ /\ t = "suppressed" /\ v = new.suppressCount
       /\ new.state = "open" /\ new.resolveReason = "none"
       /\ ~old.suppressed /\ new.suppressed /\ new.suppressCount = old.suppressCount + 1
    \/ /\ t = "unsuppressed" /\ v = new.suppressCount
       /\ new.state = "open" /\ new.resolveReason = "none"
       /\ old.suppressed /\ ~new.suppressed /\ new.suppressCount = old.suppressCount
    \/ /\ t = "resolved" /\ v = 0
       /\ new.state = "closed" /\ new.resolveReason = "upstream"
       /\ ~new.suppressed /\ new.suppressCount = old.suppressCount
    \/ /\ t = "expired" /\ v = 0
       /\ new.state = "closed" /\ new.resolveReason \in Expiries
       /\ ~new.suppressed /\ new.suppressCount = old.suppressCount

LEMMA EdgeTells ==
    ASSUME NEW d \in DB, NEW e, NEW new \in Row, NEW k \in Seqs, NEW t, NEW v \in Nat,
           Sound(d), Timeline(d), IsOpen(d.rows[k]),
           e.n = d.n, e.rows = [d.rows EXCEPT ![k] = new],
           e.events = d.events \cup {<<t, k, v>>}, Tells(d.rows[k], new, t, v)
    PROVE  Timeline(e)
<1> SUFFICES ASSUME NEW j \in Seqs PROVE Told(e, j)
  BY DEF Timeline
<1>1. Told(d, j) /\ d.rows[j] \in Row
  BY DEF Timeline, DB
<1>2. CASE j # k
  <2>1. e.rows[j] = d.rows[j]
    BY <1>2 DEF DB
  <2>2. \A u \in Story, m \in Nat : <<u, j, m>> \in e.events <=> <<u, j, m>> \in d.events
    BY <1>2
  <2>3. QED
    BY <1>1, <2>1, <2>2, ToldSame DEF SameStory
<1>3. CASE j = k
  <2> DEFINE old == d.rows[k]
  <2>1. e.rows[k] = new /\ old \in Row /\ Told(d, k)
    BY <1>1, <1>3 DEF DB
  <2>2. old.state = "open" /\ old.resolveReason = "none"
    BY DEF Sound, EpisodeSound, RowSound, IsOpen
  <2>3. /\ old.suppressCount \in Nat /\ new.suppressCount \in Nat
        /\ old.suppressed \in BOOLEAN /\ new.suppressed \in BOOLEAN
    BY <2>1 DEF Row
  <2>4. \A u, m : <<u, k, m>> \in e.events
                    <=> <<u, k, m>> \in d.events \/ (u = t /\ m = v)
    OBVIOUS
  <2>5. /\ <<"opened", k, 0>> \in d.events <=> k <= d.n
        /\ <<"resolved", k, 0>> \notin d.events /\ <<"expired", k, 0>> \notin d.events
        /\ \A m \in Nat : <<"suppressed", k, m>> \in d.events <=> m \in 1..old.suppressCount
        /\ \A m \in Nat : <<"unsuppressed", k, m>> \in d.events <=> m \in 1..Lifted(old)
        /\ old.suppressed => old.suppressCount > 0
    BY <2>1, <2>2 DEF Told, Expiries
  <2> HIDE DEF old
  <2>6. <<"opened", k, 0>> \in e.events <=> k <= e.n
    BY <2>4, <2>5 DEF Tells
  <2>7. /\ <<"resolved", k, 0>> \in e.events <=> new.resolveReason = "upstream"
        /\ <<"expired", k, 0>> \in e.events <=> new.resolveReason \in Expiries
    BY <2>4, <2>5 DEF Tells, Expiries
  <2>8. \A m \in Nat : <<"suppressed", k, m>> \in e.events <=> m \in 1..new.suppressCount
    <3>1. CASE t = "suppressed"
      <4>1. v = old.suppressCount + 1 /\ new.suppressCount = old.suppressCount + 1
        BY <3>1 DEF Tells, old
      <4>2. \A m \in Nat : m \in 1..(old.suppressCount + 1)
                             <=> m \in 1..old.suppressCount \/ m = old.suppressCount + 1
        BY <2>3
      <4>3. QED
        BY <2>4, <2>5, <3>1, <4>1, <4>2
    <3>2. CASE t # "suppressed"
      <4>1. new.suppressCount = old.suppressCount
        BY <3>2 DEF Tells, old
      <4>2. QED
        BY <2>4, <2>5, <3>2, <4>1
    <3>3. QED
      BY <3>1, <3>2
  <2>9. new.state # "closed" =>
          \A m \in Nat : <<"unsuppressed", k, m>> \in e.events <=> m \in 1..Lifted(new)
    <3>1. CASE t = "suppressed"
      <4>1. /\ new.suppressCount = old.suppressCount + 1 /\ ~old.suppressed /\ new.suppressed
        BY <3>1 DEF Tells, old
      <4>2. Lifted(new) = Lifted(old)
        BY <2>3, <4>1 DEF Lifted
      <4>3. QED
        BY <2>4, <2>5, <3>1, <4>2
    <3>2. CASE t = "unsuppressed"
      <4>1. /\ v = old.suppressCount /\ new.suppressCount = old.suppressCount
            /\ old.suppressed /\ ~new.suppressed
        BY <3>2 DEF Tells, old
      <4>2. Lifted(new) = old.suppressCount /\ Lifted(old) = old.suppressCount - 1
        BY <4>1 DEF Lifted
      <4>3. old.suppressCount > 0
        BY <2>5, <4>1
      <4>4. \A m \in Nat : m \in 1..old.suppressCount
                             <=> m \in 1..(old.suppressCount - 1) \/ m = old.suppressCount
        BY <2>3, <4>3
      <4>5. QED
        BY <2>4, <2>5, <3>2, <4>1, <4>2, <4>4
    <3>3. CASE t \notin {"suppressed", "unsuppressed"}
      BY <3>3 DEF Tells
    <3>4. QED
      BY <3>1, <3>2, <3>3
  <2>10. new.suppressed => new.suppressCount > 0
    <3>1. new.suppressed => new.suppressCount = old.suppressCount + 1
      BY DEF Tells, old
    <3>2. QED
      BY <2>3, <3>1
  <2>11. QED
    BY <1>3, <2>1, <2>6, <2>7, <2>8, <2>9, <2>10 DEF Told
<1>4. QED
  BY <1>2, <1>3

(***************************************************************************)
(* The observe transaction.                                                *)
(***************************************************************************)
LEMMA HearTells ==
    ASSUME NEW d \in DB, NEW status
    PROVE  Hear(d, status).events = d.events
BY DEF Hear, DB

LEMMA TransitionCount ==
    ASSUME NEW row \in Row, NEW next \in Row,
           next.suppressCount = row.suppressCount \/ next.suppressCount > 0
    PROVE  transitionSQL(row, next).suppressCount = next.suppressCount
<1>1. transitionSQL(row, next).suppressCount =
        IF next.suppressCount > 0 THEN next.suppressCount ELSE row.suppressCount
  BY DEF transitionSQL, Row
<1>2. QED
  BY <1>1

\* The machine's copy agrees with the row on its story when it decides an edge.
LEMMA ObserveTells ==
    ASSUME TypeOK, TxInv, TimelineInv,
           applyT2 \/ applyT3 \/ applyT4 \/ applyT5Defer \/ applyT5
    PROVE  TimelineInv'
<1> DEFINE o == Head(tx.todo)
           n == tx.db.n
           row == tx.db.rows[n]
<1>1. tx.on /\ tx.todo # <<>> /\ IsOpen(tx.mem)
  <2>1. tx.on /\ tx.todo # <<>> /\ lifecyclePhase(tx.mem) \in {"firing", "suppressed"}
    BY DEF applyT2, applyT3, applyT4, applyT5Defer, applyT5, Deciding
  <2>2. tx.mem \in Row
    BY DEF TypeOK, Tx
  <2>3. QED
    BY <2>1, <2>2, Phases
<1>2. /\ tx.mem \in Row /\ tx.db \in DB /\ tx.at \in Nat /\ tx.at \in Int
      /\ n \in Seqs /\ row \in Row /\ RowSound(row) /\ IsOpen(row)
      /\ SameEpisode(tx.mem, row) /\ Sound(tx.db)
  BY <1>1, OpenMem DEF TxInv
<1>3. o.ends \in Int /\ Occurred(o) \in Int /\ retention \in Int
  BY <1>1, HeadType DEF TypeOK
<1>4. Latest(tx.db) = row /\ n # 0
  BY <1>2, BoundsAssumption DEF Latest, Seqs
<1>5. Timeline(db) /\ Timeline(tx.db) /\ tx.mem.suppressCount = row.suppressCount
  BY <1>1, <1>4 DEF TimelineInv
<1>6. /\ tx.mem.state = "open" /\ tx.mem.resolveReason = "none"
      /\ tx.mem.suppressed = row.suppressed /\ row.state = "open" /\ row.resolveReason = "none"
      /\ row.suppressCount \in Nat /\ row.suppressed \in BOOLEAN
  BY <1>2 DEF SameEpisode, IsOpen, RowSound, Row
<1>7. ASSUME NEW st
      PROVE  /\ Hear(tx.db, st).rows = tx.db.rows /\ Hear(tx.db, st).n = n
             /\ Hear(tx.db, st).events = tx.db.events
  BY <1>2, HearColumns, HearTells
<1>8. ASSUME NEW e, NEW mem, NEW new \in Row, Step(e, mem), Timeline(e), e.n = n,
             e.rows = [tx.db.rows EXCEPT ![n] = new],
             mem.suppressCount = new.suppressCount
      PROVE  TimelineInv'
  <2>1. tx'.db = e /\ tx'.mem = mem /\ db' = db
    BY <1>8, StepColumns
  <2>2. Latest(e) = new
    <3>1. e.rows[n] = new
      BY <1>2, <1>8 DEF DB
    <3>2. QED
      BY <1>4, <1>8, <3>1 DEF Latest
  <2>3. QED
    BY <1>5, <1>8, <2>1, <2>2 DEF TimelineInv
<1>9. ASSUME NEW st \in Statuses, NEW next \in Row, NEW t, NEW v \in Nat, NEW reason,
             Tells(row, transitionSQL(row, next), t, v),
             transitionSQL(row, next).suppressCount = next.suppressCount,
             Step(Edge(Hear(tx.db, st), n, transitionSQL(row, next), <<t, n, v>>, reason),
                  next)
      PROVE  TimelineInv'
  <2> DEFINE new == transitionSQL(row, next)
             h == Hear(tx.db, st)
             e == Edge(h, n, new, <<t, n, v>>, reason)
  <2>1. new \in Row
    BY <1>2, <1>9, TransitionSQLType
  <2>2. h \in DB /\ h.rows = tx.db.rows /\ h.n = n /\ h.events = tx.db.events
    BY <1>2, <1>7, <1>9, HearType
  <2>3. Tells(row, new, t, v) /\ Step(e, next) /\ next.suppressCount = new.suppressCount
    BY <1>9
  <2> HIDE DEF new, h
  <2>4. e.n = n /\ e.rows = [tx.db.rows EXCEPT ![n] = new]
        /\ e.events = tx.db.events \cup {<<t, n, v>>}
    BY <2>2 DEF Edge, DB
  <2> HIDE DEF e
  <2>5. Timeline(e)
    <3> DEFINE d == tx.db
    <3>1. d \in DB /\ n \in Seqs /\ Sound(d) /\ Timeline(d) /\ IsOpen(d.rows[n])
      BY <1>2, <1>5
    <3>2. /\ e.n = d.n /\ e.rows = [d.rows EXCEPT ![n] = new]
          /\ e.events = d.events \cup {<<t, n, v>>} /\ Tells(d.rows[n], new, t, v)
      BY <2>3, <2>4
    <3> HIDE DEF d, n
    <3>3. QED
      BY <1>9, <2>1, <3>1, <3>2, EdgeTells
  <2>6. QED
    BY <1>8, <2>1, <2>4, <2>3, <2>5
<1>10. ASSUME NEW st, NEW new \in Row, NEW mem, SameStory(new, row),
              mem.suppressCount = new.suppressCount,
              Step([Hear(tx.db, st) EXCEPT !.rows[n] = new], mem), st \in Statuses
       PROVE  TimelineInv'
  <2> DEFINE h == Hear(tx.db, st)
             e == [h EXCEPT !.rows[n] = new]
  <2>1. h \in DB
    BY <1>2, <1>10, HearType
  <2>2. h.rows = tx.db.rows /\ h.n = n /\ h.events = tx.db.events
    BY <1>7
  <2>3. Step(e, mem)
    BY <1>10
  <2> HIDE DEF h
  <2>4. e.n = n /\ e.rows = [tx.db.rows EXCEPT ![n] = new] /\ e.events = tx.db.events
    BY <2>1, <2>2 DEF DB
  <2> HIDE DEF e
  <2>5. \A k \in Seqs : SameStory(e.rows[k], tx.db.rows[k])
    BY <1>2, <1>10, <2>4 DEF DB, SameStory
  <2>6. \A t \in Story, k \in Seqs, m \in Nat : <<>> # <<t, k, m>>
    OBVIOUS
  <2>7. Timeline(e)
    BY <1>5, <2>4, <2>5, <2>6, TimelineSame
  <2>8. QED
    BY <1>8, <1>10, <2>3, <2>4, <2>7
<1> HIDE DEF o
<1>11. CASE applyT2
  <2> DEFINE new == observeSQL(row, tx.at, o.ends)
             mem == ApplyT2(tx.mem, tx.at, o.ends)
  <2>1. new \in Row
    BY <1>2, <1>3, ObserveSQLType
  <2>2. SameStory(new, row)
    BY <1>2 DEF observeSQL, Row, SameStory
  <2>3. mem.suppressCount = tx.mem.suppressCount
    BY <1>2 DEF ApplyT2, Observed, Row
  <2>4. Hear(tx.db, "firing").rows[n] = row
    BY <1>7
  <2>5. Step([Hear(tx.db, "firing") EXCEPT !.rows[n] = new], mem)
    BY <1>11, <2>4 DEF applyT2, o
  <2> HIDE DEF new, mem
  <2>6. mem.suppressCount = new.suppressCount
    BY <1>5, <2>2, <2>3 DEF SameStory
  <2>7. QED
    BY <1>10, <2>1, <2>2, <2>5, <2>6 DEF Statuses
<1>12. CASE applyT3
  <2> DEFINE next == ApplyT3(tx.mem, tx.at, o.ends)
             new == transitionSQL(row, next)
  <2>1. ~tx.mem.suppressed
    BY <1>2, <1>12, Phases DEF applyT3, Deciding
  <2>2. next \in Row
    BY <1>2, <1>3, EdgeTypes
  <2>3. /\ next.state = "open" /\ next.resolveReason = "none" /\ next.suppressed = TRUE
        /\ next.suppressCount = tx.mem.suppressCount + 1
    BY <1>2, <1>6 DEF ApplyT3, Observed, Row
  <2>4. Step(Edge(Hear(tx.db, "suppressed"), n, transitionSQL(row, next),
                  <<"suppressed", n, next.suppressCount>>, "suppressed"), next)
    BY <1>12 DEF applyT3, o
  <2> HIDE DEF next
  <2>5. next.suppressCount > 0 /\ next.suppressCount \in Nat
    BY <1>5, <1>6, <2>3
  <2>6. /\ new.state = next.state /\ new.suppressed = next.suppressed
        /\ new.resolveReason = next.resolveReason
        /\ new.suppressCount = next.suppressCount
    BY <1>2, <2>2, <2>5, TransitionColumns, TransitionCount
  <2> HIDE DEF new
  <2>7. Tells(row, new, "suppressed", next.suppressCount)
    BY <1>5, <1>6, <2>1, <2>3, <2>6 DEF Tells
  <2>8. QED
    BY <1>9, <2>2, <2>4, <2>5, <2>6, <2>7 DEF Statuses, new
<1>13. CASE applyT4
  <2> DEFINE next == ApplyT4(tx.mem, tx.at, o.ends)
             new == transitionSQL(row, next)
  <2>1. tx.mem.suppressed
    BY <1>2, <1>13, Phases DEF applyT4, Deciding
  <2>2. next \in Row
    BY <1>2, <1>3, EdgeTypes
  <2>3. /\ next.state = "open" /\ next.resolveReason = "none" /\ next.suppressed = FALSE
        /\ next.suppressCount = tx.mem.suppressCount
    BY <1>2, <1>6 DEF ApplyT4, Observed, Row
  <2>4. Step(Edge(Hear(tx.db, "firing"), n, transitionSQL(row, next),
                  <<"unsuppressed", n, next.suppressCount>>, "unsuppressed"), next)
    BY <1>13 DEF applyT4, o
  <2> HIDE DEF next
  <2>5. next.suppressCount = row.suppressCount /\ next.suppressCount \in Nat
    BY <1>5, <1>6, <2>3
  <2>6. /\ new.state = next.state /\ new.suppressed = next.suppressed
        /\ new.resolveReason = next.resolveReason
        /\ new.suppressCount = next.suppressCount
    BY <1>2, <2>2, <2>5, TransitionColumns, TransitionCount
  <2> HIDE DEF new
  <2>7. Tells(row, new, "unsuppressed", next.suppressCount)
    BY <1>5, <1>6, <2>1, <2>3, <2>5, <2>6 DEF Tells
  <2>8. QED
    BY <1>9, <2>2, <2>4, <2>5, <2>6, <2>7 DEF Statuses, new
<1>14. CASE applyT5Defer
  <2> DEFINE next == ApplyT5Defer(tx.mem, tx.at, o.ends, Occurred(o), retention)
             new == transitionSQL(row, next)
  <2>1. ~tx.mem.suppressed
    BY <1>2, <1>14, Phases DEF applyT5Defer, Deciding
  <2>2. next \in Row
    BY <1>2, <1>3, ResolveTypes
  <2>3. /\ next.state = "open" /\ next.resolveReason = "none"
        /\ next.suppressed = tx.mem.suppressed
        /\ next.suppressCount = tx.mem.suppressCount
    BY <1>2, <1>6 DEF ApplyT5Defer, Observed, Row
  <2>4. Hear(tx.db, "resolved").rows[n] = row
    BY <1>7
  <2>5. Step([Hear(tx.db, "resolved") EXCEPT !.rows[n] = new], next)
    BY <1>14, <2>4 DEF applyT5Defer, o
  <2> HIDE DEF next
  <2>6. /\ new \in Row /\ new.state = next.state /\ new.suppressed = next.suppressed
        /\ new.resolveReason = next.resolveReason
        /\ new.suppressCount = next.suppressCount
    <3>1. next.suppressCount = row.suppressCount
      BY <1>5, <2>3
    <3>2. new.suppressCount = next.suppressCount
      BY <1>2, <2>2, <3>1, TransitionCount
    <3>3. QED
      BY <1>2, <2>2, <3>2, TransitionColumns, TransitionSQLType
  <2> HIDE DEF new
  <2>7. SameStory(new, row)
    BY <1>5, <1>6, <2>3, <2>6 DEF SameStory
  <2>8. QED
    BY <1>10, <2>5, <2>6, <2>7 DEF Statuses
<1>15. CASE applyT5
  <2> DEFINE next == ApplyT5(tx.mem, tx.at, o.ends, Occurred(o))
             new == transitionSQL(row, next)
  <2>1. next \in Row
    BY <1>2, <1>3, ResolveTypes
  <2>2. /\ next.state = "closed" /\ next.resolveReason = "upstream"
        /\ next.suppressed = FALSE /\ next.suppressCount = tx.mem.suppressCount
    BY <1>2 DEF ApplyT5, Observed, Row
  <2>3. Step(Edge(Hear(tx.db, "resolved"), n, transitionSQL(row, next),
                  <<"resolved", n, 0>>, "all_resolved"), next)
    BY <1>15 DEF applyT5, o
  <2> HIDE DEF next
  <2>4. next.suppressCount = row.suppressCount
    BY <1>5, <2>2
  <2>5. /\ new.state = next.state /\ new.suppressed = next.suppressed
        /\ new.resolveReason = next.resolveReason
        /\ new.suppressCount = next.suppressCount
    BY <1>2, <2>1, <2>4, TransitionColumns, TransitionCount
  <2> HIDE DEF new
  <2>6. Tells(row, new, "resolved", 0)
    BY <2>2, <2>4, <2>5 DEF Tells
  <2>7. QED
    BY <1>9, <2>1, <2>3, <2>5, <2>6 DEF Statuses, new
<1>16. QED
  BY <1>11, <1>12, <1>13, <1>14, <1>15

\* UpsertBatch claims a key of its own and reads the row it will number from.
LEMMA BeginTells ==
    ASSUME TypeOK, TimelineInv, \E a \in Actors : ObserveBegin(a)
    PROVE  TimelineInv'
<1>1. PICK a \in Actors : ObserveBegin(a)
  OBVIOUS
<1>2. PICK obs \in Batches(a), at \in Times :
        tx' = [on |-> TRUE, at |-> at, todo |-> obs, db |-> Upserted(db, obs),
               mem |-> Latest(db), touched |-> FALSE, opened |-> 0]
  BY <1>1 DEF ObserveBegin
<1>3. db' = db /\ db \in DB
  BY <1>1 DEF ObserveBegin, TypeOK
<1>4. PICK e : e = Upserted(db, obs)
  OBVIOUS
<1>5. e.rows = db.rows /\ e.n = db.n
  BY <1>3, <1>4, UpsertedColumns
<1>6. e.events = db.events \/ e.events = db.events \cup {<<"created", 0, 0>>}
  BY <1>3, <1>4 DEF Upserted, DB
<1>7. tx'.db = e /\ tx'.mem = Latest(db)
  BY <1>2, <1>4
<1>8. \A t \in Story, k \in Seqs, m \in Nat : <<"created", 0, 0>> # <<t, k, m>>
  BY DEF Story
<1>9. \A k \in Seqs : SameStory(e.rows[k], db.rows[k])
  BY <1>5 DEF SameStory
<1>10. Timeline(e)
  BY <1>5, <1>6, <1>8, <1>9, TimelineSame DEF TimelineInv
<1>11. Latest(e) = Latest(db)
  BY <1>5 DEF Latest
<1>12. QED
  BY <1>3, <1>7, <1>10, <1>11 DEF TimelineInv

LEMMA DropTells ==
    ASSUME TypeOK, TxInv, TimelineInv, noTransition
    PROVE  TimelineInv'
<1>1. tx.on /\ tx.db \in DB /\ db' = db
  BY DEF noTransition, Deciding, TypeOK, Tx
<1>2. PICK h : h = Hear(tx.db, Head(tx.todo).status)
  OBVIOUS
<1>3. tx'.db = h /\ tx'.mem = tx.mem
  BY <1>2 DEF noTransition, TypeOK, Tx
<1>4. h.rows = tx.db.rows /\ h.n = tx.db.n /\ h.events = tx.db.events
  BY <1>1, <1>2, HearColumns, HearTells
<1>5. Timeline(h)
  BY <1>1, <1>4 DEF TimelineInv, Timeline, Told
<1>6. Latest(h) = Latest(tx.db)
  BY <1>4 DEF Latest
<1>7. QED
  BY <1>1, <1>3, <1>5, <1>6 DEF TimelineInv

\* A new episode starts with nothing but its opening on record.
LEMMA OpenTells ==
    ASSUME TypeOK, TxInv, TimelineInv, applyOpen
    PROVE  TimelineInv'
<1> DEFINE n   == tx.db.n + 1
           row == OpenedRow(tx.at, Head(tx.todo).ends)
           d   == [tx.db EXCEPT !.n = n]
           e   == Edge(d, n, row, <<"opened", n, 0>>, "fired")
           f   == IF tx.mem.acked
                    THEN [e EXCEPT !.events = @ \cup {<<"unacked_new_case", n, 0>>},
                                   !.notices[<<"unacked", n>>] = @ + 1]
                    ELSE e
           g   == Hear(f, "firing")
<1>1. tx.on /\ tx.todo # <<>> /\ tx.db.n < MaxCases
  BY DEF applyOpen, Deciding
<1>2. /\ tx.db \in DB /\ tx.at \in Nat /\ tx.at \in Int /\ tx.db.n \in 0..MaxCases
      /\ Sound(tx.db) /\ Head(tx.todo).ends \in Int /\ Timeline(tx.db)
  BY <1>1, OpenMem, HeadType DEF TxInv, TimelineInv
<1>3. n \in Seqs /\ n \in 0..MaxCases /\ n # 0 /\ tx.db.n \in Nat /\ n \in Nat
  BY <1>1, <1>2, BoundsAssumption DEF Seqs
<1>4. tx' = [tx EXCEPT !.todo = Tail(@), !.db = g, !.mem = row, !.touched = TRUE,
                       !.opened = @ + 1]
  BY DEF applyOpen
<1>5. /\ row \in Row /\ row.state = "open" /\ row.suppressed = FALSE
      /\ row.resolveReason = "none" /\ row.suppressCount = 0
  BY <1>2, RowTypes DEF OpenedRow, NoRow
<1>6. db' = db /\ tx'.db = g /\ tx'.mem = row
  BY <1>4 DEF applyOpen, TypeOK, Tx
<1> HIDE DEF row
<1>7. d \in DB /\ d.rows = tx.db.rows /\ d.n = n /\ d.events = tx.db.events
  BY <1>2, <1>3 DEF DB
<1> HIDE DEF d
<1>8. /\ e \in DB /\ e.rows = [tx.db.rows EXCEPT ![n] = row] /\ e.n = n
      /\ e.events = tx.db.events \cup {<<"opened", n, 0>>}
  <2>1. e \in DB
    BY <1>3, <1>5, <1>7, EventIn, EdgeType DEF EventTypes
  <2>2. QED
    BY <1>7, <2>1 DEF Edge, DB
<1> HIDE DEF e
<1>9. /\ f.rows = e.rows /\ f.n = n
      /\ f.events = e.events \/ f.events = e.events \cup {<<"unacked_new_case", n, 0>>}
  BY <1>8 DEF DB
<1>10. g.rows = f.rows /\ g.n = f.n /\ g.events = f.events
  <2>1. f \in DB
    <3>1. [e EXCEPT !.events = @ \cup {<<"unacked_new_case", n, 0>>},
                    !.notices[<<"unacked", n>>] = @ + 1] \in DB
      <4>1. <<"unacked_new_case", n, 0>> \in EventTypes \X (0..MaxCases) \X Nat
        BY <1>3, EventIn DEF EventTypes
      <4>2. [e.notices EXCEPT ![<<"unacked", n>>] = @ + 1] \in [Reasons \X Seqs -> Nat]
        BY <1>8, CountUp DEF DB
      <4>3. QED
        BY <1>8, <4>1, <4>2 DEF DB
    <3>2. QED
      BY <1>8, <3>1
  <2> HIDE DEF f
  <2>2. QED
    BY <2>1, HearColumns, HearTells
<1> HIDE DEF f, g
<1>11. /\ g.n = n /\ g.rows = [tx.db.rows EXCEPT ![n] = row]
       /\ \/ g.events = tx.db.events \cup {<<"opened", n, 0>>}
          \/ g.events = tx.db.events \cup {<<"opened", n, 0>>}
                                     \cup {<<"unacked_new_case", n, 0>>}
  BY <1>8, <1>9, <1>10
<1> HIDE DEF n
<1>12. \A t \in Story, k \in Seqs, m \in Nat :
          <<t, k, m>> \in g.events
            <=> <<t, k, m>> \in tx.db.events \/ (t = "opened" /\ k = n /\ m = 0)
  BY <1>11 DEF Story
<1>13. g.rows[n] = row /\ \A k \in Seqs : k # n => g.rows[k] = tx.db.rows[k]
  BY <1>2, <1>3, <1>11 DEF DB
<1>14. ASSUME NEW k \in Seqs PROVE Told(g, k)
  <2>1. Told(tx.db, k)
    BY <1>2 DEF Timeline
  <2>2. CASE k # n
    <3>1. k <= g.n <=> k <= tx.db.n
      BY <1>2, <1>11, <2>2, BoundsAssumption DEF n, Seqs
    <3>2. \A t \in Story, m \in Nat : <<t, k, m>> \in g.events <=> <<t, k, m>> \in tx.db.events
      BY <1>12, <2>2
    <3>3. SameStory(g.rows[k], tx.db.rows[k])
      BY <1>13, <2>2 DEF SameStory
    <3>4. QED
      BY <2>1, <3>1, <3>2, <3>3, ToldSame
  <2>3. CASE k = n
    <3>1. tx.db.rows[n] = NoRow
      <4>1. EpisodeSound(tx.db, n) /\ n > tx.db.n
        BY <1>2, <1>3 DEF Sound, n
      <4>2. QED
        BY <4>1 DEF EpisodeSound
    <3>2. /\ NoRow.state = "none" /\ NoRow.suppressed = FALSE /\ NoRow.resolveReason = "none"
          /\ NoRow.suppressCount = 0
      BY DEF NoRow
    <3>3. Lifted(NoRow) = 0 /\ Lifted(row) = 0
      BY <1>5, <3>2 DEF Lifted
    <3>4. /\ <<"resolved", n, 0>> \notin tx.db.events /\ <<"expired", n, 0>> \notin tx.db.events
          /\ \A m \in Nat : <<"suppressed", n, m>> \in tx.db.events <=> m \in 1..0
          /\ \A m \in Nat : <<"unsuppressed", n, m>> \in tx.db.events <=> m \in 1..0
      BY <2>1, <2>3, <3>1, <3>2, <3>3 DEF Told, Expiries
    <3>5. /\ <<"opened", n, 0>> \in g.events
          /\ <<"resolved", n, 0>> \notin g.events /\ <<"expired", n, 0>> \notin g.events
          /\ \A m \in Nat : <<"suppressed", n, m>> \in g.events <=> m \in 1..0
          /\ \A m \in Nat : <<"unsuppressed", n, m>> \in g.events <=> m \in 1..0
      BY <1>3, <1>12, <3>4 DEF Story
    <3>6. n <= g.n
      BY <1>3, <1>11
    <3>7. QED
      BY <1>5, <1>13, <2>3, <3>3, <3>5, <3>6 DEF Told, Expiries
  <2>4. QED
    BY <2>2, <2>3
<1>15. Latest(g) = row
  BY <1>3, <1>11, <1>13 DEF Latest
<1>16. QED
  BY <1>6, <1>14, <1>15 DEF TimelineInv, Timeline

(***************************************************************************)
(* Commits.                                                                *)
(***************************************************************************)
LEMMA CommitTells ==
    ASSUME TypeOK, TimelineInv, ObserveCommit
    PROVE  TimelineInv'
<1>1. tx.on /\ tx.db \in DB /\ Timeline(tx.db) /\ ~tx'.on
  BY DEF ObserveCommit, TypeOK, Tx, TimelineInv, NoTx
<1>2. PICK p : p = projectionFor(tx.db, tx.db.n, tx.mem, tx.opened)
  OBVIOUS
<1>3. db' = tx.db \/ db' = [tx.db EXCEPT !.alert = p]
  BY <1>2 DEF ObserveCommit
<1>4. db'.rows = tx.db.rows /\ db'.n = tx.db.n /\ db'.events = tx.db.events
  BY <1>1, <1>3 DEF DB
<1>5. Timeline(db')
  BY <1>1, <1>4 DEF Timeline, Told
<1>6. QED
  BY <1>1, <1>5 DEF TimelineInv

\* A sweep that wins its compare-and-set decided from the row it replaces, the
\* number of its suppressions included.
LEMMA SweepTells ==
    ASSUME TypeOK, Sound(db), Timeline(db), NEW k \in Seqs, IsOpen(db.rows[k]),
           NEW next \in Row, NEW t, NEW reason, next.suppressCount = db.rows[k].suppressCount,
           Tells(db.rows[k], next, t, 0),
           db' = SweepCommit(db, k, next, <<t, k, 0>>, reason)
    PROVE  Timeline(db')
<1> DEFINE row == db.rows[k]
           new == transitionSQL(row, next)
           e == Edge(db, k, new, <<t, k, 0>>, reason)
<1>1. db \in DB /\ row \in Row
  BY DEF TypeOK, DB
<1>2. /\ new \in Row /\ new.state = next.state /\ new.suppressed = next.suppressed
      /\ new.resolveReason = next.resolveReason /\ new.suppressCount = next.suppressCount
  BY <1>1, TransitionColumns, TransitionCount, TransitionSQLType
<1>3. PICK p : p = projectionFor(db, k, next, 0)
  OBVIOUS
<1>4. db' = [e EXCEPT !.alert = p]
  BY <1>3 DEF SweepCommit
<1> HIDE DEF new
<1>5. e.rows = [db.rows EXCEPT ![k] = new] /\ e.n = db.n
      /\ e.events = db.events \cup {<<t, k, 0>>}
  BY <1>1 DEF Edge, DB
<1>6. db'.rows = e.rows /\ db'.n = e.n /\ db'.events = e.events
  BY <1>1, <1>4 DEF Edge, DB
<1> HIDE DEF e
<1>7. Tells(row, new, t, 0)
  BY <1>2 DEF Tells
<1>8. db'.rows = [db.rows EXCEPT ![k] = new] /\ db'.n = db.n
      /\ db'.events = db.events \cup {<<t, k, 0>>}
  BY <1>5, <1>6
<1>9. QED
  BY <1>1, <1>2, <1>7, <1>8, EdgeTells

LEMMA DecidedCount ==
    ASSUME NEW a \in Row, NEW b \in Row, Decided(a) = Decided(b)
    PROVE  a.suppressCount = b.suppressCount
<1>1. Decided(a).suppressCount = a.suppressCount /\ Decided(b).suppressCount = b.suppressCount
  BY DEF Decided, Row
<1>2. QED
  BY <1>1

LEMMA ExpireTells ==
    ASSUME IInv, Timeline(db), expireCommit
    PROVE  Timeline(db')
<1> DEFINE k == reaper.seq
           row == db.rows[k]
           next == ApplyT6(reaper.snap, reaper.now, reaper.reason)
<1>1. /\ k \in Seqs /\ reaper.reason \in Expiries
      /\ reaper.snap \in Row /\ reaper.now \in Nat /\ row \in Row
      /\ TypeOK /\ Sound(db) /\ Pinned(row, reaper.snap) /\ Reapable(reaper.snap)
  BY DEF expireCommit, IInv, Targets, TypeOK, Reaper, DB, SnapInv
<1>2. CASE row.version = reaper.snap.version
  <2>1. db' = SweepCommit(db, k, next, <<"expired", k, 0>>, "expired")
    BY <1>2 DEF expireCommit
  <2>2. Decided(reaper.snap) = Decided(row)
    BY <1>1, <1>2 DEF Pinned
  <2>3. IsOpen(row) /\ reaper.snap.suppressCount = row.suppressCount
    BY <1>1, <2>2, DecidedColumns, DecidedCount DEF SameEpisode, Reapable, IsOpen
  <2>4. next \in Row
    <3>1. reaper.now \in Int
      BY <1>1
    <3>2. QED
      BY <1>1, <3>1, SweepTypes
  <2>5. /\ next.state = "closed" /\ next.resolveReason = reaper.reason
        /\ next.suppressed = FALSE /\ next.suppressCount = reaper.snap.suppressCount
    BY <1>1 DEF ApplyT6, Row
  <2> HIDE DEF next
  <2>6. Tells(row, next, "expired", 0)
    BY <1>1, <2>3, <2>5 DEF Tells
  <2>7. QED
    BY <1>1, <2>1, <2>3, <2>4, <2>5, <2>6, SweepTells
<1>3. CASE row.version # reaper.snap.version
  BY <1>3 DEF expireCommit
<1>4. QED
  BY <1>2, <1>3

LEMMA CloseTells ==
    ASSUME IInv, Timeline(db), closeDueCommit
    PROVE  Timeline(db')
<1> DEFINE k == closer.seq
           row == db.rows[k]
           next == ApplyCloseDue(closer.snap)
<1>1. /\ k \in Seqs /\ closer.snap \in Row /\ row \in Row
      /\ TypeOK /\ Sound(db) /\ Pinned(row, closer.snap) /\ IsOpen(closer.snap)
  BY DEF closeDueCommit, IInv, Targets, TypeOK, Closer, DB, SnapInv
<1>2. CASE row.version = closer.snap.version
  <2>1. db' = SweepCommit(db, k, next, <<"resolved", k, 0>>, "all_resolved")
    BY <1>2 DEF closeDueCommit
  <2>2. Decided(closer.snap) = Decided(row)
    BY <1>1, <1>2 DEF Pinned
  <2>3. IsOpen(row) /\ closer.snap.suppressCount = row.suppressCount
    BY <1>1, <2>2, DecidedColumns, DecidedCount DEF SameEpisode, IsOpen
  <2>4. next \in Row
    BY <1>1, SweepTypes, NoTimeType DEF Expiries
  <2>5. /\ next.state = "closed" /\ next.resolveReason = "upstream"
        /\ next.suppressed = FALSE /\ next.suppressCount = closer.snap.suppressCount
    BY <1>1 DEF ApplyCloseDue, Row
  <2> HIDE DEF next
  <2>6. Tells(row, next, "resolved", 0)
    BY <2>3, <2>5 DEF Tells
  <2>7. QED
    BY <1>1, <2>1, <2>3, <2>4, <2>5, <2>6, SweepTells
<1>3. CASE row.version # closer.snap.version
  BY <1>3 DEF closeDueCommit
<1>4. QED
  BY <1>2, <1>3

LEMMA AckTells ==
    ASSUME IInv, Timeline(db), setAckCommit
    PROVE  Timeline(db')
<1> DEFINE k == human.seq
           row == [db.rows[k] EXCEPT !.acked = human.ack]
           event == <<IF human.ack THEN "acknowledged" ELSE "unacknowledged", k, human.at>>
           e == Edge(db, k, row, event, IF human.ack THEN "acked" ELSE "unacked")
<1>1. k \in Seqs /\ db \in DB /\ db.rows[k] \in Row
  BY DEF setAckCommit, IInv, Targets, TypeOK, DB
<1>2. CASE db.rows[k].version = human.version
  <2>1. PICK a : db' = [e EXCEPT !.alert = a]
    BY <1>2 DEF setAckCommit
  <2>2. SameStory(row, db.rows[k])
    BY <1>1 DEF Row, SameStory
  <2>3. \A t \in Story, j \in Seqs, m \in Nat : event # <<t, j, m>>
    BY DEF Story
  <2> HIDE DEF row, event
  <2>4. e.rows = [db.rows EXCEPT ![k] = row] /\ e.n = db.n
        /\ e.events = db.events \cup {event}
    BY <1>1 DEF Edge, DB
  <2>5. db'.rows = e.rows /\ db'.n = e.n /\ db'.events = e.events
    BY <1>1, <2>1 DEF Edge, DB
  <2> HIDE DEF e
  <2>6. \A j \in Seqs : SameStory(db'.rows[j], db.rows[j])
    BY <1>1, <2>2, <2>4, <2>5 DEF SameStory, DB
  <2>7. db'.n = db.n /\ db'.events = db.events \cup {event}
    BY <2>4, <2>5
  <2>8. QED
    BY <2>3, <2>6, <2>7, TimelineSame
<1>3. CASE db.rows[k].version # human.version
  BY <1>3 DEF setAckCommit
<1>4. QED
  BY <1>2, <1>3

(***************************************************************************)
(* The theorem.                                                            *)
(***************************************************************************)
LEMMA TimelineInit == Init => TimelineInv
<1> SUFFICES ASSUME Init PROVE TimelineInv
  OBVIOUS
<1>1. db = EmptyDB /\ ~tx.on
  BY DEF Init, NoTx
<1>2. ASSUME NEW k \in Seqs PROVE Told(EmptyDB, k)
  <2>1. EmptyDB.rows[k] = NoRow /\ EmptyDB.n = 0 /\ EmptyDB.events = {}
    BY DEF EmptyDB
  <2>2. /\ NoRow.suppressed = FALSE /\ NoRow.resolveReason = "none" /\ NoRow.suppressCount = 0
    BY DEF NoRow
  <2>3. ~(k <= 0) /\ Lifted(NoRow) = 0 /\ \A m \in Nat : m \notin 1..0
    BY <2>2, BoundsAssumption DEF Seqs, Lifted
  <2>4. QED
    BY <2>1, <2>2, <2>3 DEF Told, Expiries
<1>3. QED
  BY <1>1, <1>2 DEF TimelineInv, Timeline

LEMMA TimelineKept ==
    ASSUME TimelineInv, UNCHANGED <<db, tx>>
    PROVE  TimelineInv'
BY DEF TimelineInv, Timeline, Told, Latest

LEMMA TimelineStep ==
    ASSUME IInv, TimelineInv, [Next]_vars
    PROVE  TimelineInv'
<1>1. TypeOK /\ TxInv /\ Timeline(db)
  BY DEF IInv, TimelineInv
<1>2. CASE Tick \/ Operator \/ setAckRead \/ UNCHANGED vars
  <2>1. UNCHANGED <<db, tx>>
    BY <1>2 DEF Tick, Operator, SetRetention, RegisterSource, RemoveSource, SetMaxSilence,
       SetHealth, setAckRead, vars
  <2>2. QED
    BY <2>1, TimelineKept
<1>3. CASE Observe
  <2>1. CASE ObserveAbort
    <3>1. db' = db /\ ~tx'.on
      BY <2>1 DEF ObserveAbort, NoTx
    <3>2. QED
      BY <1>1, <3>1 DEF TimelineInv
  <2>2. QED
    BY <1>1, <1>3, <2>1, BeginTells, OpenTells, ObserveTells, DropTells, CommitTells
       DEF Observe
<1>4. CASE Reap
  <2>1. CASE expireCommit
    <3>1. ~tx'.on /\ Timeline(db')
      BY <1>1, <2>1, ExpireTells DEF expireCommit
    <3>2. QED
      BY <3>1 DEF TimelineInv
  <2>2. CASE ~expireCommit
    <3>1. UNCHANGED <<db, tx>>
      BY <1>4, <2>2 DEF Reap, ReapBegin, SourceRemovedCandidates, GuardedCandidates,
         resolveSources, healthBySource, expireRead, ReapAbandon, ReapUnchanged
    <3>2. QED
      BY <3>1, TimelineKept
  <2>3. QED
    BY <2>1, <2>2
<1>5. CASE CloseDue
  <2>1. CASE closeDueCommit
    <3>1. ~tx'.on /\ Timeline(db')
      BY <1>1, <2>1, CloseTells DEF closeDueCommit
    <3>2. QED
      BY <3>1 DEF TimelineInv
  <2>2. CASE ~closeDueCommit
    <3>1. UNCHANGED <<db, tx>>
      BY <1>5, <2>2 DEF CloseDue, CloseDueCandidates, closeDueRead, CloseAbandon,
         CloseUnchanged
    <3>2. QED
      BY <3>1, TimelineKept
  <2>3. QED
    BY <2>1, <2>2
<1>6. CASE setAckCommit
  <2>1. ~tx'.on /\ Timeline(db')
    BY <1>1, <1>6, AckTells DEF setAckCommit
  <2>2. QED
    BY <2>1 DEF TimelineInv
<1>7. QED
  BY <1>2, <1>3, <1>4, <1>5, <1>6 DEF Next

LEMMA TimelineReads ==
    ASSUME TypeOK, Sound(db), Timeline(db)
    PROVE  TimelineTellsTheStory
<1> DEFINE Keys(k, t) == {e[3] : e \in {x \in db.events : x[1] = t /\ x[2] = k}}
<1> SUFFICES ASSUME NEW k \in 1..db.n
             PROVE  /\ <<"opened", k, 0>> \in db.events
                    /\ <<"resolved", k, 0>> \in db.events <=> db.rows[k].resolveReason = "upstream"
                    /\ <<"expired", k, 0>> \in db.events <=> db.rows[k].resolveReason \in Expiries
                    /\ Keys(k, "suppressed") = 1..db.rows[k].suppressCount
                    /\ IsOpen(db.rows[k]) => Keys(k, "unsuppressed") =
                         1..(db.rows[k].suppressCount - (IF db.rows[k].suppressed THEN 1 ELSE 0))
  BY DEF TimelineTellsTheStory
<1>1. db \in DB /\ k \in Seqs /\ k <= db.n /\ db.rows[k] \in Row
  BY BoundsAssumption DEF TypeOK, DB, Seqs
<1>2. Told(db, k)
  BY <1>1 DEF Timeline
<1>3. db.rows[k].suppressCount \in Nat
  BY <1>1 DEF Row
<1>4. ASSUME NEW t, NEW b \in Int,
             \A m \in Nat : <<t, k, m>> \in db.events <=> m \in 1..b
      PROVE  Keys(k, t) = 1..b
  <2>1. \A x \in db.events : x = <<x[1], x[2], x[3]>> /\ x[3] \in Nat
    BY <1>1 DEF DB
  <2>2. ASSUME NEW m \in Keys(k, t) PROVE m \in 1..b
    <3>1. PICK x \in db.events : x[1] = t /\ x[2] = k /\ m = x[3]
      OBVIOUS
    <3>2. <<t, k, m>> \in db.events /\ m \in Nat
      BY <2>1, <3>1
    <3>3. QED
      BY <1>4, <3>2
  <2>3. ASSUME NEW m \in 1..b PROVE m \in Keys(k, t)
    <3>1. m \in Nat
      BY <1>4
    <3>2. <<t, k, m>> \in db.events
      BY <1>4, <3>1
    <3>3. QED
      BY <3>2
  <2>4. QED
    BY <2>2, <2>3
<1>5. Lifted(db.rows[k]) \in Int
      /\ Lifted(db.rows[k]) =
           db.rows[k].suppressCount - (IF db.rows[k].suppressed THEN 1 ELSE 0)
  BY <1>3 DEF Lifted
<1> HIDE DEF Keys
<1>6. Keys(k, "suppressed") = 1..db.rows[k].suppressCount
  BY <1>2, <1>3, <1>4 DEF Told
<1>7. IsOpen(db.rows[k]) => Keys(k, "unsuppressed") = 1..Lifted(db.rows[k])
  BY <1>2, <1>4, <1>5 DEF Told, IsOpen
<1>8. QED
  BY <1>1, <1>2, <1>5, <1>6, <1>7 DEF Told

\* The dedupe keys of appendEvent neither collapse two facts nor split one, however
\* often an episode is suppressed, whoever ends it and whichever writer lost a race:
\* one opening, one end of the right kind, one entry per suppression and per lifting.
THEOREM TimelineIsTold == Spec => []TimelineTellsTheStory
<1>1. IInv /\ TimelineInv => TimelineTellsTheStory
  BY TimelineReads DEF IInv, TimelineInv
<1>2. IInv /\ TimelineInv /\ [Next]_vars => TimelineInv'
  BY TimelineStep
<1>3. QED
  BY <1>1, <1>2, TimelineInit, Invariance, PTL DEF Spec
=============================================================================
