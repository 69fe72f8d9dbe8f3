------------------------ MODULE CaseLifecycleSafety ------------------------
(***************************************************************************)
(* The safety invariants and the action properties of CaseLifecycle, for   *)
(* every value of the constants.  The invariant carried through the steps  *)
(* says what the rows are (Sound), what the observe transaction has done   *)
(* to them so far (TxInv), and what every pending writer still knows about *)
(* the row it read (SnapInv).                                              *)
(***************************************************************************)
EXTENDS CaseLifecycleProofs

\* The columns of an episode that only an edge of the machine moves.
SameEpisode(c, r) ==
    /\ c.state = r.state /\ c.suppressed = r.suppressed
    /\ c.startedAt = r.startedAt /\ c.endedAt = r.endedAt
    /\ c.resolveReason = r.resolveReason
    /\ c.pendingAt = r.pendingAt /\ c.pendingEndAt = r.pendingEndAt

\* What one writer may make of a row another has read.
Follows(old, new) ==
    /\ old.state = "closed" => new = old
    /\ Decided(new) = Decided(old) \/ new.version > old.version
    /\ new.lastObservedAt >= old.lastObservedAt

\* A snapshot is the row, or the row has moved on and the version shows it.
Pinned(row, snap) ==
    /\ snap.version <= row.version
    /\ snap.version = row.version => Decided(snap) = Decided(row)

WordSound(c, word) ==
    word = "resolved" <=> ClosePending(c) \/ c.resolveReason = "upstream"

EpisodeSound(d, k) ==
    /\ RowSound(d.rows[k])
    /\ d.rows[k].state = "none" <=> k > d.n
    /\ d.rows[k].state = "none" => d.rows[k] = NoRow
    /\ IsOpen(d.rows[k]) => k = d.n
    /\ WordSound(d.rows[k], d.word[k])
    /\ d.notices[<<"fired", k>>] = IF k <= d.n THEN 1 ELSE 0
    /\ d.notices[<<"all_resolved", k>>] + d.notices[<<"expired", k>>]
         = IF d.rows[k].state = "closed" THEN 1 ELSE 0

Sound(d) == \A k \in Seqs : EpisodeSound(d, k)

TxInv ==
    tx.on =>
      /\ Sound(tx.db)
      /\ SameEpisode(tx.mem, Latest(tx.db))
      /\ \A k \in Seqs :
           /\ Follows(db.rows[k], tx.db.rows[k])
           /\ IsOpen(db.rows[k]) => tx.db.rows[k].resolveReason \notin Expiries
      /\ tx.db.alert.known
      /\ tx.db.alert.total + tx.opened = tx.db.n
      /\ ~tx.touched => /\ tx.db.n = db.n /\ tx.db.rows = db.rows
                        /\ tx.opened = 0
                        /\ db.n > 0 => tx.db.alert = db.alert

ProjInv ==
    /\ db.alert.total = db.n
    /\ db.n > 0 => db.alert.known
    /\ ProjectionAgrees

SnapInv ==
    /\ reaper.pc = "commit" =>
         /\ Pinned(db.rows[reaper.seq], reaper.snap) /\ Reapable(reaper.snap)
         /\ reaper.reason = "timeout" => PastEnd(reaper.snap, reaper.now)
         /\ reaper.reason = "silent" =>
              \E m \in Silences \ {0} : reaper.snap.lastObservedAt + m < reaper.now
    /\ closer.pc = "commit" =>
         /\ Pinned(db.rows[closer.seq], closer.snap)
         /\ IsOpen(closer.snap) /\ ClosePending(closer.snap)
    /\ human.pc = "commit" =>
         /\ human.version <= db.rows[human.seq].version
         /\ human.version = db.rows[human.seq].version =>
              /\ IsOpen(db.rows[human.seq])
              /\ human.alert.state = "firing" /\ human.alert.total = db.n

\* What the tick has proven of the sources it will name as its grounds.
SourceInv ==
    /\ \A s \in Live : sources[s].maxSilence \in Silences
    /\ reaper.pc # "idle" => reaper.now <= now
    /\ reaper.pc = "health" => \A s \in reaper.proven : sources[s].status # "absent"
    /\ reaper.pc = "expire" /\ reaper.reason # "source_removed" =>
         \A s \in reaper.proven :
            /\ sources[s].status # "absent"
            /\ sources[s].healthy \/ sources[s].sickAt >= reaper.now

IInv == /\ TypeOK /\ Targets
        /\ Sound(db) /\ TxInv /\ ProjInv /\ SnapInv /\ SourceInv

(***************************************************************************)
(* Rows: what each edge makes of a sound row.  The machine computes next   *)
(* from c, which agrees with the row on the episode and nothing more.      *)
(***************************************************************************)
LEMMA NoRowSound == RowSound(NoRow) /\ NoRow.state = "none" /\ NoRow.version = 0
                      /\ NoRow.lastObservedAt = NoTime
BY DEF RowSound, NoRow, NoTime, ClosePending, IsOpen

LEMMA OpenedSound ==
    ASSUME NEW at \in Nat, NEW ends \in Int
    PROVE  /\ RowSound(OpenedRow(at, ends)) /\ IsOpen(OpenedRow(at, ends))
           /\ ~ClosePending(OpenedRow(at, ends))
           /\ OpenedRow(at, ends).resolveReason = "none"
           /\ Follows(NoRow, OpenedRow(at, ends))
<1>1. NoRow \in Row /\ OpenedRow(at, ends) \in Row
    BY RowTypes
<1>2. /\ OpenedRow(at, ends).state = "open"
      /\ OpenedRow(at, ends).startedAt = at /\ OpenedRow(at, ends).lastObservedAt = at
      /\ OpenedRow(at, ends).endedAt = NoTime /\ OpenedRow(at, ends).version = 1
      /\ OpenedRow(at, ends).resolveReason = "none"
      /\ OpenedRow(at, ends).pendingAt = NoTime /\ OpenedRow(at, ends).pendingEndAt = NoTime
      /\ OpenedRow(at, ends).suppressed = FALSE
    BY DEF OpenedRow, NoRow
<1> QED
    BY <1>1, <1>2, NoRowSound DEF RowSound, IsOpen, ClosePending, Follows, NoTime

\* T2 writes the row directly; the machine's copy keeps up with it.
LEMMA ObserveSound ==
    ASSUME NEW row \in Row, NEW c \in Row, NEW at \in Int, NEW ends \in Int,
           RowSound(row), IsOpen(row), SameEpisode(c, row)
    PROVE  /\ RowSound(observeSQL(row, at, ends)) /\ IsOpen(observeSQL(row, at, ends))
           /\ ~ClosePending(observeSQL(row, at, ends))
           /\ observeSQL(row, at, ends).resolveReason = "none"
           /\ Follows(row, observeSQL(row, at, ends))
           /\ SameEpisode(ApplyT2(c, at, ends), observeSQL(row, at, ends))
<1> DEFINE new == observeSQL(row, at, ends)
           mem == ApplyT2(c, at, ends)
<1>1. /\ new.state = row.state /\ new.suppressed = row.suppressed
      /\ new.startedAt = row.startedAt /\ new.endedAt = row.endedAt
      /\ new.resolveReason = row.resolveReason
      /\ new.pendingAt = NoTime /\ new.pendingEndAt = NoTime
      /\ new.version = row.version + 1
      /\ new.lastObservedAt = Max2(row.lastObservedAt, at)
    BY DEF observeSQL, Row
<1>2. /\ mem.state = c.state /\ mem.suppressed = c.suppressed
      /\ mem.startedAt = c.startedAt /\ mem.endedAt = c.endedAt
      /\ mem.resolveReason = c.resolveReason
      /\ mem.pendingAt = NoTime /\ mem.pendingEndAt = NoTime
    BY DEF ApplyT2, Observed, Row
<1>3. new.lastObservedAt >= row.lastObservedAt /\ new.version > row.version
    BY <1>1, Max2Type, SMTT(30) DEF Row
<1>4. row.lastObservedAt \in Int /\ new.lastObservedAt \in Int /\ row.startedAt \in Int
    BY <1>1, Max2Type DEF Row
<1> HIDE DEF new, mem
<1>5. RowSound(new)
    BY <1>1, <1>3, <1>4 DEF RowSound, IsOpen, ClosePending
<1>6. SameEpisode(mem, new)
    BY <1>1, <1>2 DEF SameEpisode
<1>7. Follows(row, new)
    BY <1>3 DEF Follows, IsOpen
<1> QED
    BY <1>1, <1>5, <1>6, <1>7 DEF new, mem, IsOpen, ClosePending, RowSound

LEMMA TransitionColumns ==
    ASSUME NEW row \in Row, NEW next \in Row
    PROVE  /\ transitionSQL(row, next).state = next.state
           /\ transitionSQL(row, next).suppressed = next.suppressed
           /\ transitionSQL(row, next).startedAt = row.startedAt
           /\ transitionSQL(row, next).endedAt = next.endedAt
           /\ transitionSQL(row, next).resolveReason = next.resolveReason
           /\ transitionSQL(row, next).pendingAt = next.pendingAt
           /\ transitionSQL(row, next).pendingEndAt = next.pendingEndAt
           /\ transitionSQL(row, next).version = row.version + 1
           /\ transitionSQL(row, next).lastObservedAt
                = Max2(row.lastObservedAt, next.lastObservedAt)
BY DEF transitionSQL, Row

\* The row transitionSQL writes is sound and is the episode the machine computed.
Persists(row, next) ==
    /\ RowSound(transitionSQL(row, next))
    /\ SameEpisode(next, transitionSQL(row, next))
    /\ Follows(row, transitionSQL(row, next))

\* A transition from a copy of the episode is as good as one from the row.
LEMMA TransitionSound ==
    ASSUME NEW row \in Row, NEW next \in Row, RowSound(row), IsOpen(row),
           next.startedAt = row.startedAt,
           next.state \in {"open", "closed"},
           next.state = "closed" <=> next.endedAt # NoTime,
           next.state = "closed" <=> next.resolveReason # "none",
           next.endedAt # NoTime => next.endedAt >= row.startedAt,
           next.suppressed => next.state = "open",
           next.pendingAt # NoTime <=> next.pendingEndAt # NoTime,
           next.pendingAt # NoTime => /\ next.state = "open" /\ ~next.suppressed
                                      /\ next.pendingEndAt >= row.startedAt
    PROVE  Persists(row, next)
<1> DEFINE new == transitionSQL(row, next)
<1>1. /\ new.state = next.state /\ new.suppressed = next.suppressed
      /\ new.startedAt = row.startedAt /\ new.endedAt = next.endedAt
      /\ new.resolveReason = next.resolveReason
      /\ new.pendingAt = next.pendingAt /\ new.pendingEndAt = next.pendingEndAt
      /\ new.version = row.version + 1
      /\ new.lastObservedAt = Max2(row.lastObservedAt, next.lastObservedAt)
    BY TransitionColumns
<1>2. /\ new.lastObservedAt \in Int /\ new.lastObservedAt >= row.lastObservedAt
      /\ new.version > row.version
    BY <1>1, Max2Type DEF Row
<1> HIDE DEF new
<1>3. row.lastObservedAt \in Int /\ row.startedAt \in Int
    BY DEF Row
<1>4. new.lastObservedAt >= new.startedAt
    BY <1>1, <1>2, <1>3 DEF RowSound
<1>5. RowSound(new)
    BY <1>1, <1>4 DEF RowSound, IsOpen, ClosePending
<1>6. SameEpisode(next, new) /\ Follows(row, new)
    BY <1>1, <1>2 DEF SameEpisode, Follows, IsOpen
<1> QED
    BY <1>5, <1>6 DEF new, Persists

\* The edges the observe transaction decides from its copy c of the row.
LEMMA SuppressSound ==
    ASSUME NEW row \in Row, NEW c \in Row, NEW at \in Int, NEW ends \in Int,
           RowSound(row), IsOpen(row), SameEpisode(c, row)
    PROVE  /\ ~c.suppressed => Persists(row, ApplyT3(c, at, ends))
           /\ c.suppressed => Persists(row, ApplyT4(c, at, ends))
<1>1. /\ c.state = "open" /\ c.endedAt = NoTime /\ c.resolveReason = "none"
      /\ c.startedAt = row.startedAt
    BY DEF SameEpisode, RowSound, IsOpen
<1>2. CASE ~c.suppressed
  <2>1. PICK t \in Row : t = ApplyT3(c, at, ends)
    BY EdgeTypes
  <2>2. /\ t.state = "open" /\ t.endedAt = NoTime /\ t.resolveReason = "none"
        /\ t.startedAt = row.startedAt
        /\ t.pendingAt = NoTime /\ t.pendingEndAt = NoTime
    BY <1>1, <2>1 DEF ApplyT3, Observed, Row
  <2> QED
    BY <1>2, <2>1, <2>2, TransitionSound
<1>3. CASE c.suppressed
  <2>1. PICK t \in Row : t = ApplyT4(c, at, ends)
    BY EdgeTypes
  <2>2. c.pendingAt = NoTime /\ c.pendingEndAt = NoTime
    BY <1>3 DEF SameEpisode, RowSound, ClosePending
  <2>3. /\ t.state = "open" /\ t.endedAt = NoTime /\ t.resolveReason = "none"
        /\ t.startedAt = row.startedAt
        /\ t.pendingAt = NoTime /\ t.pendingEndAt = NoTime
    BY <1>1, <2>1, <2>2 DEF ApplyT4, Observed, Row
  <2> QED
    BY <1>3, <2>1, <2>3, TransitionSound
<1> QED
    BY <1>2, <1>3 DEF Row

\* A resolve, deferred or not.  The end is upstream's claim, never before the start.
LEMMA ResolveSound ==
    ASSUME NEW row \in Row, NEW c \in Row, NEW at \in Nat, NEW ends \in Int,
           NEW occurred \in Nat, NEW w \in Nat,
           RowSound(row), IsOpen(row), SameEpisode(c, row)
    PROVE  /\ ~c.suppressed =>
                /\ Persists(row, ApplyT5Defer(c, at, ends, occurred, w))
                /\ ClosePending(ApplyT5Defer(c, at, ends, occurred, w))
                /\ IsOpen(ApplyT5Defer(c, at, ends, occurred, w))
           /\ Persists(row, ApplyT5(c, at, ends, occurred))
           /\ ApplyT5(c, at, ends, occurred).state = "closed"
           /\ ApplyT5(c, at, ends, occurred).resolveReason = "upstream"
<1>1. /\ c.state = "open" /\ c.endedAt = NoTime /\ c.resolveReason = "none"
      /\ c.startedAt = row.startedAt
    BY DEF SameEpisode, RowSound, IsOpen
<1>2. PICK e \in Int : e = Max2(occurred, c.startedAt) /\ e >= 0 /\ e >= row.startedAt
  <2>1. occurred \in Int /\ c.startedAt \in Int
    BY DEF Row
  <2>2. PICK e \in Int : e = Max2(occurred, c.startedAt)
    BY <2>1, Max2Type
  <2>3. e >= occurred /\ e >= c.startedAt
    BY <2>1, <2>2, Max2Type
  <2> QED
    BY <1>1, <2>1, <2>2, <2>3
<1>3. e # NoTime
    BY <1>2 DEF NoTime
<1>4. ASSUME ~c.suppressed
      PROVE  /\ Persists(row, ApplyT5Defer(c, at, ends, occurred, w))
             /\ ClosePending(ApplyT5Defer(c, at, ends, occurred, w))
             /\ IsOpen(ApplyT5Defer(c, at, ends, occurred, w))
  <2>1. PICK t \in Row : t = ApplyT5Defer(c, at, ends, occurred, w)
    <3>1. at \in Int /\ occurred \in Int /\ w \in Int
        OBVIOUS
    <3> QED
        BY <3>1, ResolveTypes
  <2>2. PICK p \in Int : p = at + w /\ p >= 0
    OBVIOUS
  <2>3. /\ t.state = "open" /\ t.endedAt = NoTime /\ t.resolveReason = "none"
        /\ t.startedAt = row.startedAt /\ t.suppressed = c.suppressed
        /\ t.pendingAt = p /\ t.pendingEndAt = e
    BY <1>1, <1>2, <2>1, <2>2 DEF ApplyT5Defer, Observed, Row
  <2>4. t.pendingAt # NoTime
    BY <2>2, <2>3 DEF NoTime
  <2> QED
    BY <1>2, <1>3, <1>4, <2>1, <2>3, <2>4, TransitionSound DEF ClosePending, IsOpen
<1>5. PICK t \in Row : t = ApplyT5(c, at, ends, occurred)
  <2>1. at \in Int /\ occurred \in Int
    OBVIOUS
  <2> QED
    BY <2>1, ResolveTypes
<1>6. /\ t.state = "closed" /\ t.endedAt = e /\ t.resolveReason = "upstream"
      /\ t.startedAt = row.startedAt /\ t.suppressed = FALSE
      /\ t.pendingAt = NoTime /\ t.pendingEndAt = NoTime
    BY <1>1, <1>2, <1>5 DEF ApplyT5, Observed, Row
<1> QED
    BY <1>2, <1>3, <1>4, <1>5, <1>6, TransitionSound

\* The edges of the two sweeps, decided from a snapshot that still stands.
LEMMA SweepSound ==
    ASSUME NEW row \in Row, NEW c \in Row, RowSound(row), IsOpen(row), SameEpisode(c, row)
    PROVE  /\ \A at \in Nat, reason \in Expiries :
                ~ClosePending(c) =>
                  /\ Persists(row, ApplyT6(c, at, reason))
                  /\ ApplyT6(c, at, reason).state = "closed"
                  /\ ApplyT6(c, at, reason).resolveReason = reason
                  /\ ~ClosePending(ApplyT6(c, at, reason))
           /\ ClosePending(c) =>
                /\ Persists(row, ApplyCloseDue(c))
                /\ ApplyCloseDue(c).state = "closed"
                /\ ApplyCloseDue(c).resolveReason = "upstream"
<1>1. /\ c.state = "open" /\ c.endedAt = NoTime /\ c.resolveReason = "none"
      /\ c.startedAt = row.startedAt
    BY DEF SameEpisode, RowSound, IsOpen
<1>2. ASSUME NEW at \in Nat, NEW reason \in Expiries, ~ClosePending(c)
      PROVE  /\ Persists(row, ApplyT6(c, at, reason))
             /\ ApplyT6(c, at, reason).state = "closed"
             /\ ApplyT6(c, at, reason).resolveReason = reason
             /\ ~ClosePending(ApplyT6(c, at, reason))
  <2>1. at \in Int /\ c.startedAt \in Int
    BY DEF Row
  <2>2. PICK e \in Int : e = Max2(at, c.startedAt)
    BY <2>1, Max2Type
  <2>3. e >= at /\ e >= c.startedAt
    BY <2>1, <2>2, Max2Type
  <2>4. e # NoTime /\ e >= row.startedAt
    BY <1>1, <2>1, <2>2, <2>3 DEF NoTime
  <2>5. PICK t \in Row : t = ApplyT6(c, at, reason)
    BY <2>1, SweepTypes
  <2>6. c.pendingAt = NoTime /\ c.pendingEndAt = NoTime
    BY <1>2 DEF SameEpisode, RowSound, ClosePending
  <2>7. /\ t.state = "closed" /\ t.endedAt = e /\ t.resolveReason = reason
        /\ t.startedAt = row.startedAt /\ t.suppressed = FALSE
        /\ t.pendingAt = NoTime /\ t.pendingEndAt = NoTime
    BY <1>1, <2>2, <2>5, <2>6 DEF ApplyT6, Row
  <2>8. reason # "none"
    BY DEF Expiries
  <2> QED
    BY <2>4, <2>5, <2>7, <2>8, TransitionSound DEF ClosePending
<1>3. ASSUME ClosePending(c)
      PROVE  /\ Persists(row, ApplyCloseDue(c))
             /\ ApplyCloseDue(c).state = "closed"
             /\ ApplyCloseDue(c).resolveReason = "upstream"
  <2>1. PICK t \in Row : t = ApplyCloseDue(c)
    BY SweepTypes, NoTimeType DEF Expiries
  <2>2. c.pendingEndAt # NoTime /\ c.pendingEndAt >= row.startedAt
    BY <1>3 DEF SameEpisode, RowSound, ClosePending
  <2>3. /\ t.state = "closed" /\ t.endedAt = c.pendingEndAt
        /\ t.resolveReason = "upstream"
        /\ t.startedAt = row.startedAt /\ t.suppressed = FALSE
        /\ t.pendingAt = NoTime /\ t.pendingEndAt = NoTime
    BY <1>1, <2>1 DEF ApplyCloseDue, Row
  <2> QED
    BY <2>1, <2>2, <2>3, TransitionSound
<1> QED
    BY <1>2, <1>3

(***************************************************************************)
(* Databases: replacing the row of the open episode keeps Sound.           *)
(***************************************************************************)
EndNotices(d, k) == d.notices[<<"all_resolved", k>>] + d.notices[<<"expired", k>>]

LEMMA HearColumns ==
    ASSUME NEW d \in DB, NEW status
    PROVE  /\ Hear(d, status).rows = d.rows /\ Hear(d, status).n = d.n
           /\ Hear(d, status).alert = d.alert /\ Hear(d, status).notices = d.notices
           /\ Hear(d, status).word = IF d.n > 0 /\ IsOpen(d.rows[d.n])
                                       THEN [d.word EXCEPT ![d.n] = status] ELSE d.word
BY DEF Hear, DB

LEMMA EdgeNotices ==
    ASSUME NEW d \in DB, NEW k \in Seqs, NEW row, NEW event, NEW reason \in Reasons,
           NEW j \in Seqs
    PROVE  /\ Edge(d, k, row, event, reason).notices[<<"fired", j>>] =
                d.notices[<<"fired", j>>] + IF reason = "fired" /\ j = k THEN 1 ELSE 0
           /\ EndNotices(Edge(d, k, row, event, reason), j) =
                EndNotices(d, j)
                  + IF reason \in {"all_resolved", "expired"} /\ j = k THEN 1 ELSE 0
<1> DEFINE e == Edge(d, k, row, event, reason)
<1>1. e.notices = [d.notices EXCEPT ![<<reason, k>>] = @ + 1]
    BY DEF Edge, DB
<1>2. d.notices \in [Reasons \X Seqs -> Nat]
    BY DEF DB
<1>3. \A r \in Reasons : e.notices[<<r, j>>] =
        d.notices[<<r, j>>] + IF r = reason /\ j = k THEN 1 ELSE 0
    BY <1>1, <1>2
<1>4. \A r \in Reasons : d.notices[<<r, j>>] \in Nat
    BY <1>2
<1> HIDE DEF e
<1>5. "fired" \in Reasons /\ "all_resolved" \in Reasons /\ "expired" \in Reasons
    BY DEF Reasons
<1> QED
    BY <1>3, <1>4, <1>5 DEF EndNotices, e

LEMMA ReplaceSound ==
    ASSUME NEW d \in DB, NEW e \in DB, NEW row \in Row,
           Sound(d), d.n \in Seqs, IsOpen(d.rows[d.n]),
           e.n = d.n, e.rows = [d.rows EXCEPT ![d.n] = row],
           \A j \in Seqs \ {d.n} : e.word[j] = d.word[j],
           RowSound(row), row.state # "none", WordSound(row, e.word[d.n]),
           \A j \in Seqs : e.notices[<<"fired", j>>] = d.notices[<<"fired", j>>],
           \A j \in Seqs : EndNotices(e, j) = EndNotices(d, j)
                 + IF j = d.n /\ row.state = "closed" THEN 1 ELSE 0
    PROVE  Sound(e)
<1> SUFFICES ASSUME NEW j \in Seqs PROVE EpisodeSound(e, j)
    BY DEF Sound
<1>1. EpisodeSound(d, j)
    BY DEF Sound
<1>2. d.notices[<<"all_resolved", j>>] \in Nat /\ d.notices[<<"expired", j>>] \in Nat
    BY DEF DB, Reasons
<1>3. CASE j = d.n
  <2>1. e.rows[j] = row
    BY <1>3 DEF DB
  <2>2. EndNotices(d, j) = 0
    BY <1>1, <1>3 DEF EpisodeSound, EndNotices, IsOpen
  <2>3. EndNotices(e, j) = IF row.state = "closed" THEN 1 ELSE 0
    BY <1>3, <2>2
  <2>4. ~(j > e.n) /\ j <= e.n
    BY <1>3, BoundsAssumption DEF Seqs
  <2> QED
    BY <1>1, <1>3, <2>1, <2>3, <2>4 DEF EpisodeSound, EndNotices
<1>4. CASE j # d.n
  <2>1. e.rows[j] = d.rows[j] /\ e.word[j] = d.word[j]
    BY <1>4 DEF DB
  <2>2. EndNotices(e, j) = EndNotices(d, j)
    BY <1>2, <1>4 DEF EndNotices
  <2> QED
    BY <1>1, <1>4, <2>1, <2>2 DEF EpisodeSound, EndNotices
<1> QED
    BY <1>3, <1>4

\* One edge on the open episode of a database that differs from d in history only.
LEMMA EdgeSound ==
    ASSUME NEW d \in DB, NEW h \in DB, NEW row \in Row, NEW reason \in Reasons,
           NEW event \in EventTypes \X (0..MaxCases) \X Nat,
           Sound(d), d.n \in Seqs, IsOpen(d.rows[d.n]),
           h.rows = d.rows, h.n = d.n, h.notices = d.notices,
           \A j \in Seqs \ {d.n} : h.word[j] = d.word[j],
           RowSound(row), row.state # "none", WordSound(row, h.word[d.n]),
           reason # "fired",
           row.state = "closed" <=> reason \in {"all_resolved", "expired"}
    PROVE  Sound(Edge(h, d.n, row, event, reason))
<1> DEFINE e == Edge(h, d.n, row, event, reason)
<1>1. e \in DB
    BY EdgeType
<1>2. e.n = d.n /\ e.rows = [d.rows EXCEPT ![d.n] = row] /\ e.word = h.word
    BY DEF Edge, DB
<1>3. \A j \in Seqs : EndNotices(h, j) = EndNotices(d, j)
    BY DEF EndNotices
<1>4. ASSUME NEW j \in Seqs
      PROVE  /\ e.notices[<<"fired", j>>] = d.notices[<<"fired", j>>]
             /\ EndNotices(e, j) = EndNotices(d, j)
                    + IF j = d.n /\ row.state = "closed" THEN 1 ELSE 0
  <2>1. /\ e.notices[<<"fired", j>>] =
             h.notices[<<"fired", j>>] + IF reason = "fired" /\ j = d.n THEN 1 ELSE 0
        /\ EndNotices(e, j) = EndNotices(h, j)
             + IF reason \in {"all_resolved", "expired"} /\ j = d.n THEN 1 ELSE 0
    BY EdgeNotices
  <2>2. d.notices[<<"fired", j>>] \in Nat
    BY DEF DB, Reasons
  <2> HIDE DEF e
  <2> QED
    BY <1>3, <2>1, <2>2
<1> HIDE DEF e
<1>5. \A j \in Seqs : e.notices[<<"fired", j>>] = d.notices[<<"fired", j>>]
    BY <1>4
<1>6. \A j \in Seqs : EndNotices(e, j) = EndNotices(d, j)
                            + IF j = d.n /\ row.state = "closed" THEN 1 ELSE 0
    BY <1>4
<1>7. Sound(e)
    BY <1>1, <1>2, <1>5, <1>6, ReplaceSound
<1> QED
    BY <1>7 DEF e

LEMMA SetRowSound ==
    ASSUME NEW d \in DB, NEW h \in DB, NEW row \in Row,
           Sound(d), d.n \in Seqs, IsOpen(d.rows[d.n]),
           h.rows = d.rows, h.n = d.n, h.notices = d.notices,
           \A j \in Seqs \ {d.n} : h.word[j] = d.word[j],
           RowSound(row), row.state = "open", WordSound(row, h.word[d.n])
    PROVE  Sound([h EXCEPT !.rows[d.n] = row])
<1> DEFINE e == [h EXCEPT !.rows[d.n] = row]
<1>1. e \in DB
    BY SetRowType
<1>2. e.n = d.n /\ e.rows = [d.rows EXCEPT ![d.n] = row] /\ e.word = h.word
        /\ e.notices = d.notices
    BY DEF DB
<1> HIDE DEF e
<1>3. \A j \in Seqs : EndNotices(e, j) = EndNotices(d, j) /\ EndNotices(d, j) \in Nat
    BY <1>2 DEF EndNotices, DB, Reasons
<1>4. \A j \in Seqs : EndNotices(e, j) = EndNotices(d, j)
                            + IF j = d.n /\ row.state = "closed" THEN 1 ELSE 0
    BY <1>3
<1>5. Sound(e)
    BY <1>1, <1>2, <1>4, ReplaceSound
<1> QED
    BY <1>5 DEF e

LEMMA OpenSound ==
    ASSUME NEW d \in DB, NEW e \in DB, NEW row \in Row, NEW n \in Seqs,
           Sound(d), n = d.n + 1, d.n > 0 => ~IsOpen(d.rows[d.n]),
           e.n = n, e.rows = [d.rows EXCEPT ![n] = row],
           \A j \in Seqs \ {n} : e.word[j] = d.word[j],
           RowSound(row), IsOpen(row), WordSound(row, e.word[n]),
           \A j \in Seqs : e.notices[<<"fired", j>>] =
                d.notices[<<"fired", j>>] + IF j = n THEN 1 ELSE 0,
           \A j \in Seqs : EndNotices(e, j) = EndNotices(d, j)
    PROVE  Sound(e)
<1> SUFFICES ASSUME NEW j \in Seqs PROVE EpisodeSound(e, j)
    BY DEF Sound
<1>1. EpisodeSound(d, j)
    BY DEF Sound
<1>2. d.n \in Nat /\ n \in Int /\ j \in Int /\ j >= 1
    BY BoundsAssumption DEF DB, Seqs
<1>3. CASE j = n
  <2>1. e.rows[j] = row
    BY <1>3 DEF DB
  <2>2. d.rows[j].state = "none" /\ d.notices[<<"fired", j>>] = 0 /\ EndNotices(d, j) = 0
    BY <1>1, <1>2, <1>3 DEF EpisodeSound, EndNotices
  <2>3. e.notices[<<"fired", j>>] = 1 /\ EndNotices(e, j) = 0
    BY <1>3, <2>2
  <2>4. ~(j > e.n) /\ j <= e.n
    BY <1>2, <1>3
  <2> QED
    BY <1>3, <2>1, <2>3, <2>4 DEF EpisodeSound, EndNotices, IsOpen
<1>4. CASE j # n
  <2>1. e.rows[j] = d.rows[j] /\ e.word[j] = d.word[j]
    BY <1>4 DEF DB
  <2>2. d.notices[<<"fired", j>>] \in Nat
    BY DEF DB, Reasons
  <2>3. e.notices[<<"fired", j>>] = d.notices[<<"fired", j>>]
    BY <1>4, <2>2
  <2>4. EndNotices(e, j) = EndNotices(d, j)
    OBVIOUS
  <2>5. /\ j > e.n <=> j > d.n
        /\ j <= e.n <=> j <= d.n
    BY <1>2, <1>4
  <2>6. ~IsOpen(d.rows[j])
    BY <1>1, <1>2 DEF EpisodeSound
  <2> QED
    BY <1>1, <2>1, <2>3, <2>4, <2>5, <2>6 DEF EpisodeSound, EndNotices
<1> QED
    BY <1>3, <1>4

(***************************************************************************)
(* What a writer that read a row still knows when another has written it.  *)
(***************************************************************************)
LEMMA DecidedColumns ==
    ASSUME NEW a \in Row, NEW b \in Row, Decided(a) = Decided(b)
    PROVE  /\ SameEpisode(a, b) /\ a.version = b.version
           /\ a.lastObservedAt = b.lastObservedAt /\ a.sourceEndsAt = b.sourceEndsAt
<1>1. /\ Decided(a).state = a.state /\ Decided(b).state = b.state
      /\ Decided(a).suppressed = a.suppressed /\ Decided(b).suppressed = b.suppressed
      /\ Decided(a).startedAt = a.startedAt /\ Decided(b).startedAt = b.startedAt
      /\ Decided(a).endedAt = a.endedAt /\ Decided(b).endedAt = b.endedAt
      /\ Decided(a).resolveReason = a.resolveReason
      /\ Decided(b).resolveReason = b.resolveReason
      /\ Decided(a).pendingAt = a.pendingAt /\ Decided(b).pendingAt = b.pendingAt
      /\ Decided(a).pendingEndAt = a.pendingEndAt
      /\ Decided(b).pendingEndAt = b.pendingEndAt
      /\ Decided(a).version = a.version /\ Decided(b).version = b.version
      /\ Decided(a).lastObservedAt = a.lastObservedAt
      /\ Decided(b).lastObservedAt = b.lastObservedAt
      /\ Decided(a).sourceEndsAt = a.sourceEndsAt /\ Decided(b).sourceEndsAt = b.sourceEndsAt
    BY DEF Decided, Row
<1> QED
    BY <1>1 DEF SameEpisode

LEMMA FollowsReflexive == ASSUME NEW a \in Row PROVE Follows(a, a)
BY DEF Follows, Row

LEMMA FollowsTransitive ==
    ASSUME NEW a \in Row, NEW b \in Row, NEW c \in Row, Follows(a, b), Follows(b, c)
    PROVE  Follows(a, c)
<1>1. /\ a.version \in Nat /\ b.version \in Nat /\ c.version \in Nat
      /\ a.lastObservedAt \in Int /\ b.lastObservedAt \in Int /\ c.lastObservedAt \in Int
    BY DEF Row
<1>2. a.state = "closed" => c = a
    BY DEF Follows
<1>3. c.lastObservedAt >= a.lastObservedAt
    BY <1>1 DEF Follows
<1>4. Decided(b) = Decided(a) => b.version = a.version
    BY DecidedColumns
<1>5. Decided(c) = Decided(b) => c.version = b.version
    BY DecidedColumns
<1>6. Decided(c) = Decided(a) \/ c.version > a.version
    BY <1>1, <1>4, <1>5 DEF Follows
<1> QED
    BY <1>2, <1>3, <1>6 DEF Follows

LEMMA PinnedFollows ==
    ASSUME NEW a \in Row, NEW b \in Row, NEW snap \in Row, Pinned(a, snap), Follows(a, b)
    PROVE  Pinned(b, snap)
<1>1. a.version \in Nat /\ b.version \in Nat /\ snap.version \in Nat
    BY DEF Row
<1>2. Decided(b) = Decided(a) => b.version = a.version
    BY DecidedColumns
<1> QED
    BY <1>1, <1>2 DEF Pinned, Follows

\* Whoever commits, the other pending writers' snapshots stay pinned.
LEMMA SnapStep ==
    ASSUME TypeOK, Targets, TypeOK', Sound(db), Sound(db)', SnapInv,
           \A k \in Seqs : Follows(db.rows[k], db'.rows[k]),
           reaper' = reaper \/ reaper'.pc # "commit",
           closer' = closer \/ closer'.pc # "commit",
           human' = human \/ human'.pc # "commit"
    PROVE  SnapInv'
<1>1. \A k \in Seqs : db.rows[k] \in Row /\ db'.rows[k] \in Row
    BY DEF TypeOK, DB
<1>2. ASSUME reaper'.pc = "commit"
      PROVE  /\ reaper' = reaper /\ reaper.seq \in Seqs
             /\ Pinned(db'.rows[reaper.seq], reaper.snap)
  <2>1. reaper' = reaper /\ reaper.pc = "commit"
    BY <1>2
  <2>2. reaper.seq \in Seqs /\ reaper.snap \in Row
    BY <2>1 DEF Targets, TypeOK, Reaper
  <2> QED
    BY <1>1, <2>1, <2>2, PinnedFollows DEF SnapInv
<1>3. ASSUME closer'.pc = "commit"
      PROVE  /\ closer' = closer
             /\ Pinned(db'.rows[closer.seq], closer.snap)
  <2>1. closer' = closer /\ closer.pc = "commit"
    BY <1>3
  <2>2. closer.seq \in Seqs /\ closer.snap \in Row
    BY <2>1 DEF Targets, TypeOK, Closer
  <2> QED
    BY <1>1, <2>1, <2>2, PinnedFollows DEF SnapInv
<1>4. ASSUME human'.pc = "commit"
      PROVE  /\ human' = human
             /\ human.version <= db'.rows[human.seq].version
             /\ human.version = db'.rows[human.seq].version =>
                  /\ IsOpen(db'.rows[human.seq])
                  /\ human.alert.state = "firing" /\ human.alert.total = db'.n
  <2>1. human' = human /\ human.pc = "commit"
    BY <1>4
  <2>2. human.seq \in Seqs /\ human.version \in Nat
    BY <2>1 DEF Targets, TypeOK, Human
  <2> DEFINE k == human.seq
  <2>3. db.rows[k].version \in Nat /\ db'.rows[k].version \in Nat
    BY <1>1, <2>2 DEF Row
  <2>4. Decided(db'.rows[k]) = Decided(db.rows[k]) =>
            /\ db'.rows[k].version = db.rows[k].version
            /\ db'.rows[k].state = db.rows[k].state
    BY <1>1, <2>2, DecidedColumns DEF SameEpisode
  <2>5. Decided(db'.rows[k]) = Decided(db.rows[k])
            \/ db'.rows[k].version > db.rows[k].version
    BY <2>2 DEF Follows
  <2>6. human.version <= db.rows[k].version
    BY <2>1 DEF SnapInv
  <2>7. human.version <= db'.rows[k].version
    BY <2>2, <2>3, <2>4, <2>5, <2>6
  <2>8. ASSUME human.version = db'.rows[k].version
        PROVE  /\ IsOpen(db'.rows[k])
               /\ human.alert.state = "firing" /\ human.alert.total = db'.n
    <3>1. /\ human.version = db.rows[k].version
          /\ db'.rows[k].state = db.rows[k].state
        BY <2>2, <2>3, <2>4, <2>5, <2>6, <2>8
    <3>2. IsOpen(db.rows[k]) /\ human.alert.state = "firing" /\ human.alert.total = db.n
        BY <2>1, <3>1 DEF SnapInv
    <3>3. IsOpen(db'.rows[k])
        BY <3>1, <3>2 DEF IsOpen
    <3>4. k = db.n
        BY <2>2, <3>2 DEF Sound, EpisodeSound
    <3>5. k = db'.n
        BY <2>2, <3>3 DEF Sound, EpisodeSound
    <3> QED
        BY <3>2, <3>3, <3>4, <3>5
  <2> QED
    BY <2>1, <2>7, <2>8
<1>5. reaper'.pc = "commit" =>
         /\ Pinned(db'.rows[reaper'.seq], reaper'.snap) /\ Reapable(reaper'.snap)
         /\ reaper'.reason = "timeout" => PastEnd(reaper'.snap, reaper'.now)
         /\ reaper'.reason = "silent" =>
              \E m \in Silences \ {0} : reaper'.snap.lastObservedAt + m < reaper'.now
    BY <1>2 DEF SnapInv
<1>6. closer'.pc = "commit" =>
         /\ Pinned(db'.rows[closer'.seq], closer'.snap)
         /\ IsOpen(closer'.snap) /\ ClosePending(closer'.snap)
    BY <1>3 DEF SnapInv
<1>7. human'.pc = "commit" =>
         /\ human'.version <= db'.rows[human'.seq].version
         /\ human'.version = db'.rows[human'.seq].version =>
              /\ IsOpen(db'.rows[human'.seq])
              /\ human'.alert.state = "firing" /\ human'.alert.total = db'.n
    BY <1>4
<1> QED
    BY <1>5, <1>6, <1>7 DEF SnapInv

(***************************************************************************)
(* The observe transaction.                                                *)
(***************************************************************************)
LEMMA Phases ==
    ASSUME NEW c \in Row
    PROVE  /\ lifecyclePhase(c) = "firing" => IsOpen(c) /\ ~c.suppressed
           /\ lifecyclePhase(c) = "suppressed" => IsOpen(c) /\ c.suppressed
           /\ lifecyclePhase(c) \in {"none", "resolved", "expired"} => ~IsOpen(c)
<1>1. c.state \in {"none", "open", "closed"}
    BY DEF Row
<1>2. CASE IsOpen(c)
  <2>1. AlertState(c) = "firing"
    BY <1>2 DEF AlertState, IsOpen
  <2> QED
    BY <1>2, <2>1 DEF lifecyclePhase
<1>3. CASE ~IsOpen(c)
  <2>1. AlertState(c) \in {"none", "resolved", "expired"}
    BY <1>1, <1>3 DEF AlertState, IsOpen
  <2> QED
    BY <1>3, <2>1 DEF lifecyclePhase
<1> QED
    BY <1>2, <1>3

LEMMA OpenMem ==
    ASSUME TypeOK, TxInv, tx.on
    PROVE  /\ tx.mem \in Row /\ tx.db \in DB /\ tx.at \in Nat /\ tx.opened \in Nat
           /\ tx.db.n \in 0..MaxCases
           /\ IsOpen(tx.mem) =>
                /\ tx.db.n \in Seqs /\ tx.db.rows[tx.db.n] \in Row
                /\ RowSound(tx.db.rows[tx.db.n]) /\ IsOpen(tx.db.rows[tx.db.n])
                /\ SameEpisode(tx.mem, tx.db.rows[tx.db.n])
           /\ ~IsOpen(tx.mem) => (tx.db.n > 0 => ~IsOpen(tx.db.rows[tx.db.n]))
<1>1. /\ tx.mem \in Row /\ tx.db \in DB /\ tx.at \in Nat /\ tx.opened \in Nat
      /\ tx.db.n \in 0..MaxCases
    BY DEF TypeOK, Tx, DB
<1>2. SameEpisode(tx.mem, Latest(tx.db))
    BY DEF TxInv
<1>3. ASSUME tx.db.n > 0 PROVE Latest(tx.db) = tx.db.rows[tx.db.n] /\ tx.db.n \in Seqs
    BY <1>1, <1>3, BoundsAssumption DEF Latest, Seqs
<1>4. ASSUME IsOpen(tx.mem) PROVE tx.db.n > 0
    BY <1>1, <1>2, <1>4, BoundsAssumption DEF Latest, NoRow, SameEpisode, IsOpen
<1>5. ASSUME IsOpen(tx.mem)
      PROVE  /\ tx.db.n \in Seqs /\ tx.db.rows[tx.db.n] \in Row
             /\ RowSound(tx.db.rows[tx.db.n]) /\ IsOpen(tx.db.rows[tx.db.n])
             /\ SameEpisode(tx.mem, tx.db.rows[tx.db.n])
  <2>1. tx.db.n \in Seqs /\ SameEpisode(tx.mem, tx.db.rows[tx.db.n])
    BY <1>2, <1>3, <1>4, <1>5
  <2>2. RowSound(tx.db.rows[tx.db.n])
    BY <2>1 DEF TxInv, Sound, EpisodeSound
  <2>3. tx.db.rows[tx.db.n] \in Row
    BY <1>1, <2>1 DEF DB
  <2> QED
    BY <1>5, <2>1, <2>2, <2>3 DEF SameEpisode, IsOpen
<1>6. ASSUME ~IsOpen(tx.mem), tx.db.n > 0 PROVE ~IsOpen(tx.db.rows[tx.db.n])
    BY <1>2, <1>3, <1>6 DEF SameEpisode, IsOpen
<1> QED
    BY <1>1, <1>5, <1>6

LEMMA StepColumns ==
    ASSUME TypeOK, NEW d, NEW mem, Step(d, mem)
    PROVE  /\ tx'.on = tx.on /\ tx'.db = d /\ tx'.mem = mem /\ tx'.touched
           /\ tx'.opened = tx.opened /\ tx'.at = tx.at
           /\ UNCHANGED <<now, db, retention, sources, reaper, closer, human>>
BY DEF Step, TypeOK, Tx

\* An edge on the open episode carries the transaction from one good state to the next.
LEMMA AdvanceTx ==
    ASSUME TypeOK, TxInv, tx.on, IsOpen(tx.mem), NEW e \in DB, NEW mem \in Row,
           NEW row \in Row, Step(e, mem),
           e.n = tx.db.n, e.rows = [tx.db.rows EXCEPT ![tx.db.n] = row],
           e.alert = tx.db.alert, Sound(e), Follows(tx.db.rows[tx.db.n], row),
           row.resolveReason \notin Expiries, SameEpisode(mem, row)
    PROVE  TxInv'
<1>1. /\ tx'.on /\ tx'.db = e /\ tx'.mem = mem /\ tx'.touched
      /\ tx'.opened = tx.opened /\ db' = db
    BY StepColumns
<1>2. tx.db.n \in Seqs
    BY OpenMem
<1>3. Latest(e) = row
    BY <1>2, BoundsAssumption DEF Latest, DB, Seqs
<1>4. ASSUME NEW k \in Seqs
      PROVE  /\ Follows(db.rows[k], e.rows[k])
             /\ IsOpen(db.rows[k]) => e.rows[k].resolveReason \notin Expiries
  <2>1. db.rows[k] \in Row /\ tx.db.rows[k] \in Row
    BY DEF TypeOK, DB, Tx
  <2>2. /\ Follows(db.rows[k], tx.db.rows[k])
        /\ IsOpen(db.rows[k]) => tx.db.rows[k].resolveReason \notin Expiries
    BY DEF TxInv
  <2>3. CASE k = tx.db.n
    <3>1. e.rows[k] = row
        BY <2>3, <1>2 DEF TypeOK, Tx, DB
    <3> QED
        BY <2>1, <2>2, <2>3, <3>1, FollowsTransitive
  <2>4. CASE k # tx.db.n
    <3>1. e.rows[k] = tx.db.rows[k]
        BY <2>4 DEF TypeOK, Tx, DB
    <3> QED
        BY <2>2, <3>1
  <2> QED
    BY <2>3, <2>4
<1>5. tx.db.alert.known /\ tx.db.alert.total + tx.opened = tx.db.n
    BY DEF TxInv
<1> QED
    BY <1>1, <1>3, <1>4, <1>5 DEF TxInv

\* The five edges an observation can make on an open episode.
LEMMA ObserveEdges ==
    ASSUME TypeOK, TxInv,
           applyT2 \/ applyT3 \/ applyT4 \/ applyT5Defer \/ applyT5
    PROVE  TxInv'
<1> DEFINE o == Head(tx.todo)
           n == tx.db.n
           row == tx.db.rows[n]
<1>1. tx.on /\ tx.todo # <<>> /\ IsOpen(tx.mem)
  <2>1. tx.on /\ tx.todo # <<>> /\ lifecyclePhase(tx.mem) \in {"firing", "suppressed"}
    BY DEF applyT2, applyT3, applyT4, applyT5Defer, applyT5, Deciding
  <2>2. tx.mem \in Row
    BY DEF TypeOK, Tx
  <2> QED
    BY <2>1, <2>2, Phases
<1>2. /\ tx.mem \in Row /\ tx.db \in DB /\ tx.at \in Nat /\ tx.at \in Int
      /\ n \in Seqs /\ n \in 0..MaxCases /\ row \in Row /\ RowSound(row) /\ IsOpen(row)
      /\ SameEpisode(tx.mem, row) /\ Sound(tx.db)
    BY <1>1, OpenMem DEF TxInv
<1>3. o.ends \in Int /\ Occurred(o) \in Nat /\ retention \in Nat
  <2>1. o \in Observation
    BY <1>1, HeadType
  <2>2. o.ends \in Nat \cup {NoTime}
    BY <2>1, ConfigAssumption DEF Observation
  <2> QED
    BY <2>2, <1>1, HeadType DEF Occurred, SourceStartsAt, TypeOK
<1>4. ASSUME NEW st \in Statuses
      PROVE  /\ Hear(tx.db, st) \in DB
             /\ Hear(tx.db, st).rows = tx.db.rows /\ Hear(tx.db, st).n = n
             /\ Hear(tx.db, st).alert = tx.db.alert
             /\ Hear(tx.db, st).notices = tx.db.notices
             /\ Hear(tx.db, st).word[n] = st
             /\ \A j \in Seqs \ {n} : Hear(tx.db, st).word[j] = tx.db.word[j]
  <2>1. Hear(tx.db, st).word = [tx.db.word EXCEPT ![n] = st]
    BY <1>2, HearColumns DEF Seqs
  <2>2. tx.db.word \in [Seqs -> Statuses \cup {"none"}]
    BY <1>2 DEF DB
  <2> QED
    BY <1>2, <2>1, <2>2, HearType, HearColumns
<1>5. ASSUME NEW st \in Statuses, NEW next \in Row, NEW t \in EventTypes, NEW v \in Nat,
             NEW reason \in Reasons, Persists(row, next), next.resolveReason \notin Expiries,
             next.state # "none", WordSound(next, st), reason # "fired",
             next.state = "closed" <=> reason \in {"all_resolved", "expired"},
             Step(Edge(Hear(tx.db, st), n, transitionSQL(row, next), <<t, n, v>>, reason),
                  next)
      PROVE  TxInv'
  <2> DEFINE new == transitionSQL(row, next)
             h == Hear(tx.db, st)
             e == Edge(h, n, new, <<t, n, v>>, reason)
  <2>1. /\ new \in Row /\ RowSound(new) /\ SameEpisode(next, new) /\ Follows(row, new)
    BY <1>2, <1>5, TransitionSQLType DEF Persists
  <2>2. /\ WordSound(new, st) /\ new.state = next.state
        /\ new.resolveReason = next.resolveReason
    BY <1>5, <2>1 DEF SameEpisode, WordSound, ClosePending
  <2>3. <<t, n, v>> \in EventTypes \X (0..MaxCases) \X Nat
    BY <1>2, EventIn
  <2>4. /\ h \in DB /\ h.rows = tx.db.rows /\ h.n = n /\ h.notices = tx.db.notices
        /\ h.alert = tx.db.alert /\ h.word[n] = st
        /\ \A j \in Seqs \ {n} : h.word[j] = tx.db.word[j]
    BY <1>4
  <2> HIDE DEF new, h
  <2>5. Sound(e)
    BY <1>2, <1>5, <2>1, <2>2, <2>3, <2>4, EdgeSound
  <2>6. e \in DB
    BY <2>1, <2>3, <2>4, EdgeType
  <2>7. e.n = n /\ e.rows = [tx.db.rows EXCEPT ![n] = new] /\ e.alert = tx.db.alert
    BY <2>4 DEF Edge, DB
  <2>8. Step(e, next)
    BY <1>5 DEF new, h
  <2> HIDE DEF e
  <2> QED
    BY <1>1, <1>5, <2>1, <2>2, <2>5, <2>6, <2>7, <2>8, AdvanceTx
<1>6. ASSUME NEW st \in Statuses, NEW new \in Row, NEW mem \in Row, RowSound(new),
             SameEpisode(mem, new), Follows(row, new), new.state = "open",
             new.resolveReason = "none", WordSound(new, st),
             Step([Hear(tx.db, st) EXCEPT !.rows[n] = new], mem)
      PROVE  TxInv'
  <2> DEFINE h == Hear(tx.db, st)
             e == [h EXCEPT !.rows[n] = new]
  <2>1. /\ h \in DB /\ h.rows = tx.db.rows /\ h.n = n /\ h.notices = tx.db.notices
        /\ h.alert = tx.db.alert /\ h.word[n] = st
        /\ \A j \in Seqs \ {n} : h.word[j] = tx.db.word[j]
    BY <1>4
  <2>2. Step(e, mem)
    BY <1>6
  <2> HIDE DEF h
  <2>3. Sound(e)
    BY <1>2, <1>6, <2>1, SetRowSound
  <2>4. e \in DB
    BY <2>1, SetRowType
  <2>5. e.n = n /\ e.rows = [tx.db.rows EXCEPT ![n] = new] /\ e.alert = tx.db.alert
    BY <2>1 DEF DB
  <2>6. new.resolveReason \notin Expiries
    BY <1>6 DEF Expiries
  <2> HIDE DEF e
  <2> QED
    BY <1>1, <1>6, <2>2, <2>3, <2>4, <2>5, <2>6, AdvanceTx
<1> HIDE DEF o
<1>7. CASE applyT2
  <2> DEFINE new == observeSQL(row, tx.at, o.ends)
             mem == ApplyT2(tx.mem, tx.at, o.ends)
  <2>1. new \in Row /\ mem \in Row
    BY <1>2, <1>3, ObserveSQLType, EdgeTypes
  <2>2. /\ RowSound(new) /\ IsOpen(new) /\ ~ClosePending(new)
        /\ new.resolveReason = "none" /\ Follows(row, new) /\ SameEpisode(mem, new)
    BY <1>2, <1>3, ObserveSound
  <2>3. Hear(tx.db, "firing").rows[n] = row
    BY <1>4 DEF Statuses
  <2>4. Step([Hear(tx.db, "firing") EXCEPT !.rows[n] = new], mem)
    BY <1>7, <2>3 DEF applyT2, o
  <2>5. WordSound(new, "firing")
    BY <2>2 DEF WordSound
  <2> HIDE DEF new, mem
  <2> QED
    BY <1>6, <2>1, <2>2, <2>4, <2>5 DEF Statuses, IsOpen
<1>8. CASE applyT3
  <2> DEFINE next == ApplyT3(tx.mem, tx.at, o.ends)
  <2>1. ~tx.mem.suppressed
    BY <1>2, <1>8, Phases DEF applyT3, Deciding
  <2>2. next \in Row /\ Persists(row, next)
    BY <1>2, <1>3, <2>1, EdgeTypes, SuppressSound
  <2>3. tx.mem.state = "open" /\ tx.mem.resolveReason = "none"
    BY <1>2 DEF SameEpisode, IsOpen, RowSound
  <2>4. /\ next.state = "open" /\ next.resolveReason = "none" /\ next.pendingAt = NoTime
    BY <1>2, <2>3 DEF ApplyT3, Observed, Row
  <2>5. next.suppressCount \in Nat
    BY <2>2 DEF Row
  <2>6. Step(Edge(Hear(tx.db, "suppressed"), n, transitionSQL(row, next),
                  <<"suppressed", n, next.suppressCount>>, "suppressed"), next)
    BY <1>8 DEF applyT3, o
  <2>7. WordSound(next, "suppressed") /\ next.resolveReason \notin Expiries
    BY <2>4 DEF WordSound, ClosePending, Expiries
  <2> HIDE DEF next
  <2> QED
    BY <1>5, <2>2, <2>4, <2>5, <2>6, <2>7 DEF Statuses, EventTypes, Reasons
<1>9. CASE applyT4
  <2> DEFINE next == ApplyT4(tx.mem, tx.at, o.ends)
  <2>1. tx.mem.suppressed
    BY <1>2, <1>9, Phases DEF applyT4, Deciding
  <2>2. next \in Row /\ Persists(row, next)
    BY <1>2, <1>3, <2>1, EdgeTypes, SuppressSound
  <2>3. /\ tx.mem.state = "open" /\ tx.mem.resolveReason = "none"
        /\ tx.mem.pendingAt = NoTime
    BY <1>2, <2>1 DEF SameEpisode, IsOpen, RowSound, ClosePending
  <2>4. /\ next.state = "open" /\ next.resolveReason = "none" /\ next.pendingAt = NoTime
    BY <1>2, <2>3 DEF ApplyT4, Observed, Row
  <2>5. next.suppressCount \in Nat
    BY <2>2 DEF Row
  <2>6. Step(Edge(Hear(tx.db, "firing"), n, transitionSQL(row, next),
                  <<"unsuppressed", n, next.suppressCount>>, "unsuppressed"), next)
    BY <1>9 DEF applyT4, o
  <2>7. WordSound(next, "firing") /\ next.resolveReason \notin Expiries
    BY <2>4 DEF WordSound, ClosePending, Expiries
  <2> HIDE DEF next
  <2> QED
    BY <1>5, <2>2, <2>4, <2>5, <2>6, <2>7 DEF Statuses, EventTypes, Reasons
<1>10. CASE applyT5Defer
  <2> DEFINE next == ApplyT5Defer(tx.mem, tx.at, o.ends, Occurred(o), retention)
             new  == transitionSQL(row, next)
  <2>1. ~tx.mem.suppressed
    BY <1>2, <1>10, Phases DEF applyT5Defer, Deciding
  <2>2. next \in Row
    <3>1. Occurred(o) \in Int /\ retention \in Int
        BY <1>3
    <3> QED
        BY <1>2, <1>3, <3>1, ResolveTypes
  <2>3. Persists(row, next) /\ ClosePending(next) /\ IsOpen(next)
    BY <1>2, <1>3, <2>1, ResolveSound
  <2>4. Hear(tx.db, "resolved").rows[n] = row
    BY <1>4 DEF Statuses
  <2>5. Step([Hear(tx.db, "resolved") EXCEPT !.rows[n] = new], next)
    BY <1>10, <2>4 DEF applyT5Defer, o
  <2> HIDE DEF next
  <2>6. /\ new \in Row /\ RowSound(new) /\ SameEpisode(next, new) /\ Follows(row, new)
    BY <1>2, <2>2, <2>3, TransitionSQLType DEF Persists
  <2> HIDE DEF new
  <2>7. new.state = "open" /\ ClosePending(new)
    BY <2>3, <2>6 DEF SameEpisode, ClosePending, IsOpen
  <2>8. new.resolveReason = "none" /\ WordSound(new, "resolved")
    BY <2>6, <2>7 DEF RowSound, WordSound
  <2> QED
    BY <1>6, <2>2, <2>5, <2>6, <2>7, <2>8 DEF Statuses
<1>11. CASE applyT5
  <2> DEFINE next == ApplyT5(tx.mem, tx.at, o.ends, Occurred(o))
  <2>1. next \in Row
    <3>1. Occurred(o) \in Int
        BY <1>3
    <3> QED
        BY <1>2, <1>3, <3>1, ResolveTypes
  <2>2. Persists(row, next) /\ next.state = "closed" /\ next.resolveReason = "upstream"
    BY <1>2, <1>3, ResolveSound
  <2>3. Step(Edge(Hear(tx.db, "resolved"), n, transitionSQL(row, next),
                  <<"resolved", n, 0>>, "all_resolved"), next)
    BY <1>11 DEF applyT5, o
  <2> HIDE DEF next
  <2>4. WordSound(next, "resolved") /\ next.resolveReason \notin Expiries
    BY <2>2 DEF WordSound, Expiries
  <2> QED
    BY <1>5, <2>1, <2>2, <2>3, <2>4 DEF Statuses, EventTypes, Reasons
<1> QED
    BY <1>7, <1>8, <1>9, <1>10, <1>11

\* Sound speaks of rows, history and notices only.
LEMMA SoundIgnores ==
    ASSUME NEW d, NEW e, Sound(d), e.rows = d.rows, e.n = d.n, e.word = d.word,
           e.notices = d.notices
    PROVE  Sound(e)
BY DEF Sound, EpisodeSound

LEMMA UpsertedColumns ==
    ASSUME NEW d \in DB, NEW obs
    PROVE  /\ Upserted(d, obs).rows = d.rows /\ Upserted(d, obs).n = d.n
           /\ Upserted(d, obs).word = d.word /\ Upserted(d, obs).notices = d.notices
           /\ Upserted(d, obs).alert.known
           /\ Upserted(d, obs).alert.total = d.alert.total
           /\ d.alert.known => Upserted(d, obs).alert = d.alert
<1>1. CASE d.alert.known
    BY <1>1 DEF Upserted
<1>2. CASE ~d.alert.known
  <2>1. PICK st : st = IF obs[Len(obs)].status = "resolved" THEN "resolved" ELSE "firing"
    OBVIOUS
  <2>2. PICK ev : ev = d.events \cup {<<"created", 0, 0>>}
    OBVIOUS
  <2>3. PICK al : al = [d.alert EXCEPT !.known = TRUE, !.state = st]
    OBVIOUS
  <2>4. al.known /\ al.total = d.alert.total
    BY <2>3 DEF DB, Alert
  <2>5. Upserted(d, obs) = [d EXCEPT !.alert = al, !.events = ev]
    BY <1>2, <2>1, <2>2, <2>3 DEF Upserted, DB, Alert
  <2> QED
    BY <1>2, <2>4, <2>5 DEF DB
<1> QED
    BY <1>1, <1>2

LEMMA BeginTx ==
    ASSUME TypeOK, Sound(db), ProjInv, \E a \in Actors : ObserveBegin(a)
    PROVE  TxInv'
<1>1. PICK a \in Actors : ObserveBegin(a)
    OBVIOUS
<1>2. PICK obs \in Batches(a), at \in Times :
        tx' = [on |-> TRUE, at |-> at, todo |-> obs, db |-> Upserted(db, obs),
               mem |-> Latest(db), touched |-> FALSE, opened |-> 0]
    BY <1>1 DEF ObserveBegin
<1>3. db' = db /\ db \in DB
    BY <1>1 DEF ObserveBegin, TypeOK
<1>4. PICK e : e = Upserted(db, obs)
    OBVIOUS
<1>5. /\ e.rows = db.rows /\ e.n = db.n /\ e.word = db.word /\ e.notices = db.notices
      /\ e.alert.known /\ e.alert.total = db.alert.total
      /\ db.alert.known => e.alert = db.alert
    BY <1>3, <1>4, UpsertedColumns
<1>6. /\ tx'.on /\ tx'.db = e /\ tx'.mem = Latest(db) /\ tx'.touched = FALSE /\ tx'.opened = 0
    BY <1>2, <1>4
<1>7. Sound(e)
    BY <1>5, SoundIgnores
<1>8. Latest(e) = Latest(db) /\ SameEpisode(Latest(db), Latest(db))
    BY <1>5 DEF Latest, SameEpisode
<1>9. ASSUME NEW k \in Seqs
      PROVE  /\ Follows(db.rows[k], db.rows[k])
             /\ IsOpen(db.rows[k]) => db.rows[k].resolveReason \notin Expiries
  <2>1. db.rows[k] \in Row
    BY <1>3 DEF DB
  <2>2. RowSound(db.rows[k])
    BY DEF Sound, EpisodeSound
  <2> QED
    BY <2>1, <2>2, FollowsReflexive DEF RowSound, IsOpen, Expiries
<1>10. e.alert.total + 0 = e.n /\ (db.n > 0 => e.alert = db.alert)
  <2>1. db.alert.total \in Nat
    BY <1>3 DEF DB, Alert
  <2> QED
    BY <1>5, <2>1 DEF ProjInv
<1> QED
    BY <1>3, <1>5, <1>6, <1>7, <1>8, <1>9, <1>10 DEF TxInv

\* A dropped observation is heard and changes nothing.
LEMMA DropTx ==
    ASSUME TypeOK, TxInv, noTransition
    PROVE  TxInv'
<1> DEFINE st == Head(tx.todo).status
           n == tx.db.n
           h == Hear(tx.db, st)
<1>1. /\ tx.on /\ tx.todo # <<>>
      /\ \/ lifecyclePhase(tx.mem) \in {"none", "resolved", "expired"}
         \/ lifecyclePhase(tx.mem) = "suppressed" /\ st = "suppressed"
  <2>1. \/ Deciding("suppressed", {"none", "suppressed", "resolved", "expired"})
        \/ Deciding("resolved", {"none", "resolved", "expired"})
    BY DEF noTransition
  <2> QED
    BY <2>1 DEF Deciding
<1>2. /\ tx.mem \in Row /\ tx.db \in DB /\ tx.at \in Nat /\ Sound(tx.db)
      /\ st \in Statuses
    BY <1>1, OpenMem, HeadType DEF TxInv, Observation
<1>3. /\ h \in DB /\ h.rows = tx.db.rows /\ h.n = n /\ h.alert = tx.db.alert
      /\ h.notices = tx.db.notices
      /\ h.word = IF n > 0 /\ IsOpen(tx.db.rows[n])
                    THEN [tx.db.word EXCEPT ![n] = st] ELSE tx.db.word
    BY <1>2, HearType, HearColumns
<1>4. /\ tx'.on /\ tx'.db = h /\ tx'.mem = tx.mem /\ tx'.touched = tx.touched
      /\ tx'.opened = tx.opened /\ db' = db
    BY <1>1 DEF noTransition, TypeOK, Tx
<1> HIDE DEF h, st
<1>5. Sound(h)
  <2>1. CASE IsOpen(tx.mem)
    <3>1. st = "suppressed" /\ tx.mem.suppressed
        BY <1>1, <1>2, <2>1, Phases
    <3>2. /\ n \in Seqs /\ tx.db.rows[n] \in Row /\ RowSound(tx.db.rows[n])
          /\ IsOpen(tx.db.rows[n]) /\ SameEpisode(tx.mem, tx.db.rows[n])
        BY <1>1, <2>1, OpenMem
    <3>3. WordSound(tx.db.rows[n], "suppressed")
        BY <3>1, <3>2 DEF WordSound, RowSound, SameEpisode, ClosePending, IsOpen
    <3>4. h.word = [tx.db.word EXCEPT ![n] = "suppressed"]
        BY <1>3, <3>1, <3>2 DEF Seqs
    <3>5. h.rows = [tx.db.rows EXCEPT ![n] = tx.db.rows[n]]
        BY <1>2, <1>3 DEF DB
    <3>6. tx.db.word \in [Seqs -> Statuses \cup {"none"}]
        BY <1>2 DEF DB
    <3>7. \A j \in Seqs : EndNotices(h, j) = EndNotices(tx.db, j)
                            /\ EndNotices(tx.db, j) \in Nat
        BY <1>2, <1>3 DEF EndNotices, DB, Reasons
    <3>8. \A j \in Seqs : EndNotices(h, j) = EndNotices(tx.db, j)
            + IF j = n /\ tx.db.rows[n].state = "closed" THEN 1 ELSE 0
        BY <3>2, <3>7 DEF IsOpen
    <3>9. \A j \in Seqs : h.notices[<<"fired", j>>] = tx.db.notices[<<"fired", j>>]
        BY <1>3
    <3>10. h.word[n] = "suppressed" /\ \A j \in Seqs \ {n} : h.word[j] = tx.db.word[j]
        BY <3>2, <3>4, <3>6
    <3>11. tx.db.rows[n].state # "none" /\ WordSound(tx.db.rows[n], h.word[n])
        BY <3>2, <3>3, <3>10 DEF IsOpen
    <3> QED
        BY <1>2, <1>3, <3>2, <3>5, <3>8, <3>9, <3>10, <3>11, ReplaceSound
  <2>2. CASE ~IsOpen(tx.mem)
    <3>1. n > 0 => ~IsOpen(tx.db.rows[n])
        BY <1>1, <2>2, OpenMem
    <3> QED
        BY <1>2, <1>3, <3>1, SoundIgnores
  <2> QED
    BY <2>1, <2>2
<1>6. Latest(h) = Latest(tx.db)
    BY <1>3 DEF Latest
<1> QED
    BY <1>1, <1>3, <1>4, <1>5, <1>6 DEF TxInv

\* A new episode is opened only on top of an ended one.
LEMMA OpenTx ==
    ASSUME TypeOK, TxInv, applyOpen
    PROVE  TxInv'
<1> DEFINE n   == tx.db.n + 1
           row == OpenedRow(tx.at, Head(tx.todo).ends)
           d   == [tx.db EXCEPT !.n = n]
           e   == Edge(d, n, row, <<"opened", n, 0>>, "fired")
           f   == IF tx.mem.acked
                    THEN [e EXCEPT !.events = @ \cup {<<"unacked_new_case", n, 0>>},
                                   !.notices[<<"unacked", n>>] = @ + 1]
                    ELSE e
           g   == Hear(f, "firing")
<1>1. tx.on /\ tx.todo # <<>> /\ lifecyclePhase(tx.mem) \in {"none", "resolved", "expired"}
    BY DEF applyOpen, Deciding
<1>2. /\ tx.mem \in Row /\ tx.db \in DB /\ tx.at \in Nat /\ tx.opened \in Nat
      /\ tx.db.n \in 0..MaxCases /\ tx.db.n < MaxCases
      /\ Sound(tx.db) /\ Head(tx.todo).ends \in Int
    BY <1>1, OpenMem, HeadType DEF TxInv, applyOpen
<1>3. tx.db.n > 0 => ~IsOpen(tx.db.rows[tx.db.n])
    BY <1>1, <1>2, OpenMem, Phases
<1>4. n \in Seqs /\ n \in 0..MaxCases /\ n > 0 /\ tx.db.n \in Nat
    BY <1>2, BoundsAssumption DEF Seqs
<1>5. tx' = [tx EXCEPT !.todo = Tail(@), !.db = g, !.mem = row, !.touched = TRUE,
                       !.opened = @ + 1]
    BY DEF applyOpen
<1>6. /\ row \in Row /\ RowSound(row) /\ IsOpen(row) /\ ~ClosePending(row)
      /\ row.resolveReason = "none" /\ Follows(NoRow, row)
    BY <1>2, RowTypes, OpenedSound
<1> HIDE DEF row, n
<1>7. /\ d \in DB /\ d.rows = tx.db.rows /\ d.n = n /\ d.alert = tx.db.alert
      /\ d.word = tx.db.word /\ d.notices = tx.db.notices
    BY <1>2, <1>4 DEF DB
<1> HIDE DEF d
<1>8. e \in DB
    BY <1>4, <1>6, <1>7, EventIn, EdgeType DEF EventTypes
<1>9. /\ e.rows = [tx.db.rows EXCEPT ![n] = row] /\ e.n = n
      /\ e.alert = tx.db.alert /\ e.word = tx.db.word
    BY <1>4, <1>7 DEF Edge, DB
<1>10. ASSUME NEW j \in Seqs
       PROVE  /\ e.notices[<<"fired", j>>] =
                   tx.db.notices[<<"fired", j>>] + IF j = n THEN 1 ELSE 0
              /\ EndNotices(e, j) = EndNotices(tx.db, j)
  <2>1. EndNotices(d, j) = EndNotices(tx.db, j) /\ EndNotices(d, j) \in Nat
    BY <1>7 DEF EndNotices, DB, Reasons
  <2>2. "fired" \in Reasons
    BY DEF Reasons
  <2>3. /\ e.notices[<<"fired", j>>] =
             d.notices[<<"fired", j>>] + IF "fired" = "fired" /\ j = n THEN 1 ELSE 0
        /\ EndNotices(e, j) = EndNotices(d, j)
             + IF "fired" \in {"all_resolved", "expired"} /\ j = n THEN 1 ELSE 0
    BY <1>4, <1>7, <2>2, EdgeNotices
  <2> HIDE DEF e
  <2> QED
    BY <1>7, <2>1, <2>3
<1> HIDE DEF e
<1>11. /\ f \in DB /\ f.rows = e.rows /\ f.n = e.n /\ f.alert = e.alert /\ f.word = e.word
       /\ \A j \in Seqs : /\ f.notices[<<"fired", j>>] = e.notices[<<"fired", j>>]
                          /\ EndNotices(f, j) = EndNotices(e, j)
  <2>1. PICK ev : ev = e.events \cup {<<"unacked_new_case", n, 0>>}
    OBVIOUS
  <2>2. PICK no : no = [e.notices EXCEPT ![<<"unacked", n>>] = @ + 1]
    OBVIOUS
  <2>3. ev \in SUBSET (EventTypes \X (0..MaxCases) \X Nat)
    <3>1. <<"unacked_new_case", n, 0>> \in EventTypes \X (0..MaxCases) \X Nat
        BY <1>4, EventIn DEF EventTypes
    <3> QED
        BY <1>8, <2>1, <3>1 DEF DB
  <2>4. no \in [Reasons \X Seqs -> Nat]
    BY <1>8, <2>2, CountUp DEF DB
  <2>5. \A r \in Reasons \ {"unacked"}, j \in Seqs : no[<<r, j>>] = e.notices[<<r, j>>]
    BY <1>8, <2>2 DEF DB
  <2>6. f = IF tx.mem.acked THEN [e EXCEPT !.events = ev, !.notices = no] ELSE e
    BY <2>1, <2>2
  <2> HIDE DEF f
  <2>7. f \in DB /\ f.rows = e.rows /\ f.n = e.n /\ f.alert = e.alert /\ f.word = e.word
          /\ (f.notices = no \/ f.notices = e.notices)
    BY <1>8, <2>3, <2>4, <2>6 DEF DB
  <2>8. \A r \in Reasons \ {"unacked"}, j \in Seqs : f.notices[<<r, j>>] = e.notices[<<r, j>>]
    <3>1. CASE f.notices = no
        BY <2>5, <3>1
    <3>2. CASE f.notices = e.notices
        BY <3>2
    <3> QED
        BY <2>7, <3>1, <3>2
  <2> QED
    BY <2>7, <2>8 DEF EndNotices, Reasons
<1> HIDE DEF f
<1>12. f.n > 0 /\ f.rows[f.n] = row /\ f.n = n
    BY <1>2, <1>4, <1>9, <1>11 DEF DB
<1>13. /\ g \in DB /\ g.rows = f.rows /\ g.n = f.n /\ g.alert = f.alert
       /\ g.notices = f.notices /\ g.word = [tx.db.word EXCEPT ![n] = "firing"]
  <2>1. "firing" \in Statuses
    BY DEF Statuses
  <2>2. g \in DB
    BY <1>2, <1>11, <2>1, HearType
  <2>3. /\ g.rows = f.rows /\ g.n = f.n /\ g.alert = f.alert /\ g.notices = f.notices
        /\ g.word = IF f.n > 0 /\ IsOpen(f.rows[f.n])
                      THEN [f.word EXCEPT ![f.n] = "firing"] ELSE f.word
    BY <1>11, HearColumns
  <2> QED
    BY <1>6, <1>9, <1>11, <1>12, <2>2, <2>3
<1> HIDE DEF g
<1>14. Sound(g)
  <2>0. tx.db.word \in [Seqs -> Statuses \cup {"none"}]
    BY <1>2 DEF DB
  <2>1. g.word[n] = "firing" /\ \A j \in Seqs \ {n} : g.word[j] = tx.db.word[j]
    BY <1>4, <1>13, <2>0
  <2>2. WordSound(row, g.word[n])
    BY <1>6, <2>1 DEF WordSound
  <2>3. \A j \in Seqs : g.notices[<<"fired", j>>] =
            tx.db.notices[<<"fired", j>>] + IF j = n THEN 1 ELSE 0
    BY <1>10, <1>11, <1>13
  <2>4. \A j \in Seqs : EndNotices(g, j) = EndNotices(tx.db, j)
    BY <1>10, <1>11, <1>13 DEF EndNotices
  <2>5. g.n = n /\ g.rows = [tx.db.rows EXCEPT ![n] = row] /\ n = tx.db.n + 1
    BY <1>9, <1>11, <1>13 DEF n
  <2> QED
    BY <1>2, <1>3, <1>4, <1>6, <1>13, <2>1, <2>2, <2>3, <2>4, <2>5, OpenSound
<1>15. /\ tx'.on /\ tx'.db = g /\ tx'.mem = row /\ tx'.touched
       /\ tx'.opened = tx.opened + 1 /\ db' = db
    BY <1>1, <1>5 DEF applyOpen, TypeOK, Tx
<1>16. Latest(g) = row /\ SameEpisode(row, row)
    BY <1>4, <1>11, <1>12, <1>13 DEF Latest, SameEpisode
<1>17. ASSUME NEW k \in Seqs
       PROVE  /\ Follows(db.rows[k], g.rows[k])
              /\ IsOpen(db.rows[k]) => g.rows[k].resolveReason \notin Expiries
  <2>1. db.rows[k] \in Row /\ tx.db.rows[k] \in Row
    BY <1>2 DEF TypeOK, DB
  <2>2. /\ Follows(db.rows[k], tx.db.rows[k])
        /\ IsOpen(db.rows[k]) => tx.db.rows[k].resolveReason \notin Expiries
    BY <1>1 DEF TxInv
  <2>3. CASE k = n
    <3>1. g.rows[k] = row
        BY <2>3, <1>12, <1>13
    <3>2. tx.db.rows[k] = NoRow
      <4>1. EpisodeSound(tx.db, k) /\ k > tx.db.n
        BY <1>2, <1>4, <2>3 DEF Sound, n
      <4> QED
        BY <4>1 DEF EpisodeSound
    <3> QED
        BY <1>6, <2>1, <2>2, <3>1, <3>2, FollowsTransitive DEF Expiries
  <2>4. CASE k # n
    <3>1. g.rows[k] = tx.db.rows[k]
        BY <1>2, <1>9, <1>11, <1>13, <2>4 DEF DB
    <3> QED
        BY <2>2, <3>1
  <2> QED
    BY <2>3, <2>4
<1>18. g.alert.known /\ g.alert.total + (tx.opened + 1) = g.n
  <2>1. tx.db.alert.known /\ tx.db.alert.total + tx.opened = tx.db.n
    BY <1>1 DEF TxInv
  <2>2. tx.db.alert.total \in Nat
    BY <1>2 DEF DB, Alert
  <2>3. g.alert = tx.db.alert /\ g.n = tx.db.n + 1
    BY <1>9, <1>11, <1>12, <1>13 DEF n
  <2> QED
    BY <1>2, <2>1, <2>2, <2>3
<1> QED
    BY <1>14, <1>15, <1>16, <1>17, <1>18 DEF TxInv

(***************************************************************************)
(* The commits.                                                            *)
(***************************************************************************)
LEMMA ProjectionColumns ==
    ASSUME NEW d \in DB, NEW k, NEW c, NEW m
    PROVE  /\ projectionFor(d, k, c, m).known = d.alert.known
           /\ projectionFor(d, k, c, m).state = AlertState(c)
           /\ projectionFor(d, k, c, m).current = IF IsOpen(c) THEN k ELSE 0
           /\ projectionFor(d, k, c, m).total = d.alert.total + m
<1>1. d.alert \in Alert
    BY DEF DB
<1>2. PICK st : st = AlertState(c)
    OBVIOUS
<1>3. PICK cu : cu = IF IsOpen(c) THEN k ELSE 0
    OBVIOUS
<1>4. PICK to : to = d.alert.total + m
    OBVIOUS
<1>5. PICK p : p = projectionFor(d, k, c, m)
    OBVIOUS
<1>6. p = [d.alert EXCEPT !.state = st, !.suppressed = c.suppressed, !.current = cu,
                          !.total = to]
    BY <1>2, <1>3, <1>4, <1>5 DEF projectionFor
<1>7. p.known = d.alert.known /\ p.state = st /\ p.current = cu /\ p.total = to
    BY <1>1, <1>6 DEF Alert
<1> QED
    BY <1>2, <1>3, <1>4, <1>5, <1>7

LEMMA AlertStateSame ==
    ASSUME NEW c, NEW r, SameEpisode(c, r)
    PROVE  AlertState(c) = AlertState(r) /\ (IsOpen(c) <=> IsOpen(r))
BY DEF SameEpisode, AlertState, IsOpen

LEMMA CommitTx ==
    ASSUME TypeOK, TxInv, ProjInv, ObserveCommit
    PROVE  /\ Sound(db)' /\ ProjInv'
           /\ \A k \in Seqs :
                /\ Follows(db.rows[k], db'.rows[k])
                /\ IsOpen(db.rows[k]) => db'.rows[k].resolveReason \notin Expiries
<1>1. tx.on /\ tx.db \in DB /\ tx.mem \in Row /\ tx.opened \in Nat
    BY DEF ObserveCommit, TypeOK, Tx
<1>2. /\ Sound(tx.db) /\ SameEpisode(tx.mem, Latest(tx.db))
      /\ tx.db.alert.known /\ tx.db.alert.total + tx.opened = tx.db.n
    BY <1>1 DEF TxInv
<1>3. PICK p : p = projectionFor(tx.db, tx.db.n, tx.mem, tx.opened)
    OBVIOUS
<1>4. /\ p.known /\ p.state = AlertState(tx.mem)
      /\ p.current = IF IsOpen(tx.mem) THEN tx.db.n ELSE 0
      /\ p.total = tx.db.n
    BY <1>1, <1>2, <1>3, ProjectionColumns
<1>5. db' = IF tx.touched THEN [tx.db EXCEPT !.alert = p] ELSE tx.db
    BY <1>3 DEF ObserveCommit
<1>6. /\ db'.rows = tx.db.rows /\ db'.n = tx.db.n /\ db'.word = tx.db.word
      /\ db'.notices = tx.db.notices
      /\ db'.alert = IF tx.touched THEN p ELSE tx.db.alert
    BY <1>1, <1>5 DEF DB
<1>7. Sound(db')
    BY <1>2, <1>6, SoundIgnores
<1>8. \A k \in Seqs :
        /\ Follows(db.rows[k], db'.rows[k])
        /\ IsOpen(db.rows[k]) => db'.rows[k].resolveReason \notin Expiries
    BY <1>1, <1>6 DEF TxInv
<1>9. Latest(db') = Latest(tx.db)
    BY <1>6 DEF Latest
<1>10. ProjInv'
  <2>1. CASE tx.touched
    <3>1. /\ AlertState(tx.mem) = AlertState(Latest(tx.db))
          /\ IsOpen(tx.mem) <=> IsOpen(Latest(tx.db))
        BY <1>2, AlertStateSame
    <3> QED
        BY <1>4, <1>6, <1>9, <2>1, <3>1 DEF ProjInv, ProjectionAgrees
  <2>2. CASE ~tx.touched
    <3>1. /\ tx.db.n = db.n /\ tx.db.rows = db.rows /\ tx.opened = 0
          /\ db.n > 0 => tx.db.alert = db.alert
        BY <1>1, <2>2 DEF TxInv
    <3>2. tx.db.alert.total = tx.db.n
      <4>1. tx.db.alert.total \in Nat
        BY <1>1 DEF DB, Alert
      <4> QED
        BY <1>2, <3>1, <4>1
    <3>3. Latest(db') = Latest(db)
        BY <1>9, <3>1 DEF Latest
    <3> QED
        BY <1>2, <1>6, <2>2, <3>1, <3>2, <3>3 DEF ProjInv, ProjectionAgrees
  <2> QED
    BY <2>1, <2>2
<1> QED
    BY <1>7, <1>8, <1>10

\* A sweep that wins its compare-and-set closes the open episode and nothing else.
LEMMA SweepTx ==
    ASSUME TypeOK, Sound(db), ProjInv, NEW k \in Seqs, IsOpen(db.rows[k]),
           NEW next \in Row, Persists(db.rows[k], next), next.state = "closed",
           WordSound(next, db.word[k]), NEW reason \in {"all_resolved", "expired"},
           NEW event \in EventTypes \X (0..MaxCases) \X Nat,
           db' = SweepCommit(db, k, next, event, reason)
    PROVE  /\ Sound(db)' /\ ProjInv'
           /\ \A j \in Seqs : Follows(db.rows[j], db'.rows[j])
           /\ db'.rows[k].resolveReason = next.resolveReason
           /\ \A j \in Seqs : j # k => db'.rows[j] = db.rows[j]
<1> DEFINE new == transitionSQL(db.rows[k], next)
           e == Edge(db, k, new, event, reason)
           p == projectionFor(db, k, next, 0)
<1>1. db \in DB /\ db.rows[k] \in Row /\ reason \in Reasons
    BY DEF TypeOK, DB, Reasons
<1>2. /\ k = db.n /\ Latest(db) = db.rows[k] /\ db.n > 0
      /\ WordSound(db.rows[k], db.word[k])
  <2>1. EpisodeSound(db, k)
    BY DEF Sound
  <2>2. k = db.n
    BY <2>1 DEF EpisodeSound
  <2>3. k \in Int /\ k >= 1
    BY BoundsAssumption DEF Seqs
  <2> QED
    BY <2>1, <2>2, <2>3 DEF EpisodeSound, Latest
<1>3. new \in Row /\ RowSound(new) /\ SameEpisode(next, new) /\ Follows(db.rows[k], new)
    BY <1>1, TransitionSQLType DEF Persists
<1> HIDE DEF new
<1>4. /\ new.state = "closed" /\ new.resolveReason = next.resolveReason
      /\ WordSound(new, db.word[k])
    BY <1>3 DEF SameEpisode, WordSound, ClosePending
<1>5. e \in DB
    BY <1>1, <1>3, EdgeType
<1>6. /\ e.rows = [db.rows EXCEPT ![k] = new] /\ e.n = db.n /\ e.alert = db.alert
      /\ e.word = db.word
    BY <1>1 DEF Edge, DB
<1>7. Sound(e)
  <2>1. reason # "fired" /\ reason \in {"all_resolved", "expired"}
    OBVIOUS
  <2> QED
    BY <1>1, <1>2, <1>3, <1>4, <2>1, EdgeSound
<1>8. db' = [e EXCEPT !.alert = p]
    BY DEF SweepCommit, new
<1>9. p.known = db.alert.known /\ p.state = AlertState(next) /\ p.current = 0
        /\ p.total = db.alert.total
  <2>1. ~IsOpen(next)
    BY DEF IsOpen
  <2>2. db.alert.total + 0 = db.alert.total
    BY <1>1 DEF DB, Alert
  <2> QED
    BY <1>1, <2>1, <2>2, ProjectionColumns
<1> HIDE DEF e, p
<1>10. /\ db'.rows = [db.rows EXCEPT ![k] = new] /\ db'.n = db.n /\ db'.word = e.word
       /\ db'.notices = e.notices /\ db'.alert = p
    BY <1>5, <1>6, <1>8 DEF DB
<1>11. Sound(db')
    BY <1>6, <1>7, <1>10, SoundIgnores
<1>12. db'.rows[k] = new /\ \A j \in Seqs : j # k => db'.rows[j] = db.rows[j]
    BY <1>1, <1>10 DEF DB
<1>13. \A j \in Seqs : Follows(db.rows[j], db'.rows[j])
  <2> SUFFICES ASSUME NEW j \in Seqs PROVE Follows(db.rows[j], db'.rows[j])
    OBVIOUS
  <2>1. db.rows[j] \in Row
    BY <1>1 DEF DB
  <2> QED
    BY <1>3, <1>12, <2>1, FollowsReflexive
<1>14. Latest(db') = new /\ ~IsOpen(new) /\ AlertState(next) = AlertState(new)
    BY <1>2, <1>3, <1>4, <1>10, <1>12, AlertStateSame DEF Latest, IsOpen
<1>15. ProjInv'
    BY <1>2, <1>9, <1>10, <1>14 DEF ProjInv, ProjectionAgrees
<1> QED
    BY <1>4, <1>11, <1>12, <1>13, <1>15

(***************************************************************************)
(* The steps of Next.  Kept is what every step preserves besides the type; *)
(* StepFacts is what a step may make of the rows.                          *)
(***************************************************************************)
Kept == Sound(db) /\ TxInv /\ ProjInv /\ SnapInv /\ SourceInv

StepFacts ==
    \A k \in Seqs :
        /\ Follows(db.rows[k], db'.rows[k])
        /\ IsOpen(db.rows[k]) /\ db'.rows[k].resolveReason \in Expiries =>
             /\ reaper.pc = "commit" /\ k = reaper.seq
             /\ db'.rows[k].resolveReason = reaper.reason
             /\ Decided(reaper.snap) = Decided(db.rows[k])

LEMMA NoWrite ==
    ASSUME TypeOK, Sound(db), UNCHANGED db
    PROVE  StepFacts
<1> SUFFICES ASSUME NEW k \in Seqs
             PROVE  /\ Follows(db.rows[k], db.rows[k])
                    /\ IsOpen(db.rows[k]) => db.rows[k].resolveReason \notin Expiries
    BY DEF StepFacts
<1>1. db.rows[k] \in Row /\ RowSound(db.rows[k])
    BY DEF TypeOK, DB, Sound, EpisodeSound
<1> QED
    BY <1>1, FollowsReflexive DEF RowSound, IsOpen, Expiries

LEMMA OperatorKeeps ==
    ASSUME TypeOK, Kept, Tick \/ Operator
    PROVE  Kept' /\ StepFacts
<1>1. UNCHANGED <<db, tx, reaper, closer, human>>
    BY DEF Tick, Operator, SetRetention, RegisterSource, RemoveSource,
       SetMaxSilence, SetHealth
<1>2. Sound(db)' /\ TxInv' /\ ProjInv' /\ SnapInv'
    BY <1>1 DEF Kept, Sound, EpisodeSound, TxInv, ProjInv, ProjectionAgrees, SnapInv
<1>3. now \in Nat /\ now' \in Nat /\ now <= now'
  <2>1. now \in Nat
    BY DEF TypeOK
  <2>2. CASE Tick
    BY <2>1, <2>2 DEF Tick
  <2>3. CASE Operator
    <3>1. now' = now
        BY <2>3 DEF Operator, SetRetention, RegisterSource, RemoveSource,
           SetMaxSilence, SetHealth
    <3> QED
        BY <2>1, <3>1
  <2> QED
    BY <2>2, <2>3
<1>4. reaper \in Reaper /\ reaper.now \in Nat /\ reaper.proven \subseteq Sources
    BY DEF TypeOK, Reaper
<1>5. reaper.pc # "idle" => reaper.now <= now'
    BY <1>3, <1>4 DEF Kept, SourceInv
<1>6. sources \in [Sources -> SourceRow]
    BY DEF TypeOK
<1>7. SourceInv'
  <2>1. CASE Tick \/ SetRetention
    <3>1. sources' = sources
        BY <2>1 DEF Tick, SetRetention
    <3> QED
        BY <1>1, <1>5, <3>1 DEF Kept, SourceInv, Live
  <2>2. ASSUME NEW s \in Sources, RegisterSource(s) \/ RemoveSource(s)
                                    \/ SetMaxSilence(s) \/ SetHealth(s)
        PROVE  SourceInv'
    <3>1. \A u \in Sources : u # s => sources'[u] = sources[u]
        BY <2>2, <1>6 DEF RegisterSource, RemoveSource, SetMaxSilence, SetHealth
    <3>2. sources'[s].status = "live" => sources'[s].maxSilence \in Silences
      <4>1. CASE RegisterSource(s)
        <5>1. PICK m \in Silences : sources' = [sources EXCEPT ![s] = LiveSource(m)]
            BY <4>1 DEF RegisterSource
        <5>2. sources'[s] = LiveSource(m)
            BY <1>6, <5>1
        <5> QED
            BY <5>2 DEF LiveSource, AbsentSource
      <4>2. CASE RemoveSource(s)
        BY <4>2, <1>6 DEF RemoveSource, SourceRow
      <4>3. CASE SetMaxSilence(s)
        BY <4>3, <1>6 DEF SetMaxSilence, SourceRow
      <4>4. CASE SetHealth(s)
        BY <4>4, <1>6 DEF SetHealth, SourceRow, Kept, SourceInv, Live
      <4> QED
        BY <2>2, <4>1, <4>2, <4>3, <4>4
    <3>3. /\ sources[s].status # "absent" => sources'[s].status # "absent"
          /\ sources[s].status # "absent" /\ reaper.pc # "idle"
               /\ (sources[s].healthy \/ sources[s].sickAt >= reaper.now)
               => sources'[s].healthy \/ sources'[s].sickAt >= reaper.now
      <4>1. CASE RegisterSource(s)
        BY <4>1 DEF RegisterSource
      <4>2. CASE RemoveSource(s)
        BY <4>2, <1>6 DEF RemoveSource, SourceRow, Live
      <4>3. CASE SetMaxSilence(s)
        BY <4>3, <1>6 DEF SetMaxSilence, SourceRow, Live
      <4>4. CASE SetHealth(s)
        <5>1. PICK r \in SourceRow : r = sources[s]
            BY <1>6
        <5>2. PICK t : t = IF r.healthy THEN now ELSE NoTime
            OBVIOUS
        <5>3. PICK b : b = ~r.healthy
            OBVIOUS
        <5>4. sources'[s] = [r EXCEPT !.healthy = b, !.sickAt = t]
            BY <4>4, <1>6, <5>1, <5>2, <5>3 DEF SetHealth
        <5>5. sources'[s].healthy = b /\ sources'[s].sickAt = t
                /\ sources'[s].status = r.status
            BY <5>4 DEF SourceRow
        <5>6. reaper.pc # "idle" => reaper.now <= now
            BY DEF Kept, SourceInv
        <5> QED
            BY <1>3, <1>4, <5>1, <5>2, <5>3, <5>5, <5>6
      <4> QED
        BY <2>2, <4>1, <4>2, <4>3, <4>4
    <3>4. \A u \in Live' : sources'[u].maxSilence \in Silences
        BY <3>1, <3>2 DEF Kept, SourceInv, Live
    <3>5. \A u \in Sources :
            /\ sources[u].status # "absent" => sources'[u].status # "absent"
            /\ sources[u].status # "absent" /\ reaper.pc # "idle"
                 /\ (sources[u].healthy \/ sources[u].sickAt >= reaper.now)
                 => sources'[u].healthy \/ sources'[u].sickAt >= reaper.now
        BY <3>1, <3>3
    <3>6. reaper.pc = "health" => \A u \in reaper.proven : sources'[u].status # "absent"
        BY <1>4, <3>5 DEF Kept, SourceInv
    <3>7. reaper.pc = "expire" /\ reaper.reason # "source_removed" =>
            \A u \in reaper.proven :
               /\ sources'[u].status # "absent"
               /\ sources'[u].healthy \/ sources'[u].sickAt >= reaper.now
        BY <1>4, <3>5 DEF Kept, SourceInv
    <3> QED
        BY <1>1, <1>5, <3>4, <3>6, <3>7 DEF SourceInv
  <2> QED
    BY <2>1, <2>2 DEF Operator
<1> QED
    BY <1>1, <1>2, <1>7, NoWrite DEF Kept

\* The reaper wins its compare-and-set only about the row it read.
LEMMA ExpireKeeps ==
    ASSUME TypeOK, Targets, Kept, expireCommit
    PROVE  Sound(db)' /\ ProjInv' /\ StepFacts
<1> DEFINE k == reaper.seq
           row == db.rows[k]
           next == ApplyT6(reaper.snap, reaper.now, reaper.reason)
<1>1. /\ k \in Seqs /\ k \in 0..MaxCases /\ reaper.reason \in Expiries
      /\ reaper.snap \in Row /\ reaper.now \in Nat /\ row \in Row
      /\ reaper.pc = "commit" /\ Sound(db) /\ ProjInv
      /\ Pinned(row, reaper.snap) /\ Reapable(reaper.snap)
    BY DEF expireCommit, Targets, TypeOK, Reaper, DB, Kept, SnapInv
<1>2. CASE row.version = reaper.snap.version
  <2>1. db' = SweepCommit(db, k, next, <<"expired", k, 0>>, "expired")
    BY <1>2 DEF expireCommit
  <2>2. Decided(reaper.snap) = Decided(row)
    BY <1>1, <1>2 DEF Pinned
  <2>3. SameEpisode(reaper.snap, row)
    BY <1>1, <2>2, DecidedColumns
  <2>4. IsOpen(row) /\ ~ClosePending(row) /\ ~ClosePending(reaper.snap) /\ RowSound(row)
    BY <1>1, <2>3 DEF Reapable, IsOpen, ClosePending, SameEpisode, Sound, EpisodeSound
  <2>5. next \in Row
    <3>1. reaper.now \in Int
        BY <1>1
    <3> QED
        BY <1>1, <3>1, SweepTypes
  <2>6. /\ Persists(row, next) /\ next.state = "closed"
        /\ next.resolveReason = reaper.reason /\ ~ClosePending(next)
    BY <1>1, <2>3, <2>4, SweepSound
  <2>7. db.word[k] # "resolved"
    BY <1>1, <2>4 DEF Sound, EpisodeSound, WordSound, RowSound, IsOpen
  <2>8. <<"expired", k, 0>> \in EventTypes \X (0..MaxCases) \X Nat
    BY <1>1, EventIn DEF EventTypes
  <2> HIDE DEF next
  <2>9. WordSound(next, db.word[k])
    BY <1>1, <2>6, <2>7 DEF WordSound, Expiries
  <2>10. /\ Sound(db)' /\ ProjInv'
         /\ \A j \in Seqs : Follows(db.rows[j], db'.rows[j])
         /\ db'.rows[k].resolveReason = next.resolveReason
         /\ \A j \in Seqs : j # k => db'.rows[j] = db.rows[j]
    BY <1>1, <2>1, <2>4, <2>5, <2>6, <2>8, <2>9, SweepTx
  <2>11. \A j \in Seqs : IsOpen(db.rows[j]) => j = k
    BY <1>1, <2>4 DEF Sound, EpisodeSound
  <2> QED
    BY <1>1, <2>2, <2>6, <2>10, <2>11 DEF StepFacts
<1>3. CASE row.version # reaper.snap.version
  <2>1. db' = db
    BY <1>3 DEF expireCommit
  <2> QED
    BY <1>1, <2>1, NoWrite DEF ProjInv, ProjectionAgrees, Sound, EpisodeSound
<1> QED
    BY <1>2, <1>3

LEMMA CloseDueKeeps ==
    ASSUME TypeOK, Targets, Kept, closeDueCommit
    PROVE  Sound(db)' /\ ProjInv' /\ StepFacts
<1> DEFINE k == closer.seq
           row == db.rows[k]
           next == ApplyCloseDue(closer.snap)
<1>1. /\ k \in Seqs /\ k \in 0..MaxCases /\ closer.snap \in Row /\ row \in Row
      /\ Sound(db) /\ ProjInv /\ Pinned(row, closer.snap)
      /\ IsOpen(closer.snap) /\ ClosePending(closer.snap)
    BY DEF closeDueCommit, Targets, TypeOK, Closer, DB, Kept, SnapInv
<1>2. CASE row.version = closer.snap.version
  <2>1. db' = SweepCommit(db, k, next, <<"resolved", k, 0>>, "all_resolved")
    BY <1>2 DEF closeDueCommit
  <2>2. Decided(closer.snap) = Decided(row)
    BY <1>1, <1>2 DEF Pinned
  <2>3. SameEpisode(closer.snap, row)
    BY <1>1, <2>2, DecidedColumns
  <2>4. IsOpen(row) /\ ClosePending(row) /\ RowSound(row)
    BY <1>1, <2>3 DEF IsOpen, ClosePending, SameEpisode, Sound, EpisodeSound
  <2>5. next \in Row
    BY <1>1, SweepTypes, NoTimeType DEF Expiries
  <2>6. Persists(row, next) /\ next.state = "closed" /\ next.resolveReason = "upstream"
    BY <1>1, <2>3, <2>4, SweepSound
  <2>7. db.word[k] = "resolved"
    BY <1>1, <2>4 DEF Sound, EpisodeSound, WordSound
  <2>8. <<"resolved", k, 0>> \in EventTypes \X (0..MaxCases) \X Nat
    BY <1>1, EventIn DEF EventTypes
  <2> HIDE DEF next
  <2>9. WordSound(next, db.word[k])
    BY <2>6, <2>7 DEF WordSound
  <2>10. /\ Sound(db)' /\ ProjInv'
         /\ \A j \in Seqs : Follows(db.rows[j], db'.rows[j])
         /\ db'.rows[k].resolveReason = next.resolveReason
         /\ \A j \in Seqs : j # k => db'.rows[j] = db.rows[j]
    BY <1>1, <2>1, <2>4, <2>5, <2>6, <2>8, <2>9, SweepTx
  <2>11. \A j \in Seqs : IsOpen(db.rows[j]) => j = k
    BY <1>1, <2>4 DEF Sound, EpisodeSound
  <2> QED
    BY <1>1, <2>6, <2>10, <2>11 DEF StepFacts, Expiries
<1>3. CASE row.version # closer.snap.version
  <2>1. db' = db
    BY <1>3 DEF closeDueCommit
  <2> QED
    BY <1>1, <2>1, NoWrite DEF ProjInv, ProjectionAgrees, Sound, EpisodeSound
<1> QED
    BY <1>2, <1>3

\* An acknowledgement moves acked and restates the projection it read, which the
\* version it asserts still vouches for.
LEMMA AckKeeps ==
    ASSUME TypeOK, Targets, Kept, setAckCommit
    PROVE  Sound(db)' /\ ProjInv' /\ StepFacts
<1> DEFINE k == human.seq
           row == [db.rows[k] EXCEPT !.acked = human.ack]
           event == <<IF human.ack THEN "acknowledged" ELSE "unacknowledged", k, human.at>>
           reason == IF human.ack THEN "acked" ELSE "unacked"
           alert == [db.alert EXCEPT !.state = human.alert.state, !.suppressed = FALSE,
                                     !.current = k, !.total = human.alert.total]
           e == Edge(db, k, row, event, reason)
<1>1. /\ k \in Seqs /\ k \in 0..MaxCases /\ human.ack \in BOOLEAN /\ human.at \in Nat
      /\ human.alert \in Alert /\ db \in DB /\ db.rows[k] \in Row /\ db.alert \in Alert
      /\ Sound(db) /\ ProjInv /\ EpisodeSound(db, k)
    BY DEF setAckCommit, Targets, TypeOK, Human, DB, Kept, Sound
<1>2. CASE db.rows[k].version = human.version
  <2>1. db' = [e EXCEPT !.alert = alert]
    BY <1>2 DEF setAckCommit
  <2>2. /\ IsOpen(db.rows[k]) /\ human.alert.state = "firing" /\ human.alert.total = db.n
    BY <1>2 DEF setAckCommit, Kept, SnapInv
  <2>3. row \in Row /\ SameEpisode(row, db.rows[k]) /\ row.lastObservedAt = db.rows[k].lastObservedAt
    BY <1>1 DEF Row, SameEpisode
  <2>4. Decided(row) = Decided(db.rows[k])
    BY <1>1 DEF Decided, Row
  <2>5. event \in EventTypes \X (0..MaxCases) \X Nat /\ reason \in Reasons /\ reason # "fired"
        /\ reason \notin {"all_resolved", "expired"}
    BY <1>1, EventIn DEF EventTypes, Reasons
  <2>6. alert.known = db.alert.known /\ alert.state = "firing" /\ alert.current = k
          /\ alert.total = db.n
    BY <1>1, <2>2 DEF Alert
  <2> HIDE DEF row, event, reason, alert
  <2>7. e \in DB /\ e.rows = [db.rows EXCEPT ![k] = row] /\ e.n = db.n /\ e.word = db.word
    BY <1>1, <2>3, <2>5, EdgeType DEF Edge, DB
  <2>8. RowSound(row) /\ WordSound(row, db.word[k]) /\ row.state = "open"
    <3>1. RowSound(db.rows[k]) /\ WordSound(db.rows[k], db.word[k])
        BY <1>1 DEF EpisodeSound
    <3> QED
        BY <2>2, <2>3, <3>1 DEF RowSound, WordSound, SameEpisode, IsOpen, ClosePending
  <2>9. k = db.n
    BY <1>1, <2>2 DEF EpisodeSound
  <2>10. Sound(e)
    BY <1>1, <2>2, <2>3, <2>5, <2>8, <2>9, EdgeSound
  <2> HIDE DEF e
  <2>11. /\ db'.rows = [db.rows EXCEPT ![k] = row] /\ db'.n = db.n /\ db'.word = e.word
         /\ db'.notices = e.notices /\ db'.alert = alert
    BY <2>1, <2>7 DEF DB
  <2>12. Sound(db')
    BY <2>7, <2>10, <2>11, SoundIgnores
  <2>13. db'.rows[k] = row /\ \A j \in Seqs : j # k => db'.rows[j] = db.rows[j]
    BY <1>1, <2>11 DEF DB
  <2>14. ASSUME NEW j \in Seqs
         PROVE  /\ Follows(db.rows[j], db'.rows[j])
                /\ IsOpen(db.rows[j]) => db'.rows[j].resolveReason \notin Expiries
    <3>1. db.rows[j] \in Row /\ RowSound(db.rows[j])
        BY <1>1 DEF DB, Sound, EpisodeSound
    <3>2. CASE j = k
      <4>1. row.lastObservedAt >= db.rows[k].lastObservedAt
        BY <1>1, <2>3 DEF Row
      <4> QED
        BY <2>2, <2>4, <2>8, <2>13, <3>2, <4>1 DEF Follows, IsOpen, RowSound, Expiries
    <3>3. CASE j # k
        BY <2>13, <3>1, <3>3, FollowsReflexive DEF RowSound, IsOpen, Expiries
    <3> QED
        BY <3>2, <3>3
  <2>15. ProjInv'
    <3>1. Latest(db') = row /\ db.n > 0
      <4>1. k \in Int /\ k >= 1
        BY <1>1, BoundsAssumption DEF Seqs
      <4> QED
        BY <2>9, <2>11, <2>13, <4>1 DEF Latest
    <3>2. IsOpen(row) /\ AlertState(row) = "firing"
        BY <2>8 DEF IsOpen, AlertState
    <3> QED
        BY <1>1, <2>6, <2>9, <2>11, <3>1, <3>2 DEF ProjInv, ProjectionAgrees
  <2> QED
    BY <2>12, <2>14, <2>15 DEF StepFacts
<1>3. CASE db.rows[k].version # human.version
  <2>1. db' = db
    BY <1>3 DEF setAckCommit
  <2> QED
    BY <1>1, <2>1, NoWrite DEF ProjInv, ProjectionAgrees, Sound, EpisodeSound
<1> QED
    BY <1>2, <1>3

LEMMA ObserveKeeps ==
    ASSUME TypeOK, Targets, Kept, Observe
    PROVE  Kept' /\ StepFacts
<1>1. UNCHANGED <<now, retention, sources, reaper, closer, human>>
    BY DEF Observe, ObserveBegin, applyOpen, applyT2, applyT3, applyT4, applyT5Defer,
       applyT5, noTransition, ObserveCommit, ObserveAbort, Step
<1>2. SourceInv'
    BY <1>1 DEF Kept, SourceInv, Live
<1>3. CASE ObserveCommit
  <2>1. /\ Sound(db)' /\ ProjInv'
        /\ \A k \in Seqs :
             /\ Follows(db.rows[k], db'.rows[k])
             /\ IsOpen(db.rows[k]) => db'.rows[k].resolveReason \notin Expiries
    BY <1>3, CommitTx DEF Kept
  <2>2. TypeOK'
    BY ObserveType
  <2>3. SnapInv'
    BY <1>1, <2>1, <2>2, SnapStep DEF Kept
  <2>4. TxInv'
    BY <1>3 DEF ObserveCommit, TxInv, NoTx
  <2> QED
    BY <1>2, <2>1, <2>3, <2>4 DEF Kept, StepFacts
<1>4. CASE ~ObserveCommit
  <2>1. db' = db
    BY <1>4 DEF Observe, ObserveBegin, applyOpen, applyT2, applyT3, applyT4, applyT5Defer,
       applyT5, noTransition, ObserveAbort, Step
  <2>2. Sound(db)' /\ ProjInv' /\ SnapInv'
    BY <1>1, <2>1 DEF Kept, Sound, EpisodeSound, ProjInv, ProjectionAgrees, SnapInv
  <2>3. TxInv'
    <3>1. CASE \E a \in Actors : ObserveBegin(a)
        BY <3>1, BeginTx DEF Kept
    <3>2. CASE applyOpen
        BY <3>2, OpenTx DEF Kept
    <3>3. CASE applyT2 \/ applyT3 \/ applyT4 \/ applyT5Defer \/ applyT5
        BY <3>3, ObserveEdges DEF Kept
    <3>4. CASE noTransition
        BY <3>4, DropTx DEF Kept
    <3>5. CASE ObserveAbort
        BY <3>5 DEF ObserveAbort, TxInv, NoTx
    <3> QED
        BY <1>4, <3>1, <3>2, <3>3, <3>4, <3>5 DEF Observe
  <2>4. StepFacts
    BY <2>1, NoWrite DEF Kept
  <2> QED
    BY <1>2, <2>2, <2>3, <2>4 DEF Kept
<1> QED
    BY <1>3, <1>4

\* A re-read row is pinned, and the tick's verdict about it is about that row.
LEMMA ExpireReadSnap ==
    ASSUME TypeOK, Targets, Kept, expireRead, reaper'.pc = "commit"
    PROVE  /\ Pinned(db.rows[reaper'.seq], reaper'.snap) /\ Reapable(reaper'.snap)
           /\ reaper'.reason = "timeout" => PastEnd(reaper'.snap, reaper'.now)
           /\ reaper'.reason = "silent" =>
                \E m \in Silences \ {0} : reaper'.snap.lastObservedAt + m < reaper'.now
<1> DEFINE row == db.rows[reaper.seq]
<1>1. reaper \in Reaper /\ reaper.seq \in Seqs /\ row \in Row
    BY DEF expireRead, TypeOK, Targets, DB
<1>2. ReapNext.pc # "commit"
    BY <1>1 DEF ReapNext, IdleReaper, Reaper
<1>3. Expirable(row) /\ reaper' = [reaper EXCEPT !.pc = "commit", !.snap = row]
    BY <1>2 DEF expireRead
<1>4. /\ reaper'.seq = reaper.seq /\ reaper'.snap = row /\ reaper'.now = reaper.now
      /\ reaper'.reason = reaper.reason
    BY <1>1, <1>3 DEF Reaper
<1>5. Pinned(row, row)
    BY <1>1 DEF Pinned, Row
<1>6. Reapable(row)
    BY <1>3 DEF Expirable
<1>7. reaper.reason = "timeout" => PastEnd(row, reaper.now)
    BY <1>3 DEF Expirable
<1>8. ASSUME reaper.reason = "silent"
      PROVE  \E m \in Silences \ {0} : row.lastObservedAt + m < reaper.now
  <2>1. SilentSince(row.lastObservedAt, reaper.now)
    BY <1>3, <1>8 DEF Expirable
  <2>2. PICK s \in Live : /\ sources[s].maxSilence > 0
                          /\ row.lastObservedAt + sources[s].maxSilence < reaper.now
    BY <2>1 DEF SilentSince
  <2>3. sources[s].maxSilence \in Silences
    BY DEF Kept, SourceInv
  <2>4. sources[s].maxSilence # 0
    BY <2>2
  <2> QED
    BY <2>2, <2>3, <2>4
<1> QED
    BY <1>4, <1>5, <1>6, <1>7, <1>8

LEMMA ReapKeeps ==
    ASSUME TypeOK, Targets, Kept, Reap
    PROVE  Kept' /\ StepFacts
<1>1. UNCHANGED <<now, retention, sources, tx, closer, human>>
    BY DEF Reap, ReapBegin, SourceRemovedCandidates, GuardedCandidates, resolveSources,
       healthBySource, expireRead, expireCommit, ReapAbandon, ReapUnchanged
<1>2. TypeOK'
    BY ReapType
<1>3. /\ reaper \in Reaper /\ now \in Nat /\ reaper.now \in Nat
      /\ reaper.pc # "idle" => reaper.now <= now
    BY DEF TypeOK, Reaper, Kept, SourceInv
<1>4. /\ IdleReaper.pc = "idle"
      /\ ReapNext.pc \in {"idle", "scan"}
      /\ reaper.pc # "idle" => ReapNext.pc = "idle" \/ ReapNext.now = reaper.now
    BY <1>3 DEF IdleReaper, ReapNext, Reaper
<1>5. Sound(db)' /\ ProjInv' /\ StepFacts
  <2>1. CASE expireCommit
    BY <2>1, ExpireKeeps
  <2>2. CASE ~expireCommit
    <3>1. db' = db
        BY <2>2 DEF Reap, ReapBegin, SourceRemovedCandidates, GuardedCandidates,
           resolveSources, healthBySource, expireRead, ReapAbandon, ReapUnchanged
    <3> QED
        BY <3>1, NoWrite DEF Kept, Sound, EpisodeSound, ProjInv, ProjectionAgrees
  <2> QED
    BY <2>1, <2>2
<1>6. TxInv'
  <2>1. CASE expireCommit
    BY <1>1, <2>1 DEF expireCommit, TxInv
  <2>2. CASE ~expireCommit
    <3>1. db' = db
        BY <2>2 DEF Reap, ReapBegin, SourceRemovedCandidates, GuardedCandidates,
           resolveSources, healthBySource, expireRead, ReapAbandon, ReapUnchanged
    <3> QED
        BY <1>1, <3>1 DEF Kept, TxInv
  <2> QED
    BY <2>1, <2>2
<1>7. SnapInv'
  <2>1. CASE reaper'.pc # "commit"
    BY <1>1, <1>2, <1>5, <2>1, SnapStep DEF Kept, StepFacts
  <2>2. CASE reaper'.pc = "commit"
    <3>1. expireRead
        BY <1>3, <1>4, <2>2 DEF Reap, ReapBegin, SourceRemovedCandidates, GuardedCandidates,
           resolveSources, healthBySource, expireCommit, ReapAbandon, Reaper, IdleReaper
    <3>2. db' = db
        BY <3>1 DEF expireRead, ReapUnchanged
    <3> QED
        BY <1>1, <2>2, <3>1, <3>2, ExpireReadSnap DEF Kept, SnapInv
  <2> QED
    BY <2>1, <2>2
<1>8. SourceInv'
  <2>1. \A s \in Live' : sources'[s].maxSilence \in Silences
    BY <1>1 DEF Kept, SourceInv, Live
  <2>2. reaper'.pc # "idle" => reaper'.now <= now
    <3>1. CASE ReapBegin
        BY <1>3, <3>1 DEF ReapBegin, IdleReaper
    <3>2. CASE expireRead \/ expireCommit \/ ReapAbandon
        BY <1>3, <1>4, <3>2 DEF expireRead, expireCommit, ReapAbandon, Reaper
    <3>3. CASE SourceRemovedCandidates \/ GuardedCandidates \/ resolveSources \/ healthBySource
        BY <1>3, <1>4, <3>3 DEF SourceRemovedCandidates, GuardedCandidates, resolveSources,
           healthBySource, Reaper
    <3> QED
        BY <3>1, <3>2, <3>3 DEF Reap
  <2>3. reaper'.pc = "health" => \A s \in reaper'.proven : sources[s].status # "absent"
    <3>1. CASE resolveSources
        BY <1>3, <1>4, <3>1 DEF resolveSources, Reaper, Live
    <3>2. CASE ~resolveSources
        BY <1>3, <1>4, <3>2 DEF Reap, ReapBegin, SourceRemovedCandidates, GuardedCandidates,
           healthBySource, expireRead, expireCommit, ReapAbandon, Reaper, IdleReaper
    <3> QED
        BY <3>1, <3>2
  <2>4. reaper'.pc = "expire" /\ reaper'.reason # "source_removed" =>
            \A s \in reaper'.proven :
               /\ sources[s].status # "absent"
               /\ sources[s].healthy \/ sources[s].sickAt >= reaper'.now
    <3>1. CASE healthBySource
        BY <1>3, <1>4, <3>1 DEF healthBySource, Reaper, AllHealthy, Kept, SourceInv
    <3>2. CASE ~healthBySource
        BY <1>3, <1>4, <3>2 DEF Reap, ReapBegin, SourceRemovedCandidates, GuardedCandidates,
           resolveSources, expireRead, expireCommit, ReapAbandon, Reaper, IdleReaper
    <3> QED
        BY <3>1, <3>2
  <2> QED
    BY <1>1, <2>1, <2>2, <2>3, <2>4 DEF SourceInv
<1> QED
    BY <1>5, <1>6, <1>7, <1>8 DEF Kept

LEMMA CloserKeeps ==
    ASSUME TypeOK, Targets, Kept, CloseDue
    PROVE  Kept' /\ StepFacts
<1>1. UNCHANGED <<now, retention, sources, tx, reaper, human>>
    BY DEF CloseDue, CloseDueCandidates, closeDueRead, closeDueCommit, CloseAbandon,
       CloseUnchanged
<1>2. TypeOK'
    BY CloseType
<1>3. SourceInv'
    BY <1>1 DEF Kept, SourceInv, Live
<1>4. CASE closeDueCommit
  <2>1. Sound(db)' /\ ProjInv' /\ StepFacts
    BY <1>4, CloseDueKeeps
  <2>2. TxInv'
    BY <1>1, <1>4 DEF closeDueCommit, TxInv
  <2>3. closer'.pc # "commit"
    BY <1>4 DEF closeDueCommit, IdleCloser
  <2>4. SnapInv'
    BY <1>1, <1>2, <2>1, <2>3, SnapStep DEF Kept, StepFacts
  <2> QED
    BY <1>3, <2>1, <2>2, <2>4 DEF Kept
<1>5. CASE ~closeDueCommit
  <2>1. db' = db
    BY <1>5 DEF CloseDue, CloseDueCandidates, closeDueRead, CloseAbandon, CloseUnchanged
  <2>2. Sound(db)' /\ ProjInv' /\ TxInv'
    BY <1>1, <2>1 DEF Kept, Sound, EpisodeSound, ProjInv, ProjectionAgrees, TxInv
  <2>3. StepFacts
    BY <2>1, NoWrite DEF Kept
  <2>4. closer'.pc = "commit" =>
          /\ Pinned(db.rows[closer'.seq], closer'.snap)
          /\ IsOpen(closer'.snap) /\ ClosePending(closer'.snap)
    <3>1. CASE closeDueRead
      <4>1. closer \in Closer /\ closer.seq \in Seqs /\ db.rows[closer.seq] \in Row
        BY <3>1 DEF closeDueRead, TypeOK, Targets, DB
      <4>2. Pinned(db.rows[closer.seq], db.rows[closer.seq])
        BY <4>1 DEF Pinned, Row
      <4> QED
        BY <3>1, <4>1, <4>2 DEF closeDueRead, Closer, IdleCloser, CloseDueAt
    <3>2. CASE ~closeDueRead
        BY <1>5, <3>2 DEF CloseDue, CloseDueCandidates, CloseAbandon, IdleCloser
    <3> QED
        BY <3>1, <3>2
  <2>5. SnapInv'
    BY <1>1, <2>1, <2>4 DEF Kept, SnapInv
  <2> QED
    BY <1>3, <2>2, <2>3, <2>5 DEF Kept
<1> QED
    BY <1>4, <1>5

LEMMA HumanKeeps ==
    ASSUME TypeOK, Targets, Kept, setAckRead \/ setAckCommit
    PROVE  Kept' /\ StepFacts
<1>1. UNCHANGED <<now, retention, sources, tx, reaper, closer>>
    BY DEF setAckRead, setAckCommit
<1>2. TypeOK'
    BY HumanType
<1>3. SourceInv'
    BY <1>1 DEF Kept, SourceInv, Live
<1>4. CASE setAckCommit
  <2>1. Sound(db)' /\ ProjInv' /\ StepFacts
    BY <1>4, AckKeeps
  <2>2. TxInv'
    BY <1>1, <1>4 DEF setAckCommit, TxInv
  <2>3. human'.pc # "commit"
    BY <1>4 DEF setAckCommit, IdleHuman
  <2>4. SnapInv'
    BY <1>1, <1>2, <2>1, <2>3, SnapStep DEF Kept, StepFacts
  <2> QED
    BY <1>3, <2>1, <2>2, <2>4 DEF Kept
<1>5. CASE setAckRead
  <2>1. db' = db
    BY <1>5 DEF setAckRead
  <2>2. Sound(db)' /\ ProjInv' /\ TxInv'
    BY <1>1, <2>1 DEF Kept, Sound, EpisodeSound, ProjInv, ProjectionAgrees, TxInv
  <2>3. StepFacts
    BY <2>1, NoWrite DEF Kept
  <2>4. PICK k \in 1..db.n, ack \in BOOLEAN :
          /\ IsOpen(db.rows[k])
          /\ human' = [pc |-> "commit", ack |-> ack, at |-> now, seq |-> k,
                       version |-> db.rows[k].version, alert |-> db.alert]
    BY <1>5 DEF setAckRead
  <2>5. k \in Seqs /\ db.n > 0
    <3>1. db.n \in Int /\ db.n <= MaxCases /\ MaxCases \in Int
        BY BoundsAssumption DEF TypeOK, DB
    <3> QED
        BY <3>1 DEF Seqs
  <2>6. k = db.n /\ Latest(db) = db.rows[k]
    BY <2>4, <2>5 DEF Kept, Sound, EpisodeSound, Latest
  <2>7. db.alert.state = "firing" /\ db.alert.total = db.n
    BY <2>4, <2>5, <2>6 DEF Kept, ProjInv, ProjectionAgrees, AlertState, IsOpen
  <2>8. db.rows[k].version \in Nat
    BY <2>5 DEF TypeOK, DB, Row
  <2>9. /\ human'.version <= db.rows[human'.seq].version
        /\ IsOpen(db.rows[human'.seq])
        /\ human'.alert.state = "firing" /\ human'.alert.total = db.n
    BY <2>4, <2>7, <2>8
  <2>10. SnapInv'
    BY <1>1, <2>1, <2>9 DEF Kept, SnapInv
  <2> QED
    BY <1>3, <2>2, <2>3, <2>10 DEF Kept
<1> QED
    BY <1>4, <1>5

LEMMA InitKept == Init => Kept
<1> SUFFICES ASSUME Init PROVE Kept
    OBVIOUS
<1>1. Sound(db)
  <2> SUFFICES ASSUME NEW k \in Seqs PROVE EpisodeSound(EmptyDB, k)
    BY DEF Init, Sound
  <2>1. /\ EmptyDB.rows[k] = NoRow /\ EmptyDB.n = 0 /\ EmptyDB.word[k] = "none"
        /\ EmptyDB.notices[<<"fired", k>>] = 0 /\ EmptyDB.notices[<<"expired", k>>] = 0
        /\ EmptyDB.notices[<<"all_resolved", k>>] = 0
    BY DEF EmptyDB, Reasons
  <2>2. k \in Int /\ k > 0 /\ ~(k <= 0)
    BY BoundsAssumption DEF Seqs
  <2>3. WordSound(NoRow, "none")
    BY DEF WordSound, ClosePending, NoRow
  <2>4. ~IsOpen(NoRow)
    BY DEF IsOpen, NoRow
  <2> QED
    BY <2>1, <2>2, <2>3, <2>4, NoRowSound DEF EpisodeSound
<1>2. TxInv
    BY DEF Init, TxInv, NoTx
<1>3. ProjInv
    BY DEF Init, ProjInv, ProjectionAgrees, EmptyDB, NoAlert
<1>4. SnapInv
    BY DEF Init, SnapInv, IdleReaper, IdleCloser, IdleHuman
<1>5. SourceInv
  <2>1. \A s \in Sources : sources[s].status = "live" => sources[s].maxSilence \in Silences
    <3>1. \A m \in Silences : LiveSource(m).maxSilence = m
        BY DEF LiveSource, AbsentSource
    <3>2. AbsentSource.status # "live"
        BY DEF AbsentSource
    <3> QED
        BY <3>1, <3>2 DEF Init
  <2> QED
    BY <2>1 DEF Init, SourceInv, IdleReaper, Live
<1> QED
    BY <1>1, <1>2, <1>3, <1>4, <1>5 DEF Kept

LEMMA SafetyStep ==
    ASSUME IInv, [Next]_vars
    PROVE  IInv' /\ StepFacts
<1>1. TypeOK /\ Targets /\ Kept
    BY DEF IInv, Kept
<1>2. TypeOK' /\ Targets'
    BY <1>1, TypeStep
<1>3. Kept' /\ StepFacts
  <2>1. CASE Tick \/ Operator
    BY <1>1, <2>1, OperatorKeeps
  <2>2. CASE Observe
    BY <1>1, <2>2, ObserveKeeps
  <2>3. CASE Reap
    BY <1>1, <2>3, ReapKeeps
  <2>4. CASE CloseDue
    BY <1>1, <2>4, CloserKeeps
  <2>5. CASE setAckRead \/ setAckCommit
    BY <1>1, <2>5, HumanKeeps
  <2>6. CASE UNCHANGED vars
    <3>1. UNCHANGED <<now, db, sources, tx, reaper, closer, human>>
        BY <2>6 DEF vars
    <3>2. Kept'
        BY <1>1, <3>1 DEF Kept, Sound, EpisodeSound, TxInv, ProjInv, ProjectionAgrees,
           SnapInv, SourceInv, Live
    <3> QED
        BY <1>1, <3>1, <3>2, NoWrite DEF Kept
  <2> QED
    BY <2>1, <2>2, <2>3, <2>4, <2>5, <2>6 DEF Next
<1> QED
    BY <1>2, <1>3 DEF IInv, Kept

LEMMA Invariance == Spec => []IInv
<1>1. Init => IInv
    BY InitType, InitKept DEF IInv, Kept, Init, Targets, IdleReaper, IdleCloser, IdleHuman
<1>2. IInv /\ [Next]_vars => IInv'
    BY SafetyStep
<1> QED
    BY <1>1, <1>2, PTL DEF Spec

(***************************************************************************)
(* The theorems.                                                           *)
(***************************************************************************)
\* No committed alert_cases row ever breaks a CHECK of migrations 00007 and 00057,
\* although every edge is decided in memory against one row and written onto another.
THEOREM RowsStaySound == Spec => []RowsSound
<1>1. IInv => RowsSound
    BY DEF IInv, Sound, EpisodeSound, RowsSound
<1> QED
    BY <1>1, Invariance, PTL

\* However observe transactions, sweeps and humans interleave, episodes are gapless
\* by seq and only the latest can be open: the unique indexes never refuse a write.
THEOREM EpisodesStayUnique == Spec => []OneOpenEpisode
<1>1. IInv => OneOpenEpisode
  <2> SUFFICES ASSUME IInv, NEW k \in Seqs
               PROVE  /\ db.rows[k].state # "none" <=> k <= db.n
                      /\ IsOpen(db.rows[k]) => k = db.n
    BY DEF OneOpenEpisode
  <2>1. EpisodeSound(db, k) /\ k \in Int /\ db.n \in Int
    BY BoundsAssumption DEF IInv, Sound, TypeOK, DB, Seqs
  <2> QED
    BY <2>1 DEF EpisodeSound
<1> QED
    BY <1>1, Invariance, PTL

\* A resolution is never fabricated and never lost: an episode holds a receipt or
\* ended as `upstream` exactly when `resolved` was upstream's last word on it.
THEOREM LastWordStands == Spec => []LastWord
<1>1. IInv => LastWord
    BY DEF IInv, Sound, EpisodeSound, WordSound, LastWord
<1> QED
    BY <1>1, Invariance, PTL

\* After every commit, whoever made it, alerts.state, current_case_id and
\* total_cases describe the latest episode.
THEOREM ProjectionStaysTrue == Spec => []ProjectionAgrees
<1>1. IInv => ProjectionAgrees
    BY DEF IInv, ProjInv
<1> QED
    BY <1>1, Invariance, PTL

\* Every episode is announced once when it opens and once when it has ended.
THEOREM NoticesAreExact == Spec => []OneNoticePerEdge
<1>1. IInv => OneNoticePerEdge
    BY DEF IInv, Sound, EpisodeSound, OneNoticePerEdge
<1> QED
    BY <1>1, Invariance, PTL

\* A snapshot whose state_version still stands is the row, ack columns apart: the
\* compare-and-set of both sweeps is sound.
THEOREM VersionPins == Spec => []VersionPinsTheRow
<1>1. IInv => VersionPinsTheRow
    BY DEF IInv, SnapInv, Pinned, VersionPinsTheRow
<1> QED
    BY <1>1, Invariance, PTL

\* No writer, however late its read, changes a closed row.
THEOREM ClosedStaysClosed == Spec => TerminalIsTerminal
<1>1. IInv /\ [Next]_vars =>
        [\A k \in Seqs : db.rows[k].state = "closed" => db'.rows[k] = db.rows[k]]_vars
    BY SafetyStep DEF StepFacts, Follows
<1> QED
    BY <1>1, Invariance, PTL DEF Spec, TerminalIsTerminal

\* last_observed_at never moves back, in whatever order stamped observations commit.
THEOREM ObservedIsMonotone == Spec => ObservedNeverRewinds
<1>1. IInv /\ [Next]_vars =>
        [\A k \in Seqs : db'.rows[k].lastObservedAt >= db.rows[k].lastObservedAt]_vars
    BY SafetyStep DEF StepFacts, Follows
<1> QED
    BY <1>1, Invariance, PTL DEF Spec, ObservedNeverRewinds

\* An expiry commits what the reaper read, about a row that is still what it read.
LEMMA ExpiryGrounds ==
    ASSUME IInv, [Next]_vars, NEW k \in Seqs,
           IsOpen(db.rows[k]), db'.rows[k].resolveReason \in Expiries
    PROVE  /\ ~ClosePending(db.rows[k])
           /\ db'.rows[k].resolveReason = "timeout" => PastEnd(db.rows[k], now)
           /\ db'.rows[k].resolveReason = "silent" =>
                \E m \in Silences \ {0} : db.rows[k].lastObservedAt + m < now
<1>1. /\ reaper.pc = "commit" /\ db'.rows[k].resolveReason = reaper.reason
      /\ Decided(reaper.snap) = Decided(db.rows[k])
    BY SafetyStep DEF StepFacts
<1>2. /\ reaper.snap \in Row /\ db.rows[k] \in Row /\ reaper.now \in Nat /\ now \in Nat
    BY DEF IInv, TypeOK, Reaper, DB
<1>3. /\ SameEpisode(reaper.snap, db.rows[k])
      /\ reaper.snap.lastObservedAt = db.rows[k].lastObservedAt
      /\ reaper.snap.sourceEndsAt = db.rows[k].sourceEndsAt
    BY <1>1, <1>2, DecidedColumns
<1>4. /\ Reapable(reaper.snap) /\ reaper.now <= now
      /\ reaper.reason = "timeout" => PastEnd(reaper.snap, reaper.now)
      /\ reaper.reason = "silent" =>
           \E m \in Silences \ {0} : reaper.snap.lastObservedAt + m < reaper.now
    BY <1>1 DEF IInv, SnapInv, SourceInv
<1>5. ~ClosePending(db.rows[k])
    BY <1>3, <1>4 DEF Reapable, ClosePending, SameEpisode
<1>6. ASSUME reaper.reason = "timeout" PROVE PastEnd(db.rows[k], now)
  <2>1. db.rows[k].sourceEndsAt \in Int /\ ResolveGrace \in Nat
    BY <1>2, ConfigAssumption DEF Row
  <2>2. PastEnd(reaper.snap, reaper.now)
    BY <1>4, <1>6
  <2> QED
    BY <1>2, <1>3, <1>4, <2>1, <2>2 DEF PastEnd
<1>7. ASSUME reaper.reason = "silent"
      PROVE  \E m \in Silences \ {0} : db.rows[k].lastObservedAt + m < now
  <2>1. PICK m \in Silences \ {0} : db.rows[k].lastObservedAt + m < reaper.now
    BY <1>3, <1>4, <1>7
  <2>2. m \in Nat /\ db.rows[k].lastObservedAt \in Int
    BY <1>2, ConfigAssumption DEF Row
  <2> QED
    BY <1>2, <1>4, <2>1, <2>2
<1> QED
    BY <1>1, <1>5, <1>6, <1>7

\* An episode ends as `timeout` only while its own row, at the moment of the write,
\* says that the grace has run out and that no resolve is held.
THEOREM TimeoutIsGrounded == Spec => TimeoutStillProven
<1>1. IInv /\ [Next]_vars =>
        [\A k \in Seqs :
            IsOpen(db.rows[k]) /\ db'.rows[k].resolveReason = "timeout"
              => PastEnd(db.rows[k], now) /\ ~ClosePending(db.rows[k])]_vars
    BY ExpiryGrounds DEF Expiries
<1> QED
    BY <1>1, Invariance, PTL DEF Spec, TimeoutStillProven

\* An episode ends as `silent` only if the row being closed went unconfirmed for
\* longer than a threshold some operator wrote.
THEOREM SilenceIsGrounded == Spec => SilentIsOverdue
<1>1. IInv /\ [Next]_vars =>
        [\A k \in Seqs :
            IsOpen(db.rows[k]) /\ db'.rows[k].resolveReason = "silent"
              => \E m \in Silences \ {0} : db.rows[k].lastObservedAt + m < now]_vars
    BY ExpiryGrounds DEF Expiries
<1> QED
    BY <1>1, Invariance, PTL DEF Spec, SilentIsOverdue

\* Blind is not quiet: whatever is registered, removed or probed during a tick, a
\* case ends as `timeout` or `silent` only if every live source was healthy at some
\* instant of that tick.
THEOREM ExpiryIsSeen == Spec => NoExpiryUnseen
<1> DEFINE Seen == reaper.pc = "expire" /\ reaper'.pc = "commit"
                     /\ reaper.reason \in {"timeout", "silent"}
                     => \A s \in Live : sources[s].healthy \/ sources[s].sickAt >= reaper.now
<1>1. IInv /\ [Next]_vars => [Seen]_vars
  <2> SUFFICES ASSUME IInv, [Next]_vars, reaper.pc = "expire", reaper'.pc = "commit",
                      reaper.reason \in {"timeout", "silent"}
               PROVE  \A s \in Live : sources[s].healthy \/ sources[s].sickAt >= reaper.now
    OBVIOUS
  <2>1. expireRead
    <3>1. reaper' # reaper
        OBVIOUS
    <3>2. Reap
        BY <3>1 DEF Next, Tick, Operator, SetRetention, RegisterSource, RemoveSource,
           SetMaxSilence, SetHealth, Observe, ObserveBegin, applyOpen, applyT2, applyT3,
           applyT4, applyT5Defer, applyT5, noTransition, ObserveCommit, ObserveAbort, Step,
           CloseDue, CloseDueCandidates, closeDueRead, closeDueCommit, CloseAbandon,
           CloseUnchanged, setAckRead, setAckCommit, vars
    <3> QED
        BY <3>2 DEF Reap, ReapBegin, SourceRemovedCandidates, GuardedCandidates,
           resolveSources, healthBySource, expireCommit, ReapAbandon, IdleReaper
  <2>2. Expirable(db.rows[reaper.seq])
    <3>1. ReapNext.pc # "commit"
        BY DEF ReapNext, IdleReaper, IInv, TypeOK, Reaper
    <3> QED
        BY <2>1, <3>1 DEF expireRead
  <2>3. Live = reaper.proven
    BY <2>2 DEF Expirable
  <2> QED
    BY <2>3 DEF IInv, SourceInv
<1> QED
    BY <1>1, Invariance, PTL DEF Spec, NoExpiryUnseen
=============================================================================
