--------------------------- MODULE CaseLifecycle ---------------------------
(***************************************************************************)
(* The life of one alert: its episodes (alert_cases rows), the projection  *)
(* of the current episode on the alerts row, the timeline keys and the     *)
(* notify.evaluate jobs that every edge leaves behind, and the five        *)
(* writers that race for the row: the observe transaction of ingest and    *)
(* the reconciler, the reaper, the delayed close, a human, and the         *)
(* operator who edits sources and the retention window.                    *)
(*                                                                         *)
(* All state is per alert, so one alert is modelled.  The observe          *)
(* transaction locks the alerts row with its first statement and every     *)
(* other writer needs that row before it can commit, so nobody commits     *)
(* while tx.on holds; readers see only committed rows (READ COMMITTED).    *)
(***************************************************************************)
EXTENDS Integers, Sequences, FiniteSets

CONSTANTS
    Sources,        \* alert_sources ids that may ever feed the alert's cluster
    Windows,        \* retention windows W an operator may configure; 0 is off
    ResolveGrace,   \* resolve_grace
    Silences,       \* max_silence_s values an operator may write; 0 is NULL
    ExpireUnheard,  \* jobs.expire_silent_and_removed
    Ends,           \* endsAt claims upstream may make; NoTime is the zero time
    StampLag,       \* how long before the transaction ObservedAt was stamped
    Writers,        \* the writers this deployment runs
    MaxTime, MaxCases, MaxVersion, MaxBatch, MaxAcks       \* bounds

NoTime == -1
Times  == 0..MaxTime
Seqs   == 1..MaxCases

ASSUME BoundsAssumption ==
    /\ MaxTime \in Nat /\ MaxCases \in Nat \ {0}
    /\ MaxVersion \in Nat /\ MaxBatch \in Nat \ {0} /\ MaxAcks \in Nat
ASSUME ConfigAssumption ==
    /\ Windows \subseteq Nat /\ Windows # {}
    /\ Silences \subseteq Nat /\ Silences # {}
    /\ ResolveGrace \in Nat /\ StampLag \in Nat
    /\ ExpireUnheard \in BOOLEAN
    /\ Ends \subseteq Nat \cup {NoTime}
    /\ Writers \subseteq {"ingest", "reconciler", "reaper", "closer", "human",
                          "registry", "prober", "policy", "faults"}

Max2(a, b) == IF a >= b THEN a ELSE b

(***************************************************************************)
(* Rows.                                                                   *)
(***************************************************************************)
Expiries == {"timeout", "silent", "source_removed"}

Row == [state          : {"none", "open", "closed"},
        suppressed     : BOOLEAN,
        startedAt      : Int,
        endedAt        : Int,
        lastObservedAt : Int,
        sourceEndsAt   : Int,
        resolveReason  : {"none", "upstream"} \cup Expiries,
        pendingAt      : Int,
        pendingEndAt   : Int,
        suppressCount  : Nat,
        version        : Nat,
        acked          : BOOLEAN]

NoRow == [state |-> "none", suppressed |-> FALSE, startedAt |-> NoTime,
          endedAt |-> NoTime, lastObservedAt |-> NoTime,
          sourceEndsAt |-> NoTime, resolveReason |-> "none",
          pendingAt |-> NoTime, pendingEndAt |-> NoTime,
          suppressCount |-> 0, version |-> 0, acked |-> FALSE]

IsOpen(c)       == c.state = "open"
ClosePending(c) == c.pendingAt # NoTime

\* Mutant: suppression stored as a state instead of an axis.
AlertStateAxisless(c) == IF c.suppressed THEN "suppressed"
                         ELSE IF c.state = "open" THEN "firing" ELSE "resolved"
AlertState(c) == CASE c.state = "none" -> "none"
                   [] c.state = "open" -> "firing"
                   [] c.state = "closed" /\ c.resolveReason = "upstream" -> "resolved"
                   [] OTHER -> "expired"

\* Mutant: an episode holding a receipt is taken for an ended one.
lifecyclePhaseReceiptEnds(c) ==
    IF ClosePending(c) THEN "resolved"
    ELSE IF IsOpen(c) /\ c.suppressed THEN "suppressed" ELSE AlertState(c)
lifecyclePhase(c) ==
    IF IsOpen(c) /\ c.suppressed THEN "suppressed" ELSE AlertState(c)

\* OpenNewCase and openCaseSQL: an episode starts open, unacked, at version 1.
OpenedRow(at, ends) ==
    [NoRow EXCEPT !.state = "open", !.startedAt = at, !.lastObservedAt = at,
                  !.sourceEndsAt = ends, !.version = 1]

(***************************************************************************)
(* The edges of the domain machine, as it computes them in memory.  The    *)
(* machine never moves version.                                            *)
(***************************************************************************)
Observed(c, at, ends) ==
    [c EXCEPT !.lastObservedAt = at,
              !.sourceEndsAt = IF ends = NoTime THEN @ ELSE ends]

ApplyT2(c, at, ends) ==
    [Observed(c, at, ends) EXCEPT !.pendingAt = NoTime, !.pendingEndAt = NoTime]

\* Mutant: the suppression is not counted, so its dedupe key repeats.
ApplyT3Uncounted(c, at, ends) ==
    [ApplyT2(c, at, ends) EXCEPT !.suppressed = TRUE]

ApplyT3(c, at, ends) ==
    [Observed(c, at, ends) EXCEPT !.suppressed = TRUE,
                                  !.suppressCount = c.suppressCount + 1,
                                  !.pendingAt = NoTime, !.pendingEndAt = NoTime]

ApplyT4(c, at, ends) == [Observed(c, at, ends) EXCEPT !.suppressed = FALSE]

\* The deferral: the episode stays open and keeps the resolve as a receipt.
ApplyT5Defer(c, at, ends, occurred, w) ==
    [Observed(c, at, ends) EXCEPT
        !.pendingAt = at + w,
        !.pendingEndAt = Max2(occurred, c.startedAt)]

ApplyT5(c, at, ends, occurred) ==
    [Observed(c, at, ends) EXCEPT
        !.state = "closed", !.resolveReason = "upstream", !.suppressed = FALSE,
        !.endedAt = Max2(occurred, c.startedAt),
        !.pendingAt = NoTime, !.pendingEndAt = NoTime]

\* close_due: the receipt is spent, and ended_at is the upstream claim it kept.
ApplyCloseDue(c) ==
    [c EXCEPT !.state = "closed", !.resolveReason = "upstream",
              !.suppressed = FALSE, !.endedAt = c.pendingEndAt,
              !.pendingAt = NoTime, !.pendingEndAt = NoTime]

ApplyT6(c, at, reason) ==
    [c EXCEPT !.state = "closed", !.resolveReason = reason,
              !.suppressed = FALSE, !.endedAt = Max2(at, c.startedAt)]

(***************************************************************************)
(* The two UPDATE statements an edge is persisted through.                 *)
(***************************************************************************)
\* Mutants: the re-fire leaves the receipt; the re-fire leaves the version.
observeSQLKeepsReceipt(row, at, ends) ==
    [row EXCEPT !.lastObservedAt = Max2(@, at), !.sourceEndsAt = Max2(@, ends),
                !.version = @ + 1]
observeSQLUnversioned(row, at, ends) ==
    [row EXCEPT !.lastObservedAt = Max2(@, at), !.sourceEndsAt = Max2(@, ends),
                !.pendingAt = NoTime, !.pendingEndAt = NoTime]

\* observeSQL (T2): keyed on the id alone, monotone by GREATEST.
observeSQL(row, at, ends) ==
    [row EXCEPT !.lastObservedAt = Max2(@, at), !.sourceEndsAt = Max2(@, ends),
                !.pendingAt = NoTime, !.pendingEndAt = NoTime,
                !.version = @ + 1]

\* Mutant: a plain assignment where the statement says GREATEST.
transitionSQLRewinds(row, next) ==
    [next EXCEPT !.acked = row.acked, !.version = row.version + 1]

\* transitionSQL (every other edge); the caller asserts state_version.
transitionSQL(row, next) ==
    [row EXCEPT !.state = next.state, !.suppressed = next.suppressed,
                !.resolveReason = next.resolveReason, !.endedAt = next.endedAt,
                !.lastObservedAt = Max2(@, next.lastObservedAt),
                !.sourceEndsAt = IF next.sourceEndsAt = NoTime THEN @
                                                   ELSE next.sourceEndsAt,
                !.suppressCount = IF next.suppressCount > 0
                                     THEN next.suppressCount ELSE @,
                !.pendingAt = next.pendingAt, !.pendingEndAt = next.pendingEndAt,
                !.version = @ + 1]

(***************************************************************************)
(* What the database holds about the alert.                                *)
(*   alert    the projection columns of the alerts row;                    *)
(*   rows, n  alert_cases by seq, and the highest seq;                     *)
(*   events   the dedupe keys claimed in alert_event_keys;                 *)
(*   notices  how many notify.evaluate jobs were enqueued, per reason;     *)
(*   word, heardAt  history only: the last status upstream reported of     *)
(*            each episode while it was open, and when upstream last       *)
(*            reported anything about the alert.                           *)
(***************************************************************************)
Reasons == {"fired", "suppressed", "unsuppressed", "all_resolved", "expired",
            "acked", "unacked"}
Statuses == {"firing", "suppressed", "resolved"}
EventTypes == {"created", "opened", "suppressed", "unsuppressed", "resolved",
               "expired", "acknowledged", "unacknowledged", "unacked_new_case"}

Alert == [known      : BOOLEAN,
          state      : {"none", "firing", "resolved", "expired"},
          suppressed : BOOLEAN,
          current    : 0..MaxCases,
          total      : Nat]

DB == [rows    : [Seqs -> Row],
       n       : 0..MaxCases,
       alert   : Alert,
       events  : SUBSET (EventTypes \X (0..MaxCases) \X Nat),
       notices : [Reasons \X Seqs -> Nat],
       word    : [Seqs -> Statuses \cup {"none"}],
       heardAt : Int]

NoAlert == [known |-> FALSE, state |-> "none", suppressed |-> FALSE,
            current |-> 0, total |-> 0]

EmptyDB == [rows    |-> [k \in Seqs |-> NoRow],
            n       |-> 0,
            alert   |-> NoAlert,
            events  |-> {},
            notices |-> [x \in Reasons \X Seqs |-> 0],
            word    |-> [k \in Seqs |-> "none"],
            heardAt |-> NoTime]

Latest(d) == IF d.n = 0 THEN NoRow ELSE d.rows[d.n]

\* Mutant: current_case_id is not cleared when the episode ends.
projectionForKeepsCurrent(d, k, c, newEpisodes) ==
    [d.alert EXCEPT !.state = AlertState(c), !.suppressed = c.suppressed,
                    !.current = k, !.total = @ + newEpisodes]

\* projectionFor: the alerts row restated from one case.
projectionFor(d, k, c, newEpisodes) ==
    [d.alert EXCEPT !.state = AlertState(c), !.suppressed = c.suppressed,
                    !.current = IF IsOpen(c) THEN k ELSE 0,
                    !.total = @ + newEpisodes]

\* One edge on episode k: the row, its timeline key and its notification.
Edge(d, k, row, event, reason) ==
    [d EXCEPT !.rows[k] = row, !.events = @ \cup {event},
              !.notices[<<reason, k>>] = @ + 1]

VARIABLES
    now,        \* oto's clock
    db,         \* the committed rows
    retention,  \* case_policy_config: W for this alert
    sources,    \* alert_sources and source_health, by id
    tx,         \* the observe transaction holding the alert's row lock
    reaper,     \* one case.reap tick
    closer,     \* one delayed-close tick
    human       \* one acknowledge or unacknowledge request

vars == <<now, db, retention, sources, tx, reaper, closer, human>>

(***************************************************************************)
(* Sources.                                                                *)
(***************************************************************************)
\* sickAt is history: when a source that was healthy stopped being so.
SourceRow == [status : {"absent", "live", "removed"}, healthy : BOOLEAN,
              removedAt : Int, maxSilence : Nat, sickAt : Int]

AbsentSource == [status |-> "absent", healthy |-> FALSE, removedAt |-> NoTime,
                 maxSilence |-> 0, sickAt |-> NoTime]

\* A new source has no health yet: source_health starts out `unknown`.
LiveSource(m) == [AbsentSource EXCEPT !.status = "live", !.maxSilence = m]

Live    == {s \in Sources : sources[s].status = "live"}
Removed == {s \in Sources : sources[s].status = "removed"}

RemovedBefore(t) == \A s \in Removed : sources[s].removedAt < t

\* Mutant: the threshold is spent one instant early.
SilentSinceEarly(t, at) ==
    /\ Live # {}
    /\ \A s \in Live : sources[s].maxSilence > 0
    /\ \A s \in Live : t + sources[s].maxSilence <= at

\* effectiveSilenceSQL: the longest live max_silence_s, off if any is off.
\* The cluster's threshold has passed since t, as of the clock reading at.
SilentSince(t, at) ==
    /\ Live # {}
    /\ \A s \in Live : sources[s].maxSilence > 0
    /\ \A s \in Live : t + sources[s].maxSilence < at

AllHealthy(S) == S # {} /\ \A s \in S : sources[s].healthy

RegisterSource(s) ==
    /\ "registry" \in Writers
    /\ sources[s].status = "absent"
    /\ \E m \in Silences :
         sources' = [sources EXCEPT ![s] = LiveSource(m)]
    /\ UNCHANGED <<now, db, retention, tx, reaper, closer, human>>

RemoveSource(s) ==
    /\ "registry" \in Writers
    /\ s \in Live
    /\ sources' = [sources EXCEPT ![s].status = "removed", ![s].removedAt = now]
    /\ UNCHANGED <<now, db, retention, tx, reaper, closer, human>>

SetMaxSilence(s) ==
    /\ "registry" \in Writers
    /\ s \in Live
    /\ \E m \in Silences \ {sources[s].maxSilence} :
         sources' = [sources EXCEPT ![s].maxSilence = m]
    /\ UNCHANGED <<now, db, retention, tx, reaper, closer, human>>

\* A probe moves source_health.status into or out of `healthy`.
SetHealth(s) ==
    /\ "prober" \in Writers
    /\ s \in Live
    /\ sources' = [sources EXCEPT ![s].healthy = ~@,
                        ![s].sickAt = IF sources[s].healthy THEN now ELSE NoTime]
    /\ UNCHANGED <<now, db, retention, tx, reaper, closer, human>>

SetRetention ==
    /\ "policy" \in Writers
    /\ \E w \in Windows \ {retention} : retention' = w
    /\ UNCHANGED <<now, db, sources, tx, reaper, closer, human>>

Tick ==
    /\ now < MaxTime
    /\ now' = now + 1
    /\ UNCHANGED <<db, retention, sources, tx, reaper, closer, human>>

(***************************************************************************)
(* ObserveBatch.  One transaction: upsert (takes the row lock), read the   *)
(* latest case, one step per observation, project, commit.  mem is the     *)
(* accumulator's in-memory view of the episode.                            *)
(***************************************************************************)
Actors == {"ingest", "reconciler"}

\* A webhook carries firing or resolved; a reconcile pass firing or suppressed.
StatusesOf(actor) == IF actor = "ingest" THEN {"firing", "resolved"}
                                         ELSE {"firing", "suppressed"}
Observation == [status : Statuses, ends : Ends]
Batches(actor) ==
    UNION {[1..k -> [status : StatusesOf(actor), ends : Ends]] : k \in 1..MaxBatch}

\* The upstream start claim.  Only a resolve with no endsAt reads it.
SourceStartsAt == 0
Occurred(o) == IF o.ends = NoTime THEN SourceStartsAt ELSE o.ends

Tx == [on : BOOLEAN, at : Nat, todo : Seq(Observation),
       db : DB, mem : Row, touched : BOOLEAN, opened : Nat]

NoTx == [on |-> FALSE, at |-> 0, todo |-> <<>>,
         db |-> EmptyDB, mem |-> NoRow, touched |-> FALSE, opened |-> 0]

\* UpsertBatch: the first sighting inserts the row with the last status seen.
Upserted(d, obs) ==
    IF d.alert.known THEN d
    ELSE [d EXCEPT !.alert.known = TRUE,
                   !.alert.state = IF obs[Len(obs)].status = "resolved"
                                     THEN "resolved" ELSE "firing",
                   !.events = @ \cup {<<"created", 0, 0>>}]

ObserveBegin(actor) ==
    /\ actor \in Writers /\ ~tx.on
    /\ Live \cup Removed # {}
    /\ IsOpen(Latest(db)) => Latest(db).version + MaxBatch <= MaxVersion
    /\ \E obs \in Batches(actor), at \in {t \in Times : now - StampLag <= t /\ t <= now} :
         tx' = [on |-> TRUE, at |-> at, todo |-> obs,
                db |-> Upserted(db, obs), mem |-> Latest(db),
                touched |-> FALSE, opened |-> 0]
    /\ UNCHANGED <<now, db, retention, sources, reaper, closer, human>>

\* The observation being decided, as selectRule sees it.
Deciding(status, phases) ==
    /\ tx.on /\ tx.todo # <<>>
    /\ Head(tx.todo).status = status
    /\ lifecyclePhase(tx.mem) \in phases

\* Case.check on the row an edge produced: recorded_at may not precede the start.
ClockAdmits == tx.at >= tx.mem.startedAt

\* Transition's compare-and-set, against the version the machine read.
VersionHolds == tx.db.rows[tx.db.n].version = tx.mem.version

\* History: what this observation told oto about the open episode.
Hear(d, status) ==
    [d EXCEPT !.heardAt = Max2(@, tx.at),
              !.word = IF d.n > 0 /\ IsOpen(d.rows[d.n])
                         THEN [@ EXCEPT ![d.n] = status] ELSE @]

\* The rest of the transaction sees the edge in memory and in its own rows.
Step(d, mem) ==
    /\ tx' = [tx EXCEPT !.todo = Tail(@), !.db = d, !.mem = mem, !.touched = TRUE]
    /\ UNCHANGED <<now, db, retention, sources, reaper, closer, human>>

\* T1 and T7: a new episode, unacked; an ack on the old one is announced dropped.
applyOpen ==
    /\ Deciding("firing", {"none", "resolved", "expired"})
    /\ tx.db.n < MaxCases
    /\ LET k   == tx.db.n + 1
           row == OpenedRow(tx.at, Head(tx.todo).ends)
           d   == [tx.db EXCEPT !.n = k]
           e   == Edge(d, k, row, <<"opened", k, 0>>, "fired")
           f   == IF tx.mem.acked
                    THEN [e EXCEPT !.events = @ \cup {<<"unacked_new_case", k, 0>>},
                                   !.notices[<<"unacked", k>>] = @ + 1]
                    ELSE e
       IN tx' = [tx EXCEPT !.todo = Tail(@), !.db = Hear(f, "firing"),
                           !.mem = row, !.touched = TRUE, !.opened = @ + 1]
    /\ UNCHANGED <<now, db, retention, sources, reaper, closer, human>>

\* T2: a repeat observation folds in, unguarded by the version.
applyT2 ==
    /\ Deciding("firing", {"firing"})
    /\ ClockAdmits
    /\ LET o == Head(tx.todo)
           k == tx.db.n
       IN Step([Hear(tx.db, "firing") EXCEPT
                  !.rows[k] = observeSQL(@, tx.at, o.ends)],
               ApplyT2(tx.mem, tx.at, o.ends))

\* T3: suppressed; only the reconciler can see it.
applyT3 ==
    /\ Deciding("suppressed", {"firing"})
    /\ ClockAdmits /\ VersionHolds
    /\ LET next == ApplyT3(tx.mem, tx.at, Head(tx.todo).ends)
           k    == tx.db.n
       IN Step(Edge(Hear(tx.db, "suppressed"), k,
                    transitionSQL(tx.db.rows[k], next),
                    <<"suppressed", k, next.suppressCount>>, "suppressed"),
               next)

\* T4: any firing observation proves the suppression over.
applyT4 ==
    /\ Deciding("firing", {"suppressed"})
    /\ ClockAdmits /\ VersionHolds
    /\ LET next == ApplyT4(tx.mem, tx.at, Head(tx.todo).ends)
           k    == tx.db.n
       IN Step(Edge(Hear(tx.db, "firing"), k,
                    transitionSQL(tx.db.rows[k], next),
                    <<"unsuppressed", k, next.suppressCount>>, "unsuppressed"),
               next)

\* T5 deferred: the receipt is written; no event, no notification.
applyT5Defer ==
    /\ Deciding("resolved", {"firing"})
    /\ retention > 0
    /\ ClockAdmits /\ VersionHolds
    /\ LET o    == Head(tx.todo)
           next == ApplyT5Defer(tx.mem, tx.at, o.ends, Occurred(o), retention)
           k    == tx.db.n
       IN Step([Hear(tx.db, "resolved") EXCEPT !.rows[k] = transitionSQL(@, next)],
               next)

\* T5: no window, or suppressed, so the episode closes on the resolve.
applyT5 ==
    /\ Deciding("resolved", {"firing", "suppressed"})
    /\ retention = 0 \/ tx.mem.suppressed
    /\ ClockAdmits /\ VersionHolds
    /\ LET o    == Head(tx.todo)
           next == ApplyT5(tx.mem, tx.at, o.ends, Occurred(o))
           k    == tx.db.n
       IN Step(Edge(Hear(tx.db, "resolved"), k,
                    transitionSQL(tx.db.rows[k], next),
                    <<"resolved", k, 0>>, "all_resolved"),
               next)

\* No row of the table: the observation is dropped after the upsert.
noTransition ==
    /\ \/ Deciding("suppressed", {"none", "suppressed", "resolved", "expired"})
       \/ Deciding("resolved", {"none", "resolved", "expired"})
    /\ tx' = [tx EXCEPT !.todo = Tail(@),
                        !.db = Hear(tx.db, Head(tx.todo).status)]
    /\ UNCHANGED <<now, db, retention, sources, reaper, closer, human>>

\* flushProjections and COMMIT.
ObserveCommit ==
    /\ tx.on /\ tx.todo = <<>>
    /\ db' = IF tx.touched
               THEN [tx.db EXCEPT !.alert =
                       projectionFor(tx.db, tx.db.n, tx.mem, tx.opened)]
               ELSE tx.db
    /\ tx' = NoTx
    /\ UNCHANGED <<now, retention, sources, reaper, closer, human>>

\* A lost compare-and-set, a refused clock, a deadlock victim, a dead worker:
\* everything the transaction wrote is rolled back and the batch is retried.
ObserveAbort ==
    /\ tx.on
    /\ tx' = NoTx
    /\ UNCHANGED <<now, db, retention, sources, reaper, closer, human>>

(***************************************************************************)
(* Reap.  The clock is read once per tick; the scans and the health guard  *)
(* run outside any transaction; each expiry re-reads its row and writes by *)
(* compare-and-set.  seq is the case under consideration (0: none yet),    *)
(* so that one tick decides a case once.                                   *)
(***************************************************************************)
Reaper == [pc : {"idle", "removed", "scan", "prove", "health", "expire", "commit"},
           now : Nat, seq : 0..MaxCases, reason : Expiries \cup {"none"},
           proven : SUBSET Sources, snap : Row]

IdleReaper == [pc |-> "idle", now |-> 0, seq |-> 0, reason |-> "none",
               proven |-> {}, snap |-> NoRow]

\* Mutant: the scans forget the receipt.
ReapableWithReceipt(c) == IsOpen(c)
\* Open, holding no receipt: what every candidate scan asks of the row.
Reapable(c) == IsOpen(c) /\ ~ClosePending(c)

PastEnd(c, t)   == c.sourceEndsAt # NoTime /\ t > c.sourceEndsAt + ResolveGrace
Orphaned(t)     == Live = {} /\ Removed # {} /\ RemovedBefore(t - ResolveGrace)

ReapUnchanged == UNCHANGED <<now, db, retention, sources, tx, closer, human>>

\* What the tick does after the case it was considering.
ReapNext == IF reaper.reason = "source_removed"
              THEN [reaper EXCEPT !.pc = "scan", !.snap = NoRow]
              ELSE IdleReaper

ReapBegin ==
    /\ "reaper" \in Writers
    /\ reaper.pc = "idle"
    /\ reaper' = [IdleReaper EXCEPT !.now = now,
                    !.pc = IF ExpireUnheard THEN "removed" ELSE "scan"]
    /\ ReapUnchanged

\* Mutant: the health guard is applied to the one reason that has no source.
SourceRemovedCandidatesGuarded ==
    /\ reaper.pc = "removed"
    /\ reaper' = IF Reapable(Latest(db)) /\ Orphaned(reaper.now) /\ AllHealthy(Live)
                   THEN [reaper EXCEPT !.pc = "expire", !.seq = db.n,
                                       !.reason = "source_removed"]
                   ELSE [reaper EXCEPT !.pc = "scan"]
    /\ ReapUnchanged

SourceRemovedCandidates ==
    /\ reaper.pc = "removed"
    /\ reaper' = IF Reapable(Latest(db)) /\ Orphaned(reaper.now)
                   THEN [reaper EXCEPT !.pc = "expire", !.seq = db.n,
                                       !.reason = "source_removed"]
                   ELSE [reaper EXCEPT !.pc = "scan"]
    /\ ReapUnchanged

\* ReapCandidates and SilentCandidates; a case in both is owned by timeout.
GuardedCandidates ==
    /\ reaper.pc = "scan"
    /\ LET c == Latest(db)
           timeout == Reapable(c) /\ PastEnd(c, reaper.now) /\ AllHealthy(Live)
           silent  == /\ ExpireUnheard /\ Reapable(c) /\ AllHealthy(Live)
                      /\ SilentSince(c.lastObservedAt, reaper.now)
       IN reaper' = IF (timeout \/ silent) /\ reaper.seq # db.n
                      THEN [reaper EXCEPT !.pc = "prove", !.seq = db.n,
                              !.reason = IF timeout THEN "timeout" ELSE "silent"]
                      ELSE IdleReaper
    /\ ReapUnchanged

\* resolveSources: the sources that speak for the case; none holds it.
resolveSources ==
    /\ reaper.pc = "prove"
    /\ reaper' = IF Live = {} THEN IdleReaper
                 ELSE [reaper EXCEPT !.pc = "health", !.proven = Live]
    /\ ReapUnchanged

\* healthBySource: every one of them must be healthy, or the case is held.
healthBySource ==
    /\ reaper.pc = "health"
    /\ reaper' = IF AllHealthy(reaper.proven) THEN [reaper EXCEPT !.pc = "expire"]
                                              ELSE IdleReaper
    /\ ReapUnchanged

\* Mutant: the live set is not compared with the one that was proven.
ExpirableUnproven(c) ==
    /\ Reapable(c)
    /\ CASE reaper.reason = "timeout" -> Live # {} /\ PastEnd(c, reaper.now)
         [] reaper.reason = "silent" -> SilentSince(c.lastObservedAt, reaper.now)
         [] reaper.reason = "source_removed" -> Orphaned(reaper.now)
         [] OTHER -> FALSE

\* unreapable, unexpirable and expiryAdmits, asked of the fresh row and cluster.
Expirable(c) ==
    /\ Reapable(c)
    /\ CASE reaper.reason = "timeout" ->
              Live # {} /\ Live = reaper.proven /\ PastEnd(c, reaper.now)
         [] reaper.reason = "silent" ->
              Live = reaper.proven /\ SilentSince(c.lastObservedAt, reaper.now)
         [] reaper.reason = "source_removed" -> Orphaned(reaper.now)
         [] OTHER -> FALSE

expireRead ==
    /\ reaper.pc = "expire"
    /\ LET fresh == db.rows[reaper.seq]
       IN reaper' = IF Expirable(fresh)
                      THEN [reaper EXCEPT !.pc = "commit", !.snap = fresh]
                      ELSE ReapNext
    /\ ReapUnchanged

\* An edge a sweep commits: row, projection, event and notification together.
SweepCommit(d, k, next, event, reason) ==
    LET e == Edge(d, k, transitionSQL(d.rows[k], next), event, reason)
    IN [e EXCEPT !.alert = projectionFor(d, k, next, 0)]

\* Mutant: the expiry is written by id, with no compare-and-set.
expireCommitBlind ==
    /\ reaper.pc = "commit" /\ ~tx.on
    /\ LET next == ApplyT6(reaper.snap, reaper.now, reaper.reason)
       IN db' = SweepCommit(db, reaper.seq, next, <<"expired", reaper.seq, 0>>,
                            "expired")
    /\ reaper' = ReapNext
    /\ UNCHANGED <<now, retention, sources, tx, closer, human>>

expireCommit ==
    /\ reaper.pc = "commit" /\ ~tx.on
    /\ LET k == reaper.seq
           next == ApplyT6(reaper.snap, reaper.now, reaper.reason)
       IN db' = IF db.rows[k].version = reaper.snap.version
                  THEN SweepCommit(db, k, next, <<"expired", k, 0>>, "expired")
                  ELSE db
    /\ reaper' = ReapNext
    /\ UNCHANGED <<now, retention, sources, tx, closer, human>>

\* A failed statement, a deadlock victim or a killed job: the tick is over.
ReapAbandon ==
    /\ "faults" \in Writers
    /\ reaper.pc # "idle"
    /\ reaper' = IdleReaper
    /\ ReapUnchanged

(***************************************************************************)
(* CloseDue.                                                               *)
(***************************************************************************)
Closer == [pc : {"idle", "read", "commit"}, now : Nat, seq : 0..MaxCases,
           snap : Row]
IdleCloser == [pc |-> "idle", now |-> 0, seq |-> 0, snap |-> NoRow]

CloseDueAt(c, t) == ClosePending(c) /\ c.pendingAt <= t

CloseUnchanged == UNCHANGED <<now, db, retention, sources, tx, reaper, human>>

\* Mutant: the sweep is skipped where retention is off now.
CloseDueCandidatesIfRetaining ==
    /\ "closer" \in Writers /\ retention > 0
    /\ closer.pc = "idle"
    /\ CloseDueAt(Latest(db), now)
    /\ closer' = [pc |-> "read", now |-> now, seq |-> db.n, snap |-> NoRow]
    /\ CloseUnchanged

CloseDueCandidates ==
    /\ "closer" \in Writers
    /\ closer.pc = "idle"
    /\ CloseDueAt(Latest(db), now)
    /\ closer' = [pc |-> "read", now |-> now, seq |-> db.n, snap |-> NoRow]
    /\ CloseUnchanged

closeDueRead ==
    /\ closer.pc = "read"
    /\ LET fresh == db.rows[closer.seq]
       IN closer' = IF IsOpen(fresh) /\ CloseDueAt(fresh, closer.now)
                      THEN [closer EXCEPT !.pc = "commit", !.snap = fresh]
                      ELSE IdleCloser
    /\ CloseUnchanged

\* Mutant: the delayed close is written by id, with no compare-and-set.
closeDueCommitBlind ==
    /\ closer.pc = "commit" /\ ~tx.on
    /\ db' = SweepCommit(db, closer.seq, ApplyCloseDue(closer.snap),
                         <<"resolved", closer.seq, 0>>, "all_resolved")
    /\ closer' = IdleCloser
    /\ UNCHANGED <<now, retention, sources, tx, reaper, human>>

closeDueCommit ==
    /\ closer.pc = "commit" /\ ~tx.on
    /\ LET k == closer.seq
       IN db' = IF db.rows[k].version = closer.snap.version
                  THEN SweepCommit(db, k, ApplyCloseDue(closer.snap),
                                   <<"resolved", k, 0>>, "all_resolved")
                  ELSE db
    /\ closer' = IdleCloser
    /\ UNCHANGED <<now, retention, sources, tx, reaper, human>>

CloseAbandon ==
    /\ "faults" \in Writers
    /\ closer.pc # "idle"
    /\ closer' = IdleCloser
    /\ CloseUnchanged

(***************************************************************************)
(* setAck: a human acknowledges or withdraws, on one open episode.         *)
(***************************************************************************)
Human == [pc : {"idle", "commit"}, ack : BOOLEAN, at : Nat, seq : 0..MaxCases,
          version : Nat, alert : Alert]
IdleHuman == [pc |-> "idle", ack |-> FALSE, at |-> 0, seq |-> 0, version |-> 0,
              alert |-> NoAlert]

\* The reads: an ended episode refuses both verbs, a repeat of one is refused.
setAckRead ==
    /\ "human" \in Writers
    /\ human.pc = "idle"
    /\ \E k \in 1..db.n, ack \in BOOLEAN :
         /\ IsOpen(db.rows[k])
         /\ db.rows[k].acked # ack
         /\ db.notices[<<"acked", k>>] < MaxAcks \/ ~ack
         /\ human' = [pc |-> "commit", ack |-> ack, at |-> now, seq |-> k,
                      version |-> db.rows[k].version, alert |-> db.alert]
    /\ UNCHANGED <<now, db, retention, sources, tx, reaper, closer>>

\* Mutant: the ack is written by id, with no state_version asserted.
setAckCommitBlind ==
    /\ human.pc = "commit" /\ ~tx.on
    /\ db' = Edge(db, human.seq, [db.rows[human.seq] EXCEPT !.acked = human.ack],
                  <<"acknowledged", human.seq, human.at>>, "acked")
    /\ human' = IdleHuman
    /\ UNCHANGED <<now, retention, sources, tx, reaper, closer>>

\* SetAck asserts state_version and leaves it; the projection written is the
\* alert as it was read, with no suppression columns.
setAckCommit ==
    /\ human.pc = "commit" /\ ~tx.on
    /\ LET k == human.seq
           row == [db.rows[k] EXCEPT !.acked = human.ack]
           event == <<IF human.ack THEN "acknowledged" ELSE "unacknowledged",
                      k, human.at>>
       IN db' = IF db.rows[k].version = human.version
                  THEN [Edge(db, k, row, event,
                             IF human.ack THEN "acked" ELSE "unacked")
                        EXCEPT !.alert = [db.alert EXCEPT
                                 !.state = human.alert.state,
                                 !.suppressed = FALSE,
                                 !.current = k,
                                 !.total = human.alert.total]]
                  ELSE db
    /\ human' = IdleHuman
    /\ UNCHANGED <<now, retention, sources, tx, reaper, closer>>

(***************************************************************************)
(* The specification.                                                      *)
(***************************************************************************)
Init ==
    /\ now = 0
    /\ db = EmptyDB
    /\ retention \in Windows
    /\ sources \in [Sources -> {AbsentSource} \cup {LiveSource(m) : m \in Silences}]
    /\ tx = NoTx
    /\ reaper = IdleReaper
    /\ closer = IdleCloser
    /\ human = IdleHuman

Observe ==
    \/ \E a \in Actors : ObserveBegin(a)
    \/ applyOpen \/ applyT2 \/ applyT3 \/ applyT4 \/ applyT5Defer \/ applyT5
    \/ noTransition \/ ObserveCommit \/ ObserveAbort

Reap ==
    \/ ReapBegin \/ SourceRemovedCandidates \/ GuardedCandidates
    \/ resolveSources \/ healthBySource \/ expireRead \/ expireCommit
    \/ ReapAbandon

CloseDue == CloseDueCandidates \/ closeDueRead \/ closeDueCommit \/ CloseAbandon

Operator ==
    \/ SetRetention
    \/ \E s \in Sources : RegisterSource(s) \/ RemoveSource(s)
                            \/ SetMaxSilence(s) \/ SetHealth(s)

Next == \/ Tick \/ Operator \/ Observe \/ Reap \/ CloseDue
        \/ setAckRead \/ setAckCommit

Spec == Init /\ [][Next]_vars

(***************************************************************************)
(* Properties.                                                             *)
(***************************************************************************)
\* Every row, snapshot and program counter keeps its type under every writer.
TypeOK ==
    /\ now \in Nat
    /\ db \in DB
    /\ retention \in Nat
    /\ sources \in [Sources -> SourceRow]
    /\ tx \in Tx
    /\ reaper \in Reaper
    /\ closer \in Closer
    /\ human \in Human

\* Case.check and the CHECKs on alert_cases.
RowSound(c) ==
    /\ c.state = "closed" <=> c.endedAt # NoTime
    /\ c.state = "closed" <=> c.resolveReason # "none"
    /\ c.endedAt # NoTime => c.endedAt >= c.startedAt
    /\ c.lastObservedAt >= c.startedAt
    /\ c.suppressed => IsOpen(c)
    /\ ClosePending(c) <=> c.pendingEndAt # NoTime
    /\ ClosePending(c) => /\ IsOpen(c) /\ ~c.suppressed
                          /\ c.pendingEndAt >= c.startedAt

\* No row any interleaving commits would be refused by the database: the CHECKs
\* of migrations 00007 and 00057 hold of every episode although the edge was
\* decided in memory against one row and written onto another.
RowsSound == \A k \in Seqs : RowSound(db.rows[k])

\* case_one_open_idx and case_seq_uniq never have to refuse a write: episodes are
\* gapless by seq and only the latest may be open.
OneOpenEpisode ==
    \A k \in Seqs : /\ db.rows[k].state # "none" <=> k <= db.n
                    /\ IsOpen(db.rows[k]) => k = db.n

\* A resolution is never fabricated and never lost: an episode holds a receipt
\* or ended as `upstream` exactly when `resolved` was the last thing upstream
\* said of it, so no sweep expires an episode whose resolve oto is holding and
\* no due close ends one that fired again.
LastWord ==
    \A k \in Seqs : db.word[k] = "resolved"
        <=> ClosePending(db.rows[k]) \/ db.rows[k].resolveReason = "upstream"

\* alerts.state, current_case_id and total_cases describe the latest episode
\* after every commit, whichever of the four writers made it.
ProjectionAgrees ==
    db.n > 0 => /\ db.alert.state = AlertState(Latest(db))
                /\ db.alert.current = IF IsOpen(Latest(db)) THEN db.n ELSE 0
                /\ db.alert.total = db.n

\* The dedupe keys neither collapse two facts nor split one: the timeline of an
\* episode has one opening, one end of the right kind, and one entry per
\* suppression and per unsuppression that happened.
TimelineTellsTheStory ==
    \A k \in 1..db.n :
        LET c == db.rows[k]
            Keys(t) == {e[3] : e \in {x \in db.events : x[1] = t /\ x[2] = k}}
        IN /\ <<"opened", k, 0>> \in db.events
           /\ <<"resolved", k, 0>> \in db.events <=> c.resolveReason = "upstream"
           /\ <<"expired", k, 0>> \in db.events <=> c.resolveReason \in Expiries
           /\ Keys("suppressed") = 1..c.suppressCount
           /\ IsOpen(c) => Keys("unsuppressed") =
                1..(c.suppressCount - (IF c.suppressed THEN 1 ELSE 0))

\* Nobody is told twice that an episode began or ended, and nobody is told of a
\* deferred close before it happens.
OneNoticePerEdge ==
    \A k \in Seqs :
        /\ db.notices[<<"fired", k>>] = IF k <= db.n THEN 1 ELSE 0
        /\ db.notices[<<"all_resolved", k>>] + db.notices[<<"expired", k>>]
             = IF db.rows[k].state = "closed" THEN 1 ELSE 0

\* Everything a sweep decides from; ack columns are outside the version.
Decided(c) == [c EXCEPT !.acked = FALSE]

\* The compare-and-set means what it says: a snapshot whose state_version still
\* stands is the row, so a sweep that wins wrote a verdict about the row it
\* replaced.
VersionPinsTheRow ==
    /\ reaper.pc = "commit" /\ db.rows[reaper.seq].version = reaper.snap.version
         => Decided(db.rows[reaper.seq]) = Decided(reaper.snap)
    /\ closer.pc = "commit" /\ db.rows[closer.seq].version = closer.snap.version
         => Decided(db.rows[closer.seq]) = Decided(closer.snap)

\* A closed case is strictly terminal (ADR 0040): no writer, however late its
\* read, changes any column of it again.
TerminalIsTerminal ==
    [][\A k \in Seqs : db.rows[k].state = "closed" => db'.rows[k] = db.rows[k]]_vars

\* An episode ends as `timeout` only while its own row still says the grace has
\* run out and no resolve is held, at the moment of the write.
TimeoutStillProven ==
    [][\A k \in Seqs :
         IsOpen(db.rows[k]) /\ db'.rows[k].resolveReason = "timeout"
           => PastEnd(db.rows[k], now) /\ ~ClosePending(db.rows[k])]_vars

\* Blind is not quiet: a case ends as `timeout` or `silent` only if every source
\* then speaking for its cluster was healthy at some instant of this very tick,
\* a source registered after the scan included.
NoExpiryUnseen ==
    [][reaper.pc = "expire" /\ reaper'.pc = "commit"
         /\ reaper.reason \in {"timeout", "silent"}
         => \A s \in Live : sources[s].healthy \/ sources[s].sickAt >= reaper.now]_vars

\* An episode ends as `silent` only if the row being closed had gone unconfirmed
\* for longer than a threshold some operator wrote, whatever was edited meanwhile.
SilentIsOverdue ==
    [][\A k \in Seqs :
         IsOpen(db.rows[k]) /\ db'.rows[k].resolveReason = "silent"
           => \E m \in Silences \ {0} : db.rows[k].lastObservedAt + m < now]_vars

\* "a second observation of the same alert inside one batch decides against what
\* the first one did rather than against a stale read" (service/lifecycle.go): the
\* transaction never loses its compare-and-set to its own earlier write.
BatchNeverLosesToItself ==
    \/ Deciding("resolved", {"firing", "suppressed"})
    \/ Deciding("suppressed", {"firing"})
    \/ Deciding("firing", {"suppressed"})
    => VersionHolds

\* last_observed_at never moves back, although observations are stamped before
\* their transaction waits for the row lock.
ObservedNeverRewinds ==
    [][\A k \in Seqs : db'.rows[k].lastObservedAt >= db.rows[k].lastObservedAt]_vars

(***************************************************************************)
(* Liveness.  The periodic jobs are rescheduled for ever, a transaction    *)
(* that began ends, and Postgres grants a row lock in arrival order, so a  *)
(* commit which is possible again and again happens.  The runs leave out   *)
(* "faults": a killed tick leaves no trace, so what holds from every state *)
(* of a fault-free run holds after the last fault.                         *)
(***************************************************************************)
Fairness ==
    /\ WF_vars(Tick)
    /\ WF_vars(tx.on /\ Observe)
    /\ WF_vars(CloseDue) /\ SF_vars(closeDueCommit)
    /\ WF_vars(Reap) /\ SF_vars(expireCommit)

FairSpec == Spec /\ Fairness

\* Every resolve oto holds is eventually acted on: a receipt is spent by the
\* delayed close, cleared by a re-fire or pushed forward by another resolve, even
\* after the operator turned retention off.  (The bounded clock exempts receipts
\* due beyond it.)
DueWithinClock(c) == ClosePending(c) /\ c.pendingAt <= MaxTime
ReceiptIsSpent ==
    \A k \in Seqs : DueWithinClock(db.rows[k]) ~> ~DueWithinClock(db.rows[k])

\* No case stays open for ever under a cluster whose every source is gone.
OrphansEnd == []<>~(Reapable(Latest(db)) /\ Orphaned(now))
=============================================================================
