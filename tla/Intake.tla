------------------------------- MODULE Intake -------------------------------
(***************************************************************************)
(* How oto comes to know what one Alertmanager knows: the webhook path     *)
(* (accept, dedup, ingest.process_batch, operator replay), the reconcile   *)
(* pass with its probe of the source, the health row both read and write   *)
(* whole, and the sweeps that end an episode.  How an observation is       *)
(* written is CaseLifecycle's subject: here an episode is only the phase   *)
(* the transition table leaves it in.  Time is abstract: a dedup claim has *)
(* lapsed or not when it is tried, and the clock of an episode runs out    *)
(* unless what it shows is being confirmed.                                *)
(***************************************************************************)
EXTENDS Integers, FiniteSets

CONSTANTS
    Alerts,            \* the alerts of one Alertmanager group
    Workers,           \* ingest workers
    Passes,            \* reconcile passes that may overlap
    MaxAttempts,       \* deliveries of an ingest job
    UnreachableAfter,  \* UnreachableAfterFailures
    Clocked,           \* alerts with an endsAt, or of a source with MaxSilence on
    Deferred,          \* alerts with a retention window
    Faults,            \* what may go wrong
    MaxBatches, MaxChanges, MaxFaults                              \* bounds

ASSUME IntakeAssumption ==
    /\ MaxAttempts \in Nat \ {0} /\ UnreachableAfter \in Nat \ {0}
    /\ MaxBatches \in Nat /\ MaxChanges \in Nat /\ MaxFaults \in Nat
    /\ Clocked \subseteq Alerts /\ Deferred \subseteq Alerts
    /\ Faults \subseteq {"crash", "chunk", "lose", "repeat", "replay", "probe",
                        "reject", "garbled", "bounds", "witness", "call"}

Batches == 1..MaxBatches
Payload == [Alerts -> {"firing", "resolved", "absent"}]
Named(p) == {a \in Alerts : p[a] # "absent"}

\* The phase of an alert's latest episode: "closing" holds a resolve that waits for
\* its retention window, "none" is no episode or one that has ended.
Phases == {"none", "firing", "closing", "suppressed"}
Reapable(phase) == phase \in {"firing", "suppressed"}

\* Observations are applied in an order that every delivery of them repeats.
NextOf(todo) == CHOOSE a \in todo : TRUE

Batch == [status : {"none", "pending", "partial", "processed", "failed"},
          payload : Payload]
NoBatch == [status |-> "none", payload |-> [a \in Alerts |-> "absent"]]
Resumable(s)  == s \in {"pending", "partial"}
Replayable(s) == s \in {"failed", "partial"}

\* A batch has the job its accept enqueued, and one more once it is replayed.
Jobs == Batches \X {"accept", "replay"}
Job  == [state : {"none", "ready", "running", "done", "stranded"}, used : 0..MaxAttempts]
NoJob == [state |-> "none", used |-> 0]

Worker == [pc : {"idle", "plan", "apply"}, job : Jobs \cup {<<>>},
           todo : SUBSET Alerts]
IdleWorker == [pc |-> "idle", job |-> <<>>, todo |-> {}]

\* The columns of source_health that decide something.
Health == [status : {"unknown", "healthy", "degraded", "unreachable"},
           failures : 0..UnreachableAfter]

\* What a pass has still to observe of what upstream showed it.  row is the health
\* row as it was read, and then as ApplyProbe leaves it; answer an operator's probe's.
Sightings == [Alerts -> {"firing", "suppressed", "absent"}]
Nothing   == [a \in Alerts |-> "absent"]
Pass == [pc : {"idle", "probe", "apply", "save"}, row : Health,
         answer : {"up", "unready", "down"}, seen : Sightings]
NewHealth == [status |-> "unknown", failures |-> 0]
IdlePass  == [pc |-> "idle", row |-> NewHealth, answer |-> "down", seen |-> Nothing]

VARIABLES
    firing,   \* upstream: the alerts that fire
    muted,    \* upstream: the alerts a silence or an inhibition matches
    source,   \* upstream: up, up but its cluster not ready, down
    wire,     \* notifications Alertmanager is trying to deliver
    batch,    \* ingest_batches, with ingest_dedup, in the order of receipt
    job,      \* River's ingest.process_batch jobs
    worker,
    applied,  \* history: the observations of each batch that were committed
    rejected, \* ingest_rejections: the alerts of each batch that were refused
    episode,  \* the phase of each alert's latest episode
    lapsed,   \* the open episodes whose endsAt or silence threshold has passed
    health,   \* source_health
    pass,     \* reconcile passes
    prober,   \* an operator's POST /sources/{id}/test
    changes, faults                                       \* used of the bounds

upstream == <<firing, muted, source, wire, changes>>
intake   == <<batch, job, worker, applied, rejected>>
cases    == <<episode, lapsed>>
registry == <<health, pass, prober>>
vars     == <<upstream, intake, cases, registry, faults>>

Init ==
    /\ firing = {} /\ muted = {} /\ source = "up" /\ wire = {}
    /\ changes = 0 /\ faults = 0
    /\ batch = [b \in Batches |-> NoBatch]
    /\ job = [j \in Jobs |-> NoJob]
    /\ worker = [w \in Workers |-> IdleWorker]
    /\ applied = [b \in Batches |-> {}] /\ rejected = [b \in Batches |-> {}]
    /\ episode = [a \in Alerts |-> "none"] /\ lapsed = {}
    /\ health = NewHealth
    /\ pass = [p \in Passes |-> IdlePass]
    /\ prober = IdlePass

Fault(kind) == kind \in Faults /\ faults < MaxFaults /\ faults' = faults + 1

(***************************************************************************)
(* Upstream, external: an alert changes and its group is notified of what  *)
(* is not muted, resolved alerts included; a muted alert reaches no        *)
(* webhook until its mute is lifted.                                       *)
(***************************************************************************)
Changed(a, set) == IF a \in set THEN set \ {a} ELSE set \cup {a}
Notice(a, fires, mutes) ==
    [x \in Alerts |-> IF x \in mutes THEN "absent"
                      ELSE IF x \in fires THEN "firing"
                      ELSE IF x = a THEN "resolved" ELSE "absent"]

\* A group's next notification replaces the one still being tried, of which an HA
\* sibling's copy may linger.
Sent(p) == \/ wire' = {p} /\ UNCHANGED faults
           \/ Fault("repeat") /\ wire # {} /\ wire' = wire \cup {p}

Change(a) ==
    /\ changes < MaxChanges
    /\ firing' = Changed(a, firing)
    /\ IF a \in muted THEN UNCHANGED <<wire, faults>> ELSE Sent(Notice(a, firing', muted))
    /\ changes' = changes + 1
    /\ UNCHANGED <<muted, source, intake, cases, registry>>

Mute(a) ==
    /\ changes < MaxChanges
    /\ muted' = Changed(a, muted)
    /\ IF a \in firing \cap muted THEN Sent(Notice(a, firing, muted'))
                                  ELSE UNCHANGED <<wire, faults>>
    /\ changes' = changes + 1
    /\ UNCHANGED <<firing, source, intake, cases, registry>>

SourceMoves ==
    /\ changes < MaxChanges
    /\ source' \in {"up", "unready", "down"} \ {source}
    /\ changes' = changes + 1
    /\ UNCHANGED <<firing, muted, wire, intake, cases, registry, faults>>

\* Alertmanager gives up retrying, or oto answered 202 and kept only a rejection.
Lose(p) ==
    /\ Fault("lose") /\ p \in wire
    /\ wire' = wire \ {p}
    /\ UNCHANGED <<firing, muted, source, changes, intake, cases, registry>>

(***************************************************************************)
(* ObserveBatch, and the sweeps that end an episode.                       *)
(***************************************************************************)
\* The observations the transition table has no row for, which change nothing:
\* not even the time the episode was last observed.
NoRow(phase, status) ==
    \/ phase = "none" /\ status # "firing"
    \/ phase = "suppressed" /\ status = "suppressed"

\* Where the row leads: a resolve waits for the window, unless it finds the episode
\* suppressed; anything else drops a resolve that waits.
PhaseAfter(a, phase, status) ==
    IF status # "resolved" THEN status
    ELSE IF a \in Deferred /\ phase # "suppressed" THEN "closing" ELSE "none"

Observe(a, status) ==
    IF NoRow(episode[a], status)
      THEN UNCHANGED cases
      ELSE /\ episode' = [episode EXCEPT ![a] = PhaseAfter(a, @, status)]
           /\ lapsed' = lapsed \ {a}

\* Passes confirm what fires unmuted in a source that answers, and do so more often
\* than endsAt plus its grace, or MaxSilence, allows.  Nobody confirms a suppressed
\* episode.
Confirmed(a) == a \in firing \ muted /\ source # "down"

Lapse(a) ==
    /\ a \in Clocked \ lapsed /\ Reapable(episode[a]) /\ ~Confirmed(a)
    /\ lapsed' = lapsed \cup {a}
    /\ UNCHANGED <<upstream, intake, episode, registry, faults>>

Ended(a) == episode' = [episode EXCEPT ![a] = "none"] /\ lapsed' = lapsed \ {a}

\* T6.  BlocksReaper: only a healthy source lets silence mean anything.
Reap(a) ==
    /\ a \in lapsed /\ Reapable(episode[a]) /\ health.status = "healthy"
    /\ Ended(a)
    /\ UNCHANGED <<upstream, intake, registry, faults>>

\* The retention window is over; no source is asked.
CloseDue(a) ==
    /\ episode[a] = "closing"
    /\ Ended(a)
    /\ UNCHANGED <<upstream, intake, registry, faults>>

(***************************************************************************)
(* Accept.                                                                 *)
(***************************************************************************)
Received == Cardinality({b \in Batches : batch[b].status # "none"})
Claimed(p) == \E b \in Batches : batch[b].status # "none" /\ batch[b].payload = p

\* The request is answered; an HA sibling may still send its own copy.
Answered(p) == \/ wire' = wire \ {p} /\ UNCHANGED faults
               \/ Fault("repeat") /\ UNCHANGED wire

\* Mutant: the job is enqueued after the transaction, and may not be.
AcceptOutbox(p) ==
    LET b == Received + 1
    IN /\ p \in wire /\ b \in Batches
       /\ batch' = [batch EXCEPT ![b] = [status |-> "pending", payload |-> p]]
       /\ job' \in {job, [job EXCEPT ![<<b, "accept">>].state = "ready"]}
       /\ Answered(p)
       /\ UNCHANGED <<firing, muted, source, changes, worker, applied, rejected, cases, registry>>

\* commitAccept: claim, batch and job in one transaction.  The claim is won when the
\* key has none or, DedupTTL having passed, one that Claim may take over.
Accept(p) ==
    LET b == Received + 1
    IN /\ p \in wire /\ b \in Batches
       /\ batch' = [batch EXCEPT ![b] = [status |-> "pending", payload |-> p]]
       /\ job' = [job EXCEPT ![<<b, "accept">>].state = "ready"]
       /\ Answered(p)
       /\ UNCHANGED <<firing, muted, source, changes, worker, applied, rejected, cases, registry>>

\* The claim still stands: 202 with the batch that holds it, and nothing else.
AcceptDuplicate(p) ==
    /\ p \in wire /\ Claimed(p)
    /\ Answered(p)
    /\ UNCHANGED <<firing, muted, source, changes, intake, cases, registry>>

(***************************************************************************)
(* ProcessBatch.                                                           *)
(***************************************************************************)
Become(w, rec) == worker' = [worker EXCEPT ![w] = rec]
Idle == {w \in Workers : worker[w].pc = "idle"}
JobOf(w) == worker[w].job
Mine(w)  == JobOf(w)[1]
End(j, state) == job' = [job EXCEPT ![j] = [state |-> state, used |-> 0]]
Done(w)  == End(JobOf(w), "done")

\* River discards a job after its last delivery, and nobody marked the batch.
Strand(w) == End(JobOf(w), "stranded")

\* The job is delivered and the batch read; one that is not resumable is skipped.
\* Idle workers are alike, so any one of them stands for all.
ProcessBatch(w, j) ==
    /\ w \in Idle /\ w = NextOf(Idle) /\ job[j].state = "ready"
    /\ IF Resumable(batch[j[1]].status)
         THEN /\ job' = [job EXCEPT ![j] = [state |-> "running", used |-> @.used + 1]]
              /\ Become(w, [pc |-> "plan", job |-> j, todo |-> Named(batch[j[1]].payload)])
         ELSE End(j, "done") /\ UNCHANGED worker
    /\ UNCHANGED <<upstream, batch, applied, rejected, cases, registry, faults>>

\* plan, the rejections it found, recorded first, and the mark a batch past
\* ChunkThreshold gets before its first chunk.
planned(w, bad) ==
    /\ worker[w].pc = "plan"
    /\ rejected' = [rejected EXCEPT ![Mine(w)] = @ \cup bad]
    /\ \/ batch' = batch
       \/ /\ Cardinality(worker[w].todo \ bad) > 1
          /\ batch' = [batch EXCEPT ![Mine(w)].status = "partial"]
    /\ Become(w, [worker[w] EXCEPT !.pc = "apply", !.todo = @ \ bad])
    /\ UNCHANGED <<upstream, job, applied, cases, registry>>

plan(w) == planned(w, {}) /\ UNCHANGED faults

\* normalise: an alert that fails its bounds is dropped, and the batch goes on.
planRejects(w) ==
    /\ Fault("reject")
    /\ \E bad \in SUBSET worker[w].todo \ {{}} : planned(w, bad)

\* Bytes that will not decode: the job is over at once, its batch marked failed
\* unless that mark itself fails, which is only logged.
undecodable(w) ==
    /\ Fault("garbled") /\ worker[w].pc = "plan"
    /\ \/ Done(w) /\ batch' = [batch EXCEPT ![Mine(w)].status = "failed"]
       \/ Strand(w) /\ UNCHANGED batch
    /\ Become(w, IdleWorker)
    /\ UNCHANGED <<upstream, applied, rejected, cases, registry>>

\* One chunk of applyChunks, in its own transaction.
applyChunk(w) ==
    /\ worker[w].pc = "apply" /\ worker[w].todo # {}
    /\ LET a == NextOf(worker[w].todo)
       IN /\ Observe(a, batch[Mine(w)].payload[a])
          /\ applied' = [applied EXCEPT ![Mine(w)] = @ \cup {a}]
          /\ Become(w, [worker[w] EXCEPT !.todo = @ \ {a}])
    /\ UNCHANGED <<upstream, batch, job, rejected, registry, faults>>

\* Mutant: the batch is closed out while chunks are still to be applied.
MarkProcessedEarly(w) ==
    /\ worker[w].pc = "apply"
    /\ batch' = [batch EXCEPT ![Mine(w)].status = "processed"]
    /\ Done(w) /\ Become(w, IdleWorker)
    /\ UNCHANGED <<upstream, applied, rejected, cases, registry, faults>>

\* MarkProcessed, whatever the row says by now.
MarkProcessed(w) ==
    /\ worker[w].pc = "apply" /\ worker[w].todo = {}
    /\ batch' = [batch EXCEPT ![Mine(w)].status = "processed"]
    /\ Done(w) /\ Become(w, IdleWorker)
    /\ UNCHANGED <<upstream, applied, rejected, cases, registry, faults>>

\* Mutant: one delivery more than River makes.
processFailsLate(w) ==
    /\ "chunk" \in Faults /\ worker[w].pc # "idle"
    /\ IF job[JobOf(w)].used <= MaxAttempts
         THEN job' = [job EXCEPT ![JobOf(w)].state = "ready"] /\ UNCHANGED batch
         ELSE Done(w) /\ batch' = [batch EXCEPT ![Mine(w)].status = "failed"]
    /\ Become(w, IdleWorker)
    /\ UNCHANGED <<upstream, applied, rejected, cases, registry, faults>>

\* A statement fails: the job is delivered again, and its last failure marks the
\* batch.  An error of that mark is only logged.
processFails(w) ==
    /\ "chunk" \in Faults /\ worker[w].pc # "idle"
    /\ IF job[JobOf(w)].used < MaxAttempts
         THEN job' = [job EXCEPT ![JobOf(w)].state = "ready"] /\ UNCHANGED batch
         ELSE \/ Done(w) /\ batch' = [batch EXCEPT ![Mine(w)].status = "failed"]
              \/ Strand(w) /\ UNCHANGED batch
    /\ Become(w, IdleWorker)
    /\ UNCHANGED <<upstream, applied, rejected, cases, registry, faults>>

\* The worker dies: River delivers again, or never after the last delivery.
Crash(w) ==
    /\ "crash" \in Faults /\ worker[w].pc # "idle"
    /\ IF job[JobOf(w)].used < MaxAttempts
         THEN job' = [job EXCEPT ![JobOf(w)].state = "ready"]
         ELSE Strand(w)
    /\ Become(w, IdleWorker)
    /\ UNCHANGED <<upstream, batch, applied, rejected, cases, registry, faults>>

\* Replay, with --force or past a gate that found nothing moved: Reopen and the
\* job in one transaction.  The gate is no guard, as it can be forced.
Replay(b) ==
    /\ Fault("replay")
    /\ Replayable(batch[b].status) /\ job[<<b, "replay">>] = NoJob
    /\ batch' = [batch EXCEPT ![b].status = "pending"]
    /\ job' = [job EXCEPT ![<<b, "replay">>].state = "ready"]
    /\ UNCHANGED <<upstream, worker, applied, rejected, cases, registry>>

(***************************************************************************)
(* Reconcile and Probe: the health row is read, a slow upstream is asked,  *)
(* and the row is written back whole.                                      *)
(***************************************************************************)
\* Mutant: every failure is the first one.
ApplyProbeForgetful(h, answer) ==
    CASE answer = "up"      -> [status |-> "healthy", failures |-> 0]
      [] answer = "unready" -> [status |-> "degraded", failures |-> 0]
      [] OTHER              -> [status |-> "degraded", failures |-> 1]

\* Failures are counted up to the threshold that matters.
ApplyProbe(h, answer) ==
    LET n == IF h.failures < UnreachableAfter THEN h.failures + 1 ELSE h.failures
    IN CASE answer = "up"      -> [status |-> "healthy", failures |-> 0]
         [] answer = "unready" -> [status |-> "degraded", failures |-> 0]
         [] OTHER -> [status |-> IF n >= UnreachableAfter THEN "unreachable"
                                                          ELSE "degraded",
                      failures |-> n]

Go(p, rec) == pass' = [pass EXCEPT ![p] = rec]

Reconcile(p) ==
    /\ pass[p].pc = "idle"
    /\ Go(p, [IdlePass EXCEPT !.pc = "probe", !.row = health])
    /\ UNCHANGED <<upstream, intake, cases, health, prober, faults>>

\* probeSource, then Alerts and observations.  Nothing is observed of a source that
\* did not answer, or whose second call failed.
asked(p, answer, seen) ==
    /\ pass[p].pc = "probe"
    /\ Go(p, [pass[p] EXCEPT !.row = ApplyProbe(@, answer), !.pc = "apply", !.seen = seen])
    /\ UNCHANGED <<upstream, intake, cases, health, prober>>

Shown == [a \in Alerts |-> IF a \notin firing \/ source = "down" THEN "absent"
                           ELSE IF a \in muted THEN "suppressed" ELSE "firing"]

probeSource(p) == asked(p, source, Shown) /\ UNCHANGED faults

probeMisled(p) ==
    \/ Fault("call") /\ asked(p, "down", Nothing)
    \/ \* an alert fails its bounds
       /\ Fault("bounds")
       /\ \E a \in Alerts : Shown[a] # "absent"
                              /\ asked(p, source, [Shown EXCEPT ![a] = "absent"])
    \/ \* upstream says suppressed and names nothing that suppresses
       /\ Fault("witness")
       /\ \E a \in Alerts : Shown[a] = "suppressed"
                              /\ asked(p, source, [Shown EXCEPT ![a] = "firing"])

ToObserve(p) == {a \in Alerts : pass[p].seen[a] # "absent"}
Observing(p, a) ==
    /\ pass[p].pc = "apply"
    /\ Go(p, [pass[p] EXCEPT !.seen[a] = "absent"])
    /\ UNCHANGED <<upstream, intake, health, prober, faults>>

\* Mutant: a pass confirms the episodes it knows and opens none.
applyConfirms(p) ==
    /\ ToObserve(p) # {}
    /\ LET a == NextOf(ToObserve(p))
       IN /\ Observing(p, a)
          /\ IF episode[a] = "none" THEN UNCHANGED cases
                                    ELSE Observe(a, pass[p].seen[a])

\* One chunk of apply; what was not seen stays as it is.
apply(p) ==
    /\ ToObserve(p) # {}
    /\ LET a == NextOf(ToObserve(p))
       IN /\ Observing(p, a)
          /\ Observe(a, pass[p].seen[a])

SaveHealth(p) ==
    /\ pass[p].pc = "apply" /\ ToObserve(p) = {}
    /\ health' = pass[p].row
    /\ Go(p, IdlePass)
    /\ UNCHANGED <<upstream, intake, cases, prober, faults>>

\* A read, a chunk or the worker fails: the pass is over, its health unsaved.
passFails(p) ==
    /\ Fault("chunk") /\ pass[p].pc # "idle"
    /\ Go(p, IdlePass)
    /\ UNCHANGED <<upstream, intake, cases, health, prober>>

\* Probe asks first and reads the row afterwards.
Probe ==
    /\ Fault("probe") /\ prober.pc = "idle"
    /\ prober' = [IdlePass EXCEPT !.pc = "probe", !.answer = source]
    /\ UNCHANGED <<upstream, intake, cases, health, pass>>

ProbeGetHealth ==
    /\ prober.pc = "probe"
    /\ prober' = [IdlePass EXCEPT !.pc = "save", !.row = ApplyProbe(health, prober.answer)]
    /\ UNCHANGED <<upstream, intake, cases, health, pass, faults>>

ProbeSaveHealth ==
    /\ prober.pc = "save"
    /\ health' = prober.row
    /\ prober' = IdlePass
    /\ UNCHANGED <<upstream, intake, cases, pass, faults>>

Passing(a) == Lapse(a) \/ Reap(a) \/ CloseDue(a)
Work(w) == \/ plan(w) \/ MarkProcessed(w)
           \/ applyChunk(w)
PassStep(p) == \/ Reconcile(p) \/ probeSource(p) \/ SaveHealth(p)
               \/ apply(p)
ProbeStep == ProbeGetHealth \/ ProbeSaveHealth

Next ==
    \/ \E a \in Alerts : Change(a) \/ Mute(a) \/ Passing(a)
    \/ SourceMoves
    \/ \E p \in wire : Lose(p) \/ Accept(p) \/ AcceptDuplicate(p)
    \/ \E b \in Batches : Replay(b)
    \/ \E w \in Workers, j \in Jobs : ProcessBatch(w, j)
    \/ \E w \in Workers :
         Work(w) \/ planRejects(w) \/ undecodable(w) \/ processFails(w) \/ Crash(w)
    \/ \E p \in Passes : PassStep(p) \/ probeMisled(p) \/ passFails(p)
    \/ Probe \/ ProbeStep

Spec == Init /\ [][Next]_vars

\* Passes are scheduled for ever and bounded in time, clocks run on and the sweeps
\* tick.  Nothing makes the source come back, and neither Alertmanager, an ingest
\* worker nor an operator's probe is assumed to get anywhere.
FairSpec ==
    /\ Spec
    /\ \A p \in Passes : WF_vars(PassStep(p))
    /\ WF_vars(\E a \in Alerts : Passing(a))

(***************************************************************************)
(* Properties.                                                             *)
(***************************************************************************)
\* Rows, jobs and passes keep their shape, and no job is delivered more often than
\* River's budget allows.
TypeOK ==
    /\ firing \in SUBSET Alerts /\ muted \in SUBSET Alerts /\ source \in {"up", "unready", "down"}
    /\ wire \in SUBSET Payload
    /\ batch \in [Batches -> Batch] /\ job \in [Jobs -> Job]
    /\ worker \in [Workers -> Worker]
    /\ applied \in [Batches -> SUBSET Alerts] /\ rejected \in [Batches -> SUBSET Alerts]
    /\ episode \in [Alerts -> Phases] /\ lapsed \in SUBSET Alerts
    /\ health \in Health /\ pass \in [Passes -> Pass] /\ prober \in Pass
    /\ changes \in 0..MaxChanges /\ faults \in 0..MaxFaults

\* "a false `processed` is a lost alert wearing a green tick": a batch says it was
\* processed only if every alert it names was observed or its rejection recorded,
\* whatever was retried, replayed or run by two workers at once.
ProcessedMeansApplied ==
    \A b \in Batches : batch[b].status = "processed"
                         => Named(batch[b].payload) \subseteq applied[b] \cup rejected[b]

\* A 202 is kept: a batch that still waits has a job that will run it, so it is
\* processed in the end or says that it failed.  Only a last delivery that dies, or
\* whose failure cannot be written, strands it.
AcceptedIsOwed ==
    \A b \in Batches : Resumable(batch[b].status) =>
        \E k \in {"accept", "replay"} :
            job[<<b, k>>].state \in {"ready", "running", "stranded"}

\* What oto can come to know of an alert: what fires unmuted is shown firing; what is
\* muted is not, whether its episode is suppressed, has expired or never began; and
\* what does not fire has no open episode, if a clock runs on it.
Settled(a) ==
    IF a \in firing
      THEN IF a \in muted THEN episode[a] \in {"suppressed", "none"}
                          ELSE episode[a] = "firing"
      ELSE a \in Clocked => episode[a] = "none"

\* oto converges on the truth: once upstream has stopped changing and stays
\* reachable, every alert is settled for good, whatever webhooks were lost, rejected,
\* taken for duplicates, retried, replayed or applied late, and however stale the
\* snapshot a pass applied.
Converges == <>[](source = "up") => <>[](\A a \in Alerts : Settled(a))

\* A source that stays down is found unreachable, although a pass and an operator's
\* probe write back whole rows, each from what it read before the other's write.
DownIsNoticed == <>[](source = "down") => <>[](health.status = "unreachable")
=============================================================================
