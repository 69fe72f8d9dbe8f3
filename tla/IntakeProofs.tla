---------------------------- MODULE IntakeProofs ----------------------------
(***************************************************************************)
(* Theorems about Intake, for every group of alerts, every number of       *)
(* batches, workers, passes and deliveries, and every mix of faults.       *)
(***************************************************************************)
EXTENDS Intake, FiniteSetTheorems, TLAPS

(***************************************************************************)
(* The inductive invariant.                                                *)
(***************************************************************************)
\* Batches are numbered as they are received, so a new one never lands on another;
\* one that was not received has no job.
Stored == {b \in Batches : batch[b].status # "none"}
Numbered == /\ \E n \in 0..MaxBatches : Stored = 1..n
            /\ \A j \in Jobs : j[1] \notin Stored => job[j] = NoJob

\* A job that waits has a delivery left.
BudgetLeft == \A j \in Jobs : /\ job[j].state = "ready" => job[j].used < MaxAttempts
                              /\ job[j].state = "none" => job[j].used = 0

\* A worker holds a job that runs, of a batch that was received, and what it no
\* longer has to apply was applied or rejected.
WorkerFits(w) ==
    worker[w].pc # "idle" =>
        LET b == worker[w].job[1]
        IN /\ worker[w].job \in Jobs
           /\ job[worker[w].job].state = "running"
           /\ b \in Stored
           /\ worker[w].todo \subseteq Named(batch[b].payload)
           /\ Named(batch[b].payload) \ worker[w].todo \subseteq applied[b] \cup rejected[b]
WorkersFit == \A w \in Workers : WorkerFits(w)

\* River hands a job to one worker at a time.
OneWorker ==
    \A v, w \in Workers :
        worker[v].pc # "idle" /\ worker[w].pc # "idle" /\ worker[v].job = worker[w].job
            => v = w

IInv == /\ Numbered /\ BudgetLeft /\ WorkersFit /\ OneWorker
        /\ ProcessedMeansApplied /\ AcceptedIsOwed

(***************************************************************************)
(* Types.                                                                  *)
(***************************************************************************)
TypeUpstream == /\ firing \in SUBSET Alerts /\ muted \in SUBSET Alerts
                /\ source \in {"up", "unready", "down"}
                /\ wire \in SUBSET Payload /\ changes \in 0..MaxChanges
                /\ faults \in 0..MaxFaults
TypeCases    == episode \in [Alerts -> Phases] /\ lapsed \in SUBSET Alerts
TypeIntake   == /\ batch \in [Batches -> Batch] /\ job \in [Jobs -> Job]
                /\ worker \in [Workers -> Worker]
                /\ applied \in [Batches -> SUBSET Alerts]
                /\ rejected \in [Batches -> SUBSET Alerts]
TypeRegistry == health \in Health /\ pass \in [Passes -> Pass] /\ prober \in Pass

LEMMA FaultTyped ==
    ASSUME TypeOK, NEW kind, Fault(kind)
    PROVE  faults' \in 0..MaxFaults
BY IntakeAssumption DEF IntakeAssumption, TypeOK, Fault

\* ApplyProbe yields a health row.
LEMMA ApplyProbeTyped ==
    ASSUME NEW h \in Health, NEW answer \in {"up", "unready", "down"}
    PROVE  ApplyProbe(h, answer) \in Health
<1> USE IntakeAssumption DEF IntakeAssumption
<1> DEFINE n == IF h.failures < UnreachableAfter THEN h.failures + 1 ELSE h.failures
<1>1. n \in 0..UnreachableAfter /\ 0 \in 0..UnreachableAfter
  BY DEF Health
<1>2. CASE answer = "up"
  BY <1>1, <1>2 DEF ApplyProbe, Health
<1>3. CASE answer = "unready"
  BY <1>1, <1>3 DEF ApplyProbe, Health
<1>4. CASE answer = "down"
  <2>1. ApplyProbe(h, answer) = [status |-> IF n >= UnreachableAfter THEN "unreachable"
                                                                    ELSE "degraded",
                                 failures |-> n]
    BY <1>4 DEF ApplyProbe
  <2> HIDE DEF n
  <2>2. QED
    BY <1>1, <2>1 DEF Health
<1>5. QED
  BY <1>2, <1>3, <1>4

LEMMA IdlePassTyped == IdlePass \in Pass /\ NewHealth \in Health
BY IntakeAssumption DEF IntakeAssumption, IdlePass, Pass, NewHealth, Health,
   Sightings, Nothing

\* The upstream: what changes there is a set of alerts and what is on the wire.
LEMMA SentTyped ==
    ASSUME TypeOK, NEW a \in Alerts, NEW fires, NEW mutes, Sent(Notice(a, fires, mutes))
    PROVE  wire' \in SUBSET Payload /\ faults' \in 0..MaxFaults
<1>1. Notice(a, fires, mutes) \in Payload
  BY DEF Notice, Payload
<1>2. faults' \in 0..MaxFaults
  BY FaultTyped DEF Sent, TypeOK
<1>3. QED
  BY <1>1, <1>2 DEF Sent, TypeOK

LEMMA ChangeTyped ==
    ASSUME TypeOK, NEW a \in Alerts, Change(a) \/ Mute(a)
    PROVE  TypeUpstream'
<1>1. firing' \in SUBSET Alerts /\ muted' \in SUBSET Alerts
  BY DEF Change, Mute, Changed, TypeOK
<1>2. wire' \in SUBSET Payload /\ faults' \in 0..MaxFaults
  <2>1. CASE UNCHANGED <<wire, faults>>
    BY <2>1 DEF TypeOK
  <2>2. CASE Sent(Notice(a, firing', muted))
    BY <2>2, SentTyped
  <2>3. CASE Sent(Notice(a, firing, muted'))
    BY <2>3, SentTyped
  <2>4. QED
    BY <2>1, <2>2, <2>3 DEF Change, Mute
<1>3. changes' \in 0..MaxChanges
  BY IntakeAssumption DEF IntakeAssumption, Change, Mute, TypeOK
<1>4. UNCHANGED source
  BY DEF Change, Mute
<1>5. QED
  BY <1>1, <1>2, <1>3, <1>4 DEF TypeOK, TypeUpstream

LEMMA SourceMovesTyped == ASSUME TypeOK, SourceMoves PROVE TypeUpstream'
<1>1. changes' \in 0..MaxChanges
  BY IntakeAssumption DEF IntakeAssumption, SourceMoves, TypeOK
<1>2. QED
  BY <1>1 DEF SourceMoves, TypeOK, TypeUpstream

\* An observation and a sweep leave an episode in a phase.
LEMMA ObserveTyped ==
    ASSUME TypeOK, NEW a \in Alerts, NEW status \in {"firing", "suppressed", "resolved"},
           Observe(a, status)
    PROVE  TypeCases'
<1>1. CASE UNCHANGED cases
  BY <1>1 DEF cases, TypeOK, TypeCases
<1>2. CASE /\ episode' = [episode EXCEPT ![a] = PhaseAfter(a, @, status)]
           /\ lapsed' = lapsed \ {a}
  <2>1. PhaseAfter(a, episode[a], status) \in Phases
    BY DEF PhaseAfter, Phases
  <2>2. QED
    BY <1>2, <2>1 DEF TypeOK, TypeCases
<1>3. QED
  BY <1>1, <1>2 DEF Observe

LEMMA PassingTyped ==
    ASSUME TypeOK, NEW a \in Alerts, Passing(a)
    PROVE  TypeCases' /\ UNCHANGED <<upstream, intake, registry, faults>>
<1>1. "none" \in Phases
  BY DEF Phases
<1>2. CASE Lapse(a)
  BY <1>2 DEF Lapse, TypeOK, TypeCases
<1>3. CASE Reap(a) \/ CloseDue(a)
  BY <1>1, <1>3 DEF Reap, CloseDue, Ended, TypeOK, TypeCases
<1>4. QED
  BY <1>2, <1>3 DEF Passing

LEMMA ShownTyped == Shown \in Sightings /\ Nothing \in Sightings
BY DEF Shown, Nothing, Sightings

LEMMA AskedTyped ==
    ASSUME TypeOK, NEW p \in Passes, NEW answer \in {"up", "unready", "down"},
           NEW seen \in Sightings, asked(p, answer, seen)
    PROVE  /\ TypeCases' /\ TypeRegistry' /\ UNCHANGED <<upstream, intake>>
<1>1. pass[p] \in Pass /\ pass \in [Passes -> Pass]
  BY DEF TypeOK
<1>2. [pass[p] EXCEPT !.row = ApplyProbe(@, answer), !.pc = "apply", !.seen = seen] \in Pass
  BY <1>1, ApplyProbeTyped DEF Pass
<1>3. pass' \in [Passes -> Pass]
  BY <1>1, <1>2 DEF asked, Go
<1>4. QED
  BY <1>3 DEF asked, cases, TypeOK, TypeCases, TypeRegistry

\* Each way a source answers a pass.
LEMMA ProbeSourceTyped ==
    ASSUME TypeOK, NEW p \in Passes, probeSource(p) \/ probeMisled(p)
    PROVE  TypeUpstream' /\ TypeCases' /\ TypeRegistry' /\ UNCHANGED intake
<1>0. /\ source \in {"up", "unready", "down"}
      /\ (UNCHANGED upstream /\ faults' \in 0..MaxFaults => TypeUpstream')
  BY DEF TypeOK, TypeUpstream, upstream
<1>1. CASE probeSource(p)
  <2>1. asked(p, source, Shown) /\ faults' = faults
    BY <1>1 DEF probeSource
  <2>2. QED
    BY <1>0, <2>1, ShownTyped, AskedTyped DEF TypeOK
<1>2. CASE \E kind : Fault(kind) /\ asked(p, "down", Nothing)
  BY <1>0, <1>2, ShownTyped, AskedTyped, FaultTyped
<1>3. CASE \E kind : Fault(kind) /\ \E a \in Alerts : \E s \in {"absent", "firing"} :
             asked(p, source, [Shown EXCEPT ![a] = s])
  <2>0. faults' \in 0..MaxFaults
    BY <1>3, FaultTyped
  <2>1. PICK a \in Alerts, s \in {"absent", "firing"} :
               asked(p, source, [Shown EXCEPT ![a] = s])
    BY <1>3
  <2>2. [Shown EXCEPT ![a] = s] \in Sightings
    BY ShownTyped DEF Sightings
  <2>3. QED
    BY <1>0, <2>0, <2>1, <2>2, AskedTyped
<1>4. QED
  BY <1>1, <1>2, <1>3 DEF probeMisled

LEMMA PassTyped ==
    ASSUME TypeOK, NEW p \in Passes, PassStep(p) \/ probeMisled(p) \/ passFails(p)
    PROVE  TypeUpstream' /\ TypeCases' /\ TypeRegistry' /\ UNCHANGED intake
<1>0. /\ pass[p] \in Pass /\ health \in Health /\ pass \in [Passes -> Pass]
  BY DEF TypeOK
<1>1. CASE Reconcile(p)
  <2>1. [IdlePass EXCEPT !.pc = "probe", !.row = health] \in Pass
    BY <1>0, IdlePassTyped DEF Pass
  <2>2. pass' \in [Passes -> Pass]
    BY <1>0, <1>1, <2>1 DEF Reconcile, Go
  <2>3. QED
    BY <1>1, <2>2 DEF Reconcile, upstream, cases, TypeOK, TypeUpstream, TypeCases,
       TypeRegistry
<1>2. CASE probeSource(p) \/ probeMisled(p)
  BY <1>2, ProbeSourceTyped
<1>3. CASE apply(p)
  <2> DEFINE a == NextOf(ToObserve(p))
             rec == [pass[p] EXCEPT !.seen[a] = "absent"]
  <2>1. ToObserve(p) # {} /\ Observing(p, a) /\ Observe(a, pass[p].seen[a])
    BY <1>3 DEF apply
  <2>2. a \in ToObserve(p)
    BY <2>1 DEF NextOf
  <2> HIDE DEF a
  <2>3. /\ a \in Alerts /\ pass[p].seen[a] \in {"firing", "suppressed"}
        /\ pass[p].seen \in Sightings
    BY <1>0, <2>2 DEF ToObserve, Pass, Sightings
  <2>4. TypeCases'
    BY <2>1, <2>3, ObserveTyped
  <2>5. rec \in Pass
    BY <1>0, <2>3 DEF Pass, Sightings
  <2>6. pass' \in [Passes -> Pass]
    BY <1>0, <2>1, <2>5 DEF Observing, Go
  <2>7. QED
    BY <2>1, <2>4, <2>6 DEF Observing, upstream, TypeOK, TypeUpstream, TypeRegistry
<1>4. CASE SaveHealth(p)
  <2>1. health' \in Health
    BY <1>0, <1>4 DEF SaveHealth, Pass
  <2>2. pass' \in [Passes -> Pass]
    BY <1>0, <1>4, IdlePassTyped DEF SaveHealth, Go
  <2>3. QED
    BY <1>4, <2>1, <2>2 DEF SaveHealth, upstream, cases, TypeOK, TypeUpstream, TypeCases,
       TypeRegistry
<1>5. CASE passFails(p)
  <2>1. pass' \in [Passes -> Pass]
    BY <1>0, <1>5, IdlePassTyped DEF passFails, Go
  <2>2. faults' \in 0..MaxFaults
    BY <1>5, FaultTyped DEF passFails
  <2>3. QED
    BY <1>5, <2>1, <2>2 DEF passFails, upstream, cases, TypeOK, TypeUpstream, TypeCases,
       TypeRegistry
<1>6. QED
  BY <1>1, <1>2, <1>3, <1>4, <1>5 DEF PassStep

LEMMA ProbeTyped ==
    ASSUME TypeOK, Probe \/ ProbeStep
    PROVE  TypeUpstream' /\ TypeRegistry'
<1>0. prober \in Pass /\ health \in Health /\ source \in {"up", "unready", "down"}
  BY DEF TypeOK
<1>1. CASE Probe
  <2>1. prober' \in Pass
    BY <1>0, <1>1, IdlePassTyped DEF Probe, Pass
  <2>2. faults' \in 0..MaxFaults
    BY <1>1, FaultTyped DEF Probe
  <2>3. QED
    BY <1>1, <2>1, <2>2 DEF Probe, upstream, TypeOK, TypeUpstream, TypeRegistry
<1>2. CASE ProbeGetHealth
  <2>1. prober' \in Pass
    BY <1>0, <1>2, IdlePassTyped, ApplyProbeTyped DEF ProbeGetHealth, Pass
  <2>2. QED
    BY <1>2, <2>1 DEF ProbeGetHealth, upstream, TypeOK, TypeUpstream, TypeRegistry
<1>3. CASE ProbeSaveHealth
  <2>1. health' \in Health
    BY <1>0, <1>3 DEF ProbeSaveHealth, Pass
  <2>2. QED
    BY <1>3, <2>1, IdlePassTyped DEF ProbeSaveHealth, upstream, TypeOK, TypeUpstream,
       TypeRegistry
<1>4. QED
  BY <1>1, <1>2, <1>3 DEF ProbeStep

(***************************************************************************)
(* One lemma per operation of the intake.                                  *)
(***************************************************************************)
LEMMA SameIntake ==
    ASSUME TypeOK, IInv, UNCHANGED intake
    PROVE  TypeIntake' /\ IInv'
<1>1. UNCHANGED <<batch, job, worker, applied, rejected>>
  BY DEF intake
<1>2. TypeIntake'
  BY <1>1 DEF TypeOK, TypeIntake
<1>3. Numbered' /\ BudgetLeft'
  BY <1>1 DEF IInv, Numbered, BudgetLeft, Stored
<1>4. WorkersFit' /\ OneWorker'
  BY <1>1 DEF IInv, WorkersFit, WorkerFits, OneWorker, Stored
<1>5. ProcessedMeansApplied' /\ AcceptedIsOwed'
  BY <1>1 DEF IInv, ProcessedMeansApplied, AcceptedIsOwed
<1>6. QED
  BY <1>2, <1>3, <1>4, <1>5 DEF IInv

LEMMA NoJobTyped == NoJob \in Job /\ NoJob.state = "none" /\ NoJob.used = 0
BY IntakeAssumption DEF IntakeAssumption, NoJob, Job

LEMMA IdleWorkerTyped == IdleWorker \in Worker /\ IdleWorker.pc = "idle"
BY DEF IdleWorker, Worker

\* A worker that is not idle has a job of some batch.
LEMMA HasJob ==
    ASSUME TypeOK, IInv, NEW w \in Workers, worker[w].pc # "idle"
    PROVE  /\ JobOf(w) \in Jobs /\ Mine(w) \in Batches /\ Mine(w) \in Stored
           /\ JobOf(w)[2] \in {"accept", "replay"} /\ JobOf(w) = <<Mine(w), JobOf(w)[2]>>
           /\ job[JobOf(w)].state = "running" /\ job[JobOf(w)] \in Job
<1>1. JobOf(w) \in Jobs /\ Mine(w) \in Stored /\ job[JobOf(w)].state = "running"
  BY DEF IInv, WorkersFit, WorkerFits, JobOf, Mine
<1>2. QED
  BY <1>1 DEF Jobs, Mine, TypeOK, JobOf

\* What an accepted or replayed batch enqueues, and what a delivery takes.
LEMMA ReadyTyped ==
    ASSUME TypeOK, IInv, NEW j \in Jobs
    PROVE  /\ [job[j] EXCEPT !.state = "ready"] \in Job
           /\ job[j].state = "ready" =>
                [state |-> "running", used |-> job[j].used + 1] \in Job
BY IntakeAssumption DEF IntakeAssumption, TypeOK, Job, IInv, BudgetLeft

\* Accept: the new batch is the first of its number, its job comes with it.
LEMMA StepAccept ==
    ASSUME TypeOK, IInv, NEW p \in wire, Accept(p)
    PROVE  TypeIntake' /\ IInv'
<1> USE IntakeAssumption DEF IntakeAssumption
<1> DEFINE b == Received + 1
           j == <<b, "accept">>
           row == [status |-> "pending", payload |-> p]
<1>1. /\ b \in Batches /\ batch' = [batch EXCEPT ![b] = row]
      /\ job' = [job EXCEPT ![j].state = "ready"] /\ UNCHANGED <<worker, applied, rejected>>
  BY DEF Accept
<1>2. b \notin Stored /\ Stored = 1..(b - 1)
  <2>1. PICK n \in 0..MaxBatches : Stored = 1..n
    BY DEF IInv, Numbered
  <2>2. n \in Int /\ Cardinality(1..n) = n
    BY FS_Interval
  <2>3. Received = n
    BY <2>1, <2>2 DEF Received, Stored
  <2>4. QED
    BY <2>1, <2>2, <2>3
<1> HIDE DEF b
<1>3. p \in Payload /\ row \in Batch
  BY DEF TypeOK, Batch
<1>4. j \in Jobs /\ job[j] = NoJob
  BY <1>1, <1>2 DEF Jobs, IInv, Numbered
<1>5. /\ batch' \in [Batches -> Batch] /\ batch'[b] = row
      /\ \A c \in Batches : c # b => batch'[c] = batch[c]
  BY <1>1, <1>3 DEF TypeOK
<1>6. /\ job' \in [Jobs -> Job] /\ job'[j] = [job[j] EXCEPT !.state = "ready"]
      /\ \A i \in Jobs : i # j => job'[i] = job[i]
  BY <1>1, <1>4, ReadyTyped DEF TypeOK
<1>7. job'[j].state = "ready" /\ job'[j].used = 0
  BY <1>4, <1>6, NoJobTyped DEF Job
<1>8. TypeIntake'
  BY <1>1, <1>5, <1>6 DEF TypeOK, TypeIntake
<1>9. Stored' = Stored \cup {b}
  BY <1>1, <1>5 DEF Stored
<1>10. Numbered'
  <2>1. Stored' = 1..b /\ b \in 0..MaxBatches
    BY <1>1, <1>2, <1>9 DEF Batches
  <2>2. \A i \in Jobs : i[1] \notin Stored' => job'[i] = NoJob
    BY <1>6, <1>9 DEF IInv, Numbered
  <2>3. QED
    BY <2>1, <2>2 DEF Numbered
<1>11. BudgetLeft'
  <2> SUFFICES ASSUME NEW i \in Jobs
               PROVE  /\ job'[i].state = "ready" => job'[i].used < MaxAttempts
                      /\ job'[i].state = "none" => job'[i].used = 0
    BY DEF BudgetLeft
  <2>1. CASE i = j
    BY <1>7, <2>1
  <2>2. CASE i # j
    BY <1>6, <2>2 DEF IInv, BudgetLeft
  <2>3. QED
    BY <2>1, <2>2
<1>12. WorkersFit'
  <2> SUFFICES ASSUME NEW w \in Workers, worker[w].pc # "idle" PROVE WorkerFits(w)'
    BY <1>1 DEF WorkersFit, WorkerFits
  <2>1. WorkerFits(w) /\ Mine(w) # b /\ JobOf(w) # j /\ Mine(w) \in Batches /\ JobOf(w) \in Jobs
    BY <1>2, HasJob DEF IInv, WorkersFit
  <2>2. batch'[Mine(w)] = batch[Mine(w)] /\ job'[JobOf(w)] = job[JobOf(w)]
    BY <1>5, <1>6, <2>1
  <2>3. QED
    BY <1>1, <1>9, <2>1, <2>2 DEF WorkerFits, Mine, JobOf
<1>13. OneWorker'
  BY <1>1 DEF IInv, OneWorker
<1>14. ProcessedMeansApplied'
  BY <1>1, <1>5 DEF IInv, ProcessedMeansApplied
<1>15. AcceptedIsOwed'
  <2> SUFFICES ASSUME NEW c \in Batches, Resumable(batch'[c].status)
               PROVE  \E k \in {"accept", "replay"} :
                        job'[<<c, k>>].state \in {"ready", "running", "stranded"}
    BY DEF AcceptedIsOwed
  <2>1. CASE c = b
    BY <1>7, <2>1
  <2>2. CASE c # b
    <3>1. PICK k \in {"accept", "replay"} :
             job[<<c, k>>].state \in {"ready", "running", "stranded"}
      BY <1>5, <2>2 DEF IInv, AcceptedIsOwed
    <3>2. <<c, k>> \in Jobs /\ <<c, k>> # j
      BY <2>2 DEF Jobs
    <3>3. QED
      BY <1>6, <3>1, <3>2
  <2>3. QED
    BY <2>1, <2>2
<1>16. QED
  BY <1>8, <1>10, <1>11, <1>12, <1>13, <1>14, <1>15 DEF IInv

LEMMA StepReplay ==
    ASSUME TypeOK, IInv, NEW b \in Batches, Replay(b)
    PROVE  TypeIntake' /\ IInv'
<1> USE IntakeAssumption DEF IntakeAssumption
<1> DEFINE j == <<b, "replay">>
<1>1. /\ batch' = [batch EXCEPT ![b].status = "pending"] /\ batch[b].status # "none"
      /\ job' = [job EXCEPT ![j].state = "ready"] /\ job[j] = NoJob /\ j \in Jobs
      /\ UNCHANGED <<worker, applied, rejected>>
  BY DEF Replay, Replayable, Jobs
<1>2. /\ batch' \in [Batches -> Batch] /\ batch'[b].status = "pending"
      /\ \A c \in Batches : batch'[c].payload = batch[c].payload
      /\ \A c \in Batches : c # b => batch'[c] = batch[c]
  BY <1>1 DEF TypeOK, Batch
<1>3. /\ job' \in [Jobs -> Job] /\ job'[j] = [job[j] EXCEPT !.state = "ready"]
      /\ \A i \in Jobs : i # j => job'[i] = job[i]
  BY <1>1, ReadyTyped DEF TypeOK
<1>4. job'[j].state = "ready" /\ job'[j].used = 0
  BY <1>1, <1>3, NoJobTyped DEF Job
<1>5. TypeIntake'
  BY <1>1, <1>2, <1>3 DEF TypeOK, TypeIntake
<1>6. Stored' = Stored /\ b \in Stored
  BY <1>1, <1>2 DEF Stored
<1>7. Numbered'
  <2>1. \A i \in Jobs : i[1] \notin Stored' => job'[i] = NoJob
    BY <1>3, <1>6 DEF IInv, Numbered
  <2>2. QED
    BY <1>6, <2>1 DEF IInv, Numbered
<1>8. BudgetLeft'
  <2> SUFFICES ASSUME NEW i \in Jobs
               PROVE  /\ job'[i].state = "ready" => job'[i].used < MaxAttempts
                      /\ job'[i].state = "none" => job'[i].used = 0
    BY DEF BudgetLeft
  <2>1. CASE i = j
    BY <1>4, <2>1
  <2>2. CASE i # j
    BY <1>3, <2>2 DEF IInv, BudgetLeft
  <2>3. QED
    BY <2>1, <2>2
<1>9. WorkersFit'
  <2> SUFFICES ASSUME NEW w \in Workers, worker[w].pc # "idle" PROVE WorkerFits(w)'
    BY <1>1 DEF WorkersFit, WorkerFits
  <2>1. WorkerFits(w) /\ Mine(w) \in Batches /\ JobOf(w) \in Jobs
    BY HasJob DEF IInv, WorkersFit
  <2>2. JobOf(w) # j
    BY <1>1, HasJob, NoJobTyped
  <2>3. batch'[Mine(w)].payload = batch[Mine(w)].payload /\ job'[JobOf(w)] = job[JobOf(w)]
    BY <1>2, <1>3, <2>1, <2>2
  <2>4. QED
    BY <1>1, <1>6, <2>1, <2>3 DEF WorkerFits, Mine, JobOf
<1>10. OneWorker'
  BY <1>1 DEF IInv, OneWorker
<1>11. ProcessedMeansApplied'
  BY <1>1, <1>2 DEF IInv, ProcessedMeansApplied
<1>12. AcceptedIsOwed'
  <2> SUFFICES ASSUME NEW c \in Batches, Resumable(batch'[c].status)
               PROVE  \E k \in {"accept", "replay"} :
                        job'[<<c, k>>].state \in {"ready", "running", "stranded"}
    BY DEF AcceptedIsOwed
  <2>1. CASE c = b
    BY <1>4, <2>1
  <2>2. CASE c # b
    <3>1. PICK k \in {"accept", "replay"} :
             job[<<c, k>>].state \in {"ready", "running", "stranded"}
      BY <1>2, <2>2 DEF IInv, AcceptedIsOwed
    <3>2. <<c, k>> \in Jobs /\ <<c, k>> # j
      BY <2>2 DEF Jobs
    <3>3. QED
      BY <1>3, <3>1, <3>2
  <2>3. QED
    BY <2>1, <2>2
<1>13. QED
  BY <1>5, <1>7, <1>8, <1>9, <1>10, <1>11, <1>12 DEF IInv

\* A worker lets go of its job: ended, stranded, or to be delivered again.  Whoever
\* ends a job leaves a batch that waits for nothing.
LEMMA Release ==
    ASSUME TypeOK, IInv, NEW w \in Workers, worker[w].pc # "idle",
           Become(w, IdleWorker), UNCHANGED <<applied, rejected>>,
           NEW next \in Job, job' = [job EXCEPT ![JobOf(w)] = next],
           next.state \in {"ready", "done", "stranded"},
           next.state = "ready" => next.used < MaxAttempts,
           NEW status \in {"pending", "partial", "processed", "failed"},
           batch' = [batch EXCEPT ![Mine(w)].status = status],
           status = "processed" =>
             Named(batch[Mine(w)].payload) \subseteq applied[Mine(w)] \cup rejected[Mine(w)],
           next.state = "done" => ~Resumable(status)
    PROVE  TypeIntake' /\ IInv'
<1> DEFINE b == Mine(w)
           j == JobOf(w)
<1>1. b \in Stored /\ b \in Batches /\ j \in Jobs
      /\ j[2] \in {"accept", "replay"} /\ j = <<b, j[2]>>
  BY HasJob
<1>2. /\ batch' \in [Batches -> Batch] /\ batch'[b].status = status
      /\ \A c \in Batches : batch'[c].payload = batch[c].payload
      /\ \A c \in Batches : c # b => batch'[c] = batch[c]
  BY <1>1 DEF TypeOK, Batch
<1>3. /\ job' \in [Jobs -> Job] /\ job'[j] = next
      /\ \A i \in Jobs : i # j => job'[i] = job[i]
  BY <1>1 DEF TypeOK
<1>4. /\ worker' \in [Workers -> Worker] /\ worker'[w].pc = "idle"
      /\ \A v \in Workers : v # w => worker'[v] = worker[v]
  BY IdleWorkerTyped DEF Become, TypeOK
<1>5. TypeIntake'
  BY <1>2, <1>3, <1>4 DEF TypeOK, TypeIntake
<1>6. Stored' = Stored
  BY <1>1, <1>2 DEF Stored
<1>7. Numbered'
  <2>1. \A i \in Jobs : i[1] \notin Stored' => job'[i] = NoJob
    <3> SUFFICES ASSUME NEW i \in Jobs, i[1] \notin Stored PROVE job'[i] = NoJob
      BY <1>6
    <3>1. i # j
      BY <1>1 DEF Mine
    <3>2. QED
      BY <1>3, <3>1 DEF IInv, Numbered
  <2>2. QED
    BY <1>6, <2>1 DEF IInv, Numbered
<1>8. BudgetLeft'
  BY <1>3 DEF IInv, BudgetLeft
<1>9. WorkersFit'
  <2> SUFFICES ASSUME NEW v \in Workers, v # w, worker[v].pc # "idle" PROVE WorkerFits(v)'
    BY <1>4 DEF WorkersFit, WorkerFits
  <2>1. WorkerFits(v) /\ Mine(v) \in Batches /\ JobOf(v) \in Jobs
    BY HasJob DEF IInv, WorkersFit
  <2>2. JobOf(v) # j
    BY DEF IInv, OneWorker, JobOf
  <2>3. batch'[Mine(v)].payload = batch[Mine(v)].payload /\ job'[JobOf(v)] = job[JobOf(v)]
    BY <1>2, <1>3, <2>1, <2>2
  <2>4. worker'[v] = worker[v]
    BY <1>4
  <2>5. QED
    BY <1>6, <2>1, <2>3, <2>4 DEF WorkerFits, Mine, JobOf
<1>10. OneWorker'
  BY <1>4 DEF IInv, OneWorker
<1>11. ProcessedMeansApplied'
  <2> SUFFICES ASSUME NEW c \in Batches, batch'[c].status = "processed"
               PROVE  Named(batch'[c].payload) \subseteq applied[c] \cup rejected[c]
    BY DEF ProcessedMeansApplied
  <2>1. batch'[c].payload = batch[c].payload
    BY <1>2
  <2>2. CASE c = b
    BY <1>2, <2>1, <2>2
  <2>3. CASE c # b
    BY <1>2, <2>1, <2>3 DEF IInv, ProcessedMeansApplied
  <2>4. QED
    BY <2>2, <2>3
<1>12. AcceptedIsOwed'
  <2> SUFFICES ASSUME NEW c \in Batches, Resumable(batch'[c].status)
               PROVE  \E k \in {"accept", "replay"} :
                        job'[<<c, k>>].state \in {"ready", "running", "stranded"}
    BY DEF AcceptedIsOwed
  <2>1. CASE c = b
    BY <1>1, <1>2, <1>3, <2>1
  <2>2. CASE c # b
    <3>1. PICK k \in {"accept", "replay"} :
             job[<<c, k>>].state \in {"ready", "running", "stranded"}
      BY <1>2, <2>2 DEF IInv, AcceptedIsOwed
    <3>2. <<c, k>> \in Jobs /\ <<c, k>> # j
      BY <1>1, <2>2 DEF Jobs
    <3>3. QED
      BY <1>3, <3>1, <3>2
  <2>3. QED
    BY <2>1, <2>2
<1>13. QED
  BY <1>5, <1>7, <1>8, <1>9, <1>10, <1>11, <1>12 DEF IInv

\* The two ways a job ends for good, and the one it is delivered again.
LEMMA ReleaseShapes ==
    ASSUME TypeOK, IInv, NEW w \in Workers, worker[w].pc # "idle"
    PROVE  /\ \A state \in {"done", "stranded"} :
                [state |-> state, used |-> 0] \in Job
           /\ job[JobOf(w)].used < MaxAttempts =>
                /\ [job[JobOf(w)] EXCEPT !.state = "ready"] \in Job
                /\ [job[JobOf(w)] EXCEPT !.state = "ready"].state = "ready"
                /\ [job[JobOf(w)] EXCEPT !.state = "ready"].used < MaxAttempts
           /\ batch[Mine(w)].status \in {"pending", "partial", "processed", "failed"}
           /\ batch = [batch EXCEPT ![Mine(w)].status = batch[Mine(w)].status]
<1>1. job[JobOf(w)] \in Job /\ Mine(w) \in Stored /\ Mine(w) \in Batches
  BY HasJob
<1>2. \A state \in {"done", "stranded"} : [state |-> state, used |-> 0] \in Job
  BY IntakeAssumption DEF IntakeAssumption, Job
<1>3. job[JobOf(w)].used < MaxAttempts =>
                /\ [job[JobOf(w)] EXCEPT !.state = "ready"] \in Job
                /\ [job[JobOf(w)] EXCEPT !.state = "ready"].state = "ready"
                /\ [job[JobOf(w)] EXCEPT !.state = "ready"].used < MaxAttempts
  BY <1>1 DEF Job
<1>4. /\ batch[Mine(w)].status \in {"pending", "partial", "processed", "failed"}
      /\ batch = [batch EXCEPT ![Mine(w)].status = batch[Mine(w)].status]
  BY <1>1 DEF TypeOK, Batch, Stored
<1>5. QED
  BY <1>2, <1>3, <1>4

LEMMA StepMarkProcessed ==
    ASSUME TypeOK, IInv, NEW w \in Workers, MarkProcessed(w)
    PROVE  TypeIntake' /\ IInv'
<1>1. worker[w].pc # "idle" /\ worker[w].todo = {}
  BY DEF MarkProcessed
<1>2. Named(batch[Mine(w)].payload) \subseteq applied[Mine(w)] \cup rejected[Mine(w)]
  BY <1>1 DEF IInv, WorkersFit, WorkerFits, Mine, JobOf
<1>3. /\ Become(w, IdleWorker) /\ UNCHANGED <<applied, rejected>>
      /\ job' = [job EXCEPT ![JobOf(w)] = [state |-> "done", used |-> 0]]
      /\ batch' = [batch EXCEPT ![Mine(w)].status = "processed"]
  BY DEF MarkProcessed, Done, End
<1>4. ~Resumable("processed")
  BY DEF Resumable
<1>5. QED
  BY <1>1, <1>2, <1>3, <1>4, Release, ReleaseShapes

LEMMA StepFails ==
    ASSUME TypeOK, IInv, NEW w \in Workers, processFails(w) \/ Crash(w) \/ undecodable(w)
    PROVE  TypeIntake' /\ IInv'
<1>1. worker[w].pc # "idle" /\ Become(w, IdleWorker) /\ UNCHANGED <<applied, rejected>>
  BY DEF processFails, Crash, undecodable
<1>2. batch[Mine(w)].status = "processed" =>
         Named(batch[Mine(w)].payload) \subseteq applied[Mine(w)] \cup rejected[Mine(w)]
  BY <1>1, HasJob DEF IInv, ProcessedMeansApplied
<1>3. ~Resumable("failed")
  BY DEF Resumable
<1>4. CASE /\ job[JobOf(w)].used < MaxAttempts /\ UNCHANGED batch
           /\ job' = [job EXCEPT ![JobOf(w)].state = "ready"]
  <2>1. job' = [job EXCEPT ![JobOf(w)] = [job[JobOf(w)] EXCEPT !.state = "ready"]]
    BY <1>4
  <2>2. QED
    BY <1>1, <1>2, <1>4, <2>1, Release, ReleaseShapes
<1>5. CASE /\ UNCHANGED batch
           /\ job' = [job EXCEPT ![JobOf(w)] = [state |-> "stranded", used |-> 0]]
  BY <1>1, <1>2, <1>5, Release, ReleaseShapes
<1>6. CASE /\ batch' = [batch EXCEPT ![Mine(w)].status = "failed"]
           /\ job' = [job EXCEPT ![JobOf(w)] = [state |-> "done", used |-> 0]]
  BY <1>1, <1>3, <1>6, Release, ReleaseShapes
<1>7. QED
  BY <1>4, <1>5, <1>6 DEF processFails, Crash, undecodable, Done, Strand, End

\* A delivery: a batch that still waits gets a worker, another ends its job.
LEMMA StepProcessBatch ==
    ASSUME TypeOK, IInv, NEW w \in Workers, NEW j \in Jobs, ProcessBatch(w, j)
    PROVE  TypeIntake' /\ IInv'
<1> DEFINE b == j[1]
           took == Resumable(batch[b].status)
           rec == [pc |-> "plan", job |-> j, todo |-> Named(batch[b].payload)]
<1>1. /\ worker[w].pc = "idle" /\ job[j].state = "ready"
      /\ UNCHANGED <<batch, applied, rejected>>
      /\ b \in Batches /\ j[2] \in {"accept", "replay"} /\ j = <<b, j[2]>>
  BY DEF ProcessBatch, Jobs, Idle
<1>2. b \in Stored
  BY <1>1, NoJobTyped DEF IInv, Numbered
<1>3. \A v \in Workers : worker[v].pc # "idle" => worker[v].job # j
  BY <1>1, HasJob DEF JobOf
<1>4. /\ job' \in [Jobs -> Job]
      /\ job'[j].state = IF took THEN "running" ELSE "done"
      /\ \A i \in Jobs : i # j => job'[i] = job[i]
  <2>1. CASE took
    <3> DEFINE ran == [state |-> "running", used |-> job[j].used + 1]
    <3>1. ran \in Job /\ ran.state = "running"
      BY <1>1, ReadyTyped
    <3>2. job' = [job EXCEPT ![j] = ran]
      BY <2>1 DEF ProcessBatch
    <3> HIDE DEF ran
    <3>3. QED
      BY <2>1, <3>1, <3>2 DEF TypeOK
  <2>2. CASE ~took
    <3>1. [state |-> "done", used |-> 0] \in Job
      BY IntakeAssumption DEF IntakeAssumption, Job
    <3>2. QED
      BY <2>2, <3>1 DEF ProcessBatch, End, TypeOK
  <2>3. QED
    BY <2>1, <2>2
<1>5. /\ worker' \in [Workers -> Worker]
      /\ took => worker'[w] = rec
      /\ ~took => worker'[w] = worker[w]
      /\ \A v \in Workers : v # w => worker'[v] = worker[v]
  <2>1. rec \in Worker
    BY DEF Worker, Named
  <2>2. CASE took
    BY <2>1, <2>2 DEF ProcessBatch, Become, TypeOK
  <2>3. CASE ~took
    BY <2>3 DEF ProcessBatch, TypeOK
  <2>4. QED
    BY <2>2, <2>3
<1>6. TypeIntake'
  BY <1>1, <1>4, <1>5 DEF TypeOK, TypeIntake
<1>7. Stored' = Stored
  BY <1>1 DEF Stored
<1>8. Numbered'
  <2>1. \A i \in Jobs : i[1] \notin Stored' => job'[i] = NoJob
    BY <1>2, <1>4, <1>7 DEF IInv, Numbered
  <2>2. QED
    BY <1>7, <2>1 DEF IInv, Numbered
<1>9. BudgetLeft'
  BY <1>4 DEF IInv, BudgetLeft
<1>10. WorkersFit'
  <2> SUFFICES ASSUME NEW v \in Workers, worker'[v].pc # "idle" PROVE WorkerFits(v)'
    BY DEF WorkersFit, WorkerFits
  <2>1. CASE v = w
    <3>1. took /\ worker'[v] = rec
      BY <1>1, <1>5, <2>1
    <3>2. /\ worker'[v].job = j /\ worker'[v].todo = Named(batch[b].payload)
      BY <3>1
    <3>3. QED
      BY <1>1, <1>2, <1>4, <1>7, <3>1, <3>2 DEF WorkerFits
  <2>2. CASE v # w
    <3>1. worker'[v] = worker[v] /\ worker[v].pc # "idle" /\ WorkerFits(v)
      BY <1>5, <2>2 DEF IInv, WorkersFit
    <3>2. JobOf(v) \in Jobs /\ job'[JobOf(v)] = job[JobOf(v)]
      BY <1>3, <1>4, <3>1, HasJob DEF JobOf
    <3>3. QED
      BY <1>1, <1>7, <3>1, <3>2 DEF WorkerFits, JobOf
  <2>3. QED
    BY <2>1, <2>2
<1>11. OneWorker'
  <2>1. took => worker'[w].job = j
    BY <1>5
  <2>2. QED
    BY <1>1, <1>3, <1>5, <2>1 DEF IInv, OneWorker
<1>12. ProcessedMeansApplied'
  BY <1>1 DEF IInv, ProcessedMeansApplied
<1>13. AcceptedIsOwed'
  <2> SUFFICES ASSUME NEW c \in Batches, Resumable(batch[c].status)
               PROVE  \E k \in {"accept", "replay"} :
                        job'[<<c, k>>].state \in {"ready", "running", "stranded"}
    BY <1>1 DEF AcceptedIsOwed
  <2>1. PICK k \in {"accept", "replay"} :
             job[<<c, k>>].state \in {"ready", "running", "stranded"}
    BY DEF IInv, AcceptedIsOwed
  <2>2. CASE c = b
    BY <1>1, <1>4, <2>2
  <2>3. CASE c # b
    <3>1. <<c, k>> \in Jobs /\ <<c, k>> # j
      BY <1>1, <2>3 DEF Jobs
    <3>2. QED
      BY <1>4, <2>1, <3>1
  <2>4. QED
    BY <2>2, <2>3
<1>14. QED
  BY <1>6, <1>8, <1>9, <1>10, <1>11, <1>12, <1>13 DEF IInv

\* plan strikes off what it rejects, and may mark a batch that somebody else has
\* closed out: its own job still runs.
LEMMA StepPlan ==
    ASSUME TypeOK, IInv, NEW w \in Workers, NEW bad, planned(w, bad),
           bad \subseteq worker[w].todo
    PROVE  TypeIntake' /\ IInv'
<1> DEFINE b == Mine(w)
           rec == [worker[w] EXCEPT !.pc = "apply", !.todo = @ \ bad]
<1>1. /\ worker[w].pc = "plan" /\ Become(w, rec) /\ UNCHANGED <<job, applied>>
      /\ batch' = batch \/ batch' = [batch EXCEPT ![b].status = "partial"]
      /\ rejected' = [rejected EXCEPT ![b] = @ \cup bad]
  BY DEF planned
<1>0. bad \subseteq Alerts
  BY DEF TypeOK, Worker
<1>2. /\ b \in Batches /\ b \in Stored /\ JobOf(w) \in Jobs
      /\ JobOf(w)[2] \in {"accept", "replay"} /\ JobOf(w) = <<b, JobOf(w)[2]>>
      /\ job[JobOf(w)].state = "running"
  BY <1>1, HasJob
<1>3. /\ batch' \in [Batches -> Batch]
      /\ \A c \in Batches : batch'[c].payload = batch[c].payload
      /\ \A c \in Batches : batch'[c].status = batch[c].status
                              \/ (c = b /\ batch'[c].status = "partial")
  <2>1. CASE batch' = batch
    BY <2>1 DEF TypeOK
  <2>2. CASE batch' = [batch EXCEPT ![b].status = "partial"]
    BY <1>2, <2>2 DEF TypeOK, Batch
  <2>3. QED
    BY <1>1, <2>1, <2>2
<1>4. /\ worker' \in [Workers -> Worker] /\ worker'[w].todo = worker[w].todo \ bad
      /\ \A v \in Workers : v # w => worker'[v].todo = worker[v].todo
      /\ \A v \in Workers : /\ worker'[v].job = worker[v].job
                            /\ worker'[v].pc = "idle" <=> worker[v].pc = "idle"
  <2>1. worker[w] \in Worker /\ rec \in Worker /\ rec.todo = worker[w].todo \ bad
        /\ rec.job = worker[w].job /\ rec.pc = "apply"
    BY DEF TypeOK, Worker
  <2> HIDE DEF rec
  <2>2. QED
    BY <1>1, <2>1 DEF Become, TypeOK
<1>13. /\ rejected' \in [Batches -> SUBSET Alerts] /\ rejected'[b] = rejected[b] \cup bad
       /\ \A c \in Batches : rejected[c] \subseteq rejected'[c]
  BY <1>0, <1>1, <1>2 DEF TypeOK
<1>5. TypeIntake'
  BY <1>1, <1>3, <1>4, <1>13 DEF TypeOK, TypeIntake
<1>6. Stored' = Stored
  BY <1>2, <1>3 DEF Stored
<1>7. Numbered' /\ BudgetLeft'
  BY <1>1, <1>6 DEF IInv, Numbered, BudgetLeft
<1>8. WorkersFit'
  <2> SUFFICES ASSUME NEW v \in Workers, worker'[v].pc # "idle" PROVE WorkerFits(v)'
    BY DEF WorkersFit, WorkerFits
  <2>1. worker[v].pc # "idle" /\ WorkerFits(v)
    BY <1>4 DEF IInv, WorkersFit
  <2>2. Mine(v) \in Batches
    BY <2>1, HasJob
  <2>3. batch'[Mine(v)].payload = batch[Mine(v)].payload
    BY <1>3, <2>2
  <2>4. CASE v = w
    BY <1>1, <1>4, <1>6, <1>13, <2>1, <2>3, <2>4 DEF WorkerFits, Mine, JobOf
  <2>5. CASE v # w
    BY <1>1, <1>4, <1>6, <1>13, <2>1, <2>2, <2>3, <2>5 DEF WorkerFits, Mine, JobOf
  <2>6. QED
    BY <2>4, <2>5
<1>9. OneWorker'
  BY <1>4 DEF IInv, OneWorker
<1>10. ProcessedMeansApplied'
  <2> SUFFICES ASSUME NEW c \in Batches, batch'[c].status = "processed"
               PROVE  Named(batch'[c].payload) \subseteq applied[c] \cup rejected'[c]
    BY <1>1 DEF ProcessedMeansApplied
  <2>1. batch[c].status = "processed" /\ batch'[c].payload = batch[c].payload
    BY <1>3
  <2>2. QED
    BY <1>13, <2>1 DEF IInv, ProcessedMeansApplied
<1>11. AcceptedIsOwed'
  <2> SUFFICES ASSUME NEW c \in Batches, Resumable(batch'[c].status)
               PROVE  \E k \in {"accept", "replay"} :
                        job[<<c, k>>].state \in {"ready", "running", "stranded"}
    BY <1>1 DEF AcceptedIsOwed
  <2>1. CASE c = b
    BY <1>2, <2>1
  <2>2. CASE c # b
    BY <1>3, <2>2 DEF IInv, AcceptedIsOwed
  <2>3. QED
    BY <2>1, <2>2
<1>12. QED
  BY <1>5, <1>7, <1>8, <1>9, <1>10, <1>11 DEF IInv

\* A chunk: what the worker strikes off its list it has applied.
LEMMA StepApplyChunk ==
    ASSUME TypeOK, IInv, NEW w \in Workers, applyChunk(w)
    PROVE  TypeIntake' /\ IInv' /\ TypeCases'
<1> DEFINE b == Mine(w)
           a == NextOf(worker[w].todo)
           rec == [worker[w] EXCEPT !.todo = @ \ {a}]
<1>1. /\ worker[w].pc = "apply" /\ worker[w].todo # {}
      /\ UNCHANGED <<batch, job, rejected>>
      /\ applied' = [applied EXCEPT ![b] = @ \cup {a}] /\ Become(w, rec)
      /\ Observe(a, batch[b].payload[a])
  BY DEF applyChunk
<1>2. b \in Batches
  BY <1>1, HasJob
<1>3. a \in worker[w].todo /\ a \in Alerts
  BY <1>1 DEF NextOf, TypeOK, Worker
<1> HIDE DEF a
<1>4. TypeCases'
  <2>1. batch[b].payload[a] \in {"firing", "suppressed", "resolved"}
    BY <1>1, <1>2, <1>3 DEF IInv, WorkersFit, WorkerFits, Named, Mine, JobOf, TypeOK, Batch,
       Payload
  <2>2. QED
    BY <1>1, <1>3, <2>1, ObserveTyped
<1>5. /\ applied' \in [Batches -> SUBSET Alerts] /\ applied'[b] = applied[b] \cup {a}
      /\ \A c \in Batches : applied[c] \subseteq applied'[c]
  BY <1>1, <1>2, <1>3 DEF TypeOK
<1>6. /\ worker' \in [Workers -> Worker] /\ worker'[w].todo = worker[w].todo \ {a}
      /\ worker'[w].pc = "apply" /\ worker'[w].job = worker[w].job
      /\ \A v \in Workers : v # w => worker'[v] = worker[v]
  BY <1>1 DEF Become, TypeOK, Worker
<1>7. TypeIntake'
  BY <1>1, <1>5, <1>6 DEF TypeOK, TypeIntake
<1>8. Stored' = Stored
  BY <1>1 DEF Stored
<1>9. Numbered' /\ BudgetLeft'
  BY <1>1, <1>8 DEF IInv, Numbered, BudgetLeft
<1>10. WorkersFit'
  <2> SUFFICES ASSUME NEW v \in Workers, worker'[v].pc # "idle" PROVE WorkerFits(v)'
    BY DEF WorkersFit, WorkerFits
  <2>1. worker[v].pc # "idle" /\ WorkerFits(v)
    BY <1>1, <1>6 DEF IInv, WorkersFit
  <2>2. Mine(v) \in Batches
    BY <2>1, HasJob
  <2>3. CASE v = w
    BY <1>1, <1>5, <1>6, <1>8, <2>1, <2>3 DEF WorkerFits, Mine, JobOf
  <2>4. CASE v # w
    BY <1>1, <1>5, <1>6, <1>8, <2>1, <2>2, <2>4 DEF WorkerFits, Mine, JobOf
  <2>5. QED
    BY <2>3, <2>4
<1>11. OneWorker'
  BY <1>1, <1>6 DEF IInv, OneWorker
<1>12. ProcessedMeansApplied'
  BY <1>1, <1>5 DEF IInv, ProcessedMeansApplied
<1>13. AcceptedIsOwed'
  BY <1>1 DEF IInv, AcceptedIsOwed
<1>14. QED
  BY <1>4, <1>7, <1>9, <1>10, <1>11, <1>12, <1>13 DEF IInv

(***************************************************************************)
(* Theorems.                                                               *)
(***************************************************************************)
LEMMA TypeParts == (TypeUpstream /\ TypeCases /\ TypeIntake /\ TypeRegistry) <=> TypeOK
BY DEF TypeOK, TypeUpstream, TypeCases, TypeIntake, TypeRegistry

LEMMA InitHolds == Init => TypeOK /\ IInv
<1> SUFFICES ASSUME Init PROVE TypeOK /\ IInv
  OBVIOUS
<1> USE IntakeAssumption DEF IntakeAssumption
<1>1. TypeUpstream /\ TypeCases
  BY DEF Init, TypeUpstream, TypeCases, Phases
<1>2. NoBatch \in Batch /\ NoBatch.status = "none"
  BY DEF NoBatch, Batch, Payload
<1>3. TypeIntake
  <2>1. batch \in [Batches -> Batch] /\ job \in [Jobs -> Job]
    BY <1>2, NoJobTyped DEF Init
  <2>2. worker \in [Workers -> Worker]
    BY IdleWorkerTyped DEF Init
  <2>3. applied \in [Batches -> SUBSET Alerts] /\ rejected \in [Batches -> SUBSET Alerts]
    BY DEF Init
  <2>4. QED
    BY <2>1, <2>2, <2>3 DEF TypeIntake
<1>4. TypeRegistry
  BY IdlePassTyped DEF Init, TypeRegistry
<1>5. Stored = {}
  BY <1>2 DEF Init, Stored
<1>6. Numbered
  <2>1. Stored = 1..0 /\ 0 \in 0..MaxBatches
    BY <1>5
  <2>2. QED
    BY <2>1 DEF Init, Numbered
<1>7. BudgetLeft
  BY NoJobTyped DEF Init, BudgetLeft
<1>8. WorkersFit /\ OneWorker
  BY IdleWorkerTyped DEF Init, WorkersFit, WorkerFits, OneWorker
<1>9. ProcessedMeansApplied /\ AcceptedIsOwed
  BY <1>2 DEF Init, ProcessedMeansApplied, AcceptedIsOwed, Resumable
<1>10. QED
  BY <1>1, <1>3, <1>4, <1>6, <1>7, <1>8, <1>9, TypeParts DEF IInv

LEMMA StepHolds == TypeOK /\ IInv /\ [Next]_vars => TypeOK' /\ IInv'
<1> SUFFICES ASSUME TypeOK, IInv, [Next]_vars PROVE TypeOK' /\ IInv'
  OBVIOUS
<1>0. /\ TypeUpstream /\ TypeIntake /\ TypeRegistry
      /\ (UNCHANGED <<upstream, faults>> => TypeUpstream')
      /\ (UNCHANGED upstream /\ faults' \in 0..MaxFaults => TypeUpstream')
      /\ (UNCHANGED cases => TypeCases')
      /\ (UNCHANGED registry => TypeRegistry')
  BY TypeParts DEF upstream, cases, registry, TypeUpstream, TypeCases, TypeRegistry
<1>1. TypeUpstream' /\ TypeCases' /\ TypeIntake' /\ TypeRegistry' /\ IInv'
  <2>1. CASE \E a \in Alerts : Change(a) \/ Mute(a)
    <3>1. UNCHANGED <<intake, cases, registry>>
      BY <2>1 DEF Change, Mute
    <3>2. QED
      BY <1>0, <2>1, <3>1, ChangeTyped, SameIntake
  <2>2. CASE \E a \in Alerts : Passing(a)
    <3>1. TypeCases' /\ UNCHANGED <<upstream, intake, registry, faults>>
      BY <2>2, PassingTyped
    <3>2. QED
      BY <1>0, <3>1, SameIntake
  <2>3. CASE SourceMoves
    BY <1>0, <2>3, SourceMovesTyped, SameIntake DEF SourceMoves
  <2>4. CASE \E p \in wire : Lose(p)
    <3>1. faults' \in 0..MaxFaults
      BY <2>4, FaultTyped DEF Lose
    <3>2. TypeUpstream' /\ UNCHANGED <<intake, cases, registry>>
      BY <1>0, <2>4, <3>1 DEF Lose, TypeUpstream
    <3>3. QED
      BY <1>0, <3>2, SameIntake
  <2>5. ASSUME NEW p \in wire, Answered(p), UNCHANGED <<firing, muted, source, changes>>
        PROVE  TypeUpstream'
    <3>1. faults' \in 0..MaxFaults
      BY <1>0, <2>5, FaultTyped DEF Answered, TypeUpstream
    <3>2. QED
      BY <1>0, <2>5, <3>1 DEF Answered, TypeUpstream
  <2>6. CASE \E p \in wire : Accept(p)
    BY <1>0, <2>5, <2>6, StepAccept DEF Accept
  <2>7. CASE \E p \in wire : AcceptDuplicate(p)
    BY <1>0, <2>5, <2>7, SameIntake DEF AcceptDuplicate
  <2>8. CASE \E b \in Batches : Replay(b)
    <3>1. faults' \in 0..MaxFaults
      BY <2>8, FaultTyped DEF Replay
    <3>2. UNCHANGED <<upstream, cases, registry>>
      BY <2>8 DEF Replay
    <3>3. QED
      BY <1>0, <2>8, <3>1, <3>2, StepReplay
  <2>9. CASE \E w \in Workers, j \in Jobs : ProcessBatch(w, j)
    BY <1>0, <2>9, StepProcessBatch DEF ProcessBatch
  <2>10. CASE \E w \in Workers : plan(w) \/ planRejects(w)
    <3>1. PICK w \in Workers : plan(w) \/ planRejects(w)
      BY <2>10
    <3>2. PICK bad : planned(w, bad) /\ bad \subseteq worker[w].todo
      BY <3>1 DEF plan, planRejects
    <3>3. TypeIntake' /\ IInv'
      BY <3>2, StepPlan
    <3>4. faults' \in 0..MaxFaults
      BY <3>1, FaultTyped DEF plan, planRejects, TypeOK
    <3>5. QED
      BY <1>0, <3>2, <3>3, <3>4 DEF planned
  <2>11. CASE \E w \in Workers : applyChunk(w)
    <3>1. TypeCases' /\ TypeIntake' /\ IInv'
      BY <2>11, StepApplyChunk
    <3>2. UNCHANGED <<upstream, registry, faults>>
      BY <2>11 DEF applyChunk
    <3>3. QED
      BY <1>0, <3>1, <3>2
  <2>12. CASE \E w \in Workers : MarkProcessed(w)
    BY <1>0, <2>12, StepMarkProcessed DEF MarkProcessed
  <2>13. CASE \E w \in Workers : processFails(w) \/ Crash(w) \/ undecodable(w)
    <3>1. TypeIntake' /\ IInv'
      BY <2>13, StepFails
    <3>2. UNCHANGED <<upstream, cases, registry>> /\ faults' \in 0..MaxFaults
      BY <2>13, FaultTyped DEF processFails, Crash, undecodable, TypeOK
    <3>3. QED
      BY <1>0, <3>1, <3>2
  <2>14. CASE \E p \in Passes : PassStep(p) \/ probeMisled(p) \/ passFails(p)
    BY <2>14, PassTyped, SameIntake
  <2>15. CASE Probe \/ ProbeStep
    <3>1. UNCHANGED <<intake, cases>>
      BY <2>15 DEF Probe, ProbeStep, ProbeGetHealth, ProbeSaveHealth
    <3>2. QED
      BY <1>0, <2>15, <3>1, ProbeTyped, SameIntake
  <2>16. CASE UNCHANGED vars
    BY <1>0, <2>16, SameIntake DEF vars
  <2>17. QED
    BY <2>1, <2>2, <2>3, <2>4, <2>6, <2>7, <2>8, <2>9, <2>10, <2>11, <2>12, <2>13, <2>14,
       <2>15, <2>16 DEF Next, Work
<1>2. QED
  BY <1>1, TypeParts DEF TypeOK, TypeUpstream, TypeCases, TypeIntake, TypeRegistry

LEMMA InvariantHolds == Spec => [](TypeOK /\ IInv)
BY InitHolds, StepHolds, PTL DEF Spec

\* Rows, jobs and passes keep their shape, and no job is delivered beyond its budget.
THEOREM IntakeTypeCorrect == Spec => []TypeOK
BY InvariantHolds, PTL

\* No batch says processed with an alert neither applied nor rejected, whoever else retried, replayed or
\* closed it out.
THEOREM ProcessedIsTrue == Spec => []ProcessedMeansApplied
<1>1. IInv => ProcessedMeansApplied
  BY DEF IInv
<1>2. QED
  BY <1>1, InvariantHolds, PTL

\* A 202 is kept: a batch that waits has a job, or its last delivery died.
THEOREM AcceptedStaysOwed == Spec => []AcceptedIsOwed
<1>1. IInv => AcceptedIsOwed
  BY DEF IInv
<1>2. QED
  BY <1>1, InvariantHolds, PTL
=============================================================================
