# oto: a TLA+ verification project

oto receives alerts from Alertmanager (webhooks and a reconcile poll), keeps the
life of every alert as a sequence of *cases* (episodes) in Postgres, and tells people
about them in Slack and other destinations. All of its state is in Postgres; its work
is done by HTTP handlers and by jobs of the River queue, in several pods at once.
What has to be right, and what tests hardly reach, is how the writers of one row
interleave: a webhook's transaction, two periodic sweeps and a person racing for one
case; several workers, crashes and a slow provider around one Slack thread; a change
to a cluster that must be sent at most once through a queue that delivers at least once.

This directory models those places: `Intake` (how oto comes to know what upstream
knows), `CaseLifecycle` (what is believed about an alert), `ThreadDispatch` (what is said
about it), `Investigations` (who is paid to look into it) and `Remedy` (what is done about
it). All are model-checked with TLC. Every safety invariant and every action property the
runs check, and that `Remedy` implements the abstract `RemedyPromise`, is also proved with
TLAPS for every value of the constants; liveness stays with TLC.

Run a configuration with `tlc -config <X>.cfg <module>` and a proof with
`tlapm <module>.tla`. `PROJECT.json` lists the runs, the source lines every
definition stands for, the hazards, the findings and the theorems.

## 1. Inventory

| Part | State | Operations | What is hard | What makes it right |
|---|---|---|---|---|
| **alerts lifecycle** `internal/alerts` | `alerts`, `alert_cases`, `alert_events` | `ObserveBatch`, `Reap`, `CloseDue`, `setAck`, snooze | five writers, sweeps that decide on a stale read, observations stamped before the lock, deferred close | one open episode, terminal is terminal, projection agrees, every edge told once, no expiry without proof |
| **case retention policy** | `case_policy` rows | set, update, remove | narrowed while a receipt is outstanding | a held resolve is always spent |
| **source registry and health** `internal/sources` | `alert_sources`, `source_health` | register, remove, `max_silence_s`, probe | edited between two reads of one reap tick; read-modify-write of the health row | blind is not quiet |
| **reconciler** `internal/sources/service/reconcile.go` | none of its own | poll, observe, stamp health | its snapshot is older than a webhook that overtook it | sees suppression, never resolves |
| **ingestion** `internal/ingestion` | `ingest_batches`, dedup receipts | accept, dedup, process in chunks | retry of a half-done batch | every accepted batch is applied |
| **notification** `internal/notification` | `notifications`, `notification_deliveries`, `channel_threads` | evaluate and fan out, dispatch, recover, retry by hand | no lock during the provider call, crash between call and record, lost answers, roots that die | in order, one sender, labelled duplicates, exact head, everything ends |
| **ordering gate, idempotency** `internal/platform/jobs/ordering`, `internal/platform/idempotency` | `last_sent_seq`, `next_seq`; idempotency keys | `Decide`, `Recover` | a head whose job is gone | no wedge, no rewinding |
| **enrichment** | enrichment rows | pipeline, early release of the deferred `fired` job | release races the deferral | told once |
| **incidents, correlators** | incidents, memberships | correlate, merge, resolve | two correlators and one case | a case is in one incident |
| **investigations** `internal/investigator` | `investigations`, `investigation_steps` | request, run, finish, abandon | coalesced triggers, one slot many workers, a redelivered job, turns that cost money | no turn is paid twice, nothing runs for ever |
| **remedies** `internal/investigator` | `remedies`, `remedy_approvals`, `remedy_transitions` | propose, approve, decline, execute, sweep | at-least-once job around an at-most-once call, grants that are withdrawn, late answers | the Tool is called at most once and the record is honest |
| **streaming** `internal/streaming` | hub subscribers, bounded buffers | publish, subscribe, resync | slow subscriber, drop, reconnect | a gap is announced |
| **digest** | windows on a policy | tick, collect | a window closed twice or never | every fact is in one window |
| channels, silences, rules, stats, identity, drill, web UI, wiring | – | provider I/O, proxying, queries, CRUD, presentation | – | not state machines of this system |

Interactions. Ingestion and the reconciler call `ObserveBatch`; every edge of the
lifecycle inserts a `notify.evaluate` job in the same transaction; that job fans a
notification out into deliveries and `deliver.dispatch` jobs, again in one
transaction; those call the channel. The reaper reads the source registry and the
health the prober writes. Humans reach `setAck` over HTTP or a Slack button, and a
dead delivery over the audit API. A case or an incident asks for an Investigation, whose
Finding may propose a Remedy; people approve it, an executed one asks for a follow-up
Investigation. The reaper trusts the health row that the reconciler's passes and an
operator's probe write.

## 2. Plan

| Order | Module | What it is for | State |
|---|---|---|---|
| 1 | `CaseLifecycle` | one alert, all writers | modelled, checked, proved |
| 2 | `ThreadDispatch` | one thread, minting to record | modelled, checked, proved |
| 3 | `Remedy`, `RemedyPromise`, `RemedyProofs` | approval and execute-once, and the promise it implements | modelled, checked, proved |
| 4 | `Investigations` | triggers, budgets, slots, the paid loop and its endings | modelled, checked, proved |
| 5 | `Intake` | accept, dedup, chunked processing, replay, reconcile passes and the health row, against an upstream | modelled, checked, proved |
| 6 | `CaseLifecycleProofs`, `CaseLifecycleSafety`, `CaseTimelineProofs` | the proofs of 1 | done |
| 7 | `ThreadDispatchProofs`, `InvestigationsProofs`, `IntakeProofs` | the proofs of 2, 4 and 5 | done |
| 8 | `Episode`, `ThreadChannel` | abstract specifications of the lifecycle and of a thread | planned |
| 9 | `Snooze`, `Incidents`, `Streaming`, `Digest` | the remaining state machines | planned |

`Intake` abstracts an episode to the phase the transition table leaves it in; how an
observation is written is `CaseLifecycle`'s subject, where a batch is any claim; a follow-up that `Remedy` asks for is a
trigger of `Investigations`.

## 3. CaseLifecycle

One alert is modelled: all lifecycle state is keyed by the alert, and two alerts only
share configuration.

| Variable | Code |
|---|---|
| `db` | the committed rows: `alert_cases` (`rows`, `n`), the `alerts` row (`alert`), `alert_events` dedupe keys (`events`), `notify.evaluate` jobs (`notices`). `word` and `heardAt` are history: what upstream last said of an episode, and when anything was last heard |
| `tx` | the observe transaction in progress: its uncommitted rows and `observeAccum.latest` (`mem`) |
| `reaper`, `closer`, `human` | the program counters of `Reap`, `CloseDue` and `setAck` between their reads and their writes, with the snapshot they decide from |
| `sources` | `alert_sources` and the health verdict |
| `retention` | the retention window of the case policy; 0 is off |
| `now` | the clock |

| Action | Code |
|---|---|
| `ObserveBegin` | `ObserveBatch`: stamp, `UpsertBatch` (takes the row lock), `LatestForAlerts` |
| `applyOpen`, `applyT2`, `applyT3`, `applyT4`, `applyT5Defer`, `applyT5`, `noTransition` | the rows of `transitionTable`, with the statement each one issues (`observeSQL`, `transitionSQL`, `openCaseSQL`), its event and its notification |
| `ObserveCommit`, `ObserveAbort` | `flushProjections` and COMMIT; rollback for whatever reason |
| `ReapBegin`, `SourceRemovedCandidates`, `GuardedCandidates`, `resolveSources`, `healthBySource`, `expireRead`, `expireCommit`, `ReapAbandon` | one `Reap` tick, one action per read that sees its own committed state |
| `CloseDueCandidates`, `closeDueRead`, `closeDueCommit`, `CloseAbandon` | one `CloseDue` tick |
| `setAckRead`, `setAckCommit` | acknowledge and unacknowledge |
| `SetRetention`, `RegisterSource`, `RemoveSource`, `SetMaxSilence`, `SetHealth` | the operator and the prober |

Abstractions. The observe transaction locks the `alerts` row with its first statement
and every other writer needs that row to commit, so no one commits while `tx.on`; the
others are cut at every read. The domain machine works on the in-memory case (`ApplyT*`)
and the SQL on the row (`observeSQL`, `transitionSQL`); the two are kept apart because
what they disagree about (`state_version`, `GREATEST` on `last_observed_at`) is the
point. Times are small integers, labels and annotations are left out, `actor` labels
and comments are left out.

### Runs

| Run | Bounds | Shows |
|---|---|---|
| `case_races` | 1 source, windows {0,1}, instants 0 and 1, 2 episodes, 4 versions, batches of up to 2 stamped up to one instant early, 1 acknowledgement; killed ticks (1.9M states) | ingest, reconciler, delayed close, a human and an operator switching retention: `TypeOK`, `OneOpenEpisode`, `LastWord`, `ProjectionAgrees`, `OneNoticePerEdge`, `TimelineTellsTheStory`, `VersionPinsTheRow`, `TerminalIsTerminal`, `ObservedNeverRewinds` |
| `case_expiry` | 2 interchangeable sources, `max_silence_s` off or 1, `endsAt` none or 0, window 1, instants 0 to 2, 1 episode, 2 versions; killed ticks (2.1M states) | sources registered, removed, edited and probed between the steps of a reap tick, ingest refreshing or resolving the case: `RowsSound`, `NoExpiryUnseen`, `SilentIsOverdue`, `TimeoutStillProven` |
| `case_liveness` | 1 source, windows {0,1}, instants 0 to 2, 1 episode, 3 versions, fairness (56k states) | `ReceiptIsSpent`, `OrphansEnd` |
| `case_self_conflict` | as small as the counterexample | `BatchNeverLosesToItself` violated: the finding of section 8 |

Two episodes are enough to see one closed under a later one. In `case_races` a receipt
taken at 0 falls due at 1, and a second episode fits behind it; four versions let a
snapshot be stale by a whole batch. In `case_expiry` there is an instant before, at and
after every deadline (a grace of 0, a threshold of 1), and one observation can still move
the row between the sweep's read and its write. The bound on `state_version` cuts
histories, it does not change a step.

Fairness. The periodic jobs are rescheduled for ever (`WF` on the sweeps and the clock),
a transaction that began ends, and Postgres grants a row lock in arrival order, so a
sweep's commit that is possible again and again happens (`SF` on the two commits). The
liveness run has no faults: a killed tick leaves no trace, so what holds from every state
of a fault-free run holds after the last fault.

### Proofs

`CaseLifecycleProofs`, `CaseLifecycleSafety` and `CaseTimelineProofs` prove the following for every set of
sources, every window, grace, threshold, number of episodes, versions and observations
per batch, from `BoundsAssumption` and `ConfigAssumption` (the constants are naturals
and sets of them) alone.

| Theorem | Property |
|---|---|
| `TypeCorrect` | `TypeOK` |
| `RowsStaySound` | `RowsSound` |
| `EpisodesStayUnique` | `OneOpenEpisode` |
| `LastWordStands` | `LastWord` |
| `ProjectionStaysTrue` | `ProjectionAgrees` |
| `NoticesAreExact` | `OneNoticePerEdge` |
| `VersionPins` | `VersionPinsTheRow` |
| `ClosedStaysClosed` | `TerminalIsTerminal` |
| `ObservedIsMonotone` | `ObservedNeverRewinds` |
| `TimeoutIsGrounded` | `TimeoutStillProven` |
| `SilenceIsGrounded` | `SilentIsOverdue` |
| `ExpiryIsSeen` | `NoExpiryUnseen` |
| `TimelineIsTold` | `TimelineTellsTheStory` |

None of these is inductive. A sweep that commits is safe because its snapshot is the
row; the snapshot is the row because every statement that changes what a sweep decides
from also moves `state_version`; an observe transaction is safe because it works on a
private copy nobody else can overtake. The invariant says exactly that:

    IInv == TypeOK /\ Targets /\ Sound(db) /\ TxInv /\ ProjInv /\ SnapInv /\ SourceInv

- `Sound(db)`: rows, uniqueness, last word and notices of the committed state;
- `TxInv`: the transaction's private rows are `Sound` too, its memory is the same
  episode as its latest row (up to `version` and the clock), and its rows follow the
  committed ones: nothing closed has moved, versions and `last_observed_at` only grew;
- `ProjInv`: the `alerts` row describes the latest episode;
- `SnapInv`: a snapshot held by a sweep is pinned by its version, and if it is the row it
  was a legal candidate, overdue when it was read;
- `SourceInv`: a source the tick has proven was healthy when it was asked, or turned sick
  after the tick began;
- `Targets`: the numbers the sweeps and the human hold name existing episodes.

One lemma per action shows that it preserves each part it can disturb; the lemma
`StepFacts` derives from `IInv` what one step may do to the rows, and the action
properties follow from it.

The timeline is a second layer over `IInv`. `Timeline(d)` says slot by slot which dedupe
keys an episode has claimed, and adds what the property leaves out and the induction
needs: a row that does not exist yet has claimed none, and a suppression that lasts has a
number. `TimelineInv` asks it of the committed rows and of the transaction's, and that
the transaction's memory holds the row's own suppression count, since the next key is
numbered from memory; a sweep numbers nothing, and `state_version` vouches for the count
it writes back. Only model-checked: the two liveness properties, which are outside this
prover's reach.

## 4. ThreadDispatch

One provider thread of one destination is modelled, with the deliveries queued on it,
for the two kinds of conversation: a signal's card (amended as the signal changes, with
replies) and a digest's (one card per window or replies under the first).

| Variable | Code |
|---|---|
| `db.thread` | the `channel_threads` row: state, handle, reply count, `last_sent_seq`, `next_seq` |
| `db.rows` | `notification_deliveries`, indexed by `thread_seq` |
| `db.notes` | `notifications`: reason and aggregate status |
| `db.jobs`, `orphans` | `deliver.dispatch` jobs River holds, and jobs whose worker died |
| `minter` | a `notify.evaluate` between its read of the thread and its fan-out |
| `worker` | a dispatch between TX 1 and TX 2, with what it read under the lock |
| `enabled` | `channels.enabled` |
| `cards`, `posted` | external: the root cards the destination shows, and the delivery that reached it last |

| Action | Code |
|---|---|
| `EvaluateRead`, `EvaluateCommit` | `Evaluate` and `fanOut`: modes chosen from an unlocked read (`modesFor`, `PlanFor`), then rows, numbers and jobs in one transaction |
| `ExitQuietly`, `Claim`, `ClaimAbandon`, `RecoverStalled`, `RecoverPointer`, `RecoverGone` | the outcomes of TX 1: `Dispatch`, `prepare`, `claim`, `recoverThread`, `recoverDeadThread`, over `Decide`, `Recover` and `effectiveMode` |
| `Deliver` | external: the provider call, with the outcomes the error classes distinguish |
| `Record`, `RecordFails` | TX 2: `record`, `succeed`, `fail`; or its transaction fails |
| `Crash`, `Rescue` | the pod dies; River's rescuer |
| `retryDelivery`, `SetEnabled`, `Tick` | the operator, the clock |

Abstractions. TX 1 and TX 2 hold the thread's advisory lock from their first write to
their commit, so each is one action; what they read *before* the lock is not forgotten:
a second job of a delivery may act on a schedule that was not there yet (`NotDue`), and
on a status that is over (`Stale`): it may bury or re-point a row that was resolved since
(`RecoverGone`, `RecoverPointer`, whose writes assert no status). A dispatch that
snoozes changes nothing and is not a step. A row and its number are written by one
transaction, hence "delivery" and "slot" are one. A rendered card is a member of
`Contents`; replies have no hash here because nothing reads it. Whether a thread is a
signal's or a digest's is chosen in `Init` (`thread.digest`) and decides which facts
reach it. A digest replies to a root that has landed wherever the destination threads or
amends (`PlanFor`).

Scaled values: a lease of 0 instants means "expired at the next instant", the wait limit
likewise; the reply ceiling is 0 or 1 and the attempt budget 2. The guards
`now + Lease < MaxTime` on a crash and a failed TX 2, `now + MaxWait < MaxTime` on a
fan-out and `now + wait <= MaxTime` on a retry keep the end of the bounded clock from
looking like a lost retry. `MaxSeq` and `MaxNotes` bound the numbers handed out.

### Runs

| Run | Bounds | Shows |
|---|---|---|
| `dispatch_failures` | 2 workers, 3 deliveries of 2 notifications, crashes, retryable and fatal errors (0.6M states) | `HeadExact`, `OneSender`, `InOrder` |
| `dispatch_reroot` | 1 worker, 3 deliveries of 2 notifications, reply ceiling 0, lost pointers, dead destinations, `notify.evaluate` redelivered, the channel switched off and on (0.4M states) | `WritesNewestCard`, and `TypeOK`, which also says that the sequence has no hole and handles name real cards |
| `dispatch_late` | 2 workers, 2 deliveries on a signal's or a digest's thread, stalls past the lease, failing TX 2, lost cards, retries by hand (2.0M states) | `HeadNeverRewinds`, `DigestNeverAmended` |
| `dispatch_ends` | 1 worker, 2 deliveries, crashes, failing TX 2, retries and a destination that goes away, fairness (0.1M states) | `EveryDeliveryEnds` |

Workers are interchangeable and so are the contents of a card, which are only compared:
both are symmetric where no liveness is checked. Three slots are the smallest number with
one before, at and behind the head; two workers are all a race on one thread needs, since
a third would contend for the same claim. Two slots show a delivery restarted by the one
behind it.

`EveryDeliveryEnds` has one named exception, `Stranded`: the last delivery of a thread
whose TX 2 failed. River runs its job again after about two seconds (`BackoffFor(1)`),
inside the 120 s lease; `claim` finds the row taken and ends quietly, which completes the
job. The row stays `sending` until a later delivery of the thread waits out `MaxWait`
behind it and `recoverThread` gives it a new job; the run shows that this then happens.

Fairness. River runs queued jobs and rescues lost ones (after an hour, longer than the
120 s lease), the clock moves, a fan-out in progress commits, and a call and its TX 2 are
bounded by timeouts (`WF` on each). Nothing is assumed of faults: `RecordFails` and
`Crash` carry no fairness and may happen whenever their bound allows. `OneSender`,
`HeadExact` and `InOrder` are claimed where no pod stalls past its lease, `HeadExact` also
where nobody retries by hand and no root message is lost; those are the subject of
`dispatch_late` and `dispatch_reroot`, and of `FinishedIsPassed` below.

### Proofs

`ThreadDispatchProofs` proves the following for every number of workers, deliveries,
notifications and cards, every lease, wait limit, reply ceiling and attempt budget, from
`CapabilityAssumption`, `LimitAssumption` and `WorldAssumption` (naturals, and which
faults and answers there are). `Faults` and `Answers` are constants, so what a deployment
is assumed not to suffer is a hypothesis of the theorem.

| Theorem | Property | Provided that |
|---|---|---|
| `ThreadDispatchTypeCorrect` | `TypeOK` | – |
| `HeadIsMonotone` | `HeadNeverRewinds` | – |
| `DigestsStayReadable` | `DigestNeverAmended` | – |
| `OneMessageInFlight` | `OneSender` | no pod stalls past its lease |
| `DeliveredInOrder` | `InOrder` | no pod stalls past its lease |
| `FinishedIsPassed` | `HeadCovers`: a row that is resolved is not ahead of the head | – |
| `HeadIsExact` | `HeadExact` | no stall, no dead delivery is retried by hand, no root message is lost |
| `WritesReachTheNewestCard` | `WritesNewestCard` | no stall, no crash, every TX 2 is written and every answer arrives |

Each hypothesis is needed: with the fault back, TLC violates the property (a late TX 2
after a stall; a row behind the head after a retry by hand, or after a second job that
read it before it was sent and finds the root message lost; a card nobody recorded after a
crash, a failed TX 2 or a lost answer). Three deliveries suffice; for `WritesNewestCard` with
crashes, failed TX 2s or lost answers they do with `MaxReplies = 0` and `MaxAttempts = 1`,
so that the card that was not recorded is a roll-over and a later write still names the
one before it.

The invariant has five layers, each resting on the ones before it.

- `IInv` holds whatever goes wrong: the rows are numbered without a hole and the head is
  behind the next number (`DbFit`), a fan-out has deliveries of its thread's kind to make
  (`MintersFit`), a dispatch and an orphaned job are about deliveries that exist
  (`WorkersFit`, `OrphansFit`). What every operator of the module does to such a database
  is one lemma each: claims, records and sweeps only ever move the head forward.
- `Sole`: a dispatch past TX 1 works on the delivery right behind the head of a live
  thread, under a claim that is its own and within the lease; hence there is one. It is
  `OneSender` with the reason for it, and nothing weaker is inductive: a second claim is
  refused by the lease, and a sweep stops at the row in flight (`SweptStays`).
- `HeadCovers` holds whatever goes wrong, too: every write that resolves a row moves the
  head past it in the same transaction, and nothing moves the head back. It is the half of
  `HeadExact` that no fault takes away.
- `Exact`: the resolved rows are the ones up to the head, and a row that is `sending` is
  the one behind it. A sweep of a live thread then passes nothing (`ExactSweepStays`).
  `PointerFree` (no thread died of a lost root) is where its third hypothesis enters.
- `Known`: unless a new card is in flight, the thread's handle is the newest card.

Two by-products: the branch of `recoverThread` that gives up on a stalled head is never
taken from these states (`StalledEffect`), and `AggregateStatus`, `PlanFor` are total, which
the proofs need and overlapping `CASE` arms did not give. `EveryDeliveryEnds` is liveness
and stays with TLC.

## 5. Remedy

One Remedy is modelled, from its proposal to its end: Remedies share nothing but the
grants and the ToolServer's configuration, which may change at any moment here.

| Variable | Code |
|---|---|
| `remedy`, `approvals`, `log` | the `remedies` row, `remedy_approvals`, `remedy_transitions` |
| `grants`, `bound`, `intact` | who holds the approval grant now; whether `RemedyBinding` accepts the Tool now; whether the stored arguments still hash to what was approved |
| `job`, `exec` | River's `remedies.execute` (deliverable, deliveries used) and the workers running it |
| `sweep` | what `remedies.sweep` selected and has not locked yet |
| `sent`, `made` | history, external: calls that reached the write Tool, and whether it made the change |
| `asked` | follow-up Investigations requested |

| Action | Code |
|---|---|
| `ApproveRemedy`, `DeclineRemedy`, `GrantChanges`, `ToolServerChanges` | people and configuration |
| `ExecuteRemedy`, `BeforeClaimFails`, `claimNothing`, `claimLapsed`, `claimRefused`, `claimRemedy`, `claimUnheard` | the job's unlocked read, and the outcomes of the claim's transaction; a commit whose answer is lost is one of them |
| `unreachable`, `CallTool`, `toolAnswers` | `callWriteTool`: nothing sent; sent; answered well, badly or not at all |
| `recordOutcome`, `recordFails`, `followUpExecutedRemedy` | the second transaction and what follows it |
| `PastDeadline`, `ExpireRemedies`, `OutcomeOverdueSelect`, `FailOverdueRemedies` | both halves of `remedies.sweep`, cut between the select and the row lock |
| `Crash`, `RescueStuckJob` | the worker dies; River hands the job to a second worker although the first may live |

`RemedyPromise` is what all of this promises, without jobs, locks, leases, sweeps or a
clock: people consent, one claim is made once enough of them have, the Tool is called at
most once and only under the claim, and the verdict never contradicts the call. `Promise`
instantiates it over `PhaseOf(remedy)`, `approvals` and `sent`; `KeepsPromise` is the
refinement. A claim given up as `outcome_unknown` may still be on its way to the Tool, so
the promise lets the one call happen there too; that is what the code does.

Run `remedy`: 2 approvers, 2 workers, 3 deliveries, a window of 2 instants, an outcome
deadline of 1, 4 instants, all faults (0.6M states). A window can be renewed once, lapse
before and after an approval, and a claim can outlive its deadline; two workers are all
the claim's race needs, and the third delivery arrives after both have been through.

Fairness: the clock runs and `remedies.sweep` is a periodic job, run again for ever
(`WF` on its four steps and on `Tick`). No worker is assumed to make progress:
`EveryRemedyEnds` holds although the execution job may be lost at any point.

### Proofs

`RemedyProofs` proves, for any finite set of approvers, any set of workers and any
window, deadline and number of deliveries (`RemedyAssumption`):

| Theorem | Property |
|---|---|
| `RemedyTypeCorrect` | `TypeOK` |
| `SendsAtMostOnce` | `AtMostOnce` |
| `EndingsAreHonest` | `EndingHonest` |
| `StoryIsComplete` | `StoryComplete` |
| `RemedyKeepsPromise` | `KeepsPromise` |

`AtMostOnce` is not inductive: a second worker about to call would break it. The invariant
`Safe` says why there is none. `OneOwner`: at most one worker is past the claim.
`RowFits`: while the row has not been claimed, or ended without being claimed, nobody is
past the claim and nothing was sent, so the only way past it, `approved -> executing`
under the row lock, starts from an empty stage. `WorkersFit`: what the owner is about to
do agrees with what was sent so far, and until it has recorded its outcome the row is
still executing or was given up as unknown. `LogFits` lists the few paths a row can
take. The refinement needs `TypeOK /\ Safe` for one step only, the call: the phase it
happens in, and that it is the first.
`EveryRemedyEnds` is liveness and stays with TLC.

## 6. Investigations

The runs of one Investigator about one subject, with the slots and the day's tokens they
compete for. A subject is reduced to how often its membership changed.

| Variable | Code |
|---|---|
| `runs`, `steps`, `published` | `investigations`, the tokens in `investigation_steps`, published Findings |
| `jobs`, `workers` | `investigations.run`: deliverable, deliveries used, gone with its run left open; and the workers |
| `subject`, `untold` | the Incident's membership, and an `investigations.incident` job that is waiting |
| `payers` | history: how many deliveries called the model for a run |

| Action | Code |
|---|---|
| `Request`, `MembershipChanges`, `IncidentChanged` | the triggers; `request` and `Admit` coalesce, defer by the interval, or skip on the record |
| `RunInvestigation` | the job is delivered: `Proceed` is the order of the checks, `After` where they lead |
| `readSubject`, `cannotStart`, `Start`, `StartAtCapacity`, `StartNotQueued` | up to the start under the org's lock |
| `ModelTurn`, `turnFails`, `WallTimeRunsOut` | `runLoop`: a paid turn and what follows from it |
| `finish`, `abandonOnGivingUp`, `Crash`, `RescueStuckJob` | the endings |

`IncidentChanged` reads the switch and `request` reads it again: a trigger switched off in
between is recorded as skipped rather than ignored. A turn the provider refuses ends its
run `failed` with the tokens it cost, whatever is left of the budget (`TurnEnds`).

A delivery that snoozes changes nothing and costs no attempt, so it is no step. Answer
texts, Tools, classification and redaction are data. One day is modelled.

| Run | Bounds | Shows |
|---|---|---|
| `investigations` | 2 runs, 2 workers, 1 slot, 2 tokens a run and a day, turns of 1 or 2 tokens, 2 deliveries, 2 membership changes, instants 0 and 1, all faults (2.1M states) | `TypeOK`, `WithinConcurrency`, `FollowUpsSpaced`, `PaidOnce`, `FindingsPublishedOnce` |
| `investigations_end` | the same without drawn triggers, rescues and switching off, turns of 1 token, fairness (0.2M states) | `EveryRunEnds` |

Two runs and one slot are the smallest number that contend; a turn of 2 tokens after one
of 1 overshoots the budget. Fairness: a worker that lives goes on (`WF`), and River polls
its queue fairly, so a job that can be worked again and again is (`SF`, because a slot
may be taken and freed in between). `EveryRunEnds` names its one exception: a last
delivery that dies, or whose `AbandonInvestigation` fails, leaves its run open
(`jobs[r].lost`), and a run left `running` keeps a slot that others then wait for.

### Proofs

`InvestigationsProofs` proves, for every finite set of workers and every concurrency,
interval, budget, number of runs and deliveries (`InvestigationsAssumption`):

| Theorem | Property |
|---|---|
| `InvestigationsTypeCorrect` | `TypeOK` |
| `SlotsAreKept` | `WithinConcurrency` |
| `TurnsArePaidOnce` | `PaidOnce` |
| `FindingsAreExact` | `FindingsPublishedOnce` |
| `FollowUpsAreSpaced` | `FollowUpsSpaced` |

`PaidOnce` needs to know why a second delivery cannot pay. `OneOwner`: one worker is in
the loop of a run. `WorkersFit`: whoever is in it and has not paid found the run unpaid,
and nobody is in the loop of a run that was never started. `RunsFit`: a run not yet begun
is unpaid. `DeliveriesCounted` (each worker on a run used up a delivery) and `Numbered` (a
new run lands on no old one) keep rescues and requests from disturbing these. The
spacing of follow-ups is decided at the request and has to survive until the start:
`OneWaits` (one follow-up waits), `WaitsItOut` (it waits out the interval after every one
that began) and `StartedApart` (the ones a worker started are apart).
`EveryRunEnds` is liveness and stays with TLC.

## 7. Intake

One Alertmanager group is modelled with the upstream itself, so that a stale claim and a
true one are different steps.

| Variable | Code |
|---|---|
| `firing`, `muted`, `source`, `wire` | external: the alerts that fire, those a silence or an inhibition matches, whether the source answers, notifications being delivered |
| `batch`, `job`, `worker` | `ingest_batches` with the dedup claims, `ingest.process_batch` jobs, the workers |
| `rejected` | `ingest_rejections` |
| `episode`, `lapsed` | the phase of each alert's latest episode, and the episodes whose `endsAt` or silence threshold has passed |
| `health`, `pass`, `prober` | `source_health`, a reconcile pass and an operator's probe between their reads and writes |
| `applied` | history: the observations of each batch that were committed |

| Action | Code |
|---|---|
| `Change`, `Mute`, `SourceMoves` | external: what happens upstream |
| `Accept`, `AcceptDuplicate`, `Lose` | `Accept`: claim, batch and job in one transaction; the claim stands; or nothing was kept |
| `ProcessBatch`, `plan`, `applyChunk`, `MarkProcessed`, `processFails`, `Crash` | the job, chunk by chunk |
| `planRejects`, `undecodable` | alerts that fail `normalise` are recorded and dropped, the batch goes on; a payload that does not decode ends the job at once |
| `Replay` | `Replay`, whose gate can be forced |
| `Reconcile`, `probeSource`, `probeMisled`, `apply`, `SaveHealth`, `passFails` | a pass: the row is read before the upstream is asked, what it showed is observed chunk by chunk, and the row is written back whole |
| `Probe`, `ProbeGetHealth`, `ProbeSaveHealth` | `POST /sources/{id}/test`, which asks first and reads afterwards |
| `Lapse`, `Reap`, `CloseDue` | the clocks of an episode, the reaper as far as the health row lets it, and the close that waited for the retention window |

`Observe` is `ObserveBatch` reduced to the transition table: `PhaseAfter` is where a row
leads, `NoRow` the observations that have none. A webhook says firing or resolved; a pass
says firing or, of an alert with a silence or an inhibition to show for it, suppressed.
So a pass opens an episode for what fires unmuted only, and an episode that is suppressed
is not refreshed by being found suppressed again. A muted alert reaches no webhook.

A chunk is one alert. Time is abstract: a dedup claim has lapsed or not when it is tried,
a retention window ends some time after the resolve, and the clock of an episode may run
out unless what it shows is `Confirmed`. That a pass confirms an unmuted firing alert of a
source that answers before its clock runs out is assumed (a pass every 30 s, thresholds of
minutes). A suppressed episode is not confirmed. `Clocked` are the alerts that have a
clock at all (an `endsAt`, or a source with `max_silence` on) and `Deferred` those with a
retention window. Idle workers are interchangeable and one stands for all; a group's next
notification replaces the one still being retried.

Run `intake`: 2 alerts, one of them clocked and deferred and the other neither, 2 workers,
1 pass, 1 batch with its replay, 2 deliveries, an unreachable threshold of 2, 3 changes
upstream and one fault that is not bounded by the deliveries (0.8M states). One batch is
enough for the races between its own two jobs, a late chunk and a pass; the three changes
are a fire, a resolve and a fire again, a fire with a silence that comes and goes, or an
outage in between. Fairness: passes recur and are bounded in time, clocks run on and the
sweeps tick (`WF` on each pass, and on the clocks and sweeps together). Nothing makes the
source come back, and neither Alertmanager, an ingest worker nor an operator's probe is
assumed to get anywhere: the webhook path only makes oto faster.

`Converges` is why the reconciler and the reaper exist: whatever was lost, rejected,
repeated, retried out of order or applied from a stale snapshot, once upstream stops
changing and stays reachable every alert is `Settled` for good. That is as much as oto can
come to know: what fires unmuted is shown firing; what fires muted is not, but whether its
episode is suppressed, has expired as silent or never began depends on what was observed
before the silence; what does not fire has no open episode, provided a clock runs on it.
With `max_silence` off and no `endsAt`, an episode whose resolve was lost stays open. An
alert is rejected, or fails its bounds in a pass, as a fault that may happen and not as a
property of the alert: one that never fits is dropped by both paths for ever and no
episode is opened for it.

`ProcessedMeansApplied` and `AcceptedIsOwed` say what a `processed` (every alert observed,
or its rejection recorded) and a 202 are worth. `DownIsNoticed`: a source that stays down
ends up `unreachable`, although a pass and a probe overwrite each other's health rows.

### Proofs

`IntakeProofs` proves, for every set of alerts, workers and passes and every number of
batches, deliveries, changes and faults (`IntakeAssumption`):

| Theorem | Property |
|---|---|
| `IntakeTypeCorrect` | `TypeOK` |
| `ProcessedIsTrue` | `ProcessedMeansApplied` |
| `AcceptedStaysOwed` | `AcceptedIsOwed` |

A worker marks its batch from what it has left to do, so the invariant says what that is
worth: what it no longer has to apply was applied or rejected (`WorkersFit`). `OneWorker` (a job is
with one worker) and `BudgetLeft` (a job that waits has a delivery left) carry
`AcceptedIsOwed` through failures and crashes; `Numbered` keeps a new batch off an old
one. `Converges` and `DownIsNoticed` are liveness and stay with TLC.

## 8. Findings

The run `case_self_conflict` states what a comment says, and TLC shows how the code
departs from it (the lines are quoted in `PROJECT.json`): a batch with two observations of
one alert loses its compare-and-set to its own first write, on every retry
(`alerts/service/lifecycle.go:718`).

Other places where the models follow the code and a comment or document says otherwise.
No run of this project states them, but each is a behaviour the modules have:

- `alerts/domain/lifecycle.go:849`: (suppressed, observe_suppressed) has no row in the
  transition table, so a case reported suppressed on every pass keeps its old
  `last_observed_at` and expires as `silent` while its source is up (ADR 0056: "with no
  upstream observation"). Nor has (none, observe_suppressed): a silenced alert whose
  webhook was lost is not opened until the silence is lifted.
- `platform/jobs/ordering/ordering.go:215`: a dead delivery that is retried by hand is out
  of order, since the head has passed it, and is never attempted
  (`notification/api/audit.go:361`: "never silently lost").
- `notification/repository/threads.go:242`: the reply count survives the ceiling re-root, so
  every later reply is a new card (`threads.go:341`: "The reply count resets").
- `alerts/service/actions.go:162`: acknowledging a suppressed case writes a projection
  without the suppression columns, so the `alerts` row loses them while the case keeps
  them (`alerts/repository/alert.go:1071`: "can never disagree"). `ProjectionAgrees`
  therefore speaks of state, current case and count only.
- `notification/service/dispatch.go:562`: the stranded delivery described above
  (`dispatch.go:48`: "The §G.5 lease reclaims it").
- `notification/service/dispatch.go:540`: `RepointToRoot` changes `mode`, part of
  `deliveries_fanout_uniq`; when the other delivery of the notification was re-pointed
  before, TX 1 rolls back on every attempt (`RepointCollides`). `dispatch_ends` leaves
  lost pointers out for this reason.
- `notification/service/dispatch.go:252`: the status is read before the thread's lock is
  taken (line 341), and `RepointToRoot` (`notification/repository/deliveries.go:483`)
  asserts none, so a second job that finds the root message lost can turn a delivery that
  was sent meanwhile back to `pending`, behind the head, where it stays
  (`dispatch.go:257`: "the only correct response is to exit quietly").
- `notification/repository/deliveries.go:417`: `MarkFailed` and `MarkDead` do not require
  `sending`, so a worker that returns after its lease can un-resolve a sent row.
- `notification/repository/deliveries.go:557`: `LastRootHash` reads the stored mode and
  does not see a reply that was posted as a card.
- `notification/service/notify.go:884`: a redelivered evaluation plans other modes once
  the root has landed, and adds deliveries.
- `notification/repository/threads.go:485`: a sweep of a dead thread skips deliveries of
  other notifications without settling those, which stay `dispatched`.
- `notification/repository/deliveries.go:289`: `ambiguous` latches on the stored mode, so
  a re-sent card whose row was minted as a reply carries no marker.
- `ingestion/service/process.go:300`: a retry over chunks that were committed is not free:
  a resolve that was applied in between is undone, and a `firing` observation of the
  retried chunk opens a new episode. The reaper ends it later (`Converges`). The same goes
  for a replay, whose gate is read before its job runs.
- `ingestion/repository/batches.go:149`: `MarkProcessed` asserts no status, so of two jobs of
  one batch the later one decides what the row says; a replay's job is skipped when the
  other job marks the batch `failed` before it runs.
- `ingestion/worker/process_batch.go:97`: a death on the last delivery, or an error of
  `MarkFailed`, which is only logged, leaves a batch `pending` with no job (`stranded`).
- `ingestion/repository/dedup.go:60`: fire, resolve and fire again within `DedupTTL` is
  answered as a duplicate and only the next pass opens the episode.
- `investigator/domain/controls.go:191`: a change coalesces into a queued run, which may
  have read its subject a moment before it is seen running.
- `app/investigator.go:485`: "A JOB THAT GIVES UP MUST NOT LEAVE ITS RUN WAITING" does not
  reach a worker that dies on the job's last delivery; its run keeps its slot.
- `investigator/service/remedies.go:507`: approvals are counted when one is given. When a
  revoked grant is given back and completes the count again, nothing moves the Remedy,
  which expires as `proposed`.

## 9. Not modelled

- In the lifecycle: snooze, comments, event-key pruning, two people acknowledging at once.
- In dispatch: policies, suppressors and verbosity (they decide whether a fact reaches
  the thread; here any may), incident conversations, destinations without threads
  (nothing orders them), channel health, the digest tick, River's attempt ceiling.
- In intake: the push stamp, the divergence count, clock skew and route timings of the
  health row, which decide nothing, and two passes of one source at once.
- In investigations: digest windows (a run still waiting at the window's close is
  skipped), more than one day, Tools and classification.
- In remedies: how required approvals and risk follow from the rules (an input here), and
  the notification of each move.
- Postgres: transactions are modelled by what READ COMMITTED, row locks and advisory
  locks guarantee; lock cycles appear as aborted transactions.
- Channels, silences, rules, statistics, identity, drill, web UI and wiring: provider
  I/O, proxies, queries, CRUD and presentation. They are most of the repository's lines.
  The definitions here stand for about 6% of the implementation's lines. The remainder
  was not read closely enough to say that it holds no further state machines.
- Enrichment's early release, incidents, streaming and the digest's windows are state
  machines left to the plan above.
