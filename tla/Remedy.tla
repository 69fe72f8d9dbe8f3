------------------------------- MODULE Remedy -------------------------------
(***************************************************************************)
(* One Remedy: a change an Investigation proposed, that people holding a   *)
(* grant approve and oto then sends to a write Tool.  Every write takes    *)
(* the remedies row lock (LockRemedy) and is one transaction, so each is   *)
(* one action; what is read outside a transaction, and the call to the     *)
(* Tool, is a step of its own.  The execution job is delivered at least    *)
(* once: River may hand it to a second worker while the first still runs.  *)
(***************************************************************************)
EXTENDS Integers, Sequences, FiniteSets

CONSTANTS
    Approvers,        \* users who may ever hold the grant on the ToolServer
    Executors,        \* workers of the investigate queue
    Window,           \* the org's approval window
    OutcomeDeadline,  \* RemedyOutcomeDeadline
    MaxAttempts,      \* MaxAttemptsRemedyExecute
    Faults,           \* what may go wrong: crash, rescue, db, tamper
    MaxTime           \* bound on the clock

ASSUME RemedyAssumption ==
    /\ IsFiniteSet(Approvers)
    /\ Window \in Nat \ {0} /\ OutcomeDeadline \in Nat
    /\ MaxAttempts \in Nat /\ MaxTime \in Nat /\ Window <= MaxTime
    /\ Faults \subseteq {"crash", "rescue", "db", "tamper"}

NoTime == -1

States   == {"proposed", "approved", "executing", "executed", "failed",
             "declined", "expired"}
Failures == {"none", "tool_error", "outcome_unknown", "tool_unavailable",
             "arguments_changed", "approvals_withdrawn"}
Terminal(s) == s \in {"executed", "failed", "declined", "expired"}

Row == [named : BOOLEAN, required : 1..2, state : States, failure : Failures,
        expiresAt : Int, executingAt : Int]

\* What a worker is about to do with the job, and the answer it carries.
Outcome == [to : {"executed", "failed"}, failure : Failures]
Exec    == [pc : {"idle", "claim", "call", "wait", "record", "follow"},
            outcome : Outcome]
NoOutcome == [to |-> "failed", failure |-> "outcome_unknown"]
Idle      == [pc |-> "idle", outcome |-> NoOutcome]

VARIABLES
    now,
    remedy,      \* the remedies row
    approvals,   \* remedy_approvals: who approved these arguments
    log,         \* remedy_transitions: the states entered, in order
    grants,      \* who holds the approval grant now
    bound,       \* the named write Tool is configured, write and listed now
    intact,      \* the stored arguments still hash to what was approved
    job,         \* remedies.execute: deliverable now, deliveries used
    exec,        \* the workers
    sweep,       \* what remedies.sweep has selected and not yet locked
    sent, made,  \* history: calls made to the Tool; whether it made the change
    asked        \* follow-up Investigations requested

env  == <<grants, bound, intact>>
hist == <<sent, made>>
vars == <<now, remedy, approvals, log, env, job, exec, sweep, hist, asked>>

\* Mutant: an approved Remedy never lapses.
StateAtApprovedStands(r, at) ==
    IF r.state = "proposed" /\ at >= r.expiresAt THEN "expired" ELSE r.state
StateAt(r, at) ==
    IF r.state \in {"proposed", "approved"} /\ at >= r.expiresAt
      THEN "expired" ELSE r.state

OutcomeOverdue(r, at) ==
    r.state = "executing" /\ at >= r.executingAt + OutcomeDeadline

standingApprovers(who) == Cardinality(who \cap grants)

\* moveRemedy: the row, stamped, and the transition that records the move.
moveRemedy(to, failure) ==
    /\ remedy' = [remedy EXCEPT
                    !.state = to, !.failure = failure,
                    !.expiresAt = IF to = "approved" THEN now + Window ELSE @,
                    !.executingAt = IF to = "executing" THEN now ELSE @]
    /\ log' = Append(log, to)

\* proposeRemedies: a Remedy with no Tool is advice and needs the default two.
Init ==
    /\ now = 0
    /\ \E named \in BOOLEAN, n \in 1..2 :
         /\ named \/ n = 2
         /\ remedy = [named |-> named, required |-> n, state |-> "proposed",
                      failure |-> "none", expiresAt |-> Window,
                      executingAt |-> NoTime]
    /\ approvals = {}
    /\ log = <<"proposed">>
    /\ grants = Approvers /\ bound = TRUE /\ intact = TRUE
    /\ job = [ready |-> FALSE, used |-> 0]
    /\ exec = [w \in Executors |-> Idle]
    /\ sweep = "idle"
    /\ sent = 0 /\ made = FALSE
    /\ asked = 0

(***************************************************************************)
(* Humans and configuration.                                               *)
(***************************************************************************)
\* ApproveRemedy: the approval that completes the count enqueues the execution.
ApproveRemedy(u) ==
    /\ remedy.named /\ StateAt(remedy, now) = "proposed"
    /\ now + Window <= MaxTime                        \* bound
    /\ bound
    /\ u \in grants \ approvals
    /\ approvals' = approvals \cup {u}
    /\ IF standingApprovers(approvals') >= remedy.required
         THEN /\ moveRemedy("approved", "none")
              /\ job' = [ready |-> TRUE, used |-> 0]
         ELSE UNCHANGED <<remedy, log, job>>
    /\ UNCHANGED <<now, env, exec, sweep, hist, asked>>

DeclineRemedy ==
    /\ StateAt(remedy, now) \in {"proposed", "approved"}
    /\ moveRemedy("declined", "none")
    /\ UNCHANGED <<now, approvals, env, job, exec, sweep, hist, asked>>

GrantChanges(u) ==
    /\ grants' = IF u \in grants THEN grants \ {u} ELSE grants \cup {u}
    /\ UNCHANGED <<now, remedy, approvals, log, bound, intact, job, exec, sweep,
                   hist, asked>>

ToolServerChanges ==
    /\ bound' = ~bound
    /\ UNCHANGED <<now, remedy, approvals, log, grants, intact, job, exec, sweep,
                   hist, asked>>

\* Nothing in the program edits the arguments; the executor checks anyway.
ArgumentsEdited ==
    /\ "tamper" \in Faults /\ intact
    /\ intact' = FALSE
    /\ UNCHANGED <<now, remedy, approvals, log, grants, bound, job, exec, sweep,
                   hist, asked>>

Tick ==
    /\ now < MaxTime
    /\ now' = now + 1
    /\ UNCHANGED <<remedy, approvals, log, env, job, exec, sweep, hist, asked>>

(***************************************************************************)
(* ExecuteRemedy, one worker at a time.                                    *)
(***************************************************************************)
Become(w, pc) == exec' = [exec EXCEPT ![w].pc = pc]

\* The job failed: River delivers it again while deliveries are left.
Retried == job' = [job EXCEPT !.ready = job.used < MaxAttempts]

\* The job is delivered, and the row is read without its lock.
ExecuteRemedy(w) ==
    /\ exec[w].pc = "idle" /\ job.ready
    /\ job' = [ready |-> FALSE, used |-> job.used + 1]
    /\ Become(w, IF remedy.state = "approved" THEN "claim" ELSE "idle")
    /\ UNCHANGED <<now, remedy, approvals, log, env, sweep, hist, asked>>

\* A read or the claim's transaction fails, and with it this delivery.
BeforeClaimFails(w) ==
    /\ "db" \in Faults /\ exec[w].pc = "claim"
    /\ Become(w, "idle") /\ Retried
    /\ UNCHANGED <<now, remedy, approvals, log, env, sweep, hist, asked>>

\* Everything is checked again before the claim, and the first miss refuses it.
claimRefusal ==
    IF ~bound THEN "tool_unavailable"
    ELSE IF ~intact THEN "arguments_changed"
    ELSE IF standingApprovers(approvals) < remedy.required
      THEN "approvals_withdrawn" ELSE "none"

\* claimRemedy, when there is nothing to claim any more.
claimNothing(w) ==
    /\ exec[w].pc = "claim" /\ remedy.state # "approved"
    /\ Become(w, "idle")
    /\ UNCHANGED <<now, remedy, approvals, log, env, job, sweep, hist, asked>>

claimLapsed(w) ==
    /\ exec[w].pc = "claim" /\ remedy.state = "approved"
    /\ StateAt(remedy, now) = "expired"
    /\ moveRemedy("expired", "none")
    /\ Become(w, "idle")
    /\ UNCHANGED <<now, approvals, env, job, sweep, hist, asked>>

claimRefused(w) ==
    /\ exec[w].pc = "claim" /\ remedy.state = "approved"
    /\ StateAt(remedy, now) = "approved" /\ claimRefusal # "none"
    /\ moveRemedy("failed", claimRefusal)
    /\ Become(w, "idle")
    /\ UNCHANGED <<now, approvals, env, job, sweep, hist, asked>>

\* Mutant: the claim trusts the state read before the lock was taken.
claimRemedyStale(w) ==
    /\ exec[w].pc = "claim"
    /\ now + OutcomeDeadline <= MaxTime
    /\ claimRefusal = "none"
    /\ moveRemedy("executing", "none")
    /\ Become(w, "call")
    /\ UNCHANGED <<now, approvals, env, job, sweep, hist, asked>>

\* approved -> executing, committed before anything is sent.
claimRemedy(w) ==
    /\ exec[w].pc = "claim" /\ remedy.state = "approved"
    /\ StateAt(remedy, now) = "approved" /\ claimRefusal = "none"
    /\ now + OutcomeDeadline <= MaxTime               \* bound
    /\ moveRemedy("executing", "none")
    /\ Become(w, "call")
    /\ UNCHANGED <<now, approvals, env, job, sweep, hist, asked>>

\* The commit happened and its answer was lost: the worker never sends.
claimUnheard(w) ==
    /\ "db" \in Faults
    /\ exec[w].pc = "claim" /\ remedy.state = "approved"
    /\ StateAt(remedy, now) = "approved" /\ claimRefusal = "none"
    /\ now + OutcomeDeadline <= MaxTime               \* bound
    /\ moveRemedy("executing", "none")
    /\ Become(w, "idle") /\ Retried
    /\ UNCHANGED <<now, approvals, env, sweep, hist, asked>>

Answered(w, to, failure) ==
    exec' = [exec EXCEPT ![w] = [pc |-> "record",
                                 outcome |-> [to |-> to, failure |-> failure]]]

\* callWriteTool: no token, or no connection, so nothing was sent.
unreachable(w) ==
    /\ exec[w].pc = "call"
    /\ Answered(w, "failed", "tool_unavailable")
    /\ UNCHANGED <<now, remedy, approvals, log, env, job, sweep, hist, asked>>

CallTool(w) ==
    /\ exec[w].pc = "call"
    /\ sent' = sent + 1
    /\ \E b \in BOOLEAN : made' = (made \/ b)
    /\ Become(w, "wait")
    /\ UNCHANGED <<now, remedy, approvals, log, env, job, sweep, asked>>

\* Mutant: a timeout is recorded as if nothing had been sent.
toolAnswersGuessing(w) ==
    /\ exec[w].pc = "wait"
    /\ \/ made /\ Answered(w, "executed", "none")
       \/ Answered(w, "failed", "tool_error")
       \/ Answered(w, "failed", "tool_unavailable")
    /\ UNCHANGED <<now, remedy, approvals, log, env, job, sweep, hist, asked>>

\* Mutant: a call that timed out is put back to be tried again.
toolAnswersRetried(w) ==
    /\ exec[w].pc = "wait"
    /\ \/ made /\ Answered(w, "executed", "none")
       \/ Answered(w, "failed", "tool_error")
       \/ Answered(w, "approved", "none")
    /\ UNCHANGED <<now, remedy, approvals, log, env, job, sweep, hist, asked>>

\* Only a call that was made and answered badly, or not at all, ends here.
toolAnswers(w) ==
    /\ exec[w].pc = "wait"
    /\ \/ made /\ Answered(w, "executed", "none")
       \/ Answered(w, "failed", "tool_error")
       \/ Answered(w, "failed", "outcome_unknown")
    /\ UNCHANGED <<now, remedy, approvals, log, env, job, sweep, hist, asked>>

\* Mutant: the outcome is written over whatever the row says by now.
recordOutcomeOver(w) ==
    /\ exec[w].pc = "record"
    /\ moveRemedy(exec[w].outcome.to, exec[w].outcome.failure)
    /\ Become(w, IF exec[w].outcome.to = "executed" THEN "follow" ELSE "idle")
    /\ UNCHANGED <<now, approvals, env, job, sweep, hist, asked>>

\* recordOutcome: only while the row is still executing.
recordOutcome(w) ==
    /\ exec[w].pc = "record"
    /\ IF remedy.state = "executing"
         THEN /\ moveRemedy(exec[w].outcome.to, exec[w].outcome.failure)
              /\ Become(w, IF exec[w].outcome.to = "executed" THEN "follow" ELSE "idle")
         ELSE Become(w, "idle") /\ UNCHANGED <<remedy, log>>
    /\ UNCHANGED <<now, approvals, env, job, sweep, hist, asked>>

\* All of recordOutcome's tries failed: the job errs and is delivered again.
recordFails(w) ==
    /\ "db" \in Faults /\ exec[w].pc = "record"
    /\ Become(w, "idle") /\ Retried
    /\ UNCHANGED <<now, remedy, approvals, log, env, sweep, hist, asked>>

\* A follow-up that cannot be asked for is logged and given up.
followUpExecutedRemedy(w) ==
    /\ exec[w].pc = "follow"
    /\ asked' \in {asked, asked + 1}
    /\ Become(w, "idle")
    /\ UNCHANGED <<now, remedy, approvals, log, env, job, sweep, hist>>

Crash(w) ==
    /\ "crash" \in Faults /\ exec[w].pc # "idle"
    /\ exec' = [exec EXCEPT ![w] = Idle]
    /\ UNCHANGED <<now, remedy, approvals, log, env, job, sweep, hist, asked>>

\* River hands a job that ran too long to another worker; the first may live.
RescueStuckJob ==
    /\ "rescue" \in Faults
    /\ ~job.ready /\ 0 < job.used /\ job.used < MaxAttempts
    /\ job' = [job EXCEPT !.ready = TRUE]
    /\ UNCHANGED <<now, remedy, approvals, log, env, exec, sweep, hist, asked>>

(***************************************************************************)
(* remedies.sweep: select without a lock, then lock and look again.        *)
(***************************************************************************)
PastDeadline ==
    /\ sweep = "idle"
    /\ remedy.state \in {"proposed", "approved"} /\ remedy.expiresAt <= now
    /\ sweep' = "expire"
    /\ UNCHANGED <<now, remedy, approvals, log, env, job, exec, hist, asked>>

\* Mutant: the sweep acts on what it selected, not on what it locked.
ExpireRemediesStale ==
    /\ sweep = "expire"
    /\ moveRemedy("expired", "none")
    /\ sweep' = "idle"
    /\ UNCHANGED <<now, approvals, env, job, exec, hist, asked>>

ExpireRemedies ==
    /\ sweep = "expire"
    /\ IF StateAt(remedy, now) = "expired" /\ remedy.state # "expired"
         THEN moveRemedy("expired", "none")
         ELSE UNCHANGED <<remedy, log>>
    /\ sweep' = "idle"
    /\ UNCHANGED <<now, approvals, env, job, exec, hist, asked>>

OutcomeOverdueSelect ==
    /\ sweep = "idle" /\ OutcomeOverdue(remedy, now)
    /\ sweep' = "overdue"
    /\ UNCHANGED <<now, remedy, approvals, log, env, job, exec, hist, asked>>

FailOverdueRemedies ==
    /\ sweep = "overdue"
    /\ IF OutcomeOverdue(remedy, now)
         THEN moveRemedy("failed", "outcome_unknown")
         ELSE UNCHANGED <<remedy, log>>
    /\ sweep' = "idle"
    /\ UNCHANGED <<now, approvals, env, job, exec, hist, asked>>

Next ==
    \/ \E u \in Approvers : ApproveRemedy(u) \/ GrantChanges(u)
    \/ DeclineRemedy \/ ToolServerChanges \/ ArgumentsEdited \/ Tick
    \/ \E w \in Executors :
         \/ ExecuteRemedy(w) \/ BeforeClaimFails(w)
         \/ claimNothing(w) \/ claimLapsed(w) \/ claimRefused(w)
         \/ claimRemedy(w) \/ claimUnheard(w)
         \/ unreachable(w) \/ CallTool(w) \/ toolAnswers(w)
         \/ recordOutcome(w) \/ recordFails(w)
         \/ followUpExecutedRemedy(w) \/ Crash(w)
    \/ RescueStuckJob
    \/ PastDeadline \/ ExpireRemedies
    \/ OutcomeOverdueSelect \/ FailOverdueRemedies

Spec == Init /\ [][Next]_vars

\* The clock runs, and remedies.sweep is a periodic job that is run again.
FairSpec ==
    /\ Spec
    /\ WF_vars(Tick)
    /\ WF_vars(PastDeadline) /\ WF_vars(ExpireRemedies)
    /\ WF_vars(OutcomeOverdueSelect) /\ WF_vars(FailOverdueRemedies)

(***************************************************************************)
(* Properties.                                                             *)
(***************************************************************************)
\* Rows, jobs and workers keep their shape; what a worker is about to record is an
\* ending, never a state from which the Tool could be called again.
TypeOK ==
    /\ now \in 0..MaxTime
    /\ remedy \in Row
    /\ approvals \in SUBSET Approvers
    /\ log \in Seq(States)
    /\ grants \in SUBSET Approvers /\ bound \in BOOLEAN /\ intact \in BOOLEAN
    /\ job \in [ready : BOOLEAN, used : Nat]
    /\ exec \in [Executors -> Exec]
    /\ sweep \in {"idle", "expire", "overdue"}
    /\ sent \in Nat /\ made \in BOOLEAN
    /\ asked \in Nat

\* The write Tool is called at most once, whatever River redelivers and
\* whoever crashes: the claim committed before the call is what makes it so.
AtMostOnce == sent <= 1

\* The recorded ending never denies a change that was made: the Remedy reads
\* executed, or says the Tool failed it, or says nobody knows.
EndingHonest ==
    /\ made => remedy.state = "executing" \/ remedy.state = "executed"
               \/ remedy.failure \in {"tool_error", "outcome_unknown"}
    /\ remedy.state = "executed" => made /\ sent = 1

\* remedy_transitions tells the row's whole story: it ends in the row's state,
\* no state is entered twice, and nothing follows an ending.
StoryComplete ==
    /\ log[Len(log)] = remedy.state
    /\ \A i \in 1..Len(log) : \A j \in 1..Len(log) : log[i] = log[j] => i = j
    /\ \A i \in 1..Len(log) : Terminal(log[i]) => i = Len(log)

\* A Remedy is never left standing: it is executed, refused, declined or
\* recorded lost, even when its worker died mid-call or its job was discarded.
EveryRemedyEnds == <>Terminal(remedy.state)

(***************************************************************************)
(* The Remedy keeps its promise.                                           *)
(***************************************************************************)
PhaseOf(r) ==
    IF r.state \in {"proposed", "approved"} THEN "open"
    ELSE IF r.state = "executing" THEN "claimed"
    ELSE IF r.state = "executed" THEN "done"
    ELSE IF r.failure = "tool_error" THEN "answered"
    ELSE IF r.failure = "outcome_unknown" THEN "unknown"
    ELSE "unsent"

Promise == INSTANCE RemedyPromise
             WITH People <- Approvers, need <- remedy.required,
                  consent <- approvals, phase <- PhaseOf(remedy), sends <- sent

\* The whole protocol of claims, redeliveries, sweeps and refusals implements
\* RemedyPromise: consent, one claim, at most one call, an honest verdict.
KeepsPromise == Promise!Spec
=============================================================================
