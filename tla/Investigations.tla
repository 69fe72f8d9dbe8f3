--------------------------- MODULE Investigations ---------------------------
(***************************************************************************)
(* The Investigations of one Investigator about one subject: how triggers  *)
(* become runs (coalescing, the minimum interval), how a delivered job     *)
(* takes a run from queued to its end (the day's budget, the org's slots,  *)
(* the loop of paid model turns, the Finding), and what crashes, rescued   *)
(* jobs and a failing database leave behind.  Every Investigator-subject   *)
(* pair is independent but for the slots and the day's budget.             *)
(***************************************************************************)
EXTENDS Integers, FiniteSets

CONSTANTS
    MaxRuns,      \* bound on the runs ever requested
    Workers,      \* workers of the investigate queue
    Triggers,     \* what may ask for a run: human, drawn, membership
    Concurrency,  \* OrgControls.Concurrency
    Interval,     \* the Investigator's MinInterval
    DailyTokens,  \* OrgControls.DailyTokens, for the one day modelled
    MaxTokens,    \* the run's token budget
    TurnCosts,    \* what one model turn may cost
    MaxAttempts,  \* MaxAttemptsRetryable
    Faults,       \* what may go wrong: crash, rescue, db, off
    MaxChanges, MaxTime                                          \* bounds

Runs == 1..MaxRuns

ASSUME InvestigationsAssumption ==
    /\ IsFiniteSet(Workers)
    /\ MaxRuns \in Nat /\ Concurrency \in Nat \ {0} /\ Interval \in Nat
    /\ DailyTokens \in Nat /\ MaxTokens \in Nat \ {0}
    /\ TurnCosts \subseteq Nat \ {0} /\ TurnCosts # {}
    /\ MaxAttempts \in Nat \ {0} /\ MaxChanges \in Nat /\ MaxTime \in Nat
    /\ Triggers \subseteq {"human", "drawn", "membership"}
    /\ Faults \subseteq {"crash", "rescue", "db", "off"}

NoTime == -1
Ended    == {"completed", "exhausted", "failed", "skipped"}
Statuses == {"none", "queued", "running"} \cup Ended

Run == [status : Statuses, followUp : BOOLEAN, notBefore : Int,
        startedAt : Int, finding : BOOLEAN]
NoRun == [status |-> "none", followUp |-> FALSE, notBefore |-> NoTime,
          startedAt |-> NoTime, finding |-> FALSE]

\* A worker's place in RunInvestigation; end is how its run is about to end.
Worker == [pc : {"idle", "read", "start", "loop", "finish"},
           run : Runs \cup {0},
           paid : BOOLEAN, end : Ended, finding : BOOLEAN]
Idle == [pc |-> "idle", run |-> 0, paid |-> FALSE,
         end |-> "failed", finding |-> FALSE]

VARIABLES
    now,
    subject,    \* how often the subject's membership changed
    untold,     \* an investigations.incident job is waiting for the last change
    runs,       \* investigations
    steps,      \* investigation_steps: the tokens recorded, by run
    published,  \* Findings published, by run
    jobs,       \* investigations.run: deliverable, deliveries used, gone with its run open
    workers,
    payers      \* history: how many deliveries called the model for a run

vars == <<now, subject, untold, runs, steps, published, jobs, workers,
          payers>>

Init ==
    /\ now = 0
    /\ subject = 0 /\ untold = FALSE
    /\ runs = [r \in Runs |-> NoRun]
    /\ steps = [r \in Runs |-> 0]
    /\ published = [r \in Runs |-> 0]
    /\ jobs = [r \in Runs |-> [ready |-> FALSE, used |-> 0, lost |-> FALSE]]
    /\ workers = [w \in Workers |-> Idle]
    /\ payers = [r \in Runs |-> 0]

\* Runs are numbered as they are requested.
Requested == {r \in Runs : runs[r].status # "none"}
Queued    == {r \in Runs : runs[r].status = "queued"}
Running   == {r \in Runs : runs[r].status = "running"}
Begun     == {r \in Requested : runs[r].status \notin {"queued", "skipped"}}

\* SpentSince: the day's tokens are the recorded steps.
SpentToday == LET sum[n \in 0..MaxRuns] == IF n = 0 THEN 0 ELSE sum[n - 1] + steps[n]
              IN sum[MaxRuns]
BudgetSpent == SpentToday >= DailyTokens
\* What a read of investigations_enabled may answer.
Switch == IF "off" \in Faults THEN BOOLEAN ELSE {TRUE}
AtCapacity  == Cardinality(Running) >= Concurrency

(***************************************************************************)
(* Requests.                                                               *)
(***************************************************************************)
\* Every run that began has its start on it, the ones that failed first too.
Anchor(r) == runs[r].startedAt

\* The latest run that began, by its start.
LastRun == CHOOSE r \in Begun : \A q \in Begun :
             \/ Anchor(q) < Anchor(r)
             \/ Anchor(q) = Anchor(r) /\ q <= r

\* Admit: onto an existing run, or a new one with its earliest start.
Admit(trigger) ==
    IF trigger = "human" THEN [onto |-> 0, notBefore |-> NoTime]
    ELSE IF Queued # {}
      THEN [onto |-> CHOOSE r \in Queued : \A q \in Queued : q <= r,
            notBefore |-> NoTime]
    ELSE IF Begun = {} THEN [onto |-> 0, notBefore |-> NoTime]
    ELSE IF trigger = "drawn" THEN [onto |-> LastRun, notBefore |-> NoTime]
    ELSE [onto |-> 0,
          notBefore |-> IF now < Anchor(LastRun) + Interval
                          THEN Anchor(LastRun) + Interval ELSE NoTime]

\* request, in its transaction: coalesce, skip on the record, or queue with a job.
request(trigger, on) ==
    LET adm == IF on THEN Admit(trigger) ELSE [onto |-> 0, notBefore |-> NoTime]
        r   == Cardinality(Requested) + 1
        run == [NoRun EXCEPT !.followUp = (trigger = "membership")]
    IN IF adm.onto # 0
         THEN UNCHANGED <<runs, jobs>>
         ELSE /\ r \in Runs                                        \* bound
              /\ adm.notBefore <= MaxTime                          \* bound
              /\ IF ~on \/ BudgetSpent
                   THEN /\ runs' = [runs EXCEPT ![r] = [run EXCEPT !.status = "skipped"]]
                        /\ jobs' = jobs
                   ELSE /\ runs' = [runs EXCEPT ![r] =
                                      [run EXCEPT !.status = "queued",
                                                  !.notBefore = adm.notBefore]]
                        /\ jobs' = [jobs EXCEPT ![r].ready = TRUE]

Request(trigger) ==
    /\ trigger \in Triggers \ {"membership"}
    /\ \E on \in Switch : request(trigger, on)
    /\ UNCHANGED <<now, subject, untold, steps, published, workers, payers>>

\* A Case joins or leaves the Incident; a job will tell the Investigators.
MembershipChanges ==
    /\ "membership" \in Triggers /\ subject < MaxChanges
    /\ subject' = subject + 1
    /\ untold' = TRUE
    /\ UNCHANGED <<now, runs, steps, published, jobs, workers, payers>>

\* investigations.incident: a switched-off org starts nothing, and one switched off
\* before request reads the switch again has the run skipped on the record.
IncidentChanged ==
    /\ untold
    /\ untold' = FALSE
    /\ \E on, still \in Switch : IF on THEN request("membership", still)
                                        ELSE UNCHANGED <<runs, jobs>>
    /\ UNCHANGED <<now, subject, steps, published, workers, payers>>

Tick ==
    /\ now < MaxTime
    /\ now' = now + 1
    /\ UNCHANGED <<subject, untold, runs, steps, published, jobs,
                   workers, payers>>

(***************************************************************************)
(* RunInvestigation.                                                       *)
(***************************************************************************)
Become(w, rec)  == workers' = [workers EXCEPT ![w] = rec]
MyRun(w)        == runs[workers[w].run]
Ending(w, status, finding) ==
    [workers[w] EXCEPT !.pc = "finish", !.paid = FALSE, !.end = status, !.finding = finding]

\* Mutant: the interval is not looked at again when the job is delivered.
ProceedEager(r, on) ==
    IF runs[r].status = "running" THEN "interrupted"
    ELSE IF runs[r].status # "queued" THEN "over"
    ELSE IF ~on \/ BudgetSpent THEN "skip"
    ELSE IF AtCapacity THEN "snooze"
    ELSE "go"

\* What the delivered job does next.  A run found running lost its worker and
\* is not re-run; a queued one meets the switch, the interval, the day's budget
\* and the slots in that order, and waits for what will pass.
Proceed(r, on) ==
    IF runs[r].status = "running" THEN "interrupted"
    ELSE IF runs[r].status # "queued" THEN "over"
    ELSE IF ~on THEN "skip"
    ELSE IF runs[r].notBefore > now THEN "snooze"
    ELSE IF BudgetSpent THEN "skip"
    ELSE IF AtCapacity THEN "snooze"
    ELSE "go"

\* Mutant: a run found running is taken over from the worker that died.
AfterTakesOver(r, on) ==
    CASE Proceed(r, on) = "go"          -> [Idle EXCEPT !.run = r, !.pc = "read"]
      [] Proceed(r, on) = "skip"        -> [Idle EXCEPT !.run = r, !.pc = "finish",
                                                        !.end = "skipped"]
      [] Proceed(r, on) = "interrupted" -> [Idle EXCEPT !.run = r, !.pc = "loop"]
      [] OTHER                          -> Idle

\* Where the delivery leads its worker.
After(r, on) ==
    CASE Proceed(r, on) = "go"          -> [Idle EXCEPT !.run = r, !.pc = "read"]
      [] Proceed(r, on) = "skip"        -> [Idle EXCEPT !.run = r, !.pc = "finish",
                                                        !.end = "skipped"]
      [] Proceed(r, on) = "interrupted" -> [Idle EXCEPT !.run = r, !.pc = "finish"]
      [] OTHER                          -> Idle

\* Mutant: the delivery is not counted.
RunInvestigationUncounted(w, r) ==
    /\ workers[w].pc = "idle" /\ jobs[r].ready
    /\ \E on \in Switch : Proceed(r, on) # "snooze" /\ Become(w, After(r, on))
    /\ jobs' = [jobs EXCEPT ![r].ready = FALSE]
    /\ UNCHANGED <<now, subject, untold, runs, steps, published, payers>>

\* The job is delivered.  One that snoozes is back in the queue at no cost, so
\* its delivery is no step.
RunInvestigation(w, r) ==
    /\ workers[w].pc = "idle" /\ jobs[r].ready
    /\ \E on \in Switch : Proceed(r, on) # "snooze" /\ Become(w, After(r, on))
    /\ jobs' = [jobs EXCEPT ![r].ready = FALSE, ![r].used = @ + 1]
    /\ UNCHANGED <<now, subject, untold, runs, steps, published, payers>>

\* readSubject, then the model, the redaction rules and the Tools are opened.
readSubject(w) ==
    /\ workers[w].pc = "read"
    /\ Become(w, [workers[w] EXCEPT !.pc = "start"])
    /\ UNCHANGED <<now, subject, untold, runs, steps, published, jobs, payers>>

\* The subject is gone, or its model cannot be opened or has changed.
cannotStart(w) ==
    /\ workers[w].pc = "read"
    /\ Become(w, Ending(w, "failed", FALSE))
    /\ UNCHANGED <<now, subject, untold, runs, steps, published, jobs, payers>>

\* Mutant: the slots are counted outside the lock that the start is made under.
StartUncounted(w) ==
    /\ workers[w].pc = "start" /\ MyRun(w).status = "queued"
    /\ runs' = [runs EXCEPT ![workers[w].run].status = "running",
                            ![workers[w].run].startedAt = now]
    /\ Become(w, [workers[w] EXCEPT !.pc = "loop"])
    /\ UNCHANGED <<now, subject, untold, steps, published, jobs, payers>>

\* Start: under the org's lock, count the slots and move queued to running.
Start(w) ==
    /\ workers[w].pc = "start" /\ MyRun(w).status = "queued" /\ ~AtCapacity
    /\ runs' = [runs EXCEPT ![workers[w].run].status = "running",
                            ![workers[w].run].startedAt = now]
    /\ Become(w, [workers[w] EXCEPT !.pc = "loop"])
    /\ UNCHANGED <<now, subject, untold, steps, published, jobs, payers>>

StartAtCapacity(w) ==
    /\ workers[w].pc = "start" /\ AtCapacity
    /\ jobs' = [jobs EXCEPT ![workers[w].run].ready = TRUE, ![workers[w].run].used = @ - 1]
    /\ Become(w, Idle)
    /\ UNCHANGED <<now, subject, untold, runs, steps, published, payers>>

StartNotQueued(w) ==
    /\ workers[w].pc = "start" /\ MyRun(w).status # "queued" /\ ~AtCapacity
    /\ Become(w, Idle)
    /\ UNCHANGED <<now, subject, untold, runs, steps, published, jobs, payers>>

Pay(w) == IF workers[w].paid THEN payers
                             ELSE [payers EXCEPT ![workers[w].run] = @ + 1]
Going(w) == [workers[w] EXCEPT !.paid = TRUE]

TurnEnds == {"calls", "answer", "useless", "stepless", "refused"}

\* One paid turn of runLoop, recorded.  It asks for Tools and goes on, answers,
\* answers with nothing usable, asks for more Tools than the run has steps, or is
\* refused by the endpoint, which bills it and ends the run whatever is left; past a
\* budget the run ends with the last thing the model said, if it said any.
ModelTurn(w, c, after) ==
    LET spent == steps[workers[w].run] + c
    IN /\ workers[w].pc = "loop"
       /\ steps' = [steps EXCEPT ![workers[w].run] = spent]
       /\ payers' = Pay(w)
       /\ \/ /\ after = "calls" /\ spent < MaxTokens
             /\ Become(w, Going(w))
          \/ /\ after = "answer" /\ spent <= MaxTokens
             /\ Become(w, Ending(w, "completed", TRUE))
          \/ /\ after = "refused" \/ (after = "useless" /\ spent <= MaxTokens)
             /\ Become(w, Ending(w, "failed", FALSE))
          \/ /\ \/ after # "refused" /\ spent > MaxTokens
                \/ after = "stepless"
                \/ after = "calls" /\ spent = MaxTokens
             /\ \E said \in BOOLEAN : Become(w, Ending(w, "exhausted", said))
       /\ UNCHANGED <<now, subject, untold, runs, published, jobs>>

\* The model errs, or its step cannot be recorded: the turn is paid all the same, and
\* the run ends on it.
turnFails(w) ==
    /\ workers[w].pc = "loop"
    /\ payers' = Pay(w)
    /\ Become(w, Ending(w, "failed", FALSE))
    /\ UNCHANGED <<now, subject, untold, runs, steps, published, jobs>>

\* Before a turn, or during the one it cuts off.
WallTimeRunsOut(w) ==
    /\ workers[w].pc = "loop"
    /\ payers' \in {payers, Pay(w)}
    /\ \E said \in BOOLEAN :
         /\ said => steps[workers[w].run] > 0
         /\ Become(w, Ending(w, "exhausted", said))
    /\ UNCHANGED <<now, subject, untold, runs, steps, published, jobs>>

(***************************************************************************)
(* Endings.  Finish and everything the Finding entails are one transaction.*)
(***************************************************************************)
Close(r, status, finding) ==
    runs' = [runs EXCEPT ![r].status = status, ![r].finding = finding,
                         ![r].startedAt = IF status = "skipped" THEN NoTime
                                          ELSE IF @ = NoTime THEN now ELSE @]

\* Mutant: an ended run is ended again by the worker that comes late.
finishAgain(w) ==
    /\ workers[w].pc = "finish"
    /\ Close(workers[w].run, workers[w].end, workers[w].finding)
    /\ published' = [published EXCEPT ![workers[w].run] =
                       @ + (IF workers[w].finding THEN 1 ELSE 0)]
    /\ Become(w, Idle)
    /\ UNCHANGED <<now, subject, untold, steps, jobs, payers>>

finish(w) ==
    /\ workers[w].pc = "finish" /\ MyRun(w).status \in {"queued", "running"}
    /\ Close(workers[w].run, workers[w].end, workers[w].finding)
    /\ published' = [published EXCEPT ![workers[w].run] =
                       @ + (IF workers[w].finding THEN 1 ELSE 0)]
    /\ Become(w, Idle)
    /\ UNCHANGED <<now, subject, untold, steps, jobs, payers>>

\* The delivery fails: a read before the run began did, somebody else ended the
\* run (Finish answers a conflict), or the database did not take the ending.
jobFails(w) ==
    \/ workers[w].pc = "finish" /\ MyRun(w).status \in Ended
    \/ workers[w].pc \in {"read", "start", "finish"} /\ "db" \in Faults

\* Mutant: the job's last failure ends the job and not its run.
abandonOnGivingUpLeaves(w) ==
    LET r == workers[w].run
    IN /\ jobFails(w)
       /\ jobs' = [jobs EXCEPT ![r].ready = jobs[r].used < MaxAttempts]
       /\ Become(w, Idle)
       /\ UNCHANGED <<now, subject, untold, runs, steps, published, payers>>

\* The job failed: delivered again, or on the last delivery its run is ended.  An
\* error of that ending is only logged.
abandonOnGivingUp(w) ==
    LET r == workers[w].run
    IN /\ jobFails(w)
       /\ IF jobs[r].used < MaxAttempts
            THEN jobs' = [jobs EXCEPT ![r].ready = TRUE] /\ UNCHANGED runs
            ELSE \/ /\ jobs' = jobs
                    /\ IF runs[r].status \in Ended THEN UNCHANGED runs
                                                   ELSE Close(r, "failed", FALSE)
                 \/ /\ "db" \in Faults
                    /\ jobs' = [jobs EXCEPT ![r].lost = TRUE] /\ UNCHANGED runs
       /\ Become(w, Idle)
       /\ UNCHANGED <<now, subject, untold, steps, published, payers>>

\* The worker dies.  After the job's last delivery River's rescuer discards it, and
\* nothing is left that would end the run.
Crash(w) ==
    LET r == workers[w].run
    IN /\ "crash" \in Faults /\ workers[w].pc # "idle"
       /\ jobs' = [jobs EXCEPT ![r].lost = jobs[r].used = MaxAttempts]
       /\ Become(w, Idle)
       /\ UNCHANGED <<now, subject, untold, runs, steps, published, payers>>

\* River makes a job that ran too long deliverable; its worker may be alive.
RescueStuckJob(r) ==
    /\ ~jobs[r].ready /\ 0 < jobs[r].used /\ jobs[r].used < MaxAttempts
    /\ runs[r].status \notin Ended
    /\ "rescue" \in Faults \/ \A w \in Workers : workers[w].run # r
    /\ jobs' = [jobs EXCEPT ![r].ready = TRUE]
    /\ UNCHANGED <<now, subject, untold, runs, steps, published, workers, payers>>

WorkerStep(w) ==
    \/ readSubject(w) \/ cannotStart(w)
    \/ Start(w) \/ StartAtCapacity(w) \/ StartNotQueued(w)
    \/ \E c \in TurnCosts, after \in TurnEnds : ModelTurn(w, c, after)
    \/ turnFails(w) \/ WallTimeRunsOut(w)
    \/ finish(w) \/ abandonOnGivingUp(w)

Next ==
    \/ \E t \in Triggers : Request(t)
    \/ MembershipChanges \/ IncidentChanged \/ Tick
    \/ \E w \in Workers, r \in Runs : RunInvestigation(w, r)
    \/ \E w \in Workers : WorkerStep(w) \/ Crash(w)
    \/ \E r \in Runs : RescueStuckJob(r)

Spec == Init /\ [][Next]_vars

\* Workers that live go on, River polls its queue fairly, and the clock runs.
FairSpec ==
    /\ Spec
    /\ WF_vars(Tick)
    /\ \A w \in Workers : WF_vars(WorkerStep(w))
    /\ \A r \in Runs : /\ SF_vars(\E w \in Workers : RunInvestigation(w, r))
                       /\ WF_vars(RescueStuckJob(r))

(***************************************************************************)
(* Properties.                                                             *)
(***************************************************************************)
\* Rows, jobs and workers keep their shape, and no counter runs below zero.
TypeOK ==
    /\ now \in 0..MaxTime
    /\ subject \in 0..MaxChanges /\ untold \in BOOLEAN
    /\ runs \in [Runs -> Run]
    /\ steps \in [Runs -> Nat] /\ published \in [Runs -> Nat]
    /\ jobs \in [Runs -> [ready : BOOLEAN, used : Nat, lost : BOOLEAN]]
    /\ workers \in [Workers -> Worker]
    /\ payers \in [Runs -> Nat]

\* The org never runs more Investigations at once than its concurrency allows,
\* though every worker peeks at the count long before it starts.
WithinConcurrency == Cardinality(Running) <= Concurrency

\* Two follow-ups the Incident's churn paid for begin at least the interval
\* apart, whatever was snoozed, rescued, skipped or ran late in between.
FollowUpsSpaced ==
    LET followUps == {r \in Begun : runs[r].followUp /\ payers[r] > 0}
    IN \A q, r \in followUps :
         \/ q = r
         \/ runs[q].startedAt + Interval <= runs[r].startedAt
         \/ runs[r].startedAt + Interval <= runs[q].startedAt

\* Turns are paid once: one delivery per run ever calls the model, so no
\* redelivery runs a transcript over the one it finds.
PaidOnce == \A r \in Runs : payers[r] <= 1

\* A Finding is published exactly when its run ended with one: never by a
\* worker whose run was meanwhile ended as interrupted or abandoned.
FindingsPublishedOnce ==
    \A r \in Runs :
      /\ published[r] = (IF runs[r].finding THEN 1 ELSE 0)
      /\ runs[r].finding => runs[r].status \in {"completed", "exhausted"}

\* No run waits or runs for ever: it is run, skipped, interrupted or ended by
\* the job that gives up on it.  The one exception is a last delivery that dies, or
\* whose ending cannot be written: its run stays as it is and may keep a slot.
EveryRunEnds ==
    \A r \in Runs : runs[r].status \in {"queued", "running"} ~>
        \/ runs[r].status \in Ended
        \/ \E q \in Runs : jobs[q].lost /\ runs[q].status \in {"queued", "running"}
=============================================================================
