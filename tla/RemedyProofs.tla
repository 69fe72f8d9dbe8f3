---------------------------- MODULE RemedyProofs ----------------------------
(***************************************************************************)
(* Theorems about Remedy, for every set of approvers and workers, every    *)
(* window and every budget.                                                *)
(***************************************************************************)
EXTENDS Remedy, FiniteSetTheorems, TLAPS

(***************************************************************************)
(* Types.                                                                  *)
(***************************************************************************)
\* moveRemedy leaves a row and a timeline of the right shape.
LEMMA MoveTyped ==
    ASSUME TypeOK, NEW to \in States, NEW failure \in Failures,
           moveRemedy(to, failure)
    PROVE  remedy' \in Row /\ log' \in Seq(States)
<1>1. log' \in Seq(States)
  BY DEF TypeOK, moveRemedy
<1>2. now \in Int /\ now + Window \in Int
  BY RemedyAssumption DEF RemedyAssumption, TypeOK
<1>3. remedy' \in Row
  BY <1>2 DEF TypeOK, moveRemedy, Row
<1>4. QED
  BY <1>1, <1>3

\* A delivery that failed leaves a job of the right shape.
LEMMA RetriedTyped ==
    ASSUME TypeOK, Retried
    PROVE  job' \in [ready : BOOLEAN, used : Nat]
<1>1. (job.used < MaxAttempts) \in BOOLEAN
  OBVIOUS
<1>2. QED
  BY <1>1 DEF TypeOK, Retried

LEMMA TypeInit == Init => TypeOK
<1> SUFFICES ASSUME Init PROVE TypeOK
  OBVIOUS
<1> USE RemedyAssumption DEF RemedyAssumption
<1>1. remedy \in Row
  BY DEF Init, Row, States, Failures, NoTime
<1>2. log \in Seq(States)
  <2>1. "proposed" \in States
    BY DEF States
  <2>2. QED
    BY <2>1 DEF Init
<1>3. exec \in [Executors -> Exec]
  BY DEF Init, Exec, Outcome, Idle, NoOutcome, Failures
<1>4. job \in [ready : BOOLEAN, used : Nat]
  BY DEF Init
<1>5. /\ now \in 0..MaxTime /\ approvals \in SUBSET Approvers
      /\ grants \in SUBSET Approvers /\ sent \in Nat /\ asked \in Nat
      /\ sweep \in {"idle", "expire", "overdue"}
  BY DEF Init
<1>6. bound \in BOOLEAN /\ intact \in BOOLEAN /\ made \in BOOLEAN
  BY DEF Init
<1>7. QED
  BY <1>1, <1>2, <1>3, <1>4, <1>5, <1>6 DEF TypeOK

LEMMA TypeStep == TypeOK /\ [Next]_vars => TypeOK'
<1> SUFFICES ASSUME TypeOK, [Next]_vars PROVE TypeOK'
  OBVIOUS
<1> USE RemedyAssumption DEF RemedyAssumption
<1>1. CASE \E u \in Approvers : ApproveRemedy(u)
  <2>1. /\ remedy' \in Row /\ log' \in Seq(States)
        /\ job' \in [ready : BOOLEAN, used : Nat]
    <3>1. CASE moveRemedy("approved", "none") /\ job' = [ready |-> TRUE, used |-> 0]
      BY <3>1, MoveTyped DEF States, Failures
    <3>2. CASE UNCHANGED <<remedy, log, job>>
      BY <3>2 DEF TypeOK
    <3>3. QED
      BY <1>1, <3>1, <3>2 DEF ApproveRemedy
  <2>2. approvals' \in SUBSET Approvers
    BY <1>1 DEF ApproveRemedy, TypeOK
  <2>3. UNCHANGED <<now, env, exec, sweep, hist, asked>>
    BY <1>1 DEF ApproveRemedy
  <2>4. QED
    BY <2>1, <2>2, <2>3 DEF TypeOK, env, hist
<1>2. CASE \E u \in Approvers : GrantChanges(u)
  BY <1>2 DEF GrantChanges, TypeOK, Exec, Outcome, Idle, NoOutcome, env, hist
<1>3. CASE DeclineRemedy
  BY <1>3, MoveTyped DEF DeclineRemedy, States, Failures, TypeOK, Exec,
     Outcome, Idle, NoOutcome, env, hist
<1>4. CASE ToolServerChanges
  BY <1>4 DEF ToolServerChanges, TypeOK, Exec, Outcome, Idle, NoOutcome, env,
     hist
<1>5. CASE ArgumentsEdited
  BY <1>5 DEF ArgumentsEdited, TypeOK, Exec, Outcome, Idle, NoOutcome, env,
     hist
<1>6. CASE Tick
  BY <1>6 DEF Tick, TypeOK, Exec, Outcome, Idle, NoOutcome, env, hist
<1>7. CASE RescueStuckJob
  BY <1>7 DEF RescueStuckJob, TypeOK, Exec, Outcome, Idle, NoOutcome, env,
     hist
<1>8. CASE PastDeadline
  BY <1>8 DEF PastDeadline, TypeOK, Exec, Outcome, Idle, NoOutcome, env, hist
<1>9. CASE ExpireRemedies
  BY <1>9, MoveTyped DEF ExpireRemedies, States, Failures, TypeOK, Exec,
     Outcome, Idle, NoOutcome, env, hist
<1>10. CASE OutcomeOverdueSelect
  BY <1>10 DEF OutcomeOverdueSelect, TypeOK, Exec, Outcome, Idle, NoOutcome,
     env, hist
<1>11. CASE FailOverdueRemedies
  BY <1>11, MoveTyped DEF FailOverdueRemedies, States, Failures, TypeOK, Exec,
     Outcome, Idle, NoOutcome, env, hist
<1>12. CASE \E w \in Executors : ExecuteRemedy(w)
  BY <1>12, SMTT(30) DEF ExecuteRemedy, Become, TypeOK, Exec, Outcome, Idle, NoOutcome,
     env, hist
<1>13. CASE \E w \in Executors : BeforeClaimFails(w)
  BY <1>13, RetriedTyped DEF BeforeClaimFails, Become, TypeOK, Exec, Outcome,
     Idle, NoOutcome, env, hist
<1>14. CASE \E w \in Executors : claimNothing(w)
  BY <1>14 DEF claimNothing, Become, TypeOK, Exec, Outcome, Idle, NoOutcome,
     env, hist
<1>15. CASE \E w \in Executors : claimLapsed(w)
  BY <1>15, MoveTyped DEF claimLapsed, States, Failures, Become, TypeOK, Exec,
     Outcome, Idle, NoOutcome, env, hist
<1>16. CASE \E w \in Executors : claimRefused(w)
  BY <1>16, MoveTyped DEF claimRefused, States, Failures, Become,
     claimRefusal, TypeOK, Exec, Outcome, Idle, NoOutcome, env, hist
<1>17. CASE \E w \in Executors : claimRemedy(w)
  BY <1>17, MoveTyped DEF claimRemedy, States, Failures, Become, TypeOK, Exec,
     Outcome, Idle, NoOutcome, env, hist
<1>18. CASE \E w \in Executors : claimUnheard(w)
  BY <1>18, MoveTyped, RetriedTyped, SMTT(30) DEF claimUnheard, States, Failures,
     Become, TypeOK, Exec, Outcome, Idle, NoOutcome, env, hist
<1>19. CASE \E w \in Executors : unreachable(w)
  BY <1>19 DEF unreachable, Answered, Failures, TypeOK, Exec, Outcome, Idle,
     NoOutcome, env, hist
<1>20. CASE \E w \in Executors : CallTool(w)
  <2>1. made' \in BOOLEAN
    BY <1>20 DEF CallTool, TypeOK
  <2>2. sent' \in Nat /\ exec' \in [Executors -> Exec]
    BY <1>20 DEF CallTool, TypeOK, Become, Exec
  <2>3. UNCHANGED <<now, remedy, approvals, log, env, job, sweep, asked>>
    BY <1>20 DEF CallTool
  <2>4. QED
    BY <2>1, <2>2, <2>3 DEF TypeOK, env
<1>21. CASE \E w \in Executors : toolAnswers(w)
  BY <1>21, SMTT(30) DEF toolAnswers, Answered, Failures, TypeOK, Exec, Outcome, Idle,
     NoOutcome, env, hist
<1>22. CASE \E w \in Executors : recordOutcome(w)
  <2> PICK w \in Executors : recordOutcome(w)
    BY <1>22
  <2>1. exec[w].outcome.to \in States /\ exec[w].outcome.failure \in Failures
    BY DEF TypeOK, Exec, Outcome, States
  <2>2. remedy' \in Row /\ log' \in Seq(States)
    <3>1. CASE UNCHANGED <<remedy, log>>
      BY <3>1 DEF TypeOK
    <3>2. CASE moveRemedy(exec[w].outcome.to, exec[w].outcome.failure)
      BY <3>2, <2>1, MoveTyped
    <3>3. QED
      BY <3>1, <3>2 DEF recordOutcome
  <2>3. exec' \in [Executors -> Exec]
    BY DEF recordOutcome, Become, TypeOK, Exec
  <2>4. UNCHANGED <<now, approvals, env, job, sweep, hist, asked>>
    BY DEF recordOutcome
  <2>5. QED
    BY <2>2, <2>3, <2>4 DEF TypeOK, env, hist
<1>23. CASE \E w \in Executors : recordFails(w)
  BY <1>23, RetriedTyped DEF recordFails, Become, TypeOK, Exec, Outcome, Idle,
     NoOutcome, env, hist
<1>24. CASE \E w \in Executors : followUpExecutedRemedy(w)
  BY <1>24 DEF followUpExecutedRemedy, Become, TypeOK, Exec, Outcome, Idle,
     NoOutcome, env, hist
<1>25. CASE \E w \in Executors : Crash(w)
  BY <1>25 DEF Crash, Failures, TypeOK, Exec, Outcome, Idle, NoOutcome, env, hist
<1>26. CASE UNCHANGED vars
  BY <1>26 DEF vars, TypeOK, env, hist
<1>27. QED
  BY <1>1, <1>2, <1>3, <1>4, <1>5, <1>6, <1>7, <1>8, <1>9, <1>10, <1>11,
     <1>12, <1>13, <1>14, <1>15, <1>16, <1>17, <1>18, <1>19, <1>20, <1>21,
     <1>22, <1>23, <1>24, <1>25, <1>26 DEF Next

\* Rows, jobs and workers keep their shape in every execution of the protocol.
THEOREM RemedyTypeCorrect == Spec => []TypeOK
<1>1. Init => TypeOK
  BY TypeInit
<1>2. TypeOK /\ [Next]_vars => TypeOK'
  BY TypeStep
<1>3. QED
  BY <1>1, <1>2, PTL DEF Spec

(***************************************************************************)
(* The inductive invariant.  Whoever claimed the Remedy is the only worker *)
(* past the claim, until it has recorded the outcome; what it is about to  *)
(* do agrees with what was sent so far, and so does the row.               *)
(***************************************************************************)
Active(w) == exec[w].pc \in {"call", "wait", "record", "follow"}

OneOwner == \A v, w \in Executors : Active(v) /\ Active(w) => v = w

Untouched == sent = 0 /\ ~made /\ \A w \in Executors : ~Active(w)

\* The claim stands, or the sweep has already given the answer up for lost.
Pending == \/ remedy.state = "executing"
           \/ remedy.state = "failed" /\ remedy.failure = "outcome_unknown"

OutcomeFits(o) ==
    \/ o.to = "executed" /\ o.failure = "none" /\ made
    \/ o.to = "failed" /\ o.failure \in {"tool_error", "outcome_unknown"} /\ sent = 1
    \/ o.to = "failed" /\ o.failure = "tool_unavailable" /\ sent = 0

WorkersFit ==
    \A w \in Executors :
        /\ exec[w].pc = "call" => sent = 0
        /\ exec[w].pc = "wait" => sent = 1
        /\ exec[w].pc = "record" => OutcomeFits(exec[w].outcome)
        /\ exec[w].pc \in {"call", "wait", "record"} => Pending
        /\ exec[w].pc = "follow" => remedy.state = "executed"

CallsFit == sent \in {0, 1} /\ (made => sent = 1)

RowFits ==
    /\ remedy.state # "failed" => remedy.failure = "none"
    /\ remedy.state \in {"proposed", "approved", "declined", "expired"} => Untouched
    /\ remedy.state = "executed" => made
    /\ remedy.state = "failed" /\ remedy.failure = "tool_error" => sent = 1
    /\ remedy.state = "failed" /\ remedy.failure \notin {"tool_error", "outcome_unknown"}
         => Untouched

Safe == OneOwner /\ WorkersFit /\ CallsFit /\ RowFits

LEMMA SafeInit == Init => Safe
BY DEF Init, Idle, Safe, OneOwner, WorkersFit, CallsFit, RowFits, Untouched,
   Pending, OutcomeFits, Active

LEMMA SafeStep == TypeOK /\ Safe /\ [Next]_vars => Safe'
<1> SUFFICES ASSUME TypeOK, Safe, [Next]_vars PROVE Safe'
  OBVIOUS
<1>1. CASE \E u \in Approvers : ApproveRemedy(u)
  <2>1. remedy.state = "proposed" /\ UNCHANGED <<exec, sent, made>>
    BY <1>1 DEF ApproveRemedy, StateAt, hist
  <2>2. remedy'.state \in {"proposed", "approved"} /\ remedy'.failure = "none"
    <3>1. CASE moveRemedy("approved", "none")
      BY <3>1 DEF moveRemedy, TypeOK, Row
    <3>2. CASE UNCHANGED remedy
      BY <2>1, <3>2 DEF Safe, RowFits
    <3>3. QED
      BY <1>1, <3>1, <3>2 DEF ApproveRemedy
  <2>3. QED
    BY <2>1, <2>2 DEF Safe, OneOwner, WorkersFit, CallsFit, RowFits, Untouched, Pending,
         OutcomeFits, Active
<1>2. CASE \E u \in Approvers : GrantChanges(u)
  BY <1>2 DEF GrantChanges, hist, Safe, OneOwner, WorkersFit, CallsFit,
     RowFits, Untouched, Pending, OutcomeFits, Active
<1>3. CASE DeclineRemedy
  BY <1>3 DEF DeclineRemedy, moveRemedy, StateAt, Safe, OneOwner, WorkersFit,
     CallsFit, RowFits, Untouched, Pending, OutcomeFits, Active, TypeOK, Row,
     Exec, Outcome, Idle, NoOutcome, env, hist
<1>4. CASE ToolServerChanges
  BY <1>4 DEF ToolServerChanges, hist, Safe, OneOwner, WorkersFit, CallsFit,
     RowFits, Untouched, Pending, OutcomeFits, Active
<1>5. CASE ArgumentsEdited
  BY <1>5 DEF ArgumentsEdited, hist, Safe, OneOwner, WorkersFit, CallsFit,
     RowFits, Untouched, Pending, OutcomeFits, Active
<1>6. CASE Tick
  BY <1>6 DEF Tick, hist, Safe, OneOwner, WorkersFit, CallsFit, RowFits,
     Untouched, Pending, OutcomeFits, Active
<1>7. CASE RescueStuckJob
  BY <1>7 DEF RescueStuckJob, hist, Safe, OneOwner, WorkersFit, CallsFit,
     RowFits, Untouched, Pending, OutcomeFits, Active
<1>8. CASE PastDeadline
  BY <1>8 DEF PastDeadline, hist, Safe, OneOwner, WorkersFit, CallsFit,
     RowFits, Untouched, Pending, OutcomeFits, Active
<1>9. CASE ExpireRemedies
  <2>1. UNCHANGED <<exec, sent, made>>
    BY <1>9 DEF ExpireRemedies, hist
  <2>2. CASE UNCHANGED remedy
    BY <2>1, <2>2 DEF Safe, OneOwner, WorkersFit, CallsFit, RowFits, Untouched, Pending,
         OutcomeFits, Active
  <2>3. CASE /\ remedy.state \in {"proposed", "approved"}
             /\ remedy'.state = "expired" /\ remedy'.failure = "none"
    BY <2>1, <2>3 DEF Safe, OneOwner, WorkersFit, CallsFit, RowFits, Untouched, Pending,
         OutcomeFits, Active
  <2>4. QED
    BY <1>9, <2>2, <2>3 DEF ExpireRemedies, StateAt, moveRemedy, TypeOK, Row
<1>10. CASE OutcomeOverdueSelect
  BY <1>10 DEF OutcomeOverdueSelect, hist, Safe, OneOwner, WorkersFit,
     CallsFit, RowFits, Untouched, Pending, OutcomeFits, Active
<1>11. CASE FailOverdueRemedies
  <2>1. UNCHANGED <<exec, sent, made>>
    BY <1>11 DEF FailOverdueRemedies, hist
  <2>2. CASE UNCHANGED remedy
    BY <2>1, <2>2 DEF Safe, OneOwner, WorkersFit, CallsFit, RowFits, Untouched, Pending,
         OutcomeFits, Active
  <2>3. CASE /\ remedy.state = "executing"
             /\ remedy'.state = "failed" /\ remedy'.failure = "outcome_unknown"
    BY <2>1, <2>3 DEF Safe, OneOwner, WorkersFit, CallsFit, RowFits, Untouched, Pending,
         OutcomeFits, Active
  <2>4. QED
    BY <1>11, <2>2, <2>3
       DEF FailOverdueRemedies, OutcomeOverdue, moveRemedy, TypeOK, Row
<1>12. CASE \E w \in Executors : ExecuteRemedy(w)
  BY <1>12 DEF ExecuteRemedy, Become, Safe, OneOwner, WorkersFit, CallsFit,
     RowFits, Untouched, Pending, OutcomeFits, Active, TypeOK, Row, Exec,
     Outcome, Idle, NoOutcome, env, hist
<1>13. CASE \E w \in Executors : BeforeClaimFails(w)
  BY <1>13 DEF BeforeClaimFails, Become, Safe, OneOwner, WorkersFit, CallsFit,
     RowFits, Untouched, Pending, OutcomeFits, Active, TypeOK, Row, Exec,
     Outcome, Idle, NoOutcome, env, hist
<1>14. CASE \E w \in Executors : claimNothing(w)
  BY <1>14 DEF claimNothing, Become, Safe, OneOwner, WorkersFit, CallsFit,
     RowFits, Untouched, Pending, OutcomeFits, Active, TypeOK, Row, Exec,
     Outcome, Idle, NoOutcome, env, hist
<1>15. CASE \E w \in Executors : claimLapsed(w)
  BY <1>15 DEF claimLapsed, moveRemedy, Become, StateAt, Safe, OneOwner,
     WorkersFit, CallsFit, RowFits, Untouched, Pending, OutcomeFits, Active,
     TypeOK, Row, Exec, Outcome, Idle, NoOutcome, env, hist
<1>16. CASE \E w \in Executors : claimRefused(w)
  BY <1>16 DEF claimRefused, moveRemedy, Become, claimRefusal, StateAt, Safe,
     OneOwner, WorkersFit, CallsFit, RowFits, Untouched, Pending, OutcomeFits,
     Active, TypeOK, Row, Exec, Outcome, Idle, NoOutcome, env, hist
<1>17. CASE \E w \in Executors : claimRemedy(w)
  BY <1>17 DEF claimRemedy, moveRemedy, Become, StateAt, Safe, OneOwner,
     WorkersFit, CallsFit, RowFits, Untouched, Pending, OutcomeFits, Active,
     TypeOK, Row, Exec, Outcome, Idle, NoOutcome, env, hist
<1>18. CASE \E w \in Executors : claimUnheard(w)
  BY <1>18 DEF claimUnheard, moveRemedy, Become, StateAt, Safe, OneOwner,
     WorkersFit, CallsFit, RowFits, Untouched, Pending, OutcomeFits, Active,
     TypeOK, Row, Exec, Outcome, Idle, NoOutcome, env, hist
<1>19. CASE \E w \in Executors : unreachable(w)
  BY <1>19 DEF unreachable, Answered, Safe, OneOwner, WorkersFit, CallsFit,
     RowFits, Untouched, Pending, OutcomeFits, Active, TypeOK, Row, Exec,
     Outcome, Idle, NoOutcome, env, hist
<1>20. CASE \E w \in Executors : CallTool(w)
  BY <1>20 DEF CallTool, Become, Safe, OneOwner, WorkersFit, CallsFit,
     RowFits, Untouched, Pending, OutcomeFits, Active, TypeOK, Row, Exec,
     Outcome, Idle, NoOutcome, env, hist
<1>21. CASE \E w \in Executors : toolAnswers(w)
  <2> PICK w \in Executors : toolAnswers(w)
    BY <1>21
  <2>1. exec[w].pc = "wait" /\ sent = 1 /\ UNCHANGED <<remedy, sent, made>>
    BY DEF toolAnswers, Safe, WorkersFit, hist
  <2>2. /\ exec'[w].pc = "record" /\ OutcomeFits(exec'[w].outcome)
        /\ \A v \in Executors \ {w} : exec'[v] = exec[v]
    <3>1. CASE made /\ Answered(w, "executed", "none")
      BY <3>1 DEF Answered, OutcomeFits, TypeOK
    <3>2. CASE Answered(w, "failed", "tool_error")
      BY <2>1, <3>2 DEF Answered, OutcomeFits, TypeOK
    <3>3. CASE Answered(w, "failed", "outcome_unknown")
      BY <2>1, <3>3 DEF Answered, OutcomeFits, TypeOK
    <3>4. QED
      BY <3>1, <3>2, <3>3 DEF toolAnswers
  <2>3. OneOwner' /\ CallsFit'
    BY <2>1, <2>2 DEF Safe, OneOwner, CallsFit, Active
  <2>4. WorkersFit'
    BY <2>1, <2>2 DEF Safe, WorkersFit, Pending, OutcomeFits
  <2>5. RowFits'
    BY <2>1, <2>2 DEF Safe, RowFits, WorkersFit, Untouched, Pending, Active
  <2>6. QED
    BY <2>3, <2>4, <2>5 DEF Safe
<1>22. CASE \E w \in Executors : recordOutcome(w)
  <2> PICK w \in Executors : recordOutcome(w)
    BY <1>22
  <2> DEFINE o == exec[w].outcome
  <2>1. /\ exec[w].pc = "record" /\ OutcomeFits(o) /\ Pending
        /\ UNCHANGED <<sent, made>>
    BY DEF recordOutcome, Safe, WorkersFit, hist
  <2>2. /\ \A v \in Executors \ {w} : exec'[v] = exec[v] /\ ~Active(v)
        /\ exec'[w].pc \in {"idle", "follow"}
    <3>1. \A v \in Executors \ {w} : ~Active(v)
      BY <2>1 DEF Safe, OneOwner, Active
    <3>2. PICK pc \in {"idle", "follow"} : Become(w, pc)
      BY DEF recordOutcome
    <3>3. QED
      BY <3>1, <3>2 DEF Become, TypeOK, Exec
  <2>3. CASE UNCHANGED remedy /\ exec'[w].pc = "idle"
    BY <2>1, <2>2, <2>3 DEF Safe, OneOwner, WorkersFit, CallsFit, RowFits, Untouched, Pending,
         OutcomeFits, Active
  <2>4. CASE /\ remedy.state = "executing"
             /\ remedy'.state = o.to /\ remedy'.failure = o.failure
             /\ exec'[w].pc = IF o.to = "executed" THEN "follow" ELSE "idle"
    <3>1. OneOwner' /\ CallsFit'
      BY <2>1, <2>2 DEF Safe, OneOwner, CallsFit, Active
    <3>2. WorkersFit'
      BY <2>1, <2>2, <2>4 DEF WorkersFit, Active
    <3>3. RowFits'
      BY <2>1, <2>2, <2>4, made \in BOOLEAN
         DEF Safe, CallsFit, RowFits, Untouched, OutcomeFits, Active, TypeOK
    <3>4. QED
      BY <3>1, <3>2, <3>3 DEF Safe
  <2>5. CASE remedy.state = "executing"
    <3>1. remedy'.state = o.to /\ remedy'.failure = o.failure
      BY <2>5 DEF recordOutcome, moveRemedy, TypeOK, Row
    <3>2. exec'[w].pc = IF o.to = "executed" THEN "follow" ELSE "idle"
      BY <2>5 DEF recordOutcome, Become, TypeOK, Exec
    <3>3. QED
      BY <2>4, <2>5, <3>1, <3>2
  <2>6. CASE remedy.state # "executing"
    BY <2>3, <2>6 DEF recordOutcome, Become, TypeOK, Exec
  <2>7. QED
    BY <2>5, <2>6
<1>23. CASE \E w \in Executors : recordFails(w)
  BY <1>23 DEF recordFails, Become, Safe, OneOwner, WorkersFit, CallsFit,
     RowFits, Untouched, Pending, OutcomeFits, Active, TypeOK, Row, Exec,
     Outcome, Idle, NoOutcome, env, hist
<1>24. CASE \E w \in Executors : followUpExecutedRemedy(w)
  BY <1>24 DEF followUpExecutedRemedy, Become, Safe, OneOwner, WorkersFit,
     CallsFit, RowFits, Untouched, Pending, OutcomeFits, Active, TypeOK, Row,
     Exec, Outcome, Idle, NoOutcome, env, hist
<1>25. CASE \E w \in Executors : Crash(w)
  BY <1>25 DEF Crash, Safe, OneOwner, WorkersFit, CallsFit, RowFits,
     Untouched, Pending, OutcomeFits, Active, TypeOK, Row, Exec, Outcome,
     Idle, NoOutcome, env, hist
<1>26. CASE UNCHANGED vars
  BY <1>26 DEF vars, hist, Safe, OneOwner, WorkersFit, CallsFit, RowFits,
     Untouched, Pending, OutcomeFits, Active
<1>27. QED
  BY <1>1, <1>2, <1>3, <1>4, <1>5, <1>6, <1>7, <1>8, <1>9, <1>10, <1>11,
     <1>12, <1>13, <1>14, <1>15, <1>16, <1>17, <1>18, <1>19, <1>20, <1>21,
     <1>22, <1>23, <1>24, <1>25, <1>26 DEF Next

LEMMA Safety == Spec => [](TypeOK /\ Safe)
<1>1. Init => TypeOK /\ Safe
  BY TypeInit, SafeInit
<1>2. TypeOK /\ Safe /\ [Next]_vars => (TypeOK /\ Safe)'
  BY TypeStep, SafeStep
<1>3. QED
  BY <1>1, <1>2, PTL DEF Spec

\* claimRemedy commits `executing` before callWriteTool runs, and that is enough:
\* the write Tool is called at most once, however often River delivers the job
\* and wherever a worker dies.
THEOREM SendsAtMostOnce == Spec => []AtMostOnce
<1>1. Safe => AtMostOnce
  BY DEF Safe, CallsFit, AtMostOnce
<1>2. QED
  BY <1>1, Safety, PTL

\* The ending recordOutcome or FailOverdueRemedies writes never denies a change the
\* Tool made.
THEOREM EndingsAreHonest == Spec => []EndingHonest
<1>1. TypeOK /\ Safe => EndingHonest
  BY DEF TypeOK, Row, States, Safe, CallsFit, RowFits, Untouched, EndingHonest
<1>2. QED
  BY <1>1, Safety, PTL

(***************************************************************************)
(* The timeline is the path the row took, and there are few of them.       *)
(***************************************************************************)
LogFits ==
    /\ log[1] = "proposed"
    /\ \/ remedy.state = "proposed" /\ Len(log) = 1
       \/ remedy.state = "approved" /\ Len(log) = 2 /\ log[2] = "approved"
       \/ /\ remedy.state = "executing"
          /\ Len(log) = 3 /\ log[2] = "approved" /\ log[3] = "executing"
       \/ /\ Terminal(remedy.state)
          /\ \/ Len(log) = 2 /\ log[2] = remedy.state
             \/ Len(log) = 3 /\ log[2] = "approved" /\ log[3] = remedy.state
             \/ /\ Len(log) = 4 /\ log[2] = "approved" /\ log[3] = "executing"
                /\ log[4] = remedy.state

\* The moves the code makes.
Move(from, to) ==
    \/ from = "proposed" /\ to \in {"approved", "declined", "expired"}
    \/ from = "approved" /\ to \in {"executing", "failed", "declined", "expired"}
    \/ from = "executing" /\ to \in {"executed", "failed"}

LEMMA MoveLogged ==
    ASSUME TypeOK, LogFits, NEW to, NEW failure, moveRemedy(to, failure),
           Move(remedy.state, to)
    PROVE  LogFits'
<1>1. remedy'.state = to
  BY DEF moveRemedy, TypeOK, Row
<1>2. /\ Len(log') = Len(log) + 1 /\ log'[Len(log) + 1] = to
      /\ \A i \in 1..Len(log) : log'[i] = log[i]
  BY DEF moveRemedy, TypeOK
<1>3. CASE remedy.state = "proposed"
  <2>1. Len(log) = 1 /\ log[1] = "proposed"
    BY <1>3 DEF LogFits, Terminal
  <2>2. log'[1] = "proposed" /\ log'[2] = to
    BY <1>2, <2>1
  <2>3. Len(log') = 2
    BY <1>2, <2>1
  <2>4. QED
    BY <1>1, <1>3, <2>2, <2>3 DEF LogFits, Terminal, Move
<1>4. CASE remedy.state = "approved"
  <2>1. Len(log) = 2 /\ log[1] = "proposed" /\ log[2] = "approved"
    BY <1>4 DEF LogFits, Terminal
  <2>2. /\ log'[1] = "proposed" /\ log'[2] = "approved"
        /\ log'[3] = to
    BY <1>2, <2>1
  <2>3. Len(log') = 3
    BY <1>2, <2>1
  <2>4. QED
    BY <1>1, <1>4, <2>2, <2>3 DEF LogFits, Terminal, Move
<1>5. CASE remedy.state = "executing"
  <2>1. Len(log) = 3 /\ log[1] = "proposed" /\ log[2] = "approved" /\ log[3] = "executing"
    BY <1>5 DEF LogFits, Terminal
  <2>2. /\ log'[1] = "proposed" /\ log'[2] = "approved"
        /\ log'[3] = "executing" /\ log'[4] = to
    BY <1>2, <2>1
  <2>3. Len(log') = 4
    BY <1>2, <2>1
  <2>4. QED
    BY <1>1, <1>5, <2>2, <2>3 DEF LogFits, Terminal, Move
<1>6. QED
  BY <1>3, <1>4, <1>5 DEF Move

LEMMA LogStep == TypeOK /\ LogFits /\ [Next]_vars => LogFits'
<1> SUFFICES ASSUME TypeOK, LogFits, [Next]_vars PROVE LogFits'
  OBVIOUS
<1>1. CASE \E u \in Approvers : ApproveRemedy(u)
  <2>1. CASE UNCHANGED <<remedy, log>>
    BY <2>1 DEF LogFits
  <2>2. CASE moveRemedy("approved", "none")
    <3>1. remedy.state = "proposed"
      BY <1>1 DEF ApproveRemedy, StateAt
    <3>2. QED
      BY <2>2, <3>1, MoveLogged DEF Move
  <2>3. QED
    BY <1>1, <2>1, <2>2 DEF ApproveRemedy
<1>2. CASE \E u \in Approvers : GrantChanges(u)
  BY <1>2 DEF GrantChanges, LogFits
<1>3. CASE DeclineRemedy
  BY <1>3, MoveLogged DEF DeclineRemedy, Move, StateAt
<1>4. CASE ToolServerChanges
  BY <1>4 DEF ToolServerChanges, LogFits
<1>5. CASE ArgumentsEdited
  BY <1>5 DEF ArgumentsEdited, LogFits
<1>6. CASE Tick
  BY <1>6 DEF Tick, LogFits
<1>7. CASE RescueStuckJob
  BY <1>7 DEF RescueStuckJob, LogFits
<1>8. CASE PastDeadline
  BY <1>8 DEF PastDeadline, LogFits
<1>9. CASE ExpireRemedies
  <2>1. CASE UNCHANGED <<remedy, log>>
    BY <2>1 DEF LogFits
  <2>2. CASE /\ StateAt(remedy, now) = "expired" /\ remedy.state # "expired"
             /\ moveRemedy("expired", "none")
    BY <2>2, MoveLogged DEF StateAt, Move
  <2>3. QED
    BY <1>9, <2>1, <2>2 DEF ExpireRemedies
<1>10. CASE OutcomeOverdueSelect
  BY <1>10 DEF OutcomeOverdueSelect, LogFits
<1>11. CASE FailOverdueRemedies
  <2>1. CASE UNCHANGED <<remedy, log>>
    BY <2>1 DEF LogFits
  <2>2. CASE OutcomeOverdue(remedy, now) /\ moveRemedy("failed", "outcome_unknown")
    BY <2>2, MoveLogged DEF OutcomeOverdue, Move
  <2>3. QED
    BY <1>11, <2>1, <2>2 DEF FailOverdueRemedies
<1>12. CASE \E w \in Executors : ExecuteRemedy(w)
  BY <1>12 DEF ExecuteRemedy, LogFits
<1>13. CASE \E w \in Executors : BeforeClaimFails(w)
  BY <1>13 DEF BeforeClaimFails, LogFits
<1>14. CASE \E w \in Executors : claimNothing(w)
  BY <1>14 DEF claimNothing, LogFits
<1>15. CASE \E w \in Executors : claimLapsed(w)
  BY <1>15, MoveLogged DEF claimLapsed, Move
<1>16. CASE \E w \in Executors : claimRefused(w)
  BY <1>16, MoveLogged DEF claimRefused, Move, claimRefusal
<1>17. CASE \E w \in Executors : claimRemedy(w)
  BY <1>17, MoveLogged DEF claimRemedy, Move
<1>18. CASE \E w \in Executors : claimUnheard(w)
  BY <1>18, MoveLogged DEF claimUnheard, Move
<1>19. CASE \E w \in Executors : unreachable(w)
  BY <1>19 DEF unreachable, LogFits
<1>20. CASE \E w \in Executors : CallTool(w)
  BY <1>20 DEF CallTool, LogFits
<1>21. CASE \E w \in Executors : toolAnswers(w)
  BY <1>21 DEF toolAnswers, LogFits
<1>22. CASE \E w \in Executors : recordOutcome(w)
  <2> PICK w \in Executors : recordOutcome(w)
    BY <1>22
  <2>1. CASE UNCHANGED <<remedy, log>>
    BY <2>1 DEF LogFits
  <2>2. CASE /\ remedy.state = "executing"
             /\ moveRemedy(exec[w].outcome.to, exec[w].outcome.failure)
    <3>1. exec[w].outcome.to \in {"executed", "failed"}
      BY DEF TypeOK, Exec, Outcome
    <3>2. QED
      BY <2>2, <3>1, MoveLogged DEF Move
  <2>3. QED
    BY <2>1, <2>2 DEF recordOutcome
<1>23. CASE \E w \in Executors : recordFails(w)
  BY <1>23 DEF recordFails, LogFits
<1>24. CASE \E w \in Executors : followUpExecutedRemedy(w)
  BY <1>24 DEF followUpExecutedRemedy, LogFits
<1>25. CASE \E w \in Executors : Crash(w)
  BY <1>25 DEF Crash, LogFits
<1>26. CASE UNCHANGED vars
  BY <1>26 DEF vars, LogFits
<1>27. QED
  BY <1>1, <1>2, <1>3, <1>4, <1>5, <1>6, <1>7, <1>8, <1>9, <1>10, <1>11,
     <1>12, <1>13, <1>14, <1>15, <1>16, <1>17, <1>18, <1>19, <1>20, <1>21,
     <1>22, <1>23, <1>24, <1>25, <1>26 DEF Next

LEMMA LogComplete ==
    ASSUME TypeOK, LogFits
    PROVE  StoryComplete
<1>1. Len(log) \in Int /\ 1 <= Len(log) /\ Len(log) <= 4
  <2>1. PICK n \in {1, 2, 3, 4} : Len(log) = n
    BY DEF LogFits
  <2>2. n \in Int /\ 1 <= n /\ n <= 4
    BY <2>1
  <2>3. QED
    BY <2>1, <2>2
<1>2. log[Len(log)] = remedy.state
  BY DEF LogFits
<1>3. \A i \in 1..Len(log) : Terminal(log[i]) => i = Len(log)
  <2> SUFFICES ASSUME NEW i \in 1..Len(log), Terminal(log[i])
               PROVE  i = Len(log)
    OBVIOUS
  <2>1. i \in Int /\ 1 <= i /\ i <= Len(log) /\ Len(log) \in Int /\ Len(log) <= 4
    BY <1>1
  <2>2. CASE i = 1
    BY <2>2 DEF LogFits, Terminal
  <2>3. CASE i = 2
    BY <2>1, <2>3 DEF LogFits, Terminal
  <2>4. CASE i = 3
    BY <2>1, <2>4 DEF LogFits, Terminal
  <2>5. CASE i = 4
    BY <2>1, <2>5, SMTT(30)
  <2>6. QED
    BY <2>1, <2>2, <2>3, <2>4, <2>5
<1>4. \A i \in 1..Len(log) : \A j \in 1..Len(log) : log[i] = log[j] => i = j
  BY <1>1 DEF LogFits, Terminal
<1>5. QED
  BY <1>2, <1>3, <1>4 DEF StoryComplete

\* remedy_transitions ends in the row's state, enters no state twice and says
\* nothing after an ending, whoever raced whom for the row.
THEOREM StoryIsComplete == Spec => []StoryComplete
<1>1. Init => TypeOK /\ LogFits
  BY TypeInit DEF Init, LogFits
<1>2. TypeOK /\ LogFits /\ [Next]_vars => (TypeOK /\ LogFits)'
  BY TypeStep, LogStep
<1>3. TypeOK /\ LogFits => StoryComplete
  BY LogComplete
<1>4. QED
  BY <1>1, <1>2, <1>3, PTL DEF Spec

(***************************************************************************)
(* The refinement: every step of the protocol is a step of RemedyPromise   *)
(* or changes nothing it sees.                                             *)
(***************************************************************************)
LEMMA Stuttered ==
    ASSUME UNCHANGED <<remedy, approvals, sent>>
    PROVE  UNCHANGED Promise!vars
BY DEF Promise!vars, PhaseOf

LEMMA Dropped ==
    ASSUME TypeOK, remedy.state \in {"proposed", "approved"},
           NEW to, NEW failure, moveRemedy(to, failure),
           \/ to \in {"declined", "expired"} /\ failure = "none"
           \/ /\ to = "failed"
              /\ failure \in {"tool_unavailable", "arguments_changed",
                              "approvals_withdrawn"},
           UNCHANGED <<approvals, sent>>
    PROVE  Promise!Next
<1>1. /\ remedy'.state = to /\ remedy'.failure = failure
      /\ remedy'.required = remedy.required
  BY DEF moveRemedy, TypeOK, Row
<1>2. PhaseOf(remedy) = "open" /\ PhaseOf(remedy)' = "unsent"
  BY <1>1 DEF PhaseOf
<1>3. Promise!Drop
  BY <1>1, <1>2 DEF Promise!Drop
<1>4. QED
  BY <1>3 DEF Promise!Next

LEMMA Claimed ==
    ASSUME TypeOK, remedy.state = "approved", claimRefusal = "none",
           moveRemedy("executing", "none"), UNCHANGED <<approvals, sent>>
    PROVE  Promise!Next
<1>1. /\ remedy'.state = "executing" /\ remedy'.required = remedy.required
      /\ remedy.required \in Int
  BY DEF moveRemedy, TypeOK, Row
<1>2. PhaseOf(remedy) = "open" /\ PhaseOf(remedy)' = "claimed"
  BY <1>1 DEF PhaseOf
<1>3. Cardinality(approvals) >= remedy.required
  <2>1. IsFiniteSet(approvals)
    BY RemedyAssumption, FS_Subset DEF RemedyAssumption, TypeOK
  <2>2. /\ Cardinality(approvals \cap grants) \in Int
        /\ Cardinality(approvals) \in Int
        /\ Cardinality(approvals \cap grants) <= Cardinality(approvals)
    BY <2>1, FS_Subset, FS_CardinalityType
  <2>3. ~(Cardinality(approvals \cap grants) < remedy.required)
    BY DEF claimRefusal, standingApprovers
  <2>4. QED
    BY <1>1, <2>2, <2>3
<1>4. Promise!Cardinality(approvals) = Cardinality(approvals)
  BY Zenon DEF Promise!Cardinality, Cardinality
<1>5. Promise!Claim
  BY <1>1, <1>2, <1>3, <1>4 DEF Promise!Claim
<1>6. QED
  BY <1>5 DEF Promise!Next

LEMMA Concluded ==
    ASSUME TypeOK, remedy.state = "executing",
           NEW to, NEW failure, moveRemedy(to, failure),
           \/ to = "executed" /\ failure = "none" /\ sent = 1
           \/ to = "failed" /\ failure = "tool_error" /\ sent = 1
           \/ to = "failed" /\ failure = "outcome_unknown"
           \/ to = "failed" /\ failure = "tool_unavailable" /\ sent = 0,
           UNCHANGED <<approvals, sent>>
    PROVE  Promise!Next
<1>1. /\ remedy'.state = to /\ remedy'.failure = failure
      /\ remedy'.required = remedy.required
  BY DEF moveRemedy, TypeOK, Row
<1>2. PhaseOf(remedy) = "claimed"
  BY DEF PhaseOf
<1>3. /\ PhaseOf(remedy)' \in {"done", "answered", "unknown", "unsent"}
      /\ PhaseOf(remedy)' \in {"done", "answered"} => sent = 1
      /\ PhaseOf(remedy)' = "unsent" => sent = 0
  BY <1>1 DEF PhaseOf
<1>4. Promise!Conclude
  BY <1>1, <1>2, <1>3 DEF Promise!Conclude, Promise!Verdicts
<1>5. QED
  BY <1>4 DEF Promise!Next

LEMMA PromiseStep == TypeOK /\ Safe /\ [Next]_vars => [Promise!Next]_(Promise!vars)
<1> SUFFICES ASSUME TypeOK, Safe, [Next]_vars PROVE [Promise!Next]_(Promise!vars)
  OBVIOUS
<1>1. CASE \E u \in Approvers : ApproveRemedy(u)
  <2> PICK u \in Approvers : ApproveRemedy(u)
    BY <1>1
  <2>1. /\ u \notin approvals /\ approvals' = approvals \cup {u}
        /\ remedy.state = "proposed" /\ UNCHANGED sent
    BY DEF ApproveRemedy, StateAt, hist
  <2>2. remedy'.required = remedy.required /\ remedy'.state \in {"proposed", "approved"}
    <3>1. CASE UNCHANGED remedy
      BY <2>1, <3>1
    <3>2. CASE moveRemedy("approved", "none")
      BY <3>2 DEF moveRemedy, TypeOK, Row
    <3>3. QED
      BY <3>1, <3>2 DEF ApproveRemedy
  <2>3. PhaseOf(remedy) = "open" /\ PhaseOf(remedy)' = "open"
    BY <2>1, <2>2 DEF PhaseOf
  <2>4. Promise!Consent
    BY <2>1, <2>2, <2>3 DEF Promise!Consent
  <2>5. QED
    BY <2>4 DEF Promise!Next
<1>2. CASE \E u \in Approvers : GrantChanges(u)
  BY <1>2, Stuttered DEF GrantChanges, hist
<1>3. CASE DeclineRemedy
  BY <1>3, Dropped DEF DeclineRemedy, StateAt, hist
<1>4. CASE ToolServerChanges
  BY <1>4, Stuttered DEF ToolServerChanges, hist
<1>5. CASE ArgumentsEdited
  BY <1>5, Stuttered DEF ArgumentsEdited, hist
<1>6. CASE Tick
  BY <1>6, Stuttered DEF Tick, hist
<1>7. CASE RescueStuckJob
  BY <1>7, Stuttered DEF RescueStuckJob, hist
<1>8. CASE PastDeadline
  BY <1>8, Stuttered DEF PastDeadline, hist
<1>9. CASE ExpireRemedies
  <2>1. UNCHANGED <<approvals, sent>>
    BY <1>9 DEF ExpireRemedies, hist
  <2>2. CASE UNCHANGED remedy
    BY <2>1, <2>2, Stuttered
  <2>3. CASE /\ StateAt(remedy, now) = "expired" /\ remedy.state # "expired"
             /\ moveRemedy("expired", "none")
    BY <2>1, <2>3, Dropped DEF StateAt
  <2>4. QED
    BY <1>9, <2>2, <2>3 DEF ExpireRemedies
<1>10. CASE OutcomeOverdueSelect
  BY <1>10, Stuttered DEF OutcomeOverdueSelect, hist
<1>11. CASE FailOverdueRemedies
  <2>1. UNCHANGED <<approvals, sent>>
    BY <1>11 DEF FailOverdueRemedies, hist
  <2>2. CASE UNCHANGED remedy
    BY <2>1, <2>2, Stuttered
  <2>3. CASE /\ remedy.state = "executing"
             /\ moveRemedy("failed", "outcome_unknown")
    BY <2>1, <2>3, Concluded
  <2>4. QED
    BY <1>11, <2>2, <2>3 DEF FailOverdueRemedies, OutcomeOverdue
<1>12. CASE \E w \in Executors : ExecuteRemedy(w)
  BY <1>12, Stuttered DEF ExecuteRemedy, hist
<1>13. CASE \E w \in Executors : BeforeClaimFails(w)
  BY <1>13, Stuttered DEF BeforeClaimFails, hist
<1>14. CASE \E w \in Executors : claimNothing(w)
  BY <1>14, Stuttered DEF claimNothing, hist
<1>15. CASE \E w \in Executors : claimLapsed(w)
  BY <1>15, Dropped DEF claimLapsed, StateAt, hist
<1>16. CASE \E w \in Executors : claimRefused(w)
  BY <1>16, Dropped DEF claimRefused, claimRefusal, hist
<1>17. CASE \E w \in Executors : claimRemedy(w)
  BY <1>17, Claimed DEF claimRemedy, hist
<1>18. CASE \E w \in Executors : claimUnheard(w)
  BY <1>18, Claimed DEF claimUnheard, hist
<1>19. CASE \E w \in Executors : unreachable(w)
  BY <1>19, Stuttered DEF unreachable, hist
<1>20. CASE \E w \in Executors : CallTool(w)
  <2> PICK w \in Executors : CallTool(w)
    BY <1>20
  <2>1. /\ exec[w].pc = "call" /\ sent' = sent + 1
        /\ UNCHANGED <<remedy, approvals>>
    BY DEF CallTool
  <2>2. sent = 0 /\ sent' = 1 /\ Pending
    BY <2>1 DEF Safe, WorkersFit
  <2>3. PhaseOf(remedy) \in {"claimed", "unknown"} /\ UNCHANGED PhaseOf(remedy)
    BY <2>1, <2>2 DEF Pending, PhaseOf
  <2>4. Promise!Send
    BY <2>1, <2>2, <2>3 DEF Promise!Send
  <2>5. QED
    BY <2>4 DEF Promise!Next
<1>21. CASE \E w \in Executors : toolAnswers(w)
  BY <1>21, Stuttered DEF toolAnswers, hist
<1>22. CASE \E w \in Executors : recordOutcome(w)
  <2> PICK w \in Executors : recordOutcome(w)
    BY <1>22
  <2>1. /\ UNCHANGED <<approvals, sent>>
        /\ OutcomeFits(exec[w].outcome) /\ (made => sent = 1)
    BY DEF recordOutcome, hist, Safe, WorkersFit, CallsFit
  <2>2. CASE UNCHANGED remedy
    BY <2>1, <2>2, Stuttered
  <2>3. CASE /\ remedy.state = "executing"
             /\ moveRemedy(exec[w].outcome.to, exec[w].outcome.failure)
    <3>1. CASE exec[w].outcome.to = "executed"
      BY <2>1, <2>3, <3>1, Concluded DEF OutcomeFits
    <3>2. CASE exec[w].outcome.to = "failed"
      BY <2>1, <2>3, <3>2, Concluded DEF OutcomeFits
    <3>3. QED
      BY <2>1, <3>1, <3>2 DEF OutcomeFits
  <2>4. QED
    BY <2>2, <2>3 DEF recordOutcome
<1>23. CASE \E w \in Executors : recordFails(w)
  BY <1>23, Stuttered DEF recordFails, hist
<1>24. CASE \E w \in Executors : followUpExecutedRemedy(w)
  BY <1>24, Stuttered DEF followUpExecutedRemedy, hist
<1>25. CASE \E w \in Executors : Crash(w)
  BY <1>25, Stuttered DEF Crash, hist
<1>26. CASE UNCHANGED vars
  BY <1>26, Stuttered DEF vars, hist
<1>27. QED
  BY <1>1, <1>2, <1>3, <1>4, <1>5, <1>6, <1>7, <1>8, <1>9, <1>10, <1>11,
     <1>12, <1>13, <1>14, <1>15, <1>16, <1>17, <1>18, <1>19, <1>20, <1>21,
     <1>22, <1>23, <1>24, <1>25, <1>26 DEF Next

\* The protocol of claims, deliveries, sweeps and refusals implements
\* RemedyPromise: nothing is sent before enough different people consented, at
\* most one call is made, under the one claim, and the verdict fits the call.
THEOREM RemedyKeepsPromise == Spec => KeepsPromise
<1>1. Init => Promise!Init
  <2> SUFFICES ASSUME Init PROVE Promise!Init
    OBVIOUS
  <2>1. remedy.state = "proposed" /\ remedy.required \in 1..2
    BY DEF Init
  <2>2. QED
    BY <2>1 DEF Init, Promise!Init, PhaseOf
<1>2. TypeOK /\ Safe /\ [Next]_vars => [Promise!Next]_(Promise!vars)
  BY PromiseStep
<1>3. QED
  BY <1>1, <1>2, Safety, PTL DEF Spec, KeepsPromise, Promise!Spec
=============================================================================
