------------------------ MODULE InvestigationsProofs ------------------------
(***************************************************************************)
(* Theorems about Investigations, for every set of workers, every number   *)
(* of runs, slots, tokens and deliveries, and every interval.              *)
(***************************************************************************)
EXTENDS Investigations, FiniteSetTheorems, WellFoundedInduction, TLAPS

(***************************************************************************)
(* The inductive invariant.                                                *)
(***************************************************************************)
\* request numbers the runs without a hole, so a new run never lands on an old one.
Numbered == \E n \in 0..MaxRuns : Requested = 1..n

\* A worker's place agrees with its run: it has one unless it is idle, nobody is in
\* the loop of a run that was never started, an unpaid loop means an unpaid run,
\* and whoever may still start a run has waited for its earliest start.
Busy(r) == {w \in Workers : workers[w].run = r}
WorkerFits(w) ==
    LET c == workers[w]
    IN /\ c.pc = "idle" <=> c.run = 0
       /\ c.pc # "idle" => runs[c.run].status # "none"
       /\ c.pc = "loop" => runs[c.run].status # "queued"
       /\ c.pc = "loop" /\ ~c.paid => payers[c.run] = 0
       /\ c.paid => c.pc = "loop"
       /\ c.finding => c.end \in {"completed", "exhausted"}
       /\ c.pc \in {"read", "start"} /\ runs[c.run].status = "queued"
            => runs[c.run].notBefore <= now
WorkersFit == \A w \in Workers : WorkerFits(w)

\* Each worker on a run was counted as a delivery of its job.
DeliveriesCounted == \A r \in Runs : Cardinality(Busy(r)) <= jobs[r].used

\* Start hands a run to one worker.
OneOwner ==
    \A v, w \in Workers :
        workers[v].pc = "loop" /\ workers[w].pc = "loop" /\ workers[v].run = workers[w].run
            => v = w

\* A run not yet begun was not paid for, and one that began says when.
RunFits(r) ==
    /\ runs[r].status \in {"none", "queued"} => payers[r] = 0 /\ runs[r].startedAt = NoTime
    /\ r \in Begun => runs[r].startedAt \in 0..now
    /\ payers[r] <= 1
RunsFit == \A r \in Runs : RunFits(r)

\* Spacing, from the request on: at most one follow-up waits, it waits out the
\* interval after every follow-up that began, and the ones that a worker started
\* are an interval apart.
FollowUp(r) == runs[r].followUp
Owned(r)    == payers[r] > 0 \/ \E w \in Workers : workers[w].pc = "loop" /\ workers[w].run = r
Apart(q, r) == \/ runs[q].startedAt + Interval <= runs[r].startedAt
               \/ runs[r].startedAt + Interval <= runs[q].startedAt
OneWaits == \A q, r \in Queued : FollowUp(q) /\ FollowUp(r) => q = r
WaitsItOut ==
    \A r \in Queued, q \in Begun : FollowUp(q) /\ FollowUp(r) =>
        \/ runs[q].startedAt + Interval <= now
        \/ runs[q].startedAt + Interval <= runs[r].notBefore
StartedApart ==
    \A q, r \in Begun :
        FollowUp(q) /\ FollowUp(r) /\ Owned(q) /\ Owned(r) => q = r \/ Apart(q, r)

IInv == /\ Numbered /\ WorkersFit /\ DeliveriesCounted /\ OneOwner /\ RunsFit
        /\ OneWaits /\ WaitsItOut /\ StartedApart
        /\ WithinConcurrency /\ FindingsPublishedOnce

(***************************************************************************)
(* Counting.                                                               *)
(***************************************************************************)
\* A set of naturals that is not empty has a least element.
LEMMA NatMin ==
    ASSUME NEW T, T \subseteq Nat, T # {}
    PROVE  \E x \in T : \A y \in T : x <= y
<1>1. PICK x \in T : \A y \in T : ~(<<y, x>> \in OpToRel(<, Nat))
  BY NatLessThanWellFounded, WFMin
<1>2. \A y \in T : y \in Nat /\ x \in Nat /\ ~(y < x)
  BY <1>1 DEF OpToRel
<1>3. QED
  BY <1>2

\* A set of run numbers that is not empty has a greatest element.
LEMMA LastNumber ==
    ASSUME NEW T, T \subseteq Runs, T # {}
    PROVE  \E x \in T : \A y \in T : y <= x
<1> USE InvestigationsAssumption DEF InvestigationsAssumption
<1> DEFINE Back(r) == MaxRuns - r
           U == {Back(r) : r \in T}
<1>1. U \subseteq Nat /\ U # {}
  <2>1. \A r \in T : Back(r) \in Nat
    BY DEF Runs
  <2>2. QED
    BY <2>1
<1>2. PICK u \in U : \A y \in U : u <= y
  BY <1>1, NatMin
<1>3. PICK r \in T : u = Back(r)
  OBVIOUS
<1>4. \A q \in T : Back(r) <= Back(q)
  BY <1>2, <1>3
<1>5. \A q \in T : q <= r
  BY <1>4 DEF Runs
<1>6. QED
  BY <1>5

\* The sets that are counted are finite.
LEMMA Finite ==
    /\ IsFiniteSet(Runs)
    /\ IsFiniteSet(Running) /\ Cardinality(Running) \in Nat
    /\ \A r : IsFiniteSet(Busy(r)) /\ Cardinality(Busy(r)) \in Nat
<1> USE InvestigationsAssumption DEF InvestigationsAssumption
<1>1. IsFiniteSet(Runs)
  BY FS_Interval DEF Runs
<1>2. Running \in SUBSET Runs
  BY DEF Running
<1>3. \A r : Busy(r) \in SUBSET Workers
  BY DEF Busy
<1>4. QED
  BY <1>1, <1>2, <1>3, FS_Subset, FS_CardinalityType

\* A worker that takes up another run is one more on that run and one fewer on its
\* own; nobody else is counted differently.
LEMMA BusyMoves ==
    ASSUME TypeOK, NEW w \in Workers, NEW rec, Become(w, rec)
    PROVE  /\ \A r : r = rec.run => Busy(r)' = Busy(r) \cup {w}
           /\ \A r : r # rec.run => Busy(r)' = Busy(r) \ {w}
<1>1. \A v \in Workers : workers'[v] = IF v = w THEN rec ELSE workers[v]
  BY DEF Become, TypeOK
<1>2. QED
  BY <1>1 DEF Busy

LEMMA StayCounts ==
    ASSUME TypeOK, NEW w \in Workers, NEW rec, Become(w, rec), rec.run = workers[w].run
    PROVE  \A r \in Runs : Cardinality(Busy(r))' = Cardinality(Busy(r))
<1>1. \A r : w \in Busy(r) <=> r = rec.run
  BY DEF Busy
<1>2. \A r : Busy(r)' = Busy(r)
  BY <1>1, BusyMoves
<1>3. QED
  BY <1>2

LEMMA LeaveCounts ==
    ASSUME TypeOK, NEW w \in Workers, workers[w].run \in Runs, Become(w, Idle)
    PROVE  /\ Cardinality(Busy(workers[w].run)) >= 1
           /\ \A r \in Runs : Cardinality(Busy(r))' =
                IF r = workers[w].run THEN Cardinality(Busy(r)) - 1
                                      ELSE Cardinality(Busy(r))
<1> USE InvestigationsAssumption DEF InvestigationsAssumption
<1>1. ASSUME NEW r \in Runs PROVE Busy(r)' = Busy(r) \ {w}
  <2>1. r # Idle.run
    BY DEF Idle, Runs
  <2>2. QED
    BY <2>1, BusyMoves
<1>2. ASSUME NEW r \in Runs PROVE w \in Busy(r) <=> r = workers[w].run
  BY DEF Busy
<1>3. \A r \in Runs : Cardinality(Busy(r) \ {w}) =
         IF r = workers[w].run THEN Cardinality(Busy(r)) - 1 ELSE Cardinality(Busy(r))
  BY <1>2, Finite, FS_RemoveElement
<1>4. Cardinality(Busy(workers[w].run)) >= 1
  <2>1. Busy(workers[w].run) # {}
    BY <1>2
  <2>2. Cardinality(Busy(workers[w].run)) # 0
    BY <2>1, Finite, FS_EmptySet
  <2>3. QED
    BY <2>2, Finite
<1>5. QED
  BY <1>1, <1>3, <1>4

LEMMA JoinCounts ==
    ASSUME TypeOK, NEW w \in Workers, workers[w].run = 0,
           NEW r \in Runs, NEW rec, Become(w, rec), rec.run = r
    PROVE  \A q \in Runs : Cardinality(Busy(q))' =
             IF q = r THEN Cardinality(Busy(q)) + 1 ELSE Cardinality(Busy(q))
<1> USE InvestigationsAssumption DEF InvestigationsAssumption
<1>1. ASSUME NEW q \in Runs PROVE w \notin Busy(q)
  BY DEF Busy, Runs
<1>2. ASSUME NEW q \in Runs, q # r PROVE Busy(q)' = Busy(q)
  <2>1. Busy(q)' = Busy(q) \ {w}
    BY <1>2, BusyMoves
  <2>2. QED
    BY <1>1, <2>1, Zenon
<1>3. Busy(r)' = Busy(r) \cup {w}
  BY BusyMoves
<1>4. Cardinality(Busy(r) \cup {w}) = Cardinality(Busy(r)) + 1
  BY <1>1, Finite, FS_AddElement
<1>5. QED
  BY <1>2, <1>3, <1>4

\* Of the runs that began one began last, and Admit looks at that one.
LEMMA LastRunIsLast ==
    ASSUME TypeOK, RunsFit, Begun # {}
    PROVE  LastRun \in Begun /\ \A q \in Begun : Anchor(q) <= Anchor(LastRun)
<1> USE InvestigationsAssumption DEF InvestigationsAssumption
<1>1. \A r \in Begun : r \in Runs /\ Anchor(r) \in 0..now /\ now \in Nat
  BY DEF RunsFit, RunFits, Begun, Requested, Anchor, TypeOK
<1> DEFINE Gap(r) == now - Anchor(r)
           Late == {r \in Begun : \A q \in Begun : Anchor(q) <= Anchor(r)}
<1>2. Late # {}
  <2> DEFINE T == {Gap(r) : r \in Begun}
  <2>1. T \subseteq Nat /\ T # {}
    BY <1>1
  <2>2. PICK x \in T : \A y \in T : x <= y
    BY <2>1, NatMin
  <2>3. PICK r \in Begun : x = Gap(r)
    OBVIOUS
  <2>4. \A q \in Begun : Gap(r) <= Gap(q)
    BY <2>2, <2>3
  <2>5. QED
    BY <1>1, <2>4
<1>3. PICK r \in Late : \A q \in Late : q <= r
  BY <1>1, <1>2, LastNumber
<1>4. r \in Begun /\ \A q \in Begun : Anchor(q) < Anchor(r) \/ (Anchor(q) = Anchor(r) /\ q <= r)
  BY <1>1, <1>3
<1>5. /\ LastRun \in Begun
      /\ \A q \in Begun : \/ Anchor(q) < Anchor(LastRun)
                          \/ Anchor(q) = Anchor(LastRun) /\ q <= LastRun
  BY <1>4 DEF LastRun
<1>6. QED
  BY <1>1, <1>5

(***************************************************************************)
(* Requests.                                                               *)
(***************************************************************************)
\* What a request may do: nothing, or one new row under the next number.  A
\* follow-up that is queued found nobody waiting, and waits out the interval.
Requests(trigger, r, rec) ==
    /\ runs[r].status = "none" /\ Requested = 1..(r - 1)
    /\ rec \in Run /\ rec.status \in {"queued", "skipped"}
    /\ rec.startedAt = NoTime /\ ~rec.finding
    /\ rec.followUp <=> trigger = "membership"
    /\ runs' = [runs EXCEPT ![r] = rec]
    /\ jobs' \in {jobs, [jobs EXCEPT ![r].ready = TRUE]}
    /\ rec.followUp /\ rec.status = "queued" =>
         /\ Queued = {}
         /\ \A q \in Begun : \/ Anchor(q) + Interval <= now
                             \/ Anchor(q) + Interval <= rec.notBefore

LEMMA AdmitFollowUp ==
    ASSUME TypeOK, RunsFit, Admit("membership").onto = 0
    PROVE  /\ Queued = {}
           /\ Admit("membership").notBefore \in Int
           /\ \A q \in Begun : \/ Anchor(q) + Interval <= now
                               \/ Anchor(q) + Interval <= Admit("membership").notBefore
<1> USE InvestigationsAssumption DEF InvestigationsAssumption
<1>1. Queued = {}
  <2> SUFFICES ASSUME Queued # {} PROVE FALSE
    OBVIOUS
  <2>1. \E x \in Queued : \A y \in Queued : y <= x
    BY LastNumber DEF Queued
  <2>2. (CHOOSE r \in Queued : \A q \in Queued : q <= r) \in Queued
    BY <2>1
  <2>3. 0 \notin Queued
    BY DEF Queued, Runs
  <2>4. QED
    BY <2>2, <2>3 DEF Admit
<1>2. CASE Begun = {}
  BY <1>1, <1>2 DEF Admit, NoTime
<1>3. CASE Begun # {}
  <2>1. \A r \in Begun : Anchor(r) \in Int /\ now \in Int
    BY DEF RunsFit, RunFits, Begun, Requested, Anchor, TypeOK
  <2>2. LastRun \in Begun /\ \A q \in Begun : Anchor(q) <= Anchor(LastRun)
    BY <1>3, LastRunIsLast
  <2>3. Admit("membership").notBefore =
          IF now < Anchor(LastRun) + Interval THEN Anchor(LastRun) + Interval ELSE NoTime
    BY <1>1, <1>3 DEF Admit
  <2>4. QED
    BY <1>1, <2>1, <2>2, <2>3 DEF NoTime
<1>4. QED
  BY <1>2, <1>3

LEMMA AdmitTyped ==
    ASSUME TypeOK, RunsFit, NEW trigger \in {"human", "drawn", "membership"},
           Admit(trigger).onto = 0
    PROVE  Admit(trigger).notBefore \in Int
<1>1. CASE trigger = "membership"
  BY <1>1, AdmitFollowUp
<1>2. CASE trigger # "membership"
  BY <1>2 DEF Admit, NoTime
<1>3. QED
  BY <1>1, <1>2

LEMMA RequestShape ==
    ASSUME TypeOK, IInv, NEW trigger \in {"human", "drawn", "membership"},
           NEW on \in BOOLEAN, request(trigger, on)
    PROVE  \/ UNCHANGED <<runs, jobs>>
           \/ \E r \in Runs, rec \in Run : Requests(trigger, r, rec)
<1> USE InvestigationsAssumption DEF InvestigationsAssumption
<1> DEFINE adm == IF on THEN Admit(trigger) ELSE [onto |-> 0, notBefore |-> NoTime]
           r == Cardinality(Requested) + 1
           run == [NoRun EXCEPT !.followUp = (trigger = "membership")]
           skipped == [run EXCEPT !.status = "skipped"]
           queued == [run EXCEPT !.status = "queued", !.notBefore = adm.notBefore]
<1>1. CASE adm.onto # 0
  BY <1>1 DEF request
<1>2. CASE adm.onto = 0
  <2>1. r \in Runs
    BY <1>2 DEF request
  <2>2. runs[r].status = "none" /\ Requested = 1..(r - 1)
    <3>1. PICK n \in 0..MaxRuns : Requested = 1..n
      BY DEF IInv, Numbered
    <3>2. n \in Int /\ Cardinality(1..n) = n
      BY FS_Interval
    <3>3. r = n + 1
      BY <3>1, <3>2
    <3>4. r \notin Requested
      BY <3>1, <3>2, <3>3
    <3>5. QED
      <4>1. runs[r].status = "none"
        BY <2>1, <3>4 DEF Requested
      <4>2. Requested = 1..(r - 1)
        BY <3>1, <3>2, <3>3
      <4>3. QED
        BY <4>1, <4>2
  <2>3. adm.notBefore \in Int
    BY <1>2, AdmitTyped DEF NoTime, IInv
  <2>4. PICK f \in BOOLEAN : f = (trigger = "membership")
    OBVIOUS
  <2>5. /\ skipped \in Run /\ skipped.status = "skipped" /\ skipped.startedAt = NoTime
        /\ ~skipped.finding /\ (skipped.followUp <=> trigger = "membership")
    <3>1. skipped = [NoRun EXCEPT !.followUp = f, !.status = "skipped"]
      BY <2>4 DEF NoRun
    <3> HIDE DEF skipped
    <3>2. skipped = [status |-> "skipped", followUp |-> f, notBefore |-> NoTime,
                     startedAt |-> NoTime, finding |-> FALSE]
      BY <3>1 DEF NoRun
    <3>3. skipped.followUp = f
      BY <3>2
    <3>4. skipped \in Run /\ skipped.status = "skipped" /\ skipped.startedAt = NoTime
          /\ ~skipped.finding
      BY <2>4, <3>2 DEF Run, NoTime, Statuses, Ended
    <3>5. QED
      BY <2>4, <3>3, <3>4
  <2>6. /\ queued \in Run /\ queued.status = "queued" /\ queued.startedAt = NoTime
        /\ ~queued.finding /\ (queued.followUp <=> trigger = "membership")
        /\ queued.notBefore = adm.notBefore
    <3>1. queued = [NoRun EXCEPT !.followUp = f, !.status = "queued",
                                 !.notBefore = adm.notBefore]
      BY <2>4 DEF NoRun
    <3> HIDE DEF queued, adm
    <3>2. queued = [status |-> "queued", followUp |-> f, notBefore |-> adm.notBefore,
                    startedAt |-> NoTime, finding |-> FALSE]
      BY <3>1 DEF NoRun
    <3>3. queued.followUp = f /\ queued.notBefore = adm.notBefore
      BY <3>2
    <3>4. queued \in Run /\ queued.status = "queued" /\ queued.startedAt = NoTime
          /\ ~queued.finding
      BY <2>3, <2>4, <3>2 DEF Run, NoTime, Statuses, Ended
    <3>5. QED
      BY <2>4, <3>3, <3>4
  <2>7. CASE ~on \/ BudgetSpent
    <3>1. runs' = [runs EXCEPT ![r] = skipped] /\ jobs' = jobs
      BY <1>2, <2>7 DEF request
    <3>2. Requests(trigger, r, skipped)
      BY <2>2, <2>5, <3>1 DEF Requests
    <3>3. QED
      BY <2>1, <2>5, <3>2
  <2>8. CASE ~(~on \/ BudgetSpent)
    <3>1. runs' = [runs EXCEPT ![r] = queued] /\ jobs' = [jobs EXCEPT ![r].ready = TRUE]
      BY <1>2, <2>8 DEF request
    <3>2. trigger = "membership" =>
             /\ Queued = {}
             /\ \A q \in Begun : \/ Anchor(q) + Interval <= now
                                 \/ Anchor(q) + Interval <= queued.notBefore
      BY <1>2, <2>6, <2>8, AdmitFollowUp DEF IInv
    <3>3. Requests(trigger, r, queued)
      BY <2>2, <2>6, <3>1, <3>2 DEF Requests
    <3>4. QED
      BY <2>1, <2>6, <3>3
  <2>9. QED
    BY <2>7, <2>8
<1>3. QED
  BY <1>1, <1>2

(***************************************************************************)
(* Steps that leave the runs alone.                                        *)
(***************************************************************************)
RunsPart == /\ Numbered /\ OneWaits /\ WaitsItOut
            /\ WithinConcurrency /\ FindingsPublishedOnce
WorkPart == WorkersFit /\ OneOwner /\ RunsFit /\ StartedApart

LEMMA SameRuns ==
    ASSUME IInv, UNCHANGED <<now, runs, published>>
    PROVE  RunsPart'
BY DEF IInv, RunsPart, Numbered, OneWaits, WaitsItOut, WithinConcurrency,
   FindingsPublishedOnce, Requested, Queued, Begun, Running, FollowUp

LEMMA SameWork ==
    ASSUME IInv, UNCHANGED <<now, runs, workers, payers>>
    PROVE  WorkPart'
BY DEF IInv, WorkPart, WorkersFit, WorkerFits, OneOwner, RunsFit, RunFits, StartedApart,
   Owned, Apart, FollowUp, Begun, Requested

\* A worker moves on: nobody enters a loop that way, and only the owner of a loop
\* pays for a run.
LEMMA WorkerMoves ==
    ASSUME TypeOK, IInv, NEW w \in Workers, NEW rec \in Worker, Become(w, rec),
           UNCHANGED <<now, runs>>,
           payers' = payers \/ (workers[w].pc = "loop" /\ payers' = Pay(w)),
           rec.pc = "loop" => workers[w].pc = "loop" /\ rec.run = workers[w].run,
           WorkerFits(w)'
    PROVE  WorkPart'
<1>1. \A v \in Workers : workers'[v] = IF v = w THEN rec ELSE workers[v]
  BY DEF Become, TypeOK
<1>2. WorkerFits(w) /\ workers[w] \in Worker
  BY DEF IInv, WorkersFit, TypeOK
<1>3. workers[w].pc = "loop" => workers[w].run \in Runs
  BY <1>2 DEF WorkerFits, Worker
<1>4. \A r \in Runs : payers'[r] = payers[r] \/
        (workers[w].pc = "loop" /\ r = workers[w].run /\ payers[r] = 0 /\ payers'[r] = 1)
  BY <1>2, <1>3 DEF Pay, TypeOK, WorkerFits
<1>5. WorkersFit'
  <2> SUFFICES ASSUME NEW v \in Workers, v # w PROVE WorkerFits(v)'
    BY DEF WorkersFit
  <2>1. workers'[v] = workers[v] /\ WorkerFits(v) /\ workers[v] \in Worker
    BY <1>1 DEF IInv, WorkersFit, TypeOK
  <2>2. workers[v].pc = "loop" => workers[v].run \in Runs
                                    /\ payers'[workers[v].run] = payers[workers[v].run]
    BY <1>4, <2>1 DEF IInv, OneOwner, WorkerFits, Worker
  <2>3. QED
    BY <2>1, <2>2 DEF WorkerFits
<1>6. OneOwner'
  BY <1>1 DEF IInv, OneOwner
<1>7. RunsFit'
  <2> SUFFICES ASSUME NEW r \in Runs PROVE RunFits(r)'
    BY DEF RunsFit
  <2>1. RunFits(r)
    BY DEF IInv, RunsFit
  <2>2. runs[r].status \in {"none", "queued"} => payers'[r] = payers[r]
    BY <1>2, <1>4 DEF WorkerFits
  <2>3. QED
    BY <1>4, <2>1, <2>2 DEF RunFits, Begun, Requested
<1>8. StartedApart'
  <2>1. \A r \in Runs : Owned(r)' => Owned(r)
    <3> SUFFICES ASSUME NEW r \in Runs, Owned(r)' PROVE Owned(r)
      OBVIOUS
    <3>1. CASE payers'[r] > 0
      BY <1>4, <3>1 DEF Owned, TypeOK
    <3>2. CASE \E v \in Workers : workers'[v].pc = "loop" /\ workers'[v].run = r
      BY <1>1, <3>2 DEF Owned
    <3>3. QED
      BY <3>1, <3>2 DEF Owned
  <2>2. QED
    BY <2>1 DEF IInv, StartedApart, Apart, FollowUp, Begun, Requested
<1>9. QED
  BY <1>5, <1>6, <1>7, <1>8 DEF WorkPart

\* What is left of TypeOK when a worker moves.
LEMMA MoveTyped ==
    ASSUME TypeOK, NEW w \in Workers, NEW rec \in Worker, Become(w, rec)
    PROVE  workers' \in [Workers -> Worker] /\ workers'[w] = rec
BY DEF Become, TypeOK

LEMMA IdleFits ==
    /\ Idle \in Worker /\ Idle.pc = "idle" /\ Idle.run = 0
    /\ ~Idle.paid /\ ~Idle.finding
BY DEF Idle, Worker, Ended

\* Going idle satisfies a worker's part of the invariant.
LEMMA IdleWorkerFits ==
    ASSUME TypeOK, NEW w \in Workers, Become(w, Idle)
    PROVE  WorkerFits(w)'
<1>1. workers'[w] = Idle
  BY MoveTyped, IdleFits
<1>2. QED
  BY <1>1, IdleFits DEF WorkerFits

\* A worker that is not idle has a run, and was counted.
LEMMA HasRun ==
    ASSUME TypeOK, IInv, NEW w \in Workers, workers[w].pc # "idle"
    PROVE  workers[w].run \in Runs /\ jobs[workers[w].run].used \in Nat
BY DEF TypeOK, IInv, WorkersFit, WorkerFits, Worker

(***************************************************************************)
(* One lemma per operation.                                                *)
(***************************************************************************)
LEMMA StepTick ==
    ASSUME TypeOK, IInv, Tick
    PROVE  TypeOK' /\ IInv'
<1> USE InvestigationsAssumption DEF InvestigationsAssumption
<1>1. TypeOK'
  BY DEF Tick, TypeOK
<1>2. now \in Int /\ now' = now + 1 /\ UNCHANGED <<runs, workers, payers, published, jobs>>
  BY DEF Tick, TypeOK
<1>3. WorkersFit'
  <2> SUFFICES ASSUME NEW w \in Workers PROVE WorkerFits(w)'
    BY DEF WorkersFit
  <2>1. WorkerFits(w) /\ workers[w] \in Worker
    BY DEF IInv, WorkersFit, TypeOK
  <2>2. workers[w].pc \in {"read", "start"} => runs[workers[w].run].notBefore \in Int
    BY <2>1 DEF WorkerFits, Worker, TypeOK, Run
  <2>3. QED
    BY <1>2, <2>1, <2>2 DEF WorkerFits
<1>4. RunsFit'
  BY <1>2 DEF IInv, RunsFit, RunFits, Begun, Requested
<1>5. WaitsItOut'
  <2>1. \A r \in Begun : runs[r].startedAt + Interval \in Int
    BY DEF TypeOK, Run, Begun, Requested
  <2>2. QED
    BY <1>2, <2>1 DEF IInv, WaitsItOut, Queued, Begun, Requested, FollowUp
<1>6. Numbered' /\ OneWaits' /\ WithinConcurrency' /\ FindingsPublishedOnce'
  BY <1>2 DEF IInv, Numbered, OneWaits, WithinConcurrency, FindingsPublishedOnce,
     Requested, Queued, Running, FollowUp
<1>7. OneOwner' /\ StartedApart' /\ DeliveriesCounted'
  BY <1>2 DEF IInv, OneOwner, StartedApart, DeliveriesCounted, Owned, Apart, FollowUp,
     Begun, Requested, Busy
<1>8. QED
  BY <1>1, <1>3, <1>4, <1>5, <1>6, <1>7 DEF IInv

LEMMA StepMembership ==
    ASSUME TypeOK, IInv, MembershipChanges
    PROVE  TypeOK' /\ IInv'
<1> USE InvestigationsAssumption DEF InvestigationsAssumption
<1>1. TypeOK'
  BY DEF MembershipChanges, TypeOK
<1>2. UNCHANGED <<now, runs, workers, payers, published, jobs>>
  BY DEF MembershipChanges
<1>3. DeliveriesCounted'
  BY <1>2 DEF IInv, DeliveriesCounted, Busy
<1>4. QED
  BY <1>1, <1>2, <1>3, SameRuns, SameWork DEF IInv, RunsPart, WorkPart

LEMMA StepRescue ==
    ASSUME TypeOK, IInv, NEW r \in Runs, RescueStuckJob(r)
    PROVE  TypeOK' /\ IInv'
<1>1. jobs' \in [Runs -> [ready : BOOLEAN, used : Nat, lost : BOOLEAN]]
      /\ \A q \in Runs : jobs'[q].used = jobs[q].used
  BY DEF RescueStuckJob, TypeOK
<1>2. UNCHANGED <<now, subject, untold, runs, steps, workers, payers, published>>
  BY DEF RescueStuckJob
<1>3. TypeOK'
  BY <1>1, <1>2 DEF TypeOK
<1>4. DeliveriesCounted'
  BY <1>1, <1>2 DEF IInv, DeliveriesCounted, Busy
<1>5. QED
  BY <1>2, <1>3, <1>4, SameRuns, SameWork DEF IInv, RunsPart, WorkPart

\* A worker about to end its run.
LEMMA EndingFits ==
    ASSUME TypeOK, NEW w \in Workers, NEW status \in Ended, NEW f \in BOOLEAN
    PROVE  /\ Ending(w, status, f) \in Worker
           /\ Ending(w, status, f).run = workers[w].run
           /\ Ending(w, status, f).pc = "finish" /\ ~Ending(w, status, f).paid
           /\ Ending(w, status, f).finding = f /\ Ending(w, status, f).end = status
BY DEF TypeOK, Ending, Worker

LEMMA StepRead ==
    ASSUME TypeOK, IInv, NEW w \in Workers, readSubject(w) \/ cannotStart(w)
    PROVE  TypeOK' /\ IInv'
<1>1. UNCHANGED <<now, subject, untold, runs, steps, published, jobs, payers>>
  BY DEF readSubject, cannotStart
<1>2. workers[w].pc = "read" /\ workers[w] \in Worker /\ WorkerFits(w)
  BY DEF readSubject, cannotStart, TypeOK, IInv, WorkersFit
<1>3. PICK rec \in Worker : /\ Become(w, rec)
                            /\ rec.run = workers[w].run /\ ~rec.paid
                            /\ rec.pc \in {"start", "finish"}
                            /\ rec.finding => rec.end \in {"completed", "exhausted"}
  <2>1. CASE readSubject(w)
    <3> DEFINE c == [workers[w] EXCEPT !.pc = "start"]
    <3>1. Become(w, c)
      BY <2>1 DEF readSubject
    <3>2. c \in Worker /\ c.run = workers[w].run /\ c.pc = "start"
      BY <1>2 DEF Worker
    <3>3. ~c.paid /\ (c.finding => c.end \in {"completed", "exhausted"})
      BY <1>2 DEF Worker, WorkerFits
    <3>4. QED
      BY <3>1, <3>2, <3>3
  <2>2. CASE cannotStart(w)
    BY <2>2, EndingFits DEF cannotStart, Ended
  <2>3. QED
    BY <2>1, <2>2
<1>4. workers' \in [Workers -> Worker] /\ workers'[w] = rec
  BY <1>3, MoveTyped
<1>5. TypeOK'
  BY <1>1, <1>4 DEF TypeOK
<1>6. WorkerFits(w)'
  BY <1>1, <1>2, <1>3, <1>4 DEF WorkerFits
<1>7. WorkPart'
  BY <1>1, <1>3, <1>6, WorkerMoves
<1>8. DeliveriesCounted'
  BY <1>1, <1>3, StayCounts DEF IInv, DeliveriesCounted
<1>9. QED
  BY <1>1, <1>5, <1>7, <1>8, SameRuns DEF IInv, RunsPart, WorkPart

\* The loop: a turn, a turn that fails, the wall clock.
LEMMA StepLoop ==
    ASSUME TypeOK, IInv, NEW w \in Workers,
           \/ \E c \in TurnCosts, after \in TurnEnds : ModelTurn(w, c, after)
           \/ turnFails(w) \/ WallTimeRunsOut(w)
    PROVE  TypeOK' /\ IInv'
<1> USE InvestigationsAssumption DEF InvestigationsAssumption
<1>1. UNCHANGED <<now, subject, untold, runs, published, jobs>>
  BY DEF ModelTurn, turnFails, WallTimeRunsOut
<1>2. workers[w].pc = "loop" /\ workers[w] \in Worker /\ WorkerFits(w)
  BY DEF ModelTurn, turnFails, WallTimeRunsOut, TypeOK, IInv, WorkersFit
<1>3. workers[w].run \in Runs
  BY <1>2, HasRun
<1>4. PICK rec \in Worker : /\ Become(w, rec)
                            /\ rec.run = workers[w].run
                            /\ \/ rec.pc = "loop" /\ rec.paid /\ payers' = Pay(w)
                               \/ rec.pc = "finish" /\ ~rec.paid
                            /\ rec.finding => rec.end \in {"completed", "exhausted"}
  <2>1. /\ Going(w) \in Worker /\ Going(w).run = workers[w].run /\ Going(w).pc = "loop"
        /\ Going(w).paid /\ Going(w).finding = workers[w].finding
        /\ Going(w).end = workers[w].end
    BY <1>2 DEF Going, Worker
  <2>2. CASE \E c \in TurnCosts, after \in TurnEnds : ModelTurn(w, c, after)
    <3>1. payers' = Pay(w)
      BY <2>2 DEF ModelTurn
    <3>2. \/ Become(w, Going(w)) \/ Become(w, Ending(w, "completed", TRUE))
          \/ Become(w, Ending(w, "failed", FALSE))
          \/ \E said \in BOOLEAN : Become(w, Ending(w, "exhausted", said))
      BY <2>2 DEF ModelTurn
    <3>3. CASE Become(w, Going(w))
      BY <1>2, <2>1, <3>1, <3>3 DEF WorkerFits
    <3>4. CASE Become(w, Ending(w, "completed", TRUE))
      BY <3>4, EndingFits DEF Ended
    <3>5. CASE Become(w, Ending(w, "failed", FALSE))
      BY <3>5, EndingFits DEF Ended
    <3>6. CASE \E said \in BOOLEAN : Become(w, Ending(w, "exhausted", said))
      BY <3>6, EndingFits DEF Ended
    <3>7. QED
      BY <3>2, <3>3, <3>4, <3>5, <3>6
  <2>3. CASE turnFails(w)
    BY <2>3, EndingFits DEF turnFails, Ended
  <2>4. CASE WallTimeRunsOut(w)
    BY <2>4, EndingFits DEF WallTimeRunsOut, Ended
  <2>5. QED
    BY <2>2, <2>3, <2>4
<1>5. payers' = payers \/ payers' = Pay(w)
  BY DEF ModelTurn, turnFails, WallTimeRunsOut
<1>6. payers' \in [Runs -> Nat]
  BY <1>3, <1>5 DEF Pay, TypeOK
<1>7. steps' \in [Runs -> Nat]
  <2>1. CASE \E c \in TurnCosts, after \in TurnEnds : ModelTurn(w, c, after)
    BY <1>3, <2>1 DEF ModelTurn, TypeOK
  <2>2. CASE turnFails(w) \/ WallTimeRunsOut(w)
    BY <2>2 DEF turnFails, WallTimeRunsOut, TypeOK
  <2>3. QED
    BY <2>1, <2>2
<1>8. workers' \in [Workers -> Worker] /\ workers'[w] = rec
  BY <1>4, MoveTyped
<1>9. TypeOK'
  BY <1>1, <1>6, <1>7, <1>8 DEF TypeOK
<1>10. WorkerFits(w)'
  BY <1>1, <1>2, <1>4, <1>8 DEF WorkerFits
<1>11. WorkPart'
  BY <1>1, <1>2, <1>4, <1>5, <1>10, WorkerMoves
<1>12. DeliveriesCounted'
  BY <1>1, <1>4, StayCounts DEF IInv, DeliveriesCounted
<1>13. QED
  BY <1>1, <1>9, <1>11, <1>12, SameRuns DEF IInv, RunsPart, WorkPart

\* The worker gives the run up, the job's row aside.
LEMMA WorkerLeaves ==
    ASSUME TypeOK, IInv, NEW w \in Workers, workers[w].pc # "idle", Become(w, Idle),
           UNCHANGED <<now, subject, untold, runs, steps, published, payers>>,
           jobs' \in [Runs -> [ready : BOOLEAN, used : Nat, lost : BOOLEAN]],
           \A r \in Runs : jobs'[r].used >= jobs[r].used
                             - (IF r = workers[w].run THEN 1 ELSE 0)
    PROVE  TypeOK' /\ IInv'
<1>1. workers' \in [Workers -> Worker]
  BY MoveTyped, IdleFits
<1>2. TypeOK'
  BY <1>1 DEF TypeOK
<1>3. WorkPart'
  BY IdleFits, IdleWorkerFits, WorkerMoves
<1>4. DeliveriesCounted'
  <2> SUFFICES ASSUME NEW r \in Runs PROVE Cardinality(Busy(r))' <= jobs'[r].used
    BY DEF DeliveriesCounted
  <2>1. Cardinality(Busy(r)) \in Nat /\ jobs[r].used \in Nat /\ jobs'[r].used \in Nat
        /\ Cardinality(Busy(r)) <= jobs[r].used
    BY Finite DEF TypeOK, IInv, DeliveriesCounted
  <2>2. Cardinality(Busy(r))' = IF r = workers[w].run THEN Cardinality(Busy(r)) - 1
                                                      ELSE Cardinality(Busy(r))
    BY HasRun, LeaveCounts
  <2>3. QED
    BY <2>1, <2>2
<1>5. QED
  BY <1>2, <1>3, <1>4, SameRuns DEF IInv, RunsPart, WorkPart

LEMMA StepStartRefused ==
    ASSUME TypeOK, IInv, NEW w \in Workers, StartAtCapacity(w) \/ StartNotQueued(w)
    PROVE  TypeOK' /\ IInv'
<1>1. workers[w].pc = "start" /\ Become(w, Idle) /\ workers[w].run \in Runs
  BY HasRun DEF StartAtCapacity, StartNotQueued
<1>2. jobs[workers[w].run].used \in Nat /\ jobs[workers[w].run].used >= 1
  <2>1. Cardinality(Busy(workers[w].run)) >= 1
    BY <1>1, LeaveCounts
  <2>2. QED
    BY <1>1, <2>1, Finite DEF TypeOK, IInv, DeliveriesCounted
<1>3. /\ jobs' \in [Runs -> [ready : BOOLEAN, used : Nat, lost : BOOLEAN]]
      /\ \A r \in Runs : jobs'[r].used >= jobs[r].used
                           - (IF r = workers[w].run THEN 1 ELSE 0)
  BY <1>1, <1>2 DEF StartAtCapacity, StartNotQueued, TypeOK
<1>4. UNCHANGED <<now, subject, untold, runs, steps, published, payers>>
  BY DEF StartAtCapacity, StartNotQueued
<1>5. QED
  BY <1>1, <1>3, <1>4, WorkerLeaves

LEMMA StepCrash ==
    ASSUME TypeOK, IInv, NEW w \in Workers, Crash(w)
    PROVE  TypeOK' /\ IInv'
<1>1. workers[w].pc # "idle" /\ Become(w, Idle) /\ workers[w].run \in Runs
  BY HasRun DEF Crash
<1>2. PICK lost \in BOOLEAN : jobs' = [jobs EXCEPT ![workers[w].run].lost = lost]
  BY DEF Crash
<1>3. /\ jobs' \in [Runs -> [ready : BOOLEAN, used : Nat, lost : BOOLEAN]]
      /\ \A r \in Runs : jobs'[r].used >= jobs[r].used
                           - (IF r = workers[w].run THEN 1 ELSE 0)
  BY <1>1, <1>2 DEF TypeOK
<1>4. UNCHANGED <<now, subject, untold, runs, steps, published, payers>>
  BY DEF Crash
<1>5. QED
  BY <1>1, <1>3, <1>4, WorkerLeaves

\* A run that is delivered: its worker reads on only once the run may start.
LEMMA StepDeliver ==
    ASSUME TypeOK, IInv, NEW w \in Workers, NEW r \in Runs, RunInvestigation(w, r)
    PROVE  TypeOK' /\ IInv'
<1> USE InvestigationsAssumption DEF InvestigationsAssumption
<1>1. workers[w].pc = "idle" /\ workers[w].run = 0 /\ workers[w] \in Worker
  BY DEF RunInvestigation, IInv, WorkersFit, WorkerFits, TypeOK
<1>2. UNCHANGED <<now, subject, untold, runs, steps, published, payers>>
  BY DEF RunInvestigation
<1>3. PICK on \in BOOLEAN : Proceed(r, on) # "snooze" /\ Become(w, After(r, on))
  BY DEF RunInvestigation, Switch
<1> DEFINE rec == After(r, on)
<1>4. \/ rec = Idle
      \/ /\ rec = [Idle EXCEPT !.run = r, !.pc = "read"]
         /\ runs[r].status = "queued" /\ ~(runs[r].notBefore > now)
      \/ /\ rec = [Idle EXCEPT !.run = r, !.pc = "finish", !.end = "skipped"]
         /\ runs[r].status = "queued"
      \/ /\ rec = [Idle EXCEPT !.run = r, !.pc = "finish"]
         /\ runs[r].status = "running"
  <2>1. /\ Proceed(r, on) = "go" => runs[r].status = "queued" /\ ~(runs[r].notBefore > now)
        /\ Proceed(r, on) = "skip" => runs[r].status = "queued"
        /\ Proceed(r, on) = "interrupted" => runs[r].status = "running"
    BY DEF Proceed
  <2>2. CASE Proceed(r, on) = "go"
    BY <2>1, <2>2 DEF After
  <2>3. CASE Proceed(r, on) = "skip"
    BY <2>1, <2>3 DEF After
  <2>4. CASE Proceed(r, on) = "interrupted"
    BY <2>1, <2>4 DEF After
  <2>5. CASE Proceed(r, on) \notin {"go", "skip", "interrupted"}
    BY <2>5 DEF After
  <2>6. QED
    BY <2>2, <2>3, <2>4, <2>5
<1> HIDE DEF rec
<1>5. runs[r].notBefore \in Int /\ now \in Int
  BY DEF TypeOK, Run
<1>6. /\ rec \in Worker /\ ~rec.paid /\ ~rec.finding
      /\ rec.run \in {0, r} /\ (rec.pc = "idle" <=> rec.run = 0)
      /\ rec.pc \in {"idle", "read", "finish"}
      /\ rec.pc # "idle" => runs[r].status # "none"
      /\ rec.pc = "read" => runs[r].notBefore <= now
  <2>1. r # 0 /\ r \in Runs
    BY DEF Runs
  <2>2. CASE rec = Idle
    BY <2>1, <2>2, IdleFits
  <2>3. CASE /\ rec = [Idle EXCEPT !.run = r, !.pc = "read"]
             /\ runs[r].status = "queued" /\ ~(runs[r].notBefore > now)
    <3>1. runs[r].notBefore <= now
      BY <1>5, <2>3
    <3>2. QED
      BY <2>1, <2>3, <3>1 DEF Idle, Worker, Ended
  <2>4. CASE /\ rec = [Idle EXCEPT !.run = r, !.pc = "finish", !.end = "skipped"]
             /\ runs[r].status = "queued"
    BY <2>1, <2>4 DEF Idle, Worker, Ended
  <2>5. CASE /\ rec = [Idle EXCEPT !.run = r, !.pc = "finish"]
             /\ runs[r].status = "running"
    BY <2>1, <2>5 DEF Idle, Worker, Ended
  <2>6. QED
    BY <1>4, <2>2, <2>3, <2>4, <2>5
<1>7. jobs' \in [Runs -> [ready : BOOLEAN, used : Nat, lost : BOOLEAN]]
      /\ \A q \in Runs : jobs'[q].used = IF q = r THEN jobs[q].used + 1 ELSE jobs[q].used
  BY DEF RunInvestigation, TypeOK
<1>8. Become(w, rec)
  BY <1>3 DEF rec
<1>9. workers' \in [Workers -> Worker] /\ workers'[w] = rec
  BY <1>6, <1>8, MoveTyped
<1>10. TypeOK'
  BY <1>2, <1>7, <1>9 DEF TypeOK
<1>11. WorkerFits(w)'
  BY <1>2, <1>6, <1>9 DEF WorkerFits
<1>12. WorkPart'
  BY <1>2, <1>6, <1>8, <1>11, WorkerMoves
<1>13. DeliveriesCounted'
  <2> SUFFICES ASSUME NEW q \in Runs PROVE Cardinality(Busy(q))' <= jobs'[q].used
    BY DEF DeliveriesCounted
  <2>1. Cardinality(Busy(q)) \in Nat /\ jobs[q].used \in Nat
        /\ Cardinality(Busy(q)) <= jobs[q].used
    BY Finite DEF TypeOK, IInv, DeliveriesCounted
  <2>2. CASE rec.run = r
    BY <1>1, <1>7, <1>8, <2>1, <2>2, JoinCounts
  <2>3. CASE rec.run = 0
    BY <1>1, <1>7, <1>8, <2>1, <2>3, StayCounts
  <2>4. QED
    BY <1>6, <2>2, <2>3
<1>14. QED
  BY <1>2, <1>10, <1>12, <1>13, SameRuns DEF IInv, RunsPart, WorkPart

\* Start: only here does a run begin to be paid for, under the count of the slots.
LEMMA StepStart ==
    ASSUME TypeOK, IInv, NEW w \in Workers, Start(w)
    PROVE  TypeOK' /\ IInv'
<1> USE InvestigationsAssumption DEF InvestigationsAssumption
<1> DEFINE r == workers[w].run
           rec == [workers[w] EXCEPT !.pc = "loop"]
<1>1. /\ workers[w].pc = "start" /\ workers[w] \in Worker /\ WorkerFits(w)
      /\ r \in Runs /\ runs[r].status = "queued"
      /\ Become(w, rec) /\ UNCHANGED <<now, subject, untold, steps, published, jobs, payers>>
  BY HasRun DEF Start, MyRun, TypeOK, IInv, WorkersFit
<1>2. /\ runs' = [runs EXCEPT ![r].status = "running", ![r].startedAt = now]
      /\ now \in 0..now /\ now \in Nat /\ runs[r] \in Run
  BY <1>1 DEF Start, TypeOK
<1>3. /\ \A q \in Runs : q # r => runs'[q] = runs[q]
      /\ runs'[r].status = "running" /\ runs'[r].startedAt = now
      /\ runs'[r].followUp = runs[r].followUp /\ runs'[r].notBefore = runs[r].notBefore
      /\ runs'[r].finding = runs[r].finding
      /\ runs' \in [Runs -> Run]
  BY <1>1, <1>2, SMTT(30) DEF TypeOK, Run, Statuses
<1>4. /\ rec \in Worker /\ rec.pc = "loop" /\ rec.run = r /\ ~rec.paid
      /\ rec.finding = workers[w].finding /\ rec.end = workers[w].end
  BY <1>1 DEF Worker, WorkerFits
<1>5. workers' \in [Workers -> Worker] /\ workers'[w] = rec
      /\ \A v \in Workers : v # w => workers'[v] = workers[v]
  BY <1>1, <1>4, MoveTyped DEF Become, TypeOK
<1>6. TypeOK'
  BY <1>1, <1>3, <1>5 DEF TypeOK
<1>7. RunFits(r) /\ payers[r] = 0 /\ runs[r].startedAt = NoTime
  BY <1>1 DEF IInv, RunsFit, RunFits
<1>8. /\ Requested' = Requested /\ Queued' = Queued \ {r}
      /\ Running' = Running \cup {r} /\ Begun' = Begun \cup {r}
      /\ r \in Queued /\ r \notin Running /\ r \notin Begun
  BY <1>1, <1>3 DEF Requested, Queued, Running, Begun
<1> HIDE DEF r, rec
<1>9. Numbered'
  BY <1>8 DEF IInv, Numbered
<1>10. WorkersFit'
  <2> SUFFICES ASSUME NEW v \in Workers PROVE WorkerFits(v)'
    BY DEF WorkersFit
  <2>1. CASE v = w
    <3>1. workers'[v] = rec
      BY <1>5, <2>1
    <3>2. r # 0
      BY <1>1 DEF Runs
    <3>3. payers'[r] = 0
      BY <1>1, <1>7
    <3>4. QED
      BY <1>1, <1>3, <1>4, <3>1, <3>2, <3>3 DEF WorkerFits
  <2>2. CASE v # w
    <3>1. workers'[v] = workers[v] /\ WorkerFits(v) /\ workers[v] \in Worker
      BY <1>5, <2>2 DEF IInv, WorkersFit, TypeOK
    <3>2. workers[v].pc # "idle" => workers[v].run \in Runs
      BY <3>1 DEF Worker, WorkerFits
    <3>3. QED
      BY <1>1, <1>3, <3>1, <3>2 DEF WorkerFits
  <2>3. QED
    BY <2>1, <2>2
<1>11. DeliveriesCounted'
  <2>1. rec.run = workers[w].run
    BY <1>4 DEF r
  <2>2. QED
    BY <1>1, <1>4, <2>1, StayCounts DEF IInv, DeliveriesCounted
<1>12. OneOwner'
  <2>1. \A v \in Workers : v # w /\ workers[v].pc = "loop" => workers[v].run # r
    BY <1>1 DEF IInv, WorkersFit, WorkerFits
  <2>2. QED
    BY <1>4, <1>5, <2>1 DEF IInv, OneOwner
<1>13. RunsFit'
  <2> SUFFICES ASSUME NEW q \in Runs PROVE RunFits(q)'
    BY DEF RunsFit
  <2>1. RunFits(q)
    BY DEF IInv, RunsFit
  <2>2. CASE q = r
    BY <1>1, <1>2, <1>3, <1>7, <2>1, <2>2 DEF RunFits
  <2>3. CASE q # r
    BY <1>1, <1>3, <1>8, <2>1, <2>3 DEF RunFits
  <2>4. QED
    BY <2>2, <2>3
<1>14. OneWaits'
  <2>1. \A q \in Queued' : q \in Queued /\ q \in Runs /\ runs'[q] = runs[q]
    BY <1>3, <1>8 DEF Queued
  <2>2. QED
    BY <2>1 DEF IInv, OneWaits, FollowUp
<1>15. FollowUp(r) => \A q \in Begun : FollowUp(q) =>
          /\ q \in Runs /\ q # r
          /\ runs[q].startedAt + Interval <= now
  <2> SUFFICES ASSUME FollowUp(r), NEW q \in Begun, FollowUp(q)
               PROVE  q \in Runs /\ q # r /\ runs[q].startedAt + Interval <= now
    OBVIOUS
  <2>1. q \in Runs /\ q # r
    BY <1>8 DEF Begun, Requested
  <2>2. runs[r].notBefore <= now
    BY <1>1 DEF WorkerFits, r
  <2>3. runs[q].startedAt + Interval <= now
          \/ runs[q].startedAt + Interval <= runs[r].notBefore
    BY <1>8 DEF IInv, WaitsItOut
  <2>4. runs[q].startedAt \in Int /\ runs[r].notBefore \in Int
    BY <1>1, <2>1 DEF TypeOK, Run
  <2>5. QED
    BY <1>2, <2>1, <2>2, <2>3, <2>4
<1>16. WaitsItOut'
  <2> SUFFICES ASSUME NEW p \in Queued', NEW q \in Begun', FollowUp(q)', FollowUp(p)'
               PROVE  \/ runs'[q].startedAt + Interval <= now'
                      \/ runs'[q].startedAt + Interval <= runs'[p].notBefore
    BY DEF WaitsItOut
  <2>1. p \in Queued /\ p # r /\ p \in Runs /\ runs'[p] = runs[p] /\ FollowUp(p)
    BY <1>3, <1>8 DEF Queued, FollowUp
  <2>2. q # r
    BY <1>3, <1>8, <2>1 DEF IInv, OneWaits, FollowUp
  <2>3. q \in Begun /\ runs'[q] = runs[q] /\ FollowUp(q)
    BY <1>3, <1>8, <2>2 DEF Begun, Requested, FollowUp
  <2>4. QED
    BY <1>1, <2>1, <2>3 DEF IInv, WaitsItOut
<1>17. StartedApart'
  <2> SUFFICES ASSUME NEW p \in Begun', NEW q \in Begun', FollowUp(q)', FollowUp(p)',
                      Owned(p)', Owned(q)', p # q
               PROVE  Apart(p, q)'
    BY DEF StartedApart
  <2>1. ASSUME NEW b \in Begun', b # r
        PROVE  b \in Begun /\ b \in Runs /\ runs'[b] = runs[b]
    BY <1>3, <1>8, <2>1 DEF Begun, Requested
  <2>2. ASSUME NEW b \in Runs, b # r, Owned(b)'
        PROVE  Owned(b)
    BY <1>1, <1>4, <1>5, <2>2 DEF Owned
  <2>3. CASE p = r
    BY <1>3, <1>15, <2>1, <2>3 DEF Apart, FollowUp
  <2>4. CASE q = r
    BY <1>3, <1>15, <2>1, <2>4 DEF Apart, FollowUp
  <2>5. CASE p # r /\ q # r
    <3>1. /\ p \in Begun /\ q \in Begun /\ FollowUp(p) /\ FollowUp(q)
          /\ Owned(p) /\ Owned(q) /\ runs'[p] = runs[p] /\ runs'[q] = runs[q]
      BY <2>1, <2>2, <2>5 DEF FollowUp
    <3>2. Apart(p, q)
      BY <3>1 DEF IInv, StartedApart
    <3>3. QED
      BY <3>1, <3>2 DEF Apart
  <2>6. QED
    BY <2>3, <2>4, <2>5
<1>18. WithinConcurrency'
  <2>1. ~(Cardinality(Running) >= Concurrency)
    BY DEF Start, AtCapacity
  <2>2. Cardinality(Running \cup {r}) = Cardinality(Running) + 1
    BY <1>8, Finite, FS_AddElement
  <2>3. Cardinality(Running)' = Cardinality(Running) + 1
    BY <1>8, <2>2
  <2>4. QED
    BY <2>1, <2>3, Finite DEF WithinConcurrency
<1>19. FindingsPublishedOnce'
  <2> SUFFICES ASSUME NEW q \in Runs
               PROVE  /\ published'[q] = (IF runs'[q].finding THEN 1 ELSE 0)
                      /\ runs'[q].finding => runs'[q].status \in {"completed", "exhausted"}
    BY DEF FindingsPublishedOnce
  <2>1. /\ published[q] = (IF runs[q].finding THEN 1 ELSE 0)
        /\ runs[q].finding => runs[q].status \in {"completed", "exhausted"}
    BY DEF IInv, FindingsPublishedOnce
  <2>2. QED
    BY <1>1, <1>3, <2>1
<1>20. QED
  BY <1>6, <1>9, <1>10, <1>11, <1>12, <1>13, <1>14, <1>16, <1>17, <1>18, <1>19 DEF IInv

\* A run is ended by whoever holds it last: the row says when it began, if it did,
\* and nobody who was on it can start, pay or publish any more.
LEMMA CloseKeeps ==
    ASSUME TypeOK, IInv, NEW w \in Workers, workers[w].pc # "idle",
           runs[workers[w].run].status \in {"queued", "running"},
           NEW end \in Ended, NEW f \in BOOLEAN,
           f => end \in {"completed", "exhausted"},
           Close(workers[w].run, end, f), Become(w, Idle),
           published' = [published EXCEPT ![workers[w].run] = @ + (IF f THEN 1 ELSE 0)],
           UNCHANGED <<now, subject, untold, steps, jobs, payers>>
    PROVE  TypeOK' /\ IInv'
<1> USE InvestigationsAssumption DEF InvestigationsAssumption
<1> DEFINE r == workers[w].run
           began == IF end = "skipped" THEN NoTime
                    ELSE IF runs[r].startedAt = NoTime THEN now ELSE runs[r].startedAt
<1>1. r \in Runs /\ runs[r] \in Run /\ now \in Nat /\ RunFits(r)
  BY HasRun DEF TypeOK, IInv, RunsFit
<1>2. began \in Int /\ (end # "skipped" => began \in 0..now)
  <2>1. r \in Begun \/ runs[r].startedAt = NoTime
    BY <1>1 DEF Begun, Requested, RunFits
  <2>2. QED
    BY <1>1, <2>1 DEF RunFits, Run, NoTime
<1>3. runs' = [runs EXCEPT ![r].status = end, ![r].finding = f, ![r].startedAt = began]
  BY <1>1 DEF Close, TypeOK
<1>4. r \in Begun => (end # "skipped" => began = runs[r].startedAt)
  BY <1>1 DEF RunFits, NoTime
<1> HIDE DEF began
<1>5. /\ \A q \in Runs : q # r => runs'[q] = runs[q]
      /\ runs'[r].status = end /\ runs'[r].startedAt = began /\ runs'[r].finding = f
      /\ runs'[r].followUp = runs[r].followUp /\ runs'[r].notBefore = runs[r].notBefore
      /\ runs' \in [Runs -> Run]
  BY <1>1, <1>2, <1>3 DEF TypeOK, Run, Statuses
<1>6. /\ published[r] = 0
      /\ published' \in [Runs -> Nat] /\ published'[r] = (IF f THEN 1 ELSE 0)
      /\ \A q \in Runs : q # r => published'[q] = published[q]
  <2>1. ~runs[r].finding
    BY <1>1 DEF IInv, FindingsPublishedOnce
  <2>2. published[r] = 0
    BY <1>1, <2>1 DEF IInv, FindingsPublishedOnce
  <2>3. QED
    BY <1>1, <2>2 DEF TypeOK
<1>7. workers' \in [Workers -> Worker] /\ workers'[w] = Idle
      /\ \A v \in Workers : v # w => workers'[v] = workers[v]
  BY IdleFits, MoveTyped DEF Become, TypeOK
<1>8. TypeOK'
  BY <1>5, <1>6, <1>7 DEF TypeOK
<1>9. /\ Requested' = Requested /\ Queued' \subseteq Queued \ {r}
      /\ Running' \subseteq Running
      /\ Begun' = IF end = "skipped" THEN Begun \ {r} ELSE Begun \cup {r}
  BY <1>1, <1>5 DEF Requested, Queued, Running, Begun, Ended
<1> HIDE DEF r
<1>10. Numbered'
  BY <1>9 DEF IInv, Numbered
<1>11. WorkersFit'
  <2> SUFFICES ASSUME NEW v \in Workers, v # w PROVE WorkerFits(v)'
    BY IdleWorkerFits DEF WorkersFit
  <2>1. workers'[v] = workers[v] /\ WorkerFits(v) /\ workers[v] \in Worker
    BY <1>7 DEF IInv, WorkersFit, TypeOK
  <2>2. workers[v].pc # "idle" => workers[v].run \in Runs
    BY <2>1 DEF Worker, WorkerFits
  <2>3. end \notin {"none", "queued"}
    BY DEF Ended
  <2>4. QED
    BY <1>5, <2>1, <2>2, <2>3 DEF WorkerFits
<1>12. DeliveriesCounted'
  <2> SUFFICES ASSUME NEW q \in Runs PROVE Cardinality(Busy(q))' <= jobs[q].used
    BY DEF DeliveriesCounted
  <2>1. Cardinality(Busy(q)) \in Nat /\ jobs[q].used \in Nat
        /\ Cardinality(Busy(q)) <= jobs[q].used
    BY Finite DEF TypeOK, IInv, DeliveriesCounted
  <2>2. QED
    BY <1>1, <2>1, LeaveCounts DEF r
<1>13. OneOwner'
  BY <1>7, IdleFits DEF IInv, OneOwner
<1>14. RunsFit'
  <2> SUFFICES ASSUME NEW q \in Runs PROVE RunFits(q)'
    BY DEF RunsFit
  <2>1. RunFits(q)
    BY DEF IInv, RunsFit
  <2>2. CASE q = r
    <3>1. q \in Begun' => end # "skipped"
      BY <1>9, <2>2
    <3>2. end \notin {"none", "queued"}
      BY DEF Ended
    <3>3. QED
      BY <1>2, <1>5, <2>1, <2>2, <3>1, <3>2 DEF RunFits
  <2>3. CASE q # r
    <3>1. q \in Begun' => q \in Begun
      BY <1>9, <2>3
    <3>2. QED
      BY <1>5, <2>1, <2>3, <3>1 DEF RunFits
  <2>4. QED
    BY <2>2, <2>3
<1>15. OneWaits'
  <2>1. \A q \in Queued' : q \in Queued /\ q \in Runs /\ runs'[q] = runs[q]
    BY <1>5, <1>9 DEF Queued
  <2>2. QED
    BY <2>1 DEF IInv, OneWaits, FollowUp
<1>16. ASSUME NEW q \in Begun', q # r
       PROVE  q \in Begun /\ q \in Runs /\ runs'[q] = runs[q]
  BY <1>5, <1>9, <1>16 DEF Begun, Requested
<1>17. WaitsItOut'
  <2> SUFFICES ASSUME NEW p \in Queued', NEW q \in Begun', FollowUp(q)', FollowUp(p)'
               PROVE  \/ runs'[q].startedAt + Interval <= now'
                      \/ runs'[q].startedAt + Interval <= runs'[p].notBefore
    BY DEF WaitsItOut
  <2>1. p \in Queued /\ p # r /\ p \in Runs /\ runs'[p] = runs[p] /\ FollowUp(p)
    BY <1>5, <1>9 DEF Queued, FollowUp
  <2>2. CASE q # r
    BY <1>16, <2>1, <2>2 DEF IInv, WaitsItOut, FollowUp
  <2>3. CASE q = r
    <3>1. FollowUp(r) /\ end # "skipped"
      BY <1>5, <1>9, <2>3 DEF FollowUp
    <3>2. r \notin Queued
      BY <2>1, <3>1 DEF IInv, OneWaits
    <3>3. r \in Begun
      BY <1>1, <3>2 DEF Queued, Begun, Requested, r
    <3>4. runs'[r].startedAt = runs[r].startedAt
      BY <1>4, <1>5, <3>1, <3>3
    <3>5. QED
      BY <2>1, <2>3, <3>1, <3>3, <3>4 DEF IInv, WaitsItOut
  <2>4. QED
    BY <2>2, <2>3
<1>18. StartedApart'
  <2> SUFFICES ASSUME NEW p \in Begun', NEW q \in Begun', FollowUp(q)', FollowUp(p)',
                      Owned(p)', Owned(q)', p # q
               PROVE  Apart(p, q)'
    BY DEF StartedApart
  <2>1. ASSUME NEW b \in Begun', FollowUp(b)', Owned(b)'
        PROVE  /\ b \in Begun /\ b \in Runs /\ FollowUp(b) /\ Owned(b)
               /\ runs'[b].startedAt = runs[b].startedAt
    <3>1. b \in Runs
      BY <1>16, <1>1
    <3>2. Owned(b)
      BY <1>7, <2>1, IdleFits DEF Owned
    <3>3. CASE b # r
      BY <1>16, <2>1, <3>2, <3>3 DEF FollowUp
    <3>4. CASE b = r
      <4>1. end # "skipped" /\ FollowUp(r)
        BY <1>5, <1>9, <2>1, <3>4 DEF FollowUp
      <4>2. r \notin Queued
        <5> SUFFICES ASSUME r \in Queued PROVE FALSE
          OBVIOUS
        <5>1. payers[r] = 0
          BY <1>1 DEF Queued, RunFits
        <5>2. \E v \in Workers : workers[v].pc = "loop" /\ workers[v].run = r
          BY <3>2, <3>4, <5>1 DEF Owned
        <5>3. QED
          BY <5>2 DEF IInv, WorkersFit, WorkerFits, Queued
      <4>3. r \in Begun
        BY <1>1, <4>2 DEF Queued, Begun, Requested, r
      <4>4. QED
        BY <1>1, <1>4, <1>5, <3>2, <3>4, <4>1, <4>3
    <3>5. QED
      BY <3>3, <3>4
  <2>2. Apart(p, q)
    BY <2>1 DEF IInv, StartedApart
  <2>3. QED
    BY <2>1, <2>2 DEF Apart
<1>19. WithinConcurrency'
  <2>1. Running' \in SUBSET Running
    BY <1>9
  <2>2. Cardinality(Running') <= Cardinality(Running) /\ Cardinality(Running') \in Nat
    BY <2>1, Finite, FS_Subset, FS_CardinalityType
  <2>3. QED
    BY <2>2, Finite DEF IInv, WithinConcurrency
<1>20. FindingsPublishedOnce'
  BY <1>5, <1>6 DEF IInv, FindingsPublishedOnce
<1>21. QED
  BY <1>8, <1>10, <1>11, <1>12, <1>13, <1>14, <1>15, <1>17, <1>18, <1>19, <1>20 DEF IInv

LEMMA StepFinish ==
    ASSUME TypeOK, IInv, NEW w \in Workers, finish(w)
    PROVE  TypeOK' /\ IInv'
<1>1. /\ workers[w].end \in Ended /\ workers[w].finding \in BOOLEAN
      /\ workers[w].finding => workers[w].end \in {"completed", "exhausted"}
  BY DEF TypeOK, Worker, IInv, WorkersFit, WorkerFits
<1>2. QED
  BY <1>1, CloseKeeps DEF finish, MyRun

LEMMA StepAbandon ==
    ASSUME TypeOK, IInv, NEW w \in Workers, abandonOnGivingUp(w)
    PROVE  TypeOK' /\ IInv'
<1> DEFINE r == workers[w].run
<1>1. workers[w].pc # "idle" /\ Become(w, Idle) /\ r \in Runs
      /\ UNCHANGED <<now, subject, untold, steps, published, payers>>
  BY HasRun DEF abandonOnGivingUp, jobFails
<1>2. CASE UNCHANGED runs /\ \E ready \in BOOLEAN, lost \in BOOLEAN :
              \/ jobs' = jobs
              \/ jobs' = [jobs EXCEPT ![r].ready = ready]
              \/ jobs' = [jobs EXCEPT ![r].lost = lost]
  <2>1. /\ jobs' \in [Runs -> [ready : BOOLEAN, used : Nat, lost : BOOLEAN]]
        /\ \A q \in Runs : jobs'[q].used >= jobs[q].used - (IF q = r THEN 1 ELSE 0)
    <3>1. ASSUME jobs' = jobs
          PROVE  /\ jobs' \in [Runs -> [ready : BOOLEAN, used : Nat, lost : BOOLEAN]]
                 /\ \A q \in Runs : jobs'[q].used = jobs[q].used
      BY <3>1 DEF TypeOK
    <3>2. ASSUME NEW ready \in BOOLEAN, jobs' = [jobs EXCEPT ![r].ready = ready]
          PROVE  /\ jobs' \in [Runs -> [ready : BOOLEAN, used : Nat, lost : BOOLEAN]]
                 /\ \A q \in Runs : jobs'[q].used = jobs[q].used
      BY <1>1, <3>2 DEF TypeOK
    <3>3. ASSUME NEW lost \in BOOLEAN, jobs' = [jobs EXCEPT ![r].lost = lost]
          PROVE  /\ jobs' \in [Runs -> [ready : BOOLEAN, used : Nat, lost : BOOLEAN]]
                 /\ \A q \in Runs : jobs'[q].used = jobs[q].used
      BY <1>1, <3>3 DEF TypeOK
    <3>4. /\ jobs' \in [Runs -> [ready : BOOLEAN, used : Nat, lost : BOOLEAN]]
          /\ \A q \in Runs : jobs'[q].used = jobs[q].used
      BY <1>2, <3>1, <3>2, <3>3
    <3>5. \A q \in Runs : jobs[q].used \in Nat
      BY DEF TypeOK
    <3>6. QED
      BY <3>4, <3>5
  <2>2. QED
    BY <1>1, <1>2, <2>1, WorkerLeaves
<1>3. CASE jobs' = jobs /\ runs[r].status \notin Ended /\ Close(r, "failed", FALSE)
  <2>1. runs[r].status \in {"queued", "running"}
    BY <1>1, <1>3 DEF TypeOK, Run, Statuses, IInv, WorkersFit, WorkerFits
  <2>2. published' = [published EXCEPT ![r] = @ + (IF FALSE THEN 1 ELSE 0)]
    BY <1>1 DEF TypeOK
  <2>3. "failed" \in Ended
    BY DEF Ended
  <2>4. QED
    BY <1>1, <1>3, <2>1, <2>2, <2>3, CloseKeeps
<1>4. QED
  BY <1>2, <1>3 DEF abandonOnGivingUp

\* A new row disturbs nobody: it has a number of its own, and no worker.
LEMMA StepRequested ==
    ASSUME TypeOK, IInv, NEW trigger, NEW r \in Runs, NEW rec \in Run,
           Requests(trigger, r, rec),
           UNCHANGED <<now, steps, published, workers, payers>>,
           subject' \in 0..MaxChanges, untold' \in BOOLEAN
    PROVE  TypeOK' /\ IInv'
<1> USE InvestigationsAssumption DEF InvestigationsAssumption
<1>1. /\ runs' = [runs EXCEPT ![r] = rec] /\ runs[r].status = "none"
      /\ rec.status \in {"queued", "skipped"} /\ rec.startedAt = NoTime /\ ~rec.finding
  BY DEF Requests
<1>2. runs' \in [Runs -> Run] /\ runs'[r] = rec /\ \A q \in Runs : q # r => runs'[q] = runs[q]
  BY <1>1 DEF TypeOK
<1>3. /\ jobs' \in [Runs -> [ready : BOOLEAN, used : Nat, lost : BOOLEAN]]
      /\ \A q \in Runs : jobs'[q].used = jobs[q].used
  <2>1. CASE jobs' = jobs
    BY <2>1 DEF TypeOK
  <2>2. CASE jobs' = [jobs EXCEPT ![r].ready = TRUE]
    BY <2>2 DEF TypeOK
  <2>3. QED
    BY <2>1, <2>2 DEF Requests
<1>4. TypeOK'
  BY <1>2, <1>3 DEF TypeOK
<1>5. /\ Requested' = Requested \cup {r} /\ Running' = Running /\ Begun' = Begun
      /\ Queued' = IF rec.status = "queued" THEN Queued \cup {r} ELSE Queued
      /\ r \notin Begun /\ r \notin Queued
  BY <1>1, <1>2 DEF Requested, Running, Begun, Queued
<1>6. Numbered'
  <2>1. Requested = 1..(r - 1) /\ r \in 1..MaxRuns
    BY DEF Requests, Runs
  <2>2. Requested' = 1..r
    BY <1>5, <2>1
  <2>3. QED
    BY <2>1, <2>2 DEF Numbered
<1>7. WorkersFit'
  <2> SUFFICES ASSUME NEW v \in Workers PROVE WorkerFits(v)'
    BY DEF WorkersFit
  <2>1. WorkerFits(v) /\ workers[v] \in Worker
    BY DEF IInv, WorkersFit, TypeOK
  <2>2. workers[v].pc # "idle" => workers[v].run \in Runs /\ workers[v].run # r
    BY <1>1, <2>1 DEF WorkerFits, Worker
  <2>3. QED
    BY <1>2, <2>1, <2>2 DEF WorkerFits
<1>8. DeliveriesCounted' /\ OneOwner'
  BY <1>3 DEF IInv, DeliveriesCounted, OneOwner, Busy
<1>9. RunsFit'
  <2> SUFFICES ASSUME NEW q \in Runs PROVE RunFits(q)'
    BY DEF RunsFit
  <2>1. RunFits(q)
    BY DEF IInv, RunsFit
  <2>2. QED
    BY <1>1, <1>2, <1>5, <2>1 DEF RunFits
<1>10. OneWaits'
  <2>1. \A q \in Queued : q # r /\ runs'[q] = runs[q]
    BY <1>2, <1>5 DEF Queued
  <2>2. FollowUp(r)' /\ rec.status = "queued" => Queued = {}
    BY <1>2 DEF Requests, FollowUp
  <2>3. QED
    BY <1>5, <2>1, <2>2 DEF IInv, OneWaits, FollowUp
<1>11. \A q \in Begun : q # r /\ runs'[q] = runs[q]
  BY <1>2, <1>5 DEF Begun, Requested
<1>12. WaitsItOut'
  <2>1. \A q \in Queued : q # r /\ runs'[q] = runs[q]
    BY <1>2, <1>5 DEF Queued
  <2>2. FollowUp(r)' /\ rec.status = "queued" =>
           \A q \in Begun : \/ runs[q].startedAt + Interval <= now
                            \/ runs[q].startedAt + Interval <= rec.notBefore
    BY <1>2 DEF Requests, FollowUp, Anchor
  <2>3. QED
    BY <1>2, <1>5, <1>11, <2>1, <2>2 DEF IInv, WaitsItOut, FollowUp
<1>13. StartedApart'
  BY <1>5, <1>11 DEF IInv, StartedApart, FollowUp, Owned, Apart
<1>14. WithinConcurrency'
  BY <1>5 DEF IInv, WithinConcurrency
<1>15. FindingsPublishedOnce'
  BY <1>1, <1>2 DEF IInv, FindingsPublishedOnce
<1>16. QED
  BY <1>4, <1>6, <1>7, <1>8, <1>9, <1>10, <1>12, <1>13, <1>14, <1>15 DEF IInv

LEMMA StepUnrequested ==
    ASSUME TypeOK, IInv, UNCHANGED <<now, steps, published, workers, payers, runs, jobs>>,
           subject' \in 0..MaxChanges, untold' \in BOOLEAN
    PROVE  TypeOK' /\ IInv'
<1>1. TypeOK'
  BY DEF TypeOK
<1>2. DeliveriesCounted'
  BY DEF IInv, DeliveriesCounted, Busy
<1>3. QED
  BY <1>1, <1>2, SameRuns, SameWork DEF IInv, RunsPart, WorkPart

LEMMA StepRequest ==
    ASSUME TypeOK, IInv, NEW t \in Triggers, Request(t)
    PROVE  TypeOK' /\ IInv'
<1> USE InvestigationsAssumption DEF InvestigationsAssumption
<1>1. PICK on \in BOOLEAN : request(t, on)
  BY DEF Request, Switch
<1>2. /\ t \in {"human", "drawn", "membership"} /\ t # "membership"
      /\ UNCHANGED <<now, steps, published, workers, payers>>
      /\ subject' \in 0..MaxChanges /\ untold' \in BOOLEAN
  BY DEF Request, TypeOK
<1>3. QED
  BY <1>1, <1>2, RequestShape, StepRequested, StepUnrequested

LEMMA StepIncident ==
    ASSUME TypeOK, IInv, IncidentChanged
    PROVE  TypeOK' /\ IInv'
<1>1. PICK on \in BOOLEAN, still \in BOOLEAN :
        IF on THEN request("membership", still) ELSE UNCHANGED <<runs, jobs>>
  BY DEF IncidentChanged, Switch
<1>2. /\ UNCHANGED <<now, steps, published, workers, payers>>
      /\ subject' \in 0..MaxChanges /\ untold' \in BOOLEAN
  BY DEF IncidentChanged, TypeOK
<1>3. CASE on
  BY <1>1, <1>2, <1>3, RequestShape, StepRequested, StepUnrequested
<1>4. CASE ~on
  BY <1>1, <1>2, <1>4, StepUnrequested
<1>5. QED
  BY <1>3, <1>4

(***************************************************************************)
(* Theorems.                                                               *)
(***************************************************************************)
LEMMA InitHolds == Init => TypeOK /\ IInv
<1> SUFFICES ASSUME Init PROVE TypeOK /\ IInv
  OBVIOUS
<1> USE InvestigationsAssumption DEF InvestigationsAssumption
<1>1. NoRun \in Run /\ NoRun.status = "none" /\ NoRun.startedAt = NoTime /\ ~NoRun.finding
  BY DEF NoRun, Run, Statuses, NoTime
<1>2. TypeOK
  <2>1. runs \in [Runs -> Run] /\ workers \in [Workers -> Worker]
    BY <1>1, IdleFits DEF Init
  <2>2. jobs \in [Runs -> [ready : BOOLEAN, used : Nat, lost : BOOLEAN]]
    BY DEF Init
  <2>3. /\ steps \in [Runs -> Nat] /\ published \in [Runs -> Nat] /\ payers \in [Runs -> Nat]
        /\ now \in 0..MaxTime /\ subject \in 0..MaxChanges
    BY DEF Init
  <2>4. untold \in BOOLEAN
    BY DEF Init
  <2>5. QED
    BY <2>1, <2>2, <2>3, <2>4 DEF TypeOK
<1>3. \A r \in Runs : runs[r] = NoRun /\ payers[r] = 0 /\ published[r] = 0 /\ jobs[r].used = 0
  BY DEF Init
<1>4. \A w \in Workers : workers[w] = Idle
  BY DEF Init
<1>5. Requested = {} /\ Queued = {} /\ Running = {} /\ Begun = {}
  BY <1>1, <1>3 DEF Requested, Queued, Running, Begun
<1>6. Numbered
  <2>1. Requested = 1..0 /\ 0 \in 0..MaxRuns
    BY <1>5
  <2>2. QED
    BY <2>1 DEF Numbered
<1>7. WorkersFit /\ OneOwner
  BY <1>4, IdleFits DEF WorkersFit, WorkerFits, OneOwner
<1>8. DeliveriesCounted
  <2>1. \A r \in Runs : Busy(r) = {}
    BY <1>4, IdleFits DEF Busy, Runs
  <2>2. QED
    <3>1. \A r \in Runs : Cardinality(Busy(r)) = 0
      BY <2>1, FS_EmptySet
    <3>2. QED
      BY <1>3, <3>1 DEF DeliveriesCounted
<1>9. RunsFit
  BY <1>1, <1>3, <1>5 DEF RunsFit, RunFits
<1>10. OneWaits /\ WaitsItOut /\ StartedApart
  BY <1>5 DEF OneWaits, WaitsItOut, StartedApart
<1>11. WithinConcurrency
  BY <1>5, FS_EmptySet DEF WithinConcurrency
<1>12. FindingsPublishedOnce
  BY <1>1, <1>3 DEF FindingsPublishedOnce
<1>13. QED
  BY <1>2, <1>6, <1>7, <1>8, <1>9, <1>10, <1>11, <1>12 DEF IInv

LEMMA StepHolds == TypeOK /\ IInv /\ [Next]_vars => TypeOK' /\ IInv'
<1> SUFFICES ASSUME TypeOK, IInv, [Next]_vars PROVE TypeOK' /\ IInv'
  OBVIOUS
<1>1. CASE \E t \in Triggers : Request(t)
  BY <1>1, StepRequest
<1>2. CASE MembershipChanges
  BY <1>2, StepMembership
<1>3. CASE IncidentChanged
  BY <1>3, StepIncident
<1>4. CASE Tick
  BY <1>4, StepTick
<1>5. CASE \E w \in Workers, r \in Runs : RunInvestigation(w, r)
  BY <1>5, StepDeliver
<1>6. CASE \E w \in Workers : WorkerStep(w)
  BY <1>6, StepRead, StepStart, StepStartRefused, StepLoop, StepFinish, StepAbandon
     DEF WorkerStep
<1>7. CASE \E w \in Workers : Crash(w)
  BY <1>7, StepCrash
<1>8. CASE \E r \in Runs : RescueStuckJob(r)
  BY <1>8, StepRescue
<1>9. CASE UNCHANGED vars
  <2>1. UNCHANGED <<now, steps, published, workers, payers, runs, jobs>>
        /\ subject' \in 0..MaxChanges /\ untold' \in BOOLEAN
    BY <1>9 DEF vars, TypeOK
  <2>2. QED
    BY <2>1, StepUnrequested
<1>10. QED
  BY <1>1, <1>2, <1>3, <1>4, <1>5, <1>6, <1>7, <1>8, <1>9 DEF Next

LEMMA InvariantHolds == Spec => [](TypeOK /\ IInv)
BY InitHolds, StepHolds, PTL DEF Spec

\* Rows, jobs and workers keep their shape; a snoozed delivery is only taken back
\* where it was counted, however many workers a rescue put on one run.
THEOREM InvestigationsTypeCorrect == Spec => []TypeOK
BY InvariantHolds, PTL

\* Start's count under the org's lock keeps the org within its concurrency, for any
\* number of workers, runs and slots.
THEOREM SlotsAreKept == Spec => []WithinConcurrency
<1>1. IInv => WithinConcurrency
  BY DEF IInv
<1>2. QED
  BY <1>1, InvariantHolds, PTL

\* One delivery per run calls the model, whatever River redelivers or rescues.
THEOREM TurnsArePaidOnce == Spec => []PaidOnce
<1>1. IInv => PaidOnce
  BY DEF IInv, RunsFit, RunFits, PaidOnce
<1>2. QED
  BY <1>1, InvariantHolds, PTL

\* A Finding is published once, by the worker whose ending the run took.
THEOREM FindingsAreExact == Spec => []FindingsPublishedOnce
<1>1. IInv => FindingsPublishedOnce
  BY DEF IInv
<1>2. QED
  BY <1>1, InvariantHolds, PTL

\* The follow-ups that churn paid for begin an interval apart, for every interval.
THEOREM FollowUpsAreSpaced == Spec => []FollowUpsSpaced
<1>1. TypeOK /\ IInv => FollowUpsSpaced
  BY DEF TypeOK, IInv, StartedApart, FollowUpsSpaced, Owned, Apart, FollowUp
<1>2. QED
  BY <1>1, InvariantHolds, PTL
=============================================================================
