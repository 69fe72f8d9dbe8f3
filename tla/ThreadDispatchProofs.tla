------------------------ MODULE ThreadDispatchProofs ------------------------
(***************************************************************************)
(* Theorems about ThreadDispatch, for every set of workers, every length   *)
(* of the queue and every lease, backoff and budget.                       *)
(***************************************************************************)
EXTENDS ThreadDispatch, FiniteSetTheorems, WellFoundedInduction, TLAPS

(***************************************************************************)
(* The rows.                                                               *)
(***************************************************************************)
\* What every transaction keeps of the rows it works on: the numbers below
\* next_seq are taken, the head is one of them, only they have jobs, and a digest
\* thread has no delivery that would amend a card.
DbFit(d) ==
    /\ d \in DB
    /\ d.thread.next \in 1..(MaxSeq + 1) /\ d.thread.last < d.thread.next
    /\ \A k \in Slots : d.rows[k].status = "none" <=> k >= d.thread.next
    /\ \A k \in Slots : d.jobs[k] > 0 => k < d.thread.next
    /\ d.thread.digest => \A k \in Slots : d.rows[k].mode # "update_root"

\* A change of the thread that leaves its number, its head and its kind in order.
ThreadMoves(t, u) ==
    /\ u \in Thread /\ u.digest = t.digest /\ u.next = t.next
    /\ t.last <= u.last /\ u.last < u.next

\* A change of one delivery's row that keeps it a row of its thread.
RowMoves(d, r) ==
    /\ r \in Delivery /\ r.status # "none"
    /\ d.thread.digest => r.mode # "update_root"

LEMMA DBTyped ==
    ASSUME NEW d \in DB
    PROVE  /\ d.thread \in Thread /\ d.rows \in [Slots -> Delivery]
           /\ d.notes \in [Notes -> [reason : Reasons, status : Aggregates]]
           /\ d.jobs \in [Slots -> 0..2]
           /\ d = [thread |-> d.thread, rows |-> d.rows, notes |-> d.notes, jobs |-> d.jobs]
BY DEF DB

LEMMA ThreadTyped ==
    ASSUME NEW t \in Thread
    PROVE  /\ t.digest \in BOOLEAN /\ t.state \in {"opening", "open", "dead"}
           /\ t.reason \in {"none", "pointer", "gone"} /\ t.root \in Nat /\ t.conv \in BOOLEAN
           /\ t.replies \in Nat /\ t.last \in Nat /\ t.next \in Nat
BY DEF Thread

\* One row, the thread and the queue change together.
LEMMA RowStep ==
    ASSUME NEW d, DbFit(d), NEW k \in Slots, k < d.thread.next,
           NEW e \in DB, ThreadMoves(d.thread, e.thread),
           NEW r, RowMoves(d, r), e.rows = [d.rows EXCEPT ![k] = r],
           \A j \in Slots : e.jobs[j] > 0 => d.jobs[j] > 0 \/ j = k
    PROVE  DbFit(e)
<1>1. /\ e.rows[k] = r
      /\ \A j \in Slots : j # k => e.rows[j] = d.rows[j]
  BY DBTyped DEF DbFit
<1>2. e.thread.next = d.thread.next /\ e.thread.last < e.thread.next
      /\ e.thread.digest = d.thread.digest
  BY DEF ThreadMoves
<1>3. \A j \in Slots : e.rows[j].status = "none" <=> j >= e.thread.next
  BY <1>1, <1>2, ThreadTyped, DBTyped DEF DbFit, RowMoves, Slots
<1>4. \A j \in Slots : e.jobs[j] > 0 => j < e.thread.next
  BY <1>2 DEF DbFit
<1>5. e.thread.digest => \A j \in Slots : e.rows[j].mode # "update_root"
  BY <1>1, <1>2 DEF DbFit, RowMoves
<1>6. QED
  BY <1>2, <1>3, <1>4, <1>5 DEF DbFit

LEMMA EnqueueFits ==
    ASSUME NEW d, DbFit(d), NEW k \in Slots, k < d.thread.next
    PROVE  /\ DbFit(Enqueue(d, k))
           /\ Enqueue(d, k).thread = d.thread /\ Enqueue(d, k).rows = d.rows
<1> DEFINE x == IF d.jobs[k] = 2 THEN 2 ELSE d.jobs[k] + 1
           e == [thread |-> d.thread, rows |-> d.rows, notes |-> d.notes,
                 jobs |-> [d.jobs EXCEPT ![k] = x]]
<1>1. x \in 0..2
  BY DBTyped DEF DbFit
<1>2. Enqueue(d, k) = e
  BY DBTyped DEF DbFit, Enqueue
<1>3. e \in DB
  BY <1>1, DBTyped DEF DbFit, DB
<1>4. \A j \in Slots : e.jobs[j] > 0 => j < e.thread.next
  BY DBTyped DEF DbFit
<1>5. e.thread = d.thread /\ e.rows = d.rows
  OBVIOUS
<1> HIDE DEF e
<1>6. QED
  BY <1>2, <1>3, <1>4, <1>5 DEF DbFit

LEMMA DoneFits ==
    ASSUME NEW d, DbFit(d), NEW k \in Slots, d.jobs[k] > 0
    PROVE  /\ DbFit(Done(d, k))
           /\ Done(d, k).thread = d.thread /\ Done(d, k).rows = d.rows
<1> DEFINE x == d.jobs[k] - 1
           e == [thread |-> d.thread, rows |-> d.rows, notes |-> d.notes,
                 jobs |-> [d.jobs EXCEPT ![k] = x]]
<1>1. x \in 0..2
  BY DBTyped DEF DbFit
<1>2. Done(d, k) = e
  BY DBTyped DEF DbFit, Done
<1>3. e \in DB
  BY <1>1, DBTyped DEF DbFit, DB
<1>4. \A j \in Slots : e.jobs[j] > 0 => j < e.thread.next
  BY DBTyped DEF DbFit
<1>5. e.thread = d.thread /\ e.rows = d.rows
  OBVIOUS
<1> HIDE DEF e
<1>6. QED
  BY <1>2, <1>3, <1>4, <1>5 DEF DbFit

\* settle only writes the notification.
LEMMA settleFits ==
    ASSUME NEW d, DbFit(d), NEW k
    PROVE  /\ DbFit(settle(d, k))
           /\ settle(d, k).thread = d.thread /\ settle(d, k).rows = d.rows
           /\ settle(d, k).jobs = d.jobs
<1> DEFINE n == d.rows[k].note
           s == AggregateStatus(StatusesFor(d, n))
           m == [d.notes EXCEPT ![n].status = s]
           e == [thread |-> d.thread, rows |-> d.rows, notes |-> m, jobs |-> d.jobs]
<1>1. s \in Aggregates
  BY DEF AggregateStatus, Aggregates
<1>2. m \in [Notes -> [reason : Reasons, status : Aggregates]]
  <2> HIDE DEF s, n
  <2>1. d.notes \in [Notes -> [reason : Reasons, status : Aggregates]]
    BY DBTyped DEF DbFit
  <2>2. CASE n \in Notes
    <3>1. [d.notes[n] EXCEPT !.status = s] \in [reason : Reasons, status : Aggregates]
      BY <1>1, <2>1, <2>2
    <3>2. QED
      BY <2>1, <3>1
  <2>3. CASE n \notin Notes
    BY <2>1, <2>3
  <2>4. QED
    BY <2>2, <2>3
<1>3. settle(d, k) = e
  BY DBTyped DEF DbFit, settle
<1>4. e \in DB
  <2> HIDE DEF m
  <2>1. QED
    BY <1>2, DBTyped DEF DbFit, DB
<1>5. e.thread = d.thread /\ e.rows = d.rows /\ e.jobs = d.jobs
  OBVIOUS
<1> HIDE DEF e
<1>6. QED
  BY <1>3, <1>4, <1>5 DEF DbFit

\* The head moves up to a delivery that is queued, and never back.
LEMMA AdvanceSentFits ==
    ASSUME NEW d, DbFit(d), NEW k \in Slots
    PROVE  /\ ThreadMoves(d.thread, AdvanceSent(d, k).thread)
           /\ AdvanceSent(d, k).thread.last =
                IF k < d.thread.next /\ k > d.thread.last THEN k ELSE d.thread.last
           /\ \A f \in {"state", "reason", "root"} :
                AdvanceSent(d, k).thread[f] = d.thread[f]
           /\ AdvanceSent(d, k) \in DB
           /\ AdvanceSent(d, k).rows = d.rows /\ AdvanceSent(d, k).jobs = d.jobs
<1> DEFINE x == IF k < d.thread.next /\ k > d.thread.last THEN k ELSE d.thread.last
           t == [d.thread EXCEPT !.last = x]
           e == [thread |-> t, rows |-> d.rows, notes |-> d.notes, jobs |-> d.jobs]
<1>1. d.thread \in Thread /\ d.thread.last \in Nat /\ d.thread.next \in Nat
  BY DBTyped, ThreadTyped DEF DbFit
<1>2. (IF k < d.thread.next THEN Max2(d.thread.last, k) ELSE d.thread.last) = x
  BY <1>1 DEF Max2, Slots
<1>3. x \in Nat /\ d.thread.last <= x /\ x < d.thread.next
  BY <1>1 DEF Slots, DbFit
<1>4. AdvanceSent(d, k) = e
  <2> HIDE DEF x
  <2>1. QED
    BY <1>2, DBTyped DEF DbFit, AdvanceSent
<1>5. /\ t \in Thread /\ t.last = x /\ t.digest = d.thread.digest /\ t.next = d.thread.next
      /\ \A f \in {"state", "reason", "root"} : t[f] = d.thread[f]
  <2> HIDE DEF x
  <2>1. QED
    BY <1>1, <1>3 DEF Thread
<1>6. e \in DB
  <2> HIDE DEF t
  <2>1. QED
    BY <1>5, DBTyped DEF DbFit, DB
<1> HIDE DEF t, x
<1>7. e.thread = t /\ e.rows = d.rows /\ e.jobs = d.jobs
  OBVIOUS
<1> HIDE DEF e
<1>8. QED
  BY <1>3, <1>4, <1>5, <1>6, <1>7 DEF ThreadMoves, x

LEMMA AdvanceSentKeepsFit ==
    ASSUME NEW d, DbFit(d), NEW k \in Slots
    PROVE  DbFit(AdvanceSent(d, k))
<1> DEFINE e == AdvanceSent(d, k)
<1>1. /\ e \in DB /\ e.rows = d.rows /\ e.jobs = d.jobs
      /\ ThreadMoves(d.thread, e.thread)
  BY AdvanceSentFits
<1> HIDE DEF e
<1>2. DbFit(e)
  BY <1>1 DEF DbFit, ThreadMoves
<1>3. QED
  BY <1>2 DEF e

LEMMA DeliveryTyped ==
    ASSUME NEW r \in Delivery
    PROVE  /\ r.status \in Statuses /\ r.note \in 0..MaxNotes /\ r.mode \in Modes
           /\ r.attempts \in Nat /\ r.ambiguous \in BOOLEAN /\ r.createdAt \in Int
           /\ r.claimedAt \in Int /\ r.nextAt \in Int /\ r.hash \in Contents \cup {"none"}
           /\ r.sentNo \in Nat
BY DEF Delivery

\* The fields that say where a delivery stands.
Stands(r, s, x, y) == [r EXCEPT !.status = s, !.nextAt = x, !.claimedAt = y]

LEMMA StandsFits ==
    ASSUME NEW r \in Delivery, NEW s \in Statuses, NEW x \in Int, NEW y \in Int
    PROVE  /\ Stands(r, s, x, y) \in Delivery /\ Stands(r, s, x, y).status = s
           /\ Stands(r, s, x, y).claimedAt = y /\ Stands(r, s, x, y).mode = r.mode
BY DEF Stands, Delivery

LEMMA RowTyped ==
    ASSUME NEW d, DbFit(d), NEW k \in Slots
    PROVE  /\ d.rows[k] \in Delivery
           /\ k < d.thread.next => RowMoves(d, d.rows[k])
<1>1. d.rows[k] \in Delivery
  BY DBTyped DEF DbFit
<1>2. d.thread.next \in Nat /\ k \in Nat
  BY DBTyped, ThreadTyped DEF DbFit, Slots
<1>3. QED
  BY <1>1, <1>2 DEF DbFit, RowMoves

LEMMA SetRow ==
    ASSUME NEW d, DbFit(d), NEW k \in Slots, k < d.thread.next, NEW r, RowMoves(d, r)
    PROVE  /\ DbFit([d EXCEPT !.rows[k] = r])
           /\ [d EXCEPT !.rows[k] = r].rows = [d.rows EXCEPT ![k] = r]
           /\ [d EXCEPT !.rows[k] = r].thread = d.thread
           /\ [d EXCEPT !.rows[k] = r].jobs = d.jobs
<1> DEFINE e == [thread |-> d.thread, rows |-> [d.rows EXCEPT ![k] = r],
                 notes |-> d.notes, jobs |-> d.jobs]
<1>1. [d EXCEPT !.rows[k] = r] = e
  BY DBTyped DEF DbFit
<1>2. e \in DB
  BY DBTyped DEF DbFit, DB, RowMoves
<1>3. e.thread = d.thread /\ e.rows = [d.rows EXCEPT ![k] = r] /\ e.jobs = d.jobs
  OBVIOUS
<1>4. ThreadMoves(d.thread, d.thread)
  BY DBTyped, ThreadTyped DEF DbFit, ThreadMoves
<1> HIDE DEF e
<1>5. DbFit(e)
  BY <1>2, <1>3, <1>4, RowStep
<1>6. QED
  BY <1>1, <1>3, <1>5

\* What giving a delivery up does to the rows and to the head.
LEMMA GiveUpFits ==
    ASSUME NEW d, DbFit(d), NEW k \in Slots, k < d.thread.next,
           NEW status \in {"dead", "skipped"}
    PROVE  LET e == GiveUp(d, k, status)
           IN /\ DbFit(e) /\ e.jobs = d.jobs /\ ThreadMoves(d.thread, e.thread)
              /\ e.rows[k].status = status
              /\ \A j \in Slots : j # k => e.rows[j] = d.rows[j]
              /\ e.thread.last = IF k > d.thread.last THEN k ELSE d.thread.last
              /\ \A f \in {"state", "reason", "root"} : e.thread[f] = d.thread[f]
<1> DEFINE r == Stands(d.rows[k], status, NoTime, NoTime)
           a == [d EXCEPT !.rows[k] = r]
           b == AdvanceSent(a, k)
           e == settle(b, k)
<1>1. GiveUp(d, k, status) = e
  <2>1. a = [d EXCEPT !.rows[k].status = status, !.rows[k].nextAt = NoTime,
                      !.rows[k].claimedAt = NoTime]
    BY DBTyped, RowTyped DEF DbFit, Stands
  <2> HIDE DEF a
  <2>2. QED
    BY <2>1 DEF GiveUp
<1>2. RowMoves(d, r) /\ r.status = status
  <2>1. d.rows[k] \in Delivery /\ RowMoves(d, d.rows[k])
    BY RowTyped
  <2>2. r \in Delivery /\ r.status = status /\ r.mode = d.rows[k].mode
    <3>1. status \in Statuses /\ NoTime \in Int
      BY DEF Statuses, NoTime
    <3>2. QED
      BY <2>1, <3>1, StandsFits
  <2>3. QED
    BY <2>1, <2>2 DEF RowMoves
<1> HIDE DEF r
<1>3. /\ DbFit(a) /\ a.rows = [d.rows EXCEPT ![k] = r] /\ a.thread = d.thread
      /\ a.jobs = d.jobs
  BY <1>2, SetRow
<1> HIDE DEF a
<1>4. /\ DbFit(b) /\ b.rows = a.rows /\ b.jobs = a.jobs /\ ThreadMoves(a.thread, b.thread)
      /\ b.thread.last = IF k > d.thread.last THEN k ELSE d.thread.last
      /\ \A f \in {"state", "reason", "root"} : b.thread[f] = d.thread[f]
  BY <1>3, AdvanceSentFits, AdvanceSentKeepsFit
<1> HIDE DEF b
<1>5. DbFit(e) /\ e.rows = b.rows /\ e.jobs = b.jobs /\ e.thread = b.thread
  BY <1>4, settleFits
<1> HIDE DEF e
<1>6. e.rows[k] = r /\ \A j \in Slots : j # k => e.rows[j] = d.rows[j]
  BY <1>3, <1>4, <1>5, DBTyped DEF DbFit
<1>7. QED
  BY <1>1, <1>2, <1>3, <1>4, <1>5, <1>6

\* A transaction that writes the thread.
LEMMA SetThread ==
    ASSUME NEW d, DbFit(d), NEW t, ThreadMoves(d.thread, t)
    PROVE  /\ DbFit([d EXCEPT !.thread = t])
           /\ [d EXCEPT !.thread = t].thread = t /\ [d EXCEPT !.thread = t].rows = d.rows
           /\ [d EXCEPT !.thread = t].jobs = d.jobs
<1> DEFINE e == [d EXCEPT !.thread = t]
<1>1. e = [thread |-> t, rows |-> d.rows, notes |-> d.notes, jobs |-> d.jobs]
  BY DBTyped DEF DbFit
<1>2. e.thread = t /\ e.rows = d.rows /\ e.jobs = d.jobs
  BY <1>1
<1>3. e \in DB
  BY <1>1, DBTyped DEF DbFit, DB, ThreadMoves
<1> HIDE DEF e
<1>4. DbFit(e)
  BY <1>2, <1>3 DEF DbFit, ThreadMoves
<1>5. QED
  BY <1>2, <1>4 DEF e

LEMMA ClaimedFits ==
    ASSUME NEW d, DbFit(d), NEW k \in Slots, k < d.thread.next, now \in Int
    PROVE  LET e == Claimed(d, k)
           IN /\ DbFit(e) /\ e.thread = d.thread /\ e.jobs = d.jobs
              /\ e.rows[k].status = "sending" /\ e.rows[k].claimedAt = now
              /\ \A j \in Slots : j # k => e.rows[j] = d.rows[j]
<1> DEFINE r == d.rows[k]
<1>1. PICK a \in BOOLEAN : a = (r.ambiguous \/ (r.status = "sending" /\ r.mode = "post_root"))
  BY RowTyped, DeliveryTyped
<1>2. r \in Delivery /\ RowMoves(d, r) /\ r.attempts + 1 \in Nat
  BY RowTyped, DeliveryTyped
<1> DEFINE n == r.attempts + 1
           q == [r EXCEPT !.status = "sending", !.attempts = n, !.claimedAt = now,
                          !.ambiguous = a]
<1>3. Claimed(d, k) = [d EXCEPT !.rows[k] = q]
  BY <1>1, <1>2 DEF Claimed
<1>4. RowMoves(d, q) /\ q.status = "sending" /\ q.claimedAt = now
  <2> HIDE DEF n, r
  <2>1. n \in Nat
    BY <1>2 DEF n
  <2>2. "sending" \in Statuses
    BY DEF Statuses
  <2>3. q \in Delivery /\ q.status = "sending" /\ q.claimedAt = now /\ q.mode = r.mode
    BY <1>1, <1>2, <2>1, <2>2 DEF Delivery
  <2>4. QED
    BY <1>2, <2>3 DEF RowMoves
<1> HIDE DEF q
<1> DEFINE e == [d EXCEPT !.rows[k] = q]
<1>5. DbFit(e) /\ e.rows = [d.rows EXCEPT ![k] = q] /\ e.thread = d.thread /\ e.jobs = d.jobs
  BY <1>4, SetRow
<1> HIDE DEF e
<1>6. e.rows[k] = q /\ \A j \in Slots : j # k => e.rows[j] = d.rows[j]
  BY <1>5, DBTyped DEF DbFit
<1>7. QED
  BY <1>3, <1>4, <1>5, <1>6 DEF e

LEMMA failRetryFits ==
    ASSUME NEW d, DbFit(d), NEW k \in Slots, k < d.thread.next, now \in Int, NEW wait \in Int
    PROVE  LET e == failRetry(d, k, wait)
           IN /\ DbFit(e) /\ e.thread = d.thread /\ e.rows[k].status = "failed"
              /\ \A j \in Slots : j # k => e.rows[j] = d.rows[j]
<1> DEFINE r == Stands(d.rows[k], "failed", now + wait, NoTime)
           a == [d EXCEPT !.rows[k] = r]
           b == settle(a, k)
           e == Enqueue(b, k)
<1>1. failRetry(d, k, wait) = e
  <2>1. a = [d EXCEPT !.rows[k].status = "failed", !.rows[k].claimedAt = NoTime,
                      !.rows[k].nextAt = now + wait]
    BY DBTyped, RowTyped DEF DbFit, Stands
  <2> HIDE DEF a
  <2>2. QED
    BY <2>1 DEF failRetry
<1>2. RowMoves(d, r) /\ r.status = "failed"
  <2>1. d.rows[k] \in Delivery /\ RowMoves(d, d.rows[k])
    BY RowTyped
  <2>2. "failed" \in Statuses /\ now + wait \in Int /\ NoTime \in Int
    BY DEF Statuses, NoTime
  <2>3. r \in Delivery /\ r.status = "failed" /\ r.mode = d.rows[k].mode
    BY <2>1, <2>2, StandsFits
  <2>4. QED
    BY <2>1, <2>3 DEF RowMoves
<1> HIDE DEF r
<1>3. DbFit(a) /\ a.rows = [d.rows EXCEPT ![k] = r] /\ a.thread = d.thread
  BY <1>2, SetRow
<1> HIDE DEF a
<1>4. DbFit(b) /\ b.rows = a.rows /\ b.thread = a.thread
  BY <1>3, settleFits
<1> HIDE DEF b
<1>5. DbFit(e) /\ e.rows = b.rows /\ e.thread = b.thread
  BY <1>3, <1>4, EnqueueFits
<1>6. e.rows[k] = r /\ \A j \in Slots : j # k => e.rows[j] = d.rows[j]
  BY <1>3, <1>4, <1>5, DBTyped DEF DbFit
<1> HIDE DEF e
<1>7. QED
  BY <1>1, <1>2, <1>3, <1>4, <1>5, <1>6

LEMMA failThreadFits ==
    ASSUME NEW d, DbFit(d), NEW k \in Slots, k < d.thread.next, now \in Int,
           NEW reason \in {"pointer", "gone"}
    PROVE  LET e == failThread(d, k, reason)
           IN /\ DbFit(e) /\ ThreadMoves(d.thread, e.thread)
              /\ e.thread.last = d.thread.last /\ e.thread.root = d.thread.root
              /\ e.thread.reason \in {d.thread.reason, reason}
              /\ e.thread.state = "dead" /\ e.rows[k].status = "failed"
              /\ \A j \in Slots : j # k => e.rows[j] = d.rows[j]
<1> DEFINE y == IF d.thread.state = "dead" THEN d.thread.reason ELSE reason
           t == [d.thread EXCEPT !.state = "dead", !.reason = y]
           a == [d EXCEPT !.thread = t]
           r == Stands(a.rows[k], "failed", now, NoTime)
           b == [a EXCEPT !.rows[k] = r]
           e == Enqueue(b, k)
<1>1. /\ ThreadMoves(d.thread, t) /\ t.last = d.thread.last /\ t.root = d.thread.root
      /\ t.state = "dead" /\ t.reason \in {d.thread.reason, reason}
  <2>1. d.thread \in Thread /\ d.thread.last \in Nat /\ d.thread.last < d.thread.next
    BY DBTyped, ThreadTyped DEF DbFit
  <2>2. y \in {"none", "pointer", "gone"} /\ y \in {d.thread.reason, reason}
    BY <2>1, ThreadTyped
  <2> HIDE DEF y
  <2>3. /\ t \in Thread /\ t.last = d.thread.last /\ t.root = d.thread.root /\ t.state = "dead"
        /\ t.next = d.thread.next /\ t.digest = d.thread.digest /\ t.reason = y
    BY <2>1, <2>2 DEF Thread
  <2> HIDE DEF t
  <2>4. QED
    BY <2>1, <2>2, <2>3 DEF ThreadMoves
<1>2. a = [d EXCEPT !.thread.state = "dead",
             !.thread.reason = IF d.thread.state = "dead" THEN @ ELSE reason]
  BY DBTyped DEF DbFit
<1> HIDE DEF t
<1>3. DbFit(a) /\ a.thread = t /\ a.rows = d.rows
  BY <1>1, SetThread
<1>4. failThread(d, k, reason) = e
  <2>1. [d EXCEPT !.thread.state = "dead",
           !.thread.reason = IF d.thread.state = "dead" THEN @ ELSE reason,
           !.rows[k].status = "failed", !.rows[k].nextAt = now,
           !.rows[k].claimedAt = NoTime]
         = [a EXCEPT !.rows[k].status = "failed", !.rows[k].nextAt = now,
                     !.rows[k].claimedAt = NoTime]
    BY <1>2
  <2> HIDE DEF a
  <2>2. [a EXCEPT !.rows[k].status = "failed", !.rows[k].nextAt = now,
                  !.rows[k].claimedAt = NoTime] = b
    BY <1>3, DBTyped, RowTyped DEF DbFit, Stands
  <2> HIDE DEF b
  <2>3. QED
    BY <2>1, <2>2 DEF failThread
<1> HIDE DEF a
<1>5. RowMoves(a, r) /\ r.status = "failed" /\ k < a.thread.next
  <2>1. k < a.thread.next
    BY <1>1, <1>3 DEF ThreadMoves
  <2>2. a.rows[k] \in Delivery /\ RowMoves(a, a.rows[k])
    BY <1>3, <2>1, RowTyped
  <2>3. "failed" \in Statuses /\ NoTime \in Int
    BY DEF Statuses, NoTime
  <2>4. r \in Delivery /\ r.status = "failed" /\ r.mode = a.rows[k].mode
    BY <2>2, <2>3, StandsFits
  <2>5. QED
    BY <2>1, <2>2, <2>4 DEF RowMoves
<1> HIDE DEF r
<1>6. DbFit(b) /\ b.thread = a.thread /\ b.rows = [a.rows EXCEPT ![k] = r]
  BY <1>3, <1>5, SetRow
<1> HIDE DEF b
<1>7. DbFit(e) /\ e.rows = b.rows /\ e.thread = b.thread
  BY <1>5, <1>6, EnqueueFits
<1> HIDE DEF e
<1>8. e.rows[k] = r /\ \A j \in Slots : j # k => e.rows[j] = d.rows[j]
  BY <1>3, <1>6, <1>7, DBTyped DEF DbFit
<1>9. QED
  BY <1>1, <1>3, <1>4, <1>5, <1>6, <1>7, <1>8

LEMMA SentNoTyped ==
    ASSUME NEW d
    PROVE  NextSentNo(d) \in Nat
<1>1. IsFiniteSet(Slots)
  BY FS_Interval, LimitAssumption DEF Slots, LimitAssumption
<1>2. Cardinality({k \in Slots : d.rows[k].sentNo > 0}) \in Nat
  BY <1>1, FS_Subset, FS_CardinalityType
<1>3. QED
  BY <1>2 DEF NextSentNo

\* The head once delivery k is behind it.
Past(t, k) == IF k > t.last THEN k ELSE t.last

\* The two ways a success moves a thread beyond its head.
RootLands(d, k, card) == [d EXCEPT !.thread.root = card, !.thread.conv = TRUE,
                                   !.thread.state = "open", !.thread.reason = "none",
                                   !.thread.last = Max2(@, k)]
ReplyLands(d, k) == [d EXCEPT !.thread.replies = @ + 1, !.thread.last = Max2(@, k)]

\* e is d with delivery k behind the head, and the root and the state given.
Passed(d, e, k, root, state) ==
    /\ DbFit(e) /\ ThreadMoves(d.thread, e.thread) /\ e.rows = d.rows /\ e.jobs = d.jobs
    /\ e.thread.last = Past(d.thread, k)
    /\ e.thread.root = root /\ e.thread.state = state
    /\ e.thread.reason \in {d.thread.reason, "none"}

LEMMA LandsFits ==
    ASSUME NEW d, DbFit(d), NEW k \in Slots, k < d.thread.next, NEW card \in Nat
    PROVE  /\ Passed(d, RootLands(d, k, card), k, card, "open")
           /\ Passed(d, ReplyLands(d, k), k, d.thread.root, d.thread.state)
<1> DEFINE x == Past(d.thread, k)
           n == d.thread.replies + 1
           t == [d.thread EXCEPT !.root = card, !.conv = TRUE, !.state = "open",
                                 !.reason = "none", !.last = x]
           u == [d.thread EXCEPT !.replies = n, !.last = x]
<1>1. d.thread \in Thread /\ d.thread.last \in Nat /\ d.thread.next \in Nat
  BY DBTyped, ThreadTyped DEF DbFit
<1>2. /\ x = Max2(d.thread.last, k) /\ x \in Nat /\ d.thread.last <= x /\ x < d.thread.next
      /\ n \in Nat
  BY <1>1, ThreadTyped DEF Max2, Past, Slots, DbFit
<1>3. /\ RootLands(d, k, card) = [d EXCEPT !.thread = t]
      /\ ReplyLands(d, k) = [d EXCEPT !.thread = u]
  <2> HIDE DEF x
  <2>1. QED
    BY <1>2, DBTyped DEF DbFit, RootLands, ReplyLands
<1> HIDE DEF x, n
<1>4. /\ ThreadMoves(d.thread, t) /\ t.last = x /\ t.root = card /\ t.state = "open"
      /\ t.reason = "none"
  BY <1>1, <1>2 DEF Thread, ThreadMoves
<1>5. /\ ThreadMoves(d.thread, u) /\ u.last = x /\ u.root = d.thread.root
      /\ u.state = d.thread.state /\ u.reason = d.thread.reason
  BY <1>1, <1>2 DEF Thread, ThreadMoves
<1> HIDE DEF t, u
<1>6. Passed(d, [d EXCEPT !.thread = t], k, card, "open")
  <2> DEFINE e == [d EXCEPT !.thread = t]
  <2>1. DbFit(e) /\ e.thread = t /\ e.rows = d.rows /\ e.jobs = d.jobs
    BY <1>4, SetThread
  <2> HIDE DEF e
  <2>2. Passed(d, e, k, card, "open")
    BY <1>4, <2>1 DEF Passed, x
  <2>3. QED
    BY <2>2 DEF e
<1>7. Passed(d, [d EXCEPT !.thread = u], k, d.thread.root, d.thread.state)
  <2> DEFINE e == [d EXCEPT !.thread = u]
  <2>1. DbFit(e) /\ e.thread = u /\ e.rows = d.rows /\ e.jobs = d.jobs
    BY <1>5, SetThread
  <2> HIDE DEF e
  <2>2. Passed(d, e, k, d.thread.root, d.thread.state)
    BY <1>5, <2>1 DEF Passed, x
  <2>3. QED
    BY <2>2 DEF e
<1>8. QED
  BY <1>3, <1>6, <1>7

\* What a success records of the claim c.
LEMMA succeedFits ==
    ASSUME NEW d, DbFit(d), NEW c, c.slot \in Slots, c.slot < d.thread.next,
           c.mode \in Modes, c.card \in Nat, d.rows[c.slot].status = "sending"
    PROVE  LET e == succeed(d, c)
           IN /\ DbFit(e) /\ ThreadMoves(d.thread, e.thread) /\ e.jobs = d.jobs
              /\ e.thread.last = Past(d.thread, c.slot)
              /\ e.thread.root = IF c.mode = "post_root" THEN c.card ELSE d.thread.root
              /\ e.thread.state = IF c.mode = "post_root" THEN "open" ELSE d.thread.state
              /\ e.thread.reason \in {d.thread.reason, "none"}
              /\ e.rows[c.slot].status = "sent"
              /\ \A j \in Slots : j # c.slot => e.rows[j] = d.rows[j]
<1> DEFINE k == c.slot
           no == NextSentNo(d)
           q == Stands(d.rows[k], "sent", NoTime, NoTime)
           r == [q EXCEPT !.sentNo = no]
           a == [d EXCEPT !.rows[k] = r]
<1>1. RowMoves(d, r) /\ r.status = "sent"
  <2>1. d.rows[k] \in Delivery /\ RowMoves(d, d.rows[k])
    BY RowTyped
  <2>2. "sent" \in Statuses /\ NoTime \in Int /\ no \in Nat
    BY SentNoTyped DEF Statuses, NoTime
  <2>3. q \in Delivery /\ q.status = "sent" /\ q.mode = d.rows[k].mode
    BY <2>1, <2>2, StandsFits
  <2> HIDE DEF q, no
  <2>4. r \in Delivery /\ r.status = "sent" /\ r.mode = d.rows[k].mode
    BY <2>2, <2>3 DEF Delivery
  <2>5. QED
    BY <2>1, <2>4 DEF RowMoves
<1>2. a = [d EXCEPT !.rows[k].status = "sent", !.rows[k].nextAt = NoTime,
                    !.rows[k].claimedAt = NoTime, !.rows[k].sentNo = NextSentNo(d)]
  BY DBTyped, RowTyped DEF DbFit, Stands
<1> HIDE DEF r
<1>3. DbFit(a) /\ a.thread = d.thread /\ a.rows = [d.rows EXCEPT ![k] = r] /\ a.jobs = d.jobs
  BY <1>1, SetRow
<1> HIDE DEF a
<1> DEFINE root == IF c.mode = "post_root" THEN c.card ELSE d.thread.root
           state == IF c.mode = "post_root" THEN "open" ELSE d.thread.state
           e1 == RootLands(a, k, c.card)
           e2 == ReplyLands(a, k)
           e3 == AdvanceSent(a, k)
           Good(e) == Passed(a, e, k, root, state)
<1>4. c.mode = "post_root" => Good(e1)
  BY <1>3, LandsFits
<1>5. c.mode = "thread_reply" => Good(e2)
  BY <1>3, LandsFits
<1>6. c.mode = "update_root" => Good(e3)
  <2>1. e3.thread.last = Past(a.thread, k)
    BY <1>3, AdvanceSentFits DEF Past
  <2>2. QED
    BY <1>3, <2>1, AdvanceSentFits, AdvanceSentKeepsFit DEF Passed
<1>7. \E e : Good(e) /\ succeed(d, c) = settle(e, k)
  <2>1. CASE c.mode = "post_root"
    <3>1. succeed(d, c) = settle(e1, k)
      BY <1>2, <2>1 DEF succeed, RootLands
    <3>2. QED
      BY <1>4, <2>1, <3>1
  <2>2. CASE c.mode = "thread_reply"
    <3>1. succeed(d, c) = settle(e2, k)
      BY <1>2, <2>2 DEF succeed, ReplyLands
    <3>2. QED
      BY <1>5, <2>2, <3>1
  <2>3. CASE c.mode = "update_root"
    <3>1. succeed(d, c) = settle(e3, k)
      BY <1>2, <2>3 DEF succeed
    <3>2. QED
      BY <1>6, <2>3, <3>1
  <2>4. QED
    BY <2>1, <2>2, <2>3 DEF Modes
<1>8. PICK b : Good(b) /\ succeed(d, c) = settle(b, k)
  BY <1>7
<1> DEFINE e == settle(b, k)
<1>9. DbFit(e) /\ e.thread = b.thread /\ e.rows = b.rows /\ e.jobs = b.jobs
  BY <1>8, settleFits DEF Passed
<1> HIDE DEF e
<1>10. e.rows[k] = r /\ \A j \in Slots : j # k => e.rows[j] = d.rows[j]
  BY <1>3, <1>8, <1>9, DBTyped DEF DbFit, Passed
<1>11. QED
  BY <1>1, <1>3, <1>8, <1>9, <1>10 DEF e, Passed

(***************************************************************************)
(* The sweep.                                                              *)
(***************************************************************************)
\* A set of naturals that is not empty has a least element.
LEMMA LeastNatural ==
    ASSUME NEW T, T \subseteq Nat, T # {}
    PROVE  \E x \in T : \A y \in T : x <= y
<1>1. PICK x \in T : \A y \in T : ~(<<y, x>> \in OpToRel(<, Nat))
  BY NatLessThanWellFounded, WFMin
<1>2. \A y \in T : y \in Nat /\ x \in Nat /\ ~(y < x)
  BY <1>1 DEF OpToRel
<1>3. QED
  BY <1>2

\* Where the sweep may stop.
StopsAt(d, m) ==
    /\ \A j \in (d.thread.last + 1)..m : d.thread.state = "dead" \/ Resolved(d.rows[j].status)
    /\ m + 1 < d.thread.next => d.thread.state # "dead" /\ ~Resolved(d.rows[m + 1].status)

LEMMA SweepFits ==
    ASSUME NEW d, DbFit(d)
    PROVE  SweepTo(d) \in d.thread.last..(d.thread.next - 1) /\ StopsAt(d, SweepTo(d))
<1> DEFINE last == d.thread.last
           next == d.thread.next
<1>1. last \in Nat /\ next \in Nat /\ last < next
  BY DBTyped, ThreadTyped DEF DbFit
<1>2. \E m \in last..(next - 1) : StopsAt(d, m)
  <2>1. CASE d.thread.state = "dead"
    <3>1. StopsAt(d, next - 1) /\ next - 1 \in last..(next - 1)
      BY <1>1, <2>1 DEF StopsAt
    <3>2. QED
      BY <3>1
  <2>2. CASE d.thread.state # "dead"
    <3> DEFINE T == {j \in (last + 1)..(next - 1) : ~Resolved(d.rows[j].status)}
    <3>1. CASE T = {}
      <4>1. StopsAt(d, next - 1) /\ next - 1 \in last..(next - 1)
        BY <1>1, <2>2, <3>1 DEF StopsAt
      <4>2. QED
        BY <4>1
    <3>2. CASE T # {}
      <4>1. T \subseteq Nat
        BY <1>1
      <4>2. PICK x \in T : \A y \in T : x <= y
        BY <3>2, <4>1, LeastNatural
      <4>3. x - 1 \in last..(next - 1) /\ x \in Nat /\ (x - 1) + 1 = x /\ ~Resolved(d.rows[x].status)
        BY <1>1, <4>2
      <4>4. \A j \in (last + 1)..(x - 1) : Resolved(d.rows[j].status)
        <5> SUFFICES ASSUME NEW j \in (last + 1)..(x - 1), ~Resolved(d.rows[j].status)
                     PROVE  FALSE
          OBVIOUS
        <5>1. j \in (last + 1)..(next - 1) /\ j < x
          BY <1>1, <4>3
        <5>2. j \in T
          BY <5>1
        <5>3. QED
          BY <1>1, <4>2, <4>3, <5>1, <5>2
      <4>5. StopsAt(d, x - 1)
        BY <2>2, <4>3, <4>4 DEF StopsAt
      <4>6. QED
        BY <4>3, <4>5
    <3>3. QED
      BY <3>1, <3>2
  <2>3. QED
    BY <2>1, <2>2
<1>3. SweepTo(d) = CHOOSE m \in last..(next - 1) : StopsAt(d, m)
  BY DEF SweepTo, StopsAt
<1>4. QED
  BY <1>2, <1>3

\* What the sweep does to the rows, and that on a live thread it does nothing to them.
LEMMA RecoverFits ==
    ASSUME NEW d, DbFit(d)
    PROVE  LET e == Recover(d)
           IN /\ DbFit(e) /\ ThreadMoves(d.thread, e.thread) /\ e.jobs = d.jobs
              /\ e.thread.last = SweepTo(d)
              /\ \A f \in {"state", "reason", "root"} : e.thread[f] = d.thread[f]
              /\ d.thread.state # "dead" => e.rows = d.rows
              /\ \A j \in Slots :
                   e.rows[j].status =
                     IF /\ j > d.thread.last /\ j <= SweepTo(d)
                        /\ d.rows[j].status \in {"pending", "failed"}
                     THEN "skipped" ELSE d.rows[j].status
<1> DEFINE m == SweepTo(d)
           t == [d.thread EXCEPT !.last = m]
           Swept(j) == /\ j > d.thread.last /\ j <= m
                       /\ d.rows[j].status \in {"pending", "failed"}
           q(j) == [d.rows[j] EXCEPT !.status = "skipped", !.nextAt = NoTime]
           R == [j \in Slots |-> IF Swept(j) THEN q(j) ELSE d.rows[j]]
           e == Recover(d)
<1>1. /\ d.thread \in Thread /\ d.thread.last \in Nat /\ d.thread.next \in Nat
      /\ d.rows \in [Slots -> Delivery]
      /\ d.jobs \in [Slots -> 0..2]
  BY DBTyped, ThreadTyped DEF DbFit
<1>2. m \in Nat /\ d.thread.last <= m /\ m < d.thread.next /\ StopsAt(d, m)
  BY <1>1, SweepFits
<1> HIDE DEF m
<1>3. e.thread = t /\ e.rows = R /\ e.notes = d.notes /\ e.jobs = d.jobs
      /\ e = [thread |-> e.thread, rows |-> e.rows, notes |-> e.notes, jobs |-> e.jobs]
  <2>1. e = [d EXCEPT !.thread.last = m, !.rows = R]
    BY DEF Recover, m
  <2> HIDE DEF R, e
  <2>2. e = [thread |-> t, rows |-> R, notes |-> d.notes, jobs |-> d.jobs]
    <3> DEFINE a == [d EXCEPT !.thread = t]
    <3>1. a = [d EXCEPT !.thread.last = m]
      BY DBTyped DEF DbFit
    <3>2. a = [thread |-> t, rows |-> d.rows, notes |-> d.notes, jobs |-> d.jobs]
      BY DBTyped DEF DbFit
    <3>3. e = [a EXCEPT !.rows = R]
      BY <2>1, <3>1
    <3> HIDE DEF a, t
    <3>4. QED
      BY <3>2, <3>3
  <2>3. QED
    BY <2>2
<1>4. /\ t \in Thread /\ t.last = m /\ t.digest = d.thread.digest /\ t.next = d.thread.next
      /\ \A f \in {"state", "reason", "root"} : t[f] = d.thread[f]
  BY <1>1, <1>2 DEF Thread
<1>5. ThreadMoves(d.thread, t)
  BY <1>2, <1>4 DEF ThreadMoves
<1>6. \A j \in Slots : /\ q(j) \in Delivery /\ q(j).status = "skipped"
                       /\ q(j).mode = d.rows[j].mode
  <2> SUFFICES ASSUME NEW j \in Slots
               PROVE  /\ q(j) \in Delivery /\ q(j).status = "skipped"
                      /\ q(j).mode = d.rows[j].mode
    OBVIOUS
  <2> DEFINE r == d.rows[j]
  <2>1. r \in Delivery /\ "skipped" \in Statuses /\ NoTime \in Int
    BY <1>1 DEF Statuses, NoTime
  <2> HIDE DEF r
  <2>2. LET s == [r EXCEPT !.status = "skipped", !.nextAt = NoTime]
        IN s \in Delivery /\ s.status = "skipped" /\ s.mode = r.mode
    BY <2>1 DEF Delivery
  <2>3. QED
    BY <2>2 DEF r
<1> HIDE DEF q, t, e
<1>7. \A j \in Slots : e.rows[j] = IF Swept(j) THEN q(j) ELSE d.rows[j]
  BY <1>3
<1>8. e.rows \in [Slots -> Delivery]
  BY <1>1, <1>3, <1>6
<1>9. e \in DB
  BY <1>3, <1>4, <1>8, DBTyped DEF DbFit, DB
<1>10. \A j \in Slots : /\ e.rows[j].mode = d.rows[j].mode
                        /\ e.rows[j].status = IF Swept(j) THEN "skipped" ELSE d.rows[j].status
  BY <1>6, <1>7
<1>11. DbFit(e)
  <2>1. \A j \in Slots : e.rows[j].status = "none" <=> d.rows[j].status = "none"
    BY <1>10
  <2>2. QED
    BY <1>3, <1>5, <1>9, <1>10, <2>1 DEF DbFit, ThreadMoves
<1>12. ASSUME d.thread.state # "dead"
       PROVE  e.rows = d.rows
  <2>1. \A j \in Slots : ~Swept(j)
    BY <1>1, <1>2, <1>12 DEF StopsAt, Resolved, Slots
  <2>2. QED
    BY <1>1, <1>7, <1>8, <2>1
<1>13. QED
  BY <1>3, <1>4, <1>5, <1>10, <1>11, <1>12 DEF e, m

(***************************************************************************)
(* Minting.                                                                *)
(***************************************************************************)
\* A fact plans one or two deliveries, and a digest never an amend.
PlanFits(plan, digest) ==
    /\ Len(plan) \in {1, 2}
    /\ \A i \in 1..Len(plan) : plan[i] \in Modes /\ (digest => plan[i] # "update_root")

LEMMA PlanTyped ==
    ASSUME NEW reason, NEW rooted, PlanFor(reason, rooted) # <<>>
    PROVE  PlanFits(PlanFor(reason, rooted), reason = "digest")
<1> DEFINE plan == PlanFor(reason, rooted)
<1>1. \/ plan = <<>>
      \/ \E m \in Modes : plan = <<m>> /\ (reason = "digest" => m # "update_root")
      \/ reason # "digest" /\ \E m, l \in Modes : plan = <<m, l>>
  <2>1. CASE reason = "digest"
    BY <2>1 DEF PlanFor, Modes
  <2>2. CASE reason # "digest"
    BY <2>2 DEF PlanFor, Modes
  <2>3. QED
    BY <2>1, <2>2
<1> HIDE DEF plan
<1>2. ASSUME NEW m, NEW l
      PROVE  Len(<<m>>) = 1 /\ <<m>>[1] = m /\ Len(<<m, l>>) = 2 /\ <<m, l>>[1] = m /\ <<m, l>>[2] = l
  OBVIOUS
<1>3. plan # <<>>
  BY DEF plan
<1>4. CASE \E m \in Modes : plan = <<m>> /\ (reason = "digest" => m # "update_root")
  <2>1. PICK m \in Modes : plan = <<m>> /\ (reason = "digest" => m # "update_root")
    BY <1>4
  <2>2. Len(plan) = 1 /\ plan[1] = m
    BY <1>2, <2>1
  <2>3. \A i \in 1..Len(plan) : i = 1
    BY <2>2
  <2>4. QED
    BY <2>1, <2>2, <2>3 DEF PlanFits, plan
<1>5. CASE reason # "digest" /\ \E m, l \in Modes : plan = <<m, l>>
  <2>1. PICK m \in Modes, l \in Modes : plan = <<m, l>>
    BY <1>5
  <2>2. Len(plan) = 2 /\ plan[1] = m /\ plan[2] = l
    BY <1>2, <2>1
  <2>3. \A i \in 1..Len(plan) : i = 1 \/ i = 2
    BY <2>2
  <2>4. QED
    BY <1>5, <2>1, <2>2, <2>3 DEF PlanFits, plan
<1>6. QED
  BY <1>1, <1>3, <1>4, <1>5

\* e is d with at most n more deliveries, all of them pending, and nothing else moved.
Grows(d, e, n) ==
    /\ DbFit(e)
    /\ \A f \in {"digest", "state", "reason", "root", "last"} : e.thread[f] = d.thread[f]
    /\ d.thread.next <= e.thread.next /\ e.thread.next <= d.thread.next + n
    /\ \A j \in Slots :
         IF j < d.thread.next THEN e.rows[j] = d.rows[j]
                              ELSE e.rows[j].status \in {"none", "pending"}

LEMMA createDeliveryGrows ==
    ASSUME NEW d, DbFit(d), d.thread.next <= MaxSeq, NEW n \in Notes, NEW mode \in Modes,
           d.thread.digest => mode # "update_root", NEW at \in Int
    PROVE  Grows(d, createDelivery(d, n, mode, at), 1)
<1> DEFINE k == d.thread.next
           t == [d.thread EXCEPT !.next = k + 1]
           r == [NoDelivery EXCEPT !.status = "pending", !.note = n, !.mode = mode,
                                   !.createdAt = at]
           c == [d EXCEPT !.thread = t]
           a == [c EXCEPT !.rows[k] = r]
           e == Enqueue(a, k)
<1>1. /\ d.thread \in Thread /\ k \in Nat /\ k >= 1 /\ d.thread.last < k
      /\ k \in Slots /\ MaxSeq \in Nat /\ d.thread.last \in Nat
  BY DBTyped, ThreadTyped, LimitAssumption DEF DbFit, LimitAssumption, Slots
<1>2. CASE Taken(d, n, mode)
  <2>1. createDelivery(d, n, mode, at) = d
    BY <1>2 DEF createDelivery
  <2>2. \A j \in Slots : j >= k => d.rows[j].status = "none"
    BY DEF DbFit
  <2>3. \A j \in Slots : j \in Nat
    BY DEF Slots
  <2>4. Grows(d, d, 1)
    BY <1>1, <2>2, <2>3 DEF Grows
  <2>5. QED
    BY <2>1, <2>4
<1>3. CASE ~Taken(d, n, mode)
  <2>1. /\ t \in Thread /\ t.next = k + 1
        /\ \A f \in {"digest", "state", "reason", "root", "last"} : t[f] = d.thread[f]
    BY <1>1 DEF Thread
  <2>2. r \in Delivery /\ r.status = "pending" /\ r.mode = mode
    <3>1. /\ NoDelivery \in [status : Statuses, note : 0..MaxNotes, mode : Modes,
                attempts : Nat, ambiguous : BOOLEAN, createdAt : Int, claimedAt : Int,
                nextAt : Int, hash : Contents \cup {"none"}, sentNo : Nat]
          /\ n \in 0..MaxNotes /\ "pending" \in Statuses
      BY LimitAssumption DEF LimitAssumption, NoDelivery, Statuses, Modes, NoTime, Notes
    <3>2. QED
      BY <3>1 DEF Delivery
  <2>3. createDelivery(d, n, mode, at) = e
    <3>1. [d EXCEPT !.thread.next = @ + 1] = c
      BY DBTyped DEF DbFit
    <3>2. [d EXCEPT !.thread.next = @ + 1, !.rows[k] = r] = a
      BY <3>1
    <3> HIDE DEF a, r
    <3>3. QED
      BY <1>3, <3>2 DEF createDelivery, r
  <2> HIDE DEF t, r
  <2>4. c = [thread |-> t, rows |-> d.rows, notes |-> d.notes, jobs |-> d.jobs]
    BY DBTyped DEF DbFit
  <2> HIDE DEF c
  <2>5. a = [thread |-> t, rows |-> [d.rows EXCEPT ![k] = r], notes |-> d.notes,
             jobs |-> d.jobs]
    BY <2>4
  <2> HIDE DEF a
  <2>6. a \in DB /\ a.thread = t /\ a.rows = [d.rows EXCEPT ![k] = r] /\ a.jobs = d.jobs
    BY <2>1, <2>2, <2>5, DBTyped DEF DbFit, DB
  <2>7. a.rows[k] = r /\ \A j \in Slots : j # k => a.rows[j] = d.rows[j]
    BY <1>1, <2>6, DBTyped DEF DbFit
  <2>8. DbFit(a)
    <3>1. \A j \in Slots : a.rows[j].status = "none" <=> j >= a.thread.next
      BY <1>1, <2>1, <2>2, <2>6, <2>7 DEF DbFit, Slots
    <3>2. \A j \in Slots : a.jobs[j] > 0 => j < a.thread.next
      BY <1>1, <2>1, <2>6 DEF DbFit, Slots
    <3>3. a.thread.digest => \A j \in Slots : a.rows[j].mode # "update_root"
      BY <2>1, <2>2, <2>6, <2>7 DEF DbFit
    <3>4. a.thread.next \in 1..(MaxSeq + 1) /\ a.thread.last < a.thread.next
      BY <1>1, <2>1, <2>6
    <3>5. QED
      BY <2>6, <3>1, <3>2, <3>3, <3>4 DEF DbFit
  <2>9. DbFit(e) /\ e.thread = a.thread /\ e.rows = a.rows
    BY <1>1, <2>1, <2>6, <2>8, EnqueueFits
  <2> HIDE DEF e
  <2>10. \A j \in Slots :
           IF j < k THEN e.rows[j] = d.rows[j] ELSE e.rows[j].status \in {"none", "pending"}
    BY <1>1, <2>2, <2>7, <2>9 DEF DbFit, Slots
  <2>11. Grows(d, e, 1)
    BY <1>1, <2>1, <2>6, <2>9, <2>10 DEF Grows
  <2>12. QED
    BY <2>3, <2>11
<1>4. QED
  BY <1>2, <1>3

LEMMA fanOutGrows ==
    ASSUME NEW d, DbFit(d), NEW n \in Notes, NEW m, m.at \in Int, m.reason \in Reasons,
           PlanFor(m.reason, m.rooted) # <<>>, d.thread.digest => m.reason = "digest",
           d.thread.next + Len(PlanFor(m.reason, m.rooted)) <= MaxSeq + 1
    PROVE  Grows(d, fanOut(d, n, m), 2)
<1> DEFINE plan == PlanFor(m.reason, m.rooted)
           one == createDelivery(d, n, plan[1], m.at)
           both == IF Len(plan) = 1 THEN one ELSE createDelivery(one, n, plan[2], m.at)
           note == [reason |-> m.reason, status |-> "dispatched"]
           e == fanOut(d, n, m)
<1>1. PlanFits(plan, m.reason = "digest")
  BY PlanTyped
<1>2. e = [both EXCEPT !.notes[n] = note]
  BY DEF fanOut
<1> HIDE DEF plan, e
<1>3. d.thread.next \in Nat /\ MaxSeq \in Nat /\ 1 \in 1..Len(plan) /\ Len(plan) \in Nat
  <2>1. Len(plan) = 1 \/ Len(plan) = 2
    BY <1>1 DEF PlanFits
  <2>2. d.thread.next \in Nat /\ MaxSeq \in Nat
    BY DBTyped, ThreadTyped, LimitAssumption DEF DbFit, LimitAssumption
  <2> DEFINE len == Len(plan)
  <2> HIDE DEF len
  <2>3. len = 1 \/ len = 2
    BY <2>1 DEF len
  <2>4. len \in Nat /\ 1 \in 1..len
    BY <2>3
  <2>5. QED
    BY <2>2, <2>4 DEF len
<1>4. Grows(d, one, 1)
  BY <1>1, <1>3, createDeliveryGrows DEF PlanFits, plan
<1> HIDE DEF one
<1>5. Grows(d, both, 2)
  <2>1. CASE Len(plan) = 1
    BY <1>3, <1>4, <2>1, DBTyped, ThreadTyped DEF Grows, DbFit
  <2>2. CASE Len(plan) # 1
    <3>1. Len(plan) = 2 /\ 2 \in 1..Len(plan)
      <4>1. Len(plan) = 1 \/ Len(plan) = 2
        BY <1>1 DEF PlanFits
      <4>2. 2 \in 1..2
        OBVIOUS
      <4>3. QED
        BY <2>2, <4>1, <4>2
    <3>2. /\ DbFit(one) /\ one.thread.next \in Nat /\ one.thread.next <= MaxSeq
          /\ one.thread.digest = d.thread.digest
      BY <1>3, <1>4, <3>1, DBTyped, ThreadTyped DEF Grows, DbFit, plan
    <3> DEFINE two == createDelivery(one, n, plan[2], m.at)
    <3>3. Grows(one, two, 1)
      BY <1>1, <3>1, <3>2, createDeliveryGrows DEF PlanFits
    <3> HIDE DEF two
    <3>4. two.thread.next \in Nat /\ two = both
      BY <2>2, <3>3, DBTyped, ThreadTyped DEF Grows, DbFit, two
    <3>5. \A j \in Slots :
            IF j < d.thread.next THEN two.rows[j] = d.rows[j]
                                 ELSE two.rows[j].status \in {"none", "pending"}
      <4> DEFINE x == d.thread.next
                 y == one.thread.next
      <4>1. x \in Nat /\ y \in Nat
        BY <1>3, <3>2, Zenon
      <4>2. x <= y
        BY <1>4, Zenon DEF Grows
      <4>3. /\ \A j \in Slots : IF j < x THEN one.rows[j] = d.rows[j]
                                 ELSE one.rows[j].status \in {"none", "pending"}
            /\ \A j \in Slots : IF j < y THEN two.rows[j] = one.rows[j]
                                 ELSE two.rows[j].status \in {"none", "pending"}
        BY <1>4, <3>3, Zenon DEF Grows
      <4> HIDE DEF x, y
      <4>4. ASSUME NEW j \in Slots
            PROVE  IF j < x THEN two.rows[j] = d.rows[j]
                            ELSE two.rows[j].status \in {"none", "pending"}
        <5>1. j \in Nat
          BY DEF Slots
        <5>2. j < x => j < y
          BY <4>1, <4>2, <5>1
        <5>3. QED
          BY <4>3, <5>2, Zenon
      <4>5. QED
        BY <4>4 DEF x
    <3>6. DbFit(two)
          /\ \A f \in {"digest", "state", "reason", "root", "last"} :
               two.thread[f] = d.thread[f]
      <4>1. DbFit(two)
        BY <3>3, Zenon DEF Grows
      <4>2. ASSUME NEW f \in {"digest", "state", "reason", "root", "last"}
            PROVE  two.thread[f] = one.thread[f] /\ one.thread[f] = d.thread[f]
        BY <1>4, <3>3, Zenon DEF Grows
      <4>3. QED
        BY <4>1, <4>2, Zenon
    <3>7. d.thread.next <= two.thread.next /\ two.thread.next <= d.thread.next + 2
      <4> DEFINE x == d.thread.next
                 y == one.thread.next
                 z == two.thread.next
      <4>1. x <= y /\ y <= x + 1 /\ y <= z /\ z <= y + 1
        BY <1>4, <3>3, Zenon DEF Grows
      <4>2. x \in Nat /\ y \in Nat /\ z \in Nat
        BY <1>3, <3>2, <3>4, Zenon
      <4> HIDE DEF x, y, z
      <4>3. x <= z /\ z <= x + 2
        BY <4>1, <4>2
      <4>4. QED
        BY <4>3 DEF x, z
    <3>8. Grows(d, two, 2)
      BY <3>5, <3>6, <3>7, Zenon DEF Grows
    <3>9. QED
      BY <3>4, <3>8
  <2>3. QED
    BY <2>1, <2>2
<1> HIDE DEF both
<1>6. note \in [reason : Reasons, status : Aggregates]
  BY DEF Aggregates
<1>7. e = [thread |-> both.thread, rows |-> both.rows,
           notes |-> [both.notes EXCEPT ![n] = note], jobs |-> both.jobs]
  <2>1. both \in DB
    BY <1>5 DEF Grows, DbFit
  <2> HIDE DEF note
  <2>2. QED
    BY <1>2, <2>1, DBTyped
<1> HIDE DEF note
<1>8. /\ e \in DB /\ e.thread = both.thread /\ e.rows = both.rows /\ e.jobs = both.jobs
  BY <1>5, <1>6, <1>7, DBTyped DEF Grows, DbFit, DB
<1>9. DbFit(e)
  BY <1>5, <1>8 DEF DbFit, Grows
<1>10. Grows(d, e, 2)
  BY <1>5, <1>8, <1>9 DEF Grows
<1>11. QED
  BY <1>10 DEF e

(***************************************************************************)
(* What holds whatever goes wrong.                                         *)
(***************************************************************************)
\* A fan-out in progress has deliveries to make, of its thread's kind.
MintersFit ==
    \A n \in Notes : minter[n].pc = "commit" =>
        /\ minter[n].reason \in Facts
        /\ minter[n].reason = "digest" <=> db.thread.digest
        /\ PlanFor(minter[n].reason, minter[n].rooted) # <<>>

\* A dispatch is about a delivery that exists, has rendered what it will write to a
\* card, and never amends a digest.
WorkerFits(w) ==
    worker[w].pc # "idle" =>
        /\ worker[w].slot \in Slots /\ worker[w].slot < db.thread.next
        /\ worker[w].mode # "thread_reply" => worker[w].hash \in Contents
        /\ db.thread.digest => worker[w].mode # "update_root"
WorkersFit == \A w \in Workers : WorkerFits(w)

\* River only ever ran jobs of deliveries that exist.
OrphansFit == \A k \in Slots : orphans[k] # NoTime => k < db.thread.next

IInv == DbFit(db) /\ MintersFit /\ WorkersFit /\ OrphansFit

\* The types of everything but the rows.
TypeRest ==
    /\ now \in 0..MaxTime /\ enabled \in BOOLEAN /\ posted \in 0..MaxSeq
    /\ minter \in [Notes -> Minter]
    /\ worker \in [Workers -> Worker]
    /\ orphans \in [Slots -> Int]
    /\ cards \in Seq([slot : Slots, content : Contents, labelled : BOOLEAN])
    /\ db.thread.root <= Len(cards)
    /\ \A w \in Workers : worker[w].root <= Len(cards) /\ worker[w].card <= Len(cards)

LEMMA TypeParts ==
    /\ TypeOK => TypeRest
    /\ TypeRest /\ IInv => TypeOK
BY DEF TypeOK, TypeRest, IInv, DbFit

LEMMA TypePartsNext == TypeRest' /\ IInv' => TypeOK'
BY DEF TypeOK, TypeRest, IInv, DbFit

\* What no step takes back: the thread's kind, its numbers and its head.
Follows(d, e) ==
    /\ DbFit(e) /\ e.thread.digest = d.thread.digest
    /\ d.thread.next <= e.thread.next /\ d.thread.last <= e.thread.last

LEMMA MovesFollow ==
    ASSUME NEW d, DbFit(d), NEW e, DbFit(e), ThreadMoves(d.thread, e.thread)
    PROVE  Follows(d, e)
BY DBTyped, ThreadTyped DEF Follows, ThreadMoves, DbFit

LEMMA SameThreadFollows ==
    ASSUME NEW d, DbFit(d), NEW e, DbFit(e), e.thread = d.thread
    PROVE  Follows(d, e) /\ ThreadMoves(d.thread, e.thread)
BY DBTyped, ThreadTyped DEF Follows, ThreadMoves, DbFit

\* A step that only works on the rows keeps everything.
LEMMA DbStep ==
    ASSUME TypeOK, IInv, Follows(db, db'), db'.thread.root <= Len(cards),
           UNCHANGED <<now, enabled, minter, worker, orphans, cards, posted>>
    PROVE  TypeRest' /\ IInv'
<1>1. TypeRest'
  BY DEF TypeOK, TypeRest
<1>2. db.thread.next \in Nat /\ db'.thread.next \in Nat /\ DbFit(db')
  BY DBTyped, ThreadTyped DEF IInv, DbFit, Follows
<1>3. MintersFit'
  BY DEF IInv, MintersFit, Follows
<1>4. WorkersFit'
  BY <1>2 DEF IInv, WorkersFit, WorkerFits, Follows, Slots
<1>5. OrphansFit'
  BY <1>2 DEF IInv, OrphansFit, Follows, Slots
<1>6. QED
  BY <1>1, <1>2, <1>3, <1>4, <1>5 DEF IInv

\* A worker goes back to the pool, its delivery recorded or not.
LEMMA IdleStep ==
    ASSUME TypeOK, IInv, Follows(db, db'), db'.thread.root <= Len(cards), NEW w \in Workers,
           worker' = [worker EXCEPT ![w] = IdleWorker], orphans' \in [Slots -> Int],
           \A k \in Slots : orphans'[k] # NoTime => k < db.thread.next,
           UNCHANGED <<now, enabled, minter, cards, posted>>
    PROVE  TypeRest' /\ IInv'
<1>1. /\ IdleWorker \in Worker /\ IdleWorker.pc = "idle" /\ IdleWorker.root = 0
      /\ IdleWorker.card = 0
  BY LimitAssumption DEF IdleWorker, Worker, Modes, NoTime, LimitAssumption
<1>2. /\ worker' \in [Workers -> Worker] /\ worker'[w] = IdleWorker
      /\ \A v \in Workers : v # w => worker'[v] = worker[v]
  BY <1>1 DEF TypeOK
<1>3. Len(cards) \in Nat
  BY DEF TypeOK
<1>4. TypeRest'
  BY <1>1, <1>2, <1>3 DEF TypeOK, TypeRest
<1>5. db.thread.next \in Nat /\ db'.thread.next \in Nat /\ DbFit(db')
  BY DBTyped, ThreadTyped DEF IInv, DbFit, Follows
<1>6. MintersFit'
  BY DEF IInv, MintersFit, Follows
<1>7. WorkersFit'
  BY <1>1, <1>2, <1>5 DEF IInv, WorkersFit, WorkerFits, Follows, Slots
<1>8. OrphansFit'
  BY <1>5 DEF IInv, OrphansFit, Follows, Slots
<1>9. QED
  BY <1>4, <1>5, <1>6, <1>7, <1>8 DEF IInv

(***************************************************************************)
(* What each transaction does to the rows.                                 *)
(***************************************************************************)
\* e is d after a sweep of a live thread: the head passed resolved deliveries.
Swept(d, e) ==
    /\ DbFit(e) /\ ThreadMoves(d.thread, e.thread) /\ e.rows = d.rows /\ e.jobs = d.jobs
    /\ \A f \in {"state", "reason", "root"} : e.thread[f] = d.thread[f]
    /\ \A j \in Slots :
         j > d.thread.last /\ j <= e.thread.last => Resolved(d.rows[j].status)

LEMMA SweptLive ==
    ASSUME NEW d, DbFit(d), d.thread.state # "dead"
    PROVE  Swept(d, d) /\ Swept(d, Recover(d))
<1>1. d.thread.last \in Nat /\ d.thread.next \in Nat
  BY DBTyped, ThreadTyped DEF DbFit
<1>2. Swept(d, d)
  BY <1>1, SameThreadFollows DEF Swept, Slots
<1> DEFINE e == Recover(d)
<1>3. /\ DbFit(e) /\ ThreadMoves(d.thread, e.thread) /\ e.rows = d.rows /\ e.jobs = d.jobs
      /\ \A f \in {"state", "reason", "root"} : e.thread[f] = d.thread[f]
      /\ e.thread.last = SweepTo(d)
  BY RecoverFits
<1>4. SweepTo(d) \in Nat /\ StopsAt(d, SweepTo(d))
  BY <1>1, SweepFits
<1> HIDE DEF e
<1>5. \A j \in Slots : j > d.thread.last /\ j <= e.thread.last => Resolved(d.rows[j].status)
  BY <1>1, <1>3, <1>4 DEF StopsAt, Slots
<1>6. Swept(d, e)
  BY <1>3, <1>5 DEF Swept
<1>7. QED
  BY <1>2, <1>6 DEF e

LEMMA SeenSwept ==
    ASSUME IInv, ~Dead, NEW k
    PROVE  Swept(db, Seen(k))
BY SweptLive DEF IInv, Dead, Seen

\* Whose turn it is: the delivery right behind the head, once the sweep has moved it.
LEMMA ProceedIsHead ==
    ASSUME NEW d, DbFit(d), NEW k \in Slots, Decide(d, k) = "proceed"
    PROVE  k = d.thread.last + 1 /\ d.thread.state # "dead"
BY DBTyped, ThreadTyped DEF DbFit, Decide, Slots

LEMMA TurnFits ==
    ASSUME IInv, NEW k \in Slots, MyTurn(k)
    PROVE  /\ Swept(db, Seen(k)) /\ k = Seen(k).thread.last + 1 /\ ~Dead
           /\ Claimable(db.rows[k]) /\ db.jobs[k] > 0 /\ k < db.thread.next
           /\ k < Seen(k).thread.next
<1>1. ~Dead /\ Claimable(db.rows[k]) /\ db.jobs[k] > 0
  BY DEF MyTurn, Due
<1>2. Swept(db, Seen(k))
  BY <1>1, SeenSwept
<1>3. k = Seen(k).thread.last + 1
  BY <1>2, ProceedIsHead DEF MyTurn, Swept
<1>4. k < db.thread.next
  BY <1>1 DEF IInv, DbFit
<1>5. QED
  BY <1>1, <1>2, <1>3, <1>4 DEF Swept, ThreadMoves

\* TX 1 claims: one row is taken, by this worker, now.
LEMMA ClaimEffect ==
    ASSUME TypeOK, IInv, NEW w \in Workers, NEW k \in Slots, Claim(w, k)
    PROVE  /\ Follows(db, db') /\ db'.thread = Seen(k).thread
           /\ db'.rows[k].status = "sending" /\ db'.rows[k].claimedAt = now
           /\ \A j \in Slots : j # k => db'.rows[j] = db.rows[j]
           /\ worker'[w].pc = "claimed" /\ worker'[w].slot = k /\ worker'[w].at = now
           /\ worker'[w].root = db'.thread.root /\ worker'[w].card = 0
           /\ worker'[w].answer = "none"
           /\ worker'[w].mode # "post_root" => db'.thread.root # 0
           /\ worker' \in [Workers -> Worker]
           /\ worker'[w].mode # "thread_reply" => worker'[w].hash \in Contents
           /\ db.thread.digest => worker'[w].mode # "update_root"
           /\ \A v \in Workers : v # w => worker'[v] = worker[v]
<1> DEFINE s == Seen(k)
           d == Claimed(s, k)
           mode == effectiveMode(d.rows[k], d.thread)
           lab == /\ mode = "post_root"
                  /\ d.rows[k].ambiguous \/ d.thread.conv
<1>1. MyTurn(k) /\ now \in Int
  BY DEF Claim, TypeOK
<1>2. /\ Swept(db, s) /\ k < s.thread.next /\ DbFit(s) /\ s.rows = db.rows
      /\ s.jobs = db.jobs /\ db.jobs[k] > 0 /\ ThreadMoves(db.thread, s.thread)
  BY <1>1, TurnFits DEF Swept
<1> HIDE DEF s
<1>3. /\ DbFit(d) /\ d.thread = s.thread /\ d.jobs = s.jobs
      /\ d.rows[k].status = "sending" /\ d.rows[k].claimedAt = now
      /\ \A j \in Slots : j # k => d.rows[j] = s.rows[j]
  BY <1>1, <1>2, ClaimedFits
<1>4. PICK h \in IF mode = "thread_reply" THEN {"none"} ELSE Contents :
        /\ db' = Done([d EXCEPT !.rows[k].hash = h], k)
        /\ worker' = [worker EXCEPT ![w] =
                 [pc |-> "claimed", slot |-> k, mode |-> mode,
                  attempts |-> d.rows[k].attempts, root |-> d.thread.root,
                  labelled |-> lab, hash |-> h, at |-> now, answer |-> "none", card |-> 0]]
  BY DEF Claim, s
<1> DEFINE r == d.rows[k]
<1>5. r \in Delivery /\ RowMoves(d, r) /\ d.thread \in Thread
  BY <1>2, <1>3, RowTyped, DBTyped DEF DbFit
<1>6. /\ mode \in Modes /\ (d.thread.digest => mode # "update_root")
      /\ mode # "post_root" => d.thread.root # 0
  <2>1. r.mode \in Modes /\ (d.thread.digest => r.mode # "update_root")
    BY <1>5, DeliveryTyped DEF RowMoves
  <2> HIDE DEF d
  <2>2. QED
    BY <2>1 DEF effectiveMode, Modes, RootLanded
<1>7. lab \in BOOLEAN
  BY <1>5, DeliveryTyped, ThreadTyped
<1> HIDE DEF lab, mode, d
<1>8. h \in Contents \cup {"none"} /\ (mode # "thread_reply" => h \in Contents)
  BY <1>4
<1> DEFINE q == [r EXCEPT !.hash = h]
           a == [d EXCEPT !.rows[k] = q]
           c == [pc |-> "claimed", slot |-> k, mode |-> mode, attempts |-> r.attempts,
                 root |-> d.thread.root, labelled |-> lab, hash |-> h, at |-> now,
                 answer |-> "none", card |-> 0]
<1>9. RowMoves(d, q) /\ q.status = r.status /\ q.claimedAt = r.claimedAt
  <2> HIDE DEF r
  <2>1. q \in Delivery /\ q.status = r.status /\ q.claimedAt = r.claimedAt /\ q.mode = r.mode
    BY <1>5, <1>8 DEF Delivery
  <2>2. QED
    BY <1>5, <2>1 DEF RowMoves
<1>10. db' = Done(a, k)
  <2>1. [d EXCEPT !.rows[k].hash = h] = a
    BY <1>3, DBTyped DEF DbFit
  <2>2. QED
    BY <1>4, <2>1
<1> HIDE DEF q
<1>11. /\ DbFit(a) /\ a.thread = d.thread /\ a.rows = [d.rows EXCEPT ![k] = q]
       /\ a.jobs = d.jobs
  BY <1>2, <1>3, <1>9, SetRow
<1> HIDE DEF a
<1>12. DbFit(db') /\ db'.thread = d.thread /\ db'.rows = a.rows
  BY <1>2, <1>3, <1>10, <1>11, DoneFits
<1>13. db'.rows[k] = q /\ \A j \in Slots : j # k => db'.rows[j] = db.rows[j]
  BY <1>2, <1>3, <1>11, <1>12, DBTyped DEF DbFit
<1>14. Follows(db, db')
  BY <1>2, <1>3, <1>12, MovesFollow DEF IInv
<1>15. worker' = [worker EXCEPT ![w] = c]
  BY <1>4
<1>16. c \in Worker
  <2>1. k \in 0..MaxSeq /\ r.attempts \in Nat /\ d.thread.root \in Nat
    BY <1>5, DeliveryTyped, ThreadTyped, LimitAssumption DEF Slots, LimitAssumption
  <2>2. QED
    BY <1>1, <1>6, <1>7, <1>8, <2>1 DEF Worker
<1>17. /\ c.pc = "claimed" /\ c.slot = k /\ c.at = now /\ c.root = d.thread.root
       /\ c.card = 0 /\ c.mode = mode /\ c.hash = h /\ c.answer = "none"
  OBVIOUS
<1> HIDE DEF c
<1>18. /\ worker' \in [Workers -> Worker] /\ worker'[w] = c
       /\ \A v \in Workers : v # w => worker'[v] = worker[v]
  BY <1>15, <1>16 DEF TypeOK
<1>19. db.thread.digest = d.thread.digest
  BY <1>2, <1>3 DEF ThreadMoves
<1>20. QED
  BY <1>3, <1>6, <1>8, <1>9, <1>12, <1>13, <1>14, <1>17, <1>18, <1>19 DEF s

\* claim's early end: its delivery is given up at the head.
LEMMA AbandonEffect ==
    ASSUME TypeOK, IInv, NEW k \in Slots, ClaimAbandon(k)
    PROVE  /\ Follows(db, db') /\ db'.thread.last = k /\ db'.thread.next = db.thread.next
           /\ db'.thread.state = db.thread.state /\ db'.thread.root = db.thread.root
           /\ db'.thread.reason = db.thread.reason
           /\ Resolved(db'.rows[k].status)
           /\ \A j \in Slots : j # k => db'.rows[j] = db.rows[j]
<1> DEFINE s == Seen(k)
           d == Claimed(s, k)
<1>1. MyTurn(k) /\ now \in Int
  BY DEF ClaimAbandon, TypeOK
<1>2. /\ Swept(db, s) /\ k < s.thread.next /\ k = s.thread.last + 1 /\ db.jobs[k] > 0
      /\ s.thread.last \in Nat
  <2>1. Swept(db, s) /\ k < s.thread.next /\ k = s.thread.last + 1 /\ db.jobs[k] > 0
    BY <1>1, TurnFits
  <2> HIDE DEF s
  <2>2. QED
    BY <2>1, DBTyped, ThreadTyped DEF Swept, DbFit
<1>3. PICK status \in {"dead", "skipped"} : db' = Done(GiveUp(d, k, status), k)
  BY DEF ClaimAbandon
<1> HIDE DEF s
<1>4. /\ DbFit(d) /\ d.thread = s.thread /\ d.jobs = s.jobs
      /\ \A j \in Slots : j # k => d.rows[j] = s.rows[j]
  BY <1>1, <1>2, ClaimedFits DEF Swept
<1> HIDE DEF d
<1> DEFINE e == GiveUp(d, k, status)
<1>5. /\ DbFit(e) /\ e.jobs = d.jobs /\ ThreadMoves(d.thread, e.thread)
      /\ e.rows[k].status = status
      /\ \A j \in Slots : j # k => e.rows[j] = d.rows[j]
      /\ e.thread.last = IF k > d.thread.last THEN k ELSE d.thread.last
      /\ \A f \in {"state", "reason", "root"} : e.thread[f] = d.thread[f]
  BY <1>2, <1>4, GiveUpFits
<1> HIDE DEF e
<1>6. DbFit(db') /\ db'.thread = e.thread /\ db'.rows = e.rows
  BY <1>2, <1>3, <1>4, <1>5, DoneFits DEF Swept, e
<1>7. db'.thread.last = k
  BY <1>2, <1>4, <1>5, <1>6
<1>8. Follows(db, db')
  <2>1. Follows(db, s) /\ Follows(d, e)
    BY <1>2, <1>4, <1>5, MovesFollow DEF Swept, IInv
  <2>2. /\ db.thread.next \in Nat /\ s.thread.next \in Nat /\ e.thread.next \in Nat
        /\ db.thread.last \in Nat /\ e.thread.last \in Nat
    BY <1>2, <1>5, DBTyped, ThreadTyped DEF Swept, DbFit, IInv
  <2>3. QED
    BY <1>2, <1>4, <1>6, <2>1, <2>2 DEF Follows
<1>9. Resolved(db'.rows[k].status)
  BY <1>5, <1>6 DEF Resolved
<1>10. QED
  BY <1>2, <1>4, <1>5, <1>6, <1>7, <1>8, <1>9 DEF Swept, ThreadMoves

\* Waited out: the head may be swept on, and nothing else happens to the rows.
LEMMA StalledEffect ==
    ASSUME IInv, NEW k \in Slots, RecoverStalled(k)
    PROVE  /\ Follows(db, db') /\ db'.rows = db.rows /\ db'.thread = Recover(db).thread
           /\ Swept(db, Recover(db)) /\ ~Dead
<1> DEFINE d == Recover(db)
           head == d.thread.last + 1
<1>1. Due(k) /\ ~Dead /\ Decide(db, k) = "recover_thread"
  BY DEF RecoverStalled
<1>2. Swept(db, d)
  BY <1>1, SweptLive DEF IInv, Dead
<1>3. db' = CASE head < d.thread.next -> Enqueue(d, head)
              [] head = d.thread.next /\ d # db -> d
              [] OTHER -> Done(GiveUp(d, k, "dead"), k)
  BY DEF RecoverStalled
<1> HIDE DEF d
<1>4. /\ DbFit(d) /\ d.thread.last \in Nat /\ d.thread.next \in Nat
      /\ db.thread.last \in Nat /\ db.thread.next \in Nat /\ d.thread.last < d.thread.next
      /\ d.thread.next <= MaxSeq + 1 /\ MaxSeq \in Nat /\ d.thread.next = db.thread.next
  BY <1>2, DBTyped, ThreadTyped, LimitAssumption
     DEF Swept, DbFit, IInv, LimitAssumption, ThreadMoves
<1>5. CASE head < d.thread.next
  <2>1. db' = Enqueue(d, head)
    <3>1. ~(head = d.thread.next)
      BY <1>4, <1>5
    <3>2. QED
      BY <1>3, <1>5, <3>1
  <2>2. head \in Slots
    BY <1>4, <1>5 DEF Slots
  <2>3. DbFit(db') /\ db'.thread = d.thread /\ db'.rows = d.rows
    BY <1>4, <1>5, <2>1, <2>2, EnqueueFits
  <2>4. QED
    BY <1>1, <1>2, <2>3, MovesFollow DEF Swept, IInv, d
<1>6. CASE head = d.thread.next /\ d # db
  <2>1. db' = d
    BY <1>3, <1>6, <1>4
  <2>2. QED
    BY <1>1, <1>2, <2>1, MovesFollow DEF Swept, IInv, d
<1>7. CASE head = d.thread.next /\ d = db
  <2>1. k < db.thread.next /\ k \in Nat
    BY <1>1 DEF Due, IInv, DbFit, Slots
  <2>2. k <= db.thread.last
    BY <1>4, <1>7, <2>1
  <2>3. Decide(db, k) = "out_of_order"
    <3>1. ~(k = db.thread.last + 1)
      BY <1>4, <2>1, <2>2
    <3>2. QED
      BY <1>1, <2>2, <3>1 DEF Decide, Dead
  <2>4. QED
    BY <1>1, <2>3
<1>8. QED
  BY <1>4, <1>5, <1>6, <1>7

\* The pointer is cleared, and delivery k is to become the fresh root.
LEMMA PointerEffect ==
    ASSUME TypeOK, IInv, NEW k \in Slots, RecoverPointer(k)
    PROVE  /\ Follows(db, db') /\ db'.thread.last = db.thread.last
           /\ db'.thread.root = 0 /\ db'.rows[k].status = "pending"
           /\ db'.thread.next = db.thread.next
           /\ \A j \in Slots : j # k => db'.rows[j] = db.rows[j]
           /\ Dead
<1> DEFINE t == [db.thread EXCEPT !.root = 0, !.replies = 0, !.state = "opening",
                                  !.reason = "none"]
           a == [db EXCEPT !.thread = t]
           r == a.rows[k]
           p == [r EXCEPT !.mode = "post_root", !.status = "pending", !.ambiguous = TRUE]
           b == [a EXCEPT !.rows[k] = p]
           o == b.rows[k]
           q == [o EXCEPT !.hash = "none", !.claimedAt = NoTime, !.nextAt = now]
           e == [b EXCEPT !.rows[k] = q]
<1>1. /\ db.thread \in Thread /\ db.thread.last \in Nat /\ db.thread.last < db.thread.next
      /\ db \in DB /\ DbFit(db)
  BY DBTyped, ThreadTyped DEF IInv, DbFit
<1>2. ThreadMoves(db.thread, t) /\ t.last = db.thread.last /\ t.root = 0
      /\ t.next = db.thread.next
  <2>1. /\ t \in Thread /\ t.last = db.thread.last /\ t.root = 0
        /\ t.next = db.thread.next /\ t.digest = db.thread.digest
    BY <1>1 DEF Thread
  <2> HIDE DEF t
  <2>2. QED
    BY <1>1, <2>1 DEF ThreadMoves
<1>3. a = [db EXCEPT !.thread.root = 0, !.thread.replies = 0, !.thread.state = "opening",
                     !.thread.reason = "none"]
  BY <1>1, DBTyped
<1> HIDE DEF t
<1>4. DbFit(a) /\ a.thread = t /\ a.rows = db.rows /\ a.jobs = db.jobs
  BY <1>1, <1>2, SetThread
<1>5. db' = [a EXCEPT
         !.rows[k].mode = "post_root", !.rows[k].status = "pending",
         !.rows[k].ambiguous = TRUE, !.rows[k].hash = "none",
         !.rows[k].claimedAt = NoTime, !.rows[k].nextAt = now]
  BY <1>3 DEF RecoverPointer
<1> HIDE DEF a
<1>6. Dead /\ k < db.thread.next /\ k < a.thread.next
  BY <1>2, <1>4 DEF RecoverPointer, Due, Stale, IInv, DbFit
<1>7. b = [a EXCEPT !.rows[k].mode = "post_root", !.rows[k].status = "pending",
                    !.rows[k].ambiguous = TRUE]
  BY <1>4, DBTyped, RowTyped DEF DbFit
<1>8. RowMoves(a, p) /\ p.status = "pending" /\ p.mode = "post_root"
  <2>1. r \in Delivery
    BY <1>4, RowTyped
  <2>2. "pending" \in Statuses /\ "post_root" \in Modes
    BY DEF Statuses, Modes
  <2> HIDE DEF r
  <2>3. p \in Delivery /\ p.status = "pending" /\ p.mode = "post_root"
    BY <2>1, <2>2 DEF Delivery
  <2>4. QED
    BY <2>3 DEF RowMoves
<1>9. db' = [b EXCEPT !.rows[k].hash = "none", !.rows[k].claimedAt = NoTime,
                      !.rows[k].nextAt = now]
  BY <1>5, <1>7
<1> HIDE DEF p
<1>10. /\ DbFit(b) /\ b.thread = a.thread /\ b.rows = [a.rows EXCEPT ![k] = p]
       /\ b.jobs = a.jobs
  BY <1>4, <1>6, <1>8, SetRow
<1> HIDE DEF b
<1>11. db' = e
  <2>1. b \in DB /\ o \in Delivery
    BY <1>4, <1>10, RowTyped DEF DbFit
  <2>2. b.rows \in [Slots -> Delivery]
        /\ b = [thread |-> b.thread, rows |-> b.rows, notes |-> b.notes, jobs |-> b.jobs]
    BY <2>1, DBTyped
  <2> DEFINE R == b.rows
             With(f) == [thread |-> b.thread, rows |-> f, notes |-> b.notes,
                         jobs |-> b.jobs]
             o1 == [o EXCEPT !.hash = "none"]
             o2 == [o1 EXCEPT !.claimedAt = NoTime]
             b1 == [b EXCEPT !.rows[k].hash = "none"]
             b2 == [b1 EXCEPT !.rows[k].claimedAt = NoTime]
             b3 == [b2 EXCEPT !.rows[k].nextAt = now]
  <2>3. db' = b3
    BY <1>9, Zenon
  <2>4. b = With(R) /\ R[k] = o /\ DOMAIN R = Slots
    BY <2>2
  <2>5. q = [o2 EXCEPT !.nextAt = now]
    BY <2>1 DEF Delivery
  <2>6. e = With([R EXCEPT ![k] = q])
    BY <2>2
  <2> HIDE DEF b, o, q, R, e
  <2>7. b1 = With([R EXCEPT ![k] = o1])
    BY <2>4
  <2> HIDE DEF o1, b1
  <2>8. b2 = With([R EXCEPT ![k] = o2])
    BY <2>4, <2>7
  <2> HIDE DEF o2, b2
  <2>9. b3 = With([R EXCEPT ![k] = q])
    BY <2>4, <2>5, <2>8
  <2>10. QED
    BY <2>3, <2>6, <2>9, Zenon
<1>12. RowMoves(b, q) /\ q.status = "pending"
  <2>1. o = p /\ o \in Delivery
    BY <1>4, <1>8, <1>10, DBTyped DEF DbFit, RowMoves
  <2>2. NoTime \in Int /\ now \in Int /\ "none" \in Contents \cup {"none"}
    BY DEF NoTime, TypeOK
  <2> HIDE DEF o
  <2>3. q \in Delivery /\ q.status = o.status /\ q.mode = o.mode
    BY <2>1, <2>2 DEF Delivery
  <2>4. QED
    BY <1>8, <2>1, <2>3 DEF RowMoves
<1> HIDE DEF q
<1>13. DbFit(e) /\ e.thread = b.thread /\ e.rows = [b.rows EXCEPT ![k] = q]
  BY <1>6, <1>10, <1>12, SetRow
<1> HIDE DEF e
<1>14. e.rows[k] = q /\ \A j \in Slots : j # k => e.rows[j] = db.rows[j]
  BY <1>4, <1>10, <1>13, DBTyped DEF DbFit
<1>15. Follows(db, db')
  BY <1>1, <1>2, <1>4, <1>10, <1>11, <1>13, MovesFollow
<1>16. QED
  BY <1>2, <1>4, <1>6, <1>10, <1>11, <1>12, <1>13, <1>14, <1>15

\* The destination is gone: the head passes the whole queue.
LEMMA GoneEffect ==
    ASSUME IInv, NEW k \in Slots, RecoverGone(k)
    PROVE  /\ Follows(db, db') /\ db'.thread.last = db.thread.next - 1
           /\ db'.thread.next = db.thread.next
           /\ db'.thread.state = "dead" /\ db'.thread.root = db.thread.root
           /\ db'.thread.reason = db.thread.reason
           /\ db'.rows[k].status = "dead" /\ Dead
           /\ \A j \in Slots : j # k =>
                db'.rows[j].status =
                  IF /\ j > db.thread.last /\ j < db.thread.next
                     /\ db.rows[j].status \in {"pending", "failed"}
                  THEN "skipped" ELSE db.rows[j].status
<1> DEFINE d == Recover(db)
           e == GiveUp(d, k, "dead")
<1>1. Dead /\ db.jobs[k] > 0 /\ DbFit(db)
  BY DEF RecoverGone, Due, Stale, IInv
<1>2. /\ db.thread.last \in Nat /\ db.thread.next \in Nat /\ k < db.thread.next /\ k \in Nat
  BY <1>1, DBTyped, ThreadTyped DEF DbFit, Slots
<1>3. SweepTo(db) = db.thread.next - 1
  <2>1. SweepTo(db) \in db.thread.last..(db.thread.next - 1) /\ StopsAt(db, SweepTo(db))
    BY <1>1, SweepFits
  <2>2. QED
    BY <1>1, <1>2, <2>1 DEF StopsAt, Dead
<1>4. /\ DbFit(d) /\ ThreadMoves(db.thread, d.thread) /\ d.jobs = db.jobs
      /\ d.thread.last = db.thread.next - 1 /\ d.thread.state = db.thread.state
      /\ d.thread.root = db.thread.root /\ d.thread.reason = db.thread.reason
      /\ \A j \in Slots :
           d.rows[j].status =
             IF /\ j > db.thread.last /\ j <= db.thread.next - 1
                /\ db.rows[j].status \in {"pending", "failed"}
             THEN "skipped" ELSE db.rows[j].status
  BY <1>1, <1>3, RecoverFits
<1>5. db' = Done(e, k)
  BY DEF RecoverGone
<1> HIDE DEF d
<1>6. k < d.thread.next
  BY <1>2, <1>4 DEF ThreadMoves
<1>7. /\ DbFit(e) /\ e.jobs = d.jobs /\ ThreadMoves(d.thread, e.thread)
      /\ e.rows[k].status = "dead"
      /\ \A j \in Slots : j # k => e.rows[j] = d.rows[j]
      /\ e.thread.last = IF k > d.thread.last THEN k ELSE d.thread.last
      /\ \A f \in {"state", "reason", "root"} : e.thread[f] = d.thread[f]
  BY <1>4, <1>6, GiveUpFits
<1> HIDE DEF e
<1>8. DbFit(db') /\ db'.thread = e.thread /\ db'.rows = e.rows
  BY <1>1, <1>4, <1>5, <1>7, DoneFits
<1>9. /\ db'.thread.last = db.thread.next - 1 /\ db'.thread.next = db.thread.next
      /\ db'.thread.state = "dead" /\ db'.thread.root = db.thread.root
      /\ db'.thread.digest = db.thread.digest /\ db'.thread.reason = db.thread.reason
  BY <1>1, <1>2, <1>4, <1>7, <1>8 DEF ThreadMoves, Dead
<1>10. Follows(db, db')
  BY <1>1, <1>2, <1>8, <1>9 DEF Follows, DbFit
<1>11. \A j \in Slots : j # k =>
                db'.rows[j].status =
                  IF /\ j > db.thread.last /\ j < db.thread.next
                     /\ db.rows[j].status \in {"pending", "failed"}
                  THEN "skipped" ELSE db.rows[j].status
  BY <1>2, <1>4, <1>7, <1>8 DEF Slots
<1>12. QED
  BY <1>1, <1>7, <1>8, <1>9, <1>10, <1>11

\* TX 2, by what the provider answered.
LEMMA RecordEffect ==
    ASSUME TypeOK, IInv, NEW w \in Workers, Record(w)
    PROVE  LET c == worker[w]
               k == c.slot
           IN /\ Follows(db, db') /\ db'.thread.next = db.thread.next
              /\ db'.thread.reason \in {db.thread.reason, "none", c.answer}
              /\ \A j \in Slots : j # k => db'.rows[j] = db.rows[j]
              /\ \/ c.answer = "ok" /\ db.rows[k].status # "sending" /\ db' = db
                 \/ /\ c.answer = "ok" /\ Resolved(db'.rows[k].status)
                    /\ db'.thread.last = Past(db.thread, k)
                    /\ db'.thread.root = IF c.mode = "post_root" THEN c.card ELSE db.thread.root
                    /\ db'.thread.state =
                         IF c.mode = "post_root" THEN "open" ELSE db.thread.state
                 \/ /\ c.answer # "ok" /\ Resolved(db'.rows[k].status)
                    /\ db'.thread.last = Past(db.thread, k)
                    /\ db'.thread.root = db.thread.root /\ db'.thread.state = db.thread.state
                 \/ /\ c.answer # "ok" /\ db'.rows[k].status = "failed"
                    /\ db'.thread.last = db.thread.last /\ db'.thread.root = db.thread.root
<1> DEFINE c == worker[w]
           k == c.slot
<1>1. c.pc = "answered" /\ now \in Int /\ DbFit(db)
  BY DEF Record, TypeOK, IInv
<1>2. k \in Slots /\ k < db.thread.next
  BY <1>1 DEF IInv, WorkersFit, WorkerFits
<1>3. c.mode \in Modes /\ c.card \in Nat
  BY DEF TypeOK, Worker
<1>4. CASE c.answer = "ok" /\ db.rows[k].status # "sending" /\ db' = succeed(db, c)
  <2>1. db' = db
    BY <1>4 DEF succeed
  <2>2. QED
    BY <1>1, <1>4, <2>1, SameThreadFollows
<1>5. CASE c.answer = "ok" /\ db.rows[k].status = "sending" /\ db' = succeed(db, c)
  <2> HIDE DEF c
  <2>1. /\ DbFit(db') /\ ThreadMoves(db.thread, db'.thread)
        /\ db'.thread.last = Past(db.thread, k)
        /\ db'.thread.root = IF c.mode = "post_root" THEN c.card ELSE db.thread.root
        /\ db'.thread.state = IF c.mode = "post_root" THEN "open" ELSE db.thread.state
        /\ db'.rows[k].status = "sent" /\ db'.thread.reason \in {db.thread.reason, "none"}
        /\ \A j \in Slots : j # k => db'.rows[j] = db.rows[j]
    BY <1>1, <1>2, <1>3, <1>5, succeedFits
  <2>2. Follows(db, db') /\ db'.thread.next = db.thread.next
    BY <1>1, <2>1, MovesFollow DEF ThreadMoves
  <2>3. Resolved(db'.rows[k].status)
    BY <2>1 DEF Resolved
  <2>4. QED
    BY <1>5, <2>1, <2>2, <2>3 DEF c
<1>6. CASE c.answer \in {"pointer", "gone"} /\ db' = failThread(db, k, c.answer)
  <2> HIDE DEF c
  <2>1. /\ DbFit(db') /\ ThreadMoves(db.thread, db'.thread)
        /\ db'.thread.last = db.thread.last /\ db'.thread.root = db.thread.root
        /\ db'.thread.state = "dead" /\ db'.rows[k].status = "failed"
        /\ db'.thread.reason \in {db.thread.reason, c.answer}
        /\ \A j \in Slots : j # k => db'.rows[j] = db.rows[j]
    BY <1>1, <1>2, <1>6, failThreadFits
  <2>2. Follows(db, db') /\ db'.thread.next = db.thread.next
    BY <1>1, <2>1, MovesFollow DEF ThreadMoves
  <2>3. c.answer # "ok"
    BY <1>6
  <2>4. QED
    BY <2>1, <2>2, <2>3 DEF c
<1>7. CASE c.answer \in {"fatal", "retry"} /\ db' = GiveUp(db, k, "dead")
  <2> HIDE DEF c
  <2>1. /\ DbFit(db') /\ ThreadMoves(db.thread, db'.thread)
        /\ db'.rows[k].status = "dead"
        /\ \A j \in Slots : j # k => db'.rows[j] = db.rows[j]
        /\ db'.thread.last = IF k > db.thread.last THEN k ELSE db.thread.last
        /\ db'.thread.root = db.thread.root /\ db'.thread.state = db.thread.state
        /\ db'.thread.reason = db.thread.reason
    BY <1>1, <1>2, <1>7, GiveUpFits
  <2>2. Follows(db, db') /\ db'.thread.next = db.thread.next
    BY <1>1, <2>1, MovesFollow DEF ThreadMoves
  <2>3. c.answer # "ok" /\ Resolved(db'.rows[k].status)
        /\ db'.thread.last = Past(db.thread, k)
    BY <1>7, <2>1 DEF Resolved, Past
  <2>4. QED
    BY <2>1, <2>2, <2>3 DEF c
<1>8. CASE c.answer = "retry" /\ \E wait \in Backoffs : db' = failRetry(db, k, wait)
  <2> HIDE DEF c
  <2>1. PICK wait \in Int : db' = failRetry(db, k, wait)
    BY <1>8, LimitAssumption DEF LimitAssumption
  <2>2. /\ DbFit(db') /\ db'.thread = db.thread /\ db'.rows[k].status = "failed"
        /\ \A j \in Slots : j # k => db'.rows[j] = db.rows[j]
    BY <1>1, <1>2, <2>1, failRetryFits
  <2>3. Follows(db, db')
    BY <1>1, <2>2, SameThreadFollows
  <2>4. c.answer # "ok"
    BY <1>8
  <2>5. QED
    BY <2>2, <2>3, <2>4 DEF c
<1>9. QED
  BY <1>4, <1>5, <1>6, <1>7, <1>8 DEF Record

\* An operator's retry: the row is pending again, and the head stays where it is.
LEMMA RetryEffect ==
    ASSUME TypeOK, IInv, NEW k \in Slots, retryDelivery(k)
    PROVE  /\ Follows(db, db') /\ db'.thread = db.thread /\ db.rows[k].status = "dead"
           /\ db'.rows[k].status = "pending"
           /\ \A j \in Slots : j # k => db'.rows[j] = db.rows[j]
<1> DEFINE r == db.rows[k]
           q == [r EXCEPT !.status = "pending", !.nextAt = now]
           d == [db EXCEPT !.rows[k] = q]
<1>1. r.status = "dead" /\ now \in Int /\ DbFit(db) /\ db.thread.next \in Nat
  BY DBTyped, ThreadTyped DEF retryDelivery, TypeOK, IInv, DbFit
<1>2. k < db.thread.next
  BY <1>1 DEF DbFit, Slots
<1>3. d = [db EXCEPT !.rows[k].status = "pending", !.rows[k].nextAt = now]
  BY <1>1, DBTyped, RowTyped DEF DbFit
<1>4. RowMoves(db, q) /\ q.status = "pending"
  <2>1. r \in Delivery /\ RowMoves(db, r) /\ "pending" \in Statuses
    BY <1>1, <1>2, RowTyped DEF Statuses
  <2> HIDE DEF r
  <2>2. q \in Delivery /\ q.status = "pending" /\ q.mode = r.mode
    BY <1>1, <2>1 DEF Delivery
  <2>3. QED
    BY <2>1, <2>2 DEF RowMoves
<1>5. db' = Enqueue(d, k) \/ db' = d
  BY <1>3 DEF retryDelivery
<1> HIDE DEF q
<1>6. DbFit(d) /\ d.thread = db.thread /\ d.rows = [db.rows EXCEPT ![k] = q]
  BY <1>1, <1>2, <1>4, SetRow
<1> HIDE DEF d
<1>7. DbFit(db') /\ db'.thread = db.thread /\ db'.rows = d.rows
  BY <1>2, <1>5, <1>6, EnqueueFits
<1>8. db'.rows[k] = q /\ \A j \in Slots : j # k => db'.rows[j] = db.rows[j]
  BY <1>1, <1>6, <1>7, DBTyped DEF DbFit
<1>9. QED
  BY <1>1, <1>4, <1>7, <1>8, SameThreadFollows

\* A job comes or goes and the rows stay.
LEMMA JobEffect ==
    ASSUME IInv, NEW k \in Slots, k < db.thread.next,
           db' = Requeue(db, k) \/ (db.jobs[k] > 0 /\ db' = Done(db, k))
    PROVE  Follows(db, db') /\ db'.thread = db.thread /\ db'.rows = db.rows
<1>1. db' \in {db, Enqueue(db, k)} \/ (db.jobs[k] > 0 /\ db' = Done(db, k))
  BY DEF Requeue
<1>2. QED
  BY <1>1, EnqueueFits, DoneFits, SameThreadFollows DEF IInv

\* A fan-out adds deliveries at the end of the queue.
LEMMA CommitEffect ==
    ASSUME TypeOK, IInv, NEW n \in Notes, EvaluateCommit(n)
    PROVE  Grows(db, db', 2) /\ Follows(db, db')
<1> DEFINE m == minter[n]
<1>1. m \in Minter /\ m.pc = "commit" /\ db' = fanOut(db, n, m)
      /\ db.thread.next + Len(PlanFor(m.reason, m.rooted)) <= MaxSeq + 1
  BY DEF EvaluateCommit, TypeOK
<1>2. /\ m.at \in Int /\ m.reason \in Reasons /\ PlanFor(m.reason, m.rooted) # <<>>
      /\ db.thread.digest => m.reason = "digest"
  BY <1>1 DEF Minter, IInv, MintersFit
<1> HIDE DEF m
<1>3. Grows(db, db', 2)
  BY <1>1, <1>2, fanOutGrows DEF IInv
<1>4. db.thread.last \in Nat
  BY DBTyped, ThreadTyped DEF IInv, DbFit
<1>5. QED
  BY <1>3, <1>4 DEF Grows, Follows

Card == [slot : Slots, content : Contents, labelled : BOOLEAN]

\* The provider is called: what the worker learns, and what the destination shows.
LEMMA DeliverEffect ==
    ASSUME TypeOK, IInv, NEW w \in Workers, Deliver(w)
    PROVE  /\ worker[w].pc = "claimed" /\ worker' \in [Workers -> Worker]
           /\ \A v \in Workers : v # w => worker'[v] = worker[v]
           /\ worker'[w].pc = "answered" /\ worker'[w].answer \in Answers \cup {"retry"}
           /\ \A f \in {"slot", "mode", "at", "root", "hash"} : worker'[w][f] = worker[w][f]
           /\ cards' \in Seq(Card) /\ Len(cards) <= Len(cards')
           /\ worker'[w].card <= Len(cards')
           /\ IF worker'[w].answer = "ok" /\ worker[w].mode = "post_root"
                THEN worker'[w].card = Len(cards')
                ELSE "lost" \notin Answers => Len(cards') = Len(cards)
           /\ posted' = posted \/ posted' = worker[w].slot
           /\ db.thread.digest => \A i \in 1..Len(cards) : cards'[i] = cards[i]
<1> DEFINE c == worker[w]
<1>1. /\ c \in Worker /\ c.pc = "claimed" /\ cards \in Seq(Card) /\ Len(cards) \in Nat
      /\ posted \in 0..MaxSeq
  BY DEF Deliver, TypeOK, Card
<1>2. /\ c.slot \in Slots /\ (c.mode # "thread_reply" => c.hash \in Contents)
      /\ (db.thread.digest => c.mode # "update_root")
      /\ c.mode \in Modes /\ c.labelled \in BOOLEAN /\ c.root \in Nat /\ c.card \in Nat
  BY <1>1 DEF IInv, WorkersFit, WorkerFits, Worker
<1>3. PICK a \in Answers :
            /\ worker' = [worker EXCEPT ![w].pc = "answered",
                            ![w].answer = IF a = "lost" THEN "retry" ELSE a,
                            ![w].card = IF a = "ok" /\ c.mode = "post_root"
                                          THEN Len(cards) + 1 ELSE 0]
            /\ IF a \notin {"ok", "lost"} THEN UNCHANGED <<cards, posted>>
               ELSE /\ posted' = c.slot
                    /\ cards' = CASE c.mode = "post_root" ->
                                       Append(cards, [slot     |-> c.slot,
                                                      content  |-> c.hash,
                                                      labelled |-> c.labelled])
                                  [] c.mode = "update_root" ->
                                       [cards EXCEPT ![c.root].content = c.hash]
                                  [] OTHER -> cards
  BY DEF Deliver
<1> DEFINE ans == IF a = "lost" THEN "retry" ELSE a
           no == IF a = "ok" /\ c.mode = "post_root" THEN Len(cards) + 1 ELSE 0
           e == [c EXCEPT !.pc = "answered", !.answer = ans, !.card = no]
<1>4. /\ ans \in {"none", "ok", "retry", "fatal", "pointer", "gone"} /\ no \in Nat
      /\ ans \in Answers \cup {"retry"}
  BY <1>1, WorldAssumption DEF WorldAssumption
<1>5. /\ e \in Worker /\ e.pc = "answered" /\ e.answer = ans /\ e.card = no
      /\ \A f \in {"slot", "mode", "at", "root", "hash"} : e[f] = c[f]
  <2> HIDE DEF ans, no, c
  <2>1. QED
    BY <1>1, <1>4 DEF Worker
<1>6. /\ worker' \in [Workers -> Worker] /\ worker'[w] = e
      /\ \A v \in Workers : v # w => worker'[v] = worker[v]
  <2>1. worker' = [worker EXCEPT ![w] = e]
    BY <1>3 DEF TypeOK
  <2> HIDE DEF e
  <2>2. QED
    BY <1>5, <2>1 DEF TypeOK
<1>7. /\ cards' \in Seq(Card)
      /\ Len(cards') = IF a \in {"ok", "lost"} /\ c.mode = "post_root"
                         THEN Len(cards) + 1 ELSE Len(cards)
      /\ db.thread.digest => \A i \in 1..Len(cards) : cards'[i] = cards[i]
  <2> HIDE DEF c
  <2>1. CASE a \notin {"ok", "lost"}
    BY <1>1, <1>3, <2>1
  <2>2. CASE a \in {"ok", "lost"} /\ c.mode = "post_root"
    <3> DEFINE x == [slot |-> c.slot, content |-> c.hash, labelled |-> c.labelled]
    <3>1. x \in Card
      BY <1>2, <2>2 DEF Card
    <3>2. cards' = Append(cards, x)
      BY <1>3, <2>2
    <3> HIDE DEF x
    <3>3. QED
      BY <1>1, <2>2, <3>1, <3>2
  <2>3. CASE a \in {"ok", "lost"} /\ c.mode = "update_root"
    <3>1. cards' = [cards EXCEPT ![c.root].content = c.hash] /\ ~db.thread.digest
      BY <1>2, <1>3, <2>3
    <3>2. CASE c.root \in 1..Len(cards)
      <4> DEFINE y == cards[c.root]
                 x == [y EXCEPT !.content = c.hash]
      <4>1. x \in Card
        <5>1. y \in Card /\ c.hash \in Contents
          BY <1>1, <1>2, <2>3, <3>2
        <5> HIDE DEF y
        <5>2. QED
          BY <5>1 DEF Card
      <4>2. cards' = [cards EXCEPT ![c.root] = x]
        BY <3>1
      <4> HIDE DEF x
      <4>3. QED
        BY <1>1, <2>3, <3>1, <3>2, <4>1, <4>2
    <3>3. CASE c.root \notin 1..Len(cards)
      <4>1. cards' = cards
        BY <1>1, <3>1, <3>3
      <4>2. QED
        BY <1>1, <2>3, <3>1, <4>1
    <3>4. QED
      BY <3>2, <3>3
  <2>4. CASE a \in {"ok", "lost"} /\ c.mode = "thread_reply"
    BY <1>1, <1>3, <2>4
  <2>5. QED
    BY <1>2, <2>1, <2>2, <2>3, <2>4 DEF Modes
<1>8. posted' = posted \/ posted' = c.slot
  BY <1>3
<1> HIDE DEF e
<1>9. /\ Len(cards) <= Len(cards') /\ no <= Len(cards')
      /\ IF ans = "ok" /\ c.mode = "post_root"
           THEN no = Len(cards') ELSE "lost" \notin Answers => Len(cards') = Len(cards)
  <2>1. CASE a = "ok" /\ c.mode = "post_root"
    BY <1>1, <1>7, <2>1
  <2>2. CASE ~(a = "ok" /\ c.mode = "post_root")
    BY <1>1, <1>7, <2>2
  <2>3. QED
    BY <2>1, <2>2
<1> HIDE DEF ans, no
<1>10. worker'[w].answer = ans /\ worker'[w].card = no
  BY <1>5, <1>6
<1>11. QED
  BY <1>1, <1>4, <1>5, <1>6, <1>7, <1>8, <1>9, <1>10

(***************************************************************************)
(* Every step keeps the shape of the rows, and never moves the head back.  *)
(***************************************************************************)
\* What one step leaves for the theorems: the invariant, and the action properties.
Kept == TypeRest' /\ IInv' /\ Follows(db, db')

LEMMA InitHolds == Init => TypeOK /\ IInv
<1> SUFFICES ASSUME Init PROVE TypeOK /\ IInv
  OBVIOUS
<1>1. PICK g \in BOOLEAN :
         db = [thread |-> NewThread(g),
               rows   |-> [k \in Slots |-> NoDelivery],
               notes  |-> [n \in Notes |-> [reason |-> "none", status |-> "none"]],
               jobs   |-> [k \in Slots |-> 0]]
  BY DEF Init
<1>2. NewThread(g) \in Thread /\ NewThread(g).next = 1 /\ NewThread(g).last = 0
      /\ NewThread(g).root = 0
  BY DEF NewThread, Thread
<1>3. /\ NoDelivery \in Delivery /\ NoDelivery.status = "none"
      /\ NoDelivery.mode = "post_root"
  BY LimitAssumption DEF LimitAssumption, NoDelivery, Delivery, Statuses, Modes, NoTime
<1>4. db \in DB /\ db.thread = NewThread(g) /\ db.rows = [k \in Slots |-> NoDelivery]
      /\ db.jobs = [k \in Slots |-> 0]
  <2> HIDE DEF NewThread
  <2>1. [reason |-> "none", status |-> "none"] \in [reason : Reasons, status : Aggregates]
    BY DEF Reasons, Aggregates
  <2>2. QED
    BY <1>1, <1>2, <1>3, <2>1 DEF DB
<1>5. DbFit(db)
  BY <1>2, <1>3, <1>4, LimitAssumption DEF DbFit, LimitAssumption, Slots
<1>6. IdleMinter \in Minter /\ IdleMinter.pc = "idle"
  BY DEF IdleMinter, Minter, Reasons, NoTime
<1>7. /\ IdleWorker \in Worker /\ IdleWorker.pc = "idle" /\ IdleWorker.root = 0
      /\ IdleWorker.card = 0
  BY LimitAssumption DEF IdleWorker, Worker, Modes, NoTime, LimitAssumption
<1>8. IInv
  BY <1>5, <1>6, <1>7 DEF Init, IInv, MintersFit, WorkersFit, WorkerFits, OrphansFit
<1>9. TypeRest
  <2>1. /\ now \in 0..MaxTime /\ enabled \in BOOLEAN /\ posted \in 0..MaxSeq
        /\ orphans \in [Slots -> Int]
    BY LimitAssumption DEF Init, LimitAssumption, NoTime
  <2>2. minter \in [Notes -> Minter] /\ worker \in [Workers -> Worker]
    BY <1>6, <1>7 DEF Init
  <2>3. cards \in Seq([slot : Slots, content : Contents, labelled : BOOLEAN]) /\ Len(cards) = 0
    BY DEF Init
  <2>4. \A w \in Workers : worker[w].root <= Len(cards) /\ worker[w].card <= Len(cards)
    BY <1>7, <2>3 DEF Init
  <2>5. QED
    BY <1>2, <1>4, <2>1, <2>2, <2>3, <2>4 DEF TypeRest
<1>10. QED
  BY <1>8, <1>9, TypeParts

LEMMA RootFacts ==
    ASSUME TypeOK
    PROVE  /\ Len(cards) \in Nat /\ db.thread.root \in Nat /\ db.thread.root <= Len(cards)
           /\ 0 <= Len(cards)
BY DBTyped, ThreadTyped DEF TypeOK

\* A step that leaves the rows and the dispatches alone.
LEMMA ElsewhereStep ==
    ASSUME TypeOK, IInv, UNCHANGED <<db, worker, orphans, cards, posted>>,
           now' \in 0..MaxTime, enabled' \in BOOLEAN, UNCHANGED minter
    PROVE  Kept
BY SameThreadFollows
   DEF TypeOK, TypeRest, IInv, MintersFit, WorkersFit, WorkerFits, OrphansFit, Kept

LEMMA StepRead ==
    ASSUME TypeOK, IInv, NEW n \in Notes, EvaluateRead(n)
    PROVE  Kept
<1>1. PICK reason \in Facts :
         /\ reason = "digest" <=> db.thread.digest
         /\ PlanFor(reason, RootLanded(db.thread)) # <<>>
         /\ minter' = [minter EXCEPT ![n] =
              [pc |-> "commit", reason |-> reason, rooted |-> RootLanded(db.thread),
               at |-> now]]
  BY DEF EvaluateRead
<1> DEFINE f == RootLanded(db.thread)
<1>2. f \in BOOLEAN
  BY DEF RootLanded
<1> HIDE DEF f
<1> DEFINE m == [pc |-> "commit", reason |-> reason, rooted |-> f, at |-> now]
<1>3. minter' = [minter EXCEPT ![n] = m] /\ PlanFor(reason, f) # <<>>
  BY <1>1 DEF f
<1>4. /\ m \in Minter /\ m.reason = reason /\ m.rooted = f
  BY <1>2, WorldAssumption DEF Minter, WorldAssumption, Reasons, TypeOK
<1> HIDE DEF m
<1>5. /\ minter' \in [Notes -> Minter] /\ minter'[n] = m
      /\ \A i \in Notes : i # n => minter'[i] = minter[i]
  BY <1>3, <1>4 DEF TypeOK
<1>6. UNCHANGED <<now, db, enabled, worker, orphans, cards, posted>>
  BY DEF EvaluateRead
<1>7. TypeRest'
  BY <1>5, <1>6 DEF TypeOK, TypeRest
<1>8. MintersFit'
  BY <1>1, <1>3, <1>4, <1>5, <1>6 DEF IInv, MintersFit
<1>9. IInv'
  BY <1>6, <1>8 DEF IInv, WorkersFit, WorkerFits, OrphansFit
<1>10. QED
  BY <1>6, <1>7, <1>9, SameThreadFollows DEF Kept, IInv

LEMMA StepCommit ==
    ASSUME TypeOK, IInv, NEW n \in Notes, EvaluateCommit(n)
    PROVE  Kept
<1>1. Grows(db, db', 2) /\ Follows(db, db')
  BY CommitEffect
<1>2. /\ minter' = [minter EXCEPT ![n] = IdleMinter]
      /\ UNCHANGED <<now, enabled, worker, orphans, cards, posted>>
  BY DEF EvaluateCommit
<1>3. IdleMinter \in Minter /\ IdleMinter.pc = "idle"
  BY DEF IdleMinter, Minter, Reasons, NoTime
<1>4. /\ minter' \in [Notes -> Minter] /\ minter'[n] = IdleMinter
      /\ \A i \in Notes : i # n => minter'[i] = minter[i]
  BY <1>2, <1>3 DEF TypeOK
<1>5. TypeRest'
  BY <1>1, <1>2, <1>4 DEF TypeOK, TypeRest, Grows
<1>6. db.thread.next \in Nat /\ db'.thread.next \in Nat /\ DbFit(db')
  BY <1>1, DBTyped, ThreadTyped DEF IInv, DbFit, Follows
<1>7. MintersFit'
  BY <1>1, <1>3, <1>4 DEF IInv, MintersFit, Follows
<1>8. WorkersFit' /\ OrphansFit'
  BY <1>1, <1>2, <1>6 DEF IInv, WorkersFit, WorkerFits, OrphansFit, Follows, Slots
<1>9. QED
  BY <1>1, <1>5, <1>6, <1>7, <1>8 DEF IInv, Kept

LEMMA StepClaim ==
    ASSUME TypeOK, IInv, NEW w \in Workers, NEW k \in Slots, Claim(w, k)
    PROVE  Kept /\ k < db.thread.next /\ db'.thread.root = db.thread.root
<1>1. /\ Follows(db, db') /\ db'.thread = Seen(k).thread
      /\ worker'[w].slot = k /\ worker'[w].root = db'.thread.root /\ worker'[w].card = 0
      /\ worker' \in [Workers -> Worker]
      /\ worker'[w].mode # "thread_reply" => worker'[w].hash \in Contents
      /\ db.thread.digest => worker'[w].mode # "update_root"
      /\ \A v \in Workers : v # w => worker'[v] = worker[v]
  BY ClaimEffect
<1>2. MyTurn(k) /\ UNCHANGED <<now, enabled, minter, orphans, cards, posted>>
  BY DEF Claim
<1>3. k < db.thread.next /\ Seen(k).thread.root = db.thread.root
  BY <1>2, TurnFits DEF Swept
<1>4. TypeRest'
  <2>1. db'.thread.root <= Len(cards)
    BY <1>1, <1>3, RootFacts
  <2>2. worker'[w].root <= Len(cards) /\ worker'[w].card <= Len(cards)
    BY <1>1, <1>3, RootFacts
  <2>3. QED
    BY <1>1, <1>2, <2>1, <2>2 DEF TypeOK, TypeRest
<1>5. db.thread.next \in Nat /\ db'.thread.next \in Nat /\ DbFit(db')
  BY <1>1, DBTyped, ThreadTyped DEF IInv, DbFit, Follows
<1>6. MintersFit' /\ OrphansFit'
  BY <1>1, <1>2, <1>5 DEF IInv, MintersFit, OrphansFit, Follows, Slots
<1>7. WorkersFit'
  <2> SUFFICES ASSUME NEW v \in Workers PROVE WorkerFits(v)'
    BY DEF WorkersFit
  <2>1. CASE v = w
    BY <1>1, <1>3, <1>5, <2>1 DEF WorkerFits, Follows, Slots
  <2>2. CASE v # w
    BY <1>1, <1>5, <2>2 DEF IInv, WorkersFit, WorkerFits, Follows, Slots
  <2>3. QED
    BY <2>1, <2>2
<1>8. QED
  BY <1>1, <1>3, <1>4, <1>5, <1>6, <1>7 DEF IInv, Kept

LEMMA StepDeliver ==
    ASSUME TypeOK, IInv, NEW w \in Workers, Deliver(w)
    PROVE  Kept
<1>1. /\ worker[w].pc = "claimed" /\ worker' \in [Workers -> Worker]
      /\ \A v \in Workers : v # w => worker'[v] = worker[v]
      /\ \A f \in {"slot", "mode", "at", "root", "hash"} : worker'[w][f] = worker[w][f]
      /\ cards' \in Seq(Card) /\ Len(cards) <= Len(cards')
      /\ worker'[w].card <= Len(cards')
      /\ posted' = posted \/ posted' = worker[w].slot
  BY DeliverEffect
<1>2. UNCHANGED <<now, db, enabled, minter, orphans>>
  BY DEF Deliver
<1>3. Len(cards) \in Nat /\ Len(cards') \in Nat /\ worker[w].slot \in 0..MaxSeq
      /\ \A v \in Workers : worker[v] \in Worker /\ worker[v].root \in Nat /\ worker[v].card \in Nat
  BY <1>1 DEF TypeOK, Worker
<1>4. \A v \in Workers : worker'[v].root <= Len(cards') /\ worker'[v].card <= Len(cards')
  BY <1>1, <1>3 DEF TypeOK
<1>5. db.thread.root <= Len(cards')
  BY <1>1, <1>3, RootFacts
<1>6. TypeRest'
  BY <1>1, <1>2, <1>3, <1>4, <1>5 DEF TypeOK, TypeRest, Card
<1>7. MintersFit' /\ OrphansFit'
  BY <1>2 DEF IInv, MintersFit, OrphansFit
<1>8. WorkersFit'
  BY <1>1, <1>2 DEF IInv, WorkersFit, WorkerFits
<1>9. QED
  BY <1>2, <1>6, <1>7, <1>8, SameThreadFollows DEF IInv, Kept

LEMMA StepRecord ==
    ASSUME TypeOK, IInv, NEW w \in Workers, Record(w)
    PROVE  Kept
<1>1. /\ Follows(db, db')
      /\ db'.thread.root = worker[w].card \/ db'.thread.root = db.thread.root
  BY RecordEffect
<1>2. db'.thread.root <= Len(cards)
  BY <1>1, RootFacts DEF TypeOK
<1>3. /\ worker' = [worker EXCEPT ![w] = IdleWorker]
      /\ UNCHANGED <<now, enabled, minter, orphans, cards, posted>>
  BY DEF Record
<1>4. orphans' \in [Slots -> Int] /\ \A k \in Slots : orphans'[k] # NoTime => k < db.thread.next
  BY <1>3 DEF TypeOK, IInv, OrphansFit
<1>5. QED
  BY <1>1, <1>2, <1>3, <1>4, IdleStep DEF Kept

\* TX 2 fails, or the pod dies: the worker is gone and its row stays as it was.
LEMMA StepLost ==
    ASSUME TypeOK, IInv, NEW w \in Workers, RecordFails(w) \/ Crash(w)
    PROVE  Kept /\ db'.thread = db.thread /\ db'.rows = db.rows
<1>1. worker[w].slot \in Slots /\ worker[w].slot < db.thread.next
  BY DEF RecordFails, Crash, IInv, WorkersFit, WorkerFits
<1>2. /\ worker' = [worker EXCEPT ![w] = IdleWorker]
      /\ UNCHANGED <<now, enabled, minter, cards, posted>>
  BY DEF RecordFails, Crash
<1>3. CASE RecordFails(w)
  <2>1. Follows(db, db') /\ db'.thread = db.thread /\ db'.rows = db.rows
    BY <1>1, <1>3, JobEffect DEF RecordFails
  <2>2. orphans' \in [Slots -> Int] /\ \A k \in Slots : orphans'[k] # NoTime => k < db.thread.next
    BY <1>3 DEF RecordFails, TypeOK, IInv, OrphansFit
  <2>3. QED
    BY <1>2, <2>1, <2>2, IdleStep, RootFacts DEF Kept
<1>4. CASE Crash(w)
  <2>1. UNCHANGED db /\ orphans' = [orphans EXCEPT ![worker[w].slot] = now]
    BY <1>4 DEF Crash
  <2>2. orphans' \in [Slots -> Int] /\ \A k \in Slots : orphans'[k] # NoTime => k < db.thread.next
    BY <1>1, <2>1 DEF TypeOK, IInv, OrphansFit
  <2>3. Follows(db, db')
    BY <2>1, SameThreadFollows DEF IInv
  <2>4. QED
    BY <1>2, <2>1, <2>2, <2>3, IdleStep, RootFacts DEF Kept
<1>5. QED
  BY <1>3, <1>4

LEMMA StepRescue ==
    ASSUME TypeOK, IInv, NEW k \in Slots, Rescue(k)
    PROVE  Kept /\ db'.thread = db.thread /\ db'.rows = db.rows
<1>1. k < db.thread.next /\ UNCHANGED <<now, enabled, minter, worker, cards, posted>>
  BY DEF Rescue, IInv, OrphansFit
<1>2. Follows(db, db') /\ db'.thread = db.thread /\ db'.rows = db.rows
  BY <1>1, JobEffect DEF Rescue
<1>3. /\ orphans' \in [Slots -> Int]
      /\ \A j \in Slots : orphans'[j] # NoTime => j < db.thread.next
  BY DEF Rescue, TypeOK, IInv, OrphansFit, NoTime
<1>4. TypeRest'
  BY <1>1, <1>2, <1>3, RootFacts DEF TypeOK, TypeRest
<1>5. IInv'
  BY <1>1, <1>2, <1>3 DEF IInv, MintersFit, WorkersFit, WorkerFits, OrphansFit, Follows
<1>6. QED
  BY <1>2, <1>4, <1>5 DEF Kept

LEMMA StepExit ==
    ASSUME TypeOK, IInv, NEW k \in Slots, ExitQuietly(k)
    PROVE  Kept /\ db'.thread = db.thread /\ db'.rows = db.rows
<1>1. k < db.thread.next /\ UNCHANGED <<now, enabled, minter, worker, orphans, cards, posted>>
  BY DEF ExitQuietly, IInv, DbFit
<1>2. Follows(db, db') /\ db'.thread = db.thread /\ db'.rows = db.rows
  BY <1>1, JobEffect DEF ExitQuietly
<1>3. QED
  BY <1>1, <1>2, DbStep, RootFacts DEF Kept

LEMMA StepPrepare ==
    ASSUME TypeOK, IInv, NEW k \in Slots,
           ClaimAbandon(k) \/ RecoverStalled(k) \/ RecoverPointer(k) \/ RecoverGone(k)
             \/ retryDelivery(k)
    PROVE  Kept
<1>1. UNCHANGED <<now, enabled, minter, worker, orphans, cards, posted>>
  BY DEF ClaimAbandon, RecoverStalled, RecoverPointer, RecoverGone, retryDelivery
<1>2. CASE ClaimAbandon(k)
  BY <1>1, <1>2, AbandonEffect, DbStep, RootFacts DEF Kept
<1>3. CASE RecoverStalled(k)
  <2>1. Follows(db, db') /\ db'.thread.root = db.thread.root
    BY <1>3, StalledEffect DEF Swept
  <2>2. QED
    BY <1>1, <2>1, DbStep, RootFacts DEF Kept
<1>4. CASE RecoverPointer(k)
  BY <1>1, <1>4, PointerEffect, DbStep, RootFacts DEF Kept
<1>5. CASE RecoverGone(k)
  BY <1>1, <1>5, GoneEffect, DbStep, RootFacts DEF Kept
<1>6. CASE retryDelivery(k)
  BY <1>1, <1>6, RetryEffect, DbStep, RootFacts DEF Kept
<1>7. QED
  BY <1>2, <1>3, <1>4, <1>5, <1>6

\* Every step, by its action.
LEMMA StepKept ==
    ASSUME TypeOK, IInv, [Next]_vars
    PROVE  Kept
<1>1. CASE Tick \/ SetEnabled
  <2>1. /\ UNCHANGED <<db, worker, orphans, cards, posted, minter>>
        /\ now' \in 0..MaxTime /\ enabled' \in BOOLEAN
    <3>1. CASE Tick
      BY <3>1, LimitAssumption DEF Tick, TypeOK, LimitAssumption
    <3>2. CASE SetEnabled
      <4>1. UNCHANGED <<db, worker, orphans, cards, posted, minter, now>> /\ enabled' = ~enabled
        BY <3>2 DEF SetEnabled
      <4>2. enabled' \in BOOLEAN
        BY <4>1
      <4>3. QED
        BY <4>1, <4>2 DEF TypeOK
    <3>3. QED
      BY <1>1, <3>1, <3>2
  <2>2. QED
    BY <2>1, ElsewhereStep
<1>2. CASE \E n \in Notes : EvaluateRead(n) \/ EvaluateCommit(n)
  BY <1>2, StepRead, StepCommit
<1>3. CASE \E k \in Slots : prepare(k) \/ Rescue(k) \/ retryDelivery(k)
  BY <1>3, StepExit, StepPrepare, StepClaim, StepRescue DEF prepare
<1>4. CASE \E w \in Workers : Deliver(w) \/ Record(w) \/ RecordFails(w) \/ Crash(w)
  BY <1>4, StepDeliver, StepRecord, StepLost
<1>5. CASE UNCHANGED vars
  <2>1. /\ UNCHANGED <<db, worker, orphans, cards, posted, minter>>
        /\ now' \in 0..MaxTime /\ enabled' \in BOOLEAN
    BY <1>5 DEF vars, TypeOK
  <2>2. QED
    BY <2>1, ElsewhereStep
<1>6. QED
  BY <1>1, <1>2, <1>3, <1>4, <1>5 DEF Next

LEMMA StepHolds == TypeOK /\ IInv /\ [Next]_vars => (TypeOK /\ IInv)'
BY StepKept, TypePartsNext DEF Kept

LEMMA InvariantHolds == Spec => [](TypeOK /\ IInv)
BY InitHolds, StepHolds, PTL DEF Spec

\* Rows, queue, workers and cards keep their shape under every fault: the numbers
\* have no hole, whatever is re-run, recovered or retried.
THEOREM ThreadDispatchTypeCorrect == Spec => []TypeOK
BY InvariantHolds, PTL

\* No late or repeated TX 2, sweep or give-up walks last_sent_seq backwards, even
\* when a pod stalls past its lease and another has taken its delivery over.
THEOREM HeadIsMonotone == Spec => HeadNeverRewinds
<1>1. TypeOK /\ IInv /\ [Next]_vars => [db'.thread.last >= db.thread.last]_vars
  <2> SUFFICES ASSUME TypeOK, IInv, [Next]_vars PROVE db'.thread.last >= db.thread.last
    OBVIOUS
  <2>1. Follows(db, db') /\ DbFit(db) /\ DbFit(db')
    BY StepKept DEF Kept, Follows, IInv
  <2>2. db.thread.last \in Nat /\ db'.thread.last \in Nat
    BY <2>1, DBTyped, ThreadTyped DEF DbFit
  <2>3. QED
    BY <2>1, <2>2 DEF Follows
<1>2. QED
  BY <1>1, InvariantHolds, PTL DEF Spec, HeadNeverRewinds

\* Only a call of the provider reaches the destination.
LEMMA OnlyDeliverWrites ==
    ASSUME [Next]_vars, \A w \in Workers : ~Deliver(w)
    PROVE  UNCHANGED <<cards, posted>>
<1>1. CASE Tick \/ SetEnabled
  BY <1>1 DEF Tick, SetEnabled
<1>2. CASE \E n \in Notes : EvaluateRead(n) \/ EvaluateCommit(n)
  BY <1>2 DEF EvaluateRead, EvaluateCommit
<1>3. CASE \E k \in Slots : prepare(k)
  <2>1. PICK k \in Slots : prepare(k)
    BY <1>3
  <2>2. CASE ExitQuietly(k) \/ ClaimAbandon(k) \/ \E w \in Workers : Claim(w, k)
    BY <2>2 DEF ExitQuietly, ClaimAbandon, Claim
  <2>3. CASE RecoverStalled(k) \/ RecoverPointer(k) \/ RecoverGone(k)
    BY <2>3 DEF RecoverStalled, RecoverPointer, RecoverGone
  <2>4. QED
    BY <2>1, <2>2, <2>3 DEF prepare
<1>4. CASE \E k \in Slots : Rescue(k) \/ retryDelivery(k)
  BY <1>4 DEF Rescue, retryDelivery
<1>5. CASE \E w \in Workers : Record(w) \/ RecordFails(w) \/ Crash(w)
  BY <1>5 DEF Record, RecordFails, Crash
<1>6. CASE UNCHANGED vars
  BY <1>6 DEF vars
<1>7. QED
  BY <1>1, <1>2, <1>3, <1>4, <1>5, <1>6 DEF Next

\* No dispatch amends a card of a digest thread, whatever mode its row was minted with
\* and however often the mode is derived anew.
THEOREM DigestsStayReadable == Spec => DigestNeverAmended
<1>1. TypeOK /\ IInv /\ [Next]_vars =>
        [db.thread.digest => \A i \in 1..Len(cards) : cards'[i] = cards[i]]_vars
  <2> SUFFICES ASSUME TypeOK, IInv, [Next]_vars, db.thread.digest
               PROVE  \A i \in 1..Len(cards) : cards'[i] = cards[i]
    OBVIOUS
  <2>1. CASE \E w \in Workers : Deliver(w)
    BY <2>1, DeliverEffect
  <2>2. CASE \A w \in Workers : ~Deliver(w)
    BY <2>2, OnlyDeliverWrites
  <2>3. QED
    BY <2>1, <2>2
<1>2. QED
  BY <1>1, InvariantHolds, PTL DEF Spec, DigestNeverAmended

(***************************************************************************)
(* One message in flight: what holds while no pod stalls past its lease.   *)
(***************************************************************************)
\* A dispatch past its TX 1 works on the delivery right behind the head of a live
\* thread, under a claim that is its own and still within the lease.
Flies(w) ==
    worker[w].pc # "idle" =>
        /\ worker[w].slot = db.thread.last + 1 /\ db.thread.state # "dead"
        /\ db.rows[worker[w].slot].status = "sending"
        /\ db.rows[worker[w].slot].claimedAt = worker[w].at
        /\ now - worker[w].at <= Lease
InFlight == \A w \in Workers : Flies(w)

\* Nothing ahead of the head has reached the destination but the one in flight.
PostedFits == posted <= db.thread.last + 1

Sole == InFlight /\ OneSender /\ PostedFits

Grounded == \A w \in Workers : worker[w].pc = "idle"

LEMMA HeadTyped ==
    ASSUME IInv
    PROVE  /\ db.thread.last \in Nat /\ db.thread.next \in Nat
           /\ db.thread.last < db.thread.next
BY DBTyped, ThreadTyped DEF IInv, DbFit

\* A sweep does not pass the delivery in flight.
LEMMA SweptStays ==
    ASSUME IInv, Sole, NEW e, Swept(db, e), NEW w \in Workers, worker[w].pc # "idle"
    PROVE  e.thread.last = db.thread.last
<1>1. /\ worker[w].slot \in Slots /\ worker[w].slot = db.thread.last + 1
      /\ ~Resolved(db.rows[worker[w].slot].status)
  BY DEF IInv, WorkersFit, WorkerFits, Sole, InFlight, Flies, Resolved
<1>2. e.thread.last \in Nat /\ db.thread.last \in Nat /\ db.thread.last <= e.thread.last
  BY HeadTyped, DBTyped, ThreadTyped DEF Swept, DbFit, ThreadMoves
<1>3. ~(worker[w].slot <= e.thread.last)
  BY <1>1, <1>2 DEF Swept
<1>4. QED
  BY <1>1, <1>2, <1>3

\* Whoever may claim finds nobody in flight: the head's claim is fresh.
LEMMA TurnMeansGrounded ==
    ASSUME TypeOK, IInv, Sole, NEW k \in Slots, MyTurn(k)
    PROVE  Grounded
<1> SUFFICES ASSUME NEW w \in Workers, worker[w].pc # "idle" PROVE FALSE
  BY DEF Grounded
<1>1. Swept(db, Seen(k)) /\ k = Seen(k).thread.last + 1 /\ Claimable(db.rows[k])
  BY TurnFits
<1>2. k = db.thread.last + 1
  BY <1>1, SweptStays
<1>3. /\ db.rows[k].status = "sending" /\ db.rows[k].claimedAt = worker[w].at
      /\ now - worker[w].at <= Lease
  BY <1>2 DEF Sole, InFlight, Flies
<1>4. now \in Int /\ worker[w].at \in Int /\ Lease \in Int
  BY LimitAssumption DEF TypeOK, Worker, LimitAssumption
<1>5. QED
  BY <1>1, <1>3, <1>4 DEF Claimable

LEMMA DeadMeansGrounded ==
    ASSUME Sole, Dead
    PROVE  Grounded
BY DEF Sole, InFlight, Flies, Dead, Grounded

\* A step that leaves whoever is in flight alone.
LEMMA QuietSole ==
    ASSUME IInv, IInv', Sole, UNCHANGED <<now, posted>>, db.thread.last <= db'.thread.last,
           \A w \in Workers : worker'[w].pc # "idle" =>
               /\ worker'[w] = worker[w]
               /\ db'.thread.last = db.thread.last /\ db'.thread.state = db.thread.state
               /\ db'.rows[worker[w].slot] = db.rows[worker[w].slot],
           posted \in Int
    PROVE  Sole'
<1>1. InFlight'
  BY DEF Sole, InFlight, Flies
<1>2. OneSender'
  BY DEF Sole, OneSender
<1>3. db.thread.last \in Nat /\ db'.thread.last \in Nat
  BY DBTyped, ThreadTyped DEF IInv, DbFit
<1>4. PostedFits'
  BY <1>3 DEF Sole, PostedFits
<1>5. QED
  BY <1>1, <1>2, <1>4 DEF Sole

LEMMA SoleCommit ==
    ASSUME TypeOK, IInv, IInv', Sole, NEW n \in Notes, EvaluateCommit(n)
    PROVE  Sole'
<1>1. Grows(db, db', 2) /\ UNCHANGED <<now, posted, worker>>
  BY CommitEffect DEF EvaluateCommit
<1>2. \A w \in Workers : worker[w].pc # "idle" =>
        worker[w].slot \in Slots /\ worker[w].slot < db.thread.next
  BY DEF IInv, WorkersFit, WorkerFits
<1>3. \A w \in Workers : worker[w].pc # "idle" =>
        db'.rows[worker[w].slot] = db.rows[worker[w].slot]
  BY <1>1, <1>2 DEF Grows
<1>4. db'.thread.last = db.thread.last /\ db'.thread.state = db.thread.state
  BY <1>1 DEF Grows
<1>5. db.thread.last <= db'.thread.last /\ posted \in Int
  BY <1>4, HeadTyped DEF TypeOK
<1>6. QED
  BY <1>1, <1>3, <1>4, <1>5, QuietSole

\* A step after which nobody is in flight.
LEMMA GroundedSole ==
    ASSUME IInv, IInv', Sole, Grounded', UNCHANGED <<now, posted>>,
           db.thread.last <= db'.thread.last, posted \in Int
    PROVE  Sole'
<1>1. \A w \in Workers : worker'[w].pc = "idle"
  BY DEF Grounded
<1>2. QED
  BY <1>1, QuietSole

LEMMA SoleClaim ==
    ASSUME TypeOK, IInv, IInv', Sole, NEW w \in Workers, NEW k \in Slots, Claim(w, k)
    PROVE  Sole'
<1>1. MyTurn(k) /\ UNCHANGED <<now, posted>>
  BY DEF Claim
<1>2. Grounded
  BY <1>1, TurnMeansGrounded
<1>3. /\ Follows(db, db') /\ db'.thread = Seen(k).thread
      /\ db'.rows[k].status = "sending" /\ db'.rows[k].claimedAt = now
      /\ worker'[w].pc = "claimed" /\ worker'[w].slot = k /\ worker'[w].at = now
      /\ \A v \in Workers : v # w => worker'[v] = worker[v]
  BY ClaimEffect
<1>4. k = db'.thread.last + 1 /\ db'.thread.state # "dead"
  BY <1>1, <1>3, TurnFits DEF Swept, Dead
<1>5. \A v \in Workers : worker'[v].pc # "idle" => v = w
  BY <1>2, <1>3 DEF Grounded
<1>6. OneSender'
  BY <1>5 DEF OneSender
<1>7. InFlight'
  <2>1. now - now <= Lease
    BY LimitAssumption DEF TypeOK, LimitAssumption
  <2>2. QED
    BY <1>1, <1>3, <1>4, <1>5, <2>1 DEF InFlight, Flies
<1>8. PostedFits'
  <2>1. db.thread.last \in Nat /\ db'.thread.last \in Nat /\ posted \in Int
        /\ db.thread.last <= db'.thread.last
    BY <1>3, HeadTyped, DBTyped, ThreadTyped DEF Follows, DbFit, TypeOK
  <2>2. QED
    BY <1>1, <2>1 DEF Sole, PostedFits
<1>9. QED
  BY <1>6, <1>7, <1>8 DEF Sole

LEMMA SoleDeliver ==
    ASSUME TypeOK, IInv, Sole, NEW w \in Workers, Deliver(w)
    PROVE  Sole' /\ posted' >= posted
<1>1. /\ worker[w].pc = "claimed"
      /\ \A v \in Workers : v # w => worker'[v] = worker[v]
      /\ worker'[w].slot = worker[w].slot /\ worker'[w].at = worker[w].at
      /\ posted' = posted \/ posted' = worker[w].slot
  BY DeliverEffect
<1>2. UNCHANGED <<now, db>>
  BY DEF Deliver
<1>3. \A v \in Workers : worker'[v].pc # "idle" =>
        /\ worker[v].pc # "idle" /\ worker'[v].slot = worker[v].slot
        /\ worker'[v].at = worker[v].at
  BY <1>1
<1>4. InFlight'
  <2> SUFFICES ASSUME NEW v \in Workers, worker'[v].pc # "idle" PROVE Flies(v)'
    BY DEF InFlight, Flies
  <2>1. Flies(v) /\ worker[v].pc # "idle"
    BY <1>3 DEF Sole, InFlight
  <2>2. QED
    BY <1>2, <1>3, <2>1 DEF Flies
<1>5. OneSender'
  BY <1>3 DEF Sole, OneSender
<1>6. /\ worker[w].slot = db.thread.last + 1 /\ db.thread.last \in Nat /\ posted \in Int
      /\ posted <= db.thread.last + 1
  BY <1>1, HeadTyped DEF Sole, InFlight, Flies, PostedFits, TypeOK
<1>7. PostedFits' /\ posted' >= posted
  BY <1>1, <1>2, <1>6 DEF PostedFits
<1>8. QED
  BY <1>4, <1>5, <1>7 DEF Sole

\* A worker goes back to the pool, and it was the only one in flight.
LEMMA SoleLeaves ==
    ASSUME TypeOK, Sole, NEW w \in Workers, worker[w].pc # "idle",
           worker' = [worker EXCEPT ![w] = IdleWorker]
    PROVE  Grounded'
<1>1. IdleWorker.pc = "idle"
  BY DEF IdleWorker
<1>2. worker'[w] = IdleWorker /\ \A v \in Workers : v # w => worker'[v] = worker[v]
  BY DEF TypeOK
<1>3. QED
  BY <1>1, <1>2 DEF Sole, OneSender, Grounded

LEMMA SoleTick ==
    ASSUME TypeOK, IInv, Sole, Tick, "stall" \notin Faults
    PROVE  Sole'
<1>1. /\ now' = now + 1 /\ UNCHANGED <<db, worker, posted>>
      /\ \A w \in Workers : worker[w].pc # "idle" => now + 1 - worker[w].at <= Lease
  BY DEF Tick
<1>2. InFlight'
  <2> SUFFICES ASSUME NEW w \in Workers, worker'[w].pc # "idle" PROVE Flies(w)'
    BY DEF InFlight, Flies
  <2>1. worker'[w] = worker[w] /\ Flies(w)
    BY <1>1 DEF Sole, InFlight
  <2>2. now' - worker[w].at <= Lease
    <3>1. now + 1 - worker[w].at <= Lease
      BY <1>1, <2>1
    <3>2. now \in Int /\ worker[w].at \in Int
      BY DEF TypeOK, Worker
    <3>3. QED
      BY <1>1, <3>1, <3>2
  <2>3. QED
    BY <1>1, <2>1, <2>2 DEF Flies
<1>3. QED
  BY <1>1, <1>2 DEF Sole, OneSender, PostedFits

LEMMA SoleInit == Init => Sole
<1> SUFFICES ASSUME Init PROVE Sole
  OBVIOUS
<1>1. \A w \in Workers : worker[w].pc = "idle"
  BY DEF Init, IdleWorker
<1>2. db.thread.last = 0
  BY DEF Init, NewThread
<1>3. QED
  BY <1>1, <1>2 DEF Sole, InFlight, Flies, OneSender, PostedFits, Init

LEMMA SolePrepare ==
    ASSUME TypeOK, IInv, IInv', Sole, NEW k \in Slots,
           ExitQuietly(k) \/ ClaimAbandon(k) \/ RecoverStalled(k) \/ RecoverPointer(k)
             \/ RecoverGone(k) \/ retryDelivery(k) \/ Rescue(k),
           Follows(db, db')
    PROVE  Sole' /\ posted' = posted
<1>1. UNCHANGED <<now, posted, worker>>
  BY DEF ExitQuietly, ClaimAbandon, RecoverStalled, RecoverPointer, RecoverGone, retryDelivery,
         Rescue
<1>2. db.thread.last <= db'.thread.last /\ posted \in Int
  BY DEF Follows, TypeOK
<1>3. CASE ExitQuietly(k) \/ Rescue(k)
  <2>1. db'.thread = db.thread /\ db'.rows = db.rows
    BY <1>3, StepExit, StepRescue
  <2>2. QED
    BY <1>1, <1>2, <2>1, QuietSole
<1>4. CASE ClaimAbandon(k)
  <2>1. Grounded'
    BY <1>1, <1>4, TurnMeansGrounded DEF ClaimAbandon, Grounded
  <2>2. QED
    BY <1>1, <1>2, <2>1, GroundedSole
<1>5. CASE RecoverStalled(k)
  <2>1. /\ db'.rows = db.rows /\ db'.thread = Recover(db).thread /\ Swept(db, Recover(db))
    BY <1>5, StalledEffect
  <2>2. \A w \in Workers : worker[w].pc # "idle" => db'.thread.last = db.thread.last
    BY <2>1, SweptStays
  <2>3. db'.thread.state = db.thread.state
    BY <2>1 DEF Swept
  <2>4. QED
    BY <1>1, <1>2, <2>1, <2>2, <2>3, QuietSole
<1>6. CASE RecoverPointer(k) \/ RecoverGone(k)
  <2>1. Grounded'
    BY <1>1, <1>6, DeadMeansGrounded DEF RecoverPointer, RecoverGone, Grounded
  <2>2. QED
    BY <1>1, <1>2, <2>1, GroundedSole
<1>7. CASE retryDelivery(k)
  <2>1. /\ db'.thread = db.thread /\ db.rows[k].status = "dead"
        /\ \A j \in Slots : j # k => db'.rows[j] = db.rows[j]
    BY <1>7, RetryEffect
  <2>2. \A w \in Workers : worker[w].pc # "idle" =>
          worker[w].slot \in Slots /\ db.rows[worker[w].slot].status = "sending"
    BY DEF Sole, InFlight, Flies, IInv, WorkersFit, WorkerFits
  <2>3. \A w \in Workers : worker[w].pc # "idle" =>
          db'.rows[worker[w].slot] = db.rows[worker[w].slot]
    BY <2>1, <2>2
  <2>4. QED
    BY <1>1, <1>2, <2>1, <2>3, QuietSole
<1>8. QED
  BY <1>3, <1>4, <1>5, <1>6, <1>7

LEMMA SoleWorker ==
    ASSUME TypeOK, IInv, IInv', Sole, NEW w \in Workers,
           Record(w) \/ RecordFails(w) \/ Crash(w), Follows(db, db')
    PROVE  Sole' /\ posted' = posted
<1>1. /\ UNCHANGED <<now, posted>> /\ worker[w].pc # "idle"
      /\ worker' = [worker EXCEPT ![w] = IdleWorker]
  BY DEF Record, RecordFails, Crash
<1>2. Grounded'
  BY <1>1, SoleLeaves
<1>3. db.thread.last <= db'.thread.last /\ posted \in Int
  BY DEF Follows, TypeOK
<1>4. QED
  BY <1>1, <1>2, <1>3, GroundedSole

LEMMA StepSole ==
    ASSUME TypeOK, IInv, Sole, [Next]_vars, "stall" \notin Faults
    PROVE  Sole' /\ posted' >= posted
<1>1. IInv' /\ Follows(db, db') /\ posted \in Int
  BY StepKept DEF Kept, TypeOK
<1>2. CASE Tick
  <2>1. posted' = posted
    BY <1>2 DEF Tick
  <2>2. QED
    BY <1>1, <1>2, <2>1, SoleTick
<1>3. CASE SetEnabled \/ \E n \in Notes : EvaluateRead(n)
  <2>1. UNCHANGED <<now, posted, worker, db>>
    BY <1>3 DEF SetEnabled, EvaluateRead
  <2>2. QED
    BY <1>1, <2>1, QuietSole DEF Follows
<1>4. CASE \E n \in Notes : EvaluateCommit(n)
  <2>1. posted' = posted
    BY <1>4 DEF EvaluateCommit
  <2>2. QED
    BY <1>1, <1>4, <2>1, SoleCommit
<1>5. CASE \E k \in Slots : prepare(k) \/ Rescue(k) \/ retryDelivery(k)
  <2>1. PICK k \in Slots : prepare(k) \/ Rescue(k) \/ retryDelivery(k)
    BY <1>5
  <2>2. CASE \E w \in Workers : Claim(w, k)
    <3>1. posted' = posted
      BY <2>2 DEF Claim
    <3>2. QED
      BY <1>1, <2>2, <3>1, SoleClaim
  <2>3. CASE \A w \in Workers : ~Claim(w, k)
    <3>1. ExitQuietly(k) \/ ClaimAbandon(k) \/ RecoverStalled(k) \/ RecoverPointer(k)
            \/ RecoverGone(k) \/ retryDelivery(k) \/ Rescue(k)
      BY <2>1, <2>3 DEF prepare
    <3>2. QED
      BY <1>1, <3>1, SolePrepare
  <2>4. QED
    BY <2>2, <2>3
<1>6. CASE \E w \in Workers : Deliver(w)
  BY <1>6, SoleDeliver
<1>7. CASE \E w \in Workers : Record(w) \/ RecordFails(w) \/ Crash(w)
  BY <1>1, <1>7, SoleWorker
<1>8. CASE UNCHANGED vars
  <2>1. UNCHANGED <<now, posted, worker, db>>
    BY <1>8 DEF vars
  <2>2. QED
    BY <1>1, <2>1, QuietSole DEF Follows
<1>9. QED
  BY <1>2, <1>3, <1>4, <1>5, <1>6, <1>7, <1>8 DEF Next

LEMMA SoleHolds ==
    ASSUME "stall" \notin Faults
    PROVE  Spec => [](TypeOK /\ IInv /\ Sole)
<1>1. TypeOK /\ IInv /\ Sole /\ [Next]_vars => Sole'
  BY StepSole
<1>2. QED
  BY <1>1, SoleInit, InvariantHolds, PTL DEF Spec

\* While no pod stalls past its lease, the claim is as good as a lock held over the
\* provider call: one message per thread is in flight, with any number of workers,
\* crashes, failed TX 2s, retries and re-roots.
THEOREM OneMessageInFlight ==
    ASSUME "stall" \notin Faults
    PROVE  Spec => []OneSender
<1>1. Sole => OneSender
  BY DEF Sole
<1>2. QED
  BY <1>1, SoleHolds, PTL

\* Under the same assumption messages reach the destination in the order of their
\* numbers.
THEOREM DeliveredInOrder ==
    ASSUME "stall" \notin Faults
    PROVE  Spec => InOrder
<1>1. TypeOK /\ IInv /\ Sole /\ [Next]_vars => [posted' >= posted]_vars
  BY StepSole
<1>2. QED
  BY <1>1, SoleHolds, PTL DEF Spec, InOrder

(***************************************************************************)
(* What is resolved the head has passed, whatever goes wrong.              *)
(***************************************************************************)
\* last_sent_seq is never short of a delivery that is finished.
HeadCovers == \A k \in Slots :
    k < db.thread.next /\ Resolved(db.rows[k].status) => k <= db.thread.last

\* Nothing is resolved by the step, and the head does not go back.
LEMMA CoversQuiet ==
    ASSUME IInv, HeadCovers, Follows(db, db'), db'.thread.next = db.thread.next,
           \A k \in Slots : Resolved(db'.rows[k].status) => Resolved(db.rows[k].status)
    PROVE  HeadCovers'
<1>1. db.thread.last \in Nat /\ db'.thread.last \in Nat /\ db.thread.last <= db'.thread.last
  BY HeadTyped, DBTyped, ThreadTyped DEF Follows, DbFit
<1>2. QED
  BY <1>1 DEF HeadCovers, Slots

\* The step resolves at most delivery k, and moves the head onto it or past it.
LEMMA CoversOne ==
    ASSUME IInv, HeadCovers, Follows(db, db'), db'.thread.next = db.thread.next,
           NEW k \in Slots, k <= db'.thread.last,
           \A j \in Slots : j # k => db'.rows[j] = db.rows[j]
    PROVE  HeadCovers'
<1>1. db.thread.last \in Nat /\ db'.thread.last \in Nat /\ db.thread.last <= db'.thread.last
  BY HeadTyped, DBTyped, ThreadTyped DEF Follows, DbFit
<1>2. ASSUME NEW j \in Slots, j < db'.thread.next, Resolved(db'.rows[j].status)
      PROVE  j <= db'.thread.last
  <2>1. CASE j = k
    BY <2>1
  <2>2. CASE j # k
    <3>1. j <= db.thread.last
      BY <1>2, <2>2 DEF HeadCovers
    <3>2. QED
      BY <1>1, <3>1 DEF Slots
  <2>3. QED
    BY <2>1, <2>2
<1>3. QED
  BY <1>2 DEF HeadCovers

LEMMA CoversRecord ==
    ASSUME TypeOK, IInv, HeadCovers, NEW w \in Workers, Record(w)
    PROVE  HeadCovers'
<1> DEFINE k == worker[w].slot
<1>1. k \in Slots /\ db.thread.last \in Nat
  BY HeadTyped DEF Record, IInv, WorkersFit, WorkerFits
<1>2. /\ Follows(db, db') /\ db'.thread.next = db.thread.next
      /\ \A j \in Slots : j # k => db'.rows[j] = db.rows[j]
      /\ db' = db \/ db'.thread.last = Past(db.thread, k) \/ db'.rows[k].status = "failed"
  BY RecordEffect
<1> HIDE DEF k
<1>3. CASE db' = db \/ db'.rows[k].status = "failed"
  <2>1. \A j \in Slots : Resolved(db'.rows[j].status) => Resolved(db.rows[j].status)
    BY <1>2, <1>3 DEF Resolved
  <2>2. QED
    BY <1>2, <2>1, CoversQuiet
<1>4. CASE db'.thread.last = Past(db.thread, k)
  <2>1. k <= db'.thread.last
    BY <1>1, <1>4 DEF Past, Slots
  <2>2. QED
    BY <1>1, <1>2, <2>1, CoversOne
<1>5. QED
  BY <1>2, <1>3, <1>4

LEMMA CoversCommit ==
    ASSUME TypeOK, IInv, HeadCovers, NEW n \in Notes, EvaluateCommit(n)
    PROVE  HeadCovers'
<1>1. /\ db'.thread.last = db.thread.last
      /\ \A j \in Slots : IF j < db.thread.next THEN db'.rows[j] = db.rows[j]
                                                ELSE db'.rows[j].status \in {"none", "pending"}
  BY CommitEffect DEF Grows
<1>2. QED
  BY <1>1 DEF HeadCovers, Resolved

LEMMA CoversPrepare ==
    ASSUME TypeOK, IInv, HeadCovers, NEW k \in Slots,
           prepare(k) \/ Rescue(k) \/ retryDelivery(k)
    PROVE  HeadCovers'
<1>1. CASE ExitQuietly(k) \/ Rescue(k)
  <2>1. db'.thread = db.thread /\ db'.rows = db.rows
    BY <1>1, StepExit, StepRescue
  <2>2. QED
    BY <2>1 DEF HeadCovers
<1>2. CASE ClaimAbandon(k)
  <2>1. /\ Follows(db, db') /\ db'.thread.last = k /\ db'.thread.next = db.thread.next
        /\ \A j \in Slots : j # k => db'.rows[j] = db.rows[j]
    BY <1>2, AbandonEffect
  <2>2. k <= db'.thread.last
    BY <2>1 DEF Slots
  <2>3. QED
    BY <2>1, <2>2, CoversOne
<1>3. CASE RecoverStalled(k)
  <2>1. /\ Follows(db, db') /\ db'.rows = db.rows /\ db'.thread = Recover(db).thread
        /\ Swept(db, Recover(db))
    BY <1>3, StalledEffect
  <2>2. db'.thread.next = db.thread.next
    BY <2>1 DEF Swept, ThreadMoves
  <2>3. QED
    BY <2>1, <2>2, CoversQuiet
<1>4. CASE RecoverPointer(k) \/ retryDelivery(k)
  <2>1. /\ Follows(db, db') /\ db'.thread.next = db.thread.next
        /\ db'.rows[k].status = "pending"
        /\ \A j \in Slots : j # k => db'.rows[j] = db.rows[j]
    BY <1>4, PointerEffect, RetryEffect
  <2>2. \A j \in Slots : Resolved(db'.rows[j].status) => Resolved(db.rows[j].status)
    BY <2>1 DEF Resolved
  <2>3. QED
    BY <2>1, <2>2, CoversQuiet
<1>5. CASE RecoverGone(k)
  <2>1. db'.thread.last = db.thread.next - 1 /\ db'.thread.next = db.thread.next
    BY <1>5, GoneEffect
  <2>2. db.thread.next \in Nat
    BY HeadTyped
  <2>3. QED
    BY <2>1, <2>2 DEF HeadCovers, Slots
<1>6. CASE \E w \in Workers : Claim(w, k)
  <2>1. PICK w \in Workers : Claim(w, k)
    BY <1>6
  <2>2. /\ Follows(db, db') /\ db'.thread = Seen(k).thread /\ db'.rows[k].status = "sending"
        /\ \A j \in Slots : j # k => db'.rows[j] = db.rows[j]
    BY <2>1, ClaimEffect
  <2>3. db'.thread.next = db.thread.next
    BY <2>1, <2>2, TurnFits DEF Claim, Swept, ThreadMoves
  <2>4. \A j \in Slots : Resolved(db'.rows[j].status) => Resolved(db.rows[j].status)
    BY <2>2 DEF Resolved
  <2>5. QED
    BY <2>2, <2>3, <2>4, CoversQuiet
<1>7. QED
  BY <1>1, <1>2, <1>3, <1>4, <1>5, <1>6 DEF prepare

LEMMA StepCovers ==
    ASSUME TypeOK, IInv, HeadCovers, [Next]_vars
    PROVE  HeadCovers'
<1>1. CASE Tick \/ SetEnabled \/ (\E n \in Notes : EvaluateRead(n))
             \/ (\E w \in Workers : Deliver(w)) \/ UNCHANGED vars
  <2>1. UNCHANGED db
    BY <1>1 DEF Tick, SetEnabled, EvaluateRead, Deliver, vars
  <2>2. QED
    BY <2>1 DEF HeadCovers
<1>2. CASE \E w \in Workers : RecordFails(w) \/ Crash(w)
  <2>1. db'.thread = db.thread /\ db'.rows = db.rows
    BY <1>2, StepLost
  <2>2. QED
    BY <2>1 DEF HeadCovers
<1>3. QED
  BY <1>1, <1>2, CoversCommit, CoversPrepare, CoversRecord DEF Next

\* No delivery is finished ahead of the head, with any faults at all: stalled pods,
\* retries by hand and lost pointers included.  A sweep of a live thread therefore has
\* nothing to pass, and a snoozed dispatch changes nothing.
THEOREM FinishedIsPassed == Spec => []HeadCovers
<1>1. Init => HeadCovers
  BY DEF Init, HeadCovers, NoDelivery, Resolved
<1>2. TypeOK /\ IInv /\ HeadCovers /\ [Next]_vars => HeadCovers'
  BY StepCovers
<1>3. QED
  BY <1>1, <1>2, InvariantHolds, PTL DEF Spec

(***************************************************************************)
(* The head is exact: no pod stalls, no operator revives a delivery the    *)
(* head has passed, and no stale dispatch re-points one.                   *)
(***************************************************************************)
\* The row in flight, or left by a worker that died, is the one behind the head.
SendingAtHead ==
    \A k \in Slots : db.rows[k].status = "sending" =>
        k = db.thread.last + 1 /\ db.thread.state # "dead"

Exact == HeadExact /\ SendingAtHead

\* The same, slot by slot.
ExactAt(k) ==
    /\ k < db.thread.next => (Resolved(db.rows[k].status) <=> k <= db.thread.last)
    /\ db.rows[k].status = "sending" => k = db.thread.last + 1 /\ db.thread.state # "dead"

LEMMA ExactBySlot ==
    ASSUME IInv
    PROVE  Exact <=> \A k \in Slots : ExactAt(k)
<1>1. db.thread.next \in 1..(MaxSeq + 1) /\ MaxSeq \in Nat
  BY LimitAssumption DEF IInv, DbFit, LimitAssumption
<1>2. \A k : k \in Queued <=> k \in Slots /\ k < db.thread.next
  BY <1>1 DEF Queued, Slots
<1>3. QED
  BY <1>2 DEF Exact, HeadExact, SendingAtHead, ExactAt

LEMMA ExactBySlotNext ==
    ASSUME IInv', \A k \in Slots : ExactAt(k)'
    PROVE  Exact'
<1>1. db'.thread.next \in 1..(MaxSeq + 1) /\ MaxSeq \in Nat
  BY LimitAssumption DEF IInv, DbFit, LimitAssumption
<1>2. \A k : k \in Queued' <=> k \in Slots /\ k < db'.thread.next
  BY <1>1 DEF Queued, Slots
<1>3. QED
  BY <1>2 DEF Exact, HeadExact, SendingAtHead, ExactAt

\* On an exact queue a sweep of a live thread has nothing to pass.
LEMMA ExactSweepStays ==
    ASSUME IInv, Exact, NEW e, Swept(db, e)
    PROVE  e.thread.last = db.thread.last
<1>1. /\ e.thread.last \in Nat /\ db.thread.last \in Nat /\ db.thread.last <= e.thread.last
      /\ e.thread.last < e.thread.next /\ e.thread.next = db.thread.next
      /\ db.thread.next \in 1..(MaxSeq + 1) /\ MaxSeq \in Nat
  BY HeadTyped, DBTyped, ThreadTyped, LimitAssumption
     DEF Swept, DbFit, ThreadMoves, IInv, LimitAssumption
<1>2. SUFFICES ASSUME e.thread.last > db.thread.last PROVE FALSE
  BY <1>1
<1> DEFINE k == db.thread.last + 1
<1>3. k \in Slots /\ k < db.thread.next /\ k > db.thread.last /\ k <= e.thread.last
  BY <1>1, <1>2 DEF Slots
<1>4. Resolved(db.rows[k].status)
  BY <1>3 DEF Swept
<1>5. ExactAt(k)
  BY <1>3, ExactBySlot
<1>6. QED
  BY <1>1, <1>3, <1>4, <1>5 DEF ExactAt

LEMMA ExactInit == Init => Exact
<1> SUFFICES ASSUME Init PROVE Exact
  OBVIOUS
<1>1. IInv
  BY InitHolds
<1>2. db.thread.next = 1 /\ \A k \in Slots : db.rows[k].status = "none"
  BY DEF Init, NewThread, NoDelivery
<1>3. \A k \in Slots : ExactAt(k)
  BY <1>2 DEF ExactAt, Slots
<1>4. QED
  BY <1>1, <1>3, ExactBySlot

\* A step that changes neither thread nor rows.
LEMMA ExactSame ==
    ASSUME IInv, IInv', Exact, db'.thread = db.thread, db'.rows = db.rows
    PROVE  Exact'
<1>1. \A k \in Slots : ExactAt(k)
  BY ExactBySlot
<1>2. \A k \in Slots : ExactAt(k)'
  BY <1>1 DEF ExactAt
<1>3. QED
  BY <1>2, ExactBySlotNext

LEMMA ExactCommit ==
    ASSUME TypeOK, IInv, IInv', Exact, NEW n \in Notes, EvaluateCommit(n)
    PROVE  Exact'
<1>1. /\ db'.thread.last = db.thread.last /\ db'.thread.state = db.thread.state
      /\ \A j \in Slots : IF j < db.thread.next THEN db'.rows[j] = db.rows[j]
                                                ELSE db'.rows[j].status \in {"none", "pending"}
  BY CommitEffect DEF Grows
<1>2. db.thread.last \in Nat /\ db.thread.next \in Nat /\ db.thread.last < db.thread.next
  BY HeadTyped
<1>3. \A k \in Slots : ExactAt(k)
  BY ExactBySlot
<1>4. ASSUME NEW k \in Slots PROVE ExactAt(k)'
  <2>1. CASE k < db.thread.next
    BY <1>1, <1>3, <2>1 DEF ExactAt
  <2>2. CASE ~(k < db.thread.next)
    <3>1. ~(k <= db.thread.last)
      BY <1>2, <2>2 DEF Slots
    <3>2. db'.rows[k].status # "sending" /\ ~Resolved(db'.rows[k].status)
      BY <1>1, <2>2 DEF Resolved
    <3>3. QED
      BY <1>1, <3>1, <3>2 DEF ExactAt
  <2>3. QED
    BY <2>1, <2>2
<1>5. QED
  BY <1>4, ExactBySlotNext

LEMMA ExactClaim ==
    ASSUME TypeOK, IInv, IInv', Exact, NEW w \in Workers, NEW k \in Slots, Claim(w, k)
    PROVE  Exact'
<1>1. MyTurn(k)
  BY DEF Claim
<1>2. Swept(db, Seen(k)) /\ k = Seen(k).thread.last + 1 /\ ~Dead
  BY <1>1, TurnFits
<1>3. /\ db'.thread = Seen(k).thread /\ db'.rows[k].status = "sending"
      /\ \A j \in Slots : j # k => db'.rows[j] = db.rows[j]
  BY ClaimEffect
<1>4. /\ db'.thread.last = db.thread.last /\ db'.thread.state # "dead"
      /\ db'.thread.next = db.thread.next /\ k = db.thread.last + 1
  BY <1>2, <1>3, ExactSweepStays DEF Swept, Dead, ThreadMoves
<1>5. db.thread.last \in Nat
  BY HeadTyped
<1>6. \A j \in Slots : ExactAt(j)
  BY ExactBySlot
<1>7. ASSUME NEW j \in Slots PROVE ExactAt(j)'
  <2>1. CASE j = k
    BY <1>3, <1>4, <1>5, <2>1 DEF ExactAt, Resolved
  <2>2. CASE j # k
    BY <1>3, <1>4, <1>6, <2>2 DEF ExactAt
  <2>3. QED
    BY <2>1, <2>2
<1>8. QED
  BY <1>7, ExactBySlotNext

\* The delivery behind the head is resolved and the head moves onto it.
LEMMA ExactAdvance ==
    ASSUME IInv, IInv', Exact, NEW k \in Slots, k = db.thread.last + 1,
           db'.thread.last = k, db'.thread.next = db.thread.next,
           Resolved(db'.rows[k].status),
           \A j \in Slots : j # k => db'.rows[j] = db.rows[j]
    PROVE  Exact'
<1>1. db.thread.last \in Nat
  BY HeadTyped
<1>2. \A j \in Slots : ExactAt(j)
  BY ExactBySlot
<1>3. ASSUME NEW j \in Slots PROVE ExactAt(j)'
  <2>1. CASE j = k
    <3>1. db'.rows[k].status # "sending"
      BY DEF Resolved
    <3>2. QED
      BY <1>1, <2>1, <3>1 DEF ExactAt
  <2>2. CASE j # k
    <3>1. db'.rows[j] = db.rows[j] /\ db.rows[j].status # "sending"
      BY <1>2, <2>2 DEF ExactAt
    <3>2. j <= db.thread.last <=> j <= db'.thread.last
      BY <1>1, <2>2 DEF Slots
    <3>3. QED
      BY <1>2, <3>1, <3>2 DEF ExactAt
  <2>3. QED
    BY <2>1, <2>2
<1>4. QED
  BY <1>3, ExactBySlotNext

LEMMA ExactAbandon ==
    ASSUME TypeOK, IInv, IInv', Exact, NEW k \in Slots, ClaimAbandon(k)
    PROVE  Exact'
<1>1. MyTurn(k)
  BY DEF ClaimAbandon
<1>2. Swept(db, Seen(k)) /\ k = Seen(k).thread.last + 1
  BY <1>1, TurnFits
<1>3. k = db.thread.last + 1
  BY <1>2, ExactSweepStays
<1>4. /\ db'.thread.last = k /\ Resolved(db'.rows[k].status)
      /\ db'.thread.next = db.thread.next
      /\ \A j \in Slots : j # k => db'.rows[j] = db.rows[j]
  BY AbandonEffect
<1>5. QED
  BY <1>3, <1>4, ExactAdvance

LEMMA ExactStalled ==
    ASSUME IInv, IInv', Exact, NEW k \in Slots, RecoverStalled(k)
    PROVE  Exact'
<1>1. db'.rows = db.rows /\ db'.thread = Recover(db).thread /\ Swept(db, Recover(db))
  BY StalledEffect
<1>2. /\ db'.thread.last = db.thread.last /\ db'.thread.state = db.thread.state
      /\ db'.thread.next = db.thread.next
  BY <1>1, ExactSweepStays DEF Swept, ThreadMoves
<1>3. \A j \in Slots : ExactAt(j)
  BY ExactBySlot
<1>4. \A j \in Slots : ExactAt(j)'
  BY <1>1, <1>2, <1>3 DEF ExactAt
<1>5. QED
  BY <1>4, ExactBySlotNext

LEMMA ExactGone ==
    ASSUME TypeOK, IInv, IInv', Exact, NEW k \in Slots, RecoverGone(k)
    PROVE  Exact'
<1>1. /\ db'.thread.last = db.thread.next - 1 /\ db'.thread.next = db.thread.next
      /\ db'.rows[k].status = "dead" /\ Dead
      /\ \A j \in Slots : j # k =>
           db'.rows[j].status =
             IF /\ j > db.thread.last /\ j < db.thread.next
                /\ db.rows[j].status \in {"pending", "failed"}
             THEN "skipped" ELSE db.rows[j].status
  BY GoneEffect
<1>2. \A j \in Slots : ExactAt(j) /\ db.rows[j].status # "sending"
  BY <1>1, ExactBySlot DEF ExactAt, Dead
<1>3. db.thread.last \in Nat /\ db.thread.next \in Nat
  BY HeadTyped
<1>4. ASSUME NEW j \in Slots PROVE ExactAt(j)'
  <2>1. db'.rows[j].status # "sending"
    BY <1>1, <1>2
  <2>2. j < db.thread.next => j <= db'.thread.last
    BY <1>1, <1>3 DEF Slots
  <2>3. ASSUME j < db.thread.next PROVE Resolved(db'.rows[j].status)
    <3>1. CASE j = k
      BY <1>1, <3>1 DEF Resolved
    <3>2. CASE j # k /\ j <= db.thread.last
      <4>1. Resolved(db.rows[j].status)
        BY <1>2, <2>3, <3>2 DEF ExactAt
      <4>2. QED
        BY <1>1, <3>2, <4>1 DEF Resolved
    <3>3. CASE j # k /\ ~(j <= db.thread.last)
      <4>1. ~Resolved(db.rows[j].status)
        BY <1>2, <2>3, <3>3 DEF ExactAt
      <4>2. db.rows[j].status \in Statuses /\ db.rows[j].status # "none"
        BY <1>3, <2>3, RowTyped, DeliveryTyped DEF IInv, DbFit, Slots
      <4>3. db.rows[j].status \in {"pending", "failed"}
        BY <1>2, <4>1, <4>2 DEF Statuses, Resolved
      <4>4. j > db.thread.last
        BY <1>3, <3>3 DEF Slots
      <4>5. QED
        BY <1>1, <2>3, <3>3, <4>3, <4>4 DEF Resolved
    <3>4. QED
      BY <3>1, <3>2, <3>3
  <2>4. QED
    BY <1>1, <2>1, <2>2, <2>3 DEF ExactAt
<1>5. QED
  BY <1>4, ExactBySlotNext

LEMMA ExactRecord ==
    ASSUME TypeOK, IInv, IInv', Sole, Exact, NEW w \in Workers, Record(w)
    PROVE  Exact'
<1> DEFINE k == worker[w].slot
<1>1. worker[w].pc = "answered"
  BY DEF Record
<1>2. k \in Slots /\ k = db.thread.last + 1 /\ db.rows[k].status = "sending"
  BY <1>1 DEF IInv, WorkersFit, WorkerFits, Sole, InFlight, Flies
<1>3. db.thread.last \in Nat /\ Past(db.thread, k) = k
  BY <1>2, HeadTyped DEF Past
<1>4. /\ db'.thread.next = db.thread.next
      /\ \A j \in Slots : j # k => db'.rows[j] = db.rows[j]
      /\ \/ Resolved(db'.rows[k].status) /\ db'.thread.last = k
         \/ db'.rows[k].status = "failed" /\ db'.thread.last = db.thread.last
  BY <1>2, <1>3, RecordEffect
<1>5. CASE Resolved(db'.rows[k].status) /\ db'.thread.last = k
  BY <1>2, <1>4, <1>5, ExactAdvance
<1>6. CASE db'.rows[k].status = "failed" /\ db'.thread.last = db.thread.last
  <2>1. \A j \in Slots : ExactAt(j)
    BY ExactBySlot
  <2>2. ASSUME NEW j \in Slots PROVE ExactAt(j)'
    <3>1. CASE j = k
      BY <1>2, <1>3, <1>6, <3>1 DEF ExactAt, Resolved
    <3>2. CASE j # k
      <4>1. db.rows[j].status # "sending"
        BY <1>2, <2>1, <3>2 DEF ExactAt
      <4>2. QED
        BY <1>4, <1>6, <2>1, <3>2, <4>1 DEF ExactAt
    <3>3. QED
      BY <3>1, <3>2
  <2>3. QED
    BY <2>2, ExactBySlotNext
<1>7. QED
  BY <1>4, <1>5, <1>6

\* No thread dies of a lost pointer.
PointerFree == /\ db.thread.reason # "pointer"
               /\ \A w \in Workers : worker[w].answer # "pointer"

\* No worker has learnt anything new.
LEMMA FreeQuiet ==
    ASSUME PointerFree, db'.thread.reason = db.thread.reason,
           \A w \in Workers : worker'[w].answer \in {"none", worker[w].answer}
    PROVE  PointerFree'
BY DEF PointerFree

LEMMA FreeWorker ==
    ASSUME TypeOK, IInv, PointerFree, "pointer" \notin Answers, NEW w \in Workers,
           Deliver(w) \/ Record(w) \/ RecordFails(w) \/ Crash(w)
    PROVE  PointerFree'
<1>1. CASE Deliver(w)
  <2>1. UNCHANGED db
    BY <1>1 DEF Deliver
  <2>2. worker'[w].answer # "pointer"
    BY <1>1, DeliverEffect
  <2>3. \A v \in Workers : v # w => worker'[v] = worker[v]
    BY <1>1, DeliverEffect
  <2>4. QED
    BY <2>1, <2>2, <2>3 DEF PointerFree
<1>2. CASE Record(w) \/ RecordFails(w) \/ Crash(w)
  <2>1. worker' = [worker EXCEPT ![w] = IdleWorker]
    BY <1>2 DEF Record, RecordFails, Crash
  <2>2. \A v \in Workers : worker'[v].answer \in {"none", worker[v].answer}
    BY <2>1 DEF TypeOK, IdleWorker
  <2>3. db'.thread.reason \in {db.thread.reason, "none", worker[w].answer}
    BY <1>2, RecordEffect, StepLost
  <2>4. QED
    BY <2>2, <2>3 DEF PointerFree
<1>3. QED
  BY <1>1, <1>2

LEMMA FreePrepare ==
    ASSUME TypeOK, IInv, PointerFree, NEW k \in Slots,
           prepare(k) \/ Rescue(k) \/ retryDelivery(k)
    PROVE  PointerFree'
<1>1. CASE \E w \in Workers : Claim(w, k)
  <2>1. PICK w \in Workers : Claim(w, k)
    BY <1>1
  <2>2. /\ db'.thread = Seen(k).thread /\ worker'[w].answer = "none"
        /\ \A v \in Workers : v # w => worker'[v] = worker[v]
    BY <2>1, ClaimEffect
  <2>3. db'.thread.reason = db.thread.reason
    BY <2>1, <2>2, TurnFits DEF Claim, Swept
  <2>4. QED
    BY <2>2, <2>3, FreeQuiet
<1>2. CASE \A w \in Workers : ~Claim(w, k)
  <2>1. UNCHANGED worker
    BY <1>2 DEF prepare, ExitQuietly, ClaimAbandon, RecoverStalled, RecoverPointer, RecoverGone,
                Rescue, retryDelivery
  <2>2. ~RecoverPointer(k)
    BY DEF RecoverPointer, PointerFree
  <2>3. RecoverStalled(k) => db'.thread.reason = db.thread.reason
    BY StalledEffect DEF Swept
  <2>4. db'.thread.reason = db.thread.reason
    BY <1>2, <2>2, <2>3, StepExit, StepRescue, AbandonEffect, GoneEffect, RetryEffect DEF prepare
  <2>5. QED
    BY <2>1, <2>4, FreeQuiet
<1>3. QED
  BY <1>1, <1>2

LEMMA StepFree ==
    ASSUME TypeOK, IInv, PointerFree, [Next]_vars, "pointer" \notin Answers
    PROVE  PointerFree'
<1>1. CASE Tick \/ SetEnabled \/ (\E n \in Notes : EvaluateRead(n)) \/ UNCHANGED vars
  <2>1. UNCHANGED <<db, worker>>
    BY <1>1 DEF Tick, SetEnabled, EvaluateRead, vars
  <2>2. QED
    BY <2>1 DEF PointerFree
<1>2. CASE \E n \in Notes : EvaluateCommit(n)
  <2>1. UNCHANGED worker
    BY <1>2 DEF EvaluateCommit
  <2>2. db'.thread.reason = db.thread.reason
    BY <1>2, CommitEffect DEF Grows
  <2>3. QED
    BY <2>1, <2>2, FreeQuiet
<1>3. QED
  BY <1>1, <1>2, FreePrepare, FreeWorker DEF Next

LEMMA StepExact ==
    ASSUME TypeOK, IInv, Sole, Exact, PointerFree, [Next]_vars, "retry" \notin Faults
    PROVE  Exact'
<1>1. IInv'
  BY StepKept DEF Kept
<1>2. CASE Tick \/ SetEnabled \/ \E n \in Notes : EvaluateRead(n)
  <2>1. UNCHANGED db
    BY <1>2 DEF Tick, SetEnabled, EvaluateRead
  <2>2. QED
    BY <1>1, <2>1, ExactSame
<1>3. CASE \E n \in Notes : EvaluateCommit(n)
  BY <1>1, <1>3, ExactCommit
<1>4. CASE \E k \in Slots : prepare(k) \/ Rescue(k) \/ retryDelivery(k)
  <2>1. PICK k \in Slots : prepare(k) \/ Rescue(k) \/ retryDelivery(k)
    BY <1>4
  <2>2. CASE ExitQuietly(k) \/ Rescue(k)
    <3>1. db'.thread = db.thread /\ db'.rows = db.rows
      BY <2>2, StepExit, StepRescue
    <3>2. QED
      BY <1>1, <3>1, ExactSame
  <2>3. ~retryDelivery(k) /\ ~RecoverPointer(k)
    BY DEF retryDelivery, RecoverPointer, PointerFree
  <2>4. QED
    BY <1>1, <2>1, <2>2, <2>3, ExactClaim, ExactAbandon, ExactStalled, ExactGone DEF prepare
<1>5. CASE \E w \in Workers : Record(w)
  BY <1>1, <1>5, ExactRecord
<1>6. CASE \E w \in Workers : Deliver(w)
  <2>1. UNCHANGED db
    BY <1>6 DEF Deliver
  <2>2. QED
    BY <1>1, <2>1, ExactSame
<1>7. CASE \E w \in Workers : RecordFails(w) \/ Crash(w)
  <2>1. db'.thread = db.thread /\ db'.rows = db.rows
    BY <1>7, StepLost
  <2>2. QED
    BY <1>1, <2>1, ExactSame
<1>8. CASE UNCHANGED vars
  <2>1. UNCHANGED db
    BY <1>8 DEF vars
  <2>2. QED
    BY <1>1, <2>1, ExactSame
<1>9. QED
  BY <1>2, <1>3, <1>4, <1>5, <1>6, <1>7, <1>8 DEF Next

\* While no pod stalls, no operator revives a dead delivery and no root message is
\* lost, last_sent_seq is exact through every claim, failure, give-up, ceiling and
\* sweep: no delivery is passed while it is in play, and none is left behind the head.
\* After a lost root recoverDeadThread can make a delivery pending again that was sent
\* since prepare read it, so that hypothesis is needed as well.
THEOREM HeadIsExact ==
    ASSUME "stall" \notin Faults, "retry" \notin Faults, "pointer" \notin Answers
    PROVE  Spec => []HeadExact
<1>1. TypeOK /\ IInv /\ Sole /\ Exact /\ PointerFree /\ [Next]_vars => Exact' /\ PointerFree'
  BY StepExact, StepFree
<1>2. Init => PointerFree
  BY DEF Init, PointerFree, NewThread, IdleWorker
<1>3. Spec => []Exact
  BY <1>1, <1>2, ExactInit, SoleHolds, PTL DEF Spec
<1>4. Exact => HeadExact
  BY DEF Exact
<1>5. QED
  BY <1>3, <1>4, PTL

(***************************************************************************)
(* Replies and amends reach the newest card: every call is answered and    *)
(* recorded.                                                               *)
(***************************************************************************)
\* A card was posted that the thread does not name yet.
Landed(w) == /\ worker[w].pc = "answered" /\ worker[w].answer = "ok"
             /\ worker[w].mode = "post_root"

\* The thread names the newest card, unless the worker that posted it is about to
\* record it; who writes to a card works from the thread's own pointer.
Known ==
    /\ (\A w \in Workers : ~Landed(w)) => db.thread.root = 0 \/ db.thread.root = Len(cards)
    /\ \A w \in Workers : Landed(w) => worker[w].card = Len(cards)
    /\ \A w \in Workers : worker[w].pc # "idle" /\ worker[w].mode # "post_root" =>
         worker[w].root = db.thread.root /\ db.thread.root # 0

LEMMA KnownInit == Init => Known
<1> SUFFICES ASSUME Init PROVE Known
  OBVIOUS
<1>1. \A w \in Workers : worker[w].pc = "idle"
  BY DEF Init, IdleWorker
<1>2. db.thread.root = 0
  BY DEF Init, NewThread
<1>3. QED
  BY <1>1, <1>2 DEF Known, Landed

LEMMA KnownSame ==
    ASSUME Known, UNCHANGED <<worker, cards>>, db'.thread.root = db.thread.root
    PROVE  Known'
BY DEF Known, Landed

LEMMA KnownClaim ==
    ASSUME TypeOK, IInv, Sole, Known, NEW w \in Workers, NEW k \in Slots, Claim(w, k)
    PROVE  Known'
<1>1. MyTurn(k) /\ UNCHANGED cards
  BY DEF Claim
<1>2. Grounded
  BY <1>1, TurnMeansGrounded
<1>3. /\ worker'[w].pc = "claimed" /\ worker'[w].root = db'.thread.root
      /\ worker'[w].mode # "post_root" => db'.thread.root # 0
      /\ \A v \in Workers : v # w => worker'[v] = worker[v]
  BY ClaimEffect
<1>4. db'.thread.root = db.thread.root
  BY StepClaim
<1>5. \A v \in Workers : ~Landed(v) /\ ~Landed(v)'
  BY <1>2, <1>3 DEF Grounded, Landed
<1>6. QED
  BY <1>1, <1>2, <1>3, <1>4, <1>5 DEF Known, Grounded

LEMMA KnownDeliver ==
    ASSUME TypeOK, IInv, Sole, Known, NEW w \in Workers, Deliver(w), "lost" \notin Answers
    PROVE  Known'
<1>1. /\ worker[w].pc = "claimed" /\ worker'[w].pc = "answered"
      /\ \A v \in Workers : v # w => worker'[v] = worker[v]
      /\ worker'[w].mode = worker[w].mode /\ worker'[w].root = worker[w].root
      /\ IF worker'[w].answer = "ok" /\ worker[w].mode = "post_root"
           THEN worker'[w].card = Len(cards')
           ELSE Len(cards') = Len(cards)
  BY DeliverEffect
<1>2. UNCHANGED db
  BY DEF Deliver
<1>3. \A v \in Workers : v # w => worker[v].pc = "idle" /\ worker'[v].pc = "idle"
  BY <1>1 DEF Sole, OneSender
<1>4. \A v \in Workers : ~Landed(v)
  BY <1>1, <1>3 DEF Landed
<1>5. \A v \in Workers : v # w => ~Landed(v)'
  BY <1>3 DEF Landed
<1>6. CASE worker'[w].answer = "ok" /\ worker[w].mode = "post_root"
  <2>1. Landed(w)'
    BY <1>1, <1>6 DEF Landed
  <2>2. QED
    BY <1>1, <1>3, <1>5, <1>6, <2>1 DEF Known
<1>7. CASE ~(worker'[w].answer = "ok" /\ worker[w].mode = "post_root")
  <2>1. ~Landed(w)' /\ Len(cards') = Len(cards)
    BY <1>1, <1>7 DEF Landed
  <2>2. db.thread.root = 0 \/ db.thread.root = Len(cards)
    BY <1>4 DEF Known
  <2>3. QED
    BY <1>1, <1>2, <1>3, <1>5, <2>1, <2>2 DEF Known
<1>8. QED
  BY <1>6, <1>7

LEMMA KnownRecord ==
    ASSUME TypeOK, IInv, Sole, Known, NEW w \in Workers, Record(w)
    PROVE  Known'
<1> DEFINE k == worker[w].slot
<1>1. /\ worker[w].pc = "answered" /\ UNCHANGED cards
      /\ worker' = [worker EXCEPT ![w] = IdleWorker]
  BY DEF Record
<1>2. \A v \in Workers : worker'[v].pc = "idle"
  BY <1>1, SoleLeaves DEF Grounded
<1>3. db.rows[k].status = "sending"
  BY <1>1 DEF Sole, InFlight, Flies
<1>4. db'.thread.root = IF Landed(w) THEN worker[w].card ELSE db.thread.root
  BY <1>1, <1>3, RecordEffect DEF Landed
<1>5. \A v \in Workers : v # w => worker[v].pc = "idle"
  BY <1>1 DEF Sole, OneSender
<1>6. CASE Landed(w)
  BY <1>1, <1>2, <1>4, <1>6 DEF Known, Landed
<1>7. CASE ~Landed(w)
  <2>1. \A v \in Workers : ~Landed(v)
    BY <1>5, <1>7 DEF Landed
  <2>2. \A v \in Workers : ~Landed(v)'
    BY <1>2 DEF Landed
  <2>3. db.thread.root = 0 \/ db.thread.root = Len(cards)
    BY <2>1 DEF Known
  <2>4. QED
    BY <1>1, <1>2, <1>4, <1>7, <2>2, <2>3 DEF Known
<1>8. QED
  BY <1>6, <1>7

\* What the destination shows is what the thread knows: calls are answered, TX 2
\* commits and pods neither die nor stall.
Recorded == /\ Faults \cap {"stall", "crash", "record"} = {}
            /\ "lost" \notin Answers

LEMMA StepKnown ==
    ASSUME TypeOK, IInv, Sole, Known, [Next]_vars, Recorded
    PROVE  Known'
<1>1. CASE Tick \/ SetEnabled \/ \E n \in Notes : EvaluateRead(n)
  <2>1. UNCHANGED <<db, worker, cards>>
    BY <1>1 DEF Tick, SetEnabled, EvaluateRead
  <2>2. QED
    BY <2>1, KnownSame
<1>2. CASE \E n \in Notes : EvaluateCommit(n)
  <2>1. UNCHANGED <<worker, cards>> /\ db'.thread.root = db.thread.root
    BY <1>2, CommitEffect DEF EvaluateCommit, Grows
  <2>2. QED
    BY <2>1, KnownSame
<1>3. CASE \E k \in Slots : prepare(k) \/ Rescue(k) \/ retryDelivery(k)
  <2>1. PICK k \in Slots : prepare(k) \/ Rescue(k) \/ retryDelivery(k)
    BY <1>3
  <2>2. CASE ExitQuietly(k) \/ Rescue(k) \/ ClaimAbandon(k) \/ retryDelivery(k) \/ RecoverGone(k)
    <3>1. UNCHANGED <<worker, cards>>
      BY <2>2 DEF ExitQuietly, Rescue, ClaimAbandon, retryDelivery, RecoverGone
    <3>2. db'.thread.root = db.thread.root
      BY <2>2, StepExit, StepRescue, AbandonEffect, RetryEffect, GoneEffect
    <3>3. QED
      BY <3>1, <3>2, KnownSame
  <2>3. CASE RecoverStalled(k)
    <3>1. UNCHANGED <<worker, cards>> /\ db'.thread.root = db.thread.root
      BY <2>3, StalledEffect DEF RecoverStalled, Swept
    <3>2. QED
      BY <3>1, KnownSame
  <2>4. CASE RecoverPointer(k)
    <3>1. UNCHANGED <<worker, cards>> /\ db'.thread.root = 0 /\ Grounded
      BY <2>4, PointerEffect, DeadMeansGrounded DEF RecoverPointer
    <3>2. QED
      BY <3>1 DEF Known, Landed, Grounded
  <2>5. CASE \E w \in Workers : Claim(w, k)
    BY <2>5, KnownClaim
  <2>6. QED
    BY <2>1, <2>2, <2>3, <2>4, <2>5 DEF prepare
<1>4. CASE \E w \in Workers : Record(w)
  BY <1>4, KnownRecord
<1>5. CASE \E w \in Workers : Deliver(w)
  BY <1>5, KnownDeliver DEF Recorded
<1>6. \A w \in Workers : ~RecordFails(w) /\ ~Crash(w)
  BY DEF RecordFails, Crash, Recorded
<1>7. CASE UNCHANGED vars
  <2>1. UNCHANGED <<db, worker, cards>>
    BY <1>7 DEF vars
  <2>2. QED
    BY <2>1, KnownSame
<1>8. QED
  BY <1>1, <1>2, <1>3, <1>4, <1>5, <1>6, <1>7 DEF Next

\* Where every call is answered and recorded, a reply or an amend is never addressed
\* to a card that another has replaced, through roll-overs, dead pointers and re-roots.
THEOREM WritesReachTheNewestCard ==
    ASSUME Recorded
    PROVE  Spec => []WritesNewestCard
<1>1. "stall" \notin Faults
  BY DEF Recorded
<1>2. Spec => [](TypeOK /\ IInv /\ Sole)
  BY <1>1, SoleHolds
<1>3. TypeOK /\ IInv /\ Sole /\ Known /\ [Next]_vars => Known'
  BY StepKnown
<1>4. Spec => [](Sole /\ Known)
  BY <1>2, <1>3, KnownInit, PTL DEF Spec
<1>5. Sole /\ Known => WritesNewestCard
  <2> SUFFICES ASSUME Sole, Known, NEW w \in Workers, worker[w].pc = "claimed",
                      worker[w].mode # "post_root"
               PROVE  worker[w].root = Len(cards)
    BY DEF WritesNewestCard
  <2>1. \A v \in Workers : ~Landed(v)
    BY DEF Sole, OneSender, Landed
  <2>2. QED
    BY <2>1 DEF Known
<1>6. QED
  BY <1>4, <1>5, PTL
=============================================================================
