--------------------------- MODULE ThreadDispatch ---------------------------
(***************************************************************************)
(* One provider thread (channel_threads) and the deliveries queued on it:  *)
(* notify.evaluate mints them in sequence, deliver.dispatch sends them in  *)
(* three phases (TX 1 claims, the provider is called with no lock held,    *)
(* TX 2 records), and the ordering gate decides whose turn it is.  A       *)
(* delivery is identified by its thread_seq: row and number are written by *)
(* one transaction, so the sequence has no holes.                          *)
(*                                                                         *)
(* TX 1 and TX 2 hold the thread's advisory lock from their first write to *)
(* their COMMIT, so each is one action.  An operator's retry and a fan-out *)
(* take no such lock and interleave between them.                          *)
(***************************************************************************)
EXTENDS Integers, Sequences, FiniteSets

CONSTANTS
    Workers,        \* goroutines running deliver.dispatch, over all pods
    Contents,       \* what a card may render to: rendered_hash values
    CanThread, CanAmend,   \* the destination's capabilities
    Facts,          \* what may be notified: digests, and what happens to a signal
    Answers,        \* what the provider may do with a call
    Faults,         \* what else may go wrong, and what an operator may do
    Lease, MaxWait, \* StaleClaimLease and Policy.MaxWait
    Backoffs,       \* §G.6 waits
    MaxReplies,     \* MaxThreadReplies
    MaxAttempts,    \* an ErrorClass's budget of attempts
    MaxTime, MaxSeq, MaxNotes     \* bounds

ASSUME CapabilityAssumption ==
    /\ CanThread \in BOOLEAN /\ CanAmend \in BOOLEAN
    /\ CanThread \/ CanAmend
ASSUME LimitAssumption ==
    /\ Lease \in Nat /\ MaxWait \in Nat /\ Backoffs \subseteq Nat
    /\ MaxReplies \in Nat /\ MaxAttempts \in Nat
    /\ MaxTime \in Nat /\ MaxSeq \in Nat /\ MaxNotes \in Nat
ASSUME WorldAssumption ==
    /\ Facts \subseteq {"change", "quiet", "comment", "digest"}
    /\ Answers \subseteq {"ok", "retry", "lost", "fatal", "pointer", "gone"}
    /\ Faults \subseteq {"crash", "stall", "record", "rerun", "retry", "disable"}

NoTime == -1
Slots  == 1..MaxSeq
Notes  == 1..MaxNotes
Max2(a, b) == IF a >= b THEN a ELSE b

(***************************************************************************)
(* Rows.                                                                   *)
(***************************************************************************)
Modes    == {"post_root", "update_root", "thread_reply"}
Statuses == {"none", "pending", "sending", "sent", "failed", "dead", "skipped"}

\* notification_deliveries.  claimedAt is updated_at, which matters while the row
\* is `sending`; sentNo orders sent_at; hash is rendered_hash.
Delivery == [status    : Statuses,
             note      : 0..MaxNotes,
             mode      : Modes,
             attempts  : Nat,
             ambiguous : BOOLEAN,
             createdAt : Int,
             claimedAt : Int,
             nextAt    : Int,
             hash      : Contents \cup {"none"},
             sentNo    : Nat]

NoDelivery == [status |-> "none", note |-> 0, mode |-> "post_root", attempts |-> 0,
               ambiguous |-> FALSE, createdAt |-> NoTime, claimedAt |-> NoTime,
               nextAt |-> NoTime, hash |-> "none", sentNo |-> 0]

\* channel_threads.  root is provider_thread_id (0 is NULL), naming a card of the
\* destination; conv says that provider_conversation_id is set; digest that the
\* thread carries digests, of which a signal's thread has none.
Thread == [digest  : BOOLEAN,
           state   : {"opening", "open", "dead"},
           reason  : {"none", "pointer", "gone"},
           root    : Nat,
           conv    : BOOLEAN,
           replies : Nat,
           last    : Nat,
           next    : Nat]

NewThread(digest) ==
    [digest |-> digest, state |-> "opening", reason |-> "none", root |-> 0, conv |-> FALSE,
     replies |-> 0, last |-> 0, next |-> 1]

Reasons == {"none", "change", "quiet", "comment", "digest"}
Aggregates == {"none", "dispatched", "partial", "delivered", "failed"}

\* jobs counts the deliver.dispatch jobs River holds for a delivery; two stand
\* for two or more.
DB == [thread : Thread,
       rows   : [Slots -> Delivery],
       notes  : [Notes -> [reason : Reasons, status : Aggregates]],
       jobs   : [Slots -> 0..2]]

VARIABLES
    now,
    db,         \* the committed rows and the job queue
    enabled,    \* channels.enabled
    minter,     \* the notify.evaluate of each notification
    worker,     \* the dispatches past their TX 1
    orphans,    \* jobs whose worker died: when, until River rescues them
    cards,      \* external: the root cards the destination shows
    posted      \* external, history: the delivery that reached it last

vars == <<now, db, enabled, minter, worker, orphans, cards, posted>>

Resolved(s) == s \in {"sent", "dead", "skipped"}
Queued      == 1..(db.thread.next - 1)
RootLanded(t) == t.root # 0

Enqueue(d, k) == [d EXCEPT !.jobs[k] = IF @ = 2 THEN 2 ELSE @ + 1]
Done(d, k)    == [d EXCEPT !.jobs[k] = @ - 1]

\* River runs a job again; one that finds its delivery resolved ends at that read.
Requeue(d, k) == IF Resolved(d.rows[k].status) THEN d ELSE Enqueue(d, k)

\* Mutant: a plain assignment where the statement says GREATEST.
AdvanceSentRewinds(d, k) == [d EXCEPT !.thread.last =
                               IF k < d.thread.next THEN k ELSE @]

\* advanceSeqSQL.
AdvanceSent(d, k) == [d EXCEPT !.thread.last =
                        IF k < d.thread.next THEN Max2(@, k) ELSE @]

AggregateStatus(S) ==
    IF S \cap {"pending", "sending", "failed"} # {} THEN "dispatched"
    ELSE IF S \subseteq {"sent", "skipped"} THEN "delivered"
    ELSE IF S \cap {"sent", "skipped"} = {} THEN "failed"
    ELSE "partial"

DeliveriesOf(d, n) == {k \in 1..(d.thread.next - 1) : d.rows[k].note = n}
StatusesFor(d, n)  == {d.rows[k].status : k \in DeliveriesOf(d, n)}

settle(d, k) ==
    LET n == d.rows[k].note
    IN [d EXCEPT !.notes[n].status = AggregateStatus(StatusesFor(d, n))]

\* Mutant: the delivery is given up and the head stays behind it.
GiveUpHeadStays(d, k, status) ==
    settle([d EXCEPT !.rows[k].status = status, !.rows[k].nextAt = NoTime,
                     !.rows[k].claimedAt = NoTime], k)

\* MarkSkipped and MarkDead, the head and the notification: what abandon does, and
\* every branch that gives a delivery up.
GiveUp(d, k, status) ==
    settle(AdvanceSent([d EXCEPT !.rows[k].status = status,
                                 !.rows[k].nextAt = NoTime,
                                 !.rows[k].claimedAt = NoTime], k), k)

(***************************************************************************)
(* Minting: Evaluate reads the thread with no lock, chooses the modes, and *)
(* in one transaction inserts each row, takes its number and its job.      *)
(***************************************************************************)
\* PlanFor, digestModes: the modes a fact produces, root first.  The destination can
\* thread or amend, which is all a digest asks before it replies to a landed root.
PlanFor(reason, rooted) ==
    LET root == IF reason = "comment" THEN "none"
                ELSE IF rooted /\ CanAmend THEN "update_root"
                ELSE "post_root"
        reply == /\ reason \in {"change", "comment"}
                 /\ CanThread /\ root # "post_root"
    IN IF reason = "digest"
         THEN IF rooted THEN <<"thread_reply">> ELSE <<"post_root">>
       ELSE IF root = "none"
         THEN IF reply THEN <<"thread_reply">> ELSE <<>>
         ELSE IF reply THEN <<root, "thread_reply">> ELSE <<root>>

Minter == [pc : {"idle", "commit"}, reason : Reasons, rooted : BOOLEAN, at : Int]
IdleMinter == [pc |-> "idle", reason |-> "none", rooted |-> FALSE, at |-> NoTime]

\* deliveries_fanout_uniq: the mode is part of a delivery's identity.
Taken(d, n, mode) == \E k \in DeliveriesOf(d, n) : d.rows[k].mode = mode

\* Mutant: the number is taken before the insert is known to have made a row.
createDeliveryAllocatesFirst(d, n, mode, at) ==
    LET k == d.thread.next
    IN IF Taken(d, n, mode) THEN [d EXCEPT !.thread.next = @ + 1]
       ELSE Enqueue([d EXCEPT
              !.thread.next = @ + 1,
              !.rows[k] = [NoDelivery EXCEPT !.status = "pending", !.note = n,
                             !.mode = mode, !.createdAt = at]], k)

\* createDelivery: an existing row wins, and only a new one takes a number.
createDelivery(d, n, mode, at) ==
    LET k == d.thread.next
    IN IF Taken(d, n, mode) THEN d
       ELSE Enqueue([d EXCEPT
              !.thread.next = @ + 1,
              !.rows[k] = [NoDelivery EXCEPT !.status = "pending", !.note = n,
                             !.mode = mode, !.createdAt = at]], k)

\* fanOut creates the rows and the notification becomes `dispatched`.
fanOut(d, n, e) ==
    LET plan == PlanFor(e.reason, e.rooted)
        one  == createDelivery(d, n, plan[1], e.at)
        both == IF Len(plan) = 1 THEN one ELSE createDelivery(one, n, plan[2], e.at)
    IN [both EXCEPT !.notes[n] = [reason |-> e.reason, status |-> "dispatched"]]

\* A new fact, or a redelivered job for one that was evaluated before.
EvaluateRead(n) ==
    /\ minter[n].pc = "idle"
    /\ now + MaxWait < MaxTime         \* bound: a delivery can wait itself out
    /\ \E reason \in Facts :
         /\ reason = "digest" <=> db.thread.digest
         /\ PlanFor(reason, RootLanded(db.thread)) # <<>>
         /\ \/ /\ db.notes[n].reason = "none"
               /\ \A m \in 1..(n - 1) : minter[m] # IdleMinter \/ db.notes[m].reason # "none"
            \/ "rerun" \in Faults /\ db.notes[n].reason = reason
         /\ minter' = [minter EXCEPT ![n] =
              [pc |-> "commit", reason |-> reason, rooted |-> RootLanded(db.thread),
               at |-> now]]
    /\ UNCHANGED <<now, db, enabled, worker, orphans, cards, posted>>

EvaluateCommit(n) ==
    /\ minter[n].pc = "commit"
    /\ db.thread.next + Len(PlanFor(minter[n].reason, minter[n].rooted)) <= MaxSeq + 1
    /\ db' = fanOut(db, n, minter[n])
    /\ minter' = [minter EXCEPT ![n] = IdleMinter]
    /\ UNCHANGED <<now, enabled, worker, orphans, cards, posted>>

(***************************************************************************)
(* The ordering gate.                                                      *)
(***************************************************************************)
\* Mutant: a digest is treated like any other card.
effectiveModeOneForAll(r, t) ==
    CASE r.mode = "post_root" /\ RootLanded(t) ->
           IF CanAmend THEN "update_root" ELSE "post_root"
      [] r.mode # "post_root" /\ ~RootLanded(t) -> "post_root"
      [] r.mode = "thread_reply" /\ RootLanded(t) /\ t.replies >= MaxReplies ->
           "post_root"
      [] OTHER -> r.mode

\* effectiveMode: the mode re-derived against the thread as it stands.
effectiveMode(r, t) ==
    CASE r.mode = "post_root" /\ t.digest /\ RootLanded(t) ->
           IF CanThread THEN "thread_reply" ELSE "post_root"
      [] r.mode = "post_root" /\ ~t.digest /\ RootLanded(t) ->
           IF CanAmend THEN "update_root" ELSE "post_root"
      [] r.mode # "post_root" /\ ~RootLanded(t) -> "post_root"
      [] r.mode = "thread_reply" /\ RootLanded(t) /\ t.replies >= MaxReplies ->
           "post_root"
      [] OTHER -> r.mode

\* Mutant: anything the head has not passed may go.
DecideAnyTurn(d, k) ==
    CASE d.thread.state = "dead" -> "recover_thread"
      [] d.thread.state # "dead" /\ k <= d.thread.last -> "out_of_order"
      [] OTHER -> "proceed"

\* Decide, asked about the re-derived mode.
Decide(d, k) ==
    LET t == d.thread
        needsRoot == effectiveMode(d.rows[k], t) # "post_root"
        waited == now - d.rows[k].createdAt > MaxWait
    IN CASE t.state = "dead" -> "recover_thread"
         [] t.state # "dead" /\ k <= t.last -> "out_of_order"
         [] t.state # "dead" /\ k = t.last + 1 ->
              IF needsRoot /\ ~RootLanded(t) THEN "recover_thread" ELSE "proceed"
         [] OTHER -> IF waited THEN "recover_thread" ELSE "wait"

\* Where Recover stops: past every slot on a dead thread, else at the first one
\* that is still in play.
SweepTo(d) ==
    LET t == d.thread
    IN CHOOSE m \in t.last..(t.next - 1) :
         /\ \A j \in (t.last + 1)..m : t.state = "dead" \/ Resolved(d.rows[j].status)
         /\ m + 1 < t.next => t.state # "dead" /\ ~Resolved(d.rows[m + 1].status)

\* Recover and OrderingStore.Advance: passed slots that never ran become skipped.
Recover(d) ==
    LET m == SweepTo(d)
    IN [d EXCEPT
          !.thread.last = m,
          !.rows = [j \in Slots |->
             IF j > d.thread.last /\ j <= m /\ d.rows[j].status \in {"pending", "failed"}
               THEN [d.rows[j] EXCEPT !.status = "skipped", !.nextAt = NoTime]
               ELSE d.rows[j]]]

\* What the dispatch sees once it may have swept: the verdict follows from it.
Seen(k) == IF Decide(db, k) \in {"proceed", "out_of_order"} THEN db ELSE Recover(db)

(***************************************************************************)
(* deliver.dispatch, TX 1.  A job that must wait its turn or its schedule  *)
(* snoozes: it stays queued and nothing changes, since what is resolved    *)
(* the head has passed, and its sweep of a live thread finds nothing.      *)
(***************************************************************************)
\* The row is read before the lock is waited for, so a second job of the same
\* delivery may act on a schedule that was not there yet.
NotDue(k) == /\ db.rows[k].status = "failed" /\ db.rows[k].nextAt > now
             /\ db.jobs[k] < 2
Due(k)    == db.jobs[k] > 0 /\ ~Resolved(db.rows[k].status) /\ ~NotDue(k)
Dead      == db.thread.state = "dead"

\* The same read, of a delivery that was resolved while the job waited for the lock.
\* Decide and claimSQL turn such a job away; recoverDeadThread does not look again.
Stale(k)  == db.jobs[k] > 0 /\ Resolved(db.rows[k].status)

\* Mutant: a claim is reclaimed while its lease runs.
ClaimableUnderLease(r) == r.status \in {"pending", "failed", "sending"}

\* claimSQL's predicate: unclaimed, or claimed longer ago than the lease.
Claimable(r) == \/ r.status \in {"pending", "failed"}
                \/ r.status = "sending" /\ now - r.claimedAt > Lease

\* Nothing to do: finished by somebody, passed by the head, or somebody's claim.
Pointless(k) ==
    \/ Resolved(db.rows[k].status)
    \/ /\ Due(k) /\ ~Dead
       /\ \/ Decide(db, k) = "out_of_order"
          \/ Decide(Seen(k), k) = "proceed" /\ ~Claimable(db.rows[k])

ExitQuietly(k) ==
    /\ db.jobs[k] > 0
    /\ Pointless(k)
    /\ db' = Done(db, k)
    /\ UNCHANGED <<now, enabled, minter, worker, orphans, cards, posted>>

\* claimSQL; ambiguous latches on the reclaim of a row whose mode is post_root.
Claimed(d, k) ==
    LET r == d.rows[k]
    IN [d EXCEPT !.rows[k] = [r EXCEPT
          !.status = "sending", !.attempts = @ + 1, !.claimedAt = now,
          !.ambiguous = @ \/ (r.status = "sending" /\ r.mode = "post_root")]]

\* LastRootHash: of the sent rows whose mode column names the root card.
LastRootHash(d) ==
    LET sent == {k \in 1..(d.thread.next - 1) :
                   /\ d.rows[k].status = "sent"
                   /\ d.rows[k].mode \in {"post_root", "update_root"}}
    IN IF sent = {} THEN "none"
       ELSE d.rows[CHOOSE k \in sent : \A j \in sent :
                     d.rows[j].sentNo <= d.rows[k].sentNo].hash

\* A dispatch between its TX 1 and its TX 2.  thread is the row it read under the
\* lock; labelled is Continued, the visible marker of a card that replaces one.
Worker == [pc : {"idle", "claimed", "answered"}, slot : 0..MaxSeq, mode : Modes,
           attempts : Nat, root : Nat, labelled : BOOLEAN,
           hash : Contents \cup {"none"}, at : Int,
           answer : {"none", "ok", "retry", "fatal", "pointer", "gone"}, card : Nat]
IdleWorker == [pc |-> "idle", slot |-> 0, mode |-> "post_root", attempts |-> 0,
               root |-> 0, labelled |-> FALSE, hash |-> "none", at |-> NoTime,
               answer |-> "none", card |-> 0]

MyTurn(k) == Due(k) /\ ~Dead /\ Decide(Seen(k), k) = "proceed"
                    /\ Claimable(db.rows[k])

\* claim, up to the COMMIT that makes `sending` durable; a call is then owed.
Claim(w, k) ==
    /\ worker[w].pc = "idle"
    /\ MyTurn(k) /\ enabled
    /\ LET d    == Claimed(Seen(k), k)
           mode == effectiveMode(d.rows[k], d.thread)
       IN \E h \in IF mode = "thread_reply" THEN {"none"} ELSE Contents :
            /\ ~(mode = "update_root" /\ LastRootHash(d) = h)
            /\ db' = Done([d EXCEPT !.rows[k].hash = h], k)
            /\ worker' = [worker EXCEPT ![w] =
                 [pc |-> "claimed", slot |-> k, mode |-> mode,
                  attempts |-> d.rows[k].attempts, root |-> d.thread.root,
                  labelled |-> /\ mode = "post_root"
                               /\ d.rows[k].ambiguous \/ d.thread.conv,
                  hash |-> h, at |-> now, answer |-> "none", card |-> 0]]
    /\ UNCHANGED <<now, enabled, minter, orphans, cards, posted>>

\* claim's early ends: the channel is disabled, the amend would change nothing, or
\* nothing legal could be rendered or opened.  The claim is counted all the same.
ClaimAbandon(k) ==
    /\ MyTurn(k)
    /\ LET d    == Claimed(Seen(k), k)
           mode == effectiveMode(d.rows[k], d.thread)
       IN \/ /\ ~enabled \/ (mode = "update_root" /\ LastRootHash(d) \in Contents)
             /\ db' = Done(GiveUp(d, k, "skipped"), k)
          \/ /\ enabled /\ "fatal" \in Answers
             /\ db' = Done(GiveUp(d, k, "dead"), k)
    /\ UNCHANGED <<now, enabled, minter, worker, orphans, cards, posted>>

(***************************************************************************)
(* recoverThread.                                                          *)
(***************************************************************************)
\* Mutant: it waits on, and nobody is given a job.
RecoverStalledSnoozes(k) ==
    /\ Due(k) /\ ~Dead
    /\ Decide(db, k) = "recover_thread"
    /\ db' = Recover(db)
    /\ UNCHANGED <<now, enabled, minter, worker, orphans, cards, posted>>

\* Waited out: whoever owns the head is given a job, this one snoozes.
RecoverStalled(k) ==
    /\ Due(k) /\ ~Dead
    /\ Decide(db, k) = "recover_thread"
    /\ LET d == Recover(db)
           head == d.thread.last + 1
       IN /\ Decide(d, k) \in {"wait", "recover_thread"}
          /\ db' = CASE head < d.thread.next -> Enqueue(d, head)
                     [] head = d.thread.next /\ d # db -> d
                     [] OTHER -> Done(GiveUp(d, k, "dead"), k)
    /\ UNCHANGED <<now, enabled, minter, worker, orphans, cards, posted>>

\* RepointToRoot changes the mode, and with it the row's identity in
\* deliveries_fanout_uniq.
RepointCollides(k) ==
    \E j \in DeliveriesOf(db, db.rows[k].note) \ {k} : db.rows[j].mode = "post_root"

\* ClearPointer and RepointToRoot: this delivery becomes the fresh root.  A stale one
\* becomes pending behind the head, where nobody will send it.
RecoverPointer(k) ==
    /\ Due(k) \/ Stale(k)
    /\ Dead /\ db.thread.reason = "pointer"
    /\ ~RepointCollides(k)
    /\ db' = [db EXCEPT
         !.thread.root = 0, !.thread.replies = 0, !.thread.state = "opening",
         !.thread.reason = "none",
         !.rows[k].mode = "post_root", !.rows[k].status = "pending",
         !.rows[k].ambiguous = TRUE, !.rows[k].hash = "none",
         !.rows[k].claimedAt = NoTime, !.rows[k].nextAt = now]
    /\ UNCHANGED <<now, enabled, minter, worker, orphans, cards, posted>>

\* The destination is gone: the backlog is swept, then this delivery is dead, even
\* one that was sent, or that another's sweep skipped, since this dispatch read it.
RecoverGone(k) ==
    /\ Due(k) \/ Stale(k)
    /\ Dead /\ db.thread.reason = "gone"
    /\ db' = Done(GiveUp(Recover(db), k, "dead"), k)
    /\ UNCHANGED <<now, enabled, minter, worker, orphans, cards, posted>>

(***************************************************************************)
(* The provider call, and TX 2.                                            *)
(***************************************************************************)
\* External.  "lost": the message landed and the answer did not.  Only a call that
\* names a root message can be told that the root is gone.
Deliver(w) ==
    LET c == worker[w]
    IN /\ c.pc = "claimed"
       /\ \E a \in Answers :
            /\ a = "pointer" => c.mode # "post_root"
            /\ worker' = [worker EXCEPT ![w].pc = "answered",
                            ![w].answer = IF a = "lost" THEN "retry" ELSE a,
                            ![w].card = IF a = "ok" /\ c.mode = "post_root"
                                          THEN Len(cards) + 1 ELSE 0]
            /\ IF a \notin {"ok", "lost"} THEN UNCHANGED <<cards, posted>>
               ELSE /\ posted' = c.slot
                    /\ cards' = CASE c.mode = "post_root" ->
                                       Append(cards, [slot     |-> c.slot,
                                                      content  |-> c.hash,
                                                      labelled |-> c.labelled])
                                  [] c.mode = "update_root" ->
                                       [cards EXCEPT ![c.root].content = c.hash]
                                  [] OTHER -> cards
    /\ UNCHANGED <<now, db, enabled, minter, orphans>>

NextSentNo(d) == 1 + Cardinality({k \in Slots : d.rows[k].sentNo > 0})

\* Mutant: the first card's handle is kept for good.
succeedFirstHandle(d, c) ==
    LET k == c.slot
        sent == [d EXCEPT !.rows[k].status = "sent", !.rows[k].nextAt = NoTime,
                          !.rows[k].claimedAt = NoTime,
                          !.rows[k].sentNo = NextSentNo(d),
                          !.thread.last = Max2(@, k)]
    IN IF d.rows[k].status # "sending" THEN d
       ELSE settle(CASE c.mode = "thread_reply" -> [sent EXCEPT !.thread.replies = @ + 1]
                     [] c.mode = "post_root" /\ d.thread.root = 0 ->
                          [sent EXCEPT !.thread.root = c.card, !.thread.conv = TRUE,
                                       !.thread.state = "open"]
                     [] OTHER -> sent, k)

\* succeed: MarkSent is guarded by status = 'sending'; a lost claim records nothing.
succeed(d, c) ==
    LET k == c.slot
        sent == [d EXCEPT !.rows[k].status = "sent", !.rows[k].nextAt = NoTime,
                          !.rows[k].claimedAt = NoTime,
                          !.rows[k].sentNo = NextSentNo(d)]
        recorded ==
            CASE c.mode = "post_root" ->
                   [sent EXCEPT !.thread.root = c.card, !.thread.conv = TRUE,
                                !.thread.state = "open", !.thread.reason = "none",
                                !.thread.last = Max2(@, k)]
              [] c.mode = "thread_reply" ->
                   [sent EXCEPT !.thread.replies = @ + 1, !.thread.last = Max2(@, k)]
              [] OTHER -> AdvanceSent(sent, k)
    IN IF d.rows[k].status = "sending" THEN settle(recorded, k) ELSE d

\* fail on an error that names the thread: the thread dies, the delivery is due at
\* once and the next pass recovers.
failThread(d, k, reason) ==
    Enqueue([d EXCEPT
      !.thread.state = "dead",
      !.thread.reason = IF d.thread.state = "dead" THEN @ ELSE reason,
      !.rows[k].status = "failed", !.rows[k].nextAt = now,
      !.rows[k].claimedAt = NoTime], k)

\* fail on an error that will be retried, after wait.
failRetry(d, k, wait) ==
    Enqueue(settle([d EXCEPT !.rows[k].status = "failed",
                             !.rows[k].claimedAt = NoTime,
                             !.rows[k].nextAt = now + wait], k), k)

\* record.
Record(w) ==
    LET c == worker[w]
    IN /\ c.pc = "answered"
       /\ \/ /\ c.answer = "ok"
             /\ db' = succeed(db, c)
          \/ /\ c.answer \in {"pointer", "gone"}
             /\ db' = failThread(db, c.slot, c.answer)
          \/ /\ \/ c.answer = "fatal"
                \/ c.answer = "retry" /\ c.attempts >= MaxAttempts
             /\ db' = GiveUp(db, c.slot, "dead")
          \/ /\ c.answer = "retry" /\ c.attempts < MaxAttempts
             /\ \E wait \in Backoffs :
                  /\ now + wait <= MaxTime       \* bound: the retry falls due
                  /\ db' = failRetry(db, c.slot, wait)
       /\ worker' = [worker EXCEPT ![w] = IdleWorker]
       /\ UNCHANGED <<now, enabled, minter, orphans, cards, posted>>

(***************************************************************************)
(* What else happens.                                                      *)
(***************************************************************************)
\* TX 2 fails: Dispatch returns the error and River runs the job again in seconds.
RecordFails(w) ==
    /\ "record" \in Faults
    /\ now + Lease < MaxTime           \* bound: time is left for the lease
    /\ worker[w].pc = "answered"
    /\ db' = Requeue(db, worker[w].slot)
    /\ worker' = [worker EXCEPT ![w] = IdleWorker]
    /\ UNCHANGED <<now, enabled, minter, orphans, cards, posted>>

\* The pod dies with its goroutine, before or after the provider answered.
Crash(w) ==
    /\ "crash" \in Faults
    /\ now + Lease < MaxTime           \* bound: time is left for the rescue
    /\ worker[w].pc # "idle"
    /\ orphans' = [orphans EXCEPT ![worker[w].slot] = now]
    /\ worker' = [worker EXCEPT ![w] = IdleWorker]
    /\ UNCHANGED <<now, db, enabled, minter, cards, posted>>

\* River re-queues a job whose worker died; rescue_after exceeds the claim lease.
Rescue(k) ==
    /\ orphans[k] # NoTime /\ now - orphans[k] > Lease
    /\ orphans' = [orphans EXCEPT ![k] = NoTime]
    /\ db' = Requeue(db, k)
    /\ UNCHANGED <<now, enabled, minter, worker, cards, posted>>

\* RequeueDead, then the job, whose insert may fail unnoticed.
retryDelivery(k) ==
    /\ "retry" \in Faults
    /\ db.rows[k].status = "dead"
    /\ LET d == [db EXCEPT !.rows[k].status = "pending", !.rows[k].nextAt = now]
       IN db' = Enqueue(d, k) \/ ("record" \in Faults /\ db' = d)
    /\ UNCHANGED <<now, enabled, minter, worker, orphans, cards, posted>>

SetEnabled ==
    /\ "disable" \in Faults
    /\ enabled' = ~enabled
    /\ UNCHANGED <<now, db, minter, worker, orphans, cards, posted>>

\* A call and its TX 2 are bounded by timeouts well inside the lease; only a pod
\* that stalls carries a claim past it.
Tick ==
    /\ now < MaxTime
    /\ "stall" \in Faults
         \/ \A w \in Workers : worker[w].pc # "idle" => now + 1 - worker[w].at <= Lease
    /\ now' = now + 1
    /\ UNCHANGED <<db, enabled, minter, worker, orphans, cards, posted>>

Init ==
    /\ now = 0
    /\ \E f \in Facts :
         db = [thread |-> NewThread(f = "digest"),
               rows   |-> [k \in Slots |-> NoDelivery],
               notes  |-> [n \in Notes |-> [reason |-> "none", status |-> "none"]],
               jobs   |-> [k \in Slots |-> 0]]
    /\ enabled = TRUE
    /\ minter = [n \in Notes |-> IdleMinter]
    /\ worker = [w \in Workers |-> IdleWorker]
    /\ orphans = [k \in Slots |-> NoTime]
    /\ cards = <<>> /\ posted = 0

\* One dispatch of delivery k up to the end of its TX 1.
prepare(k) ==
    \/ ExitQuietly(k) \/ ClaimAbandon(k)
    \/ RecoverStalled(k) \/ RecoverPointer(k) \/ RecoverGone(k)
    \/ \E w \in Workers : Claim(w, k)

Next ==
    \/ Tick \/ SetEnabled
    \/ \E n \in Notes : EvaluateRead(n) \/ EvaluateCommit(n)
    \/ \E k \in Slots : prepare(k) \/ Rescue(k) \/ retryDelivery(k)
    \/ \E w \in Workers : Deliver(w) \/ Record(w) \/ RecordFails(w) \/ Crash(w)

Spec == Init /\ [][Next]_vars

\* River runs every queued job, rescues the lost ones and the clock moves on; a
\* fan-out in progress commits, a call is answered and TX 2 is attempted.
Fairness ==
    /\ WF_vars(Tick)
    /\ \A n \in Notes : WF_vars(EvaluateCommit(n))
    /\ \A k \in Slots : WF_vars(prepare(k)) /\ WF_vars(Rescue(k))
    /\ \A w \in Workers : WF_vars(Deliver(w)) /\ WF_vars(Record(w))
FairSpec == Spec /\ Fairness

(***************************************************************************)
(* Properties.                                                             *)
(***************************************************************************)
\* Rows, queue, workers and cards keep their shape: deliveries fill the numbers
\* below next_seq without a hole, and the handles name cards that exist.
TypeOK ==
    /\ now \in 0..MaxTime /\ enabled \in BOOLEAN /\ posted \in 0..MaxSeq
    /\ db \in DB
    /\ minter \in [Notes -> Minter]
    /\ worker \in [Workers -> Worker]
    /\ orphans \in [Slots -> Int]
    /\ cards \in Seq([slot : Slots, content : Contents, labelled : BOOLEAN])
    /\ \A k \in Slots : db.rows[k].status = "none" <=> k >= db.thread.next
    /\ db.thread.root <= Len(cards)
    /\ \A w \in Workers : worker[w].root <= Len(cards) /\ worker[w].card <= Len(cards)

\* While no pod stalls, no operator retries and no root message is lost, last_sent_seq
\* is exact: a delivery is resolved if and only if the head has reached it, through
\* claims, crashes, failures, give-ups and sweeps.
HeadExact ==
    \A k \in Queued : Resolved(db.rows[k].status) <=> k <= db.thread.last

\* While no pod stalls past its lease, one thread has at most one message in flight,
\* although the provider is called with no lock held.
OneSender ==
    \A v, w \in Workers : worker[v].pc # "idle" /\ worker[w].pc # "idle" => v = w

\* A reply or an amend that is about to go out names the newest card of the thread.
WritesNewestCard ==
    \A w \in Workers :
        worker[w].pc = "claimed" /\ worker[w].mode # "post_root"
            => worker[w].root = Len(cards)

\* Messages reach the destination in the order in which they were minted; only the
\* delivery that was last may be repeated.
InOrder == [][posted' >= posted]_vars

\* A digest card is never amended: last window's numbers stay readable.
DigestNeverAmended ==
    [][db.thread.digest => \A i \in 1..Len(cards) : cards'[i] = cards[i]]_vars

\* No late or repeated TX 2 walks last_sent_seq backwards.
HeadNeverRewinds == [][db'.thread.last >= db.thread.last]_vars

\* The one way out of the queue the code leaves open: TX 2 failed, the job that was
\* run again found the claim taken and ended, and no delivery waits behind this one.
Stranded(k) ==
    /\ db.rows[k].status = "sending" /\ k + 1 = db.thread.next
    /\ db.jobs[k] = 0 /\ orphans[k] = NoTime
    /\ \A w \in Workers : worker[w].slot # k

\* Every delivery is eventually sent, skipped or dead, through crashes, retries and
\* failing TX 2s; even a stranded one is given a new job by the next delivery that
\* waits itself out behind it (recoverThread).
EveryDeliveryEnds ==
    \A k \in Slots : db.rows[k].status \in {"pending", "sending", "failed"}
                        ~> Resolved(db.rows[k].status) \/ Stranded(k)
=============================================================================
