--------------------------- MODULE OssImageDelete ---------------------------
(***************************************************************************)
(* The persistent queue that deletes user images from Aliyun OSS           *)
(* (legacy/services/oss_image_delete_service.py): the API handler that     *)
(* enqueues jobs, the worker loop every uvicorn process runs (main.py),    *)
(* the table oss_image_delete_jobs they share, and the object store.       *)
(*                                                                         *)
(* A process is one event loop.  It runs a database session (query ...     *)
(* commit) without yielding, so its own sessions never overlap; sessions   *)
(* of different processes do, and a commit writes back what the session    *)
(* read.  The worker yields only while it awaits OSS or sleeps.            *)
(*                                                                         *)
(* Time is counted in units of the worker interval: "wait" is what remains *)
(* until next_retry_at, "nap" what remains of the worker's sleep.          *)
(***************************************************************************)
EXTENDS Integers, FiniteSets

CONSTANTS
  Procs,          \* uvicorn processes (one in dev mode, four in prod mode)
  Keys,           \* object keys
  Poison,         \* keys OSS refuses to delete, whatever is tried
  BatchSize,      \* worker_batch_size
  Interval,       \* worker_interval_seconds
  RetryBase,      \* retry_base_seconds
  RetryMax,       \* retry_max_seconds
  MaxAttempts,    \* max_attempts; 0 means no limit
  AttemptBound,   \* bound: attempt_count saturates here
  MaxRequests,    \* bound: delete requests the clients send
  MaxFaults       \* bound: crashes and database errors

ASSUME KeysAssumption == IsFiniteSet(Keys) /\ Poison \subseteq Keys
ASSUME BatchAssumption == BatchSize \in Nat \ {0}
ASSUME TimeAssumption ==
  /\ Interval \in Nat \ {0} /\ RetryBase \in Nat \ {0} /\ RetryMax \in Nat
  /\ RetryBase <= RetryMax
ASSUME AttemptAssumption ==
  MaxAttempts \in Nat /\ AttemptBound \in Nat /\ MaxAttempts < AttemptBound
ASSUME BoundAssumption == MaxRequests \in Nat /\ MaxFaults \in Nat

VARIABLES
  job,       \* the table: one row per key, status "none" before the insert
  stored,    \* stored[k]: OSS holds the object
  tx,        \* tx[p]: p's open session, its kind and the rows it has read
  pc,        \* pc[p]: where p's worker loop is
  todo,      \* todo[p]: job_snapshots still to process
  cur,       \* cur[p]: the key being deleted, as a set of at most one key
  nap,       \* nap[p]: time p's worker still sleeps
  requests,  \* delete requests sent so far
  faults     \* crashes and database errors so far

vars == <<job, stored, tx, pc, todo, cur, nap, requests, faults>>

Retryable == {"pending", "running", "failed"}
Statuses  == {"none", "confirmed"} \cup Retryable
PCs       == {"poll", "loop", "head", "confirm", "fail", "down"}

NoTx == [kind |-> "none", rows |-> [k \in {} |-> 0]]

Init ==
  /\ job = [k \in Keys |-> [status |-> "none", attempts |-> 0, wait |-> 0, born |-> 0]]
  /\ stored = [k \in Keys |-> TRUE]
  /\ tx = [p \in Procs |-> NoTx]
  /\ pc = [p \in Procs |-> "poll"]
  /\ todo = [p \in Procs |-> {}]
  /\ cur = [p \in Procs |-> {}]
  /\ nap = [p \in Procs |-> 0]
  /\ requests = 0
  /\ faults = 0

-----------------------------------------------------------------------------
(* Sessions.                                                               *)

\* p is alive and between two sessions.
Idle(p) == pc[p] # "down" /\ tx[p].kind = "none"

\* The session p opens has read the rows of ks.
Open(p, kind, ks) ==
  tx' = [tx EXCEPT ![p] = [kind |-> kind, rows |-> [k \in ks |-> job[k]]]]

Close(p) == tx' = [tx EXCEPT ![p] = NoTx]

\* The ORM emits an UPDATE of a column only if the session changed it: a value
\* set to what was read leaves what another session committed meanwhile.
Dirty(read, set, now) == IF set = read THEN now ELSE set

-----------------------------------------------------------------------------
(* POST /image/oss-delete-objects.                                         *)

\* Each row is looked up.  ks are the keys of the request whose delete token is
\* valid; the others only count as invalid.
EnqueueRead(p, ks) ==
  /\ Idle(p)
  /\ requests < MaxRequests
  /\ requests' = requests + 1
  /\ Open(p, "enqueue", ks)
  /\ UNCHANGED <<job, stored, pc, todo, cur, nap, faults>>

\* Mutant: a confirmed job is queued again like any other.
AnyRow(row) == row.status # "none"

\* The existing rows a request resets; it skips the confirmed ones.
MayRequeue(row) == row.status \in Retryable

Requeued(now, read) ==
  [now EXCEPT !.status = Dirty(read.status, "pending", now.status), !.wait = 0]

Inserted == [status |-> "pending", attempts |-> 0, wait |-> 0,
             born |-> Cardinality({k \in Keys : job[k].status # "none"})]

\* All rows are written by one commit.  Another process that inserted one of
\* them first makes the unique object_key fail the whole request.
EnqueueCommit(p) ==
  LET rows == tx[p].rows
      new  == {k \in DOMAIN rows : rows[k].status = "none"}
      old  == {k \in DOMAIN rows : MayRequeue(rows[k])}
  IN  /\ tx[p].kind = "enqueue"
      /\ Close(p)
      /\ IF \E k \in new : job[k].status # "none"
         THEN job' = job
         ELSE job' = [k \in Keys |-> IF k \in new THEN Inserted
                                     ELSE IF k \in old THEN Requeued(job[k], rows[k])
                                     ELSE job[k]]
      /\ UNCHANGED <<stored, pc, todo, cur, nap, requests, faults>>

-----------------------------------------------------------------------------
(* The worker loop: process_due_jobs_once, then sleep.                     *)

Due == {k \in Keys : job[k].status \in Retryable /\ job[k].wait = 0}

\* The BatchSize oldest due jobs; jobs inserted together may come in any order.
Batches ==
  {b \in SUBSET Due :
     /\ Cardinality(b) <= BatchSize
     /\ Cardinality(b) < BatchSize => b = Due
     /\ \A k \in b, l \in Due \ b : job[k].born <= job[l].born}

ClaimRead(p) ==
  /\ Idle(p) /\ pc[p] = "poll" /\ nap[p] = 0
  /\ \E b \in Batches : Open(p, "claim", b)
  /\ UNCHANGED <<job, stored, pc, todo, cur, nap, requests, faults>>

ClaimCommit(p) ==
  LET rows == tx[p].rows
  IN  /\ tx[p].kind = "claim"
      /\ Close(p)
      /\ job' = [k \in Keys |->
                   IF k \in DOMAIN rows
                   THEN [job[k] EXCEPT !.status = Dirty(rows[k].status, "running", job[k].status)]
                   ELSE job[k]]
      /\ todo' = [todo EXCEPT ![p] = DOMAIN rows]
      /\ pc' = [pc EXCEPT ![p] = "loop"]
      /\ UNCHANGED <<stored, cur, nap, requests, faults>>

\* asyncio.sleep(worker_interval_seconds) after the last job of the batch.
Sleep(p) ==
  /\ Idle(p) /\ pc[p] = "loop" /\ todo[p] = {}
  /\ pc' = [pc EXCEPT ![p] = "poll"]
  /\ nap' = [nap EXCEPT ![p] = Interval]
  /\ UNCHANGED <<job, stored, tx, todo, cur, requests, faults>>

\* p takes k, the oldest job left in its batch.
Take(p, k) ==
  /\ Idle(p) /\ pc[p] = "loop" /\ k \in todo[p]
  /\ \A l \in todo[p] : job[k].born <= job[l].born
  /\ todo' = [todo EXCEPT ![p] = @ \ {k}]
  /\ cur' = [cur EXCEPT ![p] = {k}]
  /\ UNCHANGED <<job, tx, nap, requests, faults>>

\* Mutant: the answer to DELETE is trusted and HEAD is left out.
DeleteTrusted(p, k, gone) ==
  /\ Take(p, k)
  /\ k \notin Poison
  /\ stored' = [stored EXCEPT ![k] = @ /\ ~gone]
  /\ pc' = [pc EXCEPT ![p] = "confirm"]

\* DELETE is answered 200, 202, 204 or 404.  A 202 may leave the object there.
DeleteAccepted(p, k, gone) ==
  /\ Take(p, k)
  /\ k \notin Poison
  /\ stored' = [stored EXCEPT ![k] = @ /\ ~gone]
  /\ pc' = [pc EXCEPT ![p] = "head"]

\* Any other answer, or none within the timeout: OSS may have deleted it.
DeleteRefused(p, k, gone) ==
  /\ Take(p, k)
  /\ stored' = [stored EXCEPT ![k] = @ /\ ~(gone /\ k \notin Poison)]
  /\ pc' = [pc EXCEPT ![p] = "fail"]

\* HEAD tells whether the object is there; only a 404 confirms.
Head(p, k) ==
  /\ Idle(p) /\ pc[p] = "head" /\ k \in cur[p]
  /\ pc' = [pc EXCEPT ![p] = IF stored[k] THEN "fail" ELSE "confirm"]
  /\ UNCHANGED <<job, stored, tx, todo, cur, nap, requests, faults>>

\* HEAD is answered by an error or not at all.
HeadFails(p) ==
  /\ Idle(p) /\ pc[p] = "head"
  /\ pc' = [pc EXCEPT ![p] = "fail"]
  /\ UNCHANGED <<job, stored, tx, todo, cur, nap, requests, faults>>

MarkRead(p) ==
  /\ Idle(p) /\ pc[p] \in {"confirm", "fail"}
  /\ Open(p, "mark", cur[p])
  /\ UNCHANGED <<job, stored, pc, todo, cur, nap, requests, faults>>

Marked(p) ==
  /\ tx[p].kind = "mark"
  /\ Close(p)
  /\ pc' = [pc EXCEPT ![p] = "loop"]
  /\ cur' = [cur EXCEPT ![p] = {}]
  /\ UNCHANGED <<stored, todo, nap, requests, faults>>

\* _mark_confirmed writes whatever the row's status was.
MarkConfirmed(p) ==
  /\ pc[p] = "confirm"
  /\ Marked(p)
  /\ job' = [k \in Keys |->
               IF k \in cur[p]
               THEN [job[k] EXCEPT !.status = Dirty(tx[p].rows[k].status, "confirmed", @)]
               ELSE job[k]]

\* Mutants: no upper limit; no backoff.
DelayWithoutLimit(attempts) == RetryBase * 2^(attempts - 1)
DelayWithoutBackoff(attempts) == RetryBase

\* _retry_delay_seconds: doubles with every attempt, at most ten times, up to
\* RetryMax.
RetryDelay(attempts) ==
  LET exponent == IF attempts - 1 > 10 THEN 10 ELSE attempts - 1
      delay    == RetryBase * 2^exponent
  IN  IF delay \in 0 .. RetryMax THEN delay ELSE RetryMax

NextAttempt(a) == IF a < AttemptBound THEN a + 1 ELSE a

\* Mutant: the job keeps the status of the attempt.
StillRunning(attempts) == "running"

FailedStatus(attempts) ==
  IF MaxAttempts > 0 /\ attempts >= MaxAttempts THEN "failed" ELSE "pending"

Failed(now, read) ==
  LET n == NextAttempt(read.attempts)
  IN  [now EXCEPT !.status = Dirty(read.status, FailedStatus(n), @),
                  !.attempts = n, !.wait = RetryDelay(n)]

\* _mark_failed likewise.
MarkFailed(p) ==
  /\ pc[p] = "fail"
  /\ Marked(p)
  /\ job' = [k \in Keys |-> IF k \in cur[p] THEN Failed(job[k], tx[p].rows[k]) ELSE job[k]]

-----------------------------------------------------------------------------
(* Faults and time.                                                        *)

\* A session fails and is rolled back.  The exception ends the request, or the
\* worker's batch: the loop logs it and sleeps.
DatabaseError(p) ==
  /\ tx[p].kind # "none"
  /\ faults < MaxFaults
  /\ faults' = faults + 1
  /\ Close(p)
  /\ IF tx[p].kind = "enqueue"
     THEN UNCHANGED <<pc, todo, cur, nap>>
     ELSE /\ pc' = [pc EXCEPT ![p] = "poll"]
          /\ todo' = [todo EXCEPT ![p] = {}]
          /\ cur' = [cur EXCEPT ![p] = {}]
          /\ nap' = [nap EXCEPT ![p] = Interval]
  /\ UNCHANGED <<job, stored, requests>>

\* p is killed, or its lifespan ends and cancels the worker task: CancelledError
\* passes the handlers of the batch, so nothing is marked.
Crash(p) ==
  /\ pc[p] # "down"
  /\ faults < MaxFaults
  /\ faults' = faults + 1
  /\ Close(p)
  /\ pc' = [pc EXCEPT ![p] = "down"]
  /\ todo' = [todo EXCEPT ![p] = {}]
  /\ cur' = [cur EXCEPT ![p] = {}]
  /\ nap' = [nap EXCEPT ![p] = 0]
  /\ UNCHANGED <<job, stored, requests>>

Restart(p) ==
  /\ pc[p] = "down"
  /\ pc' = [pc EXCEPT ![p] = "poll"]
  /\ UNCHANGED <<job, stored, tx, todo, cur, nap, requests, faults>>

Less(n) == IF n > 0 THEN n - 1 ELSE n

\* p's event loop has nothing to run: it sleeps or awaits OSS.
Waiting(p) ==
  /\ tx[p].kind = "none"
  /\ \/ pc[p] \in {"head", "down"}
     \/ pc[p] = "loop" /\ todo[p] # {}
     \/ pc[p] = "poll" /\ nap[p] > 0

\* Computing takes no time, so the clock moves on only when every process
\* waits.  OSS may take any time to answer.
Tick ==
  /\ \A p \in Procs : Waiting(p)
  /\ job' = [k \in Keys |-> [job[k] EXCEPT !.wait = Less(@)]]
  /\ nap' = [p \in Procs |-> Less(nap[p])]
  /\ UNCHANGED <<stored, tx, pc, todo, cur, requests, faults>>

Api(p) == (\E ks \in (SUBSET Keys) \ {{}} : EnqueueRead(p, ks)) \/ EnqueueCommit(p)

Oss(p) ==
  \E k \in Keys :
    \/ \E gone \in BOOLEAN : DeleteAccepted(p, k, gone) \/ DeleteRefused(p, k, gone)
    \/ Head(p, k)

Worker(p) ==
  \/ ClaimRead(p) \/ ClaimCommit(p) \/ Sleep(p)
  \/ Oss(p) \/ HeadFails(p)
  \/ MarkRead(p) \/ MarkConfirmed(p) \/ MarkFailed(p)

Next ==
  \/ \E p \in Procs : Api(p) \/ Worker(p) \/ DatabaseError(p) \/ Crash(p) \/ Restart(p)
  \/ Tick

Spec == Init /\ [][Next]_vars

(* The event loops run, requests are answered (httpx has a timeout), the   *)
(* supervisor restarts a process, the clock advances; OSS may fail any     *)
(* number of times, but not always, unless the key is poison.              *)
Fairness ==
  /\ WF_vars(Tick)
  /\ \A p \in Procs :
       /\ WF_vars(Worker(p)) /\ WF_vars(EnqueueCommit(p)) /\ WF_vars(Restart(p))
       /\ \A k \in Keys : SF_vars(DeleteAccepted(p, k, TRUE)) /\ SF_vars(Head(p, k))

FairSpec == Spec /\ Fairness

-----------------------------------------------------------------------------
(* Properties.                                                             *)

Row == [status : Statuses, attempts : 0 .. AttemptBound, wait : 0 .. RetryMax, born : Nat]

Kinds == {"none", "enqueue", "claim", "mark"}

SessionOK(s) ==
  /\ s = [kind |-> s.kind, rows |-> s.rows] /\ s.kind \in Kinds
  /\ \E ks \in SUBSET Keys : s.rows \in [ks -> Row]

\* Every variable has its type; in particular no delay exceeds
\* retry_max_seconds and no session writes a row it did not read.
TypeOK ==
  /\ job \in [Keys -> Row]
  /\ stored \in [Keys -> BOOLEAN]
  /\ tx = [p \in Procs |-> tx[p]] /\ \A p \in Procs : SessionOK(tx[p])
  /\ pc \in [Procs -> PCs]
  /\ todo \in [Procs -> SUBSET Keys]
  /\ cur \in [Procs -> SUBSET Keys]
  /\ nap \in [Procs -> 0 .. Interval]
  /\ requests \in 0 .. MaxRequests
  /\ faults \in 0 .. MaxFaults

\* A job reported as confirmed is really gone from OSS, whichever process
\* reported it and whatever failed on the way (_delete_and_confirm).
ConfirmedIsGone ==
  \A k \in Keys : job[k].status = "confirmed" => ~stored[k]

\* A job marked running is in the hands of a worker, unless a crash or a
\* database error took it away (process_due_jobs_once).
RunningIsHeld ==
  \A k \in Keys :
    job[k].status = "running" /\ faults = 0 => \E p \in Procs : k \in todo[p] \cup cur[p]

\* TERMINAL_STATUSES = {"confirmed"}: a confirmed job never changes its status
\* again.
ConfirmedIsTerminal ==
  [][\A k \in Keys : job[k].status = "confirmed" => job'[k].status = "confirmed"]_vars

\* max_attempts, when it is not 0, bounds the attempts of every job
\* (config_initializer.py, aliyun_oss_delete_max_attempts).
AttemptsAreBounded ==
  MaxAttempts > 0 => \A k \in Keys : job[k].attempts <= MaxAttempts

\* Every enqueued job whose object OSS can delete is confirmed in the end: no
\* crash, no lost answer and no older job that always fails keeps it away.
EventuallyConfirmed ==
  \A k \in Keys \ Poison :
    job[k].status \in Retryable ~> job[k].status = "confirmed"
=============================================================================
