----------------------- MODULE OssImageDelete_proofs -----------------------
(***************************************************************************)
(* Theorems about OssImageDelete, for any number of processes, keys and    *)
(* any bounds: the types, that a confirmed object is gone, that a running  *)
(* job has its worker, and that with one process a confirmed job stays     *)
(* confirmed.                                                              *)
(***************************************************************************)
EXTENDS OssImageDelete, FiniteSetTheorems, TLAPS

-----------------------------------------------------------------------------
(* Types.                                                                  *)

\* The delay before a retry is at most retry_max_seconds (_retry_delay_seconds).
LEMMA RetryDelayType == \A n : RetryDelay(n) \in 0 .. RetryMax
  BY TimeAssumption DEF RetryDelay

\* The rank of a new row is a number: the table is finite (enqueue_delete_jobs).
LEMMA BornType == Cardinality({k \in Keys : job[k].status # "none"}) \in Nat
  <1>1. IsFiniteSet({k \in Keys : job[k].status # "none"})
    BY KeysAssumption, FS_Subset
  <1> QED
    BY <1>1, FS_CardinalityType

\* What a session reads are rows (db.query in all four functions).
LEMMA OpenType ==
  ASSUME TypeOK, NEW p \in Procs, NEW ks \in SUBSET Keys, NEW kind \in Kinds,
         Open(p, kind, ks)
  PROVE  tx' = [q \in Procs |-> tx'[q]] /\ \A q \in Procs : SessionOK(tx'[q])
  <1> DEFINE s == [kind |-> kind, rows |-> [k \in ks |-> job[k]]]
  <1>1. SessionOK(s)
    <2>1. s.rows \in [ks -> Row]
      BY DEF TypeOK
    <2> QED
      BY <2>1 DEF SessionOK
  <1>2. tx' = [q \in Procs |-> IF q = p THEN s ELSE tx[q]]
    BY DEF Open, TypeOK
  <1> QED
    BY <1>1, <1>2 DEF TypeOK

\* A session that ends leaves no rows behind (db.close).
LEMMA CloseType ==
  ASSUME TypeOK, NEW p \in Procs, Close(p)
  PROVE  tx' = [q \in Procs |-> tx'[q]] /\ \A q \in Procs : SessionOK(tx'[q])
  <1>1. SessionOK(NoTx)
    <2>1. NoTx.rows \in [{} -> Row]
      BY DEF NoTx
    <2> QED
      BY <2>1 DEF SessionOK, NoTx, Kinds
  <1>2. tx' = [q \in Procs |-> IF q = p THEN NoTx ELSE tx[q]]
    BY DEF Close, TypeOK
  <1> QED
    BY <1>1, <1>2 DEF TypeOK

\* _mark_confirmed and _mark_failed read the one row they write.
MarkFits ==
  \A p \in Procs : tx[p].kind = "mark" => DOMAIN tx[p].rows = cur[p]

\* A re-enqueued row is a row (enqueue_delete_jobs).
LEMMA RequeuedType == \A row \in Row : \A r : Requeued(row, r) \in Row
  <1> SUFFICES ASSUME NEW row \in Row, NEW r PROVE Requeued(row, r) \in Row
    OBVIOUS
  <1>1. Dirty(r.status, "pending", row.status) \in Statuses
    BY DEF Dirty, Row, Statuses, Retryable
  <1>2. 0 \in 0 .. RetryMax
    BY TimeAssumption
  <1> QED
    BY <1>1, <1>2 DEF Requeued, Row

\* The row of a failed attempt is a row (_mark_failed).
LEMMA FailedType == \A row, read \in Row : Failed(row, read) \in Row
  <1> SUFFICES ASSUME NEW row \in Row, NEW read \in Row PROVE Failed(row, read) \in Row
    OBVIOUS
  <1> DEFINE n == NextAttempt(read.attempts)
  <1>1. n \in 0 .. AttemptBound
    BY AttemptAssumption DEF NextAttempt, Row
  <1>2. Dirty(read.status, FailedStatus(n), row.status) \in Statuses
    BY DEF Dirty, FailedStatus, Row, Statuses, Retryable
  <1> QED
    BY <1>1, <1>2, RetryDelayType DEF Failed, Row

Typed == TypeOK /\ MarkFits

\* Every reachable state of the delete queue has its type.
LEMMA TypedInductive == Spec => []Typed
  <1>1. Init => TypeOK
    <2> SUFFICES ASSUME Init PROVE TypeOK
      OBVIOUS
    <2>1. SessionOK(NoTx)
      <3>1. NoTx.rows \in [{} -> Row]
        BY DEF NoTx
      <3> QED
        BY <3>1 DEF SessionOK, NoTx, Kinds
    <2>2. [status |-> "none", attempts |-> 0, wait |-> 0, born |-> 0] \in Row
      BY AttemptAssumption, TimeAssumption DEF Row, Statuses
    <2> QED
      BY <2>1, <2>2, TimeAssumption, BoundAssumption DEF Init, TypeOK, PCs
  <1>2. Typed /\ [Next]_vars => TypeOK'
    <2> SUFFICES ASSUME TypeOK, MarkFits, [Next]_vars PROVE TypeOK'
      BY DEF Typed
    <2> USE DEF TypeOK
    <2>1. ASSUME NEW p \in Procs, NEW ks \in SUBSET Keys, EnqueueRead(p, ks) PROVE TypeOK'
      <3>1. requests' \in 0 .. MaxRequests
        BY <2>1, BoundAssumption DEF EnqueueRead
      <3> QED
        BY <2>1, <3>1, OpenType DEF EnqueueRead, Kinds
    <2>2. ASSUME NEW p \in Procs, EnqueueCommit(p) PROVE TypeOK'
      <3>1. Inserted \in Row
        BY BornType, AttemptAssumption, TimeAssumption DEF Inserted, Row, Statuses, Retryable
      <3>3. job' \in [Keys -> Row]
        BY <2>2, <3>1, RequeuedType DEF EnqueueCommit
      <3> QED
        BY <2>2, <3>3, CloseType DEF EnqueueCommit
    <2>3. ASSUME NEW p \in Procs, ClaimRead(p) PROVE TypeOK'
      <3>1. PICK b \in Batches : Open(p, "claim", b)
        BY <2>3 DEF ClaimRead
      <3>2. b \in SUBSET Keys
        BY DEF Batches, Due
      <3> QED
        BY <2>3, <3>1, <3>2, OpenType DEF ClaimRead, Kinds
    <2>4. ASSUME NEW p \in Procs, ClaimCommit(p) PROVE TypeOK'
      <3>1. DOMAIN tx[p].rows \in SUBSET Keys
        BY DEF SessionOK
      <3>2. job' \in [Keys -> Row]
        BY <2>4 DEF ClaimCommit, Row, Dirty, Statuses, Retryable
      <3> QED
        BY <2>4, <3>1, <3>2, CloseType DEF ClaimCommit, PCs
    <2>5. ASSUME NEW p \in Procs, Sleep(p) PROVE TypeOK'
      BY <2>5, TimeAssumption DEF Sleep, PCs
    <2>6. ASSUME NEW p \in Procs, NEW k \in Keys, Take(p, k), pc' \in [Procs -> PCs],
                 stored' \in [Keys -> BOOLEAN]
          PROVE  TypeOK'
      BY <2>6 DEF Take
    <2>7. ASSUME NEW p \in Procs, NEW k \in Keys, NEW gone \in BOOLEAN,
                 DeleteAccepted(p, k, gone)
          PROVE  TypeOK'
      BY <2>6, <2>7 DEF DeleteAccepted, PCs
    <2>8. ASSUME NEW p \in Procs, NEW k \in Keys, NEW gone \in BOOLEAN,
                 DeleteRefused(p, k, gone)
          PROVE  TypeOK'
      BY <2>6, <2>8 DEF DeleteRefused, PCs
    <2>9. ASSUME NEW p \in Procs, NEW k \in Keys, Head(p, k) PROVE TypeOK'
      BY <2>9 DEF Head, PCs
    <2>10. ASSUME NEW p \in Procs, HeadFails(p) PROVE TypeOK'
      BY <2>10 DEF HeadFails, PCs
    <2>11. ASSUME NEW p \in Procs, MarkRead(p) PROVE TypeOK'
      <3>1. cur[p] \in SUBSET Keys
        OBVIOUS
      <3> QED
        BY <2>11, <3>1, OpenType DEF MarkRead, Kinds
    <2>12. ASSUME NEW p \in Procs, Marked(p), job' \in [Keys -> Row] PROVE TypeOK'
      BY <2>12, CloseType DEF Marked, PCs
    <2>13. ASSUME NEW p \in Procs, MarkConfirmed(p) PROVE TypeOK'
      <3>1. job' \in [Keys -> Row]
        BY <2>13 DEF MarkConfirmed, Row, Dirty, Statuses
      <3> QED
        BY <2>12, <2>13, <3>1 DEF MarkConfirmed
    <2>14. ASSUME NEW p \in Procs, MarkFailed(p) PROVE TypeOK'
      <3>1. ASSUME NEW k \in cur[p] PROVE tx[p].rows[k] \in Row
        BY <2>14 DEF MarkFailed, Marked, MarkFits, SessionOK
      <3>2. job' \in [Keys -> Row]
        BY <2>14, <3>1, FailedType DEF MarkFailed
      <3> QED
        BY <2>12, <2>14, <3>2 DEF MarkFailed
    <2>15. ASSUME NEW p \in Procs, DatabaseError(p) PROVE TypeOK'
      <3>1. faults' \in 0 .. MaxFaults
        BY <2>15, BoundAssumption DEF DatabaseError
      <3> QED
        BY <2>15, <3>1, CloseType, TimeAssumption DEF DatabaseError, PCs
    <2>16. ASSUME NEW p \in Procs, Crash(p) PROVE TypeOK'
      <3>1. faults' \in 0 .. MaxFaults
        BY <2>16, BoundAssumption DEF Crash
      <3> QED
        BY <2>16, <3>1, CloseType, TimeAssumption DEF Crash, PCs
    <2>17. ASSUME NEW p \in Procs, Restart(p) PROVE TypeOK'
      BY <2>17 DEF Restart, PCs
    <2>18. ASSUME Tick PROVE TypeOK'
      <3>1. job' \in [Keys -> Row]
        BY <2>18, TimeAssumption DEF Tick, Less, Row
      <3>2. nap' \in [Procs -> 0 .. Interval]
        BY <2>18, TimeAssumption DEF Tick, Less
      <3> QED
        BY <2>18, <3>1, <3>2 DEF Tick
    <2>19. CASE UNCHANGED vars
      BY <2>19 DEF vars
    <2> QED
      BY <2>1, <2>2, <2>3, <2>4, <2>5, <2>7, <2>8, <2>9, <2>10, <2>11, <2>13, <2>14, <2>15,
         <2>16, <2>17, <2>18, <2>19
      DEF Next, Api, Worker, Oss
  <1>3. Init => MarkFits
    BY DEF Init, MarkFits, NoTx
  <1>4. Typed /\ [Next]_vars => MarkFits'
    <2> SUFFICES ASSUME TypeOK, MarkFits, [Next]_vars, NEW p \in Procs
                 PROVE  (tx[p].kind = "mark" => DOMAIN tx[p].rows = cur[p])'
      BY DEF Typed, MarkFits
    <2> USE DEF TypeOK, MarkFits
    <2>1. ASSUME NEW q \in Procs, NEW ks, NEW kind, Open(q, kind, ks),
                 kind = "mark" => ks = cur[q], cur' = cur
          PROVE  (tx[p].kind = "mark" => DOMAIN tx[p].rows = cur[p])'
      BY <2>1 DEF Open
    <2>2. ASSUME NEW q \in Procs, Close(q), \A r \in Procs \ {q} : cur'[r] = cur[r]
          PROVE  (tx[p].kind = "mark" => DOMAIN tx[p].rows = cur[p])'
      BY <2>2 DEF Close, NoTx
    <2>3. ASSUME NEW q \in Procs, Api(q)
          PROVE  (tx[p].kind = "mark" => DOMAIN tx[p].rows = cur[p])'
      BY <2>1, <2>2, <2>3 DEF Api, EnqueueRead, EnqueueCommit
    <2>4. ASSUME NEW q \in Procs, ClaimRead(q) \/ MarkRead(q)
          PROVE  (tx[p].kind = "mark" => DOMAIN tx[p].rows = cur[p])'
      BY <2>1, <2>4 DEF ClaimRead, MarkRead
    <2>5. ASSUME NEW q \in Procs,
                 ClaimCommit(q) \/ MarkConfirmed(q) \/ MarkFailed(q) \/ DatabaseError(q) \/ Crash(q)
          PROVE  (tx[p].kind = "mark" => DOMAIN tx[p].rows = cur[p])'
      BY <2>2, <2>5 DEF ClaimCommit, MarkConfirmed, MarkFailed, Marked, DatabaseError, Crash
    <2>6. ASSUME NEW q \in Procs, NEW k \in Keys, Take(q, k)
          PROVE  (tx[p].kind = "mark" => DOMAIN tx[p].rows = cur[p])'
      BY <2>6 DEF Take, Idle
    <2>7. ASSUME NEW q \in Procs, Oss(q)
          PROVE  (tx[p].kind = "mark" => DOMAIN tx[p].rows = cur[p])'
      BY <2>6, <2>7 DEF Oss, DeleteAccepted, DeleteRefused, Head
    <2>8. ASSUME NEW q \in Procs, Sleep(q) \/ HeadFails(q) \/ Restart(q)
          PROVE  (tx[p].kind = "mark" => DOMAIN tx[p].rows = cur[p])'
      BY <2>8 DEF Sleep, HeadFails, Restart
    <2>9. CASE Tick
      BY <2>9 DEF Tick
    <2>10. CASE UNCHANGED vars
      BY <2>10 DEF vars
    <2> QED
      BY <2>3, <2>4, <2>5, <2>7, <2>8, <2>9, <2>10 DEF Next, Worker
  <1> QED
    BY <1>1, <1>2, <1>3, <1>4, PTL DEF Spec, Typed

\* Every reachable state of the delete queue has its type.
THEOREM Typing == Spec => []TypeOK
  BY TypedInductive, PTL DEF Typed

-----------------------------------------------------------------------------
(* A confirmed object is gone.                                             *)

\* What the confirmed rows and the workers about to confirm one know: nobody
\* puts an object back, so the 404 that HEAD returned remains true.
OneAtATime == \A p \in Procs : \A k, l \in cur[p] : k = l

AboutToConfirm == \A p \in Procs : pc[p] = "confirm" => \A k \in cur[p] : ~stored[k]

Gone == TypeOK /\ OneAtATime /\ AboutToConfirm /\ ConfirmedIsGone

\* A step that neither reports a new confirmation nor touches OSS keeps it
\* (every function but _mark_confirmed and _delete_and_confirm).
LEMMA GoneKept ==
  ASSUME Gone, TypeOK', stored' = stored,
         \A p \in Procs : cur'[p] = {} \/ (cur'[p] = cur[p] /\ (pc'[p] = "confirm" => pc[p] = "confirm")),
         \A k \in Keys : job'[k].status = "confirmed" => job[k].status = "confirmed"
  PROVE  Gone'
  BY DEF Gone, OneAtATime, AboutToConfirm, ConfirmedIsGone

\* A job is confirmed only when its object is gone, with any number of processes
\* (_delete_and_confirm, _mark_confirmed).
THEOREM ConfirmedGone == Spec => []ConfirmedIsGone
  <1>1. Init /\ TypeOK => Gone
    BY DEF Init, Gone, OneAtATime, AboutToConfirm, ConfirmedIsGone
  <1>2. Gone /\ TypeOK' /\ [Next]_vars => Gone'
    <2> SUFFICES ASSUME Gone, TypeOK', [Next]_vars PROVE Gone'
      OBVIOUS
    <2> USE DEF TypeOK
    <2>1. ASSUME NEW p \in Procs, Api(p) PROVE Gone'
      <3>1. ASSUME NEW k \in Keys, job'[k].status = "confirmed" PROVE job[k].status = "confirmed"
        <4>1. ASSUME NEW r PROVE Requeued(job[k], r).status \in {"pending", job[k].status}
          BY DEF Requeued, Dirty, Gone, Row
        <4>2. Inserted.status = "pending"
          BY DEF Inserted
        <4>3. \/ job'[k] = job[k] \/ job'[k] = Inserted
              \/ \E r : job'[k] = Requeued(job[k], r)
          BY <2>1 DEF Api, EnqueueRead, EnqueueCommit
        <4> QED
          BY <3>1, <4>1, <4>2, <4>3
      <3> QED
        BY <2>1, <3>1, GoneKept DEF Api, EnqueueRead, EnqueueCommit
    <2>2. ASSUME NEW p \in Procs, ClaimRead(p) \/ Sleep(p) \/ HeadFails(p) \/ MarkRead(p)
          PROVE  Gone'
      BY <2>2, GoneKept DEF Gone, ClaimRead, Sleep, HeadFails, MarkRead
    <2>3. ASSUME NEW p \in Procs, ClaimCommit(p) PROVE Gone'
      <3>1. ASSUME NEW k \in Keys, job'[k].status = "confirmed" PROVE job[k].status = "confirmed"
        BY <2>3, <3>1 DEF ClaimCommit, Dirty, Gone, Row
      <3> QED
        BY <2>3, <3>1, GoneKept DEF Gone, ClaimCommit
    <2>4. ASSUME NEW p \in Procs, NEW k \in Keys, Take(p, k), pc' = [pc EXCEPT ![p] = pc'[p]],
                 pc'[p] # "confirm", \A l \in Keys : stored'[l] => stored[l]
          PROVE  Gone'
      BY <2>4 DEF Gone, OneAtATime, AboutToConfirm, ConfirmedIsGone, Take
    <2>5. ASSUME NEW p \in Procs, NEW k \in Keys, NEW gone \in BOOLEAN,
                 DeleteAccepted(p, k, gone) \/ DeleteRefused(p, k, gone)
          PROVE  Gone'
      BY <2>4, <2>5 DEF DeleteAccepted, DeleteRefused, Gone
    <2>6. ASSUME NEW p \in Procs, NEW k \in Keys, Head(p, k) PROVE Gone'
      BY <2>6 DEF Head, Gone, OneAtATime, AboutToConfirm, ConfirmedIsGone
    <2>7. ASSUME NEW p \in Procs, MarkConfirmed(p) PROVE Gone'
      <3>1. ASSUME NEW k \in Keys, job'[k].status = "confirmed"
            PROVE  job[k].status = "confirmed" \/ k \in cur[p]
        BY <2>7, <3>1 DEF MarkConfirmed
      <3> QED
        BY <2>7, <3>1 DEF MarkConfirmed, Marked, Gone, OneAtATime, AboutToConfirm, ConfirmedIsGone
    <2>8. ASSUME NEW p \in Procs, MarkFailed(p) PROVE Gone'
      <3>1. ASSUME NEW k \in Keys, job'[k].status = "confirmed" PROVE job[k].status = "confirmed"
        <4>1. ASSUME NEW r
              PROVE  Failed(job[k], r).status \in {"pending", "failed", job[k].status}
          BY DEF Failed, FailedStatus, Dirty, Gone, Row
        <4> QED
          BY <2>8, <3>1, <4>1 DEF MarkFailed
      <3> QED
        BY <2>8, <3>1, GoneKept DEF MarkFailed, Marked, Gone
    <2>9. ASSUME NEW p \in Procs, DatabaseError(p) \/ Crash(p) \/ Restart(p) PROVE Gone'
      BY <2>9, GoneKept DEF Gone, DatabaseError, Crash, Restart
    <2>10. CASE Tick
      <3>1. \A k \in Keys : job'[k].status = job[k].status
        BY <2>10 DEF Tick, Gone, Row
      <3> QED
        BY <2>10, <3>1, GoneKept DEF Tick
    <2>11. CASE UNCHANGED vars
      BY <2>11, GoneKept DEF vars
    <2> QED
      BY <2>1, <2>2, <2>3, <2>5, <2>6, <2>7, <2>8, <2>9, <2>10, <2>11 DEF Next, Worker, Oss
  <1> QED
    BY <1>1, <1>2, Typing, PTL DEF Spec, Gone

-----------------------------------------------------------------------------
(* A running job is held, as long as nothing failed.                       *)

\* p has the job k before it, or works on it and is not about to change a status it read
\* earlier: a session that read "running" writes another status.
Holds(p, k) ==
  \/ k \in todo[p]
  \/ k \in cur[p] /\ (tx[p].kind = "mark" => tx[p].rows[k].status = "running")

\* A worker that polls or starts again has no batch, and between two jobs it has none in
\* hand: what a claim overwrites is empty.
BatchFits ==
  \A p \in Procs :
    /\ pc[p] \in {"poll", "down"} => todo[p] = {}
    /\ pc[p] \in {"poll", "loop", "down"} => cur[p] = {}
    /\ tx[p].kind = "claim" => pc[p] = "poll"

RunningHeld ==
  faults = 0 => \A k \in Keys : job[k].status = "running" => \E p \in Procs : Holds(p, k)

Held == BatchFits /\ RunningHeld

\* A step that keeps what workers hold and starts no job keeps the invariant.
LEMMA HeldKept ==
  ASSUME Held, BatchFits', faults' # 0 \/ faults' = faults,
         \A p \in Procs, k \in Keys : Holds(p, k) /\ job'[k].status = "running" => Holds(p, k)',
         \A k \in Keys : job'[k].status = "running" => job[k].status = "running"
  PROVE  Held'
  BY DEF Held, RunningHeld

LEMMA HeldStep == Typed /\ Typed' /\ Held /\ [Next]_vars => Held'
  <1> SUFFICES ASSUME Typed, Typed', Held, [Next]_vars PROVE Held'
    OBVIOUS
  <1> USE DEF Typed, TypeOK
  <1>1. ASSUME NEW p \in Procs, NEW kind, NEW ks, Open(p, kind, ks),
               kind = "mark" => ks = cur[p], kind = "claim" => pc[p] = "poll",
               UNCHANGED <<job, pc, todo, cur, faults>>
        PROVE  Held'
    <2>1. BatchFits'
      BY <1>1 DEF Held, BatchFits, Open
    <2>2. ASSUME NEW q \in Procs, NEW k \in Keys, Holds(q, k), job'[k].status = "running"
          PROVE  Holds(q, k)'
      BY <1>1, <2>2 DEF Holds, Open
    <2> QED
      BY <1>1, <2>1, <2>2, HeldKept
  <1>2. ASSUME NEW p \in Procs, EnqueueCommit(p) PROVE Held'
    <2>1. BatchFits'
      BY <1>2 DEF EnqueueCommit, Close, NoTx, Held, BatchFits
    <2>2. ASSUME NEW q \in Procs, NEW k \in Keys, Holds(q, k), job'[k].status = "running"
          PROVE  Holds(q, k)'
      BY <1>2, <2>2 DEF Holds, EnqueueCommit, Close, NoTx
    <2>3. ASSUME NEW k \in Keys, job'[k].status = "running" PROVE job[k].status = "running"
      <3>1. ASSUME NEW r PROVE Requeued(job[k], r).status \in {"pending", job[k].status}
        BY DEF Requeued, Dirty, Row
      <3>2. Inserted.status = "pending"
        BY DEF Inserted
      <3>3. \/ job'[k] = job[k] \/ job'[k] = Inserted
            \/ \E r : job'[k] = Requeued(job[k], r)
        BY <1>2 DEF EnqueueCommit
      <3> QED
        BY <2>3, <3>1, <3>2, <3>3
    <2> QED
      BY <1>2, <2>1, <2>2, <2>3, HeldKept DEF EnqueueCommit
  <1>3. ASSUME NEW p \in Procs, ClaimCommit(p) PROVE Held'
    <2>1. pc[p] = "poll" /\ todo[p] = {} /\ cur[p] = {}
      BY <1>3 DEF ClaimCommit, Held, BatchFits
    <2>2. BatchFits'
      BY <1>3, <2>1 DEF ClaimCommit, Close, NoTx, Held, BatchFits, PCs
    <2>3. ASSUME NEW k \in Keys, job'[k].status = "running", faults' = 0
          PROVE  \E q \in Procs : Holds(q, k)'
      <3>1. CASE k \in DOMAIN tx[p].rows
        BY <1>3, <3>1 DEF ClaimCommit, Holds
      <3>2. CASE k \notin DOMAIN tx[p].rows
        <4>1. job[k].status = "running" /\ faults = 0
          BY <1>3, <2>3, <3>2 DEF ClaimCommit
        <4>2. PICK q \in Procs : Holds(q, k)
          BY <4>1 DEF Held, RunningHeld
        <4>3. q # p
          BY <2>1, <4>2 DEF Holds
        <4> QED
          BY <1>3, <4>2, <4>3 DEF ClaimCommit, Close, Holds
      <3> QED
        BY <3>1, <3>2
    <2> QED
      BY <2>2, <2>3 DEF Held, RunningHeld
  <1>4. ASSUME NEW p \in Procs, NEW k \in Keys, Take(p, k), \E c \in PCs : pc' = [pc EXCEPT ![p] = c],
               pc'[p] \in {"head", "fail"}
        PROVE  Held'
    <2>1. BatchFits'
      BY <1>4 DEF Take, Idle, Held, BatchFits
    <2>2. ASSUME NEW q \in Procs, NEW l \in Keys, Holds(q, l) PROVE Holds(q, l)'
      BY <1>4, <2>2 DEF Take, Idle, Holds, Held, BatchFits
    <2> QED
      BY <1>4, <2>1, <2>2, HeldKept DEF Take
  <1>5. ASSUME NEW p \in Procs, pc' = [pc EXCEPT ![p] = pc'[p]], tx[p].kind # "claim",
               \/ pc'[p] \notin {"poll", "loop", "down"}
               \/ pc[p] = "down" /\ pc'[p] = "poll",
               UNCHANGED <<job, tx, todo, cur, faults>>
        PROVE  Held'
    <2>1. BatchFits'
      BY <1>5 DEF Held, BatchFits
    <2>2. ASSUME NEW q \in Procs, NEW k \in Keys, Holds(q, k) PROVE Holds(q, k)'
      BY <1>5, <2>2 DEF Holds
    <2> QED
      BY <1>5, <2>1, <2>2, HeldKept
  <1>6. ASSUME NEW p \in Procs, Oss(p) PROVE Held'
    <2>1. ASSUME NEW k \in Keys, Head(p, k) PROVE Held'
      BY <1>5, <2>1 DEF Head, Idle, PCs
    <2> QED
      BY <1>4, <1>6, <2>1 DEF Oss, DeleteAccepted, DeleteRefused, PCs
  <1>7. ASSUME NEW p \in Procs, HeadFails(p) PROVE Held'
    BY <1>5, <1>7 DEF HeadFails, Idle
  <1>8. ASSUME NEW p \in Procs, Sleep(p) PROVE Held'
    <2>1. BatchFits'
      BY <1>8 DEF Sleep, Idle, Held, BatchFits
    <2>2. ASSUME NEW q \in Procs, NEW k \in Keys, Holds(q, k) PROVE Holds(q, k)'
      BY <1>8, <2>2 DEF Holds, Sleep
    <2> QED
      BY <1>8, <2>1, <2>2, HeldKept DEF Sleep
  <1>9. ASSUME NEW p \in Procs, Marked(p),
               \A k \in Keys \ cur[p] : job'[k] = job[k],
               \A k \in cur[p] : job'[k].status = "running" =>
                  job[k].status = "running" /\ tx[p].rows[k].status # "running"
        PROVE  Held'
    <2>1. BatchFits'
      BY <1>9 DEF Marked, Close, NoTx, Held, BatchFits
    <2>2. ASSUME NEW q \in Procs, NEW k \in Keys, Holds(q, k), job'[k].status = "running"
          PROVE  Holds(q, k)'
      BY <1>9, <2>2 DEF Holds, Marked, Close, NoTx
    <2> QED
      BY <1>9, <2>1, <2>2, HeldKept DEF Marked
  <1>10. ASSUME NEW p \in Procs, MarkConfirmed(p) PROVE Held'
    <2>1. \A k \in cur[p] : job'[k].status = "running" =>
             job[k].status = "running" /\ tx[p].rows[k].status # "running"
      BY <1>10 DEF MarkConfirmed, Dirty, Row
    <2> QED
      BY <1>9, <1>10, <2>1 DEF MarkConfirmed
  <1>11. ASSUME NEW p \in Procs, MarkFailed(p) PROVE Held'
    <2>1. ASSUME NEW k \in cur[p], job'[k].status = "running"
          PROVE  job[k].status = "running" /\ tx[p].rows[k].status # "running"
      BY <1>11, <2>1 DEF MarkFailed, Failed, FailedStatus, Dirty, Row
    <2> QED
      BY <1>9, <1>11, <2>1 DEF MarkFailed
  <1>12. ASSUME NEW p \in Procs, DatabaseError(p) \/ Crash(p) PROVE Held'
    <2>1. faults' # 0
      BY <1>12, BoundAssumption DEF DatabaseError, Crash
    <2>2. CASE Crash(p)
      BY <2>1, <2>2 DEF Crash, Close, NoTx, Held, BatchFits, RunningHeld
    <2>3. CASE DatabaseError(p) /\ tx[p].kind = "enqueue"
      BY <2>1, <2>3 DEF DatabaseError, Close, NoTx, Held, BatchFits, RunningHeld
    <2>4. CASE DatabaseError(p) /\ tx[p].kind # "enqueue"
      BY <2>1, <2>4 DEF DatabaseError, Close, NoTx, Held, BatchFits, RunningHeld
    <2> QED
      BY <1>12, <2>2, <2>3, <2>4
  <1>13. ASSUME NEW p \in Procs, Restart(p) PROVE Held'
    <2>1. tx[p].kind # "claim"
      BY <1>13 DEF Restart, Held, BatchFits
    <2> QED
      BY <1>5, <1>13, <2>1 DEF Restart
  <1>14. CASE Tick
    <2>1. \A k \in Keys : job'[k].status = job[k].status
      BY <1>14 DEF Tick, Row
    <2>2. BatchFits' /\ \A p \in Procs, k \in Keys : Holds(p, k) => Holds(p, k)'
      BY <1>14 DEF Tick, Held, BatchFits, Holds
    <2> QED
      BY <1>14, <2>1, <2>2, HeldKept DEF Tick
  <1>15. CASE UNCHANGED vars
    <2>1. BatchFits' /\ \A p \in Procs, k \in Keys : Holds(p, k) => Holds(p, k)'
      BY <1>15 DEF vars, Held, BatchFits, Holds
    <2> QED
      BY <1>15, <2>1, HeldKept DEF vars
  <1>16. ASSUME NEW p \in Procs, Api(p) \/ ClaimRead(p) \/ MarkRead(p) PROVE Held'
    BY <1>1, <1>2, <1>16 DEF Api, EnqueueRead, ClaimRead, MarkRead
  <1> QED
    BY <1>3, <1>6, <1>7, <1>8, <1>10, <1>11, <1>12, <1>13, <1>14, <1>15, <1>16 DEF Next, Worker

\* With any number of processes, a job is marked running only while some worker has it,
\* unless a fault took it away (process_due_jobs_once, _mark_confirmed, _mark_failed).
THEOREM RunningAlwaysHeld == Spec => []RunningIsHeld
  <1>1. Init => Held
    BY DEF Init, Held, BatchFits, RunningHeld, NoTx
  <1>2. Held => RunningIsHeld
    BY DEF Held, RunningHeld, Holds, RunningIsHeld
  <1> QED
    BY <1>1, <1>2, HeldStep, TypedInductive, PTL DEF Spec

-----------------------------------------------------------------------------
(* One process: a confirmed job stays confirmed.                           *)

Alone == \A p, q \in Procs : p = q

\* What a session has read is what the table holds: nobody else writes it.
SessionCurrent ==
  \A p \in Procs :
    /\ tx[p].kind = "none" => DOMAIN tx[p].rows = {}
    /\ \A k \in DOMAIN tx[p].rows : job[k].status = tx[p].rows[k].status

\* The worker holds no job that is already confirmed, and none twice.
Unfinished ==
  \A p \in Procs :
    /\ \A k \in todo[p] \cup cur[p] : job[k].status \in Retryable
    /\ todo[p] \cap cur[p] = {}

\* Where the worker is when it has a job or a session of its own.
PlaceFits ==
  \A p \in Procs :
    /\ cur[p] # {} => pc[p] \in {"head", "confirm", "fail"}
    /\ tx[p].kind = "claim" => /\ pc[p] = "poll"
                              /\ \A k \in DOMAIN tx[p].rows : tx[p].rows[k].status \in Retryable

Owned == SessionCurrent /\ Unfinished /\ PlaceFits

\* The only writer never overwrites "confirmed" (every function of the service).
LEMMA Stays ==
  ASSUME Alone, Typed, Owned, [Next]_vars, NEW k \in Keys, job[k].status = "confirmed"
  PROVE  job'[k].status = "confirmed"
  <1> USE DEF Typed, TypeOK, Owned
  <1>1. ASSUME NEW p \in Procs, EnqueueCommit(p) PROVE job'[k].status = "confirmed"
    <2>1. k \notin DOMAIN tx[p].rows \/ tx[p].rows[k].status = "confirmed"
      BY DEF SessionCurrent
    <2>2. job'[k] = job[k]
      BY <1>1, <2>1 DEF EnqueueCommit, MayRequeue, Retryable
    <2> QED
      BY <2>2
  <1>2. ASSUME NEW p \in Procs, ClaimCommit(p) PROVE job'[k].status = "confirmed"
    <2>1. k \notin DOMAIN tx[p].rows
      BY <1>2 DEF ClaimCommit, SessionCurrent, PlaceFits, Retryable
    <2> QED
      BY <1>2, <2>1 DEF ClaimCommit
  <1>3. ASSUME NEW p \in Procs, MarkConfirmed(p) \/ MarkFailed(p)
        PROVE  job'[k].status = "confirmed"
    <2>1. k \notin cur[p]
      BY DEF Unfinished, Retryable
    <2> QED
      BY <1>3, <2>1 DEF MarkConfirmed, MarkFailed
  <1>4. CASE Tick
    BY <1>4 DEF Tick, Row
  <1>5. ASSUME job' = job PROVE job'[k].status = "confirmed"
    BY <1>5
  <1> QED
    BY <1>1, <1>2, <1>3, <1>4, <1>5
    DEF Next, Api, Worker, Oss, EnqueueRead, ClaimRead, Sleep, Take, DeleteAccepted,
        DeleteRefused, Head, HeadFails, MarkRead, DatabaseError, Crash, Restart, vars

\* With one process, no request, retry, crash or database error takes a confirmed
\* job back (enqueue_delete_jobs, process_due_jobs_once, _mark_confirmed,
\* _mark_failed).
THEOREM OneProcessConfirmedIsTerminal ==
  ASSUME Alone PROVE Spec => ConfirmedIsTerminal
  <1>1. Init => Owned
    BY DEF Init, Owned, SessionCurrent, Unfinished, PlaceFits, NoTx
  <1>2. Typed /\ Owned /\ [Next]_vars => Owned'
    <2> SUFFICES ASSUME Typed, Owned, [Next]_vars PROVE Owned'
      OBVIOUS
    <2> USE DEF Typed, TypeOK, Owned
    <2>1. ASSUME NEW p \in Procs, NEW ks \in SUBSET Keys, NEW kind, kind # "none", Open(p, kind, ks),
                 UNCHANGED <<job, pc, todo, cur>>,
                 kind = "claim" => pc[p] = "poll" /\ \A k \in ks : job[k].status \in Retryable
          PROVE  Owned'
      BY <2>1 DEF Open, SessionCurrent, Unfinished, PlaceFits
    <2>2. ASSUME NEW p \in Procs, NEW ks, EnqueueRead(p, ks), ks \in SUBSET Keys PROVE Owned'
      BY <2>1, <2>2 DEF EnqueueRead
    <2>3. ASSUME NEW p \in Procs, ClaimRead(p) PROVE Owned'
      <3>1. PICK b \in Batches : Open(p, "claim", b)
        BY <2>3 DEF ClaimRead
      <3>2. b \in SUBSET Keys /\ \A k \in b : job[k].status \in Retryable
        BY DEF Batches, Due
      <3> QED
        BY <2>1, <2>3, <3>1, <3>2 DEF ClaimRead
    <2>4. ASSUME NEW p \in Procs, MarkRead(p) PROVE Owned'
      BY <2>1, <2>4 DEF MarkRead
    <2>5. ASSUME NEW p \in Procs, Close(p), Unfinished', cur'[p] # {} => pc'[p] \in {"head", "confirm", "fail"}
          PROVE  Owned'
      BY <2>5 DEF Alone, Close, NoTx, SessionCurrent, PlaceFits
    <2>6. ASSUME NEW p \in Procs, EnqueueCommit(p) PROVE Owned'
      <3>1. ASSUME NEW k \in Keys, job[k].status \in Retryable
            PROVE  job'[k].status \in Retryable
        <4>1. ASSUME NEW r PROVE Requeued(job[k], r).status \in {"pending", job[k].status}
          BY DEF Requeued, Dirty, Row
        <4>2. Inserted.status = "pending"
          BY DEF Inserted
        <4>3. \/ job'[k] = job[k] \/ job'[k] = Inserted
              \/ \E r : job'[k] = Requeued(job[k], r)
          BY <2>6 DEF EnqueueCommit
        <4> QED
          BY <3>1, <4>1, <4>2, <4>3 DEF Retryable
      <3>2. Unfinished'
        BY <2>6, <3>1 DEF EnqueueCommit, Unfinished
      <3> QED
        BY <2>5, <2>6, <3>2 DEF EnqueueCommit, PlaceFits
    <2>7. ASSUME NEW p \in Procs, ClaimCommit(p) PROVE Owned'
      <3>1. cur[p] = {} /\ DOMAIN tx[p].rows \in SUBSET Keys
        BY <2>7 DEF ClaimCommit, PlaceFits, SessionOK
      <3>2. ASSUME NEW k \in DOMAIN tx[p].rows PROVE job'[k].status \in Retryable
        BY <2>7, <3>1 DEF ClaimCommit, PlaceFits, SessionCurrent, Dirty, Row, Retryable
      <3>3. Unfinished'
        BY <2>7, <3>1, <3>2 DEF Alone, ClaimCommit, Unfinished
      <3> QED
        BY <2>5, <2>7, <3>1, <3>3 DEF ClaimCommit
    <2>8. ASSUME NEW p \in Procs, MarkConfirmed(p) \/ MarkFailed(p) PROVE Owned'
      <3>1. cur'[p] = {} /\ todo' = todo
        BY <2>8 DEF MarkConfirmed, MarkFailed, Marked
      <3>2. \A k \in todo[p] : job'[k] = job[k]
        BY <2>8 DEF MarkConfirmed, MarkFailed, Unfinished
      <3>3. Unfinished'
        BY <3>1, <3>2 DEF Alone, Unfinished
      <3> QED
        BY <2>5, <2>8, <3>1, <3>3 DEF MarkConfirmed, MarkFailed, Marked
    <2>9. ASSUME NEW p \in Procs, DatabaseError(p) \/ Crash(p) PROVE Owned'
      <3>1. Unfinished'
        BY <2>9 DEF Alone, DatabaseError, Crash, Unfinished
      <3> QED
        BY <2>5, <2>9, <3>1 DEF DatabaseError, Crash, PlaceFits
    <2>10. ASSUME NEW p \in Procs, NEW k \in Keys, Take(p, k), \E c \in PCs : pc' = [pc EXCEPT ![p] = c],
                  pc'[p] \in {"head", "fail"}
           PROVE  Owned'
      BY <2>10 DEF Alone, Take, Idle, SessionCurrent, Unfinished, PlaceFits
    <2>11. ASSUME NEW p \in Procs, Oss(p) PROVE Owned'
      BY <2>10, <2>11
      DEF Oss, DeleteAccepted, DeleteRefused, Head, Idle, PCs, SessionCurrent, Unfinished, PlaceFits
    <2>12. ASSUME NEW p \in Procs, Sleep(p) \/ HeadFails(p) \/ Restart(p) PROVE Owned'
      BY <2>12 DEF Sleep, HeadFails, Restart, Idle, SessionCurrent, Unfinished, PlaceFits
    <2>13. CASE Tick
      <3>1. \A k \in Keys : job'[k].status = job[k].status
        BY <2>13 DEF Tick, Row
      <3>2. \A p \in Procs : DOMAIN tx[p].rows \in SUBSET Keys
        BY DEF SessionOK
      <3> QED
        BY <2>13, <3>1, <3>2 DEF Tick, SessionCurrent, Unfinished, PlaceFits
    <2>14. CASE UNCHANGED vars
      BY <2>14 DEF vars, SessionCurrent, Unfinished, PlaceFits
    <2> QED
      BY <2>2, <2>3, <2>4, <2>6, <2>7, <2>8, <2>9, <2>11, <2>12, <2>13, <2>14 DEF Next, Api, Worker
  <1>3. Typed /\ Owned /\ [Next]_vars
        => [\A k \in Keys : job[k].status = "confirmed" => job'[k].status = "confirmed"]_vars
    BY Stays
  <1> QED
    BY <1>1, <1>2, <1>3, TypedInductive, PTL DEF Spec, ConfirmedIsTerminal
=============================================================================
