--------------------------- MODULE JobQueueProofs ---------------------------
(***************************************************************************)
(* Theorems about JobQueue and about the processes of its workers, for     *)
(* every set of submissions, every handler and every bound.                *)
(*                                                                         *)
(* The inductive invariant is a predicate on one row, RowInv, that holds   *)
(* of every row: each operation writes rows one by one from rows that      *)
(* satisfy it, so the proof has one lemma per row operator and one for     *)
(* each way of writing the table.                                          *)
(*                                                                         *)
(* From the same operators follows what a step may do to any row (RowStep, *)
(* TableStep, Effect), which is all that the life cycle and the proofs     *)
(* about workers need to know of the queue.                                *)
(*                                                                         *)
(* The last part is what is true of worker processes whatever their        *)
(* handlers do: their queue calls are steps of JobQueue, so that its       *)
(* theorems hold with them, and a lease that a worker has lost never comes *)
(* back to it.  The invariant of a worker is its link to the table: from   *)
(* the claim to the report its job is a row, its attempt one of that row,  *)
(* and nobody else has the same attempt.                                   *)
(***************************************************************************)
EXTENDS WorkerProcess, FiniteSetTheorems, SequenceTheorems, TLAPS

Unspent == {"queued", "running"}

\* What is true of each row.  The last two conjuncts carry BudgetKept: the
\* count is below the limit while the job can still run, and a job that
\* cannot be paused is never paused, so nothing puts it back in the queue
\* without looking at the count.
RowInv(row) ==
  /\ row.lease = IF row.status = "running" THEN Len(row.attempts) ELSE 0
  /\ row.status = "running" => row.attempts # <<>>
  /\ row.status # "running" => row.ttl = 0 /\ ~row.pause
  /\ \A n \in DOMAIN row.attempts :
       row.attempts[n] = "open" <=> row.status = "running" /\ n = Len(row.attempts)
  /\ row.status \in Terminal => ~row.cancel
  /\ ~row.sub.pausable =>
       /\ row.status # "paused" /\ ~row.pause
       /\ Spent(row.attempts) <= row.sub.maximumAttempts
       /\ row.status \in Unspent => Spent(row.attempts) < row.sub.maximumAttempts

IndInv == TypeOK /\ \A j \in Ids : RowInv(jobs[j])

-----------------------------------------------------------------------------
(* Sets of numbers.                                                        *)

\* A set of numbers that is not empty has a least element.
LEMMA LeastElement ==
  ASSUME NEW S \in SUBSET Nat, S # {}
  PROVE  \E i \in S : \A k \in S : i <= k
<1> DEFINE upTo(i) == {k \in S : k <= i}
           segments == {upTo(i) : i \in S}
<1>1. ASSUME NEW i \in S PROVE upTo(i) \in FiniteSubsetsOf(S)
  <2>1. \A k \in S : k <= i => k \in 0 .. i
    OBVIOUS
  <2>2. IsFiniteSet(0 .. i)
    BY FS_Interval
  <2>3. IsFiniteSet(upTo(i))
    BY <2>1, <2>2, FS_Subset
  <2> QED
    BY <2>3 DEF FiniteSubsetsOf
<1>2. segments \subseteq FiniteSubsetsOf(S) /\ segments # {}
  BY <1>1
<1>3. PICK segment \in segments :
        \A other \in segments : <<other, segment>> \notin StrictSubsetOrdering(S)
  <2> HIDE DEF segments
  <2> QED
    BY <1>2, FS_StrictSubsetOrderingWellFounded, WFMin
<1>4. PICK i \in S : segment = upTo(i)
  OBVIOUS
<1>5. ASSUME NEW k \in S, k < i PROVE FALSE
  <2>1. upTo(k) \in segments
    OBVIOUS
  <2>2. \A l \in S : l <= k => l <= i
    BY <1>5
  <2>3. i <= i /\ ~(i <= k)
    BY <1>5
  <2>4. <<upTo(k), upTo(i)>> \in StrictSubsetOrdering(S)
    BY <2>2, <2>3 DEF StrictSubsetOrdering
  <2> HIDE DEF segments
  <2> QED
    BY <1>3, <1>4, <2>1, <2>4
<1> QED
  BY <1>5

\* So a set of numbers below a bound has a greatest one.
LEMMA GreatestElement ==
  ASSUME NEW n \in Nat, NEW S \in SUBSET (0 .. n), S # {}
  PROVE  \E i \in S : \A k \in S : k <= i
<1> DEFINE T == {m \in 0 .. n : n - m \in S}
<1>1. T \in SUBSET Nat
  OBVIOUS
<1>2. \A k \in S : k \in Nat /\ n - k \in T
  OBVIOUS
<1>3. PICK l \in T : \A m \in T : l <= m
  <2> HIDE DEF T
  <2> QED
    BY <1>1, <1>2, LeastElement
<1>4. l \in 0 .. n /\ n - l \in S
  OBVIOUS
<1> HIDE DEF T
<1>5. \A k \in S : k <= n - l
  BY <1>2, <1>3, <1>4
<1> QED
  BY <1>4, <1>5

-----------------------------------------------------------------------------
(* Counting attempts.                                                      *)

Charged(attempts) ==
  {n \in DOMAIN attempts : attempts[n] \in {"failed", "lease-expired"}}

\* The count of a finite sequence is a natural number.
LEMMA SpentType ==
  ASSUME NEW a \in Seq(Outcomes)
  PROVE  IsFiniteSet(Charged(a)) /\ Spent(a) \in Nat /\ Spent(a) = Cardinality(Charged(a))
<1>1. Charged(a) \in SUBSET (1 .. Len(a)) /\ Len(a) \in Nat
  BY LenProperties DEF Charged
<1>2. IsFiniteSet(1 .. Len(a))
  BY <1>1, FS_Interval
<1>3. IsFiniteSet(Charged(a))
  BY <1>1, <1>2, FS_Subset
<1> QED
  BY <1>3, FS_CardinalityType DEF Spent, Charged

\* A claim opens an attempt and charges nothing.
LEMMA SpentAppend ==
  ASSUME NEW a \in Seq(Outcomes)
  PROVE  Spent(Append(a, "open")) = Spent(a)
<1> DEFINE b == Append(a, "open")
<1>1. /\ Len(a) \in Nat
      /\ DOMAIN a = 1 .. Len(a)
      /\ DOMAIN b = 1 .. Len(a) + 1
      /\ \A n \in 1 .. Len(a) : b[n] = a[n]
      /\ b[Len(a) + 1] = "open"
  OBVIOUS
<1>2. Charged(b) = Charged(a)
  BY <1>1 DEF Charged
<1> QED
  BY <1>2 DEF Spent, Charged

\* Finishing the open attempt charges it when its outcome counts.
LEMMA SpentFinish ==
  ASSUME NEW a \in Seq(Outcomes), NEW n \in DOMAIN a, a[n] = "open",
         NEW outcome \in Outcomes
  PROVE  Spent([a EXCEPT ![n] = outcome]) =
           IF outcome \in {"failed", "lease-expired"} THEN Spent(a) + 1 ELSE Spent(a)
<1> DEFINE b == [a EXCEPT ![n] = outcome]
<1>1. CASE outcome \in {"failed", "lease-expired"}
  <2>1. Charged(b) = Charged(a) \cup {n} /\ n \notin Charged(a)
    BY <1>1 DEF Charged
  <2>2. Cardinality(Charged(b)) = Cardinality(Charged(a)) + 1
    BY <2>1, SpentType, FS_AddElement
  <2> QED
    BY <1>1, <2>2 DEF Spent, Charged
<1>2. CASE outcome \notin {"failed", "lease-expired"}
  <2>1. Charged(b) = Charged(a)
    BY <1>2 DEF Charged
  <2> QED
    BY <1>2, <2>1 DEF Spent, Charged
<1> QED
  BY <1>1, <1>2

-----------------------------------------------------------------------------
(* One lemma per row operator.                                             *)

\* The row is no longer running, its attempt has the outcome.
LeftRunning(row, new, outcome, status) ==
  /\ new \in Row
  /\ new.sub = row.sub /\ new.status = status
  /\ new.lease = 0 /\ new.ttl = 0 /\ ~new.pause
  /\ new.cancel = row.cancel /\ new.checkpoint = row.checkpoint
  /\ new.attempts = FinishAttempt(row, Len(row.attempts), outcome)
  /\ new.audit = Event("running", status)
  /\ \A n \in DOMAIN new.attempts : new.attempts[n] # "open"
  /\ outcome \in {"failed", "lease-expired"} => Spent(new.attempts) = Spent(row.attempts) + 1
  /\ outcome \notin {"failed", "lease-expired"} => Spent(new.attempts) = Spent(row.attempts)

\* What a row that is written from a running row looks like.
LEMMA ReleasedRow ==
  ASSUME NEW row \in Row, RowInv(row), row.status = "running",
         NEW outcome \in Outcomes \ {"open"}, NEW status \in Statuses \ {"running"}
  PROVE  LeftRunning(row, Released(row, Len(row.attempts), outcome, status), outcome, status)
<1> DEFINE a == row.attempts
           n == Len(a)
           new == Released(row, n, outcome, status)
<1>1. a \in Seq(Outcomes) /\ a # <<>>
  BY DEF Row, RowInv
<1>2. n \in DOMAIN a /\ a[n] = "open"
  BY <1>1, LenProperties, EmptySeq DEF RowInv
<1>3. [a EXCEPT ![n] = outcome] \in Seq(Outcomes)
  BY <1>1, <1>2, ExceptSeq, LenProperties
<1>4. new \in Row
  BY <1>3 DEF Released, FinishAttempt, Row, Event
<1>5. /\ new.sub = row.sub /\ new.status = status
      /\ new.lease = 0 /\ new.ttl = 0 /\ ~new.pause
      /\ new.cancel = row.cancel /\ new.checkpoint = row.checkpoint
      /\ new.attempts = [a EXCEPT ![n] = outcome]
      /\ new.audit = Event("running", status)
  BY DEF Released, FinishAttempt, Row
<1>6. \A m \in DOMAIN new.attempts : new.attempts[m] # "open"
  BY <1>1, <1>2, <1>5 DEF RowInv
<1>7. Spent(new.attempts) = IF outcome \in {"failed", "lease-expired"}
                            THEN Spent(a) + 1 ELSE Spent(a)
  BY <1>1, <1>2, <1>5, SpentFinish
<1> HIDE DEF new
<1> QED
  BY <1>4, <1>5, <1>6, <1>7 DEF FinishAttempt, new, LeftRunning

LEMMA QueuedRowInv ==
  ASSUME NEW s \in Submissions
  PROVE  QueuedRow(s) \in Row /\ RowInv(QueuedRow(s))
<1> DEFINE row == QueuedRow(s)
<1>1. <<>> \in Seq(Outcomes) /\ Len(<<>>) = 0 /\ DOMAIN <<>> = {}
  BY EmptySeq
<1>2. row \in Row
  <2>1. 0 \in Checkpoints
    BY BoundsAssumption DEF Checkpoints
  <2> QED
    BY <1>1, <2>1 DEF QueuedRow, Row, Event, Statuses
<1>3. Spent(<<>>) = 0
  BY <1>1, FS_EmptySet DEF Spent
<1>4. s.maximumAttempts \in Nat \ {0}
  BY SubmissionsAssumption
<1>5. RowInv(row)
  BY <1>1, <1>3, <1>4 DEF RowInv, QueuedRow, Terminal, Unspent
<1> QED
  BY <1>2, <1>5

LEMMA ClaimedRowInv ==
  ASSUME NEW row \in Row, RowInv(row), row.status = "queued"
  PROVE  ClaimedRow(row) \in Row /\ RowInv(ClaimedRow(row))
<1> DEFINE a == row.attempts
           new == ClaimedRow(row)
<1>1. a \in Seq(Outcomes) /\ Append(a, "open") \in Seq(Outcomes)
  BY DEF Row, Outcomes
<1>2. /\ Len(a) \in Nat
      /\ Len(Append(a, "open")) = Len(a) + 1
      /\ DOMAIN a = 1 .. Len(a)
      /\ DOMAIN Append(a, "open") = 1 .. Len(a) + 1
      /\ \A n \in 1 .. Len(a) : Append(a, "open")[n] = a[n]
      /\ Append(a, "open")[Len(a) + 1] = "open"
  BY <1>1
<1>3. row.sub.leaseDuration \in Nat
  BY SubmissionsAssumption DEF Row
<1>4. new \in Row
  <2>1. Len(a) + 1 \in Nat
    BY <1>2
  <2> QED
    BY <1>1, <1>3, <2>1 DEF ClaimedRow, Row, Event, Statuses
<1>5. /\ new.sub = row.sub /\ new.status = "running" /\ new.attempts = Append(a, "open")
      /\ new.lease = Len(a) + 1 /\ new.pause = row.pause
  BY DEF ClaimedRow, Row
<1>6. Spent(new.attempts) = Spent(a)
  BY <1>1, <1>5, SpentAppend
<1>7. \A n \in DOMAIN new.attempts :
        new.attempts[n] = "open" <=> n = Len(new.attempts)
  BY <1>2, <1>5 DEF RowInv
<1> QED
  BY <1>2, <1>4, <1>5, <1>6, <1>7 DEF RowInv, Terminal, Unspent

\* A pause, resume or cancel of a row that is not running.
LEMMA MovedRowInv ==
  ASSUME NEW row \in Row, RowInv(row), row.status \in {"queued", "paused"},
         NEW new \in Row, new.status \in {"queued", "paused", "cancelled"},
         new.sub = row.sub, new.attempts = row.attempts, new.lease = row.lease,
         new.ttl = row.ttl, ~new.pause,
         new.status \in Terminal => ~new.cancel,
         new.status = "paused" => row.sub.pausable
  PROVE  RowInv(new)
<1>1. \A n \in DOMAIN row.attempts : row.attempts[n] # "open"
  BY DEF RowInv
<1>2. ~row.sub.pausable => row.status = "queued"
  BY DEF RowInv
<1> QED
  BY <1>1, <1>2 DEF RowInv, Unspent

\* A running row that keeps running: only its lease time, its requests, its
\* checkpoint and its last event may differ.
LEMMA RunningRowInv ==
  ASSUME NEW row \in Row, RowInv(row), row.status = "running",
         NEW new \in Row, new.status = "running",
         new.sub = row.sub, new.attempts = row.attempts, new.lease = row.lease,
         new.pause => row.pause \/ row.sub.pausable
  PROVE  RowInv(new)
BY DEF RowInv, Terminal

\* A worker's report or an expired lease takes the row out of running; the
\* caller's lease, which is current, is the one of the last attempt.
LEMMA CompletedRowInv ==
  ASSUME NEW row \in Row, RowInv(row), row.status = "running"
  PROVE  CompletedRow(row) \in Row /\ RowInv(CompletedRow(row))
<1> DEFINE mid == Released(row, Len(row.attempts), "completed", "completed")
<1>1. CompletedRow(row) = [mid EXCEPT !.cancel = FALSE]
  BY DEF CompletedRow, RowInv
<1>2. /\ mid \in Row /\ mid.sub = row.sub /\ mid.status = "completed"
      /\ mid.lease = 0 /\ mid.ttl = 0 /\ ~mid.pause
      /\ \A n \in DOMAIN mid.attempts : mid.attempts[n] # "open"
      /\ Spent(mid.attempts) = Spent(row.attempts)
  <2>1. "completed" \in Outcomes \ {"open"} /\ "completed" \in Statuses \ {"running"}
    BY DEF Outcomes, Statuses
  <2>2. LeftRunning(row, mid, "completed", "completed")
    BY <2>1, ReleasedRow
  <2> HIDE DEF mid
  <2> QED
    BY <2>2 DEF LeftRunning
<1>3. Spent(row.attempts) \in Nat /\ row.sub.maximumAttempts \in Nat
  BY SpentType, SubmissionsAssumption DEF Row
<1>4. CompletedRow(row) \in Row
  BY <1>1, <1>2 DEF Row
<1>5. RowInv([mid EXCEPT !.cancel = FALSE])
  BY <1>2, <1>3 DEF RowInv, Row, Terminal, Unspent
<1> QED
  BY <1>1, <1>4, <1>5

LEMMA FailedRowInv ==
  ASSUME NEW row \in Row, RowInv(row), row.status = "running", NEW retryable \in BOOLEAN
  PROVE  FailedRow(row, retryable) \in Row /\ RowInv(FailedRow(row, retryable))
<1> DEFINE spent == Spent(FinishAttempt(row, Len(row.attempts), "failed"))
           retry == retryable /\ spent < row.sub.maximumAttempts
           status == IF retry THEN "queued" ELSE "failed"
           mid == Released(row, Len(row.attempts), "failed", status)
           new == [mid EXCEPT !.cancel = FALSE, !.checkpoint = KeptCheckpoint(row)]
<1>1. FailedRow(row, retryable) = new
  BY DEF FailedRow, RowInv
<1>2. /\ mid \in Row /\ mid.sub = row.sub /\ mid.status = status
      /\ mid.lease = 0 /\ mid.ttl = 0 /\ ~mid.pause
      /\ \A n \in DOMAIN mid.attempts : mid.attempts[n] # "open"
      /\ mid.attempts = FinishAttempt(row, Len(row.attempts), "failed")
      /\ Spent(mid.attempts) = Spent(row.attempts) + 1
  <2>1. status \in Statuses \ {"running"}
    BY DEF Statuses
  <2>2. "failed" \in Outcomes \ {"open"}
    BY DEF Outcomes
  <2> HIDE DEF status
  <2>3. LeftRunning(row, mid, "failed", status)
    BY <2>1, <2>2, ReleasedRow
  <2> HIDE DEF mid
  <2> QED
    BY <2>3 DEF LeftRunning
<1>3. /\ Spent(row.attempts) \in Nat /\ row.sub.maximumAttempts \in Nat
      /\ KeptCheckpoint(row) \in Checkpoints
  <2>1. 0 \in Checkpoints
    BY BoundsAssumption DEF Checkpoints
  <2> QED
    BY <2>1, SpentType, SubmissionsAssumption DEF Row, KeptCheckpoint
<1>4. status = "queued" => Spent(mid.attempts) < row.sub.maximumAttempts
  BY <1>2
<1>5. status \in {"queued", "failed"}
  OBVIOUS
<1> HIDE DEF status, mid
<1>6. new \in Row
  BY <1>2, <1>3 DEF Row
<1>7. RowInv(new)
  BY <1>2, <1>3, <1>4, <1>5 DEF RowInv, Row, Terminal, Unspent
<1> QED
  BY <1>1, <1>6, <1>7

LEMMA PausedRowInv ==
  ASSUME NEW row \in Row, RowInv(row), row.status = "running", row.sub.pausable,
         NEW c \in Checkpoints
  PROVE  PausedRow(row, c) \in Row /\ RowInv(PausedRow(row, c))
<1> DEFINE mid == Released(row, Len(row.attempts), "paused", "paused")
           new == [mid EXCEPT !.checkpoint = c]
<1>1. PausedRow(row, c) = new
  BY DEF PausedRow, RowInv
<1>2. /\ mid \in Row /\ mid.sub = row.sub /\ mid.status = "paused"
      /\ mid.lease = 0 /\ mid.ttl = 0 /\ ~mid.pause
      /\ \A n \in DOMAIN mid.attempts : mid.attempts[n] # "open"
      /\ Spent(mid.attempts) = Spent(row.attempts)
  <2>1. "paused" \in Outcomes \ {"open"} /\ "paused" \in Statuses \ {"running"}
    BY DEF Outcomes, Statuses
  <2>2. LeftRunning(row, mid, "paused", "paused")
    BY <2>1, ReleasedRow
  <2> HIDE DEF mid
  <2> QED
    BY <2>2 DEF LeftRunning
<1> HIDE DEF mid
<1>3. new \in Row
  BY <1>2 DEF Row
<1>4. RowInv(new)
  BY <1>2 DEF RowInv, Row, Terminal
<1> QED
  BY <1>1, <1>3, <1>4

LEMMA CancelledRowInv ==
  ASSUME NEW row \in Row, RowInv(row), row.status = "running"
  PROVE  CancelledRow(row) \in Row /\ RowInv(CancelledRow(row))
<1> DEFINE mid == Released(row, Len(row.attempts), "cancelled", "cancelled")
           new == [mid EXCEPT !.cancel = FALSE]
<1>1. CancelledRow(row) = new
  BY DEF CancelledRow, RowInv
<1>2. /\ mid \in Row /\ mid.sub = row.sub /\ mid.status = "cancelled"
      /\ mid.lease = 0 /\ mid.ttl = 0 /\ ~mid.pause
      /\ \A n \in DOMAIN mid.attempts : mid.attempts[n] # "open"
      /\ Spent(mid.attempts) = Spent(row.attempts)
  <2>1. "cancelled" \in Outcomes \ {"open"} /\ "cancelled" \in Statuses \ {"running"}
    BY DEF Outcomes, Statuses
  <2>2. LeftRunning(row, mid, "cancelled", "cancelled")
    BY <2>1, ReleasedRow
  <2> HIDE DEF mid
  <2> QED
    BY <2>2 DEF LeftRunning
<1>3. Spent(row.attempts) \in Nat /\ row.sub.maximumAttempts \in Nat
  BY SpentType, SubmissionsAssumption DEF Row
<1> HIDE DEF mid
<1>4. new \in Row
  BY <1>2 DEF Row
<1>5. RowInv(new)
  BY <1>2, <1>3 DEF RowInv, Row, Terminal, Unspent
<1> QED
  BY <1>1, <1>4, <1>5

LEMMA RecoveredRowInv ==
  ASSUME NEW row \in Row, RowInv(row), row.status = "running"
  PROVE  RecoveredRow(row) \in Row /\ RowInv(RecoveredRow(row))
<1> DEFINE status == RecoveredStatus(row)
           mid == Released(row, Len(row.attempts), "lease-expired", status)
           new == [mid EXCEPT !.cancel = FALSE, !.checkpoint = KeptCheckpoint(row)]
<1>1. status \in {"queued", "paused", "failed", "cancelled"}
  BY DEF RecoveredStatus
<1>2. /\ mid \in Row /\ mid.sub = row.sub /\ mid.status = status
      /\ mid.lease = 0 /\ mid.ttl = 0 /\ ~mid.pause
      /\ \A n \in DOMAIN mid.attempts : mid.attempts[n] # "open"
      /\ mid.attempts = FinishAttempt(row, Len(row.attempts), "lease-expired")
      /\ Spent(mid.attempts) = Spent(row.attempts) + 1
  <2>1. status \in Statuses \ {"running"}
    BY <1>1 DEF Statuses
  <2>2. "lease-expired" \in Outcomes \ {"open"}
    BY DEF Outcomes
  <2> HIDE DEF status
  <2>3. LeftRunning(row, mid, "lease-expired", status)
    BY <2>1, <2>2, ReleasedRow
  <2> HIDE DEF mid
  <2> QED
    BY <2>3 DEF LeftRunning
<1>3. /\ Spent(row.attempts) \in Nat /\ row.sub.maximumAttempts \in Nat
      /\ KeptCheckpoint(row) \in Checkpoints
  <2>1. 0 \in Checkpoints
    BY BoundsAssumption DEF Checkpoints
  <2> QED
    BY <2>1, SpentType, SubmissionsAssumption DEF Row, KeptCheckpoint
<1>4. status = "queued" => Spent(mid.attempts) < row.sub.maximumAttempts
  BY <1>2, <1>3 DEF RecoveredStatus
<1>5. status = "paused" => row.pause
  BY DEF RecoveredStatus
<1>6. RecoveredRow(row) = new
  BY DEF RecoveredRow
<1> HIDE DEF status, mid
<1>7. new \in Row
  BY <1>2, <1>3 DEF Row
<1>8. RowInv(new)
  BY <1>1, <1>2, <1>3, <1>4, <1>5 DEF RowInv, Row, Terminal, Unspent
<1> QED
  BY <1>6, <1>7, <1>8

-----------------------------------------------------------------------------
(* The three ways of writing the table.                                    *)

LEMMA WriteInv ==
  ASSUME IndInv, NEW j \in Ids, NEW row \in Row, RowInv(row), Write(j, row)
  PROVE  IndInv'
<1>1. jobs \in Seq(Row) /\ j \in 1 .. Len(jobs)
  BY LenProperties DEF IndInv, TypeOK, Ids
<1>2. jobs' = [jobs EXCEPT ![j] = row]
  BY DEF Write
<1>3. jobs' \in Seq(Row) /\ DOMAIN jobs' = DOMAIN jobs
  BY <1>1, <1>2, ExceptSeq
<1>4. \A i \in Ids : jobs'[i] = IF i = j THEN row ELSE jobs[i]
  BY <1>1, <1>2 DEF Ids
<1> QED
  BY <1>3, <1>4 DEF IndInv, TypeOK, Ids

LEMMA AppendInv ==
  ASSUME IndInv, NEW row \in Row, RowInv(row), jobs' = Append(jobs, row)
  PROVE  IndInv'
<1>1. jobs \in Seq(Row)
  BY DEF IndInv, TypeOK
<1>2. /\ jobs' \in Seq(Row) /\ Len(jobs) \in Nat
      /\ DOMAIN jobs = 1 .. Len(jobs) /\ DOMAIN jobs' = 1 .. Len(jobs) + 1
      /\ \A i \in 1 .. Len(jobs) : jobs'[i] = jobs[i]
      /\ jobs'[Len(jobs) + 1] = row
  BY <1>1
<1>3. \A i \in Ids' : RowInv(jobs[i])' 
  BY <1>2 DEF IndInv, Ids
<1> QED
  BY <1>2, <1>3 DEF IndInv, TypeOK

\* A sweep over the table: rows outside the swept set are left alone.
LEMMA SweepInv ==
  ASSUME IndInv, NEW f \in [Ids -> Row], \A j \in Ids : RowInv(f[j]), jobs' = f
  PROVE  IndInv'
<1>1. Ids = 1 .. Len(jobs) /\ Len(jobs) \in Nat
  BY LenProperties DEF IndInv, TypeOK, Ids
<1>2. f \in Seq(Row)
  BY <1>1
<1>3. DOMAIN f = Ids
  OBVIOUS
<1> QED
  BY <1>2, <1>3 DEF IndInv, TypeOK, Ids

-----------------------------------------------------------------------------
(* The invariant is inductive.                                             *)

\* An attempt whose lease is current is the last one.
LEMMA CurrentLease ==
  ASSUME NEW row \in Row, RowInv(row), NEW n, HoldsLease(row, n)
  PROVE  row.status = "running" /\ n = Len(row.attempts)
BY DEF HoldsLease, RowInv

LEMMA IndInvInit == Init => IndInv
<1> SUFFICES ASSUME Init PROVE IndInv
  OBVIOUS
<1>1. jobs = <<>> /\ <<>> \in Seq(Row) /\ DOMAIN <<>> = {}
  BY EmptySeq DEF Init
<1> QED
  BY <1>1 DEF IndInv, TypeOK, Ids

LEMMA IndInvClient == ASSUME IndInv, ClientStep PROVE IndInv'
<1> USE DEF Ids
<1>1. \A j \in Ids : jobs[j] \in Row /\ RowInv(jobs[j])
  BY LenProperties, ElementOfSeq DEF IndInv, TypeOK
<1>2. ASSUME NEW s \in Submissions, Submit(s) PROVE IndInv'
  BY <1>2, QueuedRowInv, AppendInv DEF Submit
<1>3. ASSUME NEW j \in Ids, RequestPause(j) PROVE IndInv'
  <2> DEFINE row == jobs[j]
  <2>1. CASE row.status = "queued"
    <3> DEFINE new == [row EXCEPT !.status = "paused", !.audit = Event("queued", "paused")]
    <3>1. new \in Row
      BY <1>1 DEF Row, Event, Statuses
    <3>2. /\ new.status = "paused" /\ new.sub = row.sub /\ new.attempts = row.attempts
          /\ new.lease = row.lease /\ new.ttl = row.ttl /\ new.pause = row.pause
      BY <1>1 DEF Row
    <3>3. RowInv(new)
      BY <1>1, <1>3, <2>1, <3>1, <3>2, MovedRowInv DEF RequestPause, Terminal
    <3>4. Write(j, new)
      BY <1>3, <2>1 DEF RequestPause
    <3> QED
      BY <3>1, <3>3, <3>4, WriteInv
  <2>2. CASE row.status = "running"
    <3> DEFINE new == [row EXCEPT !.pause = TRUE, !.audit = Event("running", "running")]
    <3>1. new \in Row
      BY <1>1 DEF Row, Event, Statuses
    <3>2. /\ new.status = "running" /\ new.sub = row.sub /\ new.attempts = row.attempts
          /\ new.lease = row.lease
      BY <1>1, <2>2 DEF Row
    <3>3. RowInv(new)
      BY <1>1, <1>3, <2>2, <3>1, <3>2, RunningRowInv DEF RequestPause
    <3>4. Write(j, new)
      BY <1>3, <2>2 DEF RequestPause
    <3> QED
      BY <3>1, <3>3, <3>4, WriteInv
  <2> QED
    BY <1>3, <2>1, <2>2 DEF RequestPause
<1>4. ASSUME NEW j \in Ids, Resume(j) PROVE IndInv'
  <2> DEFINE row == jobs[j]
             new == [row EXCEPT !.status = "queued", !.pause = FALSE,
                                !.audit = Event("paused", "queued")]
  <2>1. new \in Row
    BY <1>1 DEF Row, Event, Statuses
  <2>2. /\ new.status = "queued" /\ new.sub = row.sub /\ new.attempts = row.attempts
        /\ new.lease = row.lease /\ new.ttl = row.ttl /\ ~new.pause
    BY <1>1 DEF Row
  <2>3. RowInv(new)
    BY <1>1, <1>4, <2>1, <2>2, MovedRowInv DEF Resume, Terminal
  <2>4. Write(j, new)
    BY <1>4 DEF Resume
  <2> QED
    BY <2>1, <2>3, <2>4, WriteInv
<1>5. ASSUME NEW j \in Ids, Cancel(j) PROVE IndInv'
  <2> DEFINE row == jobs[j]
  <2>1. CASE row.status = "running"
    <3> DEFINE new == [row EXCEPT !.cancel = TRUE, !.audit = Event("running", "running")]
    <3>1. new \in Row
      BY <1>1 DEF Row, Event, Statuses
    <3>2. /\ new.status = "running" /\ new.sub = row.sub /\ new.attempts = row.attempts
          /\ new.lease = row.lease /\ new.pause = row.pause
      BY <1>1, <2>1 DEF Row
    <3>3. RowInv(new)
      BY <1>1, <2>1, <3>1, <3>2, RunningRowInv
    <3>4. Write(j, new)
      BY <1>5, <2>1 DEF Cancel
    <3> QED
      BY <3>1, <3>3, <3>4, WriteInv
  <2>2. CASE row.status \in {"queued", "paused"}
    <3> DEFINE new == [row EXCEPT !.status = "cancelled", !.cancel = FALSE, !.pause = FALSE,
                                  !.audit = Event(row.status, "cancelled")]
    <3>1. new \in Row
      <4>1. "cancelled" \in Statuses /\ row.status \in Statuses \cup {"none"} /\ row \in Row
        BY <1>1, <2>2 DEF Statuses
      <4> HIDE DEF row
      <4> QED
        BY <4>1 DEF Row, Event
    <3>2. /\ new.status = "cancelled" /\ new.sub = row.sub /\ new.attempts = row.attempts
          /\ new.lease = row.lease /\ new.ttl = row.ttl /\ ~new.pause /\ ~new.cancel
      BY <1>1 DEF Row
    <3>3. RowInv(new)
      BY <1>1, <2>2, <3>1, <3>2, MovedRowInv
    <3>4. Write(j, new)
      BY <1>5, <2>2 DEF Cancel
    <3> QED
      BY <3>1, <3>3, <3>4, WriteInv
  <2> QED
    BY <1>5, <2>1, <2>2 DEF Cancel
<1> QED
  BY <1>2, <1>3, <1>4, <1>5 DEF ClientStep

LEMMA IndInvWorker == ASSUME IndInv, WorkerStep PROVE IndInv'
<1> USE DEF Ids
<1>1. \A j \in Ids : jobs[j] \in Row /\ RowInv(jobs[j])
  BY LenProperties, ElementOfSeq DEF IndInv, TypeOK
<1>2. ASSUME NEW j \in Ids, NEW kinds \in KindSets, ClaimNext(j, kinds) PROVE IndInv'
  <2>1. jobs[j].status = "queued"
    BY <1>2 DEF ClaimNext, Claimable
  <2>2. ClaimedRow(jobs[j]) \in Row /\ RowInv(ClaimedRow(jobs[j]))
    BY <1>1, <2>1, ClaimedRowInv
  <2> QED
    BY <1>2, <2>2, WriteInv DEF ClaimNext
<1>3. ASSUME NEW j \in Ids, NEW n, Heartbeat(j, n) PROVE IndInv'
  <2> DEFINE row == jobs[j]
             new == [row EXCEPT !.ttl = row.sub.leaseDuration,
                                !.audit = Event("running", "running")]
  <2>1. row.status = "running" /\ Write(j, new)
    BY <1>1, <1>3, CurrentLease DEF Heartbeat
  <2>2. new \in Row
    <3>1. row.sub.leaseDuration \in Nat
      BY <1>1, SubmissionsAssumption DEF Row
    <3> QED
      BY <1>1, <3>1 DEF Row, Event, Statuses
  <2>3. /\ new.status = "running" /\ new.sub = row.sub /\ new.attempts = row.attempts
        /\ new.lease = row.lease /\ new.pause = row.pause
    BY <1>1, <2>1 DEF Row
  <2>4. RowInv(new)
    BY <1>1, <2>1, <2>2, <2>3, RunningRowInv
  <2> QED
    BY <2>1, <2>2, <2>4, WriteInv
<1>4. ASSUME NEW j \in Ids, NEW n, NEW c \in Checkpoints, SaveCheckpoint(j, n, c)
      PROVE  IndInv'
  <2> DEFINE row == jobs[j]
             new == [row EXCEPT !.checkpoint = c, !.audit = Event("running", "running")]
  <2>1. row.status = "running" /\ Write(j, new)
    BY <1>1, <1>4, CurrentLease DEF SaveCheckpoint
  <2>2. new \in Row
    BY <1>1 DEF Row, Event, Statuses
  <2>3. /\ new.status = "running" /\ new.sub = row.sub /\ new.attempts = row.attempts
        /\ new.lease = row.lease /\ new.pause = row.pause
    BY <1>1, <2>1 DEF Row
  <2>4. RowInv(new)
    BY <1>1, <2>1, <2>2, <2>3, RunningRowInv
  <2> QED
    BY <2>1, <2>2, <2>4, WriteInv
<1>5. ASSUME NEW j \in Ids, NEW n, Complete(j, n) PROVE IndInv'
  <2>1. jobs[j].status = "running"
    BY <1>1, <1>5, CurrentLease DEF Complete
  <2> QED
    BY <1>1, <1>5, <2>1, CompletedRowInv, WriteInv DEF Complete
<1>6. ASSUME NEW j \in Ids, NEW n, NEW retryable \in BOOLEAN, Fail(j, n, retryable)
      PROVE  IndInv'
  <2>1. jobs[j].status = "running"
    BY <1>1, <1>6, CurrentLease DEF Fail
  <2> QED
    BY <1>1, <1>6, <2>1, FailedRowInv, WriteInv DEF Fail
<1>7. ASSUME NEW j \in Ids, NEW n, NEW c \in Checkpoints, AcknowledgePaused(j, n, c)
      PROVE  IndInv'
  <2>1. jobs[j].status = "running"
    BY <1>1, <1>7, CurrentLease DEF AcknowledgePaused
  <2>2. jobs[j].sub.pausable
    BY <1>1, <1>7, SubmissionsAssumption DEF AcknowledgePaused, RowInv, Row
  <2> QED
    BY <1>1, <1>7, <2>1, <2>2, PausedRowInv, WriteInv DEF AcknowledgePaused
<1>8. ASSUME NEW j \in Ids, NEW n, AcknowledgeCancelled(j, n) PROVE IndInv'
  <2>1. jobs[j].status = "running"
    BY <1>1, <1>8, CurrentLease DEF AcknowledgeCancelled
  <2> QED
    BY <1>1, <1>8, <2>1, CancelledRowInv, WriteInv DEF AcknowledgeCancelled
<1>9. ASSUME RecoverExpiredLeases PROVE IndInv'
  <2> DEFINE f == [j \in Ids |-> IF Expired(jobs[j]) THEN RecoveredRow(jobs[j]) ELSE jobs[j]]
  <2>1. \A j \in Ids : f[j] \in Row /\ RowInv(f[j])
    BY <1>1, RecoveredRowInv DEF Expired
  <2>2. f \in [Ids -> Row]
    BY <2>1
  <2>3. jobs' = f
    BY <1>9 DEF RecoverExpiredLeases
  <2> QED
    BY <2>1, <2>2, <2>3, SweepInv
<1> QED
  BY <1>2, <1>3, <1>4, <1>5, <1>6, <1>7, <1>8, <1>9 DEF WorkerStep

LEMMA IndInvTick == ASSUME IndInv, Tick PROVE IndInv'
<1>1. \A j \in Ids : jobs[j] \in Row /\ RowInv(jobs[j])
  BY LenProperties, ElementOfSeq DEF IndInv, TypeOK, Ids
<1> DEFINE f == [j \in Ids |-> IF Ticking(jobs[j])
                               THEN [jobs[j] EXCEPT !.ttl = @ - 1] ELSE jobs[j]]
<1>2. ASSUME NEW j \in Ids, Ticking(jobs[j])
      PROVE  LET new == [jobs[j] EXCEPT !.ttl = @ - 1] IN new \in Row /\ RowInv(new)
  <2> DEFINE row == jobs[j]
             new == [row EXCEPT !.ttl = @ - 1]
  <2>1. row.status = "running" /\ row.ttl - 1 \in Nat
    BY <1>1, <1>2 DEF Ticking, Row
  <2>2. new \in Row
    BY <1>1, <2>1 DEF Row
  <2>3. /\ new.status = "running" /\ new.sub = row.sub /\ new.attempts = row.attempts
        /\ new.lease = row.lease /\ new.pause = row.pause
    BY <1>1, <2>1 DEF Row
  <2> QED
    BY <1>1, <2>1, <2>2, <2>3, RunningRowInv
<1>3. \A j \in Ids : f[j] \in Row /\ RowInv(f[j])
  BY <1>1, <1>2
<1>4. f \in [Ids -> Row] /\ jobs' = f
  BY <1>3 DEF Tick
<1> QED
  BY <1>3, <1>4, SweepInv

LEMMA IndInvNext == IndInv /\ [Next]_jobs => IndInv'
<1> SUFFICES ASSUME IndInv, [Next]_jobs PROVE IndInv'
  OBVIOUS
<1>1. CASE UNCHANGED jobs
  BY <1>1 DEF IndInv, TypeOK, Ids
<1> QED
  BY <1>1, IndInvClient, IndInvWorker, IndInvTick DEF Next

THEOREM Inductive == Spec => []IndInv
BY IndInvInit, IndInvNext, PTL DEF Spec

-----------------------------------------------------------------------------
(* The theorems.                                                           *)

\* Every reachable table has the declared shape.
THEOREM TypeCorrect == Spec => []TypeOK
<1>1. IndInv => TypeOK
  BY DEF IndInv
<1> QED
  BY <1>1, Inductive, PTL

\* A job holds a lease exactly while it runs, to its last attempt.
THEOREM LeasesCorrect == Spec => []LeaseInv
<1>1. IndInv => LeaseInv
  BY DEF IndInv, LeaseInv, RowInv
<1> QED
  BY <1>1, Inductive, PTL

\* The leased attempt is open and no other is: recovery never has to stop at
\* a row whose attempt it cannot finish.
THEOREM AttemptsCorrect == Spec => []AttemptsInv
<1>1. IndInv => AttemptsInv
  BY DEF IndInv, AttemptsInv, RowInv
<1> QED
  BY <1>1, Inductive, PTL

\* A job that cannot be paused never exceeds its attempts, whatever the mix
\* of workers, failures and expiries.
THEOREM BudgetCorrect == Spec => []BudgetKept
<1>1. IndInv => BudgetKept
  BY DEF IndInv, BudgetKept, RowInv, Unspent
<1> QED
  BY <1>1, Inductive, PTL

-----------------------------------------------------------------------------
(* What an operation may do to a row.                                      *)

\* The row keeps running under its lease: requests stay, and a lease that has
\* run out gets no time again.
RunsOn(old, new) ==
  /\ old.status = "running" /\ new.status = "running"
  /\ new.attempts = old.attempts /\ new.lease = old.lease
  /\ old.ttl = 0 => new.ttl = 0
  /\ old.pause => new.pause
  /\ old.cancel => new.cancel
  /\ new.audit \in {old.audit, Event("running", "running")}

Reports == {"completed", "failed", "paused", "cancelled"}

\* The row takes a transition of the table, and its event says which.  A claim
\* opens a new attempt; a running row whose lease has time left stops running
\* only by what its holder reported.
Transits(old, new) ==
  /\ new.status \in Lifecycle!ALLOWED_TRANSITIONS[old.status]
  /\ new.audit = Event(old.status, new.status)
  /\ Len(new.attempts) >= Len(old.attempts)
  /\ new.status = "running" => new.lease = Len(old.attempts) + 1
  /\ old.status = "running" /\ old.ttl > 0 => new.attempts[old.lease] \in Reports

RowStep(old, new) ==
  \/ new = old
  \/ new.sub = old.sub /\ (RunsOn(old, new) \/ Transits(old, new))

\* Rows come, up to their bound, but never go.
TableStep ==
  /\ Ids \subseteq Ids' /\ Ids' \subseteq Ids \cup 1 .. MaxJobs
  /\ \A j \in Ids : RowStep(jobs[j], jobs'[j])
  /\ \A j \in Ids' \ Ids : \E s \in Submissions : jobs'[j] = QueuedRow(s)

\* A job that starts over forgets its checkpoint when an attempt comes to nothing.
KeepsCheckpoint(old, new) ==
  \/ new.checkpoint = old.checkpoint
  \/ /\ old.sub.restart /\ new.checkpoint = 0
     /\ new.status \notin {"running", "completed"}

\* Only the jobs of `done` may complete in the step, and only those of `saved` may
\* get another checkpoint.
Effect(done, saved) ==
  /\ TableStep
  /\ \A j \in Ids \ done : jobs'[j].status = "completed" => jobs[j].status = "completed"
  /\ \A j \in Ids \ saved : KeepsCheckpoint(jobs[j], jobs'[j])

\* The transition table, row by row.
LEMMA AllowedTransitions ==
  /\ Lifecycle!ALLOWED_TRANSITIONS["queued"] = {"running", "paused", "cancelled"}
  /\ Lifecycle!ALLOWED_TRANSITIONS["running"] =
       {"queued", "paused", "completed", "failed", "cancelled"}
  /\ Lifecycle!ALLOWED_TRANSITIONS["paused"] = {"queued", "cancelled"}
  /\ Lifecycle!ALLOWED_TRANSITIONS["completed"] = {}
BY DEF Lifecycle!ALLOWED_TRANSITIONS

\* A row that leaves running by a report of its holder or because its lease ran out.
LEMMA ReleasedRowStep ==
  ASSUME NEW row \in Row, RowInv(row), row.status = "running",
         NEW outcome \in Outcomes \ {"open"}, row.ttl > 0 => outcome \in Reports,
         NEW new, new.status \in {"queued", "paused", "completed", "failed", "cancelled"},
         new.sub = row.sub, new.audit = Event("running", new.status),
         new.attempts = FinishAttempt(row, Len(row.attempts), outcome)
  PROVE  RowStep(row, new)
<1> DEFINE a == row.attempts
           n == Len(a)
<1>1. a \in Seq(Outcomes) /\ a # <<>> /\ row.lease = n
  BY DEF Row, RowInv
<1>2. n \in DOMAIN a
  BY <1>1, LenProperties, EmptySeq
<1>3. [a EXCEPT ![n] = outcome] \in Seq(Outcomes) /\ Len([a EXCEPT ![n] = outcome]) = n
  BY <1>1, <1>2, ExceptSeq, LenProperties
<1>4. [a EXCEPT ![n] = outcome][n] = outcome
  BY <1>2
<1>5. n \in Nat /\ new.attempts = [a EXCEPT ![n] = outcome]
  BY <1>1, LenProperties DEF FinishAttempt
<1>6. Transits(row, new)
  BY <1>1, <1>3, <1>4, <1>5, AllowedTransitions DEF Transits
<1> QED
  BY <1>6 DEF RowStep

\* Writing one row.
LEMMA WriteEffect ==
  ASSUME IndInv, NEW j \in Ids, NEW row, RowStep(jobs[j], row), Write(j, row)
  PROVE  /\ TableStep
         /\ \A i \in Ids : jobs'[i] = IF i = j THEN row ELSE jobs[i]
<1>1. jobs \in Seq(Row) /\ jobs' = [jobs EXCEPT ![j] = row]
  BY DEF IndInv, TypeOK, Write
<1>2. DOMAIN jobs' = DOMAIN jobs /\ \A i \in Ids : jobs'[i] = IF i = j THEN row ELSE jobs[i]
  BY <1>1 DEF Ids
<1> QED
  BY <1>2 DEF TableStep, RowStep, Ids

\* A row that keeps running.
LEMMA RunsOnEffect ==
  ASSUME IndInv, NEW j \in Ids, NEW row, jobs[j].status = "running", Write(j, row),
         row.sub = jobs[j].sub, RunsOn(jobs[j], row)
  PROVE  /\ Effect({}, {j})
         /\ row.checkpoint = jobs[j].checkpoint => Effect({}, {})
<1>1. RowStep(jobs[j], row) /\ row.status = "running"
  BY DEF RowStep, RunsOn
<1>2. TableStep /\ \A i \in Ids : jobs'[i] = IF i = j THEN row ELSE jobs[i]
  BY <1>1, WriteEffect
<1> QED
  BY <1>1, <1>2 DEF Effect, KeepsCheckpoint

\* A row that is not running and is moved by a client.
LEMMA MovedEffect ==
  ASSUME IndInv, NEW j \in Ids, NEW row, Write(j, row),
         jobs[j].status \in {"queued", "paused"},
         row.status \in Lifecycle!ALLOWED_TRANSITIONS[jobs[j].status] \ {"running"},
         row.sub = jobs[j].sub, row.attempts = jobs[j].attempts,
         row.audit = Event(jobs[j].status, row.status),
         row.checkpoint = jobs[j].checkpoint
  PROVE  Effect({}, {})
<1>1. jobs[j] \in Row
  BY LenProperties, ElementOfSeq DEF IndInv, TypeOK, Ids
<1>2. Len(jobs[j].attempts) \in Nat
  BY <1>1, LenProperties DEF Row
<1>3. RowStep(jobs[j], row)
  BY <1>2 DEF RowStep, Transits
<1>4. row.status # "completed"
  BY AllowedTransitions
<1>5. TableStep /\ \A i \in Ids : jobs'[i] = IF i = j THEN row ELSE jobs[i]
  BY <1>3, WriteEffect
<1> QED
  BY <1>4, <1>5 DEF Effect, KeepsCheckpoint

LEMMA SubmitEffect ==
  ASSUME IndInv, NEW s \in Submissions, Submit(s)
  PROVE  Effect({}, {})
<1>1. jobs \in Seq(Row) /\ jobs' = Append(jobs, QueuedRow(s))
  BY DEF IndInv, TypeOK, Submit
<1>2. /\ Len(jobs) \in Nat
      /\ DOMAIN jobs = 1 .. Len(jobs) /\ DOMAIN jobs' = 1 .. Len(jobs) + 1
      /\ \A i \in 1 .. Len(jobs) : jobs'[i] = jobs[i]
      /\ jobs'[Len(jobs) + 1] = QueuedRow(s)
  BY <1>1
<1>3. Ids \subseteq Ids' /\ Ids' \subseteq Ids \cup 1 .. MaxJobs
  BY <1>2, BoundsAssumption DEF Submit, Ids
<1>4. \A j \in Ids : jobs'[j] = jobs[j]
  BY <1>2 DEF Ids
<1>5. \A j \in Ids' \ Ids : jobs'[j] = QueuedRow(s)
  BY <1>2 DEF Ids
<1> QED
  BY <1>3, <1>4, <1>5 DEF Effect, TableStep, RowStep, KeepsCheckpoint

LEMMA ControlEffect ==
  ASSUME IndInv, NEW j \in Ids, RequestPause(j) \/ Resume(j) \/ Cancel(j)
  PROVE  Effect({}, {})
<1> DEFINE row == jobs[j]
<1>1. row \in Row /\ RowInv(row)
  BY LenProperties, ElementOfSeq DEF IndInv, TypeOK, Ids
<1>2. CASE RequestPause(j)
  <2>1. CASE row.status = "queued"
    <3> DEFINE new == [row EXCEPT !.status = "paused", !.audit = Event("queued", "paused")]
    <3>1. /\ new.status = "paused" /\ new.sub = row.sub /\ new.attempts = row.attempts
          /\ new.audit = Event("queued", "paused") /\ new.checkpoint = row.checkpoint
      BY <1>1 DEF Row
    <3>2. Write(j, new)
      BY <1>2, <2>1 DEF RequestPause
    <3> QED
      BY <2>1, <3>1, <3>2, MovedEffect, AllowedTransitions
  <2>2. CASE row.status = "running"
    <3> DEFINE new == [row EXCEPT !.pause = TRUE, !.audit = Event("running", "running")]
    <3>1. new.sub = row.sub /\ RunsOn(row, new) /\ new.checkpoint = row.checkpoint
      BY <1>1, <2>2 DEF Row, RunsOn
    <3>2. Write(j, new)
      BY <1>2, <2>2 DEF RequestPause
    <3> QED
      BY <2>2, <3>1, <3>2, RunsOnEffect
  <2> QED
    BY <1>2, <2>1, <2>2 DEF RequestPause
<1>3. CASE Resume(j)
  <2> DEFINE new == [row EXCEPT !.status = "queued", !.pause = FALSE,
                                !.audit = Event("paused", "queued")]
  <2>1. /\ new.status = "queued" /\ new.sub = row.sub /\ new.attempts = row.attempts
        /\ new.audit = Event("paused", "queued") /\ new.checkpoint = row.checkpoint
    BY <1>1 DEF Row
  <2>2. Write(j, new) /\ row.status = "paused"
    BY <1>3 DEF Resume
  <2> QED
    BY <2>1, <2>2, MovedEffect, AllowedTransitions
<1>4. CASE Cancel(j)
  <2>1. CASE row.status = "running"
    <3> DEFINE new == [row EXCEPT !.cancel = TRUE, !.audit = Event("running", "running")]
    <3>1. new.sub = row.sub /\ RunsOn(row, new) /\ new.checkpoint = row.checkpoint
      BY <1>1, <2>1 DEF Row, RunsOn
    <3>2. Write(j, new)
      BY <1>4, <2>1 DEF Cancel
    <3> QED
      BY <2>1, <3>1, <3>2, RunsOnEffect
  <2>2. CASE row.status \in {"queued", "paused"}
    <3> DEFINE new == [row EXCEPT !.status = "cancelled", !.cancel = FALSE, !.pause = FALSE,
                                  !.audit = Event(row.status, "cancelled")]
    <3>1. /\ new.status = "cancelled" /\ new.sub = row.sub /\ new.attempts = row.attempts
          /\ new.audit = Event(row.status, "cancelled") /\ new.checkpoint = row.checkpoint
      BY <1>1 DEF Row
    <3>2. Write(j, new)
      BY <1>4, <2>2 DEF Cancel
    <3> QED
      BY <2>2, <3>1, <3>2, MovedEffect, AllowedTransitions
  <2> QED
    BY <1>4, <2>1, <2>2 DEF Cancel
<1> QED
  BY <1>2, <1>3, <1>4

\* A row that leaves running.
LEMMA ReleasedEffect ==
  ASSUME IndInv, NEW j \in Ids, NEW row, Write(j, row), RowStep(jobs[j], row)
  PROVE  /\ Effect({j}, {j})
         /\ row.status # "completed" => Effect({}, {j})
         /\ KeepsCheckpoint(jobs[j], row) => Effect({j}, {})
         /\ row.status # "completed" /\ KeepsCheckpoint(jobs[j], row) => Effect({}, {})
<1>1. TableStep /\ \A i \in Ids : jobs'[i] = IF i = j THEN row ELSE jobs[i]
  BY WriteEffect
<1> QED
  BY <1>1 DEF Effect, KeepsCheckpoint

LEMMA ClaimEffect ==
  ASSUME IndInv, NEW j \in Ids, NEW kinds, ClaimNext(j, kinds)
  PROVE  /\ Effect({}, {})
         /\ jobs'[j].lease = Len(jobs[j].attempts) + 1
         /\ jobs'[j].attempts = Append(jobs[j].attempts, "open")
<1> DEFINE row == jobs[j]
           new == ClaimedRow(row)
<1>1. row \in Row /\ row.status = "queued" /\ Write(j, new)
  BY LenProperties, ElementOfSeq DEF IndInv, TypeOK, Ids, ClaimNext, Claimable
<1>2. /\ new.sub = row.sub /\ new.status = "running" /\ new.lease = Len(row.attempts) + 1
      /\ new.attempts = Append(row.attempts, "open")
      /\ new.audit = Event("queued", "running") /\ new.checkpoint = row.checkpoint
  BY <1>1 DEF ClaimedRow, Row
<1>3. Len(new.attempts) >= Len(row.attempts)
  <2>1. row.attempts \in Seq(Outcomes)
    BY <1>1 DEF Row
  <2> QED
    BY <1>2, <2>1
<1> HIDE DEF new
<1>4. RowStep(row, new)
  BY <1>1, <1>2, <1>3, AllowedTransitions DEF RowStep, Transits
<1>5. jobs'[j] = new
  BY <1>1, <1>4, WriteEffect
<1> QED
  BY <1>1, <1>2, <1>4, <1>5, ReleasedEffect DEF KeepsCheckpoint

LEMMA HeartbeatEffect ==
  ASSUME IndInv, NEW j \in Ids, NEW n, Heartbeat(j, n)
  PROVE  Effect({}, {})
<1> DEFINE row == jobs[j]
           new == [row EXCEPT !.ttl = row.sub.leaseDuration,
                              !.audit = Event("running", "running")]
<1>1. row \in Row
  BY LenProperties, ElementOfSeq DEF IndInv, TypeOK, Ids
<1>2. row.status = "running" /\ row.ttl > 0 /\ Write(j, new)
  BY DEF Heartbeat, HoldsLease
<1>3. new.sub = row.sub /\ RunsOn(row, new) /\ new.checkpoint = row.checkpoint
  BY <1>1, <1>2 DEF Row, RunsOn
<1> HIDE DEF new
<1> QED
  BY <1>2, <1>3, RunsOnEffect

LEMMA SaveEffect ==
  ASSUME IndInv, NEW j \in Ids, NEW n, NEW c \in Checkpoints, SaveCheckpoint(j, n, c)
  PROVE  Effect({}, {j}) /\ jobs'[j].checkpoint = c
<1> DEFINE row == jobs[j]
           new == [row EXCEPT !.checkpoint = c, !.audit = Event("running", "running")]
<1>1. row \in Row
  BY LenProperties, ElementOfSeq DEF IndInv, TypeOK, Ids
<1>2. row.status = "running" /\ Write(j, new)
  BY DEF SaveCheckpoint, HoldsLease
<1>3. new.sub = row.sub /\ RunsOn(row, new) /\ new.checkpoint = c
  BY <1>1, <1>2 DEF Row, RunsOn
<1> HIDE DEF new
<1>4. jobs'[j] = new
  BY <1>2, <1>3, WriteEffect DEF RowStep
<1> QED
  BY <1>2, <1>3, <1>4, RunsOnEffect

\* The row that a worker operation of the holder of the lease is applied to.
LEMMA HeldRow ==
  ASSUME IndInv, NEW j \in Ids, NEW n, HoldsLease(jobs[j], n)
  PROVE  /\ jobs[j] \in Row /\ RowInv(jobs[j])
         /\ jobs[j].status = "running" /\ jobs[j].ttl > 0
         /\ jobs[j].lease = Len(jobs[j].attempts) /\ n = jobs[j].lease
BY LenProperties, ElementOfSeq DEF IndInv, TypeOK, Ids, HoldsLease, RowInv

LEMMA CompleteEffect ==
  ASSUME IndInv, NEW j \in Ids, NEW n, Complete(j, n)
  PROVE  Effect({j}, {})
<1> DEFINE row == jobs[j]
           mid == Released(row, Len(row.attempts), "completed", "completed")
           new == [mid EXCEPT !.cancel = FALSE]
<1>1. /\ row \in Row /\ RowInv(row) /\ row.status = "running"
      /\ row.lease = Len(row.attempts)
  BY HeldRow DEF Complete
<1>2. Write(j, new)
  BY <1>1 DEF Complete, CompletedRow
<1>3. "completed" \in Outcomes \ {"open"} /\ "completed" \in Statuses \ {"running"}
  BY DEF Outcomes, Statuses
<1>4. /\ mid \in Row /\ mid.sub = row.sub /\ mid.status = "completed"
      /\ mid.checkpoint = row.checkpoint /\ mid.audit = Event("running", "completed")
      /\ mid.attempts = FinishAttempt(row, Len(row.attempts), "completed")
  BY <1>1, <1>3, ReleasedRow DEF LeftRunning
<1> HIDE DEF mid
<1>5. /\ new.sub = row.sub /\ new.status = "completed"
      /\ new.checkpoint = row.checkpoint /\ new.audit = Event("running", "completed")
      /\ new.attempts = FinishAttempt(row, Len(row.attempts), "completed")
  BY <1>4 DEF Row
<1> HIDE DEF new
<1>6. RowStep(row, new)
  BY <1>1, <1>3, <1>5, ReleasedRowStep DEF Reports
<1> QED
  BY <1>2, <1>5, <1>6, ReleasedEffect DEF KeepsCheckpoint

LEMMA FailEffect ==
  ASSUME IndInv, NEW j \in Ids, NEW n, NEW retryable \in BOOLEAN, Fail(j, n, retryable)
  PROVE  Effect({}, {})
<1> DEFINE row == jobs[j]
           retry == retryable /\ Spent(FinishAttempt(row, Len(row.attempts), "failed"))
                                   < row.sub.maximumAttempts
           status == IF retry THEN "queued" ELSE "failed"
           mid == Released(row, Len(row.attempts), "failed", status)
           new == [mid EXCEPT !.cancel = FALSE, !.checkpoint = KeptCheckpoint(row)]
<1>1. /\ row \in Row /\ RowInv(row) /\ row.status = "running"
      /\ row.lease = Len(row.attempts)
  BY HeldRow DEF Fail
<1>2. Write(j, new)
  BY <1>1 DEF Fail, FailedRow
<1>3. "failed" \in Outcomes \ {"open"} /\ status \in Statuses \ {"running"}
  BY DEF Outcomes, Statuses
<1>4. status \in {"queued", "failed"}
  OBVIOUS
<1> HIDE DEF status
<1>5. /\ mid \in Row /\ mid.sub = row.sub /\ mid.status = status
      /\ mid.checkpoint = row.checkpoint /\ mid.audit = Event("running", status)
      /\ mid.attempts = FinishAttempt(row, Len(row.attempts), "failed")
  BY <1>1, <1>3, ReleasedRow DEF LeftRunning
<1> HIDE DEF mid
<1>6. /\ new.sub = row.sub /\ new.status = status
      /\ new.checkpoint = KeptCheckpoint(row) /\ new.audit = Event("running", status)
      /\ new.attempts = FinishAttempt(row, Len(row.attempts), "failed")
  BY <1>5 DEF Row
<1> HIDE DEF new
<1>7. RowStep(row, new)
  BY <1>1, <1>3, <1>4, <1>6, ReleasedRowStep DEF Reports
<1>8. KeepsCheckpoint(row, new)
  BY <1>4, <1>6 DEF KeepsCheckpoint, KeptCheckpoint
<1> QED
  BY <1>2, <1>4, <1>6, <1>7, <1>8, ReleasedEffect

LEMMA AcknowledgePausedEffect ==
  ASSUME IndInv, NEW j \in Ids, NEW n, NEW c \in Checkpoints, AcknowledgePaused(j, n, c)
  PROVE  Effect({}, {j}) /\ jobs'[j].checkpoint = c
<1> DEFINE row == jobs[j]
           mid == Released(row, Len(row.attempts), "paused", "paused")
           new == [mid EXCEPT !.checkpoint = c]
<1>1. /\ row \in Row /\ RowInv(row) /\ row.status = "running"
      /\ row.lease = Len(row.attempts)
  BY HeldRow DEF AcknowledgePaused
<1>2. Write(j, new)
  BY <1>1 DEF AcknowledgePaused, PausedRow
<1>3. "paused" \in Outcomes \ {"open"} /\ "paused" \in Statuses \ {"running"}
  BY DEF Outcomes, Statuses
<1>4. /\ mid \in Row /\ mid.sub = row.sub /\ mid.status = "paused"
      /\ mid.audit = Event("running", "paused")
      /\ mid.attempts = FinishAttempt(row, Len(row.attempts), "paused")
  BY <1>1, <1>3, ReleasedRow DEF LeftRunning
<1> HIDE DEF mid
<1>5. /\ new.sub = row.sub /\ new.status = "paused"
      /\ new.checkpoint = c /\ new.audit = Event("running", "paused")
      /\ new.attempts = FinishAttempt(row, Len(row.attempts), "paused")
  BY <1>4 DEF Row
<1> HIDE DEF new
<1>6. RowStep(row, new)
  BY <1>1, <1>3, <1>5, ReleasedRowStep DEF Reports
<1>7. jobs'[j] = new
  BY <1>2, <1>6, WriteEffect
<1> QED
  BY <1>2, <1>5, <1>6, <1>7, ReleasedEffect

LEMMA AcknowledgeCancelledEffect ==
  ASSUME IndInv, NEW j \in Ids, NEW n, AcknowledgeCancelled(j, n)
  PROVE  Effect({}, {})
<1> DEFINE row == jobs[j]
           mid == Released(row, Len(row.attempts), "cancelled", "cancelled")
           new == [mid EXCEPT !.cancel = FALSE]
<1>1. /\ row \in Row /\ RowInv(row) /\ row.status = "running"
      /\ row.lease = Len(row.attempts)
  BY HeldRow DEF AcknowledgeCancelled
<1>2. Write(j, new)
  BY <1>1 DEF AcknowledgeCancelled, CancelledRow
<1>3. "cancelled" \in Outcomes \ {"open"} /\ "cancelled" \in Statuses \ {"running"}
  BY DEF Outcomes, Statuses
<1>4. /\ mid \in Row /\ mid.sub = row.sub /\ mid.status = "cancelled"
      /\ mid.checkpoint = row.checkpoint /\ mid.audit = Event("running", "cancelled")
      /\ mid.attempts = FinishAttempt(row, Len(row.attempts), "cancelled")
  BY <1>1, <1>3, ReleasedRow DEF LeftRunning
<1> HIDE DEF mid
<1>5. /\ new.sub = row.sub /\ new.status = "cancelled"
      /\ new.checkpoint = row.checkpoint /\ new.audit = Event("running", "cancelled")
      /\ new.attempts = FinishAttempt(row, Len(row.attempts), "cancelled")
  BY <1>4 DEF Row
<1> HIDE DEF new
<1>6. RowStep(row, new)
  BY <1>1, <1>3, <1>5, ReleasedRowStep DEF Reports
<1> QED
  BY <1>2, <1>5, <1>6, ReleasedEffect DEF KeepsCheckpoint

\* The sweeps: every row takes its own step.
LEMMA SweepEffect ==
  ASSUME NEW f, DOMAIN f = Ids, jobs' = f,
         \A j \in Ids : RowStep(jobs[j], f[j]) /\ KeepsCheckpoint(jobs[j], f[j])
                          /\ (f[j].status = "completed" => jobs[j].status = "completed")
  PROVE  Effect({}, {})
BY DEF Effect, TableStep, Ids

LEMMA RecoveredRowStep ==
  ASSUME NEW row \in Row, RowInv(row), Expired(row)
  PROVE  LET new == RecoveredRow(row)
         IN  RowStep(row, new) /\ KeepsCheckpoint(row, new) /\ new.status # "completed"
<1> DEFINE status == RecoveredStatus(row)
           mid == Released(row, Len(row.attempts), "lease-expired", status)
           new == [mid EXCEPT !.cancel = FALSE, !.checkpoint = KeptCheckpoint(row)]
<1>1. row.status = "running" /\ ~(row.ttl > 0)
  BY DEF Expired
<1>2. status \in {"queued", "paused", "failed", "cancelled"}
  BY DEF RecoveredStatus
<1>3. "lease-expired" \in Outcomes \ {"open"} /\ status \in Statuses \ {"running"}
  BY <1>2 DEF Outcomes, Statuses
<1>4. RecoveredRow(row) = new
  BY DEF RecoveredRow
<1> HIDE DEF status
<1>5. /\ mid \in Row /\ mid.sub = row.sub /\ mid.status = status
      /\ mid.audit = Event("running", status)
      /\ mid.attempts = FinishAttempt(row, Len(row.attempts), "lease-expired")
  BY <1>1, <1>3, ReleasedRow DEF LeftRunning
<1> HIDE DEF mid
<1>6. /\ new.sub = row.sub /\ new.status = status
      /\ new.checkpoint = KeptCheckpoint(row) /\ new.audit = Event("running", status)
      /\ new.attempts = FinishAttempt(row, Len(row.attempts), "lease-expired")
  BY <1>5 DEF Row
<1> HIDE DEF new
<1>7. RowStep(row, new)
  BY <1>1, <1>2, <1>3, <1>6, ReleasedRowStep
<1> QED
  BY <1>2, <1>4, <1>6, <1>7 DEF KeepsCheckpoint, KeptCheckpoint

LEMMA RecoverEffect ==
  ASSUME IndInv, RecoverExpiredLeases
  PROVE  Effect({}, {})
<1> DEFINE f == [j \in Ids |-> IF Expired(jobs[j]) THEN RecoveredRow(jobs[j]) ELSE jobs[j]]
<1>1. \A j \in Ids : jobs[j] \in Row /\ RowInv(jobs[j])
  BY LenProperties, ElementOfSeq DEF IndInv, TypeOK, Ids
<1>2. jobs' = f /\ DOMAIN f = Ids
  BY DEF RecoverExpiredLeases
<1>3. ASSUME NEW j \in Ids
      PROVE  RowStep(jobs[j], f[j]) /\ KeepsCheckpoint(jobs[j], f[j])
               /\ (f[j].status = "completed" => jobs[j].status = "completed")
  <2>1. CASE Expired(jobs[j])
    BY <1>1, <2>1, RecoveredRowStep
  <2>2. CASE ~Expired(jobs[j])
    BY <2>2 DEF RowStep, KeepsCheckpoint
  <2> QED
    BY <2>1, <2>2
<1> HIDE DEF f
<1> QED
  BY <1>2, <1>3, SweepEffect

LEMMA TickEffect ==
  ASSUME IndInv, Tick
  PROVE  Effect({}, {})
<1> DEFINE f == [j \in Ids |-> IF Ticking(jobs[j])
                               THEN [jobs[j] EXCEPT !.ttl = @ - 1] ELSE jobs[j]]
<1>1. \A j \in Ids : jobs[j] \in Row
  BY LenProperties, ElementOfSeq DEF IndInv, TypeOK, Ids
<1>2. jobs' = f /\ DOMAIN f = Ids
  BY DEF Tick
<1>3. ASSUME NEW j \in Ids
      PROVE  RowStep(jobs[j], f[j]) /\ KeepsCheckpoint(jobs[j], f[j])
               /\ (f[j].status = "completed" => jobs[j].status = "completed")
  <2>1. CASE Ticking(jobs[j])
    <3> DEFINE new == [jobs[j] EXCEPT !.ttl = @ - 1]
    <3>1. /\ new.sub = jobs[j].sub /\ RunsOn(jobs[j], new)
          /\ new.checkpoint = jobs[j].checkpoint /\ new.status = "running"
      BY <1>1, <2>1 DEF Ticking, Row, RunsOn
    <3>2. f[j] = new
      BY <2>1
    <3> HIDE DEF new, f
    <3> QED
      BY <3>1, <3>2 DEF RowStep, KeepsCheckpoint
  <2>2. CASE ~Ticking(jobs[j])
    BY <2>2 DEF RowStep, KeepsCheckpoint
  <2> QED
    BY <2>1, <2>2
<1> HIDE DEF f
<1> QED
  BY <1>2, <1>3, SweepEffect

\* What any step of the queue does to its rows.
LEMMA NextStep ==
  ASSUME IndInv, [Next]_jobs
  PROVE  TableStep
<1>1. CASE UNCHANGED jobs
  BY <1>1 DEF TableStep, RowStep, Ids
<1>2. CASE ClientStep
  BY <1>2, SubmitEffect, ControlEffect DEF ClientStep, Effect
<1>3. CASE WorkerStep
  BY <1>3, ClaimEffect, HeartbeatEffect, SaveEffect, CompleteEffect, FailEffect,
     AcknowledgePausedEffect, AcknowledgeCancelledEffect, RecoverEffect
     DEF WorkerStep, Effect
<1>4. CASE Tick
  BY <1>4, TickEffect DEF Effect
<1> QED
  BY <1>1, <1>2, <1>3, <1>4 DEF Next

-----------------------------------------------------------------------------
(* The properties of steps, and the lifecycle.                             *)

LEMMA RowsOfTable ==
  ASSUME NEW table \in Seq(Row), NEW j \in DOMAIN table
  PROVE  table[j] \in Row /\ table[j].status \in Statuses
<1>1. table[j] \in Row
  BY LenProperties, ElementOfSeq
<1> QED
  BY <1>1 DEF Row

LEMMA NewRow ==
  ASSUME TableStep, NEW j \in Ids' \ Ids
  PROVE  /\ jobs'[j].status = "queued" /\ jobs'[j].audit = Event("none", "queued")
         /\ jobs'[j].checkpoint = 0
<1>1. PICK s \in Submissions : jobs'[j] = QueuedRow(s)
  BY DEF TableStep
<1> QED
  BY <1>1 DEF QueuedRow

\* The last event of a row tells its status.
AuditInv == \A j \in Ids : jobs[j].audit.to = jobs[j].status

LEMMA AuditStep ==
  ASSUME IndInv, AuditInv, [Next]_jobs
  PROVE  \A j \in Ids' :
           LET from == IF j \in Ids THEN jobs[j].status ELSE "none"
           IN /\ jobs'[j].status # from => jobs'[j].audit = Event(from, jobs'[j].status)
              /\ jobs'[j].audit.to = jobs'[j].status
<1>1. TableStep
  BY NextStep
<1>2. ASSUME NEW j \in Ids
      PROVE  /\ jobs'[j].status # jobs[j].status =>
                  jobs'[j].audit = Event(jobs[j].status, jobs'[j].status)
             /\ jobs'[j].audit.to = jobs'[j].status
  <2>1. jobs[j].audit.to = jobs[j].status /\ RowStep(jobs[j], jobs'[j])
    BY <1>1 DEF AuditInv, TableStep
  <2> QED
    BY <2>1 DEF RowStep, RunsOn, Transits, Event
<1>3. ASSUME NEW j \in Ids' \ Ids
      PROVE  jobs'[j].status = "queued" /\ jobs'[j].audit = Event("none", "queued")
  BY <1>1, <1>3, NewRow
<1> QED
  BY <1>2, <1>3 DEF Event

\* Every transition and its event are written together, and the last event of a
\* row always tells its status (the transactions of sqlite-job-queue.ts).
THEOREM AuditCorrect == Spec => AuditTellsEveryTransition
<1>1. Init => AuditInv
  BY EmptySeq DEF Init, AuditInv, Ids
<1>2. IndInv /\ AuditInv /\ [Next]_jobs => AuditInv'
  BY AuditStep DEF AuditInv
<1>3. IndInv /\ AuditInv /\ [Next]_jobs =>
        [\A j \in DOMAIN jobs' :
           LET from == IF j \in Ids THEN jobs[j].status ELSE "none"
           IN /\ jobs'[j].status # from => jobs'[j].audit = Event(from, jobs'[j].status)
              /\ jobs'[j].audit.to = jobs'[j].status]_jobs
  BY AuditStep DEF Ids
<1> QED
  BY <1>1, <1>2, <1>3, Inductive, PTL DEF Spec, AuditTellsEveryTransition

\* While a lease has time left, no other attempt starts, and the job stops
\* running only by what the holder of the lease reported.
THEOREM LeaseExclusive == Spec => LeaseIsExclusive
<1>1. ASSUME IndInv, [Next]_jobs, NEW j \in Ids, jobs[j].ttl > 0
      PROVE  \/ jobs'[j].status = "running" /\ jobs'[j].lease = jobs[j].lease
             \/ /\ jobs'[j].status # "running"
                /\ jobs'[j].attempts[jobs[j].lease] \in
                     {"completed", "failed", "paused", "cancelled"}
  <2>1. RowStep(jobs[j], jobs'[j])
    BY <1>1, NextStep DEF TableStep
  <2>2. jobs[j].status = "running"
    BY <1>1 DEF IndInv, RowInv
  <2> QED
    BY <1>1, <2>1, <2>2, AllowedTransitions DEF RowStep, RunsOn, Transits, Reports
<1>2. IndInv /\ [Next]_jobs =>
        [\A j \in Ids : jobs[j].ttl > 0 =>
           \/ jobs'[j].status = "running" /\ jobs'[j].lease = jobs[j].lease
           \/ /\ jobs'[j].status # "running"
              /\ jobs'[j].attempts[jobs[j].lease] \in
                   {"completed", "failed", "paused", "cancelled"}]_jobs
  BY <1>1
<1> QED
  BY <1>2, Inductive, PTL DEF Spec, LeaseIsExclusive

\* The status that the lifecycle sees.
StatusOf == [j \in 1 .. MaxJobs |-> IF j \in Ids THEN jobs[j].status ELSE "absent"]

\* The queue implements the lifecycle: whatever workers and clients do, the status
\* of every job takes only steps of the transition table of lifecycle.ts.
THEOREM LifecycleFollowed == Spec => FollowsLifecycle
<1>1. Init => Lifecycle!Init
  BY EmptySeq DEF Init, Lifecycle!Init, Ids
<1>2. ASSUME IndInv, IndInv', [Next]_jobs
      PROVE  Lifecycle!Next
  <2>1. TableStep
    BY <1>2, NextStep
  <2>2. StatusOf' \in [1 .. MaxJobs -> Statuses \cup {"absent"}]
    <3>1. \A j \in Ids' : jobs'[j].status \in Statuses
      BY <1>2, RowsOfTable DEF IndInv, TypeOK, Ids
    <3> QED
      BY <3>1 DEF StatusOf
  <2>3. ASSUME NEW j \in 1 .. MaxJobs
        PROVE  Lifecycle!Moves(j)
    <3>1. CASE j \in Ids
      <4>1. j \in Ids' /\ RowStep(jobs[j], jobs'[j])
        BY <2>1, <3>1 DEF TableStep
      <4>2. \/ jobs'[j].status = jobs[j].status
            \/ jobs'[j].status \in Lifecycle!ALLOWED_TRANSITIONS[jobs[j].status]
        BY <4>1 DEF RowStep, RunsOn, Transits
      <4>3. jobs[j].status # "absent"
        BY <1>2, <3>1, RowsOfTable DEF IndInv, TypeOK, Ids, Statuses
      <4> QED
        BY <3>1, <4>1, <4>2, <4>3 DEF Lifecycle!Moves, Lifecycle!canTransitionJob
    <3>2. CASE j \notin Ids /\ j \in Ids'
      <4>1. jobs'[j].status = "queued"
        BY <2>1, <3>2, NewRow
      <4> QED
        BY <3>2, <4>1 DEF Lifecycle!Moves
    <3>3. CASE j \notin Ids /\ j \notin Ids'
      BY <3>3 DEF Lifecycle!Moves
    <3> QED
      BY <3>1, <3>2, <3>3
  <2> QED
    BY <2>2, <2>3 DEF Lifecycle!Next, Lifecycle!Statuses, StatusOf, Statuses
<1> QED
  BY <1>1, <1>2, Inductive, PTL DEF Spec, FollowsLifecycle, Lifecycle!Spec

-----------------------------------------------------------------------------
(* Workers, whatever their handlers do.                                    *)

Linked(x) == x.pc \notin {"down", "recover", "claim"}

LinkOK(x) == Linked(x) => x.job \in Ids /\ x.attempt \in DOMAIN jobs[x.job].attempts

Bounded == Ids \subseteq 1 .. MaxJobs

LinkInv ==
  /\ Bounded
  /\ \A w \in Workers : LinkOK(workers[w])
  /\ \A v, w \in Workers :
       v # w /\ Linked(workers[v]) /\ Linked(workers[w]) /\ workers[v].job = workers[w].job
         => workers[v].attempt # workers[w].attempt

Holds(x) == HoldsLease(jobs[x.job], x.attempt)

-----------------------------------------------------------------------------
(* Leases.                                                                 *)

\* The attempts of a row are never fewer.
LEMMA AttemptsStay ==
  ASSUME IndInv, IndInv', TableStep, NEW j \in Ids
  PROVE  j \in Ids' /\ DOMAIN jobs[j].attempts \subseteq DOMAIN jobs'[j].attempts
<1>1. j \in Ids' /\ RowStep(jobs[j], jobs'[j])
  BY DEF TableStep
<1>2. jobs[j] \in Row /\ jobs'[j] \in Row
  BY <1>1, RowsOfTable DEF IndInv, TypeOK, Ids
<1>3. jobs[j].attempts \in Seq(Outcomes) /\ jobs'[j].attempts \in Seq(Outcomes)
  BY <1>2 DEF Row
<1>4. Len(jobs'[j].attempts) >= Len(jobs[j].attempts)
  BY <1>1, <1>3, LenProperties DEF RowStep, RunsOn, Transits
<1> QED
  BY <1>1, <1>3, <1>4, LenProperties

\* An attempt that holds the lease after a step held it before, and its row only
\* kept running: a lease that was lost does not come back.
LEMMA HeldBefore ==
  ASSUME IndInv, TableStep, NEW j \in Ids, NEW n \in DOMAIN jobs[j].attempts,
         HoldsLease(jobs'[j], n)
  PROVE  /\ HoldsLease(jobs[j], n)
         /\ jobs'[j] = jobs[j] \/ RunsOn(jobs[j], jobs'[j])
<1>1. jobs[j] \in Row /\ RowStep(jobs[j], jobs'[j])
  BY RowsOfTable DEF IndInv, TypeOK, Ids, TableStep
<1>2. jobs[j].attempts \in Seq(Outcomes) /\ jobs[j].ttl \in Nat
  BY <1>1 DEF Row
<1>3. n <= Len(jobs[j].attempts) /\ n \in Nat /\ Len(jobs[j].attempts) \in Nat
  BY <1>2, LenProperties
<1>4. ~Transits(jobs[j], jobs'[j])
  BY <1>3 DEF Transits, HoldsLease
<1> QED
  BY <1>1, <1>2, <1>4 DEF RowStep, RunsOn, HoldsLease

-----------------------------------------------------------------------------
(* The link of each worker to the table.                                   *)

LEMMA BoundedStep == Bounded /\ TableStep => Bounded'
BY DEF Bounded, TableStep

\* The table changes and no worker does.
LEMMA LinkTable ==
  ASSUME IndInv, IndInv', TableStep, LinkInv, UNCHANGED workers
  PROVE  LinkInv'
<1>1. ASSUME NEW w \in Workers PROVE LinkOK(workers[w])'
  BY AttemptsStay DEF LinkInv, LinkOK, Linked
<1> QED
  BY <1>1, BoundedStep DEF LinkInv, Linked

\* The claimed attempt is a new one, the last of its row.
ClaimedNow(x) ==
  /\ x.job \in Ids
  /\ x.attempt = Len(jobs[x.job].attempts) + 1
  /\ jobs'[x.job].attempts = Append(jobs[x.job].attempts, "open")

\* One worker changes: it lets go of its job, stays with it, or has claimed one.
LEMMA LinkStep ==
  ASSUME IndInv, IndInv', TableStep, LinkInv, NEW w \in Workers,
         \A v \in Workers \ {w} : workers'[v] = workers[v],
         \/ ~Linked(workers'[w])
         \/ /\ Linked(workers[w]) /\ workers'[w].job = workers[w].job
            /\ workers'[w].attempt = workers[w].attempt
         \/ ClaimedNow(workers'[w])
  PROVE  LinkInv'
<1> DEFINE x == workers[w]
           y == workers'[w]
<1>1. ASSUME NEW v \in Workers \ {w} PROVE LinkOK(workers[v])'
  BY <1>1, AttemptsStay DEF LinkInv, LinkOK, Linked
<1>2. ASSUME NEW v \in Workers, Linked(workers[v])
      PROVE  workers[v].job \in Ids /\ workers[v].attempt \in 1 .. Len(jobs[workers[v].job].attempts)
  <2>1. workers[v].job \in Ids /\ workers[v].attempt \in DOMAIN jobs[workers[v].job].attempts
    BY <1>2 DEF LinkInv, LinkOK
  <2>2. jobs[workers[v].job] \in Row
    BY <2>1, RowsOfTable DEF IndInv, TypeOK, Ids
  <2> QED
    BY <2>1, <2>2, LenProperties DEF Row
<1>3. CASE ~Linked(y)
  <2>1. LinkOK(workers[w])'
    BY <1>3 DEF LinkOK, Linked
  <2>2. ASSUME NEW u \in Workers, NEW v \in Workers, u # v,
               Linked(workers'[u]), Linked(workers'[v]), workers'[u].job = workers'[v].job
        PROVE  workers'[u].attempt # workers'[v].attempt
    <3>1. u # w /\ v # w
      BY <1>3, <2>2
    <3> QED
      BY <2>2, <3>1 DEF LinkInv
  <2> QED
    BY <1>1, <2>1, <2>2, BoundedStep DEF LinkInv, Linked
<1>4. CASE /\ Linked(x) /\ y.job = x.job /\ y.attempt = x.attempt
  <2>1. LinkOK(workers[w])'
    BY <1>4, AttemptsStay DEF LinkInv, LinkOK
  <2>2. ASSUME NEW u \in Workers, NEW v \in Workers, u # v,
               Linked(workers'[u]), Linked(workers'[v]), workers'[u].job = workers'[v].job
        PROVE  workers'[u].attempt # workers'[v].attempt
    <3>1. /\ Linked(workers[u]) /\ workers'[u].job = workers[u].job
          /\ workers'[u].attempt = workers[u].attempt
      BY <1>4, <2>2
    <3>2. /\ Linked(workers[v]) /\ workers'[v].job = workers[v].job
          /\ workers'[v].attempt = workers[v].attempt
      BY <1>4, <2>2
    <3> QED
      BY <2>2, <3>1, <3>2 DEF LinkInv
  <2> QED
    BY <1>1, <2>1, <2>2, BoundedStep DEF LinkInv, Linked
<1>5. CASE ClaimedNow(y)
  <2>1. jobs[y.job] \in Row /\ y.job \in Ids'
    BY <1>5, RowsOfTable DEF IndInv, TypeOK, Ids, ClaimedNow, TableStep
  <2>2. jobs[y.job].attempts \in Seq(Outcomes)
    BY <2>1 DEF Row
  <2>3. y.attempt \in DOMAIN jobs'[y.job].attempts /\ Len(jobs[y.job].attempts) \in Nat
    <3>1. "open" \in Outcomes
      BY DEF Outcomes
    <3>2. /\ Len(jobs[y.job].attempts) \in Nat
          /\ jobs'[y.job].attempts \in Seq(Outcomes)
          /\ Len(jobs'[y.job].attempts) = Len(jobs[y.job].attempts) + 1
      BY <1>5, <2>2, <3>1, AppendProperties, LenProperties DEF ClaimedNow
    <3> QED
      BY <1>5, <3>2, LenProperties DEF ClaimedNow
  <2>4. LinkOK(workers[w])'
    BY <2>1, <2>3 DEF LinkOK
  <2>5. ASSUME NEW v \in Workers \ {w}, Linked(workers[v]), workers[v].job = y.job
        PROVE  workers[v].attempt # y.attempt
    BY <1>2, <1>5, <2>3, <2>5 DEF ClaimedNow
  <2>6. ASSUME NEW u \in Workers, NEW v \in Workers, u # v,
               Linked(workers'[u]), Linked(workers'[v]), workers'[u].job = workers'[v].job
        PROVE  workers'[u].attempt # workers'[v].attempt
    <3>1. CASE u = w
      BY <2>5, <2>6, <3>1
    <3>2. CASE v = w
      BY <2>5, <2>6, <3>2
    <3>3. CASE u # w /\ v # w
      BY <2>6, <3>3 DEF LinkInv
    <3> QED
      BY <3>1, <3>2, <3>3
  <2> QED
    BY <1>1, <2>4, <2>6, BoundedStep DEF LinkInv, Linked
<1> QED
  BY <1>3, <1>4, <1>5

-----------------------------------------------------------------------------
(* The steps of a worker.                                                  *)

\* The worker lets go of its job, stays with it, or has claimed one.
Follows(x, y) ==
  \/ ~Linked(y)
  \/ Linked(x) /\ y.job = x.job /\ y.attempt = x.attempt
  \/ ClaimedNow(y)

\* What a step of one worker may do: a step of the queue, under the lease of the
\* worker once it has one.
Acts(w, done, saved) ==
  /\ \A v \in Workers \ {w} : workers'[v] = workers[v]
  /\ [Next]_jobs /\ Effect(done, saved)
  /\ Follows(workers[w], workers'[w])
  /\ Linked(workers[w]) /\ jobs' # jobs => Holds(workers[w])

\* Where a handler has nothing to rely on.
Resting == {"down", "recover", "claim", "load", "fail"}

\* The handler has returned and controlSignal has said how to report that.
Answers(x, y) ==
  /\ x.pc = "finish" /\ y.pc \in {"complete", "ackPause", "ackCancel"}
  /\ y = [x EXCEPT !.pc = y.pc]
  /\ UNCHANGED jobs /\ Holds(x)
  /\ y.pc = "ackPause" => jobs[x.job].pause
  /\ y.pc = "ackCancel" => jobs[x.job].cancel

\* The holder of a lease presents the last attempt of its row.
LEMMA HeldAttempt ==
  ASSUME IndInv, NEW j \in Ids, NEW n, HoldsLease(jobs[j], n)
  PROVE  n \in DOMAIN jobs[j].attempts
<1>1. jobs[j] \in Row /\ RowInv(jobs[j]) /\ jobs[j].status = "running"
      /\ n = Len(jobs[j].attempts)
  BY HeldRow
<1>2. jobs[j].attempts \in Seq(Outcomes) /\ jobs[j].attempts # <<>>
  BY <1>1 DEF Row, RowInv
<1> QED
  BY <1>1, <1>2, LenProperties, EmptySeq

\* Nothing happens to the table.
LEMMA QuietEffect == UNCHANGED jobs => Effect({}, {})
BY DEF Effect, TableStep, RowStep, KeepsCheckpoint, Ids

LEMMA QuietActs ==
  ASSUME NEW w \in Workers, UNCHANGED jobs,
         \A v \in Workers \ {w} : workers'[v] = workers[v],
         \/ ~Linked(workers'[w])
         \/ /\ Linked(workers[w])
            /\ workers'[w].job = workers[w].job /\ workers'[w].attempt = workers[w].attempt
  PROVE  Acts(w, {}, {})
BY QuietEffect DEF Acts, Follows

\* A step keeps the links, and the invariant of the table.
LEMMA ActsInv ==
  ASSUME IndInv, LinkInv, NEW w \in Workers, NEW done, NEW saved, Acts(w, done, saved)
  PROVE  IndInv' /\ LinkInv'
<1>1. IndInv' /\ TableStep
  BY IndInvNext DEF Acts, Effect
<1>2. \A v \in Workers \ {w} : workers'[v] = workers[v]
  BY DEF Acts
<1> QED
  BY <1>1, <1>2, LinkStep DEF Acts, Follows

\* What is kept of an attempt that does not save: while it holds the lease its
\* checkpoint is the one it had, and requests to it stay.
LEMMA HeldKeeps ==
  ASSUME IndInv, NEW done, NEW saved, Effect(done, saved),
         NEW j \in Ids \ saved, NEW n \in DOMAIN jobs[j].attempts, HoldsLease(jobs'[j], n)
  PROVE  /\ HoldsLease(jobs[j], n)
         /\ jobs'[j].checkpoint = jobs[j].checkpoint
         /\ jobs'[j].sub = jobs[j].sub
         /\ jobs[j].pause => jobs'[j].pause
         /\ jobs[j].cancel => jobs'[j].cancel
<1>1. HoldsLease(jobs[j], n) /\ (jobs'[j] = jobs[j] \/ RunsOn(jobs[j], jobs'[j]))
  BY HeldBefore DEF Effect
<1>2. KeepsCheckpoint(jobs[j], jobs'[j]) /\ RowStep(jobs[j], jobs'[j])
  BY DEF Effect, TableStep
<1>3. jobs[j].status = "running" /\ jobs'[j].status = "running"
  BY <1>1 DEF HoldsLease
<1> QED
  BY <1>1, <1>2, <1>3 DEF KeepsCheckpoint, RunsOn, RowStep, Transits, HoldsLease

\* What is kept of any attempt but that of the worker that acts.
LEMMA OthersKeep ==
  ASSUME IndInv, LinkInv, NEW v \in Workers, NEW w \in Workers \ {v}, NEW done, NEW saved,
         Acts(v, done, saved), saved \subseteq {workers[v].job},
         saved # {} => Linked(workers[v]),
         Linked(workers[w]), Holds(workers[w])'
  PROVE  LET j == workers[w].job
         IN /\ Holds(workers[w])
            /\ jobs'[j].checkpoint = jobs[j].checkpoint
            /\ jobs'[j].sub = jobs[j].sub
            /\ jobs[j].pause => jobs'[j].pause
            /\ jobs[j].cancel => jobs'[j].cancel
<1> DEFINE x == workers[w]
           j == x.job
<1>1. workers'[w] = x /\ j \in Ids /\ x.attempt \in DOMAIN jobs[j].attempts
  BY DEF Acts, LinkInv, LinkOK
<1>2. HoldsLease(jobs'[j], x.attempt) /\ Effect(done, saved)
  BY <1>1 DEF Holds, Acts
<1>3. CASE j \notin saved
  BY <1>1, <1>2, <1>3, HeldKeeps DEF Holds
<1>4. CASE j \in saved
  <2>1. Linked(workers[v]) /\ workers[v].job = j /\ workers[v].attempt # x.attempt
    BY <1>4 DEF LinkInv
  <2>2. Holds(x)
    BY <1>1, <1>2, HeldBefore DEF Effect, Holds
  <2>3. ~Holds(workers[v])
    BY <2>1, <2>2 DEF Holds, HoldsLease
  <2>4. jobs' = jobs
    BY <2>1, <2>3 DEF Acts
  <2> QED
    BY <2>2, <2>4
<1> QED
  BY <1>3, <1>4

-----------------------------------------------------------------------------
(* The process, action by action.                                          *)

\* A worker that has finished completes its job, one that has been asked to pause
\* saves its last checkpoint; no other step of the process does either.
ProcessActs(w) ==
  LET x == workers[w]
      y == workers'[w]
  IN /\ Acts(w, IF x.pc = "complete" THEN {x.job} ELSE {},
                IF x.pc = "ackPause" THEN {x.job} ELSE {})
     /\ x.pc = "ackPause" /\ jobs' # jobs => jobs'[x.job].checkpoint = x.saved
     /\ x.pc \in Points
     /\ y.pc \in Resting \/ Answers(x, y)

\* A call to the queue by the holder of a lease is a step of the queue.
LEMMA CallIsNext ==
  ASSUME IndInv, NEW j \in Ids, NEW n, HoldsLease(jobs[j], n),
         \/ Heartbeat(j, n)
         \/ \E c \in Checkpoints : SaveCheckpoint(j, n, c)
         \/ Complete(j, n)
         \/ \E retryable \in BOOLEAN : Fail(j, n, retryable)
         \/ \E c \in Checkpoints : AcknowledgePaused(j, n, c)
         \/ AcknowledgeCancelled(j, n)
  PROVE  Next
<1>1. n \in DOMAIN jobs[j].attempts
  BY HeldAttempt
<1> QED
  BY <1>1 DEF Next, WorkerStep

LEMMA RecoverActs ==
  ASSUME NEW points, NEW locals, workers \in [Workers -> Worker(points, locals)],
         IndInv, NEW w \in Workers, Recover(w)
  PROVE  workers' \in [Workers -> Worker(points, locals)] /\ ProcessActs(w)
<1> DEFINE x == workers[w]
           y == workers'[w]
<1>1. /\ x.pc = "recover" /\ y = [x EXCEPT !.pc = "claim"]
      /\ \A v \in Workers \ {w} : workers'[v] = workers[v]
      /\ workers' \in [Workers -> Worker(points, locals)]
  BY DEF Recover, At, Goto, Worker, Points
<1>2. y.pc = "claim"
  BY <1>1 DEF Worker
<1>3. [Next]_jobs /\ Effect({}, {})
  BY RecoverEffect, QuietEffect DEF Recover, Next, WorkerStep
<1> QED
  BY <1>1, <1>2, <1>3 DEF ProcessActs, Acts, Follows, Linked, Resting, Points

\* A worker without a job, and one that has just claimed a job.
LEMMA FreshType ==
  ASSUME NEW points, NEW locals, NoLocal \in locals, NEW point \in Points \cup points,
         NEW job \in 0 .. MaxJobs, NEW attempt \in Nat
  PROVE  /\ Fresh(point, job, attempt) \in Worker(points, locals)
         /\ Fresh(point, job, attempt).pc = point
         /\ Fresh(point, job, attempt).job = job
         /\ Fresh(point, job, attempt).attempt = attempt
BY BoundsAssumption DEF Fresh, Worker, Checkpoints

LEMMA IdleType ==
  ASSUME NEW points, NEW locals, NoLocal \in locals, NEW point \in Points
  PROVE  Idle(point) \in Worker(points, locals) /\ Idle(point).pc = point
BY FreshType, BoundsAssumption DEF Idle

LEMMA ClaimActs ==
  ASSUME NEW points, NEW locals, NoLocal \in locals,
         workers \in [Workers -> Worker(points, locals)],
         IndInv, Bounded, NEW w \in Workers, Claim(w)
  PROVE  workers' \in [Workers -> Worker(points, locals)] /\ ProcessActs(w)
<1> DEFINE x == workers[w]
           y == workers'[w]
<1>1. x.pc = "claim" /\ x \in Worker(points, locals)
  BY DEF Claim, At
<1>2. ASSUME NEW j \in Ids, ClaimNext(j, Supports[w]), Become(w, Leased(j))
      PROVE  workers' \in [Workers -> Worker(points, locals)] /\ ProcessActs(w)
  <2>1. Len(jobs[j].attempts) \in Nat /\ j \in 0 .. MaxJobs
    BY RowsOfTable, LenProperties, BoundsAssumption DEF IndInv, TypeOK, Ids, Row, Bounded
  <2>2. Effect({}, {}) /\ jobs'[j].attempts = Append(jobs[j].attempts, "open")
    BY <1>2, ClaimEffect
  <2>3. Next
    BY <1>2, WorkersAssumption DEF Next, WorkerStep
  <2>4. y = Leased(j) /\ \A v \in Workers \ {w} : workers'[v] = workers[v]
    BY <1>2 DEF Become
  <2>5. /\ Leased(j) \in Worker(points, locals) /\ Leased(j).pc = "load"
        /\ Leased(j).job = j /\ Leased(j).attempt = Len(jobs[j].attempts) + 1
    BY <2>1, FreshType DEF Leased, Points
  <2>6. workers' \in [Workers -> Worker(points, locals)]
    BY <1>2, <2>5 DEF Become
  <2>7. ClaimedNow(y)
    BY <2>2, <2>4, <2>5 DEF ClaimedNow
  <2> QED
    BY <1>1, <2>2, <2>3, <2>4, <2>5, <2>6, <2>7
       DEF ProcessActs, Acts, Follows, Linked, Resting, Points
<1>3. ASSUME Goto(w, "recover"), UNCHANGED jobs
      PROVE  workers' \in [Workers -> Worker(points, locals)] /\ ProcessActs(w)
  <2>1. /\ y = [x EXCEPT !.pc = "recover"]
        /\ \A v \in Workers \ {w} : workers'[v] = workers[v]
        /\ workers' \in [Workers -> Worker(points, locals)]
    BY <1>1, <1>3 DEF Goto, Worker, Points
  <2>2. y.pc = "recover"
    BY <1>1, <2>1 DEF Worker
  <2> QED
    BY <1>1, <1>3, <2>1, <2>2, QuietEffect
       DEF ProcessActs, Acts, Follows, Linked, Resting, Points
<1> QED
  BY <1>2, <1>3 DEF Claim

\* The ways of writing the local variables of a worker.
LEMMA BecomeWorker ==
  ASSUME NEW points, NEW locals, workers \in [Workers -> Worker(points, locals)],
         NEW w \in Workers, NEW y \in Worker(points, locals), Become(w, y)
  PROVE  /\ workers' \in [Workers -> Worker(points, locals)]
         /\ workers'[w] = y
         /\ \A v \in Workers \ {w} : workers'[v] = workers[v]
BY DEF Become

LEMMA GotoPoint ==
  ASSUME NEW points, NEW locals, workers \in [Workers -> Worker(points, locals)],
         NEW w \in Workers, NEW point \in Points \cup points, Goto(w, point)
  PROVE  LET x == workers[w]
             y == workers'[w]
         IN /\ workers' \in [Workers -> Worker(points, locals)]
            /\ y = [x EXCEPT !.pc = point] /\ y.pc = point
            /\ y.job = x.job /\ y.attempt = x.attempt /\ y.saved = x.saved
            /\ y.local = x.local
            /\ \A v \in Workers \ {w} : workers'[v] = workers[v]
<1>1. workers[w] \in Worker(points, locals)
  OBVIOUS
<1>2. /\ workers'[w] = [workers[w] EXCEPT !.pc = point]
      /\ \A v \in Workers \ {w} : workers'[v] = workers[v]
      /\ DOMAIN workers' = Workers
      /\ workers' = [workers EXCEPT ![w] = [workers[w] EXCEPT !.pc = point]]
  BY DEF Goto
<1>3. [workers[w] EXCEPT !.pc = point] \in Worker(points, locals)
  BY <1>1 DEF Worker
<1> QED
  BY <1>1, <1>2, <1>3 DEF Worker

LEMMA ThrowPoint ==
  ASSUME NEW points, NEW locals, NoLocal \in locals,
         workers \in [Workers -> Worker(points, locals)],
         NEW w \in Workers, NEW retryable \in BOOLEAN, Throw(w, retryable)
  PROVE  LET x == workers[w]
             y == workers'[w]
         IN /\ workers' \in [Workers -> Worker(points, locals)]
            /\ y.pc = "fail" /\ y.job = x.job /\ y.attempt = x.attempt
            /\ \A v \in Workers \ {w} : workers'[v] = workers[v]
<1> DEFINE x == workers[w]
           y == [x EXCEPT !.pc = "fail", !.retry = retryable, !.local = NoLocal]
<1>1. x \in Worker(points, locals)
  OBVIOUS
<1>2. /\ y \in Worker(points, locals)
      /\ y.pc = "fail" /\ y.job = x.job /\ y.attempt = x.attempt
  BY <1>1 DEF Worker, Points
<1>3. workers' = [workers EXCEPT ![w] = y]
  BY DEF Throw
<1> HIDE DEF y
<1> QED
  BY <1>2, <1>3

\* What throwIfControlRequested leads to.
LEMMA ControlActs ==
  ASSUME NEW points, NEW locals, NoLocal \in locals,
         workers \in [Workers -> Worker(points, locals)],
         NEW w \in Workers, Linked(workers[w]), NEW point \in Points \cup points,
         ThrowIfControlRequested(w, point)
  PROVE  LET x == workers[w]
             y == workers'[w]
         IN /\ workers' \in [Workers -> Worker(points, locals)]
            /\ UNCHANGED jobs
            /\ \A v \in Workers \ {w} : workers'[v] = workers[v]
            /\ y.job = x.job /\ y.attempt = x.attempt
            /\ y.pc # "fail" =>
                 /\ Holds(x) /\ y = [x EXCEPT !.pc = y.pc]
                 /\ y.pc \in {point, "ackPause", "ackCancel"}
                 /\ y.pc = point \/ y.pc = "ackPause" \/ jobs[x.job].cancel
                 /\ y.pc = point \/ y.pc = "ackCancel" \/ jobs[x.job].pause
<1> DEFINE x == workers[w]
           signal == controlSignal(w)
<1>1. UNCHANGED jobs
  BY DEF ThrowIfControlRequested
<1>2. CASE signal = "stale"
  <2>1. Throw(w, TRUE)
    BY <1>2 DEF ThrowIfControlRequested
  <2> QED
    BY <1>1, <2>1, ThrowPoint
<1>3. CASE signal # "stale"
  <2>1. Holds(x)
    BY <1>3 DEF controlSignal, LeaseLost, Holds, Job, Attempt
  <2>2. ASSUME NEW p \in {point, "ackPause", "ackCancel"}, Goto(w, p)
        PROVE  /\ workers' \in [Workers -> Worker(points, locals)]
               /\ \A v \in Workers \ {w} : workers'[v] = workers[v]
               /\ workers'[w] = [x EXCEPT !.pc = p] /\ workers'[w].pc = p
               /\ workers'[w].job = x.job /\ workers'[w].attempt = x.attempt
    <3>1. p \in Points \cup points
      BY DEF Points
    <3> QED
      BY <2>2, <3>1, GotoPoint
  <2>3. CASE signal = "cancel"
    <3>1. Goto(w, "ackCancel") /\ jobs[x.job].cancel
      BY <2>1, <2>3 DEF ThrowIfControlRequested, controlSignal, LeaseLost, Holds, Job, Attempt
    <3> QED
      BY <1>1, <2>1, <2>2, <3>1
  <2>4. CASE signal = "pause"
    <3>1. Goto(w, "ackPause") /\ jobs[x.job].pause
      BY <2>1, <2>4 DEF ThrowIfControlRequested, controlSignal, LeaseLost, Holds, Job, Attempt
    <3> QED
      BY <1>1, <2>1, <2>2, <3>1
  <2>5. CASE signal \notin {"cancel", "pause"}
    <3>1. Goto(w, point)
      BY <1>3, <2>5 DEF ThrowIfControlRequested
    <3> QED
      BY <1>1, <2>1, <2>2, <3>1
  <2> QED
    BY <2>3, <2>4, <2>5
<1> QED
  BY <1>2, <1>3

\* The handler has returned.
LEMMA FinishActs ==
  ASSUME NEW points, NEW locals, NoLocal \in locals,
         workers \in [Workers -> Worker(points, locals)],
         NEW w \in Workers, Finish(w)
  PROVE  workers' \in [Workers -> Worker(points, locals)] /\ ProcessActs(w)
<1> DEFINE x == workers[w]
           y == workers'[w]
<1>1. /\ x.pc = "finish" /\ ThrowIfControlRequested(w, "complete")
      /\ Linked(x) /\ "complete" \in Points \cup points
  BY DEF Finish, At, Linked, Points
<1>2. /\ workers' \in [Workers -> Worker(points, locals)]
      /\ UNCHANGED jobs
      /\ \A v \in Workers \ {w} : workers'[v] = workers[v]
      /\ y.job = x.job /\ y.attempt = x.attempt
      /\ y.pc # "fail" =>
           /\ Holds(x) /\ y = [x EXCEPT !.pc = y.pc]
           /\ y.pc \in {"complete", "ackPause", "ackCancel"}
           /\ y.pc = "complete" \/ y.pc = "ackPause" \/ jobs[x.job].cancel
           /\ y.pc = "complete" \/ y.pc = "ackCancel" \/ jobs[x.job].pause
  BY <1>1, ControlActs
<1>3. y.pc \in Resting \/ Answers(x, y)
  BY <1>1, <1>2 DEF Resting, Answers
<1>4. Acts(w, {}, {})
  BY <1>1, <1>2, QuietActs
<1> QED
  BY <1>1, <1>2, <1>3, <1>4 DEF ProcessActs, Points

\* The end of a job under its lease.
LEMMA EndActs ==
  ASSUME NEW points, NEW locals, NoLocal \in locals,
         workers \in [Workers -> Worker(points, locals)],
         NEW w \in Workers, Linked(workers[w]),
         NEW point \in {"down", "recover"}, Become(w, Idle(point)),
         NEW done, NEW saved, Effect(done, saved),
         UNCHANGED jobs \/ (Next /\ Holds(workers[w]))
  PROVE  /\ workers' \in [Workers -> Worker(points, locals)]
         /\ workers'[w].pc \in Resting
         /\ Acts(w, done, saved)
<1>1. Idle(point) \in Worker(points, locals) /\ Idle(point).pc = point
  BY IdleType DEF Points
<1>2. /\ workers' \in [Workers -> Worker(points, locals)]
      /\ workers'[w].pc = point
      /\ \A v \in Workers \ {w} : workers'[v] = workers[v]
  BY <1>1, BecomeWorker
<1> QED
  BY <1>2 DEF Acts, Follows, Linked, Resting

LEMMA CompleteJobActs ==
  ASSUME NEW points, NEW locals, NoLocal \in locals,
         workers \in [Workers -> Worker(points, locals)],
         IndInv, LinkInv, NEW w \in Workers, CompleteJob(w)
  PROVE  workers' \in [Workers -> Worker(points, locals)] /\ ProcessActs(w)
<1> DEFINE x == workers[w]
<1>1. x.pc = "complete" /\ Linked(x) /\ x.job \in Ids
  BY DEF CompleteJob, At, LinkInv, LinkOK, Linked
<1>2. ASSUME Complete(x.job, x.attempt), Become(w, Idle("recover"))
      PROVE  workers' \in [Workers -> Worker(points, locals)] /\ ProcessActs(w)
  <2>1. Effect({x.job}, {}) /\ Holds(x)
    BY <1>1, <1>2, CompleteEffect DEF Complete, Holds
  <2>2. Next
    BY <1>1, <1>2, <2>1, CallIsNext DEF Holds
  <2>3. /\ workers' \in [Workers -> Worker(points, locals)]
        /\ workers'[w].pc \in Resting
        /\ Acts(w, {x.job}, {})
    BY <1>1, <1>2, <2>1, <2>2, EndActs
  <2> QED
    BY <1>1, <2>3 DEF ProcessActs, Points
<1>3. ASSUME Throw(w, TRUE), UNCHANGED jobs
      PROVE  workers' \in [Workers -> Worker(points, locals)] /\ ProcessActs(w)
  <2>1. /\ workers' \in [Workers -> Worker(points, locals)]
        /\ workers'[w].pc = "fail" /\ workers'[w].job = x.job
        /\ workers'[w].attempt = x.attempt
        /\ \A v \in Workers \ {w} : workers'[v] = workers[v]
    BY <1>3, ThrowPoint
  <2>2. Effect({x.job}, {})
    BY <1>3, QuietEffect DEF Effect
  <2> QED
    BY <1>1, <1>3, <2>1, <2>2 DEF ProcessActs, Acts, Follows, Resting, Points
<1> QED
  BY <1>2, <1>3 DEF CompleteJob, Job, Attempt

LEMMA FailJobActs ==
  ASSUME NEW points, NEW locals, NoLocal \in locals,
         workers \in [Workers -> Worker(points, locals)],
         IndInv, LinkInv, NEW w \in Workers, FailJob(w)
  PROVE  workers' \in [Workers -> Worker(points, locals)] /\ ProcessActs(w)
<1> DEFINE x == workers[w]
<1>1. /\ x.pc = "fail" /\ Linked(x) /\ x.job \in Ids /\ x.retry \in BOOLEAN
      /\ ReportEnd(w, Fail(x.job, x.attempt, x.retry))
  BY DEF FailJob, At, LinkInv, LinkOK, Linked, Worker, Job, Attempt
<1>2. ASSUME Fail(x.job, x.attempt, x.retry)
      PROVE  Effect({}, {}) /\ Holds(x) /\ Next
  <2>1. Effect({}, {}) /\ Holds(x)
    BY <1>1, <1>2, FailEffect DEF Fail, Holds
  <2> QED
    BY <1>1, <1>2, <2>1, CallIsNext DEF Holds
<1>3. /\ workers' \in [Workers -> Worker(points, locals)]
      /\ workers'[w].pc \in Resting
      /\ Acts(w, {}, {})
  <2>1. CASE Fail(x.job, x.attempt, x.retry) /\ Become(w, Idle("recover"))
    BY <1>1, <1>2, <2>1, EndActs
  <2>2. CASE Die(w)
    BY <1>1, <2>2, EndActs, QuietEffect DEF Die
  <2> QED
    BY <1>1, <2>1, <2>2 DEF ReportEnd
<1> QED
  BY <1>1, <1>3 DEF ProcessActs, Points

LEMMA AcknowledgePauseActs ==
  ASSUME NEW points, NEW locals, NoLocal \in locals,
         workers \in [Workers -> Worker(points, locals)],
         IndInv, LinkInv, NEW w \in Workers, AcknowledgePause(w)
  PROVE  workers' \in [Workers -> Worker(points, locals)] /\ ProcessActs(w)
<1> DEFINE x == workers[w]
           reports == AcknowledgePaused(x.job, x.attempt, x.saved)
<1>1. /\ x.pc = "ackPause" /\ Linked(x) /\ x.job \in Ids /\ x.saved \in Checkpoints
      /\ (reports /\ Become(w, Idle("recover"))) \/ Die(w)
  BY DEF AcknowledgePause, ReportEnd, At, LinkInv, LinkOK, Linked, Worker, Job, Attempt
<1>2. ASSUME reports
      PROVE  /\ Effect({}, {x.job}) /\ Holds(x) /\ Next
             /\ jobs'[x.job].checkpoint = x.saved
  <2>1. Effect({}, {x.job}) /\ Holds(x) /\ jobs'[x.job].checkpoint = x.saved
    BY <1>1, <1>2, AcknowledgePausedEffect DEF AcknowledgePaused, Holds
  <2> QED
    BY <1>1, <1>2, <2>1, CallIsNext DEF Holds
<1>3. /\ workers' \in [Workers -> Worker(points, locals)]
      /\ workers'[w].pc \in Resting
      /\ Acts(w, {}, {x.job})
      /\ jobs' # jobs => jobs'[x.job].checkpoint = x.saved
  <2>1. CASE reports /\ Become(w, Idle("recover"))
    BY <1>1, <1>2, <2>1, EndActs
  <2>2. CASE Die(w)
    <3>1. UNCHANGED jobs /\ Become(w, Idle("down"))
      BY <2>2 DEF Die
    <3>2. Effect({}, {x.job})
      BY <3>1, QuietEffect DEF Effect
    <3> QED
      BY <1>1, <3>1, <3>2, EndActs
  <2> QED
    BY <1>1, <2>1, <2>2
<1> QED
  BY <1>1, <1>3 DEF ProcessActs, Points

LEMMA AcknowledgeCancelActs ==
  ASSUME NEW points, NEW locals, NoLocal \in locals,
         workers \in [Workers -> Worker(points, locals)],
         IndInv, LinkInv, NEW w \in Workers, AcknowledgeCancel(w)
  PROVE  workers' \in [Workers -> Worker(points, locals)] /\ ProcessActs(w)
<1> DEFINE x == workers[w]
           reports == AcknowledgeCancelled(x.job, x.attempt)
<1>1. /\ x.pc = "ackCancel" /\ Linked(x) /\ x.job \in Ids
      /\ (reports /\ Become(w, Idle("recover"))) \/ Die(w)
  BY DEF AcknowledgeCancel, ReportEnd, At, LinkInv, LinkOK, Linked, Job, Attempt
<1>2. ASSUME reports
      PROVE  Effect({}, {}) /\ Holds(x) /\ Next
  <2>1. Effect({}, {}) /\ Holds(x)
    BY <1>1, <1>2, AcknowledgeCancelledEffect DEF AcknowledgeCancelled, Holds
  <2> QED
    BY <1>1, <1>2, <2>1, CallIsNext DEF Holds
<1>3. /\ workers' \in [Workers -> Worker(points, locals)]
      /\ workers'[w].pc \in Resting
      /\ Acts(w, {}, {})
  <2>1. CASE reports /\ Become(w, Idle("recover"))
    BY <1>1, <1>2, <2>1, EndActs
  <2>2. CASE Die(w)
    BY <1>1, <2>2, EndActs, QuietEffect DEF Die
  <2> QED
    BY <1>1, <2>1, <2>2
<1> QED
  BY <1>1, <1>3 DEF ProcessActs, Points

LEMMA RestartActs ==
  ASSUME NEW points, NEW locals, workers \in [Workers -> Worker(points, locals)],
         NEW w \in Workers, Restart(w)
  PROVE  workers' \in [Workers -> Worker(points, locals)] /\ ProcessActs(w)
<1> DEFINE x == workers[w]
           y == workers'[w]
<1>1. x.pc = "down" /\ Goto(w, "recover") /\ UNCHANGED jobs
  BY DEF Restart, At
<1>2. /\ workers' \in [Workers -> Worker(points, locals)]
      /\ y.pc = "recover"
      /\ \A v \in Workers \ {w} : workers'[v] = workers[v]
  BY <1>1, GotoPoint DEF Points
<1>3. Acts(w, {}, {})
  BY <1>1, <1>2, QuietActs DEF Linked
<1> QED
  BY <1>1, <1>2, <1>3 DEF ProcessActs, Resting, Points

\* Whatever the process does.
LEMMA ProcessMovesActs ==
  ASSUME NEW points, NEW locals, NoLocal \in locals,
         workers \in [Workers -> Worker(points, locals)],
         IndInv, LinkInv, NEW w \in Workers, ProcessMoves(w)
  PROVE  workers' \in [Workers -> Worker(points, locals)] /\ ProcessActs(w)
<1>1. Bounded
  BY DEF LinkInv
<1> QED
  BY <1>1, RecoverActs, ClaimActs, FinishActs, CompleteJobActs, FailJobActs,
     AcknowledgePauseActs, AcknowledgeCancelActs, RestartActs
     DEF ProcessMoves, runOnce

-----------------------------------------------------------------------------
(* The calls of a handler.                                                 *)

\* The lease is current and the handler begins with the checkpoint of the row, or
\* the process ends.
LEMMA LoadJobActs ==
  ASSUME NEW points, NEW locals, NoLocal \in locals,
         workers \in [Workers -> Worker(points, locals)],
         IndInv, LinkInv, NEW w \in Workers, At(w, "load"),
         NEW point \in Points \cup points, NEW local \in locals, LoadJob(w, point, local)
  PROVE  LET x == workers[w]
             y == workers'[w]
         IN /\ workers' \in [Workers -> Worker(points, locals)]
            /\ Acts(w, {}, {})
            /\ UNCHANGED jobs
            /\ y.pc # "down" => /\ Holds(x)
                                /\ y.pc = point /\ y.local = local
                                /\ y.job = x.job /\ y.attempt = x.attempt
                                /\ y.saved = jobs[x.job].checkpoint
<1> DEFINE x == workers[w]
           y == [x EXCEPT !.pc = point, !.local = local, !.saved = jobs[x.job].checkpoint]
<1>1. Linked(x) /\ UNCHANGED jobs /\ x \in Worker(points, locals) /\ x.job \in Ids
  BY DEF LoadJob, At, Linked, LinkInv, LinkOK
<1>2. jobs[x.job].checkpoint \in Checkpoints
  BY <1>1, RowsOfTable DEF IndInv, TypeOK, Ids, Row
<1>3. CASE ~LeaseLost(w) /\ workers' = [workers EXCEPT ![w] = y]
  <2>1. /\ y \in Worker(points, locals)
        /\ y.pc = point /\ y.local = local /\ y.job = x.job /\ y.attempt = x.attempt
        /\ y.saved = jobs[x.job].checkpoint
    BY <1>1, <1>2 DEF Worker
  <2>2. Holds(x)
    BY <1>3 DEF LeaseLost, Holds, Job, Attempt
  <2> HIDE DEF y
  <2>3. /\ workers' \in [Workers -> Worker(points, locals)] /\ workers'[w] = y
        /\ \A v \in Workers \ {w} : workers'[v] = workers[v]
    BY <1>3, <2>1
  <2>4. Acts(w, {}, {})
    BY <1>1, <2>1, <2>3, QuietActs
  <2> QED
    BY <1>1, <2>1, <2>2, <2>3, <2>4 DEF y
<1>4. CASE Become(w, Idle("down"))
  <2>1. Effect({}, {})
    BY <1>1, QuietEffect
  <2>2. /\ workers' \in [Workers -> Worker(points, locals)]
        /\ Acts(w, {}, {})
    BY <1>1, <1>4, <2>1, EndActs
  <2>3. workers'[w].pc = "down"
    BY <1>4, IdleType, BecomeWorker DEF Points
  <2> QED
    BY <1>1, <2>2, <2>3
<1>5. \/ ~LeaseLost(w) /\ workers' = [workers EXCEPT ![w] = y]
      \/ Become(w, Idle("down"))
  BY DEF LoadJob, Job
<1> QED
  BY <1>3, <1>4, <1>5

\* What a handler writes to its local variables.
LEMMA ContinuePoint ==
  ASSUME NEW points, NEW locals, workers \in [Workers -> Worker(points, locals)],
         NEW w \in Workers, NEW point \in Points \cup points, NEW local \in locals,
         Continue(w, point, local)
  PROVE  LET x == workers[w]
             y == workers'[w]
         IN /\ workers' \in [Workers -> Worker(points, locals)]
            /\ y.pc = point /\ y.local = local
            /\ y.job = x.job /\ y.attempt = x.attempt /\ y.saved = x.saved
            /\ \A v \in Workers \ {w} : workers'[v] = workers[v]
<1> DEFINE x == workers[w]
           y == [x EXCEPT !.pc = point, !.local = local]
<1>1. x \in Worker(points, locals) /\ workers' = [workers EXCEPT ![w] = y]
  BY DEF Continue
<1>2. /\ y \in Worker(points, locals)
      /\ y.pc = point /\ y.local = local
      /\ y.job = x.job /\ y.attempt = x.attempt /\ y.saved = x.saved
  BY <1>1 DEF Worker
<1> HIDE DEF y
<1> QED
  BY <1>1, <1>2

\* The checkpoint is written under the lease.
LEMMA SaveContextActs ==
  ASSUME NEW points, NEW locals, workers \in [Workers -> Worker(points, locals)],
         IndInv, LinkInv, NEW w \in Workers, Linked(workers[w]), NEW c \in Checkpoints,
         NEW point \in Points \cup points, NEW local \in locals,
         SaveContext(w, c, point, local)
  PROVE  LET x == workers[w]
             y == workers'[w]
         IN /\ workers' \in [Workers -> Worker(points, locals)]
            /\ Acts(w, {}, {x.job})
            /\ Holds(x) /\ jobs'[x.job].checkpoint = c /\ jobs'[x.job].sub = jobs[x.job].sub
            /\ y.pc = point /\ y.local = local /\ y.saved = c
            /\ y.job = x.job /\ y.attempt = x.attempt
<1> DEFINE x == workers[w]
           y == [x EXCEPT !.pc = point, !.local = local, !.saved = c]
<1>1. /\ x \in Worker(points, locals) /\ workers' = [workers EXCEPT ![w] = y]
      /\ x.job \in Ids
  BY DEF SaveContext, LinkInv, LinkOK
<1>2. /\ y \in Worker(points, locals)
      /\ y.pc = point /\ y.local = local /\ y.saved = c
      /\ y.job = x.job /\ y.attempt = x.attempt
  BY <1>1 DEF Worker
<1> HIDE DEF y
<1>3. SaveCheckpoint(x.job, x.attempt, c) /\ Holds(x)
  BY DEF SaveContext, SaveCheckpoint, Holds, Job, Attempt
<1>4. Effect({}, {x.job}) /\ jobs'[x.job].checkpoint = c
  BY <1>1, <1>3, SaveEffect
<1>5. jobs'[x.job].sub = jobs[x.job].sub
  BY <1>1, <1>4 DEF Effect, TableStep, RowStep
<1>6. Next
  BY <1>1, <1>3, CallIsNext DEF Holds
<1>7. workers' \in [Workers -> Worker(points, locals)] /\ workers'[w] = y
      /\ \A v \in Workers \ {w} : workers'[v] = workers[v]
  BY <1>1, <1>2
<1> QED
  BY <1>2, <1>3, <1>4, <1>5, <1>6, <1>7 DEF Acts, Follows

\* Progress is reported under the lease.
LEMMA ReportContextActs ==
  ASSUME NEW points, NEW locals, workers \in [Workers -> Worker(points, locals)],
         IndInv, LinkInv, NEW w \in Workers, Linked(workers[w]),
         NEW point \in Points \cup points, NEW local \in locals,
         ReportContext(w, point, local)
  PROVE  LET x == workers[w]
             y == workers'[w]
         IN /\ workers' \in [Workers -> Worker(points, locals)]
            /\ Acts(w, {}, {})
            /\ Holds(x) /\ jobs'[x.job].checkpoint = jobs[x.job].checkpoint
            /\ jobs'[x.job].sub = jobs[x.job].sub
            /\ y.pc = point /\ y.local = local /\ y.saved = x.saved
            /\ y.job = x.job /\ y.attempt = x.attempt
<1> DEFINE x == workers[w]
           y == workers'[w]
<1>1. /\ Heartbeat(x.job, x.attempt) /\ Holds(x) /\ x.job \in Ids
      /\ Continue(w, point, local)
  BY DEF ReportContext, Heartbeat, Holds, LinkInv, LinkOK, Job, Attempt
<1>2. /\ workers' \in [Workers -> Worker(points, locals)]
      /\ y.pc = point /\ y.local = local
      /\ y.job = x.job /\ y.attempt = x.attempt /\ y.saved = x.saved
      /\ \A v \in Workers \ {w} : workers'[v] = workers[v]
  BY <1>1, ContinuePoint
<1>3. Effect({}, {}) /\ Next
  BY <1>1, HeartbeatEffect, CallIsNext DEF Holds
<1>4. Write(x.job, [jobs[x.job] EXCEPT !.ttl = jobs[x.job].sub.leaseDuration,
                                       !.audit = Event("running", "running")])
  BY <1>1 DEF Heartbeat
<1>5. jobs[x.job] \in Row
  BY <1>1, RowsOfTable DEF IndInv, TypeOK, Ids
<1>6. /\ jobs'[x.job].checkpoint = jobs[x.job].checkpoint
      /\ jobs'[x.job].sub = jobs[x.job].sub
  BY <1>1, <1>4, <1>5 DEF Write, Row, Ids
<1> QED
  BY <1>1, <1>2, <1>3, <1>6 DEF Acts, Follows

\* An exception in a handler, and the end of a process.
LEMMA ThrowActs ==
  ASSUME NEW points, NEW locals, NoLocal \in locals,
         workers \in [Workers -> Worker(points, locals)],
         NEW w \in Workers, Linked(workers[w]), NEW retryable \in BOOLEAN,
         Throw(w, retryable), UNCHANGED jobs
  PROVE  /\ workers' \in [Workers -> Worker(points, locals)]
         /\ Acts(w, {}, {}) /\ workers'[w].pc = "fail"
BY ThrowPoint, QuietActs

LEMMA DieActs ==
  ASSUME NEW points, NEW locals, NoLocal \in locals,
         workers \in [Workers -> Worker(points, locals)],
         NEW w \in Workers, Die(w)
  PROVE  /\ workers' \in [Workers -> Worker(points, locals)]
         /\ Acts(w, {}, {}) /\ workers'[w].pc = "down"
<1>1. Idle("down") \in Worker(points, locals) /\ Idle("down").pc = "down"
  BY IdleType DEF Points
<1>2. /\ workers' \in [Workers -> Worker(points, locals)] /\ workers'[w].pc = "down"
      /\ \A v \in Workers \ {w} : workers'[v] = workers[v]
  BY <1>1, BecomeWorker DEF Die
<1> QED
  BY <1>2, QuietActs DEF Die, Linked

\* A handler goes on without a call to the queue.
LEMMA GotoActs ==
  ASSUME NEW points, NEW locals, workers \in [Workers -> Worker(points, locals)],
         NEW w \in Workers, Linked(workers[w]), NEW point \in Points \cup points,
         Goto(w, point), UNCHANGED jobs
  PROVE  LET x == workers[w]
             y == workers'[w]
         IN /\ workers' \in [Workers -> Worker(points, locals)]
            /\ Acts(w, {}, {})
            /\ y.pc = point /\ y.local = x.local
            /\ y.job = x.job /\ y.attempt = x.attempt /\ y.saved = x.saved
<1> DEFINE x == workers[w]
           y == [x EXCEPT !.pc = point]
<1>1. x \in Worker(points, locals) /\ workers' = [workers EXCEPT ![w] = y]
  BY DEF Goto
<1>2. /\ y \in Worker(points, locals)
      /\ y.pc = point /\ y.local = x.local
      /\ y.job = x.job /\ y.attempt = x.attempt /\ y.saved = x.saved
  BY <1>1 DEF Worker
<1> HIDE DEF y
<1>3. /\ workers' \in [Workers -> Worker(points, locals)] /\ workers'[w] = y
      /\ \A v \in Workers \ {w} : workers'[v] = workers[v]
  BY <1>1, <1>2
<1> QED
  BY <1>2, <1>3, QuietActs

LEMMA ContinueActs ==
  ASSUME NEW points, NEW locals, workers \in [Workers -> Worker(points, locals)],
         NEW w \in Workers, Linked(workers[w]), NEW point \in Points \cup points,
         NEW local \in locals, Continue(w, point, local), UNCHANGED jobs
  PROVE  LET x == workers[w]
             y == workers'[w]
         IN /\ workers' \in [Workers -> Worker(points, locals)]
            /\ Acts(w, {}, {})
            /\ y.pc = point /\ y.local = local
            /\ y.job = x.job /\ y.attempt = x.attempt /\ y.saved = x.saved
BY ContinuePoint, QuietActs

\* What every step of the process keeps, for a handler that only looks at where the
\* worker is: no step but completeJob completes a job, and none enters the handler.
LEMMA ProcessKeeps ==
  ASSUME NEW points, NEW locals, NoLocal \in locals,
         workers \in [Workers -> Worker(points, locals)],
         IndInv, LinkInv, NEW w \in Workers, ProcessMoves(w)
  PROVE  LET x == workers[w]
             y == workers'[w]
         IN /\ workers' \in [Workers -> Worker(points, locals)]
            /\ IndInv' /\ LinkInv' /\ [Next]_jobs /\ TableStep
            /\ \A v \in Workers \ {w} : workers'[v] = workers[v]
            /\ x.pc \in Points
            /\ y.pc \in Points \ {"finish"}
            /\ y.pc = "complete" => x.pc = "finish" /\ UNCHANGED jobs
            /\ \A j \in Ids : jobs'[j].status = "completed" =>
                                jobs[j].status = "completed" \/ x.pc = "complete"
<1> DEFINE x == workers[w]
           y == workers'[w]
           done == IF x.pc = "complete" THEN {x.job} ELSE {}
           saved == IF x.pc = "ackPause" THEN {x.job} ELSE {}
<1>1. workers' \in [Workers -> Worker(points, locals)] /\ ProcessActs(w)
  BY ProcessMovesActs
<1>2. Acts(w, done, saved) /\ x.pc \in Points /\ (y.pc \in Resting \/ Answers(x, y))
  BY <1>1 DEF ProcessActs
<1>3. y.pc \in Points \ {"finish"} /\ (y.pc = "complete" => x.pc = "finish" /\ UNCHANGED jobs)
  BY <1>2 DEF Answers, Resting, Points
<1>4. x.pc # "complete" => done = {}
  OBVIOUS
<1> HIDE DEF done, saved
<1>5. IndInv' /\ LinkInv'
  BY <1>2, ActsInv
<1> QED
  BY <1>1, <1>2, <1>3, <1>4, <1>5 DEF Acts, Effect

-----------------------------------------------------------------------------
(* The rows of the table.                                                  *)

\* Of a table that is written in one row, the rows stay; and only a submission adds one.
LEMMA WriteRows ==
  ASSUME IndInv, NEW j \in Ids, NEW row, Write(j, row)
  PROVE  Ids' = Ids /\ jobs'[j] = row
BY DEF Write, Ids

LEMMA ProcessRows ==
  ASSUME IndInv, LinkInv, NEW w \in Workers, ProcessMoves(w)
  PROVE  Ids' = Ids
<1>1. workers[w].pc \in {"complete", "fail", "ackPause", "ackCancel"} => workers[w].job \in Ids
  BY DEF LinkInv, LinkOK, Linked
<1>2. UNCHANGED jobs => Ids' = Ids
  BY DEF Ids
<1>3. CASE Recover(w)
  BY <1>2, <1>3 DEF Recover, RecoverExpiredLeases, Ids
<1>4. CASE Claim(w)
  <2>1. CASE \E j \in Ids : ClaimNext(j, Supports[w])
    BY <2>1, WriteRows DEF ClaimNext
  <2> QED
    BY <1>2, <1>4, <2>1 DEF Claim
<1>5. CASE Finish(w)
  BY <1>2, <1>5 DEF Finish, ThrowIfControlRequested
<1>6. CASE CompleteJob(w)
  BY <1>1, <1>2, <1>6, WriteRows DEF CompleteJob, Complete, Job, At
<1>7. CASE FailJob(w)
  BY <1>1, <1>2, <1>7, WriteRows DEF FailJob, ReportEnd, Fail, Job, At, Die
<1>8. CASE AcknowledgePause(w)
  BY <1>1, <1>2, <1>8, WriteRows DEF AcknowledgePause, ReportEnd, AcknowledgePaused, Job, At, Die
<1>9. CASE AcknowledgeCancel(w)
  BY <1>1, <1>2, <1>9, WriteRows DEF AcknowledgeCancel, ReportEnd, AcknowledgeCancelled, Job, At, Die
<1>10. CASE Restart(w)
  BY <1>2, <1>10 DEF Restart
<1> QED
  BY <1>3, <1>4, <1>5, <1>6, <1>7, <1>8, <1>9, <1>10 DEF ProcessMoves, runOnce

LEMMA CallIds ==
  ASSUME IndInv, NEW j \in Ids, NEW n,
         (\E c : SaveCheckpoint(j, n, c)) \/ Heartbeat(j, n)
  PROVE  Ids' = Ids
<1>1. \E row : Write(j, row)
  BY Zenon DEF SaveCheckpoint, Heartbeat
<1> QED
  BY <1>1, WriteRows

LEMMA ControlIds ==
  ASSUME IndInv, Tick \/ (\E j \in Ids : RequestPause(j) \/ Resume(j) \/ Cancel(j))
  PROVE  Ids' = Ids
<1>1. CASE Tick
  BY <1>1 DEF Tick, Ids
<1>2. ASSUME NEW j \in Ids, RequestPause(j) \/ Resume(j) \/ Cancel(j)
      PROVE  Ids' = Ids
  <2>1. CASE RequestPause(j)
    <3>1. \E row : Write(j, row)
      BY <2>1, Zenon DEF RequestPause
    <3> QED
      BY <3>1, WriteRows
  <2>2. CASE Resume(j)
    <3>1. \E row : Write(j, row)
      BY <2>2, Zenon DEF Resume
    <3> QED
      BY <3>1, WriteRows
  <2>3. CASE Cancel(j)
    <3>1. \E row : Write(j, row)
      BY <2>3, Zenon DEF Cancel
    <3> QED
      BY <3>1, WriteRows
  <2> QED
    BY <1>2, <2>1, <2>2, <2>3
<1> QED
  BY <1>1, <1>2

LEMMA SubmitIds ==
  ASSUME IndInv, NEW s \in Submissions, Submit(s)
  PROVE  /\ Ids' = Ids \cup {Len(jobs')} /\ Len(jobs') \notin Ids
         /\ \A j \in Ids : jobs'[j] = jobs[j]
         /\ jobs'[Len(jobs')] = QueuedRow(s)
<1>1. jobs \in Seq(Row) /\ jobs' = Append(jobs, QueuedRow(s))
  BY DEF IndInv, TypeOK, Submit
<1>2. /\ Len(jobs) \in Nat
      /\ DOMAIN jobs = 1 .. Len(jobs) /\ DOMAIN jobs' = 1 .. Len(jobs) + 1
      /\ \A i \in 1 .. Len(jobs) : jobs'[i] = jobs[i]
      /\ jobs'[Len(jobs) + 1] = QueuedRow(s) /\ Len(jobs') = Len(jobs) + 1
  BY <1>1
<1> QED
  BY <1>2 DEF Ids

=============================================================================
