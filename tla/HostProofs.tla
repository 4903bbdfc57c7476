------------------------------- MODULE HostProofs -------------------------------
(***************************************************************************)
(* Theorems about what stands around the jobs: the processes that run      *)
(* their workers, and the guard of the roots that their handlers touch.    *)
(*                                                                         *)
(* Worker processes run the counting handler, however they come and go.    *)
(* The invariant says what a worker knows.  Where it is in the loop bounds *)
(* its count and the checkpoint it has saved; and as long as it holds its  *)
(* lease, the row has that checkpoint and the request it is answering.  A  *)
(* worker that has lost its lease knows nothing of the row, and does not   *)
(* need to: the fence keeps what it writes out.                            *)
(*                                                                         *)
(* Roots are enrolled and guarded for any paths, volumes, processes and    *)
(* requests, and whatever the user does to the disk.  The journal is the   *)
(* only thing that processes share, and they take no lock for it.  The     *)
(* argument is that what a request will append is already justified when   *)
(* it has read: by a proposal, or by the line that it read, and lines and  *)
(* proposals that were shown are never taken back.                         *)
(***************************************************************************)
EXTENDS Supervision, RootGuard, JobQueueProofs

-----------------------------------------------------------------------------
(* The processes of the workers.                                           *)

Counts == 0 .. MaxUnits
UnitsOf(x) == jobs[x.job].sub.units

\* The loop, point by point.
LoopInv(x) ==
  x.pc \notin Resting =>
    /\ x.saved <= UnitsOf(x)
    /\ x.pc \in {"signal", "work"} => x.local < UnitsOf(x) /\ x.saved <= x.local
    /\ x.pc = "save" => x.local <= UnitsOf(x) /\ x.saved <= x.local
    /\ x.pc = "report" => /\ x.local <= UnitsOf(x) /\ x.saved <= x.local
                          /\ x.local = UnitsOf(x) => x.saved = UnitsOf(x)
    /\ x.pc \in {"finish", "complete"} => x.saved = UnitsOf(x)

\* What the holder of a lease knows of its row.
HeldInv(x) ==
  x.pc \notin Resting /\ Holds(x) =>
    /\ jobs[x.job].checkpoint = x.saved
    /\ x.pc = "ackPause" => jobs[x.job].pause
    /\ x.pc = "ackCancel" => jobs[x.job].cancel

KnowsInv(x) == LoopInv(x) /\ HeldInv(x)

UnitsInv ==
  \A j \in Ids :
    /\ jobs[j].checkpoint <= jobs[j].sub.units
    /\ jobs[j].status = "completed" => jobs[j].checkpoint = jobs[j].sub.units

WorkersTyped == workers \in [Workers -> Worker(HandlerPoints, Counts)]

WInv ==
  /\ IndInv /\ LinkInv /\ WorkersTyped /\ UnitsInv
  /\ \A w \in Workers : KnowsInv(workers[w])

-----------------------------------------------------------------------------
(* A step of one worker.                                                   *)

Done(x) == IF x.pc = "complete" THEN {x.job} ELSE {}
Saved(x) == IF x.pc \in {"save", "ackPause"} THEN {x.job} ELSE {}

\* What the step of a worker does: only a worker that has finished completes its
\* job, and only one that saves or pauses writes a checkpoint, which is never less
\* than the one it holds.
Runs(w) ==
  LET x == workers[w]
      y == workers'[w]
  IN /\ Acts(w, Done(x), Saved(x))
     /\ Saved(x) # {} /\ jobs' # jobs =>
          jobs'[x.job].checkpoint = IF x.pc = "save" THEN x.local ELSE x.saved
     /\ y.pc \notin Resting =>
          /\ y.job = x.job /\ y.attempt = x.attempt
          /\ Linked(x)
          /\ jobs'[x.job].sub = jobs[x.job].sub

LEMMA ActsMore ==
  ASSUME NEW w \in Workers, Acts(w, {}, {})
  PROVE  Acts(w, Done(workers[w]), Saved(workers[w]))
BY DEF Acts, Effect

\* The facts about the job of a worker that has one.
LEMMA JobFacts ==
  ASSUME WInv, NEW w \in Workers, Linked(workers[w])
  PROVE  LET x == workers[w]
         IN /\ x.job \in Ids /\ jobs[x.job] \in Row
            /\ UnitsOf(x) \in 1 .. MaxUnits
            /\ jobs[x.job].checkpoint \in Nat /\ jobs[x.job].checkpoint <= UnitsOf(x)
            /\ x \in Worker(HandlerPoints, Counts)
            /\ x.saved \in Nat /\ x.local \in Counts
<1> DEFINE x == workers[w]
<1>1. x.job \in Ids /\ jobs[x.job] \in Row
  BY RowsOfTable DEF WInv, LinkInv, LinkOK, IndInv, TypeOK, Ids
<1>2. jobs[x.job].sub \in Submissions /\ jobs[x.job].checkpoint \in Checkpoints
  BY <1>1 DEF Row
<1>3. x \in Worker(HandlerPoints, Counts) /\ jobs[x.job].checkpoint <= UnitsOf(x)
  BY <1>1 DEF WInv, WorkersTyped, UnitsInv, UnitsOf
<1>4. x.saved \in Nat /\ x.local \in Counts
  BY <1>3, BoundsAssumption DEF Worker, Checkpoints
<1> QED
  BY <1>1, <1>2, <1>3, <1>4, HandlerAssumption, BoundsAssumption DEF UnitsOf, Checkpoints

\* The process itself: what it answers it has just read, under its lease.
LEMMA ProcessRuns ==
  ASSUME WInv, NEW w \in Workers, ProcessMoves(w)
  PROVE  WorkersTyped' /\ Runs(w) /\ LoopInv(workers[w])' /\ HeldInv(workers[w])'
<1> DEFINE x == workers[w]
           y == workers'[w]
<1>1. WorkersTyped' /\ ProcessActs(w)
  <2>1. /\ NoLocal \in Counts /\ workers \in [Workers -> Worker(HandlerPoints, Counts)]
        /\ IndInv /\ LinkInv
    BY HandlerAssumption DEF WInv, WorkersTyped, Counts
  <2> QED
    BY <2>1, ProcessMovesActs DEF WorkersTyped
<1>2. /\ x.pc \in Points
      /\ y.pc \in Resting \/ Answers(x, y)
      /\ x.pc = "ackPause" /\ jobs' # jobs => jobs'[x.job].checkpoint = x.saved
      /\ Acts(w, Done(x), Saved(x))
  <2>1. x.pc # "save"
    BY <1>1 DEF ProcessActs, Points
  <2> QED
    BY <1>1, <2>1 DEF ProcessActs, Done, Saved
<1>3. CASE y.pc \in Resting
  BY <1>1, <1>2, <1>3 DEF Runs, Saved, Points, LoopInv, HeldInv
<1>4. CASE Answers(x, y)
  <2>1. Linked(x) /\ x.pc = "finish" /\ x.pc \notin Resting
    BY <1>4 DEF Answers, Linked, Resting
  <2>2. /\ x \in Worker(HandlerPoints, Counts) /\ x.saved <= UnitsOf(x)
        /\ x.saved = UnitsOf(x) /\ jobs[x.job].checkpoint = x.saved
    BY <1>4, <2>1, JobFacts DEF WInv, KnowsInv, LoopInv, HeldInv, Answers
  <2>3. /\ y.job = x.job /\ y.attempt = x.attempt /\ y.saved = x.saved
        /\ UNCHANGED jobs /\ Holds(x)
        /\ y.pc \in {"complete", "ackPause", "ackCancel"}
        /\ y.pc = "ackPause" => jobs[x.job].pause
        /\ y.pc = "ackCancel" => jobs[x.job].cancel
    BY <1>4, <2>2 DEF Answers, Worker
  <2>4. LoopInv(workers[w])' /\ HeldInv(workers[w])'
    BY <2>2, <2>3 DEF LoopInv, HeldInv, UnitsOf
  <2> QED
    BY <1>1, <1>2, <2>1, <2>3, <2>4 DEF Runs, Saved
<1> QED
  BY <1>2, <1>3, <1>4

\* Load: the loop begins at the checkpoint of the row.
LEMMA LoadRuns ==
  ASSUME WInv, NEW w \in Workers, Load(w)
  PROVE  WorkersTyped' /\ Runs(w) /\ LoopInv(workers[w])' /\ HeldInv(workers[w])'
<1> DEFINE x == workers[w]
           y == workers'[w]
           c == jobs[x.job].checkpoint
           point == Loop(c, UnitsOf(x))
<1>1. x.pc = "load" /\ Linked(x)
  BY DEF Load, LoadJob, At, Linked
<1>2. /\ c \in Counts /\ c <= UnitsOf(x) /\ UnitsOf(x) \in 1 .. MaxUnits
      /\ x \in Worker(HandlerPoints, Counts)
  BY <1>1, JobFacts, BoundsAssumption DEF Counts
<1>3. point \in {"signal", "finish"} /\ (point = "signal" => c < UnitsOf(x))
      /\ (point = "finish" => c = UnitsOf(x))
  BY <1>2, BoundsAssumption DEF Loop, Counts
<1>4. point \in Points \cup HandlerPoints
  BY <1>3 DEF Points, HandlerPoints
<1>5. /\ LoadJob(w, point, c) /\ At(w, "load") /\ NoLocal \in Counts
      /\ workers \in [Workers -> Worker(HandlerPoints, Counts)] /\ IndInv /\ LinkInv
  BY HandlerAssumption DEF Load, LoadJob, WInv, WorkersTyped, Counts, Units, UnitsOf, Job
<1> HIDE DEF point
<1>6. /\ WorkersTyped' /\ Acts(w, {}, {}) /\ UNCHANGED jobs
      /\ y.pc # "down" => /\ Holds(x) /\ y.pc = point /\ y.local = c
                          /\ y.job = x.job /\ y.attempt = x.attempt /\ y.saved = c
  BY <1>2, <1>4, <1>5, LoadJobActs DEF WorkersTyped
<1>7. CASE y.pc = "down"
  BY <1>1, <1>6, <1>7, ActsMore DEF Runs, Saved, Resting, LoopInv, HeldInv
<1>8. CASE y.pc # "down"
  <2>1. LoopInv(workers[w])'
    <3>1. c <= c /\ UnitsOf(x)' = UnitsOf(x) /\ UnitsOf(workers[w])' = UnitsOf(x)
      BY <1>2, <1>6, <1>8 DEF UnitsOf, Counts
    <3> QED
      BY <1>2, <1>3, <1>6, <1>8, <3>1 DEF LoopInv
  <2>2. HeldInv(workers[w])'
    BY <1>3, <1>6, <1>8 DEF HeldInv
  <2> QED
    BY <1>1, <1>6, <1>8, <2>1, <2>2, ActsMore DEF Runs, Saved
<1> QED
  BY <1>7, <1>8

\* Signal: the control check before each unit.
LEMMA SignalRuns ==
  ASSUME WInv, NEW w \in Workers, Signal(w)
  PROVE  WorkersTyped' /\ Runs(w) /\ LoopInv(workers[w])' /\ HeldInv(workers[w])'
<1> DEFINE x == workers[w]
           y == workers'[w]
<1>1. /\ x.pc = "signal" /\ Linked(x) /\ x.pc \notin Resting
      /\ ThrowIfControlRequested(w, "work")
      /\ "work" \in Points \cup HandlerPoints
  BY DEF Signal, At, Linked, Resting, HandlerPoints
<1>2. /\ NoLocal \in Counts /\ workers \in [Workers -> Worker(HandlerPoints, Counts)]
  BY HandlerAssumption DEF WInv, WorkersTyped, Counts
<1>3. /\ WorkersTyped' /\ UNCHANGED jobs
      /\ \A v \in Workers \ {w} : workers'[v] = workers[v]
      /\ y.job = x.job /\ y.attempt = x.attempt
      /\ y.pc # "fail" =>
           /\ Holds(x) /\ y = [x EXCEPT !.pc = y.pc]
           /\ y.pc \in {"work", "ackPause", "ackCancel"}
           /\ y.pc = "work" \/ y.pc = "ackPause" \/ jobs[x.job].cancel
           /\ y.pc = "work" \/ y.pc = "ackCancel" \/ jobs[x.job].pause
  BY <1>1, <1>2, ControlActs DEF WorkersTyped
<1>4. Acts(w, {}, {})
  BY <1>1, <1>3, QuietActs
<1>5. CASE y.pc = "fail"
  BY <1>1, <1>3, <1>4, <1>5, ActsMore DEF Runs, Saved, Resting, LoopInv, HeldInv
<1>6. CASE y.pc # "fail"
  <2>1. /\ x \in Worker(HandlerPoints, Counts) /\ x.saved <= UnitsOf(x)
        /\ x.local < UnitsOf(x) /\ x.saved <= x.local
        /\ jobs[x.job].checkpoint = x.saved
    BY <1>1, <1>3, <1>6, JobFacts DEF WInv, KnowsInv, LoopInv, HeldInv
  <2>2. y.local = x.local /\ y.saved = x.saved
    BY <1>3, <1>6, <2>1 DEF Worker
  <2>3. LoopInv(workers[w])'
    BY <1>3, <1>6, <2>1, <2>2 DEF LoopInv, UnitsOf
  <2>4. HeldInv(workers[w])'
    BY <1>3, <1>6, <2>1, <2>2 DEF HeldInv
  <2> QED
    BY <1>1, <1>3, <1>4, <1>6, <2>3, <2>4, ActsMore DEF Runs, Saved
<1> QED
  BY <1>5, <1>6

\* A handler that gives up; the worker still has its lease or not.
LEMMA ThrowRuns ==
  ASSUME WInv, NEW w \in Workers, Linked(workers[w]), NEW retryable \in BOOLEAN,
         Throw(w, retryable), UNCHANGED jobs
  PROVE  WorkersTyped' /\ Runs(w) /\ LoopInv(workers[w])' /\ HeldInv(workers[w])'
<1>1. /\ NoLocal \in Counts /\ workers \in [Workers -> Worker(HandlerPoints, Counts)]
  BY HandlerAssumption DEF WInv, WorkersTyped, Counts
<1>2. WorkersTyped' /\ Acts(w, {}, {}) /\ workers'[w].pc = "fail"
  BY <1>1, ThrowActs DEF WorkersTyped
<1> QED
  BY <1>2, ActsMore DEF Runs, Resting, LoopInv, HeldInv

\* Where the loop goes from a count, and what that means there.
LEMMA LoopPoints ==
  ASSUME NEW units \in 1 .. MaxUnits, NEW count \in Counts, count <= units
  PROVE  /\ Loop(count, units) \in {"signal", "finish"}
         /\ Loop(count, units) = "signal" => count < units
         /\ Loop(count, units) = "finish" => count = units
         /\ AfterSave(count, units) \in {"signal", "finish", "report"}
         /\ AfterSave(count, units) = "signal" => count < units
         /\ AfterSave(count, units) = "finish" => count = units
         /\ AfterWork(count, units) \in {"signal", "report", "save"}
         /\ AfterWork(count, units) \in {"signal", "report"} => count < units
<1>1. count \in Int /\ units \in Int
  BY BoundsAssumption DEF Counts
<1>2. /\ Loop(count, units) \in {"signal", "finish"}
      /\ Loop(count, units) = "signal" => count < units
      /\ Loop(count, units) = "finish" => count = units
  BY <1>1 DEF Loop
<1>3. count = units => Due(count, CheckpointEvery, units)
  BY DEF Due
<1> QED
  BY <1>1, <1>2, <1>3 DEF AfterSave, AfterWork

LEMMA OneMore ==
  ASSUME NEW count \in Counts, NEW units \in 1 .. MaxUnits, NEW saved \in Nat,
         count < units, saved <= count
  PROVE  count + 1 \in Counts /\ count + 1 <= units /\ saved <= count + 1
BY BoundsAssumption DEF Counts

\* Work: one more unit.
LEMMA WorkRuns ==
  ASSUME WInv, NEW w \in Workers, Work(w)
  PROVE  WorkersTyped' /\ Runs(w) /\ LoopInv(workers[w])' /\ HeldInv(workers[w])'
<1> DEFINE x == workers[w]
           y == workers'[w]
           count == x.local + 1
           units == UnitsOf(x)
           point == AfterWork(count, units)
<1>1. /\ x.pc = "work" /\ Linked(x) /\ x.pc \notin Resting /\ UNCHANGED jobs
      /\ Continue(w, point, count) \/ \E retryable \in BOOLEAN : Throw(w, retryable)
  BY DEF Work, At, Linked, Resting, Count, Units, UnitsOf, Job
<1>2. /\ x \in Worker(HandlerPoints, Counts) /\ units \in 1 .. MaxUnits
      /\ x.local \in Counts /\ x.saved \in Nat
      /\ x.saved <= units /\ x.local < units /\ x.saved <= x.local
      /\ Holds(x) => jobs[x.job].checkpoint = x.saved
  BY <1>1, JobFacts DEF WInv, KnowsInv, LoopInv, HeldInv
<1>3. count \in Counts /\ count <= units /\ x.saved <= count
  BY <1>2, OneMore
<1>4. point \in {"signal", "report", "save"} /\ (point \in {"signal", "report"} => count < units)
  BY <1>2, <1>3, LoopPoints
<1> HIDE DEF point
<1>5. CASE Continue(w, point, count)
  <2>1. point \in Points \cup HandlerPoints
    BY <1>4 DEF HandlerPoints
  <2>2. /\ WorkersTyped'
        /\ y.pc = point /\ y.local = count
        /\ y.job = x.job /\ y.attempt = x.attempt /\ y.saved = x.saved
        /\ \A v \in Workers \ {w} : workers'[v] = workers[v]
    BY <1>3, <1>5, <2>1, ContinuePoint DEF WInv, WorkersTyped
  <2>3. Acts(w, {}, {})
    BY <1>1, <2>2, QuietActs
  <2>4. UnitsOf(workers[w])' = units /\ (Holds(workers[w])' => Holds(x))
    BY <1>1, <2>2 DEF UnitsOf, Holds
  <2>5. LoopInv(workers[w])'
    BY <1>2, <1>3, <1>4, <2>2, <2>4 DEF LoopInv
  <2>6. HeldInv(workers[w])'
    BY <1>1, <1>2, <1>4, <2>2, <2>4 DEF HeldInv
  <2> QED
    BY <1>1, <2>2, <2>3, <2>5, <2>6, ActsMore DEF Runs, Saved
<1>6. CASE \E retryable \in BOOLEAN : Throw(w, retryable)
  BY <1>1, <1>6, ThrowRuns
<1> QED
  BY <1>1, <1>5, <1>6

\* Save: the durable checkpoint becomes the count.
LEMMA SaveRuns ==
  ASSUME WInv, NEW w \in Workers, Save(w)
  PROVE  WorkersTyped' /\ Runs(w) /\ LoopInv(workers[w])' /\ HeldInv(workers[w])'
<1> DEFINE x == workers[w]
           y == workers'[w]
           units == UnitsOf(x)
           point == AfterSave(x.local, units)
<1>1. /\ x.pc = "save" /\ Linked(x) /\ x.pc \notin Resting
      /\ \/ SaveContext(w, x.local, point, x.local)
         \/ Throw(w, TRUE) /\ UNCHANGED jobs
  BY DEF Save, At, Linked, Resting, Count, Units, UnitsOf, Job
<1>2. /\ units \in 1 .. MaxUnits /\ x.local \in Counts /\ x.local <= units
  BY <1>1, JobFacts DEF WInv, KnowsInv, LoopInv
<1>3. /\ point \in {"signal", "finish", "report"}
      /\ point = "signal" => x.local < units
      /\ point = "finish" => x.local = units
  BY <1>2, LoopPoints
<1> HIDE DEF point
<1>4. CASE SaveContext(w, x.local, point, x.local)
  <2>1. point \in Points \cup HandlerPoints /\ x.local \in Checkpoints
    BY <1>2, <1>3 DEF Points, HandlerPoints, Counts, Checkpoints
  <2>2. /\ WorkersTyped' /\ Acts(w, {}, {x.job})
        /\ jobs'[x.job].checkpoint = x.local /\ jobs'[x.job].sub = jobs[x.job].sub
        /\ y.pc = point /\ y.local = x.local /\ y.saved = x.local
        /\ y.job = x.job /\ y.attempt = x.attempt
    BY <1>1, <1>2, <1>4, <2>1, SaveContextActs DEF WInv, WorkersTyped
  <2>3. Runs(w)
    BY <1>1, <2>2 DEF Runs, Done, Saved
  <2>4. x.local <= x.local /\ UnitsOf(workers[w])' = units
    BY <1>2, <2>2 DEF Counts, UnitsOf
  <2>5. LoopInv(workers[w])'
    BY <1>2, <1>3, <2>2, <2>4 DEF LoopInv
  <2>6. HeldInv(workers[w])'
    BY <1>3, <2>2 DEF HeldInv
  <2> QED
    BY <2>2, <2>3, <2>5, <2>6
<1> QED
  BY <1>1, <1>4, ThrowRuns

\* ReportProgress: the lease is renewed, and the loop goes on.
LEMMA ReportRuns ==
  ASSUME WInv, NEW w \in Workers, ReportProgress(w)
  PROVE  WorkersTyped' /\ Runs(w) /\ LoopInv(workers[w])' /\ HeldInv(workers[w])'
<1> DEFINE x == workers[w]
           y == workers'[w]
           units == UnitsOf(x)
           point == Loop(x.local, units)
<1>1. /\ x.pc = "report" /\ Linked(x) /\ x.pc \notin Resting
      /\ \/ ReportContext(w, point, x.local)
         \/ Throw(w, TRUE) /\ UNCHANGED jobs
  BY DEF ReportProgress, At, Linked, Resting, Count, Units, UnitsOf, Job
<1>2. /\ units \in 1 .. MaxUnits /\ x.local \in Counts /\ x.local <= units
      /\ x.saved \in Nat /\ x.saved <= units /\ x.saved <= x.local
      /\ x.local = units => x.saved = units
      /\ Holds(x) => jobs[x.job].checkpoint = x.saved
  BY <1>1, JobFacts DEF WInv, KnowsInv, LoopInv, HeldInv
<1>3. /\ point \in {"signal", "finish"}
      /\ point = "signal" => x.local < units
      /\ point = "finish" => x.local = units
  BY <1>2, LoopPoints
<1> HIDE DEF point
<1>4. CASE ReportContext(w, point, x.local)
  <2>1. point \in Points \cup HandlerPoints
    BY <1>3 DEF Points, HandlerPoints
  <2>2. /\ WorkersTyped' /\ Acts(w, {}, {})
        /\ Holds(x) /\ jobs'[x.job].checkpoint = jobs[x.job].checkpoint
        /\ jobs'[x.job].sub = jobs[x.job].sub
        /\ y.pc = point /\ y.local = x.local /\ y.saved = x.saved
        /\ y.job = x.job /\ y.attempt = x.attempt
    BY <1>1, <1>2, <1>4, <2>1, ReportContextActs DEF WInv, WorkersTyped
  <2>3. Runs(w)
    BY <1>1, <2>2, ActsMore DEF Runs, Saved
  <2>4. UnitsOf(workers[w])' = units
    BY <2>2 DEF UnitsOf
  <2>5. LoopInv(workers[w])'
    BY <1>2, <1>3, <2>2, <2>4 DEF LoopInv
  <2>6. HeldInv(workers[w])'
    BY <1>2, <1>3, <2>2 DEF HeldInv
  <2> QED
    BY <2>2, <2>3, <2>5, <2>6
<1> QED
  BY <1>1, <1>4, ThrowRuns

\* The end of a process.
LEMMA DieRuns ==
  ASSUME WInv, NEW w \in Workers, Die(w)
  PROVE  WorkersTyped' /\ Runs(w) /\ LoopInv(workers[w])' /\ HeldInv(workers[w])'
<1>1. /\ NoLocal \in Counts /\ workers \in [Workers -> Worker(HandlerPoints, Counts)]
  BY HandlerAssumption DEF WInv, WorkersTyped, Counts
<1>2. WorkersTyped' /\ Acts(w, {}, {}) /\ workers'[w].pc = "down" /\ UNCHANGED jobs
  BY <1>1, DieActs DEF WorkersTyped, Die
<1> QED
  BY <1>2, ActsMore DEF Runs, Resting, LoopInv, HeldInv

-----------------------------------------------------------------------------
(* The invariant is inductive.                                             *)

\* A step of the table that completes no job but those of `done`, each with all its
\* units, and writes no checkpoint but those of `saved`.
LEMMA UnitsKept ==
  ASSUME IndInv, IndInv', UnitsInv, NEW done, NEW saved, Effect(done, saved),
         done \cap saved = {},
         \A j \in saved \cap Ids :
           jobs'[j] # jobs[j] => jobs'[j].checkpoint <= jobs[j].sub.units,
         \A j \in done \cap Ids :
           jobs'[j] # jobs[j] => jobs[j].checkpoint = jobs[j].sub.units
  PROVE  UnitsInv'
<1>1. TableStep
  BY DEF Effect
<1>2. ASSUME NEW j \in Ids
      PROVE  /\ jobs'[j].checkpoint <= jobs'[j].sub.units
             /\ jobs'[j].status = "completed" => jobs'[j].checkpoint = jobs'[j].sub.units
  <2>1. j \in Ids' /\ RowStep(jobs[j], jobs'[j])
    BY <1>1 DEF TableStep
  <2>2. /\ jobs[j].checkpoint <= jobs[j].sub.units
        /\ jobs[j].status = "completed" => jobs[j].checkpoint = jobs[j].sub.units
    BY DEF UnitsInv
  <2>3. jobs[j].sub.units \in 1 .. MaxUnits
    BY RowsOfTable, HandlerAssumption DEF IndInv, TypeOK, Ids, Row
  <2>4. jobs'[j].sub = jobs[j].sub
    BY <2>1 DEF RowStep
  <2>5. CASE jobs'[j] = jobs[j]
    BY <2>2, <2>5
  <2>6. ASSUME jobs'[j] # jobs[j] PROVE jobs[j].status # "completed"
    BY <2>1, <2>6, AllowedTransitions DEF RowStep, RunsOn, Transits
  <2>7. CASE jobs'[j] # jobs[j] /\ j \in saved
    <3>1. jobs'[j].status # "completed"
      BY <2>6, <2>7 DEF Effect
    <3> QED
      BY <2>4, <2>7, <3>1
  <2>8. CASE jobs'[j] # jobs[j] /\ j \notin saved
    <3>1. KeepsCheckpoint(jobs[j], jobs'[j])
      BY <2>8 DEF Effect
    <3>2. jobs'[j].checkpoint <= jobs'[j].sub.units
      BY <2>2, <2>3, <2>4, <3>1, BoundsAssumption DEF KeepsCheckpoint
    <3>3. ASSUME jobs'[j].status = "completed"
          PROVE  jobs'[j].checkpoint = jobs'[j].sub.units
      <4>1. j \in done
        BY <2>6, <2>8, <3>3 DEF Effect
      <4> QED
        BY <2>4, <2>8, <3>1, <3>3, <4>1 DEF KeepsCheckpoint
    <3> QED
      BY <3>2, <3>3
  <2> QED
    BY <2>5, <2>7, <2>8
<1>3. ASSUME NEW j \in Ids' \ Ids
      PROVE  /\ jobs'[j].checkpoint <= jobs'[j].sub.units
             /\ jobs'[j].status = "completed" => jobs'[j].checkpoint = jobs'[j].sub.units
  <2>1. jobs'[j].checkpoint = 0 /\ jobs'[j].status = "queued"
    BY <1>1, <1>3, NewRow
  <2>2. jobs'[j] \in Row
    BY <1>3, RowsOfTable DEF IndInv, TypeOK, Ids
  <2>3. jobs'[j].sub.units \in 1 .. MaxUnits
    BY <2>2, HandlerAssumption DEF Row
  <2> QED
    BY <2>1, <2>3, BoundsAssumption
<1> QED
  BY <1>1, <1>2, <1>3 DEF UnitsInv, TableStep

\* A worker acts.
LEMMA WorkerKeeps ==
  ASSUME WInv, NEW w \in Workers,
         WorkersTyped', Runs(w), LoopInv(workers[w])', HeldInv(workers[w])'
  PROVE  WInv'
<1> DEFINE x == workers[w]
           done == Done(x)
           saved == Saved(x)
<1>1. IndInv /\ LinkInv /\ UnitsInv /\ Acts(w, done, saved)
  BY DEF WInv, Runs
<1>2. IndInv' /\ LinkInv' /\ Effect(done, saved) /\ TableStep
  BY <1>1, ActsInv DEF Acts, Effect
<1>3. saved \subseteq {x.job} /\ done \subseteq {x.job} /\ (done = {} \/ saved = {})
      /\ (saved # {} \/ done # {} => Linked(x) /\ x.pc \notin Resting)
  BY DEF Done, Saved, Linked, Resting
<1>4. UnitsInv'
  <2>1. ASSUME NEW j \in saved, jobs' # jobs
        PROVE  jobs'[j].checkpoint <= jobs[j].sub.units
    <3>1. /\ j = x.job /\ Linked(x) /\ x.pc \in {"save", "ackPause"}
          /\ x.pc \notin Resting
          /\ jobs'[j].checkpoint = IF x.pc = "save" THEN x.local ELSE x.saved
      BY <1>3, <2>1 DEF Runs, Saved
    <3>2. LoopInv(x)
      BY DEF WInv, KnowsInv
    <3> QED
      BY <3>1, <3>2 DEF LoopInv, UnitsOf
  <2>2. ASSUME NEW j \in done, jobs' # jobs
        PROVE  jobs[j].checkpoint = jobs[j].sub.units
    <3>1. j = x.job /\ Linked(x) /\ x.pc = "complete" /\ x.pc \notin Resting
      BY <1>3, <2>2 DEF Done
    <3>2. Holds(x)
      BY <1>1, <2>2, <3>1 DEF Acts
    <3>3. LoopInv(x) /\ HeldInv(x)
      BY DEF WInv, KnowsInv
    <3> QED
      BY <3>1, <3>2, <3>3 DEF LoopInv, HeldInv, UnitsOf
  <2>3. done \cap saved = {}
    BY <1>3
  <2> HIDE DEF done, saved
  <2> QED
    BY <1>1, <1>2, <2>1, <2>2, <2>3, UnitsKept
<1>5. ASSUME NEW v \in Workers \ {w}
      PROVE  KnowsInv(workers[v])'
  <2>1. workers'[v] = workers[v] /\ LoopInv(workers[v]) /\ HeldInv(workers[v])
    BY <1>1 DEF Acts, WInv, KnowsInv
  <2>2. CASE workers[v].pc \in Resting
    BY <2>1, <2>2 DEF KnowsInv, LoopInv, HeldInv
  <2>3. CASE workers[v].pc \notin Resting
    <3>1. Linked(workers[v]) /\ workers[v].job \in Ids
      BY <1>1, <2>3 DEF Linked, Resting, LinkInv, LinkOK
    <3>2. jobs'[workers[v].job].sub = jobs[workers[v].job].sub
      BY <1>2, <3>1 DEF TableStep, RowStep
    <3>3. LoopInv(workers[v])'
      BY <2>1, <2>3, <3>2 DEF LoopInv, UnitsOf
    <3>4. ASSUME Holds(workers[v])'
          PROVE  /\ Holds(workers[v])
                 /\ jobs'[workers[v].job].checkpoint = jobs[workers[v].job].checkpoint
                 /\ jobs[workers[v].job].pause => jobs'[workers[v].job].pause
                 /\ jobs[workers[v].job].cancel => jobs'[workers[v].job].cancel
      <4>1. saved \subseteq {workers[w].job} /\ (saved # {} => Linked(workers[w]))
        BY <1>3
      <4> HIDE DEF done, saved
      <4> QED
        BY <1>1, <3>1, <3>4, <4>1, OthersKeep
    <3>5. HeldInv(workers[v])'
      BY <2>1, <2>3, <3>4 DEF HeldInv
    <3> QED
      BY <3>3, <3>5 DEF KnowsInv
  <2> QED
    BY <2>2, <2>3
<1>6. KnowsInv(workers[w])'
  BY DEF KnowsInv
<1> QED
  BY <1>2, <1>4, <1>5, <1>6 DEF WInv

\* The table changes and no worker does: a client, or the clock.
LEMMA OtherKeeps ==
  ASSUME WInv, Next, Effect({}, {}), UNCHANGED workers
  PROVE  WInv'
<1>1. IndInv' /\ TableStep /\ IndInv /\ LinkInv /\ UnitsInv
  BY IndInvNext DEF WInv, Effect
<1>2. LinkInv'
  BY <1>1, LinkTable
<1>3. UnitsInv'
  BY <1>1, UnitsKept
<1>4. ASSUME NEW v \in Workers PROVE KnowsInv(workers[v])'
  <2> DEFINE x == workers[v]
  <2>1. LoopInv(x) /\ HeldInv(x)
    BY DEF WInv, KnowsInv
  <2>2. CASE x.pc \in Resting
    BY <2>2 DEF KnowsInv, LoopInv, HeldInv
  <2>3. CASE x.pc \notin Resting
    <3>1. x.job \in Ids /\ x.attempt \in DOMAIN jobs[x.job].attempts
      BY <1>1, <2>3 DEF Linked, Resting, LinkInv, LinkOK
    <3>2. jobs'[x.job].sub = jobs[x.job].sub
      BY <1>1, <3>1 DEF TableStep, RowStep
    <3>3. LoopInv(workers[v])'
      BY <2>1, <2>3, <3>2 DEF LoopInv, UnitsOf
    <3>4. ASSUME Holds(workers[v])'
          PROVE  /\ Holds(x) /\ jobs'[x.job].checkpoint = jobs[x.job].checkpoint
                 /\ jobs[x.job].pause => jobs'[x.job].pause
                 /\ jobs[x.job].cancel => jobs'[x.job].cancel
      BY <1>1, <3>1, <3>4, HeldKeeps DEF Holds
    <3>5. HeldInv(workers[v])'
      BY <2>1, <2>3, <3>4 DEF HeldInv
    <3> QED
      BY <3>3, <3>5 DEF KnowsInv
  <2> QED
    BY <2>2, <2>3
<1> QED
  BY <1>1, <1>2, <1>3, <1>4 DEF WInv, WorkersTyped

\* The three kinds of steps.
LEMMA WSteps ==
  ASSUME WInv, [WNext]_vars
  PROVE  \/ UNCHANGED <<jobs, workers>>
         \/ Next /\ Effect({}, {}) /\ UNCHANGED workers
         \/ \E w \in Workers :
              WorkersTyped' /\ Runs(w) /\ LoopInv(workers[w])' /\ HeldInv(workers[w])'
<1>1. ASSUME ClientStep \/ Tick, UNCHANGED <<workers, crashes, supervised>>
      PROVE  Next /\ Effect({}, {}) /\ UNCHANGED workers
  <2>1. IndInv
    BY DEF WInv
  <2> QED
    BY <1>1, <2>1, SubmitEffect, ControlEffect, TickEffect DEF Next, ClientStep
<1>2. ASSUME NEW w \in Workers, Boot(w) \/ Run(w)
      PROVE  WorkersTyped' /\ Runs(w) /\ LoopInv(workers[w])' /\ HeldInv(workers[w])'
  BY <1>2, ProcessRuns, LoadRuns, SignalRuns, WorkRuns, SaveRuns, ReportRuns
     DEF Boot, Run, ProcessMoves, HandlerMoves
<1>3. ASSUME NEW w \in Workers, Stop(w) \/ Kill(w), ~UNCHANGED <<jobs, workers>>
      PROVE  WorkersTyped' /\ Runs(w) /\ LoopInv(workers[w])' /\ HeldInv(workers[w])'
  <2>1. Die(w)
    BY <1>3 DEF Stop, Kill, Crash
  <2> QED
    BY <2>1, DieRuns
<1>4. ASSUME NEW w \in Workers, Spawn(w) \/ Beat(w) \/ Exit(w)
      PROVE  UNCHANGED <<jobs, workers>>
  BY <1>4 DEF Spawn, Beat, Exit
<1>5. CASE Look \/ LookAtTornFile \/ WriteStarting \/ Age \/ UNCHANGED vars
  BY <1>5 DEF Look, LookAtTornFile, WriteStarting, Age, vars
<1> QED
  BY <1>1, <1>2, <1>3, <1>4, <1>5 DEF WNext

LEMMA WInvInit == WInit => WInv
<1> SUFFICES ASSUME WInit PROVE WInv
  OBVIOUS
<1>1. IndInv /\ Ids = {}
  BY IndInvInit, EmptySeq DEF WInit, Init, Ids
<1>2. NoLocal \in Counts
  BY HandlerAssumption DEF Counts
<1>3. Idle("down") \in Worker(HandlerPoints, Counts) /\ Idle("down").pc = "down"
  BY <1>2, IdleType DEF Points
<1>4. workers = [w \in Workers |-> Idle("down")]
  BY DEF WInit
<1>5. WorkersTyped /\ \A w \in Workers : workers[w].pc = "down"
  BY <1>3, <1>4 DEF WorkersTyped
<1> QED
  BY <1>1, <1>5
     DEF WInv, LinkInv, Bounded, LinkOK, Linked, UnitsInv, KnowsInv, LoopInv, HeldInv, Resting

LEMMA WInvNext == WInv /\ [WNext]_vars => WInv'
<1> SUFFICES ASSUME WInv, [WNext]_vars PROVE WInv'
  OBVIOUS
<1>1. CASE UNCHANGED <<jobs, workers>>
  <2>1. IndInv' /\ UnitsInv' /\ WorkersTyped' /\ LinkInv'
    BY <1>1 DEF WInv, IndInv, TypeOK, Ids, UnitsInv, WorkersTyped, LinkInv, LinkOK, Linked, Bounded
  <2>2. \A w \in Workers : KnowsInv(workers[w])'
    BY <1>1 DEF WInv, KnowsInv, LoopInv, HeldInv, UnitsOf, Holds
  <2> QED
    BY <2>1, <2>2 DEF WInv
<1> QED
  BY <1>1, WSteps, WorkerKeeps, OtherKeeps

THEOREM WInductive == WSpec => []WInv
BY WInvInit, WInvNext, PTL DEF WSpec

-----------------------------------------------------------------------------
(* The theorems.                                                           *)

\* Worker processes are clients of the queue: whatever processes are started, killed
\* or stopped, all they do to the table are steps of the queue, so that every theorem
\* about the queue holds of a table that worker processes share.
THEOREM WorkersImplementQueue == WSpec => Spec
<1>1. WInit => Init
  BY DEF WInit
<1>2. WInv /\ [WNext]_vars => [Next]_jobs
  BY WSteps DEF Runs, Acts
<1> QED
  BY <1>1, <1>2, WInductive, PTL DEF WSpec, Spec

\* A worker that is about to acknowledge a pause or a cancellation and still holds its
\* lease finds the request: acknowledgePaused and acknowledgeCancelled do not throw at
\* it, which nothing in runUntilStopped would catch.
THEOREM AcknowledgementsAccepted == WSpec => []AcknowledgementNeverRefused
<1>1. WInv => AcknowledgementNeverRefused
  BY DEF WInv, KnowsInv, HeldInv, AcknowledgementNeverRefused, Resting, Holds, LeaseLost,
         At, Job, Attempt
<1> QED
  BY <1>1, WInductive, PTL

\* A job that is reported complete has all its units in its durable checkpoint, over
\* any crashes, expired leases and late workers.
THEOREM CompletedIsDone == WSpec => []CompletedDidAllUnits
<1>1. WInv => CompletedDidAllUnits
  BY DEF WInv, UnitsInv, CompletedDidAllUnits
<1> QED
  BY <1>1, WInductive, PTL

\* Whatever a worker writes to a job it writes under its lease, in time.
THEOREM WritesFenced == WSpec => WritesAreFenced
<1>1. ASSUME WInv, [WNext]_vars, NEW w \in Workers,
             workers[w].pc \notin {"down", "recover", "claim"},
             workers'[w] # workers[w], jobs' # jobs
      PROVE  /\ jobs[Job(w)].status = "running"
             /\ jobs[Job(w)].lease = Attempt(w)
             /\ jobs[Job(w)].ttl > 0
  <2>1. PICK v \in Workers : Runs(v)
    BY <1>1, WSteps
  <2>2. v = w
    BY <1>1, <2>1 DEF Runs, Acts
  <2>3. Holds(workers[w])
    BY <1>1, <2>1, <2>2 DEF Runs, Acts, Linked
  <2> QED
    BY <2>3 DEF Holds, HoldsLease, Job, Attempt
<1>2. WInv /\ [WNext]_vars =>
        [\A w \in Workers :
           workers[w].pc \notin {"down", "recover", "claim"} /\ workers'[w] # workers[w]
             /\ jobs' # jobs
           => /\ jobs[Job(w)].status = "running"
              /\ jobs[Job(w)].lease = Attempt(w)
              /\ jobs[Job(w)].ttl > 0]_<<jobs, workers>>
  BY <1>1
<1> QED
  BY <1>2, WInductive, PTL DEF WSpec, WritesAreFenced

\* The durable progress of a resumable job only grows: no late worker, no expired lease
\* and no pause takes it back.
THEOREM CheckpointGrows == WSpec => CheckpointOnlyGrows
<1>1. ASSUME WInv, [WNext]_vars, NEW j \in Ids, ~jobs[j].sub.restart
      PROVE  jobs'[j].checkpoint >= jobs[j].checkpoint
  <2>1. jobs[j].checkpoint \in Nat
    <3>1. jobs[j] \in Row
      BY <1>1, RowsOfTable DEF WInv, IndInv, TypeOK, Ids
    <3> QED
      BY <3>1, BoundsAssumption DEF Row, Checkpoints
  <2>2. CASE jobs' = jobs
    BY <2>1, <2>2
  <2>3. CASE Effect({}, {})
    BY <1>1, <2>1, <2>3 DEF Effect, KeepsCheckpoint
  <2>4. CASE jobs' # jobs /\ \E w \in Workers : Runs(w)
    <3>1. PICK w \in Workers : Runs(w)
      BY <2>4
    <3> DEFINE x == workers[w]
    <3>2. CASE j \notin Saved(x)
      BY <1>1, <2>1, <3>1, <3>2 DEF Runs, Acts, Effect, KeepsCheckpoint
    <3>3. CASE j \in Saved(x)
      <4>1. /\ j = x.job /\ Linked(x) /\ x.pc \notin Resting
            /\ x.pc \in {"save", "ackPause"}
            /\ jobs'[j].checkpoint = IF x.pc = "save" THEN x.local ELSE x.saved
        BY <2>4, <3>1, <3>3 DEF Runs, Saved, Linked, Resting
      <4>2. Holds(x)
        BY <2>4, <3>1, <4>1 DEF Runs, Acts
      <4>3. jobs[j].checkpoint = x.saved /\ (x.pc = "save" => x.saved <= x.local)
        BY <1>1, <4>1, <4>2 DEF WInv, KnowsInv, HeldInv, LoopInv
      <4>4. x.local \in Counts
        BY <1>1, <4>1, JobFacts
      <4> QED
        BY <2>1, <4>1, <4>3, <4>4, BoundsAssumption DEF Counts
    <3> QED
      BY <3>2, <3>3
  <2> QED
    BY <1>1, <2>2, <2>3, <2>4, WSteps
<1>2. WInv /\ [WNext]_vars =>
        [\A j \in Ids : ~jobs[j].sub.restart =>
           jobs'[j].checkpoint >= jobs[j].checkpoint]_jobs
  BY <1>1
<1> QED
  BY <1>2, WInductive, PTL DEF WSpec, CheckpointOnlyGrows

-----------------------------------------------------------------------------
(* The roots.                                                              *)

\* The user was shown a proposal of this volume and place.
WasShown(id) == \E x \in shown : x.role = id.role /\ x.identity = id.identity

\* An event that may go into the journal.
Justified(e) ==
  e.event = "root-approved" => DOMAIN e.root = DOMAIN Unknown /\ WasShown(e.id)

JournalInv ==
  /\ journal = [lines |-> journal.lines, torn |-> journal.torn]
  /\ journal.lines \in Seq(ToSet(journal.lines)) /\ journal.torn \in BOOLEAN
  /\ \A e \in ToSet(journal.lines) : Justified(e)

RequestsInv ==
  /\ DOMAIN requests = Requests /\ DOMAIN proposals = Processes
  /\ \A r \in Requests : Justified(requests[r].event) /\ requests[r].proposal \subseteq shown
  /\ \A q \in Processes : proposals[q] \subseteq shown

\* The events of the requests that have written, and of those that have answered.
Written == answered \cup {requests[r].event : r \in {q \in Requests : requests[q].point = "answer"}}

KeptInv == Garbage \in ToSet(journal.lines) \/ Written \subseteq ToSet(journal.lines)

EInv == JournalInv /\ RequestsInv /\ KeptInv

\* A guard call looks below an approved root that was shown to the user.
GuardInv ==
  /\ DOMAIN guard = DOMAIN NoGuard
  /\ guard.point # "none" => guard.root.status = "approved" /\ WasShown(guard.id)

NInv == EInv /\ GuardInv

-----------------------------------------------------------------------------
(* Sequences and numbers.                                                  *)

LEMMA AppendSet ==
  ASSUME NEW s, s \in Seq(ToSet(s)), NEW e
  PROVE  /\ ToSet(Append(s, e)) = ToSet(s) \cup {e}
         /\ Append(s, e) \in Seq(ToSet(Append(s, e)))
<1> DEFINE T == ToSet(s) \cup {e}
           t == Append(s, e)
<1>1. s \in Seq(T)
  <2>1. Len(s) \in Nat /\ DOMAIN s = 1 .. Len(s) /\ \A i \in 1 .. Len(s) : s[i] \in T
    BY LenProperties, ElementOfSeq DEF ToSet
  <2>2. s \in [1 .. Len(s) -> T]
    BY <2>1, LenProperties
  <2> QED
    BY <2>1, <2>2, SeqDef
<1>2. e \in T
  OBVIOUS
<1> HIDE DEF T
<1>3. /\ t \in Seq(T) /\ Len(s) \in Nat /\ DOMAIN s = 1 .. Len(s)
      /\ DOMAIN t = 1 .. Len(s) + 1 /\ t[Len(s) + 1] = e
      /\ \A i \in 1 .. Len(s) : t[i] = s[i]
  BY <1>1, <1>2, AppendProperties, LenProperties
<1>4. ToSet(t) = T
  BY <1>3 DEF ToSet, T
<1> HIDE DEF t
<1>5. t \in Seq(ToSet(t))
  BY <1>3, <1>4
<1> QED
  BY <1>4, <1>5 DEF T, t

LEMMA MaxIsElement ==
  ASSUME NEW n \in Nat, NEW S \in SUBSET (1 .. n), S # {}
  PROVE  Max(S) \in S
<1> DEFINE above(i) == {k \in S : i <= k}
           segments == {above(i) : i \in S}
<1>1. IsFiniteSet(S)
  <2>1. IsFiniteSet(1 .. n)
    BY FS_Interval
  <2> QED
    BY <2>1, FS_Subset
<1>2. ASSUME NEW i \in S PROVE above(i) \in FiniteSubsetsOf(S)
  <2>1. above(i) \in SUBSET S
    OBVIOUS
  <2> HIDE DEF above
  <2> QED
    BY <1>1, <2>1, FS_Subset DEF FiniteSubsetsOf
<1>3. segments \subseteq FiniteSubsetsOf(S) /\ segments # {}
  BY <1>2
<1>4. PICK segment \in segments :
        \A other \in segments : <<other, segment>> \notin StrictSubsetOrdering(S)
  <2> HIDE DEF segments
  <2> QED
    BY <1>3, FS_StrictSubsetOrderingWellFounded, WFMin
<1>5. PICK i \in S : segment = above(i)
  OBVIOUS
<1>6. ASSUME NEW k \in S, k > i PROVE FALSE
  <2>1. above(k) \in segments
    OBVIOUS
  <2>2. \A l \in S : k <= l => i <= l
    BY <1>6
  <2>3. i <= i /\ ~(k <= i)
    BY <1>6
  <2>4. <<above(k), above(i)>> \in StrictSubsetOrdering(S)
    BY <2>2, <2>3 DEF StrictSubsetOrdering
  <2> HIDE DEF segments
  <2> QED
    BY <1>4, <1>5, <2>1, <2>4
<1>7. \A k \in S : i >= k
  BY <1>6
<1> QED
  BY <1>7 DEF Max

-----------------------------------------------------------------------------
(* The journal and its readers.                                            *)

\* The volume and the place of an approved root that a reader finds were shown to the
\* user.
LEMMA ReplayFound ==
  ASSUME JournalInv, NEW id, replay(journal, id).status = "approved"
  PROVE  DOMAIN replay(journal, id) = DOMAIN Unknown /\ WasShown(id)
<1> DEFINE events == readEvents(journal)
           approvals == {i \in DOMAIN events : events[i].event = "root-approved" /\ events[i].id = id}
           root == events[Max(approvals)].root
           revoked == [root EXCEPT !.status = "revoked"]
<1>1. \/ approvals = {} /\ replay(journal, id) = Unknown
      \/ approvals # {} /\ replay(journal, id) \in {root, revoked}
  BY DEF replay
<1>2. approvals # {}
  BY <1>1 DEF Unknown
<1>3. events = journal.lines
  <2>1. events = journal.lines \/ events = <<Garbage>>
    BY DEF readEvents, Refused
  <2>2. events = <<Garbage>> => approvals = {}
    BY DEF Garbage
  <2> QED
    BY <1>2, <2>1, <2>2
<1>4. Max(approvals) \in approvals
  <2>1. Len(journal.lines) \in Nat /\ DOMAIN journal.lines = 1 .. Len(journal.lines)
    BY LenProperties DEF JournalInv
  <2>2. approvals \in SUBSET (1 .. Len(journal.lines))
    BY <1>3, <2>1
  <2> HIDE DEF approvals
  <2> QED
    BY <1>2, <2>1, <2>2, MaxIsElement
<1> DEFINE e == journal.lines[Max(approvals)]
<1>5. e \in ToSet(journal.lines) /\ e.event = "root-approved" /\ e.id = id /\ root = e.root
  BY <1>3, <1>4 DEF ToSet
<1>6. DOMAIN root = DOMAIN Unknown /\ WasShown(id)
  BY <1>5 DEF JournalInv, Justified
<1> HIDE DEF root, approvals, e
<1>7. revoked.status = "revoked"
  BY <1>6 DEF Unknown
<1> QED
  BY <1>1, <1>2, <1>6, <1>7

LEMMA JustifiedMore ==
  ASSUME NEW e, Justified(e), shown \subseteq shown'
  PROVE  Justified(e)'
BY DEF Justified, WasShown

\* A request that has read, or that has been refused: what it would write is justified.
LEMMA GoesKeeps ==
  ASSUME EInv, NEW r \in Requests, NEW point, NEW event, NEW proposal,
         Goes(r, point, event, proposal), Justified(event), proposal \subseteq shown,
         point # "answer",
         UNCHANGED <<journal, proposals, shown, answered>>
  PROVE  EInv'
<1> DEFINE new == [point |-> point, event |-> event, proposal |-> proposal]
<1>1. /\ requests' = [requests EXCEPT ![r] = new] /\ DOMAIN requests = Requests
      /\ new.point = point /\ new.event = event /\ new.proposal = proposal
  BY DEF Goes, EInv, RequestsInv
<1> HIDE DEF new
<1>2. /\ DOMAIN requests' = Requests
      /\ requests'[r].event = event /\ requests'[r].proposal = proposal
      /\ requests'[r].point # "answer"
      /\ \A q \in Requests \ {r} : requests'[q] = requests[q]
  BY <1>1
<1>3. JournalInv'
  BY DEF EInv, JournalInv, Justified, WasShown
<1>4. RequestsInv'
  BY <1>2 DEF EInv, RequestsInv, Justified, WasShown
<1>5. Written' \subseteq Written
  BY <1>2 DEF Written
<1> QED
  BY <1>3, <1>4, <1>5 DEF EInv, KeptInv

LEMMA IdleJustified ==
  /\ Justified(Garbage) /\ NoRequest.event = Garbage /\ NoRequest.point # "answer"
  /\ NoRequest.proposal = {} /\ \A p : Justified(Inspection(p))
BY DEF Justified, Garbage, Inspection, NoRequest

LEMMA ProposeKeeps ==
  ASSUME EInv, NEW r \in Requests, NEW role \in Roles, NEW p \in Enrollable, propose(r, role, p)
  PROVE  EInv' /\ shown \subseteq shown'
<1> DEFINE proposal == [role |-> role, path |-> p, identity |-> RootIdentity(p)]
           q == ProcessOf[r]
<1>1. /\ proposals' = [proposals EXCEPT ![q] = @ \cup {proposal}]
      /\ shown' = shown \cup {proposal} /\ UNCHANGED <<journal, requests, answered>>
      /\ q \in Processes
  BY DEF propose, Processes
<1> HIDE DEF proposal, q
<1>2. JournalInv'
  BY <1>1, JustifiedMore DEF EInv, JournalInv
<1>3. RequestsInv'
  BY <1>1, JustifiedMore DEF EInv, RequestsInv
<1>4. KeptInv'
  BY <1>1 DEF EInv, KeptInv, Written
<1> QED
  BY <1>1, <1>2, <1>3, <1>4 DEF EInv

\* A request goes on with what it has found, or is refused.
LEMMA GoesIfKeeps ==
  ASSUME EInv, NEW r \in Requests, NEW allowed, NEW point, NEW event,
         GoesIf(allowed, r, point, event), allowed => Justified(event), point # "answer",
         UNCHANGED <<journal, proposals, shown, answered>>
  PROVE  EInv'
<1>1. requests[r].proposal \subseteq shown
  BY DEF EInv, RequestsInv
<1>2. CASE allowed
  BY <1>1, <1>2, GoesKeeps DEF GoesIf
<1>3. CASE ~allowed
  <2>1. Goes(r, "idle", Garbage, {})
    BY <1>3 DEF GoesIf, Goes, NoRequest
  <2> QED
    BY <2>1, IdleJustified, GoesKeeps
<1> QED
  BY <1>2, <1>3

LEMMA LooksOfApproval ==
  ASSUME EInv, NEW r \in Requests,
         (\E proposal \in proposals[ProcessOf[r]] : ApproveWalk(r, proposal)) \/ ApproveReal(r)
  PROVE  EInv' /\ UNCHANGED shown
<1>1. CASE \E proposal \in proposals[ProcessOf[r]] : ApproveWalk(r, proposal)
  <2>1. PICK proposal \in proposals[ProcessOf[r]] : ApproveWalk(r, proposal)
    BY <1>1
  <2>2. ProcessOf[r] \in Processes
    BY DEF Processes
  <2>3. {proposal} \subseteq shown
    BY <2>2 DEF EInv, RequestsInv
  <2> QED
    BY <2>1, <2>3, IdleJustified, GoesKeeps DEF ApproveWalk
<1>2. CASE ApproveReal(r)
  BY <1>2, IdleJustified, GoesIfKeeps DEF ApproveReal
<1> QED
  BY <1>1, <1>2

\* What is found at last is enrolled only when it is the volume and the place of the
\* proposal, which the user has seen.
LEMMA ApproveKeeps ==
  ASSUME EInv, NEW r \in Requests, ApproveStat(r)
  PROVE  EInv' /\ UNCHANGED shown
<1> DEFINE path == requests[r].event.path
           id(proposal) == [role |-> proposal.role, identity |-> RootIdentity(path)]
           root == [status |-> "approved", path |-> path, writes |-> FALSE, retirement |-> FALSE]
           allowed(proposal) == /\ realpath[path] # Nowhere /\ tree[realpath[path]].kind = "directory"
                                /\ SameIdentity(path, proposal)
<1>1. PICK proposal \in requests[r].proposal :
        GoesIf(allowed(proposal), r, "get", Approved(id(proposal), root))
  BY DEF ApproveStat
<1> DEFINE e == Approved(id(proposal), root)
<1>2. allowed(proposal) => Justified(e)
  <2>1. proposal \in shown
    BY DEF EInv, RequestsInv
  <2>2. e.root = root /\ e.id = id(proposal) /\ id(proposal).role = proposal.role
        /\ id(proposal).identity = RootIdentity(path) /\ DOMAIN root = DOMAIN Unknown
    BY DEF Approved, Unknown
  <2>3. allowed(proposal) => RootIdentity(path) = proposal.identity
    BY DEF SameIdentity
  <2> HIDE DEF e, root, id, allowed, path
  <2> QED
    BY <2>1, <2>2, <2>3 DEF Justified, WasShown
<1>3. UNCHANGED <<journal, proposals, shown, answered>>
  BY DEF ApproveStat
<1> HIDE DEF e, allowed, id, root
<1>4. GoesIf(allowed(proposal), r, "get", e)
  BY <1>1 DEF e
<1> QED
  BY <1>2, <1>3, <1>4, GoesIfKeeps

LEMMA ApproveGetKeeps ==
  ASSUME EInv, NEW r \in Requests, ApproveGet(r)
  PROVE  EInv'
<1>1. Justified(requests[r].event)
  BY DEF EInv, RequestsInv
<1> QED
  BY <1>1, GoesIfKeeps DEF ApproveGet

\* A change of access writes the whole root that it has read, with another access.
LEMMA SetAccessKeeps ==
  ASSUME EInv, NEW r \in Requests, NEW id \in Enrolled, NEW writes \in BOOLEAN,
         NEW retirement \in BOOLEAN, SetAccess(r, id, writes, retirement)
  PROVE  EInv'
<1> DEFINE old == replay(journal, id)
           mid == [old EXCEPT !.writes = writes]
           root == [mid EXCEPT !.retirement = retirement]
           e == Approved(id, root)
<1>1. /\ Goes(r, "append", e, {}) /\ UNCHANGED <<journal, proposals, shown, answered>>
      /\ old.status = "approved"
  BY DEF SetAccess
<1>2. DOMAIN old = DOMAIN Unknown /\ WasShown(id)
  BY <1>1, ReplayFound DEF EInv
<1>3. e.root = root /\ e.id = id
  BY DEF Approved
<1> HIDE DEF e, old
<1>4. DOMAIN mid = DOMAIN Unknown
  BY <1>2
<1> HIDE DEF mid
<1>5. DOMAIN root = DOMAIN Unknown
  BY <1>4
<1> HIDE DEF root
<1>6. Justified(e)
  BY <1>2, <1>3, <1>5 DEF Justified
<1> QED
  BY <1>1, <1>6, GoesKeeps

LEMMA RevokeKeeps ==
  ASSUME EInv, NEW r \in Requests, NEW id, revoke(r, id)
  PROVE  EInv'
<1>1. Goes(r, "append", Revoked(id), {}) /\ UNCHANGED <<journal, proposals, shown, answered>>
  BY DEF revoke
<1>2. Justified(Revoked(id))
  BY DEF Justified, Revoked
<1> QED
  BY <1>1, <1>2, GoesKeeps

\* A line is written whole, or it makes one that nobody can read with the part of a
\* line that was there: what has been written is not forgotten silently.
LEMMA AppendKeeps ==
  ASSUME EInv, NEW r \in Requests, AppendEvent(r)
  PROVE  EInv'
<1> DEFINE event == requests[r].event
           line == IF journal.torn THEN Garbage ELSE event
           lines == Append(journal.lines, line)
           new == [point |-> "answer", event |-> event, proposal |-> requests[r].proposal]
<1>1. /\ journal' = [lines |-> lines, torn |-> FALSE]
      /\ requests' = [requests EXCEPT ![r] = new] /\ new.event = event
      /\ new.proposal = requests[r].proposal
      /\ UNCHANGED <<proposals, shown, answered>>
  BY DEF AppendEvent, append, Goes
<1>2. /\ ToSet(lines) = ToSet(journal.lines) \cup {line} /\ lines \in Seq(ToSet(lines))
  BY AppendSet DEF EInv, JournalInv
<1>3. Justified(event) /\ Justified(line) /\ DOMAIN requests = Requests
  BY IdleJustified DEF EInv, RequestsInv
<1>4. journal.torn \in BOOLEAN /\ (journal.torn => line = Garbage) /\ (~journal.torn => line = event)
  BY DEF EInv, JournalInv
<1> HIDE DEF lines, line, new
<1>5. JournalInv'
  <2>1. journal'.lines = lines /\ journal'.torn = FALSE
    BY <1>1
  <2>2. \A e \in ToSet(lines) : Justified(e)
    BY <1>2, <1>3 DEF EInv, JournalInv
  <2> QED
    BY <1>1, <1>2, <2>1, <2>2 DEF JournalInv, Justified, WasShown
<1>6. /\ DOMAIN requests' = Requests /\ requests'[r].event = event
      /\ requests'[r].proposal = requests[r].proposal
      /\ \A q \in Requests \ {r} : requests'[q] = requests[q]
  BY <1>1, <1>3
<1>7. RequestsInv'
  BY <1>1, <1>3, <1>6 DEF EInv, RequestsInv, Justified, WasShown
<1>8. KeptInv'
  <2>1. Written' \subseteq Written \cup {event}
    BY <1>1, <1>6 DEF Written
  <2>2. journal'.lines = lines
    BY <1>1
  <2>3. Garbage \in ToSet(lines) \/ Written \cup {event} \subseteq ToSet(lines)
    BY <1>2, <1>4 DEF EInv, KeptInv
  <2> QED
    BY <2>1, <2>2, <2>3 DEF KeptInv
<1> QED
  BY <1>5, <1>7, <1>8 DEF EInv

LEMMA AnswerKeeps ==
  ASSUME EInv, NEW r \in Requests, Answer(r)
  PROVE  EInv'
<1> DEFINE q == ProcessOf[r]
<1>1. /\ requests[r].point = "answer" /\ requests' = [requests EXCEPT ![r] = NoRequest]
      /\ proposals' = [proposals EXCEPT ![q] = @ \ requests[r].proposal]
      /\ answered' = answered \cup {requests[r].event}
      /\ UNCHANGED <<journal, shown>> /\ q \in Processes
      /\ DOMAIN requests = Requests /\ DOMAIN proposals = Processes
  BY DEF Answer, Processes, EInv, RequestsInv
<1> HIDE DEF q
<1>2. JournalInv'
  BY <1>1, JustifiedMore DEF EInv, JournalInv
<1>3. /\ DOMAIN requests' = Requests /\ requests'[r] = NoRequest
      /\ \A s \in Requests \ {r} : requests'[s] = requests[s]
      /\ DOMAIN proposals' = Processes /\ \A s \in Processes : proposals'[s] \subseteq proposals[s]
  BY <1>1
<1>4. RequestsInv'
  BY <1>1, <1>3, IdleJustified, JustifiedMore DEF EInv, RequestsInv
<1>5. Written' \subseteq Written
  BY <1>1, <1>3, IdleJustified DEF Written
<1> QED
  BY <1>1, <1>2, <1>4, <1>5 DEF EInv, KeptInv

\* A process that ends forgets its requests, and may leave a part of a line.
LEMMA ExitKeeps ==
  ASSUME EInv, NEW process, ExitProcess(process)
  PROVE  EInv'
<1>1. PICK torn \in BOOLEAN : journal' = [journal EXCEPT !.torn = torn]
  BY DEF ExitProcess
<1>2. /\ \A r \in Requests : requests'[r] \in {NoRequest, requests[r]}
      /\ DOMAIN requests' = Requests
      /\ DOMAIN proposals' = Processes /\ \A s \in Processes : proposals'[s] \subseteq proposals[s]
      /\ UNCHANGED <<shown, answered>>
  BY DEF ExitProcess, EInv, RequestsInv
<1>3. journal' = [lines |-> journal.lines, torn |-> torn]
  BY <1>1 DEF EInv, JournalInv
<1>4. journal'.lines = journal.lines /\ journal'.torn = torn
  BY <1>3
<1>5. JournalInv'
  BY <1>2, <1>3, <1>4, JustifiedMore DEF EInv, JournalInv
<1>6. RequestsInv'
  BY <1>2, IdleJustified, JustifiedMore DEF EInv, RequestsInv
<1>7. Written' \subseteq Written
  BY <1>2, IdleJustified DEF Written
<1> QED
  BY <1>4, <1>5, <1>6, <1>7 DEF EInv, KeptInv

LEMMA EnrollmentKeeps ==
  ASSUME EInv, EnrollmentMoves
  PROVE  EInv' /\ shown \subseteq shown'
<1>1. PICK r \in Requests :
        \/ \E role \in Roles, p \in Enrollable : propose(r, role, p)
        \/ (\E proposal \in proposals[ProcessOf[r]] : ApproveWalk(r, proposal)) \/ ApproveReal(r)
        \/ ApproveStat(r)
        \/ ApproveGet(r) \/ AppendEvent(r) \/ Answer(r)
        \/ \E id \in Enrolled : revoke(r, id)
        \/ \E id \in Enrolled, writes, retirement \in BOOLEAN : SetAccess(r, id, writes, retirement)
  BY DEF EnrollmentMoves
<1>2. CASE \E role \in Roles, p \in Enrollable : propose(r, role, p)
  BY <1>2, ProposeKeeps
<1>3. CASE (\E proposal \in proposals[ProcessOf[r]] : ApproveWalk(r, proposal)) \/ ApproveReal(r)
  BY <1>3, LooksOfApproval
<1>9. CASE ApproveStat(r)
  BY <1>9, ApproveKeeps
<1>4. CASE ApproveGet(r)
  BY <1>4, ApproveGetKeeps DEF ApproveGet
<1>5. CASE AppendEvent(r)
  BY <1>5, AppendKeeps DEF AppendEvent
<1>6. CASE Answer(r)
  BY <1>6, AnswerKeeps DEF Answer
<1>7. CASE \E id \in Enrolled : revoke(r, id)
  BY <1>7, RevokeKeeps DEF revoke
<1>8. CASE \E id \in Enrolled, writes, retirement \in BOOLEAN : SetAccess(r, id, writes, retirement)
  <2>1. UNCHANGED shown
    BY <1>8 DEF SetAccess
  <2> QED
    BY <1>8, <2>1, SetAccessKeeps
<1> QED
  BY <1>1, <1>2, <1>3, <1>4, <1>5, <1>6, <1>7, <1>8, <1>9

-----------------------------------------------------------------------------
(* The guard.                                                              *)

LEMMA NothingAsked ==
  /\ NoGuard.point = "none"
  /\ DOMAIN NoGuard = {"point", "mode", "id", "root", "target", "path", "clean", "canonical", "quiet"}
BY DEF NoGuard

\* A look keeps the root that was read, and may refuse.
LEMMA LooksKeep ==
  ASSUME GuardInv, shown \subseteq shown', guard.point # "none",
         \/ guard' = NoGuard
         \/ /\ DOMAIN guard' = DOMAIN guard
            /\ guard'.root = guard.root /\ guard'.id = guard.id
  PROVE  GuardInv'
BY NothingAsked DEF GuardInv, WasShown

\* A call begins with a root that the enrollment holds as approved.
LEMMA BeginKeeps ==
  ASSUME NInv, UNCHANGED shown, NEW mode, NEW id, NEW target, NEW writes,
         BeginGuard(mode, id, target, writes)
  PROVE  GuardInv'
<1> DEFINE root == replay(journal, id)
<1>1. /\ root.status = "approved"
      /\ guard' = [NoGuard EXCEPT !.point = "root-walk", !.mode = mode, !.id = id, !.root = root,
                                  !.target = target, !.path = root.path]
  BY DEF BeginGuard
<1>2. WasShown(id)
  BY <1>1, ReplayFound DEF NInv, EInv
<1> HIDE DEF root
<1>3. /\ DOMAIN guard' = DOMAIN NoGuard
      /\ guard'.point = "root-walk" /\ guard'.id = id /\ guard'.root = root
  BY <1>1, NothingAsked
<1> QED
  BY <1>1, <1>2, <1>3 DEF GuardInv, WasShown

LEMMA AllLooksKeep ==
  ASSUME GuardInv, UNCHANGED shown,
         \/ RootWalk \/ RootReal \/ RootStat \/ Reload \/ Ancestor
         \/ Walk \/ Real \/ Stat \/ Again
  PROVE  GuardInv'
<1> DEFINE kept ==
      /\ guard.point # "none"
      /\ \/ guard' = NoGuard
         \/ /\ DOMAIN guard' = DOMAIN guard
            /\ guard'.root = guard.root /\ guard'.id = guard.id
<1> USE NothingAsked DEF GoOn, GuardInv
<1>1. CASE RootWalk
  <2>1. kept
    BY <1>1 DEF RootWalk
  <2> QED
    BY <2>1, LooksKeep
<1>2. CASE RootReal
  <2>1. kept
    BY <1>2 DEF RootReal
  <2> QED
    BY <2>1, LooksKeep
<1>3. CASE RootStat
  <2>1. kept
    BY <1>3 DEF RootStat
  <2> QED
    BY <2>1, LooksKeep
<1>4. CASE Reload
  <2>1. kept
    BY <1>4 DEF Reload
  <2> QED
    BY <2>1, LooksKeep
<1>5. CASE Ancestor
  <2>1. kept
    BY <1>5 DEF Ancestor
  <2> QED
    BY <2>1, LooksKeep
<1>6. CASE Walk
  <2>1. kept
    BY <1>6 DEF Walk
  <2> QED
    BY <2>1, LooksKeep
<1>7. CASE Real
  <2>1. kept
    BY <1>7 DEF Real
  <2> QED
    BY <2>1, LooksKeep
<1>8. CASE Stat
  <2>1. kept
    BY <1>8 DEF Stat
  <2> QED
    BY <2>1, LooksKeep
<1>9. CASE Again
  <2>1. kept
    BY <1>9 DEF Again
  <2> QED
    BY <2>1, LooksKeep
<1> QED
  BY <1>1, <1>2, <1>3, <1>4, <1>5, <1>6, <1>7, <1>8, <1>9

LEMMA GuardKeeps ==
  ASSUME NInv, GuardMoves
  PROVE  NInv'
<1>1. UNCHANGED enrollment
  BY DEF GuardMoves
<1>2. UNCHANGED <<journal, proposals, requests, shown, answered>>
  BY <1>1 DEF enrollment
<1>3. EInv'
  BY <1>2 DEF NInv, EInv, JournalInv, RequestsInv, KeptInv, Written, Justified, WasShown
<1>4. CASE \E id \in Enrolled, mode \in Modes, target \in Targets, writes \in BOOLEAN :
             BeginGuard(mode, id, target, writes)
  BY <1>2, <1>3, <1>4, BeginKeeps DEF NInv
<1>5. CASE \/ RootWalk \/ RootReal \/ RootStat \/ Reload \/ Ancestor
           \/ Walk \/ Real \/ Stat \/ Again
  BY <1>2, <1>3, <1>5, AllLooksKeep DEF NInv
<1> QED
  BY <1>4, <1>5 DEF GuardMoves

LEMMA UserKeeps ==
  ASSUME NInv, UserActs
  PROVE  NInv'
<1>1. /\ UNCHANGED enrollment
      /\ guard' = [guard EXCEPT !.quiet = guard.point = "none"]
  BY DEF UserActs
<1>2. UNCHANGED <<journal, proposals, requests, shown, answered>>
  BY <1>1 DEF enrollment
<1>3. EInv'
  BY <1>2 DEF NInv, EInv, JournalInv, RequestsInv, KeptInv, Written, Justified, WasShown
<1>4. /\ DOMAIN guard' = DOMAIN guard
      /\ guard'.point = guard.point /\ guard'.root = guard.root /\ guard'.id = guard.id
      /\ guard'.canonical = guard.canonical
  BY <1>1, NothingAsked DEF NInv, GuardInv
<1> QED
  BY <1>2, <1>3, <1>4 DEF NInv, GuardInv, WasShown

-----------------------------------------------------------------------------
(* The invariant.                                                          *)

\* Of a root that is enrolled at the beginning, the proposal was shown.
LEMMA EnrolledHolds ==
  ASSUME NEW role, NEW p \in Enrollable, EnrolledInit(role, p)
  PROVE  EInv
<1> DEFINE id == [role |-> role, identity |-> RootIdentity(p)]
           root == [status |-> "approved", path |-> p, writes |-> TRUE, retirement |-> FALSE]
           e == Approved(id, root)
<1>1. /\ journal = [lines |-> <<e>>, torn |-> FALSE]
      /\ proposals = [q \in Processes |-> {}] /\ requests = [r \in Requests |-> NoRequest]
      /\ answered = {e} /\ shown = {[role |-> role, path |-> p, identity |-> id.identity]}
  BY DEF EnrolledInit
<1>2. DOMAIN root = DOMAIN Unknown
  BY DEF Unknown
<1>3. e.root = root /\ e.id = id
  BY DEF Approved
<1>4. WasShown(id)
  BY <1>1 DEF WasShown
<1> HIDE DEF e, id, root
<1>5. Justified(e)
  BY <1>2, <1>3, <1>4 DEF Justified
<1>6. journal.lines = <<e>> /\ journal.torn = FALSE
  BY <1>1
<1>7. ToSet(<<e>>) = {e} /\ <<e>> \in Seq({e})
  BY DEF ToSet
<1>8. JournalInv
  BY <1>1, <1>5, <1>6, <1>7 DEF JournalInv
<1>9. RequestsInv
  BY <1>1, IdleJustified DEF RequestsInv
<1>10. Written \subseteq {e}
  BY <1>1, IdleJustified DEF Written
<1> QED
  BY <1>6, <1>7, <1>8, <1>9, <1>10 DEF EInv, KeptInv

LEMMA NothingEnrolledHolds ==
  ASSUME EnrollmentInit
  PROVE  EInv
<1>1. /\ journal = [lines |-> <<>>, torn |-> FALSE]
      /\ proposals = [q \in Processes |-> {}] /\ requests = [r \in Requests |-> NoRequest]
      /\ answered = {} /\ shown = {}
  BY DEF EnrollmentInit
<1>2. journal.lines = <<>> /\ journal.torn = FALSE
  BY <1>1
<1>3. ToSet(<<>>) = {} /\ <<>> \in Seq({})
  BY DEF ToSet
<1>4. JournalInv
  BY <1>1, <1>2, <1>3 DEF JournalInv
<1>5. RequestsInv
  BY <1>1, IdleJustified DEF RequestsInv
<1>6. Written = {}
  BY <1>1, IdleJustified DEF Written
<1> QED
  BY <1>2, <1>4, <1>5, <1>6 DEF EInv, KeptInv

\* The enrollment and the guard keep together what the theorems below need: the
\* journal and the requests hold justified events only, what was written is still
\* there, and a guard looks below a root that was shown.
THEOREM NInductive == NSpec => []NInv
<1>1. NInit => NInv
  <2> SUFFICES ASSUME NInit PROVE NInv
    OBVIOUS
  <2>1. EInv
    BY EnrolledHolds, NothingEnrolledHolds, GuardAssumption DEF NInit
  <2>2. GuardInv
    BY NothingAsked DEF NInit, GuardInv, WasShown
  <2> QED
    BY <2>1, <2>2 DEF NInv
<1>2. NInv /\ [NNext]_nvars => NInv'
  <2> SUFFICES ASSUME NInv, [NNext]_nvars PROVE NInv'
    OBVIOUS
  <2>1. CASE EnrollmentMoves /\ UNCHANGED <<disk, guard, acts>>
    <3>1. EInv' /\ shown \subseteq shown' /\ UNCHANGED guard
      BY <2>1, EnrollmentKeeps DEF NInv
    <3> QED
      BY <3>1 DEF NInv, GuardInv, WasShown
  <2>2. CASE (\E process \in Processes : ExitProcess(process)) /\ UNCHANGED <<disk, guard, acts>>
    <3>1. EInv' /\ UNCHANGED <<guard, shown>>
      BY <2>2, ExitKeeps DEF NInv, ExitProcess
    <3> QED
      BY <3>1 DEF NInv, GuardInv, WasShown
  <2>3. CASE GuardMoves
    BY <2>3, GuardKeeps
  <2>4. CASE UserActs
    BY <2>4, UserKeeps
  <2>5. CASE UNCHANGED nvars
    BY <2>5 DEF nvars, NInv, EInv, JournalInv, RequestsInv, KeptInv, Written, Justified, GuardInv,
                WasShown
  <2> QED
    BY <2>1, <2>2, <2>3, <2>4, <2>5 DEF NNext
<1> QED
  BY <1>1, <1>2, PTL DEF NSpec

\* However many processes write to the journal, and wherever they die in a line, what
\* a request has answered is in the journal for as long as it can be read
\* (enrollment-store.ts:139-181).
THEOREM AcknowledgementsKept == NSpec => []AcknowledgedIsKept
<1>1. NInv => AcknowledgedIsKept
  <2> SUFFICES ASSUME NInv, Readable PROVE answered \subseteq ToSet(journal.lines)
    BY DEF AcknowledgedIsKept
  <2>1. Garbage \notin ToSet(journal.lines)
    BY DEF Readable, readEvents, Refused, ToSet
  <2> QED
    BY <2>1 DEF NInv, EInv, KeptInv, Written
<1> QED
  BY <1>1, NInductive, PTL

\* The journal approves a root only for a volume and a place on it that were shown to
\* the user, also when the disk changes between the looks of the approval, and by a
\* change of access that writes the root again (enrollment-service.ts:86-125, 174-233).
THEOREM ApprovalsShown == NSpec => []ApprovedWasShown
<1>1. NInv => ApprovedWasShown
  <2> SUFFICES ASSUME NInv, NEW i \in DOMAIN journal.lines, journal.lines[i].event = "root-approved"
               PROVE  WasShown(journal.lines[i].id)
    BY DEF ApprovedWasShown, WasShown
  <2>1. journal.lines[i] \in ToSet(journal.lines)
    BY DEF ToSet
  <2> QED
    BY <2>1 DEF NInv, EInv, JournalInv, Justified
<1> QED
  BY <1>1, NInductive, PTL

\* A path is authorized only below a root that was approved when the guard began, and of
\* which the user had been shown the volume and the place that the guard compares, however
\* the disk changes between its looks (root-guard.ts:49-178).
THEOREM AuthorizationsShown ==
  NSpec => [](guard.point = "issued" =>
                guard.root.status = "approved" /\ WasShown(guard.id))
<1>1. NInv =>
        (guard.point = "issued" =>
           guard.root.status = "approved" /\ WasShown(guard.id))
  BY DEF NInv, GuardInv
<1> QED
  BY <1>1, NInductive, PTL
=============================================================================
