------------------------- MODULE ReconciliationProofs -------------------------
(***************************************************************************)
(* Theorems about the comparison of two scans, for any scans, page size,   *)
(* workers and crashes.                                                    *)
(*                                                                         *)
(* The store asks no lease, so several workers may sweep the same          *)
(* comparison, each from a checkpoint that may be old by then, and the     *)
(* phase of the run may go back.  The argument is that nobody is ever      *)
(* further than what has been found: every position that a worker, a       *)
(* checkpoint or the run names has all differences before it among the     *)
(* deltas, and deltas are never removed.                                   *)
(***************************************************************************)
EXTENDS Reconciliation, JobQueueProofs

\* What the joins find, of any pair of scans.
DiffersIn(s, k, p) ==
  CASE k = 1 -> s[p].before # 0 /\ s[p].after = 0
    [] k = 2 -> s[p].after # 0 /\ s[p].before = 0
    [] k = 3 -> s[p].before # 0 /\ s[p].after # 0 /\ s[p].before # s[p].after

Delta(k, p) == [path |-> p, kind |-> Kind[k]]

\* All differences up to a position are among the deltas.
Swept(found, s, phase, after) ==
  \A k \in Phases, p \in Paths :
    /\ k < phase \/ (k = phase /\ p <= after)
    /\ DiffersIn(s, k, p)
    => Delta(k, p) \in found

SweptTo(found, s, c) ==
  c # 0 => /\ PhaseOf(c) \in Phases /\ AfterOf(c) \in 0 .. P
           /\ Swept(found, s, PhaseOf(c), AfterOf(c))

WorkersTyped == workers \in [Workers -> Worker(HandlerPoints, Locals)]

StoreTyped ==
  /\ scans \in [Paths -> [before : Nat, after : Nat]]
  /\ run \in [status : RunStatuses, job : 0 .. MaxJobs, phase : Phases, counts : [Phases -> Nat]]
  /\ deltas \subseteq Deltas

\* Where a worker is in the sweep.
WorkInv(x) ==
  /\ x.pc \notin Resting => SweptTo(deltas, scans, x.saved)
  /\ x.pc \in HandlerPoints \ {"begin"} => Swept(deltas, scans, x.local.phase, x.local.after)
  /\ x.pc = "persist" =>
       x.local.items = reconciliationWork(x.local.phase, x.local.after) /\ x.local.items # {}
  /\ x.pc = "close" => Swept(deltas, scans, 3, P)

RowsInv == \A j \in Ids : SweptTo(deltas, scans, jobs[j].checkpoint)

\* The run, and that the deltas are differences and no more.
RunInv ==
  /\ Swept(deltas, scans, run.phase, 0)
  /\ run.status = "completed" => Swept(deltas, scans, 3, P)
  /\ \A d \in deltas : \E k \in Phases, p \in Paths : DiffersIn(scans, k, p) /\ d = Delta(k, p)
  /\ CountsMatchTheDeltas

CInv ==
  /\ IndInv /\ LinkInv /\ WorkersTyped /\ StoreTyped /\ RowsInv /\ RunInv
  /\ \A w \in Workers : WorkInv(workers[w])

-----------------------------------------------------------------------------
(* The sweep.                                                              *)

LEMMA SweptMore ==
  ASSUME NEW found, NEW more, found \subseteq more, NEW s, NEW phase, NEW after,
         Swept(found, s, phase, after)
  PROVE  Swept(more, s, phase, after)
BY DEF Swept

LEMMA SweptToMore ==
  ASSUME NEW found, NEW more, found \subseteq more, NEW s, NEW c, SweptTo(found, s, c)
  PROVE  SweptTo(more, s, c)
BY SweptMore DEF SweptTo

LEMMA SweptBack ==
  ASSUME NEW found, NEW s, NEW phase, NEW after \in 0 .. P, Swept(found, s, phase, after)
  PROVE  Swept(found, s, phase, 0)
BY ReconciliationAssumption DEF Swept, Paths

\* A checkpoint names the position it was made of.
LEMMA CodePosition ==
  ASSUME NEW phase \in Phases, NEW after \in 0 .. P
  PROVE  /\ Code(phase, after) \in Checkpoints /\ Code(phase, after) # 0
         /\ PhaseOf(Code(phase, after)) = phase /\ AfterOf(Code(phase, after)) = after
<1>1. P \in Nat /\ MaxUnits >= 3 * (P + 1) /\ MaxUnits \in Nat
  BY ReconciliationAssumption, BoundsAssumption
<1>2. phase = 1 \/ phase = 2 \/ phase = 3
  BY DEF Phases
<1> DEFINE k == P + 1
           above == (phase - 1) * k
           code == Code(phase, after)
<1>3. k \in Nat /\ k > 0 /\ above \in {0, k, 2 * k} /\ above + after + 1 <= 3 * k
  BY <1>1, <1>2
<1>4. code = 1 + above + after
  BY DEF Code
<1>5. (above + after) \div k = phase - 1
  BY <1>1, <1>2
<1>6. (above + after) % k = after
  BY <1>1, <1>2
<1>7. PhaseOf(code) = phase /\ AfterOf(code) = after
  <2>1. PhaseOf(code) = 1 + (code - 1) \div k /\ AfterOf(code) = (code - 1) % k
    BY DEF PhaseOf, AfterOf
  <2> HIDE DEF above, k, code
  <2>2. code - 1 = above + after
    BY <1>3, <1>4
  <2> QED
    BY <1>2, <1>5, <1>6, <2>1, <2>2
<1>8. MaxUnits >= 3 * k
  BY <1>1
<1> HIDE DEF above, k, code
<1>9. code \in 1 .. MaxUnits
  BY <1>1, <1>3, <1>4, <1>8
<1> QED
  BY <1>7, <1>9 DEF Checkpoints, code

-----------------------------------------------------------------------------
(* The joins and their pages.                                              *)

\* The three joins together find what reconcile() finds in the two lists.
LEMMA JoinsFind ==
  ASSUME NEW d
  PROVE  d \in reconcile <=> \E k \in Phases, p \in Paths : DiffersIn(scans, k, p) /\ d = Delta(k, p)
<1>1. \A p \in Paths : /\ DiffersIn(scans, 1, p) <=> p \in Observed("before") \ Observed("after")
                       /\ DiffersIn(scans, 2, p) <=> p \in Observed("after") \ Observed("before")
                       /\ DiffersIn(scans, 3, p) <=>
                            /\ p \in Observed("before") \cap Observed("after")
                            /\ scans[p].before # scans[p].after
  BY DEF DiffersIn, Observed
<1>2. \A p \in Paths : /\ Delta(1, p) = [path |-> p, kind |-> "missing"]
                       /\ Delta(2, p) = [path |-> p, kind |-> "added"]
                       /\ Delta(3, p) = [path |-> p, kind |-> "metadata-changed"]
  BY DEF Delta, Kind
<1>3. Observed("before") \subseteq Paths /\ Observed("after") \subseteq Paths
  BY DEF Observed
<1>4. \A k \in Phases : k = 1 \/ k = 2 \/ k = 3
  BY DEF Phases
<1>5. 1 \in Phases /\ 2 \in Phases /\ 3 \in Phases
  BY DEF Phases
<1>6. d \in reconcile <=>
        \/ \E p \in Paths : DiffersIn(scans, 1, p) /\ d = Delta(1, p)
        \/ \E p \in Paths : DiffersIn(scans, 2, p) /\ d = Delta(2, p)
        \/ \E p \in Paths : DiffersIn(scans, 3, p) /\ d = Delta(3, p)
  BY <1>1, <1>2, <1>3 DEF reconcile
<1> QED
  BY <1>4, <1>5, <1>6

\* What a join has behind a position.
Rest(phase, after) == {p \in Paths : p > after /\ DiffersIn(scans, phase, p)}

\* A page is the beginning of what is left, and it is empty only at the end.
LEMMA PageOfRest ==
  ASSUME NEW phase \in Phases, NEW after \in 0 .. P
  PROVE  LET page == reconciliationWork(phase, after)
         IN /\ page \subseteq Rest(phase, after)
            /\ \A p \in page, q \in Rest(phase, after) : q <= p => q \in page
            /\ page = {} => Rest(phase, after) = {}
<1> DEFINE rest == Rest(phase, after)
           upTo(p) == {q \in rest : q <= p}
           page == reconciliationWork(phase, after)
<1>1. rest \in SUBSET Paths /\ IsFiniteSet(rest) /\ rest \in SUBSET Nat
  <2>1. IsFiniteSet(Paths) /\ Paths \subseteq Nat
    BY ReconciliationAssumption, FS_Interval DEF Paths
  <2>2. rest \in SUBSET Paths
    BY DEF Rest
  <2> HIDE DEF rest
  <2> QED
    BY <2>1, <2>2, FS_Subset
<1>2. page = {p \in rest : Cardinality(upTo(p)) <= PageSize}
  BY DEF reconciliationWork, Rest, Differs, DiffersIn
<1>3. \A p \in rest : IsFiniteSet(upTo(p)) /\ Cardinality(upTo(p)) \in Nat
  <2> SUFFICES ASSUME NEW p \in rest
               PROVE  IsFiniteSet(upTo(p)) /\ Cardinality(upTo(p)) \in Nat
    OBVIOUS
  <2>1. upTo(p) \in SUBSET rest
    OBVIOUS
  <2> HIDE DEF upTo, rest
  <2> QED
    BY <1>1, <2>1, FS_Subset, FS_CardinalityType
<1>4. ASSUME NEW p \in page, NEW q \in rest, q <= p
      PROVE  q \in page
  <2>1. p \in rest /\ Cardinality(upTo(p)) <= PageSize
    BY <1>2
  <2>2. upTo(q) \in SUBSET upTo(p)
    BY <1>1, <1>4, <2>1
  <2>3. Cardinality(upTo(q)) <= Cardinality(upTo(p))
    <3> HIDE DEF upTo
    <3> QED
      BY <1>3, <2>1, <2>2, FS_Subset
  <2>4. Cardinality(upTo(q)) <= PageSize
    <3> HIDE DEF upTo
    <3> QED
      BY <1>3, <2>1, <2>3, ReconciliationAssumption
  <2> QED
    BY <1>2, <2>4
<1>5. ASSUME rest # {}
      PROVE  page # {}
  <2>1. PICK p \in rest : \A q \in rest : p <= q
    <3> HIDE DEF rest
    <3> QED
      BY <1>1, <1>5, LeastElement
  <2>2. upTo(p) = {p}
    BY <1>1, <2>1
  <2>3. Cardinality(upTo(p)) <= PageSize
    <3>1. Cardinality({p}) = 1
      BY FS_Singleton
    <3>2. 1 <= PageSize
      BY ReconciliationAssumption
    <3> HIDE DEF upTo
    <3> QED
      BY <2>2, <3>1, <3>2
  <2> QED
    BY <1>2, <2>3
<1>6. page \subseteq rest
  BY <1>2
<1> HIDE DEF page, rest
<1>7. page \subseteq rest /\ (\A p \in page, q \in rest : q <= p => q \in page)
      /\ (page = {} => rest = {})
  BY <1>4, <1>5, <1>6
<1> QED
  BY <1>7 DEF page, rest

\* A page that has been written brings the sweep to its last path.
LEMMA SweepPage ==
  ASSUME NEW found, NEW phase \in Phases, NEW after \in 0 .. P, Swept(found, scans, phase, after),
         NEW more, found \subseteq more, \A p \in reconciliationWork(phase, after) : Delta(phase, p) \in more,
         NEW last \in reconciliationWork(phase, after)
  PROVE  Swept(more, scans, phase, last)
<1> SUFFICES ASSUME NEW k \in Phases, NEW p \in Paths, k < phase \/ (k = phase /\ p <= last),
                    DiffersIn(scans, k, p)
             PROVE  Delta(k, p) \in more
  BY DEF Swept
<1>1. CASE k < phase \/ (k = phase /\ p <= after)
  BY <1>1 DEF Swept
<1>2. CASE k = phase /\ p > after /\ p <= last
  <2>1. p \in Rest(phase, after)
    BY <1>2 DEF Rest
  <2>2. p \in reconciliationWork(phase, after)
    BY <1>2, <2>1, PageOfRest
  <2> QED
    BY <1>2, <2>2
<1>3. p \in Nat /\ after \in Nat
  BY ReconciliationAssumption DEF Paths
<1> QED
  BY <1>1, <1>2, <1>3

\* An empty page ends a phase, and the third the comparison.
LEMMA SweepEnds ==
  ASSUME NEW found, NEW phase \in Phases, NEW after \in 0 .. P, Swept(found, scans, phase, after),
         reconciliationWork(phase, after) = {}
  PROVE  Swept(found, scans, phase, P) /\ Swept(found, scans, phase + 1, 0)
<1>1. Rest(phase, after) = {}
  BY PageOfRest
<1>2. \A p \in Paths : p \in Nat /\ p <= P /\ p > 0
  BY ReconciliationAssumption DEF Paths
<1>3. after \in Nat /\ phase \in Nat /\ \A k \in Phases : k \in Nat
  BY ReconciliationAssumption DEF Phases
<1>4. ASSUME NEW k \in Phases, NEW p \in Paths, k <= phase, DiffersIn(scans, k, p)
      PROVE  Delta(k, p) \in found
  <2>1. k = phase => ~(p > after)
    BY <1>1, <1>4 DEF Rest
  <2> QED
    BY <1>2, <1>3, <1>4, <2>1 DEF Swept
<1> QED
  BY <1>2, <1>3, <1>4 DEF Swept

-----------------------------------------------------------------------------
(* The counters.                                                           *)

OfKind(found, k) == {d \in found : d.kind = Kind[k]}

LEMMA KindFinite ==
  ASSUME NEW found \in SUBSET Deltas, NEW k
  PROVE  IsFiniteSet(OfKind(found, k))
<1> DEFINE S == OfKind(found, k)
           f == [d \in S |-> d.path]
<1>1. IsFiniteSet(Paths)
  BY ReconciliationAssumption, FS_Interval DEF Paths
<1>2. \A d \in S : d \in Deltas /\ d.kind = Kind[k]
  BY DEF OfKind
<1>3. \A d, e \in S : d.path = e.path => d = e
  BY <1>2 DEF Deltas
<1>4. f \in [S -> Paths]
  BY <1>2 DEF Deltas
<1>5. f \in Injection(S, Paths)
  <2> HIDE DEF S
  <2> QED
    BY <1>3, <1>4 DEF Injection, IsInjective
<1> HIDE DEF S, f
<1>6. IsFiniteSet(S)
  BY <1>1, <1>5, FS_Injection
<1> QED
  BY <1>6 DEF S

\* A page adds to the counter of its phase what was not there, and to no other.
LEMMA CountPage ==
  ASSUME StoreTyped, CountsMatchTheDeltas, NEW phase \in Phases, NEW items \in SUBSET Paths,
         saveReconciliationWork(phase, items)
  PROVE  /\ run' \in [status : RunStatuses, job : 0 .. MaxJobs, phase : Phases, counts : [Phases -> Nat]]
         /\ run'.status = run.status /\ run'.phase = run.phase
         /\ deltas' = deltas \cup {Delta(phase, p) : p \in items}
         /\ deltas' \subseteq Deltas
         /\ CountsMatchTheDeltas'
<1> DEFINE page == {Delta(phase, p) : p \in items}
           n == Cardinality(page \ deltas)
           counts == [run.counts EXCEPT ![phase] = @ + n]
<1>1. /\ deltas' = deltas \cup page
      /\ run' = [run EXCEPT !.counts = counts]
  BY DEF saveReconciliationWork, Delta
<1>2. page \in SUBSET Deltas /\ (\A d \in page : d.kind = Kind[phase]) /\ deltas \in SUBSET Deltas
  <2>1. Kind[phase] \in {"missing", "added", "metadata-changed"}
    BY DEF Phases, Kind
  <2>2. \A p \in items : Delta(phase, p) \in Deltas /\ Delta(phase, p).kind = Kind[phase]
    BY <2>1 DEF Delta, Deltas
  <2> QED
    BY <2>2 DEF StoreTyped
<1> HIDE DEF page
<1>3. IsFiniteSet(page \ deltas) /\ n \in Nat
  <2>1. page \ deltas = OfKind(page \ deltas, phase) /\ page \ deltas \in SUBSET Deltas
    BY <1>2 DEF OfKind
  <2>2. IsFiniteSet(page \ deltas)
    BY <2>1, KindFinite
  <2> QED
    BY <2>2, FS_CardinalityType
<1>4. ASSUME NEW k \in Phases
      PROVE  counts[k] = Cardinality(OfKind(deltas', k))
  <2>1. run.counts[k] = Cardinality(OfKind(deltas, k)) /\ run.counts \in [Phases -> Nat]
    BY DEF CountsMatchTheDeltas, OfKind, StoreTyped
  <2>2. CASE k = phase
    <3>1. OfKind(deltas', k) = OfKind(deltas, k) \cup (page \ deltas)
      BY <1>1, <1>2, <2>2 DEF OfKind
    <3>2. OfKind(deltas, k) \cap (page \ deltas) = {}
      BY DEF OfKind
    <3>3. IsFiniteSet(OfKind(deltas, k))
      BY <1>2, KindFinite
    <3>4. Cardinality(OfKind(deltas', k)) = Cardinality(OfKind(deltas, k)) + n - Cardinality({})
      BY <1>3, <3>1, <3>2, <3>3, FS_Union
    <3>5. Cardinality({}) = 0 /\ Cardinality(OfKind(deltas, k)) \in Nat
      BY <3>3, FS_EmptySet, FS_CardinalityType
    <3>6. counts[k] = run.counts[k] + n
      BY <2>1, <2>2
    <3> HIDE DEF n, counts
    <3> QED
      BY <1>3, <2>1, <3>4, <3>5, <3>6
  <2>3. CASE k # phase
    <3>1. Kind[k] # Kind[phase]
      BY <2>3 DEF Phases, Kind
    <3>2. OfKind(deltas', k) = OfKind(deltas, k)
      BY <1>1, <1>2, <3>1 DEF OfKind
    <3>3. counts[k] = run.counts[k]
      BY <2>1, <2>3
    <3> HIDE DEF counts
    <3> QED
      BY <2>1, <3>2, <3>3
  <2> QED
    BY <2>2, <2>3
<1>5. counts \in [Phases -> Nat]
  BY <1>3 DEF StoreTyped
<1> HIDE DEF counts
<1>6. /\ run' \in [status : RunStatuses, job : 0 .. MaxJobs, phase : Phases, counts : [Phases -> Nat]]
      /\ run'.status = run.status /\ run'.phase = run.phase /\ run'.counts = counts
  BY <1>1, <1>5 DEF StoreTyped
<1>7. CountsMatchTheDeltas'
  BY <1>4, <1>6 DEF CountsMatchTheDeltas, OfKind
<1> QED
  BY <1>1, <1>2, <1>6, <1>7 DEF page

-----------------------------------------------------------------------------
(* What a step keeps.                                                      *)

Grows == deltas \subseteq deltas' /\ UNCHANGED scans

LEMMA WorkKept ==
  ASSUME NEW x, WorkInv(x), Grows
  PROVE  WorkInv(x)'
<1>1. reconciliationWork(x.local.phase, x.local.after)' = reconciliationWork(x.local.phase, x.local.after)
  BY DEF Grows, reconciliationWork, Differs
<1>2. /\ \A phase, after : Swept(deltas, scans, phase, after) => Swept(deltas', scans', phase, after)
      /\ \A c : SweptTo(deltas, scans, c) => SweptTo(deltas', scans', c)
  BY SweptMore, SweptToMore DEF Grows
<1> QED
  BY <1>1, <1>2 DEF WorkInv

LEMMA RowsKept ==
  ASSUME RowsInv, Grows, NEW done, NEW saved, Effect(done, saved),
         \A j \in saved : j \in Ids => SweptTo(deltas', scans', jobs'[j].checkpoint)
  PROVE  RowsInv'
<1> SUFFICES ASSUME NEW j \in Ids'
             PROVE  SweptTo(deltas', scans', jobs'[j].checkpoint)
  BY DEF RowsInv
<1>1. CASE j \in Ids \ saved
  <2>1. jobs'[j].checkpoint = jobs[j].checkpoint \/ jobs'[j].checkpoint = 0
    BY <1>1 DEF Effect, KeepsCheckpoint
  <2>2. SweptTo(deltas', scans', jobs[j].checkpoint)
    BY <1>1, SweptToMore DEF RowsInv, Grows
  <2> QED
    BY <2>1, <2>2 DEF SweptTo
<1>2. CASE j \in Ids' \ Ids
  BY <1>2, NewRow DEF SweptTo, Effect
<1> QED
  BY <1>1, <1>2

\* A step that writes no page keeps the comparison, if what it writes to the run is
\* true of it.
LEMMA RunKept ==
  ASSUME RunInv, StoreTyped, UNCHANGED <<scans, deltas>>, run'.counts = run.counts,
         Swept(deltas, scans, run'.phase, 0),
         run'.status = "completed" => Swept(deltas, scans, 3, P)
  PROVE  RunInv'
BY DEF RunInv, CountsMatchTheDeltas

LEMMA WorkerKeeps ==
  ASSUME CInv, NEW w \in Workers, NEW done, NEW saved, Acts(w, done, saved), Grows,
         WorkersTyped', StoreTyped', RunInv', WorkInv(workers[w])',
         \A j \in saved : j \in Ids => SweptTo(deltas', scans', jobs'[j].checkpoint)
  PROVE  CInv' /\ [Next]_jobs
<1>1. IndInv' /\ LinkInv' /\ [Next]_jobs /\ Effect(done, saved)
      /\ \A v \in Workers \ {w} : workers'[v] = workers[v]
  BY ActsInv DEF CInv, Acts
<1>2. RowsInv'
  BY <1>1, RowsKept DEF CInv
<1>3. ASSUME NEW v \in Workers PROVE WorkInv(workers[v])'
  <2>1. CASE v # w
    BY <1>1, <2>1, WorkKept DEF CInv
  <2> QED
    BY <2>1
<1> QED
  BY <1>1, <1>2, <1>3 DEF CInv

\* The client and the clock.
LEMMA ClientKeeps ==
  ASSUME CInv, [Next]_jobs, Effect({}, {}), UNCHANGED <<workers, scans, deltas>>, StoreTyped',
         RunInv'
  PROVE  CInv'
<1>1. IndInv' /\ TableStep /\ Grows
  BY IndInvNext DEF CInv, Effect, Grows
<1>2. LinkInv' /\ WorkersTyped'
  BY <1>1, LinkTable DEF CInv, WorkersTyped
<1>3. RowsInv'
  BY <1>1, RowsKept DEF CInv
<1>4. ASSUME NEW w \in Workers PROVE WorkInv(workers[w])'
  BY <1>1, WorkKept DEF CInv
<1> QED
  BY <1>1, <1>2, <1>3, <1>4 DEF CInv

\* A step of a worker that writes no page.
LEMMA QuietKeeps ==
  ASSUME CInv, NEW w \in Workers, NEW done, NEW saved, Acts(w, done, saved),
         UNCHANGED <<scans, deltas>>, WorkersTyped', StoreTyped', RunInv', WorkInv(workers'[w]),
         \A j \in saved : j \in Ids => SweptTo(deltas, scans, jobs'[j].checkpoint)
  PROVE  CInv' /\ [Next]_jobs
<1>1. Grows
  BY DEF Grows
<1>2. WorkInv(workers[w])'
  BY DEF WorkInv, reconciliationWork, Differs
<1> QED
  BY <1>1, <1>2, WorkerKeeps

\* It may write nothing at all to the store, or a status of the run.
LEMMA SameStore ==
  ASSUME CInv, UNCHANGED <<scans, run, deltas>>
  PROVE  StoreTyped' /\ RunInv'
BY RunKept DEF CInv, StoreTyped, RunInv

LEMMA StateStore ==
  ASSUME CInv, UNCHANGED <<scans, deltas>>, NEW status \in RunStatuses, NEW phase \in Phases,
         setReconciliationState(status, phase), Swept(deltas, scans, phase, 0),
         status = "completed" => Swept(deltas, scans, 3, P)
  PROVE  StoreTyped' /\ RunInv'
<1>1. /\ run' \in [status : RunStatuses, job : 0 .. MaxJobs, phase : Phases, counts : [Phases -> Nat]]
      /\ run'.counts = run.counts /\ run'.phase = phase /\ run'.status = status
  BY DEF setReconciliationState, CInv, StoreTyped
<1>2. StoreTyped'
  BY <1>1 DEF CInv, StoreTyped
<1>3. RunInv'
  BY <1>1, RunKept DEF CInv
<1> QED
  BY <1>2, <1>3

-----------------------------------------------------------------------------
(* The client, the clock, and the process around the handler.              *)

LEMMA ClientSteps ==
  ASSUME CInv, UNCHANGED <<workers, crashes, scans>>,
         Create \/ (\E s \in Submissions : SubmitRun(s)) \/ Attach
  PROVE  CInv' /\ [Next]_jobs
<1>1. CASE Create
  <2>1. /\ UNCHANGED <<jobs, deltas>>
        /\ run' \in [status : RunStatuses, job : 0 .. MaxJobs, phase : Phases, counts : [Phases -> Nat]]
        /\ run'.counts = run.counts /\ run'.phase = run.phase
        /\ run'.status = "completed" => run.status = "completed"
    BY <1>1 DEF Create, createReconciliation, CInv, StoreTyped, RunStatuses
  <2>2. StoreTyped' /\ RunInv'
    BY <2>1, RunKept DEF CInv, StoreTyped, RunInv
  <2> QED
    BY <2>1, <2>2, QuietEffect, ClientKeeps
<1>2. ASSUME NEW s \in Submissions, SubmitRun(s)
      PROVE  CInv' /\ [Next]_jobs
  <2>1. Submit(s) /\ UNCHANGED <<run, deltas>>
    BY <1>2 DEF SubmitRun
  <2>2. Next /\ Effect({}, {})
    BY <2>1, SubmitEffect DEF Next, ClientStep, CInv
  <2> QED
    BY <2>1, <2>2, SameStore, ClientKeeps
<1>3. CASE Attach
  <2>1. PICK j \in Ids : attachReconciliationJob(j) /\ UNCHANGED <<jobs, deltas>>
    BY <1>3 DEF Attach
  <2>2. j \in 0 .. MaxJobs
    BY BoundsAssumption DEF CInv, LinkInv, Bounded
  <2>3. /\ run' \in [status : RunStatuses, job : 0 .. MaxJobs, phase : Phases, counts : [Phases -> Nat]]
        /\ run'.counts = run.counts /\ run'.phase = run.phase /\ run'.status = run.status
    BY <2>1, <2>2 DEF attachReconciliationJob, CInv, StoreTyped
  <2>4. StoreTyped' /\ RunInv'
    BY <2>1, <2>3, RunKept DEF CInv, StoreTyped, RunInv
  <2> QED
    BY <2>1, <2>4, QuietEffect, ClientKeeps
<1> QED
  BY <1>1, <1>2, <1>3

LEMMA QueueSteps ==
  ASSUME CInv, UNCHANGED <<workers, crashes, scans, run, deltas>>, Control \/ Tick
  PROVE  CInv' /\ [Next]_jobs
<1>1. Next /\ Effect({}, {})
  BY ControlEffect, TickEffect DEF Control, Next, ClientStep, CInv
<1> QED
  BY <1>1, SameStore, ClientKeeps

LEMMA NoLocalType == NoLocal \in Locals
<1>1. 0 \in 0 .. P /\ 1 \in Phases
  BY ReconciliationAssumption DEF Phases
<1> QED
  BY <1>1, ReconciliationAssumption DEF Locals

LEMMA CrashKeeps ==
  ASSUME CInv, NEW w \in Workers, Crash(w), UNCHANGED <<scans, run, deltas>>
  PROVE  CInv' /\ [Next]_jobs
<1>1. Die(w) /\ workers \in [Workers -> Worker(HandlerPoints, Locals)]
  BY DEF Crash, CInv, WorkersTyped
<1>2. WorkersTyped' /\ Acts(w, {}, {}) /\ workers'[w].pc = "down"
  BY <1>1, NoLocalType, DieActs DEF WorkersTyped
<1>3. WorkInv(workers'[w])
  BY <1>2 DEF WorkInv, Resting, HandlerPoints
<1> QED
  BY <1>2, <1>3, SameStore, QuietKeeps

\* A pause that is acknowledged writes the checkpoint of its worker again.
LEMMA ProcessMovesKeep ==
  ASSUME CInv, NEW w \in Workers, ProcessMoves(w), UNCHANGED <<scans, run, deltas>>
  PROVE  CInv' /\ [Next]_jobs
<1> DEFINE x == workers[w]
           y == workers'[w]
           done == IF x.pc = "complete" THEN {x.job} ELSE {}
           saved == IF x.pc = "ackPause" THEN {x.job} ELSE {}
<1>1. workers \in [Workers -> Worker(HandlerPoints, Locals)] /\ IndInv /\ LinkInv /\ WorkInv(x)
      /\ RowsInv
  BY DEF CInv, WorkersTyped
<1>2. WorkersTyped' /\ ProcessActs(w)
  BY <1>1, NoLocalType, ProcessMovesActs DEF WorkersTyped
<1>3. /\ Acts(w, done, saved) /\ x.pc \in Points
      /\ x.pc = "ackPause" /\ jobs' # jobs => jobs'[x.job].checkpoint = x.saved
      /\ y.pc \in Resting \/ Answers(x, y)
  BY <1>2 DEF ProcessActs
<1>4. WorkInv(y)
  <2>1. CASE y.pc \in Resting
    BY <2>1 DEF WorkInv, Resting, HandlerPoints
  <2>2. CASE Answers(x, y)
    <3>1. x.pc = "finish" /\ y.pc \in {"complete", "ackPause", "ackCancel"} /\ y.saved = x.saved
      <4>1. x.pc = "finish" /\ y = [x EXCEPT !.pc = y.pc] /\ x \in Worker(HandlerPoints, Locals)
        BY <1>1, <2>2 DEF Answers
      <4> QED
        BY <2>2, <4>1 DEF Answers, Worker
    <3> QED
      BY <1>1, <3>1 DEF WorkInv, Resting, HandlerPoints
  <2> QED
    BY <1>3, <2>1, <2>2
<1>5. \A j \in saved : j \in Ids => SweptTo(deltas, scans, jobs'[j].checkpoint)
  <2> SUFFICES ASSUME x.pc = "ackPause", x.job \in Ids
               PROVE  SweptTo(deltas, scans, jobs'[x.job].checkpoint)
    OBVIOUS
  <2>1. SweptTo(deltas, scans, x.saved)
    BY <1>1 DEF WorkInv, Resting
  <2> QED
    BY <1>1, <1>3, <2>1 DEF RowsInv
<1> HIDE DEF y, done, saved
<1>6. WorkInv(workers'[w])
  BY <1>4 DEF y
<1> QED
  BY <1>2, <1>3, <1>5, <1>6, SameStore, QuietKeeps

-----------------------------------------------------------------------------
(* The handler.                                                            *)

LEMMA HandlerFacts ==
  ASSUME CInv, NEW w \in Workers, workers[w].pc \in HandlerPoints
  PROVE  LET x == workers[w]
         IN /\ IndInv /\ LinkInv /\ workers \in [Workers -> Worker(HandlerPoints, Locals)]
            /\ Linked(x) /\ x.local \in Locals /\ x.saved \in Checkpoints
            /\ x.local.phase \in Phases /\ x.local.after \in 0 .. P
            /\ SweptTo(deltas, scans, x.saved)
            /\ x.pc # "begin" => /\ Swept(deltas, scans, x.local.phase, x.local.after)
                                 /\ Swept(deltas, scans, x.local.phase, 0)
<1>1. /\ IndInv /\ LinkInv /\ workers \in [Workers -> Worker(HandlerPoints, Locals)]
      /\ WorkInv(workers[w])
  BY DEF CInv, WorkersTyped
<1>2. Linked(workers[w]) /\ workers[w].pc \notin Resting
  BY DEF Linked, HandlerPoints, Resting
<1>3. workers[w].local \in Locals /\ workers[w].saved \in Checkpoints
  BY <1>1 DEF Worker
<1>4. workers[w].local.phase \in Phases /\ workers[w].local.after \in 0 .. P
  BY <1>3 DEF Locals
<1> QED
  BY <1>1, <1>2, <1>3, <1>4, SweptBack DEF WorkInv

\* The ways a handler goes on without a call to the queue.
LEMMA GoesOn ==
  ASSUME CInv, NEW w \in Workers, workers[w].pc \in HandlerPoints, UNCHANGED jobs
  PROVE  /\ \A point \in Points \cup HandlerPoints : Goto(w, point) =>
              /\ WorkersTyped' /\ Acts(w, {}, {})
              /\ workers'[w].pc = point /\ workers'[w].local = workers[w].local
              /\ workers'[w].saved = workers[w].saved
         /\ \A point \in Points \cup HandlerPoints, local \in Locals : Continue(w, point, local) =>
              /\ WorkersTyped' /\ Acts(w, {}, {})
              /\ workers'[w].pc = point /\ workers'[w].local = local
              /\ workers'[w].saved = workers[w].saved
         /\ \A retryable \in BOOLEAN : Throw(w, retryable) =>
              /\ WorkersTyped' /\ Acts(w, {}, {}) /\ workers'[w].pc = "fail"
BY HandlerFacts, NoLocalType, GotoActs, ContinueActs, ThrowActs DEF WorkersTyped

\* Where a worker starts, and how it goes on.
StartAt(phase, after) == [Nothing EXCEPT !.phase = phase, !.after = after]
Behind(local, last) == [local EXCEPT !.after = last, !.items = {}]

LEMMA PhasePosition ==
  ASSUME NEW l \in Locals, NEW k \in Phases
  PROVE  /\ [l EXCEPT !.phase = k] \in Locals
         /\ [l EXCEPT !.phase = k].phase = k /\ [l EXCEPT !.phase = k].after = l.after
BY DEF Locals

LEMMA BehindPosition ==
  ASSUME NEW l \in Locals, NEW a \in 0 .. P
  PROVE  Behind(l, a) \in Locals /\ Behind(l, a).phase = l.phase /\ Behind(l, a).after = a
<1> DEFINE m == [l EXCEPT !.after = a]
           n == [m EXCEPT !.items = {}]
<1>1. m \in Locals /\ m.phase = l.phase /\ m.after = a
  BY DEF Locals
<1> HIDE DEF m
<1>2. n \in Locals /\ n.phase = l.phase /\ n.after = a
  BY <1>1 DEF Locals
<1>3. Behind(l, a) = n
  BY DEF Behind, m
<1> HIDE DEF n
<1> QED
  BY <1>2, <1>3

LEMMA StartPosition ==
  ASSUME NEW k \in Phases, NEW a \in 0 .. P
  PROVE  /\ [Nothing EXCEPT !.phase = k] \in Locals
         /\ [Nothing EXCEPT !.phase = k].phase = k /\ [Nothing EXCEPT !.phase = k].after = 0
         /\ StartAt(k, a) \in Locals /\ StartAt(k, a).phase = k /\ StartAt(k, a).after = a
<1> DEFINE m == [Nothing EXCEPT !.phase = k]
           n == [m EXCEPT !.after = a]
<1>1. Nothing \in Locals /\ Nothing.after = 0
  BY ReconciliationAssumption DEF Nothing, Locals, Phases
<1>2. m \in Locals /\ m.phase = k /\ m.after = 0
  BY <1>1, PhasePosition
<1>3. StartAt(k, a) = n
  BY DEF StartAt
<1> HIDE DEF m
<1>4. n \in Locals /\ n.phase = k /\ n.after = a
  BY <1>2 DEF Locals
<1> HIDE DEF n
<1> QED
  BY <1>2, <1>3, <1>4 DEF m

LEMMA NextPosition ==
  ASSUME NEW l \in Locals, l.phase < 3
  PROVE  /\ NextPhase(l) \in Locals
         /\ NextPhase(l).phase = l.phase + 1 /\ NextPhase(l).after = 0
<1> DEFINE k == l.phase + 1
           m == [l EXCEPT !.phase = k]
           n == Behind(m, 0)
<1>1. k \in Phases /\ 0 \in 0 .. P
  BY ReconciliationAssumption DEF Locals, Phases
<1>2. NextPhase(l) = n
  BY DEF NextPhase, Behind
<1> HIDE DEF k
<1>3. m \in Locals /\ m.phase = k
  BY <1>1, PhasePosition
<1> HIDE DEF m
<1>4. n \in Locals /\ n.phase = k /\ n.after = 0
  BY <1>1, <1>3, BehindPosition
<1> HIDE DEF n
<1> QED
  BY <1>2, <1>4 DEF k

\* A worker loads the checkpoint of its row, which is swept.
LEMMA LoadKeeps ==
  ASSUME CInv, NEW w \in Workers, Load(w), UNCHANGED scans
  PROVE  CInv' /\ [Next]_jobs
<1> DEFINE x == workers[w]
           y == workers'[w]
<1>1. /\ LoadJob(w, "begin", Nothing) /\ At(w, "load") /\ Nothing \in Locals
      /\ workers \in [Workers -> Worker(HandlerPoints, Locals)] /\ IndInv /\ LinkInv
      /\ "begin" \in Points \cup HandlerPoints /\ UNCHANGED <<scans, run, deltas>>
  <2>1. Nothing \in Locals
    BY NoLocalType, ReconciliationAssumption DEF Nothing
  <2> QED
    BY <2>1 DEF Load, LoadJob, CInv, WorkersTyped, HandlerPoints
<1>2. /\ WorkersTyped' /\ Acts(w, {}, {})
      /\ y.pc = "down" \/ (y.pc = "begin" /\ y.saved = jobs[x.job].checkpoint)
  BY <1>1, NoLocalType, LoadJobActs DEF WorkersTyped
<1>3. SweptTo(deltas, scans, jobs[x.job].checkpoint)
  <2>1. x.job \in Ids
    BY <1>1 DEF LinkInv, LinkOK, Linked, At
  <2> QED
    BY <2>1 DEF CInv, RowsInv
<1>4. WorkInv(workers'[w])
  BY <1>2, <1>3 DEF WorkInv, Resting, HandlerPoints
<1> QED
  BY <1>1, <1>2, <1>4, SameStore, QuietKeeps

\* The sweep starts where the checkpoint is, or in the phase of the run.
LEMMA BeginRunKeeps ==
  ASSUME CInv, NEW w \in Workers, BeginRun(w), UNCHANGED scans
  PROVE  CInv' /\ [Next]_jobs
<1> DEFINE x == workers[w]
           y == workers'[w]
           c == x.saved
           start == IF c = 0 THEN [Nothing EXCEPT !.phase = run.phase] ELSE StartAt(PhaseOf(c), AfterOf(c))
<1>1. /\ x.pc \in HandlerPoints /\ UNCHANGED <<jobs, scans, deltas>>
      /\ \/ Goto(w, "finish") /\ UNCHANGED run
         \/ Continue(w, "page", start) /\ setReconciliationState("running", start.phase)
  BY DEF BeginRun, At, HandlerPoints, StartAt
<1>2. SweptTo(deltas, scans, c) /\ run.phase \in Phases /\ Swept(deltas, scans, run.phase, 0)
  BY <1>1, HandlerFacts DEF CInv, StoreTyped, RunInv
<1>3. /\ start \in Locals /\ start.phase \in Phases
      /\ Swept(deltas, scans, start.phase, start.after) /\ Swept(deltas, scans, start.phase, 0)
  <2>1. CASE c = 0
    <3>1. 0 \in 0 .. P
      BY ReconciliationAssumption
    <3> QED
      BY <1>2, <2>1, <3>1, StartPosition
  <2>2. CASE c # 0
    <3>1. PhaseOf(c) \in Phases /\ AfterOf(c) \in 0 .. P /\ Swept(deltas, scans, PhaseOf(c), AfterOf(c))
      BY <1>2, <2>2 DEF SweptTo
    <3>2. Swept(deltas, scans, PhaseOf(c), 0)
      BY <3>1, SweptBack
    <3> QED
      BY <2>2, <3>1, <3>2, StartPosition
  <2> QED
    BY <2>1, <2>2
<1> HIDE DEF start
<1>4. CASE Goto(w, "finish") /\ UNCHANGED run
  <2>1. WorkersTyped' /\ Acts(w, {}, {}) /\ y.pc = "finish" /\ y.saved = c
    BY <1>1, <1>4, GoesOn DEF Points
  <2>2. WorkInv(workers'[w])
    BY <1>2, <2>1 DEF WorkInv, HandlerPoints
  <2> QED
    BY <1>1, <1>4, <2>1, <2>2, SameStore, QuietKeeps
<1>5. CASE Continue(w, "page", start) /\ setReconciliationState("running", start.phase)
  <2>1. WorkersTyped' /\ Acts(w, {}, {}) /\ y.pc = "page" /\ y.local = start /\ y.saved = c
    BY <1>1, <1>3, <1>5, GoesOn DEF HandlerPoints
  <2>2. WorkInv(workers'[w])
    BY <1>2, <1>3, <2>1 DEF WorkInv
  <2>3. StoreTyped' /\ RunInv'
    BY <1>1, <1>3, <1>5, StateStore DEF RunStatuses
  <2> QED
    BY <1>1, <2>1, <2>2, <2>3, QuietKeeps
<1> QED
  BY <1>1, <1>4, <1>5

\* The catch of run() gets the worker where it was.
LEMMA StopKeeps ==
  ASSUME CInv, NEW w \in Workers, workers[w].pc \in HandlerPoints \ {"begin"},
         NEW why \in {"pause", "cancel", "error"}, Stop(w, why), UNCHANGED <<scans, run, deltas>>
  PROVE  CInv' /\ [Next]_jobs
<1> DEFINE x == workers[w]
           y == workers'[w]
           local == [x.local EXCEPT !.why = why]
<1>1. /\ x.pc \in HandlerPoints /\ UNCHANGED jobs /\ Continue(w, "stop", local)
      /\ x.local \in Locals /\ SweptTo(deltas, scans, x.saved)
      /\ Swept(deltas, scans, x.local.phase, x.local.after)
  BY HandlerFacts DEF Stop, Local
<1>2. local \in Locals /\ local.phase = x.local.phase /\ local.after = x.local.after
  BY <1>1 DEF Locals
<1> HIDE DEF local
<1>3. WorkersTyped' /\ Acts(w, {}, {}) /\ y.pc = "stop" /\ y.local = local /\ y.saved = x.saved
  BY <1>1, <1>2, GoesOn DEF HandlerPoints
<1>4. WorkInv(workers'[w])
  BY <1>1, <1>2, <1>3 DEF WorkInv
<1> QED
  BY <1>3, <1>4, SameStore, QuietKeeps

\* A page, or the end of a phase that has no more.
LEMMA ReadPageKeeps ==
  ASSUME CInv, NEW w \in Workers, ReadPage(w), UNCHANGED scans
  PROVE  CInv' /\ [Next]_jobs
<1> DEFINE x == workers[w]
           y == workers'[w]
           l == x.local
           items == reconciliationWork(l.phase, l.after)
           local == [l EXCEPT !.items = items]
<1>1. /\ x.pc \in HandlerPoints \ {"begin"} /\ UNCHANGED <<run, deltas>>
      /\ \/ \E why \in {"pause", "cancel", "error"} : Stop(w, why)
         \/ /\ UNCHANGED jobs
            /\ \/ items # {} /\ Continue(w, "persist", local)
               \/ items = {} /\ l.phase < 3 /\ Continue(w, "nextPhase", NextPhase(l))
               \/ items = {} /\ ~(l.phase < 3) /\ Goto(w, "close")
  BY DEF ReadPage, At, HandlerPoints, Local
<1>2. /\ l \in Locals /\ l.phase \in Phases /\ l.after \in 0 .. P
      /\ SweptTo(deltas, scans, x.saved) /\ Swept(deltas, scans, l.phase, l.after)
  BY <1>1, HandlerFacts
<1>3. StoreTyped' /\ RunInv'
  BY <1>1, SameStore
<1>4. CASE \E why \in {"pause", "cancel", "error"} : Stop(w, why)
  BY <1>1, <1>4, StopKeeps
<1>5. CASE UNCHANGED jobs /\ items # {} /\ Continue(w, "persist", local)
  <2>1. items \in SUBSET Paths
    BY DEF reconciliationWork
  <2>2. local \in Locals /\ local.phase = l.phase /\ local.after = l.after /\ local.items = items
    <3> HIDE DEF items
    <3> QED
      BY <1>2, <2>1 DEF Locals
  <2> HIDE DEF local
  <2>3. WorkersTyped' /\ Acts(w, {}, {}) /\ y.pc = "persist" /\ y.local = local /\ y.saved = x.saved
    BY <1>1, <1>5, <2>2, GoesOn DEF HandlerPoints
  <2>4. WorkInv(workers'[w])
    BY <1>2, <1>5, <2>2, <2>3 DEF WorkInv
  <2> QED
    BY <1>1, <1>3, <2>3, <2>4, QuietKeeps
<1>6. CASE UNCHANGED jobs /\ items = {} /\ l.phase < 3 /\ Continue(w, "nextPhase", NextPhase(l))
  <2>1. NextPhase(l) \in Locals /\ NextPhase(l).phase = l.phase + 1 /\ NextPhase(l).after = 0
    BY <1>2, <1>6, NextPosition
  <2>2. Swept(deltas, scans, l.phase + 1, 0)
    BY <1>2, <1>6, SweepEnds
  <2>3. WorkersTyped' /\ Acts(w, {}, {}) /\ y.pc = "nextPhase" /\ y.local = NextPhase(l)
        /\ y.saved = x.saved
    BY <1>1, <1>6, <2>1, GoesOn DEF HandlerPoints
  <2>4. WorkInv(workers'[w])
    BY <1>2, <2>1, <2>2, <2>3 DEF WorkInv
  <2> QED
    BY <1>1, <1>3, <2>3, <2>4, QuietKeeps
<1>7. CASE UNCHANGED jobs /\ items = {} /\ ~(l.phase < 3) /\ Goto(w, "close")
  <2>1. Swept(deltas, scans, 3, P)
    <3>1. l.phase = 3
      BY <1>2, <1>7 DEF Phases
    <3> QED
      BY <1>2, <1>7, <3>1, SweepEnds
  <2>2. WorkersTyped' /\ Acts(w, {}, {}) /\ y.pc = "close" /\ y.local = l /\ y.saved = x.saved
    BY <1>1, <1>7, GoesOn DEF HandlerPoints
  <2>3. WorkInv(workers'[w])
    BY <1>2, <2>1, <2>2 DEF WorkInv
  <2> QED
    BY <1>1, <1>3, <2>2, <2>3, QuietKeeps
<1> QED
  BY <1>1, <1>4, <1>5, <1>6, <1>7

\* A page goes into the deltas before the worker goes on behind it.
LEMMA PersistKeeps ==
  ASSUME CInv, NEW w \in Workers, Persist(w), UNCHANGED scans
  PROVE  CInv' /\ [Next]_jobs
<1> DEFINE x == workers[w]
           y == workers'[w]
           l == x.local
           items == reconciliationWork(l.phase, l.after)
           last == CHOOSE p \in items : \A q \in items : q <= p
           page == {Delta(l.phase, p) : p \in items}
<1>1. /\ x.pc = "persist" /\ x.pc \in HandlerPoints \ {"begin"} /\ UNCHANGED jobs
      /\ l.items = items /\ items # {}
      /\ saveReconciliationWork(l.phase, items)
      /\ Continue(w, "save", Behind(l, last))
  <2>1. x.pc = "persist" /\ l.items = items /\ items # {}
    BY DEF Persist, At, CInv, WorkInv
  <2> HIDE DEF items
  <2>2. Behind(l, last) = [l EXCEPT !.after = CHOOSE p \in l.items : \A q \in l.items : q <= p, !.items = {}]
    BY <2>1 DEF Behind
  <2> QED
    BY <2>1, <2>2 DEF Persist, Local, HandlerPoints
<1>2. /\ l \in Locals /\ l.phase \in Phases /\ l.after \in 0 .. P
      /\ SweptTo(deltas, scans, x.saved) /\ Swept(deltas, scans, l.phase, l.after)
  BY <1>1, HandlerFacts
<1>3. items \in SUBSET Paths /\ \A p \in items : DiffersIn(scans, l.phase, p)
  BY DEF reconciliationWork, Differs, DiffersIn
<1> HIDE DEF items
<1>4. last \in items /\ last \in 0 .. P
  <2>1. P \in Nat /\ items \in SUBSET (0 .. P)
    BY <1>3, ReconciliationAssumption DEF Paths
  <2>2. \E p \in items : \A q \in items : q <= p
    BY <1>1, <2>1, GreatestElement
  <2> QED
    BY <2>1, <2>2
<1> HIDE DEF last
<1>5. /\ run' \in [status : RunStatuses, job : 0 .. MaxJobs, phase : Phases, counts : [Phases -> Nat]]
      /\ run'.status = run.status /\ run'.phase = run.phase
      /\ deltas' = deltas \cup page /\ deltas' \subseteq Deltas
      /\ CountsMatchTheDeltas'
  BY <1>1, <1>2, <1>3, CountPage DEF CInv, RunInv
<1>6. Grows /\ StoreTyped' /\ \A p \in items : Delta(l.phase, p) \in deltas'
  BY <1>5 DEF Grows, CInv, StoreTyped
<1>7. RunInv'
  <2>1. /\ Swept(deltas', scans', run'.phase, 0)
        /\ run'.status = "completed" => Swept(deltas', scans', 3, P)
    BY <1>5, <1>6, SweptMore DEF CInv, RunInv, Grows
  <2>2. ASSUME NEW d \in deltas'
        PROVE  \E k \in Phases, p \in Paths : DiffersIn(scans, k, p) /\ d = Delta(k, p)
    <3>1. CASE d \in deltas
      BY <3>1 DEF CInv, RunInv
    <3>2. CASE d \in page
      BY <1>2, <1>3, <3>2
    <3> QED
      BY <1>5, <3>1, <3>2
  <2> QED
    BY <1>5, <2>1, <2>2 DEF RunInv
<1>8. /\ WorkersTyped' /\ Acts(w, {}, {}) /\ y.pc = "save" /\ y.saved = x.saved
      /\ y.local.phase = l.phase /\ y.local.after = last
  <2>1. Behind(l, last) \in Locals /\ Behind(l, last).phase = l.phase /\ Behind(l, last).after = last
    BY <1>2, <1>4, BehindPosition
  <2> QED
    BY <1>1, <2>1, GoesOn DEF HandlerPoints
<1>9. Swept(deltas', scans', l.phase, last) /\ SweptTo(deltas', scans', x.saved)
  <2>1. Swept(deltas', scans, l.phase, last)
    BY <1>2, <1>4, <1>6, SweepPage DEF Grows, items
  <2> QED
    BY <1>2, <1>6, <2>1, SweptToMore DEF Grows
<1>10. WorkInv(workers[w])'
  BY <1>8, <1>9 DEF WorkInv
<1> QED
  BY <1>6, <1>7, <1>8, <1>10, WorkerKeeps

\* A checkpoint is where the worker has swept to.
LEMMA RecordKeeps ==
  ASSUME CInv, NEW w \in Workers, Record(w), UNCHANGED scans
  PROVE  CInv' /\ [Next]_jobs
<1> DEFINE x == workers[w]
           y == workers'[w]
           l == x.local
           c == Code(l.phase, l.after)
<1>1. /\ x.pc \in HandlerPoints \ {"begin"} /\ UNCHANGED <<run, deltas>>
      /\ \/ \E point \in {"report", "enter"} : SaveContext(w, c, point, l)
         \/ ReportContext(w, "page", l)
         \/ Stop(w, "error")
  BY DEF Record, At, HandlerPoints, Local
<1>2. /\ IndInv /\ LinkInv /\ workers \in [Workers -> Worker(HandlerPoints, Locals)] /\ Linked(x)
      /\ l \in Locals /\ l.phase \in Phases /\ l.after \in 0 .. P
      /\ SweptTo(deltas, scans, x.saved) /\ Swept(deltas, scans, l.phase, l.after)
  BY <1>1, HandlerFacts
<1>3. c \in Checkpoints /\ SweptTo(deltas, scans, c)
  BY <1>2, CodePosition DEF SweptTo
<1>4. StoreTyped' /\ RunInv'
  BY <1>1, SameStore
<1> HIDE DEF c
<1>5. ASSUME NEW point \in {"report", "enter"}, SaveContext(w, c, point, l)
      PROVE  CInv' /\ [Next]_jobs
  <2>1. point \in Points \cup HandlerPoints
    BY DEF HandlerPoints
  <2>2. /\ WorkersTyped' /\ Acts(w, {}, {x.job}) /\ jobs'[x.job].checkpoint = c
        /\ y.pc = point /\ y.local = l /\ y.saved = c
    BY <1>2, <1>3, <1>5, <2>1, SaveContextActs DEF WorkersTyped
  <2>3. WorkInv(workers'[w])
    BY <1>2, <1>3, <2>2 DEF WorkInv
  <2> QED
    BY <1>1, <1>3, <1>4, <2>2, <2>3, QuietKeeps
<1>6. CASE ReportContext(w, "page", l)
  <2>1. "page" \in Points \cup HandlerPoints
    BY DEF HandlerPoints
  <2>2. WorkersTyped' /\ Acts(w, {}, {}) /\ y.pc = "page" /\ y.local = l /\ y.saved = x.saved
    BY <1>2, <1>6, <2>1, ReportContextActs DEF WorkersTyped
  <2>3. WorkInv(workers'[w])
    BY <1>2, <2>2 DEF WorkInv
  <2> QED
    BY <1>1, <1>4, <2>2, <2>3, QuietKeeps
<1> QED
  BY <1>1, <1>5, <1>6, StopKeeps

\* The writes to the run: the phase it enters, that it is complete, and why it stops.
LEMMA RunWritesKeep ==
  ASSUME CInv, NEW w \in Workers, EnterPhase(w) \/ CloseRun(w) \/ StopRun(w), UNCHANGED scans
  PROVE  CInv' /\ [Next]_jobs
<1> DEFINE x == workers[w]
           y == workers'[w]
           l == x.local
<1>1. /\ x.pc \in HandlerPoints \ {"begin"} /\ UNCHANGED <<jobs, deltas>>
      /\ \E status \in RunStatuses : /\ setReconciliationState(status, l.phase)
                                     /\ status = "completed" => x.pc = "close"
      /\ \/ \E point \in {"page", "finish", "ackPause", "ackCancel"} : Goto(w, point)
         \/ Throw(w, TRUE)
  <2>1. CASE EnterPhase(w)
    BY <2>1 DEF EnterPhase, At, HandlerPoints, Local, RunStatuses
  <2>2. CASE CloseRun(w)
    BY <2>2 DEF CloseRun, At, HandlerPoints, Local, RunStatuses
  <2>3. CASE StopRun(w)
    <3> DEFINE status == CASE l.why = "pause" -> "paused" [] l.why = "cancel" -> "cancelled"
                           [] OTHER -> "failed"
    <3>1. status \in RunStatuses /\ status # "completed"
      BY DEF RunStatuses
    <3>2. x.pc = "stop" /\ UNCHANGED <<jobs, deltas>> /\ setReconciliationState(status, l.phase)
      BY <2>3 DEF StopRun, At, Local
    <3>3. \/ \E point \in {"page", "finish", "ackPause", "ackCancel"} : Goto(w, point)
          \/ Throw(w, TRUE)
      BY <2>3 DEF StopRun, Local
    <3> HIDE DEF status
    <3> QED
      BY <3>1, <3>2, <3>3 DEF HandlerPoints
  <2> QED
    BY <2>1, <2>2, <2>3
<1>2. /\ SweptTo(deltas, scans, x.saved) /\ l.phase \in Phases
      /\ Swept(deltas, scans, l.phase, l.after) /\ Swept(deltas, scans, l.phase, 0)
  BY <1>1, HandlerFacts
<1>3. StoreTyped' /\ RunInv'
  <2>1. x.pc = "close" => Swept(deltas, scans, 3, P)
    BY DEF CInv, WorkInv
  <2> QED
    BY <1>1, <1>2, <2>1, StateStore
<1>4. ASSUME NEW point \in {"page", "finish", "ackPause", "ackCancel"}, Goto(w, point)
      PROVE  CInv' /\ [Next]_jobs
  <2>1. point \in Points \cup HandlerPoints
    BY DEF Points, HandlerPoints
  <2>2. WorkersTyped' /\ Acts(w, {}, {}) /\ y.pc = point /\ y.local = l /\ y.saved = x.saved
    BY <1>1, <1>4, <2>1, GoesOn
  <2>3. WorkInv(workers'[w])
    BY <1>2, <2>2 DEF WorkInv
  <2> QED
    BY <1>1, <1>3, <2>2, <2>3, QuietKeeps
<1>5. CASE Throw(w, TRUE)
  <2>1. WorkersTyped' /\ Acts(w, {}, {}) /\ y.pc = "fail"
    BY <1>1, <1>5, GoesOn
  <2>2. WorkInv(workers'[w])
    BY <2>1 DEF WorkInv, Resting, HandlerPoints
  <2> QED
    BY <1>1, <1>3, <2>1, <2>2, QuietKeeps
<1> QED
  BY <1>1, <1>4, <1>5

-----------------------------------------------------------------------------
(* The invariant is inductive.                                             *)

LEMMA CInvInit == CInit => CInv
<1> SUFFICES ASSUME CInit PROVE CInv
  OBVIOUS
<1>1. IndInv /\ Ids = {}
  BY IndInvInit, EmptySeq DEF CInit, ProcessInit, Init, Ids
<1>2. Idle("recover") \in Worker(HandlerPoints, Locals) /\ Idle("recover").pc = "recover"
  BY NoLocalType, IdleType DEF Points
<1>3. WorkersTyped /\ \A w \in Workers : workers[w].pc = "recover"
  BY <1>2 DEF WorkersTyped, CInit, ProcessInit
<1>4. LinkInv /\ RowsInv
  BY <1>1, <1>3 DEF LinkInv, Bounded, LinkOK, Linked, RowsInv
<1>5. StoreTyped
  BY ReconciliationAssumption, BoundsAssumption DEF CInit, StoreTyped, RunStatuses, Phases
<1>6. RunInv
  <2>1. Swept(deltas, scans, 1, 0)
    <3>1. \A k \in Phases, p \in Paths : ~(k < 1) /\ ~(p <= 0)
      BY ReconciliationAssumption DEF Phases, Paths
    <3> QED
      BY <3>1 DEF Swept
  <2>2. CountsMatchTheDeltas
    <3>1. \A k \in Phases : {d \in deltas : d.kind = Kind[k]} = {}
      BY DEF CInit
    <3> QED
      BY <3>1, FS_EmptySet DEF CInit, CountsMatchTheDeltas
  <2> QED
    BY <2>1, <2>2 DEF CInit, RunInv
<1>7. \A w \in Workers : WorkInv(workers[w])
  BY <1>3 DEF WorkInv, Resting, HandlerPoints
<1> QED
  BY <1>1, <1>3, <1>4, <1>5, <1>6, <1>7 DEF CInv

LEMMA CInvNext == CInv /\ [CNext]_vars => CInv' /\ [Next]_jobs
<1> SUFFICES ASSUME CInv, [CNext]_vars PROVE CInv' /\ [Next]_jobs
  OBVIOUS
<1>1. ASSUME NEW w \in Workers, WorkerMoves(w), UNCHANGED <<crashes, scans>>
      PROVE  CInv' /\ [Next]_jobs
  <2>1. CASE Load(w)
    BY <1>1, <2>1, LoadKeeps
  <2>2. CASE BeginRun(w)
    BY <1>1, <2>2, BeginRunKeeps
  <2>3. CASE ReadPage(w)
    BY <1>1, <2>3, ReadPageKeeps
  <2>4. CASE Persist(w)
    BY <1>1, <2>4, PersistKeeps
  <2>5. CASE Record(w)
    BY <1>1, <2>5, RecordKeeps
  <2>6. CASE EnterPhase(w) \/ CloseRun(w) \/ StopRun(w)
    BY <1>1, <2>6, RunWritesKeep
  <2>7. CASE ProcessMoves(w) /\ UNCHANGED <<run, deltas>>
    BY <1>1, <2>7, ProcessMovesKeep
  <2> QED
    BY <1>1, <2>1, <2>2, <2>3, <2>4, <2>5, <2>6, <2>7 DEF WorkerMoves
<1>2. CASE UNCHANGED vars
  <2>1. UNCHANGED <<jobs, workers, scans, run, deltas>>
    BY <1>2 DEF vars
  <2> QED
    BY <2>1, SameStore, QuietEffect, ClientKeeps
<1> QED
  BY <1>1, <1>2, ClientSteps, QueueSteps, CrashKeeps DEF CNext

-----------------------------------------------------------------------------
(* Theorems.                                                               *)

\* What every execution of a comparison keeps: the differences before each position
\* that a worker, a checkpoint or the run names are among the deltas, and there are
\* no other deltas.
THEOREM CInductive == CSpec => []CInv
<1> QED
  BY CInvInit, CInvNext, PTL DEF CSpec

\* The three paged sweeps of reconciliation-job.ts, however often interrupted and by
\* whomever continued, have found when the run completes what reconcile() of
\* reconcile.ts finds in the two lists of records at once, and it stays so.
THEOREM ComparisonExact == CSpec => []CompletedComparisonIsExact
<1>1. CInv => CompletedComparisonIsExact
  <2> SUFFICES ASSUME CInv, run.status = "completed" PROVE deltas = reconcile
    BY DEF CompletedComparisonIsExact
  <2>1. ASSUME NEW d \in deltas PROVE d \in reconcile
    BY JoinsFind DEF CInv, RunInv
  <2>2. ASSUME NEW d \in reconcile PROVE d \in deltas
    <3>1. PICK k \in Phases, p \in Paths : DiffersIn(scans, k, p) /\ d = Delta(k, p)
      BY <2>2, JoinsFind
    <3>2. k < 3 \/ (k = 3 /\ p <= P)
      BY ReconciliationAssumption DEF Phases, Paths
    <3>3. Swept(deltas, scans, 3, P)
      BY DEF CInv, RunInv
    <3> QED
      BY <3>1, <3>2, <3>3 DEF Swept
  <2> QED
    BY <2>1, <2>2
<1> QED
  BY <1>1, CInductive, PTL

\* The counters of reconciliation_runs, which pages and reports show, are those of
\* the deltas, though pages are written twice and by several workers.
THEOREM CountsCorrect == CSpec => []CountsMatchTheDeltas
<1>1. CInv => CountsMatchTheDeltas
  BY DEF CInv, RunInv
<1> QED
  BY <1>1, CInductive, PTL

\* What client and workers of a comparison do to the job table are steps of JobQueue.
THEOREM ReconciliationsImplementQueue == CSpec => Spec
<1>1. CInit => Init
  BY DEF CInit, ProcessInit
<1> QED
  BY <1>1, CInvInit, CInvNext, PTL DEF CSpec, Spec
=============================================================================
