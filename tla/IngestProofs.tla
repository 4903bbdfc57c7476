---------------------------- MODULE IngestProofs ----------------------------
(***************************************************************************)
(* Theorems about the analysis of an ingest plan, for any source, page and *)
(* batch sizes.                                                            *)
(*                                                                         *)
(* GInv holds for any number of workers: every digest is of the content    *)
(* that was discovered, and no two items have one ordinal.                 *)
(*                                                                         *)
(* SInv(x) is about the only worker, x.  A directory that is completed has *)
(* everything in it recorded, so a discovery that finds none pending has   *)
(* found the whole tree; and no item behind a position that a checkpoint   *)
(* or the worker names is still to be analysed.                            *)
(***************************************************************************)
EXTENDS IngestPlan, JobQueueProofs

WorkersTyped == workers \in [Workers -> Worker(HandlerPoints, Locals)]

DirStatuses == {"none", "pending", "scanning", "completed"}
Item == [status : ItemStatuses, ordinal : Ordinals, seen : Versions, digest : Versions]

StoreTyped == plan \in PlanStatuses /\ dirs \in [Dirs -> DirStatuses] /\ items \in [Files -> Item]

UserTyped ==
  /\ disk \in [Paths -> Nat] /\ \A p \in Paths : disk[p] <= acts + 1
  /\ approval \in {"approved", "revoked"}
  /\ request \in [create : {"new", "created", "submitted", "answered"}, resolved : BOOLEAN]
  /\ acts \in 0 .. MaxActs /\ touched \subseteq Paths /\ early \in BOOLEAN

\* What the user deletes is empty, and does not come back.
TreeInv ==
  /\ \A p \in Paths : disk[p] = 0 => p \in touched
  /\ \A d \in Dirs : d \in touched => disk[d] = 0
  /\ \A d \in Dirs : disk[d] = 0 => \A p \in Children[d] : disk[p] = 0

ItemsInv ==
  /\ \A f \in Listed : Ordinal(f) < Cardinality(Listed)
  /\ \A f, g \in Listed : Ordinal(f) = Ordinal(g) => f = g
  /\ DigestsAreOfWhatWasDiscovered

\* The entries of one directory, each in the batch at most once.
BatchInv(l) ==
  /\ l.dir \in Dirs
  /\ \A a, b \in l.batch : a.file = b.file => a = b
  /\ \A a \in l.batch : a.file \notin l.todo

Last == Cardinality(Files) + 1     \* the checkpoint of a complete analysis

WorkInv(x) ==
  /\ x.pc \notin Resting => x.saved <= Last
  /\ x.pc = "read" => BatchInv(x.local)
  /\ x.pc = "hash" => x.local.item \in Listed
  /\ x.pc \in {"checkItem", "hash"} => x.local.todo \subseteq Listed

RowsInv == \A j \in Ids : jobs[j].checkpoint <= Last

GInv ==
  /\ IndInv /\ LinkInv /\ WorkersTyped /\ StoreTyped /\ UserTyped /\ TreeInv /\ ItemsInv /\ RowsInv
  /\ \A w \in Workers : WorkInv(workers[w])

-----------------------------------------------------------------------------
(* One worker.                                                             *)

IsAnalysis(j) == jobs[j].sub.kind = "analyze"

\* The statuses that follow a complete analysis.
Closed == {"needs-review", "ready-for-approval", "approved", "transfer-queued", "completed", "partial"}

Known(p) == IF p \in Dirs THEN dirs[p] # "none" ELSE p \in Listed
Covered(d) == \A p \in Children[d] \ touched : Known(p)
Discovered == Files \ touched \subseteq Listed
Swept(a) == \A f \in With("discovered") : Ordinal(f) > a
AllAnalysed == Discovered /\ With("discovered") = {}

\* What is still to be analysed lies behind l.after, and what is not in l.todo
\* lies behind all that is.
Ahead(S, l) ==
  \A f \in S : Ordinal(f) > l.after /\ (f \in l.todo \/ \A g \in l.todo : Ordinal(g) < Ordinal(f))

SoleRows ==
  /\ \A i, j \in Ids : IsAnalysis(i) /\ IsAnalysis(j) => i = j
  /\ request.create \in {"new", "created"} => \A j \in Ids : ~IsAnalysis(j)
  /\ \A j \in Ids : IsAnalysis(j) /\ jobs[j].checkpoint # 0
                      => Discovered /\ Swept(jobs[j].checkpoint - 2)

SoleStore ==
  /\ plan \in Closed \/ Analysed => early \/ AllAnalysed
  /\ \A d \in Dirs : dirs[d] = "completed" => Covered(d)

\* Nobody else takes a job away from the worker.
SoleLease(x) ==
  /\ Linked(x) => jobs[x.job].status = "running" /\ jobs[x.job].lease = x.attempt
  /\ x.pc \notin Resting => jobs[x.job].checkpoint = x.saved

Listing == {"checkDir", "read", "saveDir", "reportDir", "savePhase"}
Paging == {"checkPage", "checkItem", "hash", "save", "report", "count", "close"}

Discovering(x) ==
  /\ x.pc \in {"validate", "discover"} \cup Listing => early \/ plan \notin Closed
  /\ x.pc \in {"discover"} \cup Listing => x.saved = 0
  /\ x.pc \in Listing => /\ dirs[Root] # "none"
                         /\ \A d \in Dirs : dirs[d] = "scanning" => x.pc = "read" /\ d = x.local.dir
  /\ x.pc = "read" => \A p \in Children[x.local.dir] \ touched :
                        p \in x.local.todo \/ Known(p) \/ \E a \in x.local.batch : a.file = p
  /\ x.pc = "savePhase" => Pending = {}

Analysing(x) ==
  /\ x.pc \in Paging => Discovered
  /\ x.pc \in {"checkPage", "save", "report"} => Swept(x.local.after)
  /\ x.pc = "checkItem" => Ahead(With("discovered"), x.local)
  /\ x.pc = "hash" => Ahead(With("discovered") \ {x.local.item}, x.local)
  /\ x.pc \in {"count", "close"} => With("discovered") = {}

SoleWork(x) ==
  /\ x.pc \in HandlerPoints => (IsAnalysis(x.job) <=> x.pc # "transfer")
  /\ x.pc \in {"finish", "complete"} /\ IsAnalysis(x.job) => early \/ AllAnalysed
  /\ Discovering(x) /\ Analysing(x)

SInv(w) == SoleRows /\ SoleStore /\ SoleLease(workers[w]) /\ SoleWork(workers[w])

-----------------------------------------------------------------------------
(* The constants, and what lies in a directory.                            *)

LEMMA ConstantFacts ==
  /\ IsFiniteSet(Files) /\ Cardinality(Files) \in Nat
  /\ Files \subseteq Paths /\ Dirs \subseteq Paths /\ Paths = Dirs \cup Files
  /\ Paths \subseteq Nat /\ NoDir \notin Paths
  /\ Last \in Checkpoints /\ Last \in Nat
  /\ Nothing \in Locals /\ NoLocal = Nothing
  /\ \A d \in Dirs : Children[d] \subseteq Paths
<1>1. IsFiniteSet(Files) /\ Files \subseteq Paths /\ Dirs \subseteq Paths /\ Paths = Dirs \cup Files
  <2>1. Files \subseteq Paths /\ Dirs \subseteq Paths /\ Paths = Dirs \cup Files
    BY DEF Paths
  <2> QED
    BY <2>1, FS_Subset, IngestAssumption
<1>2. Cardinality(Files) \in Nat
  BY <1>1, FS_CardinalityType
<1>3. Last \in Checkpoints /\ Last \in Nat
  BY <1>2, IngestAssumption, BoundsAssumption DEF Last, Checkpoints
<1>4. Nothing \in Locals /\ NoLocal = Nothing
  <2>1. -1 \in -1 .. Cardinality(Files) - 1
    BY <1>2
  <2> QED
    BY <2>1, IngestAssumption DEF Nothing, Locals
<1>5. \A d \in Dirs : Children[d] \subseteq Paths
  BY DEF Paths, Files
<1> QED
  BY <1>1, <1>2, <1>3, <1>4, <1>5, IngestAssumption

LEMMA ListedFacts ==
  /\ Listed \subseteq Files /\ IsFiniteSet(Listed) /\ Cardinality(Listed) \in Nat
  /\ Cardinality(Listed) <= Cardinality(Files)
<1>1. Listed \subseteq Files
  BY DEF Listed
<1> QED
  BY <1>1, ConstantFacts, FS_Subset, FS_CardinalityType

-----------------------------------------------------------------------------
(* The store.                                                              *)

\* Files are given ordinals behind all that are listed, each its own.
LEMMA BatchOrder ==
  ASSUME StoreTyped, ItemsInv, NEW new \in SUBSET Found,
         \A a, b \in new : a.file = b.file => a = b,
         \A a \in new : a.file \notin Listed
  PROVE  LET files == {a.file : a \in new}
             count == Cardinality(Listed)
         IN /\ IsFiniteSet(new) /\ Cardinality(new) \in Nat
            /\ count + Cardinality(new) = Cardinality(Listed \cup files)
            /\ Cardinality(Listed \cup files) <= Cardinality(Files)
<1> DEFINE files == {a.file : a \in new}
           name == [a \in new |-> a.file]
<1>1. files \subseteq Files /\ files \cap Listed = {}
  BY DEF Found
<1>2. name \in Injection(new, Files) /\ name \in Surjection(new, files) /\ name \in Injection(new, files)
  BY DEF Found, Injection, Surjection, IsInjective
<1> HIDE DEF name, files
<1>3. IsFiniteSet(new)
  BY <1>2, ConstantFacts, FS_Injection
<1>4. Cardinality(files) = Cardinality(new) /\ IsFiniteSet(files)
  BY <1>2, <1>3, FS_Surjection
<1>5. Cardinality(new) \in Nat
  BY <1>3, FS_CardinalityType
<1>6. Cardinality(Listed \cup files) = Cardinality(Listed) + Cardinality(files)
  <2>1. Cardinality(Listed \cap files) = 0
    BY <1>1, FS_EmptySet
  <2> QED
    <3>1. Listed \cap files = files \cap Listed /\ IsFiniteSet(Listed)
      BY ListedFacts
    <3>2. Cardinality(Listed \cup files) = Cardinality(Listed) + Cardinality(files) - Cardinality(Listed \cap files)
      BY <1>4, <3>1, FS_Union
    <3>3. Cardinality(Listed) \in Nat /\ Cardinality(files) \in Nat
      BY <1>4, <1>5, ListedFacts
    <3> QED
      BY <2>1, <3>2, <3>3
<1>7. Cardinality(Listed \cup files) <= Cardinality(Files)
  BY <1>1, ListedFacts, ConstantFacts, FS_Subset
<1> QED
  BY <1>3, <1>4, <1>5, <1>6, <1>7 DEF files

LEMMA AddItems ==
  ASSUME StoreTyped, ItemsInv, NEW batch \in SUBSET Found,
         \A a, b \in batch : a.file = b.file => a = b,
         addDiscoveredItems(batch), UNCHANGED <<plan, dirs>>
  PROVE  /\ StoreTyped' /\ ItemsInv'
         /\ Listed' = Listed \cup {a.file : a \in batch}
         /\ \A f \in Listed : items'[f] = items[f]
<1> DEFINE new == {a \in batch : items[a.file].status = "none"}
           count == Cardinality(Listed)
           files == {a.file : a \in new}
           of(f) == CHOOSE a \in new : a.file = f
           total == Cardinality(Listed \cup files)
<1>1. /\ new \in SUBSET Found /\ \A a, b \in new : a.file = b.file => a = b
      /\ \A a \in new : a.file \in Files /\ a.file \notin Listed /\ a.seen \in Versions
  BY DEF Listed, Found
<1>2. PICK order \in [new -> count .. count + Cardinality(new) - 1] :
        /\ \A a, b \in new : order[a] = order[b] => a = b
        /\ items' = [f \in Files |->
             IF \E a \in new : a.file = f
             THEN [status |-> "discovered", ordinal |-> order[of(f)], seen |-> of(f).seen, digest |-> 0]
             ELSE items[f]]
  BY DEF addDiscoveredItems
<1> HIDE DEF new
<1>3. \A f \in files : of(f) \in new /\ of(f).file = f /\ f \in Files \ Listed
  BY <1>1
<1>4. \A f \in Files : f \in files <=> \E a \in new : a.file = f
  OBVIOUS
<1> HIDE DEF of
<1>5. /\ Cardinality(new) \in Nat /\ count \in Nat
      /\ count + Cardinality(new) = total /\ total <= Cardinality(Files)
  BY <1>1, BatchOrder, ListedFacts
<1> HIDE DEF files
<1>6. count <= total /\ total \in Nat
  <2> HIDE DEF count, total
  <2> QED
    BY <1>5
<1>7. ASSUME NEW f \in files
      PROVE  /\ items'[f] \in Item /\ items'[f].status = "discovered" /\ items'[f].digest = 0
             /\ items'[f].ordinal = order[of(f)] /\ items'[f].ordinal \in count .. total - 1
  <2>1. f \in Files /\ of(f) \in new
    BY <1>3
  <2>2. items'[f] = [status |-> "discovered", ordinal |-> order[of(f)],
                     seen |-> of(f).seen, digest |-> 0]
    BY <1>2, <1>4, <2>1
  <2>3. order[of(f)] \in count .. count + Cardinality(new) - 1
    BY <1>2, <2>1
  <2>4. order[of(f)] \in count .. total - 1
    BY <1>5, <2>3
  <2>5. order[of(f)] \in Ordinals
    <3> HIDE DEF total, count
    <3> QED
      BY <1>5, <2>4, ConstantFacts DEF Ordinals
  <2>6. of(f).seen \in Versions /\ 0 \in Versions /\ "discovered" \in ItemStatuses
    BY <1>1, <2>1, IngestAssumption DEF Versions, ItemStatuses
  <2> QED
    BY <2>2, <2>4, <2>5, <2>6 DEF Item
<1>8. \A f \in Files \ files : items'[f] = items[f]
  BY <1>2, <1>4
<1>9. items' = [f \in Files |-> items'[f]] /\ files \subseteq Files
  BY <1>2, <1>3
<1> HIDE DEF of, total, count
<1>10. \A f \in files : /\ items'[f] \in Item /\ items'[f].status = "discovered" /\ items'[f].digest = 0
                        /\ items'[f].ordinal = order[of(f)] /\ items'[f].ordinal \in count .. total - 1
  BY <1>7
<1>11. items' \in [Files -> Item]
  BY <1>8, <1>9, <1>10 DEF StoreTyped
<1>12. Listed' = Listed \cup files
  <2>1. \A f \in files : items'[f].status # "none"
    BY <1>10
  <2> QED
    BY <1>8, <1>9, <2>1 DEF Listed
<1>13. Listed' = Listed \cup {a.file : a \in batch}
  <2>1. \A a \in batch : a.file \in Files /\ (a.file \in Listed \/ a \in new)
    BY DEF new, Found, Listed
  <2> QED
    BY <1>12, <2>1 DEF files, new
<1>14. \A f \in Listed : items'[f] = items[f]
  BY <1>3, <1>8, ListedFacts
<1>15. \A f \in Listed : items'[f].ordinal < count /\ items'[f].ordinal \in Int
  <2>1. \A f \in Listed : f \in Files /\ items[f].ordinal < count
    BY ListedFacts DEF ItemsInv, Ordinal, count
  <2>2. \A f \in Files : items[f].ordinal \in Int
    BY ConstantFacts DEF StoreTyped, Item, Ordinals
  <2> QED
    BY <1>14, <2>1, <2>2
<1>16. \A f \in files : items'[f].ordinal >= count /\ items'[f].ordinal < total
  BY <1>5, <1>6, <1>10
<1>17. \A f \in Listed' : items'[f].ordinal < Cardinality(Listed')
  <2>1. Cardinality(Listed') = total
    BY <1>12 DEF total
  <2> QED
    BY <1>5, <1>6, <1>12, <1>15, <1>16, <2>1
<1>18. ASSUME NEW f \in Listed', NEW g \in Listed', items'[f].ordinal = items'[g].ordinal PROVE f = g
  <2>1. CASE f \in Listed /\ g \in Listed
    BY <1>14, <1>18, <2>1 DEF ItemsInv, Ordinal
  <2>2. CASE f \in files /\ g \in files
    BY <1>2, <1>3, <1>10, <1>18, <2>2
  <2>3. CASE (f \in Listed /\ g \in files) \/ (f \in files /\ g \in Listed)
    BY <1>5, <1>15, <1>16, <1>18, <2>3
  <2> QED
    BY <1>12, <2>1, <2>2, <2>3
<1>19. DigestsAreOfWhatWasDiscovered'
  <2> SUFFICES ASSUME NEW f \in Files
               PROVE  /\ items'[f].digest \in {0, items'[f].seen}
                      /\ items'[f].status = "exact-duplicate" => items'[f].digest = 1 /\ f \in Duplicates
    BY DEF DigestsAreOfWhatWasDiscovered
  <2>1. CASE f \in files
    BY <1>10, <2>1
  <2>2. CASE f \notin files
    BY <1>8, <2>2 DEF ItemsInv, DigestsAreOfWhatWasDiscovered
  <2> QED
    BY <2>1, <2>2
<1> QED
  BY <1>11, <1>13, <1>14, <1>17, <1>18, <1>19 DEF StoreTyped, ItemsInv, Ordinal

\* An item that changes keeps its place, and what was seen of its file.
LEMMA ChangeItems ==
  ASSUME StoreTyped, ItemsInv, UNCHANGED dirs, plan' \in PlanStatuses, items' \in [Files -> Item],
         \A f \in Files : /\ items'[f].ordinal = items[f].ordinal
                          /\ items'[f].status = "none" <=> items[f].status = "none",
         DigestsAreOfWhatWasDiscovered'
  PROVE  StoreTyped' /\ ItemsInv' /\ Listed' = Listed
<1>1. Listed' = Listed
  BY DEF Listed
<1>2. \A f \in Listed : f \in Files /\ Ordinal(f)' = Ordinal(f)
  BY ListedFacts DEF Ordinal
<1> QED
  BY <1>1, <1>2 DEF StoreTyped, ItemsInv

LEMMA SameItems ==
  ASSUME StoreTyped, ItemsInv, UNCHANGED items, plan' \in PlanStatuses, dirs' \in [Dirs -> DirStatuses]
  PROVE  StoreTyped' /\ ItemsInv' /\ Listed' = Listed
BY DEF StoreTyped, ItemsInv, Listed, Ordinal, DigestsAreOfWhatWasDiscovered

\* One item takes a status; its digest is 0 or that of what was seen.
LEMMA OneItem ==
  ASSUME StoreTyped, ItemsInv, UNCHANGED dirs, plan' \in PlanStatuses,
         NEW f \in Files, NEW status \in ItemStatuses \ {"none", "exact-duplicate"},
         f \in Listed, setItemState(f, status)
  PROVE  /\ StoreTyped' /\ ItemsInv' /\ Listed' = Listed
         /\ \A g \in Files : items'[g].ordinal = items[g].ordinal
         /\ \A g \in Files \ {f} : items'[g] = items[g]
         /\ items'[f].status = status
<1> DEFINE new == [items[f] EXCEPT !.status = status]
<1>1. items' = [items EXCEPT ![f] = new]
  BY DEF setItemState
<1>2. /\ new \in Item /\ new.status = status /\ new.ordinal = items[f].ordinal
      /\ new.seen = items[f].seen /\ new.digest = items[f].digest
  BY DEF StoreTyped, Item
<1> HIDE DEF new
<1>3. items' \in [Files -> Item] /\ items'[f] = new /\ \A g \in Files \ {f} : items'[g] = items[g]
  BY <1>1, <1>2 DEF StoreTyped
<1>4. items[f].status # "none"
  BY DEF Listed
<1>5. DigestsAreOfWhatWasDiscovered'
  BY <1>2, <1>3 DEF ItemsInv, DigestsAreOfWhatWasDiscovered
<1>6. \A g \in Files : /\ items'[g].ordinal = items[g].ordinal
                       /\ items'[g].status = "none" <=> items[g].status = "none"
  BY <1>2, <1>3, <1>4
<1> QED
  BY <1>2, <1>3, <1>5, <1>6, ChangeItems

-----------------------------------------------------------------------------
(* Where a worker goes.                                                    *)

\* The worker goes on without a call to the queue.
Proceeds(w, point, local) ==
  LET x == workers[w]
      y == workers'[w]
  IN /\ UNCHANGED jobs /\ WorkersTyped'
     /\ \A v \in Workers \ {w} : workers'[v] = workers[v]
     /\ y.pc = point /\ y.job = x.job /\ y.attempt = x.attempt
     /\ point # "fail" => y.local = local /\ y.saved = x.saved

LEMMA HandlerFacts ==
  ASSUME GInv, NEW w \in Workers, workers[w].pc \in HandlerPoints
  PROVE  LET x == workers[w]
         IN /\ IndInv /\ LinkInv /\ workers \in [Workers -> Worker(HandlerPoints, Locals)]
            /\ Linked(x) /\ x.pc \notin Points /\ x.pc \notin Resting
            /\ x.local \in Locals /\ x.saved \in Nat /\ x.saved <= Last
            /\ x.job \in Ids
<1>1. /\ IndInv /\ LinkInv /\ workers \in [Workers -> Worker(HandlerPoints, Locals)]
      /\ WorkInv(workers[w])
  BY DEF GInv, WorkersTyped
<1>2. Linked(workers[w]) /\ workers[w].pc \notin Resting /\ workers[w].pc \notin Points
  BY DEF Linked, HandlerPoints, Resting, Points
<1>3. workers[w].local \in Locals /\ workers[w].saved \in Nat
  BY <1>1, BoundsAssumption DEF Worker, Checkpoints
<1>4. workers[w].job \in Ids
  BY <1>1, <1>2 DEF LinkInv, LinkOK
<1> QED
  BY <1>1, <1>2, <1>3, <1>4 DEF WorkInv

LEMMA GoesOn ==
  ASSUME GInv, NEW w \in Workers, workers[w].pc \in HandlerPoints, UNCHANGED jobs
  PROVE  /\ \A point \in Points \cup HandlerPoints :
              Goto(w, point) => Proceeds(w, point, workers[w].local)
         /\ \A point \in Points \cup HandlerPoints, local \in Locals :
              Continue(w, point, local) => Proceeds(w, point, local)
         /\ \A retryable \in BOOLEAN : Throw(w, retryable) => Proceeds(w, "fail", NoLocal)
<1>1. workers \in [Workers -> Worker(HandlerPoints, Locals)] /\ NoLocal \in Locals
  BY HandlerFacts, ConstantFacts
<1>2. ASSUME NEW point \in Points \cup HandlerPoints, Goto(w, point)
      PROVE  Proceeds(w, point, workers[w].local)
  BY <1>1, <1>2, HandlerFacts, GotoActs DEF Proceeds, WorkersTyped, Acts
<1>3. ASSUME NEW point \in Points \cup HandlerPoints, NEW local \in Locals, Continue(w, point, local)
      PROVE  Proceeds(w, point, local)
  BY <1>1, <1>3, ContinuePoint DEF Proceeds, WorkersTyped
<1>4. ASSUME NEW retryable \in BOOLEAN, Throw(w, retryable) PROVE Proceeds(w, "fail", NoLocal)
  BY <1>1, <1>4, ThrowPoint DEF Proceeds, WorkersTyped
<1> QED
  BY <1>2, <1>3, <1>4

\* What the worker has in hand at the point where it goes.
Fits(point, local, listed) ==
  /\ point = "read" => BatchInv(local)
  /\ point = "hash" => local.item \in listed
  /\ point \in {"checkItem", "hash"} => local.todo \subseteq listed

\* A step of the queue that writes no checkpoint but what is allowed.
LEMMA RowsKept ==
  ASSUME IndInv, IndInv', RowsInv, NEW done, NEW saved, Effect(done, saved),
         \A j \in saved : j \in Ids => jobs'[j].checkpoint <= Last
  PROVE  RowsInv'
<1> SUFFICES ASSUME NEW j \in Ids' PROVE jobs'[j].checkpoint <= Last
  BY DEF RowsInv
<1>1. CASE j \in Ids
  BY <1>1, ConstantFacts DEF Effect, KeepsCheckpoint, RowsInv
<1>2. CASE j \notin Ids
  <2>1. PICK s \in Submissions : jobs'[j] = QueuedRow(s)
    BY <1>2 DEF Effect, TableStep
  <2>2. jobs'[j].checkpoint = 0
    BY <2>1 DEF QueuedRow
  <2> QED
    BY <2>2, ConstantFacts
<1> QED
  BY <1>1, <1>2

\* A step of a worker keeps the invariant when what it writes and where it goes do.
LEMMA WorkerKeeps ==
  ASSUME GInv, NEW w \in Workers, NEW done, NEW saved, Acts(w, done, saved), WorkersTyped',
         StoreTyped', ItemsInv', Listed \subseteq Listed', UNCHANGED user,
         WorkInv(workers[w])', \A j \in saved : j \in Ids => jobs'[j].checkpoint <= Last
  PROVE  GInv' /\ [Next]_jobs
<1>1. IndInv' /\ LinkInv' /\ [Next]_jobs /\ Effect(done, saved)
  BY ActsInv DEF GInv, Acts
<1>2. RowsInv'
  BY <1>1, RowsKept DEF GInv
<1>3. \A v \in Workers : WorkInv(workers[v])'
  <2>1. ASSUME NEW v \in Workers \ {w} PROVE WorkInv(workers[v])'
    BY DEF Acts, GInv, WorkInv
  <2> QED
    BY <2>1
<1>4. UserTyped' /\ TreeInv'
  BY DEF GInv, UserTyped, TreeInv, user
<1> QED
  BY <1>1, <1>2, <1>3, <1>4 DEF GInv

LEMMA ProceedKeeps ==
  ASSUME GInv, NEW w \in Workers, workers[w].pc \in HandlerPoints,
         NEW point \in Points \cup HandlerPoints, NEW local, Proceeds(w, point, local),
         StoreTyped', ItemsInv', Listed \subseteq Listed', UNCHANGED user,
         Fits(point, local, Listed')
  PROVE  GInv' /\ [Next]_jobs
<1>1. Linked(workers[w]) /\ workers[w].saved <= Last
  BY HandlerFacts
<1>2. Acts(w, {}, {})
  BY <1>1, QuietActs DEF Proceeds
<1>3. WorkInv(workers[w])'
  <2>1. CASE point = "fail"
    BY <2>1 DEF Proceeds, WorkInv, Resting
  <2>2. CASE point # "fail"
    BY <1>1, <2>2 DEF Proceeds, WorkInv, Fits
  <2> QED
    BY <2>1, <2>2
<1> QED
  BY <1>2, <1>3, WorkerKeeps DEF Proceeds

-----------------------------------------------------------------------------
(* The handler's local variables.                                          *)

LEMMA SetTodo ==
  ASSUME NEW l \in Locals, NEW T \in SUBSET Paths
  PROVE  LET m == [l EXCEPT !.todo = T]
         IN m \in Locals /\ m.todo = T /\ m.dir = l.dir /\ m.batch = l.batch /\ m.after = l.after
BY DEF Locals

LEMMA SetBatch ==
  ASSUME NEW l \in Locals, NEW B \in SUBSET Found
  PROVE  LET m == [l EXCEPT !.batch = B]
         IN m \in Locals /\ m.batch = B /\ m.dir = l.dir /\ m.todo = l.todo
BY DEF Locals

\* The position that a checkpoint names.
Resuming(c) == [Nothing EXCEPT !.after = c - 2]

LEMMA ResumingLocal ==
  ASSUME NEW c \in Nat, c # 0, c <= Last
  PROVE  Resuming(c) \in Locals /\ Resuming(c).after = c - 2
<1>1. Nothing \in Locals /\ c - 2 \in -1 .. Cardinality(Files) - 1
  BY ConstantFacts DEF Last
<1> QED
  BY <1>1 DEF Locals, Resuming

LEMMA SetReview ==
  ASSUME NEW b \in BOOLEAN
  PROVE  [Nothing EXCEPT !.review = b] \in Locals /\ [Nothing EXCEPT !.review = b].review = b
<1>1. Nothing \in Locals
  BY ConstantFacts
<1> QED
  BY <1>1 DEF Locals

\* A directory that is claimed, with its entries.
Entering(d, T) == [Nothing EXCEPT !.dir = d, !.todo = T]

LEMMA EnteringLocal ==
  ASSUME NEW d \in Dirs, NEW T \in SUBSET Paths
  PROVE  LET m == Entering(d, T)
         IN m \in Locals /\ m.dir = d /\ m.todo = T /\ m.batch = {}
<1> DEFINE k == [Nothing EXCEPT !.dir = d]
           m == [k EXCEPT !.todo = T]
<1>1. Nothing \in Locals /\ Nothing.batch = {}
  BY ConstantFacts DEF Nothing
<1>2. k \in Locals /\ k.dir = d /\ k.batch = {}
  BY <1>1 DEF Locals
<1>3. Entering(d, T) = m
  BY DEF Entering
<1> HIDE DEF k
<1>4. m \in Locals /\ m.dir = d /\ m.todo = T /\ m.batch = {}
  BY <1>2, SetTodo
<1> HIDE DEF m
<1> QED
  BY <1>3, <1>4

\* An item that is taken from the page.
Taking(l, f, after, review) ==
  [l EXCEPT !.todo = @ \ {f}, !.item = f, !.after = after, !.review = review]

LEMMA TakingLocal ==
  ASSUME NEW l \in Locals, NEW f \in Files, NEW a \in Ordinals, NEW b \in BOOLEAN
  PROVE  LET m == Taking(l, f, a, b)
         IN m \in Locals /\ m.todo = l.todo \ {f} /\ m.item = f /\ m.after = a /\ m.review = b
<1> DEFINE T == l.todo \ {f}
           k == [l EXCEPT !.todo = T]
           m == [k EXCEPT !.item = f]
           n == [m EXCEPT !.after = a]
           o == [n EXCEPT !.review = b]
<1>1. T \in SUBSET Paths /\ a \in -1 .. Cardinality(Files) - 1
  BY ConstantFacts DEF Locals, Ordinals
<1>2. Taking(l, f, a, b) = o
  BY DEF Taking
<1>3. k \in Locals /\ k.todo = T
  BY <1>1, SetTodo
<1> HIDE DEF T, k
<1>4. m \in Locals /\ m.todo = T /\ m.item = f
  BY <1>3 DEF Locals
<1> HIDE DEF m
<1>5. n \in Locals /\ n.todo = T /\ n.item = f /\ n.after = a
  BY <1>1, <1>4 DEF Locals
<1> HIDE DEF n
<1>6. o \in Locals /\ o.todo = T /\ o.item = f /\ o.after = a /\ o.review = b
  BY <1>5 DEF Locals
<1> HIDE DEF o
<1> QED
  BY <1>2, <1>6 DEF T

\* An item that is done with.
Leaving(l) == [l EXCEPT !.item = NoDir, !.review = FALSE]

LEMMA LeavingLocal ==
  ASSUME NEW l \in Locals
  PROVE  LET m == Leaving(l)
         IN m \in Locals /\ m.todo = l.todo /\ m.after = l.after
<1> DEFINE k == [l EXCEPT !.item = NoDir]
           m == [k EXCEPT !.review = FALSE]
<1>1. k \in Locals /\ k.todo = l.todo /\ k.after = l.after
  BY DEF Locals
<1>2. Leaving(l) = m
  BY DEF Leaving
<1> HIDE DEF k
<1>3. m \in Locals /\ m.todo = l.todo /\ m.after = l.after
  BY <1>1 DEF Locals
<1> HIDE DEF m
<1> QED
  BY <1>2, <1>3

-----------------------------------------------------------------------------
(* What each action does.                                                  *)

\* A request, a lost lease or the approval has stopped the analysis.
Stops(w) == \E point \in {"failPlan", "ackCancel", "ackPause"} : Proceeds(w, point, workers[w].local)

LEMMA StopPoints ==
  /\ {"failPlan", "ackCancel", "ackPause", "finish"} \subseteq Points \cup HandlerPoints
  /\ {"validate", "discover", "checkDir", "read", "saveDir", "savePhase", "checkPage", "checkItem",
      "hash", "save", "count", "close"} \subseteq HandlerPoints
  /\ "fail" \in Points
BY DEF Points, HandlerPoints

LEMMA Stopped ==
  ASSUME GInv, NEW w \in Workers, workers[w].pc \in HandlerPoints, UNCHANGED jobs,
         NEW point \in {"failPlan", "ackCancel", "ackPause"}, Goto(w, point)
  PROVE  Stops(w)
<1>1. point \in Points \cup HandlerPoints
  BY StopPoints
<1> QED
  BY <1>1, GoesOn DEF Stops

LEMMA StartDoes ==
  ASSUME GInv, NEW w \in Workers, Start(w)
  PROVE  /\ workers[w].pc = "start" /\ workers[w].pc \in HandlerPoints /\ UNCHANGED <<dirs, items>>
         /\ \/ /\ plan \in Closed /\ UNCHANGED plan
               /\ Proceeds(w, "finish", workers[w].local)
            \/ /\ plan' = "analyzing"
               /\ Proceeds(w, "validate", workers[w].local)
<1>1. workers[w].pc = "start" /\ workers[w].pc \in HandlerPoints /\ UNCHANGED <<jobs, dirs, items>>
  BY DEF Start, At, HandlerPoints
<1>2. CASE plan \in {"ready-for-approval", "needs-review", "completed"}
  <2>1. Goto(w, "finish") /\ UNCHANGED plan
    BY <1>2 DEF Start
  <2> QED
    BY <1>1, <1>2, <2>1, GoesOn, StopPoints DEF Closed
<1>3. CASE plan \notin {"ready-for-approval", "needs-review", "completed"}
  <2>1. Goto(w, "validate") /\ plan' = "analyzing"
    BY <1>3 DEF Start, setPlanState
  <2> QED
    BY <1>1, <2>1, GoesOn, StopPoints
<1> QED
  BY <1>2, <1>3

LEMMA ValidateDoes ==
  ASSUME GInv, NEW w \in Workers, Validate(w)
  PROVE  LET x == workers[w]
         IN /\ x.pc = "validate" /\ x.pc \in HandlerPoints /\ UNCHANGED db
            /\ \/ Stops(w)
               \/ x.saved = 0 /\ Proceeds(w, "discover", x.local)
               \/ x.saved # 0 /\ Proceeds(w, "checkPage", Resuming(x.saved))
<1> DEFINE x == workers[w]
<1>1. x.pc = "validate" /\ x.pc \in HandlerPoints /\ UNCHANGED <<jobs, db>>
  BY DEF Validate, At, HandlerPoints
<1>2. \/ Goto(w, "failPlan")
      \/ x.saved = 0 /\ Goto(w, "discover")
      \/ x.saved # 0 /\ Continue(w, "checkPage", Resuming(x.saved))
  BY DEF Validate, Resuming
<1>3. x.saved # 0 => Resuming(x.saved) \in Locals
  BY <1>1, HandlerFacts, ResumingLocal
<1>4. CASE Goto(w, "failPlan")
  BY <1>1, <1>4, Stopped
<1>5. CASE x.saved = 0 /\ Goto(w, "discover")
  BY <1>1, <1>5, GoesOn, StopPoints
<1>6. CASE x.saved # 0 /\ Continue(w, "checkPage", Resuming(x.saved))
  BY <1>1, <1>3, <1>6, GoesOn, StopPoints
<1> QED
  BY <1>1, <1>2, <1>4, <1>5, <1>6

LEMMA DiscoverDoes ==
  ASSUME GInv, NEW w \in Workers, Discover(w)
  PROVE  LET x == workers[w]
         IN /\ x.pc = "discover" /\ x.pc \in HandlerPoints /\ UNCHANGED <<plan, items>>
            /\ dirs' \in [Dirs -> DirStatuses] /\ OpenDiscovery
            /\ Proceeds(w, "checkDir", x.local)
<1>1. /\ workers[w].pc = "discover" /\ workers[w].pc \in HandlerPoints
      /\ UNCHANGED <<jobs, plan, items>> /\ OpenDiscovery /\ Goto(w, "checkDir")
  BY DEF Discover, At, HandlerPoints
<1>2. dirs' \in [Dirs -> DirStatuses]
  BY <1>1 DEF OpenDiscovery, GInv, StoreTyped, DirStatuses
<1> QED
  BY <1>1, <1>2, GoesOn, StopPoints

\* The pending directory that comes first.
LEMMA FirstPending ==
  ASSUME NEW d, Pending # {}, d = CHOOSE d_ \in Pending : \A e \in Pending : d_ <= e
  PROVE  d \in Pending
<1>1. Pending \in SUBSET Nat
  BY ConstantFacts DEF Pending
<1>2. \E d_ \in Pending : \A e \in Pending : d_ <= e
  BY <1>1, LeastElement
<1> QED
  BY <1>2

LEMMA ClaimDoes ==
  ASSUME GInv, NEW w \in Workers, ClaimDirectory(w)
  PROVE  LET x == workers[w]
             entries(d) == {p \in Children[d] : disk[p] # 0}
         IN /\ x.pc = "checkDir" /\ x.pc \in HandlerPoints /\ UNCHANGED <<plan, items>>
            /\ \/ UNCHANGED dirs /\ Stops(w)
               \/ UNCHANGED dirs /\ Pending = {} /\ Proceeds(w, "savePhase", x.local)
               \/ \E d \in Pending :
                    /\ dirs' = [dirs EXCEPT ![d] = "scanning"]
                    /\ Stops(w) \/ Proceeds(w, "read", Entering(d, entries(d)))
<1> DEFINE x == workers[w]
           d == CHOOSE d_ \in Pending : \A e \in Pending : d_ <= e
           entries == {p \in Children[d] : disk[p] # 0}
<1>1. x.pc = "checkDir" /\ x.pc \in HandlerPoints /\ UNCHANGED <<jobs, plan, items>>
  BY DEF ClaimDirectory, At, HandlerPoints
<1>2. \/ controlSignal(w) # "continue" /\ Controlled(w, FALSE) /\ UNCHANGED dirs
      \/ Goto(w, "failPlan") /\ UNCHANGED dirs
      \/ Pending = {} /\ Goto(w, "savePhase") /\ UNCHANGED dirs
      \/ /\ Pending # {} /\ dirs' = [dirs EXCEPT ![d] = "scanning"]
         /\ Goto(w, "failPlan") \/ Continue(w, "read", Entering(d, entries))
  BY DEF ClaimDirectory, Entering
<1>3. CASE controlSignal(w) # "continue" /\ Controlled(w, FALSE) /\ UNCHANGED dirs
  <2>1. \E point \in {"failPlan", "ackCancel", "ackPause"} : Goto(w, point)
    BY <1>3 DEF Controlled
  <2> QED
    BY <1>1, <1>3, <2>1, Stopped
<1>4. CASE Goto(w, "failPlan") /\ UNCHANGED dirs
  BY <1>1, <1>4, Stopped
<1>5. CASE Pending = {} /\ Goto(w, "savePhase") /\ UNCHANGED dirs
  BY <1>1, <1>5, GoesOn, StopPoints
<1>6. CASE /\ Pending # {} /\ dirs' = [dirs EXCEPT ![d] = "scanning"]
           /\ Goto(w, "failPlan") \/ Continue(w, "read", Entering(d, entries))
  <2>1. d \in Pending /\ d \in Dirs
    BY <1>6, FirstPending DEF Pending
  <2>2. entries \in SUBSET Paths
    BY <2>1, ConstantFacts
  <2> HIDE DEF d
  <2>3. Entering(d, entries) \in Locals
    BY <2>1, <2>2, EnteringLocal
  <2>4. Stops(w) \/ Proceeds(w, "read", Entering(d, entries))
    <3> HIDE DEF entries
    <3> QED
      BY <1>1, <1>6, <2>3, GoesOn, Stopped, StopPoints
  <2> QED
    BY <1>1, <1>6, <2>1, <2>4
<1> QED
  BY <1>2, <1>3, <1>4, <1>5, <1>6

\* The worker's notes without one entry, and with a file in the batch.
Without(l, p) == [l EXCEPT !.todo = @ \ {p}]
Noting(l, p, version) == [Without(l, p) EXCEPT !.batch = @ \cup {[file |-> p, seen |-> version]}]

LEMMA WithoutLocal ==
  ASSUME NEW l \in Locals, NEW p
  PROVE  LET m == Without(l, p)
         IN m \in Locals /\ m.todo = l.todo \ {p} /\ m.dir = l.dir /\ m.batch = l.batch
<1> DEFINE T == l.todo \ {p}
<1>1. T \in SUBSET Paths
  BY DEF Locals
<1>2. Without(l, p) = [l EXCEPT !.todo = T]
  BY DEF Without
<1> HIDE DEF T
<1>3. LET m == Without(l, p) IN m \in Locals /\ m.todo = T /\ m.dir = l.dir /\ m.batch = l.batch
  BY <1>1, <1>2, SetTodo
<1> QED
  BY <1>3 DEF T

LEMMA NotingLocal ==
  ASSUME NEW l \in Locals, NEW p \in Files, NEW version \in Versions
  PROVE  LET m == Noting(l, p, version)
         IN /\ m \in Locals /\ m.todo = l.todo \ {p} /\ m.dir = l.dir
            /\ m.batch = l.batch \cup {[file |-> p, seen |-> version]}
<1> DEFINE k == Without(l, p)
           B == l.batch \cup {[file |-> p, seen |-> version]}
<1>1. k \in Locals /\ k.todo = l.todo \ {p} /\ k.dir = l.dir /\ k.batch = l.batch
  BY WithoutLocal
<1>2. B \in SUBSET Found
  BY DEF Locals, Found
<1>3. Noting(l, p, version) = [k EXCEPT !.batch = B]
  BY <1>1 DEF Noting
<1> HIDE DEF k, B
<1>4. LET m == Noting(l, p, version)
      IN m \in Locals /\ m.batch = B /\ m.dir = k.dir /\ m.todo = k.todo
  BY <1>1, <1>2, <1>3, SetBatch
<1> QED
  BY <1>1, <1>4 DEF B

LEMMA ReadEntryDoes ==
  ASSUME GInv, NEW w \in Workers, ReadEntry(w)
  PROVE  LET x == workers[w]
             l == x.local
         IN /\ x.pc = "read" /\ x.pc \in HandlerPoints /\ UNCHANGED <<plan, items>>
            /\ \E p \in l.todo :
                 \/ p \in Dirs /\ addDirectory(p) /\ Proceeds(w, "read", Without(l, p))
                 \/ p \in Files /\ UNCHANGED dirs /\ disk[p] = 0 /\ Proceeds(w, "read", Without(l, p))
                 \/ p \in Files /\ UNCHANGED dirs /\ Proceeds(w, "read", Noting(l, p, disk[p]))
<1> DEFINE x == workers[w]
           l == x.local
<1>1. x.pc = "read" /\ x.pc \in HandlerPoints /\ UNCHANGED <<jobs, plan, items>>
  BY DEF ReadEntry, At, HandlerPoints
<1>2. PICK p \in l.todo :
        \/ p \in Dirs /\ addDirectory(p) /\ Continue(w, "read", Without(l, p))
        \/ p \notin Dirs /\ UNCHANGED dirs /\ disk[p] = 0 /\ Continue(w, "read", Without(l, p))
        \/ p \notin Dirs /\ UNCHANGED dirs /\ Continue(w, "read", Noting(l, p, disk[p]))
  <2>1. \E p \in l.todo :
          IF p \in Dirs THEN addDirectory(p) /\ Continue(w, "read", Without(l, p))
          ELSE /\ UNCHANGED dirs
               /\ Continue(w, "read", IF disk[p] = 0 THEN Without(l, p) ELSE Noting(l, p, disk[p]))
    BY Zenon DEF ReadEntry, Local, Without, Noting
  <2> QED
    BY <2>1, Zenon
<1>3. l \in Locals /\ p \in Paths
  <2>1. l \in Locals
    BY <1>1, HandlerFacts
  <2> QED
    BY <2>1 DEF Locals
<1>4. Without(l, p) \in Locals
  BY <1>3, WithoutLocal
<1>5. CASE p \in Dirs /\ addDirectory(p) /\ Continue(w, "read", Without(l, p))
  BY <1>1, <1>4, <1>5, GoesOn, StopPoints
<1>6. CASE p \notin Dirs /\ UNCHANGED dirs /\ disk[p] = 0 /\ Continue(w, "read", Without(l, p))
  BY <1>1, <1>3, <1>4, <1>6, GoesOn, StopPoints, ConstantFacts
<1>7. CASE p \notin Dirs /\ UNCHANGED dirs /\ Continue(w, "read", Noting(l, p, disk[p]))
  <2>1. p \in Files
    BY <1>3, <1>7, ConstantFacts
  <2>2. disk[p] \in Versions
    BY <1>3, IngestAssumption DEF GInv, UserTyped, Versions
  <2>3. Noting(l, p, disk[p]) \in Locals
    BY <1>3, <2>1, <2>2, NotingLocal
  <2> QED
    BY <1>1, <1>7, <2>1, <2>3, GoesOn, StopPoints
<1> QED
  BY <1>1, <1>2, <1>5, <1>6, <1>7

Emptied(l) == [l EXCEPT !.batch = {}]

LEMMA FlushDoes ==
  ASSUME GInv, NEW w \in Workers, FlushBatch(w)
  PROVE  LET x == workers[w]
             l == x.local
         IN /\ x.pc = "read" /\ x.pc \in HandlerPoints /\ UNCHANGED <<plan, dirs>>
            /\ addDiscoveredItems(l.batch)
            /\ Proceeds(w, "read", Emptied(l))
            /\ Emptied(l) \in Locals /\ Emptied(l).batch = {}
            /\ Emptied(l).todo = l.todo /\ Emptied(l).dir = l.dir
<1> DEFINE l == workers[w].local
<1>1. /\ workers[w].pc = "read" /\ workers[w].pc \in HandlerPoints /\ UNCHANGED <<jobs, plan, dirs>>
      /\ addDiscoveredItems(l.batch) /\ Continue(w, "read", Emptied(l))
  BY DEF FlushBatch, At, HandlerPoints, Local, Emptied
<1>2. /\ Emptied(l) \in Locals /\ Emptied(l).batch = {}
      /\ Emptied(l).todo = l.todo /\ Emptied(l).dir = l.dir
  BY <1>1, HandlerFacts, SetBatch DEF Emptied
<1> QED
  BY <1>1, <1>2, GoesOn, StopPoints

LEMMA CompleteDirectoryDoes ==
  ASSUME GInv, NEW w \in Workers, CompleteDirectory(w)
  PROVE  LET x == workers[w]
         IN /\ x.pc = "read" /\ x.pc \in HandlerPoints /\ UNCHANGED <<plan, items>>
            /\ x.local.todo = {} /\ x.local.batch = {} /\ x.local.dir \in Dirs
            /\ dirs' = [dirs EXCEPT ![x.local.dir] = "completed"]
            /\ Proceeds(w, "saveDir", Nothing)
<1>1. /\ workers[w].pc = "read" /\ workers[w].pc \in HandlerPoints /\ UNCHANGED <<jobs, plan, items>>
      /\ workers[w].local.todo = {} /\ workers[w].local.batch = {}
      /\ dirs' = [dirs EXCEPT ![workers[w].local.dir] = "completed"]
      /\ Continue(w, "saveDir", Nothing)
  BY DEF CompleteDirectory, At, HandlerPoints, Local, Dir
<1>2. workers[w].local.dir \in Dirs
  BY <1>1 DEF GInv, WorkInv, BatchInv
<1> QED
  BY <1>1, <1>2, GoesOn, StopPoints, ConstantFacts

LEMMA OutOfLeaseDoes ==
  ASSUME GInv, NEW w \in Workers, NEW points \in SUBSET HandlerPoints, OutOfLease(w, points)
  PROVE  workers[w].pc \in points /\ UNCHANGED jobs /\ Stops(w)
<1>1. workers[w].pc \in points /\ UNCHANGED jobs /\ Goto(w, "failPlan")
  BY DEF OutOfLease, At
<1> QED
  BY <1>1, Stopped

LEMMA ReadPageDoes ==
  ASSUME GInv, NEW w \in Workers, ReadPage(w)
  PROVE  LET x == workers[w]
             page == workItems(x.local.after)
         IN /\ x.pc = "checkPage" /\ x.pc \in HandlerPoints /\ UNCHANGED db
            /\ page \subseteq With("discovered") /\ page \subseteq Listed
            /\ \/ Stops(w)
               \/ page = {} /\ Proceeds(w, "count", x.local)
               \/ /\ Proceeds(w, "checkItem", [x.local EXCEPT !.todo = page])
                  /\ [x.local EXCEPT !.todo = page].todo = page
                  /\ [x.local EXCEPT !.todo = page].after = x.local.after
<1> DEFINE x == workers[w]
           l == x.local
           page == workItems(l.after)
           k == [l EXCEPT !.todo = page]
<1>1. x.pc = "checkPage" /\ x.pc \in HandlerPoints /\ UNCHANGED <<jobs, db>>
  BY DEF ReadPage, At, HandlerPoints
<1>2. page \subseteq With("discovered") /\ page \subseteq Listed /\ page \in SUBSET Paths
  <2>1. page \subseteq With("discovered")
    BY DEF workItems
  <2>2. With("discovered") \subseteq Listed
    BY DEF With, Listed
  <2> QED
    BY <2>1, <2>2, ListedFacts, ConstantFacts
<1>3. \/ \E point \in {"failPlan", "ackCancel", "ackPause"} : Goto(w, point)
      \/ page = {} /\ Goto(w, "count")
      \/ Continue(w, "checkItem", k)
  BY DEF ReadPage, Controlled, Local
<1> HIDE DEF page
<1>4. k \in Locals /\ k.todo = page /\ k.after = l.after
  BY <1>1, <1>2, HandlerFacts, SetTodo
<1> HIDE DEF k
<1>5. CASE \E point \in {"failPlan", "ackCancel", "ackPause"} : Goto(w, point)
  BY <1>1, <1>2, <1>5, Stopped DEF page
<1>6. CASE page = {} /\ Goto(w, "count")
  BY <1>1, <1>2, <1>6, GoesOn, StopPoints DEF page
<1>7. CASE Continue(w, "checkItem", k)
  <2>1. Proceeds(w, "checkItem", k)
    BY <1>1, <1>4, <1>7, GoesOn, StopPoints
  <2> QED
    BY <1>1, <1>2, <1>4, <2>1 DEF page, k
<1> QED
  BY <1>3, <1>5, <1>6, <1>7

\* The item of a page that comes first.
LEMMA FirstItem ==
  ASSUME StoreTyped, NEW T \in SUBSET Listed, T # {}
  PROVE  \E f \in T : \A g \in T : Ordinal(f) <= Ordinal(g)
<1> DEFINE S == {Ordinal(f) : f \in T}
<1>1. S \in SUBSET Nat /\ S # {}
  <2>1. \A f \in Files : Ordinal(f) \in Nat
    BY ConstantFacts DEF StoreTyped, Item, Ordinals, Ordinal
  <2> QED
    BY <2>1, ListedFacts
<1> HIDE DEF S
<1>2. \E i \in S : \A k \in S : i <= k
  BY <1>1, LeastElement
<1> QED
  BY <1>2 DEF S

LEMMA TakeItemDoes ==
  ASSUME GInv, NEW w \in Workers, TakeItem(w)
  PROVE  LET x == workers[w]
             l == x.local
         IN /\ x.pc = "checkItem" /\ x.pc \in HandlerPoints /\ UNCHANGED db
            /\ \/ Stops(w)
               \/ l.todo = {} /\ Proceeds(w, "save", l)
               \/ \E f \in l.todo, k \in Locals :
                    /\ f \in Listed /\ \A g \in l.todo : Ordinal(f) <= Ordinal(g)
                    /\ k.todo = l.todo \ {f} /\ k.item = f /\ k.after = Ordinal(f)
                    /\ Proceeds(w, "hash", k)
<1> DEFINE x == workers[w]
           l == x.local
           f == CHOOSE f_ \in l.todo : \A g \in l.todo : Ordinal(f_) <= Ordinal(g)
           changed == disk[f] # items[f].seen
           k == Taking(l, f, Ordinal(f), changed)
<1>1. /\ x.pc = "checkItem" /\ x.pc \in HandlerPoints /\ UNCHANGED <<jobs, db>>
      /\ l \in Locals /\ l.todo \subseteq Listed /\ StoreTyped
  <2>1. x.pc = "checkItem" /\ x.pc \in HandlerPoints /\ UNCHANGED <<jobs, db>>
    BY DEF TakeItem, At, HandlerPoints
  <2> QED
    BY <2>1, HandlerFacts DEF GInv, WorkInv
<1>2. \/ l.todo = {} /\ Goto(w, "save")
      \/ l.todo # {} /\ Controlled(w, Continue(w, "hash", k))
  BY Zenon DEF TakeItem, Local, Taking
<1>3. CASE l.todo = {} /\ Goto(w, "save")
  BY <1>1, <1>3, GoesOn, StopPoints
<1>4. CASE l.todo # {} /\ Controlled(w, Continue(w, "hash", k))
  <2>1. f \in l.todo /\ \A g \in l.todo : Ordinal(f) <= Ordinal(g)
    BY <1>1, <1>4, FirstItem
  <2>2. f \in Listed /\ f \in Files /\ Ordinal(f) \in Ordinals
    BY <1>1, <2>1, ListedFacts DEF StoreTyped, Item, Ordinal
  <2> HIDE DEF f
  <2>3. k \in Locals /\ k.todo = l.todo \ {f} /\ k.item = f /\ k.after = Ordinal(f)
    <3>1. changed \in BOOLEAN
      OBVIOUS
    <3> HIDE DEF changed
    <3> QED
      BY <1>1, <2>2, <3>1, TakingLocal
  <2> HIDE DEF k
  <2>4. \/ \E point \in {"failPlan", "ackCancel", "ackPause"} : Goto(w, point)
        \/ Continue(w, "hash", k)
    BY <1>4 DEF Controlled
  <2>5. CASE \E point \in {"failPlan", "ackCancel", "ackPause"} : Goto(w, point)
    BY <1>1, <2>5, Stopped
  <2>6. CASE Continue(w, "hash", k)
    <3>1. Proceeds(w, "hash", k)
      BY <1>1, <2>3, <2>6, GoesOn, StopPoints
    <3> QED
      BY <1>1, <2>1, <2>2, <2>3, <3>1
  <2> QED
    BY <2>4, <2>5, <2>6
<1> QED
  BY <1>2, <1>3, <1>4

LEMMA AnalyzeDoes ==
  ASSUME GInv, NEW w \in Workers, AnalyzeItem(w)
  PROVE  LET x == workers[w]
             l == x.local
         IN /\ x.pc = "hash" /\ x.pc \in HandlerPoints /\ UNCHANGED <<plan, dirs>>
            /\ l.item \in Listed /\ l.todo \subseteq Listed
            /\ StoreTyped' /\ ItemsInv' /\ Listed' = Listed
            /\ \A g \in Files : items'[g].ordinal = items[g].ordinal
            /\ \A g \in Files \ {l.item} : items'[g] = items[g]
            /\ items'[l.item].status # "discovered"
            /\ Proceeds(w, "checkItem", Leaving(l))
            /\ Leaving(l).todo = l.todo /\ Leaving(l).after = l.after
<1> DEFINE x == workers[w]
           l == x.local
           f == l.item
           new == [items[f] EXCEPT !.status = Classified(f), !.digest = disk[f]]
<1>1. /\ x.pc = "hash" /\ x.pc \in HandlerPoints /\ UNCHANGED <<jobs, plan, dirs>>
      /\ l \in Locals /\ f \in Listed /\ l.todo \subseteq Listed /\ StoreTyped /\ ItemsInv /\ UserTyped
      /\ f \in Files
  <2>1. x.pc = "hash" /\ x.pc \in HandlerPoints /\ UNCHANGED <<jobs, plan, dirs>>
    BY DEF AnalyzeItem, At, HandlerPoints
  <2> QED
    BY <2>1, HandlerFacts, ListedFacts DEF GInv, WorkInv
<1>2. \/ setItemState(f, "needs-review")
      \/ disk[f] = items[f].seen /\ items' = [items EXCEPT ![f] = new]
  BY Zenon DEF AnalyzeItem, Local
<1>3. Proceeds(w, "checkItem", Leaving(l)) /\ Leaving(l).todo = l.todo /\ Leaving(l).after = l.after
  <2>1. Continue(w, "checkItem", Leaving(l))
    BY Zenon DEF AnalyzeItem, Local, Leaving
  <2>2. Leaving(l) \in Locals /\ Leaving(l).todo = l.todo /\ Leaving(l).after = l.after
    BY <1>1, LeavingLocal
  <2> QED
    BY <1>1, <2>1, <2>2, GoesOn, StopPoints
<1> SUFFICES /\ StoreTyped' /\ ItemsInv' /\ Listed' = Listed
             /\ \A g \in Files : items'[g].ordinal = items[g].ordinal
             /\ \A g \in Files \ {f} : items'[g] = items[g]
             /\ items'[f].status # "discovered"
  BY <1>1, <1>3
<1>4. plan' \in PlanStatuses /\ UNCHANGED dirs
  BY <1>1 DEF StoreTyped
<1>5. CASE setItemState(f, "needs-review")
  <2>1. "needs-review" \in ItemStatuses \ {"none", "exact-duplicate"}
    BY DEF ItemStatuses
  <2> HIDE DEF f
  <2> QED
    BY <1>1, <1>4, <1>5, <2>1, OneItem
<1>6. CASE disk[f] = items[f].seen /\ items' = [items EXCEPT ![f] = new]
  <2>1. /\ Classified(f) \in {"exact-duplicate", "needs-review", "ready"}
        /\ Classified(f) = "exact-duplicate" => items[f].seen = 1 /\ f \in Duplicates
    BY DEF Classified
  <2>2. Classified(f) \in ItemStatuses /\ Classified(f) # "none" /\ Classified(f) # "discovered"
    BY <2>1 DEF ItemStatuses
  <2>3. items[f] \in Item /\ disk[f] \in Versions
    BY <1>1, <1>6 DEF StoreTyped, Item
  <2>4. /\ new \in Item /\ new.status = Classified(f) /\ new.ordinal = items[f].ordinal
        /\ new.seen = items[f].seen /\ new.digest = disk[f]
    <3> DEFINE mid == [items[f] EXCEPT !.status = Classified(f)]
    <3>1. /\ mid \in Item /\ mid.status = Classified(f) /\ mid.ordinal = items[f].ordinal
          /\ mid.seen = items[f].seen
      BY <2>2, <2>3 DEF Item
    <3>2. new = [mid EXCEPT !.digest = disk[f]]
      OBVIOUS
    <3> HIDE DEF mid, new
    <3> QED
      BY <2>3, <3>1, <3>2 DEF Item
  <2> HIDE DEF new
  <2>5. items' \in [Files -> Item] /\ items'[f] = new /\ \A g \in Files \ {f} : items'[g] = items[g]
    BY <1>1, <1>6, <2>4 DEF StoreTyped
  <2>6. \A g \in Files : /\ items'[g].ordinal = items[g].ordinal
                         /\ items'[g].status = "none" <=> items[g].status = "none"
    <3>1. items[f].status # "none"
      BY <1>1 DEF Listed
    <3> HIDE DEF f
    <3> QED
      BY <2>2, <2>4, <2>5, <3>1
  <2>7. DigestsAreOfWhatWasDiscovered'
    <3> SUFFICES ASSUME NEW g \in Files
                 PROVE  /\ items'[g].digest \in {0, items'[g].seen}
                        /\ items'[g].status = "exact-duplicate" => items'[g].digest = 1 /\ g \in Duplicates
      BY DEF DigestsAreOfWhatWasDiscovered
    <3>1. CASE g = f
      BY <1>6, <2>1, <2>4, <2>5, <3>1
    <3>2. CASE g # f
      BY <1>1, <2>5, <3>2 DEF ItemsInv, DigestsAreOfWhatWasDiscovered
    <3> QED
      BY <3>1, <3>2
  <2>8. StoreTyped' /\ ItemsInv' /\ Listed' = Listed
    BY <1>1, <1>4, <2>5, <2>6, <2>7, ChangeItems
  <2> HIDE DEF f
  <2> QED
    BY <2>2, <2>4, <2>5, <2>6, <2>8
<1> QED
  BY <1>2, <1>5, <1>6

LEMMA CountDoes ==
  ASSUME GInv, NEW w \in Workers, CountItems(w)
  PROVE  /\ workers[w].pc = "count" /\ workers[w].pc \in HandlerPoints /\ UNCHANGED db
         /\ \E local \in Locals : Proceeds(w, "close", local)
<1> DEFINE b == With("needs-review") \cup With("failed") # {}
<1>1. /\ workers[w].pc = "count" /\ workers[w].pc \in HandlerPoints /\ UNCHANGED <<jobs, db>>
      /\ Continue(w, "close", [Nothing EXCEPT !.review = b])
  BY DEF CountItems, At, HandlerPoints
<1>2. b \in BOOLEAN
  OBVIOUS
<1> HIDE DEF b
<1>3. [Nothing EXCEPT !.review = b] \in Locals
  BY <1>2, SetReview
<1> QED
  BY <1>1, <1>3, GoesOn, StopPoints

LEMMA CloseDoes ==
  ASSUME GInv, NEW w \in Workers, CloseAnalysis(w)
  PROVE  /\ workers[w].pc = "close" /\ workers[w].pc \in HandlerPoints /\ UNCHANGED <<dirs, items>>
         /\ plan' \in PlanStatuses
         /\ Proceeds(w, "finish", workers[w].local)
<1>1. /\ workers[w].pc = "close" /\ workers[w].pc \in HandlerPoints /\ UNCHANGED <<jobs, dirs, items>>
      /\ Goto(w, "finish") /\ plan' \in PlanStatuses
  BY DEF CloseAnalysis, At, HandlerPoints, setPlanState, PlanStatuses
<1> QED
  BY <1>1, GoesOn, StopPoints

LEMMA FailPlanDoes ==
  ASSUME GInv, NEW w \in Workers, FailPlan(w)
  PROVE  /\ workers[w].pc = "failPlan" /\ workers[w].pc \in HandlerPoints /\ UNCHANGED <<dirs, items>>
         /\ plan' = "failed" /\ Proceeds(w, "fail", NoLocal)
<1>1. /\ workers[w].pc = "failPlan" /\ workers[w].pc \in HandlerPoints /\ UNCHANGED <<jobs, dirs, items>>
      /\ Throw(w, TRUE) /\ plan' = "failed"
  BY DEF FailPlan, At, HandlerPoints, setPlanState
<1> QED
  BY <1>1, GoesOn

\* A transfer takes items that are ready, and leaves the others as they are.
LEMMA TransferDoes ==
  ASSUME GInv, NEW w \in Workers, Transfer(w)
  PROVE  /\ workers[w].pc = "transfer" /\ workers[w].pc \in HandlerPoints /\ UNCHANGED dirs
         /\ StoreTyped' /\ ItemsInv' /\ Listed' = Listed /\ With("discovered")' = With("discovered")
         /\ \A f \in Files : items'[f].ordinal = items[f].ordinal
         /\ plan' \in Closed => plan \in Closed
         /\ \E point \in {"finish", "fail"}, local \in Locals : Proceeds(w, point, local)
<1> DEFINE x == workers[w]
           good == {f \in With("ready") : items[f].digest # 0 /\ disk[f] = items[f].digest}
           after(f) == IF f \in good THEN "completed" ELSE "failed"
           moved == [f \in Files |-> IF f \notin With("ready") THEN items[f]
                                     ELSE [items[f] EXCEPT !.status = after(f)]]
           closed == IF With("ready") = good /\ With("failed") = {} THEN "completed" ELSE "partial"
<1>1. /\ x.pc = "transfer" /\ x.pc \in HandlerPoints /\ UNCHANGED <<jobs, dirs>>
      /\ StoreTyped /\ ItemsInv /\ x.local \in Locals /\ NoLocal \in Locals
  <2>1. x.pc = "transfer" /\ x.pc \in HandlerPoints /\ UNCHANGED <<jobs, dirs>>
    BY DEF Transfer, At, HandlerPoints
  <2> QED
    BY <2>1, HandlerFacts, ConstantFacts DEF GInv
<1>2. \/ Goto(w, "finish") /\ UNCHANGED <<plan, items>>
      \/ Throw(w, FALSE) /\ UNCHANGED <<plan, items>>
      \/ /\ plan \in {"approved", "transfer-queued"} /\ items' = moved /\ plan' = closed
         /\ Goto(w, "finish")
  BY DEF Transfer, setPlanState
<1>3. CASE (Goto(w, "finish") \/ Throw(w, FALSE)) /\ UNCHANGED <<plan, items>>
  <2>1. StoreTyped' /\ ItemsInv' /\ Listed' = Listed
    BY <1>1, <1>3, SameItems DEF StoreTyped
  <2>2. With("discovered")' = With("discovered")
    BY <1>3 DEF With
  <2>3. \E point \in {"finish", "fail"}, local \in Locals : Proceeds(w, point, local)
    BY <1>1, <1>3, GoesOn, StopPoints
  <2> QED
    BY <1>1, <1>3, <2>1, <2>2, <2>3
<1>4. CASE /\ plan \in {"approved", "transfer-queued"} /\ items' = moved /\ plan' = closed
           /\ Goto(w, "finish")
  <2>1. plan \in Closed /\ plan' \in PlanStatuses
    BY <1>4 DEF Closed, PlanStatuses
  <2> HIDE DEF closed, good
  <2>2. ASSUME NEW f \in Files
        PROVE  /\ items'[f] \in Item /\ items'[f].ordinal = items[f].ordinal
               /\ items'[f].seen = items[f].seen /\ items'[f].digest = items[f].digest
               /\ items'[f].status = "none" <=> items[f].status = "none"
               /\ items'[f].status = "discovered" <=> items[f].status = "discovered"
               /\ items'[f].status = "exact-duplicate" <=> items[f].status = "exact-duplicate"
    <3>1. items[f] \in Item
      BY <1>1 DEF StoreTyped
    <3>2. CASE f \notin With("ready")
      <4>1. items'[f] = items[f]
        BY <1>4, <3>2
      <4> QED
        BY <3>1, <4>1
    <3>3. CASE f \in With("ready")
      <4>1. items[f].status = "ready"
        BY <3>3 DEF With
      <4>2. items'[f] = [items[f] EXCEPT !.status = after(f)]
        BY <1>4, <3>3
      <4>3. after(f) \in {"completed", "failed"}
        OBVIOUS
      <4> HIDE DEF after
      <4>4. after(f) \in ItemStatuses /\ after(f) \notin {"none", "discovered", "exact-duplicate"}
        BY <4>3 DEF ItemStatuses
      <4> HIDE DEF moved
      <4> QED
        BY <3>1, <4>1, <4>2, <4>4 DEF Item
    <3> QED
      BY <3>2, <3>3
  <2>3. items' \in [Files -> Item]
    <3>1. items' = [f \in Files |-> items'[f]]
      BY <1>4
    <3> HIDE DEF moved
    <3> QED
      BY <2>2, <3>1
  <2> HIDE DEF moved
  <2>4. DigestsAreOfWhatWasDiscovered'
    <3> SUFFICES ASSUME NEW f \in Files
                 PROVE  /\ items'[f].digest \in {0, items'[f].seen}
                        /\ items'[f].status = "exact-duplicate" => items'[f].digest = 1 /\ f \in Duplicates
      BY DEF DigestsAreOfWhatWasDiscovered
    <3>1. /\ items[f].digest \in {0, items[f].seen}
          /\ items[f].status = "exact-duplicate" => items[f].digest = 1 /\ f \in Duplicates
      BY <1>1 DEF ItemsInv, DigestsAreOfWhatWasDiscovered
    <3> QED
      BY <2>2, <3>1
  <2>5. StoreTyped' /\ ItemsInv' /\ Listed' = Listed
    BY <1>1, <2>1, <2>2, <2>3, <2>4, ChangeItems
  <2>6. With("discovered")' = With("discovered")
    BY <2>2 DEF With
  <2>7. Proceeds(w, "finish", x.local)
    BY <1>1, <1>4, GoesOn, StopPoints
  <2> QED
    BY <1>1, <2>1, <2>2, <2>5, <2>6, <2>7
<1> QED
  BY <1>2, <1>3, <1>4

\* The handler begins with the checkpoint of the row.
LEMMA LoadDoes ==
  ASSUME GInv, NEW w \in Workers, Load(w)
  PROVE  LET x == workers[w]
             y == workers'[w]
         IN /\ x.pc = "load" /\ UNCHANGED <<jobs, db>> /\ Linked(x) /\ x.job \in Ids
            /\ WorkersTyped' /\ Acts(w, {}, {})
            /\ \/ y.pc = "down"
               \/ /\ y.pc = IF IsAnalysis(x.job) THEN "start" ELSE "transfer"
                  /\ Holds(x) /\ y.job = x.job /\ y.attempt = x.attempt
                  /\ y.saved = jobs[x.job].checkpoint
<1> DEFINE point == IF IsAnalysis(workers[w].job) THEN "start" ELSE "transfer"
<1>1. /\ At(w, "load") /\ LoadJob(w, point, Nothing) /\ UNCHANGED <<jobs, db>>
      /\ IndInv /\ LinkInv /\ workers \in [Workers -> Worker(HandlerPoints, Locals)]
  BY DEF Load, LoadJob, IsAnalysis, Job, GInv, WorkersTyped
<1>2. Linked(workers[w]) /\ workers[w].job \in Ids
  BY <1>1 DEF At, Linked, LinkInv, LinkOK
<1>3. point \in {"start", "transfer"}
  OBVIOUS
<1> HIDE DEF point
<1>4. point \in Points \cup HandlerPoints
  BY <1>3 DEF HandlerPoints
<1>5. WorkersTyped' /\ Acts(w, {}, {})
      /\ (workers'[w].pc # "down" => /\ Holds(workers[w]) /\ workers'[w].pc = point
                                     /\ workers'[w].job = workers[w].job
                                     /\ workers'[w].attempt = workers[w].attempt
                                     /\ workers'[w].saved = jobs[workers[w].job].checkpoint)
  BY <1>1, <1>4, ConstantFacts, LoadJobActs DEF WorkersTyped
<1> QED
  BY <1>1, <1>2, <1>5 DEF At, point

\* The worker goes on after a checkpoint, and after progress.
SavesTo(w, c, point, local) ==
  LET x == workers[w]
      y == workers'[w]
  IN /\ WorkersTyped' /\ Acts(w, {}, {x.job}) /\ Holds(x) /\ c \in 0 .. Last
     /\ jobs'[x.job].checkpoint = c /\ jobs'[x.job].sub = jobs[x.job].sub
     /\ y.pc = point /\ y.local = local /\ y.saved = c /\ y.job = x.job /\ y.attempt = x.attempt

ReportsTo(w, point, local) ==
  LET x == workers[w]
      y == workers'[w]
  IN /\ WorkersTyped' /\ Acts(w, {}, {}) /\ Holds(x)
     /\ jobs'[x.job].checkpoint = jobs[x.job].checkpoint /\ jobs'[x.job].sub = jobs[x.job].sub
     /\ y.pc = point /\ y.local = local /\ y.saved = x.saved
     /\ y.job = x.job /\ y.attempt = x.attempt

LEMMA RecordDoes ==
  ASSUME GInv, NEW w \in Workers, RecordDirectory(w) \/ RecordItem(w)
  PROVE  LET x == workers[w]
             l == x.local
         IN /\ x.pc \in HandlerPoints /\ UNCHANGED db
            /\ \/ Stops(w)
               \/ x.pc = "saveDir" /\ SavesTo(w, 0, "reportDir", Nothing)
               \/ x.pc = "reportDir" /\ ReportsTo(w, "checkDir", Nothing)
               \/ x.pc = "savePhase" /\ SavesTo(w, 1, "checkPage", Nothing)
               \/ x.pc = "save" /\ SavesTo(w, l.after + 2, "report", l)
               \/ x.pc = "report" /\ ReportsTo(w, "checkPage", l)
<1> DEFINE x == workers[w]
           l == x.local
<1>1. UNCHANGED db
  BY DEF RecordDirectory, RecordItem
<1>2. \/ OutOfLease(w, {"saveDir", "reportDir", "savePhase"})
      \/ OutOfLease(w, {"save", "report"})
      \/ x.pc = "saveDir" /\ SaveContext(w, 0, "reportDir", Nothing)
      \/ x.pc = "reportDir" /\ ReportContext(w, "checkDir", Nothing)
      \/ x.pc = "savePhase" /\ SaveContext(w, 1, "checkPage", Nothing)
      \/ x.pc = "save" /\ SaveContext(w, l.after + 2, "report", l)
      \/ x.pc = "report" /\ ReportContext(w, "checkPage", l)
  BY DEF RecordDirectory, RecordItem, At, Local
<1>3. {"saveDir", "reportDir", "savePhase", "save", "report", "checkPage", "checkDir"} \subseteq HandlerPoints
  BY DEF HandlerPoints
<1>4. CASE \/ OutOfLease(w, {"saveDir", "reportDir", "savePhase"})
           \/ OutOfLease(w, {"save", "report"})
  <2>1. {"saveDir", "reportDir", "savePhase"} \in SUBSET HandlerPoints /\ {"save", "report"} \in SUBSET HandlerPoints
    BY <1>3
  <2> QED
    BY <1>1, <1>3, <1>4, <2>1, OutOfLeaseDoes
<1>5. ASSUME x.pc \in HandlerPoints, NEW c \in 0 .. Last, NEW point \in HandlerPoints, NEW local \in Locals,
             SaveContext(w, c, point, local)
      PROVE  SavesTo(w, c, point, local)
  <2>1. c \in Checkpoints
    BY ConstantFacts, BoundsAssumption DEF Checkpoints
  <2>2. /\ workers \in [Workers -> Worker(HandlerPoints, Locals)] /\ IndInv /\ LinkInv
        /\ Linked(x) /\ point \in Points \cup HandlerPoints
    BY <1>5, HandlerFacts
  <2> QED
    BY <1>5, <2>1, <2>2, SaveContextActs DEF SavesTo, WorkersTyped
<1>6. ASSUME x.pc \in HandlerPoints, NEW point \in HandlerPoints, NEW local \in Locals,
             ReportContext(w, point, local)
      PROVE  ReportsTo(w, point, local)
  BY <1>6, HandlerFacts, ReportContextActs DEF ReportsTo, WorkersTyped
<1>7. 0 \in 0 .. Last /\ 1 \in 0 .. Last /\ Nothing \in Locals
  BY ConstantFacts DEF Last
<1>8. x.pc \in HandlerPoints => l \in Locals /\ l.after + 2 \in 0 .. Last
  <2> SUFFICES ASSUME x.pc \in HandlerPoints PROVE l \in Locals /\ l.after + 2 \in 0 .. Last
    OBVIOUS
  <2>1. l \in Locals
    BY HandlerFacts
  <2>2. l.after \in -1 .. Cardinality(Files) - 1
    BY <2>1 DEF Locals
  <2> QED
    BY <2>1, <2>2, ConstantFacts DEF Last
<1> QED
  BY <1>1, <1>2, <1>3, <1>4, <1>5, <1>6, <1>7, <1>8

-----------------------------------------------------------------------------
(* Each action keeps the invariant.                                        *)

LEMMA SameStore ==
  ASSUME GInv, UNCHANGED items, plan' \in PlanStatuses, dirs' \in [Dirs -> DirStatuses]
  PROVE  StoreTyped' /\ ItemsInv' /\ Listed' = Listed
BY SameItems DEF GInv

LEMMA StopsKeep ==
  ASSUME GInv, NEW w \in Workers, workers[w].pc \in HandlerPoints, Stops(w), UNCHANGED user,
         StoreTyped', ItemsInv', Listed' = Listed
  PROVE  GInv' /\ [Next]_jobs
<1>1. PICK point \in {"failPlan", "ackCancel", "ackPause"} : Proceeds(w, point, workers[w].local)
  BY DEF Stops
<1>2. point \in Points \cup HandlerPoints
  BY StopPoints
<1> QED
  BY <1>1, <1>2, ProceedKeeps DEF Fits

\* A directory enters the table, once.
LEMMA AddDirectory ==
  ASSUME StoreTyped, NEW p \in Dirs, addDirectory(p)
  PROVE  /\ dirs' \in [Dirs -> DirStatuses] /\ dirs'[p] # "none"
         /\ \A d \in Dirs : dirs'[d] = dirs[d] \/ (d = p /\ dirs[d] = "none" /\ dirs'[d] = "pending")
BY DEF addDirectory, StoreTyped, DirStatuses

\* The discovery, but for what a directory holds.
LEMMA ListingKeeps ==
  ASSUME GInv, NEW w \in Workers, UNCHANGED user,
         Start(w) \/ Validate(w) \/ Discover(w) \/ ClaimDirectory(w) \/ CompleteDirectory(w)
  PROVE  GInv' /\ [Next]_jobs
<1> DEFINE x == workers[w]
           l == x.local
<1>1. plan \in PlanStatuses /\ dirs \in [Dirs -> DirStatuses]
  BY DEF GInv, StoreTyped
<1>2. CASE Start(w)
  <2>1. /\ x.pc \in HandlerPoints /\ UNCHANGED <<dirs, items>> /\ plan' \in PlanStatuses
        /\ \E point \in {"finish", "validate"} : Proceeds(w, point, l)
    BY <1>1, <1>2, StartDoes DEF PlanStatuses
  <2>2. StoreTyped' /\ ItemsInv' /\ Listed' = Listed
    BY <1>1, <2>1, SameStore
  <2> QED
    BY <2>1, <2>2, StopPoints, ProceedKeeps DEF Fits
<1>3. CASE Validate(w)
  <2>1. /\ x.pc \in HandlerPoints /\ UNCHANGED db
        /\ \/ Stops(w)
           \/ \E point \in {"discover", "checkPage"}, local \in {l, Resuming(x.saved)} :
                Proceeds(w, point, local)
    BY <1>3, ValidateDoes
  <2>2. StoreTyped' /\ ItemsInv' /\ Listed' = Listed
    BY <1>1, <2>1, SameStore DEF db
  <2> QED
    BY <2>1, <2>2, StopsKeep, StopPoints, ProceedKeeps DEF Fits
<1>4. CASE Discover(w)
  <2>1. /\ x.pc \in HandlerPoints /\ UNCHANGED <<plan, items>> /\ dirs' \in [Dirs -> DirStatuses]
        /\ Proceeds(w, "checkDir", l)
    BY <1>4, DiscoverDoes
  <2>2. StoreTyped' /\ ItemsInv' /\ Listed' = Listed
    BY <1>1, <2>1, SameStore
  <2> QED
    BY <2>1, <2>2, StopPoints, ProceedKeeps DEF Fits
<1>5. CASE ClaimDirectory(w)
  <2>1. /\ x.pc \in HandlerPoints /\ UNCHANGED <<plan, items>>
        /\ UNCHANGED dirs \/ \E d \in Pending : dirs' = [dirs EXCEPT ![d] = "scanning"]
        /\ \/ Stops(w)
           \/ Proceeds(w, "savePhase", l)
           \/ \E d \in Dirs, T \in SUBSET Paths : Proceeds(w, "read", Entering(d, T))
    <3>1. \A d \in Pending : d \in Dirs /\ {p \in Children[d] : disk[p] # 0} \in SUBSET Paths
      BY ConstantFacts DEF Pending
    <3> QED
      BY <1>5, <3>1, ClaimDoes
  <2>2. dirs' \in [Dirs -> DirStatuses]
    BY <1>1, <2>1 DEF DirStatuses, Pending
  <2>3. StoreTyped' /\ ItemsInv' /\ Listed' = Listed
    BY <1>1, <2>1, <2>2, SameStore
  <2>4. ASSUME NEW d \in Dirs, NEW T \in SUBSET Paths PROVE Fits("read", Entering(d, T), Listed')
    BY EnteringLocal DEF Fits, BatchInv
  <2>5. Fits("savePhase", l, Listed')
    BY DEF Fits
  <2> QED
    BY <2>1, <2>3, <2>4, <2>5, StopsKeep, StopPoints, ProceedKeeps
<1>6. CASE CompleteDirectory(w)
  <2>1. /\ x.pc \in HandlerPoints /\ UNCHANGED <<plan, items>>
        /\ dirs' = [dirs EXCEPT ![x.local.dir] = "completed"]
        /\ Proceeds(w, "saveDir", Nothing)
    BY <1>6, CompleteDirectoryDoes
  <2>2. dirs' \in [Dirs -> DirStatuses]
    BY <1>1, <2>1 DEF DirStatuses
  <2>3. StoreTyped' /\ ItemsInv' /\ Listed' = Listed
    BY <1>1, <2>1, <2>2, SameStore
  <2> QED
    BY <2>1, <2>3, StopPoints, ProceedKeeps DEF Fits
<1> QED
  BY <1>2, <1>3, <1>4, <1>5, <1>6

\* What a directory holds.
LEMMA ReadingKeeps ==
  ASSUME GInv, NEW w \in Workers, UNCHANGED user, ReadEntry(w) \/ FlushBatch(w)
  PROVE  GInv' /\ [Next]_jobs
<1> DEFINE x == workers[w]
           l == x.local
<1>1. /\ plan \in PlanStatuses /\ dirs \in [Dirs -> DirStatuses] /\ StoreTyped /\ ItemsInv
      /\ x.pc = "read" /\ x.pc \in HandlerPoints
  <2>1. x.pc = "read" /\ x.pc \in HandlerPoints
    BY ReadEntryDoes, FlushDoes
  <2> QED
    BY <2>1 DEF GInv, StoreTyped
<1>2. l \in Locals /\ BatchInv(l)
  BY <1>1, HandlerFacts DEF GInv, WorkInv
<1>3. CASE ReadEntry(w)
  <2>1. PICK p \in l.todo :
          \/ p \in Dirs /\ addDirectory(p) /\ Proceeds(w, "read", Without(l, p))
          \/ p \in Files /\ UNCHANGED dirs /\ disk[p] = 0 /\ Proceeds(w, "read", Without(l, p))
          \/ p \in Files /\ UNCHANGED dirs /\ Proceeds(w, "read", Noting(l, p, disk[p]))
    BY <1>3, ReadEntryDoes
  <2>2. UNCHANGED <<plan, items>>
    BY <1>3, ReadEntryDoes
  <2>3. dirs' \in [Dirs -> DirStatuses]
    BY <1>1, <2>1, AddDirectory
  <2>4. StoreTyped' /\ ItemsInv' /\ Listed' = Listed
    BY <1>1, <2>2, <2>3, SameStore
  <2>5. Fits("read", Without(l, p), Listed')
    BY <1>2, WithoutLocal DEF Fits, BatchInv
  <2>6. p \in Files => Fits("read", Noting(l, p, disk[p]), Listed')
    <3> SUFFICES ASSUME p \in Files PROVE BatchInv(Noting(l, p, disk[p]))
      BY DEF Fits
    <3> DEFINE entry == [file |-> p, seen |-> disk[p]]
    <3>1. disk[p] \in Versions
      BY ConstantFacts, IngestAssumption DEF GInv, UserTyped, Versions
    <3>2. /\ Noting(l, p, disk[p]).todo = l.todo \ {p} /\ Noting(l, p, disk[p]).dir = l.dir
          /\ Noting(l, p, disk[p]).batch = l.batch \cup {entry}
      BY <1>2, <3>1, NotingLocal
    <3>3. entry.file = p
      OBVIOUS
    <3> HIDE DEF entry
    <3> QED
      BY <1>2, <2>1, <3>2, <3>3 DEF BatchInv
  <2> QED
    BY <1>1, <2>1, <2>4, <2>5, <2>6, StopPoints, ProceedKeeps
<1>4. CASE FlushBatch(w)
  <2>1. /\ UNCHANGED <<plan, dirs>> /\ addDiscoveredItems(l.batch)
        /\ Proceeds(w, "read", Emptied(l)) /\ Emptied(l).batch = {} /\ Emptied(l).dir = l.dir
    BY <1>4, FlushDoes
  <2>2. l.batch \in SUBSET Found /\ \A a, b \in l.batch : a.file = b.file => a = b
    BY <1>2 DEF Locals, BatchInv
  <2>3. StoreTyped' /\ ItemsInv' /\ Listed \subseteq Listed'
    BY <1>1, <2>1, <2>2, AddItems
  <2>4. Fits("read", Emptied(l), Listed')
    BY <1>2, <2>1 DEF Fits, BatchInv
  <2> QED
    BY <1>1, <2>1, <2>3, <2>4, StopPoints, ProceedKeeps
<1> QED
  BY <1>3, <1>4

\* The pages, and the end.
LEMMA PagingKeeps ==
  ASSUME GInv, NEW w \in Workers, UNCHANGED user,
         ReadPage(w) \/ TakeItem(w) \/ AnalyzeItem(w) \/ CountItems(w)
  PROVE  GInv' /\ [Next]_jobs
<1> DEFINE x == workers[w]
           l == x.local
<1>1. UNCHANGED db => StoreTyped' /\ ItemsInv' /\ Listed' = Listed
  BY SameStore DEF GInv, StoreTyped, db
<1>2. CASE ReadPage(w)
  <2> DEFINE k == [l EXCEPT !.todo = workItems(l.after)]
  <2>1. /\ x.pc \in HandlerPoints /\ UNCHANGED db
        /\ \/ Stops(w)
           \/ Proceeds(w, "count", l)
           \/ Proceeds(w, "checkItem", k) /\ k.todo \subseteq Listed
    BY <1>2, ReadPageDoes
  <2> HIDE DEF k
  <2>2. k.todo \subseteq Listed => Fits("checkItem", k, Listed')
    BY <1>1, <2>1 DEF Fits
  <2>3. Fits("count", l, Listed')
    BY DEF Fits
  <2> QED
    BY <1>1, <2>1, <2>2, <2>3, StopsKeep, StopPoints, ProceedKeeps
<1>3. CASE TakeItem(w)
  <2>1. /\ x.pc = "checkItem" /\ x.pc \in HandlerPoints /\ UNCHANGED db
        /\ \/ Stops(w)
           \/ Proceeds(w, "save", l)
           \/ \E f \in l.todo, k \in Locals :
                f \in Listed /\ k.todo = l.todo \ {f} /\ k.item = f /\ Proceeds(w, "hash", k)
    BY <1>3, TakeItemDoes
  <2>2. l.todo \subseteq Listed
    BY <2>1 DEF GInv, WorkInv
  <2>3. CASE \E f \in l.todo, k \in Locals :
                f \in Listed /\ k.todo = l.todo \ {f} /\ k.item = f /\ Proceeds(w, "hash", k)
    <3>1. PICK f \in l.todo, k \in Locals :
                f \in Listed /\ k.todo = l.todo \ {f} /\ k.item = f /\ Proceeds(w, "hash", k)
      BY <2>3
    <3>2. Fits("hash", k, Listed')
      BY <1>1, <2>1, <2>2, <3>1 DEF Fits
    <3> QED
      BY <1>1, <2>1, <3>1, <3>2, StopPoints, ProceedKeeps
  <2>4. Fits("save", l, Listed')
    BY DEF Fits
  <2> QED
    BY <1>1, <2>1, <2>3, <2>4, StopsKeep, StopPoints, ProceedKeeps
<1>4. CASE AnalyzeItem(w)
  <2>1. /\ x.pc \in HandlerPoints /\ l.todo \subseteq Listed
        /\ StoreTyped' /\ ItemsInv' /\ Listed' = Listed
        /\ Proceeds(w, "checkItem", Leaving(l)) /\ Leaving(l).todo = l.todo
    BY <1>4, AnalyzeDoes
  <2>2. Fits("checkItem", Leaving(l), Listed')
    BY <2>1 DEF Fits
  <2> QED
    BY <2>1, <2>2, StopPoints, ProceedKeeps
<1>5. CASE CountItems(w)
  <2>1. PICK local \in Locals : Proceeds(w, "close", local)
    BY <1>5, CountDoes
  <2>2. x.pc \in HandlerPoints /\ UNCHANGED db
    BY <1>5, CountDoes
  <2> QED
    BY <1>1, <2>1, <2>2, StopPoints, ProceedKeeps DEF Fits
<1> QED
  BY <1>2, <1>3, <1>4, <1>5

LEMMA EndingKeeps ==
  ASSUME GInv, NEW w \in Workers, UNCHANGED user,
         CloseAnalysis(w) \/ FailPlan(w) \/ Transfer(w)
  PROVE  GInv' /\ [Next]_jobs
<1> DEFINE x == workers[w]
           l == x.local
<1>1. plan \in PlanStatuses /\ dirs \in [Dirs -> DirStatuses] /\ "fail" \in Points
  BY StopPoints DEF GInv, StoreTyped
<1>2. CASE CloseAnalysis(w)
  <2>1. /\ x.pc \in HandlerPoints /\ UNCHANGED <<dirs, items>> /\ plan' \in PlanStatuses
        /\ Proceeds(w, "finish", l)
    BY <1>2, CloseDoes
  <2>2. StoreTyped' /\ ItemsInv' /\ Listed' = Listed
    BY <1>1, <2>1, SameStore
  <2> QED
    BY <2>1, <2>2, StopPoints, ProceedKeeps DEF Fits
<1>3. CASE FailPlan(w)
  <2>1. /\ x.pc \in HandlerPoints /\ UNCHANGED <<dirs, items>> /\ plan' \in PlanStatuses
        /\ Proceeds(w, "fail", NoLocal)
    BY <1>3, FailPlanDoes DEF PlanStatuses
  <2>2. StoreTyped' /\ ItemsInv' /\ Listed' = Listed
    BY <1>1, <2>1, SameStore
  <2> QED
    BY <1>1, <2>1, <2>2, ProceedKeeps DEF Fits
<1>4. CASE Transfer(w)
  <2>1. /\ x.pc \in HandlerPoints /\ StoreTyped' /\ ItemsInv' /\ Listed' = Listed
        /\ \E point \in {"finish", "fail"}, local \in Locals : Proceeds(w, point, local)
    BY <1>4, TransferDoes
  <2> QED
    BY <1>1, <2>1, StopPoints, ProceedKeeps DEF Fits
<1> QED
  BY <1>2, <1>3, <1>4

\* Checkpoints and progress.
LEMMA RecordKeeps ==
  ASSUME GInv, NEW w \in Workers, UNCHANGED user, RecordDirectory(w) \/ RecordItem(w)
  PROVE  GInv' /\ [Next]_jobs
<1> DEFINE x == workers[w]
           l == x.local
<1>1. x.pc \in HandlerPoints /\ UNCHANGED db
  BY RecordDoes
<1>2. StoreTyped' /\ ItemsInv' /\ Listed' = Listed
  BY <1>1, SameStore DEF GInv, StoreTyped, db
<1>3. \/ Stops(w)
      \/ \E c \in 0 .. Last, point \in {"reportDir", "checkPage", "report"}, local \in {Nothing, l} :
           SavesTo(w, c, point, local)
      \/ \E point \in {"checkDir", "checkPage"}, local \in {Nothing, l} : ReportsTo(w, point, local)
  <2>1. \A c, point, local : SavesTo(w, c, point, local) => c \in 0 .. Last
    BY DEF SavesTo
  <2> QED
    BY <2>1, RecordDoes
<1>4. x.saved <= Last /\ Last \in Nat /\ x.job \in Ids
  BY <1>1, HandlerFacts, ConstantFacts
<1>5. CASE \E c \in 0 .. Last, point \in {"reportDir", "checkPage", "report"}, local \in {Nothing, l} :
             SavesTo(w, c, point, local)
  <2>1. PICK c \in 0 .. Last, point \in {"reportDir", "checkPage", "report"}, local \in {Nothing, l} :
             SavesTo(w, c, point, local)
    BY <1>5
  <2>2. /\ WorkersTyped' /\ Acts(w, {}, {x.job}) /\ jobs'[x.job].checkpoint = c
        /\ workers'[w].pc = point /\ workers'[w].saved = c
    BY <2>1 DEF SavesTo
  <2>3. WorkInv(workers[w])'
    BY <1>4, <2>2 DEF WorkInv
  <2> QED
    BY <1>2, <1>4, <2>2, <2>3, WorkerKeeps
<1>6. CASE \E point \in {"checkDir", "checkPage"}, local \in {Nothing, l} : ReportsTo(w, point, local)
  <2>1. PICK point \in {"checkDir", "checkPage"}, local \in {Nothing, l} : ReportsTo(w, point, local)
    BY <1>6
  <2>2. /\ WorkersTyped' /\ Acts(w, {}, {}) /\ workers'[w].pc = point /\ workers'[w].saved = x.saved
    BY <2>1 DEF ReportsTo
  <2>3. WorkInv(workers[w])'
    BY <1>4, <2>2 DEF WorkInv
  <2> QED
    BY <1>2, <2>2, <2>3, WorkerKeeps
<1> QED
  BY <1>1, <1>2, <1>3, <1>5, <1>6, StopsKeep

LEMMA LoadKeeps ==
  ASSUME GInv, NEW w \in Workers, UNCHANGED user, Load(w)
  PROVE  GInv' /\ [Next]_jobs
<1> DEFINE x == workers[w]
           y == workers'[w]
<1>1. /\ UNCHANGED db /\ x.job \in Ids /\ WorkersTyped' /\ Acts(w, {}, {})
      /\ y.pc = "down" \/ (y.pc \in {"start", "transfer"} /\ y.saved = jobs[x.job].checkpoint)
  BY LoadDoes
<1>2. StoreTyped' /\ ItemsInv' /\ Listed' = Listed
  BY <1>1, SameStore DEF GInv, StoreTyped, db
<1>3. jobs[x.job].checkpoint <= Last
  BY <1>1 DEF GInv, RowsInv
<1>4. WorkInv(workers[w])'
  BY <1>1, <1>3 DEF WorkInv, Resting
<1> QED
  BY <1>1, <1>2, <1>4, WorkerKeeps

LEMMA CrashKeeps ==
  ASSUME GInv, NEW w \in Workers, Crash(w), UNCHANGED <<db, user>>
  PROVE  GInv' /\ [Next]_jobs
<1>1. Die(w) /\ workers \in [Workers -> Worker(HandlerPoints, Locals)] /\ NoLocal \in Locals
  BY ConstantFacts DEF Crash, GInv, WorkersTyped
<1>2. WorkersTyped' /\ Acts(w, {}, {}) /\ workers'[w].pc = "down"
  BY <1>1, DieActs DEF WorkersTyped
<1>3. StoreTyped' /\ ItemsInv' /\ Listed' = Listed
  BY SameStore DEF GInv, StoreTyped, db
<1>4. WorkInv(workers[w])'
  BY <1>2 DEF WorkInv, Resting
<1> QED
  BY <1>2, <1>3, <1>4, WorkerKeeps

\* A pause that is acknowledged writes the checkpoint of its worker again.
LEMMA ProcessMovesKeep ==
  ASSUME GInv, NEW w \in Workers, ProcessMoves(w), UNCHANGED <<db, user>>
  PROVE  GInv' /\ [Next]_jobs
<1> DEFINE x == workers[w]
           y == workers'[w]
           done == IF x.pc = "complete" THEN {x.job} ELSE {}
           saved == IF x.pc = "ackPause" THEN {x.job} ELSE {}
<1>1. /\ workers \in [Workers -> Worker(HandlerPoints, Locals)] /\ IndInv /\ LinkInv /\ WorkInv(x)
      /\ RowsInv /\ NoLocal \in Locals
  BY ConstantFacts DEF GInv, WorkersTyped
<1>2. WorkersTyped' /\ ProcessActs(w)
  BY <1>1, ProcessMovesActs DEF WorkersTyped
<1>3. /\ Acts(w, done, saved) /\ x.pc \in Points
      /\ x.pc = "ackPause" /\ jobs' # jobs => jobs'[x.job].checkpoint = x.saved
      /\ y.pc \in Resting \/ Answers(x, y)
  BY <1>2 DEF ProcessActs
<1>4. WorkInv(y)
  <2>1. CASE y.pc \in Resting
    BY <2>1 DEF WorkInv, Resting
  <2>2. CASE Answers(x, y)
    <3>1. x.pc = "finish" /\ y.pc \in {"complete", "ackPause", "ackCancel"} /\ y.saved = x.saved
      <4>1. x.pc = "finish" /\ y = [x EXCEPT !.pc = y.pc] /\ x \in Worker(HandlerPoints, Locals)
        BY <1>1, <2>2 DEF Answers
      <4> QED
        BY <2>2, <4>1 DEF Answers, Worker
    <3> QED
      BY <1>1, <3>1 DEF WorkInv, Resting
  <2> QED
    BY <1>3, <2>1, <2>2
<1>5. \A j \in saved : j \in Ids => jobs'[j].checkpoint <= Last
  <2> SUFFICES ASSUME x.pc = "ackPause", x.job \in Ids PROVE jobs'[x.job].checkpoint <= Last
    OBVIOUS
  <2>1. x.saved <= Last
    BY <1>1 DEF WorkInv, Resting
  <2> QED
    BY <1>1, <1>3, <2>1 DEF RowsInv
<1>6. StoreTyped' /\ ItemsInv' /\ Listed' = Listed
  BY SameStore DEF GInv, StoreTyped, db
<1> HIDE DEF y, done, saved
<1>7. WorkInv(workers[w])'
  BY <1>4, <1>6 DEF y, WorkInv
<1> QED
  BY <1>2, <1>3, <1>5, <1>6, <1>7, WorkerKeeps

\* The server, the user and the queue move, and no worker does.
LEMMA ClientKeeps ==
  ASSUME GInv, [Next]_jobs, Effect({}, {}), UNCHANGED workers,
         StoreTyped', ItemsInv', Listed \subseteq Listed', UserTyped', TreeInv'
  PROVE  GInv'
<1>1. IndInv' /\ TableStep
  BY IndInvNext DEF GInv, Effect
<1>2. LinkInv' /\ WorkersTyped'
  BY <1>1, LinkTable DEF GInv, WorkersTyped
<1>3. RowsInv'
  BY <1>1, RowsKept DEF GInv
<1>4. ASSUME NEW w \in Workers PROVE WorkInv(workers[w])'
  BY DEF GInv, WorkInv
<1> QED
  BY <1>1, <1>2, <1>3, <1>4 DEF GInv

LEMMA ServerSteps ==
  ASSUME GInv, Server
  PROVE  GInv' /\ [Next]_jobs /\ Effect({}, {}) /\ UNCHANGED dirs /\ Listed' = Listed
<1>1. /\ UNCHANGED <<workers, crashes, disk, approval, touched>> /\ StoreTyped /\ ItemsInv
      /\ UserTyped /\ TreeInv /\ IndInv /\ plan \in PlanStatuses /\ dirs \in [Dirs -> DirStatuses]
  BY DEF Server, GInv, StoreTyped
<1>2. TreeInv'
  BY <1>1 DEF TreeInv
<1>3. ASSUME request' \in [create : {"new", "created", "submitted", "answered"}, resolved : BOOLEAN],
             acts' \in 0 .. MaxActs, acts <= acts', early' \in BOOLEAN
      PROVE  UserTyped'
  <2>1. \A p \in Paths : disk'[p] <= acts' + 1
    BY <1>1, <1>3, IngestAssumption DEF UserTyped
  <2> QED
    BY <1>1, <1>3, <2>1 DEF UserTyped
<1>4. /\ request \in [create : {"new", "created", "submitted", "answered"}, resolved : BOOLEAN]
      /\ acts \in 0 .. MaxActs /\ acts <= acts /\ early \in BOOLEAN
  BY <1>1, IngestAssumption DEF UserTyped
<1>5. \A s \in Submissions : Submit(s) => Next /\ Effect({}, {})
  BY <1>1, SubmitEffect DEF Next, ClientStep
<1>6. UNCHANGED jobs => [Next]_jobs /\ Effect({}, {})
  BY QuietEffect
<1>7. CASE CreatePlan \/ AnswerPlan \/ SubmitAnalysis \/ Settle
  <2>1. /\ UNCHANGED <<dirs, items, acts>> /\ plan' \in PlanStatuses
        /\ request' \in [create : {"new", "created", "submitted", "answered"}, resolved : BOOLEAN]
        /\ early' \in BOOLEAN
        /\ UNCHANGED jobs \/ \E s \in Submissions : Submit(s)
    <3>1. CASE CreatePlan
      BY <1>4, <3>1 DEF CreatePlan, Ask, setPlanState, PlanStatuses
    <3>2. CASE AnswerPlan
      BY <1>4, <3>2 DEF AnswerPlan, Ask, setPlanState, PlanStatuses
    <3>3. CASE SubmitAnalysis
      BY <1>1, <1>4, <3>3 DEF SubmitAnalysis, Ask
    <3>4. CASE Settle
      BY <1>1, <1>4, <3>4 DEF Settle, setPlanState, PlanStatuses
    <3> QED
      BY <1>7, <3>1, <3>2, <3>3, <3>4
  <2>2. StoreTyped' /\ ItemsInv' /\ Listed' = Listed
    BY <1>1, <2>1, SameStore
  <2>3. UserTyped'
    BY <1>3, <1>4, <2>1
  <2> QED
    BY <1>1, <1>2, <1>5, <1>6, <2>1, <2>2, <2>3, ClientKeeps
<1>8. CASE Approve
  <2>1. /\ UNCHANGED <<dirs, items, acts, request, early>> /\ plan' \in PlanStatuses
        /\ UNCHANGED jobs \/ \E s \in Submissions : Submit(s)
    BY <1>8 DEF Approve, setPlanState, PlanStatuses
  <2>2. StoreTyped' /\ ItemsInv' /\ Listed' = Listed
    BY <1>1, <2>1, SameStore
  <2>3. UserTyped'
    BY <1>3, <1>4, <2>1
  <2> QED
    BY <1>1, <1>2, <1>5, <1>6, <2>1, <2>2, <2>3, ClientKeeps
<1>9. ASSUME NEW f \in Files, Resolve(f)
      PROVE  GInv' /\ [Next]_jobs /\ Effect({}, {}) /\ UNCHANGED dirs /\ Listed' = Listed
  <2>1. /\ items[f].status = "needs-review" /\ acts < MaxActs /\ acts' = acts + 1
        /\ setItemState(f, "ready") /\ request' = [request EXCEPT !.resolved = TRUE]
        /\ UNCHANGED <<jobs, plan, dirs, early>>
    BY <1>9 DEF Resolve
  <2>2. "ready" \in ItemStatuses \ {"none", "exact-duplicate"} /\ f \in Listed
    BY <2>1 DEF ItemStatuses, Listed
  <2>3. StoreTyped' /\ ItemsInv' /\ Listed' = Listed
    BY <1>1, <2>1, <2>2, OneItem
  <2>4. UserTyped'
    <3>1. acts' \in 0 .. MaxActs /\ acts <= acts'
      BY <1>4, <2>1, IngestAssumption
    <3>2. request' \in [create : {"new", "created", "submitted", "answered"}, resolved : BOOLEAN]
      BY <1>4, <2>1
    <3> QED
      BY <1>3, <1>4, <2>1, <3>1, <3>2
  <2> QED
    BY <1>1, <1>2, <1>6, <2>1, <2>3, <2>4, ClientKeeps
<1> QED
  BY <1>7, <1>8, <1>9 DEF Server

\* What the user does to the disk, and to the approval.
LEMMA UserSteps ==
  ASSUME GInv, User
  PROVE  GInv' /\ UNCHANGED <<jobs, workers, db, request, early>> /\ touched \subseteq touched'
<1>1. /\ UNCHANGED <<jobs, workers, db, request, early>> /\ acts < MaxActs /\ acts' = acts + 1
      /\ StoreTyped /\ ItemsInv /\ UserTyped /\ TreeInv /\ plan \in PlanStatuses /\ dirs \in [Dirs -> DirStatuses]
  BY DEF User, GInv, StoreTyped
<1>2. StoreTyped' /\ ItemsInv' /\ Listed' = Listed
  BY <1>1, SameStore DEF db
<1>3. /\ disk \in [Paths -> Nat] /\ \A p \in Paths : disk[p] <= acts + 1
      /\ touched \subseteq Paths /\ acts \in Nat /\ acts' \in 0 .. MaxActs
      /\ approval \in {"approved", "revoked"} /\ early \in BOOLEAN
      /\ request \in [create : {"new", "created", "submitted", "answered"}, resolved : BOOLEAN]
  BY <1>1, IngestAssumption DEF UserTyped
<1>4. CASE approval' = (IF approval = "approved" THEN "revoked" ELSE "approved") /\ UNCHANGED <<disk, touched>>
  <2>1. TreeInv'
    BY <1>1, <1>4 DEF TreeInv
  <2>2. UserTyped'
    <3>1. \A p \in Paths : disk'[p] <= acts' + 1
      BY <1>1, <1>3, <1>4
    <3> QED
      BY <1>1, <1>3, <1>4, <3>1 DEF UserTyped
  <2> QED
    BY <1>1, <1>2, <1>4, <2>1, <2>2, QuietEffect, ClientKeeps
<1>5. ASSUME NEW p \in Paths \ {Root}, disk[p] # 0, touched' = touched \cup {p}, UNCHANGED approval,
             \/ disk' = [disk EXCEPT ![p] = 0] /\ (p \in Dirs => \A c \in Children[p] : disk[c] = 0)
             \/ p \in Files /\ disk' = [disk EXCEPT ![p] = @ + 1]
      PROVE  GInv' /\ UNCHANGED <<jobs, workers, db, request, early>> /\ touched \subseteq touched'
  <2>1. disk'[p] \in {0, disk[p] + 1} /\ disk' \in [Paths -> Nat] /\ \A q \in Paths \ {p} : disk'[q] = disk[q]
    BY <1>3, <1>5
  <2>2. UserTyped'
    <3>1. \A q \in Paths : disk'[q] <= acts' + 1
      BY <1>1, <1>3, <1>5, <2>1
    <3>2. touched' \subseteq Paths
      BY <1>3, <1>5
    <3> QED
      BY <1>1, <1>3, <1>5, <2>1, <3>1, <3>2 DEF UserTyped
  <2>3. TreeInv'
    <3>1. \A q \in Paths : disk'[q] = 0 => q \in touched'
      BY <1>1, <1>5, <2>1 DEF TreeInv
    <3>2. \A d \in Dirs : d \in touched' => disk'[d] = 0
      <4>1. \A d \in Dirs : d \in Paths /\ d \notin Files
        BY ConstantFacts DEF Files
      <4>2. p \in Dirs => disk'[p] = 0
        BY <1>3, <1>5, <4>1
      <4> QED
        BY <1>1, <1>5, <2>1, <4>1, <4>2 DEF TreeInv
    <3>3. ASSUME NEW d \in Dirs, disk'[d] = 0, NEW q \in Children[d] PROVE disk'[q] = 0
      <4>1. d \in Paths /\ q \in Paths
        BY ConstantFacts
      <4>2. CASE d # p
        <5>1. disk[d] = 0 /\ disk[q] = 0 /\ q # p
          BY <1>1, <1>5, <2>1, <3>3, <4>1, <4>2 DEF TreeInv
        <5> QED
          BY <2>1, <4>1, <5>1
      <4>3. CASE d = p
        <5>1. disk[q] = 0
          BY <1>3, <1>5, <4>3, ConstantFacts DEF Files
        <5> QED
          BY <2>1, <3>3, <4>1, <4>3, <5>1
      <4> QED
        BY <4>2, <4>3
    <3> QED
      BY <3>1, <3>2, <3>3 DEF TreeInv
  <2> QED
    BY <1>1, <1>2, <1>5, <2>2, <2>3, QuietEffect, ClientKeeps
<1> QED
  BY <1>4, <1>5 DEF User

LEMMA QueueSteps ==
  ASSUME GInv, UNCHANGED <<workers, crashes, db, user>>,
         Tick \/ (\E j \in Ids : RequestPause(j) \/ Resume(j) \/ Cancel(j))
  PROVE  GInv' /\ Next /\ Effect({}, {})
<1>1. Next /\ Effect({}, {})
  BY ControlEffect, TickEffect DEF Next, ClientStep, GInv
<1>2. StoreTyped' /\ ItemsInv' /\ Listed' = Listed
  BY SameStore DEF GInv, StoreTyped, db
<1>3. UserTyped' /\ TreeInv'
  BY DEF GInv, UserTyped, TreeInv, user
<1> QED
  BY <1>1, <1>2, <1>3, ClientKeeps

-----------------------------------------------------------------------------
(* The invariant is inductive.                                             *)

LEMMA GInvInit == GInit => GInv
<1> SUFFICES ASSUME GInit PROVE GInv
  OBVIOUS
<1>1. IndInv /\ Ids = {}
  BY IndInvInit, EmptySeq DEF GInit, ProcessInit, Init, Ids
<1>2. Idle("recover") \in Worker(HandlerPoints, Locals) /\ Idle("recover").pc = "recover"
  BY ConstantFacts, IdleType DEF Points
<1>3. WorkersTyped /\ \A w \in Workers : workers[w].pc = "recover"
  BY <1>2 DEF WorkersTyped, GInit, ProcessInit
<1>4. LinkInv /\ RowsInv
  BY <1>1, <1>3 DEF LinkInv, Bounded, LinkOK, Linked, RowsInv
<1>5. Listed = {}
  BY DEF GInit, Listed, NoItem
<1>6. StoreTyped /\ ItemsInv
  <2>1. \A f \in Files : items[f] = NoItem
    BY DEF GInit
  <2>2. \A f \in Files : 0 \in Ordinals
    <3>1. \A f \in Files : Cardinality(Files) # 0
      BY ConstantFacts, FS_EmptySet
    <3> QED
      BY <3>1, ConstantFacts DEF Ordinals
  <2>3. \A f \in Files : NoItem \in Item
    BY <2>2, IngestAssumption DEF NoItem, Item, ItemStatuses, Versions
  <2>4. StoreTyped
    BY <2>3 DEF GInit, StoreTyped, PlanStatuses, DirStatuses
  <2>5. DigestsAreOfWhatWasDiscovered
    BY <2>1 DEF DigestsAreOfWhatWasDiscovered, NoItem
  <2> QED
    BY <1>5, <2>4, <2>5 DEF ItemsInv
<1>7. UserTyped /\ TreeInv
  <2>1. \A p \in Paths : disk[p] = 1
    BY DEF GInit
  <2>2. UserTyped
    <3>1. acts = 0 /\ acts \in 0 .. MaxActs /\ touched \subseteq Paths /\ early \in BOOLEAN
      <4>1. MaxActs \in Nat
        BY IngestAssumption
      <4>2. acts = 0 /\ touched = {} /\ early \in BOOLEAN
        BY Zenon DEF GInit
      <4> QED
        BY <4>1, <4>2
    <3>2. /\ request \in [create : {"new", "created", "submitted", "answered"}, resolved : BOOLEAN]
          /\ approval \in {"approved", "revoked"} /\ disk \in [Paths -> Nat]
      BY DEF GInit
    <3>3. \A p \in Paths : disk[p] <= acts + 1
      BY <2>1, <3>1
    <3> QED
      BY <3>1, <3>2, <3>3 DEF UserTyped
  <2>3. TreeInv
    BY <2>1, ConstantFacts DEF GInit, TreeInv
  <2> QED
    BY <2>2, <2>3
<1>8. \A w \in Workers : WorkInv(workers[w])
  BY <1>3 DEF WorkInv, Resting
<1> QED
  BY <1>1, <1>3, <1>4, <1>6, <1>7, <1>8 DEF GInv

LEMMA WorkerStepsKeep ==
  ASSUME GInv, NEW w \in Workers, WorkerMoves(w), UNCHANGED <<crashes, user>>
  PROVE  GInv' /\ [Next]_jobs
BY LoadKeeps, ListingKeeps, ReadingKeeps, PagingKeeps, RecordKeeps, EndingKeeps, ProcessMovesKeep
   DEF WorkerMoves

LEMMA GInvNext == GInv /\ [GNext]_vars => GInv' /\ [Next]_jobs
<1> SUFFICES ASSUME GInv, [GNext]_vars PROVE GInv' /\ [Next]_jobs
  OBVIOUS
<1>1. CASE UNCHANGED vars
  <2>1. UNCHANGED <<jobs, workers, db, user>>
    BY <1>1 DEF vars
  <2>2. StoreTyped' /\ ItemsInv' /\ Listed' = Listed
    BY <2>1, SameStore DEF GInv, StoreTyped, db
  <2>3. UserTyped' /\ TreeInv'
    BY <2>1 DEF GInv, UserTyped, TreeInv, user
  <2> QED
    BY <2>1, <2>2, <2>3, QuietEffect, ClientKeeps
<1>2. CASE GNext
  BY <1>2, ServerSteps, UserSteps, QueueSteps, WorkerStepsKeep, CrashKeeps DEF GNext, Control
<1> QED
  BY <1>1, <1>2

-----------------------------------------------------------------------------
(* Theorems, for any workers.                                              *)

THEOREM GInductive == GSpec => []GInv
<1> QED
  BY GInvInit, GInvNext, PTL DEF GSpec

\* Every table and process keeps its type, and no two items of a plan get one ordinal,
\* though each batch counts them anew.
THEOREM PlanTyped == GSpec => []GTypeOK
<1> DEFINE Dying == crashes \in 0 .. MaxCrashes
<1>1. GInit => Dying
  BY WorkersAssumption DEF GInit, ProcessInit
<1>2. Dying /\ [GNext]_vars => Dying'
  <2>1. Dying /\ UNCHANGED crashes => Dying'
    OBVIOUS
  <2>2. ASSUME NEW w \in Workers, Dying, Crash(w) PROVE Dying'
    BY <2>2, WorkersAssumption DEF Crash
  <2> HIDE DEF Dying
  <2> QED
    BY <2>1, <2>2 DEF GNext, vars, Server, Control, User
<1>3. GInv /\ Dying => GTypeOK
  <2> SUFFICES ASSUME GInv, Dying PROVE GTypeOK
    OBVIOUS
  <2>1. disk \in [Paths -> Versions]
    BY IngestAssumption DEF GInv, UserTyped, Versions
  <2>2. TypeOK /\ workers \in [Workers -> Worker(HandlerPoints, Locals)]
    BY DEF GInv, IndInv, WorkersTyped
  <2>3. /\ plan \in PlanStatuses /\ dirs \in [Dirs -> DirStatuses] /\ items \in [Files -> Item]
        /\ \A f, g \in Listed : Ordinal(f) = Ordinal(g) => f = g
    BY DEF GInv, StoreTyped, ItemsInv
  <2>4. /\ approval \in {"approved", "revoked"}
        /\ request \in [create : {"new", "created", "submitted", "answered"}, resolved : BOOLEAN]
        /\ acts \in 0 .. MaxActs /\ touched \subseteq Paths /\ early \in BOOLEAN
    BY DEF GInv, UserTyped
  <2> QED
    BY <2>1, <2>2, <2>3, <2>4 DEF GTypeOK, Item, DirStatuses
<1> QED
  BY <1>1, <1>2, <1>3, GInductive, PTL DEF GSpec

\* What analyzeItem records as the digest of a file, between two looks at it, is that of
\* the content that was discovered, with any number of workers on one plan.
THEOREM DigestsCorrect == GSpec => []DigestsAreOfWhatWasDiscovered
<1>1. GInv => DigestsAreOfWhatWasDiscovered
  BY DEF GInv, ItemsInv
<1> QED
  BY <1>1, GInductive, PTL

\* What server and workers of a plan do to the job table are steps of JobQueue.
THEOREM AnalysesImplementQueue == GSpec => Spec
<1>1. GInit => Init
  BY DEF GInit, ProcessInit
<1> QED
  BY <1>1, GInvInit, GInvNext, PTL DEF GSpec, Spec

-----------------------------------------------------------------------------
(* One worker: what goes on only in one direction.                         *)

\* Files and directories come, and the user touches more of them.
Forward ==
  /\ Listed \subseteq Listed' /\ touched \subseteq touched' /\ (early => early')
  /\ \A d \in Dirs : dirs[d] # "none" => dirs'[d] # "none"

\* No step but that of a batch leaves more to be analysed.
Shrinks ==
  /\ With("discovered")' \subseteq With("discovered")
  /\ \A f \in Files : f \in Listed => items'[f].ordinal = items[f].ordinal

LEMMA ForwardFacts ==
  ASSUME Forward
  PROVE  /\ Discovered => Discovered'
         /\ \A p : Known(p) => Known(p)'
         /\ \A d \in Dirs : Covered(d) => Covered(d)'
<1>1. Discovered => Discovered'
  BY DEF Forward, Discovered
<1>2. ASSUME NEW p, Known(p) PROVE Known(p)'
  BY <1>2 DEF Forward, Known
<1>3. ASSUME NEW d \in Dirs, Covered(d) PROVE Covered(d)'
  BY <1>2, <1>3 DEF Forward, Covered
<1> QED
  BY <1>1, <1>2, <1>3

LEMMA ShrinkFacts ==
  ASSUME Shrinks
  PROVE  /\ With("discovered") = {} => With("discovered")' = {}
         /\ \A a : Swept(a) => Swept(a)'
         /\ \A f \in With("discovered")' : f \in With("discovered") /\ Ordinal(f)' = Ordinal(f)
<1>1. With("discovered") \subseteq Listed /\ With("discovered") \subseteq Files
  BY DEF With, Listed
<1>2. \A f \in With("discovered")' : f \in With("discovered") /\ Ordinal(f)' = Ordinal(f)
  BY <1>1 DEF Shrinks, Ordinal
<1>3. ASSUME NEW a, Swept(a) PROVE Swept(a)'
  BY <1>2, <1>3 DEF Swept
<1> QED
  BY <1>2, <1>3 DEF Shrinks

LEMMA AnalysedKept == Forward /\ Shrinks => (AllAnalysed => AllAnalysed')
BY ForwardFacts, ShrinkFacts DEF AllAnalysed

\* The rows of the table that are not written by a submission.
LEMMA RowsOfStep ==
  ASSUME SoleRows, NEW done, NEW saved, Effect(done, saved), Ids' = Ids, Forward, Shrinks,
         request'.create \in {"new", "created"} => request.create \in {"new", "created"},
         \A j \in saved : j \in Ids /\ IsAnalysis(j) /\ jobs'[j].checkpoint # 0
                            => Discovered' /\ Swept(jobs[j].checkpoint - 2)'
  PROVE  /\ SoleRows'
         /\ \A j \in Ids : IsAnalysis(j)' <=> IsAnalysis(j)
         /\ Analysed' => Analysed \/ \E j \in done : j \in Ids /\ IsAnalysis(j)
<1>1. \A j \in Ids : IsAnalysis(j)' <=> IsAnalysis(j)
  BY DEF Effect, TableStep, RowStep, IsAnalysis
<1>2. ASSUME NEW j \in Ids, j \notin saved, jobs'[j].checkpoint # 0
      PROVE  jobs'[j].checkpoint = jobs[j].checkpoint
  BY <1>2 DEF Effect, KeepsCheckpoint
<1>3. \A j \in Ids' : IsAnalysis(j)' /\ jobs'[j].checkpoint # 0
                        => Discovered' /\ Swept(jobs[j].checkpoint - 2)'
  <2> SUFFICES ASSUME NEW j \in Ids, IsAnalysis(j), jobs'[j].checkpoint # 0
               PROVE  Discovered' /\ Swept(jobs[j].checkpoint - 2)'
    BY <1>1
  <2>1. CASE j \in saved
    BY <2>1
  <2>2. CASE j \notin saved
    <3> DEFINE c == jobs[j].checkpoint - 2
    <3>1. jobs'[j].checkpoint = jobs[j].checkpoint
      BY <1>2, <2>2
    <3>2. Discovered /\ Swept(c)
      BY <3>1 DEF SoleRows
    <3>3. Discovered' /\ \A f \in With("discovered")' : Ordinal(f)' > c
      BY <3>2, ForwardFacts, ShrinkFacts DEF Swept
    <3> QED
      BY <3>1, <3>3 DEF Swept
  <2> QED
    BY <2>1, <2>2
<1>4. SoleRows'
  BY <1>1, <1>3 DEF SoleRows
<1>5. Analysed' => Analysed \/ \E j \in done : j \in Ids /\ IsAnalysis(j)
  BY <1>1 DEF Analysed, Effect, IsAnalysis
<1> QED
  BY <1>1, <1>4, <1>5

LEMMA SameRows ==
  ASSUME NEW w, SInv(w), UNCHANGED <<jobs, request>>, Forward, Shrinks
  PROVE  SoleRows' /\ (Analysed' => Analysed)
BY QuietEffect, RowsOfStep DEF SInv, Ids, Analysed

LEMMA ProceedLease ==
  ASSUME GInv, NEW w \in Workers, SoleLease(workers[w]), workers[w].pc \in HandlerPoints,
         NEW point, NEW local, Proceeds(w, point, local)
  PROVE  SoleLease(workers[w])'
<1> DEFINE x == workers[w]
           y == workers'[w]
<1>1. /\ Linked(x) /\ x.pc \notin Resting /\ UNCHANGED jobs /\ y.pc = point /\ y.job = x.job
      /\ y.attempt = x.attempt /\ (point # "fail" => y.saved = x.saved)
  BY HandlerFacts DEF Proceeds
<1>2. /\ jobs[x.job].status = "running" /\ jobs[x.job].lease = x.attempt
      /\ jobs[x.job].checkpoint = x.saved
  BY <1>1 DEF SoleLease
<1> HIDE DEF x, y
<1>3. "fail" \in Resting
  BY DEF Resting
<1>4. /\ Linked(y) => jobs'[y.job].status = "running" /\ jobs'[y.job].lease = y.attempt
      /\ y.pc \notin Resting => jobs'[y.job].checkpoint = y.saved
  BY <1>1, <1>2, <1>3
<1> QED
  BY <1>4 DEF y, SoleLease

\* A step of the handler that lists nothing: what is left to show is where it goes.
LEMMA ProceedSole ==
  ASSUME GInv, NEW w \in Workers, SInv(w), workers[w].pc \in HandlerPoints,
         NEW point, NEW local, Proceeds(w, point, local), UNCHANGED user, Forward, Shrinks,
         plan' \in Closed => plan \in Closed \/ AllAnalysed',
         \A d \in Dirs : dirs'[d] = "completed" => dirs[d] = "completed" \/ Covered(d)',
         point \in HandlerPoints => (IsAnalysis(workers[w].job) <=> point # "transfer"),
         point \in {"finish", "complete"} /\ IsAnalysis(workers[w].job) => early \/ AllAnalysed',
         Discovering(workers[w])', Analysing(workers[w])'
  PROVE  SInv(w)'
<1> DEFINE x == workers[w]
           y == workers'[w]
<1>1. UNCHANGED <<jobs, request, early>> /\ y.pc = point /\ y.job = x.job
  BY DEF Proceeds, user
<1>2. SoleRows' /\ (Analysed' => Analysed)
  BY <1>1, SameRows
<1>3. SoleLease(workers[w])'
  BY ProceedLease DEF SInv
<1>4. SoleStore'
  <2>1. plan' \in Closed \/ Analysed' => early' \/ AllAnalysed'
    BY <1>1, <1>2, AnalysedKept DEF SInv, SoleStore
  <2>2. \A d \in Dirs : dirs'[d] = "completed" => Covered(d)'
    BY ForwardFacts DEF SInv, SoleStore
  <2> QED
    BY <2>1, <2>2 DEF SoleStore
<1>5. SoleWork(workers[w])'
  <2>1. IsAnalysis(workers[w].job)' <=> IsAnalysis(x.job)
    BY <1>1 DEF IsAnalysis
  <2> HIDE DEF x, y
  <2>2. y = workers'[w] /\ x = workers[w]
    BY DEF x, y
  <2> QED
    BY <1>1, <2>1, <2>2 DEF SoleWork
<1> QED
  BY <1>2, <1>3, <1>4, <1>5 DEF SInv

LEMMA Unmoved == UNCHANGED <<dirs, items, touched, early>> => Forward /\ Shrinks
BY DEF Forward, Shrinks, Listed, With

LEMMA StopsSole ==
  ASSUME GInv, NEW w \in Workers, SInv(w), workers[w].pc \in HandlerPoints \ {"transfer"},
         Stops(w), UNCHANGED user, Forward, Shrinks,
         plan' \in Closed => plan \in Closed,
         \A d \in Dirs : dirs'[d] = "completed" => dirs[d] = "completed"
  PROVE  SInv(w)'
<1>1. PICK point \in {"failPlan", "ackCancel", "ackPause"} : Proceeds(w, point, workers[w].local)
  BY DEF Stops
<1>2. workers'[w].pc = point
  BY <1>1 DEF Proceeds
<1>3. point \in HandlerPoints => (IsAnalysis(workers[w].job) <=> point # "transfer")
  BY DEF SInv, SoleWork
<1>4. Discovering(workers[w])' /\ Analysing(workers[w])'
  BY <1>2 DEF Discovering, Analysing, Listing, Paging
<1> QED
  BY <1>1, <1>3, <1>4, ProceedSole

LEMMA StartSole ==
  ASSUME GInv, NEW w \in Workers, SInv(w), Start(w), UNCHANGED user
  PROVE  SInv(w)'
<1>1. /\ workers[w].pc = "start" /\ workers[w].pc \in HandlerPoints
      /\ UNCHANGED <<dirs, items, touched, early>>
  BY StartDoes DEF user
<1>2. Forward /\ Shrinks /\ IsAnalysis(workers[w].job)
  BY <1>1, Unmoved DEF SInv, SoleWork
<1>3. CASE plan \in Closed /\ UNCHANGED plan /\ Proceeds(w, "finish", workers[w].local)
  <2>1. early \/ AllAnalysed'
    BY <1>2, <1>3, AnalysedKept DEF SInv, SoleStore
  <2>2. Discovering(workers[w])' /\ Analysing(workers[w])'
    BY <1>3 DEF Proceeds, Discovering, Analysing, Listing, Paging
  <2>3. "finish" \notin HandlerPoints
    BY DEF HandlerPoints
  <2> QED
    BY <1>1, <1>2, <1>3, <2>1, <2>2, <2>3, ProceedSole
<1>4. CASE plan' = "analyzing" /\ Proceeds(w, "validate", workers[w].local)
  <2>1. plan' \notin Closed
    BY <1>4 DEF Closed
  <2>2. Discovering(workers[w])' /\ Analysing(workers[w])'
    BY <1>4, <2>1 DEF Proceeds, Discovering, Analysing, Listing, Paging
  <2> QED
    BY <1>1, <1>2, <1>4, <2>1, <2>2, ProceedSole
<1> QED
  BY <1>3, <1>4, StartDoes

LEMMA ValidateSole ==
  ASSUME GInv, NEW w \in Workers, SInv(w), Validate(w), UNCHANGED user
  PROVE  SInv(w)'
<1> DEFINE x == workers[w]
<1>1. x.pc = "validate" /\ x.pc \in HandlerPoints /\ UNCHANGED <<plan, dirs, items, touched, early>>
  BY ValidateDoes DEF user, db
<1>2. Forward /\ Shrinks /\ IsAnalysis(x.job) /\ x.job \in Ids /\ x.pc \notin Resting
  BY <1>1, Unmoved, HandlerFacts DEF SInv, SoleWork
<1>3. CASE Stops(w)
  BY <1>1, <1>2, <1>3, StopsSole
<1>4. CASE x.saved = 0 /\ Proceeds(w, "discover", x.local)
  <2>1. Discovering(workers[w])' /\ Analysing(workers[w])'
    BY <1>1, <1>4 DEF Proceeds, SInv, SoleWork, Discovering, Analysing, Listing, Paging
  <2> QED
    BY <1>1, <1>2, <1>4, <2>1, ProceedSole
<1>5. CASE x.saved # 0 /\ Proceeds(w, "checkPage", Resuming(x.saved))
  <2>1. jobs[x.job].checkpoint = x.saved
    BY <1>2 DEF SInv, SoleLease
  <2>2. Discovered /\ Swept(x.saved - 2)
    BY <1>2, <1>5, <2>1 DEF SInv, SoleRows
  <2>3. Discovered' /\ \A f \in With("discovered")' : Ordinal(f)' > x.saved - 2
    BY <1>2, <2>2, ForwardFacts, ShrinkFacts DEF Swept
  <2>4. workers'[w].pc = "checkPage" /\ workers'[w].local.after = x.saved - 2
    BY <1>1, <1>5, HandlerFacts, ResumingLocal DEF Proceeds
  <2>5. Discovering(workers[w])'
    BY <2>4 DEF Discovering, Listing
  <2>6. Analysing(workers[w])'
    BY <2>3, <2>4 DEF Analysing, Swept, Paging
  <2> QED
    BY <1>1, <1>2, <1>5, <2>5, <2>6, ProceedSole
<1> QED
  BY <1>3, <1>4, <1>5, ValidateDoes

LEMMA DiscoverSole ==
  ASSUME GInv, NEW w \in Workers, SInv(w), Discover(w), UNCHANGED user
  PROVE  SInv(w)'
<1> DEFINE x == workers[w]
<1>1. /\ x.pc = "discover" /\ x.pc \in HandlerPoints /\ UNCHANGED <<plan, items, touched, early>>
      /\ OpenDiscovery /\ Proceeds(w, "checkDir", x.local)
  BY DiscoverDoes DEF user
<1>2. Root \in Dirs
  BY IngestAssumption
<1>3. /\ \A d \in Dirs : dirs'[d] = "none" => dirs[d] = "none"
      /\ \A d \in Dirs : dirs'[d] = "completed" => dirs[d] = "completed"
      /\ \A d \in Dirs : dirs'[d] # "scanning"
      /\ dirs'[Root] # "none"
  BY <1>1, <1>2 DEF OpenDiscovery
<1>4. Forward /\ Shrinks /\ IsAnalysis(x.job)
  BY <1>1, <1>3 DEF Forward, Shrinks, Listed, With, SInv, SoleWork
<1>5. x.saved = 0 /\ (early \/ plan \notin Closed)
  BY <1>1 DEF SInv, SoleWork, Discovering
<1>6. Discovering(workers[w])' /\ Analysing(workers[w])'
  BY <1>1, <1>3, <1>5 DEF Proceeds, Discovering, Analysing, Listing, Paging
<1> QED
  BY <1>1, <1>3, <1>4, <1>6, ProceedSole

LEMMA ClaimSole ==
  ASSUME GInv, NEW w \in Workers, SInv(w), ClaimDirectory(w), UNCHANGED user
  PROVE  SInv(w)'
<1> DEFINE x == workers[w]
           entries(d) == {p \in Children[d] : disk[p] # 0}
<1>1. /\ x.pc = "checkDir" /\ x.pc \in HandlerPoints
      /\ UNCHANGED <<plan, items, touched, early, disk>>
  BY ClaimDoes DEF user
<1>2. IsAnalysis(x.job)
  BY <1>1 DEF SInv, SoleWork
<1>3. /\ early \/ plan \notin Closed
      /\ x.saved = 0 /\ dirs[Root] # "none" /\ \A d \in Dirs : dirs[d] # "scanning"
  BY <1>1 DEF SInv, SoleWork, Discovering, Listing
<1>4. CASE UNCHANGED dirs /\ Stops(w)
  BY <1>1, <1>4, Unmoved, StopsSole
<1>5. CASE UNCHANGED dirs /\ Pending = {} /\ Proceeds(w, "savePhase", x.local)
  <2>1. Discovering(workers[w])' /\ Analysing(workers[w])'
    BY <1>1, <1>3, <1>5 DEF Proceeds, Discovering, Analysing, Listing, Paging, Pending
  <2> QED
    BY <1>1, <1>2, <1>5, <2>1, Unmoved, ProceedSole
<1>6. ASSUME NEW d \in Pending, dirs' = [dirs EXCEPT ![d] = "scanning"],
             Stops(w) \/ Proceeds(w, "read", Entering(d, entries(d)))
      PROVE  SInv(w)'
  <2>1. d \in Dirs /\ dirs \in [Dirs -> DirStatuses] /\ Root \in Dirs
    BY IngestAssumption DEF Pending, GInv, StoreTyped
  <2>2. /\ dirs'[d] = "scanning"
        /\ \A e \in Dirs \ {d} : dirs'[e] = dirs[e]
    BY <1>6, <2>1
  <2>3. Forward /\ Shrinks
    BY <1>1, <2>2 DEF Forward, Shrinks, Listed, With
  <2>4. CASE Stops(w)
    BY <1>1, <2>2, <2>3, <2>4, StopsSole
  <2>5. CASE Proceeds(w, "read", Entering(d, entries(d)))
    <3>1. Children[d] \subseteq Paths
      BY <2>1, ConstantFacts
    <3>2. entries(d) \in SUBSET Paths
      BY <3>1
    <3>3. workers'[w].pc = "read" /\ workers'[w].saved = x.saved /\ workers'[w].local = Entering(d, entries(d))
      BY <2>5 DEF Proceeds
    <3>4. workers'[w].local.dir = d /\ workers'[w].local.todo = entries(d)
      <4> HIDE DEF entries
      <4> QED
        BY <2>1, <3>2, <3>3, EnteringLocal
    <3>5. \A p \in Children[d] \ touched : p \in entries(d)
      BY <3>1 DEF GInv, TreeInv
    <3> HIDE DEF entries
    <3>6. Discovering(workers[w])'
      BY <1>1, <1>3, <2>1, <2>2, <3>3, <3>4, <3>5 DEF Discovering, Listing
    <3>7. Analysing(workers[w])'
      BY <3>3 DEF Analysing, Paging
    <3> QED
      BY <1>1, <1>2, <2>2, <2>3, <2>5, <3>6, <3>7, ProceedSole
  <2> QED
    BY <1>6, <2>4, <2>5
<1> QED
  BY <1>4, <1>5, <1>6, ClaimDoes

\* A worker that is reading a directory goes on reading it.
LEMMA ReadsOn ==
  ASSUME GInv, NEW w \in Workers, SInv(w), workers[w].pc = "read", NEW k, Proceeds(w, "read", k),
         k.dir = workers[w].local.dir, Forward, UNCHANGED <<plan, touched>>,
         \A d \in Dirs : dirs'[d] = "scanning" => dirs[d] = "scanning",
         \A p \in Children[k.dir] \ touched : p \in k.todo \/ Known(p)' \/ \E a \in k.batch : a.file = p
  PROVE  Discovering(workers[w])' /\ Analysing(workers[w])'
<1> DEFINE x == workers[w]
           y == workers'[w]
<1>1. y.pc = "read" /\ y.local = k /\ y.saved = x.saved
  BY DEF Proceeds
<1>2. /\ early \/ plan \notin Closed
      /\ x.saved = 0 /\ dirs[Root] # "none"
      /\ \A d \in Dirs : dirs[d] = "scanning" => d = x.local.dir
  BY DEF SInv, SoleWork, Discovering, Listing
<1>3. /\ early' \/ plan' \notin Closed
      /\ dirs'[Root] # "none"
      /\ \A d \in Dirs : dirs'[d] = "scanning" => d = k.dir
  BY <1>2, IngestAssumption DEF Forward
<1>4. \A p \in Children[k.dir] \ touched' : p \in k.todo \/ Known(p)' \/ \E a \in k.batch : a.file = p
  OBVIOUS
<1> QED
  BY <1>1, <1>2, <1>3, <1>4 DEF Discovering, Analysing, Listing, Paging

LEMMA ReadEntrySole ==
  ASSUME GInv, NEW w \in Workers, SInv(w), ReadEntry(w), UNCHANGED user
  PROVE  SInv(w)'
<1> DEFINE x == workers[w]
           l == x.local
<1>1. /\ x.pc = "read" /\ x.pc \in HandlerPoints
      /\ UNCHANGED <<plan, items, touched, early, disk>>
  BY ReadEntryDoes DEF user
<1>2. IsAnalysis(x.job) /\ l \in Locals /\ StoreTyped /\ BatchInv(l)
  BY <1>1, HandlerFacts DEF SInv, SoleWork, GInv, WorkInv
<1>3. \A p \in Children[l.dir] \ touched : p \in l.todo \/ Known(p) \/ \E a \in l.batch : a.file = p
  BY <1>1 DEF SInv, SoleWork, Discovering
<1>4. ASSUME NEW p \in l.todo, p \in Dirs, addDirectory(p), Proceeds(w, "read", Without(l, p))
      PROVE  SInv(w)'
  <2>1. /\ dirs'[p] # "none"
        /\ \A d \in Dirs : dirs'[d] = dirs[d] \/ (d = p /\ dirs[d] = "none" /\ dirs'[d] = "pending")
    BY <1>2, <1>4, AddDirectory
  <2>2. Forward /\ Shrinks
    BY <1>1, <2>1 DEF Forward, Shrinks, Listed, With
  <2>3. Without(l, p).todo = l.todo \ {p} /\ Without(l, p).dir = l.dir /\ Without(l, p).batch = l.batch
    BY <1>2, WithoutLocal
  <2>4. Known(p)' /\ \A q : Known(q) => Known(q)'
    BY <1>4, <2>1, <2>2, ForwardFacts DEF Known
  <2>5. \A q \in Children[l.dir] \ touched :
          q \in l.todo \ {p} \/ Known(q)' \/ \E a \in l.batch : a.file = q
    BY <1>3, <2>4
  <2>6. \A d \in Dirs : /\ dirs'[d] = "scanning" => dirs[d] = "scanning"
                        /\ dirs'[d] = "completed" => dirs[d] = "completed"
    BY <2>1
  <2>7. Discovering(workers[w])' /\ Analysing(workers[w])'
    BY <1>1, <1>4, <2>2, <2>3, <2>5, <2>6, ReadsOn
  <2> QED
    BY <1>1, <1>2, <1>4, <2>2, <2>6, <2>7, ProceedSole
<1>5. ASSUME NEW p \in l.todo, UNCHANGED dirs, NEW k, Proceeds(w, "read", k),
             k.dir = l.dir, k.todo = l.todo \ {p}, l.batch \subseteq k.batch,
             p \in touched \/ \E a \in k.batch : a.file = p
      PROVE  SInv(w)'
  <2>1. Forward /\ Shrinks /\ \A q : Known(q) => Known(q)'
    BY <1>1, <1>5, Unmoved, ForwardFacts
  <2>2. \A q \in Children[k.dir] \ touched :
          q \in k.todo \/ Known(q)' \/ \E a \in k.batch : a.file = q
    BY <1>3, <1>5, <2>1
  <2>3. Discovering(workers[w])' /\ Analysing(workers[w])'
    BY <1>1, <1>5, <2>1, <2>2, ReadsOn
  <2> QED
    BY <1>1, <1>2, <1>5, <2>1, <2>3, ProceedSole
<1>6. ASSUME NEW p \in l.todo, p \in Files, UNCHANGED dirs, disk[p] = 0,
             Proceeds(w, "read", Without(l, p))
      PROVE  SInv(w)'
  <2>1. p \in touched
    BY <1>6, ConstantFacts DEF GInv, TreeInv
  <2> QED
    BY <1>2, <1>5, <1>6, <2>1, WithoutLocal
<1>7. ASSUME NEW p \in l.todo, p \in Files, UNCHANGED dirs, Proceeds(w, "read", Noting(l, p, disk[p]))
      PROVE  SInv(w)'
  <2>1. disk[p] \in Versions
    <3>1. p \in Paths /\ acts \in 0 .. MaxActs /\ MaxActs \in Nat
      BY <1>7, ConstantFacts, IngestAssumption DEF GInv, UserTyped
    <3>2. disk[p] \in Nat /\ disk[p] <= acts + 1
      BY <3>1 DEF GInv, UserTyped
    <3> QED
      BY <3>1, <3>2 DEF Versions
  <2> DEFINE k == Noting(l, p, disk[p])
             found == [file |-> p, seen |-> disk[p]]
  <2>2. k.todo = l.todo \ {p} /\ k.dir = l.dir /\ k.batch = l.batch \cup {found} /\ found.file = p
    BY <1>2, <1>7, <2>1, NotingLocal
  <2> HIDE DEF k, found
  <2>3. l.batch \subseteq k.batch /\ \E a \in k.batch : a.file = p
    BY <2>2
  <2> QED
    BY <1>5, <1>7, <2>2, <2>3 DEF k
<1> QED
  BY <1>4, <1>6, <1>7, ReadEntryDoes

LEMMA CompleteDirectorySole ==
  ASSUME GInv, NEW w \in Workers, SInv(w), CompleteDirectory(w), UNCHANGED user
  PROVE  SInv(w)'
<1> DEFINE x == workers[w]
           d == x.local.dir
<1>1. /\ x.pc = "read" /\ x.pc \in HandlerPoints /\ UNCHANGED <<plan, items, touched, early>>
      /\ x.local.todo = {} /\ x.local.batch = {} /\ d \in Dirs
      /\ dirs' = [dirs EXCEPT ![d] = "completed"] /\ Proceeds(w, "saveDir", Nothing)
  BY CompleteDirectoryDoes DEF user
<1>2. IsAnalysis(x.job) /\ dirs \in [Dirs -> DirStatuses] /\ Root \in Dirs
  BY <1>1, IngestAssumption DEF SInv, SoleWork, GInv, StoreTyped
<1>3. /\ early \/ plan \notin Closed
      /\ x.saved = 0 /\ dirs[Root] # "none"
      /\ \A e \in Dirs : dirs[e] = "scanning" => e = d
      /\ Covered(d)
  BY <1>1 DEF SInv, SoleWork, Discovering, Listing, Covered
<1> HIDE DEF d
<1>4. dirs'[d] = "completed" /\ \A e \in Dirs \ {d} : dirs'[e] = dirs[e]
  BY <1>1, <1>2
<1>5. Forward /\ Shrinks
  BY <1>1, <1>4 DEF Forward, Shrinks, Listed, With
<1>6. \A e \in Dirs : dirs'[e] = "completed" => dirs[e] = "completed" \/ Covered(e)'
  BY <1>1, <1>3, <1>4, <1>5, ForwardFacts
<1>7. workers'[w].pc = "saveDir" /\ workers'[w].saved = x.saved
  BY <1>1 DEF Proceeds
<1>8. dirs'[Root] # "none" /\ \A e \in Dirs : dirs'[e] # "scanning"
  BY <1>2, <1>3, <1>4
<1>9. Discovering(workers[w])' /\ Analysing(workers[w])'
  BY <1>1, <1>3, <1>7, <1>8 DEF Discovering, Analysing, Listing, Paging
<1> QED
  BY <1>1, <1>2, <1>5, <1>6, <1>9, ProceedSole

\* A batch comes when nothing of the plan is analysed yet.
LEMMA FlushSole ==
  ASSUME GInv, NEW w \in Workers, SInv(w), FlushBatch(w), UNCHANGED user
  PROVE  SInv(w)'
<1> DEFINE x == workers[w]
           l == x.local
<1>1. /\ x.pc = "read" /\ x.pc \in HandlerPoints
      /\ UNCHANGED <<plan, dirs, touched, early, request>>
      /\ addDiscoveredItems(l.batch) /\ Proceeds(w, "read", Emptied(l))
      /\ Emptied(l).batch = {} /\ Emptied(l).todo = l.todo /\ Emptied(l).dir = l.dir
  BY FlushDoes DEF user
<1>2. l \in Locals /\ x.job \in Ids /\ Linked(x) /\ x.pc \notin Resting /\ IsAnalysis(x.job)
  BY <1>1, HandlerFacts DEF SInv, SoleWork
<1>3. Listed' = Listed \cup {a.file : a \in l.batch} /\ l.batch \in SUBSET Found
  <2>1. BatchInv(l) /\ StoreTyped /\ ItemsInv /\ l.batch \in SUBSET Found
    BY <1>1, <1>2 DEF GInv, WorkInv, Locals
  <2> QED
    BY <1>1, <2>1, AddItems DEF BatchInv
<1>4. Forward
  BY <1>1, <1>3 DEF Forward
<1>5. /\ early \/ plan \notin Closed
      /\ x.saved = 0
      /\ \A p \in Children[l.dir] \ touched : p \in l.todo \/ Known(p) \/ \E a \in l.batch : a.file = p
  BY <1>1 DEF SInv, SoleWork, Discovering, Listing
<1>6. \A j \in Ids : IsAnalysis(j) => jobs[j].checkpoint = 0 /\ jobs[j].status = "running"
  BY <1>2, <1>5 DEF SInv, SoleRows, SoleLease
<1>7. UNCHANGED jobs /\ Ids' = Ids
  BY <1>1 DEF Proceeds, Ids
<1>8. SoleRows'
  BY <1>1, <1>6, <1>7 DEF SInv, SoleRows, IsAnalysis
<1>9. SoleStore'
  <2>1. ~Analysed'
    BY <1>6, <1>7 DEF Analysed, IsAnalysis
  <2>2. \A d \in Dirs : dirs'[d] = "completed" => Covered(d)'
    BY <1>1, <1>4, ForwardFacts DEF SInv, SoleStore
  <2> QED
    BY <1>1, <1>5, <2>1, <2>2 DEF SoleStore
<1>10. SoleLease(workers[w])'
  BY <1>1, ProceedLease DEF SInv
<1>11. SoleWork(workers[w])'
  <2>1. \A a \in l.batch : Known(a.file)'
    BY <1>3 DEF Known, Found, Files
  <2>2. \A p \in Children[l.dir] \ touched : p \in l.todo \/ Known(p)'
    BY <1>4, <1>5, <2>1, ForwardFacts
  <2>3. Discovering(workers[w])' /\ Analysing(workers[w])'
    BY <1>1, <1>4, <2>2, ReadsOn
  <2>4. workers'[w].pc = "read" /\ IsAnalysis(workers[w].job)'
    BY <1>1, <1>2, <1>7 DEF Proceeds, IsAnalysis
  <2> QED
    BY <2>3, <2>4 DEF SoleWork
<1> QED
  BY <1>8, <1>9, <1>10, <1>11 DEF SInv

\* A page is what comes first of the rest.
LEMMA PageIsFirst ==
  ASSUME StoreTyped, ItemsInv, NEW a, Swept(a)
  PROVE  LET page == workItems(a)
         IN /\ \A f \in With("discovered") \ page, g \in page : Ordinal(g) < Ordinal(f)
            /\ page = {} => With("discovered") = {}
<1> DEFINE rest == With("discovered")
           page == workItems(a)
           upTo(f) == {g \in rest : Ordinal(g) <= Ordinal(f)}
<1>1. rest \in SUBSET Listed /\ rest \in SUBSET Files /\ IsFiniteSet(rest)
  <2>1. rest \in SUBSET Listed /\ rest \in SUBSET Files
    BY DEF With, Listed
  <2> HIDE DEF rest
  <2> QED
    BY <2>1, ListedFacts, FS_Subset
<1>2. \A f \in rest : Ordinal(f) \in Nat /\ Ordinal(f) > a
  <2>1. \A f \in Files : items[f].ordinal \in Ordinals
    BY DEF StoreTyped, Item
  <2>2. Ordinals \subseteq Nat
    BY ConstantFacts DEF Ordinals
  <2> QED
    BY <1>1, <2>1, <2>2 DEF Ordinal, Swept
<1>3. page = {f \in rest : Cardinality(upTo(f)) <= PageSize}
  <2>1. {f \in rest : items[f].ordinal > a} = rest
    BY <1>2 DEF Ordinal
  <2> QED
    BY <2>1 DEF workItems, Ordinal
<1>4. \A f \in rest : IsFiniteSet(upTo(f)) /\ Cardinality(upTo(f)) \in Nat
  <2> SUFFICES ASSUME NEW f \in rest
               PROVE  IsFiniteSet(upTo(f)) /\ Cardinality(upTo(f)) \in Nat
    OBVIOUS
  <2>1. upTo(f) \in SUBSET rest
    OBVIOUS
  <2> HIDE DEF upTo, rest
  <2> QED
    BY <1>1, <2>1, FS_Subset, FS_CardinalityType
<1>5. ASSUME NEW f \in rest, f \notin page, NEW g \in page
      PROVE  Ordinal(g) < Ordinal(f)
  <2>1. g \in rest /\ Cardinality(upTo(g)) <= PageSize /\ ~(Cardinality(upTo(f)) <= PageSize)
    BY <1>3, <1>5
  <2> SUFFICES ASSUME Ordinal(f) <= Ordinal(g) PROVE FALSE
    BY <1>2, <2>1
  <2>2. upTo(f) \in SUBSET upTo(g)
    BY <1>2, <2>1
  <2> HIDE DEF upTo
  <2>3. Cardinality(upTo(f)) <= Cardinality(upTo(g))
    BY <1>4, <2>1, <2>2, FS_Subset
  <2> QED
    BY <1>4, <2>1, <2>3, IngestAssumption
<1>6. ASSUME rest # {}
      PROVE  page # {}
  <2>1. PICK f \in rest : \A g \in rest : Ordinal(f) <= Ordinal(g)
    <3> HIDE DEF rest
    <3> QED
      BY <1>1, <1>6, FirstItem
  <2>2. upTo(f) = {f}
    BY <1>1, <1>2, <2>1 DEF ItemsInv
  <2>3. Cardinality(upTo(f)) <= PageSize
    <3>1. Cardinality({f}) = 1
      BY FS_Singleton
    <3>2. 1 <= PageSize
      BY IngestAssumption
    <3> HIDE DEF upTo
    <3> QED
      BY <2>2, <3>1, <3>2
  <2> QED
    BY <1>3, <2>3
<1> HIDE DEF page, upTo
<1>7. (\A f \in rest \ page, g \in page : Ordinal(g) < Ordinal(f)) /\ (page = {} => rest = {})
  BY <1>5, <1>6
<1> QED
  BY <1>7 DEF page

LEMMA ReadPageSole ==
  ASSUME GInv, NEW w \in Workers, SInv(w), ReadPage(w), UNCHANGED user
  PROVE  SInv(w)'
<1> DEFINE x == workers[w]
           page == workItems(x.local.after)
           k == [x.local EXCEPT !.todo = page]
<1>1. /\ x.pc = "checkPage" /\ x.pc \in HandlerPoints
      /\ UNCHANGED <<plan, dirs, items, touched, early>>
  BY ReadPageDoes DEF user, db
<1>2. /\ IsAnalysis(x.job) /\ Discovered /\ Swept(x.local.after) /\ StoreTyped /\ ItemsInv
  BY <1>1 DEF SInv, SoleWork, Analysing, Paging, GInv
<1>3. /\ \A f \in With("discovered") \ page, g \in page : Ordinal(g) < Ordinal(f)
      /\ page = {} => With("discovered") = {}
  BY <1>2, PageIsFirst
<1>4. Forward /\ Shrinks /\ Discovered'
  BY <1>1, <1>2, Unmoved, ForwardFacts
<1> HIDE DEF page
<1>5. CASE Stops(w)
  BY <1>1, <1>4, <1>5, StopsSole
<1>6. CASE page = {} /\ Proceeds(w, "count", x.local)
  <2>1. With("discovered")' = {}
    BY <1>3, <1>4, <1>6, ShrinkFacts
  <2>2. workers'[w].pc = "count"
    BY <1>6 DEF Proceeds
  <2>3. Discovering(workers[w])' /\ Analysing(workers[w])'
    BY <1>4, <2>1, <2>2 DEF Discovering, Analysing, Listing, Paging
  <2> QED
    BY <1>1, <1>2, <1>4, <1>6, <2>3, ProceedSole
<1>7. CASE Proceeds(w, "checkItem", k) /\ k.todo = page /\ k.after = x.local.after
  <2> HIDE DEF k
  <2>1. workers'[w].pc = "checkItem" /\ workers'[w].local = k
    BY <1>7 DEF Proceeds
  <2>2. With("discovered")' = With("discovered") /\ \A f \in Files : Ordinal(f)' = Ordinal(f)
    BY <1>1 DEF With, Ordinal
  <2>3. page \subseteq Files /\ With("discovered") \subseteq Files
    BY DEF page, workItems, With
  <2>4. \A f \in With("discovered") : /\ Ordinal(f) > k.after
                                      /\ f \in k.todo \/ \A g \in k.todo : Ordinal(g) < Ordinal(f)
    BY <1>2, <1>3, <1>7 DEF Swept
  <2>5. \A f \in With("discovered")' :
          Ordinal(f)' > k.after /\ (f \in k.todo \/ \A g \in k.todo : Ordinal(g)' < Ordinal(f)')
    BY <1>7, <2>2, <2>3, <2>4
  <2>6. Discovering(workers[w])' /\ Analysing(workers[w])'
    BY <1>4, <2>1, <2>5 DEF Discovering, Analysing, Listing, Paging, Ahead
  <2> QED
    BY <1>1, <1>2, <1>4, <1>7, <2>6, ProceedSole
<1> QED
  BY <1>5, <1>6, <1>7, ReadPageDoes DEF page

LEMMA TakeItemSole ==
  ASSUME GInv, NEW w \in Workers, SInv(w), TakeItem(w), UNCHANGED user
  PROVE  SInv(w)'
<1> DEFINE x == workers[w]
           l == x.local
<1>1. x.pc = "checkItem" /\ x.pc \in HandlerPoints /\ UNCHANGED <<plan, dirs, items, touched, early>>
  BY TakeItemDoes DEF user, db
<1>2. /\ IsAnalysis(x.job) /\ Discovered /\ Ahead(With("discovered"), l)
      /\ StoreTyped /\ ItemsInv /\ l.todo \subseteq Listed
  BY <1>1 DEF SInv, SoleWork, Analysing, Paging, GInv, WorkInv
<1>3. Forward /\ Shrinks /\ Discovered'
  BY <1>1, <1>2, Unmoved, ForwardFacts
<1>4. With("discovered")' = With("discovered") /\ \A f \in Files : Ordinal(f)' = Ordinal(f)
  BY <1>1 DEF With, Ordinal
<1>5. /\ With("discovered") \subseteq Listed /\ Listed \subseteq Files
      /\ \A f \in Listed : Ordinal(f) \in Nat
  <2>1. \A f \in Files : items[f].ordinal \in Ordinals
    BY <1>2 DEF StoreTyped, Item
  <2>2. Ordinals \subseteq Nat
    BY ConstantFacts DEF Ordinals
  <2> QED
    BY <2>1, <2>2 DEF With, Listed, Ordinal
<1>6. CASE Stops(w)
  BY <1>1, <1>3, <1>6, StopsSole
<1>7. CASE l.todo = {} /\ Proceeds(w, "save", l)
  <2>1. workers'[w].pc = "save" /\ workers'[w].local = l
    BY <1>7 DEF Proceeds
  <2>2. \A f \in With("discovered")' : Ordinal(f)' > l.after
    BY <1>2, <1>4, <1>5 DEF Ahead
  <2>3. Discovering(workers[w])' /\ Analysing(workers[w])'
    BY <1>3, <2>1, <2>2 DEF Discovering, Analysing, Listing, Paging, Swept
  <2> QED
    BY <1>1, <1>2, <1>3, <1>7, <2>3, ProceedSole
<1>8. ASSUME NEW f \in l.todo, NEW k \in Locals, \A g \in l.todo : Ordinal(f) <= Ordinal(g),
             k.todo = l.todo \ {f}, k.item = f, k.after = Ordinal(f), Proceeds(w, "hash", k)
      PROVE  SInv(w)'
  <2>1. workers'[w].pc = "hash" /\ workers'[w].local = k
    BY <1>8 DEF Proceeds
  <2>2. ASSUME NEW h \in With("discovered") \ {f}
        PROVE  Ordinal(h) > k.after /\ (h \in k.todo \/ \A g \in k.todo : Ordinal(g) < Ordinal(h))
    <3>1. h \in l.todo \/ \A g \in l.todo : Ordinal(g) < Ordinal(h)
      BY <1>2 DEF Ahead
    <3>2. CASE h \in l.todo
      <4>1. Ordinal(h) # Ordinal(f) /\ Ordinal(f) <= Ordinal(h)
        BY <1>2, <1>5, <1>8, <3>2 DEF ItemsInv
      <4>2. Ordinal(h) > Ordinal(f)
        BY <1>2, <1>5, <1>8, <3>2, <4>1
      <4> QED
        BY <1>8, <3>2, <4>2
    <3>3. CASE \A g \in l.todo : Ordinal(g) < Ordinal(h)
      <4>1. Ordinal(h) > Ordinal(f)
        BY <1>2, <1>5, <3>3
      <4> QED
        BY <1>8, <3>3, <4>1
    <3> QED
      BY <3>1, <3>2, <3>3
  <2>3. \A h \in With("discovered")' \ {f} :
          Ordinal(h)' > k.after /\ (h \in k.todo \/ \A g \in k.todo : Ordinal(g)' < Ordinal(h)')
    BY <1>2, <1>4, <1>5, <1>8, <2>2
  <2>4. Discovering(workers[w])'
    BY <2>1 DEF Discovering, Listing
  <2>5. Analysing(workers[w])'
    BY <1>3, <1>8, <2>1, <2>3 DEF Analysing, Paging, Ahead
  <2> QED
    BY <1>1, <1>2, <1>3, <1>8, <2>4, <2>5, ProceedSole
<1> QED
  BY <1>6, <1>7, <1>8, TakeItemDoes

LEMMA AnalyzeSole ==
  ASSUME GInv, NEW w \in Workers, SInv(w), AnalyzeItem(w), UNCHANGED user
  PROVE  SInv(w)'
<1> DEFINE x == workers[w]
           l == x.local
           k == Leaving(l)
<1>1. /\ x.pc = "hash" /\ x.pc \in HandlerPoints /\ UNCHANGED <<plan, dirs, touched, early>>
      /\ l.item \in Listed /\ l.todo \subseteq Listed /\ Listed' = Listed
      /\ \A g \in Files : items'[g].ordinal = items[g].ordinal
      /\ \A g \in Files \ {l.item} : items'[g] = items[g]
      /\ items'[l.item].status # "discovered"
      /\ Proceeds(w, "checkItem", k) /\ k.todo = l.todo /\ k.after = l.after
  BY AnalyzeDoes DEF user
<1> HIDE DEF k
<1>2. IsAnalysis(x.job) /\ Discovered /\ Ahead(With("discovered") \ {l.item}, l)
  BY <1>1 DEF SInv, SoleWork, Analysing, Paging
<1>3. With("discovered")' \subseteq With("discovered") \ {l.item}
  BY <1>1 DEF With
<1>4. Forward /\ Shrinks
  BY <1>1, <1>3 DEF Forward, Shrinks
<1>5. Discovered'
  BY <1>2, <1>4, ForwardFacts
<1>6. \A f \in Files : Ordinal(f)' = Ordinal(f)
  BY <1>1 DEF Ordinal
<1>7. With("discovered")' \subseteq Files /\ l.todo \subseteq Files
  BY <1>1, ListedFacts DEF With
<1>8. \A f \in With("discovered")' :
        Ordinal(f)' > k.after /\ (f \in k.todo \/ \A g \in k.todo : Ordinal(g)' < Ordinal(f)')
  BY <1>1, <1>2, <1>3, <1>6, <1>7 DEF Ahead
<1>9. workers'[w].pc = "checkItem" /\ workers'[w].local = k
  BY <1>1 DEF Proceeds
<1>10. Discovering(workers[w])' /\ Analysing(workers[w])'
  BY <1>5, <1>8, <1>9 DEF Discovering, Analysing, Listing, Paging, Ahead
<1> QED
  BY <1>1, <1>2, <1>4, <1>10, ProceedSole

LEMMA EndingSole ==
  ASSUME GInv, NEW w \in Workers, SInv(w), UNCHANGED user,
         CountItems(w) \/ CloseAnalysis(w) \/ FailPlan(w)
  PROVE  SInv(w)'
<1> DEFINE x == workers[w]
<1>1. CASE CountItems(w)
  <2>1. x.pc = "count" /\ x.pc \in HandlerPoints /\ UNCHANGED <<plan, dirs, items, touched, early>>
    BY <1>1, CountDoes DEF user, db
  <2>2. PICK local \in Locals : Proceeds(w, "close", local)
    BY <1>1, CountDoes
  <2>3. Forward /\ Shrinks /\ IsAnalysis(x.job) /\ Discovered /\ With("discovered") = {}
    BY <2>1, Unmoved DEF SInv, SoleWork, Analysing, Paging
  <2>4. Discovered' /\ With("discovered")' = {}
    BY <2>3, ForwardFacts, ShrinkFacts
  <2>5. workers'[w].pc = "close"
    BY <2>2 DEF Proceeds
  <2>6. Discovering(workers[w])' /\ Analysing(workers[w])'
    BY <2>4, <2>5 DEF Discovering, Analysing, Listing, Paging
  <2> QED
    BY <2>1, <2>2, <2>3, <2>6, ProceedSole
<1>2. CASE CloseAnalysis(w)
  <2>1. /\ x.pc = "close" /\ x.pc \in HandlerPoints /\ UNCHANGED <<dirs, items, touched, early>>
        /\ Proceeds(w, "finish", x.local)
    BY <1>2, CloseDoes DEF user
  <2>2. Forward /\ Shrinks /\ AllAnalysed
    BY <2>1, Unmoved DEF SInv, SoleWork, Analysing, Paging, AllAnalysed
  <2>3. AllAnalysed'
    BY <2>2, AnalysedKept
  <2>4. "finish" \notin HandlerPoints /\ workers'[w].pc = "finish"
    BY <2>1 DEF HandlerPoints, Proceeds
  <2>5. Discovering(workers[w])' /\ Analysing(workers[w])'
    BY <2>4 DEF Discovering, Analysing, Listing, Paging
  <2> QED
    BY <2>1, <2>2, <2>3, <2>4, <2>5, ProceedSole
<1>3. CASE FailPlan(w)
  <2>1. /\ x.pc = "failPlan" /\ x.pc \in HandlerPoints /\ UNCHANGED <<dirs, items, touched, early>>
        /\ plan' = "failed" /\ Proceeds(w, "fail", NoLocal)
    BY <1>3, FailPlanDoes DEF user
  <2>2. Forward /\ Shrinks /\ plan' \notin Closed
    BY <2>1, Unmoved DEF Closed
  <2>3. "fail" \notin HandlerPoints /\ workers'[w].pc = "fail"
    BY <2>1 DEF HandlerPoints, Proceeds
  <2>4. Discovering(workers[w])' /\ Analysing(workers[w])'
    BY <2>3 DEF Discovering, Analysing, Listing, Paging
  <2> QED
    BY <2>1, <2>2, <2>3, <2>4, ProceedSole
<1> QED
  BY <1>1, <1>2, <1>3

LEMMA TransferSole ==
  ASSUME GInv, NEW w \in Workers, SInv(w), Transfer(w), UNCHANGED user
  PROVE  SInv(w)'
<1> DEFINE x == workers[w]
<1>1. /\ x.pc = "transfer" /\ x.pc \in HandlerPoints /\ UNCHANGED <<dirs, touched, early>>
      /\ Listed' = Listed /\ With("discovered")' = With("discovered")
      /\ \A f \in Files : items'[f].ordinal = items[f].ordinal
      /\ plan' \in Closed => plan \in Closed
  BY TransferDoes DEF user
<1>2. PICK point \in {"finish", "fail"}, local \in Locals : Proceeds(w, point, local)
  BY TransferDoes
<1>3. Forward /\ Shrinks /\ ~IsAnalysis(x.job)
  BY <1>1 DEF Forward, Shrinks, SInv, SoleWork
<1>4. point \notin HandlerPoints /\ workers'[w].pc = point
  BY <1>2 DEF HandlerPoints, Proceeds
<1>5. Discovering(workers[w])' /\ Analysing(workers[w])'
  BY <1>4 DEF Discovering, Analysing, Listing, Paging
<1> QED
  BY <1>1, <1>2, <1>3, <1>4, <1>5, ProceedSole

\* Calls to the queue leave the plan alone.
LEMMA CallSole ==
  ASSUME NEW w, SInv(w), NEW done, NEW saved, Effect(done, saved), Ids' = Ids,
         UNCHANGED <<db, user>>,
         \A j \in saved : j \in Ids /\ IsAnalysis(j) /\ jobs'[j].checkpoint # 0 =>
           Discovered /\ \A f \in With("discovered") : Ordinal(f) > jobs'[j].checkpoint - 2,
         \A j \in done : j \in Ids /\ IsAnalysis(j) => early \/ AllAnalysed,
         SoleLease(workers[w])', SoleWork(workers[w])'
  PROVE  SInv(w)'
<1>1. Forward /\ Shrinks /\ UNCHANGED <<plan, dirs, early, request>>
  BY Unmoved DEF db, user
<1>2. \A j \in saved : j \in Ids /\ IsAnalysis(j) /\ jobs'[j].checkpoint # 0
                          => Discovered' /\ Swept(jobs[j].checkpoint - 2)'
  BY <1>1, ForwardFacts, ShrinkFacts DEF Swept
<1>3. /\ SoleRows'
      /\ Analysed' => Analysed \/ \E j \in done : j \in Ids /\ IsAnalysis(j)
  BY <1>1, <1>2, RowsOfStep DEF SInv
<1>4. plan' \in Closed \/ Analysed' => early' \/ AllAnalysed'
  BY <1>1, <1>3, AnalysedKept DEF SInv, SoleStore
<1>5. \A d \in Dirs : dirs'[d] = "completed" => Covered(d)'
  BY <1>1, ForwardFacts DEF SInv, SoleStore
<1> QED
  BY <1>3, <1>4, <1>5 DEF SInv, SoleStore

LEMMA LoadSole ==
  ASSUME GInv, NEW w \in Workers, SInv(w), Load(w), UNCHANGED user
  PROVE  SInv(w)'
<1> DEFINE x == workers[w]
           y == workers'[w]
<1>1. /\ UNCHANGED <<jobs, db>> /\ x.job \in Ids
      /\ \/ y.pc = "down"
         \/ /\ y.pc = IF IsAnalysis(x.job) THEN "start" ELSE "transfer"
            /\ Holds(x) /\ y.job = x.job /\ y.attempt = x.attempt
            /\ y.saved = jobs[x.job].checkpoint
  BY LoadDoes
<1>2. /\ Linked(y) => jobs'[y.job].status = "running" /\ jobs'[y.job].lease = y.attempt
      /\ y.pc \notin Resting => jobs'[y.job].checkpoint = y.saved
  BY <1>1 DEF Holds, HoldsLease, Linked, Resting
<1>3. y.job = x.job => (IsAnalysis(workers[w].job)' <=> IsAnalysis(x.job))
  BY <1>1 DEF IsAnalysis
<1>4. y.pc \in HandlerPoints => (IsAnalysis(workers[w].job)' <=> y.pc # "transfer")
  BY <1>1, <1>3 DEF HandlerPoints
<1>5. y.pc \notin {"finish", "complete"} /\ Discovering(workers[w])' /\ Analysing(workers[w])'
  BY <1>1 DEF Discovering, Analysing, Listing, Paging
<1>6. SoleLease(workers[w])'
  BY <1>2 DEF SoleLease
<1>7. SoleWork(workers[w])'
  BY <1>4, <1>5 DEF SoleWork
<1> QED
  BY <1>1, <1>6, <1>7, QuietEffect, CallSole DEF Ids

LEMMA CrashSole ==
  ASSUME GInv, NEW w \in Workers, SInv(w), Crash(w), UNCHANGED <<db, user>>
  PROVE  SInv(w)'
<1>1. UNCHANGED jobs /\ workers'[w].pc = "down"
  <2>1. workers \in [Workers -> Worker(HandlerPoints, Locals)] /\ NoLocal \in Locals
    BY ConstantFacts DEF GInv, WorkersTyped
  <2> QED
    BY <2>1, DieActs DEF Crash, Die
<1>2. SoleLease(workers[w])'
  BY <1>1 DEF SoleLease, Linked, Resting
<1>3. SoleWork(workers[w])'
  BY <1>1 DEF SoleWork, HandlerPoints, Discovering, Analysing, Listing, Paging
<1> QED
  BY <1>1, <1>2, <1>3, QuietEffect, CallSole DEF Ids

\* What is held after a move of the process is what was held, or was claimed now.
LEMMA ProcessLease ==
  ASSUME GInv, NEW w \in Workers, SInv(w), ProcessMoves(w)
  PROVE  SoleLease(workers[w])'
<1> DEFINE x == workers[w]
           y == workers'[w]
<1>1. /\ workers \in [Workers -> Worker(HandlerPoints, Locals)] /\ IndInv /\ LinkInv /\ NoLocal \in Locals
      /\ x \in Worker(HandlerPoints, Locals)
  BY ConstantFacts DEF GInv, WorkersTyped
<1>2. y.pc \in Resting \/ Answers(x, y)
  BY <1>1, ProcessMovesActs DEF ProcessActs
<1>3. CASE Answers(x, y)
  <2>1. /\ UNCHANGED jobs /\ x.pc = "finish" /\ Holds(x)
        /\ y.job = x.job /\ y.attempt = x.attempt /\ y.saved = x.saved
    BY <1>1, <1>3 DEF Answers, Worker
  <2>2. /\ jobs[x.job].status = "running" /\ jobs[x.job].lease = x.attempt
        /\ jobs[x.job].checkpoint = x.saved
    BY <2>1 DEF SInv, SoleLease, Linked, Resting
  <2>3. jobs'[y.job].status = "running" /\ jobs'[y.job].lease = y.attempt /\ jobs'[y.job].checkpoint = y.saved
    BY <2>1, <2>2
  <2> QED
    BY <2>3 DEF SoleLease
<1>4. CASE y.pc \in Resting
  <2>1. Linked(y) => jobs'[y.job].status = "running" /\ jobs'[y.job].lease = y.attempt
    <3> SUFFICES ASSUME Linked(y), y.pc \in {"load", "fail"}
                 PROVE  jobs'[y.job].status = "running" /\ jobs'[y.job].lease = y.attempt
      BY <1>4 DEF Linked, Resting
    <3>1. \/ UNCHANGED jobs /\ Linked(x) /\ y.job = x.job /\ y.attempt = x.attempt
          \/ \E j \in Ids : ClaimNext(j, Supports[w]) /\ y = Leased(j)
      <4>1. Idle("recover").pc = "recover" /\ Idle("down").pc = "down"
        BY DEF Idle, Fresh
      <4>2. ~(\E point \in {"recover", "claim", "down", "complete", "ackCancel", "ackPause"} :
                Goto(w, point) \/ Become(w, Idle(point)))
        <5> SUFFICES ASSUME NEW point \in {"recover", "claim", "down", "complete", "ackCancel", "ackPause"},
                            Goto(w, point) \/ Become(w, Idle(point))
                     PROVE  FALSE
          OBVIOUS
        <5>1. y.pc = point
          BY <1>1 DEF Goto, Become, Idle, Fresh, Worker
        <5> QED
          BY <5>1
      <4>3. CASE Claim(w)
        BY <1>1, <4>2, <4>3 DEF Claim, Become
      <4>4. CASE Finish(w) \/ CompleteJob(w)
        <5>1. Throw(w, TRUE) /\ UNCHANGED jobs /\ Linked(x)
          BY <4>2, <4>4 DEF Finish, CompleteJob, ThrowIfControlRequested, At, Linked
        <5>2. y.job = x.job /\ y.attempt = x.attempt
          BY <1>1, <5>1 DEF Throw, Worker
        <5> QED
          BY <5>1, <5>2
      <4>5. CASE Recover(w) \/ FailJob(w) \/ AcknowledgePause(w) \/ AcknowledgeCancel(w) \/ Restart(w)
        BY <4>2, <4>5 DEF Recover, FailJob, AcknowledgePause, AcknowledgeCancel, Restart, ReportEnd, Die
      <4> QED
        BY <4>3, <4>4, <4>5 DEF ProcessMoves, runOnce
    <3>2. CASE UNCHANGED jobs /\ Linked(x) /\ y.job = x.job /\ y.attempt = x.attempt
      BY <3>2 DEF SInv, SoleLease
    <3>3. CASE \E j \in Ids : ClaimNext(j, Supports[w]) /\ y = Leased(j)
      <4>1. PICK j \in Ids : ClaimNext(j, Supports[w]) /\ y = Leased(j)
        BY <3>3
      <4>2. jobs'[j] = ClaimedRow(jobs[j]) /\ jobs[j] \in Row
        BY <1>1, <4>1, WriteRows, RowsOfTable DEF ClaimNext, IndInv, TypeOK, Ids
      <4>3. jobs'[j].status = "running" /\ jobs'[j].lease = Len(jobs[j].attempts) + 1
        BY <4>2 DEF ClaimedRow, Row
      <4>4. y.job = j /\ y.attempt = Len(jobs[j].attempts) + 1
        BY <4>1 DEF Leased, Fresh
      <4> QED
        BY <4>3, <4>4
    <3> QED
      BY <3>1, <3>2, <3>3
  <2> QED
    BY <1>4, <2>1 DEF SoleLease
<1> QED
  BY <1>2, <1>3, <1>4

\* A complete analysis is complete when its job is reported so, and a pause
\* writes the checkpoint that the row has.
LEMMA ProcessSole ==
  ASSUME GInv, NEW w \in Workers, SInv(w), ProcessMoves(w), UNCHANGED <<db, user>>
  PROVE  SInv(w)'
<1> DEFINE x == workers[w]
           y == workers'[w]
           done == IF x.pc = "complete" THEN {x.job} ELSE {}
           saved == IF x.pc = "ackPause" THEN {x.job} ELSE {}
<1>1. /\ workers \in [Workers -> Worker(HandlerPoints, Locals)] /\ IndInv /\ LinkInv /\ NoLocal \in Locals
      /\ x \in Worker(HandlerPoints, Locals)
  BY ConstantFacts DEF GInv, WorkersTyped
<1>2. /\ Effect(done, saved)
      /\ x.pc = "ackPause" /\ jobs' # jobs => jobs'[x.job].checkpoint = x.saved
      /\ y.pc \in Resting \/ Answers(x, y)
  BY <1>1, ProcessMovesActs DEF ProcessActs, Acts
<1>3. Ids' = Ids
  BY ProcessRows DEF GInv
<1>4. ASSUME NEW j \in saved, j \in Ids, IsAnalysis(j), jobs'[j].checkpoint # 0
      PROVE  Discovered /\ \A f \in With("discovered") : Ordinal(f) > jobs'[j].checkpoint - 2
  <2>1. j = x.job /\ x.pc = "ackPause"
    BY <1>4
  <2>2. jobs[j].checkpoint = x.saved
    BY <2>1 DEF SInv, SoleLease, Resting
  <2>3. jobs'[j].checkpoint = jobs[j].checkpoint
    BY <1>2, <2>1, <2>2
  <2> QED
    BY <1>4, <2>3 DEF SInv, SoleRows, Swept
<1>5. \A j \in done : j \in Ids /\ IsAnalysis(j) => early \/ AllAnalysed
  BY DEF SInv, SoleWork
<1>6. SoleLease(workers[w])'
  BY ProcessLease
<1>7. SoleWork(workers[w])'
  <2>1. y.pc \in Resting \cup {"complete", "ackPause", "ackCancel"}
    BY <1>2 DEF Answers
  <2>2. y.pc \notin HandlerPoints /\ Discovering(workers[w])' /\ Analysing(workers[w])'
    BY <2>1 DEF Resting, HandlerPoints, Discovering, Analysing, Listing, Paging
  <2>3. y.pc \in {"finish", "complete"} /\ IsAnalysis(workers[w].job)' => early' \/ AllAnalysed'
    <3> SUFFICES ASSUME y.pc \in {"finish", "complete"}, IsAnalysis(workers[w].job)'
                 PROVE  early' \/ AllAnalysed'
      OBVIOUS
    <3>1. Answers(x, y)
      BY <1>2 DEF Resting
    <3>2. x.pc = "finish" /\ y.job = x.job /\ UNCHANGED jobs
      BY <1>1, <3>1 DEF Answers, Worker
    <3>3. IsAnalysis(x.job)
      BY <3>2 DEF IsAnalysis
    <3>4. early \/ AllAnalysed
      BY <3>2, <3>3 DEF SInv, SoleWork
    <3> QED
      BY <3>4, Unmoved, AnalysedKept DEF db, user
  <2> QED
    BY <2>2, <2>3 DEF SoleWork
<1> HIDE DEF done, saved
<1> QED
  BY <1>2, <1>3, <1>4, <1>5, <1>6, <1>7, CallSole

\* When no directory is left to read, the completed ones are the whole tree.
LEMMA WholeSource ==
  ASSUME GInv, SoleStore, dirs[Root] # "none", Pending = {}, \A d \in Dirs : dirs[d] # "scanning"
  PROVE  Discovered
<1> DEFINE S == {d \in Dirs : dirs[d] = "completed" \/ d \in touched}
<1>1. \A d \in Dirs : dirs[d] # "none" => dirs[d] = "completed"
  BY DEF Pending, GInv, StoreTyped, DirStatuses
<1>2. TreeInv /\ \A d \in Dirs : dirs[d] = "completed" => Covered(d)
  BY DEF GInv, SoleStore
<1>3. ASSUME NEW d \in S, NEW p \in Children[d] \ touched
      PROVE  p \in Paths /\ Known(p)
  <2>1. p \in Paths
    BY ConstantFacts
  <2>2. d \notin touched
    BY <1>2, <2>1 DEF TreeInv
  <2> QED
    BY <1>2, <2>1, <2>2 DEF Covered
<1>4. S = Dirs
  <2>1. Root \in S
    BY <1>1, IngestAssumption
  <2>2. \A d \in S : Children[d] \cap Dirs \subseteq S
    BY <1>1, <1>3 DEF Known
  <2>3. S \in SUBSET Dirs
    OBVIOUS
  <2> HIDE DEF S
  <2> QED
    BY <2>1, <2>2, <2>3, IngestAssumption
<1> HIDE DEF S
<1>5. \A d \in Dirs : \A p \in Children[d] \ touched : Known(p)
  BY <1>3, <1>4
<1> QED
  BY <1>5 DEF Discovered, Files, Known

LEMMA RecordHolds ==
  ASSUME GInv, NEW w \in Workers, RecordDirectory(w) \/ RecordItem(w), workers[w].job \in Ids
  PROVE  LET x == workers[w]
         IN /\ Ids' = Ids
            /\ jobs'[x.job].status = jobs[x.job].status /\ jobs'[x.job].lease = jobs[x.job].lease
<1> DEFINE x == workers[w]
           row == jobs[x.job]
<1>1. IndInv /\ row \in Row
  BY RowsOfTable DEF GInv, IndInv, TypeOK, Ids
<1>2. \/ UNCHANGED jobs
      \/ \E c : SaveCheckpoint(x.job, x.attempt, c)
      \/ Heartbeat(x.job, x.attempt)
  BY DEF RecordDirectory, RecordItem, OutOfLease, SaveContext, ReportContext, Job, Attempt
<1>3. CASE \E c : SaveCheckpoint(x.job, x.attempt, c)
  <2>1. PICK c : SaveCheckpoint(x.job, x.attempt, c)
    BY <1>3
  <2>2. Ids' = Ids /\ jobs'[x.job] = [row EXCEPT !.checkpoint = c, !.audit = Event("running", "running")]
    BY <1>1, <2>1, WriteRows DEF SaveCheckpoint
  <2> HIDE DEF row
  <2> QED
    BY <1>1, <2>2 DEF Row, row
<1>4. CASE Heartbeat(x.job, x.attempt)
  <2>1. Ids' = Ids /\ jobs'[x.job] = [row EXCEPT !.ttl = row.sub.leaseDuration, !.audit = Event("running", "running")]
    BY <1>1, <1>4, WriteRows DEF Heartbeat
  <2> HIDE DEF row
  <2> QED
    BY <1>1, <2>1 DEF Row, row
<1> QED
  BY <1>2, <1>3, <1>4 DEF Ids

LEMMA RecordSole ==
  ASSUME GInv, NEW w \in Workers, SInv(w), RecordDirectory(w) \/ RecordItem(w), UNCHANGED user
  PROVE  SInv(w)'
<1> DEFINE x == workers[w]
           y == workers'[w]
           l == x.local
<1>1. x.pc \in HandlerPoints /\ UNCHANGED <<db, user>>
  BY RecordDoes
<1>2. /\ x.job \in Ids /\ Linked(x) /\ x.pc \notin Resting /\ l \in Locals /\ x.saved \in Nat
      /\ Forward /\ Shrinks /\ UNCHANGED <<plan, dirs, items, touched, early>>
  BY <1>1, HandlerFacts, Unmoved DEF db, user
<1>3. /\ Ids' = Ids /\ jobs'[x.job].status = jobs[x.job].status /\ jobs'[x.job].lease = jobs[x.job].lease
  BY <1>2, RecordHolds
<1>4. ASSUME NEW c, NEW point \in {"reportDir", "checkDir", "checkPage", "report"}, Effect({}, {x.job}),
             jobs'[x.job].checkpoint = c, jobs'[x.job].sub = jobs[x.job].sub,
             y.pc = point, y.saved = c, y.job = x.job, y.attempt = x.attempt, x.pc # "transfer",
             c # 0 => Discovered /\ \A f \in With("discovered") : Ordinal(f) > c - 2,
             Discovering(workers[w])', Analysing(workers[w])'
      PROVE  SInv(w)'
  <2>1. IsAnalysis(x.job) /\ jobs[x.job].status = "running" /\ jobs[x.job].lease = x.attempt
    BY <1>1, <1>2, <1>4 DEF SInv, SoleWork, SoleLease
  <2>2. SoleLease(workers[w])'
    BY <1>3, <1>4, <2>1 DEF SoleLease
  <2>3. IsAnalysis(workers[w].job)' /\ point \notin {"transfer", "finish", "complete"}
    BY <1>4, <2>1 DEF IsAnalysis
  <2>4. SoleWork(workers[w])'
    BY <1>4, <2>3 DEF SoleWork
  <2> QED
    BY <1>1, <1>3, <1>4, <2>2, <2>4, CallSole
<1>5. CASE Stops(w)
  <2>1. x.pc # "transfer"
    BY DEF RecordDirectory, RecordItem, OutOfLease, At
  <2> QED
    BY <1>1, <1>2, <1>5, <2>1, StopsSole
<1>6. CASE x.pc = "saveDir" /\ SavesTo(w, 0, "reportDir", Nothing)
  <2>1. dirs[Root] # "none" /\ (early \/ plan \notin Closed) /\ \A d \in Dirs : dirs[d] # "scanning"
    BY <1>6 DEF SInv, SoleWork, Discovering, Listing
  <2>2. y.pc = "reportDir" /\ y.saved = 0
    BY <1>6 DEF SavesTo
  <2>3. Discovering(workers[w])' /\ Analysing(workers[w])'
    BY <1>2, <2>1, <2>2 DEF Discovering, Analysing, Listing, Paging
  <2> QED
    BY <1>4, <1>6, <2>2, <2>3 DEF SavesTo, Acts
<1>7. CASE x.pc = "savePhase" /\ SavesTo(w, 1, "checkPage", Nothing)
  <2>1. Discovered
    BY <1>7, WholeSource DEF SInv, SoleWork, Discovering, Listing
  <2>2. \A f \in With("discovered") : Ordinal(f) > -1
    <3>1. \A f \in Files : items[f].ordinal \in Ordinals
      BY DEF GInv, StoreTyped, Item
    <3>2. \A n \in Ordinals : n > -1
      BY ConstantFacts DEF Ordinals
    <3> QED
      BY <3>1, <3>2 DEF With, Ordinal
  <2>3. y.pc = "checkPage" /\ y.local = Nothing /\ Nothing.after = -1
    BY <1>7 DEF SavesTo, Nothing
  <2>4. Discovered' /\ \A f \in With("discovered")' : Ordinal(f)' > -1
    BY <1>2, <2>1, <2>2, ForwardFacts, ShrinkFacts
  <2>5. Discovering(workers[w])' /\ Analysing(workers[w])'
    BY <2>3, <2>4 DEF Discovering, Analysing, Listing, Paging, Swept
  <2> QED
    BY <1>4, <1>7, <2>1, <2>2, <2>3, <2>5 DEF SavesTo, Acts
<1>8. CASE x.pc = "save" /\ SavesTo(w, l.after + 2, "report", l)
  <2>1. Discovered /\ Swept(l.after) /\ l.after \in Int
    BY <1>2, <1>8, ConstantFacts DEF SInv, SoleWork, Analysing, Paging, Locals
  <2>2. Discovered' /\ \A f \in With("discovered")' : Ordinal(f)' > l.after
    BY <1>2, <2>1, ForwardFacts, ShrinkFacts DEF Swept
  <2>3. y.pc = "report" /\ y.local = l
    BY <1>8 DEF SavesTo
  <2>4. Discovering(workers[w])' /\ Analysing(workers[w])'
    BY <2>2, <2>3 DEF Discovering, Analysing, Listing, Paging, Swept
  <2>5. (l.after + 2) - 2 = l.after
    BY <2>1
  <2> QED
    BY <1>4, <1>8, <2>1, <2>3, <2>4, <2>5 DEF SavesTo, Acts, Swept
<1>9. ASSUME NEW point \in {"checkDir", "checkPage"}, NEW local, ReportsTo(w, point, local),
             x.pc # "transfer", Discovering(workers[w])', Analysing(workers[w])'
      PROVE  SInv(w)'
  <2>1. /\ Effect({}, {}) /\ jobs'[x.job].checkpoint = jobs[x.job].checkpoint
        /\ jobs'[x.job].sub = jobs[x.job].sub
        /\ y.pc = point /\ y.saved = x.saved /\ y.job = x.job /\ y.attempt = x.attempt
    BY <1>9 DEF ReportsTo, Acts
  <2>2. Effect({}, {x.job})
    BY <2>1 DEF Effect
  <2>3. jobs[x.job].checkpoint = x.saved /\ IsAnalysis(x.job)
    BY <1>1, <1>2, <1>9 DEF SInv, SoleLease, SoleWork
  <2>4. x.saved # 0 => Discovered /\ \A f \in With("discovered") : Ordinal(f) > x.saved - 2
    BY <1>2, <2>3 DEF SInv, SoleRows, Swept
  <2> QED
    BY <1>4, <1>9, <2>1, <2>2, <2>3, <2>4
<1>10. CASE x.pc = "reportDir" /\ ReportsTo(w, "checkDir", Nothing)
  <2>1. /\ dirs[Root] # "none" /\ (early \/ plan \notin Closed) /\ x.saved = 0
        /\ \A d \in Dirs : dirs[d] # "scanning"
    BY <1>10 DEF SInv, SoleWork, Discovering, Listing
  <2>2. y.pc = "checkDir" /\ y.saved = 0
    BY <1>10, <2>1 DEF ReportsTo
  <2>3. Discovering(workers[w])' /\ Analysing(workers[w])'
    BY <1>2, <2>1, <2>2 DEF Discovering, Analysing, Listing, Paging
  <2> QED
    BY <1>9, <1>10, <2>3
<1>11. CASE x.pc = "report" /\ ReportsTo(w, "checkPage", l)
  <2>1. Discovered /\ Swept(l.after)
    BY <1>11 DEF SInv, SoleWork, Analysing, Paging
  <2>2. Discovered' /\ \A f \in With("discovered")' : Ordinal(f)' > l.after
    BY <1>2, <2>1, ForwardFacts, ShrinkFacts DEF Swept
  <2>3. y.pc = "checkPage" /\ y.local = l
    BY <1>11 DEF ReportsTo
  <2>4. Discovering(workers[w])' /\ Analysing(workers[w])'
    BY <2>2, <2>3 DEF Discovering, Analysing, Listing, Paging, Swept
  <2> QED
    BY <1>9, <1>11, <2>4
<1> QED
  BY <1>5, <1>6, <1>7, <1>8, <1>10, <1>11, RecordDoes

\* A job that runs is left to its worker by everybody else.
StillRuns ==
  \A j \in Ids : jobs[j].status = "running" => jobs'[j].status = "running" /\ jobs'[j].lease = jobs[j].lease

LEMMA SubmitRows ==
  ASSUME IndInv, NEW s \in Submissions, Submit(s)
  PROVE  StillRuns /\ \E n : n \notin Ids /\ Ids' = Ids \cup {n} /\ jobs'[n] = QueuedRow(s)
<1>1. jobs \in Seq(Row) /\ jobs' = Append(jobs, QueuedRow(s))
  BY DEF IndInv, TypeOK, Submit
<1>2. /\ Len(jobs) \in Nat
      /\ DOMAIN jobs = 1 .. Len(jobs) /\ DOMAIN jobs' = 1 .. Len(jobs) + 1
      /\ \A i \in 1 .. Len(jobs) : jobs'[i] = jobs[i]
      /\ jobs'[Len(jobs) + 1] = QueuedRow(s)
  BY <1>1
<1>3. Len(jobs) + 1 \notin Ids /\ Ids' = Ids \cup {Len(jobs) + 1}
  BY <1>2 DEF Ids
<1>4. \A j \in Ids : jobs'[j] = jobs[j]
  BY <1>2 DEF Ids
<1> QED
  BY <1>2, <1>3, <1>4 DEF StillRuns

LEMMA ControlRows ==
  ASSUME IndInv, Tick \/ (\E j \in Ids : RequestPause(j) \/ Resume(j) \/ Cancel(j))
  PROVE  StillRuns /\ Ids' = Ids
<1>1. \A j \in Ids : jobs[j] \in Row
  BY RowsOfTable DEF IndInv, TypeOK, Ids
<1>2. CASE Tick
  <2>1. Ids' = Ids /\ \A j \in Ids : jobs'[j] = IF Ticking(jobs[j]) THEN [jobs[j] EXCEPT !.ttl = @ - 1] ELSE jobs[j]
    BY <1>2 DEF Tick, Ids
  <2>2. ASSUME NEW j \in Ids PROVE jobs'[j].status = jobs[j].status /\ jobs'[j].lease = jobs[j].lease
    <3> DEFINE row == jobs[j]
    <3>1. row \in Row /\ jobs'[j] = IF Ticking(row) THEN [row EXCEPT !.ttl = @ - 1] ELSE row
      BY <1>1, <2>1
    <3> HIDE DEF row
    <3>2. jobs'[j].status = row.status /\ jobs'[j].lease = row.lease
      BY <3>1 DEF Row
    <3> QED
      BY <3>2 DEF row
  <2> QED
    BY <2>1, <2>2 DEF StillRuns
<1>3. ASSUME NEW j \in Ids, RequestPause(j) \/ Resume(j) \/ Cancel(j)
      PROVE  StillRuns /\ Ids' = Ids
  <2> DEFINE row == jobs[j]
  <2>1. CASE \/ Write(j, [row EXCEPT !.pause = TRUE, !.audit = Event("running", "running")])
             \/ Write(j, [row EXCEPT !.cancel = TRUE, !.audit = Event("running", "running")])
    <3>1. \/ jobs'[j] = [row EXCEPT !.pause = TRUE, !.audit = Event("running", "running")]
          \/ jobs'[j] = [row EXCEPT !.cancel = TRUE, !.audit = Event("running", "running")]
      BY <2>1, WriteRows
    <3>2. Ids' = Ids /\ \A i \in Ids \ {j} : jobs'[i] = jobs[i]
      BY <2>1 DEF Write, Ids
    <3>3. row \in Row
      BY <1>1
    <3> HIDE DEF row
    <3>4. jobs'[j].status = row.status /\ jobs'[j].lease = row.lease
      BY <3>1, <3>3 DEF Row
    <3> QED
      BY <3>2, <3>4 DEF StillRuns, row
  <2>2. CASE row.status \in {"queued", "paused"} /\ \E new : Write(j, new)
    <3>1. Ids' = Ids /\ \A i \in Ids \ {j} : jobs'[i] = jobs[i]
      BY <2>2 DEF Write, Ids
    <3> QED
      BY <2>2, <3>1 DEF StillRuns
  <2> QED
    <3>1. CASE RequestPause(j)
      BY <2>1, <2>2, <3>1, Zenon DEF RequestPause
    <3>2. CASE Resume(j)
      BY <2>1, <2>2, <3>2, Zenon DEF Resume
    <3>3. CASE Cancel(j)
      BY <2>1, <2>2, <3>3, Zenon DEF Cancel
    <3> QED
      BY <1>3, <3>1, <3>2, <3>3
<1> QED
  BY <1>2, <1>3

LEMMA RowsOfClient ==
  ASSUME SoleRows, Effect({}, {}), Forward, Shrinks,
         request'.create \in {"new", "created"} => request.create \in {"new", "created"},
         \/ Ids' = Ids
         \/ \E n, s : /\ n \notin Ids /\ Ids' = Ids \cup {n} /\ jobs'[n] = QueuedRow(s)
                      /\ s.kind = "analyze" =>
                           request.create = "created" /\ request'.create = "submitted"
  PROVE  SoleRows' /\ (Analysed' => Analysed)
<1>1. CASE Ids' = Ids
  BY <1>1, RowsOfStep
<1>2. CASE \E n, s : /\ n \notin Ids /\ Ids' = Ids \cup {n} /\ jobs'[n] = QueuedRow(s)
                     /\ s.kind = "analyze" => request.create = "created" /\ request'.create = "submitted"
  <2>1. PICK n, s : /\ n \notin Ids /\ Ids' = Ids \cup {n} /\ jobs'[n] = QueuedRow(s)
                    /\ s.kind = "analyze" => request.create = "created" /\ request'.create = "submitted"
    BY <1>2
  <2>2. /\ \A j \in Ids : IsAnalysis(j)' <=> IsAnalysis(j)
        /\ \A j \in Ids : jobs'[j].status = "completed" => jobs[j].status = "completed"
        /\ \A j \in Ids : jobs'[j].checkpoint # 0 => jobs'[j].checkpoint = jobs[j].checkpoint
    BY DEF Effect, TableStep, RowStep, KeepsCheckpoint, IsAnalysis
  <2>3. /\ IsAnalysis(n)' <=> s.kind = "analyze"
        /\ jobs'[n].checkpoint = 0 /\ jobs'[n].status # "completed"
    BY <2>1 DEF QueuedRow, IsAnalysis
  <2>4. IsAnalysis(n)' => \A j \in Ids : ~IsAnalysis(j)
    BY <2>1, <2>3 DEF SoleRows
  <2>5. \A i, j \in Ids' : IsAnalysis(i)' /\ IsAnalysis(j)' => i = j
    BY <2>1, <2>2, <2>4 DEF SoleRows
  <2>6. request'.create \in {"new", "created"} => \A j \in Ids' : ~IsAnalysis(j)'
    BY <2>1, <2>2, <2>3 DEF SoleRows
  <2>7. ASSUME NEW j \in Ids', IsAnalysis(j)', jobs'[j].checkpoint # 0
        PROVE  Discovered' /\ Swept(jobs[j].checkpoint - 2)'
    <3> DEFINE c == jobs[j].checkpoint - 2
    <3>1. j \in Ids /\ IsAnalysis(j) /\ jobs'[j].checkpoint = jobs[j].checkpoint
      BY <2>1, <2>2, <2>3, <2>7
    <3>2. Discovered /\ Swept(c)
      BY <2>7, <3>1 DEF SoleRows
    <3>3. Discovered' /\ \A f \in With("discovered")' : Ordinal(f)' > c
      BY <3>2, ForwardFacts, ShrinkFacts DEF Swept
    <3> QED
      BY <3>1, <3>3 DEF Swept
  <2>8. SoleRows'
    BY <2>5, <2>6, <2>7 DEF SoleRows
  <2>9. Analysed' => Analysed
    BY <2>1, <2>2, <2>3 DEF Analysed, IsAnalysis
  <2> QED
    BY <2>8, <2>9
<1> QED
  BY <1>1, <1>2

\* A step of somebody else.  It makes a plan ready before its analysis is done only
\* when it says so.
LEMMA ClientSole ==
  ASSUME GInv, NEW w \in Workers, SInv(w), UNCHANGED <<workers, dirs>>,
         Effect({}, {}), StillRuns, Forward, Shrinks,
         request'.create \in {"new", "created"} => request.create \in {"new", "created"},
         \/ Ids' = Ids
         \/ \E n, s : /\ n \notin Ids /\ Ids' = Ids \cup {n} /\ jobs'[n] = QueuedRow(s)
                      /\ s.kind = "analyze" =>
                           request.create = "created" /\ request'.create = "submitted",
         plan' \in Closed => plan \in Closed \/ early' \/ Analysed
  PROVE  SInv(w)'
<1> DEFINE x == workers[w]
<1>1. SoleRows' /\ (Analysed' => Analysed)
  BY RowsOfClient, Zenon DEF SInv
<1>2. SoleStore'
  <2>1. plan' \in Closed \/ Analysed' => early' \/ AllAnalysed'
    BY <1>1, AnalysedKept DEF SInv, SoleStore, Forward
  <2>2. \A d \in Dirs : dirs'[d] = "completed" => Covered(d)'
    BY ForwardFacts DEF SInv, SoleStore
  <2> QED
    BY <2>1, <2>2 DEF SoleStore
<1>3. Linked(x) => /\ x.job \in Ids
                   /\ jobs[x.job].status = "running" /\ jobs[x.job].lease = x.attempt
                   /\ jobs'[x.job].status = "running" /\ jobs'[x.job].lease = x.attempt
                   /\ jobs'[x.job].checkpoint = jobs[x.job].checkpoint
                   /\ jobs'[x.job].sub = jobs[x.job].sub
  <2>1. Linked(x) => x.job \in Ids /\ jobs[x.job].status = "running" /\ jobs[x.job].lease = x.attempt
    BY DEF GInv, LinkInv, LinkOK, SInv, SoleLease
  <2> QED
    BY <2>1 DEF StillRuns, Effect, TableStep, RowStep, KeepsCheckpoint
<1>4. x.pc \notin Resting => Linked(x)
  BY DEF Resting, Linked
<1>5. SoleLease(workers[w])'
  BY <1>3, <1>4 DEF SInv, SoleLease
<1>6. x.pc \in HandlerPoints \cup {"finish", "complete"} => Linked(x) /\ (IsAnalysis(workers[w].job)' <=> IsAnalysis(x.job))
  BY <1>3 DEF Linked, HandlerPoints, IsAnalysis
<1>7. Discovering(workers[w])'
  <2>1. x.pc \in {"validate", "discover"} \cup Listing => early' \/ plan' \notin Closed
    <3> SUFFICES ASSUME x.pc \in {"validate", "discover"} \cup Listing PROVE early' \/ plan' \notin Closed
      OBVIOUS
    <3>1. x.pc \in HandlerPoints /\ x.pc # "transfer"
      BY DEF Listing, HandlerPoints
    <3>2. ~Analysed
      BY <1>3, <1>6, <3>1 DEF SInv, SoleWork, SoleRows, Analysed, IsAnalysis
    <3>3. early \/ plan \notin Closed
      BY DEF SInv, SoleWork, Discovering
    <3> QED
      BY <3>2, <3>3 DEF Forward
  <2>2. Pending' = Pending
    BY DEF Pending
  <2>3. ASSUME x.pc = "read"
        PROVE  \A p \in Children[x.local.dir] \ touched' :
                 p \in x.local.todo \/ Known(p)' \/ \E a \in x.local.batch : a.file = p
    <3>1. \A p \in Children[x.local.dir] \ touched :
            p \in x.local.todo \/ Known(p) \/ \E a \in x.local.batch : a.file = p
      BY <2>3 DEF SInv, SoleWork, Discovering
    <3> QED
      BY <3>1, ForwardFacts DEF Forward
  <2> QED
    BY <2>1, <2>2, <2>3 DEF SInv, SoleWork, Discovering
<1>8. Analysing(workers[w])'
  <2>1. x.pc \in Paging => Discovered'
    BY ForwardFacts DEF SInv, SoleWork, Analysing
  <2>2. x.pc \in {"checkPage", "save", "report"} => \A f \in With("discovered")' : Ordinal(f)' > x.local.after
    BY ShrinkFacts DEF SInv, SoleWork, Analysing, Swept
  <2>3. x.pc \in {"checkItem", "hash"} => \A g \in x.local.todo : Ordinal(g)' = Ordinal(g)
    BY ListedFacts DEF GInv, WorkInv, Shrinks, Ordinal
  <2>4. x.pc = "checkItem" => Ahead(With("discovered"), x.local)
    BY DEF SInv, SoleWork, Analysing
  <2>5. x.pc = "hash" => Ahead(With("discovered") \ {x.local.item}, x.local)
    BY DEF SInv, SoleWork, Analysing
  <2>6. x.pc = "checkItem" => Ahead(With("discovered"), workers[w].local)'
    BY <2>3, <2>4, ShrinkFacts DEF Ahead
  <2>7. x.pc = "hash" => Ahead(With("discovered") \ {workers[w].local.item}, workers[w].local)'
    BY <2>3, <2>5, ShrinkFacts DEF Ahead
  <2>8. x.pc \in {"count", "close"} => With("discovered")' = {}
    BY ShrinkFacts DEF SInv, SoleWork, Analysing
  <2> QED
    BY <2>1, <2>2, <2>6, <2>7, <2>8 DEF Analysing, Swept
<1>9. x.pc \in {"finish", "complete"} /\ IsAnalysis(workers[w].job)' => early' \/ AllAnalysed'
  BY <1>6, AnalysedKept DEF SInv, SoleWork, Forward
<1>10. x.pc \in HandlerPoints => (IsAnalysis(workers[w].job)' <=> x.pc # "transfer")
  BY <1>6 DEF SInv, SoleWork
<1>11. SoleWork(workers[w])'
  BY <1>7, <1>8, <1>9, <1>10 DEF SoleWork
<1> QED
  BY <1>1, <1>2, <1>5, <1>11 DEF SInv

LEMMA ServerSole ==
  ASSUME GInv, NEW w \in Workers, SInv(w), Server
  PROVE  SInv(w)'
<1>1. /\ UNCHANGED <<workers, dirs, touched>> /\ Effect({}, {}) /\ Listed' = Listed /\ IndInv
      /\ StoreTyped /\ ItemsInv
      /\ request \in [create : {"new", "created", "submitted", "answered"}, resolved : BOOLEAN]
  BY ServerSteps DEF Server, GInv, UserTyped
<1>2. UNCHANGED jobs => StillRuns /\ Ids' = Ids
  BY DEF StillRuns, Ids
<1>3. ASSUME NEW point \in {"created", "submitted", "answered"}, Ask(point)
      PROVE  request'.create = point
  BY <1>1, <1>3 DEF Ask
<1>4. CASE CreatePlan \/ AnswerPlan
  <2>1. /\ UNCHANGED <<jobs, items, early>> /\ plan' = "analysis-queued"
        /\ request'.create \in {"new", "created"} => request.create \in {"new", "created"}
    BY <1>3, <1>4 DEF CreatePlan, AnswerPlan, setPlanState
  <2>2. Forward /\ Shrinks /\ plan' \notin Closed
    BY <1>1, <2>1, Unmoved DEF Closed
  <2> QED
    BY <1>1, <1>2, <2>1, <2>2, ClientSole
<1>5. CASE SubmitAnalysis
  <2>1. PICK s \in Submissions : s.kind = "analyze" /\ Submit(s)
    BY <1>5 DEF SubmitAnalysis
  <2>2. /\ UNCHANGED <<plan, items, early>>
        /\ request.create = "created" /\ request'.create = "submitted"
    BY <1>3, <1>5 DEF SubmitAnalysis
  <2>3. Forward /\ Shrinks
    BY <1>1, <2>2, Unmoved
  <2>4. StillRuns /\ \E n : n \notin Ids /\ Ids' = Ids \cup {n} /\ jobs'[n] = QueuedRow(s)
    BY <1>1, <2>1, SubmitRows
  <2> QED
    BY <1>1, <2>2, <2>3, <2>4, ClientSole
<1>6. CASE Settle
  <2>1. /\ UNCHANGED <<jobs, items>> /\ request'.create = request.create
        /\ early => early'
        /\ plan' \in Closed => plan \in Closed \/ early' \/ Analysed
    <3>1. /\ request' = [request EXCEPT !.resolved = FALSE] /\ UNCHANGED <<jobs, items>>
          /\ early' = (early \/ (With("needs-review") = {} /\ ~Analysed))
          /\ With("needs-review") # {} => UNCHANGED plan
      BY <1>6 DEF Settle
    <3>2. request'.create = request.create
      BY <1>1, <3>1
    <3> QED
      BY <3>1, <3>2
  <2>2. Forward /\ Shrinks
    BY <1>1, <2>1 DEF Forward, Shrinks, With
  <2> QED
    BY <1>1, <1>2, <2>1, <2>2, ClientSole
<1>7. CASE Approve
  <2>1. plan \in Closed /\ UNCHANGED <<items, request, early>>
    BY <1>7 DEF Approve, Closed
  <2>2. Forward /\ Shrinks
    BY <1>1, <2>1, Unmoved
  <2>3. CASE UNCHANGED jobs
    BY <1>1, <1>2, <2>1, <2>2, <2>3, ClientSole
  <2>4. CASE \E s \in Submissions : s.kind = "transfer" /\ Submit(s)
    <3>1. PICK s \in Submissions : s.kind = "transfer" /\ Submit(s)
      BY <2>4
    <3>2. StillRuns /\ \E n : n \notin Ids /\ Ids' = Ids \cup {n} /\ jobs'[n] = QueuedRow(s)
      BY <1>1, <3>1, SubmitRows
    <3>3. s.kind # "analyze"
      BY <3>1
    <3> QED
      BY <1>1, <2>1, <2>2, <3>2, <3>3, ClientSole
  <2> QED
    BY <1>7, <2>3, <2>4 DEF Approve
<1>8. ASSUME NEW f \in Files, Resolve(f) PROVE SInv(w)'
  <2>1. /\ items[f].status = "needs-review" /\ setItemState(f, "ready")
        /\ request'.create = request.create /\ UNCHANGED <<jobs, plan, early>>
    BY <1>1, <1>8 DEF Resolve
  <2>2. items' = [items EXCEPT ![f].status = "ready"] /\ items \in [Files -> Item]
    BY <1>1, <2>1 DEF setItemState, StoreTyped
  <2>3. \A g \in Files : /\ items'[g].ordinal = items[g].ordinal
                         /\ items'[g].status = "discovered" => items[g].status = "discovered"
    BY <2>2 DEF Item
  <2>4. Forward /\ Shrinks
    BY <1>1, <2>1, <2>3 DEF Forward, Shrinks, With
  <2> QED
    BY <1>1, <1>2, <2>1, <2>4, ClientSole
<1> QED
  BY <1>4, <1>5, <1>6, <1>7, <1>8 DEF Server

LEMMA UserSole ==
  ASSUME GInv, NEW w \in Workers, SInv(w), User
  PROVE  SInv(w)'
<1>1. UNCHANGED <<jobs, workers, db, request, early>> /\ touched \subseteq touched'
  BY UserSteps
<1>2. Forward /\ Shrinks /\ StillRuns /\ Ids' = Ids /\ UNCHANGED <<plan, dirs>>
  BY <1>1 DEF db, Forward, Shrinks, Listed, With, StillRuns, Ids
<1> QED
  BY <1>1, <1>2, QuietEffect, ClientSole

LEMMA QueueSole ==
  ASSUME GInv, NEW w \in Workers, SInv(w), UNCHANGED <<workers, crashes, db, user>>,
         Tick \/ (\E j \in Ids : RequestPause(j) \/ Resume(j) \/ Cancel(j))
  PROVE  SInv(w)'
<1>1. Effect({}, {}) /\ StillRuns /\ Ids' = Ids
  BY QueueSteps, ControlRows DEF GInv
<1>2. Forward /\ Shrinks /\ UNCHANGED <<plan, dirs, request>>
  BY Unmoved DEF db, user
<1> QED
  BY <1>1, <1>2, ClientSole

-----------------------------------------------------------------------------
(* One worker: the invariant is inductive.                                 *)

LEMMA SInvInit == ASSUME NEW w \in Workers PROVE GInit => SInv(w)
<1> SUFFICES ASSUME GInit PROVE SInv(w)
  OBVIOUS
<1>1. Ids = {}
  BY EmptySeq DEF GInit, ProcessInit, Init, Ids
<1>2. workers[w].pc = "recover"
  BY DEF GInit, ProcessInit, Idle, Fresh
<1>3. plan \notin Closed /\ \A d \in Dirs : dirs[d] = "none"
  BY DEF GInit, Closed
<1>4. SoleRows /\ SoleStore
  BY <1>1, <1>3 DEF SoleRows, SoleStore, Analysed
<1>5. SoleLease(workers[w])
  BY <1>2 DEF SoleLease, Linked, Resting
<1>6. SoleWork(workers[w])
  BY <1>2 DEF SoleWork, HandlerPoints, Discovering, Analysing, Listing, Paging
<1> QED
  BY <1>4, <1>5, <1>6 DEF SInv

LEMMA WorkerSole ==
  ASSUME GInv, NEW w \in Workers, SInv(w), WorkerMoves(w), UNCHANGED user
  PROVE  SInv(w)'
BY LoadSole, StartSole, ValidateSole, DiscoverSole, ClaimSole, ReadEntrySole, FlushSole,
   CompleteDirectorySole, RecordSole, ReadPageSole, TakeItemSole, AnalyzeSole, EndingSole,
   TransferSole, ProcessSole
   DEF WorkerMoves

LEMMA SInvNext ==
  ASSUME NEW w \in Workers, Workers = {w}, GInv, SInv(w), [GNext]_vars
  PROVE  SInv(w)'
<1>1. CASE UNCHANGED vars
  <2>1. Forward /\ Shrinks /\ StillRuns /\ Ids' = Ids /\ UNCHANGED <<jobs, workers, plan, dirs, request>>
    BY <1>1 DEF vars, db, user, Forward, Shrinks, Listed, With, StillRuns, Ids
  <2> QED
    BY <2>1, QuietEffect, ClientSole
<1>2. CASE GNext
  BY <1>2, ServerSole, UserSole, QueueSole, WorkerSole, CrashSole DEF GNext, Control
<1> QED
  BY <1>1, <1>2

\* With one worker, an analysis that has completed has an item for every file that the user
\* has left alone, and has looked at all, however often it was interrupted; a review that
\* settles the plan while it is analysed is the exception that `early` records.
THEOREM CompletedAnalysesComplete ==
  ASSUME NEW x, Workers = {x} PROVE GSpec => []CompletedAnalysisIsComplete
<1> DEFINE Whole == GInv /\ SInv(x)
<1>1. GInit => Whole
  BY GInvInit, SInvInit
<1>2. Whole /\ [GNext]_vars => Whole'
  BY GInvNext, SInvNext
<1>3. Whole => CompletedAnalysisIsComplete
  BY DEF SInv, SoleStore, AllAnalysed, Discovered, CompletedAnalysisIsComplete
<1> HIDE DEF Whole
<1> QED
  BY <1>1, <1>2, <1>3, PTL DEF GSpec

=============================================================================
