------------------------------ MODULE ScanProofs ------------------------------
(***************************************************************************)
(* Theorems about the inventory scan and the planner on its records, for   *)
(* any tree, batch size, page size, options, workers, crashes, and         *)
(* whatever the user does to the files, the reviews and the approval.      *)
(*                                                                         *)
(* The catalog asks no lease, so several workers may read the same tree.   *)
(* The argument is that what a worker has read of a directory is either    *)
(* recorded or in its hands, and records and directories that were found   *)
(* are never removed; only who may still be reading when the scan is said  *)
(* to be complete takes that there is one worker.                          *)
(***************************************************************************)
EXTENDS OrganizationPlan, JobQueueProofs

FrontierRow == [path : Dirs, state : RowStates]
Seen(p) == [path |-> p, status |-> "observed"]

\* Everything in a directory that the user has left alone is recorded, and is to be
\* read itself.
Covered(d) ==
  \A p \in Children[d] \ touched : Seen(p) \in scan.records /\ (p \in Dirs => p \in Known)

WorkersTyped == workers \in [Workers -> Worker(HandlerPoints, Locals)]

StoreTyped ==
  /\ scan \in [status : ScanStatuses, records : SUBSET Records,
               frontier : Seq(FrontierRow), counts : Counts]
  /\ IsFiniteSet(scan.records)

CoveredRows == \A i \in Rows("completed") : Covered(Frontier[i].path)

StoreInv ==
  /\ StoreTyped /\ CountsMatchTheRecords
  /\ IF scan.status = "none" THEN scan.records = {} /\ Frontier = <<>> ELSE Root \in Known
  /\ CoveredRows

\* What was on the disk at the beginning is there, where it was left alone.
DiskInv ==
  /\ DOMAIN disk = Paths /\ touched \subseteq Paths /\ Closed(touched)
  /\ approval = "away" => touched = Paths
  /\ \A p \in Paths \ touched : disk[p] = IF p \in Dirs THEN "directory" ELSE "file"

BatchInv(l) == IsFiniteSet(l.batch) /\ l.found \subseteq {r.path : r \in l.batch}

\* Of a directory, a worker has still to read, has in its hands, or has recorded
\* whatever was left alone.
Reads(l) ==
  \A p \in Children[l.dir] \ touched :
    \/ p \in l.todo
    \/ Seen(p) \in scan.records \cup l.batch /\ (p \in Dirs => p \in Known \cup l.found)

ReadInv(x) ==
  x.pc \in HandlerPoints =>
    /\ BatchInv(x.local)
    /\ x.pc # "start" => scan.status # "none"
    /\ x.pc \in {"start", "resume", "next"} => x.local.dir = NoDir
    /\ x.pc \in {"open", "read", "issue", "finishDir"} => x.local.dir \in Dirs
    /\ x.pc \in {"read", "check", "save", "report"} /\ x.local.dir \in Dirs => Reads(x.local)
    /\ x.pc \in {"issue", "finishDir"} => Children[x.local.dir] \subseteq touched

\* Where a worker may come to write another batch.
Reaching == {"next", "open", "read", "issue"}

LateInv ==
  /\ late \subseteq Workers
  /\ approval # "revoked" => late = {}
  /\ \A w \in late : workers[w].pc \notin Reaching

SInv ==
  /\ IndInv /\ LinkInv /\ WorkersTyped /\ StoreInv /\ DiskInv /\ LateInv
  /\ \A w \in Workers : ReadInv(workers[w])

-----------------------------------------------------------------------------
(* Sets and sequences.                                                     *)

LEMMA DisjointUnion ==
  ASSUME NEW S, NEW T, IsFiniteSet(S), IsFiniteSet(T), S \cap T = {}
  PROVE  IsFiniteSet(S \cup T) /\ Cardinality(S \cup T) = Cardinality(S) + Cardinality(T)
<1>1. Cardinality(S \cap T) = 0 /\ Cardinality(S) \in Nat /\ Cardinality(T) \in Nat
  BY FS_EmptySet, FS_CardinalityType
<1>2. /\ IsFiniteSet(S \cup T)
      /\ Cardinality(S \cup T) = Cardinality(S) + Cardinality(T) - Cardinality(S \cap T)
  BY FS_Union
<1> QED
  BY <1>1, <1>2

\* A permutation of a finite set has all of its elements.
LEMMA OrderedSet ==
  ASSUME NEW S, IsFiniteSet(S), NEW order \in SetToSeqs(S)
  PROVE  order \in Seq(S) /\ {order[i] : i \in DOMAIN order} = S
<1> DEFINE D == 1 .. Cardinality(S)
<1>1. Cardinality(S) \in Nat
  BY FS_CardinalityType
<1>2. order \in [D -> S] /\ \A i, k \in D : i # k => order[i] # order[k]
  BY DEF SetToSeqs
<1>3. order \in Injection(D, S)
  BY <1>2 DEF Injection, IsInjective
<1>4. IsFiniteSet(D) /\ Cardinality(D) = Cardinality(S)
  <2>1. 1 \in Int /\ Cardinality(S) \in Int
    BY <1>1
  <2>2. IsFiniteSet(D) /\ Cardinality(D) = IF 1 > Cardinality(S) THEN 0 ELSE Cardinality(S) - 1 + 1
    BY <2>1, FS_Interval
  <2> QED
    BY <1>1, <2>2
<1>5. order \in Surjection(D, S)
  BY <1>3, <1>4, FS_Injection
<1> HIDE DEF D
<1>6. {order[i] : i \in DOMAIN order} = S
  BY <1>2, <1>5 DEF Surjection
<1>7. order \in Seq(S)
  BY <1>1, <1>2, SeqDef DEF D
<1> QED
  BY <1>6, <1>7

LEMMA SameLength ==
  ASSUME NEW T, NEW f \in Seq(T), NEW R, NEW g \in [DOMAIN f -> R]
  PROVE  g \in Seq(R) /\ DOMAIN g = DOMAIN f
<1>1. Len(f) \in Nat /\ DOMAIN f = 1 .. Len(f)
  BY LenProperties
<1> QED
  BY <1>1, SeqDef

LEMMA RowsAreFinite ==
  ASSUME StoreTyped, NEW S, S \subseteq DOMAIN Frontier
  PROVE  IsFiniteSet(S)
<1>1. Len(Frontier) \in Nat /\ DOMAIN Frontier = 1 .. Len(Frontier)
  BY LenProperties DEF StoreTyped
<1>2. IsFiniteSet(1 .. Len(Frontier))
  BY <1>1, FS_Interval
<1> QED
  BY <1>1, <1>2, FS_Subset

-----------------------------------------------------------------------------
(* What the scan's tables become.                                          *)

\* Records and directories that were found stay.
Grows ==
  /\ scan.records \subseteq scan'.records /\ Known \subseteq Known'
  /\ scan.status # "none" => scan'.status # "none"

\* The counts, one by one.
FileRecords == {r \in With("observed") : r.path \notin Dirs}
Counted ==
  LET c == scan.counts
  IN /\ c.records = Cardinality(scan.records) /\ c.files = Cardinality(FileRecords)
     /\ c.skipped = Cardinality(With("skipped")) /\ c.errors = Cardinality(With("error"))
     /\ c.visited = Cardinality(Rows("completed"))

LEMMA CountFields ==
  /\ StoreTyped => (CountsMatchTheRecords <=> Counted)
  /\ StoreTyped' => (CountsMatchTheRecords' <=> Counted')
<1>1. ASSUME NEW c \in Counts
      PROVE  c = [records |-> c.records, files |-> c.files, skipped |-> c.skipped,
                  errors |-> c.errors, visited |-> c.visited]
  BY DEF Counts
<1>2. StoreTyped => (CountsMatchTheRecords <=> Counted)
  BY <1>1 DEF StoreTyped, CountsMatchTheRecords, Counted, FileRecords
<1>3. StoreTyped' => (CountsMatchTheRecords' <=> Counted')
  BY <1>1 DEF StoreTyped, CountsMatchTheRecords, Counted, FileRecords
<1> QED
  BY <1>2, <1>3

\* Of a step that leaves the records alone and writes states of rows.
LEMMA RowsWritten ==
  ASSUME StoreInv, NEW f \in [DOMAIN Frontier -> FrontierRow],
         \A i \in DOMAIN Frontier : f[i].path = Frontier[i].path,
         scan'.frontier = f, scan'.records = scan.records, touched' = touched,
         scan'.status \in ScanStatuses \ {"none"}, scan.status # "none"
  PROVE  /\ f \in Seq(FrontierRow) /\ DOMAIN f = DOMAIN Frontier
         /\ Grows /\ Known' = Known /\ Root \in Known'
         /\ \A d \in Dirs : Covered(d) => Covered(d)'
<1>1. f \in Seq(FrontierRow) /\ DOMAIN f = DOMAIN Frontier
  BY SameLength DEF StoreInv, StoreTyped, Frontier
<1>2. Known' = Known
  BY <1>1 DEF Known, Frontier
<1>3. \A d \in Dirs : Covered(d) => Covered(d)'
  BY <1>2 DEF Covered
<1> QED
  BY <1>1, <1>2, <1>3 DEF Grows, StoreInv

LEMMA RowsStayCovered ==
  ASSUME CoveredRows, DOMAIN Frontier' = DOMAIN Frontier,
         \A i \in DOMAIN Frontier : Frontier[i] \in FrontierRow /\ Frontier'[i].path = Frontier[i].path,
         Rows("completed")' = Rows("completed"),
         \A d \in Dirs : Covered(d) => Covered(d)'
  PROVE  CoveredRows'
<1> SUFFICES ASSUME NEW i \in Rows("completed") PROVE Covered(Frontier[i].path)'
  BY DEF CoveredRows
<1>1. /\ i \in DOMAIN Frontier /\ Frontier[i].path \in Dirs
      /\ Frontier'[i].path = Frontier[i].path /\ Covered(Frontier[i].path)
  BY DEF CoveredRows, Rows, FrontierRow
<1> QED
  BY <1>1

\* Counts speak of records and of completed rows only.
LEMMA SameCounts ==
  ASSUME CountsMatchTheRecords, scan'.counts = scan.counts, scan'.records = scan.records,
         Cardinality(Rows("completed"))' = Cardinality(Rows("completed"))
  PROVE  CountsMatchTheRecords'
BY DEF CountsMatchTheRecords, With

LEMMA SameScan ==
  ASSUME StoreInv, UNCHANGED <<scan, touched>>
  PROVE  StoreInv' /\ Grows
<1>1. StoreTyped' /\ CountsMatchTheRecords' /\ Frontier' = Frontier /\ Known' = Known
  BY DEF StoreInv, StoreTyped, CountsMatchTheRecords, With, Rows, Frontier, Known
<1>2. \A s \in RowStates : Rows(s)' = Rows(s)
  BY <1>1 DEF Rows
<1> QED
  BY <1>1, <1>2 DEF StoreInv, CoveredRows, Covered, Grows, RowStates

LEMMA StatusWritten ==
  ASSUME StoreInv, scan.status # "none", touched' = touched,
         NEW status \in ScanStatuses \ {"none"}, setScanStatus(status)
  PROVE  StoreInv' /\ Grows
<1>1. /\ scan' \in [status : ScanStatuses, records : SUBSET Records,
                    frontier : Seq(FrontierRow), counts : Counts]
      /\ scan'.status = status /\ scan'.records = scan.records
      /\ scan'.frontier = scan.frontier /\ scan'.counts = scan.counts
  BY DEF setScanStatus, StoreInv, StoreTyped
<1>2. Frontier' = Frontier /\ Known' = Known /\ \A s \in RowStates : Rows(s)' = Rows(s)
  BY <1>1 DEF Frontier, Known, Rows
<1>3. CountsMatchTheRecords'
  BY <1>1, <1>2, SameCounts DEF StoreInv, RowStates
<1> QED
  BY <1>1, <1>2, <1>3 DEF StoreInv, StoreTyped, CoveredRows, Covered, Grows, RowStates

LEMMA NoScanType ==
  /\ NoScan \in [status : ScanStatuses, records : SUBSET Records,
                 frontier : Seq(FrontierRow), counts : Counts]
  /\ NoScan.status = "none" /\ NoScan.records = {} /\ NoScan.frontier = <<>>
  /\ NoScan.counts = [records |-> 0, files |-> 0, skipped |-> 0, errors |-> 0, visited |-> 0]
<1>1. <<>> \in Seq(FrontierRow)
  BY EmptySeq
<1> QED
  BY <1>1 DEF NoScan, ScanStatuses, Counts

\* A scan without records in which no row is completed.
LEMMA EmptyCounts ==
  /\ scan.records = {} /\ scan.counts = NoScan.counts /\ Rows("completed") = {}
  => CountsMatchTheRecords
<1> SUFFICES ASSUME scan.records = {}, scan.counts = NoScan.counts, Rows("completed") = {}
             PROVE  CountsMatchTheRecords
  OBVIOUS
<1>1. With("observed") = {} /\ With("skipped") = {} /\ With("error") = {}
  BY DEF With
<1>2. Cardinality({}) = 0
  BY FS_EmptySet
<1> QED
  BY <1>1, <1>2, NoScanType DEF CountsMatchTheRecords

\* The root is the first directory of the frontier.
LEMMA ScanStarted ==
  ASSUME StoreInv, UNCHANGED touched, startOrLoadScan
  PROVE  StoreInv' /\ Grows /\ scan'.status # "none"
<1>1. CASE scan.status # "none"
  <2>1. UNCHANGED scan
    BY <1>1 DEF startOrLoadScan
  <2> QED
    BY <1>1, <2>1, SameScan
<1>2. CASE scan.status = "none"
  <2> DEFINE row == [path |-> Root, state |-> "pending"]
             m == [NoScan EXCEPT !.status = "running"]
             n == [m EXCEPT !.frontier = <<row>>]
  <2>1. scan' = n
    BY <1>2 DEF startOrLoadScan
  <2>2. row \in FrontierRow
    BY ScanAssumption DEF FrontierRow, RowStates
  <2>3. <<row>> \in Seq(FrontierRow) /\ DOMAIN <<row>> = {1} /\ <<row>>[1] = row
    BY <2>2
  <2>4. /\ m \in [status : ScanStatuses, records : SUBSET Records,
                  frontier : Seq(FrontierRow), counts : Counts]
        /\ m.status = "running" /\ m.records = {} /\ m.counts = NoScan.counts
    BY NoScanType DEF ScanStatuses
  <2> HIDE DEF m, row
  <2>5. /\ n \in [status : ScanStatuses, records : SUBSET Records,
                  frontier : Seq(FrontierRow), counts : Counts]
        /\ n.status = "running" /\ n.records = {} /\ n.counts = NoScan.counts
        /\ n.frontier = <<row>>
    BY <2>3, <2>4
  <2> HIDE DEF n
  <2>6. StoreTyped'
    BY <2>1, <2>5, FS_EmptySet DEF StoreTyped
  <2>7. Frontier' = <<row>> /\ Known' = {Root} /\ Rows("completed")' = {}
    BY <2>1, <2>3, <2>5 DEF Frontier, Known, Rows, row
  <2>8. CountsMatchTheRecords'
    <3>1. With("observed")' = {} /\ With("skipped")' = {} /\ With("error")' = {}
      BY <2>1, <2>5 DEF With
    <3> QED
      BY <2>1, <2>5, <2>7, <3>1, FS_EmptySet, NoScanType DEF CountsMatchTheRecords
  <2>9. scan.records = {} /\ Known = {}
    BY <1>2 DEF StoreInv, Known
  <2> QED
    BY <1>2, <2>1, <2>5, <2>6, <2>7, <2>8, <2>9 DEF StoreInv, CoveredRows, Grows
<1> QED
  BY <1>1, <1>2

\* A resumed scan gives back the directories that somebody was reading.
LEMMA ScanResumed ==
  ASSUME StoreInv, UNCHANGED touched, scan.status # "none", resumeScan
  PROVE  StoreInv' /\ Grows
<1>1. CASE scan.status \in {"completed", "cancelled"}
  BY <1>1, SameScan DEF resumeScan
<1>2. CASE scan.status \notin {"completed", "cancelled"}
  <2> DEFINE f == [i \in DOMAIN Frontier |-> IF Frontier[i].state = "processing"
                                             THEN [Frontier[i] EXCEPT !.state = "pending"]
                                             ELSE Frontier[i]]
             m == [scan EXCEPT !.status = "running"]
             n == [m EXCEPT !.frontier = f]
  <2>1. scan' = n
    BY <1>2 DEF resumeScan, Frontier
  <2>2. Frontier \in Seq(FrontierRow) /\ scan.frontier = Frontier
    BY DEF StoreInv, StoreTyped, Frontier
  <2>3. \A i \in DOMAIN Frontier : Frontier[i] \in FrontierRow
    BY <2>2
  <2>4. ASSUME NEW i \in DOMAIN Frontier
        PROVE  /\ f[i] \in FrontierRow /\ f[i].path = Frontier[i].path
               /\ f[i].state = "completed" <=> Frontier[i].state = "completed"
    BY <2>3, <2>4 DEF FrontierRow, RowStates
  <2>5. f \in [DOMAIN Frontier -> FrontierRow]
    BY <2>4
  <2> HIDE DEF f
  <2>6. f \in Seq(FrontierRow)
    BY <2>2, <2>5, SameLength
  <2>7. /\ n \in [status : ScanStatuses, records : SUBSET Records,
                  frontier : Seq(FrontierRow), counts : Counts]
        /\ n.status = "running" /\ n.records = scan.records /\ n.counts = scan.counts
        /\ n.frontier = f
    BY <2>6 DEF StoreInv, StoreTyped, ScanStatuses
  <2> HIDE DEF n
  <2>8. /\ Grows /\ Known' = Known /\ Root \in Known' /\ DOMAIN f = DOMAIN Frontier
        /\ \A d \in Dirs : Covered(d) => Covered(d)'
    BY <2>1, <2>4, <2>5, <2>7, RowsWritten DEF ScanStatuses
  <2>9. Frontier' = f /\ Rows("completed")' = Rows("completed")
    BY <2>1, <2>4, <2>7, <2>8 DEF Frontier, Rows
  <2>10. CountsMatchTheRecords'
    BY <2>1, <2>7, <2>9, SameCounts DEF StoreInv
  <2>11. CoveredRows'
    BY <2>3, <2>4, <2>8, <2>9, RowsStayCovered DEF StoreInv
  <2> QED
    BY <2>1, <2>7, <2>8, <2>10, <2>11 DEF StoreInv, StoreTyped
<1> QED
  BY <1>1, <1>2

\* The first of the directories that nobody reads.
LEMMA FirstIsPending ==
  ASSUME StoreTyped, Rows("pending") # {}
  PROVE  FirstPending \in Rows("pending") /\ Frontier[FirstPending].path \in Dirs
<1>1. Frontier \in Seq(FrontierRow) /\ DOMAIN Frontier = 1 .. Len(Frontier) /\ Len(Frontier) \in Nat
  BY LenProperties DEF StoreTyped, Frontier
<1>2. Rows("pending") \in SUBSET Nat
  BY <1>1 DEF Rows
<1>3. FirstPending \in Rows("pending")
  BY <1>2, LeastElement DEF FirstPending
<1>4. Frontier[FirstPending] \in FrontierRow
  BY <1>1, <1>3 DEF Rows
<1> QED
  BY <1>3, <1>4 DEF FrontierRow

LEMMA DirectoryClaimed ==
  ASSUME StoreInv, UNCHANGED touched, scan.status # "none", Rows("pending") # {},
         claimNextDirectory
  PROVE  StoreInv' /\ Grows /\ scan'.records = scan.records
<1> DEFINE k == FirstPending
           row == [Frontier[k] EXCEPT !.state = "processing"]
           f == [Frontier EXCEPT ![k] = row]
<1>1. k \in DOMAIN Frontier /\ Frontier[k].state = "pending"
  BY FirstIsPending DEF Rows, StoreInv
<1>2. Frontier \in Seq(FrontierRow) /\ scan.frontier = Frontier
  BY DEF StoreInv, StoreTyped, Frontier
<1>3. scan' = [scan EXCEPT !.frontier = f]
  BY <1>2 DEF claimNextDirectory
<1>4. \A i \in DOMAIN Frontier : Frontier[i] \in FrontierRow
  BY <1>2
<1> HIDE DEF k
<1>5. row \in FrontierRow /\ row.path = Frontier[k].path /\ row.state = "processing"
  BY <1>1, <1>4 DEF FrontierRow, RowStates
<1> HIDE DEF row
<1>6. /\ f \in [DOMAIN Frontier -> FrontierRow]
      /\ \A i \in DOMAIN Frontier : /\ f[i].path = Frontier[i].path
                                    /\ f[i].state = "completed" <=> Frontier[i].state = "completed"
  BY <1>1, <1>2, <1>4, <1>5
<1> HIDE DEF f
<1>7. f \in Seq(FrontierRow)
  BY <1>2, <1>6, SameLength
<1>8. /\ scan' \in [status : ScanStatuses, records : SUBSET Records,
                    frontier : Seq(FrontierRow), counts : Counts]
      /\ scan'.status = scan.status /\ scan'.records = scan.records /\ scan'.counts = scan.counts
      /\ scan'.frontier = f
  BY <1>3, <1>7 DEF StoreInv, StoreTyped
<1>9. scan.status \in ScanStatuses
  BY DEF StoreInv, StoreTyped
<1>10. /\ Grows /\ Known' = Known /\ Root \in Known' /\ DOMAIN f = DOMAIN Frontier
       /\ \A d \in Dirs : Covered(d) => Covered(d)'
  BY <1>6, <1>8, <1>9, RowsWritten
<1>11. Frontier' = f /\ Rows("completed")' = Rows("completed")
  BY <1>6, <1>8, <1>10 DEF Frontier, Rows
<1>12. CountsMatchTheRecords'
  BY <1>8, <1>11, SameCounts DEF StoreInv
<1>13. CoveredRows'
  BY <1>4, <1>6, <1>10, <1>11, RowsStayCovered DEF StoreInv
<1> QED
  BY <1>8, <1>10, <1>12, <1>13 DEF StoreInv, StoreTyped

\* A directory whose entries are recorded or were touched is done with.
LEMMA DirectoryCompleted ==
  ASSUME StoreInv, UNCHANGED touched, scan.status # "none", NEW d \in Dirs, Covered(d),
         completeDirectory(d)
  PROVE  StoreInv' /\ Grows
<1> DEFINE rows == {i \in Rows("processing") : Frontier[i].path = d}
           f == [i \in DOMAIN Frontier |-> IF i \in rows
                                           THEN [Frontier[i] EXCEPT !.state = "completed"]
                                           ELSE Frontier[i]]
           c == [scan.counts EXCEPT !.visited = @ + Cardinality(rows)]
<1>1. /\ Frontier \in Seq(FrontierRow) /\ scan.frontier = Frontier /\ scan.counts \in Counts
      /\ rows \subseteq DOMAIN Frontier /\ Rows("completed") \subseteq DOMAIN Frontier
      /\ rows \cap Rows("completed") = {}
  BY DEF StoreInv, StoreTyped, Frontier, Rows
<1>2. \A i \in DOMAIN Frontier : Frontier[i] \in FrontierRow
  BY <1>1
<1>3. /\ IsFiniteSet(rows) /\ IsFiniteSet(Rows("completed"))
      /\ Cardinality(rows) \in Nat
  BY <1>1, RowsAreFinite, FS_CardinalityType DEF StoreInv
<1>4. scan' = [scan EXCEPT !.frontier = f, !.counts = c]
  BY DEF completeDirectory, Frontier
<1>5. ASSUME NEW i \in DOMAIN Frontier
      PROVE  /\ f[i] \in FrontierRow /\ f[i].path = Frontier[i].path
             /\ f[i].state = "completed" <=> i \in rows \cup Rows("completed")
  <2>1. Frontier[i].state = "completed" <=> i \in Rows("completed")
    BY DEF Rows
  <2> HIDE DEF rows
  <2> QED
    BY <1>2, <2>1 DEF FrontierRow, RowStates
<1>6. \A i \in rows : Frontier[i].path = d
  OBVIOUS
<1> HIDE DEF rows
<1>7. f \in [DOMAIN Frontier -> FrontierRow]
  BY <1>5
<1> HIDE DEF f
<1>8. f \in Seq(FrontierRow)
  BY <1>1, <1>7, SameLength
<1>9. /\ c \in Counts /\ c.records = scan.counts.records /\ c.files = scan.counts.files
      /\ c.skipped = scan.counts.skipped /\ c.errors = scan.counts.errors
      /\ c.visited = scan.counts.visited + Cardinality(rows)
  BY <1>1, <1>3 DEF Counts
<1> HIDE DEF c
<1>10. /\ scan' \in [status : ScanStatuses, records : SUBSET Records,
                    frontier : Seq(FrontierRow), counts : Counts]
       /\ scan'.status = scan.status /\ scan'.records = scan.records /\ scan'.counts = c
       /\ scan'.frontier = f
  BY <1>4, <1>8, <1>9 DEF StoreInv, StoreTyped
<1>11. scan.status \in ScanStatuses
  BY DEF StoreInv, StoreTyped
<1>12. /\ Grows /\ Known' = Known /\ Root \in Known' /\ DOMAIN f = DOMAIN Frontier
       /\ \A e \in Dirs : Covered(e) => Covered(e)'
  BY <1>5, <1>7, <1>10, <1>11, RowsWritten
<1>13. Frontier' = f /\ Rows("completed")' = rows \cup Rows("completed")
  BY <1>1, <1>5, <1>10, <1>12 DEF Frontier, Rows
<1>14. CountsMatchTheRecords'
  <2>1. Cardinality(Rows("completed")') = Cardinality(rows) + Cardinality(Rows("completed"))
    BY <1>1, <1>3, <1>13, DisjointUnion
  <2>2. /\ FileRecords' = FileRecords /\ With("skipped")' = With("skipped")
        /\ With("error")' = With("error")
    BY <1>10 DEF FileRecords, With
  <2>3. Counted /\ Cardinality(Rows("completed")) \in Nat
    BY <1>3, CountFields, FS_CardinalityType DEF StoreInv
  <2>4. c.visited = Cardinality(Rows("completed")')
    BY <1>3, <1>9, <2>1, <2>3 DEF Counted
  <2>5. Counted' /\ StoreTyped'
    BY <1>9, <1>10, <2>2, <2>3, <2>4 DEF Counted, StoreInv, StoreTyped
  <2> QED
    BY <2>5, CountFields
<1>15. CoveredRows'
  <2> SUFFICES ASSUME NEW i \in Rows("completed")' PROVE Covered(Frontier[i].path)'
    BY DEF CoveredRows
  <2>1. i \in DOMAIN Frontier /\ Frontier[i].path \in Dirs /\ Frontier'[i].path = Frontier[i].path
    BY <1>1, <1>2, <1>5, <1>13 DEF FrontierRow
  <2>2. CASE i \in rows
    BY <1>6, <1>12, <2>1, <2>2
  <2>3. CASE i \in Rows("completed")
    BY <1>12, <2>1, <2>3 DEF StoreInv, CoveredRows
  <2> QED
    BY <1>13, <2>2, <2>3
<1> QED
  BY <1>10, <1>12, <1>14, <1>15 DEF StoreInv, StoreTyped

\* New directories go behind the others, and nobody reads them yet.
LEMMA FrontierGrows ==
  ASSUME NEW f \in Seq(FrontierRow), NEW order \in Seq(Dirs)
  PROVE  LET g == [i \in DOMAIN order |-> [path |-> order[i], state |-> "pending"]]
             n == f \o g
         IN /\ n \in Seq(FrontierRow)
            /\ DOMAIN f \subseteq DOMAIN n /\ \A i \in DOMAIN f : n[i] = f[i]
            /\ \A i \in DOMAIN n \ DOMAIN f : n[i].state = "pending"
            /\ {n[i].path : i \in DOMAIN n}
                 = {f[i].path : i \in DOMAIN f} \cup {order[i] : i \in DOMAIN order}
<1> DEFINE g == [i \in DOMAIN order |-> [path |-> order[i], state |-> "pending"]]
           n == f \o g
           k == Len(f)
           m == Len(order)
<1>1. /\ k \in Nat /\ m \in Nat /\ DOMAIN f = 1 .. k /\ DOMAIN order = 1 .. m
  BY LenProperties
<1>2. ASSUME NEW i \in 1 .. m
      PROVE  g[i] \in FrontierRow /\ g[i].path = order[i] /\ g[i].state = "pending"
  <2>1. order[i] \in Dirs
    BY <1>1
  <2> QED
    BY <1>1, <2>1 DEF FrontierRow, RowStates
<1>3. DOMAIN g = 1 .. m
  BY <1>1
<1> HIDE DEF g
<1>4. g \in Seq(FrontierRow) /\ Len(g) = m
  <2>1. g \in [DOMAIN order -> FrontierRow]
    <3>1. g = [i \in DOMAIN order |-> g[i]]
      BY DEF g
    <3> QED
      BY <1>1, <1>2, <3>1
  <2>2. g \in Seq(FrontierRow)
    BY <2>1, SameLength
  <2> QED
    BY <1>1, <1>3, <2>2, LenProperties
<1>5. /\ n \in Seq(FrontierRow) /\ Len(n) = k + m /\ DOMAIN n = 1 .. k + m
      /\ \A i \in 1 .. k + m : n[i] = IF i <= k THEN f[i] ELSE g[i - k]
  <2>1. /\ n \in Seq(FrontierRow) /\ Len(n) = Len(f) + Len(g)
        /\ \A i \in 1 .. Len(f) + Len(g) : n[i] = IF i <= Len(f) THEN f[i] ELSE g[i - Len(f)]
    BY <1>4, ConcatProperties, Zenon
  <2> HIDE DEF n
  <2>2. DOMAIN n = 1 .. Len(n)
    BY <2>1, LenProperties
  <2> QED
    BY <1>4, <2>1, <2>2
<1> HIDE DEF n
<1>6. \A i \in 1 .. k : i \in 1 .. k + m /\ n[i] = f[i]
  BY <1>1, <1>5
<1>7. ASSUME NEW i \in 1 .. m PROVE k + i \in 1 .. k + m /\ n[k + i] = g[i]
  <2>1. k + i \in 1 .. k + m /\ ~(k + i <= k) /\ (k + i) - k = i
    BY <1>1
  <2>2. n[k + i] = g[(k + i) - k]
    BY <1>5, <2>1
  <2> QED
    BY <2>1, <2>2
<1>8. \A i \in (1 .. k + m) \ (1 .. k) : i - k \in 1 .. m /\ n[i] = g[i - k]
  BY <1>1, <1>5
<1>9. {n[i].path : i \in DOMAIN n}
        = {f[i].path : i \in DOMAIN f} \cup {order[i] : i \in DOMAIN order}
  <2>1. ASSUME NEW i \in 1 .. k + m
        PROVE  n[i].path \in {f[j].path : j \in 1 .. k} \cup {order[j] : j \in 1 .. m}
    BY <1>2, <1>6, <1>8
  <2>2. \A i \in 1 .. k : f[i].path \in {n[j].path : j \in 1 .. k + m}
    BY <1>6
  <2>3. \A i \in 1 .. m : order[i] \in {n[j].path : j \in 1 .. k + m}
    BY <1>2, <1>7
  <2> QED
    BY <1>1, <1>5, <2>1, <2>2, <2>3
<1>10. /\ n \in Seq(FrontierRow)
       /\ DOMAIN f \subseteq DOMAIN n /\ \A i \in DOMAIN f : n[i] = f[i]
       /\ \A i \in DOMAIN n \ DOMAIN f : n[i].state = "pending"
  BY <1>1, <1>2, <1>5, <1>6, <1>8
<1> QED
  BY <1>9, <1>10 DEF n, g

Written(c, n, m, k, e) == [c EXCEPT !.records = n, !.files = m, !.skipped = k, !.errors = e]

LEMMA CountsWritten ==
  ASSUME NEW c \in Counts, NEW n, NEW m, NEW k, NEW e
  PROVE  LET d == Written(c, n, m, k, e)
         IN /\ d.records = n /\ d.files = m /\ d.skipped = k /\ d.errors = e
            /\ d.visited = c.visited
            /\ {n, m, k, e} \subseteq Nat => d \in Counts
<1> DEFINE d1 == [c EXCEPT !.records = n]
           d2 == [d1 EXCEPT !.files = m]
           d3 == [d2 EXCEPT !.skipped = k]
           d == [d3 EXCEPT !.errors = e]
           Fields == {"records", "files", "skipped", "errors", "visited"}
<1>1. DOMAIN d1 = Fields /\ d1.records = n /\ d1.visited = c.visited
  BY DEF Counts
<1> HIDE DEF d1
<1>2. DOMAIN d2 = Fields /\ d2.files = m /\ d2.records = n /\ d2.visited = c.visited
  BY <1>1
<1> HIDE DEF d2
<1>3. /\ DOMAIN d3 = Fields /\ d3.skipped = k /\ d3.records = n /\ d3.files = m
      /\ d3.visited = c.visited
  BY <1>2
<1> HIDE DEF d3
<1>4. /\ DOMAIN d = Fields /\ d.records = n /\ d.files = m /\ d.skipped = k /\ d.errors = e
      /\ d.visited = c.visited /\ d = [f \in Fields |-> d[f]]
  BY <1>3
<1> HIDE DEF d
<1>5. {n, m, k, e} \subseteq Nat => d \in Counts
  BY <1>4 DEF Counts
<1> QED
  BY <1>4, <1>5, Zenon DEF Written, d1, d2, d3, d

\* A batch goes into the records, what it found into the frontier, and the counters
\* grow by what was not there.
LEMMA BatchWritten ==
  ASSUME StoreInv, UNCHANGED touched, scan.status # "none",
         NEW batch \in SUBSET Records, IsFiniteSet(batch),
         NEW found \in SUBSET Dirs, found \subseteq {r.path : r \in batch},
         writeBatch(batch, found)
  PROVE  /\ StoreInv' /\ Grows /\ scan'.status = scan.status
         /\ batch \subseteq scan'.records /\ found \subseteq Known'
         /\ \A i \in DOMAIN Frontier : i \in DOMAIN Frontier' /\ Frontier'[i] = Frontier[i]
         /\ \A i \in DOMAIN Frontier' \ DOMAIN Frontier : Frontier'[i].state = "pending"
<1> DEFINE new == batch \ scan.records
           newFiles == {r \in {q \in new : q.status = "observed"} : r.path \notin Dirs}
           newSkipped == {r \in new : r.status = "skipped"}
           newErrors == {r \in new : r.status = "error"}
           c == scan.counts
           n1 == c.records + Cardinality(new)
           n2 == c.files + Cardinality(newFiles)
           n3 == c.skipped + Cardinality(newSkipped)
           n4 == c.errors + Cardinality(newErrors)
           d == Written(c, n1, n2, n3, n4)
           rows(order) == [i \in DOMAIN order |-> [path |-> order[i], state |-> "pending"]]
<1>1. PICK order \in SetToSeqs(found \ Known) :
        scan' = [scan EXCEPT !.records = @ \cup batch,
                             !.frontier = @ \o rows(order),
                             !.counts = d]
  BY Zenon DEF writeBatch, InsertBatch, Written
<1>2. order \in Seq(Dirs) /\ {order[i] : i \in DOMAIN order} = found \ Known
  <2>1. IsFiniteSet(found \ Known)
    <3> DEFINE path == [r \in batch |-> r.path]
    <3>1. path \in Surjection(batch, {r.path : r \in batch})
      BY DEF Surjection
    <3> QED
      BY <3>1, FS_Surjection, FS_Subset
  <2>2. order \in Seq(found \ Known) /\ {order[i] : i \in DOMAIN order} = found \ Known
    BY <2>1, OrderedSet
  <2>3. found \ Known \subseteq Dirs
    OBVIOUS
  <2> QED
    BY <2>2, <2>3
<1> DEFINE f == Frontier \o rows(order)
<1>3. Frontier \in Seq(FrontierRow) /\ scan.frontier = Frontier /\ c \in Counts
      /\ scan.records \in SUBSET Records /\ IsFiniteSet(scan.records)
  BY DEF StoreInv, StoreTyped, Frontier
<1>4. /\ f \in Seq(FrontierRow)
      /\ DOMAIN Frontier \subseteq DOMAIN f /\ \A i \in DOMAIN Frontier : f[i] = Frontier[i]
      /\ \A i \in DOMAIN f \ DOMAIN Frontier : f[i].state = "pending"
      /\ {f[i].path : i \in DOMAIN f} = Known \cup {order[i] : i \in DOMAIN order}
  BY <1>2, <1>3, FrontierGrows DEF Known
<1>5. ASSUME NEW A, NEW B, NEW C, A \subseteq scan.records, B \subseteq new, C = A \cup B
      PROVE  /\ Cardinality(C) = Cardinality(A) + Cardinality(B)
             /\ Cardinality(A) \in Nat /\ Cardinality(B) \in Nat
  <2>1. IsFiniteSet(scan.records) /\ A \subseteq scan.records /\ B \subseteq batch \ scan.records
    BY <1>3, <1>5
  <2>2. IsFiniteSet(A) /\ IsFiniteSet(B) /\ A \cap B = {}
    BY <2>1, FS_Subset
  <2> QED
    BY <1>5, <2>2, DisjointUnion, FS_CardinalityType
<1>6. /\ newFiles \subseteq new /\ newSkipped \subseteq new
      /\ newErrors \subseteq new
  OBVIOUS
<1>7. /\ \A r \in new : r \in batch
      /\ scan.records \cup batch = scan.records \cup new
      /\ {r \in scan.records \cup batch : r.status = "skipped"} = With("skipped") \cup newSkipped
      /\ {r \in scan.records \cup batch : r.status = "error"} = With("error") \cup newErrors
      /\ {r \in {q \in scan.records \cup batch : q.status = "observed"} : r.path \notin Dirs}
           = FileRecords \cup newFiles
  BY DEF With, FileRecords
<1>8. /\ Cardinality(new) \in Nat /\ Cardinality(newFiles) \in Nat
      /\ Cardinality(newSkipped) \in Nat /\ Cardinality(newErrors) \in Nat
  BY <1>5, <1>6
<1> HIDE DEF new, newFiles, newSkipped, newErrors, f, c
<1>9. /\ d \in Counts /\ d.records = c.records + Cardinality(new)
      /\ d.files = c.files + Cardinality(newFiles)
      /\ d.skipped = c.skipped + Cardinality(newSkipped)
      /\ d.errors = c.errors + Cardinality(newErrors) /\ d.visited = c.visited
  <2>1. n1 \in Nat /\ n2 \in Nat /\ n3 \in Nat /\ n4 \in Nat
    BY <1>3, <1>8 DEF Counts
  <2> HIDE DEF n1, n2, n3, n4
  <2>2. /\ d \in Counts /\ d.records = n1 /\ d.files = n2 /\ d.skipped = n3 /\ d.errors = n4
        /\ d.visited = c.visited
    BY <1>3, <2>1, CountsWritten
  <2> QED
    BY <2>2 DEF n1, n2, n3, n4
<1> HIDE DEF d
<1>10. /\ scan' \in [status : ScanStatuses, records : SUBSET Records,
                     frontier : Seq(FrontierRow), counts : Counts]
       /\ scan'.status = scan.status /\ scan'.records = scan.records \cup batch
       /\ scan'.frontier = f /\ scan'.counts = d
  <2>1. scan' = [scan EXCEPT !.records = @ \cup batch, !.frontier = f, !.counts = d]
    BY <1>1, <1>3 DEF f
  <2> QED
    BY <1>3, <1>4, <1>9, <2>1 DEF StoreInv, StoreTyped
<1>11. Frontier' = f /\ Known' = Known \cup found /\ Rows("completed")' = Rows("completed")
  <2>1. Frontier' = f
    BY <1>10 DEF Frontier
  <2>2. Known' = Known \cup found
    BY <1>2, <1>4, <2>1 DEF Known
  <2>3. Rows("completed")' = Rows("completed")
    BY <1>4, <2>1 DEF Rows
  <2> QED
    BY <2>1, <2>2, <2>3
<1>12. StoreTyped'
  <2>1. IsFiniteSet(scan.records \cup batch)
    BY <1>3, FS_Union
  <2> QED
    BY <1>10, <2>1 DEF StoreTyped
<1>13. CountsMatchTheRecords'
  <2>1. Counted
    BY CountFields DEF StoreInv
  <2>2. /\ FileRecords \subseteq scan.records /\ With("skipped") \subseteq scan.records
        /\ With("error") \subseteq scan.records
    BY DEF FileRecords, With
  <2>3. /\ FileRecords' = FileRecords \cup newFiles
        /\ With("skipped")' = With("skipped") \cup newSkipped
        /\ With("error")' = With("error") \cup newErrors
        /\ scan'.records = scan.records \cup new
    BY <1>7, <1>10 DEF FileRecords, With
  <2>4. /\ Cardinality(scan'.records) = Cardinality(scan.records) + Cardinality(new)
        /\ Cardinality(FileRecords') = Cardinality(FileRecords) + Cardinality(newFiles)
        /\ Cardinality(With("skipped")') = Cardinality(With("skipped")) + Cardinality(newSkipped)
        /\ Cardinality(With("error")') = Cardinality(With("error")) + Cardinality(newErrors)
    BY <1>5, <1>6, <2>2, <2>3
  <2>5. Counted'
    BY <1>9, <1>10, <1>11, <2>1, <2>4 DEF Counted, c
  <2> QED
    BY <1>12, <2>5, CountFields
<1>14. Grows /\ \A e \in Dirs : Covered(e) => Covered(e)'
  BY <1>10, <1>11 DEF Grows, Covered
<1>15. CoveredRows'
  <2> SUFFICES ASSUME NEW i \in Rows("completed")' PROVE Covered(Frontier[i].path)'
    BY DEF CoveredRows
  <2>1. i \in Rows("completed") /\ i \in DOMAIN Frontier
    BY <1>11 DEF Rows
  <2>2. Frontier[i] \in FrontierRow /\ Frontier'[i] = Frontier[i]
    BY <1>3, <1>4, <1>11, <2>1
  <2>3. Covered(Frontier[i].path) /\ Frontier[i].path \in Dirs
    BY <2>1, <2>2 DEF StoreInv, CoveredRows, FrontierRow
  <2> QED
    BY <1>14, <2>2, <2>3
<1>16. Root \in Known'
  BY <1>11 DEF StoreInv
<1> QED
  BY <1>4, <1>10, <1>11, <1>12, <1>13, <1>14, <1>15, <1>16 DEF StoreInv

-----------------------------------------------------------------------------
(* What the others keep.                                                   *)

\* What is recorded, found or touched stays so.
LEMMA ReadKept ==
  ASSUME Grows, touched \subseteq touched', NEW w \in Workers, workers'[w] = workers[w],
         ReadInv(workers[w])
  PROVE  ReadInv(workers[w])'
<1> DEFINE x == workers[w]
<1>1. Reads(x.local) => Reads(x.local)'
  BY DEF Reads, Grows
<1> QED
  BY <1>1 DEF ReadInv, BatchInv, Grows

\* A worker that has written to the records since the approval went is among the late.
LateStep(w) ==
  late' = IF scan'.records # scan.records /\ approval = "revoked" THEN late \cup {w} ELSE late

\* It does not come back to where it writes.
StaysLate(w) ==
  workers'[w].pc \in Reaching =>
    scan'.records = scan.records /\ (workers[w].pc \in Reaching \/ approval # "revoked")

LEMMA LateKept ==
  ASSUME LateInv, NEW w \in Workers, LateStep(w), StaysLate(w), UNCHANGED approval,
         \A v \in Workers \ {w} : workers'[v] = workers[v]
  PROVE  LateInv'
<1>1. approval # "revoked" => late' = {}
  BY DEF LateInv, LateStep
<1>2. ASSUME NEW v \in Workers, v \in late' PROVE workers'[v].pc \notin Reaching
  <2>1. CASE v # w
    BY <1>2, <2>1 DEF LateInv, LateStep
  <2>2. CASE v = w /\ workers'[w].pc \in Reaching
    BY <1>2, <2>2 DEF LateInv, LateStep, StaysLate
  <2> QED
    BY <2>1, <2>2
<1>3. late' \subseteq Workers
  BY DEF LateInv, LateStep
<1>4. \A v \in late' : workers'[v].pc \notin Reaching
  BY <1>2, <1>3
<1>5. (\A v \in late : workers[v].pc \notin Reaching)'
  BY <1>4
<1> QED
  BY <1>1, <1>3, <1>5 DEF LateInv

LEMMA WorkerKeeps ==
  ASSUME SInv, NEW w \in Workers, NEW done, NEW saved, Acts(w, done, saved),
         WorkersTyped', StoreInv', Grows, UNCHANGED <<disk, approval, touched>>,
         ReadInv(workers[w])', LateStep(w), StaysLate(w)
  PROVE  SInv' /\ [Next]_jobs
<1>1. IndInv' /\ LinkInv' /\ [Next]_jobs /\ \A v \in Workers \ {w} : workers'[v] = workers[v]
  BY ActsInv DEF SInv, Acts
<1>2. LateInv'
  BY <1>1, LateKept DEF SInv
<1>3. DiskInv'
  BY DEF SInv, DiskInv
<1>4. ASSUME NEW v \in Workers PROVE ReadInv(workers[v])'
  <2>1. CASE v # w
    BY <1>1, <2>1, ReadKept DEF SInv
  <2> QED
    BY <2>1
<1> QED
  BY <1>1, <1>2, <1>3, <1>4 DEF SInv

\* A step of a worker that writes nothing to the scan's tables.
LEMMA QuietKeeps ==
  ASSUME SInv, NEW w \in Workers, NEW done, NEW saved, Acts(w, done, saved),
         UNCHANGED <<scan, disk, approval, touched>>, WorkersTyped', ReadInv(workers'[w]),
         LateStep(w), StaysLate(w)
  PROVE  SInv' /\ [Next]_jobs
<1>1. StoreInv' /\ Grows
  BY SameScan DEF SInv
<1>2. Known' = Known
  BY DEF Known, Frontier
<1>3. Reads(workers[w].local)' <=> Reads(workers'[w].local)
  BY <1>2 DEF Reads
<1>4. ReadInv(workers[w])'
  BY <1>3 DEF ReadInv, BatchInv
<1> QED
  BY <1>1, <1>4, WorkerKeeps

\* No worker acts.
LEMMA QueueKeeps ==
  ASSUME SInv, [Next]_jobs, Effect({}, {}), UNCHANGED <<workers, scan, disk, approval, touched, late>>
  PROVE  SInv'
<1>1. IndInv' /\ TableStep
  BY IndInvNext DEF SInv, Effect
<1>2. LinkInv' /\ WorkersTyped'
  BY <1>1, LinkTable DEF SInv, WorkersTyped
<1>3. StoreInv' /\ Grows
  BY SameScan DEF SInv
<1>4. DiskInv' /\ LateInv'
  BY DEF SInv, DiskInv, LateInv
<1>5. \A w \in Workers : ReadInv(workers[w])'
  BY <1>3, ReadKept DEF SInv
<1> QED
  BY <1>1, <1>2, <1>3, <1>4, <1>5 DEF SInv

-----------------------------------------------------------------------------
(* The handler.                                                            *)

LEMMA LocalTypes ==
  /\ NoLocal \in Locals /\ Nothing \in Locals
  /\ Nothing.dir = NoDir /\ Nothing.batch = {} /\ Nothing.found = {} /\ NoDir \notin Dirs
BY ScanAssumption DEF Locals, Nothing, Paths

\* Nothing has been read yet.
LEMMA NothingRead == BatchInv(Nothing)
BY LocalTypes, FS_EmptySet DEF BatchInv

LEMMA HandlerFacts ==
  ASSUME SInv, NEW w \in Workers, workers[w].pc \in HandlerPoints
  PROVE  LET x == workers[w]
         IN /\ Linked(x) /\ x.local \in Locals /\ BatchInv(x.local)
            /\ IndInv /\ LinkInv /\ StoreInv /\ DiskInv
            /\ x.pc # "start" => scan.status # "none"
            /\ x.pc \in {"start", "resume", "next"} => x.local.dir = NoDir
            /\ x.pc \in {"open", "read", "issue", "finishDir"} => x.local.dir \in Dirs
            /\ x.pc \in {"read", "check", "save", "report"} /\ x.local.dir \in Dirs => Reads(x.local)
            /\ x.pc \in {"issue", "finishDir"} => Children[x.local.dir] \subseteq touched
<1>1. workers[w] \in Worker(HandlerPoints, Locals) /\ ReadInv(workers[w])
  BY DEF SInv, WorkersTyped
<1>2. workers[w].local \in Locals
  BY <1>1 DEF Worker
<1>3. Linked(workers[w])
  BY DEF Linked, HandlerPoints
<1> QED
  BY <1>1, <1>2, <1>3 DEF SInv, ReadInv

LEMMA GoesOn ==
  ASSUME SInv, NEW w \in Workers, workers[w].pc \in HandlerPoints, UNCHANGED jobs
  PROVE  /\ \A point \in Points \cup HandlerPoints : Goto(w, point) =>
              /\ WorkersTyped' /\ Acts(w, {}, {})
              /\ workers'[w].pc = point /\ workers'[w].local = workers[w].local
         /\ \A point \in Points \cup HandlerPoints, local \in Locals : Continue(w, point, local) =>
              /\ WorkersTyped' /\ Acts(w, {}, {})
              /\ workers'[w].pc = point /\ workers'[w].local = local
         /\ \A retryable \in BOOLEAN : Throw(w, retryable) =>
              /\ WorkersTyped' /\ Acts(w, {}, {}) /\ workers'[w].pc = "fail"
<1>1. Linked(workers[w]) /\ workers \in [Workers -> Worker(HandlerPoints, Locals)]
  BY HandlerFacts DEF SInv, WorkersTyped
<1> QED
  BY <1>1, LocalTypes, GotoActs, ContinueActs, ThrowActs DEF WorkersTyped

LEMMA LoadKeeps ==
  ASSUME SInv, NEW w \in Workers, Load(w), UNCHANGED <<disk, approval, touched>>, LateStep(w)
  PROVE  SInv' /\ [Next]_jobs
<1> DEFINE y == workers'[w]
<1>1. /\ LoadJob(w, "start", Nothing) /\ At(w, "load")
      /\ workers \in [Workers -> Worker(HandlerPoints, Locals)] /\ IndInv /\ LinkInv
      /\ "start" \in Points \cup HandlerPoints /\ UNCHANGED scan
  BY DEF Load, LoadJob, SInv, WorkersTyped, HandlerPoints
<1>2. /\ WorkersTyped' /\ Acts(w, {}, {})
      /\ y.pc = "down" \/ (y.pc = "start" /\ y.local = Nothing)
  BY <1>1, LocalTypes, LoadJobActs DEF WorkersTyped
<1>3. ReadInv(workers'[w]) /\ StaysLate(w)
  BY <1>2, LocalTypes, NothingRead DEF ReadInv, HandlerPoints, StaysLate, Reaching
<1> QED
  BY <1>1, <1>2, <1>3, QuietKeeps

\* The points where a worker neither reads nor has read a directory.
Calm == HandlerPoints \ {"start", "resume", "check", "next", "open", "read", "issue",
                         "finishDir", "save", "report"}

LEMMA CalmKeeps ==
  ASSUME SInv, NEW w \in Workers, workers[w].pc \in HandlerPoints \ {"start"},
         NEW saved, Acts(w, {}, saved), WorkersTyped', StoreInv', Grows,
         UNCHANGED <<disk, approval, touched>>, LateStep(w),
         \/ workers'[w].pc \in Points
         \/ workers'[w].pc \in Calm /\ workers'[w].local \in {workers[w].local, Nothing}
  PROVE  SInv' /\ [Next]_jobs
<1> DEFINE x == workers[w]
           y == workers'[w]
<1>1. BatchInv(x.local) /\ scan.status # "none" /\ scan'.status # "none"
  BY HandlerFacts DEF Grows
<1>2. ReadInv(workers[w])' /\ StaysLate(w)
  <2>1. CASE y.pc \in Points
    BY <2>1 DEF ReadInv, StaysLate, Points, HandlerPoints, Reaching
  <2>2. CASE y.pc \in Calm /\ y.local \in {x.local, Nothing}
    <3>1. BatchInv(y.local)
      BY <1>1, <2>2, NothingRead
    <3>2. BatchInv(workers[w].local)'
      BY <3>1 DEF BatchInv
    <3> QED
      BY <1>1, <2>2, <3>2 DEF ReadInv, StaysLate, Calm, HandlerPoints, Reaching
  <2> QED
    BY <2>1, <2>2
<1> QED
  BY <1>2, WorkerKeeps

LEMMA StartKeeps ==
  ASSUME SInv, NEW w \in Workers, Start(w), UNCHANGED <<disk, approval, touched>>, LateStep(w)
  PROVE  SInv' /\ [Next]_jobs
<1> DEFINE x == workers[w]
           y == workers'[w]
<1>1. /\ x.pc = "start" /\ x.pc \in HandlerPoints /\ UNCHANGED jobs
      /\ \/ Goto(w, "finish") /\ UNCHANGED scan
         \/ Goto(w, "resume") /\ startOrLoadScan
  BY DEF Start, At, HandlerPoints
<1>2. BatchInv(x.local) /\ x.local.dir = NoDir /\ StoreInv
  BY <1>1, HandlerFacts
<1>3. CASE Goto(w, "finish") /\ UNCHANGED scan
  <2>1. WorkersTyped' /\ Acts(w, {}, {}) /\ y.pc = "finish"
    BY <1>1, <1>3, GoesOn DEF Points
  <2>2. ReadInv(workers'[w]) /\ StaysLate(w)
    BY <2>1 DEF ReadInv, HandlerPoints, StaysLate, Reaching
  <2> QED
    BY <1>3, <2>1, <2>2, QuietKeeps
<1>4. CASE Goto(w, "resume") /\ startOrLoadScan
  <2>1. WorkersTyped' /\ Acts(w, {}, {}) /\ y.pc = "resume" /\ y.local = x.local
    BY <1>1, <1>4, GoesOn DEF HandlerPoints
  <2>2. StoreInv' /\ Grows /\ scan'.status # "none"
    BY <1>2, <1>4, ScanStarted
  <2>3. ReadInv(workers[w])' /\ StaysLate(w)
    BY <1>2, <2>1, <2>2 DEF ReadInv, BatchInv, StaysLate, Reaching
  <2> QED
    BY <2>1, <2>2, <2>3, WorkerKeeps
<1> QED
  BY <1>1, <1>3, <1>4

LEMMA ResumeScanKeeps ==
  ASSUME SInv, NEW w \in Workers, ResumeScan(w), UNCHANGED <<disk, approval, touched>>, LateStep(w)
  PROVE  SInv' /\ [Next]_jobs
<1> DEFINE x == workers[w]
           y == workers'[w]
<1>1. /\ x.pc = "resume" /\ x.pc \in HandlerPoints /\ UNCHANGED jobs
      /\ \/ Goto(w, "check") /\ resumeScan
         \/ Goto(w, "failScan") /\ UNCHANGED scan
  BY DEF ResumeScan, Step, At, HandlerPoints
<1>2. BatchInv(x.local) /\ x.local.dir = NoDir /\ StoreInv /\ scan.status # "none"
  BY <1>1, HandlerFacts
<1>3. CASE Goto(w, "check") /\ resumeScan
  <2>1. WorkersTyped' /\ Acts(w, {}, {}) /\ y.pc = "check" /\ y.local = x.local
    BY <1>1, <1>3, GoesOn DEF HandlerPoints
  <2>2. StoreInv' /\ Grows
    BY <1>2, <1>3, ScanResumed
  <2>3. ReadInv(workers[w])' /\ StaysLate(w)
    BY <1>2, <2>1, <2>2, LocalTypes DEF ReadInv, BatchInv, StaysLate, Reaching, Grows
  <2> QED
    BY <2>1, <2>2, <2>3, WorkerKeeps
<1>4. CASE Goto(w, "failScan") /\ UNCHANGED scan
  <2>1. WorkersTyped' /\ Acts(w, {}, {}) /\ y.pc = "failScan" /\ y.local = x.local
    BY <1>1, <1>4, GoesOn DEF HandlerPoints
  <2>2. StoreInv' /\ Grows
    BY <1>2, <1>4, SameScan
  <2> QED
    BY <1>1, <2>1, <2>2, CalmKeeps DEF Calm, HandlerPoints
<1> QED
  BY <1>1, <1>3, <1>4

LEMMA CheckKeeps ==
  ASSUME SInv, NEW w \in Workers, Check(w), UNCHANGED <<disk, approval, touched>>, LateStep(w)
  PROVE  SInv' /\ [Next]_jobs
<1> DEFINE x == workers[w]
           y == workers'[w]
<1>1. /\ x.pc = "check" /\ x.pc \in HandlerPoints /\ UNCHANGED <<jobs, scan>>
      /\ \/ \E point \in {"failScan", "retryScan", "cancelScan", "pauseScan"} : Goto(w, point)
         \/ approval # "revoked" /\ x.local.dir = NoDir /\ Goto(w, "next")
         \/ approval # "revoked" /\ x.local.dir # NoDir /\ Goto(w, "read")
  <2> DEFINE point == IF ~Approved(w) THEN "failScan"
                      ELSE CASE controlSignal(w) = "stale" -> "retryScan"
                             [] controlSignal(w) = "cancel" -> "cancelScan"
                             [] controlSignal(w) = "pause" -> "pauseScan"
                             [] OTHER -> IF Dir(w) = NoDir THEN "next" ELSE "read"
  <2>1. x.pc = "check" /\ UNCHANGED <<jobs, scan>> /\ Goto(w, point)
    BY DEF Check, At
  <2>2. \/ point \in {"failScan", "retryScan", "cancelScan", "pauseScan"}
        \/ Approved(w) /\ Dir(w) = NoDir /\ point = "next"
        \/ Approved(w) /\ Dir(w) # NoDir /\ point = "read"
    OBVIOUS
  <2> HIDE DEF point
  <2> QED
    BY <2>1, <2>2 DEF HandlerPoints, Approved, Dir, Local
<1>2. /\ x.local \in Locals /\ BatchInv(x.local) /\ StoreInv /\ scan.status # "none"
      /\ x.local.dir \in Dirs => Reads(x.local)
  BY <1>1, HandlerFacts
<1>3. x.local.dir \in Dirs \cup {NoDir}
  BY <1>2 DEF Locals
<1>4. ASSUME NEW point \in {"failScan", "retryScan", "cancelScan", "pauseScan"}, Goto(w, point)
      PROVE  SInv' /\ [Next]_jobs
  <2>1. WorkersTyped' /\ Acts(w, {}, {}) /\ y.pc = point /\ y.local = x.local
    BY <1>1, <1>4, GoesOn DEF HandlerPoints
  <2>2. StoreInv' /\ Grows
    BY <1>1, <1>2, SameScan
  <2> QED
    BY <1>1, <2>1, <2>2, CalmKeeps DEF Calm, HandlerPoints
<1>5. ASSUME NEW point \in {"next", "read"}, Goto(w, point), approval # "revoked",
             x.local.dir = NoDir <=> point = "next"
      PROVE  SInv' /\ [Next]_jobs
  <2>1. WorkersTyped' /\ Acts(w, {}, {}) /\ y.pc = point /\ y.local = x.local
    BY <1>1, <1>5, GoesOn DEF HandlerPoints
  <2>2. ReadInv(workers'[w])
    BY <1>2, <1>3, <1>5, <2>1 DEF ReadInv
  <2>3. StaysLate(w)
    BY <1>1, <1>5 DEF StaysLate
  <2> QED
    BY <1>1, <2>1, <2>2, <2>3, QuietKeeps
<1> QED
  BY <1>1, <1>4, <1>5

\* The scan is written off for now, or until it is cancelled; a checkpoint follows.
LEMMA InterruptKeeps ==
  ASSUME SInv, NEW w \in Workers, InterruptScan(w) \/ CloseScan(w) \/ FailScan(w),
         UNCHANGED <<disk, approval, touched>>, LateStep(w)
  PROVE  SInv' /\ [Next]_jobs
<1> DEFINE x == workers[w]
           y == workers'[w]
<1>1. /\ x.pc \in HandlerPoints \ {"start"} /\ UNCHANGED jobs
      /\ \E status \in ScanStatuses \ {"none"} : setScanStatus(status)
      /\ \/ \E point \in {"leave", "finish"} : Goto(w, point)
         \/ \E retryable \in BOOLEAN : Throw(w, retryable)
  BY DEF InterruptScan, CloseScan, FailScan, Step, At, HandlerPoints, ScanStatuses
<1>2. StoreInv' /\ Grows
  <2>1. StoreInv /\ scan.status # "none"
    BY <1>1, HandlerFacts
  <2> QED
    BY <1>1, <2>1, StatusWritten
<1>3. ASSUME NEW point \in {"leave", "finish"}, Goto(w, point)
      PROVE  SInv' /\ [Next]_jobs
  <2>1. WorkersTyped' /\ Acts(w, {}, {}) /\ y.pc = point /\ y.local = x.local
    BY <1>1, <1>3, GoesOn DEF HandlerPoints, Points
  <2> QED
    BY <1>1, <1>2, <2>1, CalmKeeps DEF Calm, HandlerPoints, Points
<1>4. ASSUME NEW retryable \in BOOLEAN, Throw(w, retryable)
      PROVE  SInv' /\ [Next]_jobs
  <2>1. WorkersTyped' /\ Acts(w, {}, {}) /\ y.pc = "fail"
    BY <1>1, <1>4, GoesOn
  <2> QED
    BY <1>1, <1>2, <2>1, CalmKeeps DEF Points
<1> QED
  BY <1>1, <1>3, <1>4

LEMMA LeaveKeeps ==
  ASSUME SInv, NEW w \in Workers, Leave(w), UNCHANGED <<disk, approval, touched>>, LateStep(w)
  PROVE  SInv' /\ [Next]_jobs
<1> DEFINE x == workers[w]
           y == workers'[w]
<1>1. /\ x.pc = "leave" /\ x.pc \in HandlerPoints \ {"start"} /\ UNCHANGED scan
      /\ \/ \E point \in {"ackCancel", "ackPause"} : SaveContext(w, 0, point, Nothing)
         \/ Goto(w, "retryScan") /\ UNCHANGED jobs
  BY DEF Leave, At, HandlerPoints
<1>2. /\ Linked(x) /\ IndInv /\ LinkInv /\ StoreInv' /\ Grows
      /\ workers \in [Workers -> Worker(HandlerPoints, Locals)]
  BY <1>1, HandlerFacts, SameScan DEF SInv, WorkersTyped
<1>3. ASSUME NEW point \in {"ackCancel", "ackPause"}, SaveContext(w, 0, point, Nothing)
      PROVE  SInv' /\ [Next]_jobs
  <2>1. point \in Points \cup HandlerPoints /\ 0 \in Checkpoints
    BY BoundsAssumption DEF Points, Checkpoints
  <2>2. WorkersTyped' /\ Acts(w, {}, {x.job}) /\ y.pc = point
    BY <1>2, <1>3, <2>1, LocalTypes, SaveContextActs DEF WorkersTyped
  <2> QED
    BY <1>1, <1>2, <2>2, CalmKeeps DEF Points
<1>4. CASE Goto(w, "retryScan") /\ UNCHANGED jobs
  <2>1. WorkersTyped' /\ Acts(w, {}, {}) /\ y.pc = "retryScan" /\ y.local = x.local
    BY <1>1, <1>4, GoesOn DEF HandlerPoints
  <2> QED
    BY <1>1, <1>2, <2>1, CalmKeeps DEF Calm, HandlerPoints
<1> QED
  BY <1>1, <1>3, <1>4

\* A worker begins to read a directory with nothing of it in its hands.
Reading(d) == [Nothing EXCEPT !.dir = d]

LEMMA ReadingType ==
  ASSUME NEW d \in Dirs
  PROVE  Reading(d) \in Locals /\ Reading(d).dir = d /\ BatchInv(Reading(d))
<1>1. Reading(d) \in Locals /\ Reading(d).dir = d /\ Reading(d).batch = {} /\ Reading(d).found = {}
  BY LocalTypes DEF Reading, Locals
<1> QED
  BY <1>1, FS_EmptySet DEF BatchInv

LEMMA ClaimDirectoryKeeps ==
  ASSUME SInv, NEW w \in Workers, ClaimDirectory(w), UNCHANGED <<disk, approval, touched>>,
         LateStep(w)
  PROVE  SInv' /\ [Next]_jobs
<1> DEFINE x == workers[w]
           y == workers'[w]
           d == Frontier[FirstPending].path
<1>1. /\ x.pc = "next" /\ x.pc \in HandlerPoints \ {"start"} /\ UNCHANGED jobs
      /\ \/ /\ Rows("pending") # {} /\ claimNextDirectory
            /\ Continue(w, "open", Reading(d))
         \/ Goto(w, "lastSave") /\ UNCHANGED scan
  BY DEF ClaimDirectory, At, HandlerPoints, Reading
<1>2. StoreInv /\ scan.status # "none"
  BY <1>1, HandlerFacts
<1>3. CASE Rows("pending") # {} /\ claimNextDirectory /\ Continue(w, "open", Reading(d))
  <2>1. d \in Dirs
    BY <1>2, <1>3, FirstIsPending DEF StoreInv
  <2> HIDE DEF d
  <2>2. Reading(d) \in Locals /\ Reading(d).dir = d /\ BatchInv(Reading(d))
    BY <2>1, ReadingType
  <2>3. WorkersTyped' /\ Acts(w, {}, {}) /\ y.pc = "open" /\ y.local = Reading(d)
    BY <1>1, <1>3, <2>2, GoesOn DEF HandlerPoints
  <2>4. StoreInv' /\ Grows /\ scan'.records = scan.records
    BY <1>2, <1>3, DirectoryClaimed
  <2>5. ReadInv(workers[w])' /\ StaysLate(w)
    BY <1>1, <1>2, <2>1, <2>2, <2>3, <2>4 DEF ReadInv, BatchInv, Grows, StaysLate, Reaching
  <2> QED
    BY <2>3, <2>4, <2>5, WorkerKeeps
<1>4. CASE Goto(w, "lastSave") /\ UNCHANGED scan
  <2>1. WorkersTyped' /\ Acts(w, {}, {}) /\ y.pc = "lastSave" /\ y.local = x.local
    BY <1>1, <1>4, GoesOn DEF HandlerPoints
  <2>2. StoreInv' /\ Grows
    BY <1>2, <1>4, SameScan
  <2> QED
    BY <1>1, <2>1, <2>2, CalmKeeps DEF Calm, HandlerPoints
<1> QED
  BY <1>1, <1>3, <1>4

\* Of what it has read, nothing is forgotten while the worker reports.
LEMMA ReportScanKeeps ==
  ASSUME SInv, NEW w \in Workers, ReportScan(w), UNCHANGED <<disk, approval, touched>>, LateStep(w)
  PROVE  SInv' /\ [Next]_jobs
<1> DEFINE x == workers[w]
           y == workers'[w]
<1>1. /\ x.pc \in {"save", "report", "lastSave", "lastReport"} /\ x.pc \in HandlerPoints \ {"start"}
      /\ UNCHANGED scan
      /\ \/ x.pc = "save" /\ SaveContext(w, 0, "report", x.local)
         \/ x.pc = "report" /\ ReportContext(w, "check", x.local)
         \/ SaveContext(w, 0, "lastReport", Nothing)
         \/ ReportContext(w, "close", Nothing)
         \/ Goto(w, "retryScan") /\ UNCHANGED jobs
  BY DEF ReportScan, Step, At, HandlerPoints, Local
<1>2. /\ Linked(x) /\ x.local \in Locals /\ IndInv /\ LinkInv /\ StoreInv' /\ Grows
      /\ workers \in [Workers -> Worker(HandlerPoints, Locals)]
      /\ BatchInv(x.local) /\ scan.status # "none"
      /\ x.pc \in {"save", "report"} /\ x.local.dir \in Dirs => Reads(x.local)
  BY <1>1, HandlerFacts, SameScan DEF SInv, WorkersTyped
<1>3. 0 \in Checkpoints /\ {"report", "check", "lastReport", "close"} \subseteq Points \cup HandlerPoints
  BY BoundsAssumption DEF HandlerPoints, Checkpoints
<1>4. CASE x.pc = "save" /\ SaveContext(w, 0, "report", x.local)
  <2>1. WorkersTyped' /\ Acts(w, {}, {x.job}) /\ y.pc = "report" /\ y.local = x.local
    BY <1>2, <1>3, <1>4, SaveContextActs DEF WorkersTyped
  <2>2. ReadInv(workers'[w]) /\ StaysLate(w)
    BY <1>2, <1>4, <2>1 DEF ReadInv, StaysLate, Reaching
  <2> QED
    BY <1>1, <2>1, <2>2, QuietKeeps
<1>5. CASE x.pc = "report" /\ ReportContext(w, "check", x.local)
  <2>1. WorkersTyped' /\ Acts(w, {}, {}) /\ y.pc = "check" /\ y.local = x.local
    BY <1>2, <1>3, <1>5, ReportContextActs DEF WorkersTyped
  <2>2. ReadInv(workers'[w]) /\ StaysLate(w)
    BY <1>2, <1>5, <2>1 DEF ReadInv, StaysLate, Reaching
  <2> QED
    BY <1>1, <2>1, <2>2, QuietKeeps
<1>6. CASE SaveContext(w, 0, "lastReport", Nothing)
  <2>1. WorkersTyped' /\ Acts(w, {}, {x.job}) /\ y.pc = "lastReport" /\ y.local = Nothing
    BY <1>2, <1>3, <1>6, LocalTypes, SaveContextActs DEF WorkersTyped
  <2> QED
    BY <1>1, <1>2, <2>1, CalmKeeps DEF Calm, HandlerPoints
<1>7. CASE ReportContext(w, "close", Nothing)
  <2>1. WorkersTyped' /\ Acts(w, {}, {}) /\ y.pc = "close" /\ y.local = Nothing
    BY <1>2, <1>3, <1>7, LocalTypes, ReportContextActs DEF WorkersTyped
  <2> QED
    BY <1>1, <1>2, <2>1, CalmKeeps DEF Calm, HandlerPoints
<1>8. CASE Goto(w, "retryScan") /\ UNCHANGED jobs
  <2>1. WorkersTyped' /\ Acts(w, {}, {}) /\ y.pc = "retryScan" /\ y.local = x.local
    BY <1>1, <1>8, GoesOn DEF HandlerPoints
  <2> QED
    BY <1>1, <1>2, <2>1, CalmKeeps DEF Calm, HandlerPoints
<1> QED
  BY <1>1, <1>4, <1>5, <1>6, <1>7, <1>8

-----------------------------------------------------------------------------
(* One directory.                                                          *)

LEMMA ChildrenArePaths == ASSUME NEW d \in Dirs PROVE d \in Paths /\ Children[d] \subseteq Paths
BY DEF Paths

\* A directory that is not what it was has been touched, and all that was in it.
LEMMA GoneIsTouched ==
  ASSUME DiskInv, NEW d \in Dirs, approval = "away" \/ disk[d] # "directory"
  PROVE  Children[d] \subseteq touched
<1>1. d \in touched
  BY ChildrenArePaths DEF DiskInv
<1> QED
  BY <1>1 DEF DiskInv, Closed

\* The batch of a directory that cannot be read.
IssueOf(d, status) == [Nothing EXCEPT !.dir = d, !.batch = {[path |-> d, status |-> status]}]

LEMMA IssueType ==
  ASSUME NEW d \in Dirs, NEW status \in ObservationStatuses
  PROVE  LET l == IssueOf(d, status) IN l \in Locals /\ l.dir = d /\ BatchInv(l)
<1> DEFINE r == [path |-> d, status |-> status]
           m == Reading(d)
           l == [m EXCEPT !.batch = {r}]
<1>1. r \in Records
  BY ChildrenArePaths DEF Records
<1> HIDE DEF r
<1>2. m \in Locals /\ m.dir = d /\ m.found = {}
  BY LocalTypes, ReadingType DEF Reading, Nothing
<1> HIDE DEF m
<1>3. l \in Locals /\ l.dir = d /\ l.batch = {r} /\ l.found = {}
  BY <1>1, <1>2 DEF Locals
<1> HIDE DEF l
<1>4. IsFiniteSet({r})
  BY FS_Singleton
<1> QED
  BY <1>3, <1>4 DEF BatchInv, IssueOf, Reading, l, m, r

\* A directory that could not be read, or not to its end, becomes an issue.
LEMMA IssueKeeps ==
  ASSUME SInv, NEW w \in Workers, workers[w].pc \in {"open", "read"},
         UNCHANGED <<jobs, scan, disk, approval, touched>>, LateStep(w),
         approval = "away" \/ disk[workers[w].local.dir] # "directory",
         NEW status \in ObservationStatuses,
         Continue(w, "issue", IssueOf(workers[w].local.dir, status))
  PROVE  SInv' /\ [Next]_jobs
<1> DEFINE x == workers[w]
           y == workers'[w]
           d == x.local.dir
           l == IssueOf(d, status)
<1>1. x.pc \in HandlerPoints /\ x.pc # "start"
  BY DEF HandlerPoints
<1>2. d \in Dirs /\ scan.status # "none" /\ DiskInv
  BY <1>1, HandlerFacts
<1>3. Children[d] \subseteq touched
  BY <1>2, GoneIsTouched
<1>4. l \in Locals /\ l.dir = d /\ BatchInv(l)
  BY <1>2, IssueType
<1> HIDE DEF l
<1>5. WorkersTyped' /\ Acts(w, {}, {}) /\ y.pc = "issue" /\ y.local = l
  BY <1>1, <1>4, GoesOn DEF HandlerPoints, l
<1>6. ReadInv(workers'[w]) /\ StaysLate(w)
  BY <1>2, <1>3, <1>4, <1>5 DEF ReadInv, StaysLate, Reaching
<1> QED
  BY <1>1, <1>5, <1>6, QuietKeeps

\* The scan gives up.
LEMMA GivesUp ==
  ASSUME SInv, NEW w \in Workers, workers[w].pc \in HandlerPoints \ {"start"},
         UNCHANGED <<jobs, scan, disk, approval, touched>>, LateStep(w),
         NEW point \in {"failScan", "retryScan"}, Goto(w, point)
  PROVE  SInv' /\ [Next]_jobs
<1>1. /\ WorkersTyped' /\ Acts(w, {}, {}) /\ workers'[w].pc = point
      /\ workers'[w].local = workers[w].local
  BY GoesOn DEF HandlerPoints
<1>2. StoreInv' /\ Grows
  BY SameScan DEF SInv
<1> QED
  BY <1>1, <1>2, CalmKeeps DEF Calm, HandlerPoints

LEMMA OpenDirectoryKeeps ==
  ASSUME SInv, NEW w \in Workers, OpenDirectory(w), UNCHANGED <<disk, approval, touched>>,
         LateStep(w)
  PROVE  SInv' /\ [Next]_jobs
<1> DEFINE x == workers[w]
           y == workers'[w]
           d == x.local.dir
           todo == {p \in Children[d] : disk[p] # "absent"}
           l == [x.local EXCEPT !.todo = todo]
<1>1. /\ x.pc = "open" /\ x.pc \in HandlerPoints \ {"start"} /\ UNCHANGED <<jobs, scan>>
      /\ \/ \E point \in {"failScan", "retryScan"} : Goto(w, point)
         \/ /\ approval = "away" \/ disk[d] # "directory"
            /\ \E status \in ObservationStatuses : Continue(w, "issue", IssueOf(d, status))
         \/ Continue(w, "read", l)
  BY DEF OpenDirectory, At, HandlerPoints, Dir, Local, Issue, IssueOf, ObservationStatuses
<1>2. CASE Continue(w, "read", l)
  <2>1. d \in Dirs /\ x.local \in Locals /\ BatchInv(x.local) /\ scan.status # "none" /\ DiskInv
    BY <1>1, HandlerFacts
  <2>2. todo \subseteq Paths /\ Children[d] \subseteq Paths
    BY <2>1, ChildrenArePaths
  <2>3. Children[d] \ touched \subseteq todo
    BY <2>1, <2>2 DEF DiskInv
  <2> HIDE DEF todo
  <2>4. /\ l \in Locals /\ l.dir = d /\ l.todo = todo /\ l.batch = x.local.batch
        /\ l.found = x.local.found
    BY <2>1, <2>2 DEF Locals
  <2> HIDE DEF l
  <2>5. WorkersTyped' /\ Acts(w, {}, {}) /\ y.pc = "read" /\ y.local = l
    BY <1>1, <1>2, <2>4, GoesOn DEF HandlerPoints
  <2>6. Reads(l) /\ BatchInv(l)
    BY <2>1, <2>3, <2>4 DEF Reads, BatchInv
  <2>7. ReadInv(workers'[w]) /\ StaysLate(w)
    BY <1>1, <2>1, <2>4, <2>5, <2>6 DEF ReadInv, StaysLate, Reaching
  <2> QED
    BY <1>1, <2>5, <2>7, QuietKeeps
<1> QED
  BY <1>1, <1>2, IssueKeeps, GivesUp

LEMMA BreakOffKeeps ==
  ASSUME SInv, NEW w \in Workers, BreakOff(w), UNCHANGED <<disk, approval, touched>>, LateStep(w)
  PROVE  SInv' /\ [Next]_jobs
<1>1. /\ workers[w].pc = "read" /\ UNCHANGED <<jobs, scan>>
      /\ approval = "away" \/ disk[workers[w].local.dir] # "directory"
      /\ Continue(w, "issue", IssueOf(workers[w].local.dir, "error"))
  BY DEF BreakOff, At, Dir, Local, Issue, IssueOf
<1>2. "error" \in ObservationStatuses
  BY DEF ObservationStatuses
<1> QED
  BY <1>1, <1>2, IssueKeeps

\* What the worker has in its hands when it has looked at a path.
StatusAt(p) == IF approval = "away" THEN "error" ELSE IF disk[p] = "absent" THEN "skipped" ELSE "observed"
FoundAt(p) == StatusAt(p) = "observed" /\ p \in Dirs
Looked(l, p, r) ==
  [l EXCEPT !.todo = @ \ {p}, !.batch = @ \cup {r}, !.found = IF FoundAt(p) THEN @ \cup {p} ELSE @]

LEMMA LookedFields ==
  ASSUME NEW l \in Locals, NEW p \in Paths, NEW r \in Records,
         NEW m, m = Looked(l, p, r)
  PROVE  /\ m \in Locals /\ m.dir = l.dir /\ m.todo = l.todo \ {p}
         /\ m.batch = l.batch \cup {r}
         /\ FoundAt(p) => m.found = l.found \cup {p}
         /\ ~FoundAt(p) => m.found = l.found
<1> DEFINE todo == l.todo \ {p}
           batch == l.batch \cup {r}
           dirs == IF FoundAt(p) THEN l.found \cup {p} ELSE l.found
           n == [l EXCEPT !.todo = todo, !.batch = batch, !.found = dirs]
<1>1. todo \in SUBSET Paths /\ batch \in SUBSET Records /\ dirs \in SUBSET Dirs
  BY DEF Locals, FoundAt
<1>2. m = n
  BY DEF Looked
<1> HIDE DEF todo, batch, dirs
<1>3. n \in Locals /\ n.dir = l.dir /\ n.todo = todo /\ n.batch = batch /\ n.found = dirs
  BY <1>1 DEF Locals
<1> HIDE DEF n
<1> QED
  BY <1>2, <1>3 DEF todo, batch, dirs

\* What was left alone is observed, and a directory is found.
LEMMA ObserveEntryKeeps ==
  ASSUME SInv, NEW w \in Workers, ObserveEntry(w), UNCHANGED <<disk, approval, touched>>,
         LateStep(w)
  PROVE  SInv' /\ [Next]_jobs
<1> DEFINE x == workers[w]
           y == workers'[w]
           d == x.local.dir
           observed(p) == [path |-> p, status |-> StatusAt(p)]
<1>1. /\ x.pc = "read" /\ x.pc \in HandlerPoints \ {"start"} /\ UNCHANGED <<jobs, scan>>
      /\ \/ Goto(w, "failScan")
         \/ \E p \in x.local.todo :
              Continue(w, "read", Looked(x.local, p, observed(p)))
  <2>1. x.pc = "read" /\ x.pc \in HandlerPoints \ {"start"}
    BY DEF ObserveEntry, At, HandlerPoints
  <2>2. UNCHANGED <<jobs, scan>>
    BY DEF ObserveEntry
  <2>3. PICK p \in x.local.todo :
          \/ Goto(w, "failScan")
          \/ Continue(w, "read", Looked(x.local, p, observed(p)))
    BY Zenon DEF ObserveEntry, Local, Looked, StatusAt, FoundAt
  <2> QED
    BY <2>1, <2>2, <2>3
<1>2. /\ d \in Dirs /\ x.local \in Locals /\ BatchInv(x.local) /\ scan.status # "none"
      /\ DiskInv /\ Reads(x.local)
  BY <1>1, HandlerFacts
<1>3. ASSUME NEW p \in x.local.todo, Continue(w, "read", Looked(x.local, p, observed(p)))
      PROVE  SInv' /\ [Next]_jobs
  <2> DEFINE q == observed(p)
             m == Looked(x.local, p, q)
  <2>1. p \in Paths /\ StatusAt(p) \in ObservationStatuses
    BY <1>2 DEF Locals, ObservationStatuses, StatusAt
  <2>2. q \in Records /\ q.path = p
    BY <2>1 DEF Records
  <2>3. p \notin touched => q = Seen(p) /\ (p \in Dirs => FoundAt(p))
    BY <1>2, <2>1 DEF DiskInv, Seen, StatusAt, FoundAt
  <2>4. m = Looked(x.local, p, q) /\ Continue(w, "read", m)
    BY <1>3
  <2> HIDE DEF q, m
  <2>5. /\ m \in Locals /\ m.dir = d /\ m.todo = x.local.todo \ {p}
        /\ m.batch = x.local.batch \cup {q}
        /\ FoundAt(p) => m.found = x.local.found \cup {p}
        /\ ~FoundAt(p) => m.found = x.local.found
    BY <1>2, <2>1, <2>2, <2>4, LookedFields
  <2>6. WorkersTyped' /\ Acts(w, {}, {}) /\ y.pc = "read" /\ y.local = m
    BY <1>1, <2>4, <2>5, GoesOn DEF HandlerPoints
  <2>7. BatchInv(m)
    <3>1. IsFiniteSet(x.local.batch \cup {q})
      BY <1>2, FS_AddElement DEF BatchInv
    <3> QED
      BY <1>2, <2>2, <2>5, <3>1 DEF BatchInv
  <2>8. Reads(m)
    <3> SUFFICES ASSUME NEW e \in Children[d] \ touched
                 PROVE  \/ e \in m.todo
                        \/ /\ Seen(e) \in scan.records \cup m.batch
                           /\ e \in Dirs => e \in Known \cup m.found
      BY <2>5 DEF Reads
    <3>1. CASE e = p
      BY <2>3, <2>5, <3>1
    <3>2. CASE e # p
      BY <1>2, <2>5, <3>2 DEF Reads
    <3> QED
      BY <3>1, <3>2
  <2>9. ReadInv(workers'[w]) /\ StaysLate(w)
    BY <1>1, <1>2, <2>5, <2>6, <2>7, <2>8 DEF ReadInv, StaysLate, Reaching
  <2> QED
    BY <1>1, <2>6, <2>9, QuietKeeps
<1> QED
  BY <1>1, <1>3, GivesUp

\* What was in the worker's hands is in the tables.
LEMMA FlushBatchKeeps ==
  ASSUME SInv, NEW w \in Workers, FlushBatch(w), UNCHANGED <<disk, approval, touched>>, LateStep(w)
  PROVE  SInv' /\ [Next]_jobs
<1> DEFINE x == workers[w]
           y == workers'[w]
           m == [x.local EXCEPT !.batch = {}, !.found = {}]
<1>1. /\ x.pc = "read" /\ x.pc \in HandlerPoints /\ UNCHANGED jobs
      /\ writeBatch(x.local.batch, x.local.found) /\ Continue(w, "save", m)
  BY DEF FlushBatch, At, HandlerPoints, Local
<1>2. /\ x.local.dir \in Dirs /\ x.local \in Locals /\ BatchInv(x.local) /\ scan.status # "none"
      /\ StoreInv /\ Reads(x.local)
  BY <1>1, HandlerFacts
<1>3. /\ m \in Locals /\ m.dir = x.local.dir /\ m.todo = x.local.todo
      /\ m.batch = {} /\ m.found = {}
  BY <1>2 DEF Locals
<1> HIDE DEF m
<1>4. WorkersTyped' /\ Acts(w, {}, {}) /\ y.pc = "save" /\ y.local = m
  BY <1>1, <1>3, GoesOn DEF HandlerPoints
<1>5. /\ StoreInv' /\ Grows /\ scan'.status = scan.status
      /\ x.local.batch \subseteq scan'.records /\ x.local.found \subseteq Known'
  BY <1>1, <1>2, BatchWritten DEF Locals, BatchInv
<1>6. BatchInv(workers[w].local)' /\ Reads(workers[w].local)'
  BY <1>2, <1>3, <1>4, <1>5, FS_EmptySet DEF BatchInv, Reads, Grows
<1>7. ReadInv(workers[w])' /\ StaysLate(w)
  BY <1>2, <1>4, <1>5, <1>6 DEF ReadInv, StaysLate, Reaching
<1> QED
  BY <1>4, <1>5, <1>7, WorkerKeeps

LEMMA RecordIssueKeeps ==
  ASSUME SInv, NEW w \in Workers, RecordIssue(w), UNCHANGED <<disk, approval, touched>>, LateStep(w)
  PROVE  SInv' /\ [Next]_jobs
<1> DEFINE x == workers[w]
           y == workers'[w]
<1>1. /\ x.pc = "issue" /\ x.pc \in HandlerPoints /\ UNCHANGED jobs
      /\ writeBatch(x.local.batch, {}) /\ Goto(w, "finishDir")
  BY DEF RecordIssue, Step, At, HandlerPoints, Local
<1>2. /\ x.local.dir \in Dirs /\ x.local \in Locals /\ BatchInv(x.local) /\ scan.status # "none"
      /\ StoreInv /\ Children[x.local.dir] \subseteq touched
  BY <1>1, HandlerFacts
<1>3. WorkersTyped' /\ Acts(w, {}, {}) /\ y.pc = "finishDir" /\ y.local = x.local
  BY <1>1, GoesOn DEF HandlerPoints
<1>4. StoreInv' /\ Grows /\ scan'.status = scan.status
  BY <1>1, <1>2, BatchWritten DEF Locals, BatchInv
<1>5. BatchInv(workers[w].local)'
  BY <1>2, <1>3 DEF BatchInv
<1>6. ReadInv(workers[w])' /\ StaysLate(w)
  BY <1>2, <1>3, <1>4, <1>5 DEF ReadInv, StaysLate, Reaching
<1> QED
  BY <1>3, <1>4, <1>6, WorkerKeeps

\* A directory is completed when all of it that was left alone is recorded.
LEMMA FinishDirectoryKeeps ==
  ASSUME SInv, NEW w \in Workers, FinishDirectory(w), UNCHANGED <<disk, approval, touched>>,
         LateStep(w)
  PROVE  SInv' /\ [Next]_jobs
<1> DEFINE x == workers[w]
           y == workers'[w]
           d == x.local.dir
<1>1. /\ x.pc \in {"read", "finishDir"} /\ x.pc \in HandlerPoints \ {"start"} /\ UNCHANGED jobs
      /\ x.pc = "read" => x.local.todo = {} /\ x.local.batch = {}
      /\ completeDirectory(d) /\ Continue(w, "save", Nothing)
  BY DEF FinishDirectory, At, HandlerPoints, Dir, Local
<1>2. /\ d \in Dirs /\ BatchInv(x.local) /\ scan.status # "none" /\ StoreInv
      /\ x.pc = "read" => Reads(x.local)
      /\ x.pc = "finishDir" => Children[d] \subseteq touched
  BY <1>1, HandlerFacts
<1>3. Covered(d)
  BY <1>1, <1>2 DEF Covered, Reads, BatchInv
<1>4. WorkersTyped' /\ Acts(w, {}, {}) /\ y.pc = "save" /\ y.local = Nothing
  BY <1>1, LocalTypes, GoesOn DEF HandlerPoints
<1>5. StoreInv' /\ Grows
  BY <1>1, <1>2, <1>3, DirectoryCompleted
<1>6. BatchInv(workers[w].local)' /\ y.local.dir \notin Dirs
  BY <1>4, LocalTypes, NothingRead DEF BatchInv
<1>7. ReadInv(workers[w])' /\ StaysLate(w)
  BY <1>2, <1>4, <1>5, <1>6 DEF ReadInv, StaysLate, Reaching, Grows
<1> QED
  BY <1>4, <1>5, <1>7, WorkerKeeps

-----------------------------------------------------------------------------
(* The other steps.                                                        *)

LEMMA ProcessMovesKeep ==
  ASSUME SInv, NEW w \in Workers, ProcessMoves(w), UNCHANGED <<scan, disk, approval, touched>>,
         LateStep(w)
  PROVE  SInv' /\ [Next]_jobs
<1>1. /\ WorkersTyped' /\ ProcessActs(w) /\ workers'[w].pc \in Points
  <2>1. NoLocal \in Locals /\ IndInv /\ LinkInv /\ workers \in [Workers -> Worker(HandlerPoints, Locals)]
    BY LocalTypes DEF SInv, WorkersTyped
  <2>2. workers' \in [Workers -> Worker(HandlerPoints, Locals)] /\ ProcessActs(w)
    BY <2>1, ProcessMovesActs
  <2>3. workers'[w].pc \in Points
    BY <2>1, ProcessKeeps
  <2> QED
    BY <2>2, <2>3 DEF WorkersTyped
<1>2. PICK done, saved : Acts(w, done, saved)
  BY <1>1 DEF ProcessActs
<1>3. ReadInv(workers'[w]) /\ StaysLate(w)
  BY <1>1 DEF ReadInv, HandlerPoints, Points, StaysLate, Reaching
<1> QED
  BY <1>1, <1>2, <1>3, QuietKeeps

LEMMA WorkerMovesKeep ==
  ASSUME SInv, NEW w \in Workers, WorkerMoves(w), UNCHANGED <<disk, approval, touched>>
  PROVE  SInv' /\ [Next]_jobs
<1>1. LateStep(w)
  BY DEF WorkerMoves, LateStep
<1> QED
  BY <1>1, LoadKeeps, StartKeeps, ResumeScanKeeps, CheckKeeps, InterruptKeeps, LeaveKeeps,
     ClaimDirectoryKeeps, ReportScanKeeps, OpenDirectoryKeeps, ObserveEntryKeeps,
     BreakOffKeeps, FlushBatchKeeps, RecordIssueKeeps, FinishDirectoryKeeps,
     ProcessMovesKeep DEF WorkerMoves

LEMMA CrashKeeps ==
  ASSUME SInv, NEW w \in Workers, Crash(w), UNCHANGED <<scan, disk, approval, touched, late>>
  PROVE  SInv' /\ [Next]_jobs
<1>1. WorkersTyped' /\ Acts(w, {}, {}) /\ workers'[w].pc = "down"
  BY LocalTypes, DieActs DEF Crash, SInv, WorkersTyped
<1>2. ReadInv(workers'[w]) /\ StaysLate(w) /\ LateStep(w)
  BY <1>1 DEF ReadInv, HandlerPoints, StaysLate, LateStep, Reaching
<1> QED
  BY <1>1, <1>2, QuietKeeps

\* What the user leaves alone is what it was.
LEMMA EditKeeps ==
  ASSUME DiskInv, NEW p \in Touchable, NEW what, Edit(p, what), UNCHANGED approval
  PROVE  DiskInv' /\ touched \subseteq touched'
<1>1. p \in Paths /\ touched \subseteq Paths
  BY ScanAssumption DEF DiskInv
<1>2. /\ Below[p] \subseteq Paths
      /\ p \in Dirs => Children[p] \subseteq Below[p]
      /\ Closed(Below[p])
  <2>1. CASE p \in Dirs
    <3>1. Below[p] = {q \in Paths : \A S \in SUBSET Paths :
                        Children[p] \subseteq S /\ Closed(S) => q \in S}
      BY <1>1, <2>1 DEF Below
    <3>2. \A q \in Children[p] : q \in Paths
      BY <2>1, ChildrenArePaths
    <3>3. ASSUME NEW d \in Below[p] \cap Dirs, NEW q \in Children[d] PROVE q \in Below[p]
      <4>1. q \in Paths
        BY ChildrenArePaths
      <4>2. ASSUME NEW S \in SUBSET Paths, Children[p] \subseteq S, Closed(S) PROVE q \in S
        <5>1. d \in S
          BY <3>1, <4>2
        <5> QED
          BY <4>2, <5>1 DEF Closed
      <4> QED
        BY <3>1, <4>1, <4>2
    <3> QED
      BY <2>1, <3>1, <3>2, <3>3 DEF Closed
  <2>2. CASE p \notin Dirs
    BY <1>1, <2>2 DEF Below, Closed
  <2> QED
    BY <2>1, <2>2
<1>3. touched' = touched \cup {p} \cup Below[p]
  BY DEF Edit
<1>4. Closed(touched')
  BY <1>2, <1>3 DEF DiskInv, Closed
<1>5. /\ DOMAIN disk' = Paths
      /\ \A q \in Paths \ touched' : disk'[q] = disk[q]
  BY <1>3 DEF Edit
<1> QED
  BY <1>1, <1>2, <1>3, <1>4, <1>5 DEF DiskInv

LEMMA UserKeeps ==
  ASSUME SInv, User, UNCHANGED <<jobs, workers, scan>>
  PROVE  SInv'
<1>1. DiskInv' /\ touched \subseteq touched' /\ LateInv'
  <2>1. CASE /\ \E p \in Touchable, what \in {"file", "directory", "denied", "absent"} : Edit(p, what)
             /\ UNCHANGED <<approval, late>>
    BY <2>1, EditKeeps DEF SInv, LateInv
  <2>2. CASE MoveApproval /\ UNCHANGED disk
    <3>1. Closed(Paths) /\ late' = {}
      BY <2>2, ChildrenArePaths DEF Closed, MoveApproval
    <3>2. \/ touched' = Paths
          \/ touched' = touched /\ approval' # "away"
      BY <2>2 DEF MoveApproval
    <3> QED
      BY <2>2, <3>1, <3>2 DEF SInv, DiskInv, LateInv
  <2> QED
    BY <2>1, <2>2 DEF User
<1>2. StoreInv' /\ Grows
  <2>1. Frontier' = Frontier /\ Known' = Known /\ Rows("completed")' = Rows("completed")
    BY DEF Frontier, Known, Rows
  <2>2. StoreTyped' /\ CountsMatchTheRecords'
    BY <2>1 DEF SInv, StoreInv, StoreTyped, CountsMatchTheRecords, With
  <2>3. CoveredRows'
    BY <1>1, <2>1 DEF SInv, StoreInv, CoveredRows, Covered
  <2> QED
    BY <2>1, <2>2, <2>3 DEF SInv, StoreInv, Grows
<1>3. \A w \in Workers : ReadInv(workers[w])'
  BY <1>1, <1>2, ReadKept DEF SInv
<1>4. IndInv' /\ LinkInv' /\ WorkersTyped'
  BY LinkTable, QuietEffect, IndInvNext DEF SInv, WorkersTyped, Effect
<1> QED
  BY <1>1, <1>2, <1>3, <1>4 DEF SInv

LEMMA QueueSteps ==
  ASSUME SInv, UNCHANGED <<workers, scan, disk, approval, touched, late>>,
         SubmitScan \/ Control \/ Tick
  PROVE  SInv' /\ [Next]_jobs
<1>1. Next /\ Effect({}, {})
  BY SubmitEffect, ControlEffect, TickEffect DEF SubmitScan, Control, Next, ClientStep, SInv
<1> QED
  BY <1>1, QueueKeeps

-----------------------------------------------------------------------------
(* The invariant is inductive, with and without the planner.               *)

LEMMA SInvInit == SInit => SInv
<1> SUFFICES ASSUME SInit PROVE SInv
  OBVIOUS
<1>1. IndInv /\ Ids = {}
  BY IndInvInit, EmptySeq DEF SInit, ProcessInit, Init, Ids
<1>2. Idle("recover") \in Worker(HandlerPoints, Locals) /\ Idle("recover").pc = "recover"
  BY LocalTypes, IdleType DEF Points
<1>3. WorkersTyped /\ \A w \in Workers : workers[w].pc = "recover"
  BY <1>2 DEF WorkersTyped, SInit, ProcessInit
<1>4. LinkInv
  BY <1>1, <1>3 DEF LinkInv, Bounded, LinkOK, Linked
<1>5. StoreInv
  <2>1. /\ StoreTyped /\ scan.status = "none" /\ scan.records = {} /\ Frontier = <<>>
        /\ scan.counts = NoScan.counts
    BY NoScanType, FS_EmptySet DEF SInit, StoreTyped, Frontier
  <2>2. Rows("completed") = {}
    BY <2>1 DEF Rows
  <2> QED
    BY <2>1, <2>2, EmptyCounts DEF StoreInv, CoveredRows
<1>6. DiskInv /\ LateInv
  BY DEF SInit, DiskInv, LateInv, Closed
<1>7. \A w \in Workers : ReadInv(workers[w])
  BY <1>3 DEF ReadInv, HandlerPoints
<1> QED
  BY <1>1, <1>3, <1>4, <1>5, <1>6, <1>7 DEF SInv

\* A step of nobody.
LEMMA SameKeeps ==
  ASSUME SInv, UNCHANGED <<jobs, workers, scan, disk, approval, touched, late>>
  PROVE  SInv' /\ [Next]_jobs
BY QuietEffect, QueueKeeps

LEMMA SInvNext == SInv /\ [SNext]_vars => SInv' /\ [Next]_jobs
<1> SUFFICES ASSUME SInv, [SNext]_vars PROVE SInv' /\ [Next]_jobs
  OBVIOUS
<1>1. CASE UNCHANGED vars
  BY <1>1, SameKeeps DEF vars
<1>2. CASE User /\ UNCHANGED <<jobs, workers, crashes, scan>>
  BY <1>2, UserKeeps
<1> QED
  BY <1>1, <1>2, QueueSteps, WorkerMovesKeep, CrashKeeps DEF SNext

\* A step on the reviews is none of the scan's and none of the plan's.
LEMMA ReviewEffect ==
  ASSUME ReviewMoves
  PROVE  /\ UNCHANGED <<jobs, workers, crashes, scan, disk, approval, touched, late, plan>>
         /\ held' \subseteq held /\ held' \subseteq InReview'
<1>1. CASE \E k \in Reviewable \cup Groups : createNeedsReview(k) \/ resolveNeedsReview(k)
  BY <1>1 DEF createNeedsReview, resolveNeedsReview, Reviewed, Asked, vars
<1>2. CASE clearDuplicateGroups \/ \E d \in Groups : upsertExactGroup(d)
  BY <1>2 DEF clearDuplicateGroups, upsertExactGroup, Reviewed, Asked, vars
<1> QED
  BY <1>1, <1>2 DEF ReviewMoves

LEMMA SameReviews ==
  ASSUME UNCHANGED reviewing
  PROVE  UNCHANGED <<InReview, held>>
BY DEF reviewing, InReview

LEMMA PlanningKeeps == SInv /\ [PNext]_planVars => SInv' /\ [Next]_jobs
<1> SUFFICES ASSUME SInv, [PNext]_planVars PROVE SInv' /\ [Next]_jobs
  OBVIOUS
<1>1. CASE UNCHANGED vars
  BY <1>1, SameKeeps DEF vars
<1>2. CASE ReviewMoves
  BY <1>2, SameKeeps, ReviewEffect
<1> QED
  BY <1>1, <1>2, SInvNext DEF PNext, planVars

-----------------------------------------------------------------------------
(* One worker and one job: who may read while a scan is said to be complete. *)

Handling == {"check", "next", "open", "read", "issue", "finishDir", "save", "report"}
Closing == {"lastSave", "lastReport", "close"}

\* From the cancellation of the scan to that of its job.
Quitting == {"leave", "retryScan", "ackCancel", "down", "recover", "claim"}

Ended(row) == row.status = "cancelled" \/ (row.status = "running" /\ row.cancel)
Ending == 1 \in Ids /\ Ended(jobs[1])

AllDone == \A i \in DOMAIN Frontier : Frontier[i].state = "completed"
DoneScanned == \A j \in Ids : jobs[j].status = "completed" => scan.status = "completed"

\* The worker x is the only one.  Nobody reads a directory but x; the scan is
\* completed when nothing is left to read, and not read again; resumeScan leaves a
\* cancelled scan as it is, but a job whose scan is cancelled is not claimed again.
SoleInv(x) ==
  /\ workers[x].pc \in Handling =>
       \A i \in Rows("processing") : Frontier[i].path = workers[x].local.dir
  /\ workers[x].pc \in Closing => AllDone
  /\ workers[x].pc \in {"finish", "complete"} => scan.status = "completed"
  /\ workers[x].pc = "cancelScan" => Ending
  /\ scan.status = "completed" => AllDone /\ workers[x].pc \in Points \cup {"start"}
  /\ scan.status = "cancelled" => Ending /\ workers[x].pc \in Quitting
  /\ DoneScanned

\* A step that leaves the scan alone.
LEMMA SoleStep ==
  ASSUME NEW x \in Workers, SoleInv(x), UNCHANGED scan, DoneScanned',
         workers'[x].pc \in Handling =>
           workers[x].pc \in Handling /\ workers'[x].local.dir = workers[x].local.dir,
         workers'[x].pc \in Closing => workers[x].pc \in Closing,
         workers'[x].pc \in {"finish", "complete"} => scan.status = "completed",
         workers'[x].pc = "cancelScan" => Ending',
         scan.status = "completed" => workers'[x].pc \in Points \cup {"start"},
         scan.status = "cancelled" => Ending' /\ workers'[x].pc \in Quitting
  PROVE  SoleInv(x)'
<1>1. Frontier' = Frontier /\ Rows("processing")' = Rows("processing") /\ AllDone' = AllDone
  BY DEF Frontier, Rows, AllDone
<1> QED
  BY <1>1 DEF SoleInv

\* Jobs do not complete by themselves.
LEMMA DoneKept ==
  ASSUME DoneScanned, NEW saved, Effect({}, saved),
         scan.status = "completed" => scan'.status = "completed"
  PROVE  DoneScanned'
<1> SUFFICES ASSUME NEW j \in Ids', jobs'[j].status = "completed"
             PROVE  scan'.status = "completed"
  BY DEF DoneScanned
<1>1. j \in Ids
  BY NewRow DEF Effect
<1> QED
  BY <1>1 DEF Effect, DoneScanned

\* A job whose cancellation is requested runs until it is cancelled.
LEMMA EndingStays ==
  ASSUME IndInv, Ending, SubmitScan \/ Control \/ Tick
  PROVE  Ending'
<1>1. /\ jobs \in Seq(Row) /\ 1 \in Ids /\ jobs[1] \in Row
      /\ jobs[1].status = "cancelled" \/ (jobs[1].status = "running" /\ jobs[1].cancel)
  BY RowsOfTable DEF IndInv, TypeOK, Ending, Ended, Ids
<1>2. CASE SubmitScan
  <2>1. PICK s \in Submissions : jobs' = Append(jobs, QueuedRow(s))
    BY <1>2 DEF SubmitScan, Submit
  <2>2. 1 \in DOMAIN jobs' /\ jobs'[1] = jobs[1]
    BY <1>1, <2>1 DEF Ids
  <2> QED
    BY <1>1, <2>2 DEF Ending, Ended, Ids
<1>3. CASE Control
  <2>1. PICK j \in Ids : RequestPause(j) \/ Resume(j) \/ Cancel(j)
    BY <1>3 DEF Control
  <2>2. DOMAIN jobs' = DOMAIN jobs /\ (j # 1 => jobs'[1] = jobs[1])
    BY <1>1, <2>1 DEF RequestPause, Resume, Cancel, Write, Ids
  <2>3. j = 1 => Ended(jobs'[1])
    <3> SUFFICES ASSUME j = 1 PROVE Ended(jobs'[1])
      OBVIOUS
    <3> DEFINE row == jobs[1]
               pausing == [row EXCEPT !.pause = TRUE, !.audit = Event("running", "running")]
               ending == [row EXCEPT !.cancel = TRUE, !.audit = Event("running", "running")]
    <3>1. row.status = "running" /\ row.cancel /\ (Write(1, pausing) \/ Write(1, ending))
      BY <1>1, <2>1 DEF RequestPause, Resume, Cancel
    <3>2. Ended(pausing) /\ Ended(ending)
      BY <1>1, <3>1 DEF Ended, Row
    <3> HIDE DEF pausing, ending
    <3>3. jobs'[1] = pausing \/ jobs'[1] = ending
      BY <1>1, <3>1 DEF Write, Ids
    <3> QED
      BY <3>2, <3>3
  <2> QED
    BY <1>1, <2>2, <2>3 DEF Ending, Ended, Ids
<1>4. CASE Tick
  <2>1. 1 \in Ids' /\ jobs'[1].status = jobs[1].status /\ jobs'[1].cancel = jobs[1].cancel
    BY <1>1, <1>4 DEF Tick, Ids, Row
  <2> QED
    BY <1>1, <2>1 DEF Ending, Ended
<1> QED
  BY <1>2, <1>3, <1>4

\* The only job is that of the only worker.
LEMMA SoleJob ==
  ASSUME MaxJobs = 1, SInv, NEW x \in Workers
  PROVE  /\ Linked(workers[x]) => workers[x].job = 1 /\ 1 \in Ids
         /\ \A j \in Ids : j = 1
<1>1. Ids \subseteq {1}
  BY DEF SInv, LinkInv, Bounded
<1> QED
  BY <1>1 DEF SInv, LinkInv, LinkOK

\* A job that is to be cancelled is not claimed, and recovered as cancelled.
LEMMA QuittingProcess ==
  ASSUME MaxJobs = 1, SInv, NEW x \in Workers, Ending, workers[x].pc \in Quitting,
         ProcessMoves(x)
  PROVE  Ending' /\ workers'[x].pc \in Quitting
<1> DEFINE row == jobs[1]
           y == workers'[x]
<1>1. /\ IndInv /\ jobs \in Seq(Row) /\ 1 \in Ids /\ row \in Row /\ Ended(row)
      /\ \A j \in Ids : j = 1
      /\ workers[x] \in Worker(HandlerPoints, Locals) /\ x \in DOMAIN workers
  BY SoleJob, RowsOfTable DEF SInv, IndInv, TypeOK, Ids, Ending, WorkersTyped
<1>2. UNCHANGED jobs => Ending'
  BY DEF Ending, Ids
<1>3. ASSUME NEW point, Goto(x, point) PROVE y.pc = point
  BY <1>1, <1>3 DEF Goto, Worker
<1>4. ASSUME NEW point \in Points, Become(x, Idle(point)) PROVE y.pc = point
  BY <1>1, <1>4, LocalTypes, IdleType DEF Become
<1>5. CASE Recover(x)
  <2>1. y.pc = "claim" /\ (RecoverExpiredLeases \/ UNCHANGED jobs)
    BY <1>3, <1>5 DEF Recover
  <2>2. CASE RecoverExpiredLeases
    <3> DEFINE new == RecoveredRow(row)
    <3>1. 1 \in Ids' /\ jobs'[1] = IF Expired(row) THEN new ELSE row
      BY <1>1, <2>2 DEF RecoverExpiredLeases, Ids
    <3>2. ASSUME Expired(row) PROVE new.status = "cancelled"
      <4>1. RecoveredStatus(row) = "cancelled" /\ RowInv(row) /\ row.status = "running"
        BY <1>1, <3>2 DEF Expired, Ended, RecoveredStatus, IndInv
      <4> DEFINE mid == Released(row, Len(row.attempts), "lease-expired", "cancelled")
      <4>2. mid \in Row /\ mid.status = "cancelled"
        <5>1. "lease-expired" \in Outcomes \ {"open"} /\ "cancelled" \in Statuses \ {"running"}
          BY DEF Outcomes, Statuses
        <5>2. LeftRunning(row, mid, "lease-expired", "cancelled")
          BY <1>1, <4>1, <5>1, ReleasedRow
        <5> HIDE DEF mid
        <5> QED
          BY <5>2 DEF LeftRunning
      <4>3. new = [mid EXCEPT !.cancel = FALSE, !.checkpoint = KeptCheckpoint(row)]
        BY <4>1 DEF RecoveredRow
      <4> HIDE DEF mid, new
      <4> QED
        BY <4>2, <4>3 DEF Row
    <3> HIDE DEF new
    <3> QED
      BY <1>1, <2>1, <3>1, <3>2 DEF Ending, Ended, Quitting
  <2> QED
    BY <1>2, <2>1, <2>2 DEF Quitting
<1>6. CASE Claim(x)
  <2>1. ASSUME NEW j \in Ids, ClaimNext(j, Supports[x]) PROVE FALSE
    BY <1>1, <2>1 DEF ClaimNext, Claimable, Ended
  <2>2. Goto(x, "recover") /\ UNCHANGED jobs
    BY <1>6, <2>1 DEF Claim
  <2> QED
    BY <1>2, <1>3, <2>2 DEF Quitting
<1>7. CASE AcknowledgeCancel(x)
  <2>1. workers[x].pc = "ackCancel"
    BY <1>7 DEF AcknowledgeCancel, At
  <2>2. CASE Die(x)
    BY <1>2, <1>4, <2>2 DEF Die, Quitting, Points
  <2>3. CASE AcknowledgeCancelled(1, Attempt(x)) /\ Become(x, Idle("recover"))
    <3> DEFINE new == CancelledRow(row)
    <3>1. Write(1, new) /\ row.status = "running"
      BY <2>3 DEF AcknowledgeCancelled, HoldsLease
    <3>2. new.status = "cancelled"
      <4> DEFINE mid == Released(row, row.lease, "cancelled", "cancelled")
      <4>1. row.lease = Len(row.attempts) /\ RowInv(row)
        BY <1>1, <3>1 DEF IndInv, RowInv
      <4>2. mid \in Row /\ mid.status = "cancelled"
        <5>1. "cancelled" \in Outcomes \ {"open"} /\ "cancelled" \in Statuses \ {"running"}
          BY DEF Outcomes, Statuses
        <5>2. LeftRunning(row, mid, "cancelled", "cancelled")
          BY <1>1, <3>1, <4>1, <5>1, ReleasedRow
        <5> HIDE DEF mid
        <5> QED
          BY <5>2 DEF LeftRunning
      <4>3. new = [mid EXCEPT !.cancel = FALSE]
        BY DEF CancelledRow
      <4> HIDE DEF mid, new
      <4> QED
        BY <4>2, <4>3 DEF Row
    <3> HIDE DEF new
    <3>3. 1 \in Ids' /\ jobs'[1] = new
      BY <1>1, <3>1 DEF Write, Ids
    <3> QED
      BY <1>4, <2>3, <3>2, <3>3 DEF Ending, Ended, Quitting, Points
  <2>4. Job(x) = 1
    BY <2>1, SoleJob DEF Linked, Job
  <2> QED
    BY <1>7, <2>2, <2>3, <2>4 DEF AcknowledgeCancel, ReportEnd
<1>8. CASE Restart(x)
  BY <1>2, <1>3, <1>8 DEF Restart, Quitting
<1>9. Recover(x) \/ Claim(x) \/ AcknowledgeCancel(x) \/ Restart(x)
  BY DEF ProcessMoves, runOnce, Finish, CompleteJob, FailJob, AcknowledgePause, At, Quitting
<1> QED
  BY <1>5, <1>6, <1>7, <1>8, <1>9

LEMMA SoleProcess ==
  ASSUME MaxJobs = 1, SInv, NEW x \in Workers, SoleInv(x), ProcessMoves(x), UNCHANGED scan
  PROVE  SoleInv(x)'
<1>1. /\ workers[x].pc \in Points /\ workers'[x].pc \in Points \ {"finish"} /\ TableStep
      /\ workers'[x].pc = "complete" => workers[x].pc = "finish"
      /\ \A j \in Ids : jobs'[j].status = "completed" =>
                          jobs[j].status = "completed" \/ workers[x].pc = "complete"
  <2>1. NoLocal \in Locals /\ IndInv /\ LinkInv /\ workers \in [Workers -> Worker(HandlerPoints, Locals)]
    BY LocalTypes DEF SInv, WorkersTyped
  <2> QED
    BY <2>1, ProcessKeeps
<1>2. DoneScanned'
  <2> SUFFICES ASSUME NEW j \in Ids', jobs'[j].status = "completed"
               PROVE  scan.status = "completed"
    BY DEF DoneScanned
  <2>1. j \in Ids
    BY <1>1, NewRow
  <2> QED
    BY <1>1, <2>1 DEF SoleInv, DoneScanned
<1>3. scan.status = "cancelled" => Ending' /\ workers'[x].pc \in Quitting
  BY QuittingProcess DEF SoleInv
<1>4. /\ workers'[x].pc \notin Handling \cup Closing \cup {"cancelScan"}
  BY <1>1 DEF Points, Handling, Closing
<1>5. workers'[x].pc = "complete" => scan.status = "completed"
  BY <1>1 DEF SoleInv
<1> QED
  BY <1>1, <1>2, <1>3, <1>4, <1>5, SoleStep

\* A worker that ends by itself.
LEMMA SoleCrash ==
  ASSUME SInv, NEW x \in Workers, SoleInv(x), Crash(x), UNCHANGED scan
  PROVE  SoleInv(x)'
<1>1. /\ UNCHANGED jobs /\ workers'[x].pc = "down"
  BY LocalTypes, DieActs DEF Crash, Die, SInv, WorkersTyped
<1>2. DoneScanned' /\ (scan.status = "cancelled" => Ending')
  BY <1>1 DEF SoleInv, DoneScanned, Ending, Ids
<1> QED
  BY <1>1, <1>2, SoleStep DEF Handling, Closing, Points, Quitting

\* The clients and the clock.
LEMMA SoleQueue ==
  ASSUME SInv, NEW x \in Workers, SoleInv(x), SubmitScan \/ Control \/ Tick,
         UNCHANGED <<workers, scan>>
  PROVE  SoleInv(x)'
<1>1. Effect({}, {})
  BY SubmitEffect, ControlEffect, TickEffect DEF SubmitScan, Control, SInv
<1>2. DoneScanned'
  BY <1>1, DoneKept DEF SoleInv
<1>3. Ending => Ending'
  BY EndingStays DEF SInv
<1> QED
  BY <1>2, <1>3, SoleStep DEF SoleInv

\* Where a worker is when it may be reading: then the scan is neither completed nor
\* cancelled.
Busy == HandlerPoints \ {"start", "leave", "retryScan"}

LEMMA SoleBusy ==
  ASSUME NEW x \in Workers, SoleInv(x), workers[x].pc \in Busy
  PROVE  scan.status \notin {"completed", "cancelled"} /\ DoneScanned
BY DEF SoleInv, Busy, HandlerPoints, Points, Quitting

LEMMA SoleQuiet ==
  ASSUME NEW x \in Workers, SoleInv(x), workers[x].pc \in Busy,
         UNCHANGED scan, NEW saved, Acts(x, {}, saved),
         workers'[x].pc \in Handling =>
           workers[x].pc \in Handling /\ workers'[x].local.dir = workers[x].local.dir,
         workers'[x].pc \in Closing => workers[x].pc \in Closing,
         workers'[x].pc \notin {"finish", "complete"},
         workers'[x].pc = "cancelScan" => Ending'
  PROVE  SoleInv(x)'
<1>1. scan.status \notin {"completed", "cancelled"} /\ DoneScanned
  BY SoleBusy
<1>2. DoneScanned'
  BY <1>1, DoneKept DEF Acts
<1> QED
  BY <1>1, <1>2, SoleStep

\* The steps of the handler.
LEMMA SoleLoad ==
  ASSUME SInv, NEW x \in Workers, SoleInv(x), Load(x)
  PROVE  SoleInv(x)'
<1>1. /\ LoadJob(x, "start", Nothing) /\ At(x, "load") /\ workers[x].pc = "load"
      /\ UNCHANGED <<jobs, scan>>
      /\ workers \in [Workers -> Worker(HandlerPoints, Locals)] /\ IndInv /\ LinkInv
      /\ "start" \in Points \cup HandlerPoints
  BY DEF Load, LoadJob, At, SInv, WorkersTyped, HandlerPoints
<1>2. workers'[x].pc \in {"down", "start"}
  BY <1>1, LocalTypes, LoadJobActs
<1>3. scan.status # "cancelled" /\ DoneScanned'
  BY <1>1 DEF SoleInv, Quitting, DoneScanned, Ids
<1> QED
  BY <1>1, <1>2, <1>3, SoleStep DEF Handling, Closing, Points

LEMMA SoleStart ==
  ASSUME SInv, NEW x \in Workers, SoleInv(x), Start(x)
  PROVE  SoleInv(x)'
<1>1. /\ workers[x].pc = "start" /\ workers[x].pc \in HandlerPoints /\ UNCHANGED jobs
      /\ \/ scan.status = "completed" /\ Goto(x, "finish") /\ UNCHANGED scan
         \/ scan.status # "completed" /\ Goto(x, "resume") /\ startOrLoadScan
  BY DEF Start, At, HandlerPoints
<1>2. scan.status # "cancelled" /\ DoneScanned
  BY <1>1 DEF SoleInv, Quitting
<1>3. CASE scan.status = "completed" /\ Goto(x, "finish") /\ UNCHANGED scan
  <2>1. workers'[x].pc = "finish"
    BY <1>1, <1>3, GoesOn DEF Points
  <2>2. DoneScanned'
    BY <1>3 DEF DoneScanned
  <2> QED
    BY <1>2, <1>3, <2>1, <2>2, SoleStep DEF Handling, Closing, Points
<1>4. CASE scan.status # "completed" /\ Goto(x, "resume") /\ startOrLoadScan
  <2>1. workers'[x].pc = "resume"
    BY <1>1, <1>4, GoesOn DEF HandlerPoints
  <2>2. scan'.status \notin {"completed", "cancelled"}
    BY <1>2, <1>4, NoScanType DEF startOrLoadScan, NoScan
  <2>3. DoneScanned'
    BY <1>1, <1>2, <1>4 DEF DoneScanned, Ids
  <2> QED
    BY <2>1, <2>2, <2>3 DEF SoleInv, Handling, Closing
<1> QED
  BY <1>1, <1>3, <1>4

\* resumeScan gives back every row that is being processed.
LEMMA RowsReturned ==
  ASSUME StoreInv, scan.status \notin {"completed", "cancelled"}, resumeScan
  PROVE  /\ scan'.status = "running"
         /\ \A i \in DOMAIN Frontier' : Frontier'[i].state # "processing"
<1> DEFINE f == [i \in DOMAIN Frontier |-> IF Frontier[i].state = "processing"
                                           THEN [Frontier[i] EXCEPT !.state = "pending"]
                                           ELSE Frontier[i]]
<1>1. /\ scan \in [status : ScanStatuses, records : SUBSET Records,
                   frontier : Seq(FrontierRow), counts : Counts]
      /\ scan' = [scan EXCEPT !.status = "running", !.frontier = f]
      /\ \A i \in DOMAIN Frontier : Frontier[i] \in FrontierRow
  BY ElementOfSeq, LenProperties DEF resumeScan, StoreInv, StoreTyped, Frontier
<1>2. DOMAIN f = DOMAIN Frontier /\ \A i \in DOMAIN f : f[i].state # "processing"
  BY <1>1 DEF FrontierRow
<1> HIDE DEF f
<1>3. scan'.status = "running" /\ Frontier' = f
  BY <1>1 DEF Frontier
<1> QED
  BY <1>2, <1>3

\* Nobody else reads, so nobody reads when x begins.
LEMMA SoleResume ==
  ASSUME SInv, NEW x \in Workers, SoleInv(x), ResumeScan(x)
  PROVE  SoleInv(x)'
<1>1. /\ workers[x].pc = "resume" /\ workers[x].pc \in Busy /\ UNCHANGED jobs
      /\ \/ Goto(x, "check") /\ resumeScan
         \/ Goto(x, "failScan") /\ UNCHANGED scan
  BY DEF ResumeScan, Step, At, Busy, HandlerPoints
<1>2. scan.status \notin {"completed", "cancelled"} /\ DoneScanned
  BY <1>1, SoleBusy
<1>3. CASE Goto(x, "check") /\ resumeScan
  <2>1. workers'[x].pc = "check"
    BY <1>1, <1>3, GoesOn DEF HandlerPoints, Busy
  <2>2. /\ scan'.status = "running"
        /\ \A i \in DOMAIN Frontier' : Frontier'[i].state # "processing"
    BY <1>2, <1>3, RowsReturned DEF SInv
  <2>3. DoneScanned'
    BY <1>1, <1>2 DEF DoneScanned, Ids
  <2> QED
    BY <2>1, <2>2, <2>3 DEF SoleInv, Rows, Closing
<1>4. CASE Goto(x, "failScan") /\ UNCHANGED scan
  <2>1. workers'[x].pc = "failScan" /\ Acts(x, {}, {})
    BY <1>1, <1>4, GoesOn DEF HandlerPoints, Busy
  <2> QED
    BY <1>1, <1>4, <2>1, SoleQuiet DEF Handling, Closing
<1> QED
  BY <1>1, <1>3, <1>4

LEMMA SoleCheck ==
  ASSUME MaxJobs = 1, SInv, NEW x \in Workers, SoleInv(x), Check(x)
  PROVE  SoleInv(x)'
<1> DEFINE point == IF ~Approved(x) THEN "failScan"
                    ELSE CASE controlSignal(x) = "stale" -> "retryScan"
                           [] controlSignal(x) = "cancel" -> "cancelScan"
                           [] controlSignal(x) = "pause" -> "pauseScan"
                           [] OTHER -> IF Dir(x) = NoDir THEN "next" ELSE "read"
<1>1. /\ workers[x].pc = "check" /\ workers[x].pc \in HandlerPoints /\ workers[x].pc \in Busy
      /\ UNCHANGED <<jobs, scan>> /\ Goto(x, point)
  BY DEF Check, At, HandlerPoints, Busy
<1>2. point \in {"failScan", "retryScan", "cancelScan", "pauseScan", "next", "read"}
  OBVIOUS
<1>3. point = "cancelScan" => controlSignal(x) = "cancel"
  OBVIOUS
<1> HIDE DEF point
<1>4. workers'[x].pc = point /\ workers'[x].local = workers[x].local /\ Acts(x, {}, {})
  BY <1>1, <1>2, GoesOn DEF HandlerPoints
<1>5. ASSUME controlSignal(x) = "cancel" PROVE Ending'
  <2>1. Job(x) = 1 /\ 1 \in Ids
    BY <1>1, SoleJob DEF Linked, Job
  <2>2. jobs[1].status = "running" /\ jobs[1].cancel
    BY <1>5, <2>1 DEF controlSignal, LeaseLost, HoldsLease
  <2> QED
    BY <1>1, <2>1, <2>2 DEF Ending, Ended, Ids
<1> QED
  BY <1>1, <1>2, <1>3, <1>4, <1>5, SoleQuiet DEF Handling, Closing

LEMMA SoleInterrupt ==
  ASSUME SInv, NEW x \in Workers, SoleInv(x), InterruptScan(x) \/ CloseScan(x) \/ FailScan(x)
  PROVE  SoleInv(x)'
<1> DEFINE pc == workers[x].pc
           point == workers'[x].pc
<1>1. /\ pc \in HandlerPoints /\ UNCHANGED jobs
      /\ \/ pc = "pauseScan" /\ Goto(x, "leave") /\ setScanStatus("paused")
         \/ pc = "cancelScan" /\ Goto(x, "leave") /\ setScanStatus("cancelled")
         \/ pc = "close" /\ Goto(x, "finish") /\ setScanStatus("completed")
         \/ /\ pc \in {"failScan", "retryScan"} /\ setScanStatus("failed")
            /\ \E retryable \in BOOLEAN : Throw(x, retryable)
  BY DEF InterruptScan, CloseScan, FailScan, Step, At, HandlerPoints
<1>2. \/ pc = "pauseScan" /\ point = "leave" /\ scan'.status = "paused"
      \/ pc = "cancelScan" /\ point = "leave" /\ scan'.status = "cancelled"
      \/ pc = "close" /\ point = "finish" /\ scan'.status = "completed"
      \/ pc \in {"failScan", "retryScan"} /\ point = "fail" /\ scan'.status = "failed"
  <2>1. \A status : setScanStatus(status) => scan'.status = status
    BY DEF setScanStatus, SInv, StoreInv, StoreTyped
  <2> QED
    BY <1>1, <2>1, GoesOn DEF HandlerPoints, Points
<1>3. scan'.frontier = scan.frontier
  BY <1>1 DEF setScanStatus, SInv, StoreInv, StoreTyped
<1>4. scan.status # "completed" /\ (pc = "close" => AllDone) /\ (pc = "cancelScan" => Ending)
      /\ DoneScanned
  BY <1>1 DEF SoleInv, HandlerPoints, Points, Closing
<1>5. DoneScanned' /\ (Ending => Ending') /\ (AllDone => AllDone')
  BY <1>1, <1>3, <1>4 DEF DoneScanned, Ending, AllDone, Frontier, Ids
<1> QED
  BY <1>2, <1>4, <1>5 DEF SoleInv, Handling, Closing, Points, Quitting

\* The calls of the execution context.
LEMMA ContextCalls ==
  ASSUME SInv, NEW x \in Workers, workers[x].pc \in HandlerPoints,
         NEW point \in Points \cup HandlerPoints, NEW local \in Locals
  PROVE  /\ SaveContext(x, 0, point, local) =>
              /\ Acts(x, {}, {workers[x].job})
              /\ workers'[x].pc = point /\ workers'[x].local = local
         /\ ReportContext(x, point, local) =>
              /\ Acts(x, {}, {})
              /\ workers'[x].pc = point /\ workers'[x].local = local
<1>1. /\ Linked(workers[x]) /\ IndInv /\ LinkInv /\ 0 \in Checkpoints
      /\ workers \in [Workers -> Worker(HandlerPoints, Locals)]
  BY HandlerFacts, BoundsAssumption DEF SInv, WorkersTyped, Checkpoints
<1>2. ASSUME SaveContext(x, 0, point, local)
      PROVE  /\ Acts(x, {}, {workers[x].job})
             /\ workers'[x].pc = point /\ workers'[x].local = local
  BY <1>1, <1>2, SaveContextActs
<1>3. ASSUME ReportContext(x, point, local)
      PROVE  /\ Acts(x, {}, {})
             /\ workers'[x].pc = point /\ workers'[x].local = local
  BY <1>1, <1>3, ReportContextActs
<1> QED
  BY <1>2, <1>3

\* saveCheckpoint asks for the lease, and a job that is to be cancelled is.
LEMMA SoleLeave ==
  ASSUME MaxJobs = 1, SInv, NEW x \in Workers, SoleInv(x), Leave(x)
  PROVE  SoleInv(x)'
<1> DEFINE point == IF jobs[Job(x)].cancel THEN "ackCancel" ELSE "ackPause"
<1>1. /\ workers[x].pc = "leave" /\ workers[x].pc \in HandlerPoints /\ UNCHANGED scan
      /\ SaveContext(x, 0, point, Nothing) \/ (Goto(x, "retryScan") /\ UNCHANGED jobs)
  BY DEF Leave, At, HandlerPoints
<1>2. /\ scan.status # "completed" /\ DoneScanned /\ (scan.status = "cancelled" => Ending)
      /\ Job(x) = 1 /\ 1 \in Ids /\ Linked(workers[x]) /\ IndInv /\ LinkInv
      /\ workers \in [Workers -> Worker(HandlerPoints, Locals)]
  BY <1>1, SoleJob DEF SoleInv, HandlerPoints, Points, Linked, Job, SInv, WorkersTyped
<1>3. CASE SaveContext(x, 0, point, Nothing)
  <2>1. point \in {"ackCancel", "ackPause"} /\ 0 \in Checkpoints
    BY BoundsAssumption DEF Checkpoints
  <2>2. Ending => point = "ackCancel" /\ Ending'
    <3> SUFFICES ASSUME Ending PROVE point = "ackCancel" /\ Ending'
      OBVIOUS
    <3> DEFINE row == jobs[1]
               new == [row EXCEPT !.checkpoint = 0, !.audit = Event("running", "running")]
    <3>1. row.status = "running" /\ row.cancel /\ Write(1, new) /\ row \in Row /\ jobs \in Seq(Row)
      BY <1>2, <1>3, RowsOfTable
         DEF SaveContext, SaveCheckpoint, HoldsLease, Ending, Ended, IndInv, TypeOK, Ids
    <3>2. new.status = "running" /\ new.cancel
      BY <3>1 DEF Row
    <3> HIDE DEF new
    <3>3. 1 \in Ids' /\ jobs'[1] = new
      BY <1>2, <3>1 DEF Write, Ids
    <3> QED
      BY <1>2, <3>1, <3>2, <3>3 DEF Ending, Ended
  <2> HIDE DEF point
  <2>3. point \in Points \cup HandlerPoints
    BY <2>1 DEF Points
  <2>4. Acts(x, {}, {workers[x].job}) /\ workers'[x].pc = point
    BY <1>1, <1>3, <2>3, LocalTypes, ContextCalls
  <2>5. DoneScanned'
    BY <1>1, <1>2, <2>4, DoneKept DEF Acts
  <2> QED
    BY <1>1, <1>2, <2>1, <2>2, <2>4, <2>5, SoleStep DEF Handling, Closing, Points, Quitting
<1>4. CASE Goto(x, "retryScan") /\ UNCHANGED jobs
  <2>1. workers'[x].pc = "retryScan"
    BY <1>1, <1>4, GoesOn DEF HandlerPoints
  <2>2. DoneScanned' /\ (Ending => Ending')
    BY <1>1, <1>2, <1>4 DEF DoneScanned, Ending, Ids
  <2> QED
    BY <1>1, <1>2, <2>1, <2>2, SoleStep DEF Handling, Closing, Quitting
<1> QED
  BY <1>1, <1>3, <1>4

\* The worker reads what it has claimed, or nothing is left to read.
LEMMA SoleClaims ==
  ASSUME SInv, NEW x \in Workers, SoleInv(x), ClaimDirectory(x)
  PROVE  SoleInv(x)'
<1> DEFINE d == Frontier[FirstPending].path
<1>1. /\ workers[x].pc = "next" /\ workers[x].pc \in HandlerPoints /\ workers[x].pc \in Busy
      /\ UNCHANGED jobs
      /\ \/ /\ Rows("pending") # {} /\ claimNextDirectory
            /\ Continue(x, "open", Reading(d))
         \/ Rows("pending") = {} /\ Goto(x, "lastSave") /\ UNCHANGED scan
  BY DEF ClaimDirectory, At, HandlerPoints, Busy, Reading
<1>2. /\ StoreInv /\ StoreTyped /\ workers[x].local.dir = NoDir /\ NoDir \notin Dirs
      /\ Frontier \in Seq(FrontierRow) /\ scan.frontier = Frontier
      /\ scan.status \notin {"completed", "cancelled"} /\ DoneScanned
  BY <1>1, HandlerFacts, LocalTypes, SoleBusy DEF StoreInv, StoreTyped, Frontier
<1>3. \A i \in DOMAIN Frontier : Frontier[i] \in FrontierRow
  BY <1>2
<1>4. \A i \in DOMAIN Frontier : Frontier[i].state # "processing"
  BY <1>1, <1>2, <1>3 DEF SoleInv, Handling, Rows, FrontierRow
<1>5. DoneScanned' /\ scan'.status = scan.status
  <2>1. scan'.status = scan.status
    BY <1>1, <1>2 DEF claimNextDirectory, StoreTyped
  <2> QED
    BY <1>1, <1>2, <2>1 DEF DoneScanned, Ids
<1>6. CASE Rows("pending") # {} /\ claimNextDirectory /\ Continue(x, "open", Reading(d))
  <2>1. FirstPending \in DOMAIN Frontier /\ d \in Dirs
    BY <1>2, <1>6, FirstIsPending DEF Rows
  <2> DEFINE k == FirstPending
             f == [Frontier EXCEPT ![k].state = "processing"]
  <2>2. /\ DOMAIN f = DOMAIN Frontier
        /\ \A i \in DOMAIN f : f[i].state = "processing" => i = k
        /\ f[k].path = d
    BY <1>3, <1>4, <2>1 DEF FrontierRow
  <2>3. scan'.frontier = f
    BY <1>2, <1>6 DEF claimNextDirectory, StoreTyped
  <2> HIDE DEF f, k, d
  <2>4. \A i \in Rows("processing")' : Frontier'[i].path = d
    BY <2>2, <2>3 DEF Rows, Frontier
  <2>5. Reading(d) \in Locals /\ Reading(d).dir = d
    BY <2>1, ReadingType
  <2>6. workers'[x].pc = "open" /\ workers'[x].local.dir = d
    BY <1>1, <1>6, <2>5, GoesOn DEF HandlerPoints
  <2> QED
    BY <1>2, <1>5, <2>4, <2>6 DEF SoleInv, Handling, Closing
<1>7. CASE Rows("pending") = {} /\ Goto(x, "lastSave") /\ UNCHANGED scan
  <2>1. workers'[x].pc = "lastSave"
    BY <1>1, <1>7, GoesOn DEF HandlerPoints
  <2>2. AllDone
    BY <1>3, <1>4, <1>7 DEF AllDone, Rows, FrontierRow, RowStates
  <2>3. AllDone'
    BY <1>7, <2>2 DEF AllDone, Frontier
  <2> QED
    BY <1>2, <1>5, <2>1, <2>3 DEF SoleInv, Handling, Closing
<1> QED
  BY <1>1, <1>6, <1>7

LEMMA SoleReport ==
  ASSUME SInv, NEW x \in Workers, SoleInv(x), ReportScan(x)
  PROVE  SoleInv(x)'
<1> DEFINE pc == workers[x].pc
           local == workers[x].local
<1>1. /\ pc \in {"save", "report", "lastSave", "lastReport"} /\ UNCHANGED scan
      /\ \/ pc = "save" /\ SaveContext(x, 0, "report", local)
         \/ pc = "report" /\ ReportContext(x, "check", local)
         \/ pc = "lastSave" /\ SaveContext(x, 0, "lastReport", Nothing)
         \/ pc = "lastReport" /\ ReportContext(x, "close", Nothing)
         \/ Goto(x, "retryScan") /\ UNCHANGED jobs
  BY DEF ReportScan, Step, At, Local
<1>2. /\ Linked(workers[x]) /\ local \in Locals /\ IndInv /\ LinkInv /\ pc \in HandlerPoints
      /\ pc \in Busy /\ workers \in [Workers -> Worker(HandlerPoints, Locals)]
      /\ 0 \in Checkpoints
      /\ {"report", "check", "lastReport", "close", "retryScan"} \subseteq Points \cup HandlerPoints
  BY <1>1, HandlerFacts, BoundsAssumption DEF SInv, WorkersTyped, HandlerPoints, Busy, Checkpoints
<1>3. ASSUME NEW point \in Points \cup HandlerPoints, NEW l \in Locals,
             SaveContext(x, 0, point, l) \/ ReportContext(x, point, l)
      PROVE  /\ workers'[x].pc = point /\ workers'[x].local = l
             /\ Acts(x, {}, {}) \/ Acts(x, {}, {workers[x].job})
  BY <1>2, <1>3, ContextCalls
<1>4. CASE pc = "save" /\ SaveContext(x, 0, "report", local)
  BY <1>1, <1>2, <1>3, <1>4, SoleQuiet DEF Handling, Closing
<1>5. CASE pc = "report" /\ ReportContext(x, "check", local)
  BY <1>1, <1>2, <1>3, <1>5, SoleQuiet DEF Handling, Closing
<1>6. CASE pc = "lastSave" /\ SaveContext(x, 0, "lastReport", Nothing)
  BY <1>1, <1>2, <1>3, <1>6, LocalTypes, SoleQuiet DEF Handling, Closing
<1>7. CASE pc = "lastReport" /\ ReportContext(x, "close", Nothing)
  BY <1>1, <1>2, <1>3, <1>7, LocalTypes, SoleQuiet DEF Handling, Closing
<1>8. CASE Goto(x, "retryScan") /\ UNCHANGED jobs
  <2>1. Acts(x, {}, {}) /\ workers'[x].pc = "retryScan"
    BY <1>2, <1>8, GoesOn
  <2> QED
    BY <1>1, <1>2, <2>1, SoleQuiet DEF Handling, Closing
<1> QED
  BY <1>1, <1>4, <1>5, <1>6, <1>7, <1>8

\* The worker goes on with its directory, or gives up.
LEMMA SoleReads ==
  ASSUME SInv, NEW x \in Workers, SoleInv(x), workers[x].pc \in {"open", "read"},
         UNCHANGED <<jobs, scan>>,
         \/ \E point \in {"failScan", "retryScan"} : Goto(x, point)
         \/ \E point \in {"issue", "read"} : \E local :
              local.dir = workers[x].local.dir /\ Continue(x, point, local)
  PROVE  SoleInv(x)'
<1>1. workers[x] \in Worker(HandlerPoints, Locals) /\ x \in DOMAIN workers
  BY DEF SInv, WorkersTyped
<1>2. \/ workers'[x].pc \in {"failScan", "retryScan"}
      \/ workers'[x].pc \in {"issue", "read"} /\ workers'[x].local.dir = workers[x].local.dir
  BY <1>1 DEF Goto, Continue, Worker
<1>3. scan.status \notin {"completed", "cancelled"} /\ DoneScanned
  BY SoleBusy DEF Busy, HandlerPoints
<1>4. DoneScanned'
  BY <1>3 DEF DoneScanned, Ids
<1> QED
  BY <1>2, <1>3, <1>4, SoleStep DEF Handling, Closing

LEMMA SoleOpens ==
  ASSUME SInv, NEW x \in Workers, SoleInv(x), OpenDirectory(x)
  PROVE  SoleInv(x)'
<1> DEFINE l == workers[x].local
           m == [l EXCEPT !.todo = {p \in Children[l.dir] : disk[p] # "absent"}]
<1>1. /\ workers[x].pc = "open" /\ workers[x].pc \in HandlerPoints /\ UNCHANGED <<jobs, scan>>
      /\ \/ \E point \in {"failScan", "retryScan"} : Goto(x, point)
         \/ \E status \in ObservationStatuses : Continue(x, "issue", IssueOf(l.dir, status))
         \/ Continue(x, "read", m)
  BY DEF OpenDirectory, At, HandlerPoints, Dir, Local, Issue, IssueOf, ObservationStatuses
<1>2. l \in Locals /\ l.dir \in Dirs
  BY <1>1, HandlerFacts
<1>3. m.dir = l.dir /\ \A status \in ObservationStatuses : IssueOf(l.dir, status).dir = l.dir
  BY <1>2, IssueType DEF Locals
<1> HIDE DEF m
<1> QED
  BY <1>1, <1>3, SoleReads

LEMMA SoleObserves ==
  ASSUME SInv, NEW x \in Workers, SoleInv(x), ObserveEntry(x)
  PROVE  SoleInv(x)'
<1> DEFINE l == workers[x].local
           observed(p) == [path |-> p, status |-> StatusAt(p)]
<1>1. workers[x].pc = "read" /\ workers[x].pc \in HandlerPoints /\ UNCHANGED <<jobs, scan>>
  BY DEF ObserveEntry, At, HandlerPoints
<1>2. PICK p \in l.todo :
        \/ Goto(x, "failScan")
        \/ Continue(x, "read", Looked(l, p, observed(p)))
  BY Zenon DEF ObserveEntry, Local, Looked, StatusAt, FoundAt
<1>3. l \in Locals
  BY <1>1, HandlerFacts
<1>4. p \in Paths /\ observed(p) \in Records
  BY <1>3 DEF Locals, Records, ObservationStatuses, StatusAt
<1> HIDE DEF observed
<1>5. Looked(l, p, observed(p)).dir = l.dir
  BY <1>3, <1>4, LookedFields
<1> QED
  BY <1>1, <1>2, <1>5, SoleReads

LEMMA SoleBreaksOff ==
  ASSUME SInv, NEW x \in Workers, SoleInv(x), BreakOff(x)
  PROVE  SoleInv(x)'
<1> DEFINE d == workers[x].local.dir
<1>1. /\ workers[x].pc = "read" /\ workers[x].pc \in HandlerPoints /\ UNCHANGED <<jobs, scan>>
      /\ Continue(x, "issue", IssueOf(d, "error"))
  BY DEF BreakOff, At, HandlerPoints, Dir, Local, Issue, IssueOf
<1>2. IssueOf(d, "error").dir = d
  BY <1>1, HandlerFacts, IssueType DEF ObservationStatuses
<1> QED
  BY <1>1, <1>2, SoleReads

\* A batch adds directories that nobody reads yet.
LEMMA SoleWrites ==
  ASSUME SInv, NEW x \in Workers, SoleInv(x), FlushBatch(x) \/ RecordIssue(x), UNCHANGED touched
  PROVE  SoleInv(x)'
<1> DEFINE l == workers[x].local
           found == IF workers[x].pc = "read" THEN l.found ELSE {}
<1>1. /\ workers[x].pc \in {"read", "issue"} /\ workers[x].pc \in HandlerPoints
      /\ workers[x].pc \in Busy /\ UNCHANGED jobs
      /\ writeBatch(l.batch, found)
      /\ \/ Continue(x, "save", [l EXCEPT !.batch = {}, !.found = {}])
         \/ Goto(x, "finishDir")
  BY DEF FlushBatch, RecordIssue, Step, At, Local, HandlerPoints, Busy
<1>2. /\ l \in Locals /\ StoreInv /\ scan.status # "none" /\ BatchInv(l)
      /\ scan.status \notin {"completed", "cancelled"} /\ DoneScanned
      /\ workers[x] \in Worker(HandlerPoints, Locals) /\ x \in DOMAIN workers
  BY <1>1, HandlerFacts, SoleBusy DEF SInv, WorkersTyped
<1>3. found \in SUBSET Dirs /\ found \subseteq {r.path : r \in l.batch}
  BY <1>2 DEF Locals, BatchInv
<1>4. workers'[x].pc \in {"save", "finishDir"} /\ workers'[x].local.dir = l.dir
  BY <1>1, <1>2 DEF Goto, Continue, Worker, Locals
<1> HIDE DEF found
<1>5. /\ scan'.status = scan.status
      /\ \A i \in DOMAIN Frontier : i \in DOMAIN Frontier' /\ Frontier'[i] = Frontier[i]
      /\ \A i \in DOMAIN Frontier' \ DOMAIN Frontier : Frontier'[i].state = "pending"
  BY <1>1, <1>2, <1>3, BatchWritten DEF Locals, BatchInv
<1>6. DoneScanned'
  BY <1>1, <1>2, <1>5 DEF DoneScanned, Ids
<1>7. \A i \in Rows("processing")' : i \in Rows("processing") /\ Frontier'[i].path = l.dir
  BY <1>1, <1>5 DEF Rows, SoleInv, Handling
<1> QED
  BY <1>2, <1>4, <1>5, <1>6, <1>7 DEF SoleInv, Handling, Closing

\* Nothing is being read any more.
LEMMA SoleFinishes ==
  ASSUME SInv, NEW x \in Workers, SoleInv(x), FinishDirectory(x)
  PROVE  SoleInv(x)'
<1> DEFINE d == workers[x].local.dir
           rows == {i \in Rows("processing") : Frontier[i].path = d}
           f == [i \in DOMAIN Frontier |-> IF i \in rows
                                           THEN [Frontier[i] EXCEPT !.state = "completed"]
                                           ELSE Frontier[i]]
           c == [scan.counts EXCEPT !.visited = @ + Cardinality(rows)]
<1>1. /\ workers[x].pc \in {"read", "finishDir"} /\ workers[x].pc \in HandlerPoints
      /\ workers[x].pc \in Busy /\ UNCHANGED jobs
      /\ completeDirectory(d) /\ Continue(x, "save", Nothing)
  BY DEF FinishDirectory, At, Dir, Local, HandlerPoints, Busy
<1>2. /\ StoreInv /\ scan.status \notin {"completed", "cancelled"} /\ DoneScanned
      /\ scan.frontier = Frontier /\ \A i \in DOMAIN Frontier : Frontier[i] \in FrontierRow
      /\ workers[x] \in Worker(HandlerPoints, Locals) /\ x \in DOMAIN workers
  BY <1>1, HandlerFacts, SoleBusy, ElementOfSeq, LenProperties
     DEF SInv, WorkersTyped, StoreInv, StoreTyped, Frontier
<1>3. rows = Rows("processing")
  BY <1>1 DEF SoleInv, Handling
<1>4. \A i \in DOMAIN Frontier : f[i].state # "processing"
  BY <1>2, <1>3 DEF Rows, FrontierRow
<1>5. scan' = [scan EXCEPT !.frontier = f, !.counts = c]
  BY <1>1 DEF completeDirectory, Frontier
<1>6. DOMAIN f = DOMAIN Frontier
  OBVIOUS
<1> HIDE DEF f, c, rows
<1>7. scan'.status = scan.status /\ Frontier' = f
  BY <1>2, <1>5 DEF Frontier, StoreInv, StoreTyped
<1>8. DoneScanned'
  BY <1>1, <1>2, <1>7 DEF DoneScanned, Ids
<1>9. workers'[x].pc = "save" /\ Rows("processing")' = {}
  BY <1>1, <1>2, <1>4, <1>6, <1>7 DEF Continue, Worker, Rows
<1> QED
  BY <1>2, <1>7, <1>8, <1>9 DEF SoleInv, Handling, Closing

-----------------------------------------------------------------------------
(* What one worker makes of the whole tree.                                *)

LEMMA SoleSame ==
  ASSUME NEW x \in Workers, SoleInv(x), UNCHANGED <<jobs, workers, scan>>
  PROVE  SoleInv(x)'
<1>1. DoneScanned' /\ (Ending => Ending')
  BY DEF SoleInv, DoneScanned, Ending, Ids
<1> QED
  BY <1>1, SoleStep DEF SoleInv

LEMMA SoleInit == ASSUME NEW x \in Workers, SInit PROVE SoleInv(x)
<1>1. workers[x].pc = "recover" /\ scan.status = "none" /\ jobs = <<>>
  BY IdleType, LocalTypes, NoScanType DEF SInit, ProcessInit, Init, Points
<1> QED
  BY <1>1 DEF SoleInv, Handling, Closing, DoneScanned, Ids

LEMMA SoleNext ==
  ASSUME MaxJobs = 1, NEW x, Workers = {x}, SInv, SoleInv(x), [SNext]_vars
  PROVE  SoleInv(x)'
<1>1. CASE UNCHANGED vars
  BY <1>1, SoleSame DEF vars
<1>2. CASE User /\ UNCHANGED <<jobs, workers, crashes, scan>>
  BY <1>2, SoleSame
<1>3. CASE WorkerMoves(x) /\ UNCHANGED <<crashes, disk, approval, acts, touched>>
  BY <1>3, SoleLoad, SoleStart, SoleResume, SoleCheck, SoleInterrupt, SoleLeave, SoleClaims,
     SoleReport, SoleOpens, SoleObserves, SoleBreaksOff, SoleWrites, SoleFinishes, SoleProcess
     DEF WorkerMoves
<1>4. CASE Crash(x) /\ UNCHANGED scan
  BY <1>4, SoleCrash
<1>5. CASE (SubmitScan \/ Control \/ Tick) /\ UNCHANGED <<workers, scan>>
  BY <1>5, SoleQueue
<1> QED
  BY <1>1, <1>2, <1>3, <1>4, <1>5 DEF SNext

LEMMA SolePlanning ==
  ASSUME MaxJobs = 1, NEW x, Workers = {x}, SInv, SoleInv(x), [PNext]_planVars
  PROVE  SoleInv(x)'
<1>1. CASE [SNext]_vars
  BY <1>1, SoleNext
<1>2. CASE ReviewMoves
  BY <1>2, SoleSame, ReviewEffect
<1> QED
  BY <1>1, <1>2 DEF PNext, planVars

\* All that was left alone is reached from the root through completed directories.
LEMMA WholeTree ==
  ASSUME SInv, Root \in Known, AllDone, NEW p \in Paths \ (touched \cup {Root})
  PROVE  Seen(p) \in scan.records
<1> DEFINE reached == {q \in Paths : Seen(q) \in scan.records /\ (q \in Dirs => q \in Known)}
           S == touched \cup {Root} \cup reached
<1>1. DiskInv /\ CoveredRows /\ touched \subseteq Paths /\ Closed(touched)
  BY DEF SInv, StoreInv, DiskInv
<1>2. Root \in Paths
  BY ScanAssumption, ChildrenArePaths
<1>3. ASSUME NEW d \in S \cap Dirs, NEW q \in Children[d], q \notin touched
      PROVE  q \in S
  <2>1. d \notin touched
    BY <1>1, <1>3 DEF Closed
  <2>2. d \in Known
    BY <1>3, <2>1
  <2>3. PICK i \in DOMAIN Frontier : Frontier[i].path = d
    BY <2>2 DEF Known
  <2>4. Covered(d)
    BY <1>1, <2>3 DEF AllDone, CoveredRows, Rows
  <2>5. q \in Paths
    BY ChildrenArePaths
  <2> QED
    BY <1>3, <2>4, <2>5 DEF Covered
<1>4. S \in SUBSET Paths /\ Root \in S
  BY <1>1, <1>2
<1>5. Closed(S)
  BY <1>3 DEF Closed
<1> HIDE DEF S
<1>6. S = Paths
  BY <1>4, <1>5, ScanAssumption
<1> QED
  BY <1>6 DEF S

LEMMA SoleComplete ==
  ASSUME NEW x, SInv, SoleInv(x)
  PROVE  CompletedScanIsComplete
<1> SUFFICES ASSUME NEW j \in Ids, jobs[j].status = "completed"
             PROVE  /\ scan.status = "completed" /\ AllDone
                    /\ \A p \in Paths \ (touched \cup {Root}) : Seen(p) \in scan.records
  BY DEF CompletedScanIsComplete, AllDone, Seen
<1>1. scan.status = "completed" /\ AllDone
  BY DEF SoleInv, DoneScanned
<1>2. Root \in Known
  BY <1>1 DEF SInv, StoreInv
<1> QED
  BY <1>1, <1>2, WholeTree

-----------------------------------------------------------------------------
(* The planner: what holds of a draft, whatever workers and user do.       *)

Evidence == {"group", "needs-review", "clear"}
Pages == UNION {[S -> Evidence] : S \in SUBSET Files}
Move == [source : Files, destination : Destinations]
Open == plan.read \ DOMAIN plan.page

Accounted(c, n) ==
  c["scannedFiles"] = n + c["hiddenExcluded"] + c["alreadyOrganized"] + c["preservedByScope"]
    + c["preservedCoherentGroups"] + c["needsReviewExcluded"] + c["limitedOut"]
    + c["conflictsSkipped"]

PlanTyped ==
  /\ plan \in [status : {"none", "draft", "ready"}, options : Options \cup {NoOptions},
               read : SUBSET Files, page : Pages, last : BOOLEAN, operations : Seq(Move),
               counts : [Counters -> Nat]]
  /\ plan.options.maximumOperations \in Nat
  /\ plan.status # "none" => plan.options \in Options

\* What is planned, by the operations.
MovesInv ==
  \A i \in DOMAIN plan.operations :
    LET o == plan.operations[i]
    IN /\ o.source \in Open /\ o.source \notin held /\ ~Reserved(o.source)
       /\ \A k \in DOMAIN plan.operations : plan.operations[k].destination = o.destination => i = k

\* The records that are planned are counted, and those of the page have kept the
\* evidence of the reviews that are open ever since.
DraftInv ==
  /\ PlanTyped /\ MovesInv
  /\ plan.status = "none" => plan = NoPlan
  /\ plan.status = "ready" => DOMAIN plan.page = {} /\ plan.last
  /\ DOMAIN plan.page \subseteq plan.read /\ plan.read \subseteq Observed
  /\ held \subseteq InReview
  /\ \A f \in DOMAIN plan.page \cap held : plan.page[f] # "clear"
  /\ plan.counts["scannedFiles"] = Cardinality(Open)
  /\ Accounted(plan.counts, Len(plan.operations))
  /\ Len(plan.operations) <= plan.options.maximumOperations

LEMMA PageType ==
  ASSUME NEW S \in SUBSET Files, NEW g \in [S -> Evidence]
  PROVE  g \in Pages /\ DOMAIN g = S
BY DEF Pages

LEMMA PageDomain ==
  ASSUME NEW g \in Pages
  PROVE  DOMAIN g \in SUBSET Files /\ g \in [DOMAIN g -> Evidence]
BY DEF Pages

LEMMA PlanFields ==
  ASSUME PlanTyped
  PROVE  /\ plan.status \in {"none", "draft", "ready"} /\ plan.options \in Options \cup {NoOptions}
         /\ plan.read \subseteq Files /\ plan.page \in Pages /\ plan.last \in BOOLEAN
         /\ plan.operations \in Seq(Move) /\ plan.counts \in [Counters -> Nat]
         /\ DOMAIN plan.page \subseteq Files /\ Len(plan.operations) \in Nat
         /\ DOMAIN plan.operations = 1 .. Len(plan.operations)
         /\ plan.options.maximumOperations \in Nat
<1>1. /\ plan.status \in {"none", "draft", "ready"} /\ plan.options \in Options \cup {NoOptions}
      /\ plan.read \subseteq Files /\ plan.page \in Pages /\ plan.last \in BOOLEAN
      /\ plan.operations \in Seq(Move) /\ plan.counts \in [Counters -> Nat]
      /\ plan.options.maximumOperations \in Nat
  BY DEF PlanTyped
<1> QED
  BY <1>1, PageDomain, LenProperties

\* The observed files are finitely many.
LEMMA FilesAreFinite ==
  ASSUME StoreTyped, NEW S, S \subseteq Observed
  PROVE  IsFiniteSet(S) /\ Cardinality(S) \in Nat
<1> DEFINE T == {r.path : r \in scan.records}
           g == [r \in scan.records |-> r.path]
<1>1. g \in Surjection(scan.records, T)
  BY DEF Surjection
<1>2. IsFiniteSet(T)
  BY <1>1, FS_Surjection DEF StoreTyped
<1>3. S \subseteq T
  <2> SUFFICES ASSUME NEW p \in S PROVE p \in T
    OBVIOUS
  <2>1. Seen(p) \in scan.records /\ Seen(p).path = p
    BY DEF Observed, Seen
  <2> QED
    BY <2>1
<1> QED
  BY <1>2, <1>3, FS_Subset, FS_CardinalityType

LEMMA ObservedGrows ==
  ASSUME scan.records \subseteq scan'.records
  PROVE  Observed \subseteq Observed'
BY DEF Observed

\* A step that leaves the planner alone, but for reviews.
LEMMA DraftStays ==
  ASSUME DraftInv, scan.records \subseteq scan'.records, UNCHANGED plan,
         held' \subseteq held, held' \subseteq InReview'
  PROVE  DraftInv'
<1>1. Observed \subseteq Observed'
  BY ObservedGrows
<1>2. PlanTyped' /\ Open' = Open
  BY DEF DraftInv, PlanTyped, Open
<1>3. MovesInv'
  BY <1>2 DEF DraftInv, MovesInv, Reserved
<1> QED
  BY <1>1, <1>2, <1>3 DEF DraftInv

LEMMA NoDraft ==
  /\ NoPlan \in [status : {"none", "draft", "ready"}, options : Options \cup {NoOptions},
                 read : SUBSET Files, page : Pages, last : BOOLEAN, operations : Seq(Move),
                 counts : [Counters -> Nat]]
  /\ NoPlan.status = "none" /\ NoPlan.read = {} /\ DOMAIN NoPlan.page = {}
  /\ NoPlan.last = FALSE /\ NoPlan.operations = <<>> /\ NoPlan.counts = [c \in Counters |-> 0]
  /\ NoPlan.options = NoOptions
<1>1. <<>> \in Seq(Move) /\ DOMAIN <<>> = {}
  BY EmptySeq
<1>2. <<>> \in [{} -> Evidence]
  BY <1>1
<1>3. <<>> \in Pages
  BY <1>2, PageType
<1> QED
  BY <1>1, <1>3 DEF NoPlan

\* A plan in which nothing is planned yet.
LEMMA EmptyDraft ==
  ASSUME PlanTyped', plan'.read = {}, DOMAIN plan'.page = {}, plan'.operations = <<>>,
         plan'.counts = [c \in Counters |-> 0], plan'.status = "none" => plan' = NoPlan,
         plan'.status # "ready", held' \subseteq InReview'
  PROVE  DraftInv'
<1>1. Len(<<>>) = 0 /\ DOMAIN <<>> = {}
  BY EmptySeq
<1>2. Open' = {} /\ Cardinality(Open') = 0
  BY FS_EmptySet DEF Open
<1>3. MovesInv'
  BY <1>1 DEF MovesInv
<1>4. Accounted(plan'.counts, Len(plan'.operations)) /\ plan'.counts["scannedFiles"] = 0
  BY <1>1 DEF Accounted, Counters
<1>5. plan'.options.maximumOperations \in Nat
  BY DEF PlanTyped
<1> QED
  BY <1>1, <1>2, <1>3, <1>4, <1>5 DEF DraftInv

LEMMA NoPlanInv ==
  ASSUME plan' = NoPlan, held' = {}
  PROVE  DraftInv'
<1>1. NoOptions.maximumOperations \in Nat
  BY DEF NoOptions
<1> QED
  BY <1>1, NoDraft, EmptyDraft DEF PlanTyped

LEMMA CreatePlanKeeps ==
  ASSUME NEW options \in Options, CreatePlan(options)
  PROVE  DraftInv'
<1>1. /\ plan' = [NoPlan EXCEPT !.status = "draft", !.options = options]
      /\ held' = InReview /\ InReview' = InReview
  BY DEF CreatePlan, InReview
<1>2. options.maximumOperations \in Nat
  BY PlanAssumption
<1>3. /\ PlanTyped' /\ plan'.status = "draft" /\ plan'.read = {} /\ DOMAIN plan'.page = {}
      /\ plan'.operations = <<>> /\ plan'.counts = [c \in Counters |-> 0]
  BY <1>1, <1>2, NoDraft DEF PlanTyped
<1> QED
  BY <1>1, <1>3, EmptyDraft

\* What is read of the catalog is behind the cursor, and so new.
LEMMA ReadIsNew ==
  ASSUME NEW read \in SUBSET Files
  PROVE  /\ list(read) \subseteq Files \cap Observed /\ list(read) \cap read = {}
         /\ FirstPage(list(read)) \subseteq list(read)
<1>1. \A f \in read : ~(Position[f] > Position[f])
  BY PlanAssumption
<1> QED
  BY <1>1 DEF list, FirstPage

LEMMA ReadPageKeeps ==
  ASSUME DraftInv, UNCHANGED vars, ReadPage
  PROVE  DraftInv'
<1> DEFINE page == FirstPage(list(plan.read))
           evidence == [f \in page |-> organizationPlanningEvidence(f)]
           last == Cardinality(list(plan.read)) <= PageSize
<1>1. /\ plan.status = "draft" /\ DOMAIN plan.page = {} /\ UNCHANGED reviewing
      /\ plan' = [plan EXCEPT !.page = evidence, !.read = plan.read \cup page, !.last = last]
  BY DEF ReadPage
<1>2. PlanTyped /\ plan.read \subseteq Files
  BY PlanFields DEF DraftInv
<1>3. page \subseteq Files \cap Observed /\ page \cap plan.read = {}
  BY <1>2, ReadIsNew
<1>4. evidence \in [page -> Evidence] /\ last \in BOOLEAN
  BY DEF organizationPlanningEvidence, Evidence
<1>5. evidence \in Pages /\ DOMAIN evidence = page
  BY <1>3, <1>4, PageType
<1>6. \A f \in page \cap InReview : evidence[f] # "clear"
  BY DEF organizationPlanningEvidence
<1> HIDE DEF page, evidence, last
<1>7. /\ PlanTyped' /\ plan'.status = "draft" /\ plan'.page = evidence
      /\ plan'.read = plan.read \cup page /\ UNCHANGED <<plan.operations, plan.counts, plan.options>>
  BY <1>1, <1>2, <1>3, <1>4, <1>5 DEF PlanTyped
<1>8. Open' = Open /\ Observed' = Observed
  BY <1>1, <1>3, <1>5, <1>7 DEF Open, Observed, vars
<1>9. MovesInv'
  BY <1>1, <1>7, <1>8, SameReviews DEF DraftInv, MovesInv, Reserved
<1> QED
  BY <1>1, <1>3, <1>5, <1>6, <1>7, <1>8, <1>9, SameReviews DEF DraftInv

\* What is left of a page and the counters, when a file is done with.
LEMMA DoneFields ==
  ASSUME PlanTyped, NEW f \in DOMAIN plan.page, NEW S
  PROVE  /\ Done(f, S) \in [status : {"none", "draft", "ready"}, options : Options \cup {NoOptions},
                           read : SUBSET Files, page : Pages, last : BOOLEAN,
                           operations : Seq(Move), counts : [Counters -> Nat]]
         /\ DOMAIN Done(f, S).page = DOMAIN plan.page \ {f}
         /\ \A g \in DOMAIN plan.page \ {f} : Done(f, S).page[g] = plan.page[g]
         /\ \A c \in Counters \cap S : Done(f, S).counts[c] = plan.counts[c] + 1
         /\ \A c \in Counters \ S : Done(f, S).counts[c] = plan.counts[c]
         /\ Done(f, S).status = plan.status /\ Done(f, S).options = plan.options
         /\ Done(f, S).read = plan.read /\ Done(f, S).last = plan.last
         /\ Done(f, S).operations = plan.operations
<1> DEFINE rest == Restrict(plan.page, DOMAIN plan.page \ {f})
           counts == [c \in Counters |-> IF c \in S THEN plan.counts[c] + 1 ELSE plan.counts[c]]
<1>1. plan.page \in Pages /\ DOMAIN plan.page \subseteq Files /\ plan.counts \in [Counters -> Nat]
  BY PlanFields
<1>2. rest \in [DOMAIN plan.page \ {f} -> Evidence]
  BY <1>1, PageDomain DEF Restrict
<1>3. rest \in Pages /\ DOMAIN rest = DOMAIN plan.page \ {f}
  BY <1>1, <1>2, PageType
<1>4. \A g \in DOMAIN plan.page \ {f} : rest[g] = plan.page[g]
  BY DEF Restrict
<1>5. counts \in [Counters -> Nat]
  BY <1>1
<1>6. /\ \A c \in Counters \cap S : counts[c] = plan.counts[c] + 1
      /\ \A c \in Counters \ S : counts[c] = plan.counts[c]
  OBVIOUS
<1>7. Done(f, S) = [plan EXCEPT !.page = rest, !.counts = counts]
  BY DEF Done
<1> HIDE DEF rest, counts
<1> QED
  BY <1>3, <1>4, <1>5, <1>6, <1>7 DEF PlanTyped

\* The file f is done with, and counted.
LEMMA OneMoreCounted ==
  ASSUME StoreTyped, DraftInv, NEW f \in DOMAIN plan.page,
         NEW S, "scannedFiles" \in S
  PROVE  /\ plan.read \ (DOMAIN plan.page \ {f}) = Open \cup {f} /\ f \notin Open
         /\ Done(f, S).counts["scannedFiles"] = Cardinality(Open \cup {f})
<1>1. PlanTyped /\ DOMAIN plan.page \subseteq plan.read /\ plan.read \subseteq Observed
  BY DEF DraftInv
<1>2. plan.read \ (DOMAIN plan.page \ {f}) = Open \cup {f} /\ f \notin Open /\ Open \subseteq Observed
  BY <1>1 DEF Open
<1>3. IsFiniteSet(Open)
  BY <1>2, FilesAreFinite
<1>4. Cardinality(Open \cup {f}) = Cardinality(Open) + 1
  BY <1>2, <1>3, FS_AddElement
<1>5. "scannedFiles" \in Counters
  BY DEF Counters
<1>6. Done(f, S).counts["scannedFiles"] = plan.counts["scannedFiles"] + 1
  BY <1>1, <1>5, DoneFields
<1> QED
  BY <1>2, <1>4, <1>6 DEF DraftInv

\* The sum of the counters.
LEMMA OneMoreStays ==
  ASSUME NEW c \in [Counters -> Nat], NEW d \in [Counters -> Nat], NEW n \in Nat, Accounted(c, n),
         NEW k \in Counters \ {"scannedFiles"},
         \A i \in {"scannedFiles", k} : d[i] = c[i] + 1,
         \A i \in Counters \ {"scannedFiles", k} : d[i] = c[i]
  PROVE  Accounted(d, n)
<1>1. \A i \in Counters : c[i] \in Nat
  OBVIOUS
<1>2. CASE k = "hiddenExcluded"
  BY <1>1, <1>2 DEF Accounted, Counters
<1>3. CASE k = "alreadyOrganized"
  BY <1>1, <1>3 DEF Accounted, Counters
<1>4. CASE k = "preservedByScope"
  BY <1>1, <1>4 DEF Accounted, Counters
<1>5. CASE k = "preservedCoherentGroups"
  BY <1>1, <1>5 DEF Accounted, Counters
<1>6. CASE k = "needsReviewExcluded"
  BY <1>1, <1>6 DEF Accounted, Counters
<1>7. CASE k = "limitedOut"
  BY <1>1, <1>7 DEF Accounted, Counters
<1>8. CASE k = "conflictsSkipped"
  BY <1>1, <1>8 DEF Accounted, Counters
<1> QED
  BY <1>2, <1>3, <1>4, <1>5, <1>6, <1>7, <1>8 DEF Counters

LEMMA OneMoreMoves ==
  ASSUME NEW c \in [Counters -> Nat], NEW d \in [Counters -> Nat], NEW n \in Nat, Accounted(c, n),
         \A i \in Counters \cap {"scannedFiles"} : d[i] = c[i] + 1,
         \A i \in Counters \ {"scannedFiles"} : d[i] = c[i]
  PROVE  Accounted(d, n + 1)
<1>1. \A i \in Counters : c[i] \in Nat
  OBVIOUS
<1> QED
  BY <1>1 DEF Accounted, Counters

\* One that stays.
LEMMA CountKeeps ==
  ASSUME StoreTyped, DraftInv, UNCHANGED vars, NEW f \in DOMAIN plan.page, plan.status = "draft",
         UNCHANGED reviewing,
         NEW counter \in Counters \ {"scannedFiles"}, plan' = Count(f, counter)
  PROVE  DraftInv'
<1> DEFINE S == {"scannedFiles", counter}
<1>1. plan' = Done(f, S) /\ "scannedFiles" \in S /\ PlanTyped
  BY DEF Count, DraftInv
<1>2. /\ PlanTyped' /\ DOMAIN plan'.page = DOMAIN plan.page \ {f}
      /\ \A g \in DOMAIN plan.page \ {f} : plan'.page[g] = plan.page[g]
      /\ \A c \in Counters \cap S : plan'.counts[c] = plan.counts[c] + 1
      /\ \A c \in Counters \ S : plan'.counts[c] = plan.counts[c]
      /\ plan'.status = plan.status /\ plan'.options = plan.options
      /\ plan'.read = plan.read /\ plan'.last = plan.last
      /\ plan'.operations = plan.operations
  BY <1>1, DoneFields DEF PlanTyped
<1>3. Open' = Open \cup {f} /\ plan'.counts["scannedFiles"] = Cardinality(Open')
  <2> HIDE DEF S
  <2>1. /\ plan.read \ (DOMAIN plan.page \ {f}) = Open \cup {f}
        /\ Done(f, S).counts["scannedFiles"] = Cardinality(Open \cup {f})
    BY <1>1, OneMoreCounted
  <2>2. Open' = Open \cup {f}
    BY <1>2, <2>1 DEF Open
  <2> QED
    BY <1>1, <2>1, <2>2
<1>4. MovesInv' /\ Observed' = Observed
  BY <1>2, <1>3, SameReviews DEF DraftInv, MovesInv, Reserved, Observed, vars
<1>5. Accounted(plan'.counts, Len(plan'.operations))
  <2>1. /\ plan.counts \in [Counters -> Nat] /\ plan'.counts \in [Counters -> Nat]
        /\ Len(plan.operations) \in Nat /\ Accounted(plan.counts, Len(plan.operations))
    BY <1>1, <1>2, PlanFields DEF PlanTyped, DraftInv
  <2>2. /\ \A i \in {"scannedFiles", counter} : plan'.counts[i] = plan.counts[i] + 1
        /\ \A i \in Counters \ {"scannedFiles", counter} : plan'.counts[i] = plan.counts[i]
    <3>1. S \subseteq Counters
      BY DEF Counters
    <3> QED
      BY <1>2, <3>1
  <2> HIDE DEF S
  <2> QED
    BY <1>2, <2>1, <2>2, OneMoreStays
<1> QED
  BY <1>2, <1>3, <1>4, <1>5, SameReviews DEF DraftInv

\* A file for which nothing holds that would keep it where it is.
LEMMA NothingHolds ==
  ASSUME NEW f, Stays(f) = {}
  PROVE  /\ ~Reserved(f) /\ plan.page[f] \notin {"group", "needs-review"}
         /\ ~(Len(plan.operations) >= plan.options.maximumOperations)
<1>1. /\ 2 \in DOMAIN Reasons /\ Reasons[2] = "alreadyOrganized"
      /\ 4 \in DOMAIN Reasons /\ Reasons[4] = "preservedCoherentGroups"
      /\ 5 \in DOMAIN Reasons /\ Reasons[5] = "needsReviewExcluded"
      /\ 6 \in DOMAIN Reasons /\ Reasons[6] = "limitedOut"
  BY DEF Reasons
<1>2. /\ ~StaysAs(f, "alreadyOrganized") /\ ~StaysAs(f, "preservedCoherentGroups")
      /\ ~StaysAs(f, "needsReviewExcluded") /\ ~StaysAs(f, "limitedOut")
  BY <1>1 DEF Stays
<1> QED
  BY <1>2 DEF StaysAs

LEMMA FreeDestination ==
  ASSUME NEW desired \in DOMAIN Named, NEW destination \in availableDestination(desired)
  PROVE  destination \in Destinations /\ isAvailable(destination)
<1>1. Named[desired] \in Seq(Destinations) /\ Named[desired] # <<>>
  BY PlanAssumption
<1>2. 1 \in DOMAIN Named[desired]
  BY <1>1, LenProperties, EmptySeq
<1>3. PICK k \in DOMAIN Named[desired] : destination = Named[desired][k] /\ isAvailable(Named[desired][k])
  BY <1>2 DEF availableDestination
<1> QED
  BY <1>1, <1>3, ElementOfSeq, LenProperties

\* One that is to move.
LEMMA MoveKeeps ==
  ASSUME StoreTyped, DraftInv, UNCHANGED vars, NEW f \in DOMAIN plan.page, plan.status = "draft",
         UNCHANGED reviewing, Stays(f) = {},
         NEW destination \in Destinations, isAvailable(destination), PlanMove(f, destination)
  PROVE  DraftInv'
<1> DEFINE S == {"scannedFiles"}
           move == [source |-> f, destination |-> destination]
           done == Done(f, S)
<1>1. /\ plan' = [done EXCEPT !.operations = Append(done.operations, move)]
      /\ "scannedFiles" \in S /\ PlanTyped /\ f \in Files /\ move \in Move
  BY PlanFields DEF PlanMove, DraftInv, Move
<1>2. Append(plan.operations, move) \in Seq(Move)
  BY <1>1, AppendProperties, PlanFields
<1> HIDE DEF S
<1>3. done.operations = plan.operations /\ done.counts["scannedFiles"] = Cardinality(Open \cup {f})
  BY <1>1, DoneFields, OneMoreCounted
<1>4. /\ PlanTyped' /\ DOMAIN plan'.page = DOMAIN plan.page \ {f}
      /\ \A g \in DOMAIN plan.page \ {f} : plan'.page[g] = plan.page[g]
      /\ \A c \in Counters \cap S : plan'.counts[c] = plan.counts[c] + 1
      /\ \A c \in Counters \ S : plan'.counts[c] = plan.counts[c]
      /\ plan'.status = plan.status /\ plan'.options = plan.options
      /\ plan'.read = plan.read /\ plan'.last = plan.last
      /\ plan'.operations = Append(plan.operations, move)
      /\ plan'.counts["scannedFiles"] = Cardinality(Open \cup {f})
  <2> HIDE DEF move
  <2>1. /\ DOMAIN done.page = DOMAIN plan.page \ {f}
        /\ \A g \in DOMAIN plan.page \ {f} : done.page[g] = plan.page[g]
        /\ \A c \in Counters \cap S : done.counts[c] = plan.counts[c] + 1
        /\ \A c \in Counters \ S : done.counts[c] = plan.counts[c]
        /\ done.status = plan.status /\ done.options = plan.options
        /\ done.read = plan.read /\ done.last = plan.last
        /\ done \in [status : {"none", "draft", "ready"}, options : Options \cup {NoOptions},
                     read : SUBSET Files, page : Pages, last : BOOLEAN,
                     operations : Seq(Move), counts : [Counters -> Nat]]
    BY <1>1, DoneFields
  <2> HIDE DEF done
  <2> QED
    BY <1>1, <1>2, <1>3, <2>1 DEF PlanTyped
<1> HIDE DEF done
<1>5. Open' = Open \cup {f} /\ f \notin Open /\ plan'.counts["scannedFiles"] = Cardinality(Open')
  BY <1>4, OneMoreCounted DEF Open
<1>6. /\ plan.operations \in Seq(Move) /\ Len(plan.operations) \in Nat
      /\ DOMAIN plan.operations = 1 .. Len(plan.operations)
      /\ Len(plan'.operations) = Len(plan.operations) + 1
      /\ \A i \in DOMAIN plan.operations : plan'.operations[i] = plan.operations[i]
      /\ plan'.operations[Len(plan.operations) + 1] = move
      /\ DOMAIN plan'.operations = 1 .. Len(plan.operations) + 1
  BY <1>1, <1>4, AppendProperties, PlanFields, LenProperties
<1>7. ~Reserved(f) /\ f \notin held /\ ~(Len(plan.operations) >= plan.options.maximumOperations)
  <2>1. plan.page[f] \in Evidence
    BY <1>1, PlanFields, PageDomain
  <2> QED
    BY <2>1, NothingHolds DEF DraftInv, Evidence
<1>8. \A i \in DOMAIN plan.operations : plan.operations[i].destination # destination
  BY DEF isAvailable, planned
<1>9. MovesInv'
  <2>1. \A g : Reserved(g)' <=> Reserved(g)
    BY <1>4 DEF Reserved
  <2> SUFFICES ASSUME NEW i \in 1 .. Len(plan.operations) + 1
               PROVE  LET o == plan'.operations[i]
                      IN /\ o.source \in Open \cup {f} /\ o.source \notin held /\ ~Reserved(o.source)
                         /\ \A k \in 1 .. Len(plan.operations) + 1 :
                              plan'.operations[k].destination = o.destination => i = k
    BY <1>5, <1>6, <2>1, SameReviews DEF MovesInv
  <2>2. \A k \in 1 .. Len(plan.operations) + 1 :
          k \in DOMAIN plan.operations \/ k = Len(plan.operations) + 1
    BY <1>6
  <2>3. CASE i \in DOMAIN plan.operations
    <3> DEFINE o == plan.operations[i]
    <3>1. plan'.operations[i] = o
      BY <1>6, <2>3
    <3>2. /\ o.source \in Open /\ o.source \notin held /\ ~Reserved(o.source)
          /\ \A k \in DOMAIN plan.operations : plan.operations[k].destination = o.destination => i = k
      BY <2>3 DEF DraftInv, MovesInv
    <3>3. plan'.operations[Len(plan.operations) + 1].destination # o.destination
      BY <1>6, <1>8, <2>3
    <3> HIDE DEF o
    <3>4. \A k \in 1 .. Len(plan.operations) + 1 :
            plan'.operations[k].destination = o.destination => i = k
      BY <1>6, <2>2, <3>2, <3>3
    <3> QED
      BY <3>1, <3>2, <3>4
  <2>4. CASE i = Len(plan.operations) + 1
    <3>1. plan'.operations[i] = move /\ move.source = f /\ move.destination = destination
      BY <1>6, <2>4
    <3>2. \A k \in DOMAIN plan.operations : plan'.operations[k].destination # destination
      BY <1>6, <1>8
    <3> HIDE DEF move
    <3> QED
      BY <1>7, <2>2, <2>4, <3>1, <3>2
  <2> QED
    BY <2>2, <2>3, <2>4
<1>10. Accounted(plan'.counts, Len(plan'.operations))
  <2>1. /\ plan.counts \in [Counters -> Nat] /\ plan'.counts \in [Counters -> Nat]
        /\ Accounted(plan.counts, Len(plan.operations))
    BY <1>1, <1>4, PlanFields DEF PlanTyped, DraftInv
  <2>2. /\ \A i \in Counters \cap {"scannedFiles"} : plan'.counts[i] = plan.counts[i] + 1
        /\ \A i \in Counters \ {"scannedFiles"} : plan'.counts[i] = plan.counts[i]
    BY <1>4 DEF S
  <2> QED
    BY <1>6, <2>1, <2>2, OneMoreMoves
<1>11. Observed' = Observed
  BY DEF Observed, vars
<1>12. Len(plan'.operations) <= plan'.options.maximumOperations
  BY <1>4, <1>6, <1>7, PlanFields DEF DraftInv
<1> QED
  BY <1>4, <1>5, <1>9, <1>10, <1>11, <1>12, SameReviews DEF DraftInv

LEMMA PlanRecordKeeps ==
  ASSUME StoreTyped, DraftInv, UNCHANGED vars, NEW f \in DOMAIN plan.page, PlanRecord(f)
  PROVE  DraftInv'
<1>1. plan.status = "draft" /\ UNCHANGED reviewing
  BY DEF PlanRecord
<1>2. ASSUME NEW counter \in Counters \ {"scannedFiles"}, plan' = Count(f, counter)
      PROVE  DraftInv'
  BY <1>1, <1>2, CountKeeps
<1>3. \A k \in DOMAIN Reasons : Reasons[k] \in Counters \ {"scannedFiles"}
  BY DEF Reasons, Counters
<1>4. "conflictsSkipped" \in Counters \ {"scannedFiles"}
  BY DEF Counters
<1>5. ASSUME Stays(f) = {}, NEW desired \in Desired[plan.options.targetDirectory][f],
             NEW destination \in availableDestination(desired), PlanMove(f, destination)
      PROVE  DraftInv'
  <2>1. plan.options \in Options /\ f \in Files
    <3>1. plan.status # "none" /\ PlanTyped
      BY <1>1 DEF DraftInv
    <3> QED
      BY <3>1, PlanFields DEF PlanTyped
  <2>2. desired \in DOMAIN Named
    BY <1>5, <2>1, PlanAssumption
  <2>3. destination \in Destinations /\ isAvailable(destination)
    BY <1>5, <2>2, FreeDestination
  <2> QED
    BY <1>1, <1>5, <2>3, MoveKeeps
<1>6. \A k \in Stays(f) : Reasons[k] \in Counters \ {"scannedFiles"}
  BY <1>3 DEF Stays
<1> QED
  BY <1>2, <1>4, <1>5, <1>6 DEF PlanRecord

LEMMA StorePlanKeeps ==
  ASSUME DraftInv, UNCHANGED vars, StorePlan
  PROVE  DraftInv'
<1>1. /\ plan.status = "draft" /\ DOMAIN plan.page = {} /\ plan.last
      /\ plan' = [plan EXCEPT !.status = "ready"] /\ UNCHANGED reviewing
  BY DEF StorePlan
<1>2. /\ PlanTyped' /\ plan'.status = "ready"
      /\ UNCHANGED <<plan.options, plan.read, plan.page, plan.last, plan.operations, plan.counts>>
  BY <1>1 DEF DraftInv, PlanTyped
<1>3. Open' = Open /\ Observed' = Observed
  BY <1>2 DEF Open, Observed, vars
<1>4. MovesInv'
  BY <1>1, <1>2, <1>3, SameReviews DEF DraftInv, MovesInv, Reserved
<1> QED
  BY <1>1, <1>2, <1>3, <1>4, SameReviews DEF DraftInv

LEMMA PlannerKeeps ==
  ASSUME StoreTyped, DraftInv, PlannerMoves, UNCHANGED vars
  PROVE  DraftInv'
<1>1. CASE ServerExit
  BY <1>1, NoPlanInv DEF ServerExit
<1> QED
  BY <1>1, CreatePlanKeeps, ReadPageKeeps, PlanRecordKeeps, StorePlanKeeps DEF PlannerMoves

-----------------------------------------------------------------------------
(* Next to the scan: records that were found stay.                         *)

LEMMA RecordsGrow ==
  ASSUME SInv, [SNext]_vars
  PROVE  scan.records \subseteq scan'.records
<1> DEFINE Kept == scan.records \subseteq scan'.records
<1>1. StoreTyped /\ (scan.status = "none" => scan.records = {})
  BY DEF SInv, StoreInv
<1>2. scan \in [status : ScanStatuses, records : SUBSET Records,
               frontier : Seq(FrontierRow), counts : Counts]
  BY <1>1 DEF StoreTyped
<1>3. UNCHANGED scan => Kept
  OBVIOUS
<1>4. startOrLoadScan => Kept
  BY <1>1 DEF startOrLoadScan
<1>5. ASSUME NEW status, setScanStatus(status) PROVE Kept
  BY <1>2, <1>5 DEF setScanStatus
<1>6. resumeScan => Kept
  BY <1>2 DEF resumeScan
<1>7. claimNextDirectory => Kept
  BY <1>2 DEF claimNextDirectory
<1>8. ASSUME NEW batch, NEW found, writeBatch(batch, found) PROVE Kept
  BY <1>2, <1>8 DEF writeBatch, InsertBatch
<1>9. ASSUME NEW d, completeDirectory(d) PROVE Kept
  BY <1>2, <1>9 DEF completeDirectory
<1> HIDE DEF Kept
<1>10. ASSUME NEW w \in Workers, WorkerMoves(w) PROVE Kept
  <2>1. Load(w) \/ Check(w) \/ Leave(w) \/ ReportScan(w) => UNCHANGED scan
    BY Zenon DEF Load, Check, Leave, ReportScan
  <2>6. OpenDirectory(w) \/ ObserveEntry(w) \/ BreakOff(w) => UNCHANGED scan
    BY Zenon DEF OpenDirectory, ObserveEntry, BreakOff
  <2>2. CASE Start(w) \/ ResumeScan(w)
    BY <1>3, <1>4, <1>6, <2>2 DEF Start, ResumeScan
  <2>3. CASE InterruptScan(w) \/ CloseScan(w) \/ FailScan(w)
    BY <1>5, <2>3 DEF InterruptScan, CloseScan, FailScan
  <2>4. CASE ClaimDirectory(w)
    BY <1>3, <1>7, <2>4 DEF ClaimDirectory
  <2>5. CASE FlushBatch(w) \/ RecordIssue(w) \/ FinishDirectory(w)
    BY <1>8, <1>9, <2>5 DEF FlushBatch, RecordIssue, FinishDirectory
  <2> QED
    BY <1>3, <1>10, <2>1, <2>2, <2>3, <2>4, <2>5, <2>6 DEF WorkerMoves
<1> QED
  BY <1>3, <1>10 DEF SNext, vars, Kept

LEMMA DraftNext ==
  ASSUME SInv, DraftInv, [PNext]_planVars
  PROVE  DraftInv'
<1>1. CASE [SNext]_vars /\ UNCHANGED planning
  <2>1. scan.records \subseteq scan'.records
    BY <1>1, RecordsGrow
  <2> QED
    BY <1>1, <2>1, DraftStays DEF DraftInv, planning, reviewing, InReview
<1>2. CASE PlannerMoves /\ UNCHANGED vars
  BY <1>2, PlannerKeeps DEF SInv, StoreInv
<1>3. CASE ReviewMoves
  <2>1. held' \subseteq held /\ held' \subseteq InReview' /\ UNCHANGED <<plan, scan>>
    BY <1>3, ReviewEffect
  <2> QED
    BY <2>1, DraftStays
<1>4. CASE UNCHANGED planVars
  BY <1>1, <1>4 DEF planVars
<1> QED
  BY <1>1, <1>2, <1>3, <1>4 DEF PNext

LEMMA DraftInit ==
  ASSUME PInit
  PROVE  DraftInv
<1>1. plan = NoPlan /\ held = {} /\ NoOptions.maximumOperations \in Nat
  BY DEF PInit, NoOptions
<1>2. Open = {} /\ Cardinality(Open) = 0 /\ Len(<<>>) = 0 /\ DOMAIN <<>> = {}
  BY <1>1, NoDraft, FS_EmptySet, EmptySeq DEF Open
<1>3. PlanTyped
  BY <1>1, NoDraft DEF PlanTyped
<1>4. MovesInv /\ Accounted(plan.counts, Len(plan.operations)) /\ plan.counts["scannedFiles"] = 0
  BY <1>1, <1>2, NoDraft DEF MovesInv, Accounted, Counters
<1> QED
  BY <1>1, <1>2, <1>3, <1>4, NoDraft DEF DraftInv

-----------------------------------------------------------------------------
(* With one worker nothing is recorded once the scan is completed, so that *)
(* what the planner asks the catalog stays true.                           *)

CurrentInv ==
  plan.status # "none" =>
    /\ scan.status = "completed"
    /\ \A f \in (Files \cap Observed) \ plan.read, g \in plan.read : Position[f] > Position[g]
    /\ plan.last => Files \cap Observed \subseteq plan.read
    /\ \A i \in DOMAIN plan.operations : plan.operations[i].destination \notin Observed

LEMMA ScanRests ==
  ASSUME NEW x, Workers = {x}, SoleInv(x), scan.status = "completed", [SNext]_vars
  PROVE  UNCHANGED scan
<1>1. workers[x].pc \notin {"resume", "pauseScan", "cancelScan", "next", "close", "failScan", "retryScan",
                          "read", "issue", "finishDir", "leave", "check", "save", "report",
                          "lastSave", "lastReport", "open"}
  BY DEF SoleInv, Points
<1>2. ASSUME WorkerMoves(x) PROVE UNCHANGED scan
  <2>1. Load(x) => UNCHANGED scan
    BY Zenon DEF Load
  <2>2. Start(x) => UNCHANGED scan
    BY DEF Start, startOrLoadScan
  <2>3. ~ResumeScan(x) /\ ~Check(x) /\ ~InterruptScan(x) /\ ~Leave(x)
    BY <1>1 DEF ResumeScan, Check, InterruptScan, Leave, Step, At
  <2>4. ~ClaimDirectory(x) /\ ~CloseScan(x) /\ ~FailScan(x)
    BY <1>1 DEF ClaimDirectory, CloseScan, FailScan, Step, At
  <2>7. ~OpenDirectory(x) /\ ~ObserveEntry(x)
    <3>1. ~At(x, "open") /\ ~At(x, "read")
      BY <1>1 DEF At
    <3> QED
      BY <3>1, Zenon DEF OpenDirectory, ObserveEntry
  <2>5. ~BreakOff(x) /\ ~FlushBatch(x) /\ ~RecordIssue(x) /\ ~FinishDirectory(x)
    BY <1>1 DEF BreakOff, FlushBatch, RecordIssue, FinishDirectory, Step, At
  <2>6. ReportScan(x) => UNCHANGED scan
    BY Zenon DEF ReportScan
  <2> QED
    BY <1>2, <2>1, <2>2, <2>3, <2>4, <2>5, <2>6, <2>7 DEF WorkerMoves
<1> QED
  BY <1>2 DEF SNext, vars

LEMMA CurrentStays ==
  ASSUME CurrentInv, UNCHANGED plan, plan.status # "none" => UNCHANGED scan
  PROVE  CurrentInv'
BY DEF CurrentInv, Observed

\* A page holds the first of the records behind the cursor, all of them if they are
\* not more than a page.
LEMMA PagesComeInOrder ==
  ASSUME StoreTyped, NEW found \in SUBSET (Files \cap Observed)
  PROVE  /\ \A f \in found \ FirstPage(found), g \in FirstPage(found) : Position[f] > Position[g]
         /\ Cardinality(found) <= PageSize => FirstPage(found) = found
<1> DEFINE upTo(f) == {g \in found : Position[g] <= Position[f]}
<1>1. /\ \A f \in found : Position[f] \in Nat
      /\ PageSize \in Nat
  BY PlanAssumption
<1>2. ASSUME NEW S, S \subseteq found
      PROVE  IsFiniteSet(S) /\ Cardinality(S) \in Nat
  BY <1>2, FilesAreFinite
<1>3. ASSUME NEW f \in found \ FirstPage(found), NEW g \in FirstPage(found), ~(Position[f] > Position[g])
      PROVE  FALSE
  <2>1. f \in found /\ g \in found /\ Position[f] <= Position[g]
    BY <1>1, <1>3 DEF FirstPage
  <2>2. upTo(f) \subseteq upTo(g) /\ upTo(f) \subseteq found /\ upTo(g) \subseteq found
    BY <1>1, <2>1
  <2>3. Cardinality(upTo(f)) <= Cardinality(upTo(g))
    BY <1>2, <2>2, FS_Subset
  <2>4. Cardinality(upTo(g)) <= PageSize /\ ~(Cardinality(upTo(f)) <= PageSize)
    BY <1>3 DEF FirstPage
  <2>5. Cardinality(upTo(f)) \in Nat /\ Cardinality(upTo(g)) \in Nat
    BY <1>2, <2>2
  <2> QED
    BY <1>1, <2>3, <2>4, <2>5
<1>4. ASSUME Cardinality(found) <= PageSize, NEW f \in found
      PROVE  f \in FirstPage(found)
  <2>1. upTo(f) \subseteq found
    OBVIOUS
  <2>2. Cardinality(upTo(f)) <= Cardinality(found) /\ Cardinality(upTo(f)) \in Nat /\ Cardinality(found) \in Nat
    BY <1>2, <2>1, FS_Subset
  <2>3. Cardinality(upTo(f)) <= PageSize
    BY <1>1, <1>4, <2>2
  <2> QED
    BY <2>3 DEF FirstPage
<1> QED
  BY <1>3, <1>4 DEF FirstPage

LEMMA ReadPageCurrent ==
  ASSUME StoreTyped, DraftInv, CurrentInv, UNCHANGED vars, ReadPage
  PROVE  CurrentInv'
<1> DEFINE found == list(plan.read)
           page == FirstPage(found)
           last == Cardinality(found) <= PageSize
<1>1. /\ plan.status = "draft"
      /\ plan' = [plan EXCEPT !.page = [f \in page |-> organizationPlanningEvidence(f)],
                              !.read = plan.read \cup page, !.last = last]
  BY DEF ReadPage
<1>2. PlanTyped /\ plan.read \subseteq Files
  BY PlanFields DEF DraftInv
<1>3. found \subseteq Files \cap Observed /\ page \subseteq found
  BY <1>2, ReadIsNew
<1>4. /\ \A f \in found \ page, g \in page : Position[f] > Position[g]
      /\ last => page = found
  BY <1>3, PagesComeInOrder
<1>5. Files \cap Observed \subseteq plan.read \cup found
  BY <1>1 DEF CurrentInv, list
<1>6. \A f \in found, g \in plan.read : Position[f] > Position[g]
  BY DEF list
<1> HIDE DEF page, found, last
<1>7. /\ plan'.status = "draft" /\ plan'.read = plan.read \cup page /\ plan'.last = last
      /\ plan'.operations = plan.operations
  BY <1>1, <1>2 DEF PlanTyped
<1>8. Observed' = Observed /\ scan' = scan
  BY DEF Observed, vars
<1> QED
  BY <1>1, <1>4, <1>5, <1>6, <1>7, <1>8 DEF CurrentInv

LEMMA PlanRecordCurrent ==
  ASSUME DraftInv, CurrentInv, UNCHANGED vars, NEW f \in DOMAIN plan.page, PlanRecord(f)
  PROVE  CurrentInv'
<1>1. plan.status = "draft" /\ PlanTyped
  BY DEF PlanRecord, DraftInv
<1>2. Observed' = Observed /\ scan' = scan
  BY DEF Observed, vars
<1>3. ASSUME NEW S, plan' = Done(f, S) PROVE CurrentInv'
  <2>1. UNCHANGED <<plan.status, plan.read, plan.last, plan.operations>>
    BY <1>1, <1>3, DoneFields
  <2> QED
    BY <1>1, <1>2, <2>1 DEF CurrentInv
<1>4. ASSUME NEW desired \in Desired[plan.options.targetDirectory][f],
             NEW destination \in availableDestination(desired), PlanMove(f, destination)
      PROVE  CurrentInv'
  <2> DEFINE move == [source |-> f, destination |-> destination]
             done == Done(f, {"scannedFiles"})
  <2>1. plan.options \in Options /\ f \in Files
    BY <1>1, PlanFields DEF PlanTyped
  <2>2. destination \in Destinations /\ isAvailable(destination)
    BY <2>1, PlanAssumption, FreeDestination
  <2>3. /\ plan' = [done EXCEPT !.operations = Append(done.operations, move)] /\ move \in Move
        /\ plan.operations \in Seq(Move)
    BY <1>1, <1>4, <2>1, <2>2, PlanFields DEF PlanMove, Move
  <2>4. /\ done.status = plan.status /\ done.read = plan.read /\ done.last = plan.last
        /\ done.operations = plan.operations
        /\ done \in [status : {"none", "draft", "ready"}, options : Options \cup {NoOptions},
                     read : SUBSET Files, page : Pages, last : BOOLEAN,
                     operations : Seq(Move), counts : [Counters -> Nat]]
    BY <1>1, DoneFields
  <2> HIDE DEF done
  <2>5. /\ UNCHANGED <<plan.status, plan.read, plan.last>>
        /\ plan'.operations = Append(plan.operations, move)
    BY <2>3, <2>4
  <2>6. /\ DOMAIN plan'.operations = 1 .. Len(plan.operations) + 1
        /\ \A i \in DOMAIN plan.operations : plan'.operations[i] = plan.operations[i]
        /\ plan'.operations[Len(plan.operations) + 1] = move
        /\ DOMAIN plan.operations = 1 .. Len(plan.operations) /\ Len(plan.operations) \in Nat
    BY <2>3, <2>5, AppendProperties, LenProperties
  <2>7. destination \notin Observed
    BY <2>2 DEF isAvailable, hasObservedPath
  <2>8. \A i \in DOMAIN plan'.operations : plan'.operations[i].destination \notin Observed
    <3> TAKE i \in DOMAIN plan'.operations
    <3>1. i \in DOMAIN plan.operations \/ i = Len(plan.operations) + 1
      BY <2>6
    <3> QED
      BY <1>1, <2>6, <2>7, <3>1 DEF CurrentInv
  <2> QED
    BY <1>1, <1>2, <2>5, <2>8 DEF CurrentInv
<1>5. ASSUME NEW counter, plan' = Count(f, counter) PROVE CurrentInv'
  BY <1>3, <1>5 DEF Count
<1> QED
  BY <1>4, <1>5 DEF PlanRecord

LEMMA CurrentNext ==
  ASSUME NEW x, Workers = {x}, MaxJobs = 1, SInv, SoleInv(x), DraftInv, CurrentInv, [PNext]_planVars
  PROVE  CurrentInv'
<1>1. CASE [SNext]_vars /\ UNCHANGED planning
  BY <1>1, ScanRests, CurrentStays DEF CurrentInv, planning
<1>2. CASE PlannerMoves /\ UNCHANGED vars
  <2>1. ASSUME NEW options \in Options, CreatePlan(options) PROVE CurrentInv'
    <3>1. /\ plan'.status = "draft" /\ plan'.read = {} /\ plan'.last = FALSE
          /\ plan'.operations = <<>> /\ scan.status = "completed"
      BY <2>1, NoDraft DEF CreatePlan
    <3> QED
      BY <1>2, <3>1, EmptySeq DEF CurrentInv, vars
  <2>2. CASE StorePlan
    <3>1. /\ plan.status = "draft" /\ UNCHANGED <<plan.read, plan.last, plan.operations>>
      BY <2>2 DEF StorePlan, DraftInv, PlanTyped
    <3> QED
      BY <1>2, <3>1 DEF CurrentInv, vars, Observed
  <2>3. CASE ServerExit
    BY <2>3, NoDraft DEF ServerExit, CurrentInv
  <2> QED
    BY <1>2, <2>1, <2>2, <2>3, ReadPageCurrent, PlanRecordCurrent DEF PlannerMoves, SInv, StoreInv
<1>3. CASE ReviewMoves
  BY <1>3, CurrentStays, ReviewEffect
<1>4. CASE UNCHANGED planVars
  BY <1>1, <1>4 DEF planVars
<1> QED
  BY <1>1, <1>2, <1>3, <1>4 DEF PNext

-----------------------------------------------------------------------------
(* Theorems.                                                               *)

\* What every execution keeps, of a scan alone and of one with the planner next to
\* it: a directory that is completed has all that the user has left alone among the
\* records, and what a worker has read of a directory is recorded or in its hands.
THEOREM SInductive == (SSpec => []SInv) /\ (PSpec => []SInv)
<1>1. SSpec => []SInv
  BY SInvInit, SInvNext, PTL DEF SSpec
<1>2. PInit => SInv
  BY SInvInit DEF PInit
<1>3. PSpec => []SInv
  BY <1>2, PlanningKeeps, PTL DEF PSpec
<1> QED
  BY <1>1, <1>3

\* The counters of inventory_scan_sessions, which writeBatch and completeDirectory of
\* inventory-catalog.ts add to, are those of the records and of the completed
\* directories, whoever reads a directory again.
THEOREM ScanCountsCorrect ==
  (SSpec => []CountsMatchTheRecords) /\ (PSpec => []CountsMatchTheRecords)
<1>1. SInv => CountsMatchTheRecords
  BY DEF SInv, StoreInv
<1> QED
  BY <1>1, SInductive, PTL

\* The frontier of inventory-catalog.ts loses nothing: in every directory that is
\* completed, what the user has left alone is observed, and is in the frontier if
\* it is a directory, whatever crashed and whoever read it.
THEOREM CompletedDirectoriesCovered == (SSpec => []CoveredRows) /\ (PSpec => []CoveredRows)
<1>1. SInv => CoveredRows
  BY DEF SInv, StoreInv
<1> QED
  BY <1>1, SInductive, PTL

\* "Traversal is resumable": when the only worker has completed the job of a scan,
\* the scan is completed, its frontier holds no directory that is still to be read,
\* and all that the user has left alone was observed, whatever crashed, was paused
\* or cancelled on the way (run() of inventory-scan-job.ts, resumeScan and
\* claimNextDirectory of inventory-catalog.ts).
THEOREM CompletedScansComplete ==
  ASSUME NEW x, Workers = {x}, MaxJobs = 1
  PROVE  (SSpec => []CompletedScanIsComplete) /\ (PSpec => []CompletedScanIsComplete)
<1>1. SInit => SInv /\ SoleInv(x)
  BY SInvInit, SoleInit
<1>2. SInv /\ SoleInv(x) /\ [SNext]_vars => SInv' /\ SoleInv(x)'
  BY SInvNext, SoleNext
<1>3. PInit => SInv /\ SoleInv(x)
  BY <1>1 DEF PInit
<1>4. SInv /\ SoleInv(x) /\ [PNext]_planVars => SInv' /\ SoleInv(x)'
  BY PlanningKeeps, SolePlanning
<1>5. SInv /\ SoleInv(x) => CompletedScanIsComplete
  BY SoleComplete
<1>6. SSpec => []CompletedScanIsComplete
  BY <1>1, <1>2, <1>5, PTL DEF SSpec
<1>7. PSpec => []CompletedScanIsComplete
  BY <1>3, <1>4, <1>5, PTL DEF PSpec
<1> QED
  BY <1>6, <1>7

\* checkApprovalAndControl of inventory-scan-job.ts comes before each directory and
\* after each batch: no worker writes a second batch after the approval was revoked.
THEOREM RevocationObeyed ==
  /\ SSpec => RevocationStopsAtTheNextBatch
  /\ PSpec => RevocationStopsAtTheNextBatch
<1>1. SInv => \A w \in late :
                ~(At(w, "read") /\ workers'[w].pc = "save" /\ scan'.records # scan.records)
  BY DEF SInv, LateInv, At, Reaching
<1>2. SInv => [\A w \in late :
                 ~(At(w, "read") /\ workers'[w].pc = "save" /\ scan'.records # scan.records)]_vars
  BY <1>1
<1> QED
  BY <1>2, SInductive, PTL DEF RevocationStopsAtTheNextBatch

\* The calls that workers make for a scan, and the clients', are those of the queue
\* of sqlite-job-queue.ts: the scan implements its specification, and so every
\* theorem of JobQueueProofs holds of scans.
THEOREM ScansImplementQueue == (SSpec => Spec) /\ (PSpec => Spec)
<1>1. SInit => Init
  BY DEF SInit, ProcessInit
<1>2. SSpec => Spec
  BY <1>1, SInvInit, SInvNext, PTL DEF SSpec, Spec
<1>3. PInit => Init /\ SInv
  BY <1>1, SInvInit DEF PInit
<1>4. PSpec => Spec
  BY <1>3, PlanningKeeps, PTL DEF PSpec, Spec
<1> QED
  BY <1>2, <1>4

\* "An unresolved Needs Review item blocks automatic organization"
\* (intelligence-store.ts:1806): what createPlan of organization-planner.ts plans to
\* move is no file that an open review has led to from the beginning, by its record
\* or by its group's members, whatever the workers do, the user decides and the hash
\* job makes of the groups meanwhile.
THEOREM ReviewedFilesKept == PSpec => []ReviewedFilesStay
<1>1. PInit => SInv /\ DraftInv
  BY SInvInit, DraftInit DEF PInit
<1>2. SInv /\ DraftInv /\ [PNext]_planVars => SInv' /\ DraftInv'
  BY PlanningKeeps, DraftNext
<1>3. DraftInv => ReviewedFilesStay
  BY DEF DraftInv, MovesInv, ReviewedFilesStay
<1> QED
  BY <1>1, <1>2, <1>3, PTL DEF PSpec

\* With one worker, what the catalog has answered the planner is still true.
LEMMA PlannedOfOneWorker ==
  ASSUME NEW x, Workers = {x}, MaxJobs = 1
  PROVE  PSpec => [](SInv /\ SoleInv(x) /\ DraftInv /\ CurrentInv)
<1>1. PInit => SInv /\ SoleInv(x) /\ DraftInv
  BY SInvInit, SoleInit, DraftInit DEF PInit
<1>2. PInit => CurrentInv
  BY NoDraft DEF PInit, CurrentInv
<1>3. SInv /\ SoleInv(x) /\ DraftInv /\ CurrentInv /\ [PNext]_planVars
        => SInv' /\ SoleInv(x)' /\ DraftInv' /\ CurrentInv'
  BY PlanningKeeps, SolePlanning, DraftNext, CurrentNext
<1> QED
  BY <1>1, <1>2, <1>3, PTL DEF PSpec

\* The moves of a plan of organization-planner.ts can be made in any order: no two
\* files go to one place, none goes where the scan has seen something, and nothing
\* in the target or control directory is moved.
THEOREM DestinationsFree ==
  ASSUME NEW x, Workers = {x}, MaxJobs = 1
  PROVE  PSpec => []PlannedDestinationsAreFree
<1>1. DraftInv /\ CurrentInv => PlannedDestinationsAreFree
  <2> SUFFICES ASSUME DraftInv, CurrentInv PROVE PlannedDestinationsAreFree
    OBVIOUS
  <2>1. DOMAIN plan.operations # {} => plan.status # "none"
    BY NoDraft, EmptySeq DEF DraftInv
  <2>2. \A i \in DOMAIN plan.operations : plan.operations[i].source \in Observed
    BY DEF DraftInv, MovesInv, Open
  <2> QED
    BY <2>1, <2>2 DEF DraftInv, MovesInv, CurrentInv, PlannedDestinationsAreFree
<1> QED
  BY <1>1, PlannedOfOneWorker, PTL

\* createPlan of organization-planner.ts accounts for every file: when the plan is
\* stored, each file that the scan has seen was counted once, in whatever pages it was
\* read, as one that moves or under the reason for which it stays; and the scan has
\* seen all that the user has left alone.
THEOREM EveryFileAccountedFor ==
  ASSUME NEW x, Workers = {x}, MaxJobs = 1
  PROVE  PSpec => []PlanAccountsForEveryFile
<1>1. SInv /\ SoleInv(x) /\ DraftInv /\ CurrentInv => PlanAccountsForEveryFile
  <2> SUFFICES ASSUME SInv, SoleInv(x), DraftInv, CurrentInv, plan.status = "ready"
               PROVE  /\ Files \ touched \subseteq Observed
                      /\ plan.counts["scannedFiles"] = Cardinality(Files \cap Observed)
                      /\ Accounted(plan.counts, Len(plan.operations))
                      /\ Len(plan.operations) <= plan.options.maximumOperations
    BY DEF PlanAccountsForEveryFile, Accounted
  <2>1. scan.status = "completed" /\ AllDone /\ Root \in Known
    BY DEF CurrentInv, SoleInv, SInv, StoreInv
  <2>2. Files \ touched \subseteq Observed
    <3> SUFFICES ASSUME NEW p \in Files \ touched PROVE p \in Observed
      OBVIOUS
    <3>1. p \in Paths \ (touched \cup {Root})
      BY ScanAssumption DEF Files
    <3> QED
      BY <2>1, <3>1, WholeTree DEF Observed, Seen
  <2>3. Open = Files \cap Observed
    <3>1. plan.read \subseteq Files /\ plan.read \subseteq Observed
      BY PlanFields DEF DraftInv
    <3> QED
      BY <3>1 DEF Open, DraftInv, CurrentInv
  <2> QED
    BY <2>2, <2>3 DEF DraftInv
<1> QED
  BY <1>1, PlannedOfOneWorker, PTL
=============================================================================
