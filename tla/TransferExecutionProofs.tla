------------------------ MODULE TransferExecutionProofs ------------------------
(***************************************************************************)
(* Theorems about the execution of a transfer plan, for any number of      *)
(* workers, items, chunks and crashes, with and without hard links.        *)
(*                                                                         *)
(* No lease protects the files: a worker that has lost its own goes on     *)
(* beside the one that took over, and the user works in the same folders.  *)
(* What a worker has once found good at a destination may therefore be     *)
(* gone when it is relied on; what every step does keep is the account of  *)
(* it: the destination is good, or the user has touched it, or another     *)
(* worker has written through a link to it.  That no step but these loses  *)
(* a good destination is the inductive invariant of the first part.        *)
(*                                                                         *)
(* Two promises of the plan need more: that a completed plan is done, and  *)
(* that what was moved has its record.  They hold for one worker, the      *)
(* second while the gate stays open, and are proved in the next two parts; *)
(* the last part shows that one worker spoils no destination.              *)
(***************************************************************************)
EXTENDS TransferExecution, JobQueueProofs

Ordinals == 1 .. MaxUnits

\* The handler's variables and the files it makes, whatever the plan.
AnyLocals == [todo : SUBSET Ordinals, verified : SUBSET Ordinals, item : 0 .. MaxUnits,
              offset : Nat, handle : Nat, from : BOOLEAN, target : Nat, again : BOOLEAN]
AnyContent == [size : Nat, bad : SUBSET Nat]

WorkersTyped == workers \in [Workers -> Worker(HandlerPoints, AnyLocals)]

DiskTyped ==
  /\ disk \in [Items -> Seq(AnyContent)]
  /\ staging \in [Items -> Nat] /\ dest \in [Items -> Int]
  /\ \A i \in Items : /\ staging[i] # Absent => staging[i] \in DOMAIN disk[i]
                      /\ dest[i] > 0 => dest[i] \in DOMAIN disk[i]

StoreTyped ==
  /\ Items \subseteq Ordinals
  /\ plan \in [kind : PlanKinds, status : PlanStatuses, receipt : BOOLEAN, refreshed : BOOLEAN]
  /\ items \in [Items -> ItemStatuses]
  /\ source \in [Items -> FilesAt]
  /\ quarantine \in [Items -> FilesAt]
  /\ DiskTyped

\* Where a worker has an item, and where it writes into an open staging file.
ItemPoints == HandlerPoints \ {"begin", "start", "batch", "next", "close", "receipt",
                               "refresh", "failPlan", "pausePlan", "cancelPlan"}
Writing == {"trim", "chunk", "write", "mark", "bytes", "beat", "truncate", "empty"}

\* A file in quarantine may be counted on.
Kept(i) == quarantine[i] = "good" \/ i \in refilled

\* What a worker has seen.
WorkInv(x) ==
  x.pc \in HandlerPoints =>
    LET i == x.local.item
    IN /\ x.local.todo \subseteq Items
       /\ \A k \in x.local.verified : k \in Items /\ Verified(k)
       /\ x.pc \in ItemPoints => i \in Items
       /\ x.pc \in Writing \cup {"finalCopy"} => x.local.handle \in DOMAIN disk[i]
       /\ x.pc = "finalCopy" => x.local.target \in DOMAIN disk[i]
       /\ x.pc \in {"markVerified", "markCompleted"} => Verified(i)
       /\ x.pc \in {"retire", "move", "moved", "record"} /\ Kind = "retire" => Verified(i)
       /\ x.pc = "record" => Kept(i)

\* What the files and the plan say of an item.
FileInv ==
  /\ ItemsTellTheTruth
  /\ \A i \in Items :
       /\ quarantine[i] # "absent" => source[i] = "absent" \/ i \in refilled
       /\ Kind = "retire" /\ quarantine[i] = "good" => Verified(i)

XInv ==
  /\ IndInv /\ LinkInv /\ WorkersTyped /\ StoreTyped /\ gate \in Gates
  /\ FileInv
  /\ \A w \in Workers : WorkInv(workers[w])

-----------------------------------------------------------------------------
(* What a step relies on, and what it leaves to the others.                *)

\* What no step does to the files, whoever takes it: lose what was found good and not
\* account for it, take a file out of quarantine, or remove one that was made.
FileSteps ==
  /\ Kind' = Kind /\ Items' = Items
  /\ \A i \in Items : /\ Verified(i) => Verified(i)'
                      /\ Kept(i) => Kept(i)'
                      /\ DOMAIN disk[i] \subseteq DOMAIN disk'[i]

\* One worker moves, by a step of the queue.
Moves(w) ==
  /\ IndInv' /\ LinkInv' /\ [Next]_jobs /\ WorkersTyped'
  /\ \A v \in Workers \ {w} : workers'[v] = workers[v]

\* What a step of a worker keeps.
Keeps(w) == Moves(w) /\ StoreTyped' /\ FileInv' /\ FileSteps /\ WorkInv(workers[w])'

\* What a worker has seen is still so after a step.
LEMMA SeenStays ==
  ASSUME FileSteps, NEW w \in Workers, WorkInv(workers'[w])
  PROVE  WorkInv(workers[w])'
BY DEF FileSteps, WorkInv, Writing, ItemPoints, HandlerPoints

\* The others keep what they have seen, and the invariant holds again.
LEMMA KeepsInv ==
  ASSUME XInv, NEW w \in Workers, Keeps(w), UNCHANGED gate
  PROVE  XInv'
<1>1. ASSUME NEW v \in Workers \ {w}
      PROVE  WorkInv(workers[v])'
  <2>1. workers'[v] = workers[v] /\ WorkInv(workers[v]) /\ FileSteps
    BY DEF Keeps, Moves, XInv
  <2> QED
    BY <2>1, SeenStays
<1>2. WorkInv(workers[w])'
  BY DEF Keeps
<1> QED
  BY <1>1, <1>2 DEF Keeps, Moves, XInv

\* A step that changes neither a file nor what the plan says of an item.
LEMMA QuietFiles ==
  ASSUME XInv, Kind' = Kind, UNCHANGED <<items, recorded, files, refilled>>,
         plan' \in [kind : PlanKinds, status : PlanStatuses, receipt : BOOLEAN,
                    refreshed : BOOLEAN]
  PROVE  StoreTyped' /\ FileInv' /\ FileSteps
<1>1. /\ UNCHANGED <<source, disk, staging, dest, quarantine, touched, spoilt, items, recorded,
                     refilled>>
      /\ Items' = Items /\ StoreTyped /\ FileInv
  BY DEF files, Items, XInv
<1>2. \A i : Verified(i)' <=> Verified(i)
  BY <1>1 DEF Verified, Good
<1>3. StoreTyped' /\ FileSteps
  BY <1>1, <1>2 DEF StoreTyped, DiskTyped, FileSteps, Kept
<1>4. FileInv'
  BY <1>1, <1>2 DEF FileInv, ItemsTellTheTruth
<1> QED
  BY <1>3, <1>4

\* A worker at a point of the handler has its job and its local variables.
LEMMA HandlerFacts ==
  ASSUME XInv, NEW w \in Workers, workers[w].pc \in HandlerPoints
  PROVE  LET x == workers[w]
         IN /\ Linked(x) /\ x.local \in AnyLocals /\ x.saved \in Checkpoints
            /\ x.local.todo \subseteq Items
            /\ \A k \in x.local.verified : k \in Items /\ Verified(k)
            /\ x.pc \in ItemPoints => x.local.item \in Items
<1>1. workers[w] \in Worker(HandlerPoints, AnyLocals) /\ WorkInv(workers[w])
  BY DEF XInv, WorkersTyped
<1>2. Linked(workers[w])
  BY DEF Linked, HandlerPoints
<1> QED
  BY <1>1, <1>2 DEF Worker, WorkInv

LEMMA NoLocalType == NoLocal \in AnyLocals
<1>1. MaxUnits \in Nat
  BY BoundsAssumption
<1> QED
  BY <1>1, TransferAssumption DEF AnyLocals

\* The three ways a handler goes on without a call to the queue.
LEMMA GotoKeeps ==
  ASSUME XInv, NEW w \in Workers, workers[w].pc \in HandlerPoints,
         NEW point \in Points \cup HandlerPoints, Goto(w, point), UNCHANGED jobs
  PROVE  /\ Moves(w)
         /\ workers'[w].pc = point /\ workers'[w].local = workers[w].local
<1>1. /\ workers \in [Workers -> Worker(HandlerPoints, AnyLocals)] /\ Linked(workers[w])
      /\ IndInv /\ LinkInv
  BY HandlerFacts DEF XInv, WorkersTyped
<1>2. /\ WorkersTyped' /\ Acts(w, {}, {})
      /\ workers'[w].pc = point /\ workers'[w].local = workers[w].local
  BY <1>1, GotoActs DEF WorkersTyped
<1>3. IndInv' /\ LinkInv'
  BY <1>1, <1>2, ActsInv
<1> QED
  BY <1>2, <1>3 DEF Acts, Moves

LEMMA ContinueKeeps ==
  ASSUME XInv, NEW w \in Workers, workers[w].pc \in HandlerPoints,
         NEW point \in Points \cup HandlerPoints, NEW local \in AnyLocals,
         Continue(w, point, local), UNCHANGED jobs
  PROVE  /\ Moves(w)
         /\ workers'[w].pc = point /\ workers'[w].local = local
<1>1. /\ workers \in [Workers -> Worker(HandlerPoints, AnyLocals)] /\ Linked(workers[w])
      /\ IndInv /\ LinkInv
  BY HandlerFacts DEF XInv, WorkersTyped
<1>2. /\ WorkersTyped' /\ Acts(w, {}, {})
      /\ workers'[w].pc = point /\ workers'[w].local = local
  BY <1>1, ContinueActs DEF WorkersTyped
<1>3. IndInv' /\ LinkInv'
  BY <1>1, <1>2, ActsInv
<1> QED
  BY <1>2, <1>3 DEF Acts, Moves

LEMMA ThrowKeeps ==
  ASSUME XInv, NEW w \in Workers, workers[w].pc \in HandlerPoints,
         NEW retryable \in BOOLEAN, Throw(w, retryable), UNCHANGED jobs
  PROVE  /\ Moves(w)
         /\ workers'[w].pc = "fail"
<1>1. /\ workers \in [Workers -> Worker(HandlerPoints, AnyLocals)] /\ Linked(workers[w])
      /\ IndInv /\ LinkInv /\ NoLocal \in AnyLocals
  BY HandlerFacts, NoLocalType DEF XInv, WorkersTyped
<1>2. WorkersTyped' /\ Acts(w, {}, {}) /\ workers'[w].pc = "fail"
  BY <1>1, ThrowActs DEF WorkersTyped
<1>3. IndInv' /\ LinkInv'
  BY <1>1, <1>2, ActsInv
<1> QED
  BY <1>2, <1>3 DEF Acts, Moves

\* A worker that has left the handler has nothing to rely on.
LEMMA OutsideWork == ASSUME NEW x, x.pc \in Points PROVE WorkInv(x)
BY DEF WorkInv, Points, HandlerPoints

\* The contents of a file are replaced: every other file is as it was.
LEMMA DiskWrite ==
  ASSUME DiskTyped, NEW i \in Items, NEW n \in DOMAIN disk[i], NEW c \in AnyContent,
         disk' = [disk EXCEPT ![i][n] = c]
  PROVE  /\ disk' \in [Items -> Seq(AnyContent)]
         /\ \A k \in Items : DOMAIN disk'[k] = DOMAIN disk[k]
         /\ \A k \in Items : \A m \in DOMAIN disk[k] :
              disk'[k][m] = IF k = i /\ m = n THEN c ELSE disk[k][m]
<1> DEFINE s == disk[i]
           t == [s EXCEPT ![n] = c]
<1>1. s \in Seq(AnyContent) /\ n \in 1 .. Len(s) /\ DOMAIN s = 1 .. Len(s)
  BY DEF DiskTyped
<1>2. /\ t \in Seq(AnyContent) /\ DOMAIN t = DOMAIN s
      /\ \A m \in DOMAIN s : t[m] = IF m = n THEN c ELSE s[m]
  BY <1>1, ExceptSeq
<1>3. disk' = [disk EXCEPT ![i] = t] /\ disk \in [Items -> Seq(AnyContent)]
  BY DEF DiskTyped
<1> HIDE DEF t
<1> QED
  BY <1>2, <1>3

\* A file is made: every other one is as it was.
LEMMA DiskNew ==
  ASSUME DiskTyped, NEW i \in Items, disk' = Put(disk, i, Append(disk[i], Empty))
  PROVE  /\ disk' \in [Items -> Seq(AnyContent)]
         /\ Len(disk[i]) + 1 \in DOMAIN disk'[i]
         /\ Len(disk[i]) + 1 \in Nat /\ Len(disk[i]) + 1 > 0
         /\ Len(disk[i]) + 1 \notin DOMAIN disk[i]
         /\ \A k \in Items : DOMAIN disk[k] \subseteq DOMAIN disk'[k]
         /\ \A k \in Items : \A m \in DOMAIN disk[k] : disk'[k][m] = disk[k][m]
         /\ disk'[i][Len(disk[i]) + 1] = Empty
<1> DEFINE s == disk[i]
           t == Append(s, Empty)
<1>1. s \in Seq(AnyContent) /\ DOMAIN s = 1 .. Len(s) /\ Len(s) \in Nat
  BY DEF DiskTyped
<1>2. Empty \in AnyContent
  BY DEF Empty, AnyContent
<1>3. /\ t \in Seq(AnyContent) /\ DOMAIN t = 1 .. Len(s) + 1
      /\ \A m \in DOMAIN s : t[m] = s[m]
      /\ t[Len(s) + 1] = Empty
  BY <1>1, <1>2, AppendProperties
<1>4. disk' = [disk EXCEPT ![i] = t] /\ disk \in [Items -> Seq(AnyContent)]
  BY DEF DiskTyped, Put
<1> HIDE DEF t
<1> QED
  BY <1>1, <1>3, <1>4

\* A destination that is good is a file that was made.
LEMMA GoodIsMade ==
  ASSUME DiskTyped, NEW i \in Items, Good(i, dest[i])
  PROVE  dest[i] \in DOMAIN disk[i] /\ disk[i][dest[i]] = Approved
BY DEF DiskTyped, Good

\* A step that changes copies and destinations only.
LEMMA CopyFiles ==
  ASSUME XInv, UNCHANGED <<store, source, quarantine>>, DiskTyped',
         refilled \subseteq refilled',
         \A k \in Items : Verified(k) => Verified(k)',
         \A k \in Items : DOMAIN disk[k] \subseteq DOMAIN disk'[k]
  PROVE  StoreTyped' /\ FileInv' /\ FileSteps
<1>1. /\ UNCHANGED <<plan, items, recorded, source, quarantine>> /\ Kind' = Kind
      /\ Items' = Items /\ StoreTyped /\ FileInv
  BY DEF store, Kind, Items, XInv
<1>2. StoreTyped' /\ FileSteps
  BY <1>1 DEF StoreTyped, FileSteps, Kept
<1>3. FileInv'
  BY <1>1 DEF FileInv, ItemsTellTheTruth
<1> QED
  BY <1>2, <1>3

-----------------------------------------------------------------------------
(* The server, the user, the clock, and the process around the handler.    *)

\* A step that changes no worker.
LEMMA NoWorkerMoves ==
  ASSUME XInv, [Next]_jobs, UNCHANGED workers, StoreTyped', FileInv', FileSteps,
         gate' \in Gates
  PROVE  XInv'
<1>1. IndInv' /\ TableStep
  BY IndInvNext, NextStep DEF XInv
<1>2. LinkInv' /\ WorkersTyped'
  BY <1>1, LinkTable DEF XInv, WorkersTyped
<1>3. ASSUME NEW w \in Workers PROVE WorkInv(workers[w])'
  BY SeenStays DEF XInv
<1> QED
  BY <1>1, <1>2, <1>3 DEF XInv

LEMMA PlanType ==
  ASSUME StoreTyped, NEW status \in PlanStatuses, setPlanState(status)
  PROVE  /\ plan' \in [kind : PlanKinds, status : PlanStatuses, receipt : BOOLEAN,
                       refreshed : BOOLEAN]
         /\ Kind' = Kind
BY DEF StoreTyped, setPlanState, Kind

\* approve() writes the plan's status and submits the job.
LEMMA ServerKeeps ==
  ASSUME XInv, Server
  PROVE  XInv' /\ [Next]_jobs /\ FileSteps
<1>1. UNCHANGED <<workers, items, recorded, files, refilled>> /\ gate' \in Gates
  BY DEF Server, XInv
<1>2. [Next]_jobs
  <2>1. ASSUME NEW s \in Submissions, Submit(s) PROVE Next
    BY <2>1 DEF Next, ClientStep
  <2> QED
    BY <2>1 DEF Server, ApproveRead, ApproveWrite, ApproveSubmit, ApproveQueued
<1>3. /\ plan' \in [kind : PlanKinds, status : PlanStatuses, receipt : BOOLEAN,
                    refreshed : BOOLEAN]
      /\ Kind' = Kind
  <2>1. StoreTyped
    BY DEF XInv
  <2>2. UNCHANGED plan \/ setPlanState("approved") \/ setPlanState("transfer-queued")
    BY DEF Server, ApproveRead, ApproveWrite, ApproveSubmit, ApproveQueued
  <2>3. CASE UNCHANGED plan
    BY <2>1, <2>3 DEF StoreTyped, Kind
  <2> QED
    BY <2>1, <2>2, <2>3, PlanType DEF PlanStatuses
<1>4. StoreTyped' /\ FileInv' /\ FileSteps
  BY <1>1, <1>3, QuietFiles
<1>5. XInv'
  BY <1>1, <1>2, <1>4, NoWorkerMoves
<1> QED
  BY <1>2, <1>4, <1>5

\* The user changes, removes or refills a source.
LEMMA EditSourceKeeps ==
  ASSUME XInv, NEW i \in Items, EditSource(i), UNCHANGED <<store, staging, quarantine, spoilt>>
  PROVE  StoreTyped' /\ FileInv' /\ FileSteps
<1>1. /\ UNCHANGED <<plan, items, recorded, disk, staging, dest, quarantine, touched, spoilt>>
      /\ Kind' = Kind /\ Items' = Items /\ StoreTyped /\ FileInv
  BY DEF store, Kind, Items, XInv, EditSource
<1>2. \A k : Verified(k)' <=> Verified(k)
  BY <1>1 DEF Verified, Good
<1>3. /\ source' \in [Items -> FilesAt] /\ refilled \subseteq refilled'
      /\ \A k \in Items : source[k] = "absent" => source'[k] = "absent" \/ k \in refilled'
  BY <1>1 DEF EditSource, Put, StoreTyped, FilesAt
<1>4. StoreTyped' /\ FileSteps
  BY <1>1, <1>2, <1>3 DEF StoreTyped, DiskTyped, FileSteps, Kept
<1>5. FileInv'
  BY <1>1, <1>2, <1>3 DEF FileInv, ItemsTellTheTruth
<1> QED
  BY <1>4, <1>5

\* The user adds a file at a destination, removes the one that is there, or changes it or
\* the staging file where they are.
LEMMA EditDestinationKeeps ==
  ASSUME XInv, NEW i \in Items, EditDestination(i),
         UNCHANGED <<store, staging, quarantine, spoilt>>
  PROVE  StoreTyped' /\ FileInv' /\ FileSteps
<1>1. /\ Items' = Items /\ DiskTyped /\ UNCHANGED <<source, refilled>>
  BY DEF store, Items, XInv, StoreTyped, EditDestination
<1>2. ASSUME UNCHANGED disk, NEW file \in {Absent, Foreign}, dest' = Put(dest, i, file),
             touched \subseteq touched', Good(i, dest[i]) => i \in touched'
      PROVE  StoreTyped' /\ FileInv' /\ FileSteps
  <2>1. dest' \in [Items -> Int] /\ dest'[i] = file
        /\ \A k \in Items : k # i => dest'[k] = dest[k]
    BY <1>1, <1>2 DEF DiskTyped, Put, Absent, Foreign
  <2>2. DiskTyped'
    <3>1. ~(file > 0)
      BY DEF Absent, Foreign
    <3>2. \A k \in Items : dest'[k] > 0 => dest'[k] \in DOMAIN disk[k]
      BY <1>1, <2>1, <3>1 DEF DiskTyped
    <3>3. UNCHANGED <<disk, staging>>
      BY <1>2
    <3> QED
      BY <1>1, <2>1, <3>2, <3>3 DEF DiskTyped
  <2>3. ASSUME NEW k \in Items, Verified(k) PROVE Verified(k)'
    <3>1. CASE k = i
      BY <1>2, <2>3, <3>1 DEF Verified
    <3>2. CASE k # i
      BY <1>2, <2>1, <2>3, <3>2 DEF Verified, Good
    <3> QED
      BY <3>1, <3>2
  <2> QED
    BY <1>1, <1>2, <2>2, <2>3, CopyFiles
<1>3. CASE dest[i] = Absent /\ dest' = Put(dest, i, Foreign) /\ UNCHANGED <<disk, touched>>
  <2>1. ~Good(i, dest[i])
    BY <1>3 DEF Good, Absent
  <2> QED
    BY <1>2, <1>3, <2>1
<1>4. CASE /\ dest' = Put(dest, i, Absent) /\ UNCHANGED disk
           /\ touched' = IF dest[i] = Foreign THEN touched ELSE touched \cup {i}
  <2>1. Good(i, dest[i]) => i \in touched'
    BY <1>4 DEF Good, Foreign
  <2> QED
    BY <1>2, <1>4, <2>1
<1>5. ASSUME NEW n \in {staging[i], dest[i]} \ {Absent, Foreign}, NEW c \in Edited,
             disk' = [disk EXCEPT ![i][n] = c], UNCHANGED dest,
             touched' = IF n = dest[i] THEN touched \cup {i} ELSE touched
      PROVE  StoreTyped' /\ FileInv' /\ FileSteps
  <2>1. c \in AnyContent
    BY TransferAssumption DEF Edited, AnyContent, Size
  <2>2. CASE n \in DOMAIN disk[i]
    <3>1. /\ disk' \in [Items -> Seq(AnyContent)]
          /\ \A k \in Items : DOMAIN disk'[k] = DOMAIN disk[k]
          /\ \A k \in Items : \A m \in DOMAIN disk[k] :
               disk'[k][m] = IF k = i /\ m = n THEN c ELSE disk[k][m]
      BY <1>1, <1>5, <2>1, <2>2, DiskWrite
    <3>2. DiskTyped'
      BY <1>1, <1>5, <3>1 DEF DiskTyped
    <3>3. ASSUME NEW k \in Items, Verified(k) PROVE Verified(k)'
      <4>1. CASE Good(k, dest[k])
        BY <1>1, <1>5, <3>1, <4>1, GoodIsMade DEF Verified, Good
      <4>2. CASE k \in touched \/ k \in spoilt
        BY <1>5, <4>2 DEF Verified
      <4> QED
        BY <3>3, <4>1, <4>2 DEF Verified
    <3> QED
      BY <1>1, <3>1, <3>2, <3>3, CopyFiles
  <2>3. CASE n \notin DOMAIN disk[i]
    <3>1. n = dest[i] /\ ~(dest[i] > 0)
      BY <1>1, <2>3 DEF DiskTyped
    <3>2. disk' = disk
      <4>1. [disk[i] EXCEPT ![n] = c] = disk[i]
        BY <1>1, <2>3 DEF DiskTyped
      <4> QED
        BY <1>1, <1>5, <4>1 DEF DiskTyped
    <3>3. DiskTyped' /\ \A k \in Items : Verified(k) => Verified(k)'
      BY <1>1, <1>5, <3>2 DEF DiskTyped, Verified, Good
    <3> QED
      BY <1>1, <3>2, <3>3, CopyFiles
  <2> QED
    BY <2>2, <2>3
<1> QED
  BY <1>3, <1>4, <1>5 DEF EditDestination

\* The user controls the job, closes and opens the gate, and works with the files.
LEMMA UserKeeps ==
  ASSUME XInv, User, UNCHANGED <<workers, store>>
  PROVE  XInv' /\ [Next]_jobs /\ FileSteps
<1>1. /\ UNCHANGED <<plan, items, recorded>> /\ Kind' = Kind /\ StoreTyped /\ gate' \in Gates
  BY DEF store, Kind, XInv, User
<1>2. [Next]_jobs
  <2>1. ASSUME NEW j \in Ids, RequestPause(j) \/ Resume(j) \/ Cancel(j) PROVE Next
    BY <2>1 DEF Next, ClientStep
  <2> QED
    BY <2>1 DEF User, Control
<1>3. CASE UNCHANGED <<files, refilled>>
  <2>1. StoreTyped' /\ FileInv' /\ FileSteps
    BY <1>1, <1>3, QuietFiles DEF StoreTyped
  <2> QED
    BY <1>1, <1>2, <2>1, NoWorkerMoves
<1>4. ASSUME NEW i \in Items, Edit(i)
      PROVE  XInv' /\ [Next]_jobs /\ FileSteps
  <2>1. StoreTyped' /\ FileInv' /\ FileSteps
    BY <1>4, EditSourceKeeps, EditDestinationKeeps DEF Edit
  <2> QED
    BY <1>1, <1>2, <2>1, NoWorkerMoves
<1> QED
  BY <1>3, <1>4 DEF User

LEMMA TickKeeps ==
  ASSUME XInv, Tick, UNCHANGED <<workers, store, files, outside>>
  PROVE  XInv' /\ [Next]_jobs /\ FileSteps
<1>1. /\ UNCHANGED <<items, recorded, files, refilled>> /\ Kind' = Kind
      /\ [Next]_jobs /\ UNCHANGED plan /\ StoreTyped /\ gate' \in Gates
  BY DEF store, outside, Kind, Next, XInv
<1>2. StoreTyped' /\ FileInv' /\ FileSteps
  BY <1>1, QuietFiles DEF StoreTyped
<1>3. XInv'
  BY <1>1, <1>2, NoWorkerMoves
<1> QED
  BY <1>1, <1>2, <1>3

\* A worker dies anywhere: what it has done to the files stays.
LEMMA CrashKeeps ==
  ASSUME XInv, NEW w \in Workers, Crash(w), UNCHANGED <<store, files, outside>>
  PROVE  Keeps(w)
<1>1. /\ UNCHANGED <<items, recorded, files, refilled, plan>> /\ Kind' = Kind
      /\ StoreTyped /\ NoLocal \in AnyLocals /\ Die(w)
      /\ workers \in [Workers -> Worker(HandlerPoints, AnyLocals)] /\ IndInv /\ LinkInv
  BY NoLocalType DEF store, outside, Kind, XInv, WorkersTyped, Crash
<1>2. StoreTyped' /\ FileInv' /\ FileSteps
  BY <1>1, QuietFiles DEF StoreTyped
<1>3. WorkersTyped' /\ Acts(w, {}, {}) /\ workers'[w].pc = "down"
  BY <1>1, DieActs DEF WorkersTyped
<1>4. IndInv' /\ LinkInv'
  BY <1>1, <1>3, ActsInv
<1>5. WorkInv(workers[w])'
  BY <1>3 DEF WorkInv, HandlerPoints
<1> QED
  BY <1>2, <1>3, <1>4, <1>5 DEF Keeps, Moves, Acts

LEMMA ProcessMovesKeep ==
  ASSUME XInv, NEW w \in Workers, ProcessMoves(w), UNCHANGED <<store, files, outside>>
  PROVE  Keeps(w)
<1>1. /\ UNCHANGED <<items, recorded, files, refilled, plan>> /\ Kind' = Kind
      /\ StoreTyped /\ NoLocal \in AnyLocals
      /\ workers \in [Workers -> Worker(HandlerPoints, AnyLocals)] /\ IndInv /\ LinkInv
  BY NoLocalType DEF store, outside, Kind, XInv, WorkersTyped
<1>2. StoreTyped' /\ FileInv' /\ FileSteps
  BY <1>1, QuietFiles DEF StoreTyped
<1>3. /\ WorkersTyped' /\ IndInv' /\ LinkInv' /\ [Next]_jobs
      /\ \A v \in Workers \ {w} : workers'[v] = workers[v]
      /\ workers'[w].pc \in Points
  BY <1>1, ProcessKeeps DEF WorkersTyped
<1>4. WorkInv(workers[w])'
  BY <1>3 DEF WorkInv, HandlerPoints, Points
<1> QED
  BY <1>2, <1>3, <1>4 DEF Keeps, Moves

-----------------------------------------------------------------------------
(* The engine.  Each of its steps is of one of three kinds: it writes at   *)
(* most the plan's status, or the status of one item, or files.            *)

\* A step that writes no file and no item.
LEMMA QuietKeeps ==
  ASSUME XInv, NEW w \in Workers, Moves(w), UNCHANGED <<items, recorded, files, outside>>,
         Kind' = Kind,
         plan' \in [kind : PlanKinds, status : PlanStatuses, receipt : BOOLEAN,
                    refreshed : BOOLEAN],
         WorkInv(workers'[w])
  PROVE  Keeps(w)
<1>1. StoreTyped' /\ FileInv' /\ FileSteps
  BY QuietFiles DEF outside
<1> QED
  BY <1>1, SeenStays DEF Keeps

\* Neither does it write the plan.
LEMMA LooksKeeps ==
  ASSUME XInv, NEW w \in Workers, Moves(w), UNCHANGED <<store, files, outside>>,
         WorkInv(workers'[w])
  PROVE  Keeps(w)
<1>1. /\ UNCHANGED <<items, recorded, files, outside, plan>> /\ Kind' = Kind /\ StoreTyped
  BY DEF store, Kind, XInv
<1> QED
  BY <1>1, QuietKeeps DEF StoreTyped

\* What the plan says of an item becomes true before it says so.
LEMMA ItemStateKeeps ==
  ASSUME XInv, NEW w \in Workers, Moves(w), UNCHANGED <<plan, files, outside>>,
         NEW i \in Items, NEW status \in ItemStatuses, setItemState(i, status),
         status \in {"verified", "completed"} => Verified(i),
         status = "quarantined" => i \in recorded',
         \/ UNCHANGED recorded
         \/ recorded' = recorded \cup {i} /\ Kept(i),
         WorkInv(workers'[w])
  PROVE  Keeps(w)
<1>1. /\ UNCHANGED <<source, disk, staging, dest, quarantine, touched, spoilt, refilled>>
      /\ Kind' = Kind /\ StoreTyped /\ FileInv
  BY DEF files, outside, Kind, XInv
<1>2. /\ items' \in [Items -> ItemStatuses] /\ Items' = Items /\ items'[i] = status
      /\ \A k \in Items \ {i} : items'[k] = items[k]
  BY <1>1 DEF StoreTyped, setItemState, Items
<1>3. \A k : Verified(k)' <=> Verified(k)
  BY <1>1 DEF Verified, Good
<1>4. StoreTyped' /\ FileSteps
  BY <1>1, <1>2, <1>3 DEF StoreTyped, DiskTyped, FileSteps, Kept
<1>5. FileInv'
  BY <1>1, <1>2, <1>3 DEF FileInv, ItemsTellTheTruth, Kept
<1> QED
  BY <1>4, <1>5, SeenStays DEF Keeps

\* Two copies of the handler's variables that have the same work.
SameWork(l, m) == m.todo = l.todo /\ m.verified = l.verified /\ m.item = l.item

\* A worker that goes on with the same item, and sees no more of it.
LEMMA SameLocal ==
  ASSUME XInv, NEW w \in Workers, workers[w].pc \in HandlerPoints,
         NEW y, SameWork(workers[w].local, y.local), y.pc # "finalCopy",
         LET i == workers[w].local.item
         IN /\ y.pc \in ItemPoints => workers[w].pc \in ItemPoints
            /\ y.pc \in Writing => y.local.handle \in DOMAIN disk[i]
            /\ y.pc \in {"markVerified", "markCompleted"} => Verified(i)
            /\ y.pc \in {"retire", "move", "moved", "record"} /\ Kind = "retire" => Verified(i)
            /\ y.pc = "record" => Kept(i)
  PROVE  WorkInv(y)
<1>1. WorkInv(workers[w])
  BY DEF XInv
<1> QED
  BY <1>1 DEF WorkInv, SameWork

\* What a step past the item's work, or out of the handler, needs of the worker.
Plain == {"start", "batch", "next", "failItem", "checkpoint", "progress", "close", "receipt",
          "refresh", "failPlan", "pausePlan", "cancelPlan", "existing", "source", "open",
          "verifyCopy", "reopen", "promote", "committed"} \cup Writing

LEMMA PlainLocal ==
  ASSUME XInv, NEW w \in Workers, workers[w].pc \in HandlerPoints,
         NEW y, y.local = workers[w].local, y.pc \in Points \cup Plain,
         y.pc \in ItemPoints => workers[w].pc \in ItemPoints,
         y.pc \in Writing => workers[w].pc \in Writing
  PROVE  WorkInv(y)
<1>1. y.pc \notin {"finalCopy", "markVerified", "markCompleted", "retire", "move", "moved",
                   "record"}
  BY DEF Points, Plain, Writing
<1>2. WorkInv(workers[w])
  BY DEF XInv
<1> QED
  BY <1>1, <1>2, SameLocal DEF WorkInv, SameWork

\* A step that may write files: what the worker goes on with, when they are written.
LEMMA WorkOn ==
  ASSUME XInv, FileSteps, NEW w \in Workers, workers[w].pc \in HandlerPoints,
         SameWork(workers[w].local, workers'[w].local),
         LET y == workers'[w]
             i == workers[w].local.item
         IN /\ y.pc \in ItemPoints => workers[w].pc \in ItemPoints
            /\ y.pc \in Writing \cup {"finalCopy"} => y.local.handle \in DOMAIN disk'[i]
            /\ y.pc = "finalCopy" => y.local.target \in DOMAIN disk'[i]
            /\ y.pc \in {"markVerified", "markCompleted"} => Verified(i)'
            /\ y.pc \in {"retire", "move", "moved", "record"} /\ Kind = "retire" =>
                 Verified(i)'
            /\ y.pc = "record" => Kept(i)'
  PROVE  WorkInv(workers[w])'
<1>1. WorkInv(workers[w])
  BY DEF XInv
<1> QED
  BY <1>1 DEF WorkInv, SameWork, FileSteps, ItemPoints, Writing, HandlerPoints

\* Load: from no local variables.
LEMMA LoadKeeps ==
  ASSUME XInv, NEW w \in Workers, Load(w), UNCHANGED outside
  PROVE  Keeps(w)
<1>1. /\ LoadJob(w, "begin", NoLocal) /\ At(w, "load") /\ NoLocal \in AnyLocals
      /\ workers \in [Workers -> Worker(HandlerPoints, AnyLocals)] /\ IndInv /\ LinkInv
      /\ "begin" \in Points \cup HandlerPoints
      /\ UNCHANGED <<store, files>>
  BY NoLocalType DEF Load, LoadJob, XInv, WorkersTyped, HandlerPoints
<1>2. /\ WorkersTyped' /\ Acts(w, {}, {})
      /\ \/ workers'[w].pc = "down"
         \/ workers'[w].pc = "begin" /\ workers'[w].local = NoLocal
  BY <1>1, LoadJobActs DEF WorkersTyped
<1>3. Moves(w)
  BY <1>1, <1>2, ActsInv DEF Moves, Acts
<1>4. NoLocal.todo = {} /\ NoLocal.verified = {}
  BY TransferAssumption
<1>5. WorkInv(workers'[w])
  BY <1>2, <1>4 DEF WorkInv, Writing, HandlerPoints, ItemPoints
<1> QED
  BY <1>1, <1>3, <1>5, LooksKeeps

LEMMA BeginKeeps ==
  ASSUME XInv, NEW w \in Workers, Begin(w), UNCHANGED outside
  PROVE  Keeps(w)
<1>1. /\ workers[w].pc = "begin" /\ workers[w].pc \in HandlerPoints
      /\ UNCHANGED jobs /\ UNCHANGED <<store, files>>
      /\ \/ \E point \in {"finish", "start", "failPlan"} : Goto(w, point)
         \/ Throw(w, FALSE)
  BY DEF Begin, At, HandlerPoints, OnlyWorker
<1>2. ASSUME NEW point \in {"finish", "start", "failPlan"}, Goto(w, point)
      PROVE  Keeps(w)
  <2>1. point \in Points \cup HandlerPoints /\ point \in Points \cup Plain
        /\ point \notin ItemPoints /\ point \notin Writing
    BY DEF Points, HandlerPoints, Plain, Writing, ItemPoints
  <2>2. Moves(w) /\ workers'[w].pc = point /\ workers'[w].local = workers[w].local
    BY <1>1, <1>2, <2>1, GotoKeeps
  <2> QED
    BY <1>1, <2>1, <2>2, PlainLocal, LooksKeeps
<1>3. CASE Throw(w, FALSE)
  <2>1. Moves(w) /\ workers'[w].pc = "fail"
    BY <1>1, <1>3, ThrowKeeps
  <2> QED
    BY <1>1, <2>1, OutsideWork, LooksKeeps DEF Points
<1> QED
  BY <1>1, <1>2, <1>3

\* A worker goes to a point where it relies on nothing new, or gives up.
LEMMA GotoPlain ==
  ASSUME XInv, NEW w \in Workers, workers[w].pc \in HandlerPoints,
         NEW point \in Points \cup Plain,
         point \in ItemPoints => workers[w].pc \in ItemPoints,
         point \in Writing => workers[w].pc \in Writing,
         Goto(w, point), UNCHANGED jobs
  PROVE  Moves(w) /\ WorkInv(workers'[w])
<1>1. point \in Points \cup HandlerPoints
  BY DEF Plain, Writing, HandlerPoints
<1>2. Moves(w) /\ workers'[w].pc = point /\ workers'[w].local = workers[w].local
  BY <1>1, GotoKeeps
<1> QED
  BY <1>2, PlainLocal

LEMMA ThrowOut ==
  ASSUME XInv, NEW w \in Workers, workers[w].pc \in HandlerPoints,
         NEW retryable \in BOOLEAN, Throw(w, retryable), UNCHANGED jobs
  PROVE  Moves(w) /\ WorkInv(workers'[w])
<1>1. Moves(w) /\ workers'[w].pc = "fail"
  BY ThrowKeeps
<1> QED
  BY <1>1, OutsideWork DEF Points

\* A control check outside an item's try block: one of the ends of the plan, or on.
LEMMA ControlledKeeps ==
  ASSUME XInv, NEW w \in Workers, workers[w].pc \in HandlerPoints, UNCHANGED jobs,
         \E point \in {"failPlan", "cancelPlan", "pausePlan"} : Goto(w, point)
  PROVE  Moves(w) /\ WorkInv(workers'[w])
<1>1. PICK point \in {"failPlan", "cancelPlan", "pausePlan"} : Goto(w, point)
  OBVIOUS
<1>2. point \in Points \cup Plain /\ point \notin ItemPoints /\ point \notin Writing
  BY DEF Plain, Writing, ItemPoints
<1> QED
  BY <1>1, <1>2, GotoPlain

\* Start: the cursor is the saved checkpoint.
LEMMA StartKeeps ==
  ASSUME XInv, NEW w \in Workers, Start(w), UNCHANGED outside
  PROVE  Keeps(w)
<1> DEFINE local == [NoLocal EXCEPT !.item = workers[w].saved]
<1>1. /\ workers[w].pc \in HandlerPoints /\ UNCHANGED jobs /\ Continue(w, "batch", local)
      /\ setPlanState("transferring") /\ UNCHANGED <<items, recorded, files>>
  BY DEF Start, At, HandlerPoints
<1>2. local \in AnyLocals /\ local.todo = {} /\ local.verified = {}
  <2>1. workers[w].saved \in 0 .. MaxUnits
    BY <1>1, HandlerFacts DEF Checkpoints
  <2>2. NoLocal \in AnyLocals /\ NoLocal.todo = {} /\ NoLocal.verified = {}
    BY NoLocalType, TransferAssumption
  <2> QED
    BY <2>1, <2>2 DEF AnyLocals
<1> HIDE DEF local
<1>3. Moves(w) /\ workers'[w].pc = "batch" /\ workers'[w].local = local
  BY <1>1, <1>2, ContinueKeeps DEF HandlerPoints
<1>4. WorkInv(workers'[w])
  BY <1>2, <1>3 DEF WorkInv, Writing, ItemPoints
<1>5. /\ Kind' = Kind
      /\ plan' \in [kind : PlanKinds, status : PlanStatuses, receipt : BOOLEAN,
                    refreshed : BOOLEAN]
  BY <1>1, PlanType DEF XInv, PlanStatuses
<1> QED
  BY <1>1, <1>3, <1>4, <1>5, QuietKeeps

\* What is written to the local variables keeps their type.
BatchOf(l, todo, verified) == [l EXCEPT !.todo = todo, !.verified = verified]
ItemOf(l, i, todo) == [l EXCEPT !.item = i, !.todo = todo]

LEMMA BatchLocal ==
  ASSUME NEW l \in AnyLocals, NEW todo \in SUBSET Ordinals, NEW verified \in SUBSET Ordinals
  PROVE  LET m == BatchOf(l, todo, verified)
         IN m \in AnyLocals /\ m.todo = todo /\ m.verified = verified
BY DEF AnyLocals, BatchOf

LEMMA ItemLocal ==
  ASSUME NEW l \in AnyLocals, NEW i \in Ordinals, NEW todo \in SUBSET Ordinals
  PROVE  LET m == ItemOf(l, i, todo)
         IN m \in AnyLocals /\ m.item = i /\ m.todo = todo /\ m.verified = l.verified
<1> DEFINE m1 == [l EXCEPT !.item = i]
           m2 == [m1 EXCEPT !.todo = todo]
<1>1. i \in 0 .. MaxUnits
  BY BoundsAssumption DEF Ordinals
<1>2. m1 \in AnyLocals /\ m1.item = i /\ m1.verified = l.verified
  BY <1>1 DEF AnyLocals
<1> HIDE DEF m1
<1>3. m2 \in AnyLocals /\ m2.item = i /\ m2.todo = todo /\ m2.verified = l.verified
  BY <1>2 DEF AnyLocals
<1>4. ItemOf(l, i, todo) = m2
  BY DEF ItemOf, m1
<1> HIDE DEF m2
<1> QED
  BY <1>3, <1>4

\* Batch: the items that wait, and those among them that are verified.
LEMMA BatchKeeps ==
  ASSUME XInv, NEW w \in Workers, Batch(w), UNCHANGED outside
  PROVE  Keeps(w)
<1> DEFINE work == WorkItems(Item(w))
           point == IF work = {} THEN "close" ELSE "next"
           local == [Local(w) EXCEPT !.todo = work,
                                     !.verified = {i \in work : items[i] = "verified"}]
<1>1. /\ workers[w].pc = "batch" /\ workers[w].pc \in HandlerPoints
      /\ UNCHANGED jobs /\ UNCHANGED <<store, files>>
      /\ \/ \E end \in {"failPlan", "cancelPlan", "pausePlan"} : Goto(w, end)
         \/ Continue(w, point, local)
  BY DEF Batch, At, HandlerPoints, OnlyWorker, Controlled
<1>2. CASE \E end \in {"failPlan", "cancelPlan", "pausePlan"} : Goto(w, end)
  BY <1>1, <1>2, ControlledKeeps, LooksKeeps
<1>3. CASE Continue(w, point, local)
  <2>1. work \subseteq Items /\ Items \subseteq Ordinals
    BY DEF WorkItems, XInv, StoreTyped
  <2>2. \A i \in Items : items[i] = "verified" => Verified(i)
    BY DEF XInv, FileInv, ItemsTellTheTruth
  <2>3. /\ local \in AnyLocals /\ local.todo \subseteq Items
        /\ \A k \in local.verified : k \in Items /\ Verified(k)
    <3>1. Local(w) \in AnyLocals
      BY <1>1, HandlerFacts DEF Local
    <3> DEFINE verified == {i \in work : items[i] = "verified"}
    <3>2. verified \subseteq work /\ \A k \in verified : items[k] = "verified"
      OBVIOUS
    <3> HIDE DEF work, verified
    <3>3. work \in SUBSET Ordinals /\ verified \in SUBSET Ordinals
      BY <2>1, <3>2
    <3>4. local \in AnyLocals /\ local.todo = work /\ local.verified = verified
      <4>1. local = BatchOf(Local(w), work, verified)
        BY DEF BatchOf, verified
      <4> HIDE DEF local
      <4> QED
        BY <3>1, <3>3, <4>1, BatchLocal
    <3> HIDE DEF local
    <3> QED
      BY <2>1, <2>2, <3>2, <3>4
  <2>4. point \in {"close", "next"}
    OBVIOUS
  <2> HIDE DEF point, local
  <2>5. Moves(w) /\ workers'[w].pc = point /\ workers'[w].local = local
    BY <1>1, <1>3, <2>3, <2>4, ContinueKeeps DEF HandlerPoints
  <2>6. WorkInv(workers'[w])
    BY <2>3, <2>4, <2>5 DEF WorkInv, Writing, ItemPoints
  <2> QED
    BY <1>1, <2>5, <2>6, LooksKeeps
<1> QED
  BY <1>1, <1>2, <1>3

\* TakeItem: the first item of the batch, and where the work on it begins.
LEMMA TakeItemKeeps ==
  ASSUME XInv, NEW w \in Workers, TakeItem(w), UNCHANGED outside
  PROVE  Keeps(w)
<1> DEFINE x == workers[w]
           i == CHOOSE i \in x.local.todo : \A k \in x.local.todo : i <= k
           point == IF gate = "open" THEN FirstPoint ELSE "failPlan"
           local == [x.local EXCEPT !.item = i, !.todo = x.local.todo \ {i}]
<1>1. /\ x.pc = "next" /\ x.pc \in HandlerPoints
      /\ UNCHANGED jobs /\ UNCHANGED <<store, files>>
      /\ \/ x.local.todo = {} /\ Goto(w, "batch")
         \/ \E end \in {"failPlan", "cancelPlan", "pausePlan"} : Goto(w, end)
         \/ x.local.todo # {} /\ Continue(w, point, local)
  BY DEF TakeItem, At, HandlerPoints, OnlyWorker, Controlled, Local
<1>2. /\ x.local \in AnyLocals /\ x.local.todo \subseteq Items
      /\ \A k \in x.local.verified : k \in Items /\ Verified(k)
  BY <1>1, HandlerFacts
<1>3. CASE Goto(w, "batch")
  BY <1>1, <1>3, GotoPlain, LooksKeeps DEF Plain, Writing, ItemPoints
<1>4. CASE \E end \in {"failPlan", "cancelPlan", "pausePlan"} : Goto(w, end)
  BY <1>1, <1>4, ControlledKeeps, LooksKeeps
<1>5. CASE x.local.todo # {} /\ Continue(w, point, local)
  <2>1. x.local.todo \in SUBSET Ordinals /\ Ordinals \subseteq Nat /\ Items \subseteq Ordinals
    BY <1>2 DEF AnyLocals, Ordinals, XInv, StoreTyped
  <2>2. \E k \in x.local.todo : \A l \in x.local.todo : k <= l
    BY <1>5, <2>1, LeastElement
  <2>3. i \in x.local.todo
    BY <2>2
  <2> HIDE DEF i
  <2>4. /\ local \in AnyLocals /\ local.todo \subseteq Items /\ local.item = i /\ i \in Items
        /\ \A k \in local.verified : k \in Items /\ Verified(k)
    <3> DEFINE rest == x.local.todo \ {i}
    <3>1. i \in Ordinals /\ i \in Items /\ rest \in SUBSET Ordinals /\ rest \subseteq Items
      BY <1>2, <2>1, <2>3
    <3> HIDE DEF rest
    <3>2. local \in AnyLocals /\ local.item = i /\ local.todo = rest
          /\ local.verified = x.local.verified
      <4>1. local = ItemOf(x.local, i, rest)
        BY DEF ItemOf, rest
      <4> HIDE DEF local
      <4> QED
        BY <1>2, <3>1, <4>1, ItemLocal
    <3> HIDE DEF local
    <3> QED
      BY <1>2, <3>1, <3>2
  <2>5. point \in {"retire", "existing", "failPlan"} /\ (point = "retire" => Kind # "retire")
    BY DEF FirstPoint
  <2> HIDE DEF point, local
  <2>6. Moves(w) /\ workers'[w].pc = point /\ workers'[w].local = local
    BY <1>1, <1>5, <2>4, <2>5, ContinueKeeps DEF HandlerPoints
  <2>7. WorkInv(workers'[w])
    BY <2>4, <2>5, <2>6 DEF WorkInv, Writing
  <2> QED
    BY <1>1, <2>6, <2>7, LooksKeeps
<1> QED
  BY <1>1, <1>3, <1>4, <1>5

\* What a worker keeps of its variables when it writes one of the others, or closes the
\* files of its item.
LEMMA SetOffset ==
  ASSUME NEW l \in AnyLocals, NEW n \in Nat
  PROVE  LET m == [l EXCEPT !.offset = n]
         IN m \in AnyLocals /\ SameWork(l, m) /\ m.offset = n /\ m.handle = l.handle
BY DEF AnyLocals, SameWork

LEMMA SetHandle ==
  ASSUME NEW l \in AnyLocals, NEW n \in Nat
  PROVE  LET m == [l EXCEPT !.handle = n]
         IN m \in AnyLocals /\ SameWork(l, m) /\ m.handle = n
BY DEF AnyLocals, SameWork

LEMMA SetTarget ==
  ASSUME NEW l \in AnyLocals, NEW n \in Nat
  PROVE  LET m == [l EXCEPT !.target = n]
         IN m \in AnyLocals /\ SameWork(l, m) /\ m.target = n /\ m.handle = l.handle
BY DEF AnyLocals, SameWork

LEMMA SetFrom ==
  ASSUME NEW l \in AnyLocals, NEW b \in BOOLEAN
  PROVE  LET m == [l EXCEPT !.from = b]
         IN m \in AnyLocals /\ SameWork(l, m) /\ m.handle = l.handle
BY DEF AnyLocals, SameWork

LEMMA SetAgain ==
  ASSUME NEW l \in AnyLocals, NEW b \in BOOLEAN
  PROVE  LET m == [l EXCEPT !.again = b]
         IN m \in AnyLocals /\ SameWork(l, m)
BY DEF AnyLocals, SameWork

LEMMA ClosedLocal ==
  ASSUME NEW w \in Workers, Local(w) \in AnyLocals
  PROVE  Closed(w) \in AnyLocals /\ SameWork(Local(w), Closed(w))
<1> DEFINE m1 == [NoLocal EXCEPT !.todo = Local(w).todo]
           m2 == [m1 EXCEPT !.verified = Local(w).verified]
           m3 == [m2 EXCEPT !.item = Item(w)]
<1>1. m1 \in AnyLocals /\ m1.todo = Local(w).todo
  BY NoLocalType DEF AnyLocals
<1> HIDE DEF m1
<1>2. m2 \in AnyLocals /\ m2.todo = Local(w).todo /\ m2.verified = Local(w).verified
  BY <1>1 DEF AnyLocals
<1> HIDE DEF m2
<1>3. m3 \in AnyLocals /\ SameWork(Local(w), m3)
  BY <1>2 DEF AnyLocals, SameWork, Item
<1>4. Closed(w) = m3
  BY DEF Closed, m1, m2
<1> HIDE DEF m3
<1> QED
  BY <1>3, <1>4

\* FailItem: nothing is claimed of the item.
LEMMA FailItemKeeps ==
  ASSUME XInv, NEW w \in Workers, FailItem(w), UNCHANGED outside
  PROVE  Keeps(w)
<1> DEFINE i == workers[w].local.item
<1>1. /\ workers[w].pc = "failItem" /\ workers[w].pc \in HandlerPoints
      /\ Continue(w, "checkpoint", Closed(w)) /\ UNCHANGED jobs
      /\ setItemState(i, "failed") /\ UNCHANGED <<plan, recorded, files>>
  BY DEF FailItem, At, HandlerPoints, Item, Local
<1>2. i \in Items /\ Closed(w) \in AnyLocals /\ SameWork(workers[w].local, Closed(w))
  BY <1>1, HandlerFacts, ClosedLocal DEF ItemPoints, Local
<1>3. Moves(w) /\ workers'[w].pc = "checkpoint" /\ workers'[w].local = Closed(w)
  BY <1>1, <1>2, ContinueKeeps DEF HandlerPoints
<1>4. WorkInv(workers'[w])
  BY <1>1, <1>2, <1>3, SameLocal DEF ItemPoints, Writing
<1> QED
  BY <1>1, <1>2, <1>3, <1>4, ItemStateKeeps DEF ItemStatuses

\* A call to the queue that is refused, and one that is not.
LEMMA SaveKeeps ==
  ASSUME XInv, NEW w \in Workers, workers[w].pc \in HandlerPoints, NEW c \in Checkpoints,
         NEW point \in Plain, point \in ItemPoints => workers[w].pc \in ItemPoints,
         point \in Writing => workers[w].pc \in Writing,
         SaveContext(w, c, point, Local(w)), UNCHANGED <<store, files, outside>>
  PROVE  Keeps(w)
<1>1. /\ workers \in [Workers -> Worker(HandlerPoints, AnyLocals)] /\ Linked(workers[w])
      /\ IndInv /\ LinkInv /\ Local(w) \in AnyLocals /\ point \in Points \cup HandlerPoints
  BY HandlerFacts DEF XInv, WorkersTyped, Local, Plain, Writing, HandlerPoints
<1>2. /\ WorkersTyped' /\ Acts(w, {}, {workers[w].job})
      /\ workers'[w].pc = point /\ workers'[w].local = Local(w)
  BY <1>1, SaveContextActs DEF WorkersTyped
<1>3. Moves(w)
  BY <1>1, <1>2, ActsInv DEF Moves, Acts
<1> QED
  BY <1>2, <1>3, PlainLocal, LooksKeeps DEF Local

LEMMA ReportKeeps ==
  ASSUME XInv, NEW w \in Workers, workers[w].pc \in HandlerPoints,
         NEW point \in Plain, point \in ItemPoints => workers[w].pc \in ItemPoints,
         point \in Writing => workers[w].pc \in Writing,
         ReportContext(w, point, Local(w)), UNCHANGED <<store, files, outside>>
  PROVE  Keeps(w)
<1>1. /\ workers \in [Workers -> Worker(HandlerPoints, AnyLocals)] /\ Linked(workers[w])
      /\ IndInv /\ LinkInv /\ Local(w) \in AnyLocals /\ point \in Points \cup HandlerPoints
  BY HandlerFacts DEF XInv, WorkersTyped, Local, Plain, Writing, HandlerPoints
<1>2. /\ WorkersTyped' /\ Acts(w, {}, {})
      /\ workers'[w].pc = point /\ workers'[w].local = Local(w)
  BY <1>1, ReportContextActs DEF WorkersTyped
<1>3. Moves(w)
  BY <1>1, <1>2, ActsInv DEF Moves, Acts
<1> QED
  BY <1>2, <1>3, PlainLocal, LooksKeeps DEF Local

LEMMA CheckpointKeeps ==
  ASSUME XInv, NEW w \in Workers, Checkpoint(w), UNCHANGED outside
  PROVE  Keeps(w)
<1>1. /\ workers[w].pc = "checkpoint" /\ workers[w].pc \in HandlerPoints
      /\ UNCHANGED <<store, files>>
      /\ \/ SaveContext(w, Item(w), "progress", Local(w))
         \/ Goto(w, "failPlan") /\ UNCHANGED jobs
  BY DEF Checkpoint, At, HandlerPoints
<1>2. Item(w) \in Checkpoints
  BY <1>1, HandlerFacts DEF AnyLocals, Checkpoints, Item, Local
<1>3. CASE SaveContext(w, Item(w), "progress", Local(w))
  BY <1>1, <1>2, <1>3, SaveKeeps DEF Plain, Writing, ItemPoints, HandlerPoints
<1>4. CASE Goto(w, "failPlan") /\ UNCHANGED jobs
  BY <1>1, <1>4, GotoPlain, LooksKeeps DEF Plain, Writing, ItemPoints
<1> QED
  BY <1>1, <1>3, <1>4

LEMMA ProgressKeeps ==
  ASSUME XInv, NEW w \in Workers, Progress(w), UNCHANGED outside
  PROVE  Keeps(w)
<1>1. /\ workers[w].pc = "progress" /\ workers[w].pc \in HandlerPoints
      /\ UNCHANGED <<store, files>>
      /\ \/ ReportContext(w, "next", Local(w))
         \/ Goto(w, "failPlan") /\ UNCHANGED jobs
  BY DEF Progress, At, HandlerPoints
<1>2. CASE ReportContext(w, "next", Local(w))
  BY <1>1, <1>2, ReportKeeps DEF Plain, Writing, ItemPoints
<1>3. CASE Goto(w, "failPlan") /\ UNCHANGED jobs
  BY <1>1, <1>3, GotoPlain, LooksKeeps DEF Plain, Writing, ItemPoints
<1> QED
  BY <1>1, <1>2, <1>3

\* Close, SaveReceipt, SubmitCatalogRefresh, FailPlan, InterruptPlan: the plan's end.
LEMMA EndKeeps ==
  ASSUME XInv, NEW w \in Workers,
         Close(w) \/ SaveReceipt(w) \/ SubmitCatalogRefresh(w) \/ FailPlan(w) \/ InterruptPlan(w),
         UNCHANGED outside
  PROVE  Keeps(w)
<1>1. /\ workers[w].pc \in HandlerPoints /\ UNCHANGED jobs
      /\ UNCHANGED <<items, recorded, files>>
      /\ \/ \E point \in {"receipt", "refresh", "finish", "ackPause", "ackCancel"} :
              Goto(w, point)
         \/ Throw(w, FALSE)
      /\ \/ \E status \in PlanStatuses : setPlanState(status)
         \/ plan' = [plan EXCEPT !.receipt = TRUE]
         \/ plan' = [plan EXCEPT !.refreshed = (Kind # "consolidate")]
  <2>1. CASE Close(w)
    <3>1. \E status \in {"partial", "completed"} : setPlanState(status)
      BY <2>1 DEF Close
    <3> QED
      BY <2>1, <3>1 DEF Close, Step, At, HandlerPoints, PlanStatuses
  <2>2. CASE SaveReceipt(w)
    BY <2>2 DEF SaveReceipt, Step, At, HandlerPoints
  <2>3. CASE SubmitCatalogRefresh(w)
    BY <2>3 DEF SubmitCatalogRefresh, Step, At, HandlerPoints
  <2>4. CASE FailPlan(w)
    BY <2>4 DEF FailPlan, At, HandlerPoints, PlanStatuses
  <2>5. CASE InterruptPlan(w)
    BY <2>5 DEF InterruptPlan, Step, At, HandlerPoints, PlanStatuses
  <2> QED
    BY <2>1, <2>2, <2>3, <2>4, <2>5
<1>2. Moves(w) /\ WorkInv(workers'[w])
  <2>1. ASSUME NEW point \in {"receipt", "refresh", "finish", "ackPause", "ackCancel"}
        PROVE  point \in Points \cup Plain /\ point \notin ItemPoints /\ point \notin Writing
    BY DEF Points, Plain, Writing, ItemPoints, HandlerPoints
  <2> QED
    BY <1>1, <2>1, GotoPlain, ThrowOut
<1>3. /\ Kind' = Kind
      /\ plan' \in [kind : PlanKinds, status : PlanStatuses, receipt : BOOLEAN,
                    refreshed : BOOLEAN]
  <2>1. StoreTyped
    BY DEF XInv
  <2>2. ASSUME NEW status \in PlanStatuses, setPlanState(status) PROVE <1>3!:
    BY <2>1, <2>2, PlanType
  <2>3. CASE plan' = [plan EXCEPT !.receipt = TRUE]
    BY <2>1, <2>3 DEF StoreTyped, Kind
  <2>4. ASSUME NEW refreshed \in BOOLEAN, plan' = [plan EXCEPT !.refreshed = refreshed]
        PROVE  <1>3!:
    BY <2>1, <2>4 DEF StoreTyped, Kind
  <2>5. (Kind # "consolidate") \in BOOLEAN
    OBVIOUS
  <2> QED
    BY <1>1, <2>2, <2>3, <2>4, <2>5
<1> QED
  BY <1>1, <1>2, <1>3, QuietKeeps

-----------------------------------------------------------------------------
(* One item.                                                               *)

\* Where the gates send a worker.
LEMMA GatedPoint ==
  ASSUME XInv, NEW to
  PROVE  Gated(to) \in {to, "failPlan", "failItem"}
BY DEF XInv, Gates, Gated

\* A worker that has an item goes to another point of its work.
LEMMA GotoItem ==
  ASSUME XInv, NEW w \in Workers, workers[w].pc \in ItemPoints,
         NEW point \in HandlerPoints, Goto(w, point), UNCHANGED jobs,
         LET i == workers[w].local.item
         IN /\ point # "finalCopy"
            /\ point \in Writing => workers[w].pc \in Writing
            /\ point \in {"markVerified", "markCompleted"} => Verified(i)
            /\ point \in {"retire", "move", "moved", "record"} /\ Kind = "retire" =>
                 Verified(i)
            /\ point = "record" => Kept(i)
  PROVE  Moves(w) /\ WorkInv(workers'[w])
<1>1. point \in Points \cup HandlerPoints /\ workers[w].pc \in HandlerPoints
  BY DEF ItemPoints
<1>2. Moves(w) /\ workers'[w].pc = point /\ workers'[w].local = workers[w].local
  BY <1>1, GotoKeeps
<1>3. WorkInv(workers[w])
  BY DEF XInv
<1> QED
  BY <1>1, <1>2, <1>3, SameLocal DEF SameWork, WorkInv

\* What a worker knows of its item.
LEMMA ItemFacts ==
  ASSUME XInv, NEW w \in Workers, workers[w].pc \in ItemPoints
  PROVE  LET x == workers[w]
             i == x.local.item
         IN /\ i \in Items /\ i = Item(w) /\ x.local = Local(w)
            /\ x.pc \in HandlerPoints /\ x.local \in AnyLocals
            /\ \A k \in x.local.verified : k \in Items /\ Verified(k)
            /\ x.pc \in Writing \cup {"finalCopy"} => x.local.handle \in DOMAIN disk[i]
            /\ x.pc = "finalCopy" => x.local.target \in DOMAIN disk[i]
            /\ x.pc \in {"markVerified", "markCompleted"} => Verified(i)
            /\ x.pc \in {"retire", "move", "moved", "record"} /\ Kind = "retire" =>
                 Verified(i)
            /\ x.pc = "record" => Kept(i)
<1>1. WorkInv(workers[w]) /\ workers[w].pc \in HandlerPoints
  BY DEF XInv, ItemPoints
<1> QED
  BY <1>1, HandlerFacts DEF WorkInv, Item, Local

\* A worker closes the files of its item, or goes on with other variables of the copy.
LEMMA ContinueItem ==
  ASSUME XInv, NEW w \in Workers, workers[w].pc \in ItemPoints,
         NEW point \in HandlerPoints, NEW local \in AnyLocals, SameWork(Local(w), local),
         Continue(w, point, local), UNCHANGED jobs, FileSteps,
         LET i == workers[w].local.item
         IN /\ point \in Writing \cup {"finalCopy"} => local.handle \in DOMAIN disk'[i]
            /\ point = "finalCopy" => local.target \in DOMAIN disk'[i]
            /\ point \notin {"markVerified", "markCompleted", "retire", "move", "moved",
                             "record"}
  PROVE  Moves(w) /\ WorkInv(workers[w])'
<1>1. point \in Points \cup HandlerPoints /\ workers[w].pc \in HandlerPoints
  BY DEF ItemPoints
<1>2. Moves(w) /\ workers'[w].pc = point /\ workers'[w].local = local
  BY <1>1, ContinueKeeps
<1> QED
  BY <1>1, <1>2, WorkOn DEF Local

\* A worker writes through an open handle: what is lost by it is accounted for.
LEMMA OverwriteKeeps ==
  ASSUME XInv, NEW i \in Items, NEW n \in DOMAIN disk[i], NEW c \in AnyContent,
         Overwrite(i, n, c), UNCHANGED <<store, outside>>
  PROVE  StoreTyped' /\ FileInv' /\ FileSteps
<1>1. /\ Items' = Items /\ DiskTyped /\ UNCHANGED <<source, staging, dest, quarantine, refilled>>
      /\ disk' = [disk EXCEPT ![i][n] = c] /\ UNCHANGED touched
  BY DEF store, outside, Items, XInv, StoreTyped, Overwrite
<1>2. /\ disk' \in [Items -> Seq(AnyContent)]
      /\ \A k \in Items : DOMAIN disk'[k] = DOMAIN disk[k]
      /\ \A k \in Items : \A m \in DOMAIN disk[k] :
           disk'[k][m] = IF k = i /\ m = n THEN c ELSE disk[k][m]
  BY <1>1, DiskWrite
<1>3. DiskTyped'
  BY <1>1, <1>2 DEF DiskTyped
<1>4. ASSUME NEW k \in Items, Verified(k) PROVE Verified(k)'
  <2>1. spoilt \subseteq spoilt' /\ (n = dest[i] /\ Good(i, n) /\ c # Approved => i \in spoilt')
    BY DEF Overwrite
  <2>2. CASE Good(k, dest[k])
    BY <1>1, <1>2, <2>1, <2>2, GoodIsMade DEF Verified, Good
  <2>3. CASE k \in touched \/ k \in spoilt
    BY <1>1, <2>1, <2>3 DEF Verified
  <2> QED
    BY <1>4, <2>2, <2>3 DEF Verified
<1> QED
  BY <1>1, <1>2, <1>3, <1>4, CopyFiles DEF store

\* A worker has looked at a destination, and removed the staging file that it was made of.
LEMMA FoundKeeps ==
  ASSUME XInv, NEW i \in Items, NEW good \in BOOLEAN, good => Good(i, dest[i]),
         Found(i, good), UNCHANGED <<store, outside, source, disk, dest, quarantine>>,
         staging' = staging \/ staging' = Put(staging, i, Absent)
  PROVE  /\ StoreTyped' /\ FileInv' /\ FileSteps
         /\ good => Verified(i)'
<1>1. /\ Items' = Items /\ DiskTyped /\ UNCHANGED <<source, disk, dest, quarantine, refilled>>
  BY DEF store, outside, Items, XInv, StoreTyped
<1>2. DiskTyped'
  BY <1>1 DEF DiskTyped, Put, Absent
<1>3. \A k : Good(k, dest[k])' <=> Good(k, dest[k])
  BY <1>1 DEF Good
<1>4. /\ \A k \in Items : Verified(k) => Verified(k)'
      /\ good => Verified(i)'
  BY <1>3 DEF Verified, Found
<1> QED
  BY <1>1, <1>2, <1>4, CopyFiles DEF store

LEMMA ContentType ==
  ASSUME NEW c \in AnyContent, NEW k \in Nat, NEW good \in BOOLEAN
  PROVE  Written(c, k, good) \in AnyContent /\ Resized(c, k) \in AnyContent
<1>1. c.size \in Nat /\ c.bad \in SUBSET Nat
  BY DEF AnyContent
<1>2. c.size + 1 .. k - 1 \subseteq Nat /\ c.size + 1 .. k \subseteq Nat
  BY <1>1
<1>3. Written(c, k, good) \in AnyContent
  BY <1>1, <1>2 DEF AnyContent, Written
<1>4. Resized(c, k) \in AnyContent
  BY <1>1, <1>2 DEF AnyContent, Resized
<1> QED
  BY <1>3, <1>4

\* Existing: what is at the destination is verified there, or the item fails.
LEMMA ExistingKeeps ==
  ASSUME XInv, NEW w \in Workers, Existing(w), UNCHANGED outside
  PROVE  Keeps(w)
<1> DEFINE x == workers[w]
           i == x.local.item
           good == i \notin x.local.verified /\ gate = "open" /\ Good(i, dest[i])
           to == IF i \in x.local.verified THEN AfterVerified
                 ELSE IF dest[i] = Absent THEN "source"
                 ELSE IF Good(i, dest[i]) THEN "markVerified" ELSE "failItem"
           point == Gated(to)
<1>1. /\ x.pc = "existing" /\ x.pc \in ItemPoints
      /\ Goto(w, point) /\ UNCHANGED jobs /\ UNCHANGED <<plan, items, recorded>>
      /\ Found(i, good) /\ UNCHANGED <<source, disk, staging, dest, quarantine>>
  BY DEF Existing, OnItem, Step, At, ItemPoints, HandlerPoints, Item, Local
<1>2. i \in Items /\ \A k \in x.local.verified : k \in Items /\ Verified(k)
  BY <1>1, ItemFacts
<1>3. StoreTyped' /\ FileInv' /\ FileSteps
  <2>1. good \in BOOLEAN /\ (good => Good(i, dest[i]))
    BY DEF Good
  <2> HIDE DEF good
  <2> QED
    BY <1>1, <1>2, <2>1, FoundKeeps DEF store
<1>4. /\ to \in {"retire", "markCompleted", "source", "markVerified", "failItem"}
      /\ to \in {"retire", "markCompleted", "markVerified"} => Verified(i)
  BY <1>2 DEF AfterVerified, Verified
<1> HIDE DEF to
<1>5. point \in {to, "failPlan", "failItem"}
  BY GatedPoint
<1> HIDE DEF point, good
<1>6. Moves(w) /\ WorkInv(workers'[w])
  BY <1>1, <1>4, <1>5, GotoItem DEF HandlerPoints, Writing
<1> QED
  BY <1>3, <1>6, SeenStays DEF Keeps

LEMMA CheckSourceKeeps ==
  ASSUME XInv, NEW w \in Workers, CheckSource(w), UNCHANGED outside
  PROVE  Keeps(w)
<1>1. /\ workers[w].pc = "source" /\ workers[w].pc \in ItemPoints
      /\ UNCHANGED jobs /\ UNCHANGED <<plan, recorded, files>>
      /\ \/ Goto(w, "open") /\ setItemState(Item(w), "copying")
         \/ Goto(w, "failItem") /\ UNCHANGED items
  BY DEF CheckSource, OnItem, Step, At, ItemPoints, HandlerPoints
<1>2. Item(w) \in Items
  BY <1>1, ItemFacts
<1>3. Moves(w) /\ WorkInv(workers'[w])
  BY <1>1, GotoItem DEF HandlerPoints, Writing
<1> QED
  BY <1>1, <1>2, <1>3, ItemStateKeeps, LooksKeeps DEF ItemStatuses, store

LEMMA ChunkOrDoneType ==
  ASSUME NEW offset PROVE ChunkOrDone(offset) \in {"truncate", "chunk"}
BY DEF ChunkOrDone

\* OpenStaging: the file that is there is opened, or a new one is made.
LEMMA OpenStagingKeeps ==
  ASSUME XInv, NEW w \in Workers, OpenStaging(w), UNCHANGED outside
  PROVE  Keeps(w)
<1> DEFINE i == Item(w)
           new == staging[i] = Absent
           n == IF new THEN Len(disk[i]) + 1 ELSE staging[i]
           size == IF new THEN 0 ELSE disk[i][n].size
           offset == IF size > Size THEN 0 ELSE size
           from == source[i] = "good"
           m1 == [Local(w) EXCEPT !.handle = n]
           m2 == [m1 EXCEPT !.from = from]
           m3 == [m2 EXCEPT !.offset = offset]
           point == IF size > Size THEN "trim" ELSE ChunkOrDone(offset)
<1>1. /\ workers[w].pc \in ItemPoints /\ UNCHANGED jobs
      /\ UNCHANGED <<store, source, dest, quarantine, touched, spoilt>>
      /\ \/ Goto(w, "failItem") /\ UNCHANGED <<disk, staging>>
         \/ /\ Continue(w, point, m3)
            /\ staging' = Put(staging, i, n)
            /\ disk' = IF new THEN Put(disk, i, Append(disk[i], Empty)) ELSE disk
  BY DEF OpenStaging, At, ItemPoints, HandlerPoints
<1>0. point \in {"trim", "truncate", "chunk"}
  BY ChunkOrDoneType
<1> HIDE DEF point, m3
<1>2. /\ i \in Items /\ i = workers[w].local.item /\ Local(w) \in AnyLocals
      /\ DiskTyped /\ Items' = Items /\ refilled' = refilled
  BY <1>1, ItemFacts DEF XInv, StoreTyped, store, outside, Items
<1>3. CASE Goto(w, "failItem") /\ UNCHANGED <<disk, staging>>
  <2>1. Moves(w) /\ WorkInv(workers'[w])
    BY <1>1, <1>3, GotoItem DEF HandlerPoints, Writing
  <2> QED
    BY <1>1, <1>3, <2>1, LooksKeeps DEF files
<1>4. CASE /\ Continue(w, point, m3)
           /\ staging' = Put(staging, i, n)
           /\ disk' = IF new THEN Put(disk, i, Append(disk[i], Empty)) ELSE disk
  <2>1. /\ disk' \in [Items -> Seq(AnyContent)] /\ n \in DOMAIN disk'[i] /\ n \in Nat
        /\ \A k \in Items : DOMAIN disk[k] \subseteq DOMAIN disk'[k]
        /\ \A k \in Items : \A m \in DOMAIN disk[k] : disk'[k][m] = disk[k][m]
    <3>1. CASE new
      <4>1. n = Len(disk[i]) + 1 /\ disk' = Put(disk, i, Append(disk[i], Empty))
        BY <1>4, <3>1
      <4> HIDE DEF n
      <4> QED
        BY <1>2, <4>1, DiskNew
    <3>2. CASE ~new
      <4>1. n = staging[i] /\ disk' = disk
        BY <1>4, <3>2
      <4> HIDE DEF n
      <4> QED
        BY <1>2, <3>2, <4>1 DEF DiskTyped
    <3> QED
      BY <3>1, <3>2
  <2>2. offset \in Nat
    <3>1. CASE new
      BY <3>1
    <3>2. CASE ~new
      <4>1. n \in DOMAIN disk[i] /\ disk[i] \in Seq(AnyContent)
        BY <1>2, <3>2 DEF DiskTyped
      <4>2. disk[i][n] \in AnyContent
        BY <4>1
      <4> QED
        BY <3>2, <4>2 DEF AnyContent
    <3> QED
      BY <3>1, <3>2
  <2> HIDE DEF offset, size, n
  <2>4. m3 \in AnyLocals /\ SameWork(Local(w), m3) /\ m3.handle = n
    <3>1. m1 \in AnyLocals /\ SameWork(Local(w), m1) /\ m1.handle = n
      BY <1>2, <2>1, SetHandle
    <3> HIDE DEF m1
    <3>2. m2 \in AnyLocals /\ SameWork(m1, m2) /\ m2.handle = n
      <4>1. from \in BOOLEAN
        OBVIOUS
      <4> HIDE DEF from
      <4> QED
        BY <3>1, <4>1, SetFrom DEF m2
    <3> HIDE DEF m2
    <3>3. m3 \in AnyLocals /\ SameWork(m2, m3) /\ m3.handle = n
      BY <2>2, <3>2, SetOffset DEF m3
    <3> QED
      BY <3>1, <3>2, <3>3 DEF SameWork
  <2>5. DiskTyped'
    <3>1. /\ \A k \in Items : staging'[k] = IF k = i THEN n ELSE staging[k]
          /\ staging' \in [Items -> Nat] /\ dest' = dest
      BY <1>1, <1>2, <1>4, <2>1 DEF DiskTyped, Put
    <3> QED
      BY <1>2, <2>1, <3>1 DEF DiskTyped
  <2>6. ASSUME NEW k \in Items, Verified(k) PROVE Verified(k)'
    <3>1. CASE Good(k, dest[k])
      BY <1>1, <1>2, <2>1, <3>1, GoodIsMade DEF Verified, Good
    <3>2. CASE k \in touched \/ k \in spoilt
      BY <1>1, <3>2 DEF Verified
    <3> QED
      BY <2>6, <3>1, <3>2 DEF Verified
  <2>7. StoreTyped' /\ FileInv' /\ FileSteps
    BY <1>1, <1>2, <2>1, <2>5, <2>6, CopyFiles
  <2>8. Moves(w) /\ WorkInv(workers[w])'
    <3>1. /\ point \in HandlerPoints /\ m3.handle \in DOMAIN disk'[i]
          /\ point \notin {"finalCopy", "markVerified", "markCompleted", "retire", "move",
                           "moved", "record"}
      BY <1>0, <2>1, <2>4 DEF HandlerPoints
    <3>2. Continue(w, point, m3) /\ UNCHANGED jobs /\ FileSteps
      BY <1>1, <1>4, <2>7
    <3> HIDE DEF i, n
    <3> QED
      BY <1>1, <1>2, <2>4, <3>1, <3>2, ContinueItem
  <2> QED
    BY <2>7, <2>8 DEF Keeps
<1> QED
  BY <1>1, <1>3, <1>4

\* WriteChunk: to the open file, whatever names it has by now.
LEMMA WriteChunkKeeps ==
  ASSUME XInv, NEW w \in Workers, WriteChunk(w), UNCHANGED outside
  PROVE  Keeps(w)
<1> DEFINE i == Item(w)
           offset == Local(w).offset + 1
           n == Local(w).handle
           m == [Local(w) EXCEPT !.offset = offset]
<1>1. /\ workers[w].pc = "write" /\ workers[w].pc \in ItemPoints /\ workers[w].pc \in Writing
      /\ UNCHANGED <<jobs, store>>
      /\ \/ Goto(w, "failItem") /\ UNCHANGED files
         \/ \E good \in BOOLEAN, point \in {"mark", "chunk"} :
              /\ Overwrite(i, n, Written(disk[i][n], offset, good))
              /\ Continue(w, point, m)
  BY DEF WriteChunk, At, ItemPoints, HandlerPoints, Writing
<1>2. /\ i \in Items /\ i = workers[w].local.item /\ Local(w) \in AnyLocals
      /\ n \in DOMAIN disk[i] /\ offset \in Nat /\ DiskTyped
  BY <1>1, ItemFacts DEF XInv, StoreTyped, AnyLocals
<1>3. CASE Goto(w, "failItem") /\ UNCHANGED files
  <2>1. Moves(w) /\ WorkInv(workers'[w])
    BY <1>1, <1>3, GotoItem DEF HandlerPoints, Writing
  <2> QED
    BY <1>1, <1>3, <2>1, LooksKeeps
<1>4. ASSUME NEW good \in BOOLEAN, NEW point \in {"mark", "chunk"},
             Overwrite(i, n, Written(disk[i][n], offset, good)), Continue(w, point, m)
      PROVE  Keeps(w)
  <2>1. disk[i] \in Seq(AnyContent)
    BY <1>2 DEF DiskTyped
  <2>2. disk[i][n] \in AnyContent
    BY <1>2, <2>1
  <2>3. Written(disk[i][n], offset, good) \in AnyContent
    BY <1>2, <2>2, ContentType
  <2>4. StoreTyped' /\ FileInv' /\ FileSteps
    BY <1>1, <1>2, <1>4, <2>3, OverwriteKeeps
  <2>5. m \in AnyLocals /\ SameWork(Local(w), m) /\ m.handle = n
    BY <1>2, SetOffset
  <2>6. n \in DOMAIN disk'[i] /\ point \in HandlerPoints
    BY <1>2, <2>4 DEF FileSteps, HandlerPoints
  <2> HIDE DEF m, i, n
  <2>7. Moves(w) /\ WorkInv(workers[w])'
    BY <1>1, <1>2, <1>4, <2>4, <2>5, <2>6, ContinueItem
  <2> QED
    BY <2>4, <2>7 DEF Keeps
<1> QED
  BY <1>1, <1>3, <1>4

\* CheckChunk, MarkBytes, SaveBytes: control, the item's status and the checkpoint.
LEMMA CheckChunkKeeps ==
  ASSUME XInv, NEW w \in Workers, CheckChunk(w), UNCHANGED outside
  PROVE  Keeps(w)
<1> DEFINE point == Gated("write")
<1>1. /\ workers[w].pc = "chunk" /\ workers[w].pc \in ItemPoints
      /\ UNCHANGED jobs /\ UNCHANGED <<store, files>>
      /\ \/ Goto(w, "failItem")
         \/ \E end \in {"failPlan", "cancelPlan", "pausePlan"} : Goto(w, end)
         \/ Goto(w, point)
  BY DEF CheckChunk, Controlled, OnlyWorker, At, ItemPoints, HandlerPoints
<1>2. point \in {"failItem", "write", "failPlan"}
  BY GatedPoint
<1> HIDE DEF point
<1>3. Moves(w) /\ WorkInv(workers'[w])
  <2>1. workers[w].pc \in HandlerPoints
    BY <1>1 DEF ItemPoints
  <2> QED
    BY <1>1, <1>2, <2>1, GotoPlain, ControlledKeeps DEF Plain, Writing
<1> QED
  BY <1>1, <1>3, LooksKeeps

LEMMA MarkBytesKeeps ==
  ASSUME XInv, NEW w \in Workers, MarkBytes(w), UNCHANGED outside
  PROVE  Keeps(w)
<1>1. /\ workers[w].pc = "mark" /\ workers[w].pc \in ItemPoints
      /\ Goto(w, "bytes") /\ UNCHANGED jobs /\ UNCHANGED <<plan, recorded, files>>
      /\ setItemState(Item(w), "copying")
  BY DEF MarkBytes, OnItem, Step, At, ItemPoints, HandlerPoints
<1>2. Item(w) \in Items
  BY <1>1, ItemFacts
<1>3. Moves(w) /\ WorkInv(workers'[w])
  BY <1>1, GotoItem DEF HandlerPoints, Writing
<1> QED
  BY <1>1, <1>2, <1>3, ItemStateKeeps DEF ItemStatuses

LEMMA SaveBytesKeeps ==
  ASSUME XInv, NEW w \in Workers, SaveBytes(w), UNCHANGED outside
  PROVE  Keeps(w)
<1> DEFINE point == ChunkOrDone(Local(w).offset)
<1>1. /\ workers[w].pc \in {"bytes", "beat"} /\ workers[w].pc \in ItemPoints
      /\ UNCHANGED <<store, files>>
      /\ \/ SaveContext(w, 0, "beat", Local(w))
         \/ ReportContext(w, point, Local(w))
         \/ Goto(w, "failItem") /\ UNCHANGED jobs
  BY DEF SaveBytes, At, ItemPoints, HandlerPoints
<1>2. /\ point \in Plain /\ "beat" \in Plain /\ "failItem" \in Points \cup Plain
      /\ 0 \in Checkpoints /\ workers[w].pc \in HandlerPoints /\ workers[w].pc \in Writing
      /\ "failItem" \notin Writing
  BY <1>1, ChunkOrDoneType, BoundsAssumption DEF Plain, Writing, Checkpoints, ItemPoints
<1> HIDE DEF point
<1>3. CASE SaveContext(w, 0, "beat", Local(w))
  BY <1>1, <1>2, <1>3, SaveKeeps
<1>4. CASE ReportContext(w, point, Local(w))
  BY <1>1, <1>2, <1>4, ReportKeeps
<1>5. CASE Goto(w, "failItem") /\ UNCHANGED jobs
  BY <1>1, <1>2, <1>5, GotoPlain, LooksKeeps
<1> QED
  BY <1>1, <1>3, <1>4, <1>5

\* Truncate: the same, through a handle that is closed then, but for the first of the three.
LEMMA TruncateKeeps ==
  ASSUME XInv, NEW w \in Workers, Truncate(w), UNCHANGED outside
  PROVE  Keeps(w)
<1> DEFINE i == Item(w)
           n == Local(w).handle
<1>1. /\ workers[w].pc \in ItemPoints /\ workers[w].pc \in Writing /\ UNCHANGED <<jobs, store>>
  BY DEF Truncate, Step, At, ItemPoints, HandlerPoints, Writing
<1>2. /\ i \in Items /\ i = workers[w].local.item /\ Local(w) \in AnyLocals
      /\ n \in DOMAIN disk[i] /\ DiskTyped /\ workers[w].pc \in HandlerPoints
  BY <1>1, ItemFacts DEF XInv, StoreTyped
<1>3. PICK size \in {0, Size} :
        /\ Overwrite(i, n, Resized(disk[i][n], size))
        /\ \/ Goto(w, "chunk")
           \/ \E point \in {"verifyCopy", "open"}, again \in BOOLEAN :
                Continue(w, point, [Closed(w) EXCEPT !.again = again])
  <2>1. Local(w).again \in BOOLEAN
    BY <1>2 DEF AnyLocals
  <2> QED
    BY <2>1 DEF Truncate, Step
<1>4. StoreTyped' /\ FileInv' /\ FileSteps
  <2>1. disk[i] \in Seq(AnyContent)
    BY <1>2 DEF DiskTyped
  <2>2. disk[i][n] \in AnyContent /\ size \in Nat
    BY <1>2, <2>1, TransferAssumption DEF Size
  <2>3. Resized(disk[i][n], size) \in AnyContent
    BY <2>2, ContentType
  <2> QED
    BY <1>1, <1>2, <1>3, <2>3, OverwriteKeeps
<1>5. CASE Goto(w, "chunk")
  <2>1. Moves(w) /\ WorkInv(workers'[w])
    BY <1>1, <1>5, GotoItem DEF HandlerPoints
  <2> QED
    BY <1>4, <2>1, SeenStays DEF Keeps
<1>6. ASSUME NEW point \in {"verifyCopy", "open"}, NEW again \in BOOLEAN,
             Continue(w, point, [Closed(w) EXCEPT !.again = again])
      PROVE  Keeps(w)
  <2> DEFINE m == [Closed(w) EXCEPT !.again = again]
  <2>1. m \in AnyLocals /\ SameWork(Local(w), m)
    BY <1>2, ClosedLocal, SetAgain DEF SameWork
  <2>2. point \in HandlerPoints /\ point \notin Writing
    BY DEF HandlerPoints, Writing
  <2> HIDE DEF m
  <2>3. Moves(w) /\ WorkInv(workers[w])'
    BY <1>1, <1>4, <1>6, <2>1, <2>2, ContinueItem DEF m
  <2> QED
    BY <1>4, <2>3 DEF Keeps
<1> QED
  BY <1>3, <1>5, <1>6

LEMMA VerifyCopyKeeps ==
  ASSUME XInv, NEW w \in Workers, VerifyCopy(w), UNCHANGED outside
  PROVE  Keeps(w)
<1>1. /\ workers[w].pc = "verifyCopy" /\ workers[w].pc \in ItemPoints
      /\ \E point \in {"promote", "reopen", "failItem"} : Goto(w, point)
      /\ UNCHANGED jobs /\ UNCHANGED <<store, files>>
  BY DEF VerifyCopy, OnlyWorker, At, ItemPoints, HandlerPoints
<1>2. Moves(w) /\ WorkInv(workers'[w])
  BY <1>1, GotoItem DEF HandlerPoints, Writing
<1> QED
  BY <1>1, <1>2, LooksKeeps

\* Reopen: a staging file that is there is one that was made.
LEMMA ReopenKeeps ==
  ASSUME XInv, NEW w \in Workers, Reopen(w), UNCHANGED outside
  PROVE  Keeps(w)
<1> DEFINE i == Item(w)
           m == [Local(w) EXCEPT !.handle = staging[i]]
<1>1. /\ workers[w].pc = "reopen" /\ workers[w].pc \in ItemPoints
      /\ UNCHANGED jobs /\ UNCHANGED <<store, files>>
      /\ \/ Goto(w, "failItem")
         \/ staging[i] # Absent /\ Continue(w, "empty", m)
  BY DEF Reopen, OnlyWorker, At, ItemPoints, HandlerPoints
<1>2. /\ i \in Items /\ i = workers[w].local.item /\ Local(w) \in AnyLocals
      /\ staging[i] \in Nat /\ (staging[i] # Absent => staging[i] \in DOMAIN disk[i])
  BY <1>1, ItemFacts DEF XInv, StoreTyped, DiskTyped
<1>3. CASE Goto(w, "failItem")
  <2>1. Moves(w) /\ WorkInv(workers'[w])
    BY <1>1, <1>3, GotoItem DEF HandlerPoints, Writing
  <2> QED
    BY <1>1, <2>1, LooksKeeps
<1>4. CASE staging[i] # Absent /\ Continue(w, "empty", m)
  <2>1. m \in AnyLocals /\ SameWork(Local(w), m) /\ m.handle = staging[i]
    BY <1>2, SetHandle
  <2>2. /\ UNCHANGED <<items, recorded, files, refilled, plan>> /\ Kind' = Kind
        /\ StoreTyped /\ disk' = disk
    BY <1>1 DEF store, files, outside, Kind, XInv
  <2>3. StoreTyped' /\ FileInv' /\ FileSteps
    BY <2>2, QuietFiles DEF StoreTyped
  <2> HIDE DEF m
  <2>4. Moves(w) /\ WorkInv(workers[w])'
    BY <1>1, <1>2, <1>4, <2>1, <2>2, <2>3, ContinueItem DEF HandlerPoints
  <2> QED
    BY <2>3, <2>4 DEF Keeps
<1> QED
  BY <1>1, <1>3, <1>4

\* Promote: a link to the verified copy, or the start of an exclusive one, where
\* nothing is; otherwise the item fails.
LEMMA PromoteKeeps ==
  ASSUME XInv, NEW w \in Workers, Promote(w), UNCHANGED outside
  PROVE  Keeps(w)
<1> DEFINE i == Item(w)
           n == Len(disk[i]) + 1
           m1 == [Closed(w) EXCEPT !.handle = staging[i]]
           m2 == [m1 EXCEPT !.target = n]
<1>1. /\ workers[w].pc = "promote" /\ workers[w].pc \in ItemPoints
      /\ UNCHANGED <<jobs, store, source, staging, quarantine, touched, spoilt>>
      /\ \/ /\ staging[i] # Absent /\ dest[i] = Absent
            /\ \/ /\ Continue(w, "committed", Closed(w))
                  /\ dest' = Put(dest, i, staging[i]) /\ UNCHANGED disk
               \/ /\ Continue(w, "finalCopy", m2)
                  /\ dest' = Put(dest, i, n)
                  /\ disk' = Put(disk, i, Append(disk[i], Empty))
         \/ Goto(w, Gated("failItem")) /\ UNCHANGED <<dest, disk>>
  BY DEF Promote, At, ItemPoints, HandlerPoints
<1> HIDE DEF m2
<1>2. /\ i \in Items /\ i = workers[w].local.item /\ Local(w) \in AnyLocals
      /\ DiskTyped /\ Items' = Items /\ refilled' = refilled
      /\ Closed(w) \in AnyLocals /\ SameWork(Local(w), Closed(w))
  BY <1>1, ItemFacts, ClosedLocal DEF XInv, StoreTyped, store, outside, Items
<1>3. /\ staging[i] \in Nat /\ (staging[i] # Absent => staging[i] \in DOMAIN disk[i])
      /\ (dest[i] = Absent => ~Good(i, dest[i]))
  BY <1>2 DEF DiskTyped, Good, Absent
<1>4. ASSUME NEW file \in Int, dest[i] = Absent, dest' = Put(dest, i, file),
             file \in DOMAIN disk'[i], disk' \in [Items -> Seq(AnyContent)],
             \A k \in Items : DOMAIN disk[k] \subseteq DOMAIN disk'[k],
             \A k \in Items : \A q \in DOMAIN disk[k] : disk'[k][q] = disk[k][q]
      PROVE  StoreTyped' /\ FileInv' /\ FileSteps
  <2>1. /\ \A k \in Items : dest'[k] = IF k = i THEN file ELSE dest[k]
        /\ dest' \in [Items -> Int] /\ staging' = staging
    BY <1>1, <1>2, <1>4 DEF DiskTyped, Put
  <2>2. DiskTyped'
    BY <1>2, <1>4, <2>1 DEF DiskTyped
  <2>3. ASSUME NEW k \in Items, Verified(k) PROVE Verified(k)'
    <3>1. CASE Good(k, dest[k])
      BY <1>2, <1>3, <1>4, <2>1, <3>1, GoodIsMade DEF Verified, Good
    <3>2. CASE k \in touched \/ k \in spoilt
      BY <1>1, <3>2 DEF Verified
    <3> QED
      BY <2>3, <3>1, <3>2 DEF Verified
  <2> QED
    BY <1>1, <1>2, <1>4, <2>2, <2>3, CopyFiles
<1>5. CASE /\ staging[i] # Absent /\ dest[i] = Absent
           /\ Continue(w, "committed", Closed(w))
           /\ dest' = Put(dest, i, staging[i]) /\ UNCHANGED disk
  <2>1. StoreTyped' /\ FileInv' /\ FileSteps
    BY <1>2, <1>3, <1>4, <1>5 DEF DiskTyped
  <2>2. Moves(w) /\ WorkInv(workers[w])'
    BY <1>1, <1>2, <1>5, <2>1, ContinueItem DEF HandlerPoints, Writing
  <2> QED
    BY <2>1, <2>2 DEF Keeps
<1>6. CASE /\ staging[i] # Absent /\ dest[i] = Absent
           /\ Continue(w, "finalCopy", m2)
           /\ dest' = Put(dest, i, n)
           /\ disk' = Put(disk, i, Append(disk[i], Empty))
  <2>1. /\ disk' \in [Items -> Seq(AnyContent)] /\ n \in DOMAIN disk'[i] /\ n \in Nat
        /\ \A k \in Items : DOMAIN disk[k] \subseteq DOMAIN disk'[k]
        /\ \A k \in Items : \A q \in DOMAIN disk[k] : disk'[k][q] = disk[k][q]
    BY <1>2, <1>6, DiskNew
  <2> HIDE DEF n
  <2>2. n \in Int
    BY <2>1
  <2>3. StoreTyped' /\ FileInv' /\ FileSteps
    BY <1>4, <1>6, <2>1, <2>2
  <2>4. m2 \in AnyLocals /\ SameWork(Local(w), m2) /\ m2.handle = staging[i] /\ m2.target = n
    <3>1. m1 \in AnyLocals /\ SameWork(Local(w), m1) /\ m1.handle = staging[i]
      BY <1>2, <1>3, SetHandle DEF SameWork
    <3> HIDE DEF m1
    <3> QED
      BY <2>1, <3>1, SetTarget DEF SameWork, m2
  <2>5. staging[i] \in DOMAIN disk'[i]
    BY <1>2, <1>3, <1>6, <2>1
  <2>6. Moves(w) /\ WorkInv(workers[w])'
    <3>1. /\ m2.handle \in DOMAIN disk'[i] /\ m2.target \in DOMAIN disk'[i]
          /\ "finalCopy" \in HandlerPoints
      BY <2>1, <2>4, <2>5 DEF HandlerPoints
    <3>2. Continue(w, "finalCopy", m2) /\ UNCHANGED jobs /\ FileSteps
      BY <1>1, <1>6, <2>3
    <3> HIDE DEF i
    <3> QED
      BY <1>1, <1>2, <2>4, <3>1, <3>2, ContinueItem
  <2> QED
    BY <2>3, <2>6 DEF Keeps
<1>7. CASE Goto(w, Gated("failItem")) /\ UNCHANGED <<dest, disk>>
  <2>1. Gated("failItem") \in {"failPlan", "failItem"}
    BY GatedPoint
  <2>2. Moves(w) /\ WorkInv(workers'[w])
    BY <1>1, <1>7, <2>1, GotoItem DEF HandlerPoints, Writing
  <2> QED
    BY <1>1, <1>7, <2>2, LooksKeeps DEF files
<1> QED
  BY <1>1, <1>5, <1>6, <1>7

\* FinalCopy: into the file that the worker has made.
LEMMA FinalCopyKeeps ==
  ASSUME XInv, NEW w \in Workers, FinalCopy(w), UNCHANGED outside
  PROVE  Keeps(w)
<1> DEFINE i == Item(w)
           c == disk[i][Local(w).handle]
<1>1. /\ workers[w].pc = "finalCopy" /\ workers[w].pc \in ItemPoints
      /\ Continue(w, "committed", Closed(w)) /\ UNCHANGED <<jobs, store>>
      /\ Overwrite(i, Local(w).target, c)
  BY DEF FinalCopy, At, ItemPoints, HandlerPoints
<1>2. /\ i \in Items /\ i = workers[w].local.item /\ Local(w) \in AnyLocals /\ DiskTyped
      /\ Local(w).target \in DOMAIN disk[i] /\ Local(w).handle \in DOMAIN disk[i]
      /\ Closed(w) \in AnyLocals /\ SameWork(Local(w), Closed(w))
  BY <1>1, ItemFacts, ClosedLocal DEF XInv, StoreTyped
<1>3. disk[i] \in Seq(AnyContent)
  BY <1>2 DEF DiskTyped
<1>4. c \in AnyContent
  BY <1>2, <1>3
<1>5. StoreTyped' /\ FileInv' /\ FileSteps
  BY <1>1, <1>2, <1>4, OverwriteKeeps
<1>6. Moves(w) /\ WorkInv(workers[w])'
  BY <1>1, <1>2, <1>5, ContinueItem DEF HandlerPoints, Writing
<1> QED
  BY <1>5, <1>6 DEF Keeps

\* Committed: the destination is read back.
LEMMA CommittedKeeps ==
  ASSUME XInv, NEW w \in Workers, Committed(w), UNCHANGED outside
  PROVE  Keeps(w)
<1> DEFINE i == Item(w)
           good == Good(i, dest[i])
           point == IF good THEN "markVerified" ELSE "failItem"
<1>1. /\ workers[w].pc = "committed" /\ workers[w].pc \in ItemPoints /\ Goto(w, point)
      /\ UNCHANGED jobs /\ UNCHANGED <<store, source, disk, dest, quarantine>>
      /\ staging' = staging \/ staging' = Put(staging, i, Absent)
      /\ Found(i, good)
  BY DEF Committed, OnItem, Step, At, ItemPoints, HandlerPoints, store
<1>2. i \in Items /\ i = workers[w].local.item
  BY <1>1, ItemFacts
<1>3. StoreTyped' /\ FileInv' /\ FileSteps
  <2>1. good \in BOOLEAN
    BY DEF Good
  <2> QED
    BY <1>1, <1>2, <2>1, FoundKeeps
<1>4. Moves(w) /\ WorkInv(workers'[w])
  BY <1>1, <1>2, GotoItem DEF HandlerPoints, Writing, Verified
<1> QED
  BY <1>3, <1>4, SeenStays DEF Keeps

\* MarkVerified, MarkCompleted: what the worker has read is still accounted for.
LEMMA MarkKeeps ==
  ASSUME XInv, NEW w \in Workers, MarkVerified(w) \/ MarkCompleted(w), UNCHANGED outside
  PROVE  Keeps(w)
<1>1. /\ workers[w].pc \in {"markVerified", "markCompleted"} /\ workers[w].pc \in ItemPoints
      /\ UNCHANGED jobs /\ UNCHANGED <<plan, recorded, files>>
      /\ \E point \in {"retire", "markCompleted", "checkpoint"} : Goto(w, point)
      /\ \E status \in {"verified", "completed"} : setItemState(Item(w), status)
  BY DEF MarkVerified, MarkCompleted, AfterVerified, OnItem, Step, At, ItemPoints,
         HandlerPoints
<1>2. Item(w) \in Items /\ Item(w) = workers[w].local.item /\ Verified(Item(w))
  BY <1>1, ItemFacts
<1>3. Moves(w) /\ WorkInv(workers'[w])
  BY <1>1, <1>2, GotoItem DEF HandlerPoints, Writing
<1>4. PICK status \in {"verified", "completed"} : setItemState(Item(w), status)
  BY <1>1
<1> QED
  BY <1>1, <1>2, <1>3, <1>4, ItemStateKeeps DEF ItemStatuses

\* Retire: the source, the record or the moved file is found.
LEMMA RetireKeeps ==
  ASSUME XInv, NEW w \in Workers, Retire(w), UNCHANGED outside
  PROVE  Keeps(w)
<1> DEFINE i == Item(w)
           found == CASE source[i] = "good" -> "move"
                      [] source[i] = "absent" /\ quarantine[i] = "good" -> "record"
                      [] OTHER -> "failItem"
           point == IF i \in recorded THEN RecordFound ELSE Gated(found)
<1>1. /\ workers[w].pc = "retire" /\ workers[w].pc \in ItemPoints
      /\ Goto(w, point) /\ UNCHANGED jobs /\ UNCHANGED <<plan, items, recorded, files>>
  BY DEF Retire, OnItem, Step, At, ItemPoints, HandlerPoints
<1>2. i = workers[w].local.item /\ (Kind = "retire" => Verified(i))
  BY <1>1, ItemFacts
<1>3. found \in {"move", "record", "failItem"} /\ (found = "record" => Kept(i))
  BY DEF Kept
<1> HIDE DEF found
<1>4. RecordFound \in {"checkpoint", "failPlan", "failItem"}
  BY GatedPoint DEF RecordFound
<1>5. point \in {found, "checkpoint", "failPlan", "failItem"}
  BY <1>4, GatedPoint
<1> HIDE DEF point
<1>6. Moves(w) /\ WorkInv(workers'[w])
  BY <1>1, <1>2, <1>3, <1>5, GotoItem DEF HandlerPoints, Writing
<1> QED
  BY <1>1, <1>6, LooksKeeps DEF store

\* Move: whatever is at the source now goes to quarantine, where a file is only if the
\* user has put another at the source since.
LEMMA MoveKeeps ==
  ASSUME XInv, NEW w \in Workers, Move(w), UNCHANGED outside
  PROVE  Keeps(w)
<1> DEFINE x == workers[w]
           i == x.local.item
<1>1. x.pc = "move" /\ x.pc \in ItemPoints /\ x.pc \in HandlerPoints
  BY DEF Move, At, ItemPoints, HandlerPoints
<1>2. i \in Items /\ i = Item(w) /\ (Kind = "retire" => Verified(i))
  BY <1>1, ItemFacts
<1>3. /\ UNCHANGED <<jobs, plan, recorded, items, disk, staging, dest, touched, spoilt>>
      /\ UNCHANGED refilled
      /\ \/ /\ Goto(w, "moved") /\ source[i] # "absent"
            /\ quarantine' = Put(quarantine, i, source[i])
            /\ source' = Put(source, i, "absent")
         \/ Goto(w, Gated("failItem")) /\ UNCHANGED <<source, quarantine>>
  BY <1>2 DEF Move, OnItem, Step, outside
<1>4. CASE /\ Goto(w, "moved") /\ source[i] # "absent"
           /\ quarantine' = Put(quarantine, i, source[i])
           /\ source' = Put(source, i, "absent")
  <2>1. Moves(w) /\ workers'[w].pc = "moved" /\ workers'[w].local = x.local
    BY <1>1, <1>3, <1>4, GotoKeeps DEF HandlerPoints
  <2>2. /\ StoreTyped /\ FileInv /\ WorkInv(x) /\ Items' = Items /\ Kind' = Kind
        /\ \A k : Verified(k)' <=> Verified(k)
    BY <1>3 DEF XInv, Items, Kind, Verified, Good
  <2>3. /\ quarantine' \in [Items -> FilesAt] /\ source' \in [Items -> FilesAt]
        /\ source'[i] = "absent" /\ quarantine'[i] = source[i]
        /\ \A k \in Items \ {i} : quarantine'[k] = quarantine[k] /\ source'[k] = source[k]
    BY <1>2, <1>4, <2>2 DEF StoreTyped, Put, FilesAt
  <2>4. quarantine[i] = "absent" \/ i \in refilled
    BY <1>2, <1>4, <2>2 DEF FileInv
  <2>5. StoreTyped' /\ FileSteps
    BY <1>3, <2>2, <2>3, <2>4 DEF StoreTyped, DiskTyped, FileSteps, Kept
  <2>6. FileInv'
    BY <1>2, <1>3, <2>2, <2>3, <2>4 DEF FileInv, ItemsTellTheTruth
  <2>7. WorkInv(workers[w])'
    BY <1>1, <1>2, <2>1, <2>2, <2>5, WorkOn DEF SameWork, Writing
  <2> QED
    BY <2>1, <2>5, <2>6, <2>7 DEF Keeps
<1>5. CASE Goto(w, Gated("failItem")) /\ UNCHANGED <<source, quarantine>>
  <2>1. Gated("failItem") \in {"failPlan", "failItem"}
    BY GatedPoint
  <2>2. Moves(w) /\ WorkInv(workers'[w])
    BY <1>1, <1>3, <1>5, <2>1, GotoItem DEF HandlerPoints, Writing
  <2> QED
    BY <1>3, <1>5, <2>2, LooksKeeps DEF store, files
<1> QED
  BY <1>3, <1>4, <1>5

LEMMA MovedKeeps ==
  ASSUME XInv, NEW w \in Workers, Moved(w), UNCHANGED outside
  PROVE  Keeps(w)
<1>1. /\ workers[w].pc = "moved" /\ workers[w].pc \in ItemPoints
      /\ UNCHANGED jobs /\ UNCHANGED <<plan, items, recorded, files>>
      /\ \/ quarantine[Item(w)] = "good" /\ Goto(w, "record")
         \/ Goto(w, "failItem")
  BY DEF Moved, OnItem, Step, At, ItemPoints, HandlerPoints
<1>2. Item(w) = workers[w].local.item /\ (Kind = "retire" => Verified(Item(w)))
  BY <1>1, ItemFacts
<1>3. Moves(w) /\ WorkInv(workers'[w])
  BY <1>1, <1>2, GotoItem DEF HandlerPoints, Writing, Kept
<1> QED
  BY <1>1, <1>3, LooksKeeps DEF store

LEMMA RecordKeeps ==
  ASSUME XInv, NEW w \in Workers, RecordQuarantine(w), UNCHANGED outside
  PROVE  Keeps(w)
<1> DEFINE i == Item(w)
<1>1. /\ workers[w].pc = "record" /\ workers[w].pc \in ItemPoints
      /\ UNCHANGED jobs /\ UNCHANGED <<plan, files>>
      /\ \/ /\ Goto(w, "checkpoint") /\ recorded' = recorded \cup {i}
            /\ setItemState(i, "quarantined")
         \/ Goto(w, "failItem") /\ UNCHANGED <<recorded, items>>
  BY DEF RecordQuarantine, Step, At, ItemPoints, HandlerPoints
<1>2. i \in Items /\ Kept(i)
  BY <1>1, ItemFacts
<1>3. Moves(w) /\ WorkInv(workers'[w])
  BY <1>1, GotoItem DEF HandlerPoints, Writing
<1>4. CASE recorded' = recorded \cup {i} /\ setItemState(i, "quarantined")
  BY <1>1, <1>2, <1>3, <1>4, ItemStateKeeps DEF ItemStatuses
<1>5. CASE UNCHANGED <<recorded, items>>
  BY <1>1, <1>3, <1>5, LooksKeeps DEF store
<1> QED
  BY <1>1, <1>4, <1>5

-----------------------------------------------------------------------------
(* The invariant is inductive.                                             *)

LEMMA WorkerMovesKeep ==
  ASSUME XInv, NEW w \in Workers, WorkerMoves(w), UNCHANGED outside
  PROVE  Keeps(w)
<1>1. ASSUME RunMoves(w) PROVE Keeps(w)
  BY <1>1, LoadKeeps, BeginKeeps, StartKeeps, BatchKeeps, TakeItemKeeps, FailItemKeeps,
     CheckpointKeeps, ProgressKeeps, EndKeeps DEF RunMoves
<1>2. ASSUME ItemMoves(w) PROVE Keeps(w)
  BY <1>2, ExistingKeeps, CheckSourceKeeps, OpenStagingKeeps, CheckChunkKeeps,
     WriteChunkKeeps, MarkBytesKeeps, SaveBytesKeeps, TruncateKeeps, VerifyCopyKeeps,
     ReopenKeeps, PromoteKeeps, FinalCopyKeeps, CommittedKeeps, MarkKeeps, RetireKeeps,
     MoveKeeps, MovedKeeps, RecordKeeps DEF ItemMoves
<1> QED
  BY <1>1, <1>2, ProcessMovesKeep DEF WorkerMoves

LEMMA XInvInit == XInit => XInv
<1> SUFFICES ASSUME XInit PROVE XInv
  OBVIOUS
<1>1. IndInv /\ jobs = <<>>
  BY IndInvInit DEF XInit, ProcessInit, Init
<1>2. PICK p \in Plans :
        /\ plan = [kind |-> p.kind, status |-> "ready-for-approval",
                   receipt |-> FALSE, refreshed |-> FALSE]
        /\ items = [i \in p.items |-> "ready"]
  BY DEF XInit
<1>3. /\ workers \in [Workers -> Worker(HandlerPoints, AnyLocals)]
      /\ \A w \in Workers : workers[w].pc = "recover"
  <2>1. Idle("recover") \in Worker(HandlerPoints, AnyLocals) /\ Idle("recover").pc = "recover"
    BY NoLocalType, IdleType DEF Points
  <2> QED
    BY <2>1 DEF XInit, ProcessInit
<1>4. LinkInv
  <2>1. Ids = {}
    BY <1>1 DEF Ids
  <2> QED
    BY <1>3, <2>1 DEF LinkInv, Bounded, LinkOK, Linked
<1>5. Items = p.items /\ Items \subseteq Ordinals /\ p.kind \in PlanKinds
  <2>1. PICK n \in 0 .. MaxUnits : p.items = 1 .. n
    BY TransferAssumption
  <2> QED
    BY <1>2, <2>1, BoundsAssumption, TransferAssumption DEF Items, Ordinals
<1>6. StoreTyped
  <2>1. DiskTyped
    BY DEF XInit, DiskTyped, Absent
  <2> QED
    BY <1>2, <1>5, <2>1 DEF XInit, StoreTyped, PlanStatuses, ItemStatuses, FilesAt
<1>7. FileInv /\ gate \in Gates
  BY <1>2, <1>5 DEF XInit, FileInv, ItemsTellTheTruth, Gates
<1>8. \A w \in Workers : WorkInv(workers[w])
  BY <1>3 DEF WorkInv, HandlerPoints
<1> QED
  BY <1>1, <1>3, <1>4, <1>6, <1>7, <1>8 DEF XInv, WorkersTyped

LEMMA XInvNext ==
  ASSUME XInv, [XNext]_vars
  PROVE  XInv' /\ [Next]_jobs /\ FileSteps
<1>1. CASE Server
  BY <1>1, ServerKeeps
<1>2. ASSUME NEW w \in Workers, Keeps(w), UNCHANGED outside
      PROVE  XInv' /\ [Next]_jobs /\ FileSteps
  BY <1>2, KeepsInv DEF Keeps, Moves, outside
<1>3. ASSUME NEW w \in Workers, WorkerMoves(w), UNCHANGED <<crashes, outside>>
      PROVE  XInv' /\ [Next]_jobs /\ FileSteps
  BY <1>2, <1>3, WorkerMovesKeep
<1>4. ASSUME NEW w \in Workers, Crash(w), UNCHANGED <<store, files, outside>>
      PROVE  XInv' /\ [Next]_jobs /\ FileSteps
  BY <1>2, <1>4, CrashKeeps
<1>5. CASE Tick /\ UNCHANGED <<workers, crashes, store, files, outside>>
  BY <1>5, TickKeeps
<1>6. CASE User /\ UNCHANGED <<workers, crashes, store, approvals>>
  BY <1>6, UserKeeps
<1>7. CASE UNCHANGED vars
  <2>1. UNCHANGED <<jobs, workers, gate, plan, items, recorded, files, refilled>>
    BY <1>7 DEF vars, store, outside
  <2>2. Kind' = Kind /\ StoreTyped /\ gate' \in Gates
    BY <2>1 DEF Kind, XInv
  <2>3. StoreTyped' /\ FileInv' /\ FileSteps
    BY <2>1, <2>2, QuietFiles DEF StoreTyped
  <2> QED
    BY <2>1, <2>2, <2>3, NoWorkerMoves
<1> QED
  BY <1>1, <1>3, <1>4, <1>5, <1>6, <1>7 DEF XNext

-----------------------------------------------------------------------------
(* Theorems.                                                               *)

\* What every execution of a plan keeps: the stores have their types, an item's status
\* is true of its files as far as they were left alone, and so is what each worker has seen.
THEOREM XInductive == XSpec => []XInv
<1>1. XInit => XInv
  BY XInvInit
<1>2. XInv /\ [XNext]_vars => XInv'
  BY XInvNext
<1> QED
  BY <1>1, <1>2, PTL DEF XSpec

\* quarantineSource of src/transfer/transfer-job.ts: "source retirement occurs only
\* after the destination has been verified", whichever worker retires it and however late
\* it is: the bytes of a retired source are at its destination, or the user has changed
\* or removed them there, or another worker has, since one was found to have them.
THEOREM SourcesKept == XSpec => []RetiredOnlyAfterVerified
<1>1. XInv => RetiredOnlyAfterVerified
  BY DEF XInv, FileInv, RetiredOnlyAfterVerified
<1> QED
  BY <1>1, XInductive, PTL

\* What transfers.sqlite says of an item was true of the files, and is still but for what
\* the user or another worker has changed since, though the two are written one after the
\* other and a worker may die, or lose its lease, in between.
THEOREM ItemsTruthful == XSpec => []ItemsTellTheTruth
<1>1. XInv => ItemsTellTheTruth
  BY DEF XInv, FileInv
<1> QED
  BY <1>1, XInductive, PTL

\* What server, user and the workers of a plan do to the job table are the steps of
\* JobQueue, whose theorems therefore hold of a transfer.
THEOREM TransfersImplementQueue == XSpec => Spec
<1>1. XInit => Init
  BY DEF XInit, ProcessInit
<1>2. XInv /\ [XNext]_vars => [Next]_jobs
  BY XInvNext
<1> QED
  BY <1>1, <1>2, XInductive, PTL DEF XSpec, Spec

-----------------------------------------------------------------------------
(* Destinations.  Where there are no hard links a copy and what was made   *)
(* of it are two files, so that no open copy is anybody's destination.     *)

\* What a worker changes of its own variables when it makes no call.
LEMMA WentTo ==
  ASSUME XInv, NEW w \in Workers, NEW point, Goto(w, point)
  PROVE  LET x == workers[w]
             y == workers'[w]
         IN y.pc = point /\ y.local = x.local /\ y.saved = x.saved
BY DEF XInv, WorkersTyped, Worker, Goto

LEMMA WentOn ==
  ASSUME XInv, NEW w \in Workers, NEW point, NEW local, Continue(w, point, local)
  PROVE  LET y == workers'[w]
         IN y.pc = point /\ y.local = local /\ y.saved = workers[w].saved
<1> DEFINE y == [workers[w] EXCEPT !.pc = point, !.local = local]
<1>1. workers[w] \in Worker(HandlerPoints, AnyLocals) /\ workers'[w] = y
  BY DEF XInv, WorkersTyped, Continue
<1>2. y.pc = point /\ y.local = local /\ y.saved = workers[w].saved
  BY <1>1 DEF Worker
<1> HIDE DEF y
<1> QED
  BY <1>1, <1>2

LEMMA Thrown ==
  ASSUME XInv, NEW w \in Workers, NEW retry, Throw(w, retry)
  PROVE  workers'[w].pc = "fail"
<1> DEFINE y == [workers[w] EXCEPT !.pc = "fail", !.retry = retry, !.local = NoLocal]
<1>1. workers[w] \in Worker(HandlerPoints, AnyLocals) /\ workers'[w] = y
  BY DEF XInv, WorkersTyped, Throw
<1>2. y.pc = "fail"
  BY <1>1 DEF Worker
<1> HIDE DEF y
<1> QED
  BY <1>1, <1>2

\* A call to the queue that is accepted.
LEMMA CallGoes ==
  ASSUME XInv, NEW w \in Workers, NEW c, NEW point,
         SaveContext(w, c, point, Local(w)) \/ ReportContext(w, point, Local(w))
  PROVE  workers'[w].pc = point /\ workers'[w].local = workers[w].local
<1>1. CASE ReportContext(w, point, Local(w))
  BY <1>1, WentOn DEF ReportContext, Local
<1>2. CASE SaveContext(w, c, point, Local(w))
  <2> DEFINE y == [workers[w] EXCEPT !.pc = point, !.local = Local(w), !.saved = c]
  <2>1. workers[w] \in Worker(HandlerPoints, AnyLocals) /\ workers'[w] = y
    BY <1>2 DEF XInv, WorkersTyped, SaveContext
  <2>2. y.pc = point /\ y.local = workers[w].local
    BY <2>1 DEF Worker, Local
  <2> HIDE DEF y
  <2> QED
    BY <2>1, <2>2
<1> QED
  BY <1>1, <1>2

\* Who has a copy of an item open, and who makes a destination of it.
Opens(x, i) == x.pc \in Writing \cup {"finalCopy"} /\ x.local.item = i
Fills(x, i) == x.pc = "finalCopy" /\ x.local.item = i

Apart(i) ==
  /\ staging[i] # Absent => staging[i] # dest[i]
  /\ \A v \in Workers : /\ Opens(workers[v], i) => workers[v].local.handle # dest[i]
                        /\ Fills(workers[v], i) =>
                             /\ workers[v].local.target # staging[i]
                             /\ ~Good(i, workers[v].local.target)
  /\ \A v, u \in Workers :
       Fills(workers[v], i) =>
         /\ Opens(workers[u], i) => workers[u].local.handle # workers[v].local.target
         /\ Fills(workers[u], i) /\ u # v =>
              workers[u].local.target # workers[v].local.target

CopyInv ==
  /\ acts \in Nat
  /\ \A v \in Workers : workers[v].pc = "finalCopy" => ~HardLinks
  /\ ~HardLinks => \A i \in Items : Apart(i)

\* What the handles of a worker are after a step that begins no final copy.
OpensOn(w) ==
  LET x == workers[w]
      y == workers'[w]
      i == y.local.item
  IN y.pc \in Writing \cup {"finalCopy"} =>
       /\ y.pc \in Writing
       /\ \/ x.pc \in Writing /\ x.local.item = i /\ y.local.handle = x.local.handle
          \/ y.local.handle = staging'[i] /\ staging'[i] # Absent

\* The numbers of the files that an item has.
LEMMA CopyFacts ==
  ASSUME XInv
  PROVE  \A i \in Items :
           /\ staging[i] # Absent => staging[i] \in DOMAIN disk[i]
           /\ \A v \in Workers :
                /\ Opens(workers[v], i) => workers[v].local.handle \in DOMAIN disk[i]
                /\ Fills(workers[v], i) => workers[v].local.target \in DOMAIN disk[i]
           /\ 0 \notin DOMAIN disk[i] /\ -1 \notin DOMAIN disk[i]
           /\ dest[i] \in DOMAIN disk[i] \cup {Absent, Foreign} \/ ~(dest[i] > 0)
<1>1. ASSUME NEW i \in Items, NEW v \in Workers
      PROVE  /\ Opens(workers[v], i) => workers[v].local.handle \in DOMAIN disk[i]
             /\ Fills(workers[v], i) => workers[v].local.target \in DOMAIN disk[i]
  BY DEF XInv, WorkInv, Opens, Fills, Writing, HandlerPoints
<1>2. DiskTyped
  BY DEF XInv, StoreTyped
<1> QED
  BY <1>1, <1>2 DEF DiskTyped, Absent, Foreign

\* Whether the file is good after the step.
GoodThen(i, n) == n > 0 /\ disk'[i][n] = Approved

\* A step that begins no final copy, and makes at most a new staging file.
LEMMA CopiesStay ==
  ASSUME XInv, CopyInv, acts' \in Nat, Items' = Items,
         \A v \in Workers : workers'[v] = workers[v] \/ OpensOn(v),
         \A i \in Items : \/ staging'[i] = staging[i]
                          \/ staging'[i] = Absent
                          \/ staging'[i] \notin DOMAIN disk[i] /\ staging'[i] \in Nat,
         \A i \in Items : dest'[i] = dest[i] \/ dest'[i] \in {Absent, Foreign} \/ HardLinks,
         ~HardLinks => \A i \in Items, v \in Workers :
           Fills(workers[v], i) => ~GoodThen(i, workers[v].local.target)
                                   \/ workers'[v].pc # "finalCopy"
  PROVE  CopyInv'
<1>1. ASSUME NEW v \in Workers, workers'[v].pc = "finalCopy"
      PROVE  workers'[v] = workers[v] /\ ~HardLinks
  BY <1>1 DEF CopyInv, OpensOn, Writing
<1>2. CASE HardLinks
  BY <1>1, <1>2 DEF CopyInv
<1>3. CASE ~HardLinks
  <2>1. ASSUME NEW i \in Items
        PROVE  Apart(i)'
    <3>1. /\ staging[i] # Absent => staging[i] \in DOMAIN disk[i] /\ staging[i] # dest[i]
          /\ \A v \in Workers :
               /\ Opens(workers[v], i) => /\ workers[v].local.handle \in DOMAIN disk[i]
                                          /\ workers[v].local.handle # dest[i]
               /\ Fills(workers[v], i) => /\ workers[v].local.target \in DOMAIN disk[i]
                                          /\ workers[v].local.target # staging[i]
          /\ Absent \notin DOMAIN disk[i] /\ Foreign \notin DOMAIN disk[i]
          /\ dest[i] \in DOMAIN disk[i] \/ ~(dest[i] > 0)
          /\ \A v, u \in Workers :
               Fills(workers[v], i) =>
                 /\ Opens(workers[u], i) => workers[u].local.handle # workers[v].local.target
                 /\ Fills(workers[u], i) /\ u # v =>
                      workers[u].local.target # workers[v].local.target
      BY <1>3, CopyFacts DEF CopyInv, Apart, Absent, Foreign
    <3>2. /\ \/ staging'[i] = staging[i]
             \/ staging'[i] = Absent
             \/ staging'[i] \notin DOMAIN disk[i] /\ staging'[i] \in Nat
          /\ dest'[i] = dest[i] \/ dest'[i] \in {Absent, Foreign}
      BY <1>3
    <3>3. staging'[i] # Absent => staging'[i] # dest'[i] /\ staging'[i] \notin {Absent, Foreign}
      BY <3>1, <3>2 DEF Absent, Foreign
    <3>4. ASSUME NEW v \in Workers, Opens(workers'[v], i)
          PROVE  \/ Opens(workers[v], i) /\ workers'[v].local.handle = workers[v].local.handle
                 \/ workers'[v].local.handle = staging'[i] /\ staging'[i] # Absent
      BY <3>4 DEF OpensOn, Opens
    <3>5. ASSUME NEW v \in Workers, Fills(workers'[v], i)
          PROVE  /\ workers'[v] = workers[v] /\ Fills(workers[v], i)
                 /\ workers[v].local.target # staging'[i]
                 /\ ~GoodThen(i, workers'[v].local.target)
      <4>1. workers'[v] = workers[v] /\ Fills(workers[v], i)
        BY <1>1, <3>5 DEF Fills
      <4>2. ~GoodThen(i, workers'[v].local.target)
        BY <1>3, <3>5, <4>1 DEF Fills
      <4> QED
        BY <3>1, <3>2, <4>1, <4>2
    <3>6. ASSUME NEW v \in Workers, Opens(workers'[v], i)
          PROVE  workers'[v].local.handle # dest'[i]
      BY <3>1, <3>2, <3>3, <3>4, <3>6
    <3>7. ASSUME NEW v \in Workers, NEW u \in Workers, Fills(workers'[v], i)
          PROVE  /\ Opens(workers'[u], i) =>
                      workers'[u].local.handle # workers'[v].local.target
                 /\ Fills(workers'[u], i) /\ u # v =>
                      workers'[u].local.target # workers'[v].local.target
      BY <3>1, <3>4, <3>5, <3>7
    <3>8. staging'[i] # Absent => staging'[i] # dest'[i]
      BY <3>3
    <3> QED
      BY <3>5, <3>6, <3>7, <3>8 DEF Apart, Opens, Fills, Good, GoodThen
  <2> QED
    BY <1>1, <2>1 DEF CopyInv
<1> QED
  BY <1>2, <1>3

\* What DestinationsNeverReplaced says of a step.
Untouched ==
  \A i \in Items : dest[i] # Absent =>
    /\ dest'[i] = dest[i]
    /\ Good(i, dest[i]) /\ ~Good(i, dest[i])' =>
         HardLinks /\ \E w \in Workers : Item(w) = i /\ Local(w).handle = dest[i]

\* What a step of a worker keeps of the copies.
Copies(w) == UNCHANGED acts /\ Items' = Items /\ Moves(w)

\* No copy is written, and at most one is removed.
LEMMA QuietCopies ==
  ASSUME XInv, CopyInv, NEW w \in Workers, Copies(w), OpensOn(w), UNCHANGED <<disk, dest>>,
         staging' = staging \/ staging' = Put(staging, Item(w), Absent)
  PROVE  CopyInv' /\ Untouched
<1>1. \A i, n : Good(i, n)' <=> Good(i, n)
  BY DEF Good
<1>2. \A i \in Items : staging'[i] = staging[i] \/ staging'[i] = Absent
  BY DEF XInv, StoreTyped, DiskTyped, Put
<1>3. CopyInv'
  <2>1. acts' \in Nat /\ Items' = Items /\ \A v \in Workers : workers'[v] = workers[v] \/ OpensOn(v)
    BY DEF CopyInv, Copies, Moves
  <2>2. ~HardLinks => \A i \in Items, v \in Workers :
          Fills(workers[v], i) => ~GoodThen(i, workers[v].local.target)
    BY DEF CopyInv, Apart, Good, GoodThen
  <2> QED
    BY <1>2, <2>1, <2>2, CopiesStay
<1>4. Untouched
  BY <1>1 DEF Untouched, Good
<1> QED
  BY <1>3, <1>4

\* A worker writes into a copy that it has open.
LEMMA WriteCopies ==
  ASSUME XInv, CopyInv, NEW w \in Workers, Copies(w), OpensOn(w), workers[w].pc \in Writing,
         NEW c \in AnyContent, Overwrite(Item(w), Local(w).handle, c)
  PROVE  CopyInv' /\ Untouched
<1> DEFINE i == Item(w)
           n == Local(w).handle
<1>1. /\ Opens(workers[w], i) /\ i \in Items /\ n \in DOMAIN disk[i] /\ DiskTyped
      /\ disk' = [disk EXCEPT ![i][n] = c] /\ UNCHANGED <<staging, dest>>
      /\ i = workers[w].local.item /\ n = workers[w].local.handle
  <2>1. workers[w].pc \in ItemPoints
    BY DEF Writing, ItemPoints, HandlerPoints
  <2> QED
    BY <2>1, ItemFacts DEF Opens, XInv, StoreTyped, Overwrite
<1>2. \A k \in Items : \A m \in DOMAIN disk[k] :
        disk'[k][m] = IF k = i /\ m = n THEN c ELSE disk[k][m]
  BY <1>1, DiskWrite
<1>3. ASSUME ~HardLinks, NEW k \in Items, NEW v \in Workers, Fills(workers[v], k)
      PROVE  ~GoodThen(k, workers[v].local.target)
  <2>1. /\ workers[v].local.target \in DOMAIN disk[k] /\ ~Good(k, workers[v].local.target)
        /\ k = i => n # workers[v].local.target
    BY <1>1, <1>3, CopyFacts DEF CopyInv, Apart
  <2>2. disk'[k][workers[v].local.target] = disk[k][workers[v].local.target]
    BY <1>2, <1>3, <2>1
  <2> QED
    BY <2>1, <2>2 DEF Good, GoodThen
<1>4. CopyInv'
  <2>1. acts' \in Nat /\ Items' = Items /\ \A v \in Workers : workers'[v] = workers[v] \/ OpensOn(v)
    BY DEF CopyInv, Copies, Moves
  <2>2. \A k \in Items : staging'[k] = staging[k] /\ dest'[k] = dest[k]
    BY <1>1
  <2> HIDE DEF i, n
  <2> QED
    BY <1>3, <2>1, <2>2, CopiesStay
<1>5. Untouched
  <2> SUFFICES ASSUME NEW k \in Items, dest[k] # Absent, Good(k, dest[k]), ~Good(k, dest[k])'
               PROVE  HardLinks /\ \E v \in Workers : Item(v) = k /\ Local(v).handle = dest[k]
    BY <1>1 DEF Untouched
  <2>1. dest[k] \in DOMAIN disk[k] /\ disk[k][dest[k]] = Approved /\ dest' = dest
    BY <1>1, GoodIsMade
  <2>2. disk'[k][dest[k]] # Approved
    BY <1>1, <2>1 DEF Good
  <2>3. k = i /\ dest[k] = n
    BY <1>2, <2>1, <2>2
  <2>4. HardLinks
    BY <1>1, <2>3 DEF CopyInv, Apart
  <2> QED
    BY <2>3, <2>4
<1> QED
  BY <1>4, <1>5

\* A worker that works on nothing, or on something else than a copy.
Shut(w) == workers'[w].pc \notin Writing \cup {"finalCopy"}

LEMMA ShutOpensOn == ASSUME NEW w \in Workers, Shut(w) PROVE OpensOn(w)
BY DEF Shut, OpensOn

\* Where a step leads that is taken whole.
LEMMA Went ==
  ASSUME XInv, NEW w \in Workers, NEW point,
         \/ Goto(w, point)
         \/ \E local : Continue(w, point, local)
         \/ \E c : SaveContext(w, c, point, Local(w))
         \/ ReportContext(w, point, Local(w))
  PROVE  workers'[w].pc = point
BY WentTo, WentOn, CallGoes

\* The points of a handler at which no copy is open.
Calm == {"begin", "start", "batch", "next", "failItem", "checkpoint", "progress", "close",
         "receipt", "refresh", "failPlan", "pausePlan", "cancelPlan", "existing", "source",
         "open", "verifyCopy", "reopen", "promote", "committed", "markVerified",
         "markCompleted", "retire", "move", "moved", "record", "finish", "ackPause",
         "ackCancel"}

LEMMA CalmShut ==
  ASSUME XInv, NEW w \in Workers,
         \/ \E point \in Calm :
              \/ Goto(w, point)
              \/ \E local : Continue(w, point, local)
              \/ \E c : SaveContext(w, c, point, Local(w))
              \/ ReportContext(w, point, Local(w))
         \/ \E retry : Throw(w, retry)
  PROVE  Shut(w)
<1>1. \A point \in Calm : point \notin Writing \cup {"finalCopy"}
  BY DEF Calm, Writing
<1>2. "fail" \notin Writing \cup {"finalCopy"}
  BY DEF Writing
<1> QED
  BY <1>1, <1>2, Went, Thrown DEF Shut

\* Where the run around the items leads.
RunPoints == {"begin", "start", "batch", "next", "checkpoint", "progress", "close", "receipt",
              "refresh", "failPlan", "pausePlan", "cancelPlan", "existing", "retire", "finish",
              "ackPause", "ackCancel"}
Leads(w) == workers'[w].pc \in RunPoints \cup {"down", "fail"}

LEMMA LeadsShut == ASSUME NEW w \in Workers, Leads(w) PROVE Shut(w)
BY DEF Leads, RunPoints, Shut, Writing

LEMMA RunsTo ==
  ASSUME XInv, NEW w \in Workers,
         \/ \E point \in RunPoints :
              \/ Goto(w, point)
              \/ \E local : Continue(w, point, local)
              \/ \E c : SaveContext(w, c, point, Local(w))
              \/ ReportContext(w, point, Local(w))
         \/ \E retry : Throw(w, retry)
  PROVE  Leads(w)
BY Went, Thrown DEF Leads

LEMMA RunLeads ==
  ASSUME XInv, NEW w \in Workers, RunMoves(w)
  PROVE  Leads(w) /\ UNCHANGED files
<1>1. ASSUME Load(w) PROVE Leads(w) /\ UNCHANGED files
  <2>1. /\ LoadJob(w, "begin", NoLocal) /\ At(w, "load") /\ NoLocal \in AnyLocals
        /\ workers \in [Workers -> Worker(HandlerPoints, AnyLocals)] /\ IndInv /\ LinkInv
        /\ "begin" \in Points \cup HandlerPoints /\ UNCHANGED files
    BY <1>1, NoLocalType DEF Load, LoadJob, XInv, WorkersTyped, HandlerPoints
  <2>2. workers'[w].pc \in {"down", "begin"}
    BY <2>1, LoadJobActs
  <2> QED
    BY <2>1, <2>2 DEF Leads, RunPoints
<1>2. ASSUME Begin(w) PROVE Leads(w) /\ UNCHANGED files
  <2>1. UNCHANGED files /\ ((\E point \in {"finish", "start", "failPlan"} : Goto(w, point))
                            \/ Throw(w, FALSE))
    BY <1>2 DEF Begin, OnlyWorker
  <2> QED
    BY <2>1, RunsTo DEF RunPoints
<1>3. ASSUME Start(w) PROVE Leads(w) /\ UNCHANGED files
  <2>1. UNCHANGED files /\ \E local : Continue(w, "batch", local)
    BY <1>3 DEF Start
  <2> QED
    BY <2>1, RunsTo DEF RunPoints
<1>4. ASSUME Batch(w) PROVE Leads(w) /\ UNCHANGED files
  <2>1. /\ UNCHANGED files
        /\ \/ \E point \in {"failPlan", "cancelPlan", "pausePlan"} : Goto(w, point)
           \/ \E point \in {"close", "next"} : \E local : Continue(w, point, local)
    BY <1>4 DEF Batch, OnlyWorker, Controlled
  <2> QED
    BY <2>1, RunsTo DEF RunPoints
<1>5. ASSUME TakeItem(w) PROVE Leads(w) /\ UNCHANGED files
  <2>1. /\ UNCHANGED files
        /\ \/ \E point \in {"batch", "failPlan", "cancelPlan", "pausePlan"} : Goto(w, point)
           \/ \E point \in {"retire", "existing", "failPlan"} :
                \E local : Continue(w, point, local)
    BY <1>5 DEF TakeItem, OnlyWorker, Controlled, FirstPoint
  <2> QED
    BY <2>1, RunsTo DEF RunPoints
<1>6. ASSUME FailItem(w) \/ Checkpoint(w) \/ Progress(w) PROVE Leads(w) /\ UNCHANGED files
  <2>1. /\ UNCHANGED files
        /\ \/ \E local : Continue(w, "checkpoint", local)
           \/ \E c : SaveContext(w, c, "progress", Local(w))
           \/ ReportContext(w, "next", Local(w))
           \/ Goto(w, "failPlan")
    BY <1>6 DEF FailItem, Checkpoint, Progress
  <2> QED
    BY <2>1, RunsTo DEF RunPoints
<1>7. ASSUME \/ Close(w) \/ SaveReceipt(w) \/ SubmitCatalogRefresh(w) \/ FailPlan(w)
             \/ InterruptPlan(w)
      PROVE  Leads(w) /\ UNCHANGED files
  <2>1. /\ UNCHANGED files
        /\ \/ \E point \in {"receipt", "refresh", "finish", "ackPause", "ackCancel"} :
                Goto(w, point)
           \/ Throw(w, FALSE)
    BY <1>7 DEF Close, SaveReceipt, SubmitCatalogRefresh, FailPlan, InterruptPlan, Step
  <2> QED
    BY <2>1, RunsTo DEF RunPoints
<1> QED
  BY <1>1, <1>2, <1>3, <1>4, <1>5, <1>6, <1>7 DEF RunMoves

\* The steps of an item that write no file.
LEMMA LooksOpen ==
  ASSUME XInv, NEW w \in Workers,
         \/ Existing(w) \/ CheckSource(w) \/ CheckChunk(w) \/ MarkBytes(w) \/ SaveBytes(w)
         \/ VerifyCopy(w) \/ Reopen(w) \/ Committed(w) \/ MarkVerified(w) \/ MarkCompleted(w)
         \/ Retire(w) \/ Move(w) \/ Moved(w) \/ RecordQuarantine(w)
  PROVE  /\ OpensOn(w) /\ UNCHANGED <<disk, dest>>
         /\ staging' = staging \/ staging' = Put(staging, Item(w), Absent)
<1>1. ASSUME NEW to \in Calm PROVE Gated(to) \in Calm
  BY <1>1, GatedPoint DEF Calm
<1>2. ASSUME Existing(w) PROVE OpensOn(w)
  <2> DEFINE to == IF Item(w) \in Local(w).verified THEN AfterVerified
                   ELSE IF dest[Item(w)] = Absent THEN "source"
                   ELSE IF Good(Item(w), dest[Item(w)]) THEN "markVerified" ELSE "failItem"
  <2>1. Goto(w, Gated(to)) /\ to \in Calm
    BY <1>2 DEF Existing, OnItem, Step, AfterVerified, Calm
  <2> HIDE DEF to
  <2> QED
    BY <1>1, <2>1, CalmShut, ShutOpensOn
<1>3. ASSUME \/ CheckSource(w) \/ VerifyCopy(w) \/ Committed(w) \/ MarkVerified(w)
             \/ MarkCompleted(w) \/ Moved(w) \/ RecordQuarantine(w)
      PROVE  OpensOn(w)
  <2>1. \E point \in {"open", "failItem", "promote", "reopen", "markVerified", "retire",
                      "markCompleted", "checkpoint", "record"} : Goto(w, point)
    BY <1>3 DEF CheckSource, VerifyCopy, Committed, MarkVerified, MarkCompleted, AfterVerified,
                Moved, RecordQuarantine, OnItem, Step
  <2> QED
    BY <2>1, CalmShut, ShutOpensOn DEF Calm
<1>4. ASSUME Retire(w) PROVE OpensOn(w)
  <2> DEFINE i == Item(w)
             found == CASE source[i] = "good" -> "move"
                        [] source[i] = "absent" /\ quarantine[i] = "good" -> "record"
                        [] OTHER -> "failItem"
  <2>1. Goto(w, IF i \in recorded THEN RecordFound ELSE Gated(found)) /\ found \in Calm
    BY <1>4 DEF Retire, OnItem, Step, Calm
  <2> HIDE DEF found
  <2>2. RecordFound \in Calm
    BY <1>1 DEF RecordFound, Calm
  <2> QED
    BY <1>1, <2>1, <2>2, CalmShut, ShutOpensOn
<1>5. ASSUME Move(w) PROVE OpensOn(w)
  <2>1. Goto(w, "moved") \/ Goto(w, Gated("failItem"))
    BY <1>5 DEF Move, OnItem, Step
  <2>2. "moved" \in Calm /\ Gated("failItem") \in Calm
    BY <1>1 DEF Calm
  <2> QED
    BY <2>1, <2>2, CalmShut, ShutOpensOn
<1>6. ASSUME CheckChunk(w) \/ MarkBytes(w) \/ SaveBytes(w) PROVE OpensOn(w)
  <2>1. /\ workers[w].pc \in Writing
        /\ \E point \in {"failItem", "failPlan", "cancelPlan", "pausePlan", "bytes", "beat",
                         "truncate", "chunk", "write", Gated("write")} :
             \/ Goto(w, point)
             \/ SaveContext(w, 0, point, Local(w)) \/ ReportContext(w, point, Local(w))
    BY <1>6 DEF CheckChunk, Controlled, MarkBytes, SaveBytes, ChunkOrDone, OnItem, Step, At,
                Writing
  <2>2. Gated("write") \in {"write", "failPlan", "failItem"}
    BY GatedPoint
  <2>3. PICK point : /\ point \in {"failItem", "failPlan", "cancelPlan", "pausePlan", "bytes",
                                   "beat", "truncate", "chunk", "write", Gated("write")}
                     /\ \/ Goto(w, point)
                        \/ SaveContext(w, 0, point, Local(w))
                        \/ ReportContext(w, point, Local(w))
    BY <2>1
  <2>4. workers'[w].pc = point /\ workers'[w].local = workers[w].local
    BY <2>3, WentTo, CallGoes
  <2>5. point # "finalCopy"
    BY <2>2, <2>3
  <2> QED
    BY <2>1, <2>4, <2>5 DEF OpensOn
<1>7. ASSUME Reopen(w) PROVE OpensOn(w)
  <2> DEFINE i == Item(w)
             m == [Local(w) EXCEPT !.handle = staging[i]]
  <2>1. /\ workers[w].pc = "reopen" /\ staging' = staging
        /\ Goto(w, "failItem") \/ (staging[i] # Absent /\ Continue(w, "empty", m))
    BY <1>7 DEF Reopen, OnlyWorker, At, files
  <2>2. Local(w) \in AnyLocals /\ i \in Items /\ staging[i] \in Nat
    BY <2>1, ItemFacts DEF ItemPoints, HandlerPoints, XInv, StoreTyped, DiskTyped
  <2>3. m.handle = staging[i] /\ m.item = i
    BY <2>2, SetHandle DEF SameWork, Item
  <2>4. CASE Goto(w, "failItem")
    BY <2>4, CalmShut, ShutOpensOn DEF Calm
  <2> HIDE DEF m
  <2>5. CASE staging[i] # Absent /\ Continue(w, "empty", m)
    <3>1. workers'[w].pc = "empty" /\ workers'[w].local = m
      BY <2>5, WentOn
    <3> QED
      BY <2>1, <2>3, <2>5, <3>1 DEF OpensOn, Writing
  <2> QED
    BY <2>1, <2>4, <2>5
<1>8. OpensOn(w)
  BY <1>2, <1>3, <1>4, <1>5, <1>6, <1>7
<1>9. /\ UNCHANGED <<disk, dest>>
      /\ staging' = staging \/ staging' = Put(staging, Item(w), Absent)
  BY DEF Existing, CheckSource, CheckChunk, MarkBytes, SaveBytes, VerifyCopy, Reopen, Committed,
         MarkVerified, MarkCompleted, Retire, Move, Moved, RecordQuarantine, OnlyWorker, files
<1> QED
  BY <1>8, <1>9

\* WriteChunk, Truncate: through the handle of the copy.
LEMMA WriteOpen ==
  ASSUME XInv, CopyInv, NEW w \in Workers, Copies(w), WriteChunk(w) \/ Truncate(w)
  PROVE  CopyInv' /\ Untouched
<1> DEFINE i == Item(w)
           n == Local(w).handle
           offset == Local(w).offset + 1
<1>1. workers[w].pc \in ItemPoints /\ workers[w].pc \in Writing
  BY DEF WriteChunk, Truncate, Step, At, ItemPoints, HandlerPoints, Writing
<1>2. /\ i \in Items /\ i = workers[w].local.item /\ Local(w) \in AnyLocals
      /\ n = workers[w].local.handle /\ n \in DOMAIN disk[i] /\ DiskTyped /\ offset \in Nat
  BY <1>1, ItemFacts DEF XInv, StoreTyped, AnyLocals, Local
<1>3. disk[i][n] \in AnyContent
  <2>1. disk[i] \in Seq(AnyContent)
    BY <1>2 DEF DiskTyped
  <2> QED
    BY <1>2, <2>1
<1>4. CASE Goto(w, "failItem") /\ UNCHANGED files
  <2>1. OpensOn(w) /\ UNCHANGED <<disk, dest, staging>>
    BY <1>4, CalmShut, ShutOpensOn DEF Calm, files
  <2> QED
    BY <2>1, QuietCopies
<1>5. ASSUME NEW c \in AnyContent, Overwrite(i, n, c), OpensOn(w)
      PROVE  CopyInv' /\ Untouched
  BY <1>1, <1>5, WriteCopies
<1>6. ASSUME NEW good \in BOOLEAN, NEW point \in {"mark", "chunk"},
             Overwrite(i, n, Written(disk[i][n], offset, good)),
             Continue(w, point, [Local(w) EXCEPT !.offset = offset])
      PROVE  CopyInv' /\ Untouched
  <2> DEFINE m == [Local(w) EXCEPT !.offset = offset]
  <2>1. m.handle = n /\ m.item = i
    BY <1>2, SetOffset DEF SameWork, Item
  <2> HIDE DEF m, i, n, offset
  <2>2. workers'[w].pc = point /\ workers'[w].local = m
    BY <1>6, WentOn DEF m
  <2>3. OpensOn(w)
    BY <1>1, <1>2, <2>1, <2>2 DEF OpensOn, Writing
  <2>4. Written(disk[i][n], offset, good) \in AnyContent
    BY <1>2, <1>3, ContentType
  <2> QED
    BY <1>5, <1>6, <2>3, <2>4
<1>7. ASSUME NEW size \in {0, Size}, Overwrite(i, n, Resized(disk[i][n], size)),
             \/ Goto(w, "chunk")
             \/ \E point \in {"verifyCopy", "open"} : \E local : Continue(w, point, local)
      PROVE  CopyInv' /\ Untouched
  <2>1. Resized(disk[i][n], size) \in AnyContent
    <3>1. size \in Nat
      BY TransferAssumption DEF Size
    <3> HIDE DEF i, n
    <3> QED
      BY <1>3, <3>1, ContentType
  <2>2. CASE Goto(w, "chunk")
    <3>1. workers'[w].pc = "chunk" /\ workers'[w].local = workers[w].local
      BY <2>2, WentTo
    <3>2. OpensOn(w)
      BY <1>1, <3>1 DEF OpensOn, Writing
    <3> QED
      BY <1>5, <1>7, <2>1, <3>2
  <2>3. CASE \E point \in {"verifyCopy", "open"} : \E local : Continue(w, point, local)
    <3>1. OpensOn(w)
      BY <2>3, CalmShut, ShutOpensOn DEF Calm
    <3> QED
      BY <1>5, <1>7, <2>1, <3>1
  <2> QED
    BY <1>7, <2>2, <2>3
<1>8. CASE WriteChunk(w)
  <2>1. \/ Goto(w, "failItem") /\ UNCHANGED files
        \/ \E good \in BOOLEAN, point \in {"mark", "chunk"} :
             /\ Overwrite(i, n, Written(disk[i][n], offset, good))
             /\ Continue(w, point, [Local(w) EXCEPT !.offset = offset])
    BY <1>8 DEF WriteChunk
  <2> HIDE DEF i, n, offset
  <2> QED
    BY <1>4, <1>6, <2>1
<1>9. CASE Truncate(w)
  <2>1. \E size \in {0, Size} :
          /\ Overwrite(i, n, Resized(disk[i][n], size))
          /\ \/ Goto(w, "chunk")
             \/ \E point \in {"verifyCopy", "open"} : \E local : Continue(w, point, local)
    BY <1>9 DEF Truncate, Step
  <2> HIDE DEF i, n
  <2> QED
    BY <1>7, <2>1
<1> QED
  BY <1>8, <1>9

\* OpenStaging: a new file is nobody's destination.
LEMMA OpenCopies ==
  ASSUME XInv, CopyInv, NEW w \in Workers, Copies(w), OpenStaging(w)
  PROVE  CopyInv' /\ Untouched
<1> DEFINE i == Item(w)
           new == staging[i] = Absent
           n == IF new THEN Len(disk[i]) + 1 ELSE staging[i]
           size == IF new THEN 0 ELSE disk[i][n].size
           offset == IF size > Size THEN 0 ELSE size
           from == source[i] = "good"
           m1 == [Local(w) EXCEPT !.handle = n]
           m2 == [m1 EXCEPT !.from = from]
           m3 == [m2 EXCEPT !.offset = offset]
           point == IF size > Size THEN "trim" ELSE ChunkOrDone(offset)
<1>1. /\ workers[w].pc \in ItemPoints /\ UNCHANGED dest
      /\ \/ Goto(w, "failItem") /\ UNCHANGED <<disk, staging>>
         \/ /\ Continue(w, point, m3)
            /\ staging' = Put(staging, i, n)
            /\ disk' = IF new THEN Put(disk, i, Append(disk[i], Empty)) ELSE disk
  BY DEF OpenStaging, At, ItemPoints, HandlerPoints
<1>2. point \in {"trim", "truncate", "chunk"}
  BY ChunkOrDoneType
<1> HIDE DEF point, m3, offset, size
<1>3. i \in Items /\ i = workers[w].local.item /\ Local(w) \in AnyLocals /\ DiskTyped
  BY <1>1, ItemFacts DEF XInv, StoreTyped
<1>4. CASE Goto(w, "failItem") /\ UNCHANGED <<disk, staging>>
  <2>1. OpensOn(w)
    BY <1>4, CalmShut, ShutOpensOn DEF Calm
  <2> QED
    BY <1>1, <1>4, <2>1, QuietCopies
<1>5. CASE /\ Continue(w, point, m3)
           /\ staging' = Put(staging, i, n)
           /\ disk' = IF new THEN Put(disk, i, Append(disk[i], Empty)) ELSE disk
  <2>1. /\ n \in Nat /\ n # Absent
        /\ n = staging[i] \/ n \notin DOMAIN disk[i]
        /\ \A k \in Items : \A q \in DOMAIN disk[k] : disk'[k][q] = disk[k][q]
    <3>1. CASE new
      <4>1. n = Len(disk[i]) + 1 /\ disk' = Put(disk, i, Append(disk[i], Empty))
        BY <1>5, <3>1
      <4> HIDE DEF n
      <4> QED
        BY <1>3, <4>1, DiskNew DEF Absent
    <3>2. CASE ~new
      <4>1. n = staging[i] /\ disk' = disk /\ n # Absent
        BY <1>5, <3>2
      <4> HIDE DEF n
      <4> QED
        BY <1>3, <4>1 DEF DiskTyped
    <3> QED
      BY <3>1, <3>2
  <2> HIDE DEF n
  <2>2. \A k \in Items : staging'[k] = IF k = i THEN n ELSE staging[k]
    BY <1>3, <1>5 DEF DiskTyped, Put
  <2>3. m3.handle = n /\ m3.item = i
    <3>1. m1 \in AnyLocals /\ m1.handle = n /\ m1.item = i
      BY <1>3, <2>1, SetHandle DEF SameWork, Item
    <3> HIDE DEF m1
    <3>2. m2 \in AnyLocals /\ m2.handle = n /\ m2.item = i
      BY <3>1 DEF AnyLocals
    <3> HIDE DEF m2
    <3> QED
      BY <3>2 DEF AnyLocals, m3
  <2>4. workers'[w].pc = point /\ workers'[w].local = m3
    BY <1>5, WentOn
  <2>5. OpensOn(w)
    <3>1. staging'[workers'[w].local.item] = n /\ workers'[w].local.handle = n
      BY <1>3, <2>2, <2>3, <2>4
    <3> QED
      BY <1>2, <2>1, <2>4, <3>1 DEF OpensOn, Writing
  <2>6. CopyInv'
    <3>1. acts' \in Nat /\ Items' = Items /\ \A v \in Workers : workers'[v] = workers[v] \/ OpensOn(v)
      BY <2>5 DEF CopyInv, Copies, Moves
    <3>2. \A k \in Items : \/ staging'[k] = staging[k]
                           \/ staging'[k] \notin DOMAIN disk[k] /\ staging'[k] \in Nat
      BY <2>1, <2>2
    <3>3. ~HardLinks => \A k \in Items, v \in Workers :
            Fills(workers[v], k) => ~GoodThen(k, workers[v].local.target)
      BY <2>1, CopyFacts DEF CopyInv, Apart, Good, GoodThen
    <3>4. \A k \in Items : dest'[k] = dest[k]
      BY <1>1
    <3> HIDE DEF i
    <3> QED
      BY <3>1, <3>2, <3>3, <3>4, CopiesStay
  <2>7. Untouched
    BY <1>1, <1>3, <2>1, GoodIsMade DEF Untouched, Good
  <2> QED
    BY <2>6, <2>7
<1> QED
  BY <1>1, <1>4, <1>5

\* FinalCopy: of the file that was made for it, which was not good yet.
LEMMA FinalCopies ==
  ASSUME XInv, CopyInv, NEW w \in Workers, Copies(w), FinalCopy(w)
  PROVE  CopyInv' /\ Untouched
<1> DEFINE i == Item(w)
           n == Local(w).target
           c == disk[i][Local(w).handle]
<1>1. /\ workers[w].pc = "finalCopy" /\ workers[w].pc \in ItemPoints
      /\ \E local : Continue(w, "committed", local)
      /\ disk' = [disk EXCEPT ![i][n] = c] /\ UNCHANGED <<staging, dest>>
  BY DEF FinalCopy, Overwrite, At, ItemPoints, HandlerPoints
<1>2. /\ i \in Items /\ i = workers[w].local.item /\ DiskTyped
      /\ n \in DOMAIN disk[i] /\ Local(w).handle \in DOMAIN disk[i]
      /\ n = workers[w].local.target /\ ~HardLinks
  BY <1>1, ItemFacts DEF XInv, StoreTyped, CopyInv, Local
<1>3. Fills(workers[w], i) /\ Apart(i) /\ ~Good(i, n)
  BY <1>1, <1>2 DEF Fills, CopyInv, Apart
<1>4. \A k \in Items : \A m \in DOMAIN disk[k] :
        disk'[k][m] = IF k = i /\ m = n THEN c ELSE disk[k][m]
  <2>1. disk[i] \in Seq(AnyContent)
    BY <1>2 DEF DiskTyped
  <2>2. c \in AnyContent
    BY <1>2, <2>1
  <2> HIDE DEF c, i, n
  <2> QED
    BY <1>1, <1>2, <2>2, DiskWrite
<1>5. OpensOn(w) /\ Shut(w)
  BY <1>1, CalmShut, ShutOpensOn DEF Calm
<1> HIDE DEF c
<1>6. ASSUME NEW k \in Items, NEW v \in Workers, Fills(workers[v], k), v # w
      PROVE  ~GoodThen(k, workers[v].local.target)
  <2>1. /\ workers[v].local.target \in DOMAIN disk[k] /\ ~Good(k, workers[v].local.target)
        /\ k = i => n # workers[v].local.target
    BY <1>2, <1>3, <1>6, CopyFacts DEF CopyInv, Apart
  <2>2. disk'[k][workers[v].local.target] = disk[k][workers[v].local.target]
    BY <1>4, <2>1
  <2> QED
    BY <2>1, <2>2 DEF Good, GoodThen
<1>7. CopyInv'
  <2>1. acts' \in Nat /\ Items' = Items /\ \A v \in Workers : workers'[v] = workers[v] \/ OpensOn(v)
    BY <1>5 DEF CopyInv, Copies, Moves
  <2>2. \A k \in Items : staging'[k] = staging[k] /\ dest'[k] = dest[k]
    BY <1>1
  <2>3. \A k \in Items, v \in Workers :
          Fills(workers[v], k) => \/ ~GoodThen(k, workers[v].local.target)
                                  \/ workers'[v].pc # "finalCopy"
    BY <1>5, <1>6 DEF Shut
  <2> HIDE DEF i, n
  <2> QED
    BY <2>1, <2>2, <2>3, CopiesStay
<1>8. Untouched
  <2> SUFFICES ASSUME NEW k \in Items, dest[k] # Absent, Good(k, dest[k]), ~Good(k, dest[k])'
               PROVE  FALSE
    BY <1>1 DEF Untouched
  <2>1. dest[k] \in DOMAIN disk[k] /\ disk[k][dest[k]] = Approved /\ dest' = dest
    BY <1>1, <1>2, GoodIsMade
  <2>2. disk'[k][dest[k]] # Approved
    BY <2>1, <1>2 DEF Good
  <2>3. k = i /\ dest[k] = n
    BY <1>4, <2>1, <2>2
  <2> QED
    BY <1>3, <2>3
<1> QED
  BY <1>7, <1>8

\* Promote: what is made is a file of its own, where there are no hard links.
LEMMA PromoteCopies ==
  ASSUME XInv, CopyInv, NEW w \in Workers, Copies(w), Promote(w)
  PROVE  CopyInv' /\ Untouched
<1> DEFINE i == Item(w)
           n == Len(disk[i]) + 1
           m1 == [Closed(w) EXCEPT !.handle = staging[i]]
           m2 == [m1 EXCEPT !.target = n]
<1>1. /\ workers[w].pc = "promote" /\ workers[w].pc \in ItemPoints /\ UNCHANGED staging
      /\ \/ /\ staging[i] # Absent /\ dest[i] = Absent
            /\ \/ /\ HardLinks /\ Continue(w, "committed", Closed(w))
                  /\ dest' = Put(dest, i, staging[i]) /\ UNCHANGED disk
               \/ /\ ~HardLinks /\ Continue(w, "finalCopy", m2)
                  /\ dest' = Put(dest, i, n)
                  /\ disk' = Put(disk, i, Append(disk[i], Empty))
         \/ Goto(w, Gated("failItem")) /\ UNCHANGED <<dest, disk>>
  BY DEF Promote, At, ItemPoints, HandlerPoints
<1> HIDE DEF m2
<1>2. /\ i \in Items /\ i = workers[w].local.item /\ DiskTyped /\ Local(w) \in AnyLocals
      /\ Closed(w) \in AnyLocals /\ SameWork(Local(w), Closed(w))
  BY <1>1, ItemFacts, ClosedLocal DEF XInv, StoreTyped
<1>3. CASE Goto(w, Gated("failItem")) /\ UNCHANGED <<dest, disk>>
  <2>1. Gated("failItem") \in Calm
    BY GatedPoint DEF Calm
  <2>2. OpensOn(w)
    BY <1>3, <2>1, CalmShut, ShutOpensOn
  <2> QED
    BY <1>1, <1>3, <2>2, QuietCopies
<1>4. ASSUME NEW file, dest' = Put(dest, i, file), dest[i] = Absent,
             \A k \in Items : \A q \in DOMAIN disk[k] : disk'[k][q] = disk[k][q]
      PROVE  Untouched /\ \A k \in Items : dest'[k] = IF k = i THEN file ELSE dest[k]
  <2>1. \A k \in Items : dest'[k] = IF k = i THEN file ELSE dest[k]
    BY <1>2, <1>4 DEF DiskTyped, Put
  <2> QED
    BY <1>2, <1>4, <2>1, GoodIsMade DEF Untouched, Good
<1>5. CASE /\ HardLinks /\ Continue(w, "committed", Closed(w)) /\ dest[i] = Absent
           /\ dest' = Put(dest, i, staging[i]) /\ UNCHANGED disk
  <2>1. OpensOn(w)
    BY <1>5, CalmShut, ShutOpensOn DEF Calm
  <2>2. acts' \in Nat /\ Items' = Items /\ \A v \in Workers : workers'[v] = workers[v] \/ OpensOn(v)
    BY <2>1 DEF CopyInv, Copies, Moves
  <2>3. CopyInv'
    BY <1>1, <1>5, <2>2, CopiesStay
  <2> QED
    BY <1>4, <1>5, <2>3
<1>6. CASE /\ ~HardLinks /\ Continue(w, "finalCopy", m2)
           /\ staging[i] # Absent /\ dest[i] = Absent
           /\ dest' = Put(dest, i, n)
           /\ disk' = Put(disk, i, Append(disk[i], Empty))
  <2>1. /\ n \in Nat /\ n > 0 /\ n \notin DOMAIN disk[i] /\ disk'[i][n] = Empty
        /\ \A k \in Items : \A q \in DOMAIN disk[k] : disk'[k][q] = disk[k][q]
    <3>1. disk' = Put(disk, i, Append(disk[i], Empty)) /\ DiskTyped /\ i \in Items
      BY <1>2, <1>6
    <3> HIDE DEF i
    <3> QED
      BY <3>1, DiskNew
  <2> HIDE DEF n
  <2>2. Untouched /\ \A k \in Items : dest'[k] = IF k = i THEN n ELSE dest[k]
    BY <1>4, <1>6, <2>1
  <2>3. staging[i] \in Nat /\ staging[i] \in DOMAIN disk[i]
    BY <1>2, <1>6 DEF DiskTyped
  <2>4. m2.handle = staging[i] /\ m2.target = n /\ m2.item = i
    <3>1. m1 \in AnyLocals /\ m1.handle = staging[i] /\ m1.item = i
      BY <1>2, <2>3, SetHandle DEF SameWork, Item
    <3> HIDE DEF m1
    <3> QED
      BY <2>1, <3>1, SetTarget DEF SameWork, m2
  <2>5. workers'[w].pc = "finalCopy" /\ workers'[w].local = m2
    BY <1>6, WentOn
  <2>6. ~(disk'[i][n] = Approved)
    BY <2>1, TransferAssumption DEF Empty, Approved, Size
  <2> HIDE DEF i
  <2>7. ASSUME NEW k \in Items PROVE Apart(k)'
    <3>1. /\ staging[k] # Absent => staging[k] \in DOMAIN disk[k] /\ staging[k] # dest[k]
          /\ \A v \in Workers :
               /\ Opens(workers[v], k) => /\ workers[v].local.handle \in DOMAIN disk[k]
                                          /\ workers[v].local.handle # dest[k]
               /\ Fills(workers[v], k) => /\ workers[v].local.target \in DOMAIN disk[k]
                                          /\ workers[v].local.target # staging[k]
                                          /\ ~Good(k, workers[v].local.target)
          /\ \A v, u \in Workers :
               Fills(workers[v], k) =>
                 /\ Opens(workers[u], k) => workers[u].local.handle # workers[v].local.target
                 /\ Fills(workers[u], k) /\ u # v =>
                      workers[u].local.target # workers[v].local.target
      BY <1>6, CopyFacts DEF CopyInv, Apart
    <3>2. staging'[k] # Absent => staging'[k] # dest'[k]
      BY <1>1, <2>1, <2>2, <3>1
    <3>3. ASSUME NEW v \in Workers
          PROVE  \/ workers'[v] = workers[v]
                 \/ /\ v = w
                    /\ k = i \/ ~(Opens(workers'[v], k) \/ Fills(workers'[v], k))
                    /\ workers'[v].local.handle = staging[i] /\ workers'[v].local.target = n
      BY <2>4, <2>5 DEF Copies, Moves, Opens, Fills
    <3>4. ASSUME NEW v \in Workers, Opens(workers'[v], k)
          PROVE  /\ workers'[v].local.handle \in DOMAIN disk[k]
                 /\ workers'[v].local.handle # dest'[k]
      <4>1. workers'[v].local.handle \in DOMAIN disk[k] /\ workers'[v].local.handle # dest[k]
        BY <2>3, <3>1, <3>3, <3>4, <1>6
      <4> QED
        BY <2>1, <2>2, <4>1
    <3>5. ASSUME NEW v \in Workers, Fills(workers'[v], k)
          PROVE  /\ workers'[v].local.target # staging'[k]
                 /\ ~GoodThen(k, workers'[v].local.target)
                 /\ \/ workers'[v] = workers[v]
                    \/ v = w /\ k = i /\ workers'[v].local.target = n
      <4>1. CASE workers'[v] = workers[v]
        <5>1. /\ workers[v].local.target \in DOMAIN disk[k]
              /\ workers[v].local.target # staging[k]
              /\ ~Good(k, workers[v].local.target)
          BY <3>1, <3>5, <4>1
        <5> QED
          BY <1>1, <2>1, <4>1, <5>1 DEF Good, GoodThen
      <4>2. CASE v = w /\ k = i /\ workers'[v].local.target = n
        BY <1>1, <2>1, <2>3, <2>6, <4>2 DEF GoodThen
      <4> QED
        BY <3>3, <3>5, <4>1, <4>2
    <3>6. ASSUME NEW v \in Workers, NEW u \in Workers, Fills(workers'[v], k)
          PROVE  /\ Opens(workers'[u], k) =>
                      workers'[u].local.handle # workers'[v].local.target
                 /\ Fills(workers'[u], k) /\ u # v =>
                      workers'[u].local.target # workers'[v].local.target
      <4>1. CASE workers'[v] = workers[v]
        BY <1>6, <2>1, <2>3, <3>1, <3>3, <3>5, <3>6, <4>1
      <4>2. CASE v = w /\ k = i /\ workers'[v].local.target = n
        <5>1. Opens(workers'[u], k) => workers'[u].local.handle # n
          BY <2>1, <3>4, <4>2
        <5>2. Fills(workers'[u], k) /\ u # v => workers'[u].local.target # n
          <6>1. CASE u # v /\ Fills(workers'[u], k)
            BY <2>1, <3>1, <3>3, <4>2, <6>1
          <6> QED
            BY <6>1
        <5> QED
          BY <4>2, <5>1, <5>2
      <4> QED
        BY <3>5, <3>6, <4>1, <4>2
    <3> QED
      BY <3>2, <3>4, <3>5, <3>6 DEF Apart, Opens, Fills, Good, GoodThen
  <2>8. CopyInv'
    <3>1. acts' \in Nat /\ Items' = Items
      BY DEF CopyInv, Copies
    <3> QED
      BY <1>6, <2>7, <3>1 DEF CopyInv
  <2> QED
    BY <2>2, <2>8
<1> QED
  BY <1>1, <1>3, <1>5, <1>6

\* Everybody but the handlers leaves the open copies as they are, and writes no good one.
LEMMA OthersCopies ==
  ASSUME XInv, CopyInv, Items' = Items, acts' \in Nat, UNCHANGED <<workers, staging>>,
         \A i \in Items : dest'[i] = dest[i] \/ dest'[i] \in {Absent, Foreign},
         \A i \in Items : \A n \in DOMAIN disk[i] :
           disk'[i][n] = disk[i][n] \/ disk'[i][n] # Approved
  PROVE  CopyInv'
<1>1. ~HardLinks => \A i \in Items, v \in Workers :
        Fills(workers[v], i) => ~GoodThen(i, workers[v].local.target)
  <2> SUFFICES ASSUME ~HardLinks, NEW i \in Items, NEW v \in Workers, Fills(workers[v], i)
               PROVE  ~GoodThen(i, workers[v].local.target)
    OBVIOUS
  <2>1. /\ workers[v].local.target \in DOMAIN disk[i]
        /\ ~Good(i, workers[v].local.target)
    BY CopyFacts DEF CopyInv, Apart
  <2> QED
    BY <2>1 DEF Good, GoodThen
<1> QED
  BY <1>1, CopiesStay

LEMMA UserCopies ==
  ASSUME XInv, CopyInv, User, UNCHANGED <<workers, store>>
  PROVE  CopyInv' /\ (acts' = acts => Untouched)
<1>1. Items' = Items /\ DiskTyped /\ acts \in Nat
  BY DEF store, Items, XInv, StoreTyped, CopyInv
<1>2. CASE UNCHANGED files
  <2>1. UNCHANGED <<staging, dest, disk>>
    BY <1>2 DEF files
  <2>2. acts' \in Nat
    BY <1>1 DEF User
  <2>3. CopyInv'
    BY <1>1, <2>1, <2>2, OthersCopies
  <2> QED
    BY <2>1, <2>3 DEF Untouched, Good
<1>3. ASSUME NEW i \in Items, Edit(i), acts' = acts + 1
      PROVE  CopyInv' /\ acts' # acts
  <2>1. staging' = staging /\ acts' \in Nat /\ acts' # acts
    BY <1>1, <1>3 DEF Edit
  <2>2. \A k \in Items : dest'[k] = dest[k] \/ dest'[k] \in {Absent, Foreign}
    BY <1>1, <1>3 DEF Edit, EditSource, EditDestination, DiskTyped, Put
  <2>3. \A k \in Items : \A n \in DOMAIN disk[k] :
          disk'[k][n] = disk[k][n] \/ disk'[k][n] # Approved
    <3>1. CASE UNCHANGED disk
      BY <3>1
    <3>2. ASSUME NEW m, NEW c \in Edited, disk' = [disk EXCEPT ![i][m] = c]
          PROVE  <2>3!:
      <4>1. c # Approved
        <5>1. Size \in Nat /\ 1 \in 1 .. Size
          BY TransferAssumption DEF Size
        <5>2. Approved.size = Size /\ 1 \notin Approved.bad
          BY DEF Approved
        <5>3. 1 \in c.bad \/ c.size = Size + 1
          BY <5>1 DEF Edited
        <5>4. Size + 1 # Size
          BY <5>1
        <5> QED
          BY <5>2, <5>3, <5>4
      <4>2. \A k \in Items \ {i} : disk'[k] = disk[k]
        BY <1>1, <3>2 DEF DiskTyped
      <4>3. disk'[i] = [disk[i] EXCEPT ![m] = c]
        BY <1>1, <3>2 DEF DiskTyped
      <4>4. \A n \in DOMAIN disk[i] : disk'[i][n] = disk[i][n] \/ disk'[i][n] = c
        BY <4>3
      <4> QED
        BY <4>1, <4>2, <4>4
    <3> QED
      BY <1>3, <3>1, <3>2 DEF Edit, EditSource, EditDestination
  <2> QED
    BY <1>1, <2>1, <2>2, <2>3, OthersCopies
<1>4. UNCHANGED files \/ (acts' = acts + 1 /\ \E i \in Items : Edit(i))
  BY DEF User
<1> QED
  BY <1>2, <1>3, <1>4

\* A step that writes no file and opens none.
LEMMA ShutCopies ==
  ASSUME XInv, CopyInv, NEW w \in Workers, Copies(w), Shut(w), UNCHANGED files
  PROVE  CopyInv' /\ Untouched
BY ShutOpensOn, QuietCopies DEF files

LEMMA WorkersCopies ==
  ASSUME XInv, CopyInv, NEW w \in Workers, WorkerMoves(w), UNCHANGED outside
  PROVE  CopyInv' /\ Untouched
<1>1. Copies(w)
  BY WorkerMovesKeep DEF Keeps, FileSteps, Copies, outside
<1>2. CASE ProcessMoves(w) /\ UNCHANGED <<store, files>>
  <2>1. workers \in [Workers -> Worker(HandlerPoints, AnyLocals)] /\ NoLocal \in AnyLocals
    BY NoLocalType DEF XInv, WorkersTyped
  <2>2. ProcessActs(w)
    BY <1>2, <2>1, ProcessMovesActs DEF XInv
  <2>3. Shut(w)
    BY <2>2 DEF ProcessActs, Answers, Resting, Shut, Writing
  <2> QED
    BY <1>1, <1>2, <2>3, ShutCopies
<1>3. CASE RunMoves(w)
  BY <1>1, <1>3, RunLeads, LeadsShut, ShutCopies
<1>4. CASE ItemMoves(w)
  BY <1>1, <1>4, LooksOpen, QuietCopies, WriteOpen, OpenCopies, PromoteCopies, FinalCopies
     DEF ItemMoves
<1> QED
  BY <1>2, <1>3, <1>4 DEF WorkerMoves

LEMMA CopyInvInit == XInit => CopyInv
<1> SUFFICES ASSUME XInit PROVE CopyInv
  OBVIOUS
<1>1. \A v \in Workers : workers[v].pc = "recover"
  BY DEF XInit, ProcessInit, Idle, Fresh
<1>2. \A i \in Items : staging[i] = Absent
  BY DEF XInit
<1> QED
  BY <1>1, <1>2 DEF XInit, CopyInv, Apart, Opens, Fills, Writing

LEMMA CopyInvNext ==
  ASSUME XInv, CopyInv, [XNext]_vars
  PROVE  CopyInv' /\ (acts' = acts => Untouched)
<1>1. ASSUME UNCHANGED <<workers, files, acts>> PROVE CopyInv' /\ Untouched
  <2>1. UNCHANGED <<staging, dest, disk>> /\ Items' = Items /\ acts' \in Nat
    BY <1>1, XInvNext DEF files, FileSteps, CopyInv
  <2>2. CopyInv'
    BY <1>1, <2>1, OthersCopies
  <2> QED
    BY <2>1, <2>2 DEF Untouched, Good
<1>2. CASE Server
  BY <1>1, <1>2 DEF Server
<1>3. ASSUME NEW w \in Workers, Crash(w), UNCHANGED <<store, files, outside>>
      PROVE  CopyInv' /\ Untouched
  <2>1. Copies(w)
    BY <1>3, CrashKeeps DEF Keeps, FileSteps, Copies, outside
  <2>2. workers'[w].pc = "down"
    <3>1. workers \in [Workers -> Worker(HandlerPoints, AnyLocals)] /\ NoLocal \in AnyLocals
      BY NoLocalType DEF XInv, WorkersTyped
    <3> QED
      BY <1>3, <3>1, DieActs DEF Crash, Die
  <2> QED
    BY <1>3, <2>1, <2>2, ShutCopies DEF Shut, Writing
<1>4. CASE UNCHANGED vars \/ (Tick /\ UNCHANGED <<workers, crashes, store, files, outside>>)
  BY <1>1, <1>4 DEF vars, outside
<1>5. CASE User /\ UNCHANGED <<workers, crashes, store, approvals>>
  BY <1>5, UserCopies
<1>6. ASSUME NEW w \in Workers, WorkerMoves(w), UNCHANGED <<crashes, outside>>
      PROVE  CopyInv' /\ Untouched
  BY <1>6, WorkersCopies
<1> QED
  BY <1>2, <1>3, <1>4, <1>5, <1>6 DEF XNext

\* copyVerifyCommit of src/transfer/transfer-job.ts: link() and the exclusive copy that
\* takes its place never replace what is at a destination, whether the user or another
\* worker has put it there.  And a destination that has the approved bytes keeps them
\* whatever workers do, but for one that still has the file open of which it is a link.
THEOREM NothingReplaced == XSpec => DestinationsNeverReplaced
<1>1. XInit => CopyInv
  BY CopyInvInit
<1>2. XInv /\ CopyInv /\ [XNext]_vars => CopyInv'
  BY CopyInvNext
<1>3. XInv /\ CopyInv /\ [XNext]_vars =>
        [acts' = acts => \A i \in Items : dest[i] # Absent =>
           /\ dest'[i] = dest[i]
           /\ Good(i, dest[i]) /\ ~Good(i, dest[i])' =>
                HardLinks /\ \E w \in Workers : Item(w) = i /\ Local(w).handle = dest[i]]_vars
  BY CopyInvNext DEF Untouched
<1> QED
  BY <1>1, <1>2, <1>3, XInductive, PTL DEF XSpec, DestinationsNeverReplaced
-----------------------------------------------------------------------------
(* One worker.  With two, a late one may mark an item again that the other *)
(* has passed; with one, an item that is settled stays settled, so that no *)
(* checkpoint, however old, lets the cursor skip an item with work left.   *)

SettledStatuses == {"completed", "quarantined", "failed"}
Settled(i) == items[i] \in SettledStatuses
SettledUpTo(c) == \A i \in Items : i <= c => Settled(i)

\* Where a worker has an item that is not settled yet.
Working == ItemPoints \ {"checkpoint", "progress"}

\* Before the batch is read the cursor has passed settled items only; then what is not
\* settled is what waits in the batch, and the item in work, which comes before it.
CursorInv(x) ==
  LET i == x.local.item
      todo == x.local.todo
  IN /\ x.pc = "batch" => SettledUpTo(i)
     /\ x.pc \in ItemPoints \cup {"next"} =>
          \A k \in Items : ~Settled(k) <=> k \in todo \/ (x.pc \in Working /\ k = i)
     /\ x.pc \in ItemPoints => \A k \in todo : i < k
     /\ x.pc = "close" => \A k \in Items : Settled(k)

\* What a closed plan and a record of quarantine say of the items.
ClosedInv ==
  /\ plan.status \in {"completed", "partial"} => \A i \in Items : Settled(i)
  /\ plan.status = "completed" => \A i \in Items : items[i] # "failed"
  /\ \A i \in recorded : i \in Items /\ items[i] = "quarantined"

RowsSettled == \A j \in Ids : SettledUpTo(jobs[j].checkpoint)

SoleInv(w) ==
  /\ ClosedInv /\ RowsSettled
  /\ workers[w].pc \notin Resting => SettledUpTo(workers[w].saved)
  /\ CursorInv(workers[w])

\* There is nothing before the first item.
LEMMA NothingBefore == XInv => SettledUpTo(0)
<1>1. XInv => \A i \in Items : i \in Nat /\ i >= 1
  BY BoundsAssumption DEF XInv, StoreTyped, Ordinals
<1> QED
  BY <1>1 DEF SettledUpTo

\* Items that are settled stay so, and a checkpoint is written of settled items only.
LEMMA SettledStay ==
  ASSUME XInv, NEW w \in Workers, SoleInv(w), Items' = Items,
         \A k \in Items : Settled(k) => items'[k] \in SettledStatuses,
         NEW done, NEW saved, Effect(done, saved),
         \A j \in saved : SettledUpTo(jobs'[j].checkpoint),
         workers'[w].pc \notin Resting => SettledUpTo(workers'[w].saved),
         ClosedInv', CursorInv(workers[w])'
  PROVE  SoleInv(w)'
<1>1. ASSUME NEW c, SettledUpTo(c) PROVE \A i \in Items' : i <= c => items'[i] \in SettledStatuses
  BY <1>1 DEF SettledUpTo, Settled
<1>2. ASSUME NEW j \in Ids' PROVE SettledUpTo(jobs'[j].checkpoint)
  <2>1. CASE j \in saved
    BY <2>1
  <2>2. CASE j \in Ids \ saved
    <3>1. SettledUpTo(jobs[j].checkpoint) /\ KeepsCheckpoint(jobs[j], jobs'[j])
      BY <2>2 DEF Effect, SoleInv, RowsSettled
    <3> QED
      BY <3>1, NothingBefore DEF KeepsCheckpoint
  <2>3. CASE j \notin Ids
    <3>1. \E s \in Submissions : jobs'[j] = QueuedRow(s)
      BY <2>3 DEF Effect, TableStep
    <3>2. jobs'[j].checkpoint = 0
      BY <3>1 DEF QueuedRow
    <3> QED
      BY <3>2, NothingBefore
  <2> QED
    BY <2>1, <2>2, <2>3
<1>3. RowsSettled'
  BY <1>1, <1>2 DEF RowsSettled, SettledUpTo, Settled
<1>4. workers'[w].pc \notin Resting => SettledUpTo(workers[w].saved)'
  BY <1>1 DEF SettledUpTo, Settled
<1> QED
  BY <1>3, <1>4 DEF SoleInv

\* A step that writes no item.
LEMMA SameItems ==
  ASSUME XInv, NEW w \in Workers, SoleInv(w), UNCHANGED <<items, recorded>>,
         plan'.status = plan.status \/ plan'.status \notin {"completed", "partial"},
         NEW done, NEW saved, Effect(done, saved),
         \A j \in saved : SettledUpTo(jobs'[j].checkpoint),
         workers'[w].pc \notin Resting => SettledUpTo(workers'[w].saved),
         CursorInv(workers'[w])
  PROVE  SoleInv(w)'
<1>1. Items' = Items
  BY DEF Items
<1>2. ClosedInv'
  BY <1>1 DEF SoleInv, ClosedInv, Settled
<1>3. CursorInv(workers[w])'
  BY <1>1 DEF CursorInv, SettledUpTo, Settled
<1>4. \A k \in Items : Settled(k) => items'[k] \in SettledStatuses
  BY DEF Settled
<1> QED
  BY <1>1, <1>2, <1>3, <1>4, SettledStay

\* Where the cursor does not matter.
Aside == Points \cup {"begin", "start", "receipt", "refresh", "failPlan", "pausePlan",
                      "cancelPlan"}

LEMMA NoCursor == ASSUME NEW x, x.pc \in Aside PROVE CursorInv(x)
BY DEF Aside, Points, CursorInv, ItemPoints, HandlerPoints

LEMMA AwayFromRest == ASSUME NEW x, x.pc \in HandlerPoints PROVE x.pc \notin Resting
BY DEF HandlerPoints, Resting

\* A step of the handler without a call to the queue that writes no item.
LEMMA QuietSole ==
  ASSUME XInv, NEW w \in Workers, SoleInv(w), workers[w].pc \in HandlerPoints,
         UNCHANGED <<jobs, items, recorded>>,
         plan'.status = plan.status \/ plan'.status \notin {"completed", "partial"},
         workers'[w].pc \in Resting \/ workers'[w].saved = workers[w].saved,
         CursorInv(workers'[w])
  PROVE  SoleInv(w)'
<1>1. workers[w].pc \notin Resting
  BY AwayFromRest
<1>2. workers'[w].pc \notin Resting => SettledUpTo(workers'[w].saved)
  BY <1>1 DEF SoleInv
<1> QED
  BY <1>2, QuietEffect, SameItems

-----------------------------------------------------------------------------
(* The run, step by step.                                                  *)

\* A handler that leaves the plan's work, or throws.
LEMMA AsideSole ==
  ASSUME XInv, NEW w \in Workers, SoleInv(w), workers[w].pc \in HandlerPoints,
         UNCHANGED <<jobs, items, recorded>>,
         plan'.status = plan.status \/ plan'.status \notin {"completed", "partial"},
         (\E point \in Aside : Goto(w, point)) \/ (\E retry \in BOOLEAN : Throw(w, retry))
  PROVE  SoleInv(w)'
<1>1. CASE \E point \in Aside : Goto(w, point)
  <2>1. workers'[w].pc \in Aside /\ workers'[w].saved = workers[w].saved
    BY <1>1, WentTo
  <2> QED
    BY <2>1, NoCursor, QuietSole
<1>2. CASE \E retry \in BOOLEAN : Throw(w, retry)
  <2>1. workers'[w].pc = "fail"
    BY <1>2, ThrowKeeps
  <2>2. workers'[w].pc \in Resting /\ workers'[w].pc \in Aside
    BY <2>1 DEF Resting, Aside, Points
  <2> QED
    BY <2>2, NoCursor, QuietSole
<1> QED
  BY <1>1, <1>2

LEMMA LoadSole == ASSUME XInv, NEW w \in Workers, SoleInv(w), Load(w) PROVE SoleInv(w)'
<1>1. /\ LoadJob(w, "begin", NoLocal) /\ At(w, "load") /\ NoLocal \in AnyLocals
      /\ workers \in [Workers -> Worker(HandlerPoints, AnyLocals)] /\ IndInv /\ LinkInv
      /\ "begin" \in Points \cup HandlerPoints
      /\ UNCHANGED <<plan, items, recorded>>
  BY NoLocalType DEF Load, LoadJob, XInv, WorkersTyped, HandlerPoints, store
<1>2. /\ UNCHANGED jobs
      /\ \/ workers'[w].pc = "down"
         \/ /\ workers'[w].pc = "begin"
            /\ workers'[w].saved = jobs[workers[w].job].checkpoint
  BY <1>1, LoadJobActs
<1>3. workers[w].job \in Ids
  BY <1>1 DEF LinkInv, LinkOK, Linked, At
<1>4. workers'[w].pc \notin Resting => SettledUpTo(workers'[w].saved)
  BY <1>2, <1>3 DEF SoleInv, RowsSettled, Resting
<1>5. CursorInv(workers'[w])
  BY <1>2, NoCursor DEF Aside, Points
<1> QED
  BY <1>1, <1>2, <1>4, <1>5, QuietEffect, SameItems

LEMMA BeginSole == ASSUME XInv, NEW w \in Workers, SoleInv(w), Begin(w) PROVE SoleInv(w)'
<1>1. /\ workers[w].pc \in HandlerPoints /\ UNCHANGED <<jobs, plan, items, recorded>>
      /\ \/ \E point \in {"finish", "start", "failPlan"} : Goto(w, point)
         \/ Throw(w, FALSE)
  BY DEF Begin, At, HandlerPoints, OnlyWorker, store
<1>2. {"finish", "start", "failPlan"} \subseteq Aside
  BY DEF Aside, Points
<1> QED
  BY <1>1, <1>2, AsideSole

\* The cursor starts at the checkpoint.
LEMMA StartSole == ASSUME XInv, NEW w \in Workers, SoleInv(w), Start(w) PROVE SoleInv(w)'
<1> DEFINE local == [NoLocal EXCEPT !.item = workers[w].saved]
<1>1. /\ workers[w].pc \in HandlerPoints /\ UNCHANGED <<jobs, items, recorded>>
      /\ Continue(w, "batch", local) /\ setPlanState("transferring")
  BY DEF Start, At, HandlerPoints
<1>2. local.item = workers[w].saved
  BY TransferAssumption
<1> HIDE DEF local
<1>3. /\ workers'[w].pc = "batch" /\ workers'[w].local.item = workers[w].saved
      /\ workers'[w].saved = workers[w].saved
  BY <1>1, <1>2, WentOn
<1>4. SettledUpTo(workers[w].saved)
  BY <1>1, AwayFromRest DEF SoleInv
<1>5. CursorInv(workers'[w])
  BY <1>3, <1>4 DEF CursorInv, ItemPoints
<1>6. plan'.status = "transferring"
  BY <1>1 DEF setPlanState, XInv, StoreTyped
<1> QED
  BY <1>1, <1>3, <1>5, <1>6, QuietSole

\* The batch has everything past the cursor that is not settled.
LEMMA BatchSole == ASSUME XInv, NEW w \in Workers, SoleInv(w), Batch(w) PROVE SoleInv(w)'
<1> DEFINE x == workers[w]
           work == WorkItems(x.local.item)
           verified == {i \in work : items[i] = "verified"}
           point == IF work = {} THEN "close" ELSE "next"
           local == [x.local EXCEPT !.todo = work, !.verified = verified]
<1>1. /\ x.pc = "batch" /\ x.pc \in HandlerPoints
      /\ UNCHANGED <<jobs, plan, items, recorded>>
      /\ \/ \E end \in {"failPlan", "cancelPlan", "pausePlan"} : Goto(w, end)
         \/ Continue(w, point, local)
  BY DEF Batch, At, HandlerPoints, OnlyWorker, Controlled, store, Item, Local
<1>2. CASE \E end \in {"failPlan", "cancelPlan", "pausePlan"} : Goto(w, end)
  <2>1. {"failPlan", "cancelPlan", "pausePlan"} \subseteq Aside
    BY DEF Aside
  <2> QED
    BY <1>1, <1>2, <2>1, AsideSole
<1>3. CASE Continue(w, point, local)
  <2>1. x.local \in AnyLocals /\ SettledUpTo(x.local.item) /\ StoreTyped
    BY <1>1, HandlerFacts DEF SoleInv, CursorInv, XInv
  <2>2. \A k \in Items : ~Settled(k) <=> k \in work
    <3>1. \A k \in Items : items[k] \in ItemStatuses /\ k \in Nat /\ x.local.item \in Nat
      BY <2>1, BoundsAssumption DEF StoreTyped, Ordinals, AnyLocals
    <3> QED
      BY <2>1, <3>1 DEF WorkItems, SettledUpTo, Settled, SettledStatuses, ItemStatuses
  <2>3. point \in {"close", "next"} /\ (point = "close" => work = {})
    OBVIOUS
  <2>4. local.todo = work
    BY <2>1 DEF AnyLocals
  <2> HIDE DEF work, point, local
  <2>5. workers'[w].pc = point /\ workers'[w].local.todo = work /\ workers'[w].saved = x.saved
    BY <1>3, <2>4, WentOn
  <2>6. CursorInv(workers'[w])
    BY <2>2, <2>3, <2>5 DEF CursorInv, ItemPoints, Working
  <2> QED
    BY <1>1, <2>5, <2>6, QuietSole
<1> QED
  BY <1>1, <1>2, <1>3

\* The first item of the batch is taken.
LEMMA TakeItemSole == ASSUME XInv, NEW w \in Workers, SoleInv(w), TakeItem(w) PROVE SoleInv(w)'
<1> DEFINE x == workers[w]
           i == CHOOSE i \in x.local.todo : \A k \in x.local.todo : i <= k
           point == IF gate = "open" THEN FirstPoint ELSE "failPlan"
           rest == x.local.todo \ {i}
           local == ItemOf(x.local, i, rest)
<1>1. /\ x.pc = "next" /\ x.pc \in HandlerPoints
      /\ UNCHANGED <<jobs, plan, items, recorded>>
      /\ \/ x.local.todo = {} /\ Goto(w, "batch")
         \/ \E end \in {"failPlan", "cancelPlan", "pausePlan"} : Goto(w, end)
         \/ x.local.todo # {} /\ Continue(w, point, local)
  BY DEF TakeItem, At, HandlerPoints, OnlyWorker, Controlled, Local, store, ItemOf
<1>2. /\ x.local \in AnyLocals /\ x.local.todo \subseteq Items
      /\ \A k \in Items : ~Settled(k) <=> k \in x.local.todo
  BY <1>1, HandlerFacts DEF SoleInv, CursorInv, Working, ItemPoints
<1>3. CASE x.local.todo = {} /\ Goto(w, "batch")
  <2>1. workers'[w].pc = "batch" /\ workers'[w].saved = x.saved
    BY <1>3, WentTo
  <2>2. CursorInv(workers'[w])
    BY <1>2, <1>3, <2>1 DEF CursorInv, SettledUpTo, ItemPoints
  <2> QED
    BY <1>1, <2>1, <2>2, QuietSole
<1>4. CASE \E end \in {"failPlan", "cancelPlan", "pausePlan"} : Goto(w, end)
  <2>1. {"failPlan", "cancelPlan", "pausePlan"} \subseteq Aside
    BY DEF Aside
  <2> QED
    BY <1>1, <1>4, <2>1, AsideSole
<1>5. CASE x.local.todo # {} /\ Continue(w, point, local)
  <2>1. x.local.todo \in SUBSET Ordinals /\ Ordinals \subseteq Nat
    BY <1>2 DEF AnyLocals, Ordinals
  <2>2. \E k \in x.local.todo : \A l \in x.local.todo : k <= l
    BY <1>5, <2>1, LeastElement
  <2>3. i \in x.local.todo /\ \A k \in x.local.todo : i <= k
    BY <2>2
  <2> HIDE DEF i
  <2>4. i \in Ordinals /\ rest \in SUBSET Ordinals /\ \A k \in rest : i < k
    <3>1. \A k \in rest : k \in Nat /\ i \in Nat /\ i <= k /\ k # i
      BY <2>1, <2>3
    <3>2. \A k \in rest : i < k
      BY <3>1
    <3> QED
      BY <2>1, <2>3, <3>2
  <2>5. \A k \in Items : ~Settled(k) <=> k \in rest \/ k = i
    BY <1>2, <2>3
  <2>6. point \in {"retire", "existing", "failPlan"}
    BY DEF FirstPoint
  <2> HIDE DEF rest
  <2>7. local.item = i /\ local.todo = rest
    BY <1>2, <2>4, ItemLocal
  <2> HIDE DEF point, local
  <2>8. /\ workers'[w].pc = point /\ workers'[w].saved = x.saved
        /\ workers'[w].local.item = i /\ workers'[w].local.todo = rest
    BY <1>5, <2>7, WentOn
  <2>9. CASE point = "failPlan"
    BY <1>1, <2>8, <2>9, NoCursor, QuietSole DEF Aside
  <2>10. CASE point \in {"retire", "existing"}
    <3>1. point \in Working
      BY <2>10 DEF Working, ItemPoints, HandlerPoints
    <3>2. CursorInv(workers'[w])
      BY <2>4, <2>5, <2>8, <2>10, <3>1 DEF CursorInv
    <3> QED
      BY <1>1, <2>8, <3>2, QuietSole
  <2> QED
    BY <2>6, <2>9, <2>10
<1> QED
  BY <1>1, <1>3, <1>4, <1>5

\* The item in work is not settled; the others that are not wait behind it.
LEMMA WorkFacts ==
  ASSUME XInv, NEW w \in Workers, SoleInv(w), workers[w].pc \in Working
  PROVE  LET x == workers[w]
             i == x.local.item
         IN /\ x.pc \in HandlerPoints /\ x.pc \in ItemPoints
            /\ i \in Items /\ ~Settled(i) /\ i \notin recorded
            /\ i \notin x.local.todo /\ x.local.todo \subseteq Items
            /\ \A k \in Items : ~Settled(k) <=> k \in x.local.todo \/ k = i
            /\ \A k \in x.local.todo : i < k
<1>1. workers[w].pc \in HandlerPoints /\ workers[w].pc \in ItemPoints
  BY DEF Working, ItemPoints
<1>2. CursorInv(workers[w]) /\ ClosedInv
  BY DEF SoleInv
<1>3. workers[w].local.item \in Items /\ workers[w].local.todo \subseteq Items
  BY <1>1, HandlerFacts
<1>4. \A k \in Items : k \in Nat
  BY BoundsAssumption DEF XInv, StoreTyped, Ordinals
<1> QED
  BY <1>1, <1>2, <1>3, <1>4 DEF CursorInv, ClosedInv, Settled, SettledStatuses

\* The work on an item goes on, or the plan is left.
LEMMA WorksOn ==
  ASSUME XInv, NEW w \in Workers, SoleInv(w), workers[w].pc \in Working,
         UNCHANGED <<items, recorded>>,
         workers'[w].pc \in Working \cup Aside,
         workers'[w].local.item = workers[w].local.item,
         workers'[w].local.todo = workers[w].local.todo
  PROVE  CursorInv(workers'[w])
<1>1. CASE workers'[w].pc \in Working
  BY <1>1, WorkFacts DEF CursorInv, Working, ItemPoints
<1> QED
  BY <1>1, NoCursor

LEMMA WorksOnSole ==
  ASSUME XInv, NEW w \in Workers, SoleInv(w), workers[w].pc \in Working,
         UNCHANGED <<jobs, plan, items, recorded>>,
         workers'[w].pc \in Working \cup Aside,
         workers'[w].saved = workers[w].saved,
         workers'[w].local.item = workers[w].local.item,
         workers'[w].local.todo = workers[w].local.todo
  PROVE  SoleInv(w)'
BY WorksOn, WorkFacts, QuietSole

\* The status of the item in work is written: it stays in work, or is settled.
LEMMA ItemSole ==
  ASSUME XInv, NEW w \in Workers, SoleInv(w), workers[w].pc \in Working,
         UNCHANGED <<jobs, plan>>,
         NEW status \in ItemStatuses, setItemState(workers[w].local.item, status),
         \/ UNCHANGED recorded
         \/ status = "quarantined" /\ recorded' = recorded \cup {workers[w].local.item},
         workers'[w].pc \in IF status \in SettledStatuses THEN {"checkpoint"} ELSE Working,
         workers'[w].saved = workers[w].saved,
         workers'[w].local.item = workers[w].local.item,
         workers'[w].local.todo = workers[w].local.todo
  PROVE  SoleInv(w)'
<1> DEFINE x == workers[w]
           y == workers'[w]
           i == x.local.item
<1>1. /\ i \in Items /\ ~Settled(i) /\ i \notin recorded
      /\ \A k \in Items : ~Settled(k) <=> k \in x.local.todo \/ k = i
      /\ \A k \in x.local.todo : i < k
      /\ i \notin x.local.todo /\ x.pc \in HandlerPoints
  BY WorkFacts
<1>2. /\ Items' = Items /\ items'[i] = status
      /\ \A k \in Items \ {i} : items'[k] = items[k]
  BY <1>1 DEF XInv, StoreTyped, setItemState, Items
<1>3. /\ \A k \in Items : Settled(k) => items'[k] \in SettledStatuses
      /\ \A k \in Items : items'[k] \notin SettledStatuses <=>
                            k \in x.local.todo \/ (k = i /\ status \notin SettledStatuses)
  BY <1>1, <1>2 DEF Settled
<1>4. ClosedInv'
  <2>1. ClosedInv
    BY DEF SoleInv
  <2>2. plan.status \notin {"completed", "partial"} /\ plan' = plan
    BY <1>1, <2>1 DEF ClosedInv
  <2>3. \A k \in recorded' : k \in Items' /\ items'[k] = "quarantined"
    BY <1>1, <1>2, <2>1 DEF ClosedInv
  <2> QED
    BY <2>2, <2>3 DEF ClosedInv
<1>5. CursorInv(workers[w])'
  <2>1. CASE status \in SettledStatuses
    <3>1. y.pc = "checkpoint"
      BY <2>1
    <3> QED
      BY <1>1, <1>2, <1>3, <2>1, <3>1 DEF CursorInv, Settled, Working
  <2>2. CASE status \notin SettledStatuses
    <3>1. y.pc \in Working
      BY <2>2
    <3> QED
      BY <1>1, <1>2, <1>3, <2>2, <3>1 DEF CursorInv, Settled, Working, ItemPoints
  <2> QED
    BY <2>1, <2>2
<1>6. y.pc \notin Resting => SettledUpTo(y.saved)
  BY <1>1, AwayFromRest DEF SoleInv
<1> QED
  BY <1>2, <1>3, <1>4, <1>5, <1>6, QuietEffect, SettledStay

LEMMA FailItemSole == ASSUME XInv, NEW w \in Workers, SoleInv(w), FailItem(w) PROVE SoleInv(w)'
<1>1. /\ workers[w].pc \in Working /\ Continue(w, "checkpoint", Closed(w))
      /\ setItemState(workers[w].local.item, "failed") /\ UNCHANGED <<jobs, plan, recorded>>
  BY DEF FailItem, At, Working, ItemPoints, HandlerPoints, Item, Local
<1>2. "failed" \in SettledStatuses /\ "failed" \in ItemStatuses
  BY DEF SettledStatuses, ItemStatuses
<1>3. SameWork(workers[w].local, Closed(w))
  BY <1>1, HandlerFacts, ClosedLocal DEF Working, ItemPoints, Local
<1>4. /\ workers'[w].pc = "checkpoint" /\ workers'[w].saved = workers[w].saved
      /\ workers'[w].local.item = workers[w].local.item
      /\ workers'[w].local.todo = workers[w].local.todo
  BY <1>1, <1>3, WentOn DEF SameWork
<1> QED
  BY <1>1, <1>2, <1>4, ItemSole

\* A call to the queue that is accepted.
LEMMA SavedSole ==
  ASSUME XInv, NEW w \in Workers, SoleInv(w), workers[w].pc \in HandlerPoints,
         NEW c \in Checkpoints, SettledUpTo(c), NEW point \in HandlerPoints,
         SaveContext(w, c, point, Local(w)), UNCHANGED <<plan, items, recorded>>,
         \A y : y.pc = point /\ y.local = workers[w].local => CursorInv(y)
  PROVE  SoleInv(w)'
<1> DEFINE x == workers[w]
           y == workers'[w]
<1>1. /\ workers \in [Workers -> Worker(HandlerPoints, AnyLocals)] /\ Linked(x)
      /\ IndInv /\ LinkInv /\ Local(w) \in AnyLocals /\ point \in Points \cup HandlerPoints
  BY HandlerFacts DEF XInv, WorkersTyped, Local
<1>2. /\ Acts(w, {}, {x.job}) /\ jobs'[x.job].checkpoint = c
      /\ y.pc = point /\ y.local = Local(w) /\ y.saved = c
  <2> DEFINE points == HandlerPoints
             locals == AnyLocals
  <2>1. /\ workers \in [Workers -> Worker(points, locals)] /\ Linked(workers[w])
        /\ IndInv /\ LinkInv /\ Local(w) \in locals /\ point \in Points \cup points
    BY <1>1
  <2> HIDE DEF points, locals
  <2> HIDE DEF x, y
  <2>2. SaveContext(w, c, point, Local(w)) /\ c \in Checkpoints
    OBVIOUS
  <2> QED
    BY <2>1, <2>2, SaveContextActs DEF x, y
<1>3. Effect({}, {x.job}) /\ y.local = x.local
  BY <1>2 DEF Acts, Local
<1>4. \A j \in {x.job} : SettledUpTo(jobs'[j].checkpoint)
  BY <1>2
<1> QED
  BY <1>2, <1>3, <1>4, SameItems

LEMMA ReportedSole ==
  ASSUME XInv, NEW w \in Workers, SoleInv(w), workers[w].pc \in HandlerPoints,
         NEW point \in HandlerPoints,
         ReportContext(w, point, Local(w)), UNCHANGED <<plan, items, recorded>>,
         \A y : y.pc = point /\ y.local = workers[w].local => CursorInv(y)
  PROVE  SoleInv(w)'
<1> DEFINE x == workers[w]
           y == workers'[w]
<1>1. /\ workers \in [Workers -> Worker(HandlerPoints, AnyLocals)] /\ Linked(x)
      /\ IndInv /\ LinkInv /\ Local(w) \in AnyLocals /\ point \in Points \cup HandlerPoints
  BY HandlerFacts DEF XInv, WorkersTyped, Local
<1>2. /\ Acts(w, {}, {}) /\ y.pc = point /\ y.local = Local(w) /\ y.saved = x.saved
  BY <1>1, ReportContextActs
<1>3. Effect({}, {}) /\ y.local = x.local
  BY <1>2 DEF Acts, Local
<1>4. SettledUpTo(y.saved)
  BY <1>2, AwayFromRest DEF SoleInv
<1> QED
  BY <1>2, <1>3, <1>4, SameItems

\* The checkpoint is the ordinal of an item that is settled, like all before it.
LEMMA CheckpointSole ==
  ASSUME XInv, NEW w \in Workers, SoleInv(w), Checkpoint(w)
  PROVE  SoleInv(w)'
<1> DEFINE x == workers[w]
<1>1. /\ x.pc = "checkpoint" /\ x.pc \in HandlerPoints
      /\ UNCHANGED <<plan, items, recorded>>
      /\ \/ SaveContext(w, Item(w), "progress", Local(w))
         \/ Goto(w, "failPlan") /\ UNCHANGED jobs
  BY DEF Checkpoint, At, HandlerPoints, store
<1>2. Item(w) \in Checkpoints /\ Item(w) \in Nat /\ \A k \in Items : k \in Nat
  BY <1>1, HandlerFacts, BoundsAssumption DEF AnyLocals, Checkpoints, Item, Local, XInv,
     StoreTyped, Ordinals
<1>3. /\ \A k \in Items : ~Settled(k) <=> k \in x.local.todo
      /\ \A k \in x.local.todo : Item(w) < k
  BY <1>1 DEF SoleInv, CursorInv, ItemPoints, HandlerPoints, Working, Item, Local
<1>4. SettledUpTo(Item(w))
  BY <1>2, <1>3 DEF SettledUpTo
<1>5. \A y : y.pc = "progress" /\ y.local = x.local => CursorInv(y)
  BY <1>3 DEF CursorInv, Working, Item, Local
<1>6. CASE SaveContext(w, Item(w), "progress", Local(w))
  BY <1>1, <1>2, <1>4, <1>5, <1>6, SavedSole DEF HandlerPoints
<1>7. CASE Goto(w, "failPlan") /\ UNCHANGED jobs
  BY <1>1, <1>7, AsideSole DEF Aside
<1> QED
  BY <1>1, <1>6, <1>7

LEMMA ProgressSole == ASSUME XInv, NEW w \in Workers, SoleInv(w), Progress(w) PROVE SoleInv(w)'
<1> DEFINE x == workers[w]
<1>1. /\ x.pc = "progress" /\ x.pc \in HandlerPoints
      /\ UNCHANGED <<plan, items, recorded>>
      /\ \/ ReportContext(w, "next", Local(w))
         \/ Goto(w, "failPlan") /\ UNCHANGED jobs
  BY DEF Progress, At, HandlerPoints, store
<1>2. \A k \in Items : ~Settled(k) <=> k \in x.local.todo
  BY <1>1 DEF SoleInv, CursorInv, ItemPoints, HandlerPoints, Working
<1>3. \A y : y.pc = "next" /\ y.local = x.local => CursorInv(y)
  BY <1>2 DEF CursorInv, Working, ItemPoints
<1>4. CASE ReportContext(w, "next", Local(w))
  BY <1>1, <1>3, <1>4, ReportedSole DEF HandlerPoints
<1>5. CASE Goto(w, "failPlan") /\ UNCHANGED jobs
  BY <1>1, <1>5, AsideSole DEF Aside
<1> QED
  BY <1>1, <1>4, <1>5

\* The plan is closed when every item is settled.
LEMMA CloseSole == ASSUME XInv, NEW w \in Workers, SoleInv(w), Close(w) PROVE SoleInv(w)'
<1> DEFINE status == IF \E i \in Items : items[i] = "failed" THEN "partial" ELSE "completed"
<1>1. /\ workers[w].pc = "close" /\ workers[w].pc \in HandlerPoints
      /\ Goto(w, "receipt") /\ setPlanState(status)
      /\ UNCHANGED <<jobs, items, recorded>>
  BY DEF Close, Step, At, HandlerPoints
<1>2. Items' = Items /\ \A i \in Items : Settled(i)
  BY <1>1 DEF SoleInv, CursorInv, Items
<1>3. plan'.status = status
  BY <1>1 DEF setPlanState, XInv, StoreTyped
<1>4. ClosedInv'
  BY <1>1, <1>2, <1>3 DEF SoleInv, ClosedInv, Settled
<1>5. workers'[w].pc = "receipt" /\ workers'[w].saved = workers[w].saved
  BY <1>1, WentTo
<1>6. CursorInv(workers[w])'
  BY <1>5 DEF CursorInv, ItemPoints
<1>7. \A k \in Items : Settled(k) => items'[k] \in SettledStatuses
  BY <1>1 DEF Settled
<1>8. SettledUpTo(workers'[w].saved)
  BY <1>1, <1>5, AwayFromRest DEF SoleInv
<1> QED
  BY <1>1, <1>2, <1>4, <1>6, <1>7, <1>8, QuietEffect, SettledStay

LEMMA EndSole ==
  ASSUME XInv, NEW w \in Workers, SoleInv(w),
         SaveReceipt(w) \/ SubmitCatalogRefresh(w) \/ FailPlan(w) \/ InterruptPlan(w)
  PROVE  SoleInv(w)'
<1>1. /\ workers[w].pc \in HandlerPoints /\ UNCHANGED <<jobs, items, recorded>>
      /\ \/ \E point \in {"refresh", "finish", "ackPause", "ackCancel"} : Goto(w, point)
         \/ Throw(w, FALSE)
  BY DEF SaveReceipt, SubmitCatalogRefresh, FailPlan, InterruptPlan, Step, At, HandlerPoints
<1>2. plan'.status = plan.status \/ plan'.status \notin {"completed", "partial"}
  BY DEF SaveReceipt, SubmitCatalogRefresh, FailPlan, InterruptPlan, setPlanState, XInv,
         StoreTyped
<1>3. {"refresh", "finish", "ackPause", "ackCancel"} \subseteq Aside
  BY DEF Aside, Points
<1> QED
  BY <1>1, <1>2, <1>3, AsideSole

-----------------------------------------------------------------------------
(* One item: what is written of it before it is done keeps it in work.     *)

\* The work goes on with the same item, without a call or a status.
LEMMA GoesOnSole ==
  ASSUME XInv, NEW w \in Workers, SoleInv(w), workers[w].pc \in Working,
         UNCHANGED <<jobs, plan, items, recorded>>,
         \E point \in Working \cup Aside : Goto(w, point)
  PROVE  SoleInv(w)'
BY WentTo, WorksOnSole

\* Where the gates and the control checks send a worker at an item.
LEMMA GatedWork ==
  ASSUME XInv, NEW to \in Working \cup Aside
  PROVE  Gated(to) \in Working \cup Aside
<1>1. "failItem" \in Working /\ "failPlan" \in Aside
  BY DEF Working, ItemPoints, HandlerPoints, Aside
<1> QED
  BY <1>1, GatedPoint

LEMMA ExistingSole == ASSUME XInv, NEW w \in Workers, SoleInv(w), Existing(w) PROVE SoleInv(w)'
<1> DEFINE i == Item(w)
           to == IF i \in Local(w).verified THEN AfterVerified
                 ELSE IF dest[i] = Absent THEN "source"
                 ELSE IF Good(i, dest[i]) THEN "markVerified" ELSE "failItem"
<1>1. /\ workers[w].pc \in Working /\ Goto(w, Gated(to))
      /\ UNCHANGED <<jobs, plan, items, recorded>>
  BY DEF Existing, OnItem, Step, At, Working, ItemPoints, HandlerPoints
<1>2. to \in {"retire", "markCompleted", "source", "markVerified", "failItem"}
  BY DEF AfterVerified
<1> HIDE DEF to
<1>3. to \in Working \cup Aside
  BY <1>2 DEF Working, ItemPoints, HandlerPoints
<1> QED
  BY <1>1, <1>3, GatedWork, GoesOnSole

LEMMA CheckSourceSole ==
  ASSUME XInv, NEW w \in Workers, SoleInv(w), CheckSource(w)
  PROVE  SoleInv(w)'
<1>1. /\ workers[w].pc \in Working /\ UNCHANGED <<jobs, plan, recorded>>
      /\ \/ Goto(w, "open") /\ setItemState(workers[w].local.item, "copying")
         \/ Goto(w, "failItem") /\ UNCHANGED items
  BY DEF CheckSource, OnItem, Step, At, Working, ItemPoints, HandlerPoints, Item, Local
<1>2. /\ "copying" \notin SettledStatuses /\ "copying" \in ItemStatuses
      /\ "open" \in Working /\ "failItem" \in Working
  BY DEF SettledStatuses, ItemStatuses, Working, ItemPoints, HandlerPoints
<1>3. CASE Goto(w, "open") /\ setItemState(workers[w].local.item, "copying")
  BY <1>1, <1>2, <1>3, WentTo, ItemSole
<1> QED
  BY <1>1, <1>2, <1>3, GoesOnSole

\* The variables of the copy that a step may write.
LEMMA CopyLocals ==
  ASSUME XInv, NEW w \in Workers, workers[w].pc \in Working
  PROVE  /\ SameWork(Local(w), Closed(w))
         /\ \A n : SameWork(Local(w), [Local(w) EXCEPT !.offset = n])
         /\ \A n : SameWork(Local(w), [Local(w) EXCEPT !.handle = n])
         /\ \A b : SameWork(Local(w), [Closed(w) EXCEPT !.again = b])
<1>1. /\ Local(w) \in AnyLocals /\ Closed(w) \in AnyLocals
      /\ SameWork(Local(w), Closed(w))
  BY HandlerFacts, ClosedLocal DEF Working, ItemPoints, Local
<1>2. ASSUME NEW l \in AnyLocals, NEW n, NEW b
      PROVE  /\ SameWork(l, [l EXCEPT !.offset = n])
             /\ SameWork(l, [l EXCEPT !.handle = n])
             /\ SameWork(l, [l EXCEPT !.again = b])
  BY DEF AnyLocals, SameWork
<1> QED
  BY <1>1, <1>2 DEF SameWork

\* The steps that write a copy, open it or make a destination of it.
CopyStep(w) == \/ OpenStaging(w) \/ WriteChunk(w) \/ Truncate(w) \/ Reopen(w)
               \/ Promote(w) \/ FinalCopy(w)

\* Where they lead, always with the same item and the same batch.
CopyStepLeads(w, point) ==
  \/ Goto(w, point)
  \/ \E local : SameWork(Local(w), local) /\ Continue(w, point, local)

LEMMA OpenStagingLeads ==
  ASSUME XInv, NEW w \in Workers, workers[w].pc \in Working, OpenStaging(w)
  PROVE  \E point \in {"failItem", "trim", "truncate", "chunk"} : CopyStepLeads(w, point)
<1> DEFINE i == Item(w)
           new == staging[i] = Absent
           n == IF new THEN Len(disk[i]) + 1 ELSE staging[i]
           size == IF new THEN 0 ELSE disk[i][n].size
           offset == IF size > Size THEN 0 ELSE size
           from == source[i] = "good"
           m1 == [Local(w) EXCEPT !.handle = n]
           m2 == [m1 EXCEPT !.from = from]
           m3 == [m2 EXCEPT !.offset = offset]
           point == IF size > Size THEN "trim" ELSE ChunkOrDone(offset)
<1>1. Goto(w, "failItem") \/ Continue(w, point, m3)
  BY DEF OpenStaging
<1>2. point \in {"trim", "truncate", "chunk"}
  BY ChunkOrDoneType
<1> HIDE DEF point, n, from, offset
<1>3. ASSUME NEW l \in AnyLocals, l = Local(w) PROVE SameWork(l, m3)
  BY <1>3 DEF AnyLocals, SameWork
<1> HIDE DEF m3
<1>4. SameWork(Local(w), m3)
  BY <1>3, HandlerFacts DEF Working, ItemPoints, Local
<1> QED
  BY <1>1, <1>2, <1>4 DEF CopyStepLeads

LEMMA WriteLeads ==
  ASSUME XInv, NEW w \in Workers, workers[w].pc \in Working,
         WriteChunk(w) \/ Truncate(w) \/ Reopen(w)
  PROVE  \E point \in {"failItem", "mark", "chunk", "verifyCopy", "open", "empty"} :
           CopyStepLeads(w, point)
<1>1. \/ \E point \in {"failItem", "chunk"} : Goto(w, point)
      \/ \E point \in {"mark", "chunk", "verifyCopy", "open", "empty"} : \E n, b :
           \/ Continue(w, point, [Local(w) EXCEPT !.offset = n])
           \/ Continue(w, point, [Local(w) EXCEPT !.handle = n])
           \/ Continue(w, point, [Closed(w) EXCEPT !.again = b])
  BY DEF WriteChunk, Truncate, Reopen, Step
<1>2. ASSUME NEW point \in {"mark", "chunk", "verifyCopy", "open", "empty"}, NEW n, NEW b,
             \/ Continue(w, point, [Local(w) EXCEPT !.offset = n])
             \/ Continue(w, point, [Local(w) EXCEPT !.handle = n])
             \/ Continue(w, point, [Closed(w) EXCEPT !.again = b])
      PROVE  CopyStepLeads(w, point)
  <2> DEFINE m1 == [Local(w) EXCEPT !.offset = n]
             m2 == [Local(w) EXCEPT !.handle = n]
             m3 == [Closed(w) EXCEPT !.again = b]
  <2>1. Continue(w, point, m1) \/ Continue(w, point, m2) \/ Continue(w, point, m3)
    BY <1>2
  <2>2. SameWork(Local(w), m1) /\ SameWork(Local(w), m2) /\ SameWork(Local(w), m3)
    BY CopyLocals
  <2> HIDE DEF m1, m2, m3
  <2> QED
    BY <2>1, <2>2 DEF CopyStepLeads
<1> QED
  BY <1>1, <1>2 DEF CopyStepLeads

LEMMA PromoteLeads ==
  ASSUME XInv, NEW w \in Workers, workers[w].pc \in Working, Promote(w) \/ FinalCopy(w)
  PROVE  \E point \in {"committed", "finalCopy", Gated("failItem")} : CopyStepLeads(w, point)
<1> DEFINE m1 == [Closed(w) EXCEPT !.handle = staging[Item(w)]]
           m2 == [m1 EXCEPT !.target = Len(disk[Item(w)]) + 1]
<1>1. \/ Goto(w, Gated("failItem"))
      \/ Continue(w, "committed", Closed(w))
      \/ Continue(w, "finalCopy", m2)
  BY DEF Promote, FinalCopy
<1>2. Local(w) \in AnyLocals /\ Closed(w) \in AnyLocals /\ SameWork(Local(w), Closed(w))
  BY HandlerFacts, ClosedLocal DEF Working, ItemPoints, Local
<1>3. ASSUME NEW l \in AnyLocals, l = Closed(w) PROVE SameWork(l, m2)
  BY <1>3 DEF AnyLocals, SameWork
<1> HIDE DEF m2
<1>4. SameWork(Local(w), m2)
  BY <1>2, <1>3 DEF SameWork
<1> QED
  BY <1>1, <1>2, <1>4 DEF CopyStepLeads

LEMMA CopyStepGoes ==
  ASSUME XInv, NEW w \in Workers, CopyStep(w)
  PROVE  /\ workers[w].pc \in Working /\ UNCHANGED <<jobs, store, source, quarantine>>
         /\ \E point \in {"failItem", "trim", "truncate", "chunk", "mark", "verifyCopy", "open",
                          "empty", "committed", "finalCopy", Gated("failItem")} :
              CopyStepLeads(w, point)
<1>1. \A i, n, c : Overwrite(i, n, c) => UNCHANGED <<source, quarantine>>
  BY DEF Overwrite
<1>2. workers[w].pc \in Working /\ UNCHANGED <<jobs, store, source, quarantine>>
  BY <1>1 DEF CopyStep, OpenStaging, WriteChunk, Truncate, Reopen, Promote, FinalCopy,
              OnlyWorker, Step, At, Working, ItemPoints, HandlerPoints, files
<1> QED
  BY <1>2, OpenStagingLeads, WriteLeads, PromoteLeads DEF CopyStep

LEMMA CopySole ==
  ASSUME XInv, NEW w \in Workers, SoleInv(w), CopyStep(w)
  PROVE  SoleInv(w)'
<1>1. {"failItem", "trim", "truncate", "chunk", "mark", "verifyCopy", "open", "empty",
       "committed", "finalCopy"} \subseteq Working
  BY DEF Working, ItemPoints, HandlerPoints
<1>2. UNCHANGED <<jobs, plan, items, recorded>> /\ workers[w].pc \in Working
  BY CopyStepGoes DEF store
<1>3. Gated("failItem") \in Working \cup Aside
  BY <1>1, GatedWork
<1>4. ASSUME NEW point \in Working \cup Aside, CopyStepLeads(w, point) PROVE SoleInv(w)'
  <2>1. /\ workers'[w].pc = point /\ workers'[w].saved = workers[w].saved
        /\ workers'[w].local.item = workers[w].local.item
        /\ workers'[w].local.todo = workers[w].local.todo
    BY <1>4, WentTo, WentOn DEF CopyStepLeads, SameWork, Local
  <2> QED
    BY <1>2, <2>1, WorksOnSole
<1> QED
  BY <1>1, <1>3, <1>4, CopyStepGoes

LEMMA CheckChunkSole ==
  ASSUME XInv, NEW w \in Workers, SoleInv(w), CheckChunk(w)
  PROVE  SoleInv(w)'
<1>1. /\ workers[w].pc \in Working /\ UNCHANGED <<jobs, plan, items, recorded>>
      /\ \/ \E end \in {"failItem", "failPlan", "cancelPlan", "pausePlan"} : Goto(w, end)
         \/ Goto(w, Gated("write"))
  BY DEF CheckChunk, Controlled, OnlyWorker, At, Working, ItemPoints, HandlerPoints, store
<1>2. {"failItem", "failPlan", "cancelPlan", "pausePlan", "write"} \subseteq Working \cup Aside
  BY DEF Working, ItemPoints, HandlerPoints, Aside
<1>3. Gated("write") \in Working \cup Aside
  BY <1>2, GatedWork
<1> QED
  BY <1>1, <1>2, <1>3, GoesOnSole

LEMMA MarkBytesSole ==
  ASSUME XInv, NEW w \in Workers, SoleInv(w), MarkBytes(w)
  PROVE  SoleInv(w)'
<1>1. /\ workers[w].pc \in Working /\ UNCHANGED <<jobs, plan, recorded>>
      /\ Goto(w, "bytes") /\ setItemState(workers[w].local.item, "copying")
  BY DEF MarkBytes, OnItem, Step, At, Working, ItemPoints, HandlerPoints, Item, Local
<1>2. /\ "copying" \notin SettledStatuses /\ "copying" \in ItemStatuses
      /\ "bytes" \in Working
  BY DEF SettledStatuses, ItemStatuses, Working, ItemPoints, HandlerPoints
<1> QED
  BY <1>1, <1>2, WentTo, ItemSole

\* The byte checkpoint has no ordinal: the next attempt starts from the first item.
LEMMA SaveBytesSole ==
  ASSUME XInv, NEW w \in Workers, SoleInv(w), SaveBytes(w)
  PROVE  SoleInv(w)'
<1>1. /\ workers[w].pc \in Working /\ UNCHANGED <<plan, items, recorded>>
      /\ \/ SaveContext(w, 0, "beat", Local(w))
         \/ \E point \in {"truncate", "chunk"} : ReportContext(w, point, Local(w))
         \/ Goto(w, "failItem") /\ UNCHANGED jobs
  BY DEF SaveBytes, ChunkOrDone, At, Working, ItemPoints, HandlerPoints, store
<1>2. {"beat", "truncate", "chunk", "failItem"} \subseteq Working
  BY DEF Working, ItemPoints, HandlerPoints
<1>3. Working \subseteq HandlerPoints /\ 0 \in Checkpoints
  BY BoundsAssumption DEF Working, ItemPoints, Checkpoints
<1>4. ASSUME NEW point \in Working
      PROVE  \A y : y.pc = point /\ y.local = workers[w].local => CursorInv(y)
  BY <1>1, WorkFacts DEF CursorInv, Working, ItemPoints
<1>5. CASE SaveContext(w, 0, "beat", Local(w))
  BY <1>1, <1>2, <1>3, <1>4, <1>5, NothingBefore, SavedSole
<1>6. ASSUME NEW point \in {"truncate", "chunk"}, ReportContext(w, point, Local(w))
      PROVE  SoleInv(w)'
  BY <1>1, <1>2, <1>3, <1>4, <1>6, ReportedSole
<1> QED
  BY <1>1, <1>2, <1>5, <1>6, GoesOnSole

\* VerifyCopy, Committed, Move, Moved: files only.
LEMMA FilesSole ==
  ASSUME XInv, NEW w \in Workers, SoleInv(w),
         VerifyCopy(w) \/ Committed(w) \/ Move(w) \/ Moved(w)
  PROVE  SoleInv(w)'
<1> DEFINE onward == {"promote", "reopen", "failItem", "markVerified", "moved", "record",
                      Gated("failItem")}
<1>1. /\ workers[w].pc \in Working /\ UNCHANGED <<jobs, plan, items, recorded>>
      /\ \E point \in onward : Goto(w, point)
  BY DEF VerifyCopy, OnlyWorker, Committed, Move, Moved, OnItem, Step, At, Working, ItemPoints,
         HandlerPoints, store
<1>2. onward \ {Gated("failItem")} \subseteq Working
  BY DEF Working, ItemPoints, HandlerPoints
<1>3. Gated("failItem") \in Working \cup Aside
  BY GatedWork DEF Working, ItemPoints, HandlerPoints
<1> HIDE DEF onward
<1> QED
  BY <1>1, <1>2, <1>3, GoesOnSole

LEMMA MarkSole ==
  ASSUME XInv, NEW w \in Workers, SoleInv(w), MarkVerified(w) \/ MarkCompleted(w)
  PROVE  SoleInv(w)'
<1>1. /\ workers[w].pc \in Working /\ UNCHANGED <<jobs, plan, recorded>>
      /\ \/ /\ \E point \in {"retire", "markCompleted"} : Goto(w, point)
            /\ setItemState(workers[w].local.item, "verified")
         \/ Goto(w, "checkpoint") /\ setItemState(workers[w].local.item, "completed")
  BY DEF MarkVerified, MarkCompleted, AfterVerified, OnItem, Step, At, Working, ItemPoints,
         HandlerPoints, Item, Local
<1>2. /\ "verified" \notin SettledStatuses /\ "completed" \in SettledStatuses
      /\ "verified" \in ItemStatuses /\ "completed" \in ItemStatuses
      /\ {"retire", "markCompleted"} \subseteq Working
  BY DEF SettledStatuses, ItemStatuses, Working, ItemPoints, HandlerPoints
<1>3. ASSUME NEW point \in {"retire", "markCompleted"}, Goto(w, point),
             setItemState(workers[w].local.item, "verified")
      PROVE  SoleInv(w)'
  BY <1>1, <1>2, <1>3, WentTo, ItemSole
<1>4. CASE Goto(w, "checkpoint") /\ setItemState(workers[w].local.item, "completed")
  BY <1>1, <1>2, <1>4, WentTo, ItemSole
<1> QED
  BY <1>1, <1>3, <1>4

\* An item that has its record is quarantined, and not in work again.
LEMMA RetireSole == ASSUME XInv, NEW w \in Workers, SoleInv(w), Retire(w) PROVE SoleInv(w)'
<1> DEFINE i == Item(w)
           found == CASE source[i] = "good" -> "move"
                      [] source[i] = "absent" /\ quarantine[i] = "good" -> "record"
                      [] OTHER -> "failItem"
<1>1. /\ workers[w].pc \in Working /\ UNCHANGED <<jobs, plan, items, recorded>>
      /\ Goto(w, IF i \in recorded THEN RecordFound ELSE Gated(found))
  BY DEF Retire, OnItem, Step, At, Working, ItemPoints, HandlerPoints
<1>2. i \notin recorded
  BY <1>1, WorkFacts DEF Item, Local
<1>3. found \in {"move", "record", "failItem"}
  OBVIOUS
<1> HIDE DEF found
<1>4. Gated(found) \in Working \cup Aside
  <2>1. found \in Working \cup Aside
    BY <1>3 DEF Working, ItemPoints, HandlerPoints
  <2> QED
    BY <2>1, GatedWork
<1> QED
  BY <1>1, <1>2, <1>4, GoesOnSole

LEMMA RecordSole ==
  ASSUME XInv, NEW w \in Workers, SoleInv(w), RecordQuarantine(w)
  PROVE  SoleInv(w)'
<1>1. /\ workers[w].pc \in Working /\ UNCHANGED <<jobs, plan>>
      /\ \/ /\ Goto(w, "checkpoint")
            /\ recorded' = recorded \cup {workers[w].local.item}
            /\ setItemState(workers[w].local.item, "quarantined")
         \/ Goto(w, "failItem") /\ UNCHANGED <<recorded, items>>
  BY DEF RecordQuarantine, Step, At, Working, ItemPoints, HandlerPoints, Item, Local
<1>2. /\ "quarantined" \in SettledStatuses /\ "quarantined" \in ItemStatuses
      /\ "failItem" \in Working
  BY DEF SettledStatuses, ItemStatuses, Working, ItemPoints, HandlerPoints
<1>3. CASE /\ Goto(w, "checkpoint")
           /\ recorded' = recorded \cup {workers[w].local.item}
           /\ setItemState(workers[w].local.item, "quarantined")
  BY <1>1, <1>2, <1>3, WentTo, ItemSole
<1> QED
  BY <1>1, <1>2, <1>3, GoesOnSole

-----------------------------------------------------------------------------
(* The process, and everybody else.                                        *)

\* A pause writes the checkpoint that the attempt has saved.
LEMMA ProcessSole ==
  ASSUME XInv, NEW w \in Workers, SoleInv(w), ProcessMoves(w), UNCHANGED <<store, files>>
  PROVE  SoleInv(w)'
<1> DEFINE x == workers[w]
           y == workers'[w]
           done == IF x.pc = "complete" THEN {x.job} ELSE {}
           saved == IF x.pc = "ackPause" THEN {x.job} ELSE {}
<1>1. /\ workers \in [Workers -> Worker(HandlerPoints, AnyLocals)] /\ IndInv /\ LinkInv
      /\ NoLocal \in AnyLocals /\ x \in Worker(HandlerPoints, AnyLocals)
      /\ UNCHANGED <<plan, items, recorded>>
  BY NoLocalType DEF XInv, WorkersTyped, store
<1>2. /\ Effect(done, saved)
      /\ x.pc = "ackPause" /\ jobs' # jobs => jobs'[x.job].checkpoint = x.saved
      /\ y.pc \in Resting \/ Answers(x, y)
  BY <1>1, ProcessMovesActs DEF ProcessActs, Acts
<1>3. ASSUME NEW j \in saved PROVE SettledUpTo(jobs'[j].checkpoint)
  <2>1. j = x.job /\ x.pc = "ackPause" /\ j \in Ids
    BY <1>1, <1>3 DEF LinkInv, LinkOK, Linked
  <2>2. SettledUpTo(x.saved) /\ SettledUpTo(jobs[j].checkpoint)
    BY <2>1 DEF SoleInv, RowsSettled, Resting
  <2>3. jobs'[j].checkpoint \in {x.saved, jobs[j].checkpoint}
    BY <1>2, <2>1
  <2> QED
    BY <2>2, <2>3
<1>4. y.pc \notin Resting => SettledUpTo(y.saved)
  <2> SUFFICES ASSUME y.pc \notin Resting PROVE SettledUpTo(y.saved)
    OBVIOUS
  <2>1. x.pc = "finish" /\ y.saved = x.saved
    BY <1>1, <1>2 DEF Answers, Worker
  <2> QED
    BY <2>1 DEF SoleInv, Resting
<1>5. CursorInv(y)
  <2>1. y.pc \in Aside
    BY <1>2 DEF Answers, Resting, Aside, Points
  <2> QED
    BY <2>1, NoCursor
<1> HIDE DEF done, saved
<1> QED
  BY <1>1, <1>2, <1>3, <1>4, <1>5, SameItems

LEMMA CrashSole ==
  ASSUME XInv, NEW w \in Workers, SoleInv(w), Crash(w), UNCHANGED <<store, files>>
  PROVE  SoleInv(w)'
<1>1. /\ UNCHANGED <<jobs, plan, items, recorded>> /\ workers'[w].pc = "down"
  <2>1. workers \in [Workers -> Worker(HandlerPoints, AnyLocals)] /\ NoLocal \in AnyLocals
    BY NoLocalType DEF XInv, WorkersTyped
  <2> QED
    BY <2>1, DieActs DEF Crash, Die, store
<1>2. workers'[w].pc \in Resting /\ CursorInv(workers'[w])
  BY <1>1, NoCursor DEF Resting, Aside, Points
<1> QED
  BY <1>1, <1>2, QuietEffect, SameItems

\* No step of the clients, the clock or the server writes a checkpoint or an item.
LEMMA ClientsSole ==
  ASSUME XInv, NEW w \in Workers, SoleInv(w), UNCHANGED <<workers, items, recorded>>,
         plan'.status = plan.status \/ plan'.status \notin {"completed", "partial"},
         \/ UNCHANGED jobs
         \/ Tick
         \/ \E s \in Submissions : Submit(s)
         \/ \E j \in Ids : RequestPause(j) \/ Resume(j) \/ Cancel(j)
  PROVE  SoleInv(w)'
<1>1. IndInv
  BY DEF XInv
<1>2. Effect({}, {})
  BY <1>1, QuietEffect, TickEffect, SubmitEffect, ControlEffect
<1>3. /\ CursorInv(workers'[w])
      /\ workers'[w].pc \notin Resting => SettledUpTo(workers'[w].saved)
  BY DEF SoleInv
<1> QED
  BY <1>2, <1>3, SameItems

LEMMA SoleInvInit == ASSUME XInit, NEW w \in Workers PROVE SoleInv(w)
<1>1. workers[w].pc = "recover"
  BY DEF XInit, ProcessInit, Idle, Fresh
<1>2. CursorInv(workers[w]) /\ workers[w].pc \in Resting
  BY <1>1, NoCursor DEF Aside, Points, Resting
<1>3. plan.status = "ready-for-approval" /\ recorded = {} /\ Ids = {}
  BY DEF XInit, ProcessInit, Init, Ids
<1>4. ClosedInv /\ RowsSettled
  BY <1>3 DEF ClosedInv, RowsSettled
<1> QED
  BY <1>2, <1>4 DEF SoleInv

LEMMA SoleInvNext ==
  ASSUME NEW x, Workers = {x}, XInv, SoleInv(x), [XNext]_vars
  PROVE  SoleInv(x)'
<1>1. CASE Server
  <2>1. UNCHANGED <<workers, items, recorded>>
    BY <1>1 DEF Server
  <2>2. plan'.status = plan.status \/ plan'.status \notin {"completed", "partial"}
    BY <1>1 DEF Server, ApproveRead, ApproveWrite, ApproveSubmit, ApproveQueued, setPlanState,
                XInv, StoreTyped
  <2>3. UNCHANGED jobs \/ \E s \in Submissions : Submit(s)
    BY <1>1 DEF Server, ApproveRead, ApproveWrite, ApproveSubmit, ApproveQueued
  <2> QED
    BY <2>1, <2>2, <2>3, ClientsSole
<1>2. CASE RunMoves(x)
  BY <1>2, LoadSole, BeginSole, StartSole, BatchSole, TakeItemSole, FailItemSole,
     CheckpointSole, ProgressSole, CloseSole, EndSole DEF RunMoves
<1>3. CASE ItemMoves(x)
  BY <1>3, ExistingSole, CheckSourceSole, CheckChunkSole, CopySole, MarkBytesSole,
     SaveBytesSole, FilesSole, MarkSole, RetireSole, RecordSole DEF ItemMoves, CopyStep
<1>4. CASE Crash(x) /\ UNCHANGED <<store, files, outside>>
  BY <1>4, CrashSole
<1>5. CASE Tick /\ UNCHANGED <<workers, crashes, store, files, outside>>
  BY <1>5, ClientsSole DEF store
<1>6. CASE User /\ UNCHANGED <<workers, crashes, store, approvals>>
  <2>1. UNCHANGED jobs \/ \E j \in Ids : RequestPause(j) \/ Resume(j) \/ Cancel(j)
    BY <1>6 DEF User, Control
  <2> QED
    BY <1>6, <2>1, ClientsSole DEF store
<1>7. CASE UNCHANGED vars
  BY <1>7, ClientsSole DEF vars, store
<1>8. CASE ProcessMoves(x) /\ UNCHANGED <<store, files>>
  BY <1>8, ProcessSole
<1> QED
  BY <1>1, <1>2, <1>3, <1>4, <1>5, <1>6, <1>7, <1>8 DEF XNext, WorkerMoves

\* TransferExecutionEngine.run of src/transfer/transfer-job.ts: a plan that is reported
\* completed has no item left to do, wherever its one worker was interrupted, resumed,
\* paused or killed, and whatever the checkpoint it went on from.
THEOREM CompletedPlansDone ==
  ASSUME NEW x, Workers = {x} PROVE XSpec => []CompletedPlanIsDone
<1>1. XInit => SoleInv(x)
  BY SoleInvInit
<1>2. XInv /\ SoleInv(x) /\ [XNext]_vars => SoleInv(x)'
  BY SoleInvNext
<1>3. XInv /\ SoleInv(x) => CompletedPlanIsDone
  BY DEF SoleInv, ClosedInv, CompletedPlanIsDone, Settled, SettledStatuses
<1> QED
  BY <1>1, <1>2, <1>3, XInductive, PTL DEF XSpec

-----------------------------------------------------------------------------
(* A source that was moved has its record.  With the gate open, a worker   *)
(* that fails an item has looked for a moved file and found none.          *)

Copying == {"source", "open", "trim", "chunk", "write", "mark", "bytes", "beat", "truncate",
            "verifyCopy", "reopen", "empty", "promote", "finalCopy", "committed"}

\* A source in quarantine that has no record, and nothing in its place.
Loose(i) == quarantine[i] = "good" /\ i \notin recorded \cup refilled

\* It waits for a worker that looks for it.
Waits(i) == ~Settled(i) /\ (Kind = "retire" => items[i] = "verified")

\* What the batch says of an item is still so.
Seen(x, k) == k \in x.local.verified <=> items[k] = "verified"

\* What the point at which a worker is says of the file it may have moved.
PointInv(x) ==
  LET i == x.local.item
  IN /\ x.pc \in Copying \cup {"existing", "markVerified"} => Kind # "consolidate"
     /\ x.pc \in {"retire", "move", "moved", "record"} =>
          Kind # "copy" /\ (Kind = "retire" => items[i] = "verified")
     /\ x.pc = "markCompleted" => Kind = "copy"
     /\ x.pc \in Copying \cup {"failItem", "move"} => ~Loose(i)
     /\ x.pc \in ItemPoints \cup {"next"} => \A k \in x.local.todo : Seen(x, k)
     /\ x.pc = "existing" => Seen(x, i)

MoveInv(w) ==
  /\ gate = "open"
  /\ Kind = "copy" => \A i \in Items : quarantine[i] = "absent"
  /\ \A i \in Items : Loose(i) => Waits(i)
  /\ PointInv(workers[w])

\* Where a worker has neither an item nor a batch.
Between == Aside \cup {"batch", "close"}

LEMMA NoPoint == ASSUME NEW x, x.pc \in Between PROVE PointInv(x)
BY DEF Between, Aside, Points, PointInv, Copying, ItemPoints, HandlerPoints

\* A step that moves no file into quarantine, and writes no item of a loose one.
LEMMA MovesOn ==
  ASSUME NEW w, MoveInv(w), UNCHANGED <<gate, quarantine, recorded>>,
         refilled \subseteq refilled', Kind' = Kind, Items' = Items,
         \A k \in Items : Loose(k) => items'[k] = items[k] \/ items'[k] = "verified",
         PointInv(workers[w])'
  PROVE  MoveInv(w)'
<1>1. \A k \in Items : Loose(k)' => Loose(k)
  BY DEF Loose
<1>2. "verified" \notin SettledStatuses
  BY DEF SettledStatuses
<1>3. \A k \in Items' : Loose(k)' => Waits(k)'
  BY <1>1, <1>2 DEF MoveInv, Waits, Settled
<1> QED
  BY <1>3 DEF MoveInv

LEMMA SameMoves ==
  ASSUME NEW w, MoveInv(w), UNCHANGED <<gate, quarantine, recorded, items>>,
         refilled \subseteq refilled', Kind' = Kind, Items' = Items, PointInv(workers'[w])
  PROVE  MoveInv(w)'
<1>1. \A k : Loose(k)' => Loose(k)
  BY DEF Loose
<1>2. \A k : Seen(workers[w], k)' <=> Seen(workers'[w], k)
  BY DEF Seen
<1>3. PointInv(workers[w])'
  BY <1>1, <1>2 DEF PointInv
<1> QED
  BY <1>3, MovesOn

\* A step that leads away from the items.
LEMMA LeavesMoves ==
  ASSUME XInv, NEW w \in Workers, MoveInv(w), Kind' = Kind, Items' = Items,
         UNCHANGED <<gate, refilled, quarantine, recorded, items>>,
         \/ \E point \in Between :
              \/ Goto(w, point)
              \/ \E local : Continue(w, point, local)
         \/ \E retry : Throw(w, retry)
  PROVE  MoveInv(w)'
<1>1. "fail" \in Between
  BY DEF Between, Aside, Points
<1>2. workers'[w].pc \in Between
  BY <1>1, Went, Thrown
<1> QED
  BY <1>2, NoPoint, SameMoves

LEMMA BatchMoves ==
  ASSUME XInv, NEW w \in Workers, MoveInv(w), Kind' = Kind, Items' = Items,
         UNCHANGED <<gate, refilled>>, Batch(w)
  PROVE  MoveInv(w)'
<1> DEFINE x == workers[w]
           work == WorkItems(x.local.item)
           verified == {i \in work : items[i] = "verified"}
           point == IF work = {} THEN "close" ELSE "next"
           local == BatchOf(x.local, work, verified)
<1>1. /\ x.pc \in HandlerPoints /\ UNCHANGED <<quarantine, recorded, items>>
      /\ \/ \E end \in {"failPlan", "cancelPlan", "pausePlan"} : Goto(w, end)
         \/ Continue(w, point, local)
  BY DEF Batch, At, HandlerPoints, OnlyWorker, Controlled, store, files, Item, Local, BatchOf
<1>2. {"failPlan", "cancelPlan", "pausePlan"} \subseteq Between
  BY DEF Between, Aside
<1>3. CASE Continue(w, point, local)
  <2>1. x.local \in AnyLocals /\ work \in SUBSET Ordinals
    BY <1>1, HandlerFacts DEF WorkItems, XInv, StoreTyped
  <2>2. verified \in SUBSET Ordinals /\ \A k \in work : k \in verified <=> items[k] = "verified"
    BY <2>1
  <2>3. point \in {"close", "next"}
    OBVIOUS
  <2> HIDE DEF work, verified, point
  <2>4. local.todo = work /\ local.verified = verified
    BY <2>1, <2>2, BatchLocal
  <2> HIDE DEF local
  <2>5. workers'[w].pc = point /\ workers'[w].local = local
    BY <1>3, WentOn
  <2>6. PointInv(workers'[w])
    BY <2>2, <2>3, <2>4, <2>5 DEF PointInv, Seen, Copying, ItemPoints, HandlerPoints
  <2> QED
    BY <1>1, <2>6, SameMoves
<1> QED
  BY <1>1, <1>2, <1>3, LeavesMoves

\* The run around the items: no file and no item, but for the one that is taken or fails.
LEMMA RunStepMoves ==
  ASSUME XInv, NEW w \in Workers, MoveInv(w), Kind' = Kind, Items' = Items,
         UNCHANGED <<gate, refilled>>,
         \/ Load(w) \/ Begin(w) \/ Start(w) \/ Checkpoint(w) \/ Progress(w)
         \/ Close(w) \/ SaveReceipt(w) \/ SubmitCatalogRefresh(w) \/ FailPlan(w)
         \/ InterruptPlan(w)
  PROVE  MoveInv(w)'
<1>1. UNCHANGED <<quarantine, recorded, items>>
  BY DEF Load, Begin, Start, Checkpoint, Progress, Close, SaveReceipt,
         SubmitCatalogRefresh, FailPlan, InterruptPlan, OnlyWorker, store, files
<1>2. {"begin", "start", "batch", "receipt", "refresh", "finish", "failPlan", "ackPause",
       "ackCancel"} \subseteq Between
  BY DEF Between, Aside, Points
<1>3. CASE Load(w)
  <2>1. /\ LoadJob(w, "begin", NoLocal) /\ At(w, "load") /\ NoLocal \in AnyLocals
        /\ workers \in [Workers -> Worker(HandlerPoints, AnyLocals)] /\ IndInv /\ LinkInv
        /\ "begin" \in Points \cup HandlerPoints
    BY <1>3, NoLocalType DEF Load, LoadJob, XInv, WorkersTyped, HandlerPoints
  <2>2. workers'[w].pc \in {"down", "begin"}
    BY <2>1, LoadJobActs
  <2>3. workers'[w].pc \in Between
    BY <2>2 DEF Between, Aside, Points
  <2> QED
    BY <1>1, <2>3, NoPoint, SameMoves
<1>4. CASE Begin(w)
  <2>1. (\E point \in {"finish", "start", "failPlan"} : Goto(w, point)) \/ Throw(w, FALSE)
    BY <1>4 DEF Begin
  <2> QED
    BY <1>1, <1>2, <2>1, LeavesMoves
<1>5. CASE Start(w)
  BY <1>1, <1>2, <1>5, LeavesMoves DEF Start
<1>6. CASE Checkpoint(w) \/ Progress(w)
  <2>1. \/ SaveContext(w, Item(w), "progress", Local(w))
        \/ ReportContext(w, "next", Local(w))
        \/ Goto(w, "failPlan")
    BY <1>6 DEF Checkpoint, Progress
  <2>2. workers[w].pc \in {"checkpoint", "progress"}
    BY <1>6 DEF Checkpoint, Progress, SaveContext, ReportContext, At
  <2>3. ASSUME workers'[w].pc \in {"next", "progress"}, workers'[w].local = workers[w].local
        PROVE  MoveInv(w)'
    <3>1. PointInv(workers'[w])
      BY <2>2, <2>3 DEF MoveInv, PointInv, Seen, Copying, ItemPoints, HandlerPoints
    <3> QED
      BY <1>1, <3>1, SameMoves
  <2>4. CASE Goto(w, "failPlan")
    BY <1>1, <1>2, <2>4, LeavesMoves
  <2> QED
    BY <2>1, <2>3, <2>4, CallGoes
<1>7. CASE Close(w) \/ SaveReceipt(w) \/ SubmitCatalogRefresh(w) \/ FailPlan(w)
            \/ InterruptPlan(w)
  <2>1. \/ \E point \in {"receipt", "refresh", "finish", "ackPause", "ackCancel"} :
             Goto(w, point)
        \/ Throw(w, FALSE)
    BY <1>7 DEF Close, SaveReceipt, SubmitCatalogRefresh, FailPlan, InterruptPlan, Step
  <2> QED
    BY <1>1, <1>2, <2>1, LeavesMoves
<1> QED
  BY <1>3, <1>4, <1>5, <1>6, <1>7

LEMMA TakeItemMoves ==
  ASSUME XInv, NEW w \in Workers, MoveInv(w), Kind' = Kind, Items' = Items,
         UNCHANGED <<gate, refilled>>, TakeItem(w)
  PROVE  MoveInv(w)'
<1> DEFINE x == workers[w]
           i == CHOOSE i \in x.local.todo : \A k \in x.local.todo : i <= k
           rest == x.local.todo \ {i}
           local == ItemOf(x.local, i, rest)
<1>1. /\ x.pc = "next" /\ x.pc \in HandlerPoints /\ UNCHANGED <<quarantine, recorded, items>>
      /\ \/ \E end \in {"batch", "failPlan", "cancelPlan", "pausePlan"} : Goto(w, end)
         \/ x.local.todo # {} /\ Continue(w, FirstPoint, local)
  BY DEF TakeItem, OnlyWorker, store, files, Controlled, At, HandlerPoints, MoveInv, Local,
         ItemOf
<1>2. {"batch", "failPlan", "cancelPlan", "pausePlan"} \subseteq Between
  BY DEF Between, Aside
<1>3. CASE x.local.todo # {} /\ Continue(w, FirstPoint, local)
  <2>1. x.local \in AnyLocals /\ x.local.todo \in SUBSET Ordinals /\ Ordinals \subseteq Nat
    BY <1>1, HandlerFacts DEF AnyLocals, Ordinals
  <2>2. \E k \in x.local.todo : \A l \in x.local.todo : k <= l
    BY <1>3, <2>1, LeastElement
  <2>3. i \in x.local.todo
    BY <2>2
  <2> HIDE DEF i
  <2>4. i \in Ordinals /\ rest \in SUBSET Ordinals /\ rest \subseteq x.local.todo
    BY <2>1, <2>3
  <2> HIDE DEF rest
  <2>5. local.item = i /\ local.todo = rest /\ local.verified = x.local.verified
    BY <2>1, <2>4, ItemLocal
  <2> HIDE DEF local
  <2>6. workers'[w].pc = FirstPoint /\ workers'[w].local = local
    BY <1>3, WentOn
  <2>7. \A k \in x.local.todo : Seen(workers'[w], k)
    BY <1>1, <2>5, <2>6 DEF MoveInv, PointInv, Seen
  <2>8. PointInv(workers'[w])
    <3>1. CASE Kind = "consolidate"
      <4>1. workers'[w].pc = "retire"
        BY <2>6, <3>1 DEF FirstPoint
      <4> QED
        BY <2>4, <2>5, <2>6, <2>7, <3>1, <4>1 DEF PointInv, Copying
    <3>2. CASE Kind # "consolidate"
      <4>1. workers'[w].pc = "existing"
        BY <2>6, <3>2 DEF FirstPoint
      <4> QED
        BY <2>3, <2>4, <2>5, <2>6, <2>7, <3>2, <4>1 DEF PointInv, Copying
    <3> QED
      BY <3>1, <3>2
  <2> QED
    BY <1>1, <2>8, SameMoves
<1> QED
  BY <1>1, <1>2, <1>3, LeavesMoves

-----------------------------------------------------------------------------
(* One item, while the gate is open.                                       *)

\* The item in work, and what the files say of a move that was made before.
LEMMA MoveFacts ==
  ASSUME XInv, NEW w \in Workers, SoleInv(w), MoveInv(w), workers[w].pc \in Working
  PROVE  LET x == workers[w]
             i == x.local.item
         IN /\ i \in Items /\ i \notin recorded /\ ~Settled(i) /\ PointInv(x)
            /\ Kind \in PlanKinds
            /\ i \notin x.local.todo /\ \A k \in x.local.todo : Seen(x, k)
            /\ source[i] # "absent" => ~Loose(i)
            /\ Kind = "copy" => ~Loose(i)
            /\ Kind = "retire" /\ items[i] # "verified" => ~Loose(i)
            /\ \A to : Gated(to) = to
<1>1. /\ workers[w].local.item \in Items /\ workers[w].local.item \notin recorded
      /\ ~Settled(workers[w].local.item) /\ workers[w].pc \in ItemPoints
      /\ workers[w].local.item \notin workers[w].local.todo
  BY WorkFacts
<1>2. Kind \in PlanKinds /\ FileInv
  BY DEF XInv, StoreTyped, Kind
<1>3. \A to : Gated(to) = to
  BY DEF MoveInv, Gated
<1>4. \A k \in workers[w].local.todo : Seen(workers[w], k)
  BY <1>1 DEF MoveInv, PointInv
<1>5. source[workers[w].local.item] # "absent" => ~Loose(workers[w].local.item)
  BY <1>1, <1>2 DEF FileInv, Loose
<1> QED
  BY <1>1, <1>2, <1>3, <1>4, <1>5 DEF MoveInv, Loose, Waits

\* The work on an item goes on at another point, and no item is written.
LEMMA GoesOnMoves ==
  ASSUME XInv, NEW w \in Workers, SoleInv(w), MoveInv(w), Kind' = Kind, Items' = Items,
         UNCHANGED <<gate, refilled, quarantine, recorded, items>>,
         workers[w].pc \in Working, SameWork(workers[w].local, workers'[w].local),
         LET i == workers[w].local.item
             to == workers'[w].pc
         IN /\ to # "existing"
            /\ to \in Copying \cup {"markVerified"} => Kind # "consolidate"
            /\ to \in {"retire", "move", "moved", "record"} =>
                 Kind # "copy" /\ (Kind = "retire" => items[i] = "verified")
            /\ to = "markCompleted" => Kind = "copy"
            /\ to \in Copying \cup {"failItem", "move"} => ~Loose(i)
  PROVE  MoveInv(w)'
<1>1. \A k \in workers[w].local.todo : Seen(workers[w], k)
  BY MoveFacts
<1>2. PointInv(workers'[w])
  BY <1>1 DEF PointInv, SameWork, Seen
<1> QED
  BY <1>2, SameMoves

\* The copy goes on: what holds of the item at one of its points holds at the next.
LEMMA CopyOnMoves ==
  ASSUME XInv, NEW w \in Workers, SoleInv(w), MoveInv(w), Kind' = Kind, Items' = Items,
         UNCHANGED <<gate, refilled, quarantine, recorded, items>>,
         workers[w].pc \in Copying,
         NEW point \in Copying \cup {"failItem", "markVerified"} \cup Between,
         \/ Goto(w, point)
         \/ \E local : SameWork(Local(w), local) /\ Continue(w, point, local)
         \/ \E c : SaveContext(w, c, point, Local(w))
         \/ ReportContext(w, point, Local(w))
  PROVE  MoveInv(w)'
<1>1. workers'[w].pc = point /\ SameWork(workers[w].local, workers'[w].local)
  BY WentTo, WentOn, CallGoes DEF SameWork, Local
<1>2. workers[w].pc \in Working /\ Kind # "consolidate" /\ ~Loose(workers[w].local.item)
  BY DEF MoveInv, PointInv, Copying, Working, ItemPoints, HandlerPoints
<1>3. CASE point \in Between
  BY <1>1, <1>3, NoPoint, SameMoves
<1>4. CASE point \in Copying \cup {"failItem", "markVerified"}
  BY <1>1, <1>2, <1>4, GoesOnMoves DEF Copying
<1> QED
  BY <1>3, <1>4

LEMMA ExistingMoves ==
  ASSUME XInv, NEW w \in Workers, SoleInv(w), MoveInv(w), Kind' = Kind, Items' = Items,
         UNCHANGED <<gate, refilled>>, Existing(w)
  PROVE  MoveInv(w)'
<1> DEFINE x == workers[w]
           i == x.local.item
           to == IF i \in x.local.verified THEN AfterVerified
                 ELSE IF dest[i] = Absent THEN "source"
                 ELSE IF Good(i, dest[i]) THEN "markVerified" ELSE "failItem"
<1>1. /\ x.pc = "existing" /\ x.pc \in Working /\ Goto(w, Gated(to))
      /\ UNCHANGED <<quarantine, recorded, items>>
  BY DEF Existing, OnItem, Step, At, Item, Local, Working, ItemPoints, HandlerPoints
<1>2. /\ Gated(to) = to /\ PointInv(x) /\ Kind \in PlanKinds
      /\ Kind = "copy" \/ (Kind = "retire" /\ items[i] # "verified") => ~Loose(i)
  BY <1>1, MoveFacts
<1>3. Kind \in {"copy", "retire"} /\ Seen(x, i)
  BY <1>1, <1>2 DEF PointInv, PlanKinds
<1>4. /\ to \in {"retire", "markCompleted", "source", "markVerified", "failItem"}
      /\ to = "retire" => Kind = "retire" /\ items[i] = "verified"
      /\ to = "markCompleted" => Kind = "copy"
      /\ to \in {"source", "failItem"} => ~Loose(i)
  BY <1>2, <1>3 DEF AfterVerified, Seen
<1> HIDE DEF to
<1>5. workers'[w].pc = to /\ SameWork(x.local, workers'[w].local)
  BY <1>1, <1>2, WentTo DEF SameWork
<1> QED
  BY <1>1, <1>3, <1>4, <1>5, GoesOnMoves DEF Copying

LEMMA CopyStepMoves ==
  ASSUME XInv, NEW w \in Workers, SoleInv(w), MoveInv(w), Kind' = Kind, Items' = Items,
         UNCHANGED <<gate, refilled>>, CopyStep(w)
  PROVE  MoveInv(w)'
<1>1. UNCHANGED <<quarantine, recorded, items>> /\ workers[w].pc \in Working
  BY CopyStepGoes DEF store
<1>2. Gated("failItem") = "failItem"
  BY <1>1, MoveFacts
<1>3. workers[w].pc \in Copying
  BY DEF CopyStep, OpenStaging, WriteChunk, Truncate, Reopen, Promote, FinalCopy, Step, At,
         Copying
<1>4. {"trim", "truncate", "chunk", "mark", "verifyCopy", "open", "empty", "committed",
       "finalCopy"} \subseteq Copying
  BY DEF Copying
<1>5. ASSUME NEW point \in Copying \cup {"failItem"}, CopyStepLeads(w, point)
      PROVE  MoveInv(w)'
  BY <1>1, <1>3, <1>5, CopyOnMoves DEF CopyStepLeads
<1> QED
  BY <1>2, <1>4, <1>5, CopyStepGoes

\* The other steps of the copy that write no status.
LEMMA CopyMoves ==
  ASSUME XInv, NEW w \in Workers, SoleInv(w), MoveInv(w), Kind' = Kind, Items' = Items,
         UNCHANGED <<gate, refilled>>,
         CheckChunk(w) \/ SaveBytes(w) \/ VerifyCopy(w) \/ Committed(w)
  PROVE  MoveInv(w)'
<1> DEFINE onward == {"failItem", "failPlan", "cancelPlan", "pausePlan", "write", "promote",
                      "reopen", "markVerified", "beat", "truncate", "chunk"}
<1>1. /\ workers[w].pc \in Copying /\ workers[w].pc \in Working
      /\ UNCHANGED <<quarantine, recorded, items>>
  BY DEF CheckChunk, SaveBytes, VerifyCopy, Committed, OnItem, OnlyWorker, Step, At, store,
         files, Working, ItemPoints, HandlerPoints, Copying
<1>2. \A to : Gated(to) = to
  BY <1>1, MoveFacts
<1>3. \E point \in onward : \/ Goto(w, point)
                            \/ SaveContext(w, 0, point, Local(w))
                            \/ ReportContext(w, point, Local(w))
  BY <1>2 DEF CheckChunk, SaveBytes, VerifyCopy, Committed, Controlled, OnItem, Step,
              ChunkOrDone
<1>4. onward \subseteq Copying \cup {"failItem", "markVerified"} \cup Between
  BY DEF Copying, Between, Aside
<1> HIDE DEF onward
<1> QED
  BY <1>1, <1>3, <1>4, CopyOnMoves

\* A source that is gone, and a file in quarantine without a record: there was a crash.
LEMMA RetireMoves ==
  ASSUME XInv, NEW w \in Workers, SoleInv(w), MoveInv(w), Kind' = Kind, Items' = Items,
         UNCHANGED <<gate, refilled>>, Retire(w) \/ Moved(w)
  PROVE  MoveInv(w)'
<1> DEFINE x == workers[w]
           i == x.local.item
<1>1. /\ x.pc \in {"retire", "moved"} /\ x.pc \in Working
      /\ UNCHANGED <<quarantine, recorded, items>>
  BY DEF Retire, Moved, OnItem, Step, At, Working, ItemPoints, HandlerPoints, files
<1>2. /\ i \notin recorded /\ PointInv(x) /\ \A to : Gated(to) = to
      /\ source[i] # "absent" => ~Loose(i)
  BY <1>1, MoveFacts
<1>3. Kind # "copy" /\ (Kind = "retire" => items[i] = "verified")
  BY <1>1, <1>2 DEF PointInv
<1>4. \E to \in {"move", "record", "failItem"} :
        Goto(w, to) /\ (to \in {"move", "failItem"} => ~Loose(i))
  BY <1>2 DEF Retire, Moved, OnItem, Step, Item, Local, Loose, At
<1>5. /\ workers'[w].pc \in {"move", "record", "failItem"}
      /\ workers'[w].pc \in {"move", "failItem"} => ~Loose(i)
      /\ SameWork(x.local, workers'[w].local)
  BY <1>4, WentTo DEF SameWork
<1> QED
  BY <1>1, <1>3, <1>5, GoesOnMoves DEF Copying

\* The status of the item in work is written: the batch does not name it again.
LEMMA StatusMoves ==
  ASSUME XInv, NEW w \in Workers, SoleInv(w), MoveInv(w), Kind' = Kind, Items' = Items,
         UNCHANGED <<gate, refilled, quarantine, recorded>>,
         workers[w].pc \in Working, SameWork(workers[w].local, workers'[w].local),
         NEW status, setItemState(workers[w].local.item, status),
         status = "verified" \/ ~Loose(workers[w].local.item),
         LET to == workers'[w].pc
         IN \/ to \in {"open", "bytes"} /\ Kind # "consolidate"
                 /\ ~Loose(workers[w].local.item)
            \/ to = "retire" /\ Kind = "retire" /\ status = "verified"
            \/ to = "markCompleted" /\ Kind = "copy"
            \/ to = "checkpoint"
  PROVE  MoveInv(w)'
<1> DEFINE x == workers[w]
           i == x.local.item
<1>1. i \in Items /\ i \notin x.local.todo /\ \A k \in x.local.todo : Seen(x, k)
  BY MoveFacts
<1>2. items'[i] = status /\ \A k : k # i => items'[k] = items[k]
  BY <1>1 DEF setItemState, XInv, StoreTyped
<1>3. \A k : Loose(k)' <=> Loose(k)
  BY DEF Loose
<1>4. \A k \in x.local.todo : Seen(workers[w], k)'
  BY <1>1, <1>2 DEF Seen, SameWork
<1>5. PointInv(workers[w])'
  BY <1>2, <1>3, <1>4 DEF PointInv, SameWork, Copying
<1>6. \A k \in Items : Loose(k) => items'[k] = items[k] \/ items'[k] = "verified"
  BY <1>2
<1> QED
  BY <1>5, <1>6, MovesOn

LEMMA MarkMoves ==
  ASSUME XInv, NEW w \in Workers, SoleInv(w), MoveInv(w), Kind' = Kind, Items' = Items,
         UNCHANGED <<gate, refilled>>,
         CheckSource(w) \/ MarkBytes(w) \/ MarkVerified(w) \/ MarkCompleted(w) \/ FailItem(w)
  PROVE  MoveInv(w)'
<1> DEFINE x == workers[w]
           i == x.local.item
<1>1. UNCHANGED <<quarantine, recorded>> /\ x.pc \in Working /\ x.pc \in HandlerPoints
  BY DEF CheckSource, MarkBytes, MarkVerified, MarkCompleted, FailItem, OnItem, Step, At,
         files, Working, ItemPoints, HandlerPoints
<1>2. PointInv(x) /\ Kind \in PlanKinds /\ (Kind = "copy" => ~Loose(i))
  BY <1>1, MoveFacts
<1>3. ASSUME NEW point, Goto(w, point)
      PROVE  workers'[w].pc = point /\ SameWork(x.local, workers'[w].local)
  BY <1>3, WentTo DEF SameWork
<1>4. CASE CheckSource(w) \/ MarkBytes(w)
  <2>1. /\ x.pc \in {"source", "mark"} /\ x.pc \in Copying
        /\ \/ (\E point \in {"open", "bytes"} : Goto(w, point)) /\ setItemState(i, "copying")
           \/ Goto(w, "failItem") /\ UNCHANGED items
    BY <1>4 DEF CheckSource, MarkBytes, OnItem, Step, At, Item, Local, Copying
  <2>2. Kind # "consolidate" /\ ~Loose(i)
    BY <1>2, <2>1 DEF PointInv
  <2>3. CASE Goto(w, "failItem") /\ UNCHANGED items
    BY <1>1, <2>1, <2>3, CopyOnMoves
  <2>4. ASSUME NEW point \in {"open", "bytes"}, Goto(w, point), setItemState(i, "copying")
        PROVE  MoveInv(w)'
    BY <1>1, <1>3, <2>2, <2>4, StatusMoves
  <2> QED
    BY <2>1, <2>3, <2>4
<1>5. CASE MarkVerified(w)
  <2>1. x.pc = "markVerified" /\ Goto(w, AfterVerified) /\ setItemState(i, "verified")
    BY <1>5 DEF MarkVerified, OnItem, Step, At, Item, Local
  <2>2. Kind \in {"copy", "retire"}
    BY <1>2, <2>1 DEF PointInv, PlanKinds
  <2>3. \/ AfterVerified = "retire" /\ Kind = "retire"
        \/ AfterVerified = "markCompleted" /\ Kind = "copy"
    BY <2>2 DEF AfterVerified
  <2> QED
    BY <1>1, <1>3, <2>1, <2>3, StatusMoves
<1>6. CASE MarkCompleted(w)
  <2>1. x.pc = "markCompleted" /\ Goto(w, "checkpoint") /\ setItemState(i, "completed")
    BY <1>6 DEF MarkCompleted, OnItem, Step, At, Item, Local
  <2>2. ~Loose(i)
    BY <1>2, <2>1 DEF PointInv
  <2> QED
    BY <1>1, <1>3, <2>1, <2>2, StatusMoves
<1>7. CASE FailItem(w)
  <2>1. /\ x.pc = "failItem" /\ Continue(w, "checkpoint", Closed(w))
        /\ setItemState(i, "failed")
    BY <1>7 DEF FailItem, At, Item, Local
  <2>2. ~Loose(i) /\ SameWork(x.local, Closed(w))
    BY <1>1, <1>2, <2>1, HandlerFacts, ClosedLocal DEF PointInv, Local
  <2>3. workers'[w].pc = "checkpoint" /\ SameWork(x.local, workers'[w].local)
    BY <2>1, <2>2, WentOn
  <2> QED
    BY <1>1, <2>1, <2>2, <2>3, StatusMoves
<1> QED
  BY <1>4, <1>5, <1>6, <1>7

\* The rename: only the source of the item in work moves, and that is not settled.
LEMMA MoveMoves ==
  ASSUME XInv, NEW w \in Workers, SoleInv(w), MoveInv(w), Kind' = Kind, Items' = Items,
         UNCHANGED <<gate, refilled>>, Move(w)
  PROVE  MoveInv(w)'
<1> DEFINE x == workers[w]
           i == x.local.item
<1>1. /\ x.pc = "move" /\ x.pc \in Working /\ UNCHANGED <<items, recorded>>
      /\ \/ /\ Goto(w, "moved")
            /\ quarantine' = [quarantine EXCEPT ![i] = source[i]]
         \/ Goto(w, Gated("failItem")) /\ UNCHANGED quarantine
  BY DEF Move, OnItem, Step, At, Item, Local, Put, Working, ItemPoints, HandlerPoints
<1>2. /\ PointInv(x) /\ \A to : Gated(to) = to
      /\ i \in Items /\ ~Settled(i) /\ \A k \in x.local.todo : Seen(x, k)
  BY <1>1, MoveFacts
<1>3. Kind # "copy" /\ (Kind = "retire" => items[i] = "verified") /\ ~Loose(i)
  BY <1>1, <1>2 DEF PointInv
<1>4. ASSUME NEW point, Goto(w, point)
      PROVE  workers'[w].pc = point /\ SameWork(x.local, workers'[w].local)
  BY <1>4, WentTo DEF SameWork
<1>5. CASE Goto(w, "moved") /\ quarantine' = [quarantine EXCEPT ![i] = source[i]]
  <2>1. PointInv(workers[w])'
    BY <1>1, <1>2, <1>3, <1>4, <1>5 DEF PointInv, Copying, SameWork, Seen
  <2>2. \A k \in Items : k # i => quarantine'[k] = quarantine[k]
    BY <1>5 DEF XInv, StoreTyped
  <2>3. \A k \in Items' : Loose(k)' => Waits(k)'
    BY <1>1, <1>2, <1>3, <2>2 DEF MoveInv, Waits, Settled, Loose
  <2> QED
    BY <1>3, <2>1, <2>3 DEF MoveInv
<1>6. CASE Goto(w, "failItem") /\ UNCHANGED quarantine
  BY <1>1, <1>3, <1>4, <1>6, GoesOnMoves DEF Copying
<1> QED
  BY <1>1, <1>2, <1>5, <1>6

LEMMA RecordMoves ==
  ASSUME XInv, NEW w \in Workers, SoleInv(w), MoveInv(w), Kind' = Kind, Items' = Items,
         UNCHANGED <<gate, refilled>>, RecordQuarantine(w)
  PROVE  MoveInv(w)'
<1> DEFINE x == workers[w]
           i == x.local.item
<1>1. /\ x.pc \in Working /\ UNCHANGED quarantine
      /\ \/ /\ Goto(w, "checkpoint")
            /\ recorded' = recorded \cup {i} /\ setItemState(i, "quarantined")
         \/ i \in recorded
  BY DEF RecordQuarantine, Step, At, Item, Local, files, Working, ItemPoints, HandlerPoints
<1>2. /\ i \in Items /\ i \notin recorded /\ i \notin x.local.todo
      /\ x.local.todo \subseteq Items /\ \A k \in x.local.todo : Seen(x, k)
  BY <1>1, MoveFacts, WorkFacts
<1>3. /\ recorded' = recorded \cup {i}
      /\ \A k \in Items : k # i => items'[k] = items[k]
  BY <1>1, <1>2 DEF setItemState, XInv, StoreTyped
<1>4. \A k \in Items' : Loose(k)' => Waits(k)'
  BY <1>1, <1>3 DEF MoveInv, Waits, Settled, Loose
<1>5. PointInv(workers[w])'
  <2>1. workers'[w].pc = "checkpoint" /\ workers'[w].local = x.local
    BY <1>1, <1>2, WentTo
  <2> QED
    BY <1>2, <1>3, <2>1 DEF PointInv, Copying, Seen
<1> QED
  BY <1>1, <1>4, <1>5 DEF MoveInv

-----------------------------------------------------------------------------
(* The process, and everybody else.                                        *)

LEMMA ProcessStepMoves ==
  ASSUME XInv, NEW w \in Workers, MoveInv(w), Kind' = Kind, Items' = Items,
         UNCHANGED <<gate, refilled, store, files>>, ProcessMoves(w) \/ Crash(w)
  PROVE  MoveInv(w)'
<1>1. /\ workers \in [Workers -> Worker(HandlerPoints, AnyLocals)] /\ IndInv /\ LinkInv
      /\ NoLocal \in AnyLocals
  BY NoLocalType DEF XInv, WorkersTyped
<1>2. workers'[w].pc \in Points
  <2>1. CASE ProcessMoves(w)
    BY <1>1, <2>1, ProcessMovesActs DEF ProcessActs, Answers, Resting, Points
  <2>2. CASE Crash(w)
    BY <1>1, <2>2, DieActs DEF Crash, Die, Points
  <2> QED
    BY <2>1, <2>2
<1>3. PointInv(workers'[w])
  BY <1>2, NoPoint DEF Between, Aside
<1> QED
  BY <1>3, SameMoves DEF store, files

LEMMA MoveInvNext ==
  ASSUME NEW x, Workers = {x}, ~GateMoves, XInv, SoleInv(x), MoveInv(x), [XNext]_vars
  PROVE  MoveInv(x)'
<1>1. Kind' = Kind /\ Items' = Items
  BY XInvNext DEF FileSteps
<1>2. CASE /\ UNCHANGED <<workers, items, recorded, quarantine, gate>>
           /\ refilled \subseteq refilled'
  BY <1>1, <1>2, SameMoves DEF MoveInv
<1>3. CASE \/ Server
           \/ Tick /\ UNCHANGED <<workers, crashes, store, files, outside>>
           \/ UNCHANGED vars
  <2>1. UNCHANGED <<workers, items, recorded, quarantine, gate, refilled>>
    BY <1>3 DEF Server, vars, store, files, outside
  <2> QED
    BY <1>2, <2>1
<1>4. CASE User /\ UNCHANGED <<workers, crashes, store, approvals>>
  <2>1. UNCHANGED <<workers, items, recorded, quarantine, gate>> /\ refilled \subseteq refilled'
    BY <1>4 DEF User, Edit, EditSource, EditDestination, store, files
  <2> QED
    BY <1>2, <2>1
<1>5. CASE RunMoves(x) /\ UNCHANGED outside
  <2>1. UNCHANGED <<gate, refilled>>
    BY <1>5 DEF outside
  <2>2. CASE FailItem(x)
    BY <1>1, <2>1, <2>2, MarkMoves
  <2>3. CASE Batch(x) \/ TakeItem(x)
    BY <1>1, <2>1, <2>3, BatchMoves, TakeItemMoves
  <2> QED
    BY <1>1, <1>5, <2>1, <2>2, <2>3, RunStepMoves DEF RunMoves
<1>6. CASE ItemMoves(x) /\ UNCHANGED outside
  <2>1. UNCHANGED <<gate, refilled>>
    BY <1>6 DEF outside
  <2> QED
    BY <1>1, <1>6, <2>1, ExistingMoves, CopyStepMoves, CopyMoves, RetireMoves, MarkMoves,
       MoveMoves, RecordMoves DEF ItemMoves, CopyStep
<1>7. CASE (ProcessMoves(x) \/ Crash(x)) /\ UNCHANGED <<store, files, outside>>
  BY <1>1, <1>7, ProcessStepMoves DEF outside
<1> QED
  BY <1>2, <1>3, <1>4, <1>5, <1>6, <1>7 DEF XNext, WorkerMoves

LEMMA MoveInvInit == ASSUME XInit, NEW w \in Workers PROVE MoveInv(w)
<1>1. workers[w].pc = "recover"
  BY DEF XInit, ProcessInit, Idle, Fresh
<1>2. PointInv(workers[w])
  BY <1>1, NoPoint DEF Between, Aside, Points
<1> QED
  BY <1>2 DEF XInit, MoveInv, Loose

\* quarantineSource of src/transfer/transfer-job.ts, "a crash after the filesystem
\* operation but before the receipt is recognized as already completed": when the plan
\* closes, whatever was moved into quarantine has its record, wherever its one worker
\* died or was interrupted and whatever the user did to the files meanwhile, as long as
\* no root goes away, the mutation mode stays, and nobody has put another file at the
\* path that the move has vacated.
THEOREM MovesRecorded ==
  ASSUME NEW x, Workers = {x}, ~GateMoves
  PROVE  XSpec => []ClosedPlanRecordsEveryMove
<1>1. XInit => SoleInv(x) /\ MoveInv(x)
  BY SoleInvInit, MoveInvInit
<1>2. XInv /\ SoleInv(x) /\ MoveInv(x) /\ [XNext]_vars => SoleInv(x)' /\ MoveInv(x)'
  BY SoleInvNext, MoveInvNext
<1>3. SoleInv(x) /\ MoveInv(x) => ClosedPlanRecordsEveryMove
  BY DEF SoleInv, ClosedInv, MoveInv, Loose, Waits, ClosedPlanRecordsEveryMove
<1> QED
  BY <1>1, <1>2, <1>3, XInductive, PTL DEF XSpec

-----------------------------------------------------------------------------
(* One worker.  While it has a copy open nothing of its own is at the      *)
(* destination, so that it spoils nothing: what is not good there any more *)
(* when the source is retired, the user has changed.                       *)

\* Where a worker has found the destination free, and writes no destination.
Ahead == {"source", "open", "verifyCopy", "reopen"} \cup Writing

AheadInv(w) ==
  /\ spoilt = {}
  /\ workers[w].pc \in Ahead => dest[workers[w].local.item] \in {Absent, Foreign}

\* A step that leaves the copies, or goes on with the same one.
LEMMA AheadOn ==
  ASSUME NEW w \in Workers, AheadInv(w), spoilt' = {},
         \/ workers'[w].pc \notin Ahead
         \/ /\ workers[w].pc \in Ahead /\ workers'[w].local.item = workers[w].local.item
            /\ UNCHANGED dest
  PROVE  AheadInv(w)'
BY DEF AheadInv

\* What is written through the handle of an open copy is at no destination.
LEMMA WriteAhead ==
  ASSUME XInv, NEW w \in Workers, AheadInv(w), workers[w].pc \in Writing, NEW content,
         Overwrite(Item(w), Local(w).handle, content)
  PROVE  spoilt' = {} /\ UNCHANGED dest
<1>1. /\ Item(w) \in Items /\ Local(w).handle \in DOMAIN disk[Item(w)]
      /\ dest[Item(w)] \in {Absent, Foreign}
  <2>1. WorkInv(workers[w]) /\ workers[w].pc \in HandlerPoints /\ workers[w].pc \in ItemPoints
    BY DEF XInv, Writing, HandlerPoints, ItemPoints
  <2> QED
    BY <2>1 DEF WorkInv, AheadInv, Ahead, Item, Local
<1>2. disk[Item(w)] \in Seq(AnyContent)
  BY <1>1 DEF XInv, StoreTyped, DiskTyped
<1>3. Local(w).handle # dest[Item(w)]
  BY <1>1, <1>2 DEF Absent, Foreign
<1> QED
  BY <1>3 DEF Overwrite, AheadInv

\* The steps that write a copy, and those that open and close it.
LEMMA CopiesAhead ==
  ASSUME XInv, NEW w \in Workers, AheadInv(w),
         OpenStaging(w) \/ WriteChunk(w) \/ Truncate(w) \/ Reopen(w)
  PROVE  AheadInv(w)'
<1>1. workers[w].pc \in Ahead /\ workers[w].pc \in Working
  BY DEF OpenStaging, WriteChunk, Truncate, Reopen, Step, At, Ahead, Writing, Working,
         ItemPoints, HandlerPoints
<1>2. spoilt' = {} /\ UNCHANGED dest
  <2>1. CASE OpenStaging(w) \/ Reopen(w)
    BY <2>1 DEF OpenStaging, Reopen, OnlyWorker, files, AheadInv
  <2>2. CASE WriteChunk(w)
    <3>1. workers[w].pc \in Writing
      BY <2>2 DEF WriteChunk, At, Writing
    <3>2. \/ UNCHANGED files
          \/ \E content : Overwrite(Item(w), Local(w).handle, content)
      BY <2>2 DEF WriteChunk
    <3> QED
      BY <3>1, <3>2, WriteAhead DEF files, AheadInv
  <2>3. CASE Truncate(w)
    <3>1. workers[w].pc \in Writing
      BY <2>3 DEF Truncate, Step, At, Writing
    <3>2. \E content : Overwrite(Item(w), Local(w).handle, content)
      BY <2>3 DEF Truncate
    <3> QED
      BY <3>1, <3>2, WriteAhead
  <2> QED
    BY <2>1, <2>2, <2>3
<1>3. workers'[w].local.item = workers[w].local.item
  <2>1. \E point : CopyStepLeads(w, point)
    BY CopyStepGoes DEF CopyStep
  <2> QED
    BY <2>1, WentTo, WentOn DEF CopyStepLeads, SameWork, Local
<1> QED
  BY <1>1, <1>2, <1>3, AheadOn

\* What a final copy writes to has not been found good yet.
LEMMA DestinationAhead ==
  ASSUME XInv, CopyInv, NEW w \in Workers, AheadInv(w), Promote(w) \/ FinalCopy(w)
  PROVE  AheadInv(w)'
<1>1. workers[w].pc \in Working /\ workers[w].pc \in {"promote", "finalCopy"}
  BY DEF Promote, FinalCopy, At, Working, ItemPoints, HandlerPoints
<1>2. spoilt' = {}
  <2>1. CASE Promote(w)
    BY <2>1 DEF Promote, AheadInv
  <2>2. CASE FinalCopy(w)
    <3>1. /\ workers[w].pc = "finalCopy"
          /\ \E content : Overwrite(Item(w), Local(w).target, content)
      BY <2>2 DEF FinalCopy, At
    <3>2. Item(w) \in Items
      BY <1>1, HandlerFacts DEF Working, ItemPoints, Item, Local
    <3>3. ~Good(Item(w), Local(w).target)
      BY <3>1, <3>2 DEF CopyInv, Apart, Fills, Item, Local
    <3> QED
      BY <3>1, <3>3 DEF Overwrite, AheadInv
  <2> QED
    BY <2>1, <2>2
<1>3. workers'[w].pc \in {"committed", "finalCopy", "failItem", "failPlan"}
  <2>1. \E point \in {"committed", "finalCopy", Gated("failItem")} : CopyStepLeads(w, point)
    BY <1>1, PromoteLeads
  <2>2. Gated("failItem") \in {"failItem", "failPlan"}
    BY GatedPoint
  <2> QED
    BY <2>1, <2>2, WentTo, WentOn DEF CopyStepLeads
<1> QED
  BY <1>2, <1>3, AheadOn DEF Ahead, Writing

\* The steps that write no file of the destination's file system.
LEMMA LooksAhead ==
  ASSUME XInv, NEW w \in Workers, AheadInv(w),
         \/ Existing(w) \/ CheckSource(w) \/ CheckChunk(w) \/ MarkBytes(w) \/ SaveBytes(w)
         \/ VerifyCopy(w) \/ Committed(w) \/ MarkVerified(w) \/ MarkCompleted(w)
         \/ Retire(w) \/ Move(w) \/ Moved(w) \/ RecordQuarantine(w)
  PROVE  AheadInv(w)'
<1> DEFINE x == workers[w]
           y == workers'[w]
           i == x.local.item
<1>1. spoilt' = {} /\ UNCHANGED dest
  BY DEF Existing, CheckSource, CheckChunk, MarkBytes, SaveBytes, VerifyCopy, Committed,
         MarkVerified, MarkCompleted, Retire, Move, Moved, RecordQuarantine, OnlyWorker, Found,
         files, AheadInv
<1>2. CASE \/ CheckSource(w) \/ CheckChunk(w) \/ MarkBytes(w) \/ SaveBytes(w) \/ VerifyCopy(w)
  <2>1. x.pc \in Ahead
    BY <1>2 DEF CheckSource, CheckChunk, MarkBytes, SaveBytes, VerifyCopy, OnItem, Step, At,
                Ahead, Writing
  <2>2. \E point : \/ Goto(w, point)
                   \/ SaveContext(w, 0, point, Local(w)) \/ ReportContext(w, point, Local(w))
    BY <1>2 DEF CheckSource, CheckChunk, Controlled, MarkBytes, SaveBytes, VerifyCopy, OnItem,
                Step
  <2>3. y.local = x.local
    BY <2>2, WentTo, CallGoes
  <2> QED
    BY <1>1, <2>1, <2>3, AheadOn
<1>3. CASE Existing(w)
  <2> DEFINE to == IF i \in x.local.verified THEN AfterVerified
                   ELSE IF dest[i] = Absent THEN "source"
                   ELSE IF Good(i, dest[i]) THEN "markVerified" ELSE "failItem"
  <2>1. Goto(w, Gated(to))
    BY <1>3 DEF Existing, OnItem, Step, Item, Local
  <2>2. to \in {"retire", "markCompleted", "source", "markVerified", "failItem"}
    BY DEF AfterVerified
  <2>3. to = "source" => dest[i] = Absent
    BY DEF AfterVerified
  <2> HIDE DEF to
  <2>4. y.pc \in {to, "failPlan", "failItem"} /\ y.local = x.local
    BY <2>1, GatedPoint, WentTo
  <2>5. y.pc \in Ahead => dest'[y.local.item] = Absent
    BY <1>1, <2>2, <2>3, <2>4 DEF Ahead, Writing
  <2> QED
    BY <1>1, <2>5 DEF AheadInv
<1>4. CASE \/ Committed(w) \/ MarkVerified(w) \/ MarkCompleted(w)
           \/ Retire(w) \/ Move(w) \/ Moved(w) \/ RecordQuarantine(w)
  <2> DEFINE points == {"failItem", "markVerified", "retire", "markCompleted", "checkpoint",
                        "move", "moved", "record"}
  <2>1. \E point \in points : Goto(w, point) \/ Goto(w, Gated(point))
    BY <1>4 DEF Committed, MarkVerified, MarkCompleted, AfterVerified, Retire, RecordFound, Move,
                Moved, RecordQuarantine, OnItem, Step
  <2>2. y.pc \in points \cup {"failPlan"}
    BY <2>1, GatedPoint, WentTo
  <2>3. y.pc \notin Ahead
    BY <2>2 DEF Ahead, Writing
  <2> QED
    BY <1>1, <2>3, AheadOn
<1> QED
  BY <1>2, <1>3, <1>4

LEMMA AheadInvNext ==
  ASSUME NEW x, Workers = {x}, XInv, CopyInv, AheadInv(x), [XNext]_vars
  PROVE  AheadInv(x)'
<1>1. ASSUME workers'[x].pc \in Points, UNCHANGED files PROVE AheadInv(x)'
  BY <1>1, AheadOn DEF files, AheadInv, Ahead, Writing, Points
<1>2. CASE RunMoves(x)
  <2>1. Leads(x) /\ UNCHANGED files
    BY <1>2, RunLeads
  <2>2. workers'[x].pc \notin Ahead
    BY <2>1 DEF Leads, RunPoints, Ahead, Writing
  <2> QED
    BY <2>1, <2>2, AheadOn DEF files, AheadInv
<1>3. CASE ItemMoves(x)
  BY <1>3, CopiesAhead, DestinationAhead, LooksAhead DEF ItemMoves
<1>4. CASE (ProcessMoves(x) \/ Crash(x)) /\ UNCHANGED <<store, files>>
  <2>1. /\ workers \in [Workers -> Worker(HandlerPoints, AnyLocals)] /\ IndInv /\ LinkInv
        /\ NoLocal \in AnyLocals
    BY NoLocalType DEF XInv, WorkersTyped
  <2>2. workers'[x].pc \in Points
    <3>1. CASE ProcessMoves(x)
      BY <2>1, <3>1, ProcessMovesActs DEF ProcessActs, Answers, Resting, Points
    <3>2. CASE Crash(x)
      BY <2>1, <3>2, DieActs DEF Crash, Die, Points
    <3> QED
      BY <1>4, <3>1, <3>2
  <2> QED
    BY <1>1, <1>4, <2>2
<1>5. CASE User /\ UNCHANGED workers
  <2>1. /\ spoilt' = {}
        /\ \A i \in Items : dest'[i] = dest[i] \/ dest'[i] \in {Absent, Foreign}
    <3>1. UNCHANGED <<dest, spoilt>>
            \/ \E i \in Items : EditDestination(i) /\ UNCHANGED spoilt
      BY <1>5 DEF User, Edit, EditSource, files
    <3>2. ASSUME NEW i \in Items, EditDestination(i)
          PROVE  \A k \in Items : dest'[k] = dest[k] \/ dest'[k] \in {Absent, Foreign}
      <4>1. dest \in [Items -> Int]
        BY DEF XInv, StoreTyped, DiskTyped
      <4>2. UNCHANGED dest \/ \E n \in {Absent, Foreign} : dest' = Put(dest, i, n)
        BY <3>2 DEF EditDestination
      <4> QED
        BY <4>1, <4>2 DEF Put
    <3> QED
      BY <3>1, <3>2 DEF AheadInv
  <2>2. workers[x].pc \in Ahead => workers[x].local.item \in Items
    BY HandlerFacts DEF Ahead, Writing, ItemPoints, HandlerPoints
  <2> QED
    BY <1>5, <2>1, <2>2 DEF AheadInv
<1>6. CASE UNCHANGED <<workers, files>>
  BY <1>6 DEF AheadInv, files
<1> QED
  BY <1>2, <1>3, <1>4, <1>5, <1>6 DEF XNext, WorkerMoves, Server, vars

LEMMA AheadInvInit == ASSUME XInit, NEW w \in Workers PROVE AheadInv(w)
<1>1. workers[w].pc = "recover"
  BY DEF XInit, ProcessInit, Idle, Fresh
<1> QED
  BY <1>1 DEF XInit, AheadInv, Ahead, Writing

\* copyVerifyCommit of src/transfer/transfer-job.ts: one worker, killed and started as often
\* as may be, never changes a destination that was found good, with hard links or without.
\* A source that is in quarantine for retirement has its bytes at the destination, if the
\* user has left them there.
THEOREM OneWorkerSpoilsNothing ==
  ASSUME NEW x, Workers = {x} PROVE XSpec => [](spoilt = {})
<1>1. XInit => CopyInv /\ AheadInv(x)
  BY CopyInvInit, AheadInvInit
<1>2. XInv /\ CopyInv /\ AheadInv(x) /\ [XNext]_vars => CopyInv' /\ AheadInv(x)'
  BY CopyInvNext, AheadInvNext
<1>3. AheadInv(x) => spoilt = {}
  BY DEF AheadInv
<1> QED
  BY <1>1, <1>2, <1>3, XInductive, PTL DEF XSpec
=====
