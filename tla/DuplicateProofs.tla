----------------------------- MODULE DuplicateProofs -----------------------------
(***************************************************************************)
(* Theorems about what is found to be a duplicate (Intelligence) and about *)
(* the return of a file from quarantine (QuarantineRestore), for any       *)
(* number of files, requests, workers, attempts and crashes, and whatever  *)
(* the user edits and decides.  The two share only the queue.              *)
(*                                                                         *)
(* Neither argument needs a lease, and none protects what is written: a    *)
(* handler that has lost its own goes on beside the one that took over.    *)
(* A file that has left quarantine never goes back, so what a worker has   *)
(* once seen of it stays true however late it acts on it.  And what a      *)
(* handler of the analysis writes is true of the observation and not of    *)
(* the worker: a digest is written only of a file that still matches it,   *)
(* groups are made of the digests that are there, and a review is only     *)
(* ever opened for the first time.                                         *)
(*                                                                         *)
(* What a handler does of the queue needs neither: wherever it is, and     *)
(* whatever it has read, it makes no step that the queue does not allow.   *)
(*                                                                         *)
(* That a completed stage has dealt with all of its scope needs the one    *)
(* worker: what is behind the checkpoint is done, and what is not is in    *)
(* hand or on a page still to come.                                        *)
(***************************************************************************)
EXTENDS Intelligence, QuarantineRestore, JobQueueProofs

-----------------------------------------------------------------------------
(* The return of a file.                                                   *)

Completed(j) == jobs[j].status = "completed"

\* A worker at one of these points has seen the file leave quarantine.
PastRename == {"confirm", "record", "finish", "complete"}

HomeInv ==
  /\ ~quarantined => original = "ours" \/ touched
  /\ item.status = "restored" => ~quarantined
  /\ (\E j \in Ids : Completed(j)) => ~quarantined
  /\ \A w \in Workers : workers[w].pc \in PastRename => ~quarantined

WorkersTyped == workers \in [Workers -> Worker(HandlerPoints, {NoLocal})]

RInv == IndInv /\ LinkInv /\ WorkersTyped /\ HomeInv

-----------------------------------------------------------------------------
(* The invariant is inductive.                                             *)

\* What a step does to the table that completes no job: the clients, the clock and
\* the end of a process.
LEMMA NoCompletion ==
  ASSUME TableStep, \A j \in Ids : Completed(j)' => Completed(j)
  PROVE  (\E j \in Ids : Completed(j))' => \E j \in Ids : Completed(j)
<1> SUFFICES ASSUME NEW j \in Ids', Completed(j)'
             PROVE  \E i \in Ids : Completed(i)
  OBVIOUS
<1>1. j \in Ids
  BY NewRow DEF Completed
<1> QED
  BY <1>1

LEMMA ClientKeeps ==
  ASSUME RInv, Next, Effect({}, {}), UNCHANGED workers
  PROVE  /\ IndInv' /\ LinkInv' /\ WorkersTyped'
         /\ (\E j \in Ids : Completed(j))' => \E j \in Ids : Completed(j)
<1>1. IndInv' /\ TableStep /\ \A j \in Ids : Completed(j)' => Completed(j)
  BY IndInvNext DEF RInv, Effect, Completed
<1>2. LinkInv'
  BY <1>1, LinkTable DEF RInv
<1> QED
  BY <1>1, <1>2, NoCompletion DEF RInv, WorkersTyped

\* The server writes no file; what it writes to the record is "restoring".
LEMMA ServerKeeps ==
  ASSUME RInv, Server
  PROVE  RInv' /\ [Next]_jobs
<1>1. /\ UNCHANGED <<workers, files, touched>>
      /\ item'.status = "restored" => item.status = "restored"
  BY DEF Server, ServerStops, Ask, SubmitRestore, SetRestoring, setQuarantineState
<1>2. CASE UNCHANGED jobs
  <2>1. IndInv' /\ LinkInv' /\ WorkersTyped'
    BY <1>1, <1>2 DEF RInv, IndInv, TypeOK, Ids, LinkInv, LinkOK, Linked, Bounded, WorkersTyped
  <2>2. HomeInv'
    BY <1>1, <1>2 DEF RInv, HomeInv, Completed, Ids, files
  <2> QED
    BY <1>2, <2>1, <2>2 DEF RInv
<1>3. ASSUME NEW r \in Requests, Submit(SubmissionOf[r])
      PROVE  RInv' /\ [Next]_jobs
  <2>1. SubmissionOf[r] \in Submissions
    BY RequestsAssumption
  <2>2. Next /\ Effect({}, {})
    BY <1>3, <2>1, SubmitEffect DEF Next, ClientStep, RInv
  <2>3. /\ IndInv' /\ LinkInv' /\ WorkersTyped'
        /\ (\E j \in Ids : Completed(j))' => \E j \in Ids : Completed(j)
    BY <1>1, <2>2, ClientKeeps
  <2>4. HomeInv'
    BY <1>1, <2>3 DEF RInv, HomeInv, files
  <2> QED
    BY <2>2, <2>3, <2>4 DEF RInv
<1>4. UNCHANGED jobs \/ \E r \in Requests : Submit(SubmissionOf[r])
  BY DEF Server, ServerStops, Ask, SubmitRestore, SetRestoring
<1> QED
  BY <1>2, <1>3, <1>4

\* The user never puts the file back into quarantine, and whoever changes it at its
\* original path has laid hands on it.
LEMMA UserKeeps ==
  ASSUME RInv, User, UNCHANGED <<workers, item, quarantined>>
  PROVE  RInv' /\ [Next]_jobs
<1>1. ~quarantined => (original = "ours" \/ touched)'
  <2>1. UNCHANGED <<original, touched>> \/ touched' = (touched \/ original = "ours")
    BY DEF User
  <2> QED
    BY <2>1 DEF RInv, HomeInv
<1>2. /\ IndInv' /\ LinkInv' /\ WorkersTyped' /\ [Next]_jobs
      /\ (\E j \in Ids : Completed(j))' => \E j \in Ids : Completed(j)
  <2>1. CASE UNCHANGED jobs
    BY <2>1 DEF RInv, IndInv, TypeOK, Ids, LinkInv, LinkOK, Linked, Bounded, WorkersTyped,
                Completed
  <2>2. ASSUME NEW j \in Ids, Cancel(j)
        PROVE  Next /\ Effect({}, {})
    BY <2>2, ControlEffect DEF Next, ClientStep, RInv
  <2> QED
    BY <2>1, <2>2, ClientKeeps DEF User
<1>3. HomeInv'
  BY <1>1, <1>2 DEF RInv, HomeInv
<1> QED
  BY <1>2, <1>3 DEF RInv

LEMMA TickKeeps ==
  ASSUME RInv, Tick, UNCHANGED <<workers, item, files, touched>>
  PROVE  RInv' /\ [Next]_jobs
<1>1. Next /\ Effect({}, {})
  BY TickEffect DEF Next, RInv
<1>2. /\ IndInv' /\ LinkInv' /\ WorkersTyped'
      /\ (\E j \in Ids : Completed(j))' => \E j \in Ids : Completed(j)
  BY <1>1, ClientKeeps
<1>3. HomeInv'
  BY <1>2 DEF RInv, HomeInv, files
<1> QED
  BY <1>1, <1>2, <1>3 DEF RInv

\* The process itself: a job completes only when its handler has returned.
LEMMA ProcessMovesKeep ==
  ASSUME RInv, NEW w \in Workers, ProcessMoves(w), UNCHANGED <<item, files, touched>>
  PROVE  RInv' /\ [Next]_jobs
<1> DEFINE x == workers[w]
           y == workers'[w]
<1>1. /\ WorkersTyped' /\ IndInv' /\ LinkInv' /\ [Next]_jobs /\ TableStep
      /\ \A v \in Workers \ {w} : workers'[v] = workers[v]
      /\ y.pc \in Points \ {"finish"}
      /\ y.pc = "complete" => x.pc = "finish"
      /\ \A j \in Ids : Completed(j)' => Completed(j) \/ x.pc = "complete"
  <2>1. /\ NoLocal \in {NoLocal} /\ IndInv /\ LinkInv
        /\ workers \in [Workers -> Worker(HandlerPoints, {NoLocal})]
    BY DEF RInv, WorkersTyped
  <2> QED
    BY <2>1, ProcessKeeps DEF WorkersTyped, Completed
<1>2. (\E j \in Ids : Completed(j))' => ~quarantined
  <2>1. CASE x.pc = "complete"
    BY <2>1 DEF RInv, HomeInv, PastRename
  <2>2. CASE x.pc # "complete"
    BY <1>1, <2>2, NoCompletion DEF RInv, HomeInv
  <2> QED
    BY <2>1, <2>2
<1>3. y.pc \in PastRename => ~quarantined
  BY <1>1 DEF RInv, HomeInv, PastRename, Points
<1>4. HomeInv'
  BY <1>1, <1>2, <1>3 DEF RInv, HomeInv, files
<1> QED
  BY <1>1, <1>4 DEF RInv

\* A step of the handler, which completes no job: what it leaves of the files.
LEMMA HandlerKeeps ==
  ASSUME RInv, NEW w \in Workers, WorkersTyped', Acts(w, {}, {}),
         ~quarantined => ~quarantined' /\ UNCHANGED original,
         ~quarantined' => original' = "ours" \/ touched,
         UNCHANGED touched,
         item'.status = "restored" => item.status = "restored" \/ ~quarantined',
         workers'[w].pc \in PastRename => ~quarantined'
  PROVE  RInv' /\ [Next]_jobs
<1>1. /\ IndInv' /\ LinkInv' /\ [Next]_jobs /\ TableStep
      /\ \A v \in Workers \ {w} : workers'[v] = workers[v]
      /\ \A j \in Ids : Completed(j)' => Completed(j)
  BY ActsInv DEF RInv, Acts, Effect, Completed
<1>2. (\E j \in Ids : Completed(j))' => \E j \in Ids : Completed(j)
  BY <1>1, NoCompletion
<1>3. HomeInv'
  BY <1>1, <1>2 DEF RInv, HomeInv
<1> QED
  BY <1>1, <1>3 DEF RInv

LEMMA LoadKeeps ==
  ASSUME RInv, NEW w \in Workers, LoadRestore(w), UNCHANGED touched
  PROVE  RInv' /\ [Next]_jobs
<1>1. /\ At(w, "load") /\ LoadJob(w, "read", NoLocal) /\ UNCHANGED <<item, files>>
      /\ "read" \in Points \cup HandlerPoints /\ NoLocal \in {NoLocal}
      /\ IndInv /\ LinkInv /\ workers \in [Workers -> Worker(HandlerPoints, {NoLocal})]
  BY DEF LoadRestore, LoadJob, HandlerPoints, RInv, WorkersTyped
<1>2. /\ WorkersTyped' /\ Acts(w, {}, {})
      /\ workers'[w].pc \in {"down", "read"}
  BY <1>1, LoadJobActs DEF WorkersTyped
<1>3. workers'[w].pc \notin PastRename
  BY <1>2 DEF PastRename
<1> QED
  BY <1>1, <1>2, <1>3, HandlerKeeps DEF files, RInv, HomeInv

\* The points of the handler are reached with Goto, or left with Throw.
LEMMA PointsOfHandler ==
  ASSUME RInv, NEW w \in Workers, workers[w].pc \in HandlerPoints, UNCHANGED jobs,
         \/ \E to \in HandlerPoints \cup {"finish"} : Goto(w, to)
         \/ \E retryable \in BOOLEAN : Throw(w, retryable)
  PROVE  /\ WorkersTyped' /\ Acts(w, {}, {})
         /\ \A to \in HandlerPoints \cup {"finish"} : Goto(w, to) => workers'[w].pc = to
         /\ \A retryable \in BOOLEAN : Throw(w, retryable) => workers'[w].pc = "fail"
<1>1. /\ Linked(workers[w]) /\ NoLocal \in {NoLocal}
      /\ workers \in [Workers -> Worker(HandlerPoints, {NoLocal})]
  BY DEF HandlerPoints, Linked, RInv, WorkersTyped
<1>2. ASSUME NEW to \in HandlerPoints \cup {"finish"}, Goto(w, to)
      PROVE  WorkersTyped' /\ Acts(w, {}, {}) /\ workers'[w].pc = to
  <2>1. to \in Points \cup HandlerPoints
    BY DEF Points
  <2> QED
    BY <1>1, <1>2, <2>1, GotoActs DEF WorkersTyped
<1>3. ASSUME NEW retryable \in BOOLEAN, Throw(w, retryable)
      PROVE  WorkersTyped' /\ Acts(w, {}, {}) /\ workers'[w].pc = "fail"
  BY <1>1, <1>3, ThrowActs DEF WorkersTyped
<1> QED
  BY <1>2, <1>3

\* The steps that only look.
LEMMA LookKeeps ==
  ASSUME RInv, NEW w \in Workers, Read(w) \/ Verify(w) \/ Occupied(w) \/ Recheck(w) \/ Confirm(w),
         UNCHANGED touched
  PROVE  RInv' /\ [Next]_jobs
<1> DEFINE x == workers[w]
           y == workers'[w]
<1> USE DEF HandlerPoints
<1>1. /\ x.pc \in HandlerPoints /\ UNCHANGED <<jobs, item, files>>
      /\ \/ \E to \in HandlerPoints \cup {"finish"} :
              /\ Goto(w, to)
              /\ to \in PastRename => ~quarantined
         \/ \E retryable \in BOOLEAN : Throw(w, retryable)
  <2>1. CASE Read(w)
    BY <2>1 DEF Read, Step, At, PastRename, RInv, HomeInv
  <2>2. CASE Verify(w)
    BY <2>2 DEF Verify, AfterVerify, Step, At, PastRename
  <2>3. CASE Occupied(w)
    BY <2>3 DEF Occupied, Step, At, PastRename
  <2>4. CASE Recheck(w)
    BY <2>4 DEF Recheck, Step, At, PastRename
  <2>5. CASE Confirm(w)
    BY <2>5 DEF Confirm, Step, At, PastRename, RInv, HomeInv
  <2> QED
    BY <2>1, <2>2, <2>3, <2>4, <2>5
<1> HIDE DEF HandlerPoints
<1>2. /\ WorkersTyped' /\ Acts(w, {}, {})
      /\ y.pc \in PastRename => ~quarantined
  BY <1>1, PointsOfHandler DEF PastRename
<1> QED
  BY <1>1, <1>2, HandlerKeeps DEF files, RInv, HomeInv

\* The rename, and the two ends of the handler.
LEMMA WriteKeeps ==
  ASSUME RInv, NEW w \in Workers, Rename(w) \/ Record(w) \/ Block(w), UNCHANGED touched
  PROVE  RInv' /\ [Next]_jobs
<1> DEFINE x == workers[w]
           y == workers'[w]
<1>1. CASE Rename(w)
  <2>1. /\ x.pc \in HandlerPoints /\ UNCHANGED <<jobs, item>>
        /\ \/ /\ Goto(w, "confirm") /\ quarantined
              /\ quarantined' = FALSE /\ original' = "ours"
           \/ Goto(w, "block") /\ UNCHANGED files
    BY <1>1 DEF Rename, Step, At, HandlerPoints
  <2>2. /\ WorkersTyped' /\ Acts(w, {}, {})
        /\ y.pc \in PastRename => ~quarantined'
    BY <2>1, PointsOfHandler DEF PastRename, HandlerPoints
  <2> QED
    BY <2>1, <2>2, HandlerKeeps DEF files, RInv, HomeInv
<1>2. CASE Record(w)
  <2>1. /\ x.pc \in HandlerPoints /\ x.pc \in PastRename /\ UNCHANGED <<jobs, files>>
        /\ Goto(w, "finish")
    BY <1>2 DEF Record, Step, At, HandlerPoints, PastRename
  <2>2. WorkersTyped' /\ Acts(w, {}, {}) /\ ~quarantined
    BY <2>1, PointsOfHandler DEF RInv, HomeInv
  <2> QED
    BY <2>1, <2>2, HandlerKeeps DEF files, RInv, HomeInv
<1>3. CASE Block(w)
  <2>1. /\ x.pc \in HandlerPoints /\ UNCHANGED <<jobs, files>>
        /\ Throw(w, FALSE) /\ item'.status # "restored"
    BY <1>3 DEF Block, At, HandlerPoints, setQuarantineState
  <2>2. WorkersTyped' /\ Acts(w, {}, {}) /\ y.pc \notin PastRename
    BY <2>1, PointsOfHandler DEF PastRename
  <2> QED
    BY <2>1, <2>2, HandlerKeeps DEF files, RInv, HomeInv
<1> QED
  BY <1>1, <1>2, <1>3

LEMMA CrashKeeps ==
  ASSUME RInv, NEW w \in Workers, Crash(w), UNCHANGED <<item, files, touched>>
  PROVE  RInv' /\ [Next]_jobs
<1>1. /\ Die(w) /\ NoLocal \in {NoLocal}
      /\ workers \in [Workers -> Worker(HandlerPoints, {NoLocal})]
  BY DEF Crash, RInv, WorkersTyped
<1>2. WorkersTyped' /\ Acts(w, {}, {}) /\ workers'[w].pc \notin PastRename
  BY <1>1, DieActs DEF WorkersTyped, PastRename
<1> QED
  BY <1>2, HandlerKeeps DEF files, RInv, HomeInv

LEMMA RInvNext == RInv /\ [RNext]_restoreVars => RInv' /\ [Next]_jobs
<1> SUFFICES ASSUME RInv, [RNext]_restoreVars PROVE RInv' /\ [Next]_jobs
  OBVIOUS
<1>1. CASE UNCHANGED restoreVars
  <2>1. UNCHANGED <<jobs, workers, item, quarantined, original, touched>>
    BY <1>1 DEF restoreVars, files
  <2>2. IndInv' /\ LinkInv' /\ WorkersTyped'
    BY <2>1 DEF RInv, IndInv, TypeOK, Ids, LinkInv, LinkOK, Linked, Bounded, WorkersTyped
  <2>3. HomeInv'
    BY <2>1 DEF RInv, HomeInv, Completed, Ids
  <2> QED
    BY <2>1, <2>2, <2>3 DEF RInv
<1>2. ASSUME NEW w \in Workers, RestoreMoves(w), UNCHANGED touched
      PROVE  RInv' /\ [Next]_jobs
  BY <1>2, ProcessMovesKeep, LoadKeeps, LookKeeps, WriteKeeps DEF RestoreMoves
<1> QED
  BY <1>1, <1>2, ServerKeeps, UserKeeps, TickKeeps, CrashKeeps DEF RNext

LEMMA RInvInit == RInit => RInv
<1> SUFFICES ASSUME RInit PROVE RInv
  OBVIOUS
<1>1. IndInv /\ Ids = {}
  BY IndInvInit, EmptySeq DEF RInit, ProcessInit, Init, Ids
<1>2. Idle("recover") \in Worker(HandlerPoints, {NoLocal}) /\ Idle("recover").pc = "recover"
  BY IdleType DEF Points
<1>3. WorkersTyped /\ \A w \in Workers : workers[w].pc = "recover"
  BY <1>2 DEF WorkersTyped, RInit, ProcessInit
<1> QED
  BY <1>1, <1>3 DEF RInv, LinkInv, Bounded, LinkOK, Linked, HomeInv, PastRename, RInit

-----------------------------------------------------------------------------
(* The theorems.                                                           *)

\* Whatever requests, workers, crashes and the user do in between: a file that the
\* record calls restored, or whose job completed, has left quarantine and is at its
\* original path, until the user lays hands on it.
THEOREM RestoreCorrect == RSpec => []RestoredIsHome
<1>1. RInv => RestoredIsHome
  BY DEF RInv, HomeInv, RestoredIsHome, Completed
<1> QED
  BY <1>1, RInvInit, RInvNext, PTL DEF RSpec

\* The workers that restore, and the server that asks them to, are clients of the
\* queue: its theorems hold of the table they share.
THEOREM RestoreImplementsQueue == RSpec => Spec
<1>1. RInit => Init
  BY DEF RInit, ProcessInit
<1> QED
  BY <1>1, RInvInit, RInvNext, PTL DEF RSpec, Spec

-----------------------------------------------------------------------------
(* The tables of the analysis.                                             *)

ReviewStatuses == {"none", "open", "resolved", "dismissed"}

\* The tables that the properties are about.
IsStore(s) ==
  s = [hashes |-> s.hashes, unhashed |-> s.unhashed, groups |-> s.groups,
       reviews |-> s.reviews, results |-> s.results, files |-> s.files,
       rule |-> s.rule, semantic |-> s.semantic]

GroupsTyped(groups) ==
  /\ DOMAIN groups = GroupKinds
  /\ \A kind \in GroupKinds : groups[kind] \in [Keys[kind] -> Group]

Tables(s) ==
  /\ IsStore(s)
  /\ s.hashes \in [Files -> Digests \cup {0}]
  /\ GroupsTyped(s.groups)
  /\ s.reviews \in [ReviewKeys -> ReviewStatuses]

\* What no step does to the tables, whoever takes it: record a digest that is not the
\* file's, join files of other digests, or touch a review that has been decided.
HashesKept(hashes) == \A f \in Files : hashes[f] \in {store.hashes[f], Content[f]}
GroupsKept(groups) ==
  \A k \in Digests : groups["exact"][k].members \subseteq
                       store.groups["exact"][k].members \cup {f \in Files : store.hashes[f] = k}
ReviewsKept(reviews) ==
  \A key \in ReviewKeys : store.reviews[key] \in {"resolved", "dismissed"} =>
    /\ reviews[key] \in {"resolved", "dismissed"}
    /\ reviews[key] # store.reviews[key] => resolveNeedsReview(key)

StoreStep ==
  Tables(store') /\ HashesKept(store'.hashes) /\ GroupsKept(store'.groups)
                 /\ ReviewsKept(store'.reviews)

-----------------------------------------------------------------------------
(* The writers of intelligence-store.ts.                                   *)

LEMMA QuietTables == ASSUME Tables(store), UNCHANGED store PROVE StoreStep
BY DEF Tables, StoreStep, HashesKept, GroupsKept, ReviewsKept

\* A table that no property is about.
LEMMA OtherTables ==
  ASSUME Tables(store), IsStore(store'), store'.hashes = store.hashes,
         store'.groups = store.groups, store'.reviews = store.reviews
  PROVE  StoreStep
BY DEF Tables, StoreStep, HashesKept, GroupsKept, ReviewsKept

LEMMA ReviewTables ==
  ASSUME Tables(store), IsStore(store'), store'.hashes = store.hashes,
         store'.groups = store.groups,
         store'.reviews \in [ReviewKeys -> ReviewStatuses], ReviewsKept(store'.reviews)
  PROVE  StoreStep
BY DEF Tables, StoreStep, HashesKept, GroupsKept

LEMMA HashTables ==
  ASSUME Tables(store), NEW f \in Files, saveHash(f, Content[f])
  PROVE  StoreStep
<1>1. Content[f] \in Digests
  BY DEF Digests
<1>2. /\ IsStore(store') /\ store'.groups = store.groups /\ store'.reviews = store.reviews
      /\ store'.hashes = [store.hashes EXCEPT ![f] = Content[f]]
  BY DEF saveHash, Tables, IsStore
<1>3. /\ store'.hashes \in [Files -> Digests \cup {0}]
      /\ \A g \in Files : store'.hashes[g] \in {store.hashes[g], Content[g]}
  BY <1>1, <1>2 DEF Tables
<1> QED
  BY <1>2, <1>3 DEF Tables, StoreStep, HashesKept, GroupsKept, ReviewsKept

\* A review is opened the first time it is asked for.
LEMMA Raised ==
  ASSUME Tables(store), NEW key
  PROVE  /\ createNeedsReview(store.reviews, key) \in [ReviewKeys -> ReviewStatuses]
         /\ ReviewsKept(createNeedsReview(store.reviews, key))
BY DEF Tables, createNeedsReview, ReviewStatuses, ReviewsKept

LEMMA GroupTables ==
  ASSUME Tables(store), NEW kind \in GroupKinds, NEW groups \in [Keys[kind] -> Group],
         kind = "exact" => \A k \in Digests : groups[k].members \subseteq
           store.groups["exact"][k].members \cup {f \in Files : store.hashes[f] = k},
         IsStore(store'), store'.hashes = store.hashes,
         store'.groups = [store.groups EXCEPT ![kind] = groups],
         store'.reviews \in [ReviewKeys -> ReviewStatuses], ReviewsKept(store'.reviews)
  PROVE  StoreStep
<1> DEFINE all == [store.groups EXCEPT ![kind] = groups]
<1>1. GroupsTyped(all) /\ GroupsKept(all)
  BY DEF Tables, GroupsTyped, GroupsKept, GroupKinds
<1> HIDE DEF all
<1>2. store'.groups = all
  BY DEF all
<1> QED
  BY <1>1, <1>2 DEF StoreStep, Tables, HashesKept

\* The keys of the groups of a kind, and the members there are now.
LEMMA GroupTypes ==
  ASSUME NEW kind \in GroupKinds
  PROVE  /\ NoGroup \in Group /\ NoGroup.members = {}
         /\ kind = "exact" => Keys[kind] = Digests
         /\ \A k : MembersNow(kind, k) \subseteq Files
         /\ kind = "exact" => \A k : MembersNow(kind, k) = {f \in Files : store.hashes[f] = k}
BY DEF NoGroup, Group, Keys, MembersNow, GroupKinds

LEMMA SameReviews ==
  ASSUME Tables(store), store'.reviews = store.reviews
  PROVE  store'.reviews \in [ReviewKeys -> ReviewStatuses] /\ ReviewsKept(store'.reviews)
BY DEF Tables, ReviewsKept

LEMMA ClearTables ==
  ASSUME Tables(store), NEW kind \in GroupKinds, clearDuplicateGroups(kind)
  PROVE  StoreStep
<1> DEFINE groups == [k \in Keys[kind] |-> NoGroup]
<1>1. groups \in [Keys[kind] -> Group]
  BY GroupTypes
<1>2. kind = "exact" => \A k \in Digests : groups[k].members = {}
  BY GroupTypes
<1>3. /\ IsStore(store') /\ store'.hashes = store.hashes /\ store'.reviews = store.reviews
      /\ store'.groups = [store.groups EXCEPT ![kind] = groups]
  BY DEF clearDuplicateGroups, Tables, IsStore
<1> HIDE DEF groups
<1> QED
  BY <1>1, <1>2, <1>3, GroupTables, SameReviews

LEMMA UpsertTables ==
  ASSUME Tables(store), NEW kind \in GroupKinds, NEW k, store' = upsertGroup(kind, k)
  PROVE  StoreStep
<1> DEFINE old == store.groups[kind]
           new == [old[k] EXCEPT !.members = @ \cup MembersNow(kind, k)]
           groups == [old EXCEPT ![k] = new]
<1>1. old \in [Keys[kind] -> Group]
  BY DEF Tables, GroupsTyped
<1>2. ASSUME k \in Keys[kind]
      PROVE  new \in Group /\ new.members = old[k].members \cup MembersNow(kind, k)
  BY <1>1, <1>2, GroupTypes DEF Group
<1>3. /\ IsStore(store') /\ store'.hashes = store.hashes /\ store'.reviews = store.reviews
      /\ store'.groups = [store.groups EXCEPT ![kind] = groups]
  BY DEF upsertGroup, Tables, IsStore
<1> HIDE DEF new
<1>4. groups \in [Keys[kind] -> Group]
  BY <1>1, <1>2
<1>5. ASSUME kind = "exact", NEW d \in Digests
      PROVE  groups[d].members \subseteq
               store.groups["exact"][d].members \cup {f \in Files : store.hashes[f] = d}
  <2>1. d \in Keys[kind] /\ MembersNow(kind, d) = {f \in Files : store.hashes[f] = d}
    BY <1>5, GroupTypes
  <2> QED
    BY <1>1, <1>2, <1>5, <2>1
<1> HIDE DEF groups, old
<1> QED
  BY <1>3, <1>4, <1>5, GroupTables, SameReviews

-----------------------------------------------------------------------------
(* The user.                                                               *)

LEMMA DecideTables ==
  ASSUME Tables(store), NEW kind \in GroupKinds, NEW k \in Keys[kind],
         decideDuplicateGroup(kind, k)
  PROVE  StoreStep
<1> DEFINE old == store.groups[kind]
           new == [old[k] EXCEPT !.decided = old[k].members]
           groups == [old EXCEPT ![k] = new]
           key == <<"keeper", k>>
           reviews == IF kind = "exact" /\ store.reviews[key] = "open"
                      THEN [store.reviews EXCEPT ![key] = "resolved"] ELSE store.reviews
<1>1. old \in [Keys[kind] -> Group] /\ store.reviews \in [ReviewKeys -> ReviewStatuses]
  BY DEF Tables, GroupsTyped
<1>2. new \in Group /\ new.members = old[k].members
  BY <1>1 DEF Group
<1>3. /\ IsStore(store') /\ store'.hashes = store.hashes /\ store'.reviews = reviews
      /\ store'.groups = [store.groups EXCEPT ![kind] = groups]
  BY DEF decideDuplicateGroup, Tables, IsStore
<1>4. reviews \in [ReviewKeys -> ReviewStatuses] /\ ReviewsKept(reviews)
  BY <1>1 DEF ReviewStatuses, ReviewsKept
<1> HIDE DEF new, reviews
<1>5. groups \in [Keys[kind] -> Group] /\ \A d \in Keys[kind] : groups[d].members = old[d].members
  BY <1>1, <1>2
<1>6. kind = "exact" => \A d \in Digests : groups[d].members = store.groups["exact"][d].members
  BY <1>5, GroupTypes
<1> HIDE DEF groups, old
<1> QED
  BY <1>3, <1>4, <1>5, <1>6, GroupTables

LEMMA ResolveTables ==
  ASSUME Tables(store), NEW key \in ReviewKeys, resolveNeedsReview(key)
  PROVE  StoreStep
<1>1. store.reviews \in [ReviewKeys -> ReviewStatuses]
  BY DEF resolveNeedsReview, Tables
<1>2. /\ IsStore(store') /\ store'.hashes = store.hashes /\ store'.groups = store.groups
      /\ \E status \in {"resolved", "dismissed"} :
           store'.reviews = [store.reviews EXCEPT ![key] = status]
  BY DEF resolveNeedsReview, Tables, IsStore
<1>3. store'.reviews \in [ReviewKeys -> ReviewStatuses] /\ ReviewsKept(store'.reviews)
  BY <1>1, <1>2 DEF ReviewStatuses, ReviewsKept
<1> QED
  BY <1>2, <1>3, ReviewTables

LEMMA UserTables == ASSUME Tables(store), UserActs PROVE StoreStep
BY QuietTables, DecideTables, ResolveTables DEF UserActs, EditFile, ChangeSettings

-----------------------------------------------------------------------------
(* The workers.                                                            *)

\* A step of a handler that reads.
Looks(w) ==
  \/ BeginHash(w) \/ HashPage(w) \/ HashChunk(w) \/ SaveHashed(w) \/ ReportHashed(w)
  \/ HashingDone(w) \/ BeginDetect(w) \/ SaveCleared(w) \/ GroupPage(w) \/ SaveGroups(w)
  \/ ReportGroups(w) \/ BeginMedia(w) \/ MediaPage(w) \/ MediaApproved(w) \/ MediaChunk(w)
  \/ SaveAnalyzed(w) \/ ReportAnalyzed(w) \/ BeginRelations(w) \/ RelationPage(w)
  \/ ReportRelations(w)

LEMMA LooksSame == ASSUME NEW w, Looks(w) PROVE UNCHANGED store
BY DEF Looks, BeginHash, HashPage, HashChunk, SaveHashed, ReportHashed, HashingDone,
       BeginDetect, SaveCleared, GroupPage, SaveGroups, ReportGroups, BeginMedia, MediaPage,
       MediaApproved, MediaChunk, SaveAnalyzed, ReportAnalyzed, BeginRelations, RelationPage,
       ReportRelations, Begin, Save, Report

LEMMA KindIsGroupKind == ASSUME NEW w PROVE KindOf(w) \in GroupKinds
BY DEF KindOf, GroupKinds

\* A failure to hash and a source that cannot be analyzed: a review is asked for.
LEMMA FailureTables ==
  ASSUME Tables(store), NEW f, recordHashFailure(f) \/ createSourceFailure(f)
  PROVE  StoreStep
<1> DEFINE reviews == createNeedsReview(store.reviews, <<"stale", f>>)
<1>1. /\ IsStore(store') /\ store'.hashes = store.hashes /\ store'.groups = store.groups
      /\ store'.reviews = reviews
  BY DEF recordHashFailure, createSourceFailure, Tables, IsStore
<1> HIDE DEF reviews
<1> QED
  BY <1>1, Raised, ReviewTables DEF reviews

\* What is read is matched again when it has been read.
LEMMA FileTables ==
  ASSUME Tables(store), NEW w, NEW f \in Files, StartFile(w, f) \/ FinishFile(w, f)
  PROVE  StoreStep
<1>1. \/ UNCHANGED store
      \/ saveHash(f, Content[f])
      \/ recordHashFailure(f)
      \/ matchesObservation(f) /\ saveHash(f, Computed(f))
  BY DEF StartFile, FinishFile
<1>2. matchesObservation(f) => Computed(f) = Content[f]
  BY DEF matchesObservation, Computed
<1> QED
  BY <1>1, <1>2, QuietTables, HashTables, FailureTables

LEMMA GroupStepTables ==
  ASSUME Tables(store), NEW w, UpsertGroup(w) \/ AskForKeeper(w) \/ Clear(w)
  PROVE  StoreStep
<1>1. CASE Clear(w)
  BY <1>1, KindIsGroupKind, ClearTables DEF Clear
<1>2. CASE UpsertGroup(w)
  <2>1. UNCHANGED store \/ \E k : store' = upsertGroup(KindOf(w), k)
    BY <1>2 DEF UpsertGroup
  <2> QED
    BY <2>1, KindIsGroupKind, QuietTables, UpsertTables
<1>3. CASE AskForKeeper(w)
  <2> DEFINE reviews == createNeedsReview(store.reviews, <<"keeper", Local(w).cursor>>)
  <2>1. /\ IsStore(store') /\ store'.hashes = store.hashes /\ store'.groups = store.groups
        /\ store'.reviews = reviews
    BY <1>3 DEF AskForKeeper, Tables, IsStore
  <2> HIDE DEF reviews
  <2> QED
    BY <2>1, Raised, ReviewTables DEF reviews
<1> QED
  BY <1>1, <1>2, <1>3

LEMMA MediaTables ==
  ASSUME Tables(store), NEW w,
         \/ \E f \in Files : StartTask(w, f) \/ FinishTask(w, f)
         \/ saveAnalyzerResult(w) \/ saveUnderstanding(w) \/ createReviewItems(w)
  PROVE  StoreStep
<1>1. CASE \E f \in Files : StartTask(w, f) \/ FinishTask(w, f)
  <2>1. PICK f \in Files : StartTask(w, f) \/ FinishTask(w, f)
    BY <1>1
  <2>2. StartTask(w, f) => UNCHANGED store \/ createSourceFailure(f)
    BY Zenon DEF StartTask
  <2>3. FinishTask(w, f) => UNCHANGED store \/ createSourceFailure(f)
    BY Zenon DEF FinishTask
  <2> QED
    BY <2>1, <2>2, <2>3, QuietTables, FailureTables
<1>2. CASE saveAnalyzerResult(w) \/ saveUnderstanding(w)
  <2>1. /\ IsStore(store') /\ store'.hashes = store.hashes /\ store'.groups = store.groups
        /\ store'.reviews = store.reviews
    BY <1>2 DEF saveAnalyzerResult, saveUnderstanding, Tables, IsStore
  <2> QED
    BY <2>1, OtherTables
<1>3. CASE createReviewItems(w)
  <2> DEFINE o == NextOutcome(w)
             unsure == IF o.unsure THEN createNeedsReview(store.reviews, <<"unsure", o.file>>)
                                   ELSE store.reviews
             reviews == IF o.result = "failed" THEN createNeedsReview(unsure, <<"failed", o.file>>)
                                               ELSE unsure
  <2>1. /\ IsStore(store') /\ store'.hashes = store.hashes /\ store'.groups = store.groups
        /\ store'.reviews = reviews
    BY <1>3 DEF createReviewItems, Tables, IsStore
  <2>2. unsure \in [ReviewKeys -> ReviewStatuses] /\ ReviewsKept(unsure)
    BY Raised DEF Tables, ReviewsKept
  <2>3. reviews \in [ReviewKeys -> ReviewStatuses] /\ ReviewsKept(reviews)
    <3> HIDE DEF unsure
    <3> QED
      BY <2>2 DEF createNeedsReview, ReviewStatuses, ReviewsKept
  <2> HIDE DEF reviews
  <2> QED
    BY <2>1, <2>3, ReviewTables
<1> QED
  BY <1>1, <1>2, <1>3

LEMMA SemanticTables ==
  ASSUME Tables(store), NEW w,
         clearSemanticAnalysis(w) \/ saveSemanticGroup(w) \/ applyGroupContext(w)
  PROVE  StoreStep
<1>1. /\ IsStore(store') /\ store'.hashes = store.hashes /\ store'.groups = store.groups
      /\ store'.reviews = store.reviews
  BY DEF clearSemanticAnalysis, saveSemanticGroup, applyGroupContext, Tables, IsStore
<1> QED
  BY <1>1, OtherTables

LEMMA StoreSteps == ASSUME Tables(store), [INext]_vars PROVE StoreStep
<1>1. CASE UNCHANGED store
  BY <1>1, QuietTables
<1>2. CASE UserActs
  BY <1>2, UserTables
<1>3. ASSUME NEW w \in Workers, IdentityMoves(w) PROVE StoreStep
  <2>1. \/ Looks(w) \/ UpsertGroup(w) \/ AskForKeeper(w) \/ Clear(w)
        \/ \E f \in Files : StartFile(w, f) \/ FinishFile(w, f)
    BY <1>3 DEF IdentityMoves, GroupMoves, Looks
  <2> QED
    BY <2>1, LooksSame, QuietTables, FileTables, GroupStepTables
<1>4. ASSUME NEW w \in Workers, MetadataMoves(w) PROVE StoreStep
  <2>1. \/ Looks(w) \/ clearSemanticAnalysis(w) \/ saveSemanticGroup(w) \/ applyGroupContext(w)
        \/ \E f \in Files : StartTask(w, f) \/ FinishTask(w, f)
        \/ saveAnalyzerResult(w) \/ saveUnderstanding(w) \/ createReviewItems(w)
    BY <1>4 DEF MetadataMoves, Looks
  <2> QED
    BY <2>1, LooksSame, QuietTables, MediaTables, SemanticTables
<1>5. [INext]_vars => \/ UNCHANGED store \/ UserActs
                      \/ \E w \in Workers : IdentityMoves(w) \/ MetadataMoves(w)
  BY DEF INext, vars, WorkerMoves, Load
<1> QED
  BY <1>1, <1>2, <1>3, <1>4, <1>5

-----------------------------------------------------------------------------
(* Theorems about the tables.                                              *)

LEMMA FirstTables == ASSUME IInit PROVE Tables(store) /\ ExactGroupsAreExact
<1>1. store = EmptyStore({})
  BY DEF IInit
<1>2. \A kind \in GroupKinds : store.groups[kind] = [k \in Keys[kind] |-> NoGroup]
  BY <1>1 DEF EmptyStore
<1>3. GroupsTyped(store.groups)
  BY <1>1, <1>2, GroupTypes DEF GroupsTyped, EmptyStore
<1>4. IsStore(store) /\ store.hashes \in [Files -> Digests \cup {0}]
  BY <1>1 DEF EmptyStore, IsStore
<1>5. store.reviews \in [ReviewKeys -> ReviewStatuses]
  BY <1>1 DEF EmptyStore, ReviewStatuses
<1>6. ExactGroupsAreExact
  <2>1. "exact" \in GroupKinds
    BY DEF GroupKinds
  <2>2. /\ Keys["exact"] = Digests /\ NoGroup.members = {}
        /\ store.groups["exact"] = [k \in Keys["exact"] |-> NoGroup]
    BY <1>2, <2>1, GroupTypes
  <2>3. \A k \in Digests : store.groups["exact"][k].members = {}
    BY <2>2
  <2> QED
    BY <1>1, <2>3 DEF ExactGroupsAreExact, EmptyStore
<1> QED
  BY <1>3, <1>4, <1>5, <1>6 DEF Tables

\* FinishFile and upsertGroup of src/intelligence/hash-job.ts, "only complete SHA-256
\* matches are shown as verified exact duplicates": a file is recorded with the digest of
\* what was inventoried and an exact group never joins two contents, however many workers
\* hash at once, whatever the user edits meanwhile, and whichever run a group is left from.
THEOREM GroupsExact == ISpec => []ExactGroupsAreExact
<1> DEFINE SInv == Tables(store) /\ ExactGroupsAreExact
<1>1. IInit => SInv
  BY FirstTables
<1>2. SInv /\ [INext]_vars => SInv'
  <2> SUFFICES ASSUME SInv, [INext]_vars PROVE SInv'
    OBVIOUS
  <2>1. StoreStep
    BY StoreSteps
  <2>2. ASSUME NEW f \in Files PROVE store'.hashes[f] \in {0, Content[f]}
    BY <2>1, <2>2 DEF StoreStep, HashesKept, ExactGroupsAreExact
  <2>3. ASSUME NEW k \in Digests, NEW f \in store'.groups["exact"][k].members
        PROVE  Content[f] = k
    <3>1. f \in store.groups["exact"][k].members \/ (f \in Files /\ store.hashes[f] = k)
      BY <2>1, <2>3 DEF StoreStep, GroupsKept
    <3>2. k # 0
      BY AnalysisAssumption DEF Digests
    <3> QED
      BY <3>1, <3>2 DEF ExactGroupsAreExact
  <2>4. Tables(store)'
    BY <2>1 DEF StoreStep, Tables, IsStore, GroupsTyped
  <2> QED
    BY <2>2, <2>3, <2>4 DEF ExactGroupsAreExact
<1> QED
  BY <1>1, <1>2, PTL DEF ISpec

\* createNeedsReview of src/intelligence/intelligence-store.ts, "review decisions are
\* durable": no step of any worker opens a review again that the user has decided, or
\* decides it otherwise; the user may, but does not open it either.
THEOREM DecisionsStay == ISpec => DecidedStaysDecided
<1>1. IInit => Tables(store)
  BY FirstTables
<1>2. Tables(store) /\ [INext]_vars => Tables(store)'
  BY StoreSteps DEF StoreStep, Tables, IsStore, GroupsTyped
<1>3. Tables(store) /\ [INext]_vars =>
        [\A k \in ReviewKeys : store.reviews[k] \in {"resolved", "dismissed"} =>
           /\ store'.reviews[k] \in {"resolved", "dismissed"}
           /\ store'.reviews[k] # store.reviews[k] => resolveNeedsReview(k)]_vars
  BY StoreSteps DEF StoreStep, ReviewsKept
<1> QED
  BY <1>1, <1>2, <1>3, PTL DEF ISpec, DecidedStaysDecided

-----------------------------------------------------------------------------
(* The stages and the queue: where a handler is, and what it has in hand   *)
(* there, whatever the tables hold.                                        *)

\* What AnalysisService.start submits, and how a handler begins.
OnlyStages ==
  /\ \A s \in Submissions : s.kind \in {"detect", "hash", "media", "relations"}
  /\ NoLocal = Nothing

StagePoints == IdentityPoints \cup MetadataPoints
GroupPoints == {"clear", "cleared", "groupPage", "group", "groupReport"}
PointsOf ==
  [detect    |-> {"detect"} \cup GroupPoints,
   hash      |-> {"hash", "hashPage", "hashChunk", "hashFiles", "hashReport", "hashed"}
                   \cup GroupPoints,
   media     |-> {"media", "mediaPage", "mediaApproved", "mediaChunk", "mediaFiles", "mediaReport"},
   relations |-> {"relations", "relClear", "relPage", "relGroup", "relContext"}]

GroupKind(kind) == IF kind = "detect" THEN "candidate" ELSE "exact"
FirstOf(kind) == IF kind = "detect" THEN 1 ELSE N + 2
PagePoints == {"hashChunk", "hashFiles", "hashReport", "mediaApproved", "mediaChunk", "mediaFiles",
               "mediaReport"}
PlacesOf(s) == {r.place : r \in Evidence[s]}

\* A page of files, of groups or of places, and the position that is saved with it.
Placed(pc, l, kind) ==
  /\ pc \in StagePoints => pc \in PointsOf[kind]
  /\ pc \in PagePoints => l.page \subseteq Files
  /\ pc \in {"hashChunk", "mediaApproved", "mediaChunk"} => l.page # {}
  /\ pc \in {"hashFiles", "mediaFiles"} => l.last \in Files
  /\ pc = "group" => l.page \subseteq Keys[GroupKind(kind)] /\ l.last \in Keys[GroupKind(kind)]
  /\ pc \in {"relPage", "relGroup", "relContext"} => l.last \in Sweeps
  /\ pc \in {"relGroup", "relContext"} => l.page \subseteq PlacesOf(l.last)
  /\ pc = "relContext" => l.page # {}

StagesTyped == workers \in [Workers -> Worker(StagePoints, Locals)]

AInv ==
  /\ IndInv /\ LinkInv /\ StagesTyped /\ Tables(store)
  /\ \A w \in Workers :
       Linked(workers[w]) => Placed(workers[w].pc, workers[w].local, JobOf(w).sub.kind)

-----------------------------------------------------------------------------
(* Pages.                                                                  *)

\* A page is the beginning of what is left, and it is empty only at the end.
LEMMA FirstPage ==
  ASSUME NEW S \in SUBSET Nat, NEW n \in Nat \ {0}
  PROVE  /\ First(n, S) \subseteq S
         /\ \A p \in First(n, S), q \in S : q <= p => q \in First(n, S)
         /\ First(n, S) = {} => S = {}
<1> DEFINE upTo(p) == {q \in S : q <= p}
           page == First(n, S)
<1>1. page = {p \in S : Cardinality(upTo(p)) <= n} /\ \A p \in S : p \in Nat
  BY DEF First
<1>2. ASSUME NEW p \in S PROVE IsFiniteSet(upTo(p)) /\ Cardinality(upTo(p)) \in Nat
  <2>1. IsFiniteSet(0 .. p)
    BY <1>1, FS_Interval
  <2>2. \A q \in upTo(p) : q \in 0 .. p
    BY <1>1
  <2> HIDE DEF upTo
  <2>3. upTo(p) \in SUBSET (0 .. p)
    BY <2>2
  <2> QED
    BY <2>1, <2>3, FS_Subset, FS_CardinalityType
<1>3. ASSUME NEW p \in page, NEW q \in S, q <= p PROVE q \in page
  <2>1. p \in S /\ Cardinality(upTo(p)) <= n
    BY <1>1
  <2>2. \A r \in upTo(q) : r \in upTo(p)
    BY <1>1, <1>3, <2>1
  <2> HIDE DEF upTo
  <2>3. Cardinality(upTo(q)) <= Cardinality(upTo(p))
    BY <1>2, <2>1, <2>2, FS_Subset
  <2>4. Cardinality(upTo(q)) \in Nat /\ Cardinality(upTo(p)) \in Nat
    BY <1>2, <2>1
  <2> QED
    BY <1>1, <2>1, <2>3, <2>4
<1>4. ASSUME S # {} PROVE page # {}
  <2>1. PICK p \in S : \A q \in S : p <= q
    BY <1>4, LeastElement
  <2>2. p \in upTo(p) /\ \A q \in upTo(p) : q = p
    <3>1. \A q \in S : q <= p => q = p
      BY <1>1, <2>1
    <3> QED
      BY <1>1, <3>1
  <2> HIDE DEF upTo
  <2>3. Cardinality(upTo(p)) = 1
    <3>1. upTo(p) = {p}
      BY <2>2
    <3> QED
      BY <3>1, FS_Singleton
  <2>4. Cardinality(upTo(p)) <= n
    BY <2>3
  <2> QED
    BY <1>1, <2>4
<1>5. page \subseteq S
  BY <1>1
<1> QED
  BY <1>3, <1>4, <1>5

LEMMA LastOne ==
  ASSUME NEW b \in Nat, NEW S \in SUBSET (0 .. b), S # {}
  PROVE  Last(S) \in S /\ \A p \in S : p <= Last(S)
<1>1. \E f \in S : \A g \in S : g <= f
  BY GreatestElement
<1> QED
  BY <1>1 DEF Last

LEMMA LeastOne ==
  ASSUME NEW S \in SUBSET Nat, S # {}
  PROVE  Least(S) \in S /\ \A p \in S : Least(S) <= p
<1>1. \E f \in S : \A g \in S : f <= g
  BY LeastElement
<1> QED
  BY <1>1 DEF Least

\* The files are numbers, and so are the keys of the groups.
LEMMA FileNumbers == N \in Nat /\ Files = 1 .. N /\ Files \in SUBSET Nat /\ Files \in SUBSET (0 .. N)
BY AnalysisAssumption

LEMMA KeyNumbers ==
  ASSUME NEW kind
  PROVE  LET keys == Keys[GroupKind(kind)]
         IN /\ GroupKind(kind) \in GroupKinds
            /\ MaxUnits \in Nat /\ keys \in SUBSET (Nat \ {0}) /\ keys \in SUBSET (0 .. MaxUnits)
            /\ FirstOf(kind) \in Nat \ {0}
            /\ \A k \in keys : FirstOf(kind) + k \in Checkpoints
            /\ FirstOf(kind) \in Checkpoints /\ N + 1 \in Checkpoints
            /\ \A f \in Files : f \in Checkpoints
<1>1. /\ MaxUnits \in Nat /\ Checkpoints = 0 .. MaxUnits /\ N \in Nat /\ Files = 1 .. N
      /\ N + 2 <= MaxUnits
  BY BoundsAssumption, AnalysisAssumption, IdentityAssumption DEF Checkpoints
<1>2. CASE kind = "detect"
  <2>1. Keys[GroupKind(kind)] = Sizes /\ FirstOf(kind) = 1 /\ GroupKind(kind) = "candidate"
    BY <1>2 DEF Keys, GroupKind, FirstOf
  <2>2. \A k \in Sizes : k \in Nat \ {0} /\ 1 + k <= MaxUnits
    BY AnalysisAssumption, IdentityAssumption DEF Sizes
  <2> QED
    BY <1>1, <2>1, <2>2 DEF GroupKinds
<1>3. CASE kind # "detect"
  <2>1. Keys[GroupKind(kind)] = Digests /\ FirstOf(kind) = N + 2 /\ GroupKind(kind) = "exact"
    BY <1>3 DEF Keys, GroupKind, FirstOf
  <2>2. \A k \in Digests : k \in Nat \ {0} /\ N + 2 + k <= MaxUnits
    BY AnalysisAssumption, IdentityAssumption DEF Digests
  <2> QED
    BY <1>1, <2>1, <2>2 DEF GroupKinds
<1> QED
  BY <1>2, <1>3

LEMMA PlaceNumbers ==
  ASSUME NEW s \in Sweeps
  PROVE  PlacesOf(s) \in SUBSET Nat /\ \A r \in Evidence[s] : r.at \in Nat \ {0} /\ r.place \in Nat \ {0}
BY MetadataAssumption DEF PlacesOf, Relations

\* What a handler writes to its local variables is of their type.
LEMMA LocalTypes ==
  ASSUME NEW l \in Locals
  PROVE  /\ Nothing \in Locals
         /\ \A page \in SUBSET Nat : [l EXCEPT !.page = page] \in Locals
         /\ \A n \in Nat : [l EXCEPT !.cursor = n] \in Locals
BY DEF Locals, Nothing

-----------------------------------------------------------------------------
(* The steps of a handler.                                                 *)

\* A worker goes on, with local variables; the same with a new checkpoint; it stops.
Moves(w, point, local) ==
  LET x == workers[w]
      y == workers'[w]
  IN /\ StagesTyped' /\ Ids' = Ids /\ Acts(w, {}, {})
     /\ y.pc = point /\ y.local = local /\ y.job = x.job /\ y.saved = x.saved

Saves(w, c, point, local) ==
  LET x == workers[w]
      y == workers'[w]
  IN /\ StagesTyped' /\ Ids' = Ids /\ Acts(w, {}, {x.job})
     /\ y.pc = point /\ y.local = local /\ y.job = x.job /\ y.saved = c
     /\ jobs'[x.job].checkpoint = c

Stops(w) ==
  LET x == workers[w]
      y == workers'[w]
  IN /\ StagesTyped' /\ Ids' = Ids /\ Acts(w, {}, {}) /\ y.job = x.job
     /\ y.pc \in {"fail", "ackPause", "ackCancel"}
     /\ y.pc # "fail" => y.saved = x.saved

LEMMA StageFacts ==
  ASSUME AInv, OnlyStages, NEW w \in Workers, workers[w].pc \in StagePoints
  PROVE  LET x == workers[w]
             kind == JobOf(w).sub.kind
         IN /\ Linked(x) /\ x.job \in Ids /\ x.local \in Locals /\ NoLocal \in Locals
            /\ x.saved \in Checkpoints
            /\ kind \in {"detect", "hash", "media", "relations"}
            /\ x.pc \in PointsOf[kind] /\ Placed(x.pc, x.local, kind)
            /\ KindOf(w) = GroupKind(kind) /\ FirstGroup(w) = FirstOf(kind)
<1> DEFINE x == workers[w]
<1>1. x \in Worker(StagePoints, Locals) /\ Linked(x)
  BY DEF AInv, StagesTyped, Linked, StagePoints, IdentityPoints, MetadataPoints
<1>2. x.job \in Ids /\ x.local \in Locals /\ x.saved \in Checkpoints
  BY <1>1 DEF AInv, LinkInv, LinkOK, Worker
<1>3. JobOf(w).sub \in Submissions
  BY <1>2, RowsOfTable DEF JobOf, Job, AInv, IndInv, TypeOK, Ids, Row
<1>4. NoLocal \in Locals
  BY DEF OnlyStages, Locals, Nothing
<1>5. Placed(x.pc, x.local, JobOf(w).sub.kind)
  BY <1>1 DEF AInv
<1>6. x.pc \in PointsOf[JobOf(w).sub.kind]
  BY <1>5 DEF Placed
<1> QED
  BY <1>1, <1>2, <1>3, <1>4, <1>5, <1>6 DEF OnlyStages, KindOf, GroupKind, FirstGroup, FirstOf

LEMMA StageMoves ==
  ASSUME AInv, OnlyStages, NEW w \in Workers, workers[w].pc \in StagePoints
  PROVE  /\ UNCHANGED jobs =>
              /\ \A point \in Points \cup StagePoints :
                   Goto(w, point) => Moves(w, point, workers[w].local)
              /\ \A point \in Points \cup StagePoints, local \in Locals :
                   Continue(w, point, local) => Moves(w, point, local)
              /\ Throw(w, TRUE) \/ Goto(w, "ackPause") \/ Goto(w, "ackCancel") => Stops(w)
         /\ \A c \in Checkpoints, point \in Points \cup StagePoints, local \in Locals :
              SaveContext(w, c, point, local) => Saves(w, c, point, local)
         /\ \A point \in Points \cup StagePoints, local \in Locals :
              ReportContext(w, point, local) => Moves(w, point, local)
<1>1. /\ IndInv /\ LinkInv /\ workers \in [Workers -> Worker(StagePoints, Locals)]
      /\ Linked(workers[w]) /\ workers[w].job \in Ids /\ NoLocal \in Locals
  BY StageFacts DEF AInv, StagesTyped
<1>2. ASSUME UNCHANGED jobs
      PROVE  /\ \A point \in Points \cup StagePoints :
                  Goto(w, point) => Moves(w, point, workers[w].local)
             /\ \A point \in Points \cup StagePoints, local \in Locals :
                  Continue(w, point, local) => Moves(w, point, local)
             /\ Throw(w, TRUE) => Stops(w)
  <2>1. Ids' = Ids
    BY <1>2 DEF Ids
  <2>2. ASSUME NEW point \in Points \cup StagePoints, Goto(w, point)
        PROVE  Moves(w, point, workers[w].local)
    BY <1>1, <1>2, <2>1, <2>2, GotoActs DEF Moves, StagesTyped
  <2>3. ASSUME NEW point \in Points \cup StagePoints, NEW local \in Locals,
               Continue(w, point, local)
        PROVE  Moves(w, point, local)
    BY <1>1, <1>2, <2>1, <2>3, ContinueActs DEF Moves, StagesTyped
  <2>4. ASSUME Throw(w, TRUE) PROVE Stops(w)
    <3>1. workers' \in [Workers -> Worker(StagePoints, Locals)] /\ Acts(w, {}, {})
      BY <1>1, <1>2, <2>4, ThrowActs
    <3>2. workers'[w].pc = "fail" /\ workers'[w].job = workers[w].job
      BY <1>1, <2>4, ThrowPoint
    <3> QED
      BY <2>1, <3>1, <3>2 DEF Stops, StagesTyped
  <2> QED
    BY <2>2, <2>3, <2>4
<1>3. ASSUME UNCHANGED jobs, NEW point \in {"ackPause", "ackCancel"}, Goto(w, point)
      PROVE  Stops(w)
  <2>1. Moves(w, point, workers[w].local)
    BY <1>2, <1>3 DEF Points
  <2> QED
    BY <1>3, <2>1 DEF Moves, Stops
<1>4. ASSUME NEW c \in Checkpoints, NEW point \in Points \cup StagePoints, NEW local \in Locals,
             SaveContext(w, c, point, local)
      PROVE  Saves(w, c, point, local)
  <2>1. Ids' = Ids
    BY <1>1, <1>4, CallIds DEF SaveContext, Job
  <2> QED
    BY <1>1, <1>4, <2>1, SaveContextActs DEF Saves, StagesTyped
<1>5. ASSUME NEW point \in Points \cup StagePoints, NEW local \in Locals,
             ReportContext(w, point, local)
      PROVE  Moves(w, point, local)
  <2>1. Ids' = Ids
    BY <1>1, <1>5, CallIds DEF ReportContext, Job
  <2> QED
    BY <1>1, <1>5, <2>1, ReportContextActs DEF Moves, StagesTyped
<1> QED
  BY <1>2, <1>3, <1>4, <1>5

\* The calls that every handler makes.
LEMMA ControlledSteps ==
  ASSUME AInv, OnlyStages, NEW w \in Workers, workers[w].pc \in StagePoints,
         NEW point \in Points \cup StagePoints, NEW local \in Locals, Controlled(w, point, local)
  PROVE  Stops(w) \/ Moves(w, point, local)
<1>1. /\ UNCHANGED jobs
      /\ \/ Throw(w, TRUE) \/ Goto(w, "ackCancel") \/ Goto(w, "ackPause")
         \/ Continue(w, point, local)
  BY DEF Controlled
<1> QED
  BY <1>1, StageMoves

LEMMA BeginSteps ==
  ASSUME AInv, OnlyStages, NEW w \in Workers, NEW from \in StagePoints,
         NEW to \in StagePoints, NEW local \in Locals, Begin(w, from, to, local)
  PROVE  workers[w].pc = from /\ UNCHANGED store /\ (Stops(w) \/ Moves(w, to, local))
<1>1. /\ workers[w].pc = from /\ UNCHANGED <<jobs, store>>
      /\ Goto(w, "ackPause") \/ Throw(w, TRUE) \/ Continue(w, to, local)
  BY DEF Begin, At
<1> QED
  BY <1>1, StageMoves

LEMMA SaveSteps ==
  ASSUME AInv, OnlyStages, NEW w \in Workers, NEW from \in StagePoints, NEW c \in Checkpoints,
         NEW to \in StagePoints, NEW local \in Locals, Save(w, from, c, to, local)
  PROVE  workers[w].pc = from /\ UNCHANGED store /\ (Stops(w) \/ Saves(w, c, to, local))
<1>1. /\ workers[w].pc = from /\ UNCHANGED store
      /\ SaveContext(w, c, to, local) \/ (Throw(w, TRUE) /\ UNCHANGED jobs)
  BY DEF Save, At
<1> QED
  BY <1>1, StageMoves

LEMMA ReportSteps ==
  ASSUME AInv, OnlyStages, NEW w \in Workers, NEW from \in StagePoints,
         NEW to \in StagePoints, NEW local \in Locals, Report(w, from, to, local)
  PROVE  workers[w].pc = from /\ UNCHANGED store /\ (Stops(w) \/ Moves(w, to, local))
<1>1. /\ workers[w].pc = from /\ UNCHANGED store
      /\ ReportContext(w, to, local) \/ (Throw(w, TRUE) /\ UNCHANGED jobs)
  BY DEF Report, At
<1> QED
  BY <1>1, StageMoves

-----------------------------------------------------------------------------
(* The handlers of hash-job.ts, action by action.                          *)

\* What a page has of a set behind a position.
Paged(S, after, page) ==
  /\ page \subseteq {f \in S : f > after}
  /\ \A p \in page, q \in S : q > after /\ q <= p => q \in page
  /\ page = {} => \A q \in S : ~(q > after)

LEMMA PageOf ==
  ASSUME NEW S \in SUBSET Nat, NEW after, NEW n \in Nat \ {0}
  PROVE  Paged(S, after, First(n, {f \in S : f > after}))
<1>1. {f \in S : f > after} \in SUBSET Nat
  OBVIOUS
<1> QED
  BY <1>1, FirstPage DEF Paged

LEMMA CandidateFiles == ASSUME Tables(store) PROVE Candidates \subseteq Files
<1>1. "candidate" \in GroupKinds /\ Keys["candidate"] = Sizes
  BY DEF GroupKinds, Keys
<1>2. store.groups["candidate"] \in [Sizes -> Group]
  BY <1>1 DEF Tables, GroupsTyped
<1>3. \A k \in Sizes : store.groups["candidate"][k].members \subseteq Files
  BY <1>2 DEF Group
<1> QED
  BY <1>3 DEF Candidates

\* The first chunk of a page.
LEMMA BegunFacts ==
  ASSUME NEW l \in Locals, l.page \subseteq Files, l.page # {}
  PROVE  LET b == Begun(l)
         IN /\ b \in Locals
            /\ b.todo \subseteq l.page /\ b.page = l.page \ b.todo
            /\ b.last \in b.todo /\ b.last \in Files
            /\ \A f \in b.todo : f <= b.last
            /\ \A f \in b.page : f > b.last
            /\ b.done = {} /\ b.reading = l.reading /\ b.cursor = l.cursor
<1> DEFINE chunk == First(Chunk, l.page)
           b == [l EXCEPT !.page = l.page \ chunk, !.todo = chunk, !.last = Last(chunk), !.done = {}]
<1>1. Begun(l) = b
  BY DEF Begun
<1>2. l.page \in SUBSET Nat /\ l.page \in SUBSET (0 .. N) /\ N \in Nat /\ Chunk \in Nat \ {0}
  BY FileNumbers, AnalysisAssumption
<1>3. /\ chunk \subseteq l.page /\ chunk # {}
      /\ \A p \in chunk, q \in l.page : q <= p => q \in chunk
  BY <1>2, FirstPage
<1> HIDE DEF chunk
<1>4. chunk \in SUBSET (0 .. N)
  BY <1>2, <1>3
<1>5. Last(chunk) \in chunk /\ \A p \in chunk : p <= Last(chunk)
  BY <1>2, <1>3, <1>4, LastOne
<1>6. ASSUME NEW f \in l.page \ chunk PROVE f > Last(chunk)
  <2>1. ~(f <= Last(chunk)) /\ f \in Nat /\ Last(chunk) \in Nat
    BY <1>2, <1>3, <1>5
  <2> QED
    BY <2>1
<1>7. /\ b.page = l.page \ chunk /\ b.todo = chunk /\ b.last = Last(chunk) /\ b.done = {}
      /\ b.reading = l.reading /\ b.cursor = l.cursor
  BY DEF Locals
<1>8. Last(chunk) \in Nat /\ Last(chunk) \in Files /\ chunk \subseteq Files
      /\ l.page \ chunk \in SUBSET Nat
  BY <1>2, <1>3, <1>5
<1>9. b \in Locals
  BY <1>8 DEF Locals
<1> HIDE DEF b
<1> QED
  BY <1>1, <1>3, <1>5, <1>6, <1>7, <1>8, <1>9

Goes(w, point, local) == Stops(w) \/ Moves(w, point, local)

LEMMA BeginHashSteps ==
  ASSUME AInv, OnlyStages, NEW w \in Workers, BeginHash(w)
  PROVE  /\ workers[w].pc = "hash" /\ UNCHANGED store /\ Nothing \in Locals
         /\ \E to \in {"hashPage", "clear", "groupPage"} :
              /\ Goes(w, to, Nothing)
              /\ to = "hashPage" => workers[w].saved <= N
              /\ to = "clear" => workers[w].saved = N + 1
              /\ to = "groupPage" => workers[w].saved >= N + 2
<1> DEFINE saved == workers[w].saved
           to == IF saved <= N THEN "hashPage" ELSE IF saved = N + 1 THEN "clear" ELSE "groupPage"
<1>1. Begin(w, "hash", to, Nothing) /\ Nothing \in Locals
  BY DEF BeginHash, Saved, Locals, Nothing
<1>2. /\ to \in {"hashPage", "clear", "groupPage"} /\ to \in StagePoints /\ "hash" \in StagePoints
  BY DEF StagePoints, IdentityPoints
<1>3. workers[w].pc = "hash" /\ UNCHANGED store /\ Goes(w, to, Nothing)
  BY <1>1, <1>2, BeginSteps DEF Goes
<1>4. saved \in Nat /\ N \in Nat
  BY <1>2, <1>3, StageFacts, FileNumbers DEF Checkpoints
<1>5. /\ to = "hashPage" => saved <= N
      /\ to = "clear" => saved = N + 1
      /\ to = "groupPage" => saved >= N + 2
  BY <1>4
<1> QED
  BY <1>1, <1>2, <1>3, <1>5

LEMMA HashPageSteps ==
  ASSUME AInv, OnlyStages, NEW w \in Workers, HashPage(w)
  PROVE  LET tasks == First(PageSize, Tasks(Scope(JobOf(w)), workers[w].saved))
             next == [Nothing EXCEPT !.page = tasks]
         IN /\ workers[w].pc = "hashPage" /\ UNCHANGED store
            /\ Goes(w, IF tasks = {} THEN "hashed" ELSE "hashChunk", next)
            /\ Paged(Scope(JobOf(w)), workers[w].saved, tasks)
            /\ tasks \subseteq Files /\ next \in Locals /\ next.page = tasks
<1> DEFINE scope == Scope(JobOf(w))
           tasks == First(PageSize, Tasks(scope, workers[w].saved))
           next == [Nothing EXCEPT !.page = tasks]
           to == IF tasks = {} THEN "hashed" ELSE "hashChunk"
<1>1. workers[w].pc = "hashPage" /\ UNCHANGED store /\ Controlled(w, to, next)
  BY DEF HashPage, At, Saved
<1>2. scope \subseteq Files /\ PageSize \in Nat \ {0} /\ Files \in SUBSET Nat
  BY CandidateFiles, FileNumbers, AnalysisAssumption DEF Scope, AInv
<1> HIDE DEF scope
<1>3. Paged(scope, workers[w].saved, tasks)
  BY <1>2, PageOf DEF Tasks
<1>4. tasks \subseteq Files
  BY <1>2, <1>3 DEF Paged
<1> HIDE DEF tasks
<1>5. next \in Locals /\ next.page = tasks
  BY <1>2, <1>4 DEF Locals, Nothing
<1>6. to \in Points \cup StagePoints /\ workers[w].pc \in StagePoints
  BY <1>1 DEF StagePoints, IdentityPoints
<1> HIDE DEF next, to
<1>7. Goes(w, to, next)
  BY <1>1, <1>5, <1>6, ControlledSteps DEF Goes
<1> QED
  BY <1>1, <1>3, <1>4, <1>5, <1>7 DEF next, to, tasks, scope

LEMMA HashChunkSteps ==
  ASSUME AInv, OnlyStages, NEW w \in Workers, HashChunk(w)
  PROVE  LET l == workers[w].local
         IN /\ workers[w].pc = "hashChunk" /\ UNCHANGED store
            /\ Goes(w, "hashFiles", Begun(l))
            /\ l \in Locals /\ l.page \subseteq Files /\ l.page # {}
<1> DEFINE l == workers[w].local
<1>1. /\ workers[w].pc = "hashChunk" /\ UNCHANGED <<store>>
      /\ (Throw(w, TRUE) /\ UNCHANGED jobs) \/ Controlled(w, "hashFiles", Begun(l))
  BY DEF HashChunk, At, Local
<1>2. workers[w].pc \in StagePoints /\ "hashFiles" \in Points \cup StagePoints
  BY <1>1 DEF StagePoints, IdentityPoints
<1>3. l \in Locals /\ l.page \subseteq Files /\ l.page # {}
  BY <1>1, <1>2, StageFacts DEF Placed, PagePoints
<1>4. Begun(l) \in Locals
  BY <1>3, BegunFacts
<1> HIDE DEF l
<1>5. Goes(w, "hashFiles", Begun(l))
  BY <1>1, <1>2, <1>4, ControlledSteps, StageMoves DEF Goes
<1> QED
  BY <1>1, <1>3, <1>5 DEF l

\* A file is taken in hand: it has its hash, or gets one, or cannot be read, or is read.
LEMMA StartFileSteps ==
  ASSUME AInv, OnlyStages, NEW w \in Workers, NEW f \in Files, StartFile(w, f)
  PROVE  LET l == workers[w].local
             next == workers'[w].local
         IN /\ workers[w].pc = "hashFiles" /\ UNCHANGED jobs
            /\ Moves(w, "hashFiles", next) /\ l.page \subseteq Files /\ l.last \in Files
            /\ next.page = l.page /\ next.last = l.last /\ next.todo = l.todo \ {f}
            /\ \/ next.reading = l.reading \cup {f} /\ UNCHANGED store
               \/ /\ next.reading = l.reading
                  /\ \/ store.hashes[f] # 0 /\ UNCHANGED store
                     \/ saveHash(f, Content[f])
                     \/ recordHashFailure(f)
<1> DEFINE l == workers[w].local
           started == [l EXCEPT !.todo = l.todo \ {f}]
           opened == [started EXCEPT !.reading = l.reading \cup {f}]
<1>1. workers[w].pc = "hashFiles" /\ UNCHANGED jobs
  BY DEF StartFile, At
<1>2. workers[w].pc \in StagePoints /\ "hashFiles" \in Points \cup StagePoints
  BY <1>1 DEF StagePoints, IdentityPoints
<1>3. l \in Locals /\ l.page \subseteq Files /\ l.last \in Files
  BY <1>1, <1>2, StageFacts DEF Placed, PagePoints
<1>4. /\ started \in Locals /\ started.page = l.page /\ started.last = l.last
      /\ started.todo = l.todo \ {f} /\ started.reading = l.reading
  BY <1>3 DEF Locals
<1>5. /\ opened \in Locals /\ opened.page = l.page /\ opened.last = l.last
      /\ opened.todo = l.todo \ {f} /\ opened.reading = l.reading \cup {f}
  BY <1>3 DEF Locals
<1>6. \/ /\ Continue(w, "hashFiles", started)
         /\ \/ store.hashes[f] # 0 /\ UNCHANGED store
            \/ saveHash(f, Content[f])
            \/ recordHashFailure(f)
      \/ Continue(w, "hashFiles", opened) /\ UNCHANGED store
  <2>1. started.reading = l.reading
    BY <1>4
  <2> QED
    BY <2>1 DEF StartFile, Local
<1> HIDE DEF started, opened
<1>7. /\ Continue(w, "hashFiles", started) => Moves(w, "hashFiles", started)
      /\ Continue(w, "hashFiles", opened) => Moves(w, "hashFiles", opened)
  BY <1>1, <1>2, <1>4, <1>5, StageMoves
<1>8. \A local : Moves(w, "hashFiles", local) => workers'[w].local = local
  BY DEF Moves
<1> QED
  BY <1>1, <1>3, <1>4, <1>5, <1>6, <1>7, <1>8

\* It has been read: it has its hash, or does not match its observation.
LEMMA FinishFileSteps ==
  ASSUME AInv, OnlyStages, NEW w \in Workers, NEW f \in Files, FinishFile(w, f)
  PROVE  LET l == workers[w].local
             next == workers'[w].local
         IN /\ workers[w].pc = "hashFiles" /\ UNCHANGED jobs
            /\ Moves(w, "hashFiles", next) /\ l.page \subseteq Files /\ l.last \in Files
            /\ next.page = l.page /\ next.last = l.last /\ next.todo = l.todo
            /\ next.reading = l.reading \ {f}
            /\ saveHash(f, Content[f]) \/ recordHashFailure(f)
<1> DEFINE l == workers[w].local
           closed == [l EXCEPT !.reading = l.reading \ {f}]
<1>1. /\ workers[w].pc = "hashFiles" /\ UNCHANGED jobs /\ Continue(w, "hashFiles", closed)
      /\ saveHash(f, Content[f]) \/ recordHashFailure(f)
  BY DEF FinishFile, At, Local, matchesObservation, Computed
<1>2. workers[w].pc \in StagePoints /\ "hashFiles" \in Points \cup StagePoints
  BY <1>1 DEF StagePoints, IdentityPoints
<1>3. l \in Locals /\ l.page \subseteq Files /\ l.last \in Files
  BY <1>1, <1>2, StageFacts DEF Placed, PagePoints
<1>4. /\ closed \in Locals /\ closed.page = l.page /\ closed.last = l.last
      /\ closed.todo = l.todo /\ closed.reading = l.reading \ {f}
  BY <1>3 DEF Locals
<1> HIDE DEF closed
<1>5. Moves(w, "hashFiles", closed)
  BY <1>1, <1>2, <1>4, StageMoves
<1>6. workers'[w].local = closed
  BY <1>5 DEF Moves
<1> QED
  BY <1>1, <1>3, <1>4, <1>5, <1>6

LEMMA SaveHashedSteps ==
  ASSUME AInv, OnlyStages, NEW w \in Workers, SaveHashed(w)
  PROVE  LET l == workers[w].local
         IN /\ workers[w].pc = "hashFiles" /\ UNCHANGED store
            /\ Stops(w) \/ Saves(w, l.last, "hashReport", l)
            /\ l.todo = {} /\ l.reading = {} /\ l.page \subseteq Files /\ l.last \in Files
<1> DEFINE l == workers[w].local
<1>1. workers[w].pc = "hashFiles" /\ Save(w, "hashFiles", l.last, "hashReport", l)
      /\ l.todo = {} /\ l.reading = {}
  BY DEF SaveHashed, Save, At, Local
<1>2. workers[w].pc \in StagePoints /\ "hashFiles" \in StagePoints /\ "hashReport" \in StagePoints
  BY <1>1 DEF StagePoints, IdentityPoints
<1>3. l \in Locals /\ l.page \subseteq Files /\ l.last \in Files /\ l.last \in Checkpoints
  BY <1>1, <1>2, StageFacts, KeyNumbers DEF Placed, PagePoints
<1> QED
  BY <1>1, <1>2, <1>3, SaveSteps

LEMMA ReportHashedSteps ==
  ASSUME AInv, OnlyStages, NEW w \in Workers, ReportHashed(w)
  PROVE  LET l == workers[w].local
         IN /\ workers[w].pc = "hashReport" /\ UNCHANGED store
            /\ Goes(w, IF l.page = {} THEN "hashPage" ELSE "hashChunk", l)
            /\ l.page \subseteq Files
<1> DEFINE l == workers[w].local
           to == IF l.page = {} THEN "hashPage" ELSE "hashChunk"
<1>1. workers[w].pc = "hashReport" /\ Report(w, "hashReport", to, l)
  BY DEF ReportHashed, Report, At, Local
<1>2. workers[w].pc \in StagePoints /\ "hashReport" \in StagePoints /\ to \in StagePoints
  BY <1>1 DEF StagePoints, IdentityPoints
<1>3. l \in Locals /\ l.page \subseteq Files
  BY <1>1, <1>2, StageFacts DEF Placed, PagePoints
<1> QED
  BY <1>1, <1>2, <1>3, ReportSteps DEF Goes

LEMMA HashingDoneSteps ==
  ASSUME AInv, OnlyStages, NEW w \in Workers, HashingDone(w)
  PROVE  /\ workers[w].pc = "hashed" /\ UNCHANGED store
         /\ Stops(w) \/ Saves(w, N + 1, "clear", Nothing)
<1>1. "hashed" \in StagePoints /\ "clear" \in StagePoints /\ Nothing \in Locals /\ N + 1 \in Checkpoints
  BY KeyNumbers DEF StagePoints, IdentityPoints, Locals, Nothing
<1> QED
  BY <1>1, SaveSteps DEF HashingDone

LEMMA BeginDetectSteps ==
  ASSUME AInv, OnlyStages, NEW w \in Workers, BeginDetect(w)
  PROVE  /\ workers[w].pc = "detect" /\ UNCHANGED store /\ Nothing \in Locals
         /\ Moves(w, IF workers[w].saved = 0 THEN "clear" ELSE "groupPage", Nothing)
<1> DEFINE to == IF workers[w].saved = 0 THEN "clear" ELSE "groupPage"
<1>1. /\ workers[w].pc = "detect" /\ UNCHANGED <<jobs, store>> /\ Continue(w, to, Nothing)
      /\ Nothing \in Locals
  BY DEF BeginDetect, At, Saved, Locals, Nothing
<1>2. workers[w].pc \in StagePoints /\ to \in Points \cup StagePoints
  BY <1>1 DEF StagePoints, IdentityPoints
<1> HIDE DEF to
<1>3. Moves(w, to, Nothing)
  BY <1>1, <1>2, StageMoves
<1> QED
  BY <1>1, <1>3 DEF to

LEMMA ClearSteps ==
  ASSUME AInv, OnlyStages, NEW w \in Workers, Clear(w)
  PROVE  /\ workers[w].pc = "clear" /\ UNCHANGED jobs
         /\ clearDuplicateGroups(GroupKind(JobOf(w).sub.kind))
         /\ Moves(w, "cleared", workers[w].local)
<1>1. /\ workers[w].pc = "clear" /\ UNCHANGED jobs /\ Goto(w, "cleared")
      /\ clearDuplicateGroups(KindOf(w))
  BY DEF Clear, At
<1>2. workers[w].pc \in StagePoints /\ "cleared" \in Points \cup StagePoints
  BY <1>1 DEF StagePoints, IdentityPoints
<1>3. KindOf(w) = GroupKind(JobOf(w).sub.kind)
  BY <1>2, StageFacts
<1> QED
  BY <1>1, <1>2, <1>3, StageMoves

LEMMA SaveClearedSteps ==
  ASSUME AInv, OnlyStages, NEW w \in Workers, SaveCleared(w)
  PROVE  /\ workers[w].pc = "cleared" /\ UNCHANGED store
         /\ Stops(w) \/ Saves(w, FirstOf(JobOf(w).sub.kind), "groupPage", Nothing)
<1>1. workers[w].pc = "cleared" /\ Save(w, "cleared", FirstGroup(w), "groupPage", Nothing)
  BY DEF SaveCleared, Save, At
<1>2. workers[w].pc \in StagePoints /\ "cleared" \in StagePoints /\ "groupPage" \in StagePoints
  BY <1>1 DEF StagePoints, IdentityPoints
<1>3. FirstGroup(w) = FirstOf(JobOf(w).sub.kind) /\ Nothing \in Locals
  BY <1>2, StageFacts DEF Locals, Nothing
<1>4. FirstOf(JobOf(w).sub.kind) \in Checkpoints
  BY KeyNumbers
<1> QED
  BY <1>1, <1>2, <1>3, <1>4, SaveSteps

\* What is behind the checkpoint of the groups that there are to be.
LEMMA GroupPageSteps ==
  ASSUME AInv, OnlyStages, NEW w \in Workers, GroupPage(w)
  PROVE  LET kind == GroupKind(JobOf(w).sub.kind)
             after == workers[w].saved - FirstOf(JobOf(w).sub.kind)
         IN /\ workers[w].pc = "groupPage" /\ UNCHANGED store
            /\ \E keys \in SUBSET Keys[kind], next \in Locals :
                 /\ Paged(Duplicated(kind), after, keys)
                 /\ keys = {} => Goes(w, "finish", Nothing)
                 /\ keys # {} => /\ Goes(w, "group", next)
                                 /\ next.page = keys /\ next.cursor = 0
                                 /\ next.last \in keys /\ \A k \in keys : k <= next.last
<1> DEFINE kind == GroupKind(JobOf(w).sub.kind)
           after == workers[w].saved - FirstOf(JobOf(w).sub.kind)
           keys == First(PageSize, GroupsAfter(kind, after))
           next == [Nothing EXCEPT !.page = keys, !.last = Last(keys)]
<1>1. workers[w].pc = "groupPage" /\ UNCHANGED store
  BY DEF GroupPage, At
<1>2. workers[w].pc \in StagePoints /\ Nothing \in Locals
  BY <1>1 DEF StagePoints, IdentityPoints, Locals, Nothing
<1>3. KindOf(w) = kind /\ FirstGroup(w) = FirstOf(JobOf(w).sub.kind)
  BY <1>2, StageFacts
<1>4. Controlled(w, IF keys = {} THEN "finish" ELSE "group", IF keys = {} THEN Nothing ELSE next)
  BY <1>3 DEF GroupPage, Saved
<1>5. Paged(Duplicated(kind), after, keys)
  <2>1. GroupsAfter(kind, after) = {k \in Duplicated(kind) : k > after}
    BY DEF GroupsAfter, Duplicated
  <2>2. Duplicated(kind) \in SUBSET Nat /\ PageSize \in Nat \ {0}
    BY KeyNumbers, AnalysisAssumption DEF Duplicated
  <2> QED
    BY <2>1, <2>2, PageOf
<1>6. /\ keys \subseteq Duplicated(kind) /\ Duplicated(kind) \subseteq Keys[kind]
      /\ Keys[kind] \in SUBSET (Nat \ {0}) /\ Keys[kind] \in SUBSET (0 .. MaxUnits)
      /\ MaxUnits \in Nat
  BY <1>5, KeyNumbers DEF Paged, Duplicated
<1> HIDE DEF keys, kind, after
<1>7. CASE keys = {}
  <2>1. Goes(w, "finish", Nothing)
    BY <1>2, <1>4, <1>7, ControlledSteps DEF Points, Goes
  <2>2. keys \in SUBSET Keys[kind] /\ Nothing \in Locals
    BY <1>2, <1>6
  <2> QED
    BY <1>1, <1>5, <1>7, <2>1, <2>2 DEF kind, after
<1>8. CASE keys # {}
  <2>1. keys \in SUBSET (0 .. MaxUnits) /\ keys \in SUBSET Nat
    BY <1>6
  <2>2. Last(keys) \in keys /\ \A k \in keys : k <= Last(keys)
    BY <1>6, <1>8, <2>1, LastOne
  <2>3. /\ next \in Locals /\ next.page = keys /\ next.cursor = 0 /\ next.last = Last(keys)
    BY <2>1, <2>2 DEF Nothing, Locals
  <2>4. "group" \in Points \cup StagePoints
    BY DEF StagePoints, IdentityPoints
  <2> HIDE DEF next
  <2>5. Goes(w, "group", next)
    BY <1>2, <1>4, <1>8, <2>3, <2>4, ControlledSteps DEF Goes
  <2>6. keys \in SUBSET Keys[kind]
    BY <1>6
  <2> QED
    BY <1>1, <1>5, <1>8, <2>2, <2>3, <2>5, <2>6 DEF kind, after
<1> QED
  BY <1>7, <1>8

\* A group is written; of an exact one the keeper is still to be asked for.
LEMMA UpsertGroupSteps ==
  ASSUME AInv, OnlyStages, NEW w \in Workers, UpsertGroup(w)
  PROVE  LET kind == GroupKind(JobOf(w).sub.kind)
             l == workers[w].local
             next == workers'[w].local
         IN /\ workers[w].pc = "group" /\ l.cursor = 0
            /\ l.page \subseteq Keys[kind] /\ l.last \in Keys[kind]
            /\ \/ Stops(w) /\ UNCHANGED store
               \/ \E k \in l.page :
                    /\ UNCHANGED jobs /\ store' = upsertGroup(kind, k)
                    /\ Moves(w, "group", next) /\ next \in Locals /\ next.last = l.last
                    /\ kind = "candidate" => next.page = l.page \ {k} /\ next.cursor = 0
                    /\ kind # "candidate" => next.page = l.page /\ next.cursor = k
<1> DEFINE kind == GroupKind(JobOf(w).sub.kind)
           l == workers[w].local
           k == Least(l.page)
           taken == [l EXCEPT !.page = l.page \ {k}]
           asked == [l EXCEPT !.cursor = k]
           next == IF kind = "candidate" THEN taken ELSE asked
<1>1. workers[w].pc = "group" /\ l.page # {} /\ l.cursor = 0
  BY DEF UpsertGroup, At, Local
<1>2. workers[w].pc \in StagePoints /\ "group" \in Points \cup StagePoints
  BY <1>1 DEF StagePoints, IdentityPoints
<1>3. /\ KindOf(w) = kind /\ l \in Locals
      /\ l.page \subseteq Keys[kind] /\ l.last \in Keys[kind]
  BY <1>1, <1>2, StageFacts DEF Placed
<1>4. Keys[kind] \in SUBSET (Nat \ {0})
  BY KeyNumbers
<1>5. k \in l.page /\ k \in Nat
  BY <1>1, <1>3, <1>4, LeastOne
<1>6. \/ (Throw(w, TRUE) \/ Goto(w, "ackPause") \/ Goto(w, "ackCancel"))
           /\ UNCHANGED <<jobs, store>>
      \/ UNCHANGED jobs /\ store' = upsertGroup(kind, k) /\ Continue(w, "group", next)
  <2>1. CASE KindOf(w) = "candidate" /\ controlSignal(w) # "continue"
    BY <2>1 DEF UpsertGroup, ThrowIfControlRequested, controlSignal
  <2>2. CASE ~(KindOf(w) = "candidate" /\ controlSignal(w) # "continue")
    BY <1>3, <2>2 DEF UpsertGroup, Local
  <2> QED
    BY <2>1, <2>2
<1> HIDE DEF k
<1>7. taken \in Locals /\ taken.page = l.page \ {k} /\ taken.last = l.last /\ taken.cursor = 0
  BY <1>1, <1>3 DEF Locals
<1>8. asked \in Locals /\ asked.page = l.page /\ asked.last = l.last /\ asked.cursor = k
  BY <1>3, <1>5 DEF Locals
<1> HIDE DEF taken, asked
<1>9. next \in Locals
  BY <1>7, <1>8
<1>10. CASE UNCHANGED jobs /\ store' = upsertGroup(kind, k) /\ Continue(w, "group", next)
  <2> HIDE DEF next
  <2>1. Moves(w, "group", next)
    BY <1>2, <1>9, <1>10, StageMoves
  <2>2. workers'[w].local = next
    BY <2>1 DEF Moves
  <2>3. /\ next.last = l.last
        /\ kind = "candidate" => next.page = l.page \ {k} /\ next.cursor = 0
        /\ kind # "candidate" => next.page = l.page /\ next.cursor = k
    BY <1>7, <1>8 DEF next
  <2> HIDE DEF kind
  <2> QED
    BY <1>1, <1>3, <1>5, <1>9, <1>10, <2>1, <2>2, <2>3 DEF kind
<1>11. CASE (Throw(w, TRUE) \/ Goto(w, "ackPause") \/ Goto(w, "ackCancel"))
              /\ UNCHANGED <<jobs, store>>
  <2>1. Stops(w)
    BY <1>2, <1>11, StageMoves
  <2> QED
    BY <1>1, <1>3, <1>11, <2>1
<1> QED
  BY <1>6, <1>10, <1>11

LEMMA AskForKeeperSteps ==
  ASSUME AInv, OnlyStages, NEW w \in Workers, AskForKeeper(w)
  PROVE  LET kind == GroupKind(JobOf(w).sub.kind)
             l == workers[w].local
             next == workers'[w].local
         IN /\ workers[w].pc = "group" /\ l.cursor # 0 /\ UNCHANGED jobs
            /\ l.page \subseteq Keys[kind] /\ l.last \in Keys[kind]
            /\ store' = [store EXCEPT
                 !.reviews = createNeedsReview(store.reviews, <<"keeper", l.cursor>>)]
            /\ Moves(w, "group", next) /\ next \in Locals
            /\ next.page = l.page \ {l.cursor} /\ next.cursor = 0 /\ next.last = l.last
<1> DEFINE l == workers[w].local
           next == [l EXCEPT !.page = l.page \ {l.cursor}, !.cursor = 0]
<1>1. /\ workers[w].pc = "group" /\ l.cursor # 0 /\ UNCHANGED jobs
      /\ store' = [store EXCEPT
           !.reviews = createNeedsReview(store.reviews, <<"keeper", l.cursor>>)]
      /\ Continue(w, "group", next)
  BY DEF AskForKeeper, At, Local
<1>2. workers[w].pc \in StagePoints /\ "group" \in Points \cup StagePoints
  BY <1>1 DEF StagePoints, IdentityPoints
<1>3. /\ l \in Locals /\ l.page \subseteq Keys[GroupKind(JobOf(w).sub.kind)]
      /\ l.last \in Keys[GroupKind(JobOf(w).sub.kind)]
  BY <1>1, <1>2, StageFacts DEF Placed
<1>4. /\ next \in Locals /\ next.page = l.page \ {l.cursor} /\ next.cursor = 0
      /\ next.last = l.last
  BY <1>3 DEF Locals
<1> HIDE DEF next
<1>5. Moves(w, "group", next)
  BY <1>1, <1>2, <1>4, StageMoves
<1>6. workers'[w].local = next
  BY <1>5 DEF Moves
<1> QED
  BY <1>1, <1>3, <1>4, <1>5, <1>6

LEMMA SaveGroupsSteps ==
  ASSUME AInv, OnlyStages, NEW w \in Workers, SaveGroups(w)
  PROVE  LET kind == JobOf(w).sub.kind
             l == workers[w].local
         IN /\ workers[w].pc = "group" /\ UNCHANGED store
            /\ l.page = {} /\ l.last \in Keys[GroupKind(kind)]
            /\ Stops(w) \/ Saves(w, FirstOf(kind) + l.last, "groupReport", Nothing)
<1> DEFINE kind == JobOf(w).sub.kind
           l == workers[w].local
<1>1. /\ workers[w].pc = "group" /\ l.page = {}
      /\ Save(w, "group", FirstGroup(w) + l.last, "groupReport", Nothing)
  BY DEF SaveGroups, Save, At, Local
<1>2. workers[w].pc \in StagePoints /\ "group" \in StagePoints /\ "groupReport" \in StagePoints
  BY <1>1 DEF StagePoints, IdentityPoints
<1>3. FirstGroup(w) = FirstOf(kind) /\ Nothing \in Locals /\ l.last \in Keys[GroupKind(kind)]
  BY <1>1, <1>2, StageFacts DEF Placed, Locals, Nothing
<1>4. FirstOf(kind) + l.last \in Checkpoints
  BY <1>3, KeyNumbers
<1> QED
  BY <1>1, <1>2, <1>3, <1>4, SaveSteps

LEMMA ReportGroupsSteps ==
  ASSUME AInv, OnlyStages, NEW w \in Workers, ReportGroups(w)
  PROVE  /\ workers[w].pc = "groupReport" /\ UNCHANGED store /\ Nothing \in Locals
         /\ Goes(w, "groupPage", Nothing)
<1>1. "groupReport" \in StagePoints /\ "groupPage" \in StagePoints /\ Nothing \in Locals
  BY DEF StagePoints, IdentityPoints, Locals, Nothing
<1> QED
  BY <1>1, ReportSteps DEF ReportGroups, Goes

-----------------------------------------------------------------------------
(* The handlers of analysis-job.ts, action by action.                      *)

LEMMA BeginMediaSteps ==
  ASSUME AInv, OnlyStages, NEW w \in Workers, BeginMedia(w)
  PROVE  /\ workers[w].pc = "media" /\ UNCHANGED store /\ Nothing \in Locals
         /\ Goes(w, "mediaPage", Nothing)
<1>1. "media" \in StagePoints /\ "mediaPage" \in StagePoints /\ Nothing \in Locals
  BY DEF StagePoints, MetadataPoints, Locals, Nothing
<1> QED
  BY <1>1, BeginSteps DEF BeginMedia, Goes

LEMMA MediaPageSteps ==
  ASSUME AInv, OnlyStages, NEW w \in Workers, MediaPage(w)
  PROVE  LET tasks == First(PageSize, analysisTasks(workers[w].saved))
             next == [Nothing EXCEPT !.page = tasks]
         IN /\ workers[w].pc = "mediaPage" /\ UNCHANGED store
            /\ Goes(w, IF tasks = {} THEN "finish" ELSE "mediaApproved", next)
            /\ Paged(Files, workers[w].saved, tasks)
            /\ tasks \subseteq Files /\ next \in Locals /\ next.page = tasks
            /\ next.cursor = 0 /\ next.reading = {}
<1> DEFINE tasks == First(PageSize, analysisTasks(workers[w].saved))
           next == [Nothing EXCEPT !.page = tasks]
           to == IF tasks = {} THEN "finish" ELSE "mediaApproved"
<1>1. workers[w].pc = "mediaPage" /\ UNCHANGED store /\ Controlled(w, to, next)
  BY DEF MediaPage, At, Saved
<1>2. PageSize \in Nat \ {0} /\ Files \in SUBSET Nat
  BY FileNumbers, AnalysisAssumption
<1>3. Paged(Files, workers[w].saved, tasks)
  BY <1>2, PageOf DEF analysisTasks, Tasks
<1>4. tasks \subseteq Files
  BY <1>3 DEF Paged
<1> HIDE DEF tasks
<1>5. next \in Locals /\ next.page = tasks /\ next.cursor = 0 /\ next.reading = {}
  BY <1>2, <1>4 DEF Locals, Nothing
<1>6. to \in Points \cup StagePoints /\ workers[w].pc \in StagePoints
  BY <1>1 DEF Points, StagePoints, MetadataPoints
<1> HIDE DEF next, to
<1>7. Goes(w, to, next)
  BY <1>1, <1>5, <1>6, ControlledSteps DEF Goes
<1> QED
  BY <1>1, <1>3, <1>4, <1>5, <1>7 DEF next, to, tasks

LEMMA MediaApprovedSteps ==
  ASSUME AInv, OnlyStages, NEW w \in Workers, MediaApproved(w)
  PROVE  LET l == workers[w].local
         IN /\ workers[w].pc = "mediaApproved" /\ UNCHANGED store
            /\ Goes(w, "mediaChunk", l)
            /\ l.page \subseteq Files /\ l.page # {}
<1>1. /\ workers[w].pc = "mediaApproved" /\ UNCHANGED <<jobs, store>>
      /\ Throw(w, TRUE) \/ Goto(w, "mediaChunk")
  BY DEF MediaApproved, At
<1>2. workers[w].pc \in StagePoints /\ "mediaChunk" \in Points \cup StagePoints
  BY <1>1 DEF StagePoints, MetadataPoints
<1>3. workers[w].local.page \subseteq Files /\ workers[w].local.page # {}
  BY <1>1, <1>2, StageFacts DEF Placed, PagePoints
<1> QED
  BY <1>1, <1>2, <1>3, StageMoves DEF Goes

LEMMA MediaChunkSteps ==
  ASSUME AInv, OnlyStages, NEW w \in Workers, MediaChunk(w)
  PROVE  LET l == workers[w].local
         IN /\ workers[w].pc = "mediaChunk" /\ UNCHANGED store
            /\ Goes(w, "mediaFiles", Begun(l))
            /\ l \in Locals /\ l.page \subseteq Files /\ l.page # {}
<1> DEFINE l == workers[w].local
<1>1. workers[w].pc = "mediaChunk" /\ UNCHANGED store /\ Controlled(w, "mediaFiles", Begun(l))
  BY DEF MediaChunk, At, Local
<1>2. workers[w].pc \in StagePoints /\ "mediaFiles" \in Points \cup StagePoints
  BY <1>1 DEF StagePoints, MetadataPoints
<1>3. l \in Locals /\ l.page \subseteq Files /\ l.page # {}
  BY <1>1, <1>2, StageFacts DEF Placed, PagePoints
<1>4. Begun(l) \in Locals
  BY <1>3, BegunFacts
<1> HIDE DEF l
<1>5. Goes(w, "mediaFiles", Begun(l))
  BY <1>1, <1>2, <1>4, ControlledSteps DEF Goes
<1> QED
  BY <1>1, <1>3, <1>5 DEF l

\* Of a worker that analyses the files of a chunk.
LEMMA ChunkFacts ==
  ASSUME AInv, OnlyStages, NEW w \in Workers, workers[w].pc = "mediaFiles"
  PROVE  LET l == workers[w].local
         IN /\ l \in Locals /\ l.page \subseteq Files /\ l.last \in Files
            /\ workers[w].pc \in StagePoints /\ "mediaFiles" \in Points \cup StagePoints
<1>1. workers[w].pc \in StagePoints /\ "mediaFiles" \in Points \cup StagePoints
  BY DEF StagePoints, MetadataPoints
<1> QED
  BY <1>1, StageFacts DEF Placed, PagePoints

LEMMA StartTaskSteps ==
  ASSUME AInv, OnlyStages, NEW w \in Workers, NEW f \in Files, StartTask(w, f)
  PROVE  LET l == workers[w].local
             next == workers'[w].local
         IN /\ workers[w].pc = "mediaFiles" /\ UNCHANGED jobs /\ f \in l.todo
            /\ Moves(w, "mediaFiles", next) /\ next \in Locals
            /\ next.page = l.page /\ next.last = l.last /\ next.todo = l.todo \ {f}
            /\ next.done = l.done /\ next.cursor = l.cursor
            /\ \/ next.reading = l.reading \cup {f} /\ UNCHANGED store
               \/ next.reading = l.reading /\ createSourceFailure(f)
<1> DEFINE l == workers[w].local
           started == [l EXCEPT !.todo = l.todo \ {f}]
           opened == [started EXCEPT !.reading = l.reading \cup {f}]
<1>1. workers[w].pc = "mediaFiles" /\ UNCHANGED jobs /\ f \in l.todo
  BY DEF StartTask, At, Local
<1>2. /\ l \in Locals /\ workers[w].pc \in StagePoints
      /\ "mediaFiles" \in Points \cup StagePoints
  BY <1>1, ChunkFacts
<1>3. /\ started \in Locals /\ started.page = l.page /\ started.last = l.last
      /\ started.todo = l.todo \ {f} /\ started.reading = l.reading
      /\ started.done = l.done /\ started.cursor = l.cursor
  BY <1>2 DEF Locals
<1>4. /\ opened \in Locals /\ opened.page = l.page /\ opened.last = l.last
      /\ opened.todo = l.todo \ {f} /\ opened.reading = l.reading \cup {f}
      /\ opened.done = l.done /\ opened.cursor = l.cursor
  BY <1>2 DEF Locals
<1>5. \/ Continue(w, "mediaFiles", started) /\ createSourceFailure(f)
      \/ Continue(w, "mediaFiles", opened) /\ UNCHANGED store
  <2>1. started.reading = l.reading
    BY <1>3
  <2> QED
    BY <2>1 DEF StartTask, Local
<1> HIDE DEF started, opened
<1>6. /\ Continue(w, "mediaFiles", started) => Moves(w, "mediaFiles", started)
      /\ Continue(w, "mediaFiles", opened) => Moves(w, "mediaFiles", opened)
  BY <1>1, <1>2, <1>3, <1>4, StageMoves
<1>7. \A local : Moves(w, "mediaFiles", local) => workers'[w].local = local
  BY DEF Moves
<1> QED
  BY <1>1, <1>3, <1>4, <1>5, <1>6, <1>7

\* The results of a file are in hand, or it is left out of them.
LEMMA FinishTaskSteps ==
  ASSUME AInv, OnlyStages, NEW w \in Workers, NEW f \in Files, FinishTask(w, f)
  PROVE  LET l == workers[w].local
             next == workers'[w].local
         IN /\ workers[w].pc = "mediaFiles" /\ UNCHANGED jobs /\ f \in l.reading
            /\ Moves(w, "mediaFiles", next) /\ next \in Locals
            /\ next.page = l.page /\ next.last = l.last /\ next.todo = l.todo
            /\ next.reading = l.reading \ {f} /\ next.cursor = l.cursor
            /\ \/ next.done = l.done /\ createSourceFailure(f)
               \/ /\ UNCHANGED store
                  /\ \E o \in TaskAnalysis :
                       /\ o.file = f /\ next.done = l.done \cup {o}
                       /\ o.result = "reused" => Reusable(f) # "none"
<1> DEFINE l == workers[w].local
           closed == [l EXCEPT !.reading = l.reading \ {f}]
           told(result) == [file |-> f, result |-> result, unsure |-> f \in Unsure /\ ~store.rule]
           ended(result) == [closed EXCEPT !.done = l.done \cup {told(result)}]
           Results == IF Reusable(f) # "none" THEN {"reused"}
                      ELSE IF f \in Flaky THEN {"ok", "failed"} ELSE {"ok"}
<1>1. workers[w].pc = "mediaFiles" /\ UNCHANGED jobs /\ f \in l.reading
  BY Zenon DEF FinishTask, At, Local
<1>2. /\ l \in Locals /\ workers[w].pc \in StagePoints
      /\ "mediaFiles" \in Points \cup StagePoints
  BY <1>1, ChunkFacts
<1>3. /\ closed \in Locals /\ closed.page = l.page /\ closed.last = l.last
      /\ closed.todo = l.todo /\ closed.reading = l.reading \ {f}
      /\ closed.done = l.done /\ closed.cursor = l.cursor
  BY <1>2 DEF Locals
<1>4. ASSUME NEW result \in Results
      PROVE  /\ told(result) \in TaskAnalysis /\ told(result).file = f
             /\ told(result).result = result
             /\ ended(result) \in Locals /\ ended(result).page = l.page
             /\ ended(result).last = l.last /\ ended(result).todo = l.todo
             /\ ended(result).reading = l.reading \ {f}
             /\ ended(result).done = l.done \cup {told(result)}
             /\ ended(result).cursor = l.cursor
             /\ result = "reused" => Reusable(f) # "none"
  <2>1. result \in {"ok", "reused", "failed"} /\ (result = "reused" => Reusable(f) # "none")
    OBVIOUS
  <2>2. /\ told(result) \in TaskAnalysis /\ told(result).file = f
        /\ told(result).result = result
    BY <2>1 DEF TaskAnalysis
  <2> HIDE DEF told
  <2> QED
    BY <1>2, <2>1, <2>2 DEF Locals
<1>5. \/ Continue(w, "mediaFiles", closed) /\ createSourceFailure(f)
      \/ UNCHANGED store /\ \E result \in Results : Continue(w, "mediaFiles", ended(result))
  <2>1. \/ Continue(w, "mediaFiles", closed) /\ createSourceFailure(f)
        \/ /\ UNCHANGED store
           /\ \E result \in Results :
                Continue(w, "mediaFiles",
                         [closed EXCEPT !.done = closed.done \cup {told(result)}])
    BY Zenon DEF FinishTask, Local
  <2>2. closed.done = l.done
    BY <1>3
  <2> HIDE DEF told, Results, closed
  <2> QED
    BY Zenon, <2>1, <2>2
<1> HIDE DEF closed, ended, told, Results
<1>6. \A local : Moves(w, "mediaFiles", local) => workers'[w].local = local
  BY DEF Moves
<1>7. CASE Continue(w, "mediaFiles", closed) /\ createSourceFailure(f)
  <2>1. Moves(w, "mediaFiles", closed)
    BY <1>1, <1>2, <1>3, <1>7, StageMoves
  <2> QED
    BY <1>1, <1>3, <1>6, <1>7, <2>1
<1>8. ASSUME UNCHANGED store, NEW result \in Results, Continue(w, "mediaFiles", ended(result))
      PROVE  /\ Moves(w, "mediaFiles", ended(result)) /\ workers'[w].local = ended(result)
  <2>1. Moves(w, "mediaFiles", ended(result))
    BY <1>1, <1>2, <1>4, <1>8, StageMoves
  <2> QED
    BY <1>6, <2>1
<1>9. CASE UNCHANGED store /\ \E result \in Results : Continue(w, "mediaFiles", ended(result))
  <2>1. PICK result \in Results : Continue(w, "mediaFiles", ended(result))
    BY <1>9
  <2>2. Moves(w, "mediaFiles", ended(result)) /\ workers'[w].local = ended(result)
    BY <1>8, <1>9, <2>1
  <2> QED
    BY <1>1, <1>4, <1>9, <2>2
<1> QED
  BY <1>5, <1>7, <1>9

-----------------------------------------------------------------------------
(* The outcomes of a chunk.                                                *)

\* Those with the first file come first.
LEMMA NextOutcomeFacts ==
  ASSUME AInv, OnlyStages, NEW w \in Workers, workers[w].pc = "mediaFiles",
         workers[w].local.done # {}
  PROVE  /\ NextOutcome(w) \in workers[w].local.done /\ NextOutcome(w) \in TaskAnalysis
         /\ NextOutcome(w).file \in Files
         /\ \A p \in workers[w].local.done : NextOutcome(w).file <= p.file
<1> DEFINE done == workers[w].local.done
           numbers == {p.file : p \in done}
<1>1. done \subseteq TaskAnalysis
  BY ChunkFacts DEF Locals
<1>2. numbers \in SUBSET Nat /\ numbers # {} /\ \A p \in done : p.file \in Files
  BY <1>1, FileNumbers DEF TaskAnalysis
<1>3. PICK n \in numbers : \A m \in numbers : n <= m
  BY <1>2, LeastElement
<1>4. \E o \in done : \A p \in done : o.file <= p.file
  BY <1>3
<1>5. NextOutcome(w) \in done /\ \A p \in done : NextOutcome(w).file <= p.file
  BY <1>4 DEF NextOutcome, Local
<1> QED
  BY <1>1, <1>2, <1>5

LEMMA saveAnalyzerResultSteps ==
  ASSUME AInv, OnlyStages, NEW w \in Workers, saveAnalyzerResult(w)
  PROVE  LET l == workers[w].local
             next == workers'[w].local
             o == NextOutcome(w)
         IN /\ workers[w].pc = "mediaFiles" /\ UNCHANGED jobs
            /\ l.todo = {} /\ l.reading = {} /\ l.done # {} /\ l.cursor = 0
            /\ store' = [store EXCEPT !.results[o.file] =
                           IF o.result = "reused" THEN Reusable(o.file) ELSE o.result]
            /\ Moves(w, "mediaFiles", next) /\ next = [l EXCEPT !.cursor = 1] /\ next \in Locals
<1> DEFINE l == workers[w].local
           next == [l EXCEPT !.cursor = 1]
<1>1. /\ workers[w].pc = "mediaFiles" /\ UNCHANGED jobs /\ Continue(w, "mediaFiles", next)
      /\ l.todo = {} /\ l.reading = {} /\ l.done # {} /\ l.cursor = 0
  BY DEF saveAnalyzerResult, ChunkAnalyzed, At, Local
<1>2. /\ l \in Locals /\ workers[w].pc \in StagePoints
      /\ "mediaFiles" \in Points \cup StagePoints
  BY <1>1, ChunkFacts
<1>3. next \in Locals
  BY <1>2 DEF Locals
<1>4. Moves(w, "mediaFiles", next)
  BY <1>1, <1>2, <1>3, StageMoves
<1>5. workers'[w].local = next
  BY <1>4 DEF Moves
<1> QED
  BY <1>1, <1>3, <1>4, <1>5 DEF saveAnalyzerResult

LEMMA saveUnderstandingSteps ==
  ASSUME AInv, OnlyStages, NEW w \in Workers, saveUnderstanding(w)
  PROVE  LET l == workers[w].local
             next == workers'[w].local
             o == NextOutcome(w)
         IN /\ workers[w].pc = "mediaFiles" /\ UNCHANGED jobs
            /\ l.todo = {} /\ l.reading = {} /\ l.cursor = 1
            /\ store' = [store EXCEPT !.files[o.file] =
                           IF o.unsure THEN "unsure" ELSE "confident"]
            /\ Moves(w, "mediaFiles", next) /\ next = [l EXCEPT !.cursor = 2] /\ next \in Locals
<1> DEFINE l == workers[w].local
           next == [l EXCEPT !.cursor = 2]
<1>1. /\ workers[w].pc = "mediaFiles" /\ UNCHANGED jobs /\ Continue(w, "mediaFiles", next)
      /\ l.todo = {} /\ l.reading = {} /\ l.cursor = 1
  BY DEF saveUnderstanding, ChunkAnalyzed, At, Local
<1>2. /\ l \in Locals /\ workers[w].pc \in StagePoints
      /\ "mediaFiles" \in Points \cup StagePoints
  BY <1>1, ChunkFacts
<1>3. next \in Locals
  BY <1>2 DEF Locals
<1>4. Moves(w, "mediaFiles", next)
  BY <1>1, <1>2, <1>3, StageMoves
<1>5. workers'[w].local = next
  BY <1>4 DEF Moves
<1> QED
  BY <1>1, <1>3, <1>4, <1>5 DEF saveUnderstanding

LEMMA createReviewItemsSteps ==
  ASSUME AInv, OnlyStages, NEW w \in Workers, createReviewItems(w)
  PROVE  LET l == workers[w].local
             next == workers'[w].local
             o == NextOutcome(w)
             unsure == IF o.unsure
                       THEN createNeedsReview(store.reviews, <<"unsure", o.file>>)
                       ELSE store.reviews
         IN /\ workers[w].pc = "mediaFiles" /\ UNCHANGED jobs
            /\ l.todo = {} /\ l.reading = {} /\ l.cursor = 2
            /\ store' = [store EXCEPT !.reviews =
                 IF o.result = "failed" THEN createNeedsReview(unsure, <<"failed", o.file>>)
                                        ELSE unsure]
            /\ Moves(w, "mediaFiles", next) /\ next \in Locals
            /\ next = [l EXCEPT !.cursor = 0, !.done = l.done \ {o}]
<1> DEFINE l == workers[w].local
           next == [l EXCEPT !.cursor = 0, !.done = l.done \ {NextOutcome(w)}]
<1>1. /\ workers[w].pc = "mediaFiles" /\ UNCHANGED jobs /\ Continue(w, "mediaFiles", next)
      /\ l.todo = {} /\ l.reading = {} /\ l.cursor = 2
  BY DEF createReviewItems, ChunkAnalyzed, At, Local
<1>2. /\ l \in Locals /\ workers[w].pc \in StagePoints
      /\ "mediaFiles" \in Points \cup StagePoints
  BY <1>1, ChunkFacts
<1>3. next \in Locals
  BY <1>2 DEF Locals
<1>4. Moves(w, "mediaFiles", next)
  BY <1>1, <1>2, <1>3, StageMoves
<1>5. workers'[w].local = next
  BY <1>4 DEF Moves
<1> QED
  BY <1>1, <1>3, <1>4, <1>5 DEF createReviewItems

LEMMA SaveAnalyzedSteps ==
  ASSUME AInv, OnlyStages, NEW w \in Workers, SaveAnalyzed(w)
  PROVE  LET l == workers[w].local
         IN /\ workers[w].pc = "mediaFiles" /\ UNCHANGED store
            /\ Stops(w) \/ Saves(w, l.last, "mediaReport", l)
            /\ l.todo = {} /\ l.reading = {} /\ l.done = {}
            /\ l.page \subseteq Files /\ l.last \in Files
<1> DEFINE l == workers[w].local
<1>1. workers[w].pc = "mediaFiles" /\ Save(w, "mediaFiles", l.last, "mediaReport", l)
      /\ l.todo = {} /\ l.reading = {} /\ l.done = {}
  BY DEF SaveAnalyzed, ChunkAnalyzed, Save, At, Local
<1>2. "mediaFiles" \in StagePoints /\ "mediaReport" \in StagePoints
  BY DEF StagePoints, MetadataPoints
<1>3. l \in Locals /\ l.page \subseteq Files /\ l.last \in Files /\ l.last \in Checkpoints
  BY <1>1, ChunkFacts, KeyNumbers
<1> QED
  BY <1>1, <1>2, <1>3, SaveSteps

LEMMA ReportAnalyzedSteps ==
  ASSUME AInv, OnlyStages, NEW w \in Workers, ReportAnalyzed(w)
  PROVE  LET l == workers[w].local
         IN /\ workers[w].pc = "mediaReport" /\ UNCHANGED store
            /\ Goes(w, IF l.page = {} THEN "mediaPage" ELSE "mediaChunk", l)
            /\ l.page \subseteq Files
<1> DEFINE l == workers[w].local
           to == IF l.page = {} THEN "mediaPage" ELSE "mediaChunk"
<1>1. workers[w].pc = "mediaReport" /\ Report(w, "mediaReport", to, l)
  BY DEF ReportAnalyzed, Report, At, Local
<1>2. workers[w].pc \in StagePoints /\ "mediaReport" \in StagePoints /\ to \in StagePoints
  BY <1>1 DEF StagePoints, MetadataPoints
<1>3. l \in Locals /\ l.page \subseteq Files
  BY <1>1, <1>2, StageFacts DEF Placed, PagePoints
<1> QED
  BY <1>1, <1>2, <1>3, ReportSteps DEF Goes

-----------------------------------------------------------------------------
(* What belongs together.                                                  *)

LEMMA BeginRelationsSteps ==
  ASSUME AInv, OnlyStages, NEW w \in Workers, BeginRelations(w)
  PROVE  /\ workers[w].pc = "relations" /\ UNCHANGED store
         /\ Goes(w, "relClear", workers[w].local)
<1>1. /\ workers[w].pc = "relations" /\ UNCHANGED <<jobs, store>>
      /\ Throw(w, TRUE) \/ Goto(w, "relClear")
  BY DEF BeginRelations, At
<1>2. workers[w].pc \in StagePoints /\ "relClear" \in Points \cup StagePoints
  BY <1>1 DEF StagePoints, MetadataPoints
<1> QED
  BY <1>1, <1>2, StageMoves DEF Goes

LEMMA clearSemanticAnalysisSteps ==
  ASSUME AInv, OnlyStages, NEW w \in Workers, clearSemanticAnalysis(w)
  PROVE  LET next == workers'[w].local
         IN /\ workers[w].pc = "relClear" /\ UNCHANGED jobs
            /\ store' = [store EXCEPT !.semantic = {}]
            /\ Moves(w, "relPage", next) /\ next \in Locals
            /\ next.last = 1 /\ next.cursor = 0
<1> DEFINE next == [Nothing EXCEPT !.last = 1]
<1>1. /\ workers[w].pc = "relClear" /\ UNCHANGED jobs /\ Continue(w, "relPage", next)
      /\ store' = [store EXCEPT !.semantic = {}]
  BY DEF clearSemanticAnalysis, At
<1>2. workers[w].pc \in StagePoints /\ "relPage" \in Points \cup StagePoints
  BY <1>1 DEF StagePoints, MetadataPoints
<1>3. next \in Locals /\ next.last = 1 /\ next.cursor = 0
  BY DEF Nothing, Locals
<1> HIDE DEF next
<1>4. Moves(w, "relPage", next)
  BY <1>1, <1>2, <1>3, StageMoves
<1>5. workers'[w].local = next
  BY <1>4 DEF Moves
<1> QED
  BY <1>1, <1>3, <1>4, <1>5

\* The sweeps are gone through one after the other, each a page at a time.
LEMMA RelationPageSteps ==
  ASSUME AInv, OnlyStages, NEW w \in Workers, RelationPage(w)
  PROVE  LET l == workers[w].local
             places == {r.place : r \in Found(l.last, l.cursor)}
         IN /\ workers[w].pc = "relPage" /\ UNCHANGED store /\ l \in Locals /\ l.last \in 1 .. 3
            /\ \E next \in Locals :
                 \/ /\ Goes(w, "relGroup", next)
                    /\ next.last = l.last /\ next.cursor = l.cursor
                    /\ next.page \subseteq places
                    /\ next.page = First(RelatedPageSize, places)
                 \/ /\ Found(l.last, l.cursor) = {} /\ l.last < 3 /\ Goes(w, "relPage", next)
                    /\ next.last = l.last + 1 /\ next.cursor = 0
                 \/ /\ Found(l.last, l.cursor) = {} /\ l.last = 3 /\ Goes(w, "finish", next)
<1> DEFINE l == workers[w].local
           places == {r.place : r \in Found(l.last, l.cursor)}
           page == First(RelatedPageSize, places)
           grouped == [Nothing EXCEPT !.last = l.last, !.cursor = l.cursor, !.page = page]
           swept == [Nothing EXCEPT !.last = l.last + 1]
<1>1. workers[w].pc = "relPage" /\ UNCHANGED store
  BY DEF RelationPage, At
<1>2. workers[w].pc \in StagePoints
  BY <1>1 DEF StagePoints, MetadataPoints
<1>3. l \in Locals /\ l.last \in Sweeps
  BY <1>1, <1>2, StageFacts DEF Placed
<1>4. Sweeps = 1 .. 3 /\ RelatedPageSize \in Nat \ {0}
  BY MetadataAssumption
<1>5. places \in SUBSET Nat
  BY <1>3, PlaceNumbers DEF Found
<1>6. /\ page \subseteq places
      /\ \A p \in page, q \in places : q <= p => q \in page
      /\ page = {} => places = {}
  BY <1>4, <1>5, FirstPage
<1>7. \/ page # {} /\ Controlled(w, "relGroup", grouped)
      \/ page = {} /\ l.last < 3 /\ Controlled(w, "relPage", swept)
      \/ page = {} /\ ~(l.last < 3) /\ Controlled(w, "finish", Nothing)
  BY DEF RelationPage, Sweep, Local
<1>8. places = {} => Found(l.last, l.cursor) = {}
  OBVIOUS
<1> HIDE DEF page
<1>9. /\ grouped \in Locals /\ grouped.last = l.last /\ grouped.cursor = l.cursor
      /\ grouped.page = page
  BY <1>3, <1>4, <1>5, <1>6 DEF Locals, Nothing
<1>10. swept \in Locals /\ swept.last = l.last + 1 /\ swept.cursor = 0 /\ Nothing \in Locals
  BY <1>3, <1>4 DEF Locals, Nothing
<1>11. {"relGroup", "relPage", "finish"} \subseteq Points \cup StagePoints
  BY DEF Points, StagePoints, MetadataPoints
<1> HIDE DEF grouped, swept, places
<1>12. /\ Controlled(w, "relGroup", grouped) => Goes(w, "relGroup", grouped)
       /\ Controlled(w, "relPage", swept) => Goes(w, "relPage", swept)
       /\ Controlled(w, "finish", Nothing) => Goes(w, "finish", Nothing)
  BY <1>2, <1>9, <1>10, <1>11, ControlledSteps DEF Goes
<1>13. l.last \in 1 .. 3 /\ (~(l.last < 3) => l.last = 3)
  BY <1>3, <1>4
<1>14. CASE page # {} /\ Controlled(w, "relGroup", grouped)
  BY <1>1, <1>3, <1>6, <1>9, <1>12, <1>13, <1>14 DEF places, page
<1>15. CASE page = {} /\ l.last < 3 /\ Controlled(w, "relPage", swept)
  BY <1>1, <1>3, <1>6, <1>8, <1>10, <1>12, <1>13, <1>15
<1>16. CASE page = {} /\ ~(l.last < 3) /\ Controlled(w, "finish", Nothing)
  BY <1>1, <1>3, <1>6, <1>8, <1>10, <1>12, <1>13, <1>16
<1> QED
  BY <1>7, <1>14, <1>15, <1>16

\* What is taken of a page is the first that is left of it.
LEMMA CurrentFacts ==
  ASSUME AInv, OnlyStages, NEW w \in Workers, workers[w].pc \in {"relGroup", "relContext"},
         workers[w].local.page # {}
  PROVE  LET l == workers[w].local
             r == Current(w)
         IN /\ l \in Locals /\ l.last \in Sweeps /\ l.page \subseteq PlacesOf(l.last)
            /\ r \in Evidence[l.last] /\ r.place \in l.page /\ \A p \in l.page : r.place <= p
            /\ r.place \in Nat \ {0} /\ r.at \in Nat \ {0}
<1> DEFINE l == workers[w].local
<1>1. workers[w].pc \in StagePoints
  BY DEF StagePoints, MetadataPoints
<1>2. l \in Locals /\ l.last \in Sweeps /\ l.page \subseteq PlacesOf(l.last)
  BY <1>1, StageFacts DEF Placed
<1>3. l.page \in SUBSET Nat
  BY <1>2, PlaceNumbers
<1>4. Least(l.page) \in l.page /\ \A p \in l.page : Least(l.page) <= p
  BY <1>3, LeastOne
<1>5. \E r \in Evidence[l.last] : r.place = Least(l.page)
  BY <1>2, <1>4 DEF PlacesOf
<1>6. Current(w) \in Evidence[l.last] /\ Current(w).place = Least(l.page)
  BY <1>5 DEF Current, Sweep, Local
<1> QED
  BY <1>2, <1>4, <1>6, PlaceNumbers

LEMMA saveSemanticGroupSteps ==
  ASSUME AInv, OnlyStages, NEW w \in Workers, saveSemanticGroup(w)
  PROVE  /\ workers[w].pc = "relGroup" /\ UNCHANGED jobs /\ workers[w].local.page # {}
         /\ store' = [store EXCEPT !.semantic = store.semantic \cup {Current(w)}]
         /\ Moves(w, "relContext", workers[w].local)
<1>1. /\ workers[w].pc = "relGroup" /\ UNCHANGED jobs /\ workers[w].local.page # {}
      /\ store' = [store EXCEPT !.semantic = store.semantic \cup {Current(w)}]
      /\ Goto(w, "relContext")
  BY DEF saveSemanticGroup, At, Local
<1>2. workers[w].pc \in StagePoints /\ "relContext" \in Points \cup StagePoints
  BY <1>1 DEF StagePoints, MetadataPoints
<1> QED
  BY <1>1, <1>2, StageMoves

LEMMA applyGroupContextSteps ==
  ASSUME AInv, OnlyStages, NEW w \in Workers, applyGroupContext(w)
  PROVE  LET l == workers[w].local
             next == workers'[w].local
         IN /\ workers[w].pc = "relContext" /\ UNCHANGED jobs /\ l.page # {}
            /\ store' = IF l.last = 2 THEN store ELSE
                 [store EXCEPT !.files = [f \in Files |->
                    IF f \in Current(w).members /\ store.files[f] = "unsure"
                    THEN "confident" ELSE store.files[f]]]
            /\ Moves(w, "relGroup", next) /\ next \in Locals
            /\ next.last = l.last /\ next.cursor = Current(w).at
            /\ next.page = l.page \ {Current(w).place}
<1> DEFINE l == workers[w].local
           next == [l EXCEPT !.cursor = Current(w).at, !.page = l.page \ {Current(w).place}]
<1>1. /\ workers[w].pc = "relContext" /\ UNCHANGED jobs /\ Continue(w, "relGroup", next)
  BY DEF applyGroupContext, At, Local
<1>2. store' = IF l.last = 2 THEN store ELSE
                 [store EXCEPT !.files = [f \in Files |->
                    IF f \in Current(w).members /\ store.files[f] = "unsure"
                    THEN "confident" ELSE store.files[f]]]
  BY DEF applyGroupContext, Sweep, Local
<1>3. workers[w].pc \in StagePoints /\ "relGroup" \in Points \cup StagePoints
  BY <1>1 DEF StagePoints, MetadataPoints
<1>4. l.page # {}
  BY <1>1, <1>3, StageFacts DEF Placed
<1>5. l \in Locals /\ Current(w).at \in Nat
  BY <1>1, <1>4, CurrentFacts
<1>6. /\ next \in Locals /\ next.last = l.last /\ next.cursor = Current(w).at
      /\ next.page = l.page \ {Current(w).place}
  BY <1>5 DEF Locals
<1> HIDE DEF next
<1>7. Moves(w, "relGroup", next)
  BY <1>1, <1>3, <1>6, StageMoves
<1>8. workers'[w].local = next
  BY <1>7 DEF Moves
<1> QED
  BY <1>1, <1>2, <1>4, <1>6, <1>7, <1>8

LEMMA ReportRelationsSteps ==
  ASSUME AInv, OnlyStages, NEW w \in Workers, ReportRelations(w)
  PROVE  /\ workers[w].pc = "relGroup" /\ UNCHANGED store /\ workers[w].local.page = {}
         /\ workers[w].local.last \in Sweeps
         /\ Goes(w, "relPage", workers[w].local)
<1> DEFINE l == workers[w].local
<1>1. workers[w].pc = "relGroup" /\ Report(w, "relGroup", "relPage", l) /\ l.page = {}
  BY DEF ReportRelations, Report, At, Local
<1>2. workers[w].pc \in StagePoints /\ "relGroup" \in StagePoints /\ "relPage" \in StagePoints
  BY <1>1 DEF StagePoints, MetadataPoints
<1>3. l \in Locals /\ l.last \in Sweeps
  BY <1>1, <1>2, StageFacts DEF Placed
<1> QED
  BY <1>1, <1>2, <1>3, ReportSteps DEF Goes

-----------------------------------------------------------------------------
(* The handler is found.                                                   *)

LEMMA LoadSteps ==
  ASSUME AInv, OnlyStages, NEW w \in Workers, Load(w)
  PROVE  LET x == workers[w]
             y == workers'[w]
             kind == JobOf(w).sub.kind
         IN /\ x.pc = "load" /\ UNCHANGED <<jobs, store>> /\ StagesTyped' /\ Ids' = Ids
            /\ Acts(w, {}, {}) /\ x.job \in Ids
            /\ kind \in {"detect", "hash", "media", "relations"}
            /\ y.pc # "down" => /\ y.pc = kind /\ y.local = Nothing
                                /\ y.job = x.job /\ y.saved = jobs[x.job].checkpoint
<1> DEFINE x == workers[w]
           kind == JobOf(w).sub.kind
<1>1. LoadJob(w, kind, Nothing) /\ UNCHANGED store
  BY DEF Load
<1>2. At(w, "load") /\ UNCHANGED jobs
  BY <1>1 DEF LoadJob
<1>3. Linked(x) /\ x \in Worker(StagePoints, Locals)
  BY <1>2 DEF Linked, At, AInv, StagesTyped
<1>4. x.job \in Ids
  BY <1>3 DEF AInv, LinkInv, LinkOK
<1>5. JobOf(w).sub \in Submissions
  BY <1>4, RowsOfTable DEF JobOf, Job, AInv, IndInv, TypeOK, Ids, Row
<1>6. kind \in {"detect", "hash", "media", "relations"}
  BY <1>5 DEF OnlyStages
<1>7. kind \in Points \cup StagePoints
  BY <1>6 DEF StagePoints, IdentityPoints, MetadataPoints
<1>8. /\ NoLocal \in Locals /\ Nothing \in Locals /\ IndInv /\ LinkInv
      /\ workers \in [Workers -> Worker(StagePoints, Locals)]
  BY DEF OnlyStages, Locals, Nothing, AInv, StagesTyped
<1>9. Ids' = Ids
  BY <1>2 DEF Ids
<1> HIDE DEF kind
<1>10. /\ workers' \in [Workers -> Worker(StagePoints, Locals)] /\ Acts(w, {}, {})
       /\ workers'[w].pc # "down" => /\ workers'[w].pc = kind /\ workers'[w].local = Nothing
                                     /\ workers'[w].job = x.job
                                     /\ workers'[w].saved = jobs[x.job].checkpoint
  BY <1>1, <1>2, <1>7, <1>8, LoadJobActs
<1> QED
  BY <1>1, <1>2, <1>4, <1>6, <1>9, <1>10 DEF kind, At, StagesTyped

-----------------------------------------------------------------------------
(* Every step of a worker takes it to a place of its kind.                 *)

Arrives(w) ==
  LET x == workers[w]
      y == workers'[w]
  IN /\ StagesTyped' /\ Ids' = Ids /\ y.job = x.job /\ Linked(x)
     /\ \E saved \in SUBSET {x.job} : Acts(w, {}, saved)
     /\ Placed(y.pc, y.local, JobOf(w).sub.kind)

\* Outside the handlers there is nothing in hand.
LEMMA NothingInHand ==
  ASSUME NEW pc \in Points, NEW l, NEW kind
  PROVE  pc \notin StagePoints /\ Placed(pc, l, kind)
BY DEF Points, StagePoints, IdentityPoints, MetadataPoints, Placed, PagePoints

\* Whose points they are.
LEMMA KindAt ==
  ASSUME AInv, OnlyStages, NEW w \in Workers, workers[w].pc \in StagePoints
  PROVE  LET kind == JobOf(w).sub.kind
             pc == workers[w].pc
         IN /\ pc \in PointsOf["hash"] \ GroupPoints => kind = "hash"
            /\ pc = "detect" => kind = "detect"
            /\ pc \in GroupPoints => kind \in {"detect", "hash"}
            /\ pc \in PointsOf["media"] => kind = "media"
            /\ pc \in PointsOf["relations"] => kind = "relations"
BY StageFacts DEF PointsOf, GroupPoints

LEMMA Arrivals ==
  ASSUME AInv, OnlyStages, NEW w \in Workers, workers[w].pc \in StagePoints
  PROVE  /\ Stops(w) => Arrives(w)
         /\ \A to, l : Moves(w, to, l) /\ Placed(to, l, JobOf(w).sub.kind) => Arrives(w)
         /\ \A c, to, l : Saves(w, c, to, l) /\ Placed(to, l, JobOf(w).sub.kind) => Arrives(w)
<1>1. Stops(w) => workers'[w].pc \in Points
  BY DEF Stops, Points
<1>2. Stops(w) => Placed(workers'[w].pc, workers'[w].local, JobOf(w).sub.kind)
  BY <1>1, NothingInHand
<1> QED
  BY <1>2, StageFacts DEF Stops, Moves, Saves, Arrives

\* Where they are placed.
LEMMA Places ==
  ASSUME NEW l
  PROVE  /\ \A kind : Placed("finish", l, kind)
         /\ \A kind \in {"detect", "hash"} :
              /\ \A to \in {"clear", "cleared", "groupPage", "groupReport"} : Placed(to, l, kind)
              /\ l.page \subseteq Keys[GroupKind(kind)] /\ l.last \in Keys[GroupKind(kind)] =>
                   Placed("group", l, kind)
         /\ Placed("hashPage", l, "hash") /\ Placed("hashed", l, "hash")
         /\ l.page \subseteq Files =>
              /\ Placed("hashReport", l, "hash")
              /\ l.page # {} => Placed("hashChunk", l, "hash")
              /\ l.last \in Files => Placed("hashFiles", l, "hash")
         /\ Placed("mediaPage", l, "media")
         /\ l.page \subseteq Files =>
              /\ Placed("mediaReport", l, "media")
              /\ l.page # {} => Placed("mediaApproved", l, "media") /\ Placed("mediaChunk", l, "media")
              /\ l.last \in Files => Placed("mediaFiles", l, "media")
         /\ Placed("relClear", l, "relations")
         /\ l.last \in Sweeps =>
              /\ Placed("relPage", l, "relations")
              /\ l.page \subseteq PlacesOf(l.last) =>
                   /\ Placed("relGroup", l, "relations")
                   /\ l.page # {} => Placed("relContext", l, "relations")
<1>1. \A kind : Placed("finish", l, kind)
  BY NothingInHand DEF Points
<1> QED
  BY <1>1 DEF Placed, PointsOf, GroupPoints, PagePoints

LEMMA HashArrives ==
  ASSUME AInv, OnlyStages, NEW w \in Workers,
         \/ BeginHash(w) \/ HashPage(w) \/ HashChunk(w)
         \/ \E f \in Files : StartFile(w, f) \/ FinishFile(w, f)
         \/ SaveHashed(w) \/ ReportHashed(w) \/ HashingDone(w)
  PROVE  Arrives(w)
<1> DEFINE kind == JobOf(w).sub.kind
           pc == workers[w].pc
           next == workers'[w].local
<1>1. pc \in PointsOf["hash"] \ GroupPoints /\ pc \in StagePoints
  BY BeginHashSteps, HashPageSteps, HashChunkSteps, StartFileSteps, FinishFileSteps,
     SaveHashedSteps, ReportHashedSteps, HashingDoneSteps
     DEF PointsOf, GroupPoints, StagePoints, IdentityPoints
<1>2. kind = "hash"
  BY <1>1, KindAt
<1>3. /\ Stops(w) => Arrives(w)
      /\ \A to, l : Moves(w, to, l) /\ Placed(to, l, "hash") => Arrives(w)
      /\ \A to, l : Goes(w, to, l) /\ Placed(to, l, "hash") => Arrives(w)
      /\ \A c, to, l : Saves(w, c, to, l) /\ Placed(to, l, "hash") => Arrives(w)
  BY <1>1, <1>2, Arrivals DEF Goes
<1>4. CASE BeginHash(w)
  BY <1>3, <1>4, BeginHashSteps, Places
<1>5. CASE HashPage(w)
  BY <1>3, <1>5, HashPageSteps, Places
<1>6. CASE HashChunk(w)
  BY <1>3, <1>6, HashChunkSteps, BegunFacts, Places
<1>7. ASSUME NEW f \in Files, StartFile(w, f) \/ FinishFile(w, f)
      PROVE  Arrives(w)
  <2>1. Moves(w, "hashFiles", next) /\ next.page \subseteq Files /\ next.last \in Files
    BY <1>7, StartFileSteps, FinishFileSteps
  <2> QED
    BY <1>3, <2>1, Places
<1>8. CASE SaveHashed(w)
  BY <1>3, <1>8, SaveHashedSteps, Places
<1>9. CASE ReportHashed(w)
  BY <1>3, <1>9, ReportHashedSteps, Places
<1>10. CASE HashingDone(w)
  BY <1>3, <1>10, HashingDoneSteps, Places
<1> QED
  BY <1>4, <1>5, <1>6, <1>7, <1>8, <1>9, <1>10

LEMMA GroupsArrive ==
  ASSUME AInv, OnlyStages, NEW w \in Workers,
         BeginDetect(w) \/ Clear(w) \/ SaveCleared(w) \/ GroupMoves(w)
  PROVE  Arrives(w)
<1> DEFINE kind == JobOf(w).sub.kind
           pc == workers[w].pc
           next == workers'[w].local
<1>1. (pc \in GroupPoints \/ pc = "detect") /\ pc \in StagePoints
  BY BeginDetectSteps, ClearSteps, SaveClearedSteps, GroupPageSteps, UpsertGroupSteps,
     AskForKeeperSteps, SaveGroupsSteps, ReportGroupsSteps
     DEF GroupMoves, GroupPoints, StagePoints, IdentityPoints
<1>2. kind \in {"detect", "hash"}
  BY <1>1, KindAt
<1>3. /\ Stops(w) => Arrives(w)
      /\ \A to, l : Moves(w, to, l) /\ Placed(to, l, kind) => Arrives(w)
      /\ \A to, l : Goes(w, to, l) /\ Placed(to, l, kind) => Arrives(w)
      /\ \A c, to, l : Saves(w, c, to, l) /\ Placed(to, l, kind) => Arrives(w)
  BY <1>1, Arrivals DEF Goes
<1>4. CASE BeginDetect(w)
  BY <1>2, <1>3, <1>4, BeginDetectSteps, Places
<1>5. CASE Clear(w)
  BY <1>2, <1>3, <1>5, ClearSteps, Places
<1>6. CASE SaveCleared(w)
  BY <1>2, <1>3, <1>6, SaveClearedSteps, Places
<1>7. CASE GroupPage(w)
  <2>1. PICK keys \in SUBSET Keys[GroupKind(kind)], group \in Locals :
          /\ keys = {} => Goes(w, "finish", Nothing)
          /\ keys # {} => /\ Goes(w, "group", group)
                          /\ group.page = keys /\ group.last \in keys
    BY <1>7, GroupPageSteps
  <2> QED
    BY <1>2, <1>3, <2>1, Places
<1>8. CASE UpsertGroup(w)
  <2>1. \/ Stops(w)
        \/ /\ Moves(w, "group", next) /\ next.page \subseteq Keys[GroupKind(kind)]
           /\ next.last \in Keys[GroupKind(kind)]
    BY <1>8, UpsertGroupSteps
  <2> QED
    BY <1>2, <1>3, <2>1, Places
<1>9. CASE AskForKeeper(w)
  <2>1. /\ Moves(w, "group", next) /\ next.page \subseteq Keys[GroupKind(kind)]
        /\ next.last \in Keys[GroupKind(kind)]
    BY <1>9, AskForKeeperSteps
  <2> QED
    BY <1>2, <1>3, <2>1, Places
<1>10. CASE SaveGroups(w)
  BY <1>2, <1>3, <1>10, SaveGroupsSteps, Places
<1>11. CASE ReportGroups(w)
  BY <1>2, <1>3, <1>11, ReportGroupsSteps, Places
<1> QED
  BY <1>4, <1>5, <1>6, <1>7, <1>8, <1>9, <1>10, <1>11 DEF GroupMoves

LEMMA MediaArrives ==
  ASSUME AInv, OnlyStages, NEW w \in Workers,
         \/ BeginMedia(w) \/ MediaPage(w) \/ MediaApproved(w) \/ MediaChunk(w)
         \/ \E f \in Files : StartTask(w, f) \/ FinishTask(w, f)
         \/ saveAnalyzerResult(w) \/ saveUnderstanding(w) \/ createReviewItems(w)
         \/ SaveAnalyzed(w) \/ ReportAnalyzed(w)
  PROVE  Arrives(w)
<1> DEFINE kind == JobOf(w).sub.kind
           pc == workers[w].pc
           l == workers[w].local
           next == workers'[w].local
<1>1. pc \in PointsOf["media"] /\ pc \in StagePoints
  <2>1. CASE \E f \in Files : StartTask(w, f) \/ FinishTask(w, f)
    BY <2>1, StartTaskSteps, FinishTaskSteps DEF PointsOf, StagePoints, MetadataPoints
  <2>2. CASE saveAnalyzerResult(w) \/ saveUnderstanding(w) \/ createReviewItems(w)
    BY <2>2 DEF saveAnalyzerResult, saveUnderstanding, createReviewItems, ChunkAnalyzed, At,
                PointsOf, StagePoints, MetadataPoints
  <2>3. CASE BeginMedia(w) \/ MediaPage(w) \/ MediaApproved(w) \/ MediaChunk(w)
    BY <2>3, BeginMediaSteps, MediaPageSteps, MediaApprovedSteps, MediaChunkSteps
       DEF PointsOf, StagePoints, MetadataPoints
  <2>4. CASE SaveAnalyzed(w) \/ ReportAnalyzed(w)
    BY <2>4, SaveAnalyzedSteps, ReportAnalyzedSteps DEF PointsOf, StagePoints, MetadataPoints
  <2> QED
    BY <2>1, <2>2, <2>3, <2>4
<1>2. kind = "media"
  BY <1>1, KindAt
<1>3. /\ Stops(w) => Arrives(w)
      /\ \A to, local : Moves(w, to, local) /\ Placed(to, local, "media") => Arrives(w)
      /\ \A to, local : Goes(w, to, local) /\ Placed(to, local, "media") => Arrives(w)
      /\ \A c, to, local : Saves(w, c, to, local) /\ Placed(to, local, "media") => Arrives(w)
  BY <1>1, <1>2, Arrivals DEF Goes
<1>4. CASE BeginMedia(w)
  BY <1>3, <1>4, BeginMediaSteps, Places
<1>5. CASE MediaPage(w)
  <2>1. PICK page \in SUBSET Files, local \in Locals :
          /\ local.page = page
          /\ Goes(w, IF page = {} THEN "finish" ELSE "mediaApproved", local)
    BY <1>5, MediaPageSteps
  <2> QED
    BY <1>3, <2>1, Places
<1>6. CASE MediaApproved(w)
  BY <1>3, <1>6, MediaApprovedSteps, Places
<1>7. CASE MediaChunk(w)
  BY <1>3, <1>7, MediaChunkSteps, BegunFacts, Places
<1>8. ASSUME pc = "mediaFiles", Moves(w, "mediaFiles", next), next.page = l.page,
             next.last = l.last
      PROVE  Arrives(w)
  <2>1. next.page \subseteq Files /\ next.last \in Files
    BY <1>8, ChunkFacts
  <2> QED
    BY <1>3, <1>8, <2>1, Places
<1>9. ASSUME NEW f \in Files, StartTask(w, f) \/ FinishTask(w, f)
      PROVE  Arrives(w)
  BY <1>8, <1>9, StartTaskSteps, FinishTaskSteps
<1>10. CASE saveAnalyzerResult(w)
  <2>1. pc = "mediaFiles" /\ Moves(w, "mediaFiles", next) /\ next = [l EXCEPT !.cursor = 1]
    BY <1>10, Zenon, saveAnalyzerResultSteps
  <2> QED
    BY <1>8, <2>1, ChunkFacts DEF Locals
<1>11. CASE saveUnderstanding(w)
  <2>1. pc = "mediaFiles" /\ Moves(w, "mediaFiles", next) /\ next = [l EXCEPT !.cursor = 2]
    BY <1>11, Zenon, saveUnderstandingSteps
  <2> QED
    BY <1>8, <2>1, ChunkFacts DEF Locals
<1>12. CASE createReviewItems(w)
  <2>1. /\ pc = "mediaFiles" /\ Moves(w, "mediaFiles", next)
        /\ next = [l EXCEPT !.cursor = 0, !.done = l.done \ {NextOutcome(w)}]
    BY <1>12, Zenon, createReviewItemsSteps
  <2> QED
    BY <1>8, <2>1, ChunkFacts DEF Locals
<1>13. CASE SaveAnalyzed(w)
  BY <1>3, <1>13, SaveAnalyzedSteps, Places
<1>14. CASE ReportAnalyzed(w)
  BY <1>3, <1>14, ReportAnalyzedSteps, Places
<1> QED
  BY <1>4, <1>5, <1>6, <1>7, <1>9, <1>10, <1>11, <1>12, <1>13, <1>14

LEMMA RelationsArrive ==
  ASSUME AInv, OnlyStages, NEW w \in Workers,
         \/ BeginRelations(w) \/ clearSemanticAnalysis(w) \/ RelationPage(w)
         \/ saveSemanticGroup(w) \/ applyGroupContext(w) \/ ReportRelations(w)
  PROVE  Arrives(w)
<1> DEFINE kind == JobOf(w).sub.kind
           pc == workers[w].pc
           l == workers[w].local
           next == workers'[w].local
<1>1. pc \in PointsOf["relations"] /\ pc \in StagePoints
  BY BeginRelationsSteps, clearSemanticAnalysisSteps, RelationPageSteps, saveSemanticGroupSteps,
     applyGroupContextSteps, ReportRelationsSteps
     DEF PointsOf, StagePoints, MetadataPoints
<1>2. kind = "relations" /\ Sweeps = 1 .. 3
  BY <1>1, KindAt, MetadataAssumption
<1>3. /\ Stops(w) => Arrives(w)
      /\ \A to, local : Moves(w, to, local) /\ Placed(to, local, "relations") => Arrives(w)
      /\ \A to, local : Goes(w, to, local) /\ Placed(to, local, "relations") => Arrives(w)
  BY <1>1, <1>2, Arrivals DEF Goes
<1>4. pc \in {"relGroup", "relContext"} => l.last \in Sweeps /\ l.page \subseteq PlacesOf(l.last)
  BY <1>1, StageFacts DEF Placed
<1>5. CASE BeginRelations(w)
  BY <1>3, <1>5, BeginRelationsSteps, Places
<1>6. CASE clearSemanticAnalysis(w)
  <2>1. Moves(w, "relPage", next) /\ next.last \in Sweeps
    BY <1>2, <1>6, clearSemanticAnalysisSteps
  <2> QED
    BY <1>3, <2>1, Places
<1>7. CASE RelationPage(w)
  <2>1. {r.place : r \in Found(l.last, l.cursor)} \subseteq PlacesOf(l.last)
    BY DEF Found, PlacesOf
  <2>2. /\ l.last \in 1 .. 3
        /\ \E local \in Locals :
             \/ /\ Goes(w, "relGroup", local) /\ local.last = l.last
                /\ local.page \subseteq {r.place : r \in Found(l.last, l.cursor)}
             \/ l.last < 3 /\ Goes(w, "relPage", local) /\ local.last = l.last + 1
             \/ Goes(w, "finish", local)
    BY <1>7, RelationPageSteps
  <2>3. PICK local \in Locals :
          \/ /\ Goes(w, "relGroup", local) /\ local.last = l.last
             /\ local.page \subseteq {r.place : r \in Found(l.last, l.cursor)}
          \/ l.last < 3 /\ Goes(w, "relPage", local) /\ local.last = l.last + 1
          \/ Goes(w, "finish", local)
    BY <2>2
  <2>4. \/ /\ Goes(w, "relGroup", local) /\ local.last \in Sweeps
           /\ local.page \subseteq PlacesOf(local.last)
        \/ Goes(w, "relPage", local) /\ local.last \in Sweeps
        \/ Goes(w, "finish", local)
    BY <1>2, <2>1, <2>2, <2>3
  <2> QED
    BY <1>3, <2>4, Places
<1>8. CASE saveSemanticGroup(w)
  BY <1>3, <1>4, <1>8, saveSemanticGroupSteps, Places
<1>9. CASE applyGroupContext(w)
  <2>1. /\ Moves(w, "relGroup", next) /\ next.last \in Sweeps
        /\ next.page \subseteq PlacesOf(next.last)
    BY <1>4, <1>9, applyGroupContextSteps
  <2> QED
    BY <1>3, <2>1, Places
<1>10. CASE ReportRelations(w)
  BY <1>3, <1>4, <1>10, ReportRelationsSteps, Places
<1> QED
  BY <1>5, <1>6, <1>7, <1>8, <1>9, <1>10

-----------------------------------------------------------------------------
(* The stages keep to the queue.                                           *)

\* A row keeps what was submitted.
LEMMA SameSubmission ==
  ASSUME TableStep, NEW j \in Ids
  PROVE  j \in Ids' /\ jobs'[j].sub = jobs[j].sub
BY DEF TableStep, RowStep

LEMMA AInvActs ==
  ASSUME AInv, StoreStep, NEW w \in Workers, NEW done, NEW saved, Acts(w, done, saved),
         StagesTyped',
         \/ workers'[w].pc \in Points
         \/ /\ Linked(workers[w]) /\ workers'[w].job = workers[w].job
            /\ Placed(workers'[w].pc, workers'[w].local, JobOf(w).sub.kind)
  PROVE  AInv' /\ [Next]_jobs
<1>1. IndInv' /\ LinkInv'
  BY ActsInv DEF AInv
<1>2. TableStep /\ [Next]_jobs /\ \A v \in Workers \ {w} : workers'[v] = workers[v]
  BY DEF Acts, Effect
<1>3. Tables(store')
  BY DEF StoreStep
<1>4. ASSUME NEW v \in Workers, Linked(workers'[v])
      PROVE  Placed(workers'[v].pc, workers'[v].local, jobs'[workers'[v].job].sub.kind)
  <2>1. CASE workers'[v].pc \in Points
    BY <2>1, NothingInHand
  <2>2. CASE /\ Linked(workers[v]) /\ workers'[v].job = workers[v].job
             /\ Placed(workers'[v].pc, workers'[v].local, jobs[workers[v].job].sub.kind)
    <3>1. workers[v].job \in Ids
      BY <2>2 DEF AInv, LinkInv, LinkOK
    <3> QED
      BY <1>2, <2>2, <3>1, SameSubmission
  <2>3. v # w => /\ Linked(workers[v]) /\ workers'[v].job = workers[v].job
                 /\ Placed(workers'[v].pc, workers'[v].local, jobs[workers[v].job].sub.kind)
    BY <1>2, <1>4 DEF AInv, JobOf, Job
  <2> QED
    BY <2>1, <2>2, <2>3 DEF JobOf, Job
<1>5. /\ Tables(store)'
      /\ \A v \in Workers : Linked(workers'[v]) =>
           Placed(workers'[v].pc, workers'[v].local, JobOf(v)'.sub.kind)
  BY <1>3, <1>4 DEF JobOf, Job, Tables, IsStore, GroupsTyped
<1> QED
  BY <1>1, <1>2, <1>5 DEF AInv, Placed, Linked

\* No worker moves.
LEMMA AInvQuiet ==
  ASSUME AInv, StoreStep, [Next]_jobs, UNCHANGED workers
  PROVE  AInv'
<1>1. IndInv' /\ TableStep
  BY IndInvNext, NextStep DEF AInv
<1>2. LinkInv' /\ StagesTyped'
  BY <1>1, LinkTable DEF AInv, StagesTyped
<1>3. Tables(store)'
  BY DEF StoreStep, Tables, IsStore, GroupsTyped
<1>4. ASSUME NEW v \in Workers, Linked(workers'[v])
      PROVE  Placed(workers'[v].pc, workers'[v].local, jobs'[workers'[v].job].sub.kind)
  <2>1. workers[v].job \in Ids /\ Placed(workers[v].pc, workers[v].local, JobOf(v).sub.kind)
    BY <1>4 DEF AInv, LinkInv, LinkOK, Linked
  <2> QED
    BY <1>1, <2>1, SameSubmission DEF JobOf, Job
<1> QED
  BY <1>1, <1>2, <1>3, <1>4 DEF AInv, JobOf, Job, Linked, Placed

LEMMA AInvWorker ==
  ASSUME AInv, OnlyStages, StoreStep, NEW w \in Workers, WorkerMoves(w)
  PROVE  AInv' /\ [Next]_jobs
<1>1. CASE Load(w)
  <2>1. /\ StagesTyped' /\ Acts(w, {}, {}) /\ workers[w].pc = "load"
        /\ JobOf(w).sub.kind \in {"detect", "hash", "media", "relations"}
        /\ workers'[w].pc = "down" \/ ( /\ workers'[w].pc = JobOf(w).sub.kind
                                        /\ workers'[w].job = workers[w].job)
    BY <1>1, LoadSteps
  <2>2. workers'[w].pc = JobOf(w).sub.kind =>
          Placed(workers'[w].pc, workers'[w].local, JobOf(w).sub.kind)
    BY <2>1 DEF Placed, PointsOf, PagePoints
  <2> QED
    BY <2>1, <2>2, AInvActs DEF Linked, Points
<1>2. CASE IdentityMoves(w) \/ MetadataMoves(w)
  <2>1. Arrives(w)
    BY <1>2, HashArrives, GroupsArrive, MediaArrives, RelationsArrive
       DEF IdentityMoves, MetadataMoves
  <2>2. PICK saved \in SUBSET {workers[w].job} : Acts(w, {}, saved)
    BY <2>1 DEF Arrives
  <2> QED
    BY <2>1, <2>2, AInvActs DEF Arrives
<1>3. CASE ProcessMoves(w)
  <2>1. NoLocal \in Locals /\ workers \in [Workers -> Worker(StagePoints, Locals)]
    BY DEF OnlyStages, Locals, Nothing, AInv, StagesTyped
  <2>2. workers' \in [Workers -> Worker(StagePoints, Locals)] /\ ProcessActs(w)
    BY <1>3, <2>1, ProcessMovesActs DEF AInv
  <2>3. workers'[w].pc \in Points
    BY <2>2 DEF ProcessActs, Resting, Answers, Points
  <2> QED
    BY <2>2, <2>3, AInvActs DEF ProcessActs, StagesTyped
<1> QED
  BY <1>1, <1>2, <1>3 DEF WorkerMoves

LEMMA AInvNext ==
  ASSUME AInv, OnlyStages, [INext]_vars
  PROVE  AInv' /\ [Next]_jobs
<1>1. StoreStep
  BY StoreSteps DEF AInv
<1>2. ASSUME UNCHANGED workers, [Next]_jobs PROVE AInv' /\ [Next]_jobs
  BY <1>1, <1>2, AInvQuiet
<1>3. CASE UNCHANGED vars \/ (UserActs /\ UNCHANGED <<jobs, workers>>)
  BY <1>2, <1>3 DEF vars
<1>4. CASE UNCHANGED workers /\ ((\E s \in Submissions : StartStage(s)) \/ Control
                                   \/ (\E j \in Ids : Resume(j)) \/ Tick)
  <2>1. Next
    BY <1>4 DEF StartStage, Control, Next, ClientStep
  <2> QED
    BY <1>2, <1>4, <2>1
<1>5. ASSUME NEW w \in Workers, WorkerMoves(w) PROVE AInv' /\ [Next]_jobs
  BY <1>1, <1>5, AInvWorker
<1>6. ASSUME NEW w \in Workers, Crash(w) PROVE AInv' /\ [Next]_jobs
  <2>1. NoLocal \in Locals /\ workers \in [Workers -> Worker(StagePoints, Locals)] /\ Die(w)
    BY <1>6 DEF OnlyStages, Locals, Nothing, AInv, StagesTyped, Crash
  <2>2. /\ workers' \in [Workers -> Worker(StagePoints, Locals)] /\ Acts(w, {}, {})
        /\ workers'[w].pc = "down"
    BY <2>1, DieActs
  <2> QED
    BY <1>1, <2>2, AInvActs DEF StagesTyped, Points
<1> QED
  BY <1>3, <1>4, <1>5, <1>6 DEF INext, vars

LEMMA AInvInit == ASSUME IInit, OnlyStages PROVE AInv
<1>1. Init /\ Tables(store)
  BY FirstTables DEF IInit, ProcessInit
<1>2. Idle("recover") \in Worker(StagePoints, Locals) /\ Idle("recover").pc = "recover"
  BY IdleType DEF Points, OnlyStages, Locals, Nothing
<1>3. StagesTyped /\ \A w \in Workers : workers[w].pc = "recover"
  BY <1>2 DEF StagesTyped, IInit, ProcessInit
<1>4. IndInv /\ Ids = {}
  BY <1>1, IndInvInit, EmptySeq DEF Init, Ids
<1> QED
  BY <1>1, <1>3, <1>4 DEF AInv, LinkInv, Bounded, LinkOK, Linked

LEMMA AInvAlways == ASSUME OnlyStages PROVE ISpec => []AInv
<1>1. IInit => AInv
  BY AInvInit
<1>2. AInv /\ [INext]_vars => AInv'
  BY AInvNext
<1> QED
  BY <1>1, <1>2, PTL DEF ISpec

\* The handlers of the analysis, the pages that start its jobs and the user keep to the
\* queue, whatever the tables hold: its operations are all that happens to the table of
\* jobs, whose theorems hold of the analysis too.
THEOREM StagesImplementQueue == ASSUME OnlyStages PROVE ISpec => Spec
<1>1. IInit => Init
  BY DEF IInit, ProcessInit
<1>2. AInv /\ [INext]_vars => [Next]_jobs
  BY AInvNext
<1> QED
  BY <1>1, <1>2, AInvAlways, PTL DEF ISpec, Spec

-----------------------------------------------------------------------------
(* One worker: what the tables hold behind a checkpoint.  The operators    *)
(* take the tables as a parameter, so that they speak of both ends of a    *)
(* step.                                                                   *)

Asked(s, reason, of) == s.reviews[<<reason, of>>] # "none"

HashedIn(s, f) == s.hashes[f] # 0 \/ (f \in s.unhashed /\ Asked(s, "stale", f))
MediaIn(s, f) ==
  \/ Asked(s, "stale", f)
  \/ /\ s.files[f] # "none" /\ s.results[f] # "none"
     /\ s.files[f] = "unsure" => Asked(s, "unsure", f)

MembersIn(s, kind, k) ==
  IF kind = "candidate" THEN {f \in Files : Size[f] = k} ELSE {f \in Files : s.hashes[f] = k}
ManyIn(s, kind) == {k \in Keys[kind] : Cardinality(MembersIn(s, kind, k)) > 1}
GroupIn(s, kind, k) ==
  /\ s.groups[kind][k].members = MembersIn(s, kind, k)
  /\ kind = "exact" => Asked(s, "keeper", k)

\* A group is as it is to be, or not there; up to a key every group is there.
SoundIn(s, kind) ==
  \A k \in Keys[kind] :
    \/ s.groups[kind][k].members = {}
    \/ k \in ManyIn(s, kind) /\ s.groups[kind][k].members = MembersIn(s, kind, k)
GroupsIn(s, kind, a) ==
  SoundIn(s, kind) /\ \A k \in ManyIn(s, kind) : k <= a => GroupIn(s, kind, k)

ScopeIn(s, sub, e) ==
  IF sub.scope = "all" THEN Files
  ELSE IF e THEN {} ELSE UNION {s.groups["candidate"][k].members : k \in Sizes}

BehindIn(s, sub, e, c) ==
  /\ sub.kind = "detect" /\ c >= 1 => GroupsIn(s, "candidate", c - 1)
  /\ sub.kind = "hash" =>
       /\ \A f \in ScopeIn(s, sub, e) : f <= c => HashedIn(s, f)
       /\ c >= N + 2 => GroupsIn(s, "exact", c - (N + 2))
  /\ sub.kind = "media" => \A f \in Files : f <= c => MediaIn(s, f)

FoundIn(s, n, after) ==
  {r \in Evidence[n] : r.at > after /\ \A f \in r.needs : s.files[f] # "none"}
\* The sweeps before this one, and of this one what is not behind the cursor or in hand.
SemanticIn(s, n, c, page) ==
  (UNION {FoundIn(s, q, 0) : q \in 1 .. n - 1})
    \cup {r \in FoundIn(s, n, 0) : r.at <= c /\ r.place \notin page}

\* What the job is there for.
ThereIn(s, kind) ==
  \A k \in Keys[kind] :
    s.groups[kind][k].members = IF k \in ManyIn(s, kind) THEN MembersIn(s, kind, k) ELSE {}
DoneIn(s, sub, e) ==
  /\ sub.kind = "detect" => ThereIn(s, "candidate")
  /\ sub.kind = "hash" => /\ \A f \in ScopeIn(s, sub, e) : HashedIn(s, f)
                          /\ ThereIn(s, "exact")
                          /\ \A k \in ManyIn(s, "exact") : Asked(s, "keeper", k)
  /\ sub.kind = "media" => \A f \in Files : MediaIn(s, f)
  /\ sub.kind = "relations" => s.semantic = UNION {FoundIn(s, q, 0) : q \in Sweeps}

-----------------------------------------------------------------------------
(* What a worker has in hand, at each place of a handler.                  *)

\* The beginning of what a set has behind a position.
RestOf(S, after, page) ==
  /\ \A p \in page : p > after
  /\ \A f \in S : f > after => f \in page \/ \A p \in page : p < f

HashAt(s, pc, l, saved, scope) ==
  /\ pc \in {"hashPage", "hashChunk", "hashFiles", "hashReport", "hashed"} => saved <= N
  /\ pc \in {"hashChunk", "hashReport"} => RestOf(scope, saved, l.page)
  /\ pc = "hashFiles" =>
       /\ RestOf(scope, l.last, l.page)
       /\ \A f \in scope : f <= l.last => f \in l.todo \cup l.reading \/ HashedIn(s, f)
  /\ pc = "hashed" => \A f \in scope : HashedIn(s, f)

GroupAt(s, pc, l, saved, sub) ==
  LET kind == GroupKind(sub.kind)
  IN /\ pc \in {"clear", "cleared"} => saved = IF sub.kind = "detect" THEN 0 ELSE N + 1
     /\ pc \in {"groupPage", "group", "groupReport"} => saved >= FirstOf(sub.kind)
     /\ pc = "cleared" => \A k \in Keys[kind] : s.groups[kind][k].members = {}
     /\ pc = "group" =>
          /\ l.page \subseteq ManyIn(s, kind)
          /\ \A k \in ManyIn(s, kind) : k <= l.last => k \in l.page \/ GroupIn(s, kind, k)
          /\ l.cursor # 0 => /\ kind = "exact" /\ l.cursor \in l.page
                             /\ s.groups[kind][l.cursor].members = MembersIn(s, kind, l.cursor)

FirstOutcome(l) == CHOOSE o \in l.done : \A p \in l.done : o.file <= p.file
InHandIn(l) == l.todo \cup l.reading \cup {o.file : o \in l.done}
MediaAt(s, pc, l, saved) ==
  /\ pc \in {"mediaApproved", "mediaChunk", "mediaReport"} =>
       RestOf(Files, saved, l.page) /\ l.reading = {} /\ l.cursor = 0
  /\ pc = "mediaFiles" =>
       /\ RestOf(Files, l.last, l.page) /\ saved <= l.last
       /\ \A f \in InHandIn(l) : f > saved
       /\ \A f \in Files : f <= l.last => f \in InHandIn(l) \/ MediaIn(s, f)
       /\ \A o \in l.done : o.result = "reused" =>
            s.results[o.file] # "none" \/ Earlier[o.file] # "none"
       /\ l.cursor # 0 => /\ l.todo = {} /\ l.reading = {} /\ l.done # {}
                          /\ l.cursor \in {1, 2}
                          /\ s.results[FirstOutcome(l).file] # "none"
       /\ l.cursor = 2 => /\ s.files[FirstOutcome(l).file] # "none"
                          /\ s.files[FirstOutcome(l).file] = "unsure" => FirstOutcome(l).unsure

FirstRelation(l) == CHOOSE r \in Evidence[l.last] : r.place = Least(l.page)
RelationsAt(s, pc, l) ==
  /\ pc = "relPage" => s.semantic = SemanticIn(s, l.last, l.cursor, {})
  /\ pc = "relGroup" => s.semantic = SemanticIn(s, l.last, l.cursor, l.page)
  /\ pc = "relContext" =>
       s.semantic = SemanticIn(s, l.last, l.cursor, l.page) \cup {FirstRelation(l)}
  /\ pc \in {"relGroup", "relContext"} =>
       /\ l.page \subseteq {r.place : r \in FoundIn(s, l.last, 0)}
       /\ \A r \in Evidence[l.last] : r.place \in l.page => r.at >= l.cursor
       /\ \A q \in Evidence[l.last] : q.place \in l.page =>
            \A r \in FoundIn(s, l.last, l.cursor) : r.place \in l.page \/ r.at > q.at

\* Where the handler's job still has the checkpoint that the worker knows of.
BusyPoints == StagePoints \cup {"finish", "complete", "ackPause"}
Work(s, pc, l, saved, sub, e) ==
  pc \in BusyPoints =>
    /\ BehindIn(s, sub, e, saved)
    /\ HashAt(s, pc, l, saved, ScopeIn(s, sub, e))
    /\ GroupAt(s, pc, l, saved, sub)
    /\ MediaAt(s, pc, l, saved)
    /\ RelationsAt(s, pc, l)
    /\ pc \in {"finish", "complete"} => DoneIn(s, sub, e)

-----------------------------------------------------------------------------
(* The invariant.                                                          *)

\* The hypotheses: no stage is submitted twice, and a sweep goes on behind the path that
\* it has come to, which is the end of a page only when no pair of that path is left.
OneOfAKind == \A r, s \in Submissions : r.kind = s.kind => r = s
PagesHold ==
  \A n \in Sweeps :
    /\ \A r, q \in Evidence[n] : r.place < q.place => r.at <= q.at
    /\ \/ \A r, q \in Evidence[n] : r.place < q.place => r.at < q.at
       \/ IsFiniteSet(Evidence[n]) /\ Cardinality(Evidence[n]) <= RelatedPageSize

Detected == \E i \in Ids : jobs[i].sub.kind = "detect" /\ jobs[i].status = "completed"

RowsInv ==
  /\ \A i, j \in Ids : jobs[i].sub.kind = jobs[j].sub.kind => i = j
  /\ \A j \in Ids : BehindIn(store, jobs[j].sub, j \in early, jobs[j].checkpoint)
  /\ DOMAIN store.results = Files /\ DOMAIN store.files = Files

WorkerInv(w) ==
  LET x == workers[w]
      busy == x.pc \in BusyPoints
  IN /\ Linked(x) => jobs[x.job].status # "completed"
     /\ busy => jobs[x.job].checkpoint \in {0, x.saved}
     /\ \A j \in Ids :
          jobs[j].sub.kind = "hash" /\ (jobs[j].checkpoint # 0 \/ (busy /\ x.job = j)) =>
            j \in early \/ Detected
     /\ Work(store, x.pc, x.local, x.saved, jobs[x.job].sub, x.job \in early)

DInv(w) == AInv /\ RowsInv /\ WorkerInv(w)

-----------------------------------------------------------------------------
(* What the tables keep.                                                   *)

\* Nothing that was hashed or asked for is forgotten.
Grown(s, t) ==
  /\ \A key \in ReviewKeys : s.reviews[key] # "none" => t.reviews[key] # "none"
  /\ \A f \in Files : s.hashes[f] # 0 => t.hashes[f] # 0
  /\ s.unhashed \subseteq t.unhashed

SameMembers(s, t, kind) ==
  \A k \in Keys[kind] : t.groups[kind][k].members = s.groups[kind][k].members

\* The analysis of a file, which may have become more certain.
MediaKept(s, t, f) ==
  /\ s.results[f] # "none" => t.results[f] # "none"
  /\ s.files[f] # "none" => t.files[f] # "none"
  /\ t.files[f] = "unsure" => s.files[f] = "unsure"

LEMMA AskedKept ==
  ASSUME NEW s, NEW t, Grown(s, t)
  PROVE  /\ \A reason \in {"stale", "unsure", "failed"}, f \in Files :
              Asked(s, reason, f) => Asked(t, reason, f)
         /\ \A k \in Digests : Asked(s, "keeper", k) => Asked(t, "keeper", k)
BY DEF Asked, Grown, ReviewKeys

LEMMA FilesKept ==
  ASSUME NEW s, NEW t, Grown(s, t), NEW f \in Files
  PROVE  /\ HashedIn(s, f) => HashedIn(t, f)
         /\ MediaKept(s, t, f) /\ MediaIn(s, f) => MediaIn(t, f)
BY AskedKept DEF Grown, HashedIn, MediaIn, MediaKept

LEMMA KindsOfGroups ==
  /\ GroupKinds = {"candidate", "exact"} /\ Keys["candidate"] = Sizes /\ Keys["exact"] = Digests
  /\ \A kind : GroupKind(kind) \in GroupKinds
  /\ GroupKind("detect") = "candidate" /\ GroupKind("hash") = "exact"
  /\ FirstOf("detect") = 1 /\ FirstOf("hash") = N + 2
BY DEF GroupKinds, Keys, GroupKind, FirstOf

LEMMA GroupsSame ==
  ASSUME NEW s, NEW t, Grown(s, t), NEW kind \in GroupKinds, SameMembers(s, t, kind),
         kind = "exact" => t.hashes = s.hashes
  PROVE  /\ \A k : MembersIn(t, kind, k) = MembersIn(s, kind, k)
         /\ ManyIn(t, kind) = ManyIn(s, kind) /\ ManyIn(s, kind) \subseteq Keys[kind]
         /\ \A k \in Keys[kind] : GroupIn(s, kind, k) => GroupIn(t, kind, k)
         /\ SoundIn(s, kind) => SoundIn(t, kind)
         /\ \A a : GroupsIn(s, kind, a) => GroupsIn(t, kind, a)
         /\ ThereIn(s, kind) => ThereIn(t, kind)
<1>1. \A k : MembersIn(t, kind, k) = MembersIn(s, kind, k)
  BY DEF MembersIn, GroupKinds
<1>2. ManyIn(t, kind) = ManyIn(s, kind) /\ ManyIn(s, kind) \subseteq Keys[kind]
  BY <1>1 DEF ManyIn
<1>3. \A k \in Keys[kind] : GroupIn(s, kind, k) => GroupIn(t, kind, k)
  BY <1>1, AskedKept, KindsOfGroups DEF GroupIn, SameMembers
<1>4. SoundIn(s, kind) => SoundIn(t, kind)
  BY <1>1, <1>2 DEF SoundIn, SameMembers
<1>5. ThereIn(s, kind) => ThereIn(t, kind)
  BY <1>1, <1>2 DEF ThereIn, SameMembers
<1> QED
  BY <1>1, <1>2, <1>3, <1>4, <1>5 DEF GroupsIn

LEMMA ScopeSame ==
  ASSUME NEW s, NEW t, SameMembers(s, t, "candidate"), NEW sub, NEW e
  PROVE  ScopeIn(t, sub, e) = ScopeIn(s, sub, e)
<1>1. \A k \in Sizes : t.groups["candidate"][k].members = s.groups["candidate"][k].members
  BY KindsOfGroups DEF SameMembers
<1> QED
  BY <1>1 DEF ScopeIn

LEMMA FoundSame ==
  ASSUME NEW s, NEW t, \A f : (t.files[f] = "none") <=> (s.files[f] = "none")
  PROVE  /\ \A n, after : FoundIn(t, n, after) = FoundIn(s, n, after)
         /\ \A n, c, page : SemanticIn(t, n, c, page) = SemanticIn(s, n, c, page)
<1>1. \A n, after : FoundIn(t, n, after) = FoundIn(s, n, after)
  BY DEF FoundIn
<1> QED
  BY <1>1 DEF SemanticIn

-----------------------------------------------------------------------------
(* What is asked of a worker, stage by stage.                              *)

HashPoints == {"hash", "hashPage", "hashChunk", "hashFiles", "hashReport", "hashed"}
MediaPoints == {"media", "mediaPage", "mediaApproved", "mediaChunk", "mediaFiles", "mediaReport"}
RelationPoints == {"relations", "relClear", "relPage", "relGroup", "relContext"}

LEMMA WorkOfStages ==
  ASSUME NEW s, NEW pc, NEW l, NEW c, NEW sub, NEW e
  PROVE  /\ pc \notin BusyPoints => Work(s, pc, l, c, sub, e)
         /\ pc \in HashPoints =>
              (Work(s, pc, l, c, sub, e) <=>
                 BehindIn(s, sub, e, c) /\ HashAt(s, pc, l, c, ScopeIn(s, sub, e)))
         /\ pc \in GroupPoints \cup {"detect"} =>
              (Work(s, pc, l, c, sub, e) <=>
                 BehindIn(s, sub, e, c) /\ GroupAt(s, pc, l, c, sub))
         /\ pc \in MediaPoints =>
              (Work(s, pc, l, c, sub, e) <=> BehindIn(s, sub, e, c) /\ MediaAt(s, pc, l, c))
         /\ pc \in RelationPoints =>
              (Work(s, pc, l, c, sub, e) <=> BehindIn(s, sub, e, c) /\ RelationsAt(s, pc, l))
         /\ pc \in {"finish", "complete"} =>
              (Work(s, pc, l, c, sub, e) <=> BehindIn(s, sub, e, c) /\ DoneIn(s, sub, e))
         /\ pc = "ackPause" => (Work(s, pc, l, c, sub, e) <=> BehindIn(s, sub, e, c))
<1>1. pc \notin BusyPoints => Work(s, pc, l, c, sub, e)
  BY DEF Work
<1>2. HashPoints \cup GroupPoints \cup {"detect"} \cup MediaPoints \cup RelationPoints
        \cup {"finish", "complete", "ackPause"} \subseteq BusyPoints
  BY DEF BusyPoints, StagePoints, IdentityPoints, MetadataPoints, HashPoints, GroupPoints,
         MediaPoints, RelationPoints
<1>3. pc \in GroupPoints \cup {"detect"} \cup MediaPoints \cup RelationPoints
              \cup {"finish", "complete", "ackPause"} =>
        HashAt(s, pc, l, c, ScopeIn(s, sub, e))
  BY DEF HashAt, GroupPoints, MediaPoints, RelationPoints
<1>4. pc \in HashPoints \cup MediaPoints \cup RelationPoints \cup {"finish", "complete", "ackPause"} =>
        GroupAt(s, pc, l, c, sub)
  BY DEF GroupAt, HashPoints, MediaPoints, RelationPoints
<1>5. pc \in HashPoints \cup GroupPoints \cup {"detect"} \cup RelationPoints
              \cup {"finish", "complete", "ackPause"} =>
        MediaAt(s, pc, l, c)
  BY DEF MediaAt, HashPoints, GroupPoints, RelationPoints
<1>6. pc \in HashPoints \cup GroupPoints \cup {"detect"} \cup MediaPoints
              \cup {"finish", "complete", "ackPause"} =>
        RelationsAt(s, pc, l)
  BY DEF RelationsAt, HashPoints, GroupPoints, MediaPoints
<1>7. pc \in HashPoints \cup GroupPoints \cup {"detect"} \cup MediaPoints \cup RelationPoints
              \cup {"ackPause"} => pc \notin {"finish", "complete"}
  BY DEF HashPoints, GroupPoints, MediaPoints, RelationPoints
<1> QED
  BY <1>1, <1>2, <1>3, <1>4, <1>5, <1>6, <1>7 DEF Work

\* Nothing lies behind no checkpoint, and less behind one that was set early.
LEMMA BehindNothing ==
  ASSUME NEW s, Tables(s), NEW sub, NEW e
  PROVE  /\ ScopeIn(s, sub, e) \subseteq Files
         /\ BehindIn(s, sub, e, 0)
         /\ ScopeIn(s, sub, TRUE) \subseteq ScopeIn(s, sub, e)
         /\ \A c : BehindIn(s, sub, e, c) => BehindIn(s, sub, TRUE, c)
<1>1. \A k \in Sizes : s.groups["candidate"][k].members \subseteq Files
  BY DEF Tables, GroupsTyped, GroupKinds, Keys, Group
<1>2. ScopeIn(s, sub, e) \subseteq Files /\ ScopeIn(s, sub, TRUE) \subseteq ScopeIn(s, sub, e)
  BY <1>1 DEF ScopeIn
<1>3. \A f \in Files : ~(f <= 0)
  BY FileNumbers
<1>4. N + 2 > 0 /\ ~(0 >= N + 2)
  BY FileNumbers
<1>5. BehindIn(s, sub, e, 0)
  BY <1>2, <1>3, <1>4 DEF BehindIn
<1> QED
  BY <1>2, <1>5 DEF BehindIn

\* A page is what comes next, and a chunk the beginning of it.
LEMMA PageRest ==
  ASSUME NEW S \in SUBSET Nat, NEW T \in SUBSET S, NEW after \in Nat, NEW page,
         Paged(S, after, page)
  PROVE  RestOf(T, after, page) /\ (page = {} => \A f \in T : f <= after)
BY DEF Paged, RestOf

LEMMA ChunkRest ==
  ASSUME NEW l \in Locals, l.page \subseteq Files, l.page # {}, NEW S \in SUBSET Nat,
         NEW after \in Nat, RestOf(S, after, l.page)
  PROVE  LET b == Begun(l)
         IN /\ RestOf(S, b.last, b.page) /\ b.last \in Nat /\ after <= b.last
            /\ \A f \in b.todo : f > after
            /\ \A f \in S : f <= b.last => f \in b.todo \/ f <= after
<1> DEFINE b == Begun(l)
<1>1. /\ b.todo \subseteq l.page /\ b.page = l.page \ b.todo
      /\ b.last \in b.todo /\ b.last \in Files
      /\ \A f \in b.todo : f <= b.last
      /\ \A f \in b.page : f > b.last
  BY BegunFacts
<1> HIDE DEF b
<1>2. Files \in SUBSET Nat
  BY FileNumbers
<1>3. \A p \in b.page : p \in l.page /\ p > b.last
  BY <1>1
<1>4. b.last \in Nat /\ after < b.last /\ \A f \in b.todo : f > after
  BY <1>1, <1>2 DEF RestOf
<1>5. ASSUME NEW f \in S, f > after
      PROVE  IF f <= b.last THEN f \in b.todo
             ELSE f \in b.page \/ \A p \in b.page : p < f
  <2>1. f \in l.page \/ \A p \in l.page : p < f
    BY <1>5 DEF RestOf
  <2>2. f \in Nat /\ b.last \in l.page
    BY <1>1
  <2>3. f \in l.page => f \in b.todo \/ f \in b.page
    BY <1>1
  <2> QED
    BY <1>1, <1>3, <1>4, <2>1, <2>2, <2>3
<1>6. \A f \in S : f > b.last => f > after /\ ~(f <= b.last)
  BY <1>4
<1>7. \A f \in S : f > after \/ f <= after
  OBVIOUS
<1>8. /\ RestOf(S, b.last, b.page) /\ b.last \in Nat /\ after <= b.last
      /\ \A f \in b.todo : f > after
      /\ \A f \in S : f <= b.last => f \in b.todo \/ f <= after
  BY <1>3, <1>4, <1>5, <1>6, <1>7 DEF RestOf
<1> QED
  BY <1>8 DEF b

-----------------------------------------------------------------------------
(* What a step of a handler does for its own job.                          *)

Does(w) ==
  LET x == workers[w]
      y == workers'[w]
  IN /\ StagesTyped' /\ Ids' = Ids /\ y.job = x.job /\ Linked(x)
     /\ \/ Acts(w, {}, {}) /\ (y.pc \in BusyPoints => y.saved = x.saved)
        \/ /\ Acts(w, {}, {x.job}) /\ UNCHANGED store
           /\ y.pc \in BusyPoints /\ jobs'[x.job].checkpoint = y.saved
     /\ Work(store', y.pc, y.local, y.saved, jobs[x.job].sub, x.job \in early)

LEMMA Doing ==
  ASSUME NEW w \in Workers, DInv(w), OnlyStages, workers[w].pc \in StagePoints
  PROVE  LET x == workers[w]
             sub == jobs[x.job].sub
             e == x.job \in early
         IN /\ AInv /\ Linked(x) /\ x.job \in Ids /\ x.saved \in Nat /\ x.local \in Locals
            /\ sub = JobOf(w).sub /\ Tables(store)
            /\ Work(store, x.pc, x.local, x.saved, sub, e) /\ BehindIn(store, sub, e, x.saved)
            /\ ScopeIn(store, sub, e) \subseteq Files /\ ScopeIn(store, sub, e) \subseteq Scope(JobOf(w))
            /\ Scope(JobOf(w)) \in SUBSET Nat
<1> DEFINE x == workers[w]
           sub == jobs[x.job].sub
           e == x.job \in early
<1>1. /\ AInv /\ Tables(store) /\ Linked(x) /\ x.job \in Ids /\ x.saved \in Nat /\ x.local \in Locals
      /\ sub = JobOf(w).sub
  BY StageFacts, BoundsAssumption DEF DInv, AInv, Checkpoints, JobOf, Job
<1>2. Work(store, x.pc, x.local, x.saved, sub, e)
  BY DEF DInv, WorkerInv
<1>3. BehindIn(store, sub, e, x.saved)
  BY <1>2 DEF Work, BusyPoints
<1>4. ScopeIn(store, sub, e) \subseteq Files
  BY <1>1, BehindNothing
<1>5. ScopeIn(store, sub, e) \subseteq Scope(JobOf(w))
  BY <1>1 DEF ScopeIn, Scope, Candidates
<1>6. Scope(JobOf(w)) \in SUBSET Nat
  BY <1>1, CandidateFiles, FileNumbers DEF Scope
<1> QED
  BY <1>1, <1>2, <1>3, <1>4, <1>5, <1>6

LEMMA DoneSteps ==
  ASSUME NEW w \in Workers, DInv(w), OnlyStages, workers[w].pc \in StagePoints
  PROVE  LET x == workers[w]
             sub == jobs[x.job].sub
             e == x.job \in early
         IN /\ Stops(w) /\ UNCHANGED store => Does(w)
            /\ \A to, l :
                 Moves(w, to, l) /\ Work(store', to, l, x.saved, sub, e) => Does(w)
            /\ \A to, l :
                 Goes(w, to, l) /\ UNCHANGED store /\ Work(store, to, l, x.saved, sub, e) => Does(w)
            /\ \A to \in StagePoints : \A l, c :
                 Saves(w, c, to, l) /\ UNCHANGED store /\ Work(store, to, l, c, sub, e) => Does(w)
<1> DEFINE x == workers[w]
           y == workers'[w]
           sub == jobs[x.job].sub
           e == x.job \in early
<1>1. Linked(x) /\ BehindIn(store, sub, e, x.saved)
  BY Doing
<1>2. ASSUME Stops(w), UNCHANGED store PROVE Does(w)
  <2>1. y.pc \in {"fail", "ackPause", "ackCancel"} /\ (y.pc # "fail" => y.saved = x.saved)
    BY <1>2 DEF Stops
  <2>2. y.pc \in BusyPoints => y.pc = "ackPause"
    BY <2>1 DEF BusyPoints, StagePoints, IdentityPoints, MetadataPoints
  <2>3. Work(store, y.pc, y.local, y.saved, sub, e)
    BY <1>1, <2>1, <2>2, WorkOfStages
  <2> QED
    BY <1>1, <1>2, <2>1, <2>2, <2>3 DEF Stops, Does
<1>3. ASSUME NEW to, NEW l, Moves(w, to, l), Work(store', to, l, x.saved, sub, e) PROVE Does(w)
  BY <1>1, <1>3 DEF Moves, Does
<1>4. ASSUME NEW to, NEW l, Goes(w, to, l), UNCHANGED store, Work(store, to, l, x.saved, sub, e)
      PROVE  Does(w)
  BY <1>2, <1>3, <1>4 DEF Goes
<1>5. ASSUME NEW to \in StagePoints, NEW l, NEW c, Saves(w, c, to, l), UNCHANGED store,
             Work(store, to, l, c, sub, e)
      PROVE  Does(w)
  BY <1>1, <1>5 DEF Saves, Does, BusyPoints
<1> QED
  BY <1>2, <1>3, <1>4, <1>5

-----------------------------------------------------------------------------
(* hashFiles.                                                              *)

\* Where the worker is, what it has and what is behind it.
LEMMA Hashing ==
  ASSUME NEW w \in Workers, DInv(w), OnlyStages, workers[w].pc \in HashPoints
  PROVE  LET x == workers[w]
             sub == jobs[x.job].sub
             scope == ScopeIn(store, sub, x.job \in early)
         IN /\ x.pc \in StagePoints /\ sub.kind = "hash"
            /\ HashAt(store, x.pc, x.local, x.saved, scope)
            /\ \A f \in scope : f <= x.saved => HashedIn(store, f)
            /\ x.saved \in Nat /\ scope \in SUBSET Nat /\ scope \subseteq Files
<1> DEFINE x == workers[w]
           sub == jobs[x.job].sub
           e == x.job \in early
           scope == ScopeIn(store, sub, e)
<1>1. x.pc \in StagePoints /\ x.pc \in PointsOf["hash"] \ GroupPoints
  BY DEF HashPoints, GroupPoints, PointsOf, StagePoints, IdentityPoints
<1>2. /\ AInv /\ x.saved \in Nat /\ sub = JobOf(w).sub /\ scope \subseteq Files
      /\ Work(store, x.pc, x.local, x.saved, sub, e) /\ BehindIn(store, sub, e, x.saved)
  BY <1>1, Doing
<1>3. sub.kind = "hash"
  BY <1>1, <1>2, KindAt
<1>4. HashAt(store, x.pc, x.local, x.saved, scope)
  BY <1>2, WorkOfStages
<1>5. \A f \in scope : f <= x.saved => HashedIn(store, f)
  BY <1>2, <1>3 DEF BehindIn
<1> QED
  BY <1>1, <1>2, <1>3, <1>4, <1>5, FileNumbers

LEMMA HashBegins ==
  ASSUME NEW w \in Workers, DInv(w), OnlyStages, BeginHash(w) \/ HashPage(w) \/ HashChunk(w)
  PROVE  Does(w)
<1> DEFINE x == workers[w]
           sub == jobs[x.job].sub
           e == x.job \in early
           scope == ScopeIn(store, sub, e)
<1>1. x.pc \in HashPoints /\ AInv
  BY DEF BeginHash, Begin, HashPage, HashChunk, At, HashPoints, DInv
<1>2. /\ x.pc \in StagePoints /\ sub.kind = "hash"
      /\ HashAt(store, x.pc, x.local, x.saved, scope)
      /\ \A f \in scope : f <= x.saved => HashedIn(store, f)
      /\ x.saved \in Nat /\ scope \in SUBSET Nat /\ scope \subseteq Files
  BY <1>1, Hashing
<1>3. /\ BehindIn(store, sub, e, x.saved) /\ scope \subseteq Scope(JobOf(w))
      /\ Scope(JobOf(w)) \in SUBSET Nat
  BY <1>2, Doing
<1>4. \A to, l : Goes(w, to, l) /\ UNCHANGED store /\ Work(store, to, l, x.saved, sub, e) => Does(w)
  BY <1>2, DoneSteps
<1> HIDE DEF scope
<1>5. \A l : \A to \in HashPoints : HashAt(store, to, l, x.saved, scope) => Work(store, to, l, x.saved, sub, e)
  BY <1>3, WorkOfStages DEF scope
<1>6. CASE BeginHash(w)
  <2>1. PICK to \in {"hashPage", "clear", "groupPage"} :
          /\ UNCHANGED store /\ Goes(w, to, Nothing)
          /\ to = "hashPage" => x.saved <= N
          /\ to = "clear" => x.saved = N + 1
          /\ to = "groupPage" => x.saved >= N + 2
    BY <1>1, <1>6, BeginHashSteps
  <2>2. CASE to = "hashPage"
    <3>1. HashAt(store, to, Nothing, x.saved, scope) /\ to \in HashPoints
      BY <2>1, <2>2 DEF HashAt, HashPoints
    <3> QED
      BY <1>4, <1>5, <2>1, <3>1
  <2>3. CASE to \in {"clear", "groupPage"}
    <3>1. GroupAt(store, to, Nothing, x.saved, sub) /\ to \in GroupPoints
      BY <1>2, <2>1, <2>3 DEF GroupAt, GroupPoints, FirstOf
    <3>2. Work(store, to, Nothing, x.saved, sub, e)
      BY <1>3, <3>1, WorkOfStages
    <3> QED
      BY <1>4, <2>1, <3>2
  <2> QED
    BY <2>1, <2>2, <2>3
<1>7. CASE HashPage(w)
  <2> DEFINE tasks == First(PageSize, Tasks(Scope(JobOf(w)), x.saved))
             next == [Nothing EXCEPT !.page = tasks]
             to == IF tasks = {} THEN "hashed" ELSE "hashChunk"
  <2>1. /\ x.pc = "hashPage" /\ UNCHANGED store /\ Goes(w, to, next) /\ next.page = tasks
        /\ Paged(Scope(JobOf(w)), x.saved, tasks)
    BY <1>1, <1>7, HashPageSteps
  <2> HIDE DEF next, tasks
  <2>2. RestOf(scope, x.saved, tasks) /\ (tasks = {} => \A f \in scope : f <= x.saved)
    BY <1>2, <1>3, <2>1, PageRest DEF scope
  <2>3. x.saved <= N
    BY <1>2, <2>1 DEF HashAt
  <2>4. HashAt(store, to, next, x.saved, scope) /\ to \in HashPoints
    BY <1>2, <2>1, <2>2, <2>3 DEF HashAt, HashPoints
  <2> QED
    BY <1>4, <1>5, <2>1, <2>4
<1>8. CASE HashChunk(w)
  <2> DEFINE l == x.local
             b == Begun(l)
  <2>1. /\ x.pc = "hashChunk" /\ UNCHANGED store /\ Goes(w, "hashFiles", b)
        /\ l \in Locals /\ l.page \subseteq Files /\ l.page # {}
    BY <1>1, <1>8, HashChunkSteps
  <2>2. x.saved <= N /\ RestOf(scope, x.saved, l.page)
    BY <1>2, <2>1 DEF HashAt
  <2>3. /\ RestOf(scope, b.last, b.page)
        /\ \A f \in scope : f <= b.last => f \in b.todo \/ f <= x.saved
    BY <1>2, <2>1, <2>2, ChunkRest
  <2> HIDE DEF b
  <2>4. HashAt(store, "hashFiles", b, x.saved, scope) /\ "hashFiles" \in HashPoints
    BY <1>2, <2>2, <2>3 DEF HashAt, HashPoints
  <2> QED
    BY <1>4, <1>5, <2>1, <2>4
<1> QED
  BY <1>6, <1>7, <1>8

\* A review that is asked for is there, and stays.
LEMMA Raises ==
  ASSUME Tables(store), NEW key \in ReviewKeys
  PROVE  LET reviews == createNeedsReview(store.reviews, key)
         IN /\ reviews[key] # "none"
            /\ \A k \in ReviewKeys : store.reviews[k] # "none" => reviews[k] # "none"
BY DEF Tables, createNeedsReview, ReviewStatuses

\* A file that has been hashed or given up on: nothing else is written.
SameAnalysis == /\ store'.groups = store.groups /\ store'.results = store.results
                /\ store'.files = store.files /\ store'.semantic = store.semantic

LEMMA HashWritten ==
  ASSUME Tables(store), NEW f \in Files, saveHash(f, Content[f]) \/ recordHashFailure(f)
  PROVE  Grown(store, store') /\ HashedIn(store', f) /\ SameAnalysis
<1>1. Content[f] # 0 /\ store.hashes \in [Files -> Digests \cup {0}] /\ IsStore(store)
  BY AnalysisAssumption DEF Tables
<1>2. CASE saveHash(f, Content[f])
  <2>1. /\ store'.hashes = [store.hashes EXCEPT ![f] = Content[f]]
        /\ store'.unhashed = store.unhashed /\ store'.reviews = store.reviews /\ SameAnalysis
    BY <1>1, <1>2 DEF saveHash, IsStore, SameAnalysis
  <2> QED
    BY <1>1, <2>1 DEF Grown, HashedIn
<1>3. CASE recordHashFailure(f)
  <2>1. /\ store'.hashes = store.hashes /\ store'.unhashed = store.unhashed \cup {f}
        /\ store'.reviews = createNeedsReview(store.reviews, <<"stale", f>>) /\ SameAnalysis
    BY <1>1, <1>3 DEF recordHashFailure, IsStore, SameAnalysis
  <2>2. <<"stale", f>> \in ReviewKeys
    BY DEF ReviewKeys
  <2> QED
    BY <2>1, <2>2, Raises DEF Grown, HashedIn, Asked
<1> QED
  BY <1>2, <1>3

\* Of a file only the hash, or that it cannot be had, is written; or nothing.
LEMMA FileWrites ==
  ASSUME NEW w \in Workers, AInv, OnlyStages, NEW f \in Files, StartFile(w, f) \/ FinishFile(w, f)
  PROVE  /\ workers[w].pc = "hashFiles" /\ UNCHANGED jobs /\ SameAnalysis /\ Grown(store, store')
         /\ LET l == workers[w].local
                next == workers'[w].local
            IN /\ Moves(w, "hashFiles", next) /\ next.page = l.page /\ next.last = l.last
               /\ l.todo \cup l.reading \subseteq next.todo \cup next.reading \cup {f}
               /\ f \in next.reading \/ HashedIn(store', f)
<1> DEFINE l == workers[w].local
           next == workers'[w].local
<1>1. Tables(store) /\ (UNCHANGED store => SameAnalysis /\ Grown(store, store'))
  BY DEF AInv, SameAnalysis, Grown
<1>2. CASE StartFile(w, f)
  BY <1>1, <1>2, StartFileSteps, HashWritten DEF HashedIn
<1>3. CASE FinishFile(w, f)
  BY <1>1, <1>3, FinishFileSteps, HashWritten
<1> QED
  BY <1>2, <1>3

LEMMA SameFiles ==
  ASSUME SameAnalysis, Grown(store, store')
  PROVE  /\ SameMembers(store, store', "candidate") /\ SameMembers(store, store', "exact")
         /\ \A f \in Files : MediaKept(store, store', f)
         /\ \A sub, e : ScopeIn(store', sub, e) = ScopeIn(store, sub, e)
<1>1. SameMembers(store, store', "candidate") /\ SameMembers(store, store', "exact")
  BY DEF SameAnalysis, SameMembers
<1>2. \A f \in Files : MediaKept(store, store', f)
  BY DEF SameAnalysis, MediaKept
<1> QED
  BY <1>1, <1>2, ScopeSame

LEMMA HashesFiles ==
  ASSUME NEW w \in Workers, DInv(w), OnlyStages,
         NEW f \in Files, StartFile(w, f) \/ FinishFile(w, f)
  PROVE  Does(w)
<1> DEFINE x == workers[w]
           l == x.local
           next == workers'[w].local
           sub == jobs[x.job].sub
           e == x.job \in early
           scope == ScopeIn(store, sub, e)
<1>1. AInv
  BY DEF DInv
<1>2. /\ x.pc = "hashFiles" /\ SameAnalysis /\ Grown(store, store')
      /\ Moves(w, "hashFiles", next) /\ next.page = l.page /\ next.last = l.last
      /\ l.todo \cup l.reading \subseteq next.todo \cup next.reading \cup {f}
      /\ f \in next.reading \/ HashedIn(store', f)
  BY <1>1, FileWrites
<1>3. x.pc \in HashPoints
  BY <1>2 DEF HashPoints
<1>4. /\ x.pc \in StagePoints /\ sub.kind = "hash"
      /\ HashAt(store, x.pc, l, x.saved, scope)
      /\ \A g \in scope : g <= x.saved => HashedIn(store, g)
      /\ x.saved \in Nat /\ scope \subseteq Files
  BY <1>3, Hashing
<1>5. ScopeIn(store', sub, e) = scope
  BY <1>2, SameFiles
<1> HIDE DEF scope
<1>6. \A g \in Files : HashedIn(store, g) => HashedIn(store', g)
  BY <1>2, FilesKept
<1>7. HashAt(store', "hashFiles", next, x.saved, scope)
  BY <1>2, <1>4, <1>6 DEF HashAt
<1>8. ~(x.saved >= N + 2)
  BY <1>2, <1>4, FileNumbers DEF HashAt
<1>9. BehindIn(store', sub, e, x.saved)
  BY <1>4, <1>5, <1>6, <1>8 DEF BehindIn
<1>10. Work(store', "hashFiles", next, x.saved, sub, e)
  BY <1>5, <1>7, <1>9, WorkOfStages DEF HashPoints
<1> QED
  BY <1>2, <1>4, <1>10, DoneSteps

LEMMA HashSaves ==
  ASSUME NEW w \in Workers, DInv(w), OnlyStages, SaveHashed(w) \/ ReportHashed(w) \/ HashingDone(w)
  PROVE  Does(w)
<1> DEFINE x == workers[w]
           l == x.local
           sub == jobs[x.job].sub
           e == x.job \in early
           scope == ScopeIn(store, sub, e)
<1>1. x.pc \in HashPoints /\ AInv
  BY DEF SaveHashed, Save, ReportHashed, Report, HashingDone, At, HashPoints, DInv
<1>2. /\ x.pc \in StagePoints /\ sub.kind = "hash"
      /\ HashAt(store, x.pc, l, x.saved, scope)
      /\ \A f \in scope : f <= x.saved => HashedIn(store, f)
      /\ x.saved \in Nat /\ scope \subseteq Files
  BY <1>1, Hashing
<1>3. BehindIn(store, sub, e, x.saved)
  BY <1>2, Doing
<1>4. N \in Nat /\ \A f \in Files : f \in Nat /\ f <= N
  BY FileNumbers
<1>5. \A c : (\A f \in scope : f <= c => HashedIn(store, f)) /\ ~(c >= N + 2) =>
        BehindIn(store, sub, e, c)
  BY <1>2 DEF BehindIn
<1>6. \A to \in HashPoints : \A c : BehindIn(store, sub, e, c) /\ HashAt(store, to, l, c, scope) =>
                               Work(store, to, l, c, sub, e)
  BY WorkOfStages
<1> HIDE DEF scope
<1>7. CASE SaveHashed(w)
  <2>1. /\ x.pc = "hashFiles" /\ UNCHANGED store /\ (Stops(w) \/ Saves(w, l.last, "hashReport", l))
        /\ l.todo = {} /\ l.reading = {} /\ l.last \in Files
    BY <1>1, <1>7, SaveHashedSteps
  <2>2. BehindIn(store, sub, e, l.last)
    BY <1>2, <1>4, <1>5, <2>1 DEF HashAt
  <2>3. HashAt(store, "hashReport", l, l.last, scope)
    BY <1>2, <1>4, <2>1 DEF HashAt
  <2>4. Work(store, "hashReport", l, l.last, sub, e)
    BY <1>6, <2>2, <2>3 DEF HashPoints
  <2> QED
    BY <1>2, <2>1, <2>4, DoneSteps DEF StagePoints, IdentityPoints
<1>8. CASE ReportHashed(w)
  <2> DEFINE to == IF l.page = {} THEN "hashPage" ELSE "hashChunk"
  <2>1. x.pc = "hashReport" /\ UNCHANGED store /\ Goes(w, to, l)
    BY <1>1, <1>8, ReportHashedSteps
  <2>2. HashAt(store, to, l, x.saved, scope) /\ to \in HashPoints
    BY <1>2, <2>1 DEF HashAt, HashPoints
  <2> QED
    BY <1>2, <1>3, <1>6, <2>1, <2>2, DoneSteps
<1>9. CASE HashingDone(w)
  <2>1. x.pc = "hashed" /\ UNCHANGED store /\ (Stops(w) \/ Saves(w, N + 1, "clear", Nothing))
    BY <1>1, <1>9, HashingDoneSteps
  <2>2. BehindIn(store, sub, e, N + 1)
    BY <1>2, <1>4, <1>5, <2>1 DEF HashAt
  <2>3. GroupAt(store, "clear", Nothing, N + 1, sub)
    BY <1>2 DEF GroupAt
  <2>4. Work(store, "clear", Nothing, N + 1, sub, e)
    BY <2>2, <2>3, WorkOfStages DEF GroupPoints
  <2> QED
    BY <1>2, <2>1, <2>4, DoneSteps DEF StagePoints, IdentityPoints
<1> QED
  BY <1>7, <1>8, <1>9

-----------------------------------------------------------------------------
(* The pages of groups.                                                    *)

LEMMA SameCounts ==
  /\ \A kind, k : MembersNow(kind, k) = MembersIn(store, kind, k)
  /\ \A kind : Duplicated(kind) = ManyIn(store, kind)
BY DEF MembersNow, MembersIn, Duplicated, ManyIn

\* What is there of the groups, up to a checkpoint.
LEMMA BehindGroups ==
  ASSUME NEW s, Tables(s), NEW sub, NEW e, sub.kind \in {"detect", "hash"}
  PROVE  LET kind == GroupKind(sub.kind)
             first == FirstOf(sub.kind)
             hashed == sub.kind = "hash" => \A f \in ScopeIn(s, sub, e) : HashedIn(s, f)
         IN /\ \A c \in Nat : BehindIn(s, sub, e, c) /\ c >= first =>
                                GroupsIn(s, kind, c - first) /\ hashed
            /\ \A a \in Nat : GroupsIn(s, kind, a) /\ hashed => BehindIn(s, sub, e, first + a)
            /\ sub.kind = "hash" => (BehindIn(s, sub, e, N + 1) <=> hashed)
            /\ sub.kind = "detect" => hashed
<1>0. ScopeIn(s, sub, e) \subseteq Files
  BY BehindNothing
<1>1. N \in Nat /\ \A f \in ScopeIn(s, sub, e) : f \in Nat /\ f <= N
  BY <1>0, FileNumbers
<1>2. CASE sub.kind = "detect"
  BY <1>2 DEF BehindIn, GroupKind, FirstOf
<1>3. CASE sub.kind = "hash"
  <2>1. GroupKind(sub.kind) = "exact" /\ FirstOf(sub.kind) = N + 2
    BY <1>3 DEF GroupKind, FirstOf
  <2>2. \A c \in Nat : c >= N + 1 => \A f \in ScopeIn(s, sub, e) : f <= c
    BY <1>1
  <2>3. \A c : BehindIn(s, sub, e, c) <=>
                 /\ \A f \in ScopeIn(s, sub, e) : f <= c => HashedIn(s, f)
                 /\ c >= N + 2 => GroupsIn(s, "exact", c - (N + 2))
    BY <1>3 DEF BehindIn
  <2>4. \A a \in Nat : (N + 2) + a \in Nat /\ (N + 2) + a >= N + 1 /\ ((N + 2) + a) - (N + 2) = a
    BY <1>1
  <2>5. N + 1 \in Nat /\ ~(N + 1 >= N + 2) /\ (\A c \in Nat : c >= N + 2 => c >= N + 1)
    BY <1>1
  <2> QED
    BY <1>3, <2>1, <2>2, <2>3, <2>4, <2>5
<1> QED
  BY <1>2, <1>3

LEMMA Grouping ==
  ASSUME NEW w \in Workers, DInv(w), OnlyStages, workers[w].pc \in GroupPoints \cup {"detect"}
  PROVE  LET x == workers[w]
             sub == jobs[x.job].sub
             e == x.job \in early
             kind == GroupKind(sub.kind)
             first == FirstOf(sub.kind)
         IN /\ x.pc \in StagePoints /\ sub.kind \in {"detect", "hash"}
            /\ sub = JobOf(w).sub /\ (x.pc = "detect" => sub.kind = "detect")
            /\ x.saved \in Nat /\ first \in Nat \ {0} /\ kind \in GroupKinds /\ Tables(store)
            /\ Keys[kind] \in SUBSET (Nat \ {0}) /\ ManyIn(store, kind) \subseteq Keys[kind]
            /\ GroupAt(store, x.pc, x.local, x.saved, sub) /\ BehindIn(store, sub, e, x.saved)
            /\ x.saved >= first => GroupsIn(store, kind, x.saved - first)
            /\ x.pc # "detect" /\ sub.kind = "hash" =>
                 \A f \in ScopeIn(store, sub, e) : HashedIn(store, f)
<1> DEFINE x == workers[w]
           sub == jobs[x.job].sub
           e == x.job \in early
           kind == GroupKind(sub.kind)
           first == FirstOf(sub.kind)
<1>1. x.pc \in StagePoints
  BY DEF StagePoints, IdentityPoints, GroupPoints
<1>2. /\ AInv /\ Tables(store) /\ x.saved \in Nat /\ sub = JobOf(w).sub
      /\ Work(store, x.pc, x.local, x.saved, sub, e) /\ BehindIn(store, sub, e, x.saved)
  BY <1>1, Doing
<1>3. sub.kind \in {"detect", "hash"} /\ (x.pc = "detect" => sub.kind = "detect")
  BY <1>1, <1>2, KindAt
<1>4. GroupAt(store, x.pc, x.local, x.saved, sub)
  BY <1>2, WorkOfStages
<1>5. /\ first \in Nat \ {0} /\ kind \in GroupKinds /\ Keys[kind] \in SUBSET (Nat \ {0})
  BY KeyNumbers
<1>6. ManyIn(store, kind) \subseteq Keys[kind]
  BY DEF ManyIn
<1>7. x.saved >= first => GroupsIn(store, kind, x.saved - first)
  <2> HIDE DEF x, sub, e
  <2>1. \A c \in Nat : BehindIn(store, sub, e, c) /\ c >= first => GroupsIn(store, kind, c - first)
    BY <1>2, <1>3, BehindGroups
  <2> QED
    BY <1>2, <2>1
<1>8. ASSUME x.pc # "detect", sub.kind = "hash"
      PROVE  \A f \in ScopeIn(store, sub, e) : HashedIn(store, f)
  <2>1. CASE x.pc \in {"clear", "cleared"}
    <3>1. x.saved = N + 1
      BY <1>4, <1>8, <2>1 DEF GroupAt
    <3> QED
      BY <1>2, <1>3, <1>8, <3>1, BehindGroups
  <2>2. CASE x.pc \in {"groupPage", "group", "groupReport"}
    <3>1. x.saved >= first
      BY <1>4, <2>2 DEF GroupAt
    <3> QED
      BY <1>2, <1>3, <1>8, <3>1, BehindGroups
  <2> QED
    BY <1>8, <2>1, <2>2 DEF GroupPoints
<1> QED
  BY <1>1, <1>2, <1>3, <1>4, <1>5, <1>6, <1>7, <1>8

LEMMA GroupsBegin ==
  ASSUME NEW w \in Workers, DInv(w), OnlyStages, BeginDetect(w) \/ ReportGroups(w) \/ SaveCleared(w)
  PROVE  Does(w)
<1> DEFINE x == workers[w]
           sub == jobs[x.job].sub
           e == x.job \in early
           kind == GroupKind(sub.kind)
           first == FirstOf(sub.kind)
<1>1. x.pc \in GroupPoints \cup {"detect"} /\ AInv
  BY DEF BeginDetect, ReportGroups, Report, SaveCleared, Save, At, GroupPoints, DInv
<1>2. /\ x.pc \in StagePoints /\ sub.kind \in {"detect", "hash"}
      /\ sub = JobOf(w).sub /\ (x.pc = "detect" => sub.kind = "detect")
      /\ x.saved \in Nat /\ first \in Nat \ {0} /\ kind \in GroupKinds /\ Tables(store)
      /\ Keys[kind] \in SUBSET (Nat \ {0}) /\ ManyIn(store, kind) \subseteq Keys[kind]
      /\ GroupAt(store, x.pc, x.local, x.saved, sub) /\ BehindIn(store, sub, e, x.saved)
      /\ x.pc # "detect" /\ sub.kind = "hash" =>
           \A f \in ScopeIn(store, sub, e) : HashedIn(store, f)
  BY <1>1, Grouping
<1>3. \A to \in GroupPoints : \A l, c :
        BehindIn(store, sub, e, c) /\ GroupAt(store, to, l, c, sub) => Work(store, to, l, c, sub, e)
  BY WorkOfStages
<1>4. {"clear", "groupPage"} \subseteq GroupPoints \cap StagePoints
  BY DEF GroupPoints, StagePoints, IdentityPoints
<1>5. \A l, c : c >= first => GroupAt(store, "groupPage", l, c, sub)
  BY DEF GroupAt
<1>6. CASE BeginDetect(w)
  <2> DEFINE to == IF x.saved = 0 THEN "clear" ELSE "groupPage"
  <2>1. x.pc = "detect" /\ UNCHANGED store /\ Moves(w, to, Nothing)
    BY <1>1, <1>6, BeginDetectSteps
  <2>2. sub.kind = "detect" /\ first = 1
    BY <1>2, <2>1 DEF FirstOf
  <2>3. GroupAt(store, to, Nothing, x.saved, sub) /\ to \in GroupPoints
    BY <1>2, <1>4, <1>5, <2>2 DEF GroupAt
  <2> QED
    BY <1>2, <1>3, <2>1, <2>3, DoneSteps
<1>7. CASE ReportGroups(w)
  <2>1. x.pc = "groupReport" /\ UNCHANGED store /\ Goes(w, "groupPage", Nothing)
    BY <1>1, <1>7, ReportGroupsSteps
  <2>2. x.saved >= first
    BY <1>2, <2>1 DEF GroupAt
  <2> QED
    BY <1>2, <1>3, <1>4, <1>5, <2>1, <2>2, DoneSteps
<1>8. CASE SaveCleared(w)
  <2>1. /\ x.pc = "cleared" /\ UNCHANGED store
        /\ Stops(w) \/ Saves(w, first, "groupPage", Nothing)
    BY <1>1, <1>2, <1>8, SaveClearedSteps
  <2>2. \A k \in Keys[kind] : store.groups[kind][k].members = {}
    BY <1>2, <2>1 DEF GroupAt
  <2>3. GroupsIn(store, kind, 0)
    <3>1. \A k \in ManyIn(store, kind) : ~(k <= 0)
      BY <1>2
    <3> QED
      BY <2>2, <3>1 DEF GroupsIn, SoundIn
  <2>4. BehindIn(store, sub, e, first + 0)
    <3>1. sub.kind = "hash" => \A f \in ScopeIn(store, sub, e) : HashedIn(store, f)
      BY <1>2, <2>1
    <3> HIDE DEF x, sub, e
    <3>2. \A a \in Nat : GroupsIn(store, kind, a) => BehindIn(store, sub, e, first + a)
      BY <1>2, <3>1, BehindGroups
    <3> QED
      BY <2>3, <3>2
  <2>5. first + 0 = first /\ first >= first
    BY <1>2
  <2>6. Work(store, "groupPage", Nothing, first, sub, e)
    BY <1>3, <1>4, <1>5, <2>4, <2>5
  <2> QED
    BY <1>2, <1>4, <2>1, <2>6, DoneSteps
<1> QED
  BY <1>6, <1>7, <1>8

\* A page of groups begins, and the last one is behind the checkpoint.
LEMMA GroupsPaged ==
  ASSUME NEW w \in Workers, DInv(w), OnlyStages, GroupPage(w)
  PROVE  Does(w)
<1> DEFINE x == workers[w]
           sub == jobs[x.job].sub
           e == x.job \in early
           kind == GroupKind(sub.kind)
           first == FirstOf(sub.kind)
           a == x.saved - first
           many == ManyIn(store, kind)
<1>1. x.pc = "groupPage" /\ x.pc \in GroupPoints \cup {"detect"} /\ AInv
  BY DEF GroupPage, At, GroupPoints, DInv
<1>2. /\ x.pc \in StagePoints /\ sub.kind \in {"detect", "hash"} /\ sub = JobOf(w).sub
      /\ x.saved \in Nat /\ first \in Nat \ {0}
      /\ Keys[kind] \in SUBSET (Nat \ {0}) /\ many \subseteq Keys[kind]
      /\ GroupAt(store, x.pc, x.local, x.saved, sub) /\ BehindIn(store, sub, e, x.saved)
      /\ x.saved >= first => GroupsIn(store, kind, x.saved - first)
      /\ sub.kind = "hash" => \A f \in ScopeIn(store, sub, e) : HashedIn(store, f)
  BY <1>1, Grouping
<1>3. PICK keys \in SUBSET Keys[kind], next \in Locals :
        /\ Paged(Duplicated(kind), a, keys)
        /\ keys = {} => Goes(w, "finish", Nothing)
        /\ keys # {} => /\ Goes(w, "group", next)
                        /\ next.page = keys /\ next.cursor = 0
                        /\ next.last \in keys /\ \A k \in keys : k <= next.last
  BY <1>1, <1>2, GroupPageSteps
<1>4. UNCHANGED store
  BY DEF GroupPage
<1>5. Paged(many, a, keys)
  BY <1>3, SameCounts
<1>6. x.saved >= first /\ GroupsIn(store, kind, a) /\ a \in Nat
  BY <1>1, <1>2 DEF GroupAt
<1> HIDE DEF a, many
<1>7. \A k \in many : k <= a => GroupIn(store, kind, k)
  BY <1>6 DEF GroupsIn, many
<1>8. \A k \in many : k \in Nat
  BY <1>2
<1>9. CASE keys = {}
  <2>1. \A k \in many : GroupIn(store, kind, k)
    BY <1>5, <1>6, <1>7, <1>8, <1>9 DEF Paged
  <2>2. ThereIn(store, kind)
    <3> HIDE DEF x, sub, e, kind, first
    <3>1. ASSUME NEW k \in Keys[kind]
          PROVE  store.groups[kind][k].members = IF k \in many THEN MembersIn(store, kind, k) ELSE {}
      <4>1. CASE k \in many
        BY <2>1, <4>1 DEF GroupIn
      <4>2. CASE k \notin many
        BY <1>6, <4>2 DEF GroupsIn, SoundIn, many
      <4> QED
        BY <4>1, <4>2
    <3> QED
      BY <3>1 DEF ThereIn, many
  <2>3. kind = "exact" => \A k \in many : Asked(store, "keeper", k)
    BY <2>1 DEF GroupIn
  <2>4. DoneIn(store, sub, e)
    <3>1. CASE sub.kind = "detect"
      BY <2>2, <3>1 DEF DoneIn, GroupKind
    <3>2. CASE sub.kind = "hash"
      BY <1>2, <2>2, <2>3, <3>2 DEF DoneIn, GroupKind, many
    <3> QED
      BY <1>2, <3>1, <3>2
  <2>5. Work(store, "finish", Nothing, x.saved, sub, e)
    BY <1>2, <2>4, WorkOfStages
  <2> QED
    BY <1>2, <1>3, <1>4, <1>9, <2>5, DoneSteps
<1>10. CASE keys # {}
  <2>1. keys \subseteq many /\ \A p \in keys, q \in many : q > a /\ q <= p => q \in keys
    BY <1>5 DEF Paged
  <2>2. \A k \in many : k <= next.last => k \in next.page \/ GroupIn(store, kind, k)
    BY <1>3, <1>6, <1>7, <1>8, <1>10, <2>1
  <2>3. GroupAt(store, "group", next, x.saved, sub)
    <3> HIDE DEF first
    <3>1. next.page \subseteq many /\ next.cursor = 0
      BY <1>3, <1>10, <2>1
    <3> QED
      BY <1>6, <2>2, <3>1 DEF GroupAt, many, first
  <2>4. Work(store, "group", next, x.saved, sub, e)
    BY <1>2, <2>3, WorkOfStages DEF GroupPoints
  <2> QED
    BY <1>2, <1>3, <1>4, <1>10, <2>4, DoneSteps
<1> QED
  BY <1>9, <1>10

LEMMA GroupsSave ==
  ASSUME NEW w \in Workers, DInv(w), OnlyStages, SaveGroups(w)
  PROVE  Does(w)
<1> DEFINE x == workers[w]
           l == x.local
           sub == jobs[x.job].sub
           e == x.job \in early
           kind == GroupKind(sub.kind)
           first == FirstOf(sub.kind)
<1>1. x.pc = "group" /\ x.pc \in GroupPoints \cup {"detect"} /\ AInv
  BY DEF SaveGroups, Save, At, GroupPoints, DInv
<1>2. /\ x.pc \in StagePoints /\ sub.kind \in {"detect", "hash"} /\ sub = JobOf(w).sub
      /\ x.saved \in Nat /\ first \in Nat \ {0} /\ Tables(store)
      /\ Keys[kind] \in SUBSET (Nat \ {0})
      /\ GroupAt(store, x.pc, x.local, x.saved, sub)
      /\ x.saved >= first => GroupsIn(store, kind, x.saved - first)
      /\ sub.kind = "hash" => \A f \in ScopeIn(store, sub, e) : HashedIn(store, f)
  BY <1>1, Grouping
<1>3. /\ UNCHANGED store /\ l.page = {} /\ l.last \in Keys[kind]
      /\ Stops(w) \/ Saves(w, first + l.last, "groupReport", Nothing)
  BY <1>1, <1>2, <1>2, SaveGroupsSteps
<1>4. x.saved >= first /\ GroupsIn(store, kind, x.saved - first)
  BY <1>1, <1>2 DEF GroupAt
<1>5. GroupsIn(store, kind, l.last) /\ l.last \in Nat
  BY <1>1, <1>2, <1>3, <1>4 DEF GroupAt, GroupsIn
<1>6. BehindIn(store, sub, e, first + l.last)
  <2> HIDE DEF x, sub, e, l
  <2> QED
    BY <1>2, <1>5, BehindGroups
<1>7. GroupAt(store, "groupReport", Nothing, first + l.last, sub)
  BY <1>2, <1>5 DEF GroupAt
<1>8. Work(store, "groupReport", Nothing, first + l.last, sub, e)
  BY <1>6, <1>7, WorkOfStages DEF GroupPoints
<1> QED
  BY <1>2, <1>3, <1>8, DoneSteps DEF StagePoints, IdentityPoints

\* Groups are cleared, or the members of one are written: nothing else.
LEMMA GroupsWritten ==
  ASSUME Tables(store), NEW kind \in GroupKinds,
         \/ clearDuplicateGroups(kind)
         \/ \E k \in Keys[kind] : store' = upsertGroup(kind, k)
  PROVE  /\ Grown(store, store') /\ store'.hashes = store.hashes /\ store'.unhashed = store.unhashed
         /\ store'.reviews = store.reviews /\ store'.results = store.results
         /\ store'.files = store.files /\ store'.semantic = store.semantic
         /\ \A other \in GroupKinds \ {kind} : SameMembers(store, store', other)
<1>1. /\ store'.hashes = store.hashes /\ store'.unhashed = store.unhashed
      /\ store'.reviews = store.reviews /\ store'.results = store.results
      /\ store'.files = store.files /\ store'.semantic = store.semantic
  BY DEF clearDuplicateGroups, upsertGroup, Tables, IsStore
<1>2. \A other \in GroupKinds \ {kind} : store'.groups[other] = store.groups[other]
  BY DEF clearDuplicateGroups, upsertGroup, Tables, IsStore, GroupsTyped
<1> QED
  BY <1>1, <1>2 DEF Grown, SameMembers

LEMMA GroupsCleared ==
  ASSUME Tables(store), NEW kind \in GroupKinds, clearDuplicateGroups(kind)
  PROVE  \A k \in Keys[kind] : store'.groups[kind][k].members = {}
BY DEF clearDuplicateGroups, NoGroup, Tables, IsStore, GroupsTyped

\* A group gets the members that there are now, and keeps those that it had.
LEMMA GroupUpserted ==
  ASSUME Tables(store), NEW kind \in GroupKinds, NEW k \in Keys[kind],
         store' = upsertGroup(kind, k)
  PROVE  \A j \in Keys[kind] :
           store'.groups[kind][j].members =
             IF j = k THEN store.groups[kind][k].members \cup MembersIn(store, kind, k)
             ELSE store.groups[kind][j].members
<1> DEFINE old == store.groups[kind]
           new == [old[k] EXCEPT !.members = @ \cup MembersNow(kind, k)]
<1>1. old \in [Keys[kind] -> Group]
  BY DEF Tables, GroupsTyped
<1>2. new.members = old[k].members \cup MembersIn(store, kind, k)
  BY <1>1, SameCounts DEF Group
<1>3. store'.groups[kind] = [old EXCEPT ![k] = new]
  BY DEF upsertGroup, Tables, IsStore, GroupsTyped
<1> HIDE DEF new
<1> QED
  BY <1>1, <1>2, <1>3

\* What is right of the groups stays so when one of them is written that is to be there.
LEMMA GroupAdded ==
  ASSUME Tables(store), NEW kind \in GroupKinds, NEW k \in ManyIn(store, kind),
         store' = upsertGroup(kind, k), SoundIn(store, kind)
  PROVE  /\ \A j : MembersIn(store', kind, j) = MembersIn(store, kind, j)
         /\ ManyIn(store', kind) = ManyIn(store, kind)
         /\ store'.groups[kind][k].members = MembersIn(store', kind, k)
         /\ SoundIn(store', kind)
         /\ \A j \in Keys[kind] : GroupIn(store, kind, j) => GroupIn(store', kind, j)
         /\ \A a : GroupsIn(store, kind, a) => GroupsIn(store', kind, a)
<1>1. k \in Keys[kind]
  BY DEF ManyIn
<1>2. store'.hashes = store.hashes /\ store'.reviews = store.reviews
  BY <1>1, GroupsWritten
<1>3. \A j : MembersIn(store', kind, j) = MembersIn(store, kind, j)
  BY <1>2 DEF MembersIn
<1>4. ManyIn(store', kind) = ManyIn(store, kind)
  BY <1>3 DEF ManyIn
<1>5. \A j \in Keys[kind] :
        store'.groups[kind][j].members =
          IF j = k THEN store.groups[kind][k].members \cup MembersIn(store, kind, k)
          ELSE store.groups[kind][j].members
  BY <1>1, GroupUpserted
<1>6. store.groups[kind][k].members \in {{}, MembersIn(store, kind, k)}
  BY <1>1 DEF SoundIn
<1>7. store'.groups[kind][k].members = MembersIn(store, kind, k)
  BY <1>1, <1>5, <1>6
<1>8. SoundIn(store', kind)
  BY <1>3, <1>4, <1>5, <1>7 DEF SoundIn
<1>9. \A j \in Keys[kind] : GroupIn(store, kind, j) => GroupIn(store', kind, j)
  BY <1>2, <1>3, <1>5, <1>7 DEF GroupIn, Asked
<1>10. ManyIn(store, kind) \subseteq Keys[kind]
  BY DEF ManyIn
<1> QED
  BY <1>3, <1>4, <1>7, <1>8, <1>9, <1>10 DEF GroupsIn

\* The scope of a job is not what it writes.
LEMMA OwnScope ==
  ASSUME Tables(store), NEW kind, kind \in {"detect", "hash"},
         \/ clearDuplicateGroups(GroupKind(kind))
         \/ \E k \in Keys[GroupKind(kind)] : store' = upsertGroup(GroupKind(kind), k)
  PROVE  kind = "hash" => \A sub, e : /\ ScopeIn(store', sub, e) = ScopeIn(store, sub, e)
                                      /\ \A f : HashedIn(store, f) => HashedIn(store', f)
<1>1. GroupKind(kind) \in GroupKinds /\ (kind = "hash" => "candidate" \in GroupKinds \ {GroupKind(kind)})
  BY DEF GroupKind, GroupKinds
<1>2. /\ store'.hashes = store.hashes /\ store'.unhashed = store.unhashed
      /\ store'.reviews = store.reviews
      /\ kind = "hash" => SameMembers(store, store', "candidate")
  BY <1>1, GroupsWritten
<1> QED
  BY <1>2, ScopeSame DEF HashedIn, Asked

LEMMA ClearsGroups ==
  ASSUME NEW w \in Workers, DInv(w), OnlyStages, Clear(w)
  PROVE  Does(w)
<1> DEFINE x == workers[w]
           sub == jobs[x.job].sub
           e == x.job \in early
           kind == GroupKind(sub.kind)
<1>1. x.pc = "clear" /\ x.pc \in GroupPoints \cup {"detect"} /\ AInv
  BY DEF Clear, At, GroupPoints, DInv
<1>2. /\ x.pc \in StagePoints /\ sub.kind \in {"detect", "hash"} /\ sub = JobOf(w).sub
      /\ x.saved \in Nat /\ kind \in GroupKinds /\ Tables(store)
      /\ GroupAt(store, x.pc, x.local, x.saved, sub) /\ BehindIn(store, sub, e, x.saved)
  BY <1>1, Grouping
<1>3. clearDuplicateGroups(kind) /\ Moves(w, "cleared", x.local)
  BY <1>1, <1>2, ClearSteps
<1>4. x.saved = IF sub.kind = "detect" THEN 0 ELSE N + 1
  BY <1>1, <1>2 DEF GroupAt
<1>5. GroupAt(store', "cleared", x.local, x.saved, sub)
  BY <1>2, <1>3, <1>4, GroupsCleared DEF GroupAt
<1>6. BehindIn(store', sub, e, x.saved)
  <2>1. CASE sub.kind = "detect"
    BY <1>4, <2>1 DEF BehindIn
  <2>2. CASE sub.kind = "hash"
    <3> HIDE DEF e
    <3>1. /\ ScopeIn(store', sub, e) = ScopeIn(store, sub, e)
          /\ \A f : HashedIn(store, f) => HashedIn(store', f)
      BY <1>2, <1>3, <2>2, OwnScope
    <3>2. ~(x.saved >= N + 2)
      BY <1>4, <2>2, FileNumbers
    <3> QED
      BY <1>2, <2>2, <3>1, <3>2 DEF BehindIn
  <2> QED
    BY <1>2, <2>1, <2>2
<1>7. Work(store', "cleared", x.local, x.saved, sub, e)
  BY <1>5, <1>6, WorkOfStages DEF GroupPoints
<1> QED
  BY <1>2, <1>3, <1>7, DoneSteps

LEMMA WritesGroup ==
  ASSUME NEW w \in Workers, DInv(w), OnlyStages, UpsertGroup(w)
  PROVE  Does(w)
<1> DEFINE x == workers[w]
           l == x.local
           next == workers'[w].local
           sub == jobs[x.job].sub
           e == x.job \in early
           kind == GroupKind(sub.kind)
           first == FirstOf(sub.kind)
           many == ManyIn(store, kind)
<1>1. x.pc = "group" /\ x.pc \in GroupPoints \cup {"detect"} /\ AInv
  BY DEF UpsertGroup, At, GroupPoints, DInv
<1>2. /\ x.pc \in StagePoints /\ sub.kind \in {"detect", "hash"} /\ sub = JobOf(w).sub
      /\ x.saved \in Nat /\ first \in Nat \ {0} /\ kind \in GroupKinds /\ Tables(store)
      /\ many \subseteq Keys[kind]
      /\ GroupAt(store, x.pc, l, x.saved, sub)
      /\ x.saved >= first => GroupsIn(store, kind, x.saved - first)
      /\ sub.kind = "hash" => \A f \in ScopeIn(store, sub, e) : HashedIn(store, f)
  BY <1>1, Grouping
<1>3. \/ Stops(w) /\ UNCHANGED store
      \/ \E k \in l.page :
           /\ store' = upsertGroup(kind, k)
           /\ Moves(w, "group", next) /\ next.last = l.last
           /\ kind = "candidate" => next.page = l.page \ {k} /\ next.cursor = 0
           /\ kind # "candidate" => next.page = l.page /\ next.cursor = k
  BY <1>1, <1>2, UpsertGroupSteps
<1>4. CASE Stops(w) /\ UNCHANGED store
  BY <1>2, <1>4, DoneSteps
<1>5. ASSUME NEW k \in l.page,
             store' = upsertGroup(kind, k), Moves(w, "group", next), next.last = l.last,
             kind = "candidate" => next.page = l.page \ {k} /\ next.cursor = 0,
             kind # "candidate" => next.page = l.page /\ next.cursor = k
      PROVE  Does(w)
  <2>1. /\ x.saved >= first /\ l.page \subseteq many
        /\ \A j \in many : j <= l.last => j \in l.page \/ GroupIn(store, kind, j)
    BY <1>1, <1>2 DEF GroupAt
  <2>2. k \in many /\ SoundIn(store, kind) /\ GroupsIn(store, kind, x.saved - first)
    BY <1>2, <1>5, <2>1 DEF GroupsIn
  <2>3. /\ ManyIn(store', kind) = many
        /\ store'.groups[kind][k].members = MembersIn(store', kind, k)
        /\ \A j \in Keys[kind] : GroupIn(store, kind, j) => GroupIn(store', kind, j)
        /\ \A a : GroupsIn(store, kind, a) => GroupsIn(store', kind, a)
    BY <1>2, <1>5, <2>2, GroupAdded
  <2>4. kind = "candidate" => GroupIn(store', kind, k)
    BY <2>3 DEF GroupIn
  <2>5. kind \in {"candidate", "exact"}
    BY <1>2 DEF GroupKinds
  <2>6. /\ next.page \subseteq ManyIn(store', kind)
        /\ \A j \in ManyIn(store', kind) : j <= next.last => j \in next.page \/ GroupIn(store', kind, j)
    <3> HIDE DEF x, l, next, sub, e, kind, many
    <3> QED
      BY <1>2, <1>5, <2>1, <2>3, <2>4, <2>5
  <2>7. next.cursor # 0 => /\ kind = "exact" /\ next.cursor \in next.page
                           /\ store'.groups[kind][next.cursor].members =
                                MembersIn(store', kind, next.cursor)
    <3> HIDE DEF x, l, next, sub, e, kind, many
    <3> QED
      BY <1>5, <2>3, <2>5
  <2>8. GroupAt(store', "group", next, x.saved, sub)
    <3> HIDE DEF x, next, sub, many
    <3> QED
      BY <2>1, <2>6, <2>7 DEF GroupAt
  <2>9. Tables(store')
    BY <1>2, <1>5, UpsertTables DEF StoreStep
  <2>10. BehindIn(store', sub, e, x.saved)
    <3>1. k \in Keys[kind]
      BY <1>2, <2>2
    <3> HIDE DEF e
    <3>2. sub.kind = "hash" => \A f \in ScopeIn(store', sub, e) : HashedIn(store', f)
      <4> HIDE DEF x, sub
      <4>1. sub.kind = "hash" => /\ ScopeIn(store', sub, e) = ScopeIn(store, sub, e)
                                 /\ \A f : HashedIn(store, f) => HashedIn(store', f)
        BY <1>2, <1>5, <3>1, OwnScope
      <4> QED
        BY <1>2, <4>1
    <3>3. x.saved - first \in Nat /\ first + (x.saved - first) = x.saved
      BY <1>2, <2>1
    <3>4. GroupsIn(store', kind, x.saved - first)
      BY <2>2, <2>3
    <3> DEFINE a == x.saved - first
    <3>5. \A b \in Nat : GroupsIn(store', kind, b) => BehindIn(store', sub, e, first + b)
      <4> HIDE DEF x, sub
      <4> QED
        BY <1>2, <2>9, <3>2, BehindGroups
    <3> QED
      BY <3>3, <3>4, <3>5
  <2>11. Work(store', "group", next, x.saved, sub, e)
    BY <2>8, <2>10, WorkOfStages DEF GroupPoints
  <2> QED
    BY <1>2, <1>5, <2>11, DoneSteps
<1> QED
  BY <1>3, <1>4, <1>5

\* A review that is raised changes nothing else.
LEMMA OneRaised ==
  ASSUME Tables(store), NEW key \in ReviewKeys,
         store' = [store EXCEPT !.reviews = createNeedsReview(store.reviews, key)]
  PROVE  /\ Grown(store, store') /\ store'.reviews[key] # "none"
         /\ store'.hashes = store.hashes /\ SameAnalysis
<1>1. /\ store'.hashes = store.hashes /\ store'.unhashed = store.unhashed /\ SameAnalysis
      /\ store'.reviews = createNeedsReview(store.reviews, key)
  BY DEF Tables, IsStore, SameAnalysis
<1> QED
  BY <1>1, Raises DEF Grown

LEMMA AsksForKeeper ==
  ASSUME NEW w \in Workers, DInv(w), OnlyStages, AskForKeeper(w)
  PROVE  Does(w)
<1> DEFINE x == workers[w]
           l == x.local
           next == workers'[w].local
           sub == jobs[x.job].sub
           e == x.job \in early
           kind == GroupKind(sub.kind)
           first == FirstOf(sub.kind)
           many == ManyIn(store, kind)
<1>1. x.pc = "group" /\ x.pc \in GroupPoints \cup {"detect"} /\ AInv
  BY DEF AskForKeeper, At, GroupPoints, DInv
<1>2. /\ x.pc \in StagePoints /\ sub.kind \in {"detect", "hash"} /\ sub = JobOf(w).sub
      /\ x.saved \in Nat /\ kind \in GroupKinds /\ Tables(store)
      /\ many \subseteq Keys[kind]
      /\ GroupAt(store, x.pc, l, x.saved, sub) /\ BehindIn(store, sub, e, x.saved)
  BY <1>1, Grouping
<1>3. /\ l.cursor # 0
      /\ store' = [store EXCEPT
           !.reviews = createNeedsReview(store.reviews, <<"keeper", l.cursor>>)]
      /\ Moves(w, "group", next)
      /\ next.page = l.page \ {l.cursor} /\ next.cursor = 0 /\ next.last = l.last
  BY <1>1, <1>2, AskForKeeperSteps
<1>4. /\ x.saved >= first /\ l.page \subseteq many
      /\ \A j \in many : j <= l.last => j \in l.page \/ GroupIn(store, kind, j)
      /\ kind = "exact" /\ l.cursor \in l.page
      /\ store.groups[kind][l.cursor].members = MembersIn(store, kind, l.cursor)
  BY <1>1, <1>2, <1>3 DEF GroupAt
<1>5. <<"keeper", l.cursor>> \in ReviewKeys
  BY <1>2, <1>4 DEF ReviewKeys, Keys
<1>6. /\ Grown(store, store') /\ Asked(store', "keeper", l.cursor)
      /\ store'.hashes = store.hashes /\ SameAnalysis
  BY <1>2, <1>3, <1>5, OneRaised DEF Asked
<1>7. SameMembers(store, store', kind) /\ SameMembers(store, store', "candidate")
  BY <1>4, <1>6, SameFiles
<1>8. /\ \A k : MembersIn(store', kind, k) = MembersIn(store, kind, k)
      /\ ManyIn(store', kind) = many
      /\ \A k \in Keys[kind] : GroupIn(store, kind, k) => GroupIn(store', kind, k)
      /\ \A a : GroupsIn(store, kind, a) => GroupsIn(store', kind, a)
  BY <1>2, <1>6, <1>7, GroupsSame
<1>9. GroupIn(store', kind, l.cursor)
  BY <1>2, <1>4, <1>6, <1>7, <1>8 DEF GroupIn, SameMembers
<1>10. GroupAt(store', "group", next, x.saved, sub)
  <2>1. /\ next.page \subseteq ManyIn(store', kind)
        /\ \A j \in ManyIn(store', kind) : j <= next.last => j \in next.page \/ GroupIn(store', kind, j)
    BY <1>2, <1>3, <1>4, <1>8, <1>9
  <2> HIDE DEF next
  <2> QED
    BY <1>3, <1>4, <2>1 DEF GroupAt
<1>11. BehindIn(store', sub, e, x.saved)
  <2> HIDE DEF e
  <2>1. ScopeIn(store', sub, e) = ScopeIn(store, sub, e)
    BY <1>7, ScopeSame
  <2>2. \A f \in Files : HashedIn(store, f) => HashedIn(store', f)
    BY <1>6, FilesKept
  <2>3. ScopeIn(store, sub, e) \subseteq Files
    BY <1>2, BehindNothing
  <2>4. sub.kind = "hash"
    BY <1>2, <1>4 DEF GroupKind
  <2> QED
    BY <1>2, <1>4, <1>8, <2>1, <2>2, <2>3, <2>4 DEF BehindIn
<1>12. Work(store', "group", next, x.saved, sub, e)
  BY <1>10, <1>11, WorkOfStages DEF GroupPoints
<1> QED
  BY <1>2, <1>3, <1>12, DoneSteps

-----------------------------------------------------------------------------
(* media.analyze.                                                          *)

LEMMA Analysing ==
  ASSUME NEW w \in Workers, DInv(w), OnlyStages, workers[w].pc \in MediaPoints
  PROVE  LET x == workers[w]
             sub == jobs[x.job].sub
             e == x.job \in early
         IN /\ x.pc \in StagePoints /\ sub.kind = "media" /\ Tables(store)
            /\ MediaAt(store, x.pc, x.local, x.saved)
            /\ \A f \in Files : f <= x.saved => MediaIn(store, f)
            /\ x.saved \in Nat /\ x.local \in Locals
            /\ \A s, c : (\A f \in Files : f <= c => MediaIn(s, f)) => BehindIn(s, sub, e, c)
            /\ \A s, l, c : \A to \in MediaPoints :
                 (\A f \in Files : f <= c => MediaIn(s, f)) /\ MediaAt(s, to, l, c) =>
                   Work(s, to, l, c, sub, e)
<1> DEFINE x == workers[w]
           sub == jobs[x.job].sub
           e == x.job \in early
<1>1. x.pc \in StagePoints /\ x.pc \in PointsOf["media"]
  BY DEF MediaPoints, PointsOf, StagePoints, MetadataPoints
<1>2. /\ AInv /\ x.saved \in Nat /\ x.local \in Locals /\ sub = JobOf(w).sub /\ Tables(store)
      /\ Work(store, x.pc, x.local, x.saved, sub, e) /\ BehindIn(store, sub, e, x.saved)
  BY <1>1, Doing
<1>3. sub.kind = "media"
  BY <1>1, <1>2, KindAt
<1>4. MediaAt(store, x.pc, x.local, x.saved)
  BY <1>2, WorkOfStages
<1>5. \A f \in Files : f <= x.saved => MediaIn(store, f)
  BY <1>2, <1>3 DEF BehindIn
<1> HIDE DEF x, sub, e
<1>6. \A s, c : (\A f \in Files : f <= c => MediaIn(s, f)) => BehindIn(s, sub, e, c)
  BY <1>3 DEF BehindIn
<1>7. \A s, l, c : \A to \in MediaPoints :
        (\A f \in Files : f <= c => MediaIn(s, f)) /\ MediaAt(s, to, l, c) => Work(s, to, l, c, sub, e)
  BY <1>6, WorkOfStages
<1> QED
  BY <1>1, <1>2, <1>3, <1>4, <1>5, <1>6, <1>7 DEF x, sub, e

LEMMA MediaBegins ==
  ASSUME NEW w \in Workers, DInv(w), OnlyStages,
         BeginMedia(w) \/ MediaPage(w) \/ MediaApproved(w) \/ MediaChunk(w)
  PROVE  Does(w)
<1> DEFINE x == workers[w]
           sub == jobs[x.job].sub
           e == x.job \in early
<1>1. x.pc \in MediaPoints /\ AInv
  BY DEF BeginMedia, Begin, MediaPage, MediaApproved, MediaChunk, At, MediaPoints, DInv
<1>2. /\ x.pc \in StagePoints /\ sub.kind = "media"
      /\ MediaAt(store, x.pc, x.local, x.saved)
      /\ \A f \in Files : f <= x.saved => MediaIn(store, f)
      /\ x.saved \in Nat /\ x.local \in Locals
      /\ \A s, c : (\A f \in Files : f <= c => MediaIn(s, f)) => BehindIn(s, sub, e, c)
      /\ \A s, l, c : \A to \in MediaPoints :
           (\A f \in Files : f <= c => MediaIn(s, f)) /\ MediaAt(s, to, l, c) =>
             Work(s, to, l, c, sub, e)
  BY <1>1, Analysing
<1>3. \A to, l : Goes(w, to, l) /\ UNCHANGED store /\ Work(store, to, l, x.saved, sub, e) => Does(w)
  BY <1>2, DoneSteps
<1>4. \A to \in MediaPoints : \A l : MediaAt(store, to, l, x.saved) => Work(store, to, l, x.saved, sub, e)
  BY <1>2
<1>5. Files \in SUBSET Nat
  BY FileNumbers
<1>6. CASE BeginMedia(w)
  <2>1. UNCHANGED store /\ Goes(w, "mediaPage", Nothing)
    BY <1>1, <1>6, BeginMediaSteps
  <2>2. MediaAt(store, "mediaPage", Nothing, x.saved)
    BY DEF MediaAt
  <2> QED
    BY <1>3, <1>4, <2>1, <2>2 DEF MediaPoints
<1>7. CASE MediaPage(w)
  <2> DEFINE tasks == First(PageSize, analysisTasks(x.saved))
             next == [Nothing EXCEPT !.page = tasks]
  <2>1. /\ UNCHANGED store
        /\ Goes(w, IF tasks = {} THEN "finish" ELSE "mediaApproved", next)
        /\ Paged(Files, x.saved, tasks) /\ next.page = tasks
        /\ next.cursor = 0 /\ next.reading = {}
    BY <1>1, <1>7, MediaPageSteps
  <2> HIDE DEF next, tasks
  <2>2. RestOf(Files, x.saved, tasks) /\ (tasks = {} => \A f \in Files : f <= x.saved)
    BY <1>2, <1>5, <2>1, PageRest
  <2>3. CASE tasks = {}
    <3>1. BehindIn(store, sub, e, x.saved) /\ DoneIn(store, sub, e)
      BY <1>2, <2>2, <2>3 DEF DoneIn
    <3>2. Work(store, "finish", next, x.saved, sub, e)
      BY <3>1, WorkOfStages
    <3> QED
      BY <1>3, <2>1, <2>3, <3>2
  <2>4. CASE tasks # {}
    <3>1. MediaAt(store, "mediaApproved", next, x.saved)
      BY <2>1, <2>2 DEF MediaAt
    <3> QED
      BY <1>3, <1>4, <2>1, <2>4, <3>1 DEF MediaPoints
  <2> QED
    BY <2>3, <2>4
<1>8. CASE MediaApproved(w)
  <2>1. x.pc = "mediaApproved" /\ UNCHANGED store /\ Goes(w, "mediaChunk", x.local)
    BY <1>1, <1>8, MediaApprovedSteps
  <2>2. MediaAt(store, "mediaChunk", x.local, x.saved)
    BY <1>2, <2>1 DEF MediaAt
  <2> QED
    BY <1>3, <1>4, <2>1, <2>2 DEF MediaPoints
<1>9. CASE MediaChunk(w)
  <2> DEFINE l == x.local
             b == Begun(l)
  <2>1. /\ x.pc = "mediaChunk" /\ UNCHANGED store /\ Goes(w, "mediaFiles", b)
        /\ l \in Locals /\ l.page \subseteq Files /\ l.page # {}
    BY <1>1, <1>9, MediaChunkSteps
  <2>2. RestOf(Files, x.saved, l.page) /\ l.reading = {} /\ l.cursor = 0
    BY <1>2, <2>1 DEF MediaAt
  <2>3. /\ RestOf(Files, b.last, b.page) /\ x.saved <= b.last /\ \A f \in b.todo : f > x.saved
        /\ \A f \in Files : f <= b.last => f \in b.todo \/ f <= x.saved
    BY <1>2, <1>5, <2>1, <2>2, ChunkRest
  <2>4. b.done = {} /\ b.reading = {} /\ b.cursor = 0
    BY <2>1, <2>2, BegunFacts
  <2> HIDE DEF b, l
  <2>5. InHandIn(b) = b.todo
    BY <2>4 DEF InHandIn
  <2>6. MediaAt(store, "mediaFiles", b, x.saved)
    BY <1>2, <2>3, <2>4, <2>5 DEF MediaAt
  <2> QED
    BY <1>3, <1>4, <2>1, <2>6 DEF MediaPoints
<1> QED
  BY <1>6, <1>7, <1>8, <1>9

\* The file does not match its observation.
LEMMA SourceFailure ==
  ASSUME Tables(store), NEW f \in Files, createSourceFailure(f)
  PROVE  Grown(store, store') /\ MediaIn(store', f) /\ store'.hashes = store.hashes /\ SameAnalysis
<1>1. <<"stale", f>> \in ReviewKeys
  BY DEF ReviewKeys
<1>2. store' = [store EXCEPT !.reviews = createNeedsReview(store.reviews, <<"stale", f>>)]
  BY DEF createSourceFailure
<1> QED
  BY <1>1, <1>2, OneRaised DEF MediaIn, Asked

\* What is behind a worker in a chunk stays there when its table says no less of any file.
LEMMA ChunkKept ==
  ASSUME NEW s, NEW t, Grown(s, t), \A f \in Files : MediaKept(s, t, f),
         NEW l \in Locals, NEW saved, MediaAt(s, "mediaFiles", l, saved)
  PROVE  /\ \A f \in Files : MediaIn(s, f) => MediaIn(t, f)
         /\ \A f \in Files : f <= l.last => f \in InHandIn(l) \/ MediaIn(t, f)
         /\ \A o \in l.done : o.result = "reused" =>
              t.results[o.file] # "none" \/ Earlier[o.file] # "none"
<1>1. \A f \in Files : MediaIn(s, f) => MediaIn(t, f)
  BY FilesKept
<1>2. \A o \in l.done : o.file \in Files
  BY DEF Locals, TaskAnalysis
<1> QED
  BY <1>1, <1>2 DEF MediaAt, MediaKept

LEMMA AnalysesFiles ==
  ASSUME NEW w \in Workers, DInv(w), OnlyStages,
         NEW f \in Files, StartTask(w, f) \/ FinishTask(w, f)
  PROVE  Does(w)
<1> DEFINE x == workers[w]
           l == x.local
           next == workers'[w].local
           sub == jobs[x.job].sub
           e == x.job \in early
<1>1. AInv
  BY DEF DInv
<1>2. /\ x.pc = "mediaFiles" /\ f \in l.todo \cup l.reading
      /\ Moves(w, "mediaFiles", next) /\ next \in Locals
      /\ next.page = l.page /\ next.last = l.last
      /\ next.cursor = l.cursor /\ next.todo \subseteq l.todo /\ next.reading \subseteq l.reading \cup {f}
      /\ l.todo \cup l.reading \subseteq next.todo \cup next.reading \cup {f}
      /\ \/ createSourceFailure(f) /\ next.done = l.done
         \/ f \in next.reading /\ UNCHANGED store /\ next.done = l.done
         \/ /\ UNCHANGED store
            /\ \E o \in TaskAnalysis : /\ o.file = f /\ next.done = l.done \cup {o}
                                       /\ o.result = "reused" => Reusable(f) # "none"
  <2>1. CASE StartTask(w, f)
    BY <1>1, <2>1, StartTaskSteps
  <2>2. CASE FinishTask(w, f)
    BY <1>1, <2>2, FinishTaskSteps
  <2> QED
    BY <2>1, <2>2
<1>3. x.pc \in MediaPoints
  BY <1>2 DEF MediaPoints
<1>4. /\ x.pc \in StagePoints /\ Tables(store)
      /\ MediaAt(store, "mediaFiles", l, x.saved)
      /\ \A g \in Files : g <= x.saved => MediaIn(store, g)
      /\ x.saved \in Nat /\ l \in Locals
      /\ \A s, c : (\A g \in Files : g <= c => MediaIn(s, g)) => BehindIn(s, sub, e, c)
      /\ \A s, local, c : \A to \in MediaPoints :
           (\A g \in Files : g <= c => MediaIn(s, g)) /\ MediaAt(s, to, local, c) =>
             Work(s, to, local, c, sub, e)
  BY <1>2, <1>3, Analysing
<1>5. /\ Grown(store, store') /\ \A g \in Files : MediaKept(store, store', g)
      /\ createSourceFailure(f) => MediaIn(store', f)
  <2>1. UNCHANGED store => Grown(store, store') /\ \A g \in Files : MediaKept(store, store', g)
    BY DEF Grown, MediaKept
  <2>2. createSourceFailure(f) => Grown(store, store') /\ MediaIn(store', f) /\ SameAnalysis
    BY <1>4, SourceFailure
  <2> QED
    BY <1>2, <2>1, <2>2, SameFiles
<1> HIDE DEF l, next
<1>6. /\ \A g \in Files : MediaIn(store, g) => MediaIn(store', g)
      /\ \A g \in Files : g <= l.last => g \in InHandIn(l) \/ MediaIn(store', g)
      /\ \A o \in l.done : o.result = "reused" =>
           store'.results[o.file] # "none" \/ Earlier[o.file] # "none"
  BY <1>4, <1>5, ChunkKept
<1>7. /\ RestOf(Files, l.last, l.page) /\ x.saved <= l.last
      /\ \A g \in InHandIn(l) : g > x.saved
      /\ l.cursor = 0
  BY <1>2, <1>4 DEF MediaAt
<1>8. /\ InHandIn(next) \subseteq InHandIn(l)
      /\ InHandIn(l) \subseteq InHandIn(next) \cup {f}
      /\ f \in InHandIn(next) \/ MediaIn(store', f)
      /\ \A o \in next.done : o.result = "reused" =>
           store'.results[o.file] # "none" \/ Earlier[o.file] # "none"
  <2>1. f \in InHandIn(l)
    BY <1>2 DEF InHandIn
  <2>2. CASE createSourceFailure(f) /\ next.done = l.done
    BY <1>2, <1>5, <1>6, <2>1, <2>2 DEF InHandIn
  <2>3. CASE f \in next.reading /\ UNCHANGED store /\ next.done = l.done
    BY <1>2, <1>6, <2>1, <2>3 DEF InHandIn
  <2>4. ASSUME UNCHANGED store, NEW o \in TaskAnalysis, o.file = f, next.done = l.done \cup {o},
               o.result = "reused" => Reusable(f) # "none"
        PROVE  /\ InHandIn(next) \subseteq InHandIn(l)
               /\ InHandIn(l) \subseteq InHandIn(next) \cup {f}
               /\ f \in InHandIn(next)
               /\ \A q \in next.done : q.result = "reused" =>
                    store'.results[q.file] # "none" \/ Earlier[q.file] # "none"
    <3>1. o.result = "reused" => store'.results[o.file] # "none" \/ Earlier[o.file] # "none"
      BY <2>4 DEF Reusable
    <3>2. /\ InHandIn(next) = next.todo \cup next.reading \cup {p.file : p \in l.done} \cup {f}
          /\ InHandIn(l) = l.todo \cup l.reading \cup {p.file : p \in l.done}
      BY <2>4 DEF InHandIn
    <3> QED
      BY <1>2, <1>6, <2>1, <2>4, <3>1, <3>2
  <2> QED
    BY <1>2, <2>2, <2>3, <2>4
<1>9. MediaAt(store', "mediaFiles", next, x.saved)
  BY <1>2, <1>6, <1>7, <1>8 DEF MediaAt
<1>10. Work(store', "mediaFiles", next, x.saved, sub, e)
  BY <1>4, <1>6, <1>9 DEF MediaPoints
<1> QED
  BY <1>2, <1>4, <1>10, DoneSteps

LEMMA RaisesOf ==
  ASSUME NEW reviews \in [ReviewKeys -> ReviewStatuses], NEW key \in ReviewKeys
  PROVE  LET raised == createNeedsReview(reviews, key)
         IN /\ raised \in [ReviewKeys -> ReviewStatuses] /\ raised[key] # "none"
            /\ \A k \in ReviewKeys : reviews[k] # "none" => raised[k] # "none"
BY DEF createNeedsReview, ReviewStatuses

\* The three writes of an outcome.
LEMMA ResultWritten ==
  ASSUME IsStore(store), DOMAIN store.results = Files, NEW f \in Files, NEW result,
         result # "none", store' = [store EXCEPT !.results[f] = result]
  PROVE  /\ Grown(store, store') /\ \A g \in Files : MediaKept(store, store', g)
         /\ store'.results[f] # "none" /\ store'.hashes = store.hashes
         /\ store'.groups = store.groups /\ store'.files = store.files
         /\ store'.semantic = store.semantic /\ DOMAIN store'.results = Files
<1>1. /\ store'.hashes = store.hashes /\ store'.unhashed = store.unhashed
      /\ store'.reviews = store.reviews /\ store'.groups = store.groups
      /\ store'.files = store.files /\ store'.semantic = store.semantic
      /\ store'.results = [store.results EXCEPT ![f] = result]
  BY DEF IsStore
<1> QED
  BY <1>1 DEF Grown, MediaKept

LEMMA UnderstandingWritten ==
  ASSUME IsStore(store), DOMAIN store.files = Files, NEW f \in Files, NEW u,
         store' = [store EXCEPT !.files[f] = u]
  PROVE  /\ Grown(store, store') /\ \A g \in Files \ {f} : MediaKept(store, store', g)
         /\ store'.files[f] = u /\ store'.hashes = store.hashes
         /\ store'.groups = store.groups /\ store'.results = store.results
         /\ store'.semantic = store.semantic /\ DOMAIN store'.files = Files
<1>1. /\ store'.hashes = store.hashes /\ store'.unhashed = store.unhashed
      /\ store'.reviews = store.reviews /\ store'.groups = store.groups
      /\ store'.results = store.results /\ store'.semantic = store.semantic
      /\ store'.files = [store.files EXCEPT ![f] = u]
  BY DEF IsStore
<1> QED
  BY <1>1 DEF Grown, MediaKept

LEMMA ReviewsWritten ==
  ASSUME Tables(store), NEW o \in TaskAnalysis,
         store' = [store EXCEPT !.reviews =
           LET unsure == IF o.unsure THEN createNeedsReview(store.reviews, <<"unsure", o.file>>)
                         ELSE store.reviews
           IN IF o.result = "failed" THEN createNeedsReview(unsure, <<"failed", o.file>>) ELSE unsure]
  PROVE  /\ Grown(store, store') /\ store'.hashes = store.hashes /\ SameAnalysis
         /\ o.unsure => Asked(store', "unsure", o.file)
<1> DEFINE unsure == IF o.unsure THEN createNeedsReview(store.reviews, <<"unsure", o.file>>)
                     ELSE store.reviews
           both == IF o.result = "failed" THEN createNeedsReview(unsure, <<"failed", o.file>>)
                   ELSE unsure
<1>1. store' = [store EXCEPT !.reviews = both]
  OBVIOUS
<1>2. store.reviews \in [ReviewKeys -> ReviewStatuses] /\ IsStore(store)
  BY DEF Tables
<1>3. <<"unsure", o.file>> \in ReviewKeys /\ <<"failed", o.file>> \in ReviewKeys
  BY DEF ReviewKeys, TaskAnalysis
<1>4. /\ unsure \in [ReviewKeys -> ReviewStatuses]
      /\ o.unsure => unsure[<<"unsure", o.file>>] # "none"
      /\ \A k \in ReviewKeys : store.reviews[k] # "none" => unsure[k] # "none"
  BY <1>2, <1>3, RaisesOf
<1> HIDE DEF unsure
<1>5. \A k \in ReviewKeys : unsure[k] # "none" => both[k] # "none"
  BY <1>3, <1>4, RaisesOf
<1> HIDE DEF both
<1>6. /\ store'.hashes = store.hashes /\ store'.unhashed = store.unhashed /\ SameAnalysis
      /\ store'.reviews = both
  BY <1>1, <1>2 DEF IsStore, SameAnalysis
<1> QED
  BY <1>3, <1>4, <1>5, <1>6 DEF Grown, Asked

LEMMA Outcome ==
  ASSUME NEW w \in Workers, DInv(w), OnlyStages, workers[w].pc = "mediaFiles",
         workers[w].local.done # {}, workers[w].local.todo = {}, workers[w].local.reading = {}
  PROVE  LET x == workers[w]
             l == x.local
             o == NextOutcome(w)
         IN /\ x.pc \in StagePoints /\ Tables(store) /\ IsStore(store)
            /\ DOMAIN store.results = Files /\ DOMAIN store.files = Files
            /\ MediaAt(store, "mediaFiles", l, x.saved)
            /\ \A g \in Files : g <= x.saved => MediaIn(store, g)
            /\ x.saved \in Nat /\ l \in Locals
            /\ o = FirstOutcome(l) /\ o \in l.done /\ o \in TaskAnalysis /\ o.file \in Files
            /\ o.file \in InHandIn(l) /\ o.file > x.saved
            /\ InHandIn(l) = {p.file : p \in l.done}
<1> DEFINE x == workers[w]
           l == x.local
           o == NextOutcome(w)
<1>1. AInv /\ x.pc \in MediaPoints /\ RowsInv
  BY DEF MediaPoints, DInv
<1>2. /\ x.pc \in StagePoints /\ Tables(store) /\ MediaAt(store, "mediaFiles", l, x.saved)
      /\ \A g \in Files : g <= x.saved => MediaIn(store, g)
      /\ x.saved \in Nat /\ l \in Locals
  BY <1>1, Analysing
<1>3. o \in l.done /\ o \in TaskAnalysis /\ o.file \in Files
  BY <1>1, NextOutcomeFacts
<1>4. o = FirstOutcome(l)
  BY DEF NextOutcome, FirstOutcome, Local
<1>5. InHandIn(l) = {p.file : p \in l.done}
  BY DEF InHandIn
<1>6. o.file \in InHandIn(l)
  BY <1>3, <1>5
<1>7. o.file > x.saved
  BY <1>2, <1>6 DEF MediaAt
<1> QED
  BY <1>1, <1>2, <1>3, <1>4, <1>5, <1>6, <1>7 DEF RowsInv, Tables

LEMMA SavesResult ==
  ASSUME NEW w \in Workers, DInv(w), OnlyStages, saveAnalyzerResult(w)
  PROVE  Does(w)
<1> DEFINE x == workers[w]
           l == x.local
           next == workers'[w].local
           sub == jobs[x.job].sub
           e == x.job \in early
           o == NextOutcome(w)
           result == IF o.result = "reused" THEN Reusable(o.file) ELSE o.result
<1>1. AInv
  BY DEF DInv
<1>2. /\ x.pc = "mediaFiles" /\ l.todo = {} /\ l.reading = {} /\ l.done # {} /\ l.cursor = 0
      /\ store' = [store EXCEPT !.results[o.file] = result]
      /\ Moves(w, "mediaFiles", next) /\ next = [l EXCEPT !.cursor = 1] /\ next \in Locals
  BY <1>1, saveAnalyzerResultSteps
<1>3. /\ x.pc \in StagePoints /\ Tables(store) /\ IsStore(store)
      /\ DOMAIN store.results = Files
      /\ MediaAt(store, "mediaFiles", l, x.saved)
      /\ \A g \in Files : g <= x.saved => MediaIn(store, g)
      /\ l \in Locals
      /\ o = FirstOutcome(l) /\ o \in l.done /\ o \in TaskAnalysis /\ o.file \in Files
  BY <1>2, Outcome
<1>4. result # "none"
  <2>1. o.result \in {"ok", "reused", "failed"}
    BY <1>3 DEF TaskAnalysis
  <2>2. o.result = "reused" => store.results[o.file] # "none" \/ Earlier[o.file] # "none"
    BY <1>3 DEF MediaAt
  <2> QED
    BY <2>1, <2>2 DEF Reusable
<1> HIDE DEF result
<1>5. /\ Grown(store, store') /\ \A g \in Files : MediaKept(store, store', g)
      /\ store'.results[o.file] # "none"
  BY <1>2, <1>3, <1>4, ResultWritten
<1>6. /\ next.page = l.page /\ next.last = l.last /\ next.todo = {} /\ next.reading = {}
      /\ next.done = l.done /\ next.cursor = 1
  BY <1>2, <1>3 DEF Locals
<1>7. FirstOutcome(next) = o /\ InHandIn(next) = InHandIn(l)
  BY <1>2, <1>3, <1>6 DEF FirstOutcome, InHandIn
<1> HIDE DEF l, next, o
<1>8. /\ \A g \in Files : MediaIn(store, g) => MediaIn(store', g)
      /\ \A g \in Files : g <= l.last => g \in InHandIn(l) \/ MediaIn(store', g)
      /\ \A p \in l.done : p.result = "reused" =>
           store'.results[p.file] # "none" \/ Earlier[p.file] # "none"
  BY <1>3, <1>5, ChunkKept
<1>9. MediaAt(store', "mediaFiles", next, x.saved)
  BY <1>2, <1>3, <1>5, <1>6, <1>7, <1>8 DEF MediaAt
<1>10. x.pc \in MediaPoints
  BY <1>2 DEF MediaPoints
<1>11. Work(store', "mediaFiles", next, x.saved, sub, e)
  BY <1>2, <1>3, <1>8, <1>9, <1>10, Analysing
<1> QED
  BY <1>2, <1>3, <1>11, DoneSteps

LEMMA SavesUnderstanding ==
  ASSUME NEW w \in Workers, DInv(w), OnlyStages, saveUnderstanding(w)
  PROVE  Does(w)
<1> DEFINE x == workers[w]
           l == x.local
           next == workers'[w].local
           sub == jobs[x.job].sub
           e == x.job \in early
           o == NextOutcome(w)
           u == IF o.unsure THEN "unsure" ELSE "confident"
<1>1. AInv /\ x.pc \in MediaPoints
  BY DEF DInv, saveUnderstanding, ChunkAnalyzed, At, MediaPoints
<1>2. /\ x.pc = "mediaFiles" /\ l.todo = {} /\ l.reading = {} /\ l.cursor = 1
      /\ store' = [store EXCEPT !.files[o.file] = u]
      /\ Moves(w, "mediaFiles", next) /\ next = [l EXCEPT !.cursor = 2] /\ next \in Locals
  BY <1>1, saveUnderstandingSteps
<1>3. l.done # {} /\ store.results[FirstOutcome(l).file] # "none"
  BY <1>1, <1>2, Analysing DEF MediaAt
<1>4. /\ x.pc \in StagePoints /\ Tables(store) /\ IsStore(store)
      /\ DOMAIN store.files = Files
      /\ MediaAt(store, "mediaFiles", l, x.saved)
      /\ \A g \in Files : g <= x.saved => MediaIn(store, g)
      /\ l \in Locals /\ x.saved \in Nat
      /\ o = FirstOutcome(l) /\ o \in l.done /\ o \in TaskAnalysis /\ o.file \in Files
      /\ o.file \in InHandIn(l) /\ o.file > x.saved
  BY <1>2, <1>3, Outcome
<1>5. /\ Grown(store, store') /\ \A g \in Files \ {o.file} : MediaKept(store, store', g)
      /\ store'.files[o.file] = u /\ store'.results = store.results
  BY <1>2, <1>4, UnderstandingWritten, SMTT(30)
<1>6. u # "none" /\ (u = "unsure" => o.unsure)
  OBVIOUS
<1>7. /\ next.page = l.page /\ next.last = l.last /\ next.todo = {} /\ next.reading = {}
      /\ next.done = l.done /\ next.cursor = 2
  BY <1>2, <1>4 DEF Locals
<1>8. FirstOutcome(next) = o /\ InHandIn(next) = InHandIn(l)
  BY <1>2, <1>4, <1>7 DEF FirstOutcome, InHandIn
<1> HIDE DEF l, next, o, u
<1>9. \A g \in Files \ {o.file} : MediaIn(store, g) => MediaIn(store', g)
  BY <1>5, FilesKept
<1>10. /\ \A g \in Files : g <= x.saved => MediaIn(store', g)
       /\ \A g \in Files : g <= l.last => g \in InHandIn(l) \/ MediaIn(store', g)
  <2>1. \A g \in Files : g <= x.saved => g # o.file
    <3>1. \A g \in Files : g \in Nat
      BY FileNumbers
    <3> QED
      BY <1>4, <3>1
  <2>2. \A g \in Files : g <= l.last => g \in InHandIn(l) \/ MediaIn(store, g)
    BY <1>4 DEF MediaAt
  <2> QED
    BY <1>4, <1>9, <2>1, <2>2
<1>11. MediaAt(store', "mediaFiles", next, x.saved)
  <2>1. \A p \in next.done : p.result = "reused" =>
          store'.results[p.file] # "none" \/ Earlier[p.file] # "none"
    BY <1>4, <1>5, <1>7 DEF MediaAt
  <2>2. RestOf(Files, l.last, l.page) /\ x.saved <= l.last /\ \A f \in InHandIn(l) : f > x.saved
    BY <1>4 DEF MediaAt
  <2> QED
    BY <1>2, <1>3, <1>4, <1>5, <1>6, <1>7, <1>8, <1>10, <2>1, <2>2 DEF MediaAt
<1>12. Work(store', "mediaFiles", next, x.saved, sub, e)
  BY <1>1, <1>10, <1>11, Analysing DEF MediaPoints
<1> QED
  BY <1>2, <1>4, <1>12, DoneSteps

LEMMA CreatesReviews ==
  ASSUME NEW w \in Workers, DInv(w), OnlyStages, createReviewItems(w)
  PROVE  Does(w)
<1> DEFINE x == workers[w]
           l == x.local
           next == workers'[w].local
           sub == jobs[x.job].sub
           e == x.job \in early
           o == NextOutcome(w)
<1>1. AInv /\ x.pc \in MediaPoints
  BY DEF DInv, createReviewItems, ChunkAnalyzed, At, MediaPoints
<1>2. /\ x.pc = "mediaFiles" /\ l.todo = {} /\ l.reading = {} /\ l.cursor = 2
      /\ store' = [store EXCEPT !.reviews =
           LET unsure == IF o.unsure THEN createNeedsReview(store.reviews, <<"unsure", o.file>>)
                         ELSE store.reviews
           IN IF o.result = "failed" THEN createNeedsReview(unsure, <<"failed", o.file>>) ELSE unsure]
      /\ Moves(w, "mediaFiles", next) /\ next \in Locals
      /\ next = [l EXCEPT !.cursor = 0, !.done = l.done \ {o}]
  BY <1>1, Zenon, createReviewItemsSteps
<1>3. /\ l.done # {} /\ store.results[FirstOutcome(l).file] # "none"
      /\ store.files[FirstOutcome(l).file] # "none"
      /\ store.files[FirstOutcome(l).file] = "unsure" => FirstOutcome(l).unsure
  BY <1>1, <1>2, Analysing DEF MediaAt
<1>4. /\ x.pc \in StagePoints /\ Tables(store)
      /\ MediaAt(store, "mediaFiles", l, x.saved)
      /\ \A g \in Files : g <= x.saved => MediaIn(store, g)
      /\ l \in Locals
      /\ o = FirstOutcome(l) /\ o \in l.done /\ o \in TaskAnalysis /\ o.file \in Files
      /\ InHandIn(l) = {p.file : p \in l.done}
  BY <1>2, <1>3, Outcome
<1>5. /\ Grown(store, store') /\ SameAnalysis
      /\ o.unsure => Asked(store', "unsure", o.file)
  BY <1>2, <1>4, ReviewsWritten
<1> HIDE DEF l, o
<1>6. \A g \in Files : MediaKept(store, store', g)
  BY <1>5, SameFiles
<1>7. MediaIn(store', o.file)
  BY <1>3, <1>4, <1>5 DEF MediaIn, SameAnalysis
<1>8. /\ next.page = l.page /\ next.last = l.last /\ next.todo = {} /\ next.reading = {}
      /\ next.done = l.done \ {o} /\ next.cursor = 0
  BY <1>2, <1>4 DEF Locals, l
<1>9. /\ InHandIn(next) \subseteq InHandIn(l)
      /\ InHandIn(l) \subseteq InHandIn(next) \cup {o.file}
  BY <1>4, <1>8 DEF InHandIn
<1> HIDE DEF next
<1>10. /\ \A g \in Files : MediaIn(store, g) => MediaIn(store', g)
       /\ \A g \in Files : g <= l.last => g \in InHandIn(l) \/ MediaIn(store', g)
       /\ \A p \in l.done : p.result = "reused" =>
           store'.results[p.file] # "none" \/ Earlier[p.file] # "none"
  BY <1>4, <1>5, <1>6, ChunkKept
<1>11. MediaAt(store', "mediaFiles", next, x.saved)
  BY <1>4, <1>7, <1>8, <1>9, <1>10 DEF MediaAt
<1>12. Work(store', "mediaFiles", next, x.saved, sub, e)
  BY <1>1, <1>4, <1>10, <1>11, Analysing DEF MediaPoints
<1> QED
  BY <1>2, <1>4, <1>12, DoneSteps

LEMMA MediaSaves ==
  ASSUME NEW w \in Workers, DInv(w), OnlyStages, SaveAnalyzed(w) \/ ReportAnalyzed(w)
  PROVE  Does(w)
<1> DEFINE x == workers[w]
           l == x.local
           sub == jobs[x.job].sub
           e == x.job \in early
<1>1. AInv /\ x.pc \in MediaPoints
  BY DEF DInv, SaveAnalyzed, ChunkAnalyzed, ReportAnalyzed, Report, At, MediaPoints
<1>2. /\ x.pc \in StagePoints
      /\ MediaAt(store, x.pc, l, x.saved)
      /\ \A f \in Files : f <= x.saved => MediaIn(store, f)
      /\ \A s, local, c : \A to \in MediaPoints :
           (\A f \in Files : f <= c => MediaIn(s, f)) /\ MediaAt(s, to, local, c) =>
             Work(s, to, local, c, sub, e)
  BY <1>1, Analysing
<1> HIDE DEF l
<1>3. CASE SaveAnalyzed(w)
  <2>1. /\ x.pc = "mediaFiles" /\ UNCHANGED store /\ (Stops(w) \/ Saves(w, l.last, "mediaReport", l))
        /\ l.todo = {} /\ l.reading = {} /\ l.done = {}
    BY <1>1, <1>3, SaveAnalyzedSteps DEF l
  <2>2. InHandIn(l) = {}
    BY <2>1 DEF InHandIn
  <2>3. \A f \in Files : f <= l.last => MediaIn(store, f)
    BY <1>2, <2>1, <2>2 DEF MediaAt
  <2>4. MediaAt(store, "mediaReport", l, l.last)
    BY <1>2, <2>1 DEF MediaAt
  <2>5. Work(store, "mediaReport", l, l.last, sub, e)
    BY <1>2, <2>3, <2>4 DEF MediaPoints
  <2> QED
    BY <1>2, <2>1, <2>5, DoneSteps DEF StagePoints, MetadataPoints
<1>4. CASE ReportAnalyzed(w)
  <2> DEFINE to == IF l.page = {} THEN "mediaPage" ELSE "mediaChunk"
  <2>1. x.pc = "mediaReport" /\ UNCHANGED store /\ Goes(w, to, l)
    BY <1>1, <1>4, ReportAnalyzedSteps DEF l
  <2>2. MediaAt(store, to, l, x.saved) /\ to \in MediaPoints
    BY <1>2, <2>1 DEF MediaAt, MediaPoints
  <2>3. Work(store, to, l, x.saved, sub, e)
    BY <1>2, <2>2
  <2> QED
    BY <1>2, <2>1, <2>3, DoneSteps
<1> QED
  BY <1>3, <1>4

-----------------------------------------------------------------------------
(* relationships.analyze.                                                  *)

LEMMA FoundNow == \A n, after : Found(n, after) = FoundIn(store, n, after)
BY DEF Found, FoundIn

LEMMA Relating ==
  ASSUME NEW w \in Workers, DInv(w), OnlyStages, workers[w].pc \in RelationPoints
  PROVE  LET x == workers[w]
             sub == jobs[x.job].sub
             e == x.job \in early
         IN /\ x.pc \in StagePoints /\ sub.kind = "relations" /\ Tables(store)
            /\ RelationsAt(store, x.pc, x.local) /\ x.local \in Locals
            /\ \A s, c : BehindIn(s, sub, e, c)
            /\ \A s, l, c : \A to \in RelationPoints :
                 RelationsAt(s, to, l) => Work(s, to, l, c, sub, e)
<1> DEFINE x == workers[w]
           sub == jobs[x.job].sub
           e == x.job \in early
<1>1. x.pc \in StagePoints /\ x.pc \in PointsOf["relations"]
  BY DEF RelationPoints, PointsOf, StagePoints, MetadataPoints
<1>2. /\ AInv /\ x.local \in Locals /\ sub = JobOf(w).sub /\ Tables(store)
      /\ Work(store, x.pc, x.local, x.saved, sub, e)
  BY <1>1, Doing
<1>3. sub.kind = "relations"
  BY <1>1, <1>2, KindAt
<1>4. RelationsAt(store, x.pc, x.local)
  BY <1>2, WorkOfStages
<1> HIDE DEF x, sub, e
<1>5. \A s, c : BehindIn(s, sub, e, c)
  BY <1>3 DEF BehindIn
<1>6. \A s, l, c : \A to \in RelationPoints : RelationsAt(s, to, l) => Work(s, to, l, c, sub, e)
  BY <1>5, WorkOfStages
<1> QED
  BY <1>1, <1>2, <1>3, <1>4, <1>5, <1>6 DEF x, sub, e

\* The evidence of a sweep: numbers, and no two at one place.
LEMMA EvidenceFacts ==
  ASSUME NEW n \in Sweeps
  PROVE  /\ n \in 1 .. 3 /\ Sweeps = 1 .. 3
         /\ \A r \in Evidence[n] : r.at \in Nat \ {0} /\ r.place \in Nat \ {0}
         /\ \A r, q \in Evidence[n] : r.place = q.place => r = q
         /\ \A s, after : FoundIn(s, n, after) \subseteq Evidence[n]
BY MetadataAssumption DEF Relations, FoundIn

\* Nothing is found yet when a sweep begins, and all of it when none is left.
LEMMA SweepBegins ==
  ASSUME NEW s, NEW n \in Sweeps
  PROVE  SemanticIn(s, n, 0, {}) = UNION {FoundIn(s, q, 0) : q \in 1 .. n - 1}
<1>1. \A r \in FoundIn(s, n, 0) : ~(r.at <= 0)
  BY EvidenceFacts DEF FoundIn
<1> QED
  BY <1>1 DEF SemanticIn

LEMMA SweepEnds ==
  ASSUME NEW s, NEW n \in Sweeps, NEW c \in Nat, FoundIn(s, n, c) = {}
  PROVE  SemanticIn(s, n, c, {}) = UNION {FoundIn(s, q, 0) : q \in 1 .. n}
<1>1. \A r \in FoundIn(s, n, 0) : r.at <= c
  <2>1. \A r \in FoundIn(s, n, 0) : r.at > c => r \in FoundIn(s, n, c)
    BY DEF FoundIn
  <2> QED
    BY <2>1, EvidenceFacts
<1>2. SemanticIn(s, n, c, {}) = (UNION {FoundIn(s, q, 0) : q \in 1 .. n - 1}) \cup FoundIn(s, n, 0)
  BY <1>1 DEF SemanticIn
<1>3. 1 .. n = (1 .. n - 1) \cup {n}
  BY EvidenceFacts
<1> QED
  BY <1>2, <1>3

\* A page: what is left of the sweep is behind it, at another path.
LEMMA PageHolds ==
  ASSUME PagesHold, NEW s, NEW n \in Sweeps, NEW c \in Nat
  PROVE  LET places == {r.place : r \in FoundIn(s, n, c)}
             page == First(RelatedPageSize, places)
         IN \A q \in Evidence[n] : q.place \in page =>
              \A r \in FoundIn(s, n, c) : r.place \in page \/ r.at > q.at
<1> DEFINE found == FoundIn(s, n, c)
           places == {r.place : r \in found}
           page == First(RelatedPageSize, places)
<1>1. /\ found \subseteq Evidence[n] /\ RelatedPageSize \in Nat \ {0}
      /\ \A r \in Evidence[n] : r.at \in Nat \ {0} /\ r.place \in Nat \ {0}
  BY EvidenceFacts, MetadataAssumption
<1>2. places \in SUBSET Nat
  BY <1>1
<1>3. /\ page \subseteq places
      /\ \A p \in page, q \in places : q <= p => q \in page
  BY <1>1, <1>2, FirstPage
<1>4. CASE \A r, q \in Evidence[n] : r.place < q.place => r.at < q.at
  <2> HIDE DEF page
  <2>1. ASSUME NEW q \in Evidence[n], q.place \in page, NEW r \in found, r.place \notin page
        PROVE  r.at > q.at
    <3>1. ~(r.place <= q.place)
      BY <1>3, <2>1
    <3>2. q.place < r.place
      BY <1>1, <2>1, <3>1
    <3> QED
      BY <1>1, <1>4, <2>1, <3>2
  <2> QED
    BY <2>1 DEF page
<1>5. CASE IsFiniteSet(Evidence[n]) /\ Cardinality(Evidence[n]) <= RelatedPageSize
  <2>1. IsFiniteSet(found) /\ Cardinality(found) <= Cardinality(Evidence[n])
    BY <1>1, <1>5, FS_Subset
  <2>2. IsFiniteSet(places) /\ Cardinality(places) <= Cardinality(found)
    <3>1. [r \in found |-> r.place] \in Surjection(found, places)
      BY DEF Surjection
    <3> HIDE DEF places, found
    <3> QED
      BY <2>1, <3>1, FS_Surjection
  <2>3. ASSUME NEW p \in places PROVE p \in page
    <3>1. {g \in places : g <= p} \subseteq places
      OBVIOUS
    <3>2. /\ IsFiniteSet({g \in places : g <= p})
          /\ Cardinality({g \in places : g <= p}) <= Cardinality(places)
      BY <2>2, <3>1, FS_Subset
    <3>3. /\ Cardinality({g \in places : g <= p}) \in Nat /\ Cardinality(places) \in Nat
          /\ Cardinality(found) \in Nat /\ Cardinality(Evidence[n]) \in Nat
      BY <1>5, <2>1, <2>2, <3>2, FS_CardinalityType
    <3>4. Cardinality({g \in places : g <= p}) <= RelatedPageSize
      <4> HIDE DEF places, found
      <4> QED
        BY <1>1, <1>5, <2>1, <2>2, <3>2, <3>3
    <3> QED
      BY <3>4 DEF First
  <2> QED
    BY <2>3
<1> QED
  BY <1>4, <1>5 DEF PagesHold

LEMMA RelationsBegin ==
  ASSUME NEW w \in Workers, DInv(w), OnlyStages,
         BeginRelations(w) \/ clearSemanticAnalysis(w) \/ ReportRelations(w)
  PROVE  Does(w)
<1> DEFINE x == workers[w]
           l == x.local
           sub == jobs[x.job].sub
           e == x.job \in early
<1>1. x.pc \in RelationPoints /\ AInv
  BY DEF BeginRelations, clearSemanticAnalysis, ReportRelations, Report, At, RelationPoints, DInv
<1>2. /\ x.pc \in StagePoints /\ Tables(store) /\ RelationsAt(store, x.pc, l)
      /\ \A s, local, c : \A to \in RelationPoints :
           RelationsAt(s, to, local) => Work(s, to, local, c, sub, e)
  BY <1>1, Relating
<1>3. CASE BeginRelations(w)
  <2>1. UNCHANGED store /\ Goes(w, "relClear", l)
    BY <1>1, <1>3, BeginRelationsSteps
  <2>2. Work(store, "relClear", l, x.saved, sub, e)
    BY <1>2 DEF RelationsAt, RelationPoints
  <2> QED
    BY <1>2, <2>1, <2>2, DoneSteps
<1>4. CASE clearSemanticAnalysis(w)
  <2> DEFINE next == workers'[w].local
  <2>1. /\ store' = [store EXCEPT !.semantic = {}]
        /\ Moves(w, "relPage", next) /\ next.last = 1 /\ next.cursor = 0
    BY <1>1, <1>4, clearSemanticAnalysisSteps
  <2> HIDE DEF next
  <2>2. store'.semantic = {}
    BY <1>2, <2>1 DEF Tables, IsStore
  <2>3. 1 \in Sweeps /\ 1 .. 1 - 1 = {}
    BY MetadataAssumption
  <2>4. SemanticIn(store', 1, 0, {}) = {}
    BY <2>3, SweepBegins
  <2>5. RelationsAt(store', "relPage", next)
    BY <2>1, <2>2, <2>4 DEF RelationsAt
  <2>6. Work(store', "relPage", next, x.saved, sub, e)
    BY <1>2, <2>5 DEF RelationPoints
  <2> QED
    BY <1>2, <2>1, <2>6, DoneSteps
<1>5. CASE ReportRelations(w)
  <2>1. x.pc = "relGroup" /\ UNCHANGED store /\ l.page = {} /\ Goes(w, "relPage", l)
    BY <1>1, <1>5, ReportRelationsSteps
  <2>2. RelationsAt(store, "relPage", l)
    BY <1>2, <2>1 DEF RelationsAt
  <2>3. Work(store, "relPage", l, x.saved, sub, e)
    BY <1>2, <2>2 DEF RelationPoints
  <2> QED
    BY <1>2, <2>1, <2>3, DoneSteps
<1> QED
  BY <1>3, <1>4, <1>5

LEMMA RelationsPaged ==
  ASSUME NEW w \in Workers, DInv(w), OnlyStages, PagesHold, RelationPage(w)
  PROVE  Does(w)
<1> DEFINE x == workers[w]
           l == x.local
           n == l.last
           c == l.cursor
           sub == jobs[x.job].sub
           e == x.job \in early
           found == FoundIn(store, n, c)
           places == {r.place : r \in found}
           holds(page) == \A q \in Evidence[n] : q.place \in page =>
                            \A r \in found : r.place \in page \/ r.at > q.at
<1>1. x.pc = "relPage" /\ x.pc \in RelationPoints /\ AInv
  BY DEF RelationPage, At, RelationPoints, DInv
<1>2. /\ x.pc \in StagePoints /\ Tables(store) /\ RelationsAt(store, x.pc, l)
      /\ sub.kind = "relations" /\ BehindIn(store, sub, e, x.saved)
      /\ \A s, local, b : \A to \in RelationPoints :
           RelationsAt(s, to, local) => Work(s, to, local, b, sub, e)
  BY <1>1, Relating
<1>3. PICK next \in Locals :
        /\ UNCHANGED store /\ l \in Locals /\ n \in 1 .. 3
        /\ \/ /\ Goes(w, "relGroup", next)
              /\ next.last = n /\ next.cursor = c
              /\ next.page \subseteq places
              /\ next.page = First(RelatedPageSize, places)
           \/ /\ found = {} /\ n < 3 /\ Goes(w, "relPage", next)
              /\ next.last = n + 1 /\ next.cursor = 0
           \/ /\ found = {} /\ n = 3 /\ Goes(w, "finish", next)
  BY <1>1, RelationPageSteps, FoundNow
<1>4. store.semantic = SemanticIn(store, n, c, {})
  BY <1>1, <1>2 DEF RelationsAt
<1>5. n \in Sweeps /\ c \in Nat /\ Sweeps = 1 .. 3
  BY <1>3, MetadataAssumption DEF Locals
<1>6. \A to, local : Goes(w, to, local) /\ UNCHANGED store /\ Work(store, to, local, x.saved, sub, e)
        => Does(w)
  BY <1>2, DoneSteps
<1> HIDE DEF l, n, c
<1>7. CASE /\ Goes(w, "relGroup", next)
           /\ next.last = n /\ next.cursor = c
           /\ next.page \subseteq places
           /\ next.page = First(RelatedPageSize, places)
  <2>1. holds(next.page)
    <3>1. holds(First(RelatedPageSize, places))
      BY <1>5, PageHolds
    <3> HIDE DEF holds
    <3> QED
      BY <1>7, <3>1
  <2>2. ASSUME NEW r \in Evidence[n], r.place \in next.page PROVE r \in found
    <3>1. PICK q \in found : q.place = r.place
      BY <1>7, <2>2
    <3>2. q = r
      BY <1>5, <2>2, <3>1, EvidenceFacts
    <3> QED
      BY <3>1, <3>2
  <2>3. /\ found \subseteq FoundIn(store, n, 0) /\ found \subseteq Evidence[n]
        /\ FoundIn(store, n, 0) \subseteq Evidence[n]
        /\ \A r \in found : r.at > c /\ r.at \in Nat
        /\ \A r \in FoundIn(store, n, 0) : r.at \in Nat
    <3>1. \A r \in found : r.at > c /\ r \in Evidence[n]
      BY DEF FoundIn
    <3>2. \A r \in Evidence[n] : r.at \in Nat /\ r.at > 0
      BY <1>5, EvidenceFacts
    <3>3. found \subseteq FoundIn(store, n, 0) /\ FoundIn(store, n, 0) \subseteq Evidence[n]
      BY <3>2 DEF FoundIn
    <3> QED
      BY <3>1, <3>2, <3>3
  <2>4. SemanticIn(store, n, c, next.page) = SemanticIn(store, n, c, {})
    <3>1. \A r \in FoundIn(store, n, 0) : r.at <= c => r.place \notin next.page
      <4>1. \A r \in found : ~(r.at <= c)
        BY <1>5, <2>3
      <4> QED
        BY <2>2, <2>3, <4>1
    <3> QED
      BY <3>1 DEF SemanticIn
  <2>5. next.page \subseteq {r.place : r \in FoundIn(store, n, 0)}
    BY <1>7, <2>3
  <2>6. \A r \in Evidence[n] : r.place \in next.page => r.at >= c
    BY <1>5, <2>2, <2>3
  <2>7. RelationsAt(store, "relGroup", next)
    BY <1>4, <1>7, <2>1, <2>4, <2>5, <2>6 DEF RelationsAt
  <2>8. Work(store, "relGroup", next, x.saved, sub, e)
    BY <1>2, <2>7 DEF RelationPoints
  <2> QED
    BY <1>3, <1>6, <1>7, <2>8
<1>8. CASE /\ found = {} /\ n < 3 /\ Goes(w, "relPage", next)
           /\ next.last = n + 1 /\ next.cursor = 0
  <2>1. store.semantic = UNION {FoundIn(store, q, 0) : q \in 1 .. n}
    BY <1>4, <1>5, <1>8, SweepEnds
  <2>2. n + 1 \in Sweeps /\ (n + 1) - 1 = n
    BY <1>5, <1>8
  <2>3. SemanticIn(store, n + 1, 0, {}) = UNION {FoundIn(store, q, 0) : q \in 1 .. n}
    BY <2>2, SweepBegins
  <2>4. RelationsAt(store, "relPage", next)
    BY <1>8, <2>1, <2>3 DEF RelationsAt
  <2>5. Work(store, "relPage", next, x.saved, sub, e)
    BY <1>2, <2>4 DEF RelationPoints
  <2> QED
    BY <1>3, <1>6, <1>8, <2>5
<1>9. CASE found = {} /\ n = 3 /\ Goes(w, "finish", next)
  <2>1. store.semantic = UNION {FoundIn(store, q, 0) : q \in Sweeps}
    BY <1>4, <1>5, <1>9, SweepEnds
  <2>2. DoneIn(store, sub, e)
    BY <1>2, <2>1 DEF DoneIn
  <2>3. Work(store, "finish", next, x.saved, sub, e)
    BY <1>2, <2>2, WorkOfStages
  <2> QED
    BY <1>3, <1>6, <1>9, <2>3
<1> QED
  BY <1>3, <1>7, <1>8, <1>9

\* A group that was found, and then what it says of its files.
LEMMA ContextWritten ==
  ASSUME IsStore(store), DOMAIN store.files = Files, NEW S,
         \/ UNCHANGED store
         \/ store' = [store EXCEPT !.files = [f \in Files |->
                        IF f \in S /\ store.files[f] = "unsure" THEN "confident" ELSE store.files[f]]]
  PROVE  /\ Grown(store, store') /\ store'.hashes = store.hashes /\ store'.groups = store.groups
         /\ store'.results = store.results /\ store'.semantic = store.semantic
         /\ DOMAIN store'.files = Files /\ \A f \in Files : MediaKept(store, store', f)
         /\ \A f \in Files : (store'.files[f] = "none") <=> (store.files[f] = "none")
<1>1. CASE UNCHANGED store
  BY <1>1 DEF Grown, MediaKept
<1>2. CASE store' = [store EXCEPT !.files = [f \in Files |->
                       IF f \in S /\ store.files[f] = "unsure" THEN "confident" ELSE store.files[f]]]
  <2>1. /\ store'.hashes = store.hashes /\ store'.unhashed = store.unhashed
        /\ store'.reviews = store.reviews /\ store'.groups = store.groups
        /\ store'.results = store.results /\ store'.semantic = store.semantic
        /\ store'.files = [f \in Files |->
             IF f \in S /\ store.files[f] = "unsure" THEN "confident" ELSE store.files[f]]
    BY <1>2 DEF IsStore
  <2> QED
    BY <2>1 DEF Grown, MediaKept
<1> QED
  BY <1>1, <1>2

LEMMA SavesRelation ==
  ASSUME NEW w \in Workers, DInv(w), OnlyStages, saveSemanticGroup(w)
  PROVE  Does(w)
<1> DEFINE x == workers[w]
           l == x.local
           sub == jobs[x.job].sub
           e == x.job \in early
<1>1. x.pc = "relGroup" /\ x.pc \in RelationPoints /\ AInv
  BY DEF saveSemanticGroup, At, RelationPoints, DInv
<1>2. /\ x.pc \in StagePoints /\ Tables(store) /\ RelationsAt(store, x.pc, l)
      /\ \A s, local, b : \A to \in RelationPoints :
           RelationsAt(s, to, local) => Work(s, to, local, b, sub, e)
  BY <1>1, Relating
<1>3. /\ store' = [store EXCEPT !.semantic = store.semantic \cup {FirstRelation(l)}]
      /\ Moves(w, "relContext", l)
  <2>1. Current(w) = FirstRelation(l)
    BY DEF Current, FirstRelation, Sweep, Local
  <2> QED
    BY <1>1, <2>1, saveSemanticGroupSteps
<1> HIDE DEF l
<1>4. store'.semantic = store.semantic \cup {FirstRelation(l)} /\ store'.files = store.files
  BY <1>2, <1>3 DEF Tables, IsStore
<1>5. /\ \A n, after : FoundIn(store', n, after) = FoundIn(store, n, after)
      /\ \A n, c, page : SemanticIn(store', n, c, page) = SemanticIn(store, n, c, page)
  BY <1>4, FoundSame
<1>6. RelationsAt(store', "relContext", l)
  BY <1>1, <1>2, <1>4, <1>5 DEF RelationsAt
<1>7. Work(store', "relContext", l, x.saved, sub, e)
  BY <1>2, <1>6 DEF RelationPoints
<1> QED
  BY <1>2, <1>3, <1>7, DoneSteps

\* What is found depends on which files have been understood, and not on how.
LEMMA FoundUnderstood ==
  ASSUME NEW s, NEW t, \A f \in Files : (t.files[f] = "none") <=> (s.files[f] = "none")
  PROVE  \A n \in Sweeps :
           /\ \A after : FoundIn(t, n, after) = FoundIn(s, n, after)
           /\ \A c, page : SemanticIn(t, n, c, page) = SemanticIn(s, n, c, page)
<1>1. \A m \in Sweeps : \A q \in Evidence[m] : q.needs \subseteq Files
  BY MetadataAssumption DEF Relations
<1>2. \A n \in Sweeps : \A after : FoundIn(t, n, after) = FoundIn(s, n, after)
  BY <1>1 DEF FoundIn
<1>3. \A n \in Sweeps : \A q \in 1 .. n - 1 : q \in Sweeps
  BY MetadataAssumption
<1>4. ASSUME NEW n \in Sweeps, NEW c, NEW page
      PROVE  SemanticIn(t, n, c, page) = SemanticIn(s, n, c, page)
  BY <1>2, <1>3 DEF SemanticIn
<1> QED
  BY <1>2, <1>4

LEMMA AppliesContext ==
  ASSUME NEW w \in Workers, DInv(w), OnlyStages, PagesHold, applyGroupContext(w)
  PROVE  Does(w)
<1> DEFINE x == workers[w]
           l == x.local
           n == l.last
           c == l.cursor
           r == Current(w)
           next == workers'[w].local
           sub == jobs[x.job].sub
           e == x.job \in early
           all == FoundIn(store, n, 0)
<1>1. x.pc = "relContext" /\ x.pc \in RelationPoints /\ AInv /\ RowsInv
  BY DEF applyGroupContext, At, RelationPoints, DInv
<1>2. /\ x.pc \in StagePoints /\ Tables(store) /\ RelationsAt(store, x.pc, l)
      /\ \A s, local, b : \A to \in RelationPoints :
           RelationsAt(s, to, local) => Work(s, to, local, b, sub, e)
  BY <1>1, Relating
<1>3. /\ l.page # {}
      /\ store' = IF l.last = 2 THEN store ELSE
           [store EXCEPT !.files = [f \in Files |->
              IF f \in Current(w).members /\ store.files[f] = "unsure"
              THEN "confident" ELSE store.files[f]]]
      /\ Moves(w, "relGroup", next)
      /\ next.last = n /\ next.cursor = r.at /\ next.page = l.page \ {r.place}
  BY <1>1, applyGroupContextSteps
<1>4. /\ n \in Sweeps /\ c \in Nat
      /\ r \in Evidence[n] /\ r.place \in l.page /\ \A p \in l.page : r.place <= p
      /\ r.place \in Nat \ {0} /\ r.at \in Nat \ {0}
  BY <1>1, <1>3, CurrentFacts DEF Locals
<1>5. r = FirstRelation(l)
  BY DEF Current, FirstRelation, Sweep, Local
<1>6. /\ store'.semantic = store.semantic
      /\ \A after : FoundIn(store', n, after) = FoundIn(store, n, after)
      /\ \A b, page : SemanticIn(store', n, b, page) = SemanticIn(store, n, b, page)
  <2>1. IsStore(store) /\ DOMAIN store.files = Files
    BY <1>1, <1>2 DEF Tables, RowsInv
  <2>2. /\ store'.semantic = store.semantic
        /\ \A f \in Files : (store'.files[f] = "none") <=> (store.files[f] = "none")
    BY <1>3, <2>1, ContextWritten
  <2> QED
    BY <1>4, <2>2, FoundUnderstood
<1> HIDE DEF l, n, c, r, next, all
<1>7. /\ store.semantic = SemanticIn(store, n, c, l.page) \cup {r}
      /\ l.page \subseteq {q.place : q \in all}
      /\ \A q \in Evidence[n] : q.place \in l.page => q.at >= c
      /\ \A q \in Evidence[n] : q.place \in l.page =>
           \A t \in FoundIn(store, n, c) : t.place \in l.page \/ t.at > q.at
  BY <1>1, <1>2, <1>5 DEF RelationsAt, n, c, all
<1>8. /\ all \subseteq Evidence[n]
      /\ \A q \in Evidence[n] : q.at \in Nat \ {0} /\ q.place \in Nat \ {0}
      /\ \A p, q \in Evidence[n] : p.place = q.place => p = q
  BY <1>4, EvidenceFacts DEF all
<1>9. r \in all /\ r.at >= c
  <2>1. PICK q \in all : q.place = r.place
    BY <1>4, <1>7
  <2> QED
    BY <1>4, <1>7, <1>8, <2>1
<1>10. \A q \in all : q.at > c => q \in FoundIn(store, n, c)
  BY DEF FoundIn, all
<1>11. \A q \in all : (q.at <= r.at /\ q.place \notin next.page)
                        <=> (q.at <= c /\ q.place \notin l.page) \/ q = r
  <2>1. ASSUME NEW q \in all, q.at <= r.at, q.place \notin next.page, q # r
        PROVE  q.at <= c /\ q.place \notin l.page
    <3>1. q.place \notin l.page
      BY <1>3, <1>4, <1>8, <2>1
    <3>2. q.at \in Nat
      BY <1>8
    <3>3. q.at > c => q.at > r.at
      BY <1>4, <1>7, <1>10, <3>1
    <3> QED
      BY <1>4, <2>1, <3>1, <3>2, <3>3
  <2>2. ASSUME NEW q \in all, q.at <= c, q.place \notin l.page
        PROVE  q.at <= r.at /\ q.place \notin next.page
    <3>1. q.at \in Nat
      BY <1>8
    <3> QED
      BY <1>3, <1>4, <1>9, <2>2, <3>1
  <2>3. r.at <= r.at /\ r.place \notin next.page
    BY <1>3, <1>4
  <2> QED
    BY <2>1, <2>2, <2>3
<1>12. store.semantic = SemanticIn(store, n, r.at, next.page)
  <2>1. {q \in all : q.at <= r.at /\ q.place \notin next.page}
          = {q \in all : q.at <= c /\ q.place \notin l.page} \cup {r}
    BY <1>9, <1>11
  <2>2. \A b, page : SemanticIn(store, n, b, page) =
          (UNION {FoundIn(store, m, 0) : m \in 1 .. n - 1})
            \cup {q \in all : q.at <= b /\ q.place \notin page}
    BY DEF SemanticIn, all
  <2> HIDE DEF all
  <2> QED
    BY <1>7, <2>1, <2>2
<1>13. \A q \in Evidence[n] : q.place \in next.page => q.at >= r.at
  <2>1. ASSUME NEW q \in Evidence[n], q.place \in next.page PROVE q.at >= r.at
    <3>1. r.place < q.place
      BY <1>3, <1>4, <1>8, <2>1
    <3>2. r.at <= q.at
      BY <1>4, <2>1, <3>1 DEF PagesHold
    <3> QED
      BY <1>4, <1>8, <3>2
  <2> QED
    BY <2>1
<1>14. ASSUME NEW q \in Evidence[n], q.place \in next.page, NEW t \in FoundIn(store, n, r.at)
       PROVE  t.place \in next.page \/ t.at > q.at
  <2>1. t \in Evidence[n] /\ t.at > r.at /\ t \in FoundIn(store, n, c)
    <3>1. t \in Evidence[n] /\ t.at > r.at
      BY DEF FoundIn
    <3>2. t.at > c
      BY <1>4, <1>8, <1>9, <3>1
    <3> QED
      BY <3>1, <3>2 DEF FoundIn
  <2>2. t # r
    BY <1>4, <2>1
  <2> QED
    BY <1>3, <1>4, <1>7, <1>8, <1>14, <2>1, <2>2
<1>15. RelationsAt(store', "relGroup", next)
  <2>1. next.page \subseteq {q.place : q \in FoundIn(store', n, 0)}
    BY <1>3, <1>6, <1>7 DEF all
  <2>2. \A q \in Evidence[n] : q.place \in next.page =>
          \A t \in FoundIn(store', n, r.at) : t.place \in next.page \/ t.at > q.at
    BY <1>6, <1>14
  <2>3. store'.semantic = SemanticIn(store', n, r.at, next.page)
    BY <1>6, <1>12
  <2> QED
    BY <1>3, <1>13, <2>1, <2>2, <2>3 DEF RelationsAt
<1>16. Work(store', "relGroup", next, x.saved, sub, e)
  BY <1>2, <1>15 DEF RelationPoints
<1> QED
  BY <1>2, <1>3, <1>16, DoneSteps

\* Every step of a handler leaves behind its job's checkpoint what is to be there.
LEMMA HandlerDoes ==
  ASSUME NEW w \in Workers, DInv(w), OnlyStages, PagesHold, IdentityMoves(w) \/ MetadataMoves(w)
  PROVE  Does(w)
<1>1. CASE IdentityMoves(w)
  <2>1. ASSUME NEW f \in Files, StartFile(w, f) \/ FinishFile(w, f) PROVE Does(w)
    BY <2>1, HashesFiles
  <2> QED
    BY <1>1, <2>1, HashBegins, HashSaves, GroupsBegin, ClearsGroups, GroupsPaged, WritesGroup,
       AsksForKeeper, GroupsSave
       DEF IdentityMoves, GroupMoves
<1>2. CASE MetadataMoves(w)
  <2>1. ASSUME NEW f \in Files, StartTask(w, f) \/ FinishTask(w, f) PROVE Does(w)
    BY <2>1, AnalysesFiles
  <2> QED
    BY <1>2, <2>1, MediaBegins, SavesResult, SavesUnderstanding, CreatesReviews, MediaSaves,
       RelationsBegin, RelationsPaged, SavesRelation, AppliesContext
       DEF MetadataMoves
<1> QED
  BY <1>1, <1>2

-----------------------------------------------------------------------------
(* What a handler leaves alone: each kind of job has tables of its own.    *)

Wrote(s, t, kind) ==
  /\ Grown(s, t)
  /\ kind # "detect" => SameMembers(s, t, "candidate")
  /\ kind # "hash" => SameMembers(s, t, "exact") /\ t.hashes = s.hashes
  /\ kind # "media" => \A f \in Files : MediaKept(s, t, f)
  /\ DOMAIN t.results = Files /\ DOMAIN t.files = Files

Writes(w) ==
  \/ UNCHANGED store
  \/ Wrote(store, store', jobs[workers[w].job].sub.kind) /\ workers'[w].pc \in BusyPoints

LEMMA BusyStages == StagePoints \subseteq BusyPoints
BY DEF BusyPoints

LEMMA SameWrites ==
  ASSUME RowsInv, Grown(store, store'), SameAnalysis, NEW kind, kind # "hash" => store'.hashes = store.hashes
  PROVE  Wrote(store, store', kind)
BY SameFiles DEF Wrote, RowsInv, SameAnalysis

LEMMA IdentityWrites ==
  ASSUME NEW w \in Workers, DInv(w), OnlyStages, IdentityMoves(w)
  PROVE  Writes(w) /\ workers[w].pc \in StagePoints
<1> DEFINE x == workers[w]
           kind == jobs[x.job].sub.kind
<1>1. AInv /\ RowsInv /\ Tables(store)
  BY DEF DInv, AInv
<1>2. CASE BeginHash(w) \/ HashPage(w) \/ HashChunk(w) \/ SaveHashed(w) \/ ReportHashed(w)
           \/ HashingDone(w) \/ BeginDetect(w) \/ SaveCleared(w) \/ GroupPage(w)
           \/ SaveGroups(w) \/ ReportGroups(w)
  BY <1>2 DEF BeginHash, HashPage, HashChunk, SaveHashed, ReportHashed, HashingDone, BeginDetect,
              SaveCleared, GroupPage, SaveGroups, ReportGroups, Begin, Save, Report, At, Writes,
              StagePoints, IdentityPoints
<1>3. ASSUME NEW f \in Files, StartFile(w, f) \/ FinishFile(w, f)
      PROVE  Writes(w) /\ x.pc \in StagePoints
  <2>1. /\ x.pc = "hashFiles" /\ SameAnalysis /\ Grown(store, store')
        /\ workers'[w].pc = "hashFiles"
    BY <1>1, <1>3, FileWrites DEF Moves
  <2>2. x.pc \in HashPoints /\ "hashFiles" \in BusyPoints /\ x.pc \in StagePoints
    BY <2>1 DEF HashPoints, BusyPoints, StagePoints, IdentityPoints
  <2>3. kind = "hash"
    BY <2>2, Hashing
  <2> QED
    BY <1>1, <2>1, <2>2, <2>3, SameWrites DEF Writes
<1>4. ASSUME Clear(w) \/ UpsertGroup(w), ~UNCHANGED store
      PROVE  Writes(w) /\ x.pc \in StagePoints
  <2>1. x.pc \in {"clear", "group"} /\ x.pc \in GroupPoints \cup {"detect"}
    BY <1>4 DEF Clear, UpsertGroup, At, GroupPoints
  <2>2. x.pc \in StagePoints /\ kind \in {"detect", "hash"} /\ jobs[x.job].sub = JobOf(w).sub
        /\ GroupKind(kind) \in GroupKinds
    BY <2>1, Grouping
  <2>3. /\ \/ clearDuplicateGroups(GroupKind(kind))
           \/ \E k \in Keys[GroupKind(kind)] : store' = upsertGroup(GroupKind(kind), k)
        /\ workers'[w].pc \in {"cleared", "group"}
    BY <1>1, <1>4, <2>2, ClearSteps, UpsertGroupSteps DEF Moves
  <2> HIDE DEF kind
  <2>4. /\ Grown(store, store') /\ store'.hashes = store.hashes
        /\ store'.results = store.results /\ store'.files = store.files
        /\ \A other \in GroupKinds \ {GroupKind(kind)} : SameMembers(store, store', other)
    BY <1>1, <2>2, <2>3, GroupsWritten
  <2>5. /\ kind # "detect" => "candidate" \in GroupKinds \ {GroupKind(kind)}
        /\ kind # "hash" => "exact" \in GroupKinds \ {GroupKind(kind)}
    BY <2>2 DEF GroupKind, GroupKinds
  <2>6. Wrote(store, store', kind)
    BY <1>1, <2>4, <2>5 DEF Wrote, MediaKept, RowsInv
  <2>7. workers'[w].pc \in BusyPoints
    BY <2>3 DEF BusyPoints, StagePoints, IdentityPoints
  <2> QED
    BY <2>2, <2>6, <2>7 DEF Writes, kind
<1>5. CASE AskForKeeper(w)
  <2>1. x.pc = "group" /\ x.pc \in GroupPoints \cup {"detect"}
    BY <1>5 DEF AskForKeeper, At, GroupPoints
  <2>2. /\ x.pc \in StagePoints /\ kind \in {"detect", "hash"} /\ jobs[x.job].sub = JobOf(w).sub
        /\ GroupAt(store, x.pc, x.local, x.saved, jobs[x.job].sub)
    BY <2>1, Grouping
  <2>3. /\ x.local.cursor # 0 /\ x.local.page \subseteq Keys[GroupKind(kind)]
        /\ store' = [store EXCEPT
             !.reviews = createNeedsReview(store.reviews, <<"keeper", x.local.cursor>>)]
        /\ workers'[w].pc = "group"
    BY <1>1, <1>5, <2>2, AskForKeeperSteps DEF Moves
  <2>4. GroupKind(kind) = "exact" /\ x.local.cursor \in Digests
    BY <2>1, <2>2, <2>3, KindsOfGroups DEF GroupAt
  <2>5. Grown(store, store') /\ store'.hashes = store.hashes /\ SameAnalysis
    BY <1>1, <2>3, <2>4, OneRaised DEF ReviewKeys
  <2>6. workers'[w].pc \in BusyPoints
    BY <2>3 DEF BusyPoints, StagePoints, IdentityPoints
  <2> QED
    BY <1>1, <2>2, <2>5, <2>6, SameWrites DEF Writes
<1>6. CASE UNCHANGED store /\ (Clear(w) \/ UpsertGroup(w))
  BY <1>6 DEF Clear, UpsertGroup, At, Writes, StagePoints, IdentityPoints
<1> QED
  BY <1>2, <1>3, <1>4, <1>5, <1>6 DEF IdentityMoves, GroupMoves

LEMMA MetadataWrites ==
  ASSUME NEW w \in Workers, DInv(w), OnlyStages, MetadataMoves(w)
  PROVE  Writes(w) /\ workers[w].pc \in StagePoints
<1> DEFINE x == workers[w]
           kind == jobs[x.job].sub.kind
<1>1. /\ AInv /\ RowsInv /\ Tables(store) /\ IsStore(store)
      /\ DOMAIN store.results = Files /\ DOMAIN store.files = Files
  BY DEF DInv, AInv, Tables, RowsInv
<1>2. CASE BeginMedia(w) \/ MediaPage(w) \/ MediaApproved(w) \/ MediaChunk(w) \/ SaveAnalyzed(w)
           \/ ReportAnalyzed(w) \/ BeginRelations(w) \/ RelationPage(w) \/ ReportRelations(w)
  BY <1>2 DEF BeginMedia, MediaPage, MediaApproved, MediaChunk, SaveAnalyzed, ReportAnalyzed,
              BeginRelations, RelationPage, ReportRelations, ChunkAnalyzed, Begin, Save, Report,
              At, Writes, StagePoints, MetadataPoints
<1>3. ASSUME x.pc = "mediaFiles"
      PROVE  /\ x.pc \in StagePoints /\ x.pc \in BusyPoints /\ kind = "media"
             /\ MediaAt(store, "mediaFiles", x.local, x.saved)
  <2>1. x.pc \in MediaPoints
    BY <1>3 DEF MediaPoints
  <2> QED
    BY <1>3, <2>1, Analysing DEF BusyPoints
<1>4. ASSUME NEW f \in Files, StartTask(w, f) \/ FinishTask(w, f)
      PROVE  Writes(w) /\ x.pc \in StagePoints
  <2>1. /\ x.pc = "mediaFiles" /\ workers'[w].pc = "mediaFiles"
        /\ UNCHANGED store \/ createSourceFailure(f)
    BY <1>1, <1>4, StartTaskSteps, FinishTaskSteps DEF Moves
  <2>2. createSourceFailure(f) =>
          Grown(store, store') /\ store'.hashes = store.hashes /\ SameAnalysis
    BY <1>1, SourceFailure
  <2> QED
    BY <1>1, <1>3, <2>1, <2>2, SameWrites DEF Writes
<1>5. CASE saveAnalyzerResult(w)
  <2> DEFINE o == NextOutcome(w)
             result == IF o.result = "reused" THEN Reusable(o.file) ELSE o.result
  <2>1. /\ x.pc = "mediaFiles" /\ workers'[w].pc = "mediaFiles"
        /\ x.local.todo = {} /\ x.local.reading = {} /\ x.local.done # {}
        /\ store' = [store EXCEPT !.results[o.file] = result]
    BY <1>1, <1>5, saveAnalyzerResultSteps DEF Moves
  <2>2. o \in x.local.done /\ o \in TaskAnalysis /\ o.file \in Files
    BY <2>1, Outcome
  <2>3. result # "none"
    <3>1. o.result \in {"ok", "reused", "failed"}
      BY <2>2 DEF TaskAnalysis
    <3>2. o.result = "reused" => store.results[o.file] # "none" \/ Earlier[o.file] # "none"
      BY <1>3, <2>1, <2>2 DEF MediaAt
    <3> QED
      BY <3>1, <3>2 DEF Reusable
  <2> HIDE DEF o, result
  <2>4. /\ Grown(store, store') /\ store'.hashes = store.hashes /\ store'.groups = store.groups
        /\ store'.files = store.files /\ DOMAIN store'.results = Files
    BY <1>1, <2>1, <2>2, <2>3, ResultWritten
  <2>5. Wrote(store, store', "media")
    BY <1>1, <2>4 DEF Wrote, SameMembers
  <2> QED
    BY <1>3, <2>1, <2>5 DEF Writes
<1>6. CASE saveUnderstanding(w)
  <2> DEFINE o == NextOutcome(w)
             u == IF o.unsure THEN "unsure" ELSE "confident"
  <2>1. /\ x.pc = "mediaFiles" /\ workers'[w].pc = "mediaFiles"
        /\ x.local.todo = {} /\ x.local.reading = {} /\ x.local.cursor = 1
        /\ store' = [store EXCEPT !.files[o.file] = u]
    BY <1>1, <1>6, saveUnderstandingSteps DEF Moves
  <2>2. o.file \in Files
    BY <1>3, <2>1, Outcome DEF MediaAt
  <2> HIDE DEF o, u
  <2>3. /\ Grown(store, store') /\ store'.hashes = store.hashes /\ store'.groups = store.groups
        /\ store'.results = store.results /\ DOMAIN store'.files = Files
    BY <1>1, <2>1, <2>2, UnderstandingWritten
  <2>4. Wrote(store, store', "media")
    BY <1>1, <2>3 DEF Wrote, SameMembers
  <2> QED
    BY <1>3, <2>1, <2>4 DEF Writes
<1>7. CASE createReviewItems(w)
  <2> DEFINE o == NextOutcome(w)
  <2>1. /\ x.pc = "mediaFiles" /\ workers'[w].pc = "mediaFiles"
        /\ x.local.todo = {} /\ x.local.reading = {} /\ x.local.cursor = 2
        /\ store' = [store EXCEPT !.reviews =
             LET unsure == IF o.unsure THEN createNeedsReview(store.reviews, <<"unsure", o.file>>)
                           ELSE store.reviews
             IN IF o.result = "failed" THEN createNeedsReview(unsure, <<"failed", o.file>>) ELSE unsure]
    <3>1. /\ x.pc = "mediaFiles" /\ Moves(w, "mediaFiles", workers'[w].local)
          /\ x.local.todo = {} /\ x.local.reading = {} /\ x.local.cursor = 2
          /\ store' = [store EXCEPT !.reviews =
             LET unsure == IF o.unsure THEN createNeedsReview(store.reviews, <<"unsure", o.file>>)
                           ELSE store.reviews
             IN IF o.result = "failed" THEN createNeedsReview(unsure, <<"failed", o.file>>) ELSE unsure]
      BY <1>1, <1>7, Zenon, createReviewItemsSteps
    <3> QED
      BY <3>1, Zenon DEF Moves
  <2>2. o \in TaskAnalysis
    BY <1>3, <2>1, Outcome DEF MediaAt
  <2> HIDE DEF o
  <2>3. Grown(store, store') /\ store'.hashes = store.hashes /\ SameAnalysis
    BY <1>1, <2>1, <2>2, ReviewsWritten
  <2> QED
    BY <1>1, <1>3, <2>1, <2>3, SameWrites DEF Writes
<1>8. CASE clearSemanticAnalysis(w) \/ saveSemanticGroup(w)
  <2>1. /\ x.pc \in {"relClear", "relGroup"} /\ workers'[w].pc \in {"relPage", "relContext"}
        /\ \E q : store' = [store EXCEPT !.semantic = q]
    BY <1>1, <1>8, clearSemanticAnalysisSteps, saveSemanticGroupSteps DEF Moves
  <2>2. /\ store'.hashes = store.hashes /\ store'.unhashed = store.unhashed
        /\ store'.reviews = store.reviews /\ store'.groups = store.groups
        /\ store'.results = store.results /\ store'.files = store.files
    BY <1>1, <2>1 DEF IsStore
  <2>3. Wrote(store, store', kind)
    BY <1>1, <2>2 DEF Wrote, Grown, SameMembers, MediaKept
  <2> QED
    BY <2>1, <2>3 DEF Writes, BusyPoints, StagePoints, MetadataPoints
<1>9. CASE applyGroupContext(w)
  <2>1. /\ x.pc = "relContext" /\ workers'[w].pc = "relGroup"
        /\ \/ UNCHANGED store
           \/ store' = [store EXCEPT !.files = [f \in Files |->
                IF f \in Current(w).members /\ store.files[f] = "unsure"
                THEN "confident" ELSE store.files[f]]]
    BY <1>1, <1>9, applyGroupContextSteps DEF Moves
  <2>2. /\ Grown(store, store') /\ store'.hashes = store.hashes /\ store'.groups = store.groups
        /\ store'.results = store.results
        /\ DOMAIN store'.files = Files /\ \A f \in Files : MediaKept(store, store', f)
    BY <1>1, <2>1, ContextWritten
  <2>3. Wrote(store, store', kind)
    BY <1>1, <2>2 DEF Wrote, SameMembers
  <2> QED
    BY <2>1, <2>3 DEF Writes, BusyPoints, StagePoints, MetadataPoints
<1> QED
  BY <1>2, <1>4, <1>5, <1>6, <1>7, <1>8, <1>9 DEF MetadataMoves

-----------------------------------------------------------------------------
(* What the rows keep.                                                     *)

\* What lies behind a checkpoint stays there when nobody writes the tables of its kind.
LEMMA BehindKept ==
  ASSUME NEW s, NEW t, Tables(s), Grown(s, t), NEW sub, NEW e, NEW c, BehindIn(s, sub, e, c),
         sub.kind = "detect" => SameMembers(s, t, "candidate"),
         sub.kind = "hash" => /\ SameMembers(s, t, "exact") /\ t.hashes = s.hashes
                              /\ ScopeIn(t, sub, e) = ScopeIn(s, sub, e),
         sub.kind = "media" => \A f \in Files : MediaKept(s, t, f)
  PROVE  BehindIn(t, sub, e, c)
<1>1. ScopeIn(s, sub, e) \subseteq Files
  BY BehindNothing
<1>2. \A f \in Files : HashedIn(s, f) => HashedIn(t, f)
  BY FilesKept
<1>3. CASE sub.kind = "detect"
  <2>1. \A a : GroupsIn(s, "candidate", a) => GroupsIn(t, "candidate", a)
    BY <1>3, KindsOfGroups, GroupsSame
  <2> QED
    BY <1>3, <2>1 DEF BehindIn
<1>4. CASE sub.kind = "hash"
  <2>1. \A a : GroupsIn(s, "exact", a) => GroupsIn(t, "exact", a)
    BY <1>4, KindsOfGroups, GroupsSame
  <2> QED
    BY <1>1, <1>2, <1>4, <2>1 DEF BehindIn
<1>5. CASE sub.kind = "media"
  <2>1. \A f \in Files : MediaIn(s, f) => MediaIn(t, f)
    BY <1>5, FilesKept
  <2> QED
    BY <1>5, <2>1 DEF BehindIn
<1> QED
  BY <1>3, <1>4, <1>5 DEF BehindIn

\* What a row keeps when it is not the worker's to save.
LEMMA RowKept ==
  ASSUME TableStep, NEW j \in Ids
  PROVE  /\ j \in Ids' /\ jobs'[j].sub = jobs[j].sub
         /\ KeepsCheckpoint(jobs[j], jobs'[j]) => jobs'[j].checkpoint \in {0, jobs[j].checkpoint}
         /\ jobs[j].status = "completed" => jobs'[j] = jobs[j]
<1>1. jobs[j].status = "completed" => jobs'[j] = jobs[j]
  BY AllowedTransitions DEF TableStep, RowStep, RunsOn, Transits
<1> QED
  BY <1>1, SameSubmission DEF KeepsCheckpoint

LEMMA DetectedStays == ASSUME TableStep, Detected PROVE Detected'
<1>1. PICK i \in Ids : jobs[i].sub.kind = "detect" /\ jobs[i].status = "completed"
  BY DEF Detected
<1>2. i \in Ids' /\ jobs'[i] = jobs[i]
  BY <1>1, RowKept
<1> QED
  BY <1>1, <1>2 DEF Detected

\* A handler takes nothing from behind the checkpoints of the other jobs.
LEMMA OthersKept ==
  ASSUME NEW w \in Workers, DInv(w), Linked(workers[w]),
         Wrote(store, store', jobs[workers[w].job].sub.kind), Tables(store'),
         NEW j \in Ids \ {workers[w].job}
  PROVE  BehindIn(store', jobs[j].sub, j \in early, jobs[j].checkpoint)
<1> DEFINE x == workers[w]
           kind == jobs[x.job].sub.kind
           sub == jobs[j].sub
           e == j \in early
           c == jobs[j].checkpoint
<1>1. /\ x.job \in Ids /\ sub.kind # kind /\ BehindIn(store, sub, e, c) /\ Tables(store)
  BY DEF DInv, AInv, LinkInv, LinkOK, RowsInv
<1>2. ASSUME sub.kind = "hash", kind = "detect", c # 0
      PROVE  j \in early
  <2>1. ~Detected
    <3>1. jobs[x.job].status # "completed"
      BY DEF DInv, WorkerInv
    <3> QED
      BY <1>1, <1>2, <3>1 DEF Detected, DInv, RowsInv
  <2> QED
    BY <1>2, <2>1 DEF DInv, WorkerInv
<1>3. CASE sub.kind = "hash" /\ kind = "detect" /\ c = 0
  <2> HIDE DEF e
  <2> QED
    BY <1>3, BehindNothing
<1>4. CASE ~(sub.kind = "hash" /\ kind = "detect" /\ c = 0)
  <2>1. sub.kind = "hash" => ScopeIn(store', sub, e) = ScopeIn(store, sub, e)
    <3>1. kind # "detect" => SameMembers(store, store', "candidate")
      BY DEF Wrote
    <3>2. sub.kind = "hash" /\ kind = "detect" => e
      BY <1>2, <1>4
    <3>3. e => ScopeIn(store', sub, e) = ScopeIn(store, sub, e)
      BY DEF ScopeIn
    <3> HIDE DEF e, kind
    <3> QED
      BY <3>1, <3>2, <3>3, ScopeSame
  <2>2. /\ Grown(store, store') /\ (kind # "detect" => SameMembers(store, store', "candidate"))
        /\ kind # "hash" => SameMembers(store, store', "exact") /\ store'.hashes = store.hashes
        /\ kind # "media" => \A f \in Files : MediaKept(store, store', f)
    BY DEF Wrote
  <2> HIDE DEF e, c, kind, sub
  <2>3. BehindIn(store', sub, e, c)
    BY <1>1, <2>1, <2>2, BehindKept
  <2> QED
    BY <2>3 DEF e, c, sub
<1> QED
  BY <1>3, <1>4

-----------------------------------------------------------------------------
(* The steps of the worker.                                                *)

LEMMA HandlerKeepsWork ==
  ASSUME NEW w \in Workers, DInv(w), OnlyStages, PagesHold, Tables(store'), UNCHANGED early,
         IdentityMoves(w) \/ MetadataMoves(w)
  PROVE  RowsInv' /\ WorkerInv(w)'
<1> DEFINE x == workers[w]
           y == workers'[w]
           J == x.job
           sub == jobs[J].sub
           e == J \in early
<1>1. Does(w) /\ Writes(w) /\ x.pc \in StagePoints /\ x.pc \in BusyPoints
  BY HandlerDoes, IdentityWrites, MetadataWrites, BusyStages
<1>2. /\ Ids' = Ids /\ y.job = J /\ Linked(x) /\ J \in Ids
      /\ Work(store', y.pc, y.local, y.saved, sub, e)
  BY <1>1 DEF Does, DInv, AInv, LinkInv, LinkOK
<1>3. /\ TableStep
      /\ \A j \in Ids : jobs'[j].status = "completed" => jobs[j].status = "completed"
      /\ \A j \in Ids \ {J} : KeepsCheckpoint(jobs[j], jobs'[j])
      /\ \/ KeepsCheckpoint(jobs[J], jobs'[J]) /\ (y.pc \in BusyPoints => y.saved = x.saved)
         \/ UNCHANGED store /\ y.pc \in BusyPoints /\ jobs'[J].checkpoint = y.saved
  BY <1>1, <1>2 DEF Does, Acts, Effect
<1>4. RowsInv /\ WorkerInv(w) /\ Tables(store)
  BY DEF DInv, AInv
<1>5. \A j \in Ids : /\ j \in Ids' /\ jobs'[j].sub = jobs[j].sub
                     /\ jobs[j].status = "completed" => jobs'[j] = jobs[j]
  BY <1>3, RowKept
<1>6. \A j \in Ids \ {J} : jobs'[j].checkpoint \in {0, jobs[j].checkpoint}
  BY <1>3, RowKept
<1>7. \/ jobs'[J].checkpoint \in {0, jobs[J].checkpoint} /\ (y.pc \in BusyPoints => y.saved = x.saved)
      \/ UNCHANGED store /\ y.pc \in BusyPoints /\ jobs'[J].checkpoint = y.saved
  BY <1>2, <1>3, RowKept
<1>8. ASSUME NEW j \in Ids \ {J}
      PROVE  BehindIn(store', jobs[j].sub, j \in early, jobs'[j].checkpoint)
  <2>1. BehindIn(store', jobs[j].sub, j \in early, 0)
    BY BehindNothing
  <2>2. BehindIn(store', jobs[j].sub, j \in early, jobs[j].checkpoint)
    <3>1. CASE UNCHANGED store
      BY <1>4, <3>1 DEF RowsInv
    <3>2. CASE Wrote(store, store', sub.kind)
      BY <1>2, <3>2, OthersKept
    <3> QED
      BY <1>1, <3>1, <3>2 DEF Writes
  <2> QED
    BY <1>6, <2>1, <2>2
<1>9. BehindIn(store', sub, e, jobs'[J].checkpoint)
  <2>1. BehindIn(store', sub, e, 0)
    BY BehindNothing
  <2>2. y.pc \in BusyPoints => BehindIn(store', sub, e, y.saved)
    BY <1>2 DEF Work
  <2>3. jobs[J].checkpoint \in {0, x.saved}
    BY <1>1, <1>4 DEF WorkerInv
  <2>4. y.pc \notin BusyPoints => BehindIn(store', sub, e, jobs[J].checkpoint)
    BY <1>1, <1>2, <1>4 DEF Writes, RowsInv
  <2> QED
    BY <1>7, <2>1, <2>2, <2>3, <2>4
<1>10. DOMAIN store'.results = Files /\ DOMAIN store'.files = Files
  BY <1>1, <1>4 DEF Writes, Wrote, RowsInv
<1>11. RowsInv'
  <2>1. \A i, j \in Ids' : jobs'[i].sub.kind = jobs'[j].sub.kind => i = j
    BY <1>2, <1>4, <1>5 DEF RowsInv
  <2>2. \A j \in Ids' : BehindIn(store', jobs'[j].sub, j \in early', jobs'[j].checkpoint)
    BY <1>2, <1>5, <1>8, <1>9
  <2> HIDE DEF x, y, J
  <2> QED
    BY <1>10, <2>1, <2>2 DEF RowsInv, BehindIn, ScopeIn, HashedIn, MediaIn, Asked, GroupsIn,
       SoundIn, GroupIn, MembersIn, ManyIn
<1>12. Linked(y) => jobs'[y.job].status # "completed"
  BY <1>2, <1>3, <1>4 DEF WorkerInv
<1>13. y.pc \in BusyPoints => jobs'[y.job].checkpoint \in {0, y.saved}
  <2>1. jobs[J].checkpoint \in {0, x.saved}
    BY <1>1, <1>4 DEF WorkerInv
  <2> QED
    BY <1>2, <1>7, <2>1
<1>14. ASSUME NEW j \in Ids, jobs'[j].sub.kind = "hash",
              jobs'[j].checkpoint # 0 \/ (y.pc \in BusyPoints /\ y.job = j)
       PROVE  j \in early' \/ Detected'
  <2>1. jobs[j].checkpoint # 0 \/ x.job = j
    BY <1>2, <1>6, <1>14
  <2>2. j \in early \/ Detected
    BY <1>1, <1>4, <1>5, <1>14, <2>1 DEF WorkerInv
  <2> QED
    BY <1>3, <2>2, DetectedStays
<1>15. Work(store', y.pc, y.local, y.saved, jobs'[y.job].sub, y.job \in early')
  BY <1>2, <1>5
<1>16. WorkerInv(w)'
  <2> HIDE DEF x, J
  <2> QED
    BY <1>2, <1>12, <1>13, <1>14, <1>15 DEF WorkerInv, Work, Linked
<1> QED
  BY <1>11, <1>16

\* The tables stay: what is to be there when the checkpoints do.
LEMMA RowsKept ==
  ASSUME NEW w \in Workers, DInv(w), UNCHANGED store, TableStep, Ids' = Ids,
         early \subseteq early', \A j \in Ids : BehindIn(store, jobs[j].sub, j \in early, jobs'[j].checkpoint)
  PROVE  RowsInv'
<1>1. RowsInv /\ Tables(store) /\ store' = store
  BY DEF DInv, AInv
<1>2. \A j \in Ids : jobs'[j].sub = jobs[j].sub
  BY RowKept
<1>3. \A i, j \in Ids' : jobs'[i].sub.kind = jobs'[j].sub.kind => i = j
  BY <1>1, <1>2 DEF RowsInv
<1>4. ASSUME NEW j \in Ids
      PROVE  BehindIn(store, jobs[j].sub, j \in early', jobs'[j].checkpoint)
  <2>1. (j \in early') = (j \in early) \/ (j \in early') = TRUE
    OBVIOUS
  <2>2. BehindIn(store, jobs[j].sub, TRUE, jobs'[j].checkpoint)
    <3> DEFINE e == j \in early
    <3>1. BehindIn(store, jobs[j].sub, e, jobs'[j].checkpoint)
      OBVIOUS
    <3> HIDE DEF e
    <3> QED
      BY <1>1, <3>1, BehindNothing
  <2> QED
    BY <2>1, <2>2
<1>5. \A j \in Ids' : BehindIn(store', jobs'[j].sub, j \in early', jobs'[j].checkpoint)
  BY <1>1, <1>2, <1>4
<1>6. DOMAIN store'.results = Files /\ DOMAIN store'.files = Files
  BY <1>1 DEF RowsInv
<1> QED
  BY <1>3, <1>5, <1>6 DEF RowsInv, BehindIn, ScopeIn, HashedIn, MediaIn, Asked, GroupsIn,
     SoundIn, GroupIn, MembersIn, ManyIn

\* The same of the worker, when it is in no handler, or goes on in one with what it has.
LEMMA WorkerKept ==
  ASSUME NEW w \in Workers, DInv(w), TableStep, early \subseteq early',
         Linked(workers'[w]) => jobs'[workers'[w].job].status # "completed",
         workers'[w].pc \in BusyPoints =>
           /\ workers'[w].job \in Ids
           /\ jobs'[workers'[w].job].checkpoint \in {0, workers'[w].saved}
           /\ jobs[workers'[w].job].sub.kind = "hash" =>
                workers'[w].job \in early' \/ Detected
           /\ Work(store', workers'[w].pc, workers'[w].local, workers'[w].saved,
                   jobs[workers'[w].job].sub, workers'[w].job \in early'),
         \A j \in Ids : jobs'[j].checkpoint # 0 =>
           \/ jobs[j].checkpoint # 0
           \/ workers[w].pc \in BusyPoints /\ workers[w].job = j,
         \A j \in Ids' \ Ids : jobs'[j].checkpoint = 0
  PROVE  WorkerInv(w)'
<1> DEFINE x == workers[w]
           y == workers'[w]
<1>1. \A j \in Ids : j \in Ids' /\ jobs'[j].sub = jobs[j].sub
  BY RowKept
<1>2. ASSUME NEW j \in Ids', jobs'[j].sub.kind = "hash",
             jobs'[j].checkpoint # 0 \/ (y.pc \in BusyPoints /\ y.job = j)
      PROVE  j \in early' \/ Detected'
  <2>1. j \in Ids
    BY <1>2
  <2>2. jobs'[j].checkpoint # 0 => j \in early \/ Detected
    BY <1>1, <1>2, <2>1 DEF DInv, WorkerInv
  <2>3. j \in early' \/ Detected
    BY <1>1, <1>2, <2>1, <2>2
  <2> QED
    BY <2>3, DetectedStays
<1>3. /\ Linked(y) => jobs'[y.job].status # "completed"
      /\ y.pc \in BusyPoints => jobs'[y.job].checkpoint \in {0, y.saved}
  OBVIOUS
<1>4. Work(store', y.pc, y.local, y.saved, jobs'[y.job].sub, y.job \in early')
  <2>1. CASE y.pc \in BusyPoints
    BY <1>1, <2>1
  <2>2. CASE y.pc \notin BusyPoints
    BY <2>2 DEF Work
  <2> QED
    BY <2>1, <2>2
<1> HIDE DEF x
<1> QED
  BY <1>2, <1>3, <1>4 DEF WorkerInv, Work, Linked

\* At its first point a handler has nothing but what lies behind the checkpoint.
LEMMA WorkBegins ==
  ASSUME NEW s, NEW l, NEW c, NEW sub, NEW e, BehindIn(s, sub, e, c),
         NEW pc \in {"detect", "hash", "media", "relations"}
  PROVE  Work(s, pc, l, c, sub, e)
<1>1. HashAt(s, pc, l, c, ScopeIn(s, sub, e))
  BY DEF HashAt
<1>2. GroupAt(s, pc, l, c, sub) /\ MediaAt(s, pc, l, c) /\ RelationsAt(s, pc, l)
  BY DEF GroupAt, MediaAt, RelationsAt
<1> QED
  BY <1>1, <1>2 DEF Work

LEMMA LoadKeepsWork ==
  ASSUME NEW w \in Workers, DInv(w), OnlyStages, Load(w)
  PROVE  RowsInv' /\ WorkerInv(w)'
<1> DEFINE x == workers[w]
           y == workers'[w]
           kind == JobOf(w).sub.kind
<1>1. /\ x.pc = "load" /\ UNCHANGED <<jobs, store>> /\ Ids' = Ids
      /\ x.job \in Ids /\ Acts(w, {}, {})
      /\ kind \in {"detect", "hash", "media", "relations"}
      /\ y.pc # "down" => /\ y.pc = kind /\ y.local = Nothing
                          /\ y.job = x.job /\ y.saved = jobs[x.job].checkpoint
  BY LoadSteps DEF DInv
<1>2. RowsInv /\ WorkerInv(w) /\ Linked(x) /\ TableStep
  BY <1>1 DEF DInv, Linked, Acts, Effect
<1>3. early \subseteq early' /\ (x.job \in early' \/ Detected)
  <2>1. early' = IF Detected THEN early ELSE early \cup {x.job}
    BY DEF Load, Detected, Job
  <2> QED
    BY <2>1
<1>4. RowsInv'
  <2>1. \A j \in Ids : BehindIn(store, jobs[j].sub, j \in early, jobs'[j].checkpoint)
    BY <1>1, <1>2 DEF RowsInv
  <2> QED
    BY <1>1, <1>2, <1>3, <2>1, RowsKept
<1>5. ASSUME y.pc \in BusyPoints
      PROVE  Work(store', y.pc, y.local, y.saved, jobs[y.job].sub, y.job \in early')
  <2>1. y.pc = kind /\ y.job = x.job /\ y.saved = jobs[x.job].checkpoint
    BY <1>1, <1>5 DEF BusyPoints, StagePoints, IdentityPoints, MetadataPoints
  <2>2. BehindIn(store', jobs'[y.job].sub, y.job \in early', y.saved)
    BY <1>1, <1>4, <2>1 DEF RowsInv
  <2>3. BehindIn(store', jobs[y.job].sub, y.job \in early', y.saved)
    BY <1>1, <2>2
  <2>4. y.pc \in {"detect", "hash", "media", "relations"}
    BY <1>1, <2>1
  <2> HIDE DEF x, y
  <2> QED
    BY <2>3, <2>4, WorkBegins
<1>6. Linked(y) => jobs'[y.job].status # "completed"
  BY <1>1, <1>2 DEF WorkerInv, Linked
<1>7. y.pc \in BusyPoints => /\ y.job = x.job /\ jobs'[y.job].checkpoint = y.saved
  BY <1>1 DEF BusyPoints, StagePoints, IdentityPoints, MetadataPoints
<1>8. WorkerInv(w)'
  <2>1. \A j \in Ids : jobs'[j].checkpoint # 0 => jobs[j].checkpoint # 0
    BY <1>1
  <2> QED
    BY <1>1, <1>2, <1>3, <1>5, <1>6, <1>7, <2>1, WorkerKept
<1> QED
  BY <1>4, <1>8

\* A worker that has a job after a step that completes none has one that is not completed.
LEMMA StaysOpen ==
  ASSUME NEW w \in Workers, DInv(w), NEW saved, Acts(w, {}, saved), Linked(workers'[w])
  PROVE  workers'[w].job \in Ids /\ jobs'[workers'[w].job].status # "completed"
<1> DEFINE x == workers[w]
           y == workers'[w]
<1>1. /\ TableStep /\ IndInv
      /\ \A j \in Ids : jobs'[j].status = "completed" => jobs[j].status = "completed"
  BY DEF Acts, Effect, DInv, AInv
<1>2. CASE Linked(x) /\ y.job = x.job
  BY <1>1, <1>2 DEF DInv, WorkerInv, AInv, LinkInv, LinkOK
<1>3. CASE ClaimedNow(y)
  <2>1. y.job \in Ids /\ jobs'[y.job].attempts = Append(jobs[y.job].attempts, "open")
    BY <1>3 DEF ClaimedNow
  <2>2. jobs[y.job].attempts \in Seq(Outcomes)
    BY <1>1, <2>1, RowsOfTable DEF IndInv, TypeOK, Ids, Row
  <2> DEFINE new == Len(Append(jobs[y.job].attempts, "open"))
             old == Len(jobs[y.job].attempts)
  <2>3. new # old
    <3>1. "open" \in Outcomes /\ old \in Nat
      BY <2>2, LenProperties DEF Outcomes
    <3>2. new = old + 1
      BY <2>2, <3>1, AppendProperties
    <3> HIDE DEF new, old
    <3> QED
      BY <3>1, <3>2
  <2>4. jobs'[y.job] # jobs[y.job]
    BY <2>1, <2>3
  <2> QED
    BY <1>1, <2>1, <2>4, RowKept
<1> QED
  BY <1>2, <1>3 DEF Acts, Follows

LEMMA ProcessKeepsWork ==
  ASSUME NEW w \in Workers, DInv(w), OnlyStages, ProcessMoves(w), UNCHANGED <<store, early>>
  PROVE  RowsInv' /\ WorkerInv(w)'
<1> DEFINE x == workers[w]
           y == workers'[w]
           done == IF x.pc = "complete" THEN {x.job} ELSE {}
           saved == IF x.pc = "ackPause" THEN {x.job} ELSE {}
<1>1. /\ NoLocal \in Locals /\ workers \in [Workers -> Worker(StagePoints, Locals)]
      /\ IndInv /\ LinkInv /\ RowsInv /\ WorkerInv(w)
  BY DEF OnlyStages, Locals, Nothing, DInv, AInv, StagesTyped
<1>2. ProcessActs(w) /\ Ids' = Ids
  BY <1>1, ProcessMovesActs, ProcessRows
<1>3. /\ Acts(w, done, saved) /\ TableStep
      /\ x.pc = "ackPause" /\ jobs' # jobs => jobs'[x.job].checkpoint = x.saved
      /\ y.pc \in Resting \/ Answers(x, y)
      /\ \A j \in Ids \ saved : KeepsCheckpoint(jobs[j], jobs'[j])
  BY <1>2 DEF ProcessActs, Acts, Effect
<1>4. ASSUME NEW j \in Ids
      PROVE  \/ jobs'[j].checkpoint \in {0, jobs[j].checkpoint}
             \/ x.pc = "ackPause" /\ j = x.job /\ jobs'[j].checkpoint = x.saved
  <2>1. j \notin saved => jobs'[j].checkpoint \in {0, jobs[j].checkpoint}
    BY <1>3, RowKept
  <2> QED
    BY <1>3, <2>1
<1>5. ASSUME NEW j \in Ids
      PROVE  BehindIn(store, jobs[j].sub, j \in early, jobs'[j].checkpoint)
  <2>1. /\ BehindIn(store, jobs[j].sub, j \in early, 0)
        /\ BehindIn(store, jobs[j].sub, j \in early, jobs[j].checkpoint)
    BY <1>1, BehindNothing DEF RowsInv, DInv, AInv
  <2>2. x.pc = "ackPause" /\ j = x.job => BehindIn(store, jobs[j].sub, j \in early, x.saved)
    BY <1>1 DEF WorkerInv, Work, BusyPoints
  <2> QED
    BY <1>4, <2>1, <2>2
<1>6. RowsInv'
  BY <1>2, <1>3, <1>5, RowsKept
<1>7. Linked(y) => jobs'[y.job].status # "completed"
  <2>1. CASE x.pc = "complete"
    <3>1. CompleteJob(w)
      BY <2>1 DEF ProcessMoves, runOnce, Recover, Claim, Finish, FailJob, AcknowledgePause,
         AcknowledgeCancel, Restart, At
    <3>2. y = Idle("recover") \/ (UNCHANGED jobs /\ y.job = x.job)
      BY <1>1, <3>1, ThrowPoint DEF CompleteJob, Become
    <3>3. ~Linked(Idle("recover"))
      BY DEF Idle, Fresh, Linked
    <3> QED
      BY <1>1, <2>1, <3>2, <3>3 DEF WorkerInv, Linked
  <2>2. CASE x.pc # "complete"
    BY <1>3, <2>2, StaysOpen
  <2> QED
    BY <2>1, <2>2
<1>8. ASSUME y.pc \in BusyPoints
      PROVE  /\ x.pc = "finish" /\ y.pc \in {"complete", "ackPause"} /\ UNCHANGED jobs
             /\ y.job = x.job /\ y.saved = x.saved /\ y.local = x.local
  <2>1. y.pc \notin Resting
    BY <1>8 DEF Resting, BusyPoints, StagePoints, IdentityPoints, MetadataPoints
  <2>2. Answers(x, y) /\ y.pc # "ackCancel"
    BY <1>3, <1>8, <2>1 DEF BusyPoints, StagePoints, IdentityPoints, MetadataPoints
  <2> QED
    BY <1>1, <2>2 DEF Answers, Worker
<1>9. ASSUME y.pc \in BusyPoints
      PROVE  /\ y.job \in Ids /\ jobs'[y.job].checkpoint \in {0, y.saved}
             /\ jobs[y.job].sub.kind = "hash" => y.job \in early' \/ Detected
             /\ Work(store', y.pc, y.local, y.saved, jobs[y.job].sub, y.job \in early')
  <2>1. /\ x.pc = "finish" /\ y.pc \in {"complete", "ackPause"} /\ UNCHANGED jobs
        /\ y.job = x.job /\ y.saved = x.saved /\ y.local = x.local
    BY <1>8, <1>9
  <2>2. x.pc \in BusyPoints /\ x.job \in Ids
    BY <1>1, <2>1 DEF BusyPoints, LinkInv, LinkOK, Linked
  <2>3. Work(store, x.pc, x.local, x.saved, jobs[x.job].sub, x.job \in early)
    BY <1>1 DEF WorkerInv
  <2>4. /\ BehindIn(store, jobs[x.job].sub, x.job \in early, x.saved)
        /\ DoneIn(store, jobs[x.job].sub, x.job \in early)
    BY <2>1, <2>2, <2>3 DEF Work
  <2>5. Work(store, y.pc, y.local, y.saved, jobs[x.job].sub, x.job \in early)
    <3> DEFINE sub == jobs[x.job].sub
               e == x.job \in early
    <3> HIDE DEF x, y, sub, e
    <3>1. Work(store, y.pc, y.local, y.saved, sub, e)
      BY <2>1, <2>4, WorkOfStages DEF sub, e
    <3> QED
      BY <3>1 DEF sub, e
  <2> QED
    BY <1>1, <2>1, <2>2, <2>5 DEF WorkerInv
<1>10. \A j \in Ids : jobs'[j].checkpoint # 0 =>
         jobs[j].checkpoint # 0 \/ (x.pc \in BusyPoints /\ x.job = j)
  BY <1>4 DEF BusyPoints
<1>11. WorkerInv(w)'
  BY <1>2, <1>3, <1>7, <1>9, <1>10, WorkerKept
<1> QED
  BY <1>6, <1>11

\* The worker dies.
LEMMA DeathKeepsWork ==
  ASSUME NEW w \in Workers, DInv(w), OnlyStages, Die(w), UNCHANGED <<store, early>>
  PROVE  RowsInv' /\ WorkerInv(w)'
<1>1. /\ NoLocal \in Locals /\ workers \in [Workers -> Worker(StagePoints, Locals)]
      /\ UNCHANGED jobs /\ RowsInv
  BY DEF OnlyStages, Locals, Nothing, DInv, AInv, StagesTyped, Die
<1>2. Acts(w, {}, {}) /\ workers'[w].pc = "down"
  BY <1>1, DieActs
<1>3. TableStep /\ Ids' = Ids
  BY <1>1, <1>2 DEF Acts, Effect, Ids
<1>4. ~Linked(workers'[w]) /\ workers'[w].pc \notin BusyPoints
  BY <1>2 DEF Linked, BusyPoints, StagePoints, IdentityPoints, MetadataPoints
<1>5. RowsInv'
  BY <1>1, <1>3, RowsKept DEF RowsInv
<1>6. WorkerInv(w)'
  BY <1>1, <1>3, <1>4, WorkerKept
<1> QED
  BY <1>5, <1>6

-----------------------------------------------------------------------------
(* The steps of the others.                                                *)

\* The worker stays as it is, and what it has in hand too.
LEMMA IdleKeepsWork ==
  ASSUME NEW w \in Workers, DInv(w), UNCHANGED <<workers, early>>, Effect({}, {}),
         Linked(workers[w]) => workers[w].job \in Ids,
         workers[w].pc \in BusyPoints =>
           Work(store', workers[w].pc, workers[w].local, workers[w].saved,
                jobs[workers[w].job].sub, workers[w].job \in early),
         \A j \in Ids' \ Ids : jobs'[j].checkpoint = 0
  PROVE  WorkerInv(w)'
<1> DEFINE x == workers[w]
<1>1. /\ TableStep /\ WorkerInv(w) /\ workers'[w] = x
      /\ \A j \in Ids : jobs'[j].status = "completed" => jobs[j].status = "completed"
      /\ \A j \in Ids : jobs'[j].checkpoint \in {0, jobs[j].checkpoint}
  BY RowKept DEF Effect, DInv
<1>2. x.pc \in BusyPoints => Linked(x)
  BY DEF Linked, BusyPoints, StagePoints, IdentityPoints, MetadataPoints
<1>3. Linked(x) => jobs'[x.job].status # "completed"
  BY <1>1 DEF WorkerInv
<1>4. x.pc \in BusyPoints =>
        /\ x.job \in Ids /\ jobs'[x.job].checkpoint \in {0, x.saved}
        /\ jobs[x.job].sub.kind = "hash" => x.job \in early' \/ Detected
  BY <1>1, <1>2 DEF WorkerInv
<1> QED
  BY <1>1, <1>3, <1>4, WorkerKept

LEMMA QueueKeepsWork ==
  ASSUME NEW w \in Workers, DInv(w), OneOfAKind, UNCHANGED <<workers, store, early>>,
         \/ UNCHANGED jobs
         \/ Tick \/ (\E j \in Ids : RequestPause(j) \/ Resume(j) \/ Cancel(j))
         \/ \E s \in Submissions : Submit(s)
  PROVE  RowsInv' /\ WorkerInv(w)'
<1> DEFINE x == workers[w]
<1>1. IndInv /\ LinkInv /\ RowsInv /\ WorkerInv(w) /\ Tables(store)
  BY DEF DInv, AInv
<1>2. (Linked(x) => x.job \in Ids)
        /\ Work(store', x.pc, x.local, x.saved, jobs[x.job].sub, x.job \in early)
  BY <1>1 DEF LinkInv, LinkOK, WorkerInv
<1>3. ASSUME NEW j \in Ids, jobs'[j].checkpoint \in {0, jobs[j].checkpoint}
      PROVE  BehindIn(store, jobs[j].sub, j \in early, jobs'[j].checkpoint)
  <2>1. BehindIn(store, jobs[j].sub, j \in early, 0)
    BY <1>1, BehindNothing
  <2>2. BehindIn(store, jobs[j].sub, j \in early, jobs[j].checkpoint)
    BY <1>1 DEF RowsInv
  <2> QED
    BY <1>3, <2>1, <2>2
<1>4. ASSUME Effect({}, {}), Ids' = Ids PROVE RowsInv' /\ WorkerInv(w)'
  <2>1. TableStep /\ \A j \in Ids : jobs'[j].checkpoint \in {0, jobs[j].checkpoint}
    BY <1>4, RowKept DEF Effect
  <2>2. RowsInv'
    BY <1>3, <1>4, <2>1, RowsKept
  <2>3. WorkerInv(w)'
    BY <1>2, <1>4, IdleKeepsWork
  <2> QED
    BY <2>2, <2>3
<1>5. CASE UNCHANGED jobs
  BY <1>4, <1>5, QuietEffect DEF Ids
<1>6. CASE Tick \/ (\E j \in Ids : RequestPause(j) \/ Resume(j) \/ Cancel(j))
  BY <1>1, <1>4, <1>6, TickEffect, ControlEffect, ControlIds
<1>7. ASSUME NEW s \in Submissions, Submit(s) PROVE RowsInv' /\ WorkerInv(w)'
  <2> DEFINE n == Len(jobs')
  <2>1. /\ Effect({}, {}) /\ Ids' = Ids \cup {n} /\ n \notin Ids
        /\ \A j \in Ids : jobs'[j] = jobs[j]
        /\ jobs'[n] = QueuedRow(s)
    BY <1>1, <1>7, SubmitEffect, SubmitIds
  <2>2. jobs'[n].sub = s /\ jobs'[n].checkpoint = 0
    BY <2>1 DEF QueuedRow
  <2>3. \A j \in Ids : jobs[j].sub \in Submissions /\ jobs[j].sub.key # s.key
    BY <1>1, <1>7, RowsOfTable DEF IndInv, TypeOK, Ids, Row, Submit, KeyIsNew
  <2>4. \A j \in Ids : jobs[j].sub.kind # s.kind
    BY <2>3 DEF OneOfAKind
  <2> HIDE DEF n
  <2>5. \A i, j \in Ids' : jobs'[i].sub.kind = jobs'[j].sub.kind => i = j
    BY <1>1, <2>1, <2>2, <2>4 DEF RowsInv
  <2>6. \A j \in Ids' : BehindIn(store, jobs'[j].sub, j \in early, jobs'[j].checkpoint)
    <3>1. BehindIn(store, jobs'[n].sub, n \in early, jobs'[n].checkpoint)
      BY <1>1, <2>2, BehindNothing
    <3>2. \A j \in Ids : BehindIn(store, jobs'[j].sub, j \in early, jobs'[j].checkpoint)
      BY <1>1, <2>1 DEF RowsInv
    <3> QED
      BY <2>1, <3>1, <3>2
  <2>7. \A j \in Ids' : BehindIn(store', jobs'[j].sub, j \in early', jobs'[j].checkpoint)
    BY <2>6
  <2>8. RowsInv'
    BY <1>1, <2>5, <2>7 DEF RowsInv, BehindIn, ScopeIn, HashedIn, MediaIn, Asked, GroupsIn,
       SoundIn, GroupIn, MembersIn, ManyIn
  <2>9. WorkerInv(w)'
    BY <1>2, <2>1, <2>2, IdleKeepsWork
  <2> QED
    BY <2>8, <2>9
<1> QED
  BY <1>5, <1>6, <1>7

\* What the user leaves of the tables: all that the handlers rely on.
Spared(s, t) ==
  /\ Grown(s, t)
  /\ SameMembers(s, t, "candidate") /\ SameMembers(s, t, "exact")
  /\ t.hashes = s.hashes /\ t.results = s.results /\ t.semantic = s.semantic
  /\ \A f \in Files : MediaKept(s, t, f) /\ ((t.files[f] = "none") <=> (s.files[f] = "none"))
  /\ DOMAIN t.results = Files /\ DOMAIN t.files = Files

LEMMA UserSpares ==
  ASSUME RowsInv, Tables(store), UserActs
  PROVE  Spared(store, store')
<1>1. /\ IsStore(store) /\ DOMAIN store.results = Files /\ DOMAIN store.files = Files
      /\ store.reviews \in [ReviewKeys -> ReviewStatuses] /\ GroupsTyped(store.groups)
  BY DEF RowsInv, Tables
<1>2. UNCHANGED store => Spared(store, store')
  BY <1>1 DEF Spared, Grown, SameMembers, MediaKept
<1>3. ASSUME NEW kind \in GroupKinds, NEW k \in Keys[kind], decideDuplicateGroup(kind, k)
      PROVE  Spared(store, store')
  <2> DEFINE old == store.groups[kind]
             row == [old[k] EXCEPT !.decided = old[k].members]
             reviews == store.reviews
             key == <<"keeper", k>>
             new == IF kind = "exact" /\ reviews[key] = "open"
                    THEN [reviews EXCEPT ![key] = "resolved"] ELSE reviews
  <2>1. store' = [store EXCEPT !.groups[kind][k].decided = old[k].members, !.reviews = new]
    BY <1>3 DEF decideDuplicateGroup
  <2>2. old \in [Keys[kind] -> Group] /\ row.members = old[k].members
    BY <1>1 DEF GroupsTyped, Group
  <2>3. /\ store'.groups[kind] = [old EXCEPT ![k] = row]
        /\ \A other \in GroupKinds \ {kind} : store'.groups[other] = store.groups[other]
        /\ store'.reviews = new /\ store'.hashes = store.hashes
        /\ store'.unhashed = store.unhashed /\ store'.results = store.results
        /\ store'.files = store.files /\ store'.semantic = store.semantic
    BY <1>1, <2>1 DEF IsStore, GroupsTyped
  <2>4. \A r \in ReviewKeys : reviews[r] # "none" => new[r] # "none"
    BY <1>1
  <2> HIDE DEF new, row
  <2>5. \A j \in Keys[kind] : store'.groups[kind][j].members = store.groups[kind][j].members
    BY <2>2, <2>3
  <2>6. \A other \in GroupKinds : SameMembers(store, store', other)
    BY <2>3, <2>5 DEF SameMembers
  <2> QED
    BY <1>1, <2>3, <2>4, <2>6, KindsOfGroups DEF Spared, Grown, MediaKept
<1>4. ASSUME NEW key \in ReviewKeys, resolveNeedsReview(key)
      PROVE  Spared(store, store')
  <2>1. ASSUME NEW status \in {"resolved", "dismissed"},
               store' = [store EXCEPT !.reviews[key] = status]
        PROVE  Spared(store, store')
    <3>1. /\ store'.reviews = [store.reviews EXCEPT ![key] = status]
          /\ store'.groups = store.groups /\ store'.hashes = store.hashes
          /\ store'.unhashed = store.unhashed /\ store'.results = store.results
          /\ store'.files = store.files /\ store'.semantic = store.semantic
      BY <1>1, <2>1 DEF IsStore
    <3>2. \A r \in ReviewKeys : store.reviews[r] # "none" => store'.reviews[r] # "none"
      BY <1>1, <3>1
    <3> QED
      BY <1>1, <3>1, <3>2 DEF Spared, Grown, SameMembers, MediaKept
  <2>2. ASSUME key[1] # "keeper", NEW remember,
               store' = [store EXCEPT
                 !.reviews[key] = "resolved",
                 !.files[key[2]] = IF @ = "none" THEN @ ELSE "chosen",
                 !.rule = remember]
        PROVE  Spared(store, store')
    <3>1. /\ store'.reviews = [store.reviews EXCEPT ![key] = "resolved"]
          /\ store'.groups = store.groups /\ store'.hashes = store.hashes
          /\ store'.unhashed = store.unhashed /\ store'.results = store.results
          /\ store'.files = [store.files EXCEPT ![key[2]] = IF @ = "none" THEN @ ELSE "chosen"]
          /\ store'.semantic = store.semantic
      BY <1>1, <2>2 DEF IsStore
    <3>2. \A r \in ReviewKeys : store.reviews[r] # "none" => store'.reviews[r] # "none"
      BY <1>1, <3>1
    <3>3. \A f \in Files :
            /\ MediaKept(store, store', f) /\ ((store'.files[f] = "none") <=> (store.files[f] = "none"))
      BY <1>1, <3>1 DEF MediaKept
    <3> QED
      BY <1>1, <3>1, <3>2, <3>3 DEF Spared, Grown, SameMembers
  <2> QED
    BY <1>4, <2>1, <2>2, Zenon DEF resolveNeedsReview
<1> QED
  BY <1>2, <1>3, <1>4 DEF UserActs, EditFile, ChangeSettings

\* What a handler has in hand is as it was.
LEMMA WorkSpared ==
  ASSUME NEW w \in Workers, DInv(w), OnlyStages, Spared(store, store'),
         workers[w].pc \in BusyPoints
  PROVE  LET x == workers[w]
         IN Work(store', x.pc, x.local, x.saved, jobs[x.job].sub, x.job \in early)
<1> DEFINE x == workers[w]
           l == x.local
           n == l.last
           sub == jobs[x.job].sub
           e == x.job \in early
           kind == GroupKind(sub.kind)
           scope == ScopeIn(store, sub, e)
<1>1. /\ Tables(store) /\ Linked(x) /\ l \in Locals /\ Placed(x.pc, l, sub.kind)
      /\ Work(store, x.pc, l, x.saved, sub, e)
  BY DEF DInv, AInv, WorkerInv, StagesTyped, Worker, Linked, BusyPoints, StagePoints,
     IdentityPoints, MetadataPoints, JobOf, Job
<1>2. /\ BehindIn(store, sub, e, x.saved) /\ HashAt(store, x.pc, l, x.saved, scope)
      /\ GroupAt(store, x.pc, l, x.saved, sub) /\ MediaAt(store, x.pc, l, x.saved)
      /\ RelationsAt(store, x.pc, l)
      /\ x.pc \in {"finish", "complete"} => DoneIn(store, sub, e)
  BY <1>1 DEF Work
<1>3. /\ x.pc = "mediaFiles" /\ l.cursor # 0 => FirstOutcome(l).file \in Files
  <2>1. x.pc = "mediaFiles" /\ l.cursor # 0 => l.todo = {} /\ l.reading = {} /\ l.done # {}
    BY <1>2 DEF MediaAt
  <2> QED
    BY <2>1, Outcome
<1>4. /\ Grown(store, store') /\ store'.hashes = store.hashes
      /\ store'.results = store.results /\ store'.semantic = store.semantic
      /\ SameMembers(store, store', "candidate") /\ SameMembers(store, store', "exact")
      /\ \A f \in Files : MediaKept(store, store', f)
      /\ \A f \in Files : (store'.files[f] = "none") <=> (store.files[f] = "none")
  BY DEF Spared
<1>5. SameMembers(store, store', kind) /\ kind \in GroupKinds
  BY <1>4, KindsOfGroups DEF GroupKind
<1> HIDE DEF x, l, n, sub, e, kind
<1>6. ScopeIn(store', sub, e) = scope /\ scope \subseteq Files
  <2>1. ScopeIn(store', sub, e) = ScopeIn(store, sub, e)
    BY <1>4, ScopeSame
  <2>2. ScopeIn(store, sub, e) \subseteq Files
    BY <1>1, BehindNothing
  <2> QED
    BY <2>1, <2>2
<1> HIDE DEF scope
<1>7. /\ \A f \in Files : HashedIn(store, f) => HashedIn(store', f)
      /\ \A f \in Files : MediaIn(store, f) => MediaIn(store', f)
  BY <1>4, FilesKept
<1>8. BehindIn(store', sub, e, x.saved)
  BY <1>1, <1>2, <1>4, <1>6, BehindKept DEF scope
<1>9. HashAt(store', x.pc, l, x.saved, scope)
  BY <1>2, <1>6, <1>7 DEF HashAt
<1>10. /\ \A k : MembersIn(store', kind, k) = MembersIn(store, kind, k)
       /\ ManyIn(store', kind) = ManyIn(store, kind) /\ ManyIn(store, kind) \subseteq Keys[kind]
       /\ \A k \in Keys[kind] : GroupIn(store, kind, k) => GroupIn(store', kind, k)
       /\ ThereIn(store, kind) => ThereIn(store', kind)
  BY <1>4, <1>5, GroupsSame
<1>11. GroupAt(store', x.pc, l, x.saved, sub)
  BY <1>2, <1>5, <1>10 DEF GroupAt, kind, SameMembers
<1>12. MediaAt(store', x.pc, l, x.saved)
  <2>1. x.pc = "mediaFiles" =>
          /\ \A f \in Files : f <= l.last => f \in InHandIn(l) \/ MediaIn(store', f)
          /\ \A o \in l.done : o.result = "reused" =>
               store'.results[o.file] # "none" \/ Earlier[o.file] # "none"
    BY <1>1, <1>2, <1>4, ChunkKept
  <2>2. x.pc = "mediaFiles" /\ l.cursor = 2 =>
          /\ store'.files[FirstOutcome(l).file] # "none"
          /\ store'.files[FirstOutcome(l).file] = "unsure" => FirstOutcome(l).unsure
    BY <1>2, <1>3, <1>4 DEF MediaAt, MediaKept
  <2> QED
    BY <1>2, <1>4, <2>1, <2>2 DEF MediaAt
<1>13. \A m \in Sweeps :
         /\ \A after : FoundIn(store', m, after) = FoundIn(store, m, after)
         /\ \A c, page : SemanticIn(store', m, c, page) = SemanticIn(store, m, c, page)
  BY <1>4, FoundUnderstood
<1>14. RelationsAt(store', x.pc, l)
  <2>1. x.pc \in {"relPage", "relGroup", "relContext"} => l.last \in Sweeps
    BY <1>1 DEF Placed
  <2> QED
    BY <1>2, <1>4, <1>13, <2>1 DEF RelationsAt
<1>15. DoneIn(store, sub, e) => DoneIn(store', sub, e)
  <2>1. sub.kind = "detect" => kind = "candidate"
    BY DEF kind, GroupKind
  <2>2. sub.kind = "hash" => kind = "exact" /\ Keys[kind] = Digests
    BY KindsOfGroups DEF kind, GroupKind
  <2>3. \A k \in Digests : Asked(store, "keeper", k) => Asked(store', "keeper", k)
    BY <1>4, AskedKept
  <2>4. (UNION {FoundIn(store', q, 0) : q \in Sweeps}) = UNION {FoundIn(store, q, 0) : q \in Sweeps}
    BY <1>13
  <2> QED
    BY <1>4, <1>6, <1>7, <1>10, <2>1, <2>2, <2>3, <2>4 DEF DoneIn, scope
<1>16. Work(store', x.pc, l, x.saved, sub, e)
  BY <1>2, <1>6, <1>8, <1>9, <1>11, <1>12, <1>14, <1>15 DEF Work
<1> QED
  BY <1>16 DEF x, l, sub, e

LEMMA UserKeepsWork ==
  ASSUME NEW w \in Workers, DInv(w), OnlyStages, UserActs, UNCHANGED <<jobs, workers, early>>
  PROVE  RowsInv' /\ WorkerInv(w)'
<1>1. RowsInv /\ Tables(store) /\ LinkInv /\ Spared(store, store')
  BY UserSpares DEF DInv, AInv
<1>2. Effect({}, {}) /\ Ids' = Ids
  BY QuietEffect DEF Ids
<1>3. ASSUME NEW j \in Ids
      PROVE  BehindIn(store', jobs[j].sub, j \in early, jobs[j].checkpoint)
  <2> DEFINE sub == jobs[j].sub
             e == j \in early
             c == jobs[j].checkpoint
  <2>1. BehindIn(store, sub, e, c)
    BY <1>1 DEF RowsInv
  <2>2. /\ Grown(store, store') /\ store'.hashes = store.hashes
        /\ SameMembers(store, store', "candidate") /\ SameMembers(store, store', "exact")
        /\ \A f \in Files : MediaKept(store, store', f)
    BY <1>1 DEF Spared
  <2> HIDE DEF sub, e, c
  <2>3. BehindIn(store', sub, e, c)
    BY <1>1, <2>1, <2>2, ScopeSame, BehindKept
  <2> QED
    BY <2>3 DEF sub, e, c
<1>4. RowsInv'
  <2>1. \A j \in Ids' : BehindIn(store', jobs'[j].sub, j \in early', jobs'[j].checkpoint)
    BY <1>2, <1>3
  <2>2. DOMAIN store'.results = Files /\ DOMAIN store'.files = Files
    BY <1>1 DEF Spared
  <2>3. \A i, j \in Ids' : jobs'[i].sub.kind = jobs'[j].sub.kind => i = j
    BY <1>1, <1>2 DEF RowsInv
  <2> QED
    BY <2>1, <2>2, <2>3 DEF RowsInv, BehindIn, ScopeIn, HashedIn, MediaIn, Asked, GroupsIn,
       SoundIn, GroupIn, MembersIn, ManyIn
<1>5. WorkerInv(w)'
  <2>1. Linked(workers[w]) => workers[w].job \in Ids
    BY <1>1 DEF LinkInv, LinkOK
  <2> QED
    BY <1>1, <1>2, <2>1, WorkSpared, IdleKeepsWork
<1> QED
  BY <1>4, <1>5

-----------------------------------------------------------------------------
(* A job that completes is done.                                           *)

LEMMA DInvInit ==
  ASSUME NEW w \in Workers, IInit, OnlyStages
  PROVE  DInv(w)
<1>1. AInv
  BY AInvInit
<1>2. Ids = {}
  BY EmptySeq DEF IInit, ProcessInit, Init, Ids
<1>3. DOMAIN store.results = Files /\ DOMAIN store.files = Files
  BY DEF IInit, EmptyStore
<1>4. workers[w].pc = "recover"
  BY DEF IInit, ProcessInit, Idle, Fresh
<1>5. workers[w].pc \notin BusyPoints /\ ~Linked(workers[w])
  BY <1>4 DEF BusyPoints, StagePoints, IdentityPoints, MetadataPoints, Linked
<1>6. RowsInv
  BY <1>2, <1>3 DEF RowsInv
<1>7. WorkerInv(w)
  BY <1>2, <1>5, WorkOfStages DEF WorkerInv
<1> QED
  BY <1>1, <1>6, <1>7 DEF DInv

LEMMA DInvNext ==
  ASSUME NEW w \in Workers, Workers = {w}, OnlyStages, OneOfAKind, PagesHold,
         DInv(w), [INext]_vars
  PROVE  DInv(w)'
<1>1. AInv /\ AInv' /\ Tables(store')
  <2>1. AInv
    BY DEF DInv
  <2> QED
    BY <2>1, AInvNext, StoreSteps DEF AInv, StoreStep
<1>2. RowsInv' /\ WorkerInv(w)'
  <2>1. CASE UNCHANGED vars
    BY <2>1, QueueKeepsWork DEF vars
  <2>2. CASE UNCHANGED <<workers, store, early>>
               /\ ((\E s \in Submissions : StartStage(s)) \/ Control
                     \/ (\E j \in Ids : Resume(j)) \/ Tick)
    BY <2>2, QueueKeepsWork DEF StartStage, Control
  <2>3. CASE Load(w)
    BY <2>3, LoadKeepsWork
  <2>4. CASE (IdentityMoves(w) \/ MetadataMoves(w)) /\ UNCHANGED early
    BY <1>1, <2>4, HandlerKeepsWork
  <2>5. CASE ProcessMoves(w) /\ UNCHANGED <<store, early>>
    BY <2>5, ProcessKeepsWork
  <2>6. CASE Crash(w) /\ UNCHANGED <<store, early>>
    BY <2>6, DeathKeepsWork DEF Crash
  <2>7. CASE UserActs /\ UNCHANGED <<jobs, workers, early>>
    BY <2>7, UserKeepsWork
  <2> QED
    BY <2>1, <2>2, <2>3, <2>4, <2>5, <2>6, <2>7 DEF INext, vars, WorkerMoves
<1> QED
  BY <1>1, <1>2 DEF DInv

\* Only the report of the worker completes a job.
LEMMA CompletesOwn ==
  ASSUME NEW w \in Workers, Workers = {w}, OnlyStages, PagesHold, DInv(w), [INext]_vars,
         NEW j \in Ids, jobs'[j].status = "completed", jobs[j].status # "completed"
  PROVE  workers[w].pc = "complete" /\ workers[w].job = j
<1>1. IndInv /\ ~UNCHANGED jobs /\ ~Effect({}, {})
  BY DEF DInv, AInv, Effect
<1>2. ~((\E s \in Submissions : StartStage(s)) \/ Control \/ (\E i \in Ids : Resume(i)) \/ Tick)
  BY <1>1, SubmitEffect, ControlEffect, TickEffect DEF StartStage, Control
<1>3. WorkerMoves(w)
  BY <1>1, <1>2 DEF INext, vars, Crash, Die
<1>4. ~Load(w)
  BY <1>1 DEF Load, LoadJob
<1>5. ~(IdentityMoves(w) \/ MetadataMoves(w))
  <2>1. IdentityMoves(w) \/ MetadataMoves(w) => Does(w)
    BY HandlerDoes
  <2> QED
    BY <2>1 DEF Does, Acts, Effect
<1>6. ProcessMoves(w)
  BY <1>3, <1>4, <1>5 DEF WorkerMoves
<1>7. /\ NoLocal \in Locals /\ workers \in [Workers -> Worker(StagePoints, Locals)] /\ LinkInv
  BY DEF OnlyStages, Locals, Nothing, DInv, AInv, StagesTyped
<1>8. ProcessActs(w)
  BY <1>1, <1>6, <1>7, ProcessMovesActs
<1> QED
  BY <1>8 DEF ProcessActs, Acts, Effect

\* What is to be there, in the words of the property.
LEMMA DoneIsDone ==
  ASSUME NEW j \in Ids, jobs[j].sub.kind \in {"detect", "hash", "media", "relations"},
         DoneIn(store, jobs[j].sub, j \in early)
  PROVE  WorkDone(j)
<1> DEFINE sub == jobs[j].sub
           e == j \in early
<1>1. ScopeIn(store, sub, e) =
        IF sub.scope = "all" THEN Files ELSE IF e THEN {} ELSE Candidates
  BY DEF ScopeIn, Candidates
<1>2. \A kind : ThereIn(store, kind) => GroupsAreThere(kind)
  BY SameCounts DEF ThereIn, GroupsAreThere
<1>3. \A reason, f : Asked(store, reason, f) <=> Reviewed(reason, f)
  BY DEF Asked, Reviewed
<1>4. \A n, after : Found(n, after) = FoundIn(store, n, after)
  BY FoundNow
<1>5. CASE sub.kind = "detect"
  BY <1>2, <1>5 DEF DoneIn, WorkDone
<1>6. CASE sub.kind = "hash"
  <2>1. /\ \A f \in ScopeIn(store, sub, e) :
             store.hashes[f] # 0 \/ (f \in store.unhashed /\ Reviewed("stale", f))
        /\ GroupsAreThere("exact")
        /\ \A k \in Duplicated("exact") : Reviewed("keeper", k)
    BY <1>2, <1>3, <1>6, SameCounts DEF DoneIn, HashedIn
  <2> QED
    BY <1>1, <1>6, <2>1 DEF WorkDone
<1>7. CASE sub.kind = "media"
  BY <1>3, <1>7 DEF DoneIn, WorkDone, MediaIn
<1>8. CASE sub.kind = "relations"
  <2>1. store.semantic = UNION {FoundIn(store, s, 0) : s \in Sweeps}
    BY <1>8 DEF DoneIn
  <2> QED
    BY <1>4, <1>8, <2>1 DEF WorkDone
<1> QED
  BY <1>5, <1>6, <1>7, <1>8

\* "restartable ... its own durable job and checkpoint": with one worker, a job that
\* completes has dealt with every file and group in its scope, whatever interrupted it on
\* the way, and however often it began again from the checkpoint.
THEOREM CompletedJobsDone ==
  ASSUME NEW w \in Workers, Workers = {w}, OnlyStages, OneOfAKind, PagesHold
  PROVE  ISpec => CompletedMeansDone
<1>1. IInit => DInv(w)
  BY DInvInit
<1>2. DInv(w) /\ [INext]_vars => DInv(w)'
  BY DInvNext
<1>3. ASSUME DInv(w), [INext]_vars, NEW j \in Ids,
             jobs'[j].status = "completed", jobs[j].status # "completed"
      PROVE  WorkDone(j)
  <2>1. workers[w].pc = "complete" /\ workers[w].job = j
    BY <1>3, CompletesOwn
  <2>2. DoneIn(store, jobs[j].sub, j \in early)
    BY <1>3, <2>1 DEF DInv, WorkerInv, Work, BusyPoints
  <2>3. jobs[j].sub.kind \in {"detect", "hash", "media", "relations"}
    BY <1>3, RowsOfTable DEF DInv, AInv, IndInv, TypeOK, Ids, Row, OnlyStages
  <2> QED
    BY <2>2, <2>3, DoneIsDone
<1>4. DInv(w) /\ [INext]_vars =>
        [\A j \in Ids : jobs'[j].status = "completed" /\ jobs[j].status # "completed"
           => WorkDone(j)]_vars
  BY <1>3
<1> QED
  BY <1>1, <1>2, <1>4, PTL DEF ISpec, CompletedMeansDone

=============================================================================
