--------------------------- MODULE ContentIdentity ---------------------------
(***************************************************************************)
(* The handlers of duplicates.detect and content.hash in                   *)
(* src/intelligence/hash-job.ts: candidate groups of files of one size,    *)
(* the SHA-256 of every file in scope, and exact groups of files with one  *)
(* digest, for which a keeper is to be chosen in Needs Review.             *)
(*                                                                         *)
(* The checkpoint of detect is 0 before the groups are cleared and 1 + k   *)
(* with the size k done; that of hash is the last file hashed, N + 1 when  *)
(* the exact groups are to be cleared, and N + 2 + k with the digest k     *)
(* done.                                                                   *)
(***************************************************************************)
EXTENDS CatalogAnalysis

CONSTANT Known   \* the files with a hash in an earlier scan that can be reused

ASSUME IdentityAssumption ==
  /\ Known \subseteq Files /\ N + 2 <= MaxUnits
  /\ \A k \in Sizes : 1 + k <= MaxUnits
  /\ \A k \in Digests : N + 2 + k <= MaxUnits

IdentityPoints ==
  {"detect", "hash", "hashPage", "hashChunk", "hashFiles", "hashReport", "hashed",
   "clear", "cleared", "groupPage", "group", "groupSave", "groupReport"}

KindOf(w) == IF JobOf(w).sub.kind = "detect" THEN "candidate" ELSE "exact"
FirstGroup(w) == IF KindOf(w) = "candidate" THEN 1 ELSE N + 2

-----------------------------------------------------------------------------
(* The store.                                                              *)

saveHash(f, digest) == store' = [store EXCEPT !.hashes[f] = digest]

\* recordHashFailure.
recordHashFailure(f) ==
  store' = [store EXCEPT !.unhashed = @ \cup {f},
                         !.reviews = createNeedsReview(@, <<"stale", f>>)]

\* The files of one size, and the files recorded with one digest.
MembersNow(kind, k) ==
  IF kind = "candidate" THEN {f \in Files : Size[f] = k}
  ELSE {f \in Files : store.hashes[f] = k}

\* candidateSizeGroups and exactHashGroups.
GroupsAfter(kind, after) ==
  {k \in Keys[kind] : k > after /\ Cardinality(MembersNow(kind, k)) > 1}

clearDuplicateGroups(kind) ==
  store' = [store EXCEPT !.groups[kind] = [k \in Keys[kind] |-> NoGroup]]

\* Members are added or replaced, and keep what was decided about them.
upsertGroup(kind, k) ==
  [store EXCEPT !.groups[kind][k].members = @ \cup MembersNow(kind, k)]

-----------------------------------------------------------------------------
(* hashFiles.                                                              *)

BeginHash(w) ==
  Begin(w, "hash",
        IF Saved(w) <= N THEN "hashPage" ELSE IF Saved(w) = N + 1 THEN "clear" ELSE "groupPage",
        Nothing)

HashPage(w) ==
  /\ At(w, "hashPage") /\ UNCHANGED store
  /\ LET tasks == First(PageSize, Tasks(Scope(JobOf(w)), Saved(w)))
     IN Controlled(w, IF tasks = {} THEN "hashed" ELSE "hashChunk", [Nothing EXCEPT !.page = tasks])

HashChunk(w) ==
  /\ At(w, "hashChunk") /\ UNCHANGED store
  /\ IF root = "revoked" /\ controlSignal(w) = "continue"
     THEN Throw(w, TRUE) /\ UNCHANGED jobs
     ELSE Controlled(w, "hashFiles", Begun(Local(w)))

\* Whether a file is as the catalog has it.
matchesObservation(f) == f \notin stale

\* A hash of this record or of an earlier scan makes reading unnecessary; a
\* path that is refused or does not match is a failure; else it is read.
StartFile(w, f) ==
  /\ At(w, "hashFiles") /\ f \in Local(w).todo
  /\ UNCHANGED jobs
  /\ LET started == [Local(w) EXCEPT !.todo = @ \ {f}]
     IN CASE store.hashes[f] # 0 -> Continue(w, "hashFiles", started) /\ UNCHANGED store
          [] store.hashes[f] = 0 /\ f \in Known ->
               Continue(w, "hashFiles", started) /\ saveHash(f, Content[f])
          [] store.hashes[f] = 0 /\ f \notin Known /\ ~matchesObservation(f) ->
               Continue(w, "hashFiles", started) /\ recordHashFailure(f)
          [] OTHER -> /\ Continue(w, "hashFiles", [started EXCEPT !.reading = @ \cup {f}])
                      /\ UNCHANGED store

\* The digest of a file that changed while it was read is one of no
\* observation.
Computed(f) == IF f \in stale THEN Content[CHOOSE g \in Files : Content[g] # Content[f]]
                              ELSE Content[f]

\* Faulty: does not look at the file again after it was read.
FinishFile_NoSecondLook(w, f) ==
  /\ At(w, "hashFiles") /\ f \in Local(w).reading
  /\ Continue(w, "hashFiles", [Local(w) EXCEPT !.reading = @ \ {f}])
  /\ UNCHANGED jobs
  /\ saveHash(f, Computed(f))

FinishFile(w, f) ==
  /\ At(w, "hashFiles") /\ f \in Local(w).reading
  /\ Continue(w, "hashFiles", [Local(w) EXCEPT !.reading = @ \ {f}])
  /\ UNCHANGED jobs
  /\ IF matchesObservation(f) THEN saveHash(f, Computed(f)) ELSE recordHashFailure(f)

SaveHashed(w) ==
  /\ Local(w).todo = {} /\ Local(w).reading = {}
  /\ Save(w, "hashFiles", Local(w).last, "hashReport", Local(w))

ReportHashed(w) ==
  Report(w, "hashReport", IF Local(w).page = {} THEN "hashPage" ELSE "hashChunk", Local(w))

\* The phase changes, and with it what the checkpoint says.
HashingDone(w) == Save(w, "hashed", N + 1, "clear", Nothing)

-----------------------------------------------------------------------------
(* buildExactGroups, and the whole of duplicates.detect.                   *)

\* Neither the settings nor the root matter to detect, which opens no file.
BeginDetect(w) ==
  /\ At(w, "detect") /\ UNCHANGED <<jobs, store>>
  /\ Continue(w, IF Saved(w) = 0 THEN "clear" ELSE "groupPage", Nothing)

Clear(w) ==
  /\ At(w, "clear") /\ UNCHANGED jobs
  /\ clearDuplicateGroups(KindOf(w)) /\ Goto(w, "cleared")

SaveCleared(w) == Save(w, "cleared", FirstGroup(w), "groupPage", Nothing)

GroupPage(w) ==
  /\ At(w, "groupPage") /\ UNCHANGED store
  /\ LET keys == First(PageSize, GroupsAfter(KindOf(w), Saved(w) - FirstGroup(w)))
     IN Controlled(w, IF keys = {} THEN "finish" ELSE "group",
                   IF keys = {} THEN Nothing
                   ELSE [Nothing EXCEPT !.page = keys, !.last = Last(keys)])

\* Detect looks for a request before each group. A keeper is asked for in a
\* call of its own.
UpsertGroup(w) ==
  /\ At(w, "group") /\ Local(w).page # {} /\ Local(w).cursor = 0
  /\ LET kind == KindOf(w)
         k == Least(Local(w).page)
     IN IF kind = "candidate" /\ controlSignal(w) # "continue"
        THEN ThrowIfControlRequested(w, "group") /\ UNCHANGED store
        ELSE /\ UNCHANGED jobs
             /\ store' = upsertGroup(kind, k)
             /\ Continue(w, "group", IF kind = "candidate"
                                     THEN [Local(w) EXCEPT !.page = @ \ {k}]
                                     ELSE [Local(w) EXCEPT !.cursor = k])

AskForKeeper(w) ==
  /\ At(w, "group") /\ Local(w).cursor # 0
  /\ store' = [store EXCEPT !.reviews = createNeedsReview(@, <<"keeper", Local(w).cursor>>)]
  /\ Continue(w, "group", [Local(w) EXCEPT !.page = @ \ {Local(w).cursor}, !.cursor = 0])
  /\ UNCHANGED jobs

SaveGroups(w) ==
  /\ Local(w).page = {}
  /\ Save(w, "group", FirstGroup(w) + Local(w).last, "groupReport", Nothing)

ReportGroups(w) == Report(w, "groupReport", "groupPage", Nothing)

\* The pages of groups, a group at a time.
GroupMoves(w) ==
  GroupPage(w) \/ UpsertGroup(w) \/ AskForKeeper(w) \/ SaveGroups(w) \/ ReportGroups(w)

IdentityMoves(w) ==
  \/ BeginHash(w) \/ HashPage(w) \/ HashChunk(w)
  \/ \E f \in Files : StartFile(w, f) \/ FinishFile(w, f)
  \/ SaveHashed(w) \/ ReportHashed(w) \/ HashingDone(w)
  \/ BeginDetect(w) \/ Clear(w) \/ SaveCleared(w) \/ GroupMoves(w)
=============================================================================
