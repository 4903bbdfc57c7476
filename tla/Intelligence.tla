---------------------------- MODULE Intelligence ----------------------------
(***************************************************************************)
(* The analysis of one completed scan: the jobs that AnalysisService.start *)
(* of src/intelligence/analysis-service.ts submits, their four handlers in *)
(* the workers, and the user who decides about what they find.             *)
(***************************************************************************)
EXTENDS ContentIdentity, MetadataAnalysis

VARIABLE early   \* the jobs that were begun before the candidates had been detected

vars == <<jobs, workers, crashes, store, stale, root, heavy, acts, early>>

\* A stage is scheduled while the library is approved and heavy work is not
\* paused; hashing is never asked for without the candidates. The key of a
\* job names the stage, the scan and the scope, so no job is submitted again.
StartStage(s) ==
  /\ root = "approved" /\ ~heavy
  /\ s.kind = "hash" => \E j \in Ids : jobs[j].sub.kind = "detect"
  /\ Submit(s)

\* The handler of the job's kind.
Load(w) ==
  /\ LoadJob(w, JobOf(w).sub.kind, Nothing) /\ UNCHANGED store
  /\ early' = IF \E j \in Ids : jobs[j].sub.kind = "detect" /\ jobs[j].status = "completed"
              THEN early ELSE early \cup {Job(w)}

WorkerMoves(w) ==
  \/ Load(w)
  \/ (IdentityMoves(w) \/ MetadataMoves(w)) /\ UNCHANGED early
  \/ ProcessMoves(w) /\ UNCHANGED <<store, early>>

Control == \E j \in Ids : RequestPause(j) \/ Cancel(j)

IInit ==
  /\ ProcessInit
  /\ store = EmptyStore({})
  /\ stale = {} /\ root = "approved" /\ heavy = FALSE /\ acts = 0 /\ early = {}

INext ==
  \/ \E s \in Submissions :
       StartStage(s) /\ UNCHANGED <<workers, crashes, store, stale, root, heavy, acts, early>>
  \/ \E j \in Ids : Resume(j) /\ UNCHANGED <<workers, crashes, store, stale, root, heavy, acts, early>>
  \/ Control /\ Act /\ UNCHANGED <<workers, crashes, store, stale, root, heavy, early>>
  \/ Tick /\ UNCHANGED <<workers, crashes, store, stale, root, heavy, acts, early>>
  \/ \E w \in Workers : WorkerMoves(w) /\ UNCHANGED <<crashes, stale, root, heavy, acts>>
  \/ \E w \in Workers : Crash(w) /\ UNCHANGED <<store, stale, root, heavy, acts, early>>
  \/ UserActs /\ UNCHANGED <<jobs, workers, crashes, early>>

ISpec == IInit /\ [][INext]_vars

-----------------------------------------------------------------------------
(* Properties.                                                             *)

\* Every table and process has its type.
ITypeOK ==
  /\ TypeOK
  /\ workers \in [Workers -> Worker(IdentityPoints \cup MetadataPoints, Locals)]
  /\ crashes \in 0 .. MaxCrashes
  /\ store.hashes \in [Files -> Digests \cup {0}] /\ store.unhashed \subseteq Files
  /\ \A kind \in GroupKinds : store.groups[kind] \in [Keys[kind] -> Group]
  /\ store.reviews \in [ReviewKeys -> {"none", "open", "resolved", "dismissed"}]
  /\ store.results \in [Files -> {"none", "ok", "failed"}]
  /\ store.files \in [Files -> Understandings] /\ store.rule \in BOOLEAN
  /\ store.semantic \subseteq UNION {Evidence[s] : s \in Sweeps}
  /\ stale \subseteq Files /\ root \in {"approved", "revoked"}
  /\ heavy \in BOOLEAN /\ acts \in 0 .. MaxActs /\ early \subseteq 1 .. MaxJobs

\* "Only complete SHA-256 matches are shown as verified exact duplicates": a
\* file is recorded with the digest of what was inventoried, even when it
\* changes while it is read, and an exact group never joins two contents.
ExactGroupsAreExact ==
  /\ \A f \in Files : store.hashes[f] \in {0, Content[f]}
  /\ \A k \in Digests : \A f \in store.groups["exact"][k].members : Content[f] = k

Reviewed(reason, f) == store.reviews[<<reason, f>>] # "none"

Duplicated(kind) == {k \in Keys[kind] : Cardinality(MembersNow(kind, k)) > 1}
GroupsAreThere(kind) ==
  \A k \in Keys[kind] :
    store.groups[kind][k].members = IF k \in Duplicated(kind) THEN MembersNow(kind, k) ELSE {}

\* What each job is there for. The hashing of candidates covers what was
\* detected before it began: a detection that was paused, or has failed, comes
\* too late for it.
WorkDone(j) ==
  LET job == jobs[j]
      scope == IF job.sub.scope = "all" THEN Files ELSE IF j \in early THEN {} ELSE Candidates
  IN
  CASE job.sub.kind = "detect" -> GroupsAreThere("candidate")
    [] job.sub.kind = "hash" ->
         /\ \A f \in scope : store.hashes[f] # 0 \/ (f \in store.unhashed /\ Reviewed("stale", f))
         /\ GroupsAreThere("exact")
         /\ \A k \in Duplicated("exact") : Reviewed("keeper", k)
    [] job.sub.kind = "media" ->
         \A f \in Files : \/ Reviewed("stale", f)
                          \/ /\ store.files[f] # "none" /\ store.results[f] # "none"
                             /\ store.files[f] = "unsure" => Reviewed("unsure", f)
    [] job.sub.kind = "relations" -> store.semantic = UNION {Found(s, 0) : s \in Sweeps}

\* "restartable ... its own durable job and checkpoint": whatever interrupted
\* it, a job that completes has dealt with every file and group in its scope.
CompletedMeansDone ==
  [][\A j \in Ids : jobs'[j].status = "completed" /\ jobs[j].status # "completed"
       => WorkDone(j)]_vars

\* "Review decisions are durable": an item that was decided is not opened again
\* when an analysis that is repeated raises it again, and it is the user alone who
\* decides it otherwise (intelligence-store.ts:1314, 1380-1392).
DecidedStaysDecided ==
  [][\A k \in ReviewKeys : store.reviews[k] \in {"resolved", "dismissed"} =>
       /\ store'.reviews[k] \in {"resolved", "dismissed"}
       /\ store'.reviews[k] # store.reviews[k] => resolveNeedsReview(k)]_vars

=============================================================================
