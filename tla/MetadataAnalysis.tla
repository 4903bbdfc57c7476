-------------------------- MODULE MetadataAnalysis --------------------------
(***************************************************************************)
(* The handlers of media.analyze and relationships.analyze in              *)
(* src/intelligence/analysis-job.ts: what every file is, with the reviews  *)
(* that its analysis asks for, and which files belong together.            *)
(*                                                                         *)
(* Abstractions. The analyzers that support a file are one, and their      *)
(* results are "ok" or "failed"; a result is found again by the signature  *)
(* of the observation, in this scan or in an earlier one. The optional     *)
(* local model is left out. The files that the analysis is unsure of have  *)
(* one extension, so a remembered rule is about all of them.               *)
(***************************************************************************)
EXTENDS CatalogAnalysis

CONSTANTS
  Earlier,   \* the analyzer result of each file in an earlier scan
  Flaky,     \* the files whose analyzers may fail
  Unsure,    \* the files whose classification needs a review without a rule
  Evidence,  \* for each sweep of the relationship job, what it can find
  RelatedPageSize  \* how much of it is read together

\* Files that belong together: their place in the order of the sweep that
\* finds them, the path it continues behind, which two pairs of one source
\* share, and the files that must have been understood before.
Relations == [place : Nat \ {0}, at : Nat \ {0}, members : SUBSET Files, needs : SUBSET Files]
Sweeps == DOMAIN Evidence     \* projects, pairs of renderings, albums

ASSUME MetadataAssumption ==
  /\ Earlier \in [Files -> {"none", "ok", "failed"}]
  /\ Flaky \subseteq Files /\ Unsure \subseteq Files
  /\ Sweeps = 1 .. 3
  /\ \A s \in Sweeps :
       /\ Evidence[s] \subseteq Relations
       /\ \A r, q \in Evidence[s] : r.place = q.place => r = q
  /\ RelatedPageSize \in Nat \ {0}

MetadataPoints ==
  {"media", "mediaPage", "mediaApproved", "mediaChunk", "mediaFiles", "mediaSave",
   "mediaReport", "relations", "relClear", "relPage", "relGroup", "relContext", "relReport"}

-----------------------------------------------------------------------------
(* media.analyze.                                                          *)

BeginMedia(w) == Begin(w, "media", "mediaPage", Nothing)

MediaPage(w) ==
  /\ At(w, "mediaPage") /\ UNCHANGED store
  /\ LET tasks == First(PageSize, analysisTasks(Saved(w)))
     IN Controlled(w, IF tasks = {} THEN "finish" ELSE "mediaApproved",
                   [Nothing EXCEPT !.page = tasks])

\* loadApprovedLibrary, once for the page.
MediaApproved(w) ==
  /\ At(w, "mediaApproved") /\ UNCHANGED <<jobs, store>>
  /\ IF root = "revoked" THEN Throw(w, TRUE) ELSE Goto(w, "mediaChunk")

MediaChunk(w) ==
  /\ At(w, "mediaChunk") /\ UNCHANGED store
  /\ Controlled(w, "mediaFiles", Begun(Local(w)))

\* createSourceFailure: the file is left out of the results.
createSourceFailure(f) ==
  store' = [store EXCEPT !.reviews = createNeedsReview(@, <<"stale", f>>)]

\* analyzeTask up to its first look at the file.
StartTask(w, f) ==
  /\ At(w, "mediaFiles") /\ f \in Local(w).todo
  /\ UNCHANGED jobs
  /\ LET started == [Local(w) EXCEPT !.todo = @ \ {f}]
     IN IF f \in stale
        THEN Continue(w, "mediaFiles", started) /\ createSourceFailure(f)
        ELSE /\ Continue(w, "mediaFiles", [started EXCEPT !.reading = @ \cup {f}])
             /\ UNCHANGED store

Reusable(f) == IF store.results[f] # "none" THEN store.results[f] ELSE Earlier[f]

\* Its results, the second look, and classify.
FinishTask(w, f) ==
  /\ At(w, "mediaFiles") /\ f \in Local(w).reading
  /\ UNCHANGED jobs
  /\ LET finished == [Local(w) EXCEPT !.reading = @ \ {f}]
     IN IF f \in stale
        THEN Continue(w, "mediaFiles", finished) /\ createSourceFailure(f)
        ELSE /\ UNCHANGED store
             /\ \E result \in IF Reusable(f) # "none" THEN {"reused"}
                              ELSE IF f \in Flaky THEN {"ok", "failed"} ELSE {"ok"} :
                  Continue(w, "mediaFiles", [finished EXCEPT
                    !.done = @ \cup {[file |-> f, result |-> result,
                                      unsure |-> f \in Unsure /\ ~store.rule]}])

\* The outcomes of the chunk are written one after the other, each in three
\* calls: the results, the understanding, and the reviews.
ChunkAnalyzed(w) == At(w, "mediaFiles") /\ Local(w).todo = {} /\ Local(w).reading = {}
NextOutcome(w) == CHOOSE o \in Local(w).done : \A p \in Local(w).done : o.file <= p.file

saveAnalyzerResult(w) ==
  LET o == NextOutcome(w)
  IN /\ ChunkAnalyzed(w) /\ Local(w).done # {} /\ Local(w).cursor = 0
     /\ store' = [store EXCEPT !.results[o.file] =
                    IF o.result = "reused" THEN Reusable(o.file) ELSE o.result]
     /\ Continue(w, "mediaFiles", [Local(w) EXCEPT !.cursor = 1]) /\ UNCHANGED jobs

\* The row is replaced, whoever wrote it.
saveUnderstanding(w) ==
  LET o == NextOutcome(w)
  IN /\ ChunkAnalyzed(w) /\ Local(w).cursor = 1
     /\ store' = [store EXCEPT !.files[o.file] = IF o.unsure THEN "unsure" ELSE "confident"]
     /\ Continue(w, "mediaFiles", [Local(w) EXCEPT !.cursor = 2]) /\ UNCHANGED jobs

createReviewItems(w) ==
  LET o == NextOutcome(w)
      unsure == IF o.unsure THEN createNeedsReview(store.reviews, <<"unsure", o.file>>)
                            ELSE store.reviews
  IN /\ ChunkAnalyzed(w) /\ Local(w).cursor = 2
     /\ store' = [store EXCEPT !.reviews =
          IF o.result = "failed" THEN createNeedsReview(unsure, <<"failed", o.file>>) ELSE unsure]
     /\ Continue(w, "mediaFiles", [Local(w) EXCEPT !.cursor = 0, !.done = @ \ {o}])
     /\ UNCHANGED jobs

SaveAnalyzed(w) ==
  /\ ChunkAnalyzed(w) /\ Local(w).done = {}
  /\ Save(w, "mediaFiles", Local(w).last, "mediaReport", Local(w))

ReportAnalyzed(w) ==
  Report(w, "mediaReport", IF Local(w).page = {} THEN "mediaPage" ELSE "mediaChunk", Local(w))

-----------------------------------------------------------------------------
(* relationships.analyze, which starts again from nothing. `last` is the   *)
(* number of the sweep, `cursor` how far it has come.                      *)

BeginRelations(w) ==
  /\ At(w, "relations") /\ UNCHANGED <<jobs, store>>
  /\ IF root = "revoked" THEN Throw(w, TRUE) ELSE Goto(w, "relClear")

clearSemanticAnalysis(w) ==
  /\ At(w, "relClear") /\ UNCHANGED jobs
  /\ store' = [store EXCEPT !.semantic = {}]
  /\ Continue(w, "relPage", [Nothing EXCEPT !.last = 1])

Sweep(w) == Local(w).last

\* projectSignals, mediaPairCandidates and albumCandidates: what there is now
\* behind the cursor. An album and a pair need the understanding of their
\* files.
Found(s, after) ==
  {r \in Evidence[s] : r.at > after /\ \A f \in r.needs : store.files[f] # "none"}

RelationPage(w) ==
  /\ At(w, "relPage") /\ UNCHANGED store
  /\ LET page == First(RelatedPageSize, {r.place : r \in Found(Sweep(w), Local(w).cursor)})
         next == [Nothing EXCEPT !.last = Sweep(w), !.cursor = Local(w).cursor, !.page = page]
     IN IF page # {} THEN Controlled(w, "relGroup", next)
        ELSE IF Sweep(w) < 3
             THEN Controlled(w, "relPage", [Nothing EXCEPT !.last = Sweep(w) + 1])
             ELSE Controlled(w, "finish", Nothing)

Current(w) == CHOOSE r \in Evidence[Sweep(w)] : r.place = Least(Local(w).page)

\* saveSemanticGroup: the group with its members, whatever was there.
saveSemanticGroup(w) ==
  /\ At(w, "relGroup") /\ Local(w).page # {} /\ UNCHANGED jobs
  /\ store' = [store EXCEPT !.semantic = @ \cup {Current(w)}]
  /\ Goto(w, "relContext")

\* applyGroupContext; a pair has a relationship instead, which is not kept apart.
applyGroupContext(w) ==
  /\ At(w, "relContext") /\ UNCHANGED jobs
  /\ store' = IF Sweep(w) = 2 THEN store
              ELSE [store EXCEPT !.files = [f \in Files |->
                      IF f \in Current(w).members /\ @[f] = "unsure" THEN "confident" ELSE @[f]]]
  /\ Continue(w, "relGroup", [Local(w) EXCEPT !.cursor = Current(w).at,
                                              !.page = @ \ {Current(w).place}])

ReportRelations(w) == Local(w).page = {} /\ Report(w, "relGroup", "relPage", Local(w))

MetadataMoves(w) ==
  \/ BeginMedia(w) \/ MediaPage(w) \/ MediaApproved(w) \/ MediaChunk(w)
  \/ \E f \in Files : StartTask(w, f) \/ FinishTask(w, f)
  \/ saveAnalyzerResult(w) \/ saveUnderstanding(w) \/ createReviewItems(w)
  \/ SaveAnalyzed(w) \/ ReportAnalyzed(w)
  \/ BeginRelations(w) \/ clearSemanticAnalysis(w) \/ RelationPage(w)
  \/ saveSemanticGroup(w) \/ applyGroupContext(w) \/ ReportRelations(w)
=============================================================================
