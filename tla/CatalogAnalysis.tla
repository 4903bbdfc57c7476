--------------------------- MODULE CatalogAnalysis ---------------------------
(***************************************************************************)
(* What the analysis jobs of src/intelligence share: the tables of         *)
(* intelligence-store.ts about one completed scan, the files on disk, the  *)
(* user, and the steps that are the same in every handler.                 *)
(*                                                                         *)
(* A handler goes through the files of the scan in the order of their      *)
(* paths, which are the numbers 1 .. N here: a page at a time, and within  *)
(* a page as many as it works on concurrently (a chunk); the checkpoint is *)
(* a position in that order.                                               *)
(*                                                                         *)
(* Abstractions. The scan has completed and its records do not change. A   *)
(* file matches its observation or has become stale, for good. Decisions   *)
(* about the members of a duplicate group are there or not; the reasons    *)
(* for which the analysis of one file asks for a review are one, but for   *)
(* the failure of an analyzer. Counts, and the stages that the pages show, *)
(* are left out: no handler reads them. An error of the root guard and a   *)
(* lost lease are the only exceptions.                                     *)
(***************************************************************************)
EXTENDS WorkerProcess

CONSTANTS
  Files,       \* the observed files of the scan, 1 .. N in the order of their paths
  Size,        \* the byte length of each
  Content,     \* the SHA-256 of what each held when it was observed
  PageSize,    \* tasks read together
  Chunk,       \* tasks worked on concurrently
  Touchable,   \* bound: the files that the user changes
  MaxActs      \* bound: what the user does

N == Cardinality(Files)
Sizes == {Size[f] : f \in Files}
Digests == {Content[f] : f \in Files}

ASSUME AnalysisAssumption ==
  /\ N \in Nat /\ Files = 1 .. N
  /\ Size \in [Files -> Nat \ {0}] /\ Content \in [Files -> Nat \ {0}]
  /\ \A f, g \in Files : Content[f] = Content[g] => Size[f] = Size[g]
  /\ PageSize \in Nat \ {0} /\ Chunk \in Nat \ {0} /\ Touchable \subseteq Files /\ MaxActs \in Nat

VARIABLES
  store,   \* the tables that the handlers write
  stale,   \* the files that no longer match their observation
  root,    \* the library is "approved" or its approval is "revoked"
  heavy,   \* settings.pauseHeavyWork
  acts     \* how often the user has acted

\* A duplicate group: its members, and those the user has decided about.
Group == [members : SUBSET Files, decided : SUBSET Files]
NoGroup == [members |-> {}, decided |-> {}]
GroupKinds == {"candidate", "exact"}
Keys == [candidate |-> Sizes, exact |-> Digests]
ReviewKeys == {"stale", "unsure", "failed"} \X Files \cup {"keeper"} \X Digests
Understandings == {"none", "unsure", "confident", "chosen"}

EmptyStore(semantic) ==
  [hashes   |-> [f \in Files |-> 0],          \* file_hashes: 0 for no row
   unhashed |-> {},                           \* failed results of "content-hash"
   groups   |-> [kind \in GroupKinds |-> [k \in Keys[kind] |-> NoGroup]],
   reviews  |-> [k \in ReviewKeys |-> "none"],
   results  |-> [f \in Files |-> "none"],     \* analyzer_results of the analyzers
   files    |-> [f \in Files |-> "none"],     \* file_understanding
   rule     |-> FALSE,                        \* classification_rules
   semantic |-> semantic]

-----------------------------------------------------------------------------
(* The store.                                                              *)

\* Faulty: an item that is raised again is open again.
createNeedsReview_Reopens(reviews, key) == [reviews EXCEPT ![key] = "open"]

createNeedsReview(reviews, key) ==
  [reviews EXCEPT ![key] = IF @ = "none" THEN "open" ELSE @]

\* hashTasks of both scopes; `after` is the cursor.
Candidates == UNION {store.groups["candidate"][k].members : k \in Sizes}
Scope(job) == IF job.sub.scope = "all" THEN Files ELSE Candidates
Tasks(scope, after) == {f \in scope : f > after}
analysisTasks(after) == Tasks(Files, after)
First(n, set) == {f \in set : Cardinality({g \in set : g <= f}) <= n}
Last(set) == CHOOSE f \in set : \A g \in set : g <= f
Least(set) == CHOOSE f \in set : \A g \in set : f <= g

-----------------------------------------------------------------------------
(* The handlers.                                                           *)

Local(w) == workers[w].local
Saved(w) == workers[w].saved
JobOf(w) == jobs[Job(w)]

\* What the analysis of a file has found, in memory.
TaskAnalysis == [file : Files, result : {"ok", "reused", "failed"}, unsure : BOOLEAN]

\* page: what is left of the page; todo: what is left of the chunk, not yet
\* begun; reading: the files that have been opened; done: what has come of
\* them, in memory; cursor: the position in the current sweep.
Locals ==
  [page : SUBSET Nat, todo : SUBSET Files, reading : SUBSET Files,
   done : SUBSET TaskAnalysis, last : Nat, cursor : Nat]
Nothing == [page |-> {}, todo |-> {}, reading |-> {}, done |-> {}, last |-> 0, cursor |-> 0]

\* context.throwIfControlRequested, and what is read from the store before
\* the next call that changes anything.
Controlled(w, point, local) ==
  /\ UNCHANGED jobs
  /\ CASE controlSignal(w) = "stale" -> Throw(w, TRUE)
       [] controlSignal(w) = "cancel" -> Goto(w, "ackCancel")
       [] controlSignal(w) = "pause" -> Goto(w, "ackPause")
       [] OTHER -> Continue(w, point, local)

\* The settings and the root, before anything else. The handler throws
\* JobPauseRequested when heavy work is paused, whatever the queue says; what
\* the root guard throws is retried.
Begin(w, from, to, local) ==
  /\ At(w, from) /\ UNCHANGED <<jobs, store>>
  /\ \/ heavy /\ Goto(w, "ackPause")
     \/ ~heavy /\ root = "revoked" /\ Throw(w, TRUE)
     \/ ~heavy /\ root = "approved" /\ Continue(w, to, local)

\* saveCheckpoint and reportProgress; a lease that is lost ends the attempt.
Save(w, from, c, to, local) ==
  /\ At(w, from) /\ UNCHANGED store
  /\ SaveContext(w, c, to, local) \/ (LeaseLost(w) /\ Throw(w, TRUE) /\ UNCHANGED jobs)

Report(w, from, to, local) ==
  /\ At(w, from) /\ UNCHANGED store
  /\ ReportContext(w, to, local) \/ (LeaseLost(w) /\ Throw(w, TRUE) /\ UNCHANGED jobs)

\* Faulty: counts the whole page as done when its first chunk is.
Begun_WholePage(local) ==
  LET chunk == First(Chunk, local.page)
  IN [local EXCEPT !.page = @ \ chunk, !.todo = chunk, !.last = Last(local.page), !.done = {}]

\* The first chunk of what is left of the page.
Begun(local) ==
  LET chunk == First(Chunk, local.page)
  IN [local EXCEPT !.page = @ \ chunk, !.todo = chunk, !.last = Last(chunk), !.done = {}]

-----------------------------------------------------------------------------
(* The user.                                                               *)

Act == acts < MaxActs /\ acts' = acts + 1

EditFile ==
  /\ Act
  /\ \E f \in Touchable \ stale : stale' = stale \cup {f}
  /\ UNCHANGED <<store, root, heavy>>

ChangeSettings ==
  /\ Act
  /\ \/ root' = "revoked" /\ root = "approved" /\ UNCHANGED heavy
     \/ root = "approved" /\ heavy' = ~heavy /\ UNCHANGED root
  /\ UNCHANGED <<store, stale>>

\* A keeper is chosen, or everything is kept: every member has a decision.
decideDuplicateGroup(kind, k) ==
  /\ Act
  /\ store.groups[kind][k] # NoGroup
  /\ store' = [store EXCEPT
       !.groups[kind][k].decided = store.groups[kind][k].members,
       !.reviews = IF kind = "exact" /\ @[<<"keeper", k>>] = "open"
                   THEN [@ EXCEPT ![<<"keeper", k>>] = "resolved"] ELSE @]
  /\ UNCHANGED <<stale, root, heavy>>

\* The item, decided already or not, is dismissed or resolved. With a category
\* for its file the file has it, and it can be remembered for the extension.
resolveNeedsReview(key) ==
  /\ Act
  /\ store.reviews[key] # "none"
  /\ \/ \E status \in {"resolved", "dismissed"} : store' = [store EXCEPT !.reviews[key] = status]
     \/ /\ key[1] # "keeper"
        /\ \E remember \in {store.rule, TRUE} :
             store' = [store EXCEPT
               !.reviews[key] = "resolved",
               !.files[key[2]] = IF @ = "none" THEN @ ELSE "chosen",
               !.rule = remember]
  /\ UNCHANGED <<stale, root, heavy>>

UserActs ==
  \/ EditFile \/ ChangeSettings
  \/ \E kind \in GroupKinds : \E k \in Keys[kind] : decideDuplicateGroup(kind, k)
  \/ \E key \in ReviewKeys : resolveNeedsReview(key)
=============================================================================
