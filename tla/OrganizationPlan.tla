-------------------------- MODULE OrganizationPlan --------------------------
(***************************************************************************)
(* The planner of src/organization/organization-planner.ts on top of the   *)
(* scan whose records it reads: createPlan goes through the file records   *)
(* of the latest scan page by page, looks at the evidence that analysis    *)
(* and the user's reviews have left by then, and stores one operation for  *)
(* each file that is to move.                                              *)
(*                                                                         *)
(* The server plans while workers and the user go on. What has been        *)
(* planned is in its memory until the whole plan is stored, and lost with  *)
(* the process.                                                            *)
(*                                                                         *)
(* Abstractions. The destination that category, date and strategy give a   *)
(* file is one of the constant Desired, and Named are the names that it is *)
(* given in turn, with a suffix from the second on. A destination is never *)
(* where the file is, because files in the target directory stay.          *)
(* A group of duplicates is given the members of the constant Exact when   *)
(* the hash job writes it, and every group loses its members when the job  *)
(* begins again; these steps come in any order, as those of two attempts   *)
(* of the job may. A file also stays when the analysis was uncertain of it *)
(* and its review is decided: left out, as are philosophies other than     *)
(* their scope, the bytes, the rationale and the validation of the         *)
(* options. Names are equal when the platform says so.                     *)
(***************************************************************************)
EXTENDS InventoryScan, SequencesExt

CONSTANTS
  Position,      \* the place of each file in the catalog's order of paths
  PageSize,      \* records read together
  ControlDir,    \* the library's control directory
  Hidden,        \* hidden files
  Grouped,       \* files of semantic groups
  Desired,       \* for each target directory, the destinations that a file may be given
  Named,         \* the names tried for each destination: its own, then those with a suffix
  Options,       \* the options that plans are made with
  Reviewable,    \* files that come into Needs Review on their own
  Exact          \* for each group of duplicates, the files that have its digest

Files == Paths \ Dirs
Groups == DOMAIN Exact
Destinations == UNION {ToSet(Named[d]) : d \in DOMAIN Named}

ASSUME PlanAssumption ==
  /\ Position \in [Files -> Nat] /\ \A f, g \in Files : Position[f] = Position[g] => f = g
  /\ PageSize \in Nat \ {0}
  /\ Hidden \subseteq Files /\ Grouped \subseteq Files /\ Reviewable \subseteq Files
  /\ Groups \cap Files = {} /\ \A d \in Groups : Exact[d] \subseteq Files
  /\ \A d \in DOMAIN Named : Named[d] \in Seq(Destinations) /\ Named[d] # <<>>
  /\ \A o \in Options : Desired[o.targetDirectory] \in [Files -> SUBSET DOMAIN Named]
  /\ \A o \in Options : /\ o.scope \in {"top-level", "all-files"}
                        /\ o.collisionPolicy \in {"skip", "rename-with-suffix"}
                        /\ o.includeHidden \in BOOLEAN /\ o.maximumOperations \in Nat \ {0}

VARIABLES
  plan,     \* the plan, a draft in the server's memory until it is ready
  reviews,  \* the reviews of files and of groups: none, open or decided
  members,  \* the files that each group has in duplicate_group_members
  held      \* the files found in review ever since the draft was begun

reviewing == <<reviews, members, held>>
planning == <<plan, reviewing>>
planVars == <<vars, planning>>

Counters == {"scannedFiles", "hiddenExcluded", "alreadyOrganized", "preservedByScope",
             "preservedCoherentGroups", "needsReviewExcluded", "limitedOut", "conflictsSkipped"}
NoOptions == [targetDirectory |-> ControlDir, scope |-> "all-files", collisionPolicy |-> "skip",
              includeHidden |-> TRUE, maximumOperations |-> 1]
NoPlan == [status |-> "none", options |-> NoOptions, read |-> {}, page |-> <<>>, last |-> FALSE,
           operations |-> <<>>, counts |-> [c \in Counters |-> 0]]

\* The files that an open review leads to: a group's by way of its members.
InReview ==
  {f \in Reviewable : reviews[f] = "open"}
    \cup UNION {members[d] : d \in {e \in Groups : reviews[e] = "open"}}

Observed == {p \in Paths : [path |-> p, status |-> "observed"] \in scan.records}
hasObservedPath(p) == p \in Observed

-----------------------------------------------------------------------------
(* One page, and the evidence for it.                                      *)

CreatePlan(options) ==
  /\ plan.status = "none"
  /\ Approved(CHOOSE w \in Workers : TRUE) /\ scan.status = "completed"
  /\ plan' = [NoPlan EXCEPT !.status = "draft", !.options = options]
  /\ held' = InReview /\ UNCHANGED <<reviews, members>>

\* Faulty: the last record of a page begins the next one.
list_FromTheCursor(read) ==
  {f \in Files \cap Observed : \A g \in read : Position[f] >= Position[g]}

\* The records behind the cursor, which is the last of those that were read.
list(read) == {f \in Files \cap Observed : \A g \in read : Position[f] > Position[g]}
FirstPage(found) ==
  {f \in found : Cardinality({g \in found : Position[g] <= Position[f]}) <= PageSize}

\* Faulty: counts on the analysis alone to say what needs a review.
organizationPlanningEvidence_NoReviews(f) == IF f \in Grouped THEN "group" ELSE "clear"

organizationPlanningEvidence(f) ==
  IF f \in Grouped THEN "group" ELSE IF f \in InReview THEN "needs-review" ELSE "clear"

ReadPage ==
  /\ plan.status = "draft" /\ DOMAIN plan.page = {} /\ ~plan.last
  /\ LET found == list(plan.read)
         page  == FirstPage(found)
     IN plan' = [plan EXCEPT !.page = [f \in page |-> organizationPlanningEvidence(f)],
                             !.read = @ \cup page,
                             !.last = Cardinality(found) <= PageSize]
  /\ UNCHANGED reviewing

-----------------------------------------------------------------------------
(* One record.                                                             *)

isWithin(p, dir) == p = dir \/ (dir \in Dirs /\ p \in Below[dir])
Reserved(p) == isWithin(p, ControlDir) \/ isWithin(p, plan.options.targetDirectory)
hasParent(p) == p \notin Children[Root]

\* What makes a file stay where it is, in the order in which the code asks; the
\* first that holds is the counter.
Reasons == <<"hiddenExcluded", "alreadyOrganized", "preservedByScope",
             "preservedCoherentGroups", "needsReviewExcluded", "limitedOut">>

StaysAs(f, counter) ==
  CASE counter = "hiddenExcluded" -> f \in Hidden /\ ~plan.options.includeHidden
    [] counter = "alreadyOrganized" -> Reserved(f)
    [] counter = "preservedByScope" -> plan.options.scope = "top-level" /\ hasParent(f)
    [] counter = "preservedCoherentGroups" -> plan.page[f] = "group"
    [] counter = "needsReviewExcluded" -> plan.page[f] = "needs-review"
    [] counter = "limitedOut" -> Len(plan.operations) >= plan.options.maximumOperations

Stays(f) == {k \in DOMAIN Reasons : StaysAs(f, Reasons[k])}

\* The file f is done with, and every counter of S is one more.
Done(f, S) ==
  [plan EXCEPT !.page = Restrict(@, DOMAIN @ \ {f}),
               !.counts = [c \in Counters |-> IF c \in S THEN @[c] + 1 ELSE @[c]]]
Count(f, counter) == Done(f, {"scannedFiles", counter})

planned == {plan.operations[i].destination : i \in DOMAIN plan.operations}

\* Faulty: looks at the files that were there, and not at the plan.
isAvailable_InTheScan(p) == ~hasObservedPath(p)

isAvailable(p) == p \notin planned /\ ~hasObservedPath(p)

\* The first name that is free, if there is one.
availableDestination(desired) ==
  LET names == Named[desired]
      tried == IF plan.options.collisionPolicy = "skip" THEN {1} ELSE DOMAIN names
  IN {names[k] : k \in {i \in tried : isAvailable(names[i])
                                      /\ \A n \in 1 .. i - 1 : ~isAvailable(names[n])}}

PlanMove(f, destination) ==
  plan' = [Done(f, {"scannedFiles"}) EXCEPT
             !.operations = Append(@, [source |-> f, destination |-> destination])]

\* The next record of the page.
PlanRecord(f) ==
  /\ plan.status = "draft" /\ \A g \in DOMAIN plan.page : Position[f] <= Position[g]
  /\ \/ \E k \in Stays(f) : (\A i \in Stays(f) : k <= i) /\ plan' = Count(f, Reasons[k])
     \/ /\ Stays(f) = {}
        /\ \E desired \in Desired[plan.options.targetDirectory][f] :
             \/ \E destination \in availableDestination(desired) : PlanMove(f, destination)
             \/ availableDestination(desired) = {} /\ plan' = Count(f, "conflictsSkipped")
  /\ UNCHANGED reviewing

\* organization-store's createPlan, one transaction.
StorePlan ==
  /\ plan.status = "draft" /\ DOMAIN plan.page = {} /\ plan.last
  /\ plan' = [plan EXCEPT !.status = "ready"]
  /\ UNCHANGED reviewing

ServerExit ==
  /\ plan.status = "draft" /\ plan' = NoPlan
  /\ held' = {} /\ UNCHANGED <<reviews, members>>

-----------------------------------------------------------------------------
(* Meanwhile the jobs on the completed scan and the user go on with the    *)
(* reviews.                                                                *)

Reviewed == scan.status = "completed" /\ held' = held \cap InReview' /\ UNCHANGED plan

\* What the user asks for, as often as MaxActs allows.
Asked == /\ acts < MaxActs /\ acts' = acts + 1
         /\ UNCHANGED <<jobs, workers, crashes, scan, disk, approval, touched, late>>

\* The jobs open a review once, and never again when it was decided.
createNeedsReview(k) ==
  /\ reviews[k] = "none" /\ reviews' = [reviews EXCEPT ![k] = "open"]
  /\ UNCHANGED members /\ Reviewed /\ UNCHANGED vars

\* The user resolves or dismisses a review, or decides on its group.
resolveNeedsReview(k) ==
  /\ reviews[k] # "none" /\ reviews' = [reviews EXCEPT ![k] = "decided"]
  /\ UNCHANGED members /\ Reviewed /\ Asked

upsertExactGroup(d) ==
  /\ members' = [members EXCEPT ![d] = @ \cup (Exact[d] \cap Observed)]
  /\ UNCHANGED reviews /\ Reviewed /\ UNCHANGED vars

\* Duplicates are looked for anew. The reviews of the groups stay as they are.
clearDuplicateGroups ==
  /\ members' = [d \in Groups |-> {}]
  /\ UNCHANGED reviews /\ Reviewed /\ Asked

ReviewMoves ==
  \/ \E k \in Reviewable \cup Groups : createNeedsReview(k) \/ resolveNeedsReview(k)
  \/ clearDuplicateGroups \/ \E d \in Groups : upsertExactGroup(d)

PlannerMoves ==
  \/ \E options \in Options : CreatePlan(options)
  \/ ReadPage \/ StorePlan \/ ServerExit
  \/ \E f \in DOMAIN plan.page : PlanRecord(f)

-----------------------------------------------------------------------------

PInit ==
  /\ SInit /\ plan = NoPlan /\ held = {}
  /\ reviews = [k \in Reviewable \cup Groups |-> "none"] /\ members = [d \in Groups |-> {}]

PNext ==
  \/ SNext /\ UNCHANGED planning
  \/ PlannerMoves /\ UNCHANGED vars
  \/ ReviewMoves

PSpec == PInit /\ [][PNext]_planVars

-----------------------------------------------------------------------------
(* Properties.                                                             *)

\* No two files of a plan go to one place, none goes where the scan has seen
\* something, and no file that is moved is in the target or control directory:
\* so the moves of a plan can be made in any order (organization-planner.ts:
\* 116-163, 295-322).
PlannedDestinationsAreFree ==
  /\ \A i, k \in DOMAIN plan.operations :
       plan.operations[i].destination = plan.operations[k].destination => i = k
  /\ \A i \in DOMAIN plan.operations :
       LET o == plan.operations[i]
       IN /\ o.destination \notin Observed /\ o.source \in Observed /\ ~Reserved(o.source)

\* A plan that is ready says of every file that the scan has seen, and so of every
\* file that the user has left alone, once what becomes of it
\* (organization-planner.ts:102-189).
PlanAccountsForEveryFile ==
  plan.status = "ready" =>
    LET c == plan.counts
    IN /\ (Files \ touched) \subseteq Observed
       /\ c["scannedFiles"] = Cardinality(Files \cap Observed)
       /\ c["scannedFiles"] = Len(plan.operations) + c["hiddenExcluded"] + c["alreadyOrganized"]
            + c["preservedByScope"] + c["preservedCoherentGroups"] + c["needsReviewExcluded"]
            + c["limitedOut"] + c["conflictsSkipped"]
       /\ Len(plan.operations) <= plan.options.maximumOperations

\* "An unresolved Needs Review item blocks automatic organization."
\* (intelligence-store.ts:1806): a file that an open review leads to, its own or that
\* of its group, from the beginning of the planning until now is not moved. A group
\* whose members a regrouping has taken away leads to none of them meanwhile, and a
\* page that is read then plans to move them under the open review (intelligence-store.
\* ts:937-940, 1785-1790).
ReviewedFilesStay ==
  \A i \in DOMAIN plan.operations : plan.operations[i].source \notin held
=============================================================================
