-------------------------- MODULE TransferPlanning ---------------------------
(***************************************************************************)
(* The plans made from verified content identity, by                       *)
(* createDuplicateConsolidation and createCrossVolumePlan of               *)
(* src/transfer/transfer-service.ts, and the group of exact duplicates in  *)
(* src/intelligence/intelligence-store.ts that they read.                  *)
(*                                                                         *)
(* The server reads the members of a group page by page while hashing adds *)
(* members, clears and rebuilds the group, and the user changes what was   *)
(* decided.  A plan is carried out long after it was made, and beside the  *)
(* others.                                                                 *)
(*                                                                         *)
(* Abstractions.  All files here have the same contents and nobody but the *)
(* plans moves or changes them.  The libraries stay approved and the mode  *)
(* live; closing either only refuses a plan.  How a job carries out a plan *)
(* is in TransferExecution; here it is what happens to each file, and its  *)
(* failures and retries are left out.  Files have the order of their       *)
(* relative paths.                                                         *)
(***************************************************************************)
EXTENDS Naturals, FiniteSets

CONSTANTS
  N,            \* how many copies the library has
  Plans,        \* the plans that may be made
  PageSize,     \* members of a group that are read together, one or more
  MaxChanges    \* how often the group is rebuilt or decided about

VARIABLES
  hashed,    \* the files with a row in file_hashes
  members,   \* the members of the exact group; none when there is no group
  decision,  \* what was decided about each member
  plans,     \* each plan, with the variables of whoever works on it
  place,     \* where each file is
  copied,    \* the files with a verified copy on the other volume
  changes

vars == <<hashed, members, decision, plans, place, copied, changes>>

Files == 1 .. N
Decisions == {"undecided", "keep", "keep-all", "consolidate"}
PlanKinds == {"duplicate-consolidation", "cross-volume-organization"}

\* todo: the selected members of the page, the selected records, or the items
\* of a plan that is carried out; item: the file whose source was found as
\* approved and is about to be moved.
NoPlan == [kind |-> "none", status |-> "none", at |-> "none", todo |-> {}, offset |-> 0,
           last |-> FALSE, keepers |-> FALSE, items |-> {}, item |-> 0]

-----------------------------------------------------------------------------
(* The group.                                                              *)

Change == changes < MaxChanges /\ changes' = changes + 1

saveHash(f) ==
  /\ f \notin hashed
  /\ hashed' = hashed \cup {f}
  /\ UNCHANGED <<members, decision, plans, place, copied, changes>>

\* Rows of the group go with it, and with them what was decided.
clearDuplicateGroups ==
  /\ Change /\ members # {}
  /\ members' = {}
  /\ decision' = [f \in Files |-> "undecided"]
  /\ UNCHANGED <<hashed, plans, place, copied>>

\* A group has two copies or more. Members keep what was decided about them.
upsertExactGroup ==
  /\ Change /\ Cardinality(hashed) > 1
  /\ members' = hashed
  /\ UNCHANGED <<hashed, decision, plans, place, copied>>

decideDuplicateGroup(keepers) ==
  /\ Change /\ members # {}
  /\ decision' = [f \in Files |->
       CASE f \notin members -> decision[f]
         [] f \in members /\ keepers = {} -> "keep-all"
         [] OTHER -> IF f \in keepers THEN "keep" ELSE "consolidate"]
  /\ UNCHANGED <<hashed, members, plans, place, copied>>

\* duplicateMembers: the page after the first `offset` members.
Rank(f) == Cardinality({g \in members : g <= f})
duplicateMembers(offset) == {f \in members : offset < Rank(f) /\ Rank(f) <= offset + PageSize}

-----------------------------------------------------------------------------
(* Making a plan.                                                          *)

Becomes(p, plan) == plans' = [plans EXCEPT ![p] = plan]
OnlyPlans == UNCHANGED <<hashed, members, decision, place, copied, changes>>
Least(set) == CHOOSE f \in set : \A g \in set : f <= g

CreateConsolidation(p) ==
  /\ plans[p].status = "none" /\ members # {}
  /\ Becomes(p, [NoPlan EXCEPT !.kind = "duplicate-consolidation", !.status = "draft",
                               !.at = "page"])
  /\ OnlyPlans

\* The keepers of a page are counted, the copies to consolidate are its work.
ReadMembers(p) ==
  LET page == duplicateMembers(plans[p].offset)
  IN /\ plans[p].at = "page"
     /\ Becomes(p, [plans[p] EXCEPT
          !.at = "add",
          !.todo = {f \in page : decision[f] = "consolidate"},
          !.keepers = @ \/ \E f \in page : decision[f] \in {"keep", "keep-all"},
          !.offset = @ + PageSize,
          !.last = Cardinality(members) <= plans[p].offset + PageSize])
     /\ OnlyPlans

\* A copy must have the digest of its group, a record any; else the server
\* throws and leaves the draft.
AddItem(p) ==
  LET f == Least(plans[p].todo)
  IN /\ plans[p].at = "add" /\ plans[p].todo # {}
     /\ Becomes(p, IF f \in hashed
                   THEN [plans[p] EXCEPT !.todo = @ \ {f}, !.items = @ \cup {f}]
                   ELSE [plans[p] EXCEPT !.at = "left"])
     /\ OnlyPlans

NextMembers(p) ==
  /\ plans[p].at = "add" /\ plans[p].todo = {} /\ ~plans[p].last
  /\ Becomes(p, [plans[p] EXCEPT !.at = "page"])
  /\ OnlyPlans

OfferPlan(p) ==
  /\ plans[p].at = "add" /\ plans[p].todo = {} /\ plans[p].last
  /\ Becomes(p, IF plans[p].kind = "duplicate-consolidation"
                   /\ (~plans[p].keepers \/ plans[p].items = {})
                THEN [plans[p] EXCEPT !.at = "left"]
                ELSE [plans[p] EXCEPT !.at = "left", !.status = "ready-for-approval"])
  /\ OnlyPlans

CreateCrossVolumePlan(p, records) ==
  /\ plans[p].status = "none" /\ records # {}
  /\ Becomes(p, [NoPlan EXCEPT !.kind = "cross-volume-organization", !.status = "draft",
                               !.at = "add", !.todo = records, !.last = TRUE])
  /\ OnlyPlans

-----------------------------------------------------------------------------
(* Carrying it out.                                                        *)

Approve(p) ==
  /\ plans[p].status = "ready-for-approval"
  /\ Becomes(p, [plans[p] EXCEPT !.status = "transfer-queued", !.todo = plans[p].items,
                                 !.at = "run"])
  /\ OnlyPlans

\* The item's source is looked at, and for another volume copied first; when
\* it is gone the item fails.
Inspect(p) ==
  LET f == Least(plans[p].todo)
      found == place[f] = "library"
  IN /\ plans[p].at = "run" /\ plans[p].todo # {} /\ plans[p].item = 0
     /\ Becomes(p, [plans[p] EXCEPT !.todo = @ \ {f}, !.item = IF found THEN f ELSE 0])
     /\ copied' = IF found /\ plans[p].kind = "cross-volume-organization"
                  THEN copied \cup {f} ELSE copied
     /\ UNCHANGED <<hashed, members, decision, place, changes>>

\* The rename into quarantine, which fails when the source has gone.
Quarantine(p) ==
  /\ plans[p].item # 0
  /\ place' = [place EXCEPT ![plans[p].item] = "quarantine"]
  /\ Becomes(p, [plans[p] EXCEPT !.item = 0])
  /\ UNCHANGED <<hashed, members, decision, copied, changes>>

Close(p) ==
  /\ plans[p].at = "run" /\ plans[p].todo = {} /\ plans[p].item = 0
  /\ Becomes(p, [plans[p] EXCEPT !.at = "left", !.status = "completed"])
  /\ OnlyPlans

-----------------------------------------------------------------------------
Init ==
  /\ hashed = {} /\ members = {} /\ copied = {} /\ changes = 0
  /\ decision = [f \in Files |-> "undecided"]
  /\ plans = [p \in Plans |-> NoPlan]
  /\ place = [f \in Files |-> "library"]

Next ==
  \/ \E f \in Files : saveHash(f)
  \/ clearDuplicateGroups \/ upsertExactGroup
  \/ \E keepers \in SUBSET members : decideDuplicateGroup(keepers)
  \/ \E p \in Plans :
       \/ CreateConsolidation(p) \/ ReadMembers(p) \/ AddItem(p) \/ NextMembers(p)
       \/ OfferPlan(p) \/ \E records \in SUBSET Files : CreateCrossVolumePlan(p, records)
       \/ Approve(p) \/ Inspect(p) \/ Quarantine(p) \/ Close(p)

Spec == Init /\ [][Next]_vars

-----------------------------------------------------------------------------
\* What is taken out of the library for consolidation is redundant: while a
\* copy is in quarantine there is one in the library or, verified, on the
\* other volume.
OnlyRedundantCopiesMove ==
  (\E f \in Files : place[f] = "quarantine") =>
    \/ \E f \in Files : place[f] = "library"
    \/ copied # {}
=============================================================================
