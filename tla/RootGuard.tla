----------------------------- MODULE RootGuard ------------------------------
(***************************************************************************)
(* The guards that a handler asks before it touches a file:                *)
(* TransferRootGuard (src/transfer/root-guard.ts), InventoryRootGuard      *)
(* (src/scanner/inventory-root-guard.ts) and the resolver that both use    *)
(* (src/safety/read-only-root-resolver.ts). A call reads the enrollment,   *)
(* looks at the disk in several steps, and ends with an authorization or   *)
(* a refusal. The enrollments, of which the journal is the only thing that *)
(* the processes share, and the disk go on between the steps.              *)
(*                                                                         *)
(* Abstractions. One call is under way at a time, because calls share      *)
(* nothing; the walk over the components of a path is one look; the reason *)
(* of a refusal.                                                           *)
(***************************************************************************)
EXTENDS Enrollment

CONSTANTS
  Targets,     \* the relative paths that the handlers ask for
  Swappable,   \* the paths that the user replaces, and by what
  Beginnings,  \* the trees and mounts at the beginning
  MaxActs      \* bound: what the user does to the disk

\* A root that is enrolled at the beginning was proposed once.
ASSUME GuardAssumption ==
  /\ MaxActs \in Nat
  /\ \A b \in Beginnings : b.root # <<>> => b.role \in Roles /\ b.root \in Enrollable

VARIABLES
  guard,  \* the call under way, or the last authorization; whether the disk was left
          \* alone since it began
  acts

nvars == <<tree, mounted, journal, proposals, requests, asked, shown, answered, guard, acts>>
disk == <<tree, mounted>>

\* What a handler asks for: a directory of a scan, a file that is there, to read
\* or to move it away, or a place where a file will be.
Modes == {"directory", "existing", "prospective"}

NoGuard == [point |-> "none", mode |-> "existing", id |-> CHOOSE id \in RootIds : TRUE, root |-> Unknown,
            target |-> <<>>, path |-> <<>>, clean |-> FALSE, canonical |-> <<>>, quiet |-> TRUE]

\* A look that does not refuse goes on.
GoOn(allowed, next) == guard' = IF allowed THEN next ELSE NoGuard

-----------------------------------------------------------------------------

\* validate and validateForScan: the root is enrolled and approved, with writes
\* for a handler that writes.
BeginGuard(mode, id, target, writes) ==
  /\ guard.point \in {"none", "issued"} /\ id \in Enrolled
  /\ LET root == replay(journal, id)
     IN /\ root.status = "approved" /\ (writes => root.writes)
        /\ mode = "directory" => id.role = "library" /\ ~writes
        /\ mode = "prospective" => writes
        /\ guard' = [NoGuard EXCEPT !.point = "root-walk", !.mode = mode, !.id = id, !.root = root,
                                    !.target = target, !.path = root.path]

\* inspectExisting of the root.
RootWalk ==
  /\ guard.point = "root-walk"
  /\ GoOn(Walkable(guard.path),
          [guard EXCEPT !.point = "root-real", !.clean = findReparsePoints(guard.path) = {}])

RootReal ==
  /\ guard.point = "root-real"
  /\ GoOn(realpath[guard.path] # Nowhere,
          [guard EXCEPT !.point = "root-stat", !.canonical = realpath[guard.path]])

\* The root is a directory, on the volume and at the place that were approved; a
\* scan wants the path to be the same, too. What is asked for must be below it.
RootStat ==
  /\ guard.point = "root-stat"
  /\ GoOn(/\ guard.clean /\ realpath[guard.canonical] # Nowhere
          /\ tree[realpath[guard.canonical]].kind = "directory"
          /\ RootIdentity(guard.canonical) = guard.id.identity
          /\ guard.mode = "directory" => guard.canonical = guard.root.path
          /\ guard.target = <<>> \/ resolveRelativePath(guard.root, guard.target) # Nowhere
          /\ guard.target = <<>> => guard.mode = "directory",
          [guard EXCEPT !.point = CASE guard.mode = "directory" -> "reload"
                                    [] guard.mode = "prospective" -> "ancestor"
                                    [] OTHER -> "walk",
                        !.clean = FALSE, !.canonical = <<>>,
                        !.path = guard.root.path \o guard.target])

\* resolveDirectory reads the approval again.
Reload ==
  /\ guard.point = "reload"
  /\ GoOn(Readable /\ replay(journal, guard.id).status = "approved", [guard EXCEPT !.point = "walk"])

\* authorizeProspectiveWrite looks for the nearest ancestor that is there.
Ancestor ==
  /\ guard.point = "ancestor"
  /\ guard' = [guard EXCEPT !.point = "walk", !.path = ExistingAncestor(guard.path)]

Walk ==
  /\ guard.point = "walk"
  /\ GoOn(Walkable(guard.path),
          [guard EXCEPT !.point = "real", !.clean = findReparsePoints(guard.path) = {}])

Real ==
  /\ guard.point = "real"
  /\ GoOn(realpath[guard.path] # Nowhere,
          [guard EXCEPT !.point = "stat", !.canonical = realpath[guard.path]])

\* Faulty: any volume will do.
OnTheVolume_Any(canonical, id) == TRUE

OnTheVolume(canonical, id) == StatDevice(canonical) = id.identity.volume

authorizeCanonicalPath(root, canonical) == contains(root.path, canonical)

\* Without links and on the root's volume; then authorizeCanonicalPath, or for a
\* place that is to be written the path as it is by now.
Stat ==
  /\ guard.point = "stat"
  /\ LET found == realpath[guard.canonical]
         prospective == guard.mode = "prospective"
     IN GoOn(/\ found # Nowhere /\ guard.clean
             /\ OnTheVolume(guard.canonical, guard.id)
             /\ prospective => tree[found].kind = "directory"
             /\ guard.target = <<>> =>
                  tree[found].kind = "directory" /\ guard.canonical = guard.root.path
             /\ prospective \/ authorizeCanonicalPath(guard.root, guard.canonical),
             [guard EXCEPT !.point = IF prospective THEN "again" ELSE "issued"])

Again ==
  /\ guard.point = "again"
  /\ LET canonical == canonicalizeProspective(guard.root.path \o guard.target)
     IN GoOn(canonical # Nowhere /\ authorizeCanonicalPath(guard.root, canonical),
             [guard EXCEPT !.point = "issued", !.canonical = canonical])

-----------------------------------------------------------------------------

GuardMoves ==
  /\ \/ \E id \in Enrolled, mode \in Modes, target \in Targets, writes \in BOOLEAN :
           BeginGuard(mode, id, target, writes)
     \/ RootWalk \/ RootReal \/ RootStat \/ Reload \/ Ancestor \/ Walk \/ Real \/ Stat \/ Again
  /\ UNCHANGED <<disk, enrollment, acts>>

UserActs ==
  /\ acts < MaxActs /\ acts' = acts + 1
  /\ guard' = [guard EXCEPT !.quiet = guard.point = "none"]
  /\ \/ \E m \in MountPoints, v \in Volumes : Remount(m, v)
     \/ \E swap \in Swappable : Replace(swap.path, swap.entry)
  /\ UNCHANGED enrollment

NInit ==
  /\ \E b \in Beginnings :
       /\ tree = b.tree /\ mounted = b.mounted
       /\ \/ EnrollmentInit
          \/ b.root # <<>> /\ EnrolledInit(b.role, b.root)
  /\ guard = NoGuard /\ acts = 0

NNext ==
  \/ EnrollmentMoves /\ UNCHANGED <<disk, guard, acts>>
  \/ (\E process \in Processes : ExitProcess(process)) /\ UNCHANGED <<disk, guard, acts>>
  \/ GuardMoves
  \/ UserActs

NSpec == NInit /\ [][NNext]_nvars

-----------------------------------------------------------------------------
(* Properties.                                                             *)

\* What the service has answered is never silently forgotten: when the journal can
\* be read at all, whatever processes died in the middle of a line, it holds every
\* approval, change of access and revocation that was acknowledged
\* (enrollment-store.ts:139-181).
AcknowledgedIsKept == Readable => answered \subseteq ToSet(journal.lines)

\* The approval is of what the user was shown: a root is enrolled only for a
\* volume and a place on it that a proposal named, also when the disk changes
\* between the two, or between the looks of the approval (enrollment-service.ts:
\* 86-125).
ApprovedWasShown ==
  \A i \in DOMAIN journal.lines :
    LET e == journal.lines[i]
    IN e.event = "root-approved" =>
         \E x \in shown : x.role = e.id.role /\ x.identity = e.id.identity

\* While the disk is left alone, the several looks of a guard amount to one: an
\* authorization is for a path inside the root, reached without a link, whose
\* nearest ancestor that exists is on the root's volume; and a file that will be
\* read or moved is there (root-guard.ts:49-178, read-only-root-resolver.ts:16-65).
QuietAuthorizationIsSafe ==
  guard.point = "issued" /\ guard.quiet =>
    LET p == guard.canonical
    IN /\ p = guard.root.path \o guard.target
       /\ findReparsePoints(p) = {}
       /\ Device(ExistingAncestor(p)) = guard.id.identity.volume
       /\ guard.mode # "prospective" => lstat(p) # "absent"
=============================================================================
