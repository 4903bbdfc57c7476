----------------------------- MODULE PathSafety -----------------------------
(***************************************************************************)
(* What is on the disk as src/safety sees it: ReadOnlyCanonicalPathResolver *)
(* (read-only-canonicalizer.ts) asks the operating system about paths,     *)
(* volume-identity.ts makes the identity of a root from the answers, and   *)
(* PathBoundary (path-boundary.ts) decides about paths alone.              *)
(*                                                                         *)
(* A path is the sequence of its segments, <<>> the root of the file       *)
(* system. The platform is posix, where the key of a volume is its device. *)
(* Drive letters, streams, null bytes and the case of names are left out.  *)
(***************************************************************************)
EXTENDS Naturals, FiniteSets, SequencesExt

CONSTANTS
  Paths,        \* the paths at which something can be, with all their parents
  Nowhere,      \* the answer for a path at which nothing is
  MountPoints,  \* where volumes are mounted; <<>> is one of them
  Volumes       \* their devices

ASSUME PathsAssumption ==
  /\ <<>> \in MountPoints /\ MountPoints \subseteq Paths /\ Nowhere \notin Paths
  /\ \A p \in Paths : p = <<>> \/ Front(p) \in Paths

VARIABLES
  tree,     \* what is at each path: its kind and, for a link, where it leads
  mounted   \* the volume at each mount point

Kinds == {"directory", "file", "link", "absent"}
Entry == [kind : Kinds, to : Paths]

-----------------------------------------------------------------------------
(* The operating system.                                                   *)

\* realpath, which follows every link.
realpath[p \in Paths] ==
  IF p = <<>> THEN p
  ELSE LET parent == realpath[Front(p)]
           q == Append(parent, Last(p))
       IN IF parent = Nowhere \/ q \notin Paths \/ tree[q].kind = "absent" THEN Nowhere
          ELSE IF tree[q].kind = "link" THEN tree[q].to ELSE q

\* lstat, which does not follow the last one.
lstat(p) ==
  IF p = <<>> THEN tree[p].kind
  ELSE LET parent == realpath[Front(p)]
           q == Append(parent, Last(p))
       IN IF parent = Nowhere \/ q \notin Paths THEN "absent" ELSE tree[q].kind

\* The device that stat finds for a path without links.
Device(p) ==
  mounted[CHOOSE m \in MountPoints :
            IsPrefix(m, p) /\ \A n \in MountPoints : IsPrefix(n, p) => Len(n) <= Len(m)]

-----------------------------------------------------------------------------
(* ReadOnlyCanonicalPathResolver.                                          *)

Components(p) == Prefixes(p) \ {<<>>}

findReparsePoints(p) == {q \in Components(p) : lstat(q) = "link"}
Walkable(p) == \A q \in Components(p) : lstat(q) # "absent"

\* stat, which follows links.
StatDevice(p) == IF realpath[p] = Nowhere THEN Nowhere ELSE Device(realpath[p])

\* Upwards for as long as the device is the same.
findMountPath(p, device) ==
  SubSeq(p, 1, Min({n \in 0 .. Len(p) :
                      \A k \in n .. Len(p) - 1 : StatDevice(SubSeq(p, 1, k)) = device}))

\* The nearest ancestor that is there, which may be the path itself.
ExistingAncestor(p) ==
  CHOOSE q \in Prefixes(p) :
    /\ lstat(q) # "absent"
    /\ \A r \in Components(p) : Len(r) > Len(q) => lstat(r) = "absent"

\* The missing segments behind the canonical ancestor; Nowhere when the ancestor
\* has gone since.
canonicalizeProspective(p) ==
  LET ancestor == ExistingAncestor(p)
  IN IF realpath[ancestor] = Nowhere THEN Nowhere
     ELSE realpath[ancestor] \o SubSeq(p, Len(ancestor) + 1, Len(p))

\* createFilesystemRootIdentity: the volume, and the path within it.
RootIdentity(p) ==
  [volume |-> StatDevice(p),
   relative |-> SubSeq(p, Len(findMountPath(p, StatDevice(p))) + 1, Len(p))]

\* inspectExisting of a directory, with assertDirectory and no links, as one
\* look at the disk.
InspectedRoot(p) == p \in Paths /\ realpath[p] = p /\ tree[p].kind = "directory"

-----------------------------------------------------------------------------
(* PathBoundary.                                                           *)

contains(root, candidate) == IsPrefix(root, candidate)

\* The input names something below the root, and never goes up.
validateRelativeInput(segments) ==
  segments # <<>> /\ \A i \in DOMAIN segments : segments[i] # ".."

\* The lexical path below an approved root, or Nowhere.
resolveRelativePath(root, segments) ==
  LET absolute == root.path \o segments
  IN IF /\ root.status = "approved" /\ validateRelativeInput(segments)
        /\ contains(root.path, absolute)
     THEN absolute ELSE Nowhere

-----------------------------------------------------------------------------
(* What the user does to the disk.                                         *)

Remount(m, v) ==
  /\ m # <<>> /\ mounted[m] # v
  /\ mounted' = [mounted EXCEPT ![m] = v] /\ UNCHANGED tree

Replace(p, entry) ==
  /\ tree[p] # entry
  /\ tree' = [tree EXCEPT ![p] = entry] /\ UNCHANGED mounted
=============================================================================
