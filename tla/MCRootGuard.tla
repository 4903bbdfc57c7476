---------------------------- MODULE MCRootGuard -----------------------------
(* Small instances for model checking RootGuard: a disk at /m with a library *)
(* at /m/lib, in which /m/lib/n is the mount of another volume and       *)
(* /m/lib/a may lead away; /out is on the volume of the system.              *)
EXTENDS RootGuard, TLC

CONSTANTS r1, r2

M == <<"m">>
Lib == <<"m", "lib">>
A == <<"m", "lib", "a">>
N == <<"m", "lib", "n">>
Out == <<"out">>
F(p) == Append(p, "f")

AllPaths == {<<>>, M, Lib, A, F(A), N, F(N), Out, F(Out)}
Mounts == {<<>>, M, N}

Dir == [kind |-> "directory", to |-> <<>>]
File == [kind |-> "file", to |-> <<>>]
Absent == [kind |-> "absent", to |-> <<>>]
Link(p) == [kind |-> "link", to |-> p]

Tree(a, f) ==
  [p \in AllPaths |->
     CASE p = A -> a
       [] p \in {F(A), F(N)} -> f
       [] p = F(Out) -> File
       [] OTHER -> Dir]

Starts(role) ==
  {[tree |-> Tree(a, f),
    mounted |-> (<<>> :> "system") @@ (M :> "disk") @@ (N :> "system"),
    role |-> role, root |-> Lib] :
     a \in {Dir, Link(Out)}, f \in {File, Absent}}

LibraryStarts == Starts("library")
SourceStarts == Starts("ingest-source")
OwnProcess == [r \in {r1, r2} |-> r]
Symmetry == Permutations({r1, r2})
Swaps == {[path |-> A, entry |-> e] : e \in {Dir, Link(Out), Link(N)}}
           \cup {[path |-> Lib, entry |-> Link(Out)]}
Proposed == {Lib}
Asked == {<<>>, <<"a">>, <<"a", "f">>, <<"n", "f">>, <<"..", "out">>}
=============================================================================
