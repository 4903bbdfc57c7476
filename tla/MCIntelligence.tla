--------------------------- MODULE MCIntelligence ---------------------------
(* Small instances for model checking Intelligence.                        *)
EXTENDS Intelligence, TLC

CONSTANT w1

\* The jobs of AnalysisService.start, in the order of their priorities.
Stage(key, kind, scope, priority, restart, attempts) ==
  [key |-> key, work |-> key, kind |-> kind, scope |-> scope, priority |-> priority,
   pausable |-> TRUE, restart |-> restart, maximumAttempts |-> attempts, leaseDuration |-> 1]

Detect     == Stage(1, "detect", "-", 40, FALSE, 1)
Hash       == Stage(2, "hash", "candidates", 30, FALSE, 2)
Media      == Stage(4, "media", "-", 20, FALSE, 2)
Relations_ == Stage(5, "relations", "-", 10, TRUE, 1)

Stages     == {Detect, Hash, Media, Relations_}

AllKinds    == {{"detect", "hash", "media", "relations"}}
SupportsAll == [w \in Workers |-> {"detect", "hash", "media", "relations"}]
FirstLocal  == Nothing

\* Two files of one content, and one of another size.
SizeOf    == [f \in {1, 2, 3} |-> IF f = 3 THEN 2 ELSE 1]
ContentOf == [f \in {1, 2, 3} |-> IF f = 3 THEN 2 ELSE 1]
EarlierOk == [f \in {1, 2, 3} |-> IF f = 3 THEN "ok" ELSE "none"]

\* A project, two pairs of one source, and an album.
Related ==
  <<{[place |-> 1, at |-> 1, members |-> {1, 2}, needs |-> {}]},
    {[place |-> 1, at |-> 1, members |-> {1, 2}, needs |-> {1, 2}],
     [place |-> 2, at |-> 1, members |-> {1, 3}, needs |-> {1, 3}]},
    {[place |-> 1, at |-> 1, members |-> {2, 3}, needs |-> {2, 3}]}>>
=============================================================================
