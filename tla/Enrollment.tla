----------------------------- MODULE Enrollment -----------------------------
(***************************************************************************)
(* The enrollment of library roots and ingest sources: the requests of     *)
(* RootEnrollmentService (src/enrollment/enrollment-service.ts), which the *)
(* web server and the command line run in processes of their own, and the  *)
(* journal that they share (enrollment-store.ts): every read replays the   *)
(* whole file, and every write appends a line to it.                       *)
(*                                                                         *)
(* A request is in one process. What it has read is in its memory until it *)
(* appends, and then again until it answers; other requests, of this       *)
(* process or of another, come in between. A process that dies while it    *)
(* appends may leave a part of a line, and the next line to be appended,   *)
(* by whomever, then makes one line with it.                               *)
(*                                                                         *)
(* Abstractions. The names, the actors, the times and the identifiers of a *)
(* proposal. The inspection for a proposal is one look, because what it    *)
(* finds is what the user is shown; the one for the approval is three, of  *)
(* which the last finds the device, the kind and the mount. A reader who   *)
(* comes while a line is being written may see a part of it and refuses,   *)
(* which changes nothing, and is left out.                                 *)
(***************************************************************************)
EXTENDS PathSafety

CONSTANTS
  Requests,    \* the requests that can be under way at a time
  ProcessOf,   \* the process of each
  Roles,       \* of what can be enrolled: "library" and "ingest-source"
  Enrollable,  \* the paths that the user proposes
  MaxAsked     \* bound: requests

Processes == {ProcessOf[r] : r \in Requests}
Identities == [volume : Volumes, relative : {SubSeq(p, n, Len(p)) : p \in Enrollable, n \in 1 .. 3}]
RootIds == [role : Roles, identity : Identities]

ASSUME EnrollmentAssumption ==
  /\ ProcessOf \in [Requests -> Processes]
  /\ Roles \subseteq {"library", "ingest-source"} /\ Enrollable \subseteq Paths
  /\ MaxAsked \in Nat

VARIABLES
  journal,    \* the file: its complete lines, and whether a part of one follows
  proposals,  \* the proposals that each process has in memory
  requests,   \* how far each request has come
  asked,      \* how many there were
  shown,      \* the roots that were ever proposed to the user
  answered    \* the events of the requests that have been answered

enrollment == <<journal, proposals, requests, asked, shown, answered>>

Root == [status : {"unknown", "approved", "revoked"}, path : Paths,
         writes : BOOLEAN, retirement : BOOLEAN]
Unknown == [status |-> "unknown", path |-> <<>>, writes |-> FALSE, retirement |-> FALSE]
Proposal == [role : Roles, path : Enrollable, identity : Identities]
Approved(id, root) == [event |-> "root-approved", id |-> id, root |-> root]
Revoked(id) == [event |-> "root-revoked", id |-> id]
Garbage == [event |-> "unreadable"]
Inspection(p) == [event |-> "inspection", path |-> p]  \* what has been found so far

-----------------------------------------------------------------------------
(* The journal.                                                            *)

Refused == <<Garbage>>

\* Faulty: lines that cannot be parsed are passed over.
readEvents_PassesOver(file) == SelectSeq(file.lines, LAMBDA e : e # Garbage)

\* The file is read as a whole or not at all.
readEvents(file) ==
  IF file.torn \/ \E i \in DOMAIN file.lines : file.lines[i] = Garbage THEN Refused
  ELSE file.lines

Readable == readEvents(journal) # Refused

\* The last approval of a root counts, unless a revocation comes after it.
replay(file, id) ==
  LET events    == readEvents(file)
      approvals == {i \in DOMAIN events : events[i].event = "root-approved" /\ events[i].id = id}
      root      == events[Max(approvals)].root
  IN IF approvals = {} THEN Unknown
     ELSE IF \E i \in DOMAIN events : i > Max(approvals) /\ events[i] = Revoked(id)
       THEN [root EXCEPT !.status = "revoked"]
       ELSE root

\* The roots that a reader finds.
Enrolled ==
  IF Readable THEN {e.id : e \in {d \in ToSet(journal.lines) : d.event = "root-approved"}} ELSE {}

\* A line behind what is there.
append(e) ==
  journal' = [lines |-> Append(journal.lines, IF journal.torn THEN Garbage ELSE e), torn |-> FALSE]

-----------------------------------------------------------------------------
(* The service. A request that is refused changes nothing.                 *)

NoRequest == [point |-> "idle", event |-> Garbage, proposal |-> {}]
Goes(r, point, event, proposal) ==
  requests' = [requests EXCEPT ![r] = [point |-> point, event |-> event, proposal |-> proposal]]

Asks(r) == requests[r] = NoRequest /\ asked < MaxAsked /\ asked' = asked + 1

propose(r, role, p) ==
  /\ Asks(r) /\ InspectedRoot(p)
  /\ LET proposal == [role |-> role, path |-> p, identity |-> RootIdentity(p)]
     IN /\ proposals' = [proposals EXCEPT ![ProcessOf[r]] = @ \cup {proposal}]
        /\ shown' = shown \cup {proposal}
  /\ UNCHANGED <<journal, requests, answered>>

\* approve: the path that was proposed is inspected again, in three looks.
ApproveWalk(r, proposal) ==
  /\ Asks(r) /\ proposal \in proposals[ProcessOf[r]]
  /\ Walkable(proposal.path) /\ findReparsePoints(proposal.path) = {}
  /\ Goes(r, "real", Inspection(proposal.path), {proposal})
  /\ UNCHANGED <<journal, proposals, shown, answered>>

\* A request goes on, or ends without an answer.
GoesIf(allowed, r, point, event) ==
  IF allowed THEN Goes(r, point, event, requests[r].proposal)
  ELSE requests' = [requests EXCEPT ![r] = NoRequest]

ApproveReal(r) ==
  /\ requests[r].point = "real"
  /\ LET path == realpath[requests[r].event.path]
     IN GoesIf(path # Nowhere, r, "stat", Inspection(path))
  /\ UNCHANGED <<journal, proposals, asked, shown, answered>>

\* Faulty: what is there now is enrolled, whatever was proposed.
SameIdentity_OfWhatIsThere(path, proposal) == TRUE

SameIdentity(path, proposal) == RootIdentity(path) = proposal.identity

\* What has been found is what will be enrolled: it must be a directory that is the
\* same volume and the same place on it as what was proposed.
ApproveStat(r) ==
  /\ requests[r].point = "stat"
  /\ \E proposal \in requests[r].proposal :
       LET path == requests[r].event.path
       IN GoesIf(/\ realpath[path] # Nowhere /\ tree[realpath[path]].kind = "directory"
                 /\ SameIdentity(path, proposal),
                 r, "get", Approved([role |-> proposal.role, identity |-> RootIdentity(path)],
                                    [status |-> "approved", path |-> path,
                                     writes |-> FALSE, retirement |-> FALSE]))
  /\ UNCHANGED <<journal, proposals, asked, shown, answered>>

\* The root that is enrolled already, of which the date is kept; a journal that
\* cannot be read ends the request.
ApproveGet(r) ==
  /\ requests[r].point = "get"
  /\ GoesIf(Readable, r, "append", requests[r].event)
  /\ UNCHANGED <<journal, proposals, asked, shown, answered>>

\* setLibraryWriteAccess and setIngestSourceRetirementAccess: the whole root is
\* read, and the whole root is what will be written.
SetAccess(r, id, writes, retirement) ==
  /\ Asks(r) /\ id \in Enrolled /\ replay(journal, id).status = "approved"
  /\ retirement => writes /\ id.role = "ingest-source"
  /\ Goes(r, "append", Approved(id, [replay(journal, id) EXCEPT !.writes = writes,
                                                                !.retirement = retirement]), {})
  /\ UNCHANGED <<journal, proposals, shown, answered>>

revoke(r, id) ==
  /\ Asks(r) /\ id \in Enrolled
  /\ Goes(r, "append", Revoked(id), {})
  /\ UNCHANGED <<journal, proposals, shown, answered>>

\* The write and the sync.
AppendEvent(r) ==
  /\ requests[r].point = "append"
  /\ append(requests[r].event)
  /\ Goes(r, "answer", requests[r].event, requests[r].proposal)
  /\ UNCHANGED <<proposals, asked, shown, answered>>

Answer(r) ==
  /\ requests[r].point = "answer"
  /\ requests' = [requests EXCEPT ![r] = NoRequest]
  /\ proposals' = [proposals EXCEPT ![ProcessOf[r]] = @ \ requests[r].proposal]
  /\ answered' = answered \cup {requests[r].event}
  /\ UNCHANGED <<journal, asked, shown>>

\* A process ends, perhaps in the middle of a line.
ExitProcess(process) ==
  LET its == {r \in Requests : ProcessOf[r] = process}
  IN /\ \E torn \in BOOLEAN :
          /\ torn => journal.torn \/ \E r \in its : requests[r].point = "append"
          /\ ~torn => ~journal.torn
          /\ journal' = [journal EXCEPT !.torn = torn]
     /\ requests' = [r \in Requests |-> IF r \in its THEN NoRequest ELSE requests[r]]
     /\ proposals' = [proposals EXCEPT ![process] = {}]
     /\ UNCHANGED <<asked, shown, answered>>

EnrollmentMoves ==
  \E r \in Requests :
    \/ \E role \in Roles, p \in Enrollable : propose(r, role, p)
    \/ \E proposal \in proposals[ProcessOf[r]] : ApproveWalk(r, proposal)
    \/ ApproveReal(r) \/ ApproveStat(r)
    \/ ApproveGet(r) \/ AppendEvent(r) \/ Answer(r)
    \/ \E id \in Enrolled : revoke(r, id) \/ \E writes, retirement \in BOOLEAN : SetAccess(r, id, writes, retirement)

EnrollmentInit ==
  /\ journal = [lines |-> <<>>, torn |-> FALSE]
  /\ proposals = [p \in Processes |-> {}]
  /\ requests = [r \in Requests |-> NoRequest]
  /\ asked = 0 /\ shown = {} /\ answered = {}

\* A root has been enrolled, and its writes been approved, before.
EnrolledInit(role, p) ==
  LET id == [role |-> role, identity |-> RootIdentity(p)]
      e  == Approved(id, [status |-> "approved", path |-> p, writes |-> TRUE, retirement |-> FALSE])
  IN /\ journal = [lines |-> <<e>>, torn |-> FALSE]
     /\ proposals = [q \in Processes |-> {}]
     /\ requests = [r \in Requests |-> NoRequest]
     /\ asked = 0 /\ answered = {e}
     /\ shown = {[role |-> role, path |-> p, identity |-> id.identity]}
=============================================================================
