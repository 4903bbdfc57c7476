---------------------------- MODULE Supervision ----------------------------
(***************************************************************************)
(* How worker processes come and go: main of src/cli/local-worker.ts, the  *)
(* heartbeat in the status file (src/jobs/worker-status.ts), and the       *)
(* requests to start a worker (src/web/worker-process-manager.ts), which   *)
(* the application makes when it begins and the user when the dashboard    *)
(* shows that there is none.                                               *)
(*                                                                         *)
(* Nothing else starts a worker, and nobody looks at the processes         *)
(* themselves. All of them write one file, whatever another has written.   *)
(*                                                                         *)
(* Abstractions. A record is what view() makes of it: a heartbeat that is  *)
(* ten seconds old is stale, which may happen to a process that lives and  *)
(* must happen when no process does. No more processes exist at a time     *)
(* than there are Workers: a start that finds them all takes its time.     *)
(***************************************************************************)
EXTENDS LocalWorker

VARIABLES
  life,    \* where each process is in main
  record,  \* what the status file shows
  start    \* the request to start a worker that is under way

vars == <<jobs, workers, crashes, life, record, start>>
supervised == <<life, record, start>>

Views == {"offline", "starting", "running", "stale"}
Alive == {w \in Workers : life[w] # "gone"}

Becomes(w, stage) == life' = [life EXCEPT ![w] = stage]

-----------------------------------------------------------------------------
(* LocalWorkerProcessManager.start.                                        *)

MayStart(view) == view \notin {"running", "starting"}

Look ==
  /\ start = "none" /\ MayStart(record)
  /\ start' = "spawn"
  /\ UNCHANGED <<jobs, workers, crashes, life, record>>

\* The file is rewritten in place: a reader may find it empty, and takes that
\* for a worker that has stopped.
LookAtTornFile ==
  /\ start = "none" /\ Alive # {}
  /\ start' = "spawn"
  /\ UNCHANGED <<jobs, workers, crashes, life, record>>

Spawn(w) ==
  /\ start = "spawn" /\ life[w] = "gone"
  /\ Becomes(w, "booting") /\ start' = "write"
  /\ UNCHANGED <<jobs, workers, crashes, record>>

WriteStarting ==
  /\ start = "write"
  /\ record' = "starting" /\ start' = "none"
  /\ UNCHANGED <<jobs, workers, crashes, life>>

-----------------------------------------------------------------------------
(* main.                                                                   *)

\* The first heartbeat, and then the loop.
Boot(w) ==
  /\ life[w] = "booting"
  /\ record' = "running" /\ Becomes(w, "up") /\ Restart(w)
  /\ UNCHANGED <<crashes, start>>

\* The timer of the heartbeat.
Beat(w) ==
  /\ life[w] = "up"
  /\ record' = "running"
  /\ UNCHANGED <<jobs, workers, crashes, life, start>>

\* runUntilStopped; an error that escapes it ends the process.
Run(w) ==
  /\ life[w] = "up"
  /\ runOnce(w) \/ HandlerMoves(w)
  /\ Becomes(w, IF workers'[w].pc = "down" THEN "exiting" ELSE "up")
  /\ UNCHANGED <<crashes, record, start>>

\* requestStop, which the loop sees between two jobs.
Stop(w) ==
  /\ At(w, "recover") /\ Crash(w)
  /\ Becomes(w, "exiting")
  /\ UNCHANGED <<record, start>>

\* Finally the last record, over those of the others; a heartbeat that the timer
\* has begun before may come after it.
Exit(w) ==
  /\ life[w] = "exiting"
  /\ record' \in {"offline", "running"} /\ Becomes(w, "gone")
  /\ UNCHANGED <<jobs, workers, crashes, start>>

\* A process that is killed writes nothing any more.
Kill(w) ==
  /\ life[w] # "gone" /\ Becomes(w, "gone")
  /\ IF At(w, "down") THEN crashes < MaxCrashes /\ crashes' = crashes + 1 /\ UNCHANGED <<jobs, workers>>
     ELSE Crash(w)
  /\ UNCHANGED <<record, start>>

\* Ten seconds have passed without a heartbeat.
Age ==
  /\ record \in {"starting", "running"}
  /\ record' = "stale"
  /\ UNCHANGED <<jobs, workers, crashes, life, start>>

-----------------------------------------------------------------------------

WInit ==
  /\ Init /\ workers = [w \in Workers |-> Idle("down")] /\ crashes = 0
  /\ life = [w \in Workers |-> "gone"] /\ record = "offline" /\ start = "none"

WNext ==
  \/ (ClientStep \/ Tick) /\ UNCHANGED <<workers, crashes, supervised>>
  \/ Look \/ LookAtTornFile \/ WriteStarting \/ Age
  \/ \E w \in Workers :
       Spawn(w) \/ Boot(w) \/ Beat(w) \/ Run(w) \/ Stop(w) \/ Exit(w) \/ Kill(w)

\* A process that lives goes on, time passes, and a record that nobody renews
\* gets old. Somebody asks for a worker as long as the dashboard shows none; the
\* other clients owe nothing: no submission, resume or cancel need ever come.
Fairness ==
  /\ \A w \in Workers : WF_vars(Boot(w)) /\ WF_vars(Run(w)) /\ WF_vars(Exit(w))
  /\ WF_vars(Tick /\ UNCHANGED <<workers, crashes, supervised>>)
  /\ WF_vars(Age /\ Alive = {})
  /\ WF_vars(Look) /\ WF_vars(\E w \in Workers : Spawn(w)) /\ WF_vars(WriteStarting)

WSpec == WInit /\ [][WNext]_vars
FairWSpec == WSpec /\ Fairness

-----------------------------------------------------------------------------
(* Properties.                                                             *)

\* The table and every worker's local variables have their types, and the loop
\* runs in a process that is up.
WTypeOK ==
  /\ TypeOK
  /\ workers \in [Workers -> Worker(HandlerPoints, 0 .. MaxUnits)]
  /\ crashes \in 0 .. MaxCrashes
  /\ life \in [Workers -> {"gone", "booting", "up", "exiting"}]
  /\ record \in Views /\ start \in {"none", "spawn", "write"}
  /\ \A w \in Workers : At(w, "down") <=> life[w] # "up"

HasStatus(j, statuses) == j \in Ids /\ jobs[j].status \in statuses

\* No job stays queued or running for ever: workers that die and are started
\* again, a status file that shows the wrong thing, expired leases, handlers that
\* give up and clients that pause and resume leave it paused, completed, failed or
\* cancelled again and again.
EveryJobSettles ==
  \A j \in 1 .. MaxJobs :
    HasStatus(j, {"queued", "running"}) ~> HasStatus(j, Terminal \cup {"paused"})
=============================================================================
