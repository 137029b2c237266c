--------------------------- MODULE RunController ---------------------------
(***************************************************************************)
(* The server side of a run: RunController and the handlers around it      *)
(* (routes/execution_api.py), the end of ProcessorCore.run                 *)
(* (app_context.py), the database export that takes the same lock          *)
(* (routes/export_api.py) and the one listener of the event broadcaster    *)
(* (central_logger.py).                                                    *)
(*                                                                         *)
(* Every handler holds the controller's lock from its first test to its    *)
(* last assignment, so each is one action.  An export holds the lock for   *)
(* as long as it writes: `exporting` is that stretch, and whatever else    *)
(* needs the lock waits for it.  The batch loop inside core.run is the     *)
(* subject of BatchRun; here it is the step from "running" to "numbered".  *)
(* Requests come from anywhere in any order; RunClient closes the system   *)
(* with the page, the network and the stream.                              *)
(***************************************************************************)
EXTENDS Naturals, Sequences

CONSTANTS Runs,          \* run ids a page can make up
          MaxRevision,   \* bound on the progress events of a run, and on Spec's requests
          MaxNumber,     \* bound: no export request once this many numbers are used
          Mishaps,       \* what may go wrong in a worker: "run", "shutdown"
          QueueSize      \* events the listener's queue holds (1000, log lines included)

ASSUME RunsAssumption == Runs \subseteq Nat \ {0}
ASSUME BoundsAssumption == MaxRevision \in Nat /\ MaxNumber \in Nat /\ QueueSize \in Nat

VARIABLES
  run_id, revision, phase, terminal, export_barrier, export_result,
  abort,            \* runs whose abort event is set
  export_revision,  \* the last number given to an export result or a run
  exporting,        \* an export request holds the lock
  worker,           \* where the worker thread of each run is
  number,           \* the number each worker holds for its result
  listener, queue,  \* the event stream's queue, while one is attached
  published,        \* history: the snapshot of every revision, in order
  asked             \* history: runs a Stop request named

stateVars == <<run_id, revision, phase, terminal, export_barrier, export_result>>
streamVars == <<listener, queue>>
workerVars == <<worker, number>>
serverVars == <<stateVars, abort, export_revision, exporting, workerVars, streamVars,
                published, asked>>

NoRun == 0
Ended == {"done", "aborted", "failed"}
Phases == {"idle", "running", "stopping"} \cup Ended
Places == {"none", "running", "numbered", "reported", "closing", "crashed", "over"} \cup Ended

NoOutcome == [kind |-> "none", number |-> 0, run |-> NoRun]
AutomaticOutcome(id, n) == [kind |-> "automatic", number |-> n, run |-> id]

Snapshot == [run_id |-> run_id, revision |-> revision, phase |-> phase,
             export_barrier |-> export_barrier, export_result |-> export_result]

\* Mutant: a run that is stopping no longer counts as active.
activeUnlessStopping(p) == p \in {"starting", "running"}

active(p) == p \in {"starting", "running", "stopping"}

Init ==
  /\ run_id = NoRun /\ revision = 0 /\ phase = "idle" /\ terminal = ""
  /\ export_barrier = 0 /\ export_result = NoOutcome
  /\ abort = {} /\ export_revision = 0 /\ exporting = FALSE
  /\ worker = [id \in Runs |-> "none"] /\ number = [id \in Runs |-> 0]
  /\ listener = FALSE /\ queue = << >>
  /\ published = <<Snapshot>> /\ asked = {}

-----------------------------------------------------------------------------
(* SSEBroadcaster *)

\* put_nowait on the listener's queue; a full queue drops the event silently.
Broadcast(type) ==
  queue' = IF listener /\ Len(queue) < QueueSize
           THEN Append(queue, [type |-> type, run_state |-> Snapshot'])
           ELSE queue

AddListener ==
  /\ ~listener /\ listener' = TRUE /\ queue' = << >>
  /\ UNCHANGED <<stateVars, abort, export_revision, exporting, workerVars, published, asked>>

RemoveListener ==
  /\ listener /\ listener' = FALSE /\ queue' = << >>
  /\ UNCHANGED <<stateVars, abort, export_revision, exporting, workerVars, published, asked>>

\* A new revision: the snapshot that goes with it is broadcast.
Publish(type) ==
  /\ revision' = revision + 1
  /\ published' = Append(published, Snapshot')
  /\ Broadcast(type)
  /\ UNCHANGED listener

-----------------------------------------------------------------------------
(* The request handlers *)

\* Mutant: the id of the last run may be started again.
StartAcceptedAgain(id) ==
  /\ ~exporting /\ ~active(phase)
  /\ run_id' = id /\ abort' = abort \ {id}
  /\ phase' = "running" /\ terminal' = "" /\ export_result' = NoOutcome
  /\ export_revision' = export_revision + 1
  /\ export_barrier' = export_revision + 1
  /\ worker' = [worker EXCEPT ![id] = "running"]
  /\ UNCHANGED <<exporting, number, asked>>
  /\ Publish("run_state")

\* start_processing on its way to a new run.
StartAccepted(id) ==
  /\ ~exporting /\ ~active(phase) /\ id # run_id
  /\ run_id' = id /\ abort' = abort \ {id}
  /\ phase' = "running" /\ terminal' = "" /\ export_result' = NoOutcome
  /\ export_revision' = export_revision + 1
  /\ export_barrier' = export_revision + 1
  /\ worker' = [worker EXCEPT ![id] = "running"]
  /\ UNCHANGED <<exporting, number, asked>>
  /\ Publish("run_state")

\* A request that was sent again after the run it started has ended.
StartRepeated(id) ==
  /\ ~exporting /\ ~active(phase) /\ id = run_id
  /\ UNCHANGED serverVars

\* A run is active, or the settings or the processor core refuse.
StartRefused(id) ==
  /\ ~exporting /\ (active(phase) \/ id # run_id)
  /\ UNCHANGED serverVars

\* Mutant: the request's run id is not compared with the current run.
NamesActiveRunUnchecked(id) == active(phase)

NamesActiveRun(id) == id = run_id /\ active(phase)

StopAccepted(id) ==
  /\ ~exporting /\ NamesActiveRun(id)
  /\ abort' = abort \cup {run_id} /\ asked' = asked \cup {id}
  /\ phase' = "stopping"
  /\ UNCHANGED <<run_id, terminal, export_barrier, export_result, export_revision, exporting, workerVars>>
  /\ Publish("run_state")

StopRefused(id) ==
  /\ ~exporting /\ ~NamesActiveRun(id)
  /\ asked' = asked \cup {id}
  /\ UNCHANGED <<stateVars, abort, export_revision, exporting, workerVars, streamVars, published>>

GetStatus == ~exporting /\ UNCHANGED serverVars

-----------------------------------------------------------------------------
(* export_database *)

ExportBegins ==
  /\ ~exporting /\ ~active(phase)
  /\ export_revision < MaxNumber
  /\ exporting' = TRUE
  /\ UNCHANGED <<stateVars, abort, export_revision, workerVars, streamVars, published, asked>>

\* The outcome, complete, partial or unknown, is numbered before the lock is given back.
ExportEnds ==
  /\ exporting /\ exporting' = FALSE
  /\ export_revision' = export_revision + 1
  /\ UNCHANGED <<stateVars, abort, workerVars, streamVars, published, asked>>

\* The lock is taken without waiting: an export that meets any other holder of it, or an
\* active run, or a request or a database it cannot use, is refused with a number.
ExportRefused ==
  /\ export_revision < MaxNumber
  /\ export_revision' = export_revision + 1
  /\ UNCHANGED <<stateVars, abort, exporting, workerVars, streamVars, published, asked>>

-----------------------------------------------------------------------------
(* The worker thread: worker -> core.run -> emit *)

At(id, place) == worker[id] = place
MovesTo(id, place) == worker' = [worker EXCEPT ![id] = place] /\ UNCHANGED number

\* emit drops whatever is not said by the current, active run.
Heard(id) == id = run_id /\ active(phase)

Progress(id) ==
  /\ At(id, "running") /\ ~exporting /\ Heard(id)
  /\ revision < MaxRevision
  /\ UNCHANGED <<run_id, phase, terminal, export_barrier, export_result, abort,
                 export_revision, exporting, workerVars, asked>>
  /\ Publish("progress")

\* Mutant: the result takes over the last number given.
NumberResultUnadvanced(id) ==
  /\ At(id, "running") /\ worker' = [worker EXCEPT ![id] = "numbered"]
  /\ number' = [number EXCEPT ![id] = export_revision]
  /\ UNCHANGED <<stateVars, abort, export_revision, exporting, streamVars, published, asked>>

\* The loop is over, the reports are written and their outcome gets its number, without
\* the controller's lock.
NumberResult(id) ==
  /\ At(id, "running") /\ worker' = [worker EXCEPT ![id] = "numbered"]
  /\ export_revision' = export_revision + 1
  /\ number' = [number EXCEPT ![id] = export_revision + 1]
  /\ UNCHANGED <<stateVars, abort, exporting, streamVars, published, asked>>

\* The number was taken a step ago; an export request may have got a higher one since.
EmitResult(id) ==
  /\ At(id, "numbered") /\ ~exporting /\ MovesTo(id, "reported")
  /\ IF Heard(id)
     THEN /\ export_result' = AutomaticOutcome(id, number[id])
          /\ UNCHANGED <<run_id, phase, terminal, export_barrier>>
          /\ Publish("export_result")
     ELSE UNCHANGED <<stateVars, streamVars, published>>
  /\ UNCHANGED <<abort, export_revision, exporting, asked>>

\* The abort event is read once, after the reports, without the lock.
ReadVerdict(id) ==
  /\ At(id, "reported")
  /\ \/ "run" \in Mishaps /\ MovesTo(id, "failed")
     \/ MovesTo(id, IF id \in abort THEN "aborted" ELSE "done")
  /\ UNCHANGED <<stateVars, abort, export_revision, exporting, streamVars, published, asked>>

\* The verdict is kept until the worker ends; before "done" goes a last progress event.
EmitVerdict(id) ==
  /\ worker[id] \in Ended /\ ~exporting /\ MovesTo(id, "closing")
  /\ IF Heard(id)
     THEN /\ terminal' = worker[id]
          /\ UNCHANGED <<run_id, phase, export_barrier, export_result>>
          /\ IF worker[id] = "done"
             THEN Publish("progress")
             ELSE UNCHANGED <<revision, published, streamVars>>
     ELSE UNCHANGED <<stateVars, streamVars, published>>
  /\ UNCHANGED <<abort, export_revision, exporting, asked>>

\* Closing the database raises out of core.run.
ShutdownFails(id) ==
  /\ "shutdown" \in Mishaps
  /\ At(id, "closing") /\ ~exporting /\ MovesTo(id, "crashed")
  /\ terminal' = IF id = run_id THEN "failed" ELSE terminal
  /\ UNCHANGED <<run_id, revision, phase, export_barrier, export_result, abort,
                 export_revision, exporting, streamVars, published, asked>>

FinalPhase(id) ==
  IF terminal # "" THEN terminal ELSE IF id \in abort THEN "aborted" ELSE "done"

WorkerEnds(id) ==
  /\ worker[id] \in {"closing", "crashed"} /\ ~exporting /\ MovesTo(id, "over")
  /\ IF id = run_id
     THEN /\ phase' = FinalPhase(id) /\ terminal' = FinalPhase(id)
          /\ UNCHANGED <<run_id, export_barrier, export_result>>
          /\ Publish("terminal")
     ELSE UNCHANGED <<stateVars, streamVars, published>>
  /\ UNCHANGED <<abort, export_revision, exporting, asked>>

WorkerStep(id) ==
  \/ Progress(id) \/ NumberResult(id) \/ EmitResult(id) \/ ReadVerdict(id)
  \/ EmitVerdict(id) \/ ShutdownFails(id) \/ WorkerEnds(id)

\* Requests come from anywhere, in any order, until MaxRevision is reached; those that
\* change nothing are left out.
Next ==
  \/ revision < MaxRevision /\ \E id \in Runs : StartAccepted(id) \/ StopAccepted(id)
  \/ \E id \in Runs : StopRefused(id) \/ WorkerStep(id)
  \/ ExportBegins \/ ExportEnds \/ ExportRefused
  \/ AddListener \/ RemoveListener

Spec == Init /\ [][Next]_serverVars

-----------------------------------------------------------------------------
(* Properties *)

Snapshots == [run_id : Runs \cup {NoRun}, revision : Nat, phase : Phases,
              export_barrier : Nat,
              export_result : [kind : {"none", "automatic"}, number : Nat, run : Runs \cup {NoRun}]]

TypeOK ==
  /\ Snapshot \in Snapshots
  /\ terminal \in Ended \cup {""}
  /\ abort \subseteq Runs /\ asked \subseteq Runs
  /\ export_revision \in Nat /\ exporting \in BOOLEAN
  /\ worker \in [Runs -> Places] /\ number \in [Runs -> Nat]
  /\ listener \in BOOLEAN
  /\ queue \in Seq([type : {"run_state", "progress", "export_result", "terminal"},
                    run_state : Snapshots])
  /\ published \in Seq(Snapshots)

Live(id) == worker[id] \notin {"none", "over"}

\* Two processor cores never have the database open at once, whatever Stop and Start do
\* around the worker's end (RunController.active gates start_processing).
OneRunAtATime == \A id, other \in Runs : Live(id) /\ Live(other) => id = other

\* An export never reads the database of a run that is being written (export_database).
ExportAlone == exporting => \A id \in Runs : ~Live(id)

\* The database of a run has one user at a time: one processor core or one export.
OneUserOfTheDatabase == OneRunAtATime /\ ExportAlone

\* A run is aborted only if a Stop named that very run: a Stop that is late for its own
\* run never hits the next one (RunController.stop).
StopHitsItsRun == abort \subseteq asked

\* A number names one outcome: a run's result is above the barrier its start drew, so the
\* page can tell it from the results of the runs before (advance_export_revision).
ResultAboveBarrier ==
  /\ export_barrier <= export_revision
  /\ export_result # NoOutcome =>
       export_result.run = run_id /\ export_result.number > export_barrier

=============================================================================
