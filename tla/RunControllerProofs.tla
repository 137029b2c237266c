------------------------ MODULE RunControllerProofs ------------------------
(***************************************************************************)
(* What RunController keeps whatever requests it is sent: one run at a     *)
(* time, no export beside a run, no Stop on another run, results numbered  *)
(* above their run's barrier.                                              *)
(*                                                                         *)
(* The inductive invariant says why: every live worker is the current      *)
(* run's and its run is active, and an export and an active run exclude    *)
(* each other.                                                             *)
(***************************************************************************)
EXTENDS RunController, TLAPS

\* The part of the type invariant that the argument needs.
Shapes ==
  /\ run_id \in Runs \cup {NoRun} /\ phase \in Phases /\ terminal \in Ended \cup {""}
  /\ worker \in [Runs -> Places]

Counters == export_revision \in Nat /\ export_barrier \in Nat /\ number \in [Runs -> Nat]

LiveIsCurrent == \A id \in Runs : Live(id) => id = run_id /\ active(phase)

ExportOrRun == exporting => ~active(phase)

Numbering ==
  /\ export_barrier <= export_revision
  /\ \A id \in Runs : At(id, "numbered") => number[id] > export_barrier
  /\ export_result # NoOutcome =>
       export_result.run = run_id /\ export_result.number > export_barrier

IInv == Shapes /\ Counters /\ LiveIsCurrent /\ ExportOrRun /\ StopHitsItsRun /\ Numbering

-----------------------------------------------------------------------------
LEMMA InitKeeps == Init => IInv
<1> SUFFICES ASSUME Init PROVE IInv
  OBVIOUS
<1>1. Shapes
  BY DEF Init, Shapes, Phases, Places
<1>2. Counters
  BY DEF Init, Counters
<1>3. LiveIsCurrent /\ ExportOrRun /\ StopHitsItsRun
  BY DEF Init, LiveIsCurrent, ExportOrRun, StopHitsItsRun, Live
<1>4. export_barrier <= export_revision
  <2>1. export_barrier = 0 /\ export_revision = 0
    BY DEF Init
  <2> QED BY <2>1
<1>5. Numbering
  BY <1>4 DEF Init, Numbering, At
<1> QED BY <1>1, <1>2, <1>3, <1>5 DEF IInv

\* A worker that moves within its life leaves the others where they are.
LEMMA MoveKeeps ==
  ASSUME IInv, NEW id \in Runs, NEW place \in Places \ {"none", "numbered"},
         MovesTo(id, place), Live(id),
         UNCHANGED <<run_id, export_barrier>>, active(phase) => active(phase'),
         UNCHANGED export_revision
  PROVE  /\ worker' \in [Runs -> Places] /\ number' \in [Runs -> Nat]
         /\ LiveIsCurrent'
         /\ \A other \in Runs : At(other, "numbered")' => number'[other] > export_barrier'
<1>1. worker' \in [Runs -> Places] /\ LiveIsCurrent'
  BY DEF IInv, Shapes, LiveIsCurrent, MovesTo, Live
<1>2. \A other \in Runs : At(other, "numbered")' => number'[other] > export_barrier'
  BY DEF IInv, Shapes, Numbering, MovesTo, At
<1> QED BY <1>1, <1>2 DEF IInv, Counters, MovesTo

LEMMA StartKeeps ==
  ASSUME IInv, NEW id \in Runs, StartAccepted(id)
  PROVE  IInv'
<1>1. Shapes'
  BY DEF IInv, Shapes, StartAccepted, Phases, Places
<1>c. Counters'
  <2>1. export_revision' = export_revision + 1 /\ export_barrier' = export_revision + 1
        /\ number' = number
    BY DEF StartAccepted
  <2>2. export_revision + 1 \in Nat
    BY DEF IInv, Counters
  <2> QED BY <2>1, <2>2 DEF IInv, Counters
<1>2. \A other \in Runs : ~Live(other)
  BY DEF IInv, LiveIsCurrent, StartAccepted
<1>3. LiveIsCurrent'
  BY <1>2 DEF IInv, Shapes, LiveIsCurrent, Live, StartAccepted, active
<1>4. ExportOrRun'
  BY DEF StartAccepted, ExportOrRun
<1>5. StopHitsItsRun'
  BY DEF IInv, StopHitsItsRun, StartAccepted
<1>6. \A other \in Runs : ~At(other, "numbered")'
  BY <1>2 DEF IInv, Shapes, Live, At, StartAccepted
<1>7. export_barrier' <= export_revision'
  <2>1. export_barrier' = export_revision'
    BY DEF StartAccepted
  <2> QED BY <2>1, <1>c DEF Counters
<1>8. Numbering'
  BY <1>6, <1>7 DEF Numbering, StartAccepted
<1> QED BY <1>1, <1>c, <1>3, <1>4, <1>5, <1>8 DEF IInv

LEMMA StopKeeps ==
  ASSUME IInv, NEW id, StopAccepted(id) \/ StopRefused(id)
  PROVE  IInv'
<1>1. CASE StopAccepted(id)
  <2>1. active(phase) /\ active(phase')
    BY <1>1 DEF StopAccepted, NamesActiveRun, active
  <2>2. StopHitsItsRun'
    BY <1>1 DEF IInv, StopHitsItsRun, StopAccepted, NamesActiveRun
  <2>3. Shapes' /\ Counters' /\ ExportOrRun'
    BY <1>1 DEF IInv, Shapes, Counters, ExportOrRun, StopAccepted, Phases, workerVars
  <2>4. LiveIsCurrent'
    BY <1>1, <2>1 DEF IInv, LiveIsCurrent, Live, StopAccepted, workerVars
  <2>5. Numbering'
    BY <1>1 DEF IInv, Numbering, At, StopAccepted, workerVars
  <2> QED BY <2>2, <2>3, <2>4, <2>5 DEF IInv
<1>2. CASE StopRefused(id)
  BY <1>2 DEF IInv, Shapes, Counters, LiveIsCurrent, ExportOrRun, StopHitsItsRun, Numbering, Live, At,
              StopRefused, stateVars, workerVars
<1> QED BY <1>1, <1>2

LEMMA ExportKeeps ==
  ASSUME IInv, ExportBegins \/ ExportEnds \/ ExportRefused
  PROVE  IInv'
<1>1. UNCHANGED <<stateVars, abort, workerVars, asked>>
  BY DEF ExportBegins, ExportEnds, ExportRefused
<1>2. export_revision' = export_revision \/ export_revision' = export_revision + 1
  BY DEF ExportBegins, ExportEnds, ExportRefused
<1>c. Counters'
  <2>1. export_barrier' = export_barrier /\ number' = number
    BY <1>1 DEF stateVars, workerVars
  <2>2. export_revision' \in Nat
    BY <1>2 DEF IInv, Counters
  <2> QED BY <2>1, <2>2 DEF IInv, Counters
<1>3. ExportOrRun'
  BY <1>1 DEF IInv, ExportOrRun, ExportBegins, ExportEnds, ExportRefused, stateVars
<1>4. Shapes' /\ LiveIsCurrent' /\ StopHitsItsRun'
  BY <1>1 DEF IInv, Shapes, LiveIsCurrent, StopHitsItsRun, Live, stateVars, workerVars
<1>5. export_barrier' <= export_revision'
  <2>1. export_barrier' = export_barrier
    BY <1>1 DEF stateVars
  <2>2. export_barrier <= export_revision
    BY DEF IInv, Numbering
  <2> QED BY <2>1, <2>2, <1>2 DEF IInv, Counters
<1>6. Numbering'
  BY <1>1, <1>5 DEF IInv, Numbering, At, stateVars, workerVars
<1> QED BY <1>c, <1>3, <1>4, <1>6 DEF IInv

LEMMA WorkerKeeps ==
  ASSUME IInv, NEW id \in Runs, WorkerStep(id)
  PROVE  IInv'
<1>1. CASE Progress(id)
  BY <1>1 DEF IInv, Shapes, Counters, LiveIsCurrent, ExportOrRun, StopHitsItsRun, Numbering, Live, At,
              Progress, workerVars
<1>2. CASE NumberResult(id)
  <2>1. Shapes' /\ ExportOrRun' /\ StopHitsItsRun'
    BY <1>2 DEF IInv, Shapes, ExportOrRun, StopHitsItsRun, NumberResult, Places, stateVars
  <2>2. LiveIsCurrent'
    BY <1>2 DEF IInv, Shapes, LiveIsCurrent, Live, At, NumberResult, stateVars
  <2>3. export_revision' = export_revision + 1 /\ export_barrier' = export_barrier
        /\ number' = [number EXCEPT ![id] = export_revision + 1]
    BY <1>2 DEF NumberResult, stateVars
  <2>4. export_revision + 1 \in Nat /\ export_barrier <= export_revision + 1
        /\ export_revision + 1 > export_barrier
    <3>1. export_barrier <= export_revision
      BY DEF IInv, Numbering
    <3> QED BY <3>1 DEF IInv, Counters
  <2>5. Counters'
    BY <2>3, <2>4 DEF IInv, Counters
  <2>6. \A other \in Runs : At(other, "numbered")' => number'[other] > export_barrier'
    <3> SUFFICES ASSUME NEW other \in Runs, At(other, "numbered")'
                 PROVE  number'[other] > export_barrier'
      OBVIOUS
    <3>1. CASE other = id
      BY <3>1, <2>3, <2>4 DEF IInv, Counters
    <3>2. CASE other # id
      <4>1. number'[other] = number[other]
        BY <3>2, <2>3 DEF IInv, Counters
      <4>2. At(other, "numbered")
        BY <3>2, <1>2 DEF IInv, Shapes, NumberResult, At
      <4> QED BY <4>1, <4>2, <2>3 DEF IInv, Numbering
    <3> QED BY <3>1, <3>2
  <2>7. Numbering'
    BY <1>2, <2>3, <2>4, <2>6 DEF IInv, Numbering, NumberResult, stateVars
  <2> QED BY <2>1, <2>2, <2>5, <2>7 DEF IInv
<1>3. CASE EmitResult(id)
  <2>1. Live(id) /\ "reported" \in Places \ {"none", "numbered"}
    BY <1>3 DEF EmitResult, Live, At, Places
  <2>2. UNCHANGED <<run_id, phase, terminal, export_barrier, export_revision, abort, asked, exporting>>
    BY <1>3 DEF EmitResult, stateVars
  <2>3. /\ worker' \in [Runs -> Places] /\ number' \in [Runs -> Nat] /\ LiveIsCurrent'
        /\ \A other \in Runs : At(other, "numbered")' => number'[other] > export_barrier'
    BY <1>3, <2>1, <2>2, MoveKeeps DEF EmitResult
  <2>4. export_result' # NoOutcome =>
          export_result'.run = run_id' /\ export_result'.number > export_barrier'
    <3>1. CASE export_result' = export_result
      BY <3>1, <2>2 DEF IInv, Numbering
    <3>2. CASE Heard(id) /\ export_result' = AutomaticOutcome(id, number[id])
      BY <3>2, <1>3, <2>2 DEF IInv, Numbering, AutomaticOutcome, EmitResult, Heard, At
    <3> QED BY <3>1, <3>2, <1>3 DEF EmitResult, stateVars
  <2>5. Shapes' /\ Counters' /\ ExportOrRun' /\ StopHitsItsRun' /\ Numbering'
    BY <2>2, <2>3, <2>4 DEF IInv, Shapes, Counters, ExportOrRun, StopHitsItsRun, Numbering
  <2> QED BY <2>3, <2>5 DEF IInv
<1>4. CASE ReadVerdict(id)
  <2>1. PICK place \in Ended : MovesTo(id, place)
    BY <1>4 DEF ReadVerdict, Ended
  <2>2. Live(id) /\ place \in Places \ {"none", "numbered"}
    BY <1>4 DEF ReadVerdict, Live, At, Places, Ended
  <2>3. UNCHANGED <<run_id, phase, terminal, export_barrier, export_result, export_revision,
                    abort, asked, exporting>>
    BY <1>4 DEF ReadVerdict, stateVars
  <2>4. /\ worker' \in [Runs -> Places] /\ number' \in [Runs -> Nat] /\ LiveIsCurrent'
        /\ \A other \in Runs : At(other, "numbered")' => number'[other] > export_barrier'
    BY <2>1, <2>2, <2>3, MoveKeeps
  <2>5. Shapes' /\ Counters' /\ ExportOrRun' /\ StopHitsItsRun' /\ Numbering'
    BY <2>3, <2>4 DEF IInv, Shapes, Counters, ExportOrRun, StopHitsItsRun, Numbering
  <2> QED BY <2>4, <2>5 DEF IInv
<1>5. CASE EmitVerdict(id)
  <2>1. Live(id) /\ "closing" \in Places \ {"none", "numbered"}
    BY <1>5 DEF EmitVerdict, Live, Places, Ended
  <2>2. UNCHANGED <<run_id, phase, export_barrier, export_result, export_revision, abort,
                    asked, exporting>>
    BY <1>5 DEF EmitVerdict, stateVars
  <2>3. terminal' \in Ended \cup {""}
    BY <1>5 DEF IInv, Shapes, EmitVerdict, stateVars
  <2>4. /\ worker' \in [Runs -> Places] /\ number' \in [Runs -> Nat] /\ LiveIsCurrent'
        /\ \A other \in Runs : At(other, "numbered")' => number'[other] > export_barrier'
    BY <1>5, <2>1, <2>2, MoveKeeps DEF EmitVerdict
  <2>5. Shapes' /\ Counters' /\ ExportOrRun' /\ StopHitsItsRun' /\ Numbering'
    BY <2>2, <2>3, <2>4 DEF IInv, Shapes, Counters, ExportOrRun, StopHitsItsRun, Numbering
  <2> QED BY <2>4, <2>5 DEF IInv
<1>6. CASE ShutdownFails(id)
  <2>1. Live(id) /\ "crashed" \in Places \ {"none", "numbered"}
    BY <1>6 DEF ShutdownFails, Live, At, Places
  <2>2. UNCHANGED <<run_id, phase, export_barrier, export_result, export_revision, abort,
                    asked, exporting>>
    BY <1>6 DEF ShutdownFails
  <2>3. terminal' \in Ended \cup {""}
    BY <1>6 DEF IInv, Shapes, ShutdownFails, Ended
  <2>4. /\ worker' \in [Runs -> Places] /\ number' \in [Runs -> Nat] /\ LiveIsCurrent'
        /\ \A other \in Runs : At(other, "numbered")' => number'[other] > export_barrier'
    BY <1>6, <2>1, <2>2, MoveKeeps DEF ShutdownFails
  <2>5. Shapes' /\ Counters' /\ ExportOrRun' /\ StopHitsItsRun' /\ Numbering'
    BY <2>2, <2>3, <2>4 DEF IInv, Shapes, Counters, ExportOrRun, StopHitsItsRun, Numbering
  <2> QED BY <2>4, <2>5 DEF IInv
<1>7. CASE WorkerEnds(id)
  <2>1. id = run_id /\ \A other \in Runs : Live(other) => other = id
    BY <1>7 DEF IInv, LiveIsCurrent, Live, WorkerEnds
  <2>2. FinalPhase(id) \in Ended /\ phase' = FinalPhase(id) /\ terminal' = FinalPhase(id)
    BY <1>7, <2>1 DEF IInv, Shapes, WorkerEnds, FinalPhase, Ended
  <2>3. UNCHANGED <<run_id, export_barrier, export_result, export_revision, abort, asked,
                    exporting, number>>
    BY <1>7, <2>1 DEF WorkerEnds, MovesTo
  <2>4. worker' \in [Runs -> Places] /\ \A other \in Runs : ~Live(other)'
    BY <1>7, <2>1 DEF IInv, Shapes, WorkerEnds, MovesTo, Live, Places
  <2>5. Shapes' /\ Counters' /\ LiveIsCurrent' /\ StopHitsItsRun'
    BY <2>2, <2>3, <2>4 DEF IInv, Shapes, Counters, LiveIsCurrent, StopHitsItsRun, Phases
  <2>6. ExportOrRun'
    BY <2>2 DEF ExportOrRun, active, Ended
  <2>7. Numbering'
    BY <2>3, <2>4 DEF IInv, Numbering, At, Live
  <2> QED BY <2>5, <2>6, <2>7 DEF IInv
<1> QED BY <1>1, <1>2, <1>3, <1>4, <1>5, <1>6, <1>7 DEF WorkerStep

LEMMA StepKeeps == IInv /\ [Next]_serverVars => IInv'
<1> SUFFICES ASSUME IInv, [Next]_serverVars PROVE IInv'
  OBVIOUS
<1>1. CASE UNCHANGED serverVars \/ AddListener \/ RemoveListener
  <2>1. UNCHANGED <<stateVars, abort, export_revision, exporting, workerVars, asked>>
    BY <1>1 DEF serverVars, AddListener, RemoveListener
  <2>2. Shapes' /\ LiveIsCurrent' /\ ExportOrRun' /\ StopHitsItsRun'
    BY <2>1 DEF IInv, Shapes, LiveIsCurrent, ExportOrRun, StopHitsItsRun, Live, stateVars, workerVars
  <2>3. Counters' /\ Numbering'
    BY <2>1 DEF IInv, Counters, Numbering, At, stateVars, workerVars
  <2> QED BY <2>2, <2>3 DEF IInv
<1> QED
  BY <1>1, StartKeeps, StopKeeps, ExportKeeps, WorkerKeeps DEF Next

\* The inductive invariant of the controller, for any number of runs and pages of the interface.
THEOREM ServerInvariance == Spec => []IInv
  BY InitKeeps, StepKeeps, PTL DEF Spec

\* Whatever requests come, two runs never have the database at once, nor a run and an
\* export (RunController.active gates start_processing and export_database).
THEOREM OneUser == Spec => []OneUserOfTheDatabase
<1>1. IInv => OneRunAtATime
  BY DEF IInv, LiveIsCurrent, OneRunAtATime
<1>2. IInv => ExportAlone
  BY DEF IInv, LiveIsCurrent, ExportOrRun, ExportAlone
<1>3. IInv => OneUserOfTheDatabase
  BY <1>1, <1>2 DEF OneUserOfTheDatabase
<1> QED BY <1>3, ServerInvariance, PTL

\* A Stop never aborts a run it did not name, however late it is.
THEOREM StopsItsRun == Spec => []StopHitsItsRun
  BY ServerInvariance, PTL DEF IInv

\* The result of a run is numbered above the barrier drawn when the run began.
THEOREM ResultsAboveBarrier == Spec => []ResultAboveBarrier
<1>1. IInv => ResultAboveBarrier
  BY DEF IInv, Numbering, ResultAboveBarrier
<1> QED BY <1>1, ServerInvariance, PTL

=============================================================================
