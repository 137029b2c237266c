----------------------------- MODULE RunClient -----------------------------
(***************************************************************************)
(* The page's side of a run: the run client (static/app.js) and the report *)
(* panel (templates/tabs/exports_content.html), with the requests in       *)
(* flight and the event stream between them and RunController.             *)
(*                                                                         *)
(* A request is in `net` from the fetch to the moment its promise settles. *)
(* A fetch may fail at any time (external: the browser's transport): the   *)
(* request may have been handled, may still be, or never will.  Replies    *)
(* and stream events overtake each other; the stream alone is in order.    *)
(* Notices, dialogs and the drawing of controls are left out.              *)
(***************************************************************************)
EXTENDS RunController, Integers

CONSTANTS Faults,      \* what may go wrong: the fetch of a kind of request, "break" (the
                       \* stream), "resend" (the transport repeats a start by itself)
          MaxStops, MaxExports, MaxFaults   \* bounds on clicks and on what goes wrong

VARIABLES
  ui,       \* the page
  net,      \* requests and replies in flight
  stream,   \* the EventSource: "down", "registered" at the server, "open"
  used      \* how much of each bound is used

clientVars == <<ui, net, stream, used>>
vars == <<serverVars, clientVars>>

Fault(kind) ==
  /\ kind \in Faults /\ used.faults < MaxFaults
  /\ used' = [used EXCEPT !.faults = @ + 1]

NoBarrier == 0
NoPhase == [run_id |-> NoRun, revision |-> 0, phase |-> "idle", export_barrier |-> 0,
            export_result |-> NoOutcome]
Kinds == {"start", "stop", "status", "export"}

ClientInit ==
  /\ ui = [state |-> NoPhase, observed |-> -1, pending |-> NoRun, previous |-> NoPhase,
           sequence |-> 0, timer |-> FALSE,
           exportBusy |-> FALSE, lastExport |-> 0, deferred |-> NoOutcome,
           manualUnconfirmed |-> FALSE, runStarting |-> FALSE, outcome |-> NoOutcome,
           announced |-> [id \in Runs |-> 0]]
  /\ net = {[kind |-> "status", id |-> 0, stage |-> "sent", heard |-> TRUE, ok |-> FALSE,
              snapshot |-> NoPhase, number |-> 0]}   \* reconcileRun on page load
  /\ stream = "down"
  /\ used = [stops |-> 0, exports |-> 0, faults |-> 0]

-----------------------------------------------------------------------------
(* The report panel *)

acceptExportOutcome(u, outcome) ==
  IF outcome.number <= u.lastExport THEN u
  ELSE [u EXCEPT !.lastExport = outcome.number, !.outcome = outcome]

receiveAutomaticExport(u, outcome) ==
  IF u.exportBusy \/ u.runStarting
  THEN [u EXCEPT !.deferred = IF outcome.number > @.number THEN outcome ELSE @]
  ELSE IF u.manualUnconfirmed THEN u ELSE acceptExportOutcome(u, outcome)

flushAutomaticExport(u) ==
  IF u.deferred = NoOutcome THEN u
  ELSE receiveAutomaticExport([u EXCEPT !.deferred = NoOutcome], u.deferred)

\* Mutant: the barrier of the new run is not remembered.
finishAutomaticExportRunUnbarred(u, barrier) ==
  flushAutomaticExport([u EXCEPT
    !.manualUnconfirmed = @ /\ barrier = NoBarrier,
    !.runStarting = FALSE])

finishAutomaticExportRun(u, barrier) ==
  flushAutomaticExport([u EXCEPT
    !.lastExport = IF barrier > @ THEN barrier ELSE @,
    !.manualUnconfirmed = @ /\ barrier = NoBarrier,
    !.runStarting = FALSE])

-----------------------------------------------------------------------------
(* The run client *)

runActive(u) == u.state.phase \in {"starting", "unknown", "running", "stopping"}

\* Mutant: every newer snapshot counts, whatever start is under way.
IsNewsByRevision(u, snapshot) == snapshot.revision > u.observed

\* Mutant: snapshots are taken as they come, whatever their revision.
IsNewsInAnyOrder(u, snapshot) ==
  u.pending # NoRun /\ snapshot.run_id # u.pending => active(snapshot.phase)

\* A snapshot of some other run that is over says nothing about a start under way.
IsNews(u, snapshot) ==
  /\ snapshot.revision > u.observed
  /\ u.pending # NoRun /\ snapshot.run_id # u.pending => active(snapshot.phase)

BelongsToNewRun(u, snapshot) ==
  \/ u.pending # NoRun /\ u.pending = snapshot.run_id
  \/ u.state.run_id # snapshot.run_id

Announce(u, before, snapshot) ==
  IF /\ snapshot.phase \in Ended
     /\ before.run_id # snapshot.run_id \/ before.phase # snapshot.phase
  THEN [u EXCEPT !.announced[snapshot.run_id] = @ + 1]
  ELSE u

acceptRunState(u, snapshot) ==
  IF ~IsNews(u, snapshot) THEN u
  ELSE LET seen == [u EXCEPT !.observed = snapshot.revision, !.state = snapshot]
           begun == IF BelongsToNewRun(u, snapshot)
                    THEN finishAutomaticExportRun([seen EXCEPT !.pending = NoRun],
                                                  snapshot.export_barrier)
                    ELSE seen
           reported == IF snapshot.export_result # NoOutcome
                       THEN receiveAutomaticExport(begun, snapshot.export_result)
                       ELSE begun
       IN  Announce(reported, u.state, snapshot)

Request(kind, id) ==
  [kind |-> kind, id |-> id, stage |-> "sent", heard |-> TRUE, ok |-> FALSE,
   snapshot |-> NoPhase, number |-> 0]

\* reconcileRun: ask for the status now; a timer that was set is cleared.
Reconcile(u, others) ==
  /\ ui' = [u EXCEPT !.timer = FALSE]
  /\ net' = others \cup {Request("status", 0)}

\* What follows the status request: while nothing is certain, ask again in a second.
AskAgainIfUnsure(u) ==
  [u EXCEPT !.timer = @ \/ u.pending # NoRun \/ u.state.phase = "unknown"]

\* Mutant: the page shows the run as running before the controller says so.
startProcessingOptimistic(id) ==
  /\ ~runActive(ui) /\ id = ui.sequence + 1
  /\ ui' = [ui EXCEPT !.sequence = id, !.pending = id, !.previous = ui.state,
                      !.state.run_id = id, !.state.phase = "running", !.runStarting = TRUE]
  /\ net' = net \cup {Request("start", id)}
  /\ UNCHANGED <<serverVars, stream, used>>

startProcessing(id) ==
  /\ ~runActive(ui) /\ id = ui.sequence + 1
  /\ ui' = [ui EXCEPT !.sequence = id, !.pending = id, !.previous = ui.state,
                      !.state.run_id = id, !.state.phase = "starting", !.runStarting = TRUE]
  /\ net' = net \cup {Request("start", id)}
  /\ UNCHANGED <<serverVars, stream, used>>

stopProcessing ==
  /\ ui.state.phase = "running" /\ used.stops < MaxStops
  /\ net' = net \cup {[Request("stop", ui.state.run_id) EXCEPT !.number = used.stops]}
  /\ used' = [used EXCEPT !.stops = @ + 1]
  /\ UNCHANGED <<serverVars, ui, stream>>

exportDatabase ==
  /\ ~ui.exportBusy /\ used.exports < MaxExports
  /\ used' = [used EXCEPT !.exports = @ + 1]
  /\ ui' = [ui EXCEPT !.exportBusy = TRUE,
                      !.outcome = [kind |-> "saving", number |-> 0, run |-> NoRun]]
  /\ net' = net \cup {Request("export", used.exports + 1)}
  /\ UNCHANGED <<serverVars, stream>>

Timer ==
  /\ ui.timer /\ Reconcile(ui, net)
  /\ UNCHANGED <<serverVars, stream, used>>

-----------------------------------------------------------------------------
(* The server handles a request; a reply that nobody waits for is lost *)

Answer(r, ok, snapshot, n) ==
  net' = (net \ {r}) \cup
         (IF r.heard
          THEN {[r EXCEPT !.stage = "answered", !.ok = ok, !.snapshot = snapshot, !.number = n]}
          ELSE {})

HandleStart(r) ==
  \/ (StartAccepted(r.id) \/ StartRepeated(r.id)) /\ Answer(r, TRUE, Snapshot', 0)
  \/ StartRefused(r.id) /\ Answer(r, FALSE, Snapshot, 0)

HandleStop(r) ==
  \/ StopAccepted(r.id) /\ Answer(r, TRUE, Snapshot', 0)
  \/ StopRefused(r.id) /\ Answer(r, FALSE, Snapshot, 0)

HandleExport(r) ==
  \/ ExportBegins /\ net' = (net \ {r}) \cup {[r EXCEPT !.stage = "exporting"]}
  \/ ExportRefused /\ Answer(r, FALSE, NoPhase, export_revision + 1)

Handle(r) ==
  /\ r.stage = "sent"
  /\ \/ r.kind = "start" /\ HandleStart(r)
     \/ r.kind = "stop" /\ HandleStop(r)
     \/ r.kind = "status" /\ GetStatus /\ Answer(r, TRUE, Snapshot, 0)
     \/ r.kind = "export" /\ HandleExport(r)
  /\ UNCHANGED <<ui, stream, used>>

FinishExport(r) ==
  /\ r.stage = "exporting"
  /\ ExportEnds /\ Answer(r, TRUE, NoPhase, export_revision + 1)
  /\ UNCHANGED <<ui, stream, used>>

-----------------------------------------------------------------------------
(* The page takes a reply *)

BeforeStart(u, id) ==
  IF u.state.run_id = id /\ u.state.phase = "starting"
  THEN [u EXCEPT !.pending = NoRun, !.state = u.previous]
  ELSE [u EXCEPT !.pending = NoRun]

StartAnswered(r) ==
  /\ ui' = IF r.id # ui.sequence THEN ui
           ELSE finishAutomaticExportRun(
                  acceptRunState(IF r.ok THEN ui ELSE BeforeStart(ui, r.id), r.snapshot), NoBarrier)
  /\ net' = net \ {r}

StopAnswered(r) ==
  /\ ui' = IF r.id = ui.state.run_id /\ runActive(ui) THEN acceptRunState(ui, r.snapshot) ELSE ui
  /\ net' = net \ {r}

StatusAnswered(r) ==
  /\ ui' = AskAgainIfUnsure(acceptRunState(ui, r.snapshot))
  /\ net' = net \ {r}

ExportAnswered(r) ==
  /\ ui' = LET told == acceptExportOutcome([ui EXCEPT !.manualUnconfirmed = FALSE],
                         [kind |-> "manual", number |-> r.number, run |-> NoRun])
           IN  flushAutomaticExport([told EXCEPT !.exportBusy = FALSE])
  /\ net' = net \ {r}

TakeReply(r) ==
  /\ r.stage = "answered"
  /\ \/ r.kind = "start" /\ StartAnswered(r)
     \/ r.kind = "stop" /\ StopAnswered(r)
     \/ r.kind = "status" /\ StatusAnswered(r)
     \/ r.kind = "export" /\ ExportAnswered(r)
  /\ UNCHANGED <<serverVars, stream, used>>

-----------------------------------------------------------------------------
(* A fetch fails: its catch block runs; a request on its way may still arrive *)

Abandoned(r) == (net \ {r}) \cup (IF r.stage = "answered" THEN {} ELSE {[r EXCEPT !.heard = FALSE]})

StartFails(r) ==
  IF r.id # ui.sequence THEN ui' = ui /\ net' = Abandoned(r)
  ELSE Reconcile([ui EXCEPT !.state.phase =
                    IF ui.state.run_id = r.id /\ @ = "starting" THEN "unknown" ELSE @],
                 Abandoned(r))

StopFails(r) ==
  IF r.id = ui.state.run_id /\ runActive(ui) THEN Reconcile(ui, Abandoned(r))
  ELSE ui' = ui /\ net' = Abandoned(r)

StatusFails(r) == ui' = AskAgainIfUnsure(ui) /\ net' = net \ {r}

\* The run the page knows of, leaving out a start that is under way.
ConfirmedRun(u) ==
  IF u.state.phase \in {"starting", "unknown"} THEN u.previous.run_id ELSE u.state.run_id

\* The run in the outcome is for a property only: the page keeps none.
ExportFails(r) ==
  /\ ui' = flushAutomaticExport([ui EXCEPT
              !.manualUnconfirmed = TRUE, !.exportBusy = FALSE,
              !.outcome = [kind |-> "unknown", number |-> 0, run |-> ConfirmedRun(ui)]])
  /\ net' = Abandoned(r)

FetchFails(r) ==
  /\ r.heard /\ Fault(r.kind)
  /\ \/ r.kind = "start" /\ StartFails(r)
     \/ r.kind = "stop" /\ StopFails(r)
     \/ r.kind = "status" /\ StatusFails(r)
     \/ r.kind = "export" /\ ExportFails(r)
  /\ UNCHANGED <<serverVars, stream>>

\* external: the transport loses the reply to a start and sends the request again.
Resend(r) ==
  /\ r.kind = "start" /\ r.stage = "answered" /\ Fault("resend")
  /\ net' = (net \ {r}) \cup {Request("start", r.id)}
  /\ UNCHANGED <<serverVars, ui, stream>>

-----------------------------------------------------------------------------
(* The event stream *)

\* The handler adds its queue before it sends anything, so before onopen.
StreamRegisters ==
  /\ stream = "down" /\ stream' = "registered" /\ AddListener
  /\ UNCHANGED <<ui, net, used>>

\* Mutant: an opened stream is taken to be up to date.
StreamOpensUnreconciled ==
  /\ stream = "registered" /\ stream' = "open"
  /\ UNCHANGED <<serverVars, ui, net, used>>

StreamOpens ==
  /\ stream = "registered" /\ stream' = "open"
  /\ Reconcile(ui, net)
  /\ UNCHANGED <<serverVars, used>>

\* external: the connection breaks, with whatever was in the queue; the browser reconnects.
StreamBreaks ==
  /\ stream # "down" /\ stream' = "down" /\ Fault("break")
  /\ RemoveListener
  /\ UNCHANGED <<ui, net>>

Deliver ==
  /\ stream = "open" /\ queue # << >>
  /\ LET event == Head(queue)
         told == acceptRunState(ui, event.run_state)
     IN  ui' = IF event.type = "export_result"
               THEN receiveAutomaticExport(told, event.run_state.export_result)
               ELSE told
  /\ queue' = Tail(queue)
  /\ UNCHANGED <<stateVars, abort, export_revision, exporting, workerVars, listener,
                 published, asked, net, stream, used>>

-----------------------------------------------------------------------------
ClientSpecInit == Init /\ ClientInit

Work(id) == WorkerStep(id) /\ UNCHANGED clientVars
Requests(kind) == {r \in net : r.kind = kind}
Served(kind) == \E r \in Requests(kind) : Handle(r)
Taken(kind) == \E r \in Requests(kind) : TakeReply(r)
Exporting == \E r \in net : FinishExport(r)

Clicks == stopProcessing \/ exportDatabase \/ \E id \in Runs : startProcessing(id)
Failures == StreamBreaks \/ \E r \in net : FetchFails(r) \/ Resend(r)
Stream == StreamRegisters \/ StreamOpens \/ Deliver

ClientNext ==
  \/ Clicks \/ Failures \/ Stream \/ Timer \/ Exporting
  \/ \E id \in Runs : Work(id)
  \/ \E kind \in Kinds : Served(kind) \/ Taken(kind)

\* The worker thread, the server's threads, the transport and the page's timers go on;
\* nobody has to click, and a request nobody waits for may never arrive.
Fairness ==
  /\ \A id \in Runs : WF_vars(Work(id))
  /\ \A kind \in Kinds :
       /\ WF_vars(\E r \in Requests(kind) : r.heard /\ Handle(r))
       /\ WF_vars(Taken(kind))
  /\ WF_vars(Exporting) /\ WF_vars(Stream) /\ WF_vars(Timer)

ClientSpec == ClientSpecInit /\ [][ClientNext]_vars
FairClientSpec == ClientSpec /\ Fairness

-----------------------------------------------------------------------------
(* Properties *)

\* Unless the page is waiting for a start it shows a state exactly as the controller
\* published it, whatever replies were lost or a start refused (startProcessing).
ShownAsPublished ==
  ui.state.phase \in {"starting", "unknown"} \/ ui.observed = -1
    \/ ui.state = published[ui.observed + 1]

\* No reply, event or refused start brings back an older state than the page has shown, or
\* has it announce the end of a run again, in whatever order they come (acceptRunState,
\* finishRun).
NeverGoesBack ==
  [][/\ ui'.state.revision >= ui.state.revision
     /\ \A id \in Runs : ui'.announced[id] <= 1]_vars

\* While the page's own start may still begin a run, and the page has not given it up,
\* Start is not offered again (pendingRunId, updateGlobalControls).
StartNotOfferedTwice ==
  \A r \in Requests("start") :
    r.heard /\ r.stage = "sent" /\ At(r.id, "none") => runActive(ui)

\* Once a run has ended the page shows the end, unless it is waiting for another start
\* (attachSSEStream, reconcileRun).
EndIsShown ==
  \A id \in Runs :
    (run_id = id /\ phase \in Ended)
      ~> (\/ run_id # id \/ ui.pending \notin {NoRun, id}
          \/ ui.state.run_id = id /\ ui.state.phase = phase)

\* A start that the transport repeats begins its run once, however late it is, as long as
\* no other run was begun since (start_processing compares ids).
RunBegunOnce ==
  [][\A id \in Runs : worker[id] = "over" /\ run_id = id => worker'[id] = "over"]_vars

\* An automatic result that comes onto the panel belongs to the run the page shows: the
\* result of the run before is held off by the new run's barrier.  It takes the place of an
\* export whose reply was lost only if its run came on the page after the loss
\* (manualUnconfirmed; "unseen old export stays blocked until a confirmed new operation",
\* tests/ui/test_exports_ui.py:628).
AutomaticResultIsNews ==
  [][ui'.outcome # ui.outcome /\ ui'.outcome.kind = "automatic"
       => /\ ui'.outcome.run = ui'.state.run_id
          /\ ui.outcome.kind = "unknown" => ui'.outcome.run > ui.outcome.run]_vars

\* locales/en.json:316: the panel says "Saving reports..."; while it does, an export is in
\* progress.
SavingMeansSaving == ui.outcome.kind = "saving" => ui.exportBusy

=============================================================================
