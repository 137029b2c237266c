--------------------------- MODULE RunClientProofs ---------------------------
(***************************************************************************)
(* What the page shows of a run, proved of RunClient for every number of   *)
(* runs, clicks and faults.                                                *)
(*                                                                         *)
(* The controller's chronicle `published` carries the argument: a snapshot *)
(* on its way, in a reply or an event, is an entry of it, and the page is  *)
(* at one place of it (Seen), showing that entry (Base) or waiting for a   *)
(* start on top of it.  SafeInv says so, whatever fails or is repeated.    *)
(*                                                                         *)
(* While the transport repeats no start, runs come in turn: TurnInv adds   *)
(* that the chronicle's runs follow each other with rising numbers of      *)
(* results, that the page is at most one run behind, and that a start not  *)
(* handled yet is the page's latest, of a run not begun.                   *)
(***************************************************************************)
EXTENDS RunClient, RunControllerProofs, SequenceTheorems

-----------------------------------------------------------------------------
(* What the proofs say of the page and of what the controller published *)

Outcomes == [kind : {"none", "automatic", "manual", "unknown", "saving"},
             number : Nat, run : Nat]

Publications == [run_id : Nat, revision : Nat, phase : Phases,
                 export_barrier : Nat, export_result : Outcomes]

Views == [run_id : Nat, revision : Nat, phase : Phases \cup {"starting", "unknown"},
          export_barrier : Nat, export_result : Outcomes]

Pages == [state : Views, observed : Nat \cup {-1}, pending : Nat, previous : Views,
          sequence : Nat, timer : BOOLEAN, exportBusy : BOOLEAN, lastExport : Nat,
          deferred : Outcomes, manualUnconfirmed : BOOLEAN, runStarting : BOOLEAN,
          outcome : Outcomes, announced : [Runs -> Nat]]

\* The page waits for a start: what it shows then is its own doing.
Unsettled(u) == u.state.phase \in {"starting", "unknown"}

\* What the page shows, or will show again if the start comes to nothing.
Base(u) == IF Unsettled(u) THEN u.previous ELSE u.state

\* Where in the chronicle the page is.
Seen(u) == IF u.observed = -1 THEN 1 ELSE u.observed + 1

\* p is the controller's chronicle: the snapshot of every revision, in order.
Chronicle(p) ==
  /\ p \in Seq(Publications) /\ Len(p) >= 1 /\ p[1] = NoPhase
  /\ \A i \in 1..Len(p) : p[i].revision = i - 1

Known(p, s) == s.revision + 1 \in 1..Len(p) /\ s = p[s.revision + 1]

View(p, u) ==
  /\ Seen(u) \in 1..Len(p) /\ Base(u) = p[Seen(u)]
  /\ Unsettled(u) => u.state.revision = u.previous.revision /\ ~active(u.previous.phase)

\* The panel's functions leave the run client's part of the page alone.
SameRun(u, w) ==
  /\ w.state = u.state /\ w.observed = u.observed /\ w.pending = u.pending
  /\ w.previous = u.previous /\ w.sequence = u.sequence /\ w.announced = u.announced

\* An outcome x was offered to the panel, which took it or did not.
Offered(u, w, x) ==
  /\ SameRun(u, w) /\ w.exportBusy = u.exportBusy /\ w.runStarting = u.runStarting
  /\ w.manualUnconfirmed = u.manualUnconfirmed
  /\ w.deferred \in {u.deferred, x, NoOutcome}
  /\ \/ w.outcome = u.outcome /\ w.lastExport = u.lastExport
     \/ /\ ~u.exportBusy /\ ~u.runStarting /\ ~u.manualUnconfirmed
        /\ x.number > u.lastExport /\ w.outcome = x /\ w.lastExport = x.number

-----------------------------------------------------------------------------
(* The panel's functions *)

LEMMA NoneIsAnOutcome == NoOutcome \in Outcomes
  BY DEF NoOutcome, Outcomes, NoRun

LEMMA AcceptExportOf ==
  ASSUME NEW u \in Pages, NEW x \in Outcomes, NEW w, w = acceptExportOutcome(u, x)
  PROVE  /\ w \in Pages /\ SameRun(u, w) /\ w.exportBusy = u.exportBusy
         /\ w.runStarting = u.runStarting
         /\ w.manualUnconfirmed = u.manualUnconfirmed /\ w.deferred = u.deferred
         /\ \/ w = u
            \/ x.number > u.lastExport /\ w.outcome = x /\ w.lastExport = x.number
<1>0. u.lastExport \in Nat /\ x.number \in Nat
  BY DEF Pages, Outcomes
<1>1. CASE x.number <= u.lastExport
  BY <1>1 DEF acceptExportOutcome, SameRun
<1>2. CASE ~(x.number <= u.lastExport)
  <2>1. w = [u EXCEPT !.lastExport = x.number, !.outcome = x]
    BY <1>2 DEF acceptExportOutcome
  <2>2. w \in Pages
    BY <2>1, <1>0 DEF Pages
  <2>3. x.number > u.lastExport
    BY <1>2, <1>0
  <2> QED BY <2>1, <2>2, <2>3 DEF Pages, SameRun
<1> QED BY <1>1, <1>2

LEMMA ReceiveOf ==
  ASSUME NEW u \in Pages, NEW x \in Outcomes, NEW w, w = receiveAutomaticExport(u, x)
  PROVE  w \in Pages /\ Offered(u, w, x) /\ w.deferred \in {u.deferred, x}
<1>1. CASE u.exportBusy \/ u.runStarting
  <2>1. PICK d \in {u.deferred, x} : w = [u EXCEPT !.deferred = d]
    BY <1>1 DEF receiveAutomaticExport
  <2>2. w \in Pages /\ w.deferred = d
    BY <2>1 DEF Pages
  <2>3. /\ SameRun(u, w) /\ w.exportBusy = u.exportBusy /\ w.runStarting = u.runStarting
        /\ w.manualUnconfirmed = u.manualUnconfirmed
        /\ w.outcome = u.outcome /\ w.lastExport = u.lastExport
    BY <2>1 DEF Pages, SameRun
  <2> QED BY <2>2, <2>3 DEF Offered
<1>2. CASE ~(u.exportBusy \/ u.runStarting) /\ u.manualUnconfirmed
  BY <1>2 DEF receiveAutomaticExport, Offered, SameRun
<1>3. CASE ~(u.exportBusy \/ u.runStarting) /\ ~u.manualUnconfirmed
  <2>1. w = acceptExportOutcome(u, x)
    BY <1>3 DEF receiveAutomaticExport
  <2> QED BY <2>1, <1>3, AcceptExportOf DEF Offered
<1> QED BY <1>1, <1>2, <1>3

LEMMA FlushOf ==
  ASSUME NEW u \in Pages, NEW w, w = flushAutomaticExport(u)
  PROVE  w \in Pages /\ Offered(u, w, u.deferred)
<1>1. CASE u.deferred = NoOutcome
  BY <1>1 DEF flushAutomaticExport, Offered, SameRun
<1>2. CASE u.deferred # NoOutcome
  <2>1. PICK v : v = [u EXCEPT !.deferred = NoOutcome]
    OBVIOUS
  <2>2. v \in Pages /\ u.deferred \in Outcomes
    BY <2>1, NoneIsAnOutcome DEF Pages
  <2>3. /\ SameRun(u, v) /\ v.exportBusy = u.exportBusy /\ v.runStarting = u.runStarting
        /\ v.manualUnconfirmed = u.manualUnconfirmed /\ v.deferred = NoOutcome
        /\ v.outcome = u.outcome /\ v.lastExport = u.lastExport
    BY <2>1 DEF Pages, SameRun
  <2>4. w = receiveAutomaticExport(v, u.deferred)
    BY <1>2, <2>1 DEF flushAutomaticExport
  <2>5. w \in Pages /\ Offered(v, w, u.deferred)
    BY <2>2, <2>4, ReceiveOf
  <2> QED BY <2>3, <2>5 DEF Offered, SameRun
<1> QED BY <1>1, <1>2

\* The page as the end of a start leaves it, before a deferred result is looked at.
Settles(u, v, barrier) ==
  /\ SameRun(u, v) /\ v.exportBusy = u.exportBusy /\ ~v.runStarting
  /\ v.manualUnconfirmed => u.manualUnconfirmed
  /\ barrier = NoBarrier => v.manualUnconfirmed = u.manualUnconfirmed
  /\ v.deferred = u.deferred /\ v.outcome = u.outcome
  /\ v.lastExport >= u.lastExport /\ v.lastExport >= barrier

LEMMA FinishOf ==
  ASSUME NEW u \in Pages, NEW b \in Nat, NEW w, w = finishAutomaticExportRun(u, b)
  PROVE  \E v \in Pages : Settles(u, v, b) /\ w = flushAutomaticExport(v)
<1>1. PICK last : last = (IF b > u.lastExport THEN b ELSE u.lastExport)
  OBVIOUS
<1>2. PICK unconfirmed \in BOOLEAN : unconfirmed = (u.manualUnconfirmed /\ b = NoBarrier)
  OBVIOUS
<1>3. last \in Nat /\ last >= u.lastExport /\ last >= b
  <2>1. u.lastExport \in Nat
    BY DEF Pages
  <2> QED BY <1>1, <2>1
<1>4. PICK v : v = [u EXCEPT !.lastExport = last, !.manualUnconfirmed = unconfirmed,
                             !.runStarting = FALSE]
  OBVIOUS
<1>5. v \in Pages
  BY <1>3, <1>4 DEF Pages
<1>6. u.manualUnconfirmed \in BOOLEAN
  BY DEF Pages
<1>7. /\ SameRun(u, v) /\ v.exportBusy = u.exportBusy /\ v.runStarting = FALSE
      /\ v.manualUnconfirmed = unconfirmed /\ v.deferred = u.deferred
      /\ v.outcome = u.outcome /\ v.lastExport = last
  BY <1>4 DEF Pages, SameRun
<1>8. Settles(u, v, b)
  BY <1>2, <1>3, <1>6, <1>7 DEF Settles, NoBarrier
<1>9. w = flushAutomaticExport(v)
  <2>1. u.manualUnconfirmed = TRUE \/ u.manualUnconfirmed = FALSE
    BY <1>6
  <2> QED BY <1>1, <1>2, <1>4 DEF finishAutomaticExportRun
<1> QED BY <1>5, <1>8, <1>9

-----------------------------------------------------------------------------
(* acceptRunState *)

\* The page shows s; the panel and what is announced come after.
Shows(u, v, s) ==
  /\ v.state = s /\ v.observed = s.revision /\ v.previous = u.previous
  /\ v.sequence = u.sequence /\ v.announced = u.announced
  /\ v.pending = (IF BelongsToNewRun(u, s) THEN NoRun ELSE u.pending)
  /\ v.exportBusy = u.exportBusy /\ v.runStarting = u.runStarting
  /\ v.manualUnconfirmed = u.manualUnconfirmed /\ v.deferred = u.deferred
  /\ v.outcome = u.outcome /\ v.lastExport = u.lastExport

\* Everything of the page but what it announced is the same.
OnlyAnnounces(u, w) ==
  /\ w.state = u.state /\ w.observed = u.observed /\ w.pending = u.pending
  /\ w.previous = u.previous /\ w.sequence = u.sequence
  /\ w.exportBusy = u.exportBusy /\ w.runStarting = u.runStarting
  /\ w.manualUnconfirmed = u.manualUnconfirmed /\ w.deferred = u.deferred
  /\ w.outcome = u.outcome /\ w.lastExport = u.lastExport

LEMMA PublicationsAreViews ==
  ASSUME NEW s \in Publications
  PROVE  s \in Views /\ s.phase \notin {"starting", "unknown"} /\ s.export_result \in Outcomes
<1>1. s \in Views
  BY DEF Publications, Views
<1>2. s.phase \in Phases
  BY DEF Publications
<1>3. s.export_result \in Outcomes
  BY DEF Publications
<1> QED BY <1>1, <1>2, <1>3 DEF Phases, Ended

LEMMA AnnounceOf ==
  ASSUME NEW u \in Pages, NEW before, NEW s, NEW w, w = Announce(u, before, s)
  PROVE  /\ w \in Pages /\ OnlyAnnounces(u, w)
         /\ \/ w.announced = u.announced
            \/ /\ s.phase \in Ended
               /\ before.run_id # s.run_id \/ before.phase # s.phase
               /\ \A id \in Runs : w.announced[id] = IF id = s.run_id THEN u.announced[id] + 1
                                                                      ELSE u.announced[id]
<1>1. CASE w = u
  BY <1>1 DEF OnlyAnnounces
<1>2. CASE /\ s.phase \in Ended
           /\ before.run_id # s.run_id \/ before.phase # s.phase
  <2>1. PICK told : told = [u.announced EXCEPT ![s.run_id] = @ + 1]
    OBVIOUS
  <2>2. w = [u EXCEPT !.announced = told]
    BY <1>2, <2>1 DEF Announce
  <2>3. u.announced \in [Runs -> Nat]
    BY DEF Pages
  <2>4. told \in [Runs -> Nat]
    <3>1. \A n \in Nat : n + 1 \in Nat
      OBVIOUS
    <3>2. s.run_id \in Runs => u.announced[s.run_id] + 1 \in Nat
      BY <2>3, <3>1
    <3> QED BY <2>1, <2>3, <3>2, Zenon
  <2>5. \A id \in Runs : told[id] = IF id = s.run_id THEN u.announced[id] + 1
                                                     ELSE u.announced[id]
    BY <2>1, <2>3
  <2>6. w \in Pages /\ w.announced = told /\ OnlyAnnounces(u, w)
    BY <2>2, <2>4 DEF Pages, OnlyAnnounces
  <2> QED BY <1>2, <2>5, <2>6
<1> QED BY <1>1, <1>2 DEF Announce

LEMMA AcceptOf ==
  ASSUME NEW u \in Pages, NEW s \in Publications, IsNews(u, s),
         NEW w, w = acceptRunState(u, s)
  PROVE  \E seen, begun, reported \in Pages :
           /\ Shows(u, seen, s)
           /\ begun = IF BelongsToNewRun(u, s)
                      THEN finishAutomaticExportRun(seen, s.export_barrier) ELSE seen
           /\ reported = IF s.export_result # NoOutcome
                         THEN receiveAutomaticExport(begun, s.export_result) ELSE begun
           /\ w = Announce(reported, u.state, s)
<1>0. /\ s \in Views /\ s.export_result \in Outcomes /\ s.export_barrier \in Nat
      /\ s.revision \in Nat
  BY PublicationsAreViews DEF Publications
<1>1. PICK shown : shown = [u EXCEPT !.observed = s.revision, !.state = s]
  OBVIOUS
<1>2. PICK seen : seen = IF BelongsToNewRun(u, s) THEN [shown EXCEPT !.pending = NoRun] ELSE shown
  OBVIOUS
<1>3. shown \in Pages
  BY <1>0, <1>1 DEF Pages
<1>4. seen \in Pages
  BY <1>2, <1>3 DEF Pages, NoRun
<1>5. Shows(u, shown, s) \/ BelongsToNewRun(u, s)
  BY <1>1 DEF Pages, Shows
<1>6. Shows(u, seen, s)
  <2>1. CASE BelongsToNewRun(u, s)
    <3>1. seen = [shown EXCEPT !.pending = NoRun]
      BY <2>1, <1>2
    <3>2. seen = [u EXCEPT !.observed = s.revision, !.state = s, !.pending = NoRun]
      BY <3>1, <1>1 DEF Pages
    <3>3. /\ seen.state = s /\ seen.observed = s.revision /\ seen.previous = u.previous
          /\ seen.sequence = u.sequence /\ seen.announced = u.announced
          /\ seen.pending = NoRun
          /\ seen.exportBusy = u.exportBusy /\ seen.runStarting = u.runStarting
          /\ seen.manualUnconfirmed = u.manualUnconfirmed /\ seen.deferred = u.deferred
          /\ seen.outcome = u.outcome /\ seen.lastExport = u.lastExport
      BY <3>2 DEF Pages
    <3> QED BY <2>1, <3>3 DEF Shows
  <2>2. CASE ~BelongsToNewRun(u, s)
    BY <2>2, <1>2, <1>5
  <2> QED BY <2>1, <2>2
<1>7. PICK begun : begun = IF BelongsToNewRun(u, s)
                           THEN finishAutomaticExportRun(seen, s.export_barrier) ELSE seen
  OBVIOUS
<1>8. begun \in Pages
  <2>1. finishAutomaticExportRun(seen, s.export_barrier) \in Pages
    <3>1. PICK v \in Pages : finishAutomaticExportRun(seen, s.export_barrier)
                               = flushAutomaticExport(v)
      BY <1>0, <1>4, FinishOf
    <3> QED BY <3>1, FlushOf
  <2> QED BY <2>1, <1>4, <1>7
<1>9. PICK reported : reported = IF s.export_result # NoOutcome
                                 THEN receiveAutomaticExport(begun, s.export_result) ELSE begun
  OBVIOUS
<1>10. reported \in Pages
  BY <1>0, <1>8, <1>9, ReceiveOf
<1>11. w = Announce(reported, u.state, s)
  BY <1>1, <1>2, <1>7, <1>9 DEF acceptRunState
<1> QED BY <1>4, <1>6, <1>7, <1>8, <1>9, <1>10, <1>11

\* The run client's part of the page after a news.
LEMMA AcceptShows ==
  ASSUME NEW u \in Pages, NEW s \in Publications, IsNews(u, s),
         NEW w, w = acceptRunState(u, s)
  PROVE  /\ w \in Pages /\ w.state = s /\ w.observed = s.revision
         /\ w.previous = u.previous /\ w.sequence = u.sequence
         /\ w.pending = (IF BelongsToNewRun(u, s) THEN NoRun ELSE u.pending)
<1>0. s.export_barrier \in Nat /\ s.export_result \in Outcomes
  BY DEF Publications
<1>1. PICK seen, begun, reported \in Pages :
           /\ Shows(u, seen, s)
           /\ begun = IF BelongsToNewRun(u, s)
                      THEN finishAutomaticExportRun(seen, s.export_barrier) ELSE seen
           /\ reported = IF s.export_result # NoOutcome
                         THEN receiveAutomaticExport(begun, s.export_result) ELSE begun
           /\ w = Announce(reported, u.state, s)
  BY AcceptOf
<1>2. SameRun(seen, begun)
  <2>1. CASE BelongsToNewRun(u, s)
    <3>1. PICK v \in Pages : Settles(seen, v, s.export_barrier) /\ begun = flushAutomaticExport(v)
      BY <2>1, <1>0, <1>1, FinishOf
    <3>2. Offered(v, begun, v.deferred)
      BY <3>1, FlushOf
    <3> QED BY <3>1, <3>2 DEF Settles, Offered, SameRun
  <2> QED BY <2>1, <1>1 DEF SameRun
<1>3. SameRun(begun, reported)
  <2>1. CASE s.export_result # NoOutcome
    BY <2>1, <1>0, <1>1, ReceiveOf DEF Offered
  <2> QED BY <2>1, <1>1 DEF SameRun
<1>4. w \in Pages /\ OnlyAnnounces(reported, w)
  BY <1>1, AnnounceOf
<1> QED BY <1>1, <1>2, <1>3, <1>4 DEF Shows, SameRun, OnlyAnnounces

-----------------------------------------------------------------------------
(* What the page shows is what the controller published *)

LEMMA KnownIsPublication ==
  ASSUME NEW p, Chronicle(p), NEW s, Known(p, s)
  PROVE  s \in Publications /\ s = p[s.revision + 1] /\ s.revision \in Nat
<1>1. s \in Publications
  BY DEF Chronicle, Known
<1> QED BY <1>1 DEF Known, Publications

LEMMA PageNumbers ==
  ASSUME NEW u \in Pages
  PROVE  /\ u.observed \in Nat \cup {-1} /\ u.pending \in Nat /\ u.sequence \in Nat
         /\ u.lastExport \in Nat
         /\ u.state \in Views /\ u.previous \in Views
         /\ u.state.run_id \in Nat /\ u.previous.run_id \in Nat
         /\ u.deferred \in Outcomes /\ u.outcome \in Outcomes
<1>1. u.state \in Views /\ u.previous \in Views
  BY DEF Pages
<1> QED BY <1>1 DEF Pages, Views

LEMMA AcceptKeepsView ==
  ASSUME NEW p, Chronicle(p), NEW u \in Pages, View(p, u), NEW s, Known(p, s),
         NEW w, w = acceptRunState(u, s)
  PROVE  w \in Pages /\ View(p, w) /\ Seen(w) >= Seen(u)
<1>0. s \in Publications /\ s.revision \in Nat /\ u.observed \in Nat \cup {-1}
  BY KnownIsPublication, PageNumbers
<1>1. CASE ~IsNews(u, s)
  <2>1. w = u
    BY <1>1 DEF acceptRunState
  <2> QED BY <2>1, <1>0 DEF Seen
<1>2. CASE IsNews(u, s)
  <2>1. w \in Pages /\ w.state = s /\ w.observed = s.revision
    BY <1>0, <1>2, AcceptShows
  <2>2. Seen(w) = s.revision + 1
    BY <2>1, <1>0 DEF Seen
  <2>3. Seen(w) >= Seen(u)
    BY <2>2, <1>0, <1>2 DEF Seen, IsNews
  <2>4. ~Unsettled(w)
    BY <2>1, <1>0, PublicationsAreViews DEF Unsettled
  <2>5. Base(w) = p[Seen(w)]
    BY <2>1, <2>2, <2>4 DEF Base, Known
  <2> QED BY <2>1, <2>2, <2>3, <2>4, <2>5 DEF View, Known
<1> QED BY <1>1, <1>2

\* How far the page has come is the revision it shows.
LEMMA ViewRevision ==
  ASSUME NEW p, Chronicle(p), NEW u \in Pages, View(p, u)
  PROVE  u.state.revision = Seen(u) - 1
<1>1. Base(u) = p[Seen(u)] /\ p[Seen(u)].revision = Seen(u) - 1
  BY DEF View, Chronicle
<1> QED BY <1>1 DEF Base, View

-----------------------------------------------------------------------------
(* The controller: a step of it says nothing, goes on with a run or begins one *)

Types == {"run_state", "progress", "export_result", "terminal"}
Events == [type : Types, run_state : Publications]

Linked == Len(published) = revision + 1 /\ published[Len(published)] = Snapshot

ToldQueue(p, q) ==
  /\ q \in Seq(Events)
  /\ \A i \in 1..Len(q) :
       /\ Known(p, q[i].run_state)
       /\ q[i].type = "export_result" => active(q[i].run_state.phase)

Silent ==
  /\ UNCHANGED <<run_id, revision, phase, export_barrier, export_result, published>>
  /\ queue' \in {queue, << >>}

Speaks ==
  /\ revision' = revision + 1
  /\ published' = Append(published, Snapshot')
  /\ \E type \in Types :
       /\ queue' \in {queue, Append(queue, [type |-> type, run_state |-> Snapshot'])}
       /\ type = "export_result" => active(phase')

GoesOn ==
  /\ Speaks
  /\ active(phase) /\ run_id' = run_id /\ export_barrier' = export_barrier
  /\ \/ export_result' = export_result
     \/ \E id \in Runs : /\ At(id, "numbered") /\ id = run_id
                         /\ export_result' = AutomaticOutcome(id, number[id])

Begins(id) ==
  /\ Speaks
  /\ ~active(phase) /\ id # run_id /\ run_id' = id
  /\ export_barrier' = export_revision + 1 /\ export_revision' = export_revision + 1
  /\ export_result' = NoOutcome

ServerMoves == Silent \/ GoesOn \/ \E id \in Runs : Begins(id)

LEMMA PublishSpeaks ==
  ASSUME NEW type \in Types, Publish(type), type = "export_result" => active(phase')
  PROVE  Speaks
  BY DEF Publish, Broadcast, Speaks

LEMMA StartBegins ==
  ASSUME IInv, NEW id \in Runs, StartAccepted(id)
  PROVE  IInv' /\ Begins(id)
<1>1. Publish("run_state") /\ "run_state" \in Types
  BY DEF StartAccepted, Types
<1>2. Speaks
  BY <1>1, PublishSpeaks
<1> QED BY <1>2, StartKeeps DEF StartAccepted, Begins

LEMMA RefusalIsSilent ==
  ASSUME IInv, NEW id, StartRepeated(id) \/ StartRefused(id) \/ GetStatus
  PROVE  IInv' /\ Silent
<1>1. UNCHANGED serverVars
  BY DEF StartRepeated, StartRefused, GetStatus
<1> QED BY <1>1, StepKeeps DEF Silent, serverVars, stateVars, streamVars

LEMMA StopMoves ==
  ASSUME IInv, NEW id, StopAccepted(id) \/ StopRefused(id)
  PROVE  IInv' /\ (Silent \/ GoesOn) /\ UNCHANGED run_id
<1>1. IInv'
  BY StopKeeps
<1>2. CASE StopAccepted(id)
  <2>1. Publish("run_state") /\ "run_state" \in Types
    BY <1>2 DEF StopAccepted, Types
  <2>2. Speaks
    BY <2>1, PublishSpeaks
  <2>3. GoesOn
    BY <1>2, <2>2 DEF StopAccepted, NamesActiveRun, GoesOn
  <2> QED BY <1>1, <2>3 DEF GoesOn
<1>3. CASE StopRefused(id)
  BY <1>1, <1>3 DEF StopRefused, Silent, stateVars, streamVars
<1> QED BY <1>2, <1>3

LEMMA ExportIsSilent ==
  ASSUME IInv, ExportBegins \/ ExportEnds \/ ExportRefused
  PROVE  IInv' /\ Silent
<1>1. UNCHANGED <<stateVars, streamVars, published>>
  BY DEF ExportBegins, ExportEnds, ExportRefused
<1> QED BY <1>1, ExportKeeps DEF Silent, stateVars, streamVars

LEMMA ListenerIsSilent ==
  ASSUME IInv, AddListener \/ RemoveListener
  PROVE  IInv' /\ Silent
<1>1. UNCHANGED <<stateVars, published>> /\ queue' = << >>
  BY DEF AddListener, RemoveListener
<1>2. Next
  BY DEF Next
<1> QED BY <1>1, <1>2, StepKeeps DEF Silent, stateVars

LEMMA WorkerMoves ==
  ASSUME IInv, NEW id \in Runs, WorkerStep(id)
  PROVE  IInv' /\ (Silent \/ GoesOn) /\ UNCHANGED run_id
<1>0. IInv'
  BY WorkerKeeps
<1>t. {"progress", "export_result", "terminal"} \subseteq Types
  BY DEF Types
<1>1. CASE Progress(id)
  <2>1. Publish("progress") /\ active(phase)
    BY <1>1 DEF Progress, Heard
  <2>2. Speaks
    BY <2>1, <1>t, PublishSpeaks
  <2> QED BY <1>0, <1>1, <2>1, <2>2 DEF Progress, GoesOn
<1>2. CASE NumberResult(id) \/ ReadVerdict(id)
  <2>1. UNCHANGED <<stateVars, streamVars, published>>
    BY <1>2 DEF NumberResult, ReadVerdict
  <2> QED BY <1>0, <2>1 DEF Silent, stateVars, streamVars
<1>3. CASE EmitResult(id)
  <2>1. CASE Heard(id)
    <3>1. /\ Publish("export_result") /\ active(phase) /\ id = run_id
          /\ UNCHANGED <<run_id, phase, export_barrier>>
          /\ At(id, "numbered") /\ export_result' = AutomaticOutcome(id, number[id])
      BY <1>3, <2>1 DEF EmitResult, Heard
    <3>2. Speaks
      BY <3>1, <1>t, PublishSpeaks
    <3> QED BY <1>0, <3>1, <3>2 DEF GoesOn
  <2>2. CASE ~Heard(id)
    BY <1>0, <1>3, <2>2 DEF EmitResult, Silent, stateVars, streamVars
  <2> QED BY <2>1, <2>2
<1>4. CASE EmitVerdict(id)
  <2>1. CASE Heard(id) /\ worker[id] = "done"
    <3>1. /\ Publish("progress") /\ active(phase)
          /\ UNCHANGED <<run_id, phase, export_barrier, export_result>>
      BY <1>4, <2>1 DEF EmitVerdict, Heard
    <3>2. Speaks
      BY <3>1, <1>t, PublishSpeaks
    <3> QED BY <1>0, <3>1, <3>2 DEF GoesOn
  <2>2. CASE ~(Heard(id) /\ worker[id] = "done")
    BY <1>0, <1>4, <2>2 DEF EmitVerdict, Silent, stateVars, streamVars
  <2> QED BY <2>1, <2>2
<1>5. CASE ShutdownFails(id)
  BY <1>0, <1>5 DEF ShutdownFails, Silent, streamVars
<1>6. CASE WorkerEnds(id)
  <2>1. id = run_id /\ active(phase)
    BY <1>6 DEF IInv, LiveIsCurrent, Live, WorkerEnds
  <2>2. Publish("terminal") /\ UNCHANGED <<run_id, export_barrier, export_result>>
    BY <1>6, <2>1 DEF WorkerEnds
  <2>3. Speaks
    BY <2>2, <1>t, PublishSpeaks
  <2> QED BY <1>0, <2>1, <2>2, <2>3 DEF GoesOn
<1> QED BY <1>1, <1>2, <1>3, <1>4, <1>5, <1>6 DEF WorkerStep

-----------------------------------------------------------------------------
(* The chronicle grows at its end *)

Extends(p, q) == Len(q) >= Len(p) /\ \A i \in 1..Len(p) : q[i] = p[i]

LEMMA AppendChronicle ==
  ASSUME NEW p, Chronicle(p), NEW s \in Publications, s.revision = Len(p),
         NEW q, q = Append(p, s)
  PROVE  Chronicle(q) /\ Extends(p, q) /\ Len(q) = Len(p) + 1 /\ q[Len(q)] = s
<1>1. p \in Seq(Publications) /\ Len(p) \in Nat /\ Len(p) >= 1
  BY DEF Chronicle
<1>2. /\ q \in Seq(Publications) /\ Len(q) = Len(p) + 1 /\ q[Len(q)] = s
      /\ \A i \in 1..Len(p) : q[i] = p[i]
  BY <1>1
<1>3. \A i \in 1..Len(q) : i \in 1..Len(p) \/ i = Len(q)
  BY <1>1, <1>2
<1>4. \A i \in 1..Len(q) : q[i].revision = i - 1
  <2> SUFFICES ASSUME NEW i \in 1..Len(q) PROVE q[i].revision = i - 1
    OBVIOUS
  <2>1. CASE i \in 1..Len(p)
    BY <2>1, <1>2 DEF Chronicle
  <2>2. CASE i = Len(q)
    <3>1. i - 1 = Len(p)
      BY <2>2, <1>1, <1>2
    <3> QED BY <3>1, <2>2, <1>2
  <2> QED BY <2>1, <2>2, <1>3
<1>5. q[1] = NoPhase
  <2>1. 1 \in 1..Len(p)
    BY <1>1
  <2> QED BY <2>1, <1>2 DEF Chronicle
<1>6. Len(q) >= Len(p) /\ Len(q) >= 1
  BY <1>1, <1>2
<1> QED BY <1>2, <1>4, <1>5, <1>6 DEF Chronicle, Extends

LEMMA KnownExtends ==
  ASSUME NEW p, Chronicle(p), NEW q, Chronicle(q), Extends(p, q), NEW s, Known(p, s)
  PROVE  Known(q, s)
<1>1. Len(p) \in Nat /\ Len(q) \in Nat
  BY DEF Chronicle
<1>2. s.revision + 1 \in 1..Len(q)
  BY <1>1 DEF Known, Extends
<1> QED BY <1>2 DEF Known, Extends

LEMMA ViewExtends ==
  ASSUME NEW p, Chronicle(p), NEW q, Chronicle(q), Extends(p, q), NEW u, View(p, u)
  PROVE  View(q, u)
<1>1. Len(p) \in Nat /\ Len(q) \in Nat
  BY DEF Chronicle
<1>2. Seen(u) \in 1..Len(q)
  BY <1>1 DEF View, Extends
<1> QED BY <1>2 DEF View, Extends

LEMMA ExtendsItself ==
  ASSUME NEW p, Chronicle(p)
  PROVE  Extends(p, p)
<1>1. Len(p) \in Nat
  BY DEF Chronicle
<1> QED BY <1>1 DEF Extends

LEMMA LastIsKnown ==
  ASSUME NEW p, Chronicle(p)
  PROVE  Known(p, p[Len(p)]) /\ p[Len(p)] \in Publications
<1>1. Len(p) \in 1..Len(p) /\ p \in Seq(Publications)
  BY DEF Chronicle
<1>2. p[Len(p)].revision + 1 = Len(p)
  BY <1>1 DEF Chronicle
<1> QED BY <1>1, <1>2 DEF Known

\* What was published last, in the words of the controller's own variables.
LEMMA LastIsSnapshot ==
  ASSUME Chronicle(published), Linked
  PROVE  /\ Len(published) \in Nat /\ Len(published) >= 1 /\ revision = Len(published) - 1
         /\ published[Len(published)] = Snapshot /\ Snapshot \in Publications
         /\ run_id = published[Len(published)].run_id
         /\ phase = published[Len(published)].phase
         /\ export_barrier = published[Len(published)].export_barrier
         /\ export_result = published[Len(published)].export_result
         /\ Known(published, Snapshot)
<1>1. Len(published) \in Nat /\ Len(published) >= 1 /\ published \in Seq(Publications)
  BY DEF Chronicle
<1>2. Len(published) \in 1..Len(published)
  BY <1>1
<1>3. published[Len(published)].revision = Len(published) - 1
  BY <1>2 DEF Chronicle
<1>4. published[Len(published)] = Snapshot /\ Snapshot \in Publications
  BY <1>1, <1>2 DEF Linked
<1>5. revision = Len(published) - 1 /\ Snapshot.revision = revision
  BY <1>3, <1>4 DEF Snapshot
<1>6. Known(published, Snapshot)
  BY <1>1, <1>2, <1>4, <1>5 DEF Known
<1> QED BY <1>1, <1>4, <1>5, <1>6 DEF Snapshot

LEMMA ServerChronicle ==
  ASSUME IInv, Chronicle(published), Linked, ToldQueue(published, queue),
         IInv', ServerMoves
  PROVE  /\ Chronicle(published)' /\ Linked' /\ Extends(published, published')
         /\ ToldQueue(published, queue)'
         /\ Silent \/ Len(published') = Len(published) + 1
<1>1. CASE Silent
  <2>1. published' = published /\ Snapshot' = Snapshot /\ revision' = revision
    BY <1>1 DEF Silent, Snapshot
  <2>2. Chronicle(published)' /\ Linked' /\ Extends(published, published')
    BY <2>1, ExtendsItself DEF Linked
  <2>3. ToldQueue(published', queue')
    <3>1. << >> \in Seq(Events) /\ Len(<< >>) = 0
      OBVIOUS
    <3>2. ToldQueue(published, << >>)
      BY <3>1 DEF ToldQueue
    <3> QED BY <1>1, <2>1, <3>2 DEF Silent
  <2> QED BY <1>1, <2>2, <2>3
<1>2. CASE Speaks /\ (GoesOn \/ \E id \in Runs : Begins(id))
  <2>1. PICK s : s = Snapshot'
    OBVIOUS
  <2>2. /\ Len(published) \in Nat /\ revision = Len(published) - 1
        /\ export_result \in Outcomes
    BY LastIsSnapshot DEF Snapshot, Publications
  <2>3. export_result' \in Outcomes
    <3>1. CASE GoesOn
      <4>1. \A id \in Runs : AutomaticOutcome(id, number[id]) \in Outcomes
        <5>1. \A id \in Runs : number[id] \in Nat /\ id \in Nat
          BY RunsAssumption DEF IInv, Counters
        <5> QED BY <5>1 DEF AutomaticOutcome, Outcomes
      <4> QED BY <3>1, <2>2, <4>1 DEF GoesOn
    <3>2. CASE \E id \in Runs : Begins(id)
      BY <3>2, NoneIsAnOutcome DEF Begins
    <3> QED BY <3>1, <3>2, <1>2
  <2>4. run_id' \in Nat /\ phase' \in Phases
    <3>1. Shapes'
      BY DEF IInv
    <3>2. run_id' \in Runs \cup {NoRun} /\ phase' \in Phases
      BY <3>1 DEF Shapes
    <3>3. run_id' \in Nat
      BY <3>2, RunsAssumption DEF NoRun
    <3> QED BY <3>2, <3>3
  <2>5. export_barrier' \in Nat
    BY DEF IInv, Counters
  <2>6. revision' = Len(published) /\ revision' \in Nat
    BY <1>2, <2>2 DEF Speaks
  <2>7. s \in Publications /\ s.revision = Len(published) /\ s.phase = phase'
    BY <2>1, <2>3, <2>4, <2>5, <2>6 DEF Snapshot, Publications
  <2>8. PICK q : q = published'
    OBVIOUS
  <2>9. q = Append(published, s)
    BY <1>2, <2>1, <2>8 DEF Speaks
  <2>10. /\ Chronicle(q) /\ Extends(published, q) /\ Len(q) = Len(published) + 1
         /\ q[Len(q)] = s
    BY <2>7, <2>9, AppendChronicle
  <2>11. Linked'
    BY <2>1, <2>6, <2>8, <2>10 DEF Linked
  <2>12. Known(q, s)
    <3>1. s.revision + 1 = Len(q) /\ Len(q) \in 1..Len(q)
      BY <2>2, <2>7, <2>10
    <3> QED BY <3>1, <2>10 DEF Known
  <2>13. PICK type \in Types :
           /\ queue' \in {queue, Append(queue, [type |-> type, run_state |-> s])}
           /\ type = "export_result" => active(phase')
    BY <1>2, <2>1 DEF Speaks
  <2>14. ToldQueue(q, queue)
    BY <2>10, KnownExtends DEF ToldQueue
  <2>15. PICK e \in Events : e = [type |-> type, run_state |-> s]
    BY <2>7 DEF Events
  <2>16. /\ e.run_state = s
         /\ e.type = "export_result" => active(s.phase)
    BY <2>7, <2>13, <2>15
  <2>17. ToldQueue(q, Append(queue, e))
    <3>1. queue \in Seq(Events) /\ Len(queue) \in Nat
      BY DEF ToldQueue
    <3>2. /\ Append(queue, e) \in Seq(Events) /\ Len(Append(queue, e)) = Len(queue) + 1
          /\ Append(queue, e)[Len(queue) + 1] = e
          /\ \A i \in 1..Len(queue) : Append(queue, e)[i] = queue[i]
      BY <3>1
    <3>3. \A i \in 1..(Len(queue) + 1) : i \in 1..Len(queue) \/ i = Len(queue) + 1
      BY <3>1
    <3> QED BY <3>2, <3>3, <2>12, <2>14, <2>16 DEF ToldQueue
  <2>18. ToldQueue(q, queue')
    BY <2>13, <2>14, <2>15, <2>17
  <2> QED BY <2>8, <2>10, <2>11, <2>18
<1> QED BY <1>1, <1>2 DEF ServerMoves, GoesOn, Begins

-----------------------------------------------------------------------------
(* The page and the requests, whatever goes wrong *)

Messages == [kind : Kinds, id : Nat, stage : {"sent", "answered", "exporting"}, heard : BOOLEAN,
             ok : BOOLEAN, snapshot : Publications, number : Nat]

Proper(m) ==
  /\ m.kind = "start" => m.id \in Runs
  /\ m.stage = "exporting" => m.kind = "export"

\* Every answer on its way holds a snapshot the controller published.
ToldNet(p, n) ==
  /\ n \subseteq Messages
  /\ \A r \in n :
       /\ Proper(r)
       /\ r.stage = "answered" => r.heard /\ (r.kind # "export" => Known(p, r.snapshot))

Uses == used \in [stops : Nat, exports : Nat, faults : Nat]

SafeInv ==
  /\ IInv /\ Chronicle(published) /\ Linked /\ ToldQueue(published, queue)
  /\ Uses /\ ToldNet(published, net)
  /\ ui \in Pages /\ View(published, ui)

LEMMA NothingPublished == NoPhase \in Publications /\ NoPhase \in Views
  BY NoneIsAnOutcome DEF NoPhase, Publications, Views, Phases, NoRun

LEMMA RequestOf ==
  ASSUME NEW kind \in Kinds, NEW id \in Nat, NEW m, m = Request(kind, id)
  PROVE  /\ m \in Messages /\ m.kind = kind /\ m.id = id /\ m.stage = "sent" /\ m.heard
  BY NothingPublished DEF Request, Messages

LEMMA MessageFields ==
  ASSUME NEW r \in Messages
  PROVE  /\ r.kind \in Kinds /\ r.id \in Nat /\ r.heard \in BOOLEAN
         /\ r.stage \in {"sent", "answered", "exporting"}
         /\ r.snapshot \in Publications /\ r.number \in Nat /\ r.ok \in BOOLEAN
  BY DEF Messages

\* The answer to r takes its place, unless nobody waits for it.
AnsweredBy(r, m, ok, snapshot, n) ==
  /\ m \in Messages /\ m.kind = r.kind /\ m.id = r.id /\ m.stage = "answered"
  /\ m.heard = r.heard /\ m.ok = ok /\ m.snapshot = snapshot /\ m.number = n

LEMMA AnswerOf ==
  ASSUME NEW r \in Messages, NEW ok \in BOOLEAN, NEW s \in Publications, NEW n \in Nat
  PROVE  \E m : /\ AnsweredBy(r, m, ok, s, n)
                /\ m = [r EXCEPT !.stage = "answered", !.ok = ok, !.snapshot = s, !.number = n]
<1>1. PICK m : m = [r EXCEPT !.stage = "answered", !.ok = ok, !.snapshot = s, !.number = n]
  OBVIOUS
<1>2. m \in Messages
  BY <1>1 DEF Messages
<1>3. /\ m.kind = r.kind /\ m.id = r.id /\ m.stage = "answered"
      /\ m.heard = r.heard /\ m.ok = ok /\ m.snapshot = s /\ m.number = n
  BY <1>1 DEF Messages
<1> QED BY <1>1, <1>2, <1>3 DEF AnsweredBy

\* The fetch of r fails: an answer on its way is dropped, a request stays, unheard.
Deafened(r, m) ==
  /\ m \in Messages /\ m.kind = r.kind /\ m.id = r.id /\ m.stage = r.stage /\ ~m.heard
  /\ m.ok = r.ok /\ m.snapshot = r.snapshot /\ m.number = r.number

LEMMA AbandonOf ==
  ASSUME NEW r \in Messages
  PROVE  \/ r.stage = "answered" /\ Abandoned(r) = net \ {r}
         \/ /\ r.stage # "answered"
            /\ \E m : Deafened(r, m) /\ Abandoned(r) = (net \ {r}) \cup {m}
<1>1. PICK m : m = [r EXCEPT !.heard = FALSE]
  OBVIOUS
<1>2. m \in Messages
  BY <1>1 DEF Messages
<1>3. /\ m.kind = r.kind /\ m.id = r.id /\ m.stage = r.stage /\ m.heard = FALSE
      /\ m.ok = r.ok /\ m.snapshot = r.snapshot /\ m.number = r.number
  BY <1>1 DEF Messages
<1> QED BY <1>1, <1>2, <1>3 DEF Abandoned, Deafened

LEMMA ToldExtends ==
  ASSUME NEW p, Chronicle(p), NEW q, Chronicle(q), Extends(p, q), NEW n, ToldNet(p, n)
  PROVE  ToldNet(q, n)
  BY KnownExtends DEF ToldNet

\* One message takes the place of another.
LEMMA ToldWith ==
  ASSUME NEW p, NEW n, ToldNet(p, n), NEW m \in Messages, Proper(m),
         m.stage = "answered" => m.heard /\ (m.kind # "export" => Known(p, m.snapshot))
  PROVE  ToldNet(p, n \cup {m})
  BY DEF ToldNet

LEMMA ToldLess ==
  ASSUME NEW p, NEW n, ToldNet(p, n), NEW l, l \subseteq n
  PROVE  ToldNet(p, l)
  BY DEF ToldNet

LEMMA AbandonTold ==
  ASSUME NEW p, ToldNet(p, net), NEW r \in net
  PROVE  ToldNet(p, Abandoned(r))
<1>1. r \in Messages /\ ToldNet(p, net \ {r}) /\ Proper(r)
  BY ToldLess DEF ToldNet
<1>2. CASE r.stage = "answered"
  BY <1>1, <1>2, AbandonOf
<1>3. CASE r.stage # "answered"
  <2>1. PICK m : Deafened(r, m) /\ Abandoned(r) = (net \ {r}) \cup {m}
    BY <1>1, <1>3, AbandonOf
  <2> QED BY <2>1, <1>1, <1>3, ToldWith DEF Deafened, Proper
<1> QED BY <1>2, <1>3

LEMMA AnswerTold ==
  ASSUME NEW p, ToldNet(p, net), NEW r \in net, NEW ok \in BOOLEAN, NEW s \in Publications,
         NEW n \in Nat, r.kind # "export" => Known(p, s), Answer(r, ok, s, n)
  PROVE  ToldNet(p, net')
<1>1. r \in Messages /\ ToldNet(p, net \ {r}) /\ Proper(r)
  BY ToldLess DEF ToldNet
<1>2. CASE r.heard
  <2>1. PICK m : /\ AnsweredBy(r, m, ok, s, n)
                 /\ m = [r EXCEPT !.stage = "answered", !.ok = ok, !.snapshot = s, !.number = n]
    BY <1>1, AnswerOf
  <2>2. net' = (net \ {r}) \cup {m}
    BY <2>1, <1>2 DEF Answer
  <2> QED BY <2>1, <2>2, <1>1, <1>2, ToldWith DEF AnsweredBy, Proper
<1>3. CASE ~r.heard
  BY <1>1, <1>3 DEF Answer
<1> QED BY <1>2, <1>3

-----------------------------------------------------------------------------
(* The page's own steps *)

\* All of the page but its timer is the same.
SameButTimer(u, w) == OnlyAnnounces(u, w) /\ w.announced = u.announced

LEMMA TimerOf ==
  ASSUME NEW u \in Pages, NEW b \in BOOLEAN, NEW w, w = [u EXCEPT !.timer = b]
  PROVE  w \in Pages /\ SameButTimer(u, w)
<1>1. w \in Pages
  BY DEF Pages
<1>2. SameButTimer(u, w)
  BY DEF Pages, SameButTimer, OnlyAnnounces
<1> QED BY <1>1, <1>2

LEMMA AskAgainOf ==
  ASSUME NEW u \in Pages, NEW w, w = AskAgainIfUnsure(u)
  PROVE  w \in Pages /\ SameButTimer(u, w)
<1>1. PICK b \in BOOLEAN : w = [u EXCEPT !.timer = b]
  <2>1. (u.timer \/ u.pending # NoRun \/ u.state.phase = "unknown") \in BOOLEAN
    OBVIOUS
  <2> QED BY <2>1 DEF AskAgainIfUnsure
<1> QED BY <1>1, TimerOf

LEMMA ReconcileOf ==
  ASSUME NEW u \in Pages, NEW others, Reconcile(u, others)
  PROVE  /\ ui' \in Pages /\ SameButTimer(u, ui')
         /\ \E m \in Messages : /\ m.kind = "status" /\ m.stage = "sent"
                                /\ net' = others \cup {m}
<1>1. ui' = [u EXCEPT !.timer = FALSE] /\ net' = others \cup {Request("status", 0)}
  BY DEF Reconcile
<1>2. PICK w : w = ui'
  OBVIOUS
<1>3. w \in Pages /\ SameButTimer(u, w)
  BY <1>1, <1>2, TimerOf
<1>4. PICK m : m = Request("status", 0)
  OBVIOUS
<1>5. m \in Messages /\ m.kind = "status" /\ m.stage = "sent"
  BY <1>4, RequestOf DEF Kinds
<1> QED BY <1>1, <1>2, <1>3, <1>4, <1>5

LEMMA FinishSame ==
  ASSUME NEW u \in Pages, NEW b \in Nat, NEW w, w = finishAutomaticExportRun(u, b)
  PROVE  w \in Pages /\ SameRun(u, w)
<1>1. PICK v \in Pages : Settles(u, v, b) /\ w = flushAutomaticExport(v)
  BY FinishOf
<1>2. w \in Pages /\ Offered(v, w, v.deferred)
  BY <1>1, FlushOf
<1> QED BY <1>1, <1>2 DEF Settles, Offered, SameRun

\* The page after a click on Start.
Starting(u, id) ==
  [u EXCEPT !.sequence = id, !.pending = id, !.previous = u.state,
            !.state.run_id = id, !.state.phase = "starting", !.runStarting = TRUE]

BeginsToWait(u, w, id) ==
  /\ w.sequence = id /\ w.pending = id /\ w.previous = u.state
  /\ w.state.run_id = id /\ w.state.phase = "starting"
  /\ w.state.revision = u.state.revision /\ w.observed = u.observed
  /\ w.runStarting = TRUE /\ w.announced = u.announced
  /\ w.exportBusy = u.exportBusy /\ w.lastExport = u.lastExport
  /\ w.deferred = u.deferred /\ w.manualUnconfirmed = u.manualUnconfirmed
  /\ w.outcome = u.outcome

LEMMA StartingOf ==
  ASSUME NEW u \in Pages, NEW id \in Nat, NEW w, w = Starting(u, id)
  PROVE  w \in Pages /\ BeginsToWait(u, w, id)
<1>1. u.state \in Views
  BY DEF Pages
<1>2. PICK s : s = [u.state EXCEPT !.run_id = id, !.phase = "starting"]
  OBVIOUS
<1>3. s \in Views /\ s.run_id = id /\ s.phase = "starting" /\ s.revision = u.state.revision
  BY <1>1, <1>2 DEF Views
<1>4. w = [u EXCEPT !.sequence = id, !.pending = id, !.previous = u.state, !.state = s,
                    !.runStarting = TRUE]
  BY <1>2 DEF Pages, Starting
<1> HIDE DEF Views
<1>5. w \in Pages
  BY <1>1, <1>3, <1>4 DEF Pages
<1>6. /\ w.sequence = id /\ w.pending = id /\ w.previous = u.state /\ w.state = s
      /\ w.observed = u.observed
      /\ w.runStarting = TRUE /\ w.announced = u.announced
      /\ w.exportBusy = u.exportBusy /\ w.lastExport = u.lastExport
      /\ w.deferred = u.deferred /\ w.manualUnconfirmed = u.manualUnconfirmed
      /\ w.outcome = u.outcome
  BY <1>4 DEF Pages
<1> QED BY <1>3, <1>5, <1>6 DEF BeginsToWait

\* A start whose fetch failed is neither accepted nor refused as far as the page knows.
LEMMA UnknownOf ==
  ASSUME NEW u \in Pages, NEW id, NEW w,
         w = [u EXCEPT !.state.phase =
                IF u.state.run_id = id /\ @ = "starting" THEN "unknown" ELSE @]
  PROVE  \/ w = u /\ ~(u.state.run_id = id /\ u.state.phase = "starting")
         \/ /\ u.state.run_id = id /\ u.state.phase = "starting"
            /\ w \in Pages /\ w.state.phase = "unknown"
            /\ w.state.run_id = u.state.run_id /\ w.state.revision = u.state.revision
            /\ w.observed = u.observed /\ w.previous = u.previous /\ w.pending = u.pending
            /\ w.sequence = u.sequence /\ w.runStarting = u.runStarting
            /\ w.announced = u.announced
            /\ w.exportBusy = u.exportBusy /\ w.lastExport = u.lastExport
            /\ w.deferred = u.deferred /\ w.manualUnconfirmed = u.manualUnconfirmed
            /\ w.outcome = u.outcome
<1>1. u.state \in Views
  BY DEF Pages
<1>2. CASE ~(u.state.run_id = id /\ u.state.phase = "starting")
  <2>1. w = [u EXCEPT !.state.phase = u.state.phase]
    BY <1>2
  <2>2. [u.state EXCEPT !.phase = u.state.phase] = u.state
    BY <1>1 DEF Views
  <2>3. w = [u EXCEPT !.state = u.state]
    BY <2>1, <2>2 DEF Pages
  <2>4. w = u
    BY <2>3 DEF Pages
  <2> QED BY <1>2, <2>4
<1>3. CASE u.state.run_id = id /\ u.state.phase = "starting"
  <2>1. PICK s : s = [u.state EXCEPT !.phase = "unknown"]
    OBVIOUS
  <2>2. s \in Views /\ s.run_id = u.state.run_id /\ s.phase = "unknown"
        /\ s.revision = u.state.revision
    BY <1>1, <2>1 DEF Views
  <2>3. w = [u EXCEPT !.state = s]
    BY <1>3, <2>1 DEF Pages
  <2>4. w \in Pages
    BY <2>2, <2>3 DEF Pages
  <2>5. /\ w.state = s
        /\ w.observed = u.observed /\ w.previous = u.previous /\ w.pending = u.pending
        /\ w.sequence = u.sequence /\ w.runStarting = u.runStarting
        /\ w.announced = u.announced
        /\ w.exportBusy = u.exportBusy /\ w.lastExport = u.lastExport
        /\ w.deferred = u.deferred /\ w.manualUnconfirmed = u.manualUnconfirmed
        /\ w.outcome = u.outcome
    BY <2>3 DEF Pages
  <2> QED BY <1>3, <2>2, <2>4, <2>5
<1> QED BY <1>2, <1>3

\* The panel's part of the page is the same.
SamePanel(u, w) ==
  /\ w.announced = u.announced /\ w.exportBusy = u.exportBusy
  /\ w.runStarting = u.runStarting /\ w.manualUnconfirmed = u.manualUnconfirmed
  /\ w.deferred = u.deferred /\ w.outcome = u.outcome /\ w.lastExport = u.lastExport

LEMMA BeforeStartOf ==
  ASSUME NEW u \in Pages, NEW id, NEW w, w = BeforeStart(u, id)
  PROVE  /\ w \in Pages /\ w.pending = NoRun /\ w.observed = u.observed
         /\ w.previous = u.previous /\ w.sequence = u.sequence /\ SamePanel(u, w)
         /\ w.state = IF u.state.run_id = id /\ u.state.phase = "starting"
                      THEN u.previous ELSE u.state
<1>1. PICK s \in Views : s = IF u.state.run_id = id /\ u.state.phase = "starting"
                             THEN u.previous ELSE u.state
  BY DEF Pages
<1>2. w = [u EXCEPT !.pending = NoRun, !.state = s]
  BY <1>1 DEF BeforeStart, Pages
<1>3. w \in Pages
  <2>1. NoRun \in Nat
    BY DEF NoRun
  <2> QED BY <1>2, <2>1 DEF Pages
<1>4. /\ w.pending = NoRun /\ w.observed = u.observed /\ w.state = s
      /\ w.previous = u.previous /\ w.sequence = u.sequence /\ SamePanel(u, w)
  BY <1>2 DEF Pages, SamePanel
<1> QED BY <1>1, <1>3, <1>4

-----------------------------------------------------------------------------
(* An export asked for, answered, and lost *)

LEMMA ExportClickOf ==
  ASSUME NEW u \in Pages, NEW w,
         w = [u EXCEPT !.exportBusy = TRUE,
                       !.outcome = [kind |-> "saving", number |-> 0, run |-> NoRun]]
  PROVE  /\ w \in Pages /\ SameRun(u, w) /\ w.exportBusy = TRUE /\ w.outcome.kind = "saving"
         /\ w.runStarting = u.runStarting /\ w.lastExport = u.lastExport
         /\ w.deferred = u.deferred /\ w.manualUnconfirmed = u.manualUnconfirmed
<1>1. PICK o \in Outcomes : o = [kind |-> "saving", number |-> 0, run |-> NoRun]
  BY DEF Outcomes, NoRun
<1>2. w = [u EXCEPT !.exportBusy = TRUE, !.outcome = o]
  BY <1>1
<1>3. w \in Pages
  BY <1>2 DEF Pages
<1>4. /\ SameRun(u, w) /\ w.exportBusy = TRUE /\ w.outcome = o
      /\ w.runStarting = u.runStarting /\ w.lastExport = u.lastExport
      /\ w.deferred = u.deferred /\ w.manualUnconfirmed = u.manualUnconfirmed
  BY <1>2 DEF Pages, SameRun
<1> QED BY <1>1, <1>3, <1>4

\* The panel is free again before a deferred result is looked at.
Frees(u, v) ==
  /\ SameRun(u, v) /\ v.exportBusy = FALSE /\ v.runStarting = u.runStarting
  /\ v.deferred = u.deferred /\ v.lastExport >= u.lastExport

LEMMA ExportAnsweredOf ==
  ASSUME NEW u \in Pages, NEW n \in Nat, NEW told,
         told = acceptExportOutcome([u EXCEPT !.manualUnconfirmed = FALSE],
                                    [kind |-> "manual", number |-> n, run |-> NoRun]),
         NEW v, v = [told EXCEPT !.exportBusy = FALSE]
  PROVE  v \in Pages /\ Frees(u, v) /\ (v.outcome = u.outcome \/ v.outcome.kind = "manual")
<1>1. PICK o \in Outcomes : o = [kind |-> "manual", number |-> n, run |-> NoRun]
  BY DEF Outcomes, NoRun
<1>2. PICK w : w = [u EXCEPT !.manualUnconfirmed = FALSE]
  OBVIOUS
<1>3. w \in Pages
  BY <1>2 DEF Pages
<1>4. /\ SameRun(u, w) /\ w.runStarting = u.runStarting /\ w.deferred = u.deferred
      /\ w.lastExport = u.lastExport /\ w.outcome = u.outcome
  BY <1>2 DEF Pages, SameRun
<1>5. /\ told \in Pages /\ SameRun(w, told) /\ told.runStarting = w.runStarting
      /\ told.deferred = w.deferred
      /\ told = w \/ (o.number > w.lastExport /\ told.outcome = o /\ told.lastExport = o.number)
  <2>1. told = acceptExportOutcome(w, o)
    BY <1>1, <1>2
  <2> QED BY <2>1, <1>3, AcceptExportOf
<1>6. v \in Pages
  BY <1>5 DEF Pages
<1>7. /\ SameRun(told, v) /\ v.exportBusy = FALSE /\ v.runStarting = told.runStarting
      /\ v.deferred = told.deferred /\ v.lastExport = told.lastExport
      /\ v.outcome = told.outcome
  BY <1>5 DEF Pages, SameRun
<1>8. v.lastExport >= u.lastExport
  <2>1. u.lastExport \in Nat /\ told.lastExport \in Nat
    BY <1>5 DEF Pages
  <2>2. told.lastExport = u.lastExport \/ told.lastExport > u.lastExport
    BY <1>4, <1>5
  <2> QED BY <2>1, <2>2, <1>7
<1>9. v.outcome = u.outcome \/ v.outcome.kind = "manual"
  BY <1>1, <1>4, <1>5, <1>7
<1> QED BY <1>4, <1>5, <1>6, <1>7, <1>8, <1>9 DEF SameRun, Frees

LEMMA ConfirmedRunOf ==
  ASSUME NEW u \in Pages
  PROVE  ConfirmedRun(u) = Base(u).run_id /\ ConfirmedRun(u) \in Nat
  BY PageNumbers DEF ConfirmedRun, Base, Unsettled

LEMMA ExportLostOf ==
  ASSUME NEW u \in Pages, NEW v,
         v = [u EXCEPT !.manualUnconfirmed = TRUE, !.exportBusy = FALSE,
                !.outcome = [kind |-> "unknown", number |-> 0, run |-> ConfirmedRun(u)]]
  PROVE  /\ v \in Pages /\ Frees(u, v) /\ v.manualUnconfirmed = TRUE
         /\ v.outcome.kind = "unknown" /\ v.outcome.run = Base(u).run_id
<1>1. PICK o \in Outcomes : o = [kind |-> "unknown", number |-> 0, run |-> ConfirmedRun(u)]
  BY ConfirmedRunOf DEF Outcomes
<1>2. v = [u EXCEPT !.manualUnconfirmed = TRUE, !.exportBusy = FALSE, !.outcome = o]
  BY <1>1
<1>3. v \in Pages
  BY <1>2 DEF Pages
<1>4. /\ SameRun(u, v) /\ v.exportBusy = FALSE /\ v.runStarting = u.runStarting
      /\ v.deferred = u.deferred /\ v.lastExport = u.lastExport
      /\ v.manualUnconfirmed = TRUE /\ v.outcome = o
  BY <1>2 DEF Pages, SameRun
<1>5. v.lastExport >= u.lastExport
  BY <1>4, PageNumbers
<1> QED BY <1>1, <1>3, <1>4, <1>5, ConfirmedRunOf DEF Frees

-----------------------------------------------------------------------------
(* SafeInv is inductive *)

ServerSafe == IInv /\ Chronicle(published) /\ Linked /\ ToldQueue(published, queue)

LEMMA InitSafe == ClientSpecInit => SafeInv
<1> SUFFICES ASSUME ClientSpecInit PROVE SafeInv
  OBVIOUS
<1> USE DEF ClientSpecInit
<1>1. IInv
  BY InitKeeps
<1>2. Snapshot = NoPhase /\ published = <<NoPhase>> /\ revision = 0 /\ queue = << >>
  BY DEF Init, Snapshot, NoPhase, NoRun
<1>3. Chronicle(published) /\ Linked
  <2>1. <<NoPhase>> \in Seq(Publications) /\ Len(<<NoPhase>>) = 1 /\ <<NoPhase>>[1] = NoPhase
    BY NothingPublished
  <2>2. NoPhase.revision = 0
    BY DEF NoPhase
  <2>3. \A i \in 1..1 : i = 1
    OBVIOUS
  <2> QED BY <1>2, <2>1, <2>2, <2>3 DEF Chronicle, Linked
<1>4. ToldQueue(published, queue)
  BY <1>2 DEF ToldQueue
<1>5. Uses
  BY DEF ClientInit, Uses
<1>6. PICK m : m = [kind |-> "status", id |-> 0, stage |-> "sent", heard |-> TRUE, ok |-> FALSE,
                    snapshot |-> NoPhase, number |-> 0]
  OBVIOUS
<1>7. m \in Messages /\ m.stage = "sent" /\ m.kind = "status"
  BY <1>6, NothingPublished DEF Messages, Kinds
<1>8. ToldNet(published, net)
  BY <1>6, <1>7 DEF ClientInit, ToldNet, Proper
<1>9. PICK a : a = [id \in Runs |-> 0]
  OBVIOUS
<1>10. a \in [Runs -> Nat]
  BY <1>9
<1>11. ui = [state |-> NoPhase, observed |-> -1, pending |-> NoRun, previous |-> NoPhase,
           sequence |-> 0, timer |-> FALSE,
           exportBusy |-> FALSE, lastExport |-> 0, deferred |-> NoOutcome,
           manualUnconfirmed |-> FALSE, runStarting |-> FALSE, outcome |-> NoOutcome,
           announced |-> a]
  BY <1>9 DEF ClientInit
<1>12. NoRun \in Nat
  BY DEF NoRun
<1>13. ui \in Pages
  BY <1>10, <1>11, <1>12, NothingPublished, NoneIsAnOutcome DEF Pages
<1>14. View(published, ui)
  <2>1. ui.state = NoPhase /\ ui.observed = -1
    BY <1>11
  <2>2. NoPhase.phase = "idle"
    BY DEF NoPhase
  <2>3. Seen(ui) = 1 /\ ~Unsettled(ui) /\ Base(ui) = NoPhase
    BY <2>1, <2>2 DEF Seen, Unsettled, Base
  <2>4. Len(published) = 1 /\ published[1] = NoPhase
    BY <1>2
  <2> QED BY <2>3, <2>4 DEF View
<1> QED BY <1>1, <1>3, <1>4, <1>5, <1>8, <1>13, <1>14 DEF SafeInv

LEMMA QuietServer ==
  ASSUME ServerSafe, UNCHANGED serverVars
  PROVE  ServerSafe' /\ published' = published
<1>1. IInv' /\ Silent
  BY StepKeeps DEF ServerSafe, Silent, serverVars, stateVars, streamVars
<1> QED BY <1>1, ServerChronicle DEF ServerSafe, ServerMoves, serverVars

LEMMA ServerSteps ==
  ASSUME ServerSafe, IInv', ServerMoves
  PROVE  ServerSafe' /\ Extends(published, published')
  BY ServerChronicle DEF ServerSafe

\* The page's view depends on what it shows alone.
LEMMA ViewSame ==
  ASSUME NEW p, NEW u, NEW w, View(p, u),
         w.state = u.state, w.observed = u.observed, w.previous = u.previous
  PROVE  View(p, w)
  BY DEF View, Seen, Base, Unsettled

LEMMA FaultUses ==
  ASSUME Uses, NEW kind, Fault(kind)
  PROVE  Uses'
  BY DEF Uses, Fault

\* Clicks, the stream and the timer.
LEMMA ClickSafe ==
  ASSUME SafeInv, Clicks
  PROVE  SafeInv'
<1>0. ServerSafe' /\ published' = published
  BY QuietServer DEF SafeInv, ServerSafe, Clicks, stopProcessing, exportDatabase, startProcessing
<1>1. ASSUME stopProcessing PROVE SafeInv'
  <2>1. PICK m : m = [Request("stop", ui.state.run_id) EXCEPT !.number = used.stops]
    OBVIOUS
  <2>2. PICK q : q = Request("stop", ui.state.run_id)
    OBVIOUS
  <2>3. q \in Messages /\ q.kind = "stop" /\ q.stage = "sent" /\ q.heard
    BY <2>2, RequestOf, PageNumbers DEF Kinds, SafeInv
  <2>4. used.stops \in Nat
    BY DEF SafeInv, Uses
  <2>5. m = [q EXCEPT !.number = used.stops]
    BY <2>1, <2>2
  <2>6. m \in Messages /\ m.stage = "sent" /\ m.kind = "stop"
    BY <2>3, <2>4, <2>5 DEF Messages
  <2>7. ToldNet(published, net \cup {m})
    BY <2>6, ToldWith DEF SafeInv, Proper
  <2>8. Uses'
    BY <1>1 DEF SafeInv, Uses, stopProcessing
  <2>9. ui' = ui /\ net' = net \cup {m}
    BY <1>1, <2>1 DEF stopProcessing
  <2> QED BY <1>0, <2>7, <2>8, <2>9 DEF SafeInv, ServerSafe
<1>2. ASSUME exportDatabase PROVE SafeInv'
  <2>1. PICK m : m = Request("export", used.exports + 1)
    OBVIOUS
  <2>2. used.exports + 1 \in Nat
    BY DEF SafeInv, Uses
  <2>3. m \in Messages /\ m.stage = "sent" /\ m.kind = "export"
    BY <2>1, <2>2, RequestOf DEF Kinds
  <2>4. ToldNet(published, net \cup {m})
    BY <2>3, ToldWith DEF SafeInv, Proper
  <2>5. Uses'
    BY <1>2 DEF SafeInv, Uses, exportDatabase
  <2>6. PICK w : w = ui'
    OBVIOUS
  <2>7. w \in Pages /\ SameRun(ui, w)
    BY <1>2, <2>6, ExportClickOf DEF SafeInv, exportDatabase
  <2>8. View(published, w)
    BY <2>7, ViewSame DEF SafeInv, SameRun
  <2>9. net' = net \cup {m}
    BY <1>2, <2>1 DEF exportDatabase
  <2> QED BY <1>0, <2>4, <2>5, <2>6, <2>7, <2>8, <2>9 DEF SafeInv, ServerSafe
<1>3. ASSUME NEW id \in Runs, startProcessing(id) PROVE SafeInv'
  <2>1. id \in Nat
    BY RunsAssumption
  <2>2. PICK m : m = Request("start", id)
    OBVIOUS
  <2>3. m \in Messages /\ m.stage = "sent" /\ m.id = id
    BY <2>1, <2>2, RequestOf DEF Kinds
  <2>4. ToldNet(published, net \cup {m})
    BY <2>3, ToldWith DEF SafeInv, Proper
  <2>5. Uses'
    BY <1>3 DEF SafeInv, Uses, startProcessing
  <2>6. PICK w : w = ui'
    OBVIOUS
  <2>7. /\ w \in Pages /\ w.previous = ui.state /\ w.state.phase = "starting"
        /\ w.state.revision = ui.state.revision /\ w.observed = ui.observed
    <3>1. w = Starting(ui, id)
      BY <1>3, <2>6 DEF startProcessing, Starting
    <3>2. ui \in Pages
      BY DEF SafeInv
    <3>3. w \in Pages /\ BeginsToWait(ui, w, id)
      BY <3>1, <3>2, <2>1, StartingOf
    <3> QED BY <3>3 DEF BeginsToWait
  <2>8. ~Unsettled(ui) /\ ~active(ui.state.phase)
    BY <1>3 DEF startProcessing, runActive, active, Unsettled
  <2>9. View(published, w)
    BY <2>7, <2>8 DEF SafeInv, View, Unsettled, Base, Seen
  <2>10. net' = net \cup {m}
    BY <1>3, <2>2 DEF startProcessing
  <2> QED BY <1>0, <2>4, <2>5, <2>6, <2>7, <2>9, <2>10 DEF SafeInv, ServerSafe
<1> QED BY <1>1, <1>2, <1>3 DEF Clicks

LEMMA ReconcileSafe ==
  ASSUME SafeInv, ServerSafe', published' = published, Uses', NEW u \in Pages,
         View(published, u), NEW others, ToldNet(published, others), Reconcile(u, others)
  PROVE  SafeInv'
<1>1. PICK w : w = ui'
  OBVIOUS
<1>2. PICK m \in Messages : m.kind = "status" /\ m.stage = "sent" /\ net' = others \cup {m}
  BY ReconcileOf
<1>3. w \in Pages /\ SameButTimer(u, w)
  BY <1>1, ReconcileOf
<1>4. View(published, w)
  BY <1>3, ViewSame DEF SameButTimer, OnlyAnnounces
<1>5. ToldNet(published, net')
  BY <1>2, ToldWith DEF Proper
<1> QED BY <1>1, <1>3, <1>4, <1>5 DEF SafeInv, ServerSafe

LEMMA StreamSafe ==
  ASSUME SafeInv, Stream \/ Timer \/ StreamBreaks
  PROVE  SafeInv'
<1>1. CASE StreamRegisters \/ StreamBreaks
  <2>1. IInv' /\ Silent
    BY <1>1, ListenerIsSilent DEF SafeInv, StreamRegisters, StreamBreaks
  <2>2. ServerSafe' /\ published' = published
    BY <2>1, ServerSteps DEF SafeInv, ServerSafe, ServerMoves, Silent
  <2>3. ui' = ui /\ net' = net
    BY <1>1 DEF StreamRegisters, StreamBreaks
  <2>4. Uses'
    BY <1>1, FaultUses DEF SafeInv, Uses, StreamRegisters, StreamBreaks
  <2> QED BY <2>2, <2>3, <2>4 DEF SafeInv, ServerSafe
<1>2. CASE StreamOpens \/ Timer
  <2>1. UNCHANGED <<serverVars, used>> /\ Reconcile(ui, net)
    BY <1>2 DEF StreamOpens, Timer
  <2>2. ServerSafe' /\ published' = published
    BY <2>1, QuietServer DEF SafeInv, ServerSafe
  <2>3. Uses'
    BY <2>1 DEF SafeInv, Uses
  <2> QED BY <2>1, <2>2, <2>3, ReconcileSafe DEF SafeInv
<1>3. CASE Deliver
  <2>1. /\ UNCHANGED <<stateVars, abort, export_revision, exporting, workerVars, listener,
                 published, asked, net, stream, used>>
        /\ queue # << >> /\ queue' = Tail(queue)
    BY <1>3 DEF Deliver
  <2>2. IInv'
    BY <2>1 DEF SafeInv, IInv, Shapes, Counters, LiveIsCurrent, ExportOrRun, StopHitsItsRun,
       Numbering, Live, At, stateVars, workerVars
  <2>3. Chronicle(published') /\ Linked'
    BY <2>1 DEF SafeInv, Linked, Snapshot, stateVars
  <2>4. /\ queue \in Seq(Events) /\ Len(queue) \in Nat /\ Len(queue) >= 1
        /\ Head(queue) = queue[1] /\ queue[1] \in Events
    <3>1. queue \in Seq(Events)
      BY DEF SafeInv, ToldQueue
    <3> QED BY <2>1, <3>1
  <2>5. ToldQueue(published, queue')
    <3>1. /\ Tail(queue) \in Seq(Events) /\ Len(Tail(queue)) = Len(queue) - 1
          /\ \A i \in 1..Len(Tail(queue)) : Tail(queue)[i] = queue[i + 1]
      BY <2>1, <2>4
    <3>2. \A i \in 1..(Len(queue) - 1) : i + 1 \in 1..Len(queue)
      BY <2>4
    <3> QED BY <2>1, <3>1, <3>2 DEF SafeInv, ToldQueue
  <2>6. PICK event, told : /\ event = Head(queue)
                           /\ told = acceptRunState(ui, event.run_state)
    OBVIOUS
  <2>7. 1 \in 1..Len(queue)
    BY <2>4
  <2>8. Known(published, event.run_state) /\ event.run_state \in Publications
    BY <2>4, <2>6, <2>7 DEF SafeInv, ToldQueue, Events
  <2>9. told \in Pages /\ View(published, told)
    BY <2>6, <2>8, AcceptKeepsView DEF SafeInv
  <2>10. PICK w : w = ui'
    OBVIOUS
  <2>11. w = told \/ w = receiveAutomaticExport(told, event.run_state.export_result)
    BY <1>3, <2>6, <2>10 DEF Deliver
  <2>12. event.run_state.export_result \in Outcomes
    BY <2>8, PublicationsAreViews
  <2>13. w \in Pages /\ (w = told \/ SameRun(told, w))
    BY <2>9, <2>11, <2>12, ReceiveOf DEF Offered
  <2>14. View(published, w)
    BY <2>9, <2>13, ViewSame DEF SameRun
  <2>15. net' = net /\ Uses' /\ published' = published
    BY <2>1 DEF SafeInv, Uses
  <2> QED BY <2>2, <2>3, <2>5, <2>10, <2>13, <2>14, <2>15 DEF SafeInv
<1> QED BY <1>1, <1>2, <1>3 DEF Stream

LEMMA SeenStates ==
  ASSUME SafeInv
  PROVE  /\ ui \in Pages /\ View(published, ui) /\ Chronicle(published)
         /\ ToldNet(published, net) /\ ServerSafe /\ Uses
  BY DEF SafeInv, ServerSafe

\* The server handles a request.
LEMMA HandleSafe ==
  ASSUME SafeInv, NEW r \in net, Handle(r)
  PROVE  SafeInv'
<1>0. r \in Messages /\ (r.kind = "start" => r.id \in Runs)
  BY DEF SafeInv, ToldNet, Proper
<1>1. ui' = ui /\ used' = used
  BY DEF Handle
<1>2. ASSUME ServerSafe', Extends(published, published'), ToldNet(published', net')
      PROVE  SafeInv'
  <2>1. View(published', ui)
    BY <1>2, SeenStates, ViewExtends DEF ServerSafe
  <2> QED BY <1>1, <1>2, <2>1 DEF SafeInv, ServerSafe, Uses
<1>3. ASSUME ServerSafe', Extends(published, published'), NEW ok \in BOOLEAN,
             NEW s \in Publications, NEW n \in Nat, r.kind # "export" => Known(published', s),
             Answer(r, ok, s, n)
      PROVE  SafeInv'
  <2>1. ToldNet(published', net)
    BY <1>3, ToldExtends DEF SafeInv, ServerSafe
  <2>2. ToldNet(published', net')
    BY <1>3, <2>1, AnswerTold
  <2> QED BY <1>2, <1>3, <2>2
<1>4. ASSUME IInv', ServerMoves, NEW ok \in BOOLEAN, Answer(r, ok, Snapshot', 0)
      PROVE  SafeInv'
  <2>1. ServerSafe' /\ Extends(published, published')
    BY <1>4, ServerSteps DEF SafeInv, ServerSafe
  <2>2. Snapshot' \in Publications /\ Known(published', Snapshot')
    <3>1. Chronicle(published') /\ published'[Len(published')] = Snapshot'
      BY <2>1 DEF ServerSafe, Linked
    <3> QED BY <3>1, LastIsKnown
  <2>3. PICK s : s = Snapshot'
    OBVIOUS
  <2> QED BY <1>3, <1>4, <2>1, <2>2, <2>3
<1>5. ASSUME IInv', Silent, NEW ok \in BOOLEAN, Answer(r, ok, Snapshot, 0)
      PROVE  SafeInv'
  <2>1. Snapshot' = Snapshot
    BY <1>5 DEF Silent, Snapshot
  <2> QED BY <1>4, <1>5, <2>1 DEF ServerMoves
<1>6. CASE r.kind = "start" /\ HandleStart(r)
  <2>1. r.id \in Runs /\ IInv
    BY <1>0, <1>6 DEF SafeInv
  <2>2. CASE StartAccepted(r.id) /\ Answer(r, TRUE, Snapshot', 0)
    BY <2>1, <2>2, <1>4, StartBegins DEF ServerMoves
  <2>3. CASE StartRepeated(r.id) /\ Answer(r, TRUE, Snapshot', 0)
    BY <2>1, <2>3, <1>4, RefusalIsSilent DEF ServerMoves
  <2>4. CASE StartRefused(r.id) /\ Answer(r, FALSE, Snapshot, 0)
    BY <2>1, <2>4, <1>5, RefusalIsSilent
  <2> QED BY <1>6, <2>2, <2>3, <2>4 DEF HandleStart
<1>7. CASE r.kind = "stop" /\ HandleStop(r)
  <2>1. IInv
    BY DEF SafeInv
  <2>2. CASE StopAccepted(r.id) /\ Answer(r, TRUE, Snapshot', 0)
    BY <2>1, <2>2, <1>4, StopMoves DEF ServerMoves
  <2>3. CASE StopRefused(r.id) /\ Answer(r, FALSE, Snapshot, 0)
    <3>1. IInv' /\ Silent
      <4>1. UNCHANGED <<stateVars, streamVars, published>>
        BY <2>3 DEF StopRefused
      <4> QED BY <2>1, <2>3, <4>1, StopMoves DEF Silent, stateVars, streamVars
    <3> QED BY <2>3, <3>1, <1>5
  <2> QED BY <1>7, <2>2, <2>3 DEF HandleStop
<1>8. CASE r.kind = "status" /\ GetStatus /\ Answer(r, TRUE, Snapshot, 0)
  BY <1>8, <1>5, RefusalIsSilent DEF SafeInv
<1>9. CASE r.kind = "export" /\ HandleExport(r)
  <2>1. IInv' /\ Silent
    BY <1>9, ExportIsSilent DEF SafeInv, HandleExport
  <2>2. ServerSafe' /\ Extends(published, published') /\ published' = published
    BY <2>1, ServerSteps DEF SafeInv, ServerSafe, ServerMoves, Silent
  <2>3. CASE net' = (net \ {r}) \cup {[r EXCEPT !.stage = "exporting"]}
    <3>1. PICK m : m = [r EXCEPT !.stage = "exporting"]
      OBVIOUS
    <3>2. m \in Messages /\ m.stage = "exporting" /\ m.kind = "export"
      BY <1>0, <1>9, <3>1 DEF Messages
    <3>3. ToldNet(published, net \ {r})
      BY ToldLess, SeenStates
    <3>4. ToldNet(published, net')
      BY <2>3, <3>1, <3>2, <3>3, ToldWith DEF Proper
    <3> QED BY <1>2, <2>2, <3>4
  <2>4. CASE Answer(r, FALSE, NoPhase, export_revision + 1)
    <3>1. export_revision + 1 \in Nat
      BY DEF SafeInv, IInv, Counters
    <3> QED BY <1>3, <1>9, <2>2, <2>4, <3>1, NothingPublished
  <2> QED BY <1>9, <2>3, <2>4 DEF HandleExport
<1> QED BY <1>6, <1>7, <1>8, <1>9 DEF Handle

LEMMA FinishExportSafe ==
  ASSUME SafeInv, NEW r \in net, FinishExport(r)
  PROVE  SafeInv'
<1>0. r.kind = "export"
  BY SeenStates DEF FinishExport, ToldNet, Proper
<1>1. IInv' /\ Silent
  BY ExportIsSilent DEF SafeInv, FinishExport
<1>2. ServerSafe' /\ published' = published
  BY <1>1, ServerSteps DEF SafeInv, ServerSafe, ServerMoves, Silent
<1>3. export_revision + 1 \in Nat
  BY DEF SafeInv, IInv, Counters
<1>4. ToldNet(published, net')
  BY <1>0, <1>2, <1>3, AnswerTold, NothingPublished, SeenStates DEF FinishExport
<1> QED BY <1>2, <1>4 DEF SafeInv, ServerSafe, Uses, FinishExport

LEMMA WorkSafe ==
  ASSUME SafeInv, NEW id \in Runs, Work(id)
  PROVE  SafeInv'
<1>1. IInv' /\ (Silent \/ GoesOn) /\ UNCHANGED clientVars
  BY WorkerMoves DEF SafeInv, Work
<1>2. ServerSafe' /\ Extends(published, published')
  BY <1>1, ServerSteps DEF SafeInv, ServerSafe, ServerMoves
<1>3. View(published', ui) /\ ToldNet(published', net)
  BY <1>2, SeenStates, ViewExtends, ToldExtends DEF ServerSafe
<1> QED BY <1>1, <1>2, <1>3 DEF SafeInv, ServerSafe, Uses, clientVars

\* The page takes a reply.
LEMMA TakeReplySafe ==
  ASSUME SafeInv, NEW r \in net, TakeReply(r)
  PROVE  SafeInv'
<1>0. /\ r \in Messages /\ ui \in Pages /\ View(published, ui) /\ Chronicle(published)
      /\ ToldNet(published, net \ {r})
  BY ToldLess DEF SafeInv, ToldNet
<1>1. ServerSafe' /\ published' = published
  BY QuietServer, SeenStates DEF TakeReply
<1>2. net' = net \ {r} /\ Uses'
  BY DEF TakeReply, StartAnswered, StopAnswered, StatusAnswered, ExportAnswered, SafeInv, Uses
<1>3. PICK w : w = ui'
  OBVIOUS
<1>4. ASSUME w \in Pages, View(published, w) PROVE SafeInv'
  BY <1>0, <1>1, <1>2, <1>3, <1>4 DEF SafeInv, ServerSafe
<1>5. r.kind # "export" => Known(published, r.snapshot)
  BY SeenStates DEF ToldNet, TakeReply
<1>6. CASE r.kind = "start" /\ StartAnswered(r)
  <2>1. CASE r.id # ui.sequence
    BY <1>0, <1>3, <1>4, <1>6, <2>1 DEF StartAnswered
  <2>2. CASE r.id = ui.sequence
    <3>1. PICK u : u = IF r.ok THEN ui ELSE BeforeStart(ui, r.id)
      OBVIOUS
    <3>2. PICK v : v = acceptRunState(u, r.snapshot)
      OBVIOUS
    <3>3. u \in Pages /\ View(published, u)
      <4>1. CASE r.ok
        BY <4>1, <1>0, <3>1
      <4>2. CASE ~r.ok
        <5>1. u = BeforeStart(ui, r.id)
          BY <4>2, <3>1
        <5>2. /\ u \in Pages /\ u.observed = ui.observed /\ u.previous = ui.previous
              /\ u.state = IF ui.state.run_id = r.id /\ ui.state.phase = "starting"
                           THEN ui.previous ELSE ui.state
          BY <5>1, <1>0, BeforeStartOf
        <5>3. CASE u.state = ui.state
          BY <5>2, <5>3, <1>0, ViewSame
        <5>4. CASE u.state = ui.previous /\ ui.state.phase = "starting"
          <6>1. Unsettled(ui) /\ Base(ui) = ui.previous
            BY <5>4 DEF Unsettled, Base
          <6>2. ui.previous \in Publications
            BY <6>1, <1>0 DEF View, Chronicle
          <6>3. ~Unsettled(u)
            BY <5>4, <6>2, PublicationsAreViews DEF Unsettled
          <6> QED BY <5>2, <5>4, <6>1, <6>3, <1>0 DEF View, Seen, Base
        <5> QED BY <5>2, <5>3, <5>4
      <4> QED BY <4>1, <4>2
    <3>4. v \in Pages /\ View(published, v)
      BY <1>0, <1>5, <1>6, <3>2, <3>3, AcceptKeepsView
    <3>5. w = finishAutomaticExportRun(v, NoBarrier)
      BY <1>3, <1>6, <2>2, <3>1, <3>2 DEF StartAnswered
    <3>6. NoBarrier \in Nat
      BY DEF NoBarrier
    <3>7. w \in Pages /\ SameRun(v, w)
      BY <3>4, <3>5, <3>6, FinishSame
    <3> QED BY <3>4, <3>7, <1>4, ViewSame DEF SameRun
  <2> QED BY <2>1, <2>2
<1>7. CASE r.kind = "stop" /\ StopAnswered(r)
  BY <1>0, <1>3, <1>4, <1>5, <1>7, AcceptKeepsView DEF StopAnswered
<1>8. CASE r.kind = "status" /\ StatusAnswered(r)
  <2>1. PICK v : v = acceptRunState(ui, r.snapshot)
    OBVIOUS
  <2>2. v \in Pages /\ View(published, v)
    BY <1>0, <1>5, <1>8, <2>1, AcceptKeepsView
  <2>3. w = AskAgainIfUnsure(v)
    BY <1>3, <1>8, <2>1 DEF StatusAnswered
  <2>4. w \in Pages /\ SameButTimer(v, w)
    BY <2>2, <2>3, AskAgainOf
  <2> QED BY <2>2, <2>4, <1>4, ViewSame DEF SameButTimer, OnlyAnnounces
<1>9. CASE r.kind = "export" /\ ExportAnswered(r)
  <2>1. PICK told : told = acceptExportOutcome([ui EXCEPT !.manualUnconfirmed = FALSE],
                                    [kind |-> "manual", number |-> r.number, run |-> NoRun])
    OBVIOUS
  <2>2. PICK v : v = [told EXCEPT !.exportBusy = FALSE]
    OBVIOUS
  <2>3. v \in Pages /\ Frees(ui, v)
    BY <1>0, <2>1, <2>2, ExportAnsweredOf, MessageFields
  <2>4. w = flushAutomaticExport(v)
    BY <1>3, <1>9, <2>1, <2>2 DEF ExportAnswered
  <2>5. w \in Pages /\ SameRun(v, w)
    BY <2>3, <2>4, FlushOf DEF Offered
  <2> QED BY <1>0, <2>3, <2>5, <1>4, ViewSame DEF SameRun, Frees
<1> QED BY <1>6, <1>7, <1>8, <1>9 DEF TakeReply

\* A fetch fails, or a start is sent again.
LEMMA FailSafe ==
  ASSUME SafeInv, NEW r \in net, FetchFails(r)
  PROVE  SafeInv'
<1>0. /\ r \in Messages /\ ui \in Pages /\ View(published, ui) /\ Chronicle(published)
      /\ ToldNet(published, Abandoned(r))
  BY AbandonTold DEF SafeInv, ToldNet
<1>1. ServerSafe' /\ published' = published /\ Uses'
  BY QuietServer, FaultUses, SeenStates DEF FetchFails
<1>2. PICK w : w = ui'
  OBVIOUS
<1>3. ASSUME w \in Pages, View(published, w), ToldNet(published, net') PROVE SafeInv'
  BY <1>1, <1>2, <1>3 DEF SafeInv, ServerSafe
<1>4. CASE r.kind = "start" /\ StartFails(r)
  <2>1. CASE r.id # ui.sequence
    BY <1>0, <1>2, <1>3, <1>4, <2>1 DEF StartFails
  <2>2. CASE r.id = ui.sequence
    <3>1. PICK u : u = [ui EXCEPT !.state.phase =
                          IF ui.state.run_id = r.id /\ @ = "starting" THEN "unknown" ELSE @]
      OBVIOUS
    <3>2. Reconcile(u, Abandoned(r))
      BY <1>4, <2>2, <3>1 DEF StartFails
    <3>3. \/ u = ui
          \/ /\ ui.state.phase = "starting" /\ u \in Pages /\ u.state.phase = "unknown"
             /\ u.state.revision = ui.state.revision
             /\ u.observed = ui.observed /\ u.previous = ui.previous
      BY <1>0, <3>1, UnknownOf
    <3>4. u \in Pages /\ View(published, u)
      BY <1>0, <3>3 DEF View, Unsettled, Base, Seen
    <3> QED BY <1>0, <1>1, <3>2, <3>4, ReconcileSafe
  <2> QED BY <2>1, <2>2
<1>5. CASE r.kind = "stop" /\ StopFails(r)
  <2>1. CASE Reconcile(ui, Abandoned(r))
    BY <1>0, <1>1, <2>1, ReconcileSafe
  <2>2. CASE ui' = ui /\ net' = Abandoned(r)
    BY <1>0, <1>2, <1>3, <2>2
  <2> QED BY <1>5, <2>1, <2>2 DEF StopFails
<1>6. CASE r.kind = "status" /\ StatusFails(r)
  <2>1. w \in Pages /\ SameButTimer(ui, w)
    BY <1>0, <1>2, <1>6, AskAgainOf DEF StatusFails
  <2>2. View(published, w)
    BY <1>0, <2>1, ViewSame DEF SameButTimer, OnlyAnnounces
  <2>3. ToldNet(published, net')
    BY <1>6, SeenStates, ToldLess DEF StatusFails
  <2> QED BY <1>3, <2>1, <2>2, <2>3
<1>7. CASE r.kind = "export" /\ ExportFails(r)
  <2>1. PICK v : v = [ui EXCEPT !.manualUnconfirmed = TRUE, !.exportBusy = FALSE,
                !.outcome = [kind |-> "unknown", number |-> 0, run |-> ConfirmedRun(ui)]]
    OBVIOUS
  <2>2. v \in Pages /\ Frees(ui, v)
    BY <1>0, <2>1, ExportLostOf
  <2>3. w = flushAutomaticExport(v) /\ net' = Abandoned(r)
    BY <1>2, <1>7, <2>1 DEF ExportFails
  <2>4. w \in Pages /\ SameRun(v, w)
    BY <2>2, <2>3, FlushOf DEF Offered
  <2>5. View(published, w)
    BY <1>0, <2>2, <2>4, ViewSame DEF SameRun, Frees
  <2> QED BY <1>0, <1>3, <2>3, <2>4, <2>5
<1> QED BY <1>4, <1>5, <1>6, <1>7 DEF FetchFails

LEMMA ResendSafe ==
  ASSUME SafeInv, NEW r \in net, Resend(r)
  PROVE  SafeInv'
<1>0. r \in Messages /\ r.id \in Runs /\ ToldNet(published, net \ {r})
  BY ToldLess, SeenStates DEF ToldNet, Proper, Resend
<1>1. ServerSafe' /\ published' = published /\ Uses'
  BY QuietServer, FaultUses, SeenStates DEF Resend
<1>2. PICK m : m = Request("start", r.id)
  OBVIOUS
<1>3. r.id \in Nat /\ "start" \in Kinds
  BY <1>0, RunsAssumption DEF Kinds
<1>4. m \in Messages /\ m.stage = "sent" /\ m.id = r.id
  BY <1>2, <1>3, RequestOf
<1>5. ToldNet(published, (net \ {r}) \cup {m})
  BY <1>0, <1>4, ToldWith DEF Proper
<1>6. net' = (net \ {r}) \cup {m} /\ ui' = ui
  BY <1>2 DEF Resend
<1> QED BY <1>1, <1>5, <1>6 DEF SafeInv, ServerSafe

LEMMA SafeStep == SafeInv /\ [ClientNext]_vars => SafeInv'
<1> SUFFICES ASSUME SafeInv, [ClientNext]_vars PROVE SafeInv'
  OBVIOUS
<1>1. CASE UNCHANGED vars
  <2>1. UNCHANGED serverVars /\ UNCHANGED <<ui, net, used>>
    BY <1>1 DEF vars, clientVars
  <2>2. ServerSafe' /\ published' = published
    BY <2>1, QuietServer, SeenStates
  <2> QED BY <2>1, <2>2 DEF SafeInv, ServerSafe, Uses
<1>2. CASE Failures
  <2>1. CASE StreamBreaks
    BY <2>1, StreamSafe
  <2>2. CASE \E r \in net : FetchFails(r) \/ Resend(r)
    BY <2>2, FailSafe, ResendSafe
  <2> QED BY <1>2, <2>1, <2>2 DEF Failures
<1>3. ASSUME NEW kind \in Kinds, Served(kind) \/ Taken(kind) PROVE SafeInv'
  BY <1>3, HandleSafe, TakeReplySafe DEF Served, Taken, Requests
<1> QED
  BY <1>1, <1>2, <1>3, ClickSafe, StreamSafe, FinishExportSafe, WorkSafe
     DEF ClientNext, Exporting

\* The inductive invariant of the page beside the controller, whatever answers are lost or late.
THEOREM ClientInvariance == ClientSpec => []SafeInv
  BY InitSafe, SafeStep, PTL DEF ClientSpec

\* Whatever is lost, repeated, refused or late, the page shows a state the controller
\* published, unless it waits for its own start (startProcessing, acceptRunState).
THEOREM ShownAsItWasPublished == ClientSpec => []ShownAsPublished
<1>1. SafeInv => ShownAsPublished
  BY DEF SafeInv, View, Base, Unsettled, Seen, ShownAsPublished
<1> QED BY <1>1, ClientInvariance, PTL

-----------------------------------------------------------------------------
(* While the transport repeats no start: runs and results come in turn *)

\* Runs follow each other: a run's end is its last word, its barrier stays, and the result of
\* an earlier run is numbered below the barrier of a later one.
Order(p) ==
  \A i, j \in 1..Len(p) : i < j =>
    /\ p[i].run_id <= p[j].run_id
    /\ p[i].run_id = p[j].run_id =>
         active(p[i].phase) /\ p[i].export_barrier = p[j].export_barrier
    /\ p[i].run_id < p[j].run_id => p[i].export_result.number < p[j].export_barrier

\* A result is the automatic one of the run it was published with.
Results(p) ==
  \A i \in 1..Len(p) : p[i].export_result # NoOutcome =>
    p[i].export_result.run = p[i].run_id /\ p[i].export_result.kind = "automatic"

\* The page is at most one run behind: the one it has just asked for.
Turn(p, u) ==
  /\ p[Len(p)].run_id <= u.sequence
  /\ Unsettled(u) =>
       /\ u.pending = u.sequence /\ u.state.run_id = u.sequence
       /\ u.previous.run_id < u.sequence
       /\ \A i \in Seen(u)..Len(p) : p[i].run_id \in {u.previous.run_id, u.sequence}
  /\ ~Unsettled(u) =>
       /\ u.pending = NoRun
       /\ \A i \in Seen(u)..Len(p) : p[i].run_id = u.state.run_id

\* The end of a run was announced once, if the page has come to it.
Announced(p, u) ==
  \A id \in Runs :
    \/ u.announced[id] = 0
    \/ /\ u.announced[id] = 1
       /\ \E i \in 1..Len(p) : i <= Seen(u) /\ p[i].run_id = id /\ p[i].phase \in Ended

\* x is nothing, or the result in a snapshot the page has come to.
FromPast(p, u, x) ==
  x = NoOutcome \/ \E i \in 1..Len(p) : i <= Seen(u) /\ x = p[i].export_result

Panel(p, u) ==
  /\ Unsettled(u) => u.runStarting
  /\ u.lastExport >= Base(u).export_barrier
  /\ FromPast(p, u, u.deferred)
  /\ u.exportBusy => u.outcome.kind = "saving"
  /\ u.outcome.kind = "unknown" =>
       /\ u.outcome.run <= Base(u).run_id
       /\ ~u.manualUnconfirmed => u.outcome.run < Base(u).run_id

\* What the panel shows after a step of the page, if it is an automatic result, is that of
\* the run on the page, and a later one than the run of an export that was lost.
PanelNews(u, w) ==
  \/ w.outcome = u.outcome
  \/ /\ w.outcome.kind = "automatic" /\ w.outcome.run = w.state.run_id
     /\ u.outcome.kind = "unknown" => w.outcome.run > u.outcome.run

Record(p) == Chronicle(p) /\ Order(p) /\ Results(p)
PageGood(p, u) == u \in Pages /\ View(p, u) /\ Turn(p, u) /\ Announced(p, u) /\ Panel(p, u)

-----------------------------------------------------------------------------
LEMMA RecordNumbers ==
  ASSUME NEW p, Chronicle(p)
  PROVE  /\ Len(p) \in Nat /\ Len(p) >= 1 /\ Len(p) \in 1..Len(p)
         /\ \A i \in 1..Len(p) : /\ p[i] \in Publications /\ p[i].run_id \in Nat
                                 /\ p[i].export_barrier \in Nat /\ p[i].phase \in Phases
                                 /\ p[i].export_result \in Outcomes
                                 /\ p[i].export_result.number \in Nat
                                 /\ p[i].export_result.run \in Nat
<1>1. Len(p) \in Nat /\ Len(p) >= 1 /\ Len(p) \in 1..Len(p)
  BY DEF Chronicle
<1>2. \A i \in 1..Len(p) : p[i] \in Publications
  BY DEF Chronicle
<1>3. \A i \in 1..Len(p) : /\ p[i].run_id \in Nat
                           /\ p[i].export_barrier \in Nat /\ p[i].phase \in Phases
                           /\ p[i].export_result \in Outcomes
  BY <1>2 DEF Publications
<1>4. \A i \in 1..Len(p) : /\ p[i].export_result.number \in Nat
                           /\ p[i].export_result.run \in Nat
  BY <1>3 DEF Outcomes
<1> QED BY <1>1, <1>2, <1>3, <1>4

LEMMA RunsRise ==
  ASSUME NEW p, Chronicle(p), Order(p), NEW i \in 1..Len(p), NEW j \in 1..Len(p), i <= j
  PROVE  p[i].run_id <= p[j].run_id
<1>1. CASE i = j
  BY <1>1, RecordNumbers
<1>2. CASE i < j
  BY <1>2 DEF Order
<1> QED BY <1>1, <1>2

LEMMA SeenNumbers ==
  ASSUME NEW p, Chronicle(p), NEW u \in Pages, View(p, u)
  PROVE  /\ Seen(u) \in Nat /\ Seen(u) >= 1 /\ Seen(u) <= Len(p) /\ Seen(u) \in 1..Len(p)
         /\ Base(u) = p[Seen(u)] /\ Base(u).run_id \in Nat /\ Base(u).export_barrier \in Nat
<1>1. Seen(u) \in 1..Len(p) /\ Base(u) = p[Seen(u)]
  BY DEF View
<1> QED BY <1>1, RecordNumbers

\* A result the panel takes belongs to the run on the page.
LEMMA ResultIsOfRun ==
  ASSUME NEW p, Record(p), NEW u \in Pages, View(p, u), Panel(p, u), ~Unsettled(u),
         NEW x \in Outcomes, FromPast(p, u, x), x.number > u.lastExport
  PROVE  x.kind = "automatic" /\ x.run = u.state.run_id
<1>1. /\ u.lastExport \in Nat /\ x.number \in Nat /\ Seen(u) \in 1..Len(p)
      /\ Base(u).export_barrier \in Nat
  BY PageNumbers, SeenNumbers DEF Record, Outcomes
<1>2. x # NoOutcome
  <2>1. x.number # 0
    BY <1>1
  <2> QED BY <2>1 DEF NoOutcome
<1>3. PICK i \in 1..Len(p) : i <= Seen(u) /\ x = p[i].export_result
  BY <1>2 DEF FromPast
<1>4. x.run = p[i].run_id /\ x.kind = "automatic"
  BY <1>2, <1>3 DEF Record, Results
<1>5. Base(u) = u.state /\ Base(u) = p[Seen(u)]
  BY DEF Base, View
<1>6. p[i].run_id <= p[Seen(u)].run_id
  BY <1>1, <1>3, RunsRise DEF Record
<1>7. ~(p[i].run_id < p[Seen(u)].run_id)
  <2> SUFFICES ASSUME p[i].run_id < p[Seen(u)].run_id PROVE FALSE
    OBVIOUS
  <2>1. i # Seen(u)
    <3>1. p[i].run_id \in Nat
      BY RecordNumbers DEF Record
    <3> QED BY <3>1
  <2>2. i < Seen(u)
    BY <1>1, <1>3, <2>1
  <2>3. x.number < p[Seen(u)].export_barrier
    BY <1>1, <1>3, <2>2 DEF Record, Order
  <2>4. u.lastExport >= p[Seen(u)].export_barrier
    BY <1>5 DEF Panel
  <2> QED BY <1>1, <1>5, <2>3, <2>4
<1>8. p[i].run_id = p[Seen(u)].run_id
  BY <1>1, <1>6, <1>7, RecordNumbers DEF Record
<1> QED BY <1>4, <1>5, <1>8

LEMMA OfferKeeps ==
  ASSUME NEW p, Record(p), NEW u \in Pages, View(p, u), Panel(p, u), NEW w \in Pages,
         NEW x \in Outcomes, FromPast(p, u, x), Offered(u, w, x)
  PROVE  View(p, w) /\ Panel(p, w) /\ PanelNews(u, w) /\ SameRun(u, w)
         /\ w.exportBusy = u.exportBusy
<1>1. SameRun(u, w) /\ w.exportBusy = u.exportBusy /\ w.runStarting = u.runStarting
      /\ w.manualUnconfirmed = u.manualUnconfirmed /\ w.deferred \in {u.deferred, x, NoOutcome}
  BY DEF Offered
<1>2. View(p, w)
  BY <1>1, ViewSame DEF SameRun
<1>3. Seen(w) = Seen(u) /\ Base(w) = Base(u) /\ (Unsettled(w) <=> Unsettled(u))
  BY <1>1 DEF SameRun, Seen, Base, Unsettled
<1>4. FromPast(p, w, w.deferred)
  BY <1>1, <1>3 DEF Panel, FromPast
<1>5. CASE w.outcome = u.outcome /\ w.lastExport = u.lastExport
  <2>1. Panel(p, w)
    BY <1>1, <1>3, <1>4, <1>5 DEF Panel
  <2> QED BY <1>1, <1>2, <1>5, <2>1 DEF PanelNews
<1>6. CASE /\ ~u.exportBusy /\ ~u.runStarting /\ ~u.manualUnconfirmed
           /\ x.number > u.lastExport /\ w.outcome = x /\ w.lastExport = x.number
  <2>1. ~Unsettled(u)
    BY <1>6 DEF Panel
  <2>2. x.kind = "automatic" /\ x.run = u.state.run_id
    BY <1>6, <2>1, ResultIsOfRun
  <2>3. w.lastExport >= Base(w).export_barrier
    <3>1. x.number \in Nat /\ u.lastExport \in Nat /\ Base(u).export_barrier \in Nat
      BY PageNumbers, SeenNumbers DEF Record, Outcomes
    <3>2. u.lastExport >= Base(u).export_barrier
      BY DEF Panel
    <3> QED BY <1>3, <1>6, <3>1, <3>2
  <2>4. Panel(p, w)
    BY <1>1, <1>3, <1>4, <1>6, <2>1, <2>2, <2>3 DEF Panel
  <2>5. u.outcome.kind = "unknown" => x.run > u.outcome.run
    <3>1. u.outcome \in Outcomes /\ x.run \in Nat
      BY PageNumbers DEF Outcomes
    <3>2. u.outcome.run \in Nat
      BY <3>1 DEF Outcomes
    <3>3. u.outcome.kind = "unknown" => u.outcome.run < u.state.run_id
      BY <1>6, <2>1 DEF Panel, Base
    <3> QED BY <2>2, <3>1, <3>2, <3>3
  <2>6. PanelNews(u, w)
    BY <1>1, <1>6, <2>2, <2>5 DEF PanelNews, SameRun
  <2> QED BY <1>1, <1>2, <2>4, <2>6
<1> QED BY <1>5, <1>6 DEF Offered

LEMMA NewsAddUp ==
  ASSUME NEW u, NEW v, NEW w, PanelNews(u, v), PanelNews(v, w), w.state = v.state
  PROVE  PanelNews(u, w)
  BY DEF PanelNews

-----------------------------------------------------------------------------
(* acceptRunState, in turn *)

\* News while the page waits for a start is of the run it started, and else of the run it shows.
LEMMA NewsRun ==
  ASSUME NEW p, Record(p), NEW u \in Pages, View(p, u), Turn(p, u), NEW s, Known(p, s),
         IsNews(u, s)
  PROVE  /\ s.revision + 1 >= Seen(u) /\ s.revision + 1 \in 1..Len(p)
         /\ s = p[s.revision + 1] /\ s.run_id \in Nat
         /\ Unsettled(u) => s.run_id = u.sequence /\ BelongsToNewRun(u, s)
         /\ ~Unsettled(u) => s.run_id = u.state.run_id /\ ~BelongsToNewRun(u, s)
<1>1. PICK k \in 1..Len(p) : k = s.revision + 1
  BY DEF Known
<1>2. s = p[k] /\ s \in Publications /\ s.revision \in Nat /\ s.run_id \in Nat
  BY <1>1, KnownIsPublication, RecordNumbers DEF Record, Known
<1>3. Seen(u) \in 1..Len(p) /\ Len(p) \in Nat /\ Base(u) = p[Seen(u)]
  BY SeenNumbers, RecordNumbers DEF Record
<1>4. k >= Seen(u) /\ k \in Seen(u)..Len(p)
  <2>1. s.revision > u.observed /\ u.observed \in Nat \cup {-1}
    BY PageNumbers DEF IsNews
  <2>2. k >= Seen(u)
    BY <1>1, <1>2, <2>1 DEF Seen
  <2> QED BY <1>3, <2>2
<1>5. ASSUME Unsettled(u) PROVE s.run_id = u.sequence /\ BelongsToNewRun(u, s)
  <2>1. /\ u.pending = u.sequence /\ u.previous.run_id < u.sequence
        /\ s.run_id \in {u.previous.run_id, u.sequence}
    BY <1>2, <1>4, <1>5 DEF Turn
  <2>2. u.pending # NoRun
    BY <2>1, PageNumbers DEF NoRun
  <2>3. ~(s.run_id = u.previous.run_id)
    <3> SUFFICES ASSUME s.run_id = u.previous.run_id PROVE FALSE
      OBVIOUS
    <3>1. s.run_id # u.pending
      BY <2>1, PageNumbers
    <3>2. active(s.phase)
      BY <2>2, <3>1 DEF IsNews
    <3>3. u.previous = p[Seen(u)] /\ ~active(u.previous.phase)
      BY <1>3, <1>5 DEF View, Base
    <3>4. CASE k = Seen(u)
      BY <1>2, <3>2, <3>3, <3>4
    <3>5. CASE Seen(u) < k
      <4>1. active(p[Seen(u)].phase)
        BY <1>2, <1>3, <3>3, <3>5 DEF Record, Order
      <4> QED BY <3>3, <4>1
    <3> QED BY <1>3, <1>4, <3>4, <3>5
  <2>4. s.run_id = u.sequence
    BY <2>1, <2>3
  <2> QED BY <2>1, <2>2, <2>4 DEF BelongsToNewRun
<1>6. ASSUME ~Unsettled(u) PROVE s.run_id = u.state.run_id /\ ~BelongsToNewRun(u, s)
  BY <1>2, <1>4, <1>6 DEF Turn, BelongsToNewRun
<1> QED BY <1>1, <1>2, <1>4, <1>5, <1>6

\* The panel before a deferred result and the result that came with the news are looked at.
LEMMA NewsPanel ==
  ASSUME NEW p, Record(p), NEW u \in Pages, View(p, u), Turn(p, u), Panel(p, u),
         NEW s, Known(p, s), IsNews(u, s), NEW v \in Pages,
         v.state = s, v.observed = s.revision,
         v.deferred = u.deferred, v.outcome = u.outcome, v.exportBusy = u.exportBusy,
         v.lastExport >= u.lastExport,
         Unsettled(u) => v.lastExport >= s.export_barrier,
         v.manualUnconfirmed => u.manualUnconfirmed,
         ~Unsettled(u) => v.manualUnconfirmed = u.manualUnconfirmed
  PROVE  View(p, v) /\ Panel(p, v) /\ Seen(v) >= Seen(u) /\ ~Unsettled(v)
<1>1. PICK k \in 1..Len(p) : k = s.revision + 1
  BY DEF Known
<1>2. /\ k >= Seen(u) /\ s = p[k] /\ s.run_id \in Nat
      /\ Unsettled(u) => s.run_id = u.sequence
      /\ ~Unsettled(u) => s.run_id = u.state.run_id
  BY <1>1, NewsRun
<1>3. s \in Publications /\ s.revision \in Nat /\ s.export_barrier \in Nat
  BY KnownIsPublication DEF Record, Publications
<1>4. /\ Seen(u) \in 1..Len(p) /\ Base(u) = p[Seen(u)] /\ Base(u).run_id \in Nat
      /\ Base(u).export_barrier \in Nat /\ u.lastExport \in Nat /\ v.lastExport \in Nat
  BY SeenNumbers, PageNumbers DEF Record
<1>5. Seen(v) = k
  BY <1>1, <1>3 DEF Seen
<1>6. ~Unsettled(v)
  BY <1>3, PublicationsAreViews DEF Unsettled
<1>7. Base(v) = s
  BY <1>6 DEF Base
<1>8. View(p, v)
  BY <1>2, <1>5, <1>6, <1>7 DEF View
<1>9. v.lastExport >= Base(v).export_barrier
  <2>1. CASE Unsettled(u)
    BY <1>7, <2>1
  <2>2. CASE ~Unsettled(u)
    <3>1. s.run_id = p[Seen(u)].run_id
      BY <1>2, <1>4, <2>2 DEF Base
    <3>2. s.export_barrier = p[Seen(u)].export_barrier
      <4>1. CASE k = Seen(u)
        BY <1>2, <4>1
      <4>2. CASE Seen(u) < k
        BY <1>2, <1>4, <3>1, <4>2 DEF Record, Order
      <4> QED BY <1>2, <1>4, <4>1, <4>2
    <3>3. u.lastExport >= s.export_barrier
      BY <1>4, <3>2 DEF Panel
    <3> QED BY <1>3, <1>4, <1>7, <3>3
  <2> QED BY <2>1, <2>2
<1>10. FromPast(p, v, v.deferred)
  <2>1. \A i \in 1..Len(p) : i <= Seen(u) => i <= Seen(v)
    BY <1>2, <1>4, <1>5
  <2> QED BY <2>1 DEF Panel, FromPast
<1>11. v.outcome.kind = "unknown" =>
         /\ v.outcome.run <= Base(v).run_id
         /\ ~v.manualUnconfirmed => v.outcome.run < Base(v).run_id
  <2> SUFFICES ASSUME v.outcome.kind = "unknown"
               PROVE  /\ v.outcome.run <= s.run_id
                      /\ ~v.manualUnconfirmed => v.outcome.run < s.run_id
    BY <1>7
  <2>1. u.outcome.run \in Nat
    <3>1. u.outcome \in Outcomes
      BY PageNumbers
    <3> QED BY <3>1 DEF Outcomes
  <2>2. u.outcome.run <= Base(u).run_id
        /\ (~u.manualUnconfirmed => u.outcome.run < Base(u).run_id)
    BY DEF Panel
  <2>3. CASE Unsettled(u)
    <3>1. Base(u).run_id < s.run_id
      BY <1>2, <2>3 DEF Turn, Base
    <3> QED BY <1>2, <1>4, <2>1, <2>2, <3>1
  <2>4. CASE ~Unsettled(u)
    <3>1. Base(u).run_id = s.run_id
      BY <1>2, <2>4 DEF Base
    <3> QED BY <2>2, <2>4, <3>1
  <2> QED BY <2>3, <2>4
<1>12. v.exportBusy => v.outcome.kind = "saving"
  BY DEF Panel
<1>13. Panel(p, v)
  BY <1>6, <1>9, <1>10, <1>11, <1>12 DEF Panel
<1> QED BY <1>2, <1>5, <1>6, <1>8, <1>13

LEMMA NewsTurn ==
  ASSUME NEW p, Record(p), NEW u \in Pages, View(p, u), Turn(p, u),
         NEW s, Known(p, s), IsNews(u, s), NEW w \in Pages,
         w.state = s, w.observed = s.revision, w.sequence = u.sequence,
         w.pending = (IF BelongsToNewRun(u, s) THEN NoRun ELSE u.pending), ~Unsettled(w)
  PROVE  Turn(p, w)
<1>1. PICK k \in 1..Len(p) : k = s.revision + 1
  BY DEF Known
<1>2. /\ k >= Seen(u) /\ s = p[k] /\ s.run_id \in Nat
      /\ Unsettled(u) => s.run_id = u.sequence /\ BelongsToNewRun(u, s)
      /\ ~Unsettled(u) => s.run_id = u.state.run_id /\ ~BelongsToNewRun(u, s)
  BY <1>1, NewsRun
<1>3. Seen(w) = k /\ Seen(u) \in 1..Len(p) /\ Len(p) \in 1..Len(p)
  <2>1. s.revision \in Nat
    BY KnownIsPublication DEF Record
  <2> QED BY <1>1, <2>1, SeenNumbers, RecordNumbers DEF Record, Seen
<1>4. w.pending = NoRun
  BY <1>2 DEF Turn
<1>5. \A i \in Seen(w)..Len(p) : p[i].run_id = s.run_id
  <2> SUFFICES ASSUME NEW i \in Seen(w)..Len(p) PROVE p[i].run_id = s.run_id
    OBVIOUS
  <2>1. i \in 1..Len(p) /\ k <= i /\ i \in Seen(u)..Len(p) /\ i <= Len(p)
    BY <1>2, <1>3
  <2>2. CASE Unsettled(u)
    <3>1. p[k].run_id <= p[i].run_id /\ p[i].run_id <= p[Len(p)].run_id
      BY <1>3, <2>1, RunsRise DEF Record
    <3>2. p[Len(p)].run_id <= u.sequence
      BY DEF Turn
    <3>3. p[i].run_id \in Nat /\ p[Len(p)].run_id \in Nat /\ u.sequence \in Nat
      BY <1>3, <2>1, RecordNumbers, PageNumbers DEF Record
    <3> QED BY <1>2, <2>2, <3>1, <3>2, <3>3
  <2>3. CASE ~Unsettled(u)
    BY <1>2, <2>1, <2>3 DEF Turn
  <2> QED BY <2>2, <2>3
<1> QED BY <1>4, <1>5 DEF Turn

\* The end of a run is news once.
LEMMA NewsAnnounced ==
  ASSUME NEW p, Record(p), NEW u \in Pages, View(p, u), Announced(p, u),
         NEW s, Known(p, s), s.revision + 1 >= Seen(u), s.run_id \in Nat,
         IF Unsettled(u) THEN s.run_id > u.previous.run_id ELSE s.run_id = u.state.run_id,
         NEW w \in Pages, w.observed = s.revision,
         \/ w.announced = u.announced
         \/ /\ s.phase \in Ended
            /\ u.state.run_id # s.run_id \/ u.state.phase # s.phase
            /\ \A id \in Runs : w.announced[id] = IF id = s.run_id THEN u.announced[id] + 1
                                                                  ELSE u.announced[id]
  PROVE  Announced(p, w)
<1>1. PICK k \in 1..Len(p) : k = s.revision + 1 /\ s = p[k]
  BY DEF Known
<1>2. Seen(w) = k /\ Seen(u) \in 1..Len(p) /\ Seen(w) >= Seen(u) /\ Base(u) = p[Seen(u)]
  <2>1. s.revision \in Nat
    BY KnownIsPublication DEF Record
  <2> QED BY <1>1, <2>1, SeenNumbers DEF Record, Seen
<1>3. \A i \in 1..Len(p) : i <= Seen(u) => i <= Seen(w)
  BY <1>2
<1>a. ASSUME NEW id \in Runs, u.announced[id] # 0
      PROVE  /\ u.announced[id] = 1
             /\ \E i \in 1..Len(p) : i <= Seen(w) /\ p[i].run_id = id /\ p[i].phase \in Ended
  <2>1. /\ u.announced[id] = 1
        /\ \E i \in 1..Len(p) : i <= Seen(u) /\ p[i].run_id = id /\ p[i].phase \in Ended
    BY <1>a DEF Announced
  <2> QED BY <1>3, <2>1
<1>4. CASE w.announced = u.announced
  <2> SUFFICES ASSUME NEW id \in Runs, w.announced[id] # 0
               PROVE  /\ w.announced[id] = 1
                      /\ \E i \in 1..Len(p) : /\ i <= Seen(w) /\ p[i].run_id = id
                                              /\ p[i].phase \in Ended
    BY Zenon DEF Announced
  <2>1. w.announced[id] = u.announced[id] /\ u.announced[id] # 0
    BY <1>4
  <2> QED BY <1>a, <2>1
<1>5. CASE /\ s.phase \in Ended
           /\ u.state.run_id # s.run_id \/ u.state.phase # s.phase
           /\ \A id \in Runs : w.announced[id] = IF id = s.run_id THEN u.announced[id] + 1
                                                                 ELSE u.announced[id]
  <2> SUFFICES ASSUME NEW id \in Runs
               PROVE  \/ w.announced[id] = 0
                      \/ /\ w.announced[id] = 1
                         /\ \E i \in 1..Len(p) : /\ i <= Seen(w) /\ p[i].run_id = id
                                                 /\ p[i].phase \in Ended
    BY DEF Announced
  <2>1. CASE id # s.run_id
    <3>1. w.announced[id] = u.announced[id]
      BY <1>5, <2>1
    <3> QED BY <1>a, <3>1
  <2>2. CASE id = s.run_id
    <3>1. u.announced[id] = 0
      <4> SUFFICES ASSUME u.announced[id] # 0 PROVE FALSE
        OBVIOUS
      <4>1. PICK i \in 1..Len(p) : i <= Seen(u) /\ p[i].run_id = id /\ p[i].phase \in Ended
        BY DEF Announced
      <4>2. ~(i < k)
        BY <1>1, <2>2, <4>1 DEF Record, Order, active, Ended
      <4>3. i = Seen(u) /\ k = Seen(u)
        BY <1>1, <1>2, <4>1, <4>2
      <4>4. p[Seen(u)] = s
        BY <1>1, <4>3
      <4>5. CASE Unsettled(u)
        <5>1. u.previous = s
          BY <1>2, <4>4, <4>5 DEF Base
        <5> QED BY <4>5, <5>1
      <4>6. CASE ~Unsettled(u)
        <5>1. u.state = s
          BY <1>2, <4>4, <4>6 DEF Base
        <5> QED BY <1>5, <5>1
      <4> QED BY <4>5, <4>6
    <3>2. w.announced[id] = 1
      BY <1>5, <2>2, <3>1
    <3>3. k <= Seen(w)
      BY <1>2
    <3> QED BY <1>1, <1>5, <2>2, <3>2, <3>3
  <2> QED BY <2>1, <2>2
<1> QED BY <1>4, <1>5

LEMMA PanelSame ==
  ASSUME NEW p, NEW u, NEW w, OnlyAnnounces(u, w)
  PROVE  /\ View(p, u) => View(p, w)
         /\ Panel(p, u) => Panel(p, w)
         /\ Turn(p, u) => Turn(p, w)
         /\ Seen(w) = Seen(u) /\ (Unsettled(w) <=> Unsettled(u))
         /\ \A v : PanelNews(v, u) => PanelNews(v, w)
<1>1. Seen(w) = Seen(u) /\ (Unsettled(w) <=> Unsettled(u)) /\ Base(w) = Base(u)
  BY DEF OnlyAnnounces, Seen, Unsettled, Base
<1>2. View(p, u) => View(p, w)
  BY <1>1 DEF OnlyAnnounces, View
<1>3. Panel(p, u) => Panel(p, w)
  BY <1>1 DEF OnlyAnnounces, Panel, FromPast
<1>4. Turn(p, u) => Turn(p, w)
  BY <1>1 DEF OnlyAnnounces, Turn
<1>5. \A v : PanelNews(v, u) => PanelNews(v, w)
  BY DEF OnlyAnnounces, PanelNews
<1> QED BY <1>1, <1>2, <1>3, <1>4, <1>5

LEMMA AcceptKeeps ==
  ASSUME NEW p, Record(p), NEW u, PageGood(p, u), NEW s, Known(p, s),
         NEW w, w = acceptRunState(u, s)
  PROVE  /\ PageGood(p, w) /\ PanelNews(u, w) /\ Seen(w) >= Seen(u)
         /\ w.sequence = u.sequence /\ w.exportBusy = u.exportBusy
         /\ IsNews(u, s) => /\ ~Unsettled(w) /\ Seen(w) = s.revision + 1
                            /\ Unsettled(u) => s.run_id = u.sequence
         /\ ~IsNews(u, s) => w = u
<1>0. u \in Pages /\ View(p, u) /\ Turn(p, u) /\ Announced(p, u) /\ Panel(p, u)
  BY DEF PageGood
<1>1. CASE ~IsNews(u, s)
  <2>1. w = u
    BY <1>1 DEF acceptRunState
  <2>2. Seen(u) >= Seen(u)
    BY <1>0, SeenNumbers DEF Record
  <2> QED BY <1>1, <2>1, <2>2 DEF PanelNews
<1>2. CASE IsNews(u, s)
  <2>0. s \in Publications /\ s.revision \in Nat /\ s.export_barrier \in Nat
        /\ s.export_result \in Outcomes /\ s.run_id \in Nat
    BY KnownIsPublication DEF Record, Publications
  <2>1. PICK seen, begun, reported \in Pages :
           /\ Shows(u, seen, s)
           /\ begun = IF BelongsToNewRun(u, s)
                      THEN finishAutomaticExportRun(seen, s.export_barrier) ELSE seen
           /\ reported = IF s.export_result # NoOutcome
                         THEN receiveAutomaticExport(begun, s.export_result) ELSE begun
           /\ w = Announce(reported, u.state, s)
    BY <1>0, <1>2, <2>0, AcceptOf
  <2>2. /\ s.revision + 1 >= Seen(u) /\ s.revision + 1 \in 1..Len(p)
        /\ Unsettled(u) => s.run_id = u.sequence /\ BelongsToNewRun(u, s)
        /\ ~Unsettled(u) => s.run_id = u.state.run_id /\ ~BelongsToNewRun(u, s)
    BY <1>0, <1>2, NewsRun
  <2>3. /\ View(p, begun) /\ Panel(p, begun) /\ Seen(begun) >= Seen(u) /\ ~Unsettled(begun)
        /\ PanelNews(u, begun) /\ SameRun(seen, begun) /\ begun.exportBusy = u.exportBusy
    <3>1. CASE Unsettled(u)
      <4>1. begun = finishAutomaticExportRun(seen, s.export_barrier)
        BY <2>1, <2>2, <3>1
      <4>2. PICK v \in Pages : Settles(seen, v, s.export_barrier) /\ begun = flushAutomaticExport(v)
        BY <2>0, <2>1, <4>1, FinishOf
      <4>3. /\ v.state = s /\ v.observed = s.revision
            /\ v.deferred = u.deferred /\ v.outcome = u.outcome /\ v.exportBusy = u.exportBusy
            /\ v.lastExport >= u.lastExport /\ v.lastExport >= s.export_barrier
            /\ v.manualUnconfirmed => u.manualUnconfirmed
            /\ SameRun(seen, v)
        BY <2>1, <4>2 DEF Shows, Settles, SameRun
      <4>4. View(p, v) /\ Panel(p, v) /\ Seen(v) >= Seen(u) /\ ~Unsettled(v)
        BY <1>0, <1>2, <3>1, <4>3, NewsPanel
      <4>5. Offered(v, begun, v.deferred) /\ v.deferred \in Outcomes
            /\ FromPast(p, v, v.deferred)
        BY <4>2, <4>4, FlushOf, PageNumbers DEF Panel
      <4>6. /\ View(p, begun) /\ Panel(p, begun) /\ PanelNews(v, begun) /\ SameRun(v, begun)
            /\ begun.exportBusy = v.exportBusy
        BY <4>4, <4>5, OfferKeeps
      <4>7. Seen(begun) = Seen(v) /\ ~Unsettled(begun)
        BY <4>4, <4>6 DEF SameRun, Seen, Unsettled
      <4>8. PanelNews(u, begun)
        BY <4>3, <4>6 DEF PanelNews
      <4>9. SameRun(seen, begun)
        BY <4>3, <4>6 DEF SameRun
      <4> QED BY <4>3, <4>4, <4>6, <4>7, <4>8, <4>9
    <3>2. CASE ~Unsettled(u)
      <4>1. begun = seen
        BY <2>1, <2>2, <3>2
      <4>2. /\ begun.state = s /\ begun.observed = s.revision
            /\ begun.deferred = u.deferred /\ begun.outcome = u.outcome
            /\ begun.exportBusy = u.exportBusy /\ begun.lastExport = u.lastExport
            /\ begun.manualUnconfirmed = u.manualUnconfirmed
        BY <2>1, <4>1 DEF Shows
      <4>3. begun.lastExport >= u.lastExport
        BY <1>0, <4>2, PageNumbers
      <4>4. View(p, begun) /\ Panel(p, begun) /\ Seen(begun) >= Seen(u) /\ ~Unsettled(begun)
        BY <1>0, <1>2, <3>2, <4>2, <4>3, NewsPanel
      <4>5. PanelNews(u, begun)
        BY <4>2 DEF PanelNews
      <4>6. SameRun(seen, begun)
        BY <4>1 DEF SameRun
      <4> QED BY <4>2, <4>4, <4>5, <4>6
    <3> QED BY <3>1, <3>2
  <2>4. begun.state = s /\ begun.observed = s.revision
    BY <2>1, <2>3 DEF SameRun, Shows
  <2>5. Seen(begun) = s.revision + 1
    BY <2>0, <2>4 DEF Seen
  <2>6. FromPast(p, begun, s.export_result)
    <3>1. s = p[s.revision + 1] /\ s.revision + 1 <= Seen(begun)
      BY <2>0, <2>5 DEF Known
    <3> QED BY <2>2, <3>1 DEF FromPast
  <2>7. /\ View(p, reported) /\ Panel(p, reported) /\ PanelNews(begun, reported)
        /\ SameRun(begun, reported) /\ reported.exportBusy = begun.exportBusy
    <3>1. CASE s.export_result # NoOutcome
      <4>1. Offered(begun, reported, s.export_result)
        BY <2>0, <2>1, <3>1, ReceiveOf
      <4> QED BY <2>0, <2>3, <2>6, <4>1, OfferKeeps
    <3>2. CASE s.export_result = NoOutcome
      <4>1. reported = begun
        BY <2>1, <3>2
      <4> QED BY <2>3, <4>1 DEF SameRun, PanelNews
    <3> QED BY <3>1, <3>2
  <2>8. /\ w \in Pages /\ OnlyAnnounces(reported, w)
        /\ \/ w.announced = reported.announced
           \/ /\ s.phase \in Ended
              /\ u.state.run_id # s.run_id \/ u.state.phase # s.phase
              /\ \A id \in Runs : w.announced[id] = IF id = s.run_id
                                                    THEN reported.announced[id] + 1
                                                    ELSE reported.announced[id]
    BY <2>1, AnnounceOf
  <2>9. /\ reported.state = s /\ reported.observed = s.revision
        /\ reported.announced = u.announced /\ reported.sequence = u.sequence
        /\ reported.pending = (IF BelongsToNewRun(u, s) THEN NoRun ELSE u.pending)
    BY <2>1, <2>3, <2>7 DEF SameRun, Shows
  <2>10. ~Unsettled(reported) /\ Seen(reported) = Seen(begun)
    BY <2>3, <2>7 DEF SameRun, Unsettled, Seen
  <2>11. Turn(p, reported)
    BY <1>0, <1>2, <2>9, <2>10, NewsTurn
  <2>12. PanelNews(u, reported)
    BY <2>3, <2>7, NewsAddUp DEF SameRun
  <2>13. /\ View(p, w) /\ Panel(p, w) /\ Turn(p, w) /\ Seen(w) = Seen(reported)
         /\ ~Unsettled(w) /\ PanelNews(u, w)
    BY <2>7, <2>8, <2>10, <2>11, <2>12, PanelSame
  <2>14. Announced(p, w)
    <3>1. w.observed = s.revision
      BY <2>8, <2>9 DEF OnlyAnnounces
    <3>2. IF Unsettled(u) THEN s.run_id > u.previous.run_id ELSE s.run_id = u.state.run_id
      <4>1. u.previous.run_id \in Nat
        BY <1>0, PageNumbers
      <4> QED BY <1>0, <2>0, <2>2, <4>1 DEF Turn
    <3> QED BY <1>0, <2>0, <2>2, <2>8, <2>9, <3>1, <3>2, NewsAnnounced
  <2>15. w.sequence = u.sequence /\ w.exportBusy = u.exportBusy
    BY <2>3, <2>7, <2>8, <2>9 DEF OnlyAnnounces
  <2> QED BY <1>2, <2>2, <2>3, <2>5, <2>8, <2>10, <2>13, <2>14, <2>15 DEF PageGood
<1> QED BY <1>1, <1>2

-----------------------------------------------------------------------------
(* What the controller publishes next comes in turn *)

\* Numbers are drawn upwards: no outcome known has one above the last that was given.
Counts ==
  /\ \A i \in 1..Len(published) : /\ published[i].export_result.number <= export_revision
                                  /\ published[i].export_barrier <= export_revision
  /\ \A id \in Runs : At(id, "numbered") => number[id] <= export_revision

ServerAction ==
  \/ UNCHANGED serverVars
  \/ \E id \in Runs : StartAccepted(id) \/ WorkerStep(id)
  \/ \E id \in Nat : StopAccepted(id) \/ StopRefused(id)
  \/ ExportBegins \/ ExportEnds \/ ExportRefused
  \/ AddListener \/ RemoveListener

LEMMA DrawnKeeps ==
  ASSUME IInv, Counts, ServerAction
  PROVE  /\ export_revision \in Nat /\ export_revision' \in Nat
         /\ export_revision' >= export_revision
         /\ \A id \in Runs : At(id, "numbered")' => number'[id] <= export_revision'
<1>1. export_revision \in Nat /\ worker \in [Runs -> Places] /\ number \in [Runs -> Nat]
  BY DEF IInv, Counters, Shapes
<1>2. \A id \in Runs : At(id, "numbered") => number[id] <= export_revision
  BY DEF Counts
<1>3. ASSUME number' = number, export_revision' \in {export_revision, export_revision + 1},
             \A id \in Runs : worker'[id] = "numbered" => worker[id] = "numbered"
      PROVE  /\ export_revision' \in Nat /\ export_revision' >= export_revision
             /\ \A id \in Runs : At(id, "numbered")' => number'[id] <= export_revision'
  <2>1. export_revision' \in Nat /\ export_revision' >= export_revision
    BY <1>1, <1>3
  <2> SUFFICES ASSUME NEW id \in Runs, At(id, "numbered")'
               PROVE  number'[id] <= export_revision'
    BY <2>1
  <2>2. number[id] <= export_revision /\ number[id] \in Nat
    BY <1>1, <1>2, <1>3 DEF At
  <2> QED BY <1>1, <1>3, <2>1, <2>2
<1>4. CASE UNCHANGED serverVars \/ AddListener \/ RemoveListener
  <2>1. UNCHANGED <<export_revision, workerVars>>
    BY <1>4 DEF serverVars, AddListener, RemoveListener
  <2> QED BY <1>1, <1>3, <2>1 DEF workerVars
<1>5. CASE \E id \in Nat : StopAccepted(id) \/ StopRefused(id)
  <2>1. UNCHANGED <<export_revision, workerVars>>
    BY <1>5 DEF StopAccepted, StopRefused
  <2> QED BY <1>1, <1>3, <2>1 DEF workerVars
<1>6. CASE ExportBegins \/ ExportEnds \/ ExportRefused
  <2>1. export_revision' \in {export_revision, export_revision + 1} /\ UNCHANGED workerVars
    BY <1>6 DEF ExportBegins, ExportEnds, ExportRefused
  <2> QED BY <1>1, <1>3, <2>1 DEF workerVars
<1>7. ASSUME NEW id \in Runs, StartAccepted(id)
      PROVE  /\ export_revision' \in Nat /\ export_revision' >= export_revision
             /\ \A other \in Runs : At(other, "numbered")' => number'[other] <= export_revision'
  <2>1. /\ export_revision' = export_revision + 1 /\ number' = number
        /\ worker' = [worker EXCEPT ![id] = "running"]
    BY <1>7 DEF StartAccepted
  <2>2. \A other \in Runs : worker'[other] = "numbered" => worker[other] = "numbered"
    BY <1>1, <2>1
  <2> QED BY <1>3, <2>1, <2>2
<1>8. ASSUME NEW id \in Runs, WorkerStep(id)
      PROVE  /\ export_revision' \in Nat /\ export_revision' >= export_revision
             /\ \A other \in Runs : At(other, "numbered")' => number'[other] <= export_revision'
  <2>1. CASE NumberResult(id)
    <3>1. /\ export_revision' = export_revision + 1
          /\ worker' = [worker EXCEPT ![id] = "numbered"]
          /\ number' = [number EXCEPT ![id] = export_revision + 1]
      BY <2>1 DEF NumberResult
    <3>2. export_revision' \in Nat /\ export_revision' >= export_revision
      BY <1>1, <3>1
    <3>3. ASSUME NEW other \in Runs, At(other, "numbered")'
          PROVE  number'[other] <= export_revision'
      <4>1. CASE other = id
        <5>1. number'[other] = export_revision'
          BY <1>1, <3>1, <4>1
        <5> QED BY <3>2, <5>1
      <4>2. CASE other # id
        <5>1. number'[other] = number[other] /\ At(other, "numbered")
          BY <1>1, <3>1, <3>3, <4>2 DEF At
        <5>2. number[other] <= export_revision /\ number[other] \in Nat
          BY <1>1, <1>2, <5>1
        <5> QED BY <1>1, <3>2, <5>1, <5>2
      <4> QED BY <4>1, <4>2
    <3> QED BY <3>2, <3>3
  <2>2. CASE Progress(id)
    BY <1>1, <1>3, <2>2 DEF Progress, workerVars
  <2>3. CASE ReadVerdict(id)
    <3>1. PICK place \in {"failed", "aborted", "done"} : MovesTo(id, place)
      BY <2>3 DEF ReadVerdict
    <3> QED BY <1>1, <1>3, <2>3, <3>1 DEF ReadVerdict, MovesTo
  <2>4. CASE EmitResult(id) \/ EmitVerdict(id) \/ ShutdownFails(id) \/ WorkerEnds(id)
    <3>1. PICK place \in {"reported", "closing", "crashed", "over"} : MovesTo(id, place)
      BY <2>4 DEF EmitResult, EmitVerdict, ShutdownFails, WorkerEnds
    <3>2. export_revision' = export_revision
      BY <2>4 DEF EmitResult, EmitVerdict, ShutdownFails, WorkerEnds
    <3>3. number' = number /\ worker' = [worker EXCEPT ![id] = place]
      BY <3>1 DEF MovesTo
    <3>4. \A other \in Runs : worker'[other] = "numbered" => worker[other] = "numbered"
      BY <1>1, <3>3
    <3> QED BY <1>3, <3>2, <3>3, <3>4
  <2> QED BY <1>8, <2>1, <2>2, <2>3, <2>4 DEF WorkerStep
<1> QED BY <1>1, <1>4, <1>5, <1>6, <1>7, <1>8 DEF ServerAction

LEMMA OrderAppend ==
  ASSUME NEW p, Record(p), NEW q, Chronicle(q), Extends(p, q), Len(q) = Len(p) + 1,
         NEW s, s = q[Len(q)], NEW l, l = p[Len(p)],
         \/ s.run_id = l.run_id /\ active(l.phase) /\ s.export_barrier = l.export_barrier
         \/ /\ l.run_id < s.run_id
            /\ \A i \in 1..Len(p) : p[i].export_result.number < s.export_barrier,
         s.export_result # NoOutcome =>
           s.export_result.run = s.run_id /\ s.export_result.kind = "automatic"
  PROVE  Record(q)
<1>1. /\ Len(p) \in Nat /\ Len(p) >= 1 /\ Len(p) \in 1..Len(p)
      /\ \A i \in 1..Len(p) : q[i] = p[i]
  BY RecordNumbers DEF Record, Extends
<1>2. \A i \in 1..Len(q) : i \in 1..Len(p) \/ i = Len(q)
  BY <1>1
<1>3. Results(q)
  <2> SUFFICES ASSUME NEW i \in 1..Len(q), q[i].export_result # NoOutcome
               PROVE  q[i].export_result.run = q[i].run_id /\ q[i].export_result.kind = "automatic"
    BY DEF Results
  <2>1. CASE i \in 1..Len(p)
    BY <1>1, <2>1 DEF Record, Results
  <2>2. CASE i = Len(q)
    BY <2>2
  <2> QED BY <1>2, <2>1, <2>2
<1>4. Order(q)
  <2> SUFFICES ASSUME NEW i \in 1..Len(q), NEW j \in 1..Len(q), i < j
               PROVE  /\ q[i].run_id <= q[j].run_id
                      /\ q[i].run_id = q[j].run_id =>
                           active(q[i].phase) /\ q[i].export_barrier = q[j].export_barrier
                      /\ q[i].run_id < q[j].run_id =>
                           q[i].export_result.number < q[j].export_barrier
    BY DEF Order
  <2>1. i \in 1..Len(p) /\ q[i] = p[i]
    BY <1>1, <1>2
  <2>2. CASE j \in 1..Len(p)
    BY <1>1, <2>1, <2>2 DEF Record, Order
  <2>3. CASE j = Len(q)
    <3>1. p[i].run_id <= l.run_id /\ p[i].run_id \in Nat /\ l.run_id \in Nat
          /\ i <= Len(p)
      BY <1>1, <2>1, RunsRise, RecordNumbers DEF Record
    <3>2. s.run_id \in Nat
      <4>1. Len(q) \in 1..Len(q)
        BY RecordNumbers
      <4> QED BY <4>1, RecordNumbers
    <3>3. CASE s.run_id = l.run_id /\ active(l.phase) /\ s.export_barrier = l.export_barrier
      <4>1. CASE i = Len(p)
        BY <2>1, <2>3, <3>1, <3>3, <4>1
      <4>2. CASE i < Len(p)
        BY <1>1, <2>1, <2>3, <3>3, <4>2 DEF Record, Order
      <4> QED BY <1>1, <3>1, <4>1, <4>2
    <3>4. CASE /\ l.run_id < s.run_id
               /\ \A h \in 1..Len(p) : p[h].export_result.number < s.export_barrier
      BY <2>1, <2>3, <3>1, <3>2, <3>4
    <3> QED BY <3>3, <3>4
  <2> QED BY <1>2, <2>2, <2>3
<1> QED BY <1>3, <1>4 DEF Record

\* What the controller may do while every start is handled once.
InTurn == ServerAction /\ ServerMoves /\ \A id \in Runs : Begins(id) => run_id < id

LEMMA RecordMoves ==
  ASSUME ServerSafe, Record(published), Counts, IInv', InTurn
  PROVE  /\ Record(published') /\ Counts' /\ ServerSafe' /\ Extends(published, published')
<1>1. ServerSafe' /\ Extends(published, published')
      /\ (Silent \/ Len(published') = Len(published) + 1)
  BY ServerChronicle DEF ServerSafe, InTurn
<1>2. /\ export_revision \in Nat /\ export_revision' \in Nat
      /\ export_revision' >= export_revision
      /\ \A id \in Runs : At(id, "numbered")' => number'[id] <= export_revision'
  BY DrawnKeeps DEF ServerSafe, InTurn
<1>3. PICK p : p = published
  OBVIOUS
<1>4. PICK q : q = published'
  OBVIOUS
<1>5. PICK n \in Nat : n = export_revision'
  BY <1>2
<1>6. /\ Record(p) /\ Chronicle(q) /\ Extends(p, q) /\ Len(p) \in 1..Len(p) /\ Len(p) \in Nat
      /\ \A i \in 1..Len(p) : p[i].export_result.number \in Nat /\ p[i].export_barrier \in Nat
  BY <1>1, <1>3, <1>4, RecordNumbers DEF ServerSafe, Record
<1>7. \A i \in 1..Len(p) : p[i].export_result.number <= export_revision
                           /\ p[i].export_barrier <= export_revision
  BY <1>3 DEF Counts
<1>8. \A i \in 1..Len(p) : p[i].export_result.number <= n /\ p[i].export_barrier <= n
  BY <1>2, <1>5, <1>6, <1>7
<1>9. CASE Silent
  <2>1. q = p
    BY <1>3, <1>4, <1>9 DEF Silent
  <2>2. Counts'
    BY <1>2, <1>4, <1>5, <1>8, <2>1 DEF Counts
  <2> QED BY <1>1, <1>3, <1>4, <1>6, <2>1, <2>2
<1>10. CASE GoesOn \/ \E id \in Runs : Begins(id)
  <2>1. PICK s : s = Snapshot'
    OBVIOUS
  <2>2. Len(q) = Len(p) + 1 /\ q[Len(q)] = s /\ Len(q) \in 1..Len(q)
    <3>1. published'[Len(published')] = Snapshot'
      BY <1>1 DEF ServerSafe, Linked
    <3>2. published' # published
      BY <1>10, <1>3, <1>6, LastIsSnapshot DEF ServerSafe, GoesOn, Begins, Speaks
    <3>3. Len(q) = Len(p) + 1
      BY <1>1, <1>3, <1>4, <3>2 DEF Silent
    <3> QED BY <1>4, <1>6, <2>1, <3>1, <3>3
  <2>3. PICK l : l = p[Len(p)]
    OBVIOUS
  <2>4. /\ run_id = l.run_id /\ phase = l.phase /\ export_barrier = l.export_barrier
        /\ export_result = l.export_result
    BY <1>3, <2>3, LastIsSnapshot DEF ServerSafe
  <2>5. /\ s.run_id = run_id' /\ s.export_barrier = export_barrier'
        /\ s.export_result = export_result'
    BY <2>1 DEF Snapshot
  <2>6. CASE GoesOn
    <3>1. s.run_id = l.run_id /\ active(l.phase) /\ s.export_barrier = l.export_barrier
      BY <2>4, <2>5, <2>6 DEF GoesOn
    <3>2. /\ s.export_result # NoOutcome =>
               s.export_result.run = s.run_id /\ s.export_result.kind = "automatic"
          /\ s.export_result.number <= n
      <4>1. CASE export_result' = export_result
        <5>1. s.export_result = l.export_result
          BY <2>4, <2>5, <4>1
        <5> QED BY <1>6, <1>8, <2>3, <3>1, <5>1 DEF Record, Results
      <4>2. ASSUME NEW id \in Runs, At(id, "numbered"), id = run_id,
                   export_result' = AutomaticOutcome(id, number[id])
            PROVE  /\ s.export_result # NoOutcome =>
                       s.export_result.run = s.run_id /\ s.export_result.kind = "automatic"
                   /\ s.export_result.number <= n
        <5>1. /\ s.export_result.kind = "automatic" /\ s.export_result.run = id
              /\ s.export_result.number = number[id]
          BY <2>5, <4>2 DEF AutomaticOutcome
        <5>2. number[id] <= export_revision /\ number[id] \in Nat
          BY <4>2 DEF Counts, ServerSafe, IInv, Counters
        <5> QED BY <1>2, <1>5, <2>4, <3>1, <4>2, <5>1, <5>2
      <4> QED BY <2>6, <4>1, <4>2 DEF GoesOn
    <3>3. Record(q)
      BY <1>6, <2>2, <2>3, <3>1, <3>2, OrderAppend
    <3>4. s.export_barrier <= n
      BY <1>6, <1>8, <2>3, <3>1
    <3>5. \A i \in 1..Len(q) : q[i].export_result.number <= n /\ q[i].export_barrier <= n
      <4>1. \A i \in 1..Len(q) : i \in 1..Len(p) \/ i = Len(q)
        BY <1>6, <2>2
      <4> QED BY <1>6, <1>8, <2>2, <3>2, <3>4, <4>1 DEF Extends
    <3>6. Counts'
      BY <1>2, <1>4, <1>5, <3>5 DEF Counts
    <3> QED BY <1>1, <1>4, <3>3, <3>6
  <2>7. ASSUME NEW id \in Runs, Begins(id) PROVE Record(q) /\ Counts'
    <3>1. /\ l.run_id < s.run_id /\ s.export_result = NoOutcome
          /\ s.export_barrier = export_revision + 1 /\ n = export_revision + 1
      BY <1>5, <2>4, <2>5, <2>7 DEF Begins, InTurn
    <3>2. \A i \in 1..Len(p) : p[i].export_result.number < s.export_barrier
      BY <1>2, <1>6, <1>7, <3>1
    <3>3. Record(q)
      BY <1>6, <2>2, <2>3, <3>1, <3>2, OrderAppend
    <3>4. s.export_barrier <= n /\ s.export_result.number <= n
      <4>1. NoOutcome.number = 0
        BY DEF NoOutcome
      <4> QED BY <1>2, <3>1, <4>1
    <3>5. \A i \in 1..Len(q) : q[i].export_result.number <= n /\ q[i].export_barrier <= n
      <4>1. \A i \in 1..Len(q) : i \in 1..Len(p) \/ i = Len(q)
        BY <1>6, <2>2
      <4> QED BY <1>6, <1>8, <2>2, <3>4, <4>1 DEF Extends
    <3>6. Counts'
      BY <1>2, <1>4, <1>5, <3>5 DEF Counts
    <3> QED BY <3>3, <3>6
  <2> QED BY <1>1, <1>4, <1>10, <2>6, <2>7
<1> QED BY <1>9, <1>10 DEF InTurn, ServerMoves

LEMMA PageExtends ==
  ASSUME NEW p, Record(p), NEW q, Record(q), Extends(p, q), NEW u, PageGood(p, u),
         \/ q = p
         \/ /\ Len(q) = Len(p) + 1
            /\ \/ q[Len(q)].run_id = p[Len(p)].run_id
               \/ q[Len(q)].run_id = u.sequence /\ Unsettled(u)
  PROVE  PageGood(q, u)
<1>0. u \in Pages /\ View(p, u) /\ Turn(p, u) /\ Announced(p, u) /\ Panel(p, u)
  BY DEF PageGood
<1>1. /\ Len(p) \in Nat /\ Len(p) \in 1..Len(p) /\ Len(q) \in Nat
      /\ Len(q) >= Len(p) /\ \A i \in 1..Len(p) : q[i] = p[i]
  BY RecordNumbers DEF Record, Extends
<1>2. \A i \in 1..Len(p) : i \in 1..Len(q)
  BY <1>1
<1>3. View(q, u)
  BY <1>0, ViewExtends DEF Record
<1>4. Announced(q, u)
  <2> SUFFICES ASSUME NEW id \in Runs, u.announced[id] # 0
               PROVE  /\ u.announced[id] = 1
                      /\ \E i \in 1..Len(q) : /\ i <= Seen(u) /\ q[i].run_id = id
                                              /\ q[i].phase \in Ended
    BY Zenon DEF Announced
  <2>1. PICK i \in 1..Len(p) : i <= Seen(u) /\ p[i].run_id = id /\ p[i].phase \in Ended
    BY <1>0 DEF Announced
  <2>2. u.announced[id] = 1
    BY <1>0 DEF Announced
  <2>3. i \in 1..Len(q) /\ q[i] = p[i]
    BY <1>1, <1>2
  <2> QED BY <2>1, <2>2, <2>3
<1>5. Panel(q, u)
  <2>1. FromPast(q, u, u.deferred)
    <3>1. CASE u.deferred = NoOutcome
      BY <3>1 DEF FromPast
    <3>2. CASE u.deferred # NoOutcome
      <4>1. PICK i \in 1..Len(p) : i <= Seen(u) /\ u.deferred = p[i].export_result
        BY <1>0, <3>2 DEF Panel, FromPast
      <4>2. i \in 1..Len(q) /\ q[i] = p[i]
        BY <1>1, <1>2
      <4> QED BY <4>1, <4>2 DEF FromPast
    <3> QED BY <3>1, <3>2
  <2> QED BY <1>0, <2>1 DEF Panel
<1>6. Turn(q, u)
  <2>1. CASE q = p
    BY <1>0, <2>1
  <2>2. CASE Len(q) = Len(p) + 1
    <3>1. PICK a : a = q[Len(q)].run_id
      OBVIOUS
    <3>2. p[Len(p)].run_id <= u.sequence
      BY <1>0 DEF Turn
    <3>3. a = p[Len(p)].run_id \/ (a = u.sequence /\ Unsettled(u))
      BY <2>2, <1>1, <3>1
    <3>4. a <= u.sequence
      <4>1. u.sequence \in Nat
        BY <1>0, PageNumbers
      <4> QED BY <3>2, <3>3, <4>1
    <3>5. \A i \in Seen(u)..Len(q) : (i \in Seen(u)..Len(p) /\ q[i] = p[i]) \/ i = Len(q)
      <4>1. Seen(u) \in Nat /\ Seen(u) >= 1
        BY <1>0, SeenNumbers DEF Record
      <4> QED BY <1>1, <2>2, <4>1
    <3>6. Len(p) \in Seen(u)..Len(p)
      <4>1. Seen(u) \in Nat /\ Seen(u) <= Len(p)
        BY <1>0, SeenNumbers DEF Record
      <4> QED BY <1>1, <4>1
    <3>7. ASSUME Unsettled(u)
          PROVE  /\ u.pending = u.sequence /\ u.state.run_id = u.sequence
                 /\ u.previous.run_id < u.sequence
                 /\ \A i \in Seen(u)..Len(q) : q[i].run_id \in {u.previous.run_id, u.sequence}
      <4>1. /\ u.pending = u.sequence /\ u.state.run_id = u.sequence
            /\ u.previous.run_id < u.sequence
            /\ \A i \in Seen(u)..Len(p) : p[i].run_id \in {u.previous.run_id, u.sequence}
        BY <1>0, <3>7 DEF Turn
      <4>2. a \in {u.previous.run_id, u.sequence}
        BY <3>3, <3>6, <4>1
      <4>3. \A i \in Seen(u)..Len(q) : q[i].run_id \in {u.previous.run_id, u.sequence}
        BY <3>1, <3>5, <4>1, <4>2
      <4> QED BY <4>1, <4>3
    <3>8. ASSUME ~Unsettled(u)
          PROVE  /\ u.pending = NoRun
                 /\ \A i \in Seen(u)..Len(q) : q[i].run_id = u.state.run_id
      <4>1. /\ u.pending = NoRun
            /\ \A i \in Seen(u)..Len(p) : p[i].run_id = u.state.run_id
        BY <1>0, <3>8 DEF Turn
      <4>2. a = u.state.run_id
        BY <3>3, <3>6, <3>8, <4>1
      <4> QED BY <3>1, <3>5, <4>1, <4>2
    <3> QED BY <3>1, <3>4, <3>7, <3>8 DEF Turn
  <2> QED BY <2>1, <2>2
<1> QED BY <1>0, <1>3, <1>4, <1>5, <1>6 DEF PageGood

-----------------------------------------------------------------------------
(* The starts on their way, and the exports *)

\* A start that has not been handled is the one the page waits for, and its run has not begun.
StartOK(p, u, n, r) ==
  /\ r.id <= u.sequence
  /\ r.stage = "sent" => r.id = u.sequence /\ Unsettled(u) /\ p[Len(p)].run_id # r.id
  /\ r.stage = "answered" =>
       /\ r.ok => r.snapshot.run_id = r.id
       /\ ~r.ok /\ r.id = u.sequence => p[Len(p)].run_id # r.id
  /\ u.state.phase = "unknown" /\ r.id = u.sequence => r.stage = "sent" /\ ~r.heard
  /\ \A q \in n : q.kind = "start" /\ q.id = r.id => q = r

Starts(p, u, n) == \A r \in n : r.kind = "start" => StartOK(p, u, n, r)

\* The page waits for at most one export.
Exports(u, n) ==
  \A r, q \in n :
    r.kind = "export" /\ q.kind = "export" /\ r.heard /\ q.heard => u.exportBusy /\ r = q

LEMMA StartsLess ==
  ASSUME NEW p, NEW u, NEW n, Starts(p, u, n), NEW l, l \subseteq n
  PROVE  Starts(p, u, l)
  BY DEF Starts, StartOK

LEMMA StartsOther ==
  ASSUME NEW p, NEW u, NEW n, Starts(p, u, n), NEW m, m.kind # "start"
  PROVE  Starts(p, u, n \cup {m})
  BY DEF Starts, StartOK

LEMMA StartsPage ==
  ASSUME NEW p, NEW u, NEW n, Starts(p, u, n), NEW w, w.sequence = u.sequence,
         Unsettled(w) <=> Unsettled(u), w.state.phase = "unknown" => u.state.phase = "unknown"
  PROVE  Starts(p, w, n)
  BY DEF Starts, StartOK

LEMMA StartsSettled ==
  ASSUME NEW p, NEW u, NEW n, Starts(p, u, n), NEW w, w.sequence = u.sequence,
         ~Unsettled(w), \A r \in n : r.kind = "start" => r.stage # "sent"
  PROVE  Starts(p, w, n)
  BY DEF Starts, StartOK, Unsettled

LEMMA StartsAccept ==
  ASSUME NEW p, Record(p), NEW u, PageGood(p, u), NEW s, Known(p, s),
         NEW w, w = acceptRunState(u, s), NEW n, Starts(p, u, n)
  PROVE  Starts(p, w, n)
<1>1. CASE ~IsNews(u, s)
  BY <1>1, AcceptKeeps
<1>2. CASE IsNews(u, s) /\ ~Unsettled(u)
  BY <1>2, AcceptKeeps, StartsPage DEF Unsettled
<1>3. CASE IsNews(u, s) /\ Unsettled(u)
  <2>1. ~Unsettled(w) /\ w.sequence = u.sequence /\ s.run_id = u.sequence
    BY <1>3, AcceptKeeps
  <2>2. p[Len(p)].run_id = u.sequence
    <3>1. /\ s.revision + 1 \in 1..Len(p) /\ s = p[s.revision + 1] /\ Len(p) \in 1..Len(p)
          /\ Len(p) \in Nat
      BY RecordNumbers DEF Known, Record
    <3>2. p[s.revision + 1].run_id <= p[Len(p)].run_id
      <4>1. s.revision + 1 <= Len(p)
        BY <3>1
      <4> QED BY <3>1, <4>1, RunsRise DEF Record
    <3>3. p[Len(p)].run_id <= u.sequence /\ p[Len(p)].run_id \in Nat /\ u.sequence \in Nat
      BY <3>1, RecordNumbers, PageNumbers DEF Record, PageGood, Turn
    <3>4. u.sequence <= p[Len(p)].run_id
      BY <2>1, <3>1, <3>2
    <3> QED BY <3>3, <3>4
  <2>3. \A r \in n : r.kind = "start" => r.stage # "sent"
    BY <2>2 DEF Starts, StartOK
  <2> QED BY <2>1, <2>3, StartsSettled
<1> QED BY <1>1, <1>2, <1>3

\* The last run published is the same, or not one a start on its way is about.
LEMMA StartsExtend ==
  ASSUME NEW p, NEW u, NEW n, Starts(p, u, n), NEW q,
         \/ q[Len(q)].run_id = p[Len(p)].run_id
         \/ \A r \in n : r.kind = "start" => q[Len(q)].run_id # r.id
  PROVE  Starts(q, u, n)
  BY DEF Starts, StartOK

LEMMA ExportsLess ==
  ASSUME NEW u, NEW n, Exports(u, n), NEW l, l \subseteq n
  PROVE  Exports(u, l)
  BY DEF Exports

LEMMA ExportsOther ==
  ASSUME NEW u, NEW n, Exports(u, n), NEW m, m.kind # "export" \/ ~m.heard
  PROVE  Exports(u, n \cup {m})
  BY DEF Exports

LEMMA ExportsPage ==
  ASSUME NEW u, NEW n, Exports(u, n), NEW w, w.exportBusy = u.exportBusy
  PROVE  Exports(w, n)
  BY DEF Exports

\* An export in another stage takes its own place.
LEMMA ExportsReplace ==
  ASSUME NEW u, NEW n, Exports(u, n), NEW r \in n, r.kind = "export",
         NEW m, m.heard = r.heard
  PROVE  Exports(u, (n \ {r}) \cup {m})
  BY DEF Exports

\* When the page takes the answer to the export it waited for, none is left.
LEMMA ExportsDone ==
  ASSUME NEW u, NEW n, Exports(u, n), NEW r \in n, r.kind = "export", r.heard, NEW w
  PROVE  Exports(w, n \ {r})
  BY DEF Exports

\* No two starts on their way are about the same run.
LEMMA StartsUnique ==
  ASSUME NEW p, NEW u, NEW n, Starts(p, u, n), NEW r \in n, r.kind = "start"
  PROVE  \A o \in n \ {r} : o.kind = "start" => o.id # r.id
  BY DEF Starts, StartOK

LEMMA StartsAdd ==
  ASSUME NEW p, NEW u, NEW n, Starts(p, u, n), NEW m, m.kind = "start",
         StartOK(p, u, {m}, m), \A o \in n : o.kind = "start" => o.id # m.id
  PROVE  Starts(p, u, n \cup {m})
<1> SUFFICES ASSUME NEW q \in n \cup {m}, q.kind = "start"
             PROVE  StartOK(p, u, n \cup {m}, q)
  BY DEF Starts
<1>1. CASE q = m
  BY <1>1 DEF StartOK
<1>2. CASE q \in n
  BY <1>2 DEF Starts, StartOK
<1> QED BY <1>1, <1>2

\* When the start the page waited for is off the way, none is left to be handled.
LEMMA StartsOld ==
  ASSUME NEW p, NEW u, NEW n, Starts(p, u, n), NEW w, w.sequence = u.sequence,
         \A o \in n : o.kind = "start" => o.id # u.sequence
  PROVE  Starts(p, w, n)
  BY DEF Starts, StartOK

-----------------------------------------------------------------------------
(* Every step keeps the turn *)

TurnRest ==
  /\ Record(published) /\ Counts /\ PageGood(published, ui)
  /\ Starts(published, ui, net) /\ Exports(ui, net)

TurnInv == SafeInv /\ TurnRest

\* What a step may bring onto the panel.
NewsStep(u, w) ==
  w.outcome # u.outcome /\ w.outcome.kind = "automatic"
    => /\ w.outcome.run = w.state.run_id
       /\ u.outcome.kind = "unknown" => w.outcome.run > u.outcome.run

StepGood == TurnRest' /\ NewsStep(ui, ui') /\ Seen(ui') >= Seen(ui)

LEMMA TurnFacts ==
  ASSUME TurnInv
  PROVE  /\ Record(published) /\ Chronicle(published) /\ PageGood(published, ui) /\ ui \in Pages
         /\ View(published, ui) /\ Turn(published, ui) /\ Panel(published, ui)
         /\ Starts(published, ui, net) /\ Exports(ui, net) /\ ToldNet(published, net)
         /\ Linked /\ IInv /\ ServerSafe /\ Counts
         /\ run_id = published[Len(published)].run_id /\ run_id \in Nat
         /\ ui.sequence \in Nat /\ run_id <= ui.sequence /\ Seen(ui) >= Seen(ui)
         /\ net \subseteq Messages
<1>1. /\ Record(published) /\ Chronicle(published) /\ PageGood(published, ui) /\ ui \in Pages
      /\ View(published, ui) /\ Turn(published, ui) /\ Panel(published, ui)
      /\ Starts(published, ui, net) /\ Exports(ui, net) /\ ToldNet(published, net)
      /\ Linked /\ IInv /\ ServerSafe /\ Counts
  BY DEF TurnInv, TurnRest, SafeInv, ServerSafe, PageGood
<1>2. run_id = published[Len(published)].run_id /\ run_id \in Nat
  BY <1>1, LastIsSnapshot, RecordNumbers
<1>3. ui.sequence \in Nat
  BY <1>1, PageNumbers
<1>4. run_id <= ui.sequence
  BY <1>1, <1>2 DEF Turn
<1>5. Seen(ui) >= Seen(ui)
  BY <1>1, SeenNumbers
<1>6. net \subseteq Messages
  BY <1>1 DEF ToldNet
<1> QED BY <1>1, <1>2, <1>3, <1>4, <1>5, <1>6

\* The page's own steps.
LEMMA PageStep ==
  ASSUME TurnInv, published' = published, UNCHANGED <<export_revision, workerVars>>,
         NEW w, w = ui', NEW n, n = net',
         PageGood(published, w), Starts(published, w, n), Exports(w, n)
  PROVE  TurnRest'
<1>1. Counts'
  BY TurnFacts DEF Counts, At, workerVars
<1>2. Record(published')
  BY TurnFacts
<1> QED BY <1>1, <1>2 DEF TurnRest

LEMMA TimerGood ==
  ASSUME NEW p, NEW u, PageGood(p, u), NEW w \in Pages, SameButTimer(u, w)
  PROVE  /\ PageGood(p, w) /\ Seen(w) = Seen(u) /\ w.outcome = u.outcome /\ w.state = u.state
         /\ \A n : Starts(p, u, n) => Starts(p, w, n)
         /\ \A n : Exports(u, n) => Exports(w, n)
<1>1. OnlyAnnounces(u, w) /\ w.announced = u.announced
  BY DEF SameButTimer
<1>2. /\ View(p, w) /\ Panel(p, w) /\ Turn(p, w) /\ Seen(w) = Seen(u)
      /\ Unsettled(w) <=> Unsettled(u)
  BY <1>1, PanelSame DEF PageGood
<1>3. Announced(p, w)
  BY <1>1, <1>2 DEF PageGood, Announced
<1>4. /\ w.sequence = u.sequence /\ w.state = u.state /\ w.exportBusy = u.exportBusy
      /\ w.outcome = u.outcome
  BY <1>1 DEF OnlyAnnounces
<1>5. \A n : Starts(p, u, n) => Starts(p, w, n)
  BY <1>2, <1>4, StartsPage
<1>6. \A n : Exports(u, n) => Exports(w, n)
  BY <1>4, ExportsPage
<1> QED BY <1>2, <1>3, <1>4, <1>5, <1>6 DEF PageGood

LEMMA ReconcileGood ==
  ASSUME TurnInv, published' = published, UNCHANGED <<export_revision, workerVars>>,
         NEW u, NEW others, Reconcile(u, others),
         PageGood(published, u), Starts(published, u, others), Exports(u, others),
         NewsStep(ui, u), Seen(u) >= Seen(ui)
  PROVE  StepGood
<1>1. u \in Pages
  BY DEF PageGood
<1>2. PICK w : w = ui'
  OBVIOUS
<1>3. PICK m \in Messages : m.kind = "status" /\ m.stage = "sent" /\ net' = others \cup {m}
  BY <1>1, ReconcileOf
<1>4. w \in Pages /\ SameButTimer(u, w)
  BY <1>1, <1>2, ReconcileOf
<1>5. /\ PageGood(published, w) /\ Starts(published, w, others) /\ Exports(w, others)
      /\ Seen(w) = Seen(u) /\ w.outcome = u.outcome /\ w.state = u.state
  BY <1>4, TimerGood
<1>6. Starts(published, w, net') /\ Exports(w, net')
  BY <1>3, <1>5, StartsOther, ExportsOther
<1>7. NewsStep(ui, w)
  BY <1>5 DEF NewsStep
<1> QED BY <1>2, <1>5, <1>6, <1>7, PageStep DEF StepGood

\* The panel was changed by a click, an answer or a failure, the run client's part was not.
LEMMA PanelChanged ==
  ASSUME NEW p, Record(p), NEW u, PageGood(p, u), NEW w \in Pages, SameRun(u, w),
         w.runStarting = u.runStarting, w.deferred = u.deferred,
         w.lastExport >= u.lastExport, w.exportBusy => w.outcome.kind = "saving",
         w.outcome.kind = "unknown" =>
           w.outcome.run = Base(u).run_id /\ w.manualUnconfirmed
  PROVE  PageGood(p, w) /\ Seen(w) = Seen(u)
         /\ \A n : Starts(p, u, n) => Starts(p, w, n)
<1>0. u \in Pages /\ View(p, u) /\ Turn(p, u) /\ Announced(p, u) /\ Panel(p, u)
  BY DEF PageGood
<1>1. Seen(w) = Seen(u) /\ Base(w) = Base(u) /\ (Unsettled(w) <=> Unsettled(u))
  BY DEF SameRun, Seen, Base, Unsettled
<1>2. View(p, w) /\ Turn(p, w) /\ Announced(p, w)
  BY <1>0, <1>1 DEF SameRun, View, Turn, Announced
<1>3. w.lastExport >= Base(w).export_barrier
  <2>1. u.lastExport >= Base(u).export_barrier
    BY <1>0 DEF Panel
  <2> QED BY <1>0, <1>1, <2>1, PageNumbers, SeenNumbers DEF Record
<1>4. FromPast(p, w, w.deferred)
  BY <1>0, <1>1 DEF Panel, FromPast
<1>5. w.outcome.kind = "unknown" => w.outcome.run <= Base(w).run_id
  BY <1>0, <1>1, SeenNumbers DEF Record
<1>6. Panel(p, w)
  BY <1>0, <1>1, <1>3, <1>4, <1>5 DEF Panel
<1>7. \A n : Starts(p, u, n) => Starts(p, w, n)
  BY <1>1, StartsPage DEF SameRun
<1> QED BY <1>1, <1>2, <1>6, <1>7 DEF PageGood

\* An outcome is offered to the panel.
LEMMA OfferGood ==
  ASSUME NEW p, Record(p), NEW u, PageGood(p, u), NEW w \in Pages, NEW x \in Outcomes,
         FromPast(p, u, x), Offered(u, w, x)
  PROVE  /\ PageGood(p, w) /\ PanelNews(u, w) /\ Seen(w) = Seen(u)
         /\ w.exportBusy = u.exportBusy /\ SameRun(u, w)
         /\ \A n : Starts(p, u, n) => Starts(p, w, n)
<1>0. u \in Pages /\ View(p, u) /\ Turn(p, u) /\ Announced(p, u) /\ Panel(p, u)
  BY DEF PageGood
<1>2. View(p, w) /\ Panel(p, w) /\ PanelNews(u, w) /\ SameRun(u, w)
      /\ w.exportBusy = u.exportBusy
  BY <1>0, OfferKeeps
<1>3. Seen(w) = Seen(u) /\ (Unsettled(w) <=> Unsettled(u))
  BY <1>2 DEF SameRun, Seen, Unsettled
<1>4. Turn(p, w) /\ Announced(p, w)
  BY <1>0, <1>2, <1>3 DEF SameRun, Turn, Announced
<1>5. \A n : Starts(p, u, n) => Starts(p, w, n)
  BY <1>2, <1>3, StartsPage DEF SameRun
<1> QED BY <1>2, <1>3, <1>4, <1>5 DEF PageGood

\* A deferred result is looked at.
LEMMA FlushGood ==
  ASSUME NEW p, Record(p), NEW u, PageGood(p, u), NEW w, w = flushAutomaticExport(u)
  PROVE  /\ PageGood(p, w) /\ PanelNews(u, w) /\ Seen(w) = Seen(u)
         /\ w.exportBusy = u.exportBusy /\ SameRun(u, w)
         /\ \A n : Starts(p, u, n) => Starts(p, w, n)
<1>1. u \in Pages /\ Panel(p, u)
  BY DEF PageGood
<1>2. w \in Pages /\ Offered(u, w, u.deferred) /\ u.deferred \in Outcomes
      /\ FromPast(p, u, u.deferred)
  BY <1>1, FlushOf, PageNumbers DEF Panel
<1> QED BY <1>2, OfferGood

LEMMA NewsAreNews ==
  ASSUME NEW u, NEW w, PanelNews(u, w)
  PROVE  NewsStep(u, w)
  BY DEF PanelNews, NewsStep

-----------------------------------------------------------------------------
(* Clicks *)

LEMMA StopClickGood ==
  ASSUME TurnInv, stopProcessing
  PROVE  StepGood
<1>1. PICK q : q = Request("stop", ui.state.run_id)
  OBVIOUS
<1>2. PICK m : m = [q EXCEPT !.number = used.stops]
  OBVIOUS
<1>3. q \in Messages /\ q.kind = "stop"
  BY <1>1, RequestOf, TurnFacts, PageNumbers DEF Kinds
<1>4. m.kind = "stop"
  BY <1>2, <1>3 DEF Messages
<1>5. /\ published' = published /\ UNCHANGED <<export_revision, workerVars>>
      /\ ui' = ui /\ net' = net \cup {m}
  BY <1>1, <1>2 DEF stopProcessing, serverVars
<1>6. Starts(published, ui, net \cup {m}) /\ Exports(ui, net \cup {m})
  BY <1>4, TurnFacts, StartsOther, ExportsOther
<1>7. TurnRest'
  BY <1>5, <1>6, TurnFacts, PageStep
<1> QED BY <1>5, <1>7, TurnFacts DEF StepGood, NewsStep

LEMMA ExportClickGood ==
  ASSUME TurnInv, exportDatabase
  PROVE  StepGood
<1>1. PICK w : w = ui'
  OBVIOUS
<1>2. /\ w \in Pages /\ SameRun(ui, w) /\ w.exportBusy = TRUE /\ w.outcome.kind = "saving"
      /\ w.runStarting = ui.runStarting /\ w.lastExport = ui.lastExport
      /\ w.deferred = ui.deferred /\ w.manualUnconfirmed = ui.manualUnconfirmed
  <2>1. w = [ui EXCEPT !.exportBusy = TRUE,
                       !.outcome = [kind |-> "saving", number |-> 0, run |-> NoRun]]
    BY <1>1 DEF exportDatabase
  <2> QED BY <2>1, ExportClickOf, TurnFacts
<1>3. w.lastExport >= ui.lastExport
  BY <1>2, TurnFacts, PageNumbers
<1>4. PICK m : m = Request("export", used.exports + 1)
  OBVIOUS
<1>5. m.kind = "export"
  BY <1>4 DEF Request
<1>6. /\ published' = published /\ UNCHANGED <<export_revision, workerVars>>
      /\ net' = net \cup {m}
  BY <1>4 DEF exportDatabase, serverVars
<1>7. PageGood(published, w) /\ Seen(w) = Seen(ui) /\ Starts(published, w, net)
  BY <1>2, <1>3, TurnFacts, PanelChanged
<1>8. Starts(published, w, net \cup {m})
  BY <1>5, <1>7, StartsOther
<1>9. Exports(w, net \cup {m})
  <2>1. \A r \in net : ~(r.kind = "export" /\ r.heard)
    BY TurnFacts DEF exportDatabase, Exports
  <2> QED BY <1>2, <2>1 DEF Exports
<1>10. TurnRest'
  BY <1>1, <1>6, <1>7, <1>8, <1>9, PageStep
<1>11. Seen(w) >= Seen(ui)
  BY <1>7, TurnFacts
<1> QED BY <1>1, <1>2, <1>10, <1>11 DEF StepGood, NewsStep

LEMMA StartClickGood ==
  ASSUME TurnInv, NEW id \in Runs, startProcessing(id)
  PROVE  StepGood
<1>0. /\ id \in Nat /\ id = ui.sequence + 1 /\ ~runActive(ui)
      /\ ui.sequence \in Nat
  BY RunsAssumption, TurnFacts DEF startProcessing
<1>1. PICK w : w = Starting(ui, id)
  OBVIOUS
<1>2. PICK m : m = Request("start", id)
  OBVIOUS
<1>3. /\ published' = published /\ UNCHANGED <<export_revision, workerVars>>
      /\ ui' = w /\ net' = net \cup {m}
  BY <1>1, <1>2 DEF startProcessing, Starting, serverVars
<1>4. /\ w \in Pages /\ w.sequence = id /\ w.pending = id /\ w.previous = ui.state
      /\ w.state.run_id = id /\ w.state.phase = "starting"
      /\ w.state.revision = ui.state.revision /\ w.observed = ui.observed
      /\ w.runStarting = TRUE /\ w.announced = ui.announced
      /\ w.exportBusy = ui.exportBusy /\ w.lastExport = ui.lastExport
      /\ w.deferred = ui.deferred /\ w.manualUnconfirmed = ui.manualUnconfirmed
      /\ w.outcome = ui.outcome
  <2>1. ui \in Pages
    BY TurnFacts
  <2>2. id \in Nat
    BY <1>0
  <2>3. w \in Pages /\ BeginsToWait(ui, w, id)
    BY <1>1, <2>1, <2>2, StartingOf
  <2> QED BY <2>3 DEF BeginsToWait
<1>5. /\ m \in Messages /\ m.kind = "start" /\ m.id = id /\ m.stage = "sent" /\ m.heard
  BY <1>0, <1>2, RequestOf DEF Kinds
<1>6. ~Unsettled(ui) /\ ~active(ui.state.phase)
  BY <1>0 DEF runActive, active, Unsettled
<1>7. Seen(w) = Seen(ui) /\ Unsettled(w) /\ Base(w) = Base(ui) /\ Base(ui) = ui.state
  BY <1>4, <1>6 DEF Seen, Unsettled, Base
<1>8. View(published, w)
  BY <1>4, <1>6, <1>7, TurnFacts DEF View
<1>9. Turn(published, w)
  <2>1. /\ run_id \in Nat /\ run_id <= ui.sequence /\ run_id = published[Len(published)].run_id
    BY TurnFacts
  <2>2. published[Len(published)].run_id <= w.sequence
    BY <1>0, <1>4, <2>1
  <2>3. \A i \in Seen(ui)..Len(published) : published[i].run_id = ui.state.run_id
    BY <1>6, TurnFacts DEF Turn
  <2>4. w.previous.run_id < w.sequence
    <3>1. Len(published) \in Seen(ui)..Len(published)
      BY TurnFacts, SeenNumbers, RecordNumbers
    <3>2. ui.state.run_id = run_id
      BY <2>1, <2>3, <3>1
    <3> QED BY <1>0, <1>4, <2>1, <3>2
  <2> QED BY <1>4, <1>7, <2>2, <2>3, <2>4 DEF Turn
<1>10. Announced(published, w)
  BY <1>4, <1>7, TurnFacts DEF Announced, PageGood
<1>11. Panel(published, w)
  <2>1. FromPast(published, w, w.deferred)
    BY <1>4, <1>7, TurnFacts DEF Panel, FromPast
  <2> QED BY <1>4, <1>7, <2>1, TurnFacts DEF Panel
<1>12. PageGood(published, w)
  BY <1>4, <1>8, <1>9, <1>10, <1>11 DEF PageGood
<1>13. \A o \in net : o.kind = "start" => o.id <= ui.sequence /\ o.stage # "sent" /\ o.id \in Nat
  BY <1>6, TurnFacts, MessageFields DEF Starts, StartOK
<1>14. \A o \in net : o.kind = "start" => o.id # id
  BY <1>0, <1>13
<1>15. Starts(published, w, net)
  <2> SUFFICES ASSUME NEW r \in net, r.kind = "start" PROVE StartOK(published, w, net, r)
    BY DEF Starts
  <2>1. r.id <= w.sequence /\ r.id # w.sequence
    BY <1>0, <1>4, <1>13, <1>14
  <2>2. StartOK(published, ui, net, r)
    BY TurnFacts DEF Starts
  <2> QED BY <1>4, <1>13, <2>1, <2>2 DEF StartOK
<1>16. StartOK(published, w, {m}, m)
  <2>1. published[Len(published)].run_id # m.id
    BY <1>0, <1>5, TurnFacts
  <2>2. m.id <= w.sequence
    BY <1>0, <1>4, <1>5
  <2> QED BY <1>4, <1>5, <1>7, <2>1, <2>2 DEF StartOK
<1>17. Starts(published, w, net \cup {m})
  BY <1>5, <1>14, <1>15, <1>16, StartsAdd
<1>18. Exports(w, net \cup {m})
  BY <1>4, <1>5, TurnFacts, ExportsPage, ExportsOther
<1>19. TurnRest'
  BY <1>3, <1>12, <1>17, <1>18, PageStep
<1>20. Seen(w) >= Seen(ui)
  BY <1>7, TurnFacts
<1> QED BY <1>3, <1>4, <1>19, <1>20 DEF StepGood, NewsStep

-----------------------------------------------------------------------------
(* The server's steps *)

\* The controller moves and the page does not.
LEMMA ServerTurn ==
  ASSUME TurnInv, IInv', InTurn,
         UNCHANGED run_id \/ (run_id' = ui.sequence /\ Unsettled(ui))
  PROVE  /\ Record(published') /\ Counts' /\ PageGood(published', ui)
         /\ published'[Len(published')].run_id = run_id'
<1>1. Record(published') /\ Counts' /\ ServerSafe' /\ Extends(published, published')
      /\ (Silent \/ Len(published') = Len(published) + 1)
  BY RecordMoves, ServerChronicle, TurnFacts DEF ServerSafe, InTurn
<1>2. published'[Len(published')].run_id = run_id'
  <2>1. published'[Len(published')] = Snapshot'
    BY <1>1 DEF ServerSafe, Linked
  <2> QED BY <2>1 DEF Snapshot
<1>3. PICK p, q, u : p = published /\ q = published' /\ u = ui
  OBVIOUS
<1>4. \/ q = p
      \/ /\ Len(q) = Len(p) + 1
         /\ \/ q[Len(q)].run_id = p[Len(p)].run_id
            \/ q[Len(q)].run_id = u.sequence /\ Unsettled(u)
  <2>1. run_id = published[Len(published)].run_id
    BY TurnFacts
  <2> QED BY <1>1, <1>2, <1>3, <2>1 DEF Silent
<1>5. Record(p) /\ Record(q) /\ Extends(p, q) /\ PageGood(p, u)
  BY <1>1, <1>3, TurnFacts
<1>6. PageGood(q, u)
  BY <1>4, <1>5, PageExtends
<1> QED BY <1>1, <1>2, <1>3, <1>6

LEMMA ServerStepGood ==
  ASSUME TurnInv, IInv', InTurn, UNCHANGED run_id, ui' = ui,
         NEW n, n = net', Starts(published, ui, n), Exports(ui, n)
  PROVE  StepGood
<1>1. /\ Record(published') /\ Counts' /\ PageGood(published', ui)
      /\ published'[Len(published')].run_id = run_id'
  BY ServerTurn
<1>2. Starts(published', ui, n)
  <2>1. published'[Len(published')].run_id = published[Len(published)].run_id
    BY <1>1, TurnFacts
  <2> QED BY <2>1, StartsExtend
<1>3. TurnRest'
  BY <1>1, <1>2 DEF TurnRest
<1> QED BY <1>3, TurnFacts DEF StepGood, NewsStep

LEMMA SilentInTurn ==
  ASSUME ServerAction, Silent \/ GoesOn, run_id \in Nat
  PROVE  InTurn
<1>1. \A id \in Runs : ~Begins(id)
  <2> SUFFICES ASSUME NEW id \in Runs, Begins(id) PROVE FALSE
    OBVIOUS
  <2>1. id # run_id /\ run_id' = id
    BY DEF Begins
  <2>2. run_id' = run_id
    BY DEF Silent, GoesOn
  <2> QED BY <2>1, <2>2
<1> QED BY <1>1 DEF InTurn, ServerMoves

LEMMA WorkGood ==
  ASSUME TurnInv, NEW id \in Runs, Work(id)
  PROVE  StepGood
<1>1. IInv' /\ (Silent \/ GoesOn) /\ UNCHANGED run_id /\ ui' = ui /\ net' = net
  BY WorkerMoves, TurnFacts DEF Work, clientVars
<1>2. InTurn
  BY <1>1, SilentInTurn, TurnFacts DEF Work, ServerAction
<1> QED BY <1>1, <1>2, TurnFacts, ServerStepGood

\* The answer to r, if somebody waits for it.
LEMMA AnswerCases ==
  ASSUME NEW r \in Messages, NEW ok \in BOOLEAN, NEW s \in Publications, NEW n \in Nat,
         Answer(r, ok, s, n)
  PROVE  \/ net' = net \ {r}
         \/ /\ r.heard
            /\ \E m : AnsweredBy(r, m, ok, s, n) /\ net' = (net \ {r}) \cup {m}
<1>1. PICK m : /\ AnsweredBy(r, m, ok, s, n)
               /\ m = [r EXCEPT !.stage = "answered", !.ok = ok, !.snapshot = s, !.number = n]
  BY AnswerOf
<1> QED BY <1>1 DEF Answer

LEMMA OtherAnswer ==
  ASSUME TurnInv, NEW r \in net, r.kind # "start", NEW ok \in BOOLEAN, NEW s \in Publications,
         NEW n \in Nat, Answer(r, ok, s, n)
  PROVE  Starts(published, ui, net') /\ Exports(ui, net')
<1>1. Starts(published, ui, net \ {r}) /\ Exports(ui, net \ {r}) /\ r \in Messages
  BY TurnFacts, StartsLess, ExportsLess
<1>2. CASE net' = net \ {r}
  BY <1>1, <1>2
<1>3. ASSUME r.heard, NEW m, AnsweredBy(r, m, ok, s, n), net' = (net \ {r}) \cup {m}
      PROVE  Starts(published, ui, net') /\ Exports(ui, net')
  <2>1. m.kind = r.kind /\ m.heard = r.heard
    BY <1>3 DEF AnsweredBy
  <2>2. Starts(published, ui, (net \ {r}) \cup {m})
    BY <1>1, <2>1, StartsOther
  <2>3. CASE r.kind = "export"
    BY <1>3, <2>1, <2>2, <2>3, TurnFacts, ExportsReplace
  <2>4. CASE r.kind # "export"
    BY <1>1, <1>3, <2>1, <2>2, <2>4, ExportsOther
  <2> QED BY <2>3, <2>4
<1> QED BY <1>1, <1>2, <1>3, AnswerCases

LEMMA HandleStartGood ==
  ASSUME TurnInv, SafeInv', NEW r \in net, r.kind = "start", r.stage = "sent", HandleStart(r),
         ui' = ui
  PROVE  StepGood
<1>0. r \in Messages /\ r.id \in Runs /\ r.id \in Nat
  BY TurnFacts, RunsAssumption DEF ToldNet, Proper
<1>1. StartOK(published, ui, net, r)
  BY TurnFacts DEF Starts
<1>2. r.id = ui.sequence /\ Unsettled(ui) /\ run_id # r.id
  BY <1>1, TurnFacts DEF StartOK
<1>3. run_id < r.id
  BY <1>0, <1>2, TurnFacts
<1>4. Starts(published, ui, net \ {r}) /\ Exports(ui, net \ {r})
      /\ \A o \in net \ {r} : o.kind = "start" => o.id # r.id
  BY TurnFacts, StartsLess, ExportsLess, StartsUnique
<1>5. r.heard => ui.state.phase # "unknown"
  BY <1>1, <1>2 DEF StartOK
<1>6. ASSUME NEW ok \in BOOLEAN, NEW s \in Publications, Answer(r, ok, s, 0),
             NEW q, q = published', ok => s.run_id = r.id, ~ok => q[Len(q)].run_id # r.id,
             Starts(q, ui, net \ {r})
      PROVE  Starts(q, ui, net') /\ Exports(ui, net')
  <2>1. CASE net' = net \ {r}
    BY <1>4, <1>6, <2>1
  <2>2. ASSUME r.heard, NEW m, AnsweredBy(r, m, ok, s, 0), net' = (net \ {r}) \cup {m}
        PROVE  Starts(q, ui, net') /\ Exports(ui, net')
    <3>1. m.kind = "start" /\ m.id = r.id /\ m.stage = "answered" /\ m.ok = ok /\ m.snapshot = s
      BY <2>2 DEF AnsweredBy
    <3>2. m.id <= ui.sequence
      BY <1>0, <1>2, <3>1
    <3>3. StartOK(q, ui, {m}, m)
      BY <1>5, <1>6, <2>2, <3>1, <3>2 DEF StartOK
    <3>4. Starts(q, ui, (net \ {r}) \cup {m})
      BY <1>4, <1>6, <3>1, <3>3, StartsAdd
    <3>5. Exports(ui, (net \ {r}) \cup {m})
      BY <1>4, <3>1, ExportsOther
    <3> QED BY <2>2, <3>4, <3>5
  <2> QED BY <1>0, <1>6, <2>1, <2>2, AnswerCases
<1>7. CASE StartAccepted(r.id) /\ Answer(r, TRUE, Snapshot', 0)
  <2>1. IInv' /\ Begins(r.id) /\ run_id' = r.id
    BY <1>0, <1>7, StartBegins, TurnFacts DEF Begins
  <2>2. InTurn
    <3>1. \A id \in Runs : Begins(id) => run_id < id
      BY <1>3, <2>1 DEF Begins
    <3> QED BY <1>0, <1>7, <2>1, <3>1 DEF InTurn, ServerAction, ServerMoves
  <2>3. /\ Record(published') /\ Counts' /\ PageGood(published', ui)
        /\ published'[Len(published')].run_id = run_id'
    BY <1>2, <2>1, <2>2, ServerTurn
  <2>4. PICK q : q = published'
    OBVIOUS
  <2>5. PICK s : s = Snapshot'
    OBVIOUS
  <2>6. s \in Publications /\ s.run_id = r.id
    <3>1. Chronicle(published') /\ published'[Len(published')] = Snapshot'
      BY DEF SafeInv, Linked
    <3>2. Snapshot' \in Publications
      BY <3>1, LastIsKnown
    <3> QED BY <2>1, <2>5, <3>2 DEF Snapshot
  <2>7. Starts(q, ui, net \ {r})
    BY <1>4, <2>1, <2>3, <2>4, StartsExtend
  <2>8. Starts(q, ui, net') /\ Exports(ui, net')
    <3>1. Answer(r, TRUE, s, 0)
      BY <1>7, <2>5
    <3> QED BY <1>6, <2>4, <2>6, <2>7, <3>1
  <2>9. TurnRest'
    BY <2>3, <2>4, <2>8 DEF TurnRest
  <2> QED BY <2>9, TurnFacts DEF StepGood, NewsStep
<1>8. CASE StartRepeated(r.id)
  BY <1>2, <1>8 DEF StartRepeated
<1>9. CASE StartRefused(r.id) /\ Answer(r, FALSE, Snapshot, 0)
  <2>1. UNCHANGED serverVars
    BY <1>9 DEF StartRefused
  <2>2. /\ published' = published /\ UNCHANGED <<export_revision, workerVars>>
    BY <2>1 DEF serverVars
  <2>3. Snapshot \in Publications /\ published[Len(published)].run_id # r.id
    BY <1>2, TurnFacts, LastIsSnapshot
  <2>4. Starts(published, ui, net') /\ Exports(ui, net')
    BY <1>4, <1>6, <1>9, <2>2, <2>3
  <2>5. TurnRest'
    BY <2>2, <2>4, PageStep, TurnFacts
  <2> QED BY <2>5, TurnFacts DEF StepGood, NewsStep
<1> QED BY <1>7, <1>8, <1>9 DEF HandleStart

LEMMA HandleGood ==
  ASSUME TurnInv, SafeInv', NEW r \in net, Handle(r)
  PROVE  StepGood
<1>0. r \in Messages /\ r.id \in Nat /\ ui' = ui /\ r.stage = "sent" /\ run_id \in Nat
  BY TurnFacts, MessageFields DEF Handle
<1>1. CASE r.kind = "start" /\ HandleStart(r)
  BY <1>0, <1>1, HandleStartGood
<1>2. CASE r.kind = "stop" /\ HandleStop(r)
  <2>1. StopAccepted(r.id) \/ StopRefused(r.id)
    BY <1>2 DEF HandleStop
  <2>2. IInv' /\ (Silent \/ GoesOn) /\ UNCHANGED run_id
    BY <2>1, StopMoves, TurnFacts
  <2>3. InTurn
    BY <1>0, <2>1, <2>2, SilentInTurn DEF ServerAction
  <2>4. PICK ok \in BOOLEAN, s \in Publications : Answer(r, ok, s, 0)
    <3>1. Snapshot' \in Publications
      <4>1. Chronicle(published') /\ published'[Len(published')] = Snapshot'
        BY DEF SafeInv, Linked
      <4> QED BY <4>1, LastIsKnown
    <3>2. Snapshot \in Publications
      BY TurnFacts, LastIsSnapshot
    <3> QED BY <1>2, <3>1, <3>2 DEF HandleStop
  <2>5. Starts(published, ui, net') /\ Exports(ui, net')
    BY <1>2, <2>4, OtherAnswer
  <2> QED BY <1>0, <2>2, <2>3, <2>5, ServerStepGood
<1>3. CASE r.kind = "status" /\ GetStatus /\ Answer(r, TRUE, Snapshot, 0)
  <2>1. published' = published /\ UNCHANGED <<export_revision, workerVars>>
    BY <1>3 DEF GetStatus, serverVars
  <2>2. Snapshot \in Publications
    BY TurnFacts, LastIsSnapshot
  <2>3. Starts(published, ui, net') /\ Exports(ui, net')
    BY <1>3, <2>2, OtherAnswer
  <2>4. TurnRest'
    BY <1>0, <2>1, <2>3, PageStep, TurnFacts
  <2> QED BY <1>0, <2>4, TurnFacts DEF StepGood, NewsStep
<1>4. CASE r.kind = "export" /\ HandleExport(r)
  <2>1. ExportBegins \/ ExportRefused
    BY <1>4 DEF HandleExport
  <2>2. IInv' /\ Silent /\ UNCHANGED run_id
    BY <2>1, ExportIsSilent, TurnFacts DEF Silent
  <2>3. InTurn
    BY <1>0, <2>1, <2>2, SilentInTurn DEF ServerAction
  <2>4. Starts(published, ui, net') /\ Exports(ui, net')
    <3>1. CASE Answer(r, FALSE, NoPhase, export_revision + 1)
      <4>1. export_revision + 1 \in Nat
        BY TurnFacts DEF IInv, Counters
      <4> QED BY <1>4, <3>1, <4>1, OtherAnswer, NothingPublished
    <3>2. CASE net' = (net \ {r}) \cup {[r EXCEPT !.stage = "exporting"]}
      <4>1. PICK m : m = [r EXCEPT !.stage = "exporting"]
        OBVIOUS
      <4>2. m.kind = r.kind /\ m.heard = r.heard
        BY <1>0, <4>1 DEF Messages
      <4>3. Starts(published, ui, (net \ {r}) \cup {m})
        BY <1>4, <4>2, TurnFacts, StartsLess, StartsOther
      <4>4. Exports(ui, (net \ {r}) \cup {m})
        BY <1>4, <4>2, TurnFacts, ExportsReplace
      <4> QED BY <3>2, <4>1, <4>3, <4>4
    <3> QED BY <1>4, <3>1, <3>2 DEF HandleExport
  <2> QED BY <1>0, <2>2, <2>3, <2>4, ServerStepGood
<1> QED BY <1>1, <1>2, <1>3, <1>4 DEF Handle

LEMMA FinishExportGood ==
  ASSUME TurnInv, SafeInv', NEW r \in net, FinishExport(r)
  PROVE  StepGood
<1>1. IInv' /\ Silent /\ UNCHANGED run_id /\ ui' = ui /\ run_id \in Nat
  BY ExportIsSilent, TurnFacts DEF Silent, FinishExport
<1>2. InTurn
  BY <1>1, SilentInTurn DEF ServerAction, FinishExport
<1>3. r.kind = "export"
  BY TurnFacts DEF ToldNet, Proper, FinishExport
<1>4. export_revision + 1 \in Nat
  BY TurnFacts DEF IInv, Counters
<1>5. Starts(published, ui, net') /\ Exports(ui, net')
  BY <1>3, <1>4, OtherAnswer, NothingPublished DEF FinishExport
<1> QED BY <1>1, <1>2, <1>5, ServerStepGood


-----------------------------------------------------------------------------
(* The page takes a reply *)

\* A start that was accepted is over for the page once it has taken the answer.
LEMMA AcceptedSettles ==
  ASSUME NEW p, Record(p), NEW u, PageGood(p, u), NEW s, Known(p, s),
         Unsettled(u) => s.run_id = u.sequence, NEW w, w = acceptRunState(u, s)
  PROVE  ~Unsettled(w)
<1>0. u \in Pages /\ View(p, u) /\ Turn(p, u)
  BY DEF PageGood
<1>1. CASE ~Unsettled(u)
  BY <1>1, AcceptKeeps
<1>2. CASE Unsettled(u)
  <2>1. /\ u.pending = u.sequence /\ u.previous.run_id < u.sequence
        /\ Base(u) = u.previous /\ s.run_id = u.sequence
    BY <1>0, <1>2 DEF Turn, Base
  <2>2. PICK k \in 1..Len(p) : k = s.revision + 1
    BY DEF Known
  <2>3. s = p[k] /\ s.revision \in Nat
    BY <2>2, KnownIsPublication DEF Record, Known
  <2>4. Seen(u) \in 1..Len(p) /\ u.previous = p[Seen(u)] /\ Len(p) \in Nat
    BY <1>0, <2>1, SeenNumbers, RecordNumbers DEF Record
  <2>5. ~(k <= Seen(u))
    <3> SUFFICES ASSUME k <= Seen(u) PROVE FALSE
      OBVIOUS
    <3>1. p[k].run_id <= p[Seen(u)].run_id
      BY <2>4, RunsRise DEF Record
    <3> QED BY <1>0, <2>1, <2>3, <2>4, <3>1, PageNumbers
  <2>6. s.revision > u.observed
    <3>1. u.observed \in Nat \cup {-1}
      BY <1>0, PageNumbers
    <3> QED BY <2>2, <2>3, <2>4, <2>5, <3>1 DEF Seen
  <2>7. IsNews(u, s)
    BY <2>1, <2>6 DEF IsNews
  <2> QED BY <2>7, AcceptKeeps
<1> QED BY <1>1, <1>2

\* A refused start brings back the state before it, which is the latest still.
LEMMA RefusedGood ==
  ASSUME NEW p, Record(p), NEW u, PageGood(p, u), u.state.phase # "unknown",
         p[Len(p)].run_id # u.sequence, NEW w, w = BeforeStart(u, u.sequence)
  PROVE  /\ PageGood(p, w) /\ ~Unsettled(w) /\ Seen(w) = Seen(u)
         /\ w.sequence = u.sequence /\ w.exportBusy = u.exportBusy /\ w.outcome = u.outcome
<1>0. u \in Pages /\ View(p, u) /\ Turn(p, u) /\ Announced(p, u) /\ Panel(p, u)
  BY DEF PageGood
<1>1. /\ w \in Pages /\ w.pending = NoRun /\ w.observed = u.observed
      /\ w.previous = u.previous /\ w.sequence = u.sequence /\ SamePanel(u, w)
      /\ w.state = IF u.state.run_id = u.sequence /\ u.state.phase = "starting"
                   THEN u.previous ELSE u.state
  BY <1>0, BeforeStartOf
<1>2. Seen(w) = Seen(u) /\ Seen(u) \in 1..Len(p) /\ Len(p) \in Seen(u)..Len(p)
      /\ Base(u) = p[Seen(u)] /\ Len(p) \in 1..Len(p)
  BY <1>0, <1>1, SeenNumbers, RecordNumbers DEF Record, Seen
<1>3. w.state = Base(u) /\ ~Unsettled(w)
  <2>1. CASE Unsettled(u)
    <3>1. u.state.phase = "starting" /\ u.state.run_id = u.sequence
      BY <1>0, <2>1 DEF Unsettled, Turn
    <3>2. w.state = Base(u)
      BY <1>1, <2>1, <3>1 DEF Base
    <3>3. Base(u) \in Publications
      BY <1>2, RecordNumbers DEF Record
    <3> QED BY <3>2, <3>3, PublicationsAreViews DEF Unsettled
  <2>2. CASE ~Unsettled(u)
    <3>1. u.state.phase # "starting"
      BY <2>2 DEF Unsettled
    <3> QED BY <1>1, <2>2, <3>1 DEF Base, Unsettled
  <2> QED BY <2>1, <2>2
<1>4. Base(w) = Base(u)
  BY <1>3 DEF Base
<1>5. View(p, w)
  BY <1>2, <1>3, <1>4 DEF View
<1>6. Turn(p, w)
  <2>1. \A i \in Seen(u)..Len(p) : p[i].run_id = Base(u).run_id
    <3>1. CASE ~Unsettled(u)
      BY <1>0, <3>1 DEF Turn, Base
    <3>2. CASE Unsettled(u)
      <4>1. /\ Base(u) = u.previous /\ u.previous.run_id < u.sequence
            /\ \A i \in Seen(u)..Len(p) : p[i].run_id \in {u.previous.run_id, u.sequence}
        BY <1>0, <3>2 DEF Turn, Base
      <4>2. p[Len(p)].run_id = u.previous.run_id
        BY <1>2, <4>1
      <4> SUFFICES ASSUME NEW i \in Seen(u)..Len(p) PROVE p[i].run_id = u.previous.run_id
        BY <4>1
      <4>3. i \in 1..Len(p) /\ i <= Len(p)
        BY <1>2
      <4>4. p[i].run_id <= p[Len(p)].run_id
        BY <1>2, <4>3, RunsRise DEF Record
      <4>5. p[i].run_id # u.sequence
        BY <1>0, <4>1, <4>2, <4>4, PageNumbers
      <4> QED BY <4>1, <4>5
    <3> QED BY <3>1, <3>2
  <2>2. p[Len(p)].run_id <= w.sequence
    BY <1>0, <1>1 DEF Turn
  <2> QED BY <1>1, <1>2, <1>3, <2>1, <2>2 DEF Turn
<1>7. Announced(p, w)
  BY <1>0, <1>1, <1>2 DEF Announced, SamePanel
<1>8. Panel(p, w)
  <2>1. FromPast(p, w, w.deferred)
    BY <1>0, <1>1, <1>2 DEF Panel, FromPast, SamePanel
  <2> QED BY <1>0, <1>1, <1>3, <1>4, <2>1 DEF Panel, SamePanel
<1> QED BY <1>1, <1>2, <1>3, <1>5, <1>6, <1>7, <1>8 DEF PageGood, SamePanel

\* The end of a start nothing is waited for any more.
LEMMA FinishGood ==
  ASSUME NEW p, Record(p), NEW u, PageGood(p, u), ~Unsettled(u),
         NEW w, w = finishAutomaticExportRun(u, NoBarrier)
  PROVE  /\ PageGood(p, w) /\ PanelNews(u, w) /\ Seen(w) = Seen(u) /\ SameRun(u, w)
         /\ w.exportBusy = u.exportBusy
<1>0. u \in Pages /\ View(p, u) /\ Turn(p, u) /\ Announced(p, u) /\ Panel(p, u)
  BY DEF PageGood
<1>1. PICK v \in Pages : Settles(u, v, NoBarrier) /\ w = flushAutomaticExport(v)
  <2>1. NoBarrier \in Nat
    BY DEF NoBarrier
  <2> QED BY <1>0, <2>1, FinishOf
<1>2. /\ SameRun(u, v) /\ v.exportBusy = u.exportBusy /\ v.outcome = u.outcome
      /\ v.manualUnconfirmed = u.manualUnconfirmed /\ v.deferred = u.deferred
      /\ v.lastExport >= u.lastExport
  BY <1>1 DEF Settles
<1>3. Seen(v) = Seen(u) /\ Base(v) = Base(u) /\ ~Unsettled(v)
  BY <1>2 DEF SameRun, Seen, Base, Unsettled
<1>4. View(p, v) /\ Turn(p, v) /\ Announced(p, v)
  BY <1>0, <1>2, <1>3 DEF SameRun, View, Turn, Announced
<1>5. v.lastExport >= Base(v).export_barrier
  <2>1. u.lastExport >= Base(u).export_barrier
    BY <1>0 DEF Panel
  <2> QED BY <1>0, <1>1, <1>2, <1>3, <2>1, PageNumbers, SeenNumbers DEF Record
<1>6. FromPast(p, v, v.deferred)
  BY <1>0, <1>2, <1>3 DEF Panel, FromPast
<1>7. Panel(p, v)
  BY <1>0, <1>2, <1>3, <1>5, <1>6 DEF Panel
<1>8. PageGood(p, v)
  BY <1>1, <1>4, <1>7 DEF PageGood
<1>9. /\ PageGood(p, w) /\ PanelNews(v, w) /\ Seen(w) = Seen(v)
      /\ w.exportBusy = v.exportBusy /\ SameRun(v, w)
  BY <1>1, <1>8, FlushGood
<1>10. PanelNews(u, w)
  BY <1>2, <1>9 DEF PanelNews
<1> QED BY <1>2, <1>3, <1>9, <1>10 DEF SameRun

LEMMA StartAnsweredGood ==
  ASSUME TurnInv, NEW r \in net, r.kind = "start", r.stage = "answered", StartAnswered(r),
         UNCHANGED serverVars
  PROVE  StepGood
<1>0. /\ published' = published /\ UNCHANGED <<export_revision, workerVars>>
      /\ net' = net \ {r}
  BY DEF StartAnswered, serverVars
<1>1. PICK p, u, w, n : p = published /\ u = ui /\ w = ui' /\ n = net \ {r}
  OBVIOUS
<1>2. /\ Record(p) /\ PageGood(p, u) /\ Starts(p, u, n) /\ Exports(u, n)
      /\ StartOK(p, u, net, r) /\ Known(p, r.snapshot)
      /\ \A o \in n : o.kind = "start" => o.id # r.id
  <2>1. Starts(published, ui, net \ {r}) /\ Exports(ui, net \ {r})
    BY TurnFacts, StartsLess, ExportsLess
  <2>2. \A o \in net \ {r} : o.kind = "start" => o.id # r.id
    BY TurnFacts, StartsUnique
  <2>3. StartOK(published, ui, net, r)
    BY TurnFacts DEF Starts
  <2>4. Known(published, r.snapshot)
    BY TurnFacts DEF ToldNet
  <2> QED BY <1>1, <2>1, <2>2, <2>3, <2>4, TurnFacts
<1>3. CASE r.id # u.sequence
  <2>1. w = u
    BY <1>1, <1>3 DEF StartAnswered
  <2>2. TurnRest'
    BY <1>0, <1>1, <1>2, <2>1, PageStep
  <2> QED BY <1>1, <2>1, <2>2, TurnFacts DEF StepGood, NewsStep
<1>4. CASE r.id = u.sequence
  <2>1. PICK b : b = IF r.ok THEN u ELSE BeforeStart(u, r.id)
    OBVIOUS
  <2>2. PICK a : a = acceptRunState(b, r.snapshot)
    OBVIOUS
  <2>3. w = finishAutomaticExportRun(a, NoBarrier)
    BY <1>1, <1>4, <2>1, <2>2 DEF StartAnswered
  <2>4. /\ PageGood(p, b) /\ Seen(b) = Seen(u) /\ b.sequence = u.sequence
        /\ b.exportBusy = u.exportBusy /\ b.outcome = u.outcome
        /\ Unsettled(b) => r.snapshot.run_id = b.sequence
    <3>1. CASE r.ok
      BY <1>2, <1>4, <2>1, <3>1 DEF StartOK
    <3>2. CASE ~r.ok
      <4>1. u.state.phase # "unknown" /\ p[Len(p)].run_id # u.sequence
        BY <1>2, <1>4, <3>2 DEF StartOK
      <4>2. b = BeforeStart(u, u.sequence)
        BY <1>4, <2>1, <3>2
      <4> QED BY <1>2, <4>1, <4>2, RefusedGood
    <3> QED BY <3>1, <3>2
  <2>5. /\ PageGood(p, a) /\ PanelNews(b, a) /\ Seen(a) >= Seen(b) /\ ~Unsettled(a)
        /\ a.sequence = b.sequence /\ a.exportBusy = b.exportBusy
    BY <1>2, <2>2, <2>4, AcceptKeeps, AcceptedSettles
  <2>6. /\ PageGood(p, w) /\ PanelNews(a, w) /\ Seen(w) = Seen(a) /\ SameRun(a, w)
        /\ w.exportBusy = a.exportBusy
    BY <1>2, <2>3, <2>5, FinishGood
  <2>7. PanelNews(u, w)
    <3>1. PanelNews(b, w)
      BY <2>5, <2>6, NewsAddUp DEF SameRun
    <3> QED BY <2>4, <3>1 DEF PanelNews
  <2>8. Starts(p, w, n)
    <3>1. w.sequence = u.sequence
      BY <2>4, <2>5, <2>6 DEF SameRun
    <3> QED BY <1>2, <1>4, <3>1, StartsOld
  <2>9. Exports(w, n)
    BY <1>2, <2>4, <2>5, <2>6, ExportsPage
  <2>10. TurnRest'
    BY <1>0, <1>1, <2>6, <2>8, <2>9, PageStep
  <2>11. Seen(w) >= Seen(u)
    BY <2>4, <2>5, <2>6
  <2>12. NewsStep(u, w)
    BY <2>7, NewsAreNews
  <2> QED BY <1>1, <2>10, <2>11, <2>12 DEF StepGood
<1> QED BY <1>3, <1>4

\* The panel is free again, and looks at the result that was deferred.
LEMMA FreedGood ==
  ASSUME TurnInv, published' = published, UNCHANGED <<export_revision, workerVars>>,
         NEW r \in net, r.kind = "export", r.heard,
         NEW v \in Pages, Frees(ui, v),
         \/ v.outcome = ui.outcome \/ v.outcome.kind = "manual"
         \/ /\ v.outcome.kind = "unknown" /\ v.outcome.run = Base(ui).run_id
            /\ v.manualUnconfirmed,
         NEW w, w = ui', w = flushAutomaticExport(v),
         NEW n, n = net', n = net \ {r} \/ \E m : Deafened(r, m) /\ n = (net \ {r}) \cup {m}
  PROVE  StepGood
<1>1. ui.exportBusy /\ ui.outcome.kind = "saving"
  BY TurnFacts DEF Exports, Panel
<1>2. PICK p, u : p = published /\ u = ui
  OBVIOUS
<1>3. PageGood(p, v) /\ Seen(v) = Seen(u) /\ \A l : Starts(p, u, l) => Starts(p, v, l)
  <2>1. v.exportBusy => v.outcome.kind = "saving"
    BY DEF Frees
  <2>2. v.outcome.kind = "unknown" => v.outcome.run = Base(u).run_id /\ v.manualUnconfirmed
    BY <1>1, <1>2
  <2> QED BY <1>2, <2>1, <2>2, TurnFacts, PanelChanged DEF Frees
<1>4. /\ PageGood(p, w) /\ PanelNews(v, w) /\ Seen(w) = Seen(v)
      /\ \A l : Starts(p, v, l) => Starts(p, w, l)
  BY <1>2, <1>3, TurnFacts, FlushGood
<1>5. Starts(p, w, net \ {r}) /\ Exports(w, net \ {r})
  <2>1. Starts(p, u, net \ {r})
    BY <1>2, TurnFacts, StartsLess
  <2>2. Exports(w, net \ {r})
    BY TurnFacts, ExportsDone
  <2> QED BY <1>3, <1>4, <2>1, <2>2
<1>6. Starts(p, w, n) /\ Exports(w, n)
  <2>1. CASE n = net \ {r}
    BY <1>5, <2>1
  <2>2. ASSUME NEW m, Deafened(r, m), n = (net \ {r}) \cup {m}
        PROVE  Starts(p, w, n) /\ Exports(w, n)
    <3>1. m.kind = "export" /\ ~m.heard
      BY <2>2 DEF Deafened
    <3> QED BY <1>5, <2>2, <3>1, StartsOther, ExportsOther
  <2> QED BY <2>1, <2>2
<1>7. NewsStep(u, w)
  BY <1>1, <1>2, <1>4 DEF PanelNews, NewsStep
<1>8. TurnRest'
  BY <1>2, <1>4, <1>6, PageStep
<1>9. Seen(w) >= Seen(u)
  BY <1>2, <1>3, <1>4, TurnFacts
<1> QED BY <1>2, <1>7, <1>8, <1>9 DEF StepGood

\* The page takes a snapshot, or leaves it, and goes on as before.
LEMMA ShownGood ==
  ASSUME TurnInv, published' = published, UNCHANGED <<export_revision, workerVars>>,
         NEW s, Known(published, s), NEW a, a = ui \/ a = acceptRunState(ui, s),
         NEW w, w = ui', w = a \/ (w \in Pages /\ SameButTimer(a, w)),
         NEW n, n = net', n \subseteq net
  PROVE  StepGood
<1>1. PICK p, u : p = published /\ u = ui
  OBVIOUS
<1>2. Record(p) /\ PageGood(p, u) /\ Starts(p, u, n) /\ Exports(u, n) /\ Known(p, s)
  BY <1>1, TurnFacts, StartsLess, ExportsLess
<1>3. /\ PageGood(p, a) /\ PanelNews(u, a) /\ Seen(a) >= Seen(u) /\ Starts(p, a, n)
      /\ a.exportBusy = u.exportBusy
  <2>1. CASE a = u
    BY <1>1, <1>2, <2>1, TurnFacts DEF PanelNews
  <2>2. CASE a = acceptRunState(u, s)
    BY <1>2, <2>2, AcceptKeeps, StartsAccept
  <2> QED BY <1>1, <2>1, <2>2
<1>4. Exports(a, n)
  BY <1>2, <1>3, ExportsPage
<1>5. /\ PageGood(p, w) /\ Seen(w) = Seen(a) /\ w.outcome = a.outcome /\ w.state = a.state
      /\ Starts(p, w, n) /\ Exports(w, n)
  <2>1. CASE w = a
    BY <1>3, <1>4, <2>1
  <2>2. CASE w \in Pages /\ SameButTimer(a, w)
    BY <1>3, <1>4, <2>2, TimerGood
  <2> QED BY <2>1, <2>2
<1>6. NewsStep(u, w)
  BY <1>3, <1>5 DEF PanelNews, NewsStep
<1>7. TurnRest'
  BY <1>1, <1>5, PageStep
<1> QED BY <1>1, <1>3, <1>5, <1>6, <1>7 DEF StepGood

LEMMA TakeReplyGood ==
  ASSUME TurnInv, NEW r \in net, TakeReply(r)
  PROVE  StepGood
<1>0. /\ published' = published /\ UNCHANGED <<export_revision, workerVars>>
      /\ r.stage = "answered" /\ r.heard /\ r.number \in Nat
      /\ r.kind # "export" => Known(published, r.snapshot)
      /\ net \ {r} \subseteq net
  BY TurnFacts, MessageFields DEF TakeReply, serverVars, ToldNet
<1>1. CASE r.kind = "start" /\ StartAnswered(r)
  BY <1>0, <1>1, StartAnsweredGood DEF TakeReply
<1>2. CASE r.kind = "stop" /\ StopAnswered(r)
  <2>1. PICK a : a = ui' /\ (a = ui \/ a = acceptRunState(ui, r.snapshot))
    BY <1>2 DEF StopAnswered
  <2>2. net' \subseteq net
    BY <1>0, <1>2 DEF StopAnswered
  <2> QED BY <1>0, <1>2, <2>1, <2>2, ShownGood
<1>3. CASE r.kind = "status" /\ StatusAnswered(r)
  <2>1. PICK a : a = acceptRunState(ui, r.snapshot)
    OBVIOUS
  <2>2. PICK w : w = ui'
    OBVIOUS
  <2>3. w = AskAgainIfUnsure(a) /\ net' \subseteq net
    BY <1>0, <1>3, <2>1, <2>2 DEF StatusAnswered
  <2>4. w \in Pages /\ SameButTimer(a, w)
    <3>1. a \in Pages
      BY <1>0, <1>3, <2>1, AcceptKeepsView, TurnFacts
    <3> QED BY <2>3, <3>1, AskAgainOf
  <2> QED BY <1>0, <1>3, <2>1, <2>2, <2>3, <2>4, ShownGood
<1>4. CASE r.kind = "export" /\ ExportAnswered(r)
  <2>1. PICK told : told = acceptExportOutcome([ui EXCEPT !.manualUnconfirmed = FALSE],
                              [kind |-> "manual", number |-> r.number, run |-> NoRun])
    OBVIOUS
  <2>2. PICK v : v = [told EXCEPT !.exportBusy = FALSE]
    OBVIOUS
  <2>3. v \in Pages /\ Frees(ui, v) /\ (v.outcome = ui.outcome \/ v.outcome.kind = "manual")
    BY <1>0, <2>1, <2>2, TurnFacts, ExportAnsweredOf
  <2>4. ui' = flushAutomaticExport(v) /\ net' = net \ {r}
    BY <1>4, <2>1, <2>2 DEF ExportAnswered
  <2> QED BY <1>0, <1>4, <2>3, <2>4, FreedGood
<1> QED BY <1>1, <1>2, <1>3, <1>4 DEF TakeReply

-----------------------------------------------------------------------------
(* A fetch fails *)

LEMMA StartFailsGood ==
  ASSUME TurnInv, published' = published, UNCHANGED <<export_revision, workerVars>>,
         NEW r \in net, r.kind = "start", r.heard, StartFails(r)
  PROVE  StepGood
<1>0. r \in Messages /\ r.stage # "exporting" /\ StartOK(published, ui, net, r)
  BY TurnFacts DEF ToldNet, Proper, Starts
<1>1. PICK p, u, n, a : p = published /\ u = ui /\ n = net \ {r} /\ a = Abandoned(r)
  OBVIOUS
<1>2. /\ Record(p) /\ PageGood(p, u) /\ Starts(p, u, n) /\ Exports(u, n)
      /\ \A o \in n : o.kind = "start" => o.id # r.id
  <2>1. Starts(published, ui, net \ {r}) /\ Exports(ui, net \ {r})
    BY TurnFacts, StartsLess, ExportsLess
  <2>2. \A o \in net \ {r} : o.kind = "start" => o.id # r.id
    BY TurnFacts, StartsUnique
  <2> QED BY <1>1, <2>1, <2>2, TurnFacts
<1>3. \/ r.stage = "answered" /\ a = n
      \/ r.stage = "sent" /\ \E m : Deafened(r, m) /\ a = n \cup {m}
  BY <1>0, <1>1, AbandonOf, MessageFields
<1>4. r.stage = "sent" => r.id = u.sequence /\ Unsettled(u) /\ p[Len(p)].run_id # r.id
  BY <1>0, <1>1 DEF StartOK
<1>5. CASE r.id # u.sequence
  <2>1. ui' = u /\ net' = n
    BY <1>1, <1>3, <1>4, <1>5 DEF StartFails
  <2>2. TurnRest'
    BY <1>1, <1>2, <2>1, PageStep
  <2> QED BY <1>1, <2>1, <2>2, TurnFacts DEF StepGood, NewsStep
<1>6. CASE r.id = u.sequence
  <2>1. PICK w : w = [u EXCEPT !.state.phase =
                        IF u.state.run_id = r.id /\ @ = "starting" THEN "unknown" ELSE @]
    OBVIOUS
  <2>2. Reconcile(w, a)
    BY <1>1, <1>6, <2>1 DEF StartFails
  <2>3. u.state.phase # "unknown"
    BY <1>0, <1>1, <1>6 DEF StartOK
  <2>4. \/ w = u /\ ~(u.state.run_id = r.id /\ u.state.phase = "starting")
        \/ /\ u.state.run_id = r.id /\ u.state.phase = "starting"
           /\ w \in Pages /\ w.state.phase = "unknown"
           /\ w.state.run_id = u.state.run_id /\ w.state.revision = u.state.revision
           /\ w.observed = u.observed /\ w.previous = u.previous /\ w.pending = u.pending
           /\ w.sequence = u.sequence /\ w.runStarting = u.runStarting
           /\ w.announced = u.announced
           /\ w.exportBusy = u.exportBusy /\ w.lastExport = u.lastExport
           /\ w.deferred = u.deferred /\ w.manualUnconfirmed = u.manualUnconfirmed
           /\ w.outcome = u.outcome
    <3>1. u \in Pages
      BY <1>1, TurnFacts
    <3> QED BY <2>1, <3>1, UnknownOf
  <2>5. /\ PageGood(p, w) /\ Starts(p, w, a) /\ Exports(w, a)
        /\ w.outcome = u.outcome /\ Seen(w) = Seen(u)
    <3>1. CASE w = u /\ ~(u.state.run_id = r.id /\ u.state.phase = "starting")
      <4>1. ~Unsettled(u)
        BY <1>2, <1>6, <2>3, <3>1 DEF PageGood, Turn, Unsettled
      <4>2. a = n
        BY <1>3, <1>4, <4>1
      <4> QED BY <1>2, <3>1, <4>2
    <3>2. CASE w # u
      <4>0. /\ u.state.phase = "starting" /\ u \in Pages /\ View(p, u) /\ Turn(p, u)
            /\ Announced(p, u) /\ Panel(p, u)
        BY <1>2, <2>4, <3>2 DEF PageGood
      <4>1. Unsettled(u) /\ Unsettled(w) /\ Base(w) = Base(u) /\ Seen(w) = Seen(u)
        BY <2>4, <3>2, <4>0 DEF Unsettled, Base, Seen
      <4>2. View(p, w)
        BY <2>4, <3>2, <4>0, <4>1 DEF View
      <4>3. Turn(p, w)
        BY <2>4, <3>2, <4>0, <4>1 DEF Turn
      <4>4. Announced(p, w)
        BY <2>4, <3>2, <4>0, <4>1 DEF Announced
      <4>5. Panel(p, w)
        <5>1. FromPast(p, w, w.deferred)
          BY <2>4, <3>2, <4>0, <4>1 DEF Panel, FromPast
        <5> QED BY <2>4, <3>2, <4>0, <4>1, <5>1 DEF Panel
      <4>6. PageGood(p, w)
        BY <2>4, <3>2, <4>2, <4>3, <4>4, <4>5 DEF PageGood
      <4>7. w.sequence = u.sequence /\ w.exportBusy = u.exportBusy
        BY <2>4, <3>2
      <4>8. Starts(p, w, n) /\ Exports(w, n)
        BY <1>2, <1>6, <4>7, StartsOld, ExportsPage
      <4>9. Starts(p, w, a) /\ Exports(w, a)
        <5>1. CASE a = n
          BY <4>8, <5>1
        <5>2. ASSUME r.stage = "sent", NEW m, Deafened(r, m), a = n \cup {m}
              PROVE  Starts(p, w, a) /\ Exports(w, a)
          <6>1. m.kind = "start" /\ m.id = r.id /\ m.stage = "sent" /\ ~m.heard
            BY <5>2 DEF Deafened
          <6>2. m.id <= w.sequence
            BY <1>6, <4>0, <4>7, <6>1, PageNumbers
          <6>3. StartOK(p, w, {m}, m)
            BY <1>4, <4>1, <4>7, <5>2, <6>1, <6>2 DEF StartOK
          <6>4. \A o \in n : o.kind = "start" => o.id # m.id
            BY <1>2, <6>1
          <6> QED BY <4>8, <5>2, <6>1, <6>3, <6>4, StartsAdd, ExportsOther
        <5> QED BY <1>3, <5>1, <5>2
      <4> QED BY <2>4, <3>2, <4>1, <4>6, <4>9
    <3> QED BY <2>4, <3>1, <3>2
  <2>6. NewsStep(ui, w) /\ Seen(w) >= Seen(ui)
    BY <1>1, <2>5, TurnFacts DEF NewsStep
  <2> QED BY <1>1, <2>2, <2>5, <2>6, ReconcileGood
<1> QED BY <1>5, <1>6

LEMMA FailGood ==
  ASSUME TurnInv, NEW r \in net, FetchFails(r)
  PROVE  StepGood
<1>0. /\ published' = published /\ UNCHANGED <<export_revision, workerVars>> /\ r.heard
      /\ r \in Messages
  BY TurnFacts DEF FetchFails, serverVars
<1>1. \/ Abandoned(r) = net \ {r}
      \/ \E m : Deafened(r, m) /\ Abandoned(r) = (net \ {r}) \cup {m}
  BY <1>0, AbandonOf
<1>2. CASE r.kind = "start" /\ StartFails(r)
  BY <1>0, <1>2, StartFailsGood
<1>3. CASE r.kind = "stop" /\ StopFails(r)
  <2>1. PICK a : a = Abandoned(r)
    OBVIOUS
  <2>2. Starts(published, ui, a) /\ Exports(ui, a)
    <3>1. Starts(published, ui, net \ {r}) /\ Exports(ui, net \ {r})
      BY TurnFacts, StartsLess, ExportsLess
    <3>2. CASE a = net \ {r}
      BY <3>1, <3>2
    <3>3. ASSUME NEW m, Deafened(r, m), a = (net \ {r}) \cup {m}
          PROVE  Starts(published, ui, a) /\ Exports(ui, a)
      <4>1. m.kind = "stop"
        BY <1>3, <3>3 DEF Deafened
      <4> QED BY <3>1, <3>3, <4>1, StartsOther, ExportsOther
    <3> QED BY <1>1, <2>1, <3>2, <3>3
  <2>3. CASE Reconcile(ui, a)
    <3>1. NewsStep(ui, ui) /\ Seen(ui) >= Seen(ui)
      BY TurnFacts DEF NewsStep
    <3> QED BY <1>0, <2>2, <2>3, <3>1, TurnFacts, ReconcileGood
  <2>4. CASE ui' = ui /\ net' = a
    <3>1. TurnRest'
      BY <1>0, <2>2, <2>4, TurnFacts, PageStep
    <3> QED BY <2>4, <3>1, TurnFacts DEF StepGood, NewsStep
  <2> QED BY <1>3, <2>1, <2>3, <2>4 DEF StopFails
<1>4. CASE r.kind = "status" /\ StatusFails(r)
  <2>1. PICK w : w = ui'
    OBVIOUS
  <2>2. w \in Pages /\ SameButTimer(ui, w)
    BY <1>4, <2>1, TurnFacts, AskAgainOf DEF StatusFails
  <2>3. Known(published, Snapshot) /\ net' \subseteq net
    BY <1>4, TurnFacts, LastIsSnapshot DEF StatusFails
  <2> QED BY <1>0, <2>1, <2>2, <2>3, ShownGood
<1>5. CASE r.kind = "export" /\ ExportFails(r)
  <2>1. PICK v : v = [ui EXCEPT !.manualUnconfirmed = TRUE, !.exportBusy = FALSE,
                !.outcome = [kind |-> "unknown", number |-> 0, run |-> ConfirmedRun(ui)]]
    OBVIOUS
  <2>2. /\ v \in Pages /\ Frees(ui, v) /\ v.manualUnconfirmed = TRUE
        /\ v.outcome.kind = "unknown" /\ v.outcome.run = Base(ui).run_id
    BY <2>1, TurnFacts, ExportLostOf
  <2>3. ui' = flushAutomaticExport(v) /\ net' = Abandoned(r)
    BY <1>5, <2>1 DEF ExportFails
  <2>4. PICK n : n = net' /\ (n = net \ {r} \/ \E m : Deafened(r, m) /\ n = (net \ {r}) \cup {m})
    BY <1>1, <2>3
  <2> QED BY <1>0, <1>5, <2>2, <2>3, <2>4, FreedGood
<1> QED BY <1>2, <1>3, <1>4, <1>5 DEF FetchFails

-----------------------------------------------------------------------------
(* The stream and the timer *)

\* A delivered result is that of a snapshot the page has come to.
LEMMA DeliveredIsPast ==
  ASSUME NEW p, Record(p), NEW u, PageGood(p, u), NEW s, Known(p, s), active(s.phase),
         NEW told, told = acceptRunState(u, s)
  PROVE  FromPast(p, told, s.export_result)
<1>1. PICK k \in 1..Len(p) : k = s.revision + 1
  BY DEF Known
<1>2. s = p[k] /\ s.revision \in Nat
  BY <1>1, KnownIsPublication DEF Record, Known
<1>3. k <= Seen(told)
  <2>1. CASE IsNews(u, s)
    <3>1. Seen(told) = k
      BY <1>1, <2>1, AcceptKeeps
    <3> QED BY <1>1, <3>1, RecordNumbers DEF Record
  <2>2. CASE ~IsNews(u, s)
    <3>1. told = u /\ ~(s.revision > u.observed)
      BY <2>2, AcceptKeeps DEF IsNews
    <3>2. u.observed \in Nat \cup {-1}
      BY PageNumbers DEF PageGood
    <3> QED BY <1>1, <1>2, <3>1, <3>2 DEF Seen
  <2> QED BY <2>1, <2>2
<1> QED BY <1>2, <1>3 DEF FromPast

LEMMA DeliverGood ==
  ASSUME TurnInv, Deliver
  PROVE  StepGood
<1>0. /\ published' = published /\ UNCHANGED <<export_revision, workerVars>>
      /\ net' = net
  BY DEF Deliver
<1>1. PICK event : event = Head(queue)
  OBVIOUS
<1>2. PICK s : s = event.run_state
  OBVIOUS
<1>3. Known(published, s) /\ (event.type = "export_result" => active(s.phase))
  <2>1. queue \in Seq(Events) /\ queue # << >>
    BY DEF Deliver, TurnInv, SafeInv, ToldQueue
  <2>2. 1 \in 1..Len(queue) /\ Head(queue) = queue[1]
    BY <2>1
  <2> QED BY <1>1, <1>2, <2>2 DEF TurnInv, SafeInv, ToldQueue
<1>4. PICK p, u, w : p = published /\ u = ui /\ w = ui'
  OBVIOUS
<1>5. PICK told : told = acceptRunState(u, s)
  OBVIOUS
<1>6. w = IF event.type = "export_result" THEN receiveAutomaticExport(told, s.export_result)
          ELSE told
  BY <1>1, <1>2, <1>4, <1>5 DEF Deliver
<1>7. CASE event.type # "export_result"
  BY <1>0, <1>3, <1>4, <1>5, <1>6, <1>7, ShownGood
<1>8. CASE event.type = "export_result"
  <2>1. Record(p) /\ PageGood(p, u) /\ Known(p, s) /\ Starts(p, u, net) /\ Exports(u, net)
    BY <1>3, <1>4, TurnFacts
  <2>2. /\ PageGood(p, told) /\ PanelNews(u, told) /\ Seen(told) >= Seen(u)
        /\ told.exportBusy = u.exportBusy /\ Starts(p, told, net)
    BY <1>5, <2>1, AcceptKeeps, StartsAccept
  <2>3. FromPast(p, told, s.export_result)
    BY <1>3, <1>5, <1>8, <2>1, DeliveredIsPast
  <2>4. told \in Pages /\ s.export_result \in Outcomes
    BY <2>1, <2>2, KnownIsPublication DEF PageGood, Record, Publications
  <2>5. w \in Pages /\ Offered(told, w, s.export_result)
    BY <1>6, <1>8, <2>4, ReceiveOf
  <2>6. /\ PageGood(p, w) /\ PanelNews(told, w) /\ Seen(w) = Seen(told)
        /\ w.exportBusy = told.exportBusy /\ SameRun(told, w) /\ Starts(p, w, net)
    BY <2>1, <2>2, <2>3, <2>4, <2>5, OfferGood
  <2>7. PanelNews(u, w)
    BY <2>2, <2>6, NewsAddUp DEF SameRun
  <2>8. Exports(w, net)
    BY <2>1, <2>2, <2>6, ExportsPage
  <2>9. TurnRest'
    BY <1>0, <1>4, <2>6, <2>8, PageStep
  <2>10. NewsStep(u, w)
    BY <2>7, NewsAreNews
  <2>11. Seen(w) >= Seen(u)
    BY <2>2, <2>6
  <2> QED BY <1>4, <2>9, <2>10, <2>11 DEF StepGood
<1> QED BY <1>7, <1>8

LEMMA StreamGood ==
  ASSUME TurnInv, Stream \/ Timer \/ StreamBreaks
  PROVE  StepGood
<1>1. CASE StreamRegisters \/ StreamBreaks
  <2>1. (AddListener \/ RemoveListener) /\ ui' = ui /\ net' = net
    BY <1>1 DEF StreamRegisters, StreamBreaks
  <2>2. IInv' /\ Silent /\ UNCHANGED run_id
    BY <2>1, ListenerIsSilent, TurnFacts DEF Silent
  <2>3. InTurn
    BY <2>1, <2>2, SilentInTurn, TurnFacts DEF ServerAction
  <2> QED BY <2>1, <2>2, <2>3, TurnFacts, ServerStepGood
<1>2. CASE StreamOpens \/ Timer
  <2>1. /\ published' = published /\ UNCHANGED <<export_revision, workerVars>>
        /\ Reconcile(ui, net)
    BY <1>2 DEF StreamOpens, Timer, serverVars
  <2>2. NewsStep(ui, ui) /\ Seen(ui) >= Seen(ui)
    BY TurnFacts DEF NewsStep
  <2> QED BY <2>1, <2>2, TurnFacts, ReconcileGood
<1> QED BY <1>1, <1>2, DeliverGood DEF Stream

-----------------------------------------------------------------------------
(* The turn is kept *)

LEMMA InitTurn == ClientSpecInit => TurnInv
<1> SUFFICES ASSUME ClientSpecInit PROVE TurnInv
  OBVIOUS
<1> USE DEF ClientSpecInit
<1>1. SafeInv
  BY InitSafe
<1>2. PICK p, u : p = published /\ u = ui
  OBVIOUS
<1>3. p = <<NoPhase>> /\ Len(p) = 1 /\ p[1] = NoPhase
  BY <1>2 DEF Init, Snapshot, NoPhase, NoRun
<1>4. /\ NoPhase.run_id = 0 /\ NoPhase.phase = "idle" /\ NoPhase.export_barrier = 0
      /\ NoPhase.export_result = NoOutcome /\ NoOutcome.number = 0 /\ NoOutcome.kind = "none"
  BY DEF NoPhase, NoRun, NoOutcome
<1>5. \A i \in 1..Len(p) : i = 1
  BY <1>3
<1>6. Record(p)
  <2>1. Chronicle(p)
    BY <1>1, <1>2 DEF SafeInv
  <2>2. Order(p)
    BY <1>5 DEF Order
  <2>3. Results(p)
    BY <1>3, <1>4, <1>5 DEF Results
  <2> QED BY <2>1, <2>2, <2>3 DEF Record
<1>7. Counts
  <2>1. export_revision = 0 /\ \A id \in Runs : worker[id] = "none"
    BY DEF Init
  <2>2. \A id \in Runs : ~At(id, "numbered")
    BY <2>1 DEF At
  <2> QED BY <1>2, <1>3, <1>4, <1>5, <2>1, <2>2 DEF Counts
<1>8. /\ u.state = NoPhase /\ u.observed = -1 /\ u.pending = NoRun /\ u.sequence = 0
      /\ u.exportBusy = FALSE /\ u.lastExport = 0 /\ u.deferred = NoOutcome
      /\ u.outcome = NoOutcome /\ \A id \in Runs : u.announced[id] = 0
  BY <1>2 DEF ClientInit
<1>9. ~Unsettled(u) /\ Seen(u) = 1 /\ Base(u) = NoPhase
  BY <1>4, <1>8 DEF Unsettled, Seen, Base
<1>10. Turn(p, u)
  BY <1>3, <1>4, <1>8, <1>9 DEF Turn
<1>11. Announced(p, u)
  BY <1>8 DEF Announced
<1>12. Panel(p, u)
  BY <1>4, <1>8, <1>9 DEF Panel, FromPast
<1>13. PageGood(p, u)
  BY <1>1, <1>2, <1>10, <1>11, <1>12 DEF PageGood, SafeInv
<1>14. \A r \in net : r.kind = "status"
  BY DEF ClientInit
<1>15. Starts(published, ui, net) /\ Exports(ui, net)
  BY <1>14 DEF Starts, Exports
<1> QED BY <1>1, <1>2, <1>6, <1>7, <1>13, <1>15 DEF TurnInv, TurnRest

LEMMA TurnStep ==
  ASSUME "resend" \notin Faults, TurnInv, [ClientNext]_vars
  PROVE  TurnInv' /\ (UNCHANGED ui \/ StepGood)
<1>1. SafeInv'
  BY SafeStep DEF TurnInv
<1>2. CASE UNCHANGED vars
  <2>1. UNCHANGED <<published, export_revision, worker, number, ui, net>>
    BY <1>2 DEF vars, serverVars, stateVars, workerVars, clientVars
  <2>2. TurnRest'
    BY <2>1 DEF TurnInv, TurnRest, Counts, At
  <2> QED BY <1>1, <2>1, <2>2 DEF TurnInv
<1>3. ASSUME ClientNext PROVE StepGood
  <2>1. CASE Clicks
    BY <2>1, StopClickGood, ExportClickGood, StartClickGood DEF Clicks
  <2>2. CASE Failures
    <3>1. \A r \in net : ~Resend(r)
      BY DEF Resend, Fault
    <3> QED BY <2>2, <3>1, StreamGood, FailGood DEF Failures
  <2>3. CASE Exporting
    <3>1. PICK r \in net : FinishExport(r)
      BY <2>3 DEF Exporting
    <3> QED BY <1>1, <3>1, FinishExportGood
  <2>4. ASSUME NEW kind \in Kinds, Served(kind) \/ Taken(kind) PROVE StepGood
    <3>1. CASE Served(kind)
      <4>1. PICK r \in net : Handle(r)
        BY <3>1 DEF Served, Requests
      <4> QED BY <1>1, <4>1, HandleGood
    <3>2. CASE Taken(kind)
      <4>1. PICK r \in net : TakeReply(r)
        BY <3>2 DEF Taken, Requests
      <4> QED BY <4>1, TakeReplyGood
    <3> QED BY <2>4, <3>1, <3>2
  <2>5. CASE Stream \/ Timer
    BY <2>5, StreamGood
  <2>6. ASSUME NEW id \in Runs, Work(id) PROVE StepGood
    BY <2>6, WorkGood
  <2> QED BY <1>3, <2>1, <2>2, <2>3, <2>4, <2>5, <2>6 DEF ClientNext
<1>4. StepGood => TurnInv'
  BY <1>1 DEF StepGood, TurnInv
<1> QED BY <1>2, <1>3, <1>4

-----------------------------------------------------------------------------
(* What follows while every start is sent once *)

\* The chronicle's runs follow each other, the page is at most one behind, and every start
\* on its way is the page's latest, handled once (TurnInv).
THEOREM TurnInvariance == ASSUME "resend" \notin Faults PROVE ClientSpec => []TurnInv
<1>1. TurnInv /\ [ClientNext]_vars => TurnInv'
  BY TurnStep
<1> QED BY <1>1, InitTurn, PTL DEF ClientSpec

\* Start is not offered again while a start that may yet begin a run is on its way
\* (pendingRunId, updateGlobalControls).
THEOREM StartOfferedOnce ==
  ASSUME "resend" \notin Faults PROVE ClientSpec => []StartNotOfferedTwice
<1>1. TurnInv => StartNotOfferedTwice
  BY TurnFacts DEF StartNotOfferedTwice, Requests, Starts, StartOK, Unsettled, runActive
<1> QED BY <1>1, TurnInvariance, PTL

\* Neither replies nor events in any order bring the page back, nor does it announce the
\* end of a run twice (acceptRunState, finishRun).
THEOREM NeverBack == ASSUME "resend" \notin Faults PROVE ClientSpec => NeverGoesBack
<1>1. ASSUME TurnInv, TurnInv', [ClientNext]_vars
      PROVE  /\ ui'.state.revision >= ui.state.revision
             /\ \A id \in Runs : ui'.announced[id] <= 1
  <2>1. /\ ui.state.revision = Seen(ui) - 1 /\ Seen(ui) \in Nat
    BY <1>1, TurnFacts, ViewRevision, SeenNumbers
  <2>2. PICK q, w : q = published' /\ w = ui'
    OBVIOUS
  <2>3. /\ Chronicle(q) /\ w \in Pages /\ View(q, w) /\ Announced(q, w)
    BY <1>1, <2>2 DEF TurnInv, TurnRest, PageGood, Record
  <2>4. w.state.revision = Seen(w) - 1 /\ Seen(w) \in Nat
    BY <2>3, ViewRevision, SeenNumbers
  <2>5. Seen(w) >= Seen(ui)
    BY <1>1, <2>1, <2>2, TurnStep DEF StepGood
  <2>6. \A id \in Runs : w.announced[id] <= 1
    <3> SUFFICES ASSUME NEW id \in Runs PROVE w.announced[id] <= 1
      OBVIOUS
    <3>1. w.announced[id] = 0 \/ w.announced[id] = 1
      BY <2>3, Zenon DEF Announced
    <3> QED BY <3>1
  <2> QED BY <2>1, <2>2, <2>4, <2>5, <2>6
<1> QED BY <1>1, TurnInvariance, PTL DEF ClientSpec, NeverGoesBack

\* An automatic result on the panel is that of the run shown, and after an export that was
\* lost only that of a later run (receiveAutomaticExport, finishAutomaticExportRun).
THEOREM AutomaticIsNews == ASSUME "resend" \notin Faults PROVE ClientSpec => AutomaticResultIsNews
<1>1. ASSUME TurnInv, [ClientNext]_vars, ui'.outcome # ui.outcome, ui'.outcome.kind = "automatic"
      PROVE  /\ ui'.outcome.run = ui'.state.run_id
             /\ ui.outcome.kind = "unknown" => ui'.outcome.run > ui.outcome.run
  BY <1>1, TurnStep DEF StepGood, NewsStep
<1> QED BY <1>1, TurnInvariance, PTL DEF ClientSpec, AutomaticResultIsNews

\* A worker's step starts from a place within its life, so it is not that of a worker that is over.
LEMMA StepsAreLive ==
  ASSUME worker \in [Runs -> Places], NEW w \in Runs, WorkerStep(w), NEW id \in Runs,
         worker[id] = "over"
  PROVE  worker'[id] = "over"
<1>1. worker[w] # "over"
  BY DEF WorkerStep, Progress, NumberResult, EmitResult, ReadVerdict, EmitVerdict, ShutdownFails,
     WorkerEnds, At, Ended
<1>2. worker' = worker \/ \E place : worker' = [worker EXCEPT ![w] = place]
  BY Zenon DEF WorkerStep, Progress, NumberResult, EmitResult, ReadVerdict, EmitVerdict, ShutdownFails,
     WorkerEnds, MovesTo, workerVars
<1> QED BY <1>1, <1>2

\* Whatever fails or is repeated, the run the controller knows of is not begun again.
THEOREM BegunOnce == ClientSpec => RunBegunOnce
<1>1. ASSUME SafeInv, [ClientNext]_vars
      PROVE  \A id \in Runs : worker[id] = "over" /\ run_id = id => worker'[id] = "over"
  <2> SUFFICES ASSUME NEW id \in Runs, worker[id] = "over", run_id = id
               PROVE  worker'[id] = "over"
    OBVIOUS
  <2>1. worker \in [Runs -> Places]
    BY <1>1 DEF SafeInv, IInv, Shapes
  <2>2. CASE UNCHANGED worker
    BY <1>1, <2>2
  <2>3. CASE \E w \in Runs : Work(w)
    BY <1>1, <2>1, <2>3, StepsAreLive DEF Work
  <2>4. CASE \E kind \in Kinds : Served(kind)
    <3>1. PICK r : Handle(r)
      BY <2>4 DEF Served
    <3>2. CASE \E s : StartAccepted(s)
      BY <1>1, <2>1, <3>2 DEF StartAccepted
    <3>3. CASE ~ \E s : StartAccepted(s)
      <4>1. UNCHANGED worker
        BY <3>1, <3>3 DEF Handle, HandleStart, HandleStop, HandleExport, StartRepeated, StartRefused,
           StopAccepted, StopRefused, GetStatus, ExportBegins, ExportRefused, serverVars, workerVars
      <4> QED BY <1>1, <4>1
    <3> QED BY <3>2, <3>3
  <2>5. CASE \/ Clicks \/ Failures \/ Stream \/ Timer \/ Exporting
             \/ \E kind \in Kinds : Taken(kind)
    <3>1. UNCHANGED worker
      BY <2>5, Zenon DEF Clicks, Failures, Stream, Timer, Exporting, Taken, stopProcessing, exportDatabase,
         startProcessing, StreamBreaks, FetchFails, Resend, StreamRegisters, StreamOpens, Deliver,
         FinishExport, TakeReply, ExportEnds, AddListener, RemoveListener, serverVars, workerVars
    <3> QED BY <1>1, <3>1
  <2> QED BY <1>1, <2>2, <2>3, <2>4, <2>5 DEF ClientNext, vars, serverVars, workerVars
<1> QED BY <1>1, ClientInvariance, PTL DEF ClientSpec, RunBegunOnce
=============================================================================
