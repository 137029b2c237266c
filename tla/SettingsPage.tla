---------------------------- MODULE SettingsPage ----------------------------
(***************************************************************************)
(* The settings form of the page (static/app.js, tabs/ai_content.html) and *)
(* the requests between it and SettingsService.                            *)
(*                                                                         *)
(* A request is in `net` from the fetch to the moment its promise settles; *)
(* one the page no longer waits for may still arrive.  Replies overtake    *)
(* each other.  `original` is what the form shows as saved; it is always   *)
(* made from the last snapshot taken, so there is no variable for it.      *)
(* Left out: repair fields (a stored value of the wrong type), the field   *)
(* LLM_PROVIDER beside the two controls, notices and drawing.              *)
(***************************************************************************)
EXTENDS SettingsService, FiniteSets

CONSTANTS MaxEdits,    \* bound: nothing is typed or reverted after so many edits
          MaxFaults    \* bound on replies lost and requests repeated

VARIABLES
  page,     \* the form
  net,      \* requests and replies in flight
  faults,   \* how many faults of the transport there have been
  told,     \* history: <<id, status>> of every reply the page took
  wiped     \* history: the last edit of `key` before a wipe whose reply showed no token

vars == <<serviceVars, page, net, faults, told, wiped>>

NoSubmission == [id |-> 0]
NoEdits == [c \in {} |-> 0]
Unanswered == [revision |-> 0]
Never == [c \in Controls |-> -1]   \* no reset was asked for

PageInit ==
  /\ Init
  /\ page = [snapshot |-> settings_snapshot,
             draft |-> [c \in Controls |-> 0],
             revisions |-> [c \in Controls |-> 0], edits |-> 0, operations |-> 0,
             submission |-> NoSubmission, pending |-> FALSE, again |-> FALSE,
             unconfirmed |-> FALSE, resetUnconfirmed |-> FALSE, resetRevisions |-> Never,
             restartRequired |-> FALSE]
  /\ net = {} /\ faults = 0 /\ told = {} /\ wiped = 0

-----------------------------------------------------------------------------
(* The draft *)

original(p) == [c \in Controls |-> p.snapshot[c]]
submitted(p) == IF p.submission = NoSubmission THEN {} ELSE DOMAIN p.submission.edits \ p.submission.cancelled

isDirty(p, c) == p.draft[c] # original(p)[c] \/ (p.unconfirmed /\ c \in submitted(p))
Dirty(p) == {c \in Controls : isDirty(p, c)}

recordFieldEdit(p, c) == [p EXCEPT !.edits = @ + 1, !.revisions[c] = p.edits + 1]

\* Mutant: a snapshot is taken whatever its revision.
IsNewerAlways(p, snapshot) == TRUE

IsNewer(p, snapshot) == snapshot.revision > p.snapshot.revision

\* acceptSettingsSnapshot, then reconcileSettings: the draft is kept where `preserve` says.
Reconcile(p, snapshot, preserve) ==
  LET q == IF IsNewer(p, snapshot) THEN [p EXCEPT !.snapshot = snapshot] ELSE p
  IN  [q EXCEPT !.draft = [c \in Controls |-> IF c \in preserve THEN p.draft[c] ELSE original(q)[c]]]

Discard(p, c) ==
  IF p.submission = NoSubmission THEN p ELSE [p EXCEPT !.submission.discarded = @ \cup {c}]
KeepAgain(p, c) ==
  IF p.submission = NoSubmission THEN p ELSE [p EXCEPT !.submission.discarded = @ \ {c}]

\* handleFieldChange: something new, or what is saved typed back.
EditField(c) ==
  /\ page.edits < MaxEdits
  /\ \E value \in {page.edits + 1, original(page)[c]} \ {page.draft[c]} :
       page' = KeepAgain(recordFieldEdit([page EXCEPT !.draft[c] = value], c), c)
  /\ UNCHANGED <<serviceVars, net, faults, told, wiped>>

revertDraftField(p, c) ==
  Discard(recordFieldEdit([p EXCEPT !.draft[c] = IF c \in submitted(p) THEN p.submission.edits[c]
                                                 ELSE original(p)[c]], c), c)

\* revertProviderFrame: the user leaves a provider with unsaved edits and drops them.
RevertFrame ==
  /\ Dirty(page) # {} /\ page.edits <= MaxEdits
  /\ page' = revertDraftField(revertDraftField(page, "model"), "key")
  /\ UNCHANGED <<serviceVars, net, faults, told, wiped>>

discardGlobalDraft ==
  /\ Dirty(page) # {}
  /\ ~page.pending /\ ~page.unconfirmed /\ ~page.resetUnconfirmed
  /\ page' = [page EXCEPT !.draft = original(page)]
  /\ UNCHANGED <<serviceVars, net, faults, told, wiped>>

-----------------------------------------------------------------------------
(* Sending *)

Operation(p, kind, edits) ==
  [id |-> p.operations + 1, kind |-> kind, base |-> p.snapshot.revision, edits |-> edits]

Sent(op, revisions) ==
  [op |-> op, revisions |-> revisions, stage |-> "sent", heard |-> TRUE,
   status |-> "", snapshot |-> Unanswered]

newSettingsSubmission(p) ==
  [id |-> p.operations + 1, base |-> p.snapshot.revision, revisions |-> p.revisions,
   edits |-> [c \in Dirty(p) |-> p.draft[c]], discarded |-> {}, cancelled |-> {}]

Submit(p) == [p EXCEPT !.submission = newSettingsSubmission(p), !.operations = @ + 1]

Post(p) ==
  Sent([id |-> p.submission.id, kind |-> "commit", base |-> p.submission.base,
        edits |-> p.submission.edits], p.submission.revisions)

CanAsk == page.operations + 1 \in Ids

\* Apply: a save whose outcome is unknown is sent again as it was, with the same id.
commitGlobalDraft ==
  /\ ~page.pending /\ ~page.restartRequired
  /\ Dirty(page) # {} \/ page.unconfirmed
  /\ IF page.submission = NoSubmission
     THEN CanAsk /\ LET q == [Submit(page) EXCEPT !.pending = TRUE, !.again = FALSE]
                    IN  page' = q /\ net' = net \cup {Post(q)}
     ELSE LET q == [page EXCEPT !.pending = TRUE, !.again = TRUE]
          IN  page' = q /\ net' = net \cup {Post(q)}
  /\ UNCHANGED <<serviceVars, faults, told, wiped>>

AskFor(kind, p) ==
  /\ CanAsk
  /\ page' = [p EXCEPT !.operations = @ + 1]
  /\ net' = net \cup {Sent(Operation(page, kind, NoEdits), page.revisions)}
  /\ UNCHANGED <<serviceVars, faults, told, wiped>>

wipeToken == AskFor("wipe", page)

\* The button is there while the form shows a file that cannot be read.
resetSettings ==
  /\ page.snapshot.broken /\ page.snapshot.backup_path = NoBackup
  /\ AskFor("reset", [page EXCEPT !.resetRevisions = page.revisions])

-----------------------------------------------------------------------------
(* The server answers *)

Answer(r, status) ==
  net' = (net \ {r}) \cup
         (IF r.heard
          THEN {[r EXCEPT !.stage = "answered", !.status = status, !.snapshot = settings_snapshot']}
          ELSE {})

Handle(r) ==
  /\ r.stage = "sent"
  /\ \/ Repeated(r.op) /\ Answer(r, Receipt(r.op).status)
     \/ Forgotten(r.op) /\ Answer(r, "unknown")
     \/ Superseded(r.op) /\ Answer(r, "superseded")
     \/ Succeeds(r.op) /\ Answer(r, "success")
     \/ Errs(r.op) /\ Answer(r, "error")
     \/ Fails(r.op) /\ Answer(r, "fatal")
  /\ UNCHANGED <<page, faults, told, wiped>>

-----------------------------------------------------------------------------
(* The page takes a reply *)

Settled(p) == [p EXCEPT !.submission = NoSubmission, !.unconfirmed = FALSE]

\* The loop of commitGlobalDraft: after a save that was sent again, one more for later edits.
Continue(p, others) ==
  IF p.again /\ Dirty(p) # {} /\ CanAsk
  THEN LET q == [Submit(p) EXCEPT !.again = FALSE] IN page' = q /\ net' = others \cup {Post(q)}
  ELSE page' = [p EXCEPT !.pending = FALSE] /\ net' = others

\* Mutant: what was typed while the save was under way is taken for saved.
LateNone(p) == {}

\* acknowledgeSettings: what was edited after the save was sent stays in the draft.
Late(p) == {c \in Controls : p.revisions[c] # p.submission.revisions[c]} \ p.submission.discarded

CommitSucceeded(r) ==
  Continue(Settled(Reconcile(page, r.snapshot, Late(page))), net \ {r})

\* An edit that was made before the token was wiped, or before the reset, is dropped.
Overtaken(p, snapshot, c) ==
  /\ c \in DOMAIN p.submission.edits /\ p.revisions[c] = p.submission.revisions[c]
  /\ \/ c = "key" /\ snapshot.token_wipes > p.submission.base
     \/ /\ snapshot.reset_revision > p.submission.base
        /\ p.resetRevisions = Never \/ p.submission.revisions[c] <= p.resetRevisions[c]

CommitRejected(r) ==
  LET known == IF IsNewer(page, r.snapshot) THEN r.snapshot ELSE page.snapshot
      dropped == IF r.status = "superseded" THEN {c \in Controls : Overtaken(page, known, c)} ELSE {}
  IN  Continue(Settled(Reconcile(page, r.snapshot, Dirty(page) \ dropped)), net \ {r})

CommitUnsure(p, others) ==
  page' = [p EXCEPT !.unconfirmed = TRUE, !.pending = FALSE] /\ net' = others

CommitAnswered(r) ==
  \/ r.status = "success" /\ CommitSucceeded(r)
  \/ r.status \in {"error", "superseded"} /\ CommitRejected(r)
  \/ r.status = "fatal" /\ CommitUnsure(page, net \ {r})
  \/ r.status = "unknown" /\ CommitUnsure([page EXCEPT !.restartRequired = TRUE], net \ {r})

\* settingsOperationFailure; an unknown operation comes without a snapshot.
OperationFailed(r) ==
  page' = IF r.status = "unknown" \/ ~IsNewer(page, r.snapshot) THEN page
          ELSE Reconcile(page, r.snapshot, Dirty(page))

\* Mutant: the save under way keeps the token that was wiped.
CancelNothing(p) == p

Cancel(p) ==
  IF p.submission = NoSubmission THEN p ELSE [p EXCEPT !.submission.cancelled = @ \cup {"key"}]

\* acknowledgeTokenWipe: a token typed before the wipe goes, one typed since stays.
WipeSucceeded(r) ==
  IF ~IsNewer(page, r.snapshot) THEN UNCHANGED <<page, wiped>>
  ELSE LET before == page.revisions["key"] = r.revisions["key"]
           cleared == IF before THEN recordFieldEdit(page, "key") ELSE page
           preserve == IF before THEN Dirty(page) \ {"key"} ELSE Dirty(page)
       IN  /\ page' = Reconcile(Cancel(cleared), r.snapshot, preserve)
           /\ wiped' = IF before /\ r.snapshot.key = Empty THEN r.revisions["key"] ELSE wiped

ResetSucceeded(r) ==
  page' = IF ~IsNewer(page, r.snapshot) THEN page
          ELSE Reconcile(page, r.snapshot, {c \in Controls : page.revisions[c] # r.revisions[c]})

TakeCommit(r) == r.op.kind = "commit" /\ CommitAnswered(r) /\ UNCHANGED wiped
TakeWipe(r) ==
  /\ r.op.kind = "wipe" /\ net' = net \ {r}
  /\ IF r.status = "success" THEN WipeSucceeded(r) ELSE OperationFailed(r) /\ UNCHANGED wiped
TakeReset(r) ==
  /\ r.op.kind = "reset" /\ net' = net \ {r} /\ UNCHANGED wiped
  /\ IF r.status = "success" THEN ResetSucceeded(r) ELSE OperationFailed(r)

TakeReply(r) ==
  /\ r.stage = "answered"
  /\ TakeCommit(r) \/ TakeWipe(r) \/ TakeReset(r)
  /\ told' = told \cup {<<r.op.id, r.status>>}
  /\ UNCHANGED <<serviceVars, faults>>

-----------------------------------------------------------------------------
(* external: the transport *)

Fault == faults < MaxFaults /\ faults' = faults + 1

Abandoned(r) == (net \ {r}) \cup (IF r.stage = "sent" THEN {[r EXCEPT !.heard = FALSE]} ELSE {})

\* A fetch fails and its catch block runs; the request may have been served, or may yet be.
FetchFails(r) ==
  /\ r.heard /\ Fault
  /\ \/ r.op.kind = "commit" /\ CommitUnsure(page, Abandoned(r))
     \/ r.op.kind = "wipe" /\ UNCHANGED page /\ net' = Abandoned(r)
     \/ r.op.kind = "reset" /\ page' = [page EXCEPT !.resetUnconfirmed = TRUE] /\ net' = Abandoned(r)
  /\ UNCHANGED <<serviceVars, told, wiped>>

\* The transport loses a reply and sends the request again by itself.
Resend(r) ==
  /\ r.heard /\ r.stage = "answered" /\ Fault
  /\ net' = (net \ {r}) \cup {[r EXCEPT !.stage = "sent", !.status = "", !.snapshot = Unanswered]}
  /\ UNCHANGED <<serviceVars, page, told, wiped>>

-----------------------------------------------------------------------------
User ==
  \/ \E c \in Controls : EditField(c)
  \/ RevertFrame \/ discardGlobalDraft \/ commitGlobalDraft \/ wipeToken \/ resetSettings

PageNext == User \/ \E r \in net : Handle(r) \/ TakeReply(r) \/ FetchFails(r) \/ Resend(r)

PageSpec == PageInit /\ [][PageNext]_vars

-----------------------------------------------------------------------------
(* Properties *)

Values == Nat \cup {Mask}
Snapshots == [revision : Nat, model : Values, broken : BOOLEAN, key : {Empty, Mask},
              token_wipes : Nat, reset_revision : Nat, backup_path : Nat]

TypeOK ==
  /\ settings_snapshot \in Snapshots
  /\ token \in Nat /\ Len(receipts) <= Retained /\ applied \subseteq Ids
  /\ page.snapshot \in Snapshots /\ page.draft \in [Controls -> Values]
  /\ page.revisions \in [Controls -> 0..page.edits]
  /\ told \subseteq Ids \X Statuses
  /\ \A r \in net : r.op.base <= revision /\ r.snapshot \in Snapshots \cup {Unanswered}

\* However often a request arrives, and however many receipts have been dropped since, its
\* operation is carried out at most once (settings_operation, SettingsOperations.remember).
AppliedOnce == \A id \in Ids : executed[id] <= 1

\* The page asks for a restart only when so many operations have been answered since that the
\* receipt may have been dropped (SettingsOperations.remember).
RestartOnlyAfterMany == page.restartRequired => revision > page.submission.base + Retained

\* What the page was told of an operation stays true: it is told of success only when all of it
\* was written, and one it was told is refused or superseded is never written, not even by a
\* copy of the request that comes late (settings_operation).  Nothing is carried out twice, and
\* the page does not learn that it cannot know the outcome while the outcome is still known.
AnswersAreTrue ==
  /\ \A answer \in told :
       /\ answer[2] = "success" => answer[1] \in applied
       /\ answer[2] \in {"error", "superseded"} => answer[1] \notin applied
  /\ AppliedOnce /\ RestartOnlyAfterMany

\* Start goes by the settings on disk, and is offered when the form shows nothing unsaved: it
\* then shows what is on disk, of the token as soon as every operation was answered
\* (updateGlobalControls, commitGlobalDraft), unless the user was told that the outcome of an
\* operation cannot be known and to restart the application (err_settings_operation_unknown).
\* What was sent is kept exactly until it is settled.
SubmissionKept == page.submission # NoSubmission <=> page.pending \/ page.unconfirmed
StartOffered == Dirty(page) = {} /\ ~page.pending /\ ~page.unconfirmed /\ ~page.resetUnconfirmed
ResetUnderWay == \E r \in net : r.op.kind = "reset" /\ r.heard
Untold == {id \in Ids : executed[id] > 0 /\ ~\E answer \in told : answer[1] = id}
AskedToRestart == \E answer \in told : answer[2] = "unknown"
ShownIsOnDisk ==
  /\ SubmissionKept
  /\ StartOffered /\ ~AskedToRestart =>
    /\ ResetUnderWay \/ page.snapshot.model = settings_snapshot.model
    /\ Untold = {} => original(page) = [c \in Controls |-> settings_snapshot[c]]

\* A token the user typed before a wipe the page has confirmed, with a reply that shows no token,
\* is not on disk again: not from the draft, from a save that was under way, or from one sent
\* again, provided that the field was not touched between the wipe and its reply
\* (acknowledgeTokenWipe).
WipedStaysWiped == token # Empty => token > wiped

\* No reply takes away what the user typed after the operation it answers was sent, unless the
\* user has dropped it since (acknowledgeSettings, acknowledgeTokenWipe, resetSettings).
TypedSince(r) == {c \in Controls : page.revisions[c] > r.revisions[c] /\ page.draft[c] # original(page)[c]}
Dropped == IF page.submission = NoSubmission THEN {} ELSE page.submission.discarded
EditsKept ==
  [][\A r \in net : TakeReply(r) => \A c \in TypedSince(r) \ Dropped : page'.draft[c] = page.draft[c]]_vars

\* A reset loses no settings: what it takes out of place, broken or not, is in a backup, also
\* after a save that failed half way or a reset that was repeated (reset_settings).
NothingResetAway ==
  [][reset_revision' # reset_revision /\ disk' # disk /\ disk # NoFile
       => \E i \in DOMAIN backups' : backups'[i] = disk]_vars
=============================================================================
