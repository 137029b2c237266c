--------------------------- MODULE SettingsProofs ---------------------------
(***************************************************************************)
(* What holds of the settings form and the settings service whatever the   *)
(* ids, the number of receipts retained, the edits, the failing writes and *)
(* the faults of the transport.                                            *)
(*                                                                         *)
(* The properties are not inductive.  IInv adds that ids and revisions     *)
(* never run ahead (Numbers), that an id stands for one operation          *)
(* (Identity), that the page waits for one save at a time (OneSave), that  *)
(* an operation carried out has a receipt or is as old as one that was     *)
(* dropped (Remembered), that every status on its way is true (Truth), and *)
(* where a token from before a wipe may still be (Wiping).                 *)
(*                                                                         *)
(* That the form shows what is on disk rests on Showing: whatever differs  *)
(* is the doing of an operation whose answer the page has not taken and    *)
(* whose answer, when it comes, is newer than what is shown.               *)
(*                                                                         *)
(* A step of the page is first reduced to what it does to the form, the    *)
(* save and the requests (Typing, BeginsSave, SaveEnds, Shown...), and one *)
(* of the service to Recalls or Executes; the invariant is then kept by    *)
(* each of these, not by each action.                                      *)
(***************************************************************************)
EXTENDS SettingsPage, SequenceTheorems, TLAPS

-----------------------------------------------------------------------------
(* Types *)

Files == [there : BOOLEAN, broken : BOOLEAN, model : Values]
Drafts == [Controls -> Values]
Edits == UNION {[S -> Values] : S \in SUBSET Controls}
Stamps == [Controls -> Nat]
Operations == [id : Ids, kind : {"commit", "wipe", "reset"}, base : Nat, edits : Edits]
Marks == [id : Ids, status : Statuses \ {"unknown"}, base : Nat]

Requests ==
  [op : Operations, revisions : Stamps, stage : {"sent", "answered"}, heard : BOOLEAN,
   status : Statuses \cup {""}, snapshot : Snapshots \cup {Unanswered}]

Submissions ==
  [id : Ids, base : Nat, revisions : Stamps, edits : Edits,
   discarded : SUBSET Controls, cancelled : SUBSET Controls]

Pages ==
  [snapshot : Snapshots, draft : Drafts, revisions : Stamps, edits : Nat, operations : Nat,
   submission : Submissions \cup {NoSubmission}, pending : BOOLEAN, again : BOOLEAN,
   unconfirmed : BOOLEAN, resetUnconfirmed : BOOLEAN,
   resetRevisions : [Controls -> Nat \cup {-1}], restartRequired : BOOLEAN]

ServiceTypes ==
  /\ disk \in Files /\ token \in Nat /\ backups \in Seq(Files) /\ backup_path \in Nat
  /\ revision \in Nat /\ expired_through \in Int /\ receipts \in Seq(Marks)
  /\ token_wipes \in Nat /\ reset_revision \in Nat /\ mishaps \in Nat
  /\ executed \in [Ids -> Nat] /\ applied \subseteq Ids

PageTypes ==
  /\ page \in Pages /\ net \subseteq Requests /\ faults \in Nat
  /\ told \subseteq Ids \X Statuses /\ wiped \in Nat
  /\ \A r \in net : r.stage = "answered" =>
       r.heard /\ r.status \in Statuses /\ r.snapshot \in Snapshots

Types == ServiceTypes /\ PageTypes

-----------------------------------------------------------------------------
(* What the operations on the page's record do *)

SameForm(q, p) == q.snapshot = p.snapshot /\ q.draft = p.draft
SameEdits(q, p) == q.edits = p.edits /\ q.revisions = p.revisions
SameReset(q, p) == q.resetUnconfirmed = p.resetUnconfirmed /\ q.resetRevisions = p.resetRevisions
SameFlags(q, p) ==
  /\ q.pending = p.pending /\ q.again = p.again /\ q.unconfirmed = p.unconfirmed
  /\ q.restartRequired = p.restartRequired /\ q.operations = p.operations

\* The submission is the same but for what was discarded or cancelled in it.
SameSave(q, p) ==
  \/ p.submission = NoSubmission /\ q.submission = NoSubmission
  \/ /\ p.submission # NoSubmission /\ q.submission # NoSubmission
     /\ q.submission.id = p.submission.id /\ q.submission.base = p.submission.base
     /\ q.submission.edits = p.submission.edits
     /\ q.submission.revisions = p.submission.revisions
     /\ p.submission.cancelled \subseteq q.submission.cancelled

LEMMA EditOf ==
  ASSUME NEW p \in Pages, NEW c \in Controls
  PROVE  LET q == recordFieldEdit(p, c) IN
         /\ q \in Pages /\ SameForm(q, p) /\ SameReset(q, p) /\ SameFlags(q, p)
         /\ q.submission = p.submission
         /\ q.edits = p.edits + 1 /\ q.revisions = [p.revisions EXCEPT ![c] = p.edits + 1]
  <1> DEFINE q == recordFieldEdit(p, c)
             w == [p.revisions EXCEPT ![c] = p.edits + 1]
  <1>1. w \in Stamps /\ p.edits + 1 \in Nat
    BY DEF Pages, Stamps
  <1>2. q = [p EXCEPT !.edits = p.edits + 1, !.revisions = w]
    BY DEF recordFieldEdit
  <1> HIDE DEF w
  <1>3. /\ q \in Pages /\ SameForm(q, p) /\ SameReset(q, p) /\ SameFlags(q, p)
        /\ q.submission = p.submission /\ q.edits = p.edits + 1 /\ q.revisions = w
    BY <1>1, <1>2 DEF Pages, SameForm, SameReset, SameFlags
  <1> QED BY <1>3 DEF w

LEMMA DraftOf ==
  ASSUME NEW p \in Pages, NEW d \in Drafts, NEW q, q = [p EXCEPT !.draft = d]
  PROVE  /\ q \in Pages /\ SameEdits(q, p) /\ SameReset(q, p) /\ SameFlags(q, p)
         /\ q.submission = p.submission /\ q.snapshot = p.snapshot /\ q.draft = d
  BY DEF Pages, SameEdits, SameReset, SameFlags

LEMMA SubmissionTyped ==
  ASSUME NEW p \in Pages
  PROVE  p.submission # NoSubmission => p.submission \in Submissions
  BY DEF Pages

\* The user's edits, his second thoughts and the discarding of the draft leave the save alone.
Calm(q, p) ==
  /\ q \in Pages /\ q.snapshot = p.snapshot /\ SameReset(q, p) /\ SameFlags(q, p) /\ SameSave(q, p)

LEMMA SaveOf ==
  ASSUME NEW p \in Pages, p.submission # NoSubmission, NEW s \in Submissions, NEW q,
         q = [p EXCEPT !.submission = s],
         s.id = p.submission.id, s.base = p.submission.base, s.edits = p.submission.edits,
         s.revisions = p.submission.revisions, p.submission.cancelled \subseteq s.cancelled
  PROVE  Calm(q, p) /\ SameEdits(q, p) /\ SameForm(q, p) /\ q.submission = s
  <1>1. /\ q \in Pages /\ SameForm(q, p) /\ SameEdits(q, p) /\ SameReset(q, p)
        /\ SameFlags(q, p) /\ q.submission = s
    BY DEF Pages, SameForm, SameEdits, SameReset, SameFlags
  <1>2. s # NoSubmission
    BY ServiceAssumption DEF Submissions, NoSubmission
  <1> QED BY <1>1, <1>2 DEF SameSave, Calm, SameForm

LEMMA OriginalTyped ==
  ASSUME NEW p \in Pages
  PROVE  /\ original(p) \in Drafts
         /\ original(p)["key"] \in {Empty, Mask} /\ original(p)["key"] = p.snapshot.key
         /\ original(p)["model"] = p.snapshot.model
  <1>1. p.snapshot \in Snapshots
    BY DEF Pages
  <1>2. p.snapshot["key"] = p.snapshot.key /\ p.snapshot["model"] = p.snapshot.model
    OBVIOUS
  <1>3. p.snapshot.key \in {Empty, Mask} /\ p.snapshot.model \in Values
    BY <1>1 DEF Snapshots
  <1> QED BY <1>2, <1>3 DEF original, Drafts, Controls, Values, Empty, Mask

LEMMA DraftTyped == ASSUME NEW p \in Pages PROVE p.draft \in Drafts
  BY DEF Pages

\* What a reply does to the form: the newer snapshot, and the draft where it is to be kept.
LEMMA ReconcileOf ==
  ASSUME NEW p \in Pages, NEW s \in Snapshots, NEW P
  PROVE  LET q == Reconcile(p, s, P) IN
         /\ q \in Pages /\ SameEdits(q, p) /\ SameReset(q, p) /\ SameFlags(q, p)
         /\ q.submission = p.submission
         /\ q.snapshot = IF IsNewer(p, s) THEN s ELSE p.snapshot
         /\ \A c \in Controls : q.draft[c] = IF c \in P THEN p.draft[c] ELSE original(q)[c]
  <1> DEFINE q == Reconcile(p, s, P)
             n == IF IsNewer(p, s) THEN [p EXCEPT !.snapshot = s] ELSE p
             d == [c \in Controls |-> IF c \in P THEN p.draft[c] ELSE original(n)[c]]
  <1>1. /\ n \in Pages /\ SameEdits(n, p) /\ SameReset(n, p) /\ SameFlags(n, p)
        /\ n.submission = p.submission
        /\ n.snapshot = IF IsNewer(p, s) THEN s ELSE p.snapshot
    BY DEF Pages, SameEdits, SameReset, SameFlags
  <1> HIDE DEF n
  <1>2. original(n) \in Drafts /\ p.draft \in Drafts
    BY <1>1, OriginalTyped, DraftTyped
  <1>3. d \in Drafts
    BY <1>2 DEF Drafts
  <1>4. q = [n EXCEPT !.draft = d]
    BY DEF Reconcile, n
  <1> HIDE DEF d
  <1>5. /\ q \in Pages /\ SameEdits(q, n) /\ SameReset(q, n) /\ SameFlags(q, n)
        /\ q.submission = n.submission /\ q.snapshot = n.snapshot /\ q.draft = d
    <2> HIDE DEF q
    <2> QED BY <1>1, <1>3, <1>4, DraftOf
  <1>6. original(q) = original(n)
    BY <1>5 DEF original
  <1>7. \A c \in Controls : q.draft[c] = IF c \in P THEN p.draft[c] ELSE original(q)[c]
    BY <1>5, <1>6 DEF d
  <1>8. SameEdits(q, p) /\ SameReset(q, p) /\ SameFlags(q, p)
    BY <1>1, <1>5 DEF SameEdits, SameReset, SameFlags
  <1> QED BY <1>1, <1>5, <1>7, <1>8

LEMMA SaveIsSame == \A p, q \in Pages : q.submission = p.submission => SameSave(q, p)
  BY DEF SameSave

LEMMA DiscardIsCalm ==
  ASSUME NEW p \in Pages, NEW c \in Controls
  PROVE  /\ Calm(Discard(p, c), p) /\ SameEdits(Discard(p, c), p) /\ SameForm(Discard(p, c), p)
         /\ Calm(KeepAgain(p, c), p) /\ SameEdits(KeepAgain(p, c), p) /\ SameForm(KeepAgain(p, c), p)
  <1>1. CASE p.submission = NoSubmission
    BY <1>1, SaveIsSame DEF Discard, KeepAgain, Calm, SameForm, SameEdits, SameReset, SameFlags
  <1>2. CASE p.submission # NoSubmission
    <2> DEFINE D == p.submission.discarded \cup {c}
               K == p.submission.discarded \ {c}
    <2>1. p.submission \in Submissions
      BY <1>2, SubmissionTyped
    <2>2. ASSUME NEW S \in SUBSET Controls
          PROVE  LET s == [p.submission EXCEPT !.discarded = S]
                 IN  /\ s \in Submissions /\ s.id = p.submission.id
                     /\ s.base = p.submission.base /\ s.edits = p.submission.edits
                     /\ s.revisions = p.submission.revisions
                     /\ s.cancelled = p.submission.cancelled
      BY <2>1 DEF Submissions
    <2>3. D \in SUBSET Controls /\ K \in SUBSET Controls
      BY <2>1 DEF Submissions
    <2>4. /\ Discard(p, c) = [p EXCEPT !.submission = [p.submission EXCEPT !.discarded = D]]
          /\ KeepAgain(p, c) = [p EXCEPT !.submission = [p.submission EXCEPT !.discarded = K]]
      BY <1>2 DEF Discard, KeepAgain
    <2> HIDE DEF D, K
    <2>5. ASSUME NEW S \in SUBSET Controls, NEW q,
                 q = [p EXCEPT !.submission = [p.submission EXCEPT !.discarded = S]]
          PROVE  Calm(q, p) /\ SameEdits(q, p) /\ SameForm(q, p)
      <3> DEFINE s == [p.submission EXCEPT !.discarded = S]
      <3>1. /\ s \in Submissions /\ s.id = p.submission.id
            /\ s.base = p.submission.base /\ s.edits = p.submission.edits
            /\ s.revisions = p.submission.revisions
            /\ p.submission.cancelled \subseteq s.cancelled
        BY <2>2
      <3>2. q = [p EXCEPT !.submission = s]
        BY <2>5
      <3> HIDE DEF s
      <3> QED BY <1>2, <3>1, <3>2, SaveOf
    <2> QED BY <2>3, <2>4, <2>5
  <1> QED BY <1>1, <1>2

LEMMA SubmittedTyped ==
  ASSUME NEW p \in Pages
  PROVE  /\ p.submission # NoSubmission =>
              p.submission.edits \in [DOMAIN p.submission.edits -> Values]
         /\ submitted(p) \subseteq Controls
         /\ \A c \in submitted(p) : p.submission.edits[c] \in Values
  <1>1. p.submission # NoSubmission => p.submission.edits \in Edits
    BY SubmissionTyped DEF Submissions
  <1>2. p.submission # NoSubmission =>
          /\ p.submission.edits \in [DOMAIN p.submission.edits -> Values]
          /\ DOMAIN p.submission.edits \subseteq Controls
    BY <1>1 DEF Edits
  <1> QED BY <1>2 DEF submitted

LEMMA CancelIsCalm ==
  ASSUME NEW p \in Pages
  PROVE  /\ Calm(Cancel(p), p) /\ SameEdits(Cancel(p), p) /\ SameForm(Cancel(p), p)
         /\ Cancel(p).submission # NoSubmission => "key" \in Cancel(p).submission.cancelled
  <1>1. CASE p.submission = NoSubmission
    BY <1>1, SaveIsSame DEF Cancel, Calm, SameForm, SameEdits, SameReset, SameFlags
  <1>2. CASE p.submission # NoSubmission
    <2> DEFINE S == p.submission.cancelled \cup {"key"}
               s == [p.submission EXCEPT !.cancelled = S]
    <2>1. p.submission \in Submissions
      BY <1>2, SubmissionTyped
    <2>2. S \in SUBSET Controls /\ p.submission.cancelled \subseteq S /\ "key" \in S
      BY <2>1 DEF Submissions, Controls
    <2>3. Cancel(p) = [p EXCEPT !.submission = [p.submission EXCEPT !.cancelled = S]]
      BY <1>2 DEF Cancel
    <2> HIDE DEF S
    <2>4. /\ s \in Submissions /\ s.id = p.submission.id /\ s.base = p.submission.base
          /\ s.edits = p.submission.edits /\ s.revisions = p.submission.revisions
          /\ s.cancelled = S
      BY <2>1, <2>2 DEF Submissions
    <2>5. Cancel(p) = [p EXCEPT !.submission = s]
      BY <2>3
    <2> HIDE DEF s
    <2>6. Calm(Cancel(p), p) /\ SameEdits(Cancel(p), p) /\ SameForm(Cancel(p), p) /\ Cancel(p).submission = s
      BY <1>2, <2>2, <2>4, <2>5, SaveOf
    <2> QED BY <2>2, <2>4, <2>6
  <1> QED BY <1>1, <1>2

LEMMA CalmComposes ==
  ASSUME NEW p, NEW q, NEW w, Calm(q, p), Calm(w, q)
  PROVE  Calm(w, p)
  BY DEF Calm, SameReset, SameFlags, SameSave

\* What an edit can make of the token field: nothing new, no token, the newest value typed or
\* the value of the save under way.
TokenField(v, p) ==
  \/ v <= 0 \/ v = p.draft["key"] \/ v > p.edits
  \/ "key" \in submitted(p) /\ v = p.submission.edits["key"]

\* An edit gets a number of its own.
Renumbered(g, f, n, m) == \A c \in Controls : g[c] = f[c] \/ (g[c] > n /\ g[c] <= m)

Typing(q, p) ==
  /\ Calm(q, p) /\ q.edits >= p.edits
  /\ Renumbered(q.revisions, p.revisions, p.edits, q.edits)
  /\ TokenField(q.draft["key"], p)

\* One field of the draft gets a value, as an edit or as the undoing of one.
LEMMA FieldSet ==
  ASSUME NEW p \in Pages, NEW c \in Controls, NEW v \in Values, NEW q,
         q = recordFieldEdit([p EXCEPT !.draft[c] = v], c)
  PROVE  /\ Calm(q, p) /\ q.edits = p.edits + 1
         /\ q.revisions = [p.revisions EXCEPT ![c] = p.edits + 1]
         /\ q.draft = [p.draft EXCEPT ![c] = v]
         /\ q.submission = p.submission
  <1> DEFINE d == [p.draft EXCEPT ![c] = v]
             w == [p EXCEPT !.draft = d]
  <1>1. d \in Drafts
    BY DraftTyped DEF Drafts
  <1>2. q = recordFieldEdit(w, c)
    OBVIOUS
  <1>3. /\ w \in Pages /\ SameEdits(w, p) /\ SameReset(w, p) /\ SameFlags(w, p)
        /\ w.submission = p.submission /\ w.snapshot = p.snapshot /\ w.draft = d
    <2> DEFINE e == d
    <2> HIDE DEF d
    <2>1. \A u : u = w => /\ u \in Pages /\ SameEdits(u, p) /\ SameReset(u, p) /\ SameFlags(u, p)
                          /\ u.submission = p.submission /\ u.snapshot = p.snapshot /\ u.draft = d
      BY <1>1, DraftOf
    <2> QED BY <2>1
  <1> HIDE DEF w, d
  <1>4. /\ q \in Pages /\ SameForm(q, w) /\ SameReset(q, w) /\ SameFlags(q, w)
        /\ q.submission = w.submission
        /\ q.edits = w.edits + 1 /\ q.revisions = [w.revisions EXCEPT ![c] = w.edits + 1]
    BY <1>2, <1>3, EditOf
  <1>5. SameReset(q, p) /\ SameFlags(q, p) /\ q.snapshot = p.snapshot /\ q.draft = d
    BY <1>3, <1>4 DEF SameForm, SameReset, SameFlags
  <1>6. q.edits = p.edits + 1 /\ q.revisions = [p.revisions EXCEPT ![c] = p.edits + 1]
    BY <1>3, <1>4 DEF SameEdits
  <1>7. SameSave(q, p) /\ q.submission = p.submission
    BY <1>3, <1>4, SaveIsSame
  <1> QED BY <1>4, <1>5, <1>6, <1>7 DEF Calm, d

LEMMA RevertOf ==
  ASSUME NEW p \in Pages, NEW c \in Controls, NEW q, q = revertDraftField(p, c)
  PROVE  /\ Calm(q, p) /\ q.edits = p.edits + 1
         /\ q.revisions = [p.revisions EXCEPT ![c] = p.edits + 1]
         /\ q.draft = [p.draft EXCEPT ![c] = IF c \in submitted(p) THEN p.submission.edits[c] ELSE original(p)[c]]
  <1> DEFINE v == IF c \in submitted(p) THEN p.submission.edits[c] ELSE original(p)[c]
             w == recordFieldEdit([p EXCEPT !.draft[c] = v], c)
  <1>1. v \in Values
    BY SubmittedTyped, OriginalTyped DEF Drafts
  <1>2. q = Discard(w, c)
    BY DEF revertDraftField
  <1> HIDE DEF v
  <1>3. /\ Calm(w, p) /\ w.edits = p.edits + 1
        /\ w.revisions = [p.revisions EXCEPT ![c] = p.edits + 1]
        /\ w.draft = [p.draft EXCEPT ![c] = v]
    BY <1>1, FieldSet
  <1> HIDE DEF w
  <1>4. Calm(q, w) /\ SameEdits(q, w) /\ SameForm(q, w)
    BY <1>2, <1>3, DiscardIsCalm DEF Calm
  <1>5. Calm(q, p)
    BY <1>3, <1>4, CalmComposes
  <1>6. q.edits = p.edits + 1 /\ q.revisions = w.revisions /\ q.draft = w.draft
    BY <1>3, <1>4 DEF SameEdits, SameForm
  <1> QED BY <1>3, <1>5, <1>6 DEF v

LEMMA PageNumbers ==
  ASSUME NEW p \in Pages
  PROVE  /\ p.revisions \in Stamps /\ p.edits \in Nat /\ p.operations \in Nat
         /\ p.snapshot \in Snapshots /\ p.snapshot.revision \in Nat
         /\ p.draft["key"] \in Values /\ p.revisions["key"] \in Nat
         /\ p.submission # NoSubmission => p.submission.id \in Nat /\ p.submission.base \in Nat
  <1>1. p.submission # NoSubmission => p.submission \in Submissions
    BY SubmissionTyped
  <1>2. p.submission # NoSubmission => p.submission.id \in Nat /\ p.submission.base \in Nat
    BY <1>1, ServiceAssumption DEF Submissions
  <1>3. p.revisions \in Stamps /\ p.edits \in Nat /\ p.operations \in Nat /\ p.snapshot \in Snapshots
    BY DEF Pages
  <1>4. p.snapshot.revision \in Nat
    BY <1>3 DEF Snapshots
  <1>5. p.draft["key"] \in Values /\ p.revisions["key"] \in Nat
    BY <1>3, DraftTyped DEF Drafts, Stamps, Controls
  <1> QED BY <1>2, <1>3, <1>4, <1>5

LEMMA RevertedKey ==
  ASSUME NEW p \in Pages
  PROVE  /\ "key" \notin submitted(p) => original(p)["key"] <= 0
         /\ "key" \in Controls /\ "model" \in Controls
  BY OriginalTyped DEF Empty, Mask, Controls

LEMMA EditNumber ==
  ASSUME NEW f \in Stamps, NEW n \in Nat, NEW c \in Controls, NEW g, g = [f EXCEPT ![c] = n + 1]
  PROVE  Renumbered(g, f, n, n + 1)
  <1>1. \A e \in Controls : g[e] = IF e = c THEN n + 1 ELSE f[e]
    BY DEF Stamps
  <1>2. n + 1 > n /\ n + 1 <= n + 1
    OBVIOUS
  <1> QED BY <1>1, <1>2 DEF Renumbered

LEMMA RevertKeyTyping ==
  ASSUME NEW p \in Pages, NEW q, q = revertDraftField(p, "key")
  PROVE  Typing(q, p)
  <1>1. /\ Calm(q, p) /\ q.edits = p.edits + 1
        /\ q.revisions = [p.revisions EXCEPT !["key"] = p.edits + 1]
        /\ q.draft = [p.draft EXCEPT !["key"] = IF "key" \in submitted(p) THEN p.submission.edits["key"] ELSE original(p)["key"]]
    BY RevertOf, RevertedKey
  <1>2. q.revisions["key"] = p.edits + 1
    BY <1>1, PageNumbers DEF Stamps, Controls
  <1>3. q.draft["key"] = IF "key" \in submitted(p) THEN p.submission.edits["key"] ELSE original(p)["key"]
    BY <1>1, DraftTyped DEF Drafts, Controls
  <1>4. TokenField(q.draft["key"], p)
    BY <1>3, RevertedKey DEF TokenField
  <1>5. /\ q.edits >= p.edits
        /\ Renumbered(q.revisions, p.revisions, p.edits, q.edits)
    <2>1. "key" \in Controls /\ p.revisions \in Stamps /\ p.edits \in Nat
      BY PageNumbers, RevertedKey
    <2>2. Renumbered(q.revisions, p.revisions, p.edits, p.edits + 1)
      BY <1>1, <2>1, EditNumber
    <2>3. q.edits >= p.edits
      BY <1>1, <2>1
    <2> QED BY <1>1, <2>2, <2>3
  <1> QED BY <1>1, <1>4, <1>5 DEF Typing

LEMMA EditFieldTyping ==
  ASSUME page \in Pages, NEW c \in Controls, EditField(c)
  PROVE  Typing(page', page)
  <1>1. PICK v \in {page.edits + 1, original(page)[c]} \ {page.draft[c]} :
          page' = KeepAgain(recordFieldEdit([page EXCEPT !.draft[c] = v], c), c)
    BY DEF EditField
  <1> DEFINE w == recordFieldEdit([page EXCEPT !.draft[c] = v], c)
  <1>2. v \in Values
    BY OriginalTyped, PageNumbers DEF Drafts, Values
  <1>3. /\ Calm(w, page) /\ w.edits = page.edits + 1
        /\ w.revisions = [page.revisions EXCEPT ![c] = page.edits + 1]
        /\ w.draft = [page.draft EXCEPT ![c] = v]
    BY <1>2, FieldSet
  <1>4. page' = KeepAgain(w, c)
    BY <1>1
  <1> HIDE DEF w
  <1>5. Calm(page', w) /\ SameEdits(page', w) /\ SameForm(page', w)
    BY <1>3, <1>4, DiscardIsCalm DEF Calm
  <1>6. Calm(page', page)
    BY <1>3, <1>5, CalmComposes
  <1>7. page'.edits = page.edits + 1 /\ page'.revisions = w.revisions /\ page'.draft = w.draft
    BY <1>3, <1>5 DEF SameEdits, SameForm
  <1>8. Renumbered(page'.revisions, page.revisions, page.edits, page'.edits)
    <2>1. page.revisions \in Stamps /\ page.edits \in Nat
      BY PageNumbers
    <2>2. Renumbered(w.revisions, page.revisions, page.edits, page.edits + 1)
      BY <1>3, <2>1, EditNumber
    <2> QED BY <1>7, <2>2
  <1>9. page'.draft["key"] = IF c = "key" THEN v ELSE page.draft["key"]
    BY <1>3, <1>7, DraftTyped DEF Drafts, Controls
  <1>10. TokenField(page'.draft["key"], page)
    <2>1. c = "key" => original(page)[c] <= 0
      BY OriginalTyped DEF Empty, Mask
    <2>2. page.edits + 1 > page.edits
      BY PageNumbers
    <2> QED BY <1>9, <2>1, <2>2 DEF TokenField
  <1> QED BY <1>6, <1>7, <1>8, <1>10, PageNumbers DEF Typing

LEMMA RevertFrameTyping ==
  ASSUME page \in Pages, RevertFrame
  PROVE  Typing(page', page)
  <1> DEFINE w == revertDraftField(page, "model")
  <1>1. /\ Calm(w, page) /\ w.edits = page.edits + 1
        /\ w.revisions = [page.revisions EXCEPT !["model"] = page.edits + 1]
        /\ w.draft = [page.draft EXCEPT !["model"] = IF "model" \in submitted(page) THEN page.submission.edits["model"] ELSE original(page)["model"]]
    BY RevertOf, RevertedKey
  <1>2. page' = revertDraftField(w, "key")
    BY DEF RevertFrame
  <1> HIDE DEF w
  <1>3. Typing(page', w)
    BY <1>1, <1>2, RevertKeyTyping DEF Calm
  <1>4. w.draft["key"] = page.draft["key"] /\ w.revisions["key"] = page.revisions["key"]
    BY <1>1, DraftTyped, PageNumbers DEF Drafts, Stamps, Controls
  <1>5. Calm(page', page)
    BY <1>1, <1>3, CalmComposes DEF Typing
  <1>6. page'.edits >= page.edits
    BY <1>1, <1>3, <1>5, PageNumbers DEF Typing, Calm
  <1>7. "key" \in submitted(w) => "key" \in submitted(page) /\ w.submission.edits = page.submission.edits
    BY <1>1 DEF Calm, SameSave, submitted
  <1>8. TokenField(page'.draft["key"], page)
    <2>1. page'.draft["key"] > w.edits => page'.draft["key"] > page.edits
      BY <1>1, <1>5, PageNumbers DEF Calm, Values, Mask
    <2> QED BY <1>3, <1>4, <1>7, <2>1 DEF Typing, TokenField
  <1>9. Renumbered(page'.revisions, page.revisions, page.edits, page'.edits)
    <2> SUFFICES ASSUME NEW c \in Controls
                 PROVE  \/ page'.revisions[c] = page.revisions[c]
                        \/ page'.revisions[c] > page.edits /\ page'.revisions[c] <= page'.edits
      BY DEF Renumbered
    <2>1. \/ page'.revisions[c] = w.revisions[c]
          \/ page'.revisions[c] > w.edits /\ page'.revisions[c] <= page'.edits
      BY <1>3 DEF Typing, Renumbered
    <2>2. w.revisions[c] = page.revisions[c] \/ w.revisions[c] = page.edits + 1
      BY <1>1, PageNumbers DEF Stamps
    <2>3. w.revisions[c] \in Nat /\ page'.revisions[c] \in Nat /\ page'.edits \in Nat /\ page.edits \in Nat
      BY <1>1, <1>5, PageNumbers DEF Calm, Stamps
    <2>4. page'.edits >= w.edits
      BY <1>3 DEF Typing
    <2>5. w.edits = page.edits + 1
      BY <1>1
    <2>6. CASE page'.revisions[c] = w.revisions[c] /\ w.revisions[c] = page.edits + 1
      BY <2>3, <2>4, <2>5, <2>6
    <2>7. CASE page'.revisions[c] > w.edits /\ page'.revisions[c] <= page'.edits
      BY <2>3, <2>5, <2>7
    <2> QED BY <2>1, <2>2, <2>6, <2>7
  <1> QED BY <1>5, <1>6, <1>8, <1>9 DEF Typing

LEMMA DiscardTyping ==
  ASSUME page \in Pages, discardGlobalDraft
  PROVE  Typing(page', page)
  <1>1. page' = [page EXCEPT !.draft = original(page)] /\ original(page) \in Drafts
    BY OriginalTyped DEF discardGlobalDraft
  <1>2. /\ page' \in Pages /\ SameEdits(page', page) /\ SameReset(page', page) /\ SameFlags(page', page)
        /\ page'.submission = page.submission /\ page'.snapshot = page.snapshot
        /\ page'.draft = original(page)
    BY <1>1, DraftOf
  <1>3. page'.draft["key"] <= 0
    BY <1>2, OriginalTyped DEF Empty, Mask
  <1>4. SameSave(page', page)
    BY <1>2, SaveIsSame
  <1> QED BY <1>2, <1>3, <1>4, PageNumbers DEF Typing, Calm, TokenField, SameEdits, Renumbered

-----------------------------------------------------------------------------
(* What each step does to the page and to the requests *)

SameSaving(q, p) ==
  /\ q.submission = p.submission /\ q.unconfirmed = p.unconfirmed
  /\ q.restartRequired = p.restartRequired

\* The form takes a snapshot if it is newer; each field is kept where `kept` says, and shown as
\* it is saved elsewhere.
FormTakes(q, p, s, kept) ==
  /\ q.snapshot = IF IsNewer(p, s) THEN s ELSE p.snapshot
  /\ \A c \in Controls : q.draft[c] = IF c \in kept THEN p.draft[c] ELSE original(q)[c]

\* q has just made a submission of its draft.
Submitting(q, p) ==
  /\ q.submission \in Submissions
  /\ q.submission.id = p.operations + 1 /\ q.operations = p.operations + 1
  /\ q.submission.base = q.snapshot.revision
  /\ \A c \in DOMAIN q.submission.edits : q.submission.edits[c] = q.draft[c]

LEMMA SubmissionDistinct == \A s \in Submissions : s # NoSubmission
  BY ServiceAssumption DEF Submissions, NoSubmission

LEMMA SubmitOf ==
  ASSUME NEW p \in Pages, p.operations + 1 \in Ids, NEW q, q = Submit(p)
  PROVE  /\ q \in Pages /\ Submitting(q, p) /\ SameForm(q, p) /\ SameEdits(q, p) /\ SameReset(q, p)
         /\ q.pending = p.pending /\ q.unconfirmed = p.unconfirmed
         /\ q.restartRequired = p.restartRequired
  <1> DEFINE s == newSettingsSubmission(p)
             e == [c \in Dirty(p) |-> p.draft[c]]
  <1>1. e \in Edits /\ DOMAIN e = Dirty(p) /\ \A c \in Dirty(p) : e[c] = p.draft[c]
    <2>1. Dirty(p) \in SUBSET Controls
      BY DEF Dirty
    <2>2. \A c \in Dirty(p) : p.draft[c] \in Values
      BY <2>1, DraftTyped DEF Drafts
    <2>3. e \in [Dirty(p) -> Values]
      BY <2>2
    <2> QED BY <2>1, <2>3 DEF Edits
  <1>2. s = [id |-> p.operations + 1, base |-> p.snapshot.revision, revisions |-> p.revisions,
             edits |-> e, discarded |-> {}, cancelled |-> {}]
    BY DEF newSettingsSubmission
  <1>3. q = [[p EXCEPT !.submission = s] EXCEPT !.operations = p.operations + 1]
    BY DEF Submit, newSettingsSubmission
  <1> HIDE DEF e
  <1>4. s \in Submissions /\ s.id = p.operations + 1 /\ s.base = p.snapshot.revision /\ s.edits = e
    BY <1>1, <1>2, PageNumbers DEF Submissions
  <1> HIDE DEF s
  <1>5. p.operations + 1 \in Nat
    BY PageNumbers
  <1>6. /\ q \in Pages /\ SameForm(q, p) /\ SameEdits(q, p) /\ SameReset(q, p)
        /\ q.pending = p.pending /\ q.unconfirmed = p.unconfirmed /\ q.restartRequired = p.restartRequired
        /\ q.submission = s /\ q.operations = p.operations + 1
    BY <1>3, <1>4, <1>5 DEF Pages, SameForm, SameEdits, SameReset
  <1>7. Submitting(q, p)
    BY <1>1, <1>4, <1>6 DEF Submitting, SameForm
  <1> QED BY <1>6, <1>7

LEMMA SentOf ==
  ASSUME NEW op \in Operations, NEW v \in Stamps, NEW x, x = Sent(op, v)
  PROVE  x \in Requests /\ x.op = op /\ x.revisions = v /\ x.heard /\ x.stage = "sent"
  BY DEF Sent, Requests

LEMMA PostTyped ==
  ASSUME NEW p \in Pages, p.submission # NoSubmission
  PROVE  /\ Post(p) \in Requests /\ Post(p).heard /\ Post(p).stage = "sent"
         /\ Post(p).op.kind = "commit" /\ Post(p).op.id = p.submission.id
         /\ Post(p).op.base = p.submission.base /\ Post(p).op.edits = p.submission.edits
         /\ Post(p).revisions = p.submission.revisions
  <1> DEFINE op == [id |-> p.submission.id, kind |-> "commit", base |-> p.submission.base,
                    edits |-> p.submission.edits]
  <1>1. p.submission \in Submissions
    BY SubmissionTyped
  <1>2. op \in Operations /\ p.submission.revisions \in Stamps
    BY <1>1 DEF Submissions, Operations
  <1>3. Post(p) = Sent(op, p.submission.revisions)
    BY DEF Post
  <1>4. op.kind = "commit" /\ op.id = p.submission.id /\ op.base = p.submission.base /\ op.edits = p.submission.edits
    OBVIOUS
  <1> HIDE DEF op
  <1> QED BY <1>2, <1>3, <1>4, SentOf

\* Apply, for the first time or again.
BeginsSave ==
  /\ page' \in Pages
  /\ page.submission = NoSubmission /\ ~ page.pending /\ ~ page.restartRequired
  /\ Submitting(page', page) /\ page'.pending /\ page'.unconfirmed = page.unconfirmed
  /\ ~ page'.restartRequired
  /\ SameForm(page', page) /\ SameEdits(page', page) /\ SameReset(page', page)
  /\ net' = net \cup {Post(page')} /\ told' = told /\ wiped' = wiped /\ UNCHANGED serviceVars

RepeatsSave ==
  /\ page' \in Pages
  /\ page.submission # NoSubmission /\ ~ page.pending /\ ~ page.restartRequired
  /\ page'.pending /\ SameSaving(page', page) /\ page'.operations = page.operations
  /\ SameForm(page', page) /\ SameEdits(page', page) /\ SameReset(page', page)
  /\ net' = net \cup {Post(page')} /\ told' = told /\ wiped' = wiped /\ UNCHANGED serviceVars

LEMMA ApplySteps ==
  ASSUME page \in Pages, commitGlobalDraft
  PROVE  BeginsSave \/ RepeatsSave
  <1>1. CASE page.submission = NoSubmission
    <2> DEFINE w == Submit(page)
    <2>1. page.operations + 1 \in Ids
      BY <1>1 DEF commitGlobalDraft, CanAsk
    <2>2. /\ w \in Pages /\ Submitting(w, page) /\ SameForm(w, page) /\ SameEdits(w, page)
          /\ SameReset(w, page) /\ w.pending = page.pending /\ w.unconfirmed = page.unconfirmed
          /\ w.restartRequired = page.restartRequired
      BY <2>1, SubmitOf
    <2>3. page' = [w EXCEPT !.pending = TRUE, !.again = FALSE] /\ net' = net \cup {Post(page')}
      BY <1>1 DEF commitGlobalDraft
    <2> HIDE DEF w
    <2>4. /\ page' \in Pages /\ SameForm(page', w) /\ SameEdits(page', w) /\ SameReset(page', w)
          /\ page'.pending /\ page'.unconfirmed = w.unconfirmed
          /\ page'.restartRequired = w.restartRequired /\ page'.submission = w.submission
          /\ page'.operations = w.operations
      BY <2>2, <2>3 DEF Pages, SameForm, SameEdits, SameReset
    <2>5. Submitting(page', page)
      BY <2>2, <2>4 DEF Submitting, SameForm
    <2>6. SameForm(page', page) /\ SameEdits(page', page) /\ SameReset(page', page)
      BY <2>2, <2>4 DEF SameForm, SameEdits, SameReset
    <2> QED BY <1>1, <2>2, <2>3, <2>4, <2>5, <2>6 DEF BeginsSave, commitGlobalDraft
  <1>2. CASE page.submission # NoSubmission
    <2>1. page' = [page EXCEPT !.pending = TRUE, !.again = TRUE] /\ net' = net \cup {Post(page')}
      BY <1>2 DEF commitGlobalDraft
    <2>2. /\ page' \in Pages /\ SameForm(page', page) /\ SameEdits(page', page)
          /\ SameReset(page', page) /\ page'.pending /\ SameSaving(page', page)
          /\ page'.operations = page.operations
      BY <2>1 DEF Pages, SameForm, SameEdits, SameReset, SameSaving
    <2> QED BY <1>2, <2>1, <2>2 DEF RepeatsSave, commitGlobalDraft
  <1> QED BY <1>1, <1>2

\* The wipe and the reset are asked for.
Asks(x) ==
  /\ page' \in Pages
  /\ x \in Requests /\ x.stage = "sent" /\ x.heard /\ x.op.kind \in {"wipe", "reset"}
  /\ x.op.id = page.operations + 1 /\ x.op.base = page.snapshot.revision
  /\ page'.operations = page.operations + 1
  /\ SameSaving(page', page) /\ page'.pending = page.pending
  /\ SameForm(page', page) /\ SameEdits(page', page)
  /\ page'.resetUnconfirmed = page.resetUnconfirmed
  /\ net' = net \cup {x} /\ told' = told /\ wiped' = wiped /\ UNCHANGED serviceVars

LEMMA RequestMade ==
  ASSUME page \in Pages, NEW kind \in {"wipe", "reset"}, CanAsk,
         NEW x, x = Sent(Operation(page, kind, NoEdits), page.revisions)
  PROVE  /\ x \in Requests /\ x.stage = "sent" /\ x.heard /\ x.op.kind = kind
         /\ x.op.id = page.operations + 1 /\ x.op.base = page.snapshot.revision
  <1> DEFINE op == Operation(page, kind, NoEdits)
  <1>1. NoEdits \in Edits
    <2>1. NoEdits \in [{} -> Values] /\ {} \in SUBSET Controls
      BY DEF NoEdits
    <2> QED BY <2>1 DEF Edits
  <1>2. op \in Operations /\ op.kind = kind /\ op.id = page.operations + 1 /\ op.base = page.snapshot.revision
    BY <1>1, PageNumbers DEF Operation, Operations, CanAsk
  <1>3. x = Sent(op, page.revisions) /\ page.revisions \in Stamps
    BY PageNumbers
  <1> HIDE DEF op
  <1> QED BY <1>2, <1>3, SentOf

LEMMA AskSteps ==
  ASSUME page \in Pages, wipeToken \/ resetSettings
  PROVE  \E x : Asks(x)
  <1>1. PICK kind \in {"wipe", "reset"} : \E p \in {page, [page EXCEPT !.resetRevisions = page.revisions]} : AskFor(kind, p)
    BY DEF wipeToken, resetSettings
  <1>2. PICK p \in {page, [page EXCEPT !.resetRevisions = page.revisions]} : AskFor(kind, p)
    BY <1>1
  <1>3. page.revisions \in [Controls -> Nat \cup {-1}]
    BY PageNumbers DEF Stamps
  <1>4. /\ p \in Pages /\ SameForm(p, page) /\ SameEdits(p, page) /\ SameFlags(p, page)
        /\ p.submission = page.submission /\ p.resetUnconfirmed = page.resetUnconfirmed
    <2>1. CASE p = page
      BY <2>1 DEF SameForm, SameEdits, SameFlags
    <2>2. CASE p = [page EXCEPT !.resetRevisions = page.revisions]
      BY <1>3, <2>2 DEF Pages, SameForm, SameEdits, SameFlags
    <2> QED BY <1>2, <2>1, <2>2
  <1>5. page' = [p EXCEPT !.operations = p.operations + 1] /\ CanAsk
    BY <1>2 DEF AskFor
  <1>6. p.operations + 1 \in Nat
    BY <1>4, PageNumbers
  <1>7. /\ page' \in Pages /\ SameForm(page', p) /\ SameEdits(page', p) /\ SameSaving(page', p)
        /\ page'.operations = p.operations + 1 /\ page'.pending = p.pending
        /\ page'.resetUnconfirmed = p.resetUnconfirmed
    BY <1>4, <1>5, <1>6 DEF Pages, SameForm, SameEdits, SameSaving
  <1>8. page'.operations = page.operations + 1 /\ page'.pending = page.pending /\ SameSaving(page', page)
    BY <1>4, <1>7 DEF SameSaving, SameFlags
  <1>9. SameForm(page', page) /\ SameEdits(page', page) /\ page'.resetUnconfirmed = page.resetUnconfirmed
    BY <1>4, <1>7 DEF SameForm, SameEdits
  <1> DEFINE x == Sent(Operation(page, kind, NoEdits), page.revisions)
  <1>10. /\ x \in Requests /\ x.stage = "sent" /\ x.heard /\ x.op.kind = kind
         /\ x.op.id = page.operations + 1 /\ x.op.base = page.snapshot.revision
    <2> HIDE DEF x
    <2>1. \A y : y = x => y = Sent(Operation(page, kind, NoEdits), page.revisions)
      BY DEF x
    <2> QED BY <1>5, <2>1, RequestMade
  <1>11. net' = net \cup {x} /\ told' = told /\ wiped' = wiped /\ UNCHANGED serviceVars
    BY <1>2 DEF AskFor
  <1> HIDE DEF x
  <1> QED BY <1>7, <1>8, <1>9, <1>10, <1>11 DEF Asks

\* The reply to a save settles it; then the page may send one more for what was typed since.
SaveSettled(q, r, kept) ==
  /\ q \in Pages /\ FormTakes(q, page, r.snapshot, kept)
  /\ SameEdits(q, page) /\ SameReset(q, page)
  /\ q.restartRequired = page.restartRequired /\ ~ q.unconfirmed

SaveEnds(r, kept) ==
  /\ r.status \in {"success", "error", "superseded"}
  /\ SaveSettled(page', r, kept) /\ page'.submission = NoSubmission
  /\ page'.operations = page.operations /\ ~ page'.pending
  /\ net' = net \ {r}

SaveGoesOn(r, kept) ==
  /\ r.status \in {"success", "error", "superseded"}
  /\ SaveSettled(page', r, kept) /\ Submitting(page', page) /\ page'.pending = page.pending
  /\ net' = (net \ {r}) \cup {Post(page')}

SaveUnsure(unknown) ==
  /\ page' \in Pages /\ page'.submission = page.submission
  /\ SameForm(page', page) /\ SameEdits(page', page) /\ SameReset(page', page)
  /\ page'.operations = page.operations /\ page'.unconfirmed /\ ~ page'.pending
  /\ page'.restartRequired = (page.restartRequired \/ unknown)

\* What the user typed after the operation was sent and has not dropped since.
Protected(r) == TypedSince(r) \ Dropped

LEMMA SettledOf ==
  ASSUME page \in Pages, NEW r, r.snapshot \in Snapshots, NEW kept,
         r.status \in {"success", "error", "superseded"},
         Continue(Settled(Reconcile(page, r.snapshot, kept)), net \ {r})
  PROVE  SaveEnds(r, kept) \/ SaveGoesOn(r, kept)
  <1> DEFINE n == Reconcile(page, r.snapshot, kept)
             p == Settled(n)
  <1>1. /\ n \in Pages /\ SameEdits(n, page) /\ SameReset(n, page) /\ SameFlags(n, page)
        /\ n.snapshot = IF IsNewer(page, r.snapshot) THEN r.snapshot ELSE page.snapshot
        /\ \A c \in Controls : n.draft[c] = IF c \in kept THEN page.draft[c] ELSE original(n)[c]
    BY ReconcileOf
  <1>2. p = [n EXCEPT !.submission = NoSubmission, !.unconfirmed = FALSE]
    BY DEF Settled
  <1>3. Continue(p, net \ {r})
    OBVIOUS
  <1> HIDE DEF n, p
  <1>4. /\ p \in Pages /\ SameForm(p, n) /\ SameEdits(p, n) /\ SameReset(p, n)
        /\ p.submission = NoSubmission /\ ~ p.unconfirmed
        /\ p.restartRequired = n.restartRequired /\ p.operations = n.operations
        /\ p.pending = n.pending
    BY <1>1, <1>2 DEF Pages, SameForm, SameEdits, SameReset
  <1>5. ASSUME NEW q \in Pages, SameForm(q, p), SameEdits(q, p), SameReset(q, p),
               ~ q.unconfirmed, q.restartRequired = p.restartRequired
        PROVE  SaveSettled(q, r, kept)
    <2>1. original(q) = original(n)
      BY <1>4, <1>5 DEF SameForm, original
    <2>2. q.snapshot = n.snapshot /\ q.draft = n.draft
      BY <1>4, <1>5 DEF SameForm
    <2>3. FormTakes(q, page, r.snapshot, kept)
      BY <1>1, <2>1, <2>2 DEF FormTakes
    <2>4. SameEdits(q, page) /\ SameReset(q, page) /\ q.restartRequired = page.restartRequired
      BY <1>1, <1>4, <1>5 DEF SameEdits, SameReset, SameFlags
    <2> QED BY <1>5, <2>3, <2>4 DEF SaveSettled
  <1>6. CASE p.again /\ Dirty(p) # {} /\ CanAsk
    <2> DEFINE w == Submit(p)
    <2>1. p.operations + 1 \in Ids /\ p.operations = page.operations /\ p.pending = page.pending
      BY <1>1, <1>4, <1>6 DEF SameFlags, CanAsk
    <2>2. /\ w \in Pages /\ Submitting(w, p) /\ SameForm(w, p) /\ SameEdits(w, p)
          /\ SameReset(w, p) /\ w.pending = p.pending /\ w.unconfirmed = p.unconfirmed
          /\ w.restartRequired = p.restartRequired
      BY <1>4, <2>1, SubmitOf
    <2>3. page' = [w EXCEPT !.again = FALSE] /\ net' = (net \ {r}) \cup {Post(page')}
      BY <1>3, <1>6 DEF Continue
    <2> HIDE DEF w
    <2>4. /\ page' \in Pages /\ SameForm(page', w) /\ SameEdits(page', w) /\ SameReset(page', w)
          /\ page'.pending = w.pending /\ page'.unconfirmed = w.unconfirmed
          /\ page'.restartRequired = w.restartRequired /\ page'.submission = w.submission
          /\ page'.operations = w.operations
      BY <2>2, <2>3 DEF Pages, SameForm, SameEdits, SameReset
    <2>5. Submitting(page', page)
      BY <2>1, <2>2, <2>4 DEF Submitting, SameForm
    <2>6. SameForm(page', p) /\ SameEdits(page', p) /\ SameReset(page', p)
      BY <2>2, <2>4 DEF SameForm, SameEdits, SameReset
    <2>7. SaveSettled(page', r, kept)
      BY <1>4, <1>5, <2>2, <2>4, <2>6
    <2> QED BY <2>1, <2>2, <2>3, <2>4, <2>5, <2>7 DEF SaveGoesOn
  <1>7. CASE ~ (p.again /\ Dirty(p) # {} /\ CanAsk)
    <2>1. page' = [p EXCEPT !.pending = FALSE] /\ net' = net \ {r}
      BY <1>3, <1>7 DEF Continue
    <2>2. /\ page' \in Pages /\ SameForm(page', p) /\ SameEdits(page', p) /\ SameReset(page', p)
          /\ ~ page'.pending /\ page'.unconfirmed = p.unconfirmed
          /\ page'.restartRequired = p.restartRequired /\ page'.submission = p.submission
          /\ page'.operations = p.operations
      BY <1>4, <2>1 DEF Pages, SameForm, SameEdits, SameReset
    <2>3. SaveSettled(page', r, kept)
      BY <1>4, <1>5, <2>2
    <2> QED BY <1>1, <1>4, <2>1, <2>2, <2>3 DEF SaveEnds, SameFlags
  <1> QED BY <1>6, <1>7

LEMMA UnsureOf ==
  ASSUME page \in Pages, NEW others, NEW unknown \in BOOLEAN,
         NEW p, p = (IF unknown THEN [page EXCEPT !.restartRequired = TRUE] ELSE page),
         CommitUnsure(p, others)
  PROVE  SaveUnsure(unknown) /\ net' = others
  <1>1. page' = [p EXCEPT !.unconfirmed = TRUE, !.pending = FALSE] /\ net' = others
    BY DEF CommitUnsure
  <1>2. /\ p \in Pages /\ p.submission = page.submission
        /\ SameForm(p, page) /\ SameEdits(p, page) /\ SameReset(p, page)
        /\ p.operations = page.operations
        /\ p.restartRequired = (page.restartRequired \/ unknown)
    <2>1. CASE unknown
      BY <2>1 DEF Pages, SameForm, SameEdits, SameReset
    <2>2. CASE ~ unknown
      <3>1. page.restartRequired \in BOOLEAN
        BY DEF Pages
      <3> QED BY <2>2, <3>1 DEF SameForm, SameEdits, SameReset
    <2> QED BY <2>1, <2>2
  <1>3. /\ page' \in Pages /\ page'.submission = p.submission
        /\ SameForm(page', p) /\ SameEdits(page', p) /\ SameReset(page', p)
        /\ page'.operations = p.operations /\ page'.unconfirmed /\ ~ page'.pending
        /\ page'.restartRequired = p.restartRequired
    BY <1>1, <1>2 DEF Pages, SameForm, SameEdits, SameReset
  <1>4. SameForm(page', page) /\ SameEdits(page', page) /\ SameReset(page', page)
    BY <1>2, <1>3 DEF SameForm, SameEdits, SameReset
  <1> QED BY <1>1, <1>2, <1>3, <1>4 DEF SaveUnsure

LEMMA TypedSinceIsLater ==
  ASSUME page \in Pages, NEW r, r.revisions \in Stamps, NEW c \in TypedSince(r)
  PROVE  c \in Controls /\ page.revisions[c] # r.revisions[c] /\ c \in Dirty(page)
  <1>1. c \in Controls /\ page.revisions[c] > r.revisions[c] /\ page.draft[c] # original(page)[c]
    BY DEF TypedSince
  <1>2. page.revisions[c] \in Nat /\ r.revisions[c] \in Nat
    BY <1>1, PageNumbers DEF Stamps
  <1> QED BY <1>1, <1>2 DEF Dirty, isDirty

LEMMA TakeCommitSteps ==
  ASSUME Types, NEW r \in net, r.stage = "answered", TakeCommit(r),
         page.submission # NoSubmission, r.revisions = page.submission.revisions
  PROVE  \/ \E kept : Protected(r) \subseteq kept /\ (SaveEnds(r, kept) \/ SaveGoesOn(r, kept))
         \/ SaveUnsure(r.status = "unknown") /\ net' = net \ {r} /\ r.status \in {"fatal", "unknown"}
  <1>1. page \in Pages /\ r.snapshot \in Snapshots /\ r.revisions \in Stamps
    BY DEF Types, PageTypes, Requests
  <1>2. CASE r.status = "success" /\ CommitSucceeded(r)
    <2>1. Protected(r) \subseteq Late(page)
      BY <1>1, TypedSinceIsLater DEF Protected, Late, Dropped
    <2>2. Continue(Settled(Reconcile(page, r.snapshot, Late(page))), net \ {r})
      BY <1>2 DEF CommitSucceeded
    <2>3. SaveEnds(r, Late(page)) \/ SaveGoesOn(r, Late(page))
      BY <1>1, <1>2, <2>2, SettledOf
    <2> QED BY <2>1, <2>3
  <1>3. CASE r.status \in {"error", "superseded"} /\ CommitRejected(r)
    <2> DEFINE known == IF IsNewer(page, r.snapshot) THEN r.snapshot ELSE page.snapshot
               dropped == IF r.status = "superseded" THEN {c \in Controls : Overtaken(page, known, c)} ELSE {}
               kept == Dirty(page) \ dropped
    <2>1. Protected(r) \subseteq kept
      <3>1. \A c \in dropped : page.revisions[c] = r.revisions[c]
        BY DEF Overtaken
      <3> QED BY <1>1, <3>1, TypedSinceIsLater DEF Protected
    <2>2. Continue(Settled(Reconcile(page, r.snapshot, kept)), net \ {r})
      BY <1>3 DEF CommitRejected
    <2> HIDE DEF kept
    <2>3. SaveEnds(r, kept) \/ SaveGoesOn(r, kept)
      BY <1>1, <1>3, <2>2, SettledOf
    <2> QED BY <2>1, <2>3
  <1>4. CASE r.status = "fatal" /\ CommitUnsure(page, net \ {r})
    <2>1. SaveUnsure(FALSE) /\ net' = net \ {r}
      BY <1>1, <1>4, UnsureOf
    <2> QED BY <1>4, <2>1
  <1>5. CASE r.status = "unknown" /\ CommitUnsure([page EXCEPT !.restartRequired = TRUE], net \ {r})
    <2> DEFINE p == [page EXCEPT !.restartRequired = TRUE]
    <2>1. CommitUnsure(p, net \ {r}) /\ p = (IF TRUE THEN [page EXCEPT !.restartRequired = TRUE] ELSE page)
      BY <1>5
    <2> HIDE DEF p
    <2>2. SaveUnsure(TRUE) /\ net' = net \ {r}
      BY <1>1, <2>1, UnsureOf
    <2> QED BY <1>5, <2>2
  <1> QED BY <1>2, <1>3, <1>4, <1>5 DEF TakeCommit, CommitAnswered

\* The reply to a wipe or a reset: the save under way goes on.
AnswerShown(r, kept) ==
  /\ page' \in Pages /\ SameFlags(page', page) /\ SameReset(page', page) /\ SameSave(page', page)
  /\ IF r.status = "unknown" THEN SameForm(page', page)
     ELSE FormTakes(page', page, r.snapshot, kept)
  /\ net' = net \ {r}

\* The token typed before the wipe goes.
TokenCleared(r, kept) ==
  /\ IsNewer(page, r.snapshot) /\ r.status # "unknown" /\ "key" \notin kept
  /\ page'.edits = page.edits + 1 /\ page'.revisions = [page.revisions EXCEPT !["key"] = page.edits + 1]
  /\ page'.submission # NoSubmission => "key" \in page'.submission.cancelled
  /\ wiped' = IF r.snapshot.key = Empty THEN page.revisions["key"] ELSE wiped

Shown(r, kept) ==
  /\ AnswerShown(r, kept)
  /\ \/ SameEdits(page', page) /\ wiped' = wiped
     \/ TokenCleared(r, kept)

LEMMA PageIsSame ==
  ASSUME page \in Pages, page' = page
  PROVE  /\ page' \in Pages /\ SameFlags(page', page) /\ SameReset(page', page)
         /\ SameSave(page', page) /\ SameForm(page', page) /\ SameEdits(page', page)
  BY DEF SameFlags, SameReset, SameSave, SameForm, SameEdits

\* A snapshot that is not news changes nothing.
LEMMA NoNews ==
  ASSUME page \in Pages, NEW r, ~ IsNewer(page, r.snapshot), page' = page, net' = net \ {r}, wiped' = wiped
  PROVE  Shown(r, Controls)
  <1>1. FormTakes(page', page, r.snapshot, Controls)
    BY DEF FormTakes
  <1> QED BY <1>1, PageIsSame DEF Shown, AnswerShown

\* A snapshot that is.
LEMMA News ==
  ASSUME page \in Pages, NEW r, r.snapshot \in Snapshots, NEW kept, r.status # "unknown",
         page' = Reconcile(page, r.snapshot, kept), net' = net \ {r}, wiped' = wiped
  PROVE  Shown(r, kept)
  <1>1. /\ page' \in Pages /\ SameEdits(page', page) /\ SameReset(page', page)
        /\ SameFlags(page', page) /\ page'.submission = page.submission
        /\ FormTakes(page', page, r.snapshot, kept)
    BY ReconcileOf DEF FormTakes
  <1> QED BY <1>1, SaveIsSame DEF Shown, AnswerShown

LEMMA FailureShown ==
  ASSUME Types, NEW r \in net, r.stage = "answered", OperationFailed(r), net' = net \ {r}, wiped' = wiped
  PROVE  \E kept : Protected(r) \subseteq kept /\ Shown(r, kept)
  <1>1. page \in Pages /\ r.snapshot \in Snapshots /\ r.revisions \in Stamps
    BY DEF Types, PageTypes, Requests
  <1>2. Protected(r) \subseteq Controls /\ Protected(r) \subseteq Dirty(page)
    BY <1>1, TypedSinceIsLater DEF Protected
  <1>3. CASE r.status = "unknown"
    <2>1. page' = page
      BY <1>3 DEF OperationFailed
    <2> QED BY <1>1, <1>2, <1>3, <2>1, PageIsSame DEF Shown, AnswerShown
  <1>4. CASE r.status # "unknown" /\ ~ IsNewer(page, r.snapshot)
    BY <1>1, <1>2, <1>4, NoNews DEF OperationFailed
  <1>5. CASE r.status # "unknown" /\ IsNewer(page, r.snapshot)
    BY <1>1, <1>2, <1>5, News DEF OperationFailed
  <1> QED BY <1>3, <1>4, <1>5

LEMMA TakeResetSteps ==
  ASSUME Types, NEW r \in net, r.stage = "answered", TakeReset(r)
  PROVE  \E kept : Protected(r) \subseteq kept /\ Shown(r, kept)
  <1>1. page \in Pages /\ r.snapshot \in Snapshots /\ r.revisions \in Stamps
    BY DEF Types, PageTypes, Requests
  <1>2. CASE r.status = "success"
    <2> DEFINE kept == {c \in Controls : page.revisions[c] # r.revisions[c]}
    <2>1. Protected(r) \subseteq kept /\ Protected(r) \subseteq Controls
      BY <1>1, TypedSinceIsLater DEF Protected
    <2>2. net' = net \ {r} /\ wiped' = wiped /\ ResetSucceeded(r)
      BY <1>2 DEF TakeReset
    <2>3. CASE IsNewer(page, r.snapshot)
      <3>1. page' = Reconcile(page, r.snapshot, kept)
        BY <2>2, <2>3 DEF ResetSucceeded
      <3> HIDE DEF kept
      <3> QED BY <1>1, <1>2, <2>1, <2>2, <3>1, News
    <2>4. CASE ~ IsNewer(page, r.snapshot)
      BY <1>1, <2>1, <2>2, <2>4, NoNews DEF ResetSucceeded
    <2> QED BY <2>3, <2>4
  <1>3. CASE r.status # "success"
    BY <1>3, FailureShown DEF TakeReset
  <1> QED BY <1>2, <1>3

LEMMA WipeShown ==
  ASSUME Types, NEW r \in net, r.stage = "answered", r.op.kind = "wipe", r.status = "success",
         net' = net \ {r}, WipeSucceeded(r)
  PROVE  \E kept : Protected(r) \subseteq kept /\ Shown(r, kept)
  <1>1. page \in Pages /\ r.snapshot \in Snapshots /\ r.revisions \in Stamps
    BY DEF Types, PageTypes, Requests
  <1>2. Protected(r) \subseteq Controls /\ Protected(r) \subseteq Dirty(page)
    BY <1>1, TypedSinceIsLater DEF Protected
  <1>3. CASE ~ IsNewer(page, r.snapshot)
    BY <1>1, <1>2, <1>3, NoNews DEF WipeSucceeded
  <1>4. CASE IsNewer(page, r.snapshot)
    <2> DEFINE before == page.revisions["key"] = r.revisions["key"]
               cleared == IF before THEN recordFieldEdit(page, "key") ELSE page
               kept == IF before THEN Dirty(page) \ {"key"} ELSE Dirty(page)
               w == Cancel(cleared)
    <2>1. /\ page' = Reconcile(w, r.snapshot, kept)
          /\ wiped' = IF before /\ r.snapshot.key = Empty THEN r.revisions["key"] ELSE wiped
      BY <1>4 DEF WipeSucceeded
    <2>2. Protected(r) \subseteq kept
      BY <1>1, <1>2, TypedSinceIsLater DEF Protected
    <2>3. /\ cleared \in Pages /\ SameForm(cleared, page) /\ SameReset(cleared, page)
          /\ SameFlags(cleared, page) /\ cleared.submission = page.submission
          /\ before => cleared.edits = page.edits + 1 /\ cleared.revisions = [page.revisions EXCEPT !["key"] = page.edits + 1]
          /\ ~ before => SameEdits(cleared, page)
      <3>1. CASE before
        <4> DEFINE v == recordFieldEdit(page, "key")
        <4>1. /\ v \in Pages /\ SameForm(v, page) /\ SameReset(v, page) /\ SameFlags(v, page)
              /\ v.submission = page.submission /\ v.edits = page.edits + 1
              /\ v.revisions = [page.revisions EXCEPT !["key"] = page.edits + 1]
          BY <1>1, EditOf, RevertedKey
        <4>2. v.revisions["key"] = page.edits + 1
          BY <1>1, <4>1, PageNumbers DEF Stamps, Controls
        <4>3. cleared = v
          BY <3>1
        <4> HIDE DEF v, cleared
        <4> QED BY <3>1, <4>1, <4>2, <4>3
      <3>2. CASE ~ before
        BY <1>1, <3>2 DEF SameForm, SameReset, SameFlags, SameEdits
      <3> QED BY <3>1, <3>2
    <2> HIDE DEF cleared
    <2>4. /\ Calm(w, cleared) /\ SameEdits(w, cleared) /\ SameForm(w, cleared)
          /\ w.submission # NoSubmission => "key" \in w.submission.cancelled
      BY <2>3, CancelIsCalm
    <2> HIDE DEF w
    <2>5. Calm(cleared, page)
      BY <1>1, <2>3, SaveIsSame DEF Calm, SameForm
    <2>6. Calm(w, page) /\ w.draft = page.draft
      BY <2>3, <2>4, <2>5, CalmComposes DEF SameForm
    <2> HIDE DEF kept, before
    <2>7. /\ page' \in Pages /\ SameEdits(page', w) /\ SameReset(page', w) /\ SameFlags(page', w)
          /\ page'.submission = w.submission
          /\ page'.snapshot = IF IsNewer(w, r.snapshot) THEN r.snapshot ELSE w.snapshot
          /\ \A c \in Controls : page'.draft[c] = IF c \in kept THEN w.draft[c] ELSE original(page')[c]
      BY <1>1, <2>1, <2>6, ReconcileOf DEF Calm
    <2>8. FormTakes(page', page, r.snapshot, kept)
      BY <2>6, <2>7 DEF FormTakes, Calm, IsNewer
    <2>9. SameFlags(page', page) /\ SameReset(page', page) /\ SameSave(page', page)
      BY <2>6, <2>7 DEF SameFlags, SameReset, SameSave, Calm
    <2>10. AnswerShown(r, kept)
      BY <2>7, <2>8, <2>9 DEF AnswerShown
    <2>11. CASE before
      <3>1. "key" \notin kept /\ r.revisions["key"] = page.revisions["key"]
        BY <2>11 DEF kept, before
      <3>2. wiped' = IF r.snapshot.key = Empty THEN page.revisions["key"] ELSE wiped
        BY <2>1, <2>11, <3>1
      <3>3. page'.edits = page.edits + 1 /\ page'.revisions = [page.revisions EXCEPT !["key"] = page.edits + 1]
        BY <2>3, <2>4, <2>7, <2>11 DEF SameEdits
      <3>4. page'.submission # NoSubmission => "key" \in page'.submission.cancelled
        BY <2>4, <2>7
      <3>5. TokenCleared(r, kept)
        BY <1>4, <3>1, <3>2, <3>3, <3>4 DEF TokenCleared
      <3> QED BY <2>2, <2>10, <3>5 DEF Shown
    <2>12. CASE ~ before
      <3>1. SameEdits(page', page) /\ wiped' = wiped
        BY <2>1, <2>3, <2>4, <2>7, <2>12 DEF SameEdits
      <3> QED BY <2>2, <2>10, <3>1 DEF Shown
    <2> QED BY <2>11, <2>12
  <1> QED BY <1>3, <1>4

LEMMA TakeWipeSteps ==
  ASSUME Types, NEW r \in net, r.stage = "answered", TakeWipe(r)
  PROVE  \E kept : Protected(r) \subseteq kept /\ Shown(r, kept)
  <1>1. CASE r.status = "success"
    BY <1>1, WipeShown DEF TakeWipe
  <1>2. CASE r.status # "success"
    BY <1>2, FailureShown DEF TakeWipe
  <1> QED BY <1>1, <1>2

-----------------------------------------------------------------------------
(* What the server does with a request *)

\* The settings file is there unless a reset has left it moved aside.
Kept == disk.there \/ disk = NoFile

TokenWrite(op) ==
  \/ token' = token
  \/ op.kind = "wipe" /\ token' = Empty
  \/ /\ op.kind = "commit" /\ op.base = revision
     /\ "key" \in DOMAIN op.edits /\ op.edits["key"] > 0 /\ token' = op.edits["key"]

\* What an operation does to the files.
Writes(op) ==
  /\ disk' \in Files /\ token' \in Nat /\ backups' \in Seq(Files) /\ backup_path' \in Nat
  /\ mishaps' \in Nat /\ Kept'
  /\ disk' = disk \/ op.kind \in {"commit", "reset"}
  /\ TokenWrite(op)
  /\ op.kind = "reset" /\ disk' # disk /\ disk # NoFile => \E i \in DOMAIN backups' : backups'[i] = disk

\* An operation that is new is carried out, or refused, and remembered.
Executes(op, status) ==
  /\ IsNew(op) /\ status \in Statuses \ {"unknown"} /\ Settle(op, status) /\ Writes(op)

\* One that is not changes nothing.
Recalls(op, status) ==
  /\ UNCHANGED serviceVars
  /\ \/ \E i \in DOMAIN receipts : receipts[i].id = op.id /\ status = receipts[i].status
     \/ status = "unknown" /\ op.base <= expired_through

LEMMA FilesTyped ==
  /\ DefaultsFile \in Files /\ NoFile \in Files /\ DefaultsFile.there
  /\ \A v \in Values : File(TRUE, FALSE, v) \in Files /\ File(TRUE, FALSE, v).there
  BY DEF DefaultsFile, NoFile, File, Files, Values, Default

LEMMA EditTyped ==
  ASSUME NEW op \in Operations
  PROVE  /\ "key" \in DOMAIN op.edits => op.edits["key"] \in Values /\ op.edits.key = op.edits["key"]
         /\ "model" \in DOMAIN op.edits => op.edits["model"] \in Values /\ op.edits.model = op.edits["model"]
         /\ op.base \in Nat /\ op.id \in Ids /\ op.kind \in {"commit", "wipe", "reset"}
  <1>1. op.edits \in Edits /\ op.base \in Nat /\ op.id \in Ids /\ op.kind \in {"commit", "wipe", "reset"}
    BY DEF Operations
  <1> QED BY <1>1 DEF Edits

LEMMA RecallSteps ==
  ASSUME Types, NEW op \in Operations,
         NEW status, (Repeated(op) /\ status = Receipt(op).status) \/ (Forgotten(op) /\ status = "unknown")
  PROVE  Recalls(op, status) /\ status \in Statuses
  <1>1. CASE Repeated(op) /\ status = Receipt(op).status
    <2> DEFINE i == CHOOSE j \in Receipts(op) : TRUE
    <2>1. i \in Receipts(op) /\ UNCHANGED serviceVars
      BY <1>1 DEF Repeated
    <2> HIDE DEF i
    <2>2. i \in DOMAIN receipts /\ receipts[i].id = op.id
      BY <2>1 DEF Receipts
    <2>3. Receipt(op) = receipts[i]
      BY DEF Receipt, i
    <2>4. receipts[i] \in Marks
      BY <2>2 DEF Types, ServiceTypes
    <2>5. receipts[i].status \in Statuses
      BY <2>4 DEF Marks
    <2> QED BY <1>1, <2>1, <2>2, <2>3, <2>5 DEF Recalls
  <1>2. CASE Forgotten(op) /\ status = "unknown"
    <2>1. ~ (op.base > expired_through) /\ UNCHANGED serviceVars
      BY <1>2 DEF Forgotten, IsNew
    <2>2. op.base \in Nat /\ expired_through \in Int
      BY EditTyped DEF Types, ServiceTypes
    <2> QED BY <1>2, <2>1, <2>2 DEF Recalls, Statuses
  <1> QED BY <1>1, <1>2

LEMMA CommitWrites ==
  ASSUME Types, Kept, NEW op \in Operations,
         Commit(op) \/ CommitRefused(op) \/ SettingsNotSaved(op) \/ TokenNotSaved(op) \/ Superseded(op)
  PROVE  Writes(op) /\ IsNew(op)
  <1>1. disk \in Files /\ token \in Nat /\ backups \in Seq(Files) /\ backup_path \in Nat /\ mishaps \in Nat
    BY DEF Types, ServiceTypes
  <1>2. mishaps + 1 \in Nat /\ NoBackup \in Nat
    BY <1>1 DEF NoBackup
  <1>3. op.kind = "commit" /\ IsNew(op)
    BY DEF Commit, CommitRefused, SettingsNotSaved, TokenNotSaved, Superseded, Commits, Outdated
  <1>4. CASE UNCHANGED fileVars
    <2>1. mishaps' \in Nat
      BY <1>1, <1>2, <1>4 DEF Commit, CommitRefused, SettingsNotSaved, TokenNotSaved, Superseded, Mishap
    <2> QED BY <1>1, <1>3, <1>4, <2>1 DEF Writes, TokenWrite, Kept, fileVars
  <1>5. CASE Commit(op) \/ TokenNotSaved(op)
    <2>1. /\ Commits(op) /\ disk' = File(TRUE, FALSE, NewModel(op)) /\ backups' = backups
          /\ token' \in {token, NewToken(op)} /\ backup_path' \in {backup_path, NoBackup}
          /\ mishaps' \in {mishaps, mishaps + 1}
      BY <1>5 DEF Commit, TokenNotSaved, Saved, Mishap
    <2>2. NewModel(op) \in Values
      BY <1>1, EditTyped DEF NewModel, Edited, Files
    <2>3. disk' \in Files /\ disk'.there
      BY <2>1, <2>2, FilesTyped
    <2>4. op.base = revision
      BY <2>1 DEF Commits, Outdated
    <2>5. token' = token \/ ("key" \in DOMAIN op.edits /\ op.edits["key"] > 0 /\ token' = op.edits["key"])
      BY <2>1, EditTyped DEF NewToken, Edited
    <2>6. token' \in Nat
      BY <1>1, <2>5, EditTyped DEF Values, Mask
    <2> QED BY <1>1, <1>2, <1>3, <2>1, <2>3, <2>4, <2>5, <2>6 DEF Writes, TokenWrite, Kept
  <1> QED BY <1>4, <1>5 DEF CommitRefused, SettingsNotSaved, Superseded

LEMMA WipeWrites ==
  ASSUME Types, Kept, NEW op \in Operations, WipeToken(op) \/ TokenNotWiped(op)
  PROVE  Writes(op) /\ IsNew(op)
  <1>1. disk \in Files /\ token \in Nat /\ backups \in Seq(Files) /\ backup_path \in Nat /\ mishaps \in Nat
    BY DEF Types, ServiceTypes
  <1>2. mishaps + 1 \in Nat /\ Empty \in Nat
    BY <1>1 DEF Empty
  <1>3. /\ op.kind = "wipe" /\ IsNew(op) /\ disk' = disk /\ backups' = backups /\ backup_path' = backup_path
        /\ token' \in {token, Empty} /\ mishaps' \in {mishaps, mishaps + 1}
    BY DEF WipeToken, TokenNotWiped, Wipes, fileVars, Mishap
  <1> QED BY <1>1, <1>2, <1>3 DEF Writes, TokenWrite, Kept

LEMMA ResetWrites ==
  ASSUME Types, Kept, NEW op \in Operations, ResetSettings(op) \/ NotMoved(op) \/ DefaultsNotSaved(op)
  PROVE  Writes(op) /\ IsNew(op)
  <1>1. disk \in Files /\ token \in Nat /\ backups \in Seq(Files) /\ backup_path \in Nat /\ mishaps \in Nat
    BY DEF Types, ServiceTypes
  <1>2. mishaps + 1 \in Nat /\ FreeBackup \in Nat
    BY <1>1 DEF FreeBackup
  <1>3. op.kind = "reset" /\ IsNew(op)
    BY DEF ResetSettings, NotMoved, DefaultsNotSaved, Resets
  <1>4. CASE UNCHANGED fileVars
    <2>1. mishaps' \in Nat
      BY <1>1, <1>2, <1>4 DEF ResetSettings, NotMoved, DefaultsNotSaved, Mishap
    <2> QED BY <1>1, <1>3, <1>4, <2>1 DEF Writes, TokenWrite, Kept, fileVars
  <1>5. CASE ResetSettings(op) \/ DefaultsNotSaved(op)
    <2>1. /\ MovedAside /\ token' = token /\ mishaps' \in {mishaps, mishaps + 1}
          /\ backup_path' \in {backup_path, FreeBackup}
          /\ disk' = DefaultsFile \/ disk' = NoFile \/ (AlreadyReset /\ disk' = disk)
          /\ AlreadyReset => disk' = disk
      BY <1>5 DEF ResetSettings, DefaultsNotSaved, AlreadyReset, Mishap
    <2>2. disk' \in Files /\ Kept'
      BY <1>1, <2>1, FilesTyped DEF Kept
    <2>3. backups' = backups \/ backups' = Append(backups, disk)
      BY <2>1 DEF MovedAside
    <2>4. backups' \in Seq(Files)
      BY <1>1, <2>3
    <2>5. disk' # disk /\ disk # NoFile => \E i \in DOMAIN backups' : backups'[i] = disk
      <3> SUFFICES ASSUME disk' # disk, disk # NoFile PROVE \E i \in DOMAIN backups' : backups'[i] = disk
        OBVIOUS
      <3>1. backups' = Append(backups, disk)
        BY <2>1 DEF MovedAside, Kept
      <3>2. Len(backups) + 1 \in DOMAIN backups' /\ backups'[Len(backups) + 1] = disk
        BY <1>1, <3>1
      <3> QED BY <3>2
    <2> QED BY <1>1, <1>2, <1>3, <2>1, <2>2, <2>4, <2>5 DEF Writes, TokenWrite
  <1> QED BY <1>4, <1>5 DEF NotMoved

\* The reply to r, with the settings as they are then.
Replied(r, status, s) == [r EXCEPT !.stage = "answered", !.status = status, !.snapshot = s]

LEMMA HandleSteps ==
  ASSUME Types, Kept, NEW r \in net, Handle(r)
  PROVE  /\ r.stage = "sent" /\ page' = page /\ told' = told /\ wiped' = wiped
         /\ \E status \in Statuses :
              /\ net' = (net \ {r}) \cup (IF r.heard THEN {Replied(r, status, settings_snapshot')} ELSE {})
              /\ Recalls(r.op, status) \/ Executes(r.op, status)
  <1> DEFINE op == r.op
  <1>1. op \in Operations
    BY DEF Types, PageTypes, Requests
  <1> HIDE DEF op
  <1>2. ASSUME NEW status, Answer(r, status)
        PROVE  net' = (net \ {r}) \cup (IF r.heard THEN {Replied(r, status, settings_snapshot')} ELSE {})
    BY <1>2 DEF Answer, Replied
  <1>3. CASE Repeated(op) /\ Answer(r, Receipt(op).status)
    <2> DEFINE status == Receipt(op).status
    <2>1. Recalls(op, status) /\ status \in Statuses
      BY <1>1, <1>3, RecallSteps
    <2> QED BY <1>2, <1>3, <2>1 DEF Handle, op
  <1>4. CASE Forgotten(op) /\ Answer(r, "unknown")
    <2>1. Recalls(op, "unknown") /\ "unknown" \in Statuses
      BY <1>1, <1>4, RecallSteps
    <2> QED BY <1>2, <1>4, <2>1 DEF Handle, op
  <1>5. CASE Superseded(op) /\ Answer(r, "superseded")
    <2>1. Settle(op, "superseded") /\ "superseded" \in Statuses \ {"unknown"}
      BY <1>5 DEF Superseded, Statuses
    <2>2. Executes(op, "superseded")
      BY <1>1, <1>5, <2>1, CommitWrites DEF Executes
    <2> QED BY <1>2, <1>5, <2>1, <2>2 DEF Handle, op
  <1>6. CASE Succeeds(op) /\ Answer(r, "success")
    <2>1. Settle(op, "success") /\ "success" \in Statuses \ {"unknown"}
      BY <1>6 DEF Succeeds, Commit, WipeToken, ResetSettings, Statuses
    <2>2. Executes(op, "success")
      BY <1>1, <1>6, <2>1, CommitWrites, WipeWrites, ResetWrites DEF Executes, Succeeds
    <2> QED BY <1>2, <1>6, <2>1, <2>2 DEF Handle, op
  <1>7. CASE Errs(op) /\ Answer(r, "error")
    <2>1. Settle(op, "error") /\ "error" \in Statuses \ {"unknown"}
      BY <1>7 DEF Errs, CommitRefused, NotMoved, DefaultsNotSaved, Statuses
    <2>2. Executes(op, "error")
      BY <1>1, <1>7, <2>1, CommitWrites, ResetWrites DEF Executes, Errs
    <2> QED BY <1>2, <1>7, <2>1, <2>2 DEF Handle, op
  <1>8. CASE Fails(op) /\ Answer(r, "fatal")
    <2>1. Settle(op, "fatal") /\ "fatal" \in Statuses \ {"unknown"}
      BY <1>8 DEF Fails, SettingsNotSaved, TokenNotSaved, TokenNotWiped, Statuses
    <2>2. Executes(op, "fatal")
      BY <1>1, <1>8, <2>1, CommitWrites, WipeWrites DEF Executes, Fails
    <2> QED BY <1>2, <1>8, <2>1, <2>2 DEF Handle, op
  <1> QED BY <1>3, <1>4, <1>5, <1>6, <1>7, <1>8 DEF Handle, op

-----------------------------------------------------------------------------
(* The invariant *)

\* Ids and revisions: what was sent, and what is shown, is never from the future.
Placed(r) ==
  /\ r.op.id <= page.operations /\ r.op.base <= page.snapshot.revision
  /\ r.stage = "answered" => r.snapshot.revision <= revision

Numbers ==
  /\ page.snapshot.revision <= revision
  /\ \A id \in Ids : executed[id] > 0 => id <= page.operations
  /\ \A r \in net : Placed(r)
  /\ page.submission # NoSubmission =>
       page.submission.id <= page.operations /\ page.submission.base <= page.snapshot.revision

\* An id stands for one operation; only a save is ever sent twice by the page.
IsSubmission(op) ==
  op.kind = "commit" /\ op.base = page.submission.base /\ op.edits = page.submission.edits

Identity ==
  /\ \A r, q \in net : r.op.id = q.op.id => r.op = q.op /\ (r.op.kind # "commit" => r = q)
  /\ page.submission # NoSubmission =>
       \A r \in net : r.op.id = page.submission.id => IsSubmission(r.op)

\* The page waits for one save at a time, and for the one it has kept.
Awaited(r) == r.heard /\ r.op.kind = "commit"

OneSave ==
  /\ \A r \in net : Awaited(r) =>
       /\ page.pending /\ page.submission # NoSubmission
       /\ r.op.id = page.submission.id /\ r.revisions = page.submission.revisions
  /\ \A r, q \in net : Awaited(r) /\ Awaited(q) => r = q
  /\ SubmissionKept

\* What was carried out has a receipt, or is as old as one that was dropped; and a receipt is
\* dropped only after as many operations as are retained.
Recorded(id, base) ==
  /\ \A i \in DOMAIN receipts : receipts[i].id = id => receipts[i].base = base
  /\ executed[id] > 0 => \/ base <= expired_through
                         \/ \E i \in DOMAIN receipts : receipts[i].id = id

Remembered ==
  /\ \A i \in DOMAIN receipts :
       executed[receipts[i].id] > 0 /\ receipts[i].base + (Len(receipts) - i) < revision
  /\ \A r \in net : Recorded(r.op.id, r.op.base)
  /\ page.submission # NoSubmission => Recorded(page.submission.id, page.submission.base)
  /\ expired_through = -1 \/ (expired_through >= 0 /\ expired_through + Retained < revision)
  /\ Len(receipts) <= Retained
  /\ AppliedOnce

\* A status is true of its operation.
Honest(id, status) ==
  /\ status # "unknown" => executed[id] > 0
  /\ status = "success" => id \in applied
  /\ status \in {"error", "superseded"} => id \notin applied

HonestReply(r) ==
  /\ Honest(r.op.id, r.status)
  /\ r.status = "unknown" => r.op.base <= expired_through /\ revision > r.op.base + Retained

Truth ==
  /\ \A i \in DOMAIN receipts : Honest(receipts[i].id, receipts[i].status)
  /\ \A r \in net : r.stage = "answered" => HonestReply(r)
  /\ \A answer \in told : Honest(answer[1], answer[2])
  /\ \A id \in applied : executed[id] > 0
  /\ page.restartRequired =>
       /\ page.submission # NoSubmission /\ ~ page.pending /\ page.unconfirmed
       /\ revision > page.submission.base + Retained

\* A token from before the wipe is nowhere but in saves that come too late.
Clean(edits, last) == "key" \in DOMAIN edits => edits["key"] <= 0 \/ edits["key"] > last

Outrun(r) == r.stage = "answered" /\ r.snapshot.revision > page.snapshot.revision

Wiping ==
  /\ wiped <= page.revisions["key"] /\ \A c \in Controls : page.revisions[c] <= page.edits
  /\ WipedStaysWiped
  /\ page.draft["key"] <= 0 \/ page.draft["key"] > wiped
  /\ page.submission # NoSubmission =>
       \/ Clean(page.submission.edits, wiped)
       \/ "key" \in page.submission.cancelled /\ page.submission.base < page.snapshot.revision
  /\ \A r \in net : r.op.kind = "commit" => Clean(r.op.edits, wiped) \/ r.op.base < page.snapshot.revision
  /\ \A r \in net : Outrun(r) /\ r.snapshot.key = Empty => token = Empty

IInv ==
  Types /\ Kept /\ Numbers /\ Identity /\ OneSave /\ Remembered /\ Truth /\ Wiping

-----------------------------------------------------------------------------
(* Remembering an operation *)

LEMMA RememberSteps ==
  ASSUME Types, Len(receipts) <= Retained, NEW op \in Operations, NEW status \in Statuses \ {"unknown"},
         Remember(op, status), NEW m, m = [id |-> op.id, status |-> status, base |-> op.base]
  PROVE  /\ m \in Marks /\ m.id = op.id /\ m.status = status /\ m.base = op.base
         /\ receipts' \in Seq(Marks)
         /\ \/ /\ Len(receipts) < Retained /\ Len(receipts') = Len(receipts) + 1
               /\ \A j \in 1 .. Len(receipts) : receipts'[j] = receipts[j]
               /\ receipts'[Len(receipts) + 1] = m /\ expired_through' = expired_through
            \/ /\ Len(receipts) = Retained /\ Len(receipts') = Len(receipts) /\ Len(receipts) >= 1
               /\ \A j \in 1 .. Len(receipts) - 1 : receipts'[j] = receipts[j + 1]
               /\ receipts'[Len(receipts)] = m
               /\ expired_through' = IF receipts[1].base > expired_through THEN receipts[1].base
                                     ELSE expired_through
  <1>1. receipts \in Seq(Marks) /\ Len(receipts) \in Nat /\ Retained \in Nat /\ Retained >= 1
    BY ServiceAssumption DEF Types, ServiceTypes
  <1>2. m \in Marks /\ m.id = op.id /\ m.status = status /\ m.base = op.base
    BY EditTyped DEF Marks
  <1> DEFINE all == Append(receipts, m)
  <1>3. /\ all \in Seq(Marks) /\ Len(all) = Len(receipts) + 1 /\ all[Len(receipts) + 1] = m
        /\ \A j \in 1 .. Len(receipts) : all[j] = receipts[j]
    BY <1>1, <1>2
  <1>4. IF Len(all) <= Retained THEN receipts' = all /\ expired_through' = expired_through
        ELSE /\ receipts' = Tail(all)
             /\ expired_through' = IF all[1].base > expired_through THEN all[1].base ELSE expired_through
    BY DEF Remember
  <1> HIDE DEF all
  <1>5. CASE Len(all) <= Retained
    <2>1. receipts' = all /\ expired_through' = expired_through
      BY <1>4, <1>5
    <2> QED BY <1>1, <1>2, <1>3, <1>5, <2>1
  <1>6. CASE ~ (Len(all) <= Retained)
    <2>1. /\ receipts' = Tail(all)
          /\ expired_through' = IF all[1].base > expired_through THEN all[1].base ELSE expired_through
      BY <1>4, <1>6
    <2>2. Len(receipts) = Retained /\ Len(receipts) >= 1 /\ all[1] = receipts[1]
      BY <1>1, <1>3, <1>6
    <2>3. all # << >> /\ Tail(all) \in Seq(Marks) /\ Len(Tail(all)) = Len(all) - 1
          /\ \A j \in 1 .. Len(receipts) : Tail(all)[j] = all[j + 1]
      BY <1>1, <1>3
    <2>4. \A j \in 1 .. Len(receipts) - 1 : Tail(all)[j] = receipts[j + 1]
      BY <1>1, <1>3, <2>3
    <2>5. Tail(all)[Len(receipts)] = m
      BY <1>1, <1>3, <2>2, <2>3
    <2> QED BY <1>1, <1>2, <1>3, <2>1, <2>2, <2>3, <2>4, <2>5
  <1> QED BY <1>5, <1>6

-----------------------------------------------------------------------------
(* What the user does *)

\* The server's part of the invariant speaks of nothing else.
LEMMA ServerRests ==
  ASSUME UNCHANGED serviceVars
  PROVE  /\ ServiceTypes => ServiceTypes'
         /\ Kept => Kept'
         /\ \A id, base : Recorded(id, base)' <=> Recorded(id, base)
         /\ \A id, status : Honest(id, status)' <=> Honest(id, status)
         /\ revision' = revision /\ token' = token /\ executed' = executed
         /\ receipts' = receipts /\ expired_through' = expired_through /\ applied' = applied
  <1>1. /\ disk' = disk /\ token' = token /\ backups' = backups /\ backup_path' = backup_path
        /\ revision' = revision /\ expired_through' = expired_through /\ receipts' = receipts
        /\ token_wipes' = token_wipes /\ reset_revision' = reset_revision /\ mishaps' = mishaps
        /\ executed' = executed /\ applied' = applied
    BY DEF serviceVars, fileVars, operationVars
  <1> QED BY <1>1 DEF ServiceTypes, Kept, Recorded, Honest

LEMMA EditKeeps ==
  ASSUME IInv, Typing(page', page), UNCHANGED serviceVars, net' = net, told' = told, wiped' = wiped,
         faults' = faults
  PROVE  IInv'
  <1>1. Types /\ Calm(page', page) /\ page' \in Pages /\ page \in Pages /\ SameSave(page', page) /\ SameFlags(page', page)
    BY DEF IInv, Typing, Calm, Types, PageTypes
  <1>2. /\ page'.snapshot = page.snapshot /\ page'.operations = page.operations
        /\ page'.submission = NoSubmission <=> page.submission = NoSubmission
        /\ page.submission # NoSubmission =>
             /\ page'.submission.id = page.submission.id /\ page'.submission.base = page.submission.base
             /\ page'.submission.edits = page.submission.edits
             /\ page'.submission.revisions = page.submission.revisions
             /\ page.submission.cancelled \subseteq page'.submission.cancelled
        /\ page'.pending = page.pending /\ page'.unconfirmed = page.unconfirmed
        /\ page'.restartRequired = page.restartRequired
    BY <1>1 DEF Calm, SameSave, SameFlags
  <1>3. /\ revision' = revision /\ token' = token /\ executed' = executed
        /\ receipts' = receipts /\ expired_through' = expired_through
    BY ServerRests
  <1>4. Types' /\ Kept'
    BY <1>1, ServerRests DEF IInv, Types, PageTypes
  <1>5. Numbers'
    BY <1>2, <1>3 DEF IInv, Numbers, Placed
  <1>6. Identity'
    BY <1>2 DEF IInv, Identity, IsSubmission
  <1>7. OneSave'
    BY <1>2 DEF IInv, OneSave, Awaited, SubmissionKept
  <1>8. Remembered'
    BY <1>2, <1>3, ServerRests DEF IInv, Remembered, AppliedOnce
  <1>9. Truth'
    BY <1>2, <1>3, ServerRests DEF IInv, Truth, HonestReply
  <1>10. Wiping'
    <2>1. wiped <= page.edits /\ wiped \in Nat /\ page.edits \in Nat /\ page.revisions["key"] \in Nat /\ page'.edits \in Nat
          /\ page'.revisions["key"] \in Nat /\ page'.draft["key"] \in Int /\ page.draft["key"] \in Int
      <3>1. wiped \in Nat /\ page.edits \in Nat /\ page.revisions["key"] \in Nat /\ page'.edits \in Nat
            /\ page'.revisions["key"] \in Nat /\ page'.draft["key"] \in Values /\ page.draft["key"] \in Values
        BY <1>1, PageNumbers DEF Types, PageTypes
      <3>2. wiped <= page.revisions["key"] /\ page.revisions["key"] <= page.edits
        BY DEF IInv, Wiping, Controls
      <3>3. Values \subseteq Int
        BY DEF Values, Mask
      <3>4. wiped <= page.edits
        BY <3>1, <3>2
      <3> QED BY <3>1, <3>3, <3>4
    <2>2. wiped' <= page'.revisions["key"] /\ \A c \in Controls : page'.revisions[c] <= page'.edits
      <3>1. /\ wiped <= page.revisions["key"] /\ page'.edits >= page.edits
            /\ \A c \in Controls : page.revisions[c] <= page.edits
            /\ \A c \in Controls :
                 page'.revisions[c] = page.revisions[c]
                 \/ (page'.revisions[c] > page.edits /\ page'.revisions[c] <= page'.edits)
        BY DEF IInv, Wiping, Typing, Renumbered
      <3>2. \A c \in Controls : page.revisions[c] \in Nat /\ page'.revisions[c] \in Nat
        BY <1>1, PageNumbers DEF Stamps
      <3>3. "key" \in Controls
        BY DEF Controls
      <3>4. \A c \in Controls : page'.revisions[c] <= page'.edits
        BY <2>1, <3>1, <3>2
      <3>5. wiped <= page'.revisions["key"]
        BY <2>1, <3>1, <3>2, <3>3
      <3> QED BY <3>4, <3>5
    <2>3. "key" \in submitted(page) => page.submission # NoSubmission /\ Clean(page.submission.edits, wiped) /\ "key" \in DOMAIN page.submission.edits
      BY DEF IInv, Wiping, submitted
    <2>4. page'.draft["key"] <= 0 \/ page'.draft["key"] > wiped
      <3>1. TokenField(page'.draft["key"], page) /\ (page.draft["key"] <= 0 \/ page.draft["key"] > wiped)
        BY DEF IInv, Wiping, Typing
      <3>2. page'.draft["key"] > page.edits => page'.draft["key"] > wiped
        BY <2>1
      <3> QED BY <2>3, <3>1, <3>2 DEF TokenField, Clean
    <2>5. WipedStaysWiped'
      BY <1>3 DEF IInv, Wiping, WipedStaysWiped
    <2>6. page'.submission # NoSubmission =>
            \/ Clean(page'.submission.edits, wiped')
            \/ "key" \in page'.submission.cancelled /\ page'.submission.base < page'.snapshot.revision
      BY <1>2 DEF IInv, Wiping, Clean
    <2>7. /\ \A r \in net' : r.op.kind = "commit" => Clean(r.op.edits, wiped') \/ r.op.base < page'.snapshot.revision
          /\ \A r \in net' : Outrun(r)' /\ r.snapshot.key = Empty => token' = Empty
      BY <1>2, <1>3 DEF IInv, Wiping, Clean, Outrun
    <2> QED BY <2>2, <2>4, <2>5, <2>6, <2>7 DEF Wiping
  <1> QED BY <1>4, <1>5, <1>6, <1>7, <1>8, <1>9, <1>10 DEF IInv

\* An id that was never used has no request, no receipt and no outcome.
LEMMA NewId ==
  ASSUME IInv, NEW id \in Ids, id = page.operations + 1
  PROVE  /\ executed[id] = 0 /\ \A base : Recorded(id, base)
         /\ \A r \in net : r.op.id # id /\ r.op.id <= page.operations
         /\ page.submission # NoSubmission => page.submission.id # id
         /\ page.operations \in Nat /\ page.operations <= page.operations + 1
  <1>1. page.operations \in Nat /\ executed[id] \in Nat /\ \A r \in net : r.op.id \in Nat
    BY PageNumbers, ServiceAssumption DEF IInv, Types, PageTypes, ServiceTypes, Requests, Operations
  <1>2. executed[id] = 0
    BY <1>1 DEF IInv, Numbers
  <1>3. \A i \in DOMAIN receipts : receipts[i].id # id
    BY <1>2 DEF IInv, Remembered
  <1>4. \A r \in net : r.op.id <= page.operations
    BY DEF IInv, Numbers, Placed
  <1>5. page.submission # NoSubmission => page.submission.id # id
    <2>1. page.submission # NoSubmission => page.submission.id <= page.operations /\ page.submission.id \in Nat
      BY PageNumbers DEF IInv, Numbers, Types, PageTypes
    <2> QED BY <1>1, <2>1
  <1>6. \A base : Recorded(id, base)
    BY <1>2, <1>3 DEF Recorded
  <1>7. \A r \in net : r.op.id # id
    BY <1>1, <1>4
  <1> QED BY <1>1, <1>2, <1>4, <1>5, <1>6, <1>7

\* Recorded and Honest speak of the server only, so a rigid copy of them is the same.
LEMMA WipingSame ==
  ASSUME IInv, UNCHANGED serviceVars, wiped' = wiped, page' \in Pages,
         SameForm(page', page), SameEdits(page', page)
  PROVE  /\ wiped' <= page'.revisions["key"] /\ \A c \in Controls : page'.revisions[c] <= page'.edits
         /\ WipedStaysWiped'
         /\ page'.draft["key"] <= 0 \/ page'.draft["key"] > wiped'
         /\ \A r \in net : r.op.kind = "commit" => Clean(r.op.edits, wiped') \/ r.op.base < page'.snapshot.revision
         /\ \A r \in net : Outrun(r)' /\ r.snapshot.key = Empty => token' = Empty
  BY ServerRests DEF IInv, Wiping, WipedStaysWiped, SameForm, SameEdits, Outrun

LEMMA BeginKeeps ==
  ASSUME IInv, BeginsSave, faults' = faults
  PROVE  IInv'
  <1>0. PICK s, x : s = page'.submission /\ x = Post(page')
    OBVIOUS
  <1>1. Types /\ page \in Pages /\ page' \in Pages /\ page.submission = NoSubmission /\ ~ page.pending
        /\ UNCHANGED serviceVars /\ net' = net \cup {x} /\ told' = told /\ wiped' = wiped
    BY <1>0 DEF IInv, Types, PageTypes, BeginsSave
  <1>2. /\ s \in Submissions /\ s # NoSubmission /\ s.id = page.operations + 1
        /\ s.base = page.snapshot.revision /\ page'.operations = page.operations + 1
        /\ \A c \in DOMAIN s.edits : s.edits[c] = page.draft[c]
        /\ page'.snapshot = page.snapshot
    BY <1>0, SubmissionDistinct DEF BeginsSave, Submitting, SameForm
  <1>3. /\ x \in Requests /\ x.heard /\ x.stage = "sent" /\ x.op.kind = "commit" /\ x.op.id = s.id
        /\ x.op.base = s.base /\ x.op.edits = s.edits /\ x.revisions = s.revisions
    BY <1>0, <1>1, <1>2, PostTyped
  <1>4. /\ revision' = revision /\ token' = token /\ executed' = executed
        /\ receipts' = receipts /\ expired_through' = expired_through
    BY <1>1, ServerRests
  <1>5. s.id \in Ids /\ s.base \in Nat
    BY <1>2 DEF Submissions
  <1>6. /\ executed[s.id] = 0 /\ \A base : Recorded(s.id, base)
        /\ \A r \in net : r.op.id # s.id /\ r.op.id <= page.operations
        /\ page.operations \in Nat
    BY <1>2, <1>5, NewId
  <1>7. Types' /\ Kept'
    <2>1. PageTypes'
      BY <1>0, <1>1, <1>3 DEF BeginsSave, IInv, Types, PageTypes
    <2> QED BY <1>0, <1>1, <2>1, ServerRests DEF IInv, Types
  <1>8. Numbers'
    <2>1. \A r \in net : Placed(r)'
      <3>1. \A r \in net : r.op.id \in Nat
        BY <1>1, ServiceAssumption DEF Types, PageTypes, Requests, Operations
      <3>2. \A r \in net : r.op.id <= page'.operations
        BY <1>2, <1>6, <3>1
      <3> QED BY <1>2, <1>4, <3>2 DEF IInv, Numbers, Placed
    <2>2. page.snapshot.revision \in Nat
      BY <1>1, PageNumbers
    <2>3. Placed(x)'
      BY <1>2, <1>3, <1>6, <2>2 DEF Placed
    <2>4. \A id \in Ids : executed'[id] > 0 => id <= page'.operations
      <3>1. \A id \in Ids : executed[id] > 0 => id <= page.operations /\ id \in Nat
        BY ServiceAssumption DEF IInv, Numbers
      <3> QED BY <1>2, <1>4, <1>6, <3>1
    <2>5. s.id <= page'.operations /\ s.base <= page'.snapshot.revision
      BY <1>0, <1>2, <1>6, <2>2
    <2> QED BY <1>0, <1>1, <1>2, <1>4, <2>1, <2>3, <2>4, <2>5 DEF IInv, Numbers
  <1>9. Identity'
    <2>1. \A r, q \in net' : r.op.id = q.op.id => r.op = q.op /\ (r.op.kind # "commit" => r = q)
      BY <1>0, <1>1, <1>3, <1>6 DEF IInv, Identity
    <2>2. \A r \in net' : r.op.id = s.id => IsSubmission(r.op)'
      BY <1>0, <1>1, <1>3, <1>6 DEF IsSubmission
    <2> QED BY <1>0, <2>1, <2>2 DEF Identity
  <1>10. OneSave'
    <2>1. \A r \in net : ~ Awaited(r)
      BY <1>0, <1>1 DEF IInv, OneSave
    <2> QED BY <1>0, <1>1, <1>2, <1>3, <2>1 DEF OneSave, Awaited, SubmissionKept, BeginsSave
  <1>11. Remembered'
    <2>1. \A r \in net' : Recorded(r.op.id, r.op.base)'
      BY <1>0, <1>1, <1>3, <1>6, ServerRests DEF IInv, Remembered
    <2> QED BY <1>0, <1>1, <1>4, <1>6, <2>1, ServerRests DEF IInv, Remembered, AppliedOnce
  <1>12. Truth'
    <2>1. ~ page'.restartRequired
      BY DEF BeginsSave
    <2> QED BY <1>0, <1>1, <1>3, <1>4, <2>1, ServerRests DEF IInv, Truth, HonestReply
  <1>13. Wiping'
    <2>1. SameForm(page', page) /\ SameEdits(page', page)
      BY DEF BeginsSave
    <2>2. Clean(s.edits, wiped')
      BY <1>0, <1>1, <1>2 DEF IInv, Wiping, Clean
    <2>3. Clean(x.op.edits, wiped') /\ ~ Outrun(x)'
      BY <1>3, <2>2 DEF Outrun
    <2> QED BY <1>0, <1>1, <2>1, <2>2, <2>3, WipingSame DEF Wiping
  <1> QED BY <1>7, <1>8, <1>9, <1>10, <1>11, <1>12, <1>13 DEF IInv

LEMMA RepeatKeeps ==
  ASSUME IInv, RepeatsSave, faults' = faults
  PROVE  IInv'
  <1>0. PICK s, x : s = page.submission /\ x = Post(page')
    OBVIOUS
  <1>1. Types /\ page \in Pages /\ page' \in Pages /\ s # NoSubmission /\ ~ page.pending
        /\ UNCHANGED serviceVars /\ net' = net \cup {x} /\ told' = told /\ wiped' = wiped
    BY <1>0 DEF IInv, Types, PageTypes, RepeatsSave
  <1>2. /\ page'.submission = s /\ page'.operations = page.operations /\ page'.snapshot = page.snapshot
        /\ page'.unconfirmed = page.unconfirmed /\ page'.restartRequired = page.restartRequired
    BY <1>0 DEF RepeatsSave, SameSaving, SameForm
  <1>3. /\ x \in Requests /\ x.heard /\ x.stage = "sent" /\ x.op.kind = "commit" /\ x.op.id = s.id
        /\ x.op.base = s.base /\ x.op.edits = s.edits /\ x.revisions = s.revisions
    BY <1>0, <1>1, <1>2, PostTyped
  <1>4. /\ revision' = revision /\ token' = token /\ executed' = executed
        /\ receipts' = receipts /\ expired_through' = expired_through
    BY <1>1, ServerRests
  <1>5. Types' /\ Kept'
    <2>1. PageTypes'
      BY <1>0, <1>1, <1>3 DEF IInv, Types, PageTypes
    <2> QED BY <1>0, <1>1, <2>1, ServerRests DEF IInv, Types
  <1>6. Numbers'
    BY <1>0, <1>1, <1>2, <1>3, <1>4 DEF IInv, Numbers, Placed
  <1>7. Identity'
    <2>1. \A r \in net : r.op.id = s.id => r.op.kind = "commit" /\ r.op.base = s.base /\ r.op.edits = s.edits
      BY <1>0, <1>1 DEF IInv, Identity, IsSubmission
    <2>2. \A r \in net : r.op.id = s.id => r.op = x.op
      <3> TAKE r \in net
      <3> SUFFICES ASSUME r.op.id = s.id PROVE r.op = x.op
        OBVIOUS
      <3>1. r.op \in Operations /\ x.op \in Operations
        BY <1>1, <1>3 DEF Types, PageTypes, Requests
      <3>2. r.op.kind = x.op.kind /\ r.op.base = x.op.base /\ r.op.edits = x.op.edits /\ r.op.id = x.op.id
        BY <1>3, <2>1
      <3> QED BY <3>1, <3>2 DEF Operations
    <2>3. \A r, q \in net' : r.op.id = q.op.id => r.op = q.op /\ (r.op.kind # "commit" => r = q)
      BY <1>0, <1>1, <1>3, <2>2 DEF IInv, Identity
    <2>4. \A r \in net' : r.op.id = page'.submission.id => IsSubmission(r.op)'
      BY <1>0, <1>1, <1>2, <1>3, <2>1 DEF IsSubmission
    <2> QED BY <2>3, <2>4 DEF Identity
  <1>8. OneSave'
    <2>1. \A r \in net : ~ Awaited(r)
      BY <1>0, <1>1 DEF IInv, OneSave
    <2> QED BY <1>0, <1>1, <1>2, <1>3, <2>1 DEF OneSave, Awaited, SubmissionKept, RepeatsSave
  <1>9. Remembered'
    <2>1. \A r \in net' : Recorded(r.op.id, r.op.base)'
      BY <1>0, <1>1, <1>3, ServerRests DEF IInv, Remembered
    <2> QED BY <1>0, <1>1, <1>2, <1>4, <2>1, ServerRests DEF IInv, Remembered, AppliedOnce
  <1>10. Truth'
    <2>1. ~ page'.restartRequired
      BY <1>2 DEF RepeatsSave
    <2> QED BY <1>0, <1>1, <1>3, <1>4, <2>1, ServerRests DEF IInv, Truth, HonestReply
  <1>11. Wiping'
    <2>1. SameForm(page', page) /\ SameEdits(page', page)
      BY DEF RepeatsSave
    <2>2. \/ Clean(s.edits, wiped')
          \/ "key" \in s.cancelled /\ s.base < page'.snapshot.revision
      BY <1>0, <1>1, <1>2 DEF IInv, Wiping
    <2>3. ~ Outrun(x)' /\ (Clean(x.op.edits, wiped') \/ x.op.base < page'.snapshot.revision)
      BY <1>3, <2>2 DEF Outrun
    <2> QED BY <1>0, <1>1, <1>2, <2>1, <2>2, <2>3, WipingSame DEF Wiping
  <1> QED BY <1>5, <1>6, <1>7, <1>8, <1>9, <1>10, <1>11 DEF IInv

LEMMA AskKeeps ==
  ASSUME IInv, NEW x, Asks(x), faults' = faults
  PROVE  IInv'
  <1>1. /\ Types /\ page \in Pages /\ page' \in Pages /\ UNCHANGED serviceVars
        /\ net' = net \cup {x} /\ told' = told /\ wiped' = wiped
    BY DEF IInv, Types, PageTypes, Asks
  <1>2. /\ page'.submission = page.submission /\ page'.operations = page.operations + 1
        /\ page'.snapshot = page.snapshot /\ page'.pending = page.pending
        /\ page'.unconfirmed = page.unconfirmed /\ page'.restartRequired = page.restartRequired
    BY DEF Asks, SameSaving, SameForm
  <1>3. /\ x \in Requests /\ x.stage = "sent" /\ x.heard /\ x.op.kind \in {"wipe", "reset"}
        /\ x.op.kind # "commit" /\ x.op.id = page.operations + 1 /\ x.op.base = page.snapshot.revision
    BY DEF Asks
  <1>4. /\ revision' = revision /\ token' = token /\ executed' = executed
        /\ receipts' = receipts /\ expired_through' = expired_through
    BY <1>1, ServerRests
  <1>5. x.op.id \in Ids
    BY <1>3 DEF Requests, Operations
  <1>6. /\ executed[x.op.id] = 0 /\ \A base : Recorded(x.op.id, base)
        /\ \A r \in net : r.op.id # x.op.id /\ r.op.id <= page.operations
        /\ page.submission # NoSubmission => page.submission.id # x.op.id
        /\ page.operations \in Nat
    BY <1>3, <1>5, NewId
  <1>7. Types' /\ Kept'
    <2>1. PageTypes'
      BY <1>1, <1>3 DEF IInv, Types, PageTypes
    <2> QED BY <1>1, <2>1, ServerRests DEF IInv, Types
  <1>8. Numbers'
    <2>1. /\ \A r \in net : r.op.id <= page'.operations
          /\ \A id \in Ids : executed[id] > 0 => id <= page'.operations
          /\ page.submission # NoSubmission => page.submission.id <= page'.operations
      <3>1. /\ \A r \in net : r.op.id \in Nat
            /\ \A id \in Ids : id \in Nat
            /\ page.submission # NoSubmission => page.submission.id \in Nat
        BY <1>1, PageNumbers, ServiceAssumption DEF Types, PageTypes, Requests, Operations
      <3>2. page.submission # NoSubmission => page.submission.id <= page.operations
        BY DEF IInv, Numbers
      <3>3. \A id \in Ids : executed[id] > 0 => id <= page.operations
        BY DEF IInv, Numbers
      <3> QED BY <1>2, <1>6, <3>1, <3>2, <3>3
    <2>2. \A r \in net : Placed(r)'
      BY <1>2, <1>4, <2>1 DEF IInv, Numbers, Placed
    <2>3. Placed(x)'
      <3>1. page.snapshot.revision \in Nat
        BY <1>1, PageNumbers
      <3>2. x.op.id <= page'.operations /\ x.op.base <= page'.snapshot.revision
        BY <1>2, <1>3, <1>6, <3>1
      <3> QED BY <1>3, <3>2 DEF Placed
    <2> QED BY <1>1, <1>2, <1>4, <2>1, <2>2, <2>3 DEF IInv, Numbers
  <1>9. Identity'
    <2>1. \A r, q \in net' : r.op.id = q.op.id => r.op = q.op /\ (r.op.kind # "commit" => r = q)
      BY <1>1, <1>6 DEF IInv, Identity
    <2>2. page.submission # NoSubmission => \A r \in net' : r.op.id = page.submission.id => IsSubmission(r.op)'
      BY <1>1, <1>2, <1>6 DEF IInv, Identity, IsSubmission
    <2> QED BY <1>2, <2>1, <2>2 DEF Identity
  <1>10. OneSave'
    <2>1. \A r \in net' : Awaited(r) => r \in net
      BY <1>1, <1>3 DEF Awaited
    <2> QED BY <1>2, <2>1 DEF IInv, OneSave, SubmissionKept
  <1>11. Remembered'
    <2>1. \A r \in net' : Recorded(r.op.id, r.op.base)'
      BY <1>1, <1>6, ServerRests DEF IInv, Remembered
    <2>2. page'.submission # NoSubmission => Recorded(page.submission.id, page.submission.base)'
      BY <1>1, <1>2, ServerRests DEF IInv, Remembered
    <2> QED BY <1>2, <1>4, <2>1, <2>2 DEF IInv, Remembered, AppliedOnce
  <1>12. Truth'
    BY <1>1, <1>2, <1>3, <1>4, ServerRests DEF IInv, Truth, HonestReply
  <1>13. Wiping'
    <2>1. SameForm(page', page) /\ SameEdits(page', page)
      BY DEF Asks
    <2>2. ~ Outrun(x)'
      BY <1>3 DEF Outrun
    <2>3. page'.submission # NoSubmission =>
            \/ Clean(page'.submission.edits, wiped')
            \/ "key" \in page'.submission.cancelled /\ page'.submission.base < page'.snapshot.revision
      BY <1>1, <1>2 DEF IInv, Wiping, Clean
    <2> QED BY <1>1, <1>3, <2>1, <2>2, <2>3, WipingSame DEF Wiping
  <1> QED BY <1>7, <1>8, <1>9, <1>10, <1>11, <1>12, <1>13 DEF IInv

-----------------------------------------------------------------------------
(* What the server does *)

LEMMA ReplyTyped ==
  ASSUME NEW r \in Requests, NEW status \in Statuses, NEW s \in Snapshots,
         NEW y, y = Replied(r, status, s)
  PROVE  /\ y \in Requests /\ y.op = r.op /\ y.revisions = r.revisions /\ y.heard = r.heard
         /\ y.stage = "answered" /\ y.status = status /\ y.snapshot = s
  BY DEF Replied, Requests, Snapshots

LEMMA RequestTyped ==
  ASSUME Types, NEW r \in net
  PROVE  /\ r \in Requests /\ r.op \in Operations /\ r.op.id \in Ids /\ r.op.id \in Nat
         /\ r.op.base \in Nat /\ r.revisions \in Stamps
  BY ServiceAssumption DEF Types, PageTypes, Requests, Operations

\* Only r's place among the requests changes.
Serves(r, y) ==
  /\ page' = page /\ told' = told /\ wiped' = wiped /\ faults' = faults
  /\ net' = (net \ {r}) \cup (IF r.heard THEN {y} ELSE {})

\* What of the invariant does not depend on what the server did.
LEMMA ServeKeeps ==
  ASSUME IInv, NEW r \in net, NEW status \in Statuses, NEW s \in Snapshots,
         NEW y, y = Replied(r, status, s), Serves(r, y)
  PROVE  PageTypes' /\ Identity' /\ OneSave'
  <1>1. Types /\ r \in Requests
    BY RequestTyped DEF IInv
  <1>2. /\ y \in Requests /\ y.op = r.op /\ y.revisions = r.revisions /\ y.heard = r.heard
        /\ y.stage = "answered" /\ y.status = status /\ y.snapshot = s
    BY <1>1, ReplyTyped
  <1>3. \A q \in net' : q \in net \/ (r.heard /\ q = y)
    BY DEF Serves
  <1>4. PageTypes'
    BY <1>1, <1>2, <1>3 DEF Serves, Types, PageTypes
  <1>5. Identity'
    <2>1. \A q \in net' : q # y => q \in net /\ q # r
      BY DEF Serves
    <2>2. \A p, q \in net' : p.op.id = q.op.id => p.op = q.op /\ (p.op.kind # "commit" => p = q)
      BY <1>2, <2>1 DEF IInv, Identity
    <2>3. page'.submission # NoSubmission => \A q \in net' : q.op.id = page'.submission.id => IsSubmission(q.op)'
      BY <1>2, <2>1 DEF IInv, Identity, IsSubmission, Serves
    <2> QED BY <2>2, <2>3 DEF Identity
  <1>6. OneSave'
    <2>1. \A q \in net' : q # y => q \in net /\ q # r
      BY DEF Serves
    <2>2. y \in net' /\ Awaited(y) => Awaited(r)
      BY <1>2 DEF Awaited
    <2>3. \A q \in net' : Awaited(q) =>
             /\ page.pending /\ page.submission # NoSubmission
             /\ q.op.id = page.submission.id /\ q.revisions = page.submission.revisions
      BY <1>2, <2>1, <2>2 DEF IInv, OneSave
    <2>4. \A p, q \in net' : Awaited(p) /\ Awaited(q) => p = q
      BY <1>2, <2>1, <2>2 DEF IInv, OneSave
    <2> QED BY <2>3, <2>4 DEF IInv, OneSave, SubmissionKept, Serves
  <1> QED BY <1>4, <1>5, <1>6

\* A request that is not new changes nothing, and is answered from the receipt.
LEMMA RecallKeeps ==
  ASSUME IInv, NEW r \in net, NEW status \in Statuses, Recalls(r.op, status),
         NEW y, y = Replied(r, status, settings_snapshot'), Serves(r, y)
  PROVE  IInv'
  <1>1. Types /\ r \in Requests /\ r.op.base \in Nat /\ UNCHANGED serviceVars
    BY RequestTyped DEF IInv, Recalls
  <1>2. ServiceTypes' /\ Kept'
    BY <1>1, ServerRests DEF IInv, Types
  <1>3. /\ settings_snapshot' \in Snapshots /\ settings_snapshot'.revision = revision'
        /\ settings_snapshot'.key = Empty => token' = Empty
    BY <1>2 DEF settings_snapshot, Snapshots, ServiceTypes, Files, Values, Default, Mask, Empty
  <1> HIDE DEF settings_snapshot
  <1>4. PICK s : s = settings_snapshot'
    OBVIOUS
  <1>5. /\ y \in Requests /\ y.op = r.op /\ y.revisions = r.revisions /\ y.heard = r.heard
        /\ y.stage = "answered" /\ y.status = status /\ y.snapshot = s
    BY <1>1, <1>3, <1>4, ReplyTyped
  <1>6. PageTypes' /\ Identity' /\ OneSave'
    BY <1>3, <1>4, ServeKeeps
  <1>7. /\ revision' = revision /\ token' = token /\ executed' = executed /\ applied' = applied
        /\ receipts' = receipts /\ expired_through' = expired_through
    BY <1>1, ServerRests
  <1>8. /\ page' = page /\ told' = told /\ wiped' = wiped /\ \A q \in net' : q \in net \/ q = y
    BY DEF Serves
  <1>9. Numbers'
    <2>1. revision \in Nat
      BY <1>1 DEF Types, ServiceTypes
    <2>2. Placed(y)'
      BY <1>3, <1>4, <1>5, <1>7, <1>8, <2>1 DEF IInv, Numbers, Placed
    <2>3. \A q \in net : Placed(q)'
      BY <1>7, <1>8 DEF IInv, Numbers, Placed
    <2> QED BY <1>7, <1>8, <2>2, <2>3 DEF IInv, Numbers
  <1>10. Remembered'
    <2>1. \A q \in net' : Recorded(q.op.id, q.op.base)'
      BY <1>1, <1>5, <1>8, ServerRests DEF IInv, Remembered
    <2>2. page'.submission # NoSubmission => Recorded(page.submission.id, page.submission.base)'
      BY <1>1, <1>8, ServerRests DEF IInv, Remembered
    <2> QED BY <1>7, <1>8, <2>1, <2>2 DEF IInv, Remembered, AppliedOnce
  <1>11. Truth'
    <2>1. Honest(r.op.id, status)
      <3>1. CASE status = "unknown"
        BY <3>1 DEF Honest
      <3>2. CASE status # "unknown"
        BY <3>2 DEF Recalls, IInv, Truth
      <3> QED BY <3>1, <3>2
    <2>2. status = "unknown" => r.op.base <= expired_through /\ revision > r.op.base + Retained
      <3> SUFFICES ASSUME status = "unknown" PROVE r.op.base <= expired_through /\ revision > r.op.base + Retained
        OBVIOUS
      <3>1. receipts \in Seq(Marks)
        BY <1>1 DEF Types, ServiceTypes
      <3>2. \A i \in DOMAIN receipts : receipts[i].status # "unknown"
        <4>1. \A i \in DOMAIN receipts : receipts[i] \in Marks
          BY <3>1
        <4> QED BY <4>1 DEF Marks
      <3>3. r.op.base <= expired_through
        BY <3>2 DEF Recalls
      <3>4. expired_through = -1 \/ (expired_through >= 0 /\ expired_through + Retained < revision)
        BY DEF IInv, Remembered
      <3>5. expired_through \in Int /\ revision \in Nat /\ Retained \in Nat
        BY <1>1, ServiceAssumption DEF Types, ServiceTypes
      <3> QED BY <1>1, <3>3, <3>4, <3>5
    <2>3. HonestReply(y)'
      BY <1>1, <1>5, <1>7, <2>1, <2>2, ServerRests DEF HonestReply
    <2>4. \A q \in net : q.stage = "answered" => HonestReply(q)'
      BY <1>1, <1>7, ServerRests DEF IInv, Truth, HonestReply
    <2>5. /\ \A i \in DOMAIN receipts : Honest(receipts[i].id, receipts[i].status)'
          /\ \A answer \in told : Honest(answer[1], answer[2])'
      BY <1>1, ServerRests DEF IInv, Truth
    <2> QED BY <1>7, <1>8, <2>3, <2>4, <2>5 DEF IInv, Truth
  <1>12. Wiping'
    <2>1. /\ \A q \in net : Outrun(q)' /\ q.snapshot.key = Empty => token' = Empty
          /\ y.snapshot.key = Empty => token' = Empty
      BY <1>3, <1>4, <1>5, <1>7, <1>8 DEF IInv, Wiping, Outrun
    <2>2. \A q \in net' : q.op.kind = "commit" => Clean(q.op.edits, wiped') \/ q.op.base < page'.snapshot.revision
      BY <1>5, <1>8 DEF IInv, Wiping, Clean
    <2> QED BY <1>7, <1>8, <2>1, <2>2 DEF IInv, Wiping, WipedStaysWiped, Clean
  <1> QED BY <1>2, <1>6, <1>9, <1>10, <1>11, <1>12 DEF IInv, Types

\* An operation that is new has never been dealt with, and no other operation has its id.
LEMMA FreshOperation ==
  ASSUME IInv, NEW r \in net, IsNew(r.op)
  PROVE  /\ executed[r.op.id] = 0 /\ r.op.id \notin applied
         /\ \A i \in DOMAIN receipts : receipts[i].id # r.op.id
         /\ r.op.base > expired_through /\ r.op.base <= revision
  <1>1. /\ r.op.id \in Ids /\ r.op.base \in Nat /\ executed \in [Ids -> Nat] /\ expired_through \in Int
        /\ revision \in Nat /\ page.snapshot.revision \in Nat
    BY RequestTyped, PageNumbers DEF IInv, Types, PageTypes, ServiceTypes
  <1>2. /\ \A i \in DOMAIN receipts : receipts[i].id # r.op.id
        /\ r.op.base > expired_through
    BY DEF IsNew, Receipts
  <1>3. Recorded(r.op.id, r.op.base)
    BY DEF IInv, Remembered
  <1>4. ~ (r.op.base <= expired_through)
    BY <1>1, <1>2
  <1>5. ~ (executed[r.op.id] > 0)
    BY <1>2, <1>3, <1>4 DEF Recorded
  <1>6. executed[r.op.id] = 0
    BY <1>1, <1>5
  <1>7. r.op.id \notin applied
    BY <1>5 DEF IInv, Truth
  <1>8. r.op.base <= revision
    <2>1. r.op.base <= page.snapshot.revision /\ page.snapshot.revision <= revision
      BY DEF IInv, Numbers, Placed
    <2> QED BY <1>1, <2>1
  <1> QED BY <1>2, <1>6, <1>7, <1>8

\* What Settle does to the counters.
LEMMA Counted ==
  ASSUME IInv, NEW op \in Operations, NEW status \in Statuses \ {"unknown"}, Settle(op, status),
         executed[op.id] = 0
  PROVE  /\ revision \in Nat /\ revision' = revision + 1 /\ revision' \in Nat
         /\ executed' \in [Ids -> Nat] /\ executed'[op.id] = 1
         /\ \A id \in Ids : id # op.id => executed'[id] = executed[id]
         /\ \A id \in Ids : executed'[id] <= 1
         /\ applied' \subseteq Ids
         /\ \A id : id # op.id => (id \in applied' <=> id \in applied)
         /\ op.id \in applied' <=> (status = "success" \/ op.id \in applied)
         /\ token_wipes' \in Nat /\ reset_revision' \in Nat
  <1>1. /\ revision \in Nat /\ executed \in [Ids -> Nat] /\ applied \subseteq Ids /\ op.id \in Ids
        /\ token_wipes \in Nat /\ reset_revision \in Nat
    BY EditTyped DEF IInv, Types, ServiceTypes
  <1>2. executed' = [executed EXCEPT ![op.id] = executed[op.id] + 1]
    BY DEF Settle
  <1>3. \A id \in Ids : executed[id] <= 1
    BY DEF IInv, Remembered, AppliedOnce
  <1>4. /\ executed' \in [Ids -> Nat] /\ executed'[op.id] = 1
        /\ \A id \in Ids : id # op.id => executed'[id] = executed[id]
    BY <1>1, <1>2
  <1>5. \A id \in Ids : executed'[id] <= 1
    BY <1>1, <1>3, <1>4
  <1>6. revision' = revision + 1 /\ revision' \in Nat /\ token_wipes' \in Nat /\ reset_revision' \in Nat
    BY <1>1 DEF Settle
  <1>7. applied' = IF status = "success" THEN applied \cup {op.id} ELSE applied
    BY DEF Settle
  <1> QED BY <1>1, <1>4, <1>5, <1>6, <1>7

\* The receipts, after one more.
LEMMA RememberKeeps ==
  ASSUME IInv, NEW r \in net, NEW status \in Statuses \ {"unknown"}, IsNew(r.op), Settle(r.op, status)
  PROVE  /\ receipts' \in Seq(Marks) /\ expired_through' \in Int /\ Len(receipts') <= Retained
         /\ \A i \in DOMAIN receipts' :
              executed'[receipts'[i].id] > 0 /\ receipts'[i].base + (Len(receipts') - i) < revision'
         /\ expired_through' = -1 \/ (expired_through' >= 0 /\ expired_through' + Retained < revision')
         /\ expired_through <= expired_through'
         /\ \A i \in DOMAIN receipts' : \/ receipts'[i].id = r.op.id /\ receipts'[i].status = status /\ receipts'[i].base = r.op.base
                                        \/ \E j \in DOMAIN receipts : receipts'[i] = receipts[j]
         /\ \E i \in DOMAIN receipts' : receipts'[i].id = r.op.id
         /\ \A j \in DOMAIN receipts : \/ \E i \in DOMAIN receipts' : receipts'[i] = receipts[j]
                                       \/ receipts[j].base <= expired_through'
  <1>1. /\ Types /\ r.op \in Operations /\ r.op.id \in Ids /\ r.op.base \in Nat
        /\ receipts \in Seq(Marks) /\ expired_through \in Int /\ Len(receipts) <= Retained
        /\ Len(receipts) \in Nat /\ Retained \in Nat /\ executed \in [Ids -> Nat]
    BY RequestTyped, ServiceAssumption DEF IInv, Types, ServiceTypes, Remembered
  <1>2. executed[r.op.id] = 0 /\ r.op.base <= revision
    BY FreshOperation
  <1>3. /\ revision \in Nat /\ revision' = revision + 1
        /\ executed'[r.op.id] = 1
        /\ \A id \in Ids : id # r.op.id => executed'[id] = executed[id]
    BY <1>1, <1>2, Counted
  <1>4. /\ \A j \in 1 .. Len(receipts) : receipts[j] \in Marks /\ receipts[j].base \in Nat /\ receipts[j].id \in Ids
        /\ \A j \in 1 .. Len(receipts) : executed[receipts[j].id] > 0 /\ receipts[j].base + (Len(receipts) - j) < revision
        /\ DOMAIN receipts = 1 .. Len(receipts)
    <2>1. \A j \in 1 .. Len(receipts) : receipts[j] \in Marks
      BY <1>1
    <2>2. \A j \in 1 .. Len(receipts) : receipts[j].base \in Nat /\ receipts[j].id \in Ids
      BY <2>1 DEF Marks
    <2> QED BY <1>1, <2>1, <2>2 DEF IInv, Remembered
  <1>5. \A id \in Ids : executed[id] > 0 => executed'[id] > 0
    BY <1>1, <1>3
  <1>6. expired_through = -1 \/ (expired_through >= 0 /\ expired_through + Retained < revision)
    BY DEF IInv, Remembered
  <1> DEFINE m == [id |-> r.op.id, status |-> status, base |-> r.op.base]
  <1>7. /\ m \in Marks /\ m.id = r.op.id /\ m.status = status /\ m.base = r.op.base
        /\ receipts' \in Seq(Marks)
        /\ \/ /\ Len(receipts) < Retained /\ Len(receipts') = Len(receipts) + 1
              /\ \A j \in 1 .. Len(receipts) : receipts'[j] = receipts[j]
              /\ receipts'[Len(receipts) + 1] = m /\ expired_through' = expired_through
           \/ /\ Len(receipts) = Retained /\ Len(receipts') = Len(receipts) /\ Len(receipts) >= 1
              /\ \A j \in 1 .. Len(receipts) - 1 : receipts'[j] = receipts[j + 1]
              /\ receipts'[Len(receipts)] = m
              /\ expired_through' = IF receipts[1].base > expired_through THEN receipts[1].base
                                    ELSE expired_through
    <2>1. Remember(r.op, status)
      BY DEF Settle
    <2> HIDE DEF m
    <2>2. \A k : k = m => k = [id |-> r.op.id, status |-> status, base |-> r.op.base]
      BY DEF m
    <2> QED BY <1>1, <2>1, <2>2, RememberSteps
  <1> HIDE DEF m
  <1>8. DOMAIN receipts' = 1 .. Len(receipts') /\ Len(receipts') \in Nat
    BY <1>7
  <1>9. CASE /\ Len(receipts) < Retained /\ Len(receipts') = Len(receipts) + 1
             /\ \A j \in 1 .. Len(receipts) : receipts'[j] = receipts[j]
             /\ receipts'[Len(receipts) + 1] = m /\ expired_through' = expired_through
    <2>1. \A i \in 1 .. Len(receipts') : i \in 1 .. Len(receipts) \/ i = Len(receipts) + 1
      BY <1>1, <1>9
    <2>2. \A i \in 1 .. Len(receipts) : receipts'[i].base + (Len(receipts') - i) < revision'
      <3> TAKE i \in 1 .. Len(receipts)
      <3>1. receipts'[i] = receipts[i]
        BY <1>9
      <3>2. receipts[i].base + (Len(receipts) - i) < revision /\ receipts[i].base \in Nat
        BY <1>4
      <3>3. receipts[i].base + (Len(receipts') - i) < revision'
        BY <1>1, <1>3, <1>9, <3>2
      <3> QED BY <3>1, <3>3
    <2>3. m.base + (Len(receipts') - (Len(receipts) + 1)) < revision'
      BY <1>1, <1>2, <1>3, <1>7, <1>9
    <2>4. \A i \in DOMAIN receipts' : receipts'[i].base + (Len(receipts') - i) < revision'
      BY <1>8, <1>9, <2>1, <2>2, <2>3
    <2>5. \A i \in DOMAIN receipts' : executed'[receipts'[i].id] > 0
      <3>1. \A i \in 1 .. Len(receipts) : executed'[receipts'[i].id] > 0
        BY <1>4, <1>5, <1>9
      <3>2. executed'[m.id] > 0
        BY <1>3, <1>7
      <3> QED BY <1>8, <1>9, <2>1, <3>1, <3>2
    <2>6. Len(receipts') <= Retained /\ expired_through' \in Int /\ expired_through <= expired_through'
      BY <1>1, <1>9
    <2>7. expired_through' = -1 \/ (expired_through' >= 0 /\ expired_through' + Retained < revision')
      BY <1>1, <1>3, <1>6, <1>9
    <2>8. Len(receipts) + 1 \in DOMAIN receipts' /\ 1 .. Len(receipts) \subseteq DOMAIN receipts'
      BY <1>1, <1>8, <1>9
    <2>9. \A j \in DOMAIN receipts : \E i \in DOMAIN receipts' : receipts'[i] = receipts[j]
      BY <1>4, <1>9, <2>8
    <2>10. \A i \in DOMAIN receipts' : receipts'[i] = m \/ \E j \in DOMAIN receipts : receipts'[i] = receipts[j]
      BY <1>4, <1>8, <1>9, <2>1
    <2>11. \E i \in DOMAIN receipts' : receipts'[i].id = r.op.id
      BY <1>7, <1>9, <2>8
    <2> HIDE <1>9
    <2> QED BY <1>7, <2>4, <2>5, <2>6, <2>7, <2>9, <2>10, <2>11
  <1>10. CASE /\ Len(receipts) = Retained /\ Len(receipts') = Len(receipts) /\ Len(receipts) >= 1
              /\ \A j \in 1 .. Len(receipts) - 1 : receipts'[j] = receipts[j + 1]
              /\ receipts'[Len(receipts)] = m
              /\ expired_through' = IF receipts[1].base > expired_through THEN receipts[1].base
                                    ELSE expired_through
    <2>1. \A i \in 1 .. Len(receipts') : (i \in 1 .. Len(receipts) - 1 /\ i + 1 \in 1 .. Len(receipts)) \/ i = Len(receipts)
      BY <1>1, <1>10
    <2>2. \A i \in 1 .. Len(receipts) - 1 : receipts[i + 1].base + (Len(receipts') - i) < revision'
      <3> TAKE i \in 1 .. Len(receipts) - 1
      <3>1. i + 1 \in 1 .. Len(receipts)
        BY <1>1, <1>10
      <3>2. receipts[i + 1].base + (Len(receipts) - (i + 1)) < revision /\ receipts[i + 1].base \in Nat
        BY <1>4, <3>1
      <3> QED BY <1>1, <1>3, <1>10, <3>2
    <2>3. m.base + (Len(receipts') - Len(receipts)) < revision'
      BY <1>1, <1>2, <1>3, <1>7, <1>10
    <2>4. \A i \in DOMAIN receipts' : receipts'[i].base + (Len(receipts') - i) < revision'
      BY <1>8, <1>10, <2>1, <2>2, <2>3
    <2>5. \A i \in DOMAIN receipts' : executed'[receipts'[i].id] > 0
      BY <1>3, <1>4, <1>5, <1>7, <1>8, <1>10, <2>1
    <2>6. 1 \in 1 .. Len(receipts) /\ receipts[1].base \in Nat /\ receipts[1].base + (Len(receipts) - 1) < revision
      BY <1>1, <1>4, <1>10
    <2>7. /\ Len(receipts') <= Retained /\ expired_through' \in Int /\ expired_through <= expired_through'
          /\ receipts[1].base <= expired_through'
      BY <1>1, <1>10, <2>6
    <2>8. expired_through' = -1 \/ (expired_through' >= 0 /\ expired_through' + Retained < revision')
      <3>1. CASE receipts[1].base > expired_through
        <4>1. expired_through' = receipts[1].base
          BY <1>10, <3>1
        <4> QED BY <1>1, <1>3, <1>10, <2>6, <4>1
      <3>2. CASE ~ (receipts[1].base > expired_through)
        <4>1. expired_through' = expired_through
          BY <1>10, <3>2
        <4> QED BY <1>1, <1>3, <1>6, <4>1
      <3> QED BY <3>1, <3>2
    <2>9. \A j \in DOMAIN receipts : (\E i \in DOMAIN receipts' : receipts'[i] = receipts[j]) \/ receipts[j].base <= expired_through'
      <3> TAKE j \in DOMAIN receipts
      <3>1. CASE j = 1
        BY <2>7, <3>1
      <3>2. CASE j # 1
        <4>1. j - 1 \in 1 .. Len(receipts) - 1 /\ j - 1 \in DOMAIN receipts' /\ (j - 1) + 1 = j
          BY <1>1, <1>4, <1>8, <1>10, <3>2
        <4>2. receipts'[j - 1] = receipts[j]
          BY <1>10, <4>1
        <4> QED BY <4>1, <4>2
      <3> QED BY <3>1, <3>2
    <2>10. \A i \in DOMAIN receipts' : receipts'[i] = m \/ \E j \in DOMAIN receipts : receipts'[i] = receipts[j]
      BY <1>4, <1>8, <1>10, <2>1
    <2>11. \E i \in DOMAIN receipts' : receipts'[i].id = r.op.id
      BY <1>1, <1>7, <1>8, <1>10
    <2> HIDE <1>10
    <2> QED BY <1>7, <2>4, <2>5, <2>7, <2>8, <2>9, <2>10, <2>11
  <1> QED BY <1>7, <1>9, <1>10

\* What is on record stays on record.
LEMMA RecordedKeeps ==
  ASSUME IInv, NEW r \in net, NEW status \in Statuses \ {"unknown"}, IsNew(r.op), Settle(r.op, status),
         NEW id \in Ids, NEW base \in Nat, Recorded(id, base), id = r.op.id => base = r.op.base
  PROVE  Recorded(id, base)'
  <1>1. /\ expired_through \in Int /\ expired_through' \in Int /\ expired_through <= expired_through'
        /\ r.op \in Operations /\ executed[r.op.id] = 0
    BY RequestTyped, RememberKeeps, FreshOperation DEF IInv, Types, ServiceTypes
  <1>2. /\ \A i \in DOMAIN receipts' : \/ receipts'[i].id = r.op.id /\ receipts'[i].base = r.op.base
                                       \/ \E j \in DOMAIN receipts : receipts'[i] = receipts[j]
        /\ \E i \in DOMAIN receipts' : receipts'[i].id = r.op.id
        /\ \A j \in DOMAIN receipts : \/ \E i \in DOMAIN receipts' : receipts'[i] = receipts[j]
                                      \/ receipts[j].base <= expired_through'
    BY RememberKeeps
  <1>3. id # r.op.id => executed'[id] = executed[id]
    BY <1>1, Counted
  <1>4. /\ \A i \in DOMAIN receipts : receipts[i].id = id => receipts[i].base = base
        /\ executed[id] > 0 => \/ base <= expired_through
                               \/ \E i \in DOMAIN receipts : receipts[i].id = id
    BY DEF Recorded
  <1>5. \A i \in DOMAIN receipts' : receipts'[i].id = id => receipts'[i].base = base
    BY <1>2, <1>4
  <1>6. executed'[id] > 0 => \/ base <= expired_through'
                             \/ \E i \in DOMAIN receipts' : receipts'[i].id = id
    <2>1. CASE id = r.op.id
      BY <1>2, <2>1
    <2>2. CASE id # r.op.id
      <3>1. base <= expired_through => base <= expired_through'
        BY <1>1
      <3> QED BY <1>2, <1>3, <1>4, <2>2, <3>1
    <2> QED BY <2>1, <2>2
  <1> QED BY <1>5, <1>6 DEF Recorded

\* A status that was true of its operation stays true.
LEMMA HonestKeeps ==
  ASSUME IInv, NEW r \in net, NEW status \in Statuses \ {"unknown"}, IsNew(r.op), Settle(r.op, status),
         NEW id \in Ids, NEW st, Honest(id, st)
  PROVE  Honest(id, st)'
  <1>1. r.op \in Operations /\ executed[r.op.id] = 0
    BY RequestTyped, FreshOperation DEF IInv
  <1>2. /\ id # r.op.id => executed'[id] = executed[id] /\ (id \in applied' <=> id \in applied)
        /\ executed'[r.op.id] = 1
    BY <1>1, Counted
  <1>3. CASE id = r.op.id
    <2>1. st = "unknown"
      BY <1>1, <1>3 DEF Honest
    <2> QED BY <2>1 DEF Honest
  <1>4. CASE id # r.op.id
    BY <1>2, <1>4 DEF Honest
  <1> QED BY <1>3, <1>4

LEMMA ExecuteRemembers ==
  ASSUME IInv, NEW r \in net, NEW status \in Statuses \ {"unknown"}, IsNew(r.op), Settle(r.op, status),
         NEW y, y.op = r.op, Serves(r, y)
  PROVE  Remembered'
  <1>1. Types /\ r.op \in Operations /\ executed[r.op.id] = 0
    BY RequestTyped, FreshOperation DEF IInv
  <1>2. page' = page /\ \A q \in net' : q \in net \/ q = y
    BY DEF Serves
  <1>3. \A q \in net : Recorded(q.op.id, q.op.base)'
    <2> TAKE q \in net
    <2>1. q.op.id \in Ids /\ q.op.base \in Nat
      BY <1>1, RequestTyped
    <2>2. Recorded(q.op.id, q.op.base)
      BY DEF IInv, Remembered
    <2>3. q.op.id = r.op.id => q.op.base = r.op.base
      BY DEF IInv, Identity
    <2> QED BY <2>1, <2>2, <2>3, RecordedKeeps
  <1>4. page.submission # NoSubmission => Recorded(page.submission.id, page.submission.base)'
    <2> SUFFICES ASSUME page.submission # NoSubmission
                 PROVE  Recorded(page.submission.id, page.submission.base)'
      OBVIOUS
    <2>1. PICK id, base : id = page.submission.id /\ base = page.submission.base
      OBVIOUS
    <2>2. id \in Ids /\ base \in Nat
      BY <1>1, <2>1, SubmissionTyped DEF Types, PageTypes, Submissions
    <2>3. Recorded(id, base)
      BY <2>1 DEF IInv, Remembered
    <2>4. id = r.op.id => base = r.op.base
      BY <2>1 DEF IInv, Identity, IsSubmission
    <2>5. Recorded(id, base)'
      BY <2>2, <2>3, <2>4, RecordedKeeps
    <2> QED BY <1>2, <2>1, <2>5 DEF Recorded
  <1>5. \A q \in net' : Recorded(q.op.id, q.op.base)'
    <2> TAKE q \in net'
    <2>1. q.op = r.op \/ q \in net
      BY <1>2
    <2>2. Recorded(r.op.id, r.op.base)'
      BY <1>3
    <2>3. q.op = r.op => (Recorded(r.op.id, r.op.base)' => Recorded(q.op.id, q.op.base)')
      OBVIOUS
    <2> QED BY <1>3, <2>1, <2>2, <2>3
  <1>6. /\ \A i \in DOMAIN receipts' :
             executed'[receipts'[i].id] > 0 /\ receipts'[i].base + (Len(receipts') - i) < revision'
        /\ expired_through' = -1 \/ (expired_through' >= 0 /\ expired_through' + Retained < revision')
        /\ Len(receipts') <= Retained
    BY RememberKeeps
  <1>7. AppliedOnce'
    BY <1>1, Counted DEF AppliedOnce
  <1> QED BY <1>2, <1>4, <1>5, <1>6, <1>7 DEF Remembered

LEMMA ExecuteTells ==
  ASSUME IInv, NEW r \in net, NEW status \in Statuses \ {"unknown"}, IsNew(r.op), Settle(r.op, status),
         NEW y, y.op = r.op, y.status = status, Serves(r, y)
  PROVE  Truth'
  <1>1. /\ Types /\ r.op \in Operations /\ executed[r.op.id] = 0 /\ r.op.id \notin applied
        /\ executed \in [Ids -> Nat] /\ applied \subseteq Ids
    BY RequestTyped, FreshOperation DEF IInv, Types, ServiceTypes
  <1>2. page' = page /\ told' = told /\ \A q \in net' : q \in net \/ q = y
    BY DEF Serves
  <1>3. /\ revision \in Nat /\ revision' = revision + 1 /\ executed'[r.op.id] = 1
        /\ \A id \in Ids : id # r.op.id => executed'[id] = executed[id]
        /\ \A id : id # r.op.id => (id \in applied' <=> id \in applied)
        /\ r.op.id \in applied' <=> (status = "success" \/ r.op.id \in applied)
        /\ applied' \subseteq Ids
    BY <1>1, Counted
  <1>4. Honest(r.op.id, status)'
    BY <1>1, <1>3 DEF Honest
  <1>5. expired_through \in Int /\ expired_through' \in Int /\ expired_through <= expired_through' /\ Retained \in Nat
    BY <1>1, RememberKeeps, ServiceAssumption DEF Types, ServiceTypes
  <1>6. \A q \in net : q.stage = "answered" => HonestReply(q)'
    <2> TAKE q \in net
    <2> SUFFICES ASSUME q.stage = "answered" PROVE HonestReply(q)'
      OBVIOUS
    <2>1. HonestReply(q) /\ q.op.id \in Ids /\ q.op.base \in Nat
      BY <1>1, RequestTyped DEF IInv, Truth
    <2>2. Honest(q.op.id, q.status)'
      BY <2>1, HonestKeeps DEF HonestReply
    <2>3. q.status = "unknown" => q.op.base <= expired_through' /\ revision' > q.op.base + Retained
      <3>1. q.status = "unknown" => q.op.base <= expired_through /\ revision > q.op.base + Retained
        BY <2>1 DEF HonestReply
      <3> QED BY <1>3, <1>5, <2>1, <3>1
    <2> QED BY <2>2, <2>3 DEF HonestReply
  <1>7. HonestReply(y)'
    <2>1. Honest(y.op.id, y.status)'
      BY <1>4
    <2> QED BY <2>1 DEF HonestReply
  <1>8. \A i \in DOMAIN receipts' : Honest(receipts[i].id, receipts[i].status)'
    <2> TAKE i \in DOMAIN receipts'
    <2>1. CASE receipts'[i].id = r.op.id /\ receipts'[i].status = status
      BY <1>4, <2>1 DEF Honest
    <2>2. ASSUME NEW j \in DOMAIN receipts, receipts'[i] = receipts[j]
          PROVE  Honest(receipts[i].id, receipts[i].status)'
      <3>1. PICK id, st : id = receipts[j].id /\ st = receipts[j].status
        OBVIOUS
      <3>2. receipts[j] \in Marks /\ Honest(id, st)
        BY <1>1, <3>1 DEF IInv, Truth, Types, ServiceTypes
      <3>3. id \in Ids
        BY <3>1, <3>2 DEF Marks
      <3>4. Honest(id, st)'
        BY <3>2, <3>3, HonestKeeps
      <3> QED BY <2>2, <3>1, <3>4 DEF Honest
    <2> QED BY <2>1, <2>2, RememberKeeps
  <1>9. \A answer \in told : Honest(answer[1], answer[2])'
    <2> TAKE answer \in told
    <2>1. answer[1] \in Ids /\ Honest(answer[1], answer[2])
      BY <1>1 DEF IInv, Truth, Types, PageTypes
    <2> QED BY <2>1, HonestKeeps
  <1>10. \A id \in applied' : executed'[id] > 0
    BY <1>1, <1>3 DEF IInv, Truth
  <1>11. page.restartRequired => revision' > page.submission.base + Retained
    <2>1. page.restartRequired => /\ page.submission # NoSubmission /\ revision > page.submission.base + Retained
      BY DEF IInv, Truth
    <2>2. page.submission # NoSubmission => page.submission.base \in Nat
      BY <1>1, PageNumbers DEF Types, PageTypes
    <2> QED BY <1>3, <1>5, <2>1, <2>2
  <1> QED BY <1>2, <1>6, <1>7, <1>8, <1>9, <1>10, <1>11 DEF IInv, Truth

\* An operation as old as a snapshot the page has not taken yet writes no token.
LEMMA ExecuteWipes ==
  ASSUME IInv, NEW r \in net, NEW status \in Statuses \ {"unknown"}, IsNew(r.op), Settle(r.op, status),
         Writes(r.op), NEW y, y.op = r.op, y.snapshot.key = Empty => token' = Empty, Serves(r, y)
  PROVE  Wiping'
  <1>1. Types /\ r.op \in Operations /\ r.op.base \in Nat
    BY RequestTyped DEF IInv
  <1>2. /\ page' = page /\ wiped' = wiped /\ \A q \in net' : q \in net \/ q = y
        /\ revision \in Nat /\ page.snapshot.revision \in Nat
    BY <1>1, PageNumbers DEF Serves, Types, PageTypes, ServiceTypes
  <1>3. page.snapshot.revision <= revision /\ r.op.base <= page.snapshot.revision
    BY DEF IInv, Numbers, Placed
  <1>4. /\ WipedStaysWiped
        /\ r.op.kind = "commit" => Clean(r.op.edits, wiped) \/ r.op.base < page.snapshot.revision
        /\ \A q \in net : Outrun(q) /\ q.snapshot.key = Empty => token = Empty
    BY DEF IInv, Wiping
  <1>5. \/ token' = token \/ token' = Empty
        \/ /\ r.op.kind = "commit" /\ r.op.base = revision
           /\ "key" \in DOMAIN r.op.edits /\ r.op.edits["key"] > 0 /\ token' = r.op.edits["key"]
    BY DEF Writes, TokenWrite
  <1>6. WipedStaysWiped'
    <2>1. CASE token' = token \/ token' = Empty
      BY <1>2, <1>4, <2>1 DEF WipedStaysWiped
    <2>2. CASE /\ r.op.kind = "commit" /\ r.op.base = revision
               /\ "key" \in DOMAIN r.op.edits /\ r.op.edits["key"] > 0 /\ token' = r.op.edits["key"]
      <3>1. ~ (r.op.base < page.snapshot.revision)
        BY <1>1, <1>2, <1>3, <2>2
      <3>2. Clean(r.op.edits, wiped)
        BY <1>4, <2>2, <3>1
      <3>3. ~ (r.op.edits["key"] <= 0)
        BY <1>1, <2>2, EditTyped DEF Values, Mask
      <3> QED BY <1>2, <2>2, <3>2, <3>3 DEF Clean, WipedStaysWiped
    <2> QED BY <1>5, <2>1, <2>2
  <1>7. \A q \in net : Outrun(q)' /\ q.snapshot.key = Empty => token' = Empty
    <2> SUFFICES ASSUME NEW q \in net, Outrun(q)', q.snapshot.key = Empty PROVE token' = Empty
      OBVIOUS
    <2>1. Outrun(q) /\ q.stage = "answered" /\ q.snapshot.revision > page.snapshot.revision
      BY <1>2 DEF Outrun
    <2>2. q.snapshot \in Snapshots /\ q.snapshot.revision <= revision
      BY <1>1, <2>1 DEF IInv, Numbers, Placed, Types, PageTypes
    <2>3. q.snapshot.revision \in Nat
      BY <2>2 DEF Snapshots
    <2>4. r.op.base # revision
      BY <1>1, <1>2, <1>3, <2>1, <2>2, <2>3
    <2> QED BY <1>4, <1>5, <2>1, <2>4
  <1>8. \A q \in net' : Outrun(q)' /\ q.snapshot.key = Empty => token' = Empty
    BY <1>2, <1>7
  <1>9. \A q \in net' : q.op.kind = "commit" => Clean(q.op.edits, wiped') \/ q.op.base < page'.snapshot.revision
    BY <1>2 DEF IInv, Wiping, Clean
  <1> QED BY <1>2, <1>6, <1>8, <1>9 DEF IInv, Wiping, Clean

LEMMA ExecuteKeeps ==
  ASSUME IInv, NEW r \in net, NEW status \in Statuses, Executes(r.op, status),
         NEW y, y = Replied(r, status, settings_snapshot'), Serves(r, y)
  PROVE  IInv'
  <1>1. /\ Types /\ r \in Requests /\ r.op \in Operations
        /\ IsNew(r.op) /\ Settle(r.op, status) /\ Writes(r.op) /\ status \in Statuses \ {"unknown"}
    BY RequestTyped DEF IInv, Executes
  <1>2. executed[r.op.id] = 0
    BY <1>1, FreshOperation
  <1>3. /\ revision \in Nat /\ revision' = revision + 1 /\ revision' \in Nat
        /\ executed' \in [Ids -> Nat]
        /\ \A id \in Ids : id # r.op.id => executed'[id] = executed[id]
        /\ applied' \subseteq Ids /\ token_wipes' \in Nat /\ reset_revision' \in Nat
    BY <1>1, <1>2, Counted
  <1>4. ServiceTypes' /\ Kept'
    <2>1. /\ disk' \in Files /\ token' \in Nat /\ backups' \in Seq(Files) /\ backup_path' \in Nat
          /\ mishaps' \in Nat /\ Kept'
      BY <1>1 DEF Writes
    <2>2. receipts' \in Seq(Marks) /\ expired_through' \in Int
      BY <1>1, RememberKeeps
    <2> QED BY <1>3, <2>1, <2>2 DEF ServiceTypes
  <1>5. /\ settings_snapshot' \in Snapshots /\ settings_snapshot'.revision = revision'
        /\ settings_snapshot'.key = Empty => token' = Empty
    BY <1>4 DEF settings_snapshot, Snapshots, ServiceTypes, Files, Values, Default, Mask, Empty
  <1> HIDE DEF settings_snapshot
  <1>6. PICK s : s = settings_snapshot'
    OBVIOUS
  <1>7. /\ y \in Requests /\ y.op = r.op /\ y.revisions = r.revisions /\ y.heard = r.heard
        /\ y.stage = "answered" /\ y.status = status /\ y.snapshot = s
    BY <1>1, <1>5, <1>6, ReplyTyped
  <1>8. PageTypes' /\ Identity' /\ OneSave'
    BY <1>5, <1>6, ServeKeeps
  <1>9. page' = page /\ \A q \in net' : q \in net \/ q = y
    BY DEF Serves
  <1>10. Numbers'
    <2>1. Placed(r) /\ page.snapshot.revision <= revision /\ page.snapshot.revision \in Nat
      BY <1>1, PageNumbers DEF IInv, Numbers, Types, PageTypes
    <2>2. Placed(y)'
      BY <1>3, <1>5, <1>6, <1>7, <1>9, <2>1 DEF Placed
    <2>3. \A q \in net : Placed(q)'
      <3> TAKE q \in net
      <3>1. Placed(q) /\ (q.stage = "answered" => q.snapshot \in Snapshots)
        BY <1>1 DEF IInv, Numbers, Types, PageTypes
      <3>2. q.stage = "answered" => q.snapshot.revision <= revision'
        BY <1>3, <3>1 DEF Placed, Snapshots
      <3> QED BY <1>9, <3>1, <3>2 DEF Placed
    <2>4. \A id \in Ids : executed'[id] > 0 => id <= page.operations
      BY <1>3, <2>1 DEF IInv, Numbers, Placed
    <2>5. page.snapshot.revision <= revision'
      BY <1>3, <2>1
    <2> QED BY <1>9, <2>2, <2>3, <2>4, <2>5 DEF IInv, Numbers
  <1>11. Remembered'
    BY <1>1, <1>7, ExecuteRemembers
  <1>12. Truth'
    BY <1>1, <1>7, ExecuteTells
  <1>13. Wiping'
    BY <1>1, <1>5, <1>6, <1>7, ExecuteWipes
  <1> QED BY <1>4, <1>8, <1>10, <1>11, <1>12, <1>13 DEF IInv, Types

LEMMA HandleKeeps ==
  ASSUME IInv, NEW r \in net, Handle(r)
  PROVE  IInv'
  <1>1. /\ page' = page /\ told' = told /\ wiped' = wiped /\ faults' = faults
        /\ \E status \in Statuses :
              /\ net' = (net \ {r}) \cup (IF r.heard THEN {Replied(r, status, settings_snapshot')} ELSE {})
              /\ Recalls(r.op, status) \/ Executes(r.op, status)
    BY HandleSteps DEF IInv, Handle
  <1>2. PICK status \in Statuses :
              /\ net' = (net \ {r}) \cup (IF r.heard THEN {Replied(r, status, settings_snapshot')} ELSE {})
              /\ Recalls(r.op, status) \/ Executes(r.op, status)
    BY <1>1
  <1>3. PICK y : y = Replied(r, status, settings_snapshot')
    OBVIOUS
  <1>4. Serves(r, y)
    BY <1>1, <1>2, <1>3 DEF Serves
  <1> QED BY <1>2, <1>3, <1>4, RecallKeeps, ExecuteKeeps

-----------------------------------------------------------------------------
(* What the page does with a reply *)

\* The form never goes back, and shows nothing the user did not type but what is saved.
LEMMA FormMoves ==
  ASSUME IInv, page' \in Pages, NEW s \in Snapshots, s.revision <= revision, NEW kept,
         FormTakes(page', page, s, kept)
  PROVE  /\ page.snapshot.revision <= page'.snapshot.revision
         /\ page'.snapshot.revision <= revision
         /\ page'.snapshot.revision \in Nat /\ page.snapshot.revision \in Nat /\ revision \in Nat
         /\ page'.draft["key"] = page.draft["key"] \/ page'.draft["key"] <= 0
         /\ "key" \notin kept => page'.draft["key"] <= 0
         /\ IsNewer(page, s) => page'.snapshot = s
  <1>1. /\ page.snapshot.revision \in Nat /\ page'.snapshot.revision \in Nat /\ s.revision \in Nat
        /\ revision \in Nat /\ page.snapshot.revision <= revision
    BY PageNumbers DEF Snapshots, IInv, Types, PageTypes, ServiceTypes, Numbers
  <1>2. page'.snapshot = IF IsNewer(page, s) THEN s ELSE page.snapshot
    BY DEF FormTakes
  <1>3. page.snapshot.revision <= page'.snapshot.revision /\ page'.snapshot.revision <= revision
    BY <1>1, <1>2 DEF IsNewer
  <1>4. page'.draft["key"] = IF "key" \in kept THEN page.draft["key"] ELSE original(page')["key"]
    BY RevertedKey DEF FormTakes, Controls
  <1>5. original(page')["key"] <= 0
    BY OriginalTyped DEF Empty, Mask
  <1> QED BY <1>1, <1>2, <1>3, <1>4, <1>5

\* Everything in flight stays in its place when the form moves on and only r is taken away.
LEMMA PlacesKept ==
  ASSUME IInv, UNCHANGED serviceVars, page' \in Pages,
         page.snapshot.revision <= page'.snapshot.revision, page'.snapshot.revision <= revision,
         page'.operations \in {page.operations, page.operations + 1}
  PROVE  /\ page'.snapshot.revision <= revision'
         /\ \A id \in Ids : executed'[id] > 0 => id <= page'.operations
         /\ \A q \in net : Placed(q)'
         /\ page.submission # NoSubmission =>
              page.submission.id <= page'.operations /\ page.submission.base <= page'.snapshot.revision
         /\ \A q \in net : q.op.kind = "commit" => Clean(q.op.edits, wiped) \/ q.op.base < page'.snapshot.revision
         /\ \A q \in net : Outrun(q)' /\ q.snapshot.key = Empty => token' = Empty
  <1>1. /\ page \in Pages /\ page.operations \in Nat /\ page'.operations \in Nat
        /\ page.snapshot.revision \in Nat /\ page'.snapshot.revision \in Nat
        /\ page.submission # NoSubmission => page.submission.id \in Nat /\ page.submission.base \in Nat
    BY PageNumbers DEF IInv, Types, PageTypes
  <1>2. page.operations <= page'.operations
    BY <1>1
  <1>3. \A q \in net : q.op.id \in Nat /\ q.op.base \in Nat /\ (q.stage = "answered" => q.snapshot.revision \in Nat)
    BY RequestTyped DEF IInv, Types, PageTypes, Snapshots
  <1>4. revision' = revision /\ executed' = executed /\ token' = token
    BY ServerRests
  <1>5. \A q \in net : Placed(q)'
    <2> TAKE q \in net
    <2>1. q.op.id <= page.operations /\ q.op.base <= page.snapshot.revision
          /\ (q.stage = "answered" => q.snapshot.revision <= revision)
      BY DEF IInv, Numbers, Placed
    <2>2. q.op.id <= page'.operations /\ q.op.base <= page'.snapshot.revision
      BY <1>1, <1>2, <1>3, <2>1
    <2> QED BY <1>4, <2>1, <2>2 DEF Placed
  <1>6. \A id \in Ids : executed'[id] > 0 => id <= page'.operations
    <2> TAKE id \in Ids
    <2>1. id \in Nat /\ (executed[id] > 0 => id <= page.operations)
      BY ServiceAssumption DEF IInv, Numbers
    <2> QED BY <1>1, <1>2, <1>4, <2>1
  <1>7. page.submission # NoSubmission =>
              page.submission.id <= page'.operations /\ page.submission.base <= page'.snapshot.revision
    <2>1. page.submission # NoSubmission =>
              page.submission.id <= page.operations /\ page.submission.base <= page.snapshot.revision
      BY DEF IInv, Numbers
    <2> QED BY <1>1, <1>2, <2>1
  <1>8. \A q \in net : q.op.kind = "commit" => Clean(q.op.edits, wiped) \/ q.op.base < page'.snapshot.revision
    <2> TAKE q \in net
    <2>1. q.op.kind = "commit" => Clean(q.op.edits, wiped) \/ q.op.base < page.snapshot.revision
      BY DEF IInv, Wiping
    <2>2. q.op.base < page.snapshot.revision => q.op.base < page'.snapshot.revision
      BY <1>1, <1>3
    <2> QED BY <2>1, <2>2
  <1>9. \A q \in net : Outrun(q)' /\ q.snapshot.key = Empty => token' = Empty
    <2> TAKE q \in net
    <2>1. Outrun(q)' => q.stage = "answered" /\ q.snapshot.revision > page'.snapshot.revision
      BY DEF Outrun
    <2>2. Outrun(q)' => Outrun(q)
      BY <1>1, <1>3, <2>1 DEF Outrun
    <2> QED BY <1>4, <2>2 DEF IInv, Wiping
  <1> QED BY <1>4, <1>5, <1>6, <1>7, <1>8, <1>9

\* What the page was told of an operation.
LEMMA AnswerTold ==
  ASSUME IInv, UNCHANGED serviceVars, NEW r \in net, r.stage = "answered",
         told' = told \cup {<<r.op.id, r.status>>}
  PROVE  /\ told' \subseteq Ids \X Statuses
         /\ \A answer \in told' : Honest(answer[1], answer[2])'
         /\ \A i \in DOMAIN receipts' : Honest(receipts[i].id, receipts[i].status)'
         /\ \A q \in net : q.stage = "answered" => HonestReply(q)'
         /\ \A id \in applied' : executed'[id] > 0
         /\ r.status = "unknown" => revision' > r.op.base + Retained
  <1>1. r.op.id \in Ids /\ r.status \in Statuses /\ HonestReply(r) /\ told \subseteq Ids \X Statuses
    BY RequestTyped DEF IInv, Types, PageTypes, Truth
  <1>2. told' \subseteq Ids \X Statuses
    BY <1>1
  <1>3. \A answer \in told' : Honest(answer[1], answer[2])
    BY <1>1 DEF HonestReply, IInv, Truth
  <1>4. /\ revision' = revision /\ executed' = executed /\ applied' = applied
        /\ receipts' = receipts /\ expired_through' = expired_through
        /\ \A id, status : Honest(id, status)' <=> Honest(id, status)
    BY ServerRests
  <1>5. \A answer \in told' : Honest(answer[1], answer[2])'
    <2> TAKE answer \in told'
    <2>1. PICK id, st : id = answer[1] /\ st = answer[2]
      OBVIOUS
    <2>2. Honest(id, st)'
      BY <1>3, <1>4, <2>1
    <2> QED BY <2>1, <2>2
  <1>6. \A i \in DOMAIN receipts' : Honest(receipts[i].id, receipts[i].status)'
    BY <1>4 DEF IInv, Truth, Honest
  <1>7. \A q \in net : q.stage = "answered" => HonestReply(q)'
    BY <1>4 DEF IInv, Truth, HonestReply
  <1> QED BY <1>1, <1>2, <1>4, <1>5, <1>6, <1>7 DEF IInv, Truth, HonestReply

\* What the server remembers of the requests that are still there.
LEMMA StillRemembered ==
  ASSUME IInv, UNCHANGED serviceVars, \A q \in net' : \E p \in net : q.op = p.op,
         page'.submission # NoSubmission =>
           \A id, base : id = page'.submission.id /\ base = page'.submission.base => Recorded(id, base)
  PROVE  Remembered'
  <1>1. /\ revision' = revision /\ executed' = executed /\ receipts' = receipts
        /\ expired_through' = expired_through
        /\ \A id, base : Recorded(id, base)' <=> Recorded(id, base)
    BY ServerRests
  <1>2. \A q \in net' : Recorded(q.op.id, q.op.base)'
    BY <1>1 DEF IInv, Remembered
  <1>3. page'.submission # NoSubmission => Recorded(page.submission.id, page.submission.base)'
    <2> SUFFICES ASSUME page'.submission # NoSubmission
                 PROVE  Recorded(page.submission.id, page.submission.base)'
      OBVIOUS
    <2>1. PICK id, base : id = page'.submission.id /\ base = page'.submission.base
      OBVIOUS
    <2>2. Recorded(id, base)'
      BY <1>1, <2>1
    <2> QED BY <2>1, <2>2 DEF Recorded
  <1> QED BY <1>1, <1>2, <1>3 DEF IInv, Remembered, AppliedOnce

\* The reply the page waits for is the reply to the save it has kept.
LEMMA ReplyToSave ==
  ASSUME IInv, NEW r \in net, Awaited(r)
  PROVE  /\ page.pending /\ page.submission # NoSubmission /\ ~ page.restartRequired
         /\ r.op.id = page.submission.id /\ r.op.base = page.submission.base
         /\ r.op.edits = page.submission.edits /\ r.revisions = page.submission.revisions
         /\ \A q \in net \ {r} : ~ Awaited(q)
  <1>1. /\ page.pending /\ page.submission # NoSubmission /\ r.op.id = page.submission.id
        /\ r.revisions = page.submission.revisions /\ \A q \in net \ {r} : ~ Awaited(q)
    BY DEF IInv, OneSave
  <1>2. IsSubmission(r.op)
    BY <1>1 DEF IInv, Identity
  <1>3. ~ page.restartRequired
    BY <1>1 DEF IInv, Truth
  <1> QED BY <1>1, <1>2, <1>3 DEF IsSubmission

LEMMA SaveEndsKeeps ==
  ASSUME IInv, UNCHANGED serviceVars, faults' = faults, wiped' = wiped,
         NEW r \in net, r.stage = "answered", Awaited(r), NEW kept, SaveEnds(r, kept),
         told' = told \cup {<<r.op.id, r.status>>}
  PROVE  IInv'
  <1>1. /\ Types /\ page \in Pages /\ page' \in Pages /\ r.snapshot \in Snapshots /\ net' = net \ {r}
        /\ FormTakes(page', page, r.snapshot, kept) /\ SameEdits(page', page)
        /\ page'.submission = NoSubmission /\ ~ page'.pending /\ ~ page'.unconfirmed
        /\ page'.restartRequired = page.restartRequired /\ page'.operations = page.operations
    BY DEF IInv, Types, PageTypes, SaveEnds, SaveSettled
  <1>2. r.snapshot.revision <= revision
    BY DEF IInv, Numbers, Placed
  <1>3. /\ page.snapshot.revision <= page'.snapshot.revision
        /\ page'.snapshot.revision <= revision
        /\ page'.draft["key"] = page.draft["key"] \/ page'.draft["key"] <= 0
    BY <1>1, <1>2, FormMoves
  <1>4. ~ page.restartRequired /\ \A q \in net' : ~ Awaited(q)
    BY <1>1, ReplyToSave
  <1>5. Types' /\ Kept'
    <2>1. PageTypes'
      BY <1>1, AnswerTold DEF Types, PageTypes
    <2> QED BY <2>1, ServerRests DEF IInv, Types
  <1>6. Numbers'
    BY <1>1, <1>3, PlacesKept DEF Numbers
  <1>7. Identity'
    BY <1>1 DEF IInv, Identity
  <1>8. OneSave'
    BY <1>1, <1>4 DEF OneSave, SubmissionKept
  <1>9. Remembered'
    BY <1>1, StillRemembered
  <1>10. Truth'
    BY <1>1, <1>4, AnswerTold DEF Truth
  <1>11. Wiping'
    <2>1. WipedStaysWiped' /\ wiped' <= page'.revisions["key"] /\ \A c \in Controls : page'.revisions[c] <= page'.edits
      BY <1>1, ServerRests DEF IInv, Wiping, WipedStaysWiped, SameEdits
    <2>2. page'.draft["key"] <= 0 \/ page'.draft["key"] > wiped'
      BY <1>3 DEF IInv, Wiping
    <2>3. /\ \A q \in net' : q.op.kind = "commit" => Clean(q.op.edits, wiped') \/ q.op.base < page'.snapshot.revision
          /\ \A q \in net' : Outrun(q)' /\ q.snapshot.key = Empty => token' = Empty
      BY <1>1, <1>3, PlacesKept
    <2> QED BY <1>1, <2>1, <2>2, <2>3 DEF Wiping
  <1> QED BY <1>5, <1>6, <1>7, <1>8, <1>9, <1>10, <1>11 DEF IInv

\* The loop of commitGlobalDraft: the next save is the draft as it now is.
LEMMA SaveGoesOnKeeps ==
  ASSUME IInv, UNCHANGED serviceVars, faults' = faults, wiped' = wiped,
         NEW r \in net, r.stage = "answered", Awaited(r), NEW kept, SaveGoesOn(r, kept),
         told' = told \cup {<<r.op.id, r.status>>}
  PROVE  IInv'
  <1>0. PICK s, x : s = page'.submission /\ x = Post(page')
    OBVIOUS
  <1>1. /\ Types /\ page \in Pages /\ page' \in Pages /\ r.snapshot \in Snapshots
        /\ net' = (net \ {r}) \cup {x}
        /\ FormTakes(page', page, r.snapshot, kept) /\ SameEdits(page', page)
        /\ ~ page'.unconfirmed /\ page'.restartRequired = page.restartRequired
        /\ page'.pending = page.pending
    BY <1>0 DEF IInv, Types, PageTypes, SaveGoesOn, SaveSettled
  <1>2. /\ s \in Submissions /\ s # NoSubmission /\ s.id = page.operations + 1
        /\ s.base = page'.snapshot.revision /\ page'.operations = page.operations + 1
        /\ \A c \in DOMAIN s.edits : s.edits[c] = page'.draft[c]
    BY <1>0, SubmissionDistinct DEF SaveGoesOn, Submitting
  <1>3. /\ x \in Requests /\ x.heard /\ x.stage = "sent" /\ x.op.kind = "commit" /\ x.op.id = s.id
        /\ x.op.base = s.base /\ x.op.edits = s.edits /\ x.revisions = s.revisions
    BY <1>0, <1>1, <1>2, PostTyped
  <1>4. r.snapshot.revision <= revision
    BY DEF IInv, Numbers, Placed
  <1>5. /\ page.snapshot.revision <= page'.snapshot.revision
        /\ page'.snapshot.revision <= revision /\ page'.snapshot.revision \in Nat
        /\ page'.draft["key"] = page.draft["key"] \/ page'.draft["key"] <= 0
    BY <1>1, <1>4, FormMoves
  <1>6. page.pending /\ ~ page.restartRequired /\ \A q \in net \ {r} : ~ Awaited(q)
    BY ReplyToSave
  <1>7. s.id \in Ids
    BY <1>2 DEF Submissions
  <1>8. /\ \A base : Recorded(s.id, base)
        /\ \A q \in net : q.op.id # s.id
        /\ page.operations \in Nat
    BY <1>2, <1>7, NewId
  <1>9. Types' /\ Kept'
    <2>1. PageTypes'
      BY <1>1, <1>3, AnswerTold DEF Types, PageTypes
    <2> QED BY <2>1, ServerRests DEF IInv, Types
  <1>10. Numbers'
    <2>1. /\ page'.snapshot.revision <= revision'
          /\ \A id \in Ids : executed'[id] > 0 => id <= page'.operations
          /\ \A q \in net : Placed(q)'
      BY <1>1, <1>2, <1>5, PlacesKept
    <2>2. s.id <= page'.operations /\ s.base <= page'.snapshot.revision
      BY <1>2, <1>5, <1>8
    <2>3. Placed(x)'
      BY <1>3, <2>2 DEF Placed
    <2> QED BY <1>0, <1>1, <2>1, <2>2, <2>3 DEF Numbers
  <1>11. Identity'
    <2>1. \A p, q \in net' : p.op.id = q.op.id => p.op = q.op /\ (p.op.kind # "commit" => p = q)
      BY <1>1, <1>3, <1>8 DEF IInv, Identity
    <2>2. \A q \in net' : q.op.id = s.id => IsSubmission(q.op)'
      BY <1>0, <1>1, <1>3, <1>8 DEF IsSubmission
    <2> QED BY <1>0, <2>1, <2>2 DEF Identity
  <1>12. OneSave'
    BY <1>0, <1>1, <1>2, <1>3, <1>6 DEF OneSave, Awaited, SubmissionKept
  <1>13. Remembered'
    <2>1. \A id, base : Recorded(id, base)' <=> Recorded(id, base)
      BY ServerRests
    <2>2. \A q \in net' : Recorded(q.op.id, q.op.base)'
      BY <1>1, <1>3, <1>8, <2>1 DEF IInv, Remembered
    <2>3. Recorded(page.submission.id, page.submission.base)'
      <3>1. PICK id, base : id = page'.submission.id /\ base = page'.submission.base
        OBVIOUS
      <3>2. Recorded(id, base)'
        BY <1>0, <1>8, <2>1, <3>1
      <3> QED BY <3>1, <3>2 DEF Recorded
    <2> QED BY <2>2, <2>3, ServerRests DEF IInv, Remembered, AppliedOnce
  <1>14. Truth'
    BY <1>1, <1>3, <1>6, AnswerTold DEF Truth
  <1>15. Wiping'
    <2>1. WipedStaysWiped' /\ wiped' <= page'.revisions["key"] /\ \A c \in Controls : page'.revisions[c] <= page'.edits
      BY <1>1, ServerRests DEF IInv, Wiping, WipedStaysWiped, SameEdits
    <2>2. page'.draft["key"] <= 0 \/ page'.draft["key"] > wiped'
      BY <1>5 DEF IInv, Wiping
    <2>3. Clean(s.edits, wiped')
      BY <1>2, <2>2 DEF Clean
    <2>4. \A q \in net' : q.op.kind = "commit" => Clean(q.op.edits, wiped') \/ q.op.base < page'.snapshot.revision
      <3>1. \A q \in net : q.op.kind = "commit" => Clean(q.op.edits, wiped') \/ q.op.base < page'.snapshot.revision
        BY <1>1, <1>2, <1>5, PlacesKept
      <3> QED BY <1>1, <1>3, <2>3, <3>1
    <2>5. \A q \in net' : Outrun(q)' /\ q.snapshot.key = Empty => token' = Empty
      <3>1. \A q \in net : Outrun(q)' /\ q.snapshot.key = Empty => token' = Empty
        BY <1>1, <1>2, <1>5, PlacesKept
      <3>2. ~ Outrun(x)'
        BY <1>3 DEF Outrun
      <3> QED BY <1>1, <3>1, <3>2
    <2> QED BY <1>0, <2>1, <2>2, <2>3, <2>4, <2>5 DEF Wiping
  <1> QED BY <1>9, <1>10, <1>11, <1>12, <1>13, <1>14, <1>15 DEF IInv

\* The outcome of the save is not known: its reply says so, or there is none.
LEMMA SaveUnsureKeeps ==
  ASSUME IInv, UNCHANGED serviceVars, faults' \in Nat, wiped' = wiped,
         NEW r \in net, Awaited(r), NEW unknown \in BOOLEAN, SaveUnsure(unknown),
         NEW u \in Requests, u.op = r.op, u.stage = "sent", ~ u.heard,
         net' \subseteq (net \ {r}) \cup {u},
         told' \subseteq Ids \X Statuses,
         \A answer \in told' : Honest(answer[1], answer[2])',
         unknown => revision' > r.op.base + Retained
  PROVE  IInv'
  <1>1. /\ Types /\ page \in Pages /\ page' \in Pages /\ page'.submission = page.submission
        /\ SameForm(page', page) /\ SameEdits(page', page) /\ page'.operations = page.operations
        /\ page'.unconfirmed /\ ~ page'.pending
        /\ page'.restartRequired = (page.restartRequired \/ unknown)
        /\ page'.snapshot = page.snapshot
    BY DEF IInv, Types, PageTypes, SaveUnsure, SameForm
  <1>2. /\ page.submission # NoSubmission /\ ~ page.restartRequired
        /\ r.op.base = page.submission.base /\ \A q \in net' : ~ Awaited(q)
    BY ReplyToSave DEF Awaited
  <1>3. \A q \in net' : q.op = r.op \/ (q \in net /\ q # r)
    OBVIOUS
  <1>4. Types' /\ Kept'
    <2>1. PageTypes'
      BY <1>1 DEF Types, PageTypes
    <2> QED BY <2>1, ServerRests DEF IInv, Types
  <1>5. page.snapshot.revision <= page'.snapshot.revision /\ page'.snapshot.revision <= revision
    <2>1. page.snapshot.revision \in Nat /\ page.snapshot.revision <= revision
      BY <1>1, PageNumbers DEF IInv, Numbers
    <2> QED BY <1>1, <2>1
  <1>6. Numbers'
    <2>1. Placed(u)'
      BY <1>1 DEF IInv, Numbers, Placed
    <2> QED BY <1>1, <1>5, <2>1, PlacesKept DEF Numbers
  <1>7. Identity'
    <2>1. \A p, q \in net' : p.op.id = q.op.id => p.op = q.op /\ (p.op.kind # "commit" => p = q)
      BY <1>3 DEF IInv, Identity
    <2>2. \A q \in net' : q.op.id = page.submission.id => IsSubmission(q.op)
      BY <1>2, <1>3 DEF IInv, Identity
    <2> QED BY <1>1, <2>1, <2>2 DEF Identity, IsSubmission
  <1>8. OneSave'
    BY <1>1, <1>2 DEF OneSave, SubmissionKept
  <1>9. Remembered'
    <2>1. \A q \in net' : \E p \in net : q.op = p.op
      BY <1>3
    <2> QED BY <1>1, <2>1, StillRemembered DEF IInv, Remembered
  <1>10. Truth'
    <2>1. \A q \in net' : q.stage = "answered" => HonestReply(q)'
      BY ServerRests DEF IInv, Truth, HonestReply
    <2>2. /\ \A i \in DOMAIN receipts' : Honest(receipts[i].id, receipts[i].status)'
          /\ \A id \in applied' : executed'[id] > 0
      BY ServerRests DEF IInv, Truth, Honest
    <2> QED BY <1>1, <1>2, <2>1, <2>2 DEF Truth
  <1>11. Wiping'
    <2>1. /\ WipedStaysWiped' /\ wiped' <= page'.revisions["key"] /\ \A c \in Controls : page'.revisions[c] <= page'.edits
          /\ page'.draft["key"] <= 0 \/ page'.draft["key"] > wiped'
      BY <1>1, WipingSame
    <2>2. page'.submission # NoSubmission =>
            \/ Clean(page'.submission.edits, wiped')
            \/ "key" \in page'.submission.cancelled /\ page'.submission.base < page'.snapshot.revision
      BY <1>1 DEF IInv, Wiping
    <2>3. \A q \in net' : q.op.kind = "commit" => Clean(q.op.edits, wiped') \/ q.op.base < page'.snapshot.revision
      BY <1>1, <1>3, WipingSame
    <2>4. \A q \in net' : Outrun(q)' /\ q.snapshot.key = Empty => token' = Empty
      <3>1. ~ Outrun(u)'
        BY DEF Outrun
      <3> QED BY <1>1, <3>1, WipingSame
    <2> QED BY <2>1, <2>2, <2>3, <2>4 DEF Wiping
  <1> QED BY <1>4, <1>6, <1>7, <1>8, <1>9, <1>10, <1>11 DEF IInv

\* The reply to a wipe or a reset.
LEMMA ShownKeeps ==
  ASSUME IInv, UNCHANGED serviceVars, faults' = faults, NEW r \in net, r.stage = "answered",
         NEW kept, Shown(r, kept), told' = told \cup {<<r.op.id, r.status>>}
  PROVE  IInv'
  <1>1. /\ Types /\ page \in Pages /\ page' \in Pages /\ r.snapshot \in Snapshots /\ net' = net \ {r}
        /\ AnswerShown(r, kept) /\ SameFlags(page', page) /\ SameSave(page', page)
        /\ revision \in Nat
    BY DEF IInv, Types, PageTypes, ServiceTypes, Shown, AnswerShown
  <1>2. /\ page'.submission = NoSubmission <=> page.submission = NoSubmission
        /\ page.submission # NoSubmission =>
             /\ page'.submission.id = page.submission.id /\ page'.submission.base = page.submission.base
             /\ page'.submission.edits = page.submission.edits
             /\ page'.submission.revisions = page.submission.revisions
             /\ page.submission.cancelled \subseteq page'.submission.cancelled
        /\ page'.pending = page.pending /\ page'.unconfirmed = page.unconfirmed
        /\ page'.restartRequired = page.restartRequired /\ page'.operations = page.operations
    BY <1>1 DEF SameSave, SameFlags
  <1>3. r.snapshot.revision <= revision
    BY DEF IInv, Numbers, Placed
  <1>4. /\ page.snapshot.revision <= page'.snapshot.revision
        /\ page'.snapshot.revision <= revision
        /\ page.snapshot.revision \in Nat /\ page'.snapshot.revision \in Nat
        /\ page'.draft["key"] = page.draft["key"] \/ page'.draft["key"] <= 0
    <2>1. CASE r.status = "unknown"
      <3>1. page'.snapshot = page.snapshot /\ page'.draft = page.draft
        BY <1>1, <2>1 DEF AnswerShown, SameForm
      <3>2. page.snapshot.revision <= revision /\ page.snapshot.revision \in Nat
        BY <1>1, PageNumbers DEF IInv, Numbers
      <3> QED BY <3>1, <3>2
    <2>2. CASE r.status # "unknown"
      <3>1. FormTakes(page', page, r.snapshot, kept)
        BY <1>1, <2>2 DEF AnswerShown
      <3> QED BY <1>1, <1>3, <3>1, FormMoves
    <2> QED BY <2>1, <2>2
  <1>5. Types' /\ Kept'
    <2>1. wiped' \in Nat
      <3>1. wiped \in Nat /\ page.revisions["key"] \in Nat
        BY <1>1, PageNumbers DEF Types, PageTypes
      <3> QED BY <3>1 DEF Shown, TokenCleared
    <2>2. PageTypes'
      BY <1>1, <2>1, AnswerTold DEF Types, PageTypes
    <2> QED BY <2>2, ServerRests DEF IInv, Types
  <1>6. Numbers'
    <2>1. /\ page'.snapshot.revision <= revision'
          /\ \A id \in Ids : executed'[id] > 0 => id <= page'.operations
          /\ \A q \in net : Placed(q)'
          /\ page.submission # NoSubmission =>
              page.submission.id <= page'.operations /\ page.submission.base <= page'.snapshot.revision
      BY <1>1, <1>2, <1>4, PlacesKept
    <2> QED BY <1>1, <1>2, <2>1 DEF Numbers
  <1>7. Identity'
    BY <1>1, <1>2 DEF IInv, Identity, IsSubmission
  <1>8. OneSave'
    BY <1>1, <1>2 DEF IInv, OneSave, Awaited, SubmissionKept
  <1>9. Remembered'
    BY <1>1, <1>2, StillRemembered DEF IInv, Remembered
  <1>10. Truth'
    <2>1. page'.restartRequired =>
             /\ page'.submission # NoSubmission /\ ~ page'.pending /\ page'.unconfirmed
             /\ revision' > page'.submission.base + Retained
      BY <1>2, ServerRests DEF IInv, Truth
    <2> QED BY <1>1, <2>1, AnswerTold DEF Truth
  <1>11. Wiping'
    <2>1. CASE SameEdits(page', page) /\ wiped' = wiped
      <3>1. WipedStaysWiped' /\ wiped' <= page'.revisions["key"] /\ \A c \in Controls : page'.revisions[c] <= page'.edits
        BY <2>1, ServerRests DEF IInv, Wiping, WipedStaysWiped, SameEdits
      <3>2. page'.draft["key"] <= 0 \/ page'.draft["key"] > wiped'
        BY <1>4, <2>1 DEF IInv, Wiping
      <3>3. /\ \A q \in net' : q.op.kind = "commit" => Clean(q.op.edits, wiped') \/ q.op.base < page'.snapshot.revision
            /\ \A q \in net' : Outrun(q)' /\ q.snapshot.key = Empty => token' = Empty
        BY <1>1, <1>2, <1>4, <2>1, PlacesKept
      <3>4. page'.submission # NoSubmission =>
              \/ Clean(page'.submission.edits, wiped')
              \/ "key" \in page'.submission.cancelled /\ page'.submission.base < page'.snapshot.revision
        <4>1. page.submission # NoSubmission => page.submission.base \in Nat
          BY <1>1, PageNumbers
        <4>2. page.submission # NoSubmission /\ page.submission.base < page.snapshot.revision
                => page.submission.base < page'.snapshot.revision
          BY <1>4, <4>1
        <4> QED BY <1>2, <2>1, <4>2 DEF IInv, Wiping
      <3> QED BY <3>1, <3>2, <3>3, <3>4 DEF Wiping
    <2>2. CASE TokenCleared(r, kept)
      <3>1. /\ FormTakes(page', page, r.snapshot, kept) /\ "key" \notin kept /\ IsNewer(page, r.snapshot)
            /\ page'.edits = page.edits + 1 /\ page'.revisions = [page.revisions EXCEPT !["key"] = page.edits + 1]
            /\ page'.submission # NoSubmission => "key" \in page'.submission.cancelled
            /\ wiped' = IF r.snapshot.key = Empty THEN page.revisions["key"] ELSE wiped
        BY <1>1, <2>2 DEF TokenCleared, AnswerShown
      <3>2. page'.snapshot = r.snapshot /\ page'.draft["key"] <= 0
        BY <1>1, <1>3, <3>1, FormMoves
      <3>3. page'.snapshot.revision > page.snapshot.revision
        BY <3>1, <3>2 DEF IsNewer
      <3>4. r.snapshot.key = Empty => token = Empty
        BY <3>1 DEF IInv, Wiping, Outrun, IsNewer
      <3>5. WipedStaysWiped'
        BY <3>1, <3>4, ServerRests DEF IInv, Wiping, WipedStaysWiped
      <3>6. wiped' <= page'.revisions["key"] /\ \A c \in Controls : page'.revisions[c] <= page'.edits
        <4>1. /\ wiped \in Nat /\ page.edits \in Nat /\ page.revisions \in [Controls -> Nat]
              /\ wiped <= page.revisions["key"] /\ "key" \in Controls
              /\ \A c \in Controls : page.revisions[c] <= page.edits
          BY <1>1, PageNumbers DEF IInv, Wiping, Types, PageTypes, Stamps, Controls
        <4>2. wiped' <= page.edits
          BY <3>1, <4>1
        <4>3. \A c \in Controls : page'.revisions[c] = IF c = "key" THEN page.edits + 1 ELSE page.revisions[c]
          BY <3>1, <4>1
        <4>4. \A c \in Controls : page'.revisions[c] <= page'.edits
          BY <3>1, <4>1, <4>3
        <4>5. wiped' <= page'.revisions["key"]
          BY <3>1, <4>1, <4>2, <4>3
        <4> QED BY <4>4, <4>5
      <3>7. page'.submission # NoSubmission => page'.submission.base < page'.snapshot.revision
        <4>1. page.submission # NoSubmission => page.submission.base \in Nat /\ page.submission.base <= page.snapshot.revision
          BY <1>1, PageNumbers DEF IInv, Numbers
        <4>2. page.submission # NoSubmission => page.submission.base < page'.snapshot.revision
          BY <1>4, <3>3, <4>1
        <4> QED BY <1>2, <4>2
      <3>8. \A q \in net' : q.op.base < page'.snapshot.revision
        <4> TAKE q \in net'
        <4>1. q.op.base \in Nat /\ q.op.base <= page.snapshot.revision
          BY <1>1, RequestTyped DEF IInv, Numbers, Placed
        <4> QED BY <1>4, <3>3, <4>1
      <3>9. \A q \in net' : Outrun(q)' /\ q.snapshot.key = Empty => token' = Empty
        BY <1>1, <1>2, <1>4, PlacesKept
      <3> QED BY <3>1, <3>2, <3>5, <3>6, <3>7, <3>8, <3>9 DEF Wiping
    <2> QED BY <2>1, <2>2 DEF Shown
  <1> QED BY <1>5, <1>6, <1>7, <1>8, <1>9, <1>10, <1>11 DEF IInv

\* A request takes the place of another with the same operation: the transport sends it again,
\* or the page gives up on it.
LEMMA SwapKeeps ==
  ASSUME IInv, UNCHANGED serviceVars, faults' \in Nat, wiped' = wiped, told' = told,
         page' \in Pages, SameForm(page', page), SameEdits(page', page), SameFlags(page', page),
         page'.submission = page.submission,
         NEW r \in net, NEW v \in Requests, v.op = r.op, v.revisions = r.revisions,
         v.heard => r.heard, v.stage = "sent", net' \subseteq (net \ {r}) \cup {v}
  PROVE  IInv'
  <1>1. /\ Types /\ page \in Pages /\ page'.operations = page.operations
        /\ page'.pending = page.pending /\ page'.unconfirmed = page.unconfirmed
        /\ page'.restartRequired = page.restartRequired /\ page'.snapshot = page.snapshot
    BY DEF IInv, Types, PageTypes, SameForm, SameFlags
  <1>2. \A q \in net' : q = v \/ (q \in net /\ q # r)
    OBVIOUS
  <1>3. Types' /\ Kept'
    <2>1. PageTypes'
      BY <1>1 DEF Types, PageTypes
    <2> QED BY <2>1, ServerRests DEF IInv, Types
  <1>4. page.snapshot.revision <= page'.snapshot.revision /\ page'.snapshot.revision <= revision
    <2>1. page.snapshot.revision \in Nat /\ page.snapshot.revision <= revision
      BY <1>1, PageNumbers DEF IInv, Numbers
    <2> QED BY <1>1, <2>1
  <1>5. Numbers'
    <2>1. Placed(v)'
      BY <1>1 DEF IInv, Numbers, Placed
    <2> QED BY <1>1, <1>4, <2>1, PlacesKept DEF Numbers
  <1>6. Identity'
    <2>1. \A p, q \in net' : p.op.id = q.op.id => p.op = q.op /\ (p.op.kind # "commit" => p = q)
      BY <1>2 DEF IInv, Identity
    <2>2. page.submission # NoSubmission => \A q \in net' : q.op.id = page.submission.id => IsSubmission(q.op)
      BY <1>2 DEF IInv, Identity
    <2> QED BY <1>1, <2>1, <2>2 DEF Identity, IsSubmission
  <1>7. OneSave'
    <2>1. Awaited(v) => Awaited(r)
      BY DEF Awaited
    <2>2. \A q \in net' : Awaited(q) =>
             /\ page.pending /\ page.submission # NoSubmission
             /\ q.op.id = page.submission.id /\ q.revisions = page.submission.revisions
      BY <1>2, <2>1 DEF IInv, OneSave
    <2>3. \A p, q \in net' : Awaited(p) /\ Awaited(q) => p = q
      BY <1>2, <2>1 DEF IInv, OneSave
    <2> QED BY <1>1, <2>2, <2>3 DEF IInv, OneSave, SubmissionKept
  <1>8. Remembered'
    <2>1. \A q \in net' : \E p \in net : q.op = p.op
      BY <1>2
    <2> QED BY <1>1, <2>1, StillRemembered DEF IInv, Remembered
  <1>9. Truth'
    <2>1. \A q \in net' : q.stage = "answered" => HonestReply(q)'
      BY ServerRests DEF IInv, Truth, HonestReply
    <2>2. /\ \A i \in DOMAIN receipts' : Honest(receipts[i].id, receipts[i].status)'
          /\ \A answer \in told' : Honest(answer[1], answer[2])'
          /\ \A id \in applied' : executed'[id] > 0 /\ revision' = revision
      BY ServerRests DEF IInv, Truth, Honest
    <2>3. page'.restartRequired =>
             /\ page'.submission # NoSubmission /\ ~ page'.pending /\ page'.unconfirmed
             /\ revision' > page'.submission.base + Retained
      BY <1>1, ServerRests DEF IInv, Truth
    <2> QED BY <2>1, <2>2, <2>3 DEF Truth
  <1>10. Wiping'
    <2>1. /\ WipedStaysWiped' /\ wiped' <= page'.revisions["key"] /\ \A c \in Controls : page'.revisions[c] <= page'.edits
          /\ page'.draft["key"] <= 0 \/ page'.draft["key"] > wiped'
      BY WipingSame
    <2>2. page'.submission # NoSubmission =>
            \/ Clean(page'.submission.edits, wiped')
            \/ "key" \in page'.submission.cancelled /\ page'.submission.base < page'.snapshot.revision
      BY <1>1 DEF IInv, Wiping
    <2>3. \A q \in net' : q.op.kind = "commit" => Clean(q.op.edits, wiped') \/ q.op.base < page'.snapshot.revision
      BY <1>2, WipingSame
    <2>4. \A q \in net' : Outrun(q)' /\ q.snapshot.key = Empty => token' = Empty
      <3>1. ~ Outrun(v)'
        BY DEF Outrun
      <3> QED BY <3>1, WipingSame
    <2> QED BY <2>1, <2>2, <2>3, <2>4 DEF Wiping
  <1> QED BY <1>3, <1>5, <1>6, <1>7, <1>8, <1>9, <1>10 DEF IInv

-----------------------------------------------------------------------------
(* Every step keeps the invariant *)

LEMMA TakeReplyKeeps ==
  ASSUME IInv, NEW r \in net, TakeReply(r)
  PROVE  IInv'
  <1>1. /\ Types /\ r.stage = "answered" /\ UNCHANGED serviceVars /\ faults' = faults
        /\ told' = told \cup {<<r.op.id, r.status>>}
    BY DEF IInv, TakeReply
  <1>2. r \in Requests /\ r.heard
    BY <1>1 DEF Types, PageTypes
  <1>3. CASE TakeCommit(r)
    <2>1. Awaited(r) /\ wiped' = wiped
      BY <1>2, <1>3 DEF Awaited, TakeCommit
    <2>2. page.submission # NoSubmission /\ r.revisions = page.submission.revisions
      BY <2>1, ReplyToSave
    <2>3. \/ \E kept : Protected(r) \subseteq kept /\ (SaveEnds(r, kept) \/ SaveGoesOn(r, kept))
          \/ SaveUnsure(r.status = "unknown") /\ net' = net \ {r} /\ r.status \in {"fatal", "unknown"}
      BY <1>1, <1>3, <2>2, TakeCommitSteps
    <2>4. ASSUME NEW kept, SaveEnds(r, kept) PROVE IInv'
      BY <1>1, <2>1, <2>4, SaveEndsKeeps
    <2>5. ASSUME NEW kept, SaveGoesOn(r, kept) PROVE IInv'
      BY <1>1, <2>1, <2>5, SaveGoesOnKeeps
    <2>6. CASE SaveUnsure(r.status = "unknown") /\ net' = net \ {r}
      <3>1. PICK unknown \in BOOLEAN : unknown = (r.status = "unknown")
        OBVIOUS
      <3>2. SaveUnsure(unknown)
        BY <2>6, <3>1
      <3> DEFINE u == [r EXCEPT !.stage = "sent", !.heard = FALSE]
      <3>3. u \in Requests /\ u.op = r.op /\ u.stage = "sent" /\ ~ u.heard
        BY <1>2 DEF Requests
      <3> HIDE DEF u
      <3>4. /\ told' \subseteq Ids \X Statuses
            /\ \A answer \in told' : Honest(answer[1], answer[2])'
            /\ unknown => revision' > r.op.base + Retained
        BY <1>1, <3>1, AnswerTold
      <3>5. faults' \in Nat
        BY <1>1 DEF Types, PageTypes
      <3> QED BY <1>1, <2>1, <2>6, <3>2, <3>3, <3>4, <3>5, SaveUnsureKeeps
    <2> QED BY <2>3, <2>4, <2>5, <2>6
  <1>4. ASSUME NEW kept, Shown(r, kept) PROVE IInv'
    BY <1>1, <1>4, ShownKeeps
  <1>5. CASE TakeWipe(r)
    BY <1>1, <1>4, <1>5, TakeWipeSteps
  <1>6. CASE TakeReset(r)
    BY <1>1, <1>4, <1>6, TakeResetSteps
  <1> QED BY <1>3, <1>5, <1>6 DEF TakeReply

LEMMA FetchFailsKeeps ==
  ASSUME IInv, NEW r \in net, FetchFails(r)
  PROVE  IInv'
  <1>1. /\ Types /\ UNCHANGED serviceVars /\ told' = told /\ wiped' = wiped /\ r.heard
        /\ r \in Requests /\ page \in Pages /\ faults' \in Nat
    BY DEF IInv, FetchFails, Fault, Types, PageTypes
  <1> DEFINE u == [r EXCEPT !.stage = "sent", !.heard = FALSE]
  <1>2. /\ u \in Requests /\ u.op = r.op /\ u.stage = "sent" /\ ~ u.heard /\ u.revisions = r.revisions
        /\ r.stage = "sent" => u = [r EXCEPT !.heard = FALSE]
    BY <1>1 DEF Requests
  <1> HIDE DEF u
  <1>3. Abandoned(r) \subseteq (net \ {r}) \cup {u}
    BY <1>2 DEF Abandoned
  <1>4. CASE r.op.kind = "commit" /\ CommitUnsure(page, Abandoned(r))
    <2>1. SaveUnsure(FALSE) /\ net' = Abandoned(r)
      BY <1>1, <1>4, UnsureOf
    <2>2. Awaited(r)
      BY <1>1, <1>4 DEF Awaited
    <2>3. told' \subseteq Ids \X Statuses /\ \A answer \in told' : Honest(answer[1], answer[2])'
      BY <1>1, ServerRests DEF IInv, Types, PageTypes, Truth, Honest
    <2> QED BY <1>1, <1>2, <1>3, <2>1, <2>2, <2>3, SaveUnsureKeeps
  <1>5. CASE r.op.kind = "wipe" /\ UNCHANGED page /\ net' = Abandoned(r)
    BY <1>1, <1>2, <1>3, <1>5, PageIsSame, SwapKeeps
  <1>6. CASE r.op.kind = "reset" /\ page' = [page EXCEPT !.resetUnconfirmed = TRUE] /\ net' = Abandoned(r)
    <2>1. /\ page' \in Pages /\ SameForm(page', page) /\ SameEdits(page', page)
          /\ SameFlags(page', page) /\ page'.submission = page.submission
      BY <1>1, <1>6 DEF Pages, SameForm, SameEdits, SameFlags
    <2> QED BY <1>1, <1>2, <1>3, <1>6, <2>1, SwapKeeps
  <1> QED BY <1>4, <1>5, <1>6 DEF FetchFails

LEMMA ResendKeeps ==
  ASSUME IInv, NEW r \in net, Resend(r)
  PROVE  IInv'
  <1>1. /\ Types /\ UNCHANGED serviceVars /\ told' = told /\ wiped' = wiped /\ page' = page
        /\ r \in Requests /\ page \in Pages /\ faults' \in Nat
    BY DEF IInv, Resend, Fault, Types, PageTypes
  <1> DEFINE v == [r EXCEPT !.stage = "sent", !.status = "", !.snapshot = Unanswered]
  <1>2. v \in Requests /\ v.op = r.op /\ v.revisions = r.revisions /\ v.heard = r.heard /\ v.stage = "sent"
    BY <1>1 DEF Requests
  <1>3. net' = (net \ {r}) \cup {v}
    BY DEF Resend
  <1> HIDE DEF v
  <1> QED BY <1>1, <1>2, <1>3, PageIsSame, SwapKeeps

LEMMA PageInitKeeps ==
  ASSUME PageInit
  PROVE  IInv
  <1>1. /\ disk \in {DefaultsFile, File(TRUE, TRUE, Default)} /\ token = 0 /\ backups = << >>
        /\ backup_path = 0 /\ revision = 0 /\ expired_through = -1 /\ receipts = << >>
        /\ token_wipes = 0 /\ reset_revision = 0 /\ mishaps = 0
        /\ executed = [id \in Ids |-> 0] /\ applied = {}
        /\ net = {} /\ faults = 0 /\ told = {} /\ wiped = 0
    BY DEF PageInit, Init, Empty, NoBackup
  <1>2. ServiceTypes /\ Kept
    <2>1. disk \in Files /\ disk.there
      <3>1. File(TRUE, TRUE, Default) \in Files /\ File(TRUE, TRUE, Default).there
        BY DEF File, Files, Values, Default
      <3> QED BY <1>1, <3>1, FilesTyped
    <2>2. receipts \in Seq(Marks) /\ backups \in Seq(Files) /\ expired_through \in Int
      BY <1>1
    <2> QED BY <1>1, <2>1, <2>2 DEF ServiceTypes, Kept
  <1> DEFINE snap == settings_snapshot
             d == [c \in Controls |-> 0]
  <1>3. snap \in Snapshots /\ snap.revision = 0
    BY <1>1, <1>2 DEF settings_snapshot, Snapshots, ServiceTypes, Files, Values, Default, Mask, Empty
  <1>4. d \in Drafts /\ d \in Stamps /\ d["key"] = 0 /\ Never \in [Controls -> Nat \cup {-1}]
    BY DEF Drafts, Stamps, Values, Controls, Never
  <1>5. page = [snapshot |-> snap, draft |-> d, revisions |-> d, edits |-> 0, operations |-> 0,
             submission |-> NoSubmission, pending |-> FALSE, again |-> FALSE,
             unconfirmed |-> FALSE, resetUnconfirmed |-> FALSE, resetRevisions |-> Never,
             restartRequired |-> FALSE]
    BY DEF PageInit
  <1> HIDE DEF snap, d
  <1>6. /\ page \in Pages /\ page.snapshot = snap /\ page.draft = d /\ page.revisions = d
        /\ page.edits = 0 /\ page.operations = 0 /\ page.submission = NoSubmission
        /\ ~ page.pending /\ ~ page.unconfirmed /\ ~ page.restartRequired
    BY <1>3, <1>4, <1>5 DEF Pages
  <1>7. Types
    BY <1>1, <1>2, <1>6 DEF Types, PageTypes
  <1>8. Numbers /\ Identity /\ OneSave
    BY <1>1, <1>3, <1>6 DEF Numbers, Identity, OneSave, SubmissionKept
  <1>9. Remembered
    BY <1>1, <1>6, ServiceAssumption DEF Remembered, AppliedOnce
  <1>10. Truth
    BY <1>1, <1>6 DEF Truth
  <1>11. Wiping
    <2>1. \A c \in Controls : page.revisions[c] <= page.edits
      BY <1>6 DEF d
    <2> QED BY <1>1, <1>4, <1>6, <2>1 DEF Wiping, WipedStaysWiped, Empty
  <1> QED BY <1>2, <1>7, <1>8, <1>9, <1>10, <1>11 DEF IInv

LEMMA PageNextKeeps ==
  ASSUME IInv, [PageNext]_vars
  PROVE  IInv'
  <1>0. page \in Pages /\ faults \in Nat
    BY DEF IInv, Types, PageTypes
  <1>1. ASSUME NEW c \in Controls, EditField(c) PROVE IInv'
    BY <1>0, <1>1, EditFieldTyping, EditKeeps DEF EditField
  <1>2. CASE RevertFrame
    BY <1>0, <1>2, RevertFrameTyping, EditKeeps DEF RevertFrame
  <1>3. CASE discardGlobalDraft
    BY <1>0, <1>3, DiscardTyping, EditKeeps DEF discardGlobalDraft
  <1>4. CASE commitGlobalDraft
    <2>1. faults' = faults /\ (BeginsSave \/ RepeatsSave)
      BY <1>0, <1>4, ApplySteps DEF commitGlobalDraft
    <2> QED BY <2>1, BeginKeeps, RepeatKeeps
  <1>5. CASE wipeToken \/ resetSettings
    <2>1. faults' = faults /\ \E x : Asks(x)
      BY <1>0, <1>5, AskSteps DEF wipeToken, resetSettings, AskFor
    <2> QED BY <2>1, AskKeeps
  <1>6. ASSUME NEW r \in net, Handle(r) \/ TakeReply(r) \/ FetchFails(r) \/ Resend(r) PROVE IInv'
    BY <1>6, HandleKeeps, TakeReplyKeeps, FetchFailsKeeps, ResendKeeps
  <1>7. CASE UNCHANGED vars
    <2>1. /\ UNCHANGED serviceVars /\ page' = page /\ net' = net /\ faults' = faults
          /\ told' = told /\ wiped' = wiped
      BY <1>7 DEF vars
    <2>2. Typing(page', page)
      <3>1. Calm(page', page)
        BY <1>0, <2>1, PageIsSame DEF Calm
      <3>2. page'.edits >= page.edits
        BY <1>0, <2>1, PageNumbers
      <3> QED BY <2>1, <3>1, <3>2 DEF Typing, TokenField, Renumbered
    <2> QED BY <2>1, <2>2, EditKeeps
  <1> QED BY <1>1, <1>2, <1>3, <1>4, <1>5, <1>6, <1>7 DEF PageNext, User

\* What the form, the service and the requests between them keep to holds in every state
\* (settings_operation, SettingsOperations.remember, commitGlobalDraft and the handlers of replies).
THEOREM SettingsInvariance == PageSpec => []IInv
  <1>1. PageInit => IInv
    BY PageInitKeeps
  <1>2. IInv /\ [PageNext]_vars => IInv'
    BY PageNextKeeps
  <1> QED BY <1>1, <1>2, PTL DEF PageSpec

\* Every variable of the form and the service stays within its type (SettingsOperations,
\* ConfigManager, the state of app.js).
THEOREM SettingsTyped == PageSpec => []TypeOK
  <1>1. IInv => TypeOK
    <2> SUFFICES ASSUME IInv PROVE TypeOK
      OBVIOUS
    <2>1. ServiceTypes /\ PageTypes /\ Types
      BY DEF IInv, Types
    <2>2. settings_snapshot \in Snapshots
      BY <2>1 DEF settings_snapshot, Snapshots, ServiceTypes, Files, Values, Default, Mask, Empty
    <2>3. token \in Nat /\ Len(receipts) <= Retained /\ applied \subseteq Ids
      BY <2>1 DEF ServiceTypes, IInv, Remembered
    <2>4. page \in Pages /\ page.snapshot \in Snapshots /\ page.draft \in [Controls -> Values]
      BY <2>1, PageNumbers, DraftTyped DEF PageTypes, Drafts
    <2>5. page.revisions \in [Controls -> 0 .. page.edits]
      <3>1. page.revisions \in [Controls -> Nat] /\ page.edits \in Nat
        BY <2>4, PageNumbers DEF Stamps
      <3>2. \A c \in Controls : page.revisions[c] <= page.edits
        BY DEF IInv, Wiping
      <3> QED BY <3>1, <3>2
    <2>6. told \subseteq Ids \X Statuses
      BY <2>1 DEF PageTypes
    <2>7. \A r \in net : r.op.base <= revision /\ r.snapshot \in Snapshots \cup {Unanswered}
      <3> TAKE r \in net
      <3>1. r \in Requests /\ r.op.base \in Nat /\ page.snapshot.revision \in Nat /\ revision \in Nat
        BY <2>1, <2>4, RequestTyped, PageNumbers DEF ServiceTypes
      <3>2. r.op.base <= page.snapshot.revision /\ page.snapshot.revision <= revision
        BY DEF IInv, Numbers, Placed
      <3>3. r.op.base <= revision
        BY <3>1, <3>2
      <3> QED BY <3>1, <3>3 DEF Requests
    <2> QED BY <2>2, <2>3, <2>4, <2>5, <2>6, <2>7 DEF TypeOK
  <1> QED BY <1>1, SettingsInvariance, PTL

\* What the page was told of an operation stays true, and no operation is carried out twice
\* (settings_operation, SettingsOperations.remember).
THEOREM AnswersStayTrue == PageSpec => []AnswersAreTrue
  <1>1. IInv => AnswersAreTrue
    BY DEF IInv, Remembered, Truth, Honest, AnswersAreTrue, RestartOnlyAfterMany
  <1> QED BY <1>1, SettingsInvariance, PTL

\* A token from before a confirmed wipe is not on disk again (acknowledgeTokenWipe).
THEOREM WipedTokenStaysAway == PageSpec => []WipedStaysWiped
  <1>1. IInv => WipedStaysWiped
    BY DEF IInv, Wiping
  <1> QED BY <1>1, SettingsInvariance, PTL

LEMMA ReplyKeepsEdits ==
  ASSUME IInv, NEW r \in net, TakeReply(r), NEW c \in Protected(r)
  PROVE  page'.draft[c] = page.draft[c]
  <1>1. /\ Types /\ r.stage = "answered" /\ r \in Requests /\ r.heard /\ page \in Pages
        /\ r.revisions \in Stamps
    BY RequestTyped DEF IInv, TakeReply, Types, PageTypes
  <1>2. c \in Controls
    BY <1>1, TypedSinceIsLater DEF Protected
  <1>3. ASSUME NEW kept, Protected(r) \subseteq kept, FormTakes(page', page, r.snapshot, kept)
        PROVE  page'.draft[c] = page.draft[c]
    BY <1>2, <1>3 DEF FormTakes
  <1>4. ASSUME NEW kept, Protected(r) \subseteq kept, Shown(r, kept)
        PROVE  page'.draft[c] = page.draft[c]
    <2>1. CASE r.status = "unknown"
      BY <1>4, <2>1 DEF Shown, AnswerShown, SameForm
    <2>2. CASE r.status # "unknown"
      BY <1>3, <1>4, <2>2 DEF Shown, AnswerShown
    <2> QED BY <2>1, <2>2
  <1>5. CASE TakeCommit(r)
    <2>1. Awaited(r)
      BY <1>1, <1>5 DEF Awaited, TakeCommit
    <2>2. page.submission # NoSubmission /\ r.revisions = page.submission.revisions
      BY <2>1, ReplyToSave
    <2>3. \/ \E kept : Protected(r) \subseteq kept /\ (SaveEnds(r, kept) \/ SaveGoesOn(r, kept))
          \/ SaveUnsure(r.status = "unknown")
      BY <1>1, <1>5, <2>2, TakeCommitSteps
    <2>4. ASSUME NEW kept, Protected(r) \subseteq kept, SaveEnds(r, kept) \/ SaveGoesOn(r, kept)
          PROVE  page'.draft[c] = page.draft[c]
      BY <1>3, <2>4 DEF SaveEnds, SaveGoesOn, SaveSettled
    <2>5. CASE SaveUnsure(r.status = "unknown")
      BY <2>5 DEF SaveUnsure, SameForm
    <2> QED BY <2>3, <2>4, <2>5
  <1>6. CASE TakeWipe(r)
    BY <1>1, <1>4, <1>6, TakeWipeSteps
  <1>7. CASE TakeReset(r)
    BY <1>1, <1>4, <1>7, TakeResetSteps
  <1> QED BY <1>5, <1>6, <1>7 DEF TakeReply

\* No reply takes away what the user typed after its operation was sent (acknowledgeSettings,
\* acknowledgeTokenWipe, resetSettings).
THEOREM EditsAreKept == PageSpec => EditsKept
  <1>1. IInv /\ [PageNext]_vars =>
          [\A r \in net : TakeReply(r) => \A c \in TypedSince(r) \ Dropped : page'.draft[c] = page.draft[c]]_vars
    BY ReplyKeepsEdits DEF Protected
  <1> QED BY <1>1, SettingsInvariance, PTL DEF PageSpec, EditsKept

\* A reset loses no settings: what it takes out of place is in a backup (reset_settings).
THEOREM ResetLosesNothing == PageSpec => NothingResetAway
  <1>1. IInv /\ [PageNext]_vars =>
          [reset_revision' # reset_revision /\ disk' # disk /\ disk # NoFile
             => \E i \in DOMAIN backups' : backups'[i] = disk]_vars
    <2> SUFFICES ASSUME IInv, PageNext, reset_revision' # reset_revision, disk' # disk, disk # NoFile
                 PROVE  \E i \in DOMAIN backups' : backups'[i] = disk
      OBVIOUS
    <2>1. ~ UNCHANGED serviceVars
      BY DEF serviceVars, operationVars
    <2>2. PICK r \in net : Handle(r)
      BY <2>1 DEF PageNext, User, EditField, RevertFrame, discardGlobalDraft, commitGlobalDraft,
                  wipeToken, resetSettings, AskFor, TakeReply, FetchFails, Resend
    <2>3. PICK status \in Statuses : Recalls(r.op, status) \/ Executes(r.op, status)
      BY <2>2, HandleSteps DEF IInv
    <2>4. Settle(r.op, status) /\ Writes(r.op)
      BY <2>1, <2>3 DEF Recalls, Executes
    <2>5. r.op.kind = "reset"
      BY <2>4 DEF Settle
    <2> QED BY <2>4, <2>5 DEF Writes
  <1> QED BY <1>1, SettingsInvariance, PTL DEF PageSpec, NothingResetAway

-----------------------------------------------------------------------------
(* What the form shows is what is on disk, or news of it is on the way *)

Told(id) == \E answer \in told : answer[1] = id

\* A reset whose answer is no longer awaited has left its mark; a save not yet carried out is
\* the one the page keeps; only one answer to a wipe or a reset is ever taken.
ResetMarked == \A r \in net : r.op.kind = "reset" /\ ~ r.heard => page.resetUnconfirmed
SaveAhead ==
  \A r \in net : r.op.kind = "commit" /\ executed[r.op.id] = 0 =>
    page.submission # NoSubmission /\ r.op.id = page.submission.id
ToldOnce == \A r \in net : r.op.kind # "commit" => ~ Told(r.op.id)

\* The answer to r, whenever it comes, is news to a form that shows s.
Overtakes(r, s) == r.stage = "answered" => r.snapshot.revision > s.revision

\* A save, a reset or a wipe that was carried out after s, and whose answer was not taken.
CommitOut(s) ==
  /\ page.submission # NoSubmission /\ executed[page.submission.id] > 0 /\ s.revision < revision
  /\ \A r \in net : Awaited(r) => Overtakes(r, s)
ResetOut(s) ==
  \E r \in net : /\ r.op.kind = "reset" /\ r.heard /\ executed[r.op.id] > 0
                 /\ s.revision < revision /\ Overtakes(r, s)
WipedBy(id, s) ==
  /\ id \in Untold /\ s.revision < revision
  /\ page.submission # NoSubmission => id # page.submission.id
  /\ \A r \in net : r.op.id = id => r.op.kind = "wipe" /\ Overtakes(r, s)
WipeOut(s) == \E id \in Ids : WipedBy(id, s)

\* s shows what is on disk, but for what is still to be heard of.
Current(s) ==
  /\ s.model = settings_snapshot.model \/ page.resetUnconfirmed \/ CommitOut(s) \/ ResetOut(s)
  /\ s.key = settings_snapshot.key \/ CommitOut(s) \/ WipeOut(s)

\* What the form shows, or may yet show.
Live(s) ==
  \/ s = page.snapshot
  \/ \E r \in net : r.stage = "answered" /\ r.snapshot = s /\ s.revision >= page.snapshot.revision

Showing ==
  /\ ResetMarked /\ SaveAhead
  /\ ~ AskedToRestart => ToldOnce /\ \A s : Live(s) => Current(s)

LEMMA LiveTyped ==
  ASSUME IInv, NEW s, Live(s)
  PROVE  /\ s \in Snapshots /\ s.revision \in Nat /\ s.revision <= revision /\ revision \in Nat
         /\ page.snapshot.revision <= s.revision /\ page.snapshot.revision \in Nat
  <1>1. /\ page \in Pages /\ page.snapshot \in Snapshots /\ page.snapshot.revision \in Nat
        /\ revision \in Nat /\ page.snapshot.revision <= revision
    BY PageNumbers DEF IInv, Types, PageTypes, ServiceTypes, Numbers
  <1>2. \A r \in net : r.stage = "answered" =>
          r.snapshot \in Snapshots /\ r.snapshot.revision <= revision
    BY DEF IInv, Types, PageTypes, Numbers, Placed
  <1>3. s \in Snapshots /\ s.revision <= revision
    BY <1>1, <1>2 DEF Live
  <1>4. s.revision \in Nat
    BY <1>3 DEF Snapshots
  <1>5. page.snapshot.revision <= s.revision
    BY <1>1, <1>4 DEF Live
  <1> QED BY <1>1, <1>3, <1>4, <1>5

LEMMA CurrentIsShown ==
  ASSUME IInv, Showing
  PROVE  ShownIsOnDisk
  <1>1. SubmissionKept
    BY DEF IInv, OneSave
  <1>2. SUFFICES ASSUME StartOffered, ~ AskedToRestart
                 PROVE  /\ ResetUnderWay \/ page.snapshot.model = settings_snapshot.model
                        /\ Untold = {} => original(page) = [c \in Controls |-> settings_snapshot[c]]
    BY <1>1 DEF ShownIsOnDisk
  <1> DEFINE s == page.snapshot
  <1>3. Current(s) /\ ToldOnce
    BY <1>2 DEF Showing, Live
  <1>4. ~ CommitOut(s) /\ ~ page.resetUnconfirmed
    BY <1>1, <1>2 DEF CommitOut, SubmissionKept, StartOffered
  <1>5. ResetOut(s) => ResetUnderWay /\ Untold # {}
    <2> SUFFICES ASSUME ResetOut(s) PROVE ResetUnderWay /\ Untold # {}
      OBVIOUS
    <2>1. PICK r \in net : r.op.kind = "reset" /\ r.heard /\ executed[r.op.id] > 0
      BY DEF ResetOut
    <2>2. r.op.id \in Ids
      BY RequestTyped DEF IInv
    <2>3. r.op.id \in Untold
      BY <1>3, <2>1, <2>2 DEF ToldOnce, Told, Untold
    <2> QED BY <2>1, <2>3 DEF ResetUnderWay
  <1>6. WipeOut(s) => Untold # {}
    BY DEF WipeOut, WipedBy
  <1>7. s.model = settings_snapshot.model \/ ResetOut(s)
    BY <1>3, <1>4 DEF Current
  <1>8. s.key = settings_snapshot.key \/ WipeOut(s)
    BY <1>3, <1>4 DEF Current
  <1>9. ASSUME Untold = {} PROVE original(page) = [c \in Controls |-> settings_snapshot[c]]
    <2>1. s.model = settings_snapshot.model /\ s.key = settings_snapshot.key
      BY <1>5, <1>6, <1>7, <1>8, <1>9
    <2>2. \A c \in Controls : s[c] = settings_snapshot[c]
      BY <2>1 DEF Controls
    <2> QED BY <2>2 DEF original
  <1> QED BY <1>5, <1>7, <1>9

-----------------------------------------------------------------------------
(* The page's steps *)

\* The answer p was news only to a form that showed something older than s.
Past(p, s) == p.stage = "answered" /\ p.snapshot.revision <= s.revision

\* What a step of the page leaves of the news on the way.
SaveStays(s) ==
  /\ page'.submission # NoSubmission =>
       \/ executed[page'.submission.id] = 0
       \/ page.submission # NoSubmission /\ page'.submission.id = page.submission.id
  /\ page.submission # NoSubmission =>
       \/ page'.submission # NoSubmission /\ page'.submission.id = page.submission.id
       \/ \E p \in net : Awaited(p) /\ Past(p, s)

NewRequest(q) ==
  /\ q.stage = "sent"
  /\ \/ executed[q.op.id] = 0 /\ q.op.kind # "commit"
     \/ page'.submission # NoSubmission /\ q.op.id = page'.submission.id /\ q.op.kind = "commit"
     \/ \E p \in net : p.op = q.op

RequestsStay(s) ==
  /\ \A q \in net' : q \in net \/ NewRequest(q)
  /\ \A p \in net : p.op.kind = "reset" /\ p.heard =>
       \/ \E q \in net' : q.op = p.op /\ q.heard /\ (q = p \/ q.stage = "sent")
       \/ page'.resetUnconfirmed
       \/ Past(p, s)

TellsLate(s) ==
  \A id \in Ids : Told(id)' =>
    \/ Told(id)
    \/ page.submission # NoSubmission /\ id = page.submission.id
    \/ \E p \in net : p.op.id = id /\ Past(p, s)

LEMMA StaysCurrent ==
  ASSUME IInv, UNCHANGED serviceVars, page.resetUnconfirmed => page'.resetUnconfirmed,
         NEW s, s.revision \in Nat, Current(s), SaveStays(s), RequestsStay(s), TellsLate(s)
  PROVE  Current(s)'
  <1>1. /\ revision' = revision /\ executed' = executed
        /\ settings_snapshot' = settings_snapshot /\ executed \in [Ids -> Nat]
    BY DEF serviceVars, fileVars, operationVars, settings_snapshot, IInv, Types, ServiceTypes
  <1>2. \A p \in net : p.stage = "answered" => p.snapshot.revision \in Nat
    BY DEF IInv, Types, PageTypes, Snapshots
  <1>3. \A p \in net : ~ (Past(p, s) /\ Overtakes(p, s))
    BY <1>2 DEF Past, Overtakes
  <1>4. \A q \in net' : q \in net \/ q.stage = "sent"
    BY DEF RequestsStay, NewRequest
  <1>5. CommitOut(s) => CommitOut(s)'
    <2> SUFFICES ASSUME CommitOut(s) PROVE CommitOut(s)'
      OBVIOUS
    <2>1. /\ page.submission # NoSubmission /\ executed[page.submission.id] > 0
          /\ s.revision < revision /\ \A p \in net : Awaited(p) => Overtakes(p, s)
      BY DEF CommitOut
    <2>2. page'.submission # NoSubmission /\ page'.submission.id = page.submission.id
      BY <1>3, <2>1 DEF SaveStays
    <2>3. \A q \in net' : Awaited(q) => Overtakes(q, s)
      BY <1>4, <2>1 DEF Overtakes
    <2> QED BY <1>1, <2>1, <2>2, <2>3 DEF CommitOut, Awaited, Overtakes
  <1>6. ResetOut(s) => ResetOut(s)' \/ page'.resetUnconfirmed
    <2> SUFFICES ASSUME ResetOut(s), ~ page'.resetUnconfirmed PROVE ResetOut(s)'
      OBVIOUS
    <2>1. PICK p \in net : /\ p.op.kind = "reset" /\ p.heard /\ executed[p.op.id] > 0
                           /\ s.revision < revision /\ Overtakes(p, s)
      BY DEF ResetOut
    <2>2. PICK q \in net' : q.op = p.op /\ q.heard /\ (q = p \/ q.stage = "sent")
      BY <1>3, <2>1 DEF RequestsStay
    <2>3. Overtakes(q, s)
      BY <2>1, <2>2 DEF Overtakes
    <2> QED BY <1>1, <2>1, <2>2, <2>3 DEF ResetOut, Overtakes
  <1>7. WipeOut(s) => WipeOut(s)'
    <2> SUFFICES ASSUME NEW id \in Ids, WipedBy(id, s) PROVE WipedBy(id, s)'
      BY DEF WipeOut
    <2>1. /\ executed[id] > 0 /\ ~ Told(id) /\ s.revision < revision
          /\ page.submission # NoSubmission => id # page.submission.id
          /\ \A p \in net : p.op.id = id => p.op.kind = "wipe" /\ Overtakes(p, s)
      BY DEF WipedBy, Untold, Told
    <2>2. ~ Told(id)'
      BY <1>3, <2>1 DEF TellsLate
    <2>3. page'.submission # NoSubmission => id # page'.submission.id
      BY <1>1, <2>1 DEF SaveStays
    <2>4. \A q \in net' : q.op.id = id => q.op.kind = "wipe" /\ Overtakes(q, s)
      <3> TAKE q \in net'
      <3>1. CASE q \in net
        BY <2>1, <3>1
      <3>2. CASE NewRequest(q)
        BY <1>1, <2>1, <2>3, <3>2 DEF NewRequest, Overtakes
      <3> QED BY <3>1, <3>2 DEF RequestsStay
    <2> QED BY <1>1, <2>1, <2>2, <2>3, <2>4 DEF WipedBy, Untold, Told, Overtakes
  <1> QED BY <1>1, <1>5, <1>6, <1>7 DEF Current

LEMMA RestShows ==
  ASSUME IInv, Showing, UNCHANGED serviceVars, page.resetUnconfirmed => page'.resetUnconfirmed,
         \A q \in net' : q \in net \/ NewRequest(q),
         \A q \in net' : q.op.kind = "reset" /\ ~ q.heard => q \in net \/ page'.resetUnconfirmed,
         \A p \in net : page.submission # NoSubmission /\ p.op.id = page.submission.id =>
           \/ page'.submission # NoSubmission /\ page'.submission.id = page.submission.id
           \/ executed[p.op.id] > 0,
         told \subseteq told',
         \A id : Told(id)' => Told(id) \/ \A q \in net' : q.op.id = id => q.op.kind = "commit",
         ~ AskedToRestart' =>
           \A s : Live(s)' => Live(s) /\ SaveStays(s) /\ RequestsStay(s) /\ TellsLate(s)
  PROVE  Showing'
  <1>1. executed' = executed /\ executed \in [Ids -> Nat]
    BY DEF serviceVars, IInv, Types, ServiceTypes
  <1>2. ResetMarked'
    BY DEF Showing, ResetMarked
  <1>3. SaveAhead'
    <2> SUFFICES ASSUME NEW q \in net', q.op.kind = "commit", executed[q.op.id] = 0
                 PROVE  page'.submission # NoSubmission /\ q.op.id = page'.submission.id
      BY <1>1 DEF SaveAhead
    <2>1. ASSUME NEW p \in net, p.op = q.op
          PROVE  page'.submission # NoSubmission /\ q.op.id = page'.submission.id
      <3>1. page.submission # NoSubmission /\ p.op.id = page.submission.id
        BY <2>1 DEF Showing, SaveAhead
      <3>2. ~ (executed[p.op.id] > 0)
        BY <2>1
      <3> QED BY <2>1, <3>1, <3>2
    <2>2. CASE q \in net
      BY <2>1, <2>2
    <2>3. CASE NewRequest(q)
      BY <2>1, <2>3 DEF NewRequest
    <2> QED BY <2>2, <2>3
  <1>4. ASSUME ~ AskedToRestart' PROVE ToldOnce' /\ \A s : Live(s)' => Current(s)'
    <2>1. ~ AskedToRestart
      BY <1>4 DEF AskedToRestart
    <2>2. ToldOnce /\ \A s : Live(s) => Current(s)
      BY <2>1 DEF Showing
    <2>3. \A id : Told(id) => executed[id] > 0
      BY <2>1 DEF Told, AskedToRestart, IInv, Truth, Honest
    <2>4. ToldOnce'
      <3> SUFFICES ASSUME NEW q \in net', q.op.kind # "commit", Told(q.op.id)
                   PROVE  FALSE
        BY DEF ToldOnce
      <3>1. CASE q \in net
        BY <2>2, <3>1 DEF ToldOnce
      <3>2. CASE NewRequest(q)
        BY <2>2, <2>3, <3>2 DEF NewRequest, ToldOnce
      <3> QED BY <3>1, <3>2
    <2>5. ASSUME NEW s, Live(s)' PROVE Current(s)'
      <3>1. Live(s) /\ SaveStays(s) /\ RequestsStay(s) /\ TellsLate(s)
        BY <1>4, <2>5
      <3>2. Current(s) /\ s.revision \in Nat
        BY <2>2, <3>1, LiveTyped
      <3> QED BY <3>1, <3>2, StaysCurrent
    <2> QED BY <2>4, <2>5
  <1> QED BY <1>2, <1>3, <1>4 DEF Showing

\* A step that takes no reply.
LEMMA QuietShows ==
  ASSUME IInv, Showing, UNCHANGED serviceVars, told' = told, page'.snapshot = page.snapshot,
         page.resetUnconfirmed => page'.resetUnconfirmed,
         page.submission = NoSubmission /\ page'.submission # NoSubmission =>
           executed[page'.submission.id] = 0,
         page.submission # NoSubmission =>
           page'.submission # NoSubmission /\ page'.submission.id = page.submission.id,
         \A q \in net' : q \in net \/ NewRequest(q),
         \A q \in net' : q.op.kind = "reset" /\ ~ q.heard => q \in net \/ page'.resetUnconfirmed,
         \A p \in net : p.op.kind = "reset" /\ p.heard =>
           \/ \E q \in net' : q.op = p.op /\ q.heard /\ (q = p \/ q.stage = "sent")
           \/ page'.resetUnconfirmed
  PROVE  Showing'
  <1>1. ASSUME NEW s, Live(s)' PROVE Live(s)
    <2>1. \A q \in net' : q.stage = "answered" => q \in net
      BY DEF NewRequest
    <2> QED BY <1>1, <2>1 DEF Live
  <1>2. \A s : SaveStays(s) /\ RequestsStay(s) /\ TellsLate(s)
    BY DEF SaveStays, RequestsStay, TellsLate, Told
  <1>3. told \subseteq told' /\ \A id : Told(id)' => Told(id)
    BY DEF Told
  <1> QED BY <1>1, <1>2, <1>3, RestShows

LEMMA EditShows ==
  ASSUME IInv, Showing, Typing(page', page), UNCHANGED serviceVars, net' = net, told' = told
  PROVE  Showing'
  <1>1. /\ page'.snapshot = page.snapshot /\ page'.resetUnconfirmed = page.resetUnconfirmed
        /\ SameSave(page', page)
    BY DEF Typing, Calm, SameReset
  <1> QED BY <1>1, QuietShows DEF SameSave

LEMMA BeginShows ==
  ASSUME IInv, Showing, BeginsSave
  PROVE  Showing'
  <1>1. /\ page' \in Pages /\ page.submission = NoSubmission /\ Submitting(page', page)
        /\ SameForm(page', page) /\ SameReset(page', page)
        /\ net' = net \cup {Post(page')} /\ told' = told /\ UNCHANGED serviceVars
    BY DEF BeginsSave
  <1>2. page'.submission # NoSubmission /\ page'.submission.id \in Ids
        /\ page'.submission.id = page.operations + 1
    BY <1>1, SubmissionDistinct DEF Submitting, Submissions
  <1>3. executed[page'.submission.id] = 0
    BY <1>2, NewId
  <1>4. PICK y : y = Post(page')
    OBVIOUS
  <1>5. y.stage = "sent" /\ y.op.kind = "commit" /\ y.op.id = page'.submission.id
    BY <1>1, <1>2, <1>4, PostTyped
  <1>6. net' = net \cup {y}
    BY <1>1, <1>4
  <1>7. NewRequest(y)
    BY <1>2, <1>5 DEF NewRequest
  <1> QED BY <1>1, <1>2, <1>3, <1>5, <1>6, <1>7, QuietShows DEF SameForm, SameReset

LEMMA RepeatShows ==
  ASSUME IInv, Showing, RepeatsSave
  PROVE  Showing'
  <1>1. /\ page' \in Pages /\ page.submission # NoSubmission /\ page'.submission = page.submission
        /\ SameForm(page', page) /\ SameReset(page', page)
        /\ net' = net \cup {Post(page')} /\ told' = told /\ UNCHANGED serviceVars
    BY DEF RepeatsSave, SameSaving
  <1>2. PICK y : y = Post(page')
    OBVIOUS
  <1>3. y.stage = "sent" /\ y.op.kind = "commit" /\ y.op.id = page'.submission.id
    BY <1>1, <1>2, PostTyped
  <1>4. net' = net \cup {y}
    BY <1>1, <1>2
  <1>5. NewRequest(y)
    BY <1>1, <1>3 DEF NewRequest
  <1> QED BY <1>1, <1>3, <1>4, <1>5, QuietShows DEF SameForm, SameReset

LEMMA AskShows ==
  ASSUME IInv, Showing, NEW x, Asks(x)
  PROVE  Showing'
  <1>1. /\ x \in Requests /\ x.stage = "sent" /\ x.heard /\ x.op.kind # "commit"
        /\ x.op.id = page.operations + 1
        /\ page'.submission = page.submission /\ page'.snapshot = page.snapshot
        /\ page'.resetUnconfirmed = page.resetUnconfirmed
        /\ net' = net \cup {x} /\ told' = told /\ UNCHANGED serviceVars
    BY DEF Asks, SameSaving, SameForm
  <1>2. x.op.id \in Ids
    BY <1>1 DEF Requests, Operations
  <1>3. executed[x.op.id] = 0
    BY <1>1, <1>2, NewId
  <1>4. NewRequest(x)
    BY <1>1, <1>3 DEF NewRequest
  <1> QED BY <1>1, <1>4, QuietShows

\* A request is abandoned, or sent again by the transport.
LEMMA SwapShows ==
  ASSUME IInv, Showing, UNCHANGED serviceVars, told' = told, page'.snapshot = page.snapshot,
         page'.submission = page.submission, page.resetUnconfirmed => page'.resetUnconfirmed,
         NEW r \in net, NEW v, v.op = r.op, v.stage = "sent",
         net' \subseteq (net \ {r}) \cup {v}, net \ {r} \subseteq net',
         r.op.kind = "reset" => page'.resetUnconfirmed \/ (v \in net' /\ v.heard)
  PROVE  Showing'
  <1>1. NewRequest(v)
    BY DEF NewRequest
  <1>2. \A q \in net' : q \in net \/ NewRequest(q)
    BY <1>1
  <1>3. \A q \in net' : q.op.kind = "reset" /\ ~ q.heard => q \in net \/ page'.resetUnconfirmed
    OBVIOUS
  <1>4. \A p \in net : p.op.kind = "reset" /\ p.heard =>
           \/ \E q \in net' : q.op = p.op /\ q.heard /\ (q = p \/ q.stage = "sent")
           \/ page'.resetUnconfirmed
    OBVIOUS
  <1> QED BY <1>2, <1>3, <1>4, QuietShows

LEMMA FetchFailsShows ==
  ASSUME IInv, Showing, NEW r \in net, FetchFails(r)
  PROVE  Showing'
  <1>1. /\ UNCHANGED serviceVars /\ told' = told /\ r.heard /\ r \in Requests /\ page \in Pages
    BY DEF IInv, FetchFails, Types, PageTypes
  <1> DEFINE u == [r EXCEPT !.stage = "sent", !.heard = FALSE]
  <1>2. /\ u.op = r.op /\ u.stage = "sent"
        /\ r.stage = "sent" => u = [r EXCEPT !.heard = FALSE]
    BY <1>1 DEF Requests
  <1> HIDE DEF u
  <1>3. Abandoned(r) \subseteq (net \ {r}) \cup {u} /\ net \ {r} \subseteq Abandoned(r)
    BY <1>2 DEF Abandoned
  <1>4. CASE r.op.kind = "commit" /\ CommitUnsure(page, Abandoned(r))
    <2>1. SaveUnsure(FALSE) /\ net' = Abandoned(r)
      BY <1>1, <1>4, UnsureOf
    <2>2. /\ page'.snapshot = page.snapshot /\ page'.submission = page.submission
          /\ page'.resetUnconfirmed = page.resetUnconfirmed
      BY <2>1 DEF SaveUnsure, SameForm, SameReset
    <2> QED BY <1>1, <1>2, <1>3, <1>4, <2>1, <2>2, SwapShows
  <1>5. CASE r.op.kind = "wipe" /\ UNCHANGED page /\ net' = Abandoned(r)
    BY <1>1, <1>2, <1>3, <1>5, SwapShows
  <1>6. CASE r.op.kind = "reset" /\ page' = [page EXCEPT !.resetUnconfirmed = TRUE] /\ net' = Abandoned(r)
    <2>1. /\ page'.snapshot = page.snapshot /\ page'.submission = page.submission
          /\ page'.resetUnconfirmed
      BY <1>1, <1>6 DEF Pages
    <2> QED BY <1>1, <1>2, <1>3, <1>6, <2>1, SwapShows
  <1> QED BY <1>4, <1>5, <1>6 DEF FetchFails

LEMMA ResendShows ==
  ASSUME IInv, Showing, NEW r \in net, Resend(r)
  PROVE  Showing'
  <1>1. /\ UNCHANGED serviceVars /\ told' = told /\ page' = page /\ r \in Requests /\ r.heard
    BY DEF IInv, Resend, Types, PageTypes
  <1> DEFINE v == [r EXCEPT !.stage = "sent", !.status = "", !.snapshot = Unanswered]
  <1>2. v.op = r.op /\ v.heard = r.heard /\ v.stage = "sent"
    BY <1>1 DEF Requests
  <1>3. net' = (net \ {r}) \cup {v}
    BY DEF Resend
  <1> HIDE DEF v
  <1> QED BY <1>1, <1>2, <1>3, SwapShows

\* The answer the page takes is not for a form that shows anything newer.
LEMMA TakenIsPast ==
  ASSUME IInv, NEW r \in net, r.stage = "answered", page' \in Pages,
         page'.snapshot = IF IsNewer(page, r.snapshot) THEN r.snapshot ELSE page.snapshot,
         \A q \in net' : q.stage = "answered" => q \in net,
         NEW s, Live(s)'
  PROVE  Live(s) /\ Past(r, s)
  <1>1. /\ r.snapshot \in Snapshots /\ r.snapshot.revision \in Nat
        /\ page.snapshot.revision \in Nat /\ page'.snapshot.revision \in Nat
    BY PageNumbers DEF IInv, Types, PageTypes, Snapshots
  <1>2. /\ page.snapshot.revision <= page'.snapshot.revision
        /\ r.snapshot.revision <= page'.snapshot.revision
    BY <1>1 DEF IsNewer
  <1>3. page'.snapshot = page.snapshot \/ (page'.snapshot = r.snapshot /\ r.snapshot.revision >= page.snapshot.revision)
    BY <1>1 DEF IsNewer
  <1>4. CASE s = page'.snapshot
    BY <1>1, <1>2, <1>3, <1>4 DEF Live, Past
  <1>5. ASSUME NEW q \in net', q.stage = "answered", q.snapshot = s, s.revision >= page'.snapshot.revision
        PROVE  Live(s) /\ Past(r, s)
    <2>1. q \in net /\ s \in Snapshots /\ s.revision \in Nat
      BY <1>5 DEF IInv, Types, PageTypes, Snapshots
    <2>2. s.revision >= page.snapshot.revision /\ r.snapshot.revision <= s.revision
      BY <1>1, <1>2, <1>5, <2>1
    <2> QED BY <1>5, <2>1, <2>2 DEF Live, Past
  <1> QED BY <1>4, <1>5 DEF Live

\* The answer to a save settles it.
LEMMA SettledShows ==
  ASSUME IInv, Showing, UNCHANGED serviceVars, NEW r \in net, r.stage = "answered", Awaited(r),
         r.status \in {"success", "error", "superseded"}, NEW kept, SaveSettled(page', r, kept),
         page'.submission # NoSubmission => executed[page'.submission.id] = 0,
         net \ {r} \subseteq net', \A q \in net' : q \in net \ {r} \/ (NewRequest(q) /\ q.op.kind = "commit"),
         told' = told \cup {<<r.op.id, r.status>>}
  PROVE  Showing'
  <1>1. /\ page' \in Pages /\ page'.resetUnconfirmed = page.resetUnconfirmed
        /\ page'.snapshot = IF IsNewer(page, r.snapshot) THEN r.snapshot ELSE page.snapshot
    BY DEF SaveSettled, FormTakes, SameReset
  <1>2. /\ page.submission # NoSubmission /\ r.op.id = page.submission.id
        /\ r.op.kind = "commit"
    BY ReplyToSave DEF Awaited
  <1>3. executed[r.op.id] > 0
    BY DEF IInv, Truth, HonestReply, Honest
  <1>4. \A q \in net' : q.stage = "answered" => q \in net
    BY DEF NewRequest
  <1>5. \A id : Told(id)' => Told(id) \/ id = r.op.id
    BY DEF Told
  <1>6. ASSUME NEW s, Live(s)' PROVE Live(s) /\ SaveStays(s) /\ RequestsStay(s) /\ TellsLate(s)
    <2>1. Live(s) /\ Past(r, s)
      BY <1>1, <1>4, <1>6, TakenIsPast
    <2>2. SaveStays(s)
      BY <2>1 DEF SaveStays
    <2>3. RequestsStay(s)
      BY <1>2, <2>1 DEF RequestsStay
    <2>4. TellsLate(s)
      BY <1>2, <1>5 DEF TellsLate
    <2> QED BY <2>1, <2>2, <2>3, <2>4
  <1>7. \A q \in net' : q.op.id = r.op.id => q.op.kind = "commit"
    BY <1>2 DEF IInv, Identity
  <1>8. told \subseteq told'
    OBVIOUS
  <1>9. \A q \in net' : q.op.kind = "reset" /\ ~ q.heard => q \in net \/ page'.resetUnconfirmed
    OBVIOUS
  <1>10. \A id : Told(id)' => Told(id) \/ \A q \in net' : q.op.id = id => q.op.kind = "commit"
    BY <1>5, <1>7
  <1>11. \A p \in net : page.submission # NoSubmission /\ p.op.id = page.submission.id => executed[p.op.id] > 0
    BY <1>2, <1>3
  <1> QED BY <1>1, <1>6, <1>8, <1>9, <1>10, <1>11, RestShows

LEMMA SaveEndsShows ==
  ASSUME IInv, Showing, UNCHANGED serviceVars, NEW r \in net, r.stage = "answered", Awaited(r),
         NEW kept, SaveEnds(r, kept), told' = told \cup {<<r.op.id, r.status>>}
  PROVE  Showing'
  BY SettledShows DEF SaveEnds

LEMMA SaveGoesOnShows ==
  ASSUME IInv, Showing, UNCHANGED serviceVars, NEW r \in net, r.stage = "answered", Awaited(r),
         NEW kept, SaveGoesOn(r, kept), told' = told \cup {<<r.op.id, r.status>>}
  PROVE  Showing'
  <1>1. /\ page' \in Pages /\ Submitting(page', page)
        /\ net' = (net \ {r}) \cup {Post(page')}
    BY DEF SaveGoesOn, SaveSettled
  <1>2. page'.submission # NoSubmission /\ page'.submission.id \in Ids
        /\ page'.submission.id = page.operations + 1
    BY <1>1, SubmissionDistinct DEF Submitting, Submissions
  <1>3. executed[page'.submission.id] = 0
    BY <1>2, NewId
  <1>4. PICK y : y = Post(page')
    OBVIOUS
  <1>5. y.stage = "sent" /\ y.op.kind = "commit" /\ y.op.id = page'.submission.id
    BY <1>1, <1>2, <1>4, PostTyped
  <1>6. net' = (net \ {r}) \cup {y}
    BY <1>1, <1>4
  <1>7. NewRequest(y)
    BY <1>2, <1>5 DEF NewRequest
  <1> QED BY <1>3, <1>5, <1>6, <1>7, SettledShows DEF SaveGoesOn

\* The answer to a save leaves it unsure.
LEMMA UnsureShows ==
  ASSUME IInv, Showing, UNCHANGED serviceVars, NEW r \in net, r.stage = "answered", Awaited(r),
         NEW unknown, SaveUnsure(unknown), net' = net \ {r}, told' = told \cup {<<r.op.id, r.status>>}
  PROVE  Showing'
  <1>1. /\ page'.snapshot = page.snapshot /\ page'.submission = page.submission
        /\ page'.resetUnconfirmed = page.resetUnconfirmed
    BY DEF SaveUnsure, SameForm, SameReset
  <1>2. /\ page.submission # NoSubmission /\ r.op.id = page.submission.id
        /\ r.op.kind = "commit"
    BY ReplyToSave DEF Awaited
  <1>3. \A id : Told(id)' => Told(id) \/ id = r.op.id
    BY DEF Told
  <1>4. \A q \in net' : q.op.id = r.op.id => q.op.kind = "commit"
    BY <1>2 DEF IInv, Identity
  <1>5. ASSUME NEW s, Live(s)' PROVE Live(s) /\ SaveStays(s) /\ RequestsStay(s) /\ TellsLate(s)
    <2>1. Live(s)
      BY <1>1, <1>5 DEF Live
    <2>2. SaveStays(s)
      BY <1>1 DEF SaveStays
    <2>3. RequestsStay(s)
      BY <1>2 DEF RequestsStay
    <2>4. TellsLate(s)
      BY <1>2, <1>3 DEF TellsLate
    <2> QED BY <2>1, <2>2, <2>3, <2>4
  <1>6. \A id : Told(id)' => Told(id) \/ \A q \in net' : q.op.id = id => q.op.kind = "commit"
    BY <1>3, <1>4
  <1> QED BY <1>1, <1>5, <1>6, RestShows

\* The answer to a wipe or a reset.
LEMMA AnswerShows ==
  ASSUME IInv, Showing, UNCHANGED serviceVars, NEW r \in net, r.stage = "answered", r.op.kind # "commit",
         NEW kept, Shown(r, kept), told' = told \cup {<<r.op.id, r.status>>}
  PROVE  Showing'
  <1>1. /\ page' \in Pages /\ page'.resetUnconfirmed = page.resetUnconfirmed
        /\ SameSave(page', page) /\ net' = net \ {r}
        /\ r.status # "unknown" =>
             page'.snapshot = IF IsNewer(page, r.snapshot) THEN r.snapshot ELSE page.snapshot
    BY DEF Shown, AnswerShown, FormTakes, SameReset
  <1>2. \A q \in net' : q.op.id # r.op.id
    BY <1>1 DEF IInv, Identity
  <1>3. \A id : Told(id)' => Told(id) \/ id = r.op.id
    BY DEF Told
  <1>4. r.status = "unknown" => AskedToRestart'
    <2> SUFFICES ASSUME r.status = "unknown" PROVE \E answer \in told' : answer[2] = "unknown"
      BY DEF AskedToRestart
    <2>1. <<r.op.id, r.status>> \in told' /\ <<r.op.id, r.status>>[2] = "unknown"
      OBVIOUS
    <2> QED BY <2>1
  <1>5. ASSUME ~ AskedToRestart', NEW s, Live(s)'
        PROVE  Live(s) /\ SaveStays(s) /\ RequestsStay(s) /\ TellsLate(s)
    <2>1. Live(s) /\ Past(r, s)
      BY <1>1, <1>4, <1>5, TakenIsPast
    <2>2. SaveStays(s)
      BY <1>1 DEF SaveStays, SameSave
    <2>3. RequestsStay(s)
      BY <1>1, <2>1 DEF RequestsStay
    <2>4. TellsLate(s)
      BY <1>3, <2>1 DEF TellsLate
    <2> QED BY <2>1, <2>2, <2>3, <2>4
  <1>6. \A id : Told(id)' => Told(id) \/ \A q \in net' : q.op.id = id => q.op.kind = "commit"
    BY <1>2, <1>3
  <1>7. \A p \in net : page.submission # NoSubmission /\ p.op.id = page.submission.id =>
           page'.submission # NoSubmission /\ page'.submission.id = page.submission.id
    BY <1>1 DEF SameSave
  <1> QED BY <1>1, <1>5, <1>6, <1>7, RestShows

LEMMA TakeReplyShows ==
  ASSUME IInv, Showing, NEW r \in net, TakeReply(r)
  PROVE  Showing'
  <1>1. /\ Types /\ r.stage = "answered" /\ UNCHANGED serviceVars
        /\ told' = told \cup {<<r.op.id, r.status>>} /\ r.heard
    BY DEF IInv, TakeReply, Types, PageTypes
  <1>2. CASE TakeCommit(r)
    <2>1. Awaited(r)
      BY <1>1, <1>2 DEF Awaited, TakeCommit
    <2>2. page.submission # NoSubmission /\ r.revisions = page.submission.revisions
      BY <2>1, ReplyToSave
    <2>3. \/ \E kept : Protected(r) \subseteq kept /\ (SaveEnds(r, kept) \/ SaveGoesOn(r, kept))
          \/ SaveUnsure(r.status = "unknown") /\ net' = net \ {r} /\ r.status \in {"fatal", "unknown"}
      BY <1>1, <1>2, <2>2, TakeCommitSteps
    <2>4. ASSUME NEW kept, SaveEnds(r, kept) \/ SaveGoesOn(r, kept) PROVE Showing'
      BY <1>1, <2>1, <2>4, SaveEndsShows, SaveGoesOnShows
    <2>5. CASE SaveUnsure(r.status = "unknown") /\ net' = net \ {r}
      <3>1. PICK unknown : unknown = (r.status = "unknown")
        OBVIOUS
      <3>2. SaveUnsure(unknown)
        BY <2>5, <3>1
      <3> QED BY <1>1, <2>1, <2>5, <3>2, UnsureShows
    <2> QED BY <2>3, <2>4, <2>5
  <1>3. ASSUME NEW kept, Shown(r, kept), r.op.kind # "commit" PROVE Showing'
    BY <1>1, <1>3, AnswerShows
  <1>4. CASE TakeWipe(r)
    <2>1. r.op.kind # "commit"
      BY <1>4 DEF TakeWipe
    <2> QED BY <1>1, <1>3, <1>4, <2>1, TakeWipeSteps
  <1>5. CASE TakeReset(r)
    <2>1. r.op.kind # "commit"
      BY <1>5 DEF TakeReset
    <2> QED BY <1>1, <1>3, <1>5, <2>1, TakeResetSteps
  <1> QED BY <1>2, <1>4, <1>5 DEF TakeReply

-----------------------------------------------------------------------------
(* The server's steps *)

\* What is shown after the server has served r was shown before, or is what it answers.
LEMMA ServedLive ==
  ASSUME IInv, NEW r \in net, NEW y, Serves(r, y), NEW s, Live(s)'
  PROVE  Live(s) \/ (s = y.snapshot /\ r.heard)
  BY DEF Live, Serves

LEMMA RecallShows ==
  ASSUME IInv, Showing, NEW r \in net, r.stage = "sent", UNCHANGED serviceVars,
         NEW y, y.op = r.op, y.heard = r.heard, y.stage = "answered",
         y.snapshot = settings_snapshot', Serves(r, y)
  PROVE  Showing'
  <1>1. /\ revision' = revision /\ executed' = executed
        /\ settings_snapshot' = settings_snapshot /\ settings_snapshot.revision = revision
        /\ y.snapshot.revision = revision
    BY DEF serviceVars, fileVars, operationVars, settings_snapshot
  <1>2. /\ page' = page /\ told' = told
        /\ \A q \in net' : (q \in net /\ q # r) \/ (q = y /\ r.heard)
        /\ \A q \in net : q # r => q \in net'
        /\ r.heard => y \in net'
    BY DEF Serves
  <1>3. ResetMarked' /\ SaveAhead'
    BY <1>1, <1>2 DEF Showing, ResetMarked, SaveAhead
  <1>4. ASSUME ~ AskedToRestart'
        PROVE  ToldOnce' /\ \A s : Live(s)' => Current(s)'
    <2>1. ToldOnce /\ \A s : Live(s) => Current(s)
      BY <1>2, <1>4 DEF Showing, AskedToRestart
    <2>2. ToldOnce'
      BY <1>2, <2>1 DEF ToldOnce, Told
    <2>3. ASSUME NEW s, s.revision < revision
          PROVE  Overtakes(y, s)
      <3>1. y.snapshot.revision > s.revision
        BY <1>1, <2>3
      <3> QED BY <3>1 DEF Overtakes
    <2>4. ASSUME NEW s, Current(s) PROVE Current(s)'
      <3>1. CommitOut(s) => CommitOut(s)'
        BY <1>1, <1>2, <2>3 DEF CommitOut, Awaited, Overtakes
      <3>2. ResetOut(s) => ResetOut(s)'
        <4> SUFFICES ASSUME ResetOut(s) PROVE ResetOut(s)'
          OBVIOUS
        <4>1. PICK p \in net : /\ p.op.kind = "reset" /\ p.heard /\ executed[p.op.id] > 0
                               /\ s.revision < revision /\ Overtakes(p, s)
          BY DEF ResetOut
        <4>2. PICK q \in net' : q.op = p.op /\ q.heard /\ Overtakes(q, s)
          BY <1>2, <2>3, <4>1
        <4> QED BY <1>1, <4>1, <4>2 DEF ResetOut, Overtakes
      <3>3. WipeOut(s) => WipeOut(s)'
        <4> SUFFICES ASSUME NEW id \in Ids, WipedBy(id, s) PROVE WipedBy(id, s)'
          BY DEF WipeOut
        <4>1. \A q \in net' : q.op.id = id => q.op.kind = "wipe" /\ Overtakes(q, s)
          BY <1>2, <2>3 DEF WipedBy
        <4>2. id \in Untold /\ id \in Untold'
          BY <1>1, <1>2 DEF Untold, WipedBy
        <4> QED BY <1>1, <1>2, <4>1, <4>2 DEF WipedBy, Overtakes
      <3> QED BY <1>1, <1>2, <3>1, <3>2, <3>3, <2>4 DEF Current
    <2>5. ASSUME NEW s, s = settings_snapshot' PROVE Current(s)'
      BY <2>5 DEF Current
    <2>6. ASSUME NEW s, Live(s)' PROVE Current(s)'
      BY <2>1, <2>4, <2>5, <2>6, ServedLive
    <2> QED BY <2>2, <2>6
  <1> QED BY <1>3, <1>4 DEF Showing

\* No answer to a save that is new can be there.
LEMMA FirstAnswer ==
  ASSUME IInv, NEW r \in net, IsNew(r.op), NEW q \in net, q.op.id = r.op.id
  PROVE  q.stage # "answered"
  <1>1. /\ executed[r.op.id] = 0 /\ r.op.base > expired_through
        /\ r.op.base \in Nat /\ expired_through \in Int
    BY FreshOperation, RequestTyped DEF IInv, Types, ServiceTypes
  <1>2. q.op = r.op
    BY DEF IInv, Identity
  <1>3. ~ (r.op.base <= expired_through) /\ ~ (executed[r.op.id] > 0)
    BY <1>1
  <1> QED BY <1>2, <1>3 DEF IInv, Truth, HonestReply, Honest

LEMMA ExecuteShows ==
  ASSUME IInv, Showing, NEW r \in net, r.stage = "sent", NEW status, Executes(r.op, status),
         NEW y, y.op = r.op, y.heard = r.heard, y.stage = "answered",
         y.snapshot = settings_snapshot', Serves(r, y)
  PROVE  Showing'
  <1>1. /\ IsNew(r.op) /\ status \in Statuses \ {"unknown"} /\ Settle(r.op, status) /\ Writes(r.op)
        /\ r.op \in Operations /\ r.op.id \in Ids
    BY RequestTyped DEF Executes, IInv
  <1>2. /\ executed[r.op.id] = 0
    BY <1>1, FreshOperation
  <1>3. /\ revision \in Nat /\ revision' = revision + 1
        /\ executed'[r.op.id] = 1 /\ \A id \in Ids : id # r.op.id => executed'[id] = executed[id]
        /\ executed \in [Ids -> Nat] /\ executed' \in [Ids -> Nat]
    BY <1>1, <1>2, Counted DEF IInv, Types, ServiceTypes
  <1>4. \A id \in Ids : executed[id] > 0 => executed'[id] > 0
    BY <1>3
  <1>5. /\ page' = page /\ told' = told
        /\ \A q \in net' : (q \in net /\ q # r) \/ (q = y /\ r.heard)
        /\ \A q \in net : q # r => q \in net'
        /\ r.heard => y \in net'
    BY DEF Serves
  <1>6. \A q \in net : q.op.id \in Ids
    BY RequestTyped DEF IInv
  <1>7. page \in Pages /\ (page.submission # NoSubmission => page.submission.id \in Ids)
    BY SubmissionTyped DEF IInv, Types, PageTypes, Submissions
  <1>8. ResetMarked'
    BY <1>5 DEF Showing, ResetMarked
  <1>9. SaveAhead'
    <2> SUFFICES ASSUME NEW q \in net', q.op.kind = "commit", executed'[q.op.id] = 0
                 PROVE  page.submission # NoSubmission /\ q.op.id = page.submission.id
      BY <1>5 DEF SaveAhead
    <2>1. q.op.id # r.op.id
      BY <1>3
    <2>2. q \in net
      BY <1>5, <2>1
    <2>3. executed[q.op.id] = 0
      BY <1>3, <1>6, <2>1, <2>2
    <2> QED BY <2>2, <2>3 DEF Showing, SaveAhead
  <1>10. ASSUME ~ AskedToRestart'
         PROVE  ToldOnce' /\ \A s : Live(s)' => Current(s)'
    <2>1. ToldOnce /\ \A s : Live(s) => Current(s)
      BY <1>5, <1>10 DEF Showing, AskedToRestart
    <2>2. ToldOnce'
      BY <1>5, <2>1 DEF ToldOnce, Told
    <2>3. y.snapshot.revision = revision + 1
      BY <1>3 DEF settings_snapshot
    <2>4. ASSUME NEW s, Live(s) PROVE Current(s)'
      <3>1. Current(s) /\ s.revision \in Nat /\ s.revision <= revision
        BY <2>1, <2>4, LiveTyped
      <3>2. s.revision < revision' /\ Overtakes(y, s)
        BY <1>3, <2>3, <3>1 DEF Overtakes
      <3>3. CommitOut(s) => CommitOut(s)'
        BY <1>4, <1>5, <1>7, <3>2 DEF CommitOut, Awaited, Overtakes
      <3>4. ResetOut(s) => ResetOut(s)'
        <4> SUFFICES ASSUME ResetOut(s) PROVE ResetOut(s)'
          OBVIOUS
        <4>1. PICK p \in net : p.op.kind = "reset" /\ p.heard /\ executed[p.op.id] > 0 /\ Overtakes(p, s)
          BY DEF ResetOut
        <4>2. p \in net' /\ executed'[p.op.id] > 0
          BY <1>2, <1>4, <1>5, <1>6, <4>1
        <4> QED BY <3>2, <4>1, <4>2 DEF ResetOut, Overtakes
      <3>5. WipeOut(s) => WipeOut(s)'
        <4> SUFFICES ASSUME NEW id \in Ids, WipedBy(id, s) PROVE WipedBy(id, s)'
          BY DEF WipeOut
        <4>1. \A q \in net' : q.op.id = id => q.op.kind = "wipe" /\ Overtakes(q, s)
          BY <1>5, <3>2 DEF WipedBy
        <4>2. id \in Untold'
          BY <1>4, <1>5 DEF Untold, WipedBy
        <4> QED BY <1>5, <3>2, <4>1, <4>2 DEF WipedBy, Overtakes
      <3>6. CASE r.op.kind = "commit"
        <4>1. page.submission # NoSubmission /\ r.op.id = page.submission.id
          BY <1>2, <3>6 DEF Showing, SaveAhead
        <4>2. \A q \in net' : Awaited(q) => Overtakes(q, s)
          <5> TAKE q \in net'
          <5>1. ASSUME q \in net, Awaited(q) PROVE Overtakes(q, s)
            <6>1. q.op.id = r.op.id
              BY <4>1, <5>1, ReplyToSave
            <6> QED BY <1>1, <5>1, <6>1, FirstAnswer DEF Overtakes
          <5> QED BY <1>5, <3>2, <5>1
        <4>3. executed'[page.submission.id] > 0
          BY <1>3, <4>1
        <4>4. CommitOut(s)'
          BY <1>5, <3>2, <4>1, <4>2, <4>3 DEF CommitOut, Awaited, Overtakes
        <4> QED BY <4>4 DEF Current
      <3>7. CASE r.op.kind = "reset"
        <4>1. settings_snapshot'.key = settings_snapshot.key
          BY <1>1, <3>7 DEF Writes, TokenWrite, settings_snapshot
        <4>2. ~ page.resetUnconfirmed => r.heard
          BY <3>7 DEF Showing, ResetMarked
        <4>3. r.heard => ResetOut(s)'
          <5> SUFFICES ASSUME r.heard PROVE ResetOut(s)'
            OBVIOUS
          <5>1. y \in net' /\ y.heard /\ y.op.kind = "reset" /\ executed'[y.op.id] > 0
            BY <1>3, <1>5, <3>7
          <5> QED BY <3>2, <5>1 DEF ResetOut, Overtakes
        <4> QED BY <1>5, <3>1, <3>3, <3>5, <4>1, <4>2, <4>3 DEF Current
      <3>8. CASE r.op.kind = "wipe"
        <4>1. settings_snapshot'.model = settings_snapshot.model
          BY <1>1, <3>8 DEF Writes, settings_snapshot
        <4>2. WipedBy(r.op.id, s)'
          <5>1. r.op.id \in Untold'
            BY <1>1, <1>3, <1>5, <2>1, <3>8 DEF Untold, ToldOnce, Told
          <5>2. page.submission # NoSubmission => r.op.id # page.submission.id
            BY <3>8 DEF IInv, Identity, IsSubmission
          <5>3. \A q \in net' : q.op.id = r.op.id => q.op.kind = "wipe" /\ Overtakes(q, s)
            BY <1>5, <3>2, <3>8 DEF IInv, Identity
          <5>4. PICK id \in Ids : id = r.op.id
            BY <1>1
          <5>5. WipedBy(id, s)'
            BY <1>5, <3>2, <5>1, <5>2, <5>3, <5>4 DEF WipedBy, Overtakes
          <5> QED BY <5>4, <5>5
        <4>3. WipeOut(s)'
          BY <1>1, <4>2 DEF WipeOut
        <4> QED BY <1>5, <3>1, <3>3, <3>4, <4>1, <4>3 DEF Current
      <3> QED BY <1>1, <3>6, <3>7, <3>8, EditTyped
    <2>5. ASSUME NEW s, s = settings_snapshot' PROVE Current(s)'
      BY <2>5 DEF Current
    <2>6. ASSUME NEW s, Live(s)' PROVE Current(s)'
      BY <2>4, <2>5, <2>6, ServedLive
    <2> QED BY <2>2, <2>6
  <1> QED BY <1>8, <1>9, <1>10 DEF Showing

LEMMA HandleShows ==
  ASSUME IInv, Showing, NEW r \in net, Handle(r)
  PROVE  Showing'
  <1>1. /\ r.stage = "sent" /\ page' = page /\ told' = told /\ wiped' = wiped /\ faults' = faults
        /\ \E status \in Statuses :
              /\ net' = (net \ {r}) \cup (IF r.heard THEN {Replied(r, status, settings_snapshot')} ELSE {})
              /\ Recalls(r.op, status) \/ Executes(r.op, status)
    BY HandleSteps DEF IInv, Handle
  <1>2. PICK status \in Statuses :
              /\ net' = (net \ {r}) \cup (IF r.heard THEN {Replied(r, status, settings_snapshot')} ELSE {})
              /\ Recalls(r.op, status) \/ Executes(r.op, status)
    BY <1>1
  <1>3. PICK y : y = Replied(r, status, settings_snapshot')
    OBVIOUS
  <1>4. Serves(r, y)
    BY <1>1, <1>2, <1>3 DEF Serves
  <1>5. r \in Requests
    BY RequestTyped DEF IInv
  <1>6. y.op = r.op /\ y.heard = r.heard /\ y.stage = "answered" /\ y.snapshot = settings_snapshot'
    BY <1>3, <1>5 DEF Replied, Requests
  <1>7. CASE Recalls(r.op, status)
    BY <1>1, <1>4, <1>6, <1>7, RecallShows DEF Recalls
  <1>8. CASE Executes(r.op, status)
    BY <1>1, <1>4, <1>6, <1>8, ExecuteShows
  <1> QED BY <1>2, <1>7, <1>8

-----------------------------------------------------------------------------

LEMMA NextShows ==
  ASSUME IInv, Showing, [PageNext]_vars
  PROVE  Showing'
  <1>0. page \in Pages
    BY DEF IInv, Types, PageTypes
  <1>1. ASSUME NEW c \in Controls, EditField(c) PROVE Showing'
    BY <1>0, <1>1, EditFieldTyping, EditShows DEF EditField
  <1>2. CASE RevertFrame
    BY <1>0, <1>2, RevertFrameTyping, EditShows DEF RevertFrame
  <1>3. CASE discardGlobalDraft
    BY <1>0, <1>3, DiscardTyping, EditShows DEF discardGlobalDraft
  <1>4. CASE commitGlobalDraft
    BY <1>0, <1>4, ApplySteps, BeginShows, RepeatShows
  <1>5. CASE wipeToken \/ resetSettings
    <2>1. PICK x : Asks(x)
      BY <1>0, <1>5, AskSteps
    <2> QED BY <2>1, AskShows
  <1>6. ASSUME NEW r \in net, Handle(r) \/ TakeReply(r) \/ FetchFails(r) \/ Resend(r) PROVE Showing'
    BY <1>6, HandleShows, TakeReplyShows, FetchFailsShows, ResendShows
  <1>7. CASE UNCHANGED vars
    <2>1. UNCHANGED serviceVars /\ page' = page /\ net' = net /\ told' = told
      BY <1>7 DEF vars
    <2> QED BY <2>1, QuietShows
  <1> QED BY <1>1, <1>2, <1>3, <1>4, <1>5, <1>6, <1>7 DEF PageNext, User

\* When Start is offered the form shows what is on disk, of the token as soon as every operation
\* was answered, unless the user was told to restart (updateGlobalControls, commitGlobalDraft).
THEOREM ShownOnDisk == PageSpec => []ShownIsOnDisk
  <1>1. PageInit => IInv /\ Showing
    <2> SUFFICES ASSUME PageInit PROVE Showing
      BY PageInitKeeps
    <2>1. net = {} /\ page.snapshot = settings_snapshot
      BY DEF PageInit
    <2>2. \A s : Live(s) => s = settings_snapshot
      BY <2>1 DEF Live
    <2> QED BY <2>1, <2>2 DEF Showing, ResetMarked, SaveAhead, ToldOnce, Current
  <1>2. IInv /\ Showing /\ [PageNext]_vars => IInv' /\ Showing'
    BY PageNextKeeps, NextShows
  <1>3. IInv /\ Showing => ShownIsOnDisk
    BY CurrentIsShown
  <1> QED BY <1>1, <1>2, <1>3, PTL DEF PageSpec

=============================================================================
