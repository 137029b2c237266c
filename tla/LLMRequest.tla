----------------------------- MODULE LLMRequest -----------------------------
(***************************************************************************)
(* One request to the AI provider: _process_request of                     *)
(* src/src/llm_client.py with everything it calls.                         *)
(*                                                                         *)
(* Two threads: the worker, which encodes the images, waits for each reply *)
(* and judges it, and a thread of its own for each HTTP call, which the    *)
(* worker gives up when Stop is pressed (it then runs on by itself).  The  *)
(* user may press Stop at any moment.                                      *)
(*                                                                         *)
(* Abstractions.  What the provider answers is one of Answers; what goes   *)
(* wrong with a call is reduced to the four ways in which the client       *)
(* treats it.  A text is named by the number of the reply it came in.      *)
(* Notes, payloads and the length of pauses are left out.                  *)
(***************************************************************************)
EXTENDS AnswerJudge

CONSTANTS
  Frames,         \* request_frames: the page numbers of the images
  OutputMode,     \* LLM_OUTPUT_MODE
  Retries,        \* LLM_MAX_RETRIES
  JsonAttempts,   \* LLM_JSON_MAX_ATTEMPTS
  Answers         \* readable replies: [cut, shape, text]
                  \*   cut: finish_reason says that the token limit was hit
                  \*   shape: "text", "schema" when the answer is not where it should be,
                  \*     "odd" when looking for it raises something unexpected

\* Inputs on which reading and judging are looked at by themselves.
CONSTANTS
  SampleTexts,    \* texts of replies
  SampleRows,     \* rows of a reply
  SamplePages     \* pages sent

ASSUME RequestAssumption ==
  /\ Frames \in Seq(Nat \ {NoClaim})
  /\ \A i, j \in DOMAIN Frames : Frames[i] = Frames[j] => i = j
  /\ Retries \in Nat \ {0} /\ JsonAttempts \in Nat \ {0}
  /\ \A answer \in Answers :
       /\ answer.shape \in {"text", "schema", "odd"} /\ answer.cut \in BOOLEAN
       /\ answer.text \in Seq(Brackets)

ASSUME SamplesAssumption ==
  /\ \A sample \in SampleTexts : sample \in Seq(Brackets) /\ WellNested(sample)
  /\ \A rows \in SampleRows : rows \in Seq(RowClaims)
  /\ \A pages \in SamplePages :
       /\ pages \in Seq(Nat \ {NoClaim})
       /\ \A i, j \in DOMAIN pages : pages[i] = pages[j] => i = j

VARIABLES
  pc,
  frame,      \* position in Frames while encoding
  sent,       \* sent_pages
  ladder,     \* the attempt of _process_request's loop
  retry,      \* the attempt of _send_request_with_retries' loop
  text,       \* the number of the reply whose text is kept, 0 for ""
  kept,       \* kept_rows
  kept_from,  \* history: the reply kept_rows came from
  call,       \* the HTTP thread the worker waits for, and its outcome
  abort,      \* abort_flag
  outcome,    \* {} until the request ends, then {the RequestOutcome or exception}
  replies,    \* history: texts read
  reason      \* history: what the last collected call came to

encodeVars == <<frame, sent>>
keptVars == <<text, kept, kept_from, replies>>
vars == <<pc, encodeVars, ladder, retry, keptVars, call, abort, outcome, reason>>

Troubles == {"network", "rejected", "fatal", "aborted", "crash"}
NoCall == [state |-> "none", trouble |-> ""]
Running == [state |-> "running", trouble |-> ""]
Failed(trouble) == [state |-> "failed", trouble |-> trouble]
Answered(answer) == [state |-> "answered", answer |-> answer]

TypeOK ==
  /\ pc \in {"encode", "attempt", "post", "wait", "pause", "settled"}
  /\ frame \in 1..(Len(Frames) + 1)
  /\ Len(sent) < frame /\ \A i \in DOMAIN sent : \E j \in 1..(frame - 1) : sent[i] = Frames[j]
  /\ ladder \in 1..JsonAttempts /\ retry \in 1..Retries
  /\ text \in 0..replies /\ kept_from \in 0..replies /\ replies <= ladder
  /\ call.state \in {"none", "running", "failed", "answered"}
  /\ abort \in BOOLEAN
  /\ (outcome = {}) <=> (pc # "settled")

-----------------------------------------------------------------------------
Init ==
  /\ pc = "encode" /\ frame = 1 /\ sent = << >>
  /\ ladder = 1 /\ retry = 1
  /\ text = 0 /\ kept = << >> /\ kept_from = 0
  /\ call = NoCall /\ abort = FALSE /\ outcome = {}
  /\ replies = 0 /\ reason = "none"

\* The request ends: with a RequestOutcome, with a ConfigurationError that halts the batch
\* ("halt"), or with an exception nobody expects ("crash").
End(ending, status, pages, textOf, rows, rowsFrom) ==
  /\ pc' = "settled"
  /\ outcome' = {[ending |-> ending, status |-> status, pages |-> pages, text |-> textOf,
                  rows |-> rows, from |-> rowsFrom]}

EndWithout(status) == End("reply", status, sent, text, << >>, 0)

-----------------------------------------------------------------------------
(* _encode_request_content *)

EncodeStopped ==
  /\ pc = "encode" /\ abort
  /\ End("reply", "aborted_by_user", Frames, 0, << >>, 0)
  /\ UNCHANGED <<encodeVars, ladder, retry, keptVars, call, abort, reason>>

\* An image that cannot be read is left out of the request.
EncodeFrame ==
  /\ pc = "encode" /\ ~ abort /\ frame <= Len(Frames)
  /\ sent' \in {sent, Append(sent, Frames[frame])}
  /\ frame' = frame + 1
  /\ UNCHANGED <<pc, ladder, retry, keptVars, call, abort, outcome, reason>>

\* _process_request after the images
BeginLadder ==
  /\ pc = "encode" /\ ~ abort /\ frame > Len(Frames)
  /\ IF sent = << >>
     THEN End("reply", "encoding_failure", Frames, 0, << >>, 0)
     ELSE pc' = "attempt" /\ UNCHANGED outcome
  /\ UNCHANGED <<encodeVars, ladder, retry, keptVars, call, abort, reason>>

-----------------------------------------------------------------------------
(* The loop of _process_request and the start of _post_with_abort *)

BeginAttempt ==
  /\ pc = "attempt"
  /\ IF abort
     THEN EndWithout("aborted_by_user")
     ELSE pc' = "post" /\ UNCHANGED outcome
  /\ retry' = 1
  /\ UNCHANGED <<encodeVars, ladder, keptVars, call, abort, reason>>

Post ==
  /\ pc = "post" /\ ~ abort
  /\ pc' = "wait" /\ call' = Running
  /\ UNCHANGED <<encodeVars, ladder, retry, keptVars, abort, outcome, reason>>

PostStopped ==
  /\ pc = "post" /\ abort
  /\ EndWithout("aborted_by_user")
  /\ UNCHANGED <<encodeVars, ladder, retry, keptVars, call, abort, reason>>

-----------------------------------------------------------------------------
(* The HTTP thread (_do_request): its call fails, is answered, or sees the flag *)

CallFails(trouble) ==
  /\ call = Running
  /\ trouble = "aborted" => abort
  /\ call' = Failed(trouble)
  /\ UNCHANGED <<pc, encodeVars, ladder, retry, keptVars, abort, outcome, reason>>

CallAnswered(answer) ==
  /\ call = Running
  /\ call' = Answered(answer)
  /\ UNCHANGED <<pc, encodeVars, ladder, retry, keptVars, abort, outcome, reason>>

-----------------------------------------------------------------------------
(* The wait of _post_with_abort, and what the reply leads to *)

\* Mutant: the wait gives up after a while, whether or not Stop was pressed.
GiveUpOnTimeout ==
  /\ pc = "wait"
  /\ EndWithout("aborted_by_user")
  /\ UNCHANGED <<encodeVars, ladder, retry, keptVars, call, abort, reason>>

\* Mutant: the wait for the thread does not look at the flag.
GiveUpNever ==
  /\ pc = "wait" /\ abort /\ call.state = "failed"
  /\ EndWithout("aborted_by_user")
  /\ UNCHANGED <<encodeVars, ladder, retry, keptVars, call, abort, reason>>

\* The flag is read after every half second of waiting, also when the thread has just ended.
GiveUp ==
  /\ pc = "wait" /\ abort
  /\ EndWithout("aborted_by_user")
  /\ UNCHANGED <<encodeVars, ladder, retry, keptVars, call, abort, reason>>

\* Mutant: a request the server rejected is sent again.
RetriedTroubleOrRejection == {"network", "rejected"}

\* What _send_request_with_retries tries again: connection errors, timeouts, 5xx, a body that
\* is no JSON, and _RETRIED_STATUSES.
RetriedTrouble == {"network"}

\* Mutant: the counter of retries is never advanced.
NextRetryForgotten == retry

NextRetry == retry + 1

Collect ==
  /\ pc = "wait" /\ call.state = "failed"
  /\ reason' = call.trouble
  /\ IF call.trouble \in RetriedTrouble /\ retry < Retries
     THEN pc' = "pause" /\ UNCHANGED outcome
     ELSE CASE call.trouble = "aborted" -> EndWithout("aborted_by_user")
            [] call.trouble = "fatal" -> End("halt", "network_failure", sent, text, << >>, 0)
            [] call.trouble = "crash" -> End("crash", "none", << >>, 0, << >>, 0)
            [] OTHER -> EndWithout("network_failure")
  /\ call' = NoCall
  /\ UNCHANGED <<encodeVars, ladder, retry, keptVars, abort>>

\* _abortable_sleep between two tries; the flag is read once more when it is over.
PauseEnds ==
  /\ pc = "pause"
  /\ IF abort
     THEN EndWithout("aborted_by_user") /\ UNCHANGED retry
     ELSE pc' = "post" /\ retry' = NextRetry /\ UNCHANGED outcome
  /\ UNCHANGED <<encodeVars, ladder, keptVars, call, abort, reason>>

-----------------------------------------------------------------------------
(* _parse_response_text, _judge_answer_text, and the rest of the loop *)

\* Mutant: the rows of an earlier attempt stay.
KeptFirst(rows) == IF kept = << >> THEN <<rows, replies + 1>> ELSE <<kept, kept_from>>

Kept(rows) == <<rows, replies + 1>>

AttemptLeft == ladder < JsonAttempts

JudgeAnswer(answer) ==
  LET judged == judge_answer_text(answer.text, OutputMode, sent) IN
  /\ reason' = IF judged.problem THEN "misjudged" ELSE "ok"
  /\ kept' = Kept(judged.rows)[1] /\ kept_from' = Kept(judged.rows)[2]
  /\ CASE ~ judged.problem ->
            /\ End("reply", "ok", sent, replies + 1, judged.rows, replies + 1)
            /\ UNCHANGED ladder
       [] judged.problem /\ AttemptLeft ->
            /\ pc' = "attempt" /\ ladder' = ladder + 1
            /\ UNCHANGED outcome
       [] OTHER ->
            /\ End("reply", "invalid_json_answer", sent, replies + 1, kept', kept_from')
            /\ UNCHANGED ladder

Unusable(answer) ==
  /\ reason' = "unusable"
  /\ IF answer.shape = "odd" THEN End("crash", "none", << >>, 0, << >>, 0)
     ELSE End("reply", IF answer.cut THEN "token_limit_exceeded" ELSE "provider_reply_parse_error",
              sent, replies + 1, << >>, 0)
  /\ UNCHANGED <<ladder, kept, kept_from>>

Read ==
  /\ pc = "wait" /\ call.state = "answered"
  /\ replies' = replies + 1 /\ text' = replies + 1
  /\ IF call.answer.cut \/ call.answer.shape # "text"
     THEN Unusable(call.answer)
     ELSE JudgeAnswer(call.answer)
  /\ call' = NoCall
  /\ UNCHANGED <<encodeVars, retry, abort>>

-----------------------------------------------------------------------------
Stop ==
  /\ ~ abort /\ abort' = TRUE
  /\ UNCHANGED <<pc, encodeVars, ladder, retry, keptVars, call, outcome, reason>>

Worker ==
  \/ EncodeStopped \/ EncodeFrame \/ BeginLadder
  \/ BeginAttempt \/ Post \/ PostStopped
  \/ GiveUp \/ Collect \/ PauseEnds \/ Read

HttpThread ==
  \/ \E trouble \in Troubles : CallFails(trouble)
  \/ \E answer \in Answers : CallAnswered(answer)

Next == Worker \/ HttpThread \/ Stop

Spec == Init /\ [][Next]_vars

\* The worker's own steps return; nothing is said of the HTTP thread.
FairSpec == Spec /\ WF_vars(Worker)

-----------------------------------------------------------------------------
(* Properties *)

Warned(rows) == \E i \in DOMAIN rows : rows[i].warning # ""

Contract ==
  INSTANCE RequestContract WITH
    stopped <- abort,
    outcome <- {[ending |-> end.ending, status |-> end.status, flawed |-> Warned(end.rows)] :
                  end \in outcome}

\* A request ends once, is called aborted only after Stop, and otherwise as the batch loop
\* expects of it (what BatchRun takes for one step: Reply, FatalReply or RequestCrashes).
ContractSpec == Contract!ContractSpec

\* A request that ended well, however many attempts it took, has exactly one row for every
\* page whose image was sent: an answer, or the note that none came.
OkCoversSentPages ==
  OutputMode = "table_per_page" =>
    \A end \in outcome :
      end.status = "ok" =>
        \A p \in DOMAIN sent :
          Cardinality({i \in DOMAIN end.rows :
                         /\ end.rows[i].page = sent[p]
                         /\ end.rows[i].warning \in {"", "no_row_returned"}}) = 1

\* Whatever the last attempt came to, the text recorded is that of the last reply read, and
\* rows recorded beside it were taken from that same reply.
LastReplyIsKept ==
  \A end \in outcome :
    /\ end.ending # "crash" => end.text = replies
    /\ end.rows # << >> => end.from = end.text

\* The two that follow are about AnswerJudge alone and need looking at in one state only.
Beginning == pc = "encode" /\ frame = 1 /\ ~ abort

\* The search for the JSON in a reply takes the value the reference definition names: prose,
\* brackets that are no JSON, and JSON of the wrong kind before it do not hide it, and the
\* inside of a value of the wrong kind is not mistaken for it.
TakesTheRightValue ==
  Beginning =>
    \A sample \in SampleTexts, mode \in {"table_per_page", "table_per_file"} :
      extract_json_value(sample, mode) = ValueToTake(sample, mode)

\* Judging keeps every row of the reply and accounts for every page that was sent.
AccountsForEveryPage ==
  Beginning => \A rows \in SampleRows, pages \in SamplePages : AccountsForPages(rows, pages)

\* What is taken from a reply is what the provider meant, as far as it can be known: the right
\* value out of its text, and of that value every row and every page (AnswerJudge).
RepliesAreReadRight == TakesTheRightValue /\ AccountsForEveryPage

\* The provider is called again only after trouble that may pass or an answer it was asked to
\* correct: never after it rejected the request, and never once an answer was good.
EveryPostIsWarranted ==
  [][call # Running /\ call' = Running => reason \in {"none", "network", "misjudged"}]_vars

\* After Stop the request ends even if the provider never answers.
StopSettles == abort ~> (pc = "settled")

\* If every call to the provider comes back, the request ends.
RequestEnds == []<>(call # Running) => <>(pc = "settled")

=============================================================================
