--------------------------- MODULE LLMRequestProofs ---------------------------
(***************************************************************************)
(* What one request promises the batch loop, for every list of images,     *)
(* every limit on retries and attempts, and every set of answers; and how  *)
(* the answer in a reply is read, whatever the reply.                      *)
(***************************************************************************)
EXTENDS LLMRequest, OrderedProofs, TLAPS

\* A request has ended exactly when it says so, and its thread saw the flag only after Stop.
Phase ==
  /\ (outcome = {}) <=> (pc # "settled")
  /\ abort \in BOOLEAN
  /\ call.state = "failed" /\ call.trouble = "aborted" => abort

\* The text kept is always that of the last reply read.
Texts ==
  /\ text = replies
  /\ pc = "encode" => replies = 0

IInv == Phase /\ Texts /\ LastReplyIsKept

\* The outcome of a call names the flag only when its thread saw it.
LEMMA CallStates ==
  /\ NoCall.state = "none" /\ Running.state = "running"
  /\ \A trouble : Failed(trouble).state = "failed" /\ Failed(trouble).trouble = trouble
  /\ \A answer : Answered(answer).state = "answered"
  BY DEF NoCall, Running, Failed, Answered

\* Nothing is encoded, sent or noted at first.
THEOREM InitIInv == Init => IInv
<1> SUFFICES ASSUME Init PROVE IInv
  OBVIOUS
<1>1. Phase
  BY CallStates DEF Init, Phase
<1>2. Texts /\ LastReplyIsKept
  BY DEF Init, Texts, LastReplyIsKept
<1> QED BY <1>1, <1>2 DEF IInv

-----------------------------------------------------------------------------
(* One lemma for the actions that do not end the request *)

\* A step that leaves the outcome alone keeps the invariant if it goes on with the last text.
LEMMA GoingOn ==
  ASSUME IInv, outcome' = outcome, text' = replies', pc' = "encode" => replies' = 0,
         (pc' = "settled") <=> (pc = "settled"), replies' = replies \/ pc # "settled",
         abort' = abort \/ abort' = TRUE,
         call' = call \/ call' = NoCall \/ call' = Running
           \/ (\E trouble : call' = Failed(trouble) /\ (trouble = "aborted" => abort))
           \/ (\E answer : call' = Answered(answer))
  PROVE  IInv'
<1>1. Phase'
  <2>1. ((outcome = {}) <=> (pc # "settled"))' /\ (abort \in BOOLEAN)'
    BY DEF IInv, Phase
  <2>2. (call.state = "failed" /\ call.trouble = "aborted" => abort)'
    <3>1. abort => abort'
      OBVIOUS
    <3>2. CASE call' = call
      BY <3>1, <3>2 DEF IInv, Phase
    <3>3. CASE call' = NoCall \/ call' = Running \/ \E answer : call' = Answered(answer)
      BY <3>3, CallStates
    <3>4. CASE \E trouble : call' = Failed(trouble) /\ (trouble = "aborted" => abort)
      BY <3>1, <3>4, CallStates
    <3> QED BY <3>2, <3>3, <3>4
  <2> QED BY <2>1, <2>2 DEF Phase
<1>2. Texts'
  BY DEF IInv, Texts
<1>3. LastReplyIsKept'
  BY DEF IInv, Phase, LastReplyIsKept
<1> QED BY <1>1, <1>2, <1>3 DEF IInv

\* The request ends with the last text and with rows taken from it, or without rows.
LEMMA Ending ==
  ASSUME IInv, NEW ending, NEW status, NEW pages, NEW rows, NEW rowsFrom,
         End(ending, status, pages, replies', rows, rowsFrom) \/
           (ending = "crash" /\ rows = << >> /\ End(ending, status, pages, 0, rows, rowsFrom)),
         rows # << >> => rowsFrom = replies',
         text' = replies', abort' = abort, call' = call \/ call' = NoCall
  PROVE  IInv'
<1>1. Phase'
  <2>1. ((outcome = {}) <=> (pc # "settled"))' /\ (abort \in BOOLEAN)'
    BY DEF IInv, Phase, End
  <2>2. (call.state = "failed" /\ call.trouble = "aborted" => abort)'
    BY CallStates DEF IInv, Phase
  <2> QED BY <2>1, <2>2 DEF Phase
<1>2. Texts'
  BY DEF Texts, End
<1>3. LastReplyIsKept'
  BY DEF LastReplyIsKept, End
<1> QED BY <1>1, <1>2, <1>3 DEF IInv

-----------------------------------------------------------------------------
LEMMA EncodingKeeps == IInv /\ (EncodeStopped \/ EncodeFrame \/ BeginLadder) => IInv'
<1> SUFFICES ASSUME IInv, EncodeStopped \/ EncodeFrame \/ BeginLadder PROVE IInv'
  OBVIOUS
<1>t. text = 0 /\ replies = 0 /\ pc = "encode"
  BY DEF IInv, Texts, EncodeStopped, EncodeFrame, BeginLadder
<1>1. CASE EncodeStopped
  <2>1. End("reply", "aborted_by_user", Frames, replies', << >>, 0) /\ text' = replies'
        /\ abort' = abort /\ call' = call
    BY <1>1, <1>t DEF EncodeStopped, keptVars
  <2> QED BY <2>1, Ending
<1>2. CASE EncodeFrame
  BY <1>2, <1>t, GoingOn DEF EncodeFrame, keptVars
<1>3. CASE BeginLadder
  <2>1. CASE sent = << >>
    <3>1. End("reply", "encoding_failure", Frames, replies', << >>, 0) /\ text' = replies'
          /\ abort' = abort /\ call' = call
      BY <1>3, <2>1, <1>t DEF BeginLadder, keptVars
    <3> QED BY <3>1, Ending
  <2>2. CASE sent # << >>
    BY <1>3, <2>2, <1>t, GoingOn DEF BeginLadder, keptVars
  <2> QED BY <2>1, <2>2
<1> QED BY <1>1, <1>2, <1>3

\* Ends that keep what was read before: no rows, the last text.
LEMMA EndWithoutKeeps ==
  ASSUME IInv, NEW status, EndWithout(status), UNCHANGED keptVars,
         abort' = abort, call' = call \/ call' = NoCall
  PROVE  IInv'
<1>1. End("reply", status, sent, replies', << >>, 0) /\ text' = replies'
  BY DEF EndWithout, keptVars, IInv, Texts
<1> QED BY <1>1, Ending

LEMMA SendingKeeps == IInv /\ (BeginAttempt \/ Post \/ PostStopped \/ GiveUp \/ PauseEnds) => IInv'
<1> SUFFICES ASSUME IInv, BeginAttempt \/ Post \/ PostStopped \/ GiveUp \/ PauseEnds PROVE IInv'
  OBVIOUS
<1>t. text = replies
  BY DEF IInv, Texts
<1>1. CASE abort /\ (BeginAttempt \/ PauseEnds)
  <2>1. EndWithout("aborted_by_user") /\ UNCHANGED keptVars /\ abort' = abort /\ call' = call
    BY <1>1 DEF BeginAttempt, PauseEnds
  <2> QED BY <2>1, EndWithoutKeeps
<1>2. CASE ~ abort /\ (BeginAttempt \/ PauseEnds)
  <2>1. outcome' = outcome /\ pc' = "post" /\ pc # "settled" /\ UNCHANGED keptVars
        /\ abort' = abort /\ call' = call
    BY <1>2 DEF BeginAttempt, PauseEnds
  <2> QED BY <2>1, <1>t, GoingOn DEF keptVars
<1>3. CASE Post
  BY <1>3, <1>t, GoingOn DEF Post, keptVars
<1>4. CASE PostStopped \/ GiveUp
  <2>1. EndWithout("aborted_by_user") /\ UNCHANGED keptVars /\ abort' = abort /\ call' = call
    BY <1>4 DEF PostStopped, GiveUp
  <2> QED BY <2>1, EndWithoutKeeps
<1> QED BY <1>1, <1>2, <1>3, <1>4

LEMMA CollectKeeps == IInv /\ Collect => IInv'
<1> SUFFICES ASSUME IInv, Collect PROVE IInv'
  OBVIOUS
<1>k. UNCHANGED keptVars /\ abort' = abort /\ call' = NoCall /\ pc = "wait"
  BY DEF Collect
<1>t. text = replies /\ text' = replies'
  BY <1>k DEF IInv, Texts, keptVars
<1>1. CASE pc' = "pause" /\ UNCHANGED outcome
  BY <1>1, <1>k, <1>t, GoingOn DEF keptVars
<1>2. CASE EndWithout("aborted_by_user") \/ EndWithout("network_failure")
  BY <1>2, <1>k, EndWithoutKeeps
<1>3. CASE End("halt", "network_failure", sent, text, << >>, 0)
  <2>1. End("halt", "network_failure", sent, replies', << >>, 0)
    BY <1>3, <1>k, <1>t DEF keptVars
  <2> QED BY <2>1, <1>k, <1>t, Ending
<1>4. CASE End("crash", "none", << >>, 0, << >>, 0)
  BY <1>4, <1>k, <1>t, Ending
<1> QED BY <1>1, <1>2, <1>3, <1>4 DEF Collect

LEMMA ReadKeeps == IInv /\ Read => IInv'
<1> SUFFICES ASSUME IInv, Read PROVE IInv'
  OBVIOUS
<1>k. abort' = abort /\ call' = NoCall /\ pc = "wait" /\ replies' = replies + 1 /\ text' = replies'
  BY DEF Read
<1>1. CASE Unusable(call.answer)
  <2>1. CASE End("crash", "none", << >>, 0, << >>, 0)
    BY <2>1, <1>k, Ending
  <2>2. CASE \E status : End("reply", status, sent, replies', << >>, 0)
    BY <2>2, <1>k, Ending
  <2> QED BY <1>1, <1>k, <2>1, <2>2 DEF Unusable
<1>2. CASE JudgeAnswer(call.answer)
  <2>1. kept_from' = replies'
    BY <1>2, <1>k DEF JudgeAnswer, Kept
  <2>2. CASE pc' = "attempt" /\ UNCHANGED outcome
    BY <2>2, <1>k, GoingOn
  <2>3. CASE \E status, rows : End("reply", status, sent, replies', rows, replies')
    BY <2>3, <1>k, Ending
  <2> QED BY <1>2, <1>k, <2>1, <2>2, <2>3 DEF JudgeAnswer
<1> QED BY <1>1, <1>2 DEF Read

LEMMA SurroundingsKeep == IInv /\ (HttpThread \/ Stop) => IInv'
<1> SUFFICES ASSUME IInv, HttpThread \/ Stop PROVE IInv'
  OBVIOUS
<1>t. text = replies /\ (pc = "encode" => replies = 0)
  BY DEF IInv, Texts
<1>1. ASSUME NEW trouble, CallFails(trouble) PROVE IInv'
  BY <1>1, <1>t, GoingOn DEF CallFails, keptVars
<1>2. ASSUME NEW answer, CallAnswered(answer) PROVE IInv'
  BY <1>2, <1>t, GoingOn DEF CallAnswered, keptVars
<1>3. CASE Stop
  BY <1>3, <1>t, GoingOn DEF Stop, keptVars
<1> QED BY <1>1, <1>2, <1>3 DEF HttpThread

LEMMA StutterKeeps == IInv /\ UNCHANGED vars => IInv'
  BY DEF IInv, Phase, Texts, LastReplyIsKept, vars, keptVars

\* The strengthening is an invariant.
THEOREM Invariance == Spec => []IInv
<1>1. IInv /\ [Next]_vars => IInv'
  BY EncodingKeeps, SendingKeeps, CollectKeeps, ReadKeeps, SurroundingsKeep, StutterKeeps
  DEF Next, Worker
<1> QED BY InitIInv, <1>1, PTL DEF Spec

\* However a request ends, the text recorded is that of the last reply read and the rows beside
\* it came from that reply (_process_request: text, kept_rows).
THEOREM LastReply == Spec => []LastReplyIsKept
<1>1. IInv => LastReplyIsKept
  BY DEF IInv
<1> QED BY Invariance, <1>1, PTL

-----------------------------------------------------------------------------
(* One request keeps the contract of RequestContract *)

Seen(end) == [ending |-> end.ending, status |-> end.status, flawed |-> Warned(end.rows)]

\* What an end of the request looks like from outside.
Good(ending, status, rows) ==
  [ending |-> ending, status |-> status, flawed |-> Warned(rows)] \in Contract!Ends

LEMMA NoRows == Warned(<< >>) = FALSE
  BY DEF Warned

LEMMA GoodWithoutRows ==
  \A status \in {"aborted_by_user", "encoding_failure", "network_failure", "token_limit_exceeded",
                 "provider_reply_parse_error"} : Good("reply", status, << >>)
  BY NoRows DEF Good, Contract!Ends, Contract!ReplyEnd, Contract!RequestStatuses,
     Contract!UnfinishedStatuses

LEMMA GoodEnds ==
  /\ Good("halt", "network_failure", << >>) /\ Good("crash", "none", << >>)
  /\ \A rows : Good("reply", "ok", rows) /\ Good("reply", "invalid_json_answer", rows)
<1>1. Good("halt", "network_failure", << >>) /\ Good("crash", "none", << >>)
  BY NoRows DEF Good, Contract!Ends, Contract!HaltEnd, Contract!CrashEnd
<1>2. ASSUME NEW rows PROVE Good("reply", "ok", rows) /\ Good("reply", "invalid_json_answer", rows)
  <2>1. Warned(rows) \in BOOLEAN
    BY DEF Warned
  <2> QED BY <2>1 DEF Good, Contract!Ends, Contract!ReplyEnd, Contract!RequestStatuses,
             Contract!UnfinishedStatuses
<1> QED BY <1>1, <1>2

\* An action that ends the request takes a step of the contract.
LEMMA EndSettles ==
  ASSUME outcome = {}, NEW ending, NEW status, NEW pages, NEW textOf, NEW rows, NEW rowsFrom,
         End(ending, status, pages, textOf, rows, rowsFrom), Good(ending, status, rows),
         status = "aborted_by_user" => abort, abort' = abort
  PROVE  Contract!ContractNext
<1> DEFINE end == [ending |-> ending, status |-> status, flawed |-> Warned(rows)]
<1>1. {Seen(e) : e \in outcome} = {}
  OBVIOUS
<1>2. {Seen(e) : e \in outcome'} = {end}
  BY DEF End, Seen
<1>3. Contract!Settle(end)
  BY <1>1, <1>2 DEF Contract!Settle, Seen
<1> QED BY <1>3 DEF Contract!ContractNext, Good

LEMMA QuietStep ==
  ASSUME outcome' = outcome, abort' = abort
  PROVE  UNCHANGED Contract!contractVars
  BY DEF Contract!contractVars

LEMMA StopStep == Stop => Contract!ContractNext
  BY DEF Stop, Contract!ContractNext, Contract!PressStop

LEMMA EncodingStep ==
  ASSUME IInv, EncodeStopped \/ EncodeFrame \/ BeginLadder
  PROVE  Contract!ContractNext \/ UNCHANGED Contract!contractVars
<1>p. pc = "encode" /\ outcome = {}
  BY DEF IInv, Phase, EncodeStopped, EncodeFrame, BeginLadder
<1>1. CASE EncodeStopped
  BY <1>1, <1>p, EndSettles, GoodWithoutRows DEF EncodeStopped
<1>2. CASE EncodeFrame
  BY <1>2, QuietStep DEF EncodeFrame
<1>3. CASE BeginLadder
  BY <1>3, <1>p, EndSettles, GoodWithoutRows, QuietStep DEF BeginLadder
<1> QED BY <1>1, <1>2, <1>3

LEMMA SendingStep ==
  ASSUME IInv, BeginAttempt \/ Post \/ PostStopped \/ GiveUp \/ PauseEnds
  PROVE  Contract!ContractNext \/ UNCHANGED Contract!contractVars
<1>p. outcome = {} /\ abort' = abort
  BY DEF IInv, Phase, BeginAttempt, Post, PostStopped, GiveUp, PauseEnds
<1>1. CASE outcome' = outcome
  BY <1>1, <1>p, QuietStep
<1>2. CASE abort /\ EndWithout("aborted_by_user")
  BY <1>2, <1>p, EndSettles, GoodWithoutRows DEF EndWithout
<1> QED BY <1>1, <1>2 DEF BeginAttempt, Post, PostStopped, GiveUp, PauseEnds

LEMMA CollectStep ==
  ASSUME IInv, Collect
  PROVE  Contract!ContractNext \/ UNCHANGED Contract!contractVars
<1>p. outcome = {} /\ abort' = abort
  BY DEF IInv, Phase, Collect
<1>1. CASE outcome' = outcome
  BY <1>1, <1>p, QuietStep
<1>2. CASE call.trouble = "aborted" /\ EndWithout("aborted_by_user")
  <2>1. abort
    BY <1>2 DEF Collect, IInv, Phase
  <2> QED BY <1>2, <2>1, <1>p, EndSettles, GoodWithoutRows DEF EndWithout
<1>3. CASE EndWithout("network_failure")
  BY <1>3, <1>p, EndSettles, GoodWithoutRows DEF EndWithout
<1>4. CASE End("halt", "network_failure", sent, text, << >>, 0)
  BY <1>4, <1>p, EndSettles, GoodEnds
<1>5. CASE End("crash", "none", << >>, 0, << >>, 0)
  BY <1>5, <1>p, EndSettles, GoodEnds
<1> QED BY <1>1, <1>2, <1>3, <1>4, <1>5 DEF Collect

LEMMA ReadStep ==
  ASSUME IInv, Read
  PROVE  Contract!ContractNext \/ UNCHANGED Contract!contractVars
<1>p. outcome = {} /\ abort' = abort
  BY DEF IInv, Phase, Read
<1>1. CASE outcome' = outcome
  BY <1>1, <1>p, QuietStep
<1>2. CASE End("crash", "none", << >>, 0, << >>, 0)
  BY <1>2, <1>p, EndSettles, GoodEnds
<1>3. CASE \E status \in {"token_limit_exceeded", "provider_reply_parse_error"} :
             End("reply", status, sent, replies + 1, << >>, 0)
  BY <1>3, <1>p, EndSettles, GoodWithoutRows
<1>4. CASE \E rows : \E status \in {"ok", "invalid_json_answer"} :
             End("reply", status, sent, replies + 1, rows, replies + 1)
  BY <1>4, <1>p, EndSettles, GoodEnds
<1>5. CASE Unusable(call.answer)
  BY <1>5, <1>2, <1>3 DEF Unusable
<1>6. CASE JudgeAnswer(call.answer)
  <2>1. kept_from' = replies + 1
    BY <1>6 DEF JudgeAnswer, Kept
  <2> QED BY <1>6, <2>1, <1>1, <1>4 DEF JudgeAnswer
<1> QED BY <1>5, <1>6 DEF Read

LEMMA SurroundingsStep ==
  ASSUME HttpThread \/ Stop \/ UNCHANGED vars
  PROVE  Contract!ContractNext \/ UNCHANGED Contract!contractVars
<1>1. CASE HttpThread
  BY <1>1, QuietStep DEF HttpThread, CallFails, CallAnswered
<1>2. CASE Stop
  BY <1>2, StopStep
<1>3. CASE UNCHANGED vars
  BY <1>3, QuietStep DEF vars
<1> QED BY <1>1, <1>2, <1>3

\* A request ends once and as the batch loop expects: aborted only after Stop, halted only by
\* the provider's refusal of the client, warnings only on answers that were kept (what BatchRun
\* takes for the one step Reply, FatalReply or RequestCrashes).
THEOREM KeepsContract == Spec => ContractSpec
<1>1. Init => Contract!ContractInit
  BY DEF Init, Contract!ContractInit
<1>2. IInv /\ [Next]_vars => [Contract!ContractNext]_(Contract!contractVars)
  BY EncodingStep, SendingStep, CollectStep, ReadStep, SurroundingsStep DEF Next, Worker
<1> QED BY <1>1, <1>2, Invariance, PTL DEF Spec, ContractSpec, Contract!ContractSpec

-----------------------------------------------------------------------------
(* Types and counters *)

Images ==
  /\ frame \in 1..(Len(Frames) + 1)
  /\ sent \in Seq(Nat) /\ Len(sent) < frame
  /\ \A i \in DOMAIN sent : \E j \in 1..(frame - 1) : sent[i] = Frames[j]

\* While the request lives, each attempt but the present one has read one reply.
Counters ==
  /\ ladder \in Nat /\ 1 <= ladder /\ ladder <= JsonAttempts
  /\ retry \in Nat /\ 1 <= retry /\ retry <= Retries
  /\ replies \in Nat /\ text \in Nat /\ kept_from \in Nat
  /\ text <= replies /\ kept_from <= replies
  /\ replies <= ladder
  /\ pc # "settled" => replies < ladder
  /\ pc = "pause" => retry < Retries

Places ==
  /\ pc \in {"encode", "attempt", "post", "wait", "pause", "settled"}
  /\ call.state \in {"none", "running", "failed", "answered"}

LEMMA ImagesKept == RequestAssumption /\ Images /\ [Next]_vars => Images'
<1> SUFFICES ASSUME RequestAssumption, Images, [Next]_vars PROVE Images'
  OBVIOUS
<1>1. CASE EncodeFrame
  <2>f. frame \in Nat /\ 1 <= frame /\ frame <= Len(Frames) /\ frame' = frame + 1
        /\ Len(Frames) \in Nat /\ Frames[frame] \in Nat
    BY <1>1 DEF EncodeFrame, Images, RequestAssumption
  <2>1. (frame \in 1..(Len(Frames) + 1))'
    BY <2>f
  <2>2. CASE sent' = sent
    BY <2>1, <2>2, <2>f DEF Images
  <2>3. CASE sent' = Append(sent, Frames[frame])
    <3>1. sent' \in Seq(Nat) /\ Len(sent') = Len(sent) + 1
      BY <2>3, <2>f DEF Images
    <3>2. Len(sent') < frame'
      BY <3>1, <2>f DEF Images
    <3>3. ASSUME NEW i \in DOMAIN sent' PROVE \E j \in 1..(frame' - 1) : sent'[i] = Frames[j]
      <4>1. CASE i = Len(sent) + 1
        BY <4>1, <2>3, <2>f DEF Images
      <4>2. CASE i # Len(sent) + 1
        <5>1. i \in DOMAIN sent /\ sent'[i] = sent[i]
          BY <4>2, <2>3, <2>f, <3>1 DEF Images
        <5>2. PICK j \in 1..(frame - 1) : sent[i] = Frames[j]
          BY <5>1 DEF Images
        <5> QED BY <5>1, <5>2, <2>f
      <4> QED BY <4>1, <4>2
    <3> QED BY <2>1, <3>1, <3>2, <3>3 DEF Images
  <2> QED BY <1>1, <2>2, <2>3 DEF EncodeFrame
<1>2. CASE UNCHANGED encodeVars
  BY <1>2 DEF Images, encodeVars
<1>3. EncodeFrame \/ UNCHANGED encodeVars
  BY DEF Next, Worker, HttpThread, vars, EncodeStopped, BeginLadder, BeginAttempt, Post,
     PostStopped, GiveUp, Collect, PauseEnds, Read, CallFails, CallAnswered, Stop
<1> QED BY <1>1, <1>2, <1>3

LEMMA CountersKept == RequestAssumption /\ Counters /\ [Next]_vars => Counters'
<1> SUFFICES ASSUME RequestAssumption, Counters, [Next]_vars PROVE Counters'
  OBVIOUS
<1>a. JsonAttempts \in Nat /\ Retries \in Nat /\ 1 <= Retries
  BY DEF RequestAssumption
<1>1. CASE Read
  <2>c. pc = "wait" /\ replies' = replies + 1 /\ text' = replies + 1 /\ retry' = retry
    BY <1>1 DEF Read
  <2>1. CASE Unusable(call.answer)
    <3>1. ladder' = ladder /\ kept_from' = kept_from /\ pc' = "settled"
      BY <2>1 DEF Unusable, End
    <3> QED BY <1>a, <2>c, <3>1 DEF Counters
  <2>2. CASE JudgeAnswer(call.answer)
    <3>1. kept_from' = replies + 1
      BY <2>2 DEF JudgeAnswer, Kept
    <3>2. CASE pc' = "attempt" /\ ladder < JsonAttempts /\ ladder' = ladder + 1
      BY <1>a, <2>c, <3>1, <3>2 DEF Counters
    <3>3. CASE pc' = "settled" /\ ladder' = ladder
      BY <1>a, <2>c, <3>1, <3>3 DEF Counters
    <3> QED BY <2>2, <3>2, <3>3 DEF JudgeAnswer, AttemptLeft, End
  <2> QED BY <1>1, <2>1, <2>2 DEF Read
<1>2. CASE ~ Read
  <2>1. ladder' = ladder /\ UNCHANGED keptVars
    BY <1>2 DEF Next, Worker, HttpThread, vars, EncodeStopped, EncodeFrame, BeginLadder,
       BeginAttempt, Post, PostStopped, GiveUp, Collect, PauseEnds, CallFails, CallAnswered, Stop
  <2>2. (pc' # "settled") => (pc # "settled")
    BY <1>2 DEF Next, Worker, HttpThread, vars, EncodeStopped, EncodeFrame, BeginLadder,
       BeginAttempt, Post, PostStopped, GiveUp, Collect, PauseEnds, CallFails, CallAnswered, Stop
  <2>3. CASE PauseEnds
    <3>1. pc = "pause" /\ pc' # "pause" /\ (retry' = retry \/ retry' = retry + 1)
      BY <2>3 DEF PauseEnds, End, EndWithout, NextRetry
    <3> QED BY <1>a, <2>1, <2>2, <3>1 DEF Counters, keptVars
  <2>4. CASE Collect
    <3>1. retry' = retry /\ (pc' = "pause" => retry < Retries)
      BY <2>4 DEF Collect, End, EndWithout
    <3> QED BY <1>a, <2>1, <2>2, <3>1 DEF Counters, keptVars
  <2>5. CASE BeginAttempt
    <3>1. retry' = 1 /\ pc' # "pause"
      BY <2>5 DEF BeginAttempt, End, EndWithout
    <3> QED BY <1>a, <2>1, <2>2, <3>1 DEF Counters, keptVars
  <2>6. CASE ~ PauseEnds /\ ~ Collect /\ ~ BeginAttempt
    <3>1. retry' = retry /\ (pc' = "pause" => pc = "pause")
      BY <1>2, <2>6 DEF Next, Worker, HttpThread, vars, EncodeStopped, EncodeFrame, BeginLadder,
         Post, PostStopped, GiveUp, CallFails, CallAnswered, Stop, End, EndWithout
    <3> QED BY <1>a, <2>1, <2>2, <3>1 DEF Counters, keptVars
  <2> QED BY <2>3, <2>4, <2>5, <2>6
<1> QED BY <1>1, <1>2

LEMMA PlacesKept == Places /\ [Next]_vars => Places'
<1> SUFFICES ASSUME Places, [Next]_vars PROVE Places'
  OBVIOUS
<1>1. (pc \in {"encode", "attempt", "post", "wait", "pause", "settled"})'
  BY DEF Places, Next, Worker, HttpThread, vars, EncodeStopped, EncodeFrame, BeginLadder,
     BeginAttempt, Post, PostStopped, GiveUp, Collect, PauseEnds, Read, Unusable, JudgeAnswer,
     CallFails, CallAnswered, Stop, End, EndWithout
<1>2. call' = call \/ call' = NoCall \/ call' = Running \/ (\E trouble : call' = Failed(trouble))
      \/ (\E answer : call' = Answered(answer))
  BY DEF Next, Worker, HttpThread, vars, EncodeStopped, EncodeFrame, BeginLadder,
     BeginAttempt, Post, PostStopped, GiveUp, Collect, PauseEnds, Read, CallFails, CallAnswered,
     Stop
<1>3. (call.state \in {"none", "running", "failed", "answered"})'
  <2>1. CASE call' = call
    BY <2>1 DEF Places
  <2>2. CASE call' = NoCall \/ call' = Running
    BY <2>2, CallStates
  <2>3. CASE (\E trouble : call' = Failed(trouble)) \/ (\E answer : call' = Answered(answer))
    BY <2>3, CallStates
  <2> QED BY <1>2, <2>1, <2>2, <2>3
<1> QED BY <1>1, <1>3 DEF Places

\* The type invariant holds, and no request reads more replies than LLM_JSON_MAX_ATTEMPTS.
THEOREM TypeCorrect == Spec => []TypeOK
<1>1. Init => Images /\ Counters /\ Places
  <2> SUFFICES ASSUME Init PROVE Images /\ Counters /\ Places
    OBVIOUS
  <2>1. Len(Frames) \in Nat /\ JsonAttempts \in Nat /\ 1 <= JsonAttempts
        /\ Retries \in Nat /\ 1 <= Retries
    BY RequestAssumption DEF RequestAssumption
  <2>2. Images
    BY <2>1 DEF Init, Images
  <2>3. Counters
    BY <2>1 DEF Init, Counters
  <2>4. Places
    BY DEF Init, Places, NoCall
  <2> QED BY <2>2, <2>3, <2>4
<1>2. Images /\ Counters /\ Places /\ [Next]_vars => (Images /\ Counters /\ Places)'
  BY RequestAssumption, ImagesKept, CountersKept, PlacesKept
<1>3. IInv /\ Images /\ Counters /\ Places => TypeOK
  BY DEF IInv, Phase, Images, Counters, Places, TypeOK
<1> QED BY <1>1, <1>2, <1>3, Invariance, PTL DEF Spec

-----------------------------------------------------------------------------
(* Calls to the provider *)

\* Whenever the worker may still come to a call, what it last heard warrants one.
Warranted ==
  pc \in {"encode", "attempt", "post", "pause"} => reason \in {"none", "network", "misjudged"}

LEMMA WarrantedKept == Warranted /\ [Next]_vars => Warranted'
<1> SUFFICES ASSUME Warranted, [Next]_vars PROVE Warranted'
  OBVIOUS
<1>1. CASE Collect
  BY <1>1 DEF Warranted, Collect, RetriedTrouble, End, EndWithout
<1>2. CASE Read
  <2>1. CASE Unusable(call.answer)
    BY <2>1 DEF Warranted, Unusable, End
  <2>2. CASE JudgeAnswer(call.answer)
    BY <2>2 DEF Warranted, JudgeAnswer, End
  <2> QED BY <1>2, <2>1, <2>2 DEF Read
<1>3. CASE ~ Collect /\ ~ Read
  <2>1. reason' = reason
    BY <1>3 DEF Next, Worker, HttpThread, vars, EncodeStopped, EncodeFrame, BeginLadder,
       BeginAttempt, Post, PostStopped, GiveUp, PauseEnds, CallFails, CallAnswered, Stop, End,
       EndWithout
  <2>2. pc' \in {"encode", "attempt", "post", "pause"} => pc \in {"encode", "attempt", "post", "pause"}
    BY <1>3 DEF Next, Worker, HttpThread, vars, EncodeStopped, EncodeFrame, BeginLadder,
       BeginAttempt, Post, PostStopped, GiveUp, PauseEnds, CallFails, CallAnswered, Stop, End,
       EndWithout
  <2> QED BY <2>1, <2>2 DEF Warranted
<1> QED BY <1>1, <1>2, <1>3

LEMMA OnlyPostCalls ==
  Warranted /\ [Next]_vars =>
    [call # Running /\ call' = Running => reason \in {"none", "network", "misjudged"}]_vars
<1> SUFFICES ASSUME Warranted, [Next]_vars, call # Running, call' = Running
             PROVE  reason \in {"none", "network", "misjudged"}
  OBVIOUS
<1>1. NoCall # Running /\ \A x : Failed(x) # Running /\ Answered(x) # Running
  BY CallStates
<1>2. Post
  BY <1>1 DEF Next, Worker, HttpThread, vars, EncodeStopped, EncodeFrame, BeginLadder,
     BeginAttempt, PostStopped, GiveUp, Collect, PauseEnds, Read, CallFails, CallAnswered, Stop
<1> QED BY <1>2 DEF Post, Warranted

\* The provider is called again only after trouble that may pass or an answer it was asked to
\* correct (_send_request_with_retries, _process_request).
THEOREM PostsAreWarranted == Spec => EveryPostIsWarranted
<1>1. Init => Warranted
  BY DEF Init, Warranted
<1> QED BY <1>1, WarrantedKept, OnlyPostCalls, PTL DEF Spec, EveryPostIsWarranted

-----------------------------------------------------------------------------
(* Every page that was sent is accounted for *)

Answering(judged, page) ==
  {i \in DOMAIN judged : judged[i].page = page /\ judged[i].warning \in {"", "no_row_returned"}}

\* The pages no row claims, as positions in what was sent.
Left(rows, pages) ==
  {p \in DOMAIN pages : \A i \in DOMAIN rows : rows[i].claim # pages[p]}

LEMMA MissingPages ==
  ASSUME NEW rows, NEW pages \in Seq(Nat)
  PROVE  /\ IsFiniteSet(Left(rows, pages)) /\ Left(rows, pages) \in SUBSET Int
         /\ Cardinality(Left(rows, pages)) \in Nat
         /\ Unanswered(rows, pages) =
              [k \in 1 .. Cardinality(Left(rows, pages)) |-> pages[InOrder(Left(rows, pages))[k]]]
<1>1. Left(rows, pages) \subseteq 1 .. Len(pages)
  BY DEF Left
<1>2. IsFiniteSet(Left(rows, pages)) /\ Left(rows, pages) \in SUBSET Int
  BY <1>1, FS_Interval, FS_Subset
<1>3. Cardinality(Left(rows, pages)) \in Nat
  BY <1>2, FS_CardinalityType
<1>4. DOMAIN InOrder(Left(rows, pages)) = 1 .. Cardinality(Left(rows, pages))
  BY DEF InOrder
<1>5. Unanswered(rows, pages) =
        [k \in DOMAIN InOrder(Left(rows, pages)) |-> pages[InOrder(Left(rows, pages))[k]]]
  BY DEF Unanswered, Left
<1> QED BY <1>2, <1>3, <1>4, <1>5

\* Two sequences put together are found place by place.
LEMMA PlacesOfConcat ==
  ASSUME NEW T, NEW f \in Seq(T), NEW g \in Seq(T)
  PROVE  /\ DOMAIN (f \o g) = 1 .. Len(f) + Len(g)
         /\ Len(f \o g) = Len(f) + Len(g)
         /\ \A i \in 1 .. Len(f) : (f \o g)[i] = f[i]
         /\ \A k \in 1 .. Len(g) : (f \o g)[Len(f) + k] = g[k]
<1>1. Len(f) \in Nat /\ Len(g) \in Nat
  OBVIOUS
<1>2. \A k \in 1 .. Len(g) : Len(f) + k > Len(f) /\ Len(f) + k - Len(f) = k
        /\ Len(f) + k <= Len(f) + Len(g) /\ Len(f) + k \in Nat
  BY <1>1
<1>3. f \o g \in Seq(T) /\ Len(f \o g) = Len(f) + Len(g)
  OBVIOUS
<1>4. DOMAIN (f \o g) = 1 .. Len(f) + Len(g)
  BY <1>3
<1>5. \A i \in 1 .. Len(f) : (f \o g)[i] = f[i]
  OBVIOUS
<1>6. ASSUME NEW k \in 1 .. Len(g) PROVE (f \o g)[Len(f) + k] = g[k]
  BY <1>1, <1>2
<1> QED BY <1>3, <1>4, <1>5, <1>6, Zenon

\* What PageRows returns, place by place.
LEMMA PlacesOfRows ==
  ASSUME NEW rows \in Seq(RowClaims), NEW pages \in Seq(Nat),
         NEW left, left = Left(rows, pages), NEW out, out = PageRows(rows, pages).rows
  PROVE  /\ DOMAIN out = 1 .. Len(rows) + Cardinality(left)
         /\ Len(out) = Len(rows) + Cardinality(left)
         /\ \A i \in 1 .. Len(rows) : out[i] = JudgedRow(rows, i, pages)
         /\ \A k \in 1 .. Cardinality(left) :
              out[Len(rows) + k] = AnswerRow(pages[InOrder(left)[k]], "no_row_returned")
<1> DEFINE c == Cardinality(left)
           n == Len(rows)
           missing == Unanswered(rows, pages)
           judged == [i \in DOMAIN rows |-> JudgedRow(rows, i, pages)]
           noted == [i \in DOMAIN missing |-> AnswerRow(missing[i], "no_row_returned")]
           T == {judged[i] : i \in 1 .. n} \cup {noted[k] : k \in 1 .. c}
<1>1. /\ c \in Nat
      /\ missing = [k \in 1 .. c |-> pages[InOrder(left)[k]]]
  BY MissingPages
<1>2. out = judged \o noted
  BY DEF PageRows
<1>3. n \in Nat /\ DOMAIN rows = 1 .. n
  OBVIOUS
<1>4. /\ judged \in Seq(T) /\ Len(judged) = n
      /\ \A i \in 1 .. n : judged[i] = JudgedRow(rows, i, pages)
  BY <1>3
<1>5. /\ noted \in Seq(T) /\ Len(noted) = c
      /\ \A k \in 1 .. c : noted[k] = AnswerRow(pages[InOrder(left)[k]], "no_row_returned")
  <2>1. DOMAIN noted = 1 .. c /\ \A k \in 1 .. c : noted[k] \in T
    BY <1>1
  <2>2. \A k \in 1 .. c : noted[k] = AnswerRow(missing[k], "no_row_returned")
    BY <1>1
  <2>3. noted \in [1 .. c -> T]
    BY <2>1
  <2> HIDE DEF T, noted, c
  <2> QED BY <1>1, <2>2, <2>3
<1> HIDE DEF judged, noted, missing, c, n, T
<1>6. /\ DOMAIN out = 1 .. n + c /\ Len(out) = n + c
      /\ \A i \in 1 .. n : out[i] = judged[i]
      /\ \A k \in 1 .. c : out[n + k] = noted[k]
  <2>1. /\ DOMAIN out = 1 .. Len(judged) + Len(noted) /\ Len(out) = Len(judged) + Len(noted)
        /\ \A i \in 1 .. Len(judged) : out[i] = judged[i]
        /\ \A k \in 1 .. Len(noted) : out[Len(judged) + k] = noted[k]
    <3>1. judged \in Seq(T) /\ noted \in Seq(T)
      BY <1>4, <1>5
    <3>2. PICK f \in Seq(T) : f = judged
      BY <3>1
    <3>3. PICK g \in Seq(T) : g = noted
      BY <3>1
    <3>4. /\ DOMAIN (f \o g) = 1 .. Len(f) + Len(g) /\ Len(f \o g) = Len(f) + Len(g)
          /\ \A i \in 1 .. Len(f) : (f \o g)[i] = f[i]
          /\ \A k \in 1 .. Len(g) : (f \o g)[Len(f) + k] = g[k]
      BY PlacesOfConcat
    <3> QED BY <1>2, <3>2, <3>3, <3>4, Zenon
  <2> QED BY <1>4, <1>5, <2>1, Zenon
<1>7. /\ DOMAIN out = 1 .. n + c /\ Len(out) = n + c
      /\ \A i \in 1 .. n : out[i] = JudgedRow(rows, i, pages)
      /\ \A k \in 1 .. c : out[n + k] = AnswerRow(pages[InOrder(left)[k]], "no_row_returned")
  BY <1>4, <1>5, <1>6, Zenon
<1> QED BY <1>7 DEF n, c

LEMMA JudgedRows ==
  ASSUME NEW rows \in Seq(RowClaims), NEW pages \in Seq(Nat \ {NoClaim}), NEW i \in DOMAIN rows
  PROVE  /\ JudgedRow(rows, i, pages).page \in {rows[i].claim, NoClaim}
         /\ JudgedRow(rows, i, pages).warning # "no_row_returned"
         /\ \A p \in DOMAIN pages :
              JudgedRow(rows, i, pages).page = pages[p] /\ JudgedRow(rows, i, pages).warning = ""
                <=> rows[i].claim = pages[p] /\ ~ ClaimedBefore(rows, i)
         /\ JudgedRow(rows, i, pages).warning # "" <=>
              ~ Genuine(rows[i], pages) \/ ClaimedBefore(rows, i)
<1>1. \A p \in DOMAIN pages : pages[p] # NoClaim
  OBVIOUS
<1> QED BY <1>1 DEF JudgedRow, AnswerRow, Genuine

\* A page some row claims is answered by the first of these rows, any other by its note.
LEMMA OnePerPage ==
  ASSUME NEW rows \in Seq(RowClaims), NEW pages \in Seq(Nat \ {NoClaim}),
         \A i, j \in DOMAIN pages : pages[i] = pages[j] => i = j,
         NEW p \in DOMAIN pages
  PROVE  Cardinality(Answering(PageRows(rows, pages).rows, pages[p])) = 1
<1> DEFINE left == Left(rows, pages)
           c == Cardinality(left)
           out == PageRows(rows, pages).rows
           n == Len(rows)
<1>0. pages \in Seq(Nat) /\ n \in Nat /\ c \in Nat /\ IsFiniteSet(left) /\ left \in SUBSET Int
  BY MissingPages
<1>1. /\ DOMAIN out = 1 .. n + c
      /\ \A i \in 1 .. n : out[i] = JudgedRow(rows, i, pages)
      /\ \A k \in 1 .. c : out[n + k] = AnswerRow(pages[InOrder(left)[k]], "no_row_returned")
  <2>1. left = Left(rows, pages) /\ out = PageRows(rows, pages).rows
    OBVIOUS
  <2>2. /\ DOMAIN out = 1 .. Len(rows) + Cardinality(left)
        /\ \A i \in 1 .. Len(rows) : out[i] = JudgedRow(rows, i, pages)
        /\ \A k \in 1 .. Cardinality(left) :
             out[Len(rows) + k] = AnswerRow(pages[InOrder(left)[k]], "no_row_returned")
    <3> HIDE DEF left, out
    <3> QED BY <1>0, <2>1, PlacesOfRows, SMTT(40)
  <2> QED BY <2>2
<1>2. /\ \A k \in 1 .. c : InOrder(left)[k] \in left
      /\ \A k, l \in 1 .. c : InOrder(left)[k] = InOrder(left)[l] => k = l
      /\ \A q \in left : \E k \in 1 .. c : InOrder(left)[k] = q
  <2>1. InOrder(left) \in [1 .. c -> left] /\ (\A q \in left : \E k \in 1 .. c : InOrder(left)[k] = q)
    BY <1>0, InOrderSorts
  <2>2. \A k, l \in 1 .. c : k < l => InOrder(left)[k] < InOrder(left)[l]
    BY <1>0, InOrderSorts
  <2>3. \A k \in 1 .. c : InOrder(left)[k] \in left /\ InOrder(left)[k] \in Int
    BY <2>1, <1>0
  <2>4. ASSUME NEW k \in 1 .. c, NEW l \in 1 .. c, InOrder(left)[k] = InOrder(left)[l]
        PROVE  k = l
    <3>1. ~ (InOrder(left)[k] < InOrder(left)[l]) /\ ~ (InOrder(left)[l] < InOrder(left)[k])
      BY <2>3, <2>4
    <3>2. ~ (k < l) /\ ~ (l < k)
      BY <2>2, <3>1
    <3> HIDE DEF left, c
    <3> QED BY <3>2, <1>0
  <2> QED BY <2>1, <2>3, <2>4
<1>3. \A i \in 1 .. n + c : i \in 1 .. n \/ \E k \in 1 .. c : i = n + k
  <2> HIDE DEF c, n
  <2> SUFFICES ASSUME NEW i \in 1 .. n + c, i \notin 1 .. n PROVE \E k \in 1 .. c : i = n + k
    OBVIOUS
  <2>1. i - n \in 1 .. c /\ i = n + (i - n)
    BY <1>0
  <2> QED BY <2>1
<1>4. \A k \in 1 .. c : out[n + k].page = pages[p] <=> InOrder(left)[k] = p
  <2>1. \A k \in 1 .. c : InOrder(left)[k] \in DOMAIN pages
    BY <1>2 DEF Left
  <2> SUFFICES ASSUME NEW k \in 1 .. c
               PROVE  out[n + k].page = pages[p] <=> InOrder(left)[k] = p
    OBVIOUS
  <2>2. out[n + k] = AnswerRow(pages[InOrder(left)[k]], "no_row_returned") /\ InOrder(left)[k] \in DOMAIN pages
    BY <1>1, <2>1
  <2> HIDE DEF left, c, out, n
  <2>3. out[n + k].page = pages[InOrder(left)[k]]
    BY <2>2 DEF AnswerRow
  <2> QED BY <2>2, <2>3
<1>5. ASSUME NEW i \in 1 .. n, NEW k \in 1 .. c PROVE n + k # i /\ n + k \in 1 .. n + c /\ i \in 1 .. n + c
  <2> HIDE DEF left, c, out, n
  <2> QED BY <1>0
<1>5a. ASSUME NEW k \in 1 .. c PROVE n + k \in 1 .. n + c
  <2> HIDE DEF left, c, out, n
  <2> QED BY <1>0
<1>5b. ASSUME NEW i \in 1 .. n PROVE i \in 1 .. n + c
  <2> HIDE DEF left, c, out, n
  <2> QED BY <1>0
<1>6. CASE \E i \in DOMAIN rows : rows[i].claim = pages[p]
  <2> DEFINE T == {i \in 1 .. n : rows[i].claim = pages[p]}
  <2>1. T \in SUBSET Int /\ IsFiniteSet(T) /\ T # {}
    <3>1. T \subseteq 1 .. n /\ T # {}
      BY <1>6
    <3>2. IsFiniteSet(1 .. n)
      BY <1>0, FS_Interval
    <3>3. 1 .. n \subseteq Int
      BY <1>0
    <3> HIDE DEF T, n
    <3> QED BY <3>1, <3>2, <3>3, FS_Subset
  <2>2. PICK least \in T : \A j \in T : least <= j
    BY <2>1, HasLeast
  <2>3. p \notin left
    BY <1>6 DEF Left
  <2>4. ASSUME NEW i \in 1 .. n
        PROVE  i \in Answering(out, pages[p]) <=> i = least
    <3>1. i \in Answering(out, pages[p]) <=> rows[i].claim = pages[p] /\ ~ ClaimedBefore(rows, i)
      <4>1. out[i] = JudgedRow(rows, i, pages) /\ i \in DOMAIN out
        BY <1>1, <1>5b
      <4>2. /\ JudgedRow(rows, i, pages).warning # "no_row_returned"
            /\ (JudgedRow(rows, i, pages).page = pages[p] /\ JudgedRow(rows, i, pages).warning = ""
                  <=> rows[i].claim = pages[p] /\ ~ ClaimedBefore(rows, i))
        <5>1. i \in DOMAIN rows
          OBVIOUS
        <5> QED BY <5>1, JudgedRows, Zenon
      <4> HIDE DEF out
      <4> QED BY <4>1, <4>2 DEF Answering
    <3>2. rows[i].claim = pages[p] <=> i \in T
      OBVIOUS
    <3>3. i \in T => (ClaimedBefore(rows, i) <=> \E j \in T : j < i)
      <4> SUFFICES ASSUME i \in T PROVE ClaimedBefore(rows, i) <=> \E j \in T : j < i
        OBVIOUS
      <4>1. \A j : j \in 1 .. (i - 1) <=> j \in 1 .. n /\ j < i
        <5> HIDE DEF left, c, out, T
        <5> QED BY <1>0
      <4> QED BY <4>1 DEF ClaimedBefore
    <3>4. i \in T => ((\E j \in T : j < i) <=> i # least)
      <4>1. \A j \in T : j \in Int
        BY <2>1
      <4> HIDE DEF T
      <4> QED BY <4>1, <2>2
    <3>5. least \in 1 .. n /\ least \in T
      BY <2>2
    <3> HIDE DEF T, out, left, c
    <3> QED BY <3>1, <3>2, <3>3, <3>4, <3>5
  <2>5. ASSUME NEW k \in 1 .. c PROVE n + k \notin Answering(out, pages[p])
    <3>1. out[n + k].page # pages[p]
      BY <1>2, <1>4, <2>3
    <3> HIDE DEF out
    <3> QED BY <3>1 DEF Answering
  <2>6. Answering(out, pages[p]) = {least}
    <3>1. least \in 1 .. n
      BY <2>2
    <3>2. Answering(out, pages[p]) \subseteq 1 .. n + c
      BY <1>1 DEF Answering
    <3> HIDE DEF out, n, c, left, T
    <3> QED BY <3>1, <3>2, <2>4, <2>5, <1>3
  <2> QED BY <2>6, FS_Singleton
<1>7. CASE ~ \E i \in DOMAIN rows : rows[i].claim = pages[p]
  <2>1. p \in left
    BY <1>7 DEF Left
  <2>2. PICK k \in 1 .. c : InOrder(left)[k] = p
    BY <1>2, <2>1
  <2>3. ASSUME NEW i \in 1 .. n PROVE i \notin Answering(out, pages[p])
    <3>1. out[i] = JudgedRow(rows, i, pages)
      BY <1>1
    <3>2. pages[p] # NoClaim
      OBVIOUS
    <3>3. JudgedRow(rows, i, pages).page \in {rows[i].claim, NoClaim}
      <4>1. i \in DOMAIN rows
        OBVIOUS
      <4> QED BY <4>1, JudgedRows, Zenon
    <3>4. out[i].page # pages[p]
      BY <3>1, <3>2, <3>3, <1>7
    <3> HIDE DEF out
    <3> QED BY <3>4 DEF Answering
  <2>4. ASSUME NEW l \in 1 .. c
        PROVE  n + l \in Answering(out, pages[p]) <=> l = k
    <3>1. n + l \in DOMAIN out
      BY <1>1, <1>5a
    <3>2. out[n + l].page = pages[p] <=> l = k
      BY <1>2, <1>4, <2>2
    <3>3. out[n + l].warning = "no_row_returned"
      <4>1. out[n + l] = AnswerRow(pages[InOrder(left)[l]], "no_row_returned")
        BY <1>1
      <4> HIDE DEF out
      <4> QED BY <4>1 DEF AnswerRow
    <3> HIDE DEF out
    <3> QED BY <3>1, <3>2, <3>3 DEF Answering
  <2>5. Answering(out, pages[p]) = {n + k}
    <3>1. Answering(out, pages[p]) \subseteq 1 .. n + c
      BY <1>1 DEF Answering
    <3> HIDE DEF out, n, c, left
    <3> QED BY <3>1, <2>3, <2>4, <1>3
  <2> QED BY <2>5, FS_Singleton
<1> QED BY <1>6, <1>7

\* Judging keeps every row of the reply and accounts for every page that was sent, however many
\* rows and pages there are and whatever the rows claim; the model is asked again exactly when the
\* claims are not pages sent, each at most once (_judge_answer_text).
THEOREM JudgingAccounts ==
  ASSUME NEW rows \in Seq(RowClaims), NEW pages \in Seq(Nat \ {NoClaim}),
         \A i, j \in DOMAIN pages : pages[i] = pages[j] => i = j
  PROVE  AccountsForPages(rows, pages)
<1> DEFINE judged == PageRows(rows, pages)
           n == Len(rows)
           c == Cardinality(Left(rows, pages))
<1>0. pages \in Seq(Nat) /\ n \in Nat /\ DOMAIN rows = 1 .. n /\ c \in Nat
  BY MissingPages
<1>1. Len(judged.rows) = n + c /\ \A i \in 1 .. n : judged.rows[i] = JudgedRow(rows, i, pages)
  BY <1>0, PlacesOfRows
<1>2. \A i \in DOMAIN rows : judged.rows[i].page \in {rows[i].claim, NoClaim}
  <2>1. \A i \in DOMAIN rows : JudgedRow(rows, i, pages).page \in {rows[i].claim, NoClaim}
    BY JudgedRows
  <2> HIDE DEF judged
  <2> QED BY <1>0, <1>1, <2>1
<1>3. \A p \in DOMAIN pages : Cardinality(Answering(judged.rows, pages[p])) = 1
  BY OnePerPage
<1>4. Len(judged.rows) >= Len(rows)
  <2> HIDE DEF judged, c, n
  <2>1. n + c >= n
    BY <1>0
  <2> QED BY <1>1, <2>1 DEF n
<1>5. judged.problem <=> \E i \in DOMAIN rows : JudgedRow(rows, i, pages).warning # ""
  BY DEF PageRows
<1>6. \A i \in DOMAIN rows :
        JudgedRow(rows, i, pages).warning # "" <=>
          (\A p \in DOMAIN pages : rows[i].claim # pages[p]) \/ ClaimedBefore(rows, i)
  BY JudgedRows DEF Genuine
<1>7. (\E i \in DOMAIN rows : ClaimedBefore(rows, i))
        <=> \E i, j \in DOMAIN rows : i # j /\ rows[i].claim = rows[j].claim
  <2>1. \A i \in DOMAIN rows : \A j : j \in 1 .. (i - 1) <=> j \in DOMAIN rows /\ j < i
    <3> HIDE DEF n
    <3> QED BY <1>0
  <2>2. \A i, j \in DOMAIN rows : i # j <=> i < j \/ j < i
    <3> HIDE DEF n
    <3> QED BY <1>0
  <2> QED BY <2>1, <2>2 DEF ClaimedBefore
<1>8. judged.problem <=>
        \/ \E i \in DOMAIN rows : \A p \in DOMAIN pages : rows[i].claim # pages[p]
        \/ \E i, j \in DOMAIN rows : i # j /\ rows[i].claim = rows[j].claim
  <2> HIDE DEF judged
  <2> QED BY <1>5, <1>6, <1>7
<1> QED BY <1>2, <1>3, <1>4, <1>8 DEF AccountsForPages, Answering

\* No page is sent twice, and a reply is one of those the provider may give.
Exchanged ==
  /\ sent \in Seq(Nat \ {NoClaim})
  /\ \A i, j \in DOMAIN sent : sent[i] = sent[j] => i = j
  /\ call.state = "answered" => call.answer \in Answers

\* An end of the request whose status is ok accounts for the pages.
Covers(end) ==
  OutputMode = "table_per_page" /\ end.status = "ok" =>
    \A p \in DOMAIN sent : Cardinality(Answering(end.rows, sent[p])) = 1

Covered == \A end \in outcome : Covers(end)

LEMMA ExchangedKept == RequestAssumption /\ Images /\ Exchanged /\ [Next]_vars => Exchanged'
<1> SUFFICES ASSUME RequestAssumption, Images, Exchanged, [Next]_vars PROVE Exchanged'
  OBVIOUS
<1>1. (call.state = "answered" => call.answer \in Answers)'
  <2>1. call' = call \/ call' = NoCall \/ call' = Running \/ (\E trouble : call' = Failed(trouble))
        \/ (\E answer \in Answers : call' = Answered(answer))
    BY DEF Next, Worker, HttpThread, vars, EncodeStopped, EncodeFrame, BeginLadder,
       BeginAttempt, Post, PostStopped, GiveUp, Collect, PauseEnds, Read, CallFails, CallAnswered,
       Stop
  <2>2. CASE call' = call
    BY <2>2 DEF Exchanged
  <2>3. CASE call' = NoCall \/ call' = Running \/ (\E trouble : call' = Failed(trouble))
    BY <2>3, CallStates
  <2>4. CASE \E answer \in Answers : call' = Answered(answer)
    BY <2>4 DEF Answered
  <2> QED BY <2>1, <2>2, <2>3, <2>4
<1>2. CASE sent' = sent
  BY <1>1, <1>2 DEF Exchanged
<1>3. CASE EncodeFrame /\ sent' # sent
  <2>1. /\ frame \in DOMAIN Frames /\ Frames[frame] \in Nat \ {NoClaim}
        /\ sent' = Append(sent, Frames[frame])
    BY <1>3 DEF EncodeFrame, Images, RequestAssumption
  <2>2. \A i \in DOMAIN sent : sent[i] # Frames[frame]
    <3> SUFFICES ASSUME NEW i \in DOMAIN sent, sent[i] = Frames[frame] PROVE FALSE
      OBVIOUS
    <3>1. PICK j \in 1 .. (frame - 1) : sent[i] = Frames[j]
      BY DEF Images
    <3>2. j \in DOMAIN Frames /\ j # frame
      BY <2>1, <3>1 DEF RequestAssumption
    <3> QED BY <2>1, <3>1, <3>2 DEF RequestAssumption
  <2>3. sent' \in Seq(Nat \ {NoClaim}) /\ Len(sent') = Len(sent) + 1
        /\ sent'[Len(sent) + 1] = Frames[frame]
        /\ \A i \in DOMAIN sent : sent'[i] = sent[i]
    BY <2>1 DEF Exchanged
  <2>4. \A i \in DOMAIN sent' : i \in DOMAIN sent \/ i = Len(sent) + 1
    BY <2>3 DEF Exchanged
  <2>5. \A i, j \in DOMAIN sent' : sent'[i] = sent'[j] => i = j
    <3> SUFFICES ASSUME NEW i \in DOMAIN sent', NEW j \in DOMAIN sent', sent'[i] = sent'[j]
                 PROVE  i = j
      OBVIOUS
    <3>1. CASE i \in DOMAIN sent /\ j \in DOMAIN sent
      BY <3>1, <2>3 DEF Exchanged
    <3>2. CASE i = Len(sent) + 1 /\ j = Len(sent) + 1
      BY <3>2
    <3>3. CASE i \in DOMAIN sent /\ j = Len(sent) + 1
      BY <3>3, <2>2, <2>3
    <3>4. CASE i = Len(sent) + 1 /\ j \in DOMAIN sent
      BY <3>4, <2>2, <2>3
    <3> QED BY <2>4, <3>1, <3>2, <3>3, <3>4
  <2> QED BY <1>1, <2>3, <2>5 DEF Exchanged
<1>4. EncodeFrame \/ UNCHANGED sent
  BY DEF Next, Worker, HttpThread, vars, encodeVars, EncodeStopped, BeginLadder, BeginAttempt, Post,
     PostStopped, GiveUp, Collect, PauseEnds, Read, CallFails, CallAnswered, Stop
<1> QED BY <1>2, <1>3, <1>4

\* An answer that is kept without complaint accounts for the pages, in this mode.
LEMMA GoodAnswerCovers ==
  ASSUME RequestAssumption, Exchanged, NEW answer \in Answers, OutputMode = "table_per_page",
         NEW judged, judged = judge_answer_text(answer.text, OutputMode, sent), ~ judged.problem,
         NEW p \in DOMAIN sent
  PROVE  Cardinality(Answering(judged.rows, sent[p])) = 1
<1> DEFINE at == extract_json_value(answer.text, OutputMode)
           value == answer.text[at]
<1>1. Refused.problem
  BY DEF Refused
<1>2. at \in DOMAIN answer.text
  BY <1>1 DEF judge_answer_text
<1> DEFINE found == answer.text
<1>3. value.rows \in Seq(RowClaims)
  <2>1. found \in Seq(Brackets)
    BY DEF RequestAssumption
  <2> HIDE DEF at
  <2>2. value \in Brackets
    <3>1. value = found[at] /\ at \in DOMAIN found
      BY <1>2
    <3> HIDE DEF found, value
    <3> QED BY <2>1, <3>1
  <2> QED BY <2>2 DEF Brackets
<1>4. judged = PageRows(value.rows, sent)
  <2> HIDE DEF at
  <2> QED BY <1>1, <1>2 DEF judge_answer_text, at
<1>5. /\ sent \in Seq(Nat \ {NoClaim})
      /\ \A i, j \in DOMAIN sent : sent[i] = sent[j] => i = j
  BY DEF Exchanged
<1> HIDE DEF at, value
<1>6. Cardinality(Answering(PageRows(value.rows, sent).rows, sent[p])) = 1
  BY <1>3, <1>5, OnePerPage
<1> QED BY <1>4, <1>6

\* The request ends with this status and these rows.
EndsAs(status, rows) == \E end : outcome' = {end} /\ end.status = status /\ end.rows = rows

EndsOtherwise == \E status, rows : EndsAs(status, rows) /\ status # "ok"

LEMMA EndEndsAs ==
  ASSUME NEW ending, NEW status, NEW pages, NEW textOf, NEW rows, NEW rowsFrom,
         End(ending, status, pages, textOf, rows, rowsFrom)
  PROVE  EndsAs(status, rows)
<1> DEFINE end == [ending |-> ending, status |-> status, pages |-> pages, text |-> textOf,
                   rows |-> rows, from |-> rowsFrom]
<1>1. end.status = status /\ end.rows = rows
  OBVIOUS
<1>2. outcome' = {end}
  BY DEF End
<1> HIDE DEF end
<1> QED BY <1>1, <1>2 DEF EndsAs

\* Only the end of a request that JudgeAnswer brings about has the status ok.
LEMMA OtherEnds ==
  ASSUME IInv, Worker, ~ (Read /\ JudgeAnswer(call.answer))
  PROVE  outcome' = outcome \/ EndsOtherwise
<1>1. CASE EncodeStopped \/ EncodeFrame \/ BeginLadder
  BY <1>1, EndEndsAs DEF EncodeStopped, EncodeFrame, BeginLadder, EndsOtherwise
<1>2. CASE BeginAttempt \/ Post \/ PostStopped \/ GiveUp \/ PauseEnds
  BY <1>2, EndEndsAs DEF BeginAttempt, Post, PostStopped, GiveUp, PauseEnds, EndWithout,
     EndsOtherwise
<1>3. CASE Collect
  <2>1. CASE UNCHANGED outcome
    BY <2>1
  <2>2. CASE EndWithout("aborted_by_user") \/ EndWithout("network_failure")
             \/ End("halt", "network_failure", sent, text, << >>, 0)
             \/ End("crash", "none", << >>, 0, << >>, 0)
    BY <2>2, EndEndsAs DEF EndWithout, EndsOtherwise
  <2> QED BY <1>3, <2>1, <2>2 DEF Collect
<1>4. CASE Read /\ Unusable(call.answer)
  <2>1. CASE End("crash", "none", << >>, 0, << >>, 0)
    BY <2>1, EndEndsAs DEF EndsOtherwise
  <2>2. CASE \E status \in {"token_limit_exceeded", "provider_reply_parse_error"} :
               End("reply", status, sent, replies + 1, << >>, 0)
    BY <2>2, EndEndsAs DEF EndsOtherwise
  <2> QED BY <1>4, <2>1, <2>2 DEF Unusable
<1> QED BY <1>1, <1>2, <1>3, <1>4 DEF Worker, Read

LEMMA CoveredKept ==
  RequestAssumption /\ IInv /\ Exchanged /\ Covered /\ [Next]_vars => Covered'
<1> SUFFICES ASSUME RequestAssumption, IInv, Exchanged, Covered, [Next]_vars PROVE Covered'
  OBVIOUS
<1>1. CASE outcome' = outcome
  <2>1. EncodeFrame \/ sent' = sent
    BY DEF Next, Worker, HttpThread, vars, encodeVars, EncodeStopped, BeginLadder, BeginAttempt, Post,
       PostStopped, GiveUp, Collect, PauseEnds, Read, CallFails, CallAnswered, Stop
  <2>2. CASE EncodeFrame
    BY <1>1, <2>2 DEF EncodeFrame, IInv, Phase, Covered
  <2>3. CASE sent' = sent
    BY <1>1, <2>3 DEF Covered, Covers
  <2> QED BY <2>1, <2>2, <2>3
<1>2. CASE EndsOtherwise
  BY <1>2 DEF EndsOtherwise, EndsAs, Covered, Covers
<1>3. CASE Read /\ JudgeAnswer(call.answer)
  <2> DEFINE judged == judge_answer_text(call.answer.text, OutputMode, sent)
  <2>1. call.answer \in Answers /\ sent' = sent
    BY <1>3 DEF Read, Exchanged, encodeVars
  <2>2. CASE ~ judged.problem
    <3>1. End("reply", "ok", sent, replies + 1, judged.rows, replies + 1)
      BY <1>3, <2>2 DEF JudgeAnswer
    <3>2. OutputMode = "table_per_page" =>
            \A p \in DOMAIN sent : Cardinality(Answering(judged.rows, sent[p])) = 1
      BY <2>1, <2>2, GoodAnswerCovers
    <3> HIDE DEF judged
    <3>3. EndsAs("ok", judged.rows)
      BY <3>1, EndEndsAs
    <3> QED BY <2>1, <3>2, <3>3 DEF EndsAs, Covered, Covers
  <2>3. CASE judged.problem
    <3>1. outcome' = outcome
          \/ \E rows, rowsFrom : End("reply", "invalid_json_answer", sent, replies + 1, rows, rowsFrom)
      BY <1>3, <2>3 DEF JudgeAnswer
    <3>2. outcome' = outcome \/ EndsOtherwise
      BY <3>1, EndEndsAs DEF EndsOtherwise
    <3> QED BY <3>2, <1>1, <1>2
  <2> QED BY <2>2, <2>3
<1>4. CASE Worker /\ ~ (Read /\ JudgeAnswer(call.answer))
  BY <1>1, <1>2, <1>4, OtherEnds
<1>5. CASE HttpThread \/ Stop \/ UNCHANGED vars
  BY <1>1, <1>5 DEF HttpThread, CallFails, CallAnswered, Stop, vars
<1> QED BY <1>3, <1>4, <1>5 DEF Next

\* A request that ended well, however many attempts it took, has exactly one row for every page
\* whose image was sent, whatever the reply says of how many pages (_judge_answer_text).
THEOREM OkCovers == Spec => []OkCoversSentPages
<1>1. Init => Images /\ Exchanged /\ Covered
  <2> SUFFICES ASSUME Init PROVE Images /\ Exchanged /\ Covered
    OBVIOUS
  <2>1. Len(Frames) \in Nat
    BY RequestAssumption DEF RequestAssumption
  <2>2. Images
    BY <2>1 DEF Init, Images
  <2>3. Exchanged
    <3>1. call.state = "none" /\ sent = << >>
      BY CallStates DEF Init
    <3>2. sent \in Seq(Nat \ {NoClaim}) /\ DOMAIN sent = {}
      BY <3>1
    <3> QED BY <3>1, <3>2 DEF Exchanged
  <2>4. Covered
    BY DEF Init, Covered
  <2> QED BY <2>2, <2>3, <2>4
<1>2. IInv /\ Images /\ Exchanged /\ Covered /\ [Next]_vars => (Images /\ Exchanged /\ Covered)'
  BY RequestAssumption, ImagesKept, ExchangedKept, CoveredKept
<1>3. Covered => OkCoversSentPages
  BY DEF Covered, Covers, OkCoversSentPages, Answering
<1> QED BY <1>1, <1>2, <1>3, Invariance, PTL DEF Spec

-----------------------------------------------------------------------------
(* The search for the JSON in a reply: until it is over it has passed the   *)
(* outermost brackets before its place and no others, each counted once,    *)
(* none of them what it looks for.                                          *)

\* The least element is the one below all others.
LEMMA LeastIs ==
  ASSUME NEW S \in SUBSET Int, NEW m \in S, \A x \in S : m <= x
  PROVE  Least(S) = m
<1>1. \E l \in S : \A other \in S : l <= other
  OBVIOUS
<1>2. Least(S) \in S /\ \A other \in S : Least(S) <= other
  BY <1>1, Zenon DEF Least
<1>3. Least(S) <= m /\ m <= Least(S)
  BY <1>2
<1>4. Least(S) \in Int /\ m \in Int
  BY <1>2
<1> QED BY <1>3, <1>4

\* The outermost brackets before a place.
Passed(reply, n) == {i \in Outermost(reply) : i < n}
Hit(reply, mode, i) == reply[i].kind = ExpectedKind(mode)
Deep(reply, i) == reply[i].kind = "deep"
Value(reply, i) == reply[i].kind \in Values

\* The outermost brackets are places of the text, finitely many.
LEMMA OutermostFinite ==
  ASSUME NEW reply \in Seq(Brackets)
  PROVE  /\ Outermost(reply) \in SUBSET Int /\ Outermost(reply) \subseteq 1 .. Len(reply)
         /\ IsFiniteSet(Outermost(reply)) /\ Cardinality(Outermost(reply)) \in Nat
<1>1. Len(reply) \in Nat /\ DOMAIN reply = 1 .. Len(reply)
  OBVIOUS
<1>2. Outermost(reply) \subseteq 1 .. Len(reply)
  BY <1>1 DEF Outermost
<1>3. IsFiniteSet(1 .. Len(reply))
  BY <1>1, FS_Interval
<1>4. IsFiniteSet(Outermost(reply))
  BY <1>2, <1>3, FS_Subset
<1>5. Outermost(reply) \in SUBSET Int
  BY <1>2
<1> QED BY <1>2, <1>4, <1>5, FS_CardinalityType

\* So are those before a place.
LEMMA PassedFinite ==
  ASSUME NEW reply \in Seq(Brackets), NEW n \in Int
  PROVE  IsFiniteSet(Passed(reply, n)) /\ Cardinality(Passed(reply, n)) \in Nat
<1>1. IsFiniteSet(Outermost(reply))
  BY OutermostFinite
<1>2. Passed(reply, n) \in SUBSET Outermost(reply)
  BY DEF Passed
<1> QED BY <1>1, <1>2, FS_Subset, FS_CardinalityType

\* Without an outermost value of the expected kind, the first outermost value is the one to take.
LEMMA NothingExpected ==
  ASSUME NEW reply \in Seq(Brackets), NEW mode, NEW first,
         \A i \in Outermost(reply) : ~ Hit(reply, mode, i) /\ ~ Deep(reply, i),
         Cardinality(Outermost(reply)) <= MaxOpenersTried,
         \/ first = 0 /\ \A i \in Outermost(reply) : ~ Value(reply, i)
         \/ first \in Outermost(reply) /\ Value(reply, first)
            /\ \A i \in Outermost(reply) : Value(reply, i) => first <= i
  PROVE  ValueToTake(reply, mode) = first
<1> DEFINE hits == {i \in Outermost(reply) : reply[i].kind = ExpectedKind(mode)}
           before == {i \in Outermost(reply) : hits # {} => i < Least(hits)}
           tries == Cardinality(before) + (IF hits # {} THEN 1 ELSE 0)
           others == {i \in before : reply[i].kind \in Values}
<1>1. ValueToTake(reply, mode) =
        IF tries > MaxOpenersTried \/ \E i \in before : reply[i].kind = "deep" THEN 0
        ELSE IF hits # {} THEN Least(hits)
        ELSE IF others # {} THEN Least(others) ELSE 0
  BY DEF ValueToTake
<1>2. hits = {}
  BY DEF Hit
<1>3. before = Outermost(reply)
  BY <1>2
<1> HIDE DEF hits, before
<1>4. Cardinality(before) \in Nat /\ Cardinality(before) <= MaxOpenersTried /\ MaxOpenersTried \in Nat
  BY <1>3, OutermostFinite, OpenersAssumption
<1>5. tries = Cardinality(before) + 0
  BY <1>2
<1>6. ~ (tries > MaxOpenersTried)
  <2> DEFINE c == Cardinality(before)
  <2> HIDE DEF c
  <2> QED BY <1>4, <1>5 DEF c
<1> HIDE DEF tries
<1>7. ~ \E i \in before : reply[i].kind = "deep"
  BY <1>3 DEF Deep
<1>8. ValueToTake(reply, mode) = IF others # {} THEN Least(others) ELSE 0
  BY <1>1, <1>2, <1>6, <1>7, Zenon
<1>9. CASE first = 0 /\ \A i \in Outermost(reply) : ~ Value(reply, i)
  <2>1. others = {}
    BY <1>3, <1>9 DEF Value
  <2> QED BY <1>8, <1>9, <2>1, Zenon
<1>10. CASE /\ first \in Outermost(reply) /\ Value(reply, first)
            /\ \A i \in Outermost(reply) : Value(reply, i) => first <= i
  <2>1. first \in others /\ \A i \in others : first <= i
    BY <1>3, <1>10 DEF Value
  <2>2. others \in SUBSET Int
    BY <1>3, OutermostFinite
  <2> HIDE DEF others
  <2>3. Least(others) = first
    BY <2>1, <2>2, LeastIs
  <2> QED BY <1>8, <2>1, <2>3, Zenon
<1> QED BY <1>9, <1>10

\* The first outermost value of the expected kind, met in time, is the one to take.
LEMMA ExpectedFound ==
  ASSUME NEW reply \in Seq(Brackets), NEW mode, NEW h \in Outermost(reply), Hit(reply, mode, h),
         \A i \in Passed(reply, h) : ~ Hit(reply, mode, i) /\ ~ Deep(reply, i),
         Cardinality(Passed(reply, h)) < MaxOpenersTried
  PROVE  ValueToTake(reply, mode) = h
<1> DEFINE hits == {i \in Outermost(reply) : reply[i].kind = ExpectedKind(mode)}
           before == {i \in Outermost(reply) : hits # {} => i < Least(hits)}
           tries == Cardinality(before) + (IF hits # {} THEN 1 ELSE 0)
           others == {i \in before : reply[i].kind \in Values}
<1>1. ValueToTake(reply, mode) =
        IF tries > MaxOpenersTried \/ \E i \in before : reply[i].kind = "deep" THEN 0
        ELSE IF hits # {} THEN Least(hits)
        ELSE IF others # {} THEN Least(others) ELSE 0
  BY DEF ValueToTake
<1>2. h \in Int /\ Outermost(reply) \in SUBSET Int
  BY OutermostFinite
<1>3. Least(hits) = h /\ hits # {}
  <2>1. h \in hits
    BY DEF Hit
  <2>2. ASSUME NEW i \in hits PROVE h <= i
    <3>1. i \in Outermost(reply) /\ Hit(reply, mode, i) /\ i \in Int
      BY <1>2 DEF Hit
    <3>2. i \notin Passed(reply, h)
      BY <3>1
    <3>3. ~ (i < h)
      BY <3>1, <3>2 DEF Passed
    <3> QED BY <1>2, <3>1, <3>3
  <2>3. hits \in SUBSET Int
    BY <1>2
  <2> HIDE DEF hits
  <2> QED BY <2>1, <2>2, <2>3, LeastIs
<1>4. before = Passed(reply, h)
  BY <1>3 DEF Passed
<1> HIDE DEF hits, before
<1>5. Cardinality(before) \in Nat /\ Cardinality(before) < MaxOpenersTried /\ MaxOpenersTried \in Nat
  BY <1>2, <1>4, PassedFinite, OpenersAssumption
<1>6. tries = Cardinality(before) + 1
  BY <1>3
<1>7. ~ (tries > MaxOpenersTried)
  <2> DEFINE c == Cardinality(before)
  <2> HIDE DEF c
  <2> QED BY <1>5, <1>6 DEF c
<1> HIDE DEF tries
<1>8. ~ \E i \in before : reply[i].kind = "deep"
  BY <1>4 DEF Deep
<1> QED BY <1>1, <1>3, <1>7, <1>8, Zenon

\* Nothing is to be taken when the tries run out before that value, or something too deep precedes it.
LEMMA SearchGivenUp ==
  ASSUME NEW reply \in Seq(Brackets), NEW mode, NEW g \in Outermost(reply),
         \A i \in Passed(reply, g) : ~ Hit(reply, mode, i),
         \/ Cardinality(Passed(reply, g)) = MaxOpenersTried
         \/ Deep(reply, g) /\ ~ Hit(reply, mode, g)
  PROVE  ValueToTake(reply, mode) = 0
<1> DEFINE hits == {i \in Outermost(reply) : reply[i].kind = ExpectedKind(mode)}
           before == {i \in Outermost(reply) : hits # {} => i < Least(hits)}
           tries == Cardinality(before) + (IF hits # {} THEN 1 ELSE 0)
           others == {i \in before : reply[i].kind \in Values}
           past == Passed(reply, g)
<1>1. ValueToTake(reply, mode) =
        IF tries > MaxOpenersTried \/ \E i \in before : reply[i].kind = "deep" THEN 0
        ELSE IF hits # {} THEN Least(hits)
        ELSE IF others # {} THEN Least(others) ELSE 0
  BY DEF ValueToTake
<1>2. g \in Int /\ Outermost(reply) \in SUBSET Int /\ IsFiniteSet(Outermost(reply))
  BY OutermostFinite
<1>3. /\ before \subseteq Outermost(reply) /\ IsFiniteSet(before)
      /\ Cardinality(before) \in Nat /\ MaxOpenersTried \in Nat
  <2>1. before \in SUBSET Outermost(reply)
    OBVIOUS
  <2>2. IsFiniteSet(before)
    <3> HIDE DEF before
    <3> QED BY <1>2, <2>1, FS_Subset
  <2> HIDE DEF before
  <2> QED BY <2>1, <2>2, FS_CardinalityType, OpenersAssumption
<1>4. \A i \in hits : g <= i
  <2> SUFFICES ASSUME NEW i \in hits PROVE g <= i
    OBVIOUS
  <2>1. i \in Outermost(reply) /\ Hit(reply, mode, i) /\ i \in Int
    BY <1>2 DEF Hit
  <2>2. ~ (i < g)
    BY <2>1 DEF Passed
  <2> QED BY <1>2, <2>1, <2>2
<1>5. hits # {} => Least(hits) \in hits /\ Least(hits) \in Int
  <2> SUFFICES ASSUME hits # {} PROVE Least(hits) \in hits /\ Least(hits) \in Int
    OBVIOUS
  <2>1. hits \in SUBSET Int /\ IsFiniteSet(hits)
    <3>1. hits \in SUBSET Outermost(reply)
      OBVIOUS
    <3> HIDE DEF hits
    <3> QED BY <1>2, <3>1, FS_Subset
  <2> HIDE DEF hits
  <2>2. PICK m \in hits : \A y \in hits : m <= y
    BY <2>1, HasLeast
  <2>3. Least(hits) = m
    BY <2>1, <2>2, LeastIs
  <2> QED BY <2>1, <2>3
<1>6. past \subseteq before
  <2> SUFFICES ASSUME NEW i \in past, hits # {} PROVE i < Least(hits)
    BY DEF Passed
  <2>1. i \in Int /\ i < g
    BY <1>2 DEF Passed
  <2>2. g <= Least(hits) /\ Least(hits) \in Int
    BY <1>4, <1>5
  <2> HIDE DEF hits
  <2> QED BY <1>2, <2>1, <2>2
<1>7. IsFiniteSet(past) /\ Cardinality(past) \in Nat /\ g \notin past
  BY <1>2, PassedFinite DEF Passed
<1>8. CASE Cardinality(past) = MaxOpenersTried
  <2>1. CASE hits # {} /\ Least(hits) = g
    <3>1. Cardinality(past) <= Cardinality(before)
      <4> HIDE DEF past, before
      <4> QED BY <1>3, <1>6, FS_Subset
    <3>2. tries = Cardinality(before) + 1
      BY <2>1
    <3>3. tries > MaxOpenersTried
      <4> DEFINE c == Cardinality(before)
                 d == Cardinality(past)
      <4> HIDE DEF c, d
      <4> QED BY <1>3, <1>7, <1>8, <3>1, <3>2 DEF c, d
    <3> HIDE DEF tries, before, hits, others
    <3> QED BY <1>1, <3>3, Zenon
  <2>2. CASE ~ (hits # {} /\ Least(hits) = g)
    <3>1. g \in before
      <4> SUFFICES ASSUME hits # {} PROVE g < Least(hits)
        OBVIOUS
      <4>1. g <= Least(hits) /\ Least(hits) \in Int /\ Least(hits) # g
        BY <1>4, <1>5, <2>2
      <4> HIDE DEF hits
      <4> QED BY <1>2, <4>1
    <3> HIDE DEF past, before
    <3>2. Cardinality(past \cup {g}) = Cardinality(past) + 1 /\ IsFiniteSet(past \cup {g})
      BY <1>7, FS_AddElement
    <3>3. Cardinality(past \cup {g}) <= Cardinality(before)
      <4>1. past \cup {g} \in SUBSET before
        BY <1>6, <3>1
      <4> QED BY <1>3, <4>1, FS_Subset
    <3>4. tries > MaxOpenersTried
      <4>1. tries = Cardinality(before) \/ tries = Cardinality(before) + 1
        BY <1>3
      <4> HIDE DEF tries
      <4> DEFINE c == Cardinality(before)
                 d == Cardinality(past)
                 e == Cardinality(past \cup {g})
      <4> HIDE DEF c, d, e
      <4> QED BY <1>3, <1>7, <1>8, <3>2, <3>3, <4>1 DEF c, d, e
    <3> HIDE DEF tries, hits, others
    <3> QED BY <1>1, <3>4, Zenon
  <2> QED BY <2>1, <2>2
<1>9. CASE Deep(reply, g) /\ ~ Hit(reply, mode, g)
  <2>1. g \notin hits
    BY <1>9 DEF Hit
  <2>2. g \in before
    <3> SUFFICES ASSUME hits # {} PROVE g < Least(hits)
      OBVIOUS
    <3>1. g <= Least(hits) /\ Least(hits) \in Int /\ Least(hits) # g
      BY <1>4, <1>5, <2>1
    <3> HIDE DEF hits
    <3> QED BY <1>2, <3>1
  <2>3. \E i \in before : reply[i].kind = "deep"
    <3> HIDE DEF before
    <3> QED BY <1>9, <2>2 DEF Deep
  <2> HIDE DEF tries, hits, others, before
  <2> QED BY <1>1, <2>3, Zenon
<1> QED BY <1>8, <1>9

\* Where the search can be in a text.
Searching(reply) == [at : 1 .. Len(reply) + 1, tried : Nat, first : 0 .. Len(reply)]

\* A well-nested text, bracket by bracket.
LEMMA Nested ==
  ASSUME NEW reply \in Seq(Brackets), WellNested(reply), NEW i \in 1 .. Len(reply)
  PROVE  /\ Len(reply) \in Nat /\ i \in Nat /\ reply[i].span \in Nat
         /\ i + reply[i].span <= Len(reply)
         /\ ~ Value(reply, i) => reply[i].span = 0
         /\ \A j \in 1 .. Len(reply) : i < j /\ j <= i + reply[i].span => j + reply[j].span <= i + reply[i].span
<1>1. Len(reply) \in Nat /\ DOMAIN reply = 1 .. Len(reply) /\ i \in DOMAIN reply
  OBVIOUS
<1>2. reply[i].span \in Nat
  <2>1. reply[i] \in Brackets
    BY <1>1
  <2> QED BY <2>1 DEF Brackets
<1>3. /\ i + reply[i].span <= Len(reply)
      /\ reply[i].kind \notin Values => reply[i].span = 0
      /\ \A j \in (i + 1)..(i + reply[i].span) : j + reply[j].span <= i + reply[i].span
  BY <1>1, Zenon DEF WellNested
<1>4. ASSUME NEW j \in 1 .. Len(reply), i < j, j <= i + reply[i].span PROVE j \in (i + 1)..(i + reply[i].span)
  BY <1>1, <1>2, <1>4
<1> QED BY <1>1, <1>2, <1>3, <1>4 DEF Value

\* The ways of a turn.
LEMMA TriedIs ==
  ASSUME NEW reply, NEW mode, NEW s, ~ (s.at > Len(reply))
  PROVE  \/ /\ s.tried = MaxOpenersTried \/ Deep(reply, s.at)
            /\ Tried(reply, mode, s) = [at |-> Len(reply) + 1, tried |-> s.tried, first |-> 0]
         \/ /\ ~ (s.tried = MaxOpenersTried) /\ Hit(reply, mode, s.at) /\ ~ Deep(reply, s.at)
            /\ Tried(reply, mode, s) = [at |-> Len(reply) + 1, tried |-> s.tried, first |-> s.at]
         \/ /\ ~ (s.tried = MaxOpenersTried) /\ ~ Deep(reply, s.at) /\ ~ Hit(reply, mode, s.at)
            /\ reply[s.at].kind = "broken"
            /\ Tried(reply, mode, s) = [at |-> s.at + 1, tried |-> s.tried + 1, first |-> s.first]
         \/ /\ ~ (s.tried = MaxOpenersTried) /\ ~ Deep(reply, s.at) /\ ~ Hit(reply, mode, s.at)
            /\ reply[s.at].kind # "broken"
            /\ Tried(reply, mode, s) = [at |-> s.at + 1 + reply[s.at].span, tried |-> s.tried + 1,
                                       first |-> IF s.first = 0 THEN s.at ELSE s.first]
<1>1. ExpectedKind(mode) # "broken" /\ ExpectedKind(mode) # "deep"
  BY DEF ExpectedKind
<1> QED BY <1>1 DEF Tried, Deep, Hit, AfterValue

\* A turn leads to where the search can be.
LEMMA TriedIsSearching ==
  ASSUME NEW reply \in Seq(Brackets), WellNested(reply), NEW mode, NEW s \in Searching(reply)
  PROVE  Tried(reply, mode, s) \in Searching(reply)
<1> DEFINE n == Len(reply)
<1>0. n \in Nat /\ s.at \in 1 .. n + 1 /\ s.tried \in Nat /\ s.first \in 0 .. n
  BY DEF Searching
<1>1. CASE s.at > n
  BY <1>1 DEF Tried
<1>2. CASE ~ (s.at > n)
  <2>1. s.at \in 1 .. n
    BY <1>0, <1>2
  <2>2. s.at + reply[s.at].span <= n /\ reply[s.at].span \in Nat
    BY <2>1, Nested
  <2>3. \E at \in 1 .. n + 1, tried \in Nat, first \in 0 .. n :
          Tried(reply, mode, s) = [at |-> at, tried |-> tried, first |-> first]
    <3>1. n + 1 \in 1 .. n + 1 /\ s.at + 1 \in 1 .. n + 1 /\ s.at + 1 + reply[s.at].span \in 1 .. n + 1
      <4> HIDE DEF n
      <4> QED BY <1>0, <2>1, <2>2
    <3>2. /\ s.tried + 1 \in Nat /\ 0 \in 0 .. n /\ s.at \in 0 .. n
          /\ (IF s.first = 0 THEN s.at ELSE s.first) \in 0 .. n
      <4> HIDE DEF n
      <4> QED BY <1>0, <2>1
    <3>3. \/ Tried(reply, mode, s) = [at |-> n + 1, tried |-> s.tried, first |-> 0]
          \/ Tried(reply, mode, s) = [at |-> n + 1, tried |-> s.tried, first |-> s.at]
          \/ Tried(reply, mode, s) = [at |-> s.at + 1, tried |-> s.tried + 1, first |-> s.first]
          \/ Tried(reply, mode, s) = [at |-> s.at + 1 + reply[s.at].span, tried |-> s.tried + 1,
                                     first |-> IF s.first = 0 THEN s.at ELSE s.first]
      BY <1>2, TriedIs
    <3> HIDE DEF n
    <3> QED BY <1>0, <3>1, <3>2, <3>3, Zenon
  <2> QED BY <2>3 DEF Searching
<1> QED BY <1>1, <1>2

\* What the search has seen when it is not over.
Going(reply, mode, s) ==
  LET past == Passed(reply, s.at)
  IN  /\ \A j \in 1 .. (s.at - 1) : Value(reply, j) => j + reply[j].span < s.at
      /\ s.tried = Cardinality(past) /\ s.tried <= MaxOpenersTried
      /\ \A i \in past : ~ Hit(reply, mode, i) /\ ~ Deep(reply, i)
      /\ \/ s.first = 0 /\ \A i \in past : ~ Value(reply, i)
         \/ s.first \in past /\ Value(reply, s.first) /\ \A i \in past : Value(reply, i) => s.first <= i

\* The place it is at is an outermost one.
LEMMA AtOutermost ==
  ASSUME NEW reply \in Seq(Brackets), NEW mode, NEW s \in Searching(reply), Going(reply, mode, s),
         s.at \in 1 .. Len(reply)
  PROVE  s.at \in Outermost(reply)
<1>1. \A j \in 1 .. (s.at - 1) : Value(reply, j) => j + reply[j].span < s.at
  BY DEF Going
<1>2. s.at \in DOMAIN reply
  OBVIOUS
<1> QED BY <1>1, <1>2 DEF Outermost, Value

\* Behind an outermost bracket and what it spans it is the only one more.
LEMMA OneMore ==
  ASSUME NEW reply \in Seq(Brackets), WellNested(reply), NEW at \in 1 .. Len(reply), at \in Outermost(reply),
         NEW m, m = at + 1 + reply[at].span
  PROVE  /\ Passed(reply, m) = Passed(reply, at) \cup {at} /\ at \notin Passed(reply, at)
         /\ Cardinality(Passed(reply, m)) = Cardinality(Passed(reply, at)) + 1
<1>1. at \in Nat /\ reply[at].span \in Nat /\ (~ Value(reply, at) => reply[at].span = 0)
  BY Nested
<1>2. Outermost(reply) \in SUBSET Int
  BY OutermostFinite
<1>3. ASSUME NEW j \in Outermost(reply), j < m PROVE j <= at
  <2> SUFFICES ASSUME at < j PROVE FALSE
    BY <1>1, <1>2
  <2>1. j \in Int /\ j <= at + reply[at].span
    BY <1>1, <1>2, <1>3
  <2>2. Value(reply, at)
    <3> SUFFICES ASSUME ~ Value(reply, at) PROVE FALSE
      OBVIOUS
    <3>1. reply[at].span = 0
      BY <1>1
    <3> QED BY <1>1, <2>1, <3>1
  <2>3. at \in 1 .. (j - 1)
    BY <1>1, <2>1
  <2>4. at + reply[at].span < j
    BY <2>2, <2>3 DEF Outermost, Value
  <2> QED BY <1>1, <2>1, <2>4
<1>4. at < m /\ \A j \in Int : j < at => j < m
  BY <1>1
<1>5. ~ (at < at)
  BY <1>1
<1>6. Passed(reply, m) = Passed(reply, at) \cup {at}
  <2>1. ASSUME NEW j \in Outermost(reply) PROVE j < m <=> j < at \/ j = at
    <3>1. j \in Int
      BY <1>2
    <3>2. j <= at <=> j < at \/ j = at
      BY <1>1, <3>1
    <3> QED BY <1>3, <1>4, <3>1, <3>2
  <2> QED BY <2>1 DEF Passed
<1>7. at \notin Passed(reply, at)
  BY <1>5 DEF Passed
<1>8. IsFiniteSet(Passed(reply, at))
  BY <1>1, PassedFinite
<1> QED BY <1>6, <1>7, <1>8, FS_AddElement

\* Past a bracket that is not what is looked for the search goes on.
LEMMA GoesOn ==
  ASSUME NEW reply \in Seq(Brackets), WellNested(reply), NEW mode, NEW s \in Searching(reply),
         Going(reply, mode, s),
         s.at \in 1 .. Len(reply), s.tried # MaxOpenersTried, ~ Deep(reply, s.at), ~ Hit(reply, mode, s.at),
         NEW t, t.at = s.at + 1 + reply[s.at].span, t.tried = s.tried + 1,
         \/ ~ Value(reply, s.at) /\ t.first = s.first
         \/ Value(reply, s.at) /\ t.first = IF s.first = 0 THEN s.at ELSE s.first
  PROVE  Going(reply, mode, t)
<1> DEFINE at == s.at
           past == Passed(reply, s.at)
           more == Passed(reply, t.at)
<1>0. at \in Nat /\ Len(reply) \in Nat /\ reply[at].span \in Nat /\ s.tried \in Nat /\ MaxOpenersTried \in Nat
  BY Nested, OpenersAssumption DEF Searching
<1>1. more = past \cup {at} /\ Cardinality(more) = Cardinality(past) + 1
  BY AtOutermost, OneMore
<1>2. t.tried = Cardinality(more)
  BY <1>1 DEF Going
<1>3. t.tried <= MaxOpenersTried
  <2>1. s.tried <= MaxOpenersTried
    BY DEF Going
  <2> QED BY <1>0, <2>1
<1>4. \A i \in more : ~ Hit(reply, mode, i) /\ ~ Deep(reply, i)
  <2>1. \A i \in past : ~ Hit(reply, mode, i) /\ ~ Deep(reply, i)
    BY DEF Going
  <2> HIDE DEF more, past
  <2> QED BY <1>1, <2>1
<1>5. ASSUME NEW j \in 1 .. (t.at - 1), Value(reply, j) PROVE j + reply[j].span < t.at
  <2>1. j \in Nat /\ j <= at + reply[at].span
    BY <1>0
  <2>2. at + reply[at].span <= Len(reply)
    BY Nested
  <2>3. j \in 1 .. Len(reply)
    BY <1>0, <1>5, <2>1, <2>2
  <2>4. reply[j].span \in Nat
    BY <2>3, Nested
  <2>5. CASE j < at
    <3>1. j \in 1 .. (s.at - 1)
      BY <1>0, <2>1, <2>3, <2>5
    <3>2. j + reply[j].span < s.at
      BY <1>5, <3>1 DEF Going
    <3> QED BY <1>0, <2>1, <2>4, <3>2
  <2>6. CASE j = at
    BY <1>0, <2>6
  <2>7. CASE at < j
    <3>1. j + reply[j].span <= at + reply[at].span
      BY <2>1, <2>3, <2>7, Nested
    <3> QED BY <1>0, <2>1, <2>4, <3>1
  <2> QED BY <1>0, <2>1, <2>5, <2>6, <2>7
<1>6. \/ t.first = 0 /\ \A i \in more : ~ Value(reply, i)
      \/ t.first \in more /\ Value(reply, t.first) /\ \A i \in more : Value(reply, i) => t.first <= i
  <2>1. \/ s.first = 0 /\ \A i \in past : ~ Value(reply, i)
        \/ s.first \in past /\ Value(reply, s.first) /\ \A i \in past : Value(reply, i) => s.first <= i
    BY DEF Going
  <2>2. \A i \in past : i \in 1 .. Len(reply) /\ i < at
    <3>1. Outermost(reply) \subseteq 1 .. Len(reply)
      BY OutermostFinite
    <3> QED BY <3>1 DEF Passed
  <2> HIDE DEF past, more
  <2>3. CASE s.first = 0 /\ \A i \in past : ~ Value(reply, i)
    <3>1. CASE Value(reply, s.at)
      <4>1. t.first = at
        BY <2>3, <3>1
      <4>2. at <= at
        BY <1>0
      <4> QED BY <1>1, <2>3, <3>1, <4>1, <4>2
    <3>2. CASE ~ Value(reply, s.at)
      BY <1>1, <2>3, <3>2
    <3> QED BY <3>1, <3>2
  <2>4. CASE s.first \in past /\ Value(reply, s.first) /\ \A i \in past : Value(reply, i) => s.first <= i
    <3>1. s.first \in Nat /\ s.first # 0 /\ s.first <= at
      BY <1>0, <2>2, <2>4
    <3>2. t.first = s.first
      BY <3>1
    <3> QED BY <1>1, <2>4, <3>1, <3>2
  <2> QED BY <2>1, <2>3, <2>4
<1> QED BY <1>2, <1>3, <1>4, <1>5, <1>6, Zenon DEF Going

\* The search is over, and has the value to take.
Ended(reply, mode, s) == s.at = Len(reply) + 1 /\ s.first = ValueToTake(reply, mode)

\* A turn passes a bracket, and goes on or ends with the value to take.
LEMMA TriedGoes ==
  ASSUME NEW reply \in Seq(Brackets), WellNested(reply), NEW mode, NEW s \in Searching(reply),
         Going(reply, mode, s),
         s.at \in 1 .. Len(reply)
  PROVE  LET t == Tried(reply, mode, s)
         IN  t.at > s.at /\ (Going(reply, mode, t) \/ Ended(reply, mode, t))
<1> DEFINE t == Tried(reply, mode, s)
           at == s.at
<1> SUFFICES t.at > s.at /\ (Going(reply, mode, t) \/ Ended(reply, mode, t))
  OBVIOUS
<1>0. /\ at \in Nat /\ Len(reply) \in Nat /\ reply[at].span \in Nat /\ at + reply[at].span <= Len(reply)
      /\ s.tried \in Nat /\ MaxOpenersTried \in Nat /\ ~ (s.at > Len(reply))
  BY Nested, OpenersAssumption DEF Searching
<1>1. at \in Outermost(reply)
  BY AtOutermost
<1>2. s.tried = Cardinality(Passed(reply, at)) /\ s.tried <= MaxOpenersTried
      /\ \A i \in Passed(reply, at) : ~ Hit(reply, mode, i) /\ ~ Deep(reply, i)
  BY DEF Going
<1>3. CASE /\ s.tried = MaxOpenersTried \/ Deep(reply, s.at)
           /\ t = [at |-> Len(reply) + 1, tried |-> s.tried, first |-> 0]
  <2>1. Deep(reply, at) => ~ Hit(reply, mode, at)
    BY DEF Deep, Hit, ExpectedKind
  <2>2. ValueToTake(reply, mode) = 0
    BY <1>1, <1>2, <1>3, <2>1, SearchGivenUp
  <2>3. t.at = Len(reply) + 1 /\ t.first = 0
    BY <1>3
  <2> HIDE DEF t
  <2>4. t.at > s.at
    BY <1>0, <2>3
  <2> QED BY <2>2, <2>3, <2>4 DEF Ended
<1>4. CASE /\ ~ (s.tried = MaxOpenersTried) /\ Hit(reply, mode, s.at) /\ ~ Deep(reply, s.at)
           /\ t = [at |-> Len(reply) + 1, tried |-> s.tried, first |-> s.at]
  <2>1. Cardinality(Passed(reply, at)) < MaxOpenersTried
    <3> DEFINE c == Cardinality(Passed(reply, at))
    <3>1. c = s.tried
      BY <1>2
    <3> HIDE DEF c
    <3>2. c < MaxOpenersTried
      BY <1>0, <1>2, <1>4, <3>1
    <3> QED BY <3>2 DEF c
  <2>2. ValueToTake(reply, mode) = at
    BY <1>1, <1>2, <1>4, <2>1, ExpectedFound
  <2>3. t.at = Len(reply) + 1 /\ t.first = at
    BY <1>4
  <2> HIDE DEF t
  <2>4. t.at > s.at
    BY <1>0, <2>3
  <2> QED BY <2>2, <2>3, <2>4 DEF Ended
<1>5. CASE /\ ~ (s.tried = MaxOpenersTried) /\ ~ Deep(reply, s.at) /\ ~ Hit(reply, mode, s.at)
           /\ reply[s.at].kind = "broken"
           /\ t = [at |-> s.at + 1, tried |-> s.tried + 1, first |-> s.first]
  <2>1. ~ Value(reply, at)
    BY <1>5 DEF Value, Values
  <2>2. reply[at].span = 0
    BY <2>1, Nested
  <2>3. t.at = s.at + 1 /\ t.tried = s.tried + 1 /\ t.first = s.first
    BY <1>5
  <2> HIDE DEF t
  <2>4. t.at = s.at + 1 + reply[s.at].span /\ t.at > s.at
    BY <1>0, <2>2, <2>3
  <2>5. Going(reply, mode, t)
    BY <1>5, <2>1, <2>3, <2>4, GoesOn
  <2> QED BY <2>4, <2>5
<1>6. CASE /\ ~ (s.tried = MaxOpenersTried) /\ ~ Deep(reply, s.at) /\ ~ Hit(reply, mode, s.at)
           /\ reply[s.at].kind # "broken"
           /\ t = [at |-> s.at + 1 + reply[s.at].span, tried |-> s.tried + 1,
                   first |-> IF s.first = 0 THEN s.at ELSE s.first]
  <2>1. Value(reply, at)
    <3>1. reply[at] \in Brackets
      OBVIOUS
    <3>2. reply[at].kind \in Values \cup {"broken", "deep"}
      BY <3>1 DEF Brackets
    <3> QED BY <1>6, <3>2 DEF Value, Deep
  <2>3. /\ t.at = s.at + 1 + reply[s.at].span /\ t.tried = s.tried + 1
        /\ t.first = IF s.first = 0 THEN s.at ELSE s.first
    BY <1>6
  <2> HIDE DEF t
  <2>4. t.at > s.at
    BY <1>0, <2>3
  <2>5. Going(reply, mode, t)
    BY <1>6, <2>1, <2>3, GoesOn
  <2> QED BY <2>4, <2>5
<1> QED BY <1>0, <1>3, <1>4, <1>5, <1>6, TriedIs

\* At the end of the text the search has the value to take.
LEMMA GoingEnds ==
  ASSUME NEW reply \in Seq(Brackets), NEW mode, NEW s, Going(reply, mode, s), s.at = Len(reply) + 1
  PROVE  s.first = ValueToTake(reply, mode)
<1>1. Passed(reply, s.at) = Outermost(reply)
  <2>1. \A i \in Outermost(reply) : i < s.at
    <3>1. Len(reply) \in Nat /\ Outermost(reply) \subseteq 1 .. Len(reply)
      BY OutermostFinite
    <3> QED BY <3>1
  <2> QED BY <2>1 DEF Passed
<1>2. /\ \A i \in Outermost(reply) : ~ Hit(reply, mode, i) /\ ~ Deep(reply, i)
      /\ Cardinality(Outermost(reply)) <= MaxOpenersTried
      /\ \/ s.first = 0 /\ \A i \in Outermost(reply) : ~ Value(reply, i)
         \/ s.first \in Outermost(reply) /\ Value(reply, s.first)
            /\ \A i \in Outermost(reply) : Value(reply, i) => s.first <= i
  BY <1>1 DEF Going
<1> QED BY <1>2, NothingExpected

\* The search for the JSON in a reply takes the right value, in any text and for any limit of tries:
\* prose, brackets that are no JSON and JSON of the wrong kind do not hide it, and the inside of a
\* value of the wrong kind is not mistaken for it (_extract_json_value).
THEOREM TakesRightValue ==
  ASSUME NEW reply \in Seq(Brackets), WellNested(reply), NEW mode
  PROVE  extract_json_value(reply, mode) = ValueToTake(reply, mode)
<1> DEFINE n == Len(reply)
           S == Searching(reply)
           start == [at |-> 1, tried |-> 0, first |-> 0]
           after[k \in Nat] == IF k = 0 THEN start ELSE Tried(reply, mode, after[k - 1])
           step == [k \in Nat |-> [s \in S |-> Tried(reply, mode, s)]]
<1>0. n \in Nat
  OBVIOUS
<1>1. extract_json_value(reply, mode) = after[n].first
  BY DEF extract_json_value
<1>2. start \in S
  <2>1. 1 \in 1 .. n + 1 /\ 0 \in Nat /\ 0 \in 0 .. n
    <3> HIDE DEF n
    <3> QED BY <1>0
  <2> HIDE DEF n
  <2> QED BY <2>1 DEF Searching, n
<1> HIDE DEF start
<1>3. step \in [Nat -> [S -> S]]
  <2>1. \A s \in S : Tried(reply, mode, s) \in S
    BY TriedIsSearching
  <2> HIDE DEF S
  <2> QED BY <2>1
<1>4. PICK g : g \in Recursive(S, start, step)
  <2> HIDE DEF step, S
  <2> QED BY <1>2, <1>3, Recursion
<1>5. g \in [Nat -> S] /\ g[0] = start /\ \A k \in Nat \ {0} : g[k] = step[k][g[k - 1]]
  BY <1>4 DEF Recursive
<1>6. ASSUME NEW k \in Nat \ {0} PROVE g[k] = Tried(reply, mode, g[k - 1]) /\ g[k - 1] \in S
  <2>1. k - 1 \in Nat
    OBVIOUS
  <2> HIDE DEF S
  <2>2. g[k - 1] \in S
    BY <1>5, <2>1
  <2> QED BY <1>5, <2>2
<1> HIDE DEF step, S
<1>7. g = [k \in Nat |-> IF k = 0 THEN start ELSE Tried(reply, mode, g[k - 1])]
  <2>1. \A k \in Nat : g[k] = IF k = 0 THEN start ELSE Tried(reply, mode, g[k - 1])
    BY <1>5, <1>6
  <2>2. g = [k \in Nat |-> g[k]]
    BY <1>5
  <2> QED BY <2>1, <2>2
<1>8. after = [k \in Nat |-> IF k = 0 THEN start ELSE Tried(reply, mode, after[k - 1])]
  BY <1>7
<1> HIDE DEF after
<1> DEFINE T == {k \in Nat : /\ after[k] \in S
                             /\ \/ Ended(reply, mode, after[k])
                                \/ Going(reply, mode, after[k]) /\ (after[k].at = n + 1 \/ after[k].at > k)}
<1>9. 0 \in T
  <2>1. after[0] = start
    BY <1>8
  <2>2. start.at = 1 /\ start.tried = 0 /\ start.first = 0
    BY DEF start
  <2>3. Passed(reply, 1) = {}
    <3>1. Outermost(reply) \subseteq 1 .. Len(reply)
      BY OutermostFinite
    <3> QED BY <3>1 DEF Passed
  <2>4. Going(reply, mode, start)
    <3>1. Cardinality({}) = 0 /\ 0 <= MaxOpenersTried
      BY FS_EmptySet, OpenersAssumption
    <3>2. 1 .. (start.at - 1) = {}
      BY <2>2
    <3> QED BY <2>2, <2>3, <3>1, <3>2 DEF Going
  <2> QED BY <1>2, <2>1, <2>2, <2>4
<1>10. ASSUME NEW k \in Nat, k \in T PROVE k + 1 \in T
  <2> DEFINE a == after[k]
             b == after[k + 1]
  <2>1. k + 1 \in Nat /\ k + 1 # 0 /\ (k + 1) - 1 = k
    OBVIOUS
  <2>2. b = Tried(reply, mode, a)
    BY <1>8, <2>1
  <2>3. a \in S /\ (Ended(reply, mode, a) \/ (Going(reply, mode, a) /\ (a.at = n + 1 \/ a.at > k)))
    BY <1>10
  <2> HIDE DEF a, b
  <2>4. b \in S
    BY <2>2, <2>3, TriedIsSearching DEF S
  <2>5. a.at \in 1 .. n + 1 /\ b.at \in 1 .. n + 1
    BY <2>3, <2>4 DEF S, Searching
  <2>6. Ended(reply, mode, b) \/ (Going(reply, mode, b) /\ (b.at = n + 1 \/ b.at > k + 1))
    <3>1. CASE a.at = n + 1
      <4>1. a.at > Len(reply)
        BY <1>0, <3>1
      <4>2. b = a
        BY <2>2, <4>1 DEF Tried
      <4> QED BY <2>3, <3>1, <4>2
    <3>2. CASE a.at # n + 1
      <4>1. ~ Ended(reply, mode, a)
        BY <3>2 DEF Ended
      <4>2. Going(reply, mode, a) /\ a.at > k
        BY <2>3, <3>2, <4>1
      <4>3. a.at \in 1 .. Len(reply)
        BY <1>0, <2>5, <3>2
      <4>4. b.at > a.at /\ (Going(reply, mode, b) \/ Ended(reply, mode, b))
        BY <2>2, <2>3, <4>2, <4>3, TriedGoes DEF S
      <4>5. b.at > k + 1
        <5> HIDE DEF n
        <5> QED BY <1>0, <2>5, <4>2, <4>4
      <4> QED BY <4>4, <4>5
    <3> QED BY <3>1, <3>2
  <2> QED BY <2>1, <2>4, <2>6 DEF b
<1>11. n \in T
  <2> HIDE DEF T, n
  <2> QED BY <1>0, <1>9, <1>10, Induction
<1> DEFINE s == after[n]
<1>12. s \in S /\ (Ended(reply, mode, s) \/ (Going(reply, mode, s) /\ (s.at = n + 1 \/ s.at > n)))
  BY <1>11
<1>13. s.at \in 1 .. n + 1
  BY <1>12 DEF S, Searching
<1> HIDE DEF s, T
<1>14. CASE Ended(reply, mode, s)
  BY <1>1, <1>14 DEF Ended, s
<1>15. CASE Going(reply, mode, s) /\ (s.at = n + 1 \/ s.at > n)
  <2>1. s.at = Len(reply) + 1
    BY <1>0, <1>13, <1>15
  <2>2. s.first = ValueToTake(reply, mode)
    BY <1>15, <2>1, GoingEnds
  <2> QED BY <1>1, <2>2 DEF s
<1> QED BY <1>12, <1>14, <1>15

\* In whatever texts, rows and pages, the right value is taken out of the text, and of that value
\* every row and every page (_extract_json_value, _judge_answer_text).
THEOREM RepliesRead == Spec => []RepliesAreReadRight
<1>1. \A sample \in SampleTexts : \A mode : extract_json_value(sample, mode) = ValueToTake(sample, mode)
  BY SamplesAssumption, TakesRightValue DEF SamplesAssumption
<1>2. \A rows \in SampleRows, pages \in SamplePages : AccountsForPages(rows, pages)
  BY SamplesAssumption, JudgingAccounts DEF SamplesAssumption
<1>3. RepliesAreReadRight
  BY <1>1, <1>2, Zenon DEF RepliesAreReadRight, TakesTheRightValue, AccountsForEveryPage
<1> QED BY <1>3, PTL

=============================================================================
