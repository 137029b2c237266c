------------------------------ MODULE BatchRun ------------------------------
(***************************************************************************)
(* One processing run after another over a folder of source files: the     *)
(* loop of src/src/batch_orchestrator.py with the rows it commits through  *)
(* src/src/db_controller.py and the request plan of                        *)
(* execute_network_inference (src/src/llm_client.py).                      *)
(*                                                                         *)
(* The worker is one thread.  Around it, at any moment, the user may press *)
(* Stop (abort_flag), somebody may rewrite a source file, a commit may     *)
(* fail, and the process may be killed.  The database keeps every commit;  *)
(* everything else the worker knows is lost when the process goes.         *)
(*                                                                         *)
(* Abstractions.  A source file is a modification time and its bytes (a    *)
(* member of Contents); SizeOf gives the size of those bytes and the bytes *)
(* themselves stand for their SHA-256.  Rewriting a file always advances   *)
(* its modification time.  Page rows are counted by status.  What a reply  *)
(* says is reduced to the status the request ends with (retries, JSON      *)
(* ladder and judging of answers are inside one request).                  *)
(***************************************************************************)
EXTENDS StatusViews, FiniteSets

CONSTANTS
  NumFiles,        \* files found in the input folder, in sorted order 1..NumFiles
  Unsupported,     \* those whose extension is not in SUPPORTED_EXTENSIONS
  Unstorable,      \* those whose extension SQLite cannot store (a lone surrogate in it)
  Contents,        \* possible bytes of a file
  SizeOf,          \* their size
  NoDigest,        \* the "" recorded when the bytes were not or could not be hashed
  AiChoices,       \* values ENABLE_LLM_INFERENCE may have, database by database
  PerRequest,      \* MAX_JPEGS_PER_INFERENCE
  MaxFailures,     \* MAX_CONSECUTIVE_LLM_FAILURES
  HaltOnBadJson,   \* LLM_ABORT_ON_MALFORMED_JSON
  HaltOnParseError,\* HALT_ON_LLM_PARSE_ERROR
  NoRetryChoices,  \* values NO_RETRY_STATUSES may have, run by run
  OfferedPages,    \* page statuses the converters may produce
  OfferedReplies,  \* request statuses the provider may cause
  MaxPages,        \* bound: pages one conversion yields
  MaxEdits,        \* bound: rewrites of one file
  MaxRuns          \* bound: runs

Files == 1..NumFiles

ASSUME SizesAssumption ==
  /\ NumFiles \in Nat /\ Unsupported \subseteq Files /\ Unstorable \subseteq Unsupported
  /\ PerRequest \in Nat \ {0} /\ MaxFailures \in Nat \ {0}
  /\ MaxPages \in Nat /\ MaxEdits \in Nat /\ MaxRuns \in Nat

ASSUME DataAssumption ==
  /\ SizeOf \in [Contents -> Nat] /\ NoDigest \notin Contents
  /\ AiChoices \subseteq BOOLEAN /\ HaltOnBadJson \in BOOLEAN /\ HaltOnParseError \in BOOLEAN
  /\ NoRetryChoices \subseteq SUBSET OverallResults
  /\ OfferedPages \subseteq PageStatuses
  /\ OfferedReplies \subseteq RequestStatuses \ UnfinishedStatuses

VARIABLES
  \* what survives the process
  disk,             \* disk[f]: the source file as it is now
  ai_enabled,       \* ENABLE_LLM_INFERENCE, part of the run identity: a database made
                    \* with another value is refused
  registry,         \* registry[id]: the attempt with that file_id, with its rows;
                    \* an id may be missing
  \* the worker's local variables
  pc,
  index,            \* position in the sorted list of files
  current_id,
  completed,        \* completed[f]: fingerprints read once, when the run started
  source,           \* {} for None, otherwise {fingerprint}
  expected,         \* expected_requests
  after,            \* what follows the interruption being recorded
  failures,         \* network_failures and content_failures
  \* shared with the request handlers
  abort,            \* abort_flag
  result,           \* how the last run ended
  runs,             \* number of runs started
  \* history variables, read by properties only
  first_id,         \* highest file_id when the run started
  skips,            \* files skipped in this run with the bytes they held then
  judged            \* the statuses of each file of this run the circuit breakers saw

fileVars == <<index, current_id, completed, source>>
runVars == <<ai_enabled, abort, result, runs, first_id>>
historyVars == <<skips, judged>>
vars == <<disk, registry, pc, fileVars, expected, after, failures, runVars, historyVars>>

-----------------------------------------------------------------------------
(* Data *)

SourceFile == [mtime : 0..MaxEdits, data : Contents]
Fingerprint == [size : Nat, mtime : Nat, sha : Contents \cup {NoDigest}]
Request == [number : Nat, status : RequestStatuses, flawed : BOOLEAN]
Attempt ==
  [path : Files, source : SUBSET Fingerprint, ai : BOOLEAN, range : RangeStatuses,
   pages : [PageStatuses -> Nat], reqs : Seq(Request), complete : BOOLEAN,
   error : BOOLEAN,                 \* processing_error is not empty
   bytes : SUBSET Contents]         \* history: what the converter read

Labels == {"idle", "loop", "hash", "start", "extract", "verify", "frames", "request",
           "reply", "drain", "settle", "interrupt"}
\* what the loop does once an interruption is recorded: judge the file's outcomes,
\* go on without judging them (an unexpected exception), or end the run
Continuations == {"judge", "continue", "raise"}
Results == {"none", "done", "aborted", "failed", "network_breaker", "content_breaker",
            "database_error", "killed"}

\* source_state: size and modification time as stat reports them.
source_state(f) == [size |-> SizeOf[disk[f].data], mtime |-> disk[f].mtime]
SameState(fp, st) == fp.size = st.size /\ fp.mtime = st.mtime

\* get_highest_file_id
HighestFileId ==
  IF DOMAIN registry = {} THEN 0
  ELSE CHOOSE id \in DOMAIN registry : \A other \in DOMAIN registry : other <= id

\* Mutant: an attempt that never finished counts as done.
NoRetryIdsOrUnfinished(noRetry) ==
  {id \in DOMAIN registry : overall_result(registry[id]) \in noRetry
                             \/ ~ registry[id].complete}

\* get_no_retry_sources
NoRetryIds(noRetry) == {id \in DOMAIN registry : overall_result(registry[id]) \in noRetry}
NoRetrySources(noRetry) ==
  [f \in Files |-> UNION {registry[id].source :
                            id \in {i \in NoRetryIds(noRetry) : registry[i].path = f}}]

\* Mutant: the last, partly filled request is forgotten.
FloorDivision(frames) == frames \div PerRequest

\* plan_requests and the expected_requests of _process_file
Ceiling(frames) == (frames + PerRequest - 1) \div PerRequest

current == registry[current_id]
PageCount(a) == a.pages["ok"] + a.pages["skipped"] + a.pages["failure"]
ReplyStatuses(a) == {a.reqs[i].status : i \in DOMAIN a.reqs}

NewRow(f) ==
  [path |-> f, source |-> source, ai |-> ai_enabled, range |-> "",
   pages |-> [s \in PageStatuses |-> 0], reqs |-> << >>, complete |-> FALSE,
   error |-> FALSE, bytes |-> {}]

TypeOK ==
  /\ disk \in [Files -> SourceFile]
  /\ DOMAIN registry \subseteq Nat \ {0} /\ registry \in [DOMAIN registry -> Attempt]
  /\ pc \in Labels
  /\ index \in 1..(NumFiles + 1) /\ current_id \in Nat
  /\ completed \in [Files -> SUBSET Fingerprint]
  /\ source \in SUBSET Fingerprint
  /\ expected \in Nat /\ after \in Continuations
  /\ failures \in [network : Nat, content : Nat]
  /\ ai_enabled \in BOOLEAN /\ abort \in BOOLEAN /\ result \in Results /\ runs \in Nat /\ first_id \in Nat
  /\ skips \in SUBSET (Files \X Contents)
  /\ judged \in Seq(SUBSET RequestStatuses)

-----------------------------------------------------------------------------
(* Starting and ending a run *)

Init ==
  /\ disk \in [Files -> [mtime : {0}, data : Contents]]
  /\ registry = << >> /\ ai_enabled \in AiChoices
  /\ pc = "idle" /\ index = 1 /\ current_id = 0
  /\ completed = [f \in Files |-> {}] /\ source = {}
  /\ expected = 0 /\ after = "judge"
  /\ failures = [network |-> 0, content |-> 0]
  /\ abort = FALSE /\ result = "none" /\ runs = 0 /\ first_id = 0
  /\ skips = {} /\ judged = << >>

\* A new run: fresh local variables, fresh abort_flag.
StartRun(noRetry) ==
  /\ pc = "idle" /\ runs < MaxRuns
  /\ pc' = "loop"
  /\ current_id' = HighestFileId /\ first_id' = HighestFileId
  /\ completed' = NoRetrySources(noRetry)
  /\ runs' = runs + 1
  /\ result' = "none" /\ skips' = {} /\ judged' = << >>
  /\ UNCHANGED <<disk, ai_enabled, registry, index, source, expected, after, failures, abort>>

\* The worker is gone, its local variables with it.
EndRun(how) ==
  /\ pc' = "idle" /\ index' = 1 /\ current_id' = 0
  /\ completed' = [f \in Files |-> {}] /\ source' = {}
  /\ expected' = 0 /\ after' = "judge"
  /\ failures' = [network |-> 0, content |-> 0]
  /\ abort' = FALSE /\ result' = how
  /\ UNCHANGED <<ai_enabled, runs, first_id>>

\* Goes to the next file; an abort seen at the top of the loop ends the run there.
NextFile ==
  /\ pc' = "loop" /\ index' = index + 1 /\ source' = {}
  /\ expected' = 0 /\ after' = "judge"
  /\ UNCHANGED <<current_id, completed, runVars>>

Goto(label) ==
  /\ pc' = label
  /\ UNCHANGED <<fileVars, failures, runVars, historyVars>>

\* Updates the current attempt's row and moves on; changes nothing else.
Commit(row, label) ==
  /\ registry' = [registry EXCEPT ![current_id] = row]
  /\ Goto(label)
  /\ UNCHANGED disk

\* Mutant: the last file of the list is never reached.
LoopEndsEarly ==
  /\ pc = "loop"
  /\ abort \/ index >= NumFiles
  /\ EndRun(IF abort THEN "aborted" ELSE "done")
  /\ UNCHANGED <<disk, registry, historyVars>>

LoopEnds ==
  /\ pc = "loop"
  /\ abort \/ index > NumFiles
  /\ EndRun(IF abort THEN "aborted" ELSE "done")
  /\ UNCHANGED <<disk, registry, historyVars>>

-----------------------------------------------------------------------------
(* _source_decision *)

SkipFile ==
  /\ skips' = skips \cup {<<index, disk[index].data>>}
  /\ NextFile
  /\ UNCHANGED <<disk, registry, failures, judged>>

\* stat fails: the file is processed without a fingerprint.
StatFails ==
  /\ pc = "loop" /\ ~ abort /\ index <= NumFiles
  /\ Goto("start")
  /\ UNCHANGED <<disk, registry, expected, after>>

StatSource ==
  /\ pc = "loop" /\ ~ abort /\ index <= NumFiles
  /\ LET st == source_state(index) IN
       IF \E fp \in completed[index] : SameState(fp, st)
       THEN SkipFile
       ELSE /\ pc' = "hash"
            /\ source' = {[size |-> st.size, mtime |-> st.mtime, sha |-> NoDigest]}
            /\ UNCHANGED <<disk, registry, index, current_id, completed, expected, after,
                           failures, runVars, historyVars>>

\* Mutant: a file with a new modification time is not compared by digest.
NoDigestsCompared == {}

SameSizeDigests ==
  {fp.sha : fp \in {old \in completed[index] :
                      \E new \in source : new.size = old.size /\ old.sha # NoDigest}}

\* Stop seen between two chunks of the file.
HashStopped ==
  /\ pc = "hash" /\ abort
  /\ EndRun("aborted")
  /\ UNCHANGED <<disk, registry, historyVars>>

\* The digest is "" when reading fails, or when there is no reason to read.
HashSource ==
  /\ pc = "hash"
  /\ \E digest \in IF SameSizeDigests = {} /\ index \in Unsupported
                    THEN {NoDigest} ELSE {NoDigest, disk[index].data} :
       IF digest \in SameSizeDigests
       THEN SkipFile
       ELSE /\ source' = {[fp EXCEPT !.sha = digest] : fp \in source}
            /\ pc' = "start"
            /\ UNCHANGED <<disk, registry, index, current_id, completed, expected, after,
                           failures, runVars, historyVars>>

-----------------------------------------------------------------------------
(* _process_file: conversion *)

\* Mutant: an interrupted attempt at the same file is started over in its old row.
ReuseInterruptedRow ==
  /\ pc = "start" /\ index \notin Unstorable
  /\ LET interrupted == {id \in DOMAIN registry : registry[id].path = index /\ registry[id].error}
         id == IF interrupted = {} THEN current_id + 1 ELSE CHOOSE i \in interrupted : TRUE
     IN  /\ registry' = [i \in DOMAIN registry \cup {id} |->
                           IF i = id THEN NewRow(index) ELSE registry[i]]
         /\ current_id' = id
  /\ pc' = "extract"
  /\ UNCHANGED <<disk, index, completed, source, expected, after, failures, runVars, historyVars>>

\* The row is committed before the converter is asked for its first page.
HandleFileStarted ==
  /\ pc = "start" /\ index \notin Unstorable
  /\ LET id == current_id + 1 IN
       /\ id \notin DOMAIN registry
       /\ registry' = [i \in DOMAIN registry \cup {id} |->
                         IF i = id THEN NewRow(index) ELSE registry[i]]
       /\ current_id' = id
  /\ pc' = "extract"
  /\ UNCHANGED <<disk, index, completed, source, expected, after, failures, runVars, historyVars>>

\* SQLite refuses the row with an error that is not the database's own: the loop logs an
\* unexpected exception and goes on; the file_id is used up and there is no row.
StartRefused ==
  /\ pc = "start" /\ index \in Unstorable
  /\ pc' = "loop" /\ index' = index + 1 /\ current_id' = current_id + 1 /\ source' = {}
  /\ UNCHANGED <<disk, registry, completed, expected, after, failures, runVars, historyVars>>

\* An unsupported file is rejected with one failed page.
PageOffered(s) ==
  IF index \in Unsupported THEN s = "failure" /\ PageCount(current) = 0
  ELSE s \in OfferedPages /\ PageCount(current) < MaxPages

HandleFrameSaved(s) ==
  /\ pc = "extract" /\ ~ abort
  /\ PageOffered(s)
  /\ Commit([current EXCEPT !.pages[s] = @ + 1, !.bytes = @ \cup {disk[index].data}], "extract")
  /\ UNCHANGED <<expected, after>>

\* The range statuses a converter may finish with, given the pages it yielded.
SummaryOffered(range) ==
  CASE index \in Unsupported -> range = "failure" /\ PageCount(current) = 1
    [] index \notin Unsupported /\ range = "ok" -> TRUE
    [] index \notin Unsupported /\ range = "skipped" -> PageCount(current) = 0
    [] OTHER -> range = "failure" /\ current.pages["failure"] > 0

\* handle_file_completed with the converter's summary, or with the failure written for
\* a conversion that Stop cut short.
HandleFileCompleted(range) ==
  /\ pc = "extract"
  /\ IF abort THEN range = "failure" ELSE SummaryOffered(range)
  /\ Commit([current EXCEPT !.range = range], "verify")
  /\ UNCHANGED <<expected, after>>

\* Any other exception of the converter: the failure is recorded, then the interruption.
ConversionCrashes ==
  /\ pc = "extract"
  /\ Commit([current EXCEPT !.range = "failure"], "interrupt")
  /\ after' = "continue"
  /\ UNCHANGED expected

\* Mutant: only the size is compared after the conversion.
SameSizeIsEnough == \A fp \in source : fp.size = source_state(index).size

SourceUnchanged == \A fp \in source : SameState(fp, source_state(index))

VerifySource ==
  /\ pc = "verify"
  /\ Goto(IF SourceUnchanged /\ ~ abort THEN "frames" ELSE "interrupt")
  /\ UNCHANGED <<disk, registry, expected, after>>

\* stat fails this time: a source with a fingerprint counts as changed.
RestatFails ==
  /\ pc = "verify" /\ source # {}
  /\ Goto("interrupt")
  /\ UNCHANGED <<disk, registry, expected, after>>

-----------------------------------------------------------------------------
(* _process_file: the requests of execute_network_inference *)

PlanRequests ==
  /\ pc = "frames"
  /\ LET frames == IF ai_enabled THEN current.pages["ok"] ELSE 0 IN
       /\ expected' = IF ai_enabled /\ abort THEN 0 ELSE Ceiling(frames)
       /\ Goto(IF ai_enabled /\ abort THEN "interrupt"
               ELSE IF frames = 0 THEN "settle" ELSE "request")
  /\ UNCHANGED <<disk, registry, after>>

NextRequest ==
  /\ pc = "request"
  /\ Goto(IF Len(current.reqs) = expected THEN "settle"
          ELSE IF abort THEN "drain" ELSE "reply")
  /\ UNCHANGED <<disk, registry, expected, after>>

\* Mutant: request numbers start at 0.
WithOutcomeFromZero(status, flawed) ==
  [current EXCEPT !.reqs = Append(@, [number |-> Len(@), status |-> status,
                                       flawed |-> flawed])]

\* handle_llm_requests with one outcome
WithOutcome(status, flawed) ==
  [current EXCEPT !.reqs = Append(@, [number |-> Len(@) + 1, status |-> status,
                                       flawed |-> flawed])]

HaltsBatch(status) ==
  \/ HaltOnBadJson /\ status = "invalid_json_answer"
  \/ HaltOnParseError /\ status \in {"token_limit_exceeded", "provider_reply_parse_error"}

\* The request ends: with an answer, in failure, or given up because of Stop.
Reply(status, flawed) ==
  /\ pc = "reply"
  /\ status \in OfferedReplies \/ (abort /\ status = "aborted_by_user")
  /\ flawed => status \in {"ok", "invalid_json_answer"}
  /\ Commit(WithOutcome(status, flawed), IF HaltsBatch(status) THEN "drain" ELSE "request")
  /\ after' = IF HaltsBatch(status) THEN "raise" ELSE after
  /\ UNCHANGED expected

\* The provider's answer (key, certificate, proxy) is a ConfigurationError.
FatalReply ==
  /\ pc = "reply"
  /\ Commit(WithOutcome("network_failure", FALSE), "drain")
  /\ after' = "raise"
  /\ UNCHANGED expected

\* Mutant: the remaining requests are counted one short.
RecordNotAttemptedShort ==
  /\ pc = "drain" /\ Len(current.reqs) < expected - 1
  /\ Commit(WithOutcome("not_attempted", FALSE), "drain")
  /\ UNCHANGED <<expected, after>>

\* remaining(): the requests not made are recorded one by one.
RecordNotAttempted ==
  /\ pc = "drain" /\ Len(current.reqs) < expected
  /\ Commit(WithOutcome("not_attempted", FALSE), "drain")
  /\ UNCHANGED <<expected, after>>

DrainEnds ==
  /\ pc = "drain" /\ Len(current.reqs) = expected
  /\ Goto(IF after = "raise" THEN "interrupt" ELSE "settle")
  /\ UNCHANGED <<disk, registry, expected, after>>

\* Any other exception once the conversion is recorded.
RequestCrashes ==
  /\ pc \in {"frames", "request", "reply"}
  /\ Goto("interrupt")
  /\ after' = "continue"
  /\ UNCHANGED <<disk, registry, expected>>

-----------------------------------------------------------------------------
(* Closing a file: finalize_file, record_file_interruption, the circuit breakers *)

\* Mutant: an answer that is not JSON feeds the counter of the server's failures.
VerdictOfAnyFailure(statuses) ==
  IF "ok" \in statuses THEN "ok"
  ELSE IF statuses \cap {"network_failure", "provider_reply_parse_error", "invalid_json_answer"} # {}
       THEN "network" ELSE "neutral"

Verdict(statuses) ==
  IF "ok" \in statuses THEN "ok"
  ELSE IF {"network_failure", "provider_reply_parse_error"} \cap statuses # {} THEN "network"
  ELSE IF "invalid_json_answer" \in statuses THEN "content"
  ELSE "neutral"

Count(verdict) ==
  IF verdict = "ok" THEN [network |-> 0, content |-> 0]
  ELSE [network |-> failures.network + (IF verdict = "network" THEN 1 ELSE 0),
        content |-> failures.content + (IF verdict = "content" THEN 1 ELSE 0)]

Tripped(verdict, counts) ==
  verdict \in {"network", "content"} /\ counts[verdict] >= MaxFailures

JudgeFile ==
  LET verdict == Verdict(ReplyStatuses(current))
      counts == Count(verdict)
  IN  /\ judged' = Append(judged, ReplyStatuses(current))
      /\ IF Tripped(verdict, counts)
         THEN EndRun(IF verdict = "network" THEN "network_breaker" ELSE "content_breaker")
         ELSE NextFile /\ failures' = counts

\* What finalize_file demands of the rows before it commits.
FinalizeAllowed(a, n) ==
  /\ a.range # ""
  /\ Len(a.reqs) = n
  /\ n > 0 => /\ \E i \in DOMAIN a.reqs : a.reqs[i].number = 1
              /\ \E i \in DOMAIN a.reqs : a.reqs[i].number = n
              /\ \A i \in DOMAIN a.reqs : a.reqs[i].number \in 1..n
  /\ \A i \in DOMAIN a.reqs : a.reqs[i].status \notin UnfinishedStatuses

CutShort == abort \/ ReplyStatuses(current) \cap {"aborted_by_user", "not_attempted"} # {}

FinalizeFile ==
  /\ pc = "settle" /\ ~ CutShort
  /\ IF FinalizeAllowed(current, expected)
     THEN /\ registry' = [registry EXCEPT ![current_id] =
                            [current EXCEPT !.complete = TRUE, !.error = FALSE]]
          /\ JudgeFile
          /\ UNCHANGED <<disk, skips>>
     ELSE /\ Goto("interrupt")
          /\ after' = "continue"
          /\ UNCHANGED <<disk, registry, expected>>

LeaveUnfinished ==
  /\ pc = "settle" /\ CutShort
  /\ Goto("interrupt")
  /\ UNCHANGED <<disk, registry, expected, after>>

\* record_file_interruption, then what the exception or the return leads to
RecordInterruption ==
  /\ pc = "interrupt"
  /\ registry' = [registry EXCEPT ![current_id].error = @ \/ ~ current.complete]
  /\ \/ after = "judge" /\ JudgeFile
     \/ after = "continue" /\ NextFile /\ UNCHANGED <<failures, judged>>
     \/ after = "raise" /\ EndRun("failed") /\ UNCHANGED judged
  /\ UNCHANGED <<disk, skips>>

-----------------------------------------------------------------------------
(* The surroundings *)

\* stop_processing, or closing the window
Stop ==
  /\ pc # "idle" /\ ~ abort
  /\ abort' = TRUE
  /\ UNCHANGED <<disk, registry, pc, fileVars, expected, after, failures, ai_enabled, result,
                 runs, first_id, historyVars>>

RewriteSource(f, data) ==
  /\ disk[f].mtime < MaxEdits
  /\ disk' = [disk EXCEPT ![f] = [mtime |-> @.mtime + 1, data |-> data]]
  /\ UNCHANGED <<registry, pc, fileVars, expected, after, failures, runVars, historyVars>>

\* A statement fails: the transaction rolls back and the run ends with a RuntimeError.
DatabaseFails ==
  /\ pc \in Labels \ {"idle", "loop", "hash", "request"}
  /\ EndRun("database_error")
  /\ UNCHANGED <<disk, registry, historyVars>>

\* The process is killed; what was committed stays.
Kill ==
  /\ pc # "idle"
  /\ EndRun("killed")
  /\ UNCHANGED <<disk, registry, historyVars>>

-----------------------------------------------------------------------------
Converting ==
  \/ LoopEnds \/ StatFails \/ StatSource \/ HashStopped \/ HashSource
  \/ HandleFileStarted \/ StartRefused \/ ConversionCrashes \/ VerifySource \/ RestatFails
  \/ \E s \in PageStatuses : HandleFrameSaved(s)
  \/ \E range \in RangeStatuses \ {""} : HandleFileCompleted(range)

Answering ==
  \/ PlanRequests \/ NextRequest \/ FatalReply \/ RecordNotAttempted \/ DrainEnds
  \/ RequestCrashes \/ FinalizeFile \/ LeaveUnfinished \/ RecordInterruption
  \/ \E status \in RequestStatuses, flawed \in BOOLEAN : Reply(status, flawed)

Worker == Converting \/ Answering

Next ==
  \/ \E noRetry \in NoRetryChoices : StartRun(noRetry)
  \/ Worker
  \/ Stop \/ DatabaseFails \/ Kill
  \/ \E f \in Files, data \in Contents : RewriteSource(f, data)

\* The worker thread is scheduled; nobody has to start a run, stop it or edit a file.
Spec == Init /\ [][Next]_vars /\ WF_vars(Worker)

-----------------------------------------------------------------------------
(* Properties *)

FewestCovering(n, frames) ==
  /\ n * PerRequest >= frames
  /\ n > 0 => (n - 1) * PerRequest < frames

Numbered(a) == \A i \in DOMAIN a.reqs : a.reqs[i].number = i

\* A row marked processing_complete is whole: its conversion is recorded and, with AI on,
\* every saved JPEG was covered by a planned request and every planned request was really
\* made, whatever was stopped, killed or halted around it (finalize_file).
CompleteIsWhole ==
  \A id \in DOMAIN registry :
    LET a == registry[id] IN
      a.complete =>
        /\ a.range # "" /\ Numbered(a)
        /\ FewestCovering(Len(a.reqs), IF a.ai THEN a.pages["ok"] ELSE 0)
        /\ ReplyStatuses(a) \cap UnfinishedStatuses = {}

\* The checks of finalize_file never refuse a file the loop wants to close: the plan
\* counted by _process_file and the rows saved by execute_network_inference agree.
FinalizeNeverRefused == pc = "settle" /\ ~ CutShort => FinalizeAllowed(current, expected)

\* The pages of a complete attempt with a digest all come from the bytes that have that
\* digest, however the file was rewritten between stat, hash, conversion and re-check.
CompleteFromOneVersion ==
  \A id \in DOMAIN registry : \A fp \in registry[id].source :
    registry[id].complete /\ fp.sha # NoDigest => registry[id].bytes \subseteq {fp.sha}

\* A file is skipped only because an earlier attempt has one of the results chosen in
\* NO_RETRY_STATUSES, and a complete one converted the very bytes the file holds now.
SkippedWasConverted ==
  \A skip \in skips : \E id \in DOMAIN registry :
    LET a == registry[id] IN
      /\ a.path = skip[1]
      /\ overall_result(a) \in UNION NoRetryChoices
      /\ a.complete => a.bytes \subseteq {skip[2]}

\* Bytes already covered by a no-retry attempt are never sent to the provider again, as
\* long as the file could be read: size and time, the digest and the re-check after the
\* conversion together see to that.
NothingSentTwice ==
  pc = "reply" /\ (\E fp \in source : fp.sha # NoDigest) =>
    \A old \in completed[index] : old.sha \notin current.bytes

\* A run that says done leaves no file behind: each was skipped, or has exactly one
\* attempt of this run, which is complete or says why not.
DoneCoversEveryFile ==
  result = "done" =>
    \A f \in Files :
      \/ \E skip \in skips : skip[1] = f
      \/ \E id \in DOMAIN registry :
           /\ id > first_id /\ registry[id].path = f
           /\ registry[id].complete \/ registry[id].error
           /\ \A other \in DOMAIN registry :
                other > first_id /\ registry[other].path = f => other = id

\* What is wrong with a file, by what its requests ended with: the AI server failed on
\* one of them, or the server did not fail and a reply was no valid JSON.
ServerFailed(statuses) ==
  "network_failure" \in statuses \/ "provider_reply_parse_error" \in statuses
AnswerFailed(statuses) == ~ ServerFailed(statuses) /\ "invalid_json_answer" \in statuses
FailedBy(kind, statuses) ==
  \/ kind = "network" /\ ServerFailed(statuses)
  \/ kind = "content" /\ AnswerFailed(statuses)

\* The breaker counters equal what they stand for: the files of each kind since the
\* last successful reply, and the run never goes on once one reaches the limit.
SinceOk(kind) ==
  {i \in DOMAIN judged : FailedBy(kind, judged[i]) /\ \A j \in i..Len(judged) : "ok" \notin judged[j]}

BreakersCountSinceSuccess ==
  pc # "idle" =>
    /\ failures.network = Cardinality(SinceOk("network")) /\ failures.network < MaxFailures
    /\ failures.content = Cardinality(SinceOk("content")) /\ failures.content < MaxFailures

\* The database is an append-only ledger of attempts (see AttemptLedger): no kill, stop,
\* failed commit or restart ever lets the program write into an earlier attempt, or into
\* one it has completed or given up.
Facts(a) == PageCount(a) + Len(a.reqs) + (IF a.range = "" THEN 0 ELSE 1)

Entry(a) ==
  [path |-> a.path, facts |-> Facts(a),
   standing |-> IF a.complete THEN "complete" ELSE IF a.error THEN "given_up" ELSE "open"]

Ledger == INSTANCE AttemptLedger
            WITH Paths <- Files, ledger <- [id \in DOMAIN registry |-> Entry(registry[id])]

LedgerSpec == Ledger!Spec

\* A run comes to an end, whatever the provider answers, and Stop brings it there.
RunEnds == pc # "idle" ~> pc = "idle"

=============================================================================
