# Seva's Media Processor: a TLA+ model

The program is a local desktop application (a pywebview window, a Flask server and a SQLite
database in one process).  It walks through a folder of videos, PDFs and images, converts each
file to JPEGs, optionally sends them to an AI provider, records every outcome in SQLite so that a
run can be stopped, killed and resumed, and exports the results.

This directory holds modules that model its control logic, configurations that check them with
TLC, and theorems checked with TLAPS.  `PROJECT.json` lists runs, mutants, source lines, hazards,
findings and theorems in machine-readable form.

## Components of the system

| component | code | state it keeps | operations | what makes it correct |
|---|---|---|---|---|
| batch loop | `batch_orchestrator.py` | position in the list of files, current file_id, two failure counters | skip or process a file, judge it, end the run | no file is lost, none is sent twice, the breakers count what they say |
| attempt database | `db_controller.py`, `db_schema.py` | file_registry, page_log, llm_requests, llm_answers; three views | start, page, completion, request, finalize, interruption | append-only attempts; complete means whole; statuses follow from rows |
| AI request client | `llm_client.py` | per request: attempts, notes, corrective messages | plan, send with retries, parse, judge, halt | every planned request gets exactly one outcome; Stop is seen; no reply is lost |
| run controller | `routes/execution_api.py`, `central_logger.py` | phase, revision, run id, terminal event, listener queues | start, stop, status, event stream | one run at a time; a stop reaches its own run; the last state wins |
| run client | `static/app.js` | last accepted run state, pending start and stop | accept a state, reconcile, start, stop | never goes back to an older state, never stuck |
| processor core | `app_context.py` | settings, database, abort flag | open or rebuild the database, check the run identity, run, export | results of different settings never mix |
| settings | `config_loader.py`, `routes/settings_api.py`, `config_validator.py` | settings file, token file, revision, operation receipts | commit, reset, wipe a token | a retried commit is applied once; nothing is half saved unnoticed |
| exporter | `data_exporter.py`, `routes/export_api.py` | reserved names, temporary files, recovery sources | write one report atomically, retry, recover | no partial report under a final name; nothing overwritten |
| pipelines, converter, ranges | `pipelines/`, `to_jpeg_converter.py`, `range_parsers.py` | none between files | pages of one file, page and time ranges, JPEG quality | the pages asked for, in order, within limits |
| window and process | `main.py`, `windows_shell.py` | window state | start the server, close | closing stops the run first |

How they interact.  The browser page calls the Flask routes and listens to a server-sent event
stream.  `start_processing` builds a `ProcessorCore`, which opens the run folder and refuses a
database made with other settings, and starts one worker thread; the worker runs the batch loop,
which pulls pages out of a converter generator and commits each one, hands the saved JPEGs to the AI
client, and closes the file; after the last file it exports the database.  The same export can be
asked for from the page.  Settings are edited in a form of the page, saved through revisioned
operations, and read again by each start.  The only state the worker shares with the request
handlers is the abort flag and the controller's record of the run (under its lock).

What is hard: Stop racing the worker at every point; the process killed, or a commit failing,
between any two commits, those of a start included; a source file rewritten while it is looked at;
a page or a write that fails in the middle of a conversion or a report, other programs holding the
files of a report; retries of lost HTTP
answers (start, stop, settings); errors that must halt a batch without leaving rows that do not
add up; two failure counters fed by four kinds of files.

## Modules

| module | what it is |
|---|---|
| `StatusViews` | the three SQL views as functions of an attempt's rows |
| `BatchRun` | the batch loop, the database's operations on attempts and the request plan, over several runs |
| `AttemptLedger` | the abstract specification of the database: an append-only ledger |
| `MCBatchRun` | values for the constants in the configurations |
| `BatchRunProofs` | the two inductive invariants and the theorems on BatchRun: its rows, that it implements AttemptLedger, what a batch leaves behind |
| `RunController` | the server's side of a run: the controller, its handlers, the end of `ProcessorCore.run`, the export lock, the event queue |
| `RunClient` | the page's side: the run client and the report panel, with the requests and the stream between them and RunController |
| `Ordered`, `OrderedProofs` | a finite set of numbers in rising order, and what is proved of it |
| `AnswerJudge` | the search for the JSON in a reply and the judging of its rows, as functions |
| `RunClientProofs` | the two inductive invariants and the theorems on RunClient |
| `LLMRequest` | one request: images, calls with retries, attempts at JSON, giving up on Stop |
| `RequestContract` | the abstract specification of one request: what BatchRun takes for a single step |
| `LLMRequestProofs` | the theorems on LLMRequest, that it keeps RequestContract among them |
| `RunControllerProofs` | the inductive invariant and the theorems on RunController |
| `RunSetup` | what a start does before its run: archive, open, rebuild or refuse the run folder; composed with RunController |
| `RunSetupProofs` | the inductive invariant and the theorems on RunSetup |
| `SettingsService` | the server's side of the settings: operations with receipts, two files, wipe, reset |
| `SettingsPage` | the form of the page and the requests between it and SettingsService |
| `SettingsProofs` | the inductive invariants and the theorems on SettingsPage and SettingsService |
| `PageRanges`, `TimeRanges` | the page and time selectors and the samplers, as functions |
| `JpegConverter` | one picture: orientation, densities, size, quality, as functions |
| `Conversion`, `VideoConversion` | the pipelines, page by page, with what every conversion promises |
| `ReportRows` | what the reports of a database contain, as functions |
| `ReportExport` | one export of a database: reserve, write, name, rename, retry, recover |
| `FileToReport` | composes the conversion of a file, the records made of it and the export |
| `FileToReportProofs` | the inductive invariants and the theorems on the conversion of a file and on the export |
| `MCRunController`, `MCRunClient`, `MCLLMRequest`, `MCSettings`, `MCFileToReport` | values for the constants in the configurations |

### BatchRun

State and code.  `registry` is the database: file_id to an attempt's row with its page counts and
its request rows.  An id can be missing: the loop uses up a file_id even when `handle_file_started`
raises.  `disk` is the input folder.  `pc`, `index`, `current_id`, `completed`, `source`,
`expected`, `failures` are the worker's local variables; `abort` is the abort flag.  `skips`,
`judged` (the statuses the requests of each file ended with), `first_id` and a row's `bytes` are
history variables read only by properties.

| actions | code |
|---|---|
| StartRun, LoopEnds, NextFile, EndRun | `execute_batch_processing_loop`, the end of `ProcessorCore.run` |
| StatFails, StatSource, HashStopped, HashSource, SkipFile | `_source_decision` |
| HandleFileStarted, StartRefused, HandleFrameSaved, HandleFileCompleted, ConversionCrashes, VerifySource, RestatFails | `_process_file` up to the second stat |
| PlanRequests, NextRequest, Reply, FatalReply, RecordNotAttempted, DrainEnds, RequestCrashes | the rest of `_process_file` with `execute_network_inference` |
| FinalizeFile, LeaveUnfinished, RecordInterruption, JudgeFile | `finalize_file`, `record_file_interruption`, the circuit breakers |
| Stop, DatabaseFails, Kill, RewriteSource | the surroundings |

Each action ends at a commit or at a point where the worker reads something another actor
changes (the abort flag, a source file), so every interleaving the code allows is there.

Abstractions.  A file is a modification time and its bytes; two contents of the same size stand
for every edit the size does not show.  Pages are counted by status, which is all the views and
the plan read.  What happens inside one request (retries, the corrective JSON ladder, judging the
answer) is its final status.  Every rewrite advances the modification time: two rewrites inside
one tick of the clock are out of the model.  Kill keeps every commit.

Fairness.  Only `WF_vars(Worker)`: the worker thread is scheduled, each of its calls returns, and
nobody is obliged to press Stop, start
a run or edit a file.  That a request to the provider returns is what LLMRequest looks into: it does
after Stop whatever the provider does, and otherwise if each call comes back.  The code's timeout
is one between bytes, so a server that trickles a reply for ever keeps a run going until Stop.

### RunController and RunClient

RunController's variables are the fields of the class of that name, the abort events of all runs,
the export numbering of `export_api.py` and the queue of the one listener.  Every handler holds the
controller's lock from its first test to its last assignment, so each is one action; an export
holds it for as long as it writes (`exporting`).  The worker thread takes the lock once per emit,
and the steps of `ProcessorCore.run` between two emits are actions of their own, because requests
come in between: the result is numbered (`NumberResult`), emitted (`EmitResult`), the abort flag is
read (`ReadVerdict`), the verdict emitted (`EmitVerdict`), the database closed (`ShutdownFails` if
that raises), the phase set (`WorkerEnds`).  By itself RunController takes Start and Stop for any
run at any time; RunClient closes the system with the page.

| actions of RunController | code |
|---|---|
| StartAccepted, StartRepeated, StartRefused, StopAccepted, StopRefused, GetStatus | `start_processing`, `stop_processing`, `get_status`, `RunController.stop` |
| ExportBegins, ExportEnds, ExportRefused | `export_database` |
| Progress, NumberResult, EmitResult, ReadVerdict, EmitVerdict, ShutdownFails, WorkerEnds | `RunController.worker`, `emit`, the end of `ProcessorCore.run` |
| AddListener, RemoveListener | `SSEBroadcaster`, `stream` |

In RunClient `ui` is the page: the run shown (`state`), the revision observed, the pending run id,
the phase to go back to, the sequence of run ids, the reconcile timer, and the variables of the
report panel.  `net` holds a request from the fetch to the moment its promise settles.  A fetch may
fail at any time: the request was handled, will be, or never arrives.

| actions of RunClient | code |
|---|---|
| startProcessing, stopProcessing, exportDatabase, Timer | the click handlers up to their fetch, the timer of `reconcileRun` |
| Handle, FinishExport | the server takes a request (an action of RunController) and answers |
| StartAnswered, StopAnswered, StatusAnswered, ExportAnswered | the handlers after `await fetch` |
| StartFails, StopFails, StatusFails, ExportFails | their `catch` and `finally` blocks |
| Resend | external: the transport repeats a POST |
| StreamRegisters, StreamOpens, StreamBreaks, Deliver | `attachSSEStream` |

Abstractions.  Progress values, messages, notices and dialogs are left out; the page is not
reloaded; whether settings allow Start is not modelled, the server refuses at will
(`StartRefused`).  The progress event that goes before "done" is one step with it: between the two
no other step can tell the difference.  An outcome is its kind, number and run.  The history
variables `published`, `asked`, `ui.announced` and the run in an unknown outcome are read by
properties only.

Fairness (`FairClientSpec`).  The worker's steps, the server's handling of requests whose fetch is
still waiting, the page's handling of replies, the end of an export, the stream and the timer: each
is a thread, a browser task or a timer that nothing holds up for ever, since every lock is given
back and every request in the worker has a timeout.  Nobody has to click, and a request whose
fetch has failed may never arrive.

### RunSetup

`folder` is the current run's folder as far as a start reads it: whether it is there, whether its
tables are this version's (`shape`), the configuration and the digest of the identity recorded in
it, and its rows, each an attempt with its number and the settings it was made with.  `archives`
are the folders moved away, `request` the start being served with the stage of the constructor,
`core` what each worker was started with, `attempts` numbers the attempts.

| actions | code |
|---|---|
| StartBegins, Refused, SetupFails, RunBegins | `start_processing` around the constructor |
| ArchiveFolder, ArchiveLocked, MakeFolder | START_OVER and the folders in `ProcessorCore.__init__` |
| OpenDatabase, RefuseOldDatabase, DropTables, CreateTables | `SQLiteDatabaseController.__init__`, `_rebuild_empty_database` |
| RefuseOtherConfiguration, RecordConfiguration | the configuration the user is told of |
| KeepIdentity, RecordIdentity, RefuseOtherIdentity | `ensure_run_identity` |
| HandleFileStarted | an attempt of the batch loop, all that a start can meet of it |
| Kill | the process ends and the application is started again |

Each action ends at a commit or at a change to the file system, and Kill comes between any two.
The rest of RunController's Next goes on around them (`Serving`); what takes the controller's lock
waits while a start holds it.  The event stream and the refused Stops are left to the runs of
RunClient.

Abstractions.  The settings are two names, the configuration (AI, mode, columns) and the digest of
everything else, which stands for the source folder too; a hash that collides is out of the model.
A folder found is one of an earlier version, without an identity; it may hold one row.  TECH, where
the database lies, is inside the run folder, so a folder that is there is never empty.  There is one
process: two windows of the program on one folder are looked at in ReportExport only.

What the code does besides.  The rebuild of an empty database is not one transaction, because the
driver commits the dropping of tables by itself: a kill in between loses the configuration recorded
in an empty database, and nothing else.  An empty database recorded under other settings is refused
although nothing would mix.  A start refused after the database was opened (the AI client, a range)
leaves its records; the next start meets them.

### LLMRequest

One request is two threads: the worker, and one thread for each HTTP call (`call`), which the worker
leaves to itself when it gives up.  `ladder` and `retry` are the two loop counters, `frame` and
`sent` the images tried and sent, `text` and `kept` what `_process_request` carries from one attempt
to the next, `outcome` how it ended.  `replies`, `reason`, `kept_from` are history variables.

| actions | code |
|---|---|
| EncodeFrame, EncodeStopped, BeginLadder | `_encode_request_content`, `_process_request` up to its loop |
| BeginAttempt, Read (JudgeAnswer, Unusable) | the loop of `_process_request`, `_parse_response_text`, `_judge_answer_text` |
| Post, PostStopped, GiveUp | `_post_with_abort` |
| CallFails, CallAnswered | its `_do_request`, in the HTTP thread |
| Collect, PauseEnds | `_send_request_with_retries`, `_abortable_sleep` |
| Stop | `RunController.stop` |

Abstractions.  A reply is a member of Answers: cut off or not, its text where it should be or not,
and the text.  What can go wrong with a call is reduced to what the client does about it: tried
again ("network"), given up ("rejected"), halting the batch ("fatal"), ended by the flag
("aborted"), anything else ("crash").  A text is the sequence of its opening brackets with what
decoding from each one gives, so that the search can be compared with a definition of the value it
ought to take; a row is the page it claims.  Texts are named by the number of the reply.  SampleTexts,
SampleRows and SamplePages are the inputs on which the search and the judging are compared with
their definitions; they have no part in the steps.

Fairness.  `WF_vars(Worker)` only: the provider owes no answer, so what ends a request after Stop
ends it without one.

### SettingsService and SettingsPage

Every handler runs inside `settings_transaction`, so each is one action: `Commit` (and the two ways
it can fail half-way, `SettingsNotSaved` and `TokenNotSaved`), `WipeToken`, `ResetSettings`
(`NotMoved`, `DefaultsNotSaved`), all behind the wrapper that looks for a receipt, forgets old ones
and refuses a superseded base revision (`settings_operation`).  In the page, EditField,
revertDraftField, RevertFrame, discardGlobalDraft change the draft; commitGlobalDraft, wipeToken and
resetSettings send; TakeCommit, TakeWipe and TakeReset handle a reply (`commitGlobalDraft` after its
await, `acknowledgeSettings`, `acknowledgeTokenWipe`, `settingsOperationFailure`); FetchFails and
Resend are the transport.

Abstractions.  Two controls stand for all: an ordinary field and the token, which lives in a file of
its own and is shown masked.  What is typed is the number of the edit, so a value tells when it was
typed.  Which drafts validation refuses is the constant Refused.  Repair fields, notices and drawing
are left out, and so is the epoch, which changes only when application and page start anew.

What the code does besides.  A token wiped while a save is in flight comes back into the draft if the
user touches the field, or reverts it together with its provider, before the reply
(`WipedStaysWiped` excludes this).  A reset that fails raises reset_revision all the same, and a save
it supersedes loses its edits.  A wipe whose reply is lost is reported as not done though it may be.
A reset that fails after the rename and is repeated names a backup that does not
exist.  A wipe whose answer is repeated after a later wipe failed and a token was saved makes the page
say that the token is wiped while one is stored; this is why the properties ask of a reply that it
shows no token.  A repeated reset whose receipt was dropped is answered "unknown": the page
takes no settings from that answer, tells the user to restart (`err_settings_operation_unknown`), and
until then may show settings from before the reset.

### PageRanges, TimeRanges, JpegConverter, Conversion, VideoConversion

A source file is a record of what the code reads of it: its kind, the range typed, its frames (scene,
time, key), its header if it is a video.  `FilesAssumption` says what the code relies on whatever is
in the file: what is typed compiles to parts (one without a dash names one number), a page range
has passed `PageSegmentModel`, and the decoder hands out the frames of a
video that have a pts in the order of their pts.  Each row a generator yields is one step, and between any
two the caller may stop and close it (`Stopped`).  What a decoder does is a choice: at most
MaxMishaps times it fails in one of the ways the code handles.

| actions | code |
|---|---|
| Rejected, OpenFails, NoPages | `evaluate_and_route`, the openings of the pipelines |
| OpenDocument, OpenImage, OpenAnimation, PageSaved, PageFails | `document.py`, `static_image.py` |
| AnimationEndsEarly, FrameCorrupt, FramePassed, FrameStatic, FrameSaved, FrameFails | `animation.py` |
| OpenVideo, EndOfStream, SceneStatic, SceneSaved, DecoderRejects, SceneFails | `video.py` |
| CloseFails, Stopped, finalize_results | the `finally` blocks, `finalize_results`, `abort_pipeline` |

The selectors, the samplers and `process_image` are functions; times are whole ticks, sizes whole
dots, so a collision of floats is a collision of numbers.  The properties compare them with
definitions of their own (Wanted, ShapeAsIntended), not with the code's.

`PageFails` leaves out a page that fails to close after it was saved: `process` of `document.py` would
count it as converted and as failed, but closing a page reports no error.

What the code does besides.  A document that fails after its pages were yielded adds a second row for
page 1.  A range of nothing but commas selects nothing.  A file cut at DOCUMENT_MAX_PAGES whose range
also passes its end is told of only one of the two.  The budget of moments holds for each segment.  A
video frame without a pts gets the time 0.  A picture whose EXIF data cannot be written back and
whose densities differ is stretched the wrong way (`ShapeAsIntended` leaves it out).
`process_image` writes in place, so a failed write leaves part of a JPEG under its name; its row says
failure.

### ReportRows, ReportExport, FileToReport

ReportRows is the Results and the sheets as functions of the tables: which rows, pages, times and
notes.  ReportExport takes one report after the other through `_atomic_write`.

| actions | code |
|---|---|
| StartExport, ConfigurationMissing, ReadConfiguration, ChooseStamp, ExportFails | `_export`, the queries of `_recovery` |
| Reserve, Write, Name, Rename | `_atomic_write` |
| TryAgain, LastAttempt, NameTaken, JobRefused, DataFails, GiveUp | its failures, the retries, the recovery workbook |
| AnotherProgramWrites, AnotherRunCommits, Locked, Killed | the surroundings |

A missing database or configuration is raised as an error without an outcome (phase "refused").  Whatever
fails outside of a report ends the export with a failure of its own ("Export"): before the first report,
or where `_recovery` reads the database after a workbook failed on its data.

`AnotherRunCommits` is another window of the program: nothing keeps two of them from running, and
the controller's lock is in one process.  A rename never replaces: on Windows, where the program is
meant to run, it refuses a name that exists.

FileToReport composes them: a file is converted, each shape its records can take is a choice
(an attempt before it, a stop, a kill, an AI whose answers have a flaw, requests not made), the
database may be damaged, and the export follows.  How the answers come about and how the loop goes on
are the subject of LLMRequest and BatchRun.

What the code does besides.  Notices of a workbook whose rename then failed stay in the outcome.  A
compressed animation carries no note.  When one request of a file has flawed answers, the rows of its
other requests carry no note of it (`BadResultsAreExplained` says that some row does).

### Runs

Every run says CHECK_DEADLOCK FALSE: once the last allowed run has ended and no rewrite is left, or
once the request has ended, the system rests.

| run | bounds | question |
|---|---|---|
| resume | 1 file, 2 contents of one size, 2 rewrites, 1 page, 2 runs, NO_RETRY either {ok} or {ok, partial_fail} | Is a file skipped only for bytes already converted?  Is a complete attempt made from one version?  Are the same bytes ever sent twice? |
| requests | 2 files (one cannot be stored, so ids have gaps), 3 pages of two kinds, 2 JPEGs per request, 2 runs, HALT_ON_LLM_PARSE_ERROR on | Is a complete row whole?  Does finalize_file ever refuse?  Is the database an append-only ledger? |
| breakers | 3 files, the last one rejected, AI on or off, 1 request each, limit 2, replies ok, network failure, bad JSON, token limit | Do the counters mean what they say?  Does done account for every file?  Does every run end? |
| lost_file | 2 files, AI off, 2 runs, the rejected file has an extension SQLite refuses | violated: see Findings |
| controller | 2 runs, 3 profiles, 4 folders found, 2 attempts, 1 archive, 1 kill, requests and progress up to revision 5, 2 numbers for exports, no event queue | Starts, refusals and kills around RunController under any requests: are results of different settings kept, and kept apart?  One user of the database at a time, a late Stop, numbers |
| replies | page, 2 runs, 1 Stop, one fetch of Start, Stop or status fails, a queue of 2 that overflows | Does any order of replies and events bring back an old state, or announce an end twice?  Is what the page shows what the controller published?  Is Start ever offered twice? |
| exports | page, 2 runs, 1 manual export whose reply may be lost | Does the panel ever show a result of another run, or hide that one is unknown? |
| end_shown | page, 1 run, 1 Stop, two faults: the stream breaks, a fetch of Start or Stop fails, a Start is repeated | Does the page always learn of the end?  Does a repeated Start begin a second run? |
| llm_request | 2 images (pages 1 and 3), 2 tries per call, 3 attempts, 14 kinds of reply; texts of up to 4 brackets, 3 of them tried; up to 3 rows on up to 2 pages | How does a request end, what is recorded of it, and does it end?  Is the JSON taken the right value, and every page accounted for? |
| settings | 3 operations, 2 receipts kept, 2 edits, 1 failing write, 1 fault of the transport, one value refused | Is an operation carried out twice, or the user told what is not so?  Does the form show what is on disk when Start is offered?  Does a wiped token come back, or an edit get lost?  Does a reset lose settings? |
| file_to_report | 2016 small files of every kind, 2 mishaps; a document, an animation and a video followed into the reports, 1 export, 2 attempts at a report, sheets of 2 rows, 2 JPEGs per request | Do rows, pictures and ranges tell what was converted?  Do reports tell what was recorded, whole, of one state, without replacing a file?  Does an export account for every report and every row? |
| saving | page, 1 run, 1 manual export | violated: see Findings |

Why the bounds are enough.  Two rewrites let a file change and change back between any two looks
at it; two runs let a run meet what an earlier one left, and the second one can be the resume of
a resume because the registry it meets is arbitrary.  Three pages in requests of two give a full
and a partly filled request; three files with a limit of two let a counter be fed, held, reset
and trip.

On the page, an old state comes from a request or event of the run before, so two runs are what the
ordering properties need; one lost fetch of each kind beside them gives every pair of a late request
and a later one.  `Mishaps` says whether a run may fail and closing the database may raise: both in
controller, where no page multiplies the states, a failing run in end_shown.  With the starts
modelled step by step, revision 5 is enough for a run that fails, a second one, and a Stop that was
meant for the first; the proofs carry no such bound.  end_shown leaves out failing status requests:
the code sets no timer when one fails while a run is shown as running, so a lost answer after a
reconnect is not asked for again; and its queue of 8 never overflows (the real one holds 1000).  In
a run with a page, progress events are left out, which no property of it reads (MaxRevision = 0);
the safety of a broken stream rests on the same `acceptRunState` that replies checks.  A repeated
Start that arrives after another run was begun and ended would begin its run again; the run identity
has no memory, and no transport holds a request that long.

In settings, three operations with two receipts let the first one be forgotten while a copy of its
request is still under way; the real 64 receipts need 65.  Two edits are one before and one after
whatever happens in between.

In file_to_report, two mishaps are a failure and a failure of what is done about it (a retry, a
closing, the recovery workbook).  Limits of 2 and 3 pages, frames and rows put files below, at and
past each limit.  Three followed files are one for each way a time and a page number come about;
every conversion is checked, but only theirs are multiplied by the shapes of records and exports.

In llm_request, three attempts let two failed ones precede one that ends otherwise, and pages 1 and 3
tell a page from its position.  The real limit on brackets is 256; a limit of 3 in texts of 4 is
what lets the search run into it.

NO_RETRY_STATUSES is picked run by run, because the user may change it between runs; `ai_enabled` is
picked once, because the run identity refuses a database made with another value.

### Findings

`lost_file` (a bug): `handle_file_started` cleans lone surrogates out of the path but not out of
the extension; for a file named like `photo.<lone surrogate>` SQLite raises UnicodeEncodeError,
which the loop treats as an unexpected exception on one file: there is no row, and the run says
done.  A test of the same situation with the surrogate in the stem says "the file must be
registered, not lost".

`saving` (a bug): the panel says "Saving reports..." while a manual export is in flight and leaves
that text to be replaced by the answer; but when Start is pressed meanwhile and the run's barrier
reaches the page first, the answer carries a lower number and is dropped.  No export is in
progress, the panel says "Saving reports..." until the run's own reports replace it, and the
outcome of the manual export is never shown.

Not a run: the content breaker's message says "on N files in a row", but a file that ends neither
in success nor in bad JSON leaves the counter alone; tests show that the counting is intended
(`tests/test_llm_content_breaker.py:209`), so only the wording is off.

## Proofs

`BatchRunProofs` proves for every value of the constants (under `SizesAssumption` and
`DataAssumption` of BatchRun) that `TypeOK`, `CompleteIsWhole` and `FinalizeNeverRefused` are
invariants, and that `Spec => LedgerSpec`.

None of these is inductive.  `IInv` adds what each row satisfies at any time (`RowOK`: requests
are numbered 1, 2, 3 in order, and a complete row is whole), that there is a highest file_id
(`HasHighest`), and what the worker's position says of the newest row (`RowPhase`): it is the row
being written, it is open, its range status is recorded from `verify` on, `expected` is the number
of requests its saved JPEGs need, and no more rows than that are there.  Each action has a lemma;
a commit inside an attempt (`CommitKeeps`), a step without one (`GotoKeeps`), going on to the next
file (`NextFileKeeps`) and the end of a run (`RunEndKeeps`) are treated once for all of them.
Completion then follows from `SettledIsWhole`: at `settle` the rows are exactly the plan.  The
refinement adds that a commit goes to the newest entry and that the entry is open, which is what
`RowPhase` says.

Its second part proves, for any files, contents, rewrites and runs, `CompleteFromOneVersion`,
`SkippedWasConverted`, `BreakersCountSinceSuccess`, `DoneCoversEveryFile` and `NothingSentTwice`.
Where `IInv` says what the rows look like now, `HInv` ties them to what happened.  A modification
time is never used twice, so a fingerprint that has the time the file has now describes the file as
it is now (`Describes`), and whatever the converter read since is that version: this is why the second
stat after the conversion is enough.  A digest binds more: a complete row with one was made from the
bytes that have it (`Faithful`).  The breaker counters are compared with a meaning of their own
(`FailedBy`), told from the statuses recorded, and `VerdictMeans` says that the code's judgement is
that meaning.  Two of the five rest on hypotheses, and TLC refutes them without.
`DoneCoversEveryFile` supposes that the database can store every name (`Unstorable = {}`; otherwise
it is the finding of lost_file).  `NothingSentTwice` supposes that the digests compared can tell
(`DigestsComparable`: only results of complete attempts are left alone, or all contents have one
size).  The loop compares a digest with those of attempts that recorded the same size; a complete
attempt has the size of the bytes digested, but one that was interrupted because its source
was rewritten between the stat and the digest may hold another size.  If such a result is not
retried, its bytes can be sent again; with sizes 1, 1 and 2 and NO_RETRY {ok, partial_fail} TLC
finds the behaviour.

`RunControllerProofs` proves for every set of runs, every queue size and every bound
(`RunsAssumption`, `BoundsAssumption`) that `OneUserOfTheDatabase`, `StopHitsItsRun` and
`ResultAboveBarrier` are invariants.  The strengthening says that a live worker is the current
run's and that its phase is then active (so Start and an export are refused while it lives), that
the abort events are those of runs a Stop named, and that a number the current run's worker holds
is above the barrier (so the result it emits a step later still is, whatever numbers were given in
between).

`RunClientProofs` proves for every number of runs, clicks and faults that `ShownAsPublished` is an
invariant and that `RunBegunOnce` holds of every step.  The controller's chronicle (`published`)
carries the argument: a snapshot on its way, in a reply or an event, is an entry of it, and the page
is at one place of it, showing that entry or waiting for a start on top of it.  `SafeInv` says so,
whatever fails, is lost or repeated.  `StartNotOfferedTwice`, `NeverGoesBack` and
`AutomaticResultIsNews` are proved while the transport repeats no start (`"resend" \notin Faults`).
`TurnInv` adds that the runs of the chronicle follow each other with rising numbers of results, that
the page is at most one run behind, that a start not handled yet is the page's latest and of a run
not begun, and what the panel and the last number it took say of each other.  The hypothesis is
needed: with two runs and repeated starts TLC refutes `NeverGoesBack` and `AutomaticResultIsNews`.
The start of run 1, which the page gave up, is repeated after run 2 has ended; it begins
run 1 again, its end is announced twice, and its result comes onto the panel after that of run 2.
`StartNotOfferedTwice` survives this on TLC's instance and is not proved for it.

`SettingsProofs` proves for any ids, any number of receipts, edits, failing writes and faults that
`AnswersAreTrue`, `WipedStaysWiped` and `ShownIsOnDisk` are invariants and that `EditsKept` and
`NothingResetAway` hold of every step.  The invariant says that ids and revisions never run ahead
(`Numbers`), that an id stands for one operation, also in the repeats of its request (`Identity`),
that the page waits for one save at a time (`OneSave`), that an operation carried out has a receipt
or is as old as one that was dropped (`Remembered`: this is what makes a limited number of receipts
safe, for a base revision older than a dropped receipt is refused), that every status on its way is
true (`Truth`), and where a token from before a wipe may still be (`Wiping`).  For `ShownIsOnDisk`
it adds `Showing`: whatever the form shows differently from the disk is the doing of an operation
whose answer the page has not taken, and that answer is newer than what is shown.  A step of the page
is first reduced to what it does to the form, the save and the requests, one of the service to
remembering or executing, so that the parts of the invariant meet few cases.

`RunSetupProofs` proves for any profiles, any folder found and any number of attempts, archives and
kills (`ProfilesAssumption`, `FoundAssumption`) that `ResultsKeptApart`, `OneUserOfTheDatabase` and
`SetupTypeOK` are invariants of `SetupSpec`.  `FolderOK` is what every folder satisfies, the archived
ones too: without a digest it holds nothing but an earlier version's row, and with one every row was
made with the settings recorded.  `RequestOK` says stage by stage what the constructor has
established for the settings it was given, and `Running` that a running worker's settings are the
ones in the folder.  RunController's invariant comes in because no worker lives while a start is
served, so nothing is written into a folder that is being moved.  That no row is lost or doubled rests
on `Numbered`: an attempt's number is new.

`FileToReportProofs` proves for every database, any number of exports,
attempts and mishaps (`ExportAssumption`, and the assumptions of the modules under it) that
`ReportsAreWhole`, `ExportAccounts` and `ExportTypeOK` are invariants and that `NothingOverwritten`
holds of every step.  The invariant follows the temporary file: there is none before it is reserved,
it belongs to the report at the head of the queue, and `complete` vouches for it on every way into the
rename, also on the one that goes there again after a failed rename.  A workbook is the last report
of its export, so nothing is saved after it that it should have listed.  The accounting (`Settled`)
counts: a report still queued has no outcome, one that is not has exactly one, and the recovery
workbook is queued in the very step that notes why.  An export that failed as a whole before its first
report has no other outcome; later it takes the place of the recovery workbook.

Its second part proves for every set of files that satisfies `FilesAssumption`, all limits and any
number of mishaps that `RowsTellTheConversion` and `ScenesAreKept` are invariants.  The plan is a
rising sequence within the file, because every selection lies in it (a fraction of a distance does not
leave it, which is what keeps `np.linspace` inside) and `InOrder` sorts.  `ConversionInv` then
follows the loops: the rows without that of an abort are those of the first targets, each about the
frame of its target or about none; the place in the plan is the number of rows, or for an animation,
which is read picture by picture, the number of targets already passed; the counts are the sizes of
the sets of rows and sum up to all of them, so a claim that all were processed leaves no place for a
failure; a write overwrites the picture of no other target, because no two have one page; and the
frame compared with is that of a row that says ok.  That a later moment never has an earlier picture
is a fact about `Captured`: a later moment has no earlier entry point, so fewer frames come out of
the decoder and fewer of these are late enough; where none is, the last frame is taken, which every
seek reaches.

Its third part proves `SelectionIsTheRequest` under the same assumptions.  `Requested` says that the
plan is the one asked for from the moment a file is open, and that a range recorded is the plan's;
every step after the opening leaves the plan alone, so what has to be shown is shown of the four ways
to open a file.  A segment covers exactly the pages its part names (`PartCovers`), so the indices
taken are the pages wanted less one (`WantedTaken`), and the limit of a document cuts the same pages
on either side (`FirstShifts`).  Fractions of a distance larger than their number differ
(`FractionsRise`), so an animation has as many targets as its limit, the first and the last frame
wanted among them (`SummaryCounts`).  Where sampling of a video stops is at or before the last
picture (`TimesAsked`); the scan that was cut short is the one case in which the header decides, and
it is a mishap.  For the written range, the longest run of numbers around a page has an end on
either side (`SpansCover`), and a span that a run of single steps joins has no gap (`SpansLie`), so
the same pages are selected again (`PagesReadBack`).

Its fourth part is about the reports on a conversion: `OmissionsTold` and `NotesTellTheTruth`, for any
limit of a sheet and any number of pages in a request.  A sheet is a recursion over its rows; `SheetTells`
solves it, and the notices of an export are those of its snapshot on every way to a saved workbook
(`NoticesTold`).  For the notes, `Telltale` lists what the tables have of the conversion they are about:
the pages are its rows, the requests hold its frames in parcels of MAX_JPEGS_PER_INFERENCE, each answer
belongs to a request that succeeded and to one of its frames.  `Truthful` says that this is so from the
recording to the beginning of an export, or that a damage makes the references invalid, in which case
nothing is claimed.  A row without notes then leaves only one way for the attempt to have ended
(`NothingMissing`), and there the counts of the conversion leave no row that was not saved (`AllSent`).
The conversion's own status can never be mistaken for that of a failure (`RangeKnown`).

Its fifth part is about the pictures, of any size, density, orientation and tags (`PicturesAssumption`),
for any limits: `PicturesAsIntended`, and of it `ShapeAsIntended` without any hypothesis.  Every JPEG is
what `process_image` makes of its page, whatever failed before (`PicturesMade`), so the rest is
arithmetic.  A rounded quotient is the nearest number (`RoundedNear`); a side is rounded once when the
density is corrected and once more when the picture is made smaller, and with both errors each side is
off by a dot at most (`LengthenedShape`), or where the density was let pass, by the tolerance
(`EvenShape`).  `Knows` is the loop invariant of the search for the quality: what lies below has been
passed because something at or above it fitted, what lies above is too large.  That is where the theorem
needs its hypothesis (`Grows`: a better quality makes no smaller file).  The code counts on it as well,
since it never probes what it has left behind; nothing in the code makes it so.

`LLMRequestProofs` proves for every list of images, every set of answers and all limits
(`RequestAssumption`) that `TypeOK` and `LastReplyIsKept` are invariants, that
`EveryPostIsWarranted` holds of every step, and that `Spec => ContractSpec`.  The inductive
invariant says that the text kept is the one of the last reply (with none before the first call),
that a call ended by the flag means that Stop was pressed, and that an outcome exists exactly at
the end; with these each action that ends the request is a step of the contract, and each other
action leaves what the contract sees alone.

It also proves that `OkCoversSentPages` is an invariant.  `JudgingAccounts` is the part about the
function: for any rows and any pages sent without repeats, a page some row claims is answered by the
first row that claims it (a finite set of numbers has a least one), any other by the one note it gets,
and these places are all there are.  The part about the steps says that no image is sent twice and
that a status of ok comes from nothing but a judgement without complaint.  The order of the notes is
given by `InOrder`, which names the number at each place by how many are below it instead of by a
recursion; `OrderedProofs` shows that it lists every number once and in rising order.  It also shows
that a recursion over the numbers defines a function (`Recursion`): it begins in one way only, as far as
one cares to go.

The last part is about `RepliesAreReadRight`.  `TakesRightValue` says for any well-nested text, either
mode and any limit of tries that the search takes the value the reference definition names.  The search
is a recursion of turns (`Tried`), and `Going` is its loop invariant: what it has passed are the
outermost brackets before its place and no others, none of them of the expected kind or too deep to
decode; it has counted each once and kept the first value.  A turn passes exactly one outermost bracket
(`OneMore`, which needs the text to be well nested) or ends with the value to take (`TriedGoes`), so as
many turns as the text has brackets are enough.  `RepliesRead` puts this and `JudgingAccounts` together,
for whatever texts, rows and pages are looked at (`SamplesAssumption` says only what they are).

The type invariants `BatchRun!TypeOK`, `LLMRequest!TypeOK`, `ExportTypeOK` and `SetupTypeOK` are
proved, so no run repeats them; `RunController!TypeOK` and `SettingsPage!TypeOK` were model-checked
while their modules were written and are kept as documentation of the types.

Only model-checked: `RunEnds`, `EndIsShown`, `StopSettles` and `RequestEnds` stay with TLC, since
liveness under fairness is out of the prover's reach.  The two
properties of violation runs are false.

## Plan

1. `StatusViews`, `BatchRun`, `AttemptLedger`, their runs and proofs (done).
2. `RunController`, `RunClient`, their runs, and the proofs about the controller (done).
3. `LLMRequest`, `AnswerJudge`, `RequestContract`, their run and proofs (done).
4. `SettingsService`, `SettingsPage` and their run (done).
5. `PageRanges`, `TimeRanges`, `JpegConverter`, `Conversion`, `VideoConversion`, `ReportRows`,
   `ReportExport`, `FileToReport`, their run and the proofs about the export (done).
6. `RunSetup`, in the run of the controller, and its proofs (done).
7. Proofs: the file-version properties and the breaker counters of BatchRun (`BatchRunProofs`),
   the invariants of RunClient and of SettingsPage (`RunClientProofs`, `SettingsProofs`) (done).
8. Proofs: what a conversion promises of its rows, its scenes, its selection and its pictures, and
   what the reports tell of it (`FileToReportProofs`) (done).
9. Proofs: the reading of replies (`LLMRequestProofs`) (done).

## Not modelled

Decoding of media files, pixels and colour profiles, the window toolkit, logging, texts and markup:
they keep no state the rest depends on.  The bounds of single settings (`config_validator.py`) are a
table of independent rules.  Of the exporter, the cutting of columns and long texts, the summary sheet
and styling are left out: layout without state.

Hazards without a property.  Two rewrites of a file with one size inside one tick of the file
system's clock look like no rewrite.  With WAL and synchronous=NORMAL a power failure may take back
the last transactions, whole ones.  A Stop accepted after `core.run` has read the abort flag ends as
done: the page says so.  Closing the window reads the abort event without the controller's lock and
may miss a run that is just being started.  A Start that never reaches the server leaves the page
asking once a second.  The number of an automatic result is taken before the controller's lock: a
manual export that is refused in between gets a higher one, and the page then drops the result.  And
the three listed in `PROJECT.json` with the reason.
