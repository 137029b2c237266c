---------------------------- MODULE FileToReport ----------------------------
(***************************************************************************)
(* From a source file to the reports on it: its conversion                 *)
(* (VideoConversion), what the batch loop records of it and of the AI's    *)
(* answers (_process_file of src/src/batch_orchestrator.py), and the       *)
(* exports of the database (ReportExport).  How the answers come about and *)
(* how the loop goes on are the subject of LLMRequest and BatchRun; here   *)
(* each shape the records can take is a choice.                            *)
(***************************************************************************)
EXTENDS VideoConversion, ReportExport

CONSTANTS
  Reported,                  \* the files whose conversion is followed to the reports
  MAX_JPEGS_PER_INFERENCE
ASSUME ReportedAssumption == Reported \subseteq Files /\ MAX_JPEGS_PER_INFERENCE \in Nat \ {0}

NoDatabase == [ai |-> FALSE, mode |-> "", files |-> << >>, pages |-> << >>, requests |-> << >>,
               answers |-> << >>, readable |-> TRUE]

FileToReportInit ==
  /\ ConversionInit
  /\ db = NoDatabase /\ snapshot = NoDatabase /\ temporary = NoFile /\ litter = {}
  /\ folder = << >> /\ phase = "none" /\ queue = << >> /\ stamp = << >>
  /\ path = << >> /\ target = <<"", << >>>> /\ attempt = 0 /\ complete = FALSE
  /\ outcome = NoOutcome /\ exports = 0 /\ luck = 0

-----------------------------------------------------------------------------
(* The records of the batch loop.                                          *)

\* What may precede this attempt in the database: an attempt that was stopped
\* after a page, or one that was complete before the source changed.
EarlierFiles ==
  {<< >>,
   <<[path |-> "it", source |-> "now", complete |-> FALSE, error |-> TRUE,
      comment |-> "aborted", range |-> "failure"]>>,
   <<[path |-> "it", source |-> "then", complete |-> TRUE, error |-> FALSE,
      comment |-> "nothing extracted", range |-> "skipped"]>>}

EarlierPages(files) ==
  IF files # << >> /\ files[1].source = "now"
  THEN <<[file |-> 1, page |-> 1, status |-> "ok", time |-> NoTime]>> ELSE << >>

\* The file as handle_file_started, handle_file_completed, finalize_file and
\* record_file_interruption leave it; `end` is how the attempt ended.
FileRecord(end) ==
  [path |-> "it", source |-> "now", complete |-> end = "complete", error |-> end = "interrupted",
   comment |-> IF stage = "ended" THEN summary.claim ELSE IF end = "lost" THEN "" ELSE "aborted",
   range   |-> IF stage = "ended" THEN summary.status ELSE IF end = "lost" THEN "" ELSE "failure"]

PageRecord(f, row) == [file |-> f, page |-> row.page, status |-> row.status, time |-> row.time]

\* get_successful_frames, in requests of MAX_JPEGS_PER_INFERENCE pages.
Frames == InOrder({i \in DOMAIN rows : rows[i].status = "ok"})
RequestCount == (Len(Frames) + MAX_JPEGS_PER_INFERENCE - 1) \div MAX_JPEGS_PER_INFERENCE
FramesOf(q) ==
  SubSeq(Frames, (q - 1) * MAX_JPEGS_PER_INFERENCE + 1,
         LET end == q * MAX_JPEGS_PER_INFERENCE IN IF end < Len(Frames) THEN end ELSE Len(Frames))

\* The requests before `bad` succeed, `bad` ends with a status of its own.
Requests(f, count, bad, status) ==
  [q \in 1 .. count |->
    [file |-> f, pages |-> {rows[i].page : i \in ToSet(FramesOf(q))},
     status |-> IF q = bad THEN status
                ELSE IF bad # 0 /\ q > bad /\ status = "not_attempted" THEN status ELSE "ok"]]

Flaws == {"", "no_row_returned", "duplicate_page_number", "hallucinated_page_number", "empty"}

\* The answers to one request: one for the file, or one for each page, the last
\* of which has the flaw.
AnswersTo(f, first, q, mode, flaw) ==
  LET Answer(page, error) ==
        [request |-> q, file |-> f, page |-> page, error |-> error, empty |-> flaw = "empty"]
      frames == FramesOf(q)
      good == [i \in 1 .. Len(frames) - 1 |-> Answer(first + frames[i], "")]
      last == first + Last(frames)
  IN  IF mode = "table_per_file" THEN <<Answer(0, "")>>
      ELSE good \o CASE flaw = "no_row_returned" -> <<Answer(last, flaw)>>
                     [] flaw = "duplicate_page_number" -> <<Answer(last, ""), Answer(last, flaw)>>
                     [] flaw = "hallucinated_page_number" -> <<Answer(last, ""), Answer(0, flaw)>>
                     [] OTHER -> <<Answer(last, "")>>

Records(earlier, end, mode, count, bad, status, flaw) ==
  LET f == Len(earlier) + 1
      before == EarlierPages(earlier)
      sent == Requests(f, count, bad, status)
      Answers(q) == IF sent[q].status = "ok"
                    THEN AnswersTo(f, Len(before), q, mode, IF q = 1 THEN flaw ELSE "") ELSE << >>
  IN  [ai |-> mode # "", mode |-> mode,
       files |-> Append(earlier, FileRecord(end)),
       pages |-> before \o [i \in DOMAIN rows |-> PageRecord(f, rows[i])],
       requests |-> sent,
       answers |-> FlattenSeq([q \in 1 .. count |-> Answers(q)]),
       readable |-> TRUE]

\* finalize_file refuses requests that are missing or unfinished.
MayFinalize(count, bad, status) ==
  stage = "ended" /\ count = RequestCount /\ (bad # 0 => status \notin UnfinishedStatuses)

\* _process_file, to its end or to where it was interrupted or killed.  Sending
\* an AI nothing, or having sent nothing yet, leaves no request.
Recorded ==
  /\ stage \in {"ended", "stopped"} /\ file \in Reported /\ phase = "none" /\ phase' = "closed"
  /\ \E earlier \in EarlierFiles, mode \in {"", "table_per_file", "table_per_page"},
        end \in {"complete", "interrupted", "lost"}, flaw \in Flaws,
        status \in {"ok", "network_failure", "not_attempted"} :
       \E count \in 0 .. (IF mode = "" \/ stage = "stopped" THEN 0 ELSE RequestCount) :
         \E bad \in IF status = "ok" THEN {0} ELSE 1 .. count :
           LET spent == Cardinality({what \in {"end", "flaw", "status"} :
                          \/ what = "end" /\ end # "complete" /\ stage = "ended"
                          \/ what = "flaw" /\ flaw # ""
                          \/ what = "status" /\ status # "ok"})
           IN  /\ IF mode = "" THEN end = "complete" => stage = "ended"
                  ELSE end = "complete" => MayFinalize(count, bad, status)
               /\ flaw # "" => mode = "table_per_page" /\ count > 0
               /\ spent <= MaxMishaps - mishaps
               /\ luck' = MaxMishaps - mishaps - spent
               /\ db' = Records(earlier, end, mode, count, bad, status, flaw)
  /\ \E names \in {{}, {<<"Recovery", << >>>>, <<"Page Log", <<2>>>>}} :
       folder' = [name \in names |-> [report |-> name[1], whole |-> TRUE, seen |-> 0, csvs |-> {}]]
  /\ UNCHANGED <<snapshot, temporary, litter, queue, stamp, job, outcome, exports>>

\* The database was damaged: an answer whose values cannot be read, or one that
\* refers to the page of another attempt.
Damaged ==
  /\ phase = "closed" /\ db.answers # << >> /\ Mishappens
  /\ \/ db' = [db EXCEPT !.readable = FALSE]
     \/ db.pages[1].file = 1 /\ Len(db.files) = 2 /\ db' = [db EXCEPT !.answers[1].page = 1]
  /\ UNCHANGED <<snapshot, folder, temporary, litter, phase, queue, stamp, job, outcome, exports>>

FileToReportNext ==
  \/ ConversionNext /\ UNCHANGED exportVars
  \/ (Recorded \/ Damaged) /\ UNCHANGED conversionVars
  \/ ExportNext /\ UNCHANGED conversionVars

FileToReportSpec == FileToReportInit /\ [][FileToReportNext]_<<conversionVars, exportVars>>

-----------------------------------------------------------------------------
(* What the reports say of the conversion.                                 *)

\* The Results are looked at when the records are complete.
Telling == phase = "closed" /\ ValidReferences(db)
ResultsOfThis == {r \in results_rows(db) : r.file = Len(db.files)}

Pictured(page, time) == \E j \in jpegs : j.name = Named(page, time) /\ j.whole

\* "Notes" is the column a user reads to find what is missing: where it is empty
\* the attempt was complete, every target of the conversion has its picture in
\* the folder, and the AI was sent every one of them with success.
EmptyNotesMeanComplete ==
  Telling => \A r \in ResultsOfThis : r.notes = {} =>
    /\ db.files[r.file].complete /\ summary.claim = "all saved"
    /\ \A k \in DOMAIN targets : \E i \in DOMAIN rows :
         rows[i].page = Planned[k] /\ Pictured(rows[i].page, rows[i].time)
    /\ db.ai => \A i \in DOMAIN rows : \E q \in DOMAIN db.requests :
         rows[i].page \in db.requests[q].pages /\ db.requests[q].status = "ok"

\* A file whose result is neither ok nor skipped says why in one of its rows,
\* whichever record the views took the result from.
BadResultsAreExplained ==
  Telling => \A f \in DOMAIN db.files :
    LET of == {r \in results_rows(db) : r.file = f}
    IN  /\ of # {}
        /\ Result(db, f) \notin {"ok", "skipped"} => \E r \in of : r.notes # {}

\* A row about one page carries the time of the picture that was sent for it:
\* the file of that name is in the folder.
TimesAreOfThePicture ==
  Telling => \A r \in ResultsOfThis : \A page \in r.page :
    Cardinality(r.page) = 1 => Pictured(page, r.time)

\* What the Results say in notes and times is so, and bad results are told of.
NotesTellTheTruth == EmptyNotesMeanComplete /\ BadResultsAreExplained /\ TimesAreOfThePicture
=============================================================================
