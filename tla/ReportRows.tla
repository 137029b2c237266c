----------------------------- MODULE ReportRows -----------------------------
(***************************************************************************)
(* What the reports of a database contain (_results_rows, _reports and the *)
(* sheets of _workbook in src/src/data_exporter.py).                       *)
(*                                                                         *)
(* A database is a record of tables, an id being a position:               *)
(*   ai, mode    ENABLE_LLM_INFERENCE and the output mode of its run;      *)
(*   files       [path, source, complete, error, comment, range], comment  *)
(*               being the claim of the conversion, "" before it ends;     *)
(*   pages       [file, page, status, time], time Absent for no timestamp; *)
(*   requests    [file, pages, status], pages being a set of page numbers; *)
(*   answers     [request, file, page, error, empty], page being a row of  *)
(*               pages or 0 for NULL;                                      *)
(*   readable    the stored values of the answers can be read.             *)
(* A row of the Results is [file, result, request, answer, page, time,     *)
(* notes]: the records it is made of (0 for none), the page numbers in its *)
(* pages cell, its frame time, and which notes it carries.  Wording is     *)
(* left out, and so are the notes of a request repeated under one number,  *)
(* which this version of the program never records.                        *)
(***************************************************************************)
EXTENDS StatusViews, Ordered, FiniteSetsExt, SequencesExt

CONSTANT EXCEL_MAX_ROWS     \* rows of one sheet, its header apart
ASSUME RowsAssumption == EXCEL_MAX_ROWS \in Nat \ {0}

NoTime == -1

PagesOf(db, f) == {p \in DOMAIN db.pages : db.pages[p].file = f}
RequestsOf(db, f) == {q \in DOMAIN db.requests : db.requests[q].file = f}
AnswersOf(db, q) == {a \in DOMAIN db.answers : db.answers[a].request = q}

-----------------------------------------------------------------------------

\* _validate_references, and the records of AI in a run without it.
ValidReferences(db) ==
  /\ \A a \in DOMAIN db.answers :
       LET x == db.answers[a]
       IN  /\ x.request \in DOMAIN db.requests /\ x.file \in DOMAIN db.files
           /\ db.requests[x.request].file = x.file
           /\ x.page # 0 => x.page \in DOMAIN db.pages /\ db.pages[x.page].file = x.file
  /\ \A q \in DOMAIN db.requests : db.requests[q].file \in DOMAIN db.files
  /\ \A p \in DOMAIN db.pages : db.pages[p].file \in DOMAIN db.files
  /\ ~ db.ai => db.requests = << >>

\* The attempts of the path before f, or after it, and which of them is next to f.
SamePath(db, f, range) == {g \in range : db.files[g].path = db.files[f].path}
Previous(db, f) == SamePath(db, f, 1 .. f - 1)
Later(db, f) == SamePath(db, f, f + 1 .. Len(db.files))

OtherSource(db, f, g) ==
  db.files[f].source # "" /\ db.files[g].source # "" /\ db.files[g].source # db.files[f].source

\* Mutant: failed pages are thought to tell of everything else that failed.
NotedErrors(comment) == comment = "error"

\* Only the comment of a wholly successful conversion is left out.
Noted(comment) == comment \notin {"", "all saved"}

FileNotes(db, f) ==
  LET a == db.files[f]
      Failed == {p \in PagesOf(db, f) : db.pages[p].status \notin {"ok", "skipped"}}
      Converted == {p \in PagesOf(db, f) : db.pages[p].status = "ok"}
      applies ==
        [incomplete    |-> ~ a.complete,
         error         |-> ~ a.complete /\ a.error,
         attempt       |-> Previous(db, f) \cup Later(db, f) # {},
         changed_since |-> Previous(db, f) # {} /\ OtherSource(db, f, Max(Previous(db, f))),
         changed_after |-> Later(db, f) # {} /\ OtherSource(db, f, Min(Later(db, f))),
         pages_failed  |-> Failed # {},
         comment       |-> Noted(a.comment),
         truncated     |-> a.range = "truncated",
         partial_skip  |-> a.range = "partial_skip",
         unrecorded    |-> a.range = "",
         no_request    |-> RequestsOf(db, f) = {} /\ db.ai /\ Converted # {},
         other_request |-> Cardinality(RequestsOf(db, f)) > 1
                           /\ \E q \in RequestsOf(db, f) : db.requests[q].status # "ok"]
  IN  {n \in DOMAIN applies : applies[n]}

\* The attempt as the status views see it, and the file_result column.
Attempt(db, f) ==
  LET range == db.files[f].range
      Flawed(q) == \E a \in AnswersOf(db, q) : db.answers[a].error # ""
  IN  [pages    |-> [s \in PageStatuses |->
                      Cardinality({p \in PagesOf(db, f) : db.pages[p].status = s})],
       range    |-> IF range \in {"truncated", "partial_skip"} THEN "ok" ELSE range,
       reqs     |-> [i \in 1 .. Cardinality(RequestsOf(db, f)) |->
                      LET q == InOrder(RequestsOf(db, f))[i]
                      IN  [status |-> db.requests[q].status, flawed |-> Flawed(q)]],
       ai       |-> db.ai,
       complete |-> db.files[f].complete]

Result(db, f) == overall_result(Attempt(db, f))

\* The time of a page is known when one converted page has its number.
FrameTime(db, f, cell) ==
  LET rows == {p \in PagesOf(db, f) : cell = {db.pages[p].page} /\ db.pages[p].status = "ok"}
  IN  IF Cardinality(rows) = 1 THEN db.pages[CHOOSE p \in rows : TRUE].time ELSE NoTime

OwnPage(db, a) ==
  LET page == db.answers[a].page IN IF page = 0 THEN {} ELSE {db.pages[page].page}

AnswerCell(db, a) ==
  LET x == db.answers[a]
  IN  IF x.error = "hallucinated_page_number" THEN {}
      ELSE IF db.mode = "table_per_file" /\ x.error = "" THEN db.requests[x.request].pages
      ELSE OwnPage(db, a)

AnswerTime(db, a, cell) ==
  IF cell # {} /\ cell = OwnPage(db, a) THEN db.pages[db.answers[a].page].time
  ELSE FrameTime(db, db.answers[a].file, cell)

FileRow(db, f) ==
  [file |-> f, result |-> Result(db, f), request |-> 0, answer |-> 0,
   page |-> {}, time |-> NoTime, notes |-> FileNotes(db, f)]

RequestNotes(db, q) ==
  FileNotes(db, db.requests[q].file) \cup
    (IF db.requests[q].status = "ok" THEN {} ELSE {db.requests[q].status})

RequestRow(db, q) ==
  LET r == db.requests[q]
  IN  [file |-> r.file, result |-> Result(db, r.file), request |-> q, answer |-> 0,
       page |-> r.pages, time |-> FrameTime(db, r.file, r.pages),
       notes |-> RequestNotes(db, q) \cup (IF r.status = "ok" THEN {"no_answer"} ELSE {})]

AnswerRow(db, a) ==
  LET x == db.answers[a]
      cell == AnswerCell(db, a)
  IN  [file |-> x.file, result |-> Result(db, x.file), request |-> x.request, answer |-> a,
       page |-> cell, time |-> AnswerTime(db, a, cell),
       notes |-> RequestNotes(db, x.request)
                   \cup (IF x.error = "" THEN {} ELSE {x.error})
                   \cup (IF x.error = "" /\ x.empty THEN {"empty_values"} ELSE {})]

results_rows(db) ==
  {FileRow(db, f) : f \in {g \in DOMAIN db.files : RequestsOf(db, g) = {}}}
  \cup {RequestRow(db, q) : q \in {r \in DOMAIN db.requests : AnswersOf(db, r) = {}}}
  \cup {AnswerRow(db, a) : a \in DOMAIN db.answers}

-----------------------------------------------------------------------------
(* The reports, and the sheets of the workbook.                            *)

Csvs(db) ==
  <<"Results", "Master Registry", "Page Log">> \o
  (IF db.ai THEN <<"LLM Requests", "LLM Answers">> ELSE << >>)

RowCount(db, report) ==
  CASE report = "Results" -> Cardinality(results_rows(db))
    [] report = "Master Registry" -> Len(db.files)
    [] report = "Page Log" -> Len(db.pages)
    [] report = "LLM Requests" -> Len(db.requests)
    [] OTHER -> Len(db.answers)

\* A report whose rows raise ValueError; the workbook holds every report.
Broken(db, report) ==
  \/ report \in {"Results", "Workbook"} /\ ~ ValidReferences(db)
  \/ report \in {"Results", "Workbook", "LLM Answers"} /\ ~ db.readable /\ db.answers # << >>

\* Mutant: the row that waited is forgotten.
SheetWithoutLast(total) ==
  LET kept == IF total < EXCEL_MAX_ROWS THEN total ELSE EXCEL_MAX_ROWS - 1
  IN  [shown |-> kept, marked |-> total > EXCEL_MAX_ROWS,
       omitted |-> IF total > EXCEL_MAX_ROWS THEN total - kept ELSE 0]

\* The row that would be the last waits until it is known to be the last.
Sheet(total) ==
  LET Take(s, n) ==
        CASE n < EXCEL_MAX_ROWS -> [shown |-> s.shown + 1, kept |-> s.kept + 1, marked |-> s.marked]
          [] n = EXCEL_MAX_ROWS + 1 -> [s EXCEPT !.marked = TRUE]
          [] OTHER -> s
      taken[n \in Nat] ==
        IF n = 0 THEN [shown |-> 0, kept |-> 0, marked |-> FALSE] ELSE Take(taken[n - 1], n)
      end == taken[total]
  IN  [shown   |-> IF total = EXCEL_MAX_ROWS THEN end.shown + 1 ELSE end.shown,
       marked  |-> end.marked,
       omitted |-> IF total > EXCEL_MAX_ROWS THEN total - end.kept ELSE 0]

Sheets(db) == [report \in ToSet(Csvs(db)) |-> Sheet(RowCount(db, report))]
=============================================================================
